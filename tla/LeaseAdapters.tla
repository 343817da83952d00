---------------------------- MODULE LeaseAdapters ----------------------------
(***************************************************************************)
(* Who takes and releases the leases of FetchInterceptor: user code, the   *)
(* React provider (packages/react/src/index.ts) and the Vue plugin         *)
(* (packages/vue/src/index.ts), in a browser.                              *)
(*                                                                         *)
(* React commits what was rendered: the cleanups and the effects that the  *)
(* commit calls for run one after another, and nothing else runs until the *)
(* last of them.  Layout effects are also cleaned up when a provider is    *)
(* hidden and run again when it is revealed, and StrictMode runs those of  *)
(* a new provider twice.                                                   *)
(***************************************************************************)
EXTENDS FetchInterceptor

CONSTANTS
    Providers,     \* places in a React tree
    Apps,          \* Vue apps
    UserCode,      \* what takes leases itself
    Casts,         \* who may be there: sets of these and of requests
    Offered        \* the options that components may give

ASSUME OfferedAssumption == Offered \subseteq Options
ASSUME PartiesAssumption ==
    /\ Providers \cap Apps = {} /\ (Providers \cup Apps) \cap Leases = {}

VARIABLES
    cast,
    props,         \* what each provider was rendered with last, in a set
    shown,         \* the providers whose effects are in force
    optionsRef,    \* optionsRef.current of each provider
    handle,        \* the lease that each provider or app knows, in a set
    effects,       \* what is left of a commit: the provider and its effects
    apps,          \* "new", "installed", "mounted" or "over"
    users,         \* the leases that user code took itself
    arrivals       \* history: who intercepts, in the order of arrival

adapters == <<cast, props, shown, optionsRef, handle, effects, apps, users, arrivals>>

AdaptersInit ==
    /\ Init /\ cast \in Casts
    /\ props = [p \in Providers |-> {}] /\ shown = {}
    /\ optionsRef = [p \in Providers |-> "passthrough"]
    /\ handle = [a \in Providers \cup Apps |-> {}]
    /\ effects = <<>>
    /\ apps = [a \in Apps |-> "new"]
    /\ users = {} /\ arrivals = <<>>

Idle == effects = <<>>
Ready(party) == party \in cast /\ Idle
Free(mock) == {l \in Leases : heldBy[l] = 0 /\ OwnerOf[l] = mock}

Others(owner) ==
    IF owner \in ToSet(arrivals)
    THEN RemoveAt(arrivals, CHOOSE i \in DOMAIN arrivals : arrivals[i] = owner)
    ELSE arrivals
Arrive(owner) == arrivals' = Append(Others(owner), owner)
Depart(owner) == arrivals' = Others(owner)

-----------------------------------------------------------------------------
(* React. *)

Effect(p, name) == [at |-> p, do |-> name]
SetUp(p) == <<Effect(p, "lease"), Effect(p, "update")>>
CleanUp(p) == <<Effect(p, "release")>>

\* Mutant: the lease is keyed on the options as well.
ChangedByAnything(p, old, new) == CleanUp(p) \o SetUp(p)

\* The effects of a provider that is rendered again: those whose dependencies
\* changed, all cleanups first.
Changed(p, old, new) ==
    (IF old.mock # new.mock THEN CleanUp(p) \o <<Effect(p, "lease")>> ELSE <<>>)
    \o (IF old.options # new.options THEN <<Effect(p, "update")>> ELSE <<>>)

\* Enough leases are left for the effects.
Affords(mock, list) ==
    Len(SelectSeq(list, LAMBDA e : e.do = "lease")) <= Cardinality(Free(mock))

Rendered == [mock : Mocks, options : Offered]

Mount(p) ==
    /\ Ready(p) /\ props[p] = {}
    /\ \E new \in Rendered, strict \in BOOLEAN :
          /\ props' = [props EXCEPT ![p] = {new}]
          /\ optionsRef' = [optionsRef EXCEPT ![p] = new.options]
          /\ effects' = SetUp(p) \o IF strict THEN CleanUp(p) \o SetUp(p) ELSE <<>>
          /\ Affords(new.mock, effects')
    /\ shown' = shown \cup {p}
    /\ Arrive(p)
    /\ UNCHANGED <<vars, cast, handle, apps, users>>

Rerender(p) ==
    /\ Ready(p)
    /\ \E old \in props[p], new \in Rendered :
          /\ old # new
          /\ props' = [props EXCEPT ![p] = {new}]
          /\ effects' = IF p \in shown THEN Changed(p, old, new) ELSE <<>>
          /\ Affords(new.mock, effects')
          /\ IF p \in shown /\ old.mock # new.mock THEN Arrive(p) ELSE UNCHANGED arrivals
    /\ UNCHANGED <<vars, cast, shown, optionsRef, handle, apps, users>>

\* The provider goes, or is hidden.
Unmount(p) ==
    /\ Ready(p) /\ props[p] # {}
    /\ \/ props' = [props EXCEPT ![p] = {}]
       \/ p \in shown /\ UNCHANGED props
    /\ shown' = shown \ {p}
    /\ effects' = IF p \in shown THEN CleanUp(p) ELSE <<>>
    /\ Depart(p)
    /\ UNCHANGED <<vars, cast, optionsRef, handle, apps, users>>

Reveal(p) ==
    /\ Ready(p) /\ p \notin shown
    /\ \E old \in props[p] : Affords(old.mock, SetUp(p))
    /\ shown' = shown \cup {p}
    /\ effects' = SetUp(p)
    /\ Arrive(p)
    /\ UNCHANGED <<vars, cast, props, optionsRef, handle, apps, users>>

Lease(p) ==
    /\ \E given \in props[p] : \E l \in Free(given.mock) :
          /\ Intercept(l, optionsRef[p])
          /\ handle' = [handle EXCEPT ![p] = {l}]
    /\ UNCHANGED optionsRef

Release(a) ==
    /\ handle' = [handle EXCEPT ![a] = {}]
    /\ \E l \in handle[a] : Restore(l)

UpdateLease(p) ==
    /\ \E given \in props[p] :
          /\ optionsRef' = [optionsRef EXCEPT ![p] = given.options]
          /\ \/ \E l \in handle[p] : Update(l, given.options)
             \/ /\ \A l \in handle[p] : options[l] = given.options
                /\ UNCHANGED vars
    /\ UNCHANGED handle

RunEffect ==
    /\ ~Idle /\ effects' = Tail(effects)
    /\ LET p == Head(effects).at IN
       \/ Head(effects).do = "lease" /\ Lease(p)
       \/ Head(effects).do = "update" /\ UpdateLease(p)
       \/ Head(effects).do = "release" /\ Release(p) /\ UNCHANGED optionsRef
    /\ UNCHANGED <<cast, props, shown, apps, users, arrivals>>

-----------------------------------------------------------------------------
(* Vue. *)

Install(a) ==
    /\ Ready(a) /\ apps[a] = "new"
    /\ apps' = [apps EXCEPT ![a] = "installed"]
    /\ \E l \in Leases, o \in Offered :
          Intercept(l, o) /\ handle' = [handle EXCEPT ![a] = {l}]
    /\ Arrive(a)
    /\ UNCHANGED <<cast, props, shown, optionsRef, effects, users>>

MountApp(a) ==
    /\ Ready(a) /\ apps[a] = "installed"
    /\ apps' = [apps EXCEPT ![a] = "mounted"]
    /\ UNCHANGED <<vars, cast, props, shown, optionsRef, handle, effects, users, arrivals>>

\* restoreSchmockInterception(): mount() threw, the app is unmounted, or user
\* code calls it.
RestoreApp(a) ==
    /\ Ready(a) /\ apps[a] \in {"installed", "mounted"}
    /\ apps' = [apps EXCEPT ![a] = "over"]
    /\ Release(a)
    /\ Depart(a)
    /\ UNCHANGED <<cast, props, shown, optionsRef, effects, users>>

-----------------------------------------------------------------------------
(* User code. *)

UserLeases ==
    /\ Ready(UserCode)
    /\ \E l \in Leases :
       \/ /\ \E o \in Given[l] : Intercept(l, o)
          /\ users' = users \cup {l} /\ Arrive(l)
       \/ /\ l \in users /\ Restore(l)
          /\ Depart(l) /\ UNCHANGED users
       \/ /\ l \in users /\ \E o \in Given[l] : Update(l, o)
          /\ UNCHANGED <<users, arrivals>>
    /\ UNCHANGED <<cast, props, shown, optionsRef, handle, effects, apps>>

Elsewhere ==
    /\ Idle
    /\ \/ \E w \in Wrappers : Wrap(w) \/ Unwrap(w)
       \/ \E r \in Requests \cap cast : Call(r) \/ Abort(r) \/ RequestStep(r) \/ UserCodeStep(r)
    /\ UNCHANGED adapters

AdaptersNext ==
    \/ \E p \in Providers : Mount(p) \/ Rerender(p) \/ Unmount(p) \/ Reveal(p)
    \/ RunEffect
    \/ \E a \in Apps : Install(a) \/ MountApp(a) \/ RestoreApp(a)
    \/ UserLeases \/ Elsewhere

AdaptersSpec == AdaptersInit /\ [][AdaptersNext]_<<vars, adapters>>

-----------------------------------------------------------------------------
(* Properties. *)

OwnersOf(l) == {a \in Providers \cup Apps : l \in handle[a]} \cup ({l} \cap users)
Before(a, b) ==
    \E i, j \in DOMAIN arrivals : i < j /\ arrivals[i] = a /\ arrivals[j] = b

\* What intercepts fetch is what its owners ask for.  A provider that is shown
\* holds one lease, on the mock and with the options it was rendered with, and
\* no lease outlives its owner, so that without third-party code fetch is the
\* original exactly when nobody intercepts ("the original `fetch` returns once
\* the last lease is released", docs/api.md 248-250); and leases are asked in
\* the order their owners came, which new options do not change ("reconfiguring
\* one root never promotes it above a root that mounted later", docs/react.md).
LeasesFollowOwners ==
    Idle =>
        /\ \A p \in Providers :
              IF p \in shown
              THEN \E given \in props[p], l \in Leases :
                      /\ handle[p] = {l} /\ OwnerOf[l] = given.mock
                      /\ options[l] = given.options
              ELSE handle[p] = {}
        /\ \A l \in Leases : l \in Held <=> OwnersOf(l) \cap ToSet(arrivals) # {}
        /\ (\A w \in Wrappers : inner[w] = {}) => (arrivals = <<>> <=> fetch = Native)
        /\ \A s \in DOMAIN sessions : \A i, j \in DOMAIN sessions[s].interceptors :
              i < j => \A a \in OwnersOf(sessions[s].interceptors[i]),
                          b \in OwnersOf(sessions[s].interceptors[j]) : Before(a, b)

=============================================================================
