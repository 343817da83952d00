-------------------------- MODULE FetchInterceptor --------------------------
(***************************************************************************)
(* The global fetch interceptor (packages/core/src/interceptor.ts): the    *)
(* leases mocks take with intercept(), the sessions that replace           *)
(* globalThis.fetch and put it back, third-party code that replaces fetch  *)
(* meanwhile, and the requests that pass through the leases.               *)
(*                                                                         *)
(* A session is one dispatchFetch function with its list of interceptors.  *)
(* A new lease joins the active session while its dispatcher is the        *)
(* current fetch, and opens a session on top of whatever fetch is          *)
(* otherwise.  A request is one call of fetch; what it passes through is   *)
(* chosen as it goes, so each stretch between two awaits is an action.     *)
(*                                                                         *)
(* Requests only read the sessions and the options: two requests do not    *)
(* influence each other here.  What an admission means to the mock is in   *)
(* MockLifecycle (Admit, AdapterRelease, AdapterAbandon).                  *)
(***************************************************************************)
EXTENDS Naturals, Sequences, SequencesExt

CONSTANTS
    Leases,        \* calls of intercept()
    Mocks,
    OwnerOf,       \* the mock behind each lease
    Wrappers,      \* third-party replacements of fetch that delegate to it
    Requests,      \* calls of fetch
    Given          \* the options given to intercept() and update() of each lease

\* What the options of a lease mean to a request: its baseUrl excludes it, or
\* a miss passes it on, or a miss is answered with a 404.
Options == {"exclude", "passthrough", "strict"}

ASSUME GivenAssumption == Given \in [Leases -> SUBSET Options]
ASSUME OwnerAssumption == OwnerOf \in [Leases -> Mocks]

\* What globalThis.fetch can be.
Native == [kind |-> "native"]
Dispatch(s) == [kind |-> "dispatch", session |-> s]
Wrapper(w) == [kind |-> "wrapper", wrapper |-> w]

Final == {"mocked", "real", "failed"}

VARIABLES
    fetch,         \* globalThis.fetch
    sessions,      \* every session made, oldest first
    activeSession, \* its index, 0 when undefined
    heldBy,        \* the session of each lease, 0 before intercept()
    options,       \* currentOptions of each lease
    restored,      \* the leases that were restored
    inner,         \* what each wrapper replaced: {} before
    removed,       \* the wrappers that were removed
    req,           \* what each request keeps between two awaits
    consults,      \* the leases that admitted each request, with the options
    filtered,      \* the leases that filtered it out
    atCall         \* the leases held and restored when it was made

leases == <<sessions, activeSession, heldBy, options, restored>>
thirdParty == <<inner, removed>>
log == <<consults, filtered, atCall>>
vars == <<fetch, leases, thirdParty, req, log>>

Init ==
    /\ fetch = Native
    /\ sessions = <<>> /\ activeSession = 0
    /\ heldBy = [l \in Leases |-> 0]
    /\ options = [l \in Leases |-> "passthrough"]
    /\ restored = {}
    /\ inner = [w \in Wrappers |-> {}]
    /\ removed = {}
    /\ req = [r \in Requests |->
                [phase |-> "idle", at |-> Native, todo |-> <<>>,
                 consultedOwners |-> {}, lease |-> {}, read |-> "exclude",
                 supported |-> TRUE, held |-> FALSE, aborted |-> FALSE]]
    /\ consults = [r \in Requests |-> <<>>]
    /\ filtered = [r \in Requests |-> {}]
    /\ atCall = [r \in Requests |-> [held |-> {}, restored |-> {}]]

\* The leases that are held.
Held == {l \in Leases : heldBy[l] # 0 /\ l \notin restored}

-----------------------------------------------------------------------------
(* Leases. *)

\* The active session is still what fetch calls.
Joins == activeSession # 0 /\ fetch = Dispatch(activeSession)

\* intercept(options)
Intercept(l, o) ==
    /\ heldBy[l] = 0
    /\ options' = [options EXCEPT ![l] = o]
    /\ \/ /\ Joins
          /\ heldBy' = [heldBy EXCEPT ![l] = activeSession]
          /\ sessions' =
                [sessions EXCEPT ![activeSession].interceptors = Append(@, l)]
          /\ UNCHANGED <<fetch, activeSession>>
       \/ /\ ~Joins
          /\ LET s == Len(sessions) + 1 IN
             /\ heldBy' = [heldBy EXCEPT ![l] = s]
             /\ sessions' = Append(sessions,
                               [baseline |-> fetch, interceptors |-> <<l>>])
             /\ activeSession' = s
             /\ fetch' = Dispatch(s)
    /\ UNCHANGED <<restored, thirdParty, req, log>>

\* Mutant: the lease is marked released and stays in the list.
WithoutNothing(s, l) == sessions[s].interceptors
\* The entry is found by its token, and spliced out.
Without(s, l) ==
    LET list == sessions[s].interceptors IN
    RemoveAt(list, CHOOSE i \in DOMAIN list : list[i] = l)

\* Mutant: the last restore() of a session overwrites whatever fetch is.
FetchAfterAlways(s) == sessions[s].baseline
\* Mutant: fetch is not put back.
FetchAfterNever(s) == fetch

\* A wrapper installed on top of the session is left alone.
FetchAfter(s) == IF fetch = Dispatch(s) THEN sessions[s].baseline ELSE fetch

\* restore(); calling it again does nothing.
Restore(l) ==
    /\ heldBy[l] # 0 /\ l \notin restored
    /\ restored' = restored \cup {l}
    /\ LET s == heldBy[l] IN
       /\ sessions' = [sessions EXCEPT ![s].interceptors = Without(s, l)]
       /\ \/ /\ sessions'[s].interceptors # <<>>
             /\ UNCHANGED <<activeSession, fetch>>
          \/ /\ sessions'[s].interceptors = <<>>
             /\ activeSession' = IF activeSession = s THEN 0 ELSE activeSession
             /\ fetch' = FetchAfter(s)
    /\ UNCHANGED <<heldBy, options, thirdParty, req, log>>

\* update(options) of a lease that is held.
Update(l, o) ==
    /\ heldBy[l] # 0 /\ l \notin restored
    /\ options[l] # o
    /\ options' = [options EXCEPT ![l] = o]
    /\ UNCHANGED <<fetch, sessions, activeSession, heldBy, restored,
                   thirdParty, req, log>>

-----------------------------------------------------------------------------
(* Third-party code, modelled as the tests of interceptor.ts use it. *)

Wrap(w) ==
    /\ inner[w] = {}
    /\ inner' = [inner EXCEPT ![w] = {fetch}]
    /\ fetch' = Wrapper(w)
    /\ UNCHANGED <<leases, removed, req, log>>

\* The wrapper puts back the fetch it had replaced, while it is in place.
Unwrap(w) ==
    /\ inner[w] # {} /\ w \notin removed
    /\ fetch = Wrapper(w)
    /\ removed' = removed \cup {w}
    /\ \E f \in inner[w] : fetch' = f
    /\ UNCHANGED <<leases, inner, req, log>>

-----------------------------------------------------------------------------
(* Requests. *)

Become(r, q) == req' = [req EXCEPT ![r] = q]

\* Somebody calls fetch, with a method the mocks support or another one.
Call(r) ==
    /\ req[r].phase = "idle"
    /\ \E supported \in BOOLEAN :
          Become(r, [req[r] EXCEPT !.phase = "call", !.at = fetch,
                                   !.supported = supported])
    /\ atCall' = [atCall EXCEPT ![r] = [held |-> Held, restored |-> restored]]
    /\ UNCHANGED <<fetch, leases, thirdParty, consults, filtered>>

CallWrapper(r) ==
    /\ req[r].phase = "call"
    /\ req[r].at.kind = "wrapper"
    /\ \E f \in inner[req[r].at.wrapper] :
          Become(r, [req[r] EXCEPT !.at = f])
    /\ UNCHANGED <<fetch, leases, thirdParty, log>>

CallNative(r) ==
    /\ req[r].phase = "call"
    /\ req[r].at = Native
    /\ Become(r, [req[r] EXCEPT !.phase = "real"])
    /\ UNCHANGED <<fetch, leases, thirdParty, log>>

\* The newest of the positions that are left.
NewestOf(open) == CHOOSE i \in open : \A j \in open : i >= j

\* The interceptor of lease l is called: its options are read, now, for the
\* whole of its turn.
CallInterceptor(r, q, l) ==
    LET turn == [q EXCEPT !.lease = {l}, !.read = options[l]] IN
    \/ /\ options[l] = "exclude"
       /\ Become(r, [turn EXCEPT !.phase = "filtered"])
       /\ filtered' = [filtered EXCEPT ![r] = @ \cup {l}]
       /\ UNCHANGED consults
    \/ /\ options[l] # "exclude" /\ ~q.supported
       /\ Become(r, [turn EXCEPT !.phase = "failed"])
       /\ UNCHANGED <<consults, filtered>>
    \/ /\ options[l] # "exclude" /\ q.supported
       /\ Become(r, [turn EXCEPT !.phase = "admitted", !.held = TRUE])
       /\ consults' = [consults EXCEPT ![r] =
                          Append(@, [lease |-> l, read |-> options[l]])]
       /\ UNCHANGED filtered

\* The dispatch loop up to its next await: the next lease whose mock was not
\* consulted yet, or the fetch below the session.
NextTurn(r, q) ==
    LET open == {i \in 1 .. Len(q.todo) :
                    OwnerOf[q.todo[i]] \notin q.consultedOwners} IN
    \/ /\ open = {}
       /\ Become(r, [q EXCEPT !.phase = "call",
                              !.at = sessions[q.at.session].baseline])
       /\ UNCHANGED <<consults, filtered>>
    \/ /\ open # {}
       /\ LET i == NewestOf(open) IN
          CallInterceptor(r, [q EXCEPT !.todo = SubSeq(@, 1, i - 1)], q.todo[i])

Snapshot(s) == sessions[s].interceptors

\* dispatchFetch: the interceptors of this moment are the ones asked.
DispatchFetch(r) ==
    /\ req[r].phase = "call"
    /\ req[r].at.kind = "dispatch"
    /\ LET snapshot == Snapshot(req[r].at.session) IN
       \/ /\ snapshot = <<>>
          /\ Become(r, [req[r] EXCEPT
                           !.at = sessions[req[r].at.session].baseline])
          /\ UNCHANGED <<consults, filtered>>
       \/ /\ snapshot # <<>> /\ req[r].aborted
          /\ Become(r, [req[r] EXCEPT !.phase = "failed"])
          /\ UNCHANGED <<consults, filtered>>
       \/ /\ snapshot # <<>> /\ ~req[r].aborted
          /\ NextTurn(r, [req[r] EXCEPT !.todo = snapshot,
                                        !.consultedOwners = {}])
    /\ UNCHANGED <<fetch, leases, thirdParty, atCall>>

\* The body is there and the beforeRequest hook settled: handle() is called.
BeforeRequest(r) ==
    /\ req[r].phase = "admitted"
    /\ ~req[r].aborted
    /\ Become(r, [req[r] EXCEPT !.phase = "handling"])
    /\ UNCHANGED <<fetch, leases, thirdParty, log>>

\* The interceptor is left, and its finally releases the admission.
Leave(r, phase) ==
    Become(r, [req[r] EXCEPT !.phase = phase, !.held = FALSE])

\* The options that count are those the lease had at the start of its turn.
PassesOn(r) == req[r].read = "passthrough"

\* handle() and the beforeResponse hook settled.
HandleSettles(r) ==
    /\ req[r].phase = "handling"
    /\ ~req[r].aborted
    /\ \/ Leave(r, "answered")                     \* a response, or a 404
       \/ PassesOn(r) /\ Leave(r, "passed")        \* no route
    /\ UNCHANGED <<fetch, leases, thirdParty, log>>

\* A hook or handle() threw: the error is formatted, or rejects the call.
Throws(r) ==
    /\ req[r].phase \in {"admitted", "handling"}
    /\ ~req[r].aborted
    /\ Leave(r, "answered") \/ Leave(r, "failed")
    /\ UNCHANGED <<fetch, leases, thirdParty, log>>

\* Mutant: a mock that was filtered out has had its turn too.
ConsultedAfterAny(q) ==
    q.consultedOwners \cup {OwnerOf[l] : l \in q.lease}

\* A mock that passed the request on has had its turn; one whose lease
\* filtered it out has not.
ConsultedAfter(q) ==
    q.consultedOwners \cup
        {OwnerOf[l] : l \in IF q.phase = "passed" THEN q.lease ELSE {}}

\* The dispatch loop goes on with what the interceptor returned.
Resume(r) ==
    /\ ~req[r].aborted
    /\ \/ /\ req[r].phase = "answered"
          /\ Become(r, [req[r] EXCEPT !.phase = "mocked"])
          /\ UNCHANGED <<consults, filtered>>
       \/ /\ req[r].phase \in {"filtered", "passed"}
          /\ NextTurn(r, [req[r] EXCEPT
                             !.consultedOwners = ConsultedAfter(req[r])])
    /\ UNCHANGED <<fetch, leases, thirdParty, atCall>>

Abort(r) ==
    /\ req[r].phase \notin Final \cup {"idle"}
    /\ ~req[r].aborted
    /\ Become(r, [req[r] EXCEPT !.aborted = TRUE])
    /\ UNCHANGED <<fetch, leases, thirdParty, log>>

Waiting == {"filtered", "admitted", "handling", "passed", "answered"}

\* The dispatch loop waits for the interceptor and for the signal.
AbortRejects(r) ==
    /\ req[r].aborted
    /\ req[r].phase \in Waiting
    /\ Become(r, [req[r] EXCEPT !.phase = "failed"])
    /\ UNCHANGED <<fetch, leases, thirdParty, log>>

\* So does the interceptor, which releases the admission in its own time.
Unwinds(r) ==
    /\ req[r].aborted /\ req[r].held
    /\ Become(r, [req[r] EXCEPT !.held = FALSE])
    /\ UNCHANGED <<fetch, leases, thirdParty, log>>

-----------------------------------------------------------------------------

\* What the event loop runs by itself.
RequestStep(r) ==
    \/ CallWrapper(r) \/ CallNative(r) \/ DispatchFetch(r) \/ Resume(r)
    \/ AbortRejects(r) \/ Unwinds(r)

\* What user code does: hooks and generators settle when they like.
UserCodeStep(r) == BeforeRequest(r) \/ HandleSettles(r) \/ Throws(r)

Next ==
    \/ \E l \in Leases :
          Restore(l) \/ \E o \in Given[l] : Intercept(l, o) \/ Update(l, o)
    \/ \E w \in Wrappers : Wrap(w) \/ Unwrap(w)
    \/ \E r \in Requests :
          Call(r) \/ Abort(r) \/ RequestStep(r) \/ UserCodeStep(r)

Spec == Init /\ [][Next]_vars

-----------------------------------------------------------------------------
(* Properties. *)

\* "A mock is consulted at most once per request, however many leases it
\* holds" (interceptor.ts 169-171).
OwnerOnce ==
    \A r \in Requests : \A i, j \in 1 .. Len(consults[r]) :
        OwnerOf[consults[r][i].lease] = OwnerOf[consults[r][j].lease] => i = j

\* What fetch can be by now, what a function calls in turn, and the sets of
\* functions that a call of f cannot leave: what it passes through is in all.
Fetches == {Native} \cup {Dispatch(s) : s \in 1 .. Len(sessions)}
                    \cup {Wrapper(w) : w \in Wrappers}
Below(f) ==
    IF f.kind = "dispatch" THEN {sessions[f.session].baseline}
    ELSE IF f.kind = "wrapper" THEN inner[f.wrapper] ELSE {}
Ways(f) == {way \in SUBSET Fetches : f \in way /\ \A g \in way : Below(g) \subseteq way}

\* Every lease that is held is on the way of every new request, whatever
\* leases and wrappers came and went around it in whatever order; and a
\* request that ends at the real fetch met every lease that was held since
\* before it was made: the lease filtered it out, or its mock was consulted;
\* and none that admitted it was strict, although leases may be updated
\* meanwhile: the options are read once per turn.  A lease that was restored
\* does not see the requests made afterwards, even when its dispatcher lives on
\* inside third-party code.
NoLeaseForgotten ==
    /\ \A way \in Ways(fetch) : \A l \in Held : Dispatch(heldBy[l]) \in way
    /\ \A r \in Requests : req[r].phase = "real" =>
          /\ \A l \in Held \cap atCall[r].held :
                \/ l \in filtered[r]
                \/ \E i \in 1 .. Len(consults[r]) :
                      OwnerOf[consults[r][i].lease] = OwnerOf[l]
          /\ \A i \in 1 .. Len(consults[r]) : consults[r][i].read # "strict"
    /\ \A r \in Requests : \A i \in 1 .. Len(consults[r]) :
          consults[r][i].lease \notin atCall[r].restored

=============================================================================
