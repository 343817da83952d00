--------------------------- MODULE MockLifecycle ---------------------------
(***************************************************************************)
(* The life of one CallableMockInstance (packages/core/src/builder.ts):    *)
(* route registration, plugin installation and removal, lifecycle          *)
(* listeners, the request history, the three resets, and the requests that *)
(* are in flight while all of that changes.                                *)
(*                                                                         *)
(* JavaScript runs each synchronous stretch of code to completion, so one  *)
(* action is one stretch between two points at which other code can run:   *)
(* an await, or a call of user code (an install() hook, an uninstall()     *)
(* hook, a listener).  While user code called by the mock runs, `stack'    *)
(* holds the suspended callers, innermost last; only what that user code   *)
(* calls, or its return, can happen then.                                  *)
(*                                                                         *)
(* Object identities the code compares with === are counters here:         *)
(* `gen' for this.requestGeneration, `hgen' for this.historyGeneration,    *)
(* `state' for globalConfig.state.                                         *)
(***************************************************************************)
EXTENDS Naturals, FiniteSets, Sequences, SequencesExt

CONSTANTS
    Keys,          \* route keys (method + normalised path)
    Plugins,       \* plugin registrations: each is one call of pipe()
    Installers,    \* the plugins that have an install() hook
    Listeners,     \* lifecycle listeners
    Requests,      \* requests the callers and transports make
    MaxHistory,    \* maxHistorySize; 0 disables the history
    CallbackOps,   \* what user code called by the mock calls back
    MaxGen,        \* bound on calls of reset()
    MaxBarriers,   \* bound on the history and state objects resets create
    MaxDepth       \* bound on nested user-code calls

Ops == {"defineRoute", "pipe", "on", "off", "reset", "resetHistory",
        "resetState", "handle", "abort"}

ASSUME InstallersAssumption == Installers \subseteq Plugins
ASSUME RequestsAssumption == IsFiniteSet(Requests)
ASSUME CallbackOpsAssumption == CallbackOps \subseteq Ops
ASSUME BoundsAssumption ==
    /\ MaxHistory \in Nat
    /\ MaxGen \in Nat
    /\ MaxBarriers \in Nat
    /\ MaxDepth \in Nat

Gens == 0 .. MaxGen

\* A compiled route, with the generation it was defined in.
Route == [key : Keys, gen : Gens]

\* globalConfig.state: the object's identity, and the generation that made it.
State == [gen : Gens, serial : Nat]

\* RequestAdmission: what a request keeps of the mock it was admitted to.
Admission == [gen : Gens, hgen : Nat, plugins : Seq(Plugins),
              routes : SUBSET Route, state : State]

\* A suspended caller of user code.  "install" is pipe() around install();
\* "uninstall" is uninstallPlugins(), running the hook of the last plugin of
\* todo, with reset() waiting below it when `resetting'; "run" is the
\* synchronous stretch of a request, running the first listener of todo, or
\* about to go on when todo is empty.
InstallFrame == [op : {"install"}, plugin : Plugins, routes : SUBSET Route]
UninstallFrame == [op : {"uninstall"}, todo : Seq(Plugins),
                   resetting : BOOLEAN]
RunFrame == [op : {"run"}, req : Requests, todo : Seq(Listeners)]
Frame == InstallFrame \cup UninstallFrame \cup RunFrame

Phases == {"idle", "admitted", "starting", "missed", "matched", "hooks",
           "delay", "ending", "settled", "released", "done"}
Events == {"start", "match", "notfound", "end"}

VARIABLES
    gen, hgen, state, routes, plugins, listeners, history,
    active,        \* activeAdmissions of every generation
    retired,       \* retiredPlugins of every generation: {} when undefined
    stack,
    pc, adm, released, aborted,
    adapter,       \* the request came through createRequestAdmission()
    unused,        \* the plugins no call of pipe() was made for
    pipedIn,       \* the generation each was registered in: {} before
    uninstalls,    \* how often the uninstall() of each plugin was called
    events         \* the lifecycle events each request emitted

mock == <<gen, hgen, state, routes, plugins, listeners, history>>
admissions == <<active, retired, adm, released>>
hooksLog == <<unused, pipedIn, uninstalls>>
requests == <<pc, aborted, adapter, events>>
vars == <<mock, admissions, stack, requests, hooksLog>>

Init ==
    /\ gen = 0 /\ hgen = 0 /\ state = [gen |-> 0, serial |-> 0]
    /\ routes = {} /\ plugins = <<>> /\ listeners = <<>> /\ history = <<>>
    /\ active = [g \in Gens |-> 0]
    /\ retired = [g \in Gens |-> {}]
    /\ stack = <<>>
    /\ pc = [r \in Requests |-> "idle"]
    /\ adm = [r \in Requests |->
                [gen |-> 0, hgen |-> 0, plugins |-> <<>>, routes |-> {},
                 state |-> [gen |-> 0, serial |-> 0]]]
    /\ released = [r \in Requests |-> FALSE]
    /\ aborted = [r \in Requests |-> FALSE]
    /\ adapter = [r \in Requests |-> FALSE]
    /\ unused = Plugins
    /\ pipedIn = [p \in Plugins |-> {}]
    /\ uninstalls = [p \in Plugins |-> 0]
    /\ events = [r \in Requests |-> <<>>]

-----------------------------------------------------------------------------
(* Who may run. *)

Running(op) == stack # <<>> /\ Last(stack).op = op

\* The frame on top has user code running under it.
InUserCode ==
    \/ Running("install")
    \/ Running("uninstall")
    \/ Running("run") /\ Last(stack).todo # <<>>

\* `op' can be called now: by the program, from the event loop; by a hook or
\* a listener the mock is calling; or by an install() hook through the
\* installation-scoped instance, which only registers routes.
CanCall(op) ==
    \/ stack = <<>>
    \/ /\ InUserCode
       /\ Len(stack) < MaxDepth
       /\ op \in CallbackOps \/ (op = "defineRoute" /\ Running("install"))

Push(frame) == stack' = Append(stack, frame)
Pop == stack' = Front(stack)
SetTop(frame) == stack' = Append(Front(stack), frame)

-----------------------------------------------------------------------------
(* Registration and listeners. *)

\* mock(key, ...): the first registration of a key wins.
DefineRoute(k) ==
    /\ CanCall("defineRoute")
    /\ \A rt \in routes : rt.key # k
    /\ routes' = routes \cup {[key |-> k, gen |-> gen]}
    /\ UNCHANGED <<gen, hgen, state, plugins, listeners, history, admissions,
                   stack, requests, hooksLog>>

\* The end of pipe(p).
Register(p) ==
    /\ plugins' = Append(plugins, p)
    /\ pipedIn' = [pipedIn EXCEPT ![p] = {gen}]

\* pipe(p) of a plugin without install().
PipePlain(p) ==
    /\ CanCall("pipe")
    /\ p \in unused \ Installers
    /\ unused' = unused \ {p}
    /\ Register(p)
    /\ UNCHANGED <<gen, hgen, state, routes, listeners, history, admissions,
                   stack, requests, uninstalls>>

\* pipe(p) up to the call of install(): the routes are staged on a copy.
PipeInstall(p) ==
    /\ CanCall("pipe")
    /\ p \in unused \cap Installers
    /\ unused' = unused \ {p}
    /\ Push([op |-> "install", plugin |-> p, routes |-> routes])
    /\ UNCHANGED <<mock, admissions, requests, pipedIn, uninstalls>>

\* install() returned: what is staged stays, and the plugin is registered.
InstallReturn ==
    /\ Running("install")
    /\ Register(Last(stack).plugin)
    /\ Pop
    /\ UNCHANGED <<gen, hgen, state, routes, listeners, history, admissions,
                   requests, unused, uninstalls>>

\* install() threw, or returned a promise: the previous routes come back.
InstallThrow ==
    /\ Running("install")
    /\ routes' = Last(stack).routes
    /\ Pop
    /\ UNCHANGED <<gen, hgen, state, plugins, listeners, history, admissions,
                   requests, hooksLog>>

On(l) ==
    /\ CanCall("on")
    /\ ~Contains(listeners, l)
    /\ listeners' = Append(listeners, l)
    /\ UNCHANGED <<gen, hgen, state, routes, plugins, history, admissions,
                   stack, requests, hooksLog>>

Off(l) ==
    /\ CanCall("off")
    /\ \E i \in 1 .. Len(listeners) :
          listeners[i] = l /\ listeners' = RemoveAt(listeners, i)
    /\ UNCHANGED <<gen, hgen, state, routes, plugins, history, admissions,
                   stack, requests, hooksLog>>

-----------------------------------------------------------------------------
(* The resets, and the uninstall() hooks they cause to run. *)

\* The hook of the last plugin of todo is called.
CallUninstall(todo) ==
    uninstalls' = [uninstalls EXCEPT ![Last(todo)] = @ + 1]

\* The rest of reset(), after the retired generation's hooks.
ClearMock(g) ==
    /\ routes' = {}
    /\ history' = <<>>
    /\ listeners' = <<>>
    /\ state' = [gen |-> g, serial |-> state.serial + 1]

\* Mutant: plugins are detached without a look at the requests in flight.
HeldNever(g) == FALSE
\* Mutant: reset() always leaves the hooks to a release.
HeldAlways(g) == TRUE

\* Admissions of generation g are left.
Held(g) == active[g] # 0

Detach == plugins' = <<>>

\* reset(): the request and history generations are replaced and the plugins
\* detached; the hooks run now if no admission of the generation is left, and
\* are left to the last release otherwise.
Reset ==
    /\ CanCall("reset")
    /\ gen < MaxGen
    /\ gen' = gen + 1
    /\ hgen' = hgen + 1
    /\ Detach
    /\ \/ /\ ~Held(gen)
          /\ plugins # <<>>
          /\ Push([op |-> "uninstall", todo |-> plugins, resetting |-> TRUE])
          /\ CallUninstall(plugins)
          /\ UNCHANGED <<retired, routes, history, listeners, state>>
       \/ /\ ~Held(gen)
          /\ plugins = <<>>
          /\ ClearMock(gen + 1)
          /\ UNCHANGED <<retired, stack, uninstalls>>
       \/ /\ Held(gen)
          /\ retired' = [retired EXCEPT ![gen] = {plugins}]
          /\ ClearMock(gen + 1)
          /\ UNCHANGED <<stack, uninstalls>>
    /\ UNCHANGED <<active, adm, released, requests, unused, pipedIn>>

\* Mutant: the hook that returned stays on the list, and is called again.
UninstallReturnAgain ==
    /\ Running("uninstall")
    /\ uninstalls[Last(Last(stack).todo)] = 1
    /\ CallUninstall(Last(stack).todo)
    /\ UNCHANGED <<mock, admissions, stack, requests, unused, pipedIn>>

\* An uninstall() hook returned or threw: the next one, in reverse order.
UninstallReturn ==
    /\ Running("uninstall")
    /\ LET todo == Front(Last(stack).todo) IN
       \/ /\ todo # <<>>
          /\ SetTop([Last(stack) EXCEPT !.todo = todo])
          /\ CallUninstall(todo)
          /\ UNCHANGED mock
       \/ /\ todo = <<>>
          /\ Pop
          /\ UNCHANGED uninstalls
          /\ \/ Last(stack).resetting /\ ClearMock(gen)
             \/ ~Last(stack).resetting
                /\ UNCHANGED <<routes, history, listeners, state>>
          /\ UNCHANGED <<gen, hgen, plugins>>
    /\ UNCHANGED <<admissions, requests, unused, pipedIn>>

ResetHistory ==
    /\ CanCall("resetHistory")
    /\ hgen < MaxBarriers
    /\ hgen' = hgen + 1
    /\ history' = <<>>
    /\ UNCHANGED <<gen, state, routes, plugins, listeners, admissions, stack,
                   requests, hooksLog>>

ResetState ==
    /\ CanCall("resetState")
    /\ state.serial < MaxBarriers
    /\ state' = [gen |-> gen, serial |-> state.serial + 1]
    /\ UNCHANGED <<gen, hgen, routes, plugins, listeners, history, admissions,
                   stack, requests, hooksLog>>

-----------------------------------------------------------------------------
(* Admissions. *)

\* Mutant: the admission is not counted.
CaptureUncounted(r) ==
    /\ adm' = [adm EXCEPT ![r] = [gen |-> gen, hgen |-> hgen,
                                  plugins |-> plugins, routes |-> routes,
                                  state |-> state]]
    /\ UNCHANGED active

\* #captureRequestAdmission(): a snapshot of the mock, counted as active.
Capture(r) ==
    /\ adm' = [adm EXCEPT ![r] = [gen |-> gen, hgen |-> hgen,
                                  plugins |-> plugins, routes |-> routes,
                                  state |-> state]]
    /\ active' = [active EXCEPT ![gen] = @ + 1]

\* Mutant: a second release counts again.
ReleaseAdmissionTwice(r) ==
    /\ released' = [released EXCEPT ![r] = TRUE]
    /\ active' = [active EXCEPT ![adm[r].gen] = @ - 1]
    /\ UNCHANGED <<retired, adm, stack, uninstalls>>
\* Mutant: the last release forgets the hooks it held back.
ReleaseAdmissionNoHooks(r) ==
    /\ released' = [released EXCEPT ![r] = TRUE]
    /\ active' = [active EXCEPT ![adm[r].gen] = IF released[r] THEN @ ELSE @ - 1]
    /\ UNCHANGED <<retired, adm, stack, uninstalls>>

\* #releaseRequestAdmission(): idempotent; the last release of a retired
\* generation runs its uninstall() hooks.
ReleaseAdmission(r) ==
    LET g == adm[r].gen IN
    \/ /\ released[r]
       /\ UNCHANGED <<admissions, stack, uninstalls>>
    \/ /\ ~released[r]
       /\ released' = [released EXCEPT ![r] = TRUE]
       /\ active' = [active EXCEPT ![g] = @ - 1]
       /\ \/ /\ active[g] = 1
             /\ retired' = [retired EXCEPT ![g] = {}]
             /\ \E todo \in retired[g] :
                \/ /\ todo # <<>>
                   /\ Push([op |-> "uninstall", todo |-> todo,
                            resetting |-> FALSE])
                   /\ CallUninstall(todo)
                \/ /\ todo = <<>>
                   /\ UNCHANGED <<stack, uninstalls>>
          \/ /\ active[g] # 1 \/ retired[g] = {}
             /\ UNCHANGED <<retired, stack, uninstalls>>
       /\ UNCHANGED adm

-----------------------------------------------------------------------------
(* Requests. *)

\* emit(): only a request of the current generation emits, and the listeners
\* registered at that moment are called one after the other.
Emits(r) == adm[r].gen = gen
Heard(r) == IF Emits(r) THEN listeners ELSE <<>>

\* Mutant: the generation is only looked at before the first event.
LogEndAlways(r, e) ==
    events' = [events EXCEPT ![r] =
                  IF Emits(r) \/ e = "end" THEN Append(@, e) ELSE @]

Log(r, e) ==
    events' = [events EXCEPT ![r] = IF Emits(r) THEN Append(@, e) ELSE @]

Goto(r, phase) == pc' = [pc EXCEPT ![r] = phase]
RunFrameOf(r, todo) == [op |-> "run", req |-> r, todo |-> todo]

\* Request r is the code that goes on when nothing else runs.
Continues(r) == Running("run") /\ Last(stack).req = r /\ Last(stack).todo = <<>>

\* handle() called directly: admitted, and run up to the request:start event.
Handle(r) ==
    /\ CanCall("handle")
    /\ pc[r] = "idle"
    /\ Capture(r)
    /\ Goto(r, "starting")
    /\ Push(RunFrameOf(r, listeners))
    /\ events' = [events EXCEPT ![r] = Append(@, "start")]
    /\ UNCHANGED <<mock, retired, released, aborted, adapter, hooksLog>>

\* A transport or the fetch interceptor admits a request before it has the
\* body or the result of its own hooks.
Admit(r) ==
    /\ CanCall("handle")
    /\ pc[r] = "idle"
    /\ Capture(r)
    /\ Goto(r, "admitted")
    /\ adapter' = [adapter EXCEPT ![r] = TRUE]
    /\ UNCHANGED <<mock, retired, released, stack, aborted, events, hooksLog>>

\* It then calls handle() with that admission.
Begin(r) ==
    /\ stack = <<>>
    /\ pc[r] = "admitted"
    /\ \/ /\ aborted[r]
          /\ Goto(r, "settled")
          /\ UNCHANGED <<stack, events>>
       \/ /\ ~aborted[r]
          /\ Goto(r, "starting")
          /\ Push(RunFrameOf(r, Heard(r)))
          /\ Log(r, "start")
    /\ UNCHANGED <<mock, admissions, aborted, adapter, hooksLog>>

\* A listener returned or threw; the snapshot of the set decides who is next.
ListenerReturn ==
    /\ Running("run")
    /\ Last(stack).todo # <<>>
    /\ SetTop([Last(stack) EXCEPT !.todo = Tail(@)])
    /\ UNCHANGED <<mock, admissions, requests, hooksLog>>

\* The path is outside the namespace, or no route of the snapshot matches it.
Miss(r) ==
    /\ Continues(r)
    /\ pc[r] = "starting"
    /\ Goto(r, "missed")
    /\ SetTop(RunFrameOf(r, Heard(r)))
    /\ Log(r, "notfound")
    /\ UNCHANGED <<mock, admissions, aborted, adapter, hooksLog>>

\* A miss ends at once: no delay, no record.
MissEnd(r) ==
    /\ Continues(r)
    /\ pc[r] = "missed"
    /\ Goto(r, "ending")
    /\ SetTop(RunFrameOf(r, Heard(r)))
    /\ Log(r, "end")
    /\ UNCHANGED <<mock, admissions, aborted, adapter, hooksLog>>

Match(r) ==
    /\ Continues(r)
    /\ pc[r] = "starting"
    /\ adm[r].routes # {}
    /\ Goto(r, "matched")
    /\ SetTop(RunFrameOf(r, Heard(r)))
    /\ Log(r, "match")
    /\ UNCHANGED <<mock, admissions, aborted, adapter, hooksLog>>

\* The synchronous stretch ends: at the first await, or with the response.
Suspend(r) ==
    /\ Continues(r)
    /\ \/ pc[r] = "matched" /\ ~aborted[r] /\ Goto(r, "hooks")
       \/ pc[r] = "matched" /\ aborted[r] /\ Goto(r, "settled")
       \/ pc[r] = "ending" /\ Goto(r, "settled")
    /\ Pop
    /\ UNCHANGED <<mock, admissions, aborted, adapter, events, hooksLog>>

\* The plugins and the generator produced a response, or an error that became
\* a 500 response: both are finalized alike.  (PluginPipeline has the steps.)
HooksSettle(r) ==
    /\ stack = <<>>
    /\ pc[r] = "hooks"
    /\ ~aborted[r]
    /\ Goto(r, "delay")
    /\ UNCHANGED <<mock, admissions, stack, aborted, adapter, events, hooksLog>>

\* An abort rejects the await the request is suspended at.
AbortObserved(r) ==
    /\ stack = <<>>
    /\ pc[r] \in {"hooks", "delay"}
    /\ aborted[r]
    /\ Goto(r, "settled")
    /\ UNCHANGED <<mock, admissions, stack, aborted, adapter, events, hooksLog>>

\* Mutant: resetHistory() is no barrier.
RecordableAnyHistory(r) == adm[r].gen = gen /\ MaxHistory # 0
\* A request may enter the history its admission saw, and no other.
Recordable(r) == adm[r].gen = gen /\ adm[r].hgen = hgen /\ MaxHistory # 0

\* The history is trimmed from the front: the newest MaxHistory elements of s.
Newest(s) ==
    IF Len(s) > MaxHistory THEN SubSeq(s, Len(s) - MaxHistory + 1, Len(s)) ELSE s

\* #finalizeMatchedRequest() after the delay: record, then request:end.
Finalize(r) ==
    /\ stack = <<>>
    /\ pc[r] = "delay"
    /\ ~aborted[r]
    /\ history' = IF Recordable(r) THEN Newest(Append(history, r)) ELSE history
    /\ Goto(r, "ending")
    /\ Push(RunFrameOf(r, Heard(r)))
    /\ Log(r, "end")
    /\ UNCHANGED <<gen, hgen, state, routes, plugins, listeners, admissions,
                   aborted, adapter, hooksLog>>

\* The finally of handle().
Release(r) ==
    /\ stack = <<>>
    /\ pc[r] = "settled"
    /\ ReleaseAdmission(r)
    /\ Goto(r, "released")
    /\ UNCHANGED <<mock, aborted, adapter, events, unused, pipedIn>>

\* The finally of the transport: after handle(), or having given up on the
\* body or on its own hook before calling it.
AdapterRelease(r) ==
    /\ stack = <<>>
    /\ adapter[r]
    /\ pc[r] \in {"admitted", "released"}
    /\ ReleaseAdmission(r)
    /\ Goto(r, "done")
    /\ UNCHANGED <<mock, aborted, adapter, events, unused, pipedIn>>

\* The fetch interceptor waits for handle() and for the signal: an abort lets
\* its finally run while handle() still unwinds.
AdapterAbandon(r) ==
    /\ stack = <<>>
    /\ adapter[r]
    /\ pc[r] \in {"hooks", "delay", "settled"}
    /\ aborted[r]
    /\ ~released[r]
    /\ ReleaseAdmission(r)
    /\ UNCHANGED <<mock, requests, unused, pipedIn>>

\* The caller aborts the request's signal.
Abort(r) ==
    /\ CanCall("abort")
    /\ pc[r] \in Phases \ {"idle", "settled", "released", "done"}
    /\ ~aborted[r]
    /\ aborted' = [aborted EXCEPT ![r] = TRUE]
    /\ UNCHANGED <<mock, admissions, stack, pc, adapter, events, hooksLog>>

-----------------------------------------------------------------------------

\* What a request does by itself, once it was made.
RequestStep(r) ==
    \/ Begin(r) \/ Miss(r) \/ MissEnd(r) \/ Match(r) \/ Suspend(r)
    \/ HooksSettle(r) \/ AbortObserved(r) \/ Finalize(r)
    \/ Release(r) \/ AdapterRelease(r) \/ AdapterAbandon(r)

UserCodeReturn ==
    InstallReturn \/ InstallThrow \/ UninstallReturn \/ ListenerReturn

Call ==
    \/ \E k \in Keys : DefineRoute(k)
    \/ \E p \in Plugins : PipePlain(p) \/ PipeInstall(p)
    \/ \E l \in Listeners : On(l) \/ Off(l)
    \/ Reset \/ ResetHistory \/ ResetState
    \/ \E r \in Requests : Handle(r) \/ Admit(r) \/ Abort(r)

Next == Call \/ UserCodeReturn \/ \E r \in Requests : RequestStep(r)

Spec == Init /\ [][Next]_vars

\* The event loop runs what is ready, user code returns, and a transport that
\* admitted a request goes on with it: handle() or its own finally.
FairSpec ==
    /\ Spec
    /\ WF_vars(UserCodeReturn)
    /\ \A r \in Requests : WF_vars(RequestStep(r))

-----------------------------------------------------------------------------
(* Properties. *)

TypeOK ==
    /\ gen \in Gens /\ hgen \in Nat /\ state \in State
    /\ routes \subseteq Route
    /\ plugins \in Seq(Plugins)
    /\ listeners \in Seq(Listeners)
    /\ history \in Seq(Requests)
    /\ active \in [Gens -> Nat]
    /\ retired \in [Gens -> SUBSET Seq(Plugins)]
    /\ stack \in Seq(Frame)
    /\ pc \in [Requests -> Phases]
    /\ adm \in [Requests -> Admission]
    /\ released \in [Requests -> BOOLEAN]
    /\ aborted \in [Requests -> BOOLEAN]
    /\ adapter \in [Requests -> BOOLEAN]
    /\ unused \subseteq Plugins
    /\ pipedIn \in [Plugins -> SUBSET Gens]
    /\ uninstalls \in [Plugins -> Nat]
    /\ events \in [Requests -> Seq(Events)]

\* The admissions nobody has released.
Live == {r \in Requests : pc[r] # "idle" /\ ~released[r]}

\* activeAdmissions counts exactly the unreleased admissions of a generation,
\* whatever handle() and the transport that shares its admission release, in
\* whatever order (builder.ts 698-729).
AdmissionCount ==
    \A g \in Gens : active[g] = Cardinality({r \in Live : adm[r].gen = g})

\* No plugin that an unreleased admission will run has had its uninstall()
\* called, even when resets, releases and uninstall() hooks interleave
\* (docs/plugins.md 24-27).
NoUseAfterUninstall ==
    \A r \in Live : \A p \in Range(adm[r].plugins) : uninstalls[p] = 0

\* A retired generation that still owes its uninstall() hooks has a live
\* admission whose release will run them: no plugin is stranded by reset().
RetiredIsHeld ==
    \A g \in Gens : retired[g] # {} =>
        g # gen /\ \E r \in Live : adm[r].gen = g

Resetting == \E i \in 1 .. Len(stack) :
    stack[i].op = "uninstall" /\ stack[i].resetting

\* reset() and resetHistory() are barriers: the history holds only requests
\* admitted after the last of them (docs/api.md 144-146), and only ones that
\* matched a route and were told to the listeners from start to end: no miss,
\* and no request a reset() or an abort cut short (builder.ts 1386-1429).
\* While the hooks of a reset() run, the old history is still there.
HistoryBarrier ==
    Resetting \/ \A i \in 1 .. Len(history) :
        /\ adm[history[i]].gen = gen /\ adm[history[i]].hgen = hgen
        /\ events[history[i]] = <<"start", "match", "end">>

Protocols == {<<"start", "match", "end">>, <<"start", "notfound", "end">>}

\* Whatever resets and aborts happen, the events a request emits are the
\* beginning of a complete protocol: never an end without its start, nor a
\* match after a miss.
EventProtocol ==
    \A r \in Requests : \E s \in Protocols : IsPrefix(events[r], s)

\* After a reset() no listener is called any more for a request it made stale
\* ("cannot emit stale events", docs/api.md 165): the next listener of an
\* event is only called while the request's generation is current.
NoStaleDelivery ==
    [][ ListenerReturn /\ Last(stack').todo # <<>> =>
            adm[Last(stack).req].gen = gen ]_vars

\* The plugins of a retired generation are uninstalled in the end, once and no
\* more, although their uninstall() hooks may reset the mock again.
RetiredUninstalled ==
    \A p \in Plugins :
        (\E g \in Gens : \E todo \in retired[g] : Contains(todo, p))
            ~> [](uninstalls[p] = 1)

-----------------------------------------------------------------------------
\* For TLC: requests and routes are interchangeable; plugins with and without
\* install() are not.
Symmetry == Permutations(Requests) \cup Permutations(Keys)
=============================================================================
