----------------------------- MODULE CliServer -----------------------------
(***************************************************************************)
(* The CLI server (packages/cli/src/cli.ts 689-868 and 1052-1174): one     *)
(* HTTP server for the life of the process, the mock behind it that a      *)
(* watched spec file replaces, the requests in flight across a reload, and *)
(* a shutdown bounded by a grace period.                                   *)
(*                                                                         *)
(* The content of the spec file is its number of writes.  The mocks are    *)
(* numbered in the order they are published in holder.mock, so the last    *)
(* one is the live one.  What reset() and a release do inside a mock is in *)
(* MockLifecycle; here a retired mock is uninstalled when no request holds *)
(* it.                                                                     *)
(***************************************************************************)
EXTENDS Naturals, Sequences

CONSTANTS
    Requests,    \* the requests clients make
    Valid,       \* the contents of the spec that parse
    MaxWrites    \* bound on the writes of the spec

ASSUME ValidAssumption == Valid \subseteq Nat
ASSUME BoundAssumption == MaxWrites \in Nat

\* A reload in the queue: the mock it will retire, and the spec it read.
Reload == [previous : SUBSET Nat, read : SUBSET Nat]

VARIABLES
    file,         \* the content of the spec file
    notified,     \* a change event is under way to the watcher
    timer,        \* the debounce timer is armed
    reloads,      \* the reloads chained in reloadQueue
    watching, watchClosed,
    phase,
    mocks,        \* the spec behind each mock published so far
    retired,      \* the mocks that were reset() after a reload
    uninstalled,
    closing,      \* close() was called
    forced,       \* the grace timer of closeHttpServer() fired
    drainOver,    \* boundedDelay(graceMs) fired
    settled,      \* the callback of Server.close() came
    resolved,     \* the promise of close() settled
    req,          \* where each request is
    mockOf        \* the mock it was admitted to, 0 before

watchVars == <<notified, timer, watching, watchClosed>>
mockVars == <<mocks, retired, uninstalled>>
closeVars == <<closing, forced, drainOver, settled, resolved>>
vars == <<file, watchVars, reloads, phase, mockVars, closeVars, req, mockOf>>

Init ==
    /\ file = 0 /\ notified = FALSE /\ timer = FALSE /\ reloads = <<>>
    /\ watching = FALSE /\ watchClosed = FALSE
    /\ phase = "creating"
    /\ mocks = <<>> /\ retired = {} /\ uninstalled = {}
    /\ closing = FALSE /\ forced = FALSE /\ drainOver = FALSE
    /\ settled = FALSE /\ resolved = FALSE
    /\ req = [r \in Requests |-> "idle"]
    /\ mockOf = [r \in Requests |-> 0]

Live == Len(mocks)

\* The requests that hold an admission of mock n.
Admitted(n) == {r \in Requests : mockOf[r] = n /\ req[r] \in {"open", "dropped"}}

-----------------------------------------------------------------------------
(* Start. *)

Parses(v) == v \in Valid

\* The first mock is made, or cannot be: the spec does not parse, or an option
\* is of no use.
CreateMock ==
    /\ phase = "creating"
    /\ \/ Parses(file) /\ phase' = "binding" /\ mocks' = <<file>>
       \/ phase' = "rejected" /\ UNCHANGED mocks
    /\ UNCHANGED <<file, watchVars, reloads, retired, uninstalled,
                   closeVars, req, mockOf>>

\* close(): the socket stops accepting and the watcher is closed at once.
BeginClose ==
    /\ closing' = TRUE
    /\ watchClosed' = TRUE
    /\ timer' = FALSE
    /\ UNCHANGED <<forced, drainOver, settled, resolved>>

\* The server listens, and then the watcher is created if there is to be one, or
\* cannot be; or the bind fails.
Bind ==
    /\ phase = "binding"
    /\ \/ phase' = "up" /\ watching' \in BOOLEAN
          /\ UNCHANGED <<timer, watchClosed, closeVars>>
       \/ phase' = "failing" /\ BeginClose /\ UNCHANGED watching
       \/ phase' = "rejected"
          /\ UNCHANGED <<timer, watching, watchClosed, closeVars>>
    /\ UNCHANGED <<file, notified, reloads, mockVars, req, mockOf>>

-----------------------------------------------------------------------------
(* The watcher. *)

\* An editor saves the spec.
Write ==
    /\ file < MaxWrites
    /\ file' = file + 1
    /\ notified' = (notified \/ (watching /\ ~watchClosed))
    /\ UNCHANGED <<timer, watching, watchClosed, reloads, phase, mockVars,
                   closeVars, req, mockOf>>

\* How a platform reports a write of the spec: under its name, that of its
\* directory, or none.
Spellings == {"spec", "directory", "unnamed"}

\* Mutant: only the name of the file counts.
IsSpecEventByName(filename) == filename = "spec"
\* What is reported under another name is a write of another file.
IsSpecEvent(filename) == filename \in {"spec", "directory", "unnamed"}

\* The event re-arms the debounce timer.
Notify ==
    /\ notified
    /\ notified' = FALSE
    /\ \E filename \in Spellings :
          timer' = (timer \/ (~watchClosed /\ IsSpecEvent(filename)))
    /\ UNCHANGED <<file, watching, watchClosed, reloads, phase, mockVars,
                   closeVars, req, mockOf>>

\* Mutant: an event during a reload starts no other one.
ChainIfIdle == IF reloads = <<>> THEN <<[previous |-> {}, read |-> {}]>> ELSE reloads
Chain == Append(reloads, [previous |-> {}, read |-> {}])

DebounceFires ==
    /\ timer
    /\ timer' = FALSE
    /\ reloads' = Chain
    /\ UNCHANGED <<file, notified, watching, watchClosed, phase, mockVars,
                   closeVars, req, mockOf>>

\* Mutant: reloads run next to each other.
TurnOfAny == 1 .. Len(reloads)
\* The reloads that may run: they are chained one after the other.
Turn == {i \in 1 .. Len(reloads) : i = 1}

Finished(i) == SubSeq(reloads, 1, i - 1) \o SubSeq(reloads, i + 1, Len(reloads))

\* A reload in the queue looks at `closed' before it starts.
MayStart == ~watchClosed

StartReload ==
    \E i \in Turn :
       /\ reloads[i].previous = {}
       /\ \/ ~MayStart /\ reloads' = Finished(i)
          \/ MayStart /\ reloads' = [reloads EXCEPT ![i].previous = {Live}]
       /\ UNCHANGED <<file, watchVars, phase, mockVars, closeVars, req, mockOf>>

\* createCliMock() reads the spec ...
ReadSpec ==
    \E i \in Turn :
       /\ reloads[i].previous # {} /\ reloads[i].read = {}
       /\ reloads' = [reloads EXCEPT ![i].read = {file}]
       /\ UNCHANGED <<file, watchVars, phase, mockVars, closeVars, req, mockOf>>

Retire(n) == retired' = retired \cup {n}

\* Mutant: the plugins are uninstalled while requests still use them.
HooksRunAtOnce(n) == TRUE
\* Core holds the uninstall() hooks back for the requests in flight.
HooksRun(n) == Admitted(n) = {}

\* ... and when it settles the new mock is published and the old one reset, or
\* the old one goes on.
FinishReload ==
    \E i \in Turn : \E n \in reloads[i].previous : \E v \in reloads[i].read :
       /\ reloads' = Finished(i)
       /\ \/ /\ Parses(v)
             /\ mocks' = Append(mocks, v)
             /\ Retire(n)
             /\ uninstalled' = uninstalled \cup
                   {m \in retired' \ retired : HooksRun(m)}
          \/ ~Parses(v) /\ UNCHANGED mockVars
       /\ UNCHANGED <<file, watchVars, phase, closeVars, req, mockOf>>

-----------------------------------------------------------------------------
(* Requests. *)

\* A request arrives on a socket that accepts, and is admitted to holder.mock.
Arrive(r) ==
    /\ phase = "up" /\ ~closing
    /\ req[r] = "idle"
    /\ req' = [req EXCEPT ![r] = "open"]
    /\ mockOf' = [mockOf EXCEPT ![r] = Live]
    /\ UNCHANGED <<file, watchVars, reloads, phase, mockVars, closeVars>>

\* The client goes away: the signal of the request aborts.
Disconnect(r) ==
    /\ req[r] = "open"
    /\ req' = [req EXCEPT ![r] = "dropped"]
    /\ UNCHANGED <<file, watchVars, reloads, phase, mockVars, closeVars, mockOf>>

\* handleCliRequest() ends and releases the admission.
End(r) ==
    /\ req[r] \in {"open", "dropped"}
    /\ req' = [req EXCEPT ![r] = "done"]
    /\ uninstalled' = uninstalled \cup
          {n \in retired \cap {mockOf[r]} : Admitted(n) = {r}}
    /\ UNCHANGED <<file, watchVars, reloads, phase, mocks, retired,
                   closeVars, mockOf>>

-----------------------------------------------------------------------------
(* Shutdown. *)

Close ==
    /\ phase = "up" /\ ~closing
    /\ BeginClose
    /\ UNCHANGED <<file, notified, watching, reloads, phase, mockVars, req,
                   mockOf>>

\* The grace timer: closeAllConnections().
ForceClose ==
    /\ closing /\ ~settled /\ ~forced
    /\ forced' = TRUE
    /\ req' = [r \in Requests |-> IF req[r] = "open" THEN "dropped" ELSE req[r]]
    /\ UNCHANGED <<file, watchVars, reloads, phase, mockVars, closing,
                   drainOver, settled, resolved, mockOf>>

BoundedDelay ==
    /\ closing /\ ~drainOver
    /\ drainOver' = TRUE
    /\ UNCHANGED <<file, watchVars, reloads, phase, mockVars, closing, forced,
                   settled, resolved, req, mockOf>>

\* The last connection is gone: Server.close() calls back.
Settle ==
    /\ closing /\ ~settled
    /\ \A r \in Requests : req[r] # "open"
    /\ settled' = TRUE
    /\ UNCHANGED <<file, watchVars, reloads, phase, mockVars, closing, forced,
                   drainOver, resolved, req, mockOf>>

\* Mutant: the drain is waited for whatever it takes.
ClosedBothDrained == settled /\ reloads = <<>>
\* close() waits for the socket, and for the drain or its bound.
ClosedBoth == settled /\ (reloads = <<>> \/ drainOver)

ResolveClose ==
    /\ closing /\ ~resolved
    /\ ClosedBoth
    /\ resolved' = TRUE
    /\ phase' = IF phase = "failing" THEN "rejected" ELSE phase
    /\ UNCHANGED <<file, watchVars, reloads, mockVars, closing, forced,
                   drainOver, settled, req, mockOf>>

-----------------------------------------------------------------------------

Shutdown == ForceClose \/ BoundedDelay \/ Settle \/ ResolveClose
ReloadStep == Notify \/ DebounceFires \/ StartReload \/ ReadSpec \/ FinishReload

Next ==
    \/ CreateMock \/ Bind \/ Write \/ ReloadStep \/ Close \/ Shutdown
    \/ \E r \in Requests : Arrive(r) \/ Disconnect(r) \/ End(r)

Spec == Init /\ [][Next]_vars

\* Parsing a spec comes to its end.
ParsingEnds == WF_vars(ReadSpec) /\ WF_vars(FinishReload)

-----------------------------------------------------------------------------
(* Properties. *)

\* A reload that read an older spec never replaces the mock of a newer one:
\* "reloads are serialized" (docs/cli.md 163).
NeverOlder == \A i, j \in 1 .. Live : i < j => mocks[i] <= mocks[j]

\* No request in flight runs on a mock whose plugins were uninstalled, however
\* many reloads it outlives (cli.ts 1077-1080).
InFlightKeepsItsMock == \A n \in uninstalled : Admitted(n) = {}

\* Provided that parsing ends, a spec that was written while the watcher runs is
\* served, unless it does not parse, another write follows or the server is
\* closed: whatever reload was parsing when the event came.
WrittenIsServed ==
    ParsingEnds => \A v \in 1 .. MaxWrites :
        file = v /\ notified /\ v \in Valid
            ~> closing \/ file # v \/ (Live > 0 /\ mocks[Live] = v)

\* "A reload already parsing must be awaited: otherwise it would swap the mock
\* [...] after shutdown has reported itself complete" (cli.ts 1169-1170).
NoSwapAfterShutdown == [][mocks' # mocks => ~resolved]_vars

=============================================================================
