-------------------------- MODULE ServerLifecycle --------------------------
(***************************************************************************)
(* The standalone HTTP server of a mock (packages/core/src/builder.ts      *)
(* 756-978): listen() reserves a start, waits for the servers closed       *)
(* before, imports node:http and starts a server; close() and reset()      *)
(* cancel a pending start or close the running server, and leave a barrier *)
(* behind that the next start waits for.                                   *)
(*                                                                         *)
(* A call of listen() that does not throw is a start: the                  *)
(* PendingServerStart operation, its promise and the one node:http server  *)
(* it makes share its name.  What node:http does is external: a bind that  *)
(* succeeds or fails, the 'listening' event after it, connections, and the *)
(* callback of Server.close().                                             *)
(***************************************************************************)
EXTENDS Naturals, FiniteSets

CONSTANTS
    Starts,          \* the calls of listen() that do not throw
    MaxConnections   \* bound on the connections open at one server

ASSUME BoundsAssumption == MaxConnections \in Nat

None == "none"
ASSUME StartsAssumption == None \notin Starts

\* Where the code of a start is: behind the barrier, in import(), after
\* httpServer.listen(), or past its last callback.
Stages == {"unused", "barrier", "import", "listening", "done"}

\* What node:http makes of its server.
NodeStates == {"none", "binding", "bound", "closing", "closed"}

\* The promise of one #beginServerClose(): Server.close() calls back at once
\* when the server is not bound, and after its last connection otherwise.
Close == Starts \X {"unbound", "bound"}

VARIABLES
    server,          \* this.server, or None
    pending,         \* this.pendingServerStart, or None
    promise,         \* the promise listen() returned
    stage,
    node,
    barrier,         \* the closes in this.serverCloseBarrier
    closing,         \* the closes that have not called back
    awaited,         \* the closes in the barrier each start waits for
    connections,     \* open connections of each server
    lateBind         \* a server closed before it is bound still binds (Node
                     \* releases before net.Server counted its listen calls)

mock == <<server, pending, promise, barrier>>
vars == <<mock, stage, node, closing, awaited, connections, lateBind>>

Init ==
    /\ server = None /\ pending = None
    /\ promise = [o \in Starts |-> "unused"]
    /\ stage = [o \in Starts |-> "unused"]
    /\ node = [o \in Starts |-> "none"]
    /\ barrier = {} /\ closing = {}
    /\ awaited = [o \in Starts |-> {}]
    /\ connections = [o \in Starts |-> 0]
    /\ lateBind \in BOOLEAN

-----------------------------------------------------------------------------
(* listen() *)

\* Mutant: a start does not wait for the servers closed before.
NoBarrier == {}
\* What a new start waits for.
Barrier == barrier

\* listen() reserves the start, or throws when one is reserved or running.
Listen(o) ==
    /\ server = None /\ pending = None
    /\ stage[o] = "unused"
    /\ pending' = o
    /\ promise' = [promise EXCEPT ![o] = "pending"]
    /\ stage' = [stage EXCEPT ![o] = "barrier"]
    /\ awaited' = [awaited EXCEPT ![o] = Barrier]
    /\ UNCHANGED <<server, node, barrier, closing, connections, lateBind>>

PassBarrier(o) ==
    /\ stage[o] = "barrier"
    /\ awaited[o] \cap closing = {}
    /\ stage' = [stage EXCEPT ![o] = "import"]
    /\ UNCHANGED <<mock, node, closing, awaited, connections, lateBind>>

\* #ownsServerStart(): nobody has settled the start meanwhile.
Owns(o) == pending = o /\ promise[o] = "pending"

\* import("node:http") resolved: a start that is still wanted creates its
\* server and calls its listen().
StartHttpServer(o) ==
    /\ stage[o] = "import"
    /\ \/ /\ Owns(o)
          /\ node' = [node EXCEPT ![o] = "binding"]
          /\ stage' = [stage EXCEPT ![o] = "listening"]
       \/ /\ ~Owns(o)
          /\ stage' = [stage EXCEPT ![o] = "done"]
          /\ UNCHANGED node
    /\ UNCHANGED <<mock, closing, awaited, connections, lateBind>>

-----------------------------------------------------------------------------
(* Closing. *)

\* A server that is not bound has nothing to close, and will not bind any
\* more unless lateBind.
Unbound(o) == node[o] \in {"none", "binding", "closed"}

\* The barrier grows by a close.
Extended(c) == barrier \cup {c}

\* #beginServerClose(): Server.close() and closeAllConnections(), and the
\* close is added to the barrier.
BeginServerClose(o) ==
    LET c == <<o, IF Unbound(o) THEN "unbound" ELSE "bound">> IN
    /\ closing' = closing \cup {c}
    /\ barrier' = Extended(c)
    /\ node' = [node EXCEPT ![o] =
                  IF node[o] = "bound" THEN "closing"
                  ELSE IF node[o] = "binding" /\ ~lateBind THEN "closed"
                  ELSE @]

\* Mutant: a rejected start forgets the server it created.
RejectServerStartLeaks(o) ==
    /\ promise' = [promise EXCEPT ![o] = "rejected"]
    /\ pending' = IF pending = o THEN None ELSE pending
    /\ UNCHANGED <<closing, barrier, node>>


\* #rejectServerStart() of a start that has not settled.
RejectServerStart(o) ==
    /\ promise' = [promise EXCEPT ![o] = "rejected"]
    /\ pending' = IF pending = o THEN None ELSE pending
    /\ \/ node[o] # "none" /\ BeginServerClose(o)
       \/ node[o] = "none" /\ UNCHANGED <<closing, barrier, node>>

\* import() rejected.
ImportFails(o) ==
    /\ stage[o] = "import"
    /\ stage' = [stage EXCEPT ![o] = "done"]
    /\ \/ promise[o] = "pending" /\ RejectServerStart(o)
       \/ promise[o] # "pending"
          /\ UNCHANGED <<promise, pending, closing, barrier, node>>
    /\ UNCHANGED <<server, awaited, connections, lateBind>>

\* close(), by itself or from reset(): the pending start is cancelled, or the
\* running server closed; there are never both.
CloseServer ==
    \/ /\ pending # None
       /\ RejectServerStart(pending)
       /\ UNCHANGED <<server, stage, awaited, connections, lateBind>>
    \/ /\ pending = None
       /\ server # None
       /\ server' = None
       /\ BeginServerClose(server)
       /\ UNCHANGED <<pending, promise, stage, awaited, connections, lateBind>>

\* The promise of a barrier settles; the field is cleared if it still holds it.
ClearBarrier ==
    /\ barrier # {} /\ barrier \cap closing = {}
    /\ barrier' = {}
    /\ UNCHANGED <<server, pending, promise, stage, node, closing, awaited,
                   connections, lateBind>>

-----------------------------------------------------------------------------
(* node:http. *)

\* The port asked for is free.  Ports may differ, so nothing is said of other
\* servers of this mock.
Bind(o) ==
    /\ node[o] = "binding"
    /\ node' = [node EXCEPT ![o] = "bound"]
    /\ UNCHANGED <<mock, stage, closing, awaited, connections, lateBind>>

\* Mutant: the server of a cancelled start is left alone.
ListeningLeftAlone(o) ==
    /\ stage[o] = "listening" /\ node[o] = "bound"
    /\ Owns(o)
    /\ stage' = [stage EXCEPT ![o] = "done"]
    /\ promise' = [promise EXCEPT ![o] = "resolved"]
    /\ pending' = None
    /\ server' = o
    /\ UNCHANGED <<node, barrier, closing, awaited, connections, lateBind>>

\* The 'listening' event: a start that is still wanted has succeeded, and the
\* server of another one is closed again.
Listening(o) ==
    /\ stage[o] = "listening" /\ node[o] = "bound"
    /\ stage' = [stage EXCEPT ![o] = "done"]
    /\ \/ /\ Owns(o)
          /\ promise' = [promise EXCEPT ![o] = "resolved"]
          /\ pending' = None
          /\ server' = o
          /\ UNCHANGED <<node, barrier, closing>>
       \/ /\ ~Owns(o)
          /\ BeginServerClose(o)
          /\ UNCHANGED <<promise, pending, server>>
    /\ UNCHANGED <<awaited, connections, lateBind>>

\* Mutant: the 'error' event of a start is not listened for.
BindFailsUnheard(o) ==
    /\ node[o] = "binding" /\ stage[o] = "listening"
    /\ stage' = [stage EXCEPT ![o] = "done"]
    /\ node' = [node EXCEPT ![o] = "closed"]
    /\ UNCHANGED <<mock, closing, awaited, connections, lateBind>>

\* The 'error' event, or listen() throws: the port is taken, or not allowed.
\* Nothing is bound, and Server.close() calls back at once.
BindFails(o) ==
    /\ node[o] = "binding" /\ stage[o] = "listening"
    /\ stage' = [stage EXCEPT ![o] = "done"]
    /\ node' = [node EXCEPT ![o] = "closed"]
    /\ \/ /\ promise[o] = "pending"
          /\ promise' = [promise EXCEPT ![o] = "rejected"]
          /\ pending' = IF pending = o THEN None ELSE pending
          /\ closing' = closing \cup {<<o, "unbound">>}
          /\ barrier' = Extended(<<o, "unbound">>)
       \/ /\ promise[o] # "pending"
          /\ UNCHANGED <<promise, pending, closing, barrier>>
    /\ UNCHANGED <<server, awaited, connections, lateBind>>

Connect(o) ==
    /\ node[o] = "bound"
    /\ connections[o] < MaxConnections
    /\ connections' = [connections EXCEPT ![o] = @ + 1]
    /\ UNCHANGED <<mock, stage, node, closing, awaited, lateBind>>

\* A connection ends, because of the peer or of closeAllConnections().
Disconnect(o) ==
    /\ connections[o] > 0
    /\ connections' = [connections EXCEPT ![o] = @ - 1]
    /\ UNCHANGED <<mock, stage, node, closing, awaited, lateBind>>

\* Server.close() calls back.
Closed(o) ==
    \/ /\ <<o, "unbound">> \in closing
       /\ closing' = closing \ {<<o, "unbound">>}
       /\ UNCHANGED <<mock, stage, node, awaited, connections, lateBind>>
    \/ /\ <<o, "bound">> \in closing
       /\ connections[o] = 0
       /\ closing' = closing \ {<<o, "bound">>}
       /\ node' = [node EXCEPT ![o] = "closed"]
       /\ UNCHANGED <<mock, stage, awaited, connections, lateBind>>

-----------------------------------------------------------------------------

\* The continuations of a start, with what node:http tells it.
Continue(o) ==
    \/ PassBarrier(o) \/ StartHttpServer(o) \/ ImportFails(o)
    \/ Bind(o) \/ BindFails(o) \/ Listening(o)

Next ==
    \/ \E o \in Starts :
          Listen(o) \/ Continue(o) \/ Connect(o) \/ Disconnect(o) \/ Closed(o)
    \/ CloseServer \/ ClearBarrier

Spec == Init /\ [][Next]_vars

\* The event loop runs continuations, import() and a bind come to an end, and
\* a server that was closed loses its connections and calls back.
FairSpec ==
    /\ Spec
    /\ \A o \in Starts :
          /\ WF_vars(Continue(o))
          /\ WF_vars(Closed(o))
          /\ WF_vars(node[o] = "closing" /\ Disconnect(o))

-----------------------------------------------------------------------------
(* Properties. *)

TypeOK ==
    /\ server \in Starts \cup {None} /\ pending \in Starts \cup {None}
    /\ promise \in [Starts -> {"unused", "pending", "resolved", "rejected"}]
    /\ stage \in [Starts -> Stages]
    /\ node \in [Starts -> NodeStates]
    /\ barrier \subseteq Close /\ closing \subseteq Close
    /\ awaited \in [Starts -> SUBSET Close]
    /\ connections \in [Starts -> Nat]
    /\ lateBind \in BOOLEAN

\* The server the mock calls its own is bound and was announced; a server that
\* nobody owns is on its way down, or its 'listening' event is still to come
\* and will bring it down.  No server is forgotten (builder.ts 888-915).
NoOrphan ==
    \A o \in Starts :
        /\ server = o => promise[o] = "resolved" /\ node[o] = "bound"
        /\ node[o] = "bound" =>
              \/ server = o \/ pending = o
              \/ stage[o] = "listening" /\ lateBind
        /\ node[o] = "closing" => <<o, "bound">> \in closing

\* Another server of this mock may hold the port: it has not closed yet.
PortTaken(o) == \E s \in Starts \ {o} : node[s] \in {"bound", "closing"}

\* A start only touches the port when every server closed before it is gone:
\* a restart on the same port never fails because of the mock's own previous
\* server (docs/api.md 197-199, the serverCloseBarrier), unless node:http
\* binds a server it was told to close.
RestartFindsPortFree ==
    ~lateBind => \A o \in Starts : Owns(o) /\ node[o] = "binding" => ~PortTaken(o)

\* A close that has not called back is in the barrier, where the next start
\* finds it (builder.ts 958-967).
BarrierComplete == closing \subseteq barrier

\* The contract of listen() and close().
Contract == INSTANCE ServerContract WITH
                starting <- pending, up <- server

\* Every behaviour of the server is one of the contract: no start is reserved
\* beside another or beside a server that is up, no promise settles twice or
\* is left pending for ever, whatever close() and node:http do.
ImplementsContract == Contract!Spec

\* The same without the liveness of the promises: every step is one of the
\* contract's, or none.
KeepsContract == Contract!SafeSpec

\* A server that is not the mock's any more goes down.
ServersGoDown ==
    \A o \in Starts :
        (node[o] = "bound" /\ server # o /\ pending # o) ~> node[o] = "closed"

=============================================================================
