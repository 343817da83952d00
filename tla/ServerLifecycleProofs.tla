----------------------- MODULE ServerLifecycleProofs -----------------------
(***************************************************************************)
(* Proofs about ServerLifecycle, for any number of starts: its safety      *)
(* invariants, and that it implements ServerContract.                      *)
(***************************************************************************)
EXTENDS ServerLifecycle, TLAPS

\* The reserved start has not settled, and no server is up beside it; the code
\* of a start whose server is up has run to its end.
PendingInv ==
    /\ pending # None =>
          /\ server = None
          /\ promise[pending] = "pending"
          /\ stage[pending] \in {"barrier", "import", "listening"}
    /\ server # None => stage[server] = "done"
    /\ \A o \in Starts : promise[o] = "pending" => pending = o

\* A start that was not made has left no trace, and no server exists before
\* the code that creates it ran.
StageInv ==
    \A o \in Starts :
        /\ stage[o] = "unused" <=> promise[o] = "unused"
        /\ stage[o] \in {"unused", "barrier", "import"} => node[o] = "none"
        /\ node[o] = "binding" =>
              stage[o] = "listening" /\ (pending = o \/ lateBind)
        /\ <<o, "bound">> \in closing => node[o] = "closing"

\* What a start waits for covers every server that still holds the port: the
\* reason the barrier read at listen() is enough.
PortInv ==
    ~lateBind => \A o, s \in Starts :
        pending = o /\ s # o =>
            /\ node[s] \notin {"binding", "bound"}
            /\ node[s] = "closing" =>
                  stage[o] = "barrier" /\ <<s, "bound">> \in awaited[o]

IInv == /\ TypeOK /\ PendingInv /\ StageInv
        /\ NoOrphan /\ BarrierComplete /\ PortInv

-----------------------------------------------------------------------------

\* The initial states satisfy the invariant.
LEMMA InitInv == Init => IInv
BY StartsAssumption DEF Init, IInv, TypeOK, PendingInv, StageInv, NoOrphan,
    BarrierComplete, PortInv, Stages, NodeStates, None, Close

\* Every step keeps it.
LEMMA StepInv == IInv /\ [Next]_vars => IInv'
<1> SUFFICES ASSUME IInv, [Next]_vars PROVE IInv'
    OBVIOUS
<1> USE StartsAssumption
<1> USE DEF IInv, TypeOK, PendingInv, StageInv, NoOrphan, BarrierComplete,
            PortInv, Stages, NodeStates, Close, mock
<1>1. CASE UNCHANGED vars
    BY <1>1 DEF vars
<1>2. ASSUME NEW o \in Starts, Listen(o) PROVE IInv'
    BY <1>2 DEF Listen, Barrier
<1>3. ASSUME NEW o \in Starts, PassBarrier(o) PROVE IInv'
    BY <1>3 DEF PassBarrier
<1>4. ASSUME NEW o \in Starts, StartHttpServer(o) PROVE IInv'
    BY <1>4 DEF StartHttpServer, Owns
<1>5. ASSUME NEW o \in Starts, ImportFails(o) PROVE IInv'
    <2>1. node[o] = "none"
        BY <1>5 DEF ImportFails
    <2>2. CASE promise[o] = "pending"
        BY <1>5, <2>1, <2>2 DEF ImportFails, RejectServerStart
    <2>3. CASE promise[o] # "pending"
        BY <1>5, <2>1, <2>3 DEF ImportFails
    <2> QED
        BY <2>2, <2>3
<1>6. ASSUME NEW o \in Starts, Bind(o) PROVE IInv'
    <2> USE <1>6 DEF Bind
    <2>1. TypeOK' /\ PendingInv' /\ BarrierComplete'
        OBVIOUS
    <2>2. StageInv'
        OBVIOUS
    <2>3. NoOrphan'
        OBVIOUS
    <2>4. PortInv'
        OBVIOUS
    <2> QED
        BY <2>1, <2>2, <2>3, <2>4
<1>7. ASSUME NEW o \in Starts, BindFails(o) PROVE IInv'
    BY <1>7 DEF BindFails, Extended
<1>8. ASSUME NEW o \in Starts, Listening(o) PROVE IInv'
    <2>1. CASE Owns(o)
        <3>1. /\ pending = o /\ server = None
              /\ pending' = None /\ server' = o
              /\ promise' = [promise EXCEPT ![o] = "resolved"]
              /\ stage' = [stage EXCEPT ![o] = "done"]
              /\ node[o] = "bound"
              /\ UNCHANGED <<node, barrier, closing, awaited, connections, lateBind>>
            BY <1>8, <2>1 DEF Listening, Owns
        <3>2. TypeOK' /\ BarrierComplete'
            BY <3>1
        <3>3. \A s \in Starts : promise'[s] # "pending"
            BY <3>1
        <3>4. PendingInv'
            BY <3>1, <3>3
        <3>5. StageInv'
            BY <3>1
        <3>6. NoOrphan' /\ PortInv'
            BY <3>1
        <3> QED
            BY <3>2, <3>4, <3>5, <3>6
    <2>2. CASE ~Owns(o)
        <3>1. /\ closing' = closing \cup {<<o, "bound">>}
              /\ barrier' = barrier \cup {<<o, "bound">>}
              /\ node' = [node EXCEPT ![o] = "closing"]
            BY <1>8, <2>2 DEF Listening, BeginServerClose, Extended, Unbound
        <3>2. UNCHANGED <<promise, pending, server, awaited, connections, lateBind>>
            BY <1>8, <2>2 DEF Listening
        <3>3. stage' = [stage EXCEPT ![o] = "done"]
            BY <1>8 DEF Listening
        <3>4. /\ pending # o /\ server # o /\ lateBind
              /\ node[o] = "bound" /\ stage[o] = "listening"
            <4>1. stage[o] = "listening" /\ node[o] = "bound"
                BY <1>8 DEF Listening
            <4>2. ~(pending = o /\ promise[o] = "pending")
                BY <2>2 DEF Owns
            <4>3. o # None => pending # o /\ server # o
                BY <4>1, <4>2
            <4>4. o # None
                BY StartsAssumption
            <4> QED
                BY <4>1, <4>3, <4>4
        <3>5. TypeOK' /\ PendingInv' /\ BarrierComplete'
            BY <3>1, <3>2, <3>3, <3>4
        <3>6. StageInv'
            <4> SUFFICES ASSUME NEW s \in Starts PROVE StageInv!(s)'
                BY DEF StageInv
            <4> QED
                BY <3>1, <3>2, <3>3, <3>4
        <3>7. NoOrphan' /\ PortInv'
            BY <3>1, <3>2, <3>3, <3>4
        <3> QED
            BY <3>5, <3>6, <3>7
    <2> QED
        BY <2>1, <2>2
<1>9. ASSUME NEW o \in Starts, Connect(o) PROVE IInv'
    BY <1>9 DEF Connect
<1>10. ASSUME NEW o \in Starts, Disconnect(o) PROVE IInv'
    BY <1>10 DEF Disconnect
<1>11. ASSUME NEW o \in Starts, Closed(o) PROVE IInv'
    BY <1>11 DEF Closed
<1>12. CASE CloseServer
    BY <1>12 DEF CloseServer, RejectServerStart, BeginServerClose, Extended,
        Unbound
<1>13. CASE ClearBarrier
    BY <1>13 DEF ClearBarrier
<1> QED
    BY <1>1, <1>2, <1>3, <1>4, <1>5, <1>6, <1>7, <1>8, <1>9, <1>10, <1>11,
       <1>12, <1>13 DEF Next, Continue

-----------------------------------------------------------------------------

\* The inductive invariant holds throughout.
THEOREM Invariance == Spec => []IInv
BY InitInv, StepInv, PTL DEF Spec

\* Every variable keeps its type.
THEOREM TypeCorrect == Spec => []TypeOK
BY Invariance, PTL DEF IInv

\* No server a start created is ever forgotten, whether close() comes before,
\* between or after its bind and its 'listening' event.
THEOREM NoServerForgotten == Spec => []NoOrphan
BY Invariance, PTL DEF IInv

\* Every close that is under way is in the barrier the next start waits for.
THEOREM BarrierIsComplete == Spec => []BarrierComplete
BY Invariance, PTL DEF IInv

\* A start that binds finds the port free of the mock's own servers, provided
\* that node:http does not bind a server it was told to close.
THEOREM RestartWorks == Spec => []RestartFindsPortFree
<1>1. IInv => RestartFindsPortFree
    BY  DEF IInv, PortInv, StageInv, RestartFindsPortFree,
        PortTaken, Owns, TypeOK
<1> QED
    BY <1>1, Invariance, PTL

-----------------------------------------------------------------------------

\* Every step of the server is a step of the contract, or none.
LEMMA StepImplements == IInv /\ [Next]_vars => [Contract!Next]_(Contract!vars)
<1> SUFFICES ASSUME IInv, [Next]_vars
             PROVE  Contract!Next \/ UNCHANGED Contract!vars
    OBVIOUS
<1> USE StartsAssumption
<1> USE DEF IInv, TypeOK, PendingInv, mock, Contract!vars, Contract!None, None
<1>1. CASE UNCHANGED vars
    BY <1>1 DEF vars
<1>2. ASSUME NEW o \in Starts, Listen(o) PROVE Contract!Reserve(o)
    BY <1>2 DEF Listen, Contract!Reserve, Contract!Free, StageInv
<1>3. ASSUME NEW o \in Starts,
             \/ PassBarrier(o) \/ StartHttpServer(o) \/ Bind(o)
             \/ Connect(o) \/ Disconnect(o) \/ Closed(o)
      PROVE  UNCHANGED Contract!vars
    BY <1>3 DEF PassBarrier, StartHttpServer, Bind, Connect, Disconnect, Closed
<1>4. ASSUME NEW o \in Starts, ImportFails(o)
      PROVE  Contract!Fail(o) \/ UNCHANGED Contract!vars
    BY <1>4 DEF ImportFails, RejectServerStart, Contract!Fail
<1>5. ASSUME NEW o \in Starts, BindFails(o)
      PROVE  Contract!Fail(o) \/ UNCHANGED Contract!vars
    BY <1>5 DEF BindFails, Contract!Fail
<1>6. ASSUME NEW o \in Starts, Listening(o)
      PROVE  Contract!Succeed(o) \/ UNCHANGED Contract!vars
    BY <1>6 DEF Listening, Owns, BeginServerClose, Contract!Succeed
<1>7. CASE CloseServer /\ pending # None
    BY <1>7 DEF CloseServer, RejectServerStart, Contract!Fail, Contract!Next
<1>8. CASE CloseServer /\ pending = None
    BY <1>8 DEF CloseServer, Contract!TakeDown, Contract!Next
<1>9. CASE ClearBarrier
    BY <1>9 DEF ClearBarrier
<1> QED
    BY <1>1, <1>2, <1>3, <1>4, <1>5, <1>6, <1>7, <1>8, <1>9
    DEF Next, Continue, Contract!Next

\* listen() and close() keep the contract of ServerContract.
THEOREM Implementation == Spec => KeepsContract
<1>1. Init => Contract!Init
    BY DEF Init, Contract!Init, Contract!None, None
<1> QED
    BY <1>1, Invariance, StepImplements, PTL
    DEF Spec, KeepsContract, Contract!SafeSpec

=============================================================================
