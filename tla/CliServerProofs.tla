--------------------------- MODULE CliServerProofs ---------------------------
(***************************************************************************)
(* Proofs about CliServer and CliProcess, for any number of requests and   *)
(* of writes of the spec, any disk and any command line: mocks are         *)
(* published in the order of what they read, a request in flight keeps a   *)
(* mock whose plugins are installed, the command does what the server may  *)
(* do, and the server that it starts is the one its line describes.        *)
(***************************************************************************)
EXTENDS CliProcess, SequenceTheorems, WellFoundedInduction, TLAPS

\* What the proof needs of the types.
Types ==
    /\ file \in Nat
    /\ reloads \in Seq(Reload)
    /\ mocks \in Seq(Nat)
    /\ retired \subseteq Nat /\ uninstalled \subseteq retired
    /\ req \in [Requests -> {"idle", "open", "dropped", "done"}]
    /\ mockOf \in [Requests -> Nat]

\* Only the first reload of the queue has begun; the mock it will retire is
\* published, and what it read is no older than what is published.
QueueInv ==
    \A i \in 1 .. Len(reloads) :
        /\ i # 1 => reloads[i].previous = {} /\ reloads[i].read = {}
        /\ \A n \in reloads[i].previous : n <= Live
        /\ \A v \in reloads[i].read : v <= file /\ \A j \in 1 .. Live : mocks[j] <= v

\* The file is written with newer contents only.
FileInv == \A j \in 1 .. Live : mocks[j] <= file

\* The live mock is not retired, so that no request is admitted to one that is.
LiveInv == \A n \in retired : n < Live

\* Nothing runs before the first mock.
StartInv ==
    phase = "creating" =>
        /\ watching = FALSE /\ notified = FALSE /\ timer = FALSE
        /\ reloads = <<>> /\ retired = {}

IInv == /\ Types /\ StartInv /\ QueueInv /\ FileInv /\ LiveInv
        /\ NeverOlder /\ InFlightKeepsItsMock

-----------------------------------------------------------------------------

\* The reloads that are left when the first one has finished.
LEMMA FinishedFirst ==
    ASSUME reloads \in Seq(Reload), Len(reloads) >= 1
    PROVE  /\ Finished(1) \in Seq(Reload)
           /\ Len(Finished(1)) = Len(reloads) - 1
           /\ \A i \in 1 .. Len(reloads) - 1 : Finished(1)[i] = reloads[i + 1]
<1>1. Len(reloads) \in Nat /\ \A i \in 1 .. Len(reloads) : reloads[i] \in Reload
    BY ElementOfSeq, LenProperties
<1>2. SubSeq(reloads, 1, 0) = <<>>
    BY SubSeqEmpty
<1> DEFINE rest == SubSeq(reloads, 2, Len(reloads))
<1>3. /\ rest \in Seq(Reload)
      /\ Len(rest) = IF 2 <= Len(reloads) THEN Len(reloads) - 2 + 1 ELSE 0
      /\ \A i \in 1 .. Len(reloads) - 2 + 1 : rest[i] = reloads[2 + i - 1]
    <2>1. \A i \in 2 .. Len(reloads) : reloads[i] \in Reload
        BY <1>1
    <2> QED
        BY <1>1, <2>1, SubSeqProperties
<1>4. Finished(1) = rest
    <2>1. Finished(1) = <<>> \o rest
        BY <1>2, <1>1 DEF Finished
    <2> QED
        BY <2>1, <1>3, ConcatEmptySeq
<1>5. Len(rest) = Len(reloads) - 1
    BY <1>1, <1>3
<1>6. \A i \in 1 .. Len(reloads) - 1 : rest[i] = reloads[i + 1]
    <2> TAKE i \in 1 .. Len(reloads) - 1
    <2>1. i \in 1 .. Len(reloads) - 2 + 1 /\ 2 + i - 1 = i + 1
        BY <1>1
    <2> QED
        BY <2>1, <1>3
<1> QED
    BY <1>3, <1>4, <1>5, <1>6

\* The initial states satisfy the invariant.
LEMMA InitInv == Init => IInv
BY DEF Init, IInv, Types, StartInv, QueueInv, FileInv, LiveInv, NeverOlder,
    InFlightKeepsItsMock, Live, Admitted, Reload

\* Every step keeps it.
LEMMA StepInv == IInv /\ [Next]_vars => IInv'
<1> SUFFICES ASSUME IInv, [Next]_vars PROVE IInv'
    OBVIOUS
<1>0. /\ Types /\ StartInv /\ QueueInv /\ FileInv /\ LiveInv
      /\ NeverOlder /\ InFlightKeepsItsMock
    BY DEF IInv
<1>a. /\ Len(mocks) \in Nat
      /\ \A j \in 1 .. Len(mocks) : mocks[j] \in Nat
    BY <1>0, ElementOfSeq, LenProperties DEF Types
<1>b. Len(reloads) \in Nat /\ reloads \in Seq(Reload) /\ file \in Nat
    BY <1>0, LenProperties DEF Types
<1>c. ASSUME NEW i \in 1 .. Len(reloads)
      PROVE  /\ reloads[i] \in Reload
             /\ reloads[i].previous \subseteq Nat /\ reloads[i].read \subseteq Nat
    <2>1. reloads[i] \in Reload
        BY <1>b, ElementOfSeq
    <2> QED
        BY <2>1 DEF Reload
<1> DEFINE Still == UNCHANGED <<file, reloads, mocks, retired, uninstalled, req, mockOf>>
<1>1. ASSUME Still, StartInv' PROVE IInv'
    BY <1>0, <1>1 DEF IInv, Types, QueueInv, FileInv, LiveInv, NeverOlder,
        InFlightKeepsItsMock, Admitted, Live
<1>2. CASE UNCHANGED vars
    <2>1. Still /\ StartInv'
        BY <1>0, <1>2 DEF vars, watchVars, mockVars, closeVars, StartInv
    <2> QED
        BY <1>1, <2>1
<1>3. CASE CreateMock
    <2> USE <1>3 DEF CreateMock, watchVars, closeVars
    <2>1. CASE mocks' = mocks
        <3>1. Still /\ StartInv'
            BY <1>0, <2>1 DEF StartInv
        <3> QED
            BY <1>1, <3>1
    <2>2. CASE mocks' = <<file>>
        <3>1. Len(mocks') = 1 /\ mocks'[1] = file /\ mocks' \in Seq(Nat)
            BY <2>2, <1>b
        <3>2. phase' # "creating"
            OBVIOUS
        <3>3. reloads = <<>> /\ retired = {}
            BY <1>0 DEF StartInv
        <3>4. QueueInv' /\ StartInv'
            BY <3>2, <3>3 DEF QueueInv, StartInv
        <3>5. FileInv' /\ NeverOlder' /\ LiveInv' /\ InFlightKeepsItsMock' /\ Types'
            BY <1>0, <3>1, <3>3 DEF FileInv, NeverOlder, LiveInv,
                InFlightKeepsItsMock, Types, Live
        <3> QED
            BY <3>4, <3>5 DEF IInv
    <2> QED
        BY <2>1, <2>2
<1>4. CASE Bind \/ Notify \/ Close \/ BoundedDelay \/ Settle \/ ResolveClose
    <2>1. Still
        BY <1>4 DEF Bind, Notify, Close, BoundedDelay, Settle, ResolveClose, mockVars
    <2>2. StartInv'
        BY <1>0, <1>4 DEF Bind, Notify, Close, BoundedDelay, Settle, ResolveClose,
            BeginClose, mockVars, watchVars, StartInv
    <2> QED
        BY <1>1, <2>1, <2>2
<1>5. CASE Write
    <2> USE <1>5 DEF Write, mockVars
    <2>1. Types'
        BY <1>0 DEF Types
    <2>2. StartInv'
        <3>1. CASE phase = "creating"
            <4>1. notified = FALSE /\ watching = FALSE
                BY <1>0, <3>1 DEF StartInv
            <4>2. notified' = FALSE
                BY <4>1, Zenon
            <4> QED
                BY <1>0, <3>1, <4>2 DEF StartInv
        <3> QED
            BY <3>1 DEF StartInv
    <2>3. FileInv' /\ LiveInv' /\ NeverOlder' /\ InFlightKeepsItsMock'
        BY <1>0, <1>a, <1>b DEF FileInv, LiveInv, NeverOlder, InFlightKeepsItsMock,
            Admitted, Live
    <2>4. QueueInv'
        BY <1>0, <1>b, <1>c DEF QueueInv, Live
    <2> QED
        BY <2>1, <2>2, <2>3, <2>4 DEF IInv
<1>6. CASE DebounceFires
    <2> DEFINE new == [previous |-> {}, read |-> {}]
    <2>1. /\ reloads' \in Seq(Reload)
          /\ Len(reloads') = Len(reloads) + 1
          /\ \A i \in 1 .. Len(reloads) : reloads'[i] = reloads[i]
          /\ reloads'[Len(reloads) + 1] = new
        <3>1. new \in Reload /\ reloads' = Append(reloads, new)
            BY <1>6 DEF DebounceFires, Chain, Reload
        <3> HIDE DEF new
        <3> QED
            BY <1>b, <3>1, AppendProperties
    <2>2. QueueInv'
        <3>1. UNCHANGED <<file, mocks>>
            BY <1>6 DEF DebounceFires, mockVars
        <3> SUFFICES ASSUME NEW i \in 1 .. Len(reloads) + 1
                     PROVE  /\ i # 1 => reloads'[i].previous = {} /\ reloads'[i].read = {}
                            /\ \A n \in reloads'[i].previous : n <= Live
                            /\ \A v \in reloads'[i].read :
                                  v <= file /\ \A j \in 1 .. Live : mocks[j] <= v
            BY <2>1, <3>1 DEF QueueInv, Live
        <3>2. CASE i = Len(reloads) + 1
            BY <3>2, <2>1
        <3>3. CASE i \in 1 .. Len(reloads)
            BY <1>0, <3>3, <2>1 DEF QueueInv
        <3> QED
            BY <3>2, <3>3, <1>b
    <2>3. StartInv'
        BY <1>0, <1>6 DEF DebounceFires, StartInv
    <2>4. UNCHANGED <<file, mocks, retired, uninstalled, req, mockOf>>
        BY <1>6 DEF DebounceFires, mockVars
    <2> QED
        BY <1>0, <2>1, <2>2, <2>3, <2>4 DEF IInv, Types, FileInv, LiveInv, NeverOlder,
            InFlightKeepsItsMock, Admitted, Live
<1>7. CASE ReadSpec \/ (StartReload /\ reloads' # Finished(1))
    <2>1. /\ UNCHANGED <<file, watchVars, phase, mockVars, closeVars, req, mockOf>>
          /\ 1 \in 1 .. Len(reloads)
          /\ \/ reloads' = [reloads EXCEPT ![1].previous = {Live}]
             \/ reloads' = [reloads EXCEPT ![1].read = {file}]
        BY <1>7 DEF ReadSpec, StartReload, Turn
    <2>2. PICK e \in Reload :
             /\ e = [reloads[1] EXCEPT !.previous = {Live}] \/ e = [reloads[1] EXCEPT !.read = {file}]
             /\ reloads' = [reloads EXCEPT ![1] = e]
        <3>1. [reloads[1] EXCEPT !.previous = {Live}] \in Reload
            BY <1>a, <1>c, <2>1 DEF Reload, Live
        <3>2. [reloads[1] EXCEPT !.read = {file}] \in Reload
            BY <1>b, <1>c, <2>1 DEF Reload
        <3> QED
            BY <2>1, <3>1, <3>2
    <2>3. /\ reloads' \in Seq(Reload)
          /\ Len(reloads') = Len(reloads)
          /\ \A i \in 1 .. Len(reloads) : reloads'[i] = IF i = 1 THEN e ELSE reloads[i]
        BY <1>b, <2>1, <2>2, ExceptSeq
    <2>4. /\ \A n \in e.previous : n <= Live
          /\ \A v \in e.read : v <= file /\ \A j \in 1 .. Live : mocks[j] <= v
        BY <1>0, <1>a, <1>b, <1>c, <2>1, <2>2 DEF QueueInv, FileInv, Reload, Live
    <2>5. QueueInv'
        BY <1>0, <2>1, <2>3, <2>4 DEF QueueInv, Live, mockVars
    <2>6. StartInv'
        BY <1>0, <2>1 DEF StartInv, watchVars, mockVars
    <2> QED
        BY <1>0, <2>1, <2>3, <2>5, <2>6 DEF IInv, Types, FileInv, LiveInv, NeverOlder,
            InFlightKeepsItsMock, Admitted, mockVars, Live
<1>8. ASSUME 1 \in 1 .. Len(reloads), reloads' = Finished(1)
      PROVE  /\ reloads' \in Seq(Reload)
             /\ QueueInv'
    <2>1. /\ reloads' \in Seq(Reload)
          /\ Len(reloads') = Len(reloads) - 1
          /\ \A i \in 1 .. Len(reloads) - 1 : reloads'[i] = reloads[i + 1]
        BY <1>8, <1>b, FinishedFirst
    <2>2. ASSUME NEW i \in 1 .. Len(reloads) - 1
          PROVE  reloads'[i].previous = {} /\ reloads'[i].read = {}
        <3>1. i + 1 \in 1 .. Len(reloads) /\ i + 1 # 1
            BY <1>b
        <3> QED
            BY <1>0, <3>1, <2>1 DEF QueueInv
    <2> QED
        BY <2>1, <2>2 DEF QueueInv
<1>9. CASE StartReload /\ reloads' = Finished(1)
    <2>1. /\ UNCHANGED <<file, watchVars, phase, mockVars, closeVars, req, mockOf>>
          /\ 1 \in 1 .. Len(reloads)
        BY <1>9 DEF StartReload, Turn
    <2>2. QueueInv' /\ reloads' \in Seq(Reload)
        BY <1>8, <1>9, <2>1
    <2>3. StartInv'
        BY <1>0, <2>1 DEF StartInv, watchVars, mockVars
    <2> QED
        BY <1>0, <2>1, <2>2, <2>3 DEF IInv, Types, FileInv, LiveInv, NeverOlder,
            InFlightKeepsItsMock, Admitted, mockVars, Live
<1>10. CASE FinishReload
    <2>1. PICK n \in reloads[1].previous, v \in reloads[1].read :
            /\ 1 \in 1 .. Len(reloads)
            /\ reloads' = Finished(1)
            /\ \/ /\ mocks' = Append(mocks, v)
                  /\ Retire(n)
                  /\ uninstalled' = uninstalled \cup {m \in retired' \ retired : HooksRun(m)}
               \/ UNCHANGED mockVars
            /\ UNCHANGED <<file, watchVars, phase, closeVars, req, mockOf>>
        BY <1>10 DEF FinishReload, Turn
    <2>2. reloads' \in Seq(Reload) /\ QueueInv' /\ StartInv'
        <3>1. phase # "creating"
            BY <1>0, <2>1 DEF StartInv
        <3> QED
            BY <1>8, <2>1, <3>1 DEF StartInv
    <2>3. CASE UNCHANGED mockVars
        BY <1>0, <2>1, <2>2, <2>3 DEF IInv, Types, FileInv, LiveInv, NeverOlder,
            InFlightKeepsItsMock, Admitted, mockVars, Live
    <2>4. CASE /\ mocks' = Append(mocks, v)
               /\ Retire(n)
               /\ uninstalled' = uninstalled \cup {m \in retired' \ retired : HooksRun(m)}
        <3>1. /\ v \in Nat /\ v <= file /\ \A j \in 1 .. Len(mocks) : mocks[j] <= v
              /\ n \in Nat /\ n <= Len(mocks)
            BY <1>0, <1>c, <2>1 DEF QueueInv, Live
        <3>2. /\ mocks' \in Seq(Nat)
              /\ Len(mocks') = Len(mocks) + 1
              /\ \A j \in 1 .. Len(mocks) : mocks'[j] = mocks[j]
              /\ mocks'[Len(mocks) + 1] = v
            BY <1>0, <2>4, <3>1, AppendProperties DEF Types
        <3>3. ASSUME NEW j \in 1 .. Len(mocks) + 1
              PROVE  j = Len(mocks) + 1 \/ j \in 1 .. Len(mocks)
            BY <1>a
        <3>4. FileInv'
            BY <1>0, <2>1, <3>1, <3>2, <3>3 DEF FileInv, Live
        <3>5. NeverOlder'
            <4> SUFFICES ASSUME NEW i \in 1 .. Len(mocks) + 1, NEW j \in 1 .. Len(mocks) + 1,
                                i < j
                         PROVE  mocks'[i] <= mocks'[j]
                BY <3>2 DEF NeverOlder, Live
            <4>1. i \in 1 .. Len(mocks)
                BY <1>a
            <4>2. CASE j = Len(mocks) + 1
                BY <4>1, <4>2, <3>1, <3>2
            <4>3. CASE j \in 1 .. Len(mocks)
                BY <1>0, <4>1, <4>3, <3>2 DEF NeverOlder, Live
            <4> QED
                BY <4>2, <4>3, <3>3
        <3>6. /\ retired' \subseteq Nat /\ uninstalled' \subseteq retired'
              /\ LiveInv'
            <4>1. retired' = retired \cup {n}
                BY <2>4 DEF Retire
            <4>2. uninstalled \subseteq retired'
                BY <1>0, <4>1 DEF Types
            <4>3. uninstalled' \subseteq retired'
                BY <2>4, <4>2
            <4>4. LiveInv'
                BY <1>0, <1>a, <4>1, <3>1, <3>2 DEF LiveInv, Live, Types
            <4> QED
                BY <1>0, <3>1, <4>1, <4>3, <4>4 DEF Types
        <3>7. InFlightKeepsItsMock'
            BY <1>0, <2>1, <2>4 DEF InFlightKeepsItsMock, HooksRun, Admitted
        <3> QED
            BY <1>0, <2>1, <2>2, <3>2, <3>4, <3>5, <3>6, <3>7 DEF IInv, Types
    <2> QED
        BY <2>1, <2>3, <2>4
<1>11. ASSUME NEW r \in Requests, Arrive(r) PROVE IInv'
    <2>1. \A n \in uninstalled : n # Live
        BY <1>0, <1>a DEF LiveInv, Types, Live
    <2> QED
        BY <1>0, <1>a, <1>11, <2>1 DEF Arrive, IInv, Types, StartInv, QueueInv, FileInv,
            LiveInv, NeverOlder, InFlightKeepsItsMock, Admitted, mockVars, watchVars, Live
<1>12. ASSUME NEW r \in Requests, Disconnect(r) \/ End(r) PROVE IInv'
    <2>1. /\ UNCHANGED <<file, watchVars, reloads, phase, mocks, retired, mockOf>>
          /\ req' \in [Requests -> {"idle", "open", "dropped", "done"}]
          /\ \A n \in Nat : Admitted(n)' \subseteq Admitted(n)
        BY <1>0, <1>12 DEF Disconnect, End, Types, Admitted, mockVars
    <2>2. /\ uninstalled' \subseteq retired
          /\ \A n \in uninstalled' \ uninstalled : Admitted(n)' = {}
        <3>1. CASE Disconnect(r)
            BY <1>0, <3>1 DEF Disconnect, Types, mockVars
        <3>2. CASE End(r)
            <4>1. \A n \in uninstalled' \ uninstalled : Admitted(n) = {r}
                BY <3>2 DEF End
            <4>2. \A n : r \notin Admitted(n)'
                BY <1>0, <3>2 DEF End, Admitted, Types
            <4>3. uninstalled' \subseteq retired
                BY <1>0, <3>2 DEF End, Types
            <4> QED
                BY <1>0, <2>1, <4>1, <4>2, <4>3 DEF Types
        <3> QED
            BY <1>12, <3>1, <3>2
    <2>3. InFlightKeepsItsMock'
        BY <1>0, <2>1, <2>2 DEF InFlightKeepsItsMock, Types
    <2> QED
        BY <1>0, <2>1, <2>2, <2>3 DEF IInv, Types, StartInv, QueueInv, FileInv, LiveInv,
            NeverOlder, watchVars, Live
<1>13. CASE ForceClose
    BY <1>0, <1>13 DEF ForceClose, IInv, Types, StartInv, QueueInv, FileInv, LiveInv,
        NeverOlder, InFlightKeepsItsMock, Admitted, mockVars, watchVars, Live
<1> QED
    BY <1>2, <1>3, <1>4, <1>5, <1>6, <1>7, <1>9, <1>10, <1>11, <1>12, <1>13
    DEF Next, ReloadStep, Shutdown

-----------------------------------------------------------------------------

\* The inductive invariant holds throughout.
THEOREM Invariance == Spec => []IInv
BY InitInv, StepInv, PTL DEF Spec

\* No reload, however slow its parsing, replaces the mock of a newer spec.
THEOREM ReloadsKeepOrder == Spec => []NeverOlder
BY Invariance, PTL DEF IInv

\* No request in flight is on a mock whose plugins were uninstalled.
THEOREM NoneLosesItsMock == Spec => []InFlightKeepsItsMock
BY Invariance, PTL DEF IInv

-----------------------------------------------------------------------------

\* Every step of the process is one of the server, or leaves the server alone.
LEMMA ProcessStep == [ProcessNext]_processAll => [Next]_vars
<1> SUFFICES ASSUME [ProcessNext]_processAll PROVE [Next]_vars
    OBVIOUS
<1>1. CASE UNCHANGED processAll
    BY <1>1 DEF processAll
<1>2. CASE Run
    BY <1>2 DEF Run
<1>3. CASE CreateServer \/ Listen \/ Closed
    BY <1>3 DEF CreateServer, Listen, Closed, Next, Shutdown
<1>4. CASE Serve
    BY <1>4 DEF Serve, Next, Shutdown
<1>5. CASE Signal
    BY <1>5 DEF Signal, Next
<1> QED
    BY <1>1, <1>2, <1>3, <1>4, <1>5 DEF ProcessNext

\* The command is a server: whatever its line, its seed and its signals are, the
\* process only does what the server may do.
THEOREM ProcessIsServer == ProcessSpec => Spec
<1>1. ProcessInit => Init
    BY DEF ProcessInit
<1> QED
    BY <1>1, ProcessStep, PTL DEF ProcessSpec, Spec

\* So the process keeps the order of its reloads and the mocks of its requests.
THEOREM ProcessReloadsSafely == ProcessSpec => [](NeverOlder /\ InFlightKeepsItsMock)
<1>1. IInv => NeverOlder /\ InFlightKeepsItsMock
    BY DEF IInv
<1> QED
    BY <1>1, Invariance, ProcessIsServer, PTL

-----------------------------------------------------------------------------
(* What the process is made from. *)

\* Options that say what the command line says.
AsAsked(o) ==
    /\ o.admin = command.admin /\ o.seed = command.seed
    /\ command.admin <=> o.token # {}
    /\ command.token # Absent /\ command.admin => o.token = {command.token.text}
    /\ OrElse(o.limit, 500) >= 0
    /\ IsBlank(command.hostname) \/ command.hostname = Absent =>
          OrElse(o.hostname, "127.0.0.1") = "127.0.0.1"

OptionsInv == \A o \in options : options = {o} /\ AsAsked(o)

\* The first mock and the token of the socket are made from the options.
MadeInv ==
    /\ \A b \in built : \E o \in options : \E s \in Seeds(o) :
          b = [history |-> HistoryLimit(o), seed |-> s,
               hostname |-> OrElse(o.hostname, "127.0.0.1")]
    /\ phase # "creating" => \A o \in options : enforced = o.token
    /\ stage = "serving" => phase # "creating" /\ \A o \in options : banner = o.token

\* How far run() is, against how far the server is.
StageInv ==
    /\ stage = "called" => phase = "creating"
    /\ phase = "creating" => built = {}
    /\ phase = "binding" => stage = "creating"
    /\ closing => phase \notin {"creating", "binding"}
    /\ stage = "ended" /\ exitCode = 0 => resolved \/ command.help

ProcessInv == command \in Commands /\ OptionsInv /\ MadeInv /\ StageInv

-----------------------------------------------------------------------------

\* The options that a command line is parsed to.
LEMMA Parsed ==
    ASSUME NEW c, NEW o \in ParseCliArgs(c)
    PROVE  /\ o.admin = c.admin /\ o.seed = c.seed /\ o.help = c.help
           /\ o.token \in ValidateAdminToken(c.token)
           /\ o.limit \in ValidateHistoryLimit(c.limit)
           /\ o.hostname \in ValidateHostname(c.hostname)
           /\ \A token : LET p == [o EXCEPT !.token = token] IN
                 /\ p.token = token /\ p.admin = o.admin /\ p.seed = o.seed
                 /\ p.limit = o.limit /\ p.hostname = o.hostname
<1>1. PICK port \in ValidatePort(c.port), hostname \in ValidateHostname(c.hostname),
           token \in ValidateAdminToken(c.token), limit \in ValidateHistoryLimit(c.limit),
           fakerSeed \in {s \in ValidateFakerSeed(c.fakerSeed) :
                             ~c.unknown /\ Len(c.positionals) <= 1} :
         o = [spec |-> SpecOf(c), port |-> port, hostname |-> hostname,
              token |-> token, limit |-> limit, fakerSeed |-> fakerSeed,
              hosts |-> ParseAllowedHosts(c.hosts), seed |-> c.seed,
              admin |-> c.admin, watch |-> c.watch, help |-> c.help]
    BY DEF ParseCliArgs
<1> QED
    BY <1>1

\* A limit that is accepted is none below 0.
LEMMA LimitIs ==
    ASSUME NEW t, NEW l \in ValidateHistoryLimit(t) PROVE OrElse(l, 500) >= 0
<1>1. CASE l = {}
    BY <1>1 DEF OrElse
<1>2. CASE l # {}
    <2>1. PICK n \in Number(t) : l = {n} /\ n >= 0
        BY <1>2 DEF ValidateHistoryLimit
    <2>2. OrElse(l, 500) = n
        BY <2>1 DEF OrElse
    <2> QED
        BY <2>1, <2>2
<1> QED
    BY <1>1, <1>2

\* run() works with options that say what its command line says.
LEMMA ResolvedIsAsked ==
    ASSUME NEW o \in ParseCliArgs(command), ResolveAdminToken(o), UNCHANGED command
    PROVE  OptionsInv'
<1>1. PICK token \in {IF ~o.admin THEN {} ELSE IF o.token # {} THEN o.token
                      ELSE {Uuids[minted + 1]}} : options' = {[o EXCEPT !.token = token]}
    BY DEF ResolveAdminToken
<1> DEFINE p == [o EXCEPT !.token = token]
<1>2. /\ p.token = token /\ p.admin = command.admin /\ p.seed = command.seed
      /\ p.limit = o.limit /\ p.hostname = o.hostname
    BY Parsed
<1>3. o.admin = command.admin /\ o.token \in ValidateAdminToken(command.token)
    BY Parsed
<1>4. command.admin <=> token # {}
    BY <1>1, <1>3
<1>5. command.token # Absent /\ command.admin => token = {command.token.text}
    BY <1>1, <1>3 DEF ValidateAdminToken
<1>6. OrElse(p.limit, 500) >= 0
    BY <1>2, LimitIs, Parsed
<1>7. IsBlank(command.hostname) \/ command.hostname = Absent =>
          OrElse(p.hostname, "127.0.0.1") = "127.0.0.1"
    BY <1>2, Parsed DEF ValidateHostname, OrElse, Absent, IsBlank
<1>8. options' = {p}
    BY <1>1
<1> HIDE DEF p
<1> QED
    BY <1>2, <1>4, <1>5, <1>6, <1>7, <1>8 DEF OptionsInv, AsAsked

-----------------------------------------------------------------------------
(* The seed. *)

\* The longest common prefix of two sequences is a prefix of both.
LEMMA CommonIsPrefix ==
    ASSUME NEW S, NEW a \in Seq(S), NEW b \in Seq(S)
    PROVE  LET p == LongestCommonPrefix({a, b}) IN
           /\ p \in Seq(S) /\ Len(p) <= Len(a) /\ Len(p) <= Len(b)
           /\ p = SubSeq(a, 1, Len(p)) /\ p = SubSeq(b, 1, Len(p))
<1> DEFINE C == CommonPrefixes({a, b})
           longest == LongestCommonPrefix({a, b})
           Lengths == {n \in Nat : \E p \in C : n = Len(a) - Len(p)}
<1>1. Len(a) \in Nat /\ Len(b) \in Nat
    BY LenProperties
<1>2. ASSUME NEW p \in C
      PROVE  /\ p \in Seq(S) /\ Len(p) \in Nat /\ Len(p) <= Len(a) /\ Len(p) <= Len(b)
             /\ p = SubSeq(a, 1, Len(p)) /\ p = SubSeq(b, 1, Len(p))
    <2>0. PICK s \in {a, b} : p \in Prefixes(s)
        BY DEF CommonPrefixes
    <2>1. PICK l \in 0 .. Len(s) : p = SubSeq(s, 1, l)
        BY <2>0 DEF Prefixes
    <2>2. /\ s \in Seq(S) /\ Len(s) \in Nat
          /\ \A i \in 1 .. l : s[i] \in S
        BY <2>1, ElementOfSeq, LenProperties
    <2>3. p \in Seq(S) /\ Len(p) = l
        BY <2>1, <2>2, SubSeqProperties
    <2>4. SubSeq(p, 1, Len(p)) = p
        BY <2>3, SubSeqFull
    <2> QED
        BY <2>3, <2>4 DEF CommonPrefixes, IsPrefix
<1>3. C # {}
    <2>1. SubSeq(a, 1, 0) = <<>> /\ SubSeq(b, 1, 0) = <<>>
        BY SubSeqEmpty
    <2>2. <<>> \in Prefixes(a)
        BY <1>1, <2>1 DEF Prefixes
    <2>3. IsPrefix(<<>>, a) /\ IsPrefix(<<>>, b)
        BY <1>1, <2>1, SubSeqEmpty DEF IsPrefix
    <2> QED
        BY <2>2, <2>3 DEF CommonPrefixes
<1>4. Lengths # {}
    <2>1. PICK p \in C : TRUE
        BY <1>3
    <2>2. Len(p) \in Nat /\ Len(p) <= Len(a)
        BY <1>2
    <2>3. Len(a) - Len(p) \in Nat
        BY <1>1, <2>2
    <2> QED
        BY <2>1, <2>3
<1>5. PICK n \in Lengths : \A k \in Lengths : ~ (<<k, n>> \in OpToRel(<, Nat))
    <2> HIDE DEF Lengths
    <2>1. Lengths \subseteq Nat
        BY DEF Lengths
    <2> QED
        BY <1>4, <2>1, NatLessThanWellFounded, WFMin
<1>6. PICK p \in C : n = Len(a) - Len(p)
    OBVIOUS
<1>7. \A q \in C : Len(q) <= Len(p)
    <2> TAKE q \in C
    <2>1. /\ Len(q) \in Nat /\ Len(q) <= Len(a)
          /\ Len(p) \in Nat /\ Len(p) <= Len(a)
        BY <1>2
    <2>2. Len(a) - Len(q) \in Nat /\ n \in Nat
        BY <1>1, <1>6, <2>1
    <2>3. Len(a) - Len(q) \in Lengths
        BY <2>2
    <2>4. ~ (Len(a) - Len(q) < n)
        <3> HIDE DEF Lengths, C
        <3> QED
            BY <1>5, <2>2, <2>3 DEF OpToRel
    <2> QED
        BY <1>1, <1>6, <2>1, <2>4
<1>8. longest \in C
    BY <1>7, <1>6 DEF LongestCommonPrefix
<1> QED
    BY <1>2, <1>8

\* A path that does not escape from a directory is strictly below it.
LEMMA BelowTheBase ==
    ASSUME NEW S, NEW base \in Seq(S), NEW real \in Seq(S), ~Escapes(Relative(base, real))
    PROVE  IsStrictPrefix(base, real)
<1> DEFINE p == LongestCommonPrefix({base, real})
           ups == [i \in 1 .. Len(base) - Len(p) |-> ".."]
           rest == SubSeq(real, Len(p) + 1, Len(real))
<1>1. /\ p \in Seq(S) /\ Len(p) <= Len(base) /\ Len(p) <= Len(real)
      /\ p = SubSeq(base, 1, Len(p)) /\ p = SubSeq(real, 1, Len(p))
    BY CommonIsPrefix
<1>2. Relative(base, real) = ups \o rest
    BY DEF Relative
<1> HIDE DEF p
<1>3. Len(base) \in Nat /\ Len(real) \in Nat /\ Len(p) \in Nat
    BY <1>1, LenProperties
<1>4. /\ ups \in Seq({".."}) /\ Len(ups) = Len(base) - Len(p)
      /\ \A i \in 1 .. Len(base) - Len(p) : ups[i] = ".."
    <2>1. Len(base) - Len(p) \in Nat
        BY <1>1, <1>3
    <2> QED
        BY <2>1, IsASeq, LenProperties
<1>5. /\ rest \in Seq(S)
      /\ Len(rest) = IF Len(p) + 1 <= Len(real) THEN Len(real) - (Len(p) + 1) + 1 ELSE 0
    <2>1. \A i \in Len(p) + 1 .. Len(real) : real[i] \in S
        BY <1>3, ElementOfSeq
    <2> QED
        BY <1>3, <2>1, SubSeqProperties
<1>6. Len(base) = Len(p)
    <2> SUFFICES ASSUME Len(base) # Len(p) PROVE FALSE
        OBVIOUS
    <2> HIDE DEF ups, rest
    <2>1. Len(ups) \in Nat /\ 1 \in 1 .. Len(ups)
        <3>1. Len(p) <= Len(base) /\ Len(ups) = Len(base) - Len(p)
            BY <1>1, <1>4
        <3> QED
            BY <1>3, <3>1
    <2>2. /\ ups \o rest \in Seq(S \cup {".."})
          /\ (ups \o rest)[1] = ups[1]
        <3>1. ups \in Seq(S \cup {".."}) /\ rest \in Seq(S \cup {".."})
            BY <1>4, <1>5, SeqMonotonic
        <3>2. Len(ups) \in Nat /\ Len(rest) \in Nat
            BY <3>1, LenProperties
        <3> QED
            BY <2>1, <3>1, <3>2, ConcatProperties
    <2>3. ups[1] = ".."
        BY <1>4, <2>1
    <2>4. Head(ups \o rest) = ".."
        <3>1. ups \o rest # <<>>
            BY <1>4, <1>5, <2>1, EmptySeq, ConcatEqualIffEmpty
        <3> QED
            BY <2>2, <2>3, <3>1, HeadTailProperties
    <2> QED
        BY <1>2, <2>4 DEF Escapes
<1>7. ups = <<>>
    BY <1>3, <1>4, <1>6, EmptySeq
<1>8. Relative(base, real) = rest
    <2> HIDE DEF ups, rest
    <2> QED
        BY <1>2, <1>5, <1>7, ConcatEmptySeq
<1>9. rest # <<>>
    BY <1>8 DEF Escapes
<1>10. Len(base) < Len(real)
    BY <1>3, <1>5, <1>6, <1>9, <1>1, EmptySeq
<1>11. SubSeq(base, 1, Len(base)) = SubSeq(real, 1, Len(base))
    BY <1>1, <1>6
<1> QED
    BY <1>3, <1>10, <1>11 DEF IsStrictPrefix, IsPrefix

\* What an entry of the manifest becomes is no file outside of its directory.
LEMMA SourceIsInside ==
    ASSUME NEW m, NormalPath(m.dir) = m.dir, NEW base \in RealPath(m.dir), NEW entry,
           entry.form = "file" => "path" \in DOMAIN entry,
           NEW source \in SeedSource(entry, base), source.form = "file"
    PROVE  IsStrictPrefix(Follow(m.dir), Follow(source.path))
<1>1. entry.form = "file"
    BY DEF SeedSource
<1>2. PICK real \in ResolveSeedEntryPath(entry, base) : source = [entry EXCEPT !.path = real]
    BY <1>1 DEF SeedSource
<1>3. source.path = real
    BY <1>1, <1>2
<1>4. /\ real \in Seq(STRING) /\ Follow(real) = real
      /\ ~Escapes(Relative(base, real))
    BY <1>2, FilesAssumption DEF ResolveSeedEntryPath, RealPath
<1>5. base \in Seq(STRING) /\ base = Follow(m.dir)
    BY FilesAssumption DEF RealPath
<1> QED
    BY <1>3, <1>4, <1>5, BelowTheBase

\* The seed of a mock has the items of the manifest, within the budget.
LEMMA SeedIs ==
    ASSUME NEW c \in Commands, NEW m \in c.seed, NEW o, o.seed = c.seed, NEW s \in Seeds(o)
    PROVE  /\ Total(s.items) <= MaxItemsTotal
           /\ DOMAIN s.items = DOMAIN m.entries
           /\ \A k \in DOMAIN s.sources : s.sources[k].form = "file" =>
                 IsStrictPrefix(Follow(m.dir), Follow(s.sources[k].path))
<1>1. /\ c.seed = {m} /\ NormalPath(m.dir) = m.dir
      /\ \A k \in DOMAIN m.entries :
            m.entries[k].form = "file" => "path" \in DOMAIN m.entries[k]
    BY CommandsAssumption
<1>2. PICK sources \in LoadSeedFile(m) :
         \E items \in LoadSeed(sources) : s = [sources |-> sources, items |-> items]
    BY <1>1 DEF Seeds
<1>items. PICK items \in LoadSeed(sources) : s = [sources |-> sources, items |-> items]
    BY <1>2
<1>3. PICK base \in RealPath(m.dir) :
         /\ DOMAIN sources = DOMAIN m.entries
         /\ \A k \in DOMAIN m.entries : sources[k] \in SeedSource(m.entries[k], base)
    BY <1>2 DEF LoadSeedFile
<1>4. DOMAIN items = DOMAIN sources /\ Total(items) <= MaxItemsTotal
    BY <1>items DEF LoadSeed, AdmittedItems
<1> QED
    BY <1>1, <1>items, <1>3, <1>4, SourceIsInside

-----------------------------------------------------------------------------
(* The process honours its command. *)

\* A process that was called is made from nothing yet.
LEMMA ProcessInitially == ProcessInit => ProcessInv
BY DEF ProcessInit, Init, ProcessInv, OptionsInv, MadeInv, StageInv

\* A server that goes on by itself stays as it was made.
LEMMA ServeKeeps ==
    ASSUME ProcessInv, Serve PROVE ProcessInv'
<1>1. UNCHANGED <<processVars, phase, closing, resolved>>
    BY DEF Serve, Write, ReloadStep, Notify, DebounceFires, StartReload, ReadSpec,
        FinishReload, ForceClose, BoundedDelay, Settle, Arrive, Disconnect, End,
        closeVars, watchVars, mockVars
<1> QED
    BY <1>1 DEF processVars, ProcessInv, OptionsInv, AsAsked, MadeInv, StageInv

\* Every step of the process keeps what it is made from.
LEMMA ProcessKeeps == ProcessInv /\ [ProcessNext]_processAll => ProcessInv'
<1> SUFFICES ASSUME ProcessInv, [ProcessNext]_processAll PROVE ProcessInv'
    OBVIOUS
<1>0. command \in Commands /\ OptionsInv /\ MadeInv /\ StageInv
    BY DEF ProcessInv
<1>1. ASSUME UNCHANGED <<command, options, stage, built, enforced, banner, exitCode, phase>>,
             closing' => phase \notin {"creating", "binding"},
             resolved => resolved'
      PROVE  ProcessInv'
    BY <1>0, <1>1 DEF ProcessInv, OptionsInv, AsAsked, MadeInv, StageInv
<1>2. CASE UNCHANGED processAll
    BY <1>0, <1>1, <1>2 DEF processAll, processVars, vars, closeVars, StageInv
<1>3. CASE Run
    <2>1. UNCHANGED <<vars, command, built, enforced, banner>> /\ stage = "called"
        BY <1>3 DEF Run
    <2>2. UNCHANGED <<phase, closing, resolved>> /\ phase = "creating" /\ built = {} /\ ~closing
        BY <1>0, <2>1 DEF vars, closeVars, StageInv
    <2>3. CASE /\ stage' = "ended" /\ exitCode' = 1
               /\ UNCHANGED options
        BY <1>0, <2>1, <2>2, <2>3 DEF ProcessInv, OptionsInv, AsAsked, MadeInv, StageInv
    <2>4. ASSUME NEW o \in ParseCliArgs(command), ResolveAdminToken(o),
                 stage' = IF o.help \/ o.spec = {} THEN "ended" ELSE "creating",
                 exitCode' = IF ~o.help /\ o.spec = {} THEN 1 ELSE 0
          PROVE  ProcessInv'
        <3>1. OptionsInv'
            BY <2>1, <2>4, ResolvedIsAsked
        <3>2. o.help = command.help
            BY Parsed
        <3>3. StageInv'
            BY <2>1, <2>2, <2>4, <3>2 DEF StageInv
        <3>4. MadeInv'
            BY <2>1, <2>2, <2>4 DEF MadeInv
        <3> QED
            BY <1>0, <2>1, <3>1, <3>3, <3>4 DEF ProcessInv
    <2> QED
        BY <1>3, <2>3, <2>4 DEF Run
<1>4. CASE CreateServer
    <2>1. PICK o \in options :
             /\ built' = IF phase' = "rejected" THEN {}
                         ELSE {[history |-> HistoryLimit(o), seed |-> s,
                                hostname |-> OrElse(o.hostname, "127.0.0.1")] : s \in Seeds(o)}
             /\ enforced' = IF o.admin /\ o.token = {} THEN {Uuids[minted + 1]} ELSE o.token
        BY <1>4 DEF CreateServer
    <2>2. /\ stage = "creating" /\ phase = "creating" /\ phase' \in {"binding", "rejected"}
          /\ UNCHANGED <<closing, resolved, command, options, banner>>
          /\ stage' = IF phase' = "rejected" THEN "ended" ELSE stage
          /\ exitCode' = IF phase' = "rejected" THEN 1 ELSE exitCode
        BY <1>4 DEF CreateServer, CreateMock, closeVars
    <2>3. options = {o} /\ AsAsked(o)
        BY <1>0, <2>1 DEF OptionsInv
    <2>4. enforced' = o.token
        BY <2>1, <2>3 DEF AsAsked
    <2>5. OptionsInv'
        BY <1>0, <2>2 DEF OptionsInv, AsAsked
    <2>6. MadeInv'
        BY <2>1, <2>2, <2>3, <2>4 DEF MadeInv
    <2>7. StageInv'
        BY <1>0, <2>2 DEF StageInv
    <2> QED
        BY <1>0, <2>2, <2>5, <2>6, <2>7 DEF ProcessInv
<1>5. CASE Listen
    <2>1. PICK o \in options : banner' = IF phase' = "up" /\ o.admin THEN o.token ELSE {}
        BY <1>5 DEF Listen
    <2>2. /\ phase = "binding" /\ phase' \in {"up", "failing", "rejected"}
          /\ UNCHANGED <<command, options, built, enforced>>
          /\ stage' = CASE phase' = "up" -> "serving"
                        [] phase' = "rejected" -> "ended"
                        [] OTHER -> stage
          /\ exitCode' = IF phase' = "rejected" THEN 1 ELSE exitCode
        BY <1>5 DEF Listen, Bind
    <2>3. stage = "creating" /\ options = {o} /\ AsAsked(o) /\ enforced = o.token
        BY <1>0, <2>1, <2>2 DEF StageInv, OptionsInv, MadeInv
    <2>4. /\ phase' = "up" => stage' = "serving"
          /\ phase' = "rejected" => stage' = "ended"
          /\ phase' = "failing" => stage' = "creating"
        BY <2>2, <2>3
    <2>5. stage' = "serving" => banner' = o.token
        BY <2>1, <2>2, <2>3, <2>4 DEF AsAsked
    <2>6. OptionsInv'
        BY <1>0, <2>2 DEF OptionsInv, AsAsked
    <2>7. MadeInv'
        BY <1>0, <2>2, <2>3, <2>5 DEF MadeInv
    <2>8. StageInv'
        BY <1>0, <2>2, <2>4 DEF StageInv
    <2> QED
        BY <1>0, <2>2, <2>6, <2>7, <2>8 DEF ProcessInv
<1>6. CASE Serve
    BY <1>6, ServeKeeps
<1>7. CASE Signal
    <2>1. /\ UNCHANGED <<command, stage, options, built, enforced, banner, exitCode>>
          /\ UNCHANGED vars \/ Close
        BY <1>7 DEF Signal
    <2>2. CASE UNCHANGED vars
        BY <1>0, <1>1, <2>1, <2>2 DEF vars, closeVars, StageInv
    <2>3. CASE Close
        BY <1>1, <2>1, <2>3 DEF Close, BeginClose
    <2> QED
        BY <2>1, <2>2, <2>3
<1>8. CASE Closed
    <2>1. /\ closing /\ resolved' = TRUE /\ closing' = closing
          /\ phase' = phase \/ phase' = "rejected"
          /\ stage' = "ended"
          /\ UNCHANGED <<command, options, built, enforced, banner>>
        BY <1>8 DEF Closed, ResolveClose
    <2>2. phase \notin {"creating", "binding"}
        BY <1>0, <2>1 DEF StageInv
    <2>3. OptionsInv' /\ MadeInv'
        BY <1>0, <2>1, <2>2 DEF OptionsInv, AsAsked, MadeInv
    <2>4. StageInv'
        BY <2>1, <2>2 DEF StageInv
    <2> QED
        BY <1>0, <2>1, <2>3, <2>4 DEF ProcessInv
<1> QED
    BY <1>2, <1>3, <1>4, <1>5, <1>6, <1>7, <1>8 DEF ProcessNext

\* A process that is made like that honours its command.
LEMMA MadeIsHonoured == ProcessInv => CommandIsHonoured
<1> SUFFICES ASSUME ProcessInv PROVE CommandIsHonoured
    OBVIOUS
<1>0. command \in Commands /\ OptionsInv /\ MadeInv /\ StageInv
    BY DEF ProcessInv
<1>1. ASSUME stage = "serving", NEW o \in options
      PROVE  /\ enforced = banner
             /\ command.admin <=> enforced # {}
             /\ command.token # Absent /\ command.admin => enforced = {command.token.text}
             /\ \A b \in built :
                   /\ b.history >= 0 /\ (~command.admin => b.history = 0)
                   /\ IsBlank(command.hostname) \/ command.hostname = Absent
                         => b.hostname = "127.0.0.1"
    <2>1. AsAsked(o) /\ options = {o}
        BY <1>0, <1>1 DEF OptionsInv
    <2>2. enforced = o.token /\ banner = o.token
        BY <1>0, <1>1 DEF MadeInv
    <2>3. ASSUME NEW b \in built
          PROVE  /\ b.history >= 0 /\ (~command.admin => b.history = 0)
                 /\ IsBlank(command.hostname) \/ command.hostname = Absent
                       => b.hostname = "127.0.0.1"
        <3>1. PICK s \in Seeds(o) :
                 b = [history |-> HistoryLimit(o), seed |-> s,
                      hostname |-> OrElse(o.hostname, "127.0.0.1")]
            BY <1>0, <2>1, <2>3 DEF MadeInv
        <3> QED
            BY <2>1, <3>1 DEF AsAsked, HistoryLimit
    <2> QED
        BY <2>1, <2>2, <2>3 DEF AsAsked
<1>2. ASSUME NEW b \in built, NEW m \in command.seed
      PROVE  /\ Total(b.seed.items) <= MaxItemsTotal
             /\ DOMAIN b.seed.items = DOMAIN m.entries
             /\ \A k \in DOMAIN b.seed.sources :
                   b.seed.sources[k].form = "file" =>
                       IsStrictPrefix(Follow(m.dir), Follow(b.seed.sources[k].path))
    <2>1. PICK o \in options : \E s \in Seeds(o) : b.seed = s
        BY <1>0, <1>2 DEF MadeInv
    <2>2. o.seed = command.seed
        BY <1>0 DEF OptionsInv, AsAsked
    <2> QED
        BY <1>0, <2>1, <2>2, SeedIs
<1>3. stage = "ended" /\ exitCode = 0 => resolved \/ command.help
    BY <1>0 DEF StageInv
<1> QED
    BY <1>1, <1>2, <1>3 DEF CommandIsHonoured

\* Whatever the command lines, the links of the disk, the seed files and the
\* limits are, a server runs with what its command says.
THEOREM ProcessHonoursCommand == ProcessSpec => []CommandIsHonoured
BY ProcessInitially, ProcessKeeps, MadeIsHonoured, PTL DEF ProcessSpec

=============================================================================
