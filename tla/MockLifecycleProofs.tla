------------------------ MODULE MockLifecycleProofs ------------------------
(***************************************************************************)
(* Proofs about MockLifecycle, for every number of requests, plugins and   *)
(* resets, and whatever user code calls back (every CallbackOps).          *)
(*                                                                         *)
(* NoUseAfterUninstall is not inductive: an uninstall() hook may be called *)
(* by reset() or by the last release, and which plugins an admission holds *)
(* is decided long before.  The argument goes through the generation a     *)
(* plugin was registered in (pipedIn): all that an admission will run was  *)
(* registered in the admission's own generation, hooks only run for        *)
(* generations that are over and count no admission, and the count of a    *)
(* generation that is over never grows again.                              *)
(***************************************************************************)
EXTENDS MockLifecycle, FiniteSetTheorems, SequenceTheorems, TLAPS

\* The unreleased admissions of generation g.
LiveOf(g) == {r \in Live : adm[r].gen = g}

\* A generation is over, and nobody holds it.
Drained(g) == g < gen /\ active[g] = 0

\* Admissions only know the current generation and earlier ones, and run
\* plugins registered in their own.
AdmissionInv ==
    \A r \in Requests :
        /\ pc[r] = "idle" => ~released[r]
        /\ pc[r] # "idle" =>
              /\ adm[r].gen <= gen
              /\ \A i \in 1 .. Len(adm[r].plugins) :
                    pipedIn[adm[r].plugins[i]] = {adm[r].gen}

\* The registered plugins belong to the current generation, the ones waiting
\* for a last release to a generation that is over but still held.
RegisteredInv ==
    /\ \A i \in 1 .. Len(plugins) : pipedIn[plugins[i]] = {gen}
    /\ \A g \in Gens : \A todo \in retired[g] :
          /\ g < gen
          /\ active[g] > 0
          /\ \A i \in 1 .. Len(todo) : pipedIn[todo[i]] = {g}

\* Hooks that are about to be called, or were, belong to drained generations.
UninstallInv ==
    /\ \A i \in 1 .. Len(stack) : stack[i].op = "uninstall" =>
          \A j \in 1 .. Len(stack[i].todo) :
              \E g \in Gens : pipedIn[stack[i].todo[j]] = {g} /\ Drained(g)
    /\ \A p \in Plugins : uninstalls[p] > 0 =>
          \E g \in Gens : pipedIn[p] = {g} /\ Drained(g)

\* A plugin whose pipe() was not called, or has not returned, is nowhere else.
FreshInv ==
    /\ \A p \in unused : pipedIn[p] = {}
    /\ \A i \in 1 .. Len(stack) : stack[i].op = "install" =>
          /\ stack[i].plugin \notin unused
          /\ pipedIn[stack[i].plugin] = {}
          /\ \A j \in 1 .. Len(stack) :
                stack[j].op = "install" /\ stack[j].plugin = stack[i].plugin
                    => i = j

\* The inductive invariant.
IInv ==
    /\ TypeOK
    /\ AdmissionCount
    /\ AdmissionInv
    /\ RegisteredInv
    /\ UninstallInv
    /\ FreshInv

-----------------------------------------------------------------------------
(* Cardinalities of sets of requests. *)

\* Every set of requests is finite, and counts a natural number that is zero
\* only when it is empty.
LEMMA RequestSets ==
    ASSUME NEW S \in SUBSET Requests
    PROVE  /\ IsFiniteSet(S)
           /\ Cardinality(S) \in Nat
           /\ Cardinality(S) = 0 <=> S = {}
BY RequestsAssumption, FS_Subset, FS_CardinalityType, FS_EmptySet

\* Admitting a request adds one.
LEMMA CountOneMore ==
    ASSUME NEW S \in SUBSET Requests, NEW r \in Requests, r \notin S
    PROVE  Cardinality(S \cup {r}) = Cardinality(S) + 1
BY RequestSets, FS_AddElement

\* Releasing one takes one away.
LEMMA CountOneLess ==
    ASSUME NEW S \in SUBSET Requests, NEW r \in S
    PROVE  Cardinality(S \ {r}) = Cardinality(S) - 1
BY RequestSets, FS_RemoveElement

\* Generations are numbered.
LEMMA GensAreNat == Gens \subseteq Nat
BY BoundsAssumption DEF Gens

-----------------------------------------------------------------------------
(* Stacks. *)

\* Pushing a frame keeps a stack a stack, and the frames that were there.
LEMMA PushFrame ==
    ASSUME NEW s \in Seq(Frame), NEW f \in Frame
    PROVE  /\ Append(s, f) \in Seq(Frame)
           /\ Len(Append(s, f)) = Len(s) + 1
           /\ \A i \in 1 .. Len(s) : Append(s, f)[i] = s[i]
           /\ Append(s, f)[Len(s) + 1] = f
OBVIOUS

\* Popping the top frame keeps the others.
LEMMA PopFrame ==
    ASSUME NEW T, NEW s \in Seq(T), s # <<>>
    PROVE  /\ Front(s) \in Seq(T)
           /\ Len(Front(s)) = Len(s) - 1
           /\ Len(s) \in Nat \ {0}
           /\ Last(s) \in T
           /\ Last(s) = s[Len(s)]
           /\ \A i \in 1 .. Len(Front(s)) : Front(s)[i] = s[i]
<1>1. Len(s) \in Nat \ {0}
  OBVIOUS
<1>2. Last(s) = s[Len(s)] /\ Last(s) \in T
  BY <1>1 DEF Last
<1>3. Front(s) = [i \in 1 .. Len(s) - 1 |-> s[i]]
  BY <1>1 DEF Front
<1>4. /\ Front(s) \in Seq(T)
      /\ Len(Front(s)) = Len(s) - 1
  BY <1>1, <1>3
<1>5. \A i \in 1 .. Len(Front(s)) : Front(s)[i] = s[i]
  BY <1>3, <1>4
<1> QED  BY <1>1, <1>2, <1>4, <1>5

\* Replacing the top frame keeps the others.
LEMMA SetTopFrame ==
    ASSUME NEW s \in Seq(Frame), s # <<>>, NEW f \in Frame
    PROVE  LET t == Append(Front(s), f) IN
           /\ t \in Seq(Frame)
           /\ Len(t) = Len(s)
           /\ \A i \in 1 .. Len(s) - 1 : t[i] = s[i]
           /\ t[Len(s)] = f
<1>1. /\ Front(s) \in Seq(Frame)
      /\ Len(Front(s)) = Len(s) - 1
      /\ Len(s) \in Nat \ {0}
      /\ \A i \in 1 .. Len(Front(s)) : Front(s)[i] = s[i]
  BY PopFrame
<1> QED  BY <1>1, PushFrame

\* The three kinds of frames are told apart by op.
LEMMA FrameKinds ==
    ASSUME NEW f \in Frame
    PROVE  /\ f.op = "install" => f \in InstallFrame
           /\ f.op = "uninstall" => f \in UninstallFrame
           /\ f.op = "run" => f \in RunFrame
           /\ f.op \in {"install", "uninstall", "run"}
BY DEF Frame, InstallFrame, UninstallFrame, RunFrame

\* What Running says of the frame on top.
LEMMA TopFrame ==
    ASSUME TypeOK, NEW op, Running(op)
    PROVE  /\ stack # <<>>
           /\ Last(stack) \in Frame
           /\ Last(stack) = stack[Len(stack)]
           /\ Len(stack) \in Nat \ {0}
           /\ Last(stack).op = op
BY PopFrame DEF Running, TypeOK

-----------------------------------------------------------------------------
(* Type correctness. *)

LEMMA RunFrameType ==
    ASSUME NEW r \in Requests, NEW todo \in Seq(Listeners)
    PROVE  RunFrameOf(r, todo) \in Frame
BY DEF RunFrameOf, Frame, RunFrame

LEMMA TypeCalls ==
    ASSUME TypeOK, Call
    PROVE  TypeOK'
<1> USE DEF TypeOK
<1> USE BoundsAssumption
<1>1. ASSUME NEW k \in Keys, DefineRoute(k) PROVE TypeOK'
  BY <1>1 DEF DefineRoute, Route, admissions, requests, hooksLog
<1>2. ASSUME NEW p \in Plugins, PipePlain(p) PROVE TypeOK'
  BY <1>2 DEF PipePlain, Register, admissions, requests
<1>3. ASSUME NEW p \in Plugins, PipeInstall(p) PROVE TypeOK'
  <2>1. [op |-> "install", plugin |-> p, routes |-> routes] \in Frame
    BY DEF Frame, InstallFrame
  <2>2. stack' \in Seq(Frame)
    BY <1>3, <2>1, PushFrame DEF PipeInstall, Push
  <2> QED  BY <1>3, <2>2 DEF PipeInstall, mock, admissions, requests
<1>4. ASSUME NEW l \in Listeners, On(l) PROVE TypeOK'
  BY <1>4 DEF On, admissions, requests, hooksLog
<1>5. ASSUME NEW l \in Listeners, Off(l) PROVE TypeOK'
  <2>1. listeners' \in Seq(Listeners)
    BY <1>5 DEF Off, RemoveAt
  <2> QED  BY <1>5, <2>1 DEF Off, admissions, requests, hooksLog
<1>6. ASSUME Reset PROVE TypeOK'
  <2>1. gen \in Gens /\ gen + 1 \in Gens
    BY <1>6 DEF Reset, Gens
  <2>2. [op |-> "uninstall", todo |-> plugins, resetting |-> TRUE] \in Frame
    BY DEF Frame, UninstallFrame
  <2>3. /\ gen' = gen + 1 /\ hgen' = hgen + 1 /\ plugins' = <<>>
        /\ UNCHANGED <<active, adm, released, requests, unused, pipedIn>>
    BY <1>6 DEF Reset, Detach
  <2>4. CASE /\ plugins # <<>>
             /\ Push([op |-> "uninstall", todo |-> plugins, resetting |-> TRUE])
             /\ CallUninstall(plugins)
             /\ UNCHANGED <<retired, routes, history, listeners, state>>
    <3>1. stack' \in Seq(Frame)
      BY <2>2, <2>4, PushFrame DEF Push
    <3>2. uninstalls' \in [Plugins -> Nat]
      <4>1. Last(plugins) \in Plugins
        BY <2>4, PopFrame
      <4> QED  BY <2>4, <4>1 DEF CallUninstall
    <3> QED  BY <2>1, <2>3, <2>4, <3>1, <3>2 DEF requests
  <2>5. CASE /\ ClearMock(gen + 1)
             /\ UNCHANGED <<retired, stack, uninstalls>>
    BY <2>1, <2>3, <2>5 DEF ClearMock, State, requests
  <2>6. CASE /\ retired' = [retired EXCEPT ![gen] = {plugins}]
             /\ ClearMock(gen + 1)
             /\ UNCHANGED <<stack, uninstalls>>
    <3>1. retired' \in [Gens -> SUBSET Seq(Plugins)]
      BY <2>6
    <3> QED  BY <2>1, <2>3, <2>6, <3>1 DEF ClearMock, State, requests
  <2> QED  BY <1>6, <2>4, <2>5, <2>6 DEF Reset
<1>7. ASSUME ResetHistory PROVE TypeOK'
  BY <1>7 DEF ResetHistory, admissions, requests, hooksLog
<1>8. ASSUME ResetState PROVE TypeOK'
  BY <1>8 DEF ResetState, State, admissions, requests, hooksLog
<1>9. ASSUME NEW r \in Requests, Capture(r)
      PROVE  adm' \in [Requests -> Admission] /\ active' \in [Gens -> Nat]
  BY <1>9, SMTT(30) DEF Capture, Admission
<1>10. ASSUME NEW r \in Requests, Handle(r) PROVE TypeOK'
  <2>1. stack' \in Seq(Frame)
    BY <1>10, RunFrameType, PushFrame DEF Handle, Push
  <2>2. adm' \in [Requests -> Admission] /\ active' \in [Gens -> Nat]
    BY <1>9, <1>10 DEF Handle
  <2>3. pc' \in [Requests -> Phases]
    BY <1>10 DEF Handle, Goto, Phases
  <2>4. events' \in [Requests -> Seq(Events)]
    BY <1>10 DEF Handle, Events
  <2> QED  BY <1>10, <2>1, <2>2, <2>3, <2>4 DEF Handle, mock, hooksLog
<1>11. ASSUME NEW r \in Requests, Admit(r) PROVE TypeOK'
  <2>1. adm' \in [Requests -> Admission] /\ active' \in [Gens -> Nat]
    BY <1>9, <1>11 DEF Admit
  <2>2. pc' \in [Requests -> Phases]
    BY <1>11 DEF Admit, Goto, Phases
  <2> QED  BY <1>11, <2>1, <2>2 DEF Admit, mock, hooksLog
<1>12. ASSUME NEW r \in Requests, Abort(r) PROVE TypeOK'
  BY <1>12 DEF Abort, mock, admissions, hooksLog
<1> QED
  BY <1>1, <1>2, <1>3, <1>4, <1>5, <1>6, <1>7, <1>8, <1>10, <1>11, <1>12
  DEF Call

LEMMA TypeReturns ==
    ASSUME TypeOK, UserCodeReturn
    PROVE  TypeOK'
<1> USE DEF TypeOK
<1>1. ASSUME NEW op, Running(op)
      PROVE  /\ Front(stack) \in Seq(Frame)
             /\ Last(stack) \in Frame
             /\ Last(stack).op = op
             /\ stack # <<>>
  BY <1>1, TopFrame, PopFrame
<1>2. ASSUME InstallReturn PROVE TypeOK'
  <2>1. Last(stack) \in InstallFrame
    BY <1>1, <1>2, FrameKinds DEF InstallReturn
  <2>2. stack' \in Seq(Frame)
    BY <1>1, <1>2 DEF InstallReturn, Pop
  <2> QED  BY <1>2, <2>1, <2>2 DEF InstallReturn, Register, InstallFrame, admissions, requests
<1>3. ASSUME InstallThrow PROVE TypeOK'
  <2>1. Last(stack) \in InstallFrame
    BY <1>1, <1>3, FrameKinds DEF InstallThrow
  <2>2. stack' \in Seq(Frame)
    BY <1>1, <1>3 DEF InstallThrow, Pop
  <2> QED
    BY <1>3, <2>1, <2>2 DEF InstallThrow, InstallFrame, admissions, requests, hooksLog
<1>4. ASSUME UninstallReturn PROVE TypeOK'
  <2> DEFINE todo == Front(Last(stack).todo)
  <2>1. Last(stack) \in UninstallFrame /\ stack # <<>>
    BY <1>1, <1>4, FrameKinds DEF UninstallReturn
  <2>2. CASE /\ todo # <<>>
             /\ SetTop([Last(stack) EXCEPT !.todo = todo])
             /\ CallUninstall(todo)
             /\ UNCHANGED mock
             /\ UNCHANGED <<admissions, requests, unused, pipedIn>>
    <3>1. todo \in Seq(Plugins)
      <4>1. Last(stack).todo \in Seq(Plugins)
        BY <2>1 DEF UninstallFrame
      <4> QED  BY <2>2, <4>1 DEF Front
    <3>2. [Last(stack) EXCEPT !.todo = todo] \in Frame
      BY <2>1, <3>1 DEF UninstallFrame, Frame
    <3>3. stack' \in Seq(Frame)
      BY <2>1, <2>2, <3>2, SetTopFrame DEF SetTop
    <3>4. uninstalls' \in [Plugins -> Nat]
      <4>1. Last(todo) \in Plugins
        BY <2>2, <3>1, PopFrame
      <4> QED  BY <2>2, <4>1 DEF CallUninstall
    <3> QED  BY <2>2, <3>3, <3>4 DEF mock, admissions, requests
  <2>3. CASE /\ Pop
             /\ UNCHANGED uninstalls
             /\ \/ ClearMock(gen)
                \/ UNCHANGED <<routes, history, listeners, state>>
             /\ UNCHANGED <<gen, hgen, plugins>>
             /\ UNCHANGED <<admissions, requests, unused, pipedIn>>
    <3>1. stack' \in Seq(Frame)
      BY <1>1, <1>4, <2>3 DEF Pop, UninstallReturn
    <3>2. /\ state' \in State /\ routes' \subseteq Route
          /\ listeners' \in Seq(Listeners) /\ history' \in Seq(Requests)
      <4>1. CASE ClearMock(gen)
        BY <4>1 DEF ClearMock, State
      <4>2. CASE UNCHANGED <<routes, history, listeners, state>>
        BY <4>2
      <4> QED  BY <2>3, <4>1, <4>2
    <3> QED  BY <2>3, <3>1, <3>2 DEF admissions, requests
  <2> QED  BY <1>4, <2>2, <2>3 DEF UninstallReturn
<1>5. ASSUME ListenerReturn PROVE TypeOK'
  <2>1. Last(stack) \in RunFrame /\ stack # <<>> /\ Last(stack).todo # <<>>
    BY <1>1, <1>5, FrameKinds DEF ListenerReturn
  <2>2. [Last(stack) EXCEPT !.todo = Tail(@)] \in Frame
    <3>1. Tail(Last(stack).todo) \in Seq(Listeners)
      BY <2>1 DEF RunFrame
    <3> QED  BY <2>1, <3>1 DEF RunFrame, Frame
  <2>3. stack' \in Seq(Frame)
    BY <1>5, <2>1, <2>2, SetTopFrame DEF ListenerReturn, SetTop
  <2> QED  BY <1>5, <2>3 DEF ListenerReturn, mock, admissions, requests, hooksLog
<1> QED  BY <1>2, <1>3, <1>4, <1>5 DEF UserCodeReturn

\* A generation that a request holds counts at least one admission.
LEMMA HeldIsCounted ==
    ASSUME TypeOK, AdmissionCount, NEW r \in Live
    PROVE  adm[r].gen \in Gens /\ active[adm[r].gen] \in Nat \ {0}
<1> DEFINE g == adm[r].gen
<1>1. g \in Gens
  BY DEF TypeOK, Admission, Live
<1>2. LiveOf(g) \in SUBSET Requests /\ r \in LiveOf(g)
  BY DEF LiveOf, Live
<1>3. active[g] = Cardinality(LiveOf(g))
  BY <1>1 DEF AdmissionCount, LiveOf
<1> QED  BY <1>1, <1>2, <1>3, RequestSets

LEMMA TypeRelease ==
    ASSUME TypeOK, AdmissionCount, NEW r \in Requests, pc[r] # "idle",
           ReleaseAdmission(r), pc' \in [Requests -> Phases],
           UNCHANGED <<mock, aborted, adapter, events, unused, pipedIn>>
    PROVE  TypeOK'
<1> USE DEF TypeOK, mock
<1> DEFINE g == adm[r].gen
<1>1. CASE UNCHANGED <<admissions, stack, uninstalls>>
  BY <1>1 DEF admissions
<1>2. CASE ~released[r]
  <2>1. g \in Gens /\ active[g] - 1 \in Nat
    BY <1>2, HeldIsCounted DEF Live
  <2>2. released' \in [Requests -> BOOLEAN] /\ active' \in [Gens -> Nat]
        /\ adm' = adm
    <3>1. /\ released' = [released EXCEPT ![r] = TRUE]
          /\ active' = [active EXCEPT ![g] = @ - 1]
          /\ adm' = adm
      BY <1>2 DEF ReleaseAdmission
    <3> QED  BY <2>1, <3>1
  <2>3. retired' \in [Gens -> SUBSET Seq(Plugins)]
    BY <1>2 DEF ReleaseAdmission
  <2>4. CASE UNCHANGED <<stack, uninstalls>>
    BY <2>2, <2>3, <2>4
  <2>5. ASSUME NEW todo \in retired[g], todo # <<>>,
               Push([op |-> "uninstall", todo |-> todo, resetting |-> FALSE]),
               CallUninstall(todo)
        PROVE  TypeOK'
    <3>1. todo \in Seq(Plugins)
      BY <2>1
    <3>2. [op |-> "uninstall", todo |-> todo, resetting |-> FALSE] \in Frame
      BY <3>1 DEF Frame, UninstallFrame
    <3>3. stack' \in Seq(Frame)
      BY <2>5, <3>2, PushFrame DEF Push
    <3>4. Last(todo) \in Plugins
      BY <2>5, <3>1, PopFrame
    <3>5. uninstalls' \in [Plugins -> Nat]
      BY <2>5, <3>4 DEF CallUninstall
    <3> QED  BY <2>2, <2>3, <3>3, <3>5
  <2> QED  BY <1>2, <2>4, <2>5 DEF ReleaseAdmission
<1> QED  BY <1>1, <1>2 DEF ReleaseAdmission

LEMMA TypeRequests ==
    ASSUME TypeOK, AdmissionCount, NEW r \in Requests, RequestStep(r)
    PROVE  TypeOK'
<1> USE DEF TypeOK
<1>1. ASSUME NEW todo \in Seq(Listeners)
      PROVE  /\ Push(RunFrameOf(r, todo)) => stack' \in Seq(Frame)
             /\ stack # <<>> /\ SetTop(RunFrameOf(r, todo)) => stack' \in Seq(Frame)
  <2>1. RunFrameOf(r, todo) \in Frame
    BY <1>1, RunFrameType
  <2>2. Append(stack, RunFrameOf(r, todo)) \in Seq(Frame)
    BY <2>1
  <2>3. stack # <<>> => Append(Front(stack), RunFrameOf(r, todo)) \in Seq(Frame)
    BY <2>1, SetTopFrame
  <2> QED  BY <2>2, <2>3 DEF Push, SetTop
<1>2. Heard(r) \in Seq(Listeners)
  BY DEF Heard
<1>3. Continues(r) => stack # <<>>
  BY DEF Continues, Running
<1>4. \A e \in Events : Log(r, e) => events' \in [Requests -> Seq(Events)]
  BY DEF Log, Emits
<1>5. \A phase \in Phases : Goto(r, phase) => pc' \in [Requests -> Phases]
  BY DEF Goto
<1>6. {"start", "match", "notfound", "end"} \subseteq Events
  BY DEF Events
<1>7. {"starting", "missed", "matched", "hooks", "delay", "ending", "settled",
       "released", "done"} \subseteq Phases
  BY DEF Phases
<1>8. CASE Begin(r)
  <2>1. stack' \in Seq(Frame) /\ pc' \in [Requests -> Phases]
        /\ events' \in [Requests -> Seq(Events)]
    BY <1>1, <1>2, <1>4, <1>5, <1>6, <1>7, <1>8 DEF Begin
  <2> QED  BY <1>8, <2>1 DEF Begin, mock, admissions, hooksLog
<1>9. CASE Miss(r)
  <2>1. stack' \in Seq(Frame) /\ pc' \in [Requests -> Phases]
        /\ events' \in [Requests -> Seq(Events)]
    BY <1>1, <1>2, <1>3, <1>4, <1>5, <1>6, <1>7, <1>9 DEF Miss
  <2> QED  BY <1>9, <2>1 DEF Miss, mock, admissions, hooksLog
<1>10. CASE MissEnd(r)
  <2>1. stack' \in Seq(Frame) /\ pc' \in [Requests -> Phases]
        /\ events' \in [Requests -> Seq(Events)]
    BY <1>1, <1>2, <1>3, <1>4, <1>5, <1>6, <1>7, <1>10 DEF MissEnd
  <2> QED  BY <1>10, <2>1 DEF MissEnd, mock, admissions, hooksLog
<1>11. CASE Match(r)
  <2>1. stack' \in Seq(Frame) /\ pc' \in [Requests -> Phases]
        /\ events' \in [Requests -> Seq(Events)]
    BY <1>1, <1>2, <1>3, <1>4, <1>5, <1>6, <1>7, <1>11 DEF Match
  <2> QED  BY <1>11, <2>1 DEF Match, mock, admissions, hooksLog
<1>12. CASE Suspend(r)
  <2>1. stack' \in Seq(Frame) /\ pc' \in [Requests -> Phases]
    BY <1>3, <1>5, <1>7, <1>12, PopFrame DEF Suspend, Pop
  <2> QED  BY <1>12, <2>1 DEF Suspend, mock, admissions, hooksLog
<1>13. CASE HooksSettle(r)
  BY <1>5, <1>7, <1>13 DEF HooksSettle, mock, admissions, hooksLog
<1>14. CASE AbortObserved(r)
  BY <1>5, <1>7, <1>14 DEF AbortObserved, mock, admissions, hooksLog
<1>15. CASE Finalize(r)
  <2>1. stack' \in Seq(Frame) /\ pc' \in [Requests -> Phases]
        /\ events' \in [Requests -> Seq(Events)]
    BY <1>1, <1>2, <1>4, <1>5, <1>6, <1>7, <1>15 DEF Finalize
  <2>2. history' \in Seq(Requests)
    <3>1. Append(history, r) \in Seq(Requests)
      OBVIOUS
    <3>2. Newest(Append(history, r)) \in Seq(Requests)
      <4> DEFINE s == Append(history, r)
      <4>1. s \in Seq(Requests) /\ Len(s) \in Nat
        BY <3>1
      <4> HIDE DEF s
      <4>2. Newest(s) \in Seq(Requests)
        <5>1. CASE Len(s) > MaxHistory
          <6>1. SubSeq(s, Len(s) - MaxHistory + 1, Len(s)) \in Seq(Requests)
            BY <4>1, <5>1, BoundsAssumption
          <6> QED  BY <5>1, <6>1 DEF Newest
        <5>2. CASE ~(Len(s) > MaxHistory)
          BY <4>1, <5>2 DEF Newest
        <5> QED  BY <5>1, <5>2
      <4> QED  BY <4>2 DEF s
    <3> QED  BY <1>15, <3>2 DEF Finalize
  <2> QED  BY <1>15, <2>1, <2>2 DEF Finalize, admissions, hooksLog
<1>16. CASE Release(r) \/ AdapterRelease(r) \/ AdapterAbandon(r)
  <2>1. pc[r] # "idle" /\ pc' \in [Requests -> Phases]
    BY <1>5, <1>7, <1>16 DEF Release, AdapterRelease, AdapterAbandon, requests, TypeOK
  <2> QED
    BY <1>16, <2>1, TypeRelease DEF Release, AdapterRelease, AdapterAbandon, requests
<1> QED
  BY <1>8, <1>9, <1>10, <1>11, <1>12, <1>13, <1>14, <1>15, <1>16 DEF RequestStep

\* Every step keeps the types.
LEMMA TypeStep ==
    ASSUME TypeOK, AdmissionCount, [Next]_vars
    PROVE  TypeOK'
<1>1. CASE UNCHANGED vars
  BY <1>1 DEF TypeOK, vars, mock, admissions, requests, hooksLog
<1>2. CASE Next
  BY <1>2, TypeCalls, TypeReturns, TypeRequests DEF Next
<1> QED  BY <1>1, <1>2

-----------------------------------------------------------------------------
(* The inductive invariant. *)

LEMMA TypesHold == ASSUME IInv PROVE TypeOK /\ AdmissionCount
BY DEF IInv


\* The frames of a stack that matter to the invariant, at their places.
HookFramesKept ==
    \A i \in 1 .. Len(stack') : stack'[i].op # "run" =>
        i \in 1 .. Len(stack) /\ stack'[i] = stack[i]

UninstallFramesKept ==
    \A i \in 1 .. Len(stack') : stack'[i].op = "uninstall" =>
        i \in 1 .. Len(stack) /\ stack'[i] = stack[i]

\* What the invariant says of the admissions, apart from the mock.
SameAdmissions ==
    /\ UNCHANGED <<active, retired, adm, released>>
    /\ \A r \in Requests : (pc[r] = "idle") = (pc'[r] = "idle")

\* A step that touches no admission, plugin list or uninstall() hook.
LEMMA QuietStep ==
    ASSUME IInv, TypeOK', SameAdmissions, HookFramesKept,
           UNCHANGED <<gen, plugins, unused, pipedIn, uninstalls>>
    PROVE  IInv'
<1>1. Live' = Live /\ \A g \in Gens : LiveOf(g)' = LiveOf(g)
  BY DEF Live, LiveOf, SameAdmissions
<1>2. AdmissionCount'
  BY <1>1 DEF IInv, AdmissionCount, SameAdmissions
<1>3. AdmissionInv'
  BY DEF IInv, AdmissionInv, SameAdmissions
<1>4. RegisteredInv'
  BY DEF IInv, RegisteredInv, SameAdmissions
<1>5. UninstallInv'
  <2>1. \A g \in Gens : Drained(g) => Drained(g)'
    BY DEF Drained, SameAdmissions
  <2>2. ASSUME NEW i \in 1 .. Len(stack'), stack'[i].op = "uninstall",
               NEW j \in 1 .. Len(stack'[i].todo)
        PROVE  \E g \in Gens : pipedIn'[stack'[i].todo[j]] = {g} /\ Drained(g)'
    <3>1. i \in 1 .. Len(stack) /\ stack'[i] = stack[i]
      BY <2>2 DEF HookFramesKept
    <3>2. PICK g \in Gens : pipedIn[stack[i].todo[j]] = {g} /\ Drained(g)
      BY <2>2, <3>1 DEF IInv, UninstallInv
    <3> QED  BY <2>1, <3>1, <3>2
  <2>3. ASSUME NEW p \in Plugins, uninstalls'[p] > 0
        PROVE  \E g \in Gens : pipedIn'[p] = {g} /\ Drained(g)'
    BY <2>1, <2>3 DEF IInv, UninstallInv
  <2> QED  BY <2>2, <2>3 DEF UninstallInv
<1>6. FreshInv'
  BY DEF IInv, FreshInv, HookFramesKept
<1> QED  BY <1>2, <1>3, <1>4, <1>5, <1>6 DEF IInv

\* Frames of requests come and go above the others.
LEMMA RunFramesComeAndGo ==
    ASSUME TypeOK, NEW r \in Requests, NEW todo \in Seq(Listeners)
    PROVE  /\ Push(RunFrameOf(r, todo)) => HookFramesKept
           /\ Running("run") /\ SetTop(RunFrameOf(r, todo)) => HookFramesKept
           /\ stack # <<>> /\ Pop => HookFramesKept
           /\ UNCHANGED stack => HookFramesKept
<1> DEFINE f == RunFrameOf(r, todo)
<1>1. f \in Frame /\ f.op = "run"
  BY RunFrameType DEF RunFrameOf
<1>2. stack \in Seq(Frame)
  BY DEF TypeOK
<1> HIDE DEF f
<1>3. ASSUME Push(f) PROVE HookFramesKept
  BY <1>1, <1>2, <1>3, PushFrame DEF Push, HookFramesKept
<1>4. ASSUME Running("run"), SetTop(f) PROVE HookFramesKept
  <2>1. stack # <<>> /\ stack' = Append(Front(stack), f)
    BY <1>4 DEF SetTop, Running
  <2>2. /\ Len(stack') = Len(stack) /\ Len(stack) \in Nat \ {0}
        /\ \A i \in 1 .. Len(stack) - 1 : stack'[i] = stack[i]
        /\ stack'[Len(stack)] = f
    BY <1>1, <1>2, <2>1, SetTopFrame, PopFrame
  <2> QED  BY <1>1, <2>2 DEF HookFramesKept
<1>5. ASSUME stack # <<>>, Pop PROVE HookFramesKept
  BY <1>2, <1>5, PopFrame DEF Pop, HookFramesKept
<1>6. ASSUME UNCHANGED stack PROVE HookFramesKept
  BY <1>6 DEF HookFramesKept
<1> QED  BY <1>3, <1>4, <1>5, <1>6 DEF f

\* The steps of a request other than releases, and the return of a listener.
LEMMA QuietRequests ==
    ASSUME IInv, TypeOK', NEW r \in Requests,
           RequestStep(r), ~Release(r), ~AdapterRelease(r),
           ~AdapterAbandon(r)
    PROVE  IInv'
<1>1. TypeOK /\ Heard(r) \in Seq(Listeners)
  <2>1. TypeOK
    BY TypesHold
  <2>2. listeners \in Seq(Listeners)
    BY <2>1 DEF TypeOK
  <2> QED  BY <2>1, <2>2 DEF Heard
<1>2. Continues(r) => stack # <<>> /\ Running("run")
  BY DEF Continues, Running
<1>3. \A phase : pc[r] # "idle" /\ phase # "idle" /\ Goto(r, phase) =>
         \A q \in Requests : (pc[q] = "idle") = (pc'[q] = "idle")
  BY <1>1 DEF Goto, TypeOK
<1>4. CASE Begin(r)
  <2>1. SameAdmissions
    BY <1>3, <1>4 DEF Begin, SameAdmissions, admissions
  <2>2. HookFramesKept
    BY <1>1, <1>4, RunFramesComeAndGo DEF Begin
  <2> QED  BY <1>4, <2>1, <2>2, QuietStep DEF Begin, mock, hooksLog
<1>5. CASE Miss(r)
  <2>1. SameAdmissions
    BY <1>3, <1>5 DEF Miss, SameAdmissions, admissions
  <2>2. HookFramesKept
    BY <1>1, <1>2, <1>5, RunFramesComeAndGo DEF Miss
  <2> QED  BY <1>5, <2>1, <2>2, QuietStep DEF Miss, mock, hooksLog
<1>6. CASE MissEnd(r)
  <2>1. SameAdmissions
    BY <1>3, <1>6 DEF MissEnd, SameAdmissions, admissions
  <2>2. HookFramesKept
    BY <1>1, <1>2, <1>6, RunFramesComeAndGo DEF MissEnd
  <2> QED  BY <1>6, <2>1, <2>2, QuietStep DEF MissEnd, mock, hooksLog
<1>7. CASE Match(r)
  <2>1. SameAdmissions
    BY <1>3, <1>7 DEF Match, SameAdmissions, admissions
  <2>2. HookFramesKept
    BY <1>1, <1>2, <1>7, RunFramesComeAndGo DEF Match
  <2> QED  BY <1>7, <2>1, <2>2, QuietStep DEF Match, mock, hooksLog
<1>8. CASE Suspend(r)
  <2>1. SameAdmissions
    BY <1>3, <1>8 DEF Suspend, SameAdmissions, admissions
  <2>2. HookFramesKept
    BY <1>1, <1>2, <1>8, RunFramesComeAndGo DEF Suspend
  <2> QED  BY <1>8, <2>1, <2>2, QuietStep DEF Suspend, mock, hooksLog
<1>9. CASE HooksSettle(r) \/ AbortObserved(r)
  <2>1. SameAdmissions
    BY <1>3, <1>9 DEF HooksSettle, AbortObserved, SameAdmissions, admissions
  <2>2. HookFramesKept
    BY <1>1, <1>9, RunFramesComeAndGo DEF HooksSettle, AbortObserved
  <2> QED
    BY <1>9, <2>1, <2>2, QuietStep DEF HooksSettle, AbortObserved, mock, hooksLog
<1>10. CASE Finalize(r)
  <2>1. SameAdmissions
    BY <1>3, <1>10 DEF Finalize, SameAdmissions, admissions
  <2>2. HookFramesKept
    BY <1>1, <1>10, RunFramesComeAndGo DEF Finalize
  <2> QED  BY <1>10, <2>1, <2>2, QuietStep DEF Finalize, hooksLog
<1> QED
  BY <1>4, <1>5, <1>6, <1>7, <1>8, <1>9, <1>10 DEF RequestStep

LEMMA QuietCalls ==
    ASSUME IInv, TypeOK',
           \/ UNCHANGED vars
           \/ ListenerReturn
           \/ ResetHistory
           \/ ResetState
           \/ \E k \in Keys : DefineRoute(k)
           \/ \E l \in Listeners : On(l) \/ Off(l)
           \/ \E r \in Requests : Abort(r)
    PROVE  IInv'
<1>1. CASE ListenerReturn
  <2>1. /\ Last(stack) \in RunFrame
        /\ Last(stack).todo # <<>>
        /\ TypeOK /\ Running("run")
    BY <1>1, TopFrame, FrameKinds DEF IInv, ListenerReturn
  <2>2. /\ Tail(Last(stack).todo) \in Seq(Listeners)
        /\ Last(stack).req \in Requests
    BY <2>1 DEF RunFrame
  <2>3. SetTop(RunFrameOf(Last(stack).req, Tail(Last(stack).todo)))
    <3>1. PICK f \in RunFrame : f = Last(stack)
      BY <2>1
    <3>2. ASSUME NEW t PROVE [f EXCEPT !.todo = t] = RunFrameOf(f.req, t)
      BY DEF RunFrame, RunFrameOf
    <3> QED  BY <1>1, <2>1, <3>1, <3>2 DEF ListenerReturn, SetTop
  <2>4. HookFramesKept
    BY <2>1, <2>2, <2>3, RunFramesComeAndGo
  <2> QED
    BY <1>1, <2>4, QuietStep
    DEF ListenerReturn, SameAdmissions, mock, admissions, requests, hooksLog
<1>2. CASE ~ListenerReturn
  <2>1. UNCHANGED <<gen, plugins, active, retired, adm, released, stack, pc,
                    unused, pipedIn, uninstalls>>
    BY <1>2 DEF ResetHistory, ResetState, DefineRoute, On, Off, Abort, vars,
                mock, admissions, requests, hooksLog
  <2>2. HookFramesKept
    BY <2>1 DEF HookFramesKept
  <2> QED  BY <2>1, <2>2, QuietStep DEF SameAdmissions
<1> QED  BY <1>1, <1>2

\* An admission holds registered plugins.
LEMMA AdmittedPlugins ==
    ASSUME TypeOK, NEW r \in Requests, NEW i \in 1 .. Len(adm[r].plugins)
    PROVE  adm[r].plugins[i] \in Plugins
<1>1. adm[r] \in Admission
  BY DEF TypeOK
<1>2. adm[r].plugins \in Seq(Plugins)
  BY <1>1 DEF Admission
<1> QED  BY <1>2

\* What an invariant of the frames needs of a step: a drained generation stays
\* drained, and what was registered or uninstalled stays so.
LEMMA UninstallKept ==
    ASSUME IInv, UninstallFramesKept, UNCHANGED uninstalls,
           \A g \in Gens : Drained(g) => Drained(g)',
           \A p \in Plugins : pipedIn[p] # {} => pipedIn'[p] = pipedIn[p]
    PROVE  UninstallInv'
<1>1. ASSUME NEW p \in Plugins, NEW g \in Gens, pipedIn[p] = {g}, Drained(g)
      PROVE  pipedIn'[p] = {g} /\ Drained(g)'
  BY <1>1
<1>2. ASSUME NEW i \in 1 .. Len(stack'), stack'[i].op = "uninstall",
             NEW j \in 1 .. Len(stack'[i].todo)
      PROVE  \E g \in Gens : pipedIn'[stack'[i].todo[j]] = {g} /\ Drained(g)'
  <2>1. i \in 1 .. Len(stack) /\ stack'[i] = stack[i]
    BY <1>2 DEF UninstallFramesKept
  <2>2. stack[i].todo[j] \in Plugins
    <3>1. stack[i] \in UninstallFrame
      BY <1>2, <2>1, TypesHold, FrameKinds DEF TypeOK
    <3> QED  BY <1>2, <2>1, <3>1 DEF UninstallFrame
  <2>3. PICK g \in Gens : pipedIn[stack[i].todo[j]] = {g} /\ Drained(g)
    BY <1>2, <2>1 DEF IInv, UninstallInv
  <2> QED  BY <1>1, <2>1, <2>2, <2>3
<1>3. ASSUME NEW p \in Plugins, uninstalls'[p] > 0
      PROVE  \E g \in Gens : pipedIn'[p] = {g} /\ Drained(g)'
  BY <1>1, <1>3 DEF IInv, UninstallInv
<1> QED  BY <1>2, <1>3 DEF UninstallInv

\* handle() and the transports admit a request: its generation counts one more.
LEMMA CaptureStep ==
    ASSUME IInv, TypeOK', NEW r \in Requests, pc[r] = "idle", Capture(r),
           HookFramesKept, pc'[r] # "idle",
           \A q \in Requests \ {r} : pc'[q] = pc[q],
           UNCHANGED <<gen, plugins, retired, released, unused, pipedIn,
                       uninstalls>>
    PROVE  IInv'
<1>1. TypeOK /\ gen \in Gens /\ gen \in Nat /\ Gens \subseteq Nat
  BY GensAreNat, TypesHold DEF TypeOK
<1>2. /\ adm'[r] = [gen |-> gen, hgen |-> hgen, plugins |-> plugins,
                    routes |-> routes, state |-> state]
      /\ \A q \in Requests \ {r} : adm'[q] = adm[q]
      /\ active'[gen] = active[gen] + 1
      /\ \A g \in Gens \ {gen} : active'[g] = active[g]
  BY <1>1 DEF Capture, TypeOK
<1>3. AdmissionCount'
  <2>1. \A g \in Gens : active[g] = Cardinality(LiveOf(g))
    BY DEF IInv, AdmissionCount, LiveOf
  <2>2. r \notin Live
    BY DEF Live
  <2>3. \A g \in Gens : LiveOf(g) \in SUBSET Requests /\ r \notin LiveOf(g)
    BY <2>2 DEF LiveOf, Live
  <2>4. ~released[r]
    BY DEF IInv, AdmissionInv
  <2>5. ASSUME NEW g \in Gens, g # gen PROVE active'[g] = Cardinality(LiveOf(g)')
    <3>1. LiveOf(g)' = LiveOf(g)
      BY <1>2, <2>2, <2>5 DEF LiveOf, Live
    <3> QED  BY <1>2, <2>1, <2>5, <3>1
  <2>6. active'[gen] = Cardinality(LiveOf(gen)')
    <3>1. LiveOf(gen)' = LiveOf(gen) \cup {r}
      BY <1>2, <2>4 DEF LiveOf, Live
    <3> QED  BY <1>1, <1>2, <2>1, <2>3, <3>1, CountOneMore
  <2> QED  BY <2>5, <2>6 DEF AdmissionCount, LiveOf
<1>4. AdmissionInv'
  <2>1. \A i \in 1 .. Len(plugins) : pipedIn[plugins[i]] = {gen}
    BY DEF IInv, RegisteredInv
  <2>2. ASSUME NEW q \in Requests, q # r
        PROVE  /\ pc'[q] = "idle" => ~released'[q]
               /\ pc'[q] # "idle" =>
                     /\ adm'[q].gen <= gen'
                     /\ \A i \in 1 .. Len(adm'[q].plugins) :
                           pipedIn'[adm'[q].plugins[i]] = {adm'[q].gen}
    <3>1. /\ pc[q] = "idle" => ~released[q]
          /\ pc[q] # "idle" =>
                /\ adm[q].gen <= gen
                /\ \A i \in 1 .. Len(adm[q].plugins) :
                      pipedIn[adm[q].plugins[i]] = {adm[q].gen}
      BY DEF IInv, AdmissionInv
    <3>2. pc'[q] = pc[q] /\ adm'[q] = adm[q]
      BY <1>2, <2>2
    <3> QED  BY <3>1, <3>2
  <2>3. adm'[r].gen <= gen' /\ \A i \in 1 .. Len(adm'[r].plugins) :
           pipedIn'[adm'[r].plugins[i]] = {adm'[r].gen}
    BY <1>1, <1>2, <2>1
  <2> QED  BY <2>2, <2>3 DEF AdmissionInv
<1>5. RegisteredInv'
  <2>1. ASSUME NEW g \in Gens, NEW todo \in retired'[g]
        PROVE  /\ g < gen'
               /\ active'[g] > 0
               /\ \A i \in 1 .. Len(todo) : pipedIn'[todo[i]] = {g}
    <3>1. g < gen /\ active[g] > 0
          /\ \A i \in 1 .. Len(todo) : pipedIn[todo[i]] = {g}
      BY <2>1 DEF IInv, RegisteredInv
    <3> QED  BY <1>1, <1>2, <3>1
  <2> QED  BY <2>1 DEF IInv, RegisteredInv
<1>6. UninstallInv'
  <2>1. \A g \in Gens : Drained(g) => Drained(g)'
    BY <1>1, <1>2 DEF Drained
  <2> QED  BY <2>1, UninstallKept DEF HookFramesKept, UninstallFramesKept
<1>7. FreshInv'
  <2>1. \A p \in unused' : pipedIn'[p] = {}
    BY DEF IInv, FreshInv
  <2>2. ASSUME NEW i \in 1 .. Len(stack'), stack'[i].op = "install"
        PROVE  i \in 1 .. Len(stack) /\ stack'[i] = stack[i]
    BY <2>2 DEF HookFramesKept
  <2> QED  BY <2>1, <2>2 DEF IInv, FreshInv
<1> QED  BY <1>3, <1>4, <1>5, <1>6, <1>7 DEF IInv

\* pipe(p), to its end: a fresh registration joins the current generation.
LEMMA RegisterStep ==
    ASSUME IInv, TypeOK', SameAdmissions, HookFramesKept,
           NEW p \in Plugins, pipedIn[p] = {}, Register(p),
           \A i \in 1 .. Len(stack') : stack'[i].op = "install" =>
               stack'[i].plugin # p,
           unused' \subseteq unused, p \notin unused',
           UNCHANGED <<gen, uninstalls>>
    PROVE  IInv'
<1>1. TypeOK /\ gen \in Gens
  BY TypesHold DEF TypeOK
<1>2. /\ pipedIn'[p] = {gen}
      /\ \A q \in Plugins \ {p} : pipedIn'[q] = pipedIn[q]
      /\ \A q \in Plugins : pipedIn[q] # {} => pipedIn'[q] = pipedIn[q]
  BY <1>1 DEF Register, TypeOK
<1>3. AdmissionCount'
  BY DEF IInv, AdmissionCount, SameAdmissions, Live
<1>4. AdmissionInv'
  <2>1. ASSUME NEW r \in Requests, pc'[r] # "idle",
               NEW i \in 1 .. Len(adm[r].plugins)
        PROVE  pipedIn'[adm[r].plugins[i]] = {adm[r].gen}
    <3>1. adm[r].plugins[i] \in Plugins
      BY <1>1, <2>1, AdmittedPlugins
    <3>2. pipedIn[adm[r].plugins[i]] = {adm[r].gen}
      BY <2>1 DEF IInv, AdmissionInv, SameAdmissions
    <3> QED  BY <1>2, <3>1, <3>2
  <2> QED  BY <2>1 DEF IInv, AdmissionInv, SameAdmissions
<1>5. RegisteredInv'
  <2>1. ASSUME NEW i \in 1 .. Len(plugins') PROVE pipedIn'[plugins'[i]] = {gen}
    <3>1. CASE i \in 1 .. Len(plugins)
      <4>1. plugins'[i] = plugins[i] /\ plugins[i] \in Plugins
        BY <1>1, <3>1 DEF Register, TypeOK
      <4>2. pipedIn[plugins[i]] = {gen}
        BY <3>1 DEF IInv, RegisteredInv
      <4> QED  BY <1>2, <4>1, <4>2
    <3>2. CASE i \notin 1 .. Len(plugins)
      <4>1. plugins'[i] = p
        <5>1. plugins' = Append(plugins, p) /\ plugins \in Seq(Plugins)
          BY <1>1 DEF Register, TypeOK
        <5>2. i = Len(plugins) + 1
          BY <2>1, <3>2, <5>1
        <5> QED  BY <5>1, <5>2
      <4> QED  BY <1>2, <4>1
    <3> QED  BY <3>1, <3>2
  <2>2. ASSUME NEW g \in Gens, NEW todo \in retired[g], NEW i \in 1 .. Len(todo)
        PROVE  pipedIn'[todo[i]] = {g}
    <3>1. todo[i] \in Plugins
      <4>1. todo \in Seq(Plugins)
        BY <1>1 DEF TypeOK
      <4> QED  BY <4>1
    <3>2. pipedIn[todo[i]] = {g}
      BY <2>2 DEF IInv, RegisteredInv
    <3> QED  BY <1>2, <3>1, <3>2
  <2> QED  BY <2>1, <2>2 DEF IInv, RegisteredInv, SameAdmissions
<1>6. UninstallInv'
  <2>1. \A g \in Gens : Drained(g) => Drained(g)'
    BY DEF Drained, SameAdmissions
  <2> QED
    BY <1>2, <2>1, UninstallKept DEF HookFramesKept, UninstallFramesKept
<1>7. FreshInv'
  <2>1. \A q \in unused' : pipedIn'[q] = {}
    BY <1>1, <1>2 DEF IInv, FreshInv, TypeOK
  <2>2. ASSUME NEW i \in 1 .. Len(stack'), stack'[i].op = "install"
        PROVE  /\ stack'[i].plugin \notin unused'
               /\ pipedIn'[stack'[i].plugin] = {}
               /\ \A j \in 1 .. Len(stack') :
                     stack'[j].op = "install" /\ stack'[j].plugin = stack'[i].plugin
                         => i = j
    <3>1. i \in 1 .. Len(stack) /\ stack'[i] = stack[i]
      BY <2>2 DEF HookFramesKept
    <3>2. stack[i].plugin \in Plugins \ {p}
      BY <1>1, <2>2, <3>1, FrameKinds DEF TypeOK, InstallFrame
    <3>3. \A j \in 1 .. Len(stack') : stack'[j].op = "install" =>
             j \in 1 .. Len(stack) /\ stack'[j] = stack[j]
      BY DEF HookFramesKept
    <3> QED  BY <1>2, <2>2, <3>1, <3>2, <3>3 DEF IInv, FreshInv
  <2> QED  BY <2>1, <2>2 DEF FreshInv
<1> QED  BY <1>3, <1>4, <1>5, <1>6, <1>7 DEF IInv

\* pipe(): a plugin leaves `unused', and its install() hook, if any, runs.
LEMMA PipeSteps ==
    ASSUME IInv, TypeOK',
           \/ \E p \in Plugins : PipePlain(p) \/ PipeInstall(p)
           \/ InstallReturn
           \/ InstallThrow
    PROVE  IInv'
<1>1. TypeOK /\ stack \in Seq(Frame)
  BY TypesHold DEF TypeOK
<1>2. UNCHANGED <<active, retired, adm, released, pc>> => SameAdmissions
  BY DEF SameAdmissions
<1>3. UNCHANGED stack => HookFramesKept
  BY DEF HookFramesKept
<1>4. ASSUME NEW p \in Plugins, PipePlain(p) PROVE IInv'
  <2>1. /\ Register(p) /\ pipedIn[p] = {}
        /\ unused' \subseteq unused /\ p \notin unused'
        /\ UNCHANGED <<gen, uninstalls, stack>>
        /\ SameAdmissions /\ HookFramesKept
    BY <1>2, <1>3, <1>4 DEF PipePlain, IInv, FreshInv, admissions, requests
  <2>2. \A i \in 1 .. Len(stack') : stack'[i].op = "install" =>
           stack'[i].plugin # p
    BY <1>4, <2>1 DEF PipePlain, IInv, FreshInv
  <2> QED  BY <2>1, <2>2, RegisterStep
<1>5. ASSUME NEW p \in Plugins, PipeInstall(p) PROVE IInv'
  <2> DEFINE f == [op |-> "install", plugin |-> p, routes |-> routes]
  <2>1. /\ p \in unused /\ unused' = unused \ {p}
        /\ stack' = Append(stack, f)
        /\ UNCHANGED <<gen, plugins, active, retired, adm, released, pc, pipedIn,
                       uninstalls>>
    BY <1>5 DEF PipeInstall, Push, mock, admissions, requests
  <2>2. f \in Frame /\ f.op = "install" /\ f.plugin = p
    BY <1>1 DEF Frame, InstallFrame, TypeOK
  <2>3. /\ Len(stack') = Len(stack) + 1 /\ Len(stack) \in Nat
        /\ \A i \in 1 .. Len(stack) : stack'[i] = stack[i]
        /\ stack'[Len(stack) + 1] = f
    BY <1>1, <2>1, <2>2, PushFrame
  <2> HIDE DEF f
  <2>4. \A i \in 1 .. Len(stack') : i \in 1 .. Len(stack) \/ i = Len(stack) + 1
    BY <2>3
  <2>5. AdmissionCount' /\ AdmissionInv' /\ RegisteredInv'
    BY <2>1 DEF IInv, AdmissionCount, AdmissionInv, RegisteredInv, Live
  <2>6. UninstallInv'
    <3>1. \A g \in Gens : Drained(g) => Drained(g)'
      BY <2>1 DEF Drained
    <3>2. UninstallFramesKept
      BY <2>2, <2>3, <2>4 DEF UninstallFramesKept
    <3> QED  BY <2>1, <3>1, <3>2, UninstallKept
  <2>7. FreshInv'
    <3>1. pipedIn[p] = {} /\ \A i \in 1 .. Len(stack) :
             stack[i].op = "install" => stack[i].plugin # p
      BY <2>1 DEF IInv, FreshInv
    <3> QED  BY <2>1, <2>2, <2>3, <2>4, <3>1 DEF IInv, FreshInv
  <2> QED  BY <2>5, <2>6, <2>7 DEF IInv
<1>6. ASSUME InstallReturn \/ InstallThrow
      PROVE  /\ Last(stack) \in InstallFrame /\ Last(stack) = stack[Len(stack)]
             /\ Len(stack) \in Nat \ {0} /\ Last(stack).op = "install"
             /\ Len(stack') = Len(stack) - 1
             /\ \A i \in 1 .. Len(stack') : stack'[i] = stack[i]
             /\ HookFramesKept
  <2>1. Running("install") /\ stack' = Front(stack)
    BY <1>6 DEF InstallReturn, InstallThrow, Pop
  <2>2. /\ Last(stack) \in InstallFrame /\ Last(stack) = stack[Len(stack)]
        /\ Len(stack) \in Nat \ {0} /\ Last(stack).op = "install"
        /\ stack # <<>>
    BY <1>1, <2>1, TopFrame, FrameKinds
  <2>3. /\ Len(stack') = Len(stack) - 1
        /\ \A i \in 1 .. Len(stack') : stack'[i] = stack[i]
    BY <1>1, <2>1, <2>2, PopFrame
  <2> QED  BY <2>2, <2>3 DEF HookFramesKept
<1>7. CASE InstallReturn
  <2> DEFINE p == Last(stack).plugin
  <2>1. /\ p \in Plugins /\ pipedIn[p] = {} /\ p \notin unused
        /\ \A i \in 1 .. Len(stack') : stack'[i].op = "install" =>
              stack'[i].plugin # p
    BY <1>6, <1>7 DEF InstallFrame, IInv, FreshInv
  <2>2. /\ Register(p) /\ UNCHANGED <<gen, uninstalls, unused>>
        /\ SameAdmissions
    BY <1>2, <1>7 DEF InstallReturn, admissions, requests
  <2> QED  BY <1>6, <1>7, <2>1, <2>2, RegisterStep
<1>8. CASE InstallThrow
  BY <1>2, <1>6, <1>8, QuietStep DEF InstallThrow, admissions, requests, hooksLog
<1> QED  BY <1>4, <1>5, <1>7, <1>8

\* An uninstall() hook is called, for plugins of a drained generation: by
\* reset(), by the last release, or by the return of the hook before it.
LEMMA UninstallCalled ==
    ASSUME IInv, NEW todo \in Seq(Plugins), todo # <<>>, CallUninstall(todo),
           \A i \in 1 .. Len(todo) :
               \E g \in Gens : pipedIn[todo[i]] = {g} /\ Drained(g)',
           \A h \in Gens : Drained(h) => Drained(h)',
           UNCHANGED pipedIn,
           \A i \in 1 .. Len(stack') : stack'[i].op = "uninstall" =>
               \/ stack'[i].todo = todo
               \/ i \in 1 .. Len(stack) /\ stack'[i] = stack[i]
    PROVE  UninstallInv'
<1>1. ASSUME NEW i \in 1 .. Len(stack'), stack'[i].op = "uninstall",
             NEW j \in 1 .. Len(stack'[i].todo)
      PROVE  \E h \in Gens : pipedIn'[stack'[i].todo[j]] = {h} /\ Drained(h)'
  <2>1. CASE stack'[i].todo = todo
    BY <1>1, <2>1
  <2>2. CASE i \in 1 .. Len(stack) /\ stack'[i] = stack[i]
    <3>1. PICK h \in Gens : pipedIn[stack[i].todo[j]] = {h} /\ Drained(h)
      BY <1>1, <2>2 DEF IInv, UninstallInv
    <3> QED  BY <2>2, <3>1
  <2> QED  BY <1>1, <2>1, <2>2
<1>2. ASSUME NEW p \in Plugins, uninstalls'[p] > 0
      PROVE  \E h \in Gens : pipedIn'[p] = {h} /\ Drained(h)'
  <2>1. Len(todo) \in Nat \ {0} /\ Last(todo) = todo[Len(todo)]
    BY PopFrame
  <2>2. CASE p = Last(todo)
    <3>1. PICK i \in 1 .. Len(todo) : todo[i] = p
      BY <2>1, <2>2
    <3>2. PICK g \in Gens : pipedIn[todo[i]] = {g} /\ Drained(g)'
      OBVIOUS
    <3> QED  BY <3>1, <3>2
  <2>3. CASE p # Last(todo)
    <3>1. uninstalls[p] > 0
      BY <1>2, <2>3, TypesHold DEF CallUninstall, TypeOK
    <3> QED  BY <3>1 DEF IInv, UninstallInv
  <2> QED  BY <2>2, <2>3
<1> QED  BY <1>1, <1>2 DEF UninstallInv

\* Install frames are not touched by what pushes or changes uninstall frames.
LEMMA FreshKept ==
    ASSUME IInv, UNCHANGED <<unused, pipedIn>>,
           \A i \in 1 .. Len(stack') : stack'[i].op = "install" =>
               i \in 1 .. Len(stack) /\ stack'[i] = stack[i]
    PROVE  FreshInv'
BY DEF IInv, FreshInv

LEMMA ResetStep ==
    ASSUME IInv, TypeOK', Reset
    PROVE  IInv'
<1>1. /\ TypeOK /\ stack \in Seq(Frame) /\ plugins \in Seq(Plugins)
      /\ gen \in Gens /\ gen \in Nat
  BY GensAreNat, TypesHold DEF TypeOK
<1>2. /\ gen' = gen + 1 /\ plugins' = <<>>
      /\ UNCHANGED <<active, adm, released, pc, unused, pipedIn>>
  BY DEF Reset, Detach, requests
<1>3. \A g \in Gens : g \in Nat /\ (Drained(g) => Drained(g)')
  BY <1>1, <1>2, GensAreNat DEF Drained
<1>4. AdmissionCount'
  BY <1>2 DEF IInv, AdmissionCount, Live
<1>5. AdmissionInv'
  <2>1. ASSUME NEW r \in Requests, adm[r].gen <= gen PROVE adm[r].gen <= gen'
    <3>1. adm[r].gen \in Nat
      BY <1>1, GensAreNat DEF TypeOK, Admission
    <3> QED  BY <1>1, <1>2, <2>1, <3>1
  <2> QED  BY <1>2, <2>1 DEF IInv, AdmissionInv
<1>6. \A i \in 1 .. Len(plugins) : pipedIn[plugins[i]] = {gen}
  BY DEF IInv, RegisteredInv
<1>7. \A g \in Gens : \A todo \in retired[g] :
         /\ g < gen'
         /\ active'[g] > 0
         /\ \A i \in 1 .. Len(todo) : pipedIn'[todo[i]] = {g}
  <2>1. ASSUME NEW g \in Gens, NEW todo \in retired[g]
        PROVE  /\ g < gen
               /\ active[g] > 0
               /\ \A i \in 1 .. Len(todo) : pipedIn[todo[i]] = {g}
    BY <2>1 DEF IInv, RegisteredInv
  <2>2. \A g \in Gens : g < gen => g < gen'
    BY <1>1, <1>2, <1>3
  <2> QED  BY <1>2, <2>1, <2>2
<1>8. ASSUME UNCHANGED retired PROVE RegisteredInv'
  BY <1>2, <1>7, <1>8 DEF RegisteredInv
<1>9. CASE /\ active[gen] = 0 /\ plugins # <<>>
           /\ Push([op |-> "uninstall", todo |-> plugins, resetting |-> TRUE])
           /\ CallUninstall(plugins)
           /\ UNCHANGED retired
  <2> DEFINE f == [op |-> "uninstall", todo |-> plugins, resetting |-> TRUE]
  <2>1. f \in Frame /\ f.op = "uninstall" /\ f.todo = plugins
    BY <1>1 DEF Frame, UninstallFrame
  <2> HIDE DEF f
  <2>2. /\ Len(stack') = Len(stack) + 1 /\ Len(stack) \in Nat
        /\ \A i \in 1 .. Len(stack) : stack'[i] = stack[i]
        /\ stack'[Len(stack) + 1] = f
    BY <1>1, <1>9, <2>1, PushFrame DEF Push, f
  <2>3. \A i \in 1 .. Len(stack') : \/ i = Len(stack) + 1
                                    \/ i \in 1 .. Len(stack) /\ stack'[i] = stack[i]
    BY <2>2
  <2>4. FreshInv'
    BY <1>2, <2>1, <2>2, <2>3, FreshKept
  <2>5. PICK g \in Gens : g = gen
    BY <1>1
  <2>6. Drained(g)' /\ \A i \in 1 .. Len(plugins) : pipedIn[plugins[i]] = {g}
    BY <1>1, <1>2, <1>6, <1>9, <2>5 DEF Drained
  <2>7. UninstallInv'
    BY <1>1, <1>2, <1>3, <1>9, <2>1, <2>2, <2>3, <2>6, UninstallCalled
  <2> QED  BY <1>4, <1>5, <1>8, <1>9, <2>4, <2>7 DEF IInv
<1>10. ASSUME UNCHANGED <<stack, uninstalls>> PROVE UninstallInv' /\ FreshInv'
  <2>1. UninstallFramesKept
    BY <1>10 DEF UninstallFramesKept
  <2> QED  BY <1>2, <1>3, <1>10, <2>1, UninstallKept, FreshKept
<1>11. CASE UNCHANGED <<retired, stack, uninstalls>>
  BY <1>4, <1>5, <1>8, <1>10, <1>11 DEF IInv
<1>12. CASE /\ active[gen] # 0
            /\ retired' = [retired EXCEPT ![gen] = {plugins}]
            /\ UNCHANGED <<stack, uninstalls>>
  <2>1. active[gen] > 0
    BY <1>1, <1>12 DEF TypeOK
  <2>2. RegisteredInv'
    <3>1. ASSUME NEW g \in Gens, NEW todo \in retired'[g]
          PROVE  /\ g < gen'
                 /\ active'[g] > 0
                 /\ \A i \in 1 .. Len(todo) : pipedIn'[todo[i]] = {g}
      <4>1. CASE g = gen
        <5>1. todo = plugins
          BY <1>1, <1>12, <3>1, <4>1 DEF TypeOK
        <5> QED  BY <1>1, <1>2, <1>6, <2>1, <4>1, <5>1
      <4>2. CASE g # gen
        <5>1. todo \in retired[g]
          BY <1>1, <1>12, <3>1, <4>2 DEF TypeOK
        <5> QED  BY <1>7, <5>1
      <4> QED  BY <4>1, <4>2
    <3> QED  BY <1>2, <3>1 DEF RegisteredInv
  <2> QED  BY <1>4, <1>5, <1>10, <1>12, <2>2 DEF IInv
<1> QED  BY <1>9, <1>11, <1>12 DEF Reset, Held

\* An uninstall() hook returns: the next one of the same list runs.
LEMMA UninstallReturnStep ==
    ASSUME IInv, TypeOK', UninstallReturn
    PROVE  IInv'
<1> DEFINE top == Last(stack)
           todo == Front(top.todo)
<1>1. /\ TypeOK /\ stack \in Seq(Frame) /\ stack # <<>>
      /\ top \in UninstallFrame /\ top = stack[Len(stack)]
      /\ Len(stack) \in Nat \ {0} /\ top.op = "uninstall"
  BY TypesHold, TopFrame, FrameKinds DEF TypeOK, UninstallReturn
<1>2. /\ UNCHANGED <<gen, plugins, active, retired, adm, released, pc, unused,
                     pipedIn>>
  BY DEF UninstallReturn, mock, admissions, requests
<1>3. SameAdmissions /\ \A g \in Gens : Drained(g) => Drained(g)'
  BY <1>2 DEF SameAdmissions, Drained
<1>4. AdmissionCount' /\ AdmissionInv' /\ RegisteredInv'
  <2>1. Live' = Live
    BY <1>2 DEF Live
  <2>2. AdmissionCount'
    BY <1>2, <2>1 DEF IInv, AdmissionCount
  <2>3. AdmissionInv'
    BY <1>2 DEF IInv, AdmissionInv
  <2>4. RegisteredInv'
    BY <1>2 DEF IInv, RegisteredInv
  <2> QED  BY <2>2, <2>3, <2>4
<1>5. CASE todo # <<>> /\ SetTop([top EXCEPT !.todo = todo]) /\ CallUninstall(todo)
  <2> DEFINE f == [top EXCEPT !.todo = todo]
  <2>1. /\ top.todo \in Seq(Plugins) /\ todo \in Seq(Plugins)
        /\ top.todo # <<>>
        /\ Len(todo) <= Len(top.todo)
        /\ \A i \in 1 .. Len(todo) : i \in 1 .. Len(top.todo) /\ todo[i] = top.todo[i]
    <3>1. top.todo \in Seq(Plugins)
      BY <1>1 DEF UninstallFrame
    <3>2. top.todo # <<>>
      BY <1>5, <3>1 DEF Front
    <3> QED  BY <3>1, <3>2, PopFrame
  <2>2. f \in Frame /\ f.op = "uninstall" /\ f.todo = todo
    BY <1>1, <2>1 DEF Frame, UninstallFrame
  <2>3. stack' = Append(Front(stack), f)
    BY <1>5 DEF SetTop
  <2> HIDE DEF f
  <2>4. /\ Len(stack') = Len(stack)
        /\ \A i \in 1 .. Len(stack) - 1 : stack'[i] = stack[i]
        /\ stack'[Len(stack)] = f
    BY <1>1, <2>2, <2>3, SetTopFrame
  <2>5. \A i \in 1 .. Len(stack') : \/ i = Len(stack)
                                    \/ i \in 1 .. Len(stack) /\ stack'[i] = stack[i]
    BY <1>1, <2>4
  <2>6. FreshInv'
    BY <1>2, <2>2, <2>4, <2>5, FreshKept
  <2>7. ASSUME NEW i \in 1 .. Len(todo)
        PROVE  \E g \in Gens : pipedIn[todo[i]] = {g} /\ Drained(g)'
    <3>1. i \in 1 .. Len(top.todo) /\ todo[i] = top.todo[i]
      BY <2>1, <2>7
    <3>2. PICK g \in Gens : pipedIn[top.todo[i]] = {g} /\ Drained(g)
      BY <1>1, <3>1 DEF IInv, UninstallInv
    <3> QED  BY <1>3, <3>1, <3>2
  <2>8. UninstallInv'
    BY <1>2, <1>3, <1>5, <2>1, <2>2, <2>4, <2>5, <2>7, UninstallCalled
  <2> QED  BY <1>4, <2>6, <2>8 DEF IInv
<1>6. CASE Pop /\ UNCHANGED uninstalls
  <2>1. HookFramesKept
    BY <1>1, <1>6, PopFrame DEF Pop, HookFramesKept
  <2> QED  BY <1>2, <1>3, <1>6, <2>1, QuietStep
<1> QED  BY <1>5, <1>6 DEF UninstallReturn

\* A release: one admission less, and the hooks it was the last to hold back.
LEMMA ReleaseStep ==
    ASSUME IInv, TypeOK', NEW r \in Requests,
           Release(r) \/ AdapterRelease(r) \/ AdapterAbandon(r)
    PROVE  IInv'
<1> DEFINE g == adm[r].gen
<1>1. TypeOK /\ stack \in Seq(Frame) /\ stack = <<>>
  BY TypesHold DEF TypeOK, Release, AdapterRelease, AdapterAbandon
<1>2. /\ UNCHANGED <<gen, plugins, unused, pipedIn>>
      /\ ReleaseAdmission(r)
      /\ pc[r] # "idle"
      /\ \A q \in Requests : (pc[q] = "idle") = (pc'[q] = "idle")
  BY <1>1 DEF Release, AdapterRelease, AdapterAbandon, Goto, mock, requests, TypeOK
<1>3. CASE UNCHANGED <<admissions, stack, uninstalls>>
  <2>1. SameAdmissions /\ HookFramesKept
    BY <1>2, <1>3 DEF SameAdmissions, HookFramesKept, admissions
  <2> QED  BY <1>2, <1>3, <2>1, QuietStep
<1>4. CASE ~released[r]
  <2>1. /\ released' = [released EXCEPT ![r] = TRUE]
        /\ active' = [active EXCEPT ![g] = @ - 1]
        /\ adm' = adm
    BY <1>2, <1>4 DEF ReleaseAdmission
  <2>2. r \in Live /\ g \in Gens /\ active[g] \in Nat \ {0}
        /\ active'[g] = active[g] - 1
        /\ \A h \in Gens \ {g} : active'[h] = active[h]
    <3>1. r \in Live
      BY <1>2, <1>4 DEF Live
    <3>2. g \in Gens /\ active[g] \in Nat \ {0}
      BY <3>1, HeldIsCounted DEF IInv
    <3> QED  BY <1>1, <2>1, <3>1, <3>2 DEF TypeOK
  <2>3. AdmissionCount'
    <3>1. \A h \in Gens : active[h] = Cardinality(LiveOf(h))
      BY DEF IInv, AdmissionCount, LiveOf
    <3>2. Live' = Live \ {r}
      BY <1>1, <1>2, <2>1 DEF Live, TypeOK
    <3>3. ASSUME NEW h \in Gens, h # g PROVE active'[h] = Cardinality(LiveOf(h)')
      <4>1. LiveOf(h)' = LiveOf(h)
        BY <2>1, <3>2, <3>3 DEF LiveOf
      <4> QED  BY <2>2, <3>1, <3>3, <4>1
    <3>4. ASSUME NEW h \in Gens, h = g PROVE active'[h] = Cardinality(LiveOf(h)')
      <4>1. LiveOf(h)' = LiveOf(h) \ {r} /\ r \in LiveOf(h)
        BY <2>1, <2>2, <3>2, <3>4 DEF LiveOf
      <4>2. LiveOf(h) \in SUBSET Requests
        BY DEF LiveOf, Live
      <4> QED  BY <2>2, <3>1, <3>4, <4>1, <4>2, CountOneLess
    <3> QED  BY <3>3, <3>4 DEF AdmissionCount, LiveOf
  <2>4. AdmissionInv'
    BY <1>1, <1>2, <2>1 DEF IInv, AdmissionInv, TypeOK
  <2>5. \A h \in Gens : Drained(h) => Drained(h)'
    <3>1. \A h \in Gens : active[h] = 0 => active'[h] = 0
      BY <2>2
    <3> QED  BY <1>2, <3>1 DEF Drained
  <2>6. \A h \in Gens : \A todo \in retired[h] :
           /\ h < gen' /\ (h # g => active'[h] > 0)
           /\ \A i \in 1 .. Len(todo) : pipedIn'[todo[i]] = {h}
    BY <1>2, <2>2 DEF IInv, RegisteredInv
  <2>7. \A i \in 1 .. Len(plugins') : pipedIn'[plugins'[i]] = {gen'}
    BY <1>2 DEF IInv, RegisteredInv
  <2>8. CASE active[g] = 1 /\ retired[g] # {}
    <3>1. retired' = [retired EXCEPT ![g] = {}]
      BY <1>2, <1>4, <2>8 DEF ReleaseAdmission
    <3>2. RegisteredInv'
      <4>1. ASSUME NEW h \in Gens, NEW todo \in retired'[h]
            PROVE  h # g /\ todo \in retired[h]
        BY <1>1, <2>2, <3>1, <4>1 DEF TypeOK
      <4> QED  BY <2>6, <2>7, <4>1 DEF RegisteredInv
    <3>3. ASSUME NEW todo \in retired[g], todo # <<>>,
                 Push([op |-> "uninstall", todo |-> todo, resetting |-> FALSE]),
                 CallUninstall(todo)
          PROVE  UninstallInv' /\ FreshInv'
      <4> DEFINE f == [op |-> "uninstall", todo |-> todo, resetting |-> FALSE]
      <4>1. todo \in Seq(Plugins)
        BY <1>1, <2>2 DEF TypeOK
      <4>2. f \in Frame /\ f.op = "uninstall" /\ f.todo = todo
        BY <4>1 DEF Frame, UninstallFrame
      <4>3. Len(stack') = 1 /\ stack'[1] = f
        BY <1>1, <3>3 DEF Push
      <4> HIDE DEF f
      <4>4. \A i \in 1 .. Len(stack') :
               stack'[i].op = "uninstall" /\ stack'[i].todo = todo
        BY <4>2, <4>3
      <4>5. ASSUME NEW i \in 1 .. Len(todo)
            PROVE  \E h \in Gens : pipedIn[todo[i]] = {h} /\ Drained(h)'
        <5>1. PICK h \in Gens : h = g
          BY <2>2
        <5>2. pipedIn[todo[i]] = {h}
          BY <1>2, <2>2, <2>6, <5>1
        <5>3. h < gen' /\ active'[h] = 0
          BY <2>2, <2>6, <2>8, <5>1
        <5> QED  BY <5>2, <5>3 DEF Drained
      <4>6. UninstallInv'
        BY <1>2, <2>5, <3>3, <4>1, <4>4, <4>5, UninstallCalled
      <4>7. FreshInv'
        BY <1>2, <4>4, FreshKept
      <4> QED  BY <4>6, <4>7
    <3>4. ASSUME UNCHANGED <<stack, uninstalls>> PROVE UninstallInv' /\ FreshInv'
      <4>1. UninstallFramesKept
        BY <3>4 DEF UninstallFramesKept
      <4> QED  BY <1>2, <2>5, <3>4, <4>1, UninstallKept, FreshKept
    <3> QED
      BY <1>2, <1>4, <2>3, <2>4, <2>8, <3>2, <3>3, <3>4 DEF ReleaseAdmission, IInv
  <2>9. CASE active[g] # 1 \/ retired[g] = {}
    <3>1. UNCHANGED <<retired, stack, uninstalls>>
      BY <1>2, <1>4, <2>9 DEF ReleaseAdmission
    <3>2. RegisteredInv'
      <4>1. retired[g] # {} => active'[g] > 0
        BY <2>2, <2>9
      <4> QED  BY <2>6, <2>7, <3>1, <4>1 DEF RegisteredInv
    <3>3. UninstallFramesKept
      BY <3>1 DEF UninstallFramesKept
    <3> QED
      BY <1>2, <2>3, <2>4, <2>5, <3>1, <3>2, <3>3, UninstallKept, FreshKept DEF IInv
  <2> QED  BY <2>8, <2>9
<1> QED  BY <1>2, <1>3, <1>4 DEF ReleaseAdmission

-----------------------------------------------------------------------------
(* Theorems. *)

LEMMA InitInv == Init => IInv
<1> SUFFICES ASSUME Init PROVE IInv
  OBVIOUS
<1> USE DEF Init
<1>1. 0 \in Gens
  BY BoundsAssumption DEF Gens
<1>2. TypeOK
  BY <1>1 DEF TypeOK, Admission, State, Phases
<1>3. Live = {} /\ stack = <<>>
  BY DEF Live
<1>4. AdmissionCount
  <2>1. \A g \in Gens : {r \in Live : adm[r].gen = g} = {}
    BY <1>3
  <2> QED  BY <2>1, FS_EmptySet DEF AdmissionCount
<1>5. AdmissionInv /\ RegisteredInv /\ UninstallInv /\ FreshInv
  BY <1>3 DEF AdmissionInv, RegisteredInv, UninstallInv, FreshInv
<1> QED  BY <1>2, <1>4, <1>5 DEF IInv

LEMMA NextInv == IInv /\ [Next]_vars => IInv'
<1> SUFFICES ASSUME IInv, [Next]_vars PROVE IInv'
  OBVIOUS
<1>1. TypeOK'
  BY TypeStep DEF IInv
<1>2. CASE UNCHANGED vars
  BY <1>1, <1>2, QuietCalls
<1>3. CASE Call
  <2>1. ASSUME NEW r \in Requests, Handle(r) \/ Admit(r) PROVE IInv'
    <3>1. /\ Capture(r) /\ pc[r] = "idle" /\ pc'[r] # "idle"
          /\ \A q \in Requests \ {r} : pc'[q] = pc[q]
          /\ UNCHANGED <<gen, plugins, retired, released, unused, pipedIn,
                         uninstalls>>
      BY <2>1, TypesHold DEF Handle, Admit, Goto, mock, hooksLog, TypeOK
    <3>2. HookFramesKept
      BY <2>1, TypesHold, RunFramesComeAndGo DEF Handle, Admit, TypeOK
    <3> QED  BY <1>1, <3>1, <3>2, CaptureStep
  <2> QED  BY <1>1, <1>3, <2>1, QuietCalls, PipeSteps, ResetStep DEF Call
<1>4. CASE UserCodeReturn
  BY <1>1, <1>4, QuietCalls, PipeSteps, UninstallReturnStep DEF UserCodeReturn
<1>5. CASE \E r \in Requests : RequestStep(r)
  BY <1>1, <1>5, QuietRequests, ReleaseStep
<1> QED  BY <1>2, <1>3, <1>4, <1>5 DEF Next

\* The invariant holds throughout, whatever user code calls back.
THEOREM Invariance == Spec => []IInv
BY InitInv, NextInv, PTL DEF Spec

\* The types hold throughout.
THEOREM TypeCorrect == Spec => []TypeOK
<1>1. IInv => TypeOK
  BY DEF IInv
<1> QED  BY <1>1, Invariance, PTL

\* activeAdmissions is exactly the number of unreleased admissions, although
\* handle() and its transport both release the one they share
\* (builder.ts 698-729).
THEOREM AdmissionsCounted == Spec => []AdmissionCount
<1>1. IInv => AdmissionCount
  BY DEF IInv
<1> QED  BY <1>1, Invariance, PTL

\* No plugin a request may still run was uninstalled (docs/plugins.md 24-27):
\* a plugin whose hook was called belongs to a drained generation, and the
\* generation of an admission nobody released is not drained.
THEOREM PluginsStayInstalled == Spec => []NoUseAfterUninstall
<1>1. IInv => NoUseAfterUninstall
  <2> SUFFICES ASSUME IInv, NEW r \in Live,
                      NEW p \in Range(adm[r].plugins)
               PROVE  uninstalls[p] = 0
    BY DEF NoUseAfterUninstall
  <2>1. TypeOK /\ r \in Requests /\ pc[r] # "idle"
    BY DEF IInv, Live
  <2>2. PICK i \in 1 .. Len(adm[r].plugins) : adm[r].plugins[i] = p
    <3>1. adm[r].plugins \in Seq(Plugins)
      BY <2>1 DEF TypeOK, Admission
    <3> QED  BY <3>1 DEF Range
  <2>3. p \in Plugins /\ pipedIn[p] = {adm[r].gen}
    BY <2>1, <2>2, AdmittedPlugins DEF IInv, AdmissionInv
  <2>4. ~Drained(adm[r].gen)
    BY HeldIsCounted DEF IInv, Drained
  <2>5. ~(uninstalls[p] > 0)
    BY <2>3, <2>4 DEF IInv, UninstallInv
  <2> QED  BY <2>1, <2>3, <2>5 DEF TypeOK
<1> QED  BY <1>1, Invariance, PTL

\* A retired generation that owes uninstall() hooks is held by an admission,
\* whose release will run them.
THEOREM RetiredGenerationsAreHeld == Spec => []RetiredIsHeld
<1>1. IInv => RetiredIsHeld
  <2> SUFFICES ASSUME IInv, NEW g \in Gens, retired[g] # {}
               PROVE  g # gen /\ \E r \in Live : adm[r].gen = g
    BY DEF RetiredIsHeld
  <2>1. g < gen /\ active[g] > 0 /\ gen \in Nat /\ g \in Nat
    BY GensAreNat, TypesHold DEF IInv, RegisteredInv, TypeOK
  <2>2. active[g] = Cardinality(LiveOf(g)) /\ LiveOf(g) \in SUBSET Requests
    BY DEF IInv, AdmissionCount, LiveOf, Live
  <2>3. LiveOf(g) # {}
    BY <2>1, <2>2, RequestSets
  <2> QED  BY <2>1, <2>3 DEF LiveOf
<1> QED  BY <1>1, Invariance, PTL

-----------------------------------------------------------------------------
(* What the listeners are told, and what the history keeps. *)

\* The events of a request that is still current, in the phases that lead to
\* another event; and all that a request can have emitted.
Told == [starting |-> <<"start">>, missed |-> <<"start", "notfound">>,
         matched |-> <<"start", "match">>, hooks |-> <<"start", "match">>,
         delay |-> <<"start", "match">>]

Beginnings ==
    {<<>>, <<"start">>, <<"start", "match">>, <<"start", "notfound">>} \cup Protocols

\* A request that is stale has stopped anywhere; the others are on their way.
EventInv ==
    \A r \in Requests :
        /\ events[r] \in Beginnings
        /\ pc[r] \in {"idle", "admitted"} => events[r] = <<>>
        /\ pc[r] \in DOMAIN Told /\ Emits(r) => events[r] = Told[pc[r]]

LEMMA ToldOf ==
    /\ DOMAIN Told = {"starting", "missed", "matched", "hooks", "delay"}
    /\ Told["starting"] = <<"start">> /\ Told["missed"] = <<"start", "notfound">>
    /\ Told["matched"] = <<"start", "match">> /\ Told["hooks"] = <<"start", "match">>
    /\ Told["delay"] = <<"start", "match">>
BY DEF Told

LEMMA SecondEvent ==
    ASSUME NEW c \in Events, NEW d \in Events PROVE Append(<<c>>, d) = <<c, d>>
<1>. DEFINE s == <<c>>
            t == <<c, d>>
            u == Append(s, d)
<1>1. s \in Seq(Events) /\ Len(s) = 1 /\ s[1] = c
  OBVIOUS
<1>2. t \in Seq(Events) /\ Len(t) = 2 /\ t[1] = c /\ t[2] = d
  OBVIOUS
<1>. HIDE DEF s, t
<1>3. u \in Seq(Events) /\ Len(u) = 2 /\ u[1] = c /\ u[2] = d
  <2>1. u \in Seq(Events) /\ Len(u) = Len(s) + 1
    BY <1>1, AppendProperties
  <2>2. u[Len(s) + 1] = d
    BY <1>1, AppendProperties
  <2>3. \A i \in 1 .. Len(s) : u[i] = s[i]
    BY <1>1, AppendProperties
  <2>. HIDE DEF u
  <2>. QED
    BY <1>1, <2>1, <2>2, <2>3
<1>. HIDE DEF u
<1>4. \A i \in 1 .. Len(u) : u[i] = t[i]
  BY <1>2, <1>3
<1>5. u = t
  BY <1>2, <1>3, <1>4, SeqEqual
<1>. QED
  BY <1>5 DEF s, t, u

LEMMA ThirdEvent ==
    ASSUME NEW c \in Events, NEW d \in Events, NEW e \in Events
    PROVE  Append(<<c, d>>, e) = <<c, d, e>>
<1>. DEFINE s == <<c, d>>
            t == <<c, d, e>>
            u == Append(s, e)
<1>1. s \in Seq(Events) /\ Len(s) = 2 /\ s[1] = c /\ s[2] = d
  OBVIOUS
<1>2. t \in Seq(Events) /\ Len(t) = 3 /\ t[1] = c /\ t[2] = d /\ t[3] = e
  OBVIOUS
<1>. HIDE DEF s, t
<1>3. u \in Seq(Events) /\ Len(u) = 3 /\ u[1] = c /\ u[2] = d /\ u[3] = e
  BY <1>1, AppendProperties
<1>. HIDE DEF u
<1>4. \A i \in 1 .. Len(u) : u[i] = t[i]
  BY <1>2, <1>3
<1>5. u = t
  BY <1>2, <1>3, <1>4, SeqEqual
<1>. QED
  BY <1>5 DEF s, t, u

LEMMA Appends ==
    /\ Append(<<>>, "start") = <<"start">>
    /\ Append(<<"start">>, "match") = <<"start", "match">>
    /\ Append(<<"start">>, "notfound") = <<"start", "notfound">>
    /\ Append(<<"start", "match">>, "end") = <<"start", "match", "end">>
    /\ Append(<<"start", "notfound">>, "end") = <<"start", "notfound", "end">>
<1>1. Append(<<>>, "start") = <<"start">>
  OBVIOUS
<1>. QED
  BY <1>1, SecondEvent, ThirdEvent DEF Events

\* A complete protocol is none of the beginnings that another event follows.
LEMMA CompleteIsOver ==
    /\ <<"start", "match", "end">> # <<>> /\ <<"start", "match", "end">> # <<"start">>
    /\ <<"start", "match", "end">> # <<"start", "match">>
    /\ <<"start", "match", "end">> # <<"start", "notfound">>
OBVIOUS

\* One request goes on to a phase and emits e, or nothing; the others stay.
Emitting(r, phase, e) ==
    /\ pc' = [pc EXCEPT ![r] = phase]
    /\ events' = [events EXCEPT ![r] = IF Emits(r) THEN Append(@, e) ELSE @]
Silent(r, phase) == pc' = [pc EXCEPT ![r] = phase] /\ events' = events

\* Steps after which a request has as much to tell as before.
LEMMA SilentKeeps ==
    ASSUME TypeOK, AdmissionInv, EventInv, NEW r \in Requests, NEW phase, Silent(r, phase),
           UNCHANGED <<gen, adm>>,
           \/ phase \notin {"idle", "admitted"} /\ phase \notin DOMAIN Told
           \/ phase = "hooks" /\ pc[r] = "matched"
           \/ phase = "delay" /\ pc[r] = "hooks"
    PROVE  EventInv'
BY ToldOf DEF EventInv, Silent, Emits, TypeOK

LEMMA EmittingKeeps ==
    ASSUME TypeOK, EventInv, NEW r \in Requests, NEW phase, NEW e, Emitting(r, phase, e),
           UNCHANGED <<gen, adm>>,
           \/ pc[r] = "admitted" /\ phase = "starting" /\ e = "start"
           \/ pc[r] = "starting" /\ phase = "missed" /\ e = "notfound"
           \/ pc[r] = "starting" /\ phase = "matched" /\ e = "match"
           \/ pc[r] \in {"missed", "delay"} /\ phase = "ending" /\ e = "end"
    PROVE  /\ EventInv'
           /\ pc[r] = "delay" /\ Emits(r) => events'[r] = <<"start", "match", "end">>
           /\ \A q \in Requests : events[q] = <<"start", "match", "end">> =>
                                     events'[q] = events[q]
<1>1. /\ \A q \in Requests \ {r} : pc'[q] = pc[q] /\ events'[q] = events[q]
      /\ pc'[r] = phase /\ events'[r] = IF Emits(r) THEN Append(events[r], e) ELSE events[r]
  BY DEF Emitting, TypeOK
<1>2. \A q \in Requests : Emits(q)' <=> Emits(q)
  BY DEF Emits
<1>3. CASE ~Emits(r)
  BY <1>1, <1>2, <1>3, ToldOf DEF EventInv
<1>4. CASE Emits(r)
  <2>1. CASE pc[r] = "admitted"
    <3>1. events[r] = <<>> /\ events'[r] = <<"start">> /\ phase = "starting"
      BY <1>1, <1>4, <2>1, Appends DEF EventInv
    <3>. QED
      BY <1>1, <1>2, <2>1, <3>1, ToldOf, CompleteIsOver DEF EventInv, Beginnings
  <2>2. CASE pc[r] = "starting"
    <3>1. events[r] = <<"start">>
      BY <1>4, <2>2, ToldOf DEF EventInv
    <3>2. \/ phase = "missed" /\ events'[r] = <<"start", "notfound">>
          \/ phase = "matched" /\ events'[r] = <<"start", "match">>
      BY <1>1, <1>4, <2>2, <3>1, Appends
    <3>. QED
      BY <1>1, <1>2, <2>2, <3>1, <3>2, ToldOf, CompleteIsOver DEF EventInv, Beginnings
  <2>3. CASE pc[r] \in {"missed", "delay"}
    <3>1. /\ pc[r] = "missed" => events[r] = <<"start", "notfound">>
          /\ pc[r] = "delay" => events[r] = <<"start", "match">>
      BY <1>4, <2>3, ToldOf DEF EventInv
    <3>2. /\ pc[r] = "missed" => events'[r] = <<"start", "notfound", "end">>
          /\ pc[r] = "delay" => events'[r] = <<"start", "match", "end">>
          /\ phase = "ending"
      BY <1>1, <1>4, <2>3, <3>1, Appends
    <3>. QED
      BY <1>1, <1>2, <2>3, <3>1, <3>2, ToldOf, CompleteIsOver
      DEF EventInv, Beginnings, Protocols
  <2>. QED
    BY <2>1, <2>2, <2>3
<1>. QED
  BY <1>3, <1>4

\* Where no request moves, a reset() at most makes them stale.
LEMMA StandingKeeps ==
    ASSUME TypeOK, TypeOK', AdmissionInv, EventInv, UNCHANGED <<pc, events, adm>>,
           gen' \in {gen, gen + 1}
    PROVE  EventInv'
<1>1. \A r \in Requests : pc[r] # "idle" => adm[r].gen <= gen /\ adm[r].gen \in Nat /\ gen \in Nat
  BY GensAreNat DEF AdmissionInv, TypeOK, Admission
<1>2. \A r \in Requests : pc[r] # "idle" /\ Emits(r)' => Emits(r)
  BY <1>1 DEF Emits
<1>. QED
  BY <1>2, ToldOf DEF EventInv

\* The events of the admission of r, which is made with its first event or
\* without.
LEMMA CaptureTold ==
    ASSUME TypeOK, EventInv, NEW r \in Requests, Handle(r) \/ Admit(r)
    PROVE  /\ EventInv'
           /\ \A q \in Requests : events[q] # <<>> => events'[q] = events[q] /\ adm'[q] = adm[q]
<1>1. /\ pc[r] = "idle" /\ gen' = gen /\ \A q \in Requests \ {r} : adm'[q] = adm[q]
      /\ events[r] = <<>>
  BY DEF Handle, Admit, Capture, TypeOK, EventInv, mock
<1>2. CASE Handle(r)
  <2>1. /\ pc' = [pc EXCEPT ![r] = "starting"]
        /\ events' = [events EXCEPT ![r] = <<"start">>]
    BY <1>1, <1>2, Appends DEF Handle, Goto, TypeOK
  <2>. QED
    BY <1>1, <2>1, ToldOf DEF EventInv, Beginnings, Emits, TypeOK
<1>3. CASE Admit(r)
  <2>1. pc' = [pc EXCEPT ![r] = "admitted"] /\ events' = events
    BY <1>3 DEF Admit, Goto
  <2>. QED
    BY <1>1, <2>1, ToldOf DEF EventInv, Beginnings, Emits, TypeOK
<1>. QED
  BY <1>2, <1>3

\* What a step may do to a history that is a barrier: nothing, or empty it, or a
\* request that it told the end of enters it.
LEMMA HistoryStays ==
    ASSUME TypeOK, HistoryBarrier, Resetting => Resetting',
           \/ /\ UNCHANGED <<gen, hgen, history>>
              /\ \A q \in Requests : events[q] = <<"start", "match", "end">> =>
                    events'[q] = events[q] /\ adm'[q] = adm[q]
           \/ history' = <<>>
           \/ Resetting'
    PROVE  HistoryBarrier'
<1>1. \A i \in 1 .. Len(history) : history[i] \in Requests
  BY DEF TypeOK
<1>2. CASE Resetting'
  BY <1>2 DEF HistoryBarrier
<1>3. CASE history' = <<>>
  BY <1>3 DEF HistoryBarrier
<1>4. CASE /\ ~Resetting /\ UNCHANGED <<gen, hgen, history>>
           /\ \A q \in Requests : events[q] = <<"start", "match", "end">> =>
                 events'[q] = events[q] /\ adm'[q] = adm[q]
  <2>1. ASSUME NEW i \in 1 .. Len(history)
        PROVE  /\ adm'[history[i]].gen = gen /\ adm'[history[i]].hgen = hgen
               /\ events'[history[i]] = <<"start", "match", "end">>
    <3>1. /\ adm[history[i]].gen = gen /\ adm[history[i]].hgen = hgen
          /\ events[history[i]] = <<"start", "match", "end">>
      BY <1>4 DEF HistoryBarrier
    <3>. QED
      BY <1>1, <1>4, <3>1
  <2>. QED
    BY <1>4, <2>1 DEF HistoryBarrier
<1>. QED
  BY <1>2, <1>3, <1>4

\* The frames of uninstall() hooks that a step keeps, and a reset() with them.
LEMMA ResettingStays ==
    ASSUME TypeOK, NEW f \in Frame,
           \/ UNCHANGED stack
           \/ stack' = Append(stack, f)
           \/ /\ stack # <<>>
              /\ Last(stack).op # "uninstall" \/ ~Last(stack).resetting
              /\ stack' = Front(stack) \/ stack' = Append(Front(stack), f)
           \/ /\ stack # <<>> /\ f.op = "uninstall" /\ f.resetting = Last(stack).resetting
              /\ stack' = Append(Front(stack), f)
    PROVE  Resetting => Resetting'
<1>. SUFFICES ASSUME Resetting PROVE Resetting'
  OBVIOUS
<1>1. PICK i \in 1 .. Len(stack) : stack[i].op = "uninstall" /\ stack[i].resetting
  BY DEF Resetting
<1>2. stack \in Seq(Frame) /\ Len(stack) \in Nat
  BY DEF TypeOK
<1>3. CASE UNCHANGED stack
  BY <1>1, <1>3 DEF Resetting
<1>4. CASE stack' = Append(stack, f)
  <2>1. i \in 1 .. Len(stack') /\ stack'[i] = stack[i]
    BY <1>2, <1>4, PushFrame
  <2>. QED
    BY <1>1, <2>1 DEF Resetting
<1>5. CASE stack # <<>> /\ stack' = Front(stack)
  <2>1. Last(stack).op # "uninstall" \/ ~Last(stack).resetting
    <3>1. Front(stack) # stack /\ Front(stack) # Append(stack, f) /\ Front(stack) # Append(Front(stack), f)
      <4>1. Len(Front(stack)) = Len(stack) - 1 /\ Front(stack) \in Seq(Frame)
        BY <1>2, <1>5, PopFrame
      <4>2. Len(Append(stack, f)) = Len(stack) + 1 /\ Len(Append(Front(stack), f)) = Len(stack)
        BY <1>2, <4>1, PushFrame
      <4>. QED
        BY <1>2, <4>1, <4>2
    <3>. QED
      BY <1>5, <3>1
  <2>2. i # Len(stack)
    BY <1>1, <1>2, <1>5, <2>1, PopFrame
  <2>3. i \in 1 .. Len(stack') /\ stack'[i] = stack[i]
    BY <1>2, <1>5, <2>2, PopFrame
  <2>. QED
    BY <1>1, <2>3 DEF Resetting
<1>6. CASE stack # <<>> /\ stack' = Append(Front(stack), f)
  <2>1. /\ Len(stack') = Len(stack) /\ stack'[Len(stack)] = f
        /\ \A j \in 1 .. Len(stack) - 1 : stack'[j] = stack[j]
    BY <1>2, <1>6, SetTopFrame
  <2>2. CASE i # Len(stack)
    <3>1. i \in 1 .. Len(stack) - 1
      BY <1>1, <1>2, <2>2
    <3>2. stack'[i] = stack[i] /\ i \in 1 .. Len(stack')
      BY <2>1, <3>1
    <3>. QED
      BY <1>1, <3>2 DEF Resetting
  <2>3. CASE i = Len(stack)
    <3>1. Last(stack) = stack[i]
      BY <1>2, <1>6, <2>3, PopFrame
    <3>2. f.op = "uninstall" /\ f.resetting = Last(stack).resetting
      <4>1. Len(Front(stack)) = Len(stack) - 1 /\ Front(stack) \in Seq(Frame)
        BY <1>2, <1>6, PopFrame
      <4>2. Len(Append(stack, f)) = Len(stack) + 1 /\ Len(Append(Front(stack), f)) = Len(stack)
        BY <1>2, <4>1, PushFrame
      <4>3. stack' # Front(stack) /\ stack' # Append(stack, f)
        BY <1>2, <1>6, <4>1, <4>2
      <4>4. UNCHANGED stack => f = stack[Len(stack)]
        BY <1>6, <2>1
      <4>. QED
        BY <1>1, <2>3, <3>1, <4>3, <4>4
    <3>. QED
      BY <1>1, <1>2, <2>1, <2>3, <3>1, <3>2 DEF Resetting
  <2>. QED
    BY <2>2, <2>3
<1>. QED
  BY <1>3, <1>4, <1>5, <1>6

Story == EventInv /\ HistoryBarrier

\* Registration, the listeners' comings and goings, resetState() and aborts.
LEMMA StoryElsewhere ==
    ASSUME TypeOK, TypeOK', AdmissionInv, Story,
           \/ UNCHANGED vars
           \/ \E k \in Keys : DefineRoute(k)
           \/ \E p \in Plugins : PipePlain(p) \/ PipeInstall(p)
           \/ \E l \in Listeners : On(l) \/ Off(l)
           \/ ResetState \/ \E r \in Requests : Abort(r)
           \/ InstallReturn \/ InstallThrow \/ ListenerReturn
    PROVE  Story'
<1>1. UNCHANGED <<pc, events, adm, gen, hgen, history>>
  BY DEF DefineRoute, PipePlain, PipeInstall, On, Off, ResetState, Abort, InstallReturn,
         InstallThrow, ListenerReturn, Register, vars, mock, admissions, requests
<1>2. Resetting => Resetting'
  <2>1. CASE UNCHANGED stack
    BY <2>1 DEF Resetting
  <2>2. ASSUME NEW p \in Plugins, PipeInstall(p) PROVE Resetting => Resetting'
    <3>1. [op |-> "install", plugin |-> p, routes |-> routes] \in Frame
      BY DEF Frame, InstallFrame, TypeOK
    <3>. QED
      BY <2>2, <3>1, ResettingStays DEF PipeInstall, Push
  <2>3. CASE InstallReturn \/ InstallThrow
    <3>1. /\ stack # <<>> /\ Last(stack) \in Frame /\ Last(stack).op = "install"
          /\ stack' = Front(stack)
      BY <2>3, TopFrame DEF InstallReturn, InstallThrow, Pop
    <3>. QED
      BY <3>1, ResettingStays
  <2>4. CASE ListenerReturn
    <3>1. stack # <<>> /\ Last(stack) \in RunFrame /\ Last(stack).op = "run"
      BY <2>4, TopFrame, FrameKinds DEF ListenerReturn
    <3>2. [Last(stack) EXCEPT !.todo = Tail(@)] \in Frame
      BY <2>4, <3>1 DEF ListenerReturn, RunFrame, Frame
    <3>. QED
      BY <2>4, <3>1, <3>2, ResettingStays DEF ListenerReturn, SetTop
  <2>. QED
    BY <2>1, <2>2, <2>3, <2>4
    DEF DefineRoute, PipePlain, On, Off, ResetState, Abort, vars
<1>. QED
  BY <1>1, <1>2, StandingKeeps, HistoryStays DEF Story

\* The barriers.
LEMMA StoryResets ==
    ASSUME TypeOK, TypeOK', AdmissionInv, Story, Reset \/ ResetHistory \/ UninstallReturn
    PROVE  Story'
<1>1. CASE Reset
  <2>1. UNCHANGED <<pc, events, adm>> /\ gen' \in {gen, gen + 1}
    BY <1>1 DEF Reset, requests
  <2>2. Resetting' \/ history' = <<>>
    <3>1. ASSUME Push([op |-> "uninstall", todo |-> plugins, resetting |-> TRUE])
          PROVE  Resetting'
      <4>1. PICK f \in Frame : /\ f = [op |-> "uninstall", todo |-> plugins, resetting |-> TRUE]
                               /\ f.op = "uninstall" /\ f.resetting
        <5>1. [op |-> "uninstall", todo |-> plugins, resetting |-> TRUE] \in Frame
          BY DEF TypeOK, Frame, UninstallFrame
        <5>. QED
          BY <5>1
      <4>2. Len(stack') = Len(stack) + 1 /\ stack'[Len(stack) + 1] = f /\ Len(stack) \in Nat
        BY <3>1, <4>1, PushFrame DEF Push, TypeOK
      <4>. QED
        BY <4>1, <4>2 DEF Resetting
    <3>. QED
      BY <1>1, <3>1 DEF Reset, ClearMock
  <2>3. Resetting => Resetting' \/ history' = <<>>
    BY <2>2
  <2>. QED
    BY <2>1, <2>2, StandingKeeps DEF Story, HistoryBarrier
<1>2. CASE ResetHistory
  <2>1. UNCHANGED <<pc, events, adm, gen, stack>> /\ history' = <<>>
    BY <1>2 DEF ResetHistory, admissions, requests
  <2>. QED
    BY <2>1, StandingKeeps DEF Story, HistoryBarrier
<1>3. CASE UninstallReturn
  <2> DEFINE top == Last(stack)
             todo == Front(top.todo)
  <2>1. stack # <<>> /\ top \in UninstallFrame /\ top.op = "uninstall"
    BY <1>3, TopFrame, FrameKinds DEF UninstallReturn
  <2>2. UNCHANGED <<pc, events, adm, gen, hgen>>
    BY <1>3 DEF UninstallReturn, mock, admissions, requests
  <2>3. CASE todo # <<>>
    <3>1. UNCHANGED history /\ SetTop([top EXCEPT !.todo = todo])
      BY <1>3, <2>3 DEF UninstallReturn, mock
    <3>2. top.todo \in Seq(Plugins) /\ top.todo # <<>>
      BY <2>1, <2>3 DEF UninstallFrame, Front
    <3>3. todo \in Seq(Plugins)
      BY <3>2, PopFrame
    <3>4. PICK f \in Frame : /\ f = [top EXCEPT !.todo = todo]
                             /\ f.op = "uninstall" /\ f.resetting = top.resetting
      <4>1. [top EXCEPT !.todo = todo] \in Frame
        BY <2>1, <3>3 DEF UninstallFrame, Frame
      <4>2. [top EXCEPT !.todo = todo].op = "uninstall"
        BY <2>1 DEF UninstallFrame
      <4>3. [top EXCEPT !.todo = todo].resetting = top.resetting
        BY <2>1 DEF UninstallFrame
      <4>. QED
        BY <4>1, <4>2, <4>3
    <3>5. Resetting => Resetting'
      BY <2>1, <3>1, <3>4, ResettingStays DEF SetTop
    <3>. QED
      BY <2>2, <3>1, <3>5, StandingKeeps, HistoryStays DEF Story
  <2>4. CASE todo = <<>> /\ top.resetting
    <3>1. history' = <<>>
      BY <1>3, <2>4 DEF UninstallReturn, ClearMock
    <3>. QED
      BY <2>2, <3>1, StandingKeeps DEF Story, HistoryBarrier
  <2>5. CASE todo = <<>> /\ ~top.resetting
    <3>1. UNCHANGED history /\ stack' = Front(stack)
      BY <1>3, <2>5 DEF UninstallReturn, Pop
    <3>2. Resetting => Resetting'
      BY <2>1, <2>5, <3>1, ResettingStays DEF Frame
    <3>. QED
      BY <2>2, <3>1, <3>2, StandingKeeps, HistoryStays DEF Story
  <2>. QED
    BY <2>3, <2>4, <2>5
<1>. QED
  BY <1>1, <1>2, <1>3

\* A request enters the history with its last event; before and after, what it
\* emits changes none of those that are in it.
LEMMA FinalizeRecords ==
    ASSUME TypeOK, TypeOK', AdmissionInv, Story, NEW r \in Requests, Finalize(r)
    PROVE  Story'
<1>1. /\ Emitting(r, "ending", "end") /\ pc[r] = "delay" /\ stack = <<>>
      /\ UNCHANGED <<gen, hgen, adm>>
      /\ history' = IF Recordable(r) THEN Newest(Append(history, r)) ELSE history
  BY DEF Finalize, Emitting, Goto, Log, admissions
<1>2. /\ EventInv'
      /\ Emits(r) => events'[r] = <<"start", "match", "end">>
      /\ \A q \in Requests : events[q] = <<"start", "match", "end">> => events'[q] = events[q]
  BY <1>1, EmittingKeeps DEF Story
<1>3. ~Resetting
  BY <1>1 DEF Resetting
<1>4. CASE ~Recordable(r)
  BY <1>1, <1>2, <1>3, <1>4, HistoryStays DEF Story
<1>5. CASE Recordable(r)
  <2>. DEFINE grown == Append(history, r)
              Barrier(q) == /\ adm[q].gen = gen /\ adm[q].hgen = hgen
                            /\ events'[q] = <<"start", "match", "end">>
  <2>1. /\ history \in Seq(Requests) /\ Len(history) \in Nat
        /\ \A i \in 1 .. Len(history) : history[i] \in Requests
    BY DEF TypeOK
  <2>2. \A i \in 1 .. Len(history) : Barrier(history[i])
    BY <1>2, <1>3, <2>1 DEF Story, HistoryBarrier
  <2>3. Barrier(r)
    BY <1>2, <1>5 DEF Recordable, Emits
  <2>4. /\ grown \in Seq(Requests) /\ Len(grown) = Len(history) + 1
        /\ \A i \in 1 .. Len(grown) : Barrier(grown[i])
    <3>1. /\ grown \in Seq(Requests) /\ Len(grown) = Len(history) + 1
          /\ \A i \in 1 .. Len(history) : grown[i] = history[i]
          /\ grown[Len(history) + 1] = r
      BY <2>1, AppendProperties
    <3>. HIDE DEF grown, Barrier
    <3>2. ASSUME NEW i \in 1 .. Len(grown) PROVE Barrier(grown[i])
      <4>1. i \in 1 .. Len(history) \/ i = Len(history) + 1
        BY <2>1, <3>1
      <4>. QED
        BY <2>2, <2>3, <3>1, <4>1
    <3>. QED
      BY <3>1, <3>2
  <2>. HIDE DEF grown, Barrier
  <2>5. \A i \in 1 .. Len(Newest(grown)) : Barrier(Newest(grown)[i])
    <3>1. CASE Len(grown) > MaxHistory
      <4>. DEFINE m == Len(grown) - MaxHistory + 1
                  n == Len(grown)
                  tail == SubSeq(grown, m, n)
      <4>1. /\ m \in Int /\ n \in Int /\ (\A i \in m .. n : grown[i] \in Requests)
            /\ n - m + 1 = MaxHistory /\ MaxHistory \in Nat /\ m \in Nat
            /\ \A i \in 1 .. MaxHistory : m + i - 1 \in 1 .. Len(grown)
        BY <2>1, <2>4, <3>1, BoundsAssumption
      <4>. HIDE DEF m, n
      <4>2. Len(tail) = IF m <= n THEN n - m + 1 ELSE 0
        BY <4>1, SubSeqProperties
      <4>3. \A i \in 1 .. n - m + 1 : tail[i] = grown[m + i - 1]
        BY <4>1, SubSeqProperties
      <4>4. Newest(grown) = tail
        BY <3>1 DEF Newest, m, n
      <4>5. \A i \in 1 .. Len(tail) : i \in 1 .. MaxHistory
        BY <4>1, <4>2
      <4>. HIDE DEF tail
      <4>. QED
        BY <2>4, <4>1, <4>3, <4>4, <4>5
    <3>2. CASE ~(Len(grown) > MaxHistory)
      BY <2>4, <3>2 DEF Newest
    <3>. QED
      BY <3>1, <3>2
  <2>6. history' = Newest(grown)
    BY <1>1, <1>5 DEF grown
  <2>. QED
    BY <1>1, <1>2, <2>5, <2>6 DEF Story, HistoryBarrier, Barrier
<1>. QED
  BY <1>4, <1>5

\* The steps of a request.
LEMMA StoryRequests ==
    ASSUME TypeOK, TypeOK', AdmissionInv, Story, NEW r \in Requests,
           Handle(r) \/ Admit(r) \/ RequestStep(r)
    PROVE  Story'
<1>0. RunFrameOf(r, Heard(r)) \in Frame
  <2>1. Heard(r) \in Seq(Listeners)
    BY DEF Heard, TypeOK
  <2>. QED
    BY <2>1, RunFrameType
<1>1. ASSUME \/ Push(RunFrameOf(r, Heard(r)))
             \/ Continues(r) /\ SetTop(RunFrameOf(r, Heard(r)))
             \/ Continues(r) /\ Pop
             \/ UNCHANGED stack
      PROVE  Resetting => Resetting'
  <2>1. Continues(r) => stack # <<>> /\ Last(stack).op # "uninstall"
    BY TopFrame DEF Continues
  <2>. QED
    BY <1>0, <1>1, <2>1, ResettingStays DEF Push, SetTop, Pop
<1>2. ASSUME NEW phase, NEW e, Emitting(r, phase, e),
             UNCHANGED <<gen, hgen, history, adm>>, Resetting => Resetting',
             \/ pc[r] = "admitted" /\ phase = "starting" /\ e = "start"
             \/ pc[r] = "starting" /\ phase = "missed" /\ e = "notfound"
             \/ pc[r] = "starting" /\ phase = "matched" /\ e = "match"
             \/ pc[r] \in {"missed", "delay"} /\ phase = "ending" /\ e = "end"
      PROVE  Story'
  BY <1>2, EmittingKeeps, HistoryStays DEF Story
<1>3. ASSUME NEW phase, Silent(r, phase), UNCHANGED <<gen, hgen, adm, history>>,
             Resetting => Resetting',
             \/ phase \notin {"idle", "admitted"} /\ phase \notin DOMAIN Told
             \/ phase = "hooks" /\ pc[r] = "matched"
             \/ phase = "delay" /\ pc[r] = "hooks"
      PROVE  Story'
  BY <1>3, SilentKeeps, HistoryStays DEF Story, Silent
<1>4. CASE Handle(r) \/ Admit(r)
  <2>1. EventInv' /\ \A q \in Requests : events[q] = <<"start", "match", "end">> =>
                         events'[q] = events[q] /\ adm'[q] = adm[q]
    BY <1>4, CaptureTold, CompleteIsOver DEF Story
  <2>2. UNCHANGED <<gen, hgen, history>>
    BY <1>4 DEF Handle, Admit, mock
  <2>3. Resetting => Resetting'
    <3>1. RunFrameOf(r, listeners) \in Frame
      BY RunFrameType DEF TypeOK
    <3>. QED
      BY <1>4, <3>1, ResettingStays DEF Handle, Admit, Push
  <2>. QED
    BY <2>1, <2>2, <2>3, HistoryStays DEF Story
<1>5. CASE Begin(r)
  <2>1. UNCHANGED <<gen, hgen, history, adm>>
    BY <1>5 DEF Begin, mock, admissions
  <2>2. CASE aborted[r]
    BY <1>1, <1>3, <1>5, <2>1, <2>2, ToldOf DEF Begin, Goto, Silent
  <2>3. CASE ~aborted[r]
    BY <1>1, <1>2, <1>5, <2>1, <2>3 DEF Begin, Goto, Log, Emitting
  <2>. QED
    BY <2>2, <2>3
<1>6. CASE Miss(r)
  BY <1>1, <1>2, <1>6 DEF Miss, Goto, Log, Emitting, mock, admissions
<1>7. CASE MissEnd(r)
  BY <1>1, <1>2, <1>7 DEF MissEnd, Goto, Log, Emitting, mock, admissions
<1>8. CASE Match(r)
  BY <1>1, <1>2, <1>8 DEF Match, Goto, Log, Emitting, mock, admissions
<1>9. CASE Suspend(r)
  BY <1>1, <1>3, <1>9, ToldOf DEF Suspend, Goto, Silent, mock, admissions
<1>10. CASE HooksSettle(r) \/ AbortObserved(r)
  BY <1>1, <1>3, <1>10, ToldOf
  DEF HooksSettle, AbortObserved, Goto, Silent, mock, admissions
<1>11. CASE Release(r) \/ AdapterRelease(r) \/ AdapterAbandon(r)
  <2>1. stack = <<>> /\ UNCHANGED <<gen, hgen, history, events, adm>>
    BY <1>11 DEF Release, AdapterRelease, AdapterAbandon, ReleaseAdmission, mock, requests, admissions
  <2>2. ~Resetting
    BY <2>1 DEF Resetting
  <2>3. CASE UNCHANGED pc
    BY <2>1, <2>2, <2>3, StandingKeeps, HistoryStays DEF Story
  <2>4. CASE pc' = [pc EXCEPT ![r] = "released"] \/ pc' = [pc EXCEPT ![r] = "done"]
    BY <1>3, <2>1, <2>2, <2>4, ToldOf DEF Silent
  <2>. QED
    BY <1>11, <2>3, <2>4 DEF Release, AdapterRelease, AdapterAbandon, Goto, requests
<1>. QED
  BY <1>4, <1>5, <1>6, <1>7, <1>8, <1>9, <1>10, <1>11, FinalizeRecords DEF RequestStep

LEMMA StoryStep == ASSUME IInv, TypeOK', Story, [Next]_vars PROVE Story'
<1>1. TypeOK /\ AdmissionInv
  BY DEF IInv
<1>. QED
  BY <1>1, StoryElsewhere, StoryResets, StoryRequests
  DEF Next, Call, UserCodeReturn

THEOREM StoryInvariance == Spec => []Story
<1>1. Init => Story
  BY DEF Init, Story, EventInv, Beginnings, HistoryBarrier, Told
<1>2. IInv /\ IInv' => TypeOK'
  BY DEF IInv
<1>. QED
  BY <1>1, <1>2, StoryStep, Invariance, PTL DEF Spec

\* A beginning is one of a complete protocol.
LEMMA BeginningsAre == ASSUME NEW s \in Beginnings PROVE \E t \in Protocols : IsPrefix(s, t)
<1>. DEFINE hit == <<"start", "match", "end">>
            miss == <<"start", "notfound", "end">>
<1>1. /\ hit \in Seq(Events) /\ Len(hit) = 3
      /\ hit[1] = "start" /\ hit[2] = "match" /\ hit[3] = "end"
  BY DEF Events
<1>2. /\ miss \in Seq(Events) /\ Len(miss) = 3
      /\ miss[1] = "start" /\ miss[2] = "notfound" /\ miss[3] = "end"
  BY DEF Events
<1>3. hit \in Protocols /\ miss \in Protocols
  BY DEF Protocols
<1>4. ASSUME NEW u \in Seq(Events), NEW v \in Seq(Events), Len(u) <= Len(v),
             \A i \in 1 .. Len(u) : u[i] = v[i]
      PROVE  IsPrefix(u, v)
  <2>. DEFINE n == Len(u)
  <2>1. n \in Nat /\ n <= Len(v) /\ \A i \in 1 .. n : u[i] \in Events /\ v[i] \in Events
    BY <1>4
  <2>. HIDE DEF n
  <2>2. \A w \in {u, v} : /\ SubSeq(w, 1, n) \in Seq(Events) /\ Len(SubSeq(w, 1, n)) = n
                          /\ \A i \in 1 .. n : SubSeq(w, 1, n)[i] = w[i]
    <3>1. 1 \in Int /\ n \in Int /\ n - 1 + 1 = n /\ (\A i \in 1 .. n : 1 + i - 1 = i)
          /\ (1 <= n \/ n = 0)
      BY <2>1
    <3>2. ASSUME NEW w \in {u, v}
          PROVE  /\ SubSeq(w, 1, n) \in Seq(Events) /\ Len(SubSeq(w, 1, n)) = n
                 /\ \A i \in 1 .. n : SubSeq(w, 1, n)[i] = w[i]
      <4>1. \A i \in 1 .. n : w[i] \in Events
        BY <2>1, <3>2
      <4>2. SubSeq(w, 1, n) \in Seq(Events)
        BY <3>1, <4>1, SubSeqProperties, Zenon
      <4>3. Len(SubSeq(w, 1, n)) = n
        BY <3>1, <4>1, SubSeqProperties
      <4>4. \A i \in 1 .. n : SubSeq(w, 1, n)[i] = w[i]
        BY <3>1, <4>1, SubSeqProperties
      <4>. QED
        BY <4>2, <4>3, <4>4
    <3>. QED
      BY <3>2
  <2>3. SubSeq(u, 1, n) = SubSeq(v, 1, n)
    <3>1. \A i \in 1 .. n : SubSeq(u, 1, n)[i] = SubSeq(v, 1, n)[i]
      BY <1>4, <2>2 DEF n
    <3>. QED
      BY <2>2, <3>1, SeqEqual
  <2>. QED
    BY <2>1, <2>3 DEF IsPrefix, n
<1>. HIDE DEF hit, miss
<1>5. CASE s = <<>>
  <2>1. s \in Seq(Events) /\ Len(s) <= Len(hit) /\ \A i \in 1 .. Len(s) : s[i] = hit[i]
    BY <1>1, <1>5
  <2>2. IsPrefix(s, hit)
    BY <1>1, <1>4, <2>1
  <2>. QED
    BY <1>3, <2>2
<1>6. CASE s = <<"start">>
  <2>1. s \in Seq(Events) /\ Len(s) = 1 /\ s[1] = "start"
    BY <1>6 DEF Events
  <2>2. IsPrefix(s, hit)
    BY <1>1, <1>4, <2>1
  <2>. QED
    BY <1>3, <2>2
<1>7. CASE s = <<"start", "match">>
  BY <1>1, <1>3, <1>4, <1>7 DEF Events
<1>8. CASE s = <<"start", "notfound">>
  BY <1>2, <1>3, <1>4, <1>8 DEF Events
<1>9. CASE s \in Protocols
  <2>1. s = hit \/ s = miss
    BY <1>9 DEF Protocols, hit, miss
  <2>. QED
    BY <1>1, <1>2, <1>3, <1>4, <2>1
<1>. QED
  BY <1>5, <1>6, <1>7, <1>8, <1>9 DEF Beginnings

\* emit() of builder.ts, between resets, aborts and misses: what the listeners
\* are told of a request is the beginning of a complete protocol.
THEOREM ProtocolKept == Spec => []EventProtocol
<1>1. Story => EventProtocol
  BY BeginningsAre DEF Story, EventInv, EventProtocol
<1>. QED
  BY <1>1, StoryInvariance, PTL

\* #finalizeMatchedRequest() and the resets (builder.ts 1386-1429): the history
\* holds requests admitted after the last barrier, told from start to end.
THEOREM HistoryIsBarrier == Spec => []HistoryBarrier
<1>1. Story => HistoryBarrier
  BY DEF Story
<1>. QED
  BY <1>1, StoryInvariance, PTL

=============================================================================
