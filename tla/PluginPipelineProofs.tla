------------------------ MODULE PluginPipelineProofs ------------------------
(***************************************************************************)
(* That hooks run in order, for any number of plugins.  HooksInOrder reads *)
(* the log only; what makes it inductive is what the position of a loop    *)
(* says about the log: which plugins it has called, and that no other loop *)
(* has begun.                                                              *)
(***************************************************************************)
EXTENDS PluginPipeline, SequenceTheorems, WellFoundedInduction, TLAPS

TypeInv ==
    /\ guards \subseteq Plugins /\ handlers \subseteq Plugins
    /\ static \in BOOLEAN /\ signalled \in BOOLEAN
    /\ phase \in Phases /\ index \in 0 .. N /\ failed \in 0 .. Len(log)
    /\ ctx \in Nat /\ error \in Nat /\ response \in Nat
    /\ log \in Seq(Call) /\ calling \in BOOLEAN /\ aborted \in BOOLEAN

\* The hook that a loop calls.
HookOf == [p \in {"guard", "generate", "process", "recover"} |->
              IF p = "recover" THEN "onError" ELSE p]

\* The call that has not settled is the last one, of the plugin the loop is at.
CallInv ==
    calling => /\ log # <<>>
               /\ log[Now].did = "pending" /\ log[Now].plugin = index
               /\ \/ phase = "settled"
                  \/ phase \in DOMAIN HookOf /\ log[Now].hook = HookOf[phase]

Passed(j) == log[j].did \in {"pass", "context"}

\* Every guard was called.
AllAsked == \A g \in guards : \E j \in CallsOf("guard") : log[j].plugin = g

GuardInv ==
    /\ \A j \in CallsOf("guard") : log[j].plugin \in guards
    /\ \A i, j \in CallsOf("guard") : i < j => log[i].plugin < log[j].plugin
    /\ phase = "guard" =>
          /\ \A j \in Calls : log[j].hook = "guard" /\ log[j].plugin <= index
          /\ \A g \in guards : g <= index => \E j \in Calls : log[j].plugin = g
          /\ \A j \in Calls : Passed(j) \/ (calling /\ j = Now)
    /\ phase = "generate" =>
          /\ AllAsked
          /\ \A j \in Calls :
                \/ log[j].hook = "guard" /\ Passed(j)
                \/ log[j].hook = "generate" /\ calling /\ j = Now
    /\ \A k \in CallsOf("generate") :
          AllAsked /\ \A j \in CallsOf("guard") : j < k /\ Passed(j)

\* e is the last call before k that failed, 0 if none did.
LastFail(k, e) ==
    /\ e \in 0 .. (k - 1)
    /\ e # 0 => log[e].did = "fail"
    /\ \A j \in 1 .. (k - 1) : log[j].did = "fail" => j <= e

\* The calls after the failure, up to n, are those of the handlers from the
\* plugin that failed up to p.
Offered(n, p) ==
    /\ \A j \in (failed + 1) .. n :
          /\ log[j].hook = "onError" /\ log[j].plugin \in handlers
          /\ log[failed].plugin <= log[j].plugin /\ log[j].plugin <= p
    /\ \A h \in handlers : log[failed].plugin <= h /\ h <= p =>
          \E j \in (failed + 1) .. n : log[j].plugin = h

\* What a handler was called for, and what may follow it.
HandlerInv(k) ==
    /\ failed # 0 /\ failed < k
    /\ Offered(k, log[k].plugin)
    /\ \A j \in Calls : j > k => log[j].hook \in {"onError", "parse"}
    /\ LastFail(k, log[k].error)

RecoverInv ==
    /\ phase \in {"guard", "generate", "process"} =>
          \A j \in Calls : log[j].hook \in {"guard", "generate", "process"}
    /\ failed # 0 => log[failed].hook # "onError"
    /\ phase = "recover" => /\ failed # 0
                            /\ log[failed].plugin <= index + 1
                            /\ Offered(Now, index)
    /\ \A k \in CallsOf("onError") : HandlerInv(k)

\* The last call that is not a handler's is b.
LastWork(b) ==
    /\ b \in Calls /\ log[b].hook # "onError"
    /\ \A j \in Calls : j > b => log[j].hook = "onError"

ResultInv ==
    /\ phase \notin {"delay", "settled"} => result = NoResult
    /\ phase \in {"delay", "settled"} /\ result.kind = "exception" =>
          /\ result.of = error
          /\ \E b \in Calls : LastWork(b) /\ result.blame = log[b].plugin
    /\ outcome.kind = "exception" => phase = "settled" /\ outcome = result

IInv == /\ TypeInv /\ CallInv /\ GuardInv /\ LastFail(Now + 1, error)
        /\ RecoverInv /\ ResultInv

-----------------------------------------------------------------------------
(* The operators. *)

\* Max and Min of FiniteSetsExt are what they are called.
LEMMA MaxIs ==
    ASSUME NEW S \in SUBSET Nat, NEW m \in S, \A y \in S : y <= m
    PROVE  Max(S) = m
<1>1. \A x \in S : (\A y \in S : x >= y) => x = m
  OBVIOUS
<1>2. \A y \in S : m >= y
  OBVIOUS
<1>. QED
  BY <1>1, <1>2 DEF Max

LEMMA MinIs ==
    ASSUME NEW S \in SUBSET Nat, S # {}
    PROVE  Min(S) \in S /\ \A y \in S : Min(S) <= y
<1>1. PICK m \in S : \A y \in S : ~(<<y, m>> \in OpToRel(<, Nat))
  BY WFMin, NatLessThanWellFounded
<1>2. ASSUME NEW y \in S PROVE m <= y
  <2>1. y \in Nat /\ m \in Nat
    OBVIOUS
  <2>2. ~(<<y, m>> \in OpToRel(<, Nat))
    BY <1>1, Zenon
  <2>. QED
    BY <2>1, <2>2 DEF OpToRel
<1>. QED
  BY <1>2 DEF Min

\* What the position of the last failure is called by the properties.
LEMMA LastBeforeIs ==
    ASSUME TypeInv, NEW k \in 1 .. (Now + 1), NEW e, LastFail(k, e)
    PROVE  LastBefore(k, {"fail"}) = e
<1> DEFINE S == {0} \cup {j \in Calls : j < k /\ log[j].did \in {"fail"}}
<1>1. Len(log) \in Nat
  BY DEF TypeInv
<1>2. S \in SUBSET Nat
  BY <1>1 DEF Calls
<1>3. e \in S
  BY <1>1 DEF LastFail, Calls, Now
<1>4. \A y \in S : y <= e
  BY <1>1 DEF LastFail, Calls, Now
<1>. QED
  BY <1>2, <1>3, <1>4, MaxIs DEF LastBefore

LEMMA LastWorkIs ==
    ASSUME TypeInv, NEW b, LastWork(b)
    PROVE  Max({k \in Calls : log[k].hook # "onError"}) = b
<1> DEFINE S == {k \in Calls : log[k].hook # "onError"}
<1>1. Len(log) \in Nat
  BY DEF TypeInv
<1>2. S \in SUBSET Nat
  BY <1>1 DEF Calls
<1>3. b \in S /\ \A y \in S : y <= b
  BY <1>1 DEF LastWork, Calls
<1>. QED
  BY <1>2, <1>3, MaxIs

-----------------------------------------------------------------------------
(* What a call does to the log. *)

\* It grows by one call.
Grown(hook, p, did) ==
    /\ Len(log') = Now + 1
    /\ \A j \in Calls : log'[j] = log[j]
    /\ log'[Now + 1] = Entry(hook, p, did)

LEMMA Grows ==
    ASSUME TypeInv, NEW hook \in Hooks, NEW p \in 0 .. N,
           NEW did \in Outcomes \cup {"pending"},
           log' = Append(log, Entry(hook, p, did))
    PROVE  log' \in Seq(Call) /\ Grown(hook, p, did)
<1>1. Entry(hook, p, did) \in Call
  BY DEF Entry, Call, TypeInv
<1>. QED
  BY <1>1, AppendProperties DEF TypeInv, Grown, Calls, Now

\* The last call settles.
Settled(did) ==
    /\ Len(log') = Now
    /\ \A j \in Calls : j # Now => log'[j] = log[j]
    /\ log'[Now] = [log[Now] EXCEPT !.did = did]

LEMMA Settles ==
    ASSUME TypeInv, CallInv, NEW did \in Outcomes, Took(did)
    PROVE  /\ log' \in Seq(Call) /\ Settled(did) /\ Now \in Calls
           /\ log'[Now].did = did /\ log'[Now].hook = log[Now].hook
           /\ log'[Now].plugin = log[Now].plugin /\ log'[Now].error = log[Now].error
<1>1. log \in Seq(Call) /\ log # <<>>
  BY DEF TypeInv, CallInv, Took
<1>2. Now \in 1 .. Len(log) /\ log[Now] \in Call
  BY <1>1, LenProperties, ElementOfSeq DEF Now
<1>3. [log[Now] EXCEPT !.did = did] \in Call
  BY <1>2 DEF Call
<1>4. log' = [log EXCEPT ![Now] = [log[Now] EXCEPT !.did = did]]
  BY DEF Took
<1>5. /\ log' \in Seq(Call) /\ Len(log') = Len(log)
      /\ \A j \in 1 .. Len(log) :
            log'[j] = IF j = Now THEN [log[Now] EXCEPT !.did = did] ELSE log[j]
  BY <1>1, <1>2, <1>3, <1>4, ExceptSeq
<1>6. Settled(did) /\ Now \in Calls
  BY <1>2, <1>5 DEF Settled, Calls, Now
<1>. QED
  BY <1>2, <1>5, <1>6 DEF Settled, Call

\* The loop comes to the next of the plugins of a set.
LEMMA NextOf ==
    ASSUME TypeInv, NEW S \in SUBSET Plugins, Left(S) # {}
    PROVE  /\ Min(Left(S)) \in S /\ Min(Left(S)) \in 1 .. N
           /\ Min(Left(S)) > index
           /\ \A g \in S : g <= Min(Left(S)) <=> g <= index \/ g = Min(Left(S))
<1>1. \A g \in S : g \in 1 .. N /\ g \in Nat
  BY NAssumption DEF Plugins
<1>2. Left(S) \in SUBSET Nat
  BY <1>1 DEF Left
<1>3. PICK m : m = Min(Left(S))
  OBVIOUS
<1>4. m \in Left(S) /\ \A y \in Left(S) : m <= y
  BY <1>2, <1>3, MinIs
<1>5. m \in S /\ m > index /\ \A g \in S : g > index => m <= g
  BY <1>4 DEF Left
<1>6. index \in Nat
  BY NAssumption DEF TypeInv
<1>7. \A g \in S : g <= m <=> g <= index \/ g = m
  BY <1>1, <1>5, <1>6
<1>. QED
  BY <1>1, <1>3, <1>5, <1>7

-----------------------------------------------------------------------------
(* What steps have in common. *)

\* The log is continued: only the call that was running changes.
Keeps ==
    /\ Now \in Nat /\ Len(log') \in Nat /\ Now <= Len(log')
    /\ \A j \in Calls :
          /\ log'[j].hook = log[j].hook /\ log'[j].plugin = log[j].plugin
          /\ log'[j].error = log[j].error
          /\ log'[j].did = log[j].did \/ (calling /\ j = Now)

LEMMA InvokeFacts ==
    ASSUME TypeInv, NEW hook \in Hooks, NEW p \in 0 .. N, Invoke(hook, p)
    PROVE  /\ TypeInv' /\ Keeps /\ Len(log') = Now + 1
           /\ log'[Now + 1].hook = hook /\ log'[Now + 1].plugin = p
           /\ log'[Now + 1].did = "pending" /\ log'[Now + 1].error = error
           /\ \A j \in Calls : log'[j] = log[j]
<1>1. log' \in Seq(Call) /\ Grown(hook, p, "pending")
  BY Grows DEF Invoke
<1>2. Len(log) \in Nat
  BY DEF TypeInv
<1>3. TypeInv'
  BY <1>1, <1>2 DEF TypeInv, Invoke, config, values, Grown, Now
<1>. QED
  BY <1>1, <1>2, <1>3 DEF Grown, Keeps, Entry, Now, Calls

LEMMA TookFacts ==
    ASSUME TypeInv, CallInv, NEW did \in Outcomes, Took(did)
    PROVE  /\ log' \in Seq(Call) /\ Keeps /\ Len(log') = Now
           /\ Now \in Calls /\ Now >= 1 /\ log[Now].did = "pending"
           /\ log'[Now].did = did
           /\ \A j \in Calls : j # Now => log'[j] = log[j]
<1>1. /\ log' \in Seq(Call) /\ Settled(did) /\ Now \in Calls
      /\ log'[Now].did = did /\ log'[Now].hook = log[Now].hook
      /\ log'[Now].plugin = log[Now].plugin /\ log'[Now].error = log[Now].error
  BY Settles
<1>2. Len(log) \in Nat
  BY DEF TypeInv
<1>3. calling /\ log[Now].did = "pending"
  BY DEF CallInv, Took
<1>4. Now \in Nat /\ Now >= 1 /\ Len(log') = Now
  BY <1>1, <1>2 DEF Settled, Now, Calls
<1>5. \A j \in Calls : j # Now => log'[j] = log[j]
  BY <1>1 DEF Settled
<1>6. Keeps
  BY <1>1, <1>3, <1>4, <1>5 DEF Keeps
<1>. QED
  BY <1>1, <1>3, <1>4, <1>5, <1>6

LEMMA TookType ==
    ASSUME TypeInv, NEW did, Took(did), log' \in Seq(Call), Len(log') = Now,
           phase' \in Phases, index' \in 0 .. N, failed' \in 0 .. Now,
           ctx' \in Nat, error' \in Nat, response' \in Nat
    PROVE  TypeInv'
<1>1. UNCHANGED <<guards, handlers, static, signalled, aborted>> /\ calling' = FALSE
  BY DEF Took, config
<1>2. /\ static' \in BOOLEAN /\ signalled' \in BOOLEAN
      /\ calling' \in BOOLEAN /\ aborted' \in BOOLEAN
  BY <1>1, Zenon DEF TypeInv
<1>3. guards' \subseteq Plugins /\ handlers' \subseteq Plugins
  BY <1>1 DEF TypeInv
<1>. QED
  BY <1>2, <1>3 DEF TypeInv

LEMMA StillFacts ==
    ASSUME TypeInv, UNCHANGED log
    PROVE  Keeps /\ Len(log') = Now
<1>1. Len(log) \in Nat
  BY DEF TypeInv
<1>. QED
  BY <1>1 DEF Keeps, Now

\* The handlers that were called stay what they are, whatever handlers follow.
LEMMA HandlersKept ==
    ASSUME TypeInv, Keeps, failed' = failed, handlers' = handlers,
           \A k \in CallsOf("onError") : HandlerInv(k),
           \A j \in (Now + 1) .. Len(log') : log'[j].hook \in {"onError", "parse"},
           NEW k \in Calls, log[k].hook = "onError"
    PROVE  HandlerInv(k)'
<1>1. HandlerInv(k) /\ k \in 1 .. Now /\ Now \in Nat /\ failed \in Nat
  BY DEF Calls, CallsOf, Now, TypeInv
<1>2. failed # 0 /\ failed < k
  BY <1>1 DEF HandlerInv
<1>3. Offered(k, log[k].plugin)'
  <2>1. \A j \in failed .. k : /\ log'[j].hook = log[j].hook
                               /\ log'[j].plugin = log[j].plugin
    BY <1>1, <1>2 DEF Keeps, Calls, Now
  <2>2. failed \in failed .. k /\ k \in failed .. k
        /\ \A j \in (failed + 1) .. k : j \in failed .. k
    BY <1>1, <1>2
  <2>3. Offered(k, log[k].plugin)
    BY <1>1 DEF HandlerInv
  <2>. QED
    BY <2>1, <2>2, <2>3 DEF Offered
<1>4. \A j \in Calls' : j > k => log'[j].hook \in {"onError", "parse"}
  BY <1>1 DEF Keeps, Calls, HandlerInv, Now
<1>5. LastFail(k, log[k].error)'
  <2>1. log'[k].error = log[k].error
    BY DEF Keeps
  <2>2. \A j \in 1 .. (k - 1) : log'[j].did = log[j].did
    BY <1>1 DEF Keeps, Calls, Now
  <2>3. LastFail(k, log[k].error)
    BY <1>1 DEF HandlerInv
  <2>. QED
    BY <1>1, <2>1, <2>2, <2>3 DEF LastFail
<1>. QED
  BY <1>2, <1>3, <1>4, <1>5 DEF HandlerInv

\* What the guards were asked is not touched once the generator is past.
LEMMA GuardsKept ==
    ASSUME TypeInv, Keeps, GuardInv, guards' = guards,
           phase \notin {"guard", "generate"}, phase' \notin {"guard", "generate"},
           \A j \in (Now + 1) .. Len(log') : log'[j].hook \notin {"guard", "generate"}
    PROVE  GuardInv'
<1>1. \A hook \in {"guard", "generate"} : CallsOf(hook)' = CallsOf(hook)
  BY DEF Keeps, Calls, CallsOf, Now
<1>2. \A j \in CallsOf("guard") : log'[j].plugin = log[j].plugin
  BY DEF Keeps, CallsOf
<1>3. AllAsked => AllAsked'
  BY <1>1, <1>2 DEF AllAsked
<1>4. \A k \in CallsOf("generate") : \A j \in CallsOf("guard") :
         j < k /\ Passed(j) => Passed(j)'
  BY DEF Keeps, Calls, CallsOf, Passed, Now
<1>. QED
  BY <1>1, <1>2, <1>3, <1>4 DEF GuardInv

LEMMA Unsettled ==
    ASSUME ResultInv, phase \notin {"delay", "settled"},
           phase' \notin {"delay", "settled"}, UNCHANGED <<outcome, result>>
    PROVE  ResultInv'
BY DEF ResultInv, NoResult

\* The last failure is still the last one when no call fails.
LEMMA FailureKept ==
    ASSUME TypeInv, Keeps, LastFail(Now + 1, error), UNCHANGED error,
           \A j \in 1 .. Len(log') : log'[j].did = "fail" =>
               j \in Calls /\ log[j].did = "fail",
           error # 0 => log'[error].did = log[error].did
    PROVE  LastFail(Now + 1, error)'
<1>1. error \in 0 .. Now /\ Now \in Nat /\ Len(log') \in Nat
  BY DEF Keeps, LastFail
<1>. QED
  BY <1>1 DEF Keeps, LastFail, Calls, Now

\* No handler is called before something failed.
Working == {"guard", "generate", "process"}

LEMMA WorkingKept ==
    ASSUME TypeInv, Keeps, RecoverInv, failed' = failed,
           phase \in Working, phase' \in Working,
           \A j \in (Now + 1) .. Len(log') : log'[j].hook \in Working
    PROVE  RecoverInv'
<1>1. \A j \in Calls' : log'[j].hook \in Working
  BY DEF Keeps, RecoverInv, Working, Calls, Now
<1>2. failed # 0 => failed \in Calls
  BY DEF TypeInv, Calls
<1>3. failed # 0 => log'[failed].hook # "onError"
  BY <1>2 DEF Keeps, RecoverInv
<1>. QED
  BY <1>1, <1>3 DEF RecoverInv, Working, CallsOf

\* What was recovered, or was not, stays so.
LEMMA RecoveredKept ==
    ASSUME TypeInv, Keeps, RecoverInv, failed' = failed, handlers' = handlers,
           phase' \in {"parse", "delay", "settled"},
           \A j \in (Now + 1) .. Len(log') : log'[j].hook = "parse"
    PROVE  RecoverInv'
<1>1. \A k \in CallsOf("onError") : HandlerInv(k)
  BY DEF RecoverInv
<1>2. \A k \in CallsOf("onError")' : k \in Calls /\ log[k].hook = "onError"
  BY DEF Keeps, CallsOf, Calls, Now
<1>3. \A k \in CallsOf("onError")' : HandlerInv(k)'
  BY <1>1, <1>2, HandlersKept
<1>4. failed # 0 => failed \in Calls
  BY DEF TypeInv, Calls
<1>5. failed # 0 => log'[failed].hook # "onError"
  BY <1>4 DEF Keeps, RecoverInv
<1>. QED
  BY <1>3, <1>5 DEF RecoverInv

\* A call that settles well leaves the last failure what it was.
LEMMA FailureKeptBy ==
    ASSUME IInv, NEW did \in Outcomes \ {"fail"}, Took(did), UNCHANGED error
    PROVE  LastFail(Now + 1, error)'
<1>1. /\ Keeps /\ Len(log') = Now /\ Now \in Calls /\ Now >= 1
      /\ log[Now].did = "pending" /\ log'[Now].did = did
      /\ \A j \in Calls : j # Now => log'[j] = log[j]
  BY TookFacts DEF IInv
<1>2. \A j \in 1 .. Len(log') : log'[j].did = "fail" =>
         j \in Calls /\ log[j].did = "fail"
  BY <1>1 DEF Calls, Now
<1>3. error # 0 => error \in Calls /\ error # Now
  BY <1>1 DEF IInv, LastFail, Calls, Now, Keeps
<1>. QED
  BY <1>1, <1>2, <1>3, FailureKept DEF IInv

LEMMA FailureIsLast ==
    ASSUME IInv, Took("fail"), error' = Now
    PROVE  LastFail(Now + 1, error)'
<1>1. /\ Keeps /\ Len(log') = Now /\ Now \in Calls /\ log'[Now].did = "fail"
  BY TookFacts DEF IInv, Outcomes
<1>. QED
  BY <1>1 DEF LastFail, Keeps, Calls, Now

\* What a call that is made leaves of the rest: its failures and its results.
LEMMA InvokeKeeps ==
    ASSUME IInv, NEW hook \in Hooks, NEW p \in 0 .. N, Invoke(hook, p),
           phase \in DOMAIN HookOf, hook = HookOf[phase], GuardInv', RecoverInv'
    PROVE  IInv'
<1>1. /\ TypeInv' /\ Keeps /\ Len(log') = Now + 1
      /\ log'[Now + 1].hook = hook /\ log'[Now + 1].plugin = p
      /\ log'[Now + 1].did = "pending" /\ \A j \in Calls : log'[j] = log[j]
  BY InvokeFacts DEF IInv
<1>2. /\ calling' /\ index' = p /\ UNCHANGED <<phase, error, outcome, result>>
  BY DEF Invoke, values
<1>3. Now \in Nat
  BY <1>1 DEF Keeps
<1>4. CallInv'
  BY <1>1, <1>2, <1>3 DEF CallInv, Now
<1>5. LastFail(Now + 1, error)'
  <2>1. \A j \in 1 .. Len(log') : log'[j].did = "fail" =>
           j \in Calls /\ log[j].did = "fail"
    BY <1>1, <1>3 DEF Calls, Now
  <2>2. error # 0 => error \in Calls
    BY <1>3 DEF IInv, LastFail, Calls, Now
  <2>. QED
    BY <1>1, <1>2, <2>1, <2>2, FailureKept DEF IInv
<1>6. phase \notin {"delay", "settled"} /\ phase' \notin {"delay", "settled"}
  BY <1>2 DEF HookOf
<1>7. ResultInv'
  BY <1>2, <1>6, Unsettled DEF IInv
<1>. QED
  BY <1>1, <1>4, <1>5, <1>7 DEF IInv

-----------------------------------------------------------------------------
(* The guards. *)

LEMMA CallGuardKeeps == ASSUME IInv, CallGuard PROVE IInv'
<1> DEFINE p == Min(Left(guards))
<1>1. /\ p \in guards /\ p \in 1 .. N /\ p > index
      /\ \A g \in guards : g <= p <=> g <= index \/ g = p
  BY NextOf DEF IInv, TypeInv, CallGuard
<1>2. Invoke("guard", p) /\ phase = "guard"
  BY DEF CallGuard
<1> HIDE DEF p
<1>3. /\ TypeInv' /\ Keeps /\ Len(log') = Now + 1
      /\ log'[Now + 1].hook = "guard" /\ log'[Now + 1].plugin = p
      /\ log'[Now + 1].did = "pending"
      /\ \A j \in Calls : log'[j] = log[j]
  BY <1>1, <1>2, InvokeFacts, NAssumption DEF IInv, Hooks
<1>4. /\ ~calling /\ calling' /\ index' = p /\ phase' = "guard"
      /\ UNCHANGED <<guards, handlers, failed>>
  BY <1>2 DEF Invoke, config, values
<1>5. Now \in Nat /\ Calls' = Calls \cup {Now + 1} /\ Now + 1 \notin Calls
  BY <1>3 DEF Keeps, Calls, Now
<1>6. GuardInv'
  <2>1. \A j \in Calls : log[j].hook = "guard" /\ log[j].plugin <= index /\ Passed(j)
    BY <1>2, <1>4 DEF IInv, GuardInv
  <2>2. \A j \in Calls' : log'[j].hook = "guard" /\ log'[j].plugin <= p
    <3>1. \A j \in Calls : log[j].plugin \in guards
      BY <2>1 DEF IInv, GuardInv, CallsOf
    <3>. QED
      BY <1>1, <1>3, <1>5, <2>1, <3>1
  <2>. QED
    <3>1. \A j \in Calls : log[j].plugin \in guards
      BY <2>1 DEF IInv, GuardInv, CallsOf
    <3>2. \A i, j \in Calls : i < j => log[i].plugin < log[j].plugin
      BY <2>1 DEF IInv, GuardInv, CallsOf
    <3>3. CallsOf("guard")' = Calls' /\ CallsOf("generate")' = {}
      BY <2>2 DEF CallsOf
    <3>4. \A j \in Calls' : log'[j].plugin \in guards
      BY <1>1, <1>3, <1>5, <3>1
    <3>5. \A j \in Calls : log[j].plugin < p /\ j < Now + 1
      <4>1. index \in Nat /\ p \in Nat /\ \A g \in guards : g \in Nat
        BY <1>1, NAssumption DEF IInv, TypeInv, Plugins
      <4>2. \A j \in Calls : j \in Nat /\ j < Now + 1
        BY <1>5 DEF Calls, Now
      <4>3. \A j \in Calls : log[j].plugin \in Nat /\ log[j].plugin <= index
        BY <2>1, <3>1, <4>1
      <4>. QED
        BY <1>1, <4>1, <4>2, <4>3
    <3>6. \A i, j \in Calls' : i < j => log'[i].plugin < log'[j].plugin
      <4>1. SUFFICES ASSUME NEW i \in Calls', NEW j \in Calls', i < j
                     PROVE  log'[i].plugin < log'[j].plugin
        OBVIOUS
      <4>2. i \in Calls
        <5>1. i \in 1 .. (Now + 1) /\ j \in 1 .. (Now + 1)
          BY <1>3, <4>1 DEF Calls, Now
        <5>. QED
          BY <1>5, <4>1, <5>1 DEF Calls, Now
      <4>. QED
        BY <1>3, <1>5, <3>2, <3>5, <4>1, <4>2
    <3>7. \A g \in guards : g <= p => \E j \in Calls' : log'[j].plugin = g
      <4>1. \A g \in guards : g <= index => \E j \in Calls : log[j].plugin = g
        BY <1>2 DEF IInv, GuardInv
      <4>. QED
        BY <1>1, <1>3, <1>5, <4>1
    <3>8. \A j \in Calls' : Passed(j)' \/ j = Now'
      BY <1>3, <1>5, <2>1 DEF Passed, Now
    <3>. QED
      BY <1>4, <2>2, <3>3, <3>4, <3>6, <3>7, <3>8 DEF GuardInv
<1>7. RecoverInv'
  <2>1. \A j \in (Now + 1) .. Len(log') : j = Now + 1
    BY <1>3, <1>5
  <2>. QED
    BY <1>2, <1>3, <1>4, <2>1, WorkingKept DEF IInv, Working
<1>. QED
  BY <1>1, <1>2, <1>6, <1>7, NAssumption, InvokeKeeps DEF HookOf, Hooks

LEMMA GuardPassesKeeps == ASSUME IInv, GuardPasses PROVE IInv'
<1>1. PICK did \in {"pass", "context"} : Took(did) /\ ctx' \in {ctx, Now}
  BY DEF GuardPasses, NewContext
<1>2. did \in Outcomes \ {"fail"}
  BY <1>1 DEF Outcomes
<1>3. /\ log' \in Seq(Call) /\ Keeps /\ Len(log') = Now /\ Now \in Calls
      /\ log'[Now].did = did /\ \A j \in Calls : j # Now => log'[j] = log[j]
  BY <1>1, <1>2, TookFacts DEF IInv
<1>4. /\ phase = "guard" /\ ~calling' /\ phase' = phase
      /\ UNCHANGED <<guards, handlers, static, signalled, index, failed, error,
                     response, aborted, outcome, result>>
  BY <1>1 DEF GuardPasses, Took, config
<1>5. Now \in Nat /\ Calls' = Calls
  BY <1>3 DEF Keeps, Calls, Now
<1>6. TypeInv'
  <2>1. /\ phase' \in Phases /\ index' \in 0 .. N /\ failed' \in 0 .. Now
        /\ ctx' \in Nat /\ error' \in Nat /\ response' \in Nat
    BY <1>1, <1>4, <1>5 DEF IInv, TypeInv, Now
  <2>. QED
    BY <1>1, <1>3, <2>1, TookType DEF IInv
<1>7. CallInv'
  BY <1>4 DEF CallInv
<1>8. GuardInv'
  <2>1. \A j \in Calls : log[j].hook = "guard" /\ log[j].plugin <= index
                          /\ (Passed(j) \/ j = Now)
    BY <1>4 DEF IInv, GuardInv
  <2>2. \A j \in Calls' : log'[j].hook = "guard" /\ log'[j].plugin = log[j].plugin
    BY <1>3, <1>5, <2>1 DEF Keeps
  <2>3. \A j \in Calls' : Passed(j)'
    BY <1>1, <1>3, <1>5, <2>1 DEF Passed
  <2>4. CallsOf("guard") = Calls /\ CallsOf("guard")' = Calls /\ CallsOf("generate")' = {}
    BY <1>5, <2>1, <2>2 DEF CallsOf
  <2>. QED
    BY <1>4, <1>5, <2>1, <2>2, <2>3, <2>4 DEF IInv, GuardInv
<1>9. RecoverInv'
  BY <1>3, <1>4, <1>5, WorkingKept DEF IInv, Working
<1>. QED
  BY <1>1, <1>2, <1>4, <1>6, <1>7, <1>8, <1>9, FailureKeptBy, Unsettled DEF IInv

\* The guards are left before the generator is called.
LEMMA GuardsLeft ==
    ASSUME TypeInv, Keeps, GuardInv, guards' = guards, Len(log') = Now,
           phase = "guard", phase' \notin {"guard", "generate"}
    PROVE  GuardInv'
<1>1. Calls' = Calls
  BY DEF Calls, Now
<1>2. \A j \in Calls : log'[j].hook = "guard" /\ log'[j].plugin = log[j].plugin
                       /\ log[j].hook = "guard"
  BY DEF Keeps, GuardInv
<1>3. CallsOf("guard") = Calls /\ CallsOf("guard")' = Calls /\ CallsOf("generate")' = {}
  BY <1>1, <1>2 DEF CallsOf
<1>. QED
  BY <1>2, <1>3 DEF GuardInv

LEMMA GuardRespondsKeeps == ASSUME IInv, GuardResponds PROVE IInv'
<1>1. /\ log' \in Seq(Call) /\ Keeps /\ Len(log') = Now /\ Took("respond")
  BY TookFacts DEF IInv, GuardResponds, Outcomes
<1>2. /\ phase = "guard" /\ ~calling' /\ phase' = "process" /\ index' = 0
      /\ ctx' = Now /\ response' = Now
      /\ UNCHANGED <<guards, handlers, static, signalled, failed, error, aborted, outcome, result>>
  BY DEF GuardResponds, Took, config, NewContext
<1>3. Now \in Nat
  BY <1>1 DEF Keeps
<1>4. TypeInv'
  <2>1. /\ phase' \in Phases /\ index' \in 0 .. N /\ failed' \in 0 .. Now
        /\ ctx' \in Nat /\ error' \in Nat /\ response' \in Nat
    BY <1>2, <1>3, NAssumption DEF IInv, TypeInv, Now, Phases
  <2>. QED
    BY <1>1, <2>1, TookType DEF IInv
<1>5. CallInv'
  BY <1>2 DEF CallInv
<1>6. GuardInv'
  BY <1>1, <1>2, GuardsLeft DEF IInv
<1>7. RecoverInv'
  BY <1>1, <1>2, <1>3, WorkingKept DEF IInv, Working
<1>. QED
  BY <1>1, <1>2, <1>4, <1>5, <1>6, <1>7, FailureKeptBy, Unsettled DEF IInv, Outcomes

LEMMA GuardsDoneKeeps == ASSUME IInv, GuardsDone PROVE IInv'
<1>1. /\ phase = "guard" /\ Left(guards) = {} /\ ~calling /\ phase' = "generate"
      /\ UNCHANGED <<guards, handlers, static, signalled, index, failed, ctx, error,
                     response, log, calling, aborted, outcome, result>>
  BY DEF GuardsDone, config, values
<1>2. Keeps /\ Len(log') = Now /\ Now \in Nat
  BY <1>1, StillFacts DEF IInv, Keeps
<1>3. TypeInv'
  BY <1>1 DEF IInv, TypeInv, Phases
<1>4. CallInv'
  BY <1>1 DEF CallInv
<1>5. GuardInv'
  <2>1. \A j \in Calls : log[j].hook = "guard" /\ Passed(j)
    BY <1>1 DEF IInv, GuardInv
  <2>2. \A g \in guards : g <= index
    BY <1>1, NAssumption DEF IInv, TypeInv, Left, Plugins
  <2>3. CallsOf("guard") = Calls /\ CallsOf("generate") = {}
    BY <2>1 DEF CallsOf
  <2>4. AllAsked
    BY <1>1, <2>2, <2>3 DEF IInv, GuardInv, AllAsked
  <2>. QED
    BY <1>1, <2>1, <2>3, <2>4 DEF IInv, GuardInv, AllAsked, Passed, CallsOf, Calls
<1>6. LastFail(Now + 1, error)'
  BY <1>1 DEF IInv, LastFail, Now
<1>7. RecoverInv'
  BY <1>1, <1>2, WorkingKept DEF IInv, Working
<1>. QED
  BY <1>1, <1>3, <1>4, <1>5, <1>6, <1>7, Unsettled DEF IInv

-----------------------------------------------------------------------------
(* Failures before the recovery. *)

LEMMA FailKeeps ==
    ASSUME IInv, Fail, phase \in Working, GuardInv'
    PROVE  IInv'
<1>1. /\ Took("fail") /\ log' \in Seq(Call) /\ Keeps /\ Len(log') = Now
      /\ Now \in Calls /\ Now >= 1
  BY TookFacts DEF IInv, Fail, Outcomes
<1>2. /\ calling /\ ~calling' /\ phase' = "recover" /\ index' = FirstHandler
      /\ error' = Now /\ failed' = Now
      /\ UNCHANGED <<guards, handlers, ctx, response, outcome, result>>
  BY DEF Fail, Took, config
<1>3. Now \in Nat /\ index \in 0 .. N /\ N \in Nat
  BY <1>1, NAssumption DEF Keeps, IInv, TypeInv
<1>4. FirstHandler \in 0 .. N /\ index <= FirstHandler + 1
      /\ \A h \in handlers : ~(index <= h /\ h <= FirstHandler)
  <2>1. \A h \in handlers : h \in Nat /\ h >= 1
    BY <1>3 DEF IInv, TypeInv, Plugins
  <2>. QED
    BY <1>3, <2>1 DEF FirstHandler
<1>5. TypeInv'
  <2>1. /\ phase' \in Phases /\ index' \in 0 .. N /\ failed' \in 0 .. Now
        /\ ctx' \in Nat /\ error' \in Nat /\ response' \in Nat
    BY <1>2, <1>3, <1>4 DEF IInv, TypeInv, Phases
  <2>. QED
    BY <1>1, <2>1, TookType DEF IInv
<1>6. CallInv'
  BY <1>2 DEF CallInv
<1>7. RecoverInv'
  <2>1. \A j \in Calls : log[j].hook \in Working
    BY DEF IInv, RecoverInv, Working
  <2>2. \A j \in Calls' : j \in Calls /\ log'[j].hook \in Working
    BY <1>1, <2>1 DEF Keeps, Calls, Now
  <2>3. log'[Now].plugin = index
    BY <1>1, <1>2 DEF IInv, CallInv, Keeps
  <2>4. Offered(Now, index)'
    BY <1>1, <1>2, <1>3, <1>4, <2>3 DEF Offered, Now
  <2>5. log'[Now].hook # "onError" /\ CallsOf("onError")' = {}
    BY <1>1, <2>1, <2>2 DEF Keeps, CallsOf, Working
  <2>. QED
    BY <1>1, <1>2, <1>4, <2>3, <2>4, <2>5 DEF RecoverInv
<1>8. ResultInv'
  BY <1>2, Unsettled DEF IInv, Working
<1>. QED
  BY <1>1, <1>2, <1>5, <1>6, <1>7, <1>8, FailureIsLast DEF IInv

LEMMA GuardFailsKeeps == ASSUME IInv, GuardFails PROVE IInv'
<1>1. /\ Took("fail") /\ phase = "guard" /\ phase' = "recover" /\ guards' = guards
  BY DEF GuardFails, Fail, Took, config
<1>2. Keeps /\ Len(log') = Now
  BY <1>1, TookFacts DEF IInv, Outcomes
<1>. QED
  BY <1>1, <1>2, GuardsLeft, FailKeeps DEF IInv, GuardFails, Working

-----------------------------------------------------------------------------
(* The generator. *)

\* While the generator is left, the guards have all passed.
LEMMA GeneratorLeft ==
    ASSUME TypeInv, Keeps, GuardInv, guards' = guards,
           phase = "generate", phase' \notin {"guard", "generate"},
           \/ Len(log') = Now
           \/ ~calling /\ Len(log') = Now + 1 /\ log'[Now + 1].hook = "generate"
    PROVE  GuardInv'
<1>1. Now \in Nat /\ Calls = 1 .. Now
  BY DEF Keeps, Calls, Now
<1>2. \A j \in Calls :
         \/ log[j].hook = "guard" /\ Passed(j)
         \/ log[j].hook = "generate" /\ calling /\ j = Now
  BY Zenon DEF GuardInv
<1>3. \A j \in CallsOf("guard")' : j \in CallsOf("guard")
  BY <1>1 DEF Keeps, CallsOf, Calls, Now
<1>4. \A j \in CallsOf("guard") : j \in CallsOf("guard")' /\ log'[j].plugin = log[j].plugin
  BY <1>1 DEF Keeps, CallsOf, Calls, Now
<1>5. AllAsked'
  BY <1>4 DEF GuardInv, AllAsked
<1>6. \A k \in CallsOf("generate")' : \A j \in CallsOf("guard")' : j < k /\ Passed(j)'
  <2>1. SUFFICES ASSUME NEW k \in CallsOf("generate")', NEW j \in CallsOf("guard")'
                 PROVE  j < k /\ Passed(j)'
    OBVIOUS
  <2>2. j \in Calls /\ log[j].hook = "guard"
    BY <1>3, <2>1 DEF CallsOf
  <2>4. (k = Now + 1 /\ ~calling) \/ (k = Now /\ log[Now].hook = "generate")
    <3>1. k \in 1 .. Len(log') /\ log'[k].hook = "generate"
      BY <2>1 DEF CallsOf, Calls
    <3>2. CASE k \in Calls
      BY <1>2, <3>1, <3>2 DEF Keeps
    <3>3. CASE k \notin Calls
      BY <1>1, <3>1, <3>3
    <3>. QED
      BY <3>2, <3>3
  <2>5. log[j].did \in {"pass", "context"}
    BY <1>2, <2>2 DEF Passed
  <2>6. j < k
    BY <1>1, <2>2, <2>4
  <2>7. log'[j].did = log[j].did
    <3>1. CASE calling /\ j = Now
      BY <1>1, <2>2, <2>4, <3>1
    <3>2. CASE ~(calling /\ j = Now)
      BY <2>2, <3>2 DEF Keeps
    <3>. QED
      BY <3>1, <3>2
  <2>. QED
    BY <2>5, <2>6, <2>7 DEF Passed
<1>7. \A j \in CallsOf("guard")' : log'[j].plugin \in guards
  BY <1>3, <1>4 DEF GuardInv
<1>8. \A i, j \in CallsOf("guard")' : i < j => log'[i].plugin < log'[j].plugin
  BY <1>3, <1>4 DEF GuardInv
<1>. QED
  BY <1>5, <1>6, <1>7, <1>8 DEF GuardInv

LEMMA GenerateStaticKeeps == ASSUME IInv, GenerateStatic PROVE IInv'
<1>1. /\ phase = "generate" /\ phase' = "process" /\ ~calling /\ index' = 0
      /\ response' = Now + 1 /\ log' = Append(log, Entry("generate", 0, "respond"))
      /\ UNCHANGED <<guards, handlers, static, signalled, failed, ctx, error,
                     calling, aborted, outcome, result>>
  BY DEF GenerateStatic, config
<1>2. /\ log' \in Seq(Call) /\ Grown("generate", 0, "respond")
  BY <1>1, Grows, NAssumption DEF IInv, Hooks, Outcomes
<1>3. Now \in Nat
  BY DEF IInv, TypeInv, Now
<1>4. /\ Keeps /\ Len(log') = Now + 1
      /\ log'[Now + 1].hook = "generate" /\ log'[Now + 1].did = "respond"
      /\ \A j \in Calls : log'[j] = log[j]
  BY <1>2, <1>3 DEF Grown, Keeps, Entry
<1>5. TypeInv'
  <2>1. /\ static' \in BOOLEAN /\ signalled' \in BOOLEAN
        /\ calling' \in BOOLEAN /\ aborted' \in BOOLEAN
    BY <1>1, Zenon DEF IInv, TypeInv
  <2>. QED
    BY <1>1, <1>2, <1>3, <1>4, <2>1, NAssumption DEF IInv, TypeInv, Phases, Now
<1>6. CallInv'
  BY <1>1 DEF CallInv
<1>7. GuardInv'
  BY <1>1, <1>4, GeneratorLeft DEF IInv
<1>8. LastFail(Now + 1, error)'
  <2>1. \A j \in 1 .. Len(log') : log'[j].did = "fail" =>
           j \in Calls /\ log[j].did = "fail"
    BY <1>3, <1>4 DEF Calls, Now
  <2>2. error # 0 => error \in Calls
    BY <1>3 DEF IInv, LastFail, Calls, Now
  <2>. QED
    BY <1>1, <1>4, <2>1, <2>2, FailureKept DEF IInv
<1>9. RecoverInv'
  <2>1. \A j \in (Now + 1) .. Len(log') : j = Now + 1
    BY <1>3, <1>4
  <2>. QED
    BY <1>1, <1>4, <2>1, WorkingKept DEF IInv, Working
<1>. QED
  BY <1>1, <1>5, <1>6, <1>7, <1>8, <1>9, Unsettled DEF IInv

LEMMA CallGeneratorKeeps == ASSUME IInv, CallGenerator PROVE IInv'
<1>1. phase = "generate" /\ Invoke("generate", 0)
  BY DEF CallGenerator
<1>2. "generate" \in Hooks /\ 0 \in 0 .. N
  BY NAssumption DEF Hooks
<1>3. /\ Keeps /\ Len(log') = Now + 1 /\ log'[Now + 1].hook = "generate"
      /\ log'[Now + 1].did = "pending"
      /\ \A j \in Calls : log'[j] = log[j]
  BY <1>1, <1>2, InvokeFacts DEF IInv
<1>4. ~calling /\ calling' /\ UNCHANGED <<phase, guards, handlers, failed>>
  BY <1>1 DEF Invoke, config
<1>5. Now \in Nat /\ Calls' = Calls \cup {Now + 1} /\ Now + 1 \notin Calls
      /\ \A j \in Calls : j < Now + 1
  BY <1>3 DEF Keeps, Calls, Now
<1>6. GuardInv'
  <2>1. AllAsked /\ \A j \in Calls : log[j].hook = "guard" /\ Passed(j)
    BY <1>1, <1>4 DEF IInv, GuardInv
  <2>2. CallsOf("guard") = Calls /\ CallsOf("guard")' = Calls
        /\ CallsOf("generate")' = {Now + 1}
    BY <1>3, <1>5, <2>1 DEF CallsOf
  <2>3. AllAsked' /\ \A j \in Calls : log'[j].hook = "guard" /\ Passed(j)'
    BY <1>3, <1>4, <2>1, <2>2 DEF AllAsked, Passed
  <2>4. Now' = Now + 1
    BY <1>3 DEF Now
  <2>. QED
    BY <1>1, <1>3, <1>4, <1>5, <2>2, <2>3, <2>4 DEF IInv, GuardInv
<1>7. RecoverInv'
  <2>1. \A j \in (Now + 1) .. Len(log') : j = Now + 1
    BY <1>3, <1>5
  <2>. QED
    BY <1>1, <1>3, <1>4, <2>1, WorkingKept DEF IInv, Working
<1>. QED
  BY <1>1, <1>2, <1>6, <1>7, InvokeKeeps DEF HookOf

LEMMA GeneratorReturnsKeeps == ASSUME IInv, GeneratorReturns PROVE IInv'
<1>1. PICK did \in {"pass", "respond"} : Took(did) /\ response' \in {response, Now}
  BY DEF GeneratorReturns
<1>2. did \in Outcomes \ {"fail"}
  BY <1>1 DEF Outcomes
<1>3. log' \in Seq(Call) /\ Keeps /\ Len(log') = Now
  BY <1>1, <1>2, TookFacts DEF IInv
<1>4. /\ phase = "generate" /\ phase' = "process" /\ index' = 0 /\ ~calling'
      /\ UNCHANGED <<guards, handlers, failed, ctx, error, outcome, result>>
  BY <1>1 DEF GeneratorReturns, Took, config
<1>5. Now \in Nat
  BY <1>3 DEF Keeps
<1>6. TypeInv'
  <2>1. /\ phase' \in Phases /\ index' \in 0 .. N /\ failed' \in 0 .. Now
        /\ ctx' \in Nat /\ error' \in Nat /\ response' \in Nat
    BY <1>1, <1>4, <1>5, NAssumption DEF IInv, TypeInv, Now, Phases
  <2>. QED
    BY <1>1, <1>3, <2>1, TookType DEF IInv
<1>7. CallInv'
  BY <1>4 DEF CallInv
<1>8. GuardInv'
  BY <1>3, <1>4, GeneratorLeft DEF IInv
<1>9. RecoverInv'
  BY <1>3, <1>4, <1>5, WorkingKept DEF IInv, Working
<1>. QED
  BY <1>1, <1>2, <1>4, <1>6, <1>7, <1>8, <1>9, FailureKeptBy, Unsettled DEF IInv

LEMMA GeneratorFailsKeeps == ASSUME IInv, GeneratorFails PROVE IInv'
<1>1. /\ Took("fail") /\ phase = "generate" /\ phase' = "recover" /\ guards' = guards
  BY DEF GeneratorFails, Fail, Took, config
<1>2. Keeps /\ Len(log') = Now
  BY <1>1, TookFacts DEF IInv, Outcomes
<1>. QED
  BY <1>1, <1>2, GeneratorLeft, FailKeeps DEF IInv, GeneratorFails, Working

-----------------------------------------------------------------------------
(* The processors. *)

LEMMA CallProcessKeeps == ASSUME IInv, CallProcess PROVE IInv'
<1> DEFINE p == Min(Left(Plugins))
<1>1. p \in 0 .. N
  BY NextOf DEF IInv, CallProcess
<1>2. Invoke("process", p) /\ phase = "process" /\ "process" \in Hooks
  BY DEF CallProcess, Hooks
<1> HIDE DEF p
<1>3. Keeps /\ Len(log') = Now + 1 /\ log'[Now + 1].hook = "process"
  BY <1>1, <1>2, InvokeFacts DEF IInv
<1>4. UNCHANGED <<phase, guards, handlers, failed>>
  BY <1>2 DEF Invoke, config
<1>5. \A j \in (Now + 1) .. Len(log') : log'[j].hook = "process"
  <2>1. Now \in Nat
    BY <1>3 DEF Keeps
  <2>2. \A j \in (Now + 1) .. Len(log') : j = Now + 1
    BY <1>3, <2>1
  <2>. QED
    BY <1>3, <2>2
<1>6. GuardInv'
  BY <1>2, <1>3, <1>4, <1>5, GuardsKept DEF IInv
<1>7. RecoverInv'
  BY <1>2, <1>3, <1>4, <1>5, WorkingKept DEF IInv, Working
<1>. QED
  BY <1>1, <1>2, <1>6, <1>7, InvokeKeeps DEF HookOf

LEMMA ProcessReturnsKeeps == ASSUME IInv, ProcessReturns PROVE IInv'
<1>1. PICK did \in {"context", "respond"} : Took(did) /\ response' \in {response, Now}
  BY DEF ProcessReturns, NewResponse
<1>2. did \in Outcomes \ {"fail"}
  BY <1>1 DEF Outcomes
<1>3. log' \in Seq(Call) /\ Keeps /\ Len(log') = Now
  BY <1>1, <1>2, TookFacts DEF IInv
<1>4. /\ phase = "process" /\ phase' = "process" /\ ~calling' /\ ctx' = Now
      /\ UNCHANGED <<guards, handlers, index, failed, error, outcome, result>>
  BY <1>1 DEF ProcessReturns, Took, config, NewContext
<1>5. Now \in Nat
  BY <1>3 DEF Keeps
<1>6. TypeInv'
  <2>1. /\ phase' \in Phases /\ index' \in 0 .. N /\ failed' \in 0 .. Now
        /\ ctx' \in Nat /\ error' \in Nat /\ response' \in Nat
    BY <1>1, <1>4, <1>5 DEF IInv, TypeInv, Now
  <2>. QED
    BY <1>1, <1>3, <2>1, TookType DEF IInv
<1>7. CallInv'
  BY <1>4 DEF CallInv
<1>8. GuardInv'
  BY <1>3, <1>4, <1>5, GuardsKept DEF IInv
<1>9. RecoverInv'
  BY <1>3, <1>4, <1>5, WorkingKept DEF IInv, Working
<1>. QED
  BY <1>1, <1>2, <1>4, <1>6, <1>7, <1>8, <1>9, FailureKeptBy, Unsettled DEF IInv

LEMMA ProcessFailsKeeps == ASSUME IInv, ProcessFails PROVE IInv'
<1>1. /\ Took("fail") /\ phase = "process" /\ phase' = "recover" /\ guards' = guards
  BY DEF ProcessFails, Fail, Took, config
<1>2. Keeps /\ Len(log') = Now /\ Now \in Nat
  BY <1>1, TookFacts DEF IInv, Outcomes, Keeps
<1>3. GuardInv'
  BY <1>1, <1>2, GuardsKept DEF IInv
<1>. QED
  BY <1>1, <1>3, FailKeeps DEF ProcessFails, Working

-----------------------------------------------------------------------------
(* The recovery. *)

LEMMA CallHandlerKeeps == ASSUME IInv, CallHandler PROVE IInv'
<1>0. PICK p : p = Min(Left(handlers))
  OBVIOUS
<1>1. /\ p \in handlers /\ p \in 1 .. N /\ p > index
      /\ \A h \in handlers : h <= p <=> h <= index \/ h = p
  BY <1>0, NextOf DEF IInv, TypeInv, CallHandler
<1>2. Invoke("onError", p) /\ phase = "recover" /\ "onError" \in Hooks /\ p \in 0 .. N
  BY <1>0, <1>1, NAssumption DEF CallHandler, Hooks
<1>3. /\ Keeps /\ Len(log') = Now + 1 /\ TypeInv'
      /\ log'[Now + 1].hook = "onError" /\ log'[Now + 1].plugin = p
      /\ log'[Now + 1].did = "pending" /\ log'[Now + 1].error = error
      /\ \A j \in Calls : log'[j] = log[j]
  BY <1>2, InvokeFacts DEF IInv
<1>4. index' = p /\ UNCHANGED <<phase, guards, handlers, failed>>
  BY <1>2 DEF Invoke, config
<1>5. Now \in Nat /\ Calls = 1 .. Now /\ failed \in 1 .. Now /\ index \in Nat
  BY <1>2, <1>3, NAssumption, SMTT(30) DEF Keeps, Calls, Now, IInv, TypeInv, RecoverInv
<1>6. \A j \in (Now + 1) .. Len(log') : j = Now + 1
  BY <1>3, <1>5
<1>7. GuardInv'
  BY <1>2, <1>3, <1>4, <1>6, GuardsKept DEF IInv
<1>8. RecoverInv'
  <2>1. Offered(Now, index) /\ log[failed].plugin <= index + 1 /\ log[failed].hook # "onError"
    BY <1>2, <1>5 DEF IInv, RecoverInv
  <2>2. /\ log'[failed] = log[failed]
        /\ \A j \in (failed + 1) .. Now : log'[j] = log[j] /\ j \in (failed + 1) .. (Now + 1)
        /\ Now + 1 \in (failed + 1) .. (Now + 1)
        /\ \A j \in (failed + 1) .. (Now + 1) : j = Now + 1 \/ j \in (failed + 1) .. Now
    BY <1>3, <1>5
  <2>3. log[failed].plugin \in Nat /\ p \in Nat
    <3>1. log[failed] \in Call
      BY <1>5, ElementOfSeq DEF IInv, TypeInv, Now
    <3>. QED
      BY <1>1, <3>1, NAssumption DEF Call
  <2>4. log[failed].plugin <= p
    BY <1>1, <1>5, <2>1, <2>3
  <2>5. \A j \in (failed + 1) .. (Now + 1) :
           /\ log'[j].hook = "onError" /\ log'[j].plugin \in handlers
           /\ log'[failed].plugin <= log'[j].plugin /\ log'[j].plugin <= p
    <3>1. \A j \in (failed + 1) .. Now :
             /\ log'[j].hook = "onError" /\ log'[j].plugin \in handlers
             /\ log'[failed].plugin <= log'[j].plugin /\ log'[j].plugin <= index
      BY <2>1, <2>2 DEF Offered
    <3>2. \A j \in (failed + 1) .. Now : log'[j].plugin <= p
      BY <1>1, <3>1
    <3>. QED
      BY <1>1, <1>3, <2>2, <2>3, <2>4, <3>1, <3>2
  <2>6. \A h \in handlers : log'[failed].plugin <= h /\ h <= p =>
           \E j \in (failed + 1) .. (Now + 1) : log'[j].plugin = h
    <3>1. SUFFICES ASSUME NEW h \in handlers, log[failed].plugin <= h, h <= p
                   PROVE  \E j \in (failed + 1) .. (Now + 1) : log'[j].plugin = h
      BY <2>2
    <3>2. CASE h = p
      BY <1>3, <2>2, <3>2
    <3>3. CASE h <= index
      BY <2>1, <2>2, <3>1, <3>3 DEF Offered
    <3>. QED
      BY <1>1, <3>1, <3>2, <3>3
  <2>7. PICK n : n = Now + 1
    OBVIOUS
  <2>8. Len(log') = n /\ Now' = n /\ n \in Nat /\ n # 0 /\ failed < n
        /\ log'[n].hook = "onError" /\ log'[n].plugin = p /\ log'[n].error = error
    BY <1>3, <1>5, <2>7 DEF Now
  <2>9. Offered(n, p)'
    BY <1>4, <2>5, <2>6, <2>7 DEF Offered
  <2>10. HandlerInv(n)'
    <3>1. LastFail(n, error)'
      <4>1. LastFail(n, error) /\ error \in 0 .. Now
        BY <1>5, <2>7 DEF IInv, LastFail
      <4>2. \A j \in 1 .. (n - 1) : log'[j] = log[j]
        BY <1>3, <1>5, <2>7
      <4>3. error # 0 => log'[error] = log[error]
        BY <1>3, <1>5, <4>1
      <4>4. error' = error
        BY <1>2 DEF Invoke, values
      <4>. QED
        BY <4>1, <4>2, <4>3, <4>4 DEF LastFail
    <3>2. \A j \in Calls' : ~(j > n)
      BY <2>8 DEF Calls
    <3>3. error' = error
      BY <1>2 DEF Invoke, values
    <3>. QED
      BY <1>4, <1>5, <2>8, <2>9, <3>1, <3>2, <3>3 DEF HandlerInv
  <2>11. \A k \in CallsOf("onError")' : HandlerInv(k)'
    <3>1. SUFFICES ASSUME NEW k \in CallsOf("onError")' PROVE HandlerInv(k)'
      OBVIOUS
    <3>2. \A j \in (Now + 1) .. Len(log') : log'[j].hook \in {"onError", "parse"}
      BY <1>3, <1>6
    <3>3. k = n \/ (k \in Calls /\ log[k].hook = "onError")
      <4>1. k \in 1 .. n /\ log'[k].hook = "onError"
        BY <2>8, <3>1 DEF CallsOf, Calls
      <4>2. k = n \/ k \in Calls
        BY <1>5, <2>7, <4>1
      <4>. QED
        BY <1>3, <4>1, <4>2
    <3>4. \A i \in CallsOf("onError") : HandlerInv(i)
      BY DEF IInv, RecoverInv
    <3>5. ASSUME k \in Calls /\ log[k].hook = "onError" PROVE HandlerInv(k)'
      BY <1>3, <1>4, <3>2, <3>4, <3>5, HandlersKept DEF IInv
    <3>. QED
      BY <2>10, <3>3, <3>5
  <2>12. Offered(Now, index)'
    BY <1>4, <2>8, <2>9 DEF Offered
  <2>. QED
    BY <1>2, <1>4, <1>5, <2>1, <2>2, <2>3, <2>4, <2>11, <2>12 DEF RecoverInv
<1>. QED
  BY <1>2, <1>7, <1>8, InvokeKeeps DEF HookOf

LEMMA HandlerPassesKeeps == ASSUME IInv, HandlerPasses PROVE IInv'
<1>1. PICK did \in {"pass", "fail"} :
         Took(did) /\ error' = IF did = "fail" THEN Now ELSE error
  BY DEF HandlerPasses, HandlerRaises
<1>2. did \in Outcomes /\ (did # "fail" => did \in Outcomes \ {"fail"})
  BY <1>1 DEF Outcomes
<1>3. /\ log' \in Seq(Call) /\ Keeps /\ Len(log') = Now /\ Now \in Nat
  BY <1>1, <1>2, TookFacts DEF IInv, Keeps
<1>4. /\ phase = "recover" /\ phase' = "recover" /\ ~calling'
      /\ UNCHANGED <<guards, handlers, index, failed, ctx, response, outcome, result>>
  BY <1>1 DEF HandlerPasses, Took, config
<1>5. TypeInv'
  <2>1. /\ phase' \in Phases /\ index' \in 0 .. N /\ failed' \in 0 .. Now
        /\ ctx' \in Nat /\ error' \in Nat /\ response' \in Nat
    BY <1>1, <1>3, <1>4 DEF IInv, TypeInv, Now
  <2>. QED
    BY <1>1, <1>3, <2>1, TookType DEF IInv
<1>6. CallInv'
  BY <1>4 DEF CallInv
<1>7. GuardInv'
  BY <1>3, <1>4, GuardsKept DEF IInv
<1>8. LastFail(Now + 1, error)'
  BY <1>1, <1>2, FailureKeptBy, FailureIsLast
<1>9. RecoverInv'
  <2>1. /\ Offered(Now, index) /\ failed # 0 /\ log[failed].hook # "onError"
        /\ log[failed].plugin <= index + 1
        /\ \A k \in CallsOf("onError") : HandlerInv(k)
    BY <1>4 DEF IInv, RecoverInv
  <2>2. failed \in 1 .. Now /\ Calls = 1 .. Now
    BY <1>3, <2>1 DEF IInv, TypeInv, Calls, Now
  <2>3. \A j \in Calls : log'[j].hook = log[j].hook /\ log'[j].plugin = log[j].plugin
    BY <1>3 DEF Keeps
  <2>4. /\ failed \in Calls /\ \A j \in (failed + 1) .. Now : j \in Calls
        /\ Now' = Now /\ \A j \in (Now + 1) .. Len(log') : FALSE
    BY <1>3, <2>2 DEF Now
  <2>5. Offered(Now, index)'
    BY <1>4, <2>1, <2>3, <2>4 DEF Offered
  <2>6. \A k \in CallsOf("onError")' : k \in Calls /\ log[k].hook = "onError"
    BY <1>3, <2>2, <2>3 DEF CallsOf, Calls
  <2>7. \A k \in CallsOf("onError")' : HandlerInv(k)'
    BY <1>3, <1>4, <2>1, <2>4, <2>6, HandlersKept DEF IInv
  <2>. QED
    BY <1>4, <2>1, <2>3, <2>4, <2>5, <2>7 DEF RecoverInv
<1>. QED
  BY <1>4, <1>5, <1>6, <1>7, <1>8, <1>9, Unsettled DEF IInv

LEMMA HandlerRespondsKeeps == ASSUME IInv, HandlerResponds PROVE IInv'
<1>1. Took("respond") /\ "respond" \in Outcomes \ {"fail"}
  BY DEF HandlerResponds, Outcomes
<1>2. log' \in Seq(Call) /\ Keeps /\ Len(log') = Now /\ Now \in Nat
  BY <1>1, TookFacts DEF IInv, Keeps
<1>3. /\ phase = "recover" /\ phase' = "parse" /\ ~calling' /\ response' = Now
      /\ UNCHANGED <<guards, handlers, index, failed, ctx, error, outcome, result>>
  BY <1>1 DEF HandlerResponds, Took, config
<1>4. TypeInv'
  <2>1. /\ phase' \in Phases /\ index' \in 0 .. N /\ failed' \in 0 .. Now
        /\ ctx' \in Nat /\ error' \in Nat /\ response' \in Nat
    BY <1>2, <1>3 DEF IInv, TypeInv, Now, Phases
  <2>. QED
    BY <1>1, <1>2, <2>1, TookType DEF IInv
<1>5. CallInv'
  BY <1>3 DEF CallInv
<1>6. \A j \in (Now + 1) .. Len(log') : FALSE
  BY <1>2
<1>7. GuardInv'
  BY <1>2, <1>3, <1>6, GuardsKept DEF IInv
<1>8. RecoverInv'
  BY <1>2, <1>3, <1>6, RecoveredKept DEF IInv
<1>. QED
  BY <1>1, <1>3, <1>4, <1>5, <1>7, <1>8, FailureKeptBy, Unsettled DEF IInv

-----------------------------------------------------------------------------
(* The end. *)

\* Nothing is called any more, and nothing was: the log stays, and what is left
\* to show is about the result.
LEMMA EndKeeps ==
    ASSUME IInv, phase' \in {"parse", "delay", "settled"}, ResultInv',
           phase' = "settled" \/ ~calling,
           UNCHANGED <<guards, handlers, static, signalled, index, failed, ctx,
                       error, response, log, calling, aborted>>
    PROVE  IInv'
<1>1. Keeps /\ Len(log') = Now /\ Now \in Nat
  BY StillFacts DEF IInv, Keeps
<1>2. TypeInv'
  <2>1. /\ static' \in BOOLEAN /\ signalled' \in BOOLEAN
        /\ calling' \in BOOLEAN /\ aborted' \in BOOLEAN
    BY Zenon DEF IInv, TypeInv
  <2>. QED
    BY <2>1 DEF IInv, TypeInv, Phases
<1>3. CallInv'
  BY DEF IInv, CallInv, Now
<1>4. GuardInv'
  BY DEF IInv, GuardInv, AllAsked, Passed, CallsOf, Calls
<1>5. LastFail(Now + 1, error)'
  BY DEF IInv, LastFail, Now
<1>6. \A j \in (Now + 1) .. Len(log') : FALSE
  BY <1>1
<1>7. RecoverInv'
  BY <1>1, <1>6, RecoveredKept DEF IInv
<1>. QED
  BY <1>2, <1>3, <1>4, <1>5, <1>7 DEF IInv

LEMMA UnrecoveredKeeps == ASSUME IInv, Unrecovered PROVE IInv'
<1>1. /\ phase = "recover" /\ phase' = "delay" /\ ~calling
      /\ result' = Exception(error, log[failed].plugin)
      /\ UNCHANGED <<guards, handlers, static, signalled, index, failed, ctx,
                     error, response, log, calling, aborted, outcome>>
  BY DEF Unrecovered, config, values
<1>2. LastWork(failed)
  <2>1. failed \in Calls /\ Len(log) \in Nat
    BY <1>1 DEF IInv, TypeInv, RecoverInv, Calls
  <2>2. \A j \in Calls : j > failed => j \in (failed + 1) .. Now
    BY <2>1 DEF Calls, Now
  <2>. QED
    BY <1>1, <2>1, <2>2 DEF LastWork, IInv, RecoverInv, Offered
<1>3. ResultInv'
  <2>1. outcome'.kind # "exception"
    BY <1>1 DEF IInv, ResultInv
  <2>2. result'.of = error' /\ result'.blame = log'[failed].plugin
    BY <1>1 DEF Exception
  <2>3. failed \in Calls' /\ LastWork(failed)'
    BY <1>1, <1>2 DEF LastWork, Calls
  <2>. QED
    BY <1>1, <2>1, <2>2, <2>3 DEF ResultInv
<1>. QED
  BY <1>1, <1>3, EndKeeps

LEMMA ProcessDoneKeeps == ASSUME IInv, ProcessDone PROVE IInv'
<1>1. /\ phase = "process" /\ phase' = "parse" /\ ~calling
      /\ UNCHANGED <<guards, handlers, static, signalled, index, failed, ctx,
                     error, response, log, calling, aborted, outcome, result>>
  BY DEF ProcessDone, config, values
<1>. QED
  BY <1>1, EndKeeps, Unsettled DEF IInv

LEMMA ParseResponseKeeps == ASSUME IInv, ParseResponse, ~calling PROVE IInv'
<1>1. /\ phase = "parse" /\ phase' = "delay" /\ result' = Response(response)
      /\ UNCHANGED <<guards, handlers, static, signalled, index, failed, ctx,
                     error, response, log, calling, aborted, outcome>>
  BY DEF ParseResponse, config, values
<1>2. ResultInv'
  BY <1>1 DEF IInv, ResultInv, Response
<1>. QED
  BY <1>1, <1>2, EndKeeps

LEMMA ParseFailsKeeps == ASSUME IInv, ParseFails, ~calling PROVE IInv'
<1>1. /\ phase = "parse" /\ phase' = "delay"
      /\ log' = Append(log, Entry("parse", 0, "fail"))
      /\ error' = Now + 1 /\ result' = Exception(Now + 1, 0)
      /\ UNCHANGED <<guards, handlers, static, signalled, index, failed, ctx,
                     response, calling, aborted, outcome>>
  BY DEF ParseFails, config
<1>2. log' \in Seq(Call) /\ Grown("parse", 0, "fail")
  BY <1>1, Grows, NAssumption DEF IInv, Hooks, Outcomes
<1>3. PICK n : n = Now + 1
  OBVIOUS
<1>4. /\ n \in Nat /\ Now \in Nat /\ Len(log') = n /\ Now' = n /\ Calls = 1 .. Now
      /\ log'[n].hook = "parse" /\ log'[n].plugin = 0 /\ log'[n].did = "fail"
      /\ Keeps /\ \A j \in (Now + 1) .. Len(log') : j = n
  BY <1>2, <1>3 DEF IInv, TypeInv, Now, Grown, Keeps, Entry, Calls
<1>5. TypeInv'
  <2>1. /\ static' \in BOOLEAN /\ signalled' \in BOOLEAN
        /\ calling' \in BOOLEAN /\ aborted' \in BOOLEAN
    BY <1>1, Zenon DEF IInv, TypeInv
  <2>2. failed' \in 0 .. Len(log')
    BY <1>1, <1>3, <1>4 DEF IInv, TypeInv, Now
  <2>. QED
    BY <1>1, <1>2, <1>3, <1>4, <2>1, <2>2 DEF IInv, TypeInv, Phases
<1>6. CallInv'
  BY <1>1 DEF CallInv
<1>7. GuardInv'
  BY <1>1, <1>4, GuardsKept DEF IInv
<1>8. LastFail(Now + 1, error)'
  BY <1>1, <1>3, <1>4 DEF LastFail
<1>9. RecoverInv'
  BY <1>1, <1>4, RecoveredKept DEF IInv
<1>10. ResultInv'
  <2>1. outcome'.kind # "exception"
    BY <1>1 DEF IInv, ResultInv
  <2>2. result'.of = error' /\ result'.blame = log'[n].plugin
    BY <1>1, <1>3, <1>4 DEF Exception
  <2>3. n \in Calls' /\ LastWork(n)'
    BY <1>3, <1>4 DEF LastWork, Calls
  <2>. QED
    BY <1>1, <2>1, <2>2, <2>3 DEF ResultInv
<1>. QED
  BY <1>5, <1>6, <1>7, <1>8, <1>9, <1>10 DEF IInv

LEMMA FinishKeeps == ASSUME IInv, Finish PROVE IInv'
<1>1. /\ phase = "delay" /\ phase' = "settled" /\ outcome' = result
      /\ UNCHANGED <<guards, handlers, static, signalled, index, failed, ctx,
                     error, response, log, calling, aborted, result>>
  BY DEF Finish, config, values
<1>2. ResultInv'
  BY <1>1 DEF IInv, ResultInv, LastWork, Calls
<1>. QED
  BY <1>1, <1>2, EndKeeps

LEMMA AbortRejectsKeeps == ASSUME IInv, AbortRejects PROVE IInv'
<1>1. /\ phase # "settled" /\ phase' = "settled" /\ outcome' = Aborted
      /\ UNCHANGED <<guards, handlers, static, signalled, index, failed, ctx,
                     error, response, log, calling, aborted, result>>
  BY DEF AbortRejects, config, values
<1>2. ResultInv'
  <2>1. result.kind = "exception" => phase = "delay"
    BY <1>1 DEF IInv, ResultInv, NoResult
  <2>. QED
    BY <1>1, <2>1 DEF IInv, ResultInv, LastWork, Calls, Aborted
<1>. QED
  BY <1>1, <1>2, EndKeeps

\* An abort, and a hook that settles when nobody listens.
LEMMA LateKeeps ==
    ASSUME IInv, aborted' \in BOOLEAN, calling' \in BOOLEAN,
           calling' => calling, calling' # calling => phase = "settled",
           UNCHANGED <<guards, handlers, static, signalled, phase, index, failed,
                       ctx, error, response, log, result, outcome>>
    PROVE  IInv'
<1>1. TypeInv'
  <2>1. static' \in BOOLEAN /\ signalled' \in BOOLEAN
    BY Zenon DEF IInv, TypeInv
  <2>. QED
    BY <2>1 DEF IInv, TypeInv
<1>2. CallInv'
  BY DEF IInv, CallInv, Now
<1>3. GuardInv'
  <2>1. CASE calling' = calling
    BY <2>1 DEF IInv, GuardInv, AllAsked, Passed, CallsOf, Calls, Now
  <2>2. CASE phase = "settled"
    BY <2>2 DEF IInv, GuardInv, AllAsked, Passed, CallsOf, Calls, Now
  <2>. QED
    BY <2>1, <2>2
<1>4. LastFail(Now + 1, error)'
  BY DEF IInv, LastFail, Now
<1>5. RecoverInv'
  <2>1. Now' = Now /\ Calls' = Calls /\ CallsOf("onError")' = CallsOf("onError")
    BY DEF Now, Calls, CallsOf
  <2>2. Offered(Now, index)' <=> Offered(Now, index)
    BY <2>1 DEF Offered
  <2>3. ASSUME NEW k \in CallsOf("onError"), HandlerInv(k) PROVE HandlerInv(k)'
    <3>1. Offered(k, log[k].plugin)'
      BY <2>3 DEF HandlerInv, Offered
    <3>2. LastFail(k, log[k].error)'
      BY <2>3 DEF HandlerInv, LastFail
    <3>. QED
      BY <2>1, <2>3, <3>1, <3>2 DEF HandlerInv
  <2>4. \A k \in CallsOf("onError") : HandlerInv(k)
    BY DEF IInv, RecoverInv
  <2>5. \A k \in CallsOf("onError")' : HandlerInv(k)'
    BY <2>1, <2>3, <2>4
  <2>. QED
    BY <2>1, <2>2, <2>5 DEF IInv, RecoverInv
<1>6. ResultInv'
  BY DEF IInv, ResultInv, LastWork, Calls
<1>. QED
  BY <1>1, <1>2, <1>3, <1>4, <1>5, <1>6 DEF IInv

-----------------------------------------------------------------------------
(* The theorems. *)

LEMMA InitHolds == Init => IInv
<1>. SUFFICES ASSUME Init PROVE IInv
  OBVIOUS
<1>1. Len(log) = 0 /\ Now = 0 /\ Calls = {} /\ \A hook : CallsOf(hook) = {}
  BY DEF Init, Now, Calls, CallsOf
<1>2. TypeInv
  <2>1. /\ static \in BOOLEAN /\ signalled \in BOOLEAN
        /\ calling \in BOOLEAN /\ aborted \in BOOLEAN
    BY Zenon DEF Init
  <2>2. guards \subseteq Plugins /\ handlers \subseteq Plugins /\ log \in Seq(Call)
    BY EmptySeq DEF Init
  <2>. QED
    BY <1>1, <2>1, <2>2, NAssumption DEF Init, TypeInv, Phases
<1>3. CallInv
  BY DEF Init, CallInv
<1>4. GuardInv
  <2>1. \A g \in guards : ~(g <= index)
    BY NAssumption DEF Init, Plugins
  <2>. QED
    BY <1>1, <2>1 DEF Init, GuardInv
<1>5. LastFail(Now + 1, error)
  BY <1>1 DEF Init, LastFail
<1>6. RecoverInv
  BY <1>1 DEF Init, RecoverInv
<1>7. ResultInv
  BY DEF Init, ResultInv, NoResult
<1>. QED
  BY <1>2, <1>3, <1>4, <1>5, <1>6, <1>7 DEF IInv

LEMMA MockStepKeeps == ASSUME IInv, MockStep PROVE IInv'
<1>1. phase = "parse" => ~calling
  BY DEF IInv, CallInv, HookOf
<1>. QED
  BY <1>1, CallGuardKeeps, GuardsDoneKeeps, GenerateStaticKeeps, CallGeneratorKeeps,
     CallProcessKeeps, ProcessDoneKeeps, CallHandlerKeeps, UnrecoveredKeeps,
     ParseResponseKeeps, ParseFailsKeeps, FinishKeeps, AbortRejectsKeeps
  DEF MockStep, ParseResponse, ParseFails

LEMMA UserStepKeeps == ASSUME IInv, UserStep PROVE IInv'
<1>1. ASSUME LateSettle PROVE IInv'
  <2>1. /\ phase = "settled" /\ calling' = FALSE
        /\ UNCHANGED <<guards, handlers, static, signalled, phase, index, failed,
                       ctx, error, response, log, result, outcome, aborted>>
    BY <1>1 DEF LateSettle, config, values
  <2>2. aborted' \in BOOLEAN /\ calling' \in BOOLEAN
    BY <2>1, Zenon DEF IInv, TypeInv
  <2>. QED
    BY <2>1, <2>2, LateKeeps
<1>. QED
  BY <1>1, GuardPassesKeeps, GuardRespondsKeeps, GuardFailsKeeps, GeneratorReturnsKeeps,
     GeneratorFailsKeeps, ProcessReturnsKeeps, ProcessFailsKeeps, HandlerPassesKeeps,
     HandlerRespondsKeeps
  DEF UserStep

LEMMA NextKeeps == ASSUME IInv, [Next]_vars PROVE IInv'
<1>1. ASSUME Abort \/ UNCHANGED vars PROVE IInv'
  <2>1. /\ aborted' = TRUE \/ aborted' = aborted
        /\ UNCHANGED <<guards, handlers, static, signalled, phase, index, failed,
                       ctx, error, response, log, result, outcome, calling>>
    BY <1>1 DEF Abort, vars, config, values
  <2>2. aborted' \in BOOLEAN /\ calling' \in BOOLEAN
    BY <2>1, Zenon DEF IInv, TypeInv
  <2>. QED
    BY <2>1, <2>2, LateKeeps
<1>. QED
  BY <1>1, MockStepKeeps, UserStepKeeps DEF Next

\* What the loops know of the log, throughout.
THEOREM Invariance == Spec => []IInv
<1>. QED
  BY InitHolds, NextKeeps, PTL DEF Spec

LEMMA InOrder == ASSUME IInv PROVE HooksInOrder
<1>1. TypeInv /\ GuardInv /\ RecoverInv /\ ResultInv /\ LastFail(Now + 1, error)
  BY DEF IInv
<1>2. Now \in Nat /\ Calls = 1 .. Now
  BY DEF IInv, TypeInv, Now, Calls
<1>3. ASSUME NEW k \in CallsOf("generate")
      PROVE  /\ {log[j].plugin : j \in CallsOf("guard")} = guards
             /\ \A j \in CallsOf("guard") :
                   /\ j < k /\ log[j].did \in {"pass", "context"}
                   /\ \A i \in CallsOf("guard") : i < j => log[i].plugin < log[j].plugin
  <2>1. AllAsked /\ \A j \in CallsOf("guard") : log[j].plugin \in guards
    BY <1>1 DEF GuardInv
  <2>2. {log[j].plugin : j \in CallsOf("guard")} = guards
    BY <2>1 DEF AllAsked
  <2>. QED
    BY <1>1, <2>2 DEF GuardInv, Passed
<1>4. ASSUME NEW k \in CallsOf("onError")
      PROVE  LET f == Max({j \in Calls : j < k /\ log[j].hook # "onError"}) IN
             /\ {log[j].plugin : j \in (f + 1) .. k} =
                    {h \in handlers : log[f].plugin <= h /\ h <= log[k].plugin}
             /\ \A j \in Calls : j > k => log[j].hook \in {"onError", "parse"}
             /\ log[k].error = LastBefore(k, {"fail"})
  <2>1. HandlerInv(k) /\ log[failed].hook # "onError" /\ k \in 1 .. Now
    BY <1>1, <1>2 DEF RecoverInv, HandlerInv, CallsOf
  <2>2. failed \in 1 .. Now /\ failed < k
    BY <1>1, <2>1 DEF TypeInv, HandlerInv, Now
  <2>3. Max({j \in Calls : j < k /\ log[j].hook # "onError"}) = failed
    <3> DEFINE S == {j \in Calls : j < k /\ log[j].hook # "onError"}
    <3>1. failed \in S /\ S \in SUBSET Nat
      BY <1>2, <2>1, <2>2
    <3>2. \A y \in S : y <= failed
      <4>1. \A y \in Calls : y < k /\ y > failed => y \in (failed + 1) .. k
        BY <1>2, <2>1, <2>2
      <4>. QED
        BY <1>2, <2>1, <2>2, <4>1 DEF HandlerInv, Offered
    <3>. QED
      BY <3>1, <3>2, MaxIs
  <2>4. {log[j].plugin : j \in (failed + 1) .. k} =
            {h \in handlers : log[failed].plugin <= h /\ h <= log[k].plugin}
    BY <2>1 DEF HandlerInv, Offered
  <2>5. LastBefore(k, {"fail"}) = log[k].error
    <3>1. k \in 1 .. (Now + 1)
      BY <1>2, <2>1
    <3>. QED
      BY <1>1, <2>1, <3>1, LastBeforeIs DEF HandlerInv
  <2>. QED
    BY <2>1, <2>3, <2>4, <2>5 DEF HandlerInv
<1>5. ASSUME outcome.kind = "exception"
      PROVE  /\ outcome.of = LastBefore(Len(log) + 1, {"fail"})
             /\ outcome.blame =
                   log[Max({k \in Calls : log[k].hook # "onError"})].plugin
  <2>1. outcome = result /\ result.of = error
    BY <1>1, <1>5 DEF ResultInv
  <2>2. PICK b \in Calls : LastWork(b) /\ result.blame = log[b].plugin
    BY <1>1, <1>5 DEF ResultInv
  <2>3. Max({k \in Calls : log[k].hook # "onError"}) = b
    BY <1>1, <2>2, LastWorkIs
  <2>4. Now + 1 \in 1 .. (Now + 1)
    BY <1>2
  <2>5. LastBefore(Now + 1, {"fail"}) = error
    BY <1>1, <2>4, LastBeforeIs
  <2>. QED
    BY <2>1, <2>2, <2>3, <2>5 DEF Now
<1>. QED
  BY <1>3, <1>4, <1>5 DEF HooksInOrder

\* packages/core/src/plugin-pipeline.ts, for any number of plugins and any choice
\* of hooks, whatever they do and whenever the caller aborts: guards come before
\* the generator, a failure goes to the handlers from its own plugin on, each
\* told of the latest error, and nothing else is called after a recovery.
THEOREM HooksAreInOrder == Spec => []HooksInOrder
<1>. QED
  BY Invariance, InOrder, PTL
=============================================================================
