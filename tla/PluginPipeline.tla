--------------------------- MODULE PluginPipeline ---------------------------
(***************************************************************************)
(* One matched request on its way through the plugins and the route        *)
(* generator (packages/core/src/plugin-pipeline.ts and the part of         *)
(* #handleAdmittedRequest in builder.ts that calls it).                    *)
(*                                                                         *)
(* Hooks and the generator are user code: each call of one is a step that  *)
(* starts it and, when it settles, a step that takes its result.  The      *)
(* caller may abort in between, and then the request does not wait for the *)
(* hook any more (awaitWithAbort, abort.ts).                               *)
(*                                                                         *)
(* `log' is every call in order.  A value the pipeline carries, whether    *)
(* context, error or response, is named by the position in `log' of the    *)
(* call that produced it; 0 is the one the request started with, or none.  *)
(* MockLifecycle's HooksSettle is this whole module in one step.           *)
(***************************************************************************)
EXTENDS Naturals, Sequences, SequencesExt, FiniteSetsExt

CONSTANT N          \* number of plugins the request was admitted with

ASSUME NAssumption == N \in Nat

Plugins == 1 .. N

\* What a call did: it returned nothing ("pass"), a context without a response
\* ("context"), a response ("respond"), or it failed ("fail": it threw,
\* rejected, returned something that is not a plugin result, or - an onError
\* hook - returned an Error).
Outcomes == {"pass", "context", "respond", "fail"}
Hooks == {"guard", "generate", "process", "onError", "parse"}
Call == [hook : Hooks, plugin : 0 .. N, ctx : Nat, error : Nat,
         did : Outcomes \cup {"pending"}]

Phases == {"guard", "generate", "process", "recover", "parse", "delay",
           "settled"}

\* What handle() is about to give back, and what it gave.
NoResult == [kind |-> "none", of |-> 0, blame |-> 0]
Aborted == [kind |-> "aborted", of |-> 0, blame |-> 0]
Response(n) == [kind |-> "response", of |-> n, blame |-> 0]
Exception(n, plugin) == [kind |-> "exception", of |-> n, blame |-> plugin]

VARIABLES
    guards,        \* the plugins with a beforeRequest hook
    handlers,      \* the plugins with an onError hook
    static,        \* the route's generator is a value and not a function
    signalled,     \* the request carries an abort signal
    phase, index,  \* the loop that runs, and its position
    failed,        \* the call the running recovery is about
    ctx, error, response,
    log,
    calling,       \* user code of the last call in log has not settled
    aborted,
    result, outcome

config == <<guards, handlers, static, signalled>>
values == <<ctx, error, response>>
vars == <<config, phase, index, failed, values, log, calling, aborted,
          result, outcome>>

Init ==
    /\ guards \in SUBSET Plugins /\ handlers \in SUBSET Plugins
    /\ static \in BOOLEAN /\ signalled \in BOOLEAN
    /\ phase = "guard" /\ index = 0 /\ failed = 0
    /\ ctx = 0 /\ error = 0 /\ response = 0
    /\ log = <<>> /\ calling = FALSE /\ aborted = FALSE
    /\ result = NoResult /\ outcome = NoResult

-----------------------------------------------------------------------------
(* Calls. *)

Now == Len(log)
Entry(hook, p, did) ==
    [hook |-> hook, plugin |-> p, ctx |-> ctx, error |-> error, did |-> did]

\* User code of plugin p (0: the generator) is called, if nobody aborted.
Invoke(hook, p) ==
    /\ ~calling /\ ~aborted
    /\ calling' = TRUE
    /\ index' = p
    /\ log' = Append(log, Entry(hook, p, "pending"))
    /\ UNCHANGED <<config, phase, failed, values, aborted, result, outcome>>

\* The user code the pipeline waits for settled, and nobody aborted.
Took(did) ==
    /\ calling /\ ~aborted
    /\ calling' = FALSE
    /\ log' = [log EXCEPT ![Now].did = did]
    /\ UNCHANGED <<config, aborted, outcome>>

\* The plugins of S the loop has yet to come to.
Left(S) == {p \in S : p > index}

\* The context of a result replaces the current one.
NewContext == Now

\* Mutant: a plugin's own handler is passed over.
FirstHandlerBelow == index

\* Where the recovery from a failure of the last call starts: at the plugin
\* itself, so one before it, or at the first one for the generator.
FirstHandler == IF index = 0 THEN 0 ELSE index - 1

\* The last call failed, and the plugins from its own on may handle it.
Fail ==
    /\ Took("fail")
    /\ error' = Now
    /\ failed' = Now
    /\ index' = FirstHandler
    /\ phase' = "recover"
    /\ UNCHANGED <<ctx, response, result>>

-----------------------------------------------------------------------------
(* runPluginBeforeRequest *)

CallGuard ==
    /\ phase = "guard" /\ Left(guards) # {}
    /\ Invoke("guard", Min(Left(guards)))

GuardPasses ==
    /\ phase = "guard"
    /\ \/ Took("pass") /\ UNCHANGED ctx
       \/ Took("context") /\ ctx' = NewContext
    /\ UNCHANGED <<phase, index, failed, error, response, result>>

\* Mutant: the generator runs although a guard responded.
GuardRespondsAnyway ==
    /\ phase = "guard"
    /\ Took("respond")
    /\ ctx' = NewContext
    /\ response' = Now
    /\ phase' = "generate"
    /\ UNCHANGED <<index, failed, error, result>>

\* A response skips the guards that are left, and the generator.
GuardResponds ==
    /\ phase = "guard"
    /\ Took("respond")
    /\ ctx' = NewContext
    /\ response' = Now
    /\ phase' = "process"
    /\ index' = 0
    /\ UNCHANGED <<failed, error, result>>

GuardFails == phase = "guard" /\ Fail

GuardsDone ==
    /\ phase = "guard" /\ Left(guards) = {}
    /\ ~calling /\ ~aborted
    /\ phase' = "generate"
    /\ UNCHANGED <<config, index, failed, values, log, calling, aborted,
                   result, outcome>>

-----------------------------------------------------------------------------
(* The route generator. *)

\* A value that is no function is the response as it stands.
GenerateStatic ==
    /\ phase = "generate" /\ static
    /\ ~calling /\ ~aborted
    /\ log' = Append(log, Entry("generate", 0, "respond"))
    /\ response' = Now + 1
    /\ phase' = "process"
    /\ index' = 0
    /\ UNCHANGED <<config, failed, ctx, error, calling, aborted, result,
                   outcome>>

CallGenerator ==
    /\ phase = "generate" /\ ~static
    /\ Invoke("generate", 0)

GeneratorReturns ==
    /\ phase = "generate"
    /\ \/ Took("pass") /\ UNCHANGED response
       \/ Took("respond") /\ response' = Now
    /\ phase' = "process"
    /\ index' = 0
    /\ UNCHANGED <<failed, ctx, error, result>>

GeneratorFails == phase = "generate" /\ Fail

-----------------------------------------------------------------------------
(* runPluginPipeline *)

CallProcess ==
    /\ phase = "process" /\ Left(Plugins) # {}
    /\ Invoke("process", Min(Left(Plugins)))

\* A later response replaces an earlier one.
NewResponse == Now

ProcessReturns ==
    /\ phase = "process"
    /\ \/ Took("context") /\ UNCHANGED response
       \/ Took("respond") /\ response' = NewResponse
    /\ ctx' = NewContext
    /\ UNCHANGED <<phase, index, failed, error, result>>

ProcessFails == phase = "process" /\ Fail

ProcessDone ==
    /\ phase = "process" /\ Left(Plugins) = {}
    /\ ~calling /\ ~aborted
    /\ phase' = "parse"
    /\ UNCHANGED <<config, index, failed, values, log, calling, aborted,
                   result, outcome>>

-----------------------------------------------------------------------------
(* recoverPluginError *)

CallHandler ==
    /\ phase = "recover" /\ Left(handlers) # {}
    /\ Invoke("onError", Min(Left(handlers)))

\* Mutant: what a handler throws is dropped.
HandlerRaisesNothing == UNCHANGED error

\* An Error a handler returns or throws takes the place of the current one.
HandlerRaises == error' = Now

HandlerPasses ==
    /\ phase = "recover"
    /\ \/ Took("pass") /\ UNCHANGED error
       \/ Took("fail") /\ HandlerRaises
    /\ UNCHANGED <<phase, index, failed, ctx, response, result>>

\* A handler's response skips everything that is left.
HandlerResponds ==
    /\ phase = "recover"
    /\ Took("respond")
    /\ response' = Now
    /\ phase' = "parse"
    /\ UNCHANGED <<index, failed, ctx, error, result>>

\* Nobody handled it: a PluginError that names the plugin whose hook failed,
\* or the generator's error itself.
Unrecovered ==
    /\ phase = "recover" /\ Left(handlers) = {}
    /\ ~calling /\ ~aborted
    /\ result' = Exception(error, log[failed].plugin)
    /\ phase' = "delay"
    /\ UNCHANGED <<config, index, failed, values, log, calling, aborted,
                   outcome>>

-----------------------------------------------------------------------------
(* The response, and the end. *)

ParseResponse ==
    /\ phase = "parse" /\ ~aborted
    /\ result' = Response(response)
    /\ phase' = "delay"
    /\ UNCHANGED <<config, index, failed, values, log, calling, aborted,
                   outcome>>

\* A response that is not well formed becomes an exception of its own.
ParseFails ==
    /\ phase = "parse" /\ ~aborted
    /\ log' = Append(log, Entry("parse", 0, "fail"))
    /\ error' = Now + 1
    /\ result' = Exception(Now + 1, 0)
    /\ phase' = "delay"
    /\ UNCHANGED <<config, index, failed, ctx, response, calling, aborted,
                   outcome>>

\* Mutant: the signal is not looked at after the delay.
FinishUnchecked ==
    /\ phase = "delay"
    /\ outcome' = result
    /\ phase' = "settled"
    /\ UNCHANGED <<config, index, failed, values, log, calling, aborted,
                   result>>

\* #finalizeMatchedRequest(), and handle() settles.
Finish ==
    /\ phase = "delay" /\ ~aborted
    /\ outcome' = result
    /\ phase' = "settled"
    /\ UNCHANGED <<config, index, failed, values, log, calling, aborted,
                   result>>

\* Mutant: an aborted request waits for the hook that runs.
AbortAfterCall ==
    /\ aborted /\ phase # "settled" /\ ~calling
    /\ outcome' = Aborted
    /\ phase' = "settled"
    /\ UNCHANGED <<config, index, failed, values, log, calling, aborted,
                   result>>

\* handle() rejects with the reason of the abort, wherever it was.
AbortRejects ==
    /\ aborted /\ phase # "settled"
    /\ outcome' = Aborted
    /\ phase' = "settled"
    /\ UNCHANGED <<config, index, failed, values, log, calling, aborted,
                   result>>

Abort ==
    /\ signalled /\ ~aborted /\ phase # "settled"
    /\ aborted' = TRUE
    /\ UNCHANGED <<config, phase, index, failed, values, log, calling, result,
                   outcome>>

\* A hook that was abandoned comes to its end, and nobody listens.
LateSettle ==
    /\ calling /\ phase = "settled"
    /\ calling' = FALSE
    /\ UNCHANGED <<config, phase, index, failed, values, log, aborted, result,
                   outcome>>

-----------------------------------------------------------------------------

\* What the mock does by itself.
MockStep ==
    \/ CallGuard \/ GuardsDone \/ GenerateStatic \/ CallGenerator
    \/ CallProcess \/ ProcessDone \/ CallHandler \/ Unrecovered
    \/ ParseResponse \/ ParseFails \/ Finish \/ AbortRejects

\* What the user code it called does.
UserStep ==
    \/ GuardPasses \/ GuardResponds \/ GuardFails
    \/ GeneratorReturns \/ GeneratorFails
    \/ ProcessReturns \/ ProcessFails
    \/ HandlerPasses \/ HandlerResponds
    \/ LateSettle

Next == MockStep \/ UserStep \/ Abort

Spec == Init /\ [][Next]_vars

\* The event loop runs the mock's continuations.  Nothing is assumed of user
\* code: a hook or a generator may never settle.
FairSpec == Spec /\ WF_vars(MockStep)

-----------------------------------------------------------------------------
(* Properties. *)

Calls == 1 .. Len(log)
CallsOf(hook) == {k \in Calls : log[k].hook = hook}

\* The last call before k that did one of `dids'; 0 if none did.
LastBefore(k, dids) == Max({0} \cup {j \in Calls : j < k /\ log[j].did \in dids})

\* "Run request guards before route code is allowed to execute"
\* (plugin-pipeline.ts 81): when the generator runs, every guard was called,
\* once and in order, and none of them responded or failed.
\* A failure is offered to the plugin's own handler first and then downstream,
\* in registration order, each handler once; a failure of the generator to all
\* of them (docs/plugins.md 156-158).  A request recovers at most once: after
\* that no guard, generator or processor runs (builder.ts 1253-1257).  A
\* handler is told of the latest error, whoever raised it, and so is the
\* caller; the plugin the caller is told of is the one whose own hook failed,
\* not the last handler (plugin-pipeline.ts 43-78, 138, 244).
HooksInOrder ==
    /\ \A k \in CallsOf("generate") :
          /\ {log[j].plugin : j \in CallsOf("guard")} = guards
          /\ \A j \in CallsOf("guard") :
                /\ j < k /\ log[j].did \in {"pass", "context"}
                /\ \A i \in CallsOf("guard") : i < j => log[i].plugin < log[j].plugin
    /\ \A k \in CallsOf("onError") :
          LET f == Max({j \in Calls : j < k /\ log[j].hook # "onError"}) IN
          /\ {log[j].plugin : j \in (f + 1) .. k} =
                 {h \in handlers : log[f].plugin <= h /\ h <= log[k].plugin}
          /\ \A j \in Calls : j > k => log[j].hook \in {"onError", "parse"}
          /\ log[k].error = LastBefore(k, {"fail"})
    /\ outcome.kind = "exception" =>
          /\ outcome.of = LastBefore(Len(log) + 1, {"fail"})
          /\ outcome.blame =
                log[Max({k \in Calls : log[k].hook # "onError"})].plugin

\* After an abort no user code is called, and the request settles with the
\* abort and nothing else, even when the hook it waits for never does.
AbortSettles ==
    /\ [][ aborted => Len(log') = Len(log)
                      /\ (outcome' # outcome => outcome' = Aborted) ]_vars
    /\ aborted ~> phase = "settled"

=============================================================================
