------------------------- MODULE HttpAdaptersProofs -------------------------
(***************************************************************************)
(* What HttpAdapters promises of an exchange, for every body limit and     *)
(* every pair of timers, and of a message, for all the characters, sites,  *)
(* messages and replies there may be.                                      *)
(*                                                                         *)
(* An adapter disposes of the request in the step with which its handler   *)
(* ends, lingers, or gives the request to the rest of the chain; before    *)
(* that nothing was said, and after it nothing but the two timers and the  *)
(* hooks that were abandoned go on (IInv).                                 *)
(*                                                                         *)
(* A message is on its way, each stage with what the one before has made   *)
(* of it (WireInv).  Core compares spellings, and what a message means is  *)
(* said of texts: Spell gives the one spelling of a text that core has     *)
(* after canonicalizePath(), and cutting, trimming and comparing are the   *)
(* same on either side of it.                                              *)
(***************************************************************************)
EXTENDS HttpAdapters, WellFoundedInduction, TLAPS

Disposals == {<<"response">>, <<"left">>, <<"next">>, <<"next(error)">>, <<"error">>,
              <<"destroyed">>}

AllOutcomes == [exception : BOOLEAN, status500 : BOOLEAN]

\* The stages of each handler, and the options that some adapters have.
StageInv ==
    /\ adapter \in {"server", "cli", "express", "angular", "none"}
    /\ "admin" \in opts => adapter = "cli"
    /\ "errorFormatter" \in opts => adapter \in {"express", "angular"}
    /\ adapter = "none" => pc = "idle"
    /\ OnNode => pc \in {"idle", "collecting", "handling", "lingering", "done"}
    /\ adapter = "express" => pc \in {"idle", "before", "handling", "after", "done"}
    /\ adapter = "angular" => pc \in {"idle", "handling", "inner", "done"}

TypeInv ==
    /\ answers \in {<<>>} \cup Disposals
    /\ head \in {"nobody", "hook", "adapter"}
    /\ outcome \in AllOutcomes
    /\ formatted \in {0, 1}
    /\ request \in Requests

\* Nothing is said before the handler disposes of the request, and something is
\* unless the caller left.
SaidInv ==
    /\ pc \notin {"inner", "lingering", "done"} => answers = <<>>
    /\ pc = "inner" => answers = <<"next">>
    /\ pc = "lingering" => answers = <<"response">>
    /\ pc = "done" /\ ~aborted => answers # <<>>
    /\ pc = "idle" => ~aborted

\* A response is the adapter's if it says so, and not if a hook began it.
HeadInv ==
    /\ head = "adapter" => answers = <<"response">>
    /\ adapter # "angular" /\ answers = <<"response">> => head = "adapter"
    /\ head = "hook" => /\ adapter = "express"
                        /\ pc \in {"before", "after", "done"}
                        /\ answers \in {<<>>, <<"left">>, <<"next(error)">>}

\* A hook is on its way, or it was abandoned when the caller left.
HookInv ==
    hook => /\ adapter = "express"
            /\ \/ pc \in {"before", "after"}
               \/ pc = "done" /\ aborted /\ answers = <<>>

\* The formatter is called in the last step, for an exception, and there is none
\* before the mock answered.
FormattedInv ==
    /\ pc # "done" => formatted = 0
    /\ formatted = 1 => outcome.exception /\ outcome.status500
    /\ OnNode \/ pc \in {"idle", "before", "handling"} => ~outcome.exception
    /\ /\ "errorFormatter" \in opts /\ pc = "done"
       /\ outcome.exception /\ outcome.status500
       /\ answers \in {<<"response">>, <<"error">>}
       => formatted = 1

\* The timers of the lingering end count down what quiet and lingered count up.
LingerInv ==
    /\ idleTimer \in Nat /\ graceTimer \in Nat /\ quiet \in Nat /\ lingered \in Nat
    /\ quiet <= Idle /\ lingered <= Grace
    /\ pc = "lingering" => /\ idleTimer + quiet = Idle
                           /\ graceTimer + lingered = Grace
                           /\ ~ended
    /\ OnNode /\ pc # "done" => ~ended
    /\ status = 413 => pc \in {"lingering", "done"}
    /\ status = 413 /\ pc = "done" /\ client = "sending" => quiet = Idle \/ lingered = Grace

\* A request for the admin surface never comes to a body or to the mock.
AdminInv ==
    /\ AdminStaysPrivate
    /\ OnNode /\ pc \in {"collecting", "handling"} => ~IsAdmin

IInv ==
    /\ StageInv /\ TypeInv /\ SaidInv /\ HeadInv
    /\ HookInv /\ FormattedInv /\ LingerInv /\ AdminInv

-----------------------------------------------------------------------------
(* Lemmas. *)

\* Nothing was said, written or formatted while a handler is at work; only on
\* Express a hook may have written.
LEMMA NothingYet ==
    ASSUME IInv, pc \notin {"inner", "lingering", "done"}
    PROVE  /\ answers = <<>> /\ head # "adapter" /\ formatted = 0
           /\ adapter # "express" => head = "nobody" /\ ~hook
BY DEF IInv, TypeInv, SaidInv, HeadInv, HookInv, FormattedInv

\* A hook or a transform may change the status of a response, not its mark.
LEMMA OutcomeFacts ==
    /\ Exception \in AllOutcomes /\ Exception.exception /\ Exception.status500
    /\ \A o \in Outcomes : o \in AllOutcomes
    /\ \A o \in AllOutcomes, b \in BOOLEAN :
          /\ [o EXCEPT !.status500 = b] \in AllOutcomes
          /\ [o EXCEPT !.status500 = b].exception = o.exception
          /\ [o EXCEPT !.status500 = b].status500 = b
BY DEF Exception, AllOutcomes, Outcomes

\* The admin surface is an option of the CLI, a formatter one of two adapters.
LEMMA OptionsBelong ==
    ASSUME NEW name \in {"server", "cli", "express", "angular", "none"},
           NEW options \in OptionsOf(name)
    PROVE  /\ "admin" \in options => name = "cli"
           /\ "errorFormatter" \in options => name \in {"express", "angular"}
BY DEF OptionsOf, ExpressOptions, AngularOptions

\* Initially nothing happened.
LEMMA InitHolds == ASSUME Init PROVE IInv
<1>1. PICK name \in {"server", "cli", "express", "angular", "none"} :
         \E options \in OptionsOf(name) : InitExchange(name, options)
  BY DEF Init
<1>2. PICK options \in OptionsOf(name) : InitExchange(name, options)
  BY <1>1
<1>3. /\ "admin" \in opts => adapter = "cli"
      /\ "errorFormatter" \in opts => adapter \in {"express", "angular"}
  BY <1>2, OptionsBelong DEF InitExchange
<1>4. StageInv /\ TypeInv
  BY <1>2, <1>3 DEF Init, InitExchange, InitTransport, StageInv, TypeInv, AllOutcomes, OnNode
<1>5. SaidInv /\ HeadInv /\ HookInv /\ FormattedInv
  BY <1>2 DEF Init, InitExchange, SaidInv, HeadInv, HookInv, FormattedInv
<1>6. LingerInv /\ AdminInv
  BY <1>2, TimersAssumption
     DEF Init, InitExchange, InitTransport, LingerInv, AdminInv, AdminStaysPrivate
<1>. QED
  BY <1>4, <1>5, <1>6 DEF IInv

LEMMA AcceptServerKeeps == ASSUME IInv, AcceptServer, UNCHANGED hook PROVE IInv'
<1>. USE DEF AcceptServer, Collect, Reject, RespondRejected, Respond, Destroy, Answer, Released, Goes, timers, served, nodeSide, OnNode, IInv
<1>0. /\ answers = <<>> /\ head # "adapter" /\ formatted = 0
      /\ adapter # "express" => head = "nobody" /\ ~hook
  BY NothingYet
<1>1. StageInv'
  BY DEF StageInv
<1>2. TypeInv'
  BY <1>0 DEF TypeInv, SaidInv, FormattedInv, Disposals
<1>3. SaidInv'
  BY <1>0 DEF TypeInv, SaidInv
<1>4. HeadInv'
  BY <1>0 DEF StageInv, TypeInv, SaidInv, HeadInv
<1>5. HookInv'
  BY <1>0 DEF StageInv, TypeInv, SaidInv, HookInv
<1>6. FormattedInv'
  BY <1>0 DEF StageInv, TypeInv, SaidInv, FormattedInv
<1>7. LingerInv'
  BY TimersAssumption DEF StageInv, TypeInv, LingerInv
<1>8. AdminInv'
  BY DEF StageInv, TypeInv, AdminInv, AdminStaysPrivate, IsAdmin, ErrorCors, CorsHeaders, RequestedAllowHeaders
<1>. QED
  BY <1>1, <1>2, <1>3, <1>4, <1>5, <1>6, <1>7, <1>8 DEF IInv

LEMMA AcceptCliKeeps == ASSUME IInv, AcceptCli, UNCHANGED hook PROVE IInv'
<1>. USE DEF AcceptCli, IsPreflight, Admin, Denied, Presented, Collect, Reject, RespondRejected, Respond, Destroy, Answer, Released, Goes, timers, served, nodeSide, OnNode, IInv
<1>0. /\ answers = <<>> /\ head # "adapter" /\ formatted = 0
      /\ adapter # "express" => head = "nobody" /\ ~hook
  BY NothingYet
<1>1. StageInv'
  BY DEF StageInv
<1>2. TypeInv'
  BY <1>0 DEF TypeInv, SaidInv, FormattedInv, Disposals
<1>3. SaidInv'
  BY <1>0 DEF TypeInv, SaidInv
<1>4. HeadInv'
  BY <1>0 DEF StageInv, TypeInv, SaidInv, HeadInv
<1>5. HookInv'
  BY <1>0 DEF StageInv, TypeInv, SaidInv, HookInv
<1>6. FormattedInv'
  BY <1>0 DEF StageInv, TypeInv, SaidInv, FormattedInv
<1>7. LingerInv'
  BY TimersAssumption DEF StageInv, TypeInv, LingerInv
<1>8. AdminInv'
  BY DEF StageInv, TypeInv, AdminInv, AdminStaysPrivate, IsAdmin, ErrorCors, CorsHeaders, RequestedAllowHeaders
<1>. QED
  BY <1>1, <1>2, <1>3, <1>4, <1>5, <1>6, <1>7, <1>8 DEF IInv

LEMMA DataKeeps == ASSUME IInv, Data, UNCHANGED hook PROVE IInv'
<1>. USE DEF Data, Collecting, Reject, RespondRejected, Respond, Destroy, Answer, Released, Goes, timers, served, nodeSide, OnNode, IInv
<1>0. /\ answers = <<>> /\ head # "adapter" /\ formatted = 0
      /\ adapter # "express" => head = "nobody" /\ ~hook
  BY NothingYet
<1>1. StageInv'
  BY DEF StageInv
<1>2. TypeInv'
  BY <1>0 DEF TypeInv, SaidInv, FormattedInv, Disposals
<1>3. SaidInv'
  BY <1>0 DEF TypeInv, SaidInv
<1>4. HeadInv'
  BY <1>0 DEF StageInv, TypeInv, SaidInv, HeadInv
<1>5. HookInv'
  BY <1>0 DEF StageInv, TypeInv, SaidInv, HookInv
<1>6. FormattedInv'
  BY <1>0 DEF StageInv, TypeInv, SaidInv, FormattedInv
<1>7. LingerInv'
  BY TimersAssumption DEF StageInv, TypeInv, LingerInv
<1>8. AdminInv'
  BY DEF StageInv, TypeInv, AdminInv, AdminStaysPrivate, IsAdmin, ErrorCors, CorsHeaders, RequestedAllowHeaders
<1>. QED
  BY <1>1, <1>2, <1>3, <1>4, <1>5, <1>6, <1>7, <1>8 DEF IInv

LEMMA EndKeeps == ASSUME IInv, End, UNCHANGED hook PROVE IInv'
<1>. USE DEF End, Collecting, Reject, RespondRejected, Respond, Destroy, Answer, Released, Goes, timers, served, nodeSide, OnNode, IInv
<1>0. /\ answers = <<>> /\ head # "adapter" /\ formatted = 0
      /\ adapter # "express" => head = "nobody" /\ ~hook
  BY NothingYet
<1>1. StageInv'
  BY DEF StageInv
<1>2. TypeInv'
  BY <1>0 DEF TypeInv, SaidInv, FormattedInv, Disposals
<1>3. SaidInv'
  BY <1>0 DEF TypeInv, SaidInv
<1>4. HeadInv'
  BY <1>0 DEF StageInv, TypeInv, SaidInv, HeadInv
<1>5. HookInv'
  BY <1>0 DEF StageInv, TypeInv, SaidInv, HookInv
<1>6. FormattedInv'
  BY <1>0 DEF StageInv, TypeInv, SaidInv, FormattedInv
<1>7. LingerInv'
  BY TimersAssumption DEF StageInv, TypeInv, LingerInv
<1>8. AdminInv'
  BY DEF StageInv, TypeInv, AdminInv, AdminStaysPrivate, IsAdmin, ErrorCors, CorsHeaders, RequestedAllowHeaders
<1>. QED
  BY <1>1, <1>2, <1>3, <1>4, <1>5, <1>6, <1>7, <1>8 DEF IInv

LEMMA HandleSettlesKeeps == ASSUME IInv, HandleSettles, UNCHANGED hook PROVE IInv'
<1>. USE DEF HandleSettles, Reject, RespondRejected, Respond, Destroy, Answer, Released, Goes, timers, served, nodeSide, OnNode, IInv
<1>0. /\ answers = <<>> /\ head # "adapter" /\ formatted = 0
      /\ adapter # "express" => head = "nobody" /\ ~hook
  BY NothingYet
<1>1. StageInv'
  BY DEF StageInv
<1>2. TypeInv'
  BY <1>0 DEF TypeInv, SaidInv, FormattedInv, Disposals
<1>3. SaidInv'
  BY <1>0 DEF TypeInv, SaidInv
<1>4. HeadInv'
  BY <1>0 DEF StageInv, TypeInv, SaidInv, HeadInv
<1>5. HookInv'
  BY <1>0 DEF StageInv, TypeInv, SaidInv, HookInv
<1>6. FormattedInv'
  BY <1>0 DEF StageInv, TypeInv, SaidInv, FormattedInv
<1>7. LingerInv'
  BY TimersAssumption DEF StageInv, TypeInv, LingerInv
<1>8. AdminInv'
  BY DEF StageInv, TypeInv, AdminInv, AdminStaysPrivate, IsAdmin, ErrorCors, CorsHeaders, RequestedAllowHeaders
<1>. QED
  BY <1>1, <1>2, <1>3, <1>4, <1>5, <1>6, <1>7, <1>8 DEF IInv

LEMMA AbortRejectsKeeps == ASSUME IInv, AbortRejects, UNCHANGED hook PROVE IInv'
<1>. USE DEF AbortRejects, RejectsOnAbort, Reject, RespondRejected, Respond, Destroy, Answer, Released, Goes, timers, served, nodeSide, OnNode, IInv
<1>0. /\ answers = <<>> /\ head # "adapter" /\ formatted = 0
      /\ adapter # "express" => head = "nobody" /\ ~hook
  BY NothingYet
<1>1. StageInv'
  BY DEF StageInv
<1>2. TypeInv'
  BY <1>0 DEF TypeInv, SaidInv, FormattedInv, Disposals
<1>3. SaidInv'
  BY <1>0 DEF TypeInv, SaidInv
<1>4. HeadInv'
  BY <1>0 DEF StageInv, TypeInv, SaidInv, HeadInv
<1>5. HookInv'
  BY <1>0 DEF StageInv, TypeInv, SaidInv, HookInv
<1>6. FormattedInv'
  BY <1>0 DEF StageInv, TypeInv, SaidInv, FormattedInv
<1>7. LingerInv'
  BY TimersAssumption DEF StageInv, TypeInv, LingerInv
<1>8. AdminInv'
  BY DEF StageInv, TypeInv, AdminInv, AdminStaysPrivate, IsAdmin, ErrorCors, CorsHeaders, RequestedAllowHeaders
<1>. QED
  BY <1>1, <1>2, <1>3, <1>4, <1>5, <1>6, <1>7, <1>8 DEF IInv

LEMMA LingerDataKeeps == ASSUME IInv, LingerData, UNCHANGED hook PROVE IInv'
<1>. USE DEF LingerData, IdleAfterData, exchange, Goes, timers, served, nodeSide, OnNode, IInv
<1>1. StageInv'
  BY DEF StageInv
<1>2. TypeInv'
  BY DEF TypeInv, SaidInv, FormattedInv, Disposals
<1>3. SaidInv'
  BY DEF TypeInv, SaidInv
<1>4. HeadInv'
  BY DEF StageInv, TypeInv, SaidInv, HeadInv
<1>5. HookInv'
  BY DEF StageInv, TypeInv, SaidInv, HookInv
<1>6. FormattedInv'
  BY DEF StageInv, TypeInv, SaidInv, FormattedInv
<1>7. LingerInv'
  BY TimersAssumption DEF StageInv, TypeInv, LingerInv
<1>8. AdminInv'
  BY DEF StageInv, TypeInv, AdminInv, AdminStaysPrivate, IsAdmin
<1>. QED
  BY <1>1, <1>2, <1>3, <1>4, <1>5, <1>6, <1>7, <1>8 DEF IInv

LEMMA TickKeeps == ASSUME IInv, Tick, UNCHANGED hook PROVE IInv'
<1>. USE DEF Tick, exchange, Goes, timers, served, nodeSide, OnNode, IInv
<1>1. StageInv'
  BY DEF StageInv
<1>2. TypeInv'
  BY DEF TypeInv, SaidInv, FormattedInv, Disposals
<1>3. SaidInv'
  BY DEF TypeInv, SaidInv
<1>4. HeadInv'
  BY DEF StageInv, TypeInv, SaidInv, HeadInv
<1>5. HookInv'
  BY DEF StageInv, TypeInv, SaidInv, HookInv
<1>6. FormattedInv'
  BY DEF StageInv, TypeInv, SaidInv, FormattedInv
<1>7. LingerInv'
  BY TimersAssumption DEF StageInv, TypeInv, LingerInv
<1>8. AdminInv'
  BY DEF StageInv, TypeInv, AdminInv, AdminStaysPrivate, IsAdmin
<1>. QED
  BY <1>1, <1>2, <1>3, <1>4, <1>5, <1>6, <1>7, <1>8 DEF IInv

LEMMA TimerFiresKeeps == ASSUME IInv, TimerFires, UNCHANGED hook PROVE IInv'
<1>. USE DEF TimerFires, Finish, Goes, timers, served, nodeSide, OnNode, IInv
<1>1. StageInv'
  BY DEF StageInv
<1>2. TypeInv'
  BY DEF TypeInv, SaidInv, FormattedInv, Disposals
<1>3. SaidInv'
  BY DEF TypeInv, SaidInv
<1>4. HeadInv'
  BY DEF StageInv, TypeInv, SaidInv, HeadInv
<1>5. HookInv'
  BY DEF StageInv, TypeInv, SaidInv, HookInv
<1>6. FormattedInv'
  BY DEF StageInv, TypeInv, SaidInv, FormattedInv
<1>7. LingerInv'
  BY TimersAssumption DEF StageInv, TypeInv, LingerInv
<1>8. AdminInv'
  BY DEF StageInv, TypeInv, AdminInv, AdminStaysPrivate, IsAdmin
<1>. QED
  BY <1>1, <1>2, <1>3, <1>4, <1>5, <1>6, <1>7, <1>8 DEF IInv

LEMMA LingerEndKeeps == ASSUME IInv, LingerEnd, UNCHANGED hook PROVE IInv'
<1>. USE DEF LingerEnd, Finish, Goes, timers, served, nodeSide, OnNode, IInv
<1>1. StageInv'
  BY DEF StageInv
<1>2. TypeInv'
  BY DEF TypeInv, SaidInv, FormattedInv, Disposals
<1>3. SaidInv'
  BY DEF TypeInv, SaidInv
<1>4. HeadInv'
  BY DEF StageInv, TypeInv, SaidInv, HeadInv
<1>5. HookInv'
  BY DEF StageInv, TypeInv, SaidInv, HookInv
<1>6. FormattedInv'
  BY DEF StageInv, TypeInv, SaidInv, FormattedInv
<1>7. LingerInv'
  BY TimersAssumption DEF StageInv, TypeInv, LingerInv
<1>8. AdminInv'
  BY DEF StageInv, TypeInv, AdminInv, AdminStaysPrivate, IsAdmin
<1>. QED
  BY <1>1, <1>2, <1>3, <1>4, <1>5, <1>6, <1>7, <1>8 DEF IInv

LEMMA ClientLeavesKeeps == ASSUME IInv, ClientLeaves, UNCHANGED hook PROVE IInv'
<1>. USE DEF ClientLeaves, Finish, Goes, timers, served, nodeSide, OnNode, IInv
<1>1. StageInv'
  BY DEF StageInv
<1>2. TypeInv'
  BY DEF TypeInv, SaidInv, FormattedInv, Disposals
<1>3. SaidInv'
  BY DEF TypeInv, SaidInv
<1>4. HeadInv'
  BY DEF StageInv, TypeInv, SaidInv, HeadInv
<1>5. HookInv'
  BY DEF StageInv, TypeInv, SaidInv, HookInv
<1>6. FormattedInv'
  BY DEF StageInv, TypeInv, SaidInv, FormattedInv
<1>7. LingerInv'
  BY TimersAssumption DEF StageInv, TypeInv, LingerInv
<1>8. AdminInv'
  BY DEF StageInv, TypeInv, AdminInv, AdminStaysPrivate, IsAdmin
<1>. QED
  BY <1>1, <1>2, <1>3, <1>4, <1>5, <1>6, <1>7, <1>8 DEF IInv

\* What the catch of the Express handler makes of the exchange.
Caught ==
    /\ pc' = "done" /\ outcome' = Exception
    /\ \/ /\ answers' = <<"response">> /\ head' = "adapter"
          /\ formatted' = IF "errorFormatter" \in opts THEN 1 ELSE 0
       \/ /\ answers' \in {<<"left">>, <<"next(error)">>} /\ head' = head
          /\ formatted' = 0

LEMMA CatchMakes ==
    ASSUME NEW held, answers = <<>>, formatted = 0, Catch(held) PROVE Caught
BY DEF Catch, Caught, SendFormatted, Send, Finally, LeaveResponse, Answer, Goes

\* What its end does, with the response as it was before and after the hook.
Delivered(before, after) ==
    \/ /\ pc' = "done" /\ answers' = <<"left">>
       /\ UNCHANGED <<head, formatted, outcome>>
    \/ /\ pc' = "done" /\ answers' = <<"response">> /\ head' = "adapter"
       /\ outcome' = after
       /\ formatted' = IF "errorFormatter" \in opts /\ before.exception /\ after.status500
                       THEN 1 ELSE 0
    \/ Caught

LEMMA DeliverMakes ==
    ASSUME NEW before, NEW after, NEW returned, answers = <<>>, formatted = 0,
           Deliver(before, after, returned)
    PROVE  Delivered(before, after)
BY CatchMakes
   DEF Deliver, Delivered, Marked, LeaveToHook, SendFormatted, Send, Finally, LeaveResponse,
       Answer, Goes

LEMMA ExpressStartKeeps == ASSUME IInv, ExpressStart, UNCHANGED nodeSide PROVE IInv'
<1>1. answers = <<>> /\ head # "adapter" /\ formatted = 0 /\ adapter = "express"
  BY NothingYet DEF ExpressStart
<1>2. \/ Caught /\ UNCHANGED hook
      \/ /\ pc' = "done" /\ answers' = <<"next">> /\ UNCHANGED <<head, formatted, outcome, hook>>
      \/ /\ pc' = "before" /\ hook' = TRUE /\ UNCHANGED <<answers, head, formatted, outcome>>
      \/ /\ pc' = "handling" /\ UNCHANGED <<answers, head, formatted, outcome, hook>>
  BY <1>1, CatchMakes DEF ExpressStart, Finally, Answer, Goes, LeaveResponse
<1>3. pc = "idle" /\ UNCHANGED <<adapter, opts, aborted, nodeSide>>
  BY DEF ExpressStart
<1>4. StageInv' /\ SaidInv' /\ HookInv'
  <2>1. StageInv'
    BY <1>1, <1>2, <1>3 DEF IInv, StageInv, Caught, Delivered, OnNode
  <2>2. SaidInv'
    BY <1>1, <1>2, <1>3 DEF IInv, SaidInv, HeadInv, Caught, Delivered, OnNode
  <2>3. HookInv'
    BY <1>1, <1>2, <1>3 DEF IInv, HookInv, Caught, Delivered, OnNode
  <2>. QED
    BY <2>1, <2>2, <2>3
<1>5. TypeInv'
  <2>1. (answers \in {<<>>} \cup Disposals)' /\ (request \in Requests)'
    BY <1>1, <1>2, <1>3 DEF IInv, TypeInv, Caught, Delivered, Disposals, nodeSide, served
  <2>2. (outcome \in AllOutcomes)'
    BY <1>1, <1>2, <1>3, OutcomeFacts DEF IInv, TypeInv, Caught, Delivered
  <2>. QED
    BY <1>1, <1>2, <1>3, <2>1, <2>2 DEF IInv, TypeInv, Caught, Delivered
<1>6. HeadInv' /\ FormattedInv'
  BY <1>1, <1>2, <1>3, OutcomeFacts DEF IInv, StageInv, HeadInv, FormattedInv, Caught, Delivered, OnNode
<1>7. LingerInv' /\ AdminInv'
  BY <1>1, <1>2, <1>3
     DEF IInv, StageInv, LingerInv, AdminInv, AdminStaysPrivate, Caught, Delivered, OnNode,
         IsAdmin, nodeSide, served, timers
<1>. QED
  BY <1>4, <1>5, <1>6, <1>7 DEF IInv

LEMMA HookWritesKeeps == ASSUME IInv, HookWrites, UNCHANGED nodeSide PROVE IInv'
<1>. USE DEF HookWrites, Goes, timers, served, nodeSide, OnNode, IInv
<1>1. StageInv'
  BY DEF StageInv
<1>2. TypeInv'
  BY DEF TypeInv, SaidInv, FormattedInv, Disposals
<1>3. SaidInv'
  BY DEF TypeInv, SaidInv
<1>4. HeadInv'
  BY DEF StageInv, TypeInv, SaidInv, HeadInv, HookInv
<1>5. HookInv'
  BY DEF StageInv, TypeInv, SaidInv, HookInv
<1>6. FormattedInv'
  BY DEF StageInv, TypeInv, SaidInv, FormattedInv
<1>7. LingerInv'
  BY TimersAssumption DEF StageInv, TypeInv, LingerInv, HookInv
<1>8. AdminInv'
  BY DEF StageInv, TypeInv, AdminInv, AdminStaysPrivate, IsAdmin
<1>. QED
  BY <1>1, <1>2, <1>3, <1>4, <1>5, <1>6, <1>7, <1>8 DEF IInv

LEMMA AbandonedHookSettlesKeeps == ASSUME IInv, AbandonedHookSettles, UNCHANGED nodeSide PROVE IInv'
<1>. USE DEF AbandonedHookSettles, exchange, Goes, timers, served, nodeSide, OnNode, IInv
<1>1. StageInv'
  BY DEF StageInv
<1>2. TypeInv'
  BY DEF TypeInv, SaidInv, FormattedInv, Disposals
<1>3. SaidInv'
  BY DEF TypeInv, SaidInv
<1>4. HeadInv'
  BY DEF StageInv, TypeInv, SaidInv, HeadInv
<1>5. HookInv'
  BY DEF StageInv, TypeInv, SaidInv, HookInv
<1>6. FormattedInv'
  BY DEF StageInv, TypeInv, SaidInv, FormattedInv
<1>7. LingerInv'
  BY TimersAssumption DEF StageInv, TypeInv, LingerInv
<1>8. AdminInv'
  BY DEF StageInv, TypeInv, AdminInv, AdminStaysPrivate, IsAdmin
<1>. QED
  BY <1>1, <1>2, <1>3, <1>4, <1>5, <1>6, <1>7, <1>8 DEF IInv

LEMMA BeforeRequestSettlesKeeps ==
    ASSUME IInv, BeforeRequestSettles, UNCHANGED nodeSide PROVE IInv'
<1>1. answers = <<>> /\ head # "adapter" /\ formatted = 0 /\ adapter = "express"
  BY NothingYet DEF BeforeRequestSettles, IInv, StageInv, OnNode
<1>2. \/ Caught
      \/ pc' = "done" /\ answers' = <<"left">> /\ UNCHANGED <<head, formatted, outcome>>
      \/ /\ pc' = "handling" /\ head # "hook"
         /\ UNCHANGED <<answers, head, formatted, outcome>>
  BY <1>1, CatchMakes
     DEF BeforeRequestSettles, LeaveToHook, OwnedByHook, Finally, Answer, Goes, LeaveResponse
<1>3. pc = "before" /\ ~aborted /\ ~hook' /\ UNCHANGED <<adapter, opts, aborted, nodeSide>>
  BY DEF BeforeRequestSettles
<1>4. StageInv' /\ SaidInv' /\ HookInv'
  <2>1. StageInv'
    BY <1>1, <1>2, <1>3 DEF IInv, StageInv, Caught, Delivered, OnNode
  <2>2. SaidInv'
    BY <1>1, <1>2, <1>3 DEF IInv, SaidInv, HeadInv, Caught, Delivered, OnNode
  <2>3. HookInv'
    BY <1>1, <1>2, <1>3 DEF IInv, HookInv, Caught, Delivered, OnNode
  <2>. QED
    BY <2>1, <2>2, <2>3
<1>5. TypeInv'
  <2>1. (answers \in {<<>>} \cup Disposals)' /\ (request \in Requests)'
    BY <1>1, <1>2, <1>3 DEF IInv, TypeInv, Caught, Delivered, Disposals, nodeSide, served
  <2>2. (outcome \in AllOutcomes)'
    BY <1>1, <1>2, <1>3, OutcomeFacts DEF IInv, TypeInv, Caught, Delivered
  <2>. QED
    BY <1>1, <1>2, <1>3, <2>1, <2>2 DEF IInv, TypeInv, Caught, Delivered
<1>6. HeadInv' /\ FormattedInv'
  BY <1>1, <1>2, <1>3, OutcomeFacts DEF IInv, StageInv, HeadInv, FormattedInv, Caught, Delivered, OnNode
<1>7. LingerInv' /\ AdminInv'
  BY <1>1, <1>2, <1>3
     DEF IInv, StageInv, LingerInv, AdminInv, AdminStaysPrivate, Caught, Delivered, OnNode,
         IsAdmin, nodeSide, served, timers
<1>. QED
  BY <1>4, <1>5, <1>6, <1>7 DEF IInv

LEMMA ExpressHandleSettlesKeeps ==
    ASSUME IInv, ExpressHandleSettles, UNCHANGED nodeSide PROVE IInv'
<1>1. answers = <<>> /\ head = "nobody" /\ formatted = 0
  BY NothingYet DEF ExpressHandleSettles, IInv, TypeInv, HeadInv
<1>2. \/ Caught /\ UNCHANGED hook
      \/ /\ pc' = "done" /\ answers' = <<"next">> /\ UNCHANGED <<head, formatted, outcome, hook>>
      \/ \E o \in Outcomes :
            \/ /\ pc' = "after" /\ outcome' = o /\ UNCHANGED <<answers, head, formatted>>
            \/ Delivered(o, o) /\ UNCHANGED hook
  <2>1. CASE Catch(admission) /\ UNCHANGED hook
    BY <1>1, <2>1, CatchMakes
  <2>2. CASE Finally(admission) /\ Answer("next") /\ LeaveResponse /\ UNCHANGED <<outcome, hook>>
    BY <1>1, <2>2 DEF Finally, Answer, Goes, LeaveResponse
  <2>3. ASSUME NEW o \in Outcomes, Deliver(o, o, FALSE), UNCHANGED hook
        PROVE  Delivered(o, o) /\ UNCHANGED hook
    BY <1>1, <2>3, DeliverMakes
  <2>. QED
    BY <2>1, <2>2, <2>3 DEF ExpressHandleSettles, Goes, LeaveResponse
<1>3. /\ pc = "handling" /\ ~aborted /\ adapter = "express"
      /\ UNCHANGED <<adapter, opts, aborted, nodeSide>>
  BY DEF ExpressHandleSettles
<1>4. StageInv' /\ SaidInv' /\ HookInv'
  <2>1. StageInv'
    BY <1>1, <1>2, <1>3 DEF IInv, StageInv, Caught, Delivered, OnNode
  <2>2. SaidInv'
    BY <1>1, <1>2, <1>3 DEF IInv, SaidInv, HeadInv, Caught, Delivered, OnNode
  <2>3. HookInv'
    BY <1>1, <1>2, <1>3 DEF IInv, HookInv, Caught, Delivered, OnNode
  <2>. QED
    BY <2>1, <2>2, <2>3
<1>5. TypeInv'
  <2>1. (answers \in {<<>>} \cup Disposals)' /\ (request \in Requests)'
    BY <1>1, <1>2, <1>3 DEF IInv, TypeInv, Caught, Delivered, Disposals, nodeSide, served
  <2>2. (outcome \in AllOutcomes)'
    BY <1>1, <1>2, <1>3, OutcomeFacts DEF IInv, TypeInv, Caught, Delivered
  <2>. QED
    BY <1>1, <1>2, <1>3, <2>1, <2>2 DEF IInv, TypeInv, Caught, Delivered
<1>6. HeadInv' /\ FormattedInv'
  BY <1>1, <1>2, <1>3, OutcomeFacts DEF IInv, StageInv, HeadInv, FormattedInv, Caught, Delivered, OnNode
<1>7. LingerInv' /\ AdminInv'
  BY <1>1, <1>2, <1>3
     DEF IInv, StageInv, LingerInv, AdminInv, AdminStaysPrivate, Caught, Delivered, OnNode,
         IsAdmin, nodeSide, served, timers
<1>. QED
  BY <1>4, <1>5, <1>6, <1>7 DEF IInv

LEMMA BeforeResponseSettlesKeeps ==
    ASSUME IInv, BeforeResponseSettles, UNCHANGED nodeSide PROVE IInv'
<1>1. /\ answers = <<>> /\ head # "adapter" /\ formatted = 0 /\ adapter = "express"
      /\ outcome \in AllOutcomes
  BY NothingYet DEF BeforeResponseSettles, IInv, StageInv, TypeInv, OnNode
<1>2. PICK after \in AllOutcomes : /\ after.exception = outcome.exception
                                   /\ Delivered(outcome, after)
  BY <1>1, OutcomeFacts, CatchMakes, DeliverMakes DEF BeforeResponseSettles, Delivered
<1>3. pc = "after" /\ ~aborted /\ ~hook' /\ UNCHANGED <<adapter, opts, aborted, nodeSide>>
  BY DEF BeforeResponseSettles
<1>4. StageInv' /\ SaidInv' /\ HookInv'
  <2>1. StageInv'
    BY <1>1, <1>2, <1>3 DEF IInv, StageInv, Caught, Delivered, OnNode
  <2>2. SaidInv'
    BY <1>1, <1>2, <1>3, SMTT(30) DEF IInv, SaidInv, HeadInv, Caught, Delivered, OnNode
  <2>3. HookInv'
    BY <1>1, <1>2, <1>3 DEF IInv, HookInv, Caught, Delivered, OnNode
  <2>. QED
    BY <2>1, <2>2, <2>3
<1>5. TypeInv'
  <2>1. (answers \in {<<>>} \cup Disposals)' /\ (request \in Requests)'
    BY <1>1, <1>2, <1>3 DEF IInv, TypeInv, Caught, Delivered, Disposals, nodeSide, served
  <2>2. (outcome \in AllOutcomes)'
    BY <1>1, <1>2, <1>3, OutcomeFacts DEF IInv, TypeInv, Caught, Delivered
  <2>. QED
    BY <1>1, <1>2, <1>3, <2>1, <2>2 DEF IInv, TypeInv, Caught, Delivered
<1>6. HeadInv' /\ FormattedInv'
  BY <1>1, <1>2, <1>3, OutcomeFacts DEF IInv, StageInv, HeadInv, FormattedInv, Caught, Delivered, OnNode
<1>7. LingerInv' /\ AdminInv'
  BY <1>1, <1>2, <1>3
     DEF IInv, StageInv, LingerInv, AdminInv, AdminStaysPrivate, Caught, Delivered, OnNode,
         IsAdmin, nodeSide, served, timers
<1>. QED
  BY <1>4, <1>5, <1>6, <1>7 DEF IInv

LEMMA ExpressClientLeavesKeeps == ASSUME IInv, ExpressClientLeaves, UNCHANGED nodeSide PROVE IInv'
<1>. USE DEF ExpressClientLeaves, Waiting, Goes, timers, served, nodeSide, OnNode, IInv
<1>1. StageInv'
  BY DEF StageInv
<1>2. TypeInv'
  BY DEF TypeInv, SaidInv, FormattedInv, Disposals
<1>3. SaidInv'
  BY DEF TypeInv, SaidInv
<1>4. HeadInv'
  BY DEF StageInv, TypeInv, SaidInv, HeadInv
<1>5. HookInv'
  BY DEF StageInv, TypeInv, SaidInv, HookInv
<1>6. FormattedInv'
  BY DEF StageInv, TypeInv, SaidInv, FormattedInv
<1>7. LingerInv'
  BY TimersAssumption DEF StageInv, TypeInv, LingerInv
<1>8. AdminInv'
  BY DEF StageInv, TypeInv, AdminInv, AdminStaysPrivate, IsAdmin
<1>. QED
  BY <1>1, <1>2, <1>3, <1>4, <1>5, <1>6, <1>7, <1>8 DEF IInv

LEMMA ExpressAbortRejectsKeeps == ASSUME IInv, ExpressAbortRejects, UNCHANGED nodeSide PROVE IInv'
<1>. USE DEF ExpressAbortRejects, AwaitsWithAbort, Waiting, CatchAbort, Finally, LeaveResponse, Goes, timers, served, nodeSide, OnNode, IInv
<1>0. answers = <<>>
  BY NothingYet DEF ExpressAbortRejects
<1>1. StageInv'
  BY DEF StageInv
<1>2. TypeInv'
  BY DEF TypeInv, SaidInv, FormattedInv, Disposals
<1>3. SaidInv'
  BY DEF TypeInv, SaidInv
<1>4. HeadInv'
  BY DEF StageInv, TypeInv, SaidInv, HeadInv
<1>5. HookInv'
  BY DEF StageInv, TypeInv, SaidInv, HookInv
<1>6. FormattedInv'
  BY <1>0 DEF StageInv, TypeInv, SaidInv, FormattedInv
<1>7. LingerInv'
  BY TimersAssumption DEF StageInv, TypeInv, LingerInv
<1>8. AdminInv'
  BY DEF StageInv, TypeInv, AdminInv, AdminStaysPrivate, IsAdmin
<1>. QED
  BY <1>1, <1>2, <1>3, <1>4, <1>5, <1>6, <1>7, <1>8 DEF IInv

\* The Observable errs for an exception.
Errs ==
    /\ pc' = "done" /\ answers' = <<"error">> /\ outcome' = Exception
    /\ formatted' = IF "errorFormatter" \in opts THEN 1 ELSE 0

LEMMA EmitErrorMakes == ASSUME answers = <<>>, formatted = 0, EmitError PROVE Errs
BY DEF EmitError, Errs, Answer, Goes

LEMMA InterceptKeeps == ASSUME IInv, Intercept, UNCHANGED <<nodeSide, hook>> PROVE IInv'
<1>1. answers = <<>> /\ head = "nobody" /\ formatted = 0 /\ ~hook /\ adapter = "angular"
  BY NothingYet DEF Intercept
<1>2. \/ Errs
      \/ pc' = "inner" /\ answers' = <<"next">> /\ UNCHANGED <<outcome, formatted>>
      \/ pc' = "handling" /\ UNCHANGED <<answers, outcome, formatted>>
  BY <1>1, EmitErrorMakes DEF Intercept, SubscribeInner, Answer, Goes
<1>3. pc = "idle" /\ UNCHANGED <<adapter, opts, aborted, head, nodeSide, hook>>
  BY DEF Intercept, NoTransport
<1>4. StageInv' /\ SaidInv' /\ HookInv'
  BY <1>1, <1>2, <1>3 DEF IInv, StageInv, SaidInv, HookInv, Errs, OnNode
<1>5. TypeInv'
  BY <1>1, <1>2, <1>3, OutcomeFacts DEF IInv, TypeInv, Errs, Disposals, nodeSide, served
<1>6. HeadInv' /\ FormattedInv'
  BY <1>1, <1>2, <1>3, OutcomeFacts DEF IInv, StageInv, HeadInv, FormattedInv, Errs, OnNode
<1>7. LingerInv' /\ AdminInv'
  BY <1>1, <1>2, <1>3
     DEF IInv, StageInv, LingerInv, AdminInv, AdminStaysPrivate, Errs, OnNode, IsAdmin,
         nodeSide, served, timers
<1>. QED
  BY <1>4, <1>5, <1>6, <1>7 DEF IInv

LEMMA AngularHandleSettlesKeeps ==
    ASSUME IInv, AngularHandleSettles, UNCHANGED <<nodeSide, hook>> PROVE IInv'
<1>1. answers = <<>> /\ head = "nobody" /\ formatted = 0 /\ ~hook /\ adapter = "angular"
  BY NothingYet DEF AngularHandleSettles
<1>2. \/ Errs
      \/ pc' = "inner" /\ answers' = <<"next">> /\ UNCHANGED <<outcome, formatted>>
      \/ pc' = "done" /\ answers' = <<"error">> /\ UNCHANGED <<outcome, formatted>>
         /\ "passthrough" \notin opts
      \/ /\ pc' = "done" /\ answers' \in {<<"response">>, <<"error">>}
         /\ outcome' \in AllOutcomes
         /\ formatted' = IF /\ "errorFormatter" \in opts
                            /\ outcome'.exception /\ outcome'.status500 THEN 1 ELSE 0
  <2>1. CASE Emit
    <3>1. PICK before \in Outcomes, status500 \in BOOLEAN :
             /\ Goes("done")
             /\ outcome' = [before EXCEPT !.status500 = status500]
             /\ \/ /\ ~status500
                   /\ Answer("response") \/ Answer("error")
                   /\ UNCHANGED formatted
                \/ /\ status500
                   /\ Answer("error")
                   /\ formatted' = formatted +
                         (IF "errorFormatter" \in opts /\ before.exception
                          THEN 1 ELSE 0)
      BY <2>1 DEF Emit
    <3>2. /\ outcome' \in AllOutcomes /\ outcome'.exception = before.exception
          /\ outcome'.status500 = status500
      BY <3>1, OutcomeFacts
    <3>. QED
      BY <1>1, <3>1, <3>2 DEF Answer, Goes
  <2>. QED
    BY <1>1, <2>1, EmitErrorMakes DEF AngularHandleSettles, SubscribeInner, Answer, Goes
<1>3. /\ pc = "handling" /\ ~aborted
      /\ UNCHANGED <<adapter, opts, aborted, head, nodeSide, hook>>
  BY DEF AngularHandleSettles, NoTransport
<1>4. StageInv' /\ SaidInv' /\ HookInv'
  BY <1>1, <1>2, <1>3, SMTT(30) DEF IInv, StageInv, SaidInv, HookInv, Errs, OnNode
<1>5. TypeInv'
  BY <1>1, <1>2, <1>3, OutcomeFacts DEF IInv, TypeInv, Errs, Disposals, nodeSide, served
<1>6. HeadInv' /\ FormattedInv'
  BY <1>1, <1>2, <1>3, OutcomeFacts DEF IInv, StageInv, HeadInv, FormattedInv, Errs, OnNode
<1>7. LingerInv' /\ AdminInv'
  BY <1>1, <1>2, <1>3
     DEF IInv, StageInv, LingerInv, AdminInv, AdminStaysPrivate, Errs, OnNode, IsAdmin,
         nodeSide, served, timers
<1>. QED
  BY <1>4, <1>5, <1>6, <1>7 DEF IInv

LEMMA TeardownKeeps == ASSUME IInv, Teardown, UNCHANGED <<nodeSide, hook>> PROVE IInv'
<1>. USE DEF Teardown, TeardownPc, NoTransport, Goes, timers, served, nodeSide, OnNode, IInv
<1>1. StageInv'
  BY DEF StageInv
<1>2. TypeInv'
  BY DEF TypeInv, SaidInv, FormattedInv, Disposals
<1>3. SaidInv'
  BY DEF TypeInv, SaidInv
<1>4. HeadInv'
  BY DEF StageInv, TypeInv, SaidInv, HeadInv
<1>5. HookInv'
  BY DEF StageInv, TypeInv, SaidInv, HookInv
<1>6. FormattedInv'
  BY DEF StageInv, TypeInv, SaidInv, FormattedInv
<1>7. LingerInv'
  BY TimersAssumption DEF StageInv, TypeInv, LingerInv
<1>8. AdminInv'
  BY DEF StageInv, TypeInv, AdminInv, AdminStaysPrivate, IsAdmin
<1>. QED
  BY <1>1, <1>2, <1>3, <1>4, <1>5, <1>6, <1>7, <1>8 DEF IInv

LEMMA SettlesUnsubscribedKeeps == ASSUME IInv, SettlesUnsubscribed, UNCHANGED <<nodeSide, hook>> PROVE IInv'
<1>. USE DEF SettlesUnsubscribed, NoTransport, Goes, timers, served, nodeSide, OnNode, IInv
<1>1. StageInv'
  BY DEF StageInv
<1>2. TypeInv'
  BY DEF TypeInv, SaidInv, FormattedInv, Disposals
<1>3. SaidInv'
  BY DEF TypeInv, SaidInv
<1>4. HeadInv'
  BY DEF StageInv, TypeInv, SaidInv, HeadInv
<1>5. HookInv'
  BY DEF StageInv, TypeInv, SaidInv, HookInv
<1>6. FormattedInv'
  BY DEF StageInv, TypeInv, SaidInv, FormattedInv
<1>7. LingerInv'
  BY TimersAssumption DEF StageInv, TypeInv, LingerInv
<1>8. AdminInv'
  BY DEF StageInv, TypeInv, AdminInv, AdminStaysPrivate, IsAdmin
<1>. QED
  BY <1>1, <1>2, <1>3, <1>4, <1>5, <1>6, <1>7, <1>8 DEF IInv

LEMMA InnerCompletesKeeps == ASSUME IInv, InnerCompletes, UNCHANGED <<nodeSide, hook>> PROVE IInv'
<1>. USE DEF InnerCompletes, NoTransport, Goes, timers, served, nodeSide, OnNode, IInv
<1>1. StageInv'
  BY DEF StageInv
<1>2. TypeInv'
  BY DEF TypeInv, SaidInv, FormattedInv, Disposals
<1>3. SaidInv'
  BY DEF TypeInv, SaidInv
<1>4. HeadInv'
  BY DEF StageInv, TypeInv, SaidInv, HeadInv
<1>5. HookInv'
  BY DEF StageInv, TypeInv, SaidInv, HookInv
<1>6. FormattedInv'
  BY DEF StageInv, TypeInv, SaidInv, FormattedInv
<1>7. LingerInv'
  BY TimersAssumption DEF StageInv, TypeInv, LingerInv
<1>8. AdminInv'
  BY DEF StageInv, TypeInv, AdminInv, AdminStaysPrivate, IsAdmin
<1>. QED
  BY <1>1, <1>2, <1>3, <1>4, <1>5, <1>6, <1>7, <1>8 DEF IInv

-----------------------------------------------------------------------------
(* The invariant. *)

\* A message on the wire is none of the exchange's business.
LEMMA StepsDecide == ASSUME IInv, UNCHANGED steps PROVE IInv'
BY DEF steps, exchange, nodeSide, served, timers, IInv, StageInv, TypeInv, SaidInv, HeadInv,
       HookInv, FormattedInv, LingerInv, AdminInv, AdminStaysPrivate, OnNode, IsAdmin

LEMMA NextKeeps == ASSUME IInv, [Next]_vars PROVE IInv'
<1>1. CASE TransportNext /\ UNCHANGED <<hook, wire>>
  BY <1>1, AcceptServerKeeps, AcceptCliKeeps, DataKeeps, EndKeeps, HandleSettlesKeeps,
     AbortRejectsKeeps, LingerDataKeeps, TickKeeps, TimerFiresKeeps, LingerEndKeeps,
     ClientLeavesKeeps
     DEF TransportNext
<1>2. CASE ExpressNext /\ UNCHANGED <<nodeSide, wire>>
  BY <1>2, ExpressStartKeeps, HookWritesKeeps, AbandonedHookSettlesKeeps,
     BeforeRequestSettlesKeeps, ExpressHandleSettlesKeeps, BeforeResponseSettlesKeeps,
     ExpressClientLeavesKeeps, ExpressAbortRejectsKeeps
     DEF ExpressNext
<1>3. CASE AngularNext /\ UNCHANGED <<nodeSide, hook, wire>>
  BY <1>3, InterceptKeeps, AngularHandleSettlesKeeps, TeardownKeeps, SettlesUnsubscribedKeeps,
     InnerCompletesKeeps
     DEF AngularNext
<1>4. CASE UNCHANGED steps
  BY <1>4, StepsDecide
<1>. QED
  BY <1>1, <1>2, <1>3, <1>4 DEF Next, vars

\* Every reachable state satisfies the inductive invariant.
THEOREM Invariance == Spec => []IInv
<1>1. Init => IInv
  BY InitHolds
<1>2. IInv /\ [Next]_vars => IInv'
  BY NextKeeps
<1>. QED
  BY <1>1, <1>2, PTL DEF Spec

-----------------------------------------------------------------------------
(* Theorems. *)

\* An exchange that ends is answered exactly once, by the adapter or by a hook
\* that began the response, for every body limit, timer and set of options.
THEOREM AnsweredOnce == Spec => []OneAnswer
<1>1. IInv => OneAnswer
  <2>. SUFFICES ASSUME IInv PROVE OneAnswer
    OBVIOUS
  <2>1. Len(answers) <= 1 /\ (answers # <<>> => Len(answers) = 1)
    <3>1. CASE answers = <<>>
      BY <3>1
    <3>2. CASE \E what : answers = <<what>>
      <4>1. PICK what : answers = <<what>>
        BY <3>2
      <4>2. Len(answers) = 1
        BY <4>1
      <4>. QED
        BY <4>2
    <3>. QED
      BY <3>1, <3>2 DEF IInv, TypeInv, Disposals
  <2>2. \A i \in DOMAIN answers : i = 1 /\ answers = <<answers[i]>>
    BY DEF IInv, TypeInv, Disposals
  <2>3. adapter # "angular" =>
           \A i \in DOMAIN answers : answers[i] = "response" <=> head = "adapter"
    BY <2>2 DEF IInv, HeadInv
  <2>4. head = "hook" => \A i \in DOMAIN answers : answers[i] \in {"left", "next(error)"}
    BY <2>2 DEF IInv, HeadInv
  <2>. QED
    BY <2>1, <2>3, <2>4 DEF IInv, SaidInv, OneAnswer
<1>. QED
  BY <1>1, Invariance, PTL

\* The formatter sees each exception once and nothing but exceptions.
THEOREM FormatterIsExact == Spec => []FormatterGetsFailures
<1>1. IInv => FormatterGetsFailures
  BY DEF IInv, TypeInv, FormattedInv, FormatterGetsFailures, Disposals
<1>. QED
  BY <1>1, Invariance, PTL

\* A lingering rejection ends by silence or by the cap and not before, whatever
\* the two timers are.
THEOREM LingeringIsExact == Spec => []LingerIsExact
<1>1. IInv => LingerIsExact
  BY DEF IInv, LingerInv, LingerIsExact
<1>. QED
  BY <1>1, Invariance, PTL

\* No request reads a CORS header off the admin surface or has an effect there
\* without the token.
THEOREM AdminIsPrivate == Spec => []AdminStaysPrivate
<1>1. IInv => AdminStaysPrivate
  BY DEF IInv, AdminInv
<1>. QED
  BY <1>1, Invariance, PTL

\* Nothing is said to a caller that left, whatever the hooks still do.
THEOREM SilentOnceLeft == Spec => NothingAfterAbort
<1>1. IInv /\ [Next]_vars =>
         [aborted /\ ~OnNode =>
            /\ UNCHANGED <<answers, formatted>>
            /\ head' = "adapter" => head = "adapter"]_vars
  <2>. SUFFICES ASSUME IInv, [Next]_vars, aborted, ~OnNode
                PROVE  /\ UNCHANGED <<answers, formatted>>
                       /\ head' = "adapter" => head = "adapter"
    OBVIOUS
  <2>1. pc # "idle" /\ pc \notin {"collecting", "lingering"}
    BY DEF IInv, SaidInv, StageInv, OnNode
  <2>2. CASE TransportNext
    BY <2>1, <2>2
       DEF TransportNext, AcceptServer, AcceptCli, Data, Collecting, End, HandleSettles,
           AbortRejects, LingerData, Tick, TimerFires, LingerEnd, ClientLeaves, OnNode
  <2>3. CASE ExpressNext
    BY <2>1, <2>3
       DEF ExpressNext, ExpressStart, HookWrites, AbandonedHookSettles, BeforeRequestSettles,
           ExpressHandleSettles, BeforeResponseSettles, ExpressClientLeaves,
           ExpressAbortRejects, CatchAbort, LeaveResponse, exchange, IInv, StageInv, OnNode
  <2>4. CASE AngularNext
    BY <2>1, <2>4
       DEF AngularNext, Intercept, AngularHandleSettles, Teardown, SettlesUnsubscribed,
           InnerCompletes, NoTransport
  <2>5. CASE UNCHANGED steps
    BY <2>5 DEF steps, exchange
  <2>. QED
    BY <2>2, <2>3, <2>4, <2>5 DEF Next, vars
<1>. QED
  BY <1>1, Invariance, PTL DEF Spec, NothingAfterAbort

-----------------------------------------------------------------------------
(* Sending a reply. *)

\* The type that a body has by default is one header more, of a name that the
\* reply does not have.
LEMMA TypedIs ==
    ASSUME NEW code, NEW body, NEW headers, NEW b
    PROVE  LET r == Reply(code, body, headers)
               t == WithType(r, b)
           IN  /\ t = Reply(code, body, t.headers)
               /\ headers \subseteq t.headers
               /\ \A h \in t.headers \ headers :
                     /\ h \in TypeOf(b) /\ h.name = "content-type"
                     /\ h.value \in {"octets", "json"}
                     /\ ~HasHeader(headers, "content-type")
               /\ \A h, k \in t.headers \ headers : h = k
               /\ b \in {"bytes", "json", "null"} => HasHeader(t.headers, "content-type")
<1> DEFINE r == Reply(code, body, headers)
           t == WithType(r, b)
<1>1. r.status = code /\ r.body = body /\ r.headers = headers
  BY DEF Reply
<1>2. \A h \in TypeOf(b) : h.name = "content-type" /\ h.value \in {"octets", "json"}
  BY DEF TypeOf, Header
<1>3. \A h, k \in TypeOf(b) : h = k
  BY DEF TypeOf
<1>4. b \in {"bytes", "json", "null"} => HasHeader(TypeOf(b), "content-type")
  BY DEF TypeOf, HasHeader, Header
<1>5. CASE HasHeader(headers, "content-type")
  <2>1. t = r
    BY <1>1, <1>5 DEF WithType
  <2> QED
    BY <1>1, <1>5, <2>1
<1>6. CASE ~HasHeader(headers, "content-type")
  <2>1. t = Reply(code, body, headers \cup TypeOf(b))
    BY <1>1, <1>6 DEF WithType, Reply
  <2>2. t.headers = headers \cup TypeOf(b)
    BY <2>1 DEF Reply
  <2>3. b \in {"bytes", "json", "null"} => HasHeader(t.headers, "content-type")
    BY <1>4, <2>2 DEF HasHeader
  <2>4. \A h \in t.headers \ headers : h \in TypeOf(b)
    BY <2>2
  <2> QED
    BY <1>2, <1>3, <1>6, <2>1, <2>2, <2>3, <2>4
<1> QED
  BY <1>5, <1>6

\* It does not change whether the reply can be sent.
LEMMA TypedIsRejected ==
    ASSUME NEW code, NEW body, NEW headers, NEW b, NEW isHead
    PROVE  LET r == Reply(code, body, headers) IN
           IsRejected(WithType(r, b), isHead) <=> IsRejected(r, isHead)
<1> DEFINE r == Reply(code, body, headers)
           t == WithType(r, b)
<1>1. /\ t = Reply(code, body, t.headers)
      /\ headers \subseteq t.headers
      /\ \A h \in t.headers \ headers : /\ h.name = "content-type" /\ h.value \in {"octets", "json"}
                                        /\ ~HasHeader(headers, "content-type")
      /\ \A h, k \in t.headers \ headers : h = k
  BY TypedIs
<1>2. /\ r.status = code /\ r.body = body /\ r.headers = headers
      /\ t.status = code /\ t.body = body
  BY <1>1 DEF Reply
<1> HIDE DEF t, r
<1>3. \A h, k \in t.headers : h # k /\ h.name = k.name => h \in headers /\ k \in headers
  BY <1>1 DEF HasHeader
<1>4. (\E h, k \in t.headers : h # k /\ h.name = k.name)
        <=> \E h, k \in r.headers : h # k /\ h.name = k.name
  BY <1>1, <1>2, <1>3
<1>5. (\E h \in t.headers : h.value = "invalid") <=> \E h \in r.headers : h.value = "invalid"
  BY <1>1, <1>2
<1>6. IsRejected(t, isHead) <=> IsRejected(r, isHead)
  BY <1>2, <1>4, <1>5 DEF IsRejected, IsBodiless
<1> QED
  BY <1>6 DEF t, r

\* What a web transport sends of a reply.
LEMMA WebSendsIs ==
    ASSUME NEW code, NEW body, NEW headers
    PROVE  LET r == Reply(code, body, headers) IN
           /\ IsRejected(r, IsHead) <=> WebSends(r, IsHead) = {}
           /\ \A g \in WebSends(r, IsHead) :
                 /\ IsWellFramed(g)
                 /\ g.channel = "response" /\ g.status = code
                 /\ OwnHeaders(r) \subseteq g.headers
                 /\ g.body = IF IsBodiless(r, IsHead) \/ body = "undefined" THEN "nothing" ELSE body
                 /\ body \in {"bytes", "json"} => HasHeader(g.headers, "content-type")
<1> DEFINE r == Reply(code, body, headers)
           t == WithType(r, IF body = "null" THEN "undefined" ELSE body)
           n == Normal(t, IsHead)
           g == Seen("response", n, Serialized(n))
<1>1. r.status = code /\ r.body = body /\ r.headers = headers
  BY DEF Reply
<1>2. IsRejected(t, IsHead) <=> IsRejected(r, IsHead)
  BY TypedIsRejected, Zenon
<1>3. WebSends(r, IsHead) = IF IsRejected(r, IsHead) THEN {} ELSE {g}
  <2>1. WebSends(r, IsHead) = {Seen("response", m, Serialized(m)) :
                                  m \in {Normal(x, IsHead) : x \in {y \in {t} : ~IsRejected(y, IsHead)}}}
    BY <1>1 DEF WebSends
  <2> HIDE DEF t, r
  <2>2. {y \in {t} : ~IsRejected(y, IsHead)} = IF IsRejected(r, IsHead) THEN {} ELSE {t}
    BY <1>2
  <2> QED
    BY <2>1, <2>2
<1>4. ASSUME ~IsRejected(r, IsHead)
      PROVE  /\ IsWellFramed(g)
             /\ g.channel = "response" /\ g.status = code
             /\ OwnHeaders(r) \subseteq g.headers
             /\ g.body = IF IsBodiless(r, IsHead) \/ body = "undefined" THEN "nothing" ELSE body
             /\ body \in {"bytes", "json"} => HasHeader(g.headers, "content-type")
  <2>1. /\ t = Reply(code, body, t.headers)
        /\ headers \subseteq t.headers
        /\ body \in {"bytes", "json"} => HasHeader(t.headers, "content-type")
    BY TypedIs
  <2>2. t.status = code /\ t.body = body
    BY <2>1 DEF Reply
  <2>3. /\ n.status = code
        /\ n.body = IF IsBodiless(r, IsHead) THEN "undefined" ELSE body
        /\ n.headers = Without(t.headers, FramingOf(t, IsHead) \cup HopByHop)
    BY <1>1, <2>2 DEF Normal, Reply, IsBodiless
  <2>4. /\ g.channel = "response" /\ g.status = n.status /\ g.headers = n.headers
        /\ g.body = IF n.status \in Forbidden \/ n.body = "undefined" THEN "nothing" ELSE n.body
    BY DEF Seen, Serialized
  <2>5. FramingOf(t, IsHead) \subseteq Framing
    BY DEF FramingOf
  <2>6. /\ \A h, k \in t.headers : h.name = k.name => h = k
        /\ \A h \in t.headers : h.value # "invalid"
    BY <1>2, <1>4 DEF IsRejected
  <2>7. IsWellFramed(g)
    <3>1. HasHeader(g.headers, "content-length") => IsHead \/ g.status = 304
      <4>1. IsHead \/ code = 304 \/ FramingOf(t, IsHead) = Framing
        BY <2>2 DEF FramingOf
      <4> QED
        BY <2>3, <2>4, <4>1 DEF HasHeader, Without, Framing
    <3>2. \A h \in g.headers : h.name \notin HopByHop \cup (Framing \ {"content-length"})
      <4>1. Framing \ {"content-length"} \subseteq FramingOf(t, IsHead)
        BY DEF FramingOf
      <4> QED
        BY <2>3, <2>4, <4>1 DEF Without
    <3>3. g.headers \subseteq t.headers
      BY <2>3, <2>4 DEF Without
    <3> HIDE DEF g, t
    <3> QED
      BY <2>6, <3>1, <3>2, <3>3 DEF IsWellFramed
  <2>8. OwnHeaders(r) \subseteq g.headers
    BY <1>1, <2>1, <2>3, <2>4, <2>5 DEF OwnHeaders, Without
  <2>9. HasHeader(t.headers, "content-type") => HasHeader(g.headers, "content-type")
    BY <2>3, <2>4, <2>5 DEF HasHeader, Without, Framing, HopByHop
  <2>10. g.body = IF IsBodiless(r, IsHead) \/ body = "undefined" THEN "nothing" ELSE body
    BY <1>1, <2>3, <2>4 DEF IsBodiless
  <2> HIDE DEF g, t, r, n
  <2> QED
    BY <2>1, <2>3, <2>4, <2>7, <2>8, <2>9, <2>10
<1>5. \A x \in WebSends(r, IsHead) : x = g /\ ~IsRejected(r, IsHead)
  BY <1>3
<1>6. IsRejected(r, IsHead) <=> WebSends(r, IsHead) = {}
  BY <1>3
<1> HIDE DEF g
<1> QED
  BY <1>4, <1>5, <1>6

\* The same of a reply r, and of what the client sees of it, g.
IsReply(r) == r = Reply(r.status, r.body, r.headers)

IsSentAs(r, g) ==
    /\ IsWellFramed(g)
    /\ g.channel = "response" /\ g.status = r.status
    /\ OwnHeaders(r) \subseteq g.headers
    /\ g.body = IF IsBodiless(r, IsHead) \/ r.body = "undefined" THEN "nothing" ELSE r.body
    /\ r.body \in {"bytes", "json"} => HasHeader(g.headers, "content-type")

LEMMA WebSent ==
    ASSUME NEW r, IsReply(r)
    PROVE  /\ IsRejected(r, IsHead) <=> WebSends(r, IsHead) = {}
           /\ \A g \in WebSends(r, IsHead) : IsSentAs(r, g)
<1> DEFINE s == Reply(r.status, r.body, r.headers)
<1>1. /\ IsRejected(s, IsHead) <=> WebSends(s, IsHead) = {}
      /\ \A g \in WebSends(s, IsHead) :
            /\ IsWellFramed(g)
            /\ g.channel = "response" /\ g.status = r.status
            /\ OwnHeaders(s) \subseteq g.headers
            /\ g.body = IF IsBodiless(s, IsHead) \/ r.body = "undefined" THEN "nothing" ELSE r.body
            /\ r.body \in {"bytes", "json"} => HasHeader(g.headers, "content-type")
  BY WebSendsIs
<1>2. s = r
  BY DEF IsReply
<1> HIDE DEF s
<1> QED
  BY <1>1, <1>2 DEF IsSentAs

Kinds == {"json", "string", "throws", "unserializable"}

LEMMA JsonIsSent ==
    ASSUME NEW r, IsReply(r), r.status = 500, r.headers = WithJsonType({})
    PROVE  IsRejected(r, IsHead) <=> r.body = "unserializable" /\ ~IsHead
<1>1. r.headers = {Header("content-type", FALSE, "json")}
  BY DEF WithJsonType, Without
<1>2. 500 \in 200 .. 599 /\ 500 \notin Forbidden
  BY DEF Forbidden
<1>3. Header("content-type", FALSE, "json").value # "invalid"
  BY DEF Header
<1>4. /\ \A h, k \in r.headers : h = k
      /\ \A h \in r.headers : h.value # "invalid"
  BY <1>1, <1>3
<1>5. IsRejected(r, IsHead) <=>
        \/ \E h, k \in r.headers : h # k /\ h.name = k.name
        \/ \E h \in r.headers : h.value = "invalid"
        \/ r.body = "unserializable" /\ ~IsHead
  BY <1>2 DEF IsRejected, IsBodiless
<1> QED
  BY <1>4, <1>5

LEMMA InternalIsSent ==
    /\ InternalError = Reply(500, "internal error", WithJsonType({}))
    /\ ~IsRejected(InternalError, IsHead)
<1>1. InternalError = Reply(500, "internal error", WithJsonType({}))
  BY DEF InternalError, WithJsonType, Without
<1>2. /\ IsReply(InternalError) /\ InternalError.status = 500
      /\ InternalError.body = "internal error" /\ InternalError.headers = WithJsonType({})
  BY <1>1 DEF Reply, IsReply
<1>3. IsRejected(InternalError, IsHead) <=> InternalError.body = "unserializable" /\ ~IsHead
  BY <1>2, JsonIsSent
<1> QED
  BY <1>1, <1>2, <1>3

\* A body that is sent as JSON under other headers.
JsonType == Header("content-type", FALSE, "json")
IsSentAsJson(body, headers, g) ==
    /\ IsWellFramed(g) /\ g.status = 500 /\ JsonType \in g.headers
    /\ ~IsHead => g.body = body
    /\ Without(Without(headers, Framing \cup HopByHop), {"content-type"}) \subseteq g.headers

LEMMA JsonFacts ==
    ASSUME NEW body, NEW own, NEW g, IsSentAsJson(body, own, g)
    PROVE  /\ IsWellFramed(g) /\ g.status = 500 /\ JsonType \in g.headers
           /\ ~IsHead => g.body = body
BY DEF IsSentAsJson

LEMMA JsonSent ==
    ASSUME NEW x, IsReply(x), NEW headers, x.status = 500, x.headers = WithJsonType(headers),
           x.body # "undefined", NEW g, IsSentAs(x, g)
    PROVE  IsSentAsJson(x.body, headers, g)
<1>1. x.status \notin Forbidden
  BY DEF Forbidden
<1>2. IsBodiless(x, IsHead) <=> IsHead
  BY <1>1 DEF IsBodiless
<1>3. /\ JsonType \in OwnHeaders(x)
      /\ Without(Without(headers, Framing \cup HopByHop), {"content-type"}) \subseteq OwnHeaders(x)
  BY DEF OwnHeaders, WithJsonType, Without, Header, JsonType, Framing, HopByHop
<1> QED
  BY <1>2, <1>3 DEF IsSentAs, IsSentAsJson

LEMMA BodyOfJson ==
    ASSUME NEW body, body # "undefined", NEW headers,
           NEW g \in WebSends(Reply(500, body, WithJsonType(headers)), IsHead)
    PROVE  IsSentAsJson(body, headers, g)
<1> DEFINE x == Reply(500, body, WithJsonType(headers))
<1>1. IsReply(x) /\ x.status = 500 /\ x.body = body /\ x.headers = WithJsonType(headers)
  BY DEF Reply, IsReply
<1>2. g \in WebSends(x, IsHead)
  OBVIOUS
<1> HIDE DEF x
<1>3. IsSentAs(x, g)
  BY <1>1, <1>2, WebSent
<1> QED
  BY <1>1, <1>3, JsonSent

LEMMA JsonHeaders ==
    ASSUME NEW own, NEW h \in WithJsonType(own), h # JsonType
    PROVE  h \in own /\ h.name # "content-type"
<1>1. h \in Without(own, {"content-type"})
  BY DEF WithJsonType, JsonType
<1> QED
  BY <1>1 DEF Without

\* If the headers can be sent with no body, they can be with one and its type.
LEMMA JsonPasses ==
    ASSUME NEW x, NEW u, NEW headers, x.status = 500, u.status = 500, u.headers = headers,
           x.headers = WithJsonType(headers), x.body # "unserializable", ~IsRejected(u, IsHead)
    PROVE  ~IsRejected(x, IsHead)
<1>1. /\ \A h, k \in headers : h # k => h.name # k.name
      /\ \A h \in headers : h.value # "invalid"
  BY DEF IsRejected
<1>2. \A h \in x.headers : h # JsonType => h \in headers /\ h.name # "content-type"
  <2> SUFFICES ASSUME NEW h \in x.headers, h # JsonType
               PROVE  h \in headers /\ h.name # "content-type"
    OBVIOUS
  <2>1. h \in WithJsonType(headers)
    OBVIOUS
  <2> QED
    BY <2>1, JsonHeaders
<1>3. JsonType.value # "invalid" /\ JsonType.name = "content-type"
  BY DEF Header, JsonType
<1>4. /\ \A h, k \in x.headers : h # k => h.name # k.name
      /\ \A h \in x.headers : h.value # "invalid"
  BY <1>1, <1>2, <1>3
<1>5. 500 \in 200 .. 599
  OBVIOUS
<1> QED
  BY <1>4, <1>5 DEF IsRejected

\* What is sent of a formatter's result, whatever the headers.
LEMMA FormattedIsSent ==
    ASSUME NEW result \in Kinds, NEW headers
    PROVE  LET sent == SendsFormatted(result, headers, IsHead)
               r == Reply(500, "undefined", headers)
           IN  /\ sent # {}
               /\ \A g \in sent :
                     /\ IsSentAsJson(result, headers, g)
                        \/ IsSentAsJson(result, {}, g)
                        \/ IsSentAsJson(InternalError.body, {}, g)
                     /\ result \in {"json", "string"} =>
                          \/ IsSentAsJson(result, headers, g)
                          \/ IsSentAsJson(result, {}, g) /\ IsRejected(r, IsHead)
<1> DEFINE sent == SendsFormatted(result, headers, IsHead)
           r == Reply(500, "undefined", headers)
<1> DEFINE full == WebSends(Reply(500, result, WithJsonType(headers)), IsHead)
           plain == WebSends(Reply(500, result, WithJsonType({})), IsHead)
           internal == WebSends(InternalError, IsHead)
<1>2. sent = IF result = "throws" THEN internal
             ELSE IF full # {} THEN full ELSE IF plain # {} THEN plain ELSE internal
  BY DEF SendsFormatted
<1>3. internal # {}
  <2>1. IsReply(InternalError)
    BY InternalIsSent DEF Reply, IsReply
  <2> QED
    BY <2>1, InternalIsSent, WebSent
<1>4. plain # {} <=> ~(result = "unserializable" /\ ~IsHead)
  <2> DEFINE x == Reply(500, result, WithJsonType({}))
  <2>1. IsReply(x) /\ x.status = 500 /\ x.body = result /\ x.headers = WithJsonType({})
    BY DEF Reply, IsReply
  <2>2. plain = WebSends(x, IsHead)
    OBVIOUS
  <2> HIDE DEF x, plain
  <2> QED
    BY <2>1, <2>2, JsonIsSent, WebSent
<1>5. \A g \in full : IsSentAsJson(result, headers, g)
  BY BodyOfJson DEF Kinds
<1>6. \A g \in plain : IsSentAsJson(result, {}, g)
  BY BodyOfJson DEF Kinds
<1>7. \A g \in internal : IsSentAsJson(InternalError.body, {}, g)
  <2>1. /\ IsReply(InternalError) /\ InternalError.status = 500
        /\ InternalError.headers = WithJsonType({}) /\ InternalError.body # "undefined"
    BY InternalIsSent DEF Reply, IsReply
  <2>2. \A g \in internal : IsSentAs(InternalError, g)
    BY <2>1, WebSent
  <2> HIDE DEF internal
  <2> QED
    BY <2>1, <2>2, JsonSent
<1>8. ASSUME result \in {"json", "string"}, ~IsRejected(r, IsHead)
      PROVE  full # {}
  <2> DEFINE x == Reply(500, result, WithJsonType(headers))
  <2>1. IsReply(x) /\ x.status = 500 /\ x.body = result /\ x.headers = WithJsonType(headers)
    BY DEF Reply, IsReply
  <2>2. full = WebSends(x, IsHead)
    OBVIOUS
  <2>3. r.status = 500 /\ r.headers = headers
    BY DEF Reply
  <2> HIDE DEF x, r, full
  <2>4. ~IsRejected(x, IsHead)
    BY <1>8, <2>1, <2>3, JsonPasses
  <2> QED
    BY <2>1, <2>2, <2>4, WebSent
<1>9. sent # {}
  BY <1>2, <1>3
<1>10. ASSUME NEW g \in sent
       PROVE  /\ IsSentAsJson(result, headers, g)
                 \/ IsSentAsJson(result, {}, g)
                 \/ IsSentAsJson(InternalError.body, {}, g)
              /\ result \in {"json", "string"} =>
                    \/ IsSentAsJson(result, headers, g)
                    \/ IsSentAsJson(result, {}, g) /\ IsRejected(r, IsHead)
  <2> HIDE DEF full, plain, internal, sent, r
  <2> QED
    BY <1>2, <1>4, <1>5, <1>6, <1>7, <1>8, <1>10
<1> HIDE DEF sent
<1> QED
  BY <1>9, <1>10 DEF sent

(* Delivery. *)

IsDelivered(r, sent) ==
    /\ sent = {} => IsRejected(r, IsHead) /\ ~IsFormatted(r) /\ ~FormatterWorks
    /\ \A g \in sent :
          /\ IsWellFramed(g)
          /\ ~IsFormatted(r) /\ ~IsRejected(r, IsHead) => ArrivesAsReplied(r, g)
          /\ IsFormatted(r) /\ transport \in {"fetch", "express"} => ArrivesFormatted(r, g)
          /\ transport = "angular" => ArrivesShaped(r, g)

\* What core makes of a reply that it normalizes.
IsNormal(r) ==
    /\ ~IsRejected(r, IsHead)
    /\ IsBodiless(r, IsHead) => r.body = "undefined"
    /\ \A h \in r.headers : h.name \notin FramingOf(r, IsHead) \cup HopByHop

LEMMA NormalIs ==
    ASSUME NEW r, IsReply(r), ~IsRejected(r, IsHead)
    PROVE  LET n == Normal(WithoutNull(r), IsHead) IN IsReply(n) /\ IsNormal(n)
<1> DEFINE w == WithoutNull(r)
           n == Normal(w, IsHead)
<1>1. /\ w.status = r.status /\ w.headers = r.headers
      /\ w.body = IF r.body = "null" THEN "undefined" ELSE r.body
  BY DEF WithoutNull, IsReply, Reply
<1> HIDE DEF w
<1>2. /\ IsReply(n) /\ n.status = w.status
      /\ n.body = IF IsBodiless(w, IsHead) THEN "undefined" ELSE w.body
      /\ n.headers = Without(w.headers, FramingOf(w, IsHead) \cup HopByHop)
  BY DEF Normal, Reply, IsReply
<1> HIDE DEF n
<1>3. IsBodiless(n, IsHead) = IsBodiless(w, IsHead) /\ FramingOf(n, IsHead) = FramingOf(w, IsHead)
  BY <1>2 DEF IsBodiless, FramingOf
<1>4. n.headers \subseteq r.headers /\ \A h \in n.headers : h.name \notin FramingOf(n, IsHead) \cup HopByHop
  BY <1>1, <1>2, <1>3 DEF Without
<1>5. ~IsRejected(n, IsHead)
  <2>1. r.body # "unserializable" \/ IsBodiless(r, IsHead)
    BY DEF IsRejected
  <2>2. IsBodiless(r, IsHead) = IsBodiless(w, IsHead)
    BY <1>1 DEF IsBodiless
  <2>3. n.body # "unserializable"
    BY <1>1, <1>2, <2>1, <2>2
  <2> QED
    BY <1>1, <1>2, <1>4, <2>3 DEF IsRejected
<1>6. IsBodiless(n, IsHead) => n.body = "undefined"
  BY <1>2, <1>3
<1> QED
  BY <1>2, <1>4, <1>5, <1>6 DEF IsNormal, n, w

LEMMA ServerDelivers ==
    ASSUME NEW r, IsReply(r), IsNormal(r), transport = "server", IsSite(site)
    PROVE  IsDelivered(r, Sent(r))
<1> DEFINE names == {h.name : h \in site.extra}
           m == [r EXCEPT !.headers = Without(@, names) \cup site.extra]
           t == WithType(m, r.body)
           g == Seen("response", t, Serialized(r))
<1>1. Sent(r) = {g}
  BY DEF Sent, NodeSends
<1>2. /\ m = Reply(r.status, r.body, m.headers) /\ m.status = r.status
      /\ m.headers = Without(r.headers, names) \cup site.extra
  <2>1. r = [status |-> r.status, body |-> r.body, headers |-> r.headers]
    BY DEF IsReply, Reply
  <2> DEFINE hs == Without(r.headers, names) \cup site.extra
  <2>2. m = [status |-> r.status, body |-> r.body, headers |-> hs]
    <3> HIDE DEF names
    <3> QED
      BY <2>1
  <2> HIDE DEF names, m, hs
  <2>3. m = Reply(r.status, r.body, hs) /\ m.headers = hs /\ m.status = r.status
    BY <2>2 DEF Reply
  <2> QED
    BY <2>3 DEF hs
<1> HIDE DEF m
<1>3. /\ t = Reply(r.status, r.body, t.headers)
      /\ m.headers \subseteq t.headers
      /\ \A h \in t.headers \ m.headers : /\ h.name = "content-type" /\ h.value \in {"octets", "json"}
                                          /\ ~HasHeader(m.headers, "content-type")
      /\ \A h, k \in t.headers \ m.headers : h = k
      /\ r.body \in {"bytes", "json", "null"} => HasHeader(t.headers, "content-type")
  <2> DEFINE own == m.headers
             y == Reply(r.status, r.body, own)
             z == WithType(y, r.body)
  <2>1. /\ z = Reply(r.status, r.body, z.headers)
        /\ own \subseteq z.headers
        /\ \A h \in z.headers \ own : /\ h.name = "content-type" /\ h.value \in {"octets", "json"}
                                     /\ ~HasHeader(own, "content-type")
        /\ \A h, k \in z.headers \ own : h = k
        /\ r.body \in {"bytes", "json", "null"} => HasHeader(z.headers, "content-type")
    <3> HIDE DEF own
    <3> QED
      BY TypedIs
  <2>2. z = t
    BY <1>2
  <2> HIDE DEF y, z, t
  <2> QED
    BY <2>1, <2>2
<1>4. /\ g.channel = "response" /\ g.status = r.status /\ g.headers = t.headers
      /\ g.body = IF r.status \in Forbidden \/ r.body = "undefined" THEN "nothing" ELSE r.body
  <2>1. t.status = r.status
    BY <1>3 DEF Reply
  <2> HIDE DEF t
  <2> QED
    BY <2>1 DEF Seen, Serialized
<1> HIDE DEF g, t
<1>5. /\ \A h, k \in r.headers : h.name = k.name => h = k
      /\ \A h \in r.headers : h.value # "invalid"
      /\ \A h \in r.headers : h.name \notin FramingOf(r, IsHead) \cup HopByHop
  BY DEF IsNormal, IsRejected
<1>6. /\ \A h, k \in site.extra : h.name = k.name => h = k
      /\ \A h \in site.extra : h.value # "invalid" /\ h.name \notin Framing \cup HopByHop
  BY DEF IsSite
<1>7. /\ \A h, k \in m.headers : h.name = k.name => h = k
      /\ \A h \in m.headers : h.value # "invalid" /\ (h \in r.headers \/ h \in site.extra)
  BY <1>2, <1>5, <1>6 DEF Without
<1>8. /\ \A h, k \in t.headers : h.name = k.name => h = k
      /\ \A h \in t.headers : h.value # "invalid"
  BY <1>3, <1>7 DEF HasHeader
<1>9. \A h \in t.headers \ site.extra : h \in r.headers \/ h.name = "content-type"
  BY <1>3, <1>7
<1>10. IsWellFramed(g)
  <2>1. FramingOf(r, IsHead) \in {Framing, Framing \ {"content-length"}}
        /\ (FramingOf(r, IsHead) # Framing => IsHead \/ r.status = 304)
    BY DEF FramingOf
  <2>2. \A h \in g.headers \ site.extra : h.name \notin HopByHop \cup (Framing \ {"content-length"})
    BY <1>4, <1>5, <1>9, <2>1 DEF HopByHop, Framing
  <2>3. HasHeader(g.headers, "content-length") => IsHead \/ g.status = 304
    <3>1. ASSUME NEW h \in t.headers, h.name = "content-length"
          PROVE  IsHead \/ r.status = 304
      <4>1. h \notin site.extra
        BY <1>6, <3>1 DEF Framing
      <4>2. h \in r.headers
        BY <1>9, <3>1, <4>1
      <4> QED
        BY <1>5, <2>1, <3>1, <4>2 DEF Framing
    <3> QED
      BY <1>4, <3>1 DEF HasHeader
  <2> QED
    BY <1>4, <1>8, <2>2, <2>3 DEF IsWellFramed
<1>11. ArrivesAsReplied(r, g)
  <2>1. \A h \in OwnHeaders(r) : HasHeader(site.extra, h.name) \/ h \in g.headers
    BY <1>2, <1>3, <1>4 DEF OwnHeaders, Without, HasHeader
  <2>2. IsBodiless(r, IsHead) => r.body = "undefined"
    BY DEF IsNormal
  <2>3. r.status \in Forbidden => IsBodiless(r, IsHead)
    BY DEF IsBodiless
  <2> QED
    BY <1>3, <1>4, <2>1, <2>2, <2>3 DEF ArrivesAsReplied
<1> QED
  BY <1>1, <1>10, <1>11 DEF IsDelivered

LEMMA WebArrives ==
    ASSUME NEW r, NEW g, IsSentAs(r, g), transport # "angular"
    PROVE  IsWellFramed(g) /\ ArrivesAsReplied(r, g)
BY DEF IsSentAs, ArrivesAsReplied

LEMMA WebDelivers ==
    ASSUME NEW r, IsReply(r), transport \in {"fetch", "express"}, IsSite(site)
    PROVE  IsDelivered(r, Sent(r))
<1> DEFINE Result == CHOOSE result \in site.result : TRUE
           web == WebSends(r, IsHead)
<1>1. /\ site.result \subseteq Kinds
      /\ site.result # {} => Result \in Kinds /\ site.result = {Result}
  BY DEF IsSite, Kinds
<1>2. Sent(r) = IF IsFormatted(r) THEN SendsFormatted(Result, r.headers, IsHead)
                ELSE IF site.result = {} \/ web # {} THEN web
                ELSE SendsCaught(transport, Result, IsHead)
  BY DEF Sent, IsFormatted
<1>3. FormatterWorks <=> Result \in {"json", "string"} /\ site.result # {}
  BY <1>1 DEF FormatterWorks
<1> HIDE DEF Result, web
<1>4. CASE IsFormatted(r)
  <2>1. Result \in Kinds /\ r.status = 500 /\ site.result = {Result}
    BY <1>1, <1>4 DEF IsFormatted
  <2> DEFINE sent == SendsFormatted(Result, r.headers, IsHead)
             s == Reply(500, "undefined", r.headers)
  <2>2. /\ sent # {}
        /\ \A g \in sent :
              /\ IsSentAsJson(Result, r.headers, g)
                 \/ IsSentAsJson(Result, {}, g)
                 \/ IsSentAsJson(InternalError.body, {}, g)
              /\ Result \in {"json", "string"} =>
                    \/ IsSentAsJson(Result, r.headers, g)
                    \/ /\ IsSentAsJson(Result, {}, g)
                       /\ IsRejected(s, IsHead)
    <3> DEFINE own == r.headers
    <3> HIDE DEF own
    <3>1. LET x == SendsFormatted(Result, own, IsHead)
              y == Reply(500, "undefined", own)
          IN  /\ x # {}
              /\ \A g \in x :
                    /\ IsSentAsJson(Result, own, g)
                       \/ IsSentAsJson(Result, {}, g)
                       \/ IsSentAsJson(InternalError.body, {}, g)
                    /\ Result \in {"json", "string"} =>
                          \/ IsSentAsJson(Result, own, g)
                          \/ /\ IsSentAsJson(Result, {}, g)
                             /\ IsRejected(y, IsHead)
      BY <2>1, FormattedIsSent
    <3> QED
      BY <3>1 DEF own
  <2>3. s = [r EXCEPT !.body = "undefined"]
    <3>1. r = [status |-> 500, body |-> r.body, headers |-> r.headers]
      BY <2>1 DEF IsReply, Reply
    <3>2. s = [status |-> 500, body |-> "undefined", headers |-> r.headers]
      BY DEF Reply
    <3> HIDE DEF s
    <3> QED
      BY <3>1, <3>2
  <2> HIDE DEF sent, s
  <2>4. ASSUME NEW g \in sent
        PROVE  IsWellFramed(g) /\ ArrivesFormatted(r, g)
    <3>1. /\ IsWellFramed(g) /\ g.status = 500 /\ JsonType \in g.headers
          /\ ~IsHead => g.body \in {Result, "internal error"}
      <4>1. PICK own : IsSentAsJson(Result, own, g) \/ IsSentAsJson(InternalError.body, own, g)
        BY <2>2, <2>4
      <4>2. CASE IsSentAsJson(Result, own, g)
        <5>1. IsWellFramed(g) /\ g.status = 500
          BY <4>2, JsonFacts
        <5>2. JsonType \in g.headers
          BY <4>2, JsonFacts
        <5>3. ~IsHead => g.body = Result
          BY <4>2, JsonFacts
        <5> QED
          BY <5>1, <5>2, <5>3
      <4>3. CASE IsSentAsJson(InternalError.body, own, g)
        <5>1. IsWellFramed(g) /\ g.status = 500
          BY <4>3, JsonFacts
        <5>2. JsonType \in g.headers
          BY <4>3, JsonFacts
        <5>3. ~IsHead => g.body = InternalError.body
          BY <4>3, JsonFacts
        <5>4. InternalError.body = "internal error"
          BY DEF InternalError, Reply
        <5> QED
          BY <5>1, <5>2, <5>3, <5>4
      <4> QED
        BY <4>1, <4>2, <4>3
    <3>2. ~IsHead /\ FormatterWorks => g.body = Result
      <4> SUFFICES ASSUME ~IsHead, FormatterWorks PROVE g.body = Result
        OBVIOUS
      <4>1. PICK own \in {r.headers, {}} : IsSentAsJson(Result, own, g)
        BY <1>3, <2>2, <2>4
      <4> QED
        BY <4>1, JsonFacts
    <3>3. site.result = {Result}
      BY <2>1
    <3>4. FormatterWorks /\ ~IsRejected([r EXCEPT !.body = "undefined"], IsHead)
             => Without(OwnHeaders(r), {"content-type"}) \subseteq g.headers
      BY <1>3, <2>2, <2>3, <2>4 DEF IsSentAsJson, OwnHeaders
    <3> QED
      BY <2>1, <3>1, <3>2, <3>3, <3>4 DEF ArrivesFormatted, JsonType
  <2>5. Sent(r) = sent
    BY <1>2, <1>4 DEF sent
  <2> QED
    BY <1>4, <2>2, <2>4, <2>5 DEF IsDelivered
<1>5. CASE ~IsFormatted(r) /\ (site.result = {} \/ web # {})
  <2>1. Sent(r) = web
    BY <1>2, <1>5
  <2>2. /\ IsRejected(r, IsHead) <=> web = {}
        /\ \A g \in web : IsSentAs(r, g)
    BY WebSent DEF web
  <2>3. \A g \in web : IsWellFramed(g) /\ ArrivesAsReplied(r, g)
    BY <2>2, WebArrives
  <2>4. web = {} => ~FormatterWorks
    BY <1>5, <1>3
  <2> QED
    BY <1>5, <2>1, <2>2, <2>3, <2>4 DEF IsDelivered
<1>6. CASE ~IsFormatted(r) /\ site.result # {} /\ web = {}
  <2> DEFINE sent == SendsCaught(transport, Result, IsHead)
  <2>1. Sent(r) = sent
    BY <1>2, <1>6
  <2>2. IsRejected(r, IsHead)
    BY <1>6, WebSent DEF web
  <2>3. Result \in Kinds
    BY <1>1, <1>6
  <2>4. CASE transport = "express"
    <3>1. sent = SendsFormatted(Result, {}, IsHead)
      BY <2>4 DEF SendsCaught
    <3>2. /\ SendsFormatted(Result, {}, IsHead) # {}
          /\ \A g \in SendsFormatted(Result, {}, IsHead) :
                \/ IsSentAsJson(Result, {}, g) \/ IsSentAsJson(InternalError.body, {}, g)
      BY <2>3, FormattedIsSent
    <3>3. \A g \in sent : IsWellFramed(g)
      BY <3>1, <3>2, JsonFacts
    <3> HIDE DEF sent
    <3> QED
      BY <1>6, <2>1, <2>2, <2>4, <3>1, <3>2, <3>3 DEF IsDelivered
  <2>5. CASE transport = "fetch"
    <3> DEFINE x == Reply(500, Result, WithJsonType({}))
    <3>1. sent = IF Result = "throws" THEN {} ELSE WebSends(x, IsHead)
      <4>1. sent = UNION {WebSends(Reply(500, body, WithJsonType({})), IsHead) :
                             body \in {Result} \ {"throws"}}
        BY <2>5 DEF SendsCaught
      <4>2. CASE Result = "throws"
        BY <4>1, <4>2
      <4>3. CASE Result # "throws"
        <5>1. {Result} \ {"throws"} = {Result}
          BY <4>3
        <5> QED
          BY <4>1, <4>3, <5>1
      <4> QED
        BY <4>2, <4>3
    <3>2. IsReply(x) /\ x.status = 500 /\ x.body = Result /\ x.headers = WithJsonType({})
      BY DEF Reply, IsReply
    <3> HIDE DEF x, sent
    <3>3. Result \in {"json", "string"} => sent # {}
      BY <3>1, <3>2, JsonIsSent, WebSent
    <3>4. \A g \in sent : IsWellFramed(g)
      BY <3>1, <3>2, WebSent DEF IsSentAs
    <3> QED
      BY <1>3, <1>6, <2>1, <2>2, <2>5, <3>3, <3>4 DEF IsDelivered
  <2> QED
    BY <2>4, <2>5
<1> QED
  BY <1>4, <1>5, <1>6

LEMMA ShapedIs ==
    ASSUME NEW body, NEW code, NEW type
    PROVE  LET b == ShapedBody(body, code, type) IN
           /\ type # "json" => \/ b.type = type
                               \/ b.type = "null" /\ code = 204
                               \/ b.content = "unserializable"
           /\ (code \in Forbidden => body = "undefined")
              => b.content = IF type = "json" \/ body \notin {"undefined", "null"}
                             THEN body ELSE "nothing"
<1> DEFINE b == ShapedBody(body, code, type)
<1>1. \A t, c : Shaped(t, c).type = t /\ Shaped(t, c).content = c
  BY DEF Shaped
<1>2. CASE type = "json"
  BY <1>1, <1>2 DEF ShapedBody
<1>3. CASE type # "json" /\ body \in {"undefined", "null"}
  <2>1. b = EmptyBody(code, type)
    BY <1>3 DEF ShapedBody
  <2>2. (b = Shaped("null", "nothing") /\ code = 204) \/ b = Shaped(type, "nothing")
    BY <1>3, <2>1 DEF EmptyBody
  <2> HIDE DEF b
  <2>3. b.content = "nothing" /\ ((b.type = "null" /\ code = 204) \/ b.type = type)
    BY <1>1, <2>2
  <2> QED
    BY <1>3, <2>3 DEF b
<1>4. CASE type # "json" /\ body \notin {"undefined", "null"} /\ code \in Forbidden
  <2>1. b = EmptyBody(code, type)
    BY <1>4 DEF ShapedBody
  <2>2. (b = Shaped("null", "nothing") /\ code = 204) \/ b = Shaped(type, "nothing")
    BY <1>4, <2>1 DEF EmptyBody
  <2> HIDE DEF b
  <2>3. (b.type = "null" /\ code = 204) \/ b.type = type
    BY <1>1, <2>2
  <2> QED
    BY <1>4, <2>3 DEF b
<1>5. CASE type # "json" /\ body \notin {"undefined", "null"} /\ code \notin Forbidden
  <2>1. b = IF body = "unserializable" THEN Shaped("json", body) ELSE Shaped(type, body)
    BY <1>5 DEF ShapedBody
  <2> HIDE DEF b
  <2>2. b.content = body /\ (body = "unserializable" \/ b.type = type)
    BY <1>1, <2>1
  <2> QED
    BY <1>5, <2>2 DEF b
<1> QED
  BY <1>2, <1>3, <1>4, <1>5

\* What normalizing leaves of the headers of a reply frames nothing.
LEMMA NormalFrames ==
    ASSUME NEW r, IsReply(r), ~IsRejected(r, IsHead), NEW g,
           g.status = r.status, g.headers = Normal(r, IsHead).headers
    PROVE  IsWellFramed(g) /\ OwnHeaders(r) \subseteq g.headers
<1>1. g.headers = Without(r.headers, FramingOf(r, IsHead) \cup HopByHop)
  BY DEF Normal, Reply
<1>2. /\ \A h, k \in r.headers : h.name = k.name => h = k
      /\ \A h \in r.headers : h.value # "invalid"
  BY DEF IsRejected
<1>3. FramingOf(r, IsHead) \in {Framing, Framing \ {"content-length"}}
      /\ (FramingOf(r, IsHead) # Framing => IsHead \/ r.status = 304)
  BY DEF FramingOf
<1>4. HasHeader(g.headers, "content-length") => IsHead \/ g.status = 304
  <2>1. "content-length" \in Framing
    BY DEF Framing
  <2> QED
    BY <1>1, <1>3, <2>1 DEF HasHeader, Without
<1>5. \A h \in g.headers : h.name \notin HopByHop \cup (Framing \ {"content-length"})
  BY <1>1, <1>3 DEF Without
<1>6. g.headers \subseteq r.headers
  BY <1>1 DEF Without
<1>7. IsWellFramed(g)
  BY <1>2, <1>4, <1>5, <1>6 DEF IsWellFramed
<1>8. OwnHeaders(r) \subseteq g.headers
  BY <1>1, <1>3 DEF OwnHeaders, Without
<1> QED
  BY <1>7, <1>8

LEMMA AngularDelivers ==
    ASSUME NEW r, IsReply(r), transport = "angular", IsSite(site)
    PROVE  IsDelivered(r, Sent(r))
<1> DEFINE Result == CHOOSE result \in site.result : TRUE
           result == IF site.result = {} THEN "internal error" ELSE Result
           type == message.responseType
<1>1. Sent(r) = AngularSends(r, type, IsHead, IsFormatted(r), result)
  BY DEF Sent, IsFormatted
<1> HIDE DEF result, type
<1>2. CASE IsRejected(r, IsHead)
  <2> DEFINE f == IF result = "throws" THEN InternalError ELSE Reply(500, result, WithJsonType({}))
             kept == IF IsRejected(f, IsHead) THEN InternalError ELSE f
             n == IF IsRejected(f, IsHead) THEN InternalError ELSE Normal(f, IsHead)
             g == Seen("error", n, ShapedBody(n.body, n.status, type))
  <2>1. Sent(r) = {g}
    BY <1>1, <1>2 DEF AngularSends, AngularErrs, AngularSees
  <2>2. IsReply(InternalError) /\ InternalError.status = 500 /\ ~IsRejected(InternalError, IsHead)
        /\ InternalError.headers = {JsonType}
    <3>1. ~IsRejected(InternalError, IsHead)
      BY InternalIsSent
    <3> QED
      BY <3>1 DEF InternalError, Reply, IsReply, JsonType
  <2>3. IsReply(f) /\ f.status = 500
    BY <2>2 DEF Reply, IsReply
  <2> HIDE DEF f
  <2>4. /\ g.status = n.status /\ g.headers = n.headers
        /\ g.body = ShapedBody(n.body, n.status, type)
    BY DEF Seen
  <2>5. ASSUME IsRejected(f, IsHead) PROVE IsWellFramed(g)
    <3>1. n = InternalError
      BY <2>5
    <3> HIDE DEF n, g
    <3>2. g.headers = {JsonType}
      BY <2>2, <2>4, <3>1
    <3>3. JsonType.value # "invalid" /\ JsonType.name = "content-type"
      BY DEF Header, JsonType
    <3>4. "content-type" \notin HopByHop \cup Framing /\ "content-type" # "content-length"
      BY DEF HopByHop, Framing
    <3> QED
      BY <3>2, <3>3, <3>4 DEF IsWellFramed, HasHeader
  <2>6. ASSUME ~IsRejected(f, IsHead) PROVE IsWellFramed(g)
    <3>1. n = Normal(f, IsHead) /\ n.status = 500
      BY <2>3, <2>6 DEF Normal, Reply
    <3> HIDE DEF n, g
    <3>2. g.status = f.status /\ g.headers = Normal(f, IsHead).headers
      BY <2>3, <2>4, <3>1
    <3> QED
      BY <2>3, <2>6, <3>2, NormalFrames
  <2>7. IsWellFramed(g)
    BY <2>5, <2>6
  <2> HIDE DEF g, n
  <2>8. ArrivesShaped(r, g)
    <3>1. type # "json" => \/ g.body.type = type
                           \/ g.body.type = "null" /\ g.status = 204
                           \/ g.body.content = "unserializable"
      BY <2>4, ShapedIs
    <3> QED
      BY <1>2, <3>1 DEF ArrivesShaped, type
  <2> QED
    BY <1>2, <2>1, <2>7, <2>8 DEF IsDelivered
<1>3. CASE ~IsRejected(r, IsHead)
  <2> DEFINE n == Normal(r, IsHead)
             body == IF IsFormatted(r) /\ n.status = 500
                     THEN IF result = "throws" THEN "internal error" ELSE result
                     ELSE n.body
             g == Seen(IF IsSuccess(n.status) THEN "response" ELSE "error", n,
                       ShapedBody(body, n.status, type))
  <2>1. Sent(r) = {g}
    BY <1>1, <1>3 DEF AngularSends, AngularSees
  <2>2. n.status = r.status /\ n.body = IF IsBodiless(r, IsHead) THEN "undefined" ELSE r.body
    BY DEF Normal, Reply
  <2>3. /\ g.status = n.status /\ g.headers = n.headers
        /\ g.channel = IF IsSuccess(n.status) THEN "response" ELSE "error"
        /\ g.body = ShapedBody(body, n.status, type)
    BY DEF Seen
  <2> HIDE DEF g
  <2>4. IsWellFramed(g) /\ OwnHeaders(r) \subseteq g.headers
    <3>1. g.status = r.status /\ g.headers = Normal(r, IsHead).headers
      BY <2>2, <2>3
    <3> QED
      BY <1>3, <3>1, NormalFrames
  <2>5. ArrivesAsReplied(r, g)
    BY <2>2, <2>3, <2>4 DEF ArrivesAsReplied, IsSuccess
  <2>6. ~IsFormatted(r) => body = n.body
    OBVIOUS
  <2> HIDE DEF body, n
  <2>7. ArrivesShaped(r, g)
    <3>1. type # "json" => \/ g.body.type = type
                           \/ g.body.type = "null" /\ g.status = 204
                           \/ g.body.content = "unserializable"
      BY <2>3, ShapedIs
    <3>2. ASSUME ~IsFormatted(r)
          PROVE  g.body.content = IF type = "json" \/ n.body \notin {"undefined", "null"}
                                  THEN n.body ELSE "nothing"
      <4>1. r.status \in Forbidden => body = "undefined"
        BY <2>2, <2>6, <3>2 DEF IsBodiless
      <4> QED
        BY <2>2, <2>3, <2>6, <3>2, <4>1, ShapedIs
    <3> QED
      BY <2>2, <3>1, <3>2 DEF ArrivesShaped, type
  <2> QED
    BY <1>3, <2>1, <2>4, <2>5, <2>7 DEF IsDelivered
<1> QED
  BY <1>2, <1>3

LEMMA EveryTransportDelivers ==
    ASSUME NEW r, IsReply(r), transport \in {"fetch", "server", "express", "angular"},
           transport = "server" => IsNormal(r), IsSite(site)
    PROVE  IsDelivered(r, Sent(r))
BY ServerDelivers, WebDelivers, AngularDelivers

-----------------------------------------------------------------------------
(* Spelling. *)

Characters == Plain \cup Unsafe \cup {"/", "%"}
Texts == Seq(Seq(Characters))
Spellings == Seq(Seq(Letters))

LEMMA ListIs ==
    ASSUME NEW S, NEW n \in Nat, NEW f \in [1 .. n -> S]
    PROVE  f \in Seq(S) /\ Len(f) = n
OBVIOUS

LEMMA SameList ==
    ASSUME NEW S, NEW s \in Seq(S), NEW T, NEW t \in Seq(T), Len(s) = Len(t),
           \A i \in 1 .. Len(s) : s[i] = t[i]
    PROVE  s = t
OBVIOUS

\* How core spells a text.
Proper(char) == Letter(char, IF char \in Plain THEN "raw" ELSE "upper")
Spell(text) == [i \in DOMAIN text |-> [j \in DOMAIN text[i] |-> Proper(text[i][j])]]

\* A letter is known by its character, and core spells the character in one way.
LEMMA LetterIs ==
    ASSUME NEW l \in Letters
    PROVE  /\ l.char \in Characters /\ l # LonePercent
           /\ l.char \in Plain => l = Letter(l.char, "raw")
           /\ (IF l.as = "lower" \/ (l.as = "raw" /\ l.char \in Unsafe)
               THEN Letter(l.char, "upper") ELSE l) = Proper(l.char)
           /\ LET u == IF l.as = "raw" /\ l.char \in Unsafe THEN Letter(l.char, "upper") ELSE l
              IN  u \in Letters /\ u.char = l.char
<1> USE DEF Letter
<1>1. CASE \E c \in Plain : l = Letter(c, "raw")
  <2>1. PICK c \in Plain : l = Letter(c, "raw")
    BY <1>1
  <2>2. c \notin Unsafe /\ c # "%" /\ l.char = c /\ l.as = "raw"
    BY <2>1, CharactersAssumption
  <2> QED
    BY <2>1, <2>2 DEF Characters, LonePercent, Proper
<1>2. CASE \E c \in Unsafe : l = Letter(c, "raw")
  <2>1. PICK c \in Unsafe : l = Letter(c, "raw")
    BY <1>2
  <2>2. c \notin Plain /\ c # "%" /\ l.char = c /\ l.as = "raw"
    BY <2>1, CharactersAssumption
  <2>3. Letter(c, "upper") \in Letters
    BY DEF Letters
  <2> QED
    BY <2>1, <2>2, <2>3 DEF Characters, LonePercent, Proper
<1>3. CASE \E c \in Unsafe \cup {"/", "%"}, as \in {"lower", "upper"} : l = Letter(c, as)
  <2>1. PICK c \in Unsafe \cup {"/", "%"}, as \in {"lower", "upper"} : l = Letter(c, as)
    BY <1>3
  <2>2. c \notin Plain /\ l.char = c /\ l.as = as
    BY <2>1, CharactersAssumption
  <2> QED
    BY <2>1, <2>2 DEF Characters, LonePercent, Proper
<1> QED
  BY <1>1, <1>2, <1>3 DEF Letters

LEMMA ProperIs ==
    ASSUME NEW c \in Characters
    PROVE  /\ Proper(c) \in Letters /\ Proper(c).char = c
           /\ \A d \in Characters : Proper(c) = Proper(d) => c = d
<1>1. Proper(c).char = c /\ \A d : Proper(d).char = d
  BY DEF Proper, Letter
<1>2. Proper(c) \in Letters
  BY DEF Proper, Letters, Characters
<1> QED
  BY <1>1, <1>2

LEMMA SpellIs ==
    ASSUME NEW t \in Texts
    PROVE  /\ Spell(t) \in Spellings /\ Len(Spell(t)) = Len(t) /\ DOMAIN Spell(t) = DOMAIN t
           /\ \A i \in DOMAIN t : /\ DOMAIN Spell(t)[i] = DOMAIN t[i]
                                  /\ Len(Spell(t)[i]) = Len(t[i])
                                  /\ \A j \in DOMAIN t[i] : Spell(t)[i][j] = Proper(t[i][j])
           /\ Denoted(Spell(t)) = t
<1>1. \A i \in DOMAIN t : t[i] \in Seq(Characters)
  BY DEF Texts
<1>2. \A i \in DOMAIN t : [j \in DOMAIN t[i] |-> Proper(t[i][j])] \in Seq(Letters)
  <2> SUFFICES ASSUME NEW i \in DOMAIN t
               PROVE  [j \in DOMAIN t[i] |-> Proper(t[i][j])] \in Seq(Letters)
    OBVIOUS
  <2>1. \A j \in DOMAIN t[i] : Proper(t[i][j]) \in Letters
    BY <1>1, ProperIs
  <2>2. t[i] \in Seq(Characters)
    BY <1>1
  <2> QED
    BY <2>1, <2>2
<1>3. Spell(t) \in Spellings /\ Len(Spell(t)) = Len(t) /\ DOMAIN Spell(t) = DOMAIN t
  <2>1. t \in Seq(Seq(Characters))
    BY DEF Texts
  <2> DEFINE s == [i \in DOMAIN t |-> [j \in DOMAIN t[i] |-> Proper(t[i][j])]]
  <2>2. s \in [1 .. Len(t) -> Seq(Letters)] /\ DOMAIN t = 1 .. Len(t) /\ Len(t) \in Nat
    BY <1>2, <2>1
  <2>3. Spell(t) = s
    BY DEF Spell
  <2> HIDE DEF s
  <2> QED
    BY <2>2, <2>3 DEF Spellings
<1>4. ASSUME NEW i \in DOMAIN t
      PROVE  /\ DOMAIN Spell(t)[i] = DOMAIN t[i]
             /\ Len(Spell(t)[i]) = Len(t[i])
             /\ \A j \in DOMAIN t[i] : Spell(t)[i][j] = Proper(t[i][j])
  <2>1. Spell(t)[i] = [j \in DOMAIN t[i] |-> Proper(t[i][j])]
    BY DEF Spell
  <2>2. t[i] \in Seq(Characters)
    BY <1>1
  <2> QED
    BY <2>1, <2>2
<1>5. Denoted(Spell(t)) = t
  <2>1. \A i \in DOMAIN t : [j \in DOMAIN Spell(t)[i] |-> Spell(t)[i][j].char] = t[i]
    <3> SUFFICES ASSUME NEW i \in DOMAIN t
                 PROVE  [j \in DOMAIN Spell(t)[i] |-> Spell(t)[i][j].char] = t[i]
      OBVIOUS
    <3>1. t[i] \in Seq(Characters)
      BY <1>1
    <3>2. \A j \in DOMAIN t[i] : Spell(t)[i][j].char = t[i][j]
      BY <1>4, <3>1, ProperIs
    <3>3. [j \in DOMAIN Spell(t)[i] |-> Spell(t)[i][j].char] = [j \in DOMAIN t[i] |-> t[i][j]]
      BY <1>4, <3>2
    <3>4. t[i] = [j \in DOMAIN t[i] |-> t[i][j]]
      BY <3>1
    <3> QED
      BY <3>3, <3>4
  <2>2. t = [i \in DOMAIN t |-> t[i]]
    BY DEF Texts
  <2>3. Denoted(Spell(t)) = [i \in DOMAIN Spell(t) |->
                                [j \in DOMAIN Spell(t)[i] |-> Spell(t)[i][j].char]]
    BY DEF Denoted
  <2> QED
    BY <1>3, <2>1, <2>2, <2>3
<1> QED
  BY <1>3, <1>4, <1>5

\* Two segments are spelled alike exactly if they are the same text.
LEMMA SpellTells ==
    ASSUME NEW t \in Texts, NEW u \in Texts, NEW i \in DOMAIN t, NEW k \in DOMAIN u
    PROVE  Spell(t)[i] = Spell(u)[k] <=> t[i] = u[k]
<1>1. t[i] \in Seq(Characters) /\ u[k] \in Seq(Characters)
  BY DEF Texts
<1>2. t[i] = u[k] => Spell(t)[i] = Spell(u)[k]
  BY DEF Spell
<1>3. ASSUME Spell(t)[i] = Spell(u)[k] PROVE t[i] = u[k]
  <2>1. Len(t[i]) = Len(u[k]) /\ DOMAIN t[i] = DOMAIN u[k]
    BY <1>3, SpellIs
  <2>2. \A j \in DOMAIN t[i] : Proper(t[i][j]) = Proper(u[k][j])
    BY <1>3, <2>1, SpellIs
  <2>3. \A j \in DOMAIN t[i] : t[i][j] \in Characters /\ u[k][j] \in Characters
    BY <1>1, <2>1
  <2>4. \A j \in DOMAIN t[i] : t[i][j] = u[k][j]
    BY <2>2, <2>3, ProperIs
  <2> QED
    BY <1>1, <2>1, <2>4
<1> QED
  BY <1>2, <1>3

LEMMA DenotedIs ==
    ASSUME NEW p \in Spellings
    PROVE  /\ Denoted(p) \in Texts /\ Len(Denoted(p)) = Len(p) /\ DOMAIN Denoted(p) = DOMAIN p
           /\ \A i \in DOMAIN p : /\ DOMAIN Denoted(p)[i] = DOMAIN p[i]
                                  /\ Len(Denoted(p)[i]) = Len(p[i])
                                  /\ \A j \in DOMAIN p[i] : Denoted(p)[i][j] = p[i][j].char
           /\ Canonical(p) = Spell(Denoted(p))
<1>1. \A i \in DOMAIN p : p[i] \in Seq(Letters)
  BY DEF Spellings
<1>2. \A i \in DOMAIN p : \A j \in DOMAIN p[i] : p[i][j] \in Letters
  BY <1>1
<1>3. ASSUME NEW i \in DOMAIN p
      PROVE  [j \in DOMAIN p[i] |-> p[i][j].char] \in Seq(Characters)
  <2>1. \A j \in DOMAIN p[i] : p[i][j].char \in Characters
    BY <1>2, LetterIs
  <2>2. p[i] \in Seq(Letters)
    BY <1>1
  <2> QED
    BY <2>1, <2>2
<1>4. Denoted(p) \in Texts /\ Len(Denoted(p)) = Len(p) /\ DOMAIN Denoted(p) = DOMAIN p
  <2>1. p \in Seq(Seq(Letters))
    BY DEF Spellings
  <2> DEFINE s == [i \in DOMAIN p |-> [j \in DOMAIN p[i] |-> p[i][j].char]]
  <2>2. s \in [1 .. Len(p) -> Seq(Characters)] /\ DOMAIN p = 1 .. Len(p) /\ Len(p) \in Nat
    BY <1>3, <2>1
  <2>3. Denoted(p) = s
    BY DEF Denoted
  <2> HIDE DEF s
  <2> QED
    BY <2>2, <2>3 DEF Texts
<1>5. ASSUME NEW i \in DOMAIN p
      PROVE  /\ DOMAIN Denoted(p)[i] = DOMAIN p[i]
             /\ Len(Denoted(p)[i]) = Len(p[i])
             /\ \A j \in DOMAIN p[i] : Denoted(p)[i][j] = p[i][j].char
  <2>1. Denoted(p)[i] = [j \in DOMAIN p[i] |-> p[i][j].char]
    BY DEF Denoted
  <2>2. p[i] \in Seq(Letters)
    BY <1>1
  <2> QED
    BY <2>1, <2>2
<1>6. Canonical(p) = Spell(Denoted(p))
  <2> DEFINE Of(l) == IF l.as = "lower" \/ (l.as = "raw" /\ l.char \in Unsafe)
                      THEN Letter(l.char, "upper") ELSE l
  <2>1. Canonical(p) = [i \in DOMAIN p |-> [j \in DOMAIN p[i] |-> Of(p[i][j])]]
    BY DEF Canonical, MapLetters
  <2>2. \A i \in DOMAIN p : \A j \in DOMAIN p[i] : Of(p[i][j]) = Proper(Denoted(p)[i][j])
    BY <1>2, <1>5, LetterIs
  <2>3. Spell(Denoted(p)) = [i \in DOMAIN Denoted(p) |->
                                [j \in DOMAIN Denoted(p)[i] |-> Proper(Denoted(p)[i][j])]]
    BY DEF Spell
  <2> HIDE DEF Of
  <2>4. \A i \in DOMAIN p : [j \in DOMAIN p[i] |-> Of(p[i][j])]
                               = [j \in DOMAIN Denoted(p)[i] |-> Proper(Denoted(p)[i][j])]
    BY <1>5, <2>2
  <2> QED
    BY <1>4, <2>1, <2>3, <2>4
<1> QED
  BY <1>4, <1>5, <1>6

LEMMA UrlPathIs ==
    ASSUME NEW p \in Spellings
    PROVE  UrlPath(p) \in Spellings /\ Denoted(UrlPath(p)) = Denoted(p)
<1> DEFINE Of(l) == IF l.as = "raw" /\ l.char \in Unsafe THEN Letter(l.char, "upper") ELSE l
<1>1. \A i \in DOMAIN p : p[i] \in Seq(Letters)
  BY DEF Spellings
<1>2. \A i \in DOMAIN p : \A j \in DOMAIN p[i] : Of(p[i][j]) \in Letters /\ Of(p[i][j]).char = p[i][j].char
  BY <1>1, LetterIs
<1>3. UrlPath(p) = [i \in DOMAIN p |-> [j \in DOMAIN p[i] |-> Of(p[i][j])]]
  BY DEF UrlPath, MapLetters
<1> HIDE DEF Of
<1>4. ASSUME NEW i \in DOMAIN p
      PROVE  [j \in DOMAIN p[i] |-> Of(p[i][j])] \in Seq(Letters)
  <2>1. p[i] \in Seq(Letters)
    BY <1>1
  <2> QED
    BY <1>2, <2>1
<1>5. UrlPath(p) \in Spellings
  <2>1. p \in Seq(Seq(Letters))
    BY DEF Spellings
  <2> DEFINE u == [i \in DOMAIN p |-> [j \in DOMAIN p[i] |-> Of(p[i][j])]]
  <2>2. u \in [1 .. Len(p) -> Seq(Letters)] /\ Len(p) \in Nat
    BY <1>4, <2>1
  <2>3. UrlPath(p) = u
    BY <1>3
  <2> HIDE DEF u
  <2> QED
    BY <2>2, <2>3, ListIs DEF Spellings
<1>6. DOMAIN UrlPath(p) = DOMAIN p
      /\ \A i \in DOMAIN p : /\ DOMAIN UrlPath(p)[i] = DOMAIN p[i]
                             /\ \A j \in DOMAIN p[i] : UrlPath(p)[i][j].char = p[i][j].char
  BY <1>2, <1>3
<1>7. Denoted(UrlPath(p)) = Denoted(p)
  <2>1. \A i \in DOMAIN p : [j \in DOMAIN UrlPath(p)[i] |-> UrlPath(p)[i][j].char]
                               = [j \in DOMAIN p[i] |-> p[i][j].char]
    BY <1>6
  <2> QED
    BY <1>6, <2>1 DEF Denoted
<1> QED
  BY <1>5, <1>7

\* Cutting a text and cutting its spelling are the same.
LEMMA CutIs ==
    ASSUME NEW S, NEW s \in Seq(S), NEW m \in 1 .. Len(s) + 1, NEW n \in 0 .. Len(s)
    PROVE  /\ SubSeq(s, m, n) \in Seq(S)
           /\ Len(SubSeq(s, m, n)) = IF m <= n THEN n - m + 1 ELSE 0
           /\ \A i \in 1 .. Len(SubSeq(s, m, n)) : SubSeq(s, m, n)[i] = s[m + i - 1]
<1>1. SubSeq(s, m, n) \in Seq(S)
  OBVIOUS
<1> QED
  BY <1>1

LEMMA SpellCut ==
    ASSUME NEW t \in Texts, NEW m \in 1 .. Len(t) + 1, NEW n \in 0 .. Len(t)
    PROVE  SubSeq(t, m, n) \in Texts /\ Spell(SubSeq(t, m, n)) = SubSeq(Spell(t), m, n)
<1> DEFINE c == SubSeq(t, m, n)
           s == Spell(t)
           d == SubSeq(s, m, n)
<1>1. /\ c \in Texts /\ Len(c) = IF m <= n THEN n - m + 1 ELSE 0
      /\ \A i \in 1 .. Len(c) : c[i] = t[m + i - 1]
  BY CutIs DEF Texts
<1>2. s \in Spellings /\ Len(s) = Len(t)
  BY SpellIs
<1>3. /\ d \in Spellings /\ Len(d) = Len(c)
      /\ \A i \in 1 .. Len(d) : d[i] = s[m + i - 1]
  <2> HIDE DEF s, c
  <2>1. s \in Seq(Seq(Letters)) /\ m \in 1 .. Len(s) + 1 /\ n \in 0 .. Len(s)
    BY <1>2 DEF Spellings
  <2> QED
    BY <1>1, <2>1, CutIs DEF Spellings
<1> HIDE DEF c, d, s
<1>4. Spell(c) \in Spellings /\ Len(Spell(c)) = Len(c)
  BY <1>1, SpellIs
<1>5. ASSUME NEW i \in 1 .. Len(c) PROVE Spell(c)[i] = d[i]
  <2>1. Len(c) \in Nat /\ DOMAIN c = 1 .. Len(c) /\ DOMAIN t = 1 .. Len(t) /\ Len(t) \in Nat
    BY <1>1 DEF Texts
  <2>2. i \in DOMAIN c /\ m + i - 1 \in DOMAIN t
    BY <1>1, <2>1
  <2>3. c[i] = t[m + i - 1]
    BY <1>1
  <2>4. Spell(c)[i] = Spell(t)[m + i - 1]
    BY <1>1, <2>2, <2>3, SpellTells
  <2> QED
    BY <1>3, <2>4 DEF s
<1>6. Spell(c) = d
  <2>1. Spell(c) \in Seq(Seq(Letters)) /\ d \in Seq(Seq(Letters)) /\ Len(Spell(c)) = Len(d)
    BY <1>3, <1>4 DEF Spellings
  <2> QED
    BY <1>3, <1>4, <1>5, <2>1, SameList
<1> QED
  BY <1>1, <1>6 DEF c, d, s

LEMMA DenotedCut ==
    ASSUME NEW p \in Spellings, NEW m \in 1 .. Len(p) + 1, NEW n \in 0 .. Len(p)
    PROVE  SubSeq(p, m, n) \in Spellings /\ Denoted(SubSeq(p, m, n)) = SubSeq(Denoted(p), m, n)
<1> DEFINE c == SubSeq(p, m, n)
           t == Denoted(p)
           d == SubSeq(t, m, n)
<1>1. /\ c \in Spellings /\ Len(c) = IF m <= n THEN n - m + 1 ELSE 0
      /\ \A i \in 1 .. Len(c) : c[i] = p[m + i - 1]
  BY CutIs DEF Spellings
<1>2. t \in Texts /\ Len(t) = Len(p)
  BY DenotedIs
<1>3. /\ d \in Texts /\ Len(d) = Len(c)
      /\ \A i \in 1 .. Len(d) : d[i] = t[m + i - 1]
  <2> HIDE DEF t, c
  <2>1. t \in Seq(Seq(Characters)) /\ m \in 1 .. Len(t) + 1 /\ n \in 0 .. Len(t)
    BY <1>2 DEF Texts
  <2> QED
    BY <1>1, <2>1, CutIs DEF Texts
<1> HIDE DEF c, d, t
<1>4. Denoted(c) \in Texts /\ Len(Denoted(c)) = Len(c)
  BY <1>1, DenotedIs
<1>5. ASSUME NEW i \in 1 .. Len(c) PROVE Denoted(c)[i] = d[i]
  <2>1. Len(c) \in Nat /\ DOMAIN c = 1 .. Len(c) /\ DOMAIN p = 1 .. Len(p) /\ Len(p) \in Nat
    BY <1>1 DEF Spellings
  <2>2. i \in DOMAIN c /\ m + i - 1 \in DOMAIN p
    BY <1>1, <2>1
  <2>3. c[i] = p[m + i - 1]
    BY <1>1
  <2>4. Denoted(c)[i] = t[m + i - 1]
    BY <2>2, <2>3 DEF Denoted, t
  <2> QED
    BY <1>3, <2>4
<1>6. Denoted(c) = d
  <2>1. Denoted(c) \in Seq(Seq(Characters)) /\ d \in Seq(Seq(Characters)) /\ Len(Denoted(c)) = Len(d)
    BY <1>3, <1>4 DEF Texts
  <2> QED
    BY <1>3, <1>4, <1>5, <2>1, SameList
<1> QED
  BY <1>1, <1>6 DEF c, d, t

LEMMA PrefixIs ==
    ASSUME NEW S, NEW s \in Seq(S), NEW T, NEW t \in Seq(T)
    PROVE  IsPrefix(s, t) <=> Len(s) <= Len(t) /\ \A i \in DOMAIN s : s[i] = t[i]
<1>1. CASE Len(s) <= Len(t)
  <2>1. Len(s) \in Nat /\ DOMAIN s = 1 .. Len(s) /\ Len(t) \in Nat
    OBVIOUS
  <2> DEFINE a == SubSeq(s, 1, Len(s))
             b == SubSeq(t, 1, Len(s))
  <2>2. /\ a \in Seq(S) /\ Len(a) = Len(s)
        /\ \A i \in 1 .. Len(s) : a[i] = s[i]
    BY <2>1
  <2>3. /\ b \in Seq(T) /\ Len(b) = Len(s)
        /\ \A i \in 1 .. Len(s) : b[i] = t[i]
    BY <1>1, <2>1
  <2> HIDE DEF a, b
  <2>4. a = b <=> \A i \in 1 .. Len(s) : a[i] = b[i]
    BY <2>1, <2>2, <2>3
  <2>5. a = b <=> \A i \in DOMAIN s : s[i] = t[i]
    BY <2>1, <2>2, <2>3, <2>4
  <2> QED
    BY <1>1, <2>5 DEF IsPrefix, a, b
<1>2. CASE ~(Len(s) <= Len(t))
  BY <1>2 DEF IsPrefix
<1> QED
  BY <1>1, <1>2

LEMMA SpellPrefix ==
    ASSUME NEW t \in Texts, NEW u \in Texts
    PROVE  IsPrefix(Spell(t), Spell(u)) <=> IsPrefix(t, u)
<1>1. /\ t \in Seq(Seq(Characters)) /\ u \in Seq(Seq(Characters))
      /\ Spell(t) \in Seq(Seq(Letters)) /\ Spell(u) \in Seq(Seq(Letters))
      /\ Len(Spell(t)) = Len(t) /\ Len(Spell(u)) = Len(u) /\ DOMAIN Spell(t) = DOMAIN t
  BY SpellIs DEF Texts, Spellings
<1>2. Len(t) <= Len(u) => \A i \in DOMAIN t : i \in DOMAIN u
  BY <1>1
<1>3. Len(t) <= Len(u) => \A i \in DOMAIN t : (Spell(t)[i] = Spell(u)[i] <=> t[i] = u[i])
  BY <1>2, SpellTells
<1>4. IsPrefix(Spell(t), Spell(u))
         <=> Len(t) <= Len(u) /\ \A i \in DOMAIN t : Spell(t)[i] = Spell(u)[i]
  BY <1>1, PrefixIs
<1>5. IsPrefix(t, u) <=> Len(t) <= Len(u) /\ \A i \in DOMAIN t : t[i] = u[i]
  BY <1>1, PrefixIs
<1> QED
  BY <1>3, <1>4, <1>5

\* So does cutting what ends with a slash.
LEMMA EndIs ==
    ASSUME NEW S, NEW s \in Seq(Seq(S))
    PROVE  /\ Len(s) \in Nat /\ (s = <<>> <=> Len(s) = 0)
           /\ s # <<>> => /\ Last(s) \in Seq(S) /\ Last(s) = s[Len(s)]
                          /\ Len(s) \in DOMAIN s /\ Len(s) >= 1
                          /\ Last(s) = <<>> <=> Len(s[Len(s)]) = 0
           /\ Front(s) = SubSeq(s, 1, Len(s) - 1)
<1>1. Len(s) \in Nat /\ (s = <<>> <=> Len(s) = 0) /\ DOMAIN s = 1 .. Len(s)
  OBVIOUS
<1>2. s # <<>> => Len(s) \in DOMAIN s /\ Len(s) >= 1
  BY <1>1
<1>3. \A x \in Seq(S) : x = <<>> <=> Len(x) = 0
  OBVIOUS
<1>4. s # <<>> => s[Len(s)] \in Seq(S)
  BY <1>2
<1> QED
  BY <1>1, <1>2, <1>3, <1>4 DEF Last, Front

LEMMA SpellEnds ==
    ASSUME NEW t \in Texts
    PROVE  /\ t = <<>> <=> Spell(t) = <<>>
           /\ t # <<>> => (Last(t) = <<>> <=> Last(Spell(t)) = <<>>)
           /\ t # <<>> => Front(t) \in Texts /\ Front(Spell(t)) = Spell(Front(t))
<1>1. t \in Seq(Seq(Characters)) /\ Spell(t) \in Seq(Seq(Letters)) /\ Len(Spell(t)) = Len(t)
  BY SpellIs DEF Texts, Spellings
<1>2. t = <<>> <=> Spell(t) = <<>>
  BY <1>1, EndIs
<1>3. ASSUME t # <<>> PROVE Last(t) = <<>> <=> Last(Spell(t)) = <<>>
  <2>1. Len(t) \in DOMAIN t /\ (Last(t) = <<>> <=> Len(t[Len(t)]) = 0)
    BY <1>1, <1>3, EndIs
  <2>2. Last(Spell(t)) = <<>> <=> Len(Spell(t)[Len(t)]) = 0
    BY <1>1, <1>2, <1>3, EndIs
  <2>3. Len(Spell(t)[Len(t)]) = Len(t[Len(t)])
    BY <2>1, SpellIs
  <2> QED
    BY <2>1, <2>2, <2>3
<1>4. ASSUME t # <<>> PROVE Front(t) \in Texts /\ Front(Spell(t)) = Spell(Front(t))
  <2>1. Len(t) \in Nat /\ Len(t) >= 1
    BY <1>1, <1>4, EndIs
  <2>2. 1 \in 1 .. Len(t) + 1 /\ Len(t) - 1 \in 0 .. Len(t)
    BY <2>1
  <2>3. SubSeq(t, 1, Len(t) - 1) \in Texts
        /\ Spell(SubSeq(t, 1, Len(t) - 1)) = SubSeq(Spell(t), 1, Len(t) - 1)
    BY <2>2, SpellCut
  <2> QED
    BY <1>1, <2>3 DEF Front
<1> QED
  BY <1>2, <1>3, <1>4

LEMMA DenotedEnds ==
    ASSUME NEW p \in Spellings
    PROVE  /\ p = <<>> <=> Denoted(p) = <<>>
           /\ p # <<>> => (Last(p) = <<>> <=> Last(Denoted(p)) = <<>>)
           /\ p # <<>> => Front(p) \in Spellings /\ Front(Denoted(p)) = Denoted(Front(p))
<1>1. p \in Seq(Seq(Letters)) /\ Denoted(p) \in Seq(Seq(Characters)) /\ Len(Denoted(p)) = Len(p)
  BY DenotedIs DEF Texts, Spellings
<1>2. p = <<>> <=> Denoted(p) = <<>>
  BY <1>1, EndIs
<1>3. ASSUME p # <<>> PROVE Last(p) = <<>> <=> Last(Denoted(p)) = <<>>
  <2>1. Len(p) \in DOMAIN p /\ (Last(p) = <<>> <=> Len(p[Len(p)]) = 0)
    BY <1>1, <1>3, EndIs
  <2>2. Last(Denoted(p)) = <<>> <=> Len(Denoted(p)[Len(p)]) = 0
    BY <1>1, <1>2, <1>3, EndIs
  <2>3. Len(Denoted(p)[Len(p)]) = Len(p[Len(p)])
    BY <2>1, DenotedIs
  <2> QED
    BY <2>1, <2>2, <2>3
<1>4. ASSUME p # <<>> PROVE Front(p) \in Spellings /\ Front(Denoted(p)) = Denoted(Front(p))
  <2>1. Len(p) \in Nat /\ Len(p) >= 1
    BY <1>1, <1>4, EndIs
  <2>2. 1 \in 1 .. Len(p) + 1 /\ Len(p) - 1 \in 0 .. Len(p)
    BY <2>1
  <2>3. SubSeq(p, 1, Len(p) - 1) \in Spellings
        /\ Denoted(SubSeq(p, 1, Len(p) - 1)) = SubSeq(Denoted(p), 1, Len(p) - 1)
    BY <2>2, DenotedCut
  <2> QED
    BY <1>1, <2>3 DEF Front
<1> QED
  BY <1>2, <1>3, <1>4

LEMMA RootIs ==
    /\ Root \in Texts /\ Root \in Spellings /\ Root # <<>>
    /\ Spell(Root) = Root /\ Denoted(Root) = Root
    /\ Len(Root) = 1 /\ Root[1] = <<>>
<1>1. Root \in Texts /\ Root \in Spellings /\ Root # <<>> /\ Len(Root) = 1 /\ Root[1] = <<>>
  BY DEF Root, Texts, Spellings
<1>2. Spell(Root) = Root
  <2>1. Spell(Root) \in Seq(Seq(Letters)) /\ Root \in Seq(Seq(Letters)) /\ Len(Spell(Root)) = 1
    BY <1>1, SpellIs DEF Spellings
  <2>2. 1 \in DOMAIN Root
    BY <1>1 DEF Spellings
  <2>3. Spell(Root)[1] \in Seq(Letters) /\ Len(Spell(Root)[1]) = 0
    BY <1>1, <2>1, <2>2, SpellIs
  <2>4. Spell(Root)[1] = <<>>
    BY <2>3
  <2>5. \A i \in 1 .. Len(Spell(Root)) : Spell(Root)[i] = Root[i]
    BY <1>1, <2>1, <2>4
  <2> QED
    BY <1>1, <2>1, <2>5, SameList
<1>3. Denoted(Root) = Root
  BY <1>1, <1>2, SpellIs
<1> QED
  BY <1>1, <1>2, <1>3

LEMMA TrimSpelled ==
    ASSUME NEW t \in Texts
    PROVE  /\ WithoutSlash(t) \in Texts /\ WithoutSlash(Spell(t)) = Spell(WithoutSlash(t))
           /\ BasePath(t) \in Texts /\ BasePath(Spell(t)) = Spell(BasePath(t))
           /\ OrRoot(t) \in Texts /\ OrRoot(Spell(t)) = Spell(OrRoot(t)) /\ OrRoot(t) # <<>>
<1>1. Len(Spell(t)) = Len(t)
  BY SpellIs
<1>2. t \in Seq(Seq(Characters))
  BY DEF Texts
<1>3. Len(t) > 1 => t # <<>>
  BY <1>2
<1>4. WithoutSlash(t) \in Texts /\ WithoutSlash(Spell(t)) = Spell(WithoutSlash(t))
  BY <1>1, <1>3, SpellEnds DEF WithoutSlash
<1>5. BasePath(t) \in Texts /\ BasePath(Spell(t)) = Spell(BasePath(t))
  BY SpellEnds DEF BasePath
<1>6. OrRoot(t) \in Texts /\ OrRoot(Spell(t)) = Spell(OrRoot(t)) /\ OrRoot(t) # <<>>
  BY SpellEnds, RootIs DEF OrRoot
<1> QED
  BY <1>4, <1>5, <1>6

LEMMA TrimDenoted ==
    ASSUME NEW p \in Spellings
    PROVE  /\ BasePath(p) \in Spellings /\ BasePath(Denoted(p)) = Denoted(BasePath(p))
           /\ OrRoot(p) \in Spellings /\ OrRoot(Denoted(p)) = Denoted(OrRoot(p)) /\ OrRoot(p) # <<>>
<1>1. BasePath(p) \in Spellings /\ BasePath(Denoted(p)) = Denoted(BasePath(p))
  BY DenotedEnds DEF BasePath
<1>2. OrRoot(p) \in Spellings /\ OrRoot(Denoted(p)) = Denoted(OrRoot(p)) /\ OrRoot(p) # <<>>
  BY DenotedEnds, RootIs DEF OrRoot
<1> QED
  BY <1>1, <1>2

LEMMA PathIsSpelling ==
    ASSUME IsMessage(message), WellFormed
    PROVE  /\ message.path \in Spellings /\ message.path # <<>>
           /\ PathText \in Texts /\ PathText # <<>>
<1>1. message.path \in Seq(Seq(Letters \cup {LonePercent})) /\ message.path # <<>>
  BY DEF IsMessage
<1>2. ASSUME NEW i \in DOMAIN message.path PROVE message.path[i] \in Seq(Letters)
  <2>1. message.path[i] \in Seq(Letters \cup {LonePercent})
    BY <1>1
  <2>2. \A j \in DOMAIN message.path[i] : message.path[i][j] # LonePercent
    BY DEF WellFormed, ToSet
  <2> DEFINE s == message.path[i]
  <2> HIDE DEF s
  <2>3. s \in Seq(Letters \cup {LonePercent}) /\ \A j \in DOMAIN s : s[j] # LonePercent
    BY <2>1, <2>2 DEF s
  <2>4. s \in [1 .. Len(s) -> Letters] /\ Len(s) \in Nat
    BY <2>3
  <2> QED
    BY <2>4, ListIs DEF s
<1>3. message.path \in Spellings
  <2> DEFINE p == message.path
  <2>1. p \in Seq(Seq(Letters \cup {LonePercent})) /\ \A i \in DOMAIN p : p[i] \in Seq(Letters)
    BY <1>1, <1>2
  <2> HIDE DEF p
  <2>2. p \in [1 .. Len(p) -> Seq(Letters)] /\ Len(p) \in Nat
    BY <2>1
  <2> QED
    BY <2>2, ListIs DEF Spellings, p
<1> QED
  BY <1>1, <1>3, DenotedIs, DenotedEnds DEF PathText

-----------------------------------------------------------------------------
(* Numbers and lists. *)

LEMMA LeastNat ==
    ASSUME NEW S \in SUBSET Nat, S # {}
    PROVE  \E x \in S : \A y \in S : x <= y
<1>1. PICK m \in S : \A n \in S : ~(<<n, m>> \in OpToRel(<, Nat))
  BY WFMin, NatLessThanWellFounded, Zenon
<1>2. ASSUME NEW n \in S PROVE m <= n
  <2>1. n \in Nat /\ m \in Nat /\ ~(<<n, m>> \in OpToRel(<, Nat))
    BY <1>1
  <2> QED
    BY <2>1 DEF OpToRel
<1> QED
  BY <1>2

LEMMA MinIs ==
    ASSUME NEW S \in SUBSET Nat, S # {}
    PROVE  Min(S) \in S /\ \A y \in S : Min(S) <= y
BY LeastNat DEF Min

LEMMA MaxIsOne ==
    ASSUME NEW n \in Nat, NEW S \in SUBSET (1 .. n), S # {}
    PROVE  Max(S) \in S
<1> DEFINE T == {n - x : x \in S}
<1>1. T \in SUBSET Nat /\ T # {}
  <2>1. \A x \in S : n - x \in Nat
    OBVIOUS
  <2>2. PICK x \in S : TRUE
    OBVIOUS
  <2> QED
    BY <2>1, <2>2
<1>2. PICK d \in T : \A e \in T : d <= e
  <2> HIDE DEF T
  <2> QED
    BY <1>1, LeastNat
<1>3. PICK m \in S : d = n - m
  BY <1>2
<1>4. \A x \in S : m >= x
  <2> SUFFICES ASSUME NEW x \in S PROVE m >= x
    OBVIOUS
  <2>1. n - x \in T
    OBVIOUS
  <2>2. n - m <= n - x
    BY <1>2, <1>3, <2>1
  <2>3. n \in Int /\ m \in Int /\ x \in Int
    OBVIOUS
  <2> HIDE DEF T
  <2> QED
    BY <2>2, <2>3
<1> QED
  BY <1>4 DEF Max

\* A query keeps each key with one of its values.
LEMMA WinnersAre ==
    ASSUME NEW T, NEW pairs \in Seq(T)
    PROVE  /\ DOMAIN LastWins(pairs) = Keys(pairs) /\ DOMAIN FirstWins(pairs) = Keys(pairs)
           /\ \A key \in Keys(pairs) :
                 /\ \E i \in At(pairs, key) : LastWins(pairs)[key] = pairs[i][2]
                 /\ \E i \in At(pairs, key) : FirstWins(pairs)[key] = pairs[i][2]
<1>1. DOMAIN LastWins(pairs) = Keys(pairs) /\ DOMAIN FirstWins(pairs) = Keys(pairs)
  BY DEF LastWins, FirstWins
<1>2. ASSUME NEW key \in Keys(pairs)
      PROVE  /\ \E i \in At(pairs, key) : LastWins(pairs)[key] = pairs[i][2]
             /\ \E i \in At(pairs, key) : FirstWins(pairs)[key] = pairs[i][2]
  <2> DEFINE S == At(pairs, key)
  <2>1. S # {} /\ S \in SUBSET (1 .. Len(pairs)) /\ Len(pairs) \in Nat
    BY DEF Keys, At
  <2> HIDE DEF S
  <2>2. Max(S) \in S /\ Min(S) \in S
    <3>1. S \in SUBSET Nat
      BY <2>1
    <3> QED
      BY <2>1, <3>1, MaxIsOne, MinIs
  <2>3. LastWins(pairs)[key] = pairs[Max(S)][2] /\ FirstWins(pairs)[key] = pairs[Min(S)][2]
    BY DEF LastWins, FirstWins, S
  <2> QED
    BY <2>2, <2>3 DEF S
<1> QED
  BY <1>1, <1>2

LEMMA JoinIs ==
    ASSUME NEW S, NEW s \in Seq(S), NEW T, NEW t \in Seq(T)
    PROVE  /\ s \o t \in Seq(S \cup T) /\ Len(s \o t) = Len(s) + Len(t)
           /\ \A i \in DOMAIN s : i \in DOMAIN (s \o t) /\ (s \o t)[i] = s[i]
           /\ \A i \in DOMAIN t : Len(s) + i \in DOMAIN (s \o t) /\ (s \o t)[Len(s) + i] = t[i]
           /\ \A i \in DOMAIN (s \o t) : \/ i \in DOMAIN s
                                         \/ i - Len(s) \in DOMAIN t /\ i = Len(s) + (i - Len(s))
<1>1. s \in Seq(S \cup T) /\ t \in Seq(S \cup T) /\ Len(s) \in Nat /\ Len(t) \in Nat
  OBVIOUS
<1> QED
  BY <1>1

\* Which of two lists comes first does not matter to what is in them.
LEMMA SwapIs ==
    ASSUME NEW S, NEW s \in Seq(S), NEW T, NEW t \in Seq(T), NEW i \in DOMAIN (t \o s)
    PROVE  \E j \in DOMAIN (s \o t) : (s \o t)[j] = (t \o s)[i]
<1>1. CASE i \in DOMAIN t
  <2>1. (t \o s)[i] = t[i]
    BY <1>1, JoinIs
  <2>2. Len(s) + i \in DOMAIN (s \o t) /\ (s \o t)[Len(s) + i] = t[i]
    BY <1>1, JoinIs
  <2> QED
    BY <2>1, <2>2
<1>2. CASE i - Len(t) \in DOMAIN s /\ i = Len(t) + (i - Len(t))
  <2>1. (t \o s)[i] = s[i - Len(t)]
    BY <1>2, JoinIs
  <2>2. i - Len(t) \in DOMAIN (s \o t) /\ (s \o t)[i - Len(t)] = s[i - Len(t)]
    BY <1>2, JoinIs
  <2> QED
    BY <2>1, <2>2
<1> QED
  BY <1>1, <1>2, JoinIs

IsQuery(q) ==
    /\ DOMAIN q = Keys(SentPairs)
    /\ \A key \in Keys(SentPairs) : \E i \in At(SentPairs, key) : q[key] = SentPairs[i][2]

LEMMA QueriesAre ==
    ASSUME IsMessage(message)
    PROVE  /\ IsQuery(LastWins(SentPairs)) /\ IsQuery(FirstWins(SentPairs))
           /\ IsQuery(FirstWins(message.params \o message.query))
<1> DEFINE S == ToSet(message.query)
           T == ToSet(message.params)
           other == message.params \o message.query
<1>1. message.query \in Seq(S) /\ message.params \in Seq(T)
  BY DEF IsMessage
<1> HIDE DEF S, T
<1>2. SentPairs \in Seq(S \cup T) /\ other \in Seq(T \cup S)
  BY <1>1, JoinIs DEF SentPairs
<1>3. IsQuery(LastWins(SentPairs)) /\ IsQuery(FirstWins(SentPairs))
  BY <1>2, WinnersAre DEF IsQuery
<1>4. \A i \in DOMAIN other : \E j \in DOMAIN SentPairs : SentPairs[j] = other[i]
  BY <1>1, SwapIs DEF SentPairs
<1>5. \A i \in DOMAIN SentPairs : \E j \in DOMAIN other : other[j] = SentPairs[i]
  BY <1>1, SwapIs DEF SentPairs
<1> HIDE DEF other
<1>6. Keys(other) = Keys(SentPairs)
  BY <1>4, <1>5 DEF Keys
<1>7. \A key \in Keys(SentPairs) :
         \E i \in At(SentPairs, key) : FirstWins(other)[key] = SentPairs[i][2]
  <2> SUFFICES ASSUME NEW key \in Keys(SentPairs)
               PROVE  \E i \in At(SentPairs, key) : FirstWins(other)[key] = SentPairs[i][2]
    OBVIOUS
  <2>1. PICK i \in At(other, key) : FirstWins(other)[key] = other[i][2]
    BY <1>2, <1>6, WinnersAre
  <2>2. i \in DOMAIN other /\ other[i][1] = key
    BY <2>1 DEF At
  <2>3. PICK j \in DOMAIN SentPairs : SentPairs[j] = other[i]
    BY <1>4, <2>2
  <2> QED
    BY <2>1, <2>2, <2>3 DEF At
<1> QED
  BY <1>2, <1>3, <1>6, <1>7, WinnersAre DEF IsQuery, other

-----------------------------------------------------------------------------
(* Lists of lists. *)

GrowsBy(g, parts, n) ==
    \A i \in 1 .. n : g[i] = IF i = 1 THEN parts[i] ELSE g[i - 1] \o parts[i]

LEMMA FlattenIs ==
    ASSUME NEW n \in Nat, n # 0, NEW parts, Len(parts) = n,
           NEW g, GrowsBy(g, parts, n)
    PROVE  FlattenSeq(parts) = g[n]
<1> USE DEF GrowsBy
<1> DEFINE Grows(f) == f = [i \in 1 .. n |-> IF i = 1 THEN parts[i] ELSE f[i - 1] \o parts[i]]
           flatten == CHOOSE f : Grows(f)
           Bad == {k \in 1 .. n : flatten[k] # g[k]}
<1>1. FlattenSeq(parts) = flatten[n]
  <2>1. FlattenSeq(parts) =
           (CHOOSE f : f = [i \in 1 .. Len(parts) |->
                               IF i = 1 THEN parts[i] ELSE f[i - 1] \o parts[i]])[Len(parts)]
    BY Zenon DEF FlattenSeq
  <2> QED
    BY <2>1, Zenon
<1>2. Grows(flatten)
  <2> DEFINE grown == [i \in 1 .. n |-> g[i]]
  <2>1. Grows(grown)
    <3> SUFFICES ASSUME NEW i \in 1 .. n
                 PROVE  g[i] = IF i = 1 THEN parts[i] ELSE grown[i - 1] \o parts[i]
      OBVIOUS
    <3>1. i # 1 => grown[i - 1] = g[i - 1]
      OBVIOUS
    <3> QED
      BY <3>1
  <2> HIDE DEF Grows, grown
  <2> QED
    BY <2>1, Zenon
<1>3. /\ flatten[1] = parts[1] /\ g[1] = parts[1]
      /\ \A i \in 1 .. n : i # 1 => flatten[i] = flatten[i - 1] \o parts[i]
                                   /\ g[i] = g[i - 1] \o parts[i]
  <2> HIDE DEF flatten
  <2>1. 1 \in 1 .. n
    OBVIOUS
  <2>2. flatten[1] = parts[1] /\ \A i \in 1 .. n : i # 1 => flatten[i] = flatten[i - 1] \o parts[i]
    BY <1>2, <2>1
  <2>3. g[1] = parts[1] /\ \A i \in 1 .. n : i # 1 => g[i] = g[i - 1] \o parts[i]
    BY <2>1
  <2> QED
    BY <2>2, <2>3
<1> HIDE DEF flatten, Grows
<1>4. Bad = {}
  <2> SUFFICES ASSUME Bad # {} PROVE FALSE
    OBVIOUS
  <2>1. PICK k \in Bad : \A j \in Bad : k <= j
    <3>1. Bad \in SUBSET Nat
      OBVIOUS
    <3> HIDE DEF Bad
    <3> QED
      BY <3>1, LeastNat
  <2>2. k \in 1 .. n /\ k # 1
    BY <1>3, <2>1
  <2>3. k - 1 \in 1 .. n /\ k - 1 \notin Bad
    <3>1. k - 1 \in 1 .. n /\ k \in Int /\ ~(k <= k - 1)
      BY <2>2
    <3> HIDE DEF Bad
    <3> QED
      BY <2>1, <3>1
  <2>4. flatten[k - 1] = g[k - 1]
    BY <2>3
  <2>5. flatten[k] = flatten[k - 1] \o parts[k] /\ g[k] = g[k - 1] \o parts[k]
    <3> HIDE DEF Bad
    <3> QED
      BY <1>3, <2>2
  <2>6. flatten[k] # g[k]
    BY <2>1
  <2> QED
    BY <2>4, <2>5, <2>6, Zenon
<1>5. n \in 1 .. n
  OBVIOUS
<1>6. flatten[n] = g[n]
  BY <1>4, <1>5
<1> QED
  BY <1>1, <1>6, Zenon

LEMMA GrowthExists ==
    ASSUME NEW S, NEW n \in Nat, NEW parts \in [1 .. n -> Seq(S)]
    PROVE  \E g \in [1 .. n -> Seq(S)] : GrowsBy(g, parts, n)
<1> DEFINE Grows(g, k) ==
               \A i \in 1 .. k : g[i] = IF i = 1 THEN parts[i] ELSE g[i - 1] \o parts[i]
           Bad == {k \in 1 .. n : ~ \E g \in [1 .. k -> Seq(S)] : Grows(g, k)}
<1>1. CASE n = 0
  <2>1. parts \in [1 .. n -> Seq(S)] /\ GrowsBy(parts, parts, n)
    BY <1>1 DEF GrowsBy
  <2> QED
    BY <2>1
<1>2. CASE n # 0
  <2>1. Bad = {}
    <3> SUFFICES ASSUME Bad # {} PROVE FALSE
      OBVIOUS
    <3>1. PICK k \in Bad : \A j \in Bad : k <= j
      <4>1. Bad \in SUBSET Nat
        OBVIOUS
      <4> HIDE DEF Bad
      <4> QED
        BY <4>1, LeastNat
    <3>2. k \in 1 .. n /\ ~ \E g \in [1 .. k -> Seq(S)] : Grows(g, k)
      BY <3>1
    <3>3. CASE k = 1
      <4> DEFINE g == [i \in 1 .. k |-> parts[1]]
      <4>1. g \in [1 .. k -> Seq(S)] /\ Grows(g, k)
        BY <3>2, <3>3
      <4> QED
        BY <3>2, <4>1
    <3>4. CASE k # 1
      <4>1. k - 1 \in 1 .. n /\ k - 1 \notin Bad
        <5>1. k - 1 \in 1 .. n /\ k \in Int /\ ~(k <= k - 1)
          BY <3>2, <3>4
        <5> HIDE DEF Bad
        <5> QED
          BY <3>1, <5>1
      <4>2. PICK h \in [1 .. k - 1 -> Seq(S)] : Grows(h, k - 1)
        BY <4>1
      <4> DEFINE g == [i \in 1 .. k |-> IF i = k THEN h[k - 1] \o parts[k] ELSE h[i]]
      <4>3. h[k - 1] \in Seq(S) /\ parts[k] \in Seq(S)
        BY <3>2, <4>1
      <4>4. h[k - 1] \o parts[k] \in Seq(S)
        BY <4>3
      <4>5. g \in [1 .. k -> Seq(S)]
        BY <3>2, <4>4
      <4>6. ASSUME NEW i \in 1 .. k
            PROVE  g[i] = IF i = 1 THEN parts[i] ELSE g[i - 1] \o parts[i]
        <5>1. CASE i = k
          <6>1. g[k] = h[k - 1] \o parts[k] /\ g[k - 1] = h[k - 1] /\ k # 1
            <7>1. k \in 1 .. k /\ k - 1 \in 1 .. k /\ k - 1 # k
              BY <3>2, <3>4
            <7> QED
              BY <3>4, <7>1
          <6> HIDE DEF g
          <6> QED
            BY <5>1, <6>1
        <5>2. CASE i # k
          <6>1. i \in 1 .. k - 1 /\ g[i] = h[i] /\ (i # 1 => g[i - 1] = h[i - 1])
            BY <3>2, <5>2
          <6> QED
            BY <4>2, <6>1
        <5> QED
          BY <5>1, <5>2
      <4> QED
        BY <3>2, <4>5, <4>6
    <3> QED
      BY <3>3, <3>4
  <2>2. PICK g \in [1 .. n -> Seq(S)] : Grows(g, n)
    <3>1. n \in 1 .. n
      BY <1>2
    <3>2. n \notin Bad
      BY <2>1, Zenon
    <3> QED
      BY <3>1, <3>2
  <2> QED
    BY <2>2 DEF GrowsBy
<1> QED
  BY <1>1, <1>2

LEMMA FlattenHas ==
    ASSUME NEW S, NEW n \in Nat, NEW parts \in [1 .. n -> Seq(S)],
           NEW i \in 1 .. n, NEW x \in ToSet(parts[i])
    PROVE  x \in ToSet(FlattenSeq(parts))
<1>1. Len(parts) = n /\ n # 0
  OBVIOUS
<1>2. PICK g \in [1 .. n -> Seq(S)] : GrowsBy(g, parts, n)
  BY GrowthExists
<1>3. FlattenSeq(parts) = g[n]
  BY <1>1, <1>2, FlattenIs
<1>4. \A k \in 1 .. n : g[k] = IF k = 1 THEN parts[k] ELSE g[k - 1] \o parts[k]
  BY <1>2 DEF GrowsBy
<1> DEFINE Bad == {k \in i .. n : x \notin ToSet(g[k])}
<1>5. ASSUME NEW k \in 1 .. n, k # 1 PROVE ToSet(g[k]) = ToSet(g[k - 1]) \cup ToSet(parts[k])
  <2> DEFINE a == g[k - 1]
             b == parts[k]
  <2>1. g[k] = a \o b
    BY <1>4, <1>5
  <2>2. a \in Seq(S) /\ b \in Seq(S)
    BY <1>5
  <2> HIDE DEF a, b
  <2>3. ToSet(a \o b) = ToSet(a) \cup ToSet(b)
    <3>1. \A y \in ToSet(a \o b) : y \in ToSet(a) \cup ToSet(b)
      <4> SUFFICES ASSUME NEW j \in DOMAIN (a \o b) PROVE (a \o b)[j] \in ToSet(a) \cup ToSet(b)
        BY DEF ToSet
      <4>1. CASE j \in DOMAIN a
        BY <2>2, <4>1, JoinIs DEF ToSet
      <4>2. CASE j - Len(a) \in DOMAIN b /\ j = Len(a) + (j - Len(a))
        <5>1. (a \o b)[j] = b[j - Len(a)]
          BY <2>2, <4>2, JoinIs
        <5> QED
          BY <4>2, <5>1 DEF ToSet
      <4> QED
        BY <2>2, <4>1, <4>2, JoinIs
    <3>2. \A y \in ToSet(a) : y \in ToSet(a \o b)
      <4> SUFFICES ASSUME NEW j \in DOMAIN a PROVE a[j] \in ToSet(a \o b)
        BY DEF ToSet
      <4> QED
        BY <2>2, JoinIs DEF ToSet
    <3>3. \A y \in ToSet(b) : y \in ToSet(a \o b)
      <4> SUFFICES ASSUME NEW j \in DOMAIN b PROVE b[j] \in ToSet(a \o b)
        BY DEF ToSet
      <4>1. Len(a) + j \in DOMAIN (a \o b) /\ (a \o b)[Len(a) + j] = b[j]
        BY <2>2, JoinIs
      <4> QED
        BY <4>1 DEF ToSet
    <3> QED
      BY <3>1, <3>2, <3>3
  <2> QED
    BY <2>1, <2>3 DEF a, b
<1>6. x \in ToSet(g[i])
  <2>1. CASE i = 1
    BY <1>4, <2>1
  <2>2. CASE i # 1
    BY <1>5, <2>2
  <2> QED
    BY <2>1, <2>2
<1>7. Bad = {}
  <2> SUFFICES ASSUME Bad # {} PROVE FALSE
    OBVIOUS
  <2>1. PICK k \in Bad : \A j \in Bad : k <= j
    <3>1. Bad \in SUBSET Nat
      OBVIOUS
    <3> HIDE DEF Bad
    <3> QED
      BY <3>1, LeastNat
  <2>2. k \in i .. n /\ x \notin ToSet(g[k]) /\ k # i
    BY <1>6, <2>1
  <2>3. k - 1 \in i .. n /\ k - 1 \notin Bad
    <3>1. k - 1 \in i .. n /\ ~(k <= k - 1)
      BY <2>2
    <3> HIDE DEF Bad
    <3> QED
      BY <2>1, <3>1
  <2>4. x \in ToSet(g[k - 1])
    BY <2>3
  <2>5. k \in 1 .. n /\ k # 1
    BY <2>2
  <2> HIDE DEF Bad
  <2> QED
    BY <1>5, <2>2, <2>4, <2>5
<1>8. n \in i .. n
  OBVIOUS
<1> QED
  BY <1>3, <1>7, <1>8

LEMMA HeaderIsRead ==
    ASSUME NEW T, NEW headers \in Seq(T), NEW h \in ToSet(headers)
    PROVE  /\ h.name \in DOMAIN ReadHeaders(headers)
           /\ h.value \in ToSet(ReadHeaders(headers)[h.name])
<1>1. PICK i \in DOMAIN headers : h = headers[i]
  BY DEF ToSet
<1> DEFINE n == Len(headers)
           S == {headers[j].value : j \in DOMAIN headers}
           parts == [j \in DOMAIN headers |-> IF headers[j].name = h.name
                                              THEN <<headers[j].value>> ELSE <<>>]
<1>2. n \in Nat /\ DOMAIN headers = 1 .. n
  OBVIOUS
<1>3. h.name \in DOMAIN ReadHeaders(headers) /\ ReadHeaders(headers)[h.name] = FlattenSeq(parts)
  BY <1>1 DEF ReadHeaders
<1>4. parts \in [1 .. n -> Seq(S)]
  <2>1. \A j \in DOMAIN headers : headers[j].value \in S
    OBVIOUS
  <2> HIDE DEF S, n
  <2>2. \A j \in DOMAIN headers : (IF headers[j].name = h.name
                                  THEN <<headers[j].value>> ELSE <<>>) \in Seq(S)
    BY <2>1
  <2> QED
    BY <1>2, <2>2
<1>5. parts[i] = <<h.value>>
  BY <1>1
<1>6. h.value \in ToSet(parts[i])
  <2>1. 1 \in DOMAIN <<h.value>> /\ <<h.value>>[1] = h.value
    OBVIOUS
  <2> HIDE DEF parts
  <2> QED
    BY <1>5, <2>1 DEF ToSet
<1> HIDE DEF n, parts, S
<1> QED
  BY <1>1, <1>2, <1>3, <1>4, <1>6, FlattenHas

-----------------------------------------------------------------------------
(* Reading. *)

IsBody(body) ==
    /\ message.payload = "none" => body \in {"undefined", "null"}
    /\ message.payload = "json" /\ message.ctype = "json" => body = "parsed"
    /\ message.payload = "words" /\ message.ctype \in {"", "text"} => body = "text"

LEMMA BodiesAre ==
    ASSUME IsMessage(message)
    PROVE  /\ \A body \in FetchBody(message) : IsBody(body)
           /\ \A body \in NodeBody(message) : IsBody(body)
           /\ IsBody(ParsedBody(message, "undefined")) /\ IsBody(ParsedBody(message, "null"))
           /\ FetchBody(message) = {} \/ NodeBody(message) = {} => IsMalformed
<1>1. /\ message.ctype \in {"", "json", "text", "form", "multipart"}
      /\ message.payload \in {"none", "empty", "json", "malformed", "pairs", "words", "octets", "parts"}
  BY DEF IsMessage
<1>2. \A body \in FetchBody(message) : IsBody(body)
  BY <1>1 DEF FetchBody, Stamped, IsBody
<1>3. \A body \in NodeBody(message) : IsBody(body)
  BY <1>1 DEF NodeBody, IsBody
<1>4. IsBody(ParsedBody(message, "undefined")) /\ IsBody(ParsedBody(message, "null"))
  BY <1>1 DEF ParsedBody, IsBody
<1>5. FetchBody(message) = {} => IsMalformed
  BY <1>1 DEF FetchBody, Stamped, IsMalformed
<1>6. NodeBody(message) = {} => IsMalformed
  BY <1>1 DEF NodeBody, IsMalformed
<1> QED
  BY <1>2, <1>3, <1>4, <1>5, <1>6

\* What the mock is given, and that its path is the one that is meant.
IsReading(r) ==
    /\ ReadAsSent(r)
    /\ r.handled => r.path \in Spellings /\ Denoted(r.path) = MockText

LEMMA ReadIs ==
    ASSUME IsMessage(message), IsBelow,
           NEW path \in Spellings, Denoted(path) = MockText,
           NEW query, IsQuery(query),
           NEW bodies, \A body \in bodies : IsBody(body)
    PROVE  /\ \A r \in Read(path, query, message, bodies) : r.handled /\ IsReading(r)
           /\ Read(path, query, message, bodies) = {} => bodies = {}
<1>1. message.headers \in Seq(ToSet(message.headers))
  BY DEF IsMessage
<1>2. ASSUME NEW body \in bodies
      PROVE  LET r == [handled |-> TRUE, path |-> path, query |-> query,
                       headers |-> ReadHeaders(message.headers), body |-> body]
             IN  r.handled /\ IsReading(r)
  <2> DEFINE r == [handled |-> TRUE, path |-> path, query |-> query,
                   headers |-> ReadHeaders(message.headers), body |-> body]
  <2>1. /\ r.handled = TRUE /\ r.path = path /\ r.query = query
        /\ r.headers = ReadHeaders(message.headers) /\ r.body = body
    OBVIOUS
  <2> HIDE DEF r
  <2>2. \A h \in ToSet(message.headers) :
           h.name \in DOMAIN r.headers /\ h.value \in ToSet(r.headers[h.name])
    BY <1>1, <2>1, HeaderIsRead
  <2>3. IsBody(r.body) /\ IsQuery(r.query)
    BY <1>2, <2>1
  <2>4. ReadAsSent(r)
    BY <2>1, <2>2, <2>3 DEF ReadAsSent, IsBody, IsQuery
  <2> QED
    BY <2>1, <2>4 DEF IsReading, r
<1> QED
  BY <1>2 DEF Read

LEMMA PassedIs ==
    ASSUME ~IsBelow
    PROVE  ~Passed.handled /\ IsReading(Passed)
BY DEF Passed, IsReading, ReadAsSent

\* What Readings are, of a message that is spelled well.
AreReadings(S) ==
    /\ \A r \in S : IsReading(r)
    /\ S = {} => IsMalformed

LEMMA FetchReadsIs ==
    ASSUME IsMessage(message), IsSite(site), WellFormed, transport = "fetch"
    PROVE  AreReadings(FetchReads(message, site.base))
<1> DEFINE path == Canonical(UrlPath(message.path))
           base == [site.base EXCEPT !.path = Canonical(@)]
<1>1. site.base.path \in Spellings /\ site.base = [origin |-> site.base.origin, path |-> site.base.path]
  BY DEF IsSite, Spellings
<1>2. base.origin = site.base.origin /\ base.path = Canonical(site.base.path)
  BY <1>1
<1> HIDE DEF base
<1>3. PathText \in Texts /\ path = Spell(PathText)
  BY PathIsSpelling, UrlPathIs, DenotedIs DEF PathText
<1>4. path \in Spellings /\ Denoted(path) = PathText
  BY <1>3, SpellIs
<1>5. BaseText \in Texts /\ BasePath(base.path) = Spell(BaseText)
  <2>1. Denoted(site.base.path) \in Texts /\ Canonical(site.base.path) = Spell(Denoted(site.base.path))
    BY <1>1, DenotedIs
  <2>2. BaseText = BasePath(Denoted(site.base.path))
    BY <1>1, TrimDenoted DEF BaseText
  <2> QED
    BY <1>2, <2>1, <2>2, TrimSpelled
<1> HIDE DEF path
<1>6. IsOutside(base, message.origin, path) <=> ~IsBelow
  <2>1. IsPrefix(BasePath(base.path), path) <=> IsPrefix(BaseText, PathText)
    BY <1>3, <1>5, SpellPrefix
  <2> QED
    BY <1>2, <2>1 DEF IsOutside, IsBelow
<1>7. MockText = PathText
  BY DEF MockText
<1>8. FetchReads(message, site.base) =
         IF IsOutside(base, message.origin, path) THEN {Passed}
         ELSE Read(path, LastWins(SentPairs), message, FetchBody(message))
  BY DEF FetchReads, base, path, SentPairs
<1>9. CASE IsBelow
  BY <1>4, <1>6, <1>7, <1>8, <1>9, ReadIs, BodiesAre, QueriesAre DEF AreReadings
<1>10. CASE ~IsBelow
  BY <1>6, <1>8, <1>10, PassedIs DEF AreReadings
<1> QED
  BY <1>9, <1>10

LEMMA NodeReadsIs ==
    ASSUME IsMessage(message), WellFormed, transport = "server"
    PROVE  AreReadings(NodeReads(message))
<1>1. UrlPath(message.path) \in Spellings /\ Denoted(UrlPath(message.path)) = PathText
  BY PathIsSpelling, UrlPathIs DEF PathText
<1>2. IsBelow /\ MockText = PathText
  BY DEF IsBelow, MockText
<1>3. NodeReads(message) = Read(UrlPath(message.path), LastWins(SentPairs), message, NodeBody(message))
  BY DEF NodeReads, SentPairs
<1> QED
  BY <1>1, <1>2, <1>3, ReadIs, BodiesAre, QueriesAre DEF AreReadings

LEMMA ExpressReadsIs ==
    ASSUME IsMessage(message), WellFormed, transport = "express"
    PROVE  AreReadings(ExpressReads(message))
<1>1. UrlPath(message.path) \in Spellings /\ Denoted(UrlPath(message.path)) = PathText
  BY PathIsSpelling, UrlPathIs DEF PathText
<1>2. IsBelow /\ MockText = PathText
  BY DEF IsBelow, MockText
<1> DEFINE bodies == {ParsedBody(message, "undefined")}
<1>3. ExpressReads(message) = Read(UrlPath(message.path), FirstWins(SentPairs), message, bodies)
  BY DEF ExpressReads, SentPairs
<1>4. bodies # {} /\ \A body \in bodies : IsBody(body)
  BY BodiesAre
<1> HIDE DEF bodies
<1> QED
  BY <1>1, <1>2, <1>3, <1>4, ReadIs, QueriesAre DEF AreReadings

\* A segment of a plain path is met by no other spelling.
LEMMA PlainTells ==
    ASSUME NEW p \in Spellings, IsPlain(p), NEW q \in Spellings, NEW i \in DOMAIN p, NEW k \in DOMAIN q
    PROVE  p[i] = q[k] <=> Denoted(p)[i] = Denoted(q)[k]
<1>1. p[i] \in Seq(Letters) /\ q[k] \in Seq(Letters)
  BY DEF Spellings
<1>2. /\ Denoted(p)[i] = [j \in DOMAIN p[i] |-> p[i][j].char]
      /\ Denoted(q)[k] = [j \in DOMAIN q[k] |-> q[k][j].char]
  BY DEF Denoted
<1>3. p[i] = q[k] => Denoted(p)[i] = Denoted(q)[k]
  BY <1>2
<1>4. ASSUME Denoted(p)[i] = Denoted(q)[k] PROVE p[i] = q[k]
  <2>1. /\ DOMAIN p[i] = DOMAIN q[k]
        /\ \A j \in DOMAIN p[i] : p[i][j].char = q[k][j].char
    <3>1. DOMAIN Denoted(p)[i] = DOMAIN p[i] /\ DOMAIN Denoted(q)[k] = DOMAIN q[k]
      BY DenotedIs
    <3>2. /\ \A j \in DOMAIN p[i] : Denoted(p)[i][j] = p[i][j].char
          /\ \A j \in DOMAIN q[k] : Denoted(q)[k][j] = q[k][j].char
      BY DenotedIs
    <3> QED
      BY <1>4, <3>1, <3>2
  <2>2. ASSUME NEW j \in DOMAIN p[i] PROVE p[i][j] = q[k][j]
    <3>1. p[i][j] \in Letters /\ q[k][j] \in Letters
      BY <1>1, <2>1
    <3>2. p[i][j].as = "raw" /\ p[i][j].char \notin Unsafe
      BY DEF IsPlain, ToSet
    <3>3. p[i][j].char \in Plain
      BY <3>1, <3>2 DEF Letters, Letter
    <3>4. p[i][j] = Letter(p[i][j].char, "raw") /\ q[k][j] = Letter(q[k][j].char, "raw")
      BY <2>1, <3>1, <3>3, LetterIs
    <3> QED
      BY <2>1, <3>4
  <2> QED
    BY <1>1, <2>1, <2>2
<1> QED
  BY <1>3, <1>4

LEMMA PlainPrefix ==
    ASSUME NEW p \in Spellings, IsPlain(p), NEW q \in Spellings
    PROVE  IsPrefix(p, q) <=> IsPrefix(Denoted(p), Denoted(q))
<1>1. /\ Denoted(p) \in Seq(Seq(Characters)) /\ Denoted(q) \in Seq(Seq(Characters))
      /\ p \in Seq(Seq(Letters)) /\ q \in Seq(Seq(Letters))
      /\ Len(Denoted(p)) = Len(p) /\ Len(Denoted(q)) = Len(q) /\ DOMAIN Denoted(p) = DOMAIN p
  BY DenotedIs DEF Texts, Spellings
<1>2. Len(p) <= Len(q) => \A i \in DOMAIN p : i \in DOMAIN q
  BY <1>1
<1>3. Len(p) <= Len(q) => \A i \in DOMAIN p : (p[i] = q[i] <=> Denoted(p)[i] = Denoted(q)[i])
  BY <1>2, PlainTells
<1>4. IsPrefix(p, q) <=> Len(p) <= Len(q) /\ \A i \in DOMAIN p : p[i] = q[i]
  BY <1>1, PrefixIs
<1>5. IsPrefix(Denoted(p), Denoted(q))
         <=> Len(p) <= Len(q) /\ \A i \in DOMAIN p : Denoted(p)[i] = Denoted(q)[i]
  BY <1>1, PrefixIs
<1> QED
  BY <1>3, <1>4, <1>5

LEMMA PlainBase ==
    ASSUME NEW p \in Spellings, IsPlain(p)
    PROVE  BasePath(p) \in Spellings /\ IsPlain(BasePath(p))
<1>1. BasePath(p) \in Spellings
  BY TrimDenoted
<1>2. ASSUME p # <<>> PROVE IsPlain(Front(p))
  <2>1. p \in Seq(Seq(Letters)) /\ Len(p) \in Nat /\ Len(p) >= 1
    BY <1>2, EndIs DEF Spellings
  <2>2. 1 \in 1 .. Len(p) + 1 /\ Len(p) - 1 \in 0 .. Len(p)
    BY <2>1
  <2> DEFINE c == SubSeq(p, 1, Len(p) - 1)
  <2>3. /\ c \in Seq(Seq(Letters)) /\ Len(c) = IF 1 <= Len(p) - 1 THEN Len(p) - 1 - 1 + 1 ELSE 0
        /\ \A i \in 1 .. Len(c) : c[i] = p[1 + i - 1]
    BY <2>1, <2>2, CutIs
  <2> HIDE DEF c
  <2>4. \A i \in DOMAIN c : i \in DOMAIN p /\ c[i] = p[i]
    <3>1. Len(c) \in Nat /\ DOMAIN c = 1 .. Len(c) /\ DOMAIN p = 1 .. Len(p) /\ Len(c) <= Len(p)
      BY <2>1, <2>3
    <3>2. \A i \in 1 .. Len(c) : i \in 1 .. Len(p) /\ 1 + i - 1 = i
      BY <2>1, <3>1
    <3> QED
      BY <2>3, <3>1, <3>2
  <2> QED
    BY <2>4 DEF IsPlain, Front, c
<1> QED
  BY <1>1, <1>2 DEF BasePath

LEMMA AngularReadsIs ==
    ASSUME IsMessage(message), IsSite(site), WellFormed, transport = "angular",
           IsPlain(site.base.path)
    PROVE  AreReadings(AngularReads(message, site.base))
<1> DEFINE path == IF message.origin = "relative" THEN message.path ELSE UrlPath(message.path)
           base == BasePath(site.base.path)
           bodies == {ParsedBody(message, "null")}
           rest == SubSeq(path, Len(base) + 1, Len(path))
           query == FirstWins(message.params \o message.query)
<1>1. site.base.path \in Spellings
  BY DEF IsSite, Spellings
<1>2. base \in Spellings /\ IsPlain(base) /\ BaseText = Denoted(base)
  BY <1>1, PlainBase DEF BaseText
<1>3. path \in Spellings /\ Denoted(path) = PathText
  BY PathIsSpelling, UrlPathIs DEF PathText
<1>4. AngularReads(message, site.base) =
         IF IsOutside(site.base, message.origin, path) THEN {Passed}
         ELSE Read(OrRoot(rest), query, message, bodies)
  BY DEF AngularReads
<1>5. bodies # {} /\ \A body \in bodies : IsBody(body)
  BY BodiesAre
<1>6. IsQuery(query)
  BY QueriesAre
<1>7. IsOutside(site.base, message.origin, path) <=> ~IsBelow
  <2> HIDE DEF path, base
  <2>1. IsPrefix(base, path) <=> IsPrefix(BaseText, PathText)
    BY <1>2, <1>3, PlainPrefix
  <2> QED
    BY <2>1 DEF IsOutside, IsBelow, base
<1>8. ASSUME IsBelow PROVE OrRoot(rest) \in Spellings /\ Denoted(OrRoot(rest)) = MockText
  <2> HIDE DEF path, base
  <2>1. IsPrefix(base, path)
    BY <1>7, <1>8 DEF IsOutside, base
  <2>2. /\ base \in Seq(Seq(Letters)) /\ path \in Seq(Seq(Letters))
        /\ Len(path) = Len(PathText) /\ Len(base) = Len(BaseText)
    BY <1>2, <1>3, DenotedIs DEF Spellings
  <2>3. Len(base) <= Len(path)
    BY <2>1, <2>2, PrefixIs
  <2>4. Len(base) + 1 \in 1 .. Len(path) + 1 /\ Len(path) \in 0 .. Len(path)
    BY <2>2, <2>3
  <2>5. rest \in Spellings /\ Denoted(rest) = SubSeq(PathText, Len(base) + 1, Len(path))
    BY <1>3, <2>4, DenotedCut
  <2>6. MockText = OrRoot(SubSeq(PathText, Len(base) + 1, Len(path)))
    BY <2>2 DEF MockText
  <2> HIDE DEF rest
  <2> QED
    BY <2>5, <2>6, TrimDenoted
<1> HIDE DEF path, base, bodies, rest, query
<1>9. CASE IsBelow
  BY <1>4, <1>5, <1>6, <1>7, <1>8, <1>9, ReadIs DEF AreReadings
<1>10. CASE ~IsBelow
  BY <1>4, <1>7, <1>10, PassedIs DEF AreReadings
<1> QED
  BY <1>9, <1>10

\* The message is read as it is meant, on every transport.
LEMMA ReadingsAre ==
    ASSUME IsMessage(message), IsSite(site), WellFormed,
           transport \in {"fetch", "server", "express", "angular"},
           transport = "angular" => IsPlain(site.base.path)
    PROVE  AreReadings(Readings)
<1>1. CASE transport = "fetch"
  BY <1>1, FetchReadsIs DEF Readings
<1>2. CASE transport = "server"
  BY <1>2, NodeReadsIs DEF Readings
<1>3. CASE transport = "express"
  BY <1>3, ExpressReadsIs DEF Readings
<1>4. CASE transport = "angular"
  BY <1>4, AngularReadsIs DEF Readings
<1> QED
  BY <1>1, <1>2, <1>3, <1>4

-----------------------------------------------------------------------------
(* Finding a route. *)

LEMMA MockTextIs ==
    ASSUME IsMessage(message), IsSite(site), WellFormed, IsBelow
    PROVE  MockText \in Texts /\ MockText # <<>>
<1>1. PathText \in Texts /\ PathText # <<>>
  BY PathIsSpelling
<1>2. CASE transport = "angular"
  <2>1. BaseText \in Texts
    <3>1. site.base.path \in Spellings
      BY DEF IsSite, Spellings
    <3> QED
      BY <3>1, TrimDenoted, DenotedIs DEF BaseText
  <2>2. IsPrefix(BaseText, PathText)
    BY <1>2 DEF IsBelow
  <2>3. BaseText \in Seq(Seq(Characters)) /\ PathText \in Seq(Seq(Characters))
    BY <1>1, <2>1 DEF Texts
  <2>4. Len(BaseText) <= Len(PathText)
    BY <2>2, <2>3, PrefixIs
  <2>5. Len(BaseText) + 1 \in 1 .. Len(PathText) + 1 /\ Len(PathText) \in 0 .. Len(PathText)
    BY <2>3, <2>4
  <2>6. SubSeq(PathText, Len(BaseText) + 1, Len(PathText)) \in Texts
    BY <1>1, <2>5, SpellCut
  <2> QED
    BY <1>2, <2>6, TrimSpelled DEF MockText
<1>3. CASE transport # "angular"
  BY <1>1, <1>3 DEF MockText
<1> QED
  BY <1>2, <1>3

\* The part of the path that the namespace leaves to the routes.
IsInside ==
    /\ IsPrefix(InnerText, MockText)
    /\ InnerText # Denoted(site.namespace) => Len(MockText) > Len(InnerText)

LEMMA InnerIs ==
    ASSUME site.namespace \in Spellings
    PROVE  /\ InnerText \in Texts /\ BasePath(Canonical(site.namespace)) = Spell(InnerText)
           /\ InnerText # Denoted(site.namespace)
                 <=> site.namespace # <<>> /\ Last(site.namespace) = <<>>
           /\ site.namespace \in {<<>>, Root} => InnerText = <<>>
<1> DEFINE n == site.namespace
<1>1. /\ Denoted(n) \in Texts /\ Canonical(n) = Spell(Denoted(n)) /\ Len(Denoted(n)) = Len(n)
      /\ InnerText = BasePath(Denoted(n))
  BY DenotedIs, TrimDenoted DEF InnerText
<1>2. InnerText \in Texts /\ BasePath(Canonical(n)) = Spell(InnerText)
  BY <1>1, TrimSpelled
<1>3. InnerText # Denoted(n) <=> n # <<>> /\ Last(n) = <<>>
  <2>1. CASE n # <<>> /\ Last(n) = <<>>
    <3>1. Denoted(n) # <<>> /\ Last(Denoted(n)) = <<>>
      BY <2>1, DenotedEnds
    <3>2. InnerText = Front(Denoted(n))
      BY <1>1, <3>1 DEF BasePath
    <3>3. Denoted(n) \in Seq(Seq(Characters)) /\ Len(Denoted(n)) \in Nat /\ Len(Denoted(n)) >= 1
      BY <1>1, <3>1, EndIs DEF Texts
    <3>4. 1 \in 1 .. Len(Denoted(n)) + 1 /\ Len(Denoted(n)) - 1 \in 0 .. Len(Denoted(n))
      BY <3>3
    <3>5. Len(SubSeq(Denoted(n), 1, Len(Denoted(n)) - 1)) # Len(Denoted(n))
      BY <3>3, <3>4, CutIs
    <3>6. Len(InnerText) # Len(Denoted(n))
      BY <3>2, <3>5 DEF Front
    <3> QED
      BY <2>1, <3>6
  <2>2. CASE ~(n # <<>> /\ Last(n) = <<>>)
    BY <1>1, <2>2, DenotedEnds DEF BasePath
  <2> QED
    BY <2>1, <2>2
<1>4. ASSUME n \in {<<>>, Root} PROVE InnerText = <<>>
  <2>1. CASE n = <<>>
    <3>1. Denoted(n) = <<>>
      BY <2>1, DenotedEnds
    <3> QED
      BY <1>1, <3>1 DEF BasePath
  <2>2. CASE n = Root
    <3>1. Denoted(n) = Root
      BY <2>2, RootIs
    <3>2. BasePath(Root) = <<>>
      BY DEF Root, BasePath, Last, Front
    <3> QED
      BY <1>1, <3>1, <3>2
  <2> QED
    BY <1>4, <2>1, <2>2
<1> QED
  BY <1>2, <1>3, <1>4

LEMMA RestIs ==
    ASSUME site.namespace \in Spellings, MockText \in Texts, IsInside
    PROVE  LET rest == SubSeq(MockText, Len(InnerText) + 1, Len(MockText)) IN
           /\ Len(InnerText) + 1 \in 1 .. Len(MockText) + 1 /\ Len(MockText) \in 0 .. Len(MockText)
           /\ rest \in Texts /\ RestText \in Texts /\ RestText = WithoutSlash(OrRoot(rest))
           /\ rest # <<>> <=> Len(MockText) > Len(InnerText)
<1> DEFINE rest == SubSeq(MockText, Len(InnerText) + 1, Len(MockText))
<1>1. InnerText \in Seq(Seq(Characters)) /\ MockText \in Seq(Seq(Characters))
  BY InnerIs DEF Texts
<1>2. Len(InnerText) <= Len(MockText)
  BY <1>1, PrefixIs DEF IsInside
<1>3. Len(InnerText) + 1 \in 1 .. Len(MockText) + 1 /\ Len(MockText) \in 0 .. Len(MockText)
  BY <1>1, <1>2
<1>4. rest \in Texts
  BY <1>3, SpellCut
<1>5. rest # <<>> <=> Len(MockText) > Len(InnerText)
  <2>1. Len(rest) = IF Len(InnerText) + 1 <= Len(MockText)
                    THEN Len(MockText) - (Len(InnerText) + 1) + 1 ELSE 0
    BY <1>1, <1>3, CutIs
  <2>2. rest \in Seq(Seq(Characters))
    BY <1>4 DEF Texts
  <2> HIDE DEF rest
  <2>3. rest = <<>> <=> Len(rest) = 0
    BY <2>2
  <2>4. Len(InnerText) \in Nat /\ Len(MockText) \in Nat
    BY <1>1
  <2> QED
    BY <1>2, <2>1, <2>3, <2>4
<1> HIDE DEF rest
<1>6. RestText = WithoutSlash(OrRoot(rest))
  BY DEF RestText, rest
<1> QED
  BY <1>3, <1>4, <1>5, <1>6, TrimSpelled DEF rest

LEMMA NamespacedIs ==
    ASSUME site.namespace \in Spellings, MockText \in Texts, MockText # <<>>
    PROVE  {WithoutSlash(below) : below \in Namespaced(site.namespace, Spell(MockText))}
              = IF IsInside THEN {Spell(RestText)} ELSE {}
<1> DEFINE n == site.namespace
           rest == SubSeq(MockText, Len(InnerText) + 1, Len(MockText))
           left == SubSeq(Spell(MockText), Len(Spell(InnerText)) + 1, Len(Spell(MockText)))
           slash == n # <<>> /\ Last(n) = <<>>
<1>1. InnerText \in Texts /\ MockText \in Seq(Seq(Characters))
  BY InnerIs DEF Texts
<1>2. Len(Spell(InnerText)) = Len(InnerText) /\ Len(Spell(MockText)) = Len(MockText)
  BY <1>1, SpellIs
<1>3. ASSUME IsInside PROVE left = Spell(rest) /\ rest \in Texts /\ (left # <<>> <=> rest # <<>>)
  <2>1. rest \in Texts /\ Len(InnerText) + 1 \in 1 .. Len(MockText) + 1
        /\ Len(MockText) \in 0 .. Len(MockText)
    BY <1>3, RestIs
  <2>2. left = Spell(rest)
    BY <1>2, <2>1, SpellCut
  <2> HIDE DEF left, rest
  <2> QED
    BY <2>1, <2>2, SpellEnds
<1>4. CASE n \in {<<>>, Root}
  <2>1. InnerText = <<>>
    BY <1>4, InnerIs
  <2>2. Len(InnerText) = 0
    BY <2>1
  <2>3. Len(MockText) \in Nat /\ Len(MockText) > 0
    BY <1>1, EndIs
  <2>4. IsInside
    <3>1. IsPrefix(InnerText, MockText)
      <4>1. InnerText \in Seq(Seq(Characters)) /\ DOMAIN InnerText = {}
        BY <2>1
      <4>2. Len(InnerText) <= Len(MockText)
        BY <2>2, <2>3
      <4>3. \A i \in DOMAIN InnerText : InnerText[i] = MockText[i]
        BY <4>1
      <4>4. MockText \in Seq(Seq(Characters))
        BY <1>1
      <4> QED
        BY <4>1, <4>2, <4>3, <4>4, PrefixIs
    <3> QED
      BY <2>2, <2>3, <3>1 DEF IsInside
  <2>5. rest = MockText
    BY <1>1, <2>2, <2>3
  <2>6. RestText = WithoutSlash(MockText)
    BY <2>5 DEF RestText, OrRoot
  <2>7. Namespaced(n, Spell(MockText)) = {Spell(MockText)}
    BY <1>4 DEF Namespaced
  <2>8. WithoutSlash(Spell(MockText)) = Spell(RestText)
    BY <2>6, TrimSpelled
  <2> QED
    BY <2>4, <2>7, <2>8
<1>5. CASE n \notin {<<>>, Root}
  <2>1. BasePath(Canonical(n)) = Spell(InnerText)
    BY InnerIs
  <2>2. Namespaced(n, Spell(MockText)) =
           {OrRoot(r) : r \in {q \in {left} : /\ IsPrefix(Spell(InnerText), Spell(MockText))
                                              /\ slash => q # <<>>}}
    BY <1>5, <2>1 DEF Namespaced
  <2>3. IsPrefix(Spell(InnerText), Spell(MockText)) <=> IsPrefix(InnerText, MockText)
    BY <1>1, SpellPrefix
  <2>4. slash <=> InnerText # Denoted(n)
    BY InnerIs
  <2> HIDE DEF left, slash
  <2>5. CASE IsInside
    <3>1. left = Spell(rest) /\ rest \in Texts /\ RestText = WithoutSlash(OrRoot(rest))
          /\ (left # <<>> <=> Len(MockText) > Len(InnerText))
      BY <1>3, <2>5, RestIs
    <3> HIDE DEF rest
    <3>2. IsPrefix(Spell(InnerText), Spell(MockText)) /\ (slash => left # <<>>)
      BY <2>3, <2>4, <2>5, <3>1 DEF IsInside
    <3>3. Namespaced(n, Spell(MockText)) = {OrRoot(left)}
      BY <2>2, <3>2
    <3>4. WithoutSlash(OrRoot(left)) = Spell(RestText)
      BY <3>1, TrimSpelled
    <3> QED
      BY <2>5, <3>3, <3>4
  <2>6. CASE ~IsInside
    <3>1. ~IsPrefix(Spell(InnerText), Spell(MockText)) \/ (slash /\ ~(left # <<>>))
      <4>1. CASE ~IsPrefix(InnerText, MockText)
        BY <2>3, <4>1
      <4>2. CASE /\ IsPrefix(InnerText, MockText)
                 /\ InnerText # Denoted(n) /\ ~(Len(MockText) > Len(InnerText))
        <5>1. Len(InnerText) <= Len(MockText) /\ Len(InnerText) \in Nat /\ Len(MockText) \in Nat
          <6>1. InnerText \in Seq(Seq(Characters))
            BY <1>1 DEF Texts
          <6> QED
            BY <1>1, <4>2, <6>1, PrefixIs
        <5>2. Len(Spell(InnerText)) = Len(Spell(MockText)) /\ Len(Spell(MockText)) \in Nat
          BY <1>2, <4>2, <5>1
        <5>3. Spell(MockText) \in Seq(Seq(Letters))
          BY SpellIs DEF Spellings
        <5>4. left = <<>>
          <6> DEFINE s == Spell(MockText)
                     m == Len(s)
          <6>1. left = SubSeq(s, m + 1, m)
            BY <5>2 DEF left
          <6>2. s \in Seq(Seq(Letters)) /\ m = Len(s) /\ m \in Nat
            BY <5>2, <5>3
          <6> HIDE DEF s, m
          <6> QED
            BY <6>1, <6>2
        <5> QED
          BY <2>4, <4>2, <5>4
      <4> QED
        BY <2>6, <4>1, <4>2 DEF IsInside
    <3>2. {q \in {left} : IsPrefix(Spell(InnerText), Spell(MockText)) /\ (slash => q # <<>>)} = {}
      BY <3>1
    <3>3. Namespaced(n, Spell(MockText)) = {}
      BY <2>2, <3>2
    <3> QED
      BY <2>6, <3>3
  <2> QED
    BY <2>5, <2>6
<1> QED
  BY <1>4, <1>5

\* The segment that stands for a parameter, as a path of its own.
ParamPath == <<Param>>
ParamText == << << ":id" >> >>

LEMMA ParamIs ==
    /\ ParamPath \in Spellings /\ ParamPath[1] = Param /\ 1 \in DOMAIN ParamPath
    /\ IsPlain(ParamPath) /\ Denoted(ParamPath)[1] = <<":id">>
    /\ ParamText \in Texts /\ 1 \in DOMAIN ParamText /\ ParamText[1] = <<":id">>
    /\ Spell(ParamText)[1] = Param
<1>1. Letter(":id", "raw") \in Letters /\ ":id" \in Characters /\ ":id" \in Plain
      /\ ":id" \notin Unsafe
  BY CharactersAssumption DEF Letters, Characters
<1>2. Param \in Seq(Letters) /\ Param[1] = Letter(":id", "raw") /\ DOMAIN Param = {1}
  BY <1>1 DEF Param
<1>3. ParamPath \in Spellings /\ ParamPath[1] = Param /\ DOMAIN ParamPath = {1}
  BY <1>2 DEF ParamPath, Spellings
<1>4. IsPlain(ParamPath)
  <2>1. \A i \in DOMAIN ParamPath : ParamPath[i] = Param
    BY <1>3
  <2>2. \A l \in ToSet(Param) : l.as = "raw" /\ l.char \notin Unsafe
    BY <1>1, <1>2 DEF ToSet, Letter
  <2> QED
    BY <2>1, <2>2 DEF IsPlain
<1>5. ParamText \in Texts /\ DOMAIN ParamText = {1} /\ ParamText[1] = <<":id">>
  BY <1>1 DEF ParamText, Texts
<1>6. Denoted(ParamPath)[1] = <<":id">>
  <2>1. Denoted(ParamPath)[1] = [j \in DOMAIN Param |-> Param[j].char]
    BY <1>3 DEF Denoted
  <2>2. \A j \in DOMAIN Param : Param[j].char = <<":id">>[j]
    BY <1>2 DEF Letter
  <2>3. DOMAIN <<":id">> = {1} /\ <<":id">> = [j \in {1} |-> <<":id">>[j]]
    OBVIOUS
  <2>4. [j \in DOMAIN Param |-> Param[j].char] = [j \in {1} |-> <<":id">>[j]]
    BY <1>2, <2>2
  <2> QED
    BY <2>1, <2>3, <2>4
<1>7. Spell(ParamText)[1] = Param
  <2>1. Proper(":id") = Letter(":id", "raw")
    BY <1>1 DEF Proper
  <2>2. Spell(ParamText)[1] = [j \in DOMAIN ParamText[1] |-> Proper(ParamText[1][j])]
    BY <1>5 DEF Spell
  <2>3. DOMAIN ParamText[1] = {1} /\ ParamText[1][1] = ":id"
    BY <1>5
  <2>4. Param = [j \in {1} |-> Param[j]]
    BY <1>2
  <2>5. [j \in DOMAIN ParamText[1] |-> Proper(ParamText[1][j])] = [j \in {1} |-> Param[j]]
    <3>1. \A j \in {1} : Proper(ParamText[1][j]) = Param[j]
      BY <1>2, <2>1, <2>3
    <3> QED
      BY <2>3, <3>1
  <2> QED
    BY <2>2, <2>4, <2>5
<1> QED
  BY <1>3, <1>4, <1>5, <1>6, <1>7

\* The table of core has each key as it is meant.
LEMMA KeyIs ==
    ASSUME IsSite(site), NEW k \in DOMAIN site.keys
    PROVE  /\ site.keys[k] \in Spellings
           /\ KeyText(k) \in Texts /\ RouteKeyPath(site.keys[k]) = Spell(KeyText(k))
           /\ IsStatic(Spell(KeyText(k))) <=> IsStatic(site.keys[k])
<1> DEFINE key == site.keys[k]
           text == Denoted(key)
<1>1. key \in Spellings
  BY DEF IsSite, Spellings, ToSet
<1>2. /\ text \in Texts /\ Canonical(key) = Spell(text)
      /\ Len(text) = Len(key) /\ DOMAIN text = DOMAIN key
  BY <1>1, DenotedIs
<1>3. KeyText(k) = WithoutSlash(text)
  BY DEF KeyText
<1>4. KeyText(k) \in Texts /\ RouteKeyPath(key) = Spell(KeyText(k))
  BY <1>2, <1>3, TrimSpelled DEF RouteKeyPath
<1>5. IsStatic(key) <=> \A i \in DOMAIN text : text[i] # <<":id">>
  <2>1. \A i \in DOMAIN key : key[i] = Param <=> text[i] = <<":id">>
    <3> SUFFICES ASSUME NEW i \in DOMAIN key PROVE Param = key[i] <=> <<":id">> = text[i]
      OBVIOUS
    <3>1. ParamPath[1] = key[i] <=> Denoted(ParamPath)[1] = Denoted(key)[i]
      BY <1>1, ParamIs, PlainTells
    <3> QED
      BY <3>1, ParamIs
  <2> HIDE DEF text, key
  <2> QED
    BY <1>2, <2>1 DEF IsStatic, ToSet
<1>6. IsStatic(Spell(KeyText(k))) <=> \A i \in DOMAIN KeyText(k) : KeyText(k)[i] # <<":id">>
  <2> DEFINE t == KeyText(k)
  <2>1. t \in Texts /\ DOMAIN Spell(t) = DOMAIN t
    BY <1>4, SpellIs
  <2> HIDE DEF t
  <2>2. \A i \in DOMAIN t : Spell(t)[i] = Param <=> t[i] = <<":id">>
    <3> SUFFICES ASSUME NEW i \in DOMAIN t PROVE Spell(t)[i] = Param <=> t[i] = <<":id">>
      OBVIOUS
    <3>1. Spell(t)[i] = Spell(ParamText)[1] <=> t[i] = ParamText[1]
      BY <2>1, ParamIs, SpellTells
    <3> QED
      BY <3>1, ParamIs
  <2>3. IsStatic(Spell(t)) <=> \A i \in DOMAIN t : t[i] # <<":id">>
    BY <2>1, <2>2 DEF IsStatic, ToSet
  <2> QED
    BY <2>3 DEF t
<1>7. (\A i \in DOMAIN WithoutSlash(text) : WithoutSlash(text)[i] # <<":id">>)
         <=> \A i \in DOMAIN text : text[i] # <<":id">>
  <2> HIDE DEF text
  <2>1. CASE Len(text) > 1 /\ Last(text) = <<>>
    <3>1. text \in Seq(Seq(Characters)) /\ Len(text) \in Nat /\ text # <<>> /\ DOMAIN text = 1 .. Len(text)
      BY <1>2, <2>1 DEF Texts
    <3>2. 1 \in 1 .. Len(text) + 1 /\ Len(text) - 1 \in 0 .. Len(text)
      BY <2>1, <3>1
    <3> DEFINE f == SubSeq(text, 1, Len(text) - 1)
    <3>3. /\ f \in Seq(Seq(Characters))
          /\ Len(f) = IF 1 <= Len(text) - 1 THEN Len(text) - 1 - 1 + 1 ELSE 0
          /\ \A i \in 1 .. Len(f) : f[i] = text[1 + i - 1]
      BY <3>1, <3>2, CutIs
    <3>4. WithoutSlash(text) = f /\ text[Len(text)] = <<>>
      <4>1. WithoutSlash(text) = Front(text)
        BY <2>1 DEF WithoutSlash
      <4>2. Front(text) = f /\ Last(text) = text[Len(text)]
        BY DEF Front, Last
      <4> HIDE DEF f
      <4> QED
        BY <2>1, <4>1, <4>2
    <3> HIDE DEF f
    <3>5. Len(f) = Len(text) - 1 /\ DOMAIN f = 1 .. Len(f)
      <4>1. Len(f) = Len(text) - 1
        <5>1. 1 <= Len(text) - 1 /\ Len(text) - 1 - 1 + 1 = Len(text) - 1
          BY <2>1, <3>1
        <5> QED
          BY <3>3, <5>1
      <4>2. f \in Seq(Seq(Characters))
        BY <3>3
      <4>3. DOMAIN f = 1 .. Len(f)
        BY <4>2
      <4> QED
        BY <4>1, <4>3
    <3>6. \A i \in DOMAIN f : i \in DOMAIN text /\ f[i] = text[i]
      <4>1. \A i \in 1 .. Len(f) : i \in 1 .. Len(text) /\ 1 + i - 1 = i
        BY <3>1, <3>5
      <4> QED
        BY <3>1, <3>3, <3>5, <4>1
    <3>7. \A i \in DOMAIN text : i \in DOMAIN f \/ i = Len(text)
      BY <3>1, <3>5
    <3>8. text[Len(text)] # <<":id">>
      BY <3>4
    <3> QED
      BY <3>4, <3>6, <3>7, <3>8
  <2>2. CASE ~(Len(text) > 1 /\ Last(text) = <<>>)
    BY <2>2 DEF WithoutSlash
  <2> QED
    BY <2>1, <2>2
<1> QED
  BY <1>1, <1>3, <1>4, <1>5, <1>6, <1>7

\* A key matches a path exactly if its text does.
LEMMA MatchIs ==
    ASSUME NEW k \in Texts, NEW r \in Texts
    PROVE  MatchesPath(Spell(k), Spell(r))
              <=> /\ Len(k) = Len(r)
                  /\ \A i \in DOMAIN k : \/ k[i] = r[i]
                                         \/ k[i] = <<":id">> /\ r[i] # <<>>
<1>1. /\ Len(Spell(k)) = Len(k) /\ Len(Spell(r)) = Len(r)
      /\ DOMAIN Spell(k) = DOMAIN k /\ DOMAIN Spell(r) = DOMAIN r
  BY SpellIs
<1>2. k \in Seq(Seq(Characters)) /\ r \in Seq(Seq(Characters))
  BY DEF Texts
<1>3. Len(k) = Len(r) => DOMAIN k = DOMAIN r
  BY <1>2
<1>4. ASSUME NEW i \in DOMAIN k, i \in DOMAIN r
      PROVE  (IF Spell(k)[i] = Param THEN Spell(r)[i] # <<>> ELSE Spell(r)[i] = Spell(k)[i])
                <=> \/ k[i] = r[i]
                    \/ k[i] = <<":id">> /\ r[i] # <<>>
  <2>1. Spell(k)[i] = Param <=> k[i] = <<":id">>
    <3>1. Spell(k)[i] = Spell(ParamText)[1] <=> k[i] = ParamText[1]
      BY ParamIs, SpellTells
    <3> QED
      BY <3>1, ParamIs
  <2>2. Spell(r)[i] = Spell(k)[i] <=> r[i] = k[i]
    BY <1>4, SpellTells
  <2>3. Spell(r)[i] = <<>> <=> r[i] = <<>>
    <3>1. Len(Spell(r)[i]) = Len(r[i])
      BY <1>4, SpellIs
    <3>2. Spell(r)[i] \in Seq(Letters) /\ r[i] \in Seq(Characters)
      BY <1>1, <1>4, SpellIs DEF Spellings, Texts
    <3>3. /\ Spell(r)[i] = <<>> <=> Len(Spell(r)[i]) = 0
          /\ r[i] = <<>> <=> Len(r[i]) = 0
      <4>1. \A S : \A s \in Seq(S) : s = <<>> <=> Len(s) = 0
        OBVIOUS
      <4> QED
        BY <3>2, <4>1
    <3> QED
      BY <3>1, <3>3
  <2>4. <<":id">> # <<>>
    OBVIOUS
  <2> QED
    BY <2>1, <2>2, <2>3, <2>4
<1> QED
  BY <1>1, <1>3, <1>4 DEF MatchesPath

LEMMA DecodedIs ==
    ASSUME NEW t \in Texts, NEW i \in DOMAIN t
    PROVE  Decoded(Spell(t)[i]) = [j \in DOMAIN t[i] |-> Letter(t[i][j], "raw")]
<1>1. Spell(t)[i] \in Seq(Letters) /\ DOMAIN Spell(t)[i] = DOMAIN t[i]
  BY SpellIs DEF Spellings
<1>2. LonePercent \notin ToSet(Spell(t)[i])
  <2>1. \A j \in DOMAIN Spell(t)[i] : Spell(t)[i][j] \in Letters
    BY <1>1
  <2> QED
    BY <2>1, LetterIs DEF ToSet
<1>3. \A j \in DOMAIN t[i] : Spell(t)[i][j].char = t[i][j]
  <2>1. t[i] \in Seq(Characters)
    BY DEF Texts
  <2>2. \A j \in DOMAIN t[i] : Spell(t)[i][j] = Proper(t[i][j]) /\ t[i][j] \in Characters
    BY <2>1, SpellIs
  <2> QED
    BY <2>2, ProperIs
<1> DEFINE s == Spell(t)[i]
<1>4. Decoded(s) = [j \in DOMAIN s |-> Letter(s[j].char, "raw")]
  BY <1>2 DEF Decoded
<1> QED
  BY <1>1, <1>3, <1>4

LEMMA FindIs ==
    ASSUME IsSite(site), RestText \in Texts, IsInside
    PROVE  /\ FindIn(site.keys, Spell(RestText)) # {} <=> \E k \in DOMAIN site.keys : Accepts(k)
           /\ \A f \in FindIn(site.keys, Spell(RestText)) : RouteIsMeant(f)
<1> DEFINE keys == site.keys
           path == Spell(RestText)
           table == [i \in DOMAIN keys |-> RouteKeyPath(keys[i])]
           fits == {i \in DOMAIN keys : MatchesPath(table[i], path)}
           statics == {i \in fits : IsStatic(table[i])}
           chosen == IF statics # {} THEN statics ELSE fits
           Found(i) == [route |-> i,
                        params |-> {<<k, Decoded(path[k])>> :
                                       k \in {n \in DOMAIN path : table[i][n] = Param}}]
<1>1. FindIn(keys, path) = {Found(i) : i \in {Min(s) : s \in {chosen} \ {{}}}}
  BY DEF FindIn
<1>2. \A i \in DOMAIN keys : table[i] = Spell(KeyText(i)) /\ KeyText(i) \in Texts
  BY KeyIs
<1>3. \A i \in DOMAIN keys : table[i] = RouteKeyPath(keys[i])
  OBVIOUS
<1> HIDE DEF table
<1>4. fits = {i \in DOMAIN keys : Accepts(i)}
  <2> SUFFICES ASSUME NEW i \in DOMAIN keys PROVE MatchesPath(table[i], path) <=> Accepts(i)
    OBVIOUS
  <2>1. MatchesPath(table[i], path)
           <=> /\ Len(KeyText(i)) = Len(RestText)
               /\ \A j \in DOMAIN KeyText(i) :
                     \/ KeyText(i)[j] = RestText[j]
                     \/ KeyText(i)[j] = <<":id">> /\ RestText[j] # <<>>
    BY <1>2, MatchIs
  <2> QED
    BY <2>1 DEF Accepts, IsInside
<1>5. statics = {i \in fits : IsStatic(keys[i])}
  <2>1. \A i \in DOMAIN keys : IsStatic(table[i]) <=> IsStatic(keys[i])
    BY <1>2, KeyIs
  <2> QED
    BY <2>1
<1>6. fits \in SUBSET Nat
  BY DEF IsSite
<1> HIDE DEF fits, keys, path, Found
<1> HIDE DEF statics
<1>7. chosen \in SUBSET Nat /\ chosen \subseteq fits /\ (chosen = {} <=> fits = {})
      /\ (statics # {} => chosen \subseteq statics)
  BY <1>5, <1>6
<1> HIDE DEF chosen
<1>8. chosen # {} => Min(chosen) \in chosen
  BY <1>7, MinIs
<1>9. FindIn(keys, path) = IF chosen = {} THEN {} ELSE {Found(Min(chosen))}
  BY <1>1
<1>10. ASSUME chosen # {} PROVE RouteIsMeant(Found(Min(chosen)))
  <2> DEFINE i == Min(chosen)
  <2>1. i \in fits /\ i \in DOMAIN keys /\ Accepts(i)
    BY <1>4, <1>7, <1>8, <1>10
  <2> HIDE DEF i
  <2>2. Found(i).route = i
        /\ Found(i).params = {<<k, Decoded(path[k])>> : k \in {n \in DOMAIN path : table[i][n] = Param}}
    BY DEF Found
  <2>3. DOMAIN path = DOMAIN RestText /\ table[i] = RouteKeyPath(keys[i])
    BY <1>3, <2>1, SpellIs DEF path
  <2>4. \A k \in DOMAIN RestText :
           Decoded(path[k]) = [j \in DOMAIN RestText[k] |-> Letter(RestText[k][j], "raw")]
    BY DecodedIs DEF path
  <2>5. Found(i).params =
           {<<k, [j \in DOMAIN RestText[k] |-> Letter(RestText[k][j], "raw")]>> :
               k \in {n \in DOMAIN RestText : RouteKeyPath(keys[i])[n] = Param}}
    BY <2>2, <2>3, <2>4
  <2>6. (\E k \in DOMAIN keys : Accepts(k) /\ IsStatic(keys[k])) => IsStatic(keys[i])
    <3> SUFFICES ASSUME NEW k \in DOMAIN keys, Accepts(k), IsStatic(keys[k])
                 PROVE  IsStatic(keys[i])
      OBVIOUS
    <3>1. k \in statics
      BY <1>4, <1>5
    <3>2. i \in statics
      BY <1>7, <1>8, <1>10, <3>1 DEF i
    <3> QED
      BY <1>5, <3>2
  <2> QED
    BY <2>1, <2>2, <2>5, <2>6 DEF RouteIsMeant, keys, i
<1>11. fits # {} <=> \E k \in DOMAIN keys : Accepts(k)
  BY <1>4
<1> QED
  BY <1>7, <1>9, <1>10, <1>11 DEF keys, path

\* Core finds a route that is meant, and one whenever there is one.
LEMMA LookUpIs ==
    ASSUME IsMessage(message), IsSite(site), WellFormed, IsBelow,
           NEW path \in Spellings, Denoted(path) = MockText
    PROVE  /\ LookUp(site.keys, site.namespace, path) # {} <=> \E k \in DOMAIN site.keys : Accepts(k)
           /\ \A f \in LookUp(site.keys, site.namespace, path) : RouteIsMeant(f)
<1>1. MockText \in Texts /\ MockText # <<>> /\ site.namespace \in Spellings
  BY MockTextIs DEF IsSite, Spellings
<1>2. Canonical(path) = Spell(MockText)
  BY DenotedIs
<1>3. {WithoutSlash(below) : below \in Namespaced(site.namespace, Spell(MockText))}
         = IF IsInside THEN {Spell(RestText)} ELSE {}
  BY <1>1, NamespacedIs
<1>4. LookUp(site.keys, site.namespace, path) =
         UNION {FindIn(site.keys, p) :
                   p \in {WithoutSlash(below) : below \in Namespaced(site.namespace, Spell(MockText))}}
  BY <1>2 DEF LookUp
<1>5. CASE IsInside
  <2>1. RestText \in Texts
    BY <1>1, <1>5, RestIs
  <2>2. LookUp(site.keys, site.namespace, path) = FindIn(site.keys, Spell(RestText))
    BY <1>3, <1>4, <1>5
  <2> QED
    BY <1>5, <2>1, <2>2, FindIs
<1>6. CASE ~IsInside
  <2>1. LookUp(site.keys, site.namespace, path) = {}
    BY <1>3, <1>4, <1>6
  <2>2. \A k \in DOMAIN site.keys : ~Accepts(k)
    BY <1>6 DEF Accepts, IsInside
  <2> QED
    BY <2>1, <2>2
<1> QED
  BY <1>5, <1>6

-----------------------------------------------------------------------------
(* A message on its way. *)

IsTalk ==
    /\ transport \in {"fetch", "server", "express", "angular"}
    /\ IsSite(site) /\ IsMessage(message)
    /\ \A r \in replies : IsReply(r)

IsHandled == \E r \in seen : r.handled
LookUps == UNION {LookUp(site.keys, site.namespace, r.path) : r \in seen}

\* What each stage has made of the message.
ProgressInv ==
    /\ wireAt \in {"sent", "read", "found", "replied", "closed"}
    /\ wireAt = "sent" => seen = {}
    /\ wireAt \in {"sent", "read"} => found = {}
    /\ wireAt # "sent" => seen = Readings
    /\ wireAt \in {"read", "found", "replied"} => IsHandled
    /\ wireAt \in {"found", "replied", "closed"} => found = IF IsHandled THEN LookUps ELSE {}
    /\ wireAt \in {"found", "replied"} => found # {}
    /\ reply # {} => wireAt \in {"replied", "closed"}
    /\ \A r, s \in reply : r = s
    /\ \A r \in reply : IsReply(r) /\ (transport = "server" => IsNormal(r))
    /\ wireAt = "closed" => \A r \in reply : got = Sent(r)

WireInv == WireUnused \/ (IsTalk /\ ProgressInv)

LEMMA WireStarts == ASSUME Init PROVE WireInv
<1>1. CASE WireUnused
  BY <1>1 DEF WireInv
<1>2. CASE WireInit
  <2>1. PICK talk \in Talks :
           /\ transport \in talk.transports /\ site \in talk.sites
           /\ message \in talk.messages /\ replies = talk.replies
    BY <1>2 DEF WireInit
  <2>2. IsTalk
    BY <2>1, TalksAssumption DEF IsTalk, IsReply
  <2>3. ProgressInv
    BY <1>2 DEF WireInit, ProgressInv, IsHandled
  <2> QED
    BY <2>2, <2>3 DEF WireInv
<1> QED
  BY <1>1, <1>2 DEF Init

\* The message, and so what it means, is the same in each step.
LEMMA TalkStays ==
    ASSUME IsTalk, UNCHANGED <<transport, site, message, replies>>
    PROVE  IsTalk' /\ Readings' = Readings /\ (\A r : IsNormal(r)' <=> IsNormal(r))
           /\ (seen' = seen => IsHandled' = IsHandled /\ LookUps' = LookUps)
<1>1. IsTalk'
  BY DEF IsTalk
<1>2. Readings' = Readings
  BY DEF Readings
<1>3. \A r : IsNormal(r)' <=> IsNormal(r)
  BY DEF IsNormal, IsHead
<1>4. seen' = seen => IsHandled' = IsHandled /\ LookUps' = LookUps
  BY DEF IsHandled, LookUps
<1> QED
  BY <1>1, <1>2, <1>3, <1>4

LEMMA ReceiveKeeps == ASSUME IsTalk, ProgressInv, Receive PROVE WireInv'
<1>1. IsTalk' /\ Readings' = Readings
  BY TalkStays DEF Receive
<1>2. ProgressInv'
  <2>1. seen' = Readings' /\ wireAt' = IF IsHandled' THEN "read" ELSE "closed"
    BY <1>1 DEF Receive, IsHandled
  <2>2. found = {} /\ reply = {} /\ found' = found /\ reply' = reply
    BY DEF Receive, ProgressInv
  <2> QED
    BY <2>1, <2>2 DEF ProgressInv
<1> QED
  BY <1>1, <1>2 DEF WireInv

LEMMA DispatchKeeps == ASSUME IsTalk, ProgressInv, Dispatch PROVE WireInv'
<1>1. IsTalk' /\ Readings' = Readings /\ IsHandled' = IsHandled /\ LookUps' = LookUps
  BY TalkStays DEF Dispatch
<1>2. ProgressInv'
  <2>1. found' = LookUps' /\ wireAt' = IF found' = {} THEN "closed" ELSE "found"
    BY <1>1 DEF Dispatch, LookUps
  <2>2. reply = {} /\ reply' = reply /\ seen' = seen /\ IsHandled /\ seen = Readings
    BY DEF Dispatch, ProgressInv
  <2> QED
    BY <1>1, <2>1, <2>2 DEF ProgressInv
<1> QED
  BY <1>1, <1>2 DEF WireInv

LEMMA RouteRepliesKeeps == ASSUME IsTalk, ProgressInv, RouteReplies PROVE WireInv'
<1>1. IsTalk' /\ Readings' = Readings /\ IsHandled' = IsHandled /\ LookUps' = LookUps
  BY TalkStays DEF RouteReplies
<1>2. \A r : IsNormal(r)' <=> IsNormal(r)
  BY TalkStays DEF RouteReplies
<1>3. PICK r \in replies :
         \/ ~IsRejected(r, IsHead) /\ reply' = {Normal(WithoutNull(r), IsHead)}
         \/ transport # "server" /\ reply' = {r}
  BY DEF RouteReplies
<1>4. IsReply(r)
  BY DEF IsTalk
<1>5. \A s \in reply' : IsReply(s) /\ (transport = "server" => IsNormal(s))
  BY <1>3, <1>4, NormalIs
<1>6. \A s \in reply' : (IsReply(s) /\ (transport = "server" => IsNormal(s)))'
  BY <1>2, <1>5 DEF RouteReplies, IsReply
<1>7. ProgressInv'
  <2>1. \A s, t \in reply' : s = t
    BY <1>3
  <2>2. /\ wireAt = "found" /\ wireAt' = "replied"
        /\ seen' = seen /\ found' = found /\ got' = got
    BY DEF RouteReplies
  <2> QED
    BY <1>1, <1>6, <2>1, <2>2 DEF ProgressInv
<1> QED
  BY <1>1, <1>7 DEF WireInv

LEMMA TransmitKeeps == ASSUME IsTalk, ProgressInv, Transmit PROVE WireInv'
<1>1. IsTalk' /\ Readings' = Readings /\ IsHandled' = IsHandled /\ LookUps' = LookUps
  BY TalkStays DEF Transmit
<1>2. \A r : IsNormal(r)' <=> IsNormal(r)
  BY TalkStays DEF Transmit
<1>3. PICK r \in reply : got' = Sent(r)
  BY DEF Transmit
<1>4. /\ wireAt = "replied" /\ wireAt' = "closed"
      /\ seen' = seen /\ found' = found /\ reply' = reply
  BY DEF Transmit
<1>5. \A s \in reply' : got' = Sent(s)'
  <2>1. transport' = transport /\ site' = site /\ message' = message
    BY DEF Transmit
  <2>2. \A s : Sent(s)' = Sent(s)
    BY <2>1 DEF Sent, IsHead
  <2>3. \A s \in reply' : s = r
    BY <1>3, <1>4 DEF ProgressInv
  <2> QED
    BY <1>3, <2>2, <2>3
<1>6. \A s \in reply' : (IsReply(s) /\ (transport = "server" => IsNormal(s)))'
  <2>1. \A s \in reply : IsReply(s) /\ (transport = "server" => IsNormal(s))
    BY DEF ProgressInv
  <2> QED
    BY <1>2, <1>4, <2>1 DEF Transmit, IsReply
<1>7. ProgressInv'
  BY <1>1, <1>4, <1>5, <1>6 DEF ProgressInv
<1> QED
  BY <1>1, <1>7 DEF WireInv

LEMMA WireKept == ASSUME WireInv, UNCHANGED wire PROVE WireInv'
<1>1. WireUnused => WireUnused'
  BY DEF WireUnused, wire
<1>2. ASSUME IsTalk, ProgressInv PROVE WireInv'
  <2>1. IsTalk' /\ Readings' = Readings /\ IsHandled' = IsHandled /\ LookUps' = LookUps
    BY <1>2, TalkStays DEF wire
  <2>2. \A r : IsNormal(r)' <=> IsNormal(r)
    BY <1>2, TalkStays DEF wire
  <2>3. \A r : Sent(r)' = Sent(r)
    BY DEF wire, Sent, IsHead
  <2>4. ProgressInv'
    BY <1>2, <2>1, <2>2, <2>3 DEF wire, ProgressInv, IsReply
  <2> QED
    BY <2>1, <2>4 DEF WireInv
<1> QED
  BY <1>1, <1>2 DEF WireInv

LEMMA WireNextKeeps == ASSUME WireInv, [Next]_vars PROVE WireInv'
<1>1. CASE UNCHANGED wire
  BY <1>1, WireKept
<1>2. CASE WireNext
  <2>1. wireAt # "closed" \/ reply # {}
    BY <1>2 DEF WireNext, Receive, Dispatch, RouteReplies, Transmit
  <2>2. IsTalk /\ ProgressInv
    BY <1>2 DEF WireInv, WireUnused, WireNext, Receive, Dispatch, RouteReplies, Transmit
  <2> QED
    BY <1>2, <2>2, ReceiveKeeps, DispatchKeeps, RouteRepliesKeeps, TransmitKeeps DEF WireNext
<1> QED
  BY <1>1, <1>2 DEF Next, vars, steps

LEMMA ReadRight == ASSUME WireInv PROVE RequestIsRead
<1>1. SUFFICES ASSUME transport # "none", transport = "angular" => IsPlain(site.base.path), WellFormed
               PROVE  /\ wireAt = "closed" /\ seen = {} => IsMalformed
                      /\ \A r \in seen : ReadAsSent(r)
                      /\ wireAt \in {"found", "replied", "closed"} /\ seen # {} /\ IsBelow =>
                            (found # {} <=> \E k \in DOMAIN site.keys : Accepts(k))
                      /\ \A f \in found : RouteIsMeant(f)
  BY DEF RequestIsRead
<1>2. IsTalk /\ ProgressInv
  BY <1>1 DEF WireInv, WireUnused
<1>3. AreReadings(Readings)
  BY <1>1, <1>2, ReadingsAre DEF IsTalk
<1>4. /\ \A r \in seen : IsReading(r)
      /\ wireAt = "closed" /\ seen = {} => IsMalformed
  BY <1>2, <1>3 DEF ProgressInv, AreReadings
<1>5. \A r \in seen : ReadAsSent(r) /\ (r.handled <=> IsBelow)
  BY <1>4 DEF IsReading, ReadAsSent
<1>6. ASSUME IsBelow, NEW r \in seen
      PROVE  /\ LookUp(site.keys, site.namespace, r.path) # {}
                   <=> \E k \in DOMAIN site.keys : Accepts(k)
             /\ \A f \in LookUp(site.keys, site.namespace, r.path) : RouteIsMeant(f)
  <2>1. r.path \in Spellings /\ Denoted(r.path) = MockText
    BY <1>4, <1>5, <1>6 DEF IsReading
  <2> QED
    BY <1>1, <1>2, <1>6, <2>1, LookUpIs DEF IsTalk
<1>7. ASSUME IsBelow, seen # {}
      PROVE  /\ LookUps # {} <=> \E k \in DOMAIN site.keys : Accepts(k)
             /\ \A f \in LookUps : RouteIsMeant(f)
             /\ IsHandled
  <2>1. PICK r \in seen : TRUE
    BY <1>7
  <2>2. IsHandled
    BY <1>5, <1>7, <2>1 DEF IsHandled
  <2> QED
    BY <1>6, <1>7, <2>1, <2>2 DEF LookUps
<1>8. found # {} => IsHandled /\ found = LookUps
  BY <1>2 DEF ProgressInv
<1>9. IsHandled => IsBelow /\ seen # {}
  BY <1>5 DEF IsHandled
<1>10. wireAt \in {"found", "replied", "closed"} /\ seen # {} /\ IsBelow =>
          (found # {} <=> \E k \in DOMAIN site.keys : Accepts(k))
  BY <1>2, <1>7 DEF ProgressInv
<1>11. \A f \in found : RouteIsMeant(f)
  BY <1>7, <1>8, <1>9
<1> QED
  BY <1>4, <1>5, <1>10, <1>11

LEMMA SentRight == ASSUME WireInv PROVE DeliveredAsReplied
<1>1. CASE WireUnused
  BY <1>1 DEF WireUnused, DeliveredAsReplied
<1>2. ASSUME IsTalk, ProgressInv, wireAt = "closed", NEW r \in reply
      PROVE  IsDelivered(r, got)
  <2>1. got = Sent(r) /\ IsReply(r) /\ (transport = "server" => IsNormal(r))
    BY <1>2 DEF ProgressInv
  <2> QED
    BY <1>2, <2>1, EveryTransportDelivers DEF IsTalk
<1>3. CASE IsTalk /\ ProgressInv
  BY <1>2, <1>3 DEF DeliveredAsReplied, IsDelivered
<1> QED
  BY <1>1, <1>3 DEF WireInv

\* On every transport, for whatever is sent and replied: a request means to the
\* mock what its characters say, however they are spelled, and the client sees
\* the reply.
THEOREM MessageIsCarried == Spec => []MessageSurvives
<1>1. Init => WireInv
  BY WireStarts
<1>2. WireInv /\ [Next]_vars => WireInv'
  BY WireNextKeeps
<1>3. WireInv => MessageSurvives
  BY ReadRight, SentRight DEF MessageSurvives
<1> QED
  BY <1>1, <1>2, <1>3, PTL DEF Spec
=============================================================================
