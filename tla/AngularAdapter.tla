--------------------------- MODULE AngularAdapter ---------------------------
(***************************************************************************)
(* The Angular HttpInterceptor (packages/angular/src/index.ts): an         *)
(* Observable that emits one response or one error, or subscribes to the   *)
(* real backend, and may be unsubscribed at any time.                      *)
(***************************************************************************)
EXTENDS Exchange

AngularOptions == SUBSET {"errorFormatter", "passthrough"}

\* The exchange has no response to write to and no admission of its own:
\* handle() takes and releases one (MockLifecycle).
NoTransport == UNCHANGED <<adapter, opts, admission, head, ended>>

\* emitError: whatever the formatter returns or throws, the Observable errs.
EmitError ==
    /\ Goes("done") /\ Answer("error")
    /\ outcome' = Exception
    /\ formatted' = formatted + (IF "errorFormatter" \in opts THEN 1 ELSE 0)

\* The rest of the chain is subscribed in place of the mock.
SubscribeInner ==
    /\ Goes("inner") /\ Answer("next")
    /\ UNCHANGED <<outcome, formatted>>

\* intercept(), and the subscription of what it returns: baseUrl or the method
\* exclude the request, or transformRequest does, or it throws, or the mock
\* handles it.
Intercept ==
    /\ adapter = "angular" /\ pc = "idle"
    /\ \/ SubscribeInner
       \/ EmitError
       \/ Goes("handling") /\ UNCHANGED <<answers, outcome, formatted>>
    /\ UNCHANGED aborted /\ NoTransport

\* The response of the mock, through transformResponse, which may change its
\* status; an exception is recognized by the mark it had before.
Emit ==
    \E before \in Outcomes, status500 \in BOOLEAN :
        /\ Goes("done")
        /\ outcome' = [before EXCEPT !.status500 = status500]
        /\ \/ /\ ~status500
              /\ Answer("response") \/ Answer("error")
              /\ UNCHANGED formatted
           \/ /\ status500
              /\ Answer("error")
              /\ formatted' = formatted +
                    (IF "errorFormatter" \in opts /\ before.exception
                     THEN 1 ELSE 0)

\* handle() settles while the Observable is subscribed: no route, which is
\* passed on or is a 404, or a response, or an error of transformResponse.
AngularHandleSettles ==
    /\ adapter = "angular" /\ pc = "handling" /\ ~aborted
    /\ \/ "passthrough" \in opts /\ SubscribeInner
       \/ /\ "passthrough" \notin opts
          /\ Goes("done") /\ Answer("error") /\ UNCHANGED <<outcome, formatted>>
       \/ Emit
       \/ EmitError
    /\ UNCHANGED aborted /\ NoTransport

\* What the teardown leaves running: the mock hears of the abort.
TeardownPc == IF pc = "inner" THEN "done" ELSE pc

\* The subscriber unsubscribes.
Teardown ==
    /\ adapter = "angular" /\ pc \in {"handling", "inner"} /\ ~aborted
    /\ aborted' = TRUE
    /\ Goes(TeardownPc)
    /\ UNCHANGED <<answers, outcome, formatted>> /\ NoTransport

\* handle() settles after that.
SettlesUnsubscribed ==
    /\ adapter = "angular" /\ pc = "handling" /\ aborted
    /\ Goes("done")
    /\ UNCHANGED <<aborted, answers, outcome, formatted>> /\ NoTransport

\* The real backend completes.
InnerCompletes ==
    /\ adapter = "angular" /\ pc = "inner" /\ ~aborted
    /\ Goes("done")
    /\ UNCHANGED <<aborted, answers, outcome, formatted>> /\ NoTransport

AngularNext ==
    \/ Intercept \/ AngularHandleSettles
    \/ Teardown \/ SettlesUnsubscribed \/ InnerCompletes
=============================================================================
