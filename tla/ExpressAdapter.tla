--------------------------- MODULE ExpressAdapter ---------------------------
(***************************************************************************)
(* The Express middleware (packages/express/src/index.ts): two hooks of    *)
(* the user around handle(), which may answer the request themselves, an   *)
(* error formatter, and the middleware that come after.                    *)
(*                                                                         *)
(* A hook that the adapter stopped waiting for runs on.  No code but the   *)
(* hooks and the adapter writes the response before next() is called.      *)
(***************************************************************************)
EXTENDS Exchange

VARIABLE hook      \* a hook of the user is running

ExpressOptions == SUBSET {"errorFormatter", "passErrorsToNext",
                          "beforeRequest", "beforeResponse"}

\* Finish, and give the admission back.
Finally(held) == Goes("done") /\ admission' = Released(held)

\* Leave the response as it is.
LeaveResponse == UNCHANGED <<head, ended, formatted>>

\* schmockToExpressResponse, which writes everything or throws before it wrote.
Send ==
    /\ head' = "adapter" /\ ended' = TRUE
    /\ Answer("response")
    /\ UNCHANGED formatted

\* sendFormattedError: whatever the formatter returns or throws, it was called
\* once, and a response is written.
SendFormatted ==
    /\ formatted' = formatted + 1
    /\ head' = "adapter" /\ ended' = TRUE
    /\ Answer("response")

\* The catch of an error that is not an abort.
Catch(held) ==
    /\ Finally(held)
    /\ outcome' = Exception
    /\ \/ /\ head # "nobody" /\ "passErrorsToNext" \in opts
          /\ Answer("next(error)") /\ LeaveResponse
       \/ /\ head # "nobody" /\ "passErrorsToNext" \notin opts
          /\ Answer("left") /\ ended' = TRUE /\ UNCHANGED <<head, formatted>>
       \/ /\ head = "nobody" /\ "errorFormatter" \in opts
          /\ SendFormatted
       \/ /\ head = "nobody" /\ "errorFormatter" \notin opts
          /\ "passErrorsToNext" \in opts
          /\ Answer("next(error)") /\ LeaveResponse
       \/ /\ head = "nobody"
          /\ {"errorFormatter", "passErrorsToNext"} \cap opts = {}
          /\ Send

\* Mutant: a response that a hook began is not noticed.
OwnedByHookNever == FALSE
\* A hook began the response: it is the hook's.
OwnedByHook == head = "hook"

\* The adapter stops, and next() is not called.
LeaveToHook(held) ==
    /\ OwnedByHook
    /\ Finally(held)
    /\ Answer("left")
    /\ LeaveResponse
    /\ UNCHANGED outcome

\* The middleware is called.
ExpressStart ==
    /\ adapter = "express" /\ pc = "idle"
    /\ \/ Catch("none") /\ UNCHANGED hook          \* not an admission
       \/ Catch("held") /\ UNCHANGED hook          \* a transform throws
       \/ /\ Finally("held") /\ Answer("next")     \* not a method of the mock
          /\ LeaveResponse /\ UNCHANGED <<outcome, hook>>
       \/ /\ admission' = "held"
          /\ \/ "beforeRequest" \in opts /\ Goes("before") /\ hook' = TRUE
             \/ "beforeRequest" \notin opts /\ Goes("handling")
                /\ UNCHANGED hook
          /\ LeaveResponse /\ UNCHANGED <<answers, outcome>>
    /\ UNCHANGED <<adapter, opts, aborted>>

\* A hook writes the head of the response, or ends it.
HookWrites ==
    /\ hook
    /\ \/ head = "nobody" /\ head' = "hook" /\ UNCHANGED ended
       \/ head = "hook" /\ ~ended /\ ended' = TRUE /\ UNCHANGED head
    /\ UNCHANGED <<adapter, opts, pc, aborted, admission, answers, outcome,
                   formatted, hook>>

\* A hook that is no longer waited for comes to its end.
AbandonedHookSettles ==
    /\ hook /\ pc = "done"
    /\ hook' = FALSE
    /\ UNCHANGED exchange

\* beforeRequest settles: it threw, or asked for a method there is not, or
\* answered the request, or let it through.
BeforeRequestSettles ==
    /\ pc = "before" /\ ~aborted
    /\ hook' = FALSE
    /\ \/ Catch(admission)
       \/ LeaveToHook(admission)
       \/ /\ ~OwnedByHook /\ Goes("handling")
          /\ LeaveResponse /\ UNCHANGED <<admission, answers, outcome>>
    /\ UNCHANGED <<adapter, opts, aborted>>

\* Mutant: the mark of the exception is looked for on what the hook returned,
\* which does not carry it.
MarkedOnReturned(before, returned) == ~returned /\ before.exception
\* The mark of the exception is read before beforeResponse runs.
Marked(before, returned) == before.exception

\* The end of the handler, with the response as it leaves the hook.
Deliver(before, after, returned) ==
    \/ LeaveToHook(admission)
    \/ /\ ~OwnedByHook
       /\ Finally(admission)
       /\ outcome' = after
       /\ \/ /\ "errorFormatter" \in opts
             /\ Marked(before, returned) /\ after.status500
             /\ SendFormatted
          \/ /\ \/ "errorFormatter" \notin opts
                \/ ~Marked(before, returned) \/ ~after.status500
             /\ Send
    \/ ~OwnedByHook /\ Catch(admission)            \* not a valid response

\* handle() settles.
ExpressHandleSettles ==
    /\ adapter = "express" /\ pc = "handling" /\ ~aborted
    /\ \/ Catch(admission) /\ UNCHANGED hook
       \/ /\ Finally(admission) /\ Answer("next")  \* no route
          /\ LeaveResponse /\ UNCHANGED <<outcome, hook>>
       \/ \E o \in Outcomes :
             \/ /\ "beforeResponse" \in opts
                /\ Goes("after") /\ hook' = TRUE
                /\ outcome' = o
                /\ LeaveResponse /\ UNCHANGED <<admission, answers>>
             \/ /\ "beforeResponse" \notin opts
                /\ Deliver(o, o, FALSE)
                /\ UNCHANGED hook
    /\ UNCHANGED <<adapter, opts, aborted>>

\* beforeResponse settles: it threw, or returned nothing, or a response with
\* whatever status.
BeforeResponseSettles ==
    /\ pc = "after" /\ ~aborted
    /\ hook' = FALSE
    /\ \/ Catch(admission)
       \/ Deliver(outcome, outcome, FALSE)
       \/ \E status500 \in BOOLEAN :
             Deliver(outcome, [outcome EXCEPT !.status500 = status500], TRUE)
    /\ UNCHANGED <<adapter, opts, aborted>>

Waiting == {"before", "handling", "after"}

\* The client leaves while the adapter waits.
ExpressClientLeaves ==
    /\ adapter = "express" /\ pc \in Waiting /\ ~aborted
    /\ aborted' = TRUE
    /\ UNCHANGED <<adapter, opts, pc, admission, answers, head, ended, outcome,
                   formatted, hook>>

\* Mutant: an abort is an error like any other.
CatchAbortAsError == Catch(admission)
\* The catch of an abort: nobody is there to be answered.
CatchAbort ==
    /\ Finally(admission)
    /\ LeaveResponse
    /\ UNCHANGED <<answers, outcome>>

\* What the adapter waits for is awaited with the signal.
AwaitsWithAbort == pc \in Waiting

ExpressAbortRejects ==
    /\ adapter = "express" /\ aborted /\ AwaitsWithAbort
    /\ CatchAbort
    /\ UNCHANGED <<adapter, opts, aborted, hook>>

ExpressNext ==
    \/ ExpressStart \/ HookWrites \/ AbandonedHookSettles
    \/ BeforeRequestSettles \/ ExpressHandleSettles \/ BeforeResponseSettles
    \/ ExpressClientLeaves \/ ExpressAbortRejects
=============================================================================
