------------------------------ MODULE Exchange ------------------------------
(***************************************************************************)
(* What the HTTP adapters have in common: one request that an adapter      *)
(* hands to a mock and answers, the abort signal it wires to the client,   *)
(* the admission it takes, and the response, which hooks of the user can   *)
(* reach as well.  ServerTransport, ExpressAdapter and AngularAdapter      *)
(* each add their handler; HttpAdapters puts them together.                *)
(*                                                                         *)
(* Exchanges do not influence each other except through the mock, which    *)
(* MockLifecycle models, so there is one of them.                          *)
(***************************************************************************)
EXTENDS Naturals, Sequences

VARIABLES
    adapter,       \* which adapter serves the exchange
    opts,          \* the options it was configured with, those that are TRUE
    pc,            \* where its handler is: "idle", ..., "done"
    aborted,       \* the abort signal of the request fired
    admission,     \* "none", "held" or "released"
    answers,       \* what the adapter made of the request, oldest first
    head,          \* who wrote the head of the response, or "nobody"
    ended,         \* res.writableEnded
    outcome,       \* what the response is: an exception, and still a 500
    formatted      \* how often errorFormatter was called

exchange == <<adapter, opts, pc, aborted, admission, answers, head, ended,
              outcome, formatted>>

InitExchange(name, options) ==
    /\ adapter = name
    /\ opts = options
    /\ pc = "idle"
    /\ aborted = FALSE
    /\ admission = "none"
    /\ answers = <<>>
    /\ head = "nobody"
    /\ ended = FALSE
    /\ outcome = [exception |-> FALSE, status500 |-> FALSE]
    /\ formatted = 0

Goes(next) == pc' = next

\* The adapter disposed of the request in this way.
Answer(what) == answers' = Append(answers, what)

\* A failure that the adapter shapes itself.
Exception == [exception |-> TRUE, status500 |-> TRUE]

\* What handle() may come back with: core marks the 500s it made of exceptions.
Outcomes == {o \in [exception : BOOLEAN, status500 : BOOLEAN] :
                o.exception => o.status500}

\* The finally of the handler; an admission that was never taken stays so.
Released(held) == IF held = "held" THEN "released" ELSE held
=============================================================================
