---------------------------- MODULE HttpAdapters ----------------------------
(***************************************************************************)
(* An exchange on any of the HTTP adapters, with what all of them owe the  *)
(* client and the mock.  The state of an adapter that does not serve the   *)
(* exchange stays as it was.  What an exchange carries does not decide     *)
(* which steps it takes, so either the steps are followed or, through      *)
(* Wire, what is carried.                                                  *)
(***************************************************************************)
EXTENDS ServerTransport, ExpressAdapter, AngularAdapter, Wire

steps == <<exchange, nodeSide, hook>>
vars == <<steps, wire>>

OptionsOf(name) ==
    CASE name = "server"  -> {{}}
      [] name = "cli"     -> SUBSET {"admin", "cors"}
      [] name = "express" -> ExpressOptions
      [] name = "angular" -> AngularOptions
      [] name = "none"    -> {{}}

Init ==
    /\ \E name \in {"server", "cli", "express", "angular", "none"} :
          \E options \in OptionsOf(name) : InitExchange(name, options)
    /\ InitTransport
    /\ ~OnNode => request = AnyRequest
    /\ adapter = "server" => ~request.origin /\ request.bearer = "none" /\ request.token = "none"
    /\ hook = FALSE
    /\ IF adapter = "none" THEN WireInit ELSE WireUnused

Next ==
    \/ TransportNext /\ UNCHANGED <<hook, wire>>
    \/ ExpressNext /\ UNCHANGED <<nodeSide, wire>>
    \/ AngularNext /\ UNCHANGED <<nodeSide, hook, wire>>
    \/ WireNext /\ UNCHANGED steps

Spec == Init /\ [][Next]_vars

\* What the event loop runs once it is due: the rejections of an abort and the
\* timers.  User code, the mock and the client owe nothing.
FairSpec ==
    /\ Spec
    /\ WF_vars(AbortRejects /\ UNCHANGED <<hook, wire>>)
    /\ WF_vars(ExpressAbortRejects /\ UNCHANGED <<nodeSide, wire>>)
    /\ WF_vars(SettlesUnsubscribed /\ UNCHANGED <<nodeSide, hook, wire>>)
    /\ WF_vars(Tick /\ UNCHANGED <<hook, wire>>)
    /\ WF_vars(TimerFires /\ UNCHANGED <<hook, wire>>)

-----------------------------------------------------------------------------

\* However hooks that write the response themselves, failures and the client
\* interleave, an exchange that ends is answered exactly once: the adapter
\* writes a response only when it wrote the head, a response that a hook began
\* is left to the hook or to the error chain of Express.
OneAnswer ==
    /\ Len(answers) <= 1
    /\ pc = "done" /\ ~aborted => Len(answers) = 1
    /\ adapter # "angular" =>
          \A i \in DOMAIN answers : answers[i] = "response" <=> head = "adapter"
    /\ head = "hook" => \A i \in DOMAIN answers :
                            answers[i] \in {"left", "next(error)"}

\* errorFormatter sees each failure once and nothing but failures, and no
\* exception of the mock reaches the client as a 500 that it was not shown:
\* hooks may change or copy the response, throw, or begin one of their own.
FormatterGetsFailures ==
    /\ formatted <= 1
    /\ formatted = 1 => outcome.exception /\ outcome.status500
    /\ /\ "errorFormatter" \in opts /\ pc = "done"
       /\ outcome.exception /\ outcome.status500
       /\ \E i \in DOMAIN answers : answers[i] \in {"response", "error"}
       => formatted = 1

\* The rejection of a body that is too large stays open for a client that is
\* still sending: it is ended only by silence or by the grace cap, and it is
\* open no longer than that.
LingerIsExact ==
    /\ lingered <= Grace /\ quiet <= Idle
    /\ status = 413 /\ ended /\ client = "sending" =>
          quiet = Idle \/ lingered = Grace

\* The admin surface of the CLI server never answers with CORS headers, not
\* when the request is refused, is a preflight, or has a verb that is not
\* supported; no request has an effect that comes from a browser or presents
\* anything but the token, and the wrong one is not made up for by the right
\* one elsewhere.  Elsewhere no header list of the client that is none is echoed.
AdminStaysPrivate ==
    /\ IsAdmin => cors = "none"
    /\ adminServed => /\ ~request.origin
                      /\ "right" \in {request.bearer, request.token}
                      /\ "wrong" # request.bearer
    /\ cors = "asked" => request.asksHeaders = "list"

\* Nothing more is said to a caller that left: neither Express nor Angular
\* answers, writes, or calls the formatter after the abort, whatever hooks and
\* handlers still do.
NothingAfterAbort ==
    [][aborted /\ ~OnNode => /\ UNCHANGED <<answers, formatted>>
                             /\ head' = "adapter" => head = "adapter"]_vars

\* Leaving releases: whatever hooks, handlers and slow senders do, an exchange
\* whose caller left, and one whose rejection lingers, comes to its end and
\* gives its admission back, and says nothing more until then.
LeavingReleases ==
    /\ NothingAfterAbort
    /\ (aborted \/ pc = "lingering") ~> (pc = "done" /\ admission # "held")
=============================================================================
