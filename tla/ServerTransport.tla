--------------------------- MODULE ServerTransport --------------------------
(***************************************************************************)
(* A request on a Node.js server: the request listener of mock.listen()    *)
(* (packages/core/src/builder.ts), the one of the CLI server               *)
(* (packages/cli/src/cli.ts), and what both use of                         *)
(* packages/core/src/http-helpers.ts: collecting the body under a limit,   *)
(* and the lingering end of a 413 while the client is still sending.       *)
(*                                                                         *)
(* A chunk is one unit of the limit.  Time is counted in units that divide *)
(* the two timers of the lingering end; a timer that is due fires before   *)
(* time goes on.                                                           *)
(***************************************************************************)
EXTENDS Exchange

CONSTANTS
    Limit,         \* maxBodySize, in chunks
    Idle,          \* REJECTED_REQUEST_IDLE_MS, in units of time
    Grace          \* REJECTED_REQUEST_DRAIN_GRACE_MS, in units of time

ASSUME LimitAssumption == Limit \in Nat
ASSUME TimersAssumption == Idle \in Nat \ {0} /\ Grace \in Nat /\ Idle < Grace

VARIABLES
    client,        \* "sending", "sent" or "gone"
    totalSize,     \* chunks received while the body is collected
    status,        \* of the response, 0 before
    cors,          \* its CORS headers: "none", or what they say is allowed
    request,       \* what kind of request it is
    adminServed,   \* an admin endpoint did its work
    idleTimer,     \* what is left of the two timers
    graceTimer,
    quiet,         \* time since the last chunk
    lingered       \* time since the rejection was written

timers == <<idleTimer, graceTimer, quiet, lingered>>
served == <<status, cors, request, adminServed>>
nodeSide == <<client, totalSize, served, timers>>

\* What the handlers look at before they read a body: whether there is a Host
\* and the target parses, the verb, the path, and headers: Origin and the two of
\* a preflight, the authorization and the header that may stand for it.  A
\* request whose url does not parse has no path, so it is not an admin request.
Requests ==
    {r \in [url : BOOLEAN, method : {"get", "post", "options", "unknown"},
            path : {"admin", "route"}, announced : BOOLEAN,
            origin : BOOLEAN, asksMethod : BOOLEAN, asksHeaders : {"none", "list", "junk"},
            bearer : {"none", "right", "wrong", "other scheme"},
            token : {"none", "right", "wrong"}] :
        /\ r.path = "admin" => r.asksHeaders = "none" /\ ~r.announced
        /\ r.path = "route" => r.bearer = "none" /\ r.token = "none"
        /\ r.asksMethod \/ r.asksHeaders # "none" => r.origin}

\* The request of an exchange that is served elsewhere.
AnyRequest == [url |-> TRUE, method |-> "get", path |-> "route", announced |-> FALSE,
               origin |-> FALSE, asksMethod |-> FALSE, asksHeaders |-> "none",
               bearer |-> "none", token |-> "none"]

\* The server of mock.listen(), or that of the CLI.
OnNode == adapter \in {"server", "cli"}

InitTransport ==
    /\ client = "sending" /\ totalSize = 0
    /\ status = 0 /\ cors = "none"
    /\ request \in Requests
    /\ adminServed = FALSE
    /\ idleTimer = 0 /\ graceTimer = 0 /\ quiet = 0 /\ lingered = 0

\* The admin surface of the CLI, when it is switched on.
IsAdmin == "admin" \in opts /\ request.url /\ request.path = "admin"

\* writeSchmockResponse, and the finally of the handler.
Respond(code, withCors) ==
    /\ head' = "adapter" /\ ended' = TRUE
    /\ status' = code /\ cors' = withCors
    /\ Answer("response")
    /\ Goes("done")
    /\ UNCHANGED timers

\* The error response could not be written: the socket is destroyed.
Destroy ==
    /\ Answer("destroyed")
    /\ Goes("done")
    /\ UNCHANGED <<head, ended, status, cors, timers>>

\* writeRejectedSchmockResponse up to the end of its turn: head and body are
\* written, the end is left to finish.
RespondRejected(withCors) ==
    /\ head' = "adapter" /\ UNCHANGED ended
    /\ status' = 413 /\ cors' = withCors
    /\ Answer("response")
    /\ Goes("lingering")
    /\ idleTimer' = Idle /\ graceTimer' = Grace
    /\ quiet' = 0 /\ lingered' = 0

\* Mutant: what the client asked for is echoed as it is.
RequestedAllowHeadersAll == IF request.asksHeaders # "none" THEN "asked" ELSE "default"
\* A list of field names is echoed; anything else falls back to the default.
RequestedAllowHeaders == IF request.asksHeaders = "list" THEN "asked" ELSE "default"

CorsHeaders == IF "cors" \in opts THEN RequestedAllowHeaders ELSE "none"

\* Mutant: the handler forgets that the request was for the admin surface.
ErrorCorsAlways == CorsHeaders
\* The error paths of the CLI keep CORS off the admin surface.
ErrorCors == IF IsAdmin THEN "none" ELSE CorsHeaders

\* The catch of the handler, and its finally: a 413 lingers, every other error
\* is written at once.
Reject(code, held) ==
    /\ admission' = Released(held)
    /\ \/ code = 413 /\ RespondRejected(ErrorCors)
       \/ code # 413 /\ Respond(code, ErrorCors)
       \/ Destroy

\* collectBody starts: an announced length over the limit is refused at once.
Collect ==
    \/ request.announced /\ Reject(413, "held")
    \/ /\ ~request.announced
       /\ Goes("collecting")
       /\ admission' = "held"
       /\ UNCHANGED <<answers, head, ended, status, cors, timers>>

\* The request listener of mock.listen(): the admission comes first, and a
\* url or a method that does not parse is an internal error.
AcceptServer ==
    /\ adapter = "server" /\ pc = "idle"
    /\ \/ (~request.url \/ request.method = "unknown")
          /\ Reject(500, "held")
       \/ request.url /\ request.method # "unknown" /\ Collect
    /\ UNCHANGED <<adapter, opts, aborted, outcome, formatted, client, totalSize,
                   request, adminServed>>

\* Mutant: a header may stand for a bearer token that is wrong.
PresentedEither == IF request.bearer = "right" THEN "right" ELSE request.token
\* The token presented: the bearer token, or without one the header.
Presented == IF request.bearer \in {"right", "wrong"} THEN request.bearer ELSE request.token

\* denyAdminRequest: a browser is refused whatever it presents.
Denied(code) ==
    \/ request.origin /\ code = 403
    \/ ~request.origin /\ Presented # "right" /\ code = 401

\* handleAdminRequest, or its refusal; it has no admission and no CORS.
Admin ==
    /\ \/ /\ \E code \in {401, 403} : Denied(code) /\ Respond(code, "none")
          /\ UNCHANGED adminServed
       \/ /\ \A code \in {401, 403} : ~Denied(code)
          /\ \/ Respond(404, "none") /\ UNCHANGED adminServed
             \/ /\ request.method = "get" /\ Respond(200, "none")
                /\ adminServed' \in BOOLEAN      \* or it cannot be serialized
             \/ /\ request.method = "post" /\ Respond(204, "none")
                /\ adminServed' = TRUE
    /\ UNCHANGED admission

\* The preflights the CLI answers by itself.
IsPreflight ==
    /\ "cors" \in opts /\ ~IsAdmin
    /\ request.method = "options" /\ request.origin /\ request.asksMethod

\* handleCliRequest up to the body.
AcceptCli ==
    /\ adapter = "cli" /\ pc = "idle"
    /\ \/ ~request.url /\ Reject(400, "none") /\ UNCHANGED adminServed
       \/ /\ request.url /\ request.method = "unknown"
          /\ Reject(405, "none") /\ UNCHANGED adminServed
       \/ /\ request.url /\ request.method # "unknown"
          /\ \/ IsPreflight /\ Respond(204, CorsHeaders)
                /\ UNCHANGED <<admission, adminServed>>
             \/ ~IsPreflight /\ IsAdmin /\ Admin
             \/ ~IsPreflight /\ ~IsAdmin /\ Collect /\ UNCHANGED adminServed
    /\ UNCHANGED <<adapter, opts, aborted, outcome, formatted, client, totalSize,
                   request>>

-----------------------------------------------------------------------------
(* The body. *)

Collecting == pc = "collecting" /\ client = "sending" /\ ~aborted

\* A chunk arrives; the one that crosses the limit settles the body.
Data ==
    /\ Collecting
    /\ totalSize' = totalSize + 1
    /\ \/ totalSize' > Limit /\ Reject(413, admission)
       \/ /\ totalSize' <= Limit
          /\ UNCHANGED <<pc, admission, answers, head, ended, status, cors,
                         timers>>
    /\ UNCHANGED <<adapter, opts, aborted, outcome, formatted, client, request,
                   adminServed>>

\* The body is complete: it is handed to the mock, or it is malformed JSON.
End ==
    /\ Collecting
    /\ client' = "sent"
    /\ \/ totalSize > 0 /\ Reject(400, admission)
       \/ /\ Goes("handling")
          /\ UNCHANGED <<admission, answers, head, ended, status, cors, timers>>
    /\ UNCHANGED <<adapter, opts, aborted, outcome, formatted, totalSize, request,
                   adminServed>>

\* handle() settles; the response is written, or what fails is an error.
HandleSettles ==
    /\ OnNode /\ pc = "handling" /\ ~aborted
    /\ \/ /\ admission' = Released(admission)
          /\ Respond(200, CorsHeaders)
       \/ Reject(500, admission)
    /\ UNCHANGED <<adapter, opts, aborted, outcome, formatted, client, totalSize,
                   request, adminServed>>

\* Mutant: the listeners are those of the request only, and not of its body.
RejectsOnAbortNever == FALSE
\* What an abort makes reject: the body, and handle().
RejectsOnAbort == pc \in {"collecting", "handling"}

\* The rejection is caught, and the error goes to a client that left.
AbortRejects ==
    /\ OnNode /\ aborted /\ RejectsOnAbort
    /\ Reject(500, admission)
    /\ UNCHANGED <<adapter, opts, aborted, outcome, formatted, client, totalSize,
                   request, adminServed>>

-----------------------------------------------------------------------------
(* The lingering end. *)

\* finish(), which runs once.
Finish ==
    /\ ended' = TRUE
    /\ Goes("done")
    /\ UNCHANGED <<adapter, opts, aborted, admission, answers, head, outcome,
                   formatted>>

\* Mutant: a chunk does not push the idle timer out.
IdleAfterDataOld == idleTimer
IdleAfterData == Idle

LingerData ==
    /\ pc = "lingering" /\ client = "sending"
    /\ idleTimer > 0 /\ graceTimer > 0
    /\ idleTimer' = IdleAfterData
    /\ quiet' = 0
    /\ UNCHANGED <<exchange, client, totalSize, served, graceTimer, lingered>>

\* Time passes while the response lingers.
Tick ==
    /\ pc = "lingering" /\ client = "sending"
    /\ idleTimer > 0 /\ graceTimer > 0
    /\ idleTimer' = idleTimer - 1 /\ graceTimer' = graceTimer - 1
    /\ quiet' = quiet + 1 /\ lingered' = lingered + 1
    /\ UNCHANGED <<exchange, client, totalSize, served>>

TimerFires ==
    /\ pc = "lingering"
    /\ idleTimer = 0 \/ graceTimer = 0
    /\ Finish
    /\ UNCHANGED nodeSide

\* The request ends while its rejection lingers.
LingerEnd ==
    /\ pc = "lingering" /\ client = "sending"
    /\ client' = "sent"
    /\ Finish
    /\ UNCHANGED <<totalSize, served, timers>>

-----------------------------------------------------------------------------

\* The client drops the connection.  While the handler runs its listeners
\* abort the request; a lingering response is finished.
ClientLeaves ==
    /\ OnNode
    /\ client # "gone" /\ pc \notin {"idle", "done"}
    /\ client' = "gone"
    /\ \/ /\ pc = "lingering" /\ Finish
       \/ /\ pc \in {"collecting", "handling"}
          /\ aborted' = TRUE
          /\ UNCHANGED <<adapter, opts, pc, admission, answers, head, ended,
                         outcome, formatted>>
    /\ UNCHANGED <<totalSize, served, timers>>

TransportNext ==
    \/ AcceptServer \/ AcceptCli
    \/ Data \/ End \/ HandleSettles \/ AbortRejects
    \/ LingerData \/ Tick \/ TimerFires \/ LingerEnd
    \/ ClientLeaves
=============================================================================
