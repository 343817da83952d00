---------------------------- MODULE RequestPath ----------------------------
(***************************************************************************)
(* One request for an operation of an OpenAPI document, through the        *)
(* plugins it meets: the guards and the processing of the OpenAPI plugin   *)
(* (packages/openapi/src/plugin.ts, request-pipeline.ts, callbacks.ts),    *)
(* the query and validation plugins and one of the user's, in any order of *)
(* the pipe, up to the response that core delivers                         *)
(* (packages/core/src/builder.ts, plugin-pipeline.ts).                     *)
(*                                                                         *)
(* The failures of hooks and their recovery are in PluginPipeline, the     *)
(* collections that the staged writes go to in CrudCommit: which requests  *)
(* commit, which CrudCommit leaves open, is decided here.                  *)
(***************************************************************************)
EXTENDS Integers, ResponseShapes

CONSTANTS
    Scenarios,    \* the requests that are made: see Init
    UserValues,   \* what the user's plugin may answer
    DefaultLimit, MaxLimit

\* assertPositiveInteger(): other limits are refused when the plugin is made.
IsLimit(limit) == limit \in Nat \ {0}
ASSUME LimitsAssumption == IsLimit(DefaultLimit) /\ IsLimit(MaxLimit)

\* sortRank(): numbers, non-finite numbers, strings, booleans, bigints and null
\* are ordered; objects and rows without the field come last, in this order.
Ordered == 0 .. 5
Unsupported == 6
Missing == 7

Row(rank, value, passes) == [rank |-> rank, value |-> value, passes |-> passes]
IsRows(rows) ==
    /\ rows \in Seq(ToSet(rows))
    /\ \A i \in DOMAIN rows :
          rows[i] \in [rank : Ordered \cup {Unsupported, Missing}, value : Int, passes : BOOLEAN]

\* The rows of an operation are those of its collection, a list or not.
\* An openapi plugin of another document passes by what is not its own, so that
\* one counts; what a plugin of the user's answers was not made by openapi.
ASSUME ScenariosAssumption ==
    \A s \in Scenarios :
        /\ \A accept \in s.accepts : IsAccept(accept)
        /\ s.queries \subseteq [page : Nat, limit : Nat, desc : BOOLEAN]
        /\ \A o \in s.ops :
              /\ {"kind", "responses", "rows"} \subseteq DOMAIN o
              /\ IsResponses(o.responses) /\ IsRows(o.rows)
        /\ \A p \in s.pipes :
              /\ p \in Seq({"openapi", "query", "validation", "user"})
              /\ \A i, j \in DOMAIN p : p[i] = "openapi" /\ p[j] = "openapi" => i = j
ASSUME UserValuesAssumption ==
    \A v \in UserValues : IsValue(v) /\ v.body.kind \notin {"made", "not acceptable"}

VARIABLES
    op,           \* the operation: kind, responses, callbacks, rows, security and
                  \* the media types of its request body
    req,          \* accept, prefer, query, head, credentials, body
    pipe,         \* the plugins, in order
    judges,       \* validateResponses
    pc, at,       \* the stage, and the plugin whose turn it is
    response,     \* the value on its way
    refused,      \* requestShortCircuited, or REQUEST_REJECTED_STATE
    rejection,    \* the rejection validation remembers, in a set
    staged,       \* a write is in PENDING_MUTATIONS
    wrote,        \* the generator staged one
    committed,
    made,         \* the declaration a body was generated for: {} if none was
    answered,     \* what openapi answered: {} before
    judged,       \* the responses that passed a response validation
    dispatched,   \* the body callbacks were given: {} if there was no dispatch
    delivered     \* the response of core: {} before

input == <<op, req, pipe, judges>>
writes == <<staged, wrote, committed>>
record == <<made, answered, judged, dispatched>>
vars == <<input, pc, at, response, refused, rejection, writes, record, delivered>>

Untouched ==
    /\ pc = "guard" /\ at = 1
    /\ response = Plain(Undefined)
    /\ refused = FALSE /\ rejection = {}
    /\ staged = FALSE /\ wrote = FALSE /\ committed = FALSE
    /\ made = {} /\ answered = {} /\ judged = {} /\ dispatched = {}
    /\ delivered = {}

Init ==
    /\ \E s \in Scenarios :
          /\ op \in s.ops /\ pipe \in s.pipes /\ judges \in s.judges
          /\ req \in [accept : s.accepts, prefer : s.prefers, query : s.queries,
                      head : s.heads, credentials : s.credentials, body : s.bodies]
    /\ Untouched

Turn(stage, plugin) == pc = stage /\ at <= Len(pipe) /\ pipe[at] = plugin

-----------------------------------------------------------------------------
(* The query plugin (packages/query/src/index.ts): filtering, sorting and  *)
(* pages of a list.  A row is a record: what sorts it (the rank of its     *)
(* type and the value) and whether it passes the filter of the request.    *)

\* Mutant: the whole comparison is turned around.
BeforeReversed(a, b, desc) ==
    LET x == IF desc THEN b ELSE a
        y == IF desc THEN a ELSE b
    IN  x.rank < y.rank \/ (x.rank = y.rank /\ x.value < y.value)

\* compareSortKeys() < 0
Before(a, b, desc) ==
    LET x == IF desc THEN b ELSE a
        y == IF desc THEN a ELSE b
    IN  \/ {a.rank, b.rank} \cap {Unsupported, Missing} # {} /\ a.rank < b.rank
        \/ /\ {a.rank, b.rank} \subseteq Ordered
           /\ x.rank < y.rank \/ (x.rank = y.rank /\ x.value < y.value)

\* Array.prototype.sort() is stable.
Sort(rows, desc) ==
    LET Place(i) == Cardinality({j \in DOMAIN rows :
                        \/ Before(rows[j], rows[i], desc)
                        \/ j <= i /\ ~Before(rows[i], rows[j], desc)})
    IN  [k \in DOMAIN rows |-> rows[CHOOSE i \in DOMAIN rows : Place(i) = k]]

Filter(rows) ==
    FlattenSeq([i \in DOMAIN rows |-> IF rows[i].passes THEN <<rows[i]>> ELSE <<>>])

\* parseCount(): 0 stands for all that is not an exact positive integer.
Count(raw, fallback) == IF raw >= 1 THEN raw ELSE fallback

Limit(query, default, max) == Min({max, Count(query.limit, default)})

\* applyPagination(): the rows of one page, of the number of pages there are.
Slice(rows, page, limit) ==
    SubSeq(rows, (page - 1) * limit + 1, Min({page * limit, Len(rows)}))
TotalPages(rows, limit) == (Len(rows) + limit - 1) \div limit

\* process() of the plugin with all three configured.
Page(rows, query, default, max) ==
    Slice(Sort(Filter(rows), query.desc), Count(query.page, 1),
          Limit(query, default, max))

-----------------------------------------------------------------------------
(* Negotiation for the response of a status. *)

Negotiated(available) == Negotiate(req.accept, available)

Content(entry) == op.responses[entry].content

\* An Accept that excludes something.
Selective == req.accept.present /\ req.accept.ranges # <<AcceptRange(Media("*", "*", {}), 10)>>

IsUnacceptable(available) ==
    Selective /\ available # <<>> /\ Negotiated(available).declared = 0

\* 0 stands for the example of an entry without content.
HasExample(entry) ==
    IF Content(entry) = <<>> THEN 0 \in op.responses[entry].examples
    ELSE Negotiated(Content(entry)).declared \in op.responses[entry].examples \ {0}

\* The entries that have the example, in the order of the document.
Examples(keys) ==
    {i \in DOMAIN op.responses : op.responses[i].key \in keys /\ HasExample(i)}
FirstEntry(entries) == IF entries = {} THEN 0 ELSE Min(entries)

AllKeys == {op.responses[i].key : i \in DOMAIN op.responses}

-----------------------------------------------------------------------------
(* The generator of an operation. *)

Success == FindSuccessResponse(op.responses)
Representative == FindRepresentativeResponse(op.responses)

StatusOr(default) == IF Success = NoAnswer THEN default ELSE Success.status

\* The type that the headers of an entry fix, whatever the client accepts.
HeaderOf(entry) == IF entry = 0 THEN NoMedia ELSE op.responses[entry].header

\* buildResponse(): 0 is no status.
BuildResponse(status, body, label) ==
    IF status = 0 /\ label = NoMedia THEN Plain(body)
    ELSE TypedTuple(IF status = 0 THEN 200 ELSE status,
                    IF status = 204 THEN Undefined ELSE body, label)

\* Mutant: of the type the client would like best, whatever the headers fix.
MadeBodyNegotiated(entry, label) ==
    IF entry = 0 \/ Negotiated(Content(entry)).declared = 0 THEN Empty
    ELSE Made(Content(entry)[Negotiated(Content(entry)).declared])
\* Of the schema that belongs to the label, or to the type that would be sent
\* if there is none.
MadeBody(entry, label) ==
    LET Of(i) == IF i = 0 THEN Empty ELSE Made(Content(entry)[i])
    IN  IF entry = 0 THEN Empty
        ELSE Of(IF label # NoMedia THEN MatchDeclared(label, Content(entry))
                ELSE Negotiated(Content(entry)).declared)

\* What the generator answers, and whether it stages a write: with the headers
\* of the entry it is made for.
Generated ==
    LET item == Body("item", <<>>)
        Given(v, stages) == [value |-> v, stages |-> stages]
        missing == Given(Tuple(404, Error), FALSE)
        Static(answer) ==
            BuildResponse(IF answer = NoAnswer THEN 200 ELSE answer.status,
                          MadeBody(answer.entry, HeaderOf(answer.entry)),
                          HeaderOf(answer.entry))
        Stored(status, body) == BuildResponse(StatusOr(status), body, HeaderOf(Success.entry)) IN
    CASE op.kind = "static" -> {Given(Static(Representative), FALSE)}
      [] op.kind = "list" -> {Given(Stored(0, List(op.rows)), FALSE)}
      [] op.kind = "create" -> {Given(Stored(201, item), TRUE)}
      [] op.kind = "read" -> {missing, Given(Stored(0, item), FALSE)}
      [] op.kind = "update" -> {missing, Given(Stored(0, item), TRUE)}
      [] op.kind = "delete" -> {missing, Given(Stored(204, item), TRUE)}
      [] OTHER -> {}

\* Mutant: a static route that declares no success is taken for a 200.
PreflightOfSuccess ==
    IF op.kind \in {"static", "create"} THEN StatusOr(200) ELSE 0
\* The status that is negotiated before route code runs; 0 if none is.
PreflightStatus ==
    CASE op.kind = "static" -> Representative.status
      [] op.kind = "create" -> StatusOr(0)
      [] OTHER              -> 0

\* The entry processContentNegotiation() looks at before route code runs.
PreflightEntry ==
    IF req.prefer.code # 0 THEN FindResponseEntry(op.responses, req.prefer.code)
    ELSE IF req.prefer.example THEN FirstEntry(Examples(AllKeys))
    ELSE FindResponseEntry(op.responses, PreflightStatus)

ContentOf(entry) == IF entry = 0 THEN <<>> ELSE Content(entry)

\* The content that is refused, in a set.
PreflightRefused ==
    {content \in {ContentOf(PreflightEntry)} :
        PreflightStatus # 0 /\ IsUnacceptable(content)}

-----------------------------------------------------------------------------
(* Guards. *)

Reject(v) ==
    /\ refused' = TRUE /\ response' = v
    /\ pc' = "process" /\ at' = 1
    /\ UNCHANGED <<input, writes, record, delivered>>

PassGuard ==
    /\ at' = at + 1
    /\ UNCHANGED <<input, pc, response, refused, rejection, writes, record, delivered>>

\* One of the alternatives of the operation has all its schemes present.
IsAuthorized ==
    op.security = {} \/ \E group \in op.security : group \subseteq req.credentials

\* An exact key, type/* or */*.
IsSupported(media) ==
    \E key \in op.consumes :
        \/ key = media
        \/ key.subtype = "*" /\ key.type \in {"*", media.type}

\* The status that refuses the request body; 0 if it passes.
BodyRefusal ==
    IF ~req.body.given THEN IF op.bodyRequired THEN 400 ELSE 0
    ELSE IF op.consumes # {} /\ req.body.ctype # NoMedia /\ ~IsSupported(req.body.ctype)
    THEN 415
    ELSE IF req.body.conforms THEN 0 ELSE 400

\* Security, negotiation and the request body, in this order: the refusal, in
\* a set.
Refusals(unacceptable) ==
    IF ~IsAuthorized THEN {Tuple(401, Error)}
    ELSE IF unacceptable # {} THEN {Tuple(406, NotAcceptable(c)) : c \in unacceptable}
    ELSE {Tuple(status, Error) : status \in {BodyRefusal} \ {0}}

\* beforeRequest() of openapi
OpenApiGuard ==
    LET Follow(refusals) ==
            \/ refusals = {} /\ PassGuard
            \/ \E v \in refusals : Reject(v) /\ UNCHANGED rejection
    IN  Turn("guard", "openapi") /\ Follow(Refusals(PreflightRefused))

\* beforeRequest() of validation remembers the response it rejects with.
ValidationGuard ==
    /\ Turn("guard", "validation")
    /\ LET isValid == req.body.given /\ req.body.conforms IN
       \/ /\ ~isValid
          /\ Reject(Object(400, Error))
          /\ rejection' = {Object(400, Error)}
       \/ isValid /\ PassGuard

\* query has no guard; that of the user's plugin may answer.
OtherGuard ==
    \/ Turn("guard", "query") /\ PassGuard
    \/ Turn("guard", "user") /\ PassGuard
    \/ /\ Turn("guard", "user")
       /\ \E v \in UserValues \ {Plain(Undefined)} : Reject(v)
       /\ UNCHANGED rejection

\* The generator of the operation answers, and may stage a write.
Generate ==
    /\ pc = "guard" /\ at > Len(pipe)
    /\ \E g \in Generated :
          /\ response' = g.value
          /\ staged' = g.stages /\ wrote' = g.stages
    /\ pc' = "process" /\ at' = 1
    /\ UNCHANGED <<input, refused, rejection, committed, record, delivered>>

-----------------------------------------------------------------------------
(* Processing. *)

\* A plugin that answers undefined leaves the response as it was.
Return(v) ==
    /\ response' = IF v = Plain(Undefined) THEN response ELSE v
    /\ at' = at + 1
    /\ UNCHANGED <<input, pc, refused, delivered>>

\* processPreferHeader(): a code that is declared, else an example of an exact
\* status, else a success made anew, none with headers, else the response as it
\* is.
Preferred(v) ==
    LET Answering(status, body) ==
            {Tuple(status, IF status = 204 /\ body = Empty THEN Undefined ELSE body)}
        Coded(entry) ==
            IF req.prefer.code = 0 \/ entry = 0 THEN {}
            ELSE Answering(req.prefer.code, MadeBody(entry, NoMedia))
        Exemplary(entry) ==
            IF ~req.prefer.example \/ entry = 0 THEN {}
            ELSE {Tuple(op.responses[entry].key, Body("example", <<>>))}
        Dynamic(answer) ==
            IF ~req.prefer.dynamic \/ answer = NoAnswer THEN {}
            ELSE Answering(answer.status, MadeBody(answer.entry, NoMedia))
        First(answer) == IF answer = NoAnswer THEN v ELSE answer
    IN  First(FirstOf(<<Coded(FindResponseEntry(op.responses, req.prefer.code)),
                        Exemplary(FirstEntry(Examples(100 .. 599))),
                        Dynamic(Success)>>))

\* What applyResponseContentType() checks the Accept against, of the entry for
\* the status.
Available(parts, entry) ==
    IF entry = 0 THEN <<>>
    ELSE IF parts.ctype # NoMedia THEN <<parts.ctype>> ELSE Content(entry)

\* Mutant: the first type that is declared.
TypedFirst(v, parts, available, offer) ==
    IF available = <<>> \/ parts.ctype # NoMedia THEN v
    ELSE TypedTuple(parts.status, parts.body, available[1])

\* The response with the type it is sent with, when its status declares content.
Typed(v, parts, available, offer) ==
    IF parts.ctype # NoMedia \/ offer = NoOffer THEN v
    ELSE [Value(IF parts.shape = "object" THEN "object" ELSE "tuple",
                parts.status, parts.body, offer.media, "good")
             EXCEPT !.headers = parts.headers]

\* applyResponseContentType(): the response, or the 406 in its place.
WithType(v) ==
    LET Decide(parts, available, offer) ==
            IF Selective /\ available # <<>> /\ offer = NoOffer
            THEN [refusal |-> TRUE, value |-> Tuple(406, NotAcceptable(available))]
            ELSE [refusal |-> FALSE, value |-> Typed(v, parts, available, offer)]
        Offered(parts, available) == Decide(parts, available, Negotiated(available))
        Of(parts) ==
            Offered(parts, Available(parts, FindResponseEntry(op.responses, parts.status)))
    IN  Of(Parts(v))

\* Mutant: the response the generator gave decides.
SettledOnIncoming(incoming, final) == incoming
\* What decides whether the staged writes are applied.
SettledOn(incoming, final) == final

\* settlePendingMutations()
Settle(incoming, final) ==
    /\ staged' = FALSE
    /\ committed' = (committed \/
                       (staged /\ Parts(SettledOn(incoming, final)).status < 400))
    /\ UNCHANGED wrote

\* What validateResponse() judges, in a set: nothing passes when the status or
\* the type of the response is not declared.
Judgements(v) ==
    LET At(parts, entry, i) ==
            IF entry = 0 \/ (i = 0 /\ Content(entry) # <<>>) THEN {}
            ELSE {[of |-> v, body |-> parts.body, status |-> parts.status,
                   ctype |-> parts.ctype,
                   declared |-> IF i = 0 THEN NoMedia ELSE Content(entry)[i]]}
        Matched(parts, entry) ==
            At(parts, entry, MatchDeclared(parts.ctype, ContentOf(entry)))
        Of(parts) == Matched(parts, FindResponseEntry(op.responses, parts.status))
    IN  Of(Parts(v))

OpenApiFails(incoming) ==
    /\ Settle(incoming, Tuple(500, Error)) /\ Return(Tuple(500, Error))
    /\ answered' = {Tuple(500, Error)}
    /\ UNCHANGED <<rejection, made, judged, dispatched>>

\* The answer of openapi: writes are settled, then callbacks are told.
OpenApiAnswers(incoming, v, verdict) ==
    /\ Settle(incoming, v) /\ Return(v)
    /\ answered' = {v}
    /\ judged' = judged \cup verdict
    /\ \/ op.callbacks /\ dispatched' = {CallbackBody(v)}
       \/ ~op.callbacks /\ UNCHANGED dispatched
    /\ made' = IF Parts(v).body.kind = "made" THEN {Parts(v).body.data[1]} ELSE {}
    /\ UNCHANGED rejection

\* process() of openapi for a request that was not refused.
OpenApiProcess ==
    LET Answer406(v) ==
            /\ Settle(response, v) /\ Return(v)
            /\ answered' = {v}
            /\ UNCHANGED <<rejection, made, judged, dispatched>>
        Conclude(typed) ==
            \/ typed.refusal /\ Answer406(typed.value)
            \/ ~typed.refusal /\ ~judges /\ OpenApiAnswers(response, typed.value, {})
            \/ ~typed.refusal /\ judges /\ OpenApiFails(response)
            \/ /\ ~typed.refusal /\ judges
               /\ \E judgement \in Judgements(typed.value) :
                     OpenApiAnswers(response, typed.value, {judgement})
    IN  Turn("process", "openapi") /\ ~refused /\ Conclude(WithType(Preferred(response)))

\* ... and for one that was: it passes.
OpenApiPasses ==
    /\ Turn("process", "openapi") /\ refused
    /\ Settle(response, response) /\ Return(response)
    /\ UNCHANGED <<rejection, record>>

QueryProcess ==
    /\ Turn("process", "query")
    /\ LET body == PluginBody(response) IN
       \/ body.kind # "list" /\ Return(response)
       \/ /\ body.kind = "list"
          /\ Return(ReplaceBody(response,
                Body("page", Page(body.data, req.query, DefaultLimit, MaxLimit))))
    /\ UNCHANGED <<rejection, writes, record>>

\* Its own rejection passes once; all else is judged by its body.
ValidationProcess ==
    /\ Turn("process", "validation")
    /\ \/ /\ response \in rejection
          /\ Return(response) /\ rejection' = {}
          /\ UNCHANGED judged
       \/ /\ response \notin rejection
          /\ UNCHANGED rejection
          /\ \/ Return(Object(500, Error)) /\ UNCHANGED judged
             \/ /\ Return(response)
                /\ judged' = judged \cup
                      {[of |-> response, body |-> PluginBody(response),
                        status |-> 0, ctype |-> NoMedia, declared |-> NoMedia]}
    /\ UNCHANGED <<writes, made, answered, dispatched>>

UserProcess ==
    /\ Turn("process", "user")
    /\ \E v \in UserValues : Return(v)
    /\ UNCHANGED <<rejection, writes, record>>

\* The user's plugin, or a generation from a schema, throws.
Throws ==
    /\ \/ Turn("guard", "user") \/ Turn("process", "user")
       \/ pc = "guard" /\ at > Len(pipe) /\ op.kind = "static"
       \/ Turn("process", "openapi") /\ ~refused /\ Preferred(response) # response
    /\ pc' = "done" /\ delivered' = {Exception(req.head)}
    /\ UNCHANGED <<input, at, response, refused, rejection, writes, record>>

\* parseResponse() and normalizeResponse().
Deliver ==
    /\ pc = "process" /\ at > Len(pipe)
    /\ LET r == Parse(response) IN
       delivered' = {IF IsInvalid(r) THEN Exception(req.head)
                                     ELSE Normalized(r, req.head)}
    /\ pc' = "done"
    /\ UNCHANGED <<input, at, response, refused, rejection, writes, record>>

Next ==
    \/ OpenApiGuard \/ ValidationGuard \/ OtherGuard \/ Generate
    \/ OpenApiProcess \/ OpenApiPasses \/ QueryProcess \/ ValidationProcess
    \/ UserProcess \/ Throws \/ Deliver

Spec == Init /\ [][Next]_vars

-----------------------------------------------------------------------------
(* Properties. *)

\* A staged write is applied exactly when the response that core delivers is a
\* success, whatever Prefer, negotiation, validation and other plugins made of
\* the generator's answer: openapi decides on its own reading of the value,
\* before core has read it (docs/openapi.md 243-258).  Plugins after openapi
\* see the write applied already, and a value that core cannot deliver is known
\* only later.
CommitIsDelivered ==
    /\ committed => wrote /\ answered # {}
    /\ \A d \in delivered :
          answered = {response} /\ ~d.exception =>
             (committed <=> wrote /\ d.status < 400)

\* What a body was generated for, what a response validation judged and what
\* callbacks are told is what core delivers, down to the type it is sent with:
\* "plugins that inspect responses must use this same rule [...] or they will
\* judge an undelivered payload" (response-parser.ts 41-44), "so the response
\* body and Content-Type cannot silently diverge" (docs/openapi.md 407-408).
\* The callbacks have no such rule for headers that are not strings: they are
\* told the body of an envelope that core delivers as a whole.
JudgedIsDelivered ==
    \A d \in delivered : ~d.exception =>
        LET Same(body) == \/ d.body = body
                          \/ IsAbsent(body) /\ IsAbsent(d.body)
                          \/ req.head \/ d.status \in BodyForbidden IN
        /\ \A j \in judged : j.of = response =>
              /\ Same(j.body)
              /\ j.status \in {0, d.status}
              /\ j.ctype \in {NoMedia, d.ctype}
              /\ answered = {response} /\ j.status # 0 => made \subseteq {j.declared}
        /\ answered = {response} =>
              /\ response.headers = "good" => \A body \in dispatched : Same(body)
              /\ \A media \in made : Covers(media, d.ctype)

\* What is committed, judged, announced and delivered is one response.
OneResponse == CommitIsDelivered /\ JudgedIsDelivered

\* The types that headers of the document fix for what the generator answers:
\* Prefer answers with none.
Fixed == {Preferred(g.value).ctype : g \in Generated} \ {NoMedia}

\* The type that is sent is one the client accepts, and no type that is
\* declared suits it better, unless the document fixes it with a header; it is
\* refused with 406 only when none suits it.  A request that is refused before
\* its generator runs would have been refused afterwards, and what a static
\* route answers of its own is never refused afterwards only: both look at one
\* entry (crud-registration.ts 117-119).  Not so a type that a header fixes: it
\* is not looked at before, and all that is looked at afterwards
\* (request-pipeline.ts 533-555), so that a static route is refused afterwards
\* only for that one, and may be refused before although that one suits.  Nor a
\* code that is no status: "default" is looked at before, and a value with that
\* code is no envelope after.
AcceptableOrRefused ==
    LET Suits(m) == Quality(m, req.accept)
        IsStatus(code) == code \in {0} \cup (100 .. 599)
        RefusedEarly ==
            at = 1 /\ refused /\ rejection = {} /\ response.body.kind = "not acceptable"
        Best(list) == Max({0} \cup {Suits(m) : m \in {n \in ToSet(list) : IsConcrete(n)}})
        Sent(d, v, declared) ==
            declared # <<>> =>
                /\ Suits(d.ctype) > 0
                /\ "user" \notin ToSet(pipe) =>
                      Best(declared) <= Suits(d.ctype) \/ d.ctype \in Fixed IN
    /\ IsStatus(req.prefer.code) /\ RefusedEarly =>
          \A g \in Generated :
              Preferred(g.value).ctype \in Fixed \/ WithType(Preferred(g.value)).refusal
    /\ \A v \in answered :
          ~refused /\ op.kind = "static" /\ pipe = <<"openapi">>
          /\ req.prefer.code = 0 /\ ~req.prefer.example /\ v.body.kind = "not acceptable" =>
             v.body.data \in {<<media>> : media \in Fixed}
    /\ \A d \in delivered, v \in answered :
          ~d.exception /\ v = response /\ v # Tuple(500, Error) /\ Selective =>
             IF v.body.kind = "not acceptable" THEN Best(v.body.data) = 0
             ELSE Sent(d, v, ContentOf(FindResponseEntry(op.responses, d.status)))

\* A client that walks the pages of a list meets each row that passes the
\* filter once and in one order, whatever limit it asks for; rows without the
\* field come last in either direction (docs/api.md 686-689).  A list that a
\* plugin of the user's puts in their place is not this one.
PagesCoverTheList ==
    LET PageAt(n) == Page(op.rows, [req.query EXCEPT !.page = n], DefaultLimit, MaxLimit)
        Covered(rows, pages, all) ==
            /\ pages[Len(pages)] = <<>>
            /\ \A n \in 1 .. Len(pages) - 1 : Len(pages[n]) \in 1 .. MaxLimit
            /\ Len(all) = Len(rows) /\ ToSet(all) = ToSet(rows)
            /\ \A i, j \in DOMAIN all : i < j =>
                  /\ ~Before(all[j], all[i], req.query.desc)
                  /\ all[j].rank \in Ordered => all[i].rank \in Ordered
        Walked(rows, pages) == Covered(rows, pages, FlattenSeq(pages))
        Walk(rows) ==
            Walked(rows, [n \in 1 .. TotalPages(rows, Limit(req.query, DefaultLimit, MaxLimit)) + 1
                             |-> PageAt(n)])
    IN  \A d \in delivered :
            op.kind = "list" /\ d.body.kind = "page" /\ "user" \notin ToSet(pipe) =>
            d.body.data = PageAt(Count(req.query.page, 1)) /\ Walk(Filter(op.rows))

=============================================================================
