--------------------------- MODULE ResponseShapes ---------------------------
(***************************************************************************)
(* What a response value means: to core, which delivers it                 *)
(* (packages/core/src/response-parser.ts and response-normalizer.ts), and  *)
(* to the plugins that look at it on its way (openapi, validation, query), *)
(* each of which has its own reading.  With the lookup of the response an  *)
(* operation declares for a status (openapi/src/response-status.ts).       *)
(*                                                                         *)
(* A value is plain data, an array that may be a tuple [status, body,      *)
(* headers], or an object that may be an envelope { status, body, headers  *)
(* }.  Of the headers the content type matters, and whether they are       *)
(* strings ("good") or not ("bad").                                        *)
(***************************************************************************)
EXTENDS MediaTypes

Body(kind, data) == [kind |-> kind, data |-> data]
Undefined == Body("undefined", <<>>)
Null == Body("null", <<>>)
Empty == Body("empty", <<>>)             \* {}
Error == Body("error", <<>>)
Bytes == Body("bytes", <<>>)
List(rows) == Body("list", rows)
Made(media) == Body("made", <<media>>)   \* generated for a declaration
NotAcceptable(available) == Body("not acceptable", available)

IsAbsent(body) == body.kind \in {"undefined", "null"}

Value(shape, status, body, ctype, headers) ==
    [shape |-> shape, status |-> status, body |-> body, ctype |-> ctype,
     headers |-> headers]
Plain(body) == Value("plain", 0, body, NoMedia, "good")
Tuple(status, body) == Value("tuple", status, body, NoMedia, "good")
TypedTuple(status, body, ctype) == Value("tuple", status, body, ctype, "good")
Object(status, body) == Value("object", status, body, NoMedia, "good")

\* A content type, if there is one, is no range.
IsLabel(media) == media = NoMedia \/ (IsMediaType(media) /\ IsConcrete(media))

\* The values there are.
IsValue(v) ==
    /\ v = Value(v.shape, v.status, v.body, v.ctype, v.headers)
    /\ v.shape \in {"plain", "tuple", "object"} /\ v.headers \in {"good", "bad"}
    /\ v.body = Body(v.body.kind, v.body.data)
    /\ IsLabel(v.ctype)
    /\ v.shape = "plain" => v = Plain(v.body)

\* A value that is no envelope is data as it stands.
Whole(v) == IF v.shape = "plain" THEN v.body ELSE Body("whole", <<>>)

IsStatusTuple(v) == v.shape = "tuple" /\ v.status \in 100 .. 599

-----------------------------------------------------------------------------
(* The plugins' reading. *)

\* Mutant: whatever its headers are.
IsStructuredAnyHeaders(v) == v.shape = "object"
IsStructured(v) == v.shape = "object" /\ v.headers = "good"

\* validation and query
PluginBody(v) == IF IsStatusTuple(v) \/ IsStructured(v) THEN v.body ELSE Whole(v)

\* openapi's callbacks
CallbackBody(v) == IF IsStatusTuple(v) \/ v.shape = "object" THEN v.body ELSE Whole(v)

ReplaceBody(v, body) ==
    IF IsStatusTuple(v) \/ IsStructured(v) THEN [v EXCEPT !.body = body]
    ELSE Plain(body)

\* openapi: the status, body and headers of a response, and its kind.
Parts(v) ==
    IF IsStatusTuple(v) \/ IsStructured(v) THEN v
    ELSE LET body == IF Whole(v) = Null THEN Undefined ELSE Whole(v)
         IN  Value("plain", IF IsAbsent(body) THEN 204 ELSE 200, body, NoMedia,
                   "good")

-----------------------------------------------------------------------------
(* Core's reading. *)

IsResponseObject(v) == v.shape = "object" /\ v.headers = "good"

\* parseResponse() for a route with a generator function, whose content type
\* is JSON unless it says otherwise (builder.ts 295-299).
Parse(v) ==
    LET enveloped == IsResponseObject(v) \/ IsStatusTuple(v)
        body == IF enveloped THEN v.body ELSE Whole(v)
        ctype == IF enveloped THEN v.ctype ELSE NoMedia
    IN  [status |-> IF enveloped THEN v.status
                    ELSE IF IsAbsent(body) THEN 204 ELSE 200,
         body |-> IF IsAbsent(body) THEN Undefined ELSE body,
         ctype |-> IF ctype # NoMedia THEN ctype
                   ELSE IF body = Bytes THEN OctetStream
                   ELSE IF enveloped THEN NoMedia ELSE Json,
         headers |-> IF enveloped THEN v.headers ELSE "good",
         exception |-> FALSE]

\* normalizeResponse() throws on it.
IsInvalid(r) == r.status \notin 200 .. 599 \/ r.headers = "bad"

BodyForbidden == {204, 205, 304}

Normalized(r, head) ==
    IF head \/ r.status \in BodyForbidden THEN [r EXCEPT !.body = Undefined]
    ELSE r

\* The 500 of an error that core catches.
Exception(head) ==
    Normalized([status |-> 500, body |-> Error, ctype |-> Json,
                headers |-> "good", exception |-> TRUE], head)

-----------------------------------------------------------------------------
(* Declared responses: a sequence of entries in the order of the document, *)
(* each with the status it is declared for, "NXX" being 1000 * N and       *)
(* "default" 0, its content, a sequence of media types, and the header:    *)
(* the value that its response headers give for a Content-Type, of an enum *)
(* or a default (generateHeaderValues()), NoMedia when they give none.     *)

\* The statuses are keys of an object: each is there once, and those that are
\* numbers come before ranges and "default".
IsResponses(responses) ==
    /\ responses \in Seq(ToSet(responses))
    /\ \A i \in DOMAIN responses :
          /\ responses[i].key \in {0} \cup (100 .. 599) \cup {1000 * n : n \in 1 .. 5}
          /\ IsMediaList(responses[i].content) /\ responses[i].examples \subseteq Nat
          /\ IsLabel(responses[i].header)
    /\ \A i, j \in DOMAIN responses : i < j =>
          /\ responses[i].key # responses[j].key
          /\ responses[j].key \in 100 .. 599 => responses[i].key \in 100 .. 599

EntryOf(responses, key) == {i \in DOMAIN responses : responses[i].key = key}
IsExact(key) == key \in 100 .. 599

\* 0 when the operation declares none.
FindResponseEntry(responses, status) ==
    LET exact == IF IsExact(status) THEN EntryOf(responses, status) ELSE {}
        range == EntryOf(responses, 1000 * (status \div 100))
        found == IF exact # {} THEN exact
                 ELSE IF range # {} THEN range ELSE EntryOf(responses, 0)
    IN  Min(found \cup IF found = {} THEN {0} ELSE {})

Answer(status, entry) == [status |-> status, entry |-> entry]
NoAnswer == Answer(0, 0)

\* The first set that is not empty decides.
FirstOf(sets) ==
    LET used == {k \in DOMAIN sets : sets[k] # {}}
    IN  IF used = {} THEN NoAnswer ELSE CHOOSE a \in sets[Min(used)] : TRUE

FindSuccessResponse(responses) ==
    LET At(key, status) == {Answer(status, i) : i \in EntryOf(responses, key)}
        other == {i \in DOMAIN responses : responses[i].key \in 202 .. 299}
    IN  FirstOf(<<At(200, 200), At(201, 201),
                  {Answer(responses[i].key, i) :
                      i \in {j \in other : \A k \in other : j <= k}},
                  At(2000, 200), At(0, 200)>>)

\* The lowest status when none is a success.
FindRepresentativeResponse(responses) ==
    LET success == FindSuccessResponse(responses)
        Effective(i) == IF IsExact(responses[i].key) THEN responses[i].key
                                                     ELSE responses[i].key \div 10
        lowest == {i \in DOMAIN responses : \A j \in DOMAIN responses :
                      \/ Effective(i) < Effective(j)
                      \/ Effective(i) = Effective(j) /\ i <= j}
    IN  IF success # NoAnswer THEN success
        ELSE FirstOf(<<{Answer(Effective(i), i) : i \in lowest}>>)

=============================================================================
