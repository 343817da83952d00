------------------------------- MODULE Egress -------------------------------
(***************************************************************************)
(* How a response of the mock becomes what the client sees:                *)
(* normalizeResponse() and serializeResponseBody()                         *)
(* (packages/core/src/response-normalizer.ts), what each transport does    *)
(* around them (interceptor.ts, http-helpers.ts, packages/express and      *)
(* packages/angular), and the responses that are built of an error         *)
(* formatter's result.                                                     *)
(*                                                                         *)
(* A response is [status, body, headers]: the body a kind, the headers a   *)
(* set of [name, caps, value], of which a value may be "invalid" to the    *)
(* wire and a name is spelled in two ways.                                 *)
(***************************************************************************)
EXTENDS Naturals, FiniteSets

Header(name, caps, value) == [name |-> name, caps |-> caps, value |-> value]
Reply(status, body, headers) == [status |-> status, body |-> body, headers |-> headers]

Forbidden == {204, 205, 304}
Framing == {"content-length", "trailer", "transfer-encoding"}
HopByHop == {"connection", "keep-alive", "proxy-authenticate", "proxy-authorization",
             "te", "upgrade"}

HasHeader(headers, name) == \E h \in headers : h.name = name
Without(headers, names) == {h \in headers : h.name \notin names}

-----------------------------------------------------------------------------
(* What all of them share. *)

\* A body that is not looked at need not be serializable.
IsBodiless(r, head) == head \/ r.status \in Forbidden

\* validateStatus(), normalizeHeaders(), normalizeBody()
IsRejected(r, head) ==
    \/ r.status \notin 200 .. 599
    \/ \E h, k \in r.headers : h # k /\ h.name = k.name
    \/ \E h \in r.headers : h.value = "invalid"
    \/ r.body = "unserializable" /\ ~IsBodiless(r, head)

\* Mutant: a response without a body keeps its framing.
FramingOfBodiless(r, head) ==
    IF head \/ r.status \in Forbidden THEN {} ELSE Framing
\* What is removed: a HEAD or a 304 may say how long the entity is.
FramingOf(r, head) ==
    IF r.status \notin {204, 205} /\ (head \/ r.status = 304)
    THEN Framing \ {"content-length"} ELSE Framing

\* normalizeResponse(), of a response that it does not reject.
Normal(r, head) ==
    Reply(r.status, IF IsBodiless(r, head) THEN "undefined" ELSE r.body,
          Without(r.headers, FramingOf(r, head) \cup HopByHop))

\* serializeResponseBody(): the bytes of a string are the string's.
Serialized(r) == IF r.status \in Forbidden \/ r.body = "undefined" THEN "nothing" ELSE r.body

\* The type that a body has by default, in a set of headers.
TypeOf(body) ==
    CASE body = "bytes" -> {Header("content-type", FALSE, "octets")}
      [] body \in {"json", "null"} -> {Header("content-type", FALSE, "json")}
      [] OTHER -> {}
WithType(r, body) ==
    IF HasHeader(r.headers, "content-type") THEN r
    ELSE [r EXCEPT !.headers = @ \cup TypeOf(body)]

\* What a client sees; a response that cannot be sent is an error.
Seen(channel, r, body) ==
    [channel |-> channel, status |-> r.status, body |-> body, headers |-> r.headers]

-----------------------------------------------------------------------------
(* The transports. *)

\* writeSchmockResponse(): the adapter's own headers replace those of a name.
NodeSends(r, extra) ==
    LET merged == [r EXCEPT !.headers = Without(@, {h.name : h \in extra}) \cup extra]
    IN  {Seen("response", WithType(merged, r.body), Serialized(r))}

\* toFetchResponse(), schmockToExpressResponse(), in a set: {} if they throw.
WebSends(r, head) ==
    LET typed == WithType(r, IF r.body = "null" THEN "undefined" ELSE r.body) IN
    {Seen("response", n, Serialized(n)) :
        n \in {Normal(t, head) : t \in {x \in {typed} : ~IsRejected(x, head)}}}

InternalError == Reply(500, "internal error", {Header("content-type", FALSE, "json")})

\* Mutant: the type of the response that is replaced stays.
JsonTypeBeside(headers) == headers \cup {Header("content-type", FALSE, "json")}
\* withJsonContentType()
WithJsonType(headers) ==
    Without(headers, {"content-type"}) \cup {Header("content-type", FALSE, "json")}

\* sendFormattedError(), formatInterceptedError(): what the formatter returned
\* under the headers of the response, or under its type alone, or neither.
SendsFormatted(result, headers, head) ==
    LET full == WebSends(Reply(500, result, WithJsonType(headers)), head)
        plain == WebSends(Reply(500, result, WithJsonType({})), head)
    IN  IF result = "throws" THEN WebSends(InternalError, head)
        ELSE IF full # {} THEN full
        ELSE IF plain # {} THEN plain ELSE WebSends(InternalError, head)

\* A response that cannot be sent is an error like any other; Express falls
\* back when its formatter fails, the interceptor does not.
SendsCaught(by, result, head) ==
    IF by = "express" THEN SendsFormatted(result, {}, head)
    ELSE UNION {WebSends(Reply(500, body, WithJsonType({})), head) :
                   body \in {result} \ {"throws"}}

-----------------------------------------------------------------------------
(* Angular, which delivers a value of the type that was asked for. *)

Shaped(type, content) == [type |-> type, content |-> content]

\* emptyResponseBody()
EmptyBody(status, type) ==
    IF status = 204 \/ type = "json" THEN Shaped("null", "nothing")
    ELSE Shaped(type, "nothing")

\* Mutant: a body that is null is serialized like any other.
ShapedBodyOfNull(body, status, type) ==
    IF type = "json" THEN Shaped("json", body)
    ELSE IF body = "undefined" THEN EmptyBody(status, type)
    ELSE Shaped(type, body)
\* applyResponseType()
ShapedBody(body, status, type) ==
    IF type = "json" THEN Shaped("json", body)
    ELSE IF body \in {"undefined", "null"} THEN EmptyBody(status, type)
    ELSE IF status \in Forbidden THEN EmptyBody(status, type)
    ELSE IF body = "unserializable" THEN Shaped("json", body)
    ELSE Shaped(type, body)

AngularSees(channel, r, body, type) ==
    {Seen(channel, r, ShapedBody(body, r.status, type))}

IsSuccess(status) == status \in 200 .. 299

\* emitError(): a result that cannot be a response is replaced.
AngularErrs(result, type, head) ==
    LET formatted == IF result = "throws" THEN InternalError
                     ELSE Reply(500, result, WithJsonType({}))
        sent == IF IsRejected(formatted, head) THEN InternalError
                ELSE Normal(formatted, head)
    IN  AngularSees("error", sent, sent.body, type)

\* The response of the mock: an exception has the formatter's result for a
\* body, and that is not normalized.
AngularSends(r, type, head, exception, result) ==
    LET n == Normal(r, head)
        body == IF exception /\ n.status = 500
                THEN IF result = "throws" THEN "internal error" ELSE result
                ELSE n.body
    IN  IF IsRejected(r, head) THEN AngularErrs(result, type, head)
        ELSE AngularSees(IF IsSuccess(n.status) THEN "response" ELSE "error",
                         n, body, type)
=============================================================================
