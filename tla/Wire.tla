-------------------------------- MODULE Wire --------------------------------
(***************************************************************************)
(* A message on its way through any of the transports: it is read          *)
(* (Ingress), core finds its route, the route replies, hooks may put       *)
(* another response in the place of that, and the reply is sent (Egress).  *)
(***************************************************************************)
EXTENDS Ingress, Egress

CONSTANT Talks       \* the messages and replies there are: see WireInit

\* An application names the headers of its adapter once each and leaves framing to
\* it, an error formatter has one result, and what is sent is spelled as its author
\* may spell it.
IsSite(s) ==
    /\ s.base = [origin |-> s.base.origin, path |-> s.base.path]
    /\ {s.base.path, s.namespace} \cup ToSet(s.keys) \subseteq Seq(Seq(Letters))
    /\ s.keys \in Seq(ToSet(s.keys))
    /\ \A h, k \in s.extra : h.name = k.name => h = k
    /\ \A h \in s.extra : h.value # "invalid" /\ h.name \notin Framing \cup HopByHop
    /\ s.result \subseteq {"json", "string", "throws", "unserializable"}
    /\ \A a, b \in s.result : a = b

IsMessage(m) ==
    /\ m.path \in Seq(Seq(Letters \cup {LonePercent})) \ {<<>>}
    /\ \A s \in {m.query, m.params, m.headers} : s \in Seq(ToSet(s))
    /\ m.ctype \in {"", "json", "text", "form", "multipart"}
    /\ m.payload \in {"none", "empty", "json", "malformed", "pairs", "words", "octets", "parts"}

ASSUME TalksAssumption ==
    \A talk \in Talks :
        /\ talk.transports \subseteq {"fetch", "server", "express", "angular"}
        /\ \A s \in talk.sites : IsSite(s)
        /\ \A m \in talk.messages : IsMessage(m)
        /\ \A r \in talk.replies : r = Reply(r.status, r.body, r.headers)

VARIABLES
    transport,       \* "fetch", "server", "express", "angular"; "none"
    site,            \* base, namespace, keys of the routes, extra headers and the
                     \* result of the error formatter, in a set
    message,         \* what the client sends
    replies,         \* what route and hooks may make of it
    wireAt,          \* "sent", "read", "found", "replied", "closed"
    seen,            \* what the mock is given, in a set
    found,           \* the route and its parameters, in a set
    reply,           \* the response that is sent: {} before
    got              \* what the client sees, in a set: {} if only an error

wire == <<transport, site, message, replies, wireAt, seen, found, reply, got>>

WireInit ==
    /\ \E talk \in Talks :
          /\ transport \in talk.transports /\ site \in talk.sites
          /\ message \in talk.messages /\ replies = talk.replies
    /\ wireAt = "sent"
    /\ seen = {} /\ found = {} /\ reply = {} /\ got = {}

\* There is no message.
WireUnused ==
    /\ transport = "none" /\ site = <<>> /\ message = <<>> /\ replies = {}
    /\ wireAt = "closed"
    /\ seen = {} /\ found = {} /\ reply = {} /\ got = {}

IsHead == message.method = "HEAD"

Readings ==
    CASE transport = "fetch"   -> FetchReads(message, site.base)
      [] transport = "server"  -> NodeReads(message)
      [] transport = "express" -> ExpressReads(message)
      [] transport = "angular" -> AngularReads(message, site.base)

\* A message that is an error, or not for the mock, goes no further.
Receive ==
    /\ wireAt = "sent"
    /\ seen' = Readings
    /\ wireAt' = IF \E r \in Readings : r.handled THEN "read" ELSE "closed"
    /\ UNCHANGED <<transport, site, message, replies, found, reply, got>>

Dispatch ==
    /\ wireAt = "read"
    /\ found' = UNION {LookUp(site.keys, site.namespace, r.path) : r \in seen}
    /\ wireAt' = IF found' = {} THEN "closed" ELSE "found"
    /\ UNCHANGED <<transport, site, message, replies, seen, reply, got>>

\* Core normalizes what the route replies; it has no null.  Only hooks can
\* put something in its place that it would reject.
WithoutNull(r) == IF r.body = "null" THEN [r EXCEPT !.body = "undefined"] ELSE r

RouteReplies ==
    /\ wireAt = "found" /\ wireAt' = "replied"
    /\ \E r \in replies :
          \/ /\ ~IsRejected(r, IsHead)
             /\ reply' = {Normal(WithoutNull(r), IsHead)}
          \/ transport # "server" /\ reply' = {r}
    /\ UNCHANGED <<transport, site, message, replies, seen, found, got>>

\* The reply is sent; that of an exception is the formatter's.
Sent(r) ==
    LET formatted == site.result # {} /\ r.status = 500
        Result == CHOOSE result \in site.result : TRUE IN
    CASE transport = "server"  -> NodeSends(r, site.extra)
      [] transport \in {"fetch", "express"} ->
            IF formatted THEN SendsFormatted(Result, r.headers, IsHead)
            ELSE IF site.result = {} \/ WebSends(r, IsHead) # {} THEN WebSends(r, IsHead)
            ELSE SendsCaught(transport, Result, IsHead)
      [] transport = "angular" ->
            AngularSends(r, message.responseType, IsHead, formatted,
                         IF site.result = {} THEN "internal error" ELSE Result)

Transmit ==
    /\ wireAt = "replied" /\ wireAt' = "closed"
    /\ \E r \in reply : got' = Sent(r)
    /\ UNCHANGED <<transport, site, message, replies, seen, found, reply>>

WireNext == Receive \/ Dispatch \/ RouteReplies \/ Transmit

-----------------------------------------------------------------------------
(* Properties. *)

\* The characters that a path is of, however they are spelled.
Denoted(path) == [i \in DOMAIN path |-> [j \in DOMAIN path[i] |-> path[i][j].char]]
IsPlain(path) ==
    \A i \in DOMAIN path : \A l \in ToSet(path[i]) : l.as = "raw" /\ l.char \notin Unsafe
WellFormed == \A i \in DOMAIN message.path : LonePercent \notin ToSet(message.path[i])

\* What the message means: whether it is below the base, the path that is left for
\* the mock and for its routes, and whether a route fits.
PathText == Denoted(message.path)
BaseText == Denoted(BasePath(site.base.path))
IsBelow ==
    transport \in {"fetch", "angular"} =>
        IsPrefix(BaseText, PathText) /\ site.base.origin \in {"any", message.origin}
MockText ==
    IF transport = "angular" THEN OrRoot(SubSeq(PathText, Len(BaseText) + 1, Len(PathText)))
    ELSE PathText
InnerText == Denoted(BasePath(site.namespace))
RestText == WithoutSlash(OrRoot(SubSeq(MockText, Len(InnerText) + 1, Len(MockText))))
KeyText(k) == WithoutSlash(Denoted(site.keys[k]))
Accepts(k) ==
    /\ IsPrefix(InnerText, MockText) /\ Len(KeyText(k)) = Len(RestText)
    /\ InnerText # Denoted(site.namespace) => Len(MockText) > Len(InnerText)
    /\ \A i \in DOMAIN KeyText(k) :
          \/ KeyText(k)[i] = RestText[i]
          \/ KeyText(k)[i] = <<":id">> /\ RestText[i] # <<>>
SentPairs == message.query \o message.params

IsMalformed ==
    /\ message.payload # "none" /\ message.ctype \in {"json", "multipart"}
    /\ <<message.ctype, message.payload>> \notin {<<"json", "json">>, <<"multipart", "parts">>}

ReadAsSent(r) ==
    /\ r.handled <=> IsBelow
    /\ r.handled =>
          /\ DOMAIN r.query = Keys(SentPairs)
          /\ \A key \in Keys(SentPairs) :
                \E i \in At(SentPairs, key) : r.query[key] = SentPairs[i][2]
          /\ \A h \in ToSet(message.headers) :
                h.name \in DOMAIN r.headers /\ h.value \in ToSet(r.headers[h.name])
          /\ message.payload = "none" => r.body \in {"undefined", "null"}
          /\ message.payload = "json" /\ message.ctype = "json" => r.body = "parsed"
          /\ message.payload = "words" /\ message.ctype \in {"", "text"} => r.body = "text"

RouteIsMeant(f) ==
    /\ Accepts(f.route)
    /\ f.params =
          {<<i, [j \in DOMAIN RestText[i] |-> Letter(RestText[i][j], "raw")]>> :
              i \in {n \in DOMAIN RestText : RouteKeyPath(site.keys[f.route])[n] = Param}}
    /\ (\E k \in DOMAIN site.keys : Accepts(k) /\ IsStatic(site.keys[k])) =>
          IsStatic(site.keys[f.route])

\* A request means the same to the mock whichever transport carries it and
\* however its path is spelled: it is handled if and only if it is below the
\* base, whole segments compared; its route and the values of its parameters are
\* those of the characters of the path, of which an encoded slash is one; each
\* query key, header and body reads as it was sent.  "route paths and request
\* paths must be encoded the same way before they can be compared"
\* (constants.ts 108-111), "handlers can always read headers.authorization
\* regardless of how the caller spelled it" (angular/src/index.ts 23-28).
\* Left open, because the transports differ: which value of a repeated query
\* key is read, a JSON body that does not parse, a form, and the base of an
\* Angular application that is not spelled plainly.
RequestIsRead ==
    transport # "none" /\ (transport = "angular" => IsPlain(site.base.path)) /\ WellFormed =>
       /\ wireAt = "closed" /\ seen = {} => IsMalformed
       /\ \A r \in seen : ReadAsSent(r)
       /\ wireAt \in {"found", "replied", "closed"} /\ seen # {} /\ IsBelow =>
             (found # {} <=> \E k \in DOMAIN site.keys : Accepts(k))
       /\ \A f \in found : RouteIsMeant(f)

IsFormatted(r) == site.result # {} /\ r.status = 500
FormatterWorks == site.result \cap {"json", "string"} # {}
OwnHeaders(r) == Without(r.headers, Framing \cup HopByHop)

IsWellFramed(g) ==
    /\ \A h, k \in g.headers : h.name = k.name => h = k
    /\ \A h \in g.headers : h.value # "invalid"
    /\ HasHeader(g.headers, "content-length") => IsHead \/ g.status = 304
    /\ \A h \in g.headers \ site.extra : h.name \notin HopByHop \cup (Framing \ {"content-length"})

ArrivesAsReplied(r, g) ==
    /\ g.status = r.status
    /\ \A h \in OwnHeaders(r) : HasHeader(site.extra, h.name) \/ h \in g.headers
    /\ transport = "angular" => (g.channel = "response" <=> r.status \in 200 .. 299)
    /\ transport # "angular" =>
          /\ g.body = IF IsBodiless(r, IsHead) \/ r.body = "undefined" THEN "nothing" ELSE r.body
          /\ r.body \in {"bytes", "json"} => HasHeader(g.headers, "content-type")

ArrivesFormatted(r, g) ==
    /\ g.status = 500
    /\ Header("content-type", FALSE, "json") \in g.headers
    /\ ~IsHead => g.body \in site.result \cup {"internal error"}
    /\ ~IsHead /\ FormatterWorks => g.body \in site.result
    /\ FormatterWorks /\ ~IsRejected([r EXCEPT !.body = "undefined"], IsHead) =>
          Without(OwnHeaders(r), {"content-type"}) \subseteq g.headers

\* An Angular client sees the body as a value of the type it asked for.
ArrivesShaped(r, g) ==
    /\ ~IsFormatted(r) /\ ~IsRejected(r, IsHead) =>
          LET body == IF IsBodiless(r, IsHead) THEN "undefined" ELSE r.body IN
          g.body.content =
              IF message.responseType = "json" \/ body \notin {"undefined", "null"}
              THEN body ELSE "nothing"
    /\ message.responseType # "json" =>
          \/ g.body.type = message.responseType
          \/ g.body.type = "null" /\ g.status = 204
          \/ g.body.content = "unserializable"

\* What the client sees is the reply, on every transport: its status, the bytes
\* of its body and none where HTTP has none, one type that describes them, and
\* each of its headers once, but for those that frame the message or belong to
\* the connection: "Node's writeHead rejects them on bodyless responses, killing
\* the socket before any bytes reach the client" (response-normalizer.ts
\* 342-345).  Only what no transport can send, a hook's doing, is an error, and
\* not where a formatter works.  An error formatter's result reaches the client
\* as JSON whatever the headers of the response it replaces, and Angular's has
\* the type that was asked for.
DeliveredAsReplied ==
    wireAt = "closed" => \A r \in reply :
        /\ got = {} => IsRejected(r, IsHead) /\ ~IsFormatted(r) /\ ~FormatterWorks
        /\ \A g \in got :
              /\ IsWellFramed(g)
              /\ ~IsFormatted(r) /\ ~IsRejected(r, IsHead) => ArrivesAsReplied(r, g)
              /\ IsFormatted(r) /\ transport \in {"fetch", "express"} => ArrivesFormatted(r, g)
              /\ transport = "angular" => ArrivesShaped(r, g)

\* A message survives its transport in both directions.
MessageSurvives == RequestIsRead /\ DeliveredAsReplied
=============================================================================
