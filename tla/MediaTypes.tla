----------------------------- MODULE MediaTypes -----------------------------
(***************************************************************************)
(* Content negotiation of the OpenAPI plugin                               *)
(* (packages/openapi/src/content-negotiation.ts).  A media type has a      *)
(* type, a subtype and a set of <<name, value>> parameters; "*" makes it a *)
(* range.  The header fields are taken as parsed: an Accept is absent, or  *)
(* a sequence of ranges with a quality from 0 to 10 (none when the field   *)
(* holds nothing that parses).                                             *)
(***************************************************************************)
EXTENDS Naturals, Sequences, FiniteSets, SequencesExt, FiniteSetsExt

Media(type, subtype, params) ==
    [type |-> type, subtype |-> subtype, params |-> params]
NoMedia == Media("", "", {})
Json == Media("application", "json", {})
OctetStream == Media("application", "octet-stream", {})

Accept(ranges) == [present |-> TRUE, ranges |-> ranges]
NoAccept == [present |-> FALSE, ranges |-> <<>>]
AcceptRange(media, q) == [media |-> media, q |-> q]

IsConcrete(m) == m.type # "*" /\ m.subtype # "*"

\* What parses: parseTypeAndSubtype() wants a type and a subtype, and a message
\* has finitely many parameters.
IsMediaType(m) ==
    m = Media(m.type, m.subtype, m.params) /\ m.type # "" /\ IsFiniteSet(m.params)
IsMediaList(list) == list \in Seq(ToSet(list)) /\ \A i \in DOMAIN list : IsMediaType(list[i])
IsAccept(accept) ==
    /\ accept.present \in BOOLEAN /\ accept.ranges \in Seq(ToSet(accept.ranges))
    /\ \A i \in DOMAIN accept.ranges :
          IsMediaType(accept.ranges[i].media) /\ accept.ranges[i].q \in 0 .. 10

Covers(range, m) ==
    /\ range.type \in {"*", m.type}
    /\ range.subtype \in {"*", m.subtype}
    /\ range.type = "*" => range.subtype = "*"
    /\ range.params \subseteq m.params

Level(range) ==
    IF range.type = "*" THEN 1 ELSE IF range.subtype = "*" THEN 2 ELSE 3

MoreSpecific(a, b) ==
    \/ Level(a) > Level(b)
    \/ Level(a) = Level(b) /\ Cardinality(a.params) > Cardinality(b.params)

\* Which of a list of ranges speaks for m: the most specific that covers it,
\* the first of several; 0 if there is none.
Authority(list, m) ==
    LET covering == {i \in DOMAIN list : Covers(list[i], m)}
        top == {i \in covering : \A j \in covering : ~MoreSpecific(list[j], list[i])}
    IN  IF top = {} THEN 0 ELSE Min(top)

\* q=0 and no range at all are refused alike.
Quality(m, accept) ==
    LET i == Authority([k \in DOMAIN accept.ranges |-> accept.ranges[k].media], m)
    IN  IF ~accept.present THEN 1 ELSE IF i = 0 THEN 0 ELSE accept.ranges[i].q

-----------------------------------------------------------------------------
(* The concrete types a declaration can stand for. *)

DefaultSubtypes(type) ==
    CASE type = "application" -> <<"json", "octet-stream">>
      [] type = "text"        -> <<"plain">>
      [] type = "image"       -> <<"png">>
      [] type = "audio"       -> <<"mpeg">>
      [] type = "video"       -> <<"mp4">>
      [] OTHER                -> <<"x-schmock">>

Meets(a, b) == "*" \in {a, b} \/ a = b
Narrower(a, b) == IF a = "*" THEN b ELSE a

\* No parameter has two values.
Consistent(params) == \A a, b \in params : a[1] = b[1] => a = b

WithSubtypes(m, subtypes) ==
    [i \in DOMAIN subtypes |-> [m EXCEPT !.subtype = subtypes[i]]]

Intersections(declared, range) ==
    LET m == Media(Narrower(declared.type, range.type),
                   Narrower(declared.subtype, range.subtype),
                   declared.params \cup range.params) IN
    IF \/ ~Meets(declared.type, range.type)
       \/ ~Meets(declared.subtype, range.subtype)
       \/ m.type = "*" \/ ~Consistent(m.params)
    THEN <<>>
    ELSE WithSubtypes(m, IF m.subtype = "*" THEN DefaultSubtypes(m.type)
                                            ELSE <<m.subtype>>)

DefaultCandidates(declared) ==
    IF declared.type = "*"
    THEN <<Media("application", "json", declared.params),
           Media("application", "octet-stream", declared.params),
           Media("text", "plain", declared.params)>>
    ELSE WithSubtypes(declared, DefaultSubtypes(declared.type))

\* What a declaration can be sent as, in lists: the types of each range, in the
\* order of the field, and the defaults.
Candidates(declared, accept) ==
    IF IsConcrete(declared) THEN <<<<declared>>>>
    ELSE Append([i \in DOMAIN accept.ranges |->
                    Intersections(declared, accept.ranges[i].media)],
                DefaultCandidates(declared))

-----------------------------------------------------------------------------

\* The declaration whose schema belongs to a type that is sent; 0 if none.
MatchDeclared(m, available) == IF IsConcrete(m) THEN Authority(available, m) ELSE 0

CanonicalDeclaration(candidate, available) == Authority(available, candidate)

NoOffer == [place |-> <<0, 0, 0>>, media |-> NoMedia, q |-> 0, declared |-> 0]

\* The candidates of all declarations, at their places: the declaration, the
\* list of its candidates and the place in that.  One that nobody wants is none.
Offers(accept, available) ==
    LET At(list, i, j) ==
            {[place |-> <<i, j, k>>, media |-> list[k], q |-> Quality(list[k], accept),
              declared |-> CanonicalDeclaration(list[k], available)] : k \in DOMAIN list}
        Of(lists, i) == UNION {At(lists[j], i, j) : j \in DOMAIN lists}
        all == UNION {Of(Candidates(available[i], accept), i) : i \in DOMAIN available}
    IN  {offer \in all : offer.q > 0 /\ offer.declared # 0}

Earlier(p, r) ==
    \/ p[1] < r[1]
    \/ p[1] = r[1] /\ (p[2] < r[2] \/ (p[2] = r[2] /\ p[3] < r[3]))

\* The better quality, then the more specific declaration, then the one
\* declared first, then the first candidate.
Wins(a, b, available) ==
    LET Narrows(x, y) == MoreSpecific(available[x.declared], available[y.declared])
        Precedes == \/ a.declared < b.declared
                    \/ a.declared = b.declared /\ Earlier(a.place, b.place)
    IN  a.q > b.q \/ (a.q = b.q /\ (Narrows(a, b) \/ (~Narrows(b, a) /\ Precedes)))

\* The type to send and the declaration it belongs to; declared is 0 when
\* nothing is acceptable.
Negotiate(accept, available) ==
    LET Best(offers) == CHOOSE a \in offers : \A b \in offers \ {a} : Wins(a, b, available)
    IN  IF Offers(accept, available) = {} THEN NoOffer ELSE Best(Offers(accept, available))

=============================================================================
