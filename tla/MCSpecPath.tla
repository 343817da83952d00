----------------------------- MODULE MCSpecPath -----------------------------
EXTENDS SpecPath

M(type, subtype) == Media(type, subtype, {})
JsonV1 == Media("application", "json", {<<"v", "1">>})
AnyApplication == M("application", "*")
Text == M("text", "plain")
Problem == M("application", "problem+json")
Anything == M("*", "*")

Entry(key, content, examples) ==
    [key |-> key, content |-> content, examples |-> examples, header |-> NoMedia]
Labelled(entry, media) == [entry EXCEPT !.header = media]

\* Documents: exact statuses, ranges, default, wildcards, an entry without
\* content, one that declares no success, and headers that fix the type, one
\* that is declared second and one that is not declared.
Documents == {
    <<Entry(201, <<Json, Text>>, {1, 2}), Entry(404, <<Problem>>, {1})>>,
    <<Entry(2000, <<AnyApplication, JsonV1>>, {}), Entry(0, <<Problem, Anything>>, {})>>,
    <<Entry(202, <<Text, AnyApplication>>, {1}), Entry(204, <<Json>>, {}),
      Entry(400, <<>>, {0})>>,
    <<Entry(503, <<Json>>, {1}), Entry(4000, <<Text>>, {})>>,
    <<Labelled(Entry(201, <<Json, Text>>, {1}), Text), Entry(0, <<Problem>>, {})>>,
    <<Labelled(Entry(4000, <<Json>>, {}), Text)>>,
    <<>>}

Alternatives == {{"key"}, {"basic", "cookie"}}
Operations(kinds, documents, lists) ==
    [kind : kinds, responses : documents, callbacks : BOOLEAN, rows : lists,
     security : {{}, Alternatives}, consumes : {{Json, M("text", "*")}},
     bodyRequired : {TRUE}]
Open(ops) == {o \in ops : o.security = {}}

GivenBody(ctype, conforms) == [given |-> TRUE, ctype |-> ctype, conforms |-> conforms]
NoBody == [given |-> FALSE, ctype |-> NoMedia, conforms |-> TRUE]
GoodBody == GivenBody(Json, TRUE)
Bodies == {NoBody, GoodBody, GivenBody(Json, FALSE), GivenBody(Text, TRUE),
           GivenBody(Problem, TRUE), GivenBody(NoMedia, FALSE)}

Accepts == {
    NoAccept,
    Accept(<<AcceptRange(Anything, 10)>>),
    Accept(<<AcceptRange(Anything, 5), AcceptRange(Json, 0)>>),
    Accept(<<AcceptRange(AnyApplication, 5), AcceptRange(JsonV1, 9)>>),
    Accept(<<AcceptRange(Text, 3), AcceptRange(Problem, 8)>>),
    Accept(<<>>)}

Prefer(code, example, dynamic) ==
    [code |-> code, example |-> example, dynamic |-> dynamic]
NoPrefer == Prefer(0, FALSE, FALSE)
Prefers == {NoPrefer, Prefer(201, FALSE, FALSE), Prefer(204, FALSE, FALSE),
            Prefer(404, FALSE, FALSE), Prefer(150, FALSE, FALSE),
            Prefer(700, FALSE, FALSE), Prefer(0, TRUE, FALSE),
            Prefer(0, FALSE, TRUE)}

NoQuery == [page |-> 0, limit |-> 0, desc |-> FALSE]

\* The rows of a list: two numbers, a string, a row without the field and one
\* that the filter drops.
Rows == {Row(0, 1, TRUE), Row(0, 2, TRUE), Row(2, 1, TRUE), Row(7, 0, TRUE),
         Row(0, 2, FALSE)}
Lists == UNION {[1 .. n -> Rows] : n \in 0 .. 3}
SomeRows == <<Row(0, 2, TRUE), Row(0, 1, TRUE)>>

Values == {
    Plain(Undefined), Plain(Null), Plain(Body("other", <<>>)), Plain(Bytes),
    Plain(List(SomeRows)), Tuple(200, Null), TypedTuple(201, Bytes, OctetStream),
    Tuple(404, Error), Tuple(99, Error), Tuple(150, Error),
    Object(201, Body("other", <<>>)), Object(600, Error),
    Value("tuple", 201, Body("other", <<>>), Json, "bad"),
    Value("object", 404, Body("other", <<>>), Json, "bad")}

Scenario(ops, pipes, judging, accepts, prefers, queries, heads, bodies) ==
    [ops |-> ops, pipes |-> pipes, judges |-> judging, accepts |-> accepts,
     prefers |-> prefers, queries |-> queries, heads |-> heads, bodies |-> bodies,
     credentials |-> {{}, {"key"}, {"basic"}}]

\* Plugins of the user's around openapi.
UserScenario(prefers, heads, body) ==
    [Scenario({o \in Open(Operations({"static", "create"}, Documents, {<<>>})) :
                  o.callbacks <=> o.kind = "create"},
              {<<"user", "openapi">>, <<"validation", "user", "openapi">>,
               <<"openapi", "user", "validation">>},
              BOOLEAN,
              {NoAccept, Accept(<<AcceptRange(Text, 3), AcceptRange(Problem, 8)>>)},
              prefers, {NoQuery}, heads, {body}) EXCEPT !.credentials = {{}}]

MCScenarios == {
    \* every document, Accept and Prefer, with openapi alone
    [Scenario({o \in Open(Operations({"static", "create", "read", "update", "delete"},
                                    Documents, {<<>>})) :
                  o.callbacks <=> o.kind \in {"create", "update"}},
              {<<"openapi">>}, BOOLEAN, Accepts, Prefers, {NoQuery}, {FALSE},
              {GoodBody}) EXCEPT !.credentials = {{}}],
    \* every way to be refused, with plugins around openapi that refuse as well,
    \* judge and transform
    Scenario(Operations({"static", "create"}, Documents, {<<>>}),
             {<<"openapi">>, <<"openapi", "validation">>, <<"validation", "openapi">>},
             {TRUE}, {NoAccept}, {NoPrefer}, {NoQuery}, {FALSE}, Bodies),
    UserScenario({NoPrefer}, BOOLEAN, GoodBody),
    UserScenario({Prefer(404, FALSE, FALSE)}, {FALSE}, GoodBody),
    UserScenario({NoPrefer}, {FALSE}, GivenBody(Json, FALSE)),
    \* lists, and where in the pipe they are paged
    [Scenario(Open(Operations({"list"}, {<<Entry(200, <<Json>>, {})>>}, Lists)),
              {<<"query">>, <<"query", "openapi">>}, {TRUE}, {NoAccept}, {NoPrefer},
              [page : {0, 2}, limit : {0, 1, 3}, desc : BOOLEAN], {FALSE},
              {GoodBody}) EXCEPT !.credentials = {{}}],
    [Scenario(Open(Operations({"list"}, {<<Entry(200, <<Json>>, {})>>}, {SomeRows})),
              {<<"openapi", "query">>, <<"validation", "query", "openapi">>},
              {TRUE}, {NoAccept}, {NoPrefer}, {NoQuery}, {FALSE}, Bodies)
        EXCEPT !.credentials = {{}}],
    \* every document of MCSurfaces
    [Scenario(Open(Operations({Unrouted}, {<<Entry(200, <<Json>>, {})>>}, {<<>>})),
              {<<"openapi">>}, {TRUE}, {NoAccept}, {NoPrefer}, {NoQuery}, {FALSE},
              {GoodBody}) EXCEPT !.credentials = {{}},
                                 !.ops = {o \in @ : ~o.callbacks}]}

-----------------------------------------------------------------------------
(* Documents for the detection of resources. *)

PathOf(segments, slash) == [segments |-> segments, slash |-> slash]
Param(name) == <<"{", name, "}">>
Pets == <<"pets">>
Toys == <<"toys">>
Mine == <<"mine">>

Names == {"petId", "id", "toy"}
ItemPaths == {PathOf(<<Pets, Param("petId")>>, FALSE), PathOf(<<Pets, Param("id")>>, FALSE)}
ToyPaths == {
    PathOf(<<Pets, Param("petId"), Toys>>, FALSE),
    PathOf(<<Pets, Param("petId"), Toys, Param("toy")>>, FALSE),
    PathOf(<<Pets, Param("id"), Toys, Mine>>, FALSE)}
OtherPaths == {
    PathOf(<<>>, FALSE), PathOf(<<Param("id")>>, FALSE),
    PathOf(<<Pets>>, TRUE), PathOf(<<Pets, Mine>>, FALSE),
    PathOf(<<Pets, Param("petId")>>, TRUE),
    PathOf(<<Pets, Append(Param("id"), ".json")>>, FALSE)}
Collection == {PathOf(<<Pets>>, FALSE)}

\* Documents of n operations; those of a path follow one another.
DocumentsOf(n, methods, paths) ==
    {d \in [1 .. n -> [method : methods, path : paths]] :
        /\ IsInjective(d)
        /\ \A i, j, k \in DOMAIN d :
              i < j /\ j < k /\ d[i].path = d[k].path => d[j].path = d[i].path}
MCProbe == <<[method |-> "GET", path |-> PathOf(<<Pets, Mine>>, FALSE)]>>
MCSurfaces ==
    {MCProbe}
    \cup UNION {DocumentsOf(n, {"GET", "POST", "PUT"}, Collection \cup ItemPaths) : n \in 1 .. 3}
    \cup DocumentsOf(2, {"GET", "DELETE"}, Collection \cup ItemPaths \cup ToyPaths \cup OtherPaths)
    \cup DocumentsOf(3, {"GET"}, Collection \cup ItemPaths \cup ToyPaths
                                  \cup {PathOf(<<Pets>>, TRUE), PathOf(<<Pets, Mine>>, FALSE)})
MCCaptured == {<<"7">>, <<"mine">>}

-----------------------------------------------------------------------------
(* Schemas: a sub-schema may be the parent of itself, of its parent or of two. *)

Edge(role, to) == [role |-> role, to |-> to]
Schema(type, edges) ==
    [type |-> type, minItems |-> {}, maxItems |-> {}, extras |-> 0,
     check |-> "good", fits |-> TRUE, edges |-> edges]

MCPlainGraph == <<Schema("string", <<>>)>>

Leaves == {Schema("string", <<>>), [Schema("", <<>>) EXCEPT !.check = "empty"],
           [Schema("string", <<>>) EXCEPT !.fits = FALSE]}
PropertyTo(m) == {Schema("object", <<Edge("property", m)>>)}
Links(ends) ==
    {Schema("array", <<Edge("items", m)>>) : m \in ends}
    \cup {[Schema("array", <<Edge("items", m)>>) EXCEPT !.maxItems = {2}] : m \in ends}
    \cup {Schema("object", <<Edge("property", m)>>) : m \in ends}
    \cup {Schema("", <<Edge("ref", m)>>) : m \in ends}
    \cup {Schema("", <<Edge("anyOf", m)>>) : m \in ends}
Forks(ends) ==
    LET pairs == {p \in ends \X ends : p[1] < p[2]} IN
    {Schema("object", <<Edge("property", p[1]), Edge("property", p[2])>>) : p \in pairs}
    \cup {Schema("object", <<Edge("property", p[2]), Edge("definition", p[1])>>) : p \in pairs}
    \cup {[Schema("array", <<Edge("item", p[1]), Edge("item", p[2])>>)
             EXCEPT !.minItems = {1}, !.maxItems = {3}] : p \in pairs}
    \cup {[Schema("array", <<Edge("item", p[1]), Edge("item", p[2]), Edge("additionalItems", p[1])>>)
             EXCEPT !.minItems = {5}] : p \in pairs}
    \cup {[Schema("object", <<Edge("patternProperty", p[1]), Edge("additionalProperties", p[2])>>)
             EXCEPT !.extras = 2] : p \in pairs}
    \cup {Schema("", <<Edge("allOf", p[1]), Edge("allOf", p[2])>>) : p \in pairs}
    \cup {Schema("object", <<Edge("property", p[1]), Edge("branch", p[2])>>) : p \in pairs}

Small == {<<a, b, c>> : a \in Links(1 .. 3) \cup Forks(1 .. 3),
                        b \in Leaves \cup Links(1 .. 3), c \in Leaves \cup PropertyTo(2)}
Shared ==
    {<<a, b, c, d>> : a \in Forks(2 .. 4), b \in Forks(3 .. 4) \cup Links({4}),
                      c \in Links({4}) \cup PropertyTo(2),
                      d \in {[Schema("string", <<>>) EXCEPT !.check = k] : k \in {"good", "bad"}}}
Long == {<<a, b, c, d, Schema("string", <<>>)>> :
            a \in Links({2}), b \in Links({3}), c \in Links({4}), d \in Links({5})}
MCGraphs == {MCPlainGraph} \cup Small \cup Shared \cup Long
MCCounts == {{}, {4}}

-----------------------------------------------------------------------------
(* References: two names of one host, a private host, an address that maps a  *)
(* private one, a file, a data: URL and what does not parse.                  *)

Named(name, labels, upper) ==
    [kind |-> "name", name |-> name, labels |-> labels, upper |-> upper]
PublicHost == Named("example", <<"example">>, FALSE)
Spelled == [PublicHost EXCEPT !.upper = TRUE]
Other == Named("other", <<"other">>, FALSE)
LocalName == Named("x.localhost", <<"x", "localhost">>, FALSE)
Mapped == [kind |-> "mapped", name |-> "mapped", octets |-> <<127, 0, 0, 1>>, upper |-> FALSE]
Private == [kind |-> "v4", name |-> "172.16.0.1", octets |-> <<172, 16, 0, 1>>, upper |-> FALSE]
UniqueLocal == [kind |-> "v6", name |-> "fd00::1", groups |-> <<64768, 1>>, upper |-> FALSE]
MCPrivateHosts == {LocalName, Mapped, Private, UniqueLocal}

Http(host) == [scheme |-> "http", host |-> host, path |-> 1]
File == [scheme |-> "file", host |-> PublicHost, path |-> 1]
Data == [File EXCEPT !.scheme = "data"]
MCUrls == {Http(PublicHost), Http(Mapped), Http(Other), File, Data}
MCRoots == {refs0 \in SUBSET (MCUrls \cup {[File EXCEPT !.scheme = "bad"], Http(LocalName),
                                           Http(Private), Http(UniqueLocal)}) :
               Cardinality(refs0) <= 2}

Policy(external, http, hosts, redirects) ==
    [external |-> external, allowHttp |-> http, allowedHosts |-> hosts,
     redirects |-> redirects, maxBytes |-> 1]
MCPlainPolicy == Policy(TRUE, TRUE, {}, 1)
MCPolicies == {MCPlainPolicy, Policy(FALSE, TRUE, {}, 1), Policy(TRUE, FALSE, {}, 1),
               Policy(TRUE, TRUE, {Spelled, Mapped}, 1), Policy(TRUE, TRUE, {Other}, 0)}
MCSizes == {0, 2}

-----------------------------------------------------------------------------
(* Schemas: a union of two of cats, dogs and a leaf, in one document or two,  *)
(* whose cats and dogs refer to it, to each other or to themselves.           *)

Node(doc, name) ==
    [doc |-> doc, name |-> name, readOnly |-> FALSE, writeOnly |-> FALSE, props |-> <<>>,
     required |-> {}, branches |-> <<>>, disc |-> {}, subs |-> <<>>]
Prop(name, to) == [name |-> name, to |-> to]
Target(form, doc, name) == [form |-> form, doc |-> doc, name |-> name]
Maps(key, target) == [key |-> key, target |-> target]
Mappings == {
    {},
    {Maps(1, Target("bare", "root", "Dog")), Maps(2, Target("bare", "root", "Cat"))},
    {Maps(1, Target("pointer", "root", "Dog")), Maps(2, Target("pointer", "other", "Cat")),
     Maps(3, Target("pointer", "root", "Cat"))}}

Union(doc, name, branches, mapping) ==
    [Node(doc, name) EXCEPT !.branches = branches, !.disc = {[prop |-> "kind", mapping |-> mapping]}]
Unions2 == {Union(doc, name, branches, mapping) :
               doc \in {"root", "other"}, name \in {"", "Pet"},
               branches \in {<<3, 2>>, <<2, 4>>}, mapping \in Mappings}
Cats == {[Node(doc, "Cat") EXCEPT !.props = props, !.required = {"kind"}] :
            doc \in {"root", "other"},
            props \in {<<>>, <<Prop("kind", 4)>>, <<Prop("friend", 3), Prop("kind", 4)>>,
                       <<Prop("self", 2)>>}}
Dogs == {[Node("root", "Dog") EXCEPT !.props = props, !.required = {"a"}, !.subs = subs] :
            props \in {<<>>, <<Prop("a", 4), Prop("owner", 1)>>, <<Prop("b", 2), Prop("a", 4)>>},
            subs \in {<<>>, <<1>>, <<2, 4>>}}
Flagged == {Node("root", "")} \cup
           {[Node("root", "Leaf") EXCEPT !.readOnly = flag[1], !.writeOnly = flag[2]] :
               flag \in {<<FALSE, FALSE>>, <<TRUE, FALSE>>, <<FALSE, TRUE>>}}
Holder == [Node("root", "") EXCEPT !.props = <<Prop("a", 2), Prop("b", 3), Prop("c", 4)>>,
                                   !.required = {"a", "c"}]
MCPlainNodes == <<Node("root", "")>>
MCSchemaGraphs ==
    {MCPlainNodes}
    \cup {<<top, cat, dog, leaf>> : top \in Unions2 \cup {Holder},
                                   cat \in Cats, dog \in Dogs, leaf \in Flagged}

-----------------------------------------------------------------------------
(* Documents, of both versions: each part in every form, the others plain.    *)

Par(in, name, schema) == [ok |-> TRUE, in |-> in, name |-> name, required |-> TRUE, schema |-> {schema}]
JunkPar == [Par("query", "junk", 0) EXCEPT !.ok = FALSE]
ParamLists == {
    <<>>, <<Par("query", "a", 1), Par("header", "a", 2)>>,
    <<Par("query", "a", 3), JunkPar, Par("cookie", "a", 4), Par("query", "", 5)>>,
    <<Par("body", "pet", 6)>>, <<Par("path", "a", 7), Par("body", "pet", 8), Par("path", "a", 9)>>}

SpecContent(media, schema) == [media |-> media, ok |-> TRUE, schema |-> {schema}, examples |-> {}]
JunkContent == [SpecContent(Json, 1) EXCEPT !.ok = FALSE]
ContentLists == {
    <<>>, <<SpecContent(Text, 1), SpecContent(Problem, 2)>>, <<SpecContent(JsonV1, 3), SpecContent(Json, 4)>>,
    <<JunkContent, SpecContent(JsonV1, 5), SpecContent(Text, 6)>>}
BodyOf(content) == [content |-> content, required |-> TRUE]

StatusKey(code, text) == [code |-> code, text |-> text]
Resp(key, schema, contents) ==
    [key |-> key, ok |-> TRUE, schema |-> {schema}, content |-> contents, examples |-> {}]
RespLists == {
    <<>>, <<Resp(StatusKey(200, "200"), 1, {})>>,
    <<Resp(StatusKey(2000, "2XX"), 1, {}), Resp(StatusKey(2000, "2xx"), 2, {<<SpecContent(Json, 2)>>}),
      Resp(StatusKey(0, "default"), 3, {})>>,
    <<Resp(StatusKey(404, "404"), 1, {}), Resp(StatusKey(-1, "4xy"), 2, {}),
      [Resp(StatusKey(2000, "2XX"), 3, {}) EXCEPT !.ok = FALSE], Resp(StatusKey(0, "Default"), 4, {})>>}

NoSecurity == [given |-> FALSE, entries |-> <<>>]
Securities == {NoSecurity, [given |-> TRUE, entries |-> <<>>],
               [given |-> TRUE, entries |-> <<[ok |-> TRUE, names |-> {"key"}], [ok |-> FALSE, names |-> {}]>>]}
PlainOperation ==
    [params |-> <<>>, body |-> {}, consumes |-> <<>>, produces |-> <<>>,
     responses |-> <<Resp(StatusKey(200, "200"), 1, {})>>, security |-> NoSecurity, callbacks |-> <<>>]
CallbackLists == {
    <<[expressions |-> <<[ok |-> TRUE, url |-> 1,
        keys |-> <<[method |-> "post", ok |-> TRUE, body |-> {BodyOf(<<SpecContent(Json, 1)>>)}],
                   [method |-> "trace", ok |-> TRUE, body |-> {}]>>],
                         [ok |-> FALSE, url |-> 2, keys |-> <<>>]>>]>>}
OperationsInSpec ==
    {[PlainOperation EXCEPT !.params = params] : params \in ParamLists}
    \cup {[PlainOperation EXCEPT !.body = {BodyOf(content)}, !.responses = responses] :
             content \in ContentLists, responses \in RespLists}
    \cup {[PlainOperation EXCEPT !.consumes = types, !.produces = types, !.params = <<Par("body", "pet", 6)>>] :
             types \in {<<JsonV1>>, <<Text, Json>>}}
    \cup {[PlainOperation EXCEPT !.security = security, !.callbacks = callbacks] :
             security \in Securities, callbacks \in {<<>>} \cup CallbackLists}

KeyAt(method, operation) == [method |-> method, ok |-> TRUE, operation |-> operation]
ItemAt(template, params, keys) == [template |-> template, ok |-> TRUE, params |-> params, keys |-> keys]
SpecOf(version, items) ==
    [version |-> version, consumes |-> <<Json>>, produces |-> <<Json>>, security |-> NoSecurity,
     schemes |-> <<>>, items |-> items]
SchemeDef(name, type, in) == [name |-> name, ok |-> TRUE, type |-> type, in |-> in]
JunkItems == <<[ItemAt("junk", <<>>, <<>>) EXCEPT !.ok = FALSE],
               ItemAt("pets", <<JunkPar>>,
                      <<KeyAt("get", PlainOperation), KeyAt("summary", PlainOperation),
                        KeyAt("fetch", PlainOperation),
                        [KeyAt("put", PlainOperation) EXCEPT !.ok = FALSE]>>)>>
MCPlainSpec == SpecOf(3, <<ItemAt("pets", <<>>, <<KeyAt("get", PlainOperation)>>)>>)
MCSpecs ==
    {MCPlainSpec}
    \cup {SpecOf(version, <<ItemAt("pets", shared, <<KeyAt("get", one), KeyAt("post", PlainOperation)>>)>>) :
             version \in {2, 3}, shared \in ParamLists, one \in OperationsInSpec}
    \cup {[SpecOf(version, JunkItems) EXCEPT !.security = security,
             !.schemes = <<SchemeDef("key", "apiKey", {"header"}), SchemeDef("basic", "basic", {}),
                           SchemeDef("odd", "odd", {}), [SchemeDef("no", "http", {}) EXCEPT !.ok = FALSE]>>] :
             version \in {2, 3}, security \in Securities}
MCJsonSubtypes == {"json", "problem+json"}
MCJsonSuffixed == {"problem+json"}

\* One or two keys over documents with a status, a range or none for success.
OverrideKey(method, path, status, schema) ==
    [ok |-> TRUE, method |-> method, path |-> path, status |-> status, schema |-> schema]
ContentFor(first, second) == {<<SpecContent(first, 1), SpecContent(second, 2)>>}
ResponsesToPatch == {
    <<>>, <<Resp(StatusKey(404, "404"), 1, {<<SpecContent(Text, 1)>>})>>,
    <<Resp(StatusKey(200, "200"), 1, ContentFor(Json, Text)), Resp(StatusKey(201, "201"), 2, ContentFor(Text, M("text", "csv")))>>,
    <<Resp(StatusKey(201, "201"), 1, {<<SpecContent(Text, 1)>>}), Resp(StatusKey(2000, "2XX"), 2, ContentFor(Anything, Problem))>>,
    <<Resp(StatusKey(2000, "2XX"), 1, ContentFor(Problem, JsonV1)), Resp(StatusKey(0, "default"), 2, {})>>}
KeysToApply ==
    {OverrideKey("get", "pets", status, n) : status \in {{}, {200}, {201}, {404}}, n \in {7, 8}}
    \cup {OverrideKey("post", "pets", {}, 7), OverrideKey("get", "toys", {}, 7),
          [OverrideKey("get", "pets", {}, 7) EXCEPT !.ok = FALSE]}
MCSchemaOverrides ==
    {[spec |-> SpecOf(3, <<ItemAt("pets", <<>>,
                  <<KeyAt("get", [PlainOperation EXCEPT !.responses = r]), KeyAt("post", PlainOperation)>>)>>),
      keys |-> keys] :
        r \in ResponsesToPatch,
        keys \in {<<k>> : k \in KeysToApply} \cup {<<k, l>> : k, l \in KeysToApply}}

-----------------------------------------------------------------------------
(* What the faker plugin is given: properties named every way over a leaf,    *)
(* objects and arrays that hold each other.                                   *)

FieldSchema(types, keys, format, edges) ==
    [types |-> types, keys |-> keys, format |-> format, edges |-> edges, nullable |-> "no"]
EdgeTo(role, to) == [role |-> role, name |-> <<>>, to |-> to]
PropertyOf(name, to) == [role |-> "property", name |-> name, to |-> to]
Id == <<"i", "d">>
Pet == <<"p", "e", "t">>
Age == <<"a", "g", "e">>
Mail == <<"m", "a", "i", "l">>
MCMappings ==
    <<MailMapping(<<<<Mail>>>>), NumberMapping(80, <<<<Age>>, <<Pet, Age>>>>),
      PriceMapping(<<<<Pet>>>>), TopicMapping(<<<<Id>>>>), FlagMapping(60, <<<<Age, Mail>>>>)>>
FieldNames == {<<Mail>>, <<Age>>, <<Pet, Id>>, <<Pet, Age>>, <<Id>>, <<Pet, Mail, Age>>, <<Pet \o Age>>}

FieldLeaves ==
    {FieldSchema(t, k, f, <<>>) :
        t \in {{}, {"string"}, {"integer"}, {"boolean"}, {"string", "integer"}},
        k \in {{}, {"bounds"}, {"length"}, {"enum"}, {"const", "unknown"}, {"faker"}, {"pattern"}},
        f \in {{}, {"uuid"}, {"date"}, {"odd"}}}
    \cup {[FieldSchema({t, "null"}, {}, {}, <<>>) EXCEPT !.nullable = "type"] :
             t \in {"string", "null", "number"}}
FieldHolders ==
    {FieldSchema({"object"}, {"unknown"}, {}, <<PropertyOf(f, 2), PropertyOf(g, 2), EdgeTo("unknown", 3)>>) :
        f, g \in FieldNames}
AnyField == FieldSchema({}, {}, {}, <<>>)
FieldArrays ==
    {<<EdgeTo("items", 2)>>, <<EdgeTo("item", 3), EdgeTo("item", 2)>>,
     <<EdgeTo("item", 2), EdgeTo("additionalItems", 3)>>, <<EdgeTo("additionalItems", 3)>>,
     <<EdgeTo("additionalItems", 2), EdgeTo("items", 3)>>,
     <<EdgeTo("prefixItem", 3), EdgeTo("item", 2)>>,
     <<EdgeTo("prefixItem", 2), EdgeTo("additionalItems", 3), EdgeTo("prefixItem", 3)>>}
FieldEnds ==
    {FieldSchema({"string"}, {}, {}, <<>>),
     [FieldSchema({}, {}, {}, <<EdgeTo("anyOf", 4), EdgeTo("anyOf", 2)>>) EXCEPT !.nullable = "anyOf"],
     FieldSchema({}, {}, {}, <<EdgeTo("oneOf", 1), EdgeTo("oneOf", 2)>>)}
MCPlainFields == <<FieldSchema({"string"}, {}, {}, <<>>)>>
MCFields ==
    {MCPlainFields}
    \cup {<<top, leaf, AnyField>> : top \in FieldHolders, leaf \in FieldLeaves}
    \cup {<<FieldSchema({"array"}, {}, {}, edges),
            FieldSchema({"object"}, {}, {},
                        <<PropertyOf(<<Mail>>, 1), PropertyOf(f, 3), PropertyOf(<<Pet>>, 3)>>),
            end, FieldSchema({"null"}, {}, {}, <<>>)>> :
             edges \in FieldArrays, f \in FieldNames, end \in FieldEnds}
    \cup {<<FieldSchema({"object"}, {}, {}, <<PropertyOf(f, 3)>>), leaf,
            [FieldSchema({}, {}, {}, <<EdgeTo("anyOf", 4), EdgeTo("anyOf", 2)>>) EXCEPT !.nullable = "anyOf"],
            FieldSchema({"null"}, {}, {}, <<>>)>> :
             f \in FieldNames, leaf \in {l \in FieldLeaves : l.types = {"string"}}}

-----------------------------------------------------------------------------
(* Generated objects and lists of them; one or two overrides, of a key, of a  *)
(* path and of keys that are not written, with values that are shared, hold   *)
(* templates or are too large.                                                *)

ObjectOf(owner, fields) == Composite("object", owner, fields)
ListOf(owner, values) == Composite("array", owner, [i \in DOMAIN values |-> Field(<<ToString(i)>>, values[i])])
FieldAt(part, v) == Field(<<part>>, v)
ValueSchema(items, isTuple, properties, isNullable, isWeighted) ==
    [minItems |-> {}, maxItems |-> {}, items |-> items, isTuple |-> isTuple,
     properties |-> properties, isNullable |-> isNullable, isWeighted |-> isWeighted]
LeafSchema(isNullable, isWeighted) == ValueSchema(<<>>, FALSE, <<>>, isNullable, isWeighted)
PropSchema(key, schema) == [key |-> <<key>>, schema |-> schema]
ObjectSchema(isNullable) ==
    ValueSchema(<<>>, FALSE,
                <<PropSchema("a", LeafSchema(TRUE, FALSE)), PropSchema("b", LeafSchema(FALSE, TRUE))>>,
                isNullable, FALSE)
GeneratedObjects == {
    ObjectOf("jsf", <<>>),
    ObjectOf("jsf", <<FieldAt("a", Prim("x")), FieldAt("b", Prim("true"))>>),
    ObjectOf("jsf", <<FieldAt("a", ObjectOf("jsf", <<FieldAt("b", Prim("x"))>>)), FieldAt("c", Prim("x"))>>),
    ObjectOf("jsf", <<FieldAt("a", Prim("long"))>>)}

SharedObject == ObjectOf("user", <<FieldAt("c", Prim("s"))>>)
SimpleValues == {Prim("o"), Placeholder("state.it"), ObjectOf("user", <<FieldAt("b", Prim("n"))>>)}
OverrideValues ==
    SimpleValues \cup
    {Prim("long"), NullValue, Placeholder("params.none"), SharedObject,
     ObjectOf("user", <<FieldAt("b", Placeholder("state.it")),
                        FieldAt("c", ListOf("user", <<SharedObject>>))>>),
     ListOf("user", <<SharedObject, SharedObject, Prim("o")>>)}
MCDangerous == {"proto"}
OverrideKeys == {<<"a">>, <<"b">>, <<"a", "b">>, <<"a", "c">>, <<"proto", "a">>, <<"a", "proto">>, <<"proto">>}
OverrideLists ==
    {<<>>} \cup {<<Field(k, v)>> : k \in OverrideKeys, v \in OverrideValues}
    \cup {<<Field(k, v), Field(l, w)>> : k \in OverrideKeys, l \in {<<"a">>, <<"b">>, <<"a", "b">>, <<"a", "proto">>},
                                         v \in SimpleValues, w \in SimpleValues}

Option(schema, explicit, overrides, generated) ==
    [schema |-> schema, count |-> explicit, overrides |-> ObjectOf("user", overrides), generated |-> generated]
MCPlainOptions == Option(LeafSchema(FALSE, FALSE), {}, <<>>, {Prim("x")})
MCOptions ==
    {MCPlainOptions, [MCPlainOptions EXCEPT !.overrides = ListOf("user", <<>>)],
     Option(ValueSchema(<<LeafSchema(TRUE, FALSE), ObjectSchema(FALSE)>>, TRUE, <<>>, FALSE, FALSE), {},
            <<FieldAt("a", Prim("o"))>>, {ListOf("jsf", <<Prim("x"), Prim("x")>>)})}
    \cup {Option(ObjectSchema(FALSE), {}, overrides, GeneratedObjects) : overrides \in OverrideLists}
    \cup {[Option(ValueSchema(<<ObjectSchema(TRUE)>>, FALSE, <<>>, FALSE, FALSE), explicit, overrides,
                  {ListOf("jsf", [i \in 1 .. n |-> g]) : n \in 0 .. 3, g \in GeneratedObjects})
             EXCEPT !.schema.minItems = least, !.schema.maxItems = most] :
             overrides \in {<<>>, <<FieldAt("a", Prim("o"))>>}, explicit \in {{}, {2}, {4}},
             least \in {{}, {1}}, most \in {{}, {2}}}
MCContexts == {<<>>, [p \in {"state.it"} |-> ObjectOf("context", <<FieldAt("z", Prim("x"))>>)],
               [p \in {"state.it"} |-> Prim("long")]}
MCLongStrings == {"long"}

-----------------------------------------------------------------------------
(* Documents with names: two schemas with every $id below a root with one or  *)
(* without, and a fourth with references that is in one, in both, or in       *)
(* neither.                                                                   *)

Ref(doc, fragment) == [ok |-> TRUE, doc |-> doc, fragment |-> fragment]
BadRef == [Ref({}, <<"n">>) EXCEPT !.ok = FALSE]
NamedSchema(ids, anchors, edges) ==
    [ids |-> ids, anchors |-> anchors, refs |-> <<>>, edges |-> edges]
KeyTo(key, to, isSchema) == [key |-> key, to |-> to, isSchema |-> isSchema]
AllRefs == <<Ref({}, <<>>), Ref({}, <<"/", "a">>), Ref({}, <<"n">>), Ref({"b.json"}, <<>>),
             Ref({"b.json"}, <<"n">>), Ref({"root.json"}, <<"/", "a">>), Ref({"b.json"}, <<"/", "a">>),
             Ref({}, <<"/", "z", "a">>), BadRef>>
MCPlainNamed == <<NamedSchema({}, {}, <<>>)>>
MCNamedGraphs ==
    {MCPlainNamed} \cup
    {<<NamedSchema(root, {}, <<KeyTo("a", 2, TRUE), KeyTo("z", 3, TRUE)>> \o top),
       NamedSchema(id, {}, second), NamedSchema(other, anchors, third),
       [NamedSchema({}, {}, back) EXCEPT !.refs = AllRefs]>> :
        root \in {{}, {Ref({"a.json"}, <<>>)}},
        id \in {{}, {Ref({"b.json"}, <<>>)}, {Ref({}, <<"n">>)}, {Ref({"b.json"}, <<"n">>)}, {BadRef},
                {Ref({"root.json"}, <<>>)}},
        other \in {{}, {Ref({"b.json"}, <<>>)}, {Ref({}, <<"n">>)}}, anchors \in {{}, {"n"}},
        top \in {<<>>, <<KeyTo("x", 4, FALSE)>>},
        second \in {<<>>, <<KeyTo("a", 4, TRUE)>>}, third \in {<<>>, <<KeyTo("a", 4, TRUE)>>},
        back \in {<<>>, <<KeyTo("a", 1, TRUE)>>}}

\* A schema by itself, with each keyword in every form.
NumberValue(n) == [kind |-> "number", size |-> n, fields |-> <<>>]
StringValue(n) == [kind |-> "string", size |-> n, fields |-> <<>>]
RecordOf(key, v) == [kind |-> "record", size |-> 0, fields |-> <<[key |-> key, value |-> v]>>]
ValuesIn(v) == [kind |-> "list", size |-> 0, fields |-> <<[key |-> "1", value |-> v]>>]
Arguments ==
    {NumberValue(1), NumberValue(3), StringValue(3), ValuesIn(StringValue(3)),
     RecordOf("min", NumberValue(3)), RecordOf("max", NumberValue(3)),
     RecordOf("length", NumberValue(3)), RecordOf("length", RecordOf("min", NumberValue(3))),
     RecordOf("count", RecordOf("max", NumberValue(3))), RecordOf("count", StringValue(1))}
MCFakerMethods == {"person.name", "string.alpha", "string.binary", "lorem.text", "word.words",
                   "string.fromCharacters", "helpers.uniqueArray", "helpers.multiple", "date.betweens"}
MethodKey(method, args) == [method |-> method, enumerable |-> TRUE, isList |-> TRUE, args |-> args]
FakerConfig(kind, method, keys) == [kind |-> kind, method |-> method, keys |-> keys]
FakerConfigs ==
    {FakerConfig("other", "", <<>>), FakerConfig("object", "", <<>>)}
    \cup {FakerConfig("method", m, <<>>) : m \in {"person.name", "person.odd"}}
    \cup {FakerConfig("object", "", <<MethodKey(m, args)>>) : m \in MCFakerMethods \cup {"person.odd"},
             args \in {<<a>> : a \in Arguments} \cup {<<StringValue(1), a>> : a \in Arguments}}
    \cup {FakerConfig("object", "", <<[MethodKey("person.name", <<>>) EXCEPT !.enumerable = FALSE]>>),
          FakerConfig("object", "", <<[MethodKey("person.name", <<>>) EXCEPT !.isList = FALSE]>>),
          FakerConfig("object", "", <<MethodKey("person.name", <<>>), MethodKey("lorem.text", <<>>)>>)}

PlainKeywords ==
    [types |-> {"string"}, isList |-> FALSE, properties |-> "none", items |-> "none", faker |-> {},
     minLength |-> {}, maxLength |-> {}, constant |-> {}, enum |-> {}, default |-> {}, template |-> {},
     names |-> {}, required |-> {}, minProperties |-> {}, extras |-> FALSE]
MCPlainOwn == PlainKeywords
MCLongOwn == [PlainKeywords EXCEPT !.maxLength = {3}]
MCKeywords ==
    {[PlainKeywords EXCEPT !.faker = {config}] : config \in FakerConfigs}
    \cup {[PlainKeywords EXCEPT !.types = t, !.isList = (Cardinality(t) > 1), !.maxLength = longest,
             !.constant = c, !.enum = e, !.default = d] :
             t \in {{}, {"string"}, {"string", "null"}, {"odd"}, {"number"}}, longest \in {{}, {3}},
             c \in {{}, {NumberValue(1)}, {StringValue(1)}, {RecordOf("a", StringValue(3))}},
             e \in {{}, {<<NumberValue(1), StringValue(1)>>}, {<<NumberValue(1)>>}},
             d \in {{}, {NumberValue(1)}, {StringValue(3)}}}
    \cup {[PlainKeywords EXCEPT !.types = t, !.properties = p, !.items = i, !.names = names,
             !.required = required, !.minProperties = least] :
             t \in {{}, {"array"}, {"object"}}, p \in {"none", "junk", "object"},
             i \in {"none", "null", "empty", "one"}, names \in {{}, {"a", "b"}},
             required \in {{}, {"b", "c"}}, least \in {{}, {3}}}

-----------------------------------------------------------------------------
(* The whole path: a static route without a body.                             *)

MCPlainOp ==
    [kind |-> Unrouted, responses |-> <<Entry(200, <<Json>>, {})>>, callbacks |-> FALSE, rows |-> <<>>,
     security |-> {}, consumes |-> {Json, M("text", "*")}, bodyRequired |-> TRUE]
MCPlainRequest ==
    [accept |-> NoAccept, prefer |-> NoPrefer, query |-> NoQuery, head |-> FALSE,
     credentials |-> {}, body |-> GoodBody]
=============================================================================
