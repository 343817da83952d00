----------------------------- MODULE ApiSurface -----------------------------
(***************************************************************************)
(* From the paths of an OpenAPI document to the route a request reaches:   *)
(* the paths as Express templates (packages/openapi/src/parser.ts), the    *)
(* CRUD resources found among them (crud-detector.ts), the routes that     *)
(* install() registers (plugin.ts, crud-registration.ts), and the table of *)
(* core that keeps and searches them (packages/core/src/builder.ts,        *)
(* parser.ts, route-matcher.ts).                                           *)
(*                                                                         *)
(* A segment of a path is a sequence of tokens: <<"pets">>, <<"{", "id",   *)
(* "}">>, <<"{", "id", "}", ".json">>.  A segment has one parameter at     *)
(* most.                                                                   *)
(***************************************************************************)
EXTENDS Naturals, Sequences, FiniteSets, SequencesExt, FiniteSetsExt

CONSTANTS
    Surfaces,     \* the documents: sequences of operations [method, path]
    NameTokens,   \* the tokens a parameter name of core is made of
    Captured      \* what stands for a parameter in a request

\* A brace encloses a name of core, and no name or literal runs on after it.
IsSegment(s) ==
    /\ s \in Seq(ToSet(s)) /\ s # <<>> /\ ":" \notin ToSet(s)
    /\ {"{", "}"} \cap ToSet(s) # {} =>
          \E i, j \in DOMAIN s :
             /\ i + 1 < j /\ s[i] = "{" /\ s[j] = "}"
             /\ \A k \in DOMAIN s :
                   /\ k \notin {i, j} => s[k] \notin {"{", "}"}
                   /\ i < k /\ k < j => s[k] \in NameTokens
                   /\ k = j + 1 => s[k] \notin NameTokens

\* Where a token is first, or 0.
Place(token, segment) == SelectInSeq(segment, LAMBDA t : t = token)

\* What a segment has before, between and behind its braces.
Declared(segment) ==
    LET opening == Place("{", segment)
        closing == Place("}", segment)
    IN  IF opening = 0 THEN [pre |-> segment, name |-> <<>>, post |-> <<>>]
        ELSE [pre |-> SubSeq(segment, 1, opening - 1),
              name |-> SubSeq(segment, opening + 1, closing - 1),
              post |-> SubSeq(segment, closing + 1, Len(segment))]

\* A path names each parameter once.
IsSurface(d) ==
    /\ d \in Seq(ToSet(d))
    /\ \A o \in ToSet(d) :
          LET segments == o.path.segments IN
          /\ o.path = [segments |-> segments, slash |-> o.path.slash]
          /\ segments \in Seq(ToSet(segments)) /\ \A s \in ToSet(segments) : IsSegment(s)
          /\ \A i, j \in DOMAIN segments :
                Declared(segments[i]).name = Declared(segments[j]).name =>
                   i = j \/ Declared(segments[i]).name = <<>>

ASSUME SurfacesAssumption ==
    /\ {"{", "}", ":"} \cap NameTokens = {}
    /\ \A d \in Surfaces : IsSurface(d)
    /\ \A value \in Captured : value \in Seq(ToSet(value))

VARIABLES
    document,     \* the operations, in the order of the document
    stage,        \* "load", "ready", "asked", "found"
    routes,       \* the routes of the instance; Precedes is their order
    asked,        \* the request [method, url], in a set
    found         \* its route, and what the generator reads: {} for a 404

surface == <<document, stage, routes, asked, found>>

LoadFrom(operations) ==
    /\ document = operations /\ stage = "load"
    /\ routes = {} /\ asked = {} /\ found = {}

LoadInit == \E d \in Surfaces : LoadFrom(d)

-----------------------------------------------------------------------------
(* Paths.  [segments, slash]: whether it ends with a slash. *)

\* convertPathTemplate(): {id} becomes :id.
ConvertPathTemplate(path) ==
    LET Convert(d) == IF d.name = <<>> THEN d.pre ELSE d.pre \o <<":">> \o d.name \o d.post
    IN  [path EXCEPT !.segments = [i \in DOMAIN @ |-> Convert(Declared(@[i]))]]

IsParam(segment) == Head(segment) = ":"

\* getCollectionPath(), in a set: the root has none.
CollectionPath(path) ==
    IF path.segments = <<>> THEN {}
    ELSE {[segments |-> IF IsParam(Last(path.segments)) THEN Front(path.segments)
                                                        ELSE path.segments,
           slash |-> FALSE]}

\* parentParamNames(), by their places: all that follows the colon.
ParentParamNames(base) ==
    [k \in {i \in DOMAIN base.segments : IsParam(base.segments[i])} |-> Tail(base.segments[k])]

-----------------------------------------------------------------------------
(* The resources among the paths. *)

Path(i) == ConvertPathTemplate(document[i].path)

Group(base) == {i \in DOMAIN document : CollectionPath(Path(i)) = {base}}
Bases == UNION {CollectionPath(Path(i)) : i \in DOMAIN document}

\* The first item path settles the parameter of the resource.
ItemPath(base) ==
    LET items == {i \in Group(base) : Len(Path(i).segments) > Len(base.segments)}
    IN  {Path(Min(s)) : s \in {items} \ {{}}}

\* Mutant: any item path is one of the resource.
RoleOfAnyItem(base, i) ==
    CASE Path(i) = base /\ document[i].method = "GET"  -> "list"
      [] Path(i) = base /\ document[i].method = "POST" -> "create"
      [] Path(i) # base /\ document[i].method = "GET"  -> "read"
      [] Path(i) # base /\ document[i].method \in {"PUT", "PATCH"} -> "update"
      [] Path(i) # base /\ document[i].method = "DELETE" -> "delete"
      [] OTHER -> "static"

\* What the operation is to the resource; "static" for one left over.
Role(base, i) ==
    CASE Path(i) = base /\ document[i].method = "GET"  -> "list"
      [] Path(i) = base /\ document[i].method = "POST" -> "create"
      [] {Path(i)} = ItemPath(base) /\ document[i].method = "GET" -> "read"
      [] {Path(i)} = ItemPath(base) /\ document[i].method \in {"PUT", "PATCH"} -> "update"
      [] {Path(i)} = ItemPath(base) /\ document[i].method = "DELETE" -> "delete"
      [] OTHER -> "static"

\* Items are read or written, or there is a list to create in.
IsResource(base) ==
    LET roles == {Role(base, i) : i \in Group(base)}
    IN  roles \cap {"read", "update", "delete"} # {} \/ {"list", "create"} \subseteq roles

\* The generator of an operation: its kind, the parameter it takes for the
\* identifier and those that choose the collection.
Static(i) == [at |-> i, kind |-> "static", id |-> {}, scope |-> <<>>]
Crud(base, i) ==
    [at |-> i, kind |-> Role(base, i),
     id |-> IF Role(base, i) \in {"list", "create"} THEN {}
            ELSE {Tail(Last(path.segments)) : path \in ItemPath(base)},
     scope |-> ParentParamNames(base)]

Serves(base, i) == IsResource(base) /\ Role(base, i) # "static"

\* Mutant: of a group that is no resource only what no role fits is left over.
LeftoversWithoutRole(base) == {i \in Group(base) : Role(base, i) = "static"}
Leftovers(base) == {i \in Group(base) : ~Serves(base, i)}

Rootless == {i \in DOMAIN document : CollectionPath(Path(i)) = {}}

Registrations ==
    (UNION {{Crud(base, i) : i \in {g \in Group(base) : Serves(base, g)}} : base \in Bases})
    \cup {Static(i) : i \in Rootless \cup UNION {Leftovers(base) : base \in Bases}}

\* install(): the resources, then what has no collection, then what is left
\* over.  Collections come in the order of their first path.
Precedes(a, b) ==
    LET Turn(r) == IF r.kind # "static" THEN 1 ELSE IF r.at \in Rootless THEN 2 ELSE 3
        Opener(r) == Min({i \in DOMAIN document :
                             CollectionPath(Path(i)) = CollectionPath(Path(r.at))})
    IN  \/ Turn(a) < Turn(b)
        \/ Turn(a) = Turn(b) /\ Opener(a) < Opener(b)
        \/ Turn(a) = Turn(b) /\ Opener(a) = Opener(b) /\ a.at < b.at

-----------------------------------------------------------------------------
(* The table of routes. *)

\* parseRouteKey(): a name ends at the first token that cannot be in one, and
\* what is left of the segment is literal.
Compile(segment) ==
    LET marks == {i \in 1 .. Len(segment) - 1 :
                     segment[i] = ":" /\ segment[i + 1] \in NameTokens}
        Ends(at) == {e \in at + 1 .. Len(segment) :
                        \A k \in at + 1 .. e : segment[k] \in NameTokens}
        Split(at, end) == [pre |-> SubSeq(segment, 1, at - 1),
                           name |-> SubSeq(segment, at + 1, end),
                           post |-> SubSeq(segment, end + 1, Len(segment))]
    IN  IF marks = {} THEN [pre |-> segment, name |-> <<>>, post |-> <<>>]
        ELSE Split(Min(marks), Max(Ends(Min(marks))))

Matches(pattern, text) ==
    IF pattern.name = <<>> THEN text = pattern.pre
    ELSE /\ Len(text) > Len(pattern.pre) + Len(pattern.post)
         /\ IsPrefix(pattern.pre, text) /\ IsSuffix(pattern.post, text)

MatchesAll(patterns, url) ==
    /\ Len(patterns) = Len(url)
    /\ \A i \in DOMAIN url : Matches(patterns[i], url[i])

HasParams(patterns) == \E i \in DOMAIN patterns : patterns[i].name # <<>>

RouteOf(registration) ==
    LET segments == Path(registration.at).segments
    IN  [key |-> <<document[registration.at].method, segments>>,
         method |-> document[registration.at].method,
         pattern |-> [i \in DOMAIN segments |-> Compile(segments[i])],
         serves |-> registration]

\* defineRoute(): the first registration of a path wins.
Table ==
    {RouteOf(a) : a \in {b \in Registrations :
        \A c \in Registrations : RouteOf(c).key = RouteOf(b).key => ~Precedes(c, b)}}

Install ==
    /\ stage = "load" /\ stage' = "ready"
    /\ routes' = Table
    /\ UNCHANGED <<document, asked, found>>

-----------------------------------------------------------------------------
(* A request. *)

Hits(method, url) == {r \in routes : r.method = method /\ MatchesAll(r.pattern, url)}

\* Mutant: the table is searched in one pass.
FindRouteInOrder(method, url) == Hits(method, url)
\* Routes without parameters come first.
FindRoute(method, url) ==
    LET statics == {r \in Hits(method, url) : ~HasParams(r.pattern)}
    IN  IF statics # {} THEN statics ELSE Hits(method, url)

\* extractParams(): the value of a name, in a set; of a name that is there
\* twice the last one.
ParamValue(route, url, name) ==
    LET named == {k \in DOMAIN url : name # <<>> /\ route.pattern[k].name = name}
        Capture(i) == SubSeq(url[i], Len(route.pattern[i].pre) + 1,
                           Len(url[i]) - Len(route.pattern[i].post))
    IN  {Capture(i) : i \in {k \in named : \A j \in named : j <= k}}

\* What the generator of the route reads of the request.
Reached(route, url) ==
    [at |-> route.serves.at, kind |-> route.serves.kind,
     id |-> UNION {ParamValue(route, url, name) : name \in route.serves.id},
     scope |-> [k \in DOMAIN route.serves.scope |->
                   ParamValue(route, url, route.serves.scope[k])]]

\* A path of the document with a value in the place of each parameter.
Urls(path) ==
    LET Fill(d, value) == IF d.name = <<>> THEN d.pre ELSE d.pre \o value \o d.post
    IN  {[i \in DOMAIN path.segments |-> Fill(Declared(path.segments[i]), values[i])] :
            values \in [DOMAIN path.segments -> Captured]}

Ask ==
    /\ stage = "ready" /\ stage' = "asked"
    /\ \E i, j \in DOMAIN document : \E url \in Urls(document[i].path) :
          asked' = {[method |-> document[j].method, url |-> url]}
    /\ UNCHANGED <<document, routes, found>>

\* Of several the first.
Found(r) ==
    LET hits == FindRoute(r.method, r.url)
    IN  {Reached(h, r.url) : h \in {g \in hits : \A o \in hits : ~Precedes(o.serves, g.serves)}}

\* handle(), up to the route.
Match ==
    /\ stage = "asked" /\ stage' = "found"
    /\ \E r \in asked : found' = Found(r)
    /\ UNCHANGED <<document, routes, asked>>

-----------------------------------------------------------------------------
(* Properties. *)

\* What the document itself says of a path: the parameters between the braces.
Template(i) ==
    [k \in DOMAIN document[i].path.segments |-> Declared(document[i].path.segments[k])]

WholeSegments(i) ==
    \A k \in DOMAIN Template(i) :
        Template(i)[k].name # <<>> => Template(i)[k].pre = <<>> /\ Template(i)[k].post = <<>>

ParamsOf(i) == {k \in DOMAIN Template(i) : Template(i)[k].name # <<>>}

\* The operations that accept a request, and those without parameters.
Accepting(r) ==
    {i \in DOMAIN document : document[i].method = r.method /\ MatchesAll(Template(i), r.url)}
Concrete(r) == {i \in Accepting(r) : ~HasParams(Template(i))}

\* The generator reads the values that its own path has in the request.
ReadsItsOwn(r, f) ==
    LET isItem == f.kind \notin {"list", "create"}
        parents == ParamsOf(f.at) \ (IF isItem THEN {Len(r.url)} ELSE {}) IN
    /\ isItem => f.id = {Last(r.url)}
    /\ f.scope = [k \in parents |-> {r.url[k]}]

\* No operation is lost between the document and the table: a request that the
\* document declares is served, by an operation whose path accepts it and by one
\* without parameters if there is one, whatever the order of the document and
\* however its paths are grouped into resources; one that it does not declare is
\* not.  "both are registered as static routes rather than silently swallowed"
\* (crud-detector.ts 98-100).  And a generator of a resource reads from the
\* request the identifier of the row and, of each parent, the identifier that
\* its path has there: "an aliased param (PUT /pets/:id next to GET
\* /pets/:petId) would 404 forever" (crud-detector.ts 206-208); this is stated
\* for parameters that fill their segment.
DeclaredIsServed ==
    stage = "found" => \A r \in asked :
        /\ found = {} <=> Accepting(r) = {}
        /\ \A f \in found :
              /\ f.at \in Accepting(r)
              /\ Concrete(r) # {} => f.at \in Concrete(r)
              /\ f.kind # "static" /\ WholeSegments(f.at) => ReadsItsOwn(r, f)
=============================================================================
