------------------------------- MODULE Ingress -------------------------------
(***************************************************************************)
(* How a request becomes one of the mock, on each transport: the fetch     *)
(* interceptor (packages/core/src/interceptor.ts), a Node.js server        *)
(* (http-helpers.ts), Express (packages/express/src/index.ts) and Angular  *)
(* (packages/angular/src/index.ts); and how core finds its route           *)
(* (constants.ts, builder.ts, route-matcher.ts).                           *)
(*                                                                         *)
(* A path is a sequence of segments, those of letters [char, as]: "raw",   *)
(* or percent-encoded in "lower" or "upper" hexadecimal digits.  A path    *)
(* that ends with a slash ends with an empty segment, the root is one.     *)
(* Query and fragment are cut off.                                         *)
(***************************************************************************)
EXTENDS Naturals, Sequences, FiniteSets, SequencesExt, FiniteSetsExt

CONSTANTS
    Plain,           \* the characters that a URL carries as they are, the one that
                     \* stands for a parameter among them
    Unsafe           \* those that it carries encoded

ASSUME CharactersAssumption ==
    /\ ":id" \in Plain /\ Plain \cap Unsafe = {}
    /\ {"/", "%"} \cap (Plain \cup Unsafe) = {}

Letter(char, as) == [char |-> char, as |-> as]

\* What a path is of.  A plain character may be encoded too, but is another one to
\* core then, which compares spellings.
Letters ==
    {Letter(char, "raw") : char \in Plain \cup Unsafe}
    \cup {Letter(char, as) : char \in Unsafe \cup {"/", "%"}, as \in {"lower", "upper"}}

\* A percent sign that encodes nothing.
LonePercent == Letter("%", "raw")

Root == << <<>> >>

-----------------------------------------------------------------------------
(* Paths. *)

MapLetters(path, Of(_)) ==
    [i \in DOMAIN path |-> [j \in DOMAIN path[i] |-> Of(path[i][j])]]

\* Mutant: what is encoded already is left as it is.
CanonicalRawOnly(path) ==
    MapLetters(path, LAMBDA l : IF l.as = "raw" /\ l.char \in Unsafe
                                THEN Letter(l.char, "upper") ELSE l)
\* canonicalizePath()
Canonical(path) ==
    MapLetters(path, LAMBDA l : IF l.as = "lower" \/ (l.as = "raw" /\ l.char \in Unsafe)
                                THEN Letter(l.char, "upper") ELSE l)

\* new URL(...).pathname
UrlPath(path) ==
    MapLetters(path, LAMBDA l : IF l.as = "raw" /\ l.char \in Unsafe
                                THEN Letter(l.char, "upper") ELSE l)

\* normalizePath()
WithoutSlash(path) ==
    IF Len(path) > 1 /\ Last(path) = <<>> THEN Front(path) ELSE path

\* decodePathSegment(): decodeURIComponent() throws on a malformed segment.
Decoded(segment) ==
    IF LonePercent \in ToSet(segment) THEN segment
    ELSE [j \in DOMAIN segment |-> Letter(segment[j].char, "raw")]

\* The path of a base, without the slash it ends with.
BasePath(path) == IF path # <<>> /\ Last(path) = <<>> THEN Front(path) ELSE path

\* The filter of baseUrl; both compare whole segments.
IsOutside(base, origin, path) ==
    \/ base.origin # "any" /\ base.origin # origin
    \/ ~IsPrefix(BasePath(base.path), path)

OrRoot(path) == IF path = <<>> THEN Root ELSE path

-----------------------------------------------------------------------------
(* What is read of a message [input, origin, path, query, params, headers, *)
(* ctype, payload]: params are those Angular keeps apart from the URL.     *)

Keys(pairs) == {pairs[i][1] : i \in DOMAIN pairs}
At(pairs, key) == {i \in DOMAIN pairs : pairs[i][1] = key}

\* Object.fromEntries(searchParams)
LastWins(pairs) == [key \in Keys(pairs) |-> pairs[Max(At(pairs, key))][2]]
\* defaultTransformQuery(), extractQueryParams()
FirstWins(pairs) == [key \in Keys(pairs) |-> pairs[Min(At(pairs, key))][2]]

\* Mutant: of the values of a name, in any spelling, the last is kept.
LastHeaders(headers) ==
    [name \in {headers[i].name : i \in DOMAIN headers} |->
        <<headers[Max({i \in DOMAIN headers : headers[i].name = name})].value>>]
\* Names are folded to lower case, and the values of a name joined.
ReadHeaders(headers) ==
    [name \in {headers[i].name : i \in DOMAIN headers} |->
        FlattenSeq([i \in DOMAIN headers |->
                       IF headers[i].name = name THEN <<headers[i].value>> ELSE <<>>])]

\* stampBodyContentType(): the type that the Fetch standard gives a body.
Stamped(m) ==
    IF m.ctype # "" THEN m.ctype
    ELSE IF m.payload \in {"empty", "json", "malformed", "words"} THEN "text"
    ELSE IF m.payload = "pairs" THEN "form" ELSE ""

\* extractBody(), in a set: multipart that does not parse is an error.
FetchBody(m) ==
    CASE m.payload = "none"      -> {"undefined"}
      [] Stamped(m) = "json" /\ m.payload # "none" ->
             {IF m.payload = "json" THEN "parsed" ELSE "text"}
      [] Stamped(m) = "form" /\ m.payload # "none" -> {"pairs"}
      [] Stamped(m) = "text" /\ m.payload # "none" -> {"text"}
      [] Stamped(m) = "multipart" /\ m.payload # "none" ->
             {body \in {"form data"} : m.payload = "parts"}
      [] Stamped(m) = ""     /\ m.payload # "none" -> {"bytes"}

\* collectBody(), in a set: malformed JSON is refused.
NodeBody(m) ==
    IF m.payload \in {"none", "empty"} THEN {"undefined"}
    ELSE IF m.ctype # "json" THEN {"text"}
    ELSE {body \in {"parsed"} : m.payload = "json"}

\* The value of the application (Angular), or of its body parsers (Express).
ParsedBody(m, none) ==
    CASE m.payload = "none"  -> none
      [] m.payload = "json"  -> "parsed"
      [] m.payload = "pairs" -> "pairs"
      [] m.payload = "octets" -> "bytes"
      [] m.payload = "parts" -> "form data"
      [] OTHER -> "text"

\* What an adapter made of a message: {} when the message is an error.
Passed == [handled |-> FALSE, path |-> Root, query |-> <<>>, headers |-> <<>>,
           body |-> "undefined"]
Read(path, query, m, bodies) ==
    {[handled |-> TRUE, path |-> path, query |-> query,
      headers |-> ReadHeaders(m.headers), body |-> body] : body \in bodies}

\* The interceptor compares the canonical path, and does not strip the base.
FetchReads(m, base) ==
    LET path == Canonical(UrlPath(m.path)) IN
    IF IsOutside([base EXCEPT !.path = Canonical(@)], m.origin, path) THEN {Passed}
    ELSE Read(path, LastWins(m.query \o m.params), m, FetchBody(m))

NodeReads(m) ==
    Read(UrlPath(m.path), LastWins(m.query \o m.params), m, NodeBody(m))

ExpressReads(m) ==
    Read(UrlPath(m.path), FirstWins(m.query \o m.params), m,
         {ParsedBody(m, "undefined")})

\* extractPathname() leaves a relative url as it is, so that is how the base
\* is compared; it is stripped.
AngularReads(m, base) ==
    LET path == IF m.origin = "relative" THEN m.path ELSE UrlPath(m.path) IN
    IF IsOutside(base, m.origin, path) THEN {Passed}
    ELSE Read(OrRoot(SubSeq(path, Len(BasePath(base.path)) + 1, Len(path))),
              FirstWins(m.params \o m.query), m, {ParsedBody(m, "null")})

-----------------------------------------------------------------------------
(* The lookup of core.  A route is a path in which Param stands for a      *)
(* segment.                                                                *)

Param == <<Letter(":id", "raw")>>

RouteKeyPath(key) == WithoutSlash(Canonical(key))

IsStatic(route) == Param \notin ToSet(route)

MatchesPath(route, path) ==
    /\ Len(route) = Len(path)
    /\ \A i \in DOMAIN route : IF route[i] = Param THEN path[i] # <<>>
                                                   ELSE path[i] = route[i]

\* The path below the namespace, in a set.
Namespaced(namespace, path) ==
    LET prefix == BasePath(Canonical(namespace))
        slash == namespace # <<>> /\ Last(namespace) = <<>>
    IN  IF namespace \in {<<>>, Root} THEN {path}
        ELSE {OrRoot(rest) :
                 rest \in {r \in {SubSeq(path, Len(prefix) + 1, Len(path))} :
                              IsPrefix(prefix, path) /\ (slash => r # <<>>)}}

\* findRoute() and extractParams(): the route and the values it captures, {}
\* for a miss.
FindIn(keys, path) ==
    LET table == [i \in DOMAIN keys |-> RouteKeyPath(keys[i])]
        fits == {i \in DOMAIN keys : MatchesPath(table[i], path)}
        statics == {i \in fits : IsStatic(table[i])}
        chosen == IF statics # {} THEN statics ELSE fits
    IN  {[route |-> i,
          params |-> {<<k, Decoded(path[k])>> :
                         k \in {n \in DOMAIN path : table[i][n] = Param}}] :
            i \in {Min(s) : s \in {chosen} \ {{}}}}

LookUp(keys, namespace, path) ==
    UNION {FindIn(keys, WithoutSlash(below)) :
              below \in Namespaced(namespace, Canonical(path))}
=============================================================================
