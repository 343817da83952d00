---------------------------- MODULE SchemaChecks ----------------------------
(***************************************************************************)
(* What validateSchema() of the faker package (packages/faker/src/         *)
(* validation.ts) does around the walk of SchemaGraph: it gives every      *)
(* schema of a document its names and resolves the references by them,     *)
(* and it judges what a schema says of itself: its generator with the      *)
(* arguments that allocate, its strings and its properties.                *)
(*                                                                         *)
(* A named schema is [ids, anchors, refs, edges]: its $id in a set, the    *)
(* texts of its $anchor and $dynamicAnchor, its references, and what its   *)
(* keys hold: an edge [key, to, isSchema] is to a schema, or to what no    *)
(* keyword of JSON Schema is.  A reference is [ok, doc, fragment]: whether *)
(* it parses, the document in a set, and <<>>, <<anchor>> or a pointer     *)
(* <<"/", key, ...>>.                                                      *)
(*                                                                         *)
(* A value is [kind, size, fields]: a number, a string of a length, a      *)
(* "list" or a "record" of fields [key, value].                            *)
(***************************************************************************)
EXTENDS Integers, Sequences, FiniteSets, SequencesExt, FiniteSetsExt

CONSTANTS
    NamedGraphs,     \* documents: functions from 1 .. n, of which 1 is the root
    Keywords,        \* what single schemas say of themselves
    FakerMethods,    \* the functions of the faker instance
    MaxString, MaxItems, MaxProperties

VARIABLES
    named,       \* the document
    frames,      \* the stack of [schema, scope] to index
    resources,   \* the names given: [uri, owner]
    scopes,      \* the scope of each indexed schema
    targets,     \* what the references resolve to, in a set: {} before
    own,         \* what one schema says of itself
    fate         \* "indexing", "resolving", "checking", or how it ended

checkVars == <<named, frames, resources, scopes, targets, own, fate>>

-----------------------------------------------------------------------------
(* Names. *)

RootUri == [doc |-> "root.json", fragment |-> <<>>]
Scope(base, root) == [base |-> base, root |-> root]

\* resolveUri(): in the base, which has the document of a relative reference.
Resolve(ref, base) ==
    [doc |-> IF ref.doc = {} THEN base ELSE CHOOSE d \in ref.doc : TRUE, fragment |-> ref.fragment]

\* An $id that parses.
Identifiers(schema, base) == {Resolve(id, base) : id \in {i \in named[schema].ids : i.ok}}

\* Mutant: a fragment is a resource as well.
OwnScopeAlways(schema, inherited) ==
    LET ids == Identifiers(schema, inherited.base)
    IN  IF ids = {} THEN inherited ELSE Scope((CHOOSE u \in ids : TRUE).doc, schema)
\* Without a fragment it begins a resource, to which "#" refers.
OwnScope(schema, inherited) ==
    LET ids == Identifiers(schema, inherited.base)
        uri == CHOOSE u \in ids : TRUE
    IN  IF ids = {} THEN inherited
        ELSE Scope(uri.doc, IF uri.fragment = <<>> THEN schema ELSE inherited.root)

NamesOf(schema, inherited) ==
    Identifiers(schema, inherited.base)
    \cup {[doc |-> OwnScope(schema, inherited).base, fragment |-> <<a>>] : a \in named[schema].anchors}

\* registerIdentifier()
IsTaken(uri, schema) == \E r \in resources : r.uri = uri /\ r.owner # schema

Contained(schema) == SelectSeq(named[schema].edges, LAMBDA e : e.isSchema)

\* createReferenceIndex(): the first place a schema is reached in counts.
IndexSchema ==
    LET top == Last(frames)
        scope == OwnScope(top.schema, top.scope)
        below == [i \in DOMAIN Contained(top.schema) |->
                     [schema |-> Contained(top.schema)[i].to, scope |-> scope]] IN
    /\ fate = "indexing" /\ frames # <<>>
    /\ \/ /\ top.schema \in DOMAIN scopes
          /\ frames' = Front(frames)
          /\ UNCHANGED <<resources, scopes, fate>>
       \/ /\ top.schema \notin DOMAIN scopes
          /\ \E uri \in NamesOf(top.schema, top.scope) : IsTaken(uri, top.schema)
          /\ fate' = "duplicate"
          /\ UNCHANGED <<frames, resources, scopes>>
       \/ /\ top.schema \notin DOMAIN scopes
          /\ \A uri \in NamesOf(top.schema, top.scope) : ~IsTaken(uri, top.schema)
          /\ resources' = resources \cup
                {[uri |-> u, owner |-> top.schema] : u \in NamesOf(top.schema, top.scope)}
          /\ scopes' = [s \in DOMAIN scopes \cup {top.schema} |->
                           IF s = top.schema THEN scope ELSE scopes[s]]
          /\ frames' = Front(frames) \o below
          /\ UNCHANGED fate
    /\ UNCHANGED <<named, targets, own>>

Indexed ==
    /\ fate = "indexing" /\ frames = <<>>
    /\ fate' = "resolving"
    /\ UNCHANGED <<named, frames, resources, scopes, targets, own>>

IsPointer(fragment) == fragment # <<>> /\ fragment[1] = "/"

\* resolveJsonPointer(), in a set.
AtPointer(schema, keys) ==
    FoldLeft(LAMBDA at, key : {e.to : e \in UNION {{f \in ToSet(named[s].edges) : f.key = key} : s \in at}},
             {schema}, keys)

OwnersOf(uri) == {r.owner : r \in {q \in resources : q.uri = uri}}

\* Mutant: a schema that was not indexed has no resource of its own.
ScopeOfAny(schema) == IF schema \in DOMAIN scopes THEN scopes[schema] ELSE Scope("root.json", schema)
\* A schema that only a pointer leads to is in the scope of the root.
ScopeOf(schema) == IF schema \in DOMAIN scopes THEN scopes[schema] ELSE scopes[1]

\* resolveIndexedReference(), in a set.
ResolveReference(schema, ref) ==
    LET scope == ScopeOf(schema)
        uri == Resolve(ref, scope.base)
    IN  IF ref.doc = {} /\ ref.fragment = <<>> THEN {scope.root}
        ELSE IF ref.doc = {} /\ IsPointer(ref.fragment) THEN AtPointer(scope.root, Tail(ref.fragment))
        ELSE IF ~ref.ok THEN {}
        ELSE IF OwnersOf(uri) # {} THEN OwnersOf(uri)
        ELSE IF IsPointer(uri.fragment)
        THEN UNION {AtPointer(r, Tail(uri.fragment)) : r \in OwnersOf([uri EXCEPT !.fragment = <<>>])}
        ELSE {}

ResolveAll ==
    /\ fate = "resolving"
    /\ targets' = {[s \in DOMAIN named |-> [i \in DOMAIN named[s].refs |-> ResolveReference(s, named[s].refs[i])]]}
    /\ fate' = "checking"
    /\ UNCHANGED <<named, frames, resources, scopes, own>>

-----------------------------------------------------------------------------
(* The arguments of a generator. *)

FieldOf(v, key) == {f.value : f \in {g \in ToSet(v.fields) : v.kind = "record" /\ g.key = key}}

\* Mutant: the upper bound is the one that counts.
MaximumOfMax(v) ==
    IF v.kind = "number" THEN v.size
    ELSE Max({0} \cup {b.size : b \in {c \in FieldOf(v, "max") : c.kind = "number"}})
\* maximumCardinality(): a number, or the larger of min and max.
MaximumCardinality(v) ==
    IF v.kind = "number" THEN v.size
    ELSE Max({0} \cup {b.size : b \in {c \in FieldOf(v, "min") \cup FieldOf(v, "max") :
                                          c.kind = "number"}})

Rule(at, direct, property, limit) ==
    [at |-> at, direct |-> direct, property |-> property, limit |-> limit]

\* FAKER_ALLOCATION_POLICIES: the argument, whether it is the size, and the
\* option that is.
AllocationRules(method) ==
    CASE method \in {"string.alpha", "string.alphanumeric", "string.numeric", "word.sample", "lorem.word"} ->
            {Rule(1, TRUE, {"length"}, "string_length")}
      [] method = "word.words" -> {Rule(1, TRUE, {"count"}, "string_length")}
      [] method \in {"string.sample", "string.nanoid", "string.symbol", "lorem.words", "lorem.sentence",
                     "lorem.sentences", "lorem.slug", "lorem.lines", "lorem.paragraph",
                     "lorem.paragraphs", "lorem.text"} -> {Rule(1, TRUE, {}, "string_length")}
      [] method = "string.fromCharacters" -> {Rule(2, TRUE, {}, "string_length")}
      [] method \in {"string.binary", "string.octal", "string.hexadecimal", "internet.password"} ->
            {Rule(1, FALSE, {"length"}, "string_length")}
      [] method \in {"helpers.uniqueArray", "helpers.arrayElements"} -> {Rule(2, TRUE, {}, "array_size")}
      [] method = "helpers.multiple" -> {Rule(2, FALSE, {"count"}, "array_size")}
      [] method = "date.betweens" -> {Rule(1, FALSE, {"count"}, "array_size")}
      [] OTHER -> {}

LimitOf(resource) == IF resource = "string_length" THEN MaxString ELSE MaxItems

\* What a rule counts in the arguments.
Counted(rule, args) ==
    LET given == {args[i] : i \in DOMAIN args \cap {rule.at}}
    IN  Max({0} \cup {MaximumCardinality(v) : v \in {w \in given : rule.direct}}
                \cup {MaximumCardinality(o) : o \in UNION {FieldOf(v, p) : v \in given, p \in rule.property}})

RECURSIVE StringsIn(_)
\* The lengths of the strings in a value.
StringsIn(v) ==
    IF v.kind = "string" THEN {v.size} ELSE UNION {StringsIn(f.value) : f \in ToSet(v.fields)}

\* validateFakerAllocationArguments(): the limits that are exceeded, first the
\* rules of the method.
AllocationLimits(method, args) ==
    LET ruled == {r \in AllocationRules(method) : Counted(r, args) > LimitOf(r.limit)}
        long == {n \in UNION {StringsIn(args[i]) : i \in DOMAIN args} : n > MaxString}
    IN  IF ruled # {} THEN {r.limit : r \in ruled} ELSE IF long # {} THEN {"string_length"} ELSE {}

\* validateFakerMethod(): two parts or more that lead to a function.
IsMethod(name) == name \in FakerMethods

\* validateFakerConfig(): "good", "invalid", or the limit.
FakerVerdict(config) ==
    LET only == config.keys[1]
    IN  CASE config.kind = "method" -> IF IsMethod(config.method) THEN "good" ELSE "invalid"
          [] config.kind = "other" -> "invalid"
          [] config.kind = "object" /\ (Len(config.keys) # 1 \/ ~only.enumerable \/ ~only.isList) -> "invalid"
          [] OTHER ->
                IF ~IsMethod(only.method) THEN "invalid"
                ELSE IF AllocationLimits(only.method, only.args) = {} THEN "good"
                ELSE CHOOSE l \in AllocationLimits(only.method, only.args) : TRUE

-----------------------------------------------------------------------------
(* What a schema says of itself: [types, isList, properties, items, faker,    *)
(* minLength, maxLength, constant, enum, default, template, names, required,  *)
(* minProperties, extras], the optional ones in sets.                         *)

ValidTypes == {"object", "array", "string", "number", "integer", "boolean", "null"}

\* validateNode()
IsMalformed(s) ==
    \/ ~s.isList /\ ~(s.types \subseteq ValidTypes)
    \/ s.properties = "junk"
    \/ ~s.isList /\ s.types = {"array"} /\ s.items \in {"none", "null", "empty"}

\* Mutant: a list of types is not looked into.
CanGenerateSingleString(s) == s.types = {} \/ s.types = {"string"}
\* The first of type, const, enum and default that is there decides.
CanGenerateString(s) ==
    LET IsString(v) == v.kind = "string"
    IN  IF s.types # {} THEN "string" \in s.types
        ELSE IF s.constant # {} THEN \E v \in s.constant : IsString(v)
        ELSE IF s.enum # {} THEN \E e \in s.enum : \E i \in DOMAIN e : IsString(e[i])
        ELSE IF s.default # {} THEN \E v \in s.default : IsString(v)
        ELSE TRUE

FixedValues(s) == s.constant \cup s.default \cup s.template \cup UNION {ToSet(e) : e \in s.enum}

DeclaredLengths(s) == IF CanGenerateString(s) THEN s.minLength \cup s.maxLength ELSE {}
StringLengths(s) == DeclaredLengths(s) \cup UNION {StringsIn(v) : v \in FixedValues(s)}

\* isObjectLike()
IsObjectSchema(s) ==
    IF s.types # {} THEN "object" \in s.types
    ELSE s.properties # "none" \/ s.required # {} \/ s.extras \/ s.minProperties # {}

\* recordObjectLimit()
PropertyCount(s) ==
    Max(s.minProperties \cup {Cardinality(s.names) + Cardinality(s.required \ s.names)})

\* validateNode(), and the limits that are thrown once the walk is over.
OwnVerdict(s) ==
    LET faker == {FakerVerdict(c) : c \in s.faker} \ {"good"}
    IN  IF IsMalformed(s) THEN "invalid"
        ELSE IF faker # {} THEN CHOOSE v \in faker : TRUE
        ELSE IF IsObjectSchema(s) /\ PropertyCount(s) > MaxProperties THEN "object_properties"
        ELSE IF \E n \in StringLengths(s) : n > MaxString THEN "string_length"
        ELSE "good"

CheckOwn ==
    /\ fate = "checking"
    /\ fate' = OwnVerdict(own)
    /\ UNCHANGED <<named, frames, resources, scopes, targets, own>>

CheckFrom(document, schema) ==
    /\ named = document /\ own = schema
    /\ frames = <<[schema |-> 1, scope |-> Scope(RootUri.doc, 1)]>>
    /\ resources = {[uri |-> RootUri, owner |-> 1]} /\ scopes = <<>> /\ targets = {}
    /\ fate = "indexing"

CheckNext == IndexSchema \/ Indexed \/ ResolveAll \/ CheckOwn

IsChecked == fate \notin {"indexing", "resolving", "checking"}

-----------------------------------------------------------------------------
(* Properties. *)

\* The places of schemas in a document of up to n: the ways down to them.
PlacesIn[n \in Nat] ==
    IF n <= 1 THEN {<<1>>}
    ELSE PlacesIn[n - 1] \cup
         UNION {{Append(p, e.to) : e \in {f \in ToSet(Contained(Last(p))) : f.to \notin ToSet(p)}} :
                   p \in PlacesIn[n - 1]}

\* The nearest schema on the way that has such an $id; 0 if there is none.
Nearest(place, Has(_)) ==
    Max({0} \cup {i \in DOMAIN place : \E id \in named[place[i]].ids : id.ok /\ Has(id)})

BaseAt(place) ==
    LET i == Nearest(place, LAMBDA id : id.doc # {})
    IN  IF i = 0 THEN "root.json" ELSE CHOOSE d \in UNION {id.doc : id \in named[place[i]].ids} : TRUE
ResourceAt(place) ==
    LET i == Nearest(place, LAMBDA id : id.fragment = <<>>) IN IF i = 0 THEN 1 ELSE place[i]
CanonicalAt(place) ==
    (IF place = <<1>> THEN {RootUri} ELSE {}) \cup
    {[doc |-> BaseAt(place), fragment |-> f] :
        f \in {id.fragment : id \in {i \in named[Last(place)].ids : i.ok}}
              \cup {<<a>> : a \in named[Last(place)].anchors}}

\* What a reference means in a place.
Meaning(places, place, ref) ==
    LET doc == IF ref.doc = {} THEN BaseAt(place) ELSE CHOOSE d \in ref.doc : TRUE
        Bearers(fragment) ==
            {Last(q) : q \in {p \in places : [doc |-> doc, fragment |-> fragment] \in CanonicalAt(p)}}
        roots == IF ref.doc = {} THEN {ResourceAt(place)} ELSE Bearers(<<>>)
    IN  IF ~ref.ok THEN {}
        ELSE IF ref.fragment = <<>> THEN roots
        ELSE IF IsPointer(ref.fragment) THEN UNION {AtPointer(r, Tail(ref.fragment)) : r \in roots}
        ELSE Bearers(ref.fragment)

\* A reference leads to the schema it means: "#" and pointers start at the
\* nearest $id above, names are relative to it; a document is refused exactly
\* if two schemas have one name.  A schema that is shared between resources has
\* the meaning of one of its places.
NamesAreResolved ==
    LET places == PlacesIn[Cardinality(DOMAIN named)]
        PlacesOf(s) == {p \in places : Last(p) = s}
        isTree == \A s \in DOMAIN named : Cardinality(PlacesOf(s)) <= 1
        clash == \E p, q \in places : Last(p) # Last(q) /\ CanonicalAt(p) \cap CanonicalAt(q) # {}
        Means(s, ref) == UNION {Meaning(places, p, ref) :
                                   p \in IF PlacesOf(s) = {} THEN {<<1>>} ELSE PlacesOf(s)}
    IN  /\ fate = "duplicate" => clash
        /\ \A t \in targets :
              /\ isTree => ~clash
              /\ \A s \in DOMAIN named : \A i \in DOMAIN named[s].refs :
                    IF isTree THEN t[s][i] = Means(s, named[s].refs[i])
                    ELSE t[s][i] \subseteq Means(s, named[s].refs[i])

RECURSIVE NumbersBelow(_, _)
\* The numbers in a value, below some keys.
NumbersBelow(v, keys) ==
    (IF v.kind = "number" THEN {v.size} ELSE {})
    \cup UNION {NumbersBelow(w, keys) : w \in UNION {FieldOf(v, k) : k \in keys}}

\* The strings that a schema takes: one without a type that has a default is
\* generated from it (jsf-config.ts 503).
TakesStrings(s) ==
    /\ s.types = {} \/ "string" \in s.types
    /\ \A v \in s.constant : v.kind = "string"
    /\ \A e \in s.enum : \E i \in DOMAIN e : e[i].kind = "string"
    /\ \A v \in s.default : s.types = {} => v.kind = "string"

\* A schema that passes makes no generator allocate more than the limit,
\* whether the size is an argument, an option or a bound of either, and has no
\* string over the limit, fixed or declared for a string that it may take.
SizesAreBounded ==
    fate = "good" =>
        /\ \A c \in {d \in own.faker : d.kind = "object"} :
              LET args == c.keys[1].args IN
              /\ \A r \in AllocationRules(c.keys[1].method) : r.at \in DOMAIN args =>
                    \A n \in (IF r.direct THEN NumbersBelow(args[r.at], {"min", "max"}) ELSE {})
                             \cup UNION {NumbersBelow(o, {"min", "max"}) :
                                            o \in UNION {FieldOf(args[r.at], p) : p \in r.property}} :
                       n <= LimitOf(r.limit)
              /\ \A i \in DOMAIN args : \A n \in StringsIn(args[i]) : n <= MaxString
        /\ \A v \in FixedValues(own) : \A n \in StringsIn(v) : n <= MaxString
        /\ TakesStrings(own) => \A n \in own.minLength \cup own.maxLength : n <= MaxString
=============================================================================
