---------------------------- MODULE FakerSchemas ----------------------------
(***************************************************************************)
(* What the faker package hands to json-schema-faker for a schema: the     *)
(* generators that the names of its properties suggest                     *)
(* (packages/faker/src/schema-enhancement.ts, field-name-matcher.ts) and   *)
(* the keywords and tuples as that library takes them (jsf-config.ts).     *)
(*                                                                         *)
(* A schema is a graph of nodes, the first being the root: its types, how  *)
(* it says that it is nullable ("no", "type", "anyOf"), what else it has   *)
(* (keys: "pattern", "enum", "const", "length", "bounds", "faker", "$ref", *)
(* and "unknown" for what is no keyword), its format, and its edges        *)
(* [role, name, to]; the role "unknown" is below what is no keyword.  A    *)
(* name is a sequence of tokens, a token one of letters.                   *)
(***************************************************************************)
EXTENDS Naturals, Sequences, FiniteSets, SequencesExt, FiniteSetsExt

CONSTANTS
    FakerGraphs,    \* the schemas
    FieldMappings,  \* the table, a sequence of field mappings
    Generatable     \* the formats that json-schema-faker knows

VARIABLES
    nodeOf,       \* the schema
    pending,      \* the stack of [node, context] to enhance
    cache,        \* what was enhanced: node and context -> schema
    handed        \* what json-schema-faker is given, in a set

fakerVars == <<nodeOf, pending, cache, handed>>

Root == <<>>      \* the context of all that is no property
Task(node, context) == [node |-> node, context |-> context]

-----------------------------------------------------------------------------
(* The table: each mapping is of one of these kinds, which say what type it    *)
(* is for, the format it gives and the score it asks for, in hundredths.       *)

FieldMapping(type, minScore, format, keywords) ==
    [keywords |-> keywords, type |-> type, minScore |-> minScore, format |-> format]
MailMapping(keywords) == FieldMapping({"string"}, 60, {"email"}, keywords)
NameMapping(minScore, keywords) == FieldMapping({"string"}, minScore, {}, keywords)
PriceMapping(keywords) == FieldMapping({}, 60, {}, keywords)
DateMapping(keywords) == FieldMapping({"string"}, 60, {"date-time"}, keywords)
NumberMapping(minScore, keywords) == FieldMapping({"number"}, minScore, {}, keywords)
FlagMapping(minScore, keywords) == FieldMapping({"boolean"}, minScore, {}, keywords)
TopicMapping(keywords) == NameMapping(90, keywords)

IsMapping(m) ==
    /\ m.keywords # <<>>
    /\ \/ m \in {MailMapping(m.keywords), DateMapping(m.keywords), PriceMapping(m.keywords),
                  TopicMapping(m.keywords)}
       \/ \E minScore \in {60, 80} :
             m \in {NameMapping(minScore, m.keywords), FlagMapping(minScore, m.keywords)}
       \/ \E minScore \in {60, 80, 90} : m = NumberMapping(minScore, m.keywords)

\* The table has no other: a format is given by mappings for strings only.
ASSUME MappingsAssumption ==
    /\ FieldMappings \in Seq([keywords : Seq(Seq(Seq(STRING))), type : SUBSET STRING,
                              minScore : Nat, format : SUBSET STRING])
    /\ \A i \in DOMAIN FieldMappings : IsMapping(FieldMappings[i])

-----------------------------------------------------------------------------
(* The mapping for a name. *)

Joined(tokens) == FlattenSeq(tokens)
Holds(word, part) ==
    \E i \in 0 .. Len(word) - Len(part) : SubSeq(word, i + 1, i + Len(part)) = part

\* scoreTokenizedMatch() of one keyword, in hundredths.
KeywordScore(field, keyword) ==
    LET Covered == keyword # <<>> /\ ToSet(keyword) \subseteq ToSet(field)
        AtEnd == keyword # <<>> /\ IsSuffix(keyword, field)
        Scores == (IF Covered THEN {IF 2 * Len(keyword) > Len(field) THEN 90 ELSE 65} ELSE {})
                  \cup (IF AtEnd THEN {80} ELSE {})
                  \cup (IF Len(Joined(keyword)) >= 3 /\ Holds(Joined(field), Joined(keyword))
                        THEN {70} ELSE {})
    IN  IF Joined(field) = Joined(keyword) THEN 100 ELSE Max({0} \cup Scores)

ScoreMatch(field, mapping) == Max({0} \cup {KeywordScore(field, k) : k \in ToSet(mapping.keywords)})

Numeric == {"number", "integer"}

\* A string that nothing is known of, and one that is an identifier.
Word == [keywords |-> <<>>, type |-> {"string"}, minScore |-> 0, format |-> {}]
UuidMapping == [keywords |-> <<>>, type |-> {"string"}, minScore |-> 50, format |-> {}]

\* Mutant: a format is overridden.
IsSettledButFormat(s) ==
    \/ s.keys \cap {"pattern", "enum", "faker", "$ref"} # {}
    \/ s.types = {"string"} /\ "length" \in s.keys
\* What a schema says that a name must not override.
IsSettled(s) ==
    \/ s.keys \cap {"pattern", "enum", "faker", "$ref"} # {}
    \/ s.format \cap Generatable # {}
    \/ s.types = {"string"} /\ "length" \in s.keys

Skips(s, mapping) ==
    \/ /\ "bounds" \in s.keys
       /\ (Cardinality(s.types) = 1 /\ s.types \subseteq Numeric) \/ mapping.type \cap Numeric # {}
    \/ s.types \in {{"object"}, {"array"}}
    \/ /\ mapping.type # {} /\ Cardinality(s.types) = 1 /\ mapping.type # s.types
       /\ ~(mapping.type \cup s.types \subseteq Numeric)

IsIdentifier(name) == Len(name) > 1 /\ Last(name) = <<"i", "d">>

\* findBestMapping(), in a set: the first of those that score highest; a name
\* that ends in "id" scores 80 for a string.
FindBestMapping(name, s) ==
    LET Score(i) == ScoreMatch(name, FieldMappings[i])
        fitting == {i \in DOMAIN FieldMappings :
                       ~Skips(s, FieldMappings[i]) /\ Score(i) >= FieldMappings[i].minScore}
        best == {i \in fitting : \A j \in fitting :
                    Score(i) > Score(j) \/ (Score(i) = Score(j) /\ i <= j)}
    IN  IF s.types = {"string"} /\ s.format = {"uuid"} THEN {UuidMapping}
        ELSE IF IsSettled(s) THEN {}
        ELSE IF /\ s.types = {"string"} /\ IsIdentifier(name)
                /\ \A i \in best : Score(i) < 80
        THEN {UuidMapping}
        ELSE {FieldMappings[i] : i \in best}

-----------------------------------------------------------------------------
(* Enhancement. *)

RolesOf(edges) == {e.role : e \in ToSet(edges)}
ToNodes(edges, roles) ==
    FlattenSeq([i \in DOMAIN edges |-> IF edges[i].role \in roles THEN <<edges[i]>> ELSE <<>>])
ToNode(edges, role) == ToNodes(edges, {role})
ToOthers(edges, roles) == ToNodes(edges, RolesOf(edges) \ roles)

\* A schema that is nullable as a composition is one of two; "verbatim" is no
\* keyword, but what the library is handed of one.
IsSchema(g) ==
    \A n \in DOMAIN g :
        /\ g[n] \in [types : SUBSET STRING, keys : SUBSET STRING, format : SUBSET STRING,
                     edges : Seq([role : STRING \ {"verbatim"}, name : Seq(Seq(STRING)), to : DOMAIN g]),
                     nullable : {"no", "type", "anyOf"}]
        /\ IsFiniteSet(g[n].types)
        /\ g[n].nullable = "anyOf" => Len(ToNode(g[n].edges, "anyOf")) = 2
ASSUME SchemasAssumption == \A g \in FakerGraphs : 1 \in DOMAIN g /\ IsSchema(g)

\* stripNullableForGeneration(): without null, which is put back afterwards.
Stripped(n) ==
    LET s == nodeOf[n]
        Plain(types, keys, format, edges) ==
            [types |-> types, keys |-> keys, format |-> format, edges |-> edges,
             marked |-> s.nullable # "no"]
        wrapper == ToOthers(s.edges, {"anyOf"})
        rest == nodeOf[ToNode(s.edges, "anyOf")[2].to]
        kept == ToOthers(rest.edges, RolesOf(wrapper))
    IN  IF s.nullable = "anyOf"
        THEN Plain(IF s.types = {} THEN rest.types ELSE s.types, rest.keys \cup s.keys,
                   IF s.format = {} THEN rest.format ELSE s.format, kept \o wrapper)
        ELSE Plain(IF s.nullable = "type" /\ s.types # {"null"} THEN s.types \ {"null"} ELSE s.types,
                   s.keys, s.format, s.edges)

NeedsFallback(s) ==
    s.types = {"string"} /\ s.format = {}
    /\ s.keys \cap {"faker", "pattern", "enum", "const", "$ref", "length"} = {}

ContextOf(edge) == IF edge.role = "property" THEN edge.name ELSE Root

\* Mutant: a schema is enhanced once, whatever it is reached as.
KeyOfSchema(node, context) == <<node, Root>>
\* Of a schema each context has an enhancement of its own.
KeyOf(node, context) == <<node, context>>

\* A schema with the generator of its property; a generator that the user has
\* chosen is left, with all below it.
Choice(context, s) ==
    LET isOpen == /\ {"allOf", "anyOf", "oneOf"} \cap RolesOf(s.edges) = {}
                  /\ {"const", "enum"} \cap s.keys = {}
        fallback == IF NeedsFallback(s) THEN {Word} ELSE {}
        best == FindBestMapping(context, s)
    IN  IF context = Root THEN [faker |-> fallback, format |-> {}]
        ELSE IF ~isOpen THEN [faker |-> {}, format |-> {}]
        ELSE IF best = {} THEN [faker |-> fallback, format |-> {}]
        ELSE [faker |-> best, format |-> UNION {b.format : b \in best}]

Enhanced(node, context) ==
    LET s == Stripped(node)
        isChosen == context # Root /\ "faker" \in s.keys
        choice == IF isChosen THEN [faker |-> {}, format |-> {}] ELSE Choice(context, s)
        Known(e) == [role |-> e.role, name |-> e.name, key |-> KeyOf(e.to, ContextOf(e))]
        known == ToOthers(s.edges, {"unknown"})
    IN  [node |-> node, types |-> s.types, keys |-> s.keys, marked |-> s.marked,
         faker |-> choice.faker,
         format |-> IF s.format = {} THEN choice.format ELSE s.format,
         edges |-> IF isChosen THEN <<>> ELSE [i \in DOMAIN known |-> Known(known[i])],
         below |-> IF isChosen THEN <<>>
                   ELSE [i \in DOMAIN known |-> Task(known[i].to, ContextOf(known[i]))]]

FakerFrom(schema) ==
    /\ nodeOf = schema
    /\ pending = <<Task(1, Root)>> /\ cache = <<>> /\ handed = {}
FakerInit == \E schema \in FakerGraphs : FakerFrom(schema)

\* enhanceSchema(): the schemas below follow in order, each once.
Enhance ==
    LET key == KeyOf(Head(pending).node, Head(pending).context)
        made == Enhanced(Head(pending).node, Head(pending).context) IN
    /\ pending # <<>>
    /\ IF key \in DOMAIN cache THEN pending' = Tail(pending) /\ UNCHANGED cache
       ELSE /\ pending' = made.below \o Tail(pending)
            /\ cache' = [k \in DOMAIN cache \cup {key} |-> IF k = key THEN made ELSE cache[k]]
    /\ UNCHANGED <<nodeOf, handed>>

-----------------------------------------------------------------------------
(* The library's boundary. *)

\* The keywords that the library is handed: what else there is, is a hook to it.
JsfKeywords(keys) == keys \ {"unknown"}

\* Mutant: a tuple without additionalItems ends.
RestClosed(edges) == {}
\* What follows a tuple: anything, unless additionalItems says.
RestOf(edges) ==
    IF ToNode(edges, "item") = <<>> \/ ToNode(edges, "additionalItems") # <<>> THEN {} ELSE {TRUE}
IsTuple(edges) == ToNode(edges, "item") # <<>>

\* The role that a schema below another has for the library.
JsfRole(edges, role) ==
    CASE role = "item" -> "prefixItem"
      [] role = "additionalItems" /\ IsTuple(edges) -> "items"
      [] role = "additionalItems" /\ ~IsTuple(edges) /\ ToNode(edges, "items") = <<>> -> "verbatim"
      [] OTHER -> role
KeptForJsf(edges) == ToOthers(edges, IF IsTuple(edges) THEN {"prefixItem"} ELSE {})

\* normalizeSchemaNodeForJsf(): the keywords that it knows, tuples as prefixItems
\* in the place of those that there are.
ForJsf(s) ==
    LET kept == KeptForJsf(s.edges)
        Renamed(edge) == [edge EXCEPT !.role = JsfRole(s.edges, @)]
    IN  [node |-> s.node, types |-> s.types, keys |-> JsfKeywords(s.keys),
         format |-> s.format, faker |-> s.faker, rest |-> RestOf(s.edges),
         edges |-> [i \in DOMAIN kept |-> Renamed(kept[i])]]

Hand ==
    /\ pending = <<>> /\ handed = {}
    /\ handed' = {[key \in DOMAIN cache |-> ForJsf(cache[key])]}
    /\ UNCHANGED <<nodeOf, pending, cache>>

FakerNext == Enhance \/ Hand

FakerSpec == FakerInit /\ [][FakerNext]_fakerVars

-----------------------------------------------------------------------------
(* Properties. *)

Constraints == {"pattern", "enum", "const", "$ref", "length", "bounds"}

\* A generator chosen by name satisfies what the schema says: "a name-based
\* mapping would silently override the declared format", and it has the type.  It
\* is stated for schemas with one type: a list of several is not looked at; and a
\* format that is uuid goes before the rest.
RespectsContract(s) ==
    \A chosen \in s.faker \ {Word} :
        LET isUuid == Stripped(s.node).format = {"uuid"} IN
        /\ s.types \cap {"object", "array"} = {}
        /\ chosen.type = {} \/ chosen.type = s.types \/ chosen.type \cup s.types \subseteq Numeric
        /\ isUuid \/ s.format \cap Generatable \subseteq chosen.format
        /\ isUuid \/ s.keys \cap Constraints \subseteq
              CASE s.types = {"string"} -> {"bounds"}
                [] s.types \subseteq Numeric -> {"length"}
                [] OTHER -> {"length", "bounds"}

\* The names of a property choose its generator also where its schema is one
\* that other properties have; and what is generated is the schema: all of it
\* but null, the places of a tuple in order, open at the end unless it says
\* otherwise, and nothing that the library does not know, because its hooks are
\* global: "removing them at this boundary keeps a consumer registration from
\* changing Schmock output".
ContractIsHanded ==
    \A jsf \in handed : \A key \in DOMAIN jsf :
        LET s == jsf[key]
            origin == nodeOf[s.node]
            items == ToNode(s.edges, "prefixItem")
            tuple == ToNode(origin.edges, "item")
            places == IF tuple # <<>> THEN tuple ELSE ToNode(origin.edges, "prefixItem")
            Sees(edge) ==
                LET target == jsf[edge.key]
                    named == Stripped(target.node)
                    best == FindBestMapping(edge.name, named)
                IN  edge.role = "property" /\ target.faker # {} /\ target.faker # {Word}
                       => target.faker = best
        IN  /\ Cardinality(s.types) = 1 => RespectsContract(s)
            /\ \A i \in DOMAIN s.edges : s.edges[i].key \in DOMAIN jsf /\ Sees(s.edges[i])
            /\ origin.nullable = "type" /\ origin.types # {"null"} => "null" \notin s.types
            /\ "unknown" \notin s.keys
            /\ s.edges # <<>> /\ origin.nullable # "anyOf" =>
                  /\ [i \in DOMAIN places |-> places[i].to]
                     = [i \in DOMAIN items |-> jsf[items[i].key].node]
                  /\ s.rest = IF tuple # <<>> /\ ToNode(origin.edges, "additionalItems") = <<>>
                              THEN {TRUE} ELSE {}
                  /\ \A i \in DOMAIN s.edges : s.edges[i].role # "unknown"
            /\ ToNode(s.edges, "verbatim") # <<>> => ToNode(origin.edges, "items") = <<>>
=============================================================================
