---------------------------- MODULE FakerValues ----------------------------
(***************************************************************************)
(* The faker plugin from its options to a value                            *)
(* (packages/faker/src/index.ts): the options are copied, the length of an *)
(* array is settled, json-schema-faker generates, nulls are put in, the    *)
(* overrides are applied (overrides.ts), and what is to be answered is     *)
(* measured (output-limits.ts).                                            *)
(*                                                                         *)
(* A value is a tree: a primitive, an object or an array with its fields   *)
(* [key, value], or in overrides a template that names where in params,    *)
(* state or query a value is.  A key is a sequence of parts: what dots     *)
(* separate in overrides, one part elsewhere.  Objects and arrays have the *)
(* owner that holds them ("user", "plugin", "context", "jsf", "response"). *)
(***************************************************************************)
EXTENDS Naturals, Sequences, FiniteSets, SequencesExt, FiniteSetsExt

CONSTANTS
    Options,      \* what the plugin is created with: schema, count, overrides
    Contexts,     \* of a request: where a template points -> value
    Dangerous,    \* the parts of keys that are never written
    LongStrings,  \* the strings over the limit
    MaxValueNodes, MaxArraySize, MaxFields, DefaultLength

VARIABLES
    options,      \* what the plugin holds
    context,      \* what the request brings
    step,         \* "create", "count", "generate", "post", "override", "check", "done"
    length,       \* of the array, in a set
    value,        \* what is generated
    answer        \* the outcome "value", "passed" or "error", in a set

valueVars == <<options, context, step, length, value, answer>>

Prim(x) == [kind |-> "prim", is |-> x, of |-> "none", fields |-> <<>>]
NullValue == Prim("null")
Placeholder(where) == [kind |-> "template", is |-> where, of |-> "none", fields |-> <<>>]
Composite(kind, owner, fields) == [kind |-> kind, is |-> "", of |-> owner, fields |-> fields]
Field(key, v) == [key |-> key, value |-> v]

IsRecord(v) == v.kind = "object"

RECURSIVE Owned(_, _)
\* cloneOwned(), structuredClone(), snapshotGraphs(): a copy to an owner.
Owned(v, owner) ==
    IF v.kind \in {"prim", "template"} THEN v
    ELSE Composite(v.kind, owner,
                   [i \in DOMAIN v.fields |-> Field(v.fields[i].key, Owned(v.fields[i].value, owner))])

-----------------------------------------------------------------------------
(* The length of an array, and nulls. *)

\* determineArrayCount(): an explicit count, else the bounds, else the tuple.
DetermineArrayCount(schema, count) ==
    LET min == schema.minItems
        max == schema.maxItems IN
    CASE count # {} -> count
      [] min # {} /\ max # {} -> Max(min) .. Max(min \cup max)
      [] min # {} -> {Max(min \cup {DefaultLength})}
      [] max # {} -> {Min(max \cup {DefaultLength})}
      [] OTHER    -> {IF schema.isTuple THEN Len(schema.items) ELSE DefaultLength}

\* The values with one of the values of each set in the place of a field.
Combined(v, choices) ==
    {[v EXCEPT !.fields = [i \in DOMAIN @ |-> Field(@[i].key, pick[i])]] :
        pick \in {p \in [DOMAIN v.fields -> UNION {choices[i] : i \in DOMAIN choices}] :
                     \A i \in DOMAIN p : p[i] \in choices[i]}}

SchemaBelow(schema, v, i) ==
    IF v.kind = "object" THEN {p.schema : p \in {q \in ToSet(schema.properties) : q.key = v.fields[i].key}}
    ELSE IF schema.isTuple THEN {schema.items[k] : k \in {i} \cap DOMAIN schema.items}
    ELSE ToSet(schema.items)

RECURSIVE PostProcess(_, _)
\* postProcessGenerated(): the values that may come of it, by chance.
PostProcess(v, schema) ==
    LET At(i) ==
            IF SchemaBelow(schema, v, i) = {} THEN {v.fields[i].value}
            ELSE UNION {PostProcess(v.fields[i].value, s) : s \in SchemaBelow(schema, v, i)}
        inside == IF schema.isWeighted THEN {Prim("true"), Prim("false")}
                  ELSE IF v.kind = "prim" THEN {v}
                  ELSE Combined(v, [i \in DOMAIN v.fields |-> At(i)])
    IN  IF v = NullValue THEN {v}
        ELSE inside \cup IF schema.isNullable THEN {NullValue} ELSE {}

-----------------------------------------------------------------------------
(* Overrides. *)

At(v, part) == SelectInSeq(v.fields, LAMBDA f : f.key = <<part>>)
Get(v, part) == IF At(v, part) = 0 THEN NullValue ELSE v.fields[At(v, part)].value
PutField(v, part, new) ==
    [v EXCEPT !.fields = IF At(v, part) = 0 THEN Append(@, Field(<<part>>, new))
                         ELSE [@ EXCEPT ![At(v, part)] = Field(<<part>>, new)]]

EmptyRecord == Composite("object", "response", <<>>)
RecordAt(v, part) == IF IsRecord(Get(v, part)) THEN Get(v, part) ELSE EmptyRecord

\* Mutant: what a template finds is handed on.
ExpandedAsIs(v) ==
    IF v.kind # "template" THEN Owned(v, "response")
    ELSE IF v.is \in DOMAIN context THEN context[v.is] ELSE Prim("template")
\* A template that finds nothing stays as it is written.
Expanded(v) ==
    IF v.kind # "template" THEN Owned(v, "response")
    ELSE IF v.is \in DOMAIN context THEN Owned(context[v.is], "response") ELSE Prim("template")

RECURSIVE SetNestedProperty(_, _, _)
\* Parents that are no objects are replaced; a dangerous part ends the path.
SetNestedProperty(v, path, new) ==
    IF Head(path) \in Dangerous THEN v
    ELSE PutField(v, Head(path),
             IF Len(path) = 1 THEN Expanded(new)
             ELSE SetNestedProperty(RecordAt(v, Head(path)), Tail(path), new))

RECURSIVE ApplyOverrides(_, _)
ApplyOverrides(v, overrides) ==
    LET One(result, o) ==
            IF Len(o.key) > 1 THEN SetNestedProperty(result, o.key, o.value)
            ELSE IF o.key[1] \in Dangerous THEN result
            ELSE IF IsRecord(o.value)
            THEN PutField(result, o.key[1],
                     ApplyOverrides(RecordAt(result, o.key[1]), o.value.fields))
            ELSE PutField(result, o.key[1], Expanded(o.value))
    IN  IF ~IsRecord(v) THEN v ELSE FoldLeft(One, Owned(v, "response"), overrides)

-----------------------------------------------------------------------------
(* Limits. *)

RECURSIVE Frames(_)
\* The values in the order the walk takes them: the last of the fields first.
Frames(v) ==
    <<v>> \o FlattenSeq([i \in DOMAIN v.fields |-> Frames(v.fields[Len(v.fields) + 1 - i].value)])

Violated(v, nodes) ==
    CASE nodes > MaxValueNodes -> {"nodes"}
      [] v.kind = "prim" /\ v.is \in LongStrings -> {"string"}
      [] v.kind = "array" /\ Len(v.fields) > MaxArraySize -> {"array"}
      [] v.kind = "object" /\ Len(v.fields) > MaxFields -> {"properties"}
      [] OTHER -> {}

\* assertOutputWithinLimits(): the first limit that is met, in a set.
Excess(v) ==
    LET frames == Frames(v)
        over == {i \in DOMAIN frames : Violated(frames[i], i) # {}}
    IN  UNION {Violated(frames[Min(over)], Min(over)) : i \in over}

-----------------------------------------------------------------------------

Outcome(outcome, cause, v) == [outcome |-> outcome, error |-> cause, value |-> v]
Refused(cause) == step' = "done" /\ answer' = {Outcome("error", cause, NullValue)}

ValueFrom(given, request) ==
    /\ options = given /\ context = request
    /\ step = "create" /\ length = {} /\ value = NullValue /\ answer = {}
ValueInit == \E given \in Options, request \in Contexts : ValueFrom(given, request)

\* fakerPlugin(): overrides that are no object are refused.
Create ==
    /\ step = "create"
    /\ \/ /\ IsRecord(options.overrides)
          /\ options' = [options EXCEPT !.overrides = Owned(@, "plugin")]
          /\ step' = "count" /\ UNCHANGED answer
       \/ ~IsRecord(options.overrides) /\ Refused("invalid") /\ UNCHANGED options
    /\ UNCHANGED <<context, length, value>>

\* process(): a response that is there passes; generateFromSchema() settles the
\* length of a list at the root.
CountItems ==
    /\ step = "count"
    /\ \/ answer' = {Outcome("passed", "", NullValue)} /\ step' = "done" /\ UNCHANGED length
       \/ /\ options.schema.items = <<>>
          /\ step' = "generate" /\ UNCHANGED <<length, answer>>
       \/ /\ options.schema.items # <<>>
          /\ \E n \in DetermineArrayCount(options.schema, options.count) :
                \/ n > MaxArraySize /\ Refused("array") /\ UNCHANGED length
                \/ /\ n <= MaxArraySize /\ length' = {n}
                   /\ step' = "generate" /\ UNCHANGED answer
    /\ UNCHANGED <<options, context, value>>

\* Mutant: what is generated is measured, not what is answered.
MeasuredAlready(v) == {}
\* The limits of what leaves the plugin.
Measured(v) == Excess(v)

\* generateWithJsf(): what is generated is measured and copied; json-schema-faker
\* may fail, which is wrapped.
GenerateValue ==
    /\ step = "generate"
    /\ \/ \E made \in options.generated :
             /\ \A n \in length : made.kind = "array" => Len(made.fields) = n
             /\ \/ \E cause \in Excess(made) : Refused(cause) /\ UNCHANGED value
                \/ /\ Excess(made) = {} /\ value' = Owned(made, "response")
                   /\ step' = "post" /\ UNCHANGED answer
       \/ Refused("generation") /\ UNCHANGED value
    /\ UNCHANGED <<options, context, length>>

Post ==
    /\ step = "post" /\ step' = "override"
    /\ value' \in PostProcess(value, options.schema)
    /\ UNCHANGED <<options, context, length, answer>>

\* Of a list, to each item.
Override ==
    LET overrides == options.overrides.fields
        ToItem(f) == Field(f.key, ApplyOverrides(f.value, overrides)) IN
    /\ step = "override" /\ step' = "check"
    /\ value' = IF value.kind = "array"
                THEN Composite("array", "response", [i \in DOMAIN value.fields |-> ToItem(value.fields[i])])
                ELSE ApplyOverrides(value, overrides)
    /\ UNCHANGED <<options, context, length, answer>>

Check ==
    /\ step = "check"
    /\ \/ \E cause \in Measured(value) : Refused(cause)
       \/ Measured(value) = {} /\ step' = "done" /\ answer' = {Outcome("value", "", value)}
    /\ UNCHANGED <<options, context, length, value>>

ValueNext == Create \/ CountItems \/ GenerateValue \/ Post \/ Override \/ Check

ValueSpec == ValueInit /\ [][ValueNext]_valueVars
-----------------------------------------------------------------------------
(* Properties. *)

\* Overrides as assignments in their order: a value to "set" at a path, or an
\* object to "ensure" there; a dangerous part ends a path.
Assignment(path, how, v) == [path |-> path, how |-> how, value |-> v]
RECURSIVE Assignments(_, _)
Assignments(overrides, prefix) ==
    FlattenSeq([i \in DOMAIN overrides |->
        LET key == overrides[i].key
            v == overrides[i].value
            stop == SelectInSeq(key, LAMBDA part : part \in Dangerous)
            path == prefix \o IF stop = 0 THEN key ELSE SubSeq(key, 1, stop - 1) IN
        IF stop = 1 THEN <<>>
        ELSE IF stop # 0 THEN <<Assignment(path, "ensure", NullValue)>>
        ELSE IF Len(key) = 1 /\ IsRecord(v)
        THEN <<Assignment(path, "ensure", NullValue)>> \o Assignments(v.fields, path)
        ELSE <<Assignment(path, "set", v)>>])

RECURSIVE LeafPaths(_, _), AtPath(_, _), PartsOf(_)
\* The paths to what is no object.
LeafPaths(v, path) ==
    IF ~IsRecord(v) THEN {path}
    ELSE UNION {LeafPaths(f.value, path \o f.key) : f \in ToSet(v.fields)}
\* The values at a path: none or one.
AtPath(v, path) ==
    IF path = <<>> THEN {v}
    ELSE UNION {AtPath(f.value, Tail(path)) :
                   f \in {g \in ToSet(v.fields) : IsRecord(v) /\ g.key = <<path[1]>>}}
PartsOf(v) == <<v>> \o FlattenSeq([i \in DOMAIN v.fields |-> PartsOf(v.fields[i].value)])

Comparable(p, q) == IsPrefix(p, q) \/ IsPrefix(q, p)
\* A later assignment may take what an assignment put at a path.
Takes(later, path) ==
    IF later.how = "set" THEN Comparable(later.path, path) ELSE IsPrefix(path, later.path)

\* Whose it is does not matter.
Same(a, b) == Owned(a, "") = Owned(b, "")

ItemsOf(v) == IF v.kind = "array" THEN {f.value : f \in ToSet(v.fields)} ELSE {v}
Results == {a.value : a \in {b \in answer : b.outcome = "value"}}

\* What the plugin answers with is what was generated and configured, and the
\* caller's to change:
\* - no object or array of it belongs to the configured overrides, to the state
\*   of the mock or to json-schema-faker;
\* - the last override of a path is there, with the value its template names,
\*   whatever was generated there or on the way to it, and what no override
\*   names is as it was generated, or null where null was permitted;
\* - neither the overrides nor the state can take it over the limits that the
\*   generated value was held to, and a value is refused for a limit it
\*   exceeds (packages/faker/src/index.ts, overrides.ts, output-limits.ts).
ValueIsConfigured ==
    LET assigned == Assignments(options.overrides.fields, <<>>)
        Stays(path, i) == \A j \in DOMAIN assigned : j > i => ~Takes(assigned[j], path)
        generated == UNION {ItemsOf(v) : v \in options.generated} IN
    \A v \in Results :
        LET parts == PartsOf(v) IN
        /\ \A k \in DOMAIN parts : parts[k].of \in {"none", "response"}
        /\ \A item \in ItemsOf(v) :
              IsRecord(item) =>
                /\ \A i \in DOMAIN assigned :
                      assigned[i].how = "set" /\ Stays(assigned[i].path, i) =>
                         \E there \in AtPath(item, assigned[i].path) :
                            IF assigned[i].value.kind = "template"
                            THEN \/ assigned[i].value.is \in DOMAIN context
                                    /\ Same(there, context[assigned[i].value.is])
                                 \/ assigned[i].value.is \notin DOMAIN context
                                    /\ there = Prim("template")
                            ELSE Same(there, assigned[i].value)
                /\ \E made \in generated : \A path \in LeafPaths(made, <<>>) :
                      (\A i \in DOMAIN assigned :
                          IF assigned[i].how = "set" THEN ~Comparable(assigned[i].path, path)
                          ELSE ~IsPrefix(path, assigned[i].path))
                      => \E there \in AtPath(item, path) \cup UNION {AtPath(item, Front(SubSeq(path, 1, n))) : n \in DOMAIN path} :
                            there = NullValue \/ AtPath(made, path) = {there} \/ there \in {Prim("true"), Prim("false")}
        /\ Len(parts) <= MaxValueNodes
        /\ \A k \in DOMAIN parts :
              /\ parts[k].kind = "array" => Len(parts[k].fields) <= MaxArraySize
              /\ parts[k].kind = "object" => Len(parts[k].fields) <= MaxFields
              /\ parts[k].is \notin LongStrings
=============================================================================
