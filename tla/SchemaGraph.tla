---------------------------- MODULE SchemaGraph ----------------------------
(***************************************************************************)
(* validateSchema() of the faker package (packages/faker/src/              *)
(* validation.ts, schema-children.ts): whether a response may be generated *)
(* from a schema.  One walk over the graph of its sub-schemas, each of     *)
(* which may be shared, finds cycles and settles an order; along it the    *)
(* size of what would be generated and the longest paths are computed, and *)
(* compared with the limits.                                               *)
(*                                                                         *)
(* A schema is [type, minItems, maxItems, extras, check, fits, edges]: the *)
(* array bounds in sets, the properties that are generated beside the      *)
(* declared ones, whether validateNode() takes it ("good", "bad", or       *)
(* "empty": not in a typed position), whether its strings and objects are  *)
(* of a size that is allowed, and the schemas it leads to.                 *)
(***************************************************************************)
EXTENDS Integers, Sequences, FiniteSets, SequencesExt, FiniteSetsExt

CONSTANTS
    Graphs,       \* functions from the schemas 1 .. n, of which 1 is the root
    Counts,       \* the explicit counts of a caller, in sets: {} for none
    MaxNodes, MaxDepth, MaxFrames, DeepThreshold, LargeArray, MaxArray,
    MaxGenerated, DefaultCount

ASSUME GraphsAssumption ==
    \A g \in Graphs :
        /\ 1 \in DOMAIN g
        /\ \A n \in DOMAIN g : /\ g[n].edges \in Seq([role : STRING, to : DOMAIN g])
                               /\ g[n].check \in {"good", "bad", "empty"}
ASSUME MaxNodesAssumption == MaxNodes \in Nat

VARIABLES
    graph, count,
    stack,        \* the frames [schema, typed, exiting]
    active,       \* entered and not left
    completed,    \* left
    visited,      \* how many were entered
    circular,
    postOrder,    \* the completed schemas, in the order they were left
    current,      \* the schema whose edges are being pushed, and whether it is typed
    left,         \* how many of its edges are left
    verdict       \* "walking", "accepted" or the limit that refuses the schema

walk == <<stack, active, completed, visited, circular, postOrder, current, left>>
schemaVars == <<graph, count, walk, verdict>>

Frame(schema, typed, exiting) ==
    [schema |-> schema, typed |-> typed, exiting |-> exiting]

SchemaFrom(schemas, explicit) ==
    /\ graph = schemas /\ count = explicit
    /\ stack = <<Frame(1, TRUE, FALSE)>>
    /\ active = {} /\ completed = {} /\ visited = 0 /\ circular = FALSE
    /\ postOrder = <<>>
    /\ current = [schema |-> 1, typed |-> TRUE] /\ left = 0
    /\ verdict = "walking"

SchemaInit == \E g \in Graphs, c \in Counts : SchemaFrom(g, c)

Edges(n) == graph[n].edges

-----------------------------------------------------------------------------
(* The walk. *)

\* The keywords whose schema describes a value inside the value.
ValueRoles ==
    {"items", "item", "additionalItems", "contains", "property", "patternProperty",
     "additionalProperties", "propertyNames"}
\* Those whose schema describes the same value; "branch" is then and else.
FrameRoles ==
    {"ref", "allOf", "anyOf", "not", "if", "branch", "definition", "dependency",
     "contentSchema"}
Cost(role, counted) == IF role \in counted THEN 1 ELSE 0

TypedContinuation(n, role) ==
    \/ graph[n].type = "array" /\ role \in {"items", "item"}
    \/ graph[n].type = "object" /\ role = "property"

Walking == verdict = "walking" /\ left = 0 /\ stack # <<>>
Top == stack[Len(stack)]
Pop == SubSeq(stack, 1, Len(stack) - 1)

\* validateNode()
Passes(n, typed) ==
    graph[n].check = "good" \/ (graph[n].check = "empty" /\ ~typed)

Refuse(cause) ==
    /\ verdict' = cause
    /\ UNCHANGED <<graph, count, walk>>

Leave ==
    /\ Walking /\ Top.exiting
    /\ stack' = Pop
    /\ active' = active \ {Top.schema}
    /\ completed' = completed \cup {Top.schema}
    /\ postOrder' = Append(postOrder, Top.schema)
    /\ UNCHANGED <<graph, count, visited, circular, current, left, verdict>>

\* A schema that is reached again is checked for the new position only.
Skip ==
    /\ Walking /\ ~Top.exiting /\ Top.schema \in completed
    /\ \/ /\ Top.typed => Passes(Top.schema, TRUE)
          /\ stack' = Pop
          /\ UNCHANGED <<graph, count, active, completed, visited, circular, postOrder,
                         current, left, verdict>>
       \/ /\ Top.typed /\ ~Passes(Top.schema, TRUE)
          /\ Refuse("invalid")

\* That a frame is for an active schema does not happen: see
\* OrderIsTopological.
Enter ==
    /\ Walking /\ ~Top.exiting /\ Top.schema \notin completed \cup active
    /\ \/ visited + 1 > MaxNodes /\ Refuse("nodes")
       \/ visited + 1 <= MaxNodes /\ ~Passes(Top.schema, Top.typed) /\ Refuse("invalid")
       \/ /\ visited + 1 <= MaxNodes /\ Passes(Top.schema, Top.typed)
          /\ visited' = visited + 1
          /\ active' = active \cup {Top.schema}
          /\ stack' = Append(Pop, Frame(Top.schema, Top.typed, TRUE))
          /\ current' = [schema |-> Top.schema, typed |-> Top.typed]
          /\ left' = Len(Edges(Top.schema))
          /\ UNCHANGED <<graph, count, completed, circular, postOrder, verdict>>

\* Mutant: nor what has a frame already.
IsDueOnce(n) == n \notin completed /\ \A i \in DOMAIN stack : stack[i].schema # n
\* What is completed needs no frame.
IsDue(n) == n \notin completed

\* The loop over the edges, from the last to the first.
Push ==
    /\ verdict = "walking" /\ left > 0 /\ left' = left - 1
    /\ LET edge == Edges(current.schema)[left]
           typed == current.typed /\ TypedContinuation(current.schema, edge.role) IN
       \/ /\ edge.to \in active
          /\ circular' = TRUE /\ UNCHANGED stack
       \/ /\ edge.to \notin active /\ ~IsDue(edge.to)
          /\ UNCHANGED <<stack, circular>>
       \/ /\ edge.to \notin active /\ IsDue(edge.to)
          /\ stack' = Append(stack, Frame(edge.to, typed, FALSE))
          /\ UNCHANGED circular
    /\ UNCHANGED <<graph, count, active, completed, visited, postOrder, current, verdict>>

-----------------------------------------------------------------------------
(* The estimates. *)

To(n, roles) == SelectSeq(Edges(n), LAMBDA e : e.role \in roles)
SchemasOf(n, roles) == {e.to : e \in ToSet(To(n, roles))}

Bounds(n) == graph[n].minItems \cup graph[n].maxItems

IsArrayLike(n) ==
    \/ graph[n].type = "array" \/ To(n, {"items", "item"}) # <<>>
    \/ Bounds(n) # {}

IsObjectLike(n) ==
    IF graph[n].type # "" THEN graph[n].type = "object"
    ELSE \/ graph[n].extras > 0
         \/ To(n, {"property", "patternProperty", "additionalProperties"}) # <<>>

EffectiveArrayCount(n) ==
    IF Bounds(n) = {} THEN DefaultCount ELSE Max(Bounds(n))

\* The explicit count is that of the root.
ArrayCount(n) ==
    IF n = 1 /\ count # {} THEN Max(count) ELSE EffectiveArrayCount(n)

Leaf == [height |-> 0, nodes |-> 1]

\* Of sequences of schemas, and of sets of them.
NodesIn(list, est) == FoldLeft(LAMBDA sum, e : sum + est[e.to].nodes, 0, list)
MostNodes(schemas, est) == Max({1} \cup {est[m].nodes : m \in schemas})

ItemNodes(n, est) ==
    LET tuple == To(n, {"item"})
        additional == MostNodes(SchemasOf(n, {"additionalItems"}), est)
        filled == Min({Len(tuple), ArrayCount(n)})
    IN  IF tuple # <<>>
        THEN NodesIn(SubSeq(tuple, 1, filled), est) + (ArrayCount(n) - filled) * additional
        ELSE ArrayCount(n) * MostNodes(SchemasOf(n, {"items"}), est)

PropertyNodes(n, est) ==
    LET generated == SchemasOf(n, {"patternProperty", "additionalProperties"})
    IN  NodesIn(To(n, {"property", "patternProperty"}), est)
        + graph[n].extras * MostNodes(generated, est)

\* estimateSchema(), given the estimates of the schemas it leads to.
EstimateSchema(n, est) ==
    LET If(condition, nodes) == IF condition THEN nodes ELSE 0
        allOf == To(n, {"allOf"})
        InValue(roles) == {est[m].height + 1 : m \in SchemasOf(n, roles)}
        heights ==
            {0} \cup {est[m].height :
                         m \in SchemasOf(n, {"allOf", "anyOf", "if", "branch", "not"})}
            \cup (IF IsArrayLike(n)
                  THEN InValue({"items", "item", "additionalItems", "contains"}) ELSE {})
            \cup (IF IsObjectLike(n)
                  THEN InValue({"property", "patternProperty", "additionalProperties",
                                "propertyNames"}) ELSE {})
    IN  IF To(n, {"ref"}) # <<>> THEN est[To(n, {"ref"})[1].to]
        ELSE [height |-> Max(heights),
              nodes |-> 1 + If(IsArrayLike(n), ItemNodes(n, est))
                          + If(IsObjectLike(n), PropertyNodes(n, est))
                          + NodesIn(allOf, est) - Len(allOf)
                          + MostNodes(SchemasOf(n, {"anyOf"}), est) - 1
                          + MostNodes(SchemasOf(n, {"branch"}), est) - 1]

\* Each schema after those it leads to.
Estimates ==
    FoldLeft(LAMBDA est, n : [est EXCEPT ![n] = EstimateSchema(n, est)],
             [n \in DOMAIN graph |-> Leaf], postOrder)

\* analyzeGraphPaths(): the longest path to each schema; -1 if there is none.
Longest(counted) ==
    LET Along(far, n, m) ==
            Max({far[m]} \cup {far[n] + Cost(Edges(n)[i].role, counted) :
                                  i \in {j \in DOMAIN Edges(n) : Edges(n)[j].to = m}})
        Relax(far, n) == IF far[n] = -1 THEN far
                         ELSE [m \in DOMAIN far |-> Along(far, n, m)]
    IN  FoldLeft(Relax, [n \in DOMAIN graph |-> IF n = 1 THEN 0 ELSE -1],
                 Reverse(postOrder))

\* recordObjectLimit(), recordStringLimit()
Fits(n) == graph[n].fits

\* recordMemoryEstimate()
MemoryRisk(n, est) == est[n].height > DeepThreshold /\ ArrayCount(n) > LargeArray

\* The limits that are exceeded, in the order they are reported.
Exceeded(est, depth, frames, schemas) ==
    LET Over(condition, cause) == IF condition THEN <<cause>> ELSE <<>>
        Arrays == {n \in schemas : IsArrayLike(n)}
    IN  Over(\E n \in schemas : depth[n] > MaxDepth, "depth")
        \o Over(\E n \in schemas : frames[n] > MaxFrames, "composition")
        \o Over(\E n \in Arrays : depth[n] >= DeepThreshold /\ ArrayCount(n) >= LargeArray,
                "deep array")
        \o Over(\E n \in schemas : \E b \in Bounds(n) : b > MaxArray, "array size")
        \o Over(\E n \in schemas : ~Fits(n), "size")
        \o Over(\E n \in Arrays : MemoryRisk(n, est), "memory")
        \o Over(IsArrayLike(1) /\ \E c \in count : c > MaxArray, "array size")
        \o Over(est[1].nodes > MaxGenerated, "generated")

\* Mutant: the estimates are those of the order in which schemas were entered.
JudgementInReverse ==
    LET est == FoldLeft(LAMBDA e, n : [e EXCEPT ![n] = EstimateSchema(n, e)],
                        [n \in DOMAIN graph |-> Leaf], Reverse(postOrder))
    IN  IF circular THEN <<"circular">>
        ELSE Exceeded(est, Longest(ValueRoles), Longest(FrameRoles), ToSet(postOrder))
Judgement ==
    IF circular THEN <<"circular">>
    ELSE Exceeded(Estimates, Longest(ValueRoles), Longest(FrameRoles), ToSet(postOrder))

Judge ==
    /\ verdict = "walking" /\ stack = <<>> /\ left = 0
    /\ verdict' = IF Judgement = <<>> THEN "accepted" ELSE Judgement[1]
    /\ UNCHANGED <<graph, count, walk>>

SchemaNext == Leave \/ Skip \/ Enter \/ Push \/ Judge

SchemaSpec == SchemaInit /\ [][SchemaNext]_schemaVars

-----------------------------------------------------------------------------
(* Properties. *)

Successors(n) == {e.to : e \in ToSet(Edges(n))}

\* When the walk ends without a cycle its order lists each schema that the root
\* leads to once, after all that this one leads to: estimateSchemas() may take
\* each from the memo, and analyzeGraphPaths() may relax each edge once.  Until
\* then no frame is for a schema that is still open, whatever is shared, so the
\* walk's second test for a cycle (validation.ts 234-237) never decides.
OrderIsTopological ==
    /\ Walking /\ ~Top.exiting => Top.schema \notin active
    /\ stack = <<>> /\ left = 0 /\ ~circular =>
          /\ 1 \in ToSet(postOrder)
          /\ \A i \in DOMAIN postOrder : \A m \in Successors(postOrder[i]) :
                \E j \in 1 .. i - 1 : postOrder[j] = m

\* The paths of up to n edges from the root: where they end, how deep, through
\* how many combinations, and whether all of it is typed.
PathsTo[n \in Nat] ==
    IF n = 0 THEN {[to |-> 1, depth |-> 0, frames |-> 0, typed |-> TRUE, edges |-> 0]}
    ELSE PathsTo[n - 1] \cup
         UNION {{[to |-> e.to, depth |-> p.depth + Cost(e.role, ValueRoles),
                  frames |-> p.frames + Cost(e.role, FrameRoles),
                  typed |-> p.typed /\ TypedContinuation(p.to, e.role),
                  edges |-> n] : e \in ToSet(Edges(p.to))} :
                p \in {q \in PathsTo[n - 1] : q.edges = n - 1}}

\* The estimates of the tree that the graph unfolds to.
Unfolded[n \in Nat] ==
    IF n = 0 THEN [m \in DOMAIN graph |-> Leaf]
    ELSE [m \in DOMAIN graph |-> EstimateSchema(m, Unfolded[n - 1])]

\* A schema is refused for a limit exactly if it exceeds one, counted on the
\* tree that it unfolds to, in which what is shared is there once for every
\* place it is generated in: "a completed target is a shared DAG node whose
\* memoized estimate is charged at every output site" (validation.ts 94-95).
\* Schemas that are "empty" are left out of the converse: one is missed below a
\* shared schema that was first reached in an untyped position.
VerdictIsExact ==
    verdict # "walking" =>
        LET size == Cardinality(DOMAIN graph)
            paths == PathsTo[size]
            schemas == {p.to : p \in paths}
            cyclic == \E p \in paths : p.edges = size
            Furthest(n, far(_)) == Max({far(p) : p \in {q \in paths : q.to = n}})
            due == Exceeded(Unfolded[size],
                       [n \in schemas |-> Furthest(n, LAMBDA p : p.depth)],
                       [n \in schemas |-> Furthest(n, LAMBDA p : p.frames)], schemas)
            invalid == \E p \in paths : ~Passes(p.to, p.typed)
        IN  CASE verdict = "nodes"    -> Cardinality(schemas) > MaxNodes
              [] verdict = "invalid"  -> invalid
              [] verdict = "circular" -> cyclic
              [] OTHER ->
                    /\ ~cyclic /\ Cardinality(schemas) <= MaxNodes
                    /\ \A n \in schemas : graph[n].check # "bad"
                    /\ verdict = IF due = <<>> THEN "accepted" ELSE due[1]

=============================================================================
