---------------------------- MODULE SchemaReading ----------------------------
(***************************************************************************)
(* What becomes of a schema of an OpenAPI document: the values of a        *)
(* discriminator for each branch of a union, found while the branches are  *)
(* references (packages/openapi/src/parser.ts) or by what they were        *)
(* dereferenced to, and the normalisation for one direction                *)
(* (packages/openapi/src/normalizer.ts).                                   *)
(*                                                                         *)
(* A schema is a graph: a sequence of nodes, the first of which is         *)
(* normalised.  A node has its document and its name among the components  *)
(* ("" for a schema that is written in place), the flags of a property,    *)
(* props: [name, to], required, the branches of its oneOf, its             *)
(* discriminator [prop, mapping] in a set, and subs, all other schemas     *)
(* below it.  A target of a mapping is [form, doc, name]: "bare" for a     *)
(* name, else a "pointer" into a document.                                 *)
(***************************************************************************)
EXTENDS Naturals, Sequences, FiniteSets, SequencesExt, FiniteSetsExt

CONSTANTS
    SchemaGraphs,     \* the graphs
    RootDocument      \* the document that is loaded

VARIABLES
    nodes, direction, \* the graph, "request" or "response"
    normal            \* what it is normalised to, in a set

schemaReading == <<nodes, direction, normal>>

-----------------------------------------------------------------------------
(* Discriminators. *)

Branch(n, i) == nodes[nodes[n].branches[i]]
Mapping(n) == UNION {disc.mapping : disc \in nodes[n].disc}

\* Mutant: the keys are those of the branches, in order.
KeysByPosition(n, i) ==
    LET keys == SetToSortSeq({entry.key : entry \in Mapping(n)}, LAMBDA a, b : a < b)
    IN  IF i \in DOMAIN keys THEN {keys[i]} ELSE {}

\* mappingKeysForRef(): the reference as it is written, or the name in it.
KeysOfRef(n, i) ==
    {entry.key : entry \in
        {e \in Mapping(n) : /\ e.target.name = Branch(n, i).name
                            /\ e.target.form = "bare" \/ e.target.doc = Branch(n, i).doc}}

\* mappingTargetsBranch(): what the target names in the documents that hold the
\* union as a named schema.
KeysOfIdentity(n, i) ==
    {entry.key : entry \in
        {e \in Mapping(n) :
            /\ nodes[n].name # ""
            /\ e.target.name = Branch(n, i).name
            /\ Branch(n, i).doc = IF e.target.form = "bare" THEN nodes[n].doc ELSE e.target.doc}}

OrName(keys, name) == IF keys = {} /\ name # "" THEN {name} ELSE keys

\* The marker of a union: in the root before it is dereferenced, elsewhere after.
\* A branch that is written in place has none.
Marked(n, i) ==
    IF Branch(n, i).name = "" THEN {}
    ELSE OrName(IF nodes[n].doc = RootDocument THEN KeysOfRef(n, i) ELSE KeysOfIdentity(n, i),
                Branch(n, i).name)

-----------------------------------------------------------------------------
(* Normalisation.  objects: the nodes and then the schemas that are made of  *)
(* them; a made schema is a shallow copy and shares its table of properties  *)
(* with what it was made of.  done: the schema made of an object; open:      *)
(* those on the stack.                                                       *)

\* Where an object has its properties: name -> [to, values].
ObjectNode(node, table, required, branches, subs, disc) ==
    [node |-> node, table |-> table, required |-> required,
     branches |-> branches, subs |-> subs, disc |-> disc]

Loose(to) == [to |-> to, values |-> {}]

Heap ==
    [objects |-> <<>> \o [n \in DOMAIN nodes |->
                    ObjectNode(n, n, nodes[n].required, nodes[n].branches, nodes[n].subs,
                           nodes[n].disc)],
     tables |-> <<>> \o [n \in DOMAIN nodes |->
                    [i \in DOMAIN nodes[n].props |->
                        [name |-> nodes[n].props[i].name, is |-> Loose(nodes[n].props[i].to)]]],
     done |-> <<>> \o [n \in DOMAIN nodes |-> 0],
     open |-> {}]

\* A new object, the last of the heap.
Add(heap, object) ==
    [heap EXCEPT !.objects = Append(@, object), !.done = Append(@, 0)]
AddEmpty(heap, id) ==
    Add([heap EXCEPT !.tables = Append(@, <<>>)],
        ObjectNode(0, Len(heap.tables) + 1, {}, <<>>, <<>>, {}))

\* Mutant: the flags are read the wrong way round.
IsLeftOutSwapped(node) == IF direction = "request" THEN node.writeOnly ELSE node.readOnly
\* A property that the direction does not have.
IsLeftOut(node) == IF direction = "request" THEN node.readOnly ELSE node.writeOnly

\* The property of the discriminator is required, and has the values of the branch.
Discriminated(heap, id, prop, values) ==
    LET table == heap.objects[id].table
        Overlay(entry) == IF entry.name = prop THEN [entry EXCEPT !.is.values = values] ELSE entry
        overlaid == [i \in DOMAIN heap.tables[table] |-> Overlay(heap.tables[table][i])]
        IsThere == \E entry \in ToSet(overlaid) : entry.name = prop
        new == IF IsThere THEN <<>> ELSE <<[name |-> prop, is |-> [to |-> 0, values |-> values]]>>
    IN  [heap EXCEPT !.objects[id].required = @ \cup {prop},
                     !.tables[table] = IF values = {} THEN @ ELSE overlaid \o new]

RECURSIVE Normalize(_, _)

\* The schemas of a list, one after the other; After() is done to each.
NormalizeAll(heap, ids, After(_, _, _)) ==
    LET One(acc, id) ==
            LET r == Normalize(acc.heap, id)
                i == Len(acc.ids) + 1
            IN  [heap |-> After(r.heap, r.id, i), ids |-> Append(acc.ids, r.id)]
    IN  FoldLeft(One, [heap |-> heap, ids |-> <<>>], ids)
NoMore(heap, id, i) == heap

\* The branches of a union with a discriminator.
NormalizeUnion(heap, id) ==
    LET object == heap.objects[id]
        prop == (CHOOSE disc \in object.disc : TRUE).prop
        Mark(h, made, i) == Discriminated(h, made, prop, Marked(object.node, i))
        r == NormalizeAll(heap, object.branches, Mark)
    IN  IF object.disc = {} THEN heap
        ELSE [r.heap EXCEPT !.objects[id].branches = r.ids, !.objects[id].disc = {}]

\* A property that stays is normalised where it is.
NormalizeProps(heap, id) ==
    LET table == heap.objects[id].table
        IsOut(h, entry) ==
            LET node == h.objects[entry.is.to].node
            IN  entry.is.to # 0 /\ node # 0 /\ IsLeftOut(nodes[node])
        Leave(h, entry) ==
            [h EXCEPT !.tables[table] = SelectSeq(@, LAMBDA e : e.name # entry.name),
                      !.objects[id].required = @ \ {entry.name}]
        Stay(h, entry, r) ==
            [r.heap EXCEPT !.tables[table] =
                [i \in DOMAIN @ |-> IF @[i].name = entry.name THEN [@[i] EXCEPT !.is.to = r.id]
                                                             ELSE @[i]]]
        One(h, entry) ==
            IF entry.is.to = 0 THEN h
            ELSE IF IsOut(h, entry) THEN Leave(h, entry)
            ELSE Stay(h, entry, Normalize(h, entry.is.to))
    IN  FoldLeft(One, heap, heap.tables[table])

NormalizeLists(heap, id) ==
    LET subs == NormalizeAll(heap, heap.objects[id].subs, NoMore)
        branches == NormalizeAll(subs.heap, heap.objects[id].branches, NoMore)
    IN  [branches.heap EXCEPT !.objects[id].subs = subs.ids, !.objects[id].branches = branches.ids]

Close(heap, id) ==
    LET made == Len(heap.objects) + 1
        added == Add(heap, heap.objects[id])
    IN  [heap |-> [added EXCEPT !.done[id] = made, !.open = @ \ {id}], id |-> made]

\* normalizeNode(): made once of an object; a schema below itself is cut.
Normalize(heap, id) ==
    IF heap.done[id] # 0 THEN [heap |-> heap, id |-> heap.done[id]]
    ELSE IF id \in heap.open
    THEN [heap |-> AddEmpty(heap, id), id |-> Len(heap.objects) + 1]
    ELSE LET opened == [heap EXCEPT !.open = @ \cup {id}]
             united == NormalizeUnion(opened, id)
             propped == NormalizeProps(united, id)
         IN  Close(NormalizeLists(propped, id), id)

-----------------------------------------------------------------------------

ReadingFrom(schema, way) == nodes = schema /\ direction = way /\ normal = {}
ReadingInit == \E schema \in SchemaGraphs, way \in {"request", "response"} : ReadingFrom(schema, way)

ReadSchema ==
    /\ normal = {}
    /\ normal' = {Normalize(Heap, 1)}
    /\ UNCHANGED <<nodes, direction>>

ReadingSpec == ReadingInit /\ [][ReadSchema]_schemaReading

-----------------------------------------------------------------------------
(* Properties. *)

Children(n) ==
    ToSet(nodes[n].subs) \cup ToSet(nodes[n].branches) \cup {p.to : p \in ToSet(nodes[n].props)}
Below(n) ==
    FoldLeft(LAMBDA s, k : s \cup UNION {Children(m) : m \in s}, Children(n), nodes)
Unions(n) == {u \in DOMAIN nodes : nodes[u].disc # {} /\ n \in ToSet(nodes[u].branches)}
DiscProps(n) == UNION {{d.prop : d \in nodes[u].disc} : u \in Unions(n)}

\* What the mapping of a union says of a branch: a name is one of the document
\* of the union, in the root one of any document.
Designates(target, u, n) ==
    /\ target.name = nodes[n].name
    /\ IF target.form = "bare" THEN nodes[u].doc \in {RootDocument, nodes[n].doc}
                               ELSE target.doc = nodes[n].doc
NodeValues(u, n) ==
    LET keys == {e.key : e \in {m \in Mapping(u) : Designates(m.target, u, n)}}
    IN  IF nodes[n].name = "" THEN {} ELSE IF keys = {} THEN {nodes[n].name} ELSE keys

IsCircular(n) == n \in Below(n)

\* The schema made of a node, at a place of another one: a node is cut nowhere
\* but below itself.
IsOf(heap, id, n) ==
    \/ heap.objects[id].node = n
    \/ heap.objects[id].node = 0 /\ IsCircular(n)

\* A schema loses the properties its direction does not have and no other, and
\* is normalised in full at each of its places: "they must both normalize
\* fully" (normalizer.ts 81-82).
IsExactNode(heap, id) ==
    LET object == heap.objects[id]
        node == nodes[object.node]
        left == {p.name : p \in {q \in ToSet(node.props) :
                    IF direction = "request" THEN nodes[q.to].readOnly ELSE nodes[q.to].writeOnly}}
        kept == {p.name : p \in ToSet(node.props)} \ left
        table == ToSet(heap.tables[object.table])
        names == {e.name : e \in table}
    IN  /\ kept \subseteq names /\ names \subseteq kept \cup DiscProps(object.node)
        /\ node.required \ left \subseteq object.required
        /\ object.required \subseteq (node.required \ left) \cup DiscProps(object.node)
        /\ \A p \in ToSet(node.props), e \in table :
              p.name = e.name /\ e.is.to # 0 => IsOf(heap, e.is.to, p.to)
        /\ \A i \in DOMAIN node.subs : IsOf(heap, object.subs[i], node.subs[i])
        /\ \A i \in DOMAIN node.branches : IsOf(heap, object.branches[i], node.branches[i])

\* The value of a discriminator in a branch is what the mapping says of it,
\* whatever the order of the two and of the documents they are in; not for a
\* component of several unions, nor for a union written in place elsewhere than
\* in the root.
IsDiscriminated(heap, id) ==
    LET u == heap.objects[id].node IN
    \A disc \in nodes[u].disc, i \in DOMAIN nodes[u].branches :
        LET n == nodes[u].branches[i]
            branch == heap.objects[heap.objects[id].branches[i]]
            values == UNION {e.is.values : e \in {f \in ToSet(heap.tables[branch.table]) : f.name = disc.prop}}
        IN  Unions(n) = {u} /\ (nodes[u].doc = RootDocument \/ nodes[u].name # "") =>
                disc.prop \in branch.required /\ values = NodeValues(u, n)

Kids(heap, id) ==
    ToSet(heap.objects[id].subs) \cup ToSet(heap.objects[id].branches)
    \cup ({e.is.to : e \in ToSet(heap.tables[heap.objects[id].table])} \ {0})
MadeNode(result) ==
    FoldLeft(LAMBDA s, k : s \cup UNION {Kids(result.heap, id) : id \in s},
             {result.id}, result.heap.objects)

\* Every schema that the normalisation leads to is exact and has the values of
\* its discriminators, whatever the documents share and where they refer to
\* themselves (normalizer.ts, parser.ts 279-587).
SchemaIsRead ==
    \A result \in normal : \A id \in MadeNode(result) :
        result.heap.objects[id].node # 0 =>
            IsExactNode(result.heap, id) /\ IsDiscriminated(result.heap, id)
=============================================================================
