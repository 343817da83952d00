-------------------------- MODULE ValidationPlugin --------------------------
(***************************************************************************)
(* The validation plugin (packages/validation/src/index.ts): how it is     *)
(* built from up to four schemas that may refer to one another, and how    *)
(* the response with which it rejects a request gets past its own          *)
(* validation of responses.                                                *)
(*                                                                         *)
(* A behaviour follows the hooks of one request (PluginPipeline), a        *)
(* construction, or the responses of a plugin that was built; what a       *)
(* behaviour does not follow is at rest.                                   *)
(***************************************************************************)
EXTENDS PluginPipeline, Integers

CONSTANTS
    Followed,      \* the plugins: their options, and how many requests and
                   \* changes by other hooks a behaviour follows
    Rejections     \* responses as rejectRequest makes them: heaps, of which the
                   \* first object is the response

VARIABLES
    options,       \* the statuses and the schemas, see Slot
    built,         \* what became of the construction, in a set
    heap,          \* the objects there are, by number
    reply,         \* the response the hooks are at, 0 if it is no object
    snapshots,     \* requestRejections: the clone of each rejection
    serving,       \* "idle", "hooks" or "judged"; "unused" if not followed
    requests, edits,   \* how many are left
    rejected,      \* history: the heap in which each rejection was made
    processed,     \* history: the objects that process() was given
    bypassed       \* the last response was not validated

plugin == <<options, built, heap, reply, snapshots, serving, requests, edits,
            rejected, processed, bypassed>>

-----------------------------------------------------------------------------
(* Identifiers.  A written $id has a host, "" if it is relative, a path,   *)
(* and may end in a hash or spell its host in capitals.                    *)

NoId == [host |-> "", path |-> "", caps |-> FALSE, hash |-> FALSE]
Name(host, path, caps, hash) == [host |-> host, path |-> path, caps |-> caps, hash |-> hash]

\* Mutant: the host is not put in lower case.
AsSpelled(base, id) ==
    IF id.host # "" THEN [id EXCEPT !.hash = FALSE]
    ELSE IF id.path = "" THEN base ELSE [base EXCEPT !.path = id.path]

Normalized(base, id) ==
    IF id.host # "" THEN Name(id.host, id.path, FALSE, FALSE)
    ELSE IF id.path = "" THEN base ELSE [base EXCEPT !.path = id.path]

\* A slot is what one schema consists of and the names it refers to.  Its nodes
\* stand in the order in which the walk comes to them; `under' is the node that
\* holds a node, 0 for the first.
Slot(nodes, refers) == [nodes |-> nodes, refers |-> refers]
slots == options.schemas
Nodes(s) == DOMAIN slots[s].nodes
Node(s, n) == slots[s].nodes[n]

\* The base of what a node holds: a node that has no $id hands on its own.
BaseOf(s) ==
    LET base[n \in 0 .. Len(slots[s].nodes)] ==
            IF n = 0 THEN NoId
            ELSE Normalized(base[Node(s, n).under], Node(s, n).id) IN
    base
IdOf(s, n) == IF Node(s, n).id = NoId THEN NoId ELSE BaseOf(s)[n]

\* `resources': the first node of each name.
IsResource(s, n) ==
    IdOf(s, n) # NoId /\ \A m \in Nodes(s) : IdOf(s, m) = IdOf(s, n) => n <= m
Resources(s) == {n \in Nodes(s) : IsResource(s, n)}
IdsOf(s) == {IdOf(s, n) : n \in Resources(s)}

\* The nodes that hold n, and itself.
Holders(s, n) ==
    LET holders[k \in 0 .. Len(slots[s].nodes)] ==
            IF k = 0 THEN {} ELSE {k} \cup holders[Node(s, k).under] IN
    holders[n]

-----------------------------------------------------------------------------
(* Construction. *)

Siblings(t) == DOMAIN slots \ {t}

\* Names that the target has, or that two other slots have.
Unavailable(t) ==
    IdsOf(t) \cup UNION {IdsOf(s) \cap IdsOf(r) : <<s, r>> \in
                            {pair \in Siblings(t) \X Siblings(t) : pair[1] # pair[2]}}

\* Mutant: only the resource right above is held back.
BlockedAbove(s, names) ==
    {n \in Resources(s) :
        \E m \in Resources(s) :
            /\ IdOf(s, m) \in names /\ m # n /\ n \in Holders(s, m)
            /\ \A h \in Holders(s, m) \cap Resources(s) : h \in {m} \/ h <= n}

\* A resource that holds a name which is unavailable cannot be added whole.
Blocked(s, names) ==
    {n \in Resources(s) :
        \E m \in Resources(s) : IdOf(s, m) \in names /\ m # n /\ n \in Holders(s, m)}

Registrations(t) ==
    LET names == Unavailable(t)
        Of(s) == SelectSeq([n \in Nodes(s) |-> <<s, n>>],
                           LAMBDA r : /\ r[1] # t /\ r[2] \in Resources(r[1])
                                      /\ IdOf(r[1], r[2]) \notin names
                                      /\ r[2] \notin Blocked(r[1], names)) IN
    FlattenSeq([s \in DOMAIN slots |-> Of(s)])

\* Mutant: parents first.
OuterFirst(registrations) == registrations

\* Nested resources are found after those that hold them, and are added before.
InnerFirst(registrations) == Reverse(registrations)

\* Ajv: a name is added once; what is nested in it may be known already as the
\* same schema, and is known from then on.
AddSchema(registry, s, n) ==
    LET inner == {m \in Nodes(s) : n \in Holders(s, m) /\ m # n /\ Node(s, m).id # NoId} IN
    [ok |-> /\ registry.ok
            /\ IdOf(s, n) # NoId => IdOf(s, n) \notin DOMAIN registry.known
            /\ \A m \in inner :
                  /\ IdOf(s, m) # IdOf(s, n)
                  /\ \A k \in inner : IdOf(s, k) = IdOf(s, m) => k = m
                  /\ IdOf(s, m) \in DOMAIN registry.known =>
                        registry.known[IdOf(s, m)] = <<s, m>>,
     known |-> registry.known @@ [id \in {IdOf(s, m) : m \in inner \cup {n}} \ {NoId} |->
                   <<s, CHOOSE m \in inner \cup {n} : IdOf(s, m) = id>>]]

\* The registry in which a slot compiles.
CompileSchema(t) ==
    LET Add(registry, r) == AddSchema(registry, r[1], r[2])
        added == FoldLeft(Add, [ok |-> TRUE, known |-> <<>>], InnerFirst(Registrations(t)))
        all == AddSchema(added, t, 1) IN
    [all EXCEPT !.ok = all.ok /\ slots[t].refers \subseteq DOMAIN all.known]

\* A status that may be configured; -1 is one that is no integer.
AssertHttpStatus(status) == status \in 200 .. 599

\* The constructor: it throws for the first thing that is wrong.
Construct ==
    /\ built = {} /\ serving = "idle"
    /\ built' = {[ok |-> /\ \A status \in options.statuses : AssertHttpStatus(status)
                         /\ \A t \in DOMAIN slots : CompileSchema(t).ok,
                  registries |-> [t \in DOMAIN slots |-> CompileSchema(t).known]]}
    /\ UNCHANGED <<options, heap, reply, snapshots, serving, requests, edits,
                   rejected, processed, bypassed>>

-----------------------------------------------------------------------------
(* Graphs of objects.  What is no object is 0 or less. *)

IsObject(value) == value > 0
Values(h, o) == {h[o].keys[k] : k \in DOMAIN h[o].keys}
RECURSIVE Reach(_, _)
Reach(h, from) ==
    LET more == {v \in UNION {Values(h, o) : o \in from} : IsObject(v)} IN
    IF more \subseteq from THEN from ELSE Reach(h, from \cup more)
Graph(h, value) == IF IsObject(value) THEN Reach(h, {value}) ELSE {}

\* Mutant: only the object itself is copied.
ShallowClone(h, value) == Append(h, h[value])

\* The heap with a copy of the graph of an object after it, whose own copy is
\* the first: an object that is met again is copied once.
CloneGraph(h, value) ==
    LET source == <<value>> \o SetToSeq(Graph(h, value) \ {value})
        Clone(v) == IF IsObject(v) THEN Len(h) + IndexFirstSubSeq(<<v>>, source) ELSE v IN
    h \o [i \in DOMAIN source |->
            [array |-> h[source[i]].array,
             keys |-> [k \in DOMAIN h[source[i]].keys |-> Clone(h[source[i]].keys[k])]]]

\* The pairs that are still to be compared, the last first; what was paired.
RECURSIVE Compared(_, _, _, _)
Compared(h, pending, firstMatches, secondMatches) ==
    pending # <<>> =>
        LET left == Last(pending)[1]
            right == Last(pending)[2]
            rest == Front(pending)
            Pairs(keys) == [i \in DOMAIN keys |-> <<h[left].keys[keys[i]], h[right].keys[keys[i]]>>] IN
        CASE left = right ->
                Compared(h, rest, firstMatches, secondMatches)
          [] left # right /\ ~(IsObject(left) /\ IsObject(right)) -> FALSE
          [] OTHER ->
                /\ h[left].array = h[right].array
                /\ IF left \in DOMAIN firstMatches
                   THEN /\ firstMatches[left] = right
                        /\ Compared(h, rest, firstMatches, secondMatches)
                   ELSE /\ right \in DOMAIN secondMatches => secondMatches[right] = left
                        /\ DOMAIN h[left].keys = DOMAIN h[right].keys
                        /\ Compared(h, rest \o Pairs(SetToSeq(DOMAIN h[left].keys)),
                                    firstMatches @@ (left :> right),
                                    secondMatches @@ (right :> left))

GraphEquals(h, first, second) == Compared(h, <<<<first, second>>>>, <<>>, <<>>)

-----------------------------------------------------------------------------
(* Requests.  The hooks that come after the plugin's first and before its    *)
(* other may change or replace the response.                                 *)

Serves == built # {} /\ \A b \in built : b.ok
Has(o) == o \in DOMAIN snapshots

\* rejectRequest: one of Rejections, after the objects there are.
RejectRequest ==
    /\ Serves /\ serving = "idle" /\ requests > 0
    /\ \E made \in Rejections :
          LET Moved(v) == IF IsObject(v) THEN Len(heap) + v ELSE v
              all == heap \o [i \in DOMAIN made |->
                         [made[i] EXCEPT !.keys = [k \in DOMAIN @ |-> Moved(@[k])]]] IN
          /\ reply' = Len(heap) + 1
          /\ heap' = CloneGraph(all, reply')
          /\ snapshots' = snapshots @@ (reply' :> Len(all) + 1)
          /\ rejected' = rejected @@ (reply' :> all)
    /\ serving' = "hooks" /\ requests' = requests - 1
    /\ UNCHANGED <<options, built, edits, processed, bypassed>>

\* A request that passes, to which a hook or the route answers with an object
\* that somebody kept, or with something else.
BeforeRequestPasses ==
    /\ Serves /\ serving = "idle" /\ requests > 0
    /\ reply' \in DOMAIN rejected \cup {0}
    /\ serving' = "hooks" /\ requests' = requests - 1
    /\ UNCHANGED <<options, built, heap, snapshots, edits, rejected, processed, bypassed>>

MayEdit == serving = "hooks" /\ edits > 0 /\ edits' = edits - 1 /\ IsObject(reply)

\* A hook sets or deletes a member of the response.
HookEdits ==
    /\ MayEdit
    /\ \E o \in Graph(heap, reply) :
          \/ \E k \in DOMAIN heap[o].keys, v \in Graph(heap, reply) \cup {0} :
                heap' = [heap EXCEPT ![o].keys[k] = v]
          \/ \E k \in DOMAIN heap[o].keys :
                /\ ~heap[o].array
                /\ heap' = [heap EXCEPT ![o].keys =
                              [j \in DOMAIN heap[o].keys \ {k} |-> heap[o].keys[j]]]
          \/ ~heap[o].array /\ heap' = [heap EXCEPT ![o].keys = @ @@ ("other" :> 0)]
    /\ UNCHANGED <<options, built, reply, snapshots, serving, requests, rejected,
                   processed, bypassed>>

\* A hook puts an equal object in the place of the response, or of a member.
HookReplaces ==
    /\ MayEdit
    /\ \/ heap' = CloneGraph(heap, reply) /\ reply' = Len(heap) + 1
       \/ \E o \in Graph(heap, reply) : \E k \in DOMAIN heap[o].keys :
             /\ IsObject(heap[o].keys[k])
             /\ heap' = [CloneGraph(heap, heap[o].keys[k]) EXCEPT ![o].keys[k] = Len(heap) + 1]
             /\ UNCHANGED reply
    /\ UNCHANGED <<options, built, snapshots, serving, requests, rejected, processed, bypassed>>

\* Mutant: the snapshot stays.
Keep(o) == snapshots

\* requestRejections.delete
Delete(o) == [p \in DOMAIN snapshots \ {o} |-> snapshots[p]]

Process ==
    /\ serving = "hooks"
    /\ serving' = "judged"
    /\ snapshots' = IF Has(reply) THEN Delete(reply) ELSE snapshots
    /\ bypassed' = (Has(reply) /\ GraphEquals(heap, reply, snapshots[reply]))
    /\ UNCHANGED <<options, built, heap, reply, requests, edits, rejected, processed>>

\* The request is over; a hook before the plugin's may have failed.
EndRequest ==
    /\ serving \in {"hooks", "judged"}
    /\ serving' = "idle"
    /\ processed' = IF serving = "judged" THEN processed \cup {reply} ELSE processed
    /\ reply' = 0 /\ bypassed' = FALSE
    /\ UNCHANGED <<options, built, heap, snapshots, requests, edits, rejected>>

-----------------------------------------------------------------------------

PluginStep ==
    \/ Construct \/ RejectRequest \/ BeforeRequestPasses \/ HookEdits \/ HookReplaces
    \/ Process \/ EndRequest

NoPlugin ==
    /\ options = [schemas |-> <<>>, statuses |-> {}] /\ serving = "unused"
    /\ requests = 0 /\ edits = 0

NoPipeline ==
    /\ guards = {} /\ handlers = {} /\ static = TRUE /\ signalled = FALSE
    /\ phase = "settled" /\ index = 0 /\ failed = 0
    /\ ctx = 0 /\ error = 0 /\ response = 0
    /\ log = <<>> /\ calling = FALSE /\ aborted = FALSE
    /\ result = NoResult /\ outcome = NoResult

HooksInit ==
    /\ \/ Init /\ NoPlugin
       \/ /\ NoPipeline /\ serving = "idle"
          /\ \E f \in Followed :
                options = f.options /\ requests = f.requests /\ edits = f.edits
    /\ built = {} /\ heap = <<>> /\ reply = 0 /\ snapshots = <<>>
    /\ rejected = <<>> /\ processed = {} /\ bypassed = FALSE

HooksNext ==
    \/ Next /\ UNCHANGED plugin
    \/ PluginStep /\ UNCHANGED vars

HooksSpec ==
    /\ HooksInit /\ [][HooksNext]_<<vars, plugin>>
    /\ WF_vars(MockStep /\ UNCHANGED plugin)

-----------------------------------------------------------------------------
(* Properties. *)

\* "Only the original, unchanged rejection bypasses response validation once"
\* (index.ts 488): the response that process() is given goes out unvalidated if
\* and only if it is an object that a rejection made, process() was never given
\* it before, and what can be reached from it is, member by member and with what
\* is shared and what is not, as it was when the request was rejected, whatever
\* the hooks in between changed, replaced or put back.
RejectionsPassOnce ==
    serving = "judged" =>
        LET before == rejected[reply]
            RECURSIVE Facing(_)
            Facing(pairs) ==
                LET more == UNION {{<<before[p[1]].keys[k], heap[p[2]].keys[k]>> :
                                       k \in DOMAIN before[p[1]].keys \cap DOMAIN heap[p[2]].keys} :
                                   p \in {q \in pairs : IsObject(q[1]) /\ IsObject(q[2])}} IN
                IF more \subseteq pairs THEN pairs ELSE Facing(pairs \cup more)
            all == Facing({<<reply, reply>>}) IN
        bypassed <=>
            /\ reply \in DOMAIN rejected /\ reply \notin processed
            /\ \A p \in all :
                  IF ~IsObject(p[1]) THEN p[1] = p[2]
                  ELSE /\ IsObject(p[2])
                       /\ before[p[1]].array = heap[p[2]].array
                       /\ DOMAIN before[p[1]].keys = DOMAIN heap[p[2]].keys
                       /\ \A q \in all : p[1] = q[1] <=> p[2] = q[2]

\* "Each slot compiles in its own registry, while unique sibling IDs are added as
\* references.  This keeps duplicate root IDs isolated without losing refs"
\* (index.ts 463-464), for schemas none of which has a name twice or both has
\* names and refers to others: each slot knows, whatever their order and nesting
\* and however they are spelled, its own names, as itself, and each name of one
\* other slot that it can have whole - what holds the name nested in it must be
\* nobody else's - and no other; the construction fails only for a status, or
\* for a reference to something else.
SlotsKeepApart ==
    LET Own(t) == {n \in Nodes(t) : Node(t, n).id # NoId}
        Nearest(t, n, field) ==
            LET named == {h \in Holders(t, n) : Node(t, h).id[field] # ""} IN
            IF named = {} THEN "" ELSE Node(t, Max(named)).id[field]
        Denoted(t, n) == Name(Nearest(t, n, "host"), Nearest(t, n, "path"), FALSE, FALSE)
        Alone(t) ==
            /\ \A m, n \in Own(t) : Denoted(t, m) = Denoted(t, n) => m = n
            /\ \A n \in Own(t) : Denoted(t, n) # NoId
            /\ slots[t].refers # {} => Own(t) = {}
        Whole(s, n) ==
            \A m \in Own(s), r \in DOMAIN slots \ {s} :
                n \in Holders(s, m) =>
                    \A k \in Own(r) : Denoted(r, k) # Denoted(s, m)
        Known(t) == {<<t, n>> : n \in Own(t)}
                    \cup UNION {{<<s, n>> : n \in {o \in Own(s) : Whole(s, o)}} : s \in Siblings(t)}
        names == [t \in DOMAIN slots |-> {Denoted(k[1], k[2]) : k \in Known(t)}] IN
    serving = "idle" /\ (\A t \in DOMAIN slots : Alone(t)) =>
        \A b \in built :
            /\ b.ok <=> /\ options.statuses \subseteq 200 .. 599
                        /\ \A t \in DOMAIN slots : slots[t].refers \subseteq names[t]
            /\ b.ok => \A t \in DOMAIN slots :
                  /\ DOMAIN b.registries[t] = names[t]
                  /\ \A k \in Known(t) : b.registries[t][Denoted(k[1], k[2])] = k

=============================================================================
