-------------------------- MODULE MCPluginPipeline --------------------------
(* Small instances of PluginPipeline and ValidationPlugin for TLC. *)
EXTENDS ValidationPlugin

\* A name spelled plainly, the same with capitals and a hash, and two that are
\* relative to what holds them.
Plain(path) == Name("example", path, FALSE, FALSE)
A == Plain("a")
Odd == Name("example", "a", TRUE, TRUE)
B == Plain("b")
Relative == Name("", "b", FALSE, FALSE)

At(id, under) == [id |-> id, under |-> under]
Ones == {<<At(id, 0)>> : id \in {NoId, A, Odd, B}}
Twos == {<<At(outer, 0), At(inner, 1)>> : outer \in {NoId, Plain("c"), B},
                                          inner \in {A, Odd, Relative}}
Threes == {<<At(outer, 0), At(middle, 1), At(inner, under)>> :
              outer \in {NoId, Plain("c")}, middle \in {NoId, Plain("d"), Relative},
              inner \in {A, Odd, Relative}, under \in {1, 2}}
Named(shapes) == {Slot(nodes, {}) : nodes \in shapes}
Referring == {Slot(<<At(NoId, 0)>>, {id}) : id \in {A, B, Plain("c")}}

Built(schemas, statuses) ==
    [options |-> [schemas |-> schemas, statuses |-> statuses], requests |-> 0, edits |-> 0]
ThreeSlots ==
    {Built(<<s, t, r>>, {400, 500}) : s \in Named(Ones \cup Twos \cup Threes),
        t \in Named(Ones \cup Twos), r \in Named(Ones) \cup Referring}
OddStatuses ==
    {Built(<<>>, {low, high}) : low \in {-1, 199, 200, 400}, high \in {500, 599, 600}}

Object(keys) == [array |-> FALSE, keys |-> keys]
List(keys) == [array |-> TRUE, keys |-> keys]
MCFollowed ==
    ThreeSlots \cup OddStatuses \cup
    {[options |-> [schemas |-> <<>>, statuses |-> {400, 500}], requests |-> 2, edits |-> 2]}

\* A rejection with two details that read the same.
MCRejections ==
    {<<Object("status" :> -2 @@ "body" :> 2), Object("code" :> -2 @@ "details" :> 3),
       List("0" :> 4 @@ "1" :> 5), Object("message" :> -2), Object("message" :> -2)>>}
=============================================================================
