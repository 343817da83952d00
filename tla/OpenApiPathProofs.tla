------------------------- MODULE OpenApiPathProofs -------------------------
(***************************************************************************)
(* Proofs about the path of a request through the OpenAPI plugin and about *)
(* the schemas that its values are generated from, for any operations,     *)
(* requests, pipes, rows, schemas and tables of field mappings:            *)
(*  - the walk of validateSchema() lists each schema after those it leads  *)
(*    to (OrderIsTopological), by itself and between the other steps of a  *)
(*    request;                                                             *)
(*  - what is committed, judged, announced and delivered is one response   *)
(*    (OneResponse), and its type is the one that suits the client best    *)
(*    (AcceptableOrRefused), by the invariant RequestInv;                  *)
(*  - the pages of a list, put together, are the rows that pass the filter,*)
(*    each once and in order (PagesCoverTheList), by ListInv;              *)
(*  - what a document declares is served, and nothing else                 *)
(*    (DeclaredIsServed), by SurfaceInv;                                   *)
(*  - what json-schema-faker is handed of a schema respects the schema     *)
(*    (ContractIsHanded), by the invariant FakerInv.                       *)
(***************************************************************************)
EXTENDS OpenApiPath, FakerSchemas, FiniteSetTheorems, SequenceTheorems, WellFoundedInduction, TLAPS

Frames == [schema : DOMAIN graph, typed : BOOLEAN, exiting : BOOLEAN]

TypeInv ==
    /\ graph \in Graphs
    /\ stack \in Seq(Frames)
    /\ postOrder \in Seq(DOMAIN graph)
    /\ current \in [schema : DOMAIN graph, typed : BOOLEAN]
    /\ left \in Nat /\ left <= Len(Edges(current.schema))

\* A frame waits for a schema that is open only below the frame that leaves it.
OpenIsAbove ==
    \A i \in 1 .. Len(stack) :
        ~stack[i].exiting /\ stack[i].schema \in active =>
            \E p \in i + 1 .. Len(stack) :
                stack[p].exiting /\ stack[p].schema = stack[i].schema

\* The schema is done, or will be before the frame at i.
Covered(n, i) ==
    n \in completed \/ \E j \in i + 1 .. Len(stack) : stack[j].schema = n

\* What an open schema leads to comes before it, but for the edges that are
\* still to be pushed.
Scheduled ==
    ~circular => \A i \in 1 .. Len(stack) : stack[i].exiting =>
        \A k \in 1 .. Len(Edges(stack[i].schema)) :
            \/ Covered(Edges(stack[i].schema)[k].to, i)
            \/ stack[i].schema = current.schema /\ k <= left

Listed == \A n \in completed : \E j \in 1 .. Len(postOrder) : postOrder[j] = n

OrderSoFar ==
    ~circular => \A i \in 1 .. Len(postOrder) :
        \A k \in 1 .. Len(Edges(postOrder[i])) :
            \E j \in 1 .. i - 1 : postOrder[j] = Edges(postOrder[i])[k].to

WalkInv ==
    TypeInv /\ OpenIsAbove /\ Scheduled /\ Listed /\ OrderSoFar /\ Covered(1, 0)

-----------------------------------------------------------------------------

\* The edges of a schema lead to schemas.
LEMMA EdgesType ==
    ASSUME TypeInv, NEW n \in DOMAIN graph
    PROVE  /\ Edges(n) \in Seq([role : STRING, to : DOMAIN graph])
           /\ Len(Edges(n)) \in Nat
           /\ \A k \in 1 .. Len(Edges(n)) : Edges(n)[k].to \in DOMAIN graph
<1>1. Edges(n) \in Seq([role : STRING, to : DOMAIN graph])
  BY GraphsAssumption DEF TypeInv, Edges
<1>2. \A k \in 1 .. Len(Edges(n)) : Edges(n)[k] \in [role : STRING, to : DOMAIN graph]
  BY <1>1, ElementOfSeq
<1> QED
  BY <1>1, <1>2

\* The stack without its top.
LEMMA PopIsShorter ==
    ASSUME TypeInv, stack # <<>>
    PROVE  /\ Len(stack) \in Nat /\ Len(stack) > 0
           /\ Pop \in Seq(Frames)
           /\ Len(Pop) = Len(stack) - 1
           /\ \A i \in 1 .. Len(stack) - 1 : Pop[i] = stack[i]
           /\ Top \in Frames
<1>1. stack \in Seq(Frames)
  BY DEF TypeInv
<1>2. Len(stack) \in Nat /\ Len(stack) > 0
  BY <1>1, EmptySeq
<1>3. \A i \in 1 .. Len(stack) : stack[i] \in Frames
  BY <1>1, ElementOfSeq
<1>4. Top \in Frames
  BY <1>2, <1>3 DEF Top
<1>5. /\ Pop \in Seq(Frames)
      /\ Len(Pop) = IF 1 <= Len(stack) - 1 THEN (Len(stack) - 1) - 1 + 1 ELSE 0
      /\ \A i \in 1 .. (Len(stack) - 1) - 1 + 1 : Pop[i] = stack[1 + i - 1]
  <2>1. 1 \in Int /\ Len(stack) - 1 \in Int
    BY <1>2
  <2>2. \A i \in 1 .. Len(stack) - 1 : stack[i] \in Frames
    BY <1>2, <1>3
  <2> QED
    BY <2>1, <2>2, SubSeqProperties DEF Pop
<1>6. Len(Pop) = Len(stack) - 1
  <2>1. Len(Pop) = IF 1 <= Len(stack) - 1 THEN (Len(stack) - 1) - 1 + 1 ELSE 0
    BY <1>5
  <2>2. CASE Len(stack) = 1
    BY <2>1, <2>2
  <2>3. CASE Len(stack) > 1
    <3>1. Len(stack) \in Int /\ 1 <= Len(stack) - 1
      BY <1>2, <2>3
    <3> QED
      BY <2>1, <3>1
  <2> QED
    BY <1>2, <2>2, <2>3
<1>7. ASSUME NEW i \in 1 .. Len(stack) - 1
      PROVE  Pop[i] = stack[i]
  <2>1. i \in 1 .. (Len(stack) - 1) - 1 + 1 /\ 1 + i - 1 = i
    BY <1>2
  <2>2. Pop[i] = stack[1 + i - 1]
    BY <1>5, <2>1
  <2> QED
    BY <2>1, <2>2
<1> QED
  BY <1>2, <1>4, <1>5, <1>6, <1>7

\* The schema of a frame.
LEMMA FrameType ==
    ASSUME TypeInv, NEW i \in 1 .. Len(stack)
    PROVE  stack[i] \in Frames /\ stack[i].schema \in DOMAIN graph
<1>1. stack[i] \in Frames
  BY ElementOfSeq DEF TypeInv
<1> QED
  BY <1>1 DEF Frames

-----------------------------------------------------------------------------

\* Before the first step only the root waits.
LEMMA InitHolds == ASSUME NEW g \in Graphs, NEW c, SchemaFrom(g, c) PROVE WalkInv
<1>1. SchemaFrom(g, c)
  OBVIOUS
<1>2. graph \in Graphs /\ 1 \in DOMAIN graph
  BY <1>1, GraphsAssumption DEF SchemaFrom
<1>3. /\ stack = <<Frame(1, TRUE, FALSE)>> /\ Frame(1, TRUE, FALSE) \in Frames
      /\ Len(stack) = 1 /\ stack[1] = Frame(1, TRUE, FALSE)
  BY <1>1, <1>2 DEF SchemaFrom, Frame, Frames
<1>4. TypeInv
  <2>1. stack \in Seq(Frames)
    <3> DEFINE first == Frame(1, TRUE, FALSE)
    <3>1. first \in Frames /\ stack = <<first>>
      BY <1>3
    <3> HIDE DEF first
    <3> QED
      BY <3>1
  <2>2. Edges(1) \in Seq([role : STRING, to : DOMAIN graph])
    BY <1>2, GraphsAssumption DEF Edges
  <2>3. Len(Edges(1)) \in Nat
    BY <2>2, LenProperties
  <2>4. current.schema = 1 /\ current \in [schema : DOMAIN graph, typed : BOOLEAN]
    BY <1>1, <1>2 DEF SchemaFrom
  <2>5. postOrder \in Seq(DOMAIN graph) /\ left = 0
    BY <1>1 DEF SchemaFrom
  <2>6. left \in Nat /\ left <= Len(Edges(current.schema))
    BY <2>3, <2>4, <2>5
  <2> QED
    BY <1>2, <2>1, <2>3, <2>4, <2>5, <2>6 DEF TypeInv
<1>5. OpenIsAbove /\ Scheduled /\ Listed /\ OrderSoFar
  BY <1>1, <1>3 DEF SchemaFrom, OpenIsAbove, Scheduled, Listed, OrderSoFar, Frame
<1>6. Covered(1, 0)
  BY <1>3 DEF Covered, Frame
<1> QED
  BY <1>4, <1>5, <1>6 DEF WalkInv

-----------------------------------------------------------------------------

\* What comes before the frame at i still does, if a frame goes only when its
\* schema is completed.
LEMMA CoveredIsKept ==
    ASSUME TypeInv, completed \subseteq completed', Len(stack') \in Nat,
           NEW i \in Nat, NEW n, Covered(n, i),
           \A j \in 1 .. Len(stack) :
              \/ stack[j].schema \in completed'
              \/ j <= Len(stack') /\ stack'[j].schema = stack[j].schema
    PROVE  Covered(n, i)'
<1>1. Len(stack) \in Nat
  BY LenProperties DEF TypeInv
<1>2. CASE n \in completed
  BY <1>2 DEF Covered
<1>3. CASE n \notin completed
  <2>1. PICK j \in i + 1 .. Len(stack) : stack[j].schema = n
    BY <1>3 DEF Covered
  <2>2. j \in 1 .. Len(stack) /\ j \in Nat
    BY <1>1, <2>1
  <2>3. \/ n \in completed'
        \/ j <= Len(stack') /\ stack'[j].schema = n
    BY <2>1, <2>2
  <2>4. ASSUME j <= Len(stack'), stack'[j].schema = n
        PROVE  \E l \in i + 1 .. Len(stack') : stack'[l].schema = n
    BY <2>1, <2>2, <2>4
  <2> QED
    BY <2>3, <2>4 DEF Covered
<1> QED
  BY <1>2, <1>3

\* A frame is taken from the stack: that of a completed schema.
LEMMA PopKeeps ==
    ASSUME WalkInv, stack # <<>>, left = 0, stack' = Pop,
           graph' = graph /\ circular' = circular /\ current' = current /\ left' = left,
           completed' = completed \cup {Top.schema},
           active' \subseteq active, Top.exiting => Top.schema \notin active'
    PROVE  /\ stack' \in Seq(Frames)'
           /\ OpenIsAbove' /\ Scheduled' /\ Covered(1, 0)'
<1>1. TypeInv
  BY DEF WalkInv
<1>2. Len(stack) \in Nat /\ Len(stack) > 0
  BY <1>1, PopIsShorter
<1>3. /\ stack' \in Seq(Frames) /\ Len(stack') = Len(stack) - 1
      /\ \A i \in 1 .. Len(stack) - 1 : stack'[i] = stack[i]
  BY <1>1, PopIsShorter
<1>4. ASSUME NEW i \in Nat, NEW n, Covered(n, i)
      PROVE  Covered(n, i)'
  <2>1. ASSUME NEW j \in 1 .. Len(stack)
        PROVE  \/ stack[j].schema \in completed'
               \/ j <= Len(stack') /\ stack'[j].schema = stack[j].schema
    <3>1. CASE j = Len(stack)
      BY <3>1 DEF Top
    <3>2. CASE j # Len(stack)
      <4>1. j \in 1 .. Len(stack) - 1 /\ j <= Len(stack')
        BY <1>2, <1>3, <3>2
      <4> QED
        BY <1>3, <4>1
    <3> QED
      BY <3>1, <3>2
  <2>2. completed \subseteq completed' /\ Len(stack') \in Nat
    BY <1>2, <1>3
  <2> QED
    BY <1>1, <1>4, <2>1, <2>2, CoveredIsKept
<1>5. OpenIsAbove'
  <2> SUFFICES ASSUME NEW i \in 1 .. Len(stack'), ~stack'[i].exiting,
                      stack'[i].schema \in active'
               PROVE  \E p \in i + 1 .. Len(stack') :
                         stack'[p].exiting /\ stack'[p].schema = stack'[i].schema
    BY DEF OpenIsAbove
  <2>1. Len(stack') = Len(stack) - 1
    BY <1>3
  <2>2. i \in 1 .. Len(stack) - 1 /\ i \in 1 .. Len(stack) /\ stack'[i] = stack[i]
    BY <1>2, <1>3
  <2>3. PICK p \in i + 1 .. Len(stack) :
           stack[p].exiting /\ stack[p].schema = stack[i].schema
    BY <2>2 DEF WalkInv, OpenIsAbove
  <2>4. p # Len(stack)
    BY <2>2, <2>3 DEF Top
  <2>5. p \in i + 1 .. Len(stack') /\ p \in 1 .. Len(stack) - 1
    BY <1>2, <2>1, <2>2, <2>4
  <2> QED
    BY <1>3, <2>2, <2>3, <2>5
<1>6. Scheduled'
  <2> SUFFICES ASSUME ~circular', NEW i \in 1 .. Len(stack'), stack'[i].exiting,
                      NEW k \in 1 .. Len(Edges(stack[i].schema)')
               PROVE  Covered(Edges(stack[i].schema)[k].to, i)'
    BY DEF Scheduled
  <2>1. i \in Nat /\ i \in 1 .. Len(stack) /\ stack'[i] = stack[i]
    BY <1>2, <1>3
  <2>2. Edges(stack[i].schema)' = Edges(stack[i].schema)
    BY <2>1 DEF Edges
  <2>3. Covered(Edges(stack[i].schema)[k].to, i) \/ k <= left
    BY <2>1, <2>2 DEF WalkInv, Scheduled
  <2>4. Covered(Edges(stack[i].schema)[k].to, i)
    BY <2>3
  <2> QED
    BY <1>4, <2>1, <2>2, <2>4
<1>7. Covered(1, 0)'
  BY <1>4 DEF WalkInv
<1> QED
  BY <1>3, <1>5, <1>6, <1>7 DEF Frames

\* Leaving a schema: all it leads to was completed before it.
LEMMA LeaveKeeps == ASSUME WalkInv, Leave PROVE WalkInv'
<1> DEFINE gone == Top.schema
<1>1. TypeInv /\ stack # <<>> /\ left = 0 /\ Top.exiting
  BY DEF WalkInv, Leave, Walking
<1>2. /\ stack' = Pop /\ completed' = completed \cup {gone}
      /\ active' = active \ {gone} /\ postOrder' = Append(postOrder, gone)
      /\ graph' = graph /\ circular' = circular /\ current' = current /\ left' = left
  BY DEF Leave
<1>3. Len(stack) \in Nat /\ Len(stack) > 0 /\ Top \in Frames /\ gone \in DOMAIN graph
  BY <1>1, PopIsShorter DEF Frames
<1>4. stack' \in Seq(Frames)' /\ OpenIsAbove' /\ Scheduled' /\ Covered(1, 0)'
  BY <1>1, <1>2, PopKeeps
<1>5. stack[Len(stack)].schema = gone /\ stack[Len(stack)].exiting
  BY <1>1 DEF Top
<1>6. /\ postOrder' \in Seq(DOMAIN graph) /\ Len(postOrder) \in Nat
      /\ Len(postOrder') = Len(postOrder) + 1
      /\ \A i \in 1 .. Len(postOrder) : postOrder'[i] = postOrder[i]
      /\ postOrder'[Len(postOrder) + 1] = gone
  <2>1. postOrder \in Seq(DOMAIN graph)
    BY <1>1 DEF TypeInv
  <2> HIDE DEF gone
  <2> QED
    BY <1>2, <1>3, <2>1, AppendProperties, LenProperties
<1> HIDE DEF gone
<1>7. TypeInv'
  BY <1>1, <1>2, <1>4, <1>6 DEF TypeInv, Edges
<1>8. ASSUME NEW n \in completed'
      PROVE  \E j \in 1 .. Len(postOrder') : postOrder'[j] = n
  <2>1. CASE n = gone
    BY <1>6, <2>1
  <2>2. CASE n # gone
    <3>1. PICK j \in 1 .. Len(postOrder) : postOrder[j] = n
      BY <1>2, <2>2 DEF WalkInv, Listed
    <3> QED
      BY <1>6, <3>1
  <2> QED
    BY <2>1, <2>2
<1>9. OrderSoFar'
  <2> SUFFICES ASSUME ~circular', NEW i \in 1 .. Len(postOrder'),
                      NEW k \in 1 .. Len(Edges(postOrder[i])')
               PROVE  \E j \in 1 .. i - 1 : postOrder'[j] = (Edges(postOrder[i])')[k].to
    BY DEF OrderSoFar
  <2>1. CASE i = Len(postOrder) + 1
    <3>1. Edges(postOrder[i])' = Edges(gone)
      BY <1>2, <1>6, <2>1 DEF Edges
    <3>2. Len(stack) \in 1 .. Len(stack)
      BY <1>3
    <3>3. Covered(Edges(gone)[k].to, Len(stack)) \/ k <= left
      BY <1>2, <1>5, <3>1, <3>2 DEF WalkInv, Scheduled
    <3>4. ~(k <= left)
      BY <1>1
    <3>5. ~(\E j \in Len(stack) + 1 .. Len(stack) : stack[j].schema = Edges(gone)[k].to)
      BY <1>3
    <3>6. Edges(gone)[k].to \in completed
      BY <3>3, <3>4, <3>5 DEF Covered
    <3>7. PICK j \in 1 .. Len(postOrder) : postOrder[j] = Edges(gone)[k].to
      BY <3>6 DEF WalkInv, Listed
    <3>8. j \in 1 .. i - 1 /\ postOrder'[j] = postOrder[j]
      BY <1>6, <2>1, <3>7
    <3> QED
      BY <3>1, <3>7, <3>8
  <2>2. CASE i # Len(postOrder) + 1
    <3>1. i \in 1 .. Len(postOrder) /\ postOrder'[i] = postOrder[i]
      BY <1>6, <2>2
    <3>2. Edges(postOrder[i])' = Edges(postOrder[i])
      BY <1>2, <3>1 DEF Edges
    <3>3. PICK j \in 1 .. i - 1 : postOrder[j] = Edges(postOrder[i])[k].to
      BY <1>2, <3>1, <3>2 DEF WalkInv, OrderSoFar
    <3>4. postOrder'[j] = postOrder[j]
      BY <1>6, <3>1, <3>3
    <3> QED
      BY <3>2, <3>3, <3>4
  <2> QED
    BY <2>1, <2>2
<1> QED
  BY <1>4, <1>7, <1>8, <1>9 DEF WalkInv, Listed

\* The invariant reads neither the counts, nor the verdict, nor `visited`.
LEMMA UnchangedKeeps ==
    ASSUME WalkInv,
           graph' = graph /\ stack' = stack /\ active' = active /\ completed' = completed,
           circular' = circular /\ postOrder' = postOrder /\ current' = current,
           left' = left
    PROVE  WalkInv'
<1>1. TypeInv'
  BY DEF WalkInv, TypeInv, Frames, Edges
<1>2. OpenIsAbove' /\ Covered(1, 0)'
  BY DEF WalkInv, OpenIsAbove, Covered
<1>3. Scheduled'
  BY DEF WalkInv, Scheduled, Covered, Edges
<1>4. Listed'
  BY DEF WalkInv, Listed
<1>5. OrderSoFar'
  <2>1. OrderSoFar /\ graph' = graph /\ circular' = circular /\ postOrder' = postOrder
    BY DEF WalkInv
  <2> QED
    BY ONLY <2>1, ZenonT(30) DEF OrderSoFar, Edges
<1> QED
  BY <1>1, <1>2, <1>3, <1>4, <1>5 DEF WalkInv

\* A schema that is completed is passed over.
LEMMA SkipKeeps == ASSUME WalkInv, Skip PROVE WalkInv'
<1>1. TypeInv /\ stack # <<>> /\ left = 0 /\ ~Top.exiting /\ Top.schema \in completed
  BY DEF WalkInv, Skip, Walking
<1>2. /\ graph' = graph /\ active' = active /\ completed' = completed
      /\ circular' = circular /\ postOrder' = postOrder /\ current' = current
      /\ left' = left
  BY DEF Skip, Refuse, walk
<1>3. stack' = stack \/ stack' = Pop
  BY DEF Skip, Refuse, walk
<1>4. CASE stack' = stack
  BY <1>2, <1>4, UnchangedKeeps
<1>5. CASE stack' = Pop
  <2>1. completed' = completed \cup {Top.schema}
    BY <1>1, <1>2
  <2>2. stack' \in Seq(Frames)' /\ OpenIsAbove' /\ Scheduled' /\ Covered(1, 0)'
    BY <1>1, <1>2, <1>5, <2>1, PopKeeps
  <2>3. TypeInv'
    BY <1>1, <1>2, <2>2 DEF TypeInv, Edges
  <2>4. Listed'
    BY <1>2 DEF WalkInv, Listed
  <2>5. OrderSoFar'
    <3>1. OrderSoFar /\ graph' = graph /\ circular' = circular /\ postOrder' = postOrder
      BY <1>2 DEF WalkInv
    <3> QED
      BY ONLY <3>1, ZenonT(30) DEF OrderSoFar, Edges
  <2> QED
    BY <2>2, <2>3, <2>4, <2>5 DEF WalkInv
<1> QED
  BY <1>3, <1>4, <1>5

\* A schema is entered: its waiting frame becomes the one that leaves it.
LEMMA EnterKeeps == ASSUME WalkInv, Enter PROVE WalkInv'
<1> DEFINE new == Top.schema
           exit == Frame(new, Top.typed, TRUE)
<1>1. TypeInv /\ stack # <<>> /\ left = 0 /\ ~Top.exiting
  BY DEF WalkInv, Enter, Walking
<1>2. CASE \E cause : Refuse(cause)
  BY <1>2, UnchangedKeeps DEF Refuse, walk
<1>3. ASSUME active' = active \cup {new}, stack' = Append(Pop, exit),
             current' = [schema |-> new, typed |-> Top.typed], left' = Len(Edges(new)),
             UNCHANGED <<graph, completed, circular, postOrder>>
      PROVE  WalkInv'
  <2>1. /\ Len(stack) \in Nat /\ Len(stack) > 0
        /\ Pop \in Seq(Frames) /\ Len(Pop) = Len(stack) - 1 /\ Top \in Frames
    BY <1>1, PopIsShorter
  <2>2. exit \in Frames /\ exit.schema = new /\ exit.exiting /\ new \in DOMAIN graph
        /\ Top.typed \in BOOLEAN
    BY <2>1 DEF Frames, Frame
  <2> HIDE DEF exit
  <2>3. /\ stack' \in Seq(Frames) /\ Len(stack') = Len(stack)
        /\ \A i \in 1 .. Len(stack) - 1 : stack'[i] = Pop[i]
        /\ stack'[Len(stack)] = exit
    <3>1. /\ stack' \in Seq(Frames) /\ Len(stack') = Len(Pop) + 1
          /\ \A i \in 1 .. Len(Pop) : stack'[i] = Pop[i]
          /\ stack'[Len(Pop) + 1] = exit
      BY <1>3, <2>1, <2>2, AppendProperties
    <3>2. Len(Pop) + 1 = Len(stack)
      BY <2>1
    <3> QED
      BY <2>1, <3>1, <3>2
  <2>4. \A i \in 1 .. Len(stack) - 1 : stack'[i] = stack[i]
    BY <1>1, <2>3, PopIsShorter
  <2>5. stack[Len(stack)].schema = new /\ ~stack[Len(stack)].exiting
    BY <1>1 DEF Top
  <2>6. Len(Edges(new)) \in Nat
    BY <1>1, <2>2, EdgesType
  <2> HIDE DEF new
  <2>7. TypeInv'
    <3>1. current' \in [schema : DOMAIN graph, typed : BOOLEAN] /\ current'.schema = new
      BY <1>3, <2>2
    <3>2. Edges(current.schema)' = Edges(new)
      BY <1>3, <3>1 DEF Edges
    <3>3. left' \in Nat /\ left' <= Len(Edges(current.schema)')
      BY <1>3, <2>6, <3>2
    <3>4. graph' \in Graphs /\ stack' \in Seq(Frames)' /\ postOrder' \in Seq(DOMAIN graph')
      BY <1>1, <1>3, <2>3 DEF TypeInv, Frames
    <3> QED
      BY <1>3, <3>1, <3>3, <3>4 DEF TypeInv
  <2>8. ASSUME NEW i \in Nat, NEW n, Covered(n, i)
        PROVE  Covered(n, i)'
    <3>1. ASSUME NEW j \in 1 .. Len(stack)
          PROVE  j <= Len(stack') /\ stack'[j].schema = stack[j].schema
      <4>1. CASE j = Len(stack)
        BY <2>1, <2>2, <2>3, <2>5, <4>1
      <4>2. CASE j # Len(stack)
        <5>1. j \in 1 .. Len(stack) - 1 /\ j <= Len(stack')
          BY <2>1, <2>3, <4>2
        <5> QED
          BY <2>4, <5>1
      <4> QED
        BY <4>1, <4>2
    <3>2. completed \subseteq completed' /\ Len(stack') \in Nat
      BY <1>3, <2>1, <2>3
    <3> QED
      BY <1>1, <2>8, <3>1, <3>2, CoveredIsKept
  <2>9. OpenIsAbove'
    <3> SUFFICES ASSUME NEW i \in 1 .. Len(stack'), ~stack'[i].exiting,
                        stack'[i].schema \in active'
                 PROVE  \E p \in i + 1 .. Len(stack') :
                           stack'[p].exiting /\ stack'[p].schema = stack'[i].schema
      BY DEF OpenIsAbove
    <3>1. Len(stack') = Len(stack) /\ i # Len(stack)
      BY <2>2, <2>3
    <3>2. i \in 1 .. Len(stack) - 1 /\ i \in 1 .. Len(stack)
      BY <2>1, <3>1
    <3>3. stack'[i] = stack[i]
      BY <2>4, <3>2
    <3>4. CASE stack[i].schema = new
      <4>1. Len(stack) \in i + 1 .. Len(stack')
        BY <2>1, <3>1, <3>2
      <4> QED
        BY <2>2, <2>3, <3>3, <3>4, <4>1
    <3>5. CASE stack[i].schema # new
      <4>1. PICK p \in i + 1 .. Len(stack) :
               stack[p].exiting /\ stack[p].schema = stack[i].schema
        BY <1>3, <3>2, <3>3, <3>5 DEF WalkInv, OpenIsAbove
      <4>2. p # Len(stack)
        BY <2>5, <4>1
      <4>3. p \in i + 1 .. Len(stack') /\ p \in 1 .. Len(stack) - 1
        BY <2>1, <3>1, <3>2, <4>2
      <4> QED
        BY <2>4, <3>3, <4>1, <4>3
    <3> QED
      BY <3>4, <3>5
  <2>10. Scheduled'
    <3> SUFFICES ASSUME ~circular', NEW i \in 1 .. Len(stack'), stack'[i].exiting,
                        NEW k \in 1 .. Len(Edges(stack[i].schema)')
                 PROVE  \/ Covered(Edges(stack[i].schema)[k].to, i)'
                        \/ stack'[i].schema = current'.schema /\ k <= left'
      BY DEF Scheduled
    <3>1. CASE i = Len(stack)
      <4>1. stack'[i].schema = new /\ current'.schema = new
        BY <1>3, <2>2, <2>3, <3>1
      <4>2. Edges(stack[i].schema)' = Edges(new)
        BY <1>3, <4>1 DEF Edges
      <4>3. k <= left'
        BY <1>3, <2>6, <4>2
      <4> QED
        BY <4>1, <4>3
    <3>2. CASE i # Len(stack)
      <4>1. i \in Nat /\ i \in 1 .. Len(stack) - 1 /\ i \in 1 .. Len(stack)
        BY <2>1, <2>3, <3>2
      <4>2. stack'[i] = stack[i]
        BY <2>4, <4>1
      <4>3. Edges(stack[i].schema)' = Edges(stack[i].schema)
        BY <1>3, <4>2 DEF Edges
      <4>4. Covered(Edges(stack[i].schema)[k].to, i) \/ k <= left
        BY <1>3, <4>1, <4>2, <4>3 DEF WalkInv, Scheduled
      <4>5. Covered(Edges(stack[i].schema)[k].to, i)
        BY <1>1, <4>4
      <4> QED
        BY <2>8, <4>1, <4>3, <4>5
    <3> QED
      BY <3>1, <3>2
  <2>11. Covered(1, 0)'
    BY <2>8 DEF WalkInv
  <2> QED
    BY <1>3, <2>7, <2>9, <2>10, <2>11 DEF WalkInv, Listed, OrderSoFar, Edges
<1> QED
  BY <1>2, <1>3 DEF Enter

\* An edge is pushed, or its end is completed, or there is a cycle.
LEMMA PushKeeps == ASSUME WalkInv, Push PROVE WalkInv'
<1> DEFINE edge == Edges(current.schema)[left]
           typed == current.typed /\ TypedContinuation(current.schema, edge.role)
<1>1. TypeInv /\ left > 0 /\ left' = left - 1 /\ left \in Nat
  BY DEF WalkInv, Push, TypeInv
<1>2. UNCHANGED <<graph, active, completed, postOrder, current>>
  BY DEF Push
<1>3. current.schema \in DOMAIN graph /\ current.typed \in BOOLEAN
  BY <1>1 DEF TypeInv
<1>4. left \in 1 .. Len(Edges(current.schema)) /\ edge.to \in DOMAIN graph
  <2>1. Len(Edges(current.schema)) \in Nat /\ left <= Len(Edges(current.schema))
    BY <1>1, <1>3, EdgesType DEF TypeInv
  <2>2. left \in 1 .. Len(Edges(current.schema))
    BY <1>1, <2>1
  <2> QED
    BY <1>1, <1>3, <2>2, EdgesType
<1> DEFINE frame == Frame(edge.to, typed, FALSE)
<1>5. PICK target, pushed : target = edge.to /\ pushed = frame
  OBVIOUS
<1>6. pushed \in Frames /\ pushed.schema = target /\ ~pushed.exiting
  <2>1. typed \in BOOLEAN
    BY <1>3
  <2> HIDE DEF edge, typed
  <2> QED
    BY <1>4, <1>5, <2>1 DEF Frames, Frame
<1>7. \/ target \in active /\ circular' = TRUE /\ stack' = stack
      \/ target \in completed /\ circular' = circular /\ stack' = stack
      \/ target \notin active /\ circular' = circular /\ stack' = Append(stack, pushed)
  BY <1>5 DEF Push, IsDue
<1>8. /\ graph' \in Graphs /\ postOrder' \in Seq(DOMAIN graph')
      /\ current' \in [schema : DOMAIN graph', typed : BOOLEAN]
      /\ left' \in Nat /\ left' <= Len(Edges(current.schema)')
  <2>1. Edges(current.schema)' = Edges(current.schema)
    BY <1>2 DEF Edges
  <2>2. left' \in Nat /\ left' <= Len(Edges(current.schema))
    BY <1>1, <1>4
  <2> QED
    BY <1>1, <1>2, <2>1, <2>2 DEF TypeInv
<1>9. Listed' /\ (circular' = circular \/ circular' = TRUE => OrderSoFar')
  <2>1. Listed'
    BY <1>2 DEF WalkInv, Listed
  <2>2. ASSUME circular' = circular PROVE OrderSoFar'
    <3>1. OrderSoFar
      BY DEF WalkInv
    <3> QED
      BY <1>2, <2>2, <3>1 DEF OrderSoFar, Edges
  <2>3. ASSUME circular' = TRUE PROVE OrderSoFar'
    BY <2>3 DEF OrderSoFar
  <2> QED
    BY <2>1, <2>2, <2>3
<1>10. CASE target \in active /\ circular' = TRUE /\ stack' = stack
  BY <1>1, <1>2, <1>8, <1>9, <1>10
     DEF WalkInv, TypeInv, OpenIsAbove, Scheduled, OrderSoFar, Covered, Frames
<1>11. ASSUME NEW i \in 1 .. Len(stack), ~circular, stack[i].exiting,
             NEW k \in 1 .. Len(Edges(stack[i].schema))
      PROVE  \/ Covered(Edges(stack[i].schema)[k].to, i)
             \/ stack[i].schema = current.schema /\ k <= left'
             \/ Edges(stack[i].schema)[k].to = target
  <2>1. \/ Covered(Edges(stack[i].schema)[k].to, i)
        \/ stack[i].schema = current.schema /\ k <= left
    BY <1>11 DEF WalkInv, Scheduled
  <2>2. Len(Edges(stack[i].schema)) \in Nat
    BY <1>1, FrameType, EdgesType
  <2>3. k <= left => k <= left' \/ k = left
    BY <1>1, <2>2
  <2> QED
    BY <1>5, <2>1, <2>3
<1> HIDE DEF edge, typed, frame
<1>12. CASE target \in completed /\ circular' = circular /\ stack' = stack
  <2>1. Scheduled'
    <3> SUFFICES ASSUME ~circular', NEW i \in 1 .. Len(stack'), stack'[i].exiting,
                        NEW k \in 1 .. Len(Edges(stack[i].schema)')
                 PROVE  \/ Covered(Edges(stack[i].schema)[k].to, i)'
                        \/ stack'[i].schema = current'.schema /\ k <= left'
      BY DEF Scheduled
    <3>1. Edges(stack[i].schema)' = Edges(stack[i].schema)
      BY <1>2, <1>12 DEF Edges
    <3>2. \/ Covered(Edges(stack[i].schema)[k].to, i)
          \/ stack[i].schema = current.schema /\ k <= left'
          \/ Edges(stack[i].schema)[k].to = target
      BY <1>11, <1>12, <3>1
    <3> QED
      BY <1>2, <1>12, <3>1, <3>2 DEF Covered
  <2> QED
    BY <1>2, <1>8, <1>9, <1>12, <2>1
       DEF WalkInv, TypeInv, OpenIsAbove, Covered, Frames
<1>13. CASE /\ target \notin active /\ circular' = circular
            /\ stack' = Append(stack, pushed)
  <2>1. stack \in Seq(Frames)
    BY <1>1 DEF TypeInv
  <2>2. Len(stack) \in Nat
    BY <2>1, LenProperties
  <2>3. /\ stack' \in Seq(Frames) /\ Len(stack') = Len(stack) + 1
        /\ \A i \in 1 .. Len(stack) : stack'[i] = stack[i]
        /\ stack'[Len(stack) + 1] = pushed
    BY <1>13, <1>6, <2>1, AppendProperties
  <2>4. ASSUME NEW i \in Nat, NEW n, Covered(n, i)
        PROVE  Covered(n, i)'
    <3>1. ASSUME NEW j \in 1 .. Len(stack)
          PROVE  j <= Len(stack') /\ stack'[j].schema = stack[j].schema
      BY <2>2, <2>3
    <3>2. completed \subseteq completed' /\ Len(stack') \in Nat
      BY <1>2, <2>2, <2>3
    <3> QED
      BY <1>1, <2>4, <3>1, <3>2, CoveredIsKept
  <2>5. ASSUME NEW i \in 1 .. Len(stack)
        PROVE  Covered(target, i)'
    <3>1. Len(stack) + 1 \in i + 1 .. Len(stack')
      BY <2>2, <2>3
    <3>2. stack'[Len(stack) + 1].schema = target
      BY <1>6, <2>3
    <3> QED
      BY <3>1, <3>2 DEF Covered
  <2>6. ASSUME NEW i \in 1 .. Len(stack'), i # Len(stack) + 1
        PROVE  i \in Nat /\ i \in 1 .. Len(stack) /\ stack'[i] = stack[i]
    BY <2>2, <2>3, <2>6
  <2>7. OpenIsAbove'
    <3> SUFFICES ASSUME NEW i \in 1 .. Len(stack'), ~stack'[i].exiting,
                        stack'[i].schema \in active'
                 PROVE  \E p \in i + 1 .. Len(stack') :
                           stack'[p].exiting /\ stack'[p].schema = stack'[i].schema
      BY DEF OpenIsAbove
    <3>1. i # Len(stack) + 1
      BY <1>2, <1>13, <1>6, <2>3
    <3>2. i \in 1 .. Len(stack) /\ stack'[i] = stack[i]
      BY <2>6, <3>1
    <3>3. PICK p \in i + 1 .. Len(stack) :
             stack[p].exiting /\ stack[p].schema = stack[i].schema
      BY <1>2, <3>2 DEF WalkInv, OpenIsAbove
    <3>4. p \in i + 1 .. Len(stack') /\ p \in 1 .. Len(stack)
      BY <2>2, <2>3, <3>2
    <3> QED
      BY <2>3, <3>2, <3>3, <3>4
  <2>8. Scheduled'
    <3> SUFFICES ASSUME ~circular', NEW i \in 1 .. Len(stack'), stack'[i].exiting,
                        NEW k \in 1 .. Len(Edges(stack[i].schema)')
                 PROVE  \/ Covered(Edges(stack[i].schema)[k].to, i)'
                        \/ stack'[i].schema = current'.schema /\ k <= left'
      BY DEF Scheduled
    <3>1. i # Len(stack) + 1
      BY <1>6, <2>3
    <3>2. i \in Nat /\ i \in 1 .. Len(stack) /\ stack'[i] = stack[i]
      BY <2>6, <3>1
    <3>3. Edges(stack[i].schema)' = Edges(stack[i].schema)
      BY <1>2, <3>2 DEF Edges
    <3>4. \/ Covered(Edges(stack[i].schema)[k].to, i)
          \/ stack[i].schema = current.schema /\ k <= left'
          \/ Edges(stack[i].schema)[k].to = target
      BY <1>11, <1>13, <3>2, <3>3
    <3> QED
      BY <1>2, <2>4, <2>5, <3>2, <3>3, <3>4
  <2>9. Covered(1, 0)'
    BY <2>4 DEF WalkInv
  <2>10. stack' \in Seq(Frames)'
    BY <1>2, <2>3 DEF Frames
  <2> QED
    BY <1>8, <1>9, <1>13, <2>7, <2>8, <2>9, <2>10 DEF WalkInv, TypeInv
<1> QED
  BY <1>10, <1>12, <1>13, <1>7

-----------------------------------------------------------------------------

\* Every step of the walk keeps the invariant; the judgement leaves the walk alone.
LEMMA NextKeeps == ASSUME WalkInv, [SchemaNext]_schemaVars PROVE WalkInv'
<1>1. CASE UNCHANGED schemaVars \/ Judge
  BY <1>1, UnchangedKeeps DEF schemaVars, walk, Judge
<1> QED
  BY <1>1, LeaveKeeps, SkipKeeps, EnterKeeps, PushKeeps DEF SchemaNext

\* The stack is empty: the root is in the order, after all it leads to.
LEMMA WalkInvImplies == ASSUME WalkInv PROVE OrderIsTopological
<1>1. TypeInv
  BY DEF WalkInv
<1>2. ASSUME Walking, ~Top.exiting
      PROVE  Top.schema \notin active
  <2>1. Len(stack) \in Nat /\ Len(stack) \in 1 .. Len(stack)
    BY <1>1, <1>2, PopIsShorter DEF Walking
  <2>2. ~(\E p \in Len(stack) + 1 .. Len(stack) :
            stack[p].exiting /\ stack[p].schema = stack[Len(stack)].schema)
    BY <2>1
  <2> QED
    BY <1>2, <2>1, <2>2 DEF WalkInv, OpenIsAbove, Top
<1>3. \A n : n \in ToSet(postOrder) <=> \E j \in 1 .. Len(postOrder) : postOrder[j] = n
  <2>1. DOMAIN postOrder = 1 .. Len(postOrder)
    BY <1>1, LenProperties DEF TypeInv
  <2> QED
    BY <2>1 DEF ToSet
<1>4. ASSUME stack = <<>>, ~circular
      PROVE  /\ 1 \in ToSet(postOrder)
             /\ \A i \in DOMAIN postOrder : \A m \in Successors(postOrder[i]) :
                   \E j \in 1 .. i - 1 : postOrder[j] = m
  <2>1. 1 \in completed
    <3>1. ~(\E j \in 0 + 1 .. Len(stack) : stack[j].schema = 1)
      BY <1>4, EmptySeq
    <3> QED
      BY <3>1 DEF WalkInv, Covered
  <2>2. 1 \in ToSet(postOrder)
    BY <1>3, <2>1 DEF WalkInv, Listed
  <2>3. ASSUME NEW i \in DOMAIN postOrder, NEW m \in Successors(postOrder[i])
        PROVE  \E j \in 1 .. i - 1 : postOrder[j] = m
    <3>1. i \in 1 .. Len(postOrder) /\ postOrder[i] \in DOMAIN graph
      BY <1>1, LenProperties, ElementOfSeq DEF TypeInv
    <3>2. DOMAIN Edges(postOrder[i]) = 1 .. Len(Edges(postOrder[i]))
      BY <1>1, <3>1, EdgesType, LenProperties
    <3>3. PICK k \in 1 .. Len(Edges(postOrder[i])) : Edges(postOrder[i])[k].to = m
      BY <3>2 DEF Successors, ToSet
    <3> QED
      BY <1>4, <3>1, <3>3 DEF WalkInv, OrderSoFar
  <2> QED
    BY <2>2, <2>3
<1> QED
  BY <1>2, <1>4 DEF OrderIsTopological

\* Whatever the graphs and the limits, the walk of validateSchema() ends without
\* a cycle only with every schema after those it leads to, and never takes a
\* frame of a schema that is still open.
THEOREM OrderCorrect == SchemaSpec => []OrderIsTopological
<1>1. SchemaInit => WalkInv
  BY InitHolds DEF SchemaInit
<1>2. WalkInv /\ [SchemaNext]_schemaVars => WalkInv'
  BY NextKeeps
<1>3. WalkInv => OrderIsTopological
  BY WalkInvImplies
<1> QED
  BY <1>1, <1>2, <1>3, PTL DEF SchemaSpec

-----------------------------------------------------------------------------
(* In a request. *)


\* A request starts with a walk that is still to be made, or, where schemas do
\* not matter, with that of a single schema behind it.
LEMMA PathInitHolds == ASSUME PathInit PROVE WalkInv
<1>1. CASE SchemaInit
  BY <1>1, InitHolds DEF SchemaInit
<1>2. CASE SchemaFrom(PlainGraph, {})
  BY <1>2, PlainGraphAssumption, InitHolds
<1>3. CASE /\ graph = PlainGraph
           /\ stack = <<>> /\ active = {} /\ completed = {1}
           /\ circular = FALSE /\ postOrder = <<1>>
           /\ current = [schema |-> 1, typed |-> TRUE] /\ left = 0
  <2>1. graph \in Graphs /\ 1 \in DOMAIN graph /\ Edges(1) = <<>>
    BY <1>3, PlainGraphAssumption, GraphsAssumption DEF Edges
  <2>2. Len(stack) = 0 /\ stack \in Seq(Frames)
    BY <1>3
  <2>3. Len(postOrder) = 1 /\ postOrder[1] = 1 /\ postOrder \in Seq(DOMAIN graph)
    BY <1>3, <2>1
  <2>4. current \in [schema : DOMAIN graph, typed : BOOLEAN] /\ current.schema = 1
    BY <1>3, <2>1
  <2>5. Len(Edges(1)) = 0
    BY <2>1
  <2>6. TypeInv
    BY <1>3, <2>1, <2>2, <2>3, <2>4, <2>5 DEF TypeInv
  <2>7. OpenIsAbove /\ Scheduled /\ Covered(1, 0)
    BY <1>3, <2>2 DEF OpenIsAbove, Scheduled, Covered
  <2>8. Listed /\ OrderSoFar
    BY <1>3, <2>3, <2>5 DEF Listed, OrderSoFar
  <2> QED
    BY <2>6, <2>7, <2>8 DEF WalkInv
<1> QED
  BY <1>1, <1>2, <1>3 DEF PathInit

\* A step of a request is one of the walk or leaves the walk alone.
LEMMA PathNextKeeps == ASSUME WalkInv, [PathNext]_all PROVE WalkInv'
<1>1. [SchemaNext]_schemaVars
  BY DEF PathNext, Validate, all
<1> QED
  BY <1>1, NextKeeps

\* On the way of a request through the OpenAPI plugin, whatever is asked of it,
\* the order of the schemas that a response is generated from is topological.
THEOREM OrderInRequest == PathSpec => []OrderIsTopological
<1>1. PathInit => WalkInv
  BY PathInitHolds
<1>2. WalkInv /\ [PathNext]_all => WalkInv'
  BY PathNextKeeps
<1>3. WalkInv => OrderIsTopological
  BY WalkInvImplies
<1> QED
  BY <1>1, <1>2, <1>3, PTL DEF PathSpec

-----------------------------------------------------------------------------
(* The best of a set. *)

\* What a function to the naturals has least on a set.
LEMMA Least ==
    ASSUME NEW S, S # {}, NEW f \in [S -> Nat]
    PROVE  \E x \in S : \A y \in S : f[x] <= f[y]
<1> DEFINE T == {f[x] : x \in S}
<1>1. T \subseteq Nat /\ T # {}
  OBVIOUS
<1>2. PICK m \in T : \A n \in T : ~(<<n, m>> \in OpToRel(<, Nat))
  BY <1>1, WFMin, NatLessThanWellFounded, Zenon
<1>3. PICK x \in S : f[x] = m
  BY <1>2
<1>4. ASSUME NEW y \in S PROVE f[x] <= f[y]
  <2>1. f[y] \in T /\ f[y] \in Nat /\ m \in Nat
    BY <1>1, <1>2
  <2>2. ~(<<f[y], m>> \in OpToRel(<, Nat))
    BY <1>2, <2>1
  <2> QED
    BY <1>3, <2>1, <2>2 DEF OpToRel
<1> QED
  BY <1>4

LEMMA LeastNat ==
    ASSUME NEW S \in SUBSET Nat, S # {}
    PROVE  \E x \in S : \A y \in S : x <= y
<1>1. PICK m \in S : \A n \in S : ~(<<n, m>> \in OpToRel(<, Nat))
  BY WFMin, NatLessThanWellFounded, Zenon
<1>2. ASSUME NEW n \in S PROVE m <= n
  <2>1. n \in Nat /\ m \in Nat /\ ~(<<n, m>> \in OpToRel(<, Nat))
    BY <1>1
  <2> QED
    BY <2>1 DEF OpToRel
<1> QED
  BY <1>2

\* A list of naturals is bounded.
LEMMA Bounded ==
    ASSUME NEW n \in Nat, NEW g \in [1 .. n -> Nat]
    PROVE  \E b \in Nat : \A i \in 1 .. n : g[i] <= b
<1> DEFINE Bound(k, b) == \A i \in 1 .. k : g[i] <= b
           Bad == {k \in 0 .. n : \A b \in Nat : ~Bound(k, b)}
<1>0. Bad = {} => \E b \in Nat : Bound(n, b)
  <2>1. n \in 0 .. n /\ (n \notin Bad => \E b \in Nat : Bound(n, b))
    OBVIOUS
  <2> HIDE DEF Bad
  <2> QED
    BY <2>1
<1>1. SUFFICES ASSUME Bad # {} PROVE FALSE
  <2> HIDE DEF Bad
  <2> QED
    BY <1>0
<1>2. PICK k \in Bad : \A j \in Bad : k <= j
  <2>1. Bad \in SUBSET Nat
    OBVIOUS
  <2> HIDE DEF Bad
  <2> QED
    BY <1>1, <2>1, LeastNat
<1>3. k \in 0 .. n /\ \A b \in Nat : ~Bound(k, b)
  OBVIOUS
<1>4. k # 0
  <2>1. Bound(0, 0)
    OBVIOUS
  <2> QED
    BY <1>3, <2>1
<1>5. k - 1 \in 0 .. n /\ k - 1 \notin Bad
  <2> HIDE DEF Bad
  <2> QED
    BY <1>2, <1>3, <1>4
<1>6. PICK b \in Nat : Bound(k - 1, b)
  BY <1>5
<1>7. k \in 1 .. n /\ g[k] \in Nat
  BY <1>3, <1>4
<1>8. PICK c \in Nat : c >= b /\ c >= g[k]
  <2>1. b >= g[k] \/ g[k] >= b
    BY <1>6, <1>7
  <2>2. b >= b /\ g[k] >= g[k]
    BY <1>6, <1>7
  <2> QED
    BY <1>6, <1>7, <2>1, <2>2, Zenon
<1>9. ASSUME NEW i \in 1 .. k PROVE g[i] <= c
  <2>1. i = k \/ i \in 1 .. k - 1
    BY <1>7
  <2>2. g[i] \in Nat
    BY <1>7
  <2> QED
    BY <2>1, <2>2, <1>6, <1>7, <1>8
<1> QED
  BY <1>3, <1>9

\* What a function to bounded naturals has most on a set.
LEMMA Most ==
    ASSUME NEW S, S # {}, NEW b \in Nat, NEW f \in [S -> 0 .. b]
    PROVE  \E x \in S : \A y \in S : f[x] >= f[y]
<1> DEFINE g == [x \in S |-> b - f[x]]
<1>1. g \in [S -> Nat]
  OBVIOUS
<1>2. PICK x \in S : \A y \in S : g[x] <= g[y]
  <2> HIDE DEF g
  <2> QED
    BY <1>1, Least
<1>3. \A y \in S : b - f[x] <= b - f[y] /\ f[x] \in 0 .. b /\ f[y] \in 0 .. b
  BY <1>2
<1> QED
  BY <1>3

LEMMA ListIs ==
    ASSUME NEW T, NEW list \in Seq(T)
    PROVE  /\ Len(list) \in Nat /\ DOMAIN list = 1 .. Len(list)
           /\ \A i \in DOMAIN list : list[i] \in T
OBVIOUS

LEMMA MaxIs ==
    ASSUME NEW S \in SUBSET Nat, NEW m \in S, \A y \in S : y <= m
    PROVE  Max(S) = m
<1>1. \A x \in S : (\A y \in S : x >= y) => x = m
  OBVIOUS
<1>2. \A y \in S : m >= y
  OBVIOUS
<1> QED
  BY <1>1, <1>2 DEF Max

LEMMA MinIs ==
    ASSUME NEW S \in SUBSET Nat, S # {}
    PROVE  Min(S) \in S /\ \A y \in S : Min(S) <= y
BY LeastNat DEF Min

-----------------------------------------------------------------------------
(* Negotiation. *)

\* The specificity of a range as two numbers.
LEMMA SpecificityType ==
    ASSUME NEW m, IsMediaType(m)
    PROVE  Level(m) \in 1 .. 3 /\ Cardinality(m.params) \in Nat
<1>1. IsFiniteSet(m.params)
  BY DEF IsMediaType
<1> QED
  BY <1>1, FS_CardinalityType DEF Level

LEMMA Greatest ==
    ASSUME NEW b \in Nat, NEW S \in SUBSET (0 .. b), S # {}
    PROVE  \E x \in S : \A y \in S : y <= x
<1> DEFINE f == [x \in S |-> x]
<1>1. f \in [S -> 0 .. b] /\ \A x \in S : f[x] = x
  OBVIOUS
<1> HIDE DEF f
<1>2. PICK x \in S : \A y \in S : f[x] >= f[y]
  BY <1>1, Most
<1>3. \A y \in S : f[y] = y /\ f[x] = x /\ x \in Nat /\ y \in Nat
  BY <1>1
<1> QED
  BY <1>2, <1>3

\* Among the members of a list that are in a set, one is not less specific than
\* any other.
LEMMA MostSpecific ==
    ASSUME NEW list, IsMediaList(list), NEW S \in SUBSET DOMAIN list, S # {}
    PROVE  \E i \in S : \A j \in S : ~MoreSpecific(list[j], list[i])
<1>1. \A i \in DOMAIN list : IsMediaType(list[i])
  BY DEF IsMediaList
<1> DEFINE level == [i \in S |-> Level(list[i])]
<1>2. level \in [S -> 0 .. 3]
  BY <1>1, SpecificityType
<1>3. PICK p \in S : \A j \in S : Level(list[p]) >= Level(list[j])
  <2>1. PICK p \in S : \A j \in S : level[p] >= level[j]
    <3> HIDE DEF level
    <3> QED
      BY <1>2, Most
  <2> QED
    BY <2>1
<1> DEFINE T == {i \in S : Level(list[i]) = Level(list[p])}
           size == [i \in 1 .. Len(list) |-> Cardinality(list[i].params)]
<1>4. Len(list) \in Nat /\ DOMAIN list = 1 .. Len(list)
  BY ListIs DEF IsMediaList
<1>5. size \in [1 .. Len(list) -> Nat]
  BY <1>1, <1>4, SpecificityType
<1>6. PICK b \in Nat : \A i \in 1 .. Len(list) : size[i] <= b
  BY <1>4, <1>5, Bounded
<1> DEFINE sizeT == [i \in T |-> size[i]]
<1>7. sizeT \in [T -> 0 .. b]
  <2> SUFFICES ASSUME NEW i \in T PROVE size[i] \in 0 .. b
    OBVIOUS
  <2>1. i \in 1 .. Len(list)
    BY <1>4
  <2> HIDE DEF size
  <2>2. size[i] \in Nat /\ size[i] <= b
    BY <2>1, <1>5, <1>6
  <2> QED
    BY <2>2
<1>8. PICK i \in T : \A j \in T : Cardinality(list[i].params) >= Cardinality(list[j].params)
  <2>1. PICK i \in T : \A j \in T : sizeT[i] >= sizeT[j]
    <3>1. T # {}
      OBVIOUS
    <3> HIDE DEF sizeT, T
    <3> QED
      BY <1>7, <3>1, Most
  <2>2. \A j \in T : sizeT[j] = Cardinality(list[j].params)
    BY <1>4
  <2> HIDE DEF sizeT, T
  <2> QED
    BY <2>1, <2>2
<1>9. ASSUME NEW j \in S PROVE ~MoreSpecific(list[j], list[i])
  <2>1. /\ Level(list[j]) \in 1 .. 3 /\ Level(list[i]) \in 1 .. 3
        /\ Cardinality(list[j].params) \in Nat /\ Cardinality(list[i].params) \in Nat
    BY <1>1, SpecificityType
  <2>2. Level(list[i]) >= Level(list[j])
    BY <1>3
  <2>3. CASE j \in T
    BY <2>1, <2>3, <1>8 DEF MoreSpecific
  <2>4. CASE Level(list[j]) # Level(list[i])
    BY <2>1, <2>2, <2>4 DEF MoreSpecific
  <2> QED
    BY <2>3, <2>4
<1> QED
  BY <1>9

\* The range that speaks for a type is in the list and covers it, and there is
\* one when any of the list does.
LEMMA AuthorityIs ==
    ASSUME NEW list, IsMediaList(list), NEW m
    PROVE  /\ Authority(list, m) \in {0} \cup DOMAIN list
           /\ Authority(list, m) # 0 => Covers(list[Authority(list, m)], m)
           /\ \A i \in DOMAIN list : Covers(list[i], m) => Authority(list, m) # 0
<1> DEFINE covering == {i \in DOMAIN list : Covers(list[i], m)}
           top == {i \in covering : \A j \in covering : ~MoreSpecific(list[j], list[i])}
<1>1. Authority(list, m) = IF top = {} THEN 0 ELSE Min(top)
  BY DEF Authority
<1>2. top \in SUBSET Nat /\ top \subseteq DOMAIN list /\ 0 \notin DOMAIN list
  <2>1. Len(list) \in Nat /\ DOMAIN list = 1 .. Len(list)
    BY ListIs DEF IsMediaList
  <2> QED
    BY <2>1
<1>3. covering # {} => top # {}
  BY MostSpecific
<1>4. top # {} => Min(top) \in top
  <2> HIDE DEF top
  <2> QED
    BY <1>2, MinIs
<1> QED
  BY <1>1, <1>2, <1>3, <1>4

\* A quality is that of a range of the field.
LEMMA QualityType ==
    ASSUME NEW accept, IsAccept(accept), NEW m
    PROVE  Quality(m, accept) \in 0 .. 10
<1> DEFINE list == [k \in DOMAIN accept.ranges |-> accept.ranges[k].media]
           n == Len(accept.ranges)
<1>1. n \in Nat /\ DOMAIN accept.ranges = 1 .. n
  BY ListIs DEF IsAccept
<1>2. \A i \in 1 .. n : IsMediaType(accept.ranges[i].media) /\ accept.ranges[i].q \in 0 .. 10
  BY <1>1 DEF IsAccept
<1>3. DOMAIN list = 1 .. n /\ \A i \in 1 .. n : list[i] = accept.ranges[i].media
  BY <1>1
<1> HIDE DEF list
<1>4. IsMediaList(list)
  <2>1. ToSet(list) = {list[i] : i \in 1 .. n} /\ list = [i \in 1 .. n |-> list[i]]
    BY <1>3 DEF ToSet, list
  <2>2. list \in Seq(ToSet(list))
    BY <1>1, <2>1
  <2> QED
    BY <1>2, <1>3, <2>2 DEF IsMediaList
<1>5. Authority(list, m) \in {0} \cup 1 .. n
  BY <1>3, <1>4, AuthorityIs
<1>6. Quality(m, accept)
        = IF ~accept.present THEN 1
          ELSE IF Authority(list, m) = 0 THEN 0 ELSE accept.ranges[Authority(list, m)].q
  BY DEF Quality, list
<1> QED
  BY <1>2, <1>5, <1>6

\* The types with subtypes in place of their own are types that can be sent.
LEMMA SubtypesSent ==
    ASSUME NEW m, IsMediaType(m), m.type # "*",
           NEW subtypes, \A k \in DOMAIN subtypes : subtypes[k] # "*",
           NEW k \in DOMAIN WithSubtypes(m, subtypes)
    PROVE  LET n == WithSubtypes(m, subtypes)[k]
           IN  IsMediaType(n) /\ IsConcrete(n)
<1> DEFINE n == WithSubtypes(m, subtypes)[k]
<1>1. k \in DOMAIN subtypes /\ n = [m EXCEPT !.subtype = subtypes[k]]
  BY DEF WithSubtypes
<1>2. m = Media(m.type, m.subtype, m.params)
  BY DEF IsMediaType
<1>3. n = Media(m.type, subtypes[k], m.params)
  BY <1>1, <1>2 DEF Media
<1> HIDE DEF n
<1>4. n \in {n} /\ n.type = m.type /\ n.subtype = subtypes[k] /\ n.params = m.params
  BY <1>3 DEF Media
<1>5. IsMediaType(n) /\ IsConcrete(n)
  BY <1>1, <1>3, <1>4 DEF IsMediaType, IsConcrete
<1> QED
  BY <1>5 DEF n

LEMMA DefaultSubtypesAre ==
    ASSUME NEW type, NEW k \in DOMAIN DefaultSubtypes(type)
    PROVE  k \in Nat /\ DefaultSubtypes(type)[k] # "*"
<1>1. CASE type = "application"
  <2>1. DefaultSubtypes(type) = <<"json", "octet-stream">>
    BY <1>1 DEF DefaultSubtypes
  <2> QED
    BY <2>1
<1>2. CASE type # "application"
  <2>1. \E s \in {"plain", "png", "mpeg", "mp4", "x-schmock"} : DefaultSubtypes(type) = <<s>>
    BY <1>2 DEF DefaultSubtypes
  <2>2. ASSUME NEW s \in {"plain", "png", "mpeg", "mp4", "x-schmock"}, DefaultSubtypes(type) = <<s>>
        PROVE  k \in Nat /\ DefaultSubtypes(type)[k] = s
    BY <2>2
  <2> QED
    BY <2>1, <2>2
<1> QED
  BY <1>1, <1>2

LEMMA IntersectionsSent ==
    ASSUME NEW declared, IsMediaType(declared), NEW range, IsMediaType(range),
           NEW k \in DOMAIN Intersections(declared, range)
    PROVE  LET n == Intersections(declared, range)[k]
           IN  k \in Nat /\ IsMediaType(n) /\ IsConcrete(n)
<1> DEFINE m == Media(Narrower(declared.type, range.type),
                      Narrower(declared.subtype, range.subtype),
                      declared.params \cup range.params)
           subtypes == IF m.subtype = "*" THEN DefaultSubtypes(m.type) ELSE <<m.subtype>>
<1>1. IsMediaType(m)
  <2>1. IsFiniteSet(declared.params \cup range.params)
    BY FS_Union DEF IsMediaType
  <2>2. Narrower(declared.type, range.type) # ""
    BY DEF IsMediaType, Narrower
  <2> QED
    BY <2>1, <2>2 DEF IsMediaType, Media
<1>2. CASE m.type = "*" \/ Intersections(declared, range) = <<>>
  BY <1>2 DEF Intersections
<1>3. CASE m.type # "*" /\ Intersections(declared, range) # <<>>
  <2>1. Intersections(declared, range) = WithSubtypes(m, subtypes)
    BY <1>3 DEF Intersections
  <2>2. \A i \in DOMAIN subtypes : i \in Nat /\ subtypes[i] # "*"
    <3>1. CASE m.subtype = "*"
      BY <3>1, DefaultSubtypesAre
    <3>2. CASE m.subtype # "*"
      BY <3>2
    <3> QED
      BY <3>1, <3>2
  <2>3. k \in DOMAIN subtypes
    BY <2>1 DEF WithSubtypes
  <2> HIDE DEF m, subtypes
  <2> QED
    BY <1>1, <1>3, <2>1, <2>2, <2>3, SubtypesSent
<1> QED
  BY <1>2, <1>3

LEMMA DefaultsSent ==
    ASSUME NEW declared, IsMediaType(declared), NEW k \in DOMAIN DefaultCandidates(declared)
    PROVE  LET n == DefaultCandidates(declared)[k]
           IN  k \in Nat /\ IsMediaType(n) /\ IsConcrete(n)
<1>1. CASE declared.type = "*"
  <2>1. DefaultCandidates(declared)
          = <<Media("application", "json", declared.params),
              Media("application", "octet-stream", declared.params),
              Media("text", "plain", declared.params)>>
    BY <1>1 DEF DefaultCandidates
  <2>2. \E t \in {"application", "text"}, u \in {"json", "octet-stream", "plain"} :
            DefaultCandidates(declared)[k] = Media(t, u, declared.params)
    <3>1. k \in {1, 2, 3}
      BY <2>1
    <3> QED
      BY <2>1, <3>1
  <2>4. k \in Nat
    BY <2>1
  <2>5. PICK t \in {"application", "text"}, u \in {"json", "octet-stream", "plain"} :
            DefaultCandidates(declared)[k] = Media(t, u, declared.params)
    BY <2>2
  <2>3. IsMediaType(Media(t, u, declared.params)) /\ IsConcrete(Media(t, u, declared.params))
    BY <2>5 DEF IsMediaType, Media, IsConcrete
  <2> QED
    BY <2>3, <2>4, <2>5
<1>2. CASE declared.type # "*"
  <2>1. DefaultCandidates(declared) = WithSubtypes(declared, DefaultSubtypes(declared.type))
    BY <1>2 DEF DefaultCandidates
  <2>2. k \in DOMAIN DefaultSubtypes(declared.type)
    BY <2>1 DEF WithSubtypes
  <2> QED
    BY <1>2, <2>1, <2>2, SubtypesSent, DefaultSubtypesAre
<1> QED
  BY <1>1, <1>2

\* What a declaration can be sent as is a type that can be sent.
LEMMA CandidateSent ==
    ASSUME NEW declared, IsMediaType(declared), NEW accept, IsAccept(accept),
           NEW j \in DOMAIN Candidates(declared, accept),
           NEW k \in DOMAIN Candidates(declared, accept)[j]
    PROVE  LET n == Candidates(declared, accept)[j][k]
           IN  j \in Nat /\ k \in Nat /\ IsMediaType(n) /\ IsConcrete(n)
<1> DEFINE cs == Candidates(declared, accept)
           lists == [i \in DOMAIN accept.ranges |->
                        Intersections(declared, accept.ranges[i].media)]
           n == Len(accept.ranges)
<1>1. n \in Nat /\ DOMAIN accept.ranges = 1 .. n
  BY ListIs DEF IsAccept
<1>2. \A r \in 1 .. n : IsMediaType(accept.ranges[r].media)
  BY <1>1 DEF IsAccept
<1>3. CASE IsConcrete(declared)
  <2>1. cs = <<<<declared>>>>
    BY <1>3 DEF Candidates
  <2>2. j = 1 /\ k = 1
    BY <2>1
  <2> QED
    BY <1>3, <2>1, <2>2
<1>4. CASE ~IsConcrete(declared)
  <2>1. cs = Append(lists, DefaultCandidates(declared))
    BY <1>4 DEF Candidates
  <2>2. DOMAIN lists = 1 .. n /\ Len(lists) = n
    BY <1>1
  <2>3. \/ j \in 1 .. n /\ cs[j] = Intersections(declared, accept.ranges[j].media)
        \/ j = n + 1 /\ cs[j] = DefaultCandidates(declared)
    <3>1. \A i \in 1 .. n : lists[i] = Intersections(declared, accept.ranges[i].media)
      BY <1>1
    <3> DEFINE last == DefaultCandidates(declared)
    <3>3. j \in DOMAIN Append(lists, last) /\ cs[j] = Append(lists, last)[j]
      BY <2>1
    <3>4. \E T : lists \in Seq(T)
      <4>1. lists \in [1 .. n -> {lists[i] : i \in 1 .. n}]
        BY <2>2
      <4> HIDE DEF lists
      <4>2. lists \in Seq({lists[i] : i \in 1 .. n})
        BY <4>1, <1>1
      <4> QED
        BY <4>2
    <3> HIDE DEF lists, last
    <3>5. j \in 1 .. n + 1 /\ (j \in 1 .. n => cs[j] = lists[j]) /\ (j = n + 1 => cs[j] = last)
      BY <3>3, <3>4, <2>2, <1>1
    <3> QED
      BY <3>1, <3>5, <1>1 DEF last
  <2> HIDE DEF cs, lists, n
  <2>4. CASE j = n + 1 /\ cs[j] = DefaultCandidates(declared)
    BY <1>1, <1>2, <2>4, DefaultsSent DEF cs
  <2>5. CASE j \in 1 .. n /\ cs[j] = Intersections(declared, accept.ranges[j].media)
    <3>1. IsMediaType(accept.ranges[j].media)
      BY <1>1, <1>2, <2>5
    <3> QED
      BY <1>1, <1>2, <2>5, <3>1, IntersectionsSent DEF cs
  <2> QED
    BY <2>3, <2>4, <2>5
<1> QED
  BY <1>3, <1>4

\* What an offer is.
IsOffer(offer, accept, available, i, j, k) ==
    /\ i \in DOMAIN available /\ j \in Nat /\ k \in Nat
    /\ j \in DOMAIN Candidates(available[i], accept)
    /\ k \in DOMAIN Candidates(available[i], accept)[j]
    /\ offer = [place |-> <<i, j, k>>, media |-> Candidates(available[i], accept)[j][k],
                q |-> Quality(Candidates(available[i], accept)[j][k], accept),
                declared |-> Authority(available, Candidates(available[i], accept)[j][k])]

LEMMA OfferIs ==
    ASSUME NEW accept, IsAccept(accept), NEW available, IsMediaList(available),
           NEW offer \in Offers(accept, available)
    PROVE  \E i, j, k : IsOffer(offer, accept, available, i, j, k)
<1> DEFINE lists(i) == Candidates(available[i], accept)
           At(list, i, j) ==
               {[place |-> <<i, j, k>>, media |-> list[k], q |-> Quality(list[k], accept),
                 declared |-> CanonicalDeclaration(list[k], available)] : k \in DOMAIN list}
<1>1. \E i \in DOMAIN available : \E j \in DOMAIN lists(i) : offer \in At(lists(i)[j], i, j)
  BY DEF Offers
<1>2. PICK i \in DOMAIN available : \E j \in DOMAIN lists(i) : offer \in At(lists(i)[j], i, j)
  BY <1>1
<1>a. PICK j \in DOMAIN lists(i) : offer \in At(lists(i)[j], i, j)
  BY <1>2
<1>3. PICK k \in DOMAIN lists(i)[j] :
          offer = [place |-> <<i, j, k>>, media |-> lists(i)[j][k],
                   q |-> Quality(lists(i)[j][k], accept),
                   declared |-> Authority(available, lists(i)[j][k])]
  BY <1>a DEF CanonicalDeclaration
<1>4. j \in Nat /\ k \in Nat
  BY CandidateSent DEF IsMediaList
<1>5. IsOffer(offer, accept, available, i, j, k)
  BY <1>3, <1>4 DEF IsOffer
<1> QED
  BY <1>5

\* What holds of an offer, and which two are one.
LEMMA OfferFacts ==
    ASSUME NEW accept, IsAccept(accept), NEW available, IsMediaList(available),
           NEW offer \in Offers(accept, available)
    PROVE  /\ offer.q = Quality(offer.media, accept) /\ offer.q \in 1 .. 10
           /\ IsMediaType(offer.media) /\ IsConcrete(offer.media)
           /\ offer.declared = Authority(available, offer.media)
           /\ offer.declared \in DOMAIN available /\ offer.declared \in Nat
           /\ Covers(available[offer.declared], offer.media)
           /\ offer # NoOffer
<1>1. PICK i, j, k : IsOffer(offer, accept, available, i, j, k)
  BY OfferIs
<1> DEFINE m == Candidates(available[i], accept)[j][k]
<1>2. /\ offer.media = m /\ offer.q = Quality(m, accept)
      /\ offer.declared = Authority(available, m)
  BY <1>1 DEF IsOffer
<1>3. IsMediaType(m) /\ IsConcrete(m)
  BY <1>1, CandidateSent DEF IsOffer, IsMediaList
<1>4. offer.q > 0 /\ offer.declared # 0
  BY DEF Offers
<1> HIDE DEF m
<1>5. Quality(m, accept) \in 0 .. 10
  BY QualityType
<1>6. /\ Authority(available, m) \in {0} \cup DOMAIN available
      /\ Authority(available, m) # 0 => Covers(available[Authority(available, m)], m)
  BY AuthorityIs
<1>7. Len(available) \in Nat /\ DOMAIN available = 1 .. Len(available)
  BY ListIs DEF IsMediaList
<1>8. offer # NoOffer
  BY <1>4 DEF NoOffer
<1> QED
  BY <1>2, <1>3, <1>4, <1>5, <1>6, <1>7, <1>8

LEMMA OfferPlaces ==
    ASSUME NEW accept, IsAccept(accept), NEW available, IsMediaList(available)
    PROVE  /\ \A offer \in Offers(accept, available) :
                  \E i, j, k \in Nat : offer.place = <<i, j, k>>
           /\ \A a, b \in Offers(accept, available) : a.place = b.place => a = b
<1>1. ASSUME NEW offer \in Offers(accept, available)
      PROVE  \E i, j, k \in Nat : offer.place = <<i, j, k>>
  <2>1. PICK i, j, k : IsOffer(offer, accept, available, i, j, k)
    BY OfferIs
  <2>2. Len(available) \in Nat /\ DOMAIN available = 1 .. Len(available)
    BY ListIs DEF IsMediaList
  <2>3. i \in Nat /\ j \in Nat /\ k \in Nat /\ offer.place = <<i, j, k>>
    BY <2>1, <2>2 DEF IsOffer
  <2> QED
    BY <2>3
<1>2. ASSUME NEW a \in Offers(accept, available), NEW b \in Offers(accept, available),
             a.place = b.place
      PROVE  a = b
  <2>1. PICK i, j, k : IsOffer(a, accept, available, i, j, k)
    BY OfferIs
  <2>2. PICK p, r, s : IsOffer(b, accept, available, p, r, s)
    BY OfferIs
  <2>3. a.place = <<i, j, k>> /\ b.place = <<p, r, s>>
    BY <2>1, <2>2 DEF IsOffer
  <2>4. i = p /\ j = r /\ k = s
    <3>1. <<i, j, k>> = <<p, r, s>>
      BY <1>2, <2>3
    <3> QED
      BY <3>1, Zenon
  <2> QED
    BY <2>1, <2>2, <2>4 DEF IsOffer
<1> QED
  BY <1>1, <1>2

\* A type that is declared and wanted is offered.
LEMMA OwnCandidate ==
    ASSUME NEW accept, IsAccept(accept), NEW available, IsMediaList(available),
           NEW i \in DOMAIN available, IsConcrete(available[i]),
           Quality(available[i], accept) > 0
    PROVE  \E offer \in Offers(accept, available) : offer.q = Quality(available[i], accept)
<1> DEFINE m == available[i]
           offer == [place |-> <<i, 1, 1>>, media |-> m, q |-> Quality(m, accept),
                     declared |-> CanonicalDeclaration(m, available)]
<1>1. Candidates(m, accept) = <<<<m>>>>
  BY DEF Candidates
<1>2. Covers(m, m)
  BY DEF Covers, IsConcrete
<1>3. Authority(available, m) # 0
  BY <1>2, AuthorityIs
<1>4. 1 \in DOMAIN Candidates(m, accept) /\ 1 \in DOMAIN Candidates(m, accept)[1]
      /\ Candidates(m, accept)[1][1] = m
  BY <1>1
<1>5. offer.q > 0 /\ offer.declared # 0
  BY <1>3 DEF CanonicalDeclaration
<1>6. offer \in Offers(accept, available)
  BY <1>4, <1>5 DEF Offers
<1> QED
  BY <1>6

\* Among the offers one wins against all others.
LEMMA WinnerExists ==
    ASSUME NEW accept, IsAccept(accept), NEW available, IsMediaList(available),
           Offers(accept, available) # {}
    PROVE  \E a \in Offers(accept, available) :
               \A b \in Offers(accept, available) \ {a} : Wins(a, b, available)
<1> DEFINE offers == Offers(accept, available)
<1>1. /\ \A o \in offers : o.q \in 0 .. 10 /\ o.declared \in DOMAIN available /\ o.declared \in Nat
      /\ \A o \in offers : \E i, j, k \in Nat : o.place = <<i, j, k>>
      /\ \A a, b \in offers : a.place = b.place => a = b
  BY OfferFacts, OfferPlaces
<1> HIDE DEF offers
<1> DEFINE quality == [o \in offers |-> o.q]
<1>2. PICK p \in offers : \A o \in offers : p.q >= o.q
  <2>1. quality \in [offers -> 0 .. 10]
    BY <1>1
  <2>2. PICK p \in offers : \A o \in offers : quality[p] >= quality[o]
    <3> HIDE DEF quality
    <3> QED
      BY <2>1, Most DEF offers
  <2> QED
    BY <2>2
<1> DEFINE best == {o \in offers : o.q = p.q}
           declared == {o.declared : o \in best}
<1>3. PICK d \in declared : \A e \in declared : ~MoreSpecific(available[e], available[d])
  <2>1. declared \in SUBSET DOMAIN available /\ declared # {}
    BY <1>1, <1>2
  <2> HIDE DEF declared
  <2> QED
    BY <2>1, MostSpecific
<1> DEFINE narrow == {e \in declared : \A f \in declared : ~MoreSpecific(available[f], available[e])}
<1>4. PICK first \in narrow : \A e \in narrow : first <= e
  <2>1. narrow \in SUBSET Nat /\ narrow # {}
    BY <1>1, <1>3
  <2> HIDE DEF narrow
  <2> QED
    BY <2>1, LeastNat
<1> DEFINE top == {o \in best : o.declared = first}
           step1 == [o \in top |-> o.place[1]]
<1>5. top # {} /\ \A o \in top : o.place[1] \in Nat /\ o.place[2] \in Nat /\ o.place[3] \in Nat
                                 /\ o.place = <<o.place[1], o.place[2], o.place[3]>>
  <2>1. top # {}
    BY <1>4
  <2>2. ASSUME NEW o \in top
        PROVE  o.place[1] \in Nat /\ o.place[2] \in Nat /\ o.place[3] \in Nat
               /\ o.place = <<o.place[1], o.place[2], o.place[3]>>
    <3>1. PICK i, j, k \in Nat : o.place = <<i, j, k>>
      BY <1>1
    <3> QED
      BY <3>1
  <2> QED
    BY <2>1, <2>2
<1>6. PICK x \in top : \A o \in top : x.place[1] <= o.place[1]
  <2>1. step1 \in [top -> Nat]
    BY <1>5
  <2>2. PICK x \in top : \A o \in top : step1[x] <= step1[o]
    <3> HIDE DEF step1, top
    <3> QED
      BY <1>5, <2>1, Least
  <2> QED
    BY <2>2
<1> DEFINE top2 == {o \in top : o.place[1] = x.place[1]}
           step2 == [o \in top2 |-> o.place[2]]
<1>7. PICK y \in top2 : \A o \in top2 : y.place[2] <= o.place[2]
  <2>1. step2 \in [top2 -> Nat] /\ top2 # {}
    BY <1>5, <1>6
  <2>2. PICK y \in top2 : \A o \in top2 : step2[y] <= step2[o]
    <3> HIDE DEF step2, top2
    <3> QED
      BY <2>1, Least
  <2> QED
    BY <2>2
<1> DEFINE top3 == {o \in top2 : o.place[2] = y.place[2]}
           step3 == [o \in top3 |-> o.place[3]]
<1>8. PICK z \in top3 : \A o \in top3 : z.place[3] <= o.place[3]
  <2>1. step3 \in [top3 -> Nat] /\ top3 # {}
    BY <1>5, <1>7
  <2>2. PICK z \in top3 : \A o \in top3 : step3[z] <= step3[o]
    <3> HIDE DEF step3, top3
    <3> QED
      BY <2>1, Least
  <2> QED
    BY <2>2
<1>9. z \in offers /\ z.q = p.q /\ z.declared = first /\ z \in top
      /\ z.place[1] = x.place[1] /\ z.place[2] = y.place[2]
  OBVIOUS
<1>10. ASSUME NEW b \in offers, b # z PROVE Wins(z, b, available)
  <2>1. z.q \in Nat /\ b.q \in Nat /\ z.q >= b.q
    BY <1>1, <1>2, <1>9
  <2>2. CASE z.q > b.q
    BY <2>2 DEF Wins
  <2>3. CASE z.q = b.q
    <3>1. b \in best /\ b.declared \in declared /\ first \in declared
      BY <1>9, <2>3
    <3>2. ~MoreSpecific(available[b.declared], available[first])
      BY <1>4, <3>1
    <3>3. CASE MoreSpecific(available[first], available[b.declared])
      BY <1>9, <2>3, <3>3 DEF Wins
    <3>4. CASE ~MoreSpecific(available[first], available[b.declared])
      <4>1. first \in Nat /\ b.declared \in Nat
        BY <1>1, <1>9
      <4>2. b.declared \in narrow
        <5>1. \A e \in declared : /\ Level(available[e]) \in Nat
                                  /\ Cardinality(available[e].params) \in Nat
          <6>1. \A e \in declared : IsMediaType(available[e])
            BY <1>1 DEF IsMediaList
          <6> QED
            BY <6>1, SpecificityType
        <5>2. ASSUME NEW f \in declared PROVE ~MoreSpecific(available[f], available[b.declared])
          <6>1. ~MoreSpecific(available[f], available[first])
            BY <1>4
          <6> HIDE DEF declared, narrow, best
          <6> QED
            BY <6>1, <5>1, <3>1, <3>2, <3>4 DEF MoreSpecific
        <5> QED
          BY <3>1, <5>2
      <4>3. first <= b.declared
        BY <1>4, <4>2
      <4>4. CASE first < b.declared
        BY <1>9, <2>3, <3>2, <4>4 DEF Wins
      <4>5. CASE b.declared = first
        <5>1. b \in top /\ x \in top /\ y \in top
          BY <3>1, <4>5
        <5>2. /\ z.place[1] \in Nat /\ z.place[2] \in Nat /\ z.place[3] \in Nat
              /\ b.place[1] \in Nat /\ b.place[2] \in Nat /\ b.place[3] \in Nat
          BY <1>5, <1>9, <5>1
        <5>3. z.place[1] <= b.place[1]
          BY <1>6, <1>9, <5>1
        <5>4. z.place[1] = b.place[1] => z.place[2] <= b.place[2]
          BY <1>7, <1>9, <5>1
        <5>5. z.place[1] = b.place[1] /\ z.place[2] = b.place[2] => z.place[3] <= b.place[3]
          BY <1>8, <1>9, <5>1
        <5>6. ~(z.place[1] = b.place[1] /\ z.place[2] = b.place[2] /\ z.place[3] = b.place[3])
          <6>1. z.place # b.place
            BY <1>1, <1>9, <1>10
          <6> QED
            BY <6>1, <1>5, <1>9, <5>1
        <5>7. Earlier(z.place, b.place)
          BY <5>2, <5>3, <5>4, <5>5, <5>6 DEF Earlier
        <5> QED
          BY <1>9, <2>3, <3>2, <4>5, <5>7 DEF Wins
      <4> QED
        BY <4>1, <4>3, <4>4, <4>5
    <3> QED
      BY <3>3, <3>4
  <2> QED
    BY <2>1, <2>2, <2>3
<1> QED
  BY <1>9, <1>10 DEF offers

\* What is chosen is an offer of the best quality.
LEMMA NegotiateFacts ==
    ASSUME NEW accept, IsAccept(accept), NEW available, IsMediaList(available)
    PROVE  LET best == Negotiate(accept, available)
           IN  /\ (best = NoOffer) <=> (Offers(accept, available) = {})
               /\ best # NoOffer => best \in Offers(accept, available)
               /\ \A o \in Offers(accept, available) : o.q <= best.q
               /\ best = NoOffer <=> best.declared = 0
<1> DEFINE offers == Offers(accept, available)
           best == Negotiate(accept, available)
<1>1. \A o \in offers : o # NoOffer /\ o.q \in 1 .. 10 /\ o.declared # 0
  <2>1. \A o \in offers : o.declared # 0
    BY DEF Offers
  <2> QED
    BY <2>1, OfferFacts
<1>2. CASE offers = {}
  <2>1. best = NoOffer /\ NoOffer.declared = 0
    BY <1>2 DEF Negotiate, NoOffer
  <2> QED
    BY <1>2, <2>1
<1>3. CASE offers # {}
  <2>1. PICK o \in offers : \A b \in offers \ {o} : Wins(o, b, available)
    BY <1>3, WinnerExists
  <2>2. best = CHOOSE a \in offers : \A b \in offers \ {a} : Wins(a, b, available)
    BY <1>3 DEF Negotiate
  <2> HIDE DEF offers, best
  <2>3. best \in offers /\ \A b \in offers \ {best} : Wins(best, b, available)
    BY <2>1, <2>2
  <2>4. ASSUME NEW x \in offers PROVE x.q <= best.q
    <3>1. x.q \in Nat /\ best.q \in Nat
      BY <1>1, <2>3
    <3>2. CASE x = best
      BY <3>1, <3>2
    <3>3. CASE x # best
      <4>1. best.q > x.q \/ best.q = x.q
        BY <2>3, <3>3 DEF Wins
      <4> QED
        BY <3>1, <4>1
    <3> QED
      BY <3>2, <3>3
  <2>5. best # NoOffer /\ best.declared # 0
    BY <1>1, <2>3
  <2> QED
    BY <1>3, <2>3, <2>4, <2>5 DEF offers, best
<1> QED
  BY <1>2, <1>3

-----------------------------------------------------------------------------
(* Responses. *)

\* The plugins and core read the same status, body and type.
SameBody(a, b) == a = b \/ (IsAbsent(a) /\ IsAbsent(b))

LEMMA PartsParse ==
    ASSUME NEW v
    PROVE  /\ Parts(v).status = Parse(v).status
           /\ SameBody(Parse(v).body, Parts(v).body)
           /\ SameBody(Parse(v).body, PluginBody(v))
           /\ v.headers = "good" => SameBody(Parse(v).body, CallbackBody(v))
           /\ Parts(v).ctype \in {NoMedia, Parse(v).ctype}
<1> DEFINE body == IF IsStructured(v) \/ IsStatusTuple(v) THEN v.body ELSE Whole(v)
<1>1. IsResponseObject(v) <=> IsStructured(v)
  BY DEF IsResponseObject, IsStructured
<1>2. IsAbsent(Undefined) /\ IsAbsent(Null)
  BY DEF IsAbsent, Undefined, Null, Body
<1>3. Parse(v).body = IF IsAbsent(body) THEN Undefined ELSE body
  BY <1>1 DEF Parse
<1>4. PluginBody(v) = body
  BY DEF PluginBody
<1>5. v.headers = "good" => CallbackBody(v) = body
  BY DEF CallbackBody, IsStructured
<1>6. CASE IsStatusTuple(v) \/ IsStructured(v)
  <2>1. Parts(v) = v /\ body = v.body
    BY <1>6 DEF Parts
  <2>2. Parse(v).status = v.status
    BY <1>1, <1>6 DEF Parse
  <2>3. v.ctype \in {NoMedia, Parse(v).ctype}
    BY <1>1, <1>6 DEF Parse
  <2> HIDE DEF body
  <2> QED
    BY <1>2, <1>3, <1>4, <1>5, <2>1, <2>2, <2>3 DEF SameBody
<1>7. CASE ~(IsStatusTuple(v) \/ IsStructured(v))
  <2> DEFINE data == IF Whole(v) = Null THEN Undefined ELSE Whole(v)
  <2>1. body = Whole(v)
    BY <1>7
  <2>2. Parts(v) = Value("plain", IF IsAbsent(data) THEN 204 ELSE 200, data, NoMedia, "good")
    BY <1>7 DEF Parts
  <2>3. IsAbsent(data) <=> IsAbsent(body)
    BY <1>2, <2>1
  <2>4. Parse(v).status = IF IsAbsent(body) THEN 204 ELSE 200
    BY <1>1, <1>7 DEF Parse
  <2>5. SameBody(data, body)
    BY <1>2, <2>1 DEF SameBody
  <2> HIDE DEF body, data
  <2>6. /\ Parts(v).status = Parse(v).status /\ Parts(v).body = data
        /\ Parts(v).ctype = NoMedia
    BY <2>2, <2>3, <2>4 DEF Value
  <2> QED
    BY <1>2, <1>3, <1>4, <1>5, <2>3, <2>5, <2>6 DEF SameBody
<1> QED
  BY <1>6, <1>7

\* What a tuple with a status means.
LEMMA TupleParts ==
    ASSUME NEW s \in 100 .. 599, NEW body, NEW ctype
    PROVE  /\ IsStatusTuple(TypedTuple(s, body, ctype))
           /\ Parts(TypedTuple(s, body, ctype)) = TypedTuple(s, body, ctype)
           /\ Parts(Tuple(s, body)) = Tuple(s, body)
BY DEF IsStatusTuple, Parts, TypedTuple, Tuple, Value

\* The first of several sets that is not empty.
LEMMA FirstOfIs ==
    ASSUME NEW sets, NEW n \in Nat, DOMAIN sets = 1 .. n
    PROVE  \/ FirstOf(sets) = NoAnswer /\ \A k \in 1 .. n : sets[k] = {}
           \/ \E k \in 1 .. n : /\ FirstOf(sets) \in sets[k]
                                /\ \A l \in 1 .. n : l < k => sets[l] = {}
<1> DEFINE used == {k \in DOMAIN sets : sets[k] # {}}
<1>1. CASE used = {}
  BY <1>1 DEF FirstOf
<1>2. CASE used # {}
  <2>1. used \in SUBSET Nat
    OBVIOUS
  <2>2. Min(used) \in used /\ \A l \in used : Min(used) <= l
    <3> HIDE DEF used
    <3> QED
      BY <1>2, <2>1, MinIs
  <2>3. FirstOf(sets) = CHOOSE a \in sets[Min(used)] : TRUE
    BY <1>2 DEF FirstOf
  <2> DEFINE first == Min(used)
  <2>4. first \in 1 .. n /\ sets[first] # {} /\ \A l \in 1 .. n : sets[l] # {} => first <= l
    BY <2>2
  <2> HIDE DEF first
  <2>5. FirstOf(sets) \in sets[first]
    BY <2>3, <2>4 DEF first
  <2>6. \A l \in 1 .. n : l < first => sets[l] = {}
    BY <2>4
  <2> QED
    BY <2>4, <2>5, <2>6
<1> QED
  BY <1>1, <1>2

LEMMA ResponsesAre ==
    ASSUME NEW responses, IsResponses(responses)
    PROVE  /\ Len(responses) \in Nat /\ DOMAIN responses = 1 .. Len(responses)
           /\ \A i \in DOMAIN responses :
                 /\ responses[i].key \in {0} \cup (100 .. 599) \cup {1000 * n : n \in 1 .. 5}
                 /\ responses[i].key \in Nat /\ IsMediaList(responses[i].content)
           /\ \A key : \A i, j \in EntryOf(responses, key) : i = j
           /\ \A i, j \in DOMAIN responses :
                 i < j /\ responses[j].key \in 100 .. 599 => responses[i].key \in 100 .. 599
<1>1. Len(responses) \in Nat /\ DOMAIN responses = 1 .. Len(responses)
  BY ListIs DEF IsResponses
<1>2. \A i \in DOMAIN responses :
          /\ responses[i].key \in {0} \cup (100 .. 599) \cup {1000 * n : n \in 1 .. 5}
          /\ IsMediaList(responses[i].content)
  BY DEF IsResponses
<1>3. \A i \in DOMAIN responses : responses[i].key \in Nat
  BY <1>2
<1>4. ASSUME NEW key, NEW i \in EntryOf(responses, key), NEW j \in EntryOf(responses, key)
      PROVE  i = j
  <2>1. i \in DOMAIN responses /\ j \in DOMAIN responses /\ responses[i].key = responses[j].key
    BY DEF EntryOf
  <2>2. ~(i < j) /\ ~(j < i)
    BY <2>1 DEF IsResponses
  <2> QED
    BY <1>1, <2>1, <2>2
<1>5. \A i, j \in DOMAIN responses :
          i < j /\ responses[j].key \in 100 .. 599 => responses[i].key \in 100 .. 599
  BY DEF IsResponses
<1> QED
  BY <1>1, <1>2, <1>3, <1>4, <1>5

\* The entries a status can mean: its own, else those of its range, else the default.
Meant(responses, s) ==
    LET exact == IF IsExact(s) THEN EntryOf(responses, s) ELSE {}
        range == EntryOf(responses, 1000 * (s \div 100))
    IN  IF exact # {} THEN exact
        ELSE IF range # {} THEN range ELSE EntryOf(responses, 0)

LEMMA EntryMeant ==
    ASSUME NEW responses, IsResponses(responses), NEW s
    PROVE  /\ \A i \in Meant(responses, s) : FindResponseEntry(responses, s) = i
           /\ FindResponseEntry(responses, s) \in {0} \cup DOMAIN responses
<1> DEFINE meant == Meant(responses, s)
<1>1. FindResponseEntry(responses, s) = Min(meant \cup IF meant = {} THEN {0} ELSE {})
  BY DEF FindResponseEntry, Meant
<1>2. \A key : EntryOf(responses, key) \subseteq DOMAIN responses
  BY DEF EntryOf
<1>3. meant \in SUBSET DOMAIN responses /\ \A a, b \in meant : a = b
  <2>1. \E key : meant = EntryOf(responses, key)
    BY DEF Meant
  <2> HIDE DEF meant
  <2> QED
    BY <1>2, <2>1, ResponsesAre
<1>4. DOMAIN responses \in SUBSET Nat
  BY ResponsesAre
<1> HIDE DEF meant
<1>5. ASSUME NEW a \in meant PROVE FindResponseEntry(responses, s) = a
  <2>1. meant \cup (IF meant = {} THEN {0} ELSE {}) = meant
    OBVIOUS
  <2>2. Min(meant) \in meant
    BY <1>3, <1>4, MinIs
  <2> QED
    BY <1>1, <1>3, <2>1, <2>2
<1>6. ASSUME meant = {} PROVE FindResponseEntry(responses, s) = 0
  <2>1. meant \cup (IF meant = {} THEN {0} ELSE {}) = {0}
    BY <1>6
  <2>2. Min({0}) \in {0}
    BY MinIs
  <2> QED
    BY <1>1, <2>1, <2>2
<1>7. FindResponseEntry(responses, s) \in {0} \cup DOMAIN responses
  BY <1>3, <1>5, <1>6
<1> QED
  BY <1>5, <1>7 DEF meant

LEMMA EntryIs ==
    ASSUME NEW responses, IsResponses(responses), NEW s \in Nat, NEW i
    PROVE  /\ s \in 100 .. 599 /\ i \in EntryOf(responses, s) => FindResponseEntry(responses, s) = i
           /\ /\ EntryOf(responses, s) = {} /\ i \in EntryOf(responses, 1000 * (s \div 100))
              => FindResponseEntry(responses, s) = i
           /\ /\ EntryOf(responses, s) = {} /\ EntryOf(responses, 1000 * (s \div 100)) = {}
              /\ i \in EntryOf(responses, 0)
              => FindResponseEntry(responses, s) = i
<1> DEFINE meant == Meant(responses, s)
           range == EntryOf(responses, 1000 * (s \div 100))
<1>1. s \in 100 .. 599 /\ i \in EntryOf(responses, s) => i \in meant
  BY DEF Meant, IsExact
<1>2. EntryOf(responses, s) = {} /\ i \in range => i \in meant
  BY DEF Meant
<1>3. EntryOf(responses, s) = {} /\ range = {} /\ i \in EntryOf(responses, 0) => i \in meant
  BY DEF Meant
<1>4. i \in meant => FindResponseEntry(responses, s) = i
  BY EntryMeant
<1> HIDE DEF meant, range
<1>5. /\ s \in 100 .. 599 /\ i \in EntryOf(responses, s) => FindResponseEntry(responses, s) = i
      /\ EntryOf(responses, s) = {} /\ i \in range => FindResponseEntry(responses, s) = i
      /\ EntryOf(responses, s) = {} /\ range = {} /\ i \in EntryOf(responses, 0)
         => FindResponseEntry(responses, s) = i
  BY <1>1, <1>2, <1>3, <1>4
<1> QED
  BY <1>5 DEF range

\* The status of an answer leads back to its entry.
LeadsBack(responses, answer) ==
    /\ answer.status \in 100 .. 599 /\ answer.entry \in DOMAIN responses
    /\ FindResponseEntry(responses, answer.status) = answer.entry

LEMMA SuccessLeadsBack ==
    ASSUME NEW responses, IsResponses(responses)
    PROVE  LET answer == FindSuccessResponse(responses)
           IN  \/ answer = NoAnswer /\ EntryOf(responses, 0) = {}
               \/ answer # NoAnswer /\ LeadsBack(responses, answer)
<1> DEFINE At(key, status) == {Answer(status, i) : i \in EntryOf(responses, key)}
           other == {i \in DOMAIN responses : responses[i].key \in 202 .. 299}
           others == {Answer(responses[i].key, i) : i \in {j \in other : \A k \in other : j <= k}}
           sets == <<At(200, 200), At(201, 201), others, At(2000, 200), At(0, 200)>>
           answer == FindSuccessResponse(responses)
<1>1. answer = FirstOf(sets)
  BY DEF FindSuccessResponse
<1>2. DOMAIN sets = 1 .. 5 /\ 5 \in Nat
  OBVIOUS
<1>3. /\ sets[1] = At(200, 200) /\ sets[2] = At(201, 201) /\ sets[3] = others
      /\ sets[4] = At(2000, 200) /\ sets[5] = At(0, 200)
  OBVIOUS
<1>4. \A i \in DOMAIN responses : i # 0
  BY ResponsesAre
<1>5. \A key : EntryOf(responses, key) \subseteq DOMAIN responses
  BY DEF EntryOf
<1>6. ASSUME NEW s \in 100 .. 599, NEW i \in DOMAIN responses,
             FindResponseEntry(responses, s) = i, answer = Answer(s, i)
      PROVE  answer # NoAnswer /\ LeadsBack(responses, answer)
  <2>1. answer.status = s /\ answer.entry = i /\ NoAnswer.entry = 0
    BY <1>6 DEF Answer, NoAnswer
  <2> QED
    BY <1>4, <1>6, <2>1 DEF LeadsBack
<1>7. At(0, 200) = {} => EntryOf(responses, 0) = {}
  OBVIOUS
<1>8. CASE FirstOf(sets) = NoAnswer /\ \A k \in 1 .. 5 : sets[k] = {}
  <2>1. sets[5] = At(0, 200) /\ 5 \in 1 .. 5
    BY <1>3
  <2> HIDE DEF sets
  <2>2. At(0, 200) = {}
    BY <1>8, <2>1
  <2> QED
    BY <1>1, <1>7, <1>8, <2>2
<1>9. CASE FirstOf(sets) # NoAnswer \/ ~\A k \in 1 .. 5 : sets[k] = {}
  <2>1. PICK k \in 1 .. 5 : FirstOf(sets) \in sets[k] /\ \A l \in 1 .. 5 : l < k => sets[l] = {}
    <3> HIDE DEF sets
    <3> QED
      BY <1>2, <1>9, FirstOfIs
  <2> HIDE DEF sets, answer
  <2>2. CASE k = 1
    <3>1. PICK i \in EntryOf(responses, 200) : answer = Answer(200, i)
      BY <1>1, <1>3, <2>1, <2>2
    <3>9. answer # NoAnswer /\ LeadsBack(responses, answer)
      BY <1>5, <1>6, <3>1, EntryIs
    <3> QED
      BY <3>9 DEF answer
  <2>3. CASE k = 2
    <3>1. PICK i \in EntryOf(responses, 201) : answer = Answer(201, i)
      BY <1>1, <1>3, <2>1, <2>3
    <3>9. answer # NoAnswer /\ LeadsBack(responses, answer)
      BY <1>5, <1>6, <3>1, EntryIs
    <3> QED
      BY <3>9 DEF answer
  <2>4. CASE k = 3
    <3>1. PICK i \in other : answer = Answer(responses[i].key, i)
      BY <1>1, <1>3, <2>1, <2>4
    <3>2. i \in EntryOf(responses, responses[i].key) /\ responses[i].key \in 202 .. 299
      BY DEF EntryOf
    <3>3. responses[i].key \in 100 .. 599 /\ responses[i].key \in Nat
      BY <3>2
    <3>4. FindResponseEntry(responses, responses[i].key) = i
      BY <3>2, <3>3, EntryIs
    <3>9. answer # NoAnswer /\ LeadsBack(responses, answer)
      BY <1>6, <3>1, <3>3, <3>4
    <3> QED
      BY <3>9 DEF answer
  <2>5. CASE k = 4
    <3>1. PICK i \in EntryOf(responses, 2000) : answer = Answer(200, i)
      BY <1>1, <1>3, <2>1, <2>5
    <3>2. EntryOf(responses, 200) = {} /\ 1000 * (200 \div 100) = 2000
      <4>1. sets[1] = {}
        BY <2>1, <2>5
      <4> QED
        BY <1>3, <4>1
    <3>9. answer # NoAnswer /\ LeadsBack(responses, answer)
      <4>1. i \in DOMAIN responses /\ 200 \in Nat /\ 200 \in 100 .. 599
        BY <1>5
      <4>2. FindResponseEntry(responses, 200) = i
        BY <3>1, <3>2, <4>1, EntryIs
      <4> QED
        BY <1>6, <3>1, <4>1, <4>2
    <3> QED
      BY <3>9 DEF answer
  <2>6. CASE k = 5
    <3>1. PICK i \in EntryOf(responses, 0) : answer = Answer(200, i)
      BY <1>1, <1>3, <2>1, <2>6
    <3>2. /\ EntryOf(responses, 200) = {} /\ EntryOf(responses, 2000) = {}
          /\ 1000 * (200 \div 100) = 2000
      <4>1. sets[1] = {} /\ sets[4] = {}
        BY <2>1, <2>6
      <4> QED
        BY <1>3, <4>1
    <3>9. answer # NoAnswer /\ LeadsBack(responses, answer)
      <4>1. i \in DOMAIN responses /\ 200 \in Nat /\ 200 \in 100 .. 599
        BY <1>5
      <4>2. FindResponseEntry(responses, 200) = i
        BY <3>1, <3>2, <4>1, EntryIs
      <4> QED
        BY <1>6, <3>1, <4>1, <4>2
    <3> QED
      BY <3>9 DEF answer
  <2> QED
    BY <2>1, <2>2, <2>3, <2>4, <2>5, <2>6 DEF answer
<1> QED
  BY <1>8, <1>9

LEMMA RepresentativeLeadsBack ==
    ASSUME NEW responses, IsResponses(responses)
    PROVE  LET answer == FindRepresentativeResponse(responses)
           IN  \/ answer = NoAnswer /\ DOMAIN responses = {}
               \/ answer # NoAnswer /\ LeadsBack(responses, answer)
<1> DEFINE success == FindSuccessResponse(responses)
           Effective(i) == IF IsExact(responses[i].key) THEN responses[i].key
                                                        ELSE responses[i].key \div 10
           lowest == {i \in DOMAIN responses : \A j \in DOMAIN responses :
                         \/ Effective(i) < Effective(j)
                         \/ Effective(i) = Effective(j) /\ i <= j}
           sets == <<{Answer(Effective(i), i) : i \in lowest}>>
           answer == FindRepresentativeResponse(responses)
<1>1. answer = IF success # NoAnswer THEN success ELSE FirstOf(sets)
  BY DEF FindRepresentativeResponse
<1>2. CASE success # NoAnswer
  <2>1. answer = success /\ LeadsBack(responses, success)
    BY <1>1, <1>2, SuccessLeadsBack
  <2> QED
    BY <1>2, <2>1
<1>3. CASE success = NoAnswer
  <2>1. EntryOf(responses, 0) = {}
    BY <1>3, SuccessLeadsBack
  <2>2. /\ Len(responses) \in Nat /\ DOMAIN responses = 1 .. Len(responses)
        /\ \A i \in DOMAIN responses :
              /\ responses[i].key \in (100 .. 599) \cup {1000 * n : n \in 1 .. 5}
              /\ responses[i].key \in Nat
    <3>1. \A i \in DOMAIN responses : responses[i].key # 0
      BY <2>1 DEF EntryOf
    <3> QED
      BY <3>1, ResponsesAre
  <2>3. \A i \in DOMAIN responses : Effective(i) \in 100 .. 599 /\ Effective(i) \in Nat
    <3> SUFFICES ASSUME NEW i \in DOMAIN responses PROVE Effective(i) \in 100 .. 599
      OBVIOUS
    <3>1. CASE responses[i].key \in 100 .. 599
      BY <3>1 DEF IsExact
    <3>2. CASE responses[i].key \in {1000 * n : n \in 1 .. 5}
      <4>1. \E n \in 1 .. 5 : responses[i].key = 1000 * n
        BY <3>2
      <4>2. PICK n \in 1 .. 5 : responses[i].key = 1000 * n
        BY <4>1
      <4>3. responses[i].key \div 10 = 100 * n /\ responses[i].key \notin 100 .. 599
        BY <4>2
      <4> QED
        BY <4>3 DEF IsExact
    <3> QED
      BY <2>2, <3>1, <3>2
  <2>4. DOMAIN responses # {} => lowest # {}
    <3> SUFFICES ASSUME DOMAIN responses # {} PROVE lowest # {}
      OBVIOUS
    <3> DEFINE effective == [i \in DOMAIN responses |-> Effective(i)]
    <3>1. effective \in [DOMAIN responses -> Nat]
      BY <2>3
    <3>2. PICK p \in DOMAIN responses : \A j \in DOMAIN responses : Effective(p) <= Effective(j)
      <4>1. PICK p \in DOMAIN responses : \A j \in DOMAIN responses : effective[p] <= effective[j]
        <5> HIDE DEF effective
        <5> QED
          BY <3>1, Least
      <4> QED
        BY <4>1
    <3> DEFINE equal == {j \in DOMAIN responses : Effective(j) = Effective(p)}
    <3>3. PICK i \in equal : \A j \in equal : i <= j
      <4>1. equal \in SUBSET Nat /\ equal # {}
        BY <2>2
      <4> HIDE DEF equal
      <4> QED
        BY <4>1, LeastNat
    <3>4. ASSUME NEW j \in DOMAIN responses
          PROVE  \/ Effective(i) < Effective(j)
                 \/ Effective(i) = Effective(j) /\ i <= j
      <4>1. Effective(i) \in Nat /\ Effective(j) \in Nat /\ Effective(i) <= Effective(j)
        BY <2>3, <3>2
      <4>2. Effective(i) = Effective(j) => i <= j
        BY <3>3
      <4> HIDE DEF Effective
      <4> QED
        BY <4>1, <4>2
    <3>5. i \in lowest
      BY <3>4
    <3> QED
      BY <3>5
  <2>5. DOMAIN sets = 1 .. 1 /\ sets[1] = {Answer(Effective(i), i) : i \in lowest} /\ 1 \in Nat
    OBVIOUS
  <2>6. \/ FirstOf(sets) = NoAnswer /\ sets[1] = {}
        \/ FirstOf(sets) \in sets[1]
    <3> HIDE DEF sets
    <3>1. \/ FirstOf(sets) = NoAnswer /\ \A k \in 1 .. 1 : sets[k] = {}
          \/ \E k \in 1 .. 1 : FirstOf(sets) \in sets[k]
      BY <2>5, FirstOfIs
    <3>2. 1 \in 1 .. 1 /\ \A k \in 1 .. 1 : k = 1
      OBVIOUS
    <3> QED
      BY <3>1, <3>2
  <2>7. CASE FirstOf(sets) = NoAnswer /\ sets[1] = {}
    <3>1. lowest = {}
      BY <2>5, <2>7
    <3>2. DOMAIN responses = {}
      <4> HIDE DEF lowest, sets
      <4> QED
        BY <2>4, <3>1
    <3>3. answer = NoAnswer
      <4> HIDE DEF lowest, sets
      <4> QED
        BY <1>1, <1>3, <2>7
    <3> HIDE DEF answer, lowest, sets
    <3>4. answer = NoAnswer /\ DOMAIN responses = {}
      BY <3>2, <3>3
    <3> QED
      BY <3>4 DEF answer
  <2>8. CASE FirstOf(sets) \in sets[1]
    <3>1. PICK i \in lowest : answer = Answer(Effective(i), i)
      BY <1>1, <1>3, <2>5, <2>8
    <3> DEFINE s == Effective(i)
    <3>2. i \in DOMAIN responses /\ s \in 100 .. 599 /\ s \in Nat
      BY <2>3
    <3>3. FindResponseEntry(responses, s) = i
      <4>1. CASE IsExact(responses[i].key)
        <5>1. i \in EntryOf(responses, s)
          BY <4>1 DEF EntryOf
        <5> HIDE DEF s
        <5> QED
          BY <3>2, <5>1, EntryIs
      <4>2. CASE ~IsExact(responses[i].key)
        <5>0. \E n \in 1 .. 5 : responses[i].key = 1000 * n
          <6>1. responses[i].key \in {1000 * n : n \in 1 .. 5}
            BY <2>2, <3>2, <4>2 DEF IsExact
          <6> QED
            BY <6>1
        <5>1. PICK n \in 1 .. 5 : responses[i].key = 1000 * n
          BY <5>0
        <5>2. s = 100 * n /\ 1000 * (s \div 100) = responses[i].key
          BY <4>2, <5>1
        <5>3. i \in EntryOf(responses, 1000 * (s \div 100))
          BY <5>2 DEF EntryOf
        <5>4. EntryOf(responses, s) = {}
          <6> SUFFICES ASSUME NEW j \in EntryOf(responses, s) PROVE FALSE
            OBVIOUS
          <6>1. j \in DOMAIN responses /\ responses[j].key = s /\ IsExact(responses[j].key)
            BY <3>2 DEF EntryOf, IsExact
          <6>2. Effective(j) = s
            BY <6>1
          <6>3. i <= j /\ i # j
            BY <2>3, <4>2, <6>1, <6>2
          <6>4. i < j /\ i \in Nat /\ j \in Nat
            BY <2>2, <6>1, <6>3
          <6> QED
            BY <4>2, <6>1, <6>4, ResponsesAre DEF IsExact
        <5> HIDE DEF s
        <5> QED
          BY <3>2, <5>3, <5>4, EntryIs
      <4> QED
        BY <4>1, <4>2
    <3>4. answer.status = s /\ answer.entry = i /\ NoAnswer.entry = 0 /\ i # 0
      BY <2>2, <3>1 DEF Answer, NoAnswer
    <3> HIDE DEF answer, s
    <3>5. answer # NoAnswer /\ LeadsBack(responses, answer)
      BY <3>2, <3>3, <3>4 DEF LeadsBack
    <3> QED
      BY <3>5 DEF answer
  <2> QED
    BY <2>6, <2>7, <2>8
<1> QED
  BY <1>2, <1>3

-----------------------------------------------------------------------------
(* What openapi makes of a response. *)

\* The request and its operation.
InputOK ==
    /\ IsAccept(req.accept)
    /\ {"kind", "responses"} \subseteq DOMAIN op /\ IsResponses(op.responses)
    /\ Len(pipe) \in Nat /\ DOMAIN pipe = 1 .. Len(pipe)
    /\ \A i, j \in DOMAIN pipe : pipe[i] = "openapi" /\ pipe[j] = "openapi" => i = j

\* A body that is made is made for the status and the label it is sent with.
ForItsStatus(v) ==
    Parts(v).body.kind = "made" =>
        \E s \in 100 .. 599 :
            v = TypedTuple(s, MadeBody(FindResponseEntry(op.responses, s), v.ctype), v.ctype)

\* The declaration a body is made for.
DeclaredFor(entry, label) ==
    IF label = NoMedia THEN Negotiated(Content(entry)).declared
    ELSE MatchDeclared(label, Content(entry))

LEMMA MadeBodyIs ==
    ASSUME NEW entry, NEW label
    PROVE  LET i == DeclaredFor(entry, label)
           IN  /\ MadeBody(entry, label).kind \in {"empty", "made"}
               /\ MadeBody(entry, label).kind = "made" =>
                     entry # 0 /\ i # 0 /\ MadeBody(entry, label) = Made(Content(entry)[i])
BY DEF MadeBody, Made, Body, Empty, DeclaredFor

\* Which answer Prefer leads to.
LEMMA PreferredIs ==
    ASSUME InputOK, NEW v
    PROVE  LET p == Preferred(v)
               coded == FindResponseEntry(op.responses, req.prefer.code)
           IN  \/ /\ req.prefer.code # 0 /\ coded # 0
                  /\ \E b \in {MadeBody(coded, NoMedia), Undefined} : p = Tuple(req.prefer.code, b)
               \/ /\ req.prefer.code = 0 \/ coded = 0
                  /\ \/ p = v
                     \/ /\ req.prefer.example
                        /\ \E s \in 100 .. 599 : p = Tuple(s, Body("example", <<>>))
                     \/ /\ Success # NoAnswer
                        /\ \E b \in {MadeBody(Success.entry, NoMedia), Undefined} :
                              p = Tuple(Success.status, b)
<1> DEFINE Answering(status, body) ==
               {Tuple(status, IF status = 204 /\ body = Empty THEN Undefined ELSE body)}
           Coded(entry) ==
               IF req.prefer.code = 0 \/ entry = 0 THEN {}
               ELSE Answering(req.prefer.code, MadeBody(entry, NoMedia))
           Exemplary(entry) ==
               IF ~req.prefer.example \/ entry = 0 THEN {}
               ELSE {Tuple(op.responses[entry].key, Body("example", <<>>))}
           Dynamic(answer) ==
               IF ~req.prefer.dynamic \/ answer = NoAnswer THEN {}
               ELSE Answering(answer.status, MadeBody(answer.entry, NoMedia))
           coded == FindResponseEntry(op.responses, req.prefer.code)
           example == FirstEntry(Examples(100 .. 599))
           sets == <<Coded(coded), Exemplary(example), Dynamic(Success)>>
           p == Preferred(v)
<1>1. p = IF FirstOf(sets) = NoAnswer THEN v ELSE FirstOf(sets)
  BY DEF Preferred
<1>2. DOMAIN sets = 1 .. 3 /\ 3 \in Nat /\ sets[1] = Coded(coded)
      /\ sets[2] = Exemplary(example) /\ sets[3] = Dynamic(Success)
  OBVIOUS
<1>a. 1 \in 1 .. 3 /\ 2 \in 1 .. 3 /\ 3 \in 1 .. 3 /\ 1 < 2 /\ 1 < 3
  OBVIOUS
<1>3. \A s, b : Tuple(s, b) # NoAnswer
  BY DEF Tuple, Value, NoAnswer, Answer
<1>4. \/ FirstOf(sets) = NoAnswer /\ \A k \in 1 .. 3 : sets[k] = {}
      \/ \E k \in 1 .. 3 : FirstOf(sets) \in sets[k] /\ \A l \in 1 .. 3 : l < k => sets[l] = {}
  <2> HIDE DEF sets
  <2> DEFINE n == 3
  <2>1. n \in Nat /\ DOMAIN sets = 1 .. n
    BY <1>2
  <2> HIDE DEF n
  <2>2. \/ FirstOf(sets) = NoAnswer /\ \A k \in 1 .. n : sets[k] = {}
        \/ \E k \in 1 .. n : FirstOf(sets) \in sets[k] /\ \A l \in 1 .. n : l < k => sets[l] = {}
    BY <2>1, FirstOfIs
  <2> QED
    BY <2>2 DEF n
<1> HIDE DEF sets, p
<1>5. CASE FirstOf(sets) = NoAnswer /\ \A k \in 1 .. 3 : sets[k] = {}
  <2>1. p = v /\ Coded(coded) = {}
    BY <1>1, <1>2, <1>5, <1>a
  <2> QED
    BY <2>1 DEF p
<1>6. ASSUME NEW k \in 1 .. 3, FirstOf(sets) \in sets[k], \A l \in 1 .. 3 : l < k => sets[l] = {}
      PROVE  \/ /\ req.prefer.code # 0 /\ coded # 0
                /\ \E b \in {MadeBody(coded, NoMedia), Undefined} : p = Tuple(req.prefer.code, b)
             \/ /\ req.prefer.code = 0 \/ coded = 0
                /\ \/ /\ req.prefer.example
                      /\ \E s \in 100 .. 599 : p = Tuple(s, Body("example", <<>>))
                   \/ /\ Success # NoAnswer
                      /\ \E b \in {MadeBody(Success.entry, NoMedia), Undefined} :
                            p = Tuple(Success.status, b)
  <2>1. CASE k = 1
    <3>1. FirstOf(sets) \in Coded(coded)
      BY <1>2, <1>6, <2>1
    <3> QED
      BY <1>1, <1>3, <3>1
  <2>2. CASE k = 2
    <3>1. FirstOf(sets) \in Exemplary(example) /\ Coded(coded) = {}
      <4>1. sets[2] = Exemplary(example) /\ sets[1] = Coded(coded) /\ sets[1] = {}
        BY <1>2, <1>6, <2>2, <1>a
      <4>2. FirstOf(sets) \in sets[2]
        BY <1>6, <2>2
      <4> HIDE DEF Exemplary, Coded, example, coded
      <4> QED
        BY <4>1, <4>2
    <3>2. req.prefer.example /\ example # 0 /\ FirstOf(sets) = Tuple(op.responses[example].key, Body("example", <<>>))
      BY <3>1
    <3>3. op.responses[example].key \in 100 .. 599
      <4>1. example \in Examples(100 .. 599)
        <5>1. Examples(100 .. 599) \in SUBSET Nat
          BY ResponsesAre DEF InputOK, Examples
        <5> QED
          BY <3>2, <5>1, MinIs DEF FirstEntry
      <4> QED
        BY <4>1 DEF Examples
    <3> DEFINE s == op.responses[example].key
    <3>4. s \in 100 .. 599 /\ FirstOf(sets) = Tuple(s, Body("example", <<>>))
      BY <3>2, <3>3
    <3>5. req.prefer.code = 0 \/ coded = 0
      BY <3>1
    <3> HIDE DEF Coded, coded, Exemplary, example, s
    <3>6. p = Tuple(s, Body("example", <<>>))
      BY <1>1, <1>3, <3>4
    <3> QED
      BY <3>2, <3>4, <3>5, <3>6
  <2>3. CASE k = 3
    <3>1. FirstOf(sets) \in Dynamic(Success) /\ Coded(coded) = {}
      <4>1. sets[3] = Dynamic(Success) /\ sets[1] = Coded(coded) /\ sets[1] = {}
        BY <1>2, <1>6, <2>3, <1>a
      <4> QED
        BY <1>6, <2>3, <4>1
    <3>2. req.prefer.code = 0 \/ coded = 0
      BY <3>1
    <3>3. /\ Success # NoAnswer
          /\ FirstOf(sets) = Tuple(Success.status,
                 IF Success.status = 204 /\ MadeBody(Success.entry, NoMedia) = Empty
                 THEN Undefined ELSE MadeBody(Success.entry, NoMedia))
      BY <3>1
    <3> DEFINE b == IF Success.status = 204 /\ MadeBody(Success.entry, NoMedia) = Empty
                    THEN Undefined ELSE MadeBody(Success.entry, NoMedia)
    <3>4. b \in {MadeBody(Success.entry, NoMedia), Undefined} /\ FirstOf(sets) = Tuple(Success.status, b)
      BY <3>3
    <3> HIDE DEF Coded, coded, Dynamic, Answering, b
    <3>5. p = Tuple(Success.status, b)
      BY <1>1, <1>3, <3>4
    <3> QED
      BY <3>2, <3>3, <3>4, <3>5
  <2> QED
    BY <2>1, <2>2, <2>3
<1> QED
  BY <1>4, <1>5, <1>6 DEF p

\* Prefer leaves every value alone, or none.
LEMMA PreferredAlike ==
    ASSUME InputOK
    PROVE  (\A v : Preferred(v) = v) \/ (\A v : Preferred(v).ctype = NoMedia)
<1> DEFINE Answering(status, body) ==
               {Tuple(status, IF status = 204 /\ body = Empty THEN Undefined ELSE body)}
           Coded(entry) ==
               IF req.prefer.code = 0 \/ entry = 0 THEN {}
               ELSE Answering(req.prefer.code, MadeBody(entry, NoMedia))
           Exemplary(entry) ==
               IF ~req.prefer.example \/ entry = 0 THEN {}
               ELSE {Tuple(op.responses[entry].key, Body("example", <<>>))}
           Dynamic(answer) ==
               IF ~req.prefer.dynamic \/ answer = NoAnswer THEN {}
               ELSE Answering(answer.status, MadeBody(answer.entry, NoMedia))
           sets == <<Coded(FindResponseEntry(op.responses, req.prefer.code)),
                     Exemplary(FirstEntry(Examples(100 .. 599))), Dynamic(Success)>>
           answer == FirstOf(sets)
           plain == Plain(Undefined)
<1>1. \A v : Preferred(v) = IF answer = NoAnswer THEN v ELSE answer
  BY DEF Preferred
<1> HIDE DEF answer
<1>2. plain.ctype = NoMedia /\ \A s, b : Tuple(s, b).ctype = NoMedia
  BY DEF Plain, Tuple, Value
<1> HIDE DEF plain
<1>3. Preferred(plain) = plain \/ \E t, b : Preferred(plain) = Tuple(t, b)
  BY PreferredIs
<1>4. Preferred(plain).ctype = NoMedia
  BY <1>2, <1>3
<1> QED
  BY <1>1, <1>4

\* A tuple is a value, and its body is of its status if it was made for that or
\* was not made.
LEMMA TypedTupleKeeps ==
    ASSUME NEW s, NEW b, b = Body(b.kind, b.data), NEW m, IsLabel(m)
    PROVE  LET v == TypedTuple(s, b, m)
           IN  /\ IsValue(v) /\ v.ctype = m /\ v.body = b
               /\ (b.kind # "made" \/ b = MadeBody(FindResponseEntry(op.responses, s), m))
                  => ForItsStatus(v)
<1> DEFINE v == TypedTuple(s, b, m)
<1>1. IsValue(v) /\ v.ctype = m /\ v.body = b
  BY DEF IsValue, TypedTuple, Value
<1>2. Body("whole", <<>>).kind = "whole"
  BY DEF Body
<1>3. ASSUME b.kind # "made" PROVE ForItsStatus(v)
  <2>1. Parts(v).body \in {b, Body("whole", <<>>)}
    BY DEF Parts, IsStatusTuple, IsStructured, TypedTuple, Value, Whole, Null, Body
  <2>2. Parts(v).body.kind # "made"
    BY <1>2, <1>3, <2>1
  <2> QED
    BY <2>2 DEF ForItsStatus
<1>4. ASSUME b = MadeBody(FindResponseEntry(op.responses, s), m), s \in 100 .. 599
      PROVE  ForItsStatus(v)
  BY <1>1, <1>4 DEF ForItsStatus
<1>5. ASSUME s \notin 100 .. 599 PROVE ForItsStatus(v)
  <2>1. Parts(v).body = Body("whole", <<>>)
    BY <1>5 DEF Parts, IsStatusTuple, IsStructured, TypedTuple, Value, Whole, Null, Body
  <2>2. Parts(v).body.kind # "made"
    BY <1>2, <2>1
  <2> QED
    BY <2>2 DEF ForItsStatus
<1> QED
  BY <1>1, <1>3, <1>4, <1>5

LEMMA TupleIs ==
    IsLabel(NoMedia) /\ \A s, b : Tuple(s, b) = TypedTuple(s, b, NoMedia)
BY DEF IsLabel, Tuple, TypedTuple

LEMMA TupleKeeps ==
    ASSUME NEW s, NEW b, b = Body(b.kind, b.data)
    PROVE  /\ IsValue(Tuple(s, b)) /\ Tuple(s, b).ctype = NoMedia /\ Tuple(s, b).body = b
           /\ (b.kind # "made" \/ b = MadeBody(FindResponseEntry(op.responses, s), NoMedia))
              => ForItsStatus(Tuple(s, b))
<1>1. Tuple(s, b) = TypedTuple(s, b, NoMedia) /\ IsLabel(NoMedia)
  BY TupleIs
<1> QED
  BY <1>1, TypedTupleKeeps

LEMMA BodiesAre ==
    /\ \A e, m : /\ MadeBody(e, m) = Body(MadeBody(e, m).kind, MadeBody(e, m).data)
                /\ MadeBody(e, m).kind # "not acceptable"
    /\ Undefined = Body("undefined", <<>>) /\ Undefined.kind = "undefined"
    /\ Error = Body("error", <<>>) /\ Empty = Body("empty", <<>>)
    /\ \A kind, data : Body(kind, data).kind = kind /\ Body(kind, data).data = data
<1>1. \A e, m : MadeBody(e, m) = Body(MadeBody(e, m).kind, MadeBody(e, m).data)
  BY DEF MadeBody, Made, Body, Empty
<1>2. \A e, m : MadeBody(e, m).kind # "not acceptable"
  BY MadeBodyIs
<1>3. /\ Undefined = Body("undefined", <<>>) /\ Undefined.kind = "undefined"
      /\ Error = Body("error", <<>>) /\ Empty = Body("empty", <<>>)
  BY DEF Undefined, Error, Empty, Body
<1>4. \A kind, data : Body(kind, data).kind = kind /\ Body(kind, data).data = data
  BY DEF Body
<1> QED
  BY <1>1, <1>2, <1>3, <1>4

\* A refusal for want of a type.
IsRefusal(v) == v.body.kind = "not acceptable"

\* What openapi may turn into its answer.
Answerable(v) == IsValue(v) /\ ForItsStatus(v) /\ ~IsRefusal(v)

LEMMA AnswerableTyped ==
    ASSUME NEW s, NEW b, b = Body(b.kind, b.data), b.kind # "not acceptable", NEW m, IsLabel(m),
           b.kind # "made" \/ b = MadeBody(FindResponseEntry(op.responses, s), m)
    PROVE  Answerable(TypedTuple(s, b, m)) /\ TypedTuple(s, b, m).ctype = m
<1> DEFINE v == TypedTuple(s, b, m)
           forIts == b.kind # "made" \/ b = MadeBody(FindResponseEntry(op.responses, s), m)
<1>1. IsValue(v) /\ v.ctype = m /\ v.body = b /\ (forIts => ForItsStatus(v))
  BY TypedTupleKeeps
<1>2. forIts
  OBVIOUS
<1> HIDE DEF v, forIts
<1>3. Answerable(v) /\ v.ctype = m
  BY <1>1, <1>2 DEF Answerable, IsRefusal
<1> QED
  BY <1>3 DEF v

LEMMA AnswerableTuple ==
    ASSUME NEW s, NEW b, b = Body(b.kind, b.data), b.kind # "not acceptable",
           b.kind # "made" \/ b = MadeBody(FindResponseEntry(op.responses, s), NoMedia)
    PROVE  Answerable(Tuple(s, b)) /\ Tuple(s, b).ctype = NoMedia
BY TupleIs, AnswerableTyped

\* What Prefer leads to can be answered as well.
LEMMA PreferredKeeps ==
    ASSUME InputOK, NEW v, Answerable(v)
    PROVE  Answerable(Preferred(v)) /\ Preferred(v).ctype \in {NoMedia, v.ctype}
<1> DEFINE p == Preferred(v)
           coded == FindResponseEntry(op.responses, req.prefer.code)
           Keeps == Answerable(p) /\ p.ctype \in {NoMedia, v.ctype}
<1>1. ASSUME NEW s, NEW e, NEW b \in {MadeBody(e, NoMedia), Undefined}, p = Tuple(s, b),
             e = FindResponseEntry(op.responses, s)
      PROVE  Keeps
  <2>1. b = Body(b.kind, b.data) /\ b.kind # "not acceptable" /\ (b.kind # "made" \/ b = MadeBody(e, NoMedia))
    <3>1. CASE b = MadeBody(e, NoMedia)
      BY <3>1, BodiesAre
    <3>2. CASE b = Undefined
      <4>1. b.kind = "undefined" /\ b.data = <<>> /\ b = Body("undefined", <<>>)
        BY <3>2, BodiesAre
      <4> QED
        BY <4>1
    <3> QED
      BY <3>1, <3>2
  <2> HIDE DEF p
  <2> QED
    BY <1>1, <2>1, AnswerableTuple
<1> HIDE DEF p
<1>8. ASSUME req.prefer.code # 0 /\ coded # 0 /\ \E b \in {MadeBody(coded, NoMedia), Undefined} : p = Tuple(req.prefer.code, b) PROVE Keeps
  BY <1>1, <1>8
<1>9. ASSUME p = v PROVE Keeps
  BY <1>9
<1>10. ASSUME \E s \in 100 .. 599 : p = Tuple(s, Body("example", <<>>)) PROVE Keeps
  <2> DEFINE b == Body("example", <<>>)
  <2>1. PICK s \in 100 .. 599 : p = Tuple(s, b)
    BY <1>10
  <2>2. b = Body(b.kind, b.data) /\ b.kind # "not acceptable" /\ b.kind # "made"
    BY BodiesAre
  <2> HIDE DEF b
  <2> QED
    BY <2>1, <2>2, AnswerableTuple
<1>11. ASSUME Success # NoAnswer /\ \E b \in {MadeBody(Success.entry, NoMedia), Undefined} : p = Tuple(Success.status, b) PROVE Keeps
  <2>1. FindResponseEntry(op.responses, Success.status) = Success.entry
    BY <1>11, SuccessLeadsBack DEF Success, LeadsBack, InputOK
  <2> QED
    BY <1>1, <1>11, <2>1
<1> HIDE DEF Keeps
<1>12. Keeps
  BY <1>8, <1>9, <1>10, <1>11, PreferredIs DEF p
<1> QED
  BY <1>12 DEF Keeps, p

-----------------------------------------------------------------------------

\* How the type is chosen.
LEMMA WithTypeIs ==
    ASSUME NEW v
    PROVE  LET parts == Parts(v)
               available == Available(parts, FindResponseEntry(op.responses, parts.status))
               offer == Negotiate(req.accept, available)
               typed == WithType(v)
           IN  /\ typed.refusal <=> Selective /\ available # <<>> /\ offer = NoOffer
               /\ typed.refusal => typed.value = Tuple(406, NotAcceptable(available))
               /\ ~typed.refusal => typed.value = Typed(v, parts, available, offer)
BY DEF WithType, Negotiated

LEMMA AvailableIs ==
    ASSUME InputOK, NEW v, IsValue(v)
    PROVE  LET parts == Parts(v)
               entry == FindResponseEntry(op.responses, parts.status)
               available == Available(parts, entry)
           IN  /\ IsMediaList(available)
               /\ parts.ctype = NoMedia => available = ContentOf(entry)
               /\ parts.ctype # NoMedia /\ entry # 0 =>
                     available = <<parts.ctype>> /\ IsMediaType(parts.ctype) /\ IsConcrete(parts.ctype)
<1> DEFINE parts == Parts(v)
           entry == FindResponseEntry(op.responses, parts.status)
           available == Available(parts, entry)
<1>1. entry \in {0} \cup DOMAIN op.responses
  BY EntryMeant DEF InputOK
<1>2. entry # 0 => IsMediaList(Content(entry))
  BY <1>1, ResponsesAre DEF InputOK, Content
<1>3. parts.ctype = NoMedia \/ (IsMediaType(parts.ctype) /\ IsConcrete(parts.ctype))
  <2>1. parts.ctype \in {NoMedia, v.ctype}
    BY DEF Parts, Value
  <2>2. v.ctype = NoMedia \/ (IsMediaType(v.ctype) /\ IsConcrete(v.ctype))
    BY DEF IsValue, IsLabel
  <2> HIDE DEF parts
  <2> QED
    BY <2>1, <2>2
<1>4. IsMediaList(<<>>)
  BY DEF IsMediaList
<1>5. ASSUME NEW m, IsMediaType(m) PROVE IsMediaList(<<m>>)
  <2>1. <<m>> \in Seq({m}) /\ ToSet(<<m>>) = {m} /\ \A i \in DOMAIN <<m>> : <<m>>[i] = m
    BY DEF ToSet
  <2> QED
    BY <1>5, <2>1 DEF IsMediaList
<1> HIDE DEF parts, entry
<1>6. available = IF entry = 0 THEN <<>> ELSE IF parts.ctype # NoMedia THEN <<parts.ctype>> ELSE Content(entry)
  BY DEF Available
<1> HIDE DEF available
<1>7. IsMediaList(available)
  BY <1>2, <1>3, <1>4, <1>5, <1>6
<1>8. parts.ctype = NoMedia => available = ContentOf(entry)
  BY <1>6 DEF ContentOf
<1>9. parts.ctype # NoMedia /\ entry # 0 =>
          available = <<parts.ctype>> /\ IsMediaType(parts.ctype) /\ IsConcrete(parts.ctype)
  BY <1>3, <1>6
<1> QED
  BY <1>7, <1>8, <1>9 DEF available, entry, parts

\* What a response is once it has a type.
LEMMA TypedIs ==
    ASSUME NEW v, IsValue(v), NEW available, NEW offer,
           offer # NoOffer => IsMediaType(offer.media) /\ IsConcrete(offer.media)
    PROVE  LET w == Typed(v, Parts(v), available, offer)
           IN  \/ w = v /\ (Parts(v).ctype # NoMedia \/ offer = NoOffer)
               \/ /\ Parts(v).ctype = NoMedia /\ offer # NoOffer
                  /\ IsValue(w) /\ Parts(w) = w
                  /\ w.status = Parts(v).status /\ w.body = Parts(v).body
                  /\ w.ctype = offer.media /\ Parse(w).ctype = offer.media
<1> DEFINE parts == Parts(v)
           w == Typed(v, parts, available, offer)
           shape == IF parts.shape = "object" THEN "object" ELSE "tuple"
<1>1. CASE parts.ctype # NoMedia \/ offer = NoOffer
  BY <1>1 DEF Typed
<1>2. CASE ~(parts.ctype # NoMedia \/ offer = NoOffer)
  <2>1. v = Value(v.shape, v.status, v.body, v.ctype, v.headers)
        /\ v.headers \in {"good", "bad"} /\ v.body = Body(v.body.kind, v.body.data)
    BY DEF IsValue
  <2>2. parts = Value(parts.shape, parts.status, parts.body, parts.ctype, parts.headers)
        /\ parts.headers \in {"good", "bad"}
    BY <2>1 DEF Parts, Value
  <2>3. /\ parts.shape = "object" => parts.headers = "good"
        /\ parts.shape # "object" => parts.status \in 100 .. 599
    <3>1. CASE IsStatusTuple(v) \/ IsStructured(v)
      <4>1. parts = v
        BY <3>1 DEF Parts
      <4> HIDE DEF parts
      <4> QED
        BY <3>1, <4>1 DEF IsStatusTuple, IsStructured
    <3>2. CASE ~(IsStatusTuple(v) \/ IsStructured(v))
      <4>1. parts.shape = "plain" /\ parts.status \in {200, 204}
        BY <3>2 DEF Parts, Value
      <4> HIDE DEF parts
      <4> QED
        BY <4>1
    <3> QED
      BY <3>1, <3>2
  <2>4. parts.body = Body(parts.body.kind, parts.body.data)
    <3>1. parts.body \in {v.body, Body("whole", <<>>), Undefined}
      BY DEF Parts, Whole, Value
    <3>2. \A x \in {v.body, Body("whole", <<>>), Undefined} : x = Body(x.kind, x.data)
      BY <2>1 DEF Body, Undefined
    <3> HIDE DEF parts
    <3> QED
      BY <3>1, <3>2
  <2> HIDE DEF parts
  <2>5. w = Value(shape, parts.status, parts.body, offer.media, parts.headers)
    <3>1. w = [Value(shape, parts.status, parts.body, offer.media, "good")
                 EXCEPT !.headers = parts.headers]
      BY <1>2 DEF Typed
    <3> QED
      BY <3>1 DEF Value
  <2> HIDE DEF w
  <2>6. /\ w.shape = shape /\ w.status = parts.status /\ w.body = parts.body
        /\ w.ctype = offer.media /\ w.headers = parts.headers
    BY <2>5 DEF Value
  <2>7. shape \in {"object", "tuple"} /\ (shape = "object" <=> parts.shape = "object")
    OBVIOUS
  <2> HIDE DEF shape
  <2>8. IsStatusTuple(w) \/ IsStructured(w)
    BY <2>3, <2>6, <2>7 DEF IsStatusTuple, IsStructured
  <2>9. Parts(w) = w
    BY <2>8 DEF Parts
  <2>10. offer.media # NoMedia
    <3>1. NoMedia.type = ""
      BY DEF NoMedia, Media
    <3>2. offer.media.type # ""
      BY <1>2 DEF IsMediaType
    <3> QED
      BY <3>1, <3>2
  <2>11. Parse(w).ctype = offer.media
    BY <2>6, <2>8, <2>10 DEF Parse, IsResponseObject, IsStructured
  <2>12. IsValue(w)
    BY <1>2, <2>2, <2>4, <2>5, <2>6, <2>7 DEF IsValue, IsLabel
  <2> QED
    BY <1>2, <2>6, <2>9, <2>11, <2>12 DEF parts, w
<1> QED
  BY <1>1, <1>2

\* A body that was made is of the declaration that covers the type it is sent
\* with, and is judged by that.
LEMMA MadeAnswer ==
    ASSUME InputOK, NEW v, IsValue(v), ForItsStatus(v), ~WithType(v).refusal,
           NEW w, w = WithType(v).value, Parts(w).body.kind = "made"
    PROVE  LET media == Parts(w).body.data[1]
           IN  Covers(media, Parse(w).ctype) /\ \A j \in Judgements(w) : j.declared = media
<1> DEFINE parts == Parts(v)
           entry == FindResponseEntry(op.responses, parts.status)
           available == Available(parts, entry)
           offer == Negotiate(req.accept, available)
<1>1. w = Typed(v, parts, available, offer) /\ IsMediaList(available)
  BY WithTypeIs, AvailableIs
<1>2. IsAccept(req.accept)
  BY DEF InputOK
<1>3. offer # NoOffer => /\ IsMediaType(offer.media) /\ IsConcrete(offer.media)
                         /\ offer.declared = Authority(available, offer.media)
                         /\ offer.declared \in DOMAIN available
                         /\ offer.declared # 0
                         /\ Covers(available[offer.declared], offer.media)
  <2> HIDE DEF available
  <2> QED
    BY <1>1, <1>2, NegotiateFacts, OfferFacts
<1> HIDE DEF parts, available, offer, entry
<1>4. \/ w = v /\ (parts.ctype # NoMedia \/ offer = NoOffer)
      \/ /\ parts.ctype = NoMedia /\ offer # NoOffer
         /\ Parts(w) = w /\ w.status = parts.status /\ w.body = parts.body
         /\ w.ctype = offer.media /\ Parse(w).ctype = offer.media
  BY <1>1, <1>3, TypedIs DEF parts
<1>5. parts.body.kind = "made"
  BY <1>4 DEF parts
<1>6. PICK s \in 100 .. 599 :
          v = TypedTuple(s, MadeBody(FindResponseEntry(op.responses, s), v.ctype), v.ctype)
  BY <1>5 DEF ForItsStatus, parts
<1> DEFINE label == v.ctype
<1>7. parts = v /\ parts.status = s /\ parts.ctype = label /\ parts.body = MadeBody(entry, label)
  <2>1. parts = v
    BY <1>6, TupleParts DEF parts
  <2>2. v.status = s /\ v.body = MadeBody(FindResponseEntry(op.responses, s), label)
    BY <1>6 DEF TypedTuple, Value
  <2> QED
    BY <2>1, <2>2 DEF entry
<1> HIDE DEF label
<1> DEFINE declared == DeclaredFor(entry, label)
           media == Parts(w).body.data[1]
<1>8. entry # 0 /\ declared # 0 /\ MadeBody(entry, label) = Made(Content(entry)[declared])
  BY <1>5, <1>7, MadeBodyIs
<1> HIDE DEF declared
<1>9. /\ Parts(w) = w /\ w.status = s /\ w.body = MadeBody(entry, label)
      /\ Covers(Content(entry)[declared], Parse(w).ctype)
      /\ MatchDeclared(w.ctype, Content(entry)) = declared
  <2>1. CASE label = NoMedia
    <3>1. available = Content(entry) /\ offer = Negotiated(Content(entry))
      BY <1>7, <1>8, <2>1 DEF available, Available, offer, Negotiated
    <3>2. declared = offer.declared
      BY <2>1, <3>1 DEF declared, DeclaredFor
    <3>3. /\ offer # NoOffer /\ Parts(w) = w /\ w.status = s /\ w.body = MadeBody(entry, label)
          /\ w.ctype = offer.media /\ Parse(w).ctype = offer.media
      BY <1>4, <1>7, <1>8, <2>1, <3>2 DEF NoOffer
    <3> QED
      BY <1>3, <3>1, <3>2, <3>3 DEF MatchDeclared
  <2>2. CASE label # NoMedia
    <3>1. w = v /\ Parts(w) = w /\ w.status = s /\ w.body = MadeBody(entry, label) /\ w.ctype = label
      BY <1>4, <1>7, <2>2 DEF parts
    <3>2. declared = MatchDeclared(label, Content(entry))
      BY <2>2 DEF declared, DeclaredFor
    <3>3. declared = Authority(Content(entry), label)
      BY <1>8, <3>2 DEF MatchDeclared
    <3>4. IsMediaList(Content(entry))
      <4>1. entry \in DOMAIN op.responses
        BY <1>8, EntryMeant DEF InputOK, entry
      <4> QED
        BY <4>1, ResponsesAre DEF InputOK, Content
    <3>5. Covers(Content(entry)[declared], label)
      BY <1>8, <3>3, <3>4, AuthorityIs
    <3>6. Parse(w).ctype = label
      BY <2>2, <3>1, PartsParse
    <3> QED
      BY <3>1, <3>2, <3>5, <3>6
  <2> QED
    BY <2>1, <2>2
<1>10. media = Content(entry)[declared]
  <2>1. media = MadeBody(entry, label).data[1]
    BY <1>9
  <2> HIDE DEF media
  <2> QED
    BY <1>8, <2>1 DEF Made, Body
<1> HIDE DEF media
<1>11. ASSUME NEW j \in Judgements(w) PROVE j.declared = media
  <2>1. FindResponseEntry(op.responses, Parts(w).status) = entry
    BY <1>7, <1>9 DEF entry
  <2>2. MatchDeclared(Parts(w).ctype, ContentOf(entry)) = declared /\ declared # 0
    BY <1>8, <1>9 DEF ContentOf
  <2>3. j.declared = Content(entry)[declared]
    BY <2>1, <2>2, <1>8 DEF Judgements
  <2> QED
    BY <1>10, <2>3
<1> QED
  BY <1>9, <1>10, <1>11 DEF media

\* An answer of openapi is of a type that suits the client, and of those that
\* are declared none suits it better, unless a header fixes it.
SuitsClient(v) ==
    LET declared == ContentOf(FindResponseEntry(op.responses, Parts(v).status))
        Suits(m) == Quality(m, req.accept)
    IN  IF IsRefusal(v)
        THEN \A m \in ToSet(v.body.data) : IsConcrete(m) => Suits(m) = 0
        ELSE declared # <<>> =>
                /\ Suits(Parse(v).ctype) > 0
                /\ "user" \notin ToSet(pipe) =>
                      \/ Parse(v).ctype \in Fixed
                      \/ \A m \in ToSet(declared) : IsConcrete(m) => Suits(m) <= Suits(Parse(v).ctype)

\* No type that is declared suits better than what negotiation chose.
LEMMA NoneSuitsBetter ==
    ASSUME NEW accept, IsAccept(accept), NEW available, IsMediaList(available),
           NEW m \in ToSet(available), IsConcrete(m)
    PROVE  Quality(m, accept) <= Negotiate(accept, available).q
<1>1. PICK i \in DOMAIN available : m = available[i]
  BY DEF ToSet
<1>2. Quality(m, accept) \in 0 .. 10
  BY QualityType
<1>3. Negotiate(accept, available).q \in 0 .. 10
  <2>1. NoOffer.q = 0
    BY DEF NoOffer
  <2> QED
    BY <2>1, NegotiateFacts, OfferFacts
<1>4. CASE Quality(m, accept) = 0
  BY <1>3, <1>4
<1>5. CASE Quality(m, accept) > 0
  <2>1. PICK o \in Offers(accept, available) : o.q = Quality(m, accept)
    BY <1>1, <1>5, OwnCandidate
  <2> QED
    BY <2>1, NegotiateFacts
<1> QED
  BY <1>2, <1>4, <1>5

LEMMA SentAnswer ==
    ASSUME InputOK, NEW v, IsValue(v), ~IsRefusal(v), Selective,
           "user" \notin ToSet(pipe) => v.ctype \in {NoMedia} \cup Fixed
    PROVE  SuitsClient(WithType(v).value)
<1> DEFINE parts == Parts(v)
           entry == FindResponseEntry(op.responses, parts.status)
           available == Available(parts, entry)
           offer == Negotiate(req.accept, available)
           w == WithType(v).value
<1>1. /\ WithType(v).refusal <=> available # <<>> /\ offer = NoOffer
      /\ WithType(v).refusal => w = Tuple(406, NotAcceptable(available))
      /\ ~WithType(v).refusal => w = Typed(v, parts, available, offer)
  BY WithTypeIs
<1>2. /\ IsMediaList(available) /\ IsAccept(req.accept)
      /\ parts.ctype = NoMedia => available = ContentOf(entry)
      /\ parts.ctype # NoMedia /\ entry # 0 =>
            available = <<parts.ctype>> /\ IsMediaType(parts.ctype) /\ IsConcrete(parts.ctype)
  BY AvailableIs DEF InputOK
<1>3. \A m \in ToSet(available) : IsConcrete(m) => Quality(m, req.accept) <= offer.q
  <2> HIDE DEF available
  <2> QED
    BY <1>2, NoneSuitsBetter
<1>4. /\ offer = NoOffer => offer.q = 0
      /\ offer # NoOffer => /\ offer \in Offers(req.accept, available)
                            /\ IsMediaType(offer.media) /\ IsConcrete(offer.media)
                            /\ offer.q = Quality(offer.media, req.accept) /\ offer.q > 0
  <2>1. NoOffer.q = 0
    BY DEF NoOffer
  <2> HIDE DEF available
  <2>2. offer = NoOffer \/ offer \in Offers(req.accept, available)
    BY <1>2, NegotiateFacts
  <2> HIDE DEF offer
  <2>3. ASSUME offer \in Offers(req.accept, available)
        PROVE  /\ IsMediaType(offer.media) /\ IsConcrete(offer.media)
               /\ offer.q = Quality(offer.media, req.accept) /\ offer.q \in 1 .. 10
    BY <1>2, <2>3, OfferFacts
  <2>4. \A q \in 1 .. 10 : q > 0
    OBVIOUS
  <2> QED
    BY <2>1, <2>2, <2>3, <2>4
<1> HIDE DEF available, offer, w
<1>5. CASE WithType(v).refusal
  <2>1. IsRefusal(w) /\ w.body.data = available
    <3>1. w = Tuple(406, NotAcceptable(available))
      BY <1>1, <1>5
    <3> QED
      BY <3>1 DEF IsRefusal, Tuple, Value, NotAcceptable, Body
  <2>2. ASSUME NEW m \in ToSet(available), IsConcrete(m) PROVE Quality(m, req.accept) = 0
    <3>1. Quality(m, req.accept) \in 0 .. 10
      BY <1>2, QualityType
    <3>2. Quality(m, req.accept) <= offer.q /\ offer.q = 0
      BY <1>1, <1>3, <1>4, <1>5, <2>2
    <3> QED
      BY <3>1, <3>2
  <2>3. SuitsClient(w)
    BY <2>1, <2>2 DEF SuitsClient
  <2> QED
    BY <2>3 DEF w
<1>6. CASE ~WithType(v).refusal
  <2>1. \/ w = v /\ (parts.ctype # NoMedia \/ offer = NoOffer)
        \/ /\ parts.ctype = NoMedia /\ offer # NoOffer
           /\ Parts(w) = w /\ w.status = parts.status /\ w.body = parts.body
           /\ w.ctype = offer.media /\ Parse(w).ctype = offer.media
    <3>1. offer # NoOffer => IsMediaType(offer.media) /\ IsConcrete(offer.media)
      BY <1>4
    <3>2. w = Typed(v, Parts(v), available, offer)
      BY <1>1, <1>6
    <3> QED
      BY <3>1, <3>2, TypedIs
  <2> HIDE DEF parts
  <2>2. ~IsRefusal(parts)
    <3>1. parts.body \in {v.body, Body("whole", <<>>), Undefined}
      BY DEF parts, Parts, Whole, Value
    <3>2. Body("whole", <<>>).kind = "whole" /\ Undefined.kind = "undefined"
      BY DEF Body, Undefined
    <3> QED
      BY <3>1, <3>2 DEF IsRefusal
  <2>3. ~IsRefusal(w) /\ Parts(w).status = parts.status
    BY <2>1, <2>2 DEF parts, IsRefusal
  <2>4. ContentOf(FindResponseEntry(op.responses, Parts(w).status)) = ContentOf(entry)
    BY <2>3 DEF entry
  <2> HIDE DEF entry
  <2>5. ASSUME ContentOf(entry) # <<>>
        PROVE  /\ Quality(Parse(w).ctype, req.accept) > 0
               /\ "user" \notin ToSet(pipe) =>
                     \/ Parse(w).ctype \in Fixed
                     \/ \A m \in ToSet(ContentOf(entry)) :
                            IsConcrete(m) => Quality(m, req.accept) <= Quality(Parse(w).ctype, req.accept)
    <3>1. entry # 0 /\ available # <<>>
      <4>1. entry # 0
        BY <2>5 DEF ContentOf
      <4>2. CASE parts.ctype = NoMedia
        BY <1>2, <2>5, <4>1, <4>2
      <4>3. CASE parts.ctype # NoMedia
        <5>1. available = <<parts.ctype>>
          BY <1>2, <4>1, <4>3
        <5> QED
          BY <4>1, <5>1
      <4> QED
        BY <4>2, <4>3
    <3>2. offer # NoOffer
      BY <1>1, <1>6, <3>1
    <3>3. CASE parts.ctype = NoMedia
      BY <1>2, <1>3, <1>4, <2>1, <3>2, <3>3
    <3>4. CASE parts.ctype # NoMedia
      <4>1. w = v /\ available = <<parts.ctype>> /\ IsConcrete(parts.ctype) /\ IsMediaType(parts.ctype)
        BY <1>2, <2>1, <3>1, <3>4
      <4>2. offer.media = parts.ctype
        <5>1. PICK i, j, k : IsOffer(offer, req.accept, available, i, j, k)
          BY <1>2, <1>4, <3>2, OfferIs
        <5>2. i = 1 /\ available[i] = parts.ctype
          <6>1. i \in DOMAIN available
            BY <5>1 DEF IsOffer
          <6>2. DOMAIN available = {1} /\ available[1] = parts.ctype
            BY <4>1
          <6> QED
            BY <6>1, <6>2
        <5>3. Candidates(available[i], req.accept) = <<<<parts.ctype>>>>
          BY <4>1, <5>2 DEF Candidates
        <5>4. j = 1 /\ k = 1
          <6>1. j \in DOMAIN Candidates(available[i], req.accept)
                /\ k \in DOMAIN Candidates(available[i], req.accept)[j]
            BY <5>1 DEF IsOffer
          <6>2. j = 1
            BY <5>3, <6>1
          <6>3. Candidates(available[i], req.accept)[1] = <<parts.ctype>>
            BY <5>3
          <6> QED
            BY <6>1, <6>2, <6>3
        <5>5. offer.media = Candidates(available[i], req.accept)[j][k]
          BY <5>1 DEF IsOffer
        <5> QED
          BY <5>3, <5>4, <5>5
      <4>3. Parse(w).ctype = parts.ctype
        BY <3>4, <4>1, PartsParse DEF parts
      <4>4. "user" \notin ToSet(pipe) => Parse(w).ctype \in Fixed
        <5>1. parts.ctype \in {NoMedia, v.ctype}
          BY DEF parts, Parts, Value
        <5> QED
          BY <3>4, <4>3, <5>1
      <4> QED
        BY <1>4, <3>2, <4>2, <4>3, <4>4
    <3> QED
      BY <3>3, <3>4
  <2>6. SuitsClient(w)
    BY <2>3, <2>4, <2>5 DEF SuitsClient
  <2> QED
    BY <2>6 DEF w
<1> QED
  BY <1>5, <1>6

-----------------------------------------------------------------------------
(* Before and after the generator. *)

\* The types of its values.
Labels == {g.value.ctype : g \in Generated}

StaticStatus == IF Representative = NoAnswer THEN 200 ELSE Representative.status
StaticLabel == HeaderOf(Representative.entry)
StaticValue ==
    BuildResponse(StaticStatus, MadeBody(Representative.entry, StaticLabel), StaticLabel)

LEMMA BuiltIs ==
    ASSUME NEW s, NEW b, NEW m
    PROVE  \/ s = 0 /\ m = NoMedia /\ BuildResponse(s, b, m) = Plain(b)
           \/ \E c \in {b, Undefined} :
                 BuildResponse(s, b, m) = TypedTuple(IF s = 0 THEN 200 ELSE s, c, m)
BY DEF BuildResponse

\* The header of an entry that an answer leads to is a label.
LEMMA HeaderIs ==
    ASSUME InputOK
    PROVE  IsLabel(HeaderOf(Success.entry)) /\ IsLabel(StaticLabel)
<1>1. ASSUME NEW e \in {0} \cup DOMAIN op.responses PROVE IsLabel(HeaderOf(e))
  <2>1. CASE e = 0
    BY <2>1, TupleIs DEF HeaderOf
  <2>2. CASE e # 0
    <3>1. IsLabel(op.responses[e].header)
      BY <2>2 DEF InputOK, IsResponses
    <3> QED
      BY <2>2, <3>1 DEF HeaderOf
  <2> QED
    BY <2>1, <2>2
<1>2. NoAnswer.entry = 0
  BY DEF NoAnswer, Answer
<1>3. Success.entry \in {0} \cup DOMAIN op.responses
  BY <1>2, SuccessLeadsBack DEF InputOK, Success, LeadsBack
<1>4. Representative.entry \in {0} \cup DOMAIN op.responses
  BY <1>2, RepresentativeLeadsBack DEF InputOK, Representative, LeadsBack
<1> QED
  BY <1>1, <1>3, <1>4 DEF StaticLabel

LEMMA StaticGenerates ==
    ASSUME op.kind = "static"
    PROVE  Generated = {[value |-> StaticValue, stages |-> FALSE]}
BY DEF Generated, StaticValue, StaticStatus, StaticLabel

LEMMA StaticIs ==
    ASSUME op.kind = "static", NEW g \in Generated
    PROVE  g.value = StaticValue
BY StaticGenerates

\* What other generators answer.
LEMMA GeneratedIs ==
    ASSUME op.kind # "static", NEW g \in Generated
    PROVE  /\ \E s : \E b \in {Body("item", <<>>), List(op.rows), Error} :
                  g.value = Tuple(s, b) \/ g.value = BuildResponse(s, b, HeaderOf(Success.entry))
           /\ op.kind = "create" =>
                 g.value = BuildResponse(StatusOr(201), Body("item", <<>>), HeaderOf(Success.entry))
<1> DEFINE item == Body("item", <<>>)
           missing == [value |-> Tuple(404, Error), stages |-> FALSE]
           Given(v, stages) == [value |-> v, stages |-> stages]
           Stored(status, body) == BuildResponse(StatusOr(status), body, HeaderOf(Success.entry))
<1>1. CASE op.kind = "list"
  <2>1. Generated = {Given(Stored(0, List(op.rows)), FALSE)}
    BY <1>1 DEF Generated
  <2> QED
    BY <1>1, <2>1
<1>2. CASE op.kind = "create"
  <2>1. Generated = {Given(Stored(201, item), TRUE)}
    BY <1>2 DEF Generated
  <2> QED
    BY <1>2, <2>1
<1>3. CASE op.kind = "read"
  <2>1. Generated = {missing, Given(Stored(0, item), FALSE)}
    BY <1>3 DEF Generated
  <2> QED
    BY <1>3, <2>1
<1>4. CASE op.kind = "update"
  <2>1. Generated = {missing, Given(Stored(0, item), TRUE)}
    BY <1>4 DEF Generated
  <2> QED
    BY <1>4, <2>1
<1>5. CASE op.kind = "delete"
  <2>1. Generated = {missing, Given(Stored(204, item), TRUE)}
    BY <1>5 DEF Generated
  <2> QED
    BY <1>5, <2>1
<1>6. CASE op.kind \notin {"list", "create", "read", "update", "delete"}
  <2>1. Generated = {}
    BY <1>6 DEF Generated
  <2> QED
    BY <2>1
<1> QED
  BY <1>1, <1>2, <1>3, <1>4, <1>5, <1>6

LEMMA StagesType ==
    ASSUME NEW g \in Generated
    PROVE  g.stages \in BOOLEAN
<1> DEFINE Given(v, stages) == [value |-> v, stages |-> stages]
<1>1. \E v : \E stages \in BOOLEAN : g = Given(v, stages)
  BY DEF Generated
<1> QED
  BY <1>1

\* What a generator answers can be answered by openapi.
LEMMA GeneratedKeeps ==
    ASSUME InputOK, NEW g \in Generated
    PROVE  Answerable(g.value)
<1>1. ASSUME NEW b, b = Body(b.kind, b.data), b.kind # "not acceptable", b.kind # "made"
      PROVE  /\ Answerable(Plain(b))
             /\ \A s, m : IsLabel(m) => Answerable(TypedTuple(s, b, m))
  <2>1. Plain(b).body = b /\ Plain(b).ctype = NoMedia
    BY DEF Plain, Value
  <2>2. IsValue(Plain(b))
    BY <1>1 DEF Plain, Value, IsValue, IsLabel
  <2>3. Parts(Plain(b)).body \in {b, Undefined}
    BY DEF Plain, Value, Parts, IsStatusTuple, IsStructured, Whole
  <2>4. ForItsStatus(Plain(b))
    <3>1. Parts(Plain(b)).body.kind # "made"
      BY <1>1, <2>3, BodiesAre
    <3> QED
      BY <3>1 DEF ForItsStatus
  <2>5. Answerable(Plain(b))
    BY <1>1, <2>1, <2>2, <2>4 DEF Answerable, IsRefusal
  <2> QED
    BY <1>1, <2>5, AnswerableTyped
<1>2. ASSUME NEW b \in {Body("item", <<>>), List(op.rows), Error, Undefined, Empty}
      PROVE  b = Body(b.kind, b.data) /\ b.kind # "not acceptable" /\ b.kind # "made"
  <2>1. \E kind \in {"item", "list", "error", "undefined", "empty"} : \E data : b = Body(kind, data)
    BY DEF List, Error, Undefined, Empty
  <2>2. PICK kind \in {"item", "list", "error", "undefined", "empty"} : \E data : b = Body(kind, data)
    BY <2>1
  <2>4. PICK data : b = Body(kind, data)
    BY <2>2
  <2>3. b.kind = kind /\ b.data = data
    BY <2>4, BodiesAre
  <2> QED
    BY <2>3, <2>4
<1>3. CASE op.kind # "static"
  <2> DEFINE m == HeaderOf(Success.entry)
  <2>1. PICK s : \E b \in {Body("item", <<>>), List(op.rows), Error} :
                     g.value = Tuple(s, b) \/ g.value = BuildResponse(s, b, m)
    BY <1>3, GeneratedIs
  <2>2. PICK b \in {Body("item", <<>>), List(op.rows), Error} :
                     g.value = Tuple(s, b) \/ g.value = BuildResponse(s, b, m)
    BY <2>1
  <2>3. IsLabel(m) /\ IsLabel(NoMedia)
    BY HeaderIs, TupleIs
  <2> HIDE DEF m
  <2>4. \E c \in {b, Undefined} : \E t : \E l \in {m, NoMedia} :
            g.value = TypedTuple(t, c, l) \/ g.value = Plain(c)
    BY <2>2, BuiltIs, TupleIs
  <2> QED
    BY <1>1, <1>2, <2>3, <2>4
<1>4. CASE op.kind = "static"
  <2> DEFINE s == StaticStatus
             m == StaticLabel
             b == MadeBody(Representative.entry, m)
  <2>1. g.value = BuildResponse(s, b, m)
    BY <1>4, StaticIs DEF StaticValue
  <2>2. s \in 100 .. 599 /\ s # 0
    <3>1. Representative # NoAnswer => Representative.status \in 100 .. 599
      BY RepresentativeLeadsBack DEF InputOK, Representative, LeadsBack
    <3>2. s \in 100 .. 599
      BY <3>1 DEF StaticStatus
    <3> HIDE DEF s
    <3> QED
      BY <3>2
  <2>3. b.kind # "made" \/ b = MadeBody(FindResponseEntry(op.responses, s), m)
    <3>1. CASE Representative = NoAnswer
      <4>1. b = Empty
        BY <3>1 DEF NoAnswer, Answer, MadeBody
      <4>2. Empty.kind = "empty"
        BY BodiesAre
      <4> QED
        BY <4>1, <4>2
    <3>2. CASE Representative # NoAnswer
      BY <3>2, RepresentativeLeadsBack DEF InputOK, Representative, LeadsBack, StaticStatus
    <3> QED
      BY <3>1, <3>2
  <2>4. b = Body(b.kind, b.data) /\ b.kind # "not acceptable"
    BY BodiesAre
  <2>5. IsLabel(m)
    BY HeaderIs
  <2> HIDE DEF s, b, m
  <2>6. Answerable(TypedTuple(s, b, m)) /\ Answerable(TypedTuple(s, Undefined, m))
    BY <1>1, <1>2, <2>3, <2>4, <2>5, AnswerableTyped
  <2> QED
    BY <2>1, <2>2, <2>6, BuiltIs
<1> QED
  BY <1>3, <1>4

\* Whether a tuple is refused depends on what its status declares.
LEMMA TupleRefusal ==
    ASSUME InputOK, NEW s \in 100 .. 599, NEW b
    PROVE  WithType(Tuple(s, b)).refusal
             <=> IsUnacceptable(ContentOf(FindResponseEntry(op.responses, s)))
<1> DEFINE v == Tuple(s, b)
           entry == FindResponseEntry(op.responses, s)
<1>1. Parts(v) = v /\ v.status = s /\ v.ctype = NoMedia
  BY TupleParts DEF Tuple, Value
<1>2. Available(v, entry) = ContentOf(entry)
  BY <1>1 DEF Available, ContentOf
<1>3. IsMediaList(ContentOf(entry))
  <2>1. entry \in {0} \cup DOMAIN op.responses
    BY EntryMeant DEF InputOK
  <2>2. IsMediaList(<<>>)
    BY DEF IsMediaList
  <2> QED
    BY <2>1, <2>2, ResponsesAre DEF InputOK, ContentOf, Content
<1>4. Negotiated(ContentOf(entry)).declared = 0 <=> Negotiated(ContentOf(entry)) = NoOffer
  BY <1>3, NegotiateFacts DEF InputOK, Negotiated
<1> HIDE DEF v, entry
<1>5. WithType(v).refusal <=> Selective /\ ContentOf(entry) # <<>> /\ Negotiated(ContentOf(entry)) = NoOffer
  <2>1. WithType(v).refusal <=>
            LET available == Available(Parts(v), FindResponseEntry(op.responses, Parts(v).status))
            IN  Selective /\ available # <<>> /\ Negotiate(req.accept, available) = NoOffer
    BY WithTypeIs
  <2> QED
    BY <1>1, <1>2, <2>1 DEF Negotiated, entry
<1>6. WithType(v).refusal <=> IsUnacceptable(ContentOf(entry))
  BY <1>4, <1>5 DEF IsUnacceptable
<1> QED
  BY <1>6 DEF v, entry

LEMMA PreflightIs ==
    PreflightRefused # {} <=> PreflightStatus # 0 /\ IsUnacceptable(ContentOf(PreflightEntry))
BY DEF PreflightRefused

\* What Prefer leads to for a tuple, when it asks for no code and no example.
LEMMA PlainlyPreferred ==
    ASSUME InputOK, NEW v, req.prefer.code = 0, ~req.prefer.example
    PROVE  \/ Preferred(v) = v
           \/ Success # NoAnswer /\ \E b : Preferred(v) = Tuple(Success.status, b)
BY PreferredIs

\* A static route answers with its own status.
LEMMA StaticBuilt ==
    ASSUME InputOK
    PROVE  /\ StaticStatus \in 100 .. 599
           /\ \E b : StaticValue = TypedTuple(StaticStatus, b, StaticLabel)
<1>1. Representative # NoAnswer => Representative.status \in 100 .. 599
  BY RepresentativeLeadsBack DEF InputOK, Representative, LeadsBack
<1>2. StaticStatus \in 100 .. 599
  BY <1>1 DEF StaticStatus
<1>3. StaticStatus # 0
  BY <1>2
<1> QED
  BY <1>2, <1>3, BuiltIs DEF StaticValue

\* ... whatever Prefer says but for codes and examples, if no type is fixed.
LEMMA StaticPreferred ==
    ASSUME InputOK, op.kind = "static", Preferred(StaticValue).ctype = NoMedia,
           req.prefer.code = 0, ~req.prefer.example
    PROVE  \E b : Preferred(StaticValue) = Tuple(StaticStatus, b)
<1>1. Success # NoAnswer => Representative = Success
  BY DEF Representative, FindRepresentativeResponse, Success
<1>2. PICK b : StaticValue = TypedTuple(StaticStatus, b, StaticLabel)
  BY StaticBuilt
<1>3. StaticValue.ctype = StaticLabel
  BY <1>2 DEF TypedTuple, Value
<1>4. CASE Preferred(StaticValue) = StaticValue
  BY <1>2, <1>3, <1>4, TupleIs
<1>5. CASE Success # NoAnswer /\ \E c : Preferred(StaticValue) = Tuple(Success.status, c)
  BY <1>1, <1>5 DEF StaticStatus
<1> QED
  BY <1>4, <1>5, PlainlyPreferred

\* A request that is refused before its generator runs would be refused after,
\* unless a header fixes a type.
LEMMA RefusedBefore ==
    ASSUME InputOK, PreflightRefused # {}, req.prefer.code \in {0} \cup (100 .. 599),
           NEW g \in Generated
    PROVE  Preferred(g.value).ctype \in Fixed \/ WithType(Preferred(g.value)).refusal
<1>0. Preferred(g.value).ctype \in Fixed \/ Preferred(g.value).ctype = NoMedia
  BY DEF Fixed
<1> SUFFICES ASSUME Preferred(g.value).ctype = NoMedia
             PROVE  WithType(Preferred(g.value)).refusal
  BY <1>0
<1> DEFINE content == ContentOf(PreflightEntry)
           code == req.prefer.code
<1>1. PreflightStatus # 0 /\ IsUnacceptable(content)
  BY PreflightIs
<1>2. content # <<>> /\ Negotiated(content).declared = 0
  BY <1>1 DEF IsUnacceptable
<1>3. PreflightEntry # 0 /\ content = Content(PreflightEntry)
  BY <1>2 DEF ContentOf
<1>4. CASE code # 0
  <2>1. PreflightEntry = FindResponseEntry(op.responses, code)
    BY <1>4 DEF PreflightEntry
  <2>2. \E b : Preferred(g.value) = Tuple(code, b)
    BY <1>3, <1>4, <2>1, PreferredIs
  <2>3. code \in 100 .. 599
    BY <1>4
  <2> QED
    BY <1>1, <2>1, <2>2, <2>3, TupleRefusal
<1>5. CASE code = 0 /\ req.prefer.example
  <2>1. PreflightEntry = FirstEntry(Examples(AllKeys))
    BY <1>5 DEF PreflightEntry
  <2>2. Examples(AllKeys) \in SUBSET Nat
    BY ResponsesAre DEF InputOK, Examples
  <2>3. PreflightEntry \in Examples(AllKeys)
    BY <1>3, <2>1, <2>2, MinIs DEF FirstEntry
  <2>4. HasExample(PreflightEntry)
    BY <2>3 DEF Examples
  <2> QED
    BY <1>2, <1>3, <2>4 DEF HasExample
<1>6. CASE code = 0 /\ ~req.prefer.example
  <2>1. PreflightEntry = FindResponseEntry(op.responses, PreflightStatus)
    BY <1>6 DEF PreflightEntry
  <2>2. CASE op.kind = "static"
    <3>1. PreflightStatus = Representative.status
      BY <2>2 DEF PreflightStatus
    <3>2. Representative # NoAnswer
      BY <1>1, <3>1 DEF NoAnswer, Answer
    <3>3. StaticStatus = Representative.status /\ StaticStatus \in 100 .. 599
      BY <3>2, StaticBuilt DEF StaticStatus
    <3>4. \E b : Preferred(g.value) = Tuple(StaticStatus, b)
      BY <1>6, <2>2, StaticIs, StaticPreferred
    <3> QED
      BY <1>1, <2>1, <3>1, <3>3, <3>4, TupleRefusal
  <2>3. CASE op.kind = "create"
    <3>1. Success # NoAnswer /\ PreflightStatus = Success.status
      BY <1>1, <2>3 DEF PreflightStatus, StatusOr
    <3>2. Success.status \in 100 .. 599 /\ Success.status # 0
      <4>1. Success.status \in 100 .. 599
        BY <3>1, SuccessLeadsBack DEF InputOK, Success, LeadsBack
      <4> QED
        BY <4>1
    <3>3. g.value = BuildResponse(Success.status, Body("item", <<>>), HeaderOf(Success.entry))
      BY <2>3, <3>1, GeneratedIs DEF StatusOr
    <3>4. \E b : Preferred(g.value) = Tuple(Success.status, b)
      <4>1. PICK c : g.value = TypedTuple(Success.status, c, HeaderOf(Success.entry))
        BY <3>2, <3>3, BuiltIs
      <4>2. g.value.ctype = HeaderOf(Success.entry)
        BY <4>1 DEF TypedTuple, Value
      <4>3. Preferred(g.value) = g.value => g.value = Tuple(Success.status, c)
        BY <4>1, <4>2, TupleIs
      <4> QED
        BY <1>6, <4>3, PlainlyPreferred
    <3> QED
      BY <1>1, <2>1, <3>1, <3>2, <3>4, TupleRefusal
  <2>4. CASE op.kind \notin {"static", "create"}
    BY <1>1, <2>4 DEF PreflightStatus
  <2> QED
    BY <2>2, <2>3, <2>4
<1> QED
  BY <1>4, <1>5, <1>6

\* What passes before is not refused after, for a static route by itself ...
LEMMA StaticAccepted ==
    ASSUME InputOK, op.kind = "static", PreflightRefused = {},
           Preferred(StaticValue).ctype = NoMedia, req.prefer.code = 0, ~req.prefer.example
    PROVE  ~WithType(Preferred(StaticValue)).refusal
<1>1. PICK b : Preferred(StaticValue) = Tuple(StaticStatus, b)
  BY StaticPreferred
<1>2. StaticStatus \in 100 .. 599
  BY StaticBuilt
<1>3. ~IsUnacceptable(ContentOf(FindResponseEntry(op.responses, StaticStatus)))
  <2>1. CASE Representative # NoAnswer
    <3>1. PreflightStatus = StaticStatus
          /\ PreflightEntry = FindResponseEntry(op.responses, StaticStatus)
      BY <2>1 DEF PreflightStatus, PreflightEntry, StaticStatus
    <3>2. PreflightStatus # 0
      BY <1>2, <3>1
    <3> QED
      BY <3>1, <3>2, PreflightIs
  <2>2. CASE Representative = NoAnswer
    <3>1. DOMAIN op.responses = {}
      BY <2>2, RepresentativeLeadsBack DEF InputOK, Representative
    <3>2. FindResponseEntry(op.responses, StaticStatus) = 0
      BY <3>1, EntryMeant DEF InputOK
    <3> QED
      BY <3>2 DEF IsUnacceptable, ContentOf
  <2> QED
    BY <2>1, <2>2
<1> QED
  BY <1>1, <1>2, <1>3, TupleRefusal

\* ... unless the type its headers fix does not suit the client.
LEMMA StaticRefused ==
    ASSUME InputOK, op.kind = "static", PreflightRefused = {},
           req.prefer.code = 0, ~req.prefer.example, WithType(Preferred(StaticValue)).refusal
    PROVE  WithType(Preferred(StaticValue)).value.body.data \in {<<media>> : media \in Fixed}
<1> DEFINE p == Preferred(StaticValue)
           entry == FindResponseEntry(op.responses, StaticStatus)
<1>1. p.ctype # NoMedia
  BY StaticAccepted
<1>2. p.ctype \in Fixed
  <2>1. \A g \in Generated : Preferred(g.value) = p
    BY StaticIs
  <2>2. Generated # {}
    BY StaticGenerates
  <2> QED
    BY <1>1, <2>1, <2>2 DEF Fixed
<1>3. p = StaticValue
  <2>1. \A t, b : Tuple(t, b).ctype = NoMedia
    BY DEF Tuple, Value
  <2> QED
    BY <1>1, <2>1, PlainlyPreferred
<1>4. Parts(p) = p /\ p.status = StaticStatus
  <2>1. PICK b : p = TypedTuple(StaticStatus, b, StaticLabel)
    BY <1>3, StaticBuilt
  <2>2. StaticStatus \in 100 .. 599
    BY StaticBuilt
  <2>3. Parts(p) = p
    BY <2>1, <2>2, TupleParts
  <2>4. p.status = StaticStatus
    BY <2>1 DEF TypedTuple, Value
  <2> QED
    BY <2>3, <2>4
<1> HIDE DEF p
<1>5. LET available == Available(Parts(p), FindResponseEntry(op.responses, Parts(p).status))
      IN  available # <<>> /\ WithType(p).value = Tuple(406, NotAcceptable(available))
  BY WithTypeIs DEF p
<1>6. Available(p, entry) # <<>> /\ WithType(p).value = Tuple(406, NotAcceptable(Available(p, entry)))
  BY <1>4, <1>5
<1>7. Available(p, entry) = <<p.ctype>>
  BY <1>1, <1>6 DEF Available
<1>8. WithType(p).value.body.data = <<p.ctype>>
  <2> DEFINE media == p.ctype
             b == NotAcceptable(<<media>>)
  <2>1. WithType(p).value = Tuple(406, b)
    BY <1>6, <1>7
  <2>2. b.data = <<media>>
    BY DEF NotAcceptable, Body
  <2> HIDE DEF b, media
  <2>3. Tuple(406, b).body = b
    BY DEF Tuple, Value
  <2>4. WithType(p).value.body.data = <<media>>
    BY <2>1, <2>2, <2>3
  <2> QED
    BY <2>4 DEF media
<1> QED
  BY <1>2, <1>8 DEF p

-----------------------------------------------------------------------------
(* What holds of a request on its way. *)

Control ==
    /\ pc \in {"guard", "process", "done"} /\ at \in Nat /\ at # 0
    /\ IsValue(response)
    /\ refused \in BOOLEAN /\ staged \in BOOLEAN /\ wrote \in BOOLEAN /\ committed \in BOOLEAN
    /\ delivered # {} => pc = "done"

\* Before its generator nothing has happened to a request.
AtStart ==
    pc = "guard" =>
        /\ response = Plain(Undefined) /\ refused = FALSE /\ rejection = {}
        /\ staged = FALSE /\ wrote = FALSE /\ committed = FALSE
        /\ made = {} /\ answered = {} /\ judged = {} /\ dispatched = {} /\ delivered = {}

\* Until openapi answers, what the generator staged waits.
Unanswered ==
    /\ refused => answered = {} /\ ~wrote
    /\ staged => wrote
    /\ answered = {} => ~committed /\ made = {} /\ dispatched = {}
    /\ answered = {} /\ ~refused =>
          /\ staged = wrote
          /\ Answerable(response)
          /\ "user" \notin ToSet(pipe) => response.ctype \in {NoMedia} \cup Labels

\* What openapi answered is settled, judged and announced by its own reading.
AnswerFacts(v) ==
    /\ committed <=> wrote /\ Parts(v).status < 400
    /\ dispatched \subseteq {CallbackBody(v)}
    /\ \A media \in made : Covers(media, Parse(v).ctype) /\ \A j \in Judgements(v) : j.declared = media
    /\ Selective /\ v # Tuple(500, Error) => SuitsClient(v)

\* It answers once.
Answered ==
    /\ answered # {} =>
          /\ pc # "guard" /\ ~staged /\ \E v \in answered : answered = {v}
          /\ \A i \in DOMAIN pipe : i >= at => pipe[i] # "openapi"
    /\ \A v \in answered : AnswerFacts(v)

OfOneReading(j) ==
    \/ j \in Judgements(j.of)
    \/ j.status = 0 /\ j.ctype = NoMedia /\ j.body = PluginBody(j.of)
Judged == \A j \in judged : OfOneReading(j)

Delivered ==
    \A d \in delivered :
        d.exception \/ d = Normalized(Parse(response), req.head) \/ (answered = {} /\ judged = {})

\* What was refused for want of a type before the generator ran had none.
Early ==
    at = 1 /\ refused /\ rejection = {} /\ IsRefusal(response) => PreflightRefused # {}

\* A static route by itself: a refusal names the type its headers fix.
OfFixed(v) == IsRefusal(v) => v.body.data \in {<<media>> : media \in Fixed}
Plainly == req.prefer.code = 0 /\ ~req.prefer.example
Alone ==
    pipe = <<"openapi">> /\ op.kind = "static" =>
        /\ pc = "guard" /\ at # 1 => PreflightRefused = {}
        /\ pc = "process" /\ ~refused /\ answered = {} =>
              PreflightRefused = {} /\ response = StaticValue
        /\ Plainly => \A v \in answered : OfFixed(v)

RequestInv ==
    /\ InputOK /\ Control /\ AtStart /\ Unanswered /\ Answered /\ Judged /\ Delivered
    /\ Early /\ Alone

\* A value whose body was neither made nor a refusal can be answered.
LEMMA OthersAnswerable ==
    ASSUME NEW v, IsValue(v), v.body.kind \notin {"made", "not acceptable"}
    PROVE  Answerable(v)
<1>1. Parts(v).body \in {v.body, Body("whole", <<>>), Undefined}
  BY DEF Parts, Whole, Value
<1>2. Body("whole", <<>>).kind = "whole" /\ Undefined.kind = "undefined"
  BY BodiesAre
<1>3. Parts(v).body.kind # "made"
  BY <1>1, <1>2
<1> QED
  BY <1>3 DEF Answerable, ForItsStatus, IsRefusal

LEMMA UndefinedAnswerable == Answerable(Plain(Undefined)) /\ IsValue(Plain(Undefined)) /\ Plain(Undefined).ctype = NoMedia
<1>1. Plain(Undefined).body = Undefined /\ Plain(Undefined).ctype = NoMedia
  BY DEF Plain, Value
<1>2. IsValue(Plain(Undefined))
  BY DEF Plain, Value, IsValue, IsLabel, Undefined, Body
<1>3. Plain(Undefined).body.kind \notin {"made", "not acceptable"}
  BY <1>1, BodiesAre
<1> QED
  BY <1>1, <1>2, <1>3, OthersAnswerable

\* What was said of a request stays true of it.
LEMMA InputSame ==
    ASSUME op' = op, req' = req, pipe' = pipe
    PROVE  /\ InputOK' <=> InputOK
           /\ \A v : (Answerable(v)' <=> Answerable(v)) /\ (SuitsClient(v)' <=> SuitsClient(v))
                     /\ Judgements(v)' = Judgements(v) /\ (OfOneReading(v)' <=> OfOneReading(v))
           /\ (Selective' <=> Selective) /\ StaticValue' = StaticValue
           /\ (PreflightRefused' = {} <=> PreflightRefused = {})
           /\ (Plainly' <=> Plainly)
           /\ Labels' = Labels /\ \A v : OfFixed(v)' <=> OfFixed(v)
<1>1. InputOK' <=> InputOK
  BY DEF InputOK
<1>2. /\ \A entry : Content(entry)' = Content(entry) /\ ContentOf(entry)' = ContentOf(entry)
      /\ \A list : Negotiated(list)' = Negotiated(list)
      /\ Selective' <=> Selective
  BY DEF Content, ContentOf, Negotiated, Selective
<1>3. /\ \A entry, m : MadeBody(entry, m)' = MadeBody(entry, m)
      /\ \A entry : HeaderOf(entry)' = HeaderOf(entry)
  BY <1>2 DEF MadeBody, HeaderOf
<1>4. ASSUME NEW v PROVE Answerable(v)' <=> Answerable(v)
  BY <1>3 DEF Answerable, ForItsStatus, IsRefusal
<1>6. ASSUME NEW v PROVE Judgements(v)' = Judgements(v)
  BY <1>2 DEF Judgements
<1>7. ASSUME NEW j PROVE OfOneReading(j)' <=> OfOneReading(j)
  BY <1>6 DEF OfOneReading
<1>8. Representative' = Representative /\ Success' = Success
  BY DEF Representative, Success
<1>9. StaticValue' = StaticValue
  BY <1>3, <1>8 DEF StaticValue, StaticStatus, StaticLabel
<1>10. PreflightStatus' = PreflightStatus
  BY <1>8 DEF PreflightStatus, StatusOr
<1>11. \A i : HasExample(i)' <=> HasExample(i)
  BY <1>2 DEF HasExample
<1>12. AllKeys' = AllKeys
  BY DEF AllKeys
<1>13. Examples(AllKeys)' = Examples(AllKeys)
  BY <1>11, <1>12 DEF Examples
<1>14. PreflightEntry' = PreflightEntry
  BY <1>10, <1>13 DEF PreflightEntry, FirstEntry
<1>15. ContentOf(PreflightEntry)' = ContentOf(PreflightEntry)
  BY <1>2, <1>14
<1>16. PreflightRefused' = PreflightRefused
  BY <1>2, <1>10, <1>15 DEF PreflightRefused, IsUnacceptable
<1>17. Plainly' <=> Plainly
  BY DEF Plainly
<1>18. Generated' = Generated
  <2>1. HeaderOf(Success.entry)' = HeaderOf(Success.entry)
        /\ HeaderOf(Representative.entry)' = HeaderOf(Representative.entry)
    BY <1>3, <1>8
  <2>2. MadeBody(Representative.entry, HeaderOf(Representative.entry))'
          = MadeBody(Representative.entry, HeaderOf(Representative.entry))
    BY <1>3, <1>8, <2>1
  <2>3. StatusOr(0)' = StatusOr(0) /\ StatusOr(201)' = StatusOr(201) /\ StatusOr(204)' = StatusOr(204)
    BY <1>8 DEF StatusOr
  <2> QED
    BY <1>8, <2>1, <2>2, <2>3 DEF Generated
<1>21. Labels' = Labels
  BY <1>18 DEF Labels
<1>19. Fixed' = Fixed
  <2>1. FirstEntry(Examples(100 .. 599))' = FirstEntry(Examples(100 .. 599))
    BY <1>11 DEF Examples, FirstEntry
  <2>2. ASSUME NEW v PROVE Preferred(v)' = Preferred(v)
    <3>1. \A e : MadeBody(e, NoMedia)' = MadeBody(e, NoMedia)
      BY <1>3
    <3>2. MadeBody(FindResponseEntry(op.responses, req.prefer.code), NoMedia)'
            = MadeBody(FindResponseEntry(op.responses, req.prefer.code), NoMedia)
          /\ MadeBody(Success.entry, NoMedia)' = MadeBody(Success.entry, NoMedia)
      BY <1>8, <3>1
    <3> DEFINE Answering(status, body) ==
                   {Tuple(status, IF status = 204 /\ body = Empty THEN Undefined ELSE body)}
               Coded(entry) ==
                   IF req.prefer.code = 0 \/ entry = 0 THEN {}
                   ELSE Answering(req.prefer.code, MadeBody(entry, NoMedia))
               Exemplary(entry) ==
                   IF ~req.prefer.example \/ entry = 0 THEN {}
                   ELSE {Tuple(op.responses[entry].key, Body("example", <<>>))}
               Dynamic(answer) ==
                   IF ~req.prefer.dynamic \/ answer = NoAnswer THEN {}
                   ELSE Answering(answer.status, MadeBody(answer.entry, NoMedia))
               coded == Coded(FindResponseEntry(op.responses, req.prefer.code))
               exemplary == Exemplary(FirstEntry(Examples(100 .. 599)))
               dynamic == Dynamic(Success)
               first == FirstOf(<<coded, exemplary, dynamic>>)
    <3>3. coded' = coded
      BY <3>2
    <3>4. exemplary' = exemplary
      <4> DEFINE entry == FirstEntry(Examples(100 .. 599))
                 example == Tuple(op.responses[entry].key, Body("example", <<>>))
      <4>1. entry' = entry
        BY <2>1
      <4> HIDE DEF entry
      <4>2. example' = example
        BY <4>1
      <4>3. exemplary = IF ~req.prefer.example \/ entry = 0 THEN {} ELSE {example}
        BY DEF entry
      <4>4. exemplary' = IF ~req'.prefer.example \/ entry' = 0 THEN {} ELSE {example'}
        BY DEF entry
      <4> HIDE DEF example, exemplary
      <4> QED
        BY <4>1, <4>2, <4>3, <4>4
    <3>5. dynamic' = dynamic
      BY <1>8, <3>2
    <3>6. Preferred(v) = IF first = NoAnswer THEN v ELSE first
      BY DEF Preferred
    <3>7. Preferred(v)' = IF first' = NoAnswer THEN v ELSE first'
      BY DEF Preferred
    <3> HIDE DEF coded, exemplary, dynamic
    <3>8. first' = first
      BY <3>3, <3>4, <3>5
    <3> HIDE DEF first
    <3> QED
      BY <3>6, <3>7, <3>8
  <2>3. {Preferred(g.value).ctype : g \in Generated}' = {Preferred(g.value).ctype : g \in Generated}
    BY <1>18, <2>2
  <2> QED
    BY <2>3 DEF Fixed
<1>20. ASSUME NEW v PROVE SuitsClient(v)' <=> SuitsClient(v)
  <2>1. ContentOf(FindResponseEntry(op.responses, Parts(v).status))'
          = ContentOf(FindResponseEntry(op.responses, Parts(v).status))
    BY <1>2
  <2> QED
    BY <1>19, <2>1 DEF SuitsClient
<1>22. ASSUME NEW v PROVE OfFixed(v)' <=> OfFixed(v)
  BY <1>19 DEF OfFixed, IsRefusal
<1> QED
  BY <1>1, <1>2, <1>4, <1>6, <1>7, <1>9, <1>16, <1>17, <1>20, <1>21, <1>22

-----------------------------------------------------------------------------
(* Every step keeps it. *)

LEMMA RequestStutter == ASSUME RequestInv, UNCHANGED vars PROVE RequestInv'
<1>1. op' = op /\ req' = req /\ pipe' = pipe
  BY DEF vars, input
<1>2. /\ pc' = pc /\ at' = at /\ response' = response /\ refused' = refused
      /\ rejection' = rejection /\ staged' = staged /\ wrote' = wrote /\ committed' = committed
      /\ made' = made /\ answered' = answered /\ judged' = judged /\ dispatched' = dispatched
      /\ delivered' = delivered
  BY DEF vars, writes, record
<1>3. InputOK' /\ Control' /\ AtStart'
  BY <1>1, <1>2, InputSame DEF RequestInv, Control, AtStart
<1>4. Unanswered'
  BY <1>1, <1>2, InputSame DEF RequestInv, Unanswered
<1>5. Answered'
  <2>1. ASSUME NEW v PROVE AnswerFacts(v)' <=> AnswerFacts(v)
    <3>1. Judgements(v)' = Judgements(v) /\ (SuitsClient(v)' <=> SuitsClient(v))
          /\ (Selective' <=> Selective)
      BY <1>1, InputSame
    <3> QED
      BY <1>2, <3>1 DEF AnswerFacts
  <2>2. \A v \in answered' : AnswerFacts(v)'
    BY <1>2, <2>1 DEF RequestInv, Answered
  <2> QED
    BY <1>1, <1>2, <2>2 DEF RequestInv, Answered
<1>6. Judged' /\ Delivered'
  BY <1>1, <1>2, InputSame DEF RequestInv, Judged, Delivered
<1>7. Early' /\ Alone'
  BY <1>1, <1>2, InputSame DEF RequestInv, Early, Alone, IsRefusal
<1> QED
  BY <1>3, <1>4, <1>5, <1>6, <1>7 DEF RequestInv

\* A guard that passes a request.
LEMMA PassKeeps ==
    ASSUME RequestInv, pc = "guard", at <= Len(pipe), PassGuard,
           pipe[at] = "openapi" => PreflightRefused = {}
    PROVE  RequestInv'
<1>1. op' = op /\ req' = req /\ pipe' = pipe
  BY DEF PassGuard, input
<1>2. /\ pc' = pc /\ at' = at + 1 /\ response' = response /\ refused' = refused
      /\ rejection' = rejection /\ staged' = staged /\ wrote' = wrote /\ committed' = committed
      /\ made' = made /\ answered' = answered /\ judged' = judged /\ dispatched' = dispatched
      /\ delivered' = delivered
  BY DEF PassGuard, writes, record
<1>3. at \in Nat /\ at # 0 /\ at' \in Nat /\ at' # 0 /\ at' # 1
  BY <1>2 DEF RequestInv, Control
<1>4. InputOK' /\ Control' /\ AtStart'
  BY <1>1, <1>2, <1>3, InputSame DEF RequestInv, Control, AtStart
<1>5. Unanswered'
  BY <1>1, <1>2, InputSame DEF RequestInv, Unanswered
<1>6. answered = {} /\ judged = {} /\ delivered = {} /\ refused = FALSE
  BY DEF RequestInv, AtStart
<1>7. Answered' /\ Judged' /\ Delivered' /\ Early'
  BY <1>2, <1>6 DEF Answered, Judged, Delivered, Early
<1>8. Alone'
  <2>1. pipe = <<"openapi">> => pipe[at] = "openapi"
    <3> SUFFICES ASSUME pipe = <<"openapi">> PROVE pipe[at] = "openapi"
      OBVIOUS
    <3>1. Len(pipe) = 1 /\ pipe[1] = "openapi"
      OBVIOUS
    <3>2. at = 1
      BY <1>3, <3>1
    <3> QED
      BY <3>1, <3>2
  <2>2. pipe' = <<"openapi">> => PreflightRefused' = {}
    BY <1>1, <2>1, InputSame
  <2> QED
    BY <1>2, <1>6, <2>2 DEF Alone
<1> QED
  BY <1>4, <1>5, <1>7, <1>8 DEF RequestInv

\* One that refuses it.
LEMMA RejectKeeps ==
    ASSUME RequestInv, pc = "guard", NEW v, IsValue(v), Reject(v),
           rejection' = {} /\ IsRefusal(v) => PreflightRefused # {}
    PROVE  RequestInv'
<1>1. op' = op /\ req' = req /\ pipe' = pipe
  BY DEF Reject, input
<1>2. /\ pc' = "process" /\ at' = 1 /\ response' = v /\ refused' = TRUE
      /\ staged' = staged /\ wrote' = wrote /\ committed' = committed
      /\ made' = made /\ answered' = answered /\ judged' = judged /\ dispatched' = dispatched
      /\ delivered' = delivered
  BY DEF Reject, writes, record
<1>3. /\ staged = FALSE /\ wrote = FALSE /\ committed = FALSE /\ made = {} /\ answered = {}
      /\ judged = {} /\ dispatched = {} /\ delivered = {}
  BY DEF RequestInv, AtStart
<1>4. InputOK' /\ Control' /\ AtStart'
  BY <1>1, <1>2, <1>3, InputSame DEF RequestInv, Control, AtStart
<1>5. Unanswered' /\ Answered' /\ Judged' /\ Delivered'
  BY <1>2, <1>3 DEF Unanswered, Answered, Judged, Delivered
<1>6. Early'
  BY <1>1, <1>2, InputSame DEF Early, IsRefusal
<1>7. Alone'
  BY <1>2, <1>3 DEF Alone
<1> QED
  BY <1>4, <1>5, <1>6, <1>7 DEF RequestInv

LEMMA OpenApiGuardKeeps == ASSUME RequestInv, OpenApiGuard PROVE RequestInv'
<1>1. pc = "guard" /\ at <= Len(pipe) /\ pipe[at] = "openapi"
  BY DEF OpenApiGuard, Turn
<1>2. CASE Refusals(PreflightRefused) = {} /\ PassGuard
  <2>1. PreflightRefused = {}
    <3>1. PreflightRefused # {} => {Tuple(406, NotAcceptable(c)) : c \in PreflightRefused} # {}
      OBVIOUS
    <3> QED
      BY <1>2, <3>1 DEF Refusals
  <2> QED
    BY <1>1, <1>2, <2>1, PassKeeps
<1>3. ASSUME NEW v \in Refusals(PreflightRefused), Reject(v), rejection' = rejection
      PROVE  RequestInv'
  <2>1. \/ \E s : v = Tuple(s, Error)
        \/ PreflightRefused # {} /\ \E c : v = Tuple(406, NotAcceptable(c))
    BY <1>3 DEF Refusals
  <2>2. \A s : IsValue(Tuple(s, Error)) /\ ~IsRefusal(Tuple(s, Error))
    <3>1. Error.kind = "error" /\ Error.data = <<>> /\ Error = Body("error", <<>>)
      BY BodiesAre
    <3>2. Error = Body(Error.kind, Error.data)
      BY <3>1
    <3> QED
      BY <3>1, <3>2, TupleKeeps DEF IsRefusal
  <2>3. \A c : IsValue(Tuple(406, NotAcceptable(c)))
    <3> SUFFICES ASSUME NEW c PROVE IsValue(Tuple(406, NotAcceptable(c)))
      OBVIOUS
    <3>1. NotAcceptable(c) = Body(NotAcceptable(c).kind, NotAcceptable(c).data)
      BY DEF NotAcceptable, Body
    <3> QED
      BY <3>1, TupleKeeps
  <2>4. IsValue(v) /\ (IsRefusal(v) => PreflightRefused # {})
    BY <2>1, <2>2, <2>3
  <2> QED
    BY <1>1, <1>3, <2>4, RejectKeeps
<1> QED
  BY <1>2, <1>3 DEF OpenApiGuard

LEMMA ValidationGuardKeeps == ASSUME RequestInv, ValidationGuard PROVE RequestInv'
<1>1. pc = "guard" /\ at <= Len(pipe) /\ pipe[at] = "validation"
  BY DEF ValidationGuard, Turn
<1>2. CASE PassGuard
  BY <1>1, <1>2, PassKeeps
<1>3. CASE Reject(Object(400, Error)) /\ rejection' = {Object(400, Error)}
  <2>1. IsValue(Object(400, Error))
    BY DEF Object, IsValue, IsLabel, Value, Error, Body
  <2>2. rejection' # {}
    BY <1>3
  <2> QED
    BY <1>1, <1>3, <2>1, <2>2, RejectKeeps
<1> QED
  BY <1>2, <1>3 DEF ValidationGuard

LEMMA OtherGuardKeeps == ASSUME RequestInv, OtherGuard PROVE RequestInv'
<1>1. pc = "guard" /\ at <= Len(pipe) /\ pipe[at] # "openapi"
  BY DEF OtherGuard, Turn
<1>2. CASE PassGuard
  BY <1>1, <1>2, PassKeeps
<1>3. CASE \E v \in UserValues : Reject(v)
  <2>1. PICK v \in UserValues : Reject(v)
    BY <1>3
  <2>2. IsValue(v) /\ ~IsRefusal(v)
    BY UserValuesAssumption DEF IsRefusal
  <2> QED
    BY <1>1, <2>1, <2>2, RejectKeeps
<1> QED
  BY <1>2, <1>3 DEF OtherGuard

LEMMA GenerateKeeps == ASSUME RequestInv, Generate PROVE RequestInv'
<1>1. op' = op /\ req' = req /\ pipe' = pipe /\ pc = "guard" /\ at > Len(pipe)
  BY DEF Generate, input
<1>2. PICK g \in Generated : response' = g.value /\ staged' = g.stages /\ wrote' = g.stages
  BY DEF Generate
<1>3. /\ pc' = "process" /\ at' = 1 /\ refused' = refused /\ rejection' = rejection
      /\ committed' = committed
      /\ made' = made /\ answered' = answered /\ judged' = judged /\ dispatched' = dispatched
      /\ delivered' = delivered
  BY DEF Generate, record
<1>4. /\ refused = FALSE /\ committed = FALSE /\ made = {} /\ answered = {}
      /\ judged = {} /\ dispatched = {} /\ delivered = {}
  BY <1>1 DEF RequestInv, AtStart
<1>5. g.stages \in BOOLEAN /\ Answerable(g.value) /\ IsValue(g.value) /\ g.value.ctype \in Labels
  BY StagesType, GeneratedKeeps DEF RequestInv, Answerable, Labels
<1>6. InputOK' /\ Control' /\ AtStart'
  BY <1>1, <1>2, <1>3, <1>4, <1>5, InputSame DEF RequestInv, Control, AtStart
<1>7. Unanswered'
  <2>1. Answerable(g.value)'
    BY <1>1, <1>5, InputSame
  <2>2. Answerable(response)'
    BY <1>2, <2>1 DEF Answerable, ForItsStatus, IsRefusal
  <2>3. Labels' = Labels
    BY <1>1, InputSame
  <2> QED
    BY <1>1, <1>2, <1>3, <1>4, <1>5, <2>2, <2>3 DEF Unanswered
<1>8. Answered' /\ Judged' /\ Delivered' /\ Early'
  BY <1>3, <1>4 DEF Answered, Judged, Delivered, Early
<1>9. Alone'
  <2> SUFFICES ASSUME pipe = <<"openapi">>, op.kind = "static"
               PROVE  PreflightRefused' = {} /\ response' = StaticValue'
    BY <1>1, <1>3, <1>4 DEF Alone
  <2>1. at # 1
    <3>1. Len(pipe) = 1
      OBVIOUS
    <3> QED
      BY <1>1, <3>1
  <2>2. PreflightRefused = {}
    BY <1>1, <2>1 DEF RequestInv, Alone
  <2>3. response' = StaticValue
    BY <1>2, StaticIs
  <2> QED
    BY <1>1, <2>2, <2>3, InputSame
<1> QED
  BY <1>6, <1>7, <1>8, <1>9 DEF RequestInv

\* A plugin that is not openapi, which judges no more than what it is given.
LEMMA PluginKeeps ==
    ASSUME RequestInv, pc = "process", at <= Len(pipe), pipe[at] # "openapi",
           UNCHANGED <<input, pc, refused, delivered, writes, made, answered, dispatched>>,
           at' = at + 1,
           \A j \in judged' : j \in judged \/ OfOneReading(j),
           NEW w, response' = w, IsValue(w),
           ~refused /\ answered = {} =>
               Answerable(w) /\ ("user" \notin ToSet(pipe) => w.ctype \in {NoMedia} \cup Labels)
    PROVE  RequestInv'
<1>1. op' = op /\ req' = req /\ pipe' = pipe
  BY DEF input
<1>2. /\ pc' = pc /\ refused' = refused
      /\ staged' = staged /\ wrote' = wrote /\ committed' = committed
      /\ made' = made /\ answered' = answered /\ dispatched' = dispatched
      /\ delivered' = delivered
  BY DEF writes
<1>3. at \in Nat /\ at # 0 /\ at' \in Nat /\ at' # 0 /\ at' # 1 /\ delivered = {}
  BY DEF RequestInv, Control
<1>4. InputOK' /\ Control' /\ AtStart'
  BY <1>1, <1>2, <1>3, InputSame DEF RequestInv, Control, AtStart
<1>5. Unanswered'
  <2>1. ~refused /\ answered = {} => Answerable(w)'
    BY <1>1, InputSame
  <2>2. ~refused /\ answered = {} => Answerable(response)'
    BY <2>1 DEF Answerable, ForItsStatus, IsRefusal
  <2>3. Labels' = Labels
    BY <1>1, InputSame
  <2> QED
    BY <1>1, <1>2, <2>2, <2>3 DEF RequestInv, Unanswered
<1>6. Answered'
  <2>1. ASSUME NEW v PROVE AnswerFacts(v)' <=> AnswerFacts(v)
    <3>1. Judgements(v)' = Judgements(v) /\ (SuitsClient(v)' <=> SuitsClient(v))
          /\ (Selective' <=> Selective)
      BY <1>1, InputSame
    <3> QED
      BY <1>2, <3>1 DEF AnswerFacts
  <2>2. \A v \in answered' : AnswerFacts(v)'
    BY <1>2, <2>1 DEF RequestInv, Answered
  <2>4. answered # {} => \A i \in DOMAIN pipe : i >= at' => pipe[i] # "openapi"
    BY <1>3 DEF RequestInv, InputOK, Answered
  <2> QED
    BY <1>1, <1>2, <2>2, <2>4 DEF RequestInv, Answered
<1>7. Judged'
  <2>1. \A j \in judged' : OfOneReading(j)
    BY DEF RequestInv, Judged
  <2> QED
    BY <1>1, <2>1, InputSame DEF Judged
<1>8. Delivered' /\ Early'
  BY <1>2, <1>3 DEF Delivered, Early
<1>9. Alone'
  <2>1. pipe # <<"openapi">>
    <3> SUFFICES ASSUME pipe = <<"openapi">> PROVE FALSE
      OBVIOUS
    <3>1. Len(pipe) = 1 /\ pipe[1] = "openapi"
      OBVIOUS
    <3>2. at = 1
      BY <1>3, <3>1
    <3> QED
      BY <3>1, <3>2
  <2> QED
    BY <1>1, <2>1 DEF Alone
<1> QED
  BY <1>4, <1>5, <1>6, <1>7, <1>8, <1>9 DEF RequestInv

\* The value on its way, for a plugin that passes it on.
LEMMA OnItsWay ==
    ASSUME RequestInv, pc = "process"
    PROVE  /\ IsValue(response)
           /\ ~refused /\ answered = {} =>
                 /\ Answerable(response)
                 /\ "user" \notin ToSet(pipe) => response.ctype \in {NoMedia} \cup Labels
BY DEF RequestInv, Control, Unanswered

LEMMA QueryProcessKeeps == ASSUME RequestInv, QueryProcess PROVE RequestInv'
<1>1. pc = "process" /\ at <= Len(pipe) /\ pipe[at] = "query"
  BY DEF QueryProcess, Turn
<1>2. UNCHANGED <<input, pc, refused, delivered, writes, made, answered, dispatched>> /\ at' = at + 1
      /\ judged' = judged
  BY DEF QueryProcess, Return, record
<1> PICK w : w = response'
  OBVIOUS
<1> DEFINE page == Body("page", Page(PluginBody(response).data, req.query, DefaultLimit, MaxLimit))
<1>3. w = response \/ w = ReplaceBody(response, page)
  BY DEF QueryProcess, Return
<1>4. page = Body("page", page.data) /\ page.kind = "page"
  BY BodiesAre
<1> HIDE DEF page
<1>5. CASE w = response
  BY <1>1, <1>2, <1>5, OnItsWay, PluginKeeps
<1>6. CASE w = ReplaceBody(response, page)
  <2>1. \/ w = Plain(page)
        \/ /\ IsStatusTuple(response) \/ IsStructured(response)
           /\ w = [response EXCEPT !.body = page]
    BY <1>6 DEF ReplaceBody
  <2>2. response = Value(response.shape, response.status, response.body, response.ctype,
                         response.headers)
        /\ response.shape \in {"plain", "tuple", "object"} /\ response.headers \in {"good", "bad"}
        /\ (response.ctype = NoMedia \/ (IsMediaType(response.ctype) /\ IsConcrete(response.ctype)))
    BY <1>1, OnItsWay DEF IsValue, IsLabel
  <2>3. CASE w = Plain(page)
    <3>1. w.body = page /\ w.ctype = NoMedia
      BY <2>3 DEF Plain, Value
    <3>2. IsValue(w)
      BY <2>3, <1>4 DEF IsValue, IsLabel, Plain, Value
    <3>3. Answerable(w)
      BY <1>4, <3>1, <3>2, OthersAnswerable
    <3> QED
      BY <1>1, <1>2, <3>1, <3>2, <3>3, PluginKeeps
  <2>4. CASE /\ IsStatusTuple(response) \/ IsStructured(response)
             /\ w = [response EXCEPT !.body = page]
    <3>1. response.shape # "plain"
      BY <2>4 DEF IsStatusTuple, IsStructured
    <3>2. w = Value(response.shape, response.status, page, response.ctype, response.headers)
      BY <2>2, <2>4 DEF Value
    <3>3. w.body = page /\ w.ctype = response.ctype /\ w.shape = response.shape
          /\ w.headers = response.headers /\ w.status = response.status
      BY <3>2 DEF Value
    <3>4. IsValue(w)
      BY <1>4, <2>2, <3>1, <3>2, <3>3 DEF IsValue, IsLabel
    <3>5. Answerable(w)
      BY <1>4, <3>3, <3>4, OthersAnswerable
    <3>6. ~refused /\ answered = {} => ("user" \notin ToSet(pipe) => w.ctype \in {NoMedia} \cup Labels)
      BY <1>1, <3>3, OnItsWay
    <3> QED
      BY <1>1, <1>2, <3>4, <3>5, <3>6, PluginKeeps
  <2> QED
    BY <2>1, <2>3, <2>4
<1> QED
  BY <1>3, <1>5, <1>6

LEMMA ValidationProcessKeeps == ASSUME RequestInv, ValidationProcess PROVE RequestInv'
<1>1. pc = "process" /\ at <= Len(pipe) /\ pipe[at] = "validation"
  BY DEF ValidationProcess, Turn
<1>2. UNCHANGED <<input, pc, refused, delivered, writes, made, answered, dispatched>> /\ at' = at + 1
  BY DEF ValidationProcess, Return
<1> PICK w : w = response'
  OBVIOUS
<1> DEFINE reading == [of |-> response, body |-> PluginBody(response),
                       status |-> 0, ctype |-> NoMedia, declared |-> NoMedia]
<1>3. judged' \subseteq judged \cup {reading}
  BY DEF ValidationProcess
<1>4. OfOneReading(reading)
  BY DEF OfOneReading
<1> HIDE DEF reading
<1>5. \A j \in judged' : j \in judged \/ OfOneReading(j)
  BY <1>3, <1>4
<1>6. w = response \/ w = Object(500, Error)
  BY DEF ValidationProcess, Return
<1>7. CASE w = response
  BY <1>1, <1>2, <1>5, <1>7, OnItsWay, PluginKeeps
<1>8. CASE w = Object(500, Error)
  <2>1. w.body = Error /\ w.ctype = NoMedia
    BY <1>8 DEF Object, Value
  <2>4. Error.kind = "error"
    BY BodiesAre
  <2>2. IsValue(w)
    BY <1>8 DEF IsValue, IsLabel, Object, Value, Error, Body
  <2>3. Answerable(w)
    BY <2>1, <2>2, <2>4, OthersAnswerable
  <2> QED
    BY <1>1, <1>2, <1>5, <2>1, <2>2, <2>3, PluginKeeps
<1> QED
  BY <1>6, <1>7, <1>8

LEMMA UserProcessKeeps == ASSUME RequestInv, UserProcess PROVE RequestInv'
<1>1. pc = "process" /\ at <= Len(pipe) /\ pipe[at] = "user"
  BY DEF UserProcess, Turn
<1>2. UNCHANGED <<input, pc, refused, delivered, writes, made, answered, dispatched>> /\ at' = at + 1
      /\ judged' = judged
  BY DEF UserProcess, Return, record
<1> PICK w : w = response'
  OBVIOUS
<1>3. "user" \in ToSet(pipe)
  <2>1. at \in DOMAIN pipe
    BY <1>1 DEF RequestInv, Control, InputOK
  <2> QED
    BY <1>1, <2>1 DEF ToSet
<1>4. w = response \/ (w \in UserValues)
  BY DEF UserProcess, Return
<1>5. CASE w = response
  BY <1>1, <1>2, <1>5, OnItsWay, PluginKeeps
<1>6. CASE w \in UserValues
  <2>1. IsValue(w) /\ Answerable(w)
    BY <1>6, UserValuesAssumption, OthersAnswerable
  <2> QED
    BY <1>1, <1>2, <1>3, <2>1, PluginKeeps
<1> QED
  BY <1>4, <1>5, <1>6

\* openapi passes a refusal on, for which nothing was staged.
LEMMA OpenApiPassesKeeps == ASSUME RequestInv, OpenApiPasses PROVE RequestInv'
<1>1. op' = op /\ req' = req /\ pipe' = pipe /\ refused /\ pc = "process"
      /\ at <= Len(pipe) /\ at' = at + 1 /\ response' = response
  BY DEF OpenApiPasses, Turn, Return, input
<1>2. answered = {} /\ ~wrote /\ staged = FALSE /\ delivered = {} /\ committed = FALSE
  BY <1>1 DEF RequestInv, Unanswered, Control
<1>3. /\ pc' = pc /\ refused' = refused /\ staged' = FALSE /\ wrote' = wrote
      /\ made' = made /\ answered' = answered /\ judged' = judged /\ dispatched' = dispatched
      /\ delivered' = delivered /\ rejection' = rejection
  BY DEF OpenApiPasses, Return, Settle, record
<1>4. committed' = FALSE
  BY <1>2 DEF OpenApiPasses, Settle
<1>5. at \in Nat /\ at # 0 /\ at' \in Nat /\ at' # 0 /\ at' # 1
  BY <1>1 DEF RequestInv, Control
<1>6. InputOK' /\ Control' /\ AtStart'
  BY <1>1, <1>2, <1>3, <1>4, <1>5, InputSame DEF RequestInv, Control, AtStart
<1>7. Unanswered'
  BY <1>1, <1>2, <1>3, <1>4 DEF RequestInv, Unanswered
<1>8. Answered' /\ Delivered' /\ Early'
  BY <1>2, <1>3, <1>5 DEF Answered, Delivered, Early
<1>9. Judged'
  BY <1>1, <1>3, InputSame DEF RequestInv, Judged
<1>10. Alone'
  BY <1>1, <1>2, <1>3 DEF Alone
<1> QED
  BY <1>6, <1>7, <1>8, <1>9, <1>10 DEF RequestInv

-----------------------------------------------------------------------------
(* The answer of openapi. *)

LEMMA AnswerKeeps ==
    ASSUME RequestInv, pc = "process", at <= Len(pipe), pipe[at] = "openapi", ~refused,
           UNCHANGED <<input, rejection>>, NEW v, IsValue(v),
           Settle(response, v), Return(v), answered' = {v},
           dispatched' \subseteq {CallbackBody(v)},
           \A media \in made' :
               Covers(media, Parse(v).ctype) /\ \A j \in Judgements(v) : j.declared = media,
           \A j \in judged' : j \in judged \/ (j \in Judgements(v) /\ j.of = v),
           Selective /\ v # Tuple(500, Error) => SuitsClient(v),
           pipe = <<"openapi">> /\ op.kind = "static" /\ Plainly => OfFixed(v)
    PROVE  RequestInv'
<1>1. op' = op /\ req' = req /\ pipe' = pipe
  BY DEF input
<1>2. /\ pc' = pc /\ refused' = refused /\ at' = at + 1 /\ delivered' = delivered
      /\ staged' = FALSE /\ wrote' = wrote
      /\ committed' = (committed \/ (staged /\ Parts(v).status < 400))
  BY DEF Settle, SettledOn, Return
<1>3. at \in Nat /\ at # 0 /\ at' \in Nat /\ at' # 0 /\ at' # 1 /\ delivered = {}
      /\ at \in DOMAIN pipe
  BY <1>2 DEF RequestInv, Control, InputOK
<1>4. answered = {} /\ staged = wrote /\ ~committed
  <2>1. answered = {}
    BY <1>3 DEF RequestInv, Answered
  <2> QED
    BY <2>1 DEF RequestInv, Unanswered, Control
<1>5. committed' <=> wrote' /\ Parts(v).status < 400
  BY <1>2, <1>4
<1>6. IsValue(response') /\ committed' \in BOOLEAN
  BY <1>2 DEF Return, RequestInv, Control
<1>7. InputOK' /\ Control' /\ AtStart'
  <2>1. IsValue(response)'
    BY <1>6 DEF IsValue
  <2>2. pc' = "process" /\ delivered' = {} /\ staged' \in BOOLEAN /\ wrote' \in BOOLEAN /\ refused' \in BOOLEAN
    BY <1>2, <1>3 DEF RequestInv, Control
  <2>3. Control'
    BY <1>3, <1>6, <2>1, <2>2 DEF Control
  <2> QED
    BY <1>1, <2>2, <2>3, InputSame DEF RequestInv, AtStart
<1>8. Unanswered'
  BY <1>2 DEF Unanswered
<1>9. AnswerFacts(v)'
  <2>1. Judgements(v)' = Judgements(v) /\ (SuitsClient(v)' <=> SuitsClient(v))
        /\ (Selective' <=> Selective)
    BY <1>1, InputSame
  <2> QED
    BY <1>5, <2>1 DEF AnswerFacts
<1>10. Answered'
  <2>1. \A i \in DOMAIN pipe : i >= at' => pipe[i] # "openapi"
    BY <1>2, <1>3 DEF RequestInv, InputOK
  <2>2. \A u \in answered' : u = v
    OBVIOUS
  <2>3. \A u \in answered' : AnswerFacts(u)'
    BY <1>9, <2>2
  <2> QED
    BY <1>1, <1>2, <2>1, <2>3 DEF Answered
<1>11. Judged'
  <2>1. \A j \in judged' : OfOneReading(j)
    BY DEF RequestInv, Judged, OfOneReading
  <2> QED
    BY <1>1, <2>1, InputSame DEF Judged
<1>12. Delivered' /\ Early'
  BY <1>2, <1>3 DEF Delivered, Early
<1>13. Alone'
  <2>1. \A u \in answered' : u = v
    OBVIOUS
  <2>2. pipe' = <<"openapi">> /\ op'.kind = "static" /\ Plainly' => OfFixed(v)'
    BY <1>1, InputSame
  <2>3. pipe' = <<"openapi">> /\ op'.kind = "static" /\ Plainly' => \A u \in answered' : OfFixed(u)'
    BY <2>1, <2>2
  <2> QED
    BY <1>2, <2>3 DEF Alone
<1> QED
  BY <1>7, <1>8, <1>10, <1>11, <1>12, <1>13 DEF RequestInv

\* What openapi answers: a 406, or a value that is no refusal.
LEMMA TypedAnswer ==
    ASSUME InputOK, NEW v, Answerable(v), NEW w, w = WithType(v).value
    PROVE  /\ IsValue(w)
           /\ ~WithType(v).refusal => ~IsRefusal(w)
<1> DEFINE parts == Parts(v)
           available == Available(parts, FindResponseEntry(op.responses, parts.status))
           offer == Negotiate(req.accept, available)
<1>1. /\ WithType(v).refusal => w = Tuple(406, NotAcceptable(available))
      /\ ~WithType(v).refusal => w = Typed(v, parts, available, offer)
  BY WithTypeIs
<1>2. IsMediaList(available) /\ IsAccept(req.accept) /\ IsValue(v)
  BY AvailableIs DEF InputOK, Answerable
<1>3. offer # NoOffer => IsMediaType(offer.media) /\ IsConcrete(offer.media)
  <2> HIDE DEF available
  <2> QED
    BY <1>2, NegotiateFacts, OfferFacts
<1>4. parts.body = v.body \/ parts.body = Body("whole", <<>>) \/ parts.body = Undefined
  BY DEF Parts, Whole, Value
<1>5. WithType(v).refusal => IsValue(w)
  <2>1. NotAcceptable(available) = Body(NotAcceptable(available).kind, NotAcceptable(available).data)
    BY DEF NotAcceptable, Body
  <2> QED
    BY <1>1, <2>1, TupleKeeps
<1> HIDE DEF available, offer
<1>6. ASSUME ~WithType(v).refusal PROVE IsValue(w) /\ ~IsRefusal(w)
  <2>1. w = v \/ (IsValue(w) /\ w.body = parts.body)
    BY <1>1, <1>2, <1>3, <1>6, TypedIs DEF parts
  <2>2. ~IsRefusal(v)
    BY DEF Answerable
  <2>3. Body("whole", <<>>).kind = "whole" /\ Undefined.kind = "undefined"
    BY BodiesAre
  <2>4. parts.body.kind # "not acceptable"
    BY <1>4, <2>2, <2>3 DEF IsRefusal
  <2> QED
    BY <1>2, <2>1, <2>2, <2>4 DEF IsRefusal
<1> QED
  BY <1>5, <1>6

LEMMA OpenApiProcessKeeps == ASSUME RequestInv, OpenApiProcess PROVE RequestInv'
<1>1. pc = "process" /\ at <= Len(pipe) /\ pipe[at] = "openapi" /\ ~refused
  BY DEF OpenApiProcess, Turn
<1>2. UNCHANGED <<input, rejection>>
  BY DEF OpenApiProcess, Return, OpenApiAnswers, OpenApiFails
<1> DEFINE p == Preferred(response)
           typed == WithType(p)
<1>3. \/ /\ typed.refusal
         /\ Settle(response, typed.value) /\ Return(typed.value) /\ answered' = {typed.value}
         /\ made' = made /\ judged' = judged /\ dispatched' = dispatched
      \/ OpenApiFails(response)
      \/ ~typed.refusal /\ OpenApiAnswers(response, typed.value, {})
      \/ ~typed.refusal /\ \E j \in Judgements(typed.value) :
             OpenApiAnswers(response, typed.value, {j})
  BY DEF OpenApiProcess
<1>4. InputOK /\ at \in DOMAIN pipe
  BY <1>1 DEF RequestInv, Control, InputOK
<1>5. answered = {} /\ made = {} /\ dispatched = {}
  <2>1. answered = {}
    BY <1>1, <1>4 DEF RequestInv, Answered, Control
  <2> QED
    BY <2>1 DEF RequestInv, Unanswered
<1>6. Answerable(response) /\ ("user" \notin ToSet(pipe) => response.ctype \in {NoMedia} \cup Labels)
  BY <1>1, <1>5, OnItsWay
<1>7. Answerable(p) /\ ("user" \notin ToSet(pipe) => p.ctype \in {NoMedia} \cup Fixed)
  <2>1. Answerable(p)
    BY <1>4, <1>6, PreferredKeeps
  <2>2. ASSUME "user" \notin ToSet(pipe), p.ctype # NoMedia PROVE p.ctype \in Fixed
    <3>1. \A u : Preferred(u) = u
      BY <1>4, <2>2, PreferredAlike
    <3>2. PICK g \in Generated : p.ctype = g.value.ctype
      BY <1>6, <2>2, <3>1 DEF Labels
    <3>3. Preferred(g.value).ctype = p.ctype
      BY <3>1, <3>2
    <3> QED
      BY <2>2, <3>3 DEF Fixed
  <2> QED
    BY <2>1, <2>2
<1>8. pipe = <<"openapi">> /\ op.kind = "static" /\ Plainly /\ typed.refusal => OfFixed(typed.value)
  <2> SUFFICES ASSUME pipe = <<"openapi">>, op.kind = "static", Plainly, typed.refusal
               PROVE  OfFixed(typed.value)
    OBVIOUS
  <2>1. PreflightRefused = {} /\ response = StaticValue
    BY <1>1, <1>5 DEF RequestInv, Alone
  <2>2. req.prefer.code = 0 /\ ~req.prefer.example
    BY DEF Plainly
  <2>3. WithType(Preferred(StaticValue)).value.body.data \in {<<media>> : media \in Fixed}
    BY <1>4, <2>1, <2>2, StaticRefused
  <2> QED
    BY <2>1, <2>3 DEF OfFixed
<1> HIDE DEF p
<1> PICK v : v = typed.value
  OBVIOUS
<1>9. IsValue(v) /\ (~typed.refusal => ~IsRefusal(v))
  BY <1>4, <1>7, TypedAnswer
<1>10. Selective => SuitsClient(v)
  BY <1>4, <1>7, SentAnswer DEF Answerable
<1>11. pipe = <<"openapi">> /\ op.kind = "static" /\ Plainly => OfFixed(v)
  BY <1>8, <1>9 DEF OfFixed
<1>12. ASSUME ~typed.refusal, Parts(v).body.kind = "made", NEW media, media = Parts(v).body.data[1]
       PROVE  Covers(media, Parse(v).ctype) /\ \A j \in Judgements(v) : j.declared = media
  BY <1>4, <1>7, <1>12, MadeAnswer DEF Answerable
<1>13. \A j \in Judgements(v) : j.of = v
  BY DEF Judgements
<1> HIDE DEF typed
<1>14. CASE /\ Settle(response, v) /\ Return(v) /\ answered' = {v}
            /\ made' = made /\ judged' = judged /\ dispatched' = dispatched
  BY <1>1, <1>2, <1>5, <1>9, <1>10, <1>11, <1>14, AnswerKeeps
<1>15. CASE OpenApiFails(response)
  <2> PICK f : f = Tuple(500, Error)
    OBVIOUS
  <2>1. /\ Settle(response, f) /\ Return(f) /\ answered' = {f}
        /\ made' = {} /\ judged' = judged /\ dispatched' = {}
    BY <1>5, <1>15 DEF OpenApiFails
  <2>2. f.body = Error
    BY DEF Tuple, Value
  <2>3. Error.kind = "error" /\ Error = Body("error", <<>>) /\ Error.data = <<>>
    BY BodiesAre
  <2>4. IsValue(f)
    BY <2>3, TupleKeeps
  <2>5. OfFixed(f)
    BY <2>2, <2>3 DEF OfFixed, IsRefusal
  <2> QED
    BY <1>1, <1>2, <2>1, <2>4, <2>5, AnswerKeeps
<1>16. ASSUME ~typed.refusal, NEW judgements, judgements \subseteq Judgements(v),
              OpenApiAnswers(response, v, judgements)
       PROVE  RequestInv'
  <2>1. /\ Settle(response, v) /\ Return(v) /\ answered' = {v} /\ judged' = judged \cup judgements
        /\ dispatched' \subseteq {CallbackBody(v)}
        /\ made' = IF Parts(v).body.kind = "made" THEN {Parts(v).body.data[1]} ELSE {}
    BY <1>5, <1>16 DEF OpenApiAnswers
  <2>2. \A media \in made' :
            Covers(media, Parse(v).ctype) /\ \A j \in Judgements(v) : j.declared = media
    <3> SUFFICES ASSUME NEW media \in made'
                 PROVE  Covers(media, Parse(v).ctype) /\ \A j \in Judgements(v) : j.declared = media
      OBVIOUS
    <3>1. Parts(v).body.kind = "made" /\ media = Parts(v).body.data[1]
      BY <2>1
    <3> QED
      BY <1>12, <1>16, <3>1
  <2>3. \A j \in judged' : j \in judged \/ (j \in Judgements(v) /\ j.of = v)
    BY <1>13, <1>16, <2>1
  <2> QED
    BY <1>1, <1>2, <1>9, <1>10, <1>11, <2>1, <2>2, <2>3, AnswerKeeps
<1> QED
  BY <1>3, <1>14, <1>15, <1>16

\* The end of a request.
LEMMA DoneKeeps ==
    ASSUME RequestInv, UNCHANGED <<op, req, pipe, at, response, refused, rejection, writes, record>>,
           pc' = "done",
           \A d \in delivered' :
               \/ d.exception \/ d = Normalized(Parse(response), req.head)
               \/ (answered = {} /\ judged = {})
    PROVE  RequestInv'
<1>1. op' = op /\ req' = req /\ pipe' = pipe
  OBVIOUS
<1>2. /\ at' = at /\ response' = response /\ refused' = refused /\ rejection' = rejection
      /\ staged' = staged /\ wrote' = wrote /\ committed' = committed
      /\ made' = made /\ answered' = answered /\ judged' = judged /\ dispatched' = dispatched
  BY DEF writes, record
<1>3. InputOK' /\ Control' /\ AtStart'
  BY <1>1, <1>2, InputSame DEF RequestInv, Control, AtStart
<1>4. Unanswered'
  BY <1>1, <1>2, InputSame DEF RequestInv, Unanswered
<1>5. Answered'
  <2>1. ASSUME NEW v PROVE AnswerFacts(v)' <=> AnswerFacts(v)
    <3>1. Judgements(v)' = Judgements(v) /\ (SuitsClient(v)' <=> SuitsClient(v))
          /\ (Selective' <=> Selective)
      BY <1>1, InputSame
    <3> QED
      BY <1>2, <3>1 DEF AnswerFacts
  <2>2. \A v \in answered' : AnswerFacts(v)'
    BY <1>2, <2>1 DEF RequestInv, Answered
  <2> QED
    BY <1>1, <1>2, <2>2 DEF RequestInv, Answered
<1>6. Judged'
  BY <1>1, <1>2, InputSame DEF RequestInv, Judged
<1>7. Delivered'
  BY <1>1, <1>2 DEF Delivered
<1>8. Early'
  <2>1. PreflightRefused' = {} <=> PreflightRefused = {}
    BY <1>1, InputSame
  <2>2. IsRefusal(response)' <=> IsRefusal(response)
    BY <1>2 DEF IsRefusal
  <2> QED
    BY <1>2, <2>1, <2>2 DEF RequestInv, Early
<1>9. Alone'
  <2>1. Plainly' <=> Plainly
    BY <1>1, InputSame
  <2>2. \A v : OfFixed(v)' <=> OfFixed(v)
    BY <1>1, InputSame
  <2> QED
    BY <1>1, <1>2, <2>1, <2>2 DEF RequestInv, Alone
<1> QED
  BY <1>3, <1>4, <1>5, <1>6, <1>7, <1>8, <1>9 DEF RequestInv

LEMMA ThrowsKeeps == ASSUME RequestInv, Throws PROVE RequestInv'
<1>1. \A head : Exception(head).exception
  BY DEF Exception, Normalized
<1>2. \A d \in delivered' : d.exception
  BY <1>1 DEF Throws
<1>3. UNCHANGED <<op, req, pipe, at, response, refused, rejection, writes, record>> /\ pc' = "done"
  BY DEF Throws, input
<1> QED
  BY <1>2, <1>3, DoneKeeps

LEMMA DeliverKeeps == ASSUME RequestInv, Deliver PROVE RequestInv'
<1>1. \A head : Exception(head).exception
  BY DEF Exception, Normalized
<1>2. \A d \in delivered' : d.exception \/ d = Normalized(Parse(response), req.head)
  BY <1>1 DEF Deliver
<1>3. UNCHANGED <<op, req, pipe, at, response, refused, rejection, writes, record>> /\ pc' = "done"
  BY DEF Deliver, input
<1> QED
  BY <1>2, <1>3, DoneKeeps

LEMMA RequestNextKeeps == ASSUME RequestInv, Next PROVE RequestInv'
BY OpenApiGuardKeeps, ValidationGuardKeeps, OtherGuardKeeps, GenerateKeeps, OpenApiProcessKeeps,
   OpenApiPassesKeeps, QueryProcessKeeps, ValidationProcessKeeps, UserProcessKeeps, ThrowsKeeps,
   DeliverKeeps DEF Next

LEMMA RequestInitially == ASSUME Init PROVE RequestInv
<1>1. PICK s \in Scenarios :
          /\ op \in s.ops /\ pipe \in s.pipes
          /\ req \in [accept : s.accepts, prefer : s.prefers, query : s.queries,
                      head : s.heads, credentials : s.credentials, body : s.bodies]
  BY DEF Init
<1>2. InputOK
  <2>1. IsAccept(req.accept)
    BY <1>1, ScenariosAssumption
  <2>2. {"kind", "responses"} \subseteq DOMAIN op /\ IsResponses(op.responses)
    BY <1>1, ScenariosAssumption
  <2>3. /\ pipe \in Seq({"openapi", "query", "validation", "user"})
        /\ \A i, j \in DOMAIN pipe : pipe[i] = "openapi" /\ pipe[j] = "openapi" => i = j
    BY <1>1, ScenariosAssumption
  <2> QED
    BY <2>1, <2>2, <2>3 DEF InputOK
<1>3. Untouched
  BY DEF Init
<1>4. IsValue(Plain(Undefined))
  BY UndefinedAnswerable
<1>5. Control /\ AtStart
  <2>1. /\ pc = "guard" /\ at = 1 /\ response = Plain(Undefined) /\ refused = FALSE /\ rejection = {}
        /\ staged = FALSE /\ wrote = FALSE /\ committed = FALSE
        /\ made = {} /\ answered = {} /\ judged = {} /\ dispatched = {} /\ delivered = {}
    BY <1>3 DEF Untouched
  <2>2. IsValue(response)
    BY <1>4, <2>1
  <2>3. AtStart
    BY <2>1 DEF AtStart
  <2>4. /\ pc \in {"guard", "process", "done"} /\ at \in Nat /\ at # 0
        /\ refused \in BOOLEAN /\ staged \in BOOLEAN /\ wrote \in BOOLEAN /\ committed \in BOOLEAN
        /\ (delivered # {} => pc = "done")
    <3>1. at \in Nat /\ at # 0
      BY <2>1
    <3>2. refused \in BOOLEAN /\ staged \in BOOLEAN /\ wrote \in BOOLEAN /\ committed \in BOOLEAN
      BY <2>1, Zenon
    <3> QED
      BY <2>1, <3>1, <3>2, Zenon
  <2>5. Control
    BY <2>2, <2>4 DEF Control
  <2> QED
    BY <2>3, <2>5
<1>6. Unanswered
  BY <1>3, UndefinedAnswerable DEF Untouched, Unanswered
<1>7. Answered /\ Judged /\ Delivered /\ Early /\ Alone
  BY <1>3 DEF Untouched, Answered, Judged, Delivered, Early, Alone
<1> QED
  BY <1>2, <1>5, <1>6, <1>7 DEF RequestInv

\* A request that is on its way has found its route.
PathInv == RequestInv /\ (stage # "found" => pc = "guard" /\ at = 1)

LEMMA PathInitially == ASSUME PathInit PROVE PathInv
<1>1. RequestInv
  BY RequestInitially DEF PathInit
<1>2. pc = "guard" /\ at = 1
  BY DEF PathInit, Init, Untouched
<1> QED
  BY <1>1, <1>2 DEF PathInv

LEMMA RouteKeeps == ASSUME PathInv, Route PROVE RequestInv'
<1>1. stage = "asked" /\ pc = "guard" /\ at = 1
  BY DEF PathInv, Route, Match
<1>2. UNCHANGED <<req, pipe, judges, at, response, refused, rejection, writes, record>>
  BY DEF Route
<1>3. /\ at' = 1 /\ response' = Plain(Undefined) /\ refused' = FALSE /\ rejection' = {}
      /\ staged' = FALSE /\ wrote' = FALSE /\ committed' = FALSE
      /\ made' = {} /\ answered' = {} /\ judged' = {} /\ dispatched' = {}
  BY <1>1, <1>2 DEF PathInv, RequestInv, AtStart, writes, record
<1>4. delivered = {} /\ answered = {} /\ judged = {}
  BY <1>1 DEF PathInv, RequestInv, AtStart
<1>5. CASE /\ op' = op /\ pc' = "done"
           /\ delivered' = {Normalized(Parse(Tuple(404, Error)), req.head)}
  BY <1>2, <1>4, <1>5, DoneKeeps DEF PathInv
<1>6. ASSUME NEW kind, op' = [op EXCEPT !.kind = kind], pc' = pc, delivered' = delivered
      PROVE  RequestInv'
  <2>1. /\ {"kind", "responses"} \subseteq DOMAIN op' /\ op'.responses = op.responses
    BY <1>6 DEF PathInv, RequestInv, InputOK
  <2>2. InputOK'
    BY <1>2, <2>1 DEF PathInv, RequestInv, InputOK
  <2>3. IsValue(response')
    BY <1>3, UndefinedAnswerable
  <2>4. Control' /\ AtStart'
    <3>1. pc' = "guard" /\ delivered' = {}
      BY <1>1, <1>4, <1>6
    <3>2. IsValue(response)'
      BY <2>3 DEF IsValue
    <3>3. AtStart'
      BY <1>3, <3>1 DEF AtStart
    <3>4. /\ pc' \in {"guard", "process", "done"} /\ at' \in Nat /\ at' # 0
          /\ refused' \in BOOLEAN /\ staged' \in BOOLEAN /\ wrote' \in BOOLEAN /\ committed' \in BOOLEAN
          /\ (delivered' # {} => pc' = "done")
      <4>1. at' \in Nat /\ at' # 0
        BY <1>3
      <4>2. refused' \in BOOLEAN /\ staged' \in BOOLEAN /\ wrote' \in BOOLEAN /\ committed' \in BOOLEAN
        BY <1>3, Zenon
      <4> QED
        BY <3>1, <4>1, <4>2, Zenon
    <3>5. Control'
      BY <3>2, <3>4 DEF Control
    <3> QED
      BY <3>3, <3>5
  <2>5. Unanswered'
    <3>1. response'.body.kind \notin {"made", "not acceptable"} /\ response'.ctype = NoMedia
      <4>1. response'.body = Undefined /\ response'.ctype = NoMedia
        BY <1>3 DEF Plain, Value
      <4> QED
        BY <4>1, BodiesAre
    <3>2. Parts(response').body.kind # "made"
      <4>1. Parts(response').body \in {response'.body, Body("whole", <<>>), Undefined}
        BY DEF Parts, Whole, Value
      <4>2. Body("whole", <<>>).kind = "whole" /\ Undefined.kind = "undefined"
        BY BodiesAre
      <4> QED
        BY <3>1, <4>1, <4>2
    <3>3. ForItsStatus(response)'
      BY <3>2 DEF ForItsStatus
    <3>4. IsValue(response)' /\ IsRefusal(response)' = FALSE
      BY <2>3, <3>1 DEF IsValue, IsRefusal
    <3> QED
      BY <1>3, <3>1, <3>3, <3>4 DEF Unanswered, Answerable
  <2>6. Answered' /\ Judged' /\ Delivered' /\ Early' /\ Alone'
    BY <1>1, <1>3, <1>4, <1>6 DEF Answered, Judged, Delivered, Early, Alone
  <2> QED
    BY <2>2, <2>4, <2>5, <2>6 DEF RequestInv
<1> QED
  BY <1>5, <1>6 DEF Route

LEMMA StepKeeps == ASSUME PathInv, [PathNext]_all PROVE PathInv'
<1>1. CASE UNCHANGED all
  <2>1. UNCHANGED vars /\ stage' = stage
    BY <1>1 DEF all, surface
  <2>2. pc' = pc /\ at' = at
    BY <2>1 DEF vars
  <2> QED
    BY <2>1, <2>2, RequestStutter DEF PathInv
<1>2. CASE (Install \/ Ask) /\ UNCHANGED <<vars, schemaVars>>
  <2>1. UNCHANGED vars /\ stage # "found"
    BY <1>2 DEF Install, Ask
  <2>2. pc' = pc /\ at' = at
    BY <2>1 DEF vars
  <2> QED
    BY <2>1, <2>2, RequestStutter DEF PathInv
<1>3. CASE Route
  <2>1. stage' = "found"
    BY <1>3 DEF Route, Match
  <2> QED
    BY <1>3, <2>1, RouteKeeps DEF PathInv
<1>4. CASE Validate /\ UNCHANGED <<vars, surface>>
  <2>1. UNCHANGED vars /\ stage' = stage
    BY <1>4 DEF surface
  <2>2. pc' = pc /\ at' = at
    BY <2>1 DEF vars
  <2> QED
    BY <2>1, <2>2, RequestStutter DEF PathInv
<1>5. CASE (Answer500 \/ Step) /\ UNCHANGED <<surface, schemaVars>>
  <2>1. stage = "found" /\ stage' = stage
    BY <1>5 DEF surface, Answer500, AtStaticGenerator, Step
  <2>2. RequestInv'
    BY <1>5, ThrowsKeeps, RequestNextKeeps DEF Answer500, Step, PathInv
  <2> QED
    BY <2>1, <2>2 DEF PathInv
<1> QED
  BY <1>1, <1>2, <1>3, <1>4, <1>5 DEF PathNext

-----------------------------------------------------------------------------
(* What follows for the response that is delivered. *)

LEMMA NormalizedIs ==
    ASSUME NEW v, NEW head, NEW d, d = Normalized(Parse(v), head)
    PROVE  /\ d.status = Parse(v).status /\ d.ctype = Parse(v).ctype
           /\ d.body = Parse(v).body \/ head \/ d.status \in BodyForbidden
<1> DEFINE r == Parse(v)
<1>1. r = [status |-> r.status, body |-> r.body, ctype |-> r.ctype, headers |-> r.headers,
           exception |-> r.exception]
  BY DEF Parse
<1> HIDE DEF r
<1>2. d = r \/ (head /\ d = [r EXCEPT !.body = Undefined])
            \/ (r.status \in BodyForbidden /\ d = [r EXCEPT !.body = Undefined])
  BY DEF Normalized, r
<1>3. LET e == [r EXCEPT !.body = Undefined] IN e.status = r.status /\ e.ctype = r.ctype
  BY <1>1
<1>4. d.status = r.status /\ d.ctype = r.ctype /\ ((d.body = r.body \/ head) \/ d.status \in BodyForbidden)
  BY <1>2, <1>3
<1> QED
  BY <1>4 DEF r

LEMMA RequestOne == ASSUME RequestInv PROVE OneResponse
<1>1. \A d \in delivered :
          ~d.exception /\ (answered # {} \/ judged # {}) => d = Normalized(Parse(response), req.head)
  BY DEF RequestInv, Delivered
<1>2. \A v \in answered : AnswerFacts(v)
  BY DEF RequestInv, Answered
<1>3. committed => wrote /\ answered # {}
  <2> SUFFICES ASSUME committed PROVE wrote /\ answered # {}
    OBVIOUS
  <2>1. answered # {}
    BY DEF RequestInv, Unanswered
  <2>2. PICK v \in answered : AnswerFacts(v)
    BY <1>2, <2>1
  <2> QED
    BY <2>1, <2>2 DEF AnswerFacts
<1>4. CommitIsDelivered
  <2> SUFFICES ASSUME NEW d \in delivered, answered = {response}, ~d.exception
               PROVE  committed <=> wrote /\ d.status < 400
    BY <1>3 DEF CommitIsDelivered
  <2>1. d.status = Parts(response).status
    <3>1. d = Normalized(Parse(response), req.head)
      BY <1>1
    <3>2. d.status = Parse(response).status
      BY <3>1, NormalizedIs
    <3> QED
      BY <3>2, PartsParse
  <2>2. AnswerFacts(response)
    BY <1>2
  <2> QED
    BY <2>1, <2>2 DEF AnswerFacts
<1>5. JudgedIsDelivered
  <2> SUFFICES ASSUME NEW d \in delivered, ~d.exception
               PROVE  LET Same(body) == \/ d.body = body
                                        \/ IsAbsent(body) /\ IsAbsent(d.body)
                                        \/ req.head \/ d.status \in BodyForbidden IN
                      /\ \A j \in judged : j.of = response =>
                            /\ Same(j.body)
                            /\ j.status \in {0, d.status}
                            /\ j.ctype \in {NoMedia, d.ctype}
                            /\ answered = {response} /\ j.status # 0 => made \subseteq {j.declared}
                      /\ answered = {response} =>
                            /\ response.headers = "good" => \A body \in dispatched : Same(body)
                            /\ \A media \in made : Covers(media, d.ctype)
    BY DEF JudgedIsDelivered
  <2> DEFINE Same(body) == \/ d.body = body
                           \/ IsAbsent(body) /\ IsAbsent(d.body)
                           \/ req.head \/ d.status \in BodyForbidden
             one == d = Normalized(Parse(response), req.head)
  <2>1. ASSUME one PROVE d.status = Parts(response).status /\ d.ctype = Parse(response).ctype
    <3>1. d.status = Parse(response).status /\ d.ctype = Parse(response).ctype
      BY <2>1, NormalizedIs
    <3> QED
      BY <3>1, PartsParse
  <2>2. ASSUME one, NEW body, SameBody(Parse(response).body, body) PROVE Same(body)
    <3>1. (d.body = Parse(response).body \/ req.head) \/ d.status \in BodyForbidden
      BY <2>2, NormalizedIs
    <3> QED
      BY <2>2, <3>1 DEF SameBody
  <2>3. answered # {} \/ judged # {} => one
    BY <1>1
  <2> HIDE DEF one, Same
  <2>4. ASSUME NEW j \in judged, j.of = response
        PROVE  /\ Same(j.body)
               /\ j.status \in {0, d.status}
               /\ j.ctype \in {NoMedia, d.ctype}
               /\ answered = {response} /\ j.status # 0 => made \subseteq {j.declared}
    <3>1. one
      BY <2>3, <2>4
    <3>2. \/ j \in Judgements(response)
          \/ j.status = 0 /\ j.ctype = NoMedia /\ j.body = PluginBody(response)
      BY <2>4 DEF RequestInv, Judged, OfOneReading
    <3>3. CASE j \in Judgements(response)
      <4>1. j.body = Parts(response).body /\ j.status = Parts(response).status
            /\ j.ctype = Parts(response).ctype
        BY <3>3 DEF Judgements
      <4>2. Same(j.body)
        BY <2>2, <3>1, <4>1, PartsParse
      <4>3. j.status = d.status /\ j.ctype \in {NoMedia, d.ctype}
        BY <2>1, <3>1, <4>1, PartsParse
      <4>4. answered = {response} => made \subseteq {j.declared}
        BY <1>2, <3>3 DEF AnswerFacts
      <4> QED
        BY <4>2, <4>3, <4>4
    <3>4. CASE j.status = 0 /\ j.ctype = NoMedia /\ j.body = PluginBody(response)
      <4>1. Same(j.body)
        BY <2>2, <3>1, <3>4, PartsParse
      <4> QED
        BY <3>4, <4>1
    <3> QED
      BY <3>2, <3>3, <3>4
  <2>5. ASSUME answered = {response}, response.headers = "good", NEW body \in dispatched PROVE Same(body)
    <3>1. one /\ body = CallbackBody(response)
      BY <1>2, <2>3, <2>5 DEF AnswerFacts
    <3> QED
      BY <2>2, <2>5, <3>1, PartsParse
  <2>6. ASSUME answered = {response}, NEW media \in made PROVE Covers(media, d.ctype)
    <3>1. one
      BY <2>3, <2>6
    <3>2. Covers(media, Parse(response).ctype)
      BY <1>2, <2>6 DEF AnswerFacts
    <3> QED
      BY <2>1, <3>1, <3>2
  <2> QED
    BY <2>4, <2>5, <2>6 DEF Same
<1> QED
  BY <1>4, <1>5 DEF OneResponse

LEMMA RequestAcceptable == ASSUME RequestInv PROVE AcceptableOrRefused
<1> DEFINE Suits(m) == Quality(m, req.accept)
           IsStatus(code) == code \in {0} \cup (100 .. 599)
           RefusedEarly ==
               at = 1 /\ refused /\ rejection = {} /\ response.body.kind = "not acceptable"
           Best(list) == Max({0} \cup {Suits(m) : m \in {n \in ToSet(list) : IsConcrete(n)}})
           Sent(d, v, declared) ==
               declared # <<>> =>
                   /\ Suits(d.ctype) > 0
                   /\ "user" \notin ToSet(pipe) =>
                         Best(declared) <= Suits(d.ctype) \/ d.ctype \in Fixed
<1>1. IsAccept(req.accept)
  BY DEF RequestInv, InputOK
<1>2. ASSUME IsStatus(req.prefer.code), RefusedEarly
      PROVE  \A g \in Generated :
                 Preferred(g.value).ctype \in Fixed \/ WithType(Preferred(g.value)).refusal
  <2>1. PreflightRefused # {}
    BY <1>2 DEF RequestInv, Early, IsRefusal
  <2> QED
    BY <1>2, <2>1, RefusedBefore DEF RequestInv
<1>3. ASSUME NEW v \in answered, ~refused, op.kind = "static", pipe = <<"openapi">>,
             req.prefer.code = 0, ~req.prefer.example, v.body.kind = "not acceptable"
      PROVE  v.body.data \in {<<media>> : media \in Fixed}
  BY <1>3 DEF RequestInv, Alone, Plainly, OfFixed, IsRefusal
<1>4. ASSUME NEW list, NEW q \in 0 .. 10,
             \A m \in ToSet(list) : IsConcrete(m) => Suits(m) <= q
      PROVE  Best(list) <= q
  <2> DEFINE qualities == {0} \cup {Suits(m) : m \in {n \in ToSet(list) : IsConcrete(n)}}
  <2>1. qualities \subseteq 0 .. 10 /\ qualities # {}
    BY <1>1, QualityType
  <2>2. \A x \in qualities : x <= q
    BY <1>4
  <2> HIDE DEF qualities
  <2>3. Max(qualities) \in qualities
    <3> DEFINE b == 10
    <3>1. b \in Nat /\ qualities \in SUBSET (0 .. b)
      BY <2>1
    <3> HIDE DEF b
    <3>2. PICK x \in qualities : \A y \in qualities : y <= x
      BY <2>1, <3>1, Greatest
    <3>3. \A y \in qualities : y <= x
      BY <3>2
    <3>4. qualities \in SUBSET Nat
      BY <2>1
    <3> QED
      BY <3>3, <3>4, MaxIs
  <2>4. Max(qualities) <= q
    BY <2>2, <2>3
  <2> QED
    BY <2>4 DEF qualities
<1>5. ASSUME NEW list, \A m \in ToSet(list) : IsConcrete(m) => Suits(m) = 0
      PROVE  Best(list) = 0
  <2>1. {0} \cup {Suits(m) : m \in {n \in ToSet(list) : IsConcrete(n)}} = {0}
    BY <1>5
  <2>2. Max({0}) \in {0}
    BY MaxIs
  <2> QED
    BY <2>1, <2>2
<1>6. ASSUME NEW d \in delivered, NEW v \in answered, ~d.exception, v = response,
             v # Tuple(500, Error), Selective
      PROVE  IF v.body.kind = "not acceptable" THEN Best(v.body.data) = 0
             ELSE Sent(d, v, ContentOf(FindResponseEntry(op.responses, d.status)))
  <2>1. SuitsClient(v)
    BY <1>6 DEF RequestInv, Answered, AnswerFacts
  <2>2. d = Normalized(Parse(v), req.head)
    BY <1>6 DEF RequestInv, Delivered
  <2>3. d.status = Parts(v).status /\ d.ctype = Parse(v).ctype
    <3>1. d.status = Parse(v).status /\ d.ctype = Parse(v).ctype
      BY <2>2, NormalizedIs
    <3> QED
      BY <3>1, PartsParse
  <2>4. CASE v.body.kind = "not acceptable"
    <3>1. \A m \in ToSet(v.body.data) : IsConcrete(m) => Suits(m) = 0
      BY <2>1, <2>4 DEF SuitsClient, IsRefusal
    <3>2. Best(v.body.data) = 0
      BY <1>5, <3>1
    <3> QED
      BY <2>4, <3>2
  <2>5. CASE v.body.kind # "not acceptable"
    <3> DEFINE declared == ContentOf(FindResponseEntry(op.responses, d.status))
    <3>1. declared # <<>> =>
              /\ Suits(d.ctype) > 0
              /\ "user" \notin ToSet(pipe) =>
                    \/ d.ctype \in Fixed
                    \/ \A m \in ToSet(declared) : IsConcrete(m) => Suits(m) <= Suits(d.ctype)
      BY <2>1, <2>3, <2>5 DEF SuitsClient, IsRefusal
    <3>2. Suits(d.ctype) \in 0 .. 10
      BY <1>1, QualityType
    <3> HIDE DEF declared
    <3>3. Sent(d, v, declared)
      BY <1>4, <3>1, <3>2
    <3> QED
      BY <2>5, <3>3 DEF declared
  <2> QED
    BY <2>4, <2>5
<1> QED
  BY <1>2, <1>3, <1>6 DEF AcceptableOrRefused

-----------------------------------------------------------------------------

\* What is committed, judged, announced and delivered is one response.
THEOREM PathDeliversOneResponse == PathSpec => []OneResponse
<1>1. PathInit => PathInv
  BY PathInitially
<1>2. PathInv /\ [PathNext]_all => PathInv'
  BY StepKeeps
<1>3. PathInv => OneResponse
  BY RequestOne DEF PathInv
<1> QED
  BY <1>1, <1>2, <1>3, PTL DEF PathSpec

\* The type that is sent is the one that suits the client best, or one that a
\* header of the document fixes and that suits it; 406 only when none does,
\* before the generator runs or after, and for a static route after only when
\* the type that is fixed does not suit.
THEOREM PathNegotiatesAcceptably == PathSpec => []AcceptableOrRefused
<1>1. PathInit => PathInv
  BY PathInitially
<1>2. PathInv /\ [PathNext]_all => PathInv'
  BY StepKeeps
<1>3. PathInv => AcceptableOrRefused
  BY RequestAcceptable DEF PathInv
<1> QED
  BY <1>1, <1>2, <1>3, PTL DEF PathSpec

-----------------------------------------------------------------------------
(* The pages of a list: how rows are ordered, cut into pages and put       *)
(* together again, and what body a list has on its way.                    *)

\* The comparison of rows is a strict weak order; what is not ordered comes last.
LEMMA BeforeIsOrder ==
    ASSUME NEW desc \in BOOLEAN,
           NEW a \in [rank : 0 .. 7, value : Int, passes : BOOLEAN],
           NEW b \in [rank : 0 .. 7, value : Int, passes : BOOLEAN],
           NEW c \in [rank : 0 .. 7, value : Int, passes : BOOLEAN]
    PROVE  /\ ~Before(a, a, desc)
           /\ Before(a, b, desc) => ~Before(b, a, desc)
           /\ ~Before(b, a, desc) /\ ~Before(c, b, desc) => ~Before(c, a, desc)
           /\ a.rank \in Ordered /\ b.rank \notin Ordered => Before(a, b, desc)
<1>1. /\ a.rank \in 0 .. 7 /\ b.rank \in 0 .. 7 /\ c.rank \in 0 .. 7
      /\ a.value \in Int /\ b.value \in Int /\ c.value \in Int
  OBVIOUS
<1> DEFINE T == [rank : 0 .. 7, value : Int, passes : BOOLEAN]
           Less(x, y) == x.rank < y.rank \/ (x.rank = y.rank /\ x.value < y.value)
<1>2. ASSUME NEW x \in T, NEW y \in T
      PROVE  Before(x, y, desc) <=>
                IF x.rank <= 5 /\ y.rank <= 5
                THEN IF desc THEN Less(y, x) ELSE Less(x, y)
                ELSE x.rank < y.rank
  <2>1. x.rank \in 0 .. 7 /\ y.rank \in 0 .. 7
    OBVIOUS
  <2>2. (x.rank <= 5 /\ y.rank <= 5) <=> {x.rank, y.rank} \subseteq Ordered
    BY <2>1 DEF Ordered
  <2>3. (x.rank <= 5 /\ y.rank <= 5) => {x.rank, y.rank} \cap {Unsupported, Missing} = {}
    <3> SUFFICES ASSUME x.rank <= 5, y.rank <= 5, NEW e \in {x.rank, y.rank} \cap {Unsupported, Missing}
                 PROVE  FALSE
      OBVIOUS
    <3>1. (e = x.rank \/ e = y.rank) /\ (e = 6 \/ e = 7)
      BY DEF Unsupported, Missing
    <3> QED
      BY <2>1, <3>1
  <2>4. ~(x.rank <= 5 /\ y.rank <= 5) => {x.rank, y.rank} \cap {Unsupported, Missing} # {}
    <3> SUFFICES ASSUME ~(x.rank <= 5 /\ y.rank <= 5)
                 PROVE  \E e : e \in {x.rank, y.rank} \cap {Unsupported, Missing}
      OBVIOUS
    <3>1. x.rank \in {6, 7} \/ y.rank \in {6, 7}
      BY <2>1
    <3>2. {6, 7} = {Unsupported, Missing}
      BY DEF Unsupported, Missing
    <3> QED
      BY <3>1, <3>2
  <2>5. CASE x.rank <= 5 /\ y.rank <= 5
    <3>1. {x.rank, y.rank} \cap {Unsupported, Missing} = {} /\ {x.rank, y.rank} \subseteq Ordered
      BY <2>2, <2>3, <2>5
    <3>2. Before(x, y, desc) <=> IF desc THEN Less(y, x) ELSE Less(x, y)
      BY <3>1 DEF Before
    <3> QED
      BY <2>5, <3>2
  <2>6. CASE ~(x.rank <= 5 /\ y.rank <= 5)
    <3>1. {x.rank, y.rank} \cap {Unsupported, Missing} # {} /\ ~({x.rank, y.rank} \subseteq Ordered)
      BY <2>2, <2>4, <2>6
    <3>2. Before(x, y, desc) <=> x.rank < y.rank
      BY <3>1 DEF Before
    <3> QED
      BY <2>6, <3>2
  <2> QED
    BY <2>5, <2>6
<1>3. (a.rank \in Ordered <=> a.rank <= 5) /\ (b.rank \in Ordered <=> b.rank <= 5)
  BY <1>1 DEF Ordered
<1> HIDE DEF T
<1>4. a \in T /\ b \in T /\ c \in T
  BY DEF T
<1> DEFINE Comes(x, y) == IF x.rank <= 5 /\ y.rank <= 5
                          THEN IF desc THEN Less(y, x) ELSE Less(x, y)
                          ELSE x.rank < y.rank
<1>5. /\ Before(a, a, desc) <=> Comes(a, a)
      /\ Before(a, b, desc) <=> Comes(a, b)
      /\ Before(b, a, desc) <=> Comes(b, a)
      /\ Before(c, b, desc) <=> Comes(c, b)
      /\ Before(c, a, desc) <=> Comes(c, a)
  <2> HIDE DEF Comes
  <2>1. ASSUME NEW x \in T, NEW y \in T
        PROVE  Before(x, y, desc) <=> Comes(x, y)
    BY <1>2 DEF Comes
  <2> QED
    BY <1>4, <2>1
<1>6. ~Comes(a, a)
  BY <1>1
<1>7. Comes(a, b) => ~Comes(b, a)
  BY <1>1
<1>8. ~Comes(b, a) /\ ~Comes(c, b) => ~Comes(c, a)
  BY <1>1
<1>9. a.rank \in Ordered /\ b.rank \notin Ordered => Comes(a, b)
  BY <1>1, <1>3
<1> HIDE DEF Comes
<1> QED
  BY <1>5, <1>6, <1>7, <1>8, <1>9

LEMMA RowsAre ==
    ASSUME NEW rows, IsRows(rows)
    PROVE  /\ Len(rows) \in Nat /\ DOMAIN rows = 1 .. Len(rows)
           /\ rows \in [1 .. Len(rows) -> ToSet(rows)]
           /\ \A i \in 1 .. Len(rows) :
                 rows[i] \in [rank : 0 .. 7, value : Int, passes : BOOLEAN]
<1>1. Len(rows) \in Nat /\ DOMAIN rows = 1 .. Len(rows)
      /\ rows \in [1 .. Len(rows) -> ToSet(rows)]
  BY DEF IsRows
<1> QED
  BY <1>1 DEF IsRows, Ordered, Unsupported, Missing

PlacesIn(n, R) == [i \in 1 .. n |-> Cardinality({j \in 1 .. n : <<j, i>> \in R})]

\* A relation that orders 1 .. n puts each number at a place of its own.
LEMMA PlacesAre ==
    ASSUME NEW n \in Nat, NEW R \in SUBSET ((1 .. n) \X (1 .. n)),
           \A i \in 1 .. n : <<i, i>> \in R,
           \A i, j \in 1 .. n : i # j => (<<i, j>> \in R <=> <<j, i>> \notin R),
           \A i, j, k \in 1 .. n : <<i, j>> \in R /\ <<j, k>> \in R => <<i, k>> \in R,
           NEW place, place = PlacesIn(n, R)
    PROVE  /\ \A k \in 1 .. n : \E i \in 1 .. n : place[i] = k
           /\ \A i, j \in 1 .. n : i # j /\ <<i, j>> \in R => place[i] < place[j]
           /\ place \in [1 .. n -> 1 .. n]
<1> USE DEF PlacesIn
<1> DEFINE Below(i) == {j \in 1 .. n : <<j, i>> \in R}
<1>1. IsFiniteSet(1 .. n) /\ Cardinality(1 .. n) = n
  BY FS_Interval
<1>2. ASSUME NEW i \in 1 .. n
      PROVE  /\ IsFiniteSet(Below(i)) /\ Cardinality(Below(i)) \in 1 .. n
             /\ place[i] = Cardinality(Below(i))
  <2>1. Below(i) \in SUBSET (1 .. n) /\ i \in Below(i)
    OBVIOUS
  <2>4. place[i] = Cardinality(Below(i))
    OBVIOUS
  <2> HIDE DEF Below
  <2>2. IsFiniteSet(Below(i)) /\ Cardinality(Below(i)) <= n
    BY <1>1, <2>1, FS_Subset
  <2>3. Cardinality(Below(i)) \in Nat /\ Cardinality(Below(i)) # 0
    BY <2>1, <2>2, FS_CardinalityType, FS_EmptySet
  <2> QED
    BY <2>2, <2>3, <2>4
<1>3. ASSUME NEW i \in 1 .. n, NEW j \in 1 .. n, i # j, <<i, j>> \in R
      PROVE  place[i] < place[j]
  <2>1. Below(i) \in SUBSET Below(j)
    BY <1>3
  <2>2. j \in Below(j) /\ j \notin Below(i)
    BY <1>3
  <2>3. Below(i) # Below(j)
    BY <2>2
  <2>4. Cardinality(Below(i)) <= Cardinality(Below(j)) /\ Cardinality(Below(i)) # Cardinality(Below(j))
    <3> HIDE DEF Below
    <3> QED
      BY <1>2, <2>1, <2>3, FS_Subset
  <2>5. /\ place[i] = Cardinality(Below(i)) /\ place[j] = Cardinality(Below(j))
        /\ Cardinality(Below(i)) \in 1 .. n /\ Cardinality(Below(j)) \in 1 .. n
    BY <1>2
  <2> HIDE DEF Below
  <2> QED
    BY <2>4, <2>5
<1>4. place \in [1 .. n -> 1 .. n]
  BY <1>2
<1>5. \A i, j \in 1 .. n : place[i] = place[j] => i = j
  <2> SUFFICES ASSUME NEW i \in 1 .. n, NEW j \in 1 .. n, i # j PROVE place[i] # place[j]
    OBVIOUS
  <2>1. <<i, j>> \in R \/ <<j, i>> \in R
    OBVIOUS
  <2>2. place[i] \in 1 .. n /\ place[j] \in 1 .. n
    BY <1>4
  <2>3. place[i] < place[j] \/ place[j] < place[i]
    BY <1>3, <2>1
  <2> QED
    BY <2>2, <2>3
<1>6. place \in Injection(1 .. n, 1 .. n)
  BY <1>4, <1>5 DEF Injection, IsInjective
<1>7. place \in Surjection(1 .. n, 1 .. n)
  BY <1>1, <1>6, FS_Injection
<1>8. \A k \in 1 .. n : \E i \in 1 .. n : place[i] = k
  BY <1>7 DEF Surjection
<1> QED
  BY <1>3, <1>4, <1>8

\* The rows sorted are the rows, in an order.
LEMMA SortIs ==
    ASSUME NEW rows, IsRows(rows), NEW desc \in BOOLEAN
    PROVE  /\ Sort(rows, desc) \in Seq(ToSet(rows))
           /\ Len(Sort(rows, desc)) = Len(rows) /\ ToSet(Sort(rows, desc)) = ToSet(rows)
           /\ \A i, j \in 1 .. Len(rows) : i < j =>
                 /\ ~Before(Sort(rows, desc)[j], Sort(rows, desc)[i], desc)
                 /\ Sort(rows, desc)[j].rank \in Ordered => Sort(rows, desc)[i].rank \in Ordered
<1> DEFINE n == Len(rows)
           listed == Sort(rows, desc)
           After(j, i) == \/ Before(rows[j], rows[i], desc)
                          \/ j <= i /\ ~Before(rows[i], rows[j], desc)
           R == {p \in (1 .. n) \X (1 .. n) : After(p[1], p[2])}
           place == PlacesIn(n, R)
           Held(k) == CHOOSE i \in DOMAIN rows :
                         Cardinality({j \in DOMAIN rows : After(j, i)}) = k
           at0 == [k \in DOMAIN rows |-> Held(k)]
<1>1. /\ n \in Nat /\ DOMAIN rows = 1 .. n /\ rows \in [1 .. n -> ToSet(rows)]
      /\ \A i \in 1 .. n : rows[i] \in [rank : 0 .. 7, value : Int, passes : BOOLEAN]
  BY RowsAre
<1>2. R \in SUBSET ((1 .. n) \X (1 .. n))
      /\ \A i, j \in 1 .. n : <<i, j>> \in R <=> After(i, j)
  OBVIOUS
<1>3. \A i, j, k \in 1 .. n :
          /\ ~Before(rows[i], rows[i], desc)
          /\ Before(rows[i], rows[j], desc) => ~Before(rows[j], rows[i], desc)
          /\ ~Before(rows[j], rows[i], desc) /\ ~Before(rows[k], rows[j], desc)
                => ~Before(rows[k], rows[i], desc)
          /\ rows[i].rank \in Ordered /\ rows[j].rank \notin Ordered
                => Before(rows[i], rows[j], desc)
  <2> TAKE i, j, k \in 1 .. n
  <2> QED
    BY <1>1, BeforeIsOrder
<1>4. /\ \A i \in 1 .. n : <<i, i>> \in R
      /\ \A i, j \in 1 .. n : i # j => (<<i, j>> \in R <=> <<j, i>> \notin R)
      /\ \A i, j, k \in 1 .. n : <<i, j>> \in R /\ <<j, k>> \in R => <<i, k>> \in R
  <2> HIDE DEF R
  <2>1. \A i \in 1 .. n : <<i, i>> \in R
    BY <1>1, <1>2, <1>3
  <2>2. \A i, j \in 1 .. n : i # j => (<<i, j>> \in R <=> <<j, i>> \notin R)
    BY <1>1, <1>2, <1>3
  <2>3. ASSUME NEW i \in 1 .. n, NEW j \in 1 .. n, NEW k \in 1 .. n, After(i, j), After(j, k)
        PROVE  After(i, k)
    <3>1. /\ ~Before(rows[j], rows[i], desc) /\ ~Before(rows[k], rows[j], desc)
          /\ ~Before(rows[k], rows[i], desc)
      BY <1>3, <2>3
    <3>2. CASE i <= k
      BY <3>1, <3>2
    <3>3. CASE ~(i <= k)
      <4>1. ~(i <= j) \/ ~(j <= k)
        BY <1>1, <3>3
      <4>2. Before(rows[i], rows[j], desc) \/ Before(rows[j], rows[k], desc)
        BY <2>3, <4>1
      <4>3. ~(~Before(rows[i], rows[k], desc))
        BY <1>3, <3>1, <4>2
      <4> QED
        BY <4>3
    <3> QED
      BY <3>2, <3>3
  <2> QED
    BY <1>2, <2>1, <2>2, <2>3
<1> HIDE DEF R
<1>5. /\ \A k \in 1 .. n : \E i \in 1 .. n : place[i] = k
      /\ \A i, j \in 1 .. n : i # j /\ <<i, j>> \in R => place[i] < place[j]
      /\ place \in [1 .. n -> 1 .. n]
  <2>1. place = PlacesIn(n, R)
    OBVIOUS
  <2> HIDE DEF place, n
  <2>2. n \in Nat /\ R \in SUBSET ((1 .. n) \X (1 .. n))
    BY <1>1, <1>2
  <2>3. /\ \A k \in 1 .. n : \E i \in 1 .. n : PlacesIn(n, R)[i] = k
        /\ \A i, j \in 1 .. n : i # j /\ <<i, j>> \in R => PlacesIn(n, R)[i] < PlacesIn(n, R)[j]
        /\ PlacesIn(n, R) \in [1 .. n -> 1 .. n]
    BY <1>4, <2>2, PlacesAre, Zenon
  <2> QED
    BY <2>1, <2>3
<1>6. listed = [k \in DOMAIN rows |-> rows[at0[k]]]
  <2>1. listed = [k \in DOMAIN rows |-> rows[Held(k)]]
    BY DEF Sort
  <2> HIDE DEF Held, listed
  <2> QED
    BY <2>1
<1>7. \A k \in 1 .. n : at0[k] \in 1 .. n /\ place[at0[k]] = k
  <2>1. \A i \in 1 .. n : {j \in 1 .. n : <<j, i>> \in R} = {j \in DOMAIN rows : After(j, i)}
    BY <1>1, <1>2
  <2>2. \A i \in 1 .. n : place[i] = Cardinality({j \in DOMAIN rows : After(j, i)})
    BY <2>1 DEF PlacesIn
  <2> HIDE DEF place, After
  <2> SUFFICES ASSUME NEW k \in 1 .. n PROVE at0[k] \in 1 .. n /\ place[at0[k]] = k
    OBVIOUS
  <2>3. PICK i \in 1 .. n : Cardinality({j \in DOMAIN rows : After(j, i)}) = k
    BY <1>5, <2>2
  <2>4. at0[k] = CHOOSE m \in DOMAIN rows : Cardinality({j \in DOMAIN rows : After(j, m)}) = k
    BY <1>1
  <2>5. at0[k] \in DOMAIN rows /\ Cardinality({j \in DOMAIN rows : After(j, at0[k])}) = k
    BY <1>1, <2>3, <2>4, Zenon
  <2> QED
    BY <1>1, <2>2, <2>5
<1>8. \A i \in 1 .. n : at0[place[i]] = i
  <2> SUFFICES ASSUME NEW i \in 1 .. n PROVE at0[place[i]] = i
    OBVIOUS
  <2> HIDE DEF place, at0
  <2>1. place[i] \in 1 .. n
    BY <1>5
  <2>2. at0[place[i]] \in 1 .. n /\ place[at0[place[i]]] = place[i]
    BY <1>7, <2>1
  <2>3. \A j \in 1 .. n : i # j => place[i] # place[j]
    <3> SUFFICES ASSUME NEW j \in 1 .. n, i # j PROVE place[i] # place[j]
      OBVIOUS
    <3>1. place[j] \in 1 .. n /\ (<<i, j>> \in R \/ <<j, i>> \in R)
      BY <1>4, <1>5
    <3>2. place[i] < place[j] \/ place[j] < place[i]
      BY <1>5, <3>1
    <3> QED
      BY <2>1, <3>1, <3>2
  <2> QED
    BY <2>2, <2>3
<1> HIDE DEF place, at0, listed, n
<1>9. listed \in Seq(ToSet(rows)) /\ Len(listed) = n
      /\ \A k \in 1 .. n : listed[k] = rows[at0[k]]
  BY <1>1, <1>6, <1>7
<1>10. ToSet(listed) = ToSet(rows)
  <2>1. \A k \in 1 .. n : listed[k] \in ToSet(rows)
    BY <1>1, <1>7, <1>9
  <2>2. \A i \in 1 .. n : \E k \in 1 .. n : listed[k] = rows[i]
    <3> SUFFICES ASSUME NEW i \in 1 .. n PROVE \E k \in 1 .. n : listed[k] = rows[i]
      OBVIOUS
    <3>1. place[i] \in 1 .. n
      BY <1>5
    <3>2. listed[place[i]] = rows[i]
      BY <1>8, <1>9, <3>1
    <3> QED
      BY <3>1, <3>2
  <2>3. DOMAIN listed = 1 .. n
    BY <1>1, <1>6
  <2> QED
    BY <1>1, <2>1, <2>2, <2>3 DEF ToSet
<1>11. ASSUME NEW i \in 1 .. n, NEW j \in 1 .. n, i < j
       PROVE  /\ ~Before(listed[j], listed[i], desc)
              /\ listed[j].rank \in Ordered => listed[i].rank \in Ordered
  <2>1. at0[i] \in 1 .. n /\ at0[j] \in 1 .. n /\ at0[i] # at0[j]
        /\ place[at0[i]] = i /\ place[at0[j]] = j
    BY <1>1, <1>7, <1>11
  <2>2. <<at0[i], at0[j]>> \in R
    <3>1. <<at0[j], at0[i]>> \in R => place[at0[j]] < place[at0[i]]
      BY <1>5, <2>1
    <3>2. <<at0[j], at0[i]>> \notin R
      BY <1>1, <1>11, <2>1, <3>1
    <3> QED
      BY <1>4, <2>1, <3>2
  <2>3. ~Before(rows[at0[j]], rows[at0[i]], desc)
    BY <1>2, <1>3, <2>1, <2>2
  <2> QED
    BY <1>3, <1>9, <2>1, <2>3
<1> QED
  BY <1>9, <1>10, <1>11 DEF listed, n

GrowsBy(g, parts, n) ==
    \A i \in 1 .. n : g[i] = IF i = 1 THEN parts[i] ELSE g[i - 1] \o parts[i]

\* Flattening is the last of the sequences that grow part by part.
LEMMA FlattenIs ==
    ASSUME NEW n \in Nat, n # 0, NEW parts, Len(parts) = n,
           NEW g, GrowsBy(g, parts, n)
    PROVE  FlattenSeq(parts) = g[n]
<1> USE DEF GrowsBy
<1> DEFINE Grows(f) == f = [i \in 1 .. n |-> IF i = 1 THEN parts[i] ELSE f[i - 1] \o parts[i]]
           flatten == CHOOSE f : Grows(f)
           Bad == {k \in 1 .. n : flatten[k] # g[k]}
<1>1. FlattenSeq(parts) = flatten[n]
  <2>1. FlattenSeq(parts) =
           (CHOOSE f : f = [i \in 1 .. Len(parts) |->
                               IF i = 1 THEN parts[i] ELSE f[i - 1] \o parts[i]])[Len(parts)]
    BY Zenon DEF FlattenSeq
  <2> QED
    BY <2>1, Zenon
<1>2. Grows(flatten)
  <2> DEFINE grown == [i \in 1 .. n |-> g[i]]
  <2>1. Grows(grown)
    <3> SUFFICES ASSUME NEW i \in 1 .. n
                 PROVE  g[i] = IF i = 1 THEN parts[i] ELSE grown[i - 1] \o parts[i]
      OBVIOUS
    <3>1. i # 1 => grown[i - 1] = g[i - 1]
      OBVIOUS
    <3> QED
      BY <3>1
  <2> HIDE DEF Grows, grown
  <2> QED
    BY <2>1, Zenon
<1>3. /\ flatten[1] = parts[1] /\ g[1] = parts[1]
      /\ \A i \in 1 .. n : i # 1 => flatten[i] = flatten[i - 1] \o parts[i]
                                   /\ g[i] = g[i - 1] \o parts[i]
  <2> HIDE DEF flatten
  <2>1. 1 \in 1 .. n
    OBVIOUS
  <2>2. flatten[1] = parts[1] /\ \A i \in 1 .. n : i # 1 => flatten[i] = flatten[i - 1] \o parts[i]
    BY <1>2, <2>1
  <2>3. g[1] = parts[1] /\ \A i \in 1 .. n : i # 1 => g[i] = g[i - 1] \o parts[i]
    BY <2>1
  <2> QED
    BY <2>2, <2>3
<1> HIDE DEF flatten, Grows
<1>4. Bad = {}
  <2> SUFFICES ASSUME Bad # {} PROVE FALSE
    OBVIOUS
  <2>1. PICK k \in Bad : \A j \in Bad : k <= j
    <3>1. Bad \in SUBSET Nat
      OBVIOUS
    <3> HIDE DEF Bad
    <3> QED
      BY <3>1, LeastNat
  <2>2. k \in 1 .. n /\ k # 1
    BY <1>3, <2>1
  <2>3. k - 1 \in 1 .. n /\ k - 1 \notin Bad
    <3>1. k - 1 \in 1 .. n /\ k \in Int /\ ~(k <= k - 1)
      BY <2>2
    <3> HIDE DEF Bad
    <3> QED
      BY <2>1, <3>1
  <2>4. flatten[k - 1] = g[k - 1]
    BY <2>3
  <2>5. flatten[k] = flatten[k - 1] \o parts[k] /\ g[k] = g[k - 1] \o parts[k]
    <3> HIDE DEF Bad
    <3> QED
      BY <1>3, <2>2
  <2>6. flatten[k] # g[k]
    BY <2>1
  <2> QED
    BY <2>4, <2>5, <2>6, Zenon
<1>5. n \in 1 .. n
  OBVIOUS
<1>6. flatten[n] = g[n]
  BY <1>4, <1>5
<1> QED
  BY <1>1, <1>6, Zenon

\* Sequences can be made to grow part by part.
LEMMA GrowthExists ==
    ASSUME NEW S, NEW n \in Nat, NEW parts \in [1 .. n -> Seq(S)]
    PROVE  \E g \in [1 .. n -> Seq(S)] : GrowsBy(g, parts, n)
<1> DEFINE Grows(g, k) ==
               \A i \in 1 .. k : g[i] = IF i = 1 THEN parts[i] ELSE g[i - 1] \o parts[i]
           Bad == {k \in 1 .. n : ~ \E g \in [1 .. k -> Seq(S)] : Grows(g, k)}
<1>1. CASE n = 0
  <2>1. parts \in [1 .. n -> Seq(S)] /\ GrowsBy(parts, parts, n)
    BY <1>1 DEF GrowsBy
  <2> QED
    BY <2>1
<1>2. CASE n # 0
  <2>1. Bad = {}
    <3> SUFFICES ASSUME Bad # {} PROVE FALSE
      OBVIOUS
    <3>1. PICK k \in Bad : \A j \in Bad : k <= j
      <4>1. Bad \in SUBSET Nat
        OBVIOUS
      <4> HIDE DEF Bad
      <4> QED
        BY <4>1, LeastNat
    <3>2. k \in 1 .. n /\ ~ \E g \in [1 .. k -> Seq(S)] : Grows(g, k)
      BY <3>1
    <3>3. CASE k = 1
      <4> DEFINE g == [i \in 1 .. k |-> parts[1]]
      <4>1. g \in [1 .. k -> Seq(S)] /\ Grows(g, k)
        BY <3>2, <3>3
      <4> QED
        BY <3>2, <4>1
    <3>4. CASE k # 1
      <4>1. k - 1 \in 1 .. n /\ k - 1 \notin Bad
        <5>1. k - 1 \in 1 .. n /\ k \in Int /\ ~(k <= k - 1)
          BY <3>2, <3>4
        <5> HIDE DEF Bad
        <5> QED
          BY <3>1, <5>1
      <4>2. PICK h \in [1 .. k - 1 -> Seq(S)] : Grows(h, k - 1)
        BY <4>1
      <4> DEFINE g == [i \in 1 .. k |-> IF i = k THEN h[k - 1] \o parts[k] ELSE h[i]]
      <4>3. h[k - 1] \in Seq(S) /\ parts[k] \in Seq(S)
        BY <3>2, <4>1
      <4>4. h[k - 1] \o parts[k] \in Seq(S)
        BY <4>3
      <4>5. g \in [1 .. k -> Seq(S)]
        BY <3>2, <4>4
      <4>6. ASSUME NEW i \in 1 .. k
            PROVE  g[i] = IF i = 1 THEN parts[i] ELSE g[i - 1] \o parts[i]
        <5>1. CASE i = k
          <6>1. g[k] = h[k - 1] \o parts[k] /\ g[k - 1] = h[k - 1] /\ k # 1
            <7>1. k \in 1 .. k /\ k - 1 \in 1 .. k /\ k - 1 # k
              BY <3>2, <3>4
            <7> QED
              BY <3>4, <7>1
          <6> HIDE DEF g
          <6> QED
            BY <5>1, <6>1
        <5>2. CASE i # k
          <6>1. i \in 1 .. k - 1 /\ g[i] = h[i] /\ (i # 1 => g[i - 1] = h[i - 1])
            BY <3>2, <5>2
          <6> QED
            BY <4>2, <6>1
        <5> QED
          BY <5>1, <5>2
      <4> QED
        BY <3>2, <4>5, <4>6
    <3> QED
      BY <3>3, <3>4
  <2>2. PICK g \in [1 .. n -> Seq(S)] : Grows(g, n)
    <3>1. n \in 1 .. n
      BY <1>2
    <3>2. n \notin Bad
      BY <2>1, Zenon
    <3> QED
      BY <3>1, <3>2
  <2> QED
    BY <2>2 DEF GrowsBy
<1> QED
  BY <1>1, <1>2

\* What is flattened are sequences of S, and so is the whole.
LEMMA FlattenType ==
    ASSUME NEW S, NEW n \in Nat, NEW parts \in [1 .. n -> Seq(S)]
    PROVE  FlattenSeq(parts) \in Seq(S)
<1>1. Len(parts) = n
  OBVIOUS
<1>2. CASE n = 0
  <2>1. FlattenSeq(parts) = parts /\ parts = <<>>
    BY <1>1, <1>2 DEF FlattenSeq
  <2> QED
    BY <2>1
<1>3. CASE n # 0
  <2>1. PICK g \in [1 .. n -> Seq(S)] : GrowsBy(g, parts, n)
    BY GrowthExists
  <2>2. FlattenSeq(parts) = g[n]
    BY <1>1, <1>3, <2>1, FlattenIs
  <2> QED
    BY <1>3, <2>2
<1> QED
  BY <1>2, <1>3

\* The rows that pass are rows.
LEMMA FilterIs ==
    ASSUME NEW rows, IsRows(rows)
    PROVE  IsRows(Filter(rows))
<1> DEFINE T == [rank : Ordered \cup {Unsupported, Missing}, value : Int, passes : BOOLEAN]
           parts == [i \in DOMAIN rows |-> IF rows[i].passes THEN <<rows[i]>> ELSE <<>>]
<1>1. Len(rows) \in Nat /\ DOMAIN rows = 1 .. Len(rows) /\ \A i \in 1 .. Len(rows) : rows[i] \in T
  BY RowsAre DEF IsRows
<1>2. parts \in [1 .. Len(rows) -> Seq(T)]
  <2> HIDE DEF T
  <2> QED
    BY <1>1
<1>3. Filter(rows) \in Seq(T)
  <2>1. Filter(rows) = FlattenSeq(parts)
    BY DEF Filter
  <2> HIDE DEF T, parts
  <2> QED
    BY <1>1, <1>2, <2>1, FlattenType
<1> HIDE DEF T
<1>4. \A i \in DOMAIN Filter(rows) : Filter(rows)[i] \in T
  BY <1>3
<1>5. Filter(rows) \in Seq(ToSet(Filter(rows)))
  BY <1>3 DEF ToSet
<1> QED
  BY <1>4, <1>5 DEF IsRows, T

\* How many pages of limit rows hold len rows.
LEMMA PagesHold ==
    ASSUME NEW len \in Nat, NEW limit \in Nat, limit # 0,
           NEW total, total = (len + limit - 1) \div limit
    PROVE  /\ total \in Nat /\ total * limit \in Nat
           /\ len <= total * limit
           /\ total # 0 => (total - 1) * limit < len
           /\ total = 0 => len = 0
<1> DEFINE a == len + limit - 1
<1>1. a \in Nat
  OBVIOUS
<1>2. total \in Nat /\ total * limit <= a /\ a < (total + 1) * limit
  <2> HIDE DEF a
  <2>1. total = a \div limit
    BY DEF a
  <2> QED
    BY <1>1, <2>1
<1>3. total * limit \in Nat /\ (total + 1) * limit = total * limit + limit
      /\ (total - 1) * limit = total * limit - limit
  BY <1>2
<1>4. total = 0 => total * limit = 0
  BY <1>2
<1> QED
  BY <1>2, <1>3, <1>4

LEMMA PlacesGrow ==
    ASSUME NEW i \in Nat, NEW j \in Nat, NEW limit \in Nat, i <= j
    PROVE  i * limit \in Nat /\ j * limit \in Nat /\ i * limit <= j * limit
<1>1. PICK k \in Nat : j = i + k
  <2>1. j - i \in Nat /\ j = i + (j - i)
    OBVIOUS
  <2> QED
    BY <2>1
<1>2. j * limit = i * limit + k * limit /\ i * limit \in Nat /\ k * limit \in Nat
  BY <1>1
<1> QED
  BY <1>2

LEMMA LessOf ==
    ASSUME NEW a \in Nat, NEW b \in Nat
    PROVE  Min({a, b}) = IF a <= b THEN a ELSE b
<1>1. Min({a, b}) \in {a, b} /\ Min({a, b}) <= a /\ Min({a, b}) <= b
  <2>1. {a, b} \in SUBSET Nat /\ {a, b} # {}
    OBVIOUS
  <2> QED
    BY <2>1, MinIs
<1> QED
  BY <1>1

PagesOf(s, limit) == [n \in 1 .. TotalPages(s, limit) + 1 |-> Slice(s, n, limit)]

\* The pages of a sequence, put together, are the sequence.
LEMMA PagesFlatten ==
    ASSUME NEW S, NEW s \in Seq(S), NEW limit \in Nat, limit # 0,
           NEW total, total = TotalPages(s, limit),
           NEW pages, pages = PagesOf(s, limit)
    PROVE  /\ total \in Nat /\ Len(pages) = total + 1
           /\ pages[total + 1] = <<>>
           /\ \A n \in 1 .. total : Len(pages[n]) \in 1 .. limit
           /\ FlattenSeq(pages) = s
<1> USE DEF PagesOf
<1> DEFINE len == Len(s)
           Start(n) == (n - 1) * limit
           End(n) == IF Start(n) + limit <= len THEN Start(n) + limit ELSE len
           grown == [n \in 1 .. total + 1 |-> SubSeq(s, 1, End(n))]
<1>1. /\ len \in Nat /\ total \in Nat /\ total * limit \in Nat
      /\ len <= total * limit
      /\ total # 0 => (total - 1) * limit < len
      /\ total = 0 => len = 0
  <2>1. len \in Nat /\ total = (len + limit - 1) \div limit
    BY DEF TotalPages
  <2> HIDE DEF len
  <2> QED
    BY <2>1, PagesHold
<1>2. ASSUME NEW n \in 1 .. total + 1
      PROVE  /\ Start(n) \in Nat /\ (n = 1 => Start(n) = 0)
             /\ pages[n] = SubSeq(s, Start(n) + 1, End(n))
             /\ n # 1 => Start(n) = Start(n - 1) + limit
             /\ n <= total => Start(n) < len
             /\ n = total + 1 => len <= Start(n)
  <2>1. Start(n) \in Nat /\ n * limit = Start(n) + limit /\ n * limit \in Nat
        /\ (n = 1 => Start(n) = 0)
    BY <1>1
  <2>2. pages[n] = SubSeq(s, Start(n) + 1, End(n))
    <3>1. Min({n * limit, len}) = End(n)
      <4> HIDE DEF Start
      <4> QED
        BY <1>1, <2>1, LessOf
    <3>2. pages[n] = SubSeq(s, Start(n) + 1, Min({n * limit, len}))
      BY DEF Slice
    <3> QED
      BY <3>1, <3>2
  <2>3. n # 1 => Start(n) = Start(n - 1) + limit
    BY <1>1
  <2>4. n <= total => Start(n) < len
    <3> SUFFICES ASSUME n <= total PROVE Start(n) < len
      OBVIOUS
    <3>1. n - 1 \in Nat /\ total - 1 \in Nat /\ n - 1 <= total - 1 /\ total # 0
      BY <1>1
    <3>2. (n - 1) * limit <= (total - 1) * limit /\ (total - 1) * limit \in Nat
      BY <3>1, PlacesGrow
    <3> QED
      BY <1>1, <2>1, <3>1, <3>2
  <2>5. n = total + 1 => len <= Start(n)
    <3> SUFFICES ASSUME n = total + 1 PROVE len <= Start(n)
      OBVIOUS
    <3>1. n - 1 = total
      BY <1>1
    <3> QED
      BY <1>1, <3>1
  <2> QED
    BY <2>1, <2>2, <2>3, <2>4, <2>5
<1> HIDE DEF Start
<1>3. ASSUME NEW n \in 1 .. total + 1
      PROVE  /\ End(n) \in 0 .. len
             /\ n = total + 1 => End(n) = len
             /\ n <= total => End(n) - Start(n) \in 1 .. limit
             /\ n # 1 /\ n <= total => End(n - 1) = Start(n)
  <2>1. /\ Start(n) \in Nat /\ len \in Nat /\ total \in Nat
        /\ n <= total => Start(n) < len
        /\ n = total + 1 => len <= Start(n)
    BY <1>1, <1>2
  <2> HIDE DEF len
  <2>2. /\ End(n) \in 0 .. len
        /\ n = total + 1 => End(n) = len
        /\ n <= total => End(n) - Start(n) \in 1 .. limit
    BY <2>1
  <2>3. ASSUME n # 1, n <= total PROVE End(n - 1) = Start(n)
    <3>1. n - 1 \in 1 .. total + 1 /\ Start(n) = Start(n - 1) + limit
      BY <1>2, <2>1, <2>3
    <3> QED
      BY <2>1, <2>3, <3>1
  <2> QED
    BY <2>2, <2>3
<1>4. Len(pages) = total + 1
  BY <1>1
<1>5. pages[total + 1] = <<>>
  <2> DEFINE n == total + 1
  <2>1. n \in 1 .. total + 1
    BY <1>1
  <2> HIDE DEF End
  <2>2. n = total + 1
    OBVIOUS
  <2> HIDE DEF n, len
  <2>3. Start(n) \in Nat /\ len <= Start(n) /\ End(n) = len /\ len \in Nat
        /\ pages[n] = SubSeq(s, Start(n) + 1, End(n))
    BY <1>1, <1>2, <1>3, <2>1, <2>2
  <2>4. Start(n) + 1 \in Int /\ End(n) \in Int /\ End(n) < Start(n) + 1
    BY <2>3
  <2>5. pages[n] = <<>>
    BY <2>3, <2>4, SubSeqEmpty
  <2> QED
    BY <2>2, <2>5
<1>6. ASSUME NEW n \in 1 .. total PROVE Len(pages[n]) \in 1 .. limit
  <2>1. n \in 1 .. total + 1 /\ n <= total
    BY <1>1
  <2> DEFINE from == Start(n) + 1
  <2> HIDE DEF End
  <2>2. /\ from \in Int /\ from >= 1 /\ End(n) \in Int /\ End(n) <= len
        /\ End(n) - from + 1 \in 1 .. limit
    <3> HIDE DEF len
    <3>1. Start(n) \in Nat /\ End(n) \in 0 .. len /\ End(n) - Start(n) \in 1 .. limit /\ len \in Nat
      BY <1>1, <1>2, <1>3, <2>1
    <3> QED
      BY <3>1
  <2>3. pages[n] = SubSeq(s, from, End(n))
    BY <1>2, <2>1
  <2>4. \A i \in from .. End(n) : s[i] \in S
    BY <2>2
  <2> HIDE DEF from
  <2>5. Len(SubSeq(s, from, End(n))) = IF from <= End(n) THEN End(n) - from + 1 ELSE 0
    BY <2>2, <2>4, SubSeqProperties
  <2> QED
    BY <2>2, <2>3, <2>5
<1> HIDE DEF End
<1>7. GrowsBy(grown, pages, total + 1)
  <2> SUFFICES ASSUME NEW n \in 1 .. total + 1
               PROVE  SubSeq(s, 1, End(n)) = IF n = 1 THEN pages[n] ELSE grown[n - 1] \o pages[n]
    BY DEF GrowsBy
  <2>1. CASE n = 1
    <3>1. Start(n) = 0 /\ pages[n] = SubSeq(s, Start(n) + 1, End(n))
      BY <1>2, <2>1
    <3> QED
      BY <2>1, <3>1
  <2>2. CASE n # 1
    <3>1. n - 1 \in 1 .. total + 1 /\ n - 1 <= total
      BY <1>1, <2>2
    <3>2. grown[n - 1] = SubSeq(s, 1, End(n - 1))
      BY <3>1
    <3>3. End(n - 1) \in 0 .. len /\ End(n) \in End(n - 1) .. len
          /\ pages[n] = SubSeq(s, End(n - 1) + 1, End(n))
      <4>1. CASE n <= total
        <5>1. End(n - 1) = Start(n) /\ End(n) - Start(n) \in 1 .. limit
          BY <1>3, <2>2, <4>1
        <5>2. End(n) \in 0 .. len /\ End(n - 1) \in 0 .. len
          BY <1>3, <3>1
        <5>3. pages[n] = SubSeq(s, End(n - 1) + 1, End(n))
          BY <1>2, <5>1
        <5> HIDE DEF len
        <5>4. End(n) \in End(n - 1) .. len
          BY <1>1, <5>1, <5>2
        <5> QED
          BY <5>2, <5>3, <5>4
      <4>2. CASE n = total + 1
        <5>1. End(n) = len /\ pages[n] = <<>>
          BY <1>3, <1>5, <4>2
        <5>2. End(n - 1) = len
          <6>1. n - 1 = total /\ total # 0
            BY <1>1, <2>2, <4>2
          <6>2. len <= Start(n) /\ Start(n) = Start(n - 1) + limit /\ Start(n - 1) \in Nat
            BY <1>2, <2>2, <3>1, <4>2
          <6> QED
            BY <1>1, <6>2 DEF End
        <5>3. SubSeq(s, len + 1, len) = <<>>
          <6>1. len + 1 \in Int /\ len \in Int /\ len < len + 1
            BY <1>1
          <6> HIDE DEF len
          <6> QED
            BY <6>1, SubSeqEmpty
        <5>4. len \in 0 .. len /\ len \in len .. len
          BY <1>1
        <5> HIDE DEF len
        <5> QED
          BY <5>1, <5>2, <5>3, <5>4
      <4> QED
        BY <1>1, <4>1, <4>2
    <3>4. SubSeq(s, 1, End(n - 1)) \o SubSeq(s, End(n - 1) + 1, End(n)) = SubSeq(s, 1, End(n))
      <4> DEFINE m == 1
                 k == End(n - 1)
                 e == End(n)
      <4>1. m \in 1 .. Len(s) + 1 /\ k \in m - 1 .. Len(s) /\ e \in k .. Len(s)
        BY <1>1, <3>3
      <4> HIDE DEF m, k, e
      <4>2. SubSeq(s, m, k) \o SubSeq(s, k + 1, e) = SubSeq(s, m, e)
        BY <4>1, ConcatAdjacentSubSeq
      <4> QED
        BY <4>2 DEF m, k, e
    <3> QED
      BY <2>2, <3>2, <3>3, <3>4
  <2> QED
    BY <2>1, <2>2
<1>8. FlattenSeq(pages) = grown[total + 1]
  <2> HIDE DEF grown
  <2> DEFINE n == total + 1
  <2>1. n \in Nat /\ n # 0
    BY <1>1
  <2>2. Len(pages) = n
    BY <1>4
  <2>3. GrowsBy(grown, pages, n)
    BY <1>7
  <2> HIDE DEF n
  <2>4. FlattenSeq(pages) = grown[n]
    BY <2>1, <2>2, <2>3, FlattenIs
  <2> QED
    BY <2>4 DEF n
<1>9. grown[total + 1] = s
  <2>1. total + 1 \in 1 .. total + 1
    BY <1>1
  <2>2. grown[total + 1] = SubSeq(s, 1, len)
    BY <1>3, <2>1
  <2> QED
    BY <2>2, SubSeqFull
<1> QED
  BY <1>1, <1>4, <1>5, <1>6, <1>8, <1>9

\* A query that has been parsed; what is left of it is asked for in pages.
IsQuery(query) == query \in [page : Nat, limit : Nat, desc : BOOLEAN]

LEMMA LimitIs ==
    ASSUME NEW query, IsQuery(query)
    PROVE  /\ Limit(query, DefaultLimit, MaxLimit) \in Nat
           /\ Limit(query, DefaultLimit, MaxLimit) # 0
           /\ Limit(query, DefaultLimit, MaxLimit) <= MaxLimit
<1> DEFINE number == Count(query.limit, DefaultLimit)
<1>1. MaxLimit \in Nat /\ MaxLimit # 0 /\ number \in Nat /\ number # 0
  BY LimitsAssumption DEF IsQuery, IsLimit, Count
<1>2. Limit(query, DefaultLimit, MaxLimit) = Min({MaxLimit, number})
  BY DEF Limit
<1> HIDE DEF number
<1> QED
  BY <1>1, <1>2, LessOf

\* One page is a slice of the rows that pass, sorted.
LEMMA PageIs ==
    ASSUME NEW rows, NEW query, IsQuery(query), NEW n \in Nat, n # 0
    PROVE  Page(rows, [query EXCEPT !.page = n], DefaultLimit, MaxLimit)
              = Slice(Sort(Filter(rows), query.desc), n, Limit(query, DefaultLimit, MaxLimit))
<1> DEFINE wanted == [query EXCEPT !.page = n]
<1>1. wanted.page = n /\ wanted.limit = query.limit /\ wanted.desc = query.desc
  BY DEF IsQuery
<1>2. Count(wanted.page, 1) = n
  BY <1>1 DEF Count
<1>3. Limit(wanted, DefaultLimit, MaxLimit) = Limit(query, DefaultLimit, MaxLimit)
  BY <1>1 DEF Limit
<1> HIDE DEF wanted
<1>4. Page(rows, wanted, DefaultLimit, MaxLimit)
         = Slice(Sort(Filter(rows), query.desc), n, Limit(query, DefaultLimit, MaxLimit))
  BY <1>1, <1>2, <1>3 DEF Page
<1> QED
  BY <1>4 DEF wanted

LEMMA QueryPage ==
    ASSUME NEW rows, NEW query, IsQuery(query)
    PROVE  Page(rows, query, DefaultLimit, MaxLimit)
              = Page(rows, [query EXCEPT !.page = Count(query.page, 1)], DefaultLimit, MaxLimit)
<1> DEFINE n == Count(query.page, 1)
<1>1. n \in Nat /\ n # 0
  BY DEF Count, IsQuery
<1>2. Page(rows, query, DefaultLimit, MaxLimit)
         = Slice(Sort(Filter(rows), query.desc), n, Limit(query, DefaultLimit, MaxLimit))
  BY DEF Page
<1> HIDE DEF n
<1> QED
  BY <1>1, <1>2, PageIs DEF n

\* The walk through all pages.
LEMMA WalkCovers ==
    ASSUME NEW rows, IsRows(rows), NEW query, IsQuery(query),
           NEW total, total = TotalPages(Filter(rows), Limit(query, DefaultLimit, MaxLimit)),
           NEW pages, pages = [n \in 1 .. total + 1 |->
               Page(rows, [query EXCEPT !.page = n], DefaultLimit, MaxLimit)],
           NEW whole, whole = FlattenSeq(pages)
    PROVE  /\ pages[Len(pages)] = <<>>
           /\ \A n \in 1 .. Len(pages) - 1 : Len(pages[n]) \in 1 .. MaxLimit
           /\ Len(whole) = Len(Filter(rows)) /\ ToSet(whole) = ToSet(Filter(rows))
           /\ \A i, j \in DOMAIN whole : i < j =>
                 /\ ~Before(whole[j], whole[i], query.desc)
                 /\ whole[j].rank \in Ordered => whole[i].rank \in Ordered
<1> DEFINE passing == Filter(rows)
           sorted == Sort(passing, query.desc)
           limit == Limit(query, DefaultLimit, MaxLimit)
           S == ToSet(passing)
<1>1. IsRows(passing) /\ query.desc \in BOOLEAN
  BY FilterIs DEF IsQuery
<1>2. /\ sorted \in Seq(S) /\ Len(sorted) = Len(passing) /\ ToSet(sorted) = S
      /\ \A i, j \in 1 .. Len(passing) : i < j =>
            /\ ~Before(sorted[j], sorted[i], query.desc)
            /\ sorted[j].rank \in Ordered => sorted[i].rank \in Ordered
  <2> HIDE DEF passing
  <2> QED
    BY <1>1, SortIs
<1>3. limit \in Nat /\ limit # 0 /\ limit <= MaxLimit /\ MaxLimit \in Nat
  BY LimitIs, LimitsAssumption DEF IsLimit
<1>4. total = TotalPages(sorted, limit)
  BY <1>2 DEF TotalPages
<1>5. pages = PagesOf(sorted, limit)
  <2> SUFFICES ASSUME NEW n \in 1 .. total + 1
               PROVE  Page(rows, [query EXCEPT !.page = n], DefaultLimit, MaxLimit)
                         = Slice(sorted, n, limit)
    BY <1>4, Zenon DEF PagesOf
  <2>1. n \in Nat /\ n # 0
    OBVIOUS
  <2> QED
    BY <2>1, PageIs
<1> HIDE DEF passing, sorted, limit, S
<1>6. /\ total \in Nat /\ Len(pages) = total + 1
      /\ pages[total + 1] = <<>>
      /\ \A n \in 1 .. total : Len(pages[n]) \in 1 .. limit
      /\ FlattenSeq(pages) = sorted
  BY <1>2, <1>3, <1>4, <1>5, PagesFlatten
<1>7. pages[Len(pages)] = <<>>
  BY <1>6
<1>8. \A n \in 1 .. Len(pages) - 1 : Len(pages[n]) \in 1 .. MaxLimit
  <2> SUFFICES ASSUME NEW n \in 1 .. Len(pages) - 1 PROVE Len(pages[n]) \in 1 .. MaxLimit
    OBVIOUS
  <2>1. n \in 1 .. total
    BY <1>6
  <2>2. Len(pages[n]) \in 1 .. limit
    BY <1>6, <2>1
  <2> QED
    BY <1>3, <2>2
<1>9. whole = sorted /\ DOMAIN whole = 1 .. Len(passing)
  BY <1>2, <1>6
<1> QED
  BY <1>2, <1>7, <1>8, <1>9 DEF passing, S

-----------------------------------------------------------------------------
(* The body of a list on its way. *)

\* The rows of the operation, or the page of them that was asked for.
PageAsked == Page(op.rows, [req.query EXCEPT !.page = Count(req.query.page, 1)], DefaultLimit, MaxLimit)
OfTheList(body) ==
    /\ body.kind = "list" => body.data = op.rows
    /\ body.kind = "page" => body.data = PageAsked

\* A list that no plugin of the user's can replace is passed on or paged.
ListInv ==
    /\ "rows" \in DOMAIN op /\ IsRows(op.rows) /\ IsQuery(req.query)
    /\ op.kind = "list" /\ "user" \notin ToSet(pipe) =>
          OfTheList(response.body) /\ \A d \in delivered : OfTheList(d.body)

LEMMA ListCovers == ASSUME ListInv PROVE PagesCoverTheList
<1> SUFFICES ASSUME NEW d \in delivered,
                    op.kind = "list", d.body.kind = "page", "user" \notin ToSet(pipe)
             PROVE  LET PageAt(n) == Page(op.rows, [req.query EXCEPT !.page = n], DefaultLimit, MaxLimit)
                        IsCovered(rows, pages, all_) ==
                            /\ pages[Len(pages)] = <<>>
                            /\ \A n \in 1 .. Len(pages) - 1 : Len(pages[n]) \in 1 .. MaxLimit
                            /\ Len(all_) = Len(rows) /\ ToSet(all_) = ToSet(rows)
                            /\ \A i, j \in DOMAIN all_ : i < j =>
                                  /\ ~Before(all_[j], all_[i], req.query.desc)
                                  /\ all_[j].rank \in Ordered => all_[i].rank \in Ordered
                        rows == Filter(op.rows)
                        pages == [n \in 1 .. TotalPages(rows, Limit(req.query, DefaultLimit, MaxLimit)) + 1
                                     |-> PageAt(n)]
                    IN  d.body.data = PageAt(Count(req.query.page, 1))
                        /\ IsCovered(rows, pages, FlattenSeq(pages))
  BY Zenon DEF PagesCoverTheList
<1>1. d.body.data = PageAsked /\ IsRows(op.rows) /\ IsQuery(req.query)
  BY DEF ListInv, OfTheList
<1> DEFINE total == TotalPages(Filter(op.rows), Limit(req.query, DefaultLimit, MaxLimit))
           pages == [n \in 1 .. total + 1 |->
                        Page(op.rows, [req.query EXCEPT !.page = n], DefaultLimit, MaxLimit)]
<1>2. PICK q : q = req.query
  OBVIOUS
<1>3. /\ pages[Len(pages)] = <<>>
      /\ \A n \in 1 .. Len(pages) - 1 : Len(pages[n]) \in 1 .. MaxLimit
      /\ Len(FlattenSeq(pages)) = Len(Filter(op.rows)) /\ ToSet(FlattenSeq(pages)) = ToSet(Filter(op.rows))
      /\ \A i, j \in DOMAIN FlattenSeq(pages) : i < j =>
            /\ ~Before(FlattenSeq(pages)[j], FlattenSeq(pages)[i], req.query.desc)
            /\ FlattenSeq(pages)[j].rank \in Ordered => FlattenSeq(pages)[i].rank \in Ordered
  <2> PICK t : t = total
    OBVIOUS
  <2> PICK p : p = pages
    OBVIOUS
  <2> PICK whole : whole = FlattenSeq(p)
    OBVIOUS
  <2> QED
    BY <1>1, WalkCovers, Zenon
<1> QED
  BY <1>1, <1>3, Zenon DEF PageAsked

LEMMA OthersListed ==
    /\ \A b : b.kind \notin {"list", "page"} => OfTheList(b)
    /\ OfTheList(Undefined) /\ OfTheList(Error) /\ OfTheList(Empty)
    /\ \A e, m : OfTheList(MadeBody(e, m))
    /\ \A available : OfTheList(NotAcceptable(available))
    /\ OfTheList(Body("example", <<>>)) /\ OfTheList(Body("item", <<>>)) /\ OfTheList(Body("whole", <<>>))
<1>1. \A b : b.kind \notin {"list", "page"} => OfTheList(b)
  BY DEF OfTheList
<1>2. \A available : NotAcceptable(available).kind = "not acceptable"
  BY DEF NotAcceptable, Body
<1>3. \A e, m : MadeBody(e, m).kind \in {"empty", "made"}
  BY MadeBodyIs
<1>4. OfTheList(Undefined) /\ OfTheList(Error) /\ OfTheList(Empty)
  BY <1>1, BodiesAre
<1>5. (\A e, m : OfTheList(MadeBody(e, m))) /\ (\A available : OfTheList(NotAcceptable(available)))
  <2>1. \A e, m : MadeBody(e, m).kind \notin {"list", "page"}
    BY <1>3
  <2>2. \A available : NotAcceptable(available).kind \notin {"list", "page"}
    BY <1>2
  <2> QED
    BY <1>1, <2>1, <2>2, Zenon
<1>6. OfTheList(Body("example", <<>>)) /\ OfTheList(Body("item", <<>>)) /\ OfTheList(Body("whole", <<>>))
  <2>1. /\ Body("example", <<>>).kind \notin {"list", "page"}
        /\ Body("item", <<>>).kind \notin {"list", "page"}
        /\ Body("whole", <<>>).kind \notin {"list", "page"}
    BY DEF Body
  <2> QED
    BY <1>1, <2>1, Zenon
<1> QED
  BY <1>1, <1>4, <1>5, <1>6

\* What openapi makes of a value that is of the list.
LEMMA AnswerListed ==
    ASSUME InputOK, NEW v, OfTheList(v.body)
    PROVE  OfTheList(Preferred(v).body) /\ OfTheList(WithType(Preferred(v)).value.body)
<1> DEFINE p == Preferred(v)
<1>0. \A s, b : Tuple(s, b).body = b
  BY DEF Tuple, Value
<1>1. OfTheList(p.body)
  <2>1. p = v \/ \E s : \E b : p = Tuple(s, b) /\ OfTheList(b)
    BY PreferredIs, OthersListed
  <2> HIDE DEF p
  <2> QED
    BY <1>0, <2>1
<1> HIDE DEF p
<1> DEFINE parts == Parts(p)
           available == Available(parts, FindResponseEntry(op.responses, parts.status))
           offer == Negotiate(req.accept, available)
           w == WithType(p).value
<1>2. parts.body \in {p.body, Body("whole", <<>>), Undefined}
  BY DEF Parts, Whole, Value
<1>3. w = Tuple(406, NotAcceptable(available)) \/ w = Typed(p, parts, available, offer)
  BY WithTypeIs
<1> HIDE DEF parts, available, offer
<1>4. Typed(p, parts, available, offer).body \in {p.body, parts.body}
  BY DEF Typed, Value
<1>5. OfTheList(w.body)
  <2> HIDE DEF w
  <2> QED
    BY <1>0, <1>1, <1>2, <1>3, <1>4, OthersListed
<1> QED
  BY <1>1, <1>5 DEF p, w

\* What core makes of it.
LEMMA ParsedListed ==
    ASSUME NEW v, OfTheList(v.body), NEW head
    PROVE  OfTheList(Normalized(Parse(v), head).body) /\ OfTheList(Exception(head).body)
<1>2. Parse(v).body \in {v.body, Undefined, Body("whole", <<>>)}
  BY DEF Parse, Whole
<1>3. \A status, body, ctype, headers, exception :
         LET r == [status |-> status, body |-> body, ctype |-> ctype,
                   headers |-> headers, exception |-> exception]
         IN  Normalized(r, head).body \in {body, Undefined}
  BY DEF Normalized
<1>4. Parse(v) = [status |-> Parse(v).status, body |-> Parse(v).body, ctype |-> Parse(v).ctype,
                  headers |-> Parse(v).headers, exception |-> Parse(v).exception]
  BY DEF Parse
<1>5. Normalized(Parse(v), head).body \in {Parse(v).body, Undefined}
  BY <1>3, <1>4
<1>6. Exception(head).body \in {Error, Undefined}
  BY <1>3 DEF Exception
<1> QED
  BY <1>2, <1>5, <1>6, OthersListed

\* A step in which the request keeps its list.
LEMMA ListStays ==
    ASSUME ListInv, UNCHANGED <<op, req, pipe>>,
           op.kind = "list" /\ "user" \notin ToSet(pipe) =>
               OfTheList(response'.body) /\ \A d \in delivered' : OfTheList(d.body)
    PROVE  ListInv'
<1>1. \A b : OfTheList(b)' <=> OfTheList(b)
  BY DEF OfTheList, PageAsked
<1> QED
  BY <1>1 DEF ListInv

\* A turn in the pipe belongs to a plugin of the pipe.
LEMMA TurnIs ==
    ASSUME RequestInv, NEW when, NEW plugin, Turn(when, plugin)
    PROVE  plugin \in ToSet(pipe) /\ pc = when
<1>1. at \in DOMAIN pipe /\ pipe[at] = plugin /\ pc = when
  BY DEF RequestInv, Control, InputOK, Turn
<1> QED
  BY <1>1 DEF ToSet

\* Requests that are refused say so in a body of their own.
LEMMA GuardsListed ==
    ASSUME RequestInv, ListInv, OpenApiGuard \/ ValidationGuard \/ OtherGuard
    PROVE  ListInv'
<1>1. UNCHANGED <<op, req, pipe, delivered>>
  BY DEF OpenApiGuard, ValidationGuard, OtherGuard, Reject, PassGuard, input
<1>2. CASE response' = response
  BY <1>1, <1>2, ListStays DEF ListInv
<1>3. ASSUME NEW b, OfTheList(b), NEW s, response' = Tuple(s, b) \/ response' = Object(s, b)
      PROVE  ListInv'
  <2>1. response'.body = b
    BY <1>3 DEF Tuple, Object, Value
  <2> QED
    BY <1>1, <1>3, <2>1, ListStays DEF ListInv
<1>4. CASE OpenApiGuard
  <2>1. response' = response \/ \E v \in Refusals(PreflightRefused) : response' = v
    BY <1>4 DEF OpenApiGuard, PassGuard, Reject
  <2>2. \A v \in Refusals(PreflightRefused) :
            \E s : v = Tuple(s, Error) \/ \E c : v = Tuple(s, NotAcceptable(c))
    BY DEF Refusals
  <2> QED
    BY <1>2, <1>3, <2>1, <2>2, OthersListed
<1>5. CASE ValidationGuard
  <2>1. response' = response \/ response' = Object(400, Error)
    BY <1>5 DEF ValidationGuard, PassGuard, Reject
  <2> QED
    BY <1>2, <1>3, <2>1, OthersListed
<1>6. CASE OtherGuard
  <2>1. response' = response \/ "user" \in ToSet(pipe)
    BY <1>6, TurnIs DEF OtherGuard, PassGuard
  <2> QED
    BY <1>1, <1>2, <2>1, ListStays
<1> QED
  BY <1>4, <1>5, <1>6

\* The list generator answers the rows.
LEMMA GenerateListed == ASSUME RequestInv, ListInv, Generate PROVE ListInv'
<1>1. UNCHANGED <<op, req, pipe, delivered>>
  BY DEF Generate, input
<1>2. ASSUME op.kind = "list" PROVE OfTheList(response'.body)
  <2>1. response' = BuildResponse(StatusOr(0), List(op.rows), HeaderOf(Success.entry))
    BY <1>2 DEF Generate, Generated
  <2>2. response'.body \in {List(op.rows), Undefined}
    BY <2>1 DEF BuildResponse, Plain, TypedTuple, Value
  <2>3. OfTheList(List(op.rows))
    BY DEF OfTheList, List, Body
  <2> QED
    BY <2>2, <2>3, OthersListed
<1> QED
  BY <1>1, <1>2, ListStays DEF ListInv

\* Of the plugins that process it the query plugin alone pages the rows.
LEMMA ProcessListed ==
    ASSUME RequestInv, ListInv,
           OpenApiProcess \/ OpenApiPasses \/ QueryProcess \/ ValidationProcess \/ UserProcess
    PROVE  ListInv'
<1>1. UNCHANGED <<op, req, pipe, delivered>>
  BY DEF OpenApiProcess, OpenApiPasses, QueryProcess, ValidationProcess, UserProcess, Return,
         OpenApiAnswers, OpenApiFails, input
<1>2. ASSUME op.kind = "list" /\ "user" \notin ToSet(pipe) => OfTheList(response'.body)
      PROVE  ListInv'
  BY <1>1, <1>2, ListStays DEF ListInv
<1> SUFFICES ASSUME op.kind = "list", "user" \notin ToSet(pipe) PROVE OfTheList(response'.body)
  BY <1>2
<1>3. OfTheList(response.body)
  BY DEF ListInv
<1>4. \A s, b : Tuple(s, b).body = b /\ Object(s, b).body = b /\ Plain(b).body = b
  BY DEF Tuple, Object, Plain, Value
<1>5. CASE OpenApiProcess
  <2> DEFINE w == WithType(Preferred(response)).value
  <2>1. response' = response \/ response' = w \/ response' = Tuple(500, Error)
    BY <1>5 DEF OpenApiProcess, OpenApiAnswers, OpenApiFails, Return
  <2>2. OfTheList(w.body)
    BY <1>3, AnswerListed DEF RequestInv
  <2> HIDE DEF w
  <2> QED
    BY <1>3, <1>4, <2>1, <2>2, OthersListed
<1>6. CASE OpenApiPasses \/ ValidationProcess
  <2>1. response' = response \/ response' = Object(500, Error)
    BY <1>6 DEF OpenApiPasses, ValidationProcess, Return
  <2> QED
    BY <1>3, <1>4, <2>1, OthersListed
<1>7. CASE QueryProcess
  <2> DEFINE body == PluginBody(response)
             page == Body("page", Page(body.data, req.query, DefaultLimit, MaxLimit))
  <2>1. \/ response' = response
        \/ body.kind = "list" /\ response' = ReplaceBody(response, page)
    BY <1>7 DEF QueryProcess, Return
  <2>2. CASE body.kind = "list" /\ response' = ReplaceBody(response, page)
    <3>1. body.data = op.rows
      <4>1. body \in {response.body, Body("whole", <<>>)}
        BY DEF PluginBody, Whole
      <4>2. Body("whole", <<>>).kind = "whole"
        BY BodiesAre
      <4> HIDE DEF body
      <4> QED
        BY <1>3, <2>2, <4>1, <4>2 DEF OfTheList
    <3>2. Page(op.rows, req.query, DefaultLimit, MaxLimit) = PageAsked
      BY QueryPage DEF ListInv, PageAsked
    <3>3. OfTheList(page)
      BY <3>1, <3>2 DEF OfTheList, Body
    <3>4. response'.body = page
      <4>1. response = Value(response.shape, response.status, response.body, response.ctype,
                             response.headers)
        BY DEF RequestInv, Control, IsValue
      <4> HIDE DEF page
      <4>2. [response EXCEPT !.body = page].body = page
        BY <4>1 DEF Value
      <4> QED
        BY <1>4, <2>2, <4>2 DEF ReplaceBody
    <3> QED
      BY <3>3, <3>4
  <2> QED
    BY <1>3, <2>1, <2>2
<1>8. CASE UserProcess
  BY <1>8, TurnIs DEF UserProcess
<1> QED
  BY <1>5, <1>6, <1>7, <1>8

LEMMA EndListed == ASSUME ListInv, Throws \/ Deliver PROVE ListInv'
<1>1. UNCHANGED <<op, req, pipe, response>>
  BY DEF Throws, Deliver, input
<1>2. ASSUME op.kind = "list", "user" \notin ToSet(pipe)
      PROVE  OfTheList(response'.body) /\ \A d \in delivered' : OfTheList(d.body)
  <2>1. OfTheList(response.body)
    BY <1>2 DEF ListInv
  <2>2. \A d \in delivered' : d = Exception(req.head) \/ d = Normalized(Parse(response), req.head)
    BY DEF Throws, Deliver
  <2> QED
    BY <1>1, <2>1, <2>2, ParsedListed
<1> QED
  BY <1>1, <1>2, ListStays

\* A request that is still to find its operation carries no body yet.
LEMMA RouteListed == ASSUME PathInv, ListInv, Route PROVE ListInv'
<1>1. /\ UNCHANGED <<req, pipe, response>> /\ response = Plain(Undefined) /\ delivered = {}
  BY DEF PathInv, RequestInv, AtStart, Route, Match
<1>2. OfTheList(Undefined) /\ Plain(Undefined).body = Undefined
  BY OthersListed DEF Plain, Value
<1>3. CASE op' = op /\ delivered' = {Normalized(Parse(Tuple(404, Error)), req.head)}
  <2>1. Tuple(404, Error).body = Error
    BY DEF Tuple, Value
  <2>2. \A d \in delivered' : OfTheList(d.body)
    BY <1>3, <2>1, OthersListed, ParsedListed
  <2> QED
    BY <1>1, <1>2, <1>3, <2>2, ListStays
<1>4. ASSUME NEW kind, op' = [op EXCEPT !.kind = kind], delivered' = delivered PROVE ListInv'
  <2>1. "rows" \in DOMAIN op' /\ op'.rows = op.rows
    BY <1>4 DEF ListInv, PathInv, RequestInv, InputOK
  <2>2. OfTheList(response.body)'
    BY <1>1, BodiesAre DEF OfTheList, Plain, Value
  <2> QED
    BY <1>1, <1>4, <2>1, <2>2 DEF ListInv
<1> QED
  BY <1>3, <1>4 DEF Route

LEMMA ListStep == ASSUME PathInv, ListInv, [PathNext]_all PROVE ListInv'
<1>1. CASE UNCHANGED vars
  BY <1>1, ListStays DEF vars, input, ListInv
<1>2. CASE Route
  BY <1>2, RouteListed
<1>3. CASE Throws \/ Next
  BY <1>3, GuardsListed, GenerateListed, ProcessListed, EndListed DEF Next, PathInv
<1>4. UNCHANGED vars \/ Route \/ Throws \/ Next
  BY DEF PathNext, all, Install, Ask, Answer500, Step
<1> QED
  BY <1>1, <1>2, <1>3, <1>4

LEMMA ListInitially == ASSUME PathInit PROVE ListInv
<1>1. PICK s \in Scenarios :
          /\ op \in s.ops /\ pipe \in s.pipes
          /\ req \in [accept : s.accepts, prefer : s.prefers, query : s.queries,
                      head : s.heads, credentials : s.credentials, body : s.bodies]
  BY DEF PathInit, Init
<1>2. "rows" \in DOMAIN op /\ IsRows(op.rows)
  BY <1>1, ScenariosAssumption
<1>3. IsQuery(req.query)
  BY <1>1, ScenariosAssumption DEF IsQuery
<1>4. response = Plain(Undefined) /\ delivered = {}
  BY DEF PathInit, Init, Untouched
<1>5. OfTheList(response.body)
  BY <1>4, OthersListed DEF Plain, Value
<1> QED
  BY <1>2, <1>3, <1>4, <1>5 DEF ListInv

\* A client that walks the pages of a list meets each row that passes the filter
\* once and in one order, whatever limit it asks for.
THEOREM PathPagesCover == PathSpec => []PagesCoverTheList
<1>1. PathInit => PathInv /\ ListInv
  BY PathInitially, ListInitially
<1>2. PathInv /\ ListInv /\ [PathNext]_all => (PathInv /\ ListInv)'
  BY StepKeeps, ListStep
<1>3. PathInv /\ ListInv => PagesCoverTheList
  BY ListCovers
<1> QED
  BY <1>1, <1>2, <1>3, PTL DEF PathSpec

-----------------------------------------------------------------------------
(* Segments. *)

\* What convertPathTemplate() makes of a segment.
Converted(s) ==
    LET d == Declared(s)
    IN  IF d.name = <<>> THEN d.pre ELSE d.pre \o <<":">> \o d.name \o d.post

\* A segment of a document in its parts: around the braces, or all of it.
IsCut(s, d) ==
    /\ d = [pre |-> d.pre, name |-> d.name, post |-> d.post]
    /\ d.pre \in Seq(ToSet(s)) /\ d.name \in Seq(ToSet(s)) /\ d.post \in Seq(ToSet(s))
    /\ d.name = <<>> => d.pre = s /\ d.post = <<>>
    /\ \A k \in 1 .. Len(d.name) : d.name[k] \in NameTokens
    /\ Len(d.post) > 0 => d.post[1] \notin NameTokens

\* The place of the only token of its kind.
LEMMA OnlyPlace ==
    ASSUME NEW S, NEW s \in Seq(S), NEW t, NEW i \in 1 .. Len(s),
           s[i] = t, \A k \in 1 .. Len(s) : s[k] = t => k = i
    PROVE  Place(t, s) = i
<1> DEFINE I == {k \in 1 .. Len(s) : s[k] = t}
<1>1. I = {i}
  OBVIOUS
<1>2. I \in SUBSET Nat /\ I # {}
  BY <1>1
<1>3. Min(I) = i
  <2> HIDE DEF I
  <2> QED
    BY <1>1, <1>2, MinIs
<1> QED
  BY <1>1, <1>3 DEF Place, SelectInSeq

LEMMA NoPlace ==
    ASSUME NEW S, NEW s \in Seq(S), NEW t, t \notin ToSet(s)
    PROVE  Place(t, s) = 0
<1>1. {k \in 1 .. Len(s) : s[k] = t} = {}
  BY DEF ToSet
<1> QED
  BY <1>1 DEF Place, SelectInSeq

LEMMA DeclaredIs ==
    ASSUME NEW s, IsSegment(s)
    PROVE  IsCut(s, Declared(s))
<1> DEFINE S == ToSet(s)
<1>0. s \in Seq(S) /\ s # <<>>
  BY Zenon DEF IsSegment
<1>1. s \in Seq(S) /\ s # <<>> /\ Len(s) \in Nat /\ DOMAIN s = 1 .. Len(s)
  BY <1>0
<1>2. \A k \in 1 .. Len(s) : s[k] \in S
  BY <1>1 DEF ToSet
<1>3. CASE {"{", "}"} \cap S = {}
  <2>1. "{" \notin S
    BY <1>3
  <2>2. Place("{", s) = 0
    BY <1>1, <2>1, NoPlace
  <2>3. Declared(s) = [pre |-> s, name |-> <<>>, post |-> <<>>]
    BY <2>2 DEF Declared
  <2> QED
    BY <2>3, <1>1 DEF IsCut
<1>4. CASE {"{", "}"} \cap S # {}
  <2>1. PICK i, j \in 1 .. Len(s) :
           /\ i + 1 < j /\ s[i] = "{" /\ s[j] = "}"
           /\ \A k \in 1 .. Len(s) :
                 /\ k \notin {i, j} => s[k] \notin {"{", "}"}
                 /\ i < k /\ k < j => s[k] \in NameTokens
                 /\ k = j + 1 => s[k] \notin NameTokens
    BY <1>1, <1>4 DEF IsSegment
  <2>2. Place("{", s) = i
    <3>1. \A k \in 1 .. Len(s) : s[k] = "{" => k = i
      BY <2>1
    <3> QED
      BY <1>1, <2>1, <3>1, OnlyPlace
  <2>3. Place("}", s) = j
    <3>1. \A k \in 1 .. Len(s) : s[k] = "}" => k = j
      BY <2>1
    <3> QED
      BY <1>1, <2>1, <3>1, OnlyPlace
  <2> DEFINE p == SubSeq(s, 1, i - 1)
             n == SubSeq(s, i + 1, j - 1)
             q == SubSeq(s, j + 1, Len(s))
  <2>4. Declared(s) = [pre |-> p, name |-> n, post |-> q]
    <3>1. i # 0
      OBVIOUS
    <3> QED
      BY <2>2, <2>3, <3>1 DEF Declared
  <2>5. p \in Seq(S)
    <3>1. 1 \in Int /\ i - 1 \in Int /\ \A k \in 1 .. i - 1 : s[k] \in S
      BY <1>1, <1>2
    <3> HIDE DEF S
    <3> QED
      BY <3>1, SubSeqProperties
  <2>6. /\ n \in Seq(S) /\ Len(n) = j - 1 - i
        /\ \A k \in 1 .. Len(n) : n[k] \in NameTokens
    <3>0. i \in Nat /\ j \in Nat /\ i + 1 < j /\ j <= Len(s) /\ i >= 1
      <4>1. i \in 1 .. Len(s) /\ j \in 1 .. Len(s) /\ i + 1 < j /\ Len(s) \in Nat
        BY <1>1, <2>1, Zenon
      <4> QED
        BY <4>1
    <3>1. /\ i + 1 \in Int /\ j - 1 \in Int /\ i + 1 <= j - 1
          /\ \A k \in i + 1 .. j - 1 : s[k] \in S
      BY <1>1, <1>2, <3>0
    <3>2. /\ n \in Seq(S)
          /\ Len(n) = (j - 1) - (i + 1) + 1
          /\ \A k \in 1 .. (j - 1) - (i + 1) + 1 : n[k] = s[(i + 1) + k - 1]
      <4> HIDE DEF S
      <4> QED
        BY <3>1, SubSeqProperties
    <3>3. Len(n) = j - 1 - i
      BY <3>1, <3>2
    <3>4. ASSUME NEW k \in 1 .. Len(n)
          PROVE  n[k] \in NameTokens
      <4>1. k \in 1 .. (j - 1) - (i + 1) + 1 /\ (i + 1) + k - 1 = i + k /\ i + k \in 1 .. Len(s)
            /\ i < i + k /\ i + k < j
        BY <3>3
      <4>2. n[k] = s[i + k]
        BY <3>2, <4>1
      <4> QED
        BY <2>1, <4>1, <4>2
    <3> QED
      BY <3>2, <3>3, <3>4
  <2>7. /\ q \in Seq(S)
        /\ Len(q) > 0 => q[1] \notin NameTokens
    <3>1. j + 1 \in Int /\ Len(s) \in Int /\ \A k \in j + 1 .. Len(s) : s[k] \in S
      BY <1>1, <1>2
    <3>2. /\ q \in Seq(S)
          /\ Len(q) = IF j + 1 <= Len(s) THEN Len(s) - (j + 1) + 1 ELSE 0
          /\ \A k \in 1 .. Len(s) - (j + 1) + 1 : q[k] = s[(j + 1) + k - 1]
      <4> HIDE DEF S
      <4> QED
        BY <3>1, SubSeqProperties
    <3>3. ASSUME Len(q) > 0
          PROVE  q[1] \notin NameTokens
      <4>1. j + 1 <= Len(s)
        BY <3>2, <3>3
      <4>2. 1 \in 1 .. Len(s) - (j + 1) + 1 /\ (j + 1) + 1 - 1 = j + 1 /\ j + 1 \in 1 .. Len(s)
        BY <3>1, <4>1
      <4>3. q[1] = s[j + 1]
        BY <3>2, <4>2
      <4> QED
        BY <2>1, <4>2, <4>3
    <3> QED
      BY <3>2, <3>3
  <2>8. n # <<>>
    <3>0. Len(n) = j - 1 - i /\ i \in Nat /\ j \in Nat /\ i + 1 < j
      <4>1. i \in 1 .. Len(s) /\ j \in 1 .. Len(s) /\ i + 1 < j /\ Len(s) \in Nat
        BY <1>1, <2>1, Zenon
      <4> QED
        BY <4>1, <2>6
    <3> HIDE DEF n
    <3>1. Len(n) > 0
      BY <3>0
    <3> HIDE DEF n
    <3> QED
      BY <3>1, EmptySeq
  <2> HIDE DEF p, n, q
  <2> QED
    BY <2>4, <2>5, <2>6, <2>7, <2>8 DEF IsCut
<1> QED
  BY <1>3, <1>4

\* A literal stays one.
LEMMA CompileLiteral ==
    ASSUME NEW S, NEW s \in Seq(S), ":" \notin S
    PROVE  Compile(s) = [pre |-> s, name |-> <<>>, post |-> <<>>]
<1>1. Len(s) \in Nat /\ \A k \in 1 .. Len(s) : s[k] \in S
  OBVIOUS
<1>2. {i \in 1 .. Len(s) - 1 : s[i] = ":" /\ s[i + 1] \in NameTokens} = {}
  BY <1>1
<1> QED
  BY <1>2 DEF Compile

LEMMA HeadIs ==
    ASSUME NEW S, NEW s \in Seq(S), Len(s) > 0
    PROVE  Head(s) = s[1] /\ s # <<>>
OBVIOUS

\* The parts of a converted segment, by their places.
LEMMA ConvertedPlaces ==
    ASSUME NEW S, ":" \notin S, NEW p \in Seq(S), NEW n \in Seq(S), NEW q \in Seq(S),
           NEW T, T = S \cup {":"}
    PROVE  LET seg == p \o <<":">> \o n \o q IN
           /\ seg \in Seq(T) /\ Len(seg) = Len(p) + 1 + Len(n) + Len(q)
           /\ \A k \in 1 .. Len(p) : seg[k] = p[k]
           /\ seg[Len(p) + 1] = ":"
           /\ \A k \in 1 .. Len(n) : seg[Len(p) + 1 + k] = n[k]
           /\ \A k \in 1 .. Len(q) : seg[Len(p) + 1 + Len(n) + k] = q[k]
<1> DEFINE c == <<":">>
           a == p \o c
           b == a \o n
           seg == b \o q
<1>1. p \in Seq(T) /\ n \in Seq(T) /\ q \in Seq(T) /\ c \in Seq(T) /\ Len(c) = 1 /\ c[1] = ":"
  OBVIOUS
<1>2. Len(p) \in Nat /\ Len(n) \in Nat /\ Len(q) \in Nat
  OBVIOUS
<1> HIDE DEF c
<1>3. /\ a \in Seq(T) /\ Len(a) = Len(p) + Len(c)
      /\ \A k \in 1 .. Len(p) + Len(c) : a[k] = IF k <= Len(p) THEN p[k] ELSE c[k - Len(p)]
  <2>1. p \in Seq(T) /\ c \in Seq(T)
    BY <1>1
  <2> QED
    BY <2>1, ConcatProperties
<1>4. /\ b \in Seq(T) /\ Len(b) = Len(a) + Len(n)
      /\ \A k \in 1 .. Len(a) + Len(n) : b[k] = IF k <= Len(a) THEN a[k] ELSE n[k - Len(a)]
  <2>1. a \in Seq(T) /\ n \in Seq(T)
    BY <1>1, <1>3
  <2> HIDE DEF a
  <2> QED
    BY <2>1, ConcatProperties
<1>5. /\ seg \in Seq(T) /\ Len(seg) = Len(b) + Len(q)
      /\ \A k \in 1 .. Len(b) + Len(q) : seg[k] = IF k <= Len(b) THEN b[k] ELSE q[k - Len(b)]
  <2>1. b \in Seq(T) /\ q \in Seq(T)
    BY <1>1, <1>4
  <2> HIDE DEF b
  <2> QED
    BY <2>1, ConcatProperties
<1> HIDE DEF a, b, c, seg
<1>6. Len(a) = Len(p) + 1 /\ Len(b) = Len(p) + 1 + Len(n)
  BY <1>1, <1>2, <1>3, <1>4
<1>7. Len(seg) = Len(p) + 1 + Len(n) + Len(q)
  BY <1>2, <1>5, <1>6
<1>8. ASSUME NEW k \in 1 .. Len(p)
      PROVE  seg[k] = p[k]
  <2>1. a[k] = p[k]
    BY <1>1, <1>2, <1>3
  <2>2. b[k] = a[k]
    BY <1>2, <1>4, <1>6
  <2> QED
    BY <2>1, <2>2, <1>2, <1>5, <1>6
<1>9. seg[Len(p) + 1] = ":"
  <2>1. a[Len(p) + 1] = c[(Len(p) + 1) - Len(p)] /\ (Len(p) + 1) - Len(p) = 1
    BY <1>1, <1>2, <1>3
  <2>2. b[Len(p) + 1] = a[Len(p) + 1]
    <3>1. Len(p) + 1 \in 1 .. Len(a) + Len(n) /\ Len(p) + 1 <= Len(a)
      BY <1>2, <1>6
    <3> QED
      BY <1>4, <3>1
  <2>3. seg[Len(p) + 1] = b[Len(p) + 1]
    BY <1>2, <1>5, <1>6
  <2> QED
    BY <1>1, <2>1, <2>2, <2>3
<1>10. ASSUME NEW k \in 1 .. Len(n)
       PROVE  seg[Len(p) + 1 + k] = n[k]
  <2>1. b[Len(p) + 1 + k] = n[(Len(p) + 1 + k) - Len(a)] /\ (Len(p) + 1 + k) - Len(a) = k
    <3>1. /\ Len(p) + 1 + k \in 1 .. Len(a) + Len(n)
          /\ ~(Len(p) + 1 + k <= Len(a)) /\ (Len(p) + 1 + k) - Len(a) = k
      BY <1>2, <1>6
    <3> QED
      BY <1>4, <3>1
  <2>2. seg[Len(p) + 1 + k] = b[Len(p) + 1 + k]
    BY <1>2, <1>5, <1>6
  <2> QED
    BY <2>1, <2>2
<1>11. ASSUME NEW k \in 1 .. Len(q)
       PROVE  seg[Len(p) + 1 + Len(n) + k] = q[k]
  <2>1. /\ Len(p) + 1 + Len(n) + k \in 1 .. Len(b) + Len(q)
        /\ ~(Len(p) + 1 + Len(n) + k <= Len(b))
        /\ (Len(p) + 1 + Len(n) + k) - Len(b) = k
    BY <1>2, <1>6
  <2>2. seg[Len(p) + 1 + Len(n) + k] = q[(Len(p) + 1 + Len(n) + k) - Len(b)]
    BY <1>5, <2>1
  <2> QED
    BY <2>1, <2>2
<1> QED
  BY <1>5, <1>7, <1>8, <1>9, <1>10, <1>11 DEF a, b, c, seg

\* What parseRouteKey() reads of a converted segment.
LEMMA CompileParam ==
    ASSUME NEW S, ":" \notin S, NEW p \in Seq(S), NEW n \in Seq(S), NEW q \in Seq(S),
           Len(n) > 0, \A k \in 1 .. Len(n) : n[k] \in NameTokens,
           Len(q) > 0 => q[1] \notin NameTokens
    PROVE  Compile(p \o <<":">> \o n \o q) = [pre |-> p, name |-> n, post |-> q]
<1> DEFINE T == S \cup {":"}
           seg == p \o <<":">> \o n \o q
           m == Len(p) + 1
           e == m + Len(n)
           marks == {i \in 1 .. Len(seg) - 1 : seg[i] = ":" /\ seg[i + 1] \in NameTokens}
           Ends(from) == {f \in from + 1 .. Len(seg) :
                           \A k \in from + 1 .. f : seg[k] \in NameTokens}
<1>1. Len(p) \in Nat /\ Len(n) \in Nat /\ Len(q) \in Nat
  OBVIOUS
<1>2. /\ seg \in Seq(T) /\ Len(seg) = Len(p) + 1 + Len(n) + Len(q)
      /\ \A k \in 1 .. Len(p) : seg[k] = p[k]
      /\ seg[Len(p) + 1] = ":"
      /\ \A k \in 1 .. Len(n) : seg[Len(p) + 1 + k] = n[k]
      /\ \A k \in 1 .. Len(q) : seg[Len(p) + 1 + Len(n) + k] = q[k]
  BY ConvertedPlaces
<1>3. \A k \in 1 .. Len(p) : p[k] # ":"
  OBVIOUS
<1>4. \A k \in 1 .. Len(n) : n[k] # ":"
  OBVIOUS
<1>5. \A k \in 1 .. Len(q) : q[k] # ":"
  OBVIOUS
<1>6. Compile(seg) = IF marks = {} THEN [pre |-> seg, name |-> <<>>, post |-> <<>>]
                     ELSE [pre |-> SubSeq(seg, 1, Min(marks) - 1),
                           name |-> SubSeq(seg, Min(marks) + 1, Max(Ends(Min(marks)))),
                           post |-> SubSeq(seg, Max(Ends(Min(marks))) + 1, Len(seg))]
  <2> HIDE DEF seg
  <2> QED
    BY DEF Compile
<1> HIDE DEF seg
<1>7. Min(marks) = m /\ marks # {}
  <2>1. m \in 1 .. Len(seg) - 1
    BY <1>1, <1>2
  <2>2. seg[m] = ":" /\ seg[m + 1] \in NameTokens
    <3>1. seg[Len(p) + 1 + 1] = n[1] /\ n[1] \in NameTokens
      BY <1>1, <1>2
    <3> QED
      BY <1>1, <1>2, <3>1
  <2>3. ASSUME NEW i \in 1 .. Len(seg) - 1, i < m
        PROVE  seg[i] # ":"
    <3>1. i \in 1 .. Len(p)
      BY <2>3, <1>1
    <3> QED
      BY <3>1, <1>2, <1>3
  <2>4. m \in marks /\ \A i \in marks : m <= i
    BY <2>1, <2>2, <2>3, <1>1, <1>2
  <2>5. marks \in SUBSET Nat
    BY <1>1, <1>2
  <2>6. Min(marks) \in marks /\ \A i \in marks : Min(marks) <= i
    <3> HIDE DEF marks, m
    <3> QED
      BY <2>4, <2>5, MinIs
  <2>7. Min(marks) <= m /\ m <= Min(marks) /\ Min(marks) \in Nat /\ m \in Nat
    <3> HIDE DEF marks
    <3> QED
      BY <2>4, <2>5, <2>6, <1>1
  <2> HIDE DEF marks, m
  <2> QED
    BY <2>4, <2>7
<1>8. Max(Ends(m)) = e
  <2>1. e \in m + 1 .. Len(seg)
    BY <1>1, <1>2
  <2>2. ASSUME NEW k \in m + 1 .. e PROVE seg[k] \in NameTokens
    <3>1. k - m \in 1 .. Len(n) /\ Len(p) + 1 + (k - m) = k
      BY <1>1
    <3>2. seg[Len(p) + 1 + (k - m)] = n[k - m]
      BY <1>2, <3>1
    <3> QED
      BY <3>1, <3>2
  <2>3. ASSUME NEW f \in m + 1 .. Len(seg), \A k \in m + 1 .. f : seg[k] \in NameTokens, f > e
        PROVE  FALSE
    <3>1. Len(q) > 0 /\ e + 1 \in m + 1 .. f
      BY <2>3, <1>1, <1>2
    <3>2. seg[Len(p) + 1 + Len(n) + 1] = q[1]
      BY <3>1, <1>1, <1>2
    <3>3. e + 1 = Len(p) + 1 + Len(n) + 1
      BY <1>1
    <3> QED
      BY <2>3, <3>1, <3>2, <3>3
  <2>4. e \in Ends(m) /\ \A f \in Ends(m) : f <= e
    <3>1. \A f \in Ends(m) : f \in Nat /\ e \in Nat
      BY <1>1, <1>2
    <3>2. e \in Ends(m)
      BY <2>1, <2>2
    <3>3. ASSUME NEW f \in Ends(m) PROVE f <= e
      <4>1. ~(f > e)
        BY <2>3
      <4> QED
        BY <3>1, <4>1
    <3> QED
      BY <3>2, <3>3
  <2>5. Ends(m) \in SUBSET Nat
    BY <1>1, <1>2
  <2> HIDE DEF Ends, m, e
  <2> QED
    BY <2>4, <2>5, MaxIs
<1>9. Compile(seg) = [pre |-> SubSeq(seg, 1, m - 1), name |-> SubSeq(seg, m + 1, e),
                      post |-> SubSeq(seg, e + 1, Len(seg))]
  <2> HIDE DEF marks, Ends, m, e
  <2> QED
    BY <1>6, <1>7, <1>8
<1>10. \A k \in 1 .. Len(seg) : seg[k] \in T
  BY <1>2
<1>11. SubSeq(seg, 1, m - 1) = p
  <2>1. 1 \in Int /\ m - 1 \in Int /\ m - 1 = Len(p) /\ \A k \in 1 .. m - 1 : seg[k] \in T
    BY <1>1, <1>2, <1>10
  <2>2. /\ SubSeq(seg, 1, m - 1) \in Seq(T)
        /\ Len(SubSeq(seg, 1, m - 1)) = IF 1 <= m - 1 THEN (m - 1) - 1 + 1 ELSE 0
        /\ \A k \in 1 .. (m - 1) - 1 + 1 : SubSeq(seg, 1, m - 1)[k] = seg[1 + k - 1]
    <3> HIDE DEF m, T
    <3> QED
      BY <2>1, SubSeqProperties
  <2> DEFINE z == SubSeq(seg, 1, m - 1)
  <2> HIDE DEF z
  <2>3. z \in Seq(T) /\ Len(z) = Len(p) /\ p \in Seq(T)
    BY <2>1, <2>2, <1>1 DEF z
  <2>4. ASSUME NEW k \in 1 .. Len(z) PROVE z[k] = p[k]
    <3>1. k \in 1 .. (m - 1) - 1 + 1 /\ 1 + k - 1 = k /\ k \in 1 .. Len(p)
      BY <2>1, <2>3, <1>1
    <3> QED
      BY <2>2, <1>2, <3>1 DEF z
  <2>5. z = p
    <3> HIDE DEF T
    <3> QED
      BY <2>3, <2>4, SeqEqual
  <2> QED
    BY <2>5 DEF z
<1>12. SubSeq(seg, m + 1, e) = n
  <2>1. /\ m + 1 \in Int /\ e \in Int /\ e - (m + 1) + 1 = Len(n) /\ m + 1 <= e
        /\ \A k \in m + 1 .. e : seg[k] \in T
    BY <1>1, <1>2, <1>10
  <2>2. /\ SubSeq(seg, m + 1, e) \in Seq(T)
        /\ Len(SubSeq(seg, m + 1, e)) = IF m + 1 <= e THEN e - (m + 1) + 1 ELSE 0
        /\ \A k \in 1 .. e - (m + 1) + 1 : SubSeq(seg, m + 1, e)[k] = seg[(m + 1) + k - 1]
    <3> HIDE DEF m, e, T
    <3> QED
      BY <2>1, SubSeqProperties
  <2> DEFINE z == SubSeq(seg, m + 1, e)
  <2> HIDE DEF z
  <2>3. z \in Seq(T) /\ Len(z) = Len(n) /\ n \in Seq(T)
    BY <2>1, <2>2, <1>1 DEF z
  <2>4. ASSUME NEW k \in 1 .. Len(z) PROVE z[k] = n[k]
    <3>1. k \in 1 .. e - (m + 1) + 1 /\ (m + 1) + k - 1 = Len(p) + 1 + k /\ k \in 1 .. Len(n)
      BY <2>1, <2>3, <1>1
    <3> QED
      BY <2>2, <1>2, <3>1 DEF z
  <2>5. z = n
    <3> HIDE DEF T
    <3> QED
      BY <2>3, <2>4, SeqEqual
  <2> QED
    BY <2>5 DEF z
<1>13. SubSeq(seg, e + 1, Len(seg)) = q
  <2>1. /\ e + 1 \in Int /\ Len(seg) \in Int /\ Len(seg) - (e + 1) + 1 = Len(q)
        /\ e + 1 <= Len(seg) <=> Len(q) > 0
        /\ \A k \in e + 1 .. Len(seg) : seg[k] \in T
    BY <1>1, <1>2, <1>10
  <2>2. /\ SubSeq(seg, e + 1, Len(seg)) \in Seq(T)
        /\ Len(SubSeq(seg, e + 1, Len(seg))) = IF e + 1 <= Len(seg) THEN Len(seg) - (e + 1) + 1 ELSE 0
        /\ \A k \in 1 .. Len(seg) - (e + 1) + 1 : SubSeq(seg, e + 1, Len(seg))[k] = seg[(e + 1) + k - 1]
    <3> HIDE DEF e, T
    <3> QED
      BY <2>1, SubSeqProperties
  <2> DEFINE z == SubSeq(seg, e + 1, Len(seg))
  <2> HIDE DEF z
  <2>3. z \in Seq(T) /\ Len(z) = Len(q) /\ q \in Seq(T)
    BY <2>1, <2>2, <1>1 DEF z
  <2>4. ASSUME NEW k \in 1 .. Len(z) PROVE z[k] = q[k]
    <3>1. k \in 1 .. Len(seg) - (e + 1) + 1 /\ (e + 1) + k - 1 = Len(p) + 1 + Len(n) + k /\ k \in 1 .. Len(q)
      BY <2>1, <2>3, <1>1
    <3> QED
      BY <2>2, <1>2, <3>1 DEF z
  <2>5. z = q
    <3> HIDE DEF T
    <3> QED
      BY <2>3, <2>4, SeqEqual
  <2> QED
    BY <2>5 DEF z
<1> QED
  BY <1>9, <1>11, <1>12, <1>13 DEF seg

\* Core reads what the document declares of a segment.
LEMMA SegmentCompiles ==
    ASSUME NEW s, IsSegment(s)
    PROVE  Compile(Converted(s)) = Declared(s)
<1> DEFINE S == ToSet(s)
           d == Declared(s)
<1>1. IsCut(s, d) /\ s \in Seq(S) /\ ":" \notin S
  BY DeclaredIs DEF IsSegment
<1> HIDE DEF d, S
<1>2. /\ d = [pre |-> d.pre, name |-> d.name, post |-> d.post]
      /\ d.pre \in Seq(S) /\ d.name \in Seq(S) /\ d.post \in Seq(S)
  BY <1>1 DEF IsCut, S
<1>3. CASE d.name = <<>>
  <2>1. d = [pre |-> s, name |-> <<>>, post |-> <<>>] /\ Converted(s) = s
    BY <1>1, <1>2, <1>3 DEF IsCut, Converted, d
  <2> QED
    BY <1>1, <2>1, CompileLiteral DEF d
<1>4. CASE d.name # <<>>
  <2>1. /\ Len(d.name) > 0
        /\ \A k \in 1 .. Len(d.name) : d.name[k] \in NameTokens
        /\ Len(d.post) > 0 => d.post[1] \notin NameTokens
    BY <1>1, <1>2, <1>4, EmptySeq DEF IsCut
  <2>2. Compile(d.pre \o <<":">> \o d.name \o d.post)
          = [pre |-> d.pre, name |-> d.name, post |-> d.post]
    BY <1>1, <1>2, <2>1, CompileParam
  <2>3. Converted(s) = d.pre \o <<":">> \o d.name \o d.post
    BY <1>4 DEF Converted, d
  <2> QED
    BY <1>2, <2>2, <2>3 DEF d
<1> QED
  BY <1>3, <1>4

LEMMA ColonFirst ==
    ASSUME NEW S, ":" \notin S, NEW p \in Seq(S), NEW n \in Seq(S), NEW q \in Seq(S)
    PROVE  LET seg == p \o <<":">> \o n \o q IN
           /\ IsParam(seg) <=> p = <<>>
           /\ p = <<>> => Tail(seg) = n \o q
<1> DEFINE T == S \cup {":"}
           seg == p \o <<":">> \o n \o q
           w == n \o q
           z == Tail(seg)
<1>1. Len(p) \in Nat /\ Len(n) \in Nat /\ Len(q) \in Nat
  OBVIOUS
<1>2. /\ seg \in Seq(T) /\ Len(seg) = Len(p) + 1 + Len(n) + Len(q)
      /\ \A k \in 1 .. Len(p) : seg[k] = p[k]
      /\ seg[Len(p) + 1] = ":"
      /\ \A k \in 1 .. Len(n) : seg[Len(p) + 1 + k] = n[k]
      /\ \A k \in 1 .. Len(q) : seg[Len(p) + 1 + Len(n) + k] = q[k]
  BY ConvertedPlaces
<1> HIDE DEF seg
<1>3. Head(seg) = seg[1] /\ seg # <<>>
  <2>1. Len(seg) > 0
    BY <1>1, <1>2
  <2> HIDE DEF T
  <2> QED
    BY <1>2, <2>1, HeadIs
<1>4. CASE p = <<>>
  <2>1. Len(p) = 0
    BY <1>4
  <2>2. Head(seg) = ":"
    BY <1>2, <1>3, <2>1
  <2>3. /\ w \in Seq(S) /\ Len(w) = Len(n) + Len(q)
        /\ \A k \in 1 .. Len(n) + Len(q) :
              w[k] = IF k <= Len(n) THEN n[k] ELSE q[k - Len(n)]
    BY ConcatProperties
  <2>4. /\ z \in Seq(T) /\ Len(z) = Len(seg) - 1
        /\ \A k \in 1 .. Len(z) : z[k] = seg[k + 1]
    <3> HIDE DEF T
    <3> QED
      BY <1>2, <1>3, HeadTailProperties
  <2> HIDE DEF w, z
  <2>5. w \in Seq(T)
    BY <2>3
  <2>6. Len(w) = Len(z)
    BY <1>1, <1>2, <2>1, <2>3, <2>4
  <2>7. ASSUME NEW k \in 1 .. Len(z) PROVE z[k] = w[k]
    <3>1. k \in 1 .. Len(n) + Len(q)
      BY <1>1, <2>3, <2>6
    <3>2. CASE k <= Len(n)
      <4>1. k \in 1 .. Len(n) /\ Len(p) + 1 + k = k + 1
        BY <1>1, <2>1, <3>1, <3>2
      <4>2. seg[k + 1] = n[k]
        BY <1>2, <4>1
      <4> QED
        BY <2>3, <2>4, <3>1, <3>2, <4>2
    <3>3. CASE ~(k <= Len(n))
      <4>1. /\ k - Len(n) \in 1 .. Len(q)
            /\ Len(p) + 1 + Len(n) + (k - Len(n)) = k + 1
        BY <1>1, <2>1, <3>1, <3>3
      <4>2. seg[k + 1] = q[k - Len(n)]
        BY <1>2, <4>1
      <4> QED
        BY <2>3, <2>4, <3>1, <3>3, <4>2
    <3> QED
      BY <3>2, <3>3
  <2>8. z = w
    <3> HIDE DEF T
    <3> QED
      BY <2>4, <2>5, <2>6, <2>7, SeqEqual
  <2> QED
    BY <1>4, <2>2, <2>8 DEF IsParam, seg, w, z
<1>5. CASE p # <<>>
  <2>1. Len(p) > 0
    BY <1>5, EmptySeq
  <2>2. seg[1] = p[1] /\ p[1] \in S
    BY <1>1, <1>2, <2>1
  <2> QED
    BY <1>3, <1>5, <2>2 DEF IsParam, seg
<1> QED
  BY <1>4, <1>5

\* A converted segment that starts with a colon is a parameter, and its tail is
\* the name with what comes after it.
LEMMA ParamIs ==
    ASSUME NEW s, IsSegment(s)
    PROVE  LET d == Declared(s) IN
           /\ IsParam(Converted(s)) <=> d.name # <<>> /\ d.pre = <<>>
           /\ IsParam(Converted(s)) => Tail(Converted(s)) = d.name \o d.post
<1> DEFINE S == ToSet(s)
           d == Declared(s)
<1>1. IsCut(s, d) /\ s \in Seq(S) /\ s # <<>> /\ ":" \notin S
  BY DeclaredIs DEF IsSegment
<1> HIDE DEF d, S
<1>2. d.pre \in Seq(S) /\ d.name \in Seq(S) /\ d.post \in Seq(S)
  BY <1>1 DEF IsCut, S
<1>3. CASE d.name = <<>>
  <2>1. Converted(s) = s
    BY <1>1, <1>3 DEF IsCut, Converted, d
  <2>2. Head(s) \in S
    BY <1>1, HeadTailProperties
  <2> QED
    BY <1>1, <1>3, <2>1, <2>2 DEF IsParam, d
<1>4. CASE d.name # <<>>
  <2>1. Converted(s) = d.pre \o <<":">> \o d.name \o d.post
    BY <1>4 DEF Converted, d
  <2>2. /\ IsParam(d.pre \o <<":">> \o d.name \o d.post) <=> d.pre = <<>>
        /\ d.pre = <<>> => Tail(d.pre \o <<":">> \o d.name \o d.post) = d.name \o d.post
    <3>1. ":" \notin S
      BY <1>1
    <3>2. ASSUME NEW p \in Seq(S), NEW n \in Seq(S), NEW q \in Seq(S)
          PROVE  /\ IsParam(p \o <<":">> \o n \o q) <=> p = <<>>
                 /\ p = <<>> => Tail(p \o <<":">> \o n \o q) = n \o q
      BY <3>1, ColonFirst
    <3> QED
      BY <1>2, <3>2, Zenon
  <2> QED
    BY <1>4, <2>1, <2>2 DEF d
<1> QED
  BY <1>3, <1>4

-----------------------------------------------------------------------------
(* Paths and the operations registered for them. *)

\* The segments of an operation, as the document writes them.
Segments(i) == document[i].path.segments

LEMMA SegmentsAre ==
    ASSUME IsSurface(document), NEW i \in DOMAIN document
    PROVE  /\ Segments(i) \in Seq(ToSet(Segments(i)))
           /\ Len(Segments(i)) \in Nat /\ DOMAIN Segments(i) = 1 .. Len(Segments(i))
           /\ \A k \in DOMAIN Segments(i) : IsSegment(Segments(i)[k])
           /\ \A j, k \in DOMAIN Segments(i) :
                 Declared(Segments(i)[j]).name = Declared(Segments(i)[k]).name =>
                    j = k \/ Declared(Segments(i)[j]).name = <<>>
<1> DEFINE o == document[i]
           segments == o.path.segments
<1>1. o \in ToSet(document)
  BY DEF ToSet
<1>2. /\ segments \in Seq(ToSet(segments))
      /\ \A s \in ToSet(segments) : IsSegment(s)
      /\ \A j, k \in DOMAIN segments :
            Declared(segments[j]).name = Declared(segments[k]).name =>
               j = k \/ Declared(segments[j]).name = <<>>
  <2> HIDE DEF o
  <2> QED
    BY <1>1, Zenon DEF IsSurface
<1>3. \A k \in DOMAIN segments : segments[k] \in ToSet(segments)
  BY DEF ToSet
<1> HIDE DEF segments
<1>4. Len(segments) \in Nat /\ DOMAIN segments = 1 .. Len(segments)
  BY <1>2
<1> QED
  BY <1>2, <1>3, <1>4, Zenon DEF Segments, segments

LEMMA PathIs ==
    ASSUME IsSurface(document), NEW i \in DOMAIN document
    PROVE  /\ Path(i) = [segments |-> [k \in DOMAIN Segments(i) |-> Converted(Segments(i)[k])],
                         slash |-> document[i].path.slash]
           /\ DOMAIN Path(i).segments = 1 .. Len(Segments(i))
           /\ Len(Path(i).segments) = Len(Segments(i))
           /\ \A k \in DOMAIN Segments(i) : Path(i).segments[k] = Converted(Segments(i)[k])
           /\ Path(i).segments \in Seq({Converted(Segments(i)[k]) : k \in DOMAIN Segments(i)})
<1> DEFINE p == document[i].path
           list == [k \in DOMAIN Segments(i) |-> Converted(Segments(i)[k])]
<1>1. p = [segments |-> Segments(i), slash |-> p.slash]
  <2>1. document[i] \in ToSet(document)
    BY DEF ToSet
  <2> QED
    BY <2>1, Zenon DEF IsSurface, Segments
<1>2. Path(i) = [p EXCEPT !.segments = list]
  BY DEF Path, ConvertPathTemplate, Converted, Segments
<1>3. Path(i) = [segments |-> list, slash |-> p.slash]
  <2> HIDE DEF p, list
  <2> QED
    BY <1>1, <1>2
<1>4. Len(Segments(i)) \in Nat /\ DOMAIN Segments(i) = 1 .. Len(Segments(i))
  BY SegmentsAre
<1>5. DOMAIN list = 1 .. Len(Segments(i)) /\ Len(list) = Len(Segments(i))
      /\ list \in Seq({Converted(Segments(i)[k]) : k \in DOMAIN Segments(i)})
  BY <1>4
<1>6. \A k \in DOMAIN Segments(i) : list[k] = Converted(Segments(i)[k])
  OBVIOUS
<1> HIDE DEF list, p
<1>7. Path(i).segments = list
  BY <1>3
<1> QED
  BY <1>3, <1>5, <1>6, <1>7 DEF list, p

\* Core searches with the parameters that the document declares.
LEMMA PatternIs ==
    ASSUME IsSurface(document), NEW a, a.at \in DOMAIN document
    PROVE  /\ RouteOf(a).pattern = Template(a.at)
           /\ RouteOf(a).method = document[a.at].method
           /\ RouteOf(a).serves = a
<1> DEFINE i == a.at
           list == Path(i).segments
<1>1. /\ DOMAIN list = 1 .. Len(Segments(i))
      /\ \A k \in DOMAIN Segments(i) : list[k] = Converted(Segments(i)[k])
  BY PathIs
<1>2. /\ DOMAIN Segments(i) = 1 .. Len(Segments(i))
      /\ \A k \in DOMAIN Segments(i) : IsSegment(Segments(i)[k])
  BY SegmentsAre
<1>3. \A k \in DOMAIN Segments(i) : Compile(list[k]) = Declared(Segments(i)[k])
  BY <1>1, <1>2, SegmentCompiles
<1>4. RouteOf(a).pattern = [k \in DOMAIN list |-> Compile(list[k])]
  BY DEF RouteOf
<1>5. Template(i) = [k \in DOMAIN Segments(i) |-> Declared(Segments(i)[k])]
  BY DEF Template, Segments
<1> HIDE DEF i, list
<1>6. RouteOf(a).pattern = Template(i)
  BY <1>1, <1>2, <1>3, <1>4, <1>5
<1> QED
  BY <1>6 DEF i, RouteOf

\* A registration stands for an operation, one of a resource if it is not static.
LEMMA RegistrationIs ==
    ASSUME NEW a \in Registrations
    PROVE  /\ a.at \in DOMAIN document
           /\ a.kind # "static" =>
                 \E base \in Bases :
                    a.at \in Group(base) /\ Serves(base, a.at) /\ a = Crud(base, a.at)
<1>1. CASE a \in UNION {{Crud(base, i) : i \in {g \in Group(base) : Serves(base, g)}} : base \in Bases}
  <2>0. PICK base \in Bases : a \in {Crud(base, i) : i \in {g \in Group(base) : Serves(base, g)}}
    BY <1>1
  <2>1. PICK i \in Group(base) : Serves(base, i) /\ a = Crud(base, i)
    BY <2>0
  <2>2. a.at = i /\ i \in DOMAIN document
    BY <2>1 DEF Crud, Group
  <2> QED
    BY <2>1, <2>2
<1>2. CASE a \in {Static(i) : i \in Rootless \cup UNION {Leftovers(base) : base \in Bases}}
  <2>1. PICK i \in Rootless \cup UNION {Leftovers(base) : base \in Bases} : a = Static(i)
    BY <1>2
  <2>2. i \in DOMAIN document
    BY DEF Rootless, Leftovers, Group
  <2> QED
    BY <2>1, <2>2 DEF Static
<1> QED
  <2> DEFINE A == UNION {{Crud(base, i) : i \in {g \in Group(base) : Serves(base, g)}} : base \in Bases}
             B == {Static(i) : i \in Rootless \cup UNION {Leftovers(base) : base \in Bases}}
  <2>1. Registrations = A \cup B
    BY DEF Registrations
  <2> HIDE DEF A, B
  <2>2. a \in A \/ a \in B
    BY <2>1
  <2> QED
    BY <1>1, <1>2, <2>2 DEF A, B

LEMMA StaticRegistered ==
    ASSUME NEW i \in Rootless \cup UNION {Leftovers(base) : base \in Bases}
    PROVE  Static(i) \in Registrations /\ Static(i).at = i
<1> DEFINE B == {Static(j) : j \in Rootless \cup UNION {Leftovers(base) : base \in Bases}}
<1>1. B \subseteq Registrations
  BY DEF Registrations
<1>2. Static(i) \in B
  OBVIOUS
<1>3. Static(i) \in Registrations
  <2> HIDE DEF B
  <2> QED
    BY <1>1, <1>2
<1>4. Static(i).at = i
  BY DEF Static
<1> QED
  BY <1>3, <1>4

\* No operation is lost.
LEMMA Registered ==
    ASSUME NEW i \in DOMAIN document
    PROVE  \E a \in Registrations : a.at = i
<1>1. CASE CollectionPath(Path(i)) = {}
  <2>1. i \in Rootless
    BY <1>1 DEF Rootless
  <2>2. Static(i) \in Registrations /\ Static(i).at = i
    BY <2>1, StaticRegistered
  <2> QED
    BY <2>2
<1>2. CASE CollectionPath(Path(i)) # {}
  <2>1. PICK base : CollectionPath(Path(i)) = {base}
    BY <1>2 DEF CollectionPath
  <2>2. base \in Bases /\ i \in Group(base)
    BY <2>1 DEF Bases, Group
  <2>3. CASE Serves(base, i)
    <3>1. Crud(base, i) \in Registrations /\ Crud(base, i).at = i
      <4>1. Crud(base, i) \in {Crud(base, j) : j \in {g \in Group(base) : Serves(base, g)}}
        BY <2>2, <2>3
      <4>2. Crud(base, i) \in Registrations
        BY <2>2, <4>1, Zenon DEF Registrations
      <4> QED
        BY <4>2 DEF Crud
    <3> QED
      BY <3>1
  <2>4. CASE ~Serves(base, i)
    <3>1. i \in Leftovers(base)
      BY <2>2, <2>4 DEF Leftovers
    <3>2. i \in UNION {Leftovers(b) : b \in Bases}
      BY <2>2, <3>1
    <3>3. Static(i) \in Registrations /\ Static(i).at = i
      BY <3>2, StaticRegistered
    <3> QED
      BY <3>3
  <2> QED
    BY <2>3, <2>4
<1> QED
  BY <1>1, <1>2

-----------------------------------------------------------------------------
(* The order of the registrations and the table. *)

\* Of some registrations one is the first.
LEMMA FirstExists ==
    ASSUME IsSurface(document), NEW S, S \subseteq Registrations, S # {}
    PROVE  \E a \in S : \A b \in S : ~Precedes(b, a)
<1> DEFINE KindRank(r) == IF r.kind # "static" THEN 1 ELSE IF r.at \in Rootless THEN 2 ELSE 3
           Opener(r) == Min({i \in DOMAIN document :
                                CollectionPath(Path(i)) = CollectionPath(Path(r.at))})
<1>1. DOMAIN document \subseteq Nat
  <2>1. document \in Seq(ToSet(document))
    BY Zenon DEF IsSurface
  <2> QED
    BY <2>1
<1>2. \A a, b : Precedes(a, b) <=>
          \/ KindRank(a) < KindRank(b)
          \/ KindRank(a) = KindRank(b) /\ Opener(a) < Opener(b)
          \/ KindRank(a) = KindRank(b) /\ Opener(a) = Opener(b) /\ a.at < b.at
  BY Zenon DEF Precedes
<1>3. \A a \in S : a.at \in DOMAIN document /\ a.at \in Nat
  BY <1>1, RegistrationIs
<1>4. \A a \in S : KindRank(a) \in Nat
  OBVIOUS
<1>5. ASSUME NEW a \in S PROVE Opener(a) \in Nat
  <2> DEFINE same == {i \in DOMAIN document :
                         CollectionPath(Path(i)) = CollectionPath(Path(a.at))}
  <2>1. same \in SUBSET Nat /\ same # {}
    BY <1>1, <1>3
  <2>2. Min(same) \in Nat
    <3> HIDE DEF same
    <3> QED
      BY <2>1, MinIs
  <2> QED
    BY <2>2
<1> HIDE DEF KindRank, Opener
<1>6. PICK t \in {KindRank(a) : a \in S} : \A u \in {KindRank(a) : a \in S} : t <= u
  <2>1. {KindRank(a) : a \in S} \in SUBSET Nat /\ {KindRank(a) : a \in S} # {}
    BY <1>4
  <2> QED
    BY <2>1, LeastNat
<1> DEFINE A == {a \in S : KindRank(a) = t}
<1>7. PICK o \in {Opener(a) : a \in A} : \A u \in {Opener(a) : a \in A} : o <= u
  <2>1. {Opener(a) : a \in A} \in SUBSET Nat /\ {Opener(a) : a \in A} # {}
    BY <1>5, <1>6
  <2> HIDE DEF A
  <2> QED
    BY <2>1, LeastNat
<1> DEFINE B == {a \in A : Opener(a) = o}
<1>8. PICK p \in {a.at : a \in B} : \A u \in {a.at : a \in B} : p <= u
  <2>1. {a.at : a \in B} \in SUBSET Nat /\ {a.at : a \in B} # {}
    BY <1>3, <1>7
  <2> HIDE DEF B
  <2> QED
    BY <2>1, LeastNat
<1>9. PICK a \in B : a.at = p
  BY <1>8
<1>10. a \in S /\ KindRank(a) = t /\ Opener(a) = o
  BY <1>9
<1>11. ASSUME NEW b \in S, Precedes(b, a)
       PROVE  FALSE
  <2>1. t <= KindRank(b) /\ t \in Nat /\ KindRank(b) \in Nat
    BY <1>4, <1>6
  <2>2. KindRank(b) = t => o <= Opener(b) /\ o \in Nat /\ Opener(b) \in Nat
    BY <1>5, <1>7
  <2>3. KindRank(b) = t /\ Opener(b) = o => p <= b.at /\ p \in Nat /\ b.at \in Nat
    BY <1>3, <1>8
  <2>4. \/ KindRank(b) < KindRank(a)
        \/ KindRank(b) = KindRank(a) /\ Opener(b) < Opener(a)
        \/ KindRank(b) = KindRank(a) /\ Opener(b) = Opener(a) /\ b.at < a.at
    BY <1>2, <1>11
  <2> QED
    BY <1>9, <1>10, <2>1, <2>2, <2>3, <2>4
<1> QED
  BY <1>10, <1>11

\* A route of the table is that of a registration.
LEMMA TableIs ==
    ASSUME IsSurface(document), NEW h \in Table
    PROVE  /\ h.serves \in Registrations /\ h.serves.at \in DOMAIN document
           /\ h.method = document[h.serves.at].method
           /\ h.pattern = Template(h.serves.at)
<1>1. PICK a \in Registrations : h = RouteOf(a)
  BY DEF Table
<1>2. a.at \in DOMAIN document
  BY RegistrationIs
<1> QED
  BY <1>1, <1>2, PatternIs

\* What an operation accepts has a route.
LEMMA InTable ==
    ASSUME IsSurface(document), NEW i \in DOMAIN document
    PROVE  \E h \in Table : h.method = document[i].method /\ h.pattern = Template(i)
<1>1. PICK a \in Registrations : a.at = i
  BY Registered
<1> DEFINE S == {b \in Registrations : RouteOf(b).key = RouteOf(a).key}
<1>2. PICK b \in S : \A c \in S : ~Precedes(c, b)
  <2>1. S \subseteq Registrations /\ a \in S
    OBVIOUS
  <2> HIDE DEF S
  <2> QED
    BY <2>1, FirstExists
<1>3. b \in Registrations /\ RouteOf(b).key = RouteOf(a).key
  OBVIOUS
<1>4. \A c \in Registrations : RouteOf(c).key = RouteOf(b).key => ~Precedes(c, b)
  BY <1>2, <1>3
<1>5. RouteOf(b) \in Table
  BY <1>3, <1>4 DEF Table
<1>6. RouteOf(b).method = RouteOf(a).method /\ RouteOf(b).pattern = RouteOf(a).pattern
  <2>1. /\ RouteOf(a).key = <<document[a.at].method, Path(a.at).segments>>
        /\ RouteOf(b).key = <<document[b.at].method, Path(b.at).segments>>
    BY DEF RouteOf
  <2>2. document[a.at].method = document[b.at].method /\ Path(a.at).segments = Path(b.at).segments
    BY <1>3, <2>1
  <2> QED
    BY <2>2 DEF RouteOf
<1>7. RouteOf(a).method = document[i].method /\ RouteOf(a).pattern = Template(i)
  BY <1>1, PatternIs
<1> QED
  BY <1>5, <1>6, <1>7

-----------------------------------------------------------------------------
(* What the generator of a route reads. *)

\* A request is a sequence of texts.
IsUrl(url) ==
    url \in Seq(ToSet(url)) /\ \A k \in DOMAIN url : url[k] \in Seq(ToSet(url[k]))

LEMMA SubSeqWhole ==
    ASSUME NEW S, NEW s \in Seq(S)
    PROVE  SubSeq(s, 1, Len(s)) = s
<1> DEFINE z == SubSeq(s, 1, Len(s))
<1>1. Len(s) \in Nat /\ \A k \in 1 .. Len(s) : s[k] \in S
  OBVIOUS
<1>2. /\ z \in Seq(S)
      /\ Len(z) = IF 1 <= Len(s) THEN Len(s) - 1 + 1 ELSE 0
      /\ \A k \in 1 .. Len(s) - 1 + 1 : z[k] = s[1 + k - 1]
  <2>1. 1 \in Int /\ Len(s) \in Int
    BY <1>1
  <2> QED
    BY <1>1, <2>1, SubSeqProperties
<1> HIDE DEF z
<1>3. Len(z) = Len(s)
  BY <1>1, <1>2
<1>4. ASSUME NEW k \in 1 .. Len(z) PROVE z[k] = s[k]
  <2>1. k \in 1 .. Len(s) - 1 + 1 /\ 1 + k - 1 = k
    BY <1>1, <1>3
  <2> QED
    BY <1>2, <2>1
<1>5. z = s
  BY <1>2, <1>3, <1>4, SeqEqual
<1> QED
  BY <1>5 DEF z

LEMMA FrontIs ==
    ASSUME NEW S, NEW s \in Seq(S), Len(s) > 0
    PROVE  /\ DOMAIN Front(s) = 1 .. Len(s) - 1
           /\ \A k \in 1 .. Len(s) - 1 : Front(s)[k] = s[k]
<1> DEFINE z == Front(s)
<1>1. Len(s) \in Nat /\ \A k \in 1 .. Len(s) - 1 : s[k] \in S
  OBVIOUS
<1>2. /\ z \in Seq(S)
      /\ Len(z) = IF 1 <= Len(s) - 1 THEN (Len(s) - 1) - 1 + 1 ELSE 0
      /\ \A k \in 1 .. (Len(s) - 1) - 1 + 1 : z[k] = s[1 + k - 1]
  <2>1. 1 \in Int /\ Len(s) - 1 \in Int
    BY <1>1
  <2> QED
    BY <1>1, <2>1, SubSeqProperties DEF Front
<1> HIDE DEF z
<1>3. Len(z) = Len(s) - 1
  <2>1. CASE Len(s) = 1
    BY <1>2, <2>1
  <2>2. CASE Len(s) # 1
    <3>0. ASSUME NEW l \in Nat, l > 0, l # 1 PROVE 1 <= l - 1 /\ (l - 1) - 1 + 1 = l - 1
      BY <3>0
    <3>1. 1 <= Len(s) - 1 /\ (Len(s) - 1) - 1 + 1 = Len(s) - 1
      BY <1>1, <2>2, <3>0
    <3> QED
      BY <1>2, <3>1
  <2> QED
    BY <2>1, <2>2
<1>4. ASSUME NEW k \in 1 .. Len(s) - 1 PROVE z[k] = s[k]
  <2>1. k \in 1 .. (Len(s) - 1) - 1 + 1 /\ 1 + k - 1 = k
    BY <1>1
  <2> QED
    BY <1>2, <2>1
<1>5. DOMAIN z = 1 .. Len(s) - 1
  BY <1>2, <1>3
<1> QED
  BY <1>4, <1>5 DEF z

\* An item path is one segment longer than its collection.
LEMMA ItemIs ==
    ASSUME IsSurface(document), NEW base, NEW i \in Group(base), {Path(i)} = ItemPath(base)
    PROVE  /\ Len(Path(i).segments) > 0
           /\ IsParam(Last(Path(i).segments))
           /\ base.segments = Front(Path(i).segments)
<1> DEFINE items == {j \in Group(base) : Len(Path(j).segments) > Len(base.segments)}
<1>1. i \in DOMAIN document /\ CollectionPath(Path(i)) = {base}
  BY DEF Group
<1>2. items # {} /\ Path(i) = Path(Min(items))
  <2> HIDE DEF items
  <2>1. {Path(i)} = {Path(Min(s)) : s \in {items} \ {{}}}
    BY DEF ItemPath, items
  <2> QED
    BY <2>1
<1>3. Min(items) \in items
  <2>1. document \in Seq(ToSet(document))
    BY Zenon DEF IsSurface
  <2>2. DOMAIN document \subseteq Nat
    BY <2>1
  <2>3. items \in SUBSET Nat
    BY <2>2 DEF Group
  <2> HIDE DEF items
  <2> QED
    BY <1>2, <2>3, MinIs
<1>4. Len(Path(i).segments) > Len(base.segments)
  BY <1>2, <1>3
<1>5. Path(i).segments # <<>>
  BY <1>1 DEF CollectionPath
<1>6. base.segments = IF IsParam(Last(Path(i).segments)) THEN Front(Path(i).segments)
                                                         ELSE Path(i).segments
  <2> DEFINE p == Path(i)
             w == IF IsParam(Last(p.segments)) THEN Front(p.segments) ELSE p.segments
  <2>1. {base} = {[segments |-> w, slash |-> FALSE]}
    BY <1>1, <1>5 DEF CollectionPath
  <2> HIDE DEF w
  <2>2. base.segments = w
    BY <2>1
  <2> QED
    BY <2>2 DEF w
<1>7. Len(Path(i).segments) \in Nat
  BY <1>1, PathIs, SegmentsAre
<1>8. Len(Path(i).segments) > 0
  BY <1>1, <1>5, <1>7, PathIs, EmptySeq
<1> QED
  BY <1>4, <1>6, <1>7, <1>8

\* Which parameters a resource takes for the identifier and for the collection.
LEMMA CrudIs ==
    ASSUME IsSurface(document), NEW base, NEW i \in Group(base), Serves(base, i)
    PROVE  LET a == Crud(base, i)
               last == Len(Segments(i)) IN
           /\ a.scope = ParentParamNames(base)
           /\ a.kind \in {"list", "create"} => base.segments = Path(i).segments
           /\ a.kind \notin {"list", "create"} =>
                 /\ last > 0
                 /\ IsParam(Converted(Segments(i)[last]))
                 /\ base.segments = Front(Path(i).segments)
                 /\ a.id = {Tail(Converted(Segments(i)[last]))}
<1> DEFINE a == Crud(base, i)
           last == Len(Segments(i))
<1>1. a.scope = ParentParamNames(base) /\ a.kind = Role(base, i)
  BY DEF Crud
<1>2. i \in DOMAIN document
  BY DEF Group
<1>3. Role(base, i) # "static"
  BY DEF Serves
<1>4. CASE Role(base, i) \in {"list", "create"}
  <2>1. Path(i) = base
    BY <1>4 DEF Role
  <2> QED
    BY <1>1, <1>4, <2>1
<1>5. CASE Role(base, i) \notin {"list", "create"}
  <2>1. {Path(i)} = ItemPath(base)
    BY <1>3, <1>5 DEF Role
  <2>2. /\ Len(Path(i).segments) > 0
        /\ IsParam(Last(Path(i).segments))
        /\ base.segments = Front(Path(i).segments)
    BY <2>1, ItemIs
  <2>3. /\ Len(Path(i).segments) = last
        /\ last \in Nat /\ DOMAIN Segments(i) = 1 .. last
        /\ \A k \in DOMAIN Segments(i) : Path(i).segments[k] = Converted(Segments(i)[k])
    BY <1>2, PathIs, SegmentsAre
  <2>4. last > 0 /\ Last(Path(i).segments) = Converted(Segments(i)[last])
    BY <2>2, <2>3 DEF Last
  <2>5. a.id = {Tail(Last(path.segments)) : path \in ItemPath(base)}
    BY <1>5 DEF Crud
  <2>6. a.id = {Tail(Last(path.segments)) : path \in {Path(i)}}
    BY <2>1, <2>5
  <2>7. a.id = {Tail(Last(Path(i).segments))}
    BY <2>6
  <2> QED
    BY <1>1, <1>5, <2>2, <2>4, <2>7
<1> QED
  BY <1>4, <1>5

LEMMA TemplateIs ==
    ASSUME IsSurface(document), NEW i \in DOMAIN document
    PROVE  /\ DOMAIN Template(i) = DOMAIN Segments(i)
           /\ Len(Template(i)) = Len(Segments(i))
           /\ \A k \in DOMAIN Segments(i) : Template(i)[k] = Declared(Segments(i)[k])
<1>1. DOMAIN Segments(i) = 1 .. Len(Segments(i)) /\ Len(Segments(i)) \in Nat
  BY SegmentsAre
<1>2. Template(i) = [k \in DOMAIN Segments(i) |-> Declared(Segments(i)[k])]
  BY DEF Template, Segments
<1> QED
  BY <1>1, <1>2

\* The value of a parameter that fills its segment is that segment.
LEMMA ValueIs ==
    ASSUME IsSurface(document), NEW h, NEW i \in DOMAIN document, h.pattern = Template(i),
           NEW url, IsUrl(url), MatchesAll(Template(i), url), WholeSegments(i),
           NEW k \in ParamsOf(i)
    PROVE  ParamValue(h, url, Template(i)[k].name) = {url[k]}
<1> DEFINE name == Template(i)[k].name
           named == {j \in DOMAIN url : name # <<>> /\ h.pattern[j].name = name}
           Capture(j) == SubSeq(url[j], Len(h.pattern[j].pre) + 1,
                                Len(url[j]) - Len(h.pattern[j].post))
<1>1. /\ DOMAIN Template(i) = DOMAIN Segments(i)
      /\ Len(Template(i)) = Len(Segments(i))
      /\ \A j \in DOMAIN Segments(i) : Template(i)[j] = Declared(Segments(i)[j])
      /\ DOMAIN Segments(i) = 1 .. Len(Segments(i))
  BY TemplateIs, SegmentsAre
<1>2. DOMAIN url = DOMAIN Segments(i)
  <2>1. url \in Seq(ToSet(url)) /\ Len(url) = Len(Template(i))
    BY Zenon DEF IsUrl, MatchesAll
  <2>2. DOMAIN url = 1 .. Len(url)
    BY <2>1
  <2> QED
    BY <1>1, <2>1, <2>2
<1>3. k \in DOMAIN Segments(i) /\ name # <<>>
  BY <1>1 DEF ParamsOf
<1>4. \A j \in DOMAIN Segments(i) : Template(i)[j].name = name => j = k
  <2>1. \A j \in DOMAIN Segments(i) :
           Declared(Segments(i)[k]).name = Declared(Segments(i)[j]).name =>
              k = j \/ Declared(Segments(i)[k]).name = <<>>
    BY <1>3, SegmentsAre
  <2> QED
    BY <1>1, <1>3, <2>1
<1>5. named = {k}
  BY <1>2, <1>3, <1>4
<1>6. Template(i)[k].pre = <<>> /\ Template(i)[k].post = <<>>
  BY <1>1, <1>3 DEF WholeSegments
<1>7. url[k] \in Seq(ToSet(url[k])) /\ Len(url[k]) \in Nat
  <2>1. url[k] \in Seq(ToSet(url[k]))
    BY <1>2, <1>3 DEF IsUrl
  <2> QED
    BY <2>1
<1>8. Capture(k) = url[k]
  <2>1. Len(h.pattern[k].pre) + 1 = 1 /\ Len(url[k]) - Len(h.pattern[k].post) = Len(url[k])
    BY <1>6, <1>7
  <2>2. SubSeq(url[k], 1, Len(url[k])) = url[k]
    BY <1>7, SubSeqWhole
  <2> QED
    BY <2>1, <2>2
<1>9. ParamValue(h, url, name) = {Capture(j) : j \in {l \in named : \A m \in named : m <= l}}
  BY DEF ParamValue
<1>10. k <= k
  BY <1>1, <1>3
<1>11. {l \in named : \A m \in named : m <= l} = {k}
  <2> HIDE DEF named
  <2> QED
    BY <1>5, <1>10
<1> HIDE DEF named, Capture
<1>12. ParamValue(h, url, name) = {Capture(k)}
  BY <1>9, <1>11
<1> QED
  BY <1>8, <1>12

\* A parameter of a path, in the segments of its collection.
LEMMA ParamHere ==
    ASSUME IsSurface(document), NEW i \in DOMAIN document, WholeSegments(i),
           NEW k \in DOMAIN Segments(i)
    PROVE  /\ IsParam(Converted(Segments(i)[k])) <=> k \in ParamsOf(i)
           /\ k \in ParamsOf(i) => Tail(Converted(Segments(i)[k])) = Template(i)[k].name
<1> DEFINE s == Segments(i)[k]
           d == Template(i)[k]
<1>1. IsSegment(s) /\ d = Declared(s) /\ k \in DOMAIN Template(i)
  BY SegmentsAre, TemplateIs
<1>2. /\ IsParam(Converted(s)) <=> d.name # <<>> /\ d.pre = <<>>
      /\ IsParam(Converted(s)) => Tail(Converted(s)) = d.name \o d.post
  BY <1>1, ParamIs
<1>3. k \in ParamsOf(i) <=> d.name # <<>>
  BY <1>1 DEF ParamsOf
<1>4. d.name # <<>> => d.pre = <<>> /\ d.post = <<>>
  BY <1>1 DEF WholeSegments
<1>5. d.name \o <<>> = d.name
  <2>1. IsCut(s, d)
    BY <1>1, DeclaredIs
  <2>2. d.name \in Seq(ToSet(s))
    BY <2>1 DEF IsCut
  <2> QED
    BY <2>2, ConcatEmptySeq
<1> HIDE DEF s, d
<1>6. k \in ParamsOf(i) => Tail(Converted(s)) = d.name
  BY <1>2, <1>3, <1>4, <1>5
<1> QED
  BY <1>2, <1>3, <1>4, <1>6 DEF s, d

LEMMA ReadsIs ==
    ASSUME IsSurface(document), NEW h \in Table, h.serves.kind # "static",
           NEW r, IsUrl(r.url), MatchesAll(Template(h.serves.at), r.url),
           WholeSegments(h.serves.at)
    PROVE  ReadsItsOwn(r, Reached(h, r.url))
<1> DEFINE a == h.serves
           i == a.at
           url == r.url
           f == Reached(h, url)
           n == Len(Segments(i))
           isItem == a.kind \notin {"list", "create"}
           parents == ParamsOf(i) \ (IF isItem THEN {n} ELSE {})
<1>1. a \in Registrations /\ i \in DOMAIN document /\ h.pattern = Template(i)
  BY TableIs
<1>2. PICK base \in Bases : i \in Group(base) /\ Serves(base, i) /\ a = Crud(base, i)
  BY <1>1, RegistrationIs
<1>3. /\ a.scope = ParentParamNames(base)
      /\ ~isItem => base.segments = Path(i).segments
      /\ isItem =>
            /\ n > 0
            /\ IsParam(Converted(Segments(i)[n]))
            /\ base.segments = Front(Path(i).segments)
            /\ a.id = {Tail(Converted(Segments(i)[n]))}
  BY <1>2, CrudIs
<1>4. /\ n \in Nat /\ DOMAIN Segments(i) = 1 .. n
      /\ DOMAIN Path(i).segments = 1 .. n /\ Len(Path(i).segments) = n
      /\ \A k \in 1 .. n : Path(i).segments[k] = Converted(Segments(i)[k])
      /\ Path(i).segments \in Seq({Converted(Segments(i)[k]) : k \in DOMAIN Segments(i)})
  BY <1>1, SegmentsAre, PathIs
<1>5. /\ f.at = i /\ f.kind = a.kind
      /\ f.id = UNION {ParamValue(h, url, name) : name \in a.id}
      /\ f.scope = [k \in DOMAIN a.scope |-> ParamValue(h, url, a.scope[k])]
  BY DEF Reached
<1>6. Len(url) = n
  <2>1. Len(url) = Len(Template(i))
    BY DEF MatchesAll
  <2> QED
    BY <1>1, <2>1, TemplateIs
<1>7. ASSUME NEW k \in 1 .. n
      PROVE  /\ IsParam(Converted(Segments(i)[k])) <=> k \in ParamsOf(i)
             /\ k \in ParamsOf(i) => Tail(Converted(Segments(i)[k])) = Template(i)[k].name
  BY <1>1, <1>4, ParamHere
<1>8. \A k \in ParamsOf(i) : ParamValue(h, url, Template(i)[k].name) = {url[k]}
  BY <1>1, ValueIs
<1>9. ParamsOf(i) \subseteq 1 .. n
  BY <1>1, <1>4, TemplateIs DEF ParamsOf
<1>10. isItem => f.id = {url[n]}
  <2>1. SUFFICES ASSUME isItem PROVE f.id = {url[n]}
    OBVIOUS
  <2>2. n \in ParamsOf(i) /\ a.id = {Template(i)[n].name}
    <3>1. n \in 1 .. n
      BY <1>3, <1>4, <2>1
    <3> QED
      BY <1>3, <1>7, <2>1, <3>1
  <2>3. f.id = ParamValue(h, url, Template(i)[n].name)
    BY <1>5, <2>2
  <2> QED
    BY <1>8, <2>2, <2>3
<1>11. /\ {k \in DOMAIN base.segments : IsParam(base.segments[k])} = parents
       /\ \A k \in parents : base.segments[k] = Converted(Segments(i)[k])
  <2>1. CASE isItem
    <3>1. /\ DOMAIN base.segments = 1 .. n - 1
          /\ \A k \in 1 .. n - 1 : base.segments[k] = Path(i).segments[k]
      BY <1>3, <1>4, <2>1, FrontIs
    <3>2. \A k \in 1 .. n - 1 : base.segments[k] = Converted(Segments(i)[k])
      BY <1>4, <3>1
    <3>3. parents = {k \in 1 .. n - 1 : k \in ParamsOf(i)}
      BY <1>4, <1>9, <2>1
    <3> HIDE DEF parents
    <3> QED
      BY <1>4, <1>7, <3>1, <3>2, <3>3
  <2>2. CASE ~isItem
    <3>1. \A k \in 1 .. n : base.segments[k] = Converted(Segments(i)[k])
      BY <1>3, <1>4, <2>2
    <3>2. DOMAIN base.segments = 1 .. n
      BY <1>3, <1>4, <2>2
    <3>3. parents = ParamsOf(i)
      BY <2>2
    <3> HIDE DEF parents
    <3> QED
      BY <1>7, <1>9, <3>1, <3>2, <3>3
  <2> QED
    BY <2>1, <2>2
<1>12. a.scope = [k \in parents |-> Template(i)[k].name]
  <2>1. a.scope = [k \in parents |-> Tail(base.segments[k])]
    <3> HIDE DEF parents
    <3> QED
      BY <1>3, <1>11 DEF ParentParamNames
  <2>2. \A k \in parents : Tail(base.segments[k]) = Template(i)[k].name
    <3>1. parents \subseteq ParamsOf(i)
      OBVIOUS
    <3> HIDE DEF parents
    <3> QED
      BY <1>7, <1>9, <1>11, <3>1
  <2> HIDE DEF parents
  <2> QED
    BY <2>1, <2>2
<1>13. f.scope = [k \in parents |-> {url[k]}]
  <2>1. \A k \in parents : ParamValue(h, url, Template(i)[k].name) = {url[k]}
    BY <1>8
  <2>2. f.scope = [k \in DOMAIN a.scope |-> ParamValue(h, url, a.scope[k])]
    BY <1>5
  <2> HIDE DEF parents, f, a, i
  <2>3. DOMAIN a.scope = parents /\ \A k \in parents : a.scope[k] = Template(i)[k].name
    BY <1>12
  <2>4. f.scope = [k \in parents |-> ParamValue(h, url, Template(i)[k].name)]
    BY <2>2, <2>3
  <2> QED
    BY <2>1, <2>4
<1>14. Last(url) = url[n]
  BY <1>6 DEF Last
<1>15. ReadsItsOwn(r, f) <=>
          /\ isItem => f.id = {Last(url)}
          /\ f.scope = [k \in parents |-> {url[k]}]
  BY <1>5, <1>6 DEF ReadsItsOwn
<1> HIDE DEF f, parents, isItem
<1> QED
  BY <1>10, <1>13, <1>14, <1>15 DEF f

\* The route that is found is one that the document declares, and there is one
\* whenever it declares one.
LEMMA FoundIs ==
    ASSUME IsSurface(document), routes = Table, NEW r, IsUrl(r.url)
    PROVE  /\ Found(r) = {} <=> Accepting(r) = {}
           /\ \A f \in Found(r) :
                 /\ f.at \in Accepting(r)
                 /\ Concrete(r) # {} => f.at \in Concrete(r)
                 /\ f.kind # "static" /\ WholeSegments(f.at) => ReadsItsOwn(r, f)
<1> DEFINE hits == Hits(r.method, r.url)
           statics == {h \in hits : ~HasParams(h.pattern)}
           F == FindRoute(r.method, r.url)
<1>1. ASSUME NEW h \in hits
      PROVE  /\ h \in Table /\ h.serves \in Registrations
             /\ h.serves.at \in Accepting(r)
             /\ h.pattern = Template(h.serves.at)
  <2>1. h \in Table /\ h.method = r.method /\ MatchesAll(h.pattern, r.url)
    BY DEF Hits
  <2>2. /\ h.serves \in Registrations /\ h.serves.at \in DOMAIN document
        /\ h.method = document[h.serves.at].method
        /\ h.pattern = Template(h.serves.at)
    BY <2>1, TableIs
  <2> QED
    BY <2>1, <2>2 DEF Accepting
<1>2. ASSUME NEW i \in Accepting(r)
      PROVE  \E h \in hits : h.pattern = Template(i)
  <2>1. i \in DOMAIN document /\ document[i].method = r.method /\ MatchesAll(Template(i), r.url)
    BY DEF Accepting
  <2>2. PICK h \in Table : h.method = document[i].method /\ h.pattern = Template(i)
    BY <2>1, InTable
  <2> QED
    BY <2>1, <2>2 DEF Hits
<1>3. F = IF statics # {} THEN statics ELSE hits
  BY DEF FindRoute
<1> HIDE DEF hits
<1>4. F \subseteq hits /\ (hits # {} => F # {})
  BY <1>3
<1>5. Found(r) = {Reached(h, r.url) : h \in {g \in F : \A o \in F : ~Precedes(o.serves, g.serves)}}
  BY DEF Found
<1> HIDE DEF F, statics
<1>6. F # {} => \E g \in F : \A o \in F : ~Precedes(o.serves, g.serves)
  <2> DEFINE S == {h.serves : h \in F}
  <2>1. SUFFICES ASSUME F # {} PROVE \E g \in F : \A o \in F : ~Precedes(o.serves, g.serves)
    OBVIOUS
  <2>2. S \subseteq Registrations /\ S # {}
    BY <1>1, <1>4, <2>1
  <2>3. PICK a \in S : \A b \in S : ~Precedes(b, a)
    <3> HIDE DEF S
    <3> QED
      BY <2>2, FirstExists
  <2>4. PICK g \in F : a = g.serves
    BY <2>3
  <2> QED
    BY <2>3, <2>4
<1>7. Found(r) = {} <=> F = {}
  BY <1>5, <1>6
<1>8. Found(r) = {} <=> Accepting(r) = {}
  BY <1>1, <1>2, <1>4, <1>7
<1>9. ASSUME NEW f \in Found(r)
      PROVE  /\ f.at \in Accepting(r)
             /\ Concrete(r) # {} => f.at \in Concrete(r)
             /\ f.kind # "static" /\ WholeSegments(f.at) => ReadsItsOwn(r, f)
  <2>1. PICK h \in F : f = Reached(h, r.url)
    BY <1>5
  <2>2. f.at = h.serves.at /\ f.kind = h.serves.kind
    BY <2>1 DEF Reached
  <2>3. /\ h \in hits /\ h \in Table /\ f.at \in Accepting(r)
        /\ h.pattern = Template(f.at)
    BY <1>1, <1>4, <2>1, <2>2
  <2>4. ASSUME Concrete(r) # {}
        PROVE  f.at \in Concrete(r)
    <3>1. PICK c \in Accepting(r) : ~HasParams(Template(c))
      BY <2>4 DEF Concrete
    <3>2. PICK g \in hits : g.pattern = Template(c)
      BY <3>1, <1>2
    <3>3. g \in statics
      BY <3>1, <3>2 DEF statics
    <3>4. ~HasParams(h.pattern)
      BY <1>3, <2>1, <3>3 DEF statics
    <3> QED
      BY <2>3, <3>4 DEF Concrete
  <2>5. ASSUME f.kind # "static", WholeSegments(f.at)
        PROVE  ReadsItsOwn(r, f)
    <3>1. MatchesAll(Template(h.serves.at), r.url)
      BY <2>2, <2>3 DEF Accepting
    <3>2. h.serves.kind # "static" /\ WholeSegments(h.serves.at)
      BY <2>2, <2>5
    <3>3. ReadsItsOwn(r, Reached(h, r.url))
      BY <2>3, <3>1, <3>2, ReadsIs
    <3> QED
      BY <2>1, <3>3
  <2> QED
    BY <2>3, <2>4, <2>5
<1> QED
  BY <1>8, <1>9

-----------------------------------------------------------------------------
(* The routes are those of the document, and what a request found is what the *)
(* document declares.                                                         *)

IsFound(r) ==
    /\ found = {} <=> Accepting(r) = {}
    /\ \A f \in found :
          /\ f.at \in Accepting(r)
          /\ Concrete(r) # {} => f.at \in Concrete(r)
          /\ f.kind # "static" /\ WholeSegments(f.at) => ReadsItsOwn(r, f)

SurfaceInv ==
    \/ stage = "found" /\ asked = {}
    \/ /\ IsSurface(document)
       /\ stage # "load" => routes = Table
       /\ stage = "load" => asked = {}
       /\ \A r \in asked : IsUrl(r.url) /\ asked = {r}
       /\ stage = "found" => \A r \in asked : IsFound(r)

LEMMA TableStays ==
    ASSUME document' = document
    PROVE  Table' = Table
<1>1. \A i : Path(i)' = Path(i)
  BY DEF Path
<1>2. \A base : Group(base)' = Group(base)
  BY <1>1 DEF Group
<1>3. \A base : ItemPath(base)' = ItemPath(base)
  BY <1>1, <1>2 DEF ItemPath
<1>4. \A base, i : Role(base, i)' = Role(base, i)
  BY <1>1, <1>3 DEF Role
<1>5. \A base : IsResource(base)' = IsResource(base)
  BY <1>2, <1>4 DEF IsResource
<1>6. \A base, i : Serves(base, i)' = Serves(base, i)
  BY <1>4, <1>5 DEF Serves
<1>7. \A base, i : Crud(base, i)' = Crud(base, i)
  BY <1>3, <1>4 DEF Crud
<1>8. \A base : Leftovers(base)' = Leftovers(base)
  BY <1>2, <1>6 DEF Leftovers
<1>9. Bases' = Bases /\ Rootless' = Rootless
  BY <1>1 DEF Bases, Rootless
<1>10. Registrations' = Registrations
  BY <1>2, <1>6, <1>7, <1>8, <1>9 DEF Registrations
<1>11. \A a, b : Precedes(a, b)' = Precedes(a, b)
  BY <1>1, <1>9 DEF Precedes
<1>12. \A a : RouteOf(a)' = RouteOf(a)
  BY <1>1 DEF RouteOf
<1> QED
  BY <1>10, <1>11, <1>12 DEF Table

\* The property speaks of the document, the request and what was found.
LEMMA FoundStays ==
    ASSUME document' = document, found' = found, NEW r, IsFound(r)
    PROVE  IsFound(r)'
<1>1. /\ Accepting(r)' = Accepting(r) /\ Concrete(r)' = Concrete(r)
      /\ \A i : WholeSegments(i)' = WholeSegments(i)
      /\ \A f : ReadsItsOwn(r, f)' = ReadsItsOwn(r, f)
  BY DEF Accepting, Concrete, WholeSegments, ReadsItsOwn, ParamsOf, Template
<1> QED
  BY <1>1 DEF IsFound

LEMMA UrlIs ==
    ASSUME IsSurface(document), NEW i \in DOMAIN document, NEW url \in Urls(document[i].path)
    PROVE  IsUrl(url)
<1> DEFINE D == DOMAIN Segments(i)
           Fill(d, value) == IF d.name = <<>> THEN d.pre ELSE d.pre \o value \o d.post
<1>1. PICK values \in [D -> Captured] :
         url = [k \in D |-> Fill(Declared(Segments(i)[k]), values[k])]
  BY Zenon DEF Urls, Segments
<1>2. D = 1 .. Len(Segments(i)) /\ Len(Segments(i)) \in Nat
      /\ \A k \in D : IsSegment(Segments(i)[k])
  BY SegmentsAre
<1>3. ASSUME NEW k \in D PROVE url[k] \in Seq(ToSet(url[k]))
  <2> DEFINE s == Segments(i)[k]
             d == Declared(s)
             v == values[k]
             U == ToSet(s) \cup ToSet(v)
  <2>1. IsCut(s, d)
    BY <1>2, DeclaredIs
  <2>2. v \in Seq(ToSet(v))
    <3>1. v \in Captured
      BY <1>1
    <3> HIDE DEF v
    <3> QED
      BY <3>1, SurfacesAssumption
  <2> HIDE DEF s, d, v
  <2>3. d.pre \in Seq(U) /\ d.post \in Seq(U) /\ v \in Seq(U)
    <3>1. d.pre \in Seq(ToSet(s)) /\ d.post \in Seq(ToSet(s))
      BY <2>1 DEF IsCut
    <3> QED
      BY <2>2, <3>1
  <2>4. Fill(d, v) \in Seq(U)
    <3> HIDE DEF U
    <3>1. d.pre \o v \in Seq(U)
      BY <2>3, ConcatProperties
    <3>2. (d.pre \o v) \o d.post \in Seq(U)
      BY <2>3, <3>1, ConcatProperties
    <3> QED
      BY <2>3, <3>2
  <2>5. url[k] = Fill(d, v)
    BY <1>1 DEF d, s, v
  <2> HIDE DEF Fill, U
  <2>6. url[k] \in Seq(U)
    BY <2>4, <2>5
  <2> DEFINE t == url[k]
  <2> HIDE DEF t
  <2>7. t \in Seq(ToSet(t))
    BY <2>6 DEF ToSet, t
  <2> QED
    BY <2>7 DEF t
<1>4. url \in Seq(ToSet(url)) /\ DOMAIN url = D
  <2> DEFINE n == Len(Segments(i))
  <2>1. n \in Nat /\ DOMAIN url = 1 .. n /\ url = [k \in 1 .. n |-> url[k]]
    BY <1>1, <1>2
  <2>2. \A k \in 1 .. n : url[k] \in ToSet(url)
    BY <2>1 DEF ToSet
  <2> HIDE DEF n
  <2>3. [k \in 1 .. n |-> url[k]] \in Seq(ToSet(url))
    BY <2>1, <2>2, IsASeq
  <2> QED
    BY <1>1, <2>1, <2>3
<1> QED
  BY <1>3, <1>4 DEF IsUrl

LEMMA SurfaceInitially == ASSUME PathInit PROVE SurfaceInv
<1>1. CASE LoadInit
  <2>1. PICK d \in Surfaces : LoadFrom(d)
    BY <1>1 DEF LoadInit
  <2>2. IsSurface(d)
    BY SurfacesAssumption
  <2> QED
    BY <2>1, <2>2 DEF LoadFrom, SurfaceInv
<1>2. CASE LoadFrom(Probe)
  BY <1>2, ProbeAssumption DEF LoadFrom, SurfaceInv
<1>3. CASE stage = "found" /\ asked = {}
  BY <1>3 DEF SurfaceInv
<1> QED
  BY <1>1, <1>2, <1>3 DEF PathInit

LEMMA SurfaceStutter == ASSUME SurfaceInv, UNCHANGED surface PROVE SurfaceInv'
<1>1. document' = document /\ stage' = stage /\ routes' = routes /\ asked' = asked /\ found' = found
  BY DEF surface
<1>2. Table' = Table
  BY <1>1, TableStays
<1>3. \A r : IsFound(r) => IsFound(r)'
  BY <1>1, FoundStays
<1> QED
  BY <1>1, <1>2, <1>3 DEF SurfaceInv

LEMMA InstallServes == ASSUME SurfaceInv, Install PROVE SurfaceInv'
<1>1. /\ stage = "load" /\ stage' = "ready" /\ routes' = Table
      /\ document' = document /\ asked' = asked
  BY DEF Install
<1>2. IsSurface(document) /\ asked = {} /\ Table' = Table
  BY <1>1, TableStays DEF SurfaceInv
<1> QED
  BY <1>1, <1>2 DEF SurfaceInv

LEMMA AskServes == ASSUME SurfaceInv, Ask PROVE SurfaceInv'
<1>1. /\ stage = "ready" /\ stage' = "asked" /\ document' = document /\ routes' = routes
  BY DEF Ask
<1>2. IsSurface(document) /\ routes = Table /\ Table' = Table
  BY <1>1, TableStays DEF SurfaceInv
<1>3. PICK i, j \in DOMAIN document, url \in UNION {Urls(document[k].path) : k \in DOMAIN document} :
         url \in Urls(document[i].path) /\ asked' = {[method |-> document[j].method, url |-> url]}
  BY DEF Ask
<1>4. IsUrl(url)
  BY <1>2, <1>3, UrlIs
<1>5. \A r \in asked' : IsUrl(r.url) /\ asked' = {r}
  BY <1>3, <1>4
<1> QED
  BY <1>1, <1>2, <1>5 DEF SurfaceInv

LEMMA MatchServes == ASSUME SurfaceInv, Match PROVE SurfaceInv'
<1>1. /\ stage = "asked" /\ stage' = "found" /\ document' = document
      /\ routes' = routes /\ asked' = asked
  BY DEF Match
<1>2. PICK r \in asked : found' = Found(r)
  BY DEF Match
<1>3. /\ IsSurface(document) /\ routes = Table /\ Table' = Table
      /\ IsUrl(r.url) /\ \A q \in asked : IsUrl(q.url) /\ asked = {q}
  BY <1>1, TableStays DEF SurfaceInv
<1>4. /\ Found(r) = {} <=> Accepting(r) = {}
      /\ \A f \in Found(r) :
            /\ f.at \in Accepting(r)
            /\ Concrete(r) # {} => f.at \in Concrete(r)
            /\ f.kind # "static" /\ WholeSegments(f.at) => ReadsItsOwn(r, f)
  BY <1>3, FoundIs
<1>5. /\ Accepting(r)' = Accepting(r) /\ Concrete(r)' = Concrete(r)
      /\ \A i : WholeSegments(i)' = WholeSegments(i)
      /\ \A f : ReadsItsOwn(r, f)' = ReadsItsOwn(r, f)
  BY <1>1 DEF Accepting, Concrete, WholeSegments, ReadsItsOwn, ParamsOf, Template
<1>6. IsFound(r)'
  BY <1>2, <1>4, <1>5 DEF IsFound
<1>7. \A q \in asked' : IsFound(q)'
  <2>1. asked' = {r}
    BY <1>1, <1>2, <1>3
  <2> QED
    BY <1>6, <2>1
<1> QED
  BY <1>1, <1>3, <1>7 DEF SurfaceInv

LEMMA SurfaceKeeps == ASSUME SurfaceInv, [PathNext]_all PROVE SurfaceInv'
<1>1. CASE UNCHANGED surface
  BY <1>1, SurfaceStutter
<1>2. CASE Install
  BY <1>2, InstallServes
<1>3. CASE Ask
  BY <1>3, AskServes
<1>4. CASE Match
  BY <1>4, MatchServes
<1> QED
  BY <1>1, <1>2, <1>3, <1>4 DEF PathNext, Route, all

LEMMA SurfaceServes == ASSUME SurfaceInv PROVE DeclaredIsServed
BY DEF SurfaceInv, DeclaredIsServed, IsFound

\* No operation of a document is lost on its way into the table of core: a request
\* that the document declares is served, by an operation whose path accepts it and
\* by one without parameters if there is one; a request that it does not declare is
\* answered with 404; and a generator of a resource reads the identifiers that its
\* own path has in the request (install(), detectCrudResources(), findRoute()).
THEOREM PathServesDeclared == PathSpec => []DeclaredIsServed
<1>1. PathInit => SurfaceInv
  BY SurfaceInitially
<1>2. SurfaceInv /\ [PathNext]_all => SurfaceInv'
  BY SurfaceKeeps
<1>3. SurfaceInv => DeclaredIsServed
  BY SurfaceServes
<1> QED
  BY <1>1, <1>2, <1>3, PTL DEF PathSpec

-----------------------------------------------------------------------------
(* What is flattened, part by part. *)

\* The last part is put at the end.
LEMMA FlattenStep ==
    ASSUME NEW S, NEW n \in Nat, NEW parts \in [1 .. n + 1 -> Seq(S)]
    PROVE  LET front == [i \in 1 .. n |-> parts[i]] IN
           FlattenSeq(front) \in Seq(S) /\ FlattenSeq(parts) = FlattenSeq(front) \o parts[n + 1]
<1> DEFINE front == [i \in 1 .. n |-> parts[i]]
<1>1. n + 1 \in Nat /\ n + 1 # 0 /\ Len(parts) = n + 1 /\ n + 1 \in 1 .. n + 1
  OBVIOUS
<1>2. front \in [1 .. n -> Seq(S)] /\ Len(front) = n
  OBVIOUS
<1>3. FlattenSeq(front) \in Seq(S)
  <2> HIDE DEF front
  <2> QED
    BY <1>2, FlattenType
<1>4. PICK g \in [1 .. n + 1 -> Seq(S)] : GrowsBy(g, parts, n + 1)
  BY <1>1, GrowthExists
<1>5. FlattenSeq(parts) = g[n + 1]
  BY <1>1, <1>4, FlattenIs
<1>6. CASE n = 0
  <2>1. g[1] = parts[1]
    <3>1. 1 \in 1 .. n + 1
      OBVIOUS
    <3> QED
      BY <1>4, <3>1, Zenon DEF GrowsBy
  <2>2. FlattenSeq(front) = <<>>
    <3>1. front = <<>>
      BY <1>6
    <3> QED
      BY <3>1 DEF FlattenSeq
  <2>3. parts[1] \in Seq(S)
    BY <1>1, <1>6
  <2> QED
    BY <1>3, <1>5, <1>6, <2>1, <2>2, <2>3, ConcatEmptySeq
<1>7. CASE n # 0
  <2>1. GrowsBy(g, front, n)
    <3>1. \A i \in 1 .. n : i \in 1 .. n + 1 /\ front[i] = parts[i]
      OBVIOUS
    <3> HIDE DEF front
    <3> QED
      BY <1>4, <3>1, Zenon DEF GrowsBy
  <2>2. FlattenSeq(front) = g[n]
    <3> HIDE DEF front
    <3> QED
      BY <1>2, <1>7, <2>1, FlattenIs
  <2>3. g[n + 1] = g[n] \o parts[n + 1]
    <3>1. n + 1 \in 1 .. n + 1 /\ n + 1 # 1 /\ (n + 1) - 1 = n
      BY <1>7
    <3>2. g[n + 1] = g[(n + 1) - 1] \o parts[n + 1]
      BY <1>4, <3>1, Zenon DEF GrowsBy
    <3> QED
      BY <3>1, <3>2
  <2> QED
    BY <1>3, <1>5, <2>2, <2>3
<1> QED
  BY <1>6, <1>7

-----------------------------------------------------------------------------
(* The places of a selection. *)

\* p lists the numbers of P in order.
Enumerates(p, P) ==
    /\ p \in Seq(Nat)
    /\ \A i, j \in 1 .. Len(p) : i < j => p[i] < p[j]
    /\ \A i \in 1 .. Len(p) : p[i] \in P
    /\ \A x \in P : \E i \in 1 .. Len(p) : p[i] = x

\* Only one list does.
LEMMA EnumerationIsOne ==
    ASSUME NEW P, NEW p, NEW q, Enumerates(p, P), Enumerates(q, P) PROVE p = q
<1>1. /\ p \in Seq(Nat) /\ q \in Seq(Nat) /\ Len(p) \in Nat /\ Len(q) \in Nat
      /\ \A i \in 1 .. Len(p) : p[i] \in Nat
      /\ \A i \in 1 .. Len(q) : q[i] \in Nat
  BY ElementOfSeq, LenProperties DEF Enumerates
<1> DEFINE Bad == {k \in Nat : k \in 1 .. Len(p) /\ k \in 1 .. Len(q) /\ p[k] # q[k]}
<1>2. Bad = {}
  <2> SUFFICES ASSUME Bad # {} PROVE FALSE
    OBVIOUS
  <2>1. PICK k \in Bad : \A j \in Bad : k <= j
    <3>1. Bad \in SUBSET Nat
      OBVIOUS
    <3> HIDE DEF Bad
    <3> QED
      BY <3>1, LeastNat
  <2>2. ASSUME NEW a, NEW b, Enumerates(a, P), Enumerates(b, P),
               k \in 1 .. Len(a), k \in 1 .. Len(b), a[k] < b[k],
               Len(a) \in Nat, Len(b) \in Nat,
               \A i \in 1 .. Len(a) : a[i] \in Nat, \A i \in 1 .. Len(b) : b[i] \in Nat,
               \A j \in 1 .. k - 1 : a[j] = b[j]
        PROVE  FALSE
    <3>1. PICK j \in 1 .. Len(b) : b[j] = a[k]
      BY <2>2 DEF Enumerates
    <3>2. CASE j < k
      <4>1. a[j] = b[j] /\ a[j] < a[k] /\ a[j] \in Nat
        <5>1. j \in 1 .. k - 1 /\ j \in 1 .. Len(a)
          BY <3>2, <2>2
        <5> QED
          BY <3>2, <2>2, <5>1 DEF Enumerates
      <4> QED
        BY <3>1, <4>1
    <3>3. CASE j = k
      BY <2>2, <3>1, <3>3
    <3>4. CASE k < j
      <4>1. b[k] < b[j] /\ b[k] \in Nat /\ b[j] \in Nat
        BY <2>2, <3>4 DEF Enumerates
      <4> QED
        BY <2>2, <3>1, <4>1
    <3> QED
      BY <2>2, <3>1, <3>2, <3>3, <3>4
  <2>3. /\ k \in 1 .. Len(p) /\ k \in 1 .. Len(q) /\ p[k] # q[k]
        /\ p[k] \in Nat /\ q[k] \in Nat
    BY <1>1, <2>1
  <2>4. \A j \in 1 .. k - 1 : p[j] = q[j]
    <3> TAKE j \in 1 .. k - 1
    <3>1. j \in Nat /\ ~(k <= j) /\ j \in 1 .. Len(p) /\ j \in 1 .. Len(q)
      <4> HIDE DEF Bad
      <4>1. k \in Nat /\ j \in Int /\ 1 <= j /\ j <= k - 1 /\ k <= Len(p) /\ k <= Len(q)
        BY <1>1, <2>3
      <4> QED
        BY <1>1, <4>1
    <3> QED
      BY <2>1, <3>1
  <2> HIDE DEF Bad
  <2>5. ~(p[k] < q[k])
    BY <1>1, <2>2, <2>3, <2>4
  <2>6. ~(q[k] < p[k])
    BY <1>1, <2>2, <2>3, <2>4
  <2> QED
    BY <2>3, <2>5, <2>6
<1>3. ASSUME NEW a, NEW b, Enumerates(a, P), Enumerates(b, P),
             Len(a) \in Nat, Len(b) \in Nat, Len(a) < Len(b),
             \A i \in 1 .. Len(b) : b[i] \in Nat,
             \A j \in 1 .. Len(a) : a[j] = b[j]
      PROVE  FALSE
  <2>1. Len(b) \in 1 .. Len(b)
    BY <1>3
  <2>2. PICK j \in 1 .. Len(a) : a[j] = b[Len(b)]
    BY <1>3, <2>1 DEF Enumerates
  <2>3. j \in 1 .. Len(b) /\ j < Len(b)
    BY <1>3
  <2>4. b[j] < b[Len(b)] /\ b[j] = b[Len(b)] /\ b[j] \in Nat
    BY <1>3, <2>1, <2>2, <2>3 DEF Enumerates
  <2> QED
    BY <2>4
<1>4. \A j \in 1 .. Len(p) : j \in 1 .. Len(q) => p[j] = q[j]
  BY <1>2
<1> HIDE DEF Bad
<1>5. ~(Len(p) < Len(q))
  <2> SUFFICES ASSUME Len(p) < Len(q) PROVE FALSE
    OBVIOUS
  <2>1. \A j \in 1 .. Len(p) : p[j] = q[j]
    BY <1>1, <1>4
  <2> QED
    BY <1>1, <1>3, <2>1
<1>6. ~(Len(q) < Len(p))
  <2> SUFFICES ASSUME Len(q) < Len(p) PROVE FALSE
    OBVIOUS
  <2>1. \A j \in 1 .. Len(q) : q[j] = p[j]
    BY <1>1, <1>4
  <2> QED
    BY <1>1, <1>3, <2>1
<1>7. Len(p) = Len(q)
  BY <1>1, <1>5, <1>6
<1> QED
  BY <1>1, <1>4, <1>7, SeqEqual


LEMMA EnumerationGrows ==
    ASSUME NEW m \in Nat, NEW P \in SUBSET (1 .. m), NEW p, Enumerates(p, P)
    PROVE  Enumerates(Append(p, m + 1), P \cup {m + 1})
<1> DEFINE q == Append(p, m + 1)
           n == Len(p)
<1>1. p \in Seq(Nat) /\ n \in Nat /\ \A i \in 1 .. n : p[i] \in P /\ p[i] \in Nat /\ p[i] <= m
  BY ElementOfSeq, LenProperties DEF Enumerates
<1>2. /\ q \in Seq(Nat) /\ Len(q) = n + 1 /\ q[n + 1] = m + 1
      /\ \A i \in 1 .. n : q[i] = p[i]
  BY <1>1, AppendProperties
<1>3. \A i, j \in 1 .. n : i < j => p[i] < p[j]
  BY DEF Enumerates
<1>4. \A x \in P : \E i \in 1 .. n : p[i] = x
  BY DEF Enumerates
<1> HIDE DEF q, n
<1>5. \A i \in 1 .. n + 1 : i \in 1 .. n \/ i = n + 1
  BY <1>1
<1>6. \A i, j \in 1 .. n + 1 : i < j => q[i] < q[j]
  <2> SUFFICES ASSUME NEW i \in 1 .. n + 1, NEW j \in 1 .. n + 1, i < j
               PROVE  q[i] < q[j]
    OBVIOUS
  <2>1. i \in 1 .. n /\ q[i] = p[i] /\ p[i] \in Nat /\ p[i] <= m
    <3>1. i \in 1 .. n
      BY <1>1
    <3> QED
      BY <1>1, <1>2, <3>1
  <2>2. CASE j = n + 1
    BY <1>2, <2>1, <2>2
  <2>3. CASE j \in 1 .. n
    BY <1>2, <1>3, <2>1, <2>3
  <2> QED
    BY <1>5, <2>2, <2>3
<1>7. \A i \in 1 .. n + 1 : q[i] \in P \cup {m + 1}
  BY <1>1, <1>2, <1>5
<1>8. \A x \in P \cup {m + 1} : \E i \in 1 .. n + 1 : q[i] = x
  <2>1. n + 1 \in 1 .. n + 1 /\ \A i \in 1 .. n : i \in 1 .. n + 1
    BY <1>1
  <2> QED
    BY <1>2, <1>4, <2>1
<1>9. Enumerates(q, P \cup {m + 1})
  BY <1>2, <1>6, <1>7, <1>8 DEF Enumerates
<1> QED
  BY <1>9 DEF q

\* s is what E has at the places p.
Picks(s, E, p) == Len(s) = Len(p) /\ \A k \in 1 .. Len(p) : s[k] = E[p[k]]

\* A selection is what is at its places, in order.
LEMMA SelectionIs ==
    ASSUME NEW S, NEW E \in Seq(S), NEW roles
    PROVE  /\ ToNodes(E, roles) \in Seq(S)
           /\ \E p : /\ Enumerates(p, {i \in 1 .. Len(E) : E[i].role \in roles})
                     /\ Picks(ToNodes(E, roles), E, p)
<1> DEFINE Part(i) == IF E[i].role \in roles THEN <<E[i]>> ELSE <<>>
           FrontTo(n) == FlattenSeq([i \in 1 .. n |-> Part(i)])
           P(n) == {i \in 1 .. n : E[i].role \in roles}
           Selects(n) == FrontTo(n) \in Seq(S) /\ \E p : Enumerates(p, P(n)) /\ Picks(FrontTo(n), E, p)
           Bad == {n \in Nat : n <= Len(E) /\ ~Selects(n)}
<1>1. Len(E) \in Nat /\ DOMAIN E = 1 .. Len(E) /\ \A i \in 1 .. Len(E) : E[i] \in S
  BY ElementOfSeq, LenProperties
<1>2. \A i \in 1 .. Len(E) : Part(i) \in Seq(S)
  <2> TAKE i \in 1 .. Len(E)
  <2>1. E[i] \in S
    BY <1>1
  <2>2. <<>> \in Seq(S) /\ <<E[i]>> \in Seq(S)
    BY <2>1
  <2> QED
    BY <2>2
<1>3. Selects(0)
  <2>1. FrontTo(0) = <<>>
    <3>1. [i \in 1 .. 0 |-> Part(i)] = <<>>
      OBVIOUS
    <3> QED
      BY <3>1 DEF FlattenSeq
  <2>2. Enumerates(<<>>, P(0))
    BY DEF Enumerates
  <2>3. Picks(<<>>, E, <<>>) /\ <<>> \in Seq(S)
    BY DEF Picks
  <2> HIDE DEF FrontTo, P
  <2> QED
    BY <2>1, <2>2, <2>3
<1>4. ASSUME NEW m \in Nat, m + 1 <= Len(E), Selects(m) PROVE Selects(m + 1)
  <2> DEFINE n == m + 1
             parts == [i \in 1 .. n |-> Part(i)]
  <2>1. n \in 1 .. Len(E) /\ m <= Len(E)
    BY <1>1, <1>4
  <2>2. parts \in [1 .. m + 1 -> Seq(S)]
    <3> HIDE DEF Part
    <3>1. \A i \in 1 .. m + 1 : Part(i) \in Seq(S)
      BY <1>1, <1>2, <2>1
    <3> QED
      BY <3>1
  <2>3. [i \in 1 .. m |-> parts[i]] = [i \in 1 .. m |-> Part(i)] /\ parts[m + 1] = Part(n)
    <3> HIDE DEF Part
    <3> QED
      OBVIOUS
  <2>4. FrontTo(n) = FrontTo(m) \o Part(n)
    <3> HIDE DEF parts, Part
    <3>1. FlattenSeq(parts) = FlattenSeq([i \in 1 .. m |-> parts[i]]) \o parts[m + 1]
      BY <2>2, FlattenStep
    <3> QED
      BY <2>3, <3>1 DEF parts
  <2>5. PICK p : Enumerates(p, P(m)) /\ Picks(FrontTo(m), E, p)
    BY <1>4
  <2>6. FrontTo(m) \in Seq(S) /\ E[n] \in S
    BY <1>1, <1>4, <2>1
  <2>7. CASE E[n].role \in roles
    <3>1. P(m) \in SUBSET (1 .. m) /\ P(n) = P(m) \cup {m + 1}
      BY <2>7
    <3>2. Part(n) = <<E[n]>>
      BY <2>7
    <3> HIDE DEF FrontTo, P, Part
    <3>3. Enumerates(Append(p, n), P(n))
      <4>1. Enumerates(Append(p, m + 1), P(m) \cup {m + 1})
        BY <2>5, <3>1, EnumerationGrows
      <4> QED
        BY <3>1, <4>1
    <3>4. FrontTo(n) = Append(FrontTo(m), E[n])
      BY <2>4, <2>6, <3>2, AppendIsConcat
    <3>5. /\ p \in Seq(Nat) /\ Len(p) \in Nat /\ Len(FrontTo(m)) = Len(p)
          /\ \A k \in 1 .. Len(p) : FrontTo(m)[k] = E[p[k]]
      BY <2>5, LenProperties DEF Enumerates, Picks
    <3>6. /\ FrontTo(n) \in Seq(S) /\ Len(FrontTo(n)) = Len(p) + 1 /\ FrontTo(n)[Len(p) + 1] = E[n]
          /\ \A k \in 1 .. Len(p) : FrontTo(n)[k] = FrontTo(m)[k]
      <4> DEFINE s == FrontTo(m)
      <4>1. s \in Seq(S) /\ Len(s) = Len(p) /\ FrontTo(n) = Append(s, E[n])
        BY <2>6, <3>4, <3>5
      <4> HIDE DEF s, n
      <4>2. /\ Append(s, E[n]) \in Seq(S) /\ Len(Append(s, E[n])) = Len(s) + 1
            /\ Append(s, E[n])[Len(s) + 1] = E[n]
            /\ \A k \in 1 .. Len(s) : Append(s, E[n])[k] = s[k]
        BY <2>6, <4>1, AppendProperties
      <4> QED
        BY <4>1, <4>2 DEF s
    <3> DEFINE q == Append(p, n)
    <3>7. Len(q) = Len(p) + 1 /\ q[Len(p) + 1] = n /\ \A k \in 1 .. Len(p) : q[k] = p[k]
      BY <2>1, <3>5, AppendProperties
    <3> HIDE DEF q, n
    <3>8. Picks(FrontTo(n), E, q)
      <4>1. \A k \in 1 .. Len(p) + 1 : k \in 1 .. Len(p) \/ k = Len(p) + 1
        BY <3>5
      <4> QED
        BY <3>5, <3>6, <3>7, <4>1 DEF Picks
    <3> QED
      BY <3>3, <3>6, <3>8 DEF q, n
  <2>8. CASE E[n].role \notin roles
    <3>1. P(n) = P(m)
      BY <2>8
    <3>2. Part(n) = <<>>
      BY <2>8
    <3> HIDE DEF FrontTo, P, Part
    <3>3. FrontTo(n) = FrontTo(m)
      BY <2>4, <2>6, <3>2, ConcatEmptySeq
    <3> QED
      BY <2>5, <2>6, <3>1, <3>3
  <2> QED
    BY <2>7, <2>8
<1> HIDE DEF Selects
<1>5. Bad = {}
  <2> SUFFICES ASSUME Bad # {} PROVE FALSE
    OBVIOUS
  <2>1. PICK n \in Bad : \A j \in Bad : n <= j
    <3>1. Bad \in SUBSET Nat
      OBVIOUS
    <3> HIDE DEF Bad
    <3> QED
      BY <3>1, LeastNat
  <2>2. n \in Nat /\ n <= Len(E) /\ ~Selects(n)
    BY <2>1
  <2>3. n # 0
    BY <1>3, <2>2
  <2>4. n - 1 \in Nat /\ n - 1 <= Len(E) /\ (n - 1) + 1 = n /\ ~(n <= n - 1)
    BY <1>1, <2>2, <2>3
  <2>5. Selects(n - 1)
    <3>1. n - 1 \notin Bad
      <4> HIDE DEF Bad
      <4> QED
        BY <2>1, <2>4
    <3> QED
      BY <2>4, <3>1
  <2>6. Selects((n - 1) + 1)
    BY <1>4, <2>2, <2>4, <2>5
  <2> QED
    BY <2>2, <2>4, <2>6
<1>6. Selects(Len(E))
  BY <1>1, <1>5
<1>7. ToNodes(E, roles) = FrontTo(Len(E))
  BY <1>1 DEF ToNodes
<1> QED
  BY <1>6, <1>7 DEF Selects

-----------------------------------------------------------------------------
(* What a selection holds. *)

\* T has what E has of the roles.
Selected(T, E, roles) ==
    /\ \A k \in DOMAIN T : \E i \in DOMAIN E : E[i].role \in roles /\ T[k] = E[i]
    /\ \A i \in DOMAIN E : E[i].role \in roles => \E k \in DOMAIN T : T[k] = E[i]

LEMMA SelectionHolds ==
    ASSUME NEW S, NEW E \in Seq(S), NEW roles
    PROVE  ToNodes(E, roles) \in Seq(S) /\ Selected(ToNodes(E, roles), E, roles)
<1> DEFINE T == ToNodes(E, roles)
           P == {i \in 1 .. Len(E) : E[i].role \in roles}
<1>1. T \in Seq(S) /\ \E p : Enumerates(p, P) /\ Picks(T, E, p)
  BY SelectionIs
<1>2. DOMAIN E = 1 .. Len(E) /\ DOMAIN T = 1 .. Len(T)
  BY <1>1, LenProperties
<1> HIDE DEF T
<1>3. PICK p : Enumerates(p, P) /\ Picks(T, E, p)
  BY <1>1
<1>4. /\ \A k \in DOMAIN T : p[k] \in P /\ T[k] = E[p[k]]
      /\ \A i \in P : \E k \in DOMAIN T : p[k] = i
  BY <1>2, <1>3 DEF Enumerates, Picks
<1>5. \A k \in DOMAIN T : \E i \in DOMAIN E : E[i].role \in roles /\ T[k] = E[i]
  BY <1>2, <1>4
<1>6. \A i \in DOMAIN E : E[i].role \in roles => \E k \in DOMAIN T : T[k] = E[i]
  BY <1>2, <1>4
<1> QED
  BY <1>1, <1>5, <1>6 DEF T, Selected

\* Nothing is selected when nothing has the role.
LEMMA SelectionEmpty ==
    ASSUME NEW S, NEW E \in Seq(S), NEW roles
    PROVE  ToNodes(E, roles) = <<>> <=> \A i \in DOMAIN E : E[i].role \notin roles
<1> DEFINE T == ToNodes(E, roles)
<1>1. /\ T \in Seq(S)
      /\ \A k \in DOMAIN T : \E i \in DOMAIN E : E[i].role \in roles
      /\ \A i \in DOMAIN E : E[i].role \in roles => \E k \in DOMAIN T : TRUE
  <2>1. T \in Seq(S) /\ Selected(T, E, roles)
    BY SelectionHolds
  <2> QED
    BY <2>1 DEF Selected
<1>2. T = <<>> <=> DOMAIN T = {}
  <2> HIDE DEF T
  <2>1. T \in Seq(S) /\ DOMAIN T = 1 .. Len(T) /\ Len(T) \in Nat
    BY <1>1, LenProperties
  <2>2. T # <<>> => 1 \in DOMAIN T
    <3>1. T # <<>> => Len(T) \in Nat \ {0}
      BY <2>1, EmptySeq
    <3> QED
      BY <2>1, <3>1
  <2>3. DOMAIN <<>> = {}
    OBVIOUS
  <2> QED
    BY <2>2, <2>3, Zenon
<1> HIDE DEF T
<1>3. (\A i \in DOMAIN E : E[i].role \notin roles) <=> DOMAIN T = {}
  BY <1>1
<1> QED
  BY <1>2, <1>3 DEF T

\* B is A with other roles, Q in the places of roles.
Renames(B, A, Q, roles) ==
    Len(B) = Len(A) /\ \A i \in DOMAIN B : B[i].role \in Q <=> A[i].role \in roles
Within(E, roles, R) == \A i \in DOMAIN E : E[i].role \in roles => E[i].role \in R
\* C has of B what D has of A.
Follows(C, D, B, A) ==
    Len(C) = Len(D) /\ \A k \in DOMAIN C : \E j \in DOMAIN B : C[k] = B[j] /\ D[k] = A[j]

\* A selection of what was selected and renamed is one of the whole.
LEMMA SelectionFollows ==
    ASSUME NEW S, NEW T, NEW E \in Seq(S), NEW R, NEW B \in Seq(T), NEW Q, NEW roles,
           Renames(B, ToNodes(E, R), Q, roles), Within(E, roles, R)
    PROVE  Follows(ToNodes(B, Q), ToNodes(E, roles), B, ToNodes(E, R))
<1> DEFINE A == ToNodes(E, R)
           C == ToNodes(B, Q)
           D == ToNodes(E, roles)
           PA == {i \in 1 .. Len(E) : E[i].role \in R}
           PC == {i \in 1 .. Len(B) : B[i].role \in Q}
           PD == {i \in 1 .. Len(E) : E[i].role \in roles}
<1>1. /\ A \in Seq(S) /\ C \in Seq(T) /\ D \in Seq(S)
      /\ (\E p : Enumerates(p, PA) /\ Picks(A, E, p))
      /\ (\E p : Enumerates(p, PC) /\ Picks(C, B, p))
      /\ (\E p : Enumerates(p, PD) /\ Picks(D, E, p))
  BY SelectionIs
<1>2. /\ DOMAIN E = 1 .. Len(E) /\ Len(E) \in Nat /\ DOMAIN B = 1 .. Len(B) /\ Len(B) \in Nat
      /\ DOMAIN A = 1 .. Len(A) /\ DOMAIN C = 1 .. Len(C) /\ DOMAIN D = 1 .. Len(D)
      /\ Len(A) = Len(B)
  BY <1>1, LenProperties DEF Renames
<1>3. /\ \A i \in 1 .. Len(B) : B[i].role \in Q <=> A[i].role \in roles
      /\ \A i \in DOMAIN E : E[i].role \in roles => E[i].role \in R
  BY <1>2 DEF Renames, Within
<1> HIDE DEF A, C, D
<1>4. PICK p : Enumerates(p, PA) /\ Picks(A, E, p)
  BY <1>1
<1>5. PICK q : Enumerates(q, PC) /\ Picks(C, B, q)
  BY <1>1
<1>6. PICK r : Enumerates(r, PD) /\ Picks(D, E, r)
  BY <1>1
<1> DEFINE t == [k \in 1 .. Len(q) |-> p[q[k]]]
<1>7. /\ Len(p) = Len(B) /\ p \in Seq(Nat) /\ q \in Seq(Nat) /\ Len(q) \in Nat
      /\ \A k \in 1 .. Len(q) : q[k] \in 1 .. Len(B) /\ B[q[k]].role \in Q
      /\ \A k \in 1 .. Len(B) : p[k] \in Nat /\ p[k] \in 1 .. Len(E) /\ A[k] = E[p[k]]
  BY <1>2, <1>4, <1>5, ElementOfSeq, LenProperties DEF Enumerates, Picks
<1>8. t \in Seq(Nat) /\ Len(t) = Len(q) /\ \A k \in 1 .. Len(q) : t[k] = p[q[k]]
  BY <1>7
<1> HIDE DEF t
<1>9. Enumerates(t, PD)
  <2>1. \A i, j \in 1 .. Len(q) : i < j => t[i] < t[j]
    <3>1. \A i, j \in 1 .. Len(q) : i < j => q[i] < q[j]
      BY <1>5 DEF Enumerates
    <3>2. \A i, j \in 1 .. Len(B) : i < j => p[i] < p[j]
      BY <1>4, <1>7 DEF Enumerates
    <3> QED
      BY <1>7, <1>8, <3>1, <3>2
  <2>2. \A k \in 1 .. Len(q) : t[k] \in PD
    <3> TAKE k \in 1 .. Len(q)
    <3>1. q[k] \in 1 .. Len(B) /\ A[q[k]].role \in roles /\ t[k] = p[q[k]]
      BY <1>3, <1>7, <1>8
    <3>2. p[q[k]] \in 1 .. Len(E) /\ E[p[q[k]]].role \in roles
      BY <1>7, <3>1
    <3> QED
      BY <3>1, <3>2
  <2>3. \A x \in PD : \E k \in 1 .. Len(q) : t[k] = x
    <3> TAKE x \in PD
    <3>1. x \in 1 .. Len(E) /\ E[x].role \in roles /\ x \in PA
      BY <1>2, <1>3
    <3>2. PICK i \in 1 .. Len(B) : p[i] = x
      BY <1>4, <1>7, <3>1 DEF Enumerates
    <3>3. i \in PC
      BY <1>3, <1>7, <3>1, <3>2
    <3>4. PICK k \in 1 .. Len(q) : q[k] = i
      BY <1>5, <3>3 DEF Enumerates
    <3> QED
      BY <1>8, <3>2, <3>4
  <2> QED
    BY <1>8, <2>1, <2>2, <2>3 DEF Enumerates
<1>10. t = r
  BY <1>6, <1>9, EnumerationIsOne
<1>11. Len(C) = Len(q) /\ Len(D) = Len(q)
  BY <1>5, <1>6, <1>8, <1>10 DEF Picks
<1>12. \A k \in DOMAIN C : \E j \in DOMAIN B : C[k] = B[j] /\ D[k] = A[j]
  <2> TAKE k \in DOMAIN C
  <2>1. k \in 1 .. Len(q) /\ q[k] \in DOMAIN B
    BY <1>2, <1>7, <1>11
  <2>2. C[k] = B[q[k]]
    BY <1>5, <2>1 DEF Picks
  <2>3. D[k] = E[p[q[k]]]
    BY <1>6, <1>8, <1>10, <2>1 DEF Picks
  <2> QED
    BY <1>2, <1>7, <2>1, <2>2, <2>3
<1> QED
  BY <1>11, <1>12 DEF A, C, D, Follows

-----------------------------------------------------------------------------
(* What the enhancement makes of a schema. *)

FakerNames == Seq(Seq(STRING))
FakerEdge == [role : STRING \ {"verbatim"}, name : FakerNames, to : DOMAIN nodeOf]

LEMMA NodeIs ==
    ASSUME nodeOf \in FakerGraphs, NEW n \in DOMAIN nodeOf
    PROVE  /\ nodeOf[n].edges \in Seq(FakerEdge)
           /\ nodeOf[n].nullable \in {"no", "type", "anyOf"}
           /\ nodeOf[n].nullable = "anyOf" => Len(ToNode(nodeOf[n].edges, "anyOf")) = 2
           /\ IsFiniteSet(nodeOf[n].types)
<1> DEFINE g == nodeOf
           Edge == [role : STRING \ {"verbatim"}, name : FakerNames, to : DOMAIN g]
<1>1. IsSchema(g)
  BY SchemasAssumption
<1>2. /\ g[n] \in [types : SUBSET STRING, keys : SUBSET STRING, format : SUBSET STRING,
                   edges : Seq(Edge), nullable : {"no", "type", "anyOf"}]
      /\ g[n].nullable = "anyOf" => Len(ToNode(g[n].edges, "anyOf")) = 2
      /\ IsFiniteSet(g[n].types)
  BY <1>1, Zenon DEF IsSchema, FakerNames
<1>3. g[n].edges \in Seq(Edge) /\ g[n].nullable \in {"no", "type", "anyOf"}
  <2> HIDE DEF Edge, g
  <2> QED
    BY <1>2
<1> QED
  BY <1>2, <1>3, Zenon DEF FakerEdge

\* T has what E has of other roles.
Left(T, E, roles) ==
    /\ \A k \in DOMAIN T : \E i \in DOMAIN E : E[i].role \notin roles /\ T[k] = E[i]
    /\ \A i \in DOMAIN E : E[i].role \notin roles => \E k \in DOMAIN T : T[k] = E[i]

LEMMA OthersAre ==
    ASSUME NEW S, NEW E \in Seq(S), NEW roles
    PROVE  ToOthers(E, roles) \in Seq(S) /\ Left(ToOthers(E, roles), E, roles)
<1> DEFINE R == RolesOf(E) \ roles
           T == ToNodes(E, R)
<1>1. \A i \in DOMAIN E : E[i].role \in R <=> E[i].role \notin roles
  BY DEF RolesOf, ToSet
<1> HIDE DEF R
<1>2. T \in Seq(S) /\ Selected(T, E, R)
  BY SelectionHolds
<1> HIDE DEF T
<1>3. Left(T, E, roles)
  BY <1>1, <1>2 DEF Selected, Left
<1>4. ToOthers(E, roles) = T
  BY DEF ToOthers, T, R
<1> QED
  BY <1>2, <1>3, <1>4

LEMMA StrippedIs ==
    ASSUME nodeOf \in FakerGraphs, NEW n \in DOMAIN nodeOf
    PROVE  LET s == Stripped(n) IN
           /\ s.edges \in Seq(FakerEdge)
           /\ nodeOf[n].nullable # "anyOf" => s.edges = nodeOf[n].edges
           /\ nodeOf[n].nullable = "type" /\ nodeOf[n].types # {"null"} => "null" \notin s.types
           /\ \A i \in DOMAIN nodeOf[n].edges : nodeOf[n].edges[i].role = "items" =>
                 \E j \in DOMAIN s.edges : s.edges[j].role = "items"
           /\ IsFiniteSet(s.types)
<1> DEFINE s == nodeOf[n]
           other == ToNode(s.edges, "anyOf")
           rest == nodeOf[other[2].to]
           wrapper == ToOthers(s.edges, {"anyOf"})
           kept == ToOthers(rest.edges, RolesOf(wrapper))
<1>1. /\ s.edges \in Seq(FakerEdge)
      /\ s.nullable = "anyOf" => Len(other) = 2
      /\ IsFiniteSet(s.types)
  BY NodeIs
<1>2. CASE s.nullable = "anyOf"
  <2>1. other \in Seq(FakerEdge) /\ 2 \in 1 .. Len(other)
    <3>1. ToNodes(s.edges, {"anyOf"}) \in Seq(FakerEdge)
      BY <1>1, SelectionHolds
    <3>2. other \in Seq(FakerEdge)
      BY <3>1 DEF ToNode
    <3>3. Len(other) = 2
      BY <1>1, <1>2
    <3> HIDE DEF other
    <3> QED
      BY <3>2, <3>3
  <2>2. other[2].to \in DOMAIN nodeOf
    <3> HIDE DEF other
    <3>1. other[2] \in FakerEdge
      BY <2>1, ElementOfSeq
    <3> QED
      BY <3>1 DEF FakerEdge
  <2>3. rest.edges \in Seq(FakerEdge) /\ IsFiniteSet(rest.types)
    BY <2>2, NodeIs
  <2>4. kept \in Seq(FakerEdge) /\ wrapper \in Seq(FakerEdge) /\ Left(wrapper, s.edges, {"anyOf"})
    <3> HIDE DEF rest, s
    <3> QED
      BY <1>1, <2>3, OthersAre
  <2>5. \A i \in DOMAIN s.edges : s.edges[i].role = "items" =>
           \E k \in DOMAIN wrapper : wrapper[k] = s.edges[i]
    <3> HIDE DEF wrapper, s
    <3> QED
      BY <2>4 DEF Left
  <2>6. /\ Stripped(n).edges = kept \o wrapper
        /\ Stripped(n).types = IF s.types = {} THEN rest.types ELSE s.types
    BY <1>2 DEF Stripped
  <2>10. IsFiniteSet(Stripped(n).types)
    <3> HIDE DEF s, rest, kept, wrapper
    <3> QED
      BY <1>1, <2>3, <2>6
  <2> HIDE DEF kept, wrapper, s
  <2>7. /\ kept \o wrapper \in Seq(FakerEdge)
        /\ Len(kept \o wrapper) = Len(kept) + Len(wrapper)
        /\ \A k \in 1 .. Len(kept) + Len(wrapper) :
              (kept \o wrapper)[k] = IF k <= Len(kept) THEN kept[k] ELSE wrapper[k - Len(kept)]
    BY <2>4, ConcatProperties
  <2>8. \A k \in DOMAIN wrapper :
           \E j \in DOMAIN (kept \o wrapper) : (kept \o wrapper)[j] = wrapper[k]
    <3> TAKE k \in DOMAIN wrapper
    <3>1. k \in 1 .. Len(wrapper) /\ Len(kept) \in Nat /\ Len(wrapper) \in Nat
          /\ DOMAIN (kept \o wrapper) = 1 .. Len(kept \o wrapper)
      BY <2>4, <2>7, LenProperties
    <3> DEFINE j == Len(kept) + k
    <3>2. j \in 1 .. Len(kept) + Len(wrapper) /\ ~(j <= Len(kept)) /\ j - Len(kept) = k
      BY <3>1
    <3>3. j \in DOMAIN (kept \o wrapper)
      BY <2>7, <3>1, <3>2
    <3> HIDE DEF j
    <3>4. (kept \o wrapper)[j] = wrapper[k]
      BY <2>7, <3>2
    <3> QED
      BY <3>3, <3>4
  <2>9. \A i \in DOMAIN s.edges : s.edges[i].role = "items" =>
           \E j \in DOMAIN (kept \o wrapper) : (kept \o wrapper)[j].role = "items"
    BY <2>5, <2>8
  <2> QED
    BY <1>2, <2>6, <2>7, <2>9, <2>10 DEF s
<1>3. CASE s.nullable # "anyOf"
  <2>1. Stripped(n).edges = s.edges
    BY <1>3 DEF Stripped
  <2>2. s.nullable = "type" /\ s.types # {"null"} => "null" \notin Stripped(n).types
    BY <1>3 DEF Stripped
  <2>3. Stripped(n).types \subseteq s.types
    BY <1>3 DEF Stripped
  <2>4. IsFiniteSet(Stripped(n).types)
    BY <1>1, <2>3, FS_Subset
  <2> HIDE DEF s
  <2> QED
    BY <1>1, <1>3, <2>1, <2>2, <2>4 DEF s
<1> QED
  BY <1>2, <1>3

\* The edges of an enhanced schema, and what is below it.
Chosen(node, context) == context # Root /\ "faker" \in Stripped(node).keys
KnownEdges(node) == ToOthers(Stripped(node).edges, {"unknown"})
MadeEdge == [role : STRING \ {"verbatim", "unknown"}, name : FakerNames, key : (DOMAIN nodeOf) \X FakerNames]
FakerTask == [node : DOMAIN nodeOf, context : FakerNames]

LEMMA KnownIs ==
    ASSUME nodeOf \in FakerGraphs, NEW n \in DOMAIN nodeOf
    PROVE  /\ KnownEdges(n) \in Seq(FakerEdge)
           /\ \A i \in DOMAIN KnownEdges(n) :
                 /\ KnownEdges(n)[i].role \in STRING \ {"verbatim", "unknown"}
                 /\ KnownEdges(n)[i].to \in DOMAIN nodeOf
                 /\ KnownEdges(n)[i].name \in FakerNames
                 /\ ContextOf(KnownEdges(n)[i]) \in FakerNames
<1>1. Stripped(n).edges \in Seq(FakerEdge)
  BY StrippedIs
<1> DEFINE E == Stripped(n).edges
           K == KnownEdges(n)
<1>2. /\ K \in Seq(FakerEdge)
      /\ \A k \in DOMAIN K : \E i \in DOMAIN E : E[i].role \notin {"unknown"} /\ K[k] = E[i]
  <2>1. K \in Seq(FakerEdge) /\ Left(K, E, {"unknown"})
    BY <1>1, OthersAre DEF KnownEdges
  <2> HIDE DEF K, E
  <2> QED
    BY <2>1 DEF Left
<1> HIDE DEF K, E
<1>3. ASSUME NEW k \in DOMAIN K
      PROVE  /\ K[k].role \in STRING \ {"verbatim", "unknown"} /\ K[k].to \in DOMAIN nodeOf
             /\ K[k].name \in FakerNames /\ ContextOf(K[k]) \in FakerNames
  <2>1. K[k] \in FakerEdge
    <3>1. k \in 1 .. Len(K)
      BY <1>2, LenProperties
    <3> QED
      BY <1>2, <3>1, ElementOfSeq
  <2>2. K[k].role # "unknown"
    BY <1>2
  <2>3. K[k].role \in STRING \ {"verbatim"} /\ K[k].to \in DOMAIN nodeOf /\ K[k].name \in FakerNames
    BY <2>1 DEF FakerEdge
  <2>4. Root \in FakerNames
    BY DEF Root, FakerNames
  <2>5. ContextOf(K[k]) \in FakerNames
    BY <2>3, <2>4 DEF ContextOf
  <2> QED
    BY <2>2, <2>3, <2>5
<1> QED
  BY <1>2, <1>3 DEF K

LEMMA EnhancedIs ==
    ASSUME nodeOf \in FakerGraphs, NEW n \in DOMAIN nodeOf, NEW context
    PROVE  LET product == Enhanced(n, context)
               known == KnownEdges(n)
           IN  /\ product.edges \in Seq(MadeEdge) /\ product.below \in Seq(FakerTask)
               /\ Len(product.below) = Len(product.edges)
               /\ \A i \in DOMAIN product.edges :
                     product.edges[i].key = KeyOf(product.below[i].node, product.below[i].context)
               /\ Chosen(n, context) => product.edges = <<>>
               /\ ~Chosen(n, context) =>
                     /\ Len(product.edges) = Len(known)
                     /\ \A i \in DOMAIN product.edges :
                           product.edges[i] = [role |-> known[i].role, name |-> known[i].name,
                                            key |-> <<known[i].to, ContextOf(known[i])>>]
<1> DEFINE product == Enhanced(n, context)
           known == KnownEdges(n)
           K(e) == [role |-> e.role, name |-> e.name, key |-> KeyOf(e.to, ContextOf(e))]
           B(e) == Task(e.to, ContextOf(e))
           none == Chosen(n, context)
           edges == IF none THEN <<>> ELSE [i \in DOMAIN known |-> K(known[i])]
           below == IF none THEN <<>> ELSE [i \in DOMAIN known |-> B(known[i])]
<1>1. product.edges = edges /\ product.below = below
  BY DEF Enhanced, Chosen, KnownEdges
<1>2. known \in Seq(FakerEdge) /\ Len(known) \in Nat /\ DOMAIN known = 1 .. Len(known)
  BY KnownIs, LenProperties
<1>3. ASSUME NEW i \in DOMAIN known
      PROVE  K(known[i]) \in MadeEdge /\ B(known[i]) \in FakerTask
  <2>1. /\ known[i].role \in STRING \ {"verbatim", "unknown"} /\ known[i].to \in DOMAIN nodeOf
        /\ known[i].name \in FakerNames /\ ContextOf(known[i]) \in FakerNames
    BY KnownIs
  <2> HIDE DEF known
  <2> QED
    BY <2>1 DEF MadeEdge, FakerTask, KeyOf, Task
<1> HIDE DEF known, none
<1>4. CASE none
  <2>1. edges = <<>> /\ below = <<>>
    BY <1>4
  <2> QED
    BY <1>1, <1>4, <2>1 DEF known, none
<1>5. CASE ~none
  <2>1. edges = [i \in 1 .. Len(known) |-> K(known[i])] /\ below = [i \in 1 .. Len(known) |-> B(known[i])]
    BY <1>2, <1>5
  <2>2. edges \in Seq(MadeEdge) /\ below \in Seq(FakerTask)
    <3> HIDE DEF K, B, edges, below
    <3>1. \A i \in 1 .. Len(known) : K(known[i]) \in MadeEdge /\ B(known[i]) \in FakerTask
      BY <1>2, <1>3
    <3> QED
      BY <1>2, <2>1, <3>1
  <2>3. Len(edges) = Len(known) /\ Len(below) = Len(known) /\ DOMAIN edges = 1 .. Len(known)
    <3> HIDE DEF K, B, edges, below
    <3> QED
      BY <1>2, <2>1
  <2>4. \A i \in 1 .. Len(known) :
           /\ edges[i] = [role |-> known[i].role, name |-> known[i].name,
                          key |-> KeyOf(known[i].to, ContextOf(known[i]))]
           /\ below[i] = [node |-> known[i].to, context |-> ContextOf(known[i])]
    BY <2>1 DEF Task
  <2> HIDE DEF edges, below
  <2>5. \A i \in 1 .. Len(known) : edges[i].key = KeyOf(below[i].node, below[i].context)
    <3> TAKE i \in 1 .. Len(known)
    <3> DEFINE e == known[i]
               c == ContextOf(e)
               key == KeyOf(e.to, c)
    <3>1. /\ edges[i] = [role |-> e.role, name |-> e.name, key |-> key]
          /\ below[i] = [node |-> e.to, context |-> c]
      BY <2>4
    <3>2. key = KeyOf(e.to, c)
      OBVIOUS
    <3> HIDE DEF e, c, key
    <3> QED
      BY <3>1, <3>2
  <2>6. \A i \in 1 .. Len(known) :
           edges[i] = [role |-> known[i].role, name |-> known[i].name,
                       key |-> <<known[i].to, ContextOf(known[i])>>]
    BY <2>4 DEF KeyOf
  <2> QED
    BY <1>1, <1>5, <2>2, <2>3, <2>5, <2>6 DEF known, none
<1> QED
  BY <1>4, <1>5

-----------------------------------------------------------------------------
(* The inductive invariant: what is cached of a schema and a context is its    *)
(* enhancement, and what it leads to is cached or still to be enhanced.        *)

PendingKeys == {KeyOf(pending[i].node, pending[i].context) : i \in 1 .. Len(pending)}
CacheInv ==
    /\ DOMAIN cache \subseteq (DOMAIN nodeOf) \X FakerNames
    /\ \A key \in DOMAIN cache : cache[key] = Enhanced(key[1], key[2])
ReachedInv ==
    \A key \in DOMAIN cache : \A i \in DOMAIN cache[key].edges :
        cache[key].edges[i].key \in DOMAIN cache \cup PendingKeys
HandedInv ==
    handed # {} => pending = <<>> /\ handed = {[key \in DOMAIN cache |-> ForJsf(cache[key])]}
FakerInv ==
    nodeOf \in FakerGraphs /\ pending \in Seq(FakerTask) /\ CacheInv /\ ReachedInv /\ HandedInv

LEMMA FakerInitially == ASSUME FakerInit PROVE FakerInv
<1>1. PICK g \in FakerGraphs : FakerFrom(g)
  BY DEF FakerInit
<1>2. nodeOf \in FakerGraphs /\ pending = <<Task(1, Root)>> /\ cache = <<>> /\ handed = {}
  BY <1>1 DEF FakerFrom
<1>3. Task(1, Root) \in FakerTask
  <2>1. 1 \in DOMAIN nodeOf
    BY <1>2, SchemasAssumption
  <2>2. Root \in FakerNames
    BY DEF Root, FakerNames
  <2> QED
    BY <2>1, <2>2 DEF Task, FakerTask
<1>4. pending \in Seq(FakerTask)
  BY <1>2, <1>3
<1>5. DOMAIN cache = {}
  BY <1>2
<1>6. CacheInv /\ ReachedInv
  BY <1>5 DEF CacheInv, ReachedInv
<1> QED
  BY <1>2, <1>4, <1>6 DEF FakerInv, HandedInv

LEMMA EnhancedStays ==
    ASSUME nodeOf' = nodeOf, NEW CONSTANT n, NEW CONSTANT context
    PROVE  Enhanced(n, context)' = Enhanced(n, context)
<1>1. Stripped(n)' = Stripped(n)
  BY DEF Stripped
<1> QED
  BY <1>1 DEF Enhanced

LEMMA EnhanceKeeps == ASSUME FakerInv, Enhance PROVE FakerInv'
<1> DEFINE t == Head(pending)
           key == KeyOf(t.node, t.context)
           product == Enhanced(t.node, t.context)
           rest == Tail(pending)
<1>1. /\ nodeOf \in FakerGraphs /\ nodeOf' = nodeOf /\ handed' = handed
      /\ pending \in Seq(FakerTask) /\ pending # <<>>
  BY DEF FakerInv, Enhance
<1>2. handed = {} /\ HandedInv'
  BY <1>1 DEF FakerInv, HandedInv
<1>3. /\ t \in FakerTask /\ rest \in Seq(FakerTask) /\ Len(rest) \in Nat /\ Len(pending) = Len(rest) + 1
      /\ t = pending[1] /\ \A i \in 1 .. Len(rest) : rest[i] = pending[i + 1]
  <2>1. Len(pending) \in Nat /\ Len(pending) # 0
    BY <1>1, LenProperties, EmptySeq
  <2> QED
    BY <1>1, <2>1
<1>4. t.node \in DOMAIN nodeOf /\ t.context \in FakerNames /\ key = <<t.node, t.context>>
  <2> HIDE DEF t
  <2> QED
    BY <1>3 DEF FakerTask, KeyOf
<1>5. FakerTask' = FakerTask
  BY <1>1 DEF FakerTask
<1>9. PICK a \in DOMAIN nodeOf, b \in FakerNames : a = t.node /\ b = t.context
  BY <1>4
<1> DEFINE RestKeys == {KeyOf(rest[i].node, rest[i].context) : i \in 1 .. Len(rest)}
<1>6. PendingKeys \subseteq RestKeys \cup {key}
  <2> SUFFICES ASSUME NEW i \in 1 .. Len(pending)
               PROVE  KeyOf(pending[i].node, pending[i].context) \in RestKeys \cup {key}
    BY DEF PendingKeys
  <2>1. CASE i = 1
    BY <1>3, <2>1
  <2>2. CASE i # 1
    <3> DEFINE j == i - 1
    <3>1. j \in 1 .. Len(rest) /\ j + 1 = i
      BY <1>3, <2>2
    <3> HIDE DEF j, rest, t
    <3>2. rest[j] = pending[i]
      BY <1>3, <3>1
    <3> QED
      BY <3>1, <3>2
  <2> QED
    BY <2>1, <2>2
<1> HIDE DEF RestKeys
<1>7. CASE key \in DOMAIN cache
  <2>1. pending' = rest /\ cache' = cache
    BY <1>7 DEF Enhance
  <2>2. pending' \in Seq(FakerTask')
    BY <1>3, <1>5, <2>1
  <2>3. CacheInv'
    <3> SUFFICES ASSUME NEW k \in DOMAIN cache
                 PROVE  /\ k \in (DOMAIN nodeOf) \X FakerNames
                        /\ cache[k] = Enhanced(k[1], k[2])'
      BY <1>1, <2>1 DEF CacheInv
    <3>1. k \in (DOMAIN nodeOf) \X FakerNames /\ cache[k] = Enhanced(k[1], k[2])
      BY DEF FakerInv, CacheInv
    <3> QED
      BY <1>1, <3>1, EnhancedStays
  <2>4. PendingKeys' = RestKeys
    BY <2>1 DEF PendingKeys, RestKeys
  <2>5. ReachedInv'
    <3> SUFFICES ASSUME NEW k \in DOMAIN cache, NEW i \in DOMAIN cache[k].edges
                 PROVE  cache[k].edges[i].key \in DOMAIN cache \cup RestKeys
      BY <2>1, <2>4 DEF ReachedInv
    <3>1. cache[k].edges[i].key \in DOMAIN cache \cup PendingKeys
      BY DEF FakerInv, ReachedInv
    <3> HIDE DEF key
    <3> QED
      BY <1>6, <1>7, <3>1
  <2> QED
    BY <1>1, <1>2, <2>2, <2>3, <2>5 DEF FakerInv
<1>8. CASE key \notin DOMAIN cache
  <2>1. /\ pending' = product.below \o rest
        /\ cache' = [k \in DOMAIN cache \cup {key} |-> IF k = key THEN product ELSE cache[k]]
    BY <1>8 DEF Enhance
  <2>2. /\ product.edges \in Seq(MadeEdge) /\ product.below \in Seq(FakerTask)
        /\ Len(product.below) = Len(product.edges)
        /\ \A i \in DOMAIN product.edges :
              product.edges[i].key = KeyOf(product.below[i].node, product.below[i].context)
    <3> HIDE DEF t
    <3> QED
      BY <1>1, <1>4, EnhancedIs
  <2> DEFINE below == product.below
  <2> HIDE DEF product, key, t, rest
  <2> HIDE DEF below
  <2>11. below \in Seq(FakerTask) /\ pending' = below \o rest
    BY <2>1, <2>2 DEF below
  <2>3. /\ pending' \in Seq(FakerTask) /\ Len(pending') = Len(below) + Len(rest)
        /\ \A i \in 1 .. Len(below) + Len(rest) :
              pending'[i] = IF i <= Len(below) THEN below[i] ELSE rest[i - Len(below)]
    BY <1>3, <2>11, ConcatProperties
  <2>4. Len(below) \in Nat /\ DOMAIN product.edges = 1 .. Len(below)
    BY <2>2, LenProperties DEF below
  <2>5. RestKeys \subseteq PendingKeys'
    <3> SUFFICES ASSUME NEW i \in 1 .. Len(rest)
                 PROVE  KeyOf(rest[i].node, rest[i].context) \in PendingKeys'
      BY DEF RestKeys
    <3> DEFINE j == Len(below) + i
    <3>1. j \in 1 .. Len(below) + Len(rest) /\ ~(j <= Len(below)) /\ j - Len(below) = i
      BY <1>3, <2>4
    <3> HIDE DEF j
    <3>2. pending'[j] = rest[i] /\ j \in 1 .. Len(pending')
      BY <2>3, <3>1
    <3> QED
      BY <3>2 DEF PendingKeys
  <2>6. ASSUME NEW i \in DOMAIN product.edges PROVE product.edges[i].key \in PendingKeys'
    <3>1. i \in 1 .. Len(below) + Len(rest) /\ i <= Len(below)
      BY <1>3, <2>4
    <3>2. pending'[i] = below[i] /\ i \in 1 .. Len(pending')
      BY <2>3, <3>1
    <3>3. product.edges[i].key = KeyOf(pending'[i].node, pending'[i].context)
      BY <2>2, <3>2 DEF below
    <3> QED
      BY <3>2, <3>3 DEF PendingKeys
  <2>7. DOMAIN cache' = DOMAIN cache \cup {key} /\ cache'[key] = product
        /\ \A k \in DOMAIN cache : cache'[k] = cache[k]
    BY <1>8, <2>1
  <2>8. CacheInv'
    <3>1. ASSUME NEW k \in DOMAIN cache PROVE cache[k] = Enhanced(k[1], k[2])'
      <4>1. cache[k] = Enhanced(k[1], k[2])
        BY DEF FakerInv, CacheInv
      <4> QED
        BY <1>1, <4>1, EnhancedStays
    <3>2. key = <<a, b>> /\ product = Enhanced(a, b)'
      <4>1. product = Enhanced(a, b) /\ key = <<a, b>>
        BY <1>4, <1>9 DEF product
      <4> QED
        BY <1>1, <4>1, EnhancedStays
    <3>3. key \in (DOMAIN nodeOf) \X FakerNames
      BY <1>4
    <3>4. DOMAIN cache' \subseteq (DOMAIN nodeOf') \X FakerNames
      BY <1>1, <2>7, <3>3 DEF FakerInv, CacheInv
    <3>5. ASSUME NEW k \in DOMAIN cache' PROVE cache'[k] = Enhanced(k[1], k[2])'
      <4>1. CASE k = key
        <5>1. k[1] = a /\ k[2] = b /\ cache'[k] = product
          BY <2>7, <3>2, <4>1
        <5> QED
          BY <3>2, <5>1
      <4>2. CASE k # key
        <5>1. k \in DOMAIN cache /\ cache'[k] = cache[k]
          BY <2>7, <4>2
        <5> QED
          BY <3>1, <5>1
      <4> QED
        BY <4>1, <4>2
    <3> QED
      BY <3>4, <3>5 DEF CacheInv
  <2>9. ReachedInv'
    <3>1. ASSUME NEW k \in DOMAIN cache, NEW i \in DOMAIN cache[k].edges
          PROVE  cache[k].edges[i].key \in DOMAIN cache' \cup PendingKeys'
      <4>1. cache[k].edges[i].key \in DOMAIN cache \cup PendingKeys
        BY DEF FakerInv, ReachedInv
      <4> QED
        BY <1>6, <2>5, <2>7, <4>1
    <3>2. \A k \in DOMAIN cache' : \A i \in DOMAIN cache'[k].edges :
             cache'[k].edges[i].key \in DOMAIN cache' \cup PendingKeys'
      BY <2>6, <2>7, <3>1
    <3> QED
      BY <3>2 DEF ReachedInv
  <2> QED
    BY <1>1, <1>2, <1>5, <2>3, <2>8, <2>9 DEF FakerInv
<1> QED
  BY <1>7, <1>8

LEMMA FakerStutter == ASSUME FakerInv, UNCHANGED <<nodeOf, pending, cache>>, HandedInv' PROVE FakerInv'
<1>1. nodeOf' \in FakerGraphs /\ pending' \in Seq(FakerTask')
  BY DEF FakerInv, FakerTask
<1>2. CacheInv'
  <2> SUFFICES ASSUME NEW k \in DOMAIN cache
               PROVE  /\ k \in (DOMAIN nodeOf) \X FakerNames
                      /\ cache[k] = Enhanced(k[1], k[2])'
    BY DEF CacheInv
  <2>1. k \in (DOMAIN nodeOf) \X FakerNames /\ cache[k] = Enhanced(k[1], k[2])
    BY DEF FakerInv, CacheInv
  <2> QED
    BY <2>1, EnhancedStays
<1>3. ReachedInv'
  BY DEF FakerInv, ReachedInv, PendingKeys
<1> QED
  BY <1>1, <1>2, <1>3 DEF FakerInv

LEMMA FakerKeeps == ASSUME FakerInv, [FakerNext]_fakerVars PROVE FakerInv'
<1>1. CASE Enhance
  BY <1>1, EnhanceKeeps
<1>2. CASE Hand
  <2>1. HandedInv'
    <3>1. handed' = {[key \in DOMAIN cache |-> ForJsf(cache[key])]}
      BY <1>2 DEF Hand
    <3> QED
      BY <1>2, <3>1 DEF Hand, HandedInv, ForJsf
  <2> QED
    BY <1>2, <2>1, FakerStutter DEF Hand
<1>3. CASE UNCHANGED fakerVars
  <2>1. HandedInv'
    BY <1>3 DEF fakerVars, FakerInv, HandedInv
  <2> QED
    BY <1>3, <2>1, FakerStutter DEF fakerVars
<1> QED
  BY <1>1, <1>2, <1>3 DEF FakerNext

-----------------------------------------------------------------------------
(* The mapping that is chosen. *)

LEMMA MostScore ==
    ASSUME NEW S \in SUBSET (0 .. 100), S # {}
    PROVE  Max(S) \in S
<1> DEFINE f == [x \in S |-> x]
<1>1. f \in [S -> 0 .. 100]
  OBVIOUS
<1>2. PICK m \in S : \A y \in S : f[m] >= f[y]
  <2> HIDE DEF f
  <2> QED
    BY <1>1, Most
<1>3. \A y \in S : y <= m
  BY <1>2
<1>4. S \in SUBSET Nat
  OBVIOUS
<1>5. Max(S) = m
  BY <1>3, <1>4, MaxIs
<1> QED
  BY <1>5

LEMMA ScoreType ==
    ASSUME NEW name, NEW mapping
    PROVE  ScoreMatch(name, mapping) \in 0 .. 100
<1>1. ASSUME NEW k PROVE KeywordScore(name, k) \in 0 .. 100
  <2> DEFINE covered == k # <<>> /\ ToSet(k) \subseteq ToSet(name)
             atEnd == k # <<>> /\ IsSuffix(k, name)
             scores == (IF covered THEN {IF 2 * Len(k) > Len(name) THEN 90 ELSE 65} ELSE {})
                       \cup (IF atEnd THEN {80} ELSE {})
                       \cup (IF Len(Joined(k)) >= 3 /\ Holds(Joined(name), Joined(k))
                             THEN {70} ELSE {})
  <2>1. {0} \cup scores \in SUBSET (0 .. 100) /\ {0} \cup scores # {}
    <3> HIDE DEF covered, atEnd
    <3> QED
      OBVIOUS
  <2>2. KeywordScore(name, k) = IF Joined(name) = Joined(k) THEN 100 ELSE Max({0} \cup scores)
    BY Zenon DEF KeywordScore
  <2> HIDE DEF scores
  <2>3. Max({0} \cup scores) \in 0 .. 100
    BY <2>1, MostScore
  <2>4. 100 \in 0 .. 100
    OBVIOUS
  <2> QED
    BY <2>2, <2>3, <2>4
<1> DEFINE T == {0} \cup {KeywordScore(name, k) : k \in ToSet(mapping.keywords)}
<1>2. T \in SUBSET (0 .. 100) /\ T # {}
  BY <1>1
<1>3. Max(T) \in 0 .. 100
  <2> HIDE DEF T
  <2> QED
    BY <1>2, MostScore
<1> QED
  BY <1>3 DEF ScoreMatch

\* What chooses a mapping: the format of a uuid, a name that ends in "id", or the
\* table, from which one that the schema does not forbid.
LEMMA BestIsOne ==
    ASSUME NEW name, NEW s, NEW chosen \in FindBestMapping(name, s)
    PROVE  /\ FindBestMapping(name, s) = {chosen}
           /\ \/ s.types = {"string"} /\ s.format = {"uuid"} /\ chosen = UuidMapping
              \/ ~IsSettled(s) /\ s.types = {"string"} /\ chosen = UuidMapping
              \/ ~IsSettled(s) /\ ~Skips(s, chosen)
<1> DEFINE Score(i) == ScoreMatch(name, FieldMappings[i])
           fitting == {i \in DOMAIN FieldMappings :
                          ~Skips(s, FieldMappings[i]) /\ Score(i) >= FieldMappings[i].minScore}
           best == {i \in fitting : \A j \in fitting :
                       Score(i) > Score(j) \/ (Score(i) = Score(j) /\ i <= j)}
           given == s.types = {"string"} /\ s.format = {"uuid"}
           ends == s.types = {"string"} /\ IsIdentifier(name) /\ \A i \in best : Score(i) < 80
<1>1. FindBestMapping(name, s) =
         IF given THEN {UuidMapping} ELSE IF IsSettled(s) THEN {}
         ELSE IF ends THEN {UuidMapping} ELSE {FieldMappings[i] : i \in best}
  BY DEF FindBestMapping
<1>2. best \subseteq DOMAIN FieldMappings /\ DOMAIN FieldMappings \subseteq Nat
      /\ \A i \in best : ~Skips(s, FieldMappings[i])
  <2>1. DOMAIN FieldMappings = 1 .. Len(FieldMappings) /\ Len(FieldMappings) \in Nat
    BY MappingsAssumption, ListIs
  <2> QED
    BY <2>1
<1>3. ASSUME NEW i \in best, NEW j \in best PROVE i = j
  <2>1. Score(i) \in 0 .. 100 /\ Score(j) \in 0 .. 100
    BY ScoreType
  <2>2. /\ i \in Nat /\ j \in Nat
        /\ Score(i) > Score(j) \/ (Score(i) = Score(j) /\ i <= j)
        /\ Score(j) > Score(i) \/ (Score(j) = Score(i) /\ j <= i)
    BY <1>2
  <2> HIDE DEF Score
  <2> QED
    BY <2>1, <2>2
<1> HIDE DEF best, given, ends
<1>4. CASE given
  BY <1>1, <1>4 DEF given
<1>5. CASE ~given /\ ~IsSettled(s) /\ ends
  BY <1>1, <1>5 DEF ends
<1>6. CASE ~given /\ ~IsSettled(s) /\ ~ends
  <2>1. FindBestMapping(name, s) = {FieldMappings[i] : i \in best}
    BY <1>1, <1>6
  <2>2. PICK i \in best : chosen = FieldMappings[i]
    BY <2>1
  <2>3. FindBestMapping(name, s) = {chosen}
    BY <1>3, <2>1, <2>2
  <2> QED
    BY <1>2, <1>6, <2>2, <2>3
<1> QED
  BY <1>1, <1>4, <1>5, <1>6

-----------------------------------------------------------------------------
(* The clauses of the contract. *)

\* The generator that m has is none of a name, or the best for the name.
NamedFor(m, context, s) ==
    \/ m.faker = {} \/ m.faker = {Word}
    \/ /\ context # Root
       /\ m.faker = FindBestMapping(context, s)
       /\ {"const", "enum"} \cap s.keys = {}
       /\ m.format = IF s.format = {} THEN UNION {b.format : b \in m.faker} ELSE s.format

LEMMA EnhancedSchema ==
    ASSUME NEW n, NEW context
    PROVE  LET product == Enhanced(n, context) IN
           /\ product.node = n /\ product.types = Stripped(n).types /\ product.keys = Stripped(n).keys
           /\ NamedFor(product, context, Stripped(n))
<1> DEFINE s == Stripped(n)
           product == Enhanced(n, context)
           choice == IF Chosen(n, context) THEN [faker |-> {}, format |-> {}] ELSE Choice(context, s)
           best == FindBestMapping(context, s)
<1>1. /\ product.node = n /\ product.types = s.types /\ product.keys = s.keys /\ product.faker = choice.faker
      /\ product.format = IF s.format = {} THEN choice.format ELSE s.format
  BY DEF Enhanced, Chosen
<1> DEFINE named == /\ context # Root /\ {"const", "enum"} \cap s.keys = {}
                    /\ choice = [faker |-> best, format |-> UNION {b.format : b \in best}]
<1>2. choice.faker = {} \/ choice.faker = {Word} \/ named
  BY DEF Choice
<1> HIDE DEF s, product, choice, best
<1>3. CASE named
  <2>1. choice.faker = best /\ choice.format = UNION {b.format : b \in best}
    BY <1>3
  <2> QED
    BY <1>1, <1>3, <2>1 DEF s, product, best, NamedFor
<1>4. CASE choice.faker = {} \/ choice.faker = {Word}
  BY <1>1, <1>4 DEF s, product, NamedFor
<1> QED
  BY <1>2, <1>3, <1>4

LEMMA HandedSchema ==
    ASSUME NEW product
    PROVE  LET s == ForJsf(product)
               kept == KeptForJsf(product.edges)
           IN  /\ s.node = product.node /\ s.types = product.types /\ s.keys = product.keys \ {"unknown"}
               /\ s.faker = product.faker /\ s.format = product.format /\ s.rest = RestOf(product.edges)
               /\ s.edges = [i \in DOMAIN kept |-> [kept[i] EXCEPT !.role = JsfRole(product.edges, kept[i].role)]]
<1> DEFINE kept == KeptForJsf(product.edges)
           edges == [i \in DOMAIN kept |-> [kept[i] EXCEPT !.role = JsfRole(product.edges, kept[i].role)]]
           keys == product.keys \ {"unknown"}
<1>1. ForJsf(product) = [node |-> product.node, types |-> product.types, keys |-> keys,
                      format |-> product.format, faker |-> product.faker, rest |-> RestOf(product.edges),
                      edges |-> edges]
  BY Zenon DEF ForJsf, JsfKeywords
<1> HIDE DEF edges, keys
<1>2. /\ ForJsf(product).node = product.node /\ ForJsf(product).types = product.types /\ ForJsf(product).keys = keys
      /\ ForJsf(product).faker = product.faker /\ ForJsf(product).format = product.format
      /\ ForJsf(product).rest = RestOf(product.edges) /\ ForJsf(product).edges = edges
  BY <1>1
<1> QED
  BY <1>2, Zenon DEF edges, keys

LEMMA ContractRespected ==
    ASSUME NEW n, NEW context, Cardinality(Stripped(n).types) = 1, IsFiniteSet(Stripped(n).types)
    PROVE  RespectsContract(ForJsf(Enhanced(n, context)))
<1> DEFINE S == Stripped(n)
           product == Enhanced(n, context)
           s == ForJsf(product)
<1>1. /\ s.node = n /\ s.types = S.types /\ s.keys = S.keys \ {"unknown"}
      /\ s.faker = product.faker /\ s.format = product.format
  <2> DEFINE m == ForJsf(product)
  <2>1. /\ m.node = product.node /\ m.types = product.types /\ m.keys = product.keys \ {"unknown"}
        /\ m.faker = product.faker /\ m.format = product.format
    BY HandedSchema, Zenon
  <2>2. product.node = n /\ product.types = S.types /\ product.keys = S.keys
    BY EnhancedSchema, Zenon
  <2> HIDE DEF m, product, S
  <2>3. /\ m.node = n /\ m.types = S.types /\ m.keys = S.keys \ {"unknown"}
        /\ m.faker = product.faker /\ m.format = product.format
    BY <2>1, <2>2
  <2> QED
    BY <2>3 DEF m
<1>2. PICK type : S.types = {type}
  BY FS_Singleton
<1> SUFFICES ASSUME NEW chosen \in s.faker \ {Word}
             PROVE  LET isUuid == S.format = {"uuid"} IN
                    /\ s.types \cap {"object", "array"} = {}
                    /\ chosen.type = {} \/ chosen.type = s.types \/ chosen.type \cup s.types \subseteq Numeric
                    /\ isUuid \/ s.format \cap Generatable \subseteq chosen.format
                    /\ isUuid \/ s.keys \cap Constraints \subseteq
                          CASE s.types = {"string"} -> {"bounds"}
                            [] s.types \subseteq Numeric -> {"length"}
                            [] OTHER -> {"length", "bounds"}
  BY <1>1 DEF RespectsContract
<1>3. /\ product.faker = FindBestMapping(context, S)
      /\ {"const", "enum"} \cap S.keys = {}
      /\ product.format = IF S.format = {} THEN UNION {b.format : b \in product.faker} ELSE S.format
  <2>1. NamedFor(product, context, S)
    BY EnhancedSchema
  <2>2. chosen \in product.faker \ {Word}
    BY <1>1
  <2> HIDE DEF product, S
  <2> QED
    BY <2>1, <2>2 DEF NamedFor
<1>4. /\ product.faker = {chosen}
      /\ \/ S.types = {"string"} /\ S.format = {"uuid"} /\ chosen = UuidMapping
         \/ ~IsSettled(S) /\ S.types = {"string"} /\ chosen = UuidMapping
         \/ ~IsSettled(S) /\ ~Skips(S, chosen)
  <2>1. chosen \in FindBestMapping(context, S)
    BY <1>1, <1>3
  <2> HIDE DEF S
  <2> QED
    BY <1>3, <2>1, BestIsOne
<1>5. s.format = IF S.format = {} THEN chosen.format ELSE S.format
  <2>1. s.format = product.format /\ product.faker = {chosen}
    BY <1>1, <1>4
  <2> HIDE DEF s, S, product
  <2>2. S.format = {} => s.format = UNION {b.format : b \in {chosen}}
    BY <1>3, <2>1
  <2>3. UNION {b.format : b \in {chosen}} = chosen.format
    OBVIOUS
  <2> QED
    BY <1>3, <2>1, <2>2, <2>3
<1> HIDE DEF S, s, product
<1>6. CASE S.types = {"string"} /\ S.format = {"uuid"} /\ chosen = UuidMapping
  BY <1>1, <1>6 DEF UuidMapping
<1>7. CASE ~IsSettled(S)
  <2>1. /\ S.keys \cap {"pattern", "enum", "faker", "$ref"} = {} /\ S.format \cap Generatable = {}
        /\ S.types = {"string"} => "length" \notin S.keys
    BY <1>7 DEF IsSettled
  <2>2. s.format \cap Generatable \subseteq chosen.format
    BY <1>5, <2>1
  <2>3. s.keys \cap Constraints \subseteq {"length", "bounds"}
    BY <1>1, <1>3, <2>1 DEF Constraints
  <2>4. CASE S.types = {"string"}
    <3>1. s.keys \cap Constraints \subseteq {"bounds"}
      BY <1>1, <2>1, <2>3, <2>4
    <3>2. s.types \cap {"object", "array"} = {}
      BY <1>1, <2>4
    <3>3. chosen.type = {} \/ chosen.type = s.types \/ chosen.type \cup s.types \subseteq Numeric
      <4>1. CASE chosen = UuidMapping
        <5>1. chosen.type = {"string"}
          BY <4>1 DEF UuidMapping
        <5> QED
          BY <1>1, <2>4, <5>1
      <4>2. CASE chosen # UuidMapping
        <5>1. ~Skips(S, chosen) /\ Cardinality(S.types) = 1
          BY <1>4, <4>2 DEF S
        <5>2. chosen.type = {} \/ chosen.type = S.types \/ chosen.type \cup S.types \subseteq Numeric
          BY <5>1 DEF Skips
        <5> QED
          BY <1>1, <5>2
      <4> QED
        BY <4>1, <4>2
    <3>4. s.types = {"string"}
      BY <1>1, <2>4
    <3> QED
      BY <2>2, <3>1, <3>2, <3>3, <3>4 DEF Numeric
  <2>5. CASE S.types # {"string"}
    <3>1. ~Skips(S, chosen)
      BY <1>4, <2>5
    <3>2. /\ S.types # {"object"} /\ S.types # {"array"}
          /\ S.types \subseteq Numeric => "bounds" \notin S.keys
          /\ chosen.type = {} \/ chosen.type = S.types \/ chosen.type \cup S.types \subseteq Numeric
      BY <3>1 DEF Skips, S
    <3>3. s.types \cap {"object", "array"} = {}
      BY <1>1, <1>2, <3>2
    <3>4. S.types \subseteq Numeric => s.keys \cap Constraints \subseteq {"length"}
      BY <1>1, <2>3, <3>2
    <3> QED
      BY <1>1, <2>2, <2>3, <2>5, <3>2, <3>3, <3>4
  <2> QED
    BY <2>4, <2>5
<1> QED
  BY <1>4, <1>6, <1>7 DEF S, s

-----------------------------------------------------------------------------
(* The edges that are handed. *)

JsfRoles == STRING \cup {"prefixItem", "items", "verbatim"}
JsfEdge == [role : JsfRoles, name : FakerNames, key : (DOMAIN nodeOf) \X FakerNames]

LEMMA JsfRoleIs ==
    ASSUME NEW edges, NEW role \in STRING
    PROVE  JsfRole(edges, role) \in JsfRoles
<1>1. CASE role = "item"
  BY <1>1 DEF JsfRole, JsfRoles
<1>2. CASE role = "additionalItems" /\ IsTuple(edges)
  BY <1>2 DEF JsfRole, JsfRoles
<1>3. CASE role = "additionalItems" /\ ~IsTuple(edges) /\ ToNode(edges, "items") = <<>>
  BY <1>3 DEF JsfRole, JsfRoles
<1>4. CASE /\ role # "item"
           /\ ~(role = "additionalItems" /\ IsTuple(edges))
           /\ ~(role = "additionalItems" /\ ~IsTuple(edges) /\ ToNode(edges, "items") = <<>>)
  <2>1. JsfRole(edges, role) = role
    BY <1>4 DEF JsfRole
  <2> QED
    BY <2>1 DEF JsfRoles
<1> QED
  BY <1>1, <1>2, <1>3, <1>4

LEMMA HandedEdges ==
    ASSUME NEW product, product.edges \in Seq(MadeEdge)
    PROVE  LET K == product.edges
               kept == KeptForJsf(K)
               J == ForJsf(product).edges
           IN  /\ kept \in Seq(MadeEdge) /\ Left(kept, K, IF IsTuple(K) THEN {"prefixItem"} ELSE {})
               /\ J \in Seq(JsfEdge) /\ Len(J) = Len(kept)
               /\ \A i \in DOMAIN J : /\ J[i].role = JsfRole(K, kept[i].role)
                                      /\ J[i].name = kept[i].name /\ J[i].key = kept[i].key
<1> DEFINE K == product.edges
           kept == KeptForJsf(K)
           J == ForJsf(product).edges
           Renamed(i) == [kept[i] EXCEPT !.role = JsfRole(K, kept[i].role)]
<1>1. kept \in Seq(MadeEdge) /\ Left(kept, K, IF IsTuple(K) THEN {"prefixItem"} ELSE {})
  <2> HIDE DEF K
  <2> QED
    BY OthersAre DEF KeptForJsf, K
<1>2. J = [i \in DOMAIN kept |-> Renamed(i)]
  BY HandedSchema
<1>3. Len(kept) \in Nat /\ DOMAIN kept = 1 .. Len(kept) /\ \A i \in DOMAIN kept : kept[i] \in MadeEdge
  <2> HIDE DEF kept
  <2> QED
    BY <1>1, ListIs
<1> HIDE DEF J, K, kept
<1>4. ASSUME NEW i \in DOMAIN kept
      PROVE  /\ Renamed(i) \in JsfEdge /\ Renamed(i).role = JsfRole(K, kept[i].role)
             /\ Renamed(i).name = kept[i].name /\ Renamed(i).key = kept[i].key
  <2>1. kept[i] \in MadeEdge
    BY <1>3
  <2>2. JsfRole(K, kept[i].role) \in JsfRoles
    BY <2>1, JsfRoleIs DEF MadeEdge
  <2> QED
    BY <2>1, <2>2 DEF MadeEdge, JsfEdge
<1> HIDE DEF Renamed
<1>5. J \in Seq(JsfEdge) /\ Len(J) = Len(kept) /\ \A i \in DOMAIN J : J[i] = Renamed(i)
  BY <1>2, <1>3, <1>4
<1>6. \A i \in DOMAIN J : /\ J[i].role = JsfRole(K, kept[i].role)
                          /\ J[i].name = kept[i].name /\ J[i].key = kept[i].key
  BY <1>2, <1>4, <1>5
<1> QED
  BY <1>1, <1>5, <1>6 DEF J, K, kept

\* The keys of C are of the nodes of D.
KeysOf(C, D) == Len(C) = Len(D) /\ \A k \in DOMAIN C : C[k].key[1] = D[k].to

\* What is enhanced has the places of the schema, in order.
LEMMA MadePlaces ==
    ASSUME nodeOf \in FakerGraphs, NEW n \in DOMAIN nodeOf, NEW context, ~Chosen(n, context),
           NEW role, role # "unknown"
    PROVE  KeysOf(ToNode(Enhanced(n, context).edges, role), ToNode(Stripped(n).edges, role))
<1> DEFINE O == Stripped(n).edges
           R == RolesOf(O) \ {"unknown"}
           A == ToNodes(O, R)
           K == Enhanced(n, context).edges
           C == ToNodes(K, {role})
           D == ToNodes(O, {role})
<1>1. O \in Seq(FakerEdge)
  BY StrippedIs
<1>2. A = KnownEdges(n)
  BY DEF KnownEdges, ToOthers
<1>3. /\ K \in Seq(MadeEdge) /\ Len(K) = Len(A)
      /\ \A i \in DOMAIN K : K[i] = [role |-> A[i].role, name |-> A[i].name,
                                     key |-> <<A[i].to, ContextOf(A[i])>>]
  <2> HIDE DEF K, A
  <2> QED
    BY <1>2, EnhancedIs DEF K
<1>4. \A i \in DOMAIN K : K[i].role = A[i].role /\ K[i].key[1] = A[i].to
  <2> HIDE DEF K, A
  <2> TAKE i \in DOMAIN K
  <2>1. K[i] = [role |-> A[i].role, name |-> A[i].name, key |-> <<A[i].to, ContextOf(A[i])>>]
    BY <1>3
  <2> QED
    BY <2>1
<1>5. \A i \in DOMAIN O : O[i].role \in {role} => O[i].role \in R
  BY DEF RolesOf, ToSet
<1>6. \A i \in DOMAIN K : K[i].role \in {role} <=> A[i].role \in {role}
  BY <1>4
<1>7. /\ Len(C) = Len(D)
      /\ \A k \in DOMAIN C : \E j \in DOMAIN K : C[k] = K[j] /\ D[k] = A[j]
  <2> HIDE DEF O, K, R
  <2> QED
    <3>1. Renames(K, ToNodes(O, R), {role}, {role}) /\ Within(O, {role}, R)
      BY <1>3, <1>5, <1>6 DEF Renames, Within
    <3>2. Follows(C, D, K, A)
      <4>1. Follows(ToNodes(K, {role}), ToNodes(O, {role}), K, ToNodes(O, R))
        BY <1>1, <1>3, <3>1, SelectionFollows
      <4> QED
        BY <4>1, Zenon
    <3> QED
      BY <3>2, Zenon DEF Follows
<1>8. \A k \in DOMAIN C : C[k].key[1] = D[k].to
  <2> HIDE DEF C, D, K, A
  <2> QED
    BY <1>4, <1>7
<1> QED
  BY <1>7, <1>8 DEF ToNode, KeysOf

\* What is handed has those of a tuple, or its own, in order.
LEMMA HandedPlaces ==
    ASSUME NEW product, product.edges \in Seq(MadeEdge)
    PROVE  LET K == product.edges
               J == ForJsf(product).edges
               role == IF IsTuple(K) THEN "item" ELSE "prefixItem"
           IN  /\ Len(ToNode(J, "prefixItem")) = Len(ToNode(K, role))
               /\ \A k \in DOMAIN ToNode(J, "prefixItem") :
                     ToNode(J, "prefixItem")[k].key = ToNode(K, role)[k].key
<1> DEFINE K == product.edges
           J == ForJsf(product).edges
           role == IF IsTuple(K) THEN "item" ELSE "prefixItem"
           dropped == IF IsTuple(K) THEN {"prefixItem"} ELSE {}
           R == RolesOf(K) \ dropped
           A == ToNodes(K, R)
           C == ToNodes(J, {"prefixItem"})
           D == ToNodes(K, {role})
<1>1. A = KeptForJsf(K)
  BY DEF KeptForJsf, ToOthers
<1>2. /\ A \in Seq(MadeEdge) /\ Left(A, K, dropped) /\ J \in Seq(JsfEdge) /\ Len(J) = Len(A)
      /\ \A i \in DOMAIN J : J[i].role = JsfRole(K, A[i].role) /\ J[i].key = A[i].key
  <2> HIDE DEF A
  <2> QED
    BY <1>1, HandedEdges
<1>3. K \in Seq(MadeEdge) /\ DOMAIN J = DOMAIN A
  <2> HIDE DEF A, J
  <2> QED
    BY <1>2, LenProperties
<1>4. \A i \in DOMAIN K : K[i].role \in {role} => K[i].role \in R
  BY DEF RolesOf, ToSet
<1>5. \A i \in DOMAIN J : J[i].role \in {"prefixItem"} <=> A[i].role \in {role}
  <2> TAKE i \in DOMAIN J
  <2> HIDE DEF A, J, K
  <2>1. A[i].role \notin dropped
    BY <1>2, <1>3 DEF Left
  <2>2. ~IsTuple(K) => A[i].role # "item"
    <3>1. PICK k \in DOMAIN K : K[k] = A[i]
      BY <1>2, <1>3 DEF Left
    <3>2. ~IsTuple(K) => \A j \in DOMAIN K : K[j].role \notin {"item"}
      BY <1>3, SelectionEmpty DEF IsTuple, ToNode
    <3> QED
      BY <3>1, <3>2
  <2>3. J[i].role = JsfRole(K, A[i].role)
    BY <1>2
  <2> QED
    BY <2>1, <2>2, <2>3 DEF JsfRole
<1>6. /\ Len(C) = Len(D)
      /\ \A k \in DOMAIN C : \E j \in DOMAIN J : C[k] = J[j] /\ D[k] = A[j]
  <2> HIDE DEF J, K, R, role
  <2> QED
    <3>1. Renames(J, ToNodes(K, R), {"prefixItem"}, {role}) /\ Within(K, {role}, R)
      BY <1>2, <1>4, <1>5 DEF Renames, Within
    <3>2. Follows(C, D, J, A)
      <4>1. Follows(ToNodes(J, {"prefixItem"}), ToNodes(K, {role}), J, ToNodes(K, R))
        BY <1>2, <1>3, <3>1, SelectionFollows
      <4> QED
        BY <4>1, Zenon
    <3> QED
      BY <3>2, Zenon DEF Follows
<1>7. \A k \in DOMAIN C : C[k].key = D[k].key
  <2> HIDE DEF C, D, J, A
  <2> QED
    BY <1>2, <1>6
<1> QED
  BY <1>6, <1>7 DEF ToNode

\* A property that has a generator has the one for its name.
LEMMA NameIsSeen ==
    ASSUME FakerInv, NEW key \in DOMAIN cache, NEW i \in DOMAIN ForJsf(cache[key]).edges,
           ForJsf(cache[key]).edges[i].key \in DOMAIN cache
    PROVE  LET edge == ForJsf(cache[key]).edges[i]
               target == ForJsf(cache[edge.key])
           IN  edge.role = "property" /\ target.faker # {} /\ target.faker # {Word}
                  => target.faker = FindBestMapping(edge.name, Stripped(target.node))
<1> DEFINE n == key[1]
           context == key[2]
           product == Enhanced(n, context)
           K == product.edges
           kept == KeptForJsf(K)
           J == ForJsf(product).edges
           target == ForJsf(cache[J[i].key])
<1>1. n \in DOMAIN nodeOf /\ cache[key] = product /\ nodeOf \in FakerGraphs
  BY DEF FakerInv, CacheInv
<1>2. /\ K \in Seq(MadeEdge)
      /\ Chosen(n, context) => K = <<>>
      /\ ~Chosen(n, context) =>
            \A j \in DOMAIN K : /\ K[j].name = KnownEdges(n)[j].name
                                /\ K[j].role = KnownEdges(n)[j].role
                                /\ K[j].key = <<KnownEdges(n)[j].to, ContextOf(KnownEdges(n)[j])>>
  <2>1. /\ K \in Seq(MadeEdge)
        /\ Chosen(n, context) => K = <<>>
        /\ ~Chosen(n, context) =>
              \A j \in DOMAIN K :
                 K[j] = [role |-> KnownEdges(n)[j].role, name |-> KnownEdges(n)[j].name,
                         key |-> <<KnownEdges(n)[j].to, ContextOf(KnownEdges(n)[j])>>]
    BY <1>1, EnhancedIs
  <2> HIDE DEF K
  <2>2. ASSUME ~Chosen(n, context), NEW j \in DOMAIN K
        PROVE  /\ K[j].name = KnownEdges(n)[j].name
               /\ K[j].role = KnownEdges(n)[j].role
               /\ K[j].key = <<KnownEdges(n)[j].to, ContextOf(KnownEdges(n)[j])>>
    <3>1. K[j] = [role |-> KnownEdges(n)[j].role, name |-> KnownEdges(n)[j].name,
                  key |-> <<KnownEdges(n)[j].to, ContextOf(KnownEdges(n)[j])>>]
      BY <2>1, <2>2
    <3> QED
      BY <3>1
  <2> QED
    BY <2>1, <2>2
<1> HIDE DEF product
<1>3. /\ kept \in Seq(MadeEdge) /\ Left(kept, K, IF IsTuple(K) THEN {"prefixItem"} ELSE {})
      /\ J \in Seq(JsfEdge) /\ Len(J) = Len(kept)
      /\ \A j \in DOMAIN J : /\ J[j].role = JsfRole(K, kept[j].role)
                             /\ J[j].name = kept[j].name /\ J[j].key = kept[j].key
  BY <1>2, HandedEdges
<1>4. i \in DOMAIN J /\ DOMAIN J = DOMAIN kept /\ J[i].key \in DOMAIN cache
  <2>1. DOMAIN J = DOMAIN kept
    <3> HIDE DEF J, kept
    <3> QED
      BY <1>3, LenProperties
  <2> QED
    BY <1>1, <2>1
<1> HIDE DEF J, kept, K
<1>5. PICK j \in DOMAIN K : kept[i] = K[j]
  BY <1>3, <1>4 DEF Left
<1>6. ~Chosen(n, context)
  <2>1. K # <<>>
    BY <1>5
  <2> QED
    BY <1>2, <2>1
<1> SUFFICES ASSUME J[i].role = "property", target.faker # {}, target.faker # {Word}
             PROVE  target.faker = FindBestMapping(J[i].name, Stripped(target.node))
  BY <1>1, Zenon DEF J
<1>7. kept[i].role = "property"
  BY <1>3, <1>4 DEF JsfRole
<1> DEFINE to == KnownEdges(n)[j].to
           name == J[i].name
<1>8. J[i].key = <<to, name>>
  <2>1. K[j].role = "property" /\ J[i].key = K[j].key /\ J[i].name = K[j].name
    BY <1>3, <1>4, <1>5, <1>7
  <2>2. /\ K[j].key = <<to, ContextOf(KnownEdges(n)[j])>>
        /\ KnownEdges(n)[j].role = "property" /\ KnownEdges(n)[j].name = J[i].name
    BY <1>2, <1>6, <2>1
  <2> QED
    BY <2>1, <2>2 DEF ContextOf
<1>9. cache[J[i].key] = Enhanced(to, name)
  <2>1. /\ cache[J[i].key] = Enhanced(J[i].key[1], J[i].key[2])
        /\ J[i].key[1] = to /\ J[i].key[2] = name
    BY <1>4, <1>8 DEF FakerInv, CacheInv
  <2> QED
    BY <2>1
<1> DEFINE there == Enhanced(to, name)
<1>10. target.faker = there.faker /\ target.node = there.node
  BY <1>9, HandedSchema
<1>11. there.node = to /\ NamedFor(there, name, Stripped(to))
  BY EnhancedSchema
<1> HIDE DEF there, to, name, target
<1> QED
  BY <1>10, <1>11 DEF NamedFor, name

LEMMA FakerContract == ASSUME FakerInv PROVE ContractIsHanded
<1> SUFFICES ASSUME NEW jsf \in handed, NEW key \in DOMAIN jsf
             PROVE  LET s == jsf[key]
                        origin == nodeOf[s.node]
                        items == ToNode(s.edges, "prefixItem")
                        tuple == ToNode(origin.edges, "item")
                        places == IF tuple # <<>> THEN tuple ELSE ToNode(origin.edges, "prefixItem")
                        Sees(edge) ==
                            LET target == jsf[edge.key]
                                named == Stripped(target.node)
                                best == FindBestMapping(edge.name, named)
                            IN  edge.role = "property" /\ target.faker # {} /\ target.faker # {Word}
                                   => target.faker = best
                    IN  /\ Cardinality(s.types) = 1 => RespectsContract(s)
                        /\ \A i \in DOMAIN s.edges : s.edges[i].key \in DOMAIN jsf /\ Sees(s.edges[i])
                        /\ origin.nullable = "type" /\ origin.types # {"null"} => "null" \notin s.types
                        /\ "unknown" \notin s.keys
                        /\ s.edges # <<>> /\ origin.nullable # "anyOf" =>
                              /\ [i \in DOMAIN places |-> places[i].to]
                                 = [i \in DOMAIN items |-> jsf[items[i].key].node]
                              /\ s.rest = IF tuple # <<>> /\ ToNode(origin.edges, "additionalItems") = <<>>
                                          THEN {TRUE} ELSE {}
                              /\ \A i \in DOMAIN s.edges : s.edges[i].role # "unknown"
                        /\ ToNode(s.edges, "verbatim") # <<>> => ToNode(origin.edges, "items") = <<>>
  BY Zenon DEF ContractIsHanded
<1> DEFINE n == key[1]
           context == key[2]
           product == Enhanced(n, context)
           K == product.edges
           s == ForJsf(product)
           J == s.edges
           kept == KeptForJsf(K)
           origin == nodeOf[n]
           O == Stripped(n).edges
           items == ToNode(J, "prefixItem")
           tuple == ToNode(origin.edges, "item")
           places == IF tuple # <<>> THEN tuple ELSE ToNode(origin.edges, "prefixItem")
<1>1. /\ jsf = [k \in DOMAIN cache |-> ForJsf(cache[k])] /\ pending = <<>>
      /\ nodeOf \in FakerGraphs /\ n \in DOMAIN nodeOf /\ key \in DOMAIN cache /\ cache[key] = product
  <2>1. jsf = [k \in DOMAIN cache |-> ForJsf(cache[k])] /\ pending = <<>>
    BY DEF FakerInv, HandedInv
  <2>2. key \in DOMAIN cache
    BY <2>1
  <2> QED
    BY <2>1, <2>2 DEF FakerInv, CacheInv
<1>2. jsf[key] = s /\ DOMAIN jsf = DOMAIN cache /\ \A k \in DOMAIN jsf : jsf[k] = ForJsf(cache[k])
  BY <1>1
<1>3. /\ s.node = n /\ s.types = Stripped(n).types /\ s.keys = Stripped(n).keys \ {"unknown"}
      /\ s.rest = RestOf(K)
  <2>1. s.node = product.node /\ s.types = product.types /\ s.keys = product.keys \ {"unknown"} /\ s.rest = RestOf(K)
    BY HandedSchema
  <2>2. product.node = n /\ product.types = Stripped(n).types /\ product.keys = Stripped(n).keys
    BY EnhancedSchema
  <2> HIDE DEF s, product
  <2> QED
    BY <2>1, <2>2
<1>4. /\ O \in Seq(FakerEdge) /\ origin.edges \in Seq(FakerEdge) /\ IsFiniteSet(Stripped(n).types)
      /\ origin.nullable # "anyOf" => O = origin.edges
      /\ origin.nullable = "type" /\ origin.types # {"null"} => "null" \notin Stripped(n).types
      /\ \A i \in DOMAIN origin.edges : origin.edges[i].role = "items" =>
            \E j \in DOMAIN O : O[j].role = "items"
  BY <1>1, StrippedIs, NodeIs
<1>5. /\ K \in Seq(MadeEdge)
      /\ Chosen(n, context) => K = <<>>
  BY <1>1, EnhancedIs
<1>6. Cardinality(s.types) = 1 => RespectsContract(s)
  BY <1>3, <1>4, ContractRespected
<1>7. /\ kept \in Seq(MadeEdge) /\ Left(kept, K, IF IsTuple(K) THEN {"prefixItem"} ELSE {})
      /\ J \in Seq(JsfEdge) /\ Len(J) = Len(kept)
      /\ \A i \in DOMAIN J : /\ J[i].role = JsfRole(K, kept[i].role)
                             /\ J[i].name = kept[i].name /\ J[i].key = kept[i].key
  <2> HIDE DEF product
  <2> QED
    BY <1>5, HandedEdges
<1> HIDE DEF product
<1>8. DOMAIN J = DOMAIN kept /\ \A i \in DOMAIN J : \E k \in DOMAIN K : kept[i] = K[k]
  <2>1. DOMAIN J = DOMAIN kept
    <3> HIDE DEF J, kept
    <3> QED
      BY <1>7, LenProperties
  <2> HIDE DEF J, kept, K
  <2> QED
    BY <1>7, <2>1 DEF Left
<1>9. \A k \in DOMAIN K : K[k] \in MadeEdge /\ K[k].key \in DOMAIN jsf
  <2>1. PendingKeys = {}
    BY <1>1 DEF PendingKeys
  <2>2. \A k \in DOMAIN K : K[k].key \in DOMAIN cache
    BY <1>1, <2>1 DEF FakerInv, ReachedInv
  <2>3. \A k \in DOMAIN K : K[k] \in MadeEdge
    <3> HIDE DEF K
    <3> QED
      BY <1>5, ListIs
  <2> QED
    BY <1>2, <2>2, <2>3
<1>10. \A i \in DOMAIN J : J[i].key \in DOMAIN jsf
  <2> HIDE DEF J, K, kept
  <2> QED
    BY <1>7, <1>8, <1>9
<1>11. ASSUME NEW i \in DOMAIN J
       PROVE  J[i].role = "property" /\ jsf[J[i].key].faker # {} /\ jsf[J[i].key].faker # {Word}
                 => jsf[J[i].key].faker = FindBestMapping(J[i].name, Stripped(jsf[J[i].key].node))
  <2>1. /\ J = ForJsf(cache[key]).edges /\ jsf[J[i].key] = ForJsf(cache[J[i].key])
        /\ J[i].key \in DOMAIN cache
    BY <1>1, <1>2, <1>10
  <2>2. LET edge == ForJsf(cache[key]).edges[i]
            target == ForJsf(cache[edge.key])
        IN  edge.role = "property" /\ target.faker # {} /\ target.faker # {Word}
               => target.faker = FindBestMapping(edge.name, Stripped(target.node))
    BY <1>1, <2>1, NameIsSeen
  <2> HIDE DEF J
  <2> QED
    BY <2>1, <2>2
<1>12. ASSUME J # <<>>, origin.nullable # "anyOf"
       PROVE  /\ [i \in DOMAIN places |-> places[i].to] = [i \in DOMAIN items |-> jsf[items[i].key].node]
              /\ s.rest = IF tuple # <<>> /\ ToNode(origin.edges, "additionalItems") = <<>>
                          THEN {TRUE} ELSE {}
              /\ \A i \in DOMAIN J : J[i].role # "unknown"
  <2>1. ~Chosen(n, context)
    <3>1. K # <<>>
      <4>1. DOMAIN J # {}
        <5> HIDE DEF J
        <5> QED
          BY <1>7, <1>12
      <4> QED
        BY <1>8, <4>1
    <3> QED
      BY <1>5, <3>1
  <2>2. ASSUME NEW role, role # "unknown"
        PROVE  /\ Len(ToNode(K, role)) = Len(ToNode(origin.edges, role))
               /\ \A k \in DOMAIN ToNode(K, role) :
                     ToNode(K, role)[k].key[1] = ToNode(origin.edges, role)[k].to
               /\ ToNode(K, role) \in Seq(MadeEdge) /\ ToNode(origin.edges, role) \in Seq(FakerEdge)
               /\ ToNode(K, role) = <<>> <=> ToNode(origin.edges, role) = <<>>
    <3> DEFINE C == ToNode(K, role)
               D == ToNode(origin.edges, role)
    <3>1. Len(C) = Len(D) /\ \A k \in DOMAIN C : C[k].key[1] = D[k].to
      <4>1. O = origin.edges
        BY <1>4, <1>12
      <4>2. KeysOf(ToNode(Enhanced(n, context).edges, role), ToNode(Stripped(n).edges, role))
        BY <1>1, <2>1, <2>2, MadePlaces
      <4>3. KeysOf(C, D)
        BY <4>1, <4>2 DEF product
      <4> QED
        BY <4>3, Zenon DEF KeysOf
    <3>2. C \in Seq(MadeEdge) /\ D \in Seq(FakerEdge)
      <4> HIDE DEF K, origin
      <4> QED
        BY <1>4, <1>5, SelectionHolds DEF ToNode
    <3> HIDE DEF C, D
    <3>3. C = <<>> <=> D = <<>>
      <4>1. (C = <<>> => Len(C) = 0) /\ (D = <<>> => Len(D) = 0)
        BY EmptySeq
      <4>2. (C # <<>> => Len(C) # 0) /\ (D # <<>> => Len(D) # 0)
        BY <3>2, EmptySeq
      <4> QED
        BY <3>1, <4>1, <4>2
    <3> QED
      BY <3>1, <3>2, <3>3 DEF C, D
  <2>3. IsTuple(K) <=> tuple # <<>>
    BY <2>2 DEF IsTuple
  <2>4. s.rest = IF tuple # <<>> /\ ToNode(origin.edges, "additionalItems") = <<>> THEN {TRUE} ELSE {}
    <3>1. ToNode(K, "additionalItems") = <<>> <=> ToNode(origin.edges, "additionalItems") = <<>>
      BY <2>2
    <3> HIDE DEF s, K, origin
    <3> QED
      BY <1>3, <2>3, <3>1 DEF RestOf, IsTuple
  <2>5. \A i \in DOMAIN J : J[i].role # "unknown"
    <3> HIDE DEF J, K, kept
    <3> TAKE i \in DOMAIN J
    <3>1. kept[i] \in MadeEdge /\ J[i].role = JsfRole(K, kept[i].role)
      BY <1>7, <1>8, <1>9
    <3>2. kept[i].role \in STRING \ {"verbatim", "unknown"}
      BY <3>1 DEF MadeEdge
    <3> QED
      BY <3>1, <3>2 DEF JsfRole
  <2> DEFINE role == IF IsTuple(K) THEN "item" ELSE "prefixItem"
             C == ToNode(K, role)
  <2>6. places = ToNode(origin.edges, role)
    BY <2>3
  <2>7. Len(items) = Len(C) /\ \A k \in DOMAIN items : items[k].key = C[k].key
    BY <1>5, HandedPlaces
  <2>8. /\ Len(C) = Len(places) /\ C \in Seq(MadeEdge) /\ places \in Seq(FakerEdge)
        /\ \A k \in DOMAIN C : C[k].key[1] = places[k].to
    <3>1. role # "unknown"
      OBVIOUS
    <3> HIDE DEF role, K, places, origin
    <3> QED
      BY <2>2, <2>6, <3>1 DEF origin
  <2>9. items \in Seq(JsfEdge) /\ Selected(items, J, {"prefixItem"})
    <3> HIDE DEF J
    <3> QED
      BY <1>7, SelectionHolds DEF ToNode
  <2> HIDE DEF items, C, places, J
  <2>10. DOMAIN items = DOMAIN places /\ DOMAIN C = DOMAIN items
    BY <2>7, <2>8, <2>9, LenProperties
  <2>11. ASSUME NEW i \in DOMAIN items PROVE jsf[items[i].key].node = places[i].to
    <3>1. items[i].key \in DOMAIN jsf
      BY <1>10, <2>9 DEF Selected
    <3>2. items[i].key[1] = places[i].to
      BY <2>7, <2>8, <2>10
    <3> DEFINE k == items[i].key
    <3>3. k \in DOMAIN cache /\ cache[k] = Enhanced(k[1], k[2]) /\ jsf[k] = ForJsf(cache[k])
      BY <1>2, <3>1 DEF FakerInv, CacheInv
    <3> HIDE DEF k
    <3>4. jsf[k].node = k[1]
      <4>1. ForJsf(cache[k]).node = cache[k].node
        BY HandedSchema
      <4>2. Enhanced(k[1], k[2]).node = k[1]
        BY EnhancedSchema
      <4> QED
        BY <3>3, <4>1, <4>2
    <3> QED
      BY <3>2, <3>4 DEF k
  <2>12. [i \in DOMAIN places |-> places[i].to] = [i \in DOMAIN items |-> jsf[items[i].key].node]
    BY <2>10, <2>11
  <2> QED
    BY <2>4, <2>5, <2>12
<1>13. ASSUME ToNode(J, "verbatim") # <<>> PROVE ToNode(origin.edges, "items") = <<>>
  <2>1. PICK i \in DOMAIN J : J[i].role = "verbatim"
    <3> HIDE DEF J
    <3>1. ~ \A i \in DOMAIN J : J[i].role \notin {"verbatim"}
      BY <1>7, <1>13, SelectionEmpty DEF ToNode
    <3> QED
      BY <3>1
  <2>2. kept[i] \in MadeEdge /\ JsfRole(K, kept[i].role) = "verbatim"
    <3> HIDE DEF J, K, kept
    <3> QED
      BY <1>7, <1>8, <1>9, <2>1
  <2>3. ToNode(K, "items") = <<>>
    <3> HIDE DEF kept, K
    <3>1. kept[i].role # "verbatim"
      BY <2>2 DEF MadeEdge
    <3> QED
      BY <2>2, <3>1 DEF JsfRole
  <2>4. ~Chosen(n, context)
    <3>1. K # <<>>
      BY <1>8, <2>1
    <3> QED
      BY <1>5, <3>1
  <2>5. Len(ToNode(K, "items")) = Len(ToNode(O, "items"))
    <3>1. Len(ToNode(Enhanced(n, context).edges, "items")) = Len(ToNode(O, "items"))
      BY <1>1, <2>4, MadePlaces DEF KeysOf
    <3> QED
      BY <3>1 DEF product
  <2>6. ToNode(O, "items") = <<>>
    <3> DEFINE D == ToNode(O, "items")
    <3>1. D \in Seq(FakerEdge)
      <4> HIDE DEF O
      <4> QED
        BY <1>4, SelectionHolds DEF ToNode
    <3>2. Len(D) = 0
      BY <2>3, <2>5, EmptySeq
    <3> HIDE DEF D
    <3>3. D = <<>>
      BY <3>1, <3>2, EmptySeq
    <3> QED
      BY <3>3 DEF D
  <2>7. \A j \in DOMAIN O : O[j].role \notin {"items"}
    <3> HIDE DEF O
    <3> QED
      BY <1>4, <2>6, SelectionEmpty DEF ToNode
  <2>8. \A j \in DOMAIN origin.edges : origin.edges[j].role \notin {"items"}
    BY <1>4, <2>7
  <2> HIDE DEF origin
  <2> QED
    BY <1>4, <2>8, SelectionEmpty DEF ToNode
<1>14. "unknown" \notin s.keys
  BY <1>3
<1>15. origin.nullable = "type" /\ origin.types # {"null"} => "null" \notin s.types
  BY <1>3, <1>4
<1>16. jsf[key].node = n
  BY <1>2, <1>3
<1> HIDE DEF s, n, context
<1>17. \A i \in DOMAIN s.edges :
         /\ s.edges[i].key \in DOMAIN jsf
         /\ s.edges[i].role = "property" /\ jsf[s.edges[i].key].faker # {}
            /\ jsf[s.edges[i].key].faker # {Word}
               => jsf[s.edges[i].key].faker
                  = FindBestMapping(s.edges[i].name, Stripped(jsf[s.edges[i].key].node))
  BY <1>10, <1>11, Zenon
<1> QED
  BY <1>2, <1>3, <1>6, <1>12, <1>13, <1>14, <1>15, <1>17, Zenon

\* What the faker package hands to json-schema-faker respects what the schema
\* says, for any schema and any table of field mappings.
THEOREM FakerHonoursSchema == FakerSpec => []ContractIsHanded
<1>1. FakerInit => FakerInv
  BY FakerInitially
<1>2. FakerInv /\ [FakerNext]_fakerVars => FakerInv'
  BY FakerKeeps
<1>3. FakerInv => ContractIsHanded
  BY FakerContract
<1> QED
  BY <1>1, <1>2, <1>3, PTL DEF FakerSpec
=============================================================================
