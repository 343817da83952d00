-------------------------- MODULE CrudCommitProofs --------------------------
(***************************************************************************)
(* Proofs about CrudCommit, for any requests, seed rows, pre-loaded rows   *)
(* and number of resets: no two rows share an identifier, a request that   *)
(* was refused leaves no trace, and what was acknowledged stays.  And about*)
(* CrudHeaders: headers depend on the order in which requests begin only.  *)
(***************************************************************************)
EXTENDS CrudHeaders, FiniteSetTheorems, SequenceTheorems, TLAPS

-----------------------------------------------------------------------------
(* The highest of a set of identifiers. *)

\* A finite set of numbers has a bound: a smallest subset without one would
\* have one without any of its elements.
LEMMA FiniteIsBounded ==
    ASSUME NEW S \in SUBSET Nat, IsFiniteSet(S)
    PROVE  \E n \in Nat : \A x \in S : x <= n
<1> DEFINE Bounded(F) == \E n \in Nat : \A x \in F : x <= n
<1> DEFINE T == {F \in FiniteSubsetsOf(S) : ~Bounded(F)}
<1>1. S \in FiniteSubsetsOf(S)
    BY DEF FiniteSubsetsOf
<1>2. SUFFICES ASSUME T # {} PROVE FALSE
    BY <1>1
<1>3. PICK F \in T : \A G \in T : <<G, F>> \notin StrictSubsetOrdering(S)
    <2> HIDE DEF T
    <2>1. T \subseteq FiniteSubsetsOf(S)
        BY DEF T
    <2> QED
        BY <1>2, <2>1, FS_StrictSubsetOrderingWellFounded, WFMin
<1>4. F \subseteq S /\ IsFiniteSet(F) /\ ~Bounded(F)
    BY DEF FiniteSubsetsOf
<1>5. PICK x \in F : TRUE
    <2>1. CASE F = {}
        <3>1. Bounded(F)
            BY <2>1
        <3> QED
            BY <3>1, <1>4
    <2> QED
        BY <2>1
<1> DEFINE G == F \ {x}
<1>6. G \in FiniteSubsetsOf(S)
    BY <1>4, FS_RemoveElement DEF FiniteSubsetsOf
<1>7. <<G, F>> \in StrictSubsetOrdering(S)
    BY <1>4, <1>5 DEF StrictSubsetOrdering
<1>8. PICK n \in Nat : \A y \in G : y <= n
    BY <1>3, <1>6, <1>7
<1>9. Bounded(F)
    <2>1. x \in Nat /\ \A y \in F : y \in Nat
        BY <1>4, <1>5
    <2>2. CASE x <= n
        BY <2>1, <2>2, <1>8
    <2>3. CASE ~(x <= n)
        <3>1. \A y \in F : y <= x
            BY <2>1, <2>3, <1>8
        <3> QED
            BY <3>1, <2>1
    <2> QED
        BY <2>2, <2>3
<1> QED
    BY <1>9, <1>4

\* Highest(S) is a bound of S: the smallest bound is 0 or an element of S.
LEMMA HighestIsBound ==
    ASSUME NEW S \in SUBSET Nat, NEW n \in Nat, \A x \in S : x <= n
    PROVE  Highest(S) \in Nat /\ \A x \in S : x <= Highest(S)
<1> DEFINE U == {0} \cup S
<1> DEFINE T == {m \in Nat : \A x \in U : x <= m}
<1>1. n \in T
    OBVIOUS
<1>2. PICK m \in T : \A k \in T : ~(k < m)
    <2>1. PICK m \in T : \A k \in T : <<k, m>> \notin OpToRel(<, Nat)
        <3> HIDE DEF T
        <3>1. T \subseteq Nat /\ T # {}
            BY <1>1 DEF T
        <3> QED
            BY <3>1, NatLessThanWellFounded, WFMin
    <2> QED
        BY <2>1 DEF OpToRel
<1>3. m \in U
    <2>1. SUFFICES ASSUME m \notin U PROVE FALSE
        OBVIOUS
    <2>2. m # 0 /\ m - 1 \in Nat
        BY <2>1
    <2>3. \A x \in U : x <= m - 1
        BY <2>1
    <2> QED
        BY <1>2, <2>2, <2>3
<1>4. \E x \in U : \A y \in U : x >= y
    BY <1>3
<1>5. PICK h \in U : h = Highest(S) /\ \A y \in U : h >= y
    BY <1>4 DEF Highest, Max
<1>6. h \in Nat /\ \A x \in S : x <= h
    BY <1>5
<1> QED
    BY <1>5, <1>6

-----------------------------------------------------------------------------

\* What the proof needs of the types.
Types ==
    /\ stores \in Seq(Store) /\ Len(stores) >= 1
    /\ phase \in [Requests -> Phases]
    /\ call \in [Requests -> Calls]
    /\ home \in [Requests -> 0 .. Len(stores)]
    /\ \A r \in Requests : phase[r] # "idle" => home[r] \in 1 .. Len(stores)
    /\ pending \in [Requests -> SUBSET Mutation]
    /\ minted \in [Requests -> SUBSET Nat]

At(s) == {r \in Requests : home[r] = s}

Stored == {r \in Requests : phase[r] = "stored"}

\* A request that has not minted has staged no row, and before its generator
\* ran it has done neither; its queue holds one write at most.
BeforeInv ==
    \A r \in Requests :
        /\ phase[r] \in {"idle", "admitted"} => minted[r] = {} /\ pending[r] = {}
        /\ phase[r] = "generating" => minted[r] = {} /\ pending[r] = {}
        /\ \A m \in pending[r] : m.kind = "push" => m.row.id \in minted[r]

\* Nothing was generated from a collection that is still to be seeded.
SeedInv ==
    \A s \in 1 .. Len(stores) : ~stores[s].seeded /\ SeedIds # {} =>
        \A r \in At(s) : /\ phase[r] # "generating"
                         /\ minted[r] = {} /\ pending[r] = {}

\* The identifiers in a collection are bounded ...
BoundInv ==
    \A s \in 1 .. Len(stores) :
        \E n \in Nat : \A row \in stores[s].rows : row.id <= n

\* ... by its counter once it has one, and so are those that were given out.
CounterInv ==
    \A s \in 1 .. Len(stores) :
        \/ stores[s].counter = {} /\ \A r \in At(s) : minted[r] = {}
        \/ \E c \in Nat :
              /\ stores[s].counter = {c}
              /\ \A row \in stores[s].rows : row.id <= c
              /\ \A r \in At(s) : \A k \in minted[r] : k <= c

\* No identifier is given out twice, nor while a row has it: a staged row finds
\* its place free.
FreshInv ==
    /\ \A r, q \in Requests :
          r # q /\ home[r] = home[q] => minted[r] \cap minted[q] = {}
    /\ \A r \in Requests : \A m \in pending[r] : m.kind = "push" =>
          \A row \in stores[home[r]].rows : row.id # m.row.id

\* What is in a collection comes from requests that were acknowledged, and what
\* is staged from them and from the request that staged it.
TraceInv ==
    /\ \A s \in 1 .. Len(stores) : \A row \in stores[s].rows : row.by \subseteq Stored
    /\ \A r \in Requests : \A m \in pending[r] : m.row.by \subseteq Stored \cup {r}

IInv == /\ Types /\ BeforeInv /\ SeedInv /\ BoundInv /\ CounterInv /\ FreshInv
        /\ TraceInv /\ UniqueIds

-----------------------------------------------------------------------------

\* A collection keeps its type, and has a bound.
LEMMA StoreFacts ==
    ASSUME Types, BoundInv, NEW s \in 1 .. Len(stores)
    PROVE  /\ stores[s] \in Store
           /\ \E n \in Nat : \A row \in stores[s].rows : row.id \in Nat /\ row.id <= n
<1>1. stores[s] \in Store
    BY ElementOfSeq DEF Types
<1> QED
    BY <1>1 DEF BoundInv, Store, Row

\* The next identifier is above all those in the collection and all those that
\* were given out.
LEMMA NextIdIsNew ==
    ASSUME IInv, NEW s \in 1 .. Len(stores)
    PROVE  /\ NextId(stores[s]) \in Nat
           /\ \A row \in stores[s].rows : row.id < NextId(stores[s])
           /\ \A r \in At(s) : \A k \in minted[r] : k < NextId(stores[s])
<1> DEFINE store == stores[s]
<1>1. store \in Store
    BY StoreFacts DEF IInv
<1>2. CASE store.counter = {}
    <2> DEFINE ids == {row.id : row \in store.rows}
    <2>1. PICK n \in Nat : \A row \in store.rows : row.id \in Nat /\ row.id <= n
        BY StoreFacts DEF IInv
    <2>2. ids \in SUBSET Nat /\ \A x \in ids : x <= n
        BY <2>1
    <2>3. Highest(ids) \in Nat /\ \A x \in ids : x <= Highest(ids)
        <3> HIDE DEF ids
        <3> QED
            BY <2>2, HighestIsBound
    <2>4. NextId(store) = 1 + Highest(ids)
        BY <1>2 DEF NextId
    <2>5. \A row \in store.rows : row.id <= Highest(ids) /\ row.id \in Nat
        BY <2>1, <2>3
    <2>6. \A r \in At(s) : minted[r] = {}
        BY <1>2 DEF IInv, CounterInv
    <2> HIDE DEF ids
    <2> QED
        BY <2>3, <2>4, <2>5, <2>6
<1>3. CASE store.counter # {}
    <2>1. PICK c \in Nat :
             /\ store.counter = {c}
             /\ \A row \in store.rows : row.id <= c
             /\ \A r \in At(s) : \A k \in minted[r] : k <= c
        BY <1>3 DEF IInv, CounterInv
    <2>2. Highest({c}) \in Nat /\ c <= Highest({c})
        <3>1. {c} \in SUBSET Nat /\ \A x \in {c} : x <= c
            BY <2>1
        <3> QED
            BY <3>1, HighestIsBound
    <2>3. NextId(store) = 1 + Highest({c})
        BY <1>3, <2>1 DEF NextId
    <2>4. \A row \in store.rows : row.id \in Nat
        BY <1>1 DEF Store, Row
    <2>5. \A r \in At(s) : minted[r] \subseteq Nat
        BY DEF IInv, Types, At
    <2>6. PICK h \in Nat : h = Highest({c})
        BY <2>2
    <2>7. \A k \in Nat : k <= c => k < 1 + h
        BY <2>2, <2>6
    <2>8. \A row \in store.rows : row.id < 1 + h
        BY <2>1, <2>4, <2>7
    <2>9. \A r \in At(s) : \A k \in minted[r] : k < 1 + h
        BY <2>1, <2>5, <2>7
    <2>10. NextId(store) = 1 + h /\ 1 + h \in Nat
        BY <2>3, <2>6
    <2> HIDE DEF store
    <2>11. /\ NextId(store) \in Nat
           /\ \A row \in store.rows : row.id < NextId(store)
           /\ \A r \in At(s) : \A k \in minted[r] : k < NextId(store)
        BY <2>8, <2>9, <2>10
    <2> QED
        BY <2>11 DEF store
<1> QED
    BY <1>2, <1>3

\* The rows a collection is loaded with.
LEMMA LoadedFacts ==
    ASSUME NEW ids \in SUBSET Nat, IsFiniteSet(ids)
    PROVE  /\ LoadedRows(ids) \subseteq Row
           /\ Highest(ids) \in Nat
           /\ \A row \in LoadedRows(ids) :
                 row.id \in Nat /\ row.id <= Highest(ids) /\ row.by = {}
           /\ \A a, b \in LoadedRows(ids) : a.id = b.id => a = b
<1>1. /\ Highest(ids) \in Nat
      /\ \A x \in ids : x <= Highest(ids)
    BY FiniteIsBounded, HighestIsBound
<1>2. \A row \in LoadedRows(ids) :
         row = [id |-> row.id, born |-> Loaded, by |-> {}] /\ row.id \in ids
    BY DEF LoadedRows
<1>3. LoadedRows(ids) \subseteq Row
    BY DEF LoadedRows, Row
<1> QED
    BY <1>1, <1>2, <1>3

\* The initial states satisfy the invariant.
LEMMA InitInv == Init => IInv
<1> SUFFICES ASSUME Init PROVE IInv
    OBVIOUS
<1> DEFINE first == [Blank EXCEPT !.rows = LoadedRows(PreloadedIds)]
<1>1. /\ LoadedRows(PreloadedIds) \subseteq Row
      /\ Highest(PreloadedIds) \in Nat
      /\ \A row \in LoadedRows(PreloadedIds) :
            row.id \in Nat /\ row.id <= Highest(PreloadedIds) /\ row.by = {}
      /\ \A a, b \in LoadedRows(PreloadedIds) : a.id = b.id => a = b
    BY LoadedFacts, IdsAssumption
<1>2. /\ first \in Store
      /\ first.rows = LoadedRows(PreloadedIds) /\ first.counter = {}
    BY <1>1 DEF Blank, Store
<1>3. /\ stores \in Seq(Store) /\ Len(stores) = 1 /\ stores[1] = first
      /\ DOMAIN stores = {1}
    BY <1>2 DEF Init
<1> HIDE DEF first
<1>4. Types
    <2>1. [op |-> "read", id |-> 0] \in Calls
        BY DEF Calls
    <2> QED
        BY <1>3, <2>1 DEF Init, Types, Phases
<1>5. BeforeInv /\ SeedInv /\ FreshInv
    BY DEF Init, BeforeInv, SeedInv, FreshInv, At
<1>6. BoundInv
    BY <1>1, <1>2, <1>3 DEF BoundInv
<1>7. CounterInv
    BY <1>2, <1>3 DEF Init, CounterInv, At
<1>8. TraceInv
    BY <1>1, <1>2, <1>3 DEF Init, TraceInv
<1>9. UniqueIds
    BY <1>1, <1>2, <1>3 DEF UniqueIds
<1> QED
    BY <1>4, <1>5, <1>6, <1>7, <1>8, <1>9 DEF IInv

-----------------------------------------------------------------------------
(* The steps. *)

\* A step that moves a request on and touches neither a collection nor what is
\* staged keeps the invariant.
LEMMA QuietStep ==
    ASSUME IInv, NEW r \in Requests,
           UNCHANGED <<stores, pending, minted>>,
           call' \in [Requests -> Calls],
           NEW p \in Phases, phase' = [phase EXCEPT ![r] = p],
           NEW h \in 1 .. Len(stores), home' = [home EXCEPT ![r] = h],
           phase[r] # "stored", p # "stored",
           p \in {"idle", "generating"} => FALSE,
           p = "admitted" => phase[r] = "idle",
           h = home[r] \/ (phase[r] = "idle" /\ p = "admitted")
    PROVE  IInv'
<1>1. Types'
    BY DEF IInv, Types
<1>2. BeforeInv'
    BY DEF IInv, Types, BeforeInv
<1>3. phase[r] = "idle" => minted[r] = {} /\ pending[r] = {}
    BY DEF IInv, BeforeInv
<1>4. SeedInv'
    BY <1>3 DEF IInv, Types, SeedInv, At
<1>5. BoundInv' /\ UniqueIds'
    BY DEF IInv, BoundInv, UniqueIds
<1>6. ASSUME NEW s \in 1 .. Len(stores), NEW q \in At(s)'
      PROVE  q \in At(s) \/ minted[q] = {}
    BY <1>3 DEF IInv, Types, At
<1>7. CounterInv'
    BY <1>6 DEF IInv, CounterInv
<1>10. ASSUME NEW q \in Requests
       PROVE  home'[q] = home[q] \/ (minted[q] = {} /\ pending[q] = {})
    BY <1>3 DEF IInv, Types
<1>11. FreshInv'
    BY <1>10 DEF IInv, FreshInv
<1>8. Stored' = Stored
    BY DEF IInv, Types, Stored
<1>9. TraceInv'
    BY <1>8 DEF IInv, TraceInv
<1> QED
    BY <1>1, <1>2, <1>4, <1>5, <1>7, <1>9, <1>11 DEF IInv

\* A new state object is empty, and nobody's.
LEMMA ResetStep == IInv /\ ResetState => IInv'
<1> SUFFICES ASSUME IInv, ResetState PROVE IInv'
    OBVIOUS
<1> USE DEF ResetState
<1>1. Blank \in Store /\ Blank.rows = {} /\ Blank.counter = {}
    BY DEF Blank, Store
<1>2. /\ stores' \in Seq(Store)
      /\ Len(stores) \in Nat /\ Len(stores') = Len(stores) + 1
      /\ \A s \in 1 .. Len(stores) : stores'[s] = stores[s]
      /\ stores'[Len(stores) + 1] = Blank
      /\ DOMAIN stores = 1 .. Len(stores) /\ DOMAIN stores' = 1 .. Len(stores')
    BY <1>1, AppendProperties, LenProperties DEF IInv, Types
<1>3. ASSUME NEW s \in 1 .. Len(stores')
      PROVE  \/ s \in 1 .. Len(stores) /\ stores'[s] = stores[s]
             \/ /\ s = Len(stores) + 1 /\ stores'[s] = Blank
                /\ At(s)' = {}
    BY <1>2 DEF IInv, Types, At
<1>4. Types'
    BY <1>2 DEF IInv, Types
<1>5. BeforeInv'
    BY DEF IInv, BeforeInv
<1>6. \A s : At(s)' = At(s)
    BY DEF At
<1>7. SeedInv'
    BY <1>3, <1>6 DEF IInv, SeedInv
<1>8. BoundInv'
    BY <1>1, <1>3 DEF IInv, BoundInv
<1>9. CounterInv'
    BY <1>1, <1>3, <1>6 DEF IInv, CounterInv
<1>10. ASSUME NEW q \in Requests, NEW m \in pending[q]
       PROVE  home[q] \in 1 .. Len(stores) /\ stores'[home[q]] = stores[home[q]]
    BY <1>2 DEF IInv, Types, BeforeInv
<1>11. FreshInv'
    BY <1>10 DEF IInv, FreshInv
<1>12. Stored' = Stored
    BY DEF Stored
<1>13. TraceInv'
    BY <1>1, <1>3, <1>12 DEF IInv, TraceInv
<1>14. UniqueIds'
    BY <1>1, <1>2, <1>3 DEF IInv, UniqueIds
<1> QED
    BY <1>4, <1>5, <1>7, <1>8, <1>9, <1>11, <1>13, <1>14 DEF IInv

\* The step of a request that changes its own collection to `store', and what
\* it has staged and minted.
StoreStep(r, store) ==
    /\ stores' = [stores EXCEPT ![home[r]] = store]
    /\ UNCHANGED <<call, home>>

\* What a collection that is changed keeps of the others.
LEMMA StoreStepFacts ==
    ASSUME IInv, NEW r \in Requests, phase[r] # "idle",
           NEW store \in Store, StoreStep(r, store)
    PROVE  /\ home[r] \in 1 .. Len(stores)
           /\ stores' \in Seq(Store)
           /\ Len(stores') = Len(stores)
           /\ DOMAIN stores = 1 .. Len(stores) /\ DOMAIN stores' = 1 .. Len(stores)
           /\ \A s \in 1 .. Len(stores) :
                 stores'[s] = IF s = home[r] THEN store ELSE stores[s]
           /\ \A s : At(s)' = At(s)
<1>1. home[r] \in 1 .. Len(stores)
    BY DEF IInv, Types
<1>2. \A s : At(s)' = At(s)
    BY DEF At, StoreStep
<1>3. stores \in Seq(Store) /\ stores' = [stores EXCEPT ![home[r]] = store]
    BY DEF IInv, Types, StoreStep
<1>4. /\ stores' \in Seq(Store) /\ Len(stores') = Len(stores)
      /\ \A s \in 1 .. Len(stores) : stores'[s] = IF s = home[r] THEN store ELSE stores[s]
    BY <1>1, <1>3, ExceptSeq
<1>5. DOMAIN stores = 1 .. Len(stores) /\ DOMAIN stores' = 1 .. Len(stores)
    BY <1>3, <1>4, LenProperties
<1> QED
    BY <1>1, <1>2, <1>4, <1>5

\* Seeding a collection that nothing was generated from.
LEMMA SeededFacts ==
    ASSUME IInv, NEW s \in 1 .. Len(stores), NEW store, store = Seeded(stores[s])
    PROVE  /\ store \in Store
           /\ store.seeded \/ SeedIds = {}
           /\ \/ store = stores[s]
              \/ /\ store.rows = LoadedRows(SeedIds)
                 /\ store.counter = {Highest(SeedIds)}
                 /\ ~stores[s].seeded /\ SeedIds # {}
                 /\ \A r \in At(s) : minted[r] = {} /\ pending[r] = {}
<1>1. stores[s] \in Store
    BY StoreFacts DEF IInv
<1>2. CASE stores[s].seeded \/ SeedIds = {}
    BY <1>1, <1>2 DEF Seeded, Store
<1>3. CASE ~(stores[s].seeded \/ SeedIds = {})
    <2>1. store = [rows |-> LoadedRows(SeedIds), counter |-> {Highest(SeedIds)},
                   seeded |-> TRUE]
        BY <1>3 DEF Seeded
    <2>2. LoadedRows(SeedIds) \subseteq Row /\ Highest(SeedIds) \in Nat
        BY LoadedFacts, IdsAssumption
    <2>3. store \in Store
        BY <2>1, <2>2 DEF Store
    <2>4. \A r \in At(s) : minted[r] = {} /\ pending[r] = {}
        BY <1>3 DEF IInv, SeedInv
    <2> QED
        BY <1>3, <2>1, <2>3, <2>4
<1> QED
    BY <1>2, <1>3

\* What a generator other than a create's stages comes from the rows it found.
LEMMA StagedFacts ==
    ASSUME IInv, NEW r \in Requests, NEW rows \in SUBSET Row,
           \A row \in rows : row.by \subseteq Stored
    PROVE  /\ Staged(r, rows) \subseteq Mutation
           /\ call[r].op = "create" => Staged(r, rows) = {}
           /\ \A m \in Staged(r, rows) :
                 m.kind # "push" /\ m.row.by \subseteq Stored \cup {r}
<1>1. CASE call[r].op = "update"
    <2>1. ASSUME NEW m \in Staged(r, rows)
          PROVE  /\ m \in Mutation /\ m.kind # "push"
                 /\ m.row.by \subseteq Stored \cup {r}
        <3>1. PICK row \in rows :
                 m = [kind |-> "replace", row |-> [row EXCEPT !.by = @ \cup {r}]]
            BY <1>1 DEF Staged
        <3>2. row \in Row /\ row.by \subseteq Stored
            OBVIOUS
        <3>3. /\ [row EXCEPT !.by = @ \cup {r}] \in Row
              /\ [row EXCEPT !.by = @ \cup {r}].by = row.by \cup {r}
            BY <3>2 DEF Row
        <3> QED
            BY <3>1, <3>2, <3>3 DEF Mutation
    <2> QED
        BY <1>1, <2>1
<1>2. CASE call[r].op = "delete"
    BY <1>2 DEF Staged, Mutation
<1>3. CASE call[r].op \notin {"update", "delete"}
    BY <1>3 DEF Staged
<1> QED
    BY <1>1, <1>2, <1>3

\* A generator seeds its collection and stages what it found.
LEMMA GenerateStep ==
    ASSUME IInv, NEW r \in Requests, Generate(r)
    PROVE  IInv'
<1> DEFINE h == home[r]
<1> DEFINE store == Seeded(stores[h])
<1>1. /\ phase[r] = "admitted" /\ h \in 1 .. Len(stores)
      /\ minted[r] = {} /\ pending[r] = {}
      /\ r \in At(h)
    BY DEF Generate, IInv, Types, BeforeInv, At
<1>2. /\ store \in Store
      /\ store.seeded \/ SeedIds = {}
      /\ \/ store = stores[h]
         \/ /\ store.rows = LoadedRows(SeedIds)
            /\ store.counter = {Highest(SeedIds)}
            /\ \A q \in At(h) : minted[q] = {} /\ pending[q] = {}
    BY <1>1, SeededFacts
<1>3. /\ StoreStep(r, store)
      /\ pending' = [pending EXCEPT ![r] = Staged(r, store.rows)]
      /\ UNCHANGED minted
      /\ phase' = [phase EXCEPT ![r] =
                      IF call[r].op = "create" THEN "generating" ELSE "generated"]
    BY DEF Generate, StoreStep, StateOf
<1> HIDE DEF store
<1>4. /\ stores' \in Seq(Store)
      /\ Len(stores') = Len(stores)
      /\ DOMAIN stores = 1 .. Len(stores) /\ DOMAIN stores' = 1 .. Len(stores)
      /\ \A s \in 1 .. Len(stores) : stores'[s] = IF s = h THEN store ELSE stores[s]
      /\ \A s : At(s)' = At(s)
    BY <1>1, <1>2, <1>3, StoreStepFacts
<1>5. /\ Highest(SeedIds) \in Nat
      /\ \A row \in LoadedRows(SeedIds) : row.id <= Highest(SeedIds) /\ row.by = {}
      /\ \A a, b \in LoadedRows(SeedIds) : a.id = b.id => a = b
    BY LoadedFacts, IdsAssumption
<1>6. /\ store.rows \subseteq Row
      /\ \A row \in store.rows : row.by \subseteq Stored
      /\ \A a, b \in store.rows : a.id = b.id => a = b
    <2>1. store.rows \subseteq Row
        BY <1>2 DEF Store
    <2>2. CASE store = stores[h]
        BY <1>1, <1>4, <2>1, <2>2 DEF IInv, TraceInv, UniqueIds
    <2>3. CASE store.rows = LoadedRows(SeedIds)
        BY <1>5, <2>1, <2>3
    <2> QED
        BY <1>2, <2>2, <2>3
<1>7. /\ Staged(r, store.rows) \subseteq Mutation
      /\ call[r].op = "create" => Staged(r, store.rows) = {}
      /\ \A m \in Staged(r, store.rows) :
            m.kind # "push" /\ m.row.by \subseteq Stored \cup {r}
    BY <1>6, StagedFacts
<1>8. Types'
    BY <1>1, <1>3, <1>4, <1>7 DEF IInv, Types, StoreStep, Phases
<1>9. BeforeInv'
    BY <1>1, <1>3, <1>7 DEF IInv, Types, BeforeInv
<1>10. SeedInv'
    <2> SUFFICES ASSUME NEW s \in 1 .. Len(stores), s # h,
                        ~stores[s].seeded, SeedIds # {}, NEW q \in At(s)
                 PROVE  phase'[q] # "generating" /\ minted[q] = {} /\ pending'[q] = {}
        BY <1>2, <1>3, <1>4 DEF SeedInv
    <2>1. q # r
        BY DEF At
    <2> QED
        BY <1>3, <2>1 DEF IInv, SeedInv, Types, At
<1>11. BoundInv'
    BY <1>2, <1>4, <1>5 DEF IInv, BoundInv
<1>12. CounterInv'
    BY <1>2, <1>3, <1>4, <1>5 DEF IInv, CounterInv
<1>13. FreshInv'
    <2>1. ASSUME NEW q \in Requests, NEW m \in pending'[q], m.kind = "push",
                 NEW row \in stores'[home[q]].rows
          PROVE  row.id # m.row.id
        <3>1. q # r /\ m \in pending[q]
            BY <1>3, <1>7, <2>1 DEF IInv, Types
        <3>2. home[q] \in 1 .. Len(stores)
            BY <3>1 DEF IInv, Types, BeforeInv
        <3>3. q \in At(home[q])
            BY DEF At
        <3>4. stores'[home[q]] = stores[home[q]]
            BY <1>2, <1>4, <3>1, <3>2, <3>3
        <3> QED
            BY <3>1, <3>4, <2>1 DEF IInv, FreshInv
    <2> QED
        BY <1>3, <2>1 DEF IInv, FreshInv, StoreStep
<1>14. Stored' = Stored
    BY <1>1, <1>3 DEF IInv, Types, Stored
<1>15. TraceInv'
    <2>1. ASSUME NEW s \in 1 .. Len(stores), NEW row \in stores'[s].rows
          PROVE  row.by \subseteq Stored
        <3>1. CASE s = h
            BY <3>1, <1>2, <1>4, <1>6, <2>1
        <3>2. CASE s # h
            BY <3>2, <1>4, <2>1 DEF IInv, TraceInv
        <3> QED
            BY <3>1, <3>2
    <2>2. ASSUME NEW q \in Requests, NEW m \in pending'[q]
          PROVE  m.row.by \subseteq Stored \cup {q}
        <3>1. CASE q = r
            BY <3>1, <1>3, <1>7, <2>2 DEF IInv, Types
        <3>2. CASE q # r
            BY <3>2, <1>3, <2>2 DEF IInv, Types, TraceInv
        <3> QED
            BY <3>1, <3>2
    <2> QED
        BY <1>4, <1>14, <2>1, <2>2 DEF TraceInv
<1>16. UniqueIds'
    BY <1>4, <1>6 DEF IInv, UniqueIds
<1> QED
    BY <1>8, <1>9, <1>10, <1>11, <1>12, <1>13, <1>15, <1>16 DEF IInv

\* A create is given an identifier above all others, and stages its row.
LEMMA MintStep ==
    ASSUME IInv, NEW r \in Requests, Mint(r)
    PROVE  IInv'
<1> DEFINE h == home[r]
<1> DEFINE id == NextId(stores[h])
<1> DEFINE store == Counted(stores[h])
<1> DEFINE push == [kind |-> "push", row |-> [id |-> id, born |-> r, by |-> {r}]]
<1>1. /\ phase[r] = "generating" /\ h \in 1 .. Len(stores)
      /\ minted[r] = {} /\ pending[r] = {}
      /\ r \in At(h)
    BY DEF Mint, IInv, Types, BeforeInv, At
<1>2. /\ id \in Nat
      /\ \A row \in stores[h].rows : row.id < id
      /\ \A q \in At(h) : \A k \in minted[q] : k < id
    BY <1>1, NextIdIsNew
<1>3. /\ store \in Store
      /\ store.rows = stores[h].rows /\ store.counter = {id}
      /\ store.seeded = stores[h].seeded
    BY <1>1, <1>2, StoreFacts DEF Counted, Store, IInv
<1>4. push \in Mutation
    BY <1>2 DEF Mutation, Row
<1>5. /\ StoreStep(r, store)
      /\ pending' = [pending EXCEPT ![r] = {push}]
      /\ minted' = [minted EXCEPT ![r] = {id}]
      /\ \E p \in {"dropped", "generated"} : phase' = [phase EXCEPT ![r] = p]
    BY DEF Mint, StoreStep, StateOf
<1> HIDE DEF id, store
<1>6. /\ stores' \in Seq(Store)
      /\ Len(stores') = Len(stores)
      /\ DOMAIN stores = 1 .. Len(stores) /\ DOMAIN stores' = 1 .. Len(stores)
      /\ \A s \in 1 .. Len(stores) : stores'[s] = IF s = h THEN store ELSE stores[s]
      /\ \A s : At(s)' = At(s)
    BY <1>1, <1>3, <1>5, StoreStepFacts
<1>7. \A s \in 1 .. Len(stores) : stores'[s].rows = stores[s].rows
    BY <1>3, <1>6
<1>8. Types'
    BY <1>1, <1>2, <1>4, <1>5, <1>6 DEF IInv, Types, StoreStep, Phases
<1>9. BeforeInv'
    BY <1>1, <1>5 DEF IInv, Types, BeforeInv
<1>10. SeedInv'
    <2> SUFFICES ASSUME NEW s \in 1 .. Len(stores), ~stores[s].seeded, SeedIds # {},
                        NEW q \in At(s)
                 PROVE  phase'[q] # "generating" /\ minted'[q] = {} /\ pending'[q] = {}
        BY <1>3, <1>6 DEF SeedInv
    <2>1. q # r
        BY <1>1 DEF IInv, SeedInv
    <2> QED
        BY <1>5, <2>1 DEF IInv, SeedInv, Types, At
<1>11. BoundInv'
    BY <1>6, <1>7 DEF IInv, BoundInv
<1>12. CounterInv'
    <2>1. ASSUME NEW s \in 1 .. Len(stores), s # h
          PROVE  stores'[s] = stores[s] /\ \A q \in At(s) : minted'[q] = minted[q]
        BY <1>5, <1>6, <2>1 DEF IInv, Types, At
    <2>2. /\ stores'[h].counter = {id}
          /\ \A row \in stores'[h].rows : row.id <= id
          /\ \A q \in At(h) : \A k \in minted'[q] : k <= id
        <3>1. \A row \in stores[h].rows : row.id \in Nat
            BY <1>1, StoreFacts DEF IInv
        <3>2. ASSUME NEW q \in At(h), NEW k \in minted'[q] PROVE k <= id
            <4>1. CASE q = r
                BY <4>1, <1>2, <1>5, <3>2 DEF IInv, Types
            <4>2. CASE q # r
                BY <4>2, <1>2, <1>5, <3>2 DEF IInv, Types, At
            <4> QED
                BY <4>1, <4>2
        <3> QED
            BY <1>1, <1>2, <1>3, <1>6, <3>1, <3>2
    <2>3. ASSUME NEW s \in 1 .. Len(stores)
          PROVE  \/ /\ stores'[s].counter = {}
                    /\ \A q \in At(s)' : minted'[q] = {}
                 \/ \E c \in Nat :
                        /\ stores'[s].counter = {c}
                        /\ \A row \in stores'[s].rows : row.id <= c
                        /\ \A q \in At(s)' : \A k \in minted'[q] : k <= c
        <3>1. At(s)' = At(s)
            BY <1>6
        <3>2. CASE s = h
            BY <3>1, <3>2, <1>2, <2>2
        <3>3. CASE s # h
            <4>1. \/ /\ stores[s].counter = {}
                     /\ \A q \in At(s) : minted[q] = {}
                  \/ \E c \in Nat :
                         /\ stores[s].counter = {c}
                         /\ \A row \in stores[s].rows : row.id <= c
                         /\ \A q \in At(s) : \A k \in minted[q] : k <= c
                BY <2>3 DEF IInv, CounterInv
            <4>2. /\ stores'[s] = stores[s]
                  /\ \A q \in At(s) : minted'[q] = minted[q]
                BY <3>3, <2>1, <2>3
            <4>3. CASE stores[s].counter = {} /\ \A q \in At(s) : minted[q] = {}
                BY <4>3, <3>1, <4>2
            <4>4. CASE \E c \in Nat :
                          /\ stores[s].counter = {c}
                          /\ \A row \in stores[s].rows : row.id <= c
                          /\ \A q \in At(s) : \A k \in minted[q] : k <= c
                BY <4>4, <3>1, <4>2
            <4> QED
                BY <4>1, <4>3, <4>4
        <3> QED
            BY <3>2, <3>3
    <2> QED
        BY <1>6, <2>3 DEF CounterInv
<1>13. FreshInv'
    <2>1. ASSUME NEW q \in Requests, q # r, home[q] = h
          PROVE  id \notin minted[q]
        BY <1>2, <2>1 DEF At, IInv, Types
    <2>2. ASSUME NEW p \in Requests, NEW q \in Requests, p # q, home[p] = home[q]
          PROVE  minted'[p] \cap minted'[q] = {}
        BY <1>5, <2>1, <2>2 DEF IInv, Types, FreshInv
    <2>3. ASSUME NEW q \in Requests, NEW m \in pending'[q], m.kind = "push",
                 NEW row \in stores'[home[q]].rows
          PROVE  row.id # m.row.id
        <3>1. CASE q = r
            <4>1. m = push /\ row \in stores[h].rows
                BY <3>1, <1>1, <1>5, <1>7, <2>3 DEF IInv, Types
            <4>2. row.id \in Nat
                BY <1>1, <4>1, StoreFacts DEF IInv
            <4> QED
                BY <4>1, <4>2, <1>2
        <3>2. CASE q # r
            <4>1. m \in pending[q]
                BY <3>2, <1>5, <2>3 DEF IInv, Types
            <4>2. home[q] \in 1 .. Len(stores)
                BY <4>1 DEF IInv, Types, BeforeInv
            <4> QED
                BY <4>1, <4>2, <1>7, <2>3 DEF IInv, FreshInv
        <3> QED
            BY <3>1, <3>2
    <2> QED
        BY <1>5, <2>2, <2>3 DEF FreshInv, StoreStep
<1>14. Stored' = Stored
    BY <1>1, <1>5 DEF IInv, Types, Stored
<1>15. TraceInv'
    <2>1. \A s \in 1 .. Len(stores) : \A row \in stores'[s].rows : row.by \subseteq Stored
        BY <1>7 DEF IInv, TraceInv
    <2>2. ASSUME NEW q \in Requests, NEW m \in pending'[q]
          PROVE  m.row.by \subseteq Stored \cup {q}
        <3>1. CASE q = r
            BY <3>1, <1>5, <2>2 DEF IInv, Types
        <3>2. CASE q # r
            <4>1. m \in pending[q]
                BY <3>2, <1>5, <2>2 DEF IInv, Types
            <4> QED
                BY <4>1 DEF IInv, TraceInv
        <3> QED
            BY <3>1, <3>2
    <2> QED
        BY <1>6, <1>14, <2>1, <2>2 DEF TraceInv
<1>16. UniqueIds'
    BY <1>6, <1>7 DEF IInv, UniqueIds
<1> QED
    BY <1>8, <1>9, <1>10, <1>11, <1>12, <1>13, <1>15, <1>16 DEF IInv

\* A staged write that is applied brings in its own row at most, and a row that
\* it leaves or replaces keeps its identifier.
LEMMA AppliedFacts ==
    ASSUME NEW rows \in SUBSET Row, NEW m \in Mutation,
           \A a, b \in rows : a.id = b.id => a = b,
           m.kind = "push" => \A row \in rows : row.id # m.row.id
    PROVE  /\ Applied(rows, m) \subseteq Row
           /\ \A row \in Applied(rows, m) :
                 \/ row \in rows
                 \/ row = m.row /\ (m.kind = "push" \/ \E old \in rows : old.id = row.id)
           /\ \A a, b \in Applied(rows, m) : a.id = b.id => a = b
<1>1. m.kind \in {"push", "replace", "remove"} /\ m.row \in Row
    BY DEF Mutation
<1>2. CASE m.kind = "push"
    <2>1. Applied(rows, m) = rows \cup {m.row}
        BY <1>2 DEF Applied
    <2> QED
        BY <1>1, <1>2, <2>1
<1>3. CASE m.kind = "replace"
    <2>1. Applied(rows, m) = {IF row.id = m.row.id THEN m.row ELSE row : row \in rows}
        BY <1>3 DEF Applied
    <2>2. ASSUME NEW a \in Applied(rows, m)
          PROVE  a \in rows \/ (a = m.row /\ \E old \in rows : old.id = a.id)
        BY <2>1
    <2>3. ASSUME NEW a \in Applied(rows, m), a.id = m.row.id PROVE a = m.row
        BY <2>1, <2>3
    <2>4. ASSUME NEW a \in Applied(rows, m), a.id # m.row.id PROVE a \in rows
        BY <2>1, <2>4
    <2> QED
        BY <1>1, <2>2, <2>3, <2>4
<1>4. CASE m.kind = "remove"
    BY <1>4 DEF Applied
<1> QED
    BY <1>1, <1>2, <1>3, <1>4

\* process() applies what was staged when the response is a success, and
\* nothing else.
LEMMA SettleStep ==
    ASSUME IInv, NEW r \in Requests, Settle(r)
    PROVE  IInv'
<1> DEFINE h == home[r]
<1>1. phase[r] = "processing" /\ h \in 1 .. Len(stores) /\ r \in At(h)
    BY DEF Settle, IInv, Types, At
<1>2. /\ pending' = [pending EXCEPT ![r] = {}]
      /\ UNCHANGED <<call, home, minted>>
    BY DEF Settle, QueueAfter
<1>3. \A s : At(s)' = At(s)
    BY <1>2 DEF At
<1>4. PICK p \in {"refused", "answered", "stored"} :
         /\ phase' = [phase EXCEPT ![r] = p]
         /\ \/ UNCHANGED stores
            \/ /\ p = "stored"
               /\ \E m \in pending[r] :
                    stores' = [stores EXCEPT ![h].rows = Applied(@, m)]
    BY DEF Settle, Succeeds, StateOf
<1>5. BeforeInv'
    BY <1>1, <1>2, <1>4 DEF IInv, Types, BeforeInv
<1>6. Stored \subseteq Stored' /\ (p = "stored" => r \in Stored')
    BY <1>1, <1>4 DEF IInv, Types, Stored
<1>7. ASSUME NEW q \in Requests, NEW m \in pending'[q]
      PROVE  q # r /\ m \in pending[q] /\ home[q] \in 1 .. Len(stores)
    BY <1>2, <1>7 DEF IInv, Types, BeforeInv
<1>8. \A q \in Requests : phase'[q] = "generating" => phase[q] = "generating"
    BY <1>4 DEF IInv, Types
<1>9. CASE UNCHANGED stores
    <2>1. Types'
        BY <1>1, <1>2, <1>4, <1>9 DEF IInv, Types, Phases
    <2>2. SeedInv'
        BY <1>2, <1>3, <1>7, <1>8, <1>9 DEF IInv, SeedInv, At
    <2>3. BoundInv' /\ UniqueIds'
        BY <1>9 DEF IInv, BoundInv, UniqueIds
    <2>4. CounterInv'
        BY <1>2, <1>3, <1>9 DEF IInv, CounterInv
    <2>5. FreshInv'
        BY <1>2, <1>7, <1>9 DEF IInv, FreshInv
    <2>6. TraceInv'
        BY <1>6, <1>7, <1>9 DEF IInv, TraceInv
    <2> QED
        BY <1>5, <2>1, <2>2, <2>3, <2>4, <2>5, <2>6 DEF IInv
<1>10. CASE /\ p = "stored"
            /\ \E m \in pending[r] :
                 stores' = [stores EXCEPT ![h].rows = Applied(@, m)]
    <2>1. PICK m \in pending[r] : stores' = [stores EXCEPT ![h].rows = Applied(@, m)]
        BY <1>10
    <2>2. stores[h] \in Store /\ m \in Mutation
        BY <1>1, StoreFacts DEF IInv, Types
    <2>3. m.kind = "push" => \A row \in stores[h].rows : row.id # m.row.id
        BY DEF IInv, FreshInv
    <2>4. DOMAIN stores = 1 .. Len(stores)
        BY LenProperties DEF IInv, Types
    <2>5. \A a, b \in stores[h].rows : a.id = b.id => a = b
        BY <1>1, <2>4 DEF IInv, UniqueIds
    <2> DEFINE rows == Applied(stores[h].rows, m)
    <2>6. stores[h].rows \in SUBSET Row
        BY <2>2 DEF Store
    <2>7. /\ rows \subseteq Row
          /\ \A row \in rows :
                \/ row \in stores[h].rows
                \/ /\ row = m.row
                   /\ m.kind = "push" \/ \E old \in stores[h].rows : old.id = row.id
          /\ \A a, b \in rows : a.id = b.id => a = b
        BY <2>2, <2>3, <2>5, <2>6, AppliedFacts
    <2> DEFINE store == [stores[h] EXCEPT !.rows = rows]
    <2>8. stores' = [stores EXCEPT ![h] = store]
        BY <2>1
    <2> HIDE DEF rows
    <2>9. /\ store \in Store /\ store.rows = rows
          /\ store.counter = stores[h].counter /\ store.seeded = stores[h].seeded
        BY <2>2, <2>7 DEF Store
    <2> HIDE DEF store
    <2>10. StoreStep(r, store)
        BY <1>2, <2>8 DEF StoreStep
    <2>11. /\ stores' \in Seq(Store)
           /\ Len(stores') = Len(stores)
           /\ DOMAIN stores' = 1 .. Len(stores)
           /\ \A s \in 1 .. Len(stores) :
                 stores'[s] = IF s = h THEN store ELSE stores[s]
        BY <1>1, <2>9, <2>10, StoreStepFacts
    <2>12. m.kind = "push" => m.row.id \in minted[r] /\ minted[r] \subseteq Nat
        BY DEF IInv, BeforeInv, Types
    <2>13. Types'
        BY <1>1, <1>2, <1>4, <2>11 DEF IInv, Types, Phases
    <2>14. SeedInv'
        BY <1>2, <1>3, <1>7, <1>8, <2>9, <2>11 DEF IInv, SeedInv, At
    <2>15. BoundInv'
        <3>1. PICK n \in Nat : \A row \in stores[h].rows : row.id \in Nat /\ row.id <= n
            BY <1>1, StoreFacts DEF IInv
        <3>2. m.row.id \in Nat
            BY <2>2 DEF Mutation, Row
        <3>3. \A row \in rows : row.id <= n + m.row.id
            BY <3>1, <3>2, <2>7
        <3>4. \E k \in Nat : \A row \in rows : row.id <= k
            BY <3>1, <3>2, <3>3
        <3> QED
            BY <2>9, <2>11, <3>4 DEF IInv, BoundInv
    <2>16. CounterInv'
        <3>1. CASE stores[h].counter = {} /\ \A q \in At(h) : minted[q] = {}
            BY <3>1, <1>2, <1>3, <2>9, <2>11 DEF IInv, CounterInv
        <3>2. CASE \E c \in Nat :
                      /\ stores[h].counter = {c}
                      /\ \A row \in stores[h].rows : row.id <= c
                      /\ \A q \in At(h) : \A k \in minted[q] : k <= c
            <4>1. PICK c \in Nat :
                      /\ stores[h].counter = {c}
                      /\ \A row \in stores[h].rows : row.id <= c
                      /\ \A q \in At(h) : \A k \in minted[q] : k <= c
                BY <3>2
            <4>2. \A row \in rows : row.id <= c
                BY <4>1, <1>1, <2>7, <2>12
            <4> QED
                BY <4>1, <4>2, <1>2, <1>3, <2>9, <2>11 DEF IInv, CounterInv
        <3> QED
            BY <3>1, <3>2, <1>1 DEF IInv, CounterInv
    <2>17. FreshInv'
        <3>1. ASSUME NEW q \in Requests, NEW k \in pending'[q], k.kind = "push",
                     NEW row \in stores'[home[q]].rows
              PROVE  row.id # k.row.id
            <4>1. q # r /\ k \in pending[q] /\ home[q] \in 1 .. Len(stores)
                BY <1>7
            <4>2. CASE home[q] = h
                <5>1. k.row.id \in minted[q] /\ k.row.id \notin minted[r]
                    BY <3>1, <4>1, <4>2 DEF IInv, BeforeInv, FreshInv
                <5>2. \A old \in stores[h].rows : old.id # k.row.id
                    BY <3>1, <4>1, <4>2 DEF IInv, FreshInv
                <5>3. row \in rows
                    BY <4>1, <4>2, <2>9, <2>11
                <5> QED
                    BY <5>1, <5>2, <5>3, <2>7, <2>12
            <4>3. CASE home[q] # h
                BY <3>1, <4>1, <4>3, <2>11 DEF IInv, FreshInv
            <4> QED
                BY <4>2, <4>3
        <3> QED
            BY <1>2, <3>1 DEF IInv, FreshInv
    <2>18. TraceInv'
        <3>1. m.row.by \subseteq Stored'
            BY <1>6, <1>10 DEF IInv, TraceInv
        <3>2. \A row \in rows : row.by \subseteq Stored'
            BY <3>1, <1>1, <1>6, <2>7 DEF IInv, TraceInv
        <3>3. \A s \in 1 .. Len(stores) :
                 \A row \in stores'[s].rows : row.by \subseteq Stored'
            BY <3>2, <1>6, <2>9, <2>11 DEF IInv, TraceInv
        <3>4. \A q \in Requests : \A k \in pending'[q] : k.row.by \subseteq Stored' \cup {q}
            BY <1>6, <1>7 DEF IInv, TraceInv
        <3> QED
            BY <2>11, <3>3, <3>4 DEF TraceInv
    <2>19. UniqueIds'
        BY <2>7, <2>9, <2>11 DEF IInv, UniqueIds
    <2> QED
        BY <1>5, <2>13, <2>14, <2>15, <2>16, <2>17, <2>18, <2>19 DEF IInv
<1> QED
    BY <1>4, <1>9, <1>10

-----------------------------------------------------------------------------
(* The theorems. *)

\* Every step keeps the invariant.
LEMMA StepInv == IInv /\ [Next]_vars => IInv'
<1> SUFFICES ASSUME IInv, [Next]_vars PROVE IInv'
    OBVIOUS
<1>0. /\ call \in [Requests -> Calls] /\ phase \in [Requests -> Phases]
      /\ \A r \in Requests : phase[r] # "idle" => home[r] \in 1 .. Len(stores)
      /\ home \in [Requests -> 0 .. Len(stores)]
    BY DEF IInv, Types
<1>1. CASE ResetState
    BY <1>1, ResetStep
<1>2. ASSUME NEW r \in Requests, Admit(r) PROVE IInv'
    <2>1. /\ UNCHANGED <<stores, pending, minted>>
          /\ call' \in [Requests -> Calls]
          /\ phase' = [phase EXCEPT ![r] = "admitted"]
          /\ phase[r] = "idle"
        BY <1>0, <1>2 DEF Admit
    <2>2. home' = [home EXCEPT ![r] = Len(stores)]
        BY <1>2 DEF Admit
    <2>3. Len(stores) \in 1 .. Len(stores)
        BY DEF IInv, Types
    <2> QED
        BY <2>1, <2>2, <2>3, QuietStep DEF Phases
<1>3. ASSUME NEW r \in Requests, NEW p \in {"refused", "processing", "dropped"},
             UNCHANGED <<stores, pending, minted, call, home>>,
             phase' = [phase EXCEPT ![r] = p],
             phase[r] \in {"admitted", "generated"}
      PROVE  IInv'
    <2>1. home[r] \in 1 .. Len(stores) /\ home' = [home EXCEPT ![r] = home[r]]
        BY <1>0, <1>3
    <2>2. call' \in [Requests -> Calls]
        BY <1>0, <1>3
    <2> QED
        BY <1>3, <2>1, <2>2, QuietStep DEF Phases
<1>4. ASSUME NEW r \in Requests, Reject(r) \/ Process(r) \/ Drop(r) PROVE IInv'
    BY <1>3, <1>4 DEF Reject, Process, Drop
<1>5. ASSUME UNCHANGED <<stores, phase, call, home, pending, minted>> PROVE IInv'
    <2>1. Stored' = Stored /\ \A s : At(s)' = At(s)
        BY <1>5 DEF Stored, At
    <2>2. Types' /\ BeforeInv'
        BY <1>5 DEF IInv, Types, BeforeInv
    <2>3. SeedInv' /\ CounterInv'
        BY <1>5, <2>1 DEF IInv, SeedInv, CounterInv
    <2>4. BoundInv' /\ UniqueIds'
        BY <1>5 DEF IInv, BoundInv, UniqueIds
    <2>5. FreshInv'
        BY <1>5 DEF IInv, FreshInv
    <2>6. TraceInv'
        BY <1>5, <2>1 DEF IInv, TraceInv
    <2> QED
        BY <2>2, <2>3, <2>4, <2>5, <2>6 DEF IInv
<1>6. ASSUME NEW r \in Requests, Abort(r) PROVE IInv'
    BY <1>5, <1>6 DEF Abort
<1>7. CASE UNCHANGED vars
    BY <1>5, <1>7 DEF vars
<1> QED
    BY <1>1, <1>2, <1>4, <1>6, <1>7, GenerateStep, MintStep, SettleStep DEF Next

\* The invariant holds in every reachable state.
THEOREM Invariance == Spec => []IInv
<1>1. Init => IInv
    BY InitInv
<1>2. IInv /\ [Next]_vars => IInv'
    BY StepInv
<1> QED
    BY <1>1, <1>2, PTL DEF Spec

\* However creates, deletes and late commits interleave, no two rows of a
\* collection share an identifier (generators.ts, getNextId).
THEOREM IdentifiersUnique == Spec => []UniqueIds
<1>1. IInv => UniqueIds
    BY DEF IInv
<1> QED
    BY <1>1, Invariance, PTL

\* A request that was refused, or whose pipeline ended before process(), left
\* nothing in any collection (plugin.ts, settlePendingMutations).
THEOREM RejectionsTraceless == Spec => []RejectedLeavesNoTrace
<1>1. IInv => RejectedLeavesNoTrace
    <2>1. ASSUME IInv PROVE DOMAIN stores = 1 .. Len(stores)
        BY <2>1, LenProperties DEF IInv, Types
    <2> QED
        BY <2>1 DEF IInv, TraceInv, RejectedLeavesNoTrace, Stored
<1> QED
    BY <1>1, Invariance, PTL

-----------------------------------------------------------------------------
(* What a client was told of a write.  An identifier is given again only by  *)
(* a collection that is loaded and never seeded: see SameRowUpdated.         *)

NeverReused == SeedIds # {} \/ PreloadedIds = {}

\* A delete that was acknowledged.
Deleted(r) == phase[r] = "stored" /\ call[r].op = "delete"

\* A row was loaded, and its identifier given to nobody, or it is that of the
\* create it is said to be born of.
Owned(row, s) ==
    \/ row.born = Loaded /\ \A r \in At(s) : row.id \notin minted[r]
    \/ row.born \in At(s) /\ row.id \in minted[row.born]

OwnInv ==
    /\ \A s \in 1 .. Len(stores) : \A row \in stores[s].rows : Owned(row, s)
    /\ \A r \in Requests : \A m \in pending[r] : Owned(m.row, home[r])

\* What a request stages is what it asks for.
StagedInv ==
    \A r \in Requests :
        /\ phase[r] = "generating" => call[r].op = "create"
        /\ minted[r] # {} => call[r].op = "create"
        /\ phase[r] = "stored" => pending[r] = {}
        /\ \A m \in pending[r] :
              /\ call[r].op = "create" => m.kind = "push" /\ m.row.born = r
              /\ call[r].op = "update" => m.kind = "replace"
              /\ call[r].op = "delete" => m.kind = "remove" /\ m.row.id = call[r].id
              /\ call[r].op # "read"

\* The counter has seen every identifier that is staged, or was deleted; without
\* a counter nothing was staged, and the collection is empty or will be seeded.
KnownInv ==
    \A s \in 1 .. Len(stores) :
        /\ stores[s].counter = {} =>
              /\ SeedIds = {} => stores[s].rows = {}
              /\ SeedIds # {} => ~stores[s].seeded
              /\ \A r \in At(s) : pending[r] = {} /\ phase[r] # "stored"
        /\ stores[s].counter # {} /\ SeedIds # {} => stores[s].seeded
        /\ \A c \in stores[s].counter : \A r \in At(s) :
              /\ \A m \in pending[r] : m.row.id <= c
              /\ Deleted(r) => call[r].id <= c

\* Nobody else has found the row that a create has staged.
FreeInv ==
    \A r, q \in Requests : home[q] = home[r] =>
        \A m \in pending[r] : m.kind = "push" =>
            /\ \A k \in pending[q] : k.kind # "push" => k.row.id # m.row.id
            /\ Deleted(q) => call[q].id # m.row.id

WInv == OwnInv /\ StagedInv /\ KnownInv /\ FreeInv /\ AckedWritesStay

\* Two rows of one identifier are of one birth.
LEMMA OwnersAgree ==
    ASSUME IInv, NEW s, NEW a, NEW b, Owned(a, s), Owned(b, s), a.id = b.id
    PROVE  a.born = b.born
<1>1. CASE a.born = Loaded /\ \A r \in At(s) : a.id \notin minted[r]
    BY <1>1 DEF Owned
<1>2. CASE a.born \in At(s) /\ a.id \in minted[a.born]
    <2>1. b.born \in At(s) /\ b.id \in minted[b.born]
        BY <1>2 DEF Owned
    <2> QED
        BY <1>2, <2>1 DEF IInv, FreshInv, At
<1> QED
    BY <1>1, <1>2 DEF Owned

\* The initial states.
LEMMA InitWrites == NeverReused /\ Init => WInv
<1> SUFFICES ASSUME NeverReused, Init PROVE WInv
    OBVIOUS
<1> DEFINE first == [Blank EXCEPT !.rows = LoadedRows(PreloadedIds)]
<1>1. LoadedRows(PreloadedIds) \subseteq Row
    BY LoadedFacts, IdsAssumption
<1>2. /\ first \in Store /\ first.rows = LoadedRows(PreloadedIds)
      /\ first.counter = {} /\ first.seeded = FALSE
    BY <1>1 DEF Blank, Store
<1>3. stores \in Seq(Store) /\ Len(stores) = 1 /\ stores[1] = first
    BY <1>2 DEF Init
<1> HIDE DEF first
<1>4. \A row \in LoadedRows(PreloadedIds) : row.born = Loaded
    BY DEF LoadedRows
<1>5. /\ \A r \in Requests : minted[r] = {} /\ pending[r] = {} /\ phase[r] = "idle"
      /\ \A s \in 1 .. Len(stores) : s = 1 /\ At(s) = {}
    BY <1>3 DEF Init, At
<1>6. OwnInv
    BY <1>2, <1>3, <1>4, <1>5 DEF OwnInv, Owned
<1>7. StagedInv /\ FreeInv /\ AckedWritesStay
    BY <1>5 DEF StagedInv, FreeInv, AckedWritesStay
<1>8. PreloadedIds = {} => LoadedRows(PreloadedIds) = {}
    BY DEF LoadedRows
<1>9. KnownInv
    BY <1>2, <1>3, <1>5, <1>8 DEF KnownInv, NeverReused
<1> QED
    BY <1>6, <1>7, <1>9 DEF WInv

\* A step that touches no collection, and at most empties what is staged.
LEMMA QuietWrites ==
    ASSUME IInv, WInv, UNCHANGED <<stores, minted>>,
           \A q \in Requests : pending'[q] \subseteq pending[q],
           \A q \in Requests : phase'[q] = "generating" => phase[q] = "generating" \/ call'[q].op = "create",
           \A q \in Requests :
              \/ /\ home'[q] = home[q] /\ call'[q] = call[q]
                 /\ phase'[q] = "stored" <=> phase[q] = "stored"
              \/ /\ minted[q] = {} /\ pending[q] = {}
                 /\ phase[q] \notin {"stored", "generating"} /\ phase'[q] \notin {"stored", "generating"}
    PROVE  WInv'
<1>1. \A q \in Requests : Deleted(q)' <=> Deleted(q)
    BY DEF Deleted
<1>2. \A s : \A q \in At(s)' : q \in At(s) \/ (minted[q] = {} /\ pending'[q] = {} /\ ~Deleted(q)' /\ phase'[q] # "stored")
    BY DEF At, Deleted
<1>3. \A s : \A q \in At(s) : minted[q] # {} => q \in At(s)'
    BY DEF At
<1>4. \A row, s : Owned(row, s) => Owned(row, s)'
    BY <1>2, <1>3 DEF Owned
<1>5. OwnInv'
    <2>1. \A r \in Requests : \A m \in pending'[r] : m \in pending[r] /\ home'[r] = home[r]
        OBVIOUS
    <2> QED
        BY <1>4, <2>1 DEF WInv, OwnInv
<1>6. StagedInv'
    BY DEF WInv, StagedInv
<1>7. \A s : \A q \in At(s) : \/ q \in At(s)' /\ call'[q] = call[q]
                              \/ ~Deleted(q)
    BY DEF At, Deleted
<1>8. KnownInv'
    <2> SUFFICES ASSUME NEW s \in 1 .. Len(stores)
                 PROVE  /\ stores[s].counter = {} =>
                              /\ SeedIds = {} => stores[s].rows = {}
                              /\ SeedIds # {} => ~stores[s].seeded
                              /\ \A r \in At(s)' : pending'[r] = {} /\ phase'[r] # "stored"
                        /\ stores[s].counter # {} /\ SeedIds # {} => stores[s].seeded
                        /\ \A c \in stores[s].counter : \A r \in At(s)' :
                              /\ \A m \in pending'[r] : m.row.id <= c
                              /\ Deleted(r)' => call'[r].id <= c
        BY DEF KnownInv
    <2>1. \A r \in At(s)' : Deleted(r)' => call'[r] = call[r] /\ r \in At(s) /\ Deleted(r)
        BY <1>1, <1>2 DEF At, Deleted
    <2>2. \A r \in At(s)' : \/ r \in At(s) /\ (phase'[r] = "stored" => phase[r] = "stored")
                            \/ pending'[r] = {} /\ phase'[r] # "stored"
        BY <1>2 DEF At
    <2>3. \A r \in At(s) : r \in Requests
        BY DEF At
    <2> QED
        BY <2>1, <2>2, <2>3 DEF WInv, KnownInv
<1>9. FreeInv'
    <2> SUFFICES ASSUME NEW r \in Requests, NEW q \in Requests, home'[q] = home'[r],
                        NEW m \in pending'[r], m.kind = "push"
                 PROVE  /\ \A k \in pending'[q] : k.kind # "push" => k.row.id # m.row.id
                        /\ Deleted(q)' => call'[q].id # m.row.id
        BY DEF FreeInv
    <2>1. m \in pending[r] /\ home'[r] = home[r]
        OBVIOUS
    <2>2. CASE home'[q] = home[q] /\ call'[q] = call[q]
        BY <1>1, <2>1, <2>2 DEF WInv, FreeInv
    <2>3. CASE pending[q] = {} /\ ~Deleted(q)
        BY <1>1, <2>3
    <2> QED
        BY <2>2, <2>3 DEF Deleted
<1>10. AckedWritesStay'
    <2>1. \A q \in Requests : phase'[q] = "stored" <=> phase[q] = "stored"
        OBVIOUS
    <2>2. \A q \in Requests : phase[q] = "stored" => home'[q] = home[q] /\ call'[q] = call[q]
        OBVIOUS
    <2> QED
        BY <2>1, <2>2 DEF WInv, AckedWritesStay
<1> QED
    BY <1>5, <1>6, <1>8, <1>9, <1>10 DEF WInv

\* A new state object.
LEMMA ResetWrites == IInv /\ WInv /\ ResetState => WInv'
<1> SUFFICES ASSUME IInv, WInv, ResetState PROVE WInv'
    OBVIOUS
<1> USE DEF ResetState
<1>1. Blank.rows = {} /\ Blank.counter = {} /\ Blank.seeded = FALSE /\ Blank \in Store
    BY DEF Blank, Store
<1>2. /\ Len(stores) \in Nat /\ Len(stores') = Len(stores) + 1
      /\ \A s \in 1 .. Len(stores) : stores'[s] = stores[s]
      /\ stores'[Len(stores) + 1] = Blank
    BY <1>1, AppendProperties DEF IInv, Types
<1>3. \A s : At(s)' = At(s)
    BY DEF At
<1>4. \A q \in Requests : Deleted(q)' <=> Deleted(q)
    BY DEF Deleted
<1>5. \A row, s : Owned(row, s)' <=> Owned(row, s)
    BY <1>3 DEF Owned
<1>6. ASSUME NEW s \in 1 .. Len(stores')
      PROVE  \/ s \in 1 .. Len(stores) /\ stores'[s] = stores[s]
             \/ stores'[s] = Blank /\ At(s) = {}
    BY <1>2 DEF IInv, Types, At
<1>7. OwnInv'
    BY <1>1, <1>5, <1>6 DEF WInv, OwnInv
<1>8. StagedInv'
    BY DEF WInv, StagedInv
<1>9. KnownInv'
    BY <1>1, <1>3, <1>4, <1>6 DEF WInv, KnownInv, At
<1>10. FreeInv'
    BY <1>4 DEF WInv, FreeInv
<1>11. AckedWritesStay'
    <2>1. \A r \in Requests : phase[r] = "stored" => stores'[home[r]] = stores[home[r]]
        BY <1>2 DEF IInv, Types
    <2>2. /\ phase' = phase /\ call' = call /\ home' = home /\ minted' = minted
        OBVIOUS
    <2> HIDE DEF ResetState
    <2> SUFFICES ASSUME NEW r \in Requests, phase[r] = "stored"
                 PROVE  /\ minted[r] # {} =>
                              \/ \E row \in stores'[home[r]].rows : row.born = r
                              \/ \E d \in Requests :
                                   /\ phase[d] = "stored" /\ call[d].op = "delete"
                                   /\ home[d] = home[r] /\ call[d].id \in minted[r]
                        /\ call[r].op = "delete" =>
                              \A row \in stores'[home[r]].rows : row.id # call[r].id
        BY <2>2 DEF AckedWritesStay
    <2> QED
        BY <2>1 DEF WInv, AckedWritesStay
<1> QED
    BY <1>7, <1>8, <1>9, <1>10, <1>11 DEF WInv

\* A generator finds a row with the identifier it is asked for.
LEMMA FoundFacts ==
    ASSUME NEW r \in Requests, NEW rows \in SUBSET Row, NEW m \in Staged(r, rows)
    PROVE  /\ \E row \in rows : m.row.id = row.id /\ m.row.born = row.born
           /\ m.row.id = call[r].id
           /\ call[r].op \in {"update", "delete"}
           /\ call[r].op = "update" => m.kind = "replace"
           /\ call[r].op = "delete" => m.kind = "remove"
<1>1. CASE call[r].op = "update"
    <2>1. PICK row \in rows :
             /\ row.id = call[r].id
             /\ m = [kind |-> "replace", row |-> [row EXCEPT !.by = @ \cup {r}]]
        BY <1>1 DEF Staged
    <2>2. row \in Row
        OBVIOUS
    <2>3. /\ [row EXCEPT !.by = @ \cup {r}].id = row.id
          /\ [row EXCEPT !.by = @ \cup {r}].born = row.born
        BY <2>2 DEF Row
    <2> QED
        BY <1>1, <2>1, <2>3
<1>2. CASE call[r].op = "delete"
    BY <1>2 DEF Staged
<1>3. CASE call[r].op \notin {"update", "delete"}
    BY <1>3 DEF Staged
<1> QED
    BY <1>1, <1>2, <1>3

\* Seeding loses nothing that was acknowledged, since nobody was there; and what
\* is staged was found.
LEMMA GenerateWrites ==
    ASSUME IInv, WInv, NEW r \in Requests, Generate(r)
    PROVE  WInv'
<1> DEFINE h == home[r]
<1> DEFINE store == Seeded(stores[h])
<1>1. /\ phase[r] = "admitted" /\ h \in 1 .. Len(stores)
      /\ minted[r] = {} /\ pending[r] = {} /\ r \in At(h)
    BY DEF Generate, IInv, Types, BeforeInv, At
<1>2. /\ store \in Store
      /\ store.seeded \/ SeedIds = {}
      /\ \/ store = stores[h]
         \/ /\ store.rows = LoadedRows(SeedIds)
            /\ store.counter = {Highest(SeedIds)}
            /\ ~stores[h].seeded /\ SeedIds # {}
            /\ \A q \in At(h) : minted[q] = {} /\ pending[q] = {}
    BY <1>1, SeededFacts
<1>3. /\ StoreStep(r, store)
      /\ pending' = [pending EXCEPT ![r] = Staged(r, store.rows)]
      /\ UNCHANGED minted
      /\ phase' = [phase EXCEPT ![r] =
                      IF call[r].op = "create" THEN "generating" ELSE "generated"]
    BY DEF Generate, StoreStep, StateOf
<1> HIDE DEF store
<1>4. /\ \A s \in 1 .. Len(stores) : stores'[s] = IF s = h THEN store ELSE stores[s]
      /\ Len(stores') = Len(stores)
      /\ \A s : At(s)' = At(s)
      /\ UNCHANGED <<call, home>>
    BY <1>1, <1>2, <1>3, StoreStepFacts DEF StoreStep
<1>5. /\ \A q \in Requests : q # r => phase'[q] = phase[q] /\ pending'[q] = pending[q]
      /\ phase'[r] \in {"generating", "generated"} /\ pending'[r] = Staged(r, store.rows)
      /\ phase'[r] = "generating" => call[r].op = "create"
    BY <1>3 DEF IInv, Types
<1>6. \A q \in Requests : (phase'[q] = "stored" <=> phase[q] = "stored")
                          /\ (Deleted(q)' <=> Deleted(q))
    BY <1>1, <1>4, <1>5 DEF Deleted
<1>7. store.rows \in SUBSET Row
    BY <1>2 DEF Store
<1>8. ASSUME NEW m \in Staged(r, store.rows)
      PROVE  /\ \E row \in store.rows : m.row.id = row.id /\ m.row.born = row.born
             /\ m.row.id = call[r].id
             /\ call[r].op \in {"update", "delete"}
             /\ call[r].op = "update" => m.kind = "replace"
             /\ call[r].op = "delete" => m.kind = "remove"
    BY <1>7, FoundFacts
<1>9. \/ store = stores[h]
      \/ /\ store.rows = LoadedRows(SeedIds) /\ store.counter = {Highest(SeedIds)}
         /\ \A q \in At(h) : minted[q] = {} /\ pending[q] = {} /\ phase[q] # "stored"
    <2>1. ~stores[h].seeded /\ SeedIds # {} => \A q \in At(h) : phase[q] # "stored"
        BY <1>1 DEF WInv, KnownInv
    <2> QED
        BY <1>2, <2>1
<1>10. \A row, s : Owned(row, s)' <=> Owned(row, s)
    BY <1>3, <1>4 DEF Owned
<1>11. \A row \in store.rows : Owned(row, h)
    <2>1. CASE store = stores[h]
        BY <1>1, <2>1 DEF WInv, OwnInv
    <2>2. CASE store.rows = LoadedRows(SeedIds) /\ \A q \in At(h) : minted[q] = {}
        BY <2>2 DEF LoadedRows, Owned
    <2> QED
        BY <1>9, <2>1, <2>2
<1>12. OwnInv'
    <2>1. \A s \in 1 .. Len(stores) : \A row \in stores'[s].rows : Owned(row, s)
        BY <1>4, <1>11 DEF WInv, OwnInv
    <2>2. \A m \in Staged(r, store.rows) : Owned(m.row, h)
        BY <1>8, <1>11 DEF Owned
    <2>3. \A q \in Requests : \A m \in pending'[q] : Owned(m.row, home[q])
        BY <1>5, <2>2 DEF WInv, OwnInv
    <2> QED
        BY <1>4, <1>10, <2>1, <2>3 DEF OwnInv
<1>13. StagedInv'
    BY <1>1, <1>3, <1>4, <1>5, <1>6, <1>8 DEF WInv, StagedInv
<1>14. KnownInv'
    <2>1. ASSUME NEW s \in 1 .. Len(stores), s # h
          PROVE  /\ stores'[s] = stores[s]
                 /\ \A q \in At(s) : q \in Requests /\ pending'[q] = pending[q]
        BY <1>4, <1>5, <2>1 DEF At
    <2>2. store.counter = {} => SeedIds = {} /\ store = stores[h] /\ store.rows = {}
        BY <1>1, <1>2 DEF WInv, KnownInv
    <2>3. store.counter = {} => Staged(r, store.rows) = {}
        BY <1>8, <2>2
    <2>4. store.counter = {} => \A q \in At(h) : pending'[q] = {} /\ phase'[q] # "stored"
        BY <1>1, <1>5, <1>6, <2>2, <2>3 DEF WInv, KnownInv, At
    <2>5. ASSUME NEW c \in store.counter PROVE \A row \in store.rows : row.id <= c
        <3>1. CASE store = stores[h]
            BY <1>1, <2>5, <3>1 DEF IInv, CounterInv
        <3>2. CASE store.rows = LoadedRows(SeedIds) /\ store.counter = {Highest(SeedIds)}
            BY <2>5, <3>2, LoadedFacts, IdsAssumption
        <3> QED
            BY <1>9, <3>1, <3>2
    <2>6. ASSUME NEW c \in store.counter, NEW q \in At(h)
          PROVE  /\ \A m \in pending'[q] : m.row.id <= c
                 /\ Deleted(q) => call[q].id <= c
        <3>1. CASE q = r
            BY <1>1, <1>5, <1>8, <2>5, <3>1 DEF Deleted
        <3>2. CASE q # r
            <4>1. q \in Requests /\ pending'[q] = pending[q]
                BY <1>5, <3>2 DEF At
            <4> QED
                BY <1>1, <1>9, <2>6, <4>1 DEF WInv, KnownInv, Deleted
        <3> QED
            BY <3>1, <3>2
    <2>7. \A s : \A q \in At(s) : q \in Requests
        BY DEF At
    <2> SUFFICES ASSUME NEW s \in 1 .. Len(stores)
                 PROVE  /\ stores'[s].counter = {} =>
                              /\ SeedIds = {} => stores'[s].rows = {}
                              /\ SeedIds # {} => ~stores'[s].seeded
                              /\ \A q \in At(s) : pending'[q] = {} /\ phase'[q] # "stored"
                        /\ stores'[s].counter # {} /\ SeedIds # {} => stores'[s].seeded
                        /\ \A c \in stores'[s].counter : \A q \in At(s) :
                              /\ \A m \in pending'[q] : m.row.id <= c
                              /\ Deleted(q) => call[q].id <= c
        BY <1>4, <1>6, <2>7 DEF KnownInv
    <2>8. CASE s = h
        BY <1>2, <1>4, <2>2, <2>4, <2>6, <2>8
    <2>9. CASE s # h
        BY <1>6, <2>1, <2>7, <2>9 DEF WInv, KnownInv
    <2> QED
        BY <2>8, <2>9
<1>15. FreeInv'
    <2> SUFFICES ASSUME NEW p \in Requests, NEW q \in Requests, home[q] = home[p],
                        NEW m \in pending'[p], m.kind = "push"
                 PROVE  /\ \A k \in pending'[q] : k.kind # "push" => k.row.id # m.row.id
                        /\ Deleted(q) => call[q].id # m.row.id
        BY <1>4, <1>6 DEF FreeInv
    <2>1. p # r /\ m \in pending[p]
        BY <1>5, <1>8
    <2>2. CASE q # r
        BY <1>5, <2>1, <2>2 DEF WInv, FreeInv
    <2>3. CASE q = r
        <3>1. store = stores[h]
            BY <1>9, <2>1, <2>3 DEF At
        <3>2. \A row \in store.rows : row.id # m.row.id
            BY <2>1, <2>3, <3>1 DEF IInv, FreshInv
        <3> QED
            BY <1>1, <1>5, <1>8, <2>3, <3>2 DEF Deleted
    <2> QED
        BY <2>2, <2>3
<1>16. AckedWritesStay'
    <2> SUFFICES ASSUME NEW q \in Requests, phase[q] = "stored"
                 PROVE  /\ minted[q] # {} =>
                              \/ \E row \in stores'[home[q]].rows : row.born = q
                              \/ \E d \in Requests :
                                   /\ phase[d] = "stored" /\ call[d].op = "delete"
                                   /\ home[d] = home[q] /\ call[d].id \in minted[q]
                        /\ call[q].op = "delete" =>
                              \A row \in stores'[home[q]].rows : row.id # call[q].id
        BY <1>3, <1>4, <1>6 DEF AckedWritesStay
    <2>1. home[q] \in 1 .. Len(stores) /\ q \in At(home[q])
        BY DEF IInv, Types, At
    <2>2. stores'[home[q]] = stores[home[q]]
        BY <1>4, <1>9, <2>1
    <2> QED
        BY <2>2 DEF WInv, AckedWritesStay
<1> QED
    BY <1>12, <1>13, <1>14, <1>15, <1>16 DEF WInv

\* Identifiers are numbers.
LEMMA IdsAreNat ==
    ASSUME IInv, NEW r \in Requests
    PROVE  call[r].id \in Nat /\ \A m \in pending[r] : m.row.id \in Nat
<1>1. call[r] \in Calls /\ \A m \in pending[r] : m \in Mutation
    BY DEF IInv, Types
<1>2. call[r].id \in Nat
    <2>1. \A c \in Calls : c.id = 0 \/ c.id \in Targets
        BY DEF Calls
    <2> QED
        <3>1. \A t \in Targets : t \in Nat
            BY IdsAssumption
        <3>2. PICK n : n = call[r].id
            OBVIOUS
        <3>3. n = 0 \/ n \in Targets
            BY <1>1, <2>1, <3>2
        <3> QED
            BY <3>1, <3>2, <3>3
<1> QED
    BY <1>1, <1>2 DEF Mutation, Row

\* A new identifier is none that was staged or deleted.
LEMMA NextIdIsFree ==
    ASSUME IInv, WInv, NEW s \in 1 .. Len(stores)
    PROVE  \A q \in At(s) : /\ \A m \in pending[q] : m.row.id < NextId(stores[s])
                            /\ Deleted(q) => call[q].id < NextId(stores[s])
<1>1. CASE stores[s].counter = {}
    BY <1>1 DEF WInv, KnownInv, Deleted
<1>2. CASE stores[s].counter # {}
    <2>1. PICK c \in Nat : stores[s].counter = {c}
        BY <1>2 DEF IInv, CounterInv
    <2>2. Highest({c}) \in Nat /\ c <= Highest({c})
        <3>1. {c} \in SUBSET Nat /\ \A x \in {c} : x <= c
            OBVIOUS
        <3> QED
            BY <3>1, HighestIsBound
    <2>3. PICK h \in Nat : h = Highest({c})
        BY <2>2
    <2>4. NextId(stores[s]) = 1 + h /\ c < 1 + h
        BY <1>2, <2>1, <2>2, <2>3 DEF NextId
    <2>5. ASSUME NEW q \in At(s)
          PROVE  /\ \A m \in pending[q] : m.row.id \in Nat /\ m.row.id <= c
                 /\ call[q].id \in Nat /\ (Deleted(q) => call[q].id <= c)
        <3>1. call[q].id \in Nat /\ \A m \in pending[q] : m.row.id \in Nat
            BY IdsAreNat DEF At
        <3> QED
            BY <2>1, <3>1 DEF WInv, KnownInv
    <2> QED
        BY <2>4, <2>5
<1> QED
    BY <1>1, <1>2

\* The row of a create is staged under an identifier nobody knows.
LEMMA MintWrites ==
    ASSUME IInv, WInv, NEW r \in Requests, Mint(r)
    PROVE  WInv'
<1> DEFINE h == home[r]
<1> DEFINE id == NextId(stores[h])
<1> DEFINE store == Counted(stores[h])
<1> DEFINE push == [kind |-> "push", row |-> [id |-> id, born |-> r, by |-> {r}]]
<1>1. /\ phase[r] = "generating" /\ h \in 1 .. Len(stores)
      /\ minted[r] = {} /\ pending[r] = {} /\ r \in At(h)
    BY DEF Mint, IInv, Types, BeforeInv, At
<1>2. /\ id \in Nat
      /\ \A row \in stores[h].rows : row.id < id
      /\ \A q \in At(h) : \A k \in minted[q] : k < id
    BY <1>1, NextIdIsNew
<1>3. \A q \in At(h) : /\ \A m \in pending[q] : m.row.id < id
                       /\ Deleted(q) => call[q].id < id
    BY <1>1, NextIdIsFree
<1>4. /\ store \in Store
      /\ store.rows = stores[h].rows /\ store.counter = {id}
      /\ store.seeded = stores[h].seeded
    BY <1>1, <1>2, StoreFacts DEF Counted, Store, IInv
<1>5. /\ StoreStep(r, store)
      /\ pending' = [pending EXCEPT ![r] = {push}]
      /\ minted' = [minted EXCEPT ![r] = {id}]
      /\ \E p \in {"dropped", "generated"} : phase' = [phase EXCEPT ![r] = p]
    BY DEF Mint, StoreStep, StateOf
<1> HIDE DEF id, store
<1>6. /\ Len(stores') = Len(stores)
      /\ \A s \in 1 .. Len(stores) : stores'[s] = IF s = h THEN store ELSE stores[s]
      /\ \A s : At(s)' = At(s)
      /\ UNCHANGED <<call, home>>
    BY <1>1, <1>4, <1>5, StoreStepFacts DEF StoreStep
<1>7. /\ \A q \in Requests : q # r =>
            phase'[q] = phase[q] /\ pending'[q] = pending[q] /\ minted'[q] = minted[q]
      /\ phase'[r] \in {"dropped", "generated"}
      /\ pending'[r] = {push} /\ minted'[r] = {id}
    BY <1>5 DEF IInv, Types
<1>8. \A q \in Requests : (phase'[q] = "stored" <=> phase[q] = "stored")
                          /\ (Deleted(q)' <=> Deleted(q))
    BY <1>1, <1>6, <1>7 DEF Deleted
<1>9. \A s : \A q \in At(s) : q \in Requests /\ home[q] = s
    BY DEF At
<1>10. \A s \in 1 .. Len(stores) : stores'[s].rows = stores[s].rows
    BY <1>4, <1>6
<1>11. ASSUME NEW s \in 1 .. Len(stores), NEW row, Owned(row, s), s = h => row.id # id
       PROVE  Owned(row, s)'
    <2>1. CASE row.born = Loaded /\ \A q \in At(s) : row.id \notin minted[q]
        <3>1. \A q \in At(s) : row.id \notin minted'[q]
            BY <1>7, <1>9, <1>11, <2>1
        <3> QED
            BY <1>6, <2>1, <3>1 DEF Owned
    <2>2. CASE row.born \in At(s) /\ row.id \in minted[row.born]
        BY <1>1, <1>6, <1>7, <1>9, <2>2 DEF Owned
    <2> QED
        BY <1>11, <2>1, <2>2 DEF Owned
<1>12. OwnInv'
    <2>1. ASSUME NEW s \in 1 .. Len(stores), NEW row \in stores[s].rows
          PROVE  Owned(row, s)'
        <3>1. Owned(row, s)
            BY DEF WInv, OwnInv
        <3>2. row.id \in Nat
            BY StoreFacts DEF IInv
        <3>3. s = h => row.id # id
            BY <1>2, <3>2
        <3> QED
            BY <1>11, <3>1, <3>3
    <2>2. ASSUME NEW q \in Requests, NEW m \in pending[q], q # r
          PROVE  Owned(m.row, home[q])'
        <3>1. Owned(m.row, home[q]) /\ home[q] \in 1 .. Len(stores) /\ q \in At(home[q])
            BY DEF WInv, OwnInv, IInv, Types, BeforeInv, At
        <3>2. m.row.id \in Nat
            BY DEF IInv, Types, Mutation, Row
        <3>3. home[q] = h => m.row.id # id
            BY <1>2, <1>3, <3>1, <3>2
        <3>4. ASSUME NEW s \in 1 .. Len(stores), s = home[q] PROVE Owned(m.row, s)'
            BY <1>11, <3>1, <3>3, <3>4
        <3> QED
            BY <1>6, <3>1, <3>4
    <2>3. ASSUME NEW m, m = push PROVE Owned(m.row, home[r])'
        <3>1. r \in At(home[r])' /\ m.row.born = r /\ m.row.id = id
            BY <1>6, <2>3 DEF At
        <3> QED
            BY <1>7, <3>1 DEF Owned
    <2>4. ASSUME NEW q \in Requests, NEW m \in pending'[q] PROVE Owned(m.row, home[q])'
        <3>1. CASE q = r
            <4>1. m = push
                BY <1>7, <2>4, <3>1
            <4> QED
                BY <2>3, <3>1, <4>1
        <3>2. CASE q # r
            BY <1>7, <2>2, <2>4, <3>2
        <3> QED
            BY <3>1, <3>2
    <2> QED
        BY <1>6, <1>10, <2>1, <2>4 DEF OwnInv
<1>13. StagedInv'
    BY <1>1, <1>6, <1>7, <1>8 DEF WInv, StagedInv
<1>14. KnownInv'
    <2>1. SeedIds # {} => store.seeded
        BY <1>1, <1>4 DEF IInv, SeedInv
    <2>2. \A q \in At(h) : /\ \A m \in pending'[q] : m.row.id <= id
                           /\ Deleted(q) => call[q].id <= id
        <3> SUFFICES ASSUME NEW q \in At(h)
                     PROVE  /\ \A m \in pending'[q] : m.row.id <= id
                            /\ Deleted(q) => call[q].id <= id
            OBVIOUS
        <3>1. /\ \A m \in pending[q] : m.row.id \in Nat
              /\ call[q].id \in Nat
            BY <1>9, IdsAreNat
        <3>2. CASE q = r
            BY <1>1, <1>2, <1>7, <3>2 DEF Deleted
        <3>3. CASE q # r
            BY <1>2, <1>3, <1>7, <1>9, <3>1, <3>3
        <3> QED
            BY <3>2, <3>3
    <2> SUFFICES ASSUME NEW s \in 1 .. Len(stores)
                 PROVE  /\ stores'[s].counter = {} =>
                              /\ SeedIds = {} => stores'[s].rows = {}
                              /\ SeedIds # {} => ~stores'[s].seeded
                              /\ \A q \in At(s) : pending'[q] = {} /\ phase'[q] # "stored"
                        /\ stores'[s].counter # {} /\ SeedIds # {} => stores'[s].seeded
                        /\ \A c \in stores'[s].counter : \A q \in At(s) :
                              /\ \A m \in pending'[q] : m.row.id <= c
                              /\ Deleted(q) => call[q].id <= c
        BY <1>6, <1>8, <1>9 DEF KnownInv
    <2>3. CASE s = h
        BY <1>4, <1>6, <2>1, <2>2, <2>3
    <2>4. CASE s # h
        <3>1. stores'[s] = stores[s] /\ \A q \in At(s) : q # r
            BY <1>6, <1>9, <2>4
        <3> QED
            BY <1>7, <1>8, <1>9, <3>1 DEF WInv, KnownInv
    <2> QED
        BY <2>3, <2>4
<1>15. FreeInv'
    <2> SUFFICES ASSUME NEW p \in Requests, NEW q \in Requests, home[q] = home[p],
                        NEW m \in pending'[p], m.kind = "push"
                 PROVE  /\ \A k \in pending'[q] : k.kind # "push" => k.row.id # m.row.id
                        /\ Deleted(q) => call[q].id # m.row.id
        BY <1>6, <1>8 DEF FreeInv
    <2>1. CASE p # r
        <3>1. CASE q # r
            BY <1>7, <2>1, <3>1 DEF WInv, FreeInv
        <3>2. CASE q = r
            BY <1>1, <1>7, <3>2 DEF Deleted
        <3> QED
            BY <3>1, <3>2
    <2>2. CASE p = r
        <3>1. m.row.id = id /\ q \in At(h)
            BY <1>7, <2>2 DEF At
        <3>2. CASE q = r
            BY <1>1, <1>7, <3>2 DEF Deleted
        <3>3. CASE q # r
            <4>1. /\ \A k \in pending[q] : k.row.id \in Nat
                  /\ call[q].id \in Nat
                BY IdsAreNat
            <4> QED
                BY <1>2, <1>3, <1>7, <3>1, <3>3, <4>1
        <3> QED
            BY <3>2, <3>3
    <2> QED
        BY <2>1, <2>2
<1>16. AckedWritesStay'
    <2> SUFFICES ASSUME NEW q \in Requests, phase[q] = "stored"
                 PROVE  /\ minted'[q] # {} =>
                              \/ \E row \in stores'[home[q]].rows : row.born = q
                              \/ \E d \in Requests :
                                   /\ phase[d] = "stored" /\ call[d].op = "delete"
                                   /\ home[d] = home[q] /\ call[d].id \in minted'[q]
                        /\ call[q].op = "delete" =>
                              \A row \in stores'[home[q]].rows : row.id # call[q].id
        BY <1>6, <1>8 DEF AckedWritesStay
    <2>1. q # r /\ home[q] \in 1 .. Len(stores)
        BY <1>1 DEF IInv, Types
    <2>2. stores'[home[q]].rows = stores[home[q]].rows /\ minted'[q] = minted[q]
        BY <1>7, <1>10, <2>1
    <2> QED
        BY <2>2 DEF WInv, AckedWritesStay
<1> QED
    BY <1>12, <1>13, <1>14, <1>15, <1>16 DEF WInv

\* A staged write leaves every other row, and the identifiers of those it leaves.
LEMMA AppliedKeeps ==
    ASSUME NEW rows, NEW m, m.kind \in {"push", "replace", "remove"}
    PROVE  /\ \A row \in rows : row.id # m.row.id => row \in Applied(rows, m)
           /\ m.kind = "push" => rows \subseteq Applied(rows, m) /\ m.row \in Applied(rows, m)
           /\ m.kind = "replace" =>
                 \A row \in rows : row.id = m.row.id => m.row \in Applied(rows, m)
           /\ m.kind = "remove" => /\ Applied(rows, m) \subseteq rows
                                   /\ \A row \in Applied(rows, m) : row.id # m.row.id
<1>1. CASE m.kind = "push"
    BY <1>1 DEF Applied
<1>2. CASE m.kind = "replace"
    <2>1. Applied(rows, m) = {IF row.id = m.row.id THEN m.row ELSE row : row \in rows}
        BY <1>2 DEF Applied
    <2> QED
        BY <1>2, <2>1
<1>3. CASE m.kind = "remove"
    BY <1>3 DEF Applied
<1> QED
    BY <1>1, <1>2, <1>3

\* What process() does of a staged write, said of its collection.
Commits(r, m) ==
    /\ m \in pending[r] /\ m \in Mutation
    /\ phase'[r] = "stored"
    /\ \A s \in 1 .. Len(stores) :
          /\ stores'[s].rows = IF s = home[r] THEN Applied(stores[s].rows, m) ELSE stores[s].rows
          /\ stores'[s].counter = stores[s].counter
          /\ stores'[s].seeded = stores[s].seeded

LEMMA SettleFacts ==
    ASSUME IInv, NEW r \in Requests, Settle(r)
    PROVE  /\ home[r] \in 1 .. Len(stores) /\ phase[r] = "processing"
           /\ UNCHANGED <<call, home, minted>> /\ Len(stores') = Len(stores)
           /\ DOMAIN stores = 1 .. Len(stores) /\ DOMAIN stores' = 1 .. Len(stores)
           /\ pending'[r] = {}
           /\ \A q \in Requests : q # r => phase'[q] = phase[q] /\ pending'[q] = pending[q]
           /\ phase'[r] \in {"refused", "answered", "stored"}
           /\ \/ UNCHANGED stores /\ phase'[r] # "stored"
              \/ \E m \in pending[r] : Commits(r, m)
<1> DEFINE h == home[r]
<1>1. phase[r] = "processing" /\ h \in 1 .. Len(stores) /\ UNCHANGED <<call, home, minted>>
    BY DEF Settle, IInv, Types
<1>2. pending' = [pending EXCEPT ![r] = {}] /\ stores \in Seq(Store)
    BY DEF Settle, QueueAfter, IInv, Types
<1>3. PICK ok \in BOOLEAN :
         /\ phase' = [phase EXCEPT ![r] =
                         IF ~ok THEN "refused"
                         ELSE IF pending[r] = {} THEN "answered" ELSE "stored"]
         /\ \/ /\ ok
               /\ \E m \in pending[r] :
                    stores' = [stores EXCEPT ![h].rows = Applied(@, m)]
            \/ /\ ~ok \/ pending[r] = {}
               /\ UNCHANGED stores
    BY DEF Settle, Succeeds, StateOf
<1>4. /\ pending'[r] = {}
      /\ \A q \in Requests : q # r => phase'[q] = phase[q] /\ pending'[q] = pending[q]
      /\ phase'[r] = IF ~ok THEN "refused"
                     ELSE IF pending[r] = {} THEN "answered" ELSE "stored"
    BY <1>2, <1>3 DEF IInv, Types
<1>5. DOMAIN stores = 1 .. Len(stores)
    BY <1>2, LenProperties
<1>6. CASE (~ok \/ pending[r] = {}) /\ UNCHANGED stores
    BY <1>1, <1>4, <1>5, <1>6
<1>7. ASSUME ok, NEW m \in pending[r], stores' = [stores EXCEPT ![h].rows = Applied(@, m)]
      PROVE  /\ Commits(r, m) /\ Len(stores') = Len(stores)
             /\ DOMAIN stores' = 1 .. Len(stores)
    <2> DEFINE rows == Applied(stores[h].rows, m)
    <2> DEFINE store == [stores[h] EXCEPT !.rows = rows]
    <2>1. stores' = [stores EXCEPT ![h] = store]
        BY <1>7
    <2>2. stores[h] \in Store /\ m \in Mutation
        BY <1>1, StoreFacts DEF IInv, Types
    <2>3. /\ stores[h].rows \in SUBSET Row
          /\ \A a, b \in stores[h].rows : a.id = b.id => a = b
          /\ m.kind = "push" => \A row \in stores[h].rows : row.id # m.row.id
        BY <1>1, <1>5, <2>2 DEF Store, IInv, UniqueIds, FreshInv
    <2>4. rows \subseteq Row
        BY <2>2, <2>3, AppliedFacts
    <2> HIDE DEF rows
    <2>5. /\ store \in Store /\ store.rows = rows
          /\ store.counter = stores[h].counter /\ store.seeded = stores[h].seeded
        BY <2>2, <2>4 DEF Store
    <2> HIDE DEF store
    <2>6. /\ Len(stores') = Len(stores) /\ DOMAIN stores' = 1 .. Len(stores)
          /\ \A s \in 1 .. Len(stores) : stores'[s] = IF s = h THEN store ELSE stores[s]
        BY <1>1, <2>1, <2>5, StoreStepFacts DEF StoreStep
    <2> QED
        BY <1>4, <1>7, <2>2, <2>5, <2>6 DEF Commits, rows
<1>8. CASE ok /\ \E m \in pending[r] : stores' = [stores EXCEPT ![h].rows = Applied(@, m)]
    BY <1>1, <1>4, <1>5, <1>7, <1>8
<1> QED
    BY <1>3, <1>6, <1>8

\* A commit loses no row but the one a delete removes, and that delete is
\* acknowledged by it.
LEMMA SettleWrites ==
    ASSUME IInv, WInv, NEW r \in Requests, Settle(r)
    PROVE  WInv'
<1>1. /\ home[r] \in 1 .. Len(stores) /\ phase[r] = "processing"
      /\ UNCHANGED <<call, home, minted>> /\ Len(stores') = Len(stores)
      /\ pending'[r] = {}
      /\ \A q \in Requests : q # r => phase'[q] = phase[q] /\ pending'[q] = pending[q]
      /\ phase'[r] \in {"refused", "answered", "stored"}
      /\ \/ UNCHANGED stores /\ phase'[r] # "stored"
         \/ \E m \in pending[r] : Commits(r, m)
    BY SettleFacts
<1>2. CASE UNCHANGED stores /\ phase'[r] # "stored"
    <2>1. \A q \in Requests : /\ pending'[q] \subseteq pending[q]
                              /\ phase'[q] = "generating" => phase[q] = "generating"
                              /\ phase'[q] = "stored" <=> phase[q] = "stored"
        BY <1>1, <1>2
    <2> QED
        BY <1>1, <1>2, <2>1, QuietWrites
<1>3. ASSUME NEW m \in pending[r], Commits(r, m) PROVE WInv'
    <2> DEFINE h == home[r]
    <2>1. /\ m \in Mutation /\ m.kind \in {"push", "replace", "remove"} /\ phase'[r] = "stored"
          /\ \A s \in 1 .. Len(stores) :
                /\ stores'[s].rows = IF s = h THEN Applied(stores[s].rows, m) ELSE stores[s].rows
                /\ stores'[s].counter = stores[s].counter
                /\ stores'[s].seeded = stores[s].seeded
        BY <1>3 DEF Commits, Mutation
    <2>2. \A s : At(s)' = At(s)
        BY <1>1 DEF At
    <2>3. \A row, s : Owned(row, s)' <=> Owned(row, s)
        BY <1>1, <2>2 DEF Owned
    <2>4. \A q \in Requests : q # r =>
             (phase'[q] = "stored" <=> phase[q] = "stored") /\ (Deleted(q)' <=> Deleted(q))
        BY <1>1 DEF Deleted
    <2> DEFINE rows == stores[h].rows
    <2>5. /\ rows \in SUBSET Row
          /\ \A a, b \in rows : a.id = b.id => a = b
          /\ m.kind = "push" => \A row \in rows : row.id # m.row.id
        <3>1. stores[h] \in Store /\ DOMAIN stores = 1 .. Len(stores)
            BY <1>1, StoreFacts, LenProperties DEF IInv, Types
        <3> QED
            BY <1>1, <3>1 DEF Store, IInv, UniqueIds, FreshInv
    <2>6. \A row \in Applied(rows, m) :
             \/ row \in rows
             \/ row = m.row /\ (m.kind = "push" \/ \E old \in rows : old.id = row.id)
        <3> HIDE DEF rows
        <3> QED
            BY <2>1, <2>5, AppliedFacts
    <2>7. /\ call[r].op = "create" => m.kind = "push" /\ m.row.born = r
          /\ call[r].op = "update" => m.kind = "replace"
          /\ call[r].op = "delete" => m.kind = "remove" /\ m.row.id = call[r].id
          /\ call[r].op # "read"
          /\ minted[r] # {} => call[r].op = "create"
          /\ call[r].op \in {"create", "read", "update", "delete"}
        <3>1. call[r] \in Calls
            BY DEF IInv, Types
        <3>2. call[r].op \in {"create", "read", "update", "delete"}
            BY <3>1 DEF Calls
        <3> QED
            BY <3>2 DEF WInv, StagedInv
    <2>8. Owned(m.row, h) /\ \A row \in rows : Owned(row, h)
        BY <1>1 DEF WInv, OwnInv
    <2>9. OwnInv'
        <3>1. \A row \in Applied(rows, m) : Owned(row, h)
            BY <2>6, <2>8
        <3>2. \A s \in 1 .. Len(stores) : \A row \in stores'[s].rows : Owned(row, s)
            BY <2>1, <3>1 DEF WInv, OwnInv
        <3>3. \A q \in Requests : \A k \in pending'[q] : Owned(k.row, home[q])
            BY <1>1 DEF WInv, OwnInv
        <3> QED
            BY <1>1, <2>3, <3>2, <3>3 DEF OwnInv
    <2>10. StagedInv'
        BY <1>1 DEF WInv, StagedInv
    <2>11. KnownInv'
        <3>1. stores[h].counter # {}
            BY <1>1, <1>3 DEF WInv, KnownInv, At
        <3>2. \A s \in 1 .. Len(stores) : \A q \in At(s) :
                 /\ q \in Requests /\ home[q] = s
                 /\ pending'[q] \subseteq pending[q]
            BY <1>1 DEF At
        <3>3. ASSUME NEW c \in stores[h].counter, Deleted(r)' PROVE call[r].id <= c
            <4>1. m.row.id <= c /\ r \in At(h)
                BY <1>1, <1>3, <3>3 DEF WInv, KnownInv, At
            <4>2. call[r].op = "delete"
                BY <1>1, <3>3 DEF Deleted
            <4> QED
                BY <2>7, <4>1, <4>2
        <3> SUFFICES ASSUME NEW s \in 1 .. Len(stores)
                     PROVE  /\ stores'[s].counter = {} =>
                                  /\ SeedIds = {} => stores'[s].rows = {}
                                  /\ SeedIds # {} => ~stores'[s].seeded
                                  /\ \A q \in At(s) : pending'[q] = {} /\ phase'[q] # "stored"
                            /\ stores'[s].counter # {} /\ SeedIds # {} => stores'[s].seeded
                            /\ \A c \in stores'[s].counter : \A q \in At(s) :
                                  /\ \A k \in pending'[q] : k.row.id <= c
                                  /\ Deleted(q)' => call[q].id <= c
            BY <1>1, <2>2 DEF KnownInv
        <3>4. CASE s = h
            <4>1. \A c \in stores[s].counter : \A q \in At(s) :
                     Deleted(q)' => call[q].id <= c
                BY <1>1, <2>4, <3>2, <3>3, <3>4 DEF WInv, KnownInv
            <4> QED
                BY <1>1, <2>1, <3>1, <3>2, <3>4, <4>1 DEF WInv, KnownInv
        <3>5. CASE s # h
            BY <2>1, <2>4, <3>2, <3>5 DEF WInv, KnownInv
        <3> QED
            BY <3>4, <3>5
    <2>12. FreeInv'
        <3> SUFFICES ASSUME NEW p \in Requests, NEW q \in Requests, home[q] = home[p],
                            NEW k \in pending'[p], k.kind = "push"
                     PROVE  /\ \A l \in pending'[q] : l.kind # "push" => l.row.id # k.row.id
                            /\ Deleted(q)' => call[q].id # k.row.id
            BY <1>1 DEF FreeInv
        <3>1. p # r /\ k \in pending[p]
            BY <1>1
        <3>2. CASE q # r
            BY <1>1, <2>4, <3>1, <3>2 DEF WInv, FreeInv
        <3>3. CASE q = r
            <4>1. Deleted(q)' => m.kind = "remove" /\ m.row.id = call[q].id
                BY <1>1, <2>7, <3>3 DEF Deleted
            <4>2. m.kind # "push" => m.row.id # k.row.id
                BY <3>1, <3>3 DEF WInv, FreeInv
            <4> QED
                BY <1>1, <3>3, <4>1, <4>2
        <3> QED
            BY <3>2, <3>3
    <2>13. AckedWritesStay'
        <3> DEFINE Removed(q) == \E d \in Requests :
                /\ phase'[d] = "stored" /\ call[d].op = "delete"
                /\ home[d] = home[q] /\ call[d].id \in minted[q]
        <3> SUFFICES ASSUME NEW q \in Requests, phase'[q] = "stored"
                     PROVE  /\ minted[q] # {} =>
                                  \/ \E row \in stores'[home[q]].rows : row.born = q
                                  \/ Removed(q)
                            /\ call[q].op = "delete" =>
                                  \A row \in stores'[home[q]].rows : row.id # call[q].id
            BY <1>1 DEF AckedWritesStay
        <3>1. /\ \A row \in rows : row.id # m.row.id => row \in Applied(rows, m)
              /\ m.kind = "push" => rows \subseteq Applied(rows, m) /\ m.row \in Applied(rows, m)
              /\ m.kind = "replace" =>
                    \A row \in rows : row.id = m.row.id => m.row \in Applied(rows, m)
              /\ m.kind = "remove" => \A row \in Applied(rows, m) : row.id # m.row.id
            BY <2>1, AppliedKeeps
        <3> HIDE DEF rows
        <3>2. stores'[h].rows = Applied(rows, m)
            BY <1>1, <2>1 DEF rows
        <3>3. CASE q = r
            BY <2>7, <3>1, <3>2, <3>3
        <3>4. CASE q # r
            <4>1. /\ phase[q] = "stored" /\ home[q] \in 1 .. Len(stores)
                BY <1>1, <3>4 DEF IInv, Types
            <4>2. /\ minted[q] # {} =>
                        \/ \E row \in stores[home[q]].rows : row.born = q
                        \/ \E d \in Requests :
                             /\ phase[d] = "stored" /\ call[d].op = "delete"
                             /\ home[d] = home[q] /\ call[d].id \in minted[q]
                  /\ call[q].op = "delete" =>
                        \A row \in stores[home[q]].rows : row.id # call[q].id
                BY <4>1 DEF WInv, AckedWritesStay
            <4>3. (\E d \in Requests :
                     /\ phase[d] = "stored" /\ call[d].op = "delete"
                     /\ home[d] = home[q] /\ call[d].id \in minted[q]) => Removed(q)
                BY <1>1, <2>4
            <4>4. CASE home[q] # h
                BY <2>1, <4>1, <4>2, <4>3, <4>4
            <4>5. CASE home[q] = h
                <5>1. ASSUME NEW row \in rows, row.born = q
                      PROVE  (\E new \in Applied(rows, m) : new.born = q) \/ Removed(q)
                    <6>1. CASE row.id # m.row.id \/ m.kind = "push"
                        BY <3>1, <5>1, <6>1
                    <6>2. CASE row.id = m.row.id /\ m.kind = "replace"
                        <7>1. Owned(row, h) /\ Owned(m.row, h)
                            BY <2>8 DEF rows
                        <7>2. m.row.born = row.born
                            BY <6>2, <7>1, OwnersAgree
                        <7> QED
                            BY <3>1, <5>1, <6>2, <7>2
                    <6>3. CASE row.id = m.row.id /\ m.kind = "remove"
                        <7>1. row.id \in minted[q]
                            BY <2>8, <5>1, LoadedAssumption DEF Owned, rows
                        <7>2. call[r].op = "delete" /\ m.row.id = call[r].id
                            BY <2>7, <6>3
                        <7> QED
                            BY <2>1, <4>5, <6>3, <7>1, <7>2
                    <6> QED
                        BY <2>1, <6>1, <6>2, <6>3
                <5>2. ASSUME call[q].op = "delete", NEW row \in Applied(rows, m)
                      PROVE  row.id # call[q].id
                    <6>1. CASE row \in rows
                        BY <4>2, <4>5, <5>2, <6>1 DEF rows
                    <6>2. CASE row = m.row /\ \E old \in rows : old.id = row.id
                        BY <4>2, <4>5, <5>2, <6>2 DEF rows
                    <6>3. CASE row = m.row /\ m.kind = "push"
                        BY <4>1, <4>5, <5>2, <6>3 DEF WInv, FreeInv, Deleted
                    <6> QED
                        BY <2>6, <5>2, <6>1, <6>2, <6>3 DEF rows
                <5>3. (\E row \in stores[home[q]].rows : row.born = q) =>
                        (\E new \in Applied(rows, m) : new.born = q) \/ Removed(q)
                    BY <4>5, <5>1 DEF rows
                <5> QED
                    BY <3>2, <4>2, <4>3, <4>5, <5>2, <5>3
            <4> QED
                BY <4>4, <4>5
        <3> QED
            BY <3>3, <3>4
    <2> QED
        BY <2>9, <2>10, <2>11, <2>12, <2>13 DEF WInv
<1> QED
    BY <1>1, <1>2, <1>3

LEMMA StepWrites == IInv /\ WInv /\ [Next]_vars => WInv'
<1> SUFFICES ASSUME IInv, WInv, [Next]_vars PROVE WInv'
    OBVIOUS
<1>1. CASE ResetState
    BY <1>1, ResetWrites
<1>2. phase \in [Requests -> Phases] /\ call \in [Requests -> Calls]
      /\ home \in [Requests -> 0 .. Len(stores)]
    BY DEF IInv, Types
<1>3. ASSUME NEW r \in Requests, Admit(r) PROVE WInv'
    <2>1. /\ UNCHANGED <<stores, pending, minted>>
          /\ phase[r] = "idle" /\ phase'[r] = "admitted"
          /\ \A q \in Requests : q # r => /\ phase'[q] = phase[q] /\ home'[q] = home[q]
                                          /\ call'[q] = call[q]
        BY <1>2, <1>3 DEF Admit
    <2>2. minted[r] = {} /\ pending[r] = {}
        BY <2>1 DEF IInv, BeforeInv
    <2> QED
        BY <2>1, <2>2, QuietWrites
<1>4. ASSUME NEW r \in Requests, NEW p, p \notin {"stored", "generating"}, phase[r] # "stored",
             phase' = [phase EXCEPT ![r] = p],
             UNCHANGED <<stores, call, home, pending, minted>>
      PROVE  WInv'
    <2>1. phase'[r] = p /\ \A q \in Requests : q # r => phase'[q] = phase[q]
        BY <1>2, <1>4
    <2> QED
        BY <1>4, <2>1, QuietWrites
<1>5. ASSUME NEW r \in Requests, Reject(r) \/ Process(r) \/ Drop(r) PROVE WInv'
    <2>1. CASE Reject(r)
        BY <1>4, <2>1 DEF Reject
    <2>2. CASE Process(r)
        BY <1>4, <2>2 DEF Process
    <2>3. CASE Drop(r)
        BY <1>4, <2>3 DEF Drop
    <2> QED
        BY <1>5, <2>1, <2>2, <2>3
<1>6. ASSUME UNCHANGED <<stores, phase, call, home, pending, minted>> PROVE WInv'
    BY <1>6, QuietWrites
<1>7. ASSUME NEW r \in Requests, Abort(r) PROVE WInv'
    BY <1>6, <1>7 DEF Abort
<1>8. CASE UNCHANGED vars
    BY <1>6, <1>8 DEF vars
<1> QED
    BY <1>1, <1>3, <1>5, <1>7, <1>8, GenerateWrites, MintWrites, SettleWrites DEF Next

\* A step leaves the births of identifiers alone, as SameRowUpdated says it.
SameRow ==
    \A s \in DOMAIN stores : \A a \in stores[s].rows, b \in stores'[s].rows :
        a.id = b.id => a.born = b.born

LEMMA StepSameRow == IInv /\ WInv /\ [Next]_vars => [SameRow]_vars
<1> SUFFICES ASSUME IInv, WInv, Next PROVE SameRow
    OBVIOUS
<1>1. DOMAIN stores = 1 .. Len(stores) /\ stores \in Seq(Store)
    BY LenProperties DEF IInv, Types
<1>2. ASSUME \A s \in 1 .. Len(stores) : stores'[s].rows = stores[s].rows PROVE SameRow
    BY <1>1, <1>2 DEF SameRow, IInv, UniqueIds
<1>3. CASE UNCHANGED stores
    BY <1>2, <1>3
<1>4. CASE ResetState
    <2>1. Blank \in Store
        BY DEF Blank, Store
    <2>2. \A s \in 1 .. Len(stores) : stores'[s] = stores[s]
        BY <1>1, <1>4, <2>1, AppendProperties DEF ResetState
    <2> QED
        BY <1>2, <2>2
<1>5. ASSUME NEW r \in Requests, Generate(r) PROVE SameRow
    <2> DEFINE h == home[r]
    <2> DEFINE store == Seeded(stores[h])
    <2>1. phase[r] = "admitted" /\ h \in 1 .. Len(stores)
        BY <1>5 DEF Generate, IInv, Types
    <2>2. /\ store \in Store
          /\ \/ store = stores[h]
             \/ /\ store.rows = LoadedRows(SeedIds)
                /\ \A q \in At(h) : minted[q] = {}
        BY <2>1, SeededFacts
    <2>3. StoreStep(r, store)
        BY <1>5 DEF Generate, StoreStep, StateOf
    <2> HIDE DEF store
    <2>4. \A s \in 1 .. Len(stores) : stores'[s] = IF s = h THEN store ELSE stores[s]
        BY <2>1, <2>2, <2>3, StoreStepFacts
    <2>5. CASE store = stores[h]
        BY <1>2, <2>4, <2>5
    <2>6. CASE store.rows = LoadedRows(SeedIds) /\ \A q \in At(h) : minted[q] = {}
        <3>1. \A b \in store.rows : b.born = Loaded
            BY <2>6 DEF LoadedRows
        <3>2. \A a \in stores[h].rows : a.born = Loaded
            BY <2>1, <2>6 DEF WInv, OwnInv, Owned
        <3>3. \A s \in 1 .. Len(stores) : s # h => stores'[s] = stores[s]
            BY <2>4
        <3>4. stores'[h].rows = store.rows
            BY <2>1, <2>4
        <3> QED
            BY <1>1, <3>1, <3>2, <3>3, <3>4 DEF SameRow, IInv, UniqueIds
    <2> QED
        BY <2>2, <2>5, <2>6
<1>6. ASSUME NEW r \in Requests, Mint(r) PROVE SameRow
    <2> DEFINE h == home[r]
    <2> DEFINE store == Counted(stores[h])
    <2>1. phase[r] = "generating" /\ h \in 1 .. Len(stores)
        BY <1>6 DEF Mint, IInv, Types
    <2>2. NextId(stores[h]) \in Nat
        BY <2>1, NextIdIsNew
    <2>3. store \in Store /\ store.rows = stores[h].rows
        BY <2>1, <2>2, StoreFacts DEF Counted, Store, IInv
    <2>4. StoreStep(r, store)
        BY <1>6 DEF Mint, StoreStep, StateOf
    <2> HIDE DEF store
    <2>5. \A s \in 1 .. Len(stores) : stores'[s] = IF s = h THEN store ELSE stores[s]
        BY <2>1, <2>3, <2>4, StoreStepFacts
    <2> QED
        BY <1>2, <2>3, <2>5
<1>7. ASSUME NEW r \in Requests, Settle(r) PROVE SameRow
    <2>1. CASE UNCHANGED stores
        BY <1>3, <2>1
    <2>2. ASSUME NEW m \in pending[r], Commits(r, m) PROVE SameRow
        <3> DEFINE h == home[r]
        <3> DEFINE rows == stores[h].rows
        <3>1. /\ h \in 1 .. Len(stores) /\ m \in Mutation
              /\ \A s \in 1 .. Len(stores) :
                    stores'[s].rows = IF s = h THEN Applied(stores[s].rows, m)
                                               ELSE stores[s].rows
            BY <1>7, <2>2, SettleFacts DEF Commits
        <3>2. /\ rows \in SUBSET Row
              /\ \A a, b \in rows : a.id = b.id => a = b
              /\ m.kind = "push" => \A row \in rows : row.id # m.row.id
            <4>1. stores[h] \in Store
                BY <3>1, StoreFacts DEF IInv
            <4> QED
                BY <1>1, <3>1, <4>1 DEF Store, IInv, UniqueIds, FreshInv
        <3>3. Owned(m.row, h) /\ \A row \in rows : Owned(row, h)
            BY <3>1 DEF WInv, OwnInv
        <3> HIDE DEF rows
        <3>4. \A row \in Applied(rows, m) : row \in rows \/ row = m.row
            BY <3>1, <3>2, AppliedFacts
        <3>5. ASSUME NEW a \in rows, NEW b \in Applied(rows, m), a.id = b.id
              PROVE  a.born = b.born
            BY <3>3, <3>4, <3>5, OwnersAgree
        <3>6. \A s \in 1 .. Len(stores) : s # h => stores'[s].rows = stores[s].rows
            BY <3>1
        <3>7. stores'[h].rows = Applied(rows, m)
            BY <3>1 DEF rows
        <3> QED
            BY <1>1, <3>5, <3>6, <3>7 DEF SameRow, IInv, UniqueIds, rows
    <2> QED
        BY <1>7, <2>1, <2>2, SettleFacts
<1>8. ASSUME NEW r \in Requests,
             Admit(r) \/ Reject(r) \/ Process(r) \/ Drop(r) \/ Abort(r)
      PROVE  UNCHANGED stores
    BY <1>8 DEF Admit, Reject, Process, Drop, Abort
<1> QED
    BY <1>3, <1>4, <1>5, <1>6, <1>7, <1>8 DEF Next

\* With headers the collection behaves as it does without.
THEOREM HeadersChangeNothing == HeadersSpec => Spec
<1>1. HeadersInit => Init
    BY DEF HeadersInit
<1>2. [HeadersNext]_<<vars, headerVars>> => [Next]_vars
    <2>1. ASSUME CrudStep PROVE Next
        BY <2>1 DEF CrudStep, Next
    <2>2. ASSUME NEW r \in Requests, GenerateCrud(r) PROVE Next
        BY <2>2 DEF GenerateCrud, Next
    <2>3. ASSUME NEW r \in StaticRequests, GenerateStatic(r) \/ FinishStatic(r)
          PROVE  UNCHANGED vars
        <3>1. CASE GenerateStatic(r)
            BY <3>1 DEF GenerateStatic
        <3>2. CASE FinishStatic(r)
            BY <3>2 DEF FinishStatic, vars
        <3> QED
            BY <2>3, <3>1, <3>2
    <2> QED
        BY <2>1, <2>2, <2>3 DEF HeadersNext
<1> QED
    BY <1>1, <1>2, PTL DEF HeadersSpec, Spec

\* What a client was told of a write stays true, whatever the requests, seeds,
\* targets and resets, of a collection that is seeded or starts empty: no row
\* that was created and acknowledged is lost but to an acknowledged delete,
\* none that was deleted comes back, and an update lands on the row it was
\* computed from (plugin.ts, settlePendingMutations; generators.ts, getNextId).
THEOREM WritesAreKept == NeverReused => (HeadersSpec => WritesStay)
<1> SUFFICES ASSUME NeverReused PROVE HeadersSpec => WritesStay
    OBVIOUS
<1>1. Init => IInv /\ WInv
    BY InitInv, InitWrites
<1>2. (IInv /\ WInv) /\ [Next]_vars => (IInv /\ WInv)'
    BY StepInv, StepWrites
<1>3. IInv /\ WInv /\ [Next]_vars => [SameRow]_vars
    BY StepSameRow
<1>4. IInv /\ WInv => AckedWritesStay
    BY DEF WInv
<1>5. Spec => []AckedWritesStay /\ [][SameRow]_vars
    BY <1>1, <1>2, <1>3, <1>4, PTL DEF Spec
<1> QED
    BY <1>5, HeadersChangeNothing, PTL DEF WritesStay, SameRowUpdated, SameRow

-----------------------------------------------------------------------------
(* The headers. *)

\* The generator of a request has started, or will not.
Begun(r) == IF r \in StaticRequests THEN static[r] # "idle"
            ELSE phase[r] \notin {"idle", "admitted"}

\* An ordinal is the place of its request among those that took one, and only
\* these have an identifier.
HInv ==
    /\ seed \subseteq Int /\ \A m, n \in seed : m = n
    /\ began \in Seq(Everyone) /\ (seed # {} => ordinal = Len(began))
    /\ headers = [r \in Everyone |-> headers[r]]
    /\ static = [r \in StaticRequests |-> static[r]]
    /\ \A i, j \in 1 .. Len(began) : began[i] = began[j] => i = j
    /\ \A i \in 1 .. Len(began) : /\ Begun(began[i])
                                  /\ headers[began[i]] \in {<<>>, Replayed(i)}
    /\ \A r \in Everyone :
          (\A i \in 1 .. Len(began) : began[i] # r) => HeaderIds(r) = {}

LEMMA InitHeaders == HeadersInit => HInv
<1> SUFFICES ASSUME HeadersInit PROVE HInv
    OBVIOUS
<1>1. began = <<>> /\ ordinal = 0 /\ Len(began) = 0 /\ began \in Seq(Everyone)
    BY DEF HeadersInit
<1>2. seed \subseteq Int /\ \A m, n \in seed : m = n
    BY InstallationsAssumption DEF HeadersInit
<1>3. /\ headers = [r \in Everyone |-> <<>>]
      /\ static = [r \in StaticRequests |-> "idle"]
    BY DEF HeadersInit
<1>4. \A r \in Everyone : HeaderIds(r) = {}
    BY <1>3 DEF HeaderIds
<1> QED
    BY <1>1, <1>2, <1>3, <1>4 DEF HInv

\* A request that began is what it was.
Goes ==
    \A q \in Everyone : Begun(q) => Begun(q)' /\ Operation(q)' = Operation(q)

\* A step that no generator takes.
LEMMA QuietHeaders ==
    ASSUME HInv, Goes, UNCHANGED <<seed, declared, ordinal, headers, began>>,
           static' = [r \in StaticRequests |-> static'[r]]
    PROVE  HInv'
<1>1. began \in Seq(Everyone) /\ \A i \in 1 .. Len(began) : began[i] \in Everyone
    BY ElementOfSeq DEF HInv
<1>2. \A i \in 1 .. Len(began) : Begun(began[i])' /\ Operation(began[i])' = Operation(began[i])
    BY <1>1 DEF HInv, Goes
<1>3. ASSUME NEW i \in 1 .. Len(began) PROVE Replayed(i)' = Replayed(i)
    BY <1>2 DEF Replayed
<1>4. \A r : HeaderIds(r)' = HeaderIds(r)
    BY DEF HeaderIds
<1> QED
    BY <1>2, <1>3, <1>4 DEF HInv

\* Nothing declared is nothing made up.
LEMMA NoHeaderValues ==
    ASSUME NEW reservation, NEW r
    PROVE  DOMAIN HeaderValues({}, reservation, r) = {}
BY DEF HeaderValues

\* A generator starts: it takes the next ordinal, and makes its headers with it.
LEMMA BeginHeaders ==
    ASSUME HInv, NEW r \in Everyone, ~Begun(r), NEW found \in BOOLEAN, Begin(r, found),
           Begun(r)', Operation(r)' = Operation(r), Goes,
           static' = [q \in StaticRequests |-> static'[q]]
    PROVE  HInv'
<1> DEFINE op == Operation(r)
<1> DEFINE reservation == {[seed |-> n, at |-> ordinal] : n \in seed}
<1> DEFINE value == IF found THEN HeaderValues(declared[op], reservation, r) ELSE <<>>
<1>1. /\ began \in Seq(Everyone) /\ Len(began) \in Nat
      /\ \A i \in 1 .. Len(began) : began[i] \in Everyone /\ Begun(began[i]) /\ began[i] # r
    <2>1. began \in Seq(Everyone) /\ Len(began) \in Nat
        BY DEF HInv
    <2>2. \A i \in 1 .. Len(began) : began[i] \in Everyone
        BY <2>1, ElementOfSeq
    <2>3. \A i \in 1 .. Len(began) : Begun(began[i])
        BY DEF HInv
    <2>4. ASSUME NEW i \in 1 .. Len(began) PROVE began[i] # r
        BY <2>3
    <2> QED
        BY <2>1, <2>2, <2>3, <2>4
<1>2. /\ ordinal' = IF seed # {} /\ declared[op] # {} THEN ordinal + 1 ELSE ordinal
      /\ headers' = [headers EXCEPT ![r] = value]
      /\ began' = IF declared[op] = {} THEN began ELSE Append(began, r)
      /\ UNCHANGED <<seed, declared>>
    BY DEF Begin, Advanced
<1>3. /\ headers' = [q \in Everyone |-> headers'[q]]
      /\ headers'[r] = value /\ \A q \in Everyone : q # r => headers'[q] = headers[q]
    <2> HIDE DEF value
    <2>1. headers = [q \in Everyone |-> headers[q]]
        BY DEF HInv
    <2>2. headers' = [q \in Everyone |-> IF q = r THEN value ELSE headers[q]]
        BY <1>2, <2>1
    <2> QED
        BY <2>2
<1>4. ASSUME NEW i \in 1 .. Len(began), NEW q, q = began[i]
      PROVE  Begun(q)' /\ Operation(q)' = Operation(q) /\ headers'[q] = headers[q]
    BY <1>1, <1>3, <1>4 DEF Goes
<1>5. \A q \in Everyone : q # r => HeaderIds(q)' = HeaderIds(q)
    BY <1>3 DEF HeaderIds
<1>6. seed' \subseteq Int /\ \A m, n \in seed' : m = n
    BY <1>2 DEF HInv
<1>7. CASE declared[op] = {}
    <2>1. began' = began /\ ordinal' = ordinal
        BY <1>2, <1>7
    <2>2. ASSUME NEW i \in 1 .. Len(began) PROVE Replayed(i)' = Replayed(i)
        <3>1. PICK q : q = began[i]
            OBVIOUS
        <3>2. Operation(q)' = Operation(q)
            BY <1>4, <3>1
        <3> QED
            BY <1>2, <2>1, <3>1, <3>2 DEF Replayed
    <2>3. DOMAIN value = {}
        BY <1>7, NoHeaderValues
    <2>4. HeaderIds(r)' = {}
        BY <1>3, <2>3 DEF HeaderIds
    <2> HIDE DEF value
    <2>5. ASSUME NEW i \in 1 .. Len(began)
          PROVE  Begun(began[i])' /\ headers'[began[i]] \in {<<>>, Replayed(i)'}
        <3>1. PICK q : q = began[i]
            OBVIOUS
        <3>2. Begun(q)' /\ headers'[q] = headers[q]
            BY <1>4, <3>1
        <3>3. began'[i] = q
            BY <2>1, <3>1
        <3>4. Begun(began[i])'
            BY <3>2, <3>3
        <3> QED
            BY <2>2, <3>1, <3>2, <3>4 DEF HInv
    <2> QED
        BY <1>2, <1>3, <1>5, <1>6, <2>1, <2>4, <2>5 DEF HInv
<1>8. CASE declared[op] # {}
    <2>0. PICK n : n = Len(began)
        OBVIOUS
    <2>1. /\ began' \in Seq(Everyone) /\ Len(began') = n + 1 /\ n \in Nat
          /\ began'[n + 1] = r
          /\ \A i \in 1 .. n : began'[i] = began[i]
        BY <1>1, <1>2, <1>8, <2>0, AppendProperties
    <2>2. seed' # {} => ordinal' = Len(began')
        BY <1>2, <1>8, <2>0, <2>1 DEF HInv
    <2>3. ASSUME NEW i \in 1 .. n PROVE Replayed(i)' = Replayed(i)
        <3>1. PICK q : q = began[i]
            OBVIOUS
        <3>2. Operation(q)' = Operation(q)
            BY <1>4, <2>0, <3>1
        <3> QED
            BY <1>2, <2>1, <3>1, <3>2 DEF Replayed
    <2>4. value \in {<<>>, Replayed(n + 1)'}
        <3>1. reservation = {[seed |-> k, at |-> n] : k \in seed}
            BY <2>0 DEF HInv
        <3>2. n + 1 - 1 = n
            BY <2>1
        <3>3. ASSUME NEW k, k = n + 1
              PROVE  Replayed(k)' = HeaderValues(declared[op], {[seed |-> x, at |-> n] : x \in seed}, r)
            <4>1. began'[k] = r /\ k - 1 = n
                BY <2>1, <3>2, <3>3
            <4>2. Operation(began[k])' = op
                BY <4>1
            <4> QED
                BY <1>2, <4>1, <4>2 DEF Replayed
        <3> QED
            BY <3>1, <3>3
    <2> HIDE DEF value
    <2>5. ASSUME NEW i \in 1 .. Len(began')
          PROVE  Begun(began[i])' /\ headers'[began'[i]] \in {<<>>, Replayed(i)'}
        <3>1. CASE i \in 1 .. n
            <4>1. PICK q : q = began[i]
                OBVIOUS
            <4>2. Begun(q)' /\ headers'[q] = headers[q] /\ began'[i] = q
                BY <1>4, <2>0, <2>1, <3>1, <4>1
            <4>3. headers[q] \in {<<>>, Replayed(i)}
                BY <2>0, <3>1, <4>1 DEF HInv
            <4>4. Begun(began[i])'
                BY <4>2
            <4> QED
                BY <2>3, <3>1, <4>2, <4>3, <4>4
        <3>2. CASE i = n + 1
            <4>1. began'[i] = r
                BY <2>1, <3>2
            <4>2. Begun(began[i])'
                BY <4>1
            <4> QED
                BY <1>3, <2>4, <3>2, <4>1, <4>2
        <3> QED
            BY <2>1, <3>1, <3>2
    <2>6. ASSUME NEW i \in 1 .. Len(began'), NEW j \in 1 .. Len(began'), began'[i] = began'[j]
          PROVE  i = j
        BY <1>1, <2>0, <2>1, <2>6 DEF HInv
    <2>7. ASSUME NEW q \in Everyone, \A i \in 1 .. Len(began') : began'[i] # q
          PROVE  HeaderIds(q)' = {}
        <3>1. q # r /\ \A i \in 1 .. Len(began) : began[i] # q
            <4>1. n + 1 \in 1 .. Len(began') /\ \A i \in 1 .. n : i \in 1 .. Len(began')
                BY <2>1
            <4> QED
                BY <2>0, <2>1, <2>7, <4>1
        <3> QED
            BY <1>5, <3>1 DEF HInv
    <2> QED
        BY <1>3, <1>6, <2>1, <2>2, <2>5, <2>6, <2>7 DEF HInv
<1> QED
    BY <1>7, <1>8

\* A request never goes back to where its generator has not started, and asks
\* for one thing.
LEMMA NextGoes ==
    ASSUME IInv, Next, NEW q \in Requests, phase[q] \notin {"idle", "admitted"}
    PROVE  phase'[q] \notin {"idle", "admitted"} /\ call'[q] = call[q]
<1>1. phase \in [Requests -> Phases] /\ call \in [Requests -> Calls]
    BY DEF IInv, Types
<1>2. CASE ResetState
    BY <1>2 DEF ResetState
<1>3. ASSUME NEW r \in Requests, NEW p, phase' = [phase EXCEPT ![r] = p],
             p \notin {"idle", "admitted"}, UNCHANGED call
      PROVE  phase'[q] \notin {"idle", "admitted"} /\ call'[q] = call[q]
    BY <1>1, <1>3
<1>4. ASSUME NEW r \in Requests, Admit(r)
      PROVE  phase'[q] \notin {"idle", "admitted"} /\ call'[q] = call[q]
    BY <1>1, <1>4 DEF Admit
<1>5. ASSUME NEW r \in Requests, Reject(r) \/ Process(r) \/ Drop(r)
      PROVE  phase'[q] \notin {"idle", "admitted"} /\ call'[q] = call[q]
    BY <1>3, <1>5 DEF Reject, Process, Drop
<1>6. ASSUME NEW r \in Requests, Generate(r)
      PROVE  phase'[q] \notin {"idle", "admitted"} /\ call'[q] = call[q]
    BY <1>1, <1>6 DEF Generate
<1>7. ASSUME NEW r \in Requests, Mint(r)
      PROVE  phase'[q] \notin {"idle", "admitted"} /\ call'[q] = call[q]
    BY <1>1, <1>7 DEF Mint
<1>8. ASSUME NEW r \in Requests, Abort(r)
      PROVE  phase'[q] \notin {"idle", "admitted"} /\ call'[q] = call[q]
    BY <1>8 DEF Abort
<1>9. ASSUME NEW r \in Requests, Settle(r)
      PROVE  phase'[q] \notin {"idle", "admitted"} /\ call'[q] = call[q]
    BY <1>9, SettleFacts
<1> QED
    BY <1>2, <1>4, <1>5, <1>6, <1>7, <1>8, <1>9 DEF Next

LEMMA StepHeaders ==
    IInv /\ HInv /\ [HeadersNext]_<<vars, headerVars>> => HInv'
<1> SUFFICES ASSUME IInv, HInv, [HeadersNext]_<<vars, headerVars>> PROVE HInv'
    OBVIOUS
<1>1. \A r \in Requests : r \notin StaticRequests /\ r \in Everyone
    BY StaticAssumption DEF Everyone
<1>2. \A r \in StaticRequests : r \in Everyone
    BY DEF Everyone
<1>3. static = [r \in StaticRequests |-> static[r]]
    BY DEF HInv
<1>4. ASSUME \A q \in StaticRequests : static[q] # "idle" => static'[q] # "idle",
             \A q \in Requests : phase[q] \notin {"idle", "admitted"} =>
                phase'[q] \notin {"idle", "admitted"} /\ call'[q] = call[q]
      PROVE  Goes
    BY <1>1, <1>4 DEF Goes, Begun, Operation, Everyone
<1>5. CASE CrudStep
    <2>1. Next /\ UNCHANGED headerVars
        BY <1>5 DEF CrudStep, Next
    <2>2. Goes
        BY <1>4, <2>1, NextGoes DEF headerVars
    <2> QED
        BY <1>3, <2>1, <2>2, QuietHeaders DEF headerVars
<1>6. ASSUME NEW r \in Requests, GenerateCrud(r) PROVE HInv'
    <2>1. /\ Generate(r) /\ Next /\ UNCHANGED static
          /\ Begin(r, call[r].op \in {"update", "delete"} => pending'[r] # {})
        BY <1>6 DEF GenerateCrud, Next
    <2>2. Goes
        BY <1>4, <2>1, NextGoes
    <2>3. phase[r] = "admitted" /\ phase'[r] \notin {"idle", "admitted"} /\ call' = call
        BY <2>1 DEF Generate, IInv, Types
    <2>4. r \in Everyone /\ ~Begun(r) /\ Begun(r)' /\ Operation(r)' = Operation(r)
        BY <1>1, <2>3 DEF Begun, Operation
    <2>5. PICK found \in BOOLEAN :
             found = (call[r].op \in {"update", "delete"} => pending'[r] # {})
        OBVIOUS
    <2>6. Begin(r, found)
        BY <2>1, <2>5
    <2>7. static' = [q \in StaticRequests |-> static'[q]]
        BY <1>3, <2>1
    <2> QED
        BY <2>2, <2>4, <2>6, <2>7, BeginHeaders
<1>7. ASSUME NEW r \in StaticRequests, GenerateStatic(r) PROVE HInv'
    <2>1. /\ static[r] = "idle" /\ Begin(r, TRUE) /\ UNCHANGED vars
          /\ static' = [static EXCEPT ![r] = "generating"]
        BY <1>7 DEF GenerateStatic
    <2>2. /\ static' = [q \in StaticRequests |-> static'[q]]
          /\ static'[r] = "generating"
          /\ \A q \in StaticRequests : static[q] # "idle" => static'[q] # "idle"
        BY <1>3, <2>1
    <2>3. Goes
        BY <1>4, <2>1, <2>2 DEF vars
    <2>4. r \in Everyone /\ ~Begun(r) /\ Begun(r)' /\ Operation(r)' = Operation(r)
        BY <1>2, <2>1, <2>2 DEF Begun, Operation
    <2> QED
        BY <2>1, <2>2, <2>3, <2>4, BeginHeaders
<1>8. ASSUME NEW r \in StaticRequests, FinishStatic(r) PROVE HInv'
    <2>1. /\ \E how \in {"sent", "failed"} : static' = [static EXCEPT ![r] = how]
          /\ UNCHANGED <<vars, seed, declared, ordinal, headers, began>>
        BY <1>8 DEF FinishStatic
    <2>2. /\ static' = [q \in StaticRequests |-> static'[q]]
          /\ \A q \in StaticRequests : static[q] # "idle" => static'[q] # "idle"
        BY <1>3, <2>1
    <2>3. Goes
        BY <1>4, <2>1, <2>2 DEF vars
    <2> QED
        BY <2>1, <2>2, <2>3, QuietHeaders
<1>9. CASE UNCHANGED <<vars, headerVars>>
    <2>1. Goes
        BY <1>4, <1>9 DEF vars, headerVars
    <2> QED
        BY <1>3, <1>9, <2>1, QuietHeaders DEF headerVars
<1> QED
    BY <1>5, <1>6, <1>7, <1>8, <1>9 DEF HeadersNext

\* The identifiers of a request are those of its ordinal, or random.
LEMMA IdsOfHeaders ==
    ASSUME HInv, NEW r \in Everyone, NEW x \in HeaderIds(r)
    PROVE  \E i \in 1 .. Len(began) :
              /\ began[i] = r
              /\ \/ x = RandomUuid(r) /\ seed = {}
                 \/ \E n \in seed : x = SeededHeaderUuid(n, i - 1)
<1>1. PICK i \in 1 .. Len(began) : began[i] = r
    BY DEF HInv
<1>2. headers[r] \in {<<>>, Replayed(i)}
    BY <1>1 DEF HInv
<1>3. "uuid" \in DOMAIN headers[r] /\ x = headers[r]["uuid"]
    BY DEF HeaderIds
<1>4. headers[r] = Replayed(i)
    BY <1>2, <1>3
<1> DEFINE reservation == {[seed |-> n, at |-> i - 1] : n \in seed}
<1> DEFINE values == SingleHeaderValue("uuid", reservation, r)
<1>5. x = CHOOSE v \in values : TRUE
    BY <1>1, <1>3, <1>4 DEF Replayed, HeaderValues
<1>6. values # {}
    BY <1>1, <1>3, <1>4 DEF Replayed, HeaderValues
<1>7. x \in values
    <2> HIDE DEF values
    <2> QED
        BY <1>5, <1>6
<1>8. values = IF reservation = {} THEN {RandomUuid(r)}
               ELSE {SeededHeaderUuid(v.seed, v.at) : v \in reservation}
    BY DEF SingleHeaderValue
<1>9. CASE seed = {}
    BY <1>1, <1>7, <1>8, <1>9
<1>10. CASE seed # {}
    <2>1. reservation # {}
        BY <1>10
    <2>2. PICK v \in reservation : x = SeededHeaderUuid(v.seed, v.at)
        BY <1>7, <1>8, <2>1
    <2>3. PICK n \in seed : v = [seed |-> n, at |-> i - 1]
        OBVIOUS
    <2> QED
        BY <1>1, <2>2, <2>3
<1> QED
    BY <1>9, <1>10

\* The six digits of an ordinal are enough.
FewHeaders == Len(began) <= 1000000

LEMMA HeadersAreReplayed == IInv /\ HInv /\ FewHeaders => HeadersReplay
<1> SUFFICES ASSUME IInv, HInv, FewHeaders PROVE HeadersReplay
    OBVIOUS
<1>1. Len(began) \in Nat /\ DOMAIN began = 1 .. Len(began)
    BY LenProperties DEF HInv
<1>2. \A i \in DOMAIN began : headers[began[i]] \in {<<>>, Replayed(i)}
    BY <1>1 DEF HInv
<1>3. ASSUME NEW q \in Everyone, NEW r \in Everyone, q # r,
             NEW x \in HeaderIds(q), x \in HeaderIds(r)
      PROVE  FALSE
    <2>1. PICK i \in 1 .. Len(began) :
              /\ began[i] = q
              /\ \/ x = RandomUuid(q) /\ seed = {}
                 \/ \E n \in seed : x = SeededHeaderUuid(n, i - 1)
        BY <1>3, IdsOfHeaders
    <2>2. PICK j \in 1 .. Len(began) :
              /\ began[j] = r
              /\ \/ x = RandomUuid(r) /\ seed = {}
                 \/ \E n \in seed : x = SeededHeaderUuid(n, j - 1)
        BY <1>3, IdsOfHeaders
    <2>3. CASE seed = {}
        BY <1>3, <2>1, <2>2, <2>3 DEF RandomUuid
    <2>4. CASE seed # {}
        <3>1. PICK n \in seed : x = SeededHeaderUuid(n, i - 1)
            BY <2>1, <2>4
        <3>2. PICK m \in seed : x = SeededHeaderUuid(m, j - 1)
            BY <2>2, <2>4
        <3>3. x.low = (i - 1) % 1000000 /\ x.low = (j - 1) % 1000000
            BY <3>1, <3>2, SMT DEF SeededHeaderUuid, Uuid
        <3>4. /\ i - 1 \in Nat /\ i - 1 < 1000000
              /\ j - 1 \in Nat /\ j - 1 < 1000000
            BY <1>1, SMT DEF FewHeaders
        <3>5. ASSUME NEW k \in Nat, k < 1000000 PROVE k % 1000000 = k
            BY <3>5, SMT
        <3>6. i - 1 = j - 1
            BY <3>3, <3>4, <3>5, SMT
        <3> QED
            BY <1>1, <1>3, <2>1, <2>2, <3>6
    <2> QED
        BY <2>3, <2>4
<1>4. ASSUME NEW r \in Everyone, NEW x \in HeaderIds(r), NEW counter, x = ResourceUuid(counter)
      PROVE  FALSE
    <2>1. x = RandomUuid(r) \/ \E n \in seed, k \in Int : x = SeededHeaderUuid(n, k)
        BY IdsOfHeaders
    <2>2. x.prefix \in {"random", "header"}
        BY <2>1, SMT DEF RandomUuid, SeededHeaderUuid, Uuid
    <2>3. x.prefix = "resource"
        BY <1>4, SMT DEF ResourceUuid, Uuid
    <2> QED
        BY <2>2, <2>3
<1>5. \A q, r \in Everyone : q # r => HeaderIds(q) \cap HeaderIds(r) = {}
    BY <1>3
<1>6. \A r \in Everyone : \A s \in DOMAIN stores :
         HeaderIds(r) \cap {ResourceUuid(row.id) : row \in stores[s].rows} = {}
    BY <1>4
<1> QED
    BY <1>2, <1>5, <1>6 DEF HeadersReplay

\* Whatever the order in which bodies are completed, requests fail or abort and
\* the state is reset, the headers of each request are those of a mock that
\* serves them one after another, no two share an identifier, and none is that
\* of a resource: for any requests, operations and seed, as long as ordinals
\* have six digits (generators.ts, createHeaderSeed, seededHeaderUuid).
THEOREM HeadersDeterministic == HeadersSpec => [](FewHeaders => HeadersReplay)
<1>1. HeadersInit => IInv /\ HInv
    BY InitInv, InitHeaders DEF HeadersInit
<1>2. (IInv /\ HInv) /\ [HeadersNext]_<<vars, headerVars>> => HInv'
    BY StepHeaders
<1>3. IInv /\ HInv => (FewHeaders => HeadersReplay)
    BY HeadersAreReplayed
<1>4. HeadersInit => HInv
    BY <1>1
<1>5. HeadersSpec => []IInv
    BY HeadersChangeNothing, Invariance, PTL
<1>6. HeadersSpec => []HInv
    BY <1>2, <1>4, <1>5, PTL DEF HeadersSpec
<1> QED
    BY <1>3, <1>5, <1>6, PTL

=============================================================================
