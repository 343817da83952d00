---------------------------- MODULE CrudCommit ----------------------------
(***************************************************************************)
(* One CRUD collection of the OpenAPI plugin under concurrent requests     *)
(* (packages/openapi/src: generators.ts, crud-registration.ts, plugin.ts): *)
(* seeding on first touch, identifiers minted when a create generates, and *)
(* writes that are staged by the generator and applied, or dropped, when   *)
(* the plugin knows the status of the response.                            *)
(*                                                                         *)
(* A collection, its counter and its seeded flag are three keys of the     *)
(* state object the request was admitted with; resetState() gives later    *)
(* requests another object (builder.ts 693-696).  Every other collection   *)
(* has keys of its own (state-keys.ts), so one is enough.                  *)
(*                                                                         *)
(* A row is its identifier, the request that created it, and the requests  *)
(* whose bodies its fields come from.  A collection is a set of rows: their*)
(* order is seen by a list only.  An identifier is the counter it encodes  *)
(* (shapeId and idCounter are inverses); one that encodes none is never    *)
(* minted, nor taken into account by the recovery of the counter.          *)
(***************************************************************************)
EXTENDS Naturals, Sequences, FiniteSets, FiniteSetsExt

CONSTANTS
    Requests,     \* the requests clients make
    Loaded,       \* who "created" the rows that were seeded or pre-loaded
    SeedIds,      \* the identifiers of the seed rows; none without a seed
    PreloadedIds, \* those of the rows given in schmock({ state })
    Targets,      \* the identifiers clients put in a path
    MaxResets     \* bound on the calls of resetState()

ASSUME LoadedAssumption == Loaded \notin Requests
ASSUME IdsAssumption ==
    /\ SeedIds \subseteq Nat /\ IsFiniteSet(SeedIds)
    /\ PreloadedIds \subseteq Nat /\ IsFiniteSet(PreloadedIds)
    /\ Targets \subseteq Nat
ASSUME BoundAssumption == MaxResets \in Nat

\* "read" is also the list: neither stages anything.
Calls == [op : {"create", "read"}, id : {0}]
             \cup [op : {"update", "delete"}, id : Targets]

Row == [id : Nat, born : Requests \cup {Loaded}, by : SUBSET Requests]

\* A staged write; in a "remove" the row is the one the generator found.
Mutation == [kind : {"push", "replace", "remove"}, row : Row]

\* The three keys of a scope.  A key that was never written has no value:
\* the set in `counter' is then empty.
Store == [rows : SUBSET Row, counter : SUBSET Nat, seeded : BOOLEAN]

\* "refused": the response is an error; "dropped": the pipeline ended before
\* the plugin's process(), or nobody waits for it; "stored": a staged write
\* was applied; "answered": there was none.
Phases == {"idle", "admitted", "generating", "generated", "processing",
           "stored", "answered", "refused", "dropped"}

VARIABLES
    stores,    \* the state objects, in order of creation; the last is current
    phase,     \* where each request is
    call,      \* what it asks for
    home,      \* the state object of its admission, 0 before
    pending,   \* PENDING_MUTATIONS_KEY: what it staged, at most one write
    minted,    \* the identifier its create was given, if any
    aborted    \* the requests whose handle() was rejected by their signal
               \* while a hook or a generator of theirs was running

vars == <<stores, phase, call, home, pending, minted, aborted>>

LoadedRows(ids) == [id : ids, born : {Loaded}, by : {{}}]

Blank == [rows |-> {}, counter |-> {}, seeded |-> FALSE]

Init ==
    /\ stores = <<[Blank EXCEPT !.rows = LoadedRows(PreloadedIds)]>>
    /\ phase = [r \in Requests |-> "idle"]
    /\ call = [r \in Requests |-> [op |-> "read", id |-> 0]]
    /\ home = [r \in Requests |-> 0]
    /\ pending = [r \in Requests |-> {}]
    /\ minted = [r \in Requests |-> {}]
    /\ aborted = {}

-----------------------------------------------------------------------------
(* The collection. *)

Highest(ids) == Max({0} \cup ids)

\* Mutant: the flag is written and never read.
SeededEachTime(store) ==
    IF SeedIds = {} THEN store
    ELSE [rows |-> LoadedRows(SeedIds), counter |-> {Highest(SeedIds)},
          seeded |-> TRUE]

\* createSeeder(): once per state object, and never without seed rows.
Seeded(store) ==
    IF store.seeded \/ SeedIds = {} THEN store
    ELSE [rows |-> LoadedRows(SeedIds), counter |-> {Highest(SeedIds)},
          seeded |-> TRUE]

\* Mutant: the counter is not kept, the next identifier is read off the rows.
NextIdOfRows(store) == Highest({row.id : row \in store.rows}) + 1

\* getNextId(): the stored counter is authoritative; a missing one is
\* recovered from the rows.
NextId(store) ==
    1 + IF store.counter = {} THEN Highest({row.id : row \in store.rows})
        ELSE Highest(store.counter)

\* The counter after a create was given its identifier.
Counted(store) == [store EXCEPT !.counter = {NextId(store)}]

\* Mutant: an update appends the row it does not find.
AppliedUpsert(rows, m) ==
    CASE m.kind \in {"push", "replace"} ->
            {row \in rows : row.id # m.row.id} \cup {m.row}
      [] m.kind = "remove" -> {row \in rows : row.id # m.row.id}

\* The staged closures: each looks the identifier up again when it runs, and
\* an update or a delete of a row that is gone does nothing.
Applied(rows, m) ==
    CASE m.kind = "push" -> rows \cup {m.row}
      [] m.kind = "replace" ->
            {IF row.id = m.row.id THEN m.row ELSE row : row \in rows}
      [] m.kind = "remove" -> {row \in rows : row.id # m.row.id}

-----------------------------------------------------------------------------
(* A request. *)

\* ctx.state, the object of the admission.
StateOf(r) == home[r]

\* handle() admits the request, with the state object of that moment.
Admit(r) ==
    /\ phase[r] = "idle"
    /\ \E c \in Calls : call' = [call EXCEPT ![r] = c]
    /\ phase' = [phase EXCEPT ![r] = "admitted"]
    /\ home' = [home EXCEPT ![r] = Len(stores)]
    /\ UNCHANGED <<stores, pending, minted, aborted>>

\* beforeRequest() answers 401, 406, 415 or 400, or another plugin answers:
\* the generator is not called, and process() finds nothing staged.
Reject(r) ==
    /\ phase[r] = "admitted"
    /\ phase' = [phase EXCEPT ![r] = "refused"]
    /\ UNCHANGED <<stores, call, home, pending, minted, aborted>>

\* What an update or a delete stages: the row it found, as it will be.  A row
\* that is not there is a 404, and nothing is staged.
Staged(r, rows) ==
    LET found == {row \in rows : row.id = call[r].id}
    IN CASE call[r].op = "update" ->
              {[kind |-> "replace",
                row |-> [row EXCEPT !.by = @ \cup {r}]] : row \in found}
         [] call[r].op = "delete" ->
              {[kind |-> "remove", row |-> row] : row \in found}
         [] OTHER -> {}

\* The generator, up to its first await: it seeds the scope, and then all but
\* a create finish in this stretch.
Generate(r) ==
    /\ phase[r] = "admitted"
    /\ LET store == Seeded(stores[StateOf(r)])
       IN /\ stores' = [stores EXCEPT ![StateOf(r)] = store]
          /\ pending' = [pending EXCEPT ![r] = Staged(r, store.rows)]
    /\ phase' = [phase EXCEPT ![r] =
                     IF call[r].op = "create" THEN "generating" ELSE "generated"]
    /\ UNCHANGED <<call, home, minted, aborted>>

\* The body of a create is generated: it is given its identifier, and staged.
\* The generator of an aborted request still gets here.
Mint(r) ==
    /\ phase[r] = "generating"
    /\ LET store == stores[StateOf(r)]
           row == [id |-> NextId(store), born |-> r, by |-> {r}]
       IN /\ stores' = [stores EXCEPT ![StateOf(r)] = Counted(store)]
          /\ pending' = [pending EXCEPT ![r] = {[kind |-> "push", row |-> row]}]
          /\ minted' = [minted EXCEPT ![r] = {row.id}]
    /\ phase' = [phase EXCEPT ![r] =
                     IF r \in aborted THEN "dropped" ELSE "generated"]
    /\ UNCHANGED <<call, home, aborted>>

\* The pipeline reaches the plugin's process(), or ends before it: another
\* plugin throws, or recovers from an error.
Process(r) ==
    /\ phase[r] = "generated"
    /\ phase' = [phase EXCEPT ![r] = "processing"]
    /\ UNCHANGED <<stores, call, home, pending, minted, aborted>>

Drop(r) ==
    /\ phase[r] \in {"admitted", "generated"}
    /\ phase' = [phase EXCEPT ![r] = "dropped"]
    /\ UNCHANGED <<stores, call, home, pending, minted, aborted>>

\* The signal of the request fires while its generator or process() runs: its
\* caller is answered, and the function goes on.
Abort(r) ==
    /\ phase[r] \in {"generating", "processing"}
    /\ aborted' = aborted \cup {r}
    /\ UNCHANGED <<stores, phase, call, home, pending, minted>>

\* Mutant: the write is applied whatever the status.
SucceedsAlways(ok) == TRUE
Succeeds(ok) == ok

\* settlePendingMutations() empties the queue before anything else.
QueueAfter(r) == {}

\* process(): Prefer, negotiation and validation have settled the response, an
\* error or not, or one of them threw.
Settle(r) ==
    /\ phase[r] = "processing"
    /\ \E ok \in BOOLEAN :
         /\ phase' = [phase EXCEPT ![r] =
                          IF ~ok THEN "refused"
                          ELSE IF pending[r] = {} THEN "answered" ELSE "stored"]
         /\ \/ /\ Succeeds(ok)
               /\ \E m \in pending[r] :
                    stores' = [stores EXCEPT ![StateOf(r)].rows = Applied(@, m)]
            \/ /\ ~Succeeds(ok) \/ pending[r] = {}
               /\ UNCHANGED stores
    /\ pending' = [pending EXCEPT ![r] = QueueAfter(r)]
    /\ UNCHANGED <<call, home, minted, aborted>>

\* resetState(), or reset().
ResetState ==
    /\ Len(stores) <= MaxResets
    /\ stores' = Append(stores, Blank)
    /\ UNCHANGED <<phase, call, home, pending, minted, aborted>>

Next ==
    \/ ResetState
    \/ \E r \in Requests :
         \/ Admit(r) \/ Reject(r) \/ Generate(r) \/ Mint(r)
         \/ Process(r) \/ Drop(r) \/ Abort(r) \/ Settle(r)

Spec == Init /\ [][Next]_vars

-----------------------------------------------------------------------------
(* Properties. *)

\* No two rows of a collection share an identifier, however creates, deletes
\* and late commits interleave: "the sequence can have gaps, but never
\* duplicates" (docs/openapi.md 261, generators.ts 393-397).
UniqueIds ==
    \A s \in DOMAIN stores : \A a, b \in stores[s].rows : a.id = b.id => a = b

\* Nothing of a request that was answered with an error, or that did not get
\* as far as process(), is in any collection (docs/openapi.md 247-258).
RejectedLeavesNoTrace ==
    \A r \in Requests : phase[r] \in {"refused", "dropped"} =>
        \A s \in DOMAIN stores : \A row \in stores[s].rows : r \notin row.by

\* A row that was created and acknowledged is in its collection until a delete
\* of it is acknowledged as well: neither seeding nor the commit of another
\* request loses it.  A row whose delete was acknowledged does not come back
\* with the commit of an update that had found it before (generators.ts
\* 912-914), nor is its identifier given to another.  A seeded collection: see
\* SameRowUpdated.
AckedWritesStay ==
    \A r \in Requests : phase[r] = "stored" =>
        /\ minted[r] # {} =>
              \/ \E row \in stores[home[r]].rows : row.born = r
              \/ \E d \in Requests :
                   /\ phase[d] = "stored" /\ call[d].op = "delete"
                   /\ home[d] = home[r] /\ call[d].id \in minted[r]
        /\ call[r].op = "delete" =>
              \A row \in stores[home[r]].rows : row.id # call[r].id

\* An update never lands on another row than the one it was computed from,
\* although it looks its identifier up again when it commits.  It relies on
\* identifiers not being reused, so it holds of seeded collections; one that
\* is pre-loaded may reuse that of a row deleted before its first create.
SameRowUpdated ==
    [][\A s \in DOMAIN stores :
         \A a \in stores[s].rows, b \in stores'[s].rows :
             a.id = b.id => a.born = b.born]_vars

=============================================================================
