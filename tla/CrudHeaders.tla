----------------------------- MODULE CrudHeaders -----------------------------
(***************************************************************************)
(* The response headers that the generators of an installation of the      *)
(* OpenAPI plugin make up (packages/openapi/src/generators.ts): under a    *)
(* seed all of them, those of CRUD routes (CrudCommit) and those of static *)
(* ones, draw from one sequence of ordinals.  An ordinal is reserved when  *)
(* a generator starts; the body comes later, in any order.                 *)
(***************************************************************************)
EXTENDS CrudCommit, Integers

CONSTANTS
    StaticRequests,  \* the requests clients make of static routes
    Installations    \* fakerSeed, in a set, {} if it is not given; the headers that
                     \* operations declare; and the requests that are made

ASSUME StaticAssumption == StaticRequests \cap Requests = {}
ASSUME InstallationsAssumption ==
    \A i \in Installations : i.seed \subseteq Int /\ \A m, n \in i.seed : m = n

VARIABLES
    seed,      \* options.fakerSeed
    declared,  \* operation -> its headers, {} if it declares none
    made,      \* the requests that clients make
    ordinal,   \* the next one
    static,    \* where each static request is: "idle", "generating", "sent", "failed"
    headers,   \* what was made up for each request: name -> value
    began      \* history: the requests whose generator started, in order, but for
               \* those without declared headers

headerVars == <<seed, declared, made, ordinal, static, headers, began>>

Everyone == Requests \cup StaticRequests
Operation(r) == IF r \in StaticRequests THEN "static" ELSE call[r].op

-----------------------------------------------------------------------------
(* Values.  A uuid is its prefix and its two fields of six digits.           *)

Uuid(prefix, high, low) == [prefix |-> prefix, high |-> high, low |-> low]
Literal(x) == Uuid(x, 0, 0)

\* shapeId() of a resource with uuids: twelve digits.
ResourceUuid(counter) == Uuid("resource", counter \div 1000000, counter % 1000000)

SeedComponent(n) == (IF n < 0 THEN -n ELSE n) % 1000000

\* Mutant: identifiers of headers look like those of resources.
ResourceLikeUuid(n, at) == Uuid("resource", SeedComponent(n), at % 1000000)
SeededHeaderUuid(n, at) == Uuid("header", SeedComponent(n), at % 1000000)

\* A fixed clock, in seconds.
SeededHeaderTimestamp(n, at) == Uuid("clock", 0, (SeedComponent(n) % 86400) + at)

\* Without a seed: web crypto and the wall clock.
RandomUuid(r) == [prefix |-> "random", of |-> r]
WallClock(r) == [prefix |-> "now", of |-> r]

\* generateSingleHeaderValue(), in a set: arrays and headers without a type
\* have no value.
SingleHeaderValue(definition, reservation, r) ==
    CASE definition \in {"enum", "default", "number", "string", "boolean"} -> {Literal(definition)}
      [] definition = "uuid" ->
            IF reservation = {} THEN {RandomUuid(r)}
            ELSE {SeededHeaderUuid(v.seed, v.at) : v \in reservation}
      [] definition = "date-time" ->
            IF reservation = {} THEN {WallClock(r)}
            ELSE {SeededHeaderTimestamp(v.seed, v.at) : v \in reservation}
      [] OTHER -> {}

HeaderValues(definitions, reservation, r) ==
    LET named == {d \in definitions : SingleHeaderValue(d, reservation, r) # {}} IN
    [d \in named |-> CHOOSE v \in SingleHeaderValue(d, reservation, r) : TRUE]

-----------------------------------------------------------------------------

\* Mutant: the counter advances when the body of a create is there.
AdvancedLate(op) == IF op = "create" THEN ordinal ELSE ordinal + 1
Advanced(op) == ordinal + 1

\* generateHeaderValues(), the first thing a generator does.  A 404 is answered
\* without them.
Begin(r, found) ==
    LET op == Operation(r)
        reservation == {[seed |-> n, at |-> ordinal] : n \in seed} IN
    /\ ordinal' = IF seed # {} /\ declared[op] # {} THEN Advanced(op) ELSE ordinal
    /\ headers' = [headers EXCEPT ![r] =
                      IF found THEN HeaderValues(declared[op], reservation, r) ELSE <<>>]
    /\ began' = IF declared[op] = {} THEN began ELSE Append(began, r)
    /\ UNCHANGED <<seed, declared, made>>

GenerateCrud(r) ==
    /\ Generate(r)
    /\ Begin(r, call[r].op \in {"update", "delete"} => pending'[r] # {})
    /\ UNCHANGED static

\* What is left of CrudCommit.
CrudStep ==
    /\ \/ ResetState
       \/ \E r \in Requests :
             \/ r \in made /\ Admit(r)
             \/ Reject(r) \/ Mint(r) \/ Process(r) \/ Drop(r) \/ Abort(r) \/ Settle(r)
    /\ UNCHANGED headerVars

\* createStaticGenerator(): what cannot be generated is a 500 without headers.
GenerateStatic(r) ==
    /\ static[r] = "idle" /\ r \in made
    /\ Begin(r, TRUE)
    /\ static' = [static EXCEPT ![r] = "generating"]
    /\ UNCHANGED vars

FinishStatic(r) ==
    /\ static[r] = "generating"
    /\ static' \in {[static EXCEPT ![r] = how] : how \in {"sent", "failed"}}
    /\ UNCHANGED <<vars, seed, declared, made, ordinal, headers, began>>

HeadersInit ==
    /\ Init
    /\ \E i \in Installations : seed = i.seed /\ declared = i.declared /\ made = i.made
    /\ ordinal = 0
    /\ static = [r \in StaticRequests |-> "idle"]
    /\ headers = [r \in Everyone |-> <<>>]
    /\ began = <<>>

HeadersNext ==
    \/ CrudStep
    \/ \E r \in Requests : GenerateCrud(r)
    \/ \E r \in StaticRequests : GenerateStatic(r) \/ FinishStatic(r)

HeadersSpec == HeadersInit /\ [][HeadersNext]_<<vars, headerVars>>

-----------------------------------------------------------------------------
(* Properties. *)

\* The headers of the i-th of them, in a mock that serves the same requests one
\* after another: the i-th ordinal is its own.
Replayed(i) ==
    HeaderValues(declared[Operation(began[i])],
                 {[seed |-> n, at |-> i - 1] : n \in seed}, began[i])

\* The identifier among the headers of a request, if any.
HeaderIds(r) == {headers[r][d] : d \in DOMAIN headers[r] \cap {"uuid"}}

\* "same seed + same request sequence within a mock instance -> same values [...]
\* Completion order therefore cannot change IDs" (docs/openapi.md 780-786):
\* whatever the order in which bodies come, requests fail, abort or reset the
\* state, the headers of each are those of a mock of the same seed that serves
\* the requests one after another, in the order in which their generators
\* started.  No two responses share an identifier, seeded or not, and "a header
\* value can never be mistaken for a minted resource id" (generators.ts
\* 185-187).
HeadersReplay ==
    /\ \A i \in DOMAIN began : headers[began[i]] \in {<<>>, Replayed(i)}
    /\ \A q, r \in Everyone : q # r => HeaderIds(q) \cap HeaderIds(r) = {}
    /\ \A r \in Everyone : \A s \in DOMAIN stores :
          HeaderIds(r) \cap {ResourceUuid(row.id) : row \in stores[s].rows} = {}

\* What a client was told of a write stays true.
WritesStay == []AckedWritesStay /\ SameRowUpdated
=============================================================================
