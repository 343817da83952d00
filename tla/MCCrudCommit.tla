--------------------------- MODULE MCCrudCommit ---------------------------
(* Small instances of CrudCommit for TLC, with the headers of responses. *)
EXTENDS CrudHeaders, TLC

Symmetry == Permutations(Requests)

Operations == {"create", "read", "update", "delete", "static"}

\* Three requests without headers, as they race for the collection.
NoHeaders == [op \in Operations |-> {}]
Plain == {[seed |-> {}, declared |-> NoHeaders, made |-> Requests]}

\* All responses have an identifier, or some, and one request is static.
Identified == [op \in Operations |-> {"uuid", "date-time", "array", "number"}]
Mixed == [Identified EXCEPT !["read"] = {}, !["update"] = {"enum", "date-time"}]
Two == {some \in SUBSET Everyone : Cardinality(some) = 3 /\ StaticRequests \subseteq some}
MCInstallations ==
    Plain \cup [seed : {{0}}, declared : {Identified, Mixed}, made : Two]
          \cup [seed : {{}}, declared : {Mixed}, made : Two]
=============================================================================
