--------------------------- MODULE MCLeaseAdapters ---------------------------
(* User code, two providers and an app take leases around a request; or user *)
(* code alone.                                                               *)
EXTENDS LeaseAdapters

CONSTANTS l1, l2, l3, m1, m2, p1, p2, a1, r1

\* One mock holds two leases, another one.
TwoAndOne == l1 :> m1 @@ l2 :> m2 @@ l3 :> m1
OneMock == [l \in Leases |-> m1]

\* One mock may refuse to pass requests on, the other leases may filter them out.
GivenEach == [l \in Leases |-> IF l = l2 THEN {"passthrough", "strict"}
                               ELSE {"passthrough", "exclude"}]
OnlyPassthrough == [l \in Leases |-> {"passthrough"}]

\* The two leases of one mock are interchangeable, and so are the wrappers.
Symmetry == Permutations({l1, l3}) \cup Permutations(Wrappers)

MCCasts == {{UserCode, r1}, {p1, a1, UserCode}, {p1, p2}, {a1, r1}}
UserOnly == {{UserCode, r1}}
=============================================================================
