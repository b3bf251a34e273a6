------------------------------ MODULE MCWorker ------------------------------
(* Instances of Worker: one or two upstream addresses. *)
EXTENDS Worker, TLC

CONSTANTS a1, a2

\* An upstream given as an IP literal: one address, never a migration.
OneAddress == {[weight |-> [a \in Addr |-> 1], assigned |-> a1]}

\* Two addresses: equal, the second much better, and the first gone.
TwoAddresses ==
  {[weight |-> [a \in Addr |-> 1], assigned |-> a1],
   [weight |-> [a \in Addr |-> IF a = a1 THEN 1 ELSE 3], assigned |-> a2],
   [weight |-> [a \in Addr |-> IF a = a1 THEN 0 ELSE 1], assigned |-> a2]}

\* Queries are interchangeable.
QuerySymmetry == Permutations(Query)
=============================================================================
