--------------------------- MODULE MCCoordinator ----------------------------
(* An instance of Coordinator for TLC: two domains whose scopes meet. *)
EXTENDS Coordinator, TLC

CONSTANTS w1, w2, d1, d2, e1, e2, c1, c2

MCProfile ==
  [witnesses |-> {w1, w2}, faultDomain |-> [w \in Witnesses |-> 1],
   mode |-> "majority", threshold |-> 0, minFaultDomains |-> 1, generation |-> 1]

\* The defaults of ArbiterPolicy.
MCPolicy ==
  [generation |-> 1, requireLease |-> FALSE, allowNonOverlapping |-> TRUE,
   fenceLower |-> TRUE, equalEpochFatal |-> TRUE]

MCHome == [d \in Domains |-> IF d = d1 THEN {e1} ELSE {e1, e2}]

MCWitnessOrder == <<w1, w2>>

Symmetry == Permutations(Coordinators)

=============================================================================
