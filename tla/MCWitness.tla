------------------------------ MODULE MCWitness -----------------------------
(* Instances of Witness for TLC. *)
EXTENDS Witness, TLC

CONSTANTS w1, w2, w3, s1

MCProfile ==
  [witnesses |-> {w1, w2, w3}, faultDomain |-> [w \in Witnesses |-> 1],
   mode |-> "majority", threshold |-> 0, minFaultDomains |-> 1, generation |-> 1]

\* Two incarnations claim epoch 1, and a successor epoch 2.
RivalClaims ==
  {[subject |-> s1, epoch |-> 1, inc |-> 1, token |-> 1],
   [subject |-> s1, epoch |-> 1, inc |-> 2, token |-> 2],
   [subject |-> s1, epoch |-> 2, inc |-> 2, token |-> 3]}

Symmetry == Permutations(Witnesses)

=============================================================================
