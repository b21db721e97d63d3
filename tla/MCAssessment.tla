---------------------------- MODULE MCAssessment ----------------------------
(* Instances of Assessment for TLC: three witnesses in two fault domains and *)
(* an outsider, and statements that depart from the claim in one field.      *)
EXTENDS Assessment, TLC

CONSTANTS w1, w2, w3, w4, s1, s2

MCProfile ==
  [witnesses |-> {w1, w2, w3}, faultDomain |-> (w1 :> 1 @@ w2 :> 1 @@ w3 :> 2 @@ w4 :> 3),
   mode |-> "majority", threshold |-> 0, minFaultDomains |-> 2, generation |-> 1]

MCSubject == [subject |-> s1, epoch |-> 2, inc |-> 2, token |-> 2]

Backing(w, n) ==
  [witness |-> w, subject |-> s1, epoch |-> 2, inc |-> 2, token |-> 2, gen |-> 1,
   policyGen |-> 1, issuedAt |-> 1, validUntil |-> 2, seq |-> n, support |-> TRUE]

Departures(a) ==
  {a, [a EXCEPT !.subject = s2], [a EXCEPT !.epoch = 1], [a EXCEPT !.inc = 1],
   [a EXCEPT !.token = 1], [a EXCEPT !.gen = 0], [a EXCEPT !.policyGen = 2],
   [a EXCEPT !.issuedAt = 2, !.validUntil = 3], [a EXCEPT !.validUntil = 1],
   [a EXCEPT !.support = FALSE]}

MCOffered ==
  UNION {Departures(Backing(w, n)) : w \in {w1, w2, w3}, n \in 1..2}
    \cup {Backing(w4, 1), Backing(NoWitness, 1)}

GoodLease ==
  [set |-> TRUE, policyGen |-> 1, subject |-> s1, epoch |-> 2, inc |-> 2, token |-> 2,
   validFrom |-> 1, validUntil |-> 2]

MCLeases == {GoodLease, [GoodLease EXCEPT !.epoch = 1], [GoodLease EXCEPT !.validFrom = 2]}

=============================================================================
