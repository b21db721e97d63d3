--------------------------- MODULE MCArbitration ----------------------------
(* An instance of Selection for TLC: a domain over both extents, whose claim  *)
(* has the highest epoch, one domain over each extent, a claim that shares    *)
(* epoch, incarnation and token with another, one of an equal epoch, and a    *)
(* reader.  The largest plan leaves the highest claim out.                    *)
EXTENDS Selection, TLC

CONSTANTS w1, d1, d2, d3, e1, e2

MCProfile ==
  [witnesses |-> {w1}, faultDomain |-> [w \in Witnesses |-> 1],
   mode |-> "majority", threshold |-> 0, minFaultDomains |-> 1, generation |-> 1]

\* The defaults of ArbiterPolicy.
MCPolicy ==
  [generation |-> 1, requireLease |-> FALSE, allowNonOverlapping |-> TRUE,
   fenceLower |-> TRUE, equalEpochFatal |-> TRUE]

Offer(n, d, scope, epoch, i, token, mode) ==
  [claim |-> n, domain |-> d, scope |-> scope, epoch |-> epoch, inc |-> i, token |-> token,
   mode |-> mode, policyGen |-> 1, lease |-> FALSE]

MCOffers ==
  {Offer(1, d1, {e1}, 1, 1, 1, "SharedRead"),
   Offer(2, d2, {e1, e2}, 2, 2, 4, "ExclusiveMutation"),
   Offer(3, d1, {e1}, 1, 3, 2, "ExclusiveMutation"),
   Offer(4, d1, {e1}, 1, 3, 2, "ExclusiveMutation"),
   Offer(5, d3, {e2}, 2, 4, 3, "ExclusiveMutation")}

MCDomainRank == [d \in Domains |-> CASE d = d1 -> 1 [] d = d2 -> 2 [] OTHER -> 3]

=============================================================================
