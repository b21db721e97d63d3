------------------------------ MODULE Arbiter -------------------------------
(***************************************************************************)
(* decide_authority and check_revocation: the pure functions that turn a   *)
(* request, the evidence verdict on it and a view of the registry into an  *)
(* authority verdict, and that tell later whether it still stands.         *)
(***************************************************************************)
EXTENDS RegistryTables, Evidence

CONSTANT Policy      \* the ArbiterPolicy; its quorum profile is Profile

ArbiterPolicy ==
  [generation: Nat, requireLease: BOOLEAN, allowNonOverlapping: BOOLEAN,
   fenceLower: BOOLEAN, equalEpochFatal: BOOLEAN]

ASSUME PolicyAssumption == Policy \in ArbiterPolicy

Modes == {"Observation", "EligibilityProbe", "RecommendationRequest", "SharedRead",
          "ExclusiveMutation"}

\* AuthorityRequest without its evidence: lease tells whether the bundle has one.
AuthorityRequest ==
  [claim: Nat, domain: Domains, scope: SUBSET Extents, epoch: Nat, inc: Nat, token: Nat,
   mode: Modes, policyGen: Nat, lease: BOOLEAN]

CompetingClaim ==
  [claim: Nat, domain: Domains, scope: SUBSET Extents, epoch: Nat, inc: Nat, token: Nat,
   mode: Modes, evidence: {"Current", "Stale", "Unknown", "Conflict", "Invalid"}, active: BOOLEAN]

-----------------------------------------------------------------------------
(* Competing claims. *)

Contenders(r, competing) ==
  {c \in competing : c.claim # r.claim /\ c.scope \cap r.scope # {}}

\* Mutant of Obstacle: an equal epoch is left to the token comparison.
ObstacleHigherOnly(r, c) ==
  IF c.epoch > r.epoch
  THEN IF c.evidence = "Current" THEN "Conflict" ELSE "Unknown"
  ELSE IF c.epoch < r.epoch /\ Policy.fenceLower /\ c.active THEN "Conflict"
  ELSE "none"

\* Mutant of Obstacle: a lower epoch stops the claim whether or not it is active.
ObstacleInactive(r, c) ==
  IF c.epoch >= r.epoch /\ (c.epoch = r.epoch => c.inc # r.inc)
  THEN IF c.evidence = "Current" THEN "Conflict" ELSE "Unknown"
  ELSE IF c.epoch < r.epoch THEN "Conflict"
  ELSE "none"

\* What one exclusive contender does to the claim, "none" when it may be passed:
\* a higher epoch stops it, an equal one of another incarnation stops both, and
\* a lower one that is still active has to be fenced first.
Obstacle(r, c) ==
  IF c.epoch > r.epoch \/ (c.epoch = r.epoch /\ c.inc # r.inc /\ Policy.equalEpochFatal)
  THEN IF c.evidence = "Current" THEN "Conflict" ELSE "Unknown"
  ELSE IF c.epoch < r.epoch /\ Policy.fenceLower /\ c.active THEN "Conflict"
  ELSE "none"

\* The same incarnation holds the epoch under another token or another claim.
Twin(r, c) ==
  IF c.epoch # r.epoch \/ c.inc # r.inc THEN "none"
  ELSE IF c.token # r.token THEN "Conflict"
  ELSE "Refused"

\* The contenders are looked at in the order of their claim ids and the first
\* that stops the claim decides, those of the first loop before the second.
Contest(r, competing) ==
  LET exclusive == {c \in Contenders(r, competing) : c.mode = "ExclusiveMutation"}
      blocking  == {c \in exclusive : Obstacle(r, c) # "none"}
      twins     == {c \in exclusive : Twin(r, c) # "none"}
      First(C)  == CHOOSE c \in C : \A d \in C : c.claim =< d.claim
  IN  IF blocking # {} THEN Obstacle(r, First(blocking))
      ELSE IF twins # {} THEN Twin(r, First(twins))
      ELSE IF Contenders(r, competing) # {} /\ ~Policy.allowNonOverlapping THEN "Conflict"
      ELSE "Authoritative"

\* Mutant of MustFence: only claims that are seen alive are named.
MustFenceActive(r, competing) ==
  {c.claim : c \in {d \in Contenders(r, competing) : d.active /\ d.epoch < r.epoch}}

\* Claims the caller has to fence before it acts on an authoritative decision.
MustFence(r, competing) ==
  {c.claim : c \in {d \in Contenders(r, competing) : /\ d.mode = "ExclusiveMutation"
                                                     /\ d.epoch < r.epoch
                                                     /\ Policy.fenceLower}}

-----------------------------------------------------------------------------
(* decide_authority.  s is the registry state of the view, evidence what      *)
(* assess_evidence makes of the request's bundle.                             *)

WellFormed(r) ==
  r.claim # 0 /\ r.scope # {} /\ r.epoch # 0 /\ r.inc # 0 /\ r.token # 0

\* Without enough evidence: only the modes that carry no authority go on.
Unproven(r, evidence) ==
  IF evidence = "Unknown" /\ r.mode = "EligibilityProbe" THEN "Eligible"
  ELSE IF evidence = "Unknown" /\ r.mode = "RecommendationRequest" THEN "Recommended"
  ELSE evidence

Verdict(r, s, evidence, competing) ==
  IF ~WellFormed(r) THEN "Invalid"
  ELSE IF Policy.generation = 0 \/ ~ValidProfile(Profile) THEN "Unsupported"
  ELSE IF r.policyGen # Policy.generation THEN "Stale"
  ELSE IF r.mode = "Observation" THEN "ObserveOnly"
  ELSE IF r.epoch < MaxEpoch(s, r.domain) THEN "Stale"
  ELSE IF r.inc \in s.fencedInc \/ <<r.domain, r.epoch>> \in s.fencedEpoch THEN "Fenced"
  ELSE IF \E e \in r.scope : s.ext[e].hw > r.token THEN "Fenced"
  ELSE IF evidence # "Current" THEN Unproven(r, evidence)
  ELSE IF Policy.requireLease /\ r.mode = "ExclusiveMutation" /\ ~r.lease THEN "Refused"
  ELSE IF r.mode = "EligibilityProbe" THEN "Eligible"
  ELSE IF r.mode \in {"RecommendationRequest", "SharedRead"} THEN "Recommended"
  ELSE Contest(r, competing)

-----------------------------------------------------------------------------
(* check_revocation.  A decision keeps its request and the generation of the  *)
(* fence table it was made under; fenceGen is that of the view.               *)

\* Mutant of Revoked: the generation of the fence table stands for its contents.
RevokedByGeneration(d, s, fenceGen, now, competing) ==
  \/ d.policyGen # Policy.generation
  \/ d.fenceGen # fenceGen
  \/ MaxEpoch(s, d.domain) > d.epoch
  \/ now > d.validUntil

\* What ends a decision: a new policy, any change of the fence table, a newer
\* epoch, the fencing of its incarnation, its expiry, or a proven claim of a higher
\* epoch in another domain.
Revoked(d, s, fenceGen, now, competing) ==
  \/ d.policyGen # Policy.generation
  \/ d.fenceGen # fenceGen
  \/ MaxEpoch(s, d.domain) > d.epoch
  \/ d.inc \in s.fencedInc
  \/ now > d.validUntil
  \/ \E c \in competing : /\ c.mode = "ExclusiveMutation"
                          /\ c.epoch > d.epoch
                          /\ c.evidence = "Current"
                          /\ c.domain # d.domain

=============================================================================
