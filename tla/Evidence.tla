------------------------------ MODULE Evidence ------------------------------
(***************************************************************************)
(* Quorum evidence: what a witness states, and assess_evidence, the        *)
(* function by which the registry judges a bundle of such statements       *)
(* against the quorum profile of its policy.                               *)
(***************************************************************************)
EXTENDS Integers, FiniteSets

CONSTANTS
  Witnesses,        \* witness ids
  NoWitness,        \* the empty witness id
  Subjects,         \* (domain, scope) pairs
  Profile           \* the QuorumProfile of the registry's policy

ASSUME WitnessesAssumption ==
  /\ IsFiniteSet(Witnesses)
  /\ NoWitness \notin Witnesses

\* WitnessAttestation.  policyGen is the generation of the policy it was asked
\* for, gen the witness's own generation for the subject.
Statement ==
  [witness: Witnesses \cup {NoWitness}, subject: Subjects, epoch: Nat, inc: Nat, token: Nat,
   gen: Nat, policyGen: Nat, issuedAt: Nat, validUntil: Nat, seq: Nat, support: BOOLEAN]

\* EvidenceRequest: the authority to be proven.
Claim == [subject: Subjects, epoch: Nat, inc: Nat, token: Nat]

\* Lease: set is FALSE when one of its ids is missing.
Lease ==
  [set: BOOLEAN, policyGen: Nat, subject: Subjects, epoch: Nat, inc: Nat, token: Nat,
   validFrom: Nat, validUntil: Nat]

QuorumModes == {"majority", "threshold", "unanimous"}

QuorumProfile ==
  [witnesses: SUBSET Witnesses, faultDomain: [Witnesses -> Nat], mode: QuorumModes,
   threshold: Nat, minFaultDomains: Nat, generation: Nat]

ASSUME ProfileAssumption == Profile \in QuorumProfile

-----------------------------------------------------------------------------
(* The quorum profile. *)

RequiredWitnesses(p) ==
  IF p.mode = "majority"
  THEN IF p.witnesses = {} THEN 0 ELSE Cardinality(p.witnesses) \div 2 + 1
  ELSE IF p.mode = "threshold" THEN p.threshold
  ELSE Cardinality(p.witnesses)

ValidProfile(p) ==
  /\ p.generation # 0
  /\ RequiredWitnesses(p) \in 1..Cardinality(p.witnesses)
  /\ p.minFaultDomains \in 1..Cardinality(p.witnesses)

-----------------------------------------------------------------------------
(* One statement per witness: the one with the highest sequence number.      *)
(* Among statements that carry the same number the first in the canonical    *)
(* order wins; attestation_less does not order statements that differ in     *)
(* nothing it compares, and std::sort leaves those in either order.          *)

Key(a) == <<a.epoch, a.inc, a.gen, a.token>>

LexLess(x, y) ==
  \E i \in 1..4 : x[i] < y[i] /\ \A j \in 1..(i - 1) : x[j] = y[j]

Speakers(bundle) == {a.witness : a \in bundle}

\* Mutant of Newest: any statement of the witness may be taken.
NewestAny(bundle, w) == {a \in bundle : a.witness = w}

Newest(bundle, w) ==
  LET said == {a \in bundle : a.witness = w}
      last == {a \in said : \A b \in said : b.seq =< a.seq}
  IN  {a \in last : \A b \in last : ~LexLess(Key(b), Key(a))}

\* The selections of one statement per witness that a sort may produce.
Selections(bundle) ==
  {f \in [Speakers(bundle) -> bundle] : \A w \in Speakers(bundle) : f[w] \in Newest(bundle, w)}

-----------------------------------------------------------------------------
(* assess_evidence. *)

\* Mutant of StatementKind: the expiry is compared the wrong way round.
StatementKindReversed(c, p, a, asOf) ==
  IF a.witness \notin p.witnesses THEN "unknown"
  ELSE IF a.subject # c.subject \/ a.inc # c.inc \/ a.gen = 0 THEN "invalid"
  ELSE IF a.epoch # c.epoch \/ a.token # c.token THEN "stale"
  ELSE IF a.policyGen # p.generation THEN "generation"
  ELSE IF a.validUntil > asOf THEN "stale"
  ELSE IF a.issuedAt > asOf THEN "unknown"
  ELSE IF a.support THEN "support"
  ELSE "dissent"

\* The one flag that a statement raises, every binding being compared in turn.
\* The registry sets no witness floors, so no statement is below one.
StatementKind(c, p, a, asOf) ==
  IF a.witness = NoWitness THEN "invalid"
  ELSE IF a.witness \notin p.witnesses THEN "unknown"
  ELSE IF a.subject # c.subject THEN "invalid"
  ELSE IF a.epoch # c.epoch THEN "stale"
  ELSE IF a.inc # c.inc THEN "invalid"
  ELSE IF a.token # c.token THEN "stale"
  ELSE IF a.policyGen # p.generation THEN "generation"
  ELSE IF a.gen = 0 THEN "invalid"
  ELSE IF a.validUntil < asOf THEN "stale"
  ELSE IF a.issuedAt > asOf THEN "unknown"
  ELSE IF a.support THEN "support"
  ELSE "dissent"

\* The lease binding, "ok" when it holds.
LeaseState(c, p, lease, asOf) ==
  IF ~lease.set THEN "Invalid"
  ELSE IF lease.policyGen # p.generation THEN "Stale"
  ELSE IF lease.subject # c.subject THEN "Invalid"
  ELSE IF <<lease.epoch, lease.inc, lease.token>> # <<c.epoch, c.inc, c.token>> THEN "Stale"
  ELSE IF asOf < lease.validFrom THEN "Unknown"
  ELSE IF asOf > lease.validUntil THEN "Stale"
  ELSE "ok"

\* Mutant of Diverse: distinct witnesses are enough.
DiverseAny(p, supporters) == TRUE

Diverse(p, supporters) ==
  Cardinality({p.faultDomain[w] : w \in supporters}) >= p.minFaultDomains

\* The verdict on one selection; leases holds the bundle's lease, if any.
Judge(c, p, selected, leases, asOf) ==
  LET kinds      == {StatementKind(c, p, a, asOf) : a \in selected}
      supporters == {a.witness : a \in {b \in selected : StatementKind(c, p, b, asOf) = "support"}}
      lacking    == IF "stale" \in kinds THEN "Stale" ELSE "Unknown"
      leaseFault == {LeaseState(c, p, l, asOf) : l \in leases} \ {"ok"}
  IN  IF leaseFault # {} THEN CHOOSE s \in leaseFault : TRUE
      ELSE IF "dissent" \in kinds THEN "Conflict"
      ELSE IF "invalid" \in kinds THEN "Invalid"
      ELSE IF "generation" \in kinds THEN "Stale"
      ELSE IF Cardinality(supporters) < RequiredWitnesses(p) THEN lacking
      ELSE IF ~Diverse(p, supporters) THEN "Unknown"
      ELSE IF kinds \cap {"stale", "unknown"} # {} THEN lacking
      ELSE "Current"

\* The verdicts assess_evidence may return for a bundle asked for under the
\* policy generation policyGen.
Verdicts(c, p, bundle, leases, policyGen, asOf) ==
  IF ~ValidProfile(p) THEN {"Invalid"}
  ELSE IF policyGen # p.generation THEN {"Stale"}
  ELSE {Judge(c, p, {f[w] : w \in DOMAIN f}, leases, asOf) : f \in Selections(bundle)}

=============================================================================
