-------------------------- MODULE AssessmentProofs --------------------------
(***************************************************************************)
(* What assess_evidence guarantees of any bundle, in any order and at any  *)
(* step, proved for every profile, claim, set of statements and bound.     *)
(***************************************************************************)
EXTENDS Assessment, EvidenceProofs

\* What can be in the bundle: statements, at most one lease, and a clock.
BundleInv ==
  /\ bundle \subseteq Statement
  /\ IsFiniteSet(bundle)
  /\ leases \subseteq Lease
  /\ asOf \in Nat

\* An empty bundle is in order.
LEMMA BundleInit == Init => BundleInv
  BY OfferedAssumption, FS_EmptySet DEF Init, BundleInv

\* Every statement, lease and tick leaves it so.
LEMMA BundleNext == BundleInv /\ [Next]_vars => BundleInv'
PROOF
<1> SUFFICES ASSUME BundleInv, [Next]_vars PROVE BundleInv'
  OBVIOUS
<1>1. ASSUME NEW a \in Offered, Collect(a) PROVE BundleInv'
  BY <1>1, OfferedAssumption, FS_AddElement DEF Collect, BundleInv
<1>2. CASE Tick
  BY <1>2 DEF Tick, BundleInv
<1>3. CASE NewAttempt
  BY <1>3, OfferedAssumption, FS_EmptySet DEF NewAttempt, BundleInv
<1>4. CASE UNCHANGED vars
  BY <1>4 DEF vars, BundleInv
<1> QED
  BY <1>1, <1>2, <1>3, <1>4 DEF Next

\* Only well-formed statements are ever in the bundle.
THEOREM Bundled == Spec => []BundleInv
  BY BundleInit, BundleNext, PTL DEF Spec

-----------------------------------------------------------------------------
(* Current evidence. *)

\* The numbers that evidence is measured against.
LEMMA NumberOfWitnesses ==
  /\ IsFiniteSet(Profile.witnesses) /\ Cardinality(Profile.witnesses) \in Nat
  /\ RequiredWitnesses(Profile) \in Int
PROOF
<1>1. Profile.witnesses \subseteq Witnesses /\ Profile.threshold \in Nat
  BY ProfileAssumption DEF QuorumProfile
<1>2. IsFiniteSet(Profile.witnesses) /\ Cardinality(Profile.witnesses) \in Nat
  BY <1>1, WitnessesAssumption, FS_Subset, FS_CardinalityType
<1>3. RequiredWitnesses(Profile) \in Int
  BY <1>1, <1>2 DEF RequiredWitnesses
<1> QED
  BY <1>2, <1>3

\* Evidence assessed as current has its quorum.
LEMMA CurrentIsBacked == BundleInv => CurrentMeansQuorum
PROOF
<1> SUFFICES ASSUME BundleInv, "Current" \in Possible
             PROVE  CurrentMeansQuorum
  BY DEF CurrentMeansQuorum
<1>1. PICK f \in Selections(bundle) :
        Judge(Subject, Profile, {f[w] : w \in DOMAIN f}, leases, asOf) = "Current"
  BY CurrentPossible DEF Possible
<1> DEFINE sel == {f[w] : w \in DOMAIN f}
           S   == Supporters(Subject, Profile, sel, asOf)
           W   == {a.witness : a \in {b \in bundle : Backs(b)}}
<1>2. /\ \A l \in leases : LeaseState(Subject, Profile, l, asOf) = "ok"
      /\ \A a \in sel : StatementKind(Subject, Profile, a, asOf) = "support"
      /\ ~(Cardinality(S) < RequiredWitnesses(Profile))
      /\ Diverse(Profile, S)
  BY <1>1, CurrentMeans
<1>3. /\ DOMAIN f = Speakers(bundle)
      /\ \A w \in Speakers(bundle) : f[w] \in bundle /\ f[w] \in Newest(bundle, w)
  BY DEF Selections
<1>4. ASSUME NEW w \in Speakers(bundle) PROVE f[w].witness = w /\ Backs(f[w])
  <2>1. f[w] \in Newest(bundle, w) /\ f[w] \in sel /\ f[w] \in bundle
    BY <1>3
  <2>2. f[w].witness = w /\ \A b \in bundle : b.witness = w => b.seq =< f[w].seq
    BY <2>1, NewestMeans
  <2>3. StatementKind(Subject, Profile, f[w], asOf) = "support"
    BY <1>2, <2>1
  <2> DEFINE a == f[w]
  <2>4. /\ a.witness \in Profile.witnesses
        /\ a.subject = Subject.subject /\ a.epoch = Subject.epoch
        /\ a.inc = Subject.inc /\ a.token = Subject.token
        /\ a.policyGen = Profile.generation
        /\ ~(a.validUntil < asOf) /\ ~(a.issuedAt > asOf)
        /\ a.support
    BY <2>3, SupportMeans
  <2>5. a.validUntil \in Nat /\ a.issuedAt \in Nat /\ asOf \in Nat
    BY <2>1 DEF BundleInv, Statement
  <2>6. asOf \in a.issuedAt..a.validUntil
    BY <2>4, <2>5
  <2>7. [subject |-> a.subject, epoch |-> a.epoch, inc |-> a.inc, token |-> a.token] = Subject
    BY <2>4, OfferedAssumption DEF Claim
  <2> HIDE DEF a
  <2>8. a.witness = w /\ \A b \in bundle : b.witness = w => b.seq =< a.seq
    BY <2>2 DEF a
  <2>9. Backs(a)
    BY <2>4, <2>6, <2>7, <2>8 DEF Backs
  <2> QED
    BY <2>8, <2>9 DEF a
<1>5. W = Speakers(bundle)
  <2>1. W \subseteq Speakers(bundle)
    BY DEF Speakers
  <2>2. Speakers(bundle) \subseteq W
    BY <1>3, <1>4
  <2> QED
    BY <2>1, <2>2
<1>6. S = Speakers(bundle)
  <2>1. S \subseteq Speakers(bundle)
    BY <1>3, <1>4 DEF Supporters
  <2>2. Speakers(bundle) \subseteq S
    BY <1>2, <1>3, <1>4 DEF Supporters
  <2> QED
    BY <2>1, <2>2
<1>7. Cardinality(S) \in Nat
  <2>1. \A w \in Speakers(bundle) : w \in Profile.witnesses
    BY <1>4 DEF Backs
  <2> QED
    BY <1>6, <2>1, NumberOfWitnesses, FS_Subset, FS_CardinalityType
<1>8. Cardinality(S) >= RequiredWitnesses(Profile)
  BY <1>2, <1>7, NumberOfWitnesses
<1>9. \A l \in leases : asOf \in l.validFrom..l.validUntil
  <2> SUFFICES ASSUME NEW l \in leases PROVE asOf \in l.validFrom..l.validUntil
    OBVIOUS
  <2>1. ~(asOf < l.validFrom) /\ ~(asOf > l.validUntil)
    BY <1>2, LeaseBinds
  <2>2. l.validFrom \in Nat /\ l.validUntil \in Nat /\ asOf \in Nat
    BY DEF BundleInv, Lease
  <2> QED
    BY <2>1, <2>2
<1>10. Cardinality({Profile.faultDomain[w] : w \in S}) >= Profile.minFaultDomains
  BY <1>2 DEF Diverse
<1> HIDE DEF W, S
<1>11. W = S
  BY <1>5, <1>6
<1> QED
  BY <1>5, <1>8, <1>9, <1>10, <1>11 DEF CurrentMeansQuorum, W

\* FAIL CLOSED.  Whatever is collected, in whatever order and however late it is
\* judged, assess_evidence says current only of a bundle in which the newest statement
\* of every witness that spoke backs the claim at the registry's step, by witnesses
\* that are enough, in fault domains that are enough.
THEOREM FailsClosed == Spec => []CurrentMeansQuorum
  BY Bundled, CurrentIsBacked, PTL

-----------------------------------------------------------------------------
(* Late answers. *)

\* A late or repeated answer, older than what its witness said before, changes nothing.
THEOREM LateAnswersInert == Spec => OldStatementsInert
PROOF
<1> DEFINE A == \A a \in bundle' \ bundle :
                  (\E b \in bundle : b.witness = a.witness /\ b.seq > a.seq)
                    => Possible' = Possible
<1>1. ASSUME BundleInv, [Next]_vars PROVE A
  <2> SUFFICES ASSUME NEW a \in bundle' \ bundle,
                      NEW b \in bundle, b.witness = a.witness, b.seq > a.seq
               PROVE  Possible' = Possible
    OBVIOUS
  <2>1. PICK d \in Offered : Collect(d)
    BY <1>1 DEF Next, Tick, NewAttempt, vars
  <2>2. bundle' = bundle \cup {a} /\ leases' = leases /\ asOf' = asOf
    BY <2>1 DEF Collect
  <2>3. \A e \in bundle \cup {a} : e.seq \in Nat
    BY <1>1, <2>1, OfferedAssumption DEF Collect, BundleInv, Statement
  <2>4. Selections(bundle \cup {a}) = Selections(bundle)
    BY <2>3, OlderIsInert
  <2> QED
    BY <2>2, <2>4 DEF Possible, Verdicts
<1>2. BundleInv /\ [Next]_vars => [A]_vars
  BY <1>1
<1> QED
  BY <1>2, Bundled, PTL DEF Spec, OldStatementsInert

-----------------------------------------------------------------------------
(* Waiting. *)

\* No statement, no quorum.
LEMMA EmptyIsNotCurrent ==
  ASSUME NEW ls, NEW t
  PROVE  "Current" \notin Verdicts(Subject, Profile, {}, ls, Profile.generation, t)
PROOF
<1> SUFFICES ASSUME "Current" \in Verdicts(Subject, Profile, {}, ls, Profile.generation, t)
             PROVE  FALSE
  OBVIOUS
<1>1. ValidProfile(Profile)
  BY CurrentPossible
<1>2. PICK f \in Selections({}) :
        Judge(Subject, Profile, {f[w] : w \in DOMAIN f}, ls, t) = "Current"
  BY CurrentPossible
<1>3. {f[w] : w \in DOMAIN f} = {}
  BY DEF Selections, Speakers
<1>4. Supporters(Subject, Profile, {}, t) = {}
  BY DEF Supporters
<1>5. ~(Cardinality({}) < RequiredWitnesses(Profile))
  BY <1>2, <1>3, <1>4, CurrentMeans
<1>6. RequiredWitnesses(Profile) \in 1..Cardinality(Profile.witnesses)
  BY <1>1 DEF ValidProfile
<1> QED
  BY <1>5, <1>6, FS_EmptySet, NumberOfWitnesses

\* Evidence whose statements and lease are of the past can only lose by waiting.
THEOREM WaitingProvesNothing == Spec => NoFreshnessByWaiting
PROOF
<1> DEFINE Past == /\ \A a \in bundle : a.issuedAt =< asOf
                   /\ \A l \in leases : l.validFrom =< asOf
           A == (/\ bundle' = bundle
                 /\ \A a \in bundle : a.issuedAt =< asOf
                 /\ \A l \in leases : l.validFrom =< asOf
                 /\ "Current" \notin Possible) => "Current" \notin Possible'
<1>1. ASSUME BundleInv, [Next]_vars, bundle' = bundle, Past, "Current" \in Possible'
      PROVE  "Current" \in Possible
  <2>1. CASE Tick
    <3>1. leases' = leases /\ asOf' = asOf + 1
      BY <2>1 DEF Tick
    <3>2. ValidProfile(Profile)
      BY <1>1, CurrentPossible DEF Possible
    <3>3. PICK f \in Selections(bundle) :
            Judge(Subject, Profile, {f[w] : w \in DOMAIN f}, leases, asOf + 1) = "Current"
      BY <1>1, <3>1, CurrentPossible DEF Possible
    <3> DEFINE sel == {f[w] : w \in DOMAIN f}
    <3>4. /\ \A l \in leases : LeaseState(Subject, Profile, l, asOf + 1) = "ok"
          /\ \A a \in sel : StatementKind(Subject, Profile, a, asOf + 1) = "support"
          /\ ~(Cardinality(Supporters(Subject, Profile, sel, asOf + 1))
                 < RequiredWitnesses(Profile))
          /\ Diverse(Profile, Supporters(Subject, Profile, sel, asOf + 1))
      BY <3>3, CurrentMeans
    <3>5. sel \subseteq bundle
      BY DEF Selections
    <3>6. ASSUME NEW l \in leases PROVE LeaseState(Subject, Profile, l, asOf) = "ok"
      <4>1. l.validFrom \in Nat /\ l.validUntil \in Nat /\ asOf \in Nat /\ l.validFrom =< asOf
        BY <1>1 DEF BundleInv, Lease
      <4>2. ~(asOf + 1 > l.validUntil)
        BY <3>4, LeaseBinds
      <4>3. ~(asOf < l.validFrom) /\ ~(asOf > l.validUntil)
        BY <4>1, <4>2
      <4> QED
        BY <3>4, <4>3, LeaseBinds
    <3>7. ASSUME NEW a \in sel PROVE StatementKind(Subject, Profile, a, asOf) = "support"
      <4>1. a \in bundle
        BY <3>5
      <4>2. a.issuedAt \in Nat /\ a.validUntil \in Nat /\ asOf \in Nat /\ a.issuedAt =< asOf
        BY <1>1, <4>1 DEF BundleInv, Statement
      <4>3. ~(a.validUntil < asOf + 1)
        BY <3>4, SupportMeans
      <4>4. ~(a.validUntil < asOf) /\ ~(a.issuedAt > asOf)
        BY <4>2, <4>3
      <4> QED
        BY <3>4, <4>4, SupportMeans
    <3>8. Supporters(Subject, Profile, sel, asOf) = Supporters(Subject, Profile, sel, asOf + 1)
      BY <3>4, <3>7 DEF Supporters
    <3>9. Judge(Subject, Profile, sel, leases, asOf) = "Current"
      BY <3>4, <3>6, <3>7, <3>8, CurrentMeans
    <3> QED
      BY <3>2, <3>9, CurrentPossible DEF Possible
  <2>2. CASE bundle = {}
    BY <1>1, <2>2, EmptyIsNotCurrent DEF Possible
  <2>3. CASE NewAttempt
    BY <1>1, <2>2, <2>3 DEF NewAttempt
  <2>4. ASSUME NEW a \in Offered, Collect(a) PROVE "Current" \in Possible
    BY <1>1, <2>4 DEF Collect, Possible
  <2>5. CASE UNCHANGED vars
    BY <1>1, <2>5 DEF vars, Possible
  <2> QED
    BY <1>1, <2>1, <2>3, <2>4, <2>5 DEF Next
<1>2. BundleInv /\ [Next]_vars => [A]_vars
  BY <1>1
<1> QED
  BY <1>2, Bundled, PTL DEF Spec, NoFreshnessByWaiting

=============================================================================
