----------------------------- MODULE Assessment -----------------------------
(***************************************************************************)
(* A bundle of statements in front of assess_evidence: statements of any   *)
(* shape arrive in any order, some older than others, while the registry's *)
(* clock moves.                                                            *)
(***************************************************************************)
EXTENDS Evidence

CONSTANTS
  Subject,       \* the claim whose evidence is assessed
  Offered,       \* the statements that may arrive
  OfferedLeases, \* the leases the bundle may carry
  MaxBundle,     \* bound: statements in the bundle
  MaxStep        \* bound: the registry's clock

ASSUME OfferedAssumption ==
  /\ Subject \in Claim
  /\ Offered \subseteq Statement
  /\ OfferedLeases \subseteq Lease
  /\ MaxStep \in Nat

VARIABLES
  bundle,   \* EvidenceBundle::attestations
  leases,   \* its lease, if any
  asOf      \* the registry's logical step

vars == <<bundle, leases, asOf>>

Init ==
  /\ bundle = {}
  /\ leases \in {{}} \cup {{l} : l \in OfferedLeases}
  /\ asOf = 1

\* collect_evidence puts one more statement into the bundle.
Collect(a) ==
  /\ Cardinality(bundle) < MaxBundle
  /\ bundle' = bundle \cup {a}
  /\ UNCHANGED <<leases, asOf>>

\* The registry's clock advances with every request it serves.
Tick ==
  /\ asOf < MaxStep
  /\ asOf' = asOf + 1
  /\ UNCHANGED <<bundle, leases>>

\* Every attempt starts from an empty bundle.
NewAttempt ==
  /\ bundle' = {}
  /\ leases' \in {{}} \cup {{l} : l \in OfferedLeases}
  /\ asOf' = asOf

Next == (\E a \in Offered : Collect(a)) \/ Tick \/ NewAttempt

Spec == Init /\ [][Next]_vars

-----------------------------------------------------------------------------
Possible == Verdicts(Subject, Profile, bundle, leases, Profile.generation, asOf)

\* The statement backs exactly this claim, now, and nothing its witness said in
\* the bundle is newer.
Backs(a) ==
  /\ a.witness \in Profile.witnesses
  /\ a.support
  /\ [subject |-> a.subject, epoch |-> a.epoch, inc |-> a.inc, token |-> a.token] = Subject
  /\ a.policyGen = Profile.generation
  /\ asOf \in a.issuedAt..a.validUntil
  /\ \A b \in bundle : b.witness = a.witness => b.seq =< a.seq

\* FAIL CLOSED.  Current evidence has a quorum of distinct witnesses, in enough
\* fault domains, whose newest statements back the claim at the registry's step,
\* and every other witness that spoke backs it too.
CurrentMeansQuorum ==
  "Current" \in Possible =>
    LET W == {a.witness : a \in {b \in bundle : Backs(b)}}
    IN  /\ W = Speakers(bundle)
        /\ Cardinality(W) >= RequiredWitnesses(Profile)
        /\ Cardinality({Profile.faultDomain[w] : w \in W}) >= Profile.minFaultDomains
        /\ \A l \in leases : asOf \in l.validFrom..l.validUntil

\* A statement older than another of the same witness, a late or repeated
\* answer, never changes what assess_evidence makes of the bundle.
OldStatementsInert ==
  [][\A a \in bundle' \ bundle :
       (\E b \in bundle : b.witness = a.witness /\ b.seq > a.seq) => Possible' = Possible]_vars

\* Evidence that is not current does not become current by waiting, unless a
\* statement or the lease was from the verifier's future.
NoFreshnessByWaiting ==
  [][(/\ bundle' = bundle
      /\ \A a \in bundle : a.issuedAt =< asOf
      /\ \A l \in leases : l.validFrom =< asOf
      /\ "Current" \notin Possible) => "Current" \notin Possible']_vars

=============================================================================
