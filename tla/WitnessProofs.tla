---------------------------- MODULE WitnessProofs ---------------------------
(***************************************************************************)
(* What the witnesses' memory gives, proved for every number of witnesses, *)
(* subjects, claims and restarts: votes for an epoch are exclusive up to   *)
(* the witnesses that restarted, and without restarts a bundle has one     *)
(* verdict.                                                                *)
(***************************************************************************)
EXTENDS Witness, EvidenceProofs

TypeInv ==
  /\ subjects \in [Witnesses -> [Subjects -> Memory]]
  /\ lastSeq \in [Witnesses -> Nat]
  /\ statements \subseteq {a \in Statement : a.witness \in Witnesses /\ a.epoch # 0}
  /\ now \in Nat
  /\ forgetful \subseteq Witnesses

\* A witness that never restarted remembers, for every subject, an epoch no older
\* than any it attested, and whom it attested it for.
Remembered ==
  \A a \in statements : a.witness \notin forgetful =>
    /\ a.epoch =< subjects[a.witness][a.subject].epoch
    /\ a.epoch = subjects[a.witness][a.subject].epoch =>
         /\ a.inc = subjects[a.witness][a.subject].inc
         /\ a.token = subjects[a.witness][a.subject].token

\* Such a witness gave its vote for an epoch of a subject once.
OneVote ==
  \A a, b \in statements :
    (/\ a.witness = b.witness /\ a.witness \notin forgetful
     /\ a.subject = b.subject /\ a.epoch = b.epoch)
    => a.inc = b.inc /\ a.token = b.token

\* It numbers its statements apart, and the one with its last number is still about.
Numbered ==
  \A a \in statements : a.witness \notin forgetful =>
    /\ a.seq =< lastSeq[a.witness]
    /\ \E b \in statements : b.witness = a.witness /\ b.seq = lastSeq[a.witness]
    /\ \A b \in statements : b.witness = a.witness /\ b.seq = a.seq => b = a

VoteInv == TypeInv /\ Remembered /\ OneVote /\ Numbered

-----------------------------------------------------------------------------
\* Nobody has voted at the start.
LEMMA VoteInit == Init => VoteInv
PROOF
<1> SUFFICES ASSUME Init PROVE VoteInv
  OBVIOUS
<1>1. TypeInv
  BY DEF Init, TypeInv, Nothing, Memory
<1> QED
  BY <1>1 DEF Init, VoteInv, Remembered, OneVote, Numbered

\* The steps that neither change what a witness remembers nor issue a statement.
LEMMA VoteQuiet ==
  ASSUME VoteInv, UNCHANGED <<subjects, lastSeq, statements, forgetful>>, now' \in Nat
  PROVE  VoteInv'
  BY DEF VoteInv, TypeInv, Remembered, OneVote, Numbered

\* A restart only adds to the witnesses of which nothing is claimed.
LEMMA VoteRestart ==
  ASSUME VoteInv, NEW w \in Witnesses, Restart(w)
  PROVE  VoteInv'
PROOF
<1>1. /\ forgetful' = forgetful \cup {w} /\ statements' = statements /\ now' = now
      /\ subjects' = [subjects EXCEPT ![w] = [s \in Subjects |-> Nothing]]
      /\ lastSeq' = [lastSeq EXCEPT ![w] = 0]
  BY DEF Restart
<1>2. TypeInv'
  <2>1. [s \in Subjects |-> Nothing] \in [Subjects -> Memory]
    BY DEF Nothing, Memory
  <2> QED
    BY <1>1, <2>1 DEF VoteInv, TypeInv
<1>3. \A a \in statements : a.witness \notin forgetful' =>
        /\ a.witness \in Witnesses /\ a.witness \notin forgetful
        /\ subjects'[a.witness] = subjects[a.witness]
        /\ lastSeq'[a.witness] = lastSeq[a.witness]
  BY <1>1 DEF VoteInv, TypeInv
<1>4. Remembered'
  BY <1>1, <1>3 DEF VoteInv, Remembered
<1>5. OneVote'
  BY <1>1 DEF VoteInv, OneVote
<1>6. Numbered'
  BY <1>1, <1>3 DEF VoteInv, Numbered
<1> QED
  BY <1>2, <1>4, <1>5, <1>6 DEF VoteInv

\* An attestation leaves one vote per witness and epoch.
LEMMA VoteAttest ==
  ASSUME VoteInv, NEW w \in Witnesses, NEW c \in Claims, NEW step \in 1..now,
         Attest(w, c, step)
  PROVE  VoteInv'
PROOF
<1> DEFINE mem == Attested(subjects[w], c)
           seq == lastSeq[w] + 1
           new == Attestation(w, c, mem, seq, step)
<1>1. /\ MayAttest(subjects[w], c)
      /\ subjects' = [subjects EXCEPT ![w] = mem]
      /\ lastSeq' = [lastSeq EXCEPT ![w] = seq]
      /\ statements' = statements \cup {new}
      /\ now' = now /\ forgetful' = forgetful
  BY DEF Attest
<1>2. /\ c.subject \in Subjects /\ c.epoch \in Nat /\ c.inc \in Nat /\ c.token \in Nat
      /\ c.epoch # 0
  BY WitnessConstants DEF Claim
<1>3. subjects[w] \in [Subjects -> Memory] /\ lastSeq[w] \in Nat /\ seq \in Nat
  BY DEF VoteInv, TypeInv
<1>4. /\ mem \in [Subjects -> Memory]
      /\ \A s \in Subjects : s # c.subject => mem[s] = subjects[w][s]
      /\ mem[c.subject].epoch = c.epoch /\ mem[c.subject].inc = c.inc
      /\ mem[c.subject].token = c.token /\ mem[c.subject].gen \in Nat
  <2>1. subjects[w][c.subject].gen + 1 \in Nat
    BY <1>2, <1>3 DEF Memory
  <2> QED
    BY <1>2, <1>3, <2>1 DEF Attested, Memory
<1>5. /\ new.witness = w /\ new.subject = c.subject /\ new.epoch = c.epoch
      /\ new.inc = c.inc /\ new.token = c.token /\ new.seq = seq
  BY DEF Attestation
<1>6. new \in Statement
  <2>1. step \in Nat /\ step + Horizon \in Nat /\ Profile.generation \in Nat
    BY WitnessConfig, ProfileAssumption DEF VoteInv, TypeInv, QuorumProfile
  <2> QED
    BY <1>2, <1>3, <1>4, <2>1 DEF Attestation, Statement
<1> HIDE DEF mem, seq, new
<1>7. TypeInv'
  BY <1>1, <1>2, <1>3, <1>4, <1>5, <1>6 DEF VoteInv, TypeInv
<1>8. /\ subjects'[w] = mem /\ lastSeq'[w] = seq
      /\ \A v \in Witnesses : v # w => subjects'[v] = subjects[v] /\ lastSeq'[v] = lastSeq[v]
  BY <1>1 DEF VoteInv, TypeInv
<1>9. ASSUME NEW a \in statements
      PROVE  /\ a.witness \in Witnesses /\ a.subject \in Subjects
             /\ a.epoch \in Nat /\ a.epoch # 0 /\ a.seq \in Nat
             /\ subjects[a.witness][a.subject].epoch \in Nat
  BY DEF VoteInv, TypeInv, Statement, Memory
\* What the witness said before of this subject is of an older epoch, or the same vote.
<1>10. ASSUME NEW a \in statements, a.witness = w, w \notin forgetful, a.subject = c.subject
       PROVE  /\ a.epoch =< c.epoch
              /\ a.epoch = c.epoch => a.inc = c.inc /\ a.token = c.token
  <2> DEFINE m == subjects[w][c.subject]
  <2>1. /\ a.epoch =< m.epoch
        /\ a.epoch = m.epoch => a.inc = m.inc /\ a.token = m.token
    BY <1>10 DEF VoteInv, Remembered
  <2>2. a.epoch \in Nat /\ a.epoch # 0 /\ m.epoch \in Nat
    BY <1>9, <1>10
  <2>3. m.epoch # 0
    BY <2>1, <2>2
  <2>4. c.epoch >= m.epoch /\ (c.epoch = m.epoch => c.inc = m.inc /\ c.token = m.token)
    BY <1>1, <2>3 DEF MayAttest
  <2> HIDE DEF m
  <2> QED
    BY <1>2, <2>1, <2>2, <2>4
<1>11. Remembered'
  <2> SUFFICES ASSUME NEW a \in statements', a.witness \notin forgetful'
               PROVE  /\ a.epoch =< subjects'[a.witness][a.subject].epoch
                      /\ a.epoch = subjects'[a.witness][a.subject].epoch =>
                           /\ a.inc = subjects'[a.witness][a.subject].inc
                           /\ a.token = subjects'[a.witness][a.subject].token
    BY DEF Remembered
  <2>1. CASE a = new
    BY <1>2, <1>4, <1>5, <1>8, <2>1
  <2>2. CASE a \in statements /\ a.witness = w /\ a.subject = c.subject
    BY <1>1, <1>4, <1>8, <1>10, <2>2
  <2>3. CASE a \in statements /\ ~(a.witness = w /\ a.subject = c.subject)
    <3>1. subjects'[a.witness][a.subject] = subjects[a.witness][a.subject]
      BY <1>4, <1>8, <1>9, <2>3
    <3> QED
      BY <1>1, <2>3, <3>1 DEF VoteInv, Remembered
  <2> QED
    BY <1>1, <2>1, <2>2, <2>3
<1>12. OneVote'
  <2> SUFFICES ASSUME NEW a \in statements', NEW b \in statements',
                      a.witness = b.witness, a.witness \notin forgetful,
                      a.subject = b.subject, a.epoch = b.epoch
               PROVE  a.inc = b.inc /\ a.token = b.token
    BY <1>1 DEF OneVote
  <2>1. CASE a \in statements /\ b \in statements
    BY <2>1 DEF VoteInv, OneVote
  <2>2. CASE a = new /\ b \in statements
    BY <1>5, <1>10, <2>2
  <2>3. CASE a \in statements /\ b = new
    BY <1>5, <1>10, <2>3
  <2> QED
    BY <1>1, <2>1, <2>2, <2>3
<1>13. Numbered'
  <2> SUFFICES ASSUME NEW a \in statements', a.witness \notin forgetful
               PROVE  /\ a.seq =< lastSeq'[a.witness]
                      /\ \E b \in statements' : /\ b.witness = a.witness
                                                /\ b.seq = lastSeq'[a.witness]
                      /\ \A b \in statements' : b.witness = a.witness /\ b.seq = a.seq => b = a
    BY <1>1 DEF Numbered
  <2>1. \A b \in statements : b.witness = w /\ w \notin forgetful => b.seq < seq
    <3>1. \A b \in statements : b.witness = w /\ w \notin forgetful => b.seq =< lastSeq[w]
      BY DEF VoteInv, Numbered
    <3> QED
      BY <1>3, <1>9, <3>1 DEF seq
  <2>2. CASE a.witness = w
    <3>1. a.seq =< seq
      BY <1>1, <1>3, <1>5, <1>9, <2>1, <2>2
    <3>2. new \in statements' /\ new.witness = w /\ new.seq = seq
      BY <1>1, <1>5
    <3>3. ASSUME NEW b \in statements', b.witness = a.witness, b.seq = a.seq PROVE b = a
      <4>1. CASE a \in statements /\ b \in statements
        BY <3>3, <4>1 DEF VoteInv, Numbered
      <4>2. CASE a \in statements /\ b = new
        BY <1>3, <1>5, <1>9, <2>1, <2>2, <3>3, <4>2
      <4>3. CASE a = new /\ b \in statements
        BY <1>3, <1>5, <1>9, <2>1, <2>2, <3>3, <4>3
      <4> QED
        BY <1>1, <4>1, <4>2, <4>3
    <3> QED
      BY <1>8, <2>2, <3>1, <3>2, <3>3
  <2>3. CASE a.witness # w
    <3>1. a \in statements /\ lastSeq'[a.witness] = lastSeq[a.witness]
      BY <1>1, <1>5, <1>8, <1>9, <2>3
    <3>2. \A b \in statements' : b.witness = a.witness => b \in statements
      BY <1>1, <1>5, <2>3
    <3> QED
      BY <1>1, <3>1, <3>2 DEF VoteInv, Numbered
  <2> QED
    BY <2>2, <2>3
<1> QED
  BY <1>7, <1>11, <1>12, <1>13 DEF VoteInv

\* So does every step.
LEMMA VoteNext == VoteInv /\ [Next]_vars => VoteInv'
PROOF
<1> SUFFICES ASSUME VoteInv, [Next]_vars PROVE VoteInv'
  OBVIOUS
<1>0. now \in Nat
  BY DEF VoteInv, TypeInv
<1>1. ASSUME NEW w \in Witnesses, Connect(w) \/ Disconnect(w) PROVE VoteInv'
  BY <1>0, <1>1, VoteQuiet DEF Connect, Disconnect
<1>2. ASSUME NEW w \in Witnesses, Restart(w) PROVE VoteInv'
  BY <1>2, VoteRestart
<1>3. ASSUME NEW w \in Witnesses, NEW c \in Claims, NEW step \in 1..now, Attest(w, c, step)
      PROVE  VoteInv'
  BY <1>3, VoteAttest
<1>4. CASE Tick
  BY <1>0, <1>4, VoteQuiet DEF Tick
<1>5. CASE Observe \/ UNCHANGED vars
  BY <1>0, <1>5, VoteQuiet DEF Observe, vars
<1> QED
  BY <1>1, <1>2, <1>3, <1>4, <1>5 DEF Next

\* A witness that keeps running gives its vote for an epoch to one incarnation and
\* token, and numbers its statements apart.
THEOREM VotesRemembered == Spec => []VoteInv
  BY VoteInit, VoteNext, PTL DEF Spec

-----------------------------------------------------------------------------
(* Quorums meet. *)

\* What makes a claim provable: a quorum of the profile, each with a statement for it.
LEMMA ProvableMeans ==
  ASSUME VoteInv, NEW c, Provable(c)
  PROVE  \E Q \in SUBSET Profile.witnesses :
           /\ ~(Cardinality(Q) < RequiredWitnesses(Profile))
           /\ \A w \in Q : \E a \in statements :
                /\ a.witness = w /\ a.subject = c.subject /\ a.epoch = c.epoch
                /\ a.inc = c.inc /\ a.token = c.token
PROOF
<1>1. PICK useful \in SUBSET statements :
        "Current" \in Verdicts(c, Profile, useful, {}, Profile.generation, now)
  BY DEF Provable
<1>2. PICK f \in Selections(useful) :
        Judge(c, Profile, {f[w] : w \in DOMAIN f}, {}, now) = "Current"
  BY <1>1 DEF Verdicts
<1> DEFINE sel == {f[w] : w \in DOMAIN f}
           Q   == Supporters(c, Profile, sel, now)
<1>3. ~(Cardinality(Q) < RequiredWitnesses(Profile))
  BY <1>2, CurrentMeans
<1>4. sel \subseteq useful
  BY DEF Selections
<1>5. \A w \in Q : \E a \in sel : a.witness = w /\ StatementKind(c, Profile, a, now) = "support"
  BY DEF Supporters
<1> HIDE DEF sel, Q
<1>6. ASSUME NEW w \in Q
      PROVE  /\ w \in Profile.witnesses
             /\ \E a \in statements :
                  /\ a.witness = w /\ a.subject = c.subject /\ a.epoch = c.epoch
                  /\ a.inc = c.inc /\ a.token = c.token
  <2>1. PICK a \in sel : a.witness = w /\ StatementKind(c, Profile, a, now) = "support"
    BY <1>5
  <2>2. a \in statements
    BY <1>4, <2>1
  <2> QED
    BY <2>1, <2>2, SupportMeans
<1> QED
  BY <1>3, <1>6

\* Two quorums have more witnesses in common than the set F has, if F is smaller
\* than the overlap.
LEMMA QuorumsMeet ==
  ASSUME NEW Q \in SUBSET Profile.witnesses, NEW R \in SUBSET Profile.witnesses,
         ~(Cardinality(Q) < RequiredWitnesses(Profile)),
         ~(Cardinality(R) < RequiredWitnesses(Profile)),
         NEW F \in SUBSET Witnesses, Cardinality(F) < Overlap
  PROVE  \E w \in Q \cap R : w \notin F
PROOF
<1> DEFINE P == Profile.witnesses
           n == RequiredWitnesses(Profile)
<1>1. P \subseteq Witnesses /\ Profile.threshold \in Nat
  BY ProfileAssumption DEF QuorumProfile
<1>2. /\ IsFiniteSet(P) /\ IsFiniteSet(Q) /\ IsFiniteSet(R) /\ IsFiniteSet(F)
      /\ IsFiniteSet(Q \cup R) /\ IsFiniteSet(Q \cap R)
  BY <1>1, WitnessesAssumption, FS_Subset
<1>3. /\ Cardinality(P) \in Nat /\ Cardinality(Q) \in Nat /\ Cardinality(R) \in Nat
      /\ Cardinality(F) \in Nat /\ Cardinality(Q \cup R) \in Nat /\ Cardinality(Q \cap R) \in Nat
  BY <1>2, FS_CardinalityType
<1>4. n \in Int
  BY <1>1, <1>3 DEF RequiredWitnesses
<1>5. Cardinality(Q \cup R) = Cardinality(Q) + Cardinality(R) - Cardinality(Q \cap R)
  BY <1>2, FS_Union
<1>6. Cardinality(Q \cup R) =< Cardinality(P)
  BY <1>2, FS_Subset
<1>7. Cardinality(F) < 2 * n - Cardinality(P)
  BY DEF Overlap
<1>8. Cardinality(F) < Cardinality(Q \cap R)
  <2> HIDE DEF P, n
  <2>1. Cardinality(Q) >= n /\ Cardinality(R) >= n
    BY <1>3, <1>4 DEF n
  <2> QED
    BY <1>3, <1>4, <1>5, <1>6, <1>7, <2>1
<1>9. ASSUME Q \cap R \subseteq F PROVE FALSE
  <2>1. Cardinality(Q \cap R) =< Cardinality(F)
    BY <1>2, <1>9, FS_Subset
  <2> QED
    BY <1>3, <1>8, <2>1
<1> QED
  BY <1>9

\* Of two rivals for an epoch at most one is provable.
LEMMA RivalsNotBoth == VoteInv => VotesExclusive
PROOF
<1> SUFFICES ASSUME VoteInv, Cardinality(forgetful) < Overlap,
                    NEW c \in Claims, NEW d \in Claims, Rivals(c, d),
                    Provable(c), Provable(d)
             PROVE  FALSE
  BY DEF VotesExclusive
<1>1. PICK Q \in SUBSET Profile.witnesses :
        /\ ~(Cardinality(Q) < RequiredWitnesses(Profile))
        /\ \A w \in Q : \E a \in statements :
             /\ a.witness = w /\ a.subject = c.subject /\ a.epoch = c.epoch
             /\ a.inc = c.inc /\ a.token = c.token
  BY ProvableMeans
<1>2. PICK R \in SUBSET Profile.witnesses :
        /\ ~(Cardinality(R) < RequiredWitnesses(Profile))
        /\ \A w \in R : \E a \in statements :
             /\ a.witness = w /\ a.subject = d.subject /\ a.epoch = d.epoch
             /\ a.inc = d.inc /\ a.token = d.token
  BY ProvableMeans
<1>3. forgetful \in SUBSET Witnesses
  BY DEF VoteInv, TypeInv
<1>4. PICK w \in Q \cap R : w \notin forgetful
  BY <1>1, <1>2, <1>3, QuorumsMeet
<1>5. PICK a \in statements : /\ a.witness = w /\ a.subject = c.subject /\ a.epoch = c.epoch
                              /\ a.inc = c.inc /\ a.token = c.token
  BY <1>1, <1>4
<1>6. PICK b \in statements : /\ b.witness = w /\ b.subject = d.subject /\ b.epoch = d.epoch
                              /\ b.inc = d.inc /\ b.token = d.token
  BY <1>2, <1>4
<1>7. c.subject = d.subject /\ c.epoch = d.epoch /\ c # d
  BY DEF Rivals
<1>8. a.inc = b.inc /\ a.token = b.token
  BY <1>4, <1>5, <1>6, <1>7 DEF VoteInv, OneVote
<1>9. c.inc = d.inc /\ c.token = d.token
  BY <1>5, <1>6, <1>8
<1>10. c \in Claim /\ d \in Claim
  BY WitnessConstants
<1> QED
  BY <1>7, <1>9, <1>10 DEF Claim

\* Whoever asks which witness in which order, and whatever is presented late, two
\* claims for one epoch of a subject are both proven only if as many witnesses as two
\* quorums must share have restarted.
THEOREM ExclusiveVotes == Spec => []VotesExclusive
  BY VotesRemembered, RivalsNotBoth, PTL

-----------------------------------------------------------------------------
(* The order of a bundle. *)

\* A witness that forgot nothing has one newest statement.
LEMMA OneNewest ==
  ASSUME VoteInv, forgetful = {}, NEW w \in Speakers(statements)
  PROVE  \E a : Newest(statements, w) = {a}
PROOF
<1>1. PICK a \in statements : a.witness = w
  BY DEF Speakers
<1>2. PICK b \in statements : b.witness = w /\ b.seq = lastSeq[w]
  BY <1>1 DEF VoteInv, Numbered
<1>3. \A d \in statements : d.witness = w => d.seq =< b.seq
  BY <1>2 DEF VoteInv, Numbered
<1>4. \A d \in statements : d.witness = w /\ b.seq =< d.seq => d = b
  <2> SUFFICES ASSUME NEW d \in statements, d.witness = w, b.seq =< d.seq PROVE d = b
    OBVIOUS
  <2>1. b.seq \in Nat /\ d.seq \in Nat
    BY DEF VoteInv, TypeInv, Statement
  <2>2. d.seq =< b.seq
    BY <1>3
  <2>3. d.seq = b.seq
    BY <2>1, <2>2
  <2> QED
    BY <1>2, <2>3 DEF VoteInv, Numbered
<1>5. ~LexLess(Key(b), Key(b))
  <2>1. b.epoch \in Nat /\ b.inc \in Nat /\ b.gen \in Nat /\ b.token \in Nat
    BY DEF VoteInv, TypeInv, Statement
  <2>2. \A i \in 1..4 : Key(b)[i] \in Nat
    BY <2>1 DEF Key
  <2> HIDE DEF Key
  <2> QED
    BY <2>2 DEF LexLess
<1> DEFINE said == {d \in statements : d.witness = w}
           last == {d \in said : \A e \in said : e.seq =< d.seq}
<1>6. last = {b}
  BY <1>2, <1>3, <1>4
<1>7. Newest(statements, w) = {d \in last : \A e \in last : ~LexLess(Key(e), Key(d))}
  BY DEF Newest
<1> HIDE DEF last
<1>8. Newest(statements, w) = {b}
  BY <1>5, <1>6, <1>7
<1> QED
  BY <1>8

\* While no witness restarts, every order of the bundle that coordinators pool has
\* the same verdict.
THEOREM OrderImmaterial == Spec => []VerdictIndependentOfOrder
PROOF
<1>1. VoteInv => VerdictIndependentOfOrder
  BY OneNewest, OneVerdict DEF VerdictIndependentOfOrder
<1> QED
  BY <1>1, VotesRemembered, PTL

=============================================================================
