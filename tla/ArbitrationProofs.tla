------------------------- MODULE ArbitrationProofs --------------------------
(***************************************************************************)
(* What decide_authority guarantees among competing claims, proved for     *)
(* every set of claims and every evidence, liveness and fence history.     *)
(* The policy's switches that a guarantee needs are named in the theorem.  *)
(***************************************************************************)
EXTENDS Arbitration, FiniteSetTheorems, WellFoundedInduction, TLAPS

-----------------------------------------------------------------------------
(* The contest. *)

\* The contender with the lowest claim id exists.
LEMMA FirstInSet ==
  ASSUME NEW C, C # {}, \A c \in C : c.claim \in Nat
  PROVE  (CHOOSE c \in C : \A d \in C : c.claim =< d.claim) \in C
PROOF
<1> DEFINE N == {c.claim : c \in C}
<1>1. N \subseteq Nat /\ N # {}
  OBVIOUS
<1> HIDE DEF N
<1>2. PICK n \in N : \A m \in N : ~(<<m, n>> \in OpToRel(<, Nat))
  BY <1>1, WFMin, NatLessThanWellFounded
<1>3. \A m \in N : n \in Nat /\ m \in Nat /\ ~(m < n)
  BY <1>1, <1>2 DEF OpToRel
<1>4. \A m \in N : n =< m
  BY <1>3
<1>5. PICK c \in C : c.claim = n
  BY DEF N
<1>6. \A d \in C : c.claim =< d.claim
  BY <1>4, <1>5 DEF N
<1> QED
  BY <1>6

Exclusive(r, competing) ==
  {c \in Contenders(r, competing) : c.mode = "ExclusiveMutation"}

\* A claim wins the contest exactly when no exclusive contender stops it, none is its
\* twin, and the policy lets claims that overlap pass each other at all.
LEMMA ContestMeans ==
  ASSUME NEW r, NEW competing, \A c \in competing : c.claim \in Nat
  PROVE  Contest(r, competing) = "Authoritative" <=>
           /\ \A c \in Exclusive(r, competing) : Obstacle(r, c) = "none" /\ Twin(r, c) = "none"
           /\ Contenders(r, competing) = {} \/ Policy.allowNonOverlapping
PROOF
<1> DEFINE X == Exclusive(r, competing)
           B == {c \in X : Obstacle(r, c) # "none"}
           T == {c \in X : Twin(r, c) # "none"}
           First(C) == CHOOSE c \in C : \A d \in C : c.claim =< d.claim
<1>1. Contest(r, competing) =
        IF B # {} THEN Obstacle(r, First(B))
        ELSE IF T # {} THEN Twin(r, First(T))
        ELSE IF Contenders(r, competing) # {} /\ ~Policy.allowNonOverlapping THEN "Conflict"
        ELSE "Authoritative"
  BY DEF Contest, Exclusive
<1>2. \A c : Obstacle(r, c) # "Authoritative" /\ Twin(r, c) # "Authoritative"
  BY DEF Obstacle, Twin
<1>3. (\A c \in X : Obstacle(r, c) = "none" /\ Twin(r, c) = "none") <=> B = {} /\ T = {}
  OBVIOUS
<1> HIDE DEF B, T, X, First
<1> QED
  BY <1>1, <1>2, <1>3 DEF X

\* Only an exclusive claim with current evidence that wins the contest is authoritative.
LEMMA AuthoritativeMeans ==
  ASSUME NEW r \in AuthorityRequest, NEW s, NEW e \in EvidenceStates, NEW competing,
         Verdict(r, s, e, competing) = "Authoritative"
  PROVE  r.mode = "ExclusiveMutation" /\ Contest(r, competing) = "Authoritative"
PROOF
<1>1. r.mode \in Modes
  BY DEF AuthorityRequest
<1>2. Unproven(r, e) # "Authoritative"
  BY DEF Unproven, EvidenceStates
<1> QED
  BY <1>1, <1>2 DEF Verdict, Modes

-----------------------------------------------------------------------------
(* The view. *)

\* A registry state as far as the fields go.
Shaped(s) ==
  s = [domains |-> s.domains, grants |-> s.grants, ext |-> s.ext, fencedInc |-> s.fencedInc,
       fencedEpoch |-> s.fencedEpoch, frecs |-> s.frecs, marks |-> s.marks,
       openBoots |-> s.openBoots, tok |-> s.tok, gid |-> s.gid, inc |-> s.inc,
       boot |-> s.boot, ahead |-> s.ahead]

ViewInv ==
  /\ claims \subseteq Offers
  /\ evidence \in [{r.claim : r \in Offers} -> EvidenceStates]
  /\ Shaped(tables)
  /\ tables.grants = {}

\* The history of fences still has every fence that was made.
HistoryKept ==
  /\ IsFiniteSet(tables.frecs)
  /\ tables.fencedInc \subseteq {f.inc : f \in tables.frecs}
  /\ tables.fencedEpoch \subseteq {<<f.domain, f.epoch>> : f \in tables.frecs}

\* The view starts empty.
LEMMA ViewInit == Init => ViewInv /\ HistoryKept
PROOF
<1> SUFFICES ASSUME Init PROVE ViewInv /\ HistoryKept
  OBVIOUS
<1>1. claims \subseteq Offers /\ evidence \in [{r.claim : r \in Offers} -> EvidenceStates]
  BY DEF Init, EvidenceStates
<1>2. PICK t : tables = [Blank EXCEPT !.tok = t]
  BY DEF Init
<1>3. /\ Shaped(tables) /\ tables.grants = {} /\ tables.frecs = {}
      /\ tables.fencedInc = {} /\ tables.fencedEpoch = {}
  BY <1>2 DEF Blank, Shaped
<1> QED
  BY <1>1, <1>3, FS_EmptySet DEF ViewInv, HistoryKept

\* A fence keeps the view in order, and its history while the fence table has room.
LEMMA ViewFence ==
  ASSUME ViewInv, NEW r \in claims, FenceClaim(r)
  PROVE  /\ ViewInv'
         /\ (HistoryKept /\ MaxFences \in Nat /\ MaxFences =< MaxFenceRecords) => HistoryKept'
PROOF
<1> DEFINE rec == [kind |-> "Fence", token |-> tables.tok + 1, domain |-> r.domain,
                   scope |-> r.scope, epoch |-> r.epoch, inc |-> r.inc]
           f   == [token |-> tables.tok + 1, domain |-> r.domain, epoch |-> r.epoch,
                   inc |-> r.inc]
<1>1. /\ Cardinality(tables.frecs) < MaxFences /\ tables' = Apply(tables, rec)
      /\ claims' = claims /\ evidence' = evidence
  BY DEF FenceClaim
<1>2. Apply(tables, rec) = ApplyFence(tables, rec)
  BY Zenon DEF Apply
<1>3. rec.inc = r.inc /\ rec.domain = r.domain /\ rec.epoch = r.epoch
      /\ f = [token |-> rec.token, domain |-> rec.domain, epoch |-> rec.epoch, inc |-> rec.inc]
  OBVIOUS
<1> HIDE DEF rec, f
<1>4. /\ Shaped(tables') /\ tables'.grants = tables.grants
      /\ tables'.frecs = Trimmed(tables) \cup {f}
      /\ tables'.fencedInc \subseteq tables.fencedInc \cup {r.inc}
      /\ tables'.fencedEpoch \subseteq tables.fencedEpoch \cup {<<r.domain, r.epoch>>}
  <2> DEFINE ext == [e \in Extents |->
                       IF e \in rec.scope
                       THEN [hw |-> rec.token,
                             owner |-> IF rec.inc # 0 THEN rec.inc ELSE tables.ext[e].owner]
                       ELSE tables.ext[e]]
             I   == IF rec.inc # 0 THEN AddBounded(tables.fencedInc, rec.inc)
                    ELSE tables.fencedInc
             E   == IF rec.epoch # 0
                    THEN AddBounded(tables.fencedEpoch, <<rec.domain, rec.epoch>>)
                    ELSE tables.fencedEpoch
  <2>1. tables' = [tables EXCEPT !.tok = Raise(tables.tok, rec.token), !.ext = ext,
                     !.fencedInc = I, !.fencedEpoch = E, !.frecs = Trimmed(tables) \cup {f}]
    BY <1>1, <1>2, <1>3, Zenon DEF ApplyFence
  <2>2. I \subseteq tables.fencedInc \cup {r.inc}
    BY <1>3 DEF AddBounded
  <2>3. E \subseteq tables.fencedEpoch \cup {<<r.domain, r.epoch>>}
    BY <1>3 DEF AddBounded
  <2> HIDE DEF ext, I, E
  <2>4. Shaped(tables)
    BY DEF ViewInv
  <2> QED
    BY <2>1, <2>2, <2>3, <2>4 DEF Shaped
<1>5. ViewInv'
  BY <1>1, <1>4 DEF ViewInv
<1>6. ASSUME HistoryKept, MaxFences \in Nat, MaxFences =< MaxFenceRecords PROVE HistoryKept'
  <2>1. Cardinality(tables.frecs) \in Nat /\ MaxFenceRecords \in Nat
    BY <1>6, FS_CardinalityType, LimitsAssumption DEF HistoryKept
  <2>2. Trimmed(tables) = tables.frecs
    BY <1>1, <1>6, <2>1 DEF Trimmed
  <2>3. IsFiniteSet(tables'.frecs)
    BY <1>4, <1>6, <2>2, FS_AddElement DEF HistoryKept
  <2>4. f.inc = r.inc /\ f.domain = r.domain /\ f.epoch = r.epoch
    BY DEF f
  <2>5. tables'.fencedInc \subseteq {g.inc : g \in tables'.frecs}
    BY <1>4, <1>6, <2>2, <2>4 DEF HistoryKept
  <2>6. tables'.fencedEpoch \subseteq {<<g.domain, g.epoch>> : g \in tables'.frecs}
    BY <1>4, <1>6, <2>2, <2>4 DEF HistoryKept
  <2> QED
    BY <2>3, <2>5, <2>6 DEF HistoryKept
<1> QED
  BY <1>5, <1>6

\* So does every step.
LEMMA ViewNext ==
  ASSUME ViewInv, [Next]_vars
  PROVE  /\ ViewInv'
         /\ (HistoryKept /\ MaxFences \in Nat /\ MaxFences =< MaxFenceRecords) => HistoryKept'
PROOF
<1>1. ASSUME NEW r \in Offers, Appear(r) PROVE ViewInv' /\ (HistoryKept => HistoryKept')
  BY <1>1 DEF Appear, ViewInv, HistoryKept
<1>2. ASSUME NEW r \in claims, NEW e \in EvidenceStates, Reassess(r, e)
      PROVE  ViewInv' /\ (HistoryKept => HistoryKept')
  BY <1>2 DEF Reassess, ViewInv, HistoryKept
<1>3. ASSUME NEW r \in claims, Stop(r) PROVE ViewInv' /\ (HistoryKept => HistoryKept')
  BY <1>3 DEF Stop, ViewInv, HistoryKept
<1>4. CASE UNCHANGED vars
  BY <1>4 DEF vars, ViewInv, HistoryKept
<1> QED
  BY <1>1, <1>2, <1>3, <1>4, ViewFence DEF Next

\* The claims and verdicts of the view are those the arbiter was built for.
THEOREM Viewed == Spec => []ViewInv
PROOF
<1>1. ViewInv /\ [Next]_vars => ViewInv'
  BY ViewNext
<1> QED
  BY <1>1, ViewInit, PTL DEF Spec

-----------------------------------------------------------------------------
(* Who competes with whom. *)

Seen(q) ==
  [claim |-> q.claim, domain |-> q.domain, scope |-> q.scope, epoch |-> q.epoch,
   inc |-> q.inc, token |-> q.token, mode |-> q.mode, evidence |-> evidence[q.claim],
   active |-> q.claim \in active]

\* A claim that is about is a well-formed request with an evidence state.
LEMMA RequestTyped ==
  ASSUME ViewInv, NEW r \in claims
  PROVE  /\ r \in AuthorityRequest /\ r \in Offers
         /\ r.claim \in Nat /\ r.epoch \in Nat /\ r.inc \in Nat /\ r.token \in Nat
         /\ evidence[r.claim] \in EvidenceStates
PROOF
<1>1. r \in Offers
  BY DEF ViewInv
<1>2. r \in AuthorityRequest
  BY <1>1, OffersAssumption
<1>3. evidence[r.claim] \in EvidenceStates
  BY <1>1 DEF ViewInv
<1> QED
  BY <1>1, <1>2, <1>3 DEF AuthorityRequest

\* The contenders of a request are the claims that overlap it, as the view has them.
LEMMA CompetingMeans ==
  ASSUME ViewInv, NEW r \in claims
  PROVE  /\ \A c \in Competing(r) : c.claim \in Nat
         /\ \A c \in Contenders(r, Competing(r)) :
              \E q \in claims : Overlap(r, q) /\ c = Seen(q)
         /\ \A q \in claims : Overlap(r, q) => Seen(q) \in Contenders(r, Competing(r))
PROOF
<1>1. Competing(r) = {Seen(q) : q \in claims \ {r}}
  BY DEF Competing, Seen
<1>2. \A q \in claims : Seen(q).claim = q.claim /\ Seen(q).scope = q.scope
  BY DEF Seen
<1>3. \A q \in claims : q.claim \in Nat
  BY RequestTyped
<1>4. \A q \in claims : q # r => q.claim # r.claim
  <2>1. \A q \in claims : q \in Offers
    BY RequestTyped
  <2> QED
    BY <2>1, OffersAssumption
<1>5. ASSUME NEW c \in Contenders(r, Competing(r))
      PROVE  \E q \in claims : Overlap(r, q) /\ c = Seen(q)
  <2>1. c \in Competing(r) /\ c.scope \cap r.scope # {}
    BY DEF Contenders
  <2>2. PICK q \in claims : q # r /\ c = Seen(q)
    BY <1>1, <2>1
  <2> QED
    BY <1>2, <2>1, <2>2 DEF Overlap
<1>6. ASSUME NEW q \in claims, Overlap(r, q)
      PROVE  Seen(q) \in Contenders(r, Competing(r))
  <2>1. q # r /\ q.scope \cap r.scope # {}
    BY <1>6 DEF Overlap
  <2> QED
    BY <1>1, <1>2, <1>4, <2>1 DEF Contenders
<1> QED
  BY <1>1, <1>2, <1>3, <1>5, <1>6

\* Every exclusive claim that an authoritative one overlaps has a lower epoch.
LEMMA OthersAreLower ==
  ASSUME ViewInv, Policy.equalEpochFatal, NEW r \in claims, Decision(r) = "Authoritative",
         NEW q \in claims, Overlap(r, q), q.mode = "ExclusiveMutation"
  PROVE  r.mode = "ExclusiveMutation" /\ q.epoch < r.epoch
PROOF
<1>1. /\ r.mode = "ExclusiveMutation" /\ Contest(r, Competing(r)) = "Authoritative"
  BY RequestTyped, AuthoritativeMeans DEF Decision
<1> DEFINE c == Seen(q)
<1>2. c \in Exclusive(r, Competing(r))
  BY CompetingMeans DEF Exclusive, Seen
<1>3. Obstacle(r, c) = "none" /\ Twin(r, c) = "none"
  BY <1>1, <1>2, CompetingMeans, ContestMeans
<1>4. c.epoch = q.epoch /\ c.inc = q.inc
  BY DEF Seen
<1>5. q.epoch \in Nat /\ r.epoch \in Nat
  BY RequestTyped
<1> HIDE DEF c
<1>6. ~(c.epoch > r.epoch) /\ ~(c.epoch = r.epoch /\ c.inc # r.inc)
  BY <1>3 DEF Obstacle
<1>7. ~(c.epoch = r.epoch /\ c.inc = r.inc)
  BY <1>3 DEF Twin
<1> QED
  BY <1>1, <1>4, <1>5, <1>6, <1>7

\* MUTEX at the arbiter, where equal epochs conflict as they do by default: however
\* evidence, liveness and order came about, at most one of two claims that overlap is
\* authoritative, and of two that claim the same epoch neither.
THEOREM ArbiterMutex ==
  ASSUME Policy.equalEpochFatal
  PROVE  Spec => []NeverBoth
PROOF
<1>1. ViewInv => NeverBoth
  <2> SUFFICES ASSUME ViewInv, NEW r \in claims, NEW q \in claims, Overlap(r, q)
               PROVE  /\ ~(Decision(r) = "Authoritative" /\ Decision(q) = "Authoritative")
                      /\ (r.epoch = q.epoch /\ r.mode = q.mode) => Decision(r) # "Authoritative"
    BY DEF NeverBoth
  <2>1. Overlap(q, r)
    BY DEF Overlap
  <2>2. r.epoch \in Nat /\ q.epoch \in Nat
    BY RequestTyped
  <2>3. \A p \in claims : Decision(p) = "Authoritative" => p.mode = "ExclusiveMutation"
    BY RequestTyped, AuthoritativeMeans DEF Decision
  <2>4. ~(Decision(r) = "Authoritative" /\ Decision(q) = "Authoritative")
    <3> SUFFICES ASSUME Decision(r) = "Authoritative", Decision(q) = "Authoritative"
                 PROVE  FALSE
      OBVIOUS
    <3>1. q.epoch < r.epoch /\ r.epoch < q.epoch
      BY <2>1, <2>3, OthersAreLower
    <3> QED
      BY <2>2, <3>1
  <2>5. ASSUME r.epoch = q.epoch, r.mode = q.mode, Decision(r) = "Authoritative" PROVE FALSE
    <3>1. q.epoch < r.epoch
      BY <2>3, <2>5, OthersAreLower
    <3> QED
      BY <2>2, <2>5, <3>1
  <2> QED
    BY <2>4, <2>5
<1> QED
  BY <1>1, Viewed, PTL

\* An authoritative decision names every exclusive claim it overlaps, alive or not, so
\* that whoever acts on it can fence what it supersedes.
THEOREM AllSupersededNamed ==
  ASSUME Policy.equalEpochFatal, Policy.fenceLower
  PROVE  Spec => []SupersededAreNamed
PROOF
<1>1. ViewInv => SupersededAreNamed
  <2> SUFFICES ASSUME ViewInv, NEW r \in claims, Decision(r) = "Authoritative",
                      NEW q \in claims, Overlap(r, q), q.mode = "ExclusiveMutation"
               PROVE  q.claim \in MustFence(r, Competing(r))
    BY DEF SupersededAreNamed
  <2>1. q.epoch < r.epoch
    BY OthersAreLower
  <2>2. Seen(q) \in Contenders(r, Competing(r))
    BY CompetingMeans
  <2>3. /\ Seen(q).epoch = q.epoch /\ Seen(q).mode = "ExclusiveMutation"
        /\ Seen(q).claim = q.claim
    BY DEF Seen
  <2> QED
    BY <2>1, <2>2, <2>3 DEF MustFence
<1> QED
  BY <1>1, Viewed, PTL

-----------------------------------------------------------------------------
(* The arbiter does decide. *)

\* The policy serves claims like those on offer: they are well formed, made under its
\* generation, it does not ask them for a lease they lack, and it has a valid profile.
Serves ==
  /\ Policy.generation # 0 /\ ValidProfile(Profile) /\ Policy.allowNonOverlapping
  /\ \A r \in Offers : /\ WellFormed(r) /\ r.policyGen = Policy.generation
                       /\ Policy.requireLease => r.lease

\* Without a grant in the lineage no epoch is stale.
LEMMA NoGrantNoEpoch ==
  ASSUME NEW s, s.grants = {}, NEW d
  PROVE  MaxEpoch(s, d) = 0
PROOF
<1>1. {0} \cup {g.epoch : g \in {h \in s.grants : h.domain = d}} = {0}
  OBVIOUS
<1>2. Max({0}) = 0
  BY DEF Max
<1> QED
  BY <1>1, <1>2 DEF MaxEpoch

\* Under a policy that serves the claims, and while the history of fences keeps them
\* all, a proven claim of the highest epoch that was not fenced is authoritative as soon
\* as its lower contenders are not seen alive.
THEOREM HighestWins ==
  ASSUME Serves, MaxFences \in Nat, MaxFences =< MaxFenceRecords
  PROVE  Spec => []HighestProvenWins
PROOF
<1>1. ViewInv /\ HistoryKept /\ [Next]_vars => ViewInv' /\ HistoryKept'
  BY ViewNext
<1>2. ViewInv /\ HistoryKept => HighestProvenWins
  <2> SUFFICES ASSUME ViewInv, HistoryKept, NEW r \in claims,
                      r.mode = "ExclusiveMutation", evidence[r.claim] = "Current",
                      r.inc \notin {f.inc : f \in tables.frecs},
                      \A f \in tables.frecs : <<f.domain, f.epoch>> # <<r.domain, r.epoch>>,
                      \A e \in r.scope : tables.ext[e].hw = 0,
                      \A q \in claims : Overlap(r, q) =>
                        q.mode # "ExclusiveMutation"
                          \/ (q.epoch < r.epoch /\ q.claim \notin active)
               PROVE  Decision(r) = "Authoritative"
    BY DEF HighestProvenWins
  <2>1. r \in Offers /\ r.token \in Nat /\ r.epoch \in Nat
    BY RequestTyped
  <2>2. /\ WellFormed(r) /\ r.policyGen = Policy.generation
        /\ Policy.generation # 0 /\ ValidProfile(Profile) /\ Policy.allowNonOverlapping
        /\ Policy.requireLease => r.lease
    BY <2>1 DEF Serves
  <2>3. ~(r.epoch < MaxEpoch(tables, r.domain))
    BY <2>1, NoGrantNoEpoch DEF ViewInv
  <2>4. r.inc \notin tables.fencedInc /\ <<r.domain, r.epoch>> \notin tables.fencedEpoch
    BY DEF HistoryKept
  <2>5. ~(\E e \in r.scope : tables.ext[e].hw > r.token)
    BY <2>1
  <2>6. ASSUME NEW c \in Exclusive(r, Competing(r))
        PROVE  Obstacle(r, c) = "none" /\ Twin(r, c) = "none"
    <3>1. c \in Contenders(r, Competing(r)) /\ c.mode = "ExclusiveMutation"
      BY DEF Exclusive
    <3>2. PICK q \in claims : Overlap(r, q) /\ c = Seen(q)
      BY <3>1, CompetingMeans
    <3>3. /\ c.epoch = q.epoch /\ c.mode = q.mode /\ c.active = (q.claim \in active)
      BY <3>2 DEF Seen
    <3>4. c.epoch < r.epoch /\ ~c.active /\ c.epoch \in Nat
      BY <3>1, <3>2, <3>3, RequestTyped
    <3>5. ~(c.epoch > r.epoch) /\ c.epoch # r.epoch
      BY <2>1, <3>4
    <3> QED
      BY <3>4, <3>5 DEF Obstacle, Twin
  <2>7. Contest(r, Competing(r)) = "Authoritative"
    BY <2>2, <2>6, ContestMeans, CompetingMeans
  <2> QED
    BY <2>2, <2>3, <2>4, <2>5, <2>7 DEF Decision, Verdict
<1> QED
  BY <1>1, <1>2, ViewInit, PTL DEF Spec

=============================================================================
