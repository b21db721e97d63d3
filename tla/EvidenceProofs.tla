--------------------------- MODULE EvidenceProofs ---------------------------
(***************************************************************************)
(* Lemmas about assess_evidence, for every profile, claim and bundle: what *)
(* a current verdict says about the statements it rests on, which          *)
(* statements a bundle is judged by, and when only one verdict is possible.*)
(***************************************************************************)
EXTENDS Evidence, FiniteSetTheorems, TLAPS

-----------------------------------------------------------------------------
(* One statement. *)

\* A statement supports a claim exactly when it comes from a witness of the profile
\* and agrees with the claim in everything assess_evidence compares.
LEMMA SupportMeans ==
  ASSUME NEW c, NEW p, NEW a, NEW asOf
  PROVE  StatementKind(c, p, a, asOf) = "support" <=>
           /\ a.witness # NoWitness /\ a.witness \in p.witnesses
           /\ a.subject = c.subject /\ a.epoch = c.epoch
           /\ a.inc = c.inc /\ a.token = c.token
           /\ a.policyGen = p.generation /\ a.gen # 0
           /\ ~(a.validUntil < asOf) /\ ~(a.issuedAt > asOf)
           /\ a.support
  BY DEF StatementKind

\* Every statement raises one of six flags.
LEMMA KindIsOne ==
  ASSUME NEW c, NEW p, NEW a, NEW asOf
  PROVE  StatementKind(c, p, a, asOf)
           \in {"invalid", "unknown", "stale", "generation", "support", "dissent"}
  BY DEF StatementKind

\* A lease either binds or is given a state that is not Current.
LEMMA LeaseFaults ==
  ASSUME NEW c, NEW p, NEW l, NEW asOf
  PROVE  LeaseState(c, p, l, asOf) \in {"ok", "Invalid", "Stale", "Unknown"}
  BY DEF LeaseState

\* A lease binds when it names the claim and the step is in its window.
LEMMA LeaseBinds ==
  ASSUME NEW c, NEW p, NEW l, NEW asOf
  PROVE  LeaseState(c, p, l, asOf) = "ok" <=>
           /\ l.set /\ l.policyGen = p.generation /\ l.subject = c.subject
           /\ l.epoch = c.epoch /\ l.inc = c.inc /\ l.token = c.token
           /\ ~(asOf < l.validFrom) /\ ~(asOf > l.validUntil)
  BY DEF LeaseState

-----------------------------------------------------------------------------
(* One selection. *)

Supporters(c, p, selected, asOf) ==
  {a.witness : a \in {b \in selected : StatementKind(c, p, b, asOf) = "support"}}

\* FAIL CLOSED.  A selection is judged current exactly when its lease binds, every
\* statement in it supports the claim, and its witnesses are enough and diverse.
LEMMA CurrentMeans ==
  ASSUME NEW c, NEW p, NEW selected, NEW leases, NEW asOf
  PROVE  Judge(c, p, selected, leases, asOf) = "Current" <=>
           /\ \A l \in leases : LeaseState(c, p, l, asOf) = "ok"
           /\ \A a \in selected : StatementKind(c, p, a, asOf) = "support"
           /\ ~(Cardinality(Supporters(c, p, selected, asOf)) < RequiredWitnesses(p))
           /\ Diverse(p, Supporters(c, p, selected, asOf))
PROOF
<1> DEFINE K     == {StatementKind(c, p, a, asOf) : a \in selected}
           W     == Supporters(c, p, selected, asOf)
           fault == {LeaseState(c, p, l, asOf) : l \in leases} \ {"ok"}
           lack  == IF "stale" \in K THEN "Stale" ELSE "Unknown"
<1>1. Judge(c, p, selected, leases, asOf) =
        IF fault # {} THEN CHOOSE s \in fault : TRUE
        ELSE IF "dissent" \in K THEN "Conflict"
        ELSE IF "invalid" \in K THEN "Invalid"
        ELSE IF "generation" \in K THEN "Stale"
        ELSE IF Cardinality(W) < RequiredWitnesses(p) THEN lack
        ELSE IF ~Diverse(p, W) THEN "Unknown"
        ELSE IF K \cap {"stale", "unknown"} # {} THEN lack
        ELSE "Current"
  BY DEF Judge, Supporters
<1>2. fault = {} <=> \A l \in leases : LeaseState(c, p, l, asOf) = "ok"
  OBVIOUS
<1>3. fault # {} => (CHOOSE s \in fault : TRUE) # "Current"
  <2>1. \A s \in fault : s # "Current"
    BY LeaseFaults
  <2> QED
    BY <2>1
<1>4. K \subseteq {"invalid", "unknown", "stale", "generation", "support", "dissent"}
  BY KindIsOne
<1>5. (\A a \in selected : StatementKind(c, p, a, asOf) = "support") <=> K \subseteq {"support"}
  OBVIOUS
<1>6. K \subseteq {"support"} <=>
        /\ "dissent" \notin K /\ "invalid" \notin K /\ "generation" \notin K
        /\ K \cap {"stale", "unknown"} = {}
  BY <1>4
<1>7. lack # "Current"
  OBVIOUS
<1> HIDE DEF K, W, fault, lack
<1>8. Judge(c, p, selected, leases, asOf) = "Current" <=>
        /\ fault = {} /\ K \subseteq {"support"}
        /\ ~(Cardinality(W) < RequiredWitnesses(p)) /\ Diverse(p, W)
  BY <1>1, <1>3, <1>6, <1>7
<1> QED
  BY <1>2, <1>5, <1>8 DEF W

-----------------------------------------------------------------------------
(* Which statements a bundle is judged by. *)

\* The statement taken for a witness is one it made, and none of its is newer.
LEMMA NewestMeans ==
  ASSUME NEW B, NEW w, NEW a \in Newest(B, w)
  PROVE  /\ a \in B /\ a.witness = w
         /\ \A b \in B : b.witness = w => b.seq =< a.seq
  BY DEF Newest

\* A statement that is older than another of its witness does not change what is
\* taken for any witness, nor which witnesses spoke.
LEMMA OlderIsIgnored ==
  ASSUME NEW B, NEW a, NEW b \in B, b.witness = a.witness,
         \A d \in B \cup {a} : d.seq \in Nat, b.seq > a.seq
  PROVE  /\ Speakers(B \cup {a}) = Speakers(B)
         /\ \A w : Newest(B \cup {a}, w) = Newest(B, w)
PROOF
<1>1. Speakers(B \cup {a}) = Speakers(B)
  BY DEF Speakers
<1>2. ASSUME NEW w PROVE Newest(B \cup {a}, w) = Newest(B, w)
  <2> DEFINE Said(X) == {d \in X : d.witness = w}
             Last(X) == {d \in Said(X) : \A e \in Said(X) : e.seq =< d.seq}
  <2>1. Last(B \cup {a}) = Last(B)
    <3>1. ASSUME NEW d \in Last(B \cup {a}) PROVE d \in Last(B)
      <4>1. d # a
        OBVIOUS
      <4> QED
        BY <4>1
    <3>2. ASSUME NEW d \in Last(B) PROVE d \in Last(B \cup {a})
      <4>1. \A e \in Said(B) : e.seq =< d.seq
        OBVIOUS
      <4>2. a.witness = w => a.seq =< d.seq
        <5>1. a.witness = w => b \in Said(B)
          OBVIOUS
        <5>2. d.seq \in Nat /\ b.seq \in Nat /\ a.seq \in Nat
          OBVIOUS
        <5> QED
          BY <4>1, <5>1, <5>2
      <4> QED
        BY <4>1, <4>2
    <3> QED
      BY <3>1, <3>2
  <2>2. \A X : Newest(X, w) = {d \in Last(X) : \A e \in Last(X) : ~LexLess(Key(e), Key(d))}
    BY DEF Newest
  <2> HIDE DEF Last
  <2> QED
    BY <2>1, <2>2
<1> QED
  BY <1>1, <1>2

\* Such a statement leaves every selection as it was.
LEMMA OlderIsInert ==
  ASSUME NEW B, NEW a, NEW b \in B, b.witness = a.witness,
         \A d \in B \cup {a} : d.seq \in Nat, b.seq > a.seq
  PROVE  Selections(B \cup {a}) = Selections(B)
PROOF
<1>1. Speakers(B \cup {a}) = Speakers(B) /\ \A w : Newest(B \cup {a}, w) = Newest(B, w)
  BY OlderIsIgnored
<1>2. \A w : Newest(B, w) \subseteq B
  BY NewestMeans
<1>3. ASSUME NEW f \in [Speakers(B) -> B \cup {a}],
             \A w \in Speakers(B) : f[w] \in Newest(B, w)
      PROVE  f \in [Speakers(B) -> B]
  BY <1>2, <1>3
<1>4. [Speakers(B) -> B] \subseteq [Speakers(B) -> B \cup {a}]
  OBVIOUS
<1>5. ASSUME NEW f \in Selections(B \cup {a}) PROVE f \in Selections(B)
  <2>1. /\ f \in [Speakers(B) -> B \cup {a}]
        /\ \A w \in Speakers(B) : f[w] \in Newest(B \cup {a}, w)
    BY <1>1, <1>5 DEF Selections
  <2>2. \A w \in Speakers(B) : f[w] \in Newest(B, w)
    BY <1>1, <2>1
  <2> QED
    BY <1>3, <2>1, <2>2 DEF Selections
<1>6. ASSUME NEW f \in Selections(B) PROVE f \in Selections(B \cup {a})
  <2>1. f \in [Speakers(B) -> B \cup {a}] /\ \A w \in Speakers(B) : f[w] \in Newest(B, w)
    BY <1>4, <1>6 DEF Selections
  <2>2. \A w \in Speakers(B) : f[w] \in Newest(B \cup {a}, w)
    BY <1>1, <2>1
  <2> QED
    BY <1>1, <2>1, <2>2 DEF Selections
<1> QED
  BY <1>5, <1>6

-----------------------------------------------------------------------------
(* The verdicts on a bundle. *)

\* A bundle can be judged current only under a valid profile, by a selection that is.
LEMMA CurrentPossible ==
  ASSUME NEW c, NEW p, NEW B, NEW leases, NEW g, NEW asOf
  PROVE  "Current" \in Verdicts(c, p, B, leases, g, asOf) <=>
           /\ ValidProfile(p) /\ g = p.generation
           /\ \E f \in Selections(B) :
                Judge(c, p, {f[w] : w \in DOMAIN f}, leases, asOf) = "Current"
  BY DEF Verdicts

\* Where every witness that spoke has a single newest statement the sort has no
\* choice and the bundle has one verdict.
LEMMA OneVerdict ==
  ASSUME NEW c, NEW p, NEW B, NEW leases, NEW g, NEW asOf,
         \A w \in Speakers(B) : \E a : Newest(B, w) = {a}
  PROVE  Cardinality(Verdicts(c, p, B, leases, g, asOf)) = 1
PROOF
<1> DEFINE F == [w \in Speakers(B) |-> CHOOSE a : a \in Newest(B, w)]
<1>1. \A w \in Speakers(B) : Newest(B, w) = {F[w]}
  OBVIOUS
<1>2. F \in Selections(B)
  <2>1. \A w \in Speakers(B) : F[w] \in Newest(B, w)
    BY <1>1
  <2>2. \A w \in Speakers(B) : F[w] \in B
    BY <2>1, NewestMeans
  <2> QED
    BY <2>1, <2>2 DEF Selections
<1>3. ASSUME NEW f \in Selections(B) PROVE f = F
  <2>1. f \in [Speakers(B) -> B] /\ \A w \in Speakers(B) : f[w] \in Newest(B, w)
    BY DEF Selections
  <2>2. \A w \in Speakers(B) : f[w] = F[w]
    BY <1>1, <2>1
  <2> QED
    BY <2>1, <2>2
<1> HIDE DEF F
<1>4. Selections(B) = {F}
  BY <1>2, <1>3
<1>5. \E v : Verdicts(c, p, B, leases, g, asOf) = {v}
  <2> DEFINE J(f) == Judge(c, p, {f[w] : w \in DOMAIN f}, leases, asOf)
  <2>1. {J(f) : f \in Selections(B)} = {J(F)}
    <3> HIDE DEF J
    <3> QED
      BY <1>4
  <2>2. \/ Verdicts(c, p, B, leases, g, asOf) = {"Invalid"}
        \/ Verdicts(c, p, B, leases, g, asOf) = {"Stale"}
        \/ Verdicts(c, p, B, leases, g, asOf) = {J(f) : f \in Selections(B)}
    BY Zenon DEF Verdicts
  <2> HIDE DEF J
  <2> QED
    BY <2>1, <2>2
<1>6. PICK v : Verdicts(c, p, B, leases, g, asOf) = {v}
  BY <1>5
<1>7. Cardinality({v}) = 1
  BY FS_Singleton
<1> QED
  BY <1>6, <1>7

=============================================================================
