------------------------- MODULE CoordinatorProofs --------------------------
(***************************************************************************)
(* Theorems about Coordinator, for any number of coordinators, domains,    *)
(* witnesses, failures and restarts.                                       *)
(***************************************************************************)
EXTENDS Coordinator, FiniteSetTheorems, WellFoundedInduction, TLAPS

-----------------------------------------------------------------------------
(* Least and greatest elements. *)

\* A non-empty set of naturals has a least element.
LEMMA NatLeast ==
  ASSUME NEW T \in SUBSET Nat, T # {}
  PROVE  \E x \in T : \A y \in T : x =< y
  <1>1. \E x \in T : \A y \in T : ~ (<<y, x>> \in OpToRel(<, Nat))
    BY WFMin, NatLessThanWellFounded
  <1>2. PICK x \in T : \A y \in T : ~ (<<y, x>> \in OpToRel(<, Nat))
    BY <1>1
  <1>3. \A y \in T : x \in Nat /\ y \in Nat /\ ~(y < x)
    BY <1>2 DEF OpToRel
  <1> QED BY <1>3

\* Max is the greatest element of a non-empty bounded set of naturals.
LEMMA MaxBounded ==
  ASSUME NEW S \in SUBSET Nat, S # {}, NEW b \in Nat, \A x \in S : x =< b
  PROVE  Max(S) \in S /\ \A x \in S : x =< Max(S)
  <1> DEFINE U == {u \in Nat : \A x \in S : x =< u}
  <1>1. PICK u \in U : \A v \in U : u =< v
    <2>1. U \in SUBSET Nat /\ b \in U
      OBVIOUS
    <2> HIDE DEF U
    <2> QED BY <2>1, NatLeast
  <1>2. u \in S
    <2> SUFFICES ASSUME u \notin S PROVE FALSE
      OBVIOUS
    <2>1. PICK x \in S : TRUE
      OBVIOUS
    <2>2. u - 1 \in Nat /\ \A y \in S : y =< u - 1
      BY <2>1
    <2> QED BY <2>2, <1>1
  <1>3. \E m \in S : \A x \in S : m >= x
    BY <1>1, <1>2
  <1> QED BY <1>3 DEF Max

\* What holds of 0 and passes from each number to the next holds up to n.  The
\* property is given by the set of numbers that have it.
LEMMA UpTo ==
  ASSUME NEW n \in Nat, NEW P, 0 \in P, \A k \in 1..n : k - 1 \in P => k \in P
  PROVE  \A k \in 0..n : k \in P
  <1> DEFINE T == {k \in 0..n : k \notin P}
  <1> SUFFICES ASSUME T # {} PROVE FALSE
    OBVIOUS
  <1>1. T \in SUBSET Nat
    OBVIOUS
  <1>2. PICK x \in T : \A y \in T : x =< y
    <2> HIDE DEF T
    <2> QED BY <1>1, NatLeast
  <1>3. x \in 1..n /\ x - 1 \in 0..n /\ x \notin P
    OBVIOUS
  <1>4. x - 1 \in P
    BY <1>2, <1>3
  <1> QED BY <1>3, <1>4

-----------------------------------------------------------------------------
(* What one fence and one close do to the registry's tables. *)

\* apply() never lowers a counter, and raises it to the value it is given.
LEMMA RaiseDominates ==
  ASSUME NEW c \in Nat, NEW v \in Nat
  PROVE  Raise(c, v) \in Nat /\ c =< Raise(c, v) /\ v =< Raise(c, v)
  BY DEF Raise

\* Oldest picks one of the grants it is given.
LEMMA OldestInSet ==
  ASSUME NEW G \in SUBSET Grant, G # {}
  PROVE  Oldest(G) \in G
  <1> DEFINE ids == {g.id : g \in G}
  <1>1. ids \in SUBSET Nat /\ ids # {}
    BY DEF Grant
  <1>2. \E n \in ids : \A m \in ids : n =< m
    <2> HIDE DEF ids
    <2> QED BY <1>1, NatLeast
  <1>3. \E g \in G : \A h \in G : g.id =< h.id
    BY <1>2
  <1> QED BY <1>3 DEF Oldest

\* The grant h after the close of the one with this id.
Shut(h, id, state) ==
  IF h.id = id /\ IsOpen(h) THEN [h EXCEPT !.state = state] ELSE h

\* A fence moves the token, the extents and the fenced tables; it leaves the
\* lineage and the other counters alone.
LEMMA FenceIs ==
  ASSUME NEW s \in RegistryState, NEW r \in FenceRecords
  PROVE  /\ Apply(s, r) \in RegistryState
         /\ Apply(s, r).grants = s.grants /\ Apply(s, r).tok = Raise(s.tok, r.token)
         /\ Apply(s, r).gid = s.gid /\ Apply(s, r).inc = s.inc /\ Apply(s, r).boot = s.boot
         /\ Apply(s, r).fencedInc =
              IF r.inc # 0 THEN AddBounded(s.fencedInc, r.inc) ELSE s.fencedInc
  <1> DEFINE t == ApplyFence(s, r)
  <1>0. Apply(s, r) = t
    BY DEF Apply, FenceRecords
  <1>1. Raise(s.tok, r.token) \in Nat
    BY RaiseDominates DEF RegistryState, FenceRecords
  <1>2. /\ AddBounded(s.fencedInc, r.inc) \in SUBSET Nat
        /\ AddBounded(s.fencedEpoch, <<r.domain, r.epoch>>)
             \in SUBSET ((Domains \cup {NoDomain}) \X Nat)
    BY DEF AddBounded, RegistryState, FenceRecords
  <1>3. [e \in Extents |->
           IF e \in r.scope
           THEN [hw |-> r.token, owner |-> IF r.inc # 0 THEN r.inc ELSE s.ext[e].owner]
           ELSE s.ext[e]] \in [Extents -> Mark]
    BY DEF RegistryState, FenceRecords, Mark
  <1>4. Trimmed(s) \subseteq s.frecs
    BY DEF Trimmed
  <1>5. Trimmed(s) \cup
          {[token |-> r.token, domain |-> r.domain, epoch |-> r.epoch, inc |-> r.inc]}
            \in SUBSET FenceRecord
    BY <1>4 DEF RegistryState, FenceRecords, FenceRecord
  <1>6. t \in RegistryState
    BY <1>1, <1>2, <1>3, <1>5 DEF ApplyFence, RegistryState
  <1>7. /\ t.grants = s.grants /\ t.tok = Raise(s.tok, r.token)
        /\ t.gid = s.gid /\ t.inc = s.inc /\ t.boot = s.boot
        /\ t.fencedInc = IF r.inc # 0 THEN AddBounded(s.fencedInc, r.inc) ELSE s.fencedInc
    BY DEF ApplyFence, RegistryState
  <1> QED BY <1>0, <1>6, <1>7

\* A close changes the state of one open grant.
LEMMA CloseIs ==
  ASSUME NEW s \in RegistryState, NEW r \in CloseRecord
  PROVE  /\ Apply(s, r) \in RegistryState
         /\ Apply(s, r).grants = {Shut(h, r.id, r.state) : h \in s.grants}
         /\ Apply(s, r).tok = s.tok /\ Apply(s, r).gid = s.gid /\ Apply(s, r).inc = s.inc
         /\ Apply(s, r).boot = s.boot /\ Apply(s, r).fencedInc = s.fencedInc
  <1>0. Apply(s, r) = ApplyGrantClose(s, r)
    BY DEF Apply, CloseRecord
  <1>1. ASSUME NEW h \in s.grants PROVE Shut(h, r.id, r.state) \in Grant
    BY DEF Shut, RegistryState, Grant, CloseRecord, GrantStates
  <1>2. Apply(s, r) = [s EXCEPT !.grants = {Shut(h, r.id, r.state) : h \in s.grants}]
    BY <1>0 DEF ApplyGrantClose, Shut
  <1> QED BY <1>1, <1>2 DEF RegistryState

\* fence_scope() and close_grant() together.
LEMMA FenceAndCloseIs ==
  ASSUME NEW s \in RegistryState, NEW g \in Grant, NEW i \in Nat,
         NEW state \in GrantStates \ {"Open"}
  PROVE  /\ FenceAndClose(s, g, i, state) \in RegistryState
         /\ FenceAndClose(s, g, i, state).grants = {Shut(h, g.id, state) : h \in s.grants}
         /\ FenceAndClose(s, g, i, state).tok = s.tok + 1
         /\ FenceAndClose(s, g, i, state).gid = s.gid
         /\ FenceAndClose(s, g, i, state).inc = s.inc
         /\ FenceAndClose(s, g, i, state).boot = s.boot
         /\ FenceAndClose(s, g, i, state).fencedInc =
              IF i # 0 THEN AddBounded(s.fencedInc, i) ELSE s.fencedInc
  <1> DEFINE f == [kind |-> "Fence", token |-> s.tok + 1, domain |-> g.domain,
                   scope |-> g.scope, epoch |-> g.epoch, inc |-> i]
             c == [kind |-> "GrantClose", id |-> g.id, state |-> state]
             t == Apply(s, f)
  <1>0. FenceAndClose(s, g, i, state) = Apply(t, c)
    BY DEF FenceAndClose
  <1>1. f \in FenceRecords /\ c \in CloseRecord
    BY DEF FenceRecords, CloseRecord, RegistryState, Grant
  <1>2. f.token = s.tok + 1 /\ f.inc = i /\ c.id = g.id /\ c.state = state
    OBVIOUS
  <1>3. Raise(s.tok, s.tok + 1) = s.tok + 1
    BY DEF Raise, RegistryState
  <1> HIDE DEF f, c
  <1>4. /\ t \in RegistryState /\ t.grants = s.grants /\ t.tok = s.tok + 1 /\ t.gid = s.gid
        /\ t.inc = s.inc /\ t.boot = s.boot
        /\ t.fencedInc = IF i # 0 THEN AddBounded(s.fencedInc, i) ELSE s.fencedInc
    BY <1>1, <1>2, <1>3, FenceIs
  <1> HIDE DEF t
  <1> QED BY <1>0, <1>1, <1>2, <1>4, CloseIs

-----------------------------------------------------------------------------
(* The loop over the grants to fence. *)

\* One pass of the loop.
Pass(p, spared, state) ==
  LET g == Oldest(p.left)
  IN  [reg |-> FenceAndClose(p.reg, g, IF g.inc = spared THEN 0 ELSE g.inc, state),
       left |-> p.left \ {g}]

\* f holds the states the first n passes go through.
Looped(f, n, s, G, spared, state) ==
  f = [k \in 0..n |-> IF k = 0 THEN [reg |-> s, left |-> G] ELSE Pass(f[k - 1], spared, state)]

\* There is such a function for every number of passes.
LEMMA LoopExists ==
  ASSUME NEW n \in Nat, NEW s, NEW G, NEW spared, NEW state
  PROVE  \E f : Looped(f, n, s, G, spared, state)
  <1> DEFINE P == {k \in Nat : \E f : Looped(f, k, s, G, spared, state)}
  <1>1. 0 \in P
    <2>1. Looped([k \in 0..0 |-> [reg |-> s, left |-> G]], 0, s, G, spared, state)
      BY DEF Looped
    <2> QED BY <2>1
  <1>2. ASSUME NEW k \in 1..n, k - 1 \in P
        PROVE  k \in P
    <2>1. PICK f : Looped(f, k - 1, s, G, spared, state)
      BY <1>2
    <2> DEFINE h == [m \in 0..k |-> IF m = k THEN Pass(f[k - 1], spared, state) ELSE f[m]]
    <2>2. \A m \in 0..(k - 1) :
            f[m] = IF m = 0 THEN [reg |-> s, left |-> G] ELSE Pass(f[m - 1], spared, state)
      BY <2>1 DEF Looped
    <2>3. \A m \in 0..k :
            h[m] = IF m = 0 THEN [reg |-> s, left |-> G] ELSE Pass(h[m - 1], spared, state)
      <3> SUFFICES ASSUME NEW m \in 0..k
                   PROVE  h[m] = IF m = 0 THEN [reg |-> s, left |-> G]
                                 ELSE Pass(h[m - 1], spared, state)
        OBVIOUS
      <3>1. CASE m = 0
        <4>1. m \in 0..(k - 1) /\ m # k
          BY <3>1
        <4> QED BY <2>2, <3>1, <4>1
      <3>2. CASE m # 0
        <4>1. m - 1 \in 0..k /\ m - 1 # k
          BY <3>2
        <4>2. h[m - 1] = f[m - 1]
          BY <4>1
        <4>3. m # k => m \in 0..(k - 1)
          OBVIOUS
        <4> QED BY <2>2, <3>2, <4>2, <4>3
      <3> QED BY <3>1, <3>2
    <2>4. h = [m \in 0..k |-> h[m]]
      OBVIOUS
    <2> HIDE DEF h
    <2>5. Looped(h, k, s, G, spared, state)
      BY <2>3, <2>4 DEF Looped
    <2> QED BY <2>5
  <1> HIDE DEF P
  <1>3. \A k \in 0..n : k \in P
    BY <1>1, <1>2, UpTo
  <1> QED BY <1>3 DEF P

\* The loop of the code is the one these functions describe.
LEMMA LoopIs ==
  ASSUME NEW s, NEW G, Cardinality(G) \in Nat, NEW spared, NEW state
  PROVE  \E f : /\ Looped(f, Cardinality(G), s, G, spared, state)
                /\ FenceGrants(s, G, spared, state) = f[Cardinality(G)].reg
  <1> DEFINE after == CHOOSE g : Looped(g, Cardinality(G), s, G, spared, state)
  <1>1. \E f : Looped(f, Cardinality(G), s, G, spared, state)
    BY LoopExists
  <1>2. Looped(after, Cardinality(G), s, G, spared, state)
    BY <1>1, Zenon
  <1>3. FenceGrants(s, G, spared, state) = after[Cardinality(G)].reg
    BY DEF FenceGrants, Looped, Pass
  <1> QED BY <1>2, <1>3

\* What becomes of a grant when the open grants of G end.
Outcome(g, G, state) == IF g \in G THEN [g EXCEPT !.state = state] ELSE g

\* Grant ids identify the grants.
IdsIdentify(s) == \A g, h \in s.grants : g.id = h.id => g = h

\* The loop is entered with a set of open grants and ends them for good.
Ending(s, G, spared, state) ==
  /\ s \in RegistryState /\ IdsIdentify(s) /\ IsFiniteSet(s.fencedInc)
  /\ G \subseteq OpenGrants(s) /\ IsFiniteSet(G)
  /\ spared \in Nat /\ state \in GrantStates \ {"Open"}

\* The state after some passes: the grants that are no longer left have ended
\* and, as long as the table has room, their incarnations are fenced.
LoopInv(p, s, G, spared, state) ==
  /\ p.left \subseteq G
  /\ p.reg \in RegistryState
  /\ p.reg.gid = s.gid /\ p.reg.inc = s.inc /\ p.reg.boot = s.boot /\ s.tok =< p.reg.tok
  /\ p.reg.grants = {Outcome(g, G \ p.left, state) : g \in s.grants}
  /\ IsFiniteSet(p.reg.fencedInc) /\ s.fencedInc \subseteq p.reg.fencedInc
  /\ Cardinality(p.reg.fencedInc) < MaxFenceRecords =>
       \A g \in G \ p.left : g.inc \in p.reg.fencedInc \cup {0, spared}

\* A bounded table only grows, and a new entry is missing from it only when it
\* is full.
LEMMA AddBoundedIs ==
  ASSUME NEW S, IsFiniteSet(S), NEW x
  PROVE  /\ IsFiniteSet(AddBounded(S, x)) /\ S \subseteq AddBounded(S, x)
         /\ Cardinality(S) =< Cardinality(AddBounded(S, x))
         /\ Cardinality(AddBounded(S, x)) < MaxFenceRecords => x \in AddBounded(S, x)
  <1>2. Cardinality(S) \in Nat
    BY FS_CardinalityType
  <1>1. IsFiniteSet(S \cup {x}) /\ Cardinality(S) =< Cardinality(S \cup {x})
    <2>1. /\ IsFiniteSet(S \cup {x})
          /\ Cardinality(S \cup {x}) = IF x \in S THEN Cardinality(S) ELSE Cardinality(S) + 1
      BY FS_AddElement
    <2> QED BY <1>2, <2>1
  <1>3. CASE Cardinality(S) < MaxFenceRecords
    BY <1>1, <1>3 DEF AddBounded
  <1>4. CASE ~(Cardinality(S) < MaxFenceRecords)
    BY <1>2, <1>4 DEF AddBounded
  <1> QED BY <1>3, <1>4

\* One pass of the loop ends the oldest grant that is left.
LEMMA PassIs ==
  ASSUME NEW s, NEW G, NEW spared, NEW state, Ending(s, G, spared, state), NEW p,
         LoopInv(p, s, G, spared, state),
         p.left # {}, NEW q, q = Pass(p, spared, state)
  PROVE  LoopInv(q, s, G, spared, state) /\ \E g \in p.left : q.left = p.left \ {g}
  <1> DEFINE g == Oldest(p.left)
             i == IF g.inc = spared THEN 0 ELSE g.inc
             t == FenceAndClose(p.reg, g, i, state)
  <1>0. /\ s \in RegistryState /\ IdsIdentify(s) /\ G \subseteq OpenGrants(s)
        /\ spared \in Nat /\ state \in GrantStates \ {"Open"}
    BY DEF Ending
  <1>1. G \subseteq s.grants /\ s.grants \subseteq Grant
    BY <1>0 DEF OpenGrants, RegistryState
  <1>2. g \in p.left /\ g \in G /\ g \in Grant /\ g \in s.grants
    <2>1. p.left \in SUBSET Grant /\ p.left \subseteq G
      BY <1>1 DEF LoopInv
    <2>2. g \in p.left
      BY <2>1, OldestInSet
    <2> QED BY <1>1, <2>1, <2>2
  <1>3. q.reg = t /\ q.left = p.left \ {g}
    BY DEF Pass
  <1>4. i \in Nat /\ p.reg \in RegistryState
    BY <1>2 DEF Grant, LoopInv
  <1> HIDE DEF g, i
  <1>5. /\ t \in RegistryState /\ t.grants = {Shut(h, g.id, state) : h \in p.reg.grants}
        /\ t.tok = p.reg.tok + 1 /\ t.gid = p.reg.gid /\ t.inc = p.reg.inc
        /\ t.boot = p.reg.boot
        /\ t.fencedInc = IF i # 0 THEN AddBounded(p.reg.fencedInc, i) ELSE p.reg.fencedInc
    BY <1>0, <1>2, <1>4, FenceAndCloseIs
  <1> HIDE DEF t
  <1>6. q.left \subseteq G /\ G \ q.left = (G \ p.left) \cup {g}
    BY <1>2, <1>3 DEF LoopInv
  <1>7. /\ t.gid = s.gid /\ t.inc = s.inc /\ t.boot = s.boot /\ s.tok =< t.tok
    <2>1. p.reg.tok \in Nat /\ s.tok \in Nat
      BY <1>0, <1>4 DEF RegistryState
    <2>2. s.tok =< p.reg.tok /\ p.reg.gid = s.gid /\ p.reg.inc = s.inc /\ p.reg.boot = s.boot
      BY DEF LoopInv
    <2> QED BY <1>5, <2>1, <2>2
  <1>8. t.grants = {Outcome(h, G \ q.left, state) : h \in s.grants}
    <2>1. p.reg.grants = {Outcome(h, G \ p.left, state) : h \in s.grants}
      BY DEF LoopInv
    <2>2. ASSUME NEW h \in s.grants
          PROVE  Shut(Outcome(h, G \ p.left, state), g.id, state)
                   = Outcome(h, G \ q.left, state)
      <3>0. h \in Grant /\ IsOpen(g) /\ (h.id = g.id => h = g)
        BY <1>0, <1>1, <1>2 DEF OpenGrants, IdsIdentify
      <3>1. CASE h \in G \ p.left
        <4>1. Outcome(h, G \ p.left, state) = [h EXCEPT !.state = state]
          BY <3>1 DEF Outcome
        <4>2. Outcome(h, G \ q.left, state) = [h EXCEPT !.state = state]
          BY <1>6, <3>1 DEF Outcome
        <4>3. ~IsOpen([h EXCEPT !.state = state])
          BY <1>0, <3>0 DEF IsOpen, Grant
        <4> QED BY <4>1, <4>2, <4>3 DEF Shut
      <3>2. CASE h = g
        <4>1. Outcome(h, G \ p.left, state) = h
          BY <1>2, <3>2 DEF Outcome
        <4>2. Outcome(h, G \ q.left, state) = [h EXCEPT !.state = state]
          BY <1>6, <3>2 DEF Outcome
        <4> QED BY <3>0, <3>2, <4>1, <4>2 DEF Shut
      <3>3. CASE h \notin G \ p.left /\ h # g
        <4>1. Outcome(h, G \ p.left, state) = h /\ Outcome(h, G \ q.left, state) = h
          BY <1>6, <3>3 DEF Outcome
        <4> QED BY <3>0, <3>3, <4>1 DEF Shut
      <3> QED BY <3>1, <3>2, <3>3
    <2>3. t.grants = {Shut(h, g.id, state) : h \in p.reg.grants}
      BY <1>5
    <2>4. ASSUME NEW x \in t.grants
          PROVE  \E h \in s.grants : x = Outcome(h, G \ q.left, state)
      <3>1. PICK y \in p.reg.grants : x = Shut(y, g.id, state)
        BY <2>3
      <3>2. PICK h \in s.grants : y = Outcome(h, G \ p.left, state)
        BY <2>1
      <3> QED BY <2>2, <3>1, <3>2
    <2>5. ASSUME NEW h \in s.grants
          PROVE  Outcome(h, G \ q.left, state) \in t.grants
      <3>1. Outcome(h, G \ p.left, state) \in p.reg.grants
        BY <2>1
      <3>2. Shut(Outcome(h, G \ p.left, state), g.id, state) \in t.grants
        BY <2>3, <3>1
      <3> QED BY <2>2, <3>2
    <2> QED BY <2>4, <2>5
  <1>9. /\ IsFiniteSet(t.fencedInc) /\ p.reg.fencedInc \subseteq t.fencedInc
        /\ Cardinality(p.reg.fencedInc) =< Cardinality(t.fencedInc)
        /\ Cardinality(t.fencedInc) < MaxFenceRecords => i = 0 \/ i \in t.fencedInc
    <2>1. IsFiniteSet(p.reg.fencedInc)
      BY DEF LoopInv
    <2>2. Cardinality(p.reg.fencedInc) \in Nat
      BY <2>1, FS_CardinalityType
    <2>3. CASE i = 0
      BY <1>5, <2>1, <2>2, <2>3
    <2>4. CASE i # 0
      <3>1. t.fencedInc = AddBounded(p.reg.fencedInc, i)
        BY <1>5, <2>4
      <3> QED BY <2>1, <3>1, AddBoundedIs
    <2> QED BY <2>3, <2>4
  <1>10. ASSUME Cardinality(t.fencedInc) < MaxFenceRecords, NEW h \in G \ q.left
         PROVE  h.inc \in t.fencedInc \cup {0, spared}
    <2>1. CASE h = g
      BY <1>9, <1>10, <2>1 DEF i
    <2>2. CASE h # g
      <3>1. h \in G \ p.left
        BY <1>6, <2>2
      <3>2. Cardinality(p.reg.fencedInc) \in Nat /\ Cardinality(t.fencedInc) \in Nat
        BY <1>9, FS_CardinalityType DEF LoopInv
      <3>3. Cardinality(p.reg.fencedInc) < MaxFenceRecords
        BY <1>9, <1>10, <3>2, LimitsAssumption
      <3>4. h.inc \in p.reg.fencedInc \cup {0, spared}
        BY <3>1, <3>3 DEF LoopInv
      <3> QED BY <1>9, <3>4
    <2> QED BY <2>1, <2>2
  <1>11. s.fencedInc \subseteq t.fencedInc
    BY <1>9 DEF LoopInv
  <1>12. LoopInv(q, s, G, spared, state)
    BY <1>3, <1>5, <1>6, <1>7, <1>8, <1>9, <1>10, <1>11 DEF LoopInv
  <1>13. \E x \in p.left : q.left = p.left \ {x}
    BY <1>2, <1>3
  <1> QED BY <1>12, <1>13

\* The whole loop ends every grant of G.
LEMMA LoopEnds ==
  ASSUME NEW s, NEW G, NEW spared, NEW state, Ending(s, G, spared, state)
  PROVE  \E p : /\ p.left = {} /\ p.reg = FenceGrants(s, G, spared, state)
                /\ LoopInv(p, s, G, spared, state)
  <1> DEFINE N == Cardinality(G)
  <1>0. s \in RegistryState /\ IsFiniteSet(s.fencedInc) /\ IsFiniteSet(G)
    BY DEF Ending
  <1>1. N \in Nat
    BY <1>0, FS_CardinalityType
  <1>2. PICK f : Looped(f, N, s, G, spared, state) /\ FenceGrants(s, G, spared, state) = f[N].reg
    BY <1>1, LoopIs
  <1>3. \A k \in 0..N :
          f[k] = IF k = 0 THEN [reg |-> s, left |-> G] ELSE Pass(f[k - 1], spared, state)
    BY <1>2 DEF Looped
  <1> DEFINE Q(k) == /\ LoopInv(f[k], s, G, spared, state)
                     /\ IsFiniteSet(f[k].left) /\ Cardinality(f[k].left) = N - k
             P == {k \in Nat : Q(k)}
  <1> HIDE DEF N
  <1>4. 0 \in P
    <2> DEFINE b == [reg |-> s, left |-> G]
    <2>1. f[0] = b
      BY <1>1, <1>3
    <2>2. b.left = G /\ b.reg = s
      OBVIOUS
    <2>3. G \ b.left = {}
      BY <2>2
    <2>4. s.grants = {Outcome(g, {}, state) : g \in s.grants}
      BY DEF Outcome
    <2>5. s.tok =< s.tok
      BY <1>0 DEF RegistryState
    <2> HIDE DEF b
    <2>6. LoopInv(b, s, G, spared, state)
      BY <1>0, <2>2, <2>3, <2>4, <2>5 DEF LoopInv
    <2>7. N - 0 = Cardinality(G)
      BY <1>1 DEF N
    <2> QED BY <1>0, <2>1, <2>2, <2>6, <2>7
  <1>5. ASSUME NEW k \in 1..N, k - 1 \in P
        PROVE  k \in P
    <2> DEFINE p == f[k - 1]
    <2>1. f[k] = Pass(p, spared, state) /\ k \in Nat
      BY <1>1, <1>3
    <2>2. LoopInv(p, s, G, spared, state) /\ IsFiniteSet(p.left) /\ Cardinality(p.left) = N - (k - 1)
      BY <1>5
    <2> HIDE DEF p
    <2>3. p.left # {}
      <3>1. N - (k - 1) # 0
        BY <1>1
      <3> QED BY <2>2, <3>1, FS_EmptySet
    <2>4. /\ LoopInv(f[k], s, G, spared, state)
          /\ \E g \in p.left : f[k].left = p.left \ {g}
      <3> DEFINE q == f[k]
      <3>1. q = Pass(p, spared, state)
        BY <2>1
      <3>2. LoopInv(p, s, G, spared, state) /\ p.left # {}
        BY <2>2, <2>3
      <3> HIDE DEF P, Q, q
      <3>3. LoopInv(q, s, G, spared, state) /\ \E g \in p.left : q.left = p.left \ {g}
        BY <3>1, <3>2, PassIs
      <3> QED BY <3>3 DEF q
    <2>5. PICK g \in p.left : f[k].left = p.left \ {g}
      BY <2>4
    <2>6. IsFiniteSet(f[k].left) /\ Cardinality(f[k].left) = Cardinality(p.left) - 1
      <3> DEFINE L == p.left
      <3>1. IsFiniteSet(L) /\ g \in L
        BY <2>2
      <3> HIDE DEF L, P, Q
      <3>2. IsFiniteSet(L \ {g}) /\ Cardinality(L \ {g}) = Cardinality(L) - 1
        BY <3>1, FS_RemoveElement
      <3> QED BY <2>5, <3>2 DEF L
    <2>7. (N - (k - 1)) - 1 = N - k
      BY <1>1
    <2> QED BY <2>1, <2>2, <2>4, <2>6, <2>7
  <1> HIDE DEF P, Q
  <1>6. \A k \in 0..N : k \in P
    BY <1>1, <1>4, <1>5, UpTo
  <1>7. Q(N)
    <2>1. N \in 0..N
      BY <1>1
    <2> QED BY <1>6, <2>1 DEF P
  <1>8. f[N].left = {}
    <2>1. IsFiniteSet(f[N].left) /\ Cardinality(f[N].left) = 0
      BY <1>1, <1>7 DEF Q
    <2> QED BY <2>1, FS_EmptySet
  <1> QED BY <1>2, <1>7, <1>8 DEF Q, N

-----------------------------------------------------------------------------
(* What the registry's requests do to the lineage. *)

\* g and h are the same grant, in the same state or not.
Same(g, h) ==
  /\ g.id = h.id /\ g.domain = h.domain /\ g.scope = h.scope
  /\ g.epoch = h.epoch /\ g.inc = h.inc /\ g.token = h.token

\* From s to t the grants of G ended and nothing else became of the lineage; the
\* incarnations that held them are fenced, but for the one that is spared.
Closing(s, t, G, spared) ==
  /\ t \in RegistryState
  /\ t.gid = s.gid /\ s.inc =< t.inc /\ s.tok =< t.tok
  /\ IsFiniteSet(t.grants) /\ Cardinality(t.grants) =< Cardinality(s.grants)
  /\ IdsIdentify(t)
  /\ \A h \in t.grants : h \in s.grants \ G \/ (~IsOpen(h) /\ \E g \in G : Same(g, h))
  /\ \A g \in s.grants : \E h \in t.grants : Same(g, h)
  /\ s.grants \ G \subseteq t.grants
  /\ IsFiniteSet(t.fencedInc) /\ s.fencedInc \subseteq t.fencedInc
  /\ Cardinality(t.fencedInc) < MaxFenceRecords =>
       \A g \in G : g.inc \in t.fencedInc \cup {0, spared}

\* The grants after a close are an image of those before: there are no more.
LEMMA OutcomesFinite ==
  ASSUME NEW S, IsFiniteSet(S), NEW G, NEW state, NEW T,
         T = {Outcome(g, G, state) : g \in S}
  PROVE  IsFiniteSet(T) /\ Cardinality(T) =< Cardinality(S)
  <1> DEFINE f == [g \in S |-> Outcome(g, G, state)]
  <1>1. f \in Surjection(S, T)
    <2>1. f \in [S -> T]
      OBVIOUS
    <2>2. \A t \in T : \E g \in S : f[g] = t
      OBVIOUS
    <2> QED BY <2>1, <2>2 DEF Surjection
  <1> QED BY <1>1, FS_Surjection

\* The loop over G closes the grants of G.
LEMMA FenceGrantsCloses ==
  ASSUME NEW s, NEW G, NEW spared, NEW state, Ending(s, G, spared, state),
         IsFiniteSet(s.grants), NEW t, t = FenceGrants(s, G, spared, state)
  PROVE  Closing(s, t, G, spared) /\ t.inc = s.inc /\ t.boot = s.boot
  <1>0. /\ s \in RegistryState /\ IdsIdentify(s) /\ G \subseteq s.grants
        /\ state \in GrantStates \ {"Open"} /\ s.grants \subseteq Grant
        /\ \A g \in G : IsOpen(g)
    BY DEF Ending, OpenGrants, RegistryState
  <1>1. PICK p : p.left = {} /\ p.reg = t /\ LoopInv(p, s, G, spared, state)
    BY LoopEnds
  <1>2. G \ p.left = G
    BY <1>1
  <1>3. /\ t \in RegistryState
        /\ t.gid = s.gid /\ t.inc = s.inc /\ t.boot = s.boot /\ s.tok =< t.tok
        /\ t.grants = {Outcome(g, G, state) : g \in s.grants}
        /\ IsFiniteSet(t.fencedInc) /\ s.fencedInc \subseteq t.fencedInc
        /\ Cardinality(t.fencedInc) < MaxFenceRecords =>
             \A g \in G : g.inc \in t.fencedInc \cup {0, spared}
    BY <1>1, <1>2 DEF LoopInv
  <1>4. IsFiniteSet(t.grants) /\ Cardinality(t.grants) =< Cardinality(s.grants)
    BY <1>3, OutcomesFinite
  <1>5. ASSUME NEW g \in s.grants
        PROVE  /\ Same(g, Outcome(g, G, state))
               /\ g \notin G => Outcome(g, G, state) = g
               /\ g \in G => ~IsOpen(Outcome(g, G, state))
    <2>1. g \in Grant
      BY <1>0
    <2>2. CASE g \in G
      <3>1. Outcome(g, G, state) = [g EXCEPT !.state = state]
        BY <2>2 DEF Outcome
      <3>2. Same(g, [g EXCEPT !.state = state])
        BY <2>1 DEF Same, Grant
      <3>3. ~IsOpen([g EXCEPT !.state = state])
        BY <1>0, <2>1 DEF IsOpen, Grant
      <3> QED BY <2>2, <3>1, <3>2, <3>3
    <2>3. CASE g \notin G
      BY <2>3 DEF Outcome, Same
    <2> QED BY <2>2, <2>3
  <1>6. IdsIdentify(t)
    <2> SUFFICES ASSUME NEW x \in t.grants, NEW y \in t.grants, x.id = y.id
                 PROVE  x = y
      BY DEF IdsIdentify
    <2>1. PICK g \in s.grants : x = Outcome(g, G, state)
      BY <1>3
    <2>2. PICK h \in s.grants : y = Outcome(h, G, state)
      BY <1>3
    <2>3. g.id = h.id
      BY <1>5, <2>1, <2>2 DEF Same
    <2> QED BY <1>0, <2>1, <2>2, <2>3 DEF IdsIdentify
  <1>7. ASSUME NEW h \in t.grants
        PROVE  h \in s.grants \ G \/ (~IsOpen(h) /\ \E g \in G : Same(g, h))
    <2>1. PICK g \in s.grants : h = Outcome(g, G, state)
      BY <1>3
    <2> QED BY <1>5, <2>1
  <1>8. ASSUME NEW g \in s.grants
        PROVE  (\E h \in t.grants : Same(g, h)) /\ (g \notin G => g \in t.grants)
    <2>1. Outcome(g, G, state) \in t.grants
      BY <1>3
    <2> QED BY <1>5, <2>1
  <1>9. s.inc =< t.inc
    BY <1>0, <1>3 DEF RegistryState
  <1> QED BY <1>3, <1>4, <1>6, <1>7, <1>8, <1>9 DEF Closing

\* Nothing ends when the lineage stays as it is.
LEMMA ClosingNothing ==
  ASSUME NEW s, IsFiniteSet(s.grants), IsFiniteSet(s.fencedInc), IdsIdentify(s),
         NEW t \in RegistryState, t.grants = s.grants, t.gid = s.gid, s.inc =< t.inc,
         s.tok =< t.tok, t.fencedInc = s.fencedInc
  PROVE  Closing(s, t, {}, 0)
  <1>1. Cardinality(s.grants) \in Nat
    BY FS_CardinalityType
  <1>2. IdsIdentify(t)
    BY DEF IdsIdentify
  <1>3. \A g \in s.grants : \E h \in t.grants : Same(g, h)
    BY DEF Same
  <1> QED BY <1>1, <1>2, <1>3 DEF Closing

\* A change of the counters after a close.
LEMMA ClosingThen ==
  ASSUME NEW s \in RegistryState, NEW t, NEW G, NEW spared, Closing(s, t, G, spared),
         NEW u \in RegistryState, u.grants = t.grants, u.gid = t.gid, t.inc =< u.inc,
         t.tok =< u.tok, u.fencedInc = t.fencedInc
  PROVE  Closing(s, u, G, spared)
  <1>1. s.inc =< u.inc /\ s.tok =< u.tok
    BY DEF Closing, RegistryState
  <1>2. IdsIdentify(u)
    BY DEF Closing, IdsIdentify
  <1> QED BY <1>1, <1>2 DEF Closing

\* What each request leaves of the counters.
LEMMA CounterRecords ==
  ASSUME NEW s \in RegistryState, NEW i \in Nat, s.inc =< i, NEW r, r.inc = i,
         r.kind = "IncarnationAllocate" \/ r.kind = "BootBegin", NEW t, t = Apply(s, r)
  PROVE  /\ t \in RegistryState /\ t.grants = s.grants /\ t.gid = s.gid /\ t.tok = s.tok
         /\ t.inc = i /\ t.fencedInc = s.fencedInc
  <1>1. CASE r.kind = "IncarnationAllocate"
    <2>1. t = [s EXCEPT !.inc = i]
      BY <1>1 DEF Apply
    <2> QED BY <2>1 DEF RegistryState
  <1>2. CASE r.kind = "BootBegin"
    <2>1. t = [s EXCEPT !.boot = i, !.inc = Raise(s.inc, i), !.openBoots = s.openBoots \cup {i}]
      BY <1>2 DEF Apply
    <2>2. Raise(s.inc, i) = i
      BY DEF Raise, RegistryState
    <2>3. s.openBoots \cup {i} \in SUBSET Nat
      BY DEF RegistryState
    <2> QED BY <2>1, <2>2, <2>3 DEF RegistryState
  <1> QED BY <1>1, <1>2

\* The lineage of a registry that serves: every grant is for its domain's scope,
\* the counters are ahead of it, ids identify grants and no two open ones meet.
Lineage(s) ==
  /\ s \in RegistryState /\ IsFiniteSet(s.grants) /\ IsFiniteSet(s.fencedInc)
  /\ \A g \in s.grants : /\ g.domain \in Domains /\ g.scope = Home[g.domain]
                         /\ g.id =< s.gid /\ g.epoch \in 1..g.id /\ g.token =< s.tok
                         /\ g.inc \in 1..s.inc
  /\ IdsIdentify(s)
  /\ \A g, h \in OpenGrants(s) : g.scope \cap h.scope # {} => g = h

\* Every set of open grants can be ended.
LEMMA LineageEnding ==
  ASSUME NEW s, Lineage(s), NEW G \in SUBSET OpenGrants(s), NEW spared \in Nat,
         NEW state \in GrantStates \ {"Open"}
  PROVE  Ending(s, G, spared, state)
  <1>1. IsFiniteSet(G)
    <2>1. G \subseteq s.grants /\ IsFiniteSet(s.grants)
      BY DEF OpenGrants, Lineage
    <2> QED BY <2>1, FS_Subset
  <1> QED BY <1>1 DEF Lineage, Ending

\* A grant after a close was there before.
LEMMA ClosingBack ==
  ASSUME NEW s, NEW t, NEW G \in SUBSET OpenGrants(s), NEW spared, Closing(s, t, G, spared),
         NEW h \in t.grants
  PROVE  /\ \E g \in s.grants : Same(g, h)
         /\ IsOpen(h) => h \in OpenGrants(s) /\ h \notin G
  <1>1. h \in s.grants \ G \/ (~IsOpen(h) /\ \E g \in G : Same(g, h))
    BY DEF Closing
  <1>2. G \subseteq s.grants
    BY DEF OpenGrants
  <1>3. CASE h \in s.grants \ G
    BY <1>3 DEF Same, OpenGrants
  <1>4. CASE ~IsOpen(h) /\ \E g \in G : Same(g, h)
    BY <1>2, <1>4
  <1> QED BY <1>1, <1>3, <1>4

\* Ending grants keeps the lineage in order.
LEMMA ClosingLineage ==
  ASSUME NEW s, Lineage(s), NEW t, NEW G \in SUBSET OpenGrants(s), NEW spared,
         Closing(s, t, G, spared)
  PROVE  Lineage(t)
  <1>1. /\ t \in RegistryState /\ IsFiniteSet(t.grants) /\ IsFiniteSet(t.fencedInc)
        /\ IdsIdentify(t) /\ t.gid = s.gid /\ s.inc =< t.inc /\ s.tok =< t.tok
    BY DEF Closing
  <1>2. ASSUME NEW h \in t.grants
        PROVE  /\ h.domain \in Domains /\ h.scope = Home[h.domain]
               /\ h.id =< t.gid /\ h.epoch \in 1..h.id /\ h.token =< t.tok /\ h.inc \in 1..t.inc
    <2>1. PICK g \in s.grants : Same(g, h)
      BY ClosingBack
    <2>2. /\ g.domain \in Domains /\ g.scope = Home[g.domain] /\ g.id =< s.gid
          /\ g.epoch \in 1..g.id /\ g.token =< s.tok /\ g.inc \in 1..s.inc
      BY DEF Lineage
    <2>3. /\ g.id = h.id /\ g.domain = h.domain /\ g.scope = h.scope
          /\ g.epoch = h.epoch /\ g.inc = h.inc /\ g.token = h.token
      BY <2>1 DEF Same
    <2>4. g.token \in Nat /\ s.tok \in Nat /\ t.tok \in Nat /\ s.inc \in Nat /\ t.inc \in Nat
      BY <1>1 DEF Lineage, RegistryState, Grant
    <2> QED BY <1>1, <2>2, <2>3, <2>4
  <1>3. ASSUME NEW g \in OpenGrants(t), NEW h \in OpenGrants(t), g.scope \cap h.scope # {}
        PROVE  g = h
    <2>1. g \in OpenGrants(s) /\ h \in OpenGrants(s)
      BY ClosingBack DEF OpenGrants
    <2> QED BY <1>3, <2>1 DEF Lineage
  <1> QED BY <1>1, <1>2, <1>3 DEF Lineage

\* MaxEpoch is the highest epoch of the domain's grants.
LEMMA MaxEpochIs ==
  ASSUME NEW s, Lineage(s), NEW d
  PROVE  /\ MaxEpoch(s, d) \in 0..s.gid
         /\ \A g \in s.grants : g.domain = d => g.epoch =< MaxEpoch(s, d)
         /\ MaxEpoch(s, d) # 0 => \E g \in s.grants : g.domain = d /\ g.epoch = MaxEpoch(s, d)
  <1> DEFINE E == {0} \cup {g.epoch : g \in {h \in s.grants : h.domain = d}}
  <1>1. s.gid \in Nat
    BY DEF Lineage, RegistryState
  <1>2. ASSUME NEW x \in E
        PROVE  x \in Nat /\ x =< s.gid
    <2>1. CASE x = 0
      BY <1>1, <2>1
    <2>2. CASE x # 0
      <3>1. PICK g \in s.grants : x = g.epoch
        BY <2>2
      <3>2. g.id \in Nat /\ g.id =< s.gid /\ g.epoch \in 1..g.id
        BY DEF Lineage, RegistryState, Grant
      <3> QED BY <1>1, <3>1, <3>2
    <2> QED BY <2>1, <2>2
  <1>3. E \in SUBSET Nat /\ E # {}
    BY <1>2
  <1>4. MaxEpoch(s, d) = Max(E)
    BY DEF MaxEpoch
  <1>5. \A g \in s.grants : g.domain = d => g.epoch \in E
    OBVIOUS
  <1>6. \A x \in E : x # 0 => \E g \in s.grants : g.domain = d /\ g.epoch = x
    OBVIOUS
  <1> HIDE DEF E
  <1>7. Max(E) \in E /\ \A x \in E : x =< Max(E)
    BY <1>1, <1>2, <1>3, MaxBounded
  <1>8. Max(E) \in 0..s.gid
    BY <1>1, <1>2, <1>7
  <1> QED BY <1>4, <1>5, <1>6, <1>7, <1>8

\* The grant that allocate_epoch opens in state t.
NewGrant(t, d, i) ==
  [id |-> t.gid + 1, domain |-> d, scope |-> Home[d], epoch |-> MaxEpoch(t, d) + 1, inc |-> i,
   attempt |-> 0, token |-> t.tok + 1, boot |-> t.boot, state |-> "Open"]

\* The open grants that stand in the way of domain d.
InTheWay(s, d) == {g \in OpenGrants(s) : g.scope \cap Home[d] # {}}

\* From s to u every open grant in the way of d ended, which leads to t, and
\* incarnation i was granted a new epoch.
Granting(s, t, u, d, i) ==
  /\ Closing(s, t, InTheWay(s, d), i)
  /\ u \in RegistryState
  /\ u.gid = t.gid + 1 /\ u.tok = t.tok + 1 /\ u.inc = t.inc /\ u.fencedInc = t.fencedInc
  /\ NewGrant(t, d, i) \in u.grants /\ u.grants \subseteq t.grants \cup {NewGrant(t, d, i)}
  /\ Cardinality(t.grants) < MaxLineageEntries => t.grants \subseteq u.grants

\* allocate_epoch.
LEMMA AllocateIs ==
  ASSUME NEW s, Lineage(s), NEW d \in Domains, NEW i \in Nat
  PROVE  \E t : Granting(s, t, AllocateEpoch(s, d, i), d, i)
  <1> DEFINE G == InTheWay(s, d)
             t == FenceGrants(s, G, i, "Fenced")
             a == [kind |-> "ExtentAdopt", token |-> t.tok + 1, scope |-> Home[d], inc |-> i]
             v == Apply(t, a)
             o == [kind |-> "GrantOpen", grant |-> NewGrant(t, d, i)]
             u == Apply(v, o)
  <1>1. AllocateEpoch(s, d, i) = u
    BY DEF AllocateEpoch, InTheWay, NewGrant
  <1>2. Closing(s, t, G, i)
    <2>1. G \in SUBSET OpenGrants(s) /\ "Fenced" \in GrantStates \ {"Open"}
      BY DEF InTheWay, GrantStates
    <2>2. IsFiniteSet(s.grants)
      BY DEF Lineage
    <2> HIDE DEF G
    <2> QED BY <2>1, <2>2, LineageEnding, FenceGrantsCloses
  <1>3. Lineage(t)
    <2>1. G \in SUBSET OpenGrants(s)
      BY DEF InTheWay
    <2> HIDE DEF G, t
    <2> QED BY <1>2, <2>1, ClosingLineage
  <1> HIDE DEF G, t
  <1>4. t \in RegistryState /\ t.tok \in Nat /\ t.gid \in Nat /\ t.boot \in Nat
    BY <1>3 DEF Lineage, RegistryState
  <1>5. Home[d] \in SUBSET Extents
    BY CoordinatorAssumption
  <1>6. /\ v \in RegistryState /\ v.grants = t.grants /\ v.tok = t.tok + 1 /\ v.gid = t.gid
        /\ v.inc = t.inc /\ v.fencedInc = t.fencedInc
    <2>1. v = ApplyAdopt(t, a)
      BY DEF Apply
    <2>2. Raise(t.tok, t.tok + 1) = t.tok + 1
      BY <1>4 DEF Raise
    <2> DEFINE x == [e \in Extents |-> IF e \in Home[d] THEN [hw |-> t.tok + 1, owner |-> i]
                                       ELSE t.ext[e]]
    <2>3. x \in [Extents -> Mark]
      BY <1>4 DEF RegistryState, Mark
    <2>4. v = [t EXCEPT !.tok = t.tok + 1, !.ext = x]
      BY <2>1, <2>2 DEF ApplyAdopt
    <2>5. t.tok + 1 \in Nat
      BY <1>4
    <2> HIDE DEF v, x
    <2> QED BY <1>4, <2>3, <2>4, <2>5 DEF RegistryState
  <1>7. NewGrant(t, d, i) \in Grant
    <2>1. MaxEpoch(t, d) \in Nat
      BY <1>3, <1>4, MaxEpochIs
    <2> QED BY <1>4, <1>5, <2>1 DEF NewGrant, Grant, GrantStates
  <1>8. NewGrant(t, d, i).id = t.gid + 1 /\ NewGrant(t, d, i).token = t.tok + 1
    BY DEF NewGrant
  <1>9. u = ApplyGrantOpen(v, o) /\ o.grant = NewGrant(t, d, i)
    BY DEF Apply
  <1> HIDE DEF v, o
  <1>10. /\ Raise(v.gid, t.gid + 1) = t.gid + 1
         /\ Raise(v.tok, t.tok + 1) = t.tok + 1
    BY <1>4, <1>6 DEF Raise
  <1>11. u = [v EXCEPT !.gid = t.gid + 1, !.tok = t.tok + 1,
                       !.grants = Retained(v) \cup {NewGrant(t, d, i)}]
    BY <1>8, <1>9, <1>10 DEF ApplyGrantOpen
  <1>12. /\ Retained(v) \subseteq t.grants
         /\ Cardinality(t.grants) < MaxLineageEntries => Retained(v) = t.grants
    BY <1>6 DEF Retained
  <1>13. Retained(v) \cup {NewGrant(t, d, i)} \in SUBSET Grant
    BY <1>4, <1>7, <1>12 DEF RegistryState
  <1> HIDE DEF u
  <1>14. u \in RegistryState
    <2>1. t.tok + 1 \in Nat /\ t.gid + 1 \in Nat
      BY <1>4
    <2> DEFINE S == Retained(v) \cup {NewGrant(t, d, i)}
    <2>2. S \in SUBSET Grant /\ u = [v EXCEPT !.gid = t.gid + 1, !.tok = t.tok + 1, !.grants = S]
      BY <1>11, <1>13
    <2> HIDE DEF S
    <2> QED BY <1>6, <2>1, <2>2 DEF RegistryState
  <1>15. /\ u.gid = t.gid + 1 /\ u.tok = t.tok + 1 /\ u.inc = t.inc /\ u.fencedInc = t.fencedInc
         /\ u.grants = Retained(v) \cup {NewGrant(t, d, i)}
    BY <1>6, <1>11 DEF RegistryState
  <1>16. Granting(s, t, u, d, i)
    BY <1>2, <1>12, <1>14, <1>15 DEF Granting, G
  <1> QED BY <1>1, <1>16

\* The lineage after an allocation: the new grant carries the domain's highest
\* epoch and the registry's newest token and id.
LEMMA GrantingLineage ==
  ASSUME NEW s, Lineage(s), NEW d \in Domains, NEW i \in 1..s.inc, NEW t, NEW u,
         Granting(s, t, u, d, i)
  PROVE  /\ Lineage(t) /\ Lineage(u)
         /\ MaxEpoch(u, d) = NewGrant(t, d, i).epoch
         /\ \A g \in t.grants : /\ g.id < u.gid /\ g.token < u.tok
                                /\ g.domain = d => g.epoch < NewGrant(t, d, i).epoch
  <1> DEFINE n == NewGrant(t, d, i)
             G == InTheWay(s, d)
  <1>1. G \in SUBSET OpenGrants(s) /\ Closing(s, t, G, i)
    BY DEF Granting, InTheWay
  <1>2. Lineage(t)
    <2> HIDE DEF G
    <2> QED BY <1>1, ClosingLineage
  <1>3. /\ u \in RegistryState /\ u.gid = t.gid + 1 /\ u.tok = t.tok + 1 /\ u.inc = t.inc
        /\ u.fencedInc = t.fencedInc /\ n \in u.grants /\ u.grants \subseteq t.grants \cup {n}
    BY DEF Granting
  <1>4. /\ n.id = t.gid + 1 /\ n.domain = d /\ n.scope = Home[d] /\ n.inc = i
        /\ n.epoch = MaxEpoch(t, d) + 1 /\ n.token = t.tok + 1
    BY DEF NewGrant
  <1>5. /\ t.gid \in Nat /\ t.tok \in Nat /\ t.inc \in Nat /\ s.inc \in Nat /\ s.inc =< t.inc
        /\ MaxEpoch(t, d) \in 0..t.gid
    BY <1>1, <1>2, MaxEpochIs DEF Lineage, RegistryState, Closing
  <1>6. ASSUME NEW g \in t.grants
        PROVE  /\ g.domain \in Domains /\ g.scope = Home[g.domain] /\ g.epoch \in 1..g.id
               /\ g.inc \in 1..t.inc /\ g.id \in Nat /\ g.token \in Nat
               /\ g.id =< t.gid /\ g.token =< t.tok
               /\ g.domain = d => g.epoch =< MaxEpoch(t, d)
    BY <1>2, MaxEpochIs DEF Lineage, RegistryState, Grant
  <1> HIDE DEF n, G
  <1>7. ASSUME NEW g \in t.grants
        PROVE  g.id < u.gid /\ g.token < u.tok /\ (g.domain = d => g.epoch < n.epoch)
    BY <1>3, <1>4, <1>5, <1>6
  <1>8. ASSUME NEW g \in u.grants
        PROVE  /\ g.domain \in Domains /\ g.scope = Home[g.domain] /\ g.id =< u.gid
               /\ g.epoch \in 1..g.id /\ g.token =< u.tok /\ g.inc \in 1..u.inc
    <2>1. CASE g \in t.grants
      BY <1>3, <1>5, <1>6, <2>1
    <2>2. CASE g = n
      BY <1>3, <1>4, <1>5, <2>2
    <2> QED BY <1>3, <2>1, <2>2
  <1>9. IsFiniteSet(u.grants) /\ IsFiniteSet(u.fencedInc)
    <2>1. IsFiniteSet(t.grants \cup {n})
      BY <1>2, FS_AddElement DEF Lineage
    <2> QED BY <1>2, <1>3, <2>1, FS_Subset DEF Lineage
  <1>10. IdsIdentify(u)
    <2> SUFFICES ASSUME NEW x \in u.grants, NEW y \in u.grants, x.id = y.id
                 PROVE  x = y
      BY DEF IdsIdentify
    <2>1. CASE x \in t.grants /\ y \in t.grants
      BY <1>2, <2>1 DEF Lineage, IdsIdentify
    <2>2. ASSUME NEW g \in t.grants PROVE g.id # n.id
      BY <1>4, <1>5, <1>6
    <2> QED BY <1>3, <2>1, <2>2
  <1>11. ASSUME NEW x \in OpenGrants(u), NEW y \in OpenGrants(u), x.scope \cap y.scope # {}
         PROVE  x = y
    <2>1. x \in u.grants /\ y \in u.grants /\ IsOpen(x) /\ IsOpen(y)
      BY DEF OpenGrants
    <2>2. ASSUME NEW g \in t.grants, IsOpen(g) PROVE g.scope \cap Home[d] = {}
      <3>1. g \in OpenGrants(s) /\ g \notin G
        BY <1>1, <2>2, ClosingBack
      <3> QED BY <3>1 DEF G, InTheWay
    <2>3. CASE x \in t.grants /\ y \in t.grants
      BY <1>2, <1>11, <2>1, <2>3 DEF Lineage, OpenGrants
    <2>4. CASE x = n /\ y \in t.grants
      BY <1>4, <1>11, <2>1, <2>2, <2>4
    <2>5. CASE x \in t.grants /\ y = n
      BY <1>4, <1>11, <2>1, <2>2, <2>5
    <2> QED BY <1>3, <2>1, <2>3, <2>4, <2>5
  <1>12. Lineage(u)
    BY <1>3, <1>8, <1>9, <1>10, <1>11 DEF Lineage
  <1>13. MaxEpoch(u, d) = n.epoch
    <2>1. /\ MaxEpoch(u, d) \in Nat /\ n.epoch \in Nat /\ n.epoch # 0
          /\ n.epoch =< MaxEpoch(u, d)
      BY <1>3, <1>4, <1>5, <1>12, MaxEpochIs DEF RegistryState
    <2>2. PICK g \in u.grants : g.domain = d /\ g.epoch = MaxEpoch(u, d)
      BY <1>12, <2>1, MaxEpochIs
    <2>3. CASE g \in t.grants
      BY <1>7, <2>1, <2>2, <2>3
    <2> QED BY <1>3, <2>2, <2>3
  <1> QED BY <1>2, <1>7, <1>12, <1>13 DEF n

-----------------------------------------------------------------------------
(* What a step does to the coordinators. *)

\* The types of the variables the invariants are about.
TypeInv ==
  /\ now \in Nat
  /\ co \in [Coordinators -> Process]
  /\ memory \in [Witnesses -> [Subjects -> Memory]]
  /\ lastSeq \in [Witnesses -> Nat]
  /\ floor \in [Extents -> Mark]
  /\ effects \in Seq([grant: Nat, scope: SUBSET Extents, token: Nat])

BaseInv == TypeInv /\ Lineage(reg)

\* q is r under the same name: incarnation, grant, epoch and token.
Alike(r, q) ==
  /\ q.domain = r.domain /\ q.inc = r.inc /\ q.epoch = r.epoch /\ q.token = r.token
  /\ q.grant = r.grant
  /\ q.pc = "off" => r.pc = "off"

\* q is r connected as incarnation i, a new process or the same one again.
Joined(r, q, i) ==
  /\ q.inc = i /\ q.pc # "off"
  /\ \/ q.epoch = 0
     \/ /\ q.domain = r.domain /\ q.epoch = r.epoch /\ q.token = r.token /\ q.grant = r.grant
        /\ r.pc # "off"

\* q is r with the grant that registry state s was left with.
Holds(r, q, s) ==
  /\ q.domain = r.domain /\ q.inc = r.inc /\ q.pc # "off"
  /\ q.epoch = MaxEpoch(s, r.domain) /\ q.token = s.tok /\ q.grant = s.gid

\* The loop of mutate() leaves the name alone.
LEMMA NextAttemptIs ==
  ASSUME NEW r \in Process
  PROVE  /\ NextAttempt(r) \in Process /\ Alike(r, NextAttempt(r))
         /\ NextAttempt(r).pc \in {"idle", "collect"}
         /\ Failed(r) \in Process /\ Alike(r, Failed(r))
         /\ Failed(r).pc \in {"idle", "collect"}
  <1>1. ASSUME NEW q \in Process
        PROVE  /\ NextAttempt(q) \in Process /\ Alike(q, NextAttempt(q))
               /\ NextAttempt(q).pc \in {"idle", "collect"}
    <2>1. CASE q.todo = 0
      <3>1. NextAttempt(q) = [q EXCEPT !.pc = "idle", !.asked = 0, !.bundle = {}]
        BY <2>1 DEF NextAttempt
      <3>2. NextAttempt(q) \in Process
        <4>1. ASSUME NEW none \in SUBSET Statement
              PROVE  [q EXCEPT !.pc = "idle", !.asked = 0, !.bundle = none] \in Process
          BY DEF Process
        <4> QED BY <3>1, <4>1
      <3>3. Alike(q, NextAttempt(q)) /\ NextAttempt(q).pc = "idle"
        BY <3>1 DEF Process, Alike
      <3> QED BY <3>2, <3>3
    <2>2. CASE q.todo # 0
      <3>1. NextAttempt(q) = [q EXCEPT !.pc = "collect", !.todo = q.todo - 1, !.asked = 0,
                                       !.bundle = {}]
        BY <2>2 DEF NextAttempt
      <3>2. q.todo - 1 \in Nat
        BY <2>2 DEF Process
      <3>3. NextAttempt(q) \in Process
        <4>1. ASSUME NEW none \in SUBSET Statement, NEW k \in Nat
              PROVE  [q EXCEPT !.pc = "collect", !.todo = k, !.asked = 0, !.bundle = none]
                       \in Process
          BY DEF Process
        <4> QED BY <3>1, <3>2, <4>1
      <3>4. Alike(q, NextAttempt(q)) /\ NextAttempt(q).pc = "collect"
        BY <3>1 DEF Process, Alike
      <3> QED BY <3>3, <3>4
    <2> QED BY <2>1, <2>2
  <1> DEFINE f == [r EXCEPT !.authority = FALSE]
  <1>2. f \in Process /\ Alike(r, f)
    BY DEF Process, Alike
  <1>3. Failed(r) = NextAttempt(f)
    BY DEF Failed
  <1> HIDE DEF f
  <1>4. Alike(f, NextAttempt(f)) /\ NextAttempt(f) \in Process
        /\ NextAttempt(f).pc \in {"idle", "collect"}
    BY <1>1, <1>2
  <1>5. Alike(r, NextAttempt(f))
    BY <1>2, <1>4 DEF Alike
  <1> QED BY <1>1, <1>3, <1>4, <1>5

\* An answer leaves c in one of the two states, and nobody else is concerned.
LEMMA AnsweredIs ==
  ASSUME NEW c \in Coordinators, NEW r \in Process, NEW lost \in Process, Answered(c, r, lost),
         co \in [Coordinators -> Process]
  PROVE  /\ co' \in [Coordinators -> Process]
         /\ \A x \in Coordinators \ {c} : co'[x] = co[x]
         /\ co'[c] = r \/ (Alike(lost, co'[c]) /\ co'[c].pc = lost.pc)
  <1>1. CASE co' = [co EXCEPT ![c] = r]
    BY <1>1
  <1>2. CASE co' = [co EXCEPT ![c] = [lost EXCEPT !.up = FALSE]]
    <2>1. /\ [lost EXCEPT !.up = FALSE] \in Process /\ Alike(lost, [lost EXCEPT !.up = FALSE])
          /\ [lost EXCEPT !.up = FALSE].pc = lost.pc
      BY DEF Process, Alike
    <2> QED BY <1>2, <2>1
  <1> QED BY <1>1, <1>2 DEF Answered

\* The registry ends some grants or none, and every coordinator goes on under its
\* name or is gone.
Steady ==
  /\ \E G \in SUBSET OpenGrants(reg) : Closing(reg, reg', G, 0)
  /\ \A c \in Coordinators : Alike(co[c], co'[c]) \/ co'[c] = Idle(co[c].domain)

\* Coordinator c is given a new incarnation, which it may not learn.
Joining(c) ==
  /\ Closing(reg, reg', {}, 0) /\ reg'.inc = reg.inc + 1
  /\ \A x \in Coordinators \ {c} : co'[x] = co[x]
  /\ Alike(co[c], co'[c]) \/ Joined(co[c], co'[c], reg'.inc)

\* Coordinator c is granted an epoch, which it may not learn; t is the registry's
\* state after the fences.
Granted(c, t) ==
  /\ co[c].inc \in 1..reg.inc
  /\ Granting(reg, t, reg', co[c].domain, co[c].inc)
  /\ \A x \in Coordinators \ {c} : co'[x] = co[x]
  /\ Alike(co[c], co'[c]) \/ Holds(co[c], co'[c], reg')

Moves == Steady \/ (\E c \in Coordinators : Joining(c))
                \/ (\E c \in Coordinators : \E t : Granted(c, t))

\* A coordinator is about to commit only after a decision for its grant.
Announces ==
  \A c \in Coordinators : co'[c].pc = "commit" =>
    \/ co[c].pc = "commit" /\ co'[c].grant = co[c].grant
    \/ \E d \in decided' : d.grant = co'[c].grant

\* A step of the registry or of a coordinator is one of these.
Orderly == co' \in [Coordinators -> Process] /\ Moves /\ Announces

\* A coordinator that does nothing keeps its name.
LEMMA AlikeSelf == \A r : Alike(r, r)
  BY DEF Alike

\* The registry is not concerned.
LEMMA Untouched ==
  ASSUME BaseInv, reg' = reg
  PROVE  \E G \in SUBSET OpenGrants(reg) : Closing(reg, reg', G, 0)
  <1>1. /\ reg \in RegistryState /\ IsFiniteSet(reg.grants) /\ IsFiniteSet(reg.fencedInc)
        /\ IdsIdentify(reg)
    BY DEF BaseInv, Lineage
  <1>2. reg.inc =< reg.inc /\ reg.tok =< reg.tok
    BY <1>1 DEF RegistryState
  <1>3. Closing(reg, reg, {}, 0)
    BY <1>1, <1>2, ClosingNothing
  <1> QED BY <1>3

\* One coordinator moves on under its name.
LEMMA Turn ==
  ASSUME BaseInv, \E G \in SUBSET OpenGrants(reg) : Closing(reg, reg', G, 0),
         co' \in [Coordinators -> Process], NEW c \in Coordinators,
         \A x \in Coordinators \ {c} : co'[x] = co[x],
         Alike(co[c], co'[c]),
         co'[c].pc = "commit" => co[c].pc = "commit" \/ \E d \in decided' : d.grant = co'[c].grant
  PROVE  Orderly
  <1>1. \A x \in Coordinators : Alike(co[x], co'[x])
    BY AlikeSelf
  <1>2. Steady
    BY <1>1 DEF Steady
  <1>3. Announces
    BY <1>1 DEF Announces, Alike
  <1> QED BY <1>2, <1>3 DEF Orderly, Moves

\* The same when all that happens to c is that its state is replaced.
LEMMA Replaced ==
  ASSUME BaseInv, \E G \in SUBSET OpenGrants(reg) : Closing(reg, reg', G, 0),
         NEW c \in Coordinators, NEW q \in Process, co' = [co EXCEPT ![c] = q],
         Alike(co[c], q), q.pc # "commit" \/ co[c].pc = "commit"
  PROVE  Orderly
  <1>1. co' \in [Coordinators -> Process] /\ co'[c] = q
    BY DEF BaseInv, TypeInv
  <1>2. \A x \in Coordinators \ {c} : co'[x] = co[x]
    BY DEF BaseInv, TypeInv
  <1> QED BY <1>1, <1>2, Turn

\* mutate() is called: the registry is not concerned and the name stays.
LEMMA MutateMoves ==
  ASSUME BaseInv, NEW c \in Coordinators, Mutate(c)
  PROVE  Orderly
  <1>1. co[c] \in Process /\ co[c].pc = "idle" /\ reg' = reg
    BY DEF BaseInv, TypeInv, Mutate, registry
  <1>2. CASE co[c].authority
    <2> DEFINE r == [co[c] EXCEPT !.todo = Count]
               q == NextAttempt(r)
    <2>1. co' = [co EXCEPT ![c] = q]
      BY <1>2 DEF Mutate
    <2>2. r \in Process /\ Alike(co[c], r)
      BY <1>1, CoordinatorAssumption DEF Process, Alike
    <2> HIDE DEF r
    <2>3. q \in Process /\ Alike(r, q) /\ q.pc # "commit"
      BY <2>2, NextAttemptIs
    <2>4. Alike(co[c], q)
      BY <2>2, <2>3 DEF Alike
    <2> HIDE DEF q
    <2> QED BY <1>1, <2>1, <2>3, <2>4, Untouched, Replaced
  <1>3. CASE ~co[c].authority
    <2> DEFINE q == [co[c] EXCEPT !.pc = "acquire"]
    <2>1. co' = [co EXCEPT ![c] = q]
      BY <1>3 DEF Mutate
    <2>2. q \in Process /\ Alike(co[c], q) /\ q.pc # "commit"
      BY <1>1 DEF Process, Alike
    <2> HIDE DEF q
    <2> QED BY <1>1, <2>1, <2>2, Untouched, Replaced
  <1> QED BY <1>2, <1>3

\* A broken connection takes nobody's name away.
LEMMA BreakMoves ==
  ASSUME BaseInv, NEW c \in Coordinators, Break(c)
  PROVE  Orderly
  <1> DEFINE q == [co[c] EXCEPT !.up = FALSE]
  <1>1. co[c] \in Process /\ reg' = reg /\ co' = [co EXCEPT ![c] = q]
    BY DEF BaseInv, TypeInv, Break, registry
  <1>2. q \in Process /\ Alike(co[c], q) /\ q.pc = co[c].pc
    BY <1>1 DEF Process, Alike
  <1> HIDE DEF q
  <1> QED BY <1>1, <1>2, Untouched, Replaced

\* A process that is off, and its domain is one of the registry's.
LEMMA IdleIs ==
  ASSUME NEW d \in Domains
  PROVE  /\ Idle(d) \in Process /\ Idle(d).pc = "off" /\ Idle(d).domain = d
         /\ Idle(d).inc = 0 /\ Idle(d).epoch = 0 /\ Idle(d).token = 0 /\ Idle(d).grant = 0
  BY DEF Idle, Process

\* A process that ends gives up its incarnation and its epoch.
LEMMA ExitMoves ==
  ASSUME BaseInv, NEW c \in Coordinators, Exit(c)
  PROVE  Orderly
  <1> DEFINE q == Idle(co[c].domain)
  <1>1. co[c] \in Process /\ reg' = reg /\ co' = [co EXCEPT ![c] = q]
    BY DEF BaseInv, TypeInv, Exit, registry
  <1>2. q \in Process /\ q.pc = "off"
    <2>1. co[c].domain \in Domains
      BY <1>1 DEF Process
    <2> QED BY <2>1, IdleIs
  <1> HIDE DEF q
  <1>3. co' \in [Coordinators -> Process] /\ co'[c] = q
    BY <1>1, <1>2 DEF BaseInv, TypeInv
  <1>4. \A x \in Coordinators \ {c} : co'[x] = co[x]
    BY <1>1 DEF BaseInv, TypeInv
  <1>5. Steady
    BY <1>1, <1>3, <1>4, Untouched, AlikeSelf DEF Steady, q
  <1>6. Announces
    BY <1>2, <1>3, <1>4 DEF Announces
  <1> QED BY <1>3, <1>5, <1>6 DEF Orderly, Moves

\* The connection that a hello leaves behind.
LEMMA GreetedIs ==
  ASSUME NEW r \in Process, NEW i \in Nat, NEW reached \in SUBSET Witnesses
  PROVE  /\ Greeted(r, i, reached) \in Process
         /\ Greeted(r, i, reached).pc = "idle" /\ Greeted(r, i, reached).inc = i
         /\ Greeted(r, i, reached).domain = r.domain /\ Greeted(r, i, reached).epoch = r.epoch
         /\ Greeted(r, i, reached).token = r.token /\ Greeted(r, i, reached).grant = r.grant
  <1>1. Greeted(r, i, reached) = [r EXCEPT !.pc = "idle", !.up = TRUE, !.links = reached, !.inc = i]
    BY DEF Greeted
  <1>2. [r EXCEPT !.pc = "idle", !.up = TRUE, !.links = reached, !.inc = i] \in Process
    BY DEF Process
  <1> QED BY <1>1, <1>2 DEF Process

\* connect(): the registry gives out an incarnation, which c may not hear of.
LEMMA ConnectMoves ==
  ASSUME BaseInv, NEW c \in Coordinators, NEW d \in Domains, NEW reached \in Reachable,
         Connect(c, d, reached)
  PROVE  Orderly
  <1> DEFINE r == IF co[c].pc = "off" THEN Idle(d) ELSE co[c]
             i == reg.inc + 1
             q == Greeted(r, i, reached)
  <1>1. /\ co[c] \in Process /\ co \in [Coordinators -> Process] /\ Lineage(reg)
        /\ reg \in RegistryState /\ reg.inc \in Nat
    BY DEF BaseInv, TypeInv, Lineage, RegistryState
  <1>2. /\ r \in Process
        /\ co[c].pc = "off" => r.epoch = 0
        /\ co[c].pc # "off" => r = co[c]
    <2>1. Idle(d) \in Process /\ Idle(d).epoch = 0
      BY IdleIs
    <2> QED BY <1>1, <2>1
  <1>3. reg' = Apply(reg, [kind |-> "IncarnationAllocate", inc |-> i]) /\ Answered(c, q, co[c])
    BY DEF Connect
  <1>4. i \in Nat /\ reg.inc =< i /\ reached \in SUBSET Witnesses
    BY <1>1, CoordinatorAssumption
  <1> HIDE DEF r, i
  <1>5. /\ reg' \in RegistryState /\ reg'.grants = reg.grants /\ reg'.gid = reg.gid
        /\ reg'.tok = reg.tok /\ reg'.inc = i /\ reg'.fencedInc = reg.fencedInc
    <2> DEFINE m == [kind |-> "IncarnationAllocate", inc |-> i]
    <2>1. m.inc = i /\ m.kind = "IncarnationAllocate" /\ reg' = Apply(reg, m)
      BY <1>3
    <2> HIDE DEF m
    <2> QED BY <1>1, <1>4, <2>1, CounterRecords
  <1>6. Closing(reg, reg', {}, 0)
    <2>1. reg.tok =< reg.tok /\ IsFiniteSet(reg.grants) /\ IsFiniteSet(reg.fencedInc)
          /\ IdsIdentify(reg)
      BY <1>1 DEF Lineage, RegistryState
    <2> QED BY <1>4, <1>5, <2>1, ClosingNothing
  <1>7. /\ q \in Process /\ q.pc = "idle" /\ q.inc = i /\ q.domain = r.domain
        /\ q.epoch = r.epoch /\ q.token = r.token /\ q.grant = r.grant
    BY <1>2, <1>4, GreetedIs
  <1> HIDE DEF q
  <1>8. /\ co' \in [Coordinators -> Process]
        /\ \A x \in Coordinators \ {c} : co'[x] = co[x]
        /\ co'[c] = q \/ (Alike(co[c], co'[c]) /\ co'[c].pc = co[c].pc)
    BY <1>1, <1>3, <1>7, AnsweredIs
  <1>9. Joined(co[c], q, i)
    BY <1>2, <1>7 DEF Joined
  <1>10. Joining(c)
    BY <1>5, <1>6, <1>8, <1>9 DEF Joining, i
  <1>11. Announces
    BY <1>7, <1>8 DEF Announces, Alike
  <1> QED BY <1>8, <1>10, <1>11 DEF Orderly, Moves

\* acquire_authority(): the registry grants c an epoch, or leaves it without.
LEMMA AcquireMoves ==
  ASSUME BaseInv, NEW c \in Coordinators, Acquire(c)
  PROVE  Orderly
  <1> DEFINE r == co[c]
             s == AllocateEpoch(reg, r.domain, r.inc)
             gone == [r EXCEPT !.pc = "idle"]
             won == [r EXCEPT !.epoch = MaxEpoch(s, r.domain), !.token = s.tok,
                              !.grant = s.gid, !.step = now', !.authority = TRUE, !.todo = Count]
  <1>1. /\ r \in Process /\ co \in [Coordinators -> Process] /\ Lineage(reg) /\ now \in Nat
        /\ reg \in RegistryState /\ reg.inc \in Nat /\ reg.boot \in Nat
    BY DEF BaseInv, TypeInv, Lineage, RegistryState
  <1>2. r.inc \in Nat /\ r.domain \in Domains /\ r.pc = "acquire"
    BY <1>1 DEF Process, Acquire
  <1>3. gone \in Process /\ Alike(r, gone) /\ gone.pc = "idle"
    BY <1>1 DEF Process, Alike
  <1> DEFINE Served == /\ r.up /\ MayAllocate(reg, r.inc)
                       /\ reg' = s /\ now' = now + 1
                       /\ Answered(c, NextAttempt(won), gone)
  <1>4. (co' = [co EXCEPT ![c] = gone] /\ reg' = reg) \/ Served
    BY Zenon DEF Acquire, registry
  <1>5. CASE co' = [co EXCEPT ![c] = gone] /\ reg' = reg
    <2> HIDE DEF gone
    <2> QED BY <1>3, <1>5, Untouched, Replaced
  <1>6. CASE Served
    <2>1. /\ MayAllocate(reg, r.inc) /\ reg' = s /\ now' = now + 1
          /\ Answered(c, NextAttempt(won), gone)
      BY <1>6
    <2>2. r.inc \in 1..reg.inc
      BY <1>1, <1>2, <2>1 DEF MayAllocate
    <2>3. PICK t : Granting(reg, t, s, r.domain, r.inc)
      BY <1>1, <1>2, AllocateIs
    <2>4. Lineage(s) /\ s.gid \in Nat /\ s.tok \in Nat /\ MaxEpoch(s, r.domain) \in Nat
      <3>1. Lineage(s)
        BY <1>1, <1>2, <2>2, <2>3, GrantingLineage
      <3>2. s.gid \in Nat /\ s.tok \in Nat
        BY <3>1 DEF Lineage, RegistryState
      <3>3. MaxEpoch(s, r.domain) \in 0..s.gid
        BY <3>1, MaxEpochIs
      <3> QED BY <3>1, <3>2, <3>3
    <2> HIDE DEF s, gone
    <2>5. /\ won \in Process /\ won.domain = r.domain /\ won.inc = r.inc /\ won.pc = "acquire"
          /\ won.epoch = MaxEpoch(s, r.domain) /\ won.token = s.tok /\ won.grant = s.gid
      <3> DEFINE e == MaxEpoch(s, r.domain)
      <3>1. e \in Nat /\ now' \in Nat /\ Count \in Nat
        BY <1>1, <2>1, <2>4, CoordinatorAssumption
      <3>2. won = [r EXCEPT !.epoch = e, !.token = s.tok, !.grant = s.gid, !.step = now',
                            !.authority = TRUE, !.todo = Count]
        OBVIOUS
      <3> HIDE DEF e, won, r
      <3>3. ASSUME NEW a \in Nat, NEW b \in Nat, NEW k \in Nat, NEW m \in Nat, NEW z \in Nat
            PROVE  /\ [r EXCEPT !.epoch = a, !.token = b, !.grant = k, !.step = m,
                                !.authority = TRUE, !.todo = z] \in Process
        BY <1>1 DEF Process
      <3>4. won \in Process
        BY <2>4, <3>1, <3>2, <3>3
      <3>5. /\ won.domain = r.domain /\ won.inc = r.inc /\ won.pc = r.pc
            /\ won.epoch = e /\ won.token = s.tok /\ won.grant = s.gid
        BY <1>1, <3>2 DEF Process
      <3> QED BY <1>2, <3>4, <3>5 DEF e
    <2> HIDE DEF won
    <2>6. /\ NextAttempt(won) \in Process /\ Alike(won, NextAttempt(won))
          /\ NextAttempt(won).pc \in {"idle", "collect"}
      BY <2>5, NextAttemptIs
    <2>7. Holds(r, NextAttempt(won), s)
      BY <2>5, <2>6 DEF Alike, Holds
    <2>8. /\ co' \in [Coordinators -> Process]
          /\ \A x \in Coordinators \ {c} : co'[x] = co[x]
          /\ co'[c] = NextAttempt(won) \/ (Alike(gone, co'[c]) /\ co'[c].pc = gone.pc)
      BY <1>1, <1>3, <2>1, <2>6, AnsweredIs
    <2>9. Alike(r, co'[c]) \/ Holds(r, co'[c], reg')
      BY <1>3, <2>1, <2>7, <2>8 DEF Alike
    <2>10. Granted(c, t)
      BY <2>1, <2>2, <2>3, <2>8, <2>9 DEF Granted
    <2>11. Announces
      BY <1>3, <2>6, <2>8 DEF Announces
    <2> QED BY <2>8, <2>10, <2>11 DEF Orderly, Moves
  <1> QED BY <1>4, <1>5, <1>6

\* Asking one more witness leaves the name alone.
LEMMA HeardIs ==
  ASSUME NEW r \in Process, NEW S \in SUBSET Statement
  PROVE  Heard(r, S) \in Process /\ Alike(r, Heard(r, S)) /\ Heard(r, S).pc = r.pc
  <1> DEFINE a == r.asked + 1
             b == r.bundle \cup S
  <1>1. a \in Nat /\ b \in SUBSET Statement
    BY DEF Process
  <1>2. Heard(r, S) = [r EXCEPT !.asked = a, !.bundle = b]
    BY DEF Heard
  <1> HIDE DEF a, b
  <1>3. [r EXCEPT !.asked = a, !.bundle = b] \in Process
    BY <1>1 DEF Process
  <1> QED BY <1>2, <1>3 DEF Process, Alike

\* The claim a coordinator has attested is about its own domain.
LEMMA ClaimIs ==
  ASSUME NEW r \in Process
  PROVE  /\ ClaimOf(r) \in Claim /\ ClaimOf(r).subject = r.domain /\ ClaimOf(r).epoch = r.epoch
         /\ ClaimOf(r).inc = r.inc /\ ClaimOf(r).token = r.token
  BY CoordinatorAssumption DEF ClaimOf, Claim, Process

\* What a witness notes is a memory again.
LEMMA AttestedIs ==
  ASSUME NEW m \in [Subjects -> Memory], NEW k \in Claim
  PROVE  /\ Attested(m, k) \in [Subjects -> Memory]
         /\ \A s \in Subjects \ {k.subject} : Attested(m, k)[s] = m[s]
         /\ Attested(m, k)[k.subject].epoch = k.epoch /\ Attested(m, k)[k.subject].inc = k.inc
         /\ Attested(m, k)[k.subject].token = k.token /\ Attested(m, k)[k.subject].gen \in Nat
  <1> DEFINE v == [epoch |-> k.epoch, inc |-> k.inc, token |-> k.token, gen |-> m[k.subject].gen + 1]
  <1>1. k.subject \in Subjects /\ v \in Memory
    BY DEF Claim, Memory
  <1>2. v.epoch = k.epoch /\ v.inc = k.inc /\ v.token = k.token /\ v.gen \in Nat
    BY <1>1 DEF Memory
  <1>3. Attested(m, k) = [m EXCEPT ![k.subject] = v]
    BY DEF Attested
  <1> HIDE DEF v
  <1> QED BY <1>1, <1>2, <1>3

\* The three outcomes of asking a witness.
LEMMA CollectIs ==
  ASSUME BaseInv, NEW c \in Coordinators, Collect(c)
  PROVE  \E w \in Witnesses, q \in Process :
           /\ reg' = reg /\ co' = [co EXCEPT ![c] = q] /\ Alike(co[c], q) /\ q.pc = "collect"
           /\ \/ memory' = memory /\ lastSeq' = lastSeq
              \/ /\ memory' = [memory EXCEPT ![w] = Attested(memory[w], ClaimOf(co[c]))]
                 /\ lastSeq' = [lastSeq EXCEPT ![w] = lastSeq[w] + 1]
  <1> DEFINE r == co[c]
             k == ClaimOf(r)
             w == WitnessOrder[r.asked + 1]
             told == Attested(memory[w], k)
             seq == lastSeq[w] + 1
             a == Attestation(w, k, told, seq, r.step)
             cut == [Heard(r, {}) EXCEPT !.links = r.links \ {w}]
  <1>1. /\ r \in Process /\ r.pc = "collect" /\ r.asked \in Nat /\ r.step \in Nat
        /\ r.asked < Len(WitnessOrder) /\ reg' = reg
    BY DEF BaseInv, TypeInv, Process, Collect, registry
  <1>2. w \in Witnesses
    <2>1. WitnessOrder \in Seq(Witnesses)
      BY CoordinatorAssumption
    <2>2. r.asked + 1 \in 1..Len(WitnessOrder)
      BY <1>1, <2>1
    <2> QED BY <2>1, <2>2
  <1>3. k \in Claim /\ memory[w] \in [Subjects -> Memory] /\ lastSeq[w] \in Nat
    BY <1>1, <1>2, ClaimIs DEF BaseInv, TypeInv
  <1>4. a \in Statement
    <2>1. told[k.subject].gen \in Nat
      BY <1>3, AttestedIs
    <2>2. Profile.generation \in Nat /\ Horizon \in Nat
      <3>1. Profile.generation \in Nat
        BY ProfileAssumption DEF QuorumProfile
      <3> QED BY <3>1, WitnessConfig
    <2>3. k.subject \in Subjects /\ k.epoch \in Nat /\ k.inc \in Nat /\ k.token \in Nat
      BY <1>3 DEF Claim
    <2>4. seq \in Nat
      BY <1>3
    <2>5. r.step + Horizon \in Nat
      BY <1>1, <2>2
    <2> HIDE DEF w, k, told, seq
    <2> QED BY <1>1, <1>2, <2>1, <2>2, <2>3, <2>4, <2>5 DEF Attestation, Statement
  <1>5. \/ co' = [co EXCEPT ![c] = Heard(r, {})] /\ memory' = memory /\ lastSeq' = lastSeq
        \/ /\ memory' = [memory EXCEPT ![w] = told] /\ lastSeq' = [lastSeq EXCEPT ![w] = seq]
           /\ co' = [co EXCEPT ![c] = Heard(r, {a})] \/ co' = [co EXCEPT ![c] = cut]
    BY Zenon DEF Collect
  <1>6. /\ Heard(r, {}) \in Process /\ Alike(r, Heard(r, {})) /\ Heard(r, {}).pc = "collect"
    <2>1. {} \in SUBSET Statement
      OBVIOUS
    <2> QED BY <1>1, <2>1, HeardIs
  <1>7. Heard(r, {a}) \in Process /\ Alike(r, Heard(r, {a})) /\ Heard(r, {a}).pc = "collect"
    <2>1. {a} \in SUBSET Statement
      BY <1>4
    <2> HIDE DEF a
    <2> QED BY <1>1, <2>1, HeardIs
  <1>8. cut \in Process /\ Alike(r, cut) /\ cut.pc = "collect"
    <2> DEFINE h == Heard(r, {})
               l == r.links \ {w}
    <2>1. l \in SUBSET Witnesses
      BY <1>1 DEF Process
    <2>2. h \in Process /\ Alike(r, h) /\ h.pc = "collect" /\ cut = [h EXCEPT !.links = l]
      BY <1>6
    <2> HIDE DEF h, l, cut, r
    <2>3. [h EXCEPT !.links = l] \in Process
      BY <2>1, <2>2 DEF Process
    <2>4. Alike(h, [h EXCEPT !.links = l]) /\ [h EXCEPT !.links = l].pc = h.pc
      BY <2>2 DEF Process, Alike
    <2> QED BY <2>2, <2>3, <2>4 DEF Alike
  <1> HIDE DEF w, a, cut, told, seq
  <1>9. CASE co' = [co EXCEPT ![c] = Heard(r, {})] /\ memory' = memory /\ lastSeq' = lastSeq
    BY <1>1, <1>2, <1>6, <1>9
  <1>10. CASE /\ memory' = [memory EXCEPT ![w] = told] /\ lastSeq' = [lastSeq EXCEPT ![w] = seq]
              /\ co' = [co EXCEPT ![c] = Heard(r, {a})] \/ co' = [co EXCEPT ![c] = cut]
    BY <1>1, <1>2, <1>7, <1>8, <1>10 DEF told, seq
  <1> QED BY <1>5, <1>9, <1>10

\* collect_evidence() does not concern the registry.
LEMMA CollectMoves ==
  ASSUME BaseInv, NEW c \in Coordinators, Collect(c)
  PROVE  Orderly
  <1>1. PICK q \in Process : /\ reg' = reg /\ co' = [co EXCEPT ![c] = q] /\ Alike(co[c], q)
                             /\ q.pc = "collect"
    BY CollectIs
  <1> QED BY <1>1, Untouched, Replaced

\* Without the grant the registry decides against the coordinator.
LEMMA AuthoritativeHeld ==
  ASSUME NEW s, NEW r, NEW step, "Authoritative" \in Decide(s, r, step)
  PROVE  Held(s, r) # {}
  BY DEF Decide

\* The decision of an authoritative verdict.
Decision(r, until) ==
  [grant |-> r.grant, domain |-> r.domain, scope |-> Home[r.domain], epoch |-> r.epoch,
   inc |-> r.inc, token |-> r.token, policyGen |-> Policy.generation, fenceGen |-> fenceGen,
   validUntil |-> until]

\* evaluate() changes nothing but the coordinator, or adds a decision for a grant
\* that is open.
LEMMA EvaluateIs ==
  ASSUME BaseInv, NEW c \in Coordinators, Evaluate(c)
  PROVE  /\ reg' = reg /\ now' \in Nat
         /\ co' \in [Coordinators -> Process]
         /\ \A x \in Coordinators \ {c} : co'[x] = co[x]
         /\ Alike(co[c], co'[c])
         /\ \/ decided' = decided /\ co'[c].pc # "commit"
            \/ /\ Held(reg, co[c]) # {}
               /\ \E until : decided' = decided \cup {Decision(co[c], until)}
  <1> DEFINE r == co[c]
             ok == [r EXCEPT !.pc = "commit", !.bundle = {}]
  <1>1. r \in Process /\ co \in [Coordinators -> Process] /\ now \in Nat
    BY DEF BaseInv, TypeInv
  <1>2. /\ Failed(r) \in Process /\ Alike(r, Failed(r)) /\ Failed(r).pc # "commit"
    BY <1>1, NextAttemptIs
  <1>3. ok \in Process /\ Alike(r, ok)
    <2>1. ASSUME NEW none \in SUBSET Statement
          PROVE  [r EXCEPT !.pc = "commit", !.bundle = none] \in Process
      BY <1>1 DEF Process
    <2>2. ok \in Process
      BY <2>1
    <2>3. Alike(r, ok)
      BY <1>1 DEF Process, Alike
    <2> QED BY <2>2, <2>3
  <1>4. reg' = reg /\ r.pc = "collect"
    BY DEF Evaluate
  <1> DEFINE Won == /\ "Authoritative" \in Decide(reg, r, now')
                    /\ decided' = decided \cup {Decision(r, now' + LeaseHorizon)}
                    /\ Answered(c, ok, Failed(r))
  <1>5. \/ now' = now /\ decided' = decided /\ co' = [co EXCEPT ![c] = Failed(r)]
        \/ /\ now' = now + 1
           /\ Won \/ (decided' = decided /\ Answered(c, Failed(r), Failed(r)))
    BY DEF Evaluate, Decision
  <1>6. now' \in Nat
    BY <1>1, <1>5
  <1> HIDE DEF ok
  <1>7. CASE decided' = decided /\ co' = [co EXCEPT ![c] = Failed(r)]
    BY <1>1, <1>2, <1>4, <1>6, <1>7
  <1>8. CASE decided' = decided /\ Answered(c, Failed(r), Failed(r))
    <2>1. /\ co' \in [Coordinators -> Process] /\ \A x \in Coordinators \ {c} : co'[x] = co[x]
          /\ co'[c] = Failed(r) \/ (Alike(Failed(r), co'[c]) /\ co'[c].pc = Failed(r).pc)
      BY <1>1, <1>2, <1>8, AnsweredIs
    <2>2. Alike(r, co'[c]) /\ co'[c].pc # "commit"
      BY <1>2, <2>1 DEF Alike
    <2> QED BY <1>4, <1>6, <1>8, <2>1, <2>2
  <1>9. CASE Won
    <2>1. /\ co' \in [Coordinators -> Process] /\ \A x \in Coordinators \ {c} : co'[x] = co[x]
          /\ co'[c] = ok \/ (Alike(Failed(r), co'[c]) /\ co'[c].pc = Failed(r).pc)
      BY <1>1, <1>2, <1>3, <1>9, AnsweredIs
    <2>2. Alike(r, co'[c])
      BY <1>2, <1>3, <2>1 DEF Alike
    <2>3. Held(reg, r) # {}
      BY <1>9, AuthoritativeHeld
    <2> QED BY <1>4, <1>6, <1>9, <2>1, <2>2, <2>3
  <1> QED BY <1>5, <1>7, <1>8, <1>9

\* evaluate(): who goes on to commit was decided for.
LEMMA EvaluateMoves ==
  ASSUME BaseInv, NEW c \in Coordinators, Evaluate(c)
  PROVE  Orderly
  <1>1. /\ reg' = reg
        /\ co' \in [Coordinators -> Process]
        /\ \A x \in Coordinators \ {c} : co'[x] = co[x]
        /\ Alike(co[c], co'[c])
        /\ \/ co'[c].pc # "commit"
           \/ \E until : decided' = decided \cup {Decision(co[c], until)}
    BY EvaluateIs
  <1>2. co'[c].pc = "commit" => \E d \in decided' : d.grant = co'[c].grant
    <2>1. \A until : Decision(co[c], until).grant = co[c].grant
      BY DEF Decision
    <2>2. co'[c].grant = co[c].grant
      BY <1>1 DEF Alike
    <2> QED BY <1>1, <2>1, <2>2
  <1> QED BY <1>1, <1>2, Untouched, Turn

\* commit() changes nothing but the coordinator, or admits one mutation for a
\* grant that is open and raises the fabric's floors to its token.
LEMMA CommitIs ==
  ASSUME BaseInv, NEW c \in Coordinators, Commit(c)
  PROVE  /\ reg' = reg /\ decided' = decided /\ now' \in Nat /\ co[c].pc = "commit"
         /\ co' \in [Coordinators -> Process]
         /\ \A x \in Coordinators \ {c} : co'[x] = co[x]
         /\ Alike(co[c], co'[c]) /\ co'[c].pc # "commit"
         /\ \/ floor' = floor /\ effects' = effects
            \/ /\ Held(reg, co[c]) # {}
               /\ effects' = Append(effects, [grant |-> co[c].grant, scope |-> Home[co[c].domain],
                                              token |-> co[c].token])
               /\ floor' = [e \in Extents |-> IF e \in Home[co[c].domain]
                                              THEN [hw |-> co[c].token, owner |-> co[c].inc]
                                              ELSE floor[e]]
  <1> DEFINE r == co[c]
             added == Append(effects, [grant |-> r.grant, scope |-> Home[r.domain],
                                       token |-> r.token])
             raised == [e \in Extents |-> IF e \in Home[r.domain]
                                          THEN [hw |-> r.token, owner |-> r.inc] ELSE floor[e]]
  <1>1. /\ r \in Process /\ co \in [Coordinators -> Process] /\ now \in Nat
        /\ reg' = reg /\ decided' = decided /\ r.pc = "commit"
    BY DEF BaseInv, TypeInv, Commit
  <1>2. /\ Failed(r) \in Process /\ Alike(r, Failed(r)) /\ Failed(r).pc # "commit"
        /\ NextAttempt(r) \in Process /\ Alike(r, NextAttempt(r)) /\ NextAttempt(r).pc # "commit"
    BY <1>1, NextAttemptIs
  <1> DEFINE Done == /\ Admits(reg, r) /\ effects' = added /\ floor' = raised
                     /\ Answered(c, NextAttempt(r), Failed(r))
  <1>3. /\ now' = now \/ now' = now + 1
        /\ \/ co' = [co EXCEPT ![c] = Failed(r)] /\ floor' = floor /\ effects' = effects
           \/ Done
    BY DEF Commit, fabric
  <1>4. now' \in Nat
    BY <1>1, <1>3
  <1> HIDE DEF added, raised
  <1>5. CASE co' = [co EXCEPT ![c] = Failed(r)] /\ floor' = floor /\ effects' = effects
    BY <1>1, <1>2, <1>4, <1>5
  <1>6. CASE Done
    <2>1. /\ co' \in [Coordinators -> Process] /\ \A x \in Coordinators \ {c} : co'[x] = co[x]
          /\ co'[c] = NextAttempt(r) \/ (Alike(Failed(r), co'[c]) /\ co'[c].pc = Failed(r).pc)
      BY <1>1, <1>2, <1>6, AnsweredIs
    <2>2. Alike(r, co'[c]) /\ co'[c].pc # "commit"
      BY <1>2, <2>1 DEF Alike
    <2>3. Held(reg, r) # {}
      BY <1>6 DEF Admits
    <2> QED BY <1>1, <1>4, <1>6, <2>1, <2>2, <2>3 DEF added, raised
  <1> QED BY <1>3, <1>5, <1>6

\* A commit leaves the registry's lineage alone.
LEMMA CommitMoves ==
  ASSUME BaseInv, NEW c \in Coordinators, Commit(c)
  PROVE  Orderly
  <1>1. /\ reg' = reg /\ co' \in [Coordinators -> Process]
        /\ \A x \in Coordinators \ {c} : co'[x] = co[x]
        /\ Alike(co[c], co'[c]) /\ co'[c].pc # "commit"
    BY CommitIs
  <1> QED BY <1>1, Untouched, Turn

\* release(): the grant it names ends, if it is open.
LEMMA ReleaseMoves ==
  ASSUME BaseInv, NEW c \in Coordinators, Release(c)
  PROVE  Orderly
  <1> DEFINE r == co[c]
             G == {g \in OpenGrants(reg) : g.id = r.grant}
             s == FenceGrants(reg, G, 0, "Closed")
             q == [r EXCEPT !.authority = r.authority /\ G = {}]
  <1>1. /\ r \in Process /\ co \in [Coordinators -> Process] /\ Lineage(reg)
        /\ IsFiniteSet(reg.grants)
    BY DEF BaseInv, TypeInv, Lineage
  <1>2. r.pc = "idle" /\ reg' = s /\ Answered(c, q, r)
    BY DEF Release
  <1>3. G \in SUBSET OpenGrants(reg) /\ "Closed" \in GrantStates \ {"Open"}
    BY DEF GrantStates
  <1>4. q \in Process /\ Alike(r, q) /\ q.pc = "idle"
    <2> DEFINE b == r.authority /\ G = {}
    <2>1. b \in BOOLEAN /\ q = [r EXCEPT !.authority = b]
      OBVIOUS
    <2> HIDE DEF b, q, r
    <2>2. [r EXCEPT !.authority = b] \in Process
      BY <1>1, <2>1 DEF Process
    <2> QED BY <1>1, <1>2, <2>1, <2>2 DEF Process, Alike
  <1> HIDE DEF G, q
  <1>5. Closing(reg, s, G, 0)
    BY <1>1, <1>3, LineageEnding, FenceGrantsCloses
  <1>6. /\ co' \in [Coordinators -> Process] /\ \A x \in Coordinators \ {c} : co'[x] = co[x]
        /\ co'[c] = q \/ (Alike(r, co'[c]) /\ co'[c].pc = r.pc)
    BY <1>1, <1>2, <1>4, AnsweredIs
  <1>7. Alike(r, co'[c]) /\ co'[c].pc # "commit"
    BY <1>2, <1>4, <1>6
  <1> QED BY <1>2, <1>3, <1>5, <1>6, <1>7, Turn

\* The coordinators keep their names and their places.
LEMMA AllAlike ==
  ASSUME BaseInv, \E G \in SUBSET OpenGrants(reg) : Closing(reg, reg', G, 0),
         co' \in [Coordinators -> Process],
         \A c \in Coordinators : Alike(co[c], co'[c]) /\ co'[c].pc = co[c].pc
  PROVE  Orderly
  <1>1. Steady
    BY DEF Steady
  <1>2. Announces
    BY DEF Announces, Alike
  <1> QED BY <1>1, <1>2 DEF Orderly, Moves

\* An operator's fence ends the open grants of a domain.
LEMMA OperatorFenceMoves ==
  ASSUME BaseInv, NEW d \in Domains, OperatorFence(d)
  PROVE  Orderly
  <1> DEFINE G == {g \in OpenGrants(reg) : g.domain = d}
             s == FenceGrants(reg, G, 0, "Fenced")
             f == [kind |-> "Fence", token |-> reg.tok + 1, domain |-> d, scope |-> Home[d],
                   epoch |-> 0, inc |-> 0]
  <1>1. /\ Lineage(reg) /\ co \in [Coordinators -> Process] /\ co' = co
        /\ IsFiniteSet(reg.grants)
    BY DEF BaseInv, TypeInv, OperatorFence, Lineage
  <1>2. \E H \in SUBSET OpenGrants(reg) : Closing(reg, reg', H, 0)
    <2>1. CASE G # {}
      <3>1. reg' = s
        BY <2>1 DEF OperatorFence
      <3>2. G \in SUBSET OpenGrants(reg) /\ "Fenced" \in GrantStates \ {"Open"}
        BY DEF GrantStates
      <3> HIDE DEF G
      <3>3. Closing(reg, s, G, 0)
        BY <1>1, <3>2, LineageEnding, FenceGrantsCloses
      <3> QED BY <3>1, <3>2, <3>3
    <2>2. CASE G = {}
      <3>1. reg' = Apply(reg, f)
        BY <2>2 DEF OperatorFence
      <3>2. reg \in RegistryState /\ reg.tok \in Nat /\ reg.inc \in Nat
        BY <1>1 DEF Lineage, RegistryState
      <3>3. f \in FenceRecords /\ f.inc = 0 /\ f.token = reg.tok + 1
        BY <3>2, CoordinatorAssumption DEF FenceRecords
      <3> HIDE DEF f
      <3>4. /\ reg' \in RegistryState /\ reg'.grants = reg.grants
            /\ reg'.tok = Raise(reg.tok, reg.tok + 1) /\ reg'.gid = reg.gid
            /\ reg'.inc = reg.inc /\ reg'.fencedInc = reg.fencedInc
        BY <3>1, <3>2, <3>3, FenceIs
      <3>5. reg.tok =< reg'.tok /\ reg.inc =< reg'.inc
        BY <3>2, <3>4 DEF Raise
      <3>6. Closing(reg, reg', {}, 0)
        BY <1>1, <3>4, <3>5, ClosingNothing DEF Lineage
      <3> QED BY <3>6
    <2> QED BY <2>1, <2>2
  <1> QED BY <1>1, <1>2, AlikeSelf, AllAlike

\* A restart of the registry ends every open grant.
LEMMA RegistryRestartMoves ==
  ASSUME BaseInv, RegistryRestart
  PROVE  Orderly
  <1> DEFINE G == OpenGrants(reg)
             s == FenceGrants(reg, G, 0, "Interrupted")
             b == [kind |-> "BootBegin", inc |-> s.inc + 1]
  <1>1. /\ Lineage(reg) /\ co \in [Coordinators -> Process] /\ reg \in RegistryState
        /\ IsFiniteSet(reg.grants)
    BY DEF BaseInv, TypeInv, Lineage
  <1>2. /\ reg' = Apply(s, b)
        /\ co' = [c \in Coordinators |-> [co[c] EXCEPT !.up = FALSE]]
    BY DEF RegistryRestart
  <1>3. Closing(reg, s, G, 0)
    <2>1. G \in SUBSET OpenGrants(reg) /\ "Interrupted" \in GrantStates \ {"Open"}
      BY DEF GrantStates
    <2> HIDE DEF G
    <2> QED BY <1>1, <2>1, LineageEnding, FenceGrantsCloses
  <1>4. Closing(reg, reg', G, 0)
    <2>1. s \in RegistryState /\ s.inc \in Nat /\ s.tok \in Nat
      BY <1>3 DEF Closing, RegistryState
    <2>2. b.inc = s.inc + 1 /\ b.kind = "BootBegin" /\ s.inc + 1 \in Nat /\ s.inc =< s.inc + 1
      BY <2>1
    <2> HIDE DEF s, b, G
    <2>3. /\ reg' \in RegistryState /\ reg'.grants = s.grants /\ reg'.gid = s.gid
          /\ reg'.tok = s.tok /\ reg'.inc = s.inc + 1 /\ reg'.fencedInc = s.fencedInc
      BY <1>2, <2>1, <2>2, CounterRecords
    <2>4. s.tok =< reg'.tok
      BY <2>1, <2>3
    <2> QED BY <1>1, <1>3, <2>2, <2>3, <2>4, ClosingThen
  <1>5. \A r \in Process : /\ [r EXCEPT !.up = FALSE] \in Process
                           /\ Alike(r, [r EXCEPT !.up = FALSE])
                           /\ [r EXCEPT !.up = FALSE].pc = r.pc
    BY DEF Process, Alike
  <1>6. /\ co' \in [Coordinators -> Process]
        /\ \A c \in Coordinators : Alike(co[c], co'[c]) /\ co'[c].pc = co[c].pc
    BY <1>1, <1>2, <1>5
  <1> QED BY <1>4, <1>6, AllAlike

\* A restart of a witness leaves registry and names alone.
LEMMA WitnessRestartMoves ==
  ASSUME BaseInv, NEW w \in Witnesses, WitnessRestart(w)
  PROVE  Orderly
  <1>1. /\ co \in [Coordinators -> Process] /\ reg' = reg
        /\ co' = [c \in Coordinators |-> [co[c] EXCEPT !.links = co[c].links \ {w}]]
    BY DEF BaseInv, TypeInv, WitnessRestart, registry
  <1>2. ASSUME NEW r \in Process
        PROVE  /\ [r EXCEPT !.links = r.links \ {w}] \in Process
               /\ Alike(r, [r EXCEPT !.links = r.links \ {w}])
               /\ [r EXCEPT !.links = r.links \ {w}].pc = r.pc
    <2> DEFINE l == r.links \ {w}
    <2>1. l \in SUBSET Witnesses
      BY DEF Process
    <2> HIDE DEF l
    <2>2. [r EXCEPT !.links = l] \in Process
      BY <2>1 DEF Process
    <2>3. Alike(r, [r EXCEPT !.links = l]) /\ [r EXCEPT !.links = l].pc = r.pc
      BY DEF Process, Alike
    <2> QED BY <2>2, <2>3 DEF l
  <1>3. /\ co' \in [Coordinators -> Process]
        /\ \A c \in Coordinators : Alike(co[c], co'[c]) /\ co'[c].pc = co[c].pc
    BY <1>1, <1>2
  <1> QED BY <1>1, <1>3, Untouched, AllAlike

\* Every step is orderly.
LEMMA StepMoves ==
  ASSUME BaseInv, [Next]_vars
  PROVE  Orderly
  <1>1. CASE UNCHANGED vars
    <2>1. reg' = reg /\ co' = co /\ co \in [Coordinators -> Process]
      BY <1>1 DEF vars, BaseInv, TypeInv
    <2> QED BY <2>1, Untouched, AlikeSelf, AllAlike
  <1>2. ASSUME NEW c \in Coordinators, NEW d \in Domains, NEW reached \in Reachable,
               Connect(c, d, reached)
        PROVE  Orderly
    BY <1>2, ConnectMoves
  <1>3. ASSUME NEW c \in Coordinators,
               \/ Mutate(c) \/ Acquire(c) \/ Collect(c) \/ Evaluate(c) \/ Commit(c)
               \/ Release(c) \/ Break(c) \/ Exit(c)
        PROVE  Orderly
    BY <1>3, MutateMoves, AcquireMoves, CollectMoves, EvaluateMoves, CommitMoves, ReleaseMoves,
       BreakMoves, ExitMoves
  <1>4. ASSUME NEW d \in Domains, OperatorFence(d) PROVE Orderly
    BY <1>4, OperatorFenceMoves
  <1>5. ASSUME NEW w \in Witnesses, WitnessRestart(w) PROVE Orderly
    BY <1>5, WitnessRestartMoves
  <1> QED BY <1>1, <1>2, <1>3, <1>4, <1>5, RegistryRestartMoves DEF Next

-----------------------------------------------------------------------------
(* What a step does to the witnesses, to the decisions and to the fabric. *)

\* A witness keeps what it knows of a subject, forgets it, or notes the claim of
\* a coordinator of that domain.
Votes ==
  \A w \in Witnesses, s \in Subjects :
    \/ memory'[w][s] = memory[w][s]
    \/ memory'[w][s].epoch = 0
    \/ \E c \in Coordinators :
         /\ s = co'[c].domain /\ memory'[w][s].epoch = co'[c].epoch
         /\ memory'[w][s].inc = co'[c].inc /\ memory'[w][s].token = co'[c].token

\* A decision is added for a coordinator whose grant is open.
Decides ==
  \/ decided' = decided
  \/ /\ reg' = reg /\ floor' = floor
     /\ \E c \in Coordinators : /\ Held(reg, co[c]) # {}
                                /\ \E until : decided' = decided \cup {Decision(co[c], until)}

\* A mutation of c is admitted.
Admitted(c) ==
  /\ reg' = reg /\ decided' = decided
  /\ co[c].pc = "commit" /\ Held(reg, co[c]) # {}
  /\ effects' = Append(effects, [grant |-> co[c].grant, scope |-> Home[co[c].domain],
                                 token |-> co[c].token])
  /\ floor' = [e \in Extents |-> IF e \in Home[co[c].domain]
                                 THEN [hw |-> co[c].token, owner |-> co[c].inc]
                                 ELSE floor[e]]

Admissions == (floor' = floor /\ effects' = effects) \/ \E c \in Coordinators : Admitted(c)

Witnessed ==
  /\ memory' \in [Witnesses -> [Subjects -> Memory]] /\ lastSeq' \in [Witnesses -> Nat]
  /\ Votes

Recorded == Witnessed /\ Decides /\ Admissions /\ now' \in Nat

\* Most steps leave all of it alone.
LEMMA NothingRecorded ==
  ASSUME BaseInv, memory' = memory, lastSeq' = lastSeq
  PROVE  Witnessed
  BY DEF BaseInv, TypeInv, Witnessed, Votes

\* collect_evidence(): the witness that is asked notes the claim, or nothing.
LEMMA CollectRecords ==
  ASSUME BaseInv, NEW c \in Coordinators, Collect(c)
  PROVE  Witnessed
  <1>1. PICK w \in Witnesses, q \in Process :
          /\ co' = [co EXCEPT ![c] = q] /\ Alike(co[c], q)
          /\ \/ memory' = memory /\ lastSeq' = lastSeq
             \/ /\ memory' = [memory EXCEPT ![w] = Attested(memory[w], ClaimOf(co[c]))]
                /\ lastSeq' = [lastSeq EXCEPT ![w] = lastSeq[w] + 1]
    BY CollectIs
  <1>2. CASE memory' = memory /\ lastSeq' = lastSeq
    BY <1>2, NothingRecorded
  <1>3. CASE /\ memory' = [memory EXCEPT ![w] = Attested(memory[w], ClaimOf(co[c]))]
             /\ lastSeq' = [lastSeq EXCEPT ![w] = lastSeq[w] + 1]
    <2> DEFINE k == ClaimOf(co[c])
               told == Attested(memory[w], k)
    <2>1. /\ co[c] \in Process /\ memory \in [Witnesses -> [Subjects -> Memory]]
          /\ lastSeq \in [Witnesses -> Nat] /\ co'[c] = q
      BY <1>1 DEF BaseInv, TypeInv
    <2>2. /\ k \in Claim /\ k.subject = q.domain /\ k.epoch = q.epoch /\ k.inc = q.inc
          /\ k.token = q.token
      BY <1>1, <2>1, ClaimIs DEF Alike
    <2>3. memory[w] \in [Subjects -> Memory]
      BY <2>1
    <2>4. memory' = [memory EXCEPT ![w] = told]
      BY <1>3
    <2> HIDE DEF k
    <2>5. /\ told \in [Subjects -> Memory]
          /\ \A s \in Subjects \ {k.subject} : told[s] = memory[w][s]
          /\ told[k.subject].epoch = k.epoch /\ told[k.subject].inc = k.inc
          /\ told[k.subject].token = k.token
      BY <2>2, <2>3, AttestedIs
    <2> HIDE DEF told
    <2>6. memory' \in [Witnesses -> [Subjects -> Memory]]
      BY <2>1, <2>4, <2>5
    <2>7. lastSeq' \in [Witnesses -> Nat]
      <3>1. lastSeq[w] + 1 \in Nat
        BY <2>1
      <3> QED BY <1>3, <2>1, <3>1
    <2>8. Votes
      <3> SUFFICES ASSUME NEW x \in Witnesses, NEW s \in Subjects
                   PROVE  \/ memory'[x][s] = memory[x][s]
                          \/ memory'[x][s].epoch = 0
                          \/ \E y \in Coordinators :
                               /\ s = co'[y].domain /\ memory'[x][s].epoch = co'[y].epoch
                               /\ memory'[x][s].inc = co'[y].inc
                               /\ memory'[x][s].token = co'[y].token
        BY DEF Votes
      <3>1. CASE x # w
        BY <2>1, <2>4, <3>1
      <3>2. CASE x = w /\ s # k.subject
        BY <2>1, <2>4, <2>5, <3>2
      <3>3. CASE x = w /\ s = k.subject
        <4>1. memory'[x] = told
          BY <2>1, <2>4, <3>3
        <4> QED BY <2>1, <2>2, <2>5, <3>3, <4>1
      <3> QED BY <3>1, <3>2, <3>3
    <2> QED BY <2>6, <2>7, <2>8 DEF Witnessed
  <1> QED BY <1>1, <1>2, <1>3

\* A witness that restarts remembers nothing.
LEMMA WitnessRestartRecords ==
  ASSUME BaseInv, NEW w \in Witnesses, WitnessRestart(w)
  PROVE  Witnessed
  <1> DEFINE none == [s \in Subjects |-> Nothing]
  <1>1. /\ memory' = [memory EXCEPT ![w] = none] /\ lastSeq' = [lastSeq EXCEPT ![w] = 0]
        /\ memory \in [Witnesses -> [Subjects -> Memory]] /\ lastSeq \in [Witnesses -> Nat]
    BY DEF BaseInv, TypeInv, WitnessRestart
  <1>2. none \in [Subjects -> Memory] /\ \A s \in Subjects : none[s].epoch = 0
    BY DEF Nothing, Memory
  <1> HIDE DEF none
  <1>3. /\ memory' \in [Witnesses -> [Subjects -> Memory]] /\ lastSeq' \in [Witnesses -> Nat]
    BY <1>1, <1>2
  <1>4. Votes
    BY <1>1, <1>2 DEF Votes
  <1> QED BY <1>3, <1>4 DEF Witnessed

\* Every step is recorded in one of these ways.
LEMMA StepRecorded ==
  ASSUME BaseInv, [Next]_vars
  PROVE  Recorded
  <1>0. now \in Nat
    BY DEF BaseInv, TypeInv
  <1>1. ASSUME memory' = memory, lastSeq' = lastSeq, decided' = decided, floor' = floor,
               effects' = effects, now' = now \/ now' = now + 1
        PROVE  Recorded
    BY <1>0, <1>1, NothingRecorded DEF Recorded, Decides, Admissions
  <1>2. CASE UNCHANGED vars
    BY <1>1, <1>2 DEF vars
  <1>3. ASSUME NEW c \in Coordinators, NEW d \in Domains, NEW reached \in Reachable,
               Connect(c, d, reached)
        PROVE  Recorded
    BY <1>1, <1>3 DEF Connect, fabric, witnesses
  <1>4. ASSUME NEW c \in Coordinators, Mutate(c) \/ Release(c) \/ Break(c) \/ Exit(c)
        PROVE  Recorded
    BY <1>1, <1>4 DEF Mutate, Release, Break, Exit, registry, fabric, witnesses
  <1>5. ASSUME NEW c \in Coordinators, Acquire(c) PROVE Recorded
    <2>1. now' = now \/ now' = now + 1
      BY <1>5 DEF Acquire, registry
    <2> QED BY <1>1, <1>5, <2>1 DEF Acquire, fabric, witnesses
  <1>6. ASSUME NEW c \in Coordinators, Collect(c) PROVE Recorded
    <2>1. now' = now /\ decided' = decided /\ floor' = floor /\ effects' = effects
      BY <1>6 DEF Collect, registry, fabric
    <2> QED BY <1>0, <1>6, <2>1, CollectRecords DEF Recorded, Decides, Admissions
  <1>7. ASSUME NEW c \in Coordinators, Evaluate(c) PROVE Recorded
    <2>1. memory' = memory /\ lastSeq' = lastSeq /\ floor' = floor /\ effects' = effects
      BY <1>7 DEF Evaluate, fabric, witnesses
    <2>2. /\ reg' = reg /\ now' \in Nat
          /\ \/ decided' = decided
             \/ /\ Held(reg, co[c]) # {}
                /\ \E until : decided' = decided \cup {Decision(co[c], until)}
      BY <1>7, EvaluateIs
    <2>3. Decides
      BY <2>1, <2>2 DEF Decides
    <2> QED BY <2>1, <2>2, <2>3, NothingRecorded DEF Recorded, Admissions
  <1>8. ASSUME NEW c \in Coordinators, Commit(c) PROVE Recorded
    <2>1. memory' = memory /\ lastSeq' = lastSeq
      BY <1>8 DEF Commit, witnesses
    <2>2. Admissions /\ decided' = decided /\ now' \in Nat
      BY <1>8, CommitIs DEF Admissions, Admitted
    <2> QED BY <2>1, <2>2, NothingRecorded DEF Recorded, Decides
  <1>9. ASSUME NEW d \in Domains, OperatorFence(d) PROVE Recorded
    BY <1>1, <1>9 DEF OperatorFence, fabric, witnesses
  <1>10. CASE RegistryRestart
    BY <1>1, <1>10 DEF RegistryRestart, fabric, witnesses
  <1>11. ASSUME NEW w \in Witnesses, WitnessRestart(w) PROVE Recorded
    <2>1. now' = now /\ decided' = decided /\ floor' = floor /\ effects' = effects
      BY <1>11 DEF WitnessRestart, registry, fabric
    <2> QED BY <1>0, <1>11, <2>1, WitnessRestartRecords DEF Recorded, Decides, Admissions
  <1> QED BY <1>2, <1>3, <1>4, <1>5, <1>6, <1>7, <1>8, <1>9, <1>10, <1>11 DEF Next

-----------------------------------------------------------------------------
(* Types and the lineage. *)

\* The holder of a grant holds it for its domain's scope.
LEMMA HeldIs ==
  ASSUME BaseInv, NEW c \in Coordinators, Held(reg, co[c]) # {}
  PROVE  \E g \in OpenGrants(reg) :
           /\ g \in reg.grants /\ g.domain = co[c].domain /\ g.epoch = co[c].epoch
           /\ g.inc = co[c].inc /\ g.token = co[c].token /\ g.scope = Home[co[c].domain]
  BY DEF Held, BaseInv, Lineage, OpenGrants

\* Every step keeps the types and the order of the lineage.
LEMMA BaseStep ==
  ASSUME BaseInv, [Next]_vars
  PROVE  BaseInv'
  <1>1. Orderly /\ Recorded
    BY StepMoves, StepRecorded
  <1>2. Lineage(reg')
    <2>0. Lineage(reg)
      BY DEF BaseInv
    <2>1. CASE Steady
      BY <2>0, <2>1, ClosingLineage DEF Steady
    <2>2. ASSUME NEW c \in Coordinators, Joining(c) PROVE Lineage(reg')
      <3>1. Closing(reg, reg', {}, 0) /\ {} \in SUBSET OpenGrants(reg)
        BY <2>2 DEF Joining
      <3> QED BY <2>0, <3>1, ClosingLineage
    <2>3. ASSUME NEW c \in Coordinators, NEW t, Granted(c, t) PROVE Lineage(reg')
      <3>1. co[c].domain \in Domains
        BY DEF BaseInv, TypeInv, Process
      <3>2. co[c].inc \in 1..reg.inc /\ Granting(reg, t, reg', co[c].domain, co[c].inc)
        BY <2>3 DEF Granted
      <3> QED BY <2>0, <3>1, <3>2, GrantingLineage
    <2> QED BY <1>1, <2>1, <2>2, <2>3 DEF Orderly, Moves
  <1>3. /\ now' \in Nat /\ co' \in [Coordinators -> Process]
        /\ memory' \in [Witnesses -> [Subjects -> Memory]] /\ lastSeq' \in [Witnesses -> Nat]
    BY <1>1 DEF Orderly, Recorded, Witnessed
  <1>4. /\ floor' \in [Extents -> Mark]
        /\ effects' \in Seq([grant: Nat, scope: SUBSET Extents, token: Nat])
    <2>0. /\ floor \in [Extents -> Mark]
          /\ effects \in Seq([grant: Nat, scope: SUBSET Extents, token: Nat])
      BY DEF BaseInv, TypeInv
    <2>1. CASE floor' = floor /\ effects' = effects
      BY <2>0, <2>1
    <2>2. ASSUME NEW c \in Coordinators, Admitted(c)
          PROVE  /\ floor' \in [Extents -> Mark]
                 /\ effects' \in Seq([grant: Nat, scope: SUBSET Extents, token: Nat])
      <3>1. /\ co[c].grant \in Nat /\ co[c].token \in Nat /\ co[c].inc \in Nat
            /\ Home[co[c].domain] \in SUBSET Extents
        BY CoordinatorAssumption DEF BaseInv, TypeInv, Process
      <3>2. [hw |-> co[c].token, owner |-> co[c].inc] \in Mark
        BY <3>1 DEF Mark
      <3>3. floor' \in [Extents -> Mark]
        BY <2>0, <2>2, <3>2 DEF Admitted
      <3> DEFINE m == [grant |-> co[c].grant, scope |-> Home[co[c].domain], token |-> co[c].token]
      <3>4. m \in [grant: Nat, scope: SUBSET Extents, token: Nat] /\ effects' = Append(effects, m)
        BY <2>2, <3>1 DEF Admitted
      <3> HIDE DEF m
      <3> QED BY <2>0, <3>3, <3>4
    <2> QED BY <1>1, <2>1, <2>2 DEF Recorded, Admissions
  <1> QED BY <1>2, <1>3, <1>4 DEF BaseInv, TypeInv

\* The lineage of a registry in its first boot is empty.
LEMMA BaseInit ==
  ASSUME Init
  PROVE  BaseInv
  <1>1. reg = [Blank EXCEPT !.domains = Home, !.inc = 1, !.boot = 1, !.openBoots = {1}]
    BY DEF Init
  <1>2. Home \in [Domains -> SUBSET Extents]
    BY CoordinatorAssumption
  <1>3. /\ reg.grants = {} /\ reg.fencedInc = {}
    BY <1>1 DEF Blank
  <1>4. reg \in RegistryState
    <2>1. [e \in Extents |-> [hw |-> 0, owner |-> 0]] \in [Extents -> Mark]
      BY DEF Mark
    <2>2. reg = [domains |-> Home, grants |-> {}, ext |-> [e \in Extents |-> [hw |-> 0, owner |-> 0]],
                 fencedInc |-> {}, fencedEpoch |-> {}, frecs |-> {}, marks |-> {},
                 openBoots |-> {1}, tok |-> 0, gid |-> 0, inc |-> 1, boot |-> 1, ahead |-> FALSE]
      BY <1>1 DEF Blank
    <2> QED BY <1>2, <2>1, <2>2 DEF RegistryState
  <1>5. Lineage(reg)
    <2>1. IsFiniteSet({})
      BY FS_EmptySet
    <2> QED BY <1>3, <1>4, <2>1 DEF Lineage, IdsIdentify, OpenGrants
  <1>6. co \in [Coordinators -> Process]
    <2>1. (CHOOSE d \in Domains : TRUE) \in Domains
      BY CoordinatorAssumption
    <2>2. Idle(CHOOSE d \in Domains : TRUE) \in Process
      BY <2>1, IdleIs
    <2>3. co \in [Coordinators -> {Idle(CHOOSE d \in Domains : TRUE)}]
      BY DEF Init
    <2> QED BY <2>2, <2>3
  <1>7. /\ memory \in [Witnesses -> [Subjects -> Memory]] /\ lastSeq \in [Witnesses -> Nat]
        /\ floor \in [Extents -> Mark] /\ now \in Nat
        /\ effects \in Seq([grant: Nat, scope: SUBSET Extents, token: Nat])
    BY DEF Init, Nothing, Memory, Mark
  <1> QED BY <1>5, <1>6, <1>7 DEF BaseInv, TypeInv

\* The types, and what holds of the lineage the registry serves from.
THEOREM Served == Spec => []BaseInv
  <1>1. Init => BaseInv
    BY BaseInit
  <1>2. BaseInv /\ [Next]_vars => BaseInv'
    BY BaseStep
  <1> QED BY <1>1, <1>2, PTL DEF Spec

-----------------------------------------------------------------------------
(* End to end: what is admitted was decided, and decided last. *)

\* No decision and no admitted mutation is ahead of the registry or of an open
\* grant it meets, and who commits does so on a decision for its grant.
DecisionInv ==
  /\ \A d \in decided : d.token \in Nat /\ d.token =< reg.tok
  /\ \A d \in decided, g \in OpenGrants(reg) :
       d.scope \cap g.scope # {} => d.token =< g.token
  /\ \A c \in Coordinators : co[c].pc = "commit" => \E d \in decided : d.grant = co[c].grant
  /\ \A e \in Extents : floor[e].hw =< reg.tok
  /\ \A g \in OpenGrants(reg) : \A e \in g.scope : floor[e].hw =< g.token

\* The token counter only rises, and a grant that is open was so or is newer than
\* every token handed out.
LEMMA TokensRise ==
  ASSUME BaseInv, [Next]_vars
  PROVE  /\ reg.tok \in Nat /\ reg'.tok \in Nat /\ reg.tok =< reg'.tok
         /\ \A g \in OpenGrants(reg') : /\ g.token \in Nat
                                        /\ g \in OpenGrants(reg) \/ reg.tok < g.token
  <1>0. Lineage(reg) /\ Lineage(reg') /\ Orderly
    BY BaseStep, StepMoves DEF BaseInv
  <1>1. /\ reg.tok \in Nat /\ reg'.tok \in Nat
        /\ \A g \in OpenGrants(reg') : g.token \in Nat /\ g \in reg'.grants /\ IsOpen(g)
    BY <1>0 DEF Lineage, RegistryState, OpenGrants, Grant
  <1>2. ASSUME NEW G \in SUBSET OpenGrants(reg), Closing(reg, reg', G, 0)
        PROVE  reg.tok =< reg'.tok /\ \A g \in OpenGrants(reg') : g \in OpenGrants(reg)
    <2>1. reg.tok =< reg'.tok
      BY <1>2 DEF Closing
    <2>2. ASSUME NEW g \in OpenGrants(reg') PROVE g \in OpenGrants(reg)
      BY <1>1, <1>2, ClosingBack
    <2> QED BY <2>1, <2>2
  <1>3. CASE Steady
    BY <1>1, <1>2, <1>3 DEF Steady
  <1>4. ASSUME NEW c \in Coordinators, Joining(c)
        PROVE  reg.tok =< reg'.tok /\ \A g \in OpenGrants(reg') : g \in OpenGrants(reg)
    <2>1. {} \in SUBSET OpenGrants(reg) /\ Closing(reg, reg', {}, 0)
      BY <1>4 DEF Joining
    <2> QED BY <1>2, <2>1
  <1>5. ASSUME NEW c \in Coordinators, NEW t, Granted(c, t)
        PROVE  /\ reg.tok =< reg'.tok
               /\ \A g \in OpenGrants(reg') : g \in OpenGrants(reg) \/ reg.tok < g.token
    <2> DEFINE d == co[c].domain
               n == NewGrant(t, d, co[c].inc)
               G == InTheWay(reg, d)
    <2>1. /\ Closing(reg, t, G, co[c].inc) /\ reg'.tok = t.tok + 1
          /\ reg'.grants \subseteq t.grants \cup {n} /\ n.token = t.tok + 1
      BY <1>5 DEF Granted, Granting, NewGrant
    <2>2. G \in SUBSET OpenGrants(reg)
      BY DEF InTheWay
    <2>3. reg.tok =< t.tok /\ t.tok \in Nat
      BY <2>1 DEF Closing, RegistryState
    <2> HIDE DEF G, n
    <2>4. ASSUME NEW g \in OpenGrants(reg') PROVE g \in OpenGrants(reg) \/ reg.tok < g.token
      <3>1. CASE g = n
        BY <1>1, <2>1, <2>3, <3>1
      <3>2. CASE g \in t.grants
        BY <1>1, <2>1, <2>2, <3>2, ClosingBack
      <3> QED BY <1>1, <2>1, <3>1, <3>2
    <2> QED BY <1>1, <2>1, <2>3, <2>4
  <1> QED BY <1>0, <1>1, <1>3, <1>4, <1>5 DEF Orderly, Moves

\* Every step keeps decisions, open grants and the fabric's floor in order.
LEMMA DecisionStep ==
  ASSUME BaseInv, DecisionInv, [Next]_vars
  PROVE  DecisionInv'
  <1>0. /\ Lineage(reg) /\ Recorded /\ Orderly
        /\ floor \in [Extents -> Mark] /\ \A c \in Coordinators : co[c] \in Process
    BY StepRecorded, StepMoves DEF BaseInv, TypeInv
  <1>1. /\ reg.tok \in Nat /\ reg'.tok \in Nat /\ reg.tok =< reg'.tok
        /\ \A g \in OpenGrants(reg') : /\ g.token \in Nat
                                       /\ g \in OpenGrants(reg) \/ reg.tok < g.token
    BY TokensRise
  <1>2. \A g \in OpenGrants(reg) : g.token \in Nat /\ g.token =< reg.tok
    BY <1>0 DEF Lineage, RegistryState, OpenGrants, Grant
  \* a new decision carries the token of an open grant over the same scope
  <1>3. ASSUME NEW d \in decided'
        PROVE  /\ d.token \in Nat /\ d.token =< reg.tok
               /\ \A g \in OpenGrants(reg) : d.scope \cap g.scope # {} => d.token =< g.token
    <2>1. CASE d \in decided
      BY <2>1 DEF DecisionInv
    <2>2. CASE d \notin decided
      <3>1. PICK c \in Coordinators : /\ Held(reg, co[c]) # {}
                                      /\ \E until : decided' = decided \cup {Decision(co[c], until)}
        BY <1>0, <2>2 DEF Recorded, Decides
      <3>2. d.token = co[c].token /\ d.scope = Home[co[c].domain]
        BY <2>2, <3>1 DEF Decision
      <3>3. PICK h \in OpenGrants(reg) : h.token = co[c].token /\ h.scope = Home[co[c].domain]
        BY <3>1, HeldIs
      <3>4. \A g \in OpenGrants(reg) : h.scope \cap g.scope # {} => h = g
        BY <1>0 DEF Lineage
      <3>5. d.token \in Nat /\ d.token =< reg.tok
        BY <1>2, <3>2, <3>3
      <3>6. ASSUME NEW g \in OpenGrants(reg), d.scope \cap g.scope # {}
            PROVE  d.token =< g.token
        BY <3>2, <3>3, <3>4, <3>5, <3>6
      <3> QED BY <3>5, <3>6
    <2> QED BY <2>1, <2>2
  <1>4. \A d \in decided' : d.token \in Nat /\ d.token =< reg'.tok
    BY <1>1, <1>3
  <1>5. ASSUME NEW d \in decided', NEW g \in OpenGrants(reg'), d.scope \cap g.scope # {}
        PROVE  d.token =< g.token
    <2>1. CASE g \in OpenGrants(reg)
      BY <1>3, <1>5, <2>1
    <2>2. CASE reg.tok < g.token
      BY <1>1, <1>3, <2>2
    <2> QED BY <1>1, <2>1, <2>2
  <1>6. ASSUME NEW c \in Coordinators, co'[c].pc = "commit"
        PROVE  \E d \in decided' : d.grant = co'[c].grant
    <2>1. decided \subseteq decided'
      BY <1>0 DEF Recorded, Decides
    <2>2. CASE co[c].pc = "commit" /\ co'[c].grant = co[c].grant
      BY <2>1, <2>2 DEF DecisionInv
    <2> QED BY <1>0, <1>6, <2>2 DEF Orderly, Announces
  \* what is admitted carries the token of an open grant over the same scope
  <1>7. ASSUME NEW e \in Extents
        PROVE  /\ floor'[e].hw \in Nat /\ floor'[e].hw =< reg.tok
               /\ \A g \in OpenGrants(reg) : e \in g.scope => floor'[e].hw =< g.token
    <2>0. /\ floor[e].hw \in Nat /\ floor[e].hw =< reg.tok
          /\ \A g \in OpenGrants(reg) : e \in g.scope => floor[e].hw =< g.token
      BY <1>0 DEF DecisionInv, Mark
    <2>1. CASE floor' = floor
      BY <2>0, <2>1
    <2>2. ASSUME NEW c \in Coordinators, Admitted(c)
          PROVE  /\ floor'[e].hw \in Nat /\ floor'[e].hw =< reg.tok
                 /\ \A g \in OpenGrants(reg) : e \in g.scope => floor'[e].hw =< g.token
      <3>1. floor'[e].hw = IF e \in Home[co[c].domain] THEN co[c].token ELSE floor[e].hw
        BY <2>2 DEF Admitted
      <3>2. PICK h \in OpenGrants(reg) : h.token = co[c].token /\ h.scope = Home[co[c].domain]
        BY <2>2, HeldIs DEF Admitted
      <3>3. \A g \in OpenGrants(reg) : h.scope \cap g.scope # {} => h = g
        BY <1>0 DEF Lineage
      <3>4. CASE e \in Home[co[c].domain]
        <4>1. floor'[e].hw = h.token /\ h.token \in Nat /\ h.token =< reg.tok
          BY <1>2, <3>1, <3>2, <3>4
        <4>2. ASSUME NEW g \in OpenGrants(reg), e \in g.scope PROVE floor'[e].hw =< g.token
          <5>1. h = g
            BY <3>2, <3>3, <3>4, <4>2
          <5> QED BY <4>1, <5>1
        <4> QED BY <4>1, <4>2
      <3>5. CASE e \notin Home[co[c].domain]
        BY <2>0, <3>1, <3>5
      <3> QED BY <3>4, <3>5
    <2> QED BY <1>0, <2>1, <2>2 DEF Recorded, Admissions
  <1>8. \A e \in Extents : floor'[e].hw =< reg'.tok
    BY <1>1, <1>7
  <1>9. ASSUME NEW g \in OpenGrants(reg'), NEW e \in g.scope
        PROVE  floor'[e].hw =< g.token
    <2>0. e \in Extents
      BY BaseStep DEF BaseInv, Lineage, RegistryState, OpenGrants, Grant
    <2>1. CASE g \in OpenGrants(reg)
      BY <1>7, <2>0, <2>1
    <2>2. CASE reg.tok < g.token
      BY <1>1, <1>7, <2>0, <2>2
    <2> QED BY <1>1, <2>1, <2>2
  <1> QED BY <1>4, <1>5, <1>6, <1>8, <1>9 DEF DecisionInv

\* At the start there are neither decisions nor grants.
LEMMA DecisionInit ==
  ASSUME Init
  PROVE  DecisionInv
  <1>1. decided = {} /\ reg.grants = {} /\ reg.tok = 0
    BY DEF Init, Blank
  <1>2. \A e \in Extents : floor[e].hw = 0
    BY DEF Init
  <1>3. \A c \in Coordinators : co[c].pc = "off"
    <2>1. (CHOOSE d \in Domains : TRUE) \in Domains
      BY CoordinatorAssumption
    <2>2. Idle(CHOOSE d \in Domains : TRUE).pc = "off"
      BY <2>1, IdleIs
    <2> QED BY <2>2 DEF Init
  <1> QED BY <1>1, <1>2, <1>3 DEF DecisionInv, OpenGrants

\* The step that admits a mutation finds a decision for its grant, and no later
\* one in its way.
LEMMA AdmissionFollows ==
  ASSUME BaseInv, DecisionInv, [Next]_vars, NEW i \in DOMAIN effects' \ DOMAIN effects
  PROVE  /\ \E d \in decided : d.grant = effects'[i].grant
         /\ \A d \in decided :
              d.scope \cap effects'[i].scope # {} => d.token =< effects'[i].token
  <1>1. PICK c \in Coordinators : Admitted(c)
    BY StepRecorded DEF Recorded, Admissions
  <1> DEFINE m == [grant |-> co[c].grant, scope |-> Home[co[c].domain], token |-> co[c].token]
  <1>2. effects' = Append(effects, m) /\ co[c].pc = "commit" /\ Held(reg, co[c]) # {}
    BY <1>1 DEF Admitted
  <1>3. m.grant = co[c].grant /\ m.scope = Home[co[c].domain] /\ m.token = co[c].token
    OBVIOUS
  <1> HIDE DEF m
  <1>4. effects'[i] = m
    <2>1. effects \in Seq([grant: Nat, scope: SUBSET Extents, token: Nat])
      BY DEF BaseInv, TypeInv
    <2> QED BY <1>2, <2>1
  <1>5. \E d \in decided : d.grant = co[c].grant
    BY <1>2 DEF DecisionInv
  <1>6. PICK g \in OpenGrants(reg) : g.token = co[c].token /\ g.scope = Home[co[c].domain]
    BY <1>2, HeldIs
  <1>7. \A d \in decided : d.scope \cap g.scope # {} => d.token =< g.token
    BY DEF DecisionInv
  <1> QED BY <1>3, <1>4, <1>5, <1>6, <1>7

\* EffectsFollowDecisions: a mutation is admitted only on a decision for its grant
\* and never after a decision for a newer one, with any number of coordinators,
\* lost answers and restarts in between.
THEOREM Followed == Spec => EffectsFollowDecisions
  <1>1. Init => BaseInv /\ DecisionInv
    BY BaseInit, DecisionInit
  <1>2. BaseInv /\ DecisionInv /\ [Next]_vars => (BaseInv /\ DecisionInv)'
    BY BaseStep, DecisionStep
  <1>3. BaseInv /\ DecisionInv /\ [Next]_vars =>
          [\A i \in DOMAIN effects' \ DOMAIN effects :
             /\ \E d \in decided : d.grant = effects'[i].grant
             /\ \A d \in decided :
                  d.scope \cap effects'[i].scope # {} => d.token =< effects'[i].token]_vars
    BY AdmissionFollows
  <1> QED BY <1>1, <1>2, <1>3, PTL DEF Spec, EffectsFollowDecisions

-----------------------------------------------------------------------------
(* Names: which coordinator is which incarnation. *)

\* An incarnation belongs to one process, which acts for one domain.
NamesInv ==
  /\ \A c \in Coordinators : co[c].inc =< reg.inc
  /\ \A c, x \in Coordinators : co[c].inc = co[x].inc /\ co[c].inc # 0 => c = x
  /\ \A c \in Coordinators, g \in reg.grants : g.inc = co[c].inc => g.domain = co[c].domain

\* Every step leaves an incarnation to one process and one domain.
LEMMA NamesStep ==
  ASSUME BaseInv, NamesInv, [Next]_vars
  PROVE  NamesInv'
  <1>0. /\ Lineage(reg) /\ Lineage(reg') /\ Orderly
        /\ \A c \in Coordinators : co[c] \in Process
    BY BaseStep, StepMoves DEF BaseInv, TypeInv
  <1>1. /\ reg.inc \in Nat /\ reg'.inc \in Nat
        /\ \A c \in Coordinators : /\ co[c].inc \in Nat /\ co[c].inc =< reg.inc
                                   /\ co[c].domain \in Domains
        /\ \A g \in reg.grants : g.inc \in 1..reg.inc
        /\ \A g \in reg'.grants : g.inc \in 1..reg'.inc
    BY <1>0 DEF Lineage, RegistryState, Process, NamesInv
  \* the incarnations and domains stay, or are given up
  <1>2. ASSUME reg.inc =< reg'.inc,
               \A c \in Coordinators : \/ co'[c].inc = co[c].inc /\ co'[c].domain = co[c].domain
                                       \/ co'[c].inc = 0,
               \A c \in Coordinators, g \in reg'.grants :
                  g.inc = co[c].inc => g.domain = co[c].domain
        PROVE  NamesInv'
    <2>1. \A c \in Coordinators : co'[c].inc =< reg'.inc
      BY <1>1, <1>2
    <2>2. \A c, x \in Coordinators : co'[c].inc = co'[x].inc /\ co'[c].inc # 0 => c = x
      BY <1>1, <1>2 DEF NamesInv
    <2>3. \A c \in Coordinators, g \in reg'.grants :
            g.inc = co'[c].inc => g.domain = co'[c].domain
      BY <1>1, <1>2
    <2> QED BY <2>1, <2>2, <2>3 DEF NamesInv
  \* a grant after a close is one from before
  <1>3. ASSUME NEW t, NEW spared, NEW G \in SUBSET OpenGrants(reg), Closing(reg, t, G, spared),
               NEW c \in Coordinators, NEW g \in t.grants, g.inc = co[c].inc
        PROVE  g.domain = co[c].domain
    <2>1. PICK h \in reg.grants : Same(h, g)
      BY <1>3, ClosingBack
    <2>2. h.inc = g.inc /\ h.domain = g.domain
      BY <2>1 DEF Same
    <2> QED BY <1>3, <2>2 DEF NamesInv
  <1>4. CASE Steady
    <2>1. PICK G \in SUBSET OpenGrants(reg) : Closing(reg, reg', G, 0)
      BY <1>4 DEF Steady
    <2>2. reg.inc =< reg'.inc
      BY <2>1 DEF Closing
    <2>3. \A c \in Coordinators : \/ co'[c].inc = co[c].inc /\ co'[c].domain = co[c].domain
                                  \/ co'[c].inc = 0
      BY <1>1, <1>4, IdleIs DEF Steady, Alike
    <2>4. \A c \in Coordinators, g \in reg'.grants : g.inc = co[c].inc => g.domain = co[c].domain
      BY <1>3, <2>1
    <2> QED BY <1>2, <2>2, <2>3, <2>4
  <1>5. ASSUME NEW c \in Coordinators, Joining(c)
        PROVE  NamesInv'
    <2>1. /\ Closing(reg, reg', {}, 0) /\ reg'.inc = reg.inc + 1
          /\ \A x \in Coordinators \ {c} : co'[x] = co[x]
          /\ Alike(co[c], co'[c]) \/ Joined(co[c], co'[c], reg'.inc)
          /\ {} \in SUBSET OpenGrants(reg)
      BY <1>5 DEF Joining
    <2>2. reg.inc =< reg'.inc
      BY <1>1, <2>1
    <2>3. \A x \in Coordinators, g \in reg'.grants : g.inc = co[x].inc => g.domain = co[x].domain
      BY <1>3, <2>1
    <2>4. CASE Alike(co[c], co'[c])
      BY <1>2, <2>1, <2>2, <2>3, <2>4 DEF Alike
    <2>5. CASE Joined(co[c], co'[c], reg'.inc)
      <3>1. co'[c].inc = reg.inc + 1
        BY <2>1, <2>5 DEF Joined
      <3>2. ASSUME NEW x \in Coordinators PROVE co'[x].inc =< reg'.inc
        BY <1>1, <2>1, <3>1
      <3>3. ASSUME NEW x \in Coordinators, NEW y \in Coordinators, co'[x].inc = co'[y].inc,
                   co'[x].inc # 0
            PROVE  x = y
        <4>1. CASE x # c /\ y # c
          BY <2>1, <3>3, <4>1 DEF NamesInv
        <4>2. \A z \in Coordinators \ {c} : co'[z].inc # reg.inc + 1
          BY <1>1, <2>1
        <4> QED BY <3>1, <3>3, <4>1, <4>2
      <3>4. ASSUME NEW x \in Coordinators, NEW g \in reg'.grants, g.inc = co'[x].inc
            PROVE  g.domain = co'[x].domain
        <4>1. PICK h \in reg.grants : Same(h, g)
          BY <2>1, ClosingBack
        <4>2. g.inc \in 1..reg.inc
          BY <1>1, <4>1 DEF Same
        <4>3. x # c
          BY <1>1, <3>1, <3>4, <4>2
        <4> QED BY <2>1, <2>3, <3>4, <4>3
      <3> QED BY <3>2, <3>3, <3>4 DEF NamesInv
    <2> QED BY <2>1, <2>4, <2>5
  <1>6. ASSUME NEW c \in Coordinators, NEW t, Granted(c, t)
        PROVE  NamesInv'
    <2> DEFINE d == co[c].domain
               n == NewGrant(t, d, co[c].inc)
    <2>1. /\ co[c].inc \in 1..reg.inc
          /\ Closing(reg, t, InTheWay(reg, d), co[c].inc) /\ reg'.inc = t.inc
          /\ reg'.grants \subseteq t.grants \cup {n} /\ n.inc = co[c].inc /\ n.domain = d
          /\ \A x \in Coordinators \ {c} : co'[x] = co[x]
          /\ Alike(co[c], co'[c]) \/ Holds(co[c], co'[c], reg')
      BY <1>6 DEF Granted, Granting, NewGrant
    <2>2. reg.inc =< reg'.inc
      BY <2>1 DEF Closing
    <2>3. \A x \in Coordinators : co'[x].inc = co[x].inc /\ co'[x].domain = co[x].domain
      BY <2>1 DEF Alike, Holds
    <2> HIDE DEF n
    <2>4. ASSUME NEW x \in Coordinators, NEW g \in reg'.grants, g.inc = co[x].inc
          PROVE  g.domain = co[x].domain
      <3>1. CASE g \in t.grants
        <4>1. InTheWay(reg, d) \in SUBSET OpenGrants(reg)
          BY DEF InTheWay
        <4> QED BY <1>3, <2>1, <2>4, <3>1, <4>1
      <3>2. CASE g = n
        <4>1. x = c
          BY <1>1, <2>1, <2>4, <3>2 DEF NamesInv
        <4> QED BY <2>1, <3>2, <4>1
      <3> QED BY <2>1, <3>1, <3>2
    <2> QED BY <1>2, <2>2, <2>3, <2>4
  <1> QED BY <1>0, <1>4, <1>5, <1>6 DEF Orderly, Moves

-----------------------------------------------------------------------------
(* Epochs: registry, coordinators and witnesses agree on them. *)

\* The lineage is not full: a full one drops its oldest grants, and with them the
\* epochs they stood for.
LineageHasRoom == Cardinality(reg.grants) < MaxLineageEntries

\* Within a domain an epoch is one grant, and an open grant has the highest.
EpochsIdentify(s) ==
  /\ \A g, h \in s.grants : g.domain = h.domain /\ g.epoch = h.epoch => g = h
  /\ \A g \in OpenGrants(s), h \in s.grants : g.domain = h.domain => h.epoch =< g.epoch

\* An epoch that a coordinator holds, or a witness remembers, is one the registry
\* granted; nobody else holds it, and the incarnation a witness remembers is one
\* its holder has or had.
HoldersInv ==
  /\ \A c \in Coordinators : co[c].pc = "off" => co[c].epoch = 0
  /\ \A c \in Coordinators : co[c].epoch # 0 =>
       \E g \in reg.grants : /\ g.id = co[c].grant /\ g.domain = co[c].domain
                             /\ g.epoch = co[c].epoch /\ g.token = co[c].token
                             /\ g.inc =< co[c].inc
  /\ \A c, x \in Coordinators :
       co[c].epoch # 0 /\ co[c].domain = co[x].domain /\ co[c].epoch = co[x].epoch => c = x

VotesInv ==
  /\ \A w \in Witnesses, s \in Subjects : memory[w][s].epoch # 0 =>
       \E g \in reg.grants : /\ g.domain = s /\ g.epoch = memory[w][s].epoch
                             /\ g.token = memory[w][s].token /\ g.inc =< memory[w][s].inc
  /\ \A w \in Witnesses, c \in Coordinators :
       co[c].epoch # 0 /\ memory[w][co[c].domain].epoch = co[c].epoch =>
         memory[w][co[c].domain].inc =< co[c].inc

\* Ending grants changes no epoch.
LEMMA ClosingEpochs ==
  ASSUME NEW s, EpochsIdentify(s), NEW t, NEW G \in SUBSET OpenGrants(s), NEW spared,
         Closing(s, t, G, spared)
  PROVE  EpochsIdentify(t)
  <1>1. ASSUME NEW g \in t.grants, NEW h \in t.grants, g.domain = h.domain, g.epoch = h.epoch
        PROVE  g = h
    <2>1. PICK x \in s.grants : Same(x, g)
      BY ClosingBack
    <2>2. PICK y \in s.grants : Same(y, h)
      BY ClosingBack
    <2>3. x = y
      BY <1>1, <2>1, <2>2 DEF Same, EpochsIdentify
    <2>4. g.id = h.id
      BY <2>1, <2>2, <2>3 DEF Same
    <2> QED BY <2>4 DEF Closing, IdsIdentify
  <1>2. ASSUME NEW g \in OpenGrants(t), NEW h \in t.grants, g.domain = h.domain
        PROVE  h.epoch =< g.epoch
    <2>1. g \in OpenGrants(s)
      BY ClosingBack DEF OpenGrants
    <2>2. PICK y \in s.grants : Same(y, h)
      BY ClosingBack
    <2> QED BY <1>2, <2>1, <2>2 DEF Same, EpochsIdentify
  <1> QED BY <1>1, <1>2 DEF EpochsIdentify

\* A new grant has an epoch of its own, the highest, and no other grant of its
\* domain stays open.
LEMMA GrantingEpochs ==
  ASSUME NEW s, Lineage(s), EpochsIdentify(s), NEW d \in Domains, NEW i \in 1..s.inc, NEW t, NEW u,
         Granting(s, t, u, d, i)
  PROVE  EpochsIdentify(u)
  <1> DEFINE n == NewGrant(t, d, i)
             G == InTheWay(s, d)
  <1>1. /\ Lineage(t) /\ Lineage(u)
        /\ \A g \in t.grants : g.domain = d => g.epoch < n.epoch
    BY GrantingLineage
  <1>2. G \in SUBSET OpenGrants(s) /\ Closing(s, t, G, i) /\ u.grants \subseteq t.grants \cup {n}
    BY DEF Granting, InTheWay
  <1>3. n.domain = d
    BY DEF NewGrant
  <1>4. \A g \in u.grants : g.epoch \in Nat /\ g.scope = Home[g.domain]
    BY <1>1 DEF Lineage, RegistryState, Grant
  <1> HIDE DEF n
  <1>5. \A g \in t.grants : g.domain = d => ~IsOpen(g)
    <2> SUFFICES ASSUME NEW g \in t.grants, g.domain = d, IsOpen(g)
                 PROVE  FALSE
      OBVIOUS
    <2>1. g \in OpenGrants(s) /\ g \notin G
      <3> HIDE DEF G
      <3> QED BY <1>2, ClosingBack
    <2>2. g.scope = Home[d] /\ Home[d] # {}
      BY <1>1, CoordinatorAssumption DEF Lineage
    <2> QED BY <2>1, <2>2 DEF InTheWay
  <1> HIDE DEF G
  <1>6. EpochsIdentify(t)
    BY <1>2, ClosingEpochs
  <1>7. ASSUME NEW g \in u.grants, NEW h \in u.grants, g.domain = h.domain, g.epoch = h.epoch
        PROVE  g = h
    <2>1. CASE g \in t.grants /\ h \in t.grants
      BY <1>6, <1>7, <2>1 DEF EpochsIdentify
    <2>2. \A x \in u.grants : x \in t.grants /\ x.domain = d => x.epoch # n.epoch
      BY <1>1, <1>2, <1>4
    <2> QED BY <1>2, <1>3, <1>7, <2>1, <2>2
  <1>8. ASSUME NEW g \in OpenGrants(u), NEW h \in u.grants, g.domain = h.domain
        PROVE  h.epoch =< g.epoch
    <2>0. g \in u.grants /\ IsOpen(g)
      BY DEF OpenGrants
    <2>1. CASE g \in t.grants
      <3>1. g.domain # d /\ h \in t.grants
        BY <1>2, <1>3, <1>5, <1>8, <2>0, <2>1
      <3> QED BY <1>6, <1>8, <2>0, <2>1, <3>1 DEF EpochsIdentify, OpenGrants
    <2>2. CASE g = n
      <3>1. CASE h \in t.grants
        BY <1>1, <1>3, <1>4, <1>8, <2>0, <2>2, <3>1
      <3>2. CASE h = n
        BY <1>4, <2>2, <3>2
      <3> QED BY <1>2, <3>1, <3>2
    <2> QED BY <1>2, <2>0, <2>1, <2>2
  <1> QED BY <1>7, <1>8 DEF EpochsIdentify

\* Every step keeps the epochs of a domain apart.
LEMMA EpochsStep ==
  ASSUME BaseInv, EpochsIdentify(reg), [Next]_vars
  PROVE  EpochsIdentify(reg')
  <1>0. Lineage(reg) /\ Orderly
    BY StepMoves DEF BaseInv
  <1>1. CASE Steady
    BY <1>1, ClosingEpochs DEF Steady
  <1>2. ASSUME NEW c \in Coordinators, Joining(c) PROVE EpochsIdentify(reg')
    <2>1. Closing(reg, reg', {}, 0) /\ {} \in SUBSET OpenGrants(reg)
      BY <1>2 DEF Joining
    <2> QED BY <2>1, ClosingEpochs
  <1>3. ASSUME NEW c \in Coordinators, NEW t, Granted(c, t) PROVE EpochsIdentify(reg')
    <2>1. co[c].domain \in Domains
      BY DEF BaseInv, TypeInv, Process
    <2>2. co[c].inc \in 1..reg.inc /\ Granting(reg, t, reg', co[c].domain, co[c].inc)
      BY <1>3 DEF Granted
    <2> QED BY <1>0, <2>1, <2>2, GrantingEpochs
  <1> QED BY <1>0, <1>1, <1>2, <1>3 DEF Orderly, Moves

\* As long as there is room, no grant leaves the lineage.
LEMMA GrantsStay ==
  ASSUME BaseInv, LineageHasRoom, [Next]_vars, NEW g \in reg.grants
  PROVE  \E h \in reg'.grants : Same(g, h)
  <1>0. Orderly /\ Lineage(reg)
    BY StepMoves DEF BaseInv
  <1>1. ASSUME NEW t, NEW G, NEW spared, Closing(reg, t, G, spared)
        PROVE  \E h \in t.grants : Same(g, h)
    BY <1>1 DEF Closing
  <1>2. CASE Steady
    BY <1>1, <1>2 DEF Steady
  <1>3. ASSUME NEW c \in Coordinators, Joining(c) PROVE \E h \in reg'.grants : Same(g, h)
    BY <1>1, <1>3 DEF Joining
  <1>4. ASSUME NEW c \in Coordinators, NEW t, Granted(c, t)
        PROVE  \E h \in reg'.grants : Same(g, h)
    <2> DEFINE G == InTheWay(reg, co[c].domain)
    <2>1. /\ Closing(reg, t, G, co[c].inc)
          /\ Cardinality(t.grants) < MaxLineageEntries => t.grants \subseteq reg'.grants
      BY <1>4 DEF Granted, Granting
    <2> HIDE DEF G
    <2>2. Cardinality(t.grants) =< Cardinality(reg.grants) /\ IsFiniteSet(t.grants)
      BY <2>1 DEF Closing
    <2>3. Cardinality(t.grants) \in Nat /\ Cardinality(reg.grants) \in Nat
      BY <1>0, <2>2, FS_CardinalityType DEF Lineage
    <2>4. Cardinality(t.grants) < MaxLineageEntries
      BY <2>2, <2>3, LimitsAssumption DEF LineageHasRoom
    <2> QED BY <1>1, <2>1, <2>4
  <1> QED BY <1>0, <1>2, <1>3, <1>4 DEF Orderly, Moves

\* What becomes of a coordinator: it keeps its epoch under the same or a newer
\* incarnation, has none, or holds the newest, which is above all others of its
\* domain and is held by nobody else.
Keeps(c) ==
  /\ co'[c].domain = co[c].domain /\ co'[c].epoch = co[c].epoch /\ co'[c].token = co[c].token
  /\ co'[c].grant = co[c].grant /\ co[c].inc =< co'[c].inc
  /\ co'[c].pc = "off" => co[c].pc = "off"

Wins(c) ==
  /\ co'[c].domain = co[c].domain /\ co'[c].pc # "off"
  /\ \E n \in reg'.grants : /\ n.id = co'[c].grant /\ n.domain = co'[c].domain
                            /\ n.epoch = co'[c].epoch /\ n.token = co'[c].token
                            /\ n.inc = co'[c].inc
  /\ \A g \in reg.grants : g.domain = co[c].domain => g.epoch < co'[c].epoch
  /\ \A x \in Coordinators \ {c} : Keeps(x)

\* Every step leaves every coordinator so.
LEMMA CoordinatorMoves ==
  ASSUME BaseInv, NamesInv, [Next]_vars, NEW c \in Coordinators
  PROVE  Keeps(c) \/ co'[c].epoch = 0 \/ Wins(c)
  <1>0. /\ Orderly /\ Lineage(reg) /\ reg.inc \in Nat
        /\ \A x \in Coordinators : /\ co[x] \in Process /\ co[x].inc \in Nat /\ co[x].inc =< reg.inc
                                   /\ co[x].domain \in Domains
    BY StepMoves DEF BaseInv, TypeInv, Lineage, RegistryState, Process, NamesInv
  <1>1. ASSUME NEW x \in Coordinators, Alike(co[x], co'[x]) PROVE Keeps(x)
    BY <1>0, <1>1 DEF Alike, Keeps
  <1>2. ASSUME NEW x \in Coordinators, co'[x] = co[x] PROVE Keeps(x)
    BY <1>0, <1>2 DEF Keeps
  <1>3. CASE Steady
    <2>1. CASE Alike(co[c], co'[c])
      BY <1>1, <2>1
    <2>2. CASE co'[c] = Idle(co[c].domain)
      BY <1>0, <2>2, IdleIs
    <2> QED BY <1>3, <2>1, <2>2 DEF Steady
  <1>4. ASSUME NEW x \in Coordinators, Joining(x)
        PROVE  Keeps(c) \/ co'[c].epoch = 0
    <2>1. CASE c # x
      BY <1>2, <1>4, <2>1 DEF Joining
    <2>2. CASE c = x /\ Alike(co[c], co'[c])
      BY <1>1, <2>2
    <2>3. CASE c = x /\ Joined(co[c], co'[c], reg'.inc)
      <3>1. reg'.inc = reg.inc + 1
        BY <1>4 DEF Joining
      <3>2. co[c].inc =< reg'.inc
        BY <1>0, <3>1
      <3> QED BY <2>3, <3>2 DEF Joined, Keeps
    <2> QED BY <1>4, <2>1, <2>2, <2>3 DEF Joining
  <1>5. ASSUME NEW x \in Coordinators, NEW t, Granted(x, t)
        PROVE  Keeps(c) \/ Wins(c)
    <2>1. CASE c # x
      BY <1>2, <1>5, <2>1 DEF Granted
    <2>2. CASE c = x /\ Alike(co[c], co'[c])
      BY <1>1, <2>2
    <2>3. CASE c = x /\ Holds(co[c], co'[c], reg')
      <3> DEFINE d == co[c].domain
                 n == NewGrant(t, d, co[c].inc)
      <3>1. /\ d \in Domains /\ co[c].inc \in 1..reg.inc /\ Granting(reg, t, reg', d, co[c].inc)
            /\ \A y \in Coordinators \ {c} : co'[y] = co[y]
        BY <1>0, <1>5, <2>3 DEF Granted
      <3>2. /\ MaxEpoch(reg', d) = n.epoch
            /\ \A g \in t.grants : g.domain = d => g.epoch < n.epoch
        BY <1>0, <3>1, GrantingLineage
      <3>3. /\ n \in reg'.grants /\ n.id = reg'.gid /\ n.domain = d /\ n.token = reg'.tok
            /\ n.inc = co[c].inc /\ Closing(reg, t, InTheWay(reg, d), co[c].inc)
        BY <3>1 DEF Granting, NewGrant
      <3> HIDE DEF n
      <3>4. /\ co'[c].domain = d /\ co'[c].pc # "off" /\ co'[c].epoch = n.epoch
            /\ co'[c].token = n.token /\ co'[c].grant = n.id /\ co'[c].inc = n.inc
        BY <2>3, <3>2, <3>3 DEF Holds
      <3>5. ASSUME NEW g \in reg.grants, g.domain = d PROVE g.epoch < co'[c].epoch
        <4>1. PICK h \in t.grants : Same(g, h)
          BY <3>3 DEF Closing
        <4> QED BY <3>2, <3>4, <3>5, <4>1 DEF Same
      <3>6. \A y \in Coordinators \ {c} : Keeps(y)
        BY <1>2, <3>1
      <3> QED BY <3>3, <3>4, <3>5, <3>6 DEF Wins
    <2> QED BY <1>5, <2>1, <2>2, <2>3 DEF Granted
  <1> QED BY <1>0, <1>3, <1>4, <1>5 DEF Orderly, Moves

\* Every step leaves a held epoch in the lineage, with one holder.
LEMMA HoldersStep ==
  ASSUME BaseInv, NamesInv, HoldersInv, LineageHasRoom, [Next]_vars
  PROVE  HoldersInv'
  <1>0. /\ BaseInv' /\ Lineage(reg) /\ Lineage(reg')
        /\ \A c \in Coordinators : co[c] \in Process /\ co'[c] \in Process
    BY BaseStep DEF BaseInv, TypeInv
  <1>1. /\ \A g \in reg.grants : g.inc \in Nat /\ g.epoch \in Nat
        /\ \A g \in reg'.grants : g.inc \in Nat
        /\ \A c \in Coordinators : /\ co[c].inc \in Nat /\ co'[c].inc \in Nat
                                   /\ co[c].epoch \in Nat /\ co'[c].epoch \in Nat
    BY <1>0 DEF Lineage, RegistryState, Grant, Process
  <1>2. \A c \in Coordinators : Keeps(c) \/ co'[c].epoch = 0 \/ Wins(c)
    BY CoordinatorMoves
  <1>3. ASSUME NEW c \in Coordinators, co'[c].pc = "off" PROVE co'[c].epoch = 0
    BY <1>2, <1>3 DEF Keeps, Wins, HoldersInv
  <1>4. ASSUME NEW c \in Coordinators, co'[c].epoch # 0
        PROVE  \E g \in reg'.grants : /\ g.id = co'[c].grant /\ g.domain = co'[c].domain
                                      /\ g.epoch = co'[c].epoch /\ g.token = co'[c].token
                                      /\ g.inc =< co'[c].inc
    <2>1. CASE Keeps(c)
      <3>1. PICK g \in reg.grants : /\ g.id = co[c].grant /\ g.domain = co[c].domain
                                    /\ g.epoch = co[c].epoch /\ g.token = co[c].token
                                    /\ g.inc =< co[c].inc
        BY <1>4, <2>1 DEF HoldersInv, Keeps
      <3>2. PICK h \in reg'.grants : Same(g, h)
        BY GrantsStay
      <3>3. g.inc =< co'[c].inc
        BY <1>1, <2>1, <3>1 DEF Keeps
      <3> QED BY <2>1, <3>1, <3>2, <3>3 DEF Keeps, Same
    <2>2. CASE Wins(c)
      BY <1>1, <2>2 DEF Wins
    <2> QED BY <1>2, <1>4, <2>1, <2>2
  <1>5. ASSUME NEW c \in Coordinators, NEW x \in Coordinators, co'[c].epoch # 0,
               co'[c].domain = co'[x].domain, co'[c].epoch = co'[x].epoch
        PROVE  c = x
    <2>1. ASSUME NEW y \in Coordinators, NEW z \in Coordinators, Wins(y), y # z,
                 co'[y].domain = co'[z].domain, co'[y].epoch = co'[z].epoch, co'[y].epoch # 0
          PROVE  FALSE
      <3>1. Keeps(z)
        BY <2>1 DEF Wins
      <3>2. /\ co[z].epoch = co'[y].epoch /\ co[z].domain = co'[y].domain
            /\ co'[y].domain = co[y].domain
        BY <2>1, <3>1 DEF Wins, Keeps
      <3>3. PICK g \in reg.grants : g.domain = co[z].domain /\ g.epoch = co[z].epoch
        BY <2>1, <3>2 DEF HoldersInv
      <3>4. g.epoch < co'[y].epoch
        BY <2>1, <3>2, <3>3 DEF Wins
      <3> QED BY <1>1, <3>2, <3>3, <3>4
    <2>2. CASE Keeps(c) /\ Keeps(x)
      BY <1>5, <2>2 DEF Keeps, HoldersInv
    <2>3. CASE Wins(c)
      BY <1>5, <2>1, <2>3
    <2>4. CASE Wins(x)
      BY <1>5, <2>1, <2>4
    <2> QED BY <1>2, <1>5, <2>2, <2>3, <2>4
  <1> QED BY <1>3, <1>4, <1>5 DEF HoldersInv

\* Every step leaves what witnesses remember in the lineage, not ahead of its holder.
LEMMA VotesStep ==
  ASSUME BaseInv, NamesInv, HoldersInv, HoldersInv', VotesInv, LineageHasRoom, [Next]_vars
  PROVE  VotesInv'
  <1>0. /\ BaseInv' /\ Recorded /\ Lineage(reg)
        /\ memory \in [Witnesses -> [Subjects -> Memory]]
        /\ memory' \in [Witnesses -> [Subjects -> Memory]]
        /\ \A c \in Coordinators : co[c] \in Process /\ co'[c] \in Process
    BY BaseStep, StepRecorded DEF BaseInv, TypeInv
  <1>1. /\ \A g \in reg.grants : g.epoch \in Nat
        /\ \A c \in Coordinators : /\ co[c].inc \in Nat /\ co'[c].inc \in Nat
                                   /\ co'[c].domain \in Subjects /\ co'[c].epoch \in Nat
        /\ \A w \in Witnesses, s \in Subjects : memory[w][s].inc \in Nat
    <2>1. \A g \in reg.grants : g.epoch \in Nat
      BY <1>0 DEF Lineage, RegistryState, Grant
    <2>2. \A c \in Coordinators : /\ co[c].inc \in Nat /\ co'[c].inc \in Nat
                                  /\ co'[c].domain \in Domains /\ co'[c].epoch \in Nat
      BY <1>0 DEF Process
    <2>3. Subjects = Domains
      BY CoordinatorAssumption
    <2>4. \A w \in Witnesses, s \in Subjects : memory[w][s].inc \in Nat
      BY <1>0 DEF Memory
    <2> QED BY <2>1, <2>2, <2>3, <2>4
  <1>2. \A c \in Coordinators : Keeps(c) \/ co'[c].epoch = 0 \/ Wins(c)
    BY CoordinatorMoves
  <1> DEFINE Voted(w, s, c) ==
               /\ s = co'[c].domain /\ memory'[w][s].epoch = co'[c].epoch
               /\ memory'[w][s].inc = co'[c].inc /\ memory'[w][s].token = co'[c].token
  <1>3. \A w \in Witnesses, s \in Subjects :
          \/ memory'[w][s] = memory[w][s]
          \/ memory'[w][s].epoch = 0
          \/ \E c \in Coordinators : Voted(w, s, c)
    BY <1>0 DEF Recorded, Witnessed, Votes
  <1>4. ASSUME NEW w \in Witnesses, NEW s \in Subjects, memory'[w][s].epoch # 0
        PROVE  \E g \in reg'.grants : /\ g.domain = s /\ g.epoch = memory'[w][s].epoch
                                      /\ g.token = memory'[w][s].token
                                      /\ g.inc =< memory'[w][s].inc
    <2>1. CASE memory'[w][s] = memory[w][s]
      <3>1. PICK g \in reg.grants : /\ g.domain = s /\ g.epoch = memory[w][s].epoch
                                    /\ g.token = memory[w][s].token /\ g.inc =< memory[w][s].inc
        BY <1>4, <2>1 DEF VotesInv
      <3>2. PICK h \in reg'.grants : Same(g, h)
        BY GrantsStay
      <3> QED BY <2>1, <3>1, <3>2 DEF Same
    <2>2. ASSUME NEW c \in Coordinators, Voted(w, s, c)
          PROVE  \E g \in reg'.grants : /\ g.domain = s /\ g.epoch = memory'[w][s].epoch
                                        /\ g.token = memory'[w][s].token
                                        /\ g.inc =< memory'[w][s].inc
      BY <1>4, <2>2 DEF HoldersInv
    <2> QED BY <1>3, <1>4, <2>1, <2>2
  <1>5. ASSUME NEW w \in Witnesses, NEW c \in Coordinators, co'[c].epoch # 0,
               memory'[w][co'[c].domain].epoch = co'[c].epoch
        PROVE  memory'[w][co'[c].domain].inc =< co'[c].inc
    <2> DEFINE s == co'[c].domain
    <2>0. s \in Subjects
      BY <1>1
    <2>1. CASE memory'[w][s] = memory[w][s]
      <3>1. CASE Keeps(c)
        <4>1. memory[w][s].inc =< co[c].inc
          BY <1>5, <2>1, <3>1 DEF VotesInv, Keeps
        <4> QED BY <1>1, <2>0, <2>1, <3>1, <4>1 DEF Keeps
      <3>2. CASE Wins(c)
        <4>1. PICK g \in reg.grants : g.domain = s /\ g.epoch = memory[w][s].epoch
          BY <1>5, <2>0, <2>1 DEF VotesInv
        <4>2. g.epoch < co'[c].epoch
          BY <3>2, <4>1 DEF Wins
        <4> QED BY <1>1, <1>5, <2>1, <4>1, <4>2
      <3> QED BY <1>2, <1>5, <3>1, <3>2
    <2>2. ASSUME NEW x \in Coordinators, Voted(w, s, x)
          PROVE  memory'[w][s].inc =< co'[c].inc
      <3>1. c = x
        BY <1>5, <2>2 DEF HoldersInv
      <3> QED BY <1>1, <2>2, <3>1
    <2> HIDE DEF Voted
    <2> QED BY <1>3, <1>5, <2>0, <2>1, <2>2
  <1> QED BY <1>4, <1>5 DEF VotesInv

\* What registry, coordinators and witnesses know of each other's names and epochs.
AgreementInv == NamesInv /\ EpochsIdentify(reg) /\ HoldersInv /\ VotesInv

\* At the start there are no grants, and nobody holds or remembers an epoch.
LEMMA AgreementInit ==
  ASSUME Init
  PROVE  AgreementInv
  <1>1. reg.grants = {} /\ reg.inc = 1
    BY DEF Init, Blank
  <1>2. \A c \in Coordinators : co[c].inc = 0 /\ co[c].epoch = 0
    <2>1. (CHOOSE d \in Domains : TRUE) \in Domains
      BY CoordinatorAssumption
    <2>2. \A c \in Coordinators : co[c] = Idle(CHOOSE d \in Domains : TRUE)
      BY DEF Init
    <2> QED BY <2>1, <2>2, IdleIs
  <1>3. \A w \in Witnesses, s \in Subjects : memory[w][s].epoch = 0
    BY DEF Init, Nothing
  <1>4. NamesInv
    BY <1>1, <1>2 DEF NamesInv
  <1>5. EpochsIdentify(reg)
    BY <1>1 DEF EpochsIdentify, OpenGrants
  <1>6. HoldersInv
    BY <1>1, <1>2 DEF HoldersInv
  <1>7. VotesInv
    BY <1>2, <1>3 DEF VotesInv
  <1> QED BY <1>4, <1>5, <1>6, <1>7 DEF AgreementInv

\* Every step keeps it while the lineage has room.
LEMMA AgreementStep ==
  ASSUME BaseInv, AgreementInv, LineageHasRoom, [Next]_vars
  PROVE  AgreementInv'
  <1>0. NamesInv /\ EpochsIdentify(reg) /\ HoldersInv /\ VotesInv
    BY DEF AgreementInv
  <1>1. NamesInv'
    BY <1>0, NamesStep
  <1>2. EpochsIdentify(reg')
    BY <1>0, EpochsStep
  <1>3. HoldersInv'
    BY <1>0, HoldersStep
  <1>4. VotesInv'
    BY <1>0, <1>3, VotesStep
  <1> QED BY <1>1, <1>2, <1>3, <1>4 DEF AgreementInv

\* A witness that has not heard of a domain has room for it.
LEMMA RoomForOne ==
  ASSUME IsFiniteSet(Domains), Cardinality(Domains) =< MaxSubjects, NEW m, NEW d \in Domains,
         m[d].epoch = 0
  PROVE  Cardinality(Known(m)) < MaxSubjects
  <1>1. Known(m) \subseteq Domains \ {d}
    BY CoordinatorAssumption DEF Known
  <1>2. IsFiniteSet(Domains \ {d}) /\ Cardinality(Domains \ {d}) = Cardinality(Domains) - 1
    BY FS_RemoveElement
  <1>3. Cardinality(Known(m)) =< Cardinality(Domains \ {d}) /\ IsFiniteSet(Known(m))
    BY <1>1, <1>2, FS_Subset
  <1>4. Cardinality(Known(m)) \in Nat /\ Cardinality(Domains) \in Nat
    BY <1>3, FS_CardinalityType
  <1> QED BY <1>2, <1>3, <1>4, WitnessConfig

\* The agreement keeps every witness from refusing the holder of an open grant.
LEMMA HolderWelcome ==
  ASSUME IsFiniteSet(Domains), Cardinality(Domains) =< MaxSubjects, BaseInv, AgreementInv,
         NEW c \in Coordinators, Held(reg, co[c]) # {}, NEW w \in Witnesses
  PROVE  MayAttest(memory[w], ClaimOf(co[c]))
  <1> DEFINE d == co[c].domain
             last == memory[w][d]
  <1>0. /\ d \in Domains /\ d \in Subjects /\ co[c].inc \in Nat /\ co[c].epoch \in Nat
        /\ last.inc \in Nat /\ last.epoch \in Nat
    <2>1. co[c] \in Process /\ memory[w] \in [Subjects -> Memory]
      BY DEF BaseInv, TypeInv
    <2>2. d \in Domains /\ co[c].inc \in Nat /\ co[c].epoch \in Nat
      BY <2>1 DEF Process
    <2>3. Subjects = Domains
      BY CoordinatorAssumption
    <2>4. memory[w][d] \in Memory
      BY <2>1, <2>2, <2>3
    <2>5. last.inc \in Nat /\ last.epoch \in Nat
      BY <2>4 DEF Memory
    <2> QED BY <2>2, <2>3, <2>5
  <1>1. /\ ClaimOf(co[c]).subject = d /\ ClaimOf(co[c]).epoch = co[c].epoch
        /\ ClaimOf(co[c]).inc = co[c].inc /\ ClaimOf(co[c]).token = co[c].token
    BY DEF ClaimOf
  <1>2. PICK g \in OpenGrants(reg) : /\ g \in reg.grants /\ g.domain = d /\ g.epoch = co[c].epoch
                                     /\ g.inc = co[c].inc /\ g.token = co[c].token
    BY HeldIs
  <1>3. CASE last.epoch = 0
    <2>1. Cardinality(Known(memory[w])) < MaxSubjects
      BY <1>0, <1>3, RoomForOne
    <2> QED BY <1>1, <1>3, <2>1 DEF MayAttest
  <1>4. CASE last.epoch # 0
    <2>1. PICK h \in reg.grants : /\ h.domain = d /\ h.epoch = last.epoch
                                  /\ h.token = last.token /\ h.inc =< last.inc
      BY <1>0, <1>4 DEF AgreementInv, VotesInv
    <2>2. last.epoch =< co[c].epoch
      BY <1>2, <2>1 DEF AgreementInv, EpochsIdentify
    <2>3. ASSUME co[c].epoch = last.epoch
          PROVE  co[c].inc = last.inc /\ co[c].token = last.token
      <3>1. h = g
        BY <1>2, <2>1, <2>3 DEF AgreementInv, EpochsIdentify
      <3>2. last.inc =< co[c].inc
        BY <1>4, <2>3 DEF AgreementInv, VotesInv
      <3> QED BY <1>0, <1>2, <2>1, <3>1, <3>2
    <2> QED BY <1>0, <1>1, <1>4, <2>2, <2>3 DEF MayAttest
  <1> QED BY <1>3, <1>4

\* HolderNeverRefused: no witness refuses a coordinator whose grant is open, with
\* any number of coordinators, rivals, lost answers and restarts, as long as no
\* epoch fell out of the lineage and a witness can keep every domain.
THEOREM Welcome ==
  ASSUME IsFiniteSet(Domains), Cardinality(Domains) =< MaxSubjects
  PROVE  Spec /\ []LineageHasRoom => []HolderNeverRefused
  <1>1. Init => BaseInv /\ AgreementInv
    BY BaseInit, AgreementInit
  <1>2. BaseInv /\ AgreementInv /\ LineageHasRoom /\ [Next]_vars => (BaseInv /\ AgreementInv)'
    BY BaseStep, AgreementStep
  <1>3. BaseInv /\ AgreementInv => HolderNeverRefused
    BY HolderWelcome DEF HolderNeverRefused
  <1> QED BY <1>1, <1>2, <1>3, PTL DEF Spec

-----------------------------------------------------------------------------
(* Revocation: a decision that stands is one whose grant is open. *)

\* The table of fenced incarnations is not full: a full one drops its lowest.
FencedTableHasRoom == Cardinality(reg.fencedInc) < MaxFenceRecords

\* Grant g is the one decision d was made for.
Backs(g, d) ==
  /\ g.id = d.grant /\ g.domain = d.domain /\ g.scope = d.scope
  /\ g.epoch = d.epoch /\ g.inc = d.inc /\ g.token = d.token

\* Every decision is for a grant of the lineage, and a grant that ended has left a
\* trace that check_revocation sees: a fence of its incarnation or a later epoch.
TraceInv ==
  /\ \A d \in decided : \E g \in reg.grants : Backs(g, d)
  /\ \A g \in reg.grants : ~IsOpen(g) =>
       \/ g.inc \in reg.fencedInc
       \/ \E h \in reg.grants : h.domain = g.domain /\ g.epoch < h.epoch

\* The grant that decide() finds is the one the coordinator was told of.
LEMMA HeldBacks ==
  ASSUME BaseInv, AgreementInv, NEW c \in Coordinators, Held(reg, co[c]) # {}, NEW until
  PROVE  \E g \in reg.grants : Backs(g, Decision(co[c], until))
  <1>1. PICK g \in OpenGrants(reg) :
           /\ g \in reg.grants /\ g.domain = co[c].domain /\ g.epoch = co[c].epoch
           /\ g.inc = co[c].inc /\ g.token = co[c].token /\ g.scope = Home[co[c].domain]
    BY HeldIs
  <1>2. co[c].epoch # 0
    BY <1>1 DEF BaseInv, Lineage, RegistryState, Grant
  <1>3. PICK h \in reg.grants : /\ h.id = co[c].grant /\ h.domain = co[c].domain
                                /\ h.epoch = co[c].epoch
    BY <1>2 DEF AgreementInv, HoldersInv
  <1>4. g = h
    BY <1>1, <1>3 DEF AgreementInv, EpochsIdentify
  <1> QED BY <1>1, <1>3, <1>4 DEF Backs, Decision

\* Ending grants leaves a trace of each, but for those of the incarnation spared.
LEMMA ClosingTrace ==
  ASSUME BaseInv, TraceInv, NEW t, NEW G \in SUBSET OpenGrants(reg), NEW spared,
         Closing(reg, t, G, spared), Cardinality(t.fencedInc) < MaxFenceRecords,
         NEW h \in t.grants, ~IsOpen(h)
  PROVE  \/ h.inc \in t.fencedInc
         \/ h.inc = spared
         \/ \E x \in reg.grants : x.domain = h.domain /\ h.epoch < x.epoch
  <1>1. h \in reg.grants \ G \/ \E g \in G : Same(g, h)
    BY DEF Closing
  <1>2. CASE h \in reg.grants
    BY <1>2 DEF TraceInv, Closing
  <1>3. ASSUME NEW g \in G, Same(g, h) PROVE h.inc \in t.fencedInc \/ h.inc = spared
    <2>1. g.inc \in t.fencedInc \cup {0, spared} /\ g.inc = h.inc
      BY <1>3 DEF Closing, Same
    <2>2. g.inc # 0
      BY DEF BaseInv, Lineage, OpenGrants
    <2> QED BY <2>1, <2>2
  <1> QED BY <1>1, <1>2, <1>3

\* Every step keeps the traces while both tables have room.
LEMMA TraceStep ==
  ASSUME BaseInv, AgreementInv, TraceInv, LineageHasRoom, FencedTableHasRoom', [Next]_vars
  PROVE  TraceInv'
  <1>0. Orderly /\ Recorded /\ Lineage(reg)
    BY StepMoves, StepRecorded DEF BaseInv
  <1>1. ASSUME NEW d \in decided'
        PROVE  \E g \in reg'.grants : Backs(g, d)
    <2>1. \E g \in reg.grants : Backs(g, d)
      <3>1. CASE d \in decided
        BY <3>1 DEF TraceInv
      <3>2. CASE d \notin decided
        <4>1. PICK c \in Coordinators : /\ Held(reg, co[c]) # {}
                                        /\ \E until : decided' = decided \cup {Decision(co[c], until)}
          BY <1>0, <3>2 DEF Recorded, Decides
        <4>2. PICK until : d = Decision(co[c], until)
          BY <3>2, <4>1
        <4> QED BY <4>1, <4>2, HeldBacks
      <3> QED BY <3>1, <3>2
    <2>2. PICK g \in reg.grants : Backs(g, d)
      BY <2>1
    <2>3. PICK h \in reg'.grants : Same(g, h)
      BY GrantsStay
    <2> QED BY <2>2, <2>3 DEF Backs, Same
  <1>2. ASSUME NEW x \in reg.grants
        PROVE  \E y \in reg'.grants : y.domain = x.domain /\ y.epoch = x.epoch
    BY GrantsStay DEF Same
  <1>3. ASSUME NEW t, NEW spared, NEW G \in SUBSET OpenGrants(reg), Closing(reg, t, G, spared),
               NEW c \in Coordinators, NEW g \in t.grants, g.inc = co[c].inc
        PROVE  g.domain = co[c].domain
    <2>1. PICK h \in reg.grants : Same(h, g)
      BY <1>3, ClosingBack
    <2> QED BY <1>3, <2>1 DEF Same, AgreementInv, NamesInv
  <1>4. ASSUME NEW h \in reg'.grants, ~IsOpen(h)
        PROVE  \/ h.inc \in reg'.fencedInc
               \/ \E y \in reg'.grants : y.domain = h.domain /\ h.epoch < y.epoch
    <2>0. Cardinality(reg'.fencedInc) < MaxFenceRecords
      BY DEF FencedTableHasRoom
    <2>1. ASSUME NEW G \in SUBSET OpenGrants(reg), Closing(reg, reg', G, 0)
          PROVE  \/ h.inc \in reg'.fencedInc
                 \/ \E y \in reg'.grants : y.domain = h.domain /\ h.epoch < y.epoch
      <3>1. \/ h.inc \in reg'.fencedInc
            \/ h.inc = 0
            \/ \E x \in reg.grants : x.domain = h.domain /\ h.epoch < x.epoch
        BY <1>4, <2>0, <2>1, ClosingTrace
      <3>2. h.inc # 0
        BY BaseStep DEF BaseInv, Lineage
      <3> QED BY <1>2, <3>1, <3>2
    <2>2. CASE Steady
      BY <2>1, <2>2 DEF Steady
    <2>3. ASSUME NEW c \in Coordinators, Joining(c)
          PROVE  \/ h.inc \in reg'.fencedInc
                 \/ \E y \in reg'.grants : y.domain = h.domain /\ h.epoch < y.epoch
      <3>1. Closing(reg, reg', {}, 0) /\ {} \in SUBSET OpenGrants(reg)
        BY <2>3 DEF Joining
      <3> QED BY <2>1, <3>1
    <2>4. ASSUME NEW c \in Coordinators, NEW t, Granted(c, t)
          PROVE  \/ h.inc \in reg'.fencedInc
                 \/ \E y \in reg'.grants : y.domain = h.domain /\ h.epoch < y.epoch
      <3> DEFINE d == co[c].domain
                 n == NewGrant(t, d, co[c].inc)
                 G == InTheWay(reg, d)
      <3>1. /\ d \in Domains /\ co[c].inc \in 1..reg.inc /\ Granting(reg, t, reg', d, co[c].inc)
        BY <2>4 DEF Granted, BaseInv, TypeInv, Process
      <3>2. \A g \in t.grants : g.domain = d => g.epoch < n.epoch
        BY <1>0, <3>1, GrantingLineage
      <3>3. /\ n \in reg'.grants /\ n.domain = d /\ IsOpen(n)
            /\ Closing(reg, t, G, co[c].inc) /\ t.fencedInc = reg'.fencedInc
            /\ reg'.grants \subseteq t.grants \cup {n}
        BY <3>1 DEF Granting, NewGrant, IsOpen
      <3>4. G \in SUBSET OpenGrants(reg)
        BY DEF InTheWay
      <3> HIDE DEF n, G
      <3>5. h \in t.grants
        BY <1>4, <3>3
      <3>6. CASE h.inc = co[c].inc
        <4>1. Closing(reg, t, G, co[c].inc)
          BY <3>3
        <4>2. h.domain = d
          BY <1>3, <3>4, <3>5, <3>6, <4>1
        <4> QED BY <3>2, <3>3, <3>5, <4>2
      <3>7. CASE h.inc # co[c].inc
        <4>1. \/ h.inc \in t.fencedInc
              \/ \E x \in reg.grants : x.domain = h.domain /\ h.epoch < x.epoch
          BY <1>4, <2>0, <3>3, <3>4, <3>5, <3>7, ClosingTrace
        <4> QED BY <1>2, <3>3, <4>1
      <3> QED BY <3>6, <3>7
    <2> QED BY <1>0, <2>2, <2>3, <2>4 DEF Orderly, Moves
  <1> QED BY <1>1, <1>4 DEF TraceInv

\* A decision that no trace revokes has an open grant, which the fabric's floor
\* does not bar.
LEMMA StandingBacked ==
  ASSUME BaseInv, DecisionInv, TraceInv, NEW d \in decided, NEW others,
         ~Revoked(d, reg, fenceGen, now, others)
  PROVE  /\ {g \in OpenGrants(reg) : g.id = d.grant} # {}
         /\ \A e \in d.scope : floor[e].hw =< d.token
  <1>1. PICK g \in reg.grants : Backs(g, d)
    BY DEF TraceInv
  <1>2. d.inc \notin reg.fencedInc /\ ~(MaxEpoch(reg, d.domain) > d.epoch)
    BY DEF Revoked
  <1>3. IsOpen(g)
    <2> SUFFICES ASSUME ~IsOpen(g) PROVE FALSE
      OBVIOUS
    <2>1. g.inc \notin reg.fencedInc
      BY <1>1, <1>2 DEF Backs
    <2>2. PICK h \in reg.grants : h.domain = g.domain /\ g.epoch < h.epoch
      BY <2>1 DEF TraceInv
    <2>3. MaxEpoch(reg, d.domain) \in Nat /\ h.epoch =< MaxEpoch(reg, d.domain)
      BY <1>1, <2>2, MaxEpochIs DEF BaseInv, Backs
    <2>4. g.epoch \in Nat /\ h.epoch \in Nat /\ g.epoch = d.epoch
      BY <1>1 DEF BaseInv, Lineage, RegistryState, Grant, Backs
    <2> QED BY <1>2, <2>2, <2>3, <2>4
  <1>4. g \in OpenGrants(reg)
    BY <1>3 DEF OpenGrants
  <1>5. \A e \in g.scope : floor[e].hw =< g.token
    BY <1>4 DEF DecisionInv
  <1> QED BY <1>1, <1>4, <1>5 DEF Backs

\* RevocationComplete: what check_revocation lets stand would be admitted, however
\* often the registry restarted and counted its fence generations anew, as long as
\* neither the lineage nor the table of fenced incarnations had to drop entries.
THEOREM Complete ==
  Spec /\ []LineageHasRoom /\ []FencedTableHasRoom => []RevocationComplete
  <1> DEFINE Inv == BaseInv /\ DecisionInv /\ AgreementInv /\ TraceInv
  <1>1. Init => Inv
    <2>1. Init => TraceInv
      BY DEF Init, Blank, TraceInv
    <2> QED BY <2>1, BaseInit, DecisionInit, AgreementInit
  <1>2. Inv /\ LineageHasRoom /\ FencedTableHasRoom' /\ [Next]_vars => Inv'
    BY BaseStep, DecisionStep, AgreementStep, TraceStep
  <1>3. Inv => RevocationComplete
    BY StandingBacked DEF RevocationComplete
  <1> HIDE DEF Inv
  <1> QED BY <1>1, <1>2, <1>3, PTL DEF Spec

=============================================================================
