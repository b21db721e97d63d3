--------------------------- MODULE RegistryProofs ---------------------------
(***************************************************************************)
(* Theorems about Registry, for every set of domains and extents, every    *)
(* table bound, any number of sessions, crashes and failing appends:       *)
(* first types and exclusion, then what holds across boots, of             *)
(* incarnations, tokens and effects, then what the registry promises about *)
(* the past: whom it fenced, which grants it acknowledged and how it       *)
(* numbered them.  A theorem of the last kind names the circumstance it    *)
(* needs, without which the code does not keep the promise.                *)
(***************************************************************************)
EXTENDS Registry, Audit, FiniteSetTheorems, TLAPS, WellFoundedInduction

-----------------------------------------------------------------------------
(* Least and greatest elements. *)

\* A non-empty set of naturals has a least element.
LEMMA NatLeast ==
  ASSUME NEW T \in SUBSET Nat, T # {}
  PROVE  \E x \in T : \A y \in T : x =< y
  <1>1. \E x \in T : \A y \in T : ~ (<<y, x>> \in OpToRel(<, Nat))
    BY WFMin, NatLessThanWellFounded
  <1>2. PICK x \in T : \A y \in T : ~ (<<y, x>> \in OpToRel(<, Nat))
    BY <1>1
  <1>3. \A y \in T : x \in Nat /\ y \in Nat /\ ~(y < x)
    BY <1>2 DEF OpToRel
  <1> QED BY <1>3

\* Max is the greatest element of a non-empty bounded set of naturals.
LEMMA MaxBounded ==
  ASSUME NEW S \in SUBSET Nat, S # {}, NEW b \in Nat, \A x \in S : x =< b
  PROVE  Max(S) \in S /\ \A x \in S : x =< Max(S)
  <1> DEFINE U == {u \in Nat : \A x \in S : x =< u}
  <1>1. PICK u \in U : \A v \in U : u =< v
    <2>1. U \in SUBSET Nat /\ b \in U
      OBVIOUS
    <2> HIDE DEF U
    <2> QED BY <2>1, NatLeast
  <1>2. u \in S
    <2> SUFFICES ASSUME u \notin S PROVE FALSE
      OBVIOUS
    <2>1. PICK x \in S : TRUE
      OBVIOUS
    <2>2. u - 1 \in Nat /\ \A y \in S : y =< u - 1
      BY <2>1
    <2> QED BY <2>2, <1>1
  <1>3. \E m \in S : \A x \in S : m >= x
    BY <1>1, <1>2
  <1> QED BY <1>3 DEF Max

\* Min picks an element of a non-empty set of naturals.
LEMMA MinInSet ==
  ASSUME NEW S \in SUBSET Nat, S # {}
  PROVE  Min(S) \in S
  BY NatLeast DEF Min

-----------------------------------------------------------------------------
(* The tables: what RegistryState::apply preserves. *)

\* The durable counters dominate everything in the tables: no grant, fence
\* record or extent mark carries a number that could be handed out again.
Dominated(s) ==
  /\ \A g \in s.grants : g.id =< s.gid /\ g.token =< s.tok /\ g.epoch =< g.id
  /\ \A f \in s.frecs : f.token =< s.tok
  /\ \A e \in Extents : s.ext[e].hw =< s.tok

Sound(s) == s \in RegistryState /\ Dominated(s)

\* apply() never lowers a counter, and raises it to the value it is given.
LEMMA RaiseDominates ==
  ASSUME NEW c \in Nat, NEW v \in Nat
  PROVE  Raise(c, v) \in Nat /\ c =< Raise(c, v) /\ v =< Raise(c, v)
  BY DEF Raise

\* Oldest picks one of the grants it is given.
LEMMA OldestInSet ==
  ASSUME NEW G \in SUBSET Grant, G # {}
  PROVE  Oldest(G) \in G
  <1> DEFINE ids == {g.id : g \in G}
  <1>1. ids \in SUBSET Nat /\ ids # {}
    BY DEF Grant
  <1>2. \E n \in ids : \A m \in ids : n =< m
    <2> HIDE DEF ids
    <2> QED BY <1>1, NatLeast
  <1>3. \E g \in G : \A h \in G : g.id =< h.id
    BY <1>2
  <1> QED BY <1>3 DEF Oldest

\* Opening a grant, and the eviction that makes room for it, keep a state sound.
LEMMA GrantOpenSound ==
  ASSUME NEW s, Sound(s), NEW r \in OpenRecord
  PROVE  Sound(ApplyGrantOpen(s, r))
  <1> DEFINE t == ApplyGrantOpen(s, r)
  <1>1. r.grant \in Grant /\ r.grant.epoch =< r.grant.id
    BY DEF OpenRecord
  <1>2. /\ Raise(s.gid, r.grant.id) \in Nat /\ s.gid =< Raise(s.gid, r.grant.id)
        /\ r.grant.id =< Raise(s.gid, r.grant.id)
        /\ Raise(s.tok, r.grant.token) \in Nat /\ s.tok =< Raise(s.tok, r.grant.token)
        /\ r.grant.token =< Raise(s.tok, r.grant.token)
    BY <1>1, RaiseDominates DEF Sound, RegistryState, Grant
  <1>3. Retained(s) \subseteq s.grants
    BY DEF Retained
  <1>4. t \in RegistryState
    BY <1>1, <1>2, <1>3 DEF ApplyGrantOpen, Sound, RegistryState
  <1>5. /\ t.gid = Raise(s.gid, r.grant.id) /\ t.tok = Raise(s.tok, r.grant.token)
        /\ t.grants = Retained(s) \cup {r.grant} /\ t.frecs = s.frecs /\ t.ext = s.ext
    BY DEF ApplyGrantOpen, Sound, RegistryState
  <1>6. \A g \in t.grants : g.id =< t.gid /\ g.token =< t.tok /\ g.epoch =< g.id
    BY <1>1, <1>2, <1>3, <1>5 DEF Sound, Dominated, RegistryState, Grant
  <1>7. /\ \A f \in t.frecs : f.token =< t.tok
        /\ \A e \in Extents : t.ext[e].hw =< t.tok
    BY <1>2, <1>5 DEF Sound, Dominated, RegistryState, FenceRecord, Mark
  <1> QED BY <1>4, <1>6, <1>7 DEF Sound, Dominated

\* Closing a grant changes its state only.
LEMMA GrantCloseSound ==
  ASSUME NEW s, Sound(s), NEW r \in CloseRecord
  PROVE  Sound(ApplyGrantClose(s, r))
  <1> DEFINE t == ApplyGrantClose(s, r)
             c(g) == IF g.id = r.id /\ IsOpen(g) THEN [g EXCEPT !.state = r.state] ELSE g
  <1>1. ASSUME NEW g \in s.grants
        PROVE  /\ c(g) \in Grant
               /\ c(g).id = g.id /\ c(g).token = g.token /\ c(g).epoch = g.epoch
    BY DEF Sound, RegistryState, Grant, CloseRecord, GrantStates
  <1>2. t = [s EXCEPT !.grants = {c(g) : g \in s.grants}]
    BY DEF ApplyGrantClose
  <1> HIDE DEF c, t
  <1>3. t \in RegistryState
    BY <1>1, <1>2 DEF Sound, RegistryState
  <1>4. /\ t.grants = {c(g) : g \in s.grants} /\ t.gid = s.gid /\ t.tok = s.tok
        /\ t.frecs = s.frecs /\ t.ext = s.ext
    BY <1>2 DEF Sound, RegistryState
  <1>5. Dominated(t)
    BY <1>1, <1>4 DEF Sound, Dominated
  <1> QED BY <1>3, <1>5 DEF Sound, t

\* A fence that FenceTable::apply accepts keeps a state sound.
LEMMA FenceSound ==
  ASSUME NEW s, Sound(s), NEW r \in FenceRecords
  PROVE  Sound(ApplyFence(s, r))
  <1> DEFINE t == ApplyFence(s, r)
  <1>1. Raise(s.tok, r.token) \in Nat /\ s.tok =< Raise(s.tok, r.token)
        /\ r.token =< Raise(s.tok, r.token)
    BY RaiseDominates DEF Sound, RegistryState, FenceRecords
  <1>2. t.tok = Raise(s.tok, r.token) /\ t.grants = s.grants /\ t.gid = s.gid
    BY DEF ApplyFence, Sound, RegistryState
  <1>3. \A e \in Extents :
          t.ext[e].hw = IF e \in r.scope THEN r.token ELSE s.ext[e].hw
    BY DEF ApplyFence, Sound, RegistryState
  <1>4. t.frecs = Trimmed(s) \cup
          {[token |-> r.token, domain |-> r.domain, epoch |-> r.epoch, inc |-> r.inc]}
    BY DEF ApplyFence, Sound, RegistryState
  <1>5. Trimmed(s) \subseteq s.frecs
    BY DEF Trimmed
  <1>6. /\ AddBounded(s.fencedInc, r.inc) \in SUBSET Nat
        /\ AddBounded(s.fencedEpoch, <<r.domain, r.epoch>>)
             \in SUBSET ((Domains \cup {NoDomain}) \X Nat)
    BY DEF AddBounded, Sound, RegistryState, FenceRecords
  <1>7. t \in RegistryState
    <2>1. [e \in Extents |->
             IF e \in r.scope
             THEN [hw |-> r.token, owner |-> IF r.inc # 0 THEN r.inc ELSE s.ext[e].owner]
             ELSE s.ext[e]] \in [Extents -> Mark]
      BY DEF Sound, RegistryState, FenceRecords, Mark
    <2>2. Trimmed(s) \cup
            {[token |-> r.token, domain |-> r.domain, epoch |-> r.epoch, inc |-> r.inc]}
              \in SUBSET FenceRecord
      BY <1>5 DEF Sound, RegistryState, FenceRecords, FenceRecord
    <2> QED BY <1>1, <1>6, <2>1, <2>2 DEF ApplyFence, Sound, RegistryState
  <1>8. \A g \in t.grants : g.id =< t.gid /\ g.token =< t.tok /\ g.epoch =< g.id
    BY <1>1, <1>2 DEF Sound, Dominated, RegistryState, Grant
  <1>9. \A f \in t.frecs : f.token =< t.tok
    BY <1>1, <1>2, <1>4, <1>5 DEF Sound, Dominated, RegistryState, FenceRecord
  <1>10. \A e \in Extents : t.ext[e].hw =< t.tok
    BY <1>1, <1>2, <1>3 DEF Sound, Dominated, RegistryState, Mark, FenceRecords
  <1> QED BY <1>7, <1>8, <1>9, <1>10 DEF Sound, Dominated

\* So does an adoption that FenceTable::adopt accepts.
LEMMA AdoptSound ==
  ASSUME NEW s, Sound(s), NEW r \in AdoptRecord
  PROVE  Sound(ApplyAdopt(s, r))
  <1> DEFINE t == ApplyAdopt(s, r)
  <1>1. Raise(s.tok, r.token) \in Nat /\ s.tok =< Raise(s.tok, r.token)
        /\ r.token =< Raise(s.tok, r.token)
    BY RaiseDominates DEF Sound, RegistryState, AdoptRecord
  <1>2. /\ t.tok = Raise(s.tok, r.token) /\ t.grants = s.grants /\ t.gid = s.gid
        /\ t.frecs = s.frecs
    BY DEF ApplyAdopt, Sound, RegistryState
  <1>3. \A e \in Extents : t.ext[e].hw = IF e \in r.scope THEN r.token ELSE s.ext[e].hw
    BY DEF ApplyAdopt, Sound, RegistryState
  <1>4. t \in RegistryState
    <2>1. [e \in Extents |-> IF e \in r.scope THEN [hw |-> r.token, owner |-> r.inc]
                             ELSE s.ext[e]] \in [Extents -> Mark]
      BY DEF Sound, RegistryState, AdoptRecord, Mark
    <2> QED BY <1>1, <2>1 DEF ApplyAdopt, Sound, RegistryState
  <1>5. \A g \in t.grants : g.id =< t.gid /\ g.token =< t.tok /\ g.epoch =< g.id
    BY <1>1, <1>2 DEF Sound, Dominated, RegistryState, Grant
  <1>6. \A f \in t.frecs : f.token =< t.tok
    BY <1>1, <1>2 DEF Sound, Dominated, RegistryState, FenceRecord
  <1>7. \A e \in Extents : t.ext[e].hw =< t.tok
    BY <1>1, <1>2, <1>3 DEF Sound, Dominated, RegistryState, Mark, AdoptRecord
  <1> QED BY <1>4, <1>5, <1>6, <1>7 DEF Sound, Dominated

\* A change of the other fields keeps a sound state sound.
LEMMA SameTablesSound ==
  ASSUME NEW s, Sound(s), NEW t \in RegistryState,
         t.grants = s.grants, t.frecs = s.frecs, t.ext = s.ext,
         t.tok = s.tok, t.gid = s.gid
  PROVE  Sound(t)
  BY DEF Sound, Dominated

\* Every record a handler emits leaves a sound state sound.
LEMMA ApplySound ==
  ASSUME NEW s, Sound(s), NEW r \in Record
  PROVE  Sound(Apply(s, r))
  <1>1. CASE r \in BootRecord
    <2>1. /\ Apply(s, r) \in RegistryState
          /\ Apply(s, r).grants = s.grants /\ Apply(s, r).frecs = s.frecs
          /\ Apply(s, r).ext = s.ext /\ Apply(s, r).tok = s.tok /\ Apply(s, r).gid = s.gid
      <3>1. CASE r.kind = "BootBegin"
        <4>1. Apply(s, r) = [s EXCEPT !.boot = r.inc, !.inc = Raise(s.inc, r.inc),
                                      !.openBoots = s.openBoots \cup {r.inc}]
          BY <3>1 DEF Apply
        <4>2. Raise(s.inc, r.inc) \in Nat
          BY <1>1, RaiseDominates DEF BootRecord, Sound, RegistryState
        <4>3. r.inc \in Nat /\ s.openBoots \cup {r.inc} \in SUBSET Nat
          BY <1>1 DEF BootRecord, Sound, RegistryState
        <4>4. Apply(s, r) \in RegistryState
          BY <4>1, <4>2, <4>3 DEF Sound, RegistryState
        <4> QED BY <4>1, <4>4 DEF Sound, RegistryState
      <3>2. CASE r.kind = "BootEnd"
        <4>1. Apply(s, r) = [s EXCEPT !.openBoots = s.openBoots \ {r.inc}]
          BY <3>2 DEF Apply
        <4> QED BY <1>1, <4>1 DEF BootRecord, Sound, RegistryState
      <3>3. CASE r.kind = "IncarnationAllocate"
        <4>1. Apply(s, r) = [s EXCEPT !.inc = r.inc]
          BY <3>3 DEF Apply
        <4> QED BY <1>1, <4>1 DEF BootRecord, Sound, RegistryState
      <3> QED BY <1>1, <3>1, <3>2, <3>3 DEF BootRecord
    <2> QED BY <2>1, SameTablesSound
  <1>2. CASE r \in DomainRecord
    <2>1. Apply(s, r) = [s EXCEPT !.domains[r.domain] = r.scope]
      BY <1>2 DEF DomainRecord, Apply
    <2>2. [s.domains EXCEPT ![r.domain] = r.scope] \in [Domains -> SUBSET Extents]
      BY <1>2 DEF DomainRecord, Sound, RegistryState
    <2>3. /\ Apply(s, r) \in RegistryState
          /\ Apply(s, r).grants = s.grants /\ Apply(s, r).frecs = s.frecs
          /\ Apply(s, r).ext = s.ext /\ Apply(s, r).tok = s.tok /\ Apply(s, r).gid = s.gid
      BY <2>1, <2>2 DEF Sound, RegistryState
    <2> QED BY <2>3, SameTablesSound
  <1>3. CASE r \in OpenRecord
    <2>1. Apply(s, r) = ApplyGrantOpen(s, r)
      BY <1>3 DEF OpenRecord, Apply
    <2> QED BY <1>3, <2>1, GrantOpenSound
  <1>4. CASE r \in CloseRecord
    <2>1. Apply(s, r) = ApplyGrantClose(s, r)
      BY <1>4 DEF CloseRecord, Apply
    <2> QED BY <1>4, <2>1, GrantCloseSound
  <1>5. CASE r \in FenceRecords
    <2>1. Apply(s, r) = ApplyFence(s, r)
      BY <1>5 DEF FenceRecords, Apply
    <2> QED BY <1>5, <2>1, FenceSound
  <1>6. CASE r \in AdoptRecord
    <2>1. Apply(s, r) = ApplyAdopt(s, r)
      BY <1>6 DEF AdoptRecord, Apply
    <2> QED BY <1>6, <2>1, AdoptSound
  <1>7. CASE r \in MarkRecord
    <2>1. Apply(s, r) = [s EXCEPT !.marks = s.marks \cup {r.id}]
      BY <1>7 DEF MarkRecord, Apply
    <2>2. /\ Apply(s, r) \in RegistryState
          /\ Apply(s, r).grants = s.grants /\ Apply(s, r).frecs = s.frecs
          /\ Apply(s, r).ext = s.ext /\ Apply(s, r).tok = s.tok /\ Apply(s, r).gid = s.gid
      BY <1>7, <2>1 DEF MarkRecord, Sound, RegistryState
    <2> QED BY <2>2, SameTablesSound
  <1>8. CASE r \in EffectRecord
    <2>1. Apply(s, r) = s
      BY <1>8 DEF EffectRecord, Apply
    <2> QED BY <2>1
  <1> QED BY <1>1, <1>2, <1>3, <1>4, <1>5, <1>6, <1>7, <1>8 DEF Record

\* So does a record the tables refuse.
LEMMA RefusedSound ==
  ASSUME NEW s, Sound(s), NEW r \in Record, ~CanApply(s, r)
  PROVE  Sound(Refused(s, r))
  <1> DEFINE t == Refused(s, r)
             tk == IF r.kind = "GrantOpen" THEN r.grant.token ELSE r.token
  <1>1. r \in OpenRecord \cup FenceRecords \cup AdoptRecord
    BY DEF CanApply, Record, BootRecord, DomainRecord, CloseRecord, MarkRecord, EffectRecord
  <1>2. tk \in Nat
    BY <1>1 DEF OpenRecord, FenceRecords, AdoptRecord, Grant
  <1>3. Raise(s.tok, tk) \in Nat /\ s.tok =< Raise(s.tok, tk)
    BY <1>2, RaiseDominates DEF Sound, RegistryState
  <1>4. r.kind = "GrantOpen" =>
          Raise(s.gid, r.grant.id) \in Nat /\ s.gid =< Raise(s.gid, r.grant.id)
    BY <1>1, RaiseDominates DEF OpenRecord, FenceRecords, AdoptRecord, Grant, Sound, RegistryState
  <1>5. Trimmed(s) \subseteq s.frecs
    BY DEF Trimmed
  <1>6. t = [s EXCEPT !.ahead = TRUE, !.tok = Raise(s.tok, tk),
                      !.gid = IF r.kind = "GrantOpen" THEN Raise(s.gid, r.grant.id) ELSE s.gid,
                      !.frecs = IF r.kind = "Fence" THEN Trimmed(s) ELSE s.frecs]
    BY DEF Refused
  <1>7. t \in RegistryState
    <2>1. ASSUME NEW k \in Nat, NEW i \in Nat, NEW F \in SUBSET FenceRecord
          PROVE  [s EXCEPT !.ahead = TRUE, !.tok = k, !.gid = i, !.frecs = F] \in RegistryState
      BY DEF Sound, RegistryState
    <2>2. s.gid \in Nat /\ s.frecs \in SUBSET FenceRecord
      BY DEF Sound, RegistryState
    <2>3. (IF r.kind = "GrantOpen" THEN Raise(s.gid, r.grant.id) ELSE s.gid) \in Nat
      BY <1>4, <2>2
    <2>4. (IF r.kind = "Fence" THEN Trimmed(s) ELSE s.frecs) \in SUBSET FenceRecord
      BY <1>5, <2>2
    <2> HIDE DEF t, tk
    <2> QED BY <1>3, <1>6, <2>1, <2>3, <2>4, Zenon
  <1>8. /\ t.tok = Raise(s.tok, tk) /\ t.grants = s.grants /\ t.ext = s.ext
        /\ t.gid \in Nat /\ s.gid =< t.gid
        /\ t.frecs \subseteq s.frecs
    BY <1>4, <1>5, <1>6 DEF Sound, RegistryState
  <1>9. Dominated(t)
    BY <1>3, <1>8 DEF Sound, Dominated, RegistryState, Grant, FenceRecord, Mark
  <1> QED BY <1>7, <1>9 DEF Sound

\* A snapshot of a sound state loads as a sound state.
LEMMA ImportSound ==
  ASSUME NEW s, Sound(s)
  PROVE  Sound(Import(s)) /\ Import(s).grants = s.grants
  <1>1. Import(s) \in RegistryState
    <2>1. {f.inc : f \in {h \in s.frecs : h.inc # 0}} \cup
            {s.ext[e].owner : e \in {x \in Extents : s.ext[x].owner # 0}} \in SUBSET Nat
      BY DEF Sound, RegistryState, FenceRecord, Mark
    <2>2. {<<f.domain, f.epoch>> : f \in {h \in s.frecs : h.epoch # 0}}
            \in SUBSET ((Domains \cup {NoDomain}) \X Nat)
      BY DEF Sound, RegistryState, FenceRecord
    <2> QED BY <2>1, <2>2 DEF Import, Sound, RegistryState
  <1>2. /\ Import(s).grants = s.grants /\ Import(s).frecs = s.frecs /\ Import(s).ext = s.ext
        /\ Import(s).tok = s.tok /\ Import(s).gid = s.gid
    BY DEF Import, Sound, RegistryState
  <1> QED BY <1>1, <1>2, SameTablesSound

\* A fresh RegistryState is sound.
LEMMA BlankSound == Sound(Blank)
  BY DEF Sound, Dominated, RegistryState, Blank, Mark

-----------------------------------------------------------------------------
(* Type correctness. *)

\* The fabric log holds finitely many effects, so rebuild() finds a maximum.
EffectsBounded ==
  \E b \in Nat : \A i \in DOMAIN log : log[i].cred.token =< b /\ log[i].cred.id =< b

TargetSound == op.pc = "open" => op.target.epoch =< op.target.id

TypeInv == TypeOK /\ Sound(mem) /\ Sound(disk) /\ EffectsBounded /\ TargetSound

\* rebuild() only raises the two counters.
LEMMA RebuildSound ==
  ASSUME NEW s, Sound(s), log \in Seq(Effect), EffectsBounded
  PROVE  Sound(Rebuild(s)) /\ Rebuild(s).grants = s.grants
  <1> DEFINE T == {s.tok} \cup {s.ext[e].hw : e \in Extents}
                    \cup {g.token : g \in s.grants} \cup {f.token : f \in s.frecs}
                    \cup {log[i].cred.token : i \in DOMAIN log}
             D == {s.gid} \cup {g.id : g \in s.grants} \cup {log[i].cred.id : i \in DOMAIN log}
  <1>e. \A i \in DOMAIN log : log[i] \in Effect
    OBVIOUS
  <1>0. /\ \A i \in DOMAIN log : log[i].cred.token \in Nat /\ log[i].cred.id \in Nat
        /\ s.tok \in Nat /\ s.gid \in Nat
        /\ \A e \in Extents : s.ext[e].hw \in Nat
        /\ \A g \in s.grants : g.id \in Nat /\ g.token \in Nat
        /\ \A f \in s.frecs : f.token \in Nat
    BY <1>e DEF Effect, Grant, Sound, RegistryState, Mark, FenceRecord
  <1>1. PICK b \in Nat : \A i \in DOMAIN log : log[i].cred.token =< b /\ log[i].cred.id =< b
    BY DEF EffectsBounded
  <1>2. T \in SUBSET Nat /\ s.tok \in T /\ T # {} /\ s.tok + b \in Nat
        /\ \A x \in T : x =< s.tok + b
    <2>1. T \in SUBSET Nat /\ s.tok \in T
      BY <1>0
    <2>2. \A x \in T : x =< s.tok + b
      BY <1>0, <1>1 DEF Sound, Dominated
    <2> HIDE DEF T
    <2> QED BY <1>0, <2>1, <2>2
  <1>3. D \in SUBSET Nat /\ s.gid \in D /\ D # {} /\ s.gid + b \in Nat
        /\ \A x \in D : x =< s.gid + b
    BY <1>0, <1>1 DEF Sound, Dominated
  <1>4. Rebuild(s) = [s EXCEPT !.tok = Max(T), !.gid = Max(D)]
    BY DEF Rebuild
  <1>5. Max(T) \in Nat /\ s.tok =< Max(T)
    <2> HIDE DEF T
    <2>1. Max(T) \in T /\ \A x \in T : x =< Max(T)
      BY <1>2, MaxBounded
    <2> QED BY <1>2, <2>1
  <1>6. Max(D) \in Nat /\ s.gid =< Max(D)
    <2> HIDE DEF D
    <2>1. Max(D) \in D /\ \A x \in D : x =< Max(D)
      BY <1>3, MaxBounded
    <2> QED BY <1>3, <2>1
  <1> HIDE DEF T, D
  <1>7. Rebuild(s) \in RegistryState
    BY <1>4, <1>5, <1>6 DEF Sound, RegistryState
  <1>8. /\ Rebuild(s).grants = s.grants /\ Rebuild(s).frecs = s.frecs /\ Rebuild(s).ext = s.ext
        /\ Rebuild(s).tok = Max(T) /\ Rebuild(s).gid = Max(D)
    BY <1>4 DEF Sound, RegistryState
  <1>9. Dominated(Rebuild(s))
    BY <1>0, <1>5, <1>6, <1>8 DEF Sound, Dominated
  <1> QED BY <1>7, <1>8, <1>9 DEF Sound

\* The highest epoch of a domain is a number no higher than the grant counter.
LEMMA MaxEpochBounded ==
  ASSUME NEW s, Sound(s), NEW d
  PROVE  MaxEpoch(s, d) \in Nat /\ MaxEpoch(s, d) =< s.gid
  <1> DEFINE E == {0} \cup {g.epoch : g \in {h \in s.grants : h.domain = d}}
  <1>1. E \in SUBSET Nat /\ E # {} /\ s.gid \in Nat /\ \A x \in E : x =< s.gid
    BY DEF Sound, Dominated, RegistryState, Grant
  <1>2. MaxEpoch(s, d) = Max(E)
    BY DEF MaxEpoch
  <1> HIDE DEF E
  <1> QED BY <1>1, <1>2, MaxBounded

\* A handler only fences grants that are open in memory.
LEMMA VictimsAreOpen ==
  ASSUME Sound(mem)
  PROVE  Victims \subseteq OpenGrants(mem) /\ Victims \in SUBSET Grant
  BY DEF Victims, Overlapping, Interrupted, OpenGrants, Sound, RegistryState

\* emit() and the append that follows it keep both images sound.
LEMMA EmitSound ==
  ASSUME TypeInv, NEW r \in Record, NEW next \in Operation, Emit(r, next)
  PROVE  /\ Sound(mem') /\ Sound(disk')
         /\ since' \in Nat /\ faults' \in Nat
         /\ op' \in Operation
         /\ op'.pc = "open" => next.pc = "open" /\ op'.target = next.target
  <1>0. Sound(mem) /\ Sound(disk) /\ Sound(Apply(mem, r)) /\ Sound(Apply(disk, r))
    BY ApplySound DEF TypeInv
  <1>1. since \in Nat /\ faults \in Nat /\ op \in Operation
    BY DEF TypeInv, TypeOK
  <1>2. Sound([Apply(mem, r) EXCEPT !.ahead = TRUE])
    <2> DEFINE s == Apply(mem, r)
    <2>1. s \in RegistryState /\ Sound(s)
      BY <1>0 DEF Sound
    <2> HIDE DEF s
    <2>2. /\ [s EXCEPT !.ahead = TRUE] \in RegistryState
          /\ [s EXCEPT !.ahead = TRUE].grants = s.grants
          /\ [s EXCEPT !.ahead = TRUE].frecs = s.frecs
          /\ [s EXCEPT !.ahead = TRUE].ext = s.ext
          /\ [s EXCEPT !.ahead = TRUE].tok = s.tok
          /\ [s EXCEPT !.ahead = TRUE].gid = s.gid
      BY <2>1 DEF RegistryState
    <2>3. Sound([s EXCEPT !.ahead = TRUE])
      BY <2>1, <2>2, SameTablesSound
    <2> QED BY <2>3 DEF s
  <1>3. CASE CanApply(mem, r) /\ Appended(r) /\ op' = next
    BY <1>0, <1>1, <1>3 DEF Appended
  <1>4. CASE CanApply(mem, r) /\ NotAppended(r) /\ op' = [next EXCEPT !.result = "io"]
    <2>1. Sound(mem') /\ since' \in Nat
      BY <1>1, <1>2, <1>4 DEF NotAppended
    <2>2. Sound(disk') /\ faults' \in Nat
      BY <1>0, <1>1, <1>4 DEF NotAppended
    <2>3. op' \in Operation /\ op'.pc = next.pc /\ op'.target = next.target
      BY <1>4 DEF Operation
    <2> QED BY <2>1, <2>2, <2>3
  <1>5. CASE /\ ~CanApply(mem, r) /\ mem' = Refused(mem, r)
             /\ op' = [op EXCEPT !.pc = "finish",
                                 !.result = IF op.result = "io" THEN "io" ELSE "refused"]
             /\ UNCHANGED <<disk, since, faults>>
    <2>1. Sound(mem')
      BY <1>0, <1>5, RefusedSound
    <2>2. op' \in Operation /\ op'.pc = "finish"
      BY <1>1, <1>5 DEF Operation
    <2> QED BY <1>0, <1>1, <1>5, <2>1, <2>2
  <1> QED BY <1>3, <1>4, <1>5 DEF Emit

\* The checkpoint at the end of append_records leaves a sound disk.
LEMMA CheckpointSound ==
  ASSUME TypeInv, Checkpoint
  PROVE  Sound(disk') /\ since' \in Nat
  <1>1. CASE disk' = Import(mem) /\ since' = 0
    BY <1>1, ImportSound DEF TypeInv
  <1>2. CASE UNCHANGED <<disk, since>>
    BY <1>2 DEF TypeInv, TypeOK
  <1> QED BY <1>1, <1>2 DEF Checkpoint

\* The operations a handler starts from are well typed.
LEMMA BeginType ==
  ASSUME NEW h \in Handlers, NEW p \in {"boots", "scan", "record", "finish"}, NEW q \in Request
  PROVE  Begin(h, p, q) \in Operation /\ Begin(h, p, q).pc = p
  BY DEF Begin, Free, Operation, NoGrant, Grant, GrantStates, NoRequest, Request

\* The free state_mutex_ and the empty request are well typed.
LEMMA FreeType == Free \in Operation /\ Free.pc = "finish" /\ NoRequest \in Request
  BY DEF Free, Operation, NoGrant, Grant, GrantStates, NoRequest, Request, Handlers

\* A step that emits one record and touches nothing else.
LEMMA EmitTypeInv ==
  ASSUME TypeInv, NEW r \in Record, NEW next \in Operation, Emit(r, next),
         next.pc = "open" => next.target.epoch =< next.target.id,
         UNCHANGED <<phase, sessions, issued, log, floor>>, deposed' \subseteq Nat
  PROVE  TypeInv'
  <1>1. /\ Sound(mem') /\ Sound(disk') /\ since' \in Nat /\ faults' \in Nat /\ op' \in Operation
        /\ op'.pc = "open" => next.pc = "open" /\ op'.target = next.target
    BY EmitSound
  <1>2. TypeOK'
    BY <1>1 DEF TypeInv, TypeOK, Sound
  <1>3. EffectsBounded' /\ TargetSound'
    BY <1>1 DEF TypeInv, EffectsBounded, TargetSound
  <1> QED BY <1>1, <1>2, <1>3 DEF TypeInv

\* A step that starts a handler and leaves everything else alone.
LEMMA BeginTypeInv ==
  ASSUME TypeInv, op' \in Operation, op'.pc # "open",
         UNCHANGED <<phase, mem, disk, since, sessions, issued, log, floor, deposed, faults>>
  PROVE  TypeInv'
  BY DEF TypeInv, TypeOK, EffectsBounded, TargetSound

\* The steps that emit a record.
Emitting ==
  \/ Hello
  \/ \E d \in Domains, scope \in Scopes : Define(d, scope)
  \/ FenceVictim \/ MarkVictim \/ CloseVictim \/ FenceUnowned
  \/ AdoptScope \/ OpenGrant \/ RecordCommit
  \/ EndBoot /\ mem.openBoots # {}
  \/ BeginBoot

\* r and next describe a step that emits r and goes on with next: a grant is
\* opened at "open" only, and "open" is reached only when nothing overlaps.
EmitsOnly(r, next) ==
  /\ Emit(r, next)
  /\ UNCHANGED <<phase, sessions, issued, log, floor>>
  /\ deposed' \subseteq Nat
  /\ r.kind = "GrantOpen" => op.pc = "open" /\ r.grant = op.target
  /\ next.pc = "open" => /\ r.kind # "GrantOpen"
                         /\ Overlapping(mem, op.req) = {}
                         /\ next.target.scope = op.req.scope
                         /\ next.target.epoch =< next.target.id

\* fence_scope()'s record, and the set of deposed incarnations it extends.
LEMMA FenceRecType ==
  ASSUME TypeInv, NEW d \in Domains \cup {NoDomain}, NEW scope \in SUBSET Extents,
         NEW epoch \in Nat, NEW i \in Nat
  PROVE  /\ FenceRec(d, scope, epoch, i) \in Record
         /\ FenceRec(d, scope, epoch, i).kind = "Fence"
         /\ Depose(FenceRec(d, scope, epoch, i)) => deposed' \subseteq Nat
  <1>1. mem.tok \in Nat /\ deposed \subseteq Nat
    BY DEF TypeInv, TypeOK, RegistryState
  <1>2. FenceRec(d, scope, epoch, i) \in FenceRecords
    BY <1>1 DEF FenceRec, FenceRecords
  <1>3. FenceRec(d, scope, epoch, i).inc = i /\ FenceRec(d, scope, epoch, i).kind = "Fence"
    BY DEF FenceRec
  <1> QED BY <1>1, <1>2, <1>3 DEF Depose, Record

\* Every emitting step has that shape.
LEMMA EmittingShape ==
  ASSUME TypeInv, Emitting
  PROVE  \E r \in Record, next \in Operation : EmitsOnly(r, next)
  <1>0. /\ mem \in RegistryState /\ op \in Operation /\ deposed \subseteq Nat
        /\ mem.inc \in Nat /\ mem.tok \in Nat /\ mem.gid \in Nat /\ mem.boot \in Nat
        /\ op.req \in Request /\ op.target \in Grant /\ Sound(mem) /\ Sound(disk)
    BY DEF TypeInv, TypeOK, RegistryState, Operation
  <1>f. [op EXCEPT !.pc = "finish"] \in Operation /\ [op EXCEPT !.pc = "finish"].pc = "finish"
    BY <1>0 DEF Operation
  <1>1. CASE Hello
    <2> DEFINE r == [kind |-> "IncarnationAllocate", inc |-> mem.inc + 1]
               next == Begin("hello", "finish", [NoRequest EXCEPT !.inc = mem.inc + 1])
    <2>1. [NoRequest EXCEPT !.inc = mem.inc + 1] \in Request
      BY <1>0 DEF NoRequest, Request
    <2>2. next \in Operation /\ next.pc = "finish"
      BY <2>1, BeginType DEF Handlers
    <2>3. r \in Record /\ r.kind # "GrantOpen"
      BY <1>0 DEF Record, BootRecord
    <2>4. EmitsOnly(r, next)
      BY <1>0, <1>1, <2>2, <2>3 DEF Hello, EmitsOnly
    <2> QED BY <2>2, <2>3, <2>4
  <1>2. ASSUME NEW d \in Domains, NEW scope \in Scopes, Define(d, scope)
        PROVE  \E r \in Record, next \in Operation : EmitsOnly(r, next)
    <2> DEFINE r == [kind |-> "DomainDefine", domain |-> d, scope |-> scope]
               next == Begin("define", "finish", NoRequest)
    <2>1. next \in Operation /\ next.pc = "finish"
      BY BeginType, FreeType DEF Handlers
    <2>2. r \in Record /\ r.kind # "GrantOpen"
      BY ConstantsAssumption DEF Record, DomainRecord
    <2>3. EmitsOnly(r, next)
      BY <1>0, <1>2, <2>1, <2>2 DEF Define, EmitsOnly
    <2> QED BY <2>1, <2>2, <2>3
  <1>3. CASE FenceVictim
    <2> DEFINE g == Oldest(Victims)
               r == FenceRec(g.domain, g.scope, g.epoch, FencedIncarnation(g))
               next == [op EXCEPT !.pc = AfterFence, !.target = g]
    <2>1. g \in Grant
      BY <1>0, <1>3, VictimsAreOpen, OldestInSet DEF FenceVictim
    <2>2. Emit(r, next) /\ Depose(r) /\ UNCHANGED <<phase, sessions, issued, log, floor>>
      BY <1>3 DEF FenceVictim
    <2> HIDE DEF g
    <2>3. FencedIncarnation(g) \in Nat
      BY <2>1 DEF FencedIncarnation, Grant
    <2>4. r \in Record /\ r.kind = "Fence" /\ deposed' \subseteq Nat
      BY <2>1, <2>2, <2>3, FenceRecType DEF Grant
    <2>5. next \in Operation /\ next.pc # "open"
      BY <1>0, <2>1 DEF Operation, AfterFence
    <2>6. EmitsOnly(r, next)
      BY <2>2, <2>4, <2>5 DEF EmitsOnly
    <2> QED BY <2>4, <2>5, <2>6
  <1>4. CASE MarkVictim
    <2> DEFINE r == [kind |-> "InterruptMark", id |-> op.target.id]
               next == [op EXCEPT !.pc = "close"]
    <2>1. r \in Record /\ r.kind # "GrantOpen"
      BY <1>0 DEF Record, MarkRecord, Grant
    <2>2. next \in Operation /\ next.pc = "close"
      BY <1>0 DEF Operation
    <2>3. EmitsOnly(r, next)
      BY <1>0, <1>4, <2>1, <2>2 DEF MarkVictim, EmitsOnly
    <2> QED BY <2>1, <2>2, <2>3
  <1>5. CASE CloseVictim
    <2> DEFINE r == [kind |-> "GrantClose", id |-> op.target.id, state |-> ClosedAs(op.handler)]
               next == [op EXCEPT !.pc = IF op.handler = "release" THEN "finish" ELSE "scan",
                                  !.target = NoGrant, !.hit = TRUE]
    <2>1. ClosedAs(op.handler) \in GrantStates \ {"Open"}
      BY DEF ClosedAs, GrantStates
    <2>2. r \in Record /\ r.kind # "GrantOpen"
      BY <1>0, <2>1 DEF Record, CloseRecord, Grant
    <2>3. next \in Operation /\ next.pc # "open"
      BY <1>0 DEF Operation, NoGrant, Grant, GrantStates
    <2>4. EmitsOnly(r, next)
      BY <1>0, <1>5, <2>2, <2>3 DEF CloseVictim, EmitsOnly
    <2> QED BY <2>2, <2>3, <2>4
  <1>6. CASE FenceUnowned
    <2> DEFINE r == FenceRec(op.req.domain, op.req.scope, op.req.epoch, op.req.inc)
    <2>1. Emit(r, [op EXCEPT !.pc = "finish"]) /\ Depose(r)
          /\ UNCHANGED <<phase, sessions, issued, log, floor>>
      BY <1>6 DEF FenceUnowned
    <2>2. r \in Record /\ r.kind = "Fence" /\ deposed' \subseteq Nat
      BY <1>0, <2>1, FenceRecType DEF Request
    <2>3. EmitsOnly(r, [op EXCEPT !.pc = "finish"])
      BY <1>f, <2>1, <2>2 DEF EmitsOnly
    <2> QED BY <1>f, <2>2, <2>3
  <1>7. CASE AdoptScope
    <2> DEFINE r == [kind |-> "ExtentAdopt", token |-> mem.tok + 1, scope |-> op.req.scope,
                     inc |-> op.req.inc]
               next == [op EXCEPT !.pc = "open", !.target = NewGrant]
    <2>1. MaxEpoch(mem, op.req.domain) \in Nat /\ MaxEpoch(mem, op.req.domain) =< mem.gid
      BY <1>0, MaxEpochBounded
    <2>2. NewGrant \in Grant /\ NewGrant.epoch =< NewGrant.id /\ NewGrant.scope = op.req.scope
      BY <1>0, <2>1 DEF NewGrant, Grant, GrantStates, Request
    <2>3. next \in Operation /\ next.target = NewGrant
      BY <1>0, <2>2 DEF Operation
    <2>4. r \in Record /\ r.kind # "GrantOpen"
      BY <1>0 DEF Record, AdoptRecord, Request
    <2>5. Overlapping(mem, op.req) = {}
      BY <1>7 DEF AdoptScope, Victims
    <2>6. EmitsOnly(r, next)
      BY <1>0, <1>7, <2>2, <2>3, <2>4, <2>5 DEF AdoptScope, EmitsOnly
    <2> QED BY <2>3, <2>4, <2>6
  <1>8. CASE OpenGrant
    <2> DEFINE r == [kind |-> "GrantOpen", grant |-> op.target]
    <2>1. r \in Record /\ r.grant = op.target
      BY <1>0, <1>8 DEF OpenGrant, Record, OpenRecord, TypeInv, TargetSound
    <2>2. EmitsOnly(r, [op EXCEPT !.pc = "finish"])
      BY <1>0, <1>f, <1>8, <2>1 DEF OpenGrant, EmitsOnly
    <2> QED BY <1>f, <2>1, <2>2
  <1>9. CASE RecordCommit
    <2> DEFINE r == [kind |-> "CommitRecord"]
    <2>1. r \in Record /\ r.kind # "GrantOpen"
      BY DEF Record, EffectRecord
    <2>2. EmitsOnly(r, [op EXCEPT !.pc = "finish"])
      BY <1>0, <1>f, <1>9, <2>1 DEF RecordCommit, EmitsOnly
    <2> QED BY <1>f, <2>1, <2>2
  <1>10. CASE EndBoot /\ mem.openBoots # {}
    <2> DEFINE r == [kind |-> "BootEnd", inc |-> Min(mem.openBoots)]
    <2>1. mem.openBoots \in SUBSET Nat /\ Min(mem.openBoots) \in Nat
      BY <1>0, <1>10, MinInSet DEF RegistryState
    <2>2. r \in Record /\ r.kind # "GrantOpen"
      BY <2>1 DEF Record, BootRecord
    <2>3. EmitsOnly(r, op)
      BY <1>0, <1>10, <2>2 DEF EndBoot, EmitsOnly
    <2> QED BY <1>0, <2>2, <2>3
  <1>11. CASE BeginBoot
    <2> DEFINE r == [kind |-> "BootBegin", inc |-> BootIncarnation]
    <2>1. r \in Record /\ r.kind # "GrantOpen"
      BY <1>0 DEF Record, BootRecord, BootIncarnation
    <2>2. EmitsOnly(r, [op EXCEPT !.pc = "finish"])
      BY <1>0, <1>f, <1>11, <2>1 DEF BeginBoot, EmitsOnly
    <2> QED BY <1>f, <2>1, <2>2
  <1> QED BY <1>1, <1>2, <1>3, <1>4, <1>5, <1>6, <1>7, <1>8, <1>9, <1>10, <1>11 DEF Emitting

\* Hence every emitting step keeps the type invariant.
LEMMA EmittingType ==
  ASSUME TypeInv, Emitting
  PROVE  TypeInv'
  <1>1. PICK r \in Record, next \in Operation : EmitsOnly(r, next)
    BY EmittingShape
  <1> QED BY <1>1, EmitTypeInv DEF EmitsOnly

\* Every request that takes or leaves state_mutex_ keeps the type invariant.
LEMMA RequestsType ==
  ASSUME TypeInv, Requests
  PROVE  TypeInv'
  <1>0. mem \in RegistryState /\ op \in Operation /\ sessions \subseteq Nat
        /\ issued \subseteq Grant /\ mem.inc \in Nat
    BY DEF TypeInv, TypeOK, RegistryState
  <1>1. CASE Emitting
    BY <1>1, EmittingType
  <1>2. ASSUME NEW i \in sessions, Disconnect(i) PROVE TypeInv'
    BY <1>2 DEF Disconnect, TypeInv, TypeOK, EffectsBounded, TargetSound
  <1>4. ASSUME NEW i \in sessions, NEW d \in Domains, NEW a \in Attempts, Allocate(i, d, a)
        PROVE  TypeInv'
    <2> DEFINE q == [NoRequest EXCEPT !.domain = d, !.scope = mem.domains[d],
                                      !.inc = i, !.attempt = a]
    <2>1. q \in Request
      BY <1>0, ConstantsAssumption DEF NoRequest, Request, RegistryState
    <2> HIDE DEF q
    <2>2. /\ Begin("allocate", "finish", q) \in Operation
          /\ Begin("allocate", "finish", q).pc = "finish"
          /\ Begin("allocate", "scan", q) \in Operation
          /\ Begin("allocate", "scan", q).pc = "scan"
      BY <2>1, BeginType DEF Handlers
    <2>3. \A g \in SameAttempt(mem, i, d, a) : g \in Grant
      BY <1>0 DEF SameAttempt, OpenGrants, RegistryState
    <2>4. op' \in Operation /\ op'.pc # "open"
      <3>1. \/ \E g \in Grant : op' = [Begin("allocate", "finish", q) EXCEPT !.target = g]
            \/ op' = Begin("allocate", "scan", q)
        BY <1>4, <2>3 DEF Allocate, q
      <3> QED BY <3>1, <2>2 DEF Operation
    <2> QED BY <1>4, <2>4, BeginTypeInv DEF Allocate
  <1>5. ASSUME NEW d \in Domains, NEW epoch \in {0} \cup {c.epoch : c \in issued},
               NEW i \in {0} \cup {c.inc : c \in issued}, Fence(d, epoch, i)
        PROVE  TypeInv'
    <2> DEFINE q == [NoRequest EXCEPT !.domain = d, !.scope = mem.domains[d],
                                      !.epoch = epoch, !.inc = i]
    <2>1. epoch \in Nat /\ i \in Nat
      BY <1>0 DEF Grant
    <2>2. q \in Request
      BY <1>0, <2>1 DEF NoRequest, Request, RegistryState
    <2> HIDE DEF q
    <2>3. Begin("fence", "scan", q) \in Operation /\ Begin("fence", "scan", q).pc = "scan"
      BY <2>2, BeginType DEF Handlers
    <2>4. op' = Begin("fence", "scan", q)
      BY <1>5 DEF Fence, q
    <2> QED BY <1>5, <2>3, <2>4, BeginTypeInv DEF Fence
  <1>6. ASSUME NEW c \in issued, Release(c) PROVE TypeInv'
    <2>1. [NoRequest EXCEPT !.grant = c.id] \in Request
      BY <1>0 DEF NoRequest, Request, Grant
    <2>2. /\ Begin("release", "scan", [NoRequest EXCEPT !.grant = c.id]) \in Operation
          /\ Begin("release", "scan", [NoRequest EXCEPT !.grant = c.id]).pc = "scan"
      BY <2>1, BeginType DEF Handlers
    <2> QED BY <1>6, <2>2, BeginTypeInv DEF Release
  <1>7. ASSUME NEW c \in issued, Commit(c) PROVE TypeInv'
    <2>1. c \in Grant /\ c.token \in Nat /\ c.inc \in Nat /\ c.id \in Nat
      BY <1>0 DEF Grant
    <2>2. op' \in Operation /\ op'.pc = "record"
      BY <1>7, BeginType, FreeType DEF Commit, Handlers
    <2>3. [cred |-> c, boot |-> mem.boot] \in Effect
      BY <1>0, <2>1 DEF Effect, RegistryState
    <2>4. log \in Seq(Effect) /\ log' = Append(log, [cred |-> c, boot |-> mem.boot])
      BY <1>7 DEF Commit, TypeInv, TypeOK
    <2>5. log' \in Seq(Effect)
      BY <2>3, <2>4
    <2>6. EffectsBounded'
      <3>1. PICK b \in Nat : \A k \in DOMAIN log : log[k].cred.token =< b /\ log[k].cred.id =< b
        BY DEF TypeInv, EffectsBounded
      <3>2. ASSUME NEW k \in DOMAIN log'
            PROVE  \/ k \in DOMAIN log /\ log'[k] = log[k]
                   \/ log'[k] = [cred |-> c, boot |-> mem.boot]
        BY <2>3, <2>4
      <3>3. \A k \in DOMAIN log : log[k] \in Effect
        BY <2>4
      <3>4. \A k \in DOMAIN log' : /\ log'[k].cred.token =< b + c.token + c.id
                                   /\ log'[k].cred.id =< b + c.token + c.id
        BY <2>1, <3>1, <3>2, <3>3 DEF Effect, Grant
      <3>5. b + c.token + c.id \in Nat
        BY <2>1
      <3> QED BY <3>4, <3>5 DEF EffectsBounded
    <2>7. floor' \in [Extents -> Mark]
      BY <1>7, <2>1 DEF Commit, Mark, TypeInv, TypeOK
    <2> QED BY <1>7, <2>2, <2>5, <2>6, <2>7 DEF Commit, TypeInv, TypeOK, TargetSound
  <1>8. CASE Observe
    BY <1>8 DEF Observe, vars, TypeInv, TypeOK, EffectsBounded, TargetSound
  <1>9. CASE Refuse
    <2>1. Sound(disk') /\ since' \in Nat
      BY <1>9, CheckpointSound DEF Refuse
    <2> QED BY <1>9, <2>1 DEF Refuse, TypeInv, TypeOK, Sound, EffectsBounded, TargetSound
  <1> QED BY <1>1, <1>2, <1>4, <1>5, <1>6, <1>7, <1>8, <1>9 DEF Requests, Emitting

\* Every step of the handler that holds state_mutex_ keeps it.
LEMMA HandlerStepType ==
  ASSUME TypeInv, HandlerStep
  PROVE  TypeInv'
  <1>0. /\ mem \in RegistryState /\ op \in Operation /\ deposed \subseteq Nat
        /\ mem.inc \in Nat /\ mem.tok \in Nat /\ mem.gid \in Nat /\ mem.boot \in Nat
        /\ op.req \in Request /\ op.target \in Grant /\ Sound(mem) /\ Sound(disk)
    BY DEF TypeInv, TypeOK, RegistryState, Operation
  <1>1. CASE Emitting
    BY <1>1, EmittingType
  <1>5. CASE FenceDone
    <2>1. op' \in Operation /\ op'.pc # "open"
      BY <1>0, <1>5 DEF FenceDone, Operation
    <2> QED BY <1>5, <2>1, BeginTypeInv DEF FenceDone
  <1>9. CASE EndBoot /\ mem.openBoots = {}
    <2>1. op' \in Operation /\ op'.pc # "open"
      BY <1>0, <1>9 DEF EndBoot, Operation
    <2> QED BY <1>9, <2>1, BeginTypeInv DEF EndBoot
  <1>11. CASE Recovered
    <2>1. CASE phase' = "ready" /\ op' = Free /\ Checkpoint /\ UNCHANGED <<mem, sessions>>
      <3>1. Sound(disk') /\ since' \in Nat
        BY <2>1, CheckpointSound
      <3> QED BY <1>11, <2>1, <3>1, FreeType
              DEF Recovered, TypeInv, TypeOK, Sound, EffectsBounded, TargetSound
    <2>2. CASE GoDown /\ disk' = disk
      BY <1>11, <2>2, BlankSound, FreeType
         DEF Recovered, GoDown, TypeInv, TypeOK, Sound, EffectsBounded, TargetSound
    <2> QED BY <1>11, <2>1, <2>2 DEF Recovered
  <1>12. CASE Finish
    <2>1. Sound(disk') /\ since' \in Nat
      BY <1>12, CheckpointSound DEF Finish
    <2>2. sessions' \subseteq Nat /\ issued' \subseteq Grant
      BY <1>0, <1>12 DEF Finish, TypeInv, TypeOK, Request
    <2> QED BY <1>12, <2>1, <2>2, FreeType
            DEF Finish, TypeInv, TypeOK, Sound, EffectsBounded, TargetSound
  <1> QED BY <1>1, <1>5, <1>9, <1>11, <1>12 DEF HandlerStep, Emitting

\* Every step of the registry keeps it.
LEMMA TypeStep ==
  ASSUME TypeInv, [Next]_vars
  PROVE  TypeInv'
  <1>1. CASE Restart
    <2>1. Begin("recover", "boots", NoRequest) \in Operation
          /\ Begin("recover", "boots", NoRequest).pc = "boots"
      BY BeginType, FreeType DEF Handlers
    <2>2. Sound(mem')
      BY <1>1, RebuildSound DEF Restart, TypeInv, TypeOK
    <2> QED BY <1>1, <2>1, <2>2
            DEF Restart, TypeInv, TypeOK, Sound, EffectsBounded, TargetSound
  <1>2. CASE RestartFails \/ UNCHANGED vars
    BY <1>2 DEF RestartFails, vars, TypeInv, TypeOK, EffectsBounded, TargetSound
  <1>3. CASE Crash
    <2>1. faults' \in Nat /\ op' = Free /\ mem' = Blank
      BY <1>3 DEF Crash, GoDown, TypeInv, TypeOK
    <2>2. TypeOK'
      BY <1>3, <2>1, BlankSound, FreeType DEF Crash, GoDown, TypeInv, TypeOK, Sound
    <2> QED BY <1>3, <2>1, <2>2, BlankSound, FreeType
            DEF Crash, TypeInv, EffectsBounded, TargetSound
  <1> QED BY <1>1, <1>2, <1>3, RequestsType, HandlerStepType DEF Next

\* The empty registry satisfies it.
LEMMA TypeInit == Init => TypeInv
  <1> SUFFICES ASSUME Init PROVE TypeInv
    OBVIOUS
  <1>1. TypeOK
    BY BlankSound, FreeType DEF Init, TypeOK, Sound, Mark
  <1>2. EffectsBounded
    <2>1. DOMAIN log = {}
      BY DEF Init
    <2> QED BY <2>1 DEF EffectsBounded
  <1> QED BY <1>1, <1>2, BlankSound, FreeType DEF Init, TypeInv, TargetSound

\* The inductive type invariant: types, counters above everything they numbered,
\* in memory and on disk, and the target of the handler a grant of memory.
THEOREM TypeInvariant == Spec => []TypeInv
  BY TypeInit, TypeStep, PTL DEF Spec

\* Every variable keeps its type, whatever is requested, crashes or fails.
THEOREM TypeCorrect == Spec => []TypeOK
  <1>1. TypeInv => TypeOK
    BY DEF TypeInv
  <1> QED BY <1>1, TypeInvariant, PTL

-----------------------------------------------------------------------------
(* Mutual exclusion. *)

\* While the registry is up and every append has succeeded, a replay would
\* rebuild the lineage that memory holds.
LineageOnDisk == phase # "down" /\ ~mem.ahead => disk.grants = mem.grants

\* The grant about to be opened meets no open grant.
TargetFree ==
  op.pc = "open" => \A g \in OpenGrants(mem) : g.scope \cap op.target.scope = {}

IdleWhileDown == phase = "down" => op = Free

MutexInv == OpenGrantsDisjoint /\ LineageOnDisk /\ TargetFree /\ IdleWhileDown

\* The grants a record may leave open: the ones that were, and the one it opens.
LEMMA ApplyOpens ==
  ASSUME NEW s \in RegistryState, NEW r \in Record
  PROVE  /\ r.kind # "GrantOpen" => OpenGrants(Apply(s, r)) \subseteq OpenGrants(s)
         /\ r.kind = "GrantOpen" => OpenGrants(Apply(s, r)) \subseteq OpenGrants(s) \cup {r.grant}
  <1>1. CASE r.kind = "GrantOpen"
    <2>1. Apply(s, r).grants = Retained(s) \cup {r.grant}
      BY <1>1 DEF Apply, ApplyGrantOpen, RegistryState
    <2>2. Retained(s) \subseteq s.grants
      BY DEF Retained
    <2> QED BY <1>1, <2>1, <2>2 DEF OpenGrants
  <1>2. CASE r.kind = "GrantClose"
    <2>0. r.state # "Open"
      BY <1>2 DEF Record, CloseRecord, BootRecord, DomainRecord, OpenRecord, FenceRecords,
                  AdoptRecord, MarkRecord, EffectRecord
    <2> DEFINE c(g) == IF g.id = r.id /\ IsOpen(g) THEN [g EXCEPT !.state = r.state] ELSE g
    <2>1. Apply(s, r).grants = {c(g) : g \in s.grants}
      BY <1>2 DEF Apply, ApplyGrantClose, RegistryState
    <2>2. ASSUME NEW g \in s.grants, IsOpen(c(g)) PROVE c(g) = g
      BY <2>0, <2>2 DEF IsOpen, RegistryState, Grant
    <2> HIDE DEF c
    <2>3. OpenGrants(Apply(s, r)) \subseteq OpenGrants(s)
      BY <2>1, <2>2 DEF OpenGrants
    <2> QED BY <1>2, <2>3
  <1>3. CASE r.kind \notin {"GrantOpen", "GrantClose"}
    <2>1. Apply(s, r).grants = s.grants
      BY <1>3 DEF Apply, ApplyFence, ApplyAdopt, RegistryState, Record, BootRecord, DomainRecord,
                  OpenRecord, CloseRecord, FenceRecords, AdoptRecord, MarkRecord, EffectRecord
    <2> QED BY <1>3, <2>1 DEF OpenGrants
  <1> QED BY <1>1, <1>2, <1>3

\* What a record does to the lineage depends on the lineage alone.
LEMMA ApplySameLineage ==
  ASSUME NEW s \in RegistryState, NEW t \in RegistryState, s.grants = t.grants, NEW r \in Record
  PROVE  Apply(s, r).grants = Apply(t, r).grants
  <1>1. CASE r.kind = "GrantOpen"
    <2>1. /\ Apply(s, r).grants = Retained(s) \cup {r.grant}
          /\ Apply(t, r).grants = Retained(t) \cup {r.grant}
      BY <1>1 DEF Apply, ApplyGrantOpen, RegistryState
    <2>2. Retained(s) = Retained(t)
      BY DEF Retained, OpenGrants
    <2> QED BY <2>1, <2>2
  <1>2. CASE r.kind = "GrantClose"
    BY <1>2 DEF Apply, ApplyGrantClose, RegistryState
  <1>3. CASE r.kind \notin {"GrantOpen", "GrantClose"}
    BY <1>3 DEF Apply, ApplyFence, ApplyAdopt, RegistryState, Record, BootRecord, DomainRecord,
                OpenRecord, CloseRecord, FenceRecords, AdoptRecord, MarkRecord, EffectRecord
  <1> QED BY <1>1, <1>2, <1>3

\* Disjoint grants stay disjoint when a grant that meets none of them joins.
LEMMA DisjointExtends ==
  ASSUME NEW G, NEW H, NEW x, Disjoint(G), H \subseteq G \cup {x},
         \A g \in G : g.scope \cap x.scope = {}
  PROVE  Disjoint(H)
  BY DEF Disjoint

\* A step that emits one record keeps the grants disjoint, in memory and on
\* disk, provided that a grant it opens, now or next, meets none of them.
LEMMA EmitMutex ==
  ASSUME TypeInv, MutexInv, phase # "down", phase' = phase,
         NEW r \in Record, NEW next \in Operation, Emit(r, next),
         r.kind = "GrantOpen" => \A g \in OpenGrants(mem) : g.scope \cap r.grant.scope = {},
         next.pc = "open" => /\ r.kind # "GrantOpen"
                             /\ \A g \in OpenGrants(mem) : g.scope \cap next.target.scope = {}
  PROVE  MutexInv'
  <1> DEFINE a == Apply(mem, r)
             b == Apply(disk, r)
  <1>0. /\ mem \in RegistryState /\ disk \in RegistryState /\ op \in Operation
        /\ a \in RegistryState
    BY ApplySound DEF TypeInv, TypeOK, Sound
  <1>1. Disjoint(OpenGrants(a))
    <2>1. CASE r.kind = "GrantOpen"
      BY <1>0, <2>1, ApplyOpens, DisjointExtends DEF MutexInv, OpenGrantsDisjoint
    <2>2. CASE r.kind # "GrantOpen"
      BY <1>0, <2>2, ApplyOpens DEF MutexInv, OpenGrantsDisjoint, Disjoint
    <2> QED BY <2>1, <2>2
  <1>2. ~mem.ahead => disk.grants = mem.grants /\ b.grants = a.grants
    BY <1>0, ApplySameLineage DEF MutexInv, LineageOnDisk
  <1>3. ~mem.ahead => Disjoint(OpenGrants(b))
    BY <1>1, <1>2 DEF OpenGrants
  <1>4. next.pc = "open" => \A g \in OpenGrants(a) : g.scope \cap next.target.scope = {}
    BY <1>0, ApplyOpens
  <1>5. IdleWhileDown'
    BY DEF IdleWhileDown
  <1> HIDE DEF a, b
  <1>6. CASE Appended(r) /\ op' = next
    <2>1. ~mem.ahead /\ mem' = a /\ disk' = b
      BY <1>6 DEF Appended, a, b
    <2> QED BY <1>1, <1>2, <1>3, <1>4, <1>5, <1>6, <2>1
            DEF MutexInv, OpenGrantsDisjoint, LineageOnDisk, TargetFree
  <1>7. CASE NotAppended(r) /\ op' = [next EXCEPT !.result = "io"]
    <2>1. mem' = [a EXCEPT !.ahead = TRUE] /\ (disk' = disk \/ (~mem.ahead /\ disk' = b))
      BY <1>7 DEF NotAppended, a, b
    <2>2. mem'.grants = a.grants /\ mem'.ahead
      BY <1>0, <2>1 DEF RegistryState
    <2>3. op'.pc = next.pc /\ op'.target = next.target
      BY <1>7 DEF Operation
    <2>4. OpenGrantsDisjoint'
      BY <1>1, <1>3, <2>1, <2>2 DEF MutexInv, OpenGrantsDisjoint, OpenGrants
    <2>5. TargetFree'
      BY <1>4, <2>2, <2>3 DEF TargetFree, OpenGrants
    <2> QED BY <1>5, <2>2, <2>4, <2>5 DEF MutexInv, LineageOnDisk
  <1>8. CASE /\ mem' = Refused(mem, r) /\ op'.pc = "finish" /\ disk' = disk
    <2>1. mem'.grants = mem.grants /\ mem'.ahead
      BY <1>0, <1>8 DEF Refused, RegistryState
    <2> QED BY <1>5, <1>8, <2>1
            DEF MutexInv, OpenGrantsDisjoint, LineageOnDisk, TargetFree, OpenGrants
  <1> QED BY <1>0, <1>6, <1>7, <1>8 DEF Emit, Operation

\* Hence every emitting step keeps the grants disjoint.
LEMMA EmittingMutex ==
  ASSUME TypeInv, MutexInv, Emitting
  PROVE  MutexInv'
  <1>1. PICK r \in Record, next \in Operation : EmitsOnly(r, next)
    BY EmittingShape
  <1>2. phase # "down"
    <2>1. phase = "ready" \/ op.pc # "finish"
      <3>1. CASE Hello \/ \E d \in Domains, scope \in Scopes : Define(d, scope)
        BY <3>1 DEF Hello, Define, CanServe
      <3>2. CASE ~(Hello \/ \E d \in Domains, scope \in Scopes : Define(d, scope))
        BY <3>2 DEF Emitting, FenceVictim, MarkVictim, CloseVictim, FenceUnowned, AdoptScope,
                    OpenGrant, RecordCommit, EndBoot, BeginBoot
      <3> QED BY <3>1, <3>2
    <2> QED BY <2>1, FreeType DEF MutexInv, IdleWhileDown
  <1>3. r.kind = "GrantOpen" => \A g \in OpenGrants(mem) : g.scope \cap r.grant.scope = {}
    BY <1>1 DEF EmitsOnly, MutexInv, TargetFree
  <1>4. next.pc = "open" => /\ r.kind # "GrantOpen"
                            /\ \A g \in OpenGrants(mem) : g.scope \cap next.target.scope = {}
    BY <1>1 DEF EmitsOnly, Overlapping
  <1> QED BY <1>1, <1>2, <1>3, <1>4, EmitMutex DEF EmitsOnly

\* A step that emits nothing, keeps both images and is not about to open.
LEMMA QuietMutex ==
  ASSUME MutexInv, mem' = mem, disk' = disk, phase' = phase, phase # "down", op'.pc # "open"
  PROVE  MutexInv'
  BY DEF MutexInv, OpenGrantsDisjoint, LineageOnDisk, TargetFree, IdleWhileDown

\* A checkpoint copies the lineage of memory to disk.
LEMMA CheckpointMutex ==
  ASSUME TypeInv, MutexInv, Checkpoint, mem' = mem, phase # "down", phase' # "down", op' = Free
  PROVE  MutexInv'
  <1>1. disk'.grants = mem.grants \/ disk' = disk
    BY ImportSound DEF Checkpoint, TypeInv
  <1>2. op'.pc # "open"
    BY FreeType
  <1> QED BY <1>1, <1>2
          DEF MutexInv, OpenGrantsDisjoint, LineageOnDisk, TargetFree, IdleWhileDown, OpenGrants

\* Going down forgets memory; the disk keeps what it holds.
LEMMA GoDownMutex ==
  ASSUME MutexInv, GoDown, disk' = disk
  PROVE  MutexInv'
  <1>1. OpenGrants(mem') = {} /\ phase' = "down" /\ op' = Free /\ op'.pc # "open"
    BY FreeType DEF GoDown, OpenGrants, Blank
  <1> QED BY <1>1
          DEF MutexInv, OpenGrantsDisjoint, Disjoint, LineageOnDisk, TargetFree, IdleWhileDown

\* Every step of the registry keeps the grants disjoint.
LEMMA MutexStep ==
  ASSUME TypeInv, MutexInv, [Next]_vars
  PROVE  MutexInv'
  <1>0. op \in Operation
    BY DEF TypeInv, TypeOK
  <1>1. CASE Emitting
    BY <1>1, EmittingMutex
  <1>2. ASSUME NEW i \in sessions, Disconnect(i) PROVE MutexInv'
    BY <1>2, FreeType, QuietMutex DEF Disconnect, CanServe
  <1>3. ASSUME NEW i \in sessions, NEW d \in Domains, NEW a \in Attempts, Allocate(i, d, a)
        PROVE  MutexInv'
    <2>1. op'.pc # "open"
      BY <1>3 DEF Allocate, Begin, Free
    <2> QED BY <1>3, <2>1, QuietMutex DEF Allocate, CanServe
  <1>4. ASSUME NEW d \in Domains, NEW epoch, NEW i, Fence(d, epoch, i) PROVE MutexInv'
    <2>1. op'.pc # "open"
      BY <1>4 DEF Fence, Begin, Free
    <2> QED BY <1>4, <2>1, QuietMutex DEF Fence, CanServe
  <1>5. ASSUME NEW c \in issued, Release(c) \/ Commit(c) PROVE MutexInv'
    <2>1. op'.pc # "open"
      BY <1>5 DEF Release, Commit, Begin, Free
    <2> QED BY <1>5, <2>1, QuietMutex DEF Release, Commit, CanServe
  <1>6. CASE FenceDone \/ (EndBoot /\ mem.openBoots = {})
    <2>1. op'.pc # "open" /\ phase # "down"
      BY <1>0, <1>6 DEF FenceDone, EndBoot, Operation, MutexInv, IdleWhileDown, Free
    <2> QED BY <1>6, <2>1, QuietMutex DEF FenceDone, EndBoot
  <1>7. CASE Recovered
    <2>1. phase # "down"
      BY <1>7 DEF Recovered, MutexInv, IdleWhileDown, Free
    <2>2. CASE phase' = "ready" /\ op' = Free /\ Checkpoint /\ UNCHANGED <<mem, sessions>>
      BY <2>1, <2>2, CheckpointMutex
    <2>3. CASE GoDown /\ disk' = disk
      BY <2>3, GoDownMutex
    <2> QED BY <1>7, <2>2, <2>3 DEF Recovered
  <1>8. CASE Finish
    <2>1. phase # "down"
      BY <1>8 DEF Finish, MutexInv, IdleWhileDown, Free
    <2> QED BY <1>8, <2>1, CheckpointMutex DEF Finish
  <1>9. CASE Restart
    <2>1. mem'.grants = disk.grants /\ disk' = disk /\ phase' = "recovering"
      BY <1>9, RebuildSound DEF Restart, TypeInv, TypeOK
    <2>2. op'.pc # "open"
      BY <1>9 DEF Restart, Begin, Free
    <2> QED BY <2>1, <2>2
            DEF MutexInv, OpenGrantsDisjoint, LineageOnDisk, TargetFree, IdleWhileDown, OpenGrants
  <1>10. CASE Crash
    BY <1>10, GoDownMutex DEF Crash
  <1>11. CASE Observe \/ RestartFails \/ UNCHANGED vars
    BY <1>11 DEF Observe, RestartFails, vars, MutexInv, OpenGrantsDisjoint, LineageOnDisk,
                 TargetFree, IdleWhileDown
  <1>12. CASE Refuse
    BY <1>12, CheckpointMutex DEF Refuse, CanServe
  <1> QED BY <1>1, <1>2, <1>3, <1>4, <1>5, <1>6, <1>7, <1>8, <1>9, <1>10, <1>11, <1>12
          DEF Next, Requests, HandlerStep, Emitting

\* The empty registry has no grants.
LEMMA MutexInit == Init => MutexInv
  BY FreeType DEF Init, MutexInv, OpenGrantsDisjoint, Disjoint, LineageOnDisk, TargetFree,
                  IdleWhileDown, OpenGrants, Blank

\* MUTEX for every number of domains and extents: no two open grants share an
\* extent, in the running registry and in what any crash leaves on disk, also
\* when appends fail and when a full table refuses a record half-way.
THEOREM Mutex == Spec => []OpenGrantsDisjoint
  <1>1. Init => TypeInv /\ MutexInv
    BY TypeInit, MutexInit
  <1>2. TypeInv /\ MutexInv /\ [Next]_vars => TypeInv' /\ MutexInv'
    BY TypeStep, MutexStep
  <1>3. MutexInv => OpenGrantsDisjoint
    BY DEF MutexInv
  <1> QED BY <1>1, <1>2, <1>3, PTL DEF Spec

-----------------------------------------------------------------------------
(* What a step that emits a record does, field by field. *)

\* Every field that r does not name keeps its value, and the counters only grow.
LEMMA ApplyFields ==
  ASSUME NEW s \in RegistryState, NEW r \in Record
  PROVE  LET a == Apply(s, r) IN
         /\ r.kind # "BootBegin" => a.boot = s.boot
         /\ r.kind \notin {"BootBegin", "BootEnd"} => a.openBoots = s.openBoots
         /\ r.kind \notin {"BootBegin", "IncarnationAllocate"} => a.inc = s.inc
         /\ r.kind # "InterruptMark" => a.marks = s.marks
         /\ r.kind \notin {"GrantOpen", "GrantClose"} => a.grants = s.grants
         /\ r.kind # "Fence" => a.fencedInc = s.fencedInc
         /\ s.tok =< a.tok
         /\ a.ahead = s.ahead
  <1> DEFINE a == Apply(s, r)
  <1>0. s.tok \in Nat
    BY DEF RegistryState
  <1>1. CASE r \in BootRecord
    <2>1. CASE r.kind = "BootBegin"
      <3>1. a = [s EXCEPT !.boot = r.inc, !.inc = Raise(s.inc, r.inc),
                          !.openBoots = s.openBoots \cup {r.inc}]
        BY <2>1 DEF Apply
      <3> QED BY <1>0, <2>1, <3>1 DEF RegistryState
    <2>2. CASE r.kind = "BootEnd"
      <3>1. a = [s EXCEPT !.openBoots = s.openBoots \ {r.inc}]
        BY <2>2 DEF Apply
      <3> QED BY <1>0, <2>2, <3>1 DEF RegistryState
    <2>3. CASE r.kind = "IncarnationAllocate"
      <3>1. a = [s EXCEPT !.inc = r.inc]
        BY <2>3 DEF Apply
      <3> QED BY <1>0, <2>3, <3>1 DEF RegistryState
    <2> QED BY <1>1, <2>1, <2>2, <2>3 DEF BootRecord
  <1>2. CASE r \in DomainRecord
    BY <1>0, <1>2 DEF DomainRecord, Apply, RegistryState
  <1>3. CASE r \in OpenRecord
    <2>1. a = ApplyGrantOpen(s, r) /\ r.kind = "GrantOpen"
      BY <1>3 DEF OpenRecord, Apply
    <2>2. s.tok =< Raise(s.tok, r.grant.token)
      BY <1>0, <1>3, RaiseDominates DEF OpenRecord, Grant
    <2> QED BY <2>1, <2>2 DEF ApplyGrantOpen, RegistryState
  <1>4. CASE r \in CloseRecord
    <2>1. a = ApplyGrantClose(s, r) /\ r.kind = "GrantClose"
      BY <1>4 DEF CloseRecord, Apply
    <2> QED BY <1>0, <2>1 DEF ApplyGrantClose, RegistryState
  <1>5. CASE r \in FenceRecords
    <2>1. a = ApplyFence(s, r) /\ r.kind = "Fence"
      BY <1>5 DEF FenceRecords, Apply
    <2>2. s.tok =< Raise(s.tok, r.token)
      BY <1>0, <1>5, RaiseDominates DEF FenceRecords
    <2> QED BY <2>1, <2>2 DEF ApplyFence, RegistryState
  <1>6. CASE r \in AdoptRecord
    <2>1. a = ApplyAdopt(s, r) /\ r.kind = "ExtentAdopt"
      BY <1>6 DEF AdoptRecord, Apply
    <2>2. s.tok =< Raise(s.tok, r.token)
      BY <1>0, <1>6, RaiseDominates DEF AdoptRecord
    <2> QED BY <2>1, <2>2 DEF ApplyAdopt, RegistryState
  <1>7. CASE r \in MarkRecord
    <2>1. a = [s EXCEPT !.marks = s.marks \cup {r.id}] /\ r.kind = "InterruptMark"
      BY <1>7 DEF MarkRecord, Apply
    <2> QED BY <1>0, <2>1 DEF RegistryState
  <1>8. CASE r \in EffectRecord
    <2>1. a = s
      BY <1>8 DEF EffectRecord, Apply
    <2> QED BY <1>0, <2>1
  <1> QED BY <1>1, <1>2, <1>3, <1>4, <1>5, <1>6, <1>7, <1>8 DEF Record

\* What the fields a record does name become.
LEMMA ApplyNamed ==
  ASSUME NEW s \in RegistryState, NEW r \in Record
  PROVE  LET a == Apply(s, r) IN
         /\ r.kind = "BootBegin" => /\ a.boot = r.inc /\ a.inc = Raise(s.inc, r.inc)
                                    /\ a.openBoots = s.openBoots \cup {r.inc}
         /\ r.kind = "BootEnd" => a.openBoots = s.openBoots \ {r.inc}
         /\ r.kind = "IncarnationAllocate" => a.inc = r.inc
         /\ r.kind = "InterruptMark" => a.marks = s.marks \cup {r.id}
         /\ r.kind = "ExtentAdopt" => r.token =< a.tok
         /\ r.kind = "GrantOpen" => /\ a.grants = Retained(s) \cup {r.grant}
                                    /\ Retained(s) \subseteq s.grants
                                    /\ r.grant.token =< a.tok
  <1> DEFINE a == Apply(s, r)
  <1>0. s.tok \in Nat
    BY DEF RegistryState
  <1>1. r.kind = "BootBegin" => /\ a.boot = r.inc /\ a.inc = Raise(s.inc, r.inc)
                                /\ a.openBoots = s.openBoots \cup {r.inc}
    BY DEF Apply, RegistryState
  <1>2. /\ r.kind = "BootEnd" => a.openBoots = s.openBoots \ {r.inc}
        /\ r.kind = "IncarnationAllocate" => a.inc = r.inc
        /\ r.kind = "InterruptMark" => a.marks = s.marks \cup {r.id}
    BY DEF Apply, RegistryState
  <1>3. ASSUME r.kind = "ExtentAdopt" PROVE r.token =< a.tok
    <2>1. r \in AdoptRecord
      BY <1>3 DEF Record, BootRecord, DomainRecord, OpenRecord, CloseRecord, FenceRecords,
                  AdoptRecord, MarkRecord, EffectRecord
    <2>2. a.tok = Raise(s.tok, r.token)
      BY <1>3 DEF Apply, ApplyAdopt, RegistryState
    <2> QED BY <1>0, <2>1, <2>2, RaiseDominates DEF AdoptRecord
  <1>4. ASSUME r.kind = "GrantOpen"
        PROVE  /\ a.grants = Retained(s) \cup {r.grant}
               /\ Retained(s) \subseteq s.grants
               /\ r.grant.token =< a.tok
    <2>1. r \in OpenRecord
      BY <1>4 DEF Record, BootRecord, DomainRecord, OpenRecord, CloseRecord, FenceRecords,
                  AdoptRecord, MarkRecord, EffectRecord
    <2>2. a.tok = Raise(s.tok, r.grant.token) /\ a.grants = Retained(s) \cup {r.grant}
      BY <1>4 DEF Apply, ApplyGrantOpen, RegistryState
    <2>3. r.grant.token \in Nat
      BY <2>1 DEF OpenRecord, Grant
    <2>4. Retained(s) \subseteq s.grants
      BY DEF Retained
    <2> QED BY <1>0, <2>2, <2>3, <2>4, RaiseDominates
  <1> QED BY <1>1, <1>2, <1>3, <1>4

\* The record was applied to memory; it is on disk too when the handler may go
\* on, and may be when the append failed.
Applied(r, next) ==
  /\ CanApply(mem, r)
  /\ LET a == Apply(mem, r) IN
       /\ mem'.domains = a.domains /\ mem'.grants = a.grants /\ mem'.ext = a.ext
       /\ mem'.fencedInc = a.fencedInc /\ mem'.marks = a.marks
       /\ mem'.openBoots = a.openBoots /\ mem'.tok = a.tok /\ mem'.gid = a.gid
       /\ mem'.inc = a.inc /\ mem'.boot = a.boot /\ mem'.frecs = a.frecs
  /\ op'.handler = next.handler /\ op'.pc = next.pc /\ op'.req = next.req
  /\ op'.target = next.target
  /\ \/ ~mem.ahead /\ ~mem'.ahead /\ disk' = Apply(disk, r) /\ op'.result = next.result
     \/ /\ mem'.ahead /\ op'.result = "io"
        /\ disk' = disk \/ (~mem.ahead /\ disk' = Apply(disk, r))

\* A table refused the record: the handler ends without an answer.
Declined(r) ==
  /\ ~CanApply(mem, r)
  /\ mem'.domains = mem.domains /\ mem'.grants = mem.grants /\ mem'.ext = mem.ext
  /\ mem'.fencedInc = mem.fencedInc /\ mem'.marks = mem.marks
  /\ mem'.openBoots = mem.openBoots /\ mem'.inc = mem.inc /\ mem'.boot = mem.boot
  /\ mem.tok =< mem'.tok /\ mem'.frecs \subseteq mem.frecs
  /\ mem'.ahead /\ disk' = disk
  /\ op'.handler = op.handler /\ op'.req = op.req /\ op'.target = op.target
  /\ op'.pc = "finish" /\ op'.result # "ok"

\* emit() has one of the two outcomes.
LEMMA EmitOutcome ==
  ASSUME TypeInv, NEW r \in Record, NEW next \in Operation, Emit(r, next)
  PROVE  Applied(r, next) \/ Declined(r)
  <1>0. mem \in RegistryState /\ disk \in RegistryState /\ op \in Operation
    BY DEF TypeInv, TypeOK
  <1>a. Apply(mem, r) \in RegistryState /\ Apply(mem, r).ahead = mem.ahead
    BY <1>0, ApplySound, ApplyFields DEF TypeInv, Sound
  <1>1. CASE CanApply(mem, r) /\ Appended(r) /\ op' = next
    BY <1>a, <1>1 DEF Appended, Applied
  <1>2. CASE CanApply(mem, r) /\ NotAppended(r) /\ op' = [next EXCEPT !.result = "io"]
    <2> DEFINE a == Apply(mem, r)
    <2>1. mem' = [a EXCEPT !.ahead = TRUE] /\ (disk' = disk \/ (~mem.ahead /\ disk' = Apply(disk, r)))
      BY <1>2 DEF NotAppended
    <2>2. a \in RegistryState
      BY <1>a
    <2> HIDE DEF a
    <2>3. /\ mem'.domains = a.domains /\ mem'.grants = a.grants /\ mem'.ext = a.ext
          /\ mem'.fencedInc = a.fencedInc /\ mem'.marks = a.marks
          /\ mem'.openBoots = a.openBoots /\ mem'.tok = a.tok /\ mem'.gid = a.gid
          /\ mem'.inc = a.inc /\ mem'.boot = a.boot /\ mem'.frecs = a.frecs /\ mem'.ahead
      BY <2>1, <2>2 DEF RegistryState
    <2>4. /\ op'.handler = next.handler /\ op'.pc = next.pc /\ op'.req = next.req
          /\ op'.target = next.target /\ op'.result = "io"
      BY <1>2 DEF Operation
    <2> QED BY <1>2, <2>1, <2>3, <2>4 DEF Applied, a
  <1>3. CASE /\ ~CanApply(mem, r) /\ mem' = Refused(mem, r) /\ disk' = disk
             /\ op' = [op EXCEPT !.pc = "finish",
                                 !.result = IF op.result = "io" THEN "io" ELSE "refused"]
    <2>1. mem.tok =< mem'.tok
      <3>1. r \in OpenRecord \cup FenceRecords \cup AdoptRecord
        BY <1>3 DEF CanApply, Record, BootRecord, DomainRecord, CloseRecord, MarkRecord, EffectRecord
      <3>2. mem.tok \in Nat
        BY <1>0 DEF RegistryState
      <3>3. mem'.tok = IF r.kind = "GrantOpen" THEN Raise(mem.tok, r.grant.token)
                                               ELSE Raise(mem.tok, r.token)
        BY <1>0, <1>3 DEF Refused, RegistryState
      <3> QED BY <3>1, <3>2, <3>3, RaiseDominates DEF OpenRecord, FenceRecords, AdoptRecord, Grant
    <2>2. /\ mem'.domains = mem.domains /\ mem'.grants = mem.grants /\ mem'.ext = mem.ext
          /\ mem'.fencedInc = mem.fencedInc /\ mem'.marks = mem.marks
          /\ mem'.openBoots = mem.openBoots /\ mem'.inc = mem.inc /\ mem'.boot = mem.boot
          /\ mem'.ahead
      BY <1>0, <1>3 DEF Refused, RegistryState
    <2>3. /\ op'.handler = op.handler /\ op'.req = op.req /\ op'.target = op.target
          /\ op'.pc = "finish" /\ op'.result # "ok"
      BY <1>0, <1>3 DEF Operation
    <2>4. mem'.frecs \subseteq mem.frecs
      BY <1>0, <1>3 DEF Refused, Trimmed, RegistryState
    <2> QED BY <1>3, <2>1, <2>2, <2>3, <2>4 DEF Declined
  <1> QED BY <1>1, <1>2, <1>3 DEF Emit

\* The handler that emits goes on with the same request.
Continues(next) ==
  next.handler = op.handler /\ next.req = op.req /\ next.result = op.result

\* The record each emitting step writes, and where it leaves its handler.
Moves(r, next) ==
  \/ /\ CanServe /\ r.kind = "IncarnationAllocate" /\ r.inc = mem.inc + 1
     /\ next.handler = "hello" /\ next.pc = "finish" /\ next.req.inc = r.inc
     /\ deposed' = deposed
  \/ /\ CanServe /\ r.kind = "DomainDefine" /\ r.domain \in Domains /\ r.scope # {}
     /\ next.handler = "define" /\ next.pc = "finish"
     /\ deposed' = deposed
  \/ /\ op.pc = "scan" /\ r.kind = "Fence" /\ Continues(next)
     /\ next.pc = AfterFence /\ next.target \in Victims
     /\ r.domain = next.target.domain
     /\ r.inc = FencedIncarnation(next.target)
     /\ Depose(r)
  \/ /\ op.pc = "mark" /\ r.kind = "InterruptMark" /\ r.id = op.target.id /\ Continues(next)
     /\ next.pc = "close" /\ next.target = op.target
     /\ deposed' = deposed
  \/ /\ op.pc = "close" /\ r.kind = "GrantClose" /\ r.id = op.target.id
     /\ r.state = ClosedAs(op.handler) /\ Continues(next)
     /\ next.pc = IF op.handler = "release" THEN "finish" ELSE "scan"
     /\ deposed' = deposed
  \/ /\ op.handler = "fence" /\ op.pc = "scan"
     /\ r.kind = "Fence" /\ r.inc = op.req.inc /\ r.domain = op.req.domain
     /\ Continues(next)
     /\ next.pc = "finish"
     /\ Depose(r)
  \/ /\ op.handler = "allocate" /\ op.pc = "scan" /\ Victims = {}
     /\ r.kind = "ExtentAdopt" /\ r.token = mem.tok + 1 /\ Continues(next)
     /\ next.pc = "open" /\ next.target = NewGrant
     /\ deposed' = deposed
  \/ /\ op.pc = "open" /\ r.kind = "GrantOpen" /\ r.grant = op.target /\ Continues(next)
     /\ next.pc = "finish" /\ next.target = op.target
     /\ deposed' = deposed
  \/ /\ op.pc = "record" /\ r.kind = "CommitRecord" /\ Continues(next)
     /\ next.pc = "finish"
     /\ deposed' = deposed
  \/ /\ op.pc = "boots" /\ mem.openBoots # {}
     /\ r.kind = "BootEnd" /\ r.inc \in mem.openBoots /\ Continues(next)
     /\ next.pc = "boots"
     /\ deposed' = deposed
  \/ /\ op.handler = "recover" /\ op.pc = "scan" /\ Victims = {}
     /\ r.kind = "BootBegin" /\ r.inc = mem.inc + 1 /\ Continues(next)
     /\ next.pc = "finish"
     /\ deposed' = deposed

\* Every emitting step is one of them, and writes nothing but the two images.
LEMMA EmittingMoves ==
  ASSUME TypeInv, Emitting
  PROVE  \E r \in Record, next \in Operation :
           /\ Moves(r, next)
           /\ Applied(r, next) \/ Declined(r)
           /\ UNCHANGED <<phase, sessions, issued, log, floor>>
  <1> SUFFICES \E r \in Record, next \in Operation :
                 Moves(r, next) /\ Emit(r, next) /\ UNCHANGED <<phase, sessions, issued, log, floor>>
    BY EmitOutcome
  <1>0. /\ mem \in RegistryState /\ op \in Operation
        /\ mem.inc \in Nat /\ mem.tok \in Nat /\ mem.gid \in Nat /\ mem.boot \in Nat
        /\ op.req \in Request /\ op.target \in Grant /\ Sound(mem) /\ Sound(disk)
    BY DEF TypeInv, TypeOK, RegistryState, Operation
  <1>f. /\ [op EXCEPT !.pc = "finish"] \in Operation
        /\ [op EXCEPT !.pc = "finish"].pc = "finish"
        /\ [op EXCEPT !.pc = "finish"].target = op.target
        /\ Continues([op EXCEPT !.pc = "finish"])
    BY <1>0 DEF Operation, Continues
  <1>1. CASE Hello
    <2> DEFINE r == [kind |-> "IncarnationAllocate", inc |-> mem.inc + 1]
               next == Begin("hello", "finish", [NoRequest EXCEPT !.inc = mem.inc + 1])
    <2>1. [NoRequest EXCEPT !.inc = mem.inc + 1] \in Request
          /\ [NoRequest EXCEPT !.inc = mem.inc + 1].inc = mem.inc + 1
      BY <1>0 DEF NoRequest, Request
    <2>2. next \in Operation
      BY <2>1, BeginType DEF Handlers
    <2>3. next.handler = "hello" /\ next.pc = "finish" /\ next.req.inc = mem.inc + 1
      BY <2>1 DEF Begin, Free
    <2>4. r \in Record /\ r.kind = "IncarnationAllocate" /\ r.inc = mem.inc + 1
      BY <1>0 DEF Record, BootRecord
    <2>5. CanServe /\ Emit(r, next) /\ UNCHANGED <<phase, sessions, issued, log, floor, deposed>>
      BY <1>1 DEF Hello
    <2> HIDE DEF r, next
    <2>6. Moves(r, next)
      BY <2>3, <2>4, <2>5 DEF Moves
    <2> QED BY <2>2, <2>4, <2>5, <2>6
  <1>2. ASSUME NEW d \in Domains, NEW scope \in Scopes, Define(d, scope)
        PROVE  \E r \in Record, next \in Operation :
                 Moves(r, next) /\ Emit(r, next) /\ UNCHANGED <<phase, sessions, issued, log, floor>>
    <2> DEFINE r == [kind |-> "DomainDefine", domain |-> d, scope |-> scope]
               next == Begin("define", "finish", NoRequest)
    <2>1. next \in Operation
      BY BeginType, FreeType DEF Handlers
    <2>2. next.handler = "define" /\ next.pc = "finish"
      BY DEF Begin, Free
    <2>3. r \in Record /\ r.kind = "DomainDefine" /\ r.domain \in Domains /\ r.scope # {}
      BY ConstantsAssumption DEF Record, DomainRecord
    <2>4. CanServe /\ Emit(r, next) /\ UNCHANGED <<phase, sessions, issued, log, floor, deposed>>
      BY <1>2 DEF Define
    <2> HIDE DEF r, next
    <2>5. Moves(r, next)
      BY <2>2, <2>3, <2>4 DEF Moves
    <2> QED BY <2>1, <2>3, <2>4, <2>5
  <1>3. CASE FenceVictim
    <2> DEFINE g == Oldest(Victims)
               r == FenceRec(g.domain, g.scope, g.epoch, FencedIncarnation(g))
               next == [op EXCEPT !.pc = AfterFence, !.target = g]
    <2>1. g \in Victims /\ g \in Grant
      BY <1>0, <1>3, VictimsAreOpen, OldestInSet DEF FenceVictim
    <2>2. /\ op.pc = "scan" /\ Emit(r, next) /\ Depose(r)
          /\ UNCHANGED <<phase, sessions, issued, log, floor>>
      BY <1>3 DEF FenceVictim
    <2> HIDE DEF g
    <2>3. FencedIncarnation(g) \in Nat
      BY <2>1 DEF FencedIncarnation, Grant
    <2>4. /\ r \in Record /\ r.kind = "Fence" /\ r.inc = FencedIncarnation(g)
          /\ r.domain = g.domain
      BY <2>1, <2>3, FenceRecType DEF Grant, FenceRec
    <2>5. /\ next \in Operation /\ Continues(next)
          /\ next.pc = AfterFence /\ next.target = g
      BY <1>0, <2>1 DEF Operation, AfterFence, Continues
    <2> HIDE DEF r, next
    <2>6. Moves(r, next)
      BY <2>1, <2>2, <2>4, <2>5 DEF Moves
    <2> QED BY <2>2, <2>4, <2>5, <2>6
  <1>4. CASE MarkVictim
    <2> DEFINE r == [kind |-> "InterruptMark", id |-> op.target.id]
               next == [op EXCEPT !.pc = "close"]
    <2>1. r \in Record /\ r.kind = "InterruptMark" /\ r.id = op.target.id
      BY <1>0 DEF Record, MarkRecord, Grant
    <2>2. /\ next \in Operation /\ next.pc = "close" /\ next.target = op.target
          /\ Continues(next)
      BY <1>0 DEF Operation, Continues
    <2>3. /\ op.pc = "mark" /\ Emit(r, next)
          /\ UNCHANGED <<phase, sessions, issued, log, floor, deposed>>
      BY <1>4 DEF MarkVictim
    <2> HIDE DEF r, next
    <2>4. Moves(r, next)
      BY <2>1, <2>2, <2>3 DEF Moves
    <2> QED BY <2>1, <2>2, <2>3, <2>4
  <1>5. CASE CloseVictim
    <2> DEFINE r == [kind |-> "GrantClose", id |-> op.target.id, state |-> ClosedAs(op.handler)]
               p == IF op.handler = "release" THEN "finish" ELSE "scan"
               next == [op EXCEPT !.pc = p, !.target = NoGrant, !.hit = TRUE]
    <2>1. ClosedAs(op.handler) \in GrantStates \ {"Open"}
      BY DEF ClosedAs, GrantStates
    <2>2. /\ r \in Record /\ r.kind = "GrantClose" /\ r.id = op.target.id
          /\ r.state = ClosedAs(op.handler)
      BY <1>0, <2>1 DEF Record, CloseRecord, Grant
    <2>3. next \in Operation /\ next.pc = p /\ Continues(next)
      BY <1>0 DEF Operation, NoGrant, Grant, GrantStates, Continues
    <2>4. /\ op.pc = "close" /\ Emit(r, next)
          /\ UNCHANGED <<phase, sessions, issued, log, floor, deposed>>
      BY <1>5 DEF CloseVictim
    <2> HIDE DEF r, next
    <2>5. Moves(r, next)
      BY <2>2, <2>3, <2>4 DEF Moves
    <2> QED BY <2>2, <2>3, <2>4, <2>5
  <1>6. CASE FenceUnowned
    <2> DEFINE r == FenceRec(op.req.domain, op.req.scope, op.req.epoch, op.req.inc)
               next == [op EXCEPT !.pc = "finish"]
    <2>1. /\ op.handler = "fence" /\ op.pc = "scan" /\ Emit(r, next) /\ Depose(r)
          /\ UNCHANGED <<phase, sessions, issued, log, floor>>
      BY <1>6 DEF FenceUnowned
    <2>2. r \in Record /\ r.kind = "Fence" /\ r.inc = op.req.inc /\ r.domain = op.req.domain
      BY <1>0, FenceRecType DEF Request, FenceRec
    <2> HIDE DEF r
    <2>3. Moves(r, next)
      BY <1>f, <2>1, <2>2 DEF Moves
    <2> QED BY <1>f, <2>1, <2>2, <2>3
  <1>7. CASE AdoptScope
    <2> DEFINE r == [kind |-> "ExtentAdopt", token |-> mem.tok + 1, scope |-> op.req.scope,
                     inc |-> op.req.inc]
               next == [op EXCEPT !.pc = "open", !.target = NewGrant]
    <2>1. MaxEpoch(mem, op.req.domain) \in Nat
      BY <1>0, MaxEpochBounded
    <2>2. NewGrant \in Grant
      BY <1>0, <2>1 DEF NewGrant, Grant, GrantStates, Request
    <2>3. next \in Operation /\ next.pc = "open" /\ next.target = NewGrant /\ Continues(next)
      BY <1>0, <2>2 DEF Operation, Continues
    <2>4. r \in Record /\ r.kind = "ExtentAdopt" /\ r.token = mem.tok + 1
      BY <1>0 DEF Record, AdoptRecord, Request
    <2>5. /\ op.handler = "allocate" /\ op.pc = "scan" /\ Victims = {} /\ Emit(r, next)
          /\ UNCHANGED <<phase, sessions, issued, log, floor, deposed>>
      BY <1>7 DEF AdoptScope
    <2> HIDE DEF r, next
    <2>6. Moves(r, next)
      BY <2>3, <2>4, <2>5 DEF Moves
    <2> QED BY <2>3, <2>4, <2>5, <2>6
  <1>8. CASE OpenGrant
    <2> DEFINE r == [kind |-> "GrantOpen", grant |-> op.target]
               next == [op EXCEPT !.pc = "finish"]
    <2>1. r \in Record /\ r.kind = "GrantOpen" /\ r.grant = op.target
      BY <1>0, <1>8 DEF OpenGrant, Record, OpenRecord, TypeInv, TargetSound
    <2>2. /\ op.pc = "open" /\ Emit(r, next)
          /\ UNCHANGED <<phase, sessions, issued, log, floor, deposed>>
      BY <1>8 DEF OpenGrant
    <2> HIDE DEF r
    <2>3. Moves(r, next)
      BY <1>f, <2>1, <2>2 DEF Moves
    <2> QED BY <1>f, <2>1, <2>2, <2>3
  <1>9. CASE RecordCommit
    <2> DEFINE r == [kind |-> "CommitRecord"]
               next == [op EXCEPT !.pc = "finish"]
    <2>1. r \in Record /\ r.kind = "CommitRecord"
      BY DEF Record, EffectRecord
    <2>2. /\ op.pc = "record" /\ Emit(r, next)
          /\ UNCHANGED <<phase, sessions, issued, log, floor, deposed>>
      BY <1>9 DEF RecordCommit
    <2> HIDE DEF r
    <2>3. Moves(r, next)
      BY <1>f, <2>1, <2>2 DEF Moves
    <2> QED BY <1>f, <2>1, <2>2, <2>3
  <1>10. CASE EndBoot /\ mem.openBoots # {}
    <2> DEFINE r == [kind |-> "BootEnd", inc |-> Min(mem.openBoots)]
    <2>1. mem.openBoots \in SUBSET Nat /\ Min(mem.openBoots) \in mem.openBoots
      BY <1>0, <1>10, MinInSet DEF RegistryState
    <2>2. r \in Record /\ r.kind = "BootEnd" /\ r.inc \in mem.openBoots
      BY <2>1 DEF Record, BootRecord
    <2>3. /\ op.pc = "boots" /\ Emit(r, op) /\ Continues(op)
          /\ UNCHANGED <<phase, sessions, issued, log, floor, deposed>>
      BY <1>10 DEF EndBoot, Continues
    <2> HIDE DEF r
    <2>4. Moves(r, op)
      BY <1>10, <2>2, <2>3 DEF Moves
    <2> QED BY <1>0, <2>2, <2>3, <2>4
  <1>11. CASE BeginBoot
    <2> DEFINE r == [kind |-> "BootBegin", inc |-> BootIncarnation]
               next == [op EXCEPT !.pc = "finish"]
    <2>1. r \in Record /\ r.kind = "BootBegin" /\ r.inc = mem.inc + 1
      BY <1>0 DEF Record, BootRecord, BootIncarnation
    <2>2. /\ op.handler = "recover" /\ op.pc = "scan" /\ Victims = {} /\ Emit(r, next)
          /\ UNCHANGED <<phase, sessions, issued, log, floor, deposed>>
      BY <1>11 DEF BeginBoot
    <2> HIDE DEF r
    <2>3. Moves(r, next)
      BY <1>f, <2>1, <2>2 DEF Moves
    <2> QED BY <1>f, <2>1, <2>2, <2>3
  <1> QED BY <1>1, <1>2, <1>3, <1>4, <1>5, <1>6, <1>7, <1>8, <1>9, <1>10, <1>11 DEF Emitting

-----------------------------------------------------------------------------
(* The types the steps below need, field by field. *)

\* Memory, disk, the request in hand and the histories are numbers and grants.
LEMMA Types ==
  ASSUME TypeInv
  PROVE  /\ mem \in RegistryState /\ disk \in RegistryState /\ op \in Operation
         /\ mem.inc \in Nat /\ mem.tok \in Nat /\ mem.gid \in Nat /\ mem.boot \in Nat
         /\ disk.inc \in Nat /\ disk.tok \in Nat /\ 0 =< disk.inc
         /\ op.req \in Request /\ op.req.inc \in Nat /\ op.target \in Grant
         /\ \A i \in sessions \cup deposed : i \in Nat
         /\ \A g \in issued \cup mem.grants \cup disk.grants : g \in Grant
         /\ \A g \in issued \cup mem.grants \cup disk.grants :
              /\ g.inc \in Nat /\ g.token \in Nat /\ g.id \in Nat /\ g.epoch \in Nat
              /\ g.boot \in Nat /\ g.scope \subseteq Extents
         /\ \A i \in DOMAIN log : log[i] \in Effect /\ log[i].cred \in Grant
                                  /\ log[i].cred.token \in Nat
         /\ \A e \in Extents : floor[e].hw \in Nat /\ floor[e].owner \in Nat
  <1>1. /\ mem \in RegistryState /\ disk \in RegistryState /\ op \in Operation
        /\ log \in Seq(Effect) /\ floor \in [Extents -> Mark]
        /\ sessions \subseteq Nat /\ deposed \subseteq Nat /\ issued \subseteq Grant
    BY DEF TypeInv, TypeOK
  <1>2. /\ mem.inc \in Nat /\ mem.tok \in Nat /\ mem.gid \in Nat /\ mem.boot \in Nat
        /\ disk.inc \in Nat /\ disk.tok \in Nat
        /\ mem.grants \subseteq Grant /\ disk.grants \subseteq Grant
    BY <1>1 DEF RegistryState
  <1>3. op.req \in Request /\ op.req.inc \in Nat /\ op.target \in Grant
    BY <1>1 DEF Operation, Request
  <1>4. \A g \in Grant : /\ g.inc \in Nat /\ g.token \in Nat /\ g.id \in Nat /\ g.epoch \in Nat
                         /\ g.boot \in Nat /\ g.scope \subseteq Extents
    BY DEF Grant
  <1>5. \A i \in DOMAIN log : log[i] \in Effect
    BY <1>1
  <1>6. \A x \in Effect : x.cred \in Grant
    BY DEF Effect
  <1>7. \A e \in Extents : floor[e].hw \in Nat /\ floor[e].owner \in Nat
    BY <1>1 DEF Mark
  <1> QED BY <1>1, <1>2, <1>3, <1>4, <1>5, <1>6, <1>7

-----------------------------------------------------------------------------
(* The steps that emit nothing. *)

\* The fields of the free operation.
LEMMA FreeFields ==
  /\ Free.handler = "free" /\ Free.pc = "finish" /\ Free.result = "ok"
  /\ Free.req = NoRequest /\ NoRequest.inc = 0
  BY DEF Free, NoRequest

\* allocate_epoch takes the lock for an incarnation that is neither fenced nor of
\* an older boot, and answers a retry with the grant that is still open.
LEMMA AllocateEffect ==
  ASSUME TypeInv, NEW i \in sessions, NEW d \in Domains, NEW a \in Attempts, Allocate(i, d, a)
  PROVE  /\ phase = "ready" /\ mem.boot < i /\ i \notin mem.fencedInc
         /\ op'.handler = "allocate" /\ op'.req.inc = i /\ op'.result = "ok"
         /\ \/ op'.pc = "scan"
            \/ op'.pc = "finish" /\ op'.target \in OpenGrants(mem) /\ op'.target.inc = i
         /\ UNCHANGED <<phase, mem, disk, since, sessions, issued, log, floor, deposed, faults>>
  <1> DEFINE q == [NoRequest EXCEPT !.domain = d, !.scope = mem.domains[d],
                                    !.inc = i, !.attempt = a]
  <1>1. q.inc = i
    BY DEF NoRequest
  <1> HIDE DEF q
  <1>2. /\ Begin("allocate", "scan", q).handler = "allocate"
        /\ Begin("allocate", "scan", q).pc = "scan"
        /\ Begin("allocate", "scan", q).req = q
        /\ Begin("allocate", "scan", q).result = "ok"
    BY DEF Begin, Free
  <1>3. ASSUME NEW g \in SameAttempt(mem, i, d, a)
        PROVE  LET n == [Begin("allocate", "finish", q) EXCEPT !.target = g]
               IN  /\ n.handler = "allocate" /\ n.pc = "finish" /\ n.req = q
                   /\ n.result = "ok" /\ n.target = g
                   /\ g \in OpenGrants(mem) /\ g.inc = i
    BY <1>3 DEF Begin, Free, SameAttempt
  <1>4. \/ op' = Begin("allocate", "scan", q)
        \/ \E g \in SameAttempt(mem, i, d, a) :
             op' = [Begin("allocate", "finish", q) EXCEPT !.target = g]
    BY DEF Allocate, q
  <1>5. phase = "ready" /\ mem.boot < i /\ i \notin mem.fencedInc
    BY DEF Allocate, CanServe, MayAllocate
  <1>6. UNCHANGED <<phase, mem, disk, since, sessions, issued, log, floor, deposed, faults>>
    BY DEF Allocate
  <1>7. CASE op' = Begin("allocate", "scan", q)
    BY <1>1, <1>2, <1>5, <1>6, <1>7
  <1>8. ASSUME NEW g \in SameAttempt(mem, i, d, a),
               op' = [Begin("allocate", "finish", q) EXCEPT !.target = g]
        PROVE  /\ op'.handler = "allocate" /\ op'.req.inc = i /\ op'.result = "ok"
               /\ op'.pc = "finish" /\ op'.target \in OpenGrants(mem) /\ op'.target.inc = i
    BY <1>1, <1>3, <1>8
  <1> QED BY <1>4, <1>5, <1>6, <1>7, <1>8

\* fence() takes the lock with the incarnation it was asked to fence, or 0.
LEMMA FenceEffect ==
  ASSUME NEW d \in Domains, NEW epoch, NEW i, Fence(d, epoch, i)
  PROVE  /\ phase = "ready"
         /\ op'.handler = "fence" /\ op'.pc = "scan" /\ op'.req.inc = i /\ op'.result = "ok"
         /\ UNCHANGED <<phase, mem, disk, since, sessions, issued, log, floor, deposed, faults>>
  BY DEF Fence, CanServe, Begin, Free, NoRequest

\* release() and commit() take the lock; a commit has written the effect before.
LEMMA ReleaseEffect ==
  ASSUME NEW c \in issued, Release(c)
  PROVE  /\ phase = "ready"
         /\ op'.handler = "release" /\ op'.pc = "scan" /\ op'.result = "ok"
         /\ UNCHANGED <<phase, mem, disk, since, sessions, issued, log, floor, deposed, faults>>
  BY DEF Release, CanServe, Begin, Free

\* A commit writes nothing but the fabric log and its floor.
LEMMA CommitEffect ==
  ASSUME NEW c \in issued, Commit(c)
  PROVE  /\ phase = "ready" /\ op = Free
         /\ op'.handler = "commit" /\ op'.pc = "record" /\ op'.result = "ok"
         /\ UNCHANGED <<phase, mem, disk, since, sessions, issued, deposed, faults>>
  BY DEF Commit, CanServe, Begin, Free

\* A checkpoint leaves the disk alone or makes it what memory holds.
LEMMA CheckpointEffect ==
  ASSUME TypeInv, Checkpoint
  PROVE  \/ disk' = disk
         \/ /\ disk'.grants = mem.grants /\ disk'.marks = mem.marks
            /\ disk'.inc = mem.inc /\ disk'.tok = mem.tok
  BY DEF Checkpoint, Import, TypeInv, TypeOK, RegistryState

\* rebuild() changes the two counters only, and dominates the effect boundary.
LEMMA RebuildEffect ==
  ASSUME TypeInv
  PROVE  /\ Rebuild(disk).grants = disk.grants /\ Rebuild(disk).marks = disk.marks
         /\ Rebuild(disk).inc = disk.inc /\ Rebuild(disk).ahead = disk.ahead
         /\ disk.tok =< Rebuild(disk).tok
         /\ \A i \in DOMAIN log : log[i].cred.token =< Rebuild(disk).tok
  <1> DEFINE T == {disk.tok} \cup {disk.ext[e].hw : e \in Extents}
                    \cup {g.token : g \in disk.grants} \cup {f.token : f \in disk.frecs}
                    \cup {log[i].cred.token : i \in DOMAIN log}
  <1>1. disk \in RegistryState /\ log \in Seq(Effect) /\ Sound(disk)
    BY DEF TypeInv, TypeOK
  <1>2. \A i \in DOMAIN log : log[i] \in Effect
    BY <1>1
  <1>3. /\ \A i \in DOMAIN log : log[i].cred.token \in Nat
        /\ disk.tok \in Nat
        /\ \A e \in Extents : disk.ext[e].hw \in Nat /\ disk.ext[e].hw =< disk.tok
        /\ \A g \in disk.grants : g.token \in Nat /\ g.token =< disk.tok
        /\ \A f \in disk.frecs : f.token \in Nat /\ f.token =< disk.tok
    BY <1>1, <1>2 DEF Effect, Grant, RegistryState, Mark, FenceRecord, Sound, Dominated
  <1>4. PICK b \in Nat : \A i \in DOMAIN log : log[i].cred.token =< b
    BY DEF TypeInv, EffectsBounded
  <1>5. T \in SUBSET Nat /\ disk.tok \in T /\ T # {} /\ \A x \in T : x =< disk.tok + b
    <2>1. T \in SUBSET Nat /\ disk.tok \in T
      BY <1>3
    <2>2. \A x \in T : x =< disk.tok + b
      BY <1>3, <1>4
    <2> HIDE DEF T
    <2> QED BY <2>1, <2>2
  <1>6. \A i \in DOMAIN log : log[i].cred.token \in T
    OBVIOUS
  <1>7. Rebuild(disk).tok = Max(T)
    BY <1>1 DEF Rebuild, RegistryState
  <1>8. \A x \in T : x =< Max(T)
    <2> HIDE DEF T
    <2>1. disk.tok + b \in Nat
      BY <1>3
    <2> QED BY <1>5, <2>1, MaxBounded
  <1>9. /\ Rebuild(disk).grants = disk.grants /\ Rebuild(disk).marks = disk.marks
        /\ Rebuild(disk).inc = disk.inc /\ Rebuild(disk).ahead = disk.ahead
    BY <1>1 DEF Rebuild, RegistryState
  <1> HIDE DEF T
  <1> QED BY <1>5, <1>6, <1>7, <1>8, <1>9

-----------------------------------------------------------------------------
(* Which handler may be where. *)

\* The handler that holds state_mutex_ fits the phase, and its step the handler.
HandlerShape ==
  /\ phase = "down" => op = Free /\ sessions = {}
  /\ phase = "recovering" <=> op.handler = "recover"
  /\ op.handler = "recover" => op.pc \in {"boots", "scan", "mark", "close", "finish"}
  /\ op.pc \in {"boots", "mark"} => op.handler = "recover"
  /\ op.pc = "open" => op.handler = "allocate"
  /\ op.pc \in {"scan", "close"} => op.handler \in {"recover", "allocate", "fence", "release"}
  /\ op.pc = "record" => op.handler = "commit"

\* An emitting step is taken by a registry that is up.
LEMMA EmittingUp ==
  ASSUME HandlerShape, Emitting
  PROVE  phase # "down"
  <1>1. CASE Hello \/ \E d \in Domains, scope \in Scopes : Define(d, scope)
    BY <1>1 DEF Hello, Define, CanServe
  <1>2. CASE op.pc # "finish"
    BY <1>2, FreeFields DEF HandlerShape
  <1> QED BY <1>1, <1>2 DEF Emitting, FenceVictim, MarkVictim, CloseVictim, FenceUnowned,
                            AdoptScope, OpenGrant, RecordCommit, EndBoot, BeginBoot

\* Every step keeps the shape.
LEMMA ShapeStep ==
  ASSUME TypeInv, HandlerShape, [Next]_vars
  PROVE  HandlerShape'
  <1>0. op \in Operation
    BY DEF TypeInv, TypeOK
  <1>1. CASE Emitting
    <2>0. phase # "down"
      BY <1>1, EmittingUp
    <2>1. PICK r \in Record, next \in Operation :
            /\ Moves(r, next)
            /\ Applied(r, next) \/ Declined(r)
            /\ UNCHANGED <<phase, sessions, issued, log, floor>>
      BY <1>1, EmittingMoves
    <2>2. CASE Declined(r)
      BY <2>0, <2>1, <2>2 DEF Declined, HandlerShape
    <2>3. CASE Applied(r, next)
      <3>1. op'.handler = next.handler /\ op'.pc = next.pc
        BY <2>3 DEF Applied
      <3> QED BY <2>0, <2>1, <3>1, FreeFields
              DEF Moves, Continues, AfterFence, HandlerShape, CanServe
    <2> QED BY <2>1, <2>2, <2>3
  <1>2. ASSUME NEW i \in sessions, Disconnect(i) PROVE HandlerShape'
    BY <1>2 DEF Disconnect, CanServe, HandlerShape
  <1>3. ASSUME NEW i \in sessions, NEW d \in Domains, NEW a \in Attempts, Allocate(i, d, a)
        PROVE  HandlerShape'
    BY <1>3, AllocateEffect DEF HandlerShape
  <1>4. ASSUME NEW d \in Domains, NEW epoch, NEW i, Fence(d, epoch, i) PROVE HandlerShape'
    BY <1>4, FenceEffect DEF HandlerShape
  <1>5. ASSUME NEW c \in issued, Release(c) PROVE HandlerShape'
    BY <1>5, ReleaseEffect DEF HandlerShape
  <1>6. ASSUME NEW c \in issued, Commit(c) PROVE HandlerShape'
    BY <1>6, CommitEffect DEF HandlerShape
  <1>7. CASE FenceDone \/ (EndBoot /\ mem.openBoots = {})
    <2>1. /\ op'.handler = op.handler /\ op'.pc \in {"finish", "scan"}
          /\ op'.pc = "scan" => op.pc = "boots"
          /\ UNCHANGED <<phase, sessions>> /\ op.pc # "finish"
      BY <1>0, <1>7 DEF FenceDone, EndBoot, Operation
    <2> QED BY <2>1, FreeFields DEF HandlerShape
  <1>8. CASE Recovered
    BY <1>8, FreeFields DEF Recovered, GoDown, HandlerShape
  <1>9. CASE Finish
    BY <1>9, FreeFields DEF Finish, HandlerShape
  <1>10. CASE Restart
    BY <1>10 DEF Restart, Begin, Free, HandlerShape
  <1>11. CASE Crash
    BY <1>11, FreeFields DEF Crash, GoDown, HandlerShape
  <1>12. CASE Observe \/ RestartFails \/ UNCHANGED vars
    BY <1>12 DEF Observe, RestartFails, vars, HandlerShape
  <1>13. CASE Refuse
    BY <1>13 DEF Refuse, CanServe, HandlerShape
  <1> QED BY <1>1, <1>2, <1>3, <1>4, <1>5, <1>6, <1>7, <1>8, <1>9, <1>10, <1>11, <1>12, <1>13
          DEF Next, Requests, HandlerStep, Emitting

-----------------------------------------------------------------------------
(* The inductive invariant. *)

Recovering(p) == op.handler = "recover" /\ op.pc = p

\* Recovery has written its last record and every append of it succeeded.
RecoveryDone == Recovering("finish") /\ op.result = "ok"

Booted == phase = "ready" \/ RecoveryDone

\* The journal knows every incarnation that anybody was told of, that a grant
\* carries or that was fenced, and memory is never behind the journal.
IncarnationInv ==
  /\ \A i \in sessions \cup deposed : i =< disk.inc
  /\ \A g \in issued \cup mem.grants \cup disk.grants : g.inc =< disk.inc
  /\ phase # "down" => disk.inc =< mem.inc
  /\ phase # "down" /\ ~mem.ahead => disk.inc = mem.inc
  /\ op.handler = "hello" /\ op.result = "ok" => op.req.inc =< disk.inc
  /\ op.handler \in {"fence", "allocate"} => op.req.inc =< disk.inc

\* Recovery ends every older boot and closes every open grant before it begins its
\* own boot, under an incarnation above all earlier ones.
BootInv ==
  /\ op.handler = "recover" /\ op.result = "ok" => ~mem.ahead
  /\ op.handler = "recover" /\ op.pc \in {"scan", "mark", "close"} => mem.openBoots = {}
  /\ Booted => mem.openBoots = {mem.boot}
  /\ RecoveryDone => OpenGrants(mem) = {}
  /\ phase = "ready" => \A g \in OpenGrants(mem) : g.boot = mem.boot /\ g.inc > mem.boot
  /\ Booted => \A c \in issued : c.inc > mem.boot => c.boot = mem.boot /\ c.token =< mem.tok
  /\ op.handler = "allocate" => op.req.inc > mem.boot

\* The grant about to be opened is numbered above everything it could be taken
\* for; the one about to be handed out is open.
TargetInv ==
  /\ op.pc = "open" =>
       /\ op.target.inc = op.req.inc /\ op.target.boot = mem.boot /\ op.target.state = "Open"
       /\ op.target.token =< mem.tok
       /\ \A c \in issued : c.inc > mem.boot => c.token < op.target.token
       /\ \A i \in DOMAIN log : log[i].cred.token < op.target.token
       /\ \A e \in Extents : floor[e].hw < op.target.token
       /\ \A g \in mem.grants :
            /\ g.id < op.target.id /\ g.token < op.target.token
            /\ g.domain = op.target.domain => g.epoch < op.target.epoch
  /\ op.handler = "allocate" /\ op.pc = "finish" /\ op.result = "ok" =>
       op.target \in OpenGrants(mem) /\ op.target.inc = op.req.inc

\* Tokens tie the fabric log, its floor and the grants handed out in this boot to
\* the open grants.
EffectInv ==
  /\ phase # "down" => \A i \in DOMAIN log : log[i].cred.token =< mem.tok
  /\ \A e \in Extents : floor[e].hw = 0 \/ \E i \in DOMAIN log : floor[e].hw = log[i].cred.token
  /\ phase = "ready" => \A g \in OpenGrants(mem) :
       /\ \A i \in DOMAIN log : log[i].cred.token = g.token => log[i].cred = g
       /\ \A e \in g.scope : /\ floor[e].hw =< g.token
                             /\ floor[e].hw = g.token => floor[e].owner = g.inc
       /\ \A c \in issued : c.inc > mem.boot /\ c.token = g.token => c = g

\* A grant closed by recovery was marked first.
Surfaced(s) == \A g \in s.grants : g.state = "Interrupted" => g.id \in s.marks

MarkInv ==
  /\ Surfaced(mem) /\ Surfaced(disk)
  /\ Recovering("close") => op.target.id \in mem.marks
  /\ phase # "down" /\ ~mem.ahead => disk.marks = mem.marks

\* Ids, tokens and the epochs of a domain order the lineage alike.
Before(g, h) ==
  g.id < h.id /\ g.token < h.token /\ (g.domain = h.domain => g.epoch < h.epoch)

Ordered(G) == \A g, h \in G : g = h \/ Before(g, h) \/ Before(h, g)

LineageInv == Ordered(mem.grants) /\ Ordered(disk.grants)

RestartInv ==
  /\ HandlerShape /\ IncarnationInv /\ BootInv /\ TargetInv /\ EffectInv
  /\ MarkInv /\ LineageInv

-----------------------------------------------------------------------------
(* Incarnations. *)

\* Where the grants of a state come from after a record: the one it opens, or
\* one that was there, in the same state or closed.
LEMMA GrantOrigin ==
  ASSUME NEW s \in RegistryState, NEW r \in Record, NEW g \in Apply(s, r).grants
  PROVE  \/ r.kind = "GrantOpen" /\ g = r.grant
         \/ \E h \in s.grants :
              /\ g.id = h.id /\ g.domain = h.domain /\ g.scope = h.scope /\ g.epoch = h.epoch
              /\ g.inc = h.inc /\ g.token = h.token /\ g.boot = h.boot
              /\ g.state = h.state \/ (r.kind = "GrantClose" /\ g.id = r.id /\ g.state = r.state)
  <1>1. CASE r.kind = "GrantOpen"
    BY <1>1, ApplyNamed
  <1>2. CASE r.kind = "GrantClose"
    <2> DEFINE c(h) == IF h.id = r.id /\ IsOpen(h) THEN [h EXCEPT !.state = r.state] ELSE h
    <2>1. Apply(s, r).grants = {c(h) : h \in s.grants}
      BY <1>2 DEF Apply, ApplyGrantClose, RegistryState
    <2>2. ASSUME NEW h \in s.grants
          PROVE  /\ c(h).id = h.id /\ c(h).domain = h.domain /\ c(h).scope = h.scope
                 /\ c(h).epoch = h.epoch
                 /\ c(h).inc = h.inc /\ c(h).token = h.token /\ c(h).boot = h.boot
                 /\ c(h).state = h.state \/ (c(h).id = r.id /\ c(h).state = r.state)
      BY DEF RegistryState, Grant
    <2> HIDE DEF c
    <2>3. PICK h \in s.grants : g = c(h)
      BY <2>1
    <2> QED BY <1>2, <2>2, <2>3
  <1>3. CASE r.kind \notin {"GrantOpen", "GrantClose"}
    BY <1>3, ApplyFields
  <1> QED BY <1>1, <1>2, <1>3

\* An emitting step leaves the journal's incarnation counter at or above its old
\* value, and at memory's when the append succeeded.
LEMMA EmitIncarnation ==
  ASSUME TypeInv, HandlerShape, IncarnationInv, phase # "down",
         NEW r \in Record, NEW next \in Operation,
         Moves(r, next), Applied(r, next) \/ Declined(r)
  PROVE  /\ mem.inc =< mem'.inc /\ disk.inc =< disk'.inc /\ disk'.inc =< mem'.inc
         /\ ~mem'.ahead => disk'.inc = mem'.inc
         /\ r.kind = "IncarnationAllocate" /\ op'.result = "ok" => disk'.inc = mem.inc + 1
  <1>0. /\ mem \in RegistryState /\ disk \in RegistryState
        /\ mem.inc \in Nat /\ disk.inc \in Nat
    BY DEF TypeInv, TypeOK, RegistryState
  <1>1. disk.inc =< mem.inc /\ (~mem.ahead => disk.inc = mem.inc)
    BY DEF IncarnationInv
  <1>2. CASE Declined(r)
    BY <1>0, <1>1, <1>2 DEF Declined
  <1>3. CASE Applied(r, next)
    <2>1. /\ r.kind \in {"IncarnationAllocate", "BootBegin"} => r.inc = mem.inc + 1
      BY DEF Moves
    <2>2. /\ r.kind \in {"IncarnationAllocate", "BootBegin"} => Apply(mem, r).inc = mem.inc + 1
          /\ r.kind \notin {"IncarnationAllocate", "BootBegin"} => Apply(mem, r).inc = mem.inc
      BY <1>0, <2>1, ApplyFields, ApplyNamed DEF Raise
    <2>3. ~mem.ahead =>
            /\ r.kind \in {"IncarnationAllocate", "BootBegin"} => Apply(disk, r).inc = mem.inc + 1
            /\ r.kind \notin {"IncarnationAllocate", "BootBegin"} => Apply(disk, r).inc = mem.inc
      BY <1>0, <1>1, <2>1, ApplyFields, ApplyNamed DEF Raise
    <2> QED BY <1>0, <1>1, <1>3, <2>2, <2>3 DEF Applied
  <1> QED BY <1>2, <1>3

\* Every emitting step keeps the incarnations journalled.
LEMMA EmittingIncarnation ==
  ASSUME TypeInv, HandlerShape, IncarnationInv, TargetInv, Emitting
  PROVE  IncarnationInv'
  <1>0. /\ mem \in RegistryState /\ disk \in RegistryState /\ op \in Operation
        /\ disk.inc \in Nat /\ disk'.inc \in Nat /\ mem.inc \in Nat
        /\ \A i \in sessions \cup deposed \cup deposed' : i \in Nat
        /\ \A g \in issued \cup mem.grants \cup disk.grants : g.inc \in Nat
        /\ op.req.inc \in Nat
    <2>1. TypeInv'
      BY EmittingType
    <2>2. /\ mem \in RegistryState /\ disk \in RegistryState /\ op \in Operation
          /\ disk' \in RegistryState /\ issued \subseteq Grant
          /\ sessions \cup deposed \cup deposed' \subseteq Nat
      BY <2>1 DEF TypeInv, TypeOK
    <2>3. /\ disk.inc \in Nat /\ disk'.inc \in Nat /\ mem.inc \in Nat
          /\ mem.grants \subseteq Grant /\ disk.grants \subseteq Grant
      BY <2>2 DEF RegistryState
    <2>4. \A g \in issued \cup mem.grants \cup disk.grants : g.inc \in Nat
      BY <2>2, <2>3 DEF Grant
    <2>5. op.req.inc \in Nat
      BY <2>2 DEF Operation, Request
    <2> QED BY <2>2, <2>3, <2>4, <2>5
  <1>1. phase # "down"
    BY EmittingUp
  <1>2. PICK r \in Record, next \in Operation :
          /\ Moves(r, next)
          /\ Applied(r, next) \/ Declined(r)
          /\ UNCHANGED <<phase, sessions, issued, log, floor>>
    BY EmittingMoves
  <1>3. /\ mem.inc =< mem'.inc /\ disk.inc =< disk'.inc /\ disk'.inc =< mem'.inc
        /\ ~mem'.ahead => disk'.inc = mem'.inc
        /\ r.kind = "IncarnationAllocate" /\ op'.result = "ok" => disk'.inc = mem.inc + 1
    BY <1>1, <1>2, EmitIncarnation
  <1>4. r.kind = "GrantOpen" => r.grant.inc =< disk.inc
    BY <1>2 DEF Moves, TargetInv, IncarnationInv, HandlerShape
  <1>5. \A g \in mem'.grants \cup disk'.grants : g.inc =< disk.inc
    <2>1. mem'.grants \in {mem.grants, Apply(mem, r).grants}
      BY <1>2 DEF Applied, Declined
    <2>2. disk'.grants \in {disk.grants, Apply(disk, r).grants}
      BY <1>2 DEF Applied, Declined
    <2>3. ASSUME NEW g \in Apply(mem, r).grants PROVE g.inc =< disk.inc
      BY <1>0, <1>4, GrantOrigin DEF IncarnationInv
    <2>4. ASSUME NEW g \in Apply(disk, r).grants PROVE g.inc =< disk.inc
      BY <1>0, <1>4, GrantOrigin DEF IncarnationInv
    <2> QED BY <2>1, <2>2, <2>3, <2>4 DEF IncarnationInv
  <1>6. \A i \in deposed' : i \in deposed \/ i =< disk.inc
    <2>1. Victims \subseteq mem.grants
      BY VictimsAreOpen DEF TypeInv, OpenGrants
    <2>2. CASE deposed' = deposed
      BY <2>2
    <2>3. CASE Depose(r) /\ r.inc = op.req.inc /\ op.handler = "fence"
      BY <2>3 DEF Depose, IncarnationInv
    <2>4. CASE Depose(r) /\ next.target \in Victims /\ r.inc = FencedIncarnation(next.target)
      BY <1>0, <2>1, <2>4 DEF Depose, FencedIncarnation, IncarnationInv
    <2> QED BY <1>2, <2>2, <2>3, <2>4 DEF Moves
  <1>7. \A i \in sessions' \cup deposed' : i =< disk'.inc
    BY <1>0, <1>2, <1>3, <1>6 DEF IncarnationInv
  <1>8. \A g \in issued' \cup mem'.grants \cup disk'.grants : g.inc =< disk'.inc
    <2>1. \A g \in mem'.grants \cup disk'.grants : g.inc \in Nat
      BY EmittingType DEF TypeInv, TypeOK, RegistryState, Grant
    <2> QED BY <1>0, <1>2, <1>3, <1>5, <2>1 DEF IncarnationInv
  <1>9. op'.handler = "hello" /\ op'.result = "ok" => op'.req.inc =< disk'.inc
    <2>1. CASE Declined(r)
      BY <2>1 DEF Declined
    <2>2. CASE Applied(r, next)
      <3>1. op'.handler = next.handler /\ op'.req = next.req
        BY <2>2 DEF Applied
      <3>2. next.handler = "hello" => r.kind = "IncarnationAllocate" /\ next.req.inc = mem.inc + 1
        BY <1>2 DEF Moves, Continues, HandlerShape
      <3> QED BY <1>0, <1>3, <3>1, <3>2
    <2> QED BY <1>2, <2>1, <2>2
  <1>10. op'.handler \in {"fence", "allocate"} => op'.req.inc =< disk'.inc
    <2>1. op'.handler \in {"fence", "allocate"} => op'.handler = op.handler /\ op'.req = op.req
      BY <1>2 DEF Moves, Continues, Applied, Declined
    <2> QED BY <1>0, <1>3, <2>1 DEF IncarnationInv
  <1> QED BY <1>3, <1>7, <1>8, <1>9, <1>10 DEF IncarnationInv

\* Every step keeps the incarnations journalled.
LEMMA IncarnationStep ==
  ASSUME TypeInv, HandlerShape, IncarnationInv, TargetInv, [Next]_vars
  PROVE  IncarnationInv'
  <1>0. /\ mem \in RegistryState /\ disk \in RegistryState /\ op \in Operation
        /\ disk.inc \in Nat /\ mem.inc \in Nat /\ 0 =< disk.inc
        /\ \A i \in sessions \cup deposed : i \in Nat
        /\ \A g \in issued \cup mem.grants \cup disk.grants : g.inc \in Nat
        /\ op.req.inc \in Nat
    BY Types
  <1>c. ASSUME Checkpoint, phase # "down"
        PROVE  /\ disk' = disk \/ (disk'.grants = mem.grants /\ disk'.inc = mem.inc)
               /\ disk.inc =< disk'.inc /\ disk'.inc =< mem.inc
               /\ ~mem.ahead => disk'.inc = mem.inc
               /\ disk'.inc \in Nat
    BY <1>0, <1>c, CheckpointEffect DEF IncarnationInv
  <1>1. CASE Emitting
    BY <1>1, EmittingIncarnation
  <1>2. ASSUME NEW i \in sessions, Disconnect(i) PROVE IncarnationInv'
    BY <1>2 DEF Disconnect, IncarnationInv
  <1>3. ASSUME NEW i \in sessions, NEW d \in Domains, NEW a \in Attempts, Allocate(i, d, a)
        PROVE  IncarnationInv'
    BY <1>3, AllocateEffect DEF IncarnationInv
  <1>4. ASSUME NEW d \in Domains, NEW epoch, NEW i \in {0} \cup {c.inc : c \in issued},
               Fence(d, epoch, i)
        PROVE  IncarnationInv'
    BY <1>0, <1>4, FenceEffect DEF IncarnationInv
  <1>5. ASSUME NEW c \in issued, Release(c) PROVE IncarnationInv'
    BY <1>5, ReleaseEffect DEF IncarnationInv
  <1>6. ASSUME NEW c \in issued, Commit(c) PROVE IncarnationInv'
    BY <1>6, CommitEffect DEF IncarnationInv
  <1>7. CASE FenceDone \/ (EndBoot /\ mem.openBoots = {})
    <2>1. /\ op'.handler = op.handler /\ op'.req = op.req /\ op'.result = op.result
          /\ UNCHANGED <<phase, mem, disk, sessions, issued, deposed>>
      BY <1>0, <1>7 DEF FenceDone, EndBoot, Operation
    <2> QED BY <2>1 DEF IncarnationInv
  <1>d. ASSUME GoDown, UNCHANGED <<disk, issued, deposed>> PROVE IncarnationInv'
    BY <1>d, FreeFields DEF GoDown, Blank, IncarnationInv
  <1>8. CASE Recovered
    <2>1. CASE phase' = "ready" /\ op' = Free /\ Checkpoint /\ UNCHANGED <<mem, sessions>>
      <3>1. phase # "down" /\ UNCHANGED <<issued, deposed>>
        BY <1>8, FreeFields DEF Recovered, HandlerShape
      <3> QED BY <1>0, <1>c, <2>1, <3>1, FreeFields DEF IncarnationInv
    <2>2. CASE GoDown /\ disk' = disk
      BY <1>8, <1>d, <2>2 DEF Recovered
    <2> QED BY <1>8, <2>1, <2>2 DEF Recovered
  <1>9. CASE Finish
    <2>1. phase # "down" /\ Checkpoint /\ op' = Free /\ UNCHANGED <<phase, mem, deposed>>
      BY <1>9, FreeFields DEF Finish, HandlerShape
    <2>2. \A i \in sessions' : i \in sessions \/ i =< disk.inc
      BY <1>9 DEF Finish, IncarnationInv
    <2>3. \A g \in issued' : g \in issued \/ g \in mem.grants
      BY <1>9 DEF Finish, TargetInv, OpenGrants
    <2>4. \A i \in sessions' : i \in Nat
      BY <1>0, <1>9 DEF Finish
    <2> QED BY <1>0, <1>c, <2>1, <2>2, <2>3, <2>4, FreeFields DEF IncarnationInv
  <1>10. CASE Restart
    <2>1. /\ mem'.grants = disk.grants /\ mem'.inc = disk.inc
          /\ UNCHANGED <<disk, sessions, issued, deposed>>
          /\ op'.handler = "recover"
      BY <1>10, RebuildEffect DEF Restart, Begin, Free
    <2> QED BY <1>0, <2>1 DEF IncarnationInv
  <1>11. CASE Crash
    BY <1>11, <1>d DEF Crash
  <1>12. CASE Observe \/ RestartFails \/ UNCHANGED vars
    BY <1>12 DEF Observe, RestartFails, vars, IncarnationInv
  <1>13. CASE Refuse
    <2>1. /\ phase # "down" /\ Checkpoint /\ op' = op
          /\ UNCHANGED <<phase, mem, sessions, issued, deposed>> /\ op = Free
      BY <1>13 DEF Refuse, CanServe
    <2> QED BY <1>0, <1>c, <2>1, FreeFields DEF IncarnationInv
  <1> QED BY <1>1, <1>2, <1>3, <1>4, <1>5, <1>6, <1>7, <1>8, <1>9, <1>10, <1>11, <1>12, <1>13
          DEF Next, Requests, HandlerStep, Emitting

-----------------------------------------------------------------------------
(* Boots. *)

\* While the registry is ready, no record moves the boot, and the open grants are
\* those there were and the one opened.
LEMMA EmitReady ==
  ASSUME TypeInv, HandlerShape, phase = "ready", NEW r \in Record, NEW next \in Operation,
         Moves(r, next), Applied(r, next) \/ Declined(r)
  PROVE  /\ r.kind \notin {"BootBegin", "BootEnd", "InterruptMark"}
         /\ mem'.boot = mem.boot /\ mem'.openBoots = mem.openBoots /\ mem.tok =< mem'.tok
         /\ mem'.marks = mem.marks
         /\ \A g \in OpenGrants(mem') \ OpenGrants(mem) :
              op.pc = "open" /\ r.kind = "GrantOpen" /\ g = op.target
  <1>0. mem \in RegistryState /\ disk \in RegistryState
    BY Types
  <1>1. r.kind \notin {"BootBegin", "BootEnd", "InterruptMark"}
    BY DEF Moves, HandlerShape
  <1>2. CASE Declined(r)
    BY <1>1, <1>2 DEF Declined, OpenGrants
  <1>3. CASE Applied(r, next)
    <2>1. /\ mem'.boot = mem.boot /\ mem'.openBoots = mem.openBoots /\ mem.tok =< mem'.tok
          /\ mem'.marks = mem.marks
      BY <1>0, <1>1, <1>3, ApplyFields DEF Applied
    <2>2. OpenGrants(mem') = OpenGrants(Apply(mem, r))
      BY <1>3 DEF Applied, OpenGrants
    <2>3. r.kind = "GrantOpen" => op.pc = "open" /\ r.grant = op.target
      BY DEF Moves
    <2>4. \A g \in OpenGrants(mem') \ OpenGrants(mem) : r.kind = "GrantOpen" /\ g = r.grant
      BY <1>0, <2>2, ApplyOpens
    <2> QED BY <1>1, <2>1, <2>3, <2>4
  <1> QED BY <1>2, <1>3

\* Every emitting step of recovery and of the handlers keeps the boots apart.
LEMMA EmittingBoot ==
  ASSUME TypeInv, HandlerShape, IncarnationInv, BootInv, TargetInv, Emitting
  PROVE  BootInv'
  <1>0. /\ mem \in RegistryState /\ disk \in RegistryState /\ op \in Operation
        /\ mem.inc \in Nat /\ disk.inc \in Nat /\ mem.tok \in Nat /\ mem'.tok \in Nat
        /\ \A c \in issued : c.inc \in Nat /\ c.token \in Nat
    <2>1. mem' \in RegistryState
      BY EmittingType DEF TypeInv, TypeOK
    <2> QED BY <2>1, Types DEF RegistryState
  <1>1. phase # "down"
    BY EmittingUp
  <1>2. PICK r \in Record, next \in Operation :
          /\ Moves(r, next)
          /\ Applied(r, next) \/ Declined(r)
          /\ UNCHANGED <<phase, sessions, issued, log, floor>>
    BY EmittingMoves
  <1>3. op'.result = "ok" => ~mem'.ahead
    BY <1>2 DEF Applied, Declined
  <1>4. CASE phase = "ready"
    <2>1. /\ mem'.boot = mem.boot /\ mem'.openBoots = mem.openBoots /\ mem.tok =< mem'.tok
          /\ \A g \in OpenGrants(mem') \ OpenGrants(mem) : op.pc = "open" /\ g = op.target
      BY <1>2, <1>4, EmitReady
    <2>2. op.handler # "recover" /\ op'.handler # "recover"
      BY <1>2, <1>4 DEF Moves, Continues, Applied, Declined, HandlerShape
    <2>3. \A g \in OpenGrants(mem') : g.boot = mem'.boot /\ g.inc > mem'.boot
      BY <1>4, <2>1 DEF BootInv, TargetInv, HandlerShape
    <2>4. \A c \in issued' : c.inc > mem'.boot => c.boot = mem'.boot /\ c.token =< mem'.tok
      BY <1>0, <1>2, <1>4, <2>1 DEF BootInv, Booted
    <2>5. op'.handler = "allocate" => op'.req.inc > mem'.boot
      <3>1. op'.handler = "allocate" => op'.handler = op.handler /\ op'.req = op.req
        BY <1>2 DEF Moves, Continues, Applied, Declined
      <3> QED BY <2>1, <3>1 DEF BootInv
    <2> QED BY <1>2, <1>4, <2>1, <2>2, <2>3, <2>4, <2>5
            DEF BootInv, Booted, RecoveryDone, Recovering
  <1>5. CASE phase = "recovering"
    <2>0. op.handler = "recover" /\ phase' = "recovering"
      BY <1>2, <1>5 DEF HandlerShape
    <2>1. op'.handler = "recover"
      BY <1>2, <1>5, <2>0 DEF Moves, Continues, Applied, Declined, CanServe
    <2>2. op'.pc \in {"scan", "mark", "close"} => mem'.openBoots = {}
      <3>1. CASE Declined(r)
        BY <3>1 DEF Declined
      <3>2. CASE Applied(r, next)
        <4>1. op'.pc = next.pc /\ mem'.openBoots = Apply(mem, r).openBoots
          BY <3>2 DEF Applied
        <4>2. next.pc \in {"scan", "mark", "close"} =>
                op.pc \in {"scan", "mark", "close"} /\ r.kind \notin {"BootBegin", "BootEnd"}
          BY <1>2, <1>5, <2>0 DEF Moves, CanServe
        <4> QED BY <1>0, <2>0, <4>1, <4>2, ApplyFields DEF BootInv
      <3> QED BY <1>2, <3>1, <3>2
    <2>3. RecoveryDone' => /\ mem'.openBoots = {mem'.boot} /\ OpenGrants(mem') = {}
                           /\ \A c \in issued' : ~(c.inc > mem'.boot)
      <3> SUFFICES ASSUME RecoveryDone'
                   PROVE  /\ mem'.openBoots = {mem'.boot} /\ OpenGrants(mem') = {}
                          /\ \A c \in issued' : ~(c.inc > mem'.boot)
        OBVIOUS
      <3>1. op'.pc = "finish" /\ op'.result = "ok"
        BY DEF RecoveryDone, Recovering
      <3>2. Applied(r, next) /\ next.pc = "finish"
        BY <1>2, <3>1 DEF Applied, Declined
      <3>3. op.pc = "scan" /\ Victims = {} /\ r.kind = "BootBegin" /\ r.inc = mem.inc + 1
        BY <1>2, <1>5, <2>0, <3>2 DEF Moves, CanServe, AfterFence, HandlerShape
      <3>4. mem.openBoots = {} /\ OpenGrants(mem) = {}
        BY <2>0, <3>3 DEF BootInv, Victims, Interrupted
      <3>5. mem'.openBoots = {mem.inc + 1} /\ mem'.boot = mem.inc + 1 /\ mem'.grants = mem.grants
        BY <1>0, <3>2, <3>3, <3>4, ApplyNamed, ApplyFields DEF Applied
      <3>6. \A c \in issued' : c.inc =< mem.inc
        BY <1>0, <1>1, <1>2 DEF IncarnationInv
      <3> QED BY <1>0, <1>2, <3>4, <3>5, <3>6 DEF OpenGrants
    <2> QED BY <1>3, <2>0, <2>1, <2>2, <2>3 DEF BootInv, Booted
  <1> QED BY <1>1, <1>4, <1>5 DEF TypeInv, TypeOK

\* Every step keeps the boots apart.
LEMMA BootStep ==
  ASSUME TypeInv, HandlerShape, IncarnationInv, BootInv, TargetInv, [Next]_vars
  PROVE  BootInv'
  <1>0. op \in Operation
    BY Types
  <1>q. ASSUME UNCHANGED <<phase, mem, issued>>, op'.handler # "recover",
               op'.handler = "allocate" => op'.req.inc > mem.boot,
               phase = "ready"
        PROVE  BootInv'
    BY <1>q DEF BootInv, Booted, RecoveryDone, Recovering
  <1>d. ASSUME GoDown PROVE BootInv'
    BY <1>d, FreeFields DEF GoDown, BootInv, Booted, RecoveryDone, Recovering
  <1>1. CASE Emitting
    BY <1>1, EmittingBoot
  <1>2. ASSUME NEW i \in sessions, Disconnect(i) PROVE BootInv'
    BY <1>2, <1>q, FreeFields DEF Disconnect, CanServe
  <1>3. ASSUME NEW i \in sessions, NEW d \in Domains, NEW a \in Attempts, Allocate(i, d, a)
        PROVE  BootInv'
    <2>1. i \in Nat /\ mem.boot \in Nat
      BY Types
    <2> QED BY <1>3, <1>q, <2>1, AllocateEffect
  <1>4. ASSUME NEW d \in Domains, NEW epoch, NEW i, Fence(d, epoch, i) PROVE BootInv'
    BY <1>4, <1>q, FenceEffect
  <1>5. ASSUME NEW c \in issued, Release(c) PROVE BootInv'
    BY <1>5, <1>q, ReleaseEffect
  <1>6. ASSUME NEW c \in issued, Commit(c) PROVE BootInv'
    BY <1>6, <1>q, CommitEffect
  <1>7. CASE FenceDone
    <2>1. /\ op'.handler = "fence" /\ op.handler = "fence" /\ UNCHANGED <<phase, mem, issued>>
      BY <1>0, <1>7 DEF FenceDone, Operation
    <2> QED BY <2>1 DEF BootInv, Booted, RecoveryDone, Recovering
  <1>8. CASE EndBoot /\ mem.openBoots = {}
    <2>1. /\ op'.handler = op.handler /\ op'.result = op.result /\ op'.pc = "scan"
          /\ op.handler = "recover"
          /\ UNCHANGED <<phase, mem, issued>>
      BY <1>0, <1>8 DEF EndBoot, Operation, HandlerShape
    <2> QED BY <1>8, <2>1 DEF BootInv, Booted, RecoveryDone, Recovering, HandlerShape
  <1>9. CASE Recovered
    <2>1. CASE op.result = "ok" /\ phase' = "ready" /\ op' = Free /\ UNCHANGED <<mem, sessions>>
      <3>1. RecoveryDone /\ issued' = issued
        BY <1>9, <2>1 DEF Recovered, RecoveryDone, Recovering
      <3> QED BY <2>1, <3>1, FreeFields DEF BootInv, Booted, RecoveryDone, Recovering
    <2>2. CASE GoDown
      BY <1>d, <2>2
    <2> QED BY <1>9, <2>1, <2>2 DEF Recovered
  <1>10. CASE Finish
    <2>1. /\ op' = Free /\ UNCHANGED <<phase, mem>> /\ phase = "ready"
      BY <1>10, FreeFields DEF Finish, HandlerShape, TypeInv, TypeOK
    <2>2. \A c \in issued' : c \in issued \/ c \in OpenGrants(mem)
      BY <1>10 DEF Finish, TargetInv
    <2>3. \A g \in OpenGrants(mem) : g.token =< mem.tok
      BY DEF TypeInv, Sound, Dominated, OpenGrants
    <2> QED BY <2>1, <2>2, <2>3, FreeFields DEF BootInv, Booted, RecoveryDone, Recovering
  <1>11. CASE Restart
    <2>1. /\ op'.handler = "recover" /\ op'.pc = "boots" /\ phase' = "recovering" /\ ~mem'.ahead
      BY <1>11, RebuildEffect DEF Restart, RecoveryBlocked, Begin, Free
    <2> QED BY <2>1 DEF BootInv, Booted, RecoveryDone, Recovering
  <1>12. CASE Crash
    BY <1>12, <1>d DEF Crash
  <1>13. CASE Observe \/ RestartFails \/ UNCHANGED vars
    BY <1>13 DEF Observe, RestartFails, vars, BootInv, Booted, RecoveryDone, Recovering
  <1>14. CASE Refuse
    BY <1>14, <1>q, FreeFields DEF Refuse, CanServe
  <1> QED BY <1>1, <1>2, <1>3, <1>4, <1>5, <1>6, <1>7, <1>8, <1>9, <1>10, <1>11, <1>12, <1>13, <1>14
          DEF Next, Requests, HandlerStep, Emitting

-----------------------------------------------------------------------------
(* The grant a handler is about to open or to hand out. *)

\* The handlers that serve requests run in a ready registry.
LEMMA ServingIsReady ==
  ASSUME TypeInv, HandlerShape, op.handler \notin {"free", "recover"}
  PROVE  phase = "ready"
  BY FreeFields DEF HandlerShape, TypeInv, TypeOK

\* MaxEpoch is the highest epoch of a domain in the lineage.
LEMMA MaxEpochDominates ==
  ASSUME NEW s, Sound(s), NEW g \in s.grants
  PROVE  g.epoch =< MaxEpoch(s, g.domain)
  <1> DEFINE E == {0} \cup {h.epoch : h \in {k \in s.grants : k.domain = g.domain}}
  <1>1. E \in SUBSET Nat /\ E # {} /\ s.gid \in Nat /\ \A x \in E : x =< s.gid
    BY DEF Sound, Dominated, RegistryState, Grant
  <1>2. MaxEpoch(s, g.domain) = Max(E) /\ g.epoch \in E
    BY DEF MaxEpoch
  <1> HIDE DEF E
  <1> QED BY <1>1, <1>2, MaxBounded

\* allocate_epoch numbers its grant above everything it could be taken for.
LEMMA NewGrantFresh ==
  ASSUME TypeInv, HandlerShape, BootInv, EffectInv, op.handler = "allocate"
  PROVE  /\ NewGrant.inc = op.req.inc /\ NewGrant.boot = mem.boot /\ NewGrant.state = "Open"
         /\ NewGrant.token = mem.tok + 1
         /\ \A c \in issued : c.inc > mem.boot => c.token < NewGrant.token
         /\ \A i \in DOMAIN log : log[i].cred.token < NewGrant.token
         /\ \A e \in Extents : floor[e].hw < NewGrant.token
         /\ \A g \in mem.grants : /\ g.id < NewGrant.id /\ g.token < NewGrant.token
                                  /\ g.domain = NewGrant.domain => g.epoch < NewGrant.epoch
  <1>0. phase = "ready" /\ mem.tok \in Nat /\ mem.gid \in Nat /\ Sound(mem)
    BY Types, ServingIsReady DEF TypeInv
  <1>1. /\ NewGrant.inc = op.req.inc /\ NewGrant.boot = mem.boot /\ NewGrant.state = "Open"
        /\ NewGrant.token = mem.tok + 1 /\ NewGrant.id = mem.gid + 1
        /\ NewGrant.domain = op.req.domain
        /\ NewGrant.epoch = MaxEpoch(mem, op.req.domain) + 1
    BY DEF NewGrant
  <1>2. \A c \in issued : c.inc > mem.boot => c.token < NewGrant.token
    BY <1>0, <1>1, Types DEF BootInv, Booted
  <1>3. \A i \in DOMAIN log : log[i].cred.token < NewGrant.token
    BY <1>0, <1>1, Types DEF EffectInv
  <1>4. \A e \in Extents : floor[e].hw < NewGrant.token
    BY <1>0, <1>1, <1>3 DEF EffectInv
  <1>5. ASSUME NEW g \in mem.grants
        PROVE  /\ g.id < NewGrant.id /\ g.token < NewGrant.token
               /\ g.domain = NewGrant.domain => g.epoch < NewGrant.epoch
    <2>1. g.id =< mem.gid /\ g.token =< mem.tok /\ g.id \in Nat /\ g.token \in Nat /\ g.epoch \in Nat
      BY <1>0, Types DEF Sound, Dominated
    <2>2. g.domain = op.req.domain => g.epoch =< MaxEpoch(mem, op.req.domain)
      BY <1>0, MaxEpochDominates
    <2>3. MaxEpoch(mem, op.req.domain) \in Nat
      BY <1>0, MaxEpochBounded
    <2> QED BY <1>0, <1>1, <2>1, <2>2, <2>3
  <1> QED BY <1>1, <1>2, <1>3, <1>4, <1>5

\* Every step leaves a handler with a target that is fresh, or open.
LEMMA TargetStep ==
  ASSUME TypeInv, HandlerShape, BootInv, TargetInv, EffectInv, [Next]_vars
  PROVE  TargetInv'
  <1>0. op \in Operation /\ mem \in RegistryState
    BY Types
  <1>q. ASSUME op'.pc # "open", op'.handler # "allocate" PROVE TargetInv'
    BY <1>q DEF TargetInv
  <1>1. CASE Emitting
    <2>1. PICK r \in Record, next \in Operation :
            /\ Moves(r, next)
            /\ Applied(r, next) \/ Declined(r)
            /\ UNCHANGED <<phase, sessions, issued, log, floor>>
      BY <1>1, EmittingMoves
    <2>2. CASE Declined(r)
      BY <2>2 DEF Declined, TargetInv
    <2>3. CASE Applied(r, next) /\ next.pc = "open"
      <3>1. /\ op.handler = "allocate" /\ r.kind = "ExtentAdopt" /\ r.token = mem.tok + 1
            /\ next.req = op.req /\ next.target = NewGrant
        BY <2>1, <2>3 DEF Moves, Continues, AfterFence
      <3>2. op'.pc = "open" /\ op'.req = op.req /\ op'.target = NewGrant
        BY <2>3, <3>1 DEF Applied
      <3>3. mem'.grants = mem.grants /\ mem'.boot = mem.boot /\ mem.tok + 1 =< mem'.tok
        BY <1>0, <2>3, <3>1, ApplyFields, ApplyNamed DEF Applied
      <3>4. UNCHANGED <<issued, log, floor>>
        BY <2>1
      <3> QED BY <3>1, <3>2, <3>3, <3>4, NewGrantFresh DEF TargetInv
    <2>4. CASE Applied(r, next) /\ next.pc # "open"
      <3>1. op'.pc = next.pc /\ op'.handler = next.handler /\ op'.req = next.req
            /\ op'.target = next.target
        BY <2>4 DEF Applied
      <3> SUFFICES ASSUME next.handler = "allocate", next.pc = "finish"
                   PROVE  op'.target \in OpenGrants(mem') /\ op'.target.inc = op'.req.inc
        BY <2>4, <3>1 DEF TargetInv
      <3>2. /\ op.pc = "open" /\ r.kind = "GrantOpen" /\ r.grant = op.target
            /\ next.target = op.target /\ next.req = op.req
        BY <2>1 DEF Moves, Continues, AfterFence, HandlerShape
      <3>3. op.target \in mem'.grants
        BY <1>0, <2>4, <3>2, ApplyNamed DEF Applied
      <3> QED BY <3>1, <3>2, <3>3 DEF TargetInv, OpenGrants, IsOpen
    <2> QED BY <2>1, <2>2, <2>3, <2>4
  <1>2. ASSUME NEW i \in sessions, Disconnect(i) PROVE TargetInv'
    BY <1>2, <1>q, FreeFields DEF Disconnect, CanServe
  <1>3. ASSUME NEW i \in sessions, NEW d \in Domains, NEW a \in Attempts, Allocate(i, d, a)
        PROVE  TargetInv'
    BY <1>3, AllocateEffect DEF TargetInv
  <1>4. ASSUME NEW d \in Domains, NEW epoch, NEW i, Fence(d, epoch, i) PROVE TargetInv'
    BY <1>4, <1>q, FenceEffect
  <1>5. ASSUME NEW c \in issued, Release(c) PROVE TargetInv'
    BY <1>5, <1>q, ReleaseEffect
  <1>6. ASSUME NEW c \in issued, Commit(c) PROVE TargetInv'
    BY <1>6, <1>q, CommitEffect
  <1>7. CASE FenceDone \/ (EndBoot /\ mem.openBoots = {})
    <2>1. op'.pc # "open" /\ op'.handler # "allocate"
      BY <1>0, <1>7 DEF FenceDone, EndBoot, Operation, HandlerShape
    <2> QED BY <1>q, <2>1
  <1>8. CASE Recovered \/ Finish \/ Crash
    BY <1>8, <1>q, FreeFields DEF Recovered, Finish, Crash, GoDown
  <1>9. CASE Restart
    BY <1>9, <1>q DEF Restart, Begin, Free
  <1>10. CASE Observe \/ RestartFails \/ UNCHANGED vars
    BY <1>10 DEF Observe, RestartFails, vars, TargetInv
  <1>11. CASE Refuse
    BY <1>11, <1>q, FreeFields DEF Refuse, CanServe
  <1> QED BY <1>1, <1>2, <1>3, <1>4, <1>5, <1>6, <1>7, <1>8, <1>9, <1>10, <1>11
          DEF Next, Requests, HandlerStep, Emitting

-----------------------------------------------------------------------------
(* The order of the lineage. *)

\* A record keeps the lineage in order when the grant it opens comes last.
LEMMA ApplyOrdered ==
  ASSUME NEW s \in RegistryState, NEW r \in Record, Ordered(s.grants),
         r.kind = "GrantOpen" => \A g \in s.grants : Before(g, r.grant)
  PROVE  Ordered(Apply(s, r).grants)
  <1>1. CASE r.kind = "GrantOpen"
    BY <1>1, ApplyNamed DEF Ordered
  <1>2. CASE r.kind = "GrantClose"
    <2> DEFINE c(h) == IF h.id = r.id /\ IsOpen(h) THEN [h EXCEPT !.state = r.state] ELSE h
    <2>1. Apply(s, r).grants = {c(h) : h \in s.grants}
      BY <1>2 DEF Apply, ApplyGrantClose, RegistryState
    <2>2. ASSUME NEW h \in s.grants
          PROVE  c(h).id = h.id /\ c(h).domain = h.domain /\ c(h).epoch = h.epoch
                 /\ c(h).token = h.token
      BY DEF RegistryState, Grant
    <2> HIDE DEF c
    <2>3. ASSUME NEW g \in s.grants, NEW h \in s.grants
          PROVE  c(g) = c(h) \/ Before(c(g), c(h)) \/ Before(c(h), c(g))
      <3>1. CASE g = h
        BY <3>1
      <3>2. CASE Before(g, h) \/ Before(h, g)
        BY <2>2, <3>2 DEF Before
      <3> QED BY <3>1, <3>2 DEF Ordered
    <2> QED BY <2>1, <2>3 DEF Ordered
  <1>3. CASE r.kind \notin {"GrantOpen", "GrantClose"}
    BY <1>3, ApplyFields
  <1> QED BY <1>1, <1>2, <1>3

\* Every step keeps the lineage in order, in memory and on disk.
LEMMA LineageStep ==
  ASSUME TypeInv, MutexInv, HandlerShape, TargetInv, LineageInv, [Next]_vars
  PROVE  LineageInv'
  <1>0. mem \in RegistryState /\ disk \in RegistryState
    BY Types
  <1>1. CASE Emitting
    <2>0. phase # "down"
      BY <1>1, EmittingUp
    <2>1. PICK r \in Record, next \in Operation :
            Moves(r, next) /\ (Applied(r, next) \/ Declined(r))
      BY <1>1, EmittingMoves
    <2>2. r.kind = "GrantOpen" => \A g \in mem.grants : Before(g, r.grant)
      BY <2>1 DEF Moves, TargetInv, Before
    <2>3. Ordered(Apply(mem, r).grants)
      BY <1>0, <2>2, ApplyOrdered DEF LineageInv
    <2>4. ~mem.ahead => Apply(disk, r).grants = Apply(mem, r).grants
      BY <1>0, <2>0, ApplySameLineage DEF MutexInv, LineageOnDisk
    <2>5. mem'.grants \in {mem.grants, Apply(mem, r).grants}
      BY <2>1 DEF Applied, Declined
    <2>6. disk' = disk \/ (~mem.ahead /\ disk' = Apply(disk, r))
      BY <2>1 DEF Applied, Declined
    <2> QED BY <2>3, <2>4, <2>5, <2>6 DEF LineageInv
  <1>2. ASSUME Checkpoint, mem' = mem PROVE LineageInv'
    BY <1>2, CheckpointEffect DEF LineageInv
  <1>3. ASSUME mem' = mem, disk' = disk PROVE LineageInv'
    BY <1>3 DEF LineageInv
  <1>4. ASSUME GoDown, disk' = disk PROVE LineageInv'
    BY <1>4 DEF GoDown, Blank, LineageInv, Ordered
  <1>5. CASE Restart
    BY <1>5, RebuildEffect DEF Restart, LineageInv
  <1>6. CASE Requests
    BY <1>1, <1>2, <1>3, <1>6 DEF Requests, Emitting, Disconnect, Allocate, Fence, Release, Commit,
                                  Observe, Refuse, vars
  <1>7. CASE HandlerStep
    BY <1>1, <1>2, <1>3, <1>4, <1>7 DEF HandlerStep, Emitting, FenceDone, EndBoot, Recovered, Finish
  <1> QED BY <1>3, <1>4, <1>5, <1>6, <1>7 DEF Next, Crash, RestartFails, vars

-----------------------------------------------------------------------------
(* Effects. *)

\* The token counter of memory never goes back while the registry is up.
LEMMA EmitTokens ==
  ASSUME TypeInv, NEW r \in Record, NEW next \in Operation, Applied(r, next) \/ Declined(r)
  PROVE  mem.tok =< mem'.tok
  BY Types, ApplyFields DEF Applied, Declined

\* A credential handed out in this boot that shares the token of an open grant is
\* that grant.
LEMMA CredentialIsGrant ==
  ASSUME TypeInv, BootInv, EffectInv, phase = "ready",
         NEW c \in issued, NEW g \in OpenGrants(mem), g.inc = c.inc, g.token = c.token
  PROVE  c = g
  BY DEF BootInv, EffectInv

\* What commit() admits is the effect of an open grant, in the boot that issued it.
LEMMA CommitIsHolders ==
  ASSUME TypeInv, BootInv, EffectInv, NEW c \in issued, Commit(c)
  PROVE  c \in OpenGrants(mem) /\ c.boot = mem.boot
  <1>1. phase = "ready" /\ CommitGate(mem, c)
    BY DEF Commit, CanServe
  <1>2. PICK g \in OpenGrants(mem) : g.inc = c.inc /\ g.token = c.token
    BY <1>1 DEF CommitGate
  <1> QED BY <1>1, <1>2, CredentialIsGrant DEF BootInv

\* The effect log after a commit: one more effect, at the end.
LEMMA CommitLog ==
  ASSUME TypeInv, NEW c \in issued, Commit(c)
  PROVE  /\ Len(log) + 1 \in DOMAIN log'
         /\ log'[Len(log) + 1] = [cred |-> c, boot |-> mem.boot]
         /\ \A i \in DOMAIN log : i \in DOMAIN log' /\ log'[i] = log[i]
         /\ \A i \in DOMAIN log' : i \in DOMAIN log \/ i = Len(log) + 1
  <1>1. log \in Seq(Effect)
    BY DEF TypeInv, TypeOK
  <1>2. log' = Append(log, [cred |-> c, boot |-> mem.boot])
    BY DEF Commit
  <1> QED BY <1>1, <1>2

\* Every step keeps the effects tied to the grants.
LEMMA EffectStep ==
  ASSUME TypeInv, MutexInv, HandlerShape, BootInv, TargetInv, LineageInv, EffectInv, [Next]_vars
  PROVE  EffectInv'
  <1>0. /\ mem.tok \in Nat /\ mem \in RegistryState
        /\ \A i \in DOMAIN log : log[i].cred.token \in Nat
    BY Types
  <1>q. ASSUME UNCHANGED <<phase, mem, issued, log, floor>> PROVE EffectInv'
    BY <1>q DEF EffectInv
  <1>d. ASSUME GoDown, UNCHANGED <<log, floor>> PROVE EffectInv'
    BY <1>d DEF GoDown, EffectInv
  <1>1. CASE Emitting
    <2>0. phase # "down" /\ mem'.tok \in Nat
      BY <1>1, EmittingUp, EmittingType DEF TypeInv, TypeOK, RegistryState
    <2>1. PICK r \in Record, next \in Operation :
            /\ Moves(r, next)
            /\ Applied(r, next) \/ Declined(r)
            /\ UNCHANGED <<phase, sessions, issued, log, floor>>
      BY <1>1, EmittingMoves
    <2>2. mem.tok =< mem'.tok
      BY <2>1, EmitTokens
    <2>3. \A i \in DOMAIN log' : log'[i].cred.token =< mem'.tok
      BY <1>0, <2>0, <2>1, <2>2 DEF EffectInv
    <2>4. \A e \in Extents : floor'[e].hw = 0
                             \/ \E i \in DOMAIN log' : floor'[e].hw = log'[i].cred.token
      BY <2>1 DEF EffectInv
    <2>5. ASSUME phase = "ready", NEW g \in OpenGrants(mem')
          PROVE  /\ \A i \in DOMAIN log' : log'[i].cred.token = g.token => log'[i].cred = g
                 /\ \A e \in g.scope : /\ floor'[e].hw =< g.token
                                       /\ floor'[e].hw = g.token => floor'[e].owner = g.inc
                 /\ \A c \in issued' : c.inc > mem'.boot /\ c.token = g.token => c = g
      <3>1. mem'.boot = mem.boot
            /\ (g \in OpenGrants(mem) \/ (op.pc = "open" /\ g = op.target))
        BY <2>1, <2>5, EmitReady
      <3>2. CASE g \in OpenGrants(mem)
        BY <2>1, <2>5, <3>1, <3>2 DEF EffectInv
      <3>3. CASE op.pc = "open" /\ g = op.target
        <4>1. g.token \in Nat /\ g.scope \subseteq Extents
          BY <3>3, Types DEF Grant
        <4>2. /\ \A i \in DOMAIN log : log[i].cred.token # g.token
              /\ \A e \in g.scope : floor[e].hw =< g.token /\ floor[e].hw # g.token
              /\ \A c \in issued : c.inc > mem.boot => c.token # g.token
          BY <1>0, <3>3, <4>1, Types DEF TargetInv
        <4> QED BY <2>1, <3>1, <4>2
      <3> QED BY <3>1, <3>2, <3>3
    <2> QED BY <2>1, <2>3, <2>4, <2>5 DEF EffectInv
  <1>2. ASSUME NEW c \in issued, Commit(c) PROVE EffectInv'
    <2>0. /\ phase = "ready" /\ UNCHANGED <<phase, mem, issued>>
          /\ c \in OpenGrants(mem) /\ c.inc > mem.boot /\ c.token =< mem.tok
          /\ floor' = [e \in Extents |-> IF e \in c.scope
                                         THEN [hw |-> c.token, owner |-> c.inc]
                                         ELSE floor[e]]
      BY <1>2, CommitEffect, CommitIsHolders DEF Commit, BootInv, Booted
    <2>1. /\ Len(log) + 1 \in DOMAIN log' /\ log'[Len(log) + 1].cred = c
          /\ \A i \in DOMAIN log : i \in DOMAIN log' /\ log'[i] = log[i]
          /\ \A i \in DOMAIN log' : i \in DOMAIN log \/ i = Len(log) + 1
      <3>1. log'[Len(log) + 1] = [cred |-> c, boot |-> mem.boot]
        BY <1>2, CommitLog
      <3>2. log'[Len(log) + 1].cred = c
        BY <3>1
      <3> QED BY <1>2, <3>2, CommitLog
    <2>2. \A i \in DOMAIN log' : log'[i].cred.token =< mem'.tok
      BY <2>0, <2>1 DEF EffectInv
    <2>3. ASSUME NEW e \in Extents
          PROVE  floor'[e].hw = 0 \/ \E i \in DOMAIN log' : floor'[e].hw = log'[i].cred.token
      <3>1. CASE e \in c.scope
        <4>1. floor'[e].hw = c.token
          BY <2>0, <3>1
        <4> QED BY <2>1, <4>1
      <3>2. CASE e \notin c.scope
        BY <2>0, <2>1, <3>2 DEF EffectInv
      <3> QED BY <3>1, <3>2
    <2>4. ASSUME NEW g \in OpenGrants(mem')
          PROVE  /\ \A i \in DOMAIN log' : log'[i].cred.token = g.token => log'[i].cred = g
                 /\ \A e \in g.scope : /\ floor'[e].hw =< g.token
                                       /\ floor'[e].hw = g.token => floor'[e].owner = g.inc
                 /\ \A b \in issued' : b.inc > mem'.boot /\ b.token = g.token => b = g
      <3>1. /\ g \in OpenGrants(mem) /\ g.token \in Nat /\ g.scope \subseteq Extents
        BY <2>0, Types DEF OpenGrants
      <3>2. c.token = g.token => c = g
        BY <2>0, <3>1 DEF EffectInv
      <3>3. \A i \in DOMAIN log' : log'[i].cred.token = g.token => log'[i].cred = g
        BY <2>0, <2>1, <3>1, <3>2 DEF EffectInv
      <3>4. ASSUME NEW e \in g.scope
            PROVE  /\ floor'[e].hw =< g.token
                   /\ floor'[e].hw = g.token => floor'[e].owner = g.inc
        <4>1. CASE e \in c.scope
          <5>1. c = g
            BY <2>0, <3>1, <4>1 DEF MutexInv, OpenGrantsDisjoint, Disjoint
          <5>2. floor'[e] = [hw |-> c.token, owner |-> c.inc]
            BY <2>0, <3>1, <4>1
          <5> QED BY <3>1, <5>1, <5>2
        <4>2. CASE e \notin c.scope
          BY <2>0, <3>1, <4>2 DEF EffectInv
        <4> QED BY <4>1, <4>2
      <3> QED BY <2>0, <3>1, <3>3, <3>4 DEF EffectInv
    <2> QED BY <2>0, <2>2, <2>3, <2>4 DEF EffectInv
  <1>3. CASE Finish
    <2>1. /\ UNCHANGED <<phase, mem, log, floor>>
          /\ \A c \in issued' : c \in issued \/ c \in OpenGrants(mem)
      BY <1>3 DEF Finish, TargetInv
    <2>2. ASSUME NEW c \in OpenGrants(mem), NEW g \in OpenGrants(mem), c.token = g.token
          PROVE  c = g
      <3>1. c \in mem.grants /\ g \in mem.grants /\ c.token \in Nat /\ g.token \in Nat
        BY Types DEF OpenGrants
      <3> QED BY <2>2, <3>1 DEF LineageInv, Ordered, Before
    <2> QED BY <2>1, <2>2 DEF EffectInv
  <1>4. CASE Recovered
    <2>1. CASE op.result = "ok" /\ phase' = "ready" /\ mem' = mem
      <3>1. OpenGrants(mem) = {} /\ phase # "down" /\ UNCHANGED <<log, floor>>
        BY <1>4, <2>1, FreeFields DEF Recovered, BootInv, RecoveryDone, Recovering, HandlerShape
      <3> QED BY <2>1, <3>1 DEF EffectInv
    <2>2. CASE GoDown
      BY <1>4, <1>d, <2>2 DEF Recovered
    <2> QED BY <1>4, <2>1, <2>2 DEF Recovered
  <1>5. CASE Restart
    <2>1. phase' = "recovering" /\ UNCHANGED <<log, floor>>
          /\ \A i \in DOMAIN log : log[i].cred.token =< mem'.tok
      BY <1>5, RebuildEffect DEF Restart
    <2> QED BY <2>1 DEF EffectInv
  <1>6. CASE Requests
    BY <1>1, <1>2, <1>q, <1>6 DEF Requests, Emitting, Disconnect, Allocate, Fence, Release,
                                  Observe, Refuse, vars
  <1>7. CASE HandlerStep
    BY <1>1, <1>3, <1>4, <1>q, <1>7 DEF HandlerStep, Emitting, FenceDone, EndBoot
  <1> QED BY <1>q, <1>d, <1>5, <1>6, <1>7 DEF Next, Crash, RestartFails, vars

-----------------------------------------------------------------------------
(* Interrupt marks. *)

\* Every step keeps what recovery closed surfaced by a mark.
LEMMA MarkStep ==
  ASSUME TypeInv, MutexInv, HandlerShape, TargetInv, MarkInv, [Next]_vars
  PROVE  MarkInv'
  <1>0. mem \in RegistryState /\ disk \in RegistryState /\ op \in Operation
    BY Types
  <1>q. ASSUME UNCHANGED <<phase, mem, disk>>, op'.pc # "close" PROVE MarkInv'
    BY <1>q DEF MarkInv, Recovering
  <1>c. ASSUME Checkpoint, mem' = mem, phase # "down", op' = Free PROVE MarkInv'
    BY <1>c, CheckpointEffect, FreeFields DEF MarkInv, Recovering, Surfaced
  <1>d. ASSUME GoDown, disk' = disk PROVE MarkInv'
    BY <1>d, FreeFields DEF GoDown, Blank, MarkInv, Recovering, Surfaced
  <1>1. CASE Emitting
    <2>0. phase # "down"
      BY <1>1, EmittingUp
    <2>1. PICK r \in Record, next \in Operation :
            /\ Moves(r, next)
            /\ Applied(r, next) \/ Declined(r)
            /\ UNCHANGED <<phase, sessions, issued, log, floor>>
      BY <1>1, EmittingMoves
    <2>2. mem.marks \subseteq Apply(mem, r).marks
          /\ (r.kind = "InterruptMark" => r.id \in Apply(mem, r).marks)
      BY <1>0, ApplyFields, ApplyNamed
    <2>3. Surfaced(Apply(mem, r))
      <3> SUFFICES ASSUME NEW g \in Apply(mem, r).grants, g.state = "Interrupted"
                   PROVE  g.id \in mem.marks
        BY <2>2 DEF Surfaced
      <3>1. r.kind = "GrantOpen" => r.grant.state = "Open"
        BY <2>1 DEF Moves, TargetInv
      <3>2. r.kind = "GrantClose" /\ r.state = "Interrupted" => r.id \in mem.marks
        <4>1. r.kind = "GrantClose" => op.pc = "close" /\ r.id = op.target.id
                                       /\ r.state = ClosedAs(op.handler)
          BY <2>1 DEF Moves
        <4>2. ClosedAs(op.handler) = "Interrupted" => op.handler = "recover"
          BY DEF ClosedAs
        <4> QED BY <4>1, <4>2 DEF MarkInv, Recovering
      <3> QED BY <1>0, <3>1, <3>2, GrantOrigin DEF MarkInv, Surfaced
    <2>4. ~mem.ahead => /\ Apply(disk, r).grants = Apply(mem, r).grants
                        /\ Apply(disk, r).marks = Apply(mem, r).marks
      <3>1. ~mem.ahead => disk.grants = mem.grants /\ disk.marks = mem.marks
        BY <2>0 DEF MutexInv, LineageOnDisk, MarkInv
      <3>2. ~mem.ahead => Apply(disk, r).grants = Apply(mem, r).grants
        BY <1>0, <3>1, ApplySameLineage
      <3>3. CASE r.kind = "InterruptMark"
        <4>1. /\ Apply(mem, r).marks = mem.marks \cup {r.id}
              /\ Apply(disk, r).marks = disk.marks \cup {r.id}
          BY <1>0, <3>3, ApplyNamed
        <4> QED BY <3>1, <3>2, <4>1
      <3>4. CASE r.kind # "InterruptMark"
        BY <1>0, <3>1, <3>2, <3>4, ApplyFields
      <3> QED BY <3>3, <3>4
    <2>5. CASE Declined(r)
      BY <2>1, <2>5 DEF Declined, MarkInv, Recovering, Surfaced
    <2>6. CASE Applied(r, next)
      <3>1. mem'.grants = Apply(mem, r).grants /\ mem'.marks = Apply(mem, r).marks
        BY <2>6 DEF Applied
      <3>2. Surfaced(mem')
        BY <2>3, <3>1 DEF Surfaced
      <3>3. Surfaced(disk')
        BY <2>3, <2>4, <2>6 DEF Applied, Surfaced, MarkInv
      <3>4. Recovering("close")' => op'.target.id \in mem'.marks
        <4>1. next.pc = "close" /\ next.handler = "recover" =>
                r.kind = "InterruptMark" /\ r.id = op.target.id /\ next.target = op.target
          BY <2>1 DEF Moves, Continues, AfterFence
        <4> QED BY <2>2, <2>6, <3>1, <4>1 DEF Applied, Recovering
      <3>5. ~mem'.ahead => disk'.marks = mem'.marks
        BY <2>4, <2>6, <3>1 DEF Applied
      <3> QED BY <3>2, <3>3, <3>4, <3>5 DEF MarkInv
    <2> QED BY <2>1, <2>5, <2>6
  <1>2. ASSUME NEW i \in sessions, Disconnect(i) PROVE MarkInv'
    BY <1>2, <1>q, FreeFields DEF Disconnect, CanServe
  <1>3. ASSUME NEW i \in sessions, NEW d \in Domains, NEW a \in Attempts, Allocate(i, d, a)
        PROVE  MarkInv'
    BY <1>3, <1>q, AllocateEffect
  <1>4. ASSUME NEW d \in Domains, NEW epoch, NEW i, Fence(d, epoch, i) PROVE MarkInv'
    BY <1>4, <1>q, FenceEffect
  <1>5. ASSUME NEW c \in issued, Release(c) \/ Commit(c) PROVE MarkInv'
    BY <1>5, <1>q, ReleaseEffect, CommitEffect
  <1>7. CASE FenceDone \/ (EndBoot /\ mem.openBoots = {})
    <2>1. op'.pc # "close" /\ UNCHANGED <<phase, mem, disk>>
      BY <1>0, <1>7 DEF FenceDone, EndBoot, Operation
    <2> QED BY <1>q, <2>1
  <1>8. CASE Recovered
    BY <1>8, <1>c, <1>d, FreeFields DEF Recovered, HandlerShape
  <1>9. CASE Finish
    BY <1>9, <1>c, FreeFields DEF Finish, HandlerShape
  <1>10. CASE Restart
    <2>1. /\ mem'.grants = disk.grants /\ mem'.marks = disk.marks /\ disk' = disk
          /\ op'.pc = "boots"
      BY <1>10, RebuildEffect DEF Restart, Begin, Free
    <2> QED BY <2>1 DEF MarkInv, Recovering, Surfaced
  <1>11. CASE Crash
    BY <1>11, <1>d DEF Crash
  <1>12. CASE Observe \/ RestartFails \/ UNCHANGED vars
    BY <1>12 DEF Observe, RestartFails, vars, MarkInv, Recovering
  <1>13. CASE Refuse
    BY <1>13, <1>c DEF Refuse, CanServe
  <1> QED BY <1>1, <1>2, <1>3, <1>4, <1>5, <1>7, <1>8, <1>9, <1>10, <1>11, <1>12, <1>13
          DEF Next, Requests, HandlerStep, Emitting

-----------------------------------------------------------------------------
(* The theorems. *)

\* The empty registry satisfies the invariant.
LEMMA RestartInit == Init => RestartInv
  <1> SUFFICES ASSUME Init PROVE RestartInv
    OBVIOUS
  <1>1. /\ mem.grants = {} /\ disk.grants = {} /\ mem.marks = {} /\ disk.marks = {}
        /\ disk.inc = 0 /\ mem.inc = 0 /\ DOMAIN log = {}
        /\ \A e \in Extents : floor[e].hw = 0
        /\ phase = "down" /\ op = Free /\ sessions = {} /\ issued = {} /\ deposed = {}
    BY DEF Init, Blank
  <1>2. HandlerShape /\ IncarnationInv
    BY <1>1, FreeFields DEF HandlerShape, IncarnationInv
  <1>3. BootInv /\ TargetInv
    BY <1>1, FreeFields DEF BootInv, TargetInv, Booted, RecoveryDone, Recovering
  <1>4. EffectInv /\ MarkInv /\ LineageInv
    BY <1>1, FreeFields DEF EffectInv, MarkInv, LineageInv, Recovering, Surfaced, Ordered
  <1> QED BY <1>2, <1>3, <1>4 DEF RestartInv

\* Every step of the registry keeps it.
LEMMA RestartStep ==
  ASSUME TypeInv, MutexInv, RestartInv, [Next]_vars
  PROVE  RestartInv'
  BY ShapeStep, IncarnationStep, BootStep, TargetStep, EffectStep, MarkStep, LineageStep
     DEF RestartInv

\* The inductive invariant behind the theorems of this module.
THEOREM RestartInvariant == Spec => [](TypeInv /\ MutexInv /\ RestartInv)
  <1>1. Init => TypeInv /\ MutexInv /\ RestartInv
    BY TypeInit, MutexInit, RestartInit
  <1>2. TypeInv /\ MutexInv /\ RestartInv /\ [Next]_vars
          => TypeInv' /\ MutexInv' /\ RestartInv'
    BY TypeStep, MutexStep, RestartStep
  <1> QED BY <1>1, <1>2, PTL DEF Spec

\* No incarnation is handed out before it is journalled, so that no later boot
\* can hand it out again, whatever crashes and whichever append fails.
THEOREM Durable == Spec => []IncarnationsDurable
  <1>1. RestartInv => IncarnationsDurable
    BY DEF RestartInv, IncarnationInv, IncarnationsDurable
  <1> QED BY <1>1, RestartInvariant, PTL

\* Recovery surfaces every grant it closes, and a ready registry has one open
\* boot, its own, and no open grant of an older boot or incarnation.
THEOREM Recovery == Spec => []RecoveryComplete
  <1>1. RestartInv => RecoveryComplete
    BY DEF RestartInv, MarkInv, Surfaced, BootInv, Booted, RecoveryComplete
  <1> QED BY <1>1, RestartInvariant, PTL

\* What decide() finds authoritative, commit() and the fabric log admit.
THEOREM Honoured == Spec => []DecisionHonoured
  <1>1. TypeInv /\ RestartInv => DecisionHonoured
    <2> SUFFICES ASSUME TypeInv, RestartInv, CanServe, NEW c \in issued, DecideGate(mem, c)
                 PROVE  CommitGate(mem, c) /\ FabricGate(c)
      BY DEF DecisionHonoured
    <2>0. phase = "ready" /\ BootInv /\ EffectInv
      BY DEF CanServe, RestartInv
    <2>1. /\ mem.domains[c.domain] = c.scope
          /\ \E g \in OpenGrants(mem) : g.inc = c.inc /\ g.token = c.token
      BY DEF DecideGate
    <2>2. c \in OpenGrants(mem)
      BY <2>0, <2>1, CredentialIsGrant
    <2>3. CommitGate(mem, c)
      BY <2>1, <2>2 DEF CommitGate
    <2>4. FabricGate(c)
      BY <2>0, <2>2 DEF EffectInv, FabricGate
    <2> QED BY <2>3, <2>4
  <1> QED BY <1>1, RestartInvariant, PTL

\* What the fabric log holds: effects of their own boot, identified by the token.
EffectsOwned == NoEffectAcrossRestart /\ EffectTokensIdentifyGrants

\* A commit adds the effect of an open grant of this boot, under a token that no
\* other grant's effect carries.
LEMMA EffectsOwnedStep ==
  ASSUME TypeInv, RestartInv, EffectsOwned, [Next]_vars
  PROVE  EffectsOwned'
  <1>1. ASSUME NEW c \in issued, Commit(c) PROVE EffectsOwned'
    <2>1. c \in OpenGrants(mem) /\ c.boot = mem.boot /\ phase = "ready" /\ EffectInv
      BY <1>1, CommitIsHolders, CommitEffect DEF RestartInv
    <2>2. /\ log'[Len(log) + 1] = [cred |-> c, boot |-> mem.boot]
          /\ \A i \in DOMAIN log : i \in DOMAIN log' /\ log'[i] = log[i]
          /\ \A i \in DOMAIN log' : i \in DOMAIN log \/ i = Len(log) + 1
      BY <1>1, CommitLog
    <2>3. log'[Len(log) + 1].cred = c /\ log'[Len(log) + 1].boot = mem.boot
      BY <2>2
    <2>4. \A i \in DOMAIN log : log[i].cred.token = c.token => log[i].cred = c
      BY <2>1 DEF EffectInv
    <2>5. NoEffectAcrossRestart'
      BY <2>1, <2>2, <2>3 DEF EffectsOwned, NoEffectAcrossRestart
    <2>6. EffectTokensIdentifyGrants'
      BY <2>2, <2>3, <2>4 DEF EffectsOwned, EffectTokensIdentifyGrants
    <2> QED BY <2>5, <2>6 DEF EffectsOwned
  <1>2. CASE log' = log
    BY <1>2 DEF EffectsOwned, NoEffectAcrossRestart, EffectTokensIdentifyGrants
  <1>3. CASE Emitting
    BY <1>2, <1>3, EmittingMoves
  <1>4. CASE Requests
    BY <1>1, <1>2, <1>3, <1>4 DEF Requests, Emitting, Disconnect, Allocate, Fence, Release,
                                  Observe, Refuse, vars
  <1>5. CASE HandlerStep
    BY <1>2, <1>3, <1>5 DEF HandlerStep, Emitting, FenceDone, EndBoot, Recovered, Finish
  <1> QED BY <1>2, <1>4, <1>5 DEF Next, Restart, RestartFails, Crash, vars

\* The empty log.
LEMMA EffectsOwnedInit == Init => EffectsOwned
  <1>1. Init => DOMAIN log = {}
    BY DEF Init
  <1> QED BY <1>1 DEF EffectsOwned, NoEffectAcrossRestart, EffectTokensIdentifyGrants

\* The invariant carried to the effect log.
LEMMA EffectsInvariant == Spec => []EffectsOwned
  BY RestartInvariant, EffectsOwnedInit, EffectsOwnedStep, PTL DEF Spec

\* PERSISTENCE IS NOT LIVENESS: an effect is admitted only in the boot that
\* issued its grant.
THEOREM SameBoot == Spec => []NoEffectAcrossRestart
  <1>1. EffectsOwned => NoEffectAcrossRestart
    BY DEF EffectsOwned
  <1> QED BY <1>1, EffectsInvariant, PTL

\* A token that mutated the fabric belongs to one grant for ever.
THEOREM TokensIdentify == Spec => []EffectTokensIdentifyGrants
  <1>1. EffectsOwned => EffectTokensIdentifyGrants
    BY DEF EffectsOwned
  <1> QED BY <1>1, EffectsInvariant, PTL

-----------------------------------------------------------------------------
(* The registry implements Authority. *)

\* The credentials of the effects, in durable order: Authority's effects.
EffectCreds == [i \in DOMAIN log |-> log[i].cred]

\* open_grant() makes room at the expense of grants that are no longer open.
LEMMA OpenKeepsOpen ==
  ASSUME NEW s \in RegistryState, NEW r \in Record, r.kind = "GrantOpen", CanApply(s, r)
  PROVE  OpenGrants(s) \subseteq OpenGrants(Apply(s, r))
  <1>1. Apply(s, r).grants = Retained(s) \cup {r.grant}
    BY ApplyNamed
  <1>2. OpenGrants(s) \subseteq Retained(s)
    <2>1. CASE Cardinality(s.grants) < MaxLineageEntries
      BY <2>1 DEF Retained, OpenGrants
    <2>2. CASE ~(Cardinality(s.grants) < MaxLineageEntries)
      <3> DEFINE G == s.grants \ OpenGrants(s)
      <3>1. G # {} /\ G \in SUBSET Grant
        BY <2>2 DEF CanApply, CanOpenGrant, OpenGrants, RegistryState
      <3>2. Oldest(G) \in G
        BY <3>1, OldestInSet
      <3>3. Retained(s) = s.grants \ {Oldest(G)}
        BY <2>2 DEF Retained
      <3> QED BY <3>2, <3>3 DEF OpenGrants
    <2> QED BY <2>1, <2>2
  <1> QED BY <1>1, <1>2 DEF OpenGrants

\* A record either opens the target or opens nothing.
LEMMA EmitInForce ==
  ASSUME TypeInv, MutexInv', RestartInv, Emitting
  PROVE  \/ InForce' \subseteq InForce /\ EffectCreds' = EffectCreds
         \/ /\ InForce \subseteq InForce' /\ Disjoint(InForce') /\ EffectCreds' = EffectCreds
            /\ \A g \in InForce' \ InForce, i \in DOMAIN EffectCreds : EffectCreds[i].token < g.token
  <1>0. mem \in RegistryState /\ HandlerShape
    BY Types DEF RestartInv
  <1>1. PICK r \in Record, next \in Operation :
          /\ Moves(r, next)
          /\ Applied(r, next) \/ Declined(r)
          /\ UNCHANGED <<phase, sessions, issued, log, floor>>
    BY EmittingMoves
  <1>2. EffectCreds' = EffectCreds
    BY <1>1 DEF EffectCreds
  <1>3. CASE phase # "ready"
    BY <1>1, <1>2, <1>3 DEF InForce
  <1>4. CASE phase = "ready"
    <2>1. InForce = OpenGrants(mem) /\ InForce' = OpenGrants(mem')
      BY <1>1, <1>4 DEF InForce
    <2>2. \A g \in OpenGrants(mem') \ OpenGrants(mem) :
            op.pc = "open" /\ r.kind = "GrantOpen" /\ g = op.target
      BY <1>0, <1>1, <1>4, EmitReady
    <2>3. CASE OpenGrants(mem') \subseteq OpenGrants(mem)
      BY <1>2, <2>1, <2>3
    <2>4. CASE ~(OpenGrants(mem') \subseteq OpenGrants(mem))
      <3>1. op.pc = "open" /\ r.kind = "GrantOpen"
        BY <2>2, <2>4
      <3>2. Applied(r, next)
        BY <1>1, <2>4 DEF Declined, OpenGrants
      <3>3. OpenGrants(mem) \subseteq OpenGrants(mem')
        <4>1. OpenGrants(mem) \subseteq OpenGrants(Apply(mem, r))
          BY <1>0, <3>1, <3>2, OpenKeepsOpen DEF Applied
        <4> QED BY <3>2, <4>1 DEF Applied, OpenGrants
      <3>4. \A i \in DOMAIN log : log[i].cred.token < op.target.token
        BY <3>1 DEF RestartInv, TargetInv
      <3>5. \A g \in InForce' \ InForce, i \in DOMAIN EffectCreds : EffectCreds[i].token < g.token
        BY <2>1, <2>2, <3>4 DEF EffectCreds
      <3>6. Disjoint(InForce')
        BY <2>1 DEF MutexInv, OpenGrantsDisjoint
      <3> QED BY <1>2, <2>1, <3>3, <3>5, <3>6
    <2> QED BY <2>3, <2>4
  <1> QED BY <1>3, <1>4

\* A commit appends the credential of a grant in force.
LEMMA CommitActs ==
  ASSUME TypeInv, RestartInv, NEW c \in issued, Commit(c)
  PROVE  c \in InForce /\ InForce' = InForce /\ EffectCreds' = Append(EffectCreds, c)
  <1>1. /\ c \in OpenGrants(mem) /\ phase = "ready" /\ UNCHANGED <<phase, mem>>
    BY CommitIsHolders, CommitEffect DEF RestartInv
  <1>2. c \in InForce /\ InForce' = InForce
    BY <1>1 DEF InForce
  <1>3. log \in Seq(Effect) /\ log' = Append(log, [cred |-> c, boot |-> mem.boot])
    BY DEF TypeInv, TypeOK, Commit
  <1>4. /\ EffectCreds \in Seq(Grant) /\ Len(EffectCreds) = Len(log)
        /\ \A i \in 1..Len(log) : EffectCreds[i] = log[i].cred
    <2>1. \A i \in DOMAIN log : log[i].cred \in Grant
      BY Types
    <2>2. DOMAIN log = 1..Len(log) /\ Len(log) \in Nat
      BY <1>3
    <2>3. EffectCreds = [i \in 1..Len(log) |-> log[i].cred]
      BY <2>2 DEF EffectCreds
    <2> QED BY <2>1, <2>2, <2>3
  <1>5. EffectCreds' = [i \in 1..(Len(log) + 1) |-> log'[i].cred]
    <2>1. DOMAIN log' = 1..(Len(log) + 1)
      BY <1>3
    <2> QED BY <2>1 DEF EffectCreds
  <1>6. \A i \in 1..(Len(log) + 1) :
          log'[i].cred = IF i = Len(log) + 1 THEN c ELSE EffectCreds[i]
    BY <1>3, <1>4
  <1>7. Append(EffectCreds, c) = [i \in 1..(Len(log) + 1) |->
                                    IF i = Len(log) + 1 THEN c ELSE EffectCreds[i]]
    <2> DEFINE A == Append(EffectCreds, c)
    <2>1. c \in Grant /\ Len(log) \in Nat
      BY <1>3, Types
    <2>2. A \in Seq(Grant) /\ Len(A) = Len(log) + 1
      BY <1>4, <2>1
    <2>3. \A i \in 1..(Len(log) + 1) : A[i] = IF i = Len(log) + 1 THEN c ELSE EffectCreds[i]
      BY <1>4, <2>1
    <2> HIDE DEF A
    <2>4. A = [i \in 1..(Len(log) + 1) |-> A[i]]
      BY <2>2
    <2>5. A = [i \in 1..(Len(log) + 1) |-> IF i = Len(log) + 1 THEN c ELSE EffectCreds[i]]
      BY <2>3, <2>4
    <2> QED BY <2>5 DEF A
  <1> QED BY <1>2, <1>5, <1>6, <1>7

\* Every step of the registry is one of Authority's or leaves its state alone.
LEMMA RefinesStep ==
  ASSUME TypeInv, MutexInv', RestartInv, [Next]_vars
  PROVE  [Promised!Change]_(Promised!Promise)
  <1>a. ASSUME InForce' \subseteq InForce, EffectCreds' = EffectCreds
        PROVE  Promised!Change
    BY <1>a DEF Promised!Change, Promised!Retire, EffectCreds
  <1>q. ASSUME UNCHANGED <<phase, mem, log>> PROVE Promised!Change
    BY <1>a, <1>q DEF InForce, EffectCreds
  <1>1. CASE Emitting
    <2>1. CASE /\ InForce \subseteq InForce' /\ Disjoint(InForce') /\ EffectCreds' = EffectCreds
               /\ \A g \in InForce' \ InForce, i \in DOMAIN EffectCreds : EffectCreds[i].token < g.token
      BY <2>1 DEF Promised!Change, Promised!Acquire, Promised!Exclusive, Disjoint, EffectCreds
    <2> QED BY <1>1, <1>a, <2>1, EmitInForce
  <1>2. ASSUME NEW c \in issued, Commit(c) PROVE Promised!Change
    BY <1>2, CommitActs DEF Promised!Change, Promised!Act, EffectCreds
  <1>3. CASE Recovered
    <2>1. InForce' = {} /\ log' = log
      BY <1>3 DEF Recovered, GoDown, RestartInv, BootInv, RecoveryDone, Recovering, InForce
    <2> QED BY <1>a, <2>1 DEF EffectCreds
  <1>4. CASE Restart \/ Crash
    <2>1. InForce' = {} /\ log' = log
      BY <1>4 DEF Restart, Crash, GoDown, InForce
    <2> QED BY <1>a, <2>1 DEF EffectCreds
  <1>5. CASE Requests
    BY <1>1, <1>2, <1>q, <1>5 DEF Requests, Emitting, Disconnect, Allocate, Fence, Release,
                                  Observe, Refuse, vars
  <1>6. CASE HandlerStep
    BY <1>1, <1>3, <1>q, <1>6 DEF HandlerStep, Emitting, FenceDone, EndBoot, Finish
  <1> QED BY <1>q, <1>4, <1>5, <1>6 DEF Next, RestartFails, vars

\* Authority is given over extents nobody holds and above every earlier effect,
\* and only a grant in force acts: the registry, with its crashes, failed appends
\* and recoveries, implements the abstract specification of the fabric.
THEOREM Implements == Spec => ImplementsAuthority
  <1>1. Init => Promised!Initially
    <2> SUFFICES ASSUME Init PROVE Promised!Initially
      OBVIOUS
    <2>1. InForce = {}
      BY DEF Init, InForce
    <2>2. [i \in DOMAIN log |-> log[i].cred] = <<>>
      BY DEF Init
    <2> QED BY <2>1, <2>2 DEF Promised!Initially
  <1>2. TypeInv /\ MutexInv' /\ RestartInv /\ [Next]_vars => [Promised!Change]_(Promised!Promise)
    BY RefinesStep
  <1> QED BY <1>1, <1>2, RestartInvariant, PTL DEF Spec, ImplementsAuthority, Promised!AuthoritySpec

-----------------------------------------------------------------------------
(* No resurrection. *)

\* The table of fenced incarnations is not full: a full one drops new entries.
FencedTableHasRoom == Cardinality(mem.fencedInc) < MaxFenceRecords

\* The incarnation a handler allocates for was never fenced, and the registry
\* remembers every incarnation of this boot that was.
ResurrectionInv ==
  /\ op.handler = "allocate" => op.req.inc \notin deposed
  /\ Booted => \A i \in deposed : i > mem.boot => i \in mem.fencedInc

\* A fence enters its incarnation while there is room, and no record removes one.
LEMMA FencedGrows ==
  ASSUME NEW s \in RegistryState, NEW r \in Record
  PROVE  /\ s.fencedInc \subseteq Apply(s, r).fencedInc
         /\ r.kind = "Fence" /\ r.inc # 0 /\ Cardinality(s.fencedInc) < MaxFenceRecords
              => r.inc \in Apply(s, r).fencedInc
  <1>1. CASE r.kind = "Fence"
    <2>1. Apply(s, r).fencedInc =
            IF r.inc # 0 THEN AddBounded(s.fencedInc, r.inc) ELSE s.fencedInc
      BY <1>1 DEF Apply, ApplyFence, RegistryState
    <2> QED BY <2>1 DEF AddBounded
  <1>2. CASE r.kind # "Fence"
    BY <1>2, ApplyFields
  <1> QED BY <1>1, <1>2

\* Every step keeps the memory of fenced incarnations.
LEMMA ResurrectionStep ==
  ASSUME TypeInv, RestartInv, ResurrectionInv, FencedTableHasRoom, [Next]_vars
  PROVE  ResurrectionInv'
  <1>0. /\ mem \in RegistryState /\ op \in Operation
        /\ mem.inc \in Nat /\ mem.boot \in Nat /\ disk.inc \in Nat
        /\ \A i \in sessions \cup deposed : i \in Nat
        /\ HandlerShape /\ IncarnationInv /\ BootInv
    BY Types DEF RestartInv
  <1>q. ASSUME UNCHANGED <<phase, mem, deposed>>, op'.handler \notin {"allocate", "recover"},
               phase = "ready"
        PROVE  ResurrectionInv'
    BY <1>q DEF ResurrectionInv, Booted, RecoveryDone, Recovering
  <1>d. ASSUME GoDown PROVE ResurrectionInv'
    BY <1>d, FreeFields DEF GoDown, ResurrectionInv, Booted, RecoveryDone, Recovering
  <1>1. CASE Emitting
    <2>1. PICK r \in Record, next \in Operation :
            /\ Moves(r, next)
            /\ Applied(r, next) \/ Declined(r)
            /\ UNCHANGED <<phase, sessions, issued, log, floor>>
      BY <1>1, EmittingMoves
    <2>2. op'.handler = "allocate" => op'.req.inc \notin deposed'
      <3> SUFFICES ASSUME op'.handler = "allocate" PROVE op'.req.inc \notin deposed'
        OBVIOUS
      <3>1. op.handler = "allocate" /\ op'.req = op.req
        BY <2>1 DEF Moves, Continues, Applied, Declined
      <3>2. deposed' = deposed \/ (Depose(r) /\ r.inc = FencedIncarnation(next.target))
        BY <2>1, <3>1 DEF Moves
      <3>3. \A i \in deposed' : i \in deposed \/ i # op.req.inc
        BY <3>1, <3>2 DEF Depose, FencedIncarnation
      <3> QED BY <3>1, <3>3 DEF ResurrectionInv
    <2>3. CASE phase = "ready"
      <3>1. mem'.boot = mem.boot /\ phase' = "ready"
        BY <1>0, <2>1, <2>3, EmitReady
      <3>2. mem.fencedInc \subseteq mem'.fencedInc
        BY <1>0, <2>1, FencedGrows DEF Applied, Declined
      <3>3. \A i \in deposed' : i \in deposed \/ i \in mem'.fencedInc
        <4>1. CASE Declined(r)
          BY <2>1, <4>1 DEF Moves, Depose, Declined
        <4>2. CASE Applied(r, next)
          <5>1. mem'.fencedInc = Apply(mem, r).fencedInc
            BY <4>2 DEF Applied
          <5>2. deposed' = deposed \/ (r.kind = "Fence" /\ Depose(r))
            BY <2>1 DEF Moves
          <5> QED BY <1>0, <5>1, <5>2, FencedGrows DEF Depose, FencedTableHasRoom
        <4> QED BY <2>1, <4>1, <4>2
      <3>4. \A i \in deposed : i > mem.boot => i \in mem.fencedInc
        BY <2>3 DEF ResurrectionInv, Booted
      <3> QED BY <2>2, <3>1, <3>2, <3>3, <3>4 DEF ResurrectionInv
    <2>4. CASE phase = "recovering"
      <3>0. op.handler = "recover" /\ phase' = "recovering" /\ phase # "down"
        BY <1>0, <2>1, <2>4 DEF HandlerShape
      <3>1. RecoveryDone' => mem'.boot = mem.inc + 1 /\ deposed' = deposed
        <4> SUFFICES ASSUME RecoveryDone' PROVE mem'.boot = mem.inc + 1 /\ deposed' = deposed
          OBVIOUS
        <4>1. Applied(r, next) /\ next.pc = "finish"
          BY <2>1 DEF RecoveryDone, Recovering, Applied, Declined
        <4>2. r.kind = "BootBegin" /\ r.inc = mem.inc + 1 /\ deposed' = deposed
          BY <1>0, <2>1, <2>4, <3>0, <4>1 DEF Moves, CanServe, AfterFence, HandlerShape
        <4> QED BY <1>0, <4>1, <4>2, ApplyNamed DEF Applied
      <3>2. \A i \in deposed : i =< mem.inc
        BY <1>0, <3>0 DEF IncarnationInv
      <3>3. Booted' => \A i \in deposed' : i > mem'.boot => i \in mem'.fencedInc
        BY <1>0, <3>0, <3>1, <3>2 DEF Booted
      <3> QED BY <2>2, <3>3 DEF ResurrectionInv
    <2> QED BY <1>0, <1>1, <2>3, <2>4, EmittingUp DEF TypeInv, TypeOK
  <1>2. ASSUME NEW i \in sessions, Disconnect(i) PROVE ResurrectionInv'
    BY <1>2, <1>q, FreeFields DEF Disconnect, CanServe
  <1>3. ASSUME NEW i \in sessions, NEW d \in Domains, NEW a \in Attempts, Allocate(i, d, a)
        PROVE  ResurrectionInv'
    <2>1. /\ phase = "ready" /\ mem.boot < i /\ i \notin mem.fencedInc
          /\ op'.handler = "allocate" /\ op'.req.inc = i /\ UNCHANGED <<phase, mem, deposed>>
      BY <1>3, AllocateEffect
    <2>2. i \notin deposed
      BY <1>0, <2>1 DEF ResurrectionInv, Booted
    <2> QED BY <2>1, <2>2 DEF ResurrectionInv, Booted
  <1>4. ASSUME NEW d \in Domains, NEW epoch, NEW i, Fence(d, epoch, i) PROVE ResurrectionInv'
    BY <1>4, <1>q, FenceEffect
  <1>5. ASSUME NEW c \in issued, Release(c) \/ Commit(c) PROVE ResurrectionInv'
    BY <1>5, <1>q, ReleaseEffect, CommitEffect
  <1>7. CASE FenceDone
    <2>1. op'.handler = "fence" /\ op.handler = "fence" /\ UNCHANGED <<phase, mem, deposed>>
      BY <1>0, <1>7 DEF FenceDone, Operation
    <2> QED BY <1>q, <2>1, <1>0, ServingIsReady
  <1>8. CASE EndBoot /\ mem.openBoots = {}
    <2>1. op'.pc = "scan" /\ op'.handler = "recover" /\ phase' = "recovering"
      BY <1>0, <1>8 DEF EndBoot, Operation, HandlerShape
    <2> QED BY <2>1 DEF ResurrectionInv, Booted, RecoveryDone, Recovering
  <1>9. CASE Recovered
    BY <1>9, <1>d, FreeFields
       DEF Recovered, ResurrectionInv, Booted, RecoveryDone, Recovering
  <1>10. CASE Finish
    <2>1. phase = "ready"
      BY <1>0, <1>10, ServingIsReady DEF Finish
    <2> QED BY <1>10, <1>q, <2>1, FreeFields DEF Finish
  <1>11. CASE Restart
    BY <1>11 DEF Restart, Begin, Free, ResurrectionInv, Booted, RecoveryDone, Recovering
  <1>12. CASE Crash
    BY <1>12, <1>d DEF Crash
  <1>13. CASE Observe \/ RestartFails \/ UNCHANGED vars
    BY <1>13 DEF Observe, RestartFails, vars, ResurrectionInv, Booted, RecoveryDone, Recovering
  <1>14. CASE Refuse
    BY <1>14, <1>q, FreeFields DEF Refuse, CanServe
  <1> QED BY <1>1, <1>2, <1>3, <1>4, <1>5, <1>7, <1>8, <1>9, <1>10, <1>11, <1>12, <1>13, <1>14
          DEF Next, Requests, HandlerStep, Emitting

\* The grants a step of a ready registry opens or acknowledges.
NewlyGranted == (OpenGrants(mem') \ mem.grants) \cup (issued' \ issued)

\* They are grants of the incarnation the handler allocates for.
LEMMA NewlyGrantedTarget ==
  ASSUME TypeInv, RestartInv, [Next]_vars, phase = "ready", NEW g \in NewlyGranted
  PROVE  op.handler = "allocate" /\ g.inc = op.req.inc
  <1>0. HandlerShape /\ TargetInv
    BY DEF RestartInv
  <1>1. CASE Emitting
    <2>1. PICK r \in Record, next \in Operation :
            /\ Moves(r, next)
            /\ Applied(r, next) \/ Declined(r)
            /\ UNCHANGED <<phase, sessions, issued, log, floor>>
      BY <1>1, EmittingMoves
    <2>2. g \in OpenGrants(mem') \ OpenGrants(mem)
      BY <2>1 DEF NewlyGranted, OpenGrants
    <2>3. op.pc = "open" /\ g = op.target
      BY <1>0, <2>1, <2>2, EmitReady
    <2> QED BY <1>0, <2>3 DEF HandlerShape, TargetInv
  <1>2. CASE Finish
    <2>1. g = op.target /\ op.handler = "allocate" /\ op.result = "ok" /\ op.pc = "finish"
      BY <1>2 DEF Finish, NewlyGranted, OpenGrants
    <2> QED BY <1>0, <2>1 DEF TargetInv
  <1>3. CASE UNCHANGED <<mem, issued>>
    BY <1>3 DEF NewlyGranted, OpenGrants
  <1>4. CASE mem' = Blank /\ issued' = issued
    BY <1>4 DEF NewlyGranted, OpenGrants, Blank
  <1>5. CASE Requests
    BY <1>1, <1>3, <1>5 DEF Requests, Emitting, Disconnect, Allocate, Fence, Release, Commit,
                            Observe, Refuse, vars
  <1>6. CASE HandlerStep
    BY <1>0, <1>1, <1>2, <1>3, <1>6 DEF HandlerStep, Emitting, FenceDone, EndBoot, Recovered,
                                        HandlerShape
  <1> QED BY <1>3, <1>4, <1>5, <1>6 DEF Next, Restart, RestartFails, Crash, GoDown, vars

\* NO RESURRECTION: while the table of fenced incarnations has room, no grant is
\* opened for or acknowledged to an incarnation that was fenced.
THEOREM NotResurrected == Spec /\ []FencedTableHasRoom => NoResurrection
  <1>1. Init => ResurrectionInv
    BY FreeFields DEF Init, ResurrectionInv, Booted, RecoveryDone, Recovering
  <1>2. TypeInv /\ RestartInv /\ ResurrectionInv /\ FencedTableHasRoom /\ [Next]_vars
          => ResurrectionInv'
    BY ResurrectionStep
  <1>3. TypeInv /\ RestartInv /\ ResurrectionInv /\ [Next]_vars
          => [phase = "ready" =>
                \A g \in (OpenGrants(mem') \ mem.grants) \cup (issued' \ issued) :
                  g.inc \notin deposed]_vars
    BY NewlyGrantedTarget DEF ResurrectionInv, NewlyGranted
  <1> QED BY <1>1, <1>2, <1>3, RestartInvariant, PTL DEF Spec, NoResurrection

-----------------------------------------------------------------------------
(* No stale effect. *)

\* Every record so far was accepted by the tables and reached the journal.
InStep == ~mem.ahead

\* No acknowledged grant outranks the journal's token counter, the one about to
\* be opened, or an open grant it shares an extent with.
StaleInv ==
  /\ \A c \in issued : c.token =< disk.tok
  /\ phase # "down" => disk.tok =< mem.tok
  /\ op.pc = "open" => \A c \in issued : c.token < op.target.token
  /\ phase = "ready" => \A g \in OpenGrants(mem), c \in issued :
       c.scope \cap g.scope # {} => c.token =< g.token

\* A record moves the token counters of two states in the same direction.
LEMMA ApplyTokens ==
  ASSUME NEW s \in RegistryState, NEW u \in RegistryState, s.tok =< u.tok, NEW r \in Record
  PROVE  Apply(s, r).tok =< Apply(u, r).tok
  <1>0. s.tok \in Nat /\ u.tok \in Nat
    BY DEF RegistryState
  <1>1. CASE r \in OpenRecord
    <2>1. /\ Apply(s, r).tok = Raise(s.tok, r.grant.token)
          /\ Apply(u, r).tok = Raise(u.tok, r.grant.token)
      BY <1>1 DEF OpenRecord, Apply, ApplyGrantOpen, RegistryState
    <2>2. r.grant.token \in Nat
      BY <1>1 DEF OpenRecord, Grant
    <2> QED BY <1>0, <2>1, <2>2 DEF Raise
  <1>2. CASE r \in FenceRecords
    <2>1. /\ Apply(s, r).tok = Raise(s.tok, r.token)
          /\ Apply(u, r).tok = Raise(u.tok, r.token)
      BY <1>2 DEF FenceRecords, Apply, ApplyFence, RegistryState
    <2>2. r.token \in Nat
      BY <1>2 DEF FenceRecords
    <2> QED BY <1>0, <2>1, <2>2 DEF Raise
  <1>3. CASE r \in AdoptRecord
    <2>1. /\ Apply(s, r).tok = Raise(s.tok, r.token)
          /\ Apply(u, r).tok = Raise(u.tok, r.token)
      BY <1>3 DEF AdoptRecord, Apply, ApplyAdopt, RegistryState
    <2>2. r.token \in Nat
      BY <1>3 DEF AdoptRecord
    <2> QED BY <1>0, <2>1, <2>2 DEF Raise
  <1>4. CASE r \notin OpenRecord \cup FenceRecords \cup AdoptRecord
    <2>1. ASSUME NEW v \in RegistryState PROVE Apply(v, r).tok = v.tok
      <3>1. CASE r \in BootRecord
        BY <3>1 DEF BootRecord, Apply, RegistryState
      <3>2. CASE r \in DomainRecord \cup MarkRecord \cup EffectRecord
        BY <3>2 DEF DomainRecord, MarkRecord, EffectRecord, Apply, RegistryState
      <3>3. CASE r \in CloseRecord
        BY <3>3 DEF CloseRecord, Apply, ApplyGrantClose, RegistryState
      <3> QED BY <1>4, <3>1, <3>2, <3>3 DEF Record
    <2> QED BY <2>1
  <1> QED BY <1>1, <1>2, <1>3, <1>4

\* While memory and journal are in step, every step keeps acknowledged grants
\* below what may still be admitted.
LEMMA StaleStep ==
  ASSUME TypeInv, TypeInv', MutexInv, RestartInv, StaleInv, InStep, InStep', [Next]_vars
  PROVE  StaleInv'
  <1>0. /\ mem \in RegistryState /\ disk \in RegistryState /\ op \in Operation
        /\ mem.tok \in Nat /\ disk.tok \in Nat /\ disk'.tok \in Nat /\ mem'.tok \in Nat
        /\ \A c \in issued \cup issued' : c.token \in Nat
        /\ HandlerShape /\ TargetInv /\ BootInv /\ EffectInv
    <2>1. disk' \in RegistryState /\ mem' \in RegistryState /\ issued' \subseteq Grant
      BY DEF TypeInv, TypeOK
    <2> QED BY <2>1, Types DEF RestartInv, RegistryState, Grant
  <1>q. ASSUME UNCHANGED <<phase, mem, disk, issued>>, op'.pc # "open" PROVE StaleInv'
    BY <1>q DEF StaleInv
  <1>d. ASSUME GoDown, UNCHANGED <<disk, issued>> PROVE StaleInv'
    BY <1>d, FreeFields DEF GoDown, StaleInv
  <1>c. ASSUME Checkpoint, phase # "down"
        PROVE  disk.tok =< disk'.tok /\ disk'.tok =< mem.tok
    BY <1>0, <1>c, CheckpointEffect DEF StaleInv
  <1>1. CASE Emitting
    <2>0. phase # "down"
      BY <1>0, <1>1, EmittingUp
    <2>1. PICK r \in Record, next \in Operation :
            /\ Moves(r, next)
            /\ Applied(r, next) \/ Declined(r)
            /\ UNCHANGED <<phase, sessions, issued, log, floor>>
      BY <1>1, EmittingMoves
    <2>2. /\ Applied(r, next) /\ disk' = Apply(disk, r) /\ mem'.tok = Apply(mem, r).tok
      BY <2>1 DEF InStep, Applied, Declined
    <2>3. disk.tok =< disk'.tok /\ disk'.tok =< mem'.tok
      BY <1>0, <2>0, <2>2, ApplyFields, ApplyTokens DEF StaleInv
    <2>4. \A c \in issued' : c.token =< disk'.tok
      BY <1>0, <2>1, <2>3 DEF StaleInv
    <2>5. op'.pc = "open" => \A c \in issued' : c.token < op'.target.token
      <3> SUFFICES ASSUME op'.pc = "open" PROVE \A c \in issued' : c.token < op'.target.token
        OBVIOUS
      <3>1. op.handler = "allocate" /\ op'.target = NewGrant
        BY <2>1, <2>2 DEF Moves, Continues, Applied, AfterFence
      <3>2. op'.target.token = mem.tok + 1
        BY <1>0, <3>1, NewGrantFresh
      <3> QED BY <1>0, <2>0, <2>1, <3>2 DEF StaleInv
    <2>6. ASSUME phase' = "ready", NEW g \in OpenGrants(mem'), NEW c \in issued',
                 c.scope \cap g.scope # {}
          PROVE  c.token =< g.token
      <3>1. g \in OpenGrants(mem) \/ (op.pc = "open" /\ g = op.target)
        BY <1>0, <2>1, <2>6, EmitReady
      <3>2. g.token \in Nat
        BY <3>1, Types DEF OpenGrants, Grant
      <3> QED BY <1>0, <2>1, <2>6, <3>1, <3>2 DEF StaleInv
    <2> QED BY <2>3, <2>4, <2>5, <2>6 DEF StaleInv
  <1>2. CASE Finish
    <2>0. phase = "ready" /\ Checkpoint /\ op' = Free /\ UNCHANGED <<phase, mem>>
      BY <1>0, <1>2, ServingIsReady DEF Finish
    <2>1. ASSUME NEW c \in issued'
          PROVE  \/ c \in issued
                 \/ c \in OpenGrants(mem) /\ c.token =< disk.tok
      <3>1. c \in issued \/ c \in OpenGrants(mem)
        BY <1>0, <1>2 DEF Finish, TargetInv
      <3>2. c \in OpenGrants(mem) => c.token =< disk.tok
        BY <2>0 DEF MutexInv, LineageOnDisk, InStep, TypeInv, Sound, Dominated, OpenGrants
      <3> QED BY <3>1, <3>2
    <2>2. \A c \in issued' : c.token =< disk'.tok
      BY <1>0, <1>c, <2>0, <2>1 DEF StaleInv
    <2>3. ASSUME NEW g \in OpenGrants(mem), NEW c \in issued', c.scope \cap g.scope # {}
          PROVE  c.token =< g.token
      <3>1. CASE c \in issued
        BY <2>0, <2>3, <3>1 DEF StaleInv
      <3>2. CASE c \in OpenGrants(mem)
        BY <1>0, <2>3, <3>2 DEF MutexInv, OpenGrantsDisjoint, Disjoint
      <3> QED BY <2>1, <3>1, <3>2
    <2> QED BY <1>c, <2>0, <2>2, <2>3, FreeFields DEF StaleInv
  <1>3. CASE Recovered
    <2>1. CASE op.result = "ok" /\ phase' = "ready" /\ op' = Free /\ Checkpoint /\ mem' = mem
      <3>1. OpenGrants(mem) = {} /\ phase # "down" /\ issued' = issued
        BY <1>0, <1>3, <2>1, FreeFields
           DEF Recovered, BootInv, RecoveryDone, Recovering, HandlerShape
      <3>2. \A c \in issued' : c.token =< disk'.tok
        BY <1>0, <1>c, <2>1, <3>1 DEF StaleInv
      <3> QED BY <1>c, <2>1, <3>1, <3>2, FreeFields DEF StaleInv
    <2>2. CASE GoDown /\ disk' = disk
      BY <1>3, <1>d, <2>2 DEF Recovered
    <2> QED BY <1>3, <2>1, <2>2 DEF Recovered
  <1>4. CASE Restart
    <2>1. /\ UNCHANGED <<disk, issued>> /\ disk.tok =< mem'.tok /\ phase' = "recovering"
          /\ op'.pc = "boots"
      BY <1>4, RebuildEffect DEF Restart, Begin, Free
    <2> QED BY <2>1 DEF StaleInv
  <1>5. CASE Refuse
    <2>1. /\ phase = "ready" /\ Checkpoint /\ op' = Free /\ UNCHANGED <<phase, mem, issued>>
      BY <1>5 DEF Refuse, CanServe
    <2>2. \A c \in issued' : c.token =< disk'.tok
      BY <1>0, <1>c, <2>1 DEF StaleInv
    <2> QED BY <1>c, <2>1, <2>2, FreeFields DEF StaleInv
  <1>6. ASSUME NEW i \in sessions, Disconnect(i) PROVE StaleInv'
    BY <1>6, <1>q, FreeFields DEF Disconnect, CanServe
  <1>7. ASSUME NEW i \in sessions, NEW d \in Domains, NEW a \in Attempts, Allocate(i, d, a)
        PROVE  StaleInv'
    BY <1>7, <1>q, AllocateEffect
  <1>8. ASSUME NEW d \in Domains, NEW epoch, NEW i, Fence(d, epoch, i) PROVE StaleInv'
    BY <1>8, <1>q, FenceEffect
  <1>9. ASSUME NEW c \in issued, Release(c) \/ Commit(c) PROVE StaleInv'
    BY <1>9, <1>q, ReleaseEffect, CommitEffect
  <1>10. CASE FenceDone \/ (EndBoot /\ mem.openBoots = {})
    <2>1. op'.pc # "open" /\ UNCHANGED <<phase, mem, disk, issued>>
      BY <1>0, <1>10 DEF FenceDone, EndBoot, Operation
    <2> QED BY <1>q, <2>1
  <1>11. CASE Crash
    BY <1>11, <1>d DEF Crash
  <1>12. CASE Observe \/ RestartFails \/ UNCHANGED vars
    BY <1>12 DEF Observe, RestartFails, vars, StaleInv
  <1> QED BY <1>1, <1>2, <1>3, <1>4, <1>5, <1>6, <1>7, <1>8, <1>9, <1>10, <1>11, <1>12
          DEF Next, Requests, HandlerStep, Emitting

\* Only a commit adds an effect, and it adds one, of the credential it admits.
LEMMA NewEffects ==
  ASSUME TypeInv, [Next]_vars, NEW i \in DOMAIN log' \ DOMAIN log
  PROVE  \E c \in issued : Commit(c) /\ log'[i].cred = c
  <1>1. ASSUME NEW c \in issued, Commit(c)
        PROVE  log'[i].cred = c
    <2>1. i = Len(log) + 1 /\ log'[Len(log) + 1] = [cred |-> c, boot |-> mem.boot]
      BY <1>1, CommitLog
    <2> QED BY <2>1
  <1>2. CASE log' = log
    BY <1>2
  <1>3. CASE Emitting
    BY <1>2, <1>3, EmittingMoves
  <1>4. CASE Requests
    BY <1>1, <1>2, <1>3, <1>4 DEF Requests, Emitting, Disconnect, Allocate, Fence, Release,
                                  Observe, Refuse, vars
  <1>5. CASE HandlerStep
    BY <1>2, <1>3, <1>5 DEF HandlerStep, Emitting, FenceDone, EndBoot, Recovered, Finish
  <1> QED BY <1>2, <1>4, <1>5 DEF Next, Restart, RestartFails, Crash, vars

\* MUTEX at the effect boundary: while memory and journal are in step, no effect
\* is admitted below a grant that was acknowledged for one of its extents, in
\* this boot or an earlier one.
THEOREM NotStale == Spec /\ []InStep => NoStaleEffect
  <1>1. Init => StaleInv
    BY FreeFields DEF Init, StaleInv
  <1>2. TypeInv /\ TypeInv' /\ MutexInv /\ RestartInv /\ StaleInv /\ InStep /\ InStep'
          /\ [Next]_vars => StaleInv'
    BY StaleStep
  <1>3. TypeInv /\ RestartInv /\ StaleInv /\ [Next]_vars
          => [\A i \in DOMAIN log' \ DOMAIN log, c \in issued :
                c.scope \cap log'[i].cred.scope # {} => c.token =< log'[i].cred.token]_vars
    <2> SUFFICES ASSUME TypeInv, RestartInv, StaleInv, [Next]_vars,
                        NEW i \in DOMAIN log' \ DOMAIN log, NEW c \in issued,
                        c.scope \cap log'[i].cred.scope # {}
                 PROVE  c.token =< log'[i].cred.token
      OBVIOUS
    <2>1. PICK b \in issued : Commit(b) /\ log'[i].cred = b
      BY NewEffects
    <2>2. b \in OpenGrants(mem) /\ phase = "ready"
      BY <2>1, CommitIsHolders, CommitEffect DEF RestartInv
    <2> QED BY <2>1, <2>2 DEF StaleInv
  <1> QED BY <1>1, <1>2, <1>3, RestartInvariant, PTL DEF Spec, NoStaleEffect

-----------------------------------------------------------------------------
(* Monotone epochs. *)

\* The lineage has room for one more grant: a full one drops its oldest closed one.
LineageHasRoom == Cardinality(mem.grants) < MaxLineageEntries

\* The grant as it was when it was opened and handed out.
AsOpened(g) == [g EXCEPT !.state = "Open"]

\* Every acknowledged grant is in the journalled lineage, closed since or not.
IssuedInv == issued \subseteq {AsOpened(g) : g \in disk.grants}

\* No record loses a grant while the lineage has room.
LEMMA GrantKept ==
  ASSUME NEW s \in RegistryState, NEW r \in Record, Cardinality(s.grants) < MaxLineageEntries
  PROVE  {AsOpened(g) : g \in s.grants} \subseteq {AsOpened(g) : g \in Apply(s, r).grants}
  <1>1. CASE r.kind = "GrantOpen"
    BY <1>1, ApplyNamed DEF Retained
  <1>2. CASE r.kind = "GrantClose"
    <2> DEFINE c(h) == IF h.id = r.id /\ IsOpen(h) THEN [h EXCEPT !.state = r.state] ELSE h
    <2>1. Apply(s, r).grants = {c(h) : h \in s.grants}
      BY <1>2 DEF Apply, ApplyGrantClose, RegistryState
    <2>2. ASSUME NEW h \in s.grants PROVE AsOpened(c(h)) = AsOpened(h)
      BY DEF RegistryState, Grant, AsOpened
    <2> HIDE DEF c
    <2> QED BY <2>1, <2>2
  <1>3. CASE r.kind \notin {"GrantOpen", "GrantClose"}
    BY <1>3, ApplyFields
  <1> QED BY <1>1, <1>2, <1>3

\* While memory and journal are in step and the lineage has room, every step
\* keeps the acknowledged grants in the journal.
LEMMA IssuedStep ==
  ASSUME TypeInv, MutexInv, RestartInv, IssuedInv, InStep, InStep', LineageHasRoom, [Next]_vars
  PROVE  IssuedInv'
  <1>0. /\ mem \in RegistryState /\ disk \in RegistryState
        /\ HandlerShape /\ TargetInv
        /\ phase # "down" => disk.grants = mem.grants
    BY Types DEF RestartInv, MutexInv, LineageOnDisk, InStep
  <1>1. CASE Emitting
    <2>0. phase # "down"
      BY <1>0, <1>1, EmittingUp
    <2>1. PICK r \in Record, next \in Operation :
            /\ Moves(r, next)
            /\ Applied(r, next) \/ Declined(r)
            /\ UNCHANGED <<phase, sessions, issued, log, floor>>
      BY <1>1, EmittingMoves
    <2>2. disk' = Apply(disk, r)
      BY <2>1 DEF InStep, Applied, Declined
    <2> QED BY <1>0, <2>0, <2>1, <2>2, GrantKept DEF IssuedInv, LineageHasRoom
  <1>2. ASSUME Checkpoint, phase # "down" PROVE disk'.grants = disk.grants
    BY <1>0, <1>2, CheckpointEffect
  <1>3. CASE Finish
    <2>1. phase = "ready" /\ Checkpoint
      BY <1>0, <1>3, ServingIsReady DEF Finish
    <2>2. \A c \in issued' \ issued : c \in OpenGrants(mem)
      BY <1>0, <1>3 DEF Finish, TargetInv
    <2>3. \A c \in OpenGrants(mem) : c = AsOpened(c) /\ c \in disk.grants
      BY <1>0, <2>1 DEF OpenGrants, IsOpen, AsOpened, RegistryState, Grant
    <2> QED BY <1>2, <2>1, <2>2, <2>3 DEF IssuedInv
  <1>4. CASE UNCHANGED <<disk, issued>>
    BY <1>4 DEF IssuedInv
  <1>5. CASE Refuse
    BY <1>2, <1>5 DEF Refuse, CanServe, IssuedInv
  <1>6. CASE Recovered
    <2>1. phase # "down"
      BY <1>0, <1>6 DEF Recovered, HandlerShape
    <2> QED BY <1>2, <1>6, <2>1 DEF Recovered, IssuedInv
  <1>7. CASE Requests
    BY <1>1, <1>4, <1>5, <1>7 DEF Requests, Emitting, Disconnect, Allocate, Fence, Release, Commit,
                                  Observe, vars
  <1>8. CASE HandlerStep
    BY <1>1, <1>3, <1>4, <1>6, <1>8 DEF HandlerStep, Emitting, FenceDone, EndBoot
  <1> QED BY <1>4, <1>7, <1>8 DEF Next, Restart, RestartFails, Crash, vars

\* MONOTONE EPOCH: while memory and journal are in step and the lineage has room,
\* the grants acknowledged for a domain, over all boots, have different epochs in
\* the order of their tokens.
THEOREM Monotone == Spec /\ [](InStep /\ LineageHasRoom) => []EpochsMonotone
  <1>1. Init => IssuedInv
    BY DEF Init, IssuedInv
  <1>2. TypeInv /\ MutexInv /\ RestartInv /\ IssuedInv /\ InStep /\ InStep' /\ LineageHasRoom
          /\ [Next]_vars => IssuedInv'
    BY IssuedStep
  <1>3. TypeInv /\ RestartInv /\ IssuedInv => EpochsMonotone
    <2> SUFFICES ASSUME TypeInv, RestartInv, IssuedInv, NEW c \in issued, NEW b \in issued,
                        c.domain = b.domain, c # b
                 PROVE  (c.token < b.token <=> c.epoch < b.epoch) /\ c.epoch # b.epoch
      BY DEF EpochsMonotone
    <2>1. PICK g \in disk.grants : c = AsOpened(g)
      BY DEF IssuedInv
    <2>2. PICK h \in disk.grants : b = AsOpened(h)
      BY DEF IssuedInv
    <2>3. /\ c.token = g.token /\ c.epoch = g.epoch /\ c.domain = g.domain
          /\ b.token = h.token /\ b.epoch = h.epoch /\ b.domain = h.domain
      BY <2>1, <2>2, Types DEF AsOpened, Grant
    <2>4. Before(g, h) \/ Before(h, g)
      BY <2>1, <2>2 DEF RestartInv, LineageInv, Ordered
    <2>5. g.token \in Nat /\ g.epoch \in Nat /\ h.token \in Nat /\ h.epoch \in Nat
      BY Types
    <2>6. g.domain = h.domain
      BY <2>3
    <2>7. CASE Before(g, h)
      BY <2>3, <2>5, <2>6, <2>7 DEF Before
    <2>8. CASE Before(h, g)
      BY <2>3, <2>5, <2>6, <2>8 DEF Before
    <2> QED BY <2>4, <2>7, <2>8
  <1> QED BY <1>1, <1>2, <1>3, RestartInvariant, PTL DEF Spec

-----------------------------------------------------------------------------
(* Reconciliation. *)

\* No acknowledged grant has an id that the journal's counter has not passed or
\* that the grant about to be opened takes, and the grant that carries its id in
\* the lineage is the same one.
ReconcileInv ==
  /\ \A c \in issued : c.id =< disk.gid
  /\ phase # "down" => disk.gid =< mem.gid
  /\ op.pc = "open" => \A c \in issued : c.id < op.target.id
  /\ \A c \in issued, g \in mem.grants \cup disk.grants : g.id = c.id => Bindings(g) = Bindings(c)

\* A record moves the grant counters of two states in the same direction.
LEMMA ApplyGrantCounter ==
  ASSUME NEW s \in RegistryState, NEW u \in RegistryState, s.gid =< u.gid, NEW r \in Record
  PROVE  s.gid =< Apply(s, r).gid /\ Apply(s, r).gid =< Apply(u, r).gid
  <1>0. s.gid \in Nat /\ u.gid \in Nat
    BY DEF RegistryState
  <1>1. CASE r \in OpenRecord
    <2>1. /\ Apply(s, r).gid = Raise(s.gid, r.grant.id)
          /\ Apply(u, r).gid = Raise(u.gid, r.grant.id)
      BY <1>1 DEF OpenRecord, Apply, ApplyGrantOpen, RegistryState
    <2>2. r.grant.id \in Nat
      BY <1>1 DEF OpenRecord, Grant
    <2> QED BY <1>0, <2>1, <2>2 DEF Raise
  <1>2. ASSUME r \notin OpenRecord, NEW v \in RegistryState PROVE Apply(v, r).gid = v.gid
    <2>1. CASE r \in BootRecord
      BY <2>1 DEF BootRecord, Apply, RegistryState
    <2>2. CASE r \in DomainRecord \cup MarkRecord \cup EffectRecord
      BY <2>2 DEF DomainRecord, MarkRecord, EffectRecord, Apply, RegistryState
    <2>3. CASE r \in CloseRecord
      BY <2>3 DEF CloseRecord, Apply, ApplyGrantClose, RegistryState
    <2>4. CASE r \in FenceRecords
      BY <2>4 DEF FenceRecords, Apply, ApplyFence, RegistryState
    <2>5. CASE r \in AdoptRecord
      BY <2>5 DEF AdoptRecord, Apply, ApplyAdopt, RegistryState
    <2> QED BY <1>2, <2>1, <2>2, <2>3, <2>4, <2>5 DEF Record
  <1> QED BY <1>0, <1>1, <1>2

\* rebuild() resumes at or above the journal's grant counter.
LEMMA RebuildGrantCounter ==
  ASSUME TypeInv
  PROVE  disk.gid =< Rebuild(disk).gid
  <1> DEFINE T == {disk.gid} \cup {g.id : g \in disk.grants}
                    \cup {log[i].cred.id : i \in DOMAIN log}
  <1>1. /\ disk \in RegistryState /\ disk.gid \in Nat /\ Sound(disk)
        /\ \A i \in DOMAIN log : log[i].cred.id \in Nat
    <2>1. \A i \in DOMAIN log : log[i].cred \in Grant
      BY Types
    <2> QED BY <2>1, Types DEF TypeInv, Grant, RegistryState
  <1>2. PICK b \in Nat : \A i \in DOMAIN log : log[i].cred.id =< b
    BY DEF TypeInv, EffectsBounded
  <1>3. /\ T \in SUBSET Nat /\ disk.gid \in T
        /\ \A x \in T : x =< disk.gid + b
    BY <1>1, <1>2, Types DEF Sound, Dominated
  <1>4. Rebuild(disk).gid = Max(T)
    BY <1>1 DEF Rebuild, RegistryState
  <1> HIDE DEF T
  <1>5. disk.gid + b \in Nat
    BY <1>1
  <1> QED BY <1>3, <1>4, <1>5, MaxBounded

\* A checkpoint leaves the grant counter of the disk alone or makes it memory's.
LEMMA CheckpointGrantCounter ==
  ASSUME TypeInv, Checkpoint
  PROVE  disk' = disk \/ disk'.gid = mem.gid
  BY DEF Checkpoint, Import, TypeInv, TypeOK, RegistryState

\* While memory and journal are in step, every step keeps grant ids unambiguous.
LEMMA ReconcileStep ==
  ASSUME TypeInv, MutexInv, RestartInv, ReconcileInv, InStep, InStep', [Next]_vars
  PROVE  ReconcileInv'
  <1>0. /\ mem \in RegistryState /\ disk \in RegistryState /\ op \in Operation
        /\ mem.gid \in Nat /\ disk.gid \in Nat /\ op.target.id \in Nat
        /\ \A c \in issued : c.id \in Nat
        /\ HandlerShape /\ TargetInv /\ LineageInv /\ BootInv /\ EffectInv
        /\ phase # "down" => disk.grants = mem.grants
    <2>1. disk.gid \in Nat /\ op.target.id \in Nat
      BY Types DEF RegistryState, Grant
    <2> QED BY <2>1, Types DEF RestartInv, MutexInv, LineageOnDisk, InStep
  <1>q. ASSUME UNCHANGED <<phase, mem, disk, issued>>, op'.pc # "open" PROVE ReconcileInv'
    BY <1>q DEF ReconcileInv
  <1>d. ASSUME GoDown, UNCHANGED <<disk, issued>> PROVE ReconcileInv'
    <2>1. phase' = "down" /\ mem'.grants = {} /\ op'.pc # "open"
      BY <1>d, FreeFields DEF GoDown, Blank
    <2> QED BY <1>d, <2>1 DEF ReconcileInv
  <1>c. ASSUME Checkpoint, phase # "down"
        PROVE  /\ disk.gid =< disk'.gid /\ disk'.gid =< mem.gid /\ disk'.grants = disk.grants
               /\ disk'.gid \in Nat
    BY <1>0, <1>c, CheckpointEffect, CheckpointGrantCounter DEF ReconcileInv
  <1>k. ASSUME Checkpoint, phase # "down", UNCHANGED <<mem, issued>>, op' = Free
        PROVE  ReconcileInv'
    <2>1. \A c \in issued : c.id =< disk'.gid
      BY <1>0, <1>c, <1>k DEF ReconcileInv
    <2> QED BY <1>c, <1>k, <2>1, FreeFields DEF ReconcileInv
  <1>1. CASE Emitting
    <2>0. phase # "down"
      BY <1>0, <1>1, EmittingUp
    <2>1. PICK r \in Record, next \in Operation :
            /\ Moves(r, next)
            /\ Applied(r, next) \/ Declined(r)
            /\ UNCHANGED <<phase, sessions, issued, log, floor>>
      BY <1>1, EmittingMoves
    <2>2. /\ Applied(r, next) /\ disk' = Apply(disk, r) /\ mem'.gid = Apply(mem, r).gid
          /\ mem'.grants = Apply(mem, r).grants
      BY <2>1 DEF InStep, Applied, Declined
    <2>3. disk.gid =< disk'.gid /\ disk'.gid =< mem'.gid /\ disk'.gid \in Nat
      <3>1. disk'.gid \in Nat
        BY <2>2, ApplySound DEF TypeInv, Sound, RegistryState
      <3> QED BY <1>0, <2>0, <2>2, <3>1, ApplyGrantCounter DEF ReconcileInv
    <2>4. \A c \in issued' : c.id =< disk'.gid
      BY <1>0, <2>1, <2>3 DEF ReconcileInv
    <2>5. op'.pc = "open" => \A c \in issued' : c.id < op'.target.id
      <3> SUFFICES ASSUME op'.pc = "open" PROVE \A c \in issued' : c.id < op'.target.id
        OBVIOUS
      <3>1. op.handler = "allocate" /\ op'.target = NewGrant
        BY <2>1, <2>2 DEF Moves, Continues, Applied, AfterFence
      <3>2. op'.target.id = mem.gid + 1
        BY <3>1 DEF NewGrant
      <3> QED BY <1>0, <2>0, <2>1, <3>2 DEF ReconcileInv
    <2>6. mem'.grants = disk'.grants
      BY <1>0, <2>0, <2>2, ApplySameLineage
    <2>7. ASSUME NEW c \in issued', NEW g \in mem'.grants, g.id = c.id
          PROVE  Bindings(g) = Bindings(c)
      <3>1. CASE r.kind = "GrantOpen" /\ g = r.grant
        <4>1. op.pc = "open" /\ g = op.target
          BY <2>1, <3>1 DEF Moves
        <4> QED BY <1>0, <2>1, <2>7, <4>1 DEF ReconcileInv
      <3>2. CASE \E h \in mem.grants :
                   /\ g.id = h.id /\ g.domain = h.domain /\ g.scope = h.scope
                   /\ g.epoch = h.epoch /\ g.inc = h.inc /\ g.token = h.token
        <4>1. PICK h \in mem.grants :
                /\ g.id = h.id /\ g.domain = h.domain /\ g.scope = h.scope
                /\ g.epoch = h.epoch /\ g.inc = h.inc /\ g.token = h.token
          BY <3>2
        <4>2. Bindings(h) = Bindings(c)
          BY <2>1, <2>7, <4>1 DEF ReconcileInv
        <4>3. Bindings(g) = Bindings(h)
          BY <4>1 DEF Bindings
        <4> QED BY <4>2, <4>3
      <3> QED BY <1>0, <2>2, <3>1, <3>2, GrantOrigin
    <2> QED BY <2>3, <2>4, <2>5, <2>6, <2>7 DEF ReconcileInv
  <1>2. CASE Finish
    <2>0. phase = "ready" /\ Checkpoint /\ op' = Free /\ UNCHANGED <<phase, mem>>
      BY <1>0, <1>2, ServingIsReady DEF Finish
    <2>1. ASSUME NEW c \in issued', c \notin issued
          PROVE  c \in disk.grants /\ c.id \in Nat /\ c.id =< disk.gid
      <3>1. c \in mem.grants
        BY <1>0, <1>2, <2>1 DEF Finish, TargetInv, OpenGrants
      <3> QED BY <1>0, <2>0, <3>1, Types DEF TypeInv, Sound, Dominated
    <2>2. \A c \in issued' : c.id =< disk'.gid
      BY <1>0, <1>c, <2>0, <2>1 DEF ReconcileInv
    <2>3. ASSUME NEW c \in issued', NEW g \in mem.grants, g.id = c.id
          PROVE  Bindings(g) = Bindings(c)
      <3>1. CASE c \in issued
        BY <2>3, <3>1 DEF ReconcileInv
      <3>2. CASE c \notin issued
        <4>1. g = c \/ Before(g, c) \/ Before(c, g)
          BY <1>0, <2>0, <2>1, <3>2 DEF LineageInv, Ordered
        <4> QED BY <2>1, <2>3, <3>2, <4>1 DEF Before
      <3> QED BY <3>1, <3>2
    <2> QED BY <1>0, <1>c, <2>0, <2>2, <2>3, FreeFields DEF ReconcileInv
  <1>3. CASE Recovered
    <2>0. phase # "down"
      BY <1>0, <1>3 DEF Recovered, HandlerShape
    <2> QED BY <1>3, <1>d, <1>k, <2>0 DEF Recovered
  <1>4. CASE Restart
    <2>1. /\ UNCHANGED <<disk, issued>> /\ mem' = Rebuild(disk) /\ op'.pc = "boots"
          /\ disk.gid =< mem'.gid /\ mem'.grants = disk.grants
      BY <1>4, RebuildEffect, RebuildGrantCounter DEF Restart, Begin, Free
    <2> QED BY <2>1 DEF ReconcileInv
  <1>5. CASE Refuse
    BY <1>5, <1>k DEF Refuse, CanServe
  <1>6. ASSUME NEW i \in sessions, Disconnect(i) PROVE ReconcileInv'
    BY <1>6, <1>q, FreeFields DEF Disconnect, CanServe
  <1>7. ASSUME NEW i \in sessions, NEW d \in Domains, NEW a \in Attempts, Allocate(i, d, a)
        PROVE  ReconcileInv'
    BY <1>7, <1>q, AllocateEffect
  <1>8. ASSUME NEW d \in Domains, NEW epoch, NEW i, Fence(d, epoch, i) PROVE ReconcileInv'
    BY <1>8, <1>q, FenceEffect
  <1>9. ASSUME NEW c \in issued, Release(c) \/ Commit(c) PROVE ReconcileInv'
    BY <1>9, <1>q, ReleaseEffect, CommitEffect
  <1>10. CASE FenceDone \/ (EndBoot /\ mem.openBoots = {})
    <2>1. op'.pc # "open" /\ UNCHANGED <<phase, mem, disk, issued>>
      BY <1>0, <1>10 DEF FenceDone, EndBoot, Operation
    <2> QED BY <1>q, <2>1
  <1>11. CASE Crash
    BY <1>11, <1>d DEF Crash
  <1>12. CASE Observe \/ RestartFails \/ UNCHANGED vars
    BY <1>12 DEF Observe, RestartFails, vars, ReconcileInv
  <1> QED BY <1>1, <1>2, <1>3, <1>4, <1>5, <1>6, <1>7, <1>8, <1>9, <1>10, <1>11, <1>12
          DEF Next, Requests, HandlerStep, Emitting

\* While memory and journal are in step, a coordinator's grants and the lineage of
\* the registry reconcile without a conflict, at any moment and after any crash:
\* also when the lineage has dropped old grants.
THEOREM Reconciles == Spec /\ []InStep => []LineagesReconcile
  <1>1. Init => ReconcileInv
    BY FreeFields DEF Init, ReconcileInv
  <1>2. TypeInv /\ MutexInv /\ RestartInv /\ ReconcileInv /\ InStep /\ InStep' /\ [Next]_vars
          => ReconcileInv'
    BY ReconcileStep
  <1>3. ReconcileInv => LineagesReconcile
    BY DEF ReconcileInv, LineagesReconcile, Reconcile
  <1> QED BY <1>1, <1>2, <1>3, RestartInvariant, PTL DEF Spec

-----------------------------------------------------------------------------
(* The auditor. *)

\* The floor of an extent is no lower than any effect on it, the effects on an
\* extent have rising tokens, and each is that of an acknowledged grant.
HistoryInv ==
  /\ \A i \in DOMAIN log : log[i].cred \in issued
  /\ \A i \in DOMAIN log, e \in Extents :
       e \in log[i].cred.scope => log[i].cred.token =< floor[e].hw
  /\ \A i, j \in DOMAIN log :
       i < j /\ log[i].cred.scope \cap log[j].cred.scope # {}
         => log[i].cred.token =< log[j].cred.token

\* A commit that passes the floor keeps the effects in order.
LEMMA HistoryStep ==
  ASSUME TypeInv, HistoryInv, [Next]_vars
  PROVE  HistoryInv'
  <1>1. ASSUME NEW c \in issued, Commit(c) PROVE HistoryInv'
    <2> DEFINE n == Len(log) + 1
    <2>1. /\ n \in DOMAIN log' /\ log'[n] = [cred |-> c, boot |-> mem.boot]
          /\ \A i \in DOMAIN log : i \in DOMAIN log' /\ log'[i] = log[i]
          /\ \A i \in DOMAIN log' : i \in DOMAIN log \/ i = n
      BY <1>1, CommitLog
    <2>2. \A i \in DOMAIN log : i \in Nat /\ i < n
      BY DEF TypeInv, TypeOK
    <2>3. log'[n].cred = c
      BY <2>1
    <2> HIDE DEF n
    <2>4. /\ \A e \in Extents : floor'[e].hw = IF e \in c.scope THEN c.token ELSE floor[e].hw
          /\ \A e \in c.scope : floor[e].hw =< c.token
          /\ issued' = issued
      BY <1>1 DEF Commit, FabricGate
    <2>5. /\ c.token \in Nat /\ c.scope \subseteq Extents
          /\ \A e \in Extents : floor[e].hw \in Nat
          /\ \A i \in DOMAIN log : log[i].cred.token \in Nat
      BY Types
    <2>6. ASSUME NEW i \in DOMAIN log', NEW e \in Extents, e \in log'[i].cred.scope
          PROVE  log'[i].cred.token =< floor'[e].hw
      <3>1. CASE i = n
        BY <2>3, <2>4, <2>5, <2>6, <3>1
      <3>2. CASE i \in DOMAIN log
        <4>1. log'[i] = log[i] /\ log[i].cred.token =< floor[e].hw
          BY <2>1, <2>6, <3>2 DEF HistoryInv
        <4> QED BY <2>4, <2>5, <3>2, <4>1
      <3> QED BY <2>1, <3>1, <3>2
    <2>7. ASSUME NEW i \in DOMAIN log', NEW j \in DOMAIN log', i < j,
                 log'[i].cred.scope \cap log'[j].cred.scope # {}
          PROVE  log'[i].cred.token =< log'[j].cred.token
      <3>1. i \in DOMAIN log /\ log'[i] = log[i]
        <4>1. ~(n < n) /\ \A k \in DOMAIN log : ~(n < k)
          BY <2>2 DEF n, TypeInv, TypeOK
        <4> QED BY <2>1, <2>7, <4>1
      <3>2. CASE j = n
        <4>1. PICK e \in Extents : e \in log[i].cred.scope /\ e \in c.scope
          BY <2>3, <2>5, <2>7, <3>1, <3>2
        <4>2. log[i].cred.token =< floor[e].hw /\ floor[e].hw =< c.token
          BY <2>4, <3>1, <4>1 DEF HistoryInv
        <4> QED BY <2>3, <2>5, <3>1, <3>2, <4>2
      <3>3. CASE j \in DOMAIN log
        BY <2>1, <2>7, <3>1, <3>3 DEF HistoryInv
      <3> QED BY <2>1, <3>2, <3>3
    <2>8. \A i \in DOMAIN log' : log'[i].cred \in issued'
      BY <2>1, <2>3, <2>4 DEF HistoryInv
    <2> QED BY <2>6, <2>7, <2>8 DEF HistoryInv
  <1>2. CASE UNCHANGED <<log, floor>> /\ issued \subseteq issued'
    BY <1>2 DEF HistoryInv
  <1>3. CASE Emitting
    BY <1>2, <1>3, EmittingMoves
  <1>4. CASE Requests
    BY <1>1, <1>2, <1>3, <1>4 DEF Requests, Emitting, Disconnect, Allocate, Fence, Release,
                                  Observe, Refuse, vars
  <1>5. CASE HandlerStep
    BY <1>2, <1>3, <1>5 DEF HistoryInv, HandlerStep, Emitting, FenceDone, EndBoot, Recovered,
                            Finish
  <1> QED BY <1>2, <1>4, <1>5 DEF Next, Restart, RestartFails, Crash, vars

\* The order of the effects is an invariant of the registry.
LEMMA HistoryInvariant == Spec => []HistoryInv
  <1>1. Init => HistoryInv
    <2>1. Init => DOMAIN log = {}
      BY DEF Init
    <2> QED BY <2>1 DEF HistoryInv
  <1>2. TypeInv /\ HistoryInv /\ [Next]_vars => HistoryInv'
    BY HistoryStep
  <1> QED BY <1>1, <1>2, TypeInvariant, PTL DEF Spec

\* The tokens of the effect log, in every behaviour, crashes and failed appends
\* included: they never fall on an extent, and two effects under one token are
\* those of one grant.
THEOREM TokensInOrder ==
  Spec => [](/\ AuditHistory(Credentials).token_regressions = {}
             /\ AuditHistory(Credentials).foreign_owner_appends = {})
  <1>1. TypeInv /\ HistoryInv /\ EffectTokensIdentifyGrants
          => /\ AuditHistory(Credentials).token_regressions = {}
             /\ AuditHistory(Credentials).foreign_owner_appends = {}
    <2> SUFFICES ASSUME TypeInv, HistoryInv, EffectTokensIdentifyGrants,
                        NEW p \in Handovers(Credentials)
                 PROVE  /\ ~(Credentials[p[1]].token > Credentials[p[2]].token)
                        /\ Credentials[p[1]].token = Credentials[p[2]].token
                             => Credentials[p[1]].inc = Credentials[p[2]].inc
      BY DEF AuditHistory
    <2>1. /\ p[1] \in DOMAIN log /\ p[2] \in DOMAIN log /\ p[1] < p[2]
          /\ Credentials[p[1]] = log[p[1]].cred /\ Credentials[p[2]] = log[p[2]].cred
          /\ log[p[1]].cred.scope \cap log[p[2]].cred.scope # {}
      BY DEF Handovers, Credentials
    <2>2. log[p[1]].cred.token =< log[p[2]].cred.token
      BY <2>1 DEF HistoryInv
    <2>3. log[p[1]].cred.token \in Nat /\ log[p[2]].cred.token \in Nat
      BY <2>1, Types
    <2> QED BY <2>1, <2>2, <2>3 DEF EffectTokensIdentifyGrants
  <1> QED BY <1>1, HistoryInvariant, TypeInvariant, TokensIdentify, PTL

\* A state whose lineage is in order and whose open grants are disjoint passes.
LEMMA StateAudited ==
  ASSUME NEW s, s.grants \subseteq Grant, Ordered(s.grants), Disjoint(OpenGrants(s))
  PROVE  AuditState(s).epoch_regressions = {} /\ AuditState(s).duplicate_exclusive_grants = {}
  <1>1. EpochsInOrder(s.grants)
    <2> SUFFICES ASSUME NEW g \in s.grants, NEW h \in s.grants, g.domain = h.domain, g.id < h.id
                 PROVE  g.epoch =< h.epoch
      BY DEF EpochsInOrder
    <2>1. g.id \in Nat /\ h.id \in Nat /\ g.epoch \in Nat /\ h.epoch \in Nat
      BY DEF Grant
    <2>2. g = h \/ Before(g, h) \/ Before(h, g)
      BY DEF Ordered
    <2> QED BY <2>1, <2>2 DEF Before
  <1>2. AuditState(s).epoch_regressions = {}
    BY <1>1 DEF AuditState, EpochsInOrder
  <1>3. ASSUME NEW p \in OpenGrants(s) \X OpenGrants(s), p[1].id < p[2].id
        PROVE  p[1].scope \cap p[2].scope = {}
    <2>1. p[1] \in OpenGrants(s) /\ p[2] \in OpenGrants(s) /\ p[1].id \in Nat
      BY DEF OpenGrants, Grant
    <2>2. p[1] # p[2]
      BY <1>3, <2>1
    <2> QED BY <2>1, <2>2 DEF Disjoint
  <1>4. AuditState(s).duplicate_exclusive_grants = {}
    BY <1>3 DEF AuditState
  <1> QED BY <1>2, <1>4

\* The fence history is not full: a full one drops its oldest record.
FenceHistoryHasRoom == Cardinality(mem.frecs) < MaxFenceRecords

\* Whatever fences did to the open grant g is told by a retained record.
Explained(s, g) ==
  /\ g.inc \in s.fencedInc => \E f \in s.frecs : AimedElsewhere(f, g) /\ f.inc = g.inc
  /\ \A e \in g.scope : s.ext[e].hw > g.token =>
       \E f \in s.frecs : AimedElsewhere(f, g) /\ f.token = s.ext[e].hw

\* An open grant covers its domain's scope and is explained, or about to be closed;
\* a successor is not fenced and adopts its scope under its own token.
AimInv ==
  /\ phase = "ready" => \A g \in OpenGrants(mem) :
       /\ g.domain \in Domains /\ g.scope # {} /\ g.scope = mem.domains[g.domain]
       /\ (op.pc = "close" /\ g = op.target) \/ Explained(mem, g)
  /\ op.handler \in {"allocate", "fence"} =>
       op.req.domain \in Domains /\ op.req.scope # {} /\ op.req.scope = mem.domains[op.req.domain]
  /\ op.handler = "allocate" => op.req.inc \notin mem.fencedInc
  /\ op.pc = "open" =>
       /\ op.target.domain = op.req.domain /\ op.target.scope = op.req.scope
       /\ \A e \in op.target.scope : mem.ext[e].hw = op.target.token

\* What a fence writes in the tables while its history has room.
LEMMA FenceTables ==
  ASSUME NEW s \in RegistryState, NEW r \in FenceRecords, Cardinality(s.frecs) < MaxFenceRecords
  PROVE  LET a == Apply(s, r) IN
         /\ a.grants = s.grants /\ a.domains = s.domains
         /\ a.frecs = s.frecs \cup {[token |-> r.token, domain |-> r.domain,
                                     epoch |-> r.epoch, inc |-> r.inc]}
         /\ \A i \in a.fencedInc : i \in s.fencedInc \/ (i = r.inc /\ r.inc # 0)
         /\ \A e \in Extents : a.ext[e].hw = IF e \in r.scope THEN r.token ELSE s.ext[e].hw
  <1>1. Apply(s, r) = ApplyFence(s, r)
    BY DEF FenceRecords, Apply
  <1>2. Trimmed(s) = s.frecs
    BY DEF Trimmed
  <1>3. /\ Apply(s, r).grants = s.grants /\ Apply(s, r).domains = s.domains
        /\ Apply(s, r).frecs = s.frecs \cup {[token |-> r.token, domain |-> r.domain,
                                              epoch |-> r.epoch, inc |-> r.inc]}
    BY <1>1, <1>2 DEF ApplyFence, RegistryState
  <1>4. Apply(s, r).fencedInc = IF r.inc # 0 THEN AddBounded(s.fencedInc, r.inc) ELSE s.fencedInc
    BY <1>1 DEF ApplyFence, RegistryState
  <1>5. \A i \in Apply(s, r).fencedInc : i \in s.fencedInc \/ (i = r.inc /\ r.inc # 0)
    BY <1>4 DEF AddBounded
  <1>6. Apply(s, r).ext = [e \in Extents |->
                IF e \in r.scope
                THEN [hw |-> r.token, owner |-> IF r.inc # 0 THEN r.inc ELSE s.ext[e].owner]
                ELSE s.ext[e]]
    BY <1>1 DEF ApplyFence, RegistryState
  <1>7. \A e \in Extents : Apply(s, r).ext[e].hw = IF e \in r.scope THEN r.token ELSE s.ext[e].hw
    BY <1>6
  <1> QED BY <1>3, <1>5, <1>7

\* Every other record leaves the fenced incarnations and the history alone.
LEMMA OtherTables ==
  ASSUME NEW s \in RegistryState, NEW r \in Record, r.kind # "Fence"
  PROVE  LET a == Apply(s, r) IN
         /\ a.fencedInc = s.fencedInc /\ a.frecs = s.frecs
         /\ r.kind # "DomainDefine" => a.domains = s.domains
         /\ r.kind = "DomainDefine" => a.domains = [s.domains EXCEPT ![r.domain] = r.scope]
         /\ r.kind # "ExtentAdopt" => a.ext = s.ext
         /\ r.kind = "ExtentAdopt" =>
              \A e \in Extents : a.ext[e].hw = IF e \in r.scope THEN r.token ELSE s.ext[e].hw
  <1>0. Apply(s, r).fencedInc = s.fencedInc
    BY ApplyFields
  <1>1. CASE r \in BootRecord \cup MarkRecord \cup EffectRecord
    <2>1. /\ Apply(s, r).frecs = s.frecs /\ Apply(s, r).domains = s.domains
          /\ Apply(s, r).ext = s.ext /\ r.kind \notin {"DomainDefine", "ExtentAdopt"}
      BY <1>1 DEF BootRecord, MarkRecord, EffectRecord, Apply, RegistryState
    <2> QED BY <1>0, <2>1
  <1>2. CASE r \in DomainRecord
    <2>1. /\ Apply(s, r).frecs = s.frecs /\ r.kind = "DomainDefine"
          /\ Apply(s, r).domains = [s.domains EXCEPT ![r.domain] = r.scope]
          /\ Apply(s, r).ext = s.ext
      BY <1>2 DEF DomainRecord, Apply, RegistryState
    <2> QED BY <1>0, <2>1
  <1>3. CASE r \in OpenRecord \cup CloseRecord
    <2>1. /\ Apply(s, r).frecs = s.frecs /\ Apply(s, r).domains = s.domains
          /\ Apply(s, r).ext = s.ext /\ r.kind \notin {"DomainDefine", "ExtentAdopt"}
      BY <1>3 DEF OpenRecord, CloseRecord, Apply, ApplyGrantOpen, ApplyGrantClose, RegistryState
    <2> QED BY <1>0, <2>1
  <1>4. CASE r \in AdoptRecord
    <2>1. /\ Apply(s, r).frecs = s.frecs /\ Apply(s, r).domains = s.domains
          /\ r.kind = "ExtentAdopt"
          /\ Apply(s, r).ext = [e \in Extents |-> IF e \in r.scope
                                                  THEN [hw |-> r.token, owner |-> r.inc]
                                                  ELSE s.ext[e]]
      BY <1>4 DEF AdoptRecord, Apply, ApplyAdopt, RegistryState
    <2>2. \A e \in Extents : Apply(s, r).ext[e].hw = IF e \in r.scope THEN r.token ELSE s.ext[e].hw
      BY <2>1
    <2> QED BY <1>0, <2>1, <2>2
  <1>5. r \notin FenceRecords
    BY DEF FenceRecords
  <1> QED BY <1>1, <1>2, <1>3, <1>4, <1>5 DEF Record

\* A fence aimed at something else explains itself.
LEMMA FenceExplains ==
  ASSUME NEW s \in RegistryState, NEW r \in FenceRecords, Cardinality(s.frecs) < MaxFenceRecords,
         NEW g \in Grant, g.token < r.token, <<r.domain, r.epoch>> # <<g.domain, g.epoch>>,
         Explained(s, g)
  PROVE  Explained(Apply(s, r), g)
  <1> DEFINE a == Apply(s, r)
             n == [token |-> r.token, domain |-> r.domain, epoch |-> r.epoch, inc |-> r.inc]
  <1>1. /\ a.frecs = s.frecs \cup {n}
        /\ \A i \in a.fencedInc : i \in s.fencedInc \/ i = r.inc
        /\ \A e \in Extents : a.ext[e].hw = IF e \in r.scope THEN r.token ELSE s.ext[e].hw
    BY FenceTables
  <1>2. AimedElsewhere(n, g) /\ n.inc = r.inc /\ n.token = r.token
    BY DEF AimedElsewhere
  <1>3. g.scope \subseteq Extents
    BY DEF Grant
  <1> HIDE DEF a, n
  <1>4. g.inc \in a.fencedInc => \E f \in a.frecs : AimedElsewhere(f, g) /\ f.inc = g.inc
    BY <1>1, <1>2 DEF Explained
  <1>5. ASSUME NEW e \in g.scope, a.ext[e].hw > g.token
        PROVE  \E f \in a.frecs : AimedElsewhere(f, g) /\ f.token = a.ext[e].hw
    <2>1. CASE e \in r.scope
      BY <1>1, <1>2, <1>3, <2>1
    <2>2. CASE e \notin r.scope
      BY <1>1, <1>3, <1>5, <2>2 DEF Explained
    <2> QED BY <2>1, <2>2
  <1> QED BY <1>4, <1>5 DEF Explained, a

\* The tables alone decide whether a grant is explained.
LEMMA ExplainedSame ==
  ASSUME NEW s, NEW t, t.fencedInc = s.fencedInc, t.frecs = s.frecs, NEW g,
         \A e \in g.scope : t.ext[e].hw = s.ext[e].hw, Explained(s, g)
  PROVE  Explained(t, g)
  BY DEF Explained

\* A close takes its grant out of the open ones.
LEMMA ClosedGone ==
  ASSUME NEW s \in RegistryState, NEW r \in CloseRecord, NEW g \in OpenGrants(Apply(s, r))
  PROVE  g \in OpenGrants(s) /\ g.id # r.id
  <1> DEFINE c(h) == IF h.id = r.id /\ IsOpen(h) THEN [h EXCEPT !.state = r.state] ELSE h
  <1>1. Apply(s, r).grants = {c(h) : h \in s.grants}
    BY DEF CloseRecord, Apply, ApplyGrantClose, RegistryState
  <1>2. ASSUME NEW h \in s.grants, IsOpen(c(h)) PROVE c(h) = h /\ h.id # r.id
    BY <1>2 DEF RegistryState, Grant, CloseRecord, IsOpen
  <1> HIDE DEF c
  <1>3. PICK h \in s.grants : g = c(h)
    BY <1>1 DEF OpenGrants
  <1> QED BY <1>2, <1>3 DEF OpenGrants

\* Every step of the registry keeps its open grants explained.
LEMMA AimStep ==
  ASSUME TypeInv, TypeInv', RestartInv, RestartInv', AimInv, FenceHistoryHasRoom, InStep', [Next]_vars
  PROVE  AimInv'
  <1>0. /\ mem \in RegistryState /\ op \in Operation /\ mem.tok \in Nat
        /\ op.req \in Request /\ op.target \in Grant /\ Sound(mem)
        /\ HandlerShape /\ HandlerShape' /\ BootInv /\ TargetInv /\ LineageInv
    BY Types DEF RestartInv, TypeInv
  <1>g. \A g \in OpenGrants(mem) : g \in mem.grants /\ g \in Grant /\ g.token \in Nat
                                   /\ g.token =< mem.tok /\ g.scope \subseteq Extents
    BY <1>0, Types DEF OpenGrants, Sound, Dominated
  <1>q. ASSUME phase' = phase, mem'.grants = mem.grants, mem'.ext = mem.ext,
               mem'.fencedInc = mem.fencedInc, mem'.frecs = mem.frecs,
               mem'.domains = mem.domains, op.pc # "close", op'.pc # "open",
               op'.handler \notin {"allocate", "fence"}
        PROVE  AimInv'
    <2>1. OpenGrants(mem') = OpenGrants(mem)
      BY <1>q DEF OpenGrants
    <2>2. \A g \in OpenGrants(mem) : Explained(mem, g) => Explained(mem', g)
      BY <1>q, ExplainedSame
    <2> QED BY <1>q, <2>1, <2>2 DEF AimInv
  <1>n. ASSUME phase' # "ready" PROVE AimInv'
    <2>1. op'.handler \in {"recover", "free"} /\ op'.pc # "open"
      <3>1. phase' \in {"down", "recovering"}
        BY <1>n DEF TypeInv, TypeOK
      <3> QED BY <1>0, <3>1, FreeFields DEF HandlerShape
    <2> QED BY <1>n, <2>1 DEF AimInv
  <1>1. CASE FenceVictim /\ phase = "ready"
    <2> DEFINE v == Oldest(Victims)
               r == FenceRec(v.domain, v.scope, v.epoch, FencedIncarnation(v))
               next == [op EXCEPT !.pc = AfterFence, !.target = v]
    <2>1. v \in OpenGrants(mem) /\ v \in Grant
      BY <1>0, <1>1, VictimsAreOpen, OldestInSet DEF FenceVictim
    <2>2. op.pc = "scan" /\ Emit(r, next) /\ phase' = phase
      BY <1>1 DEF FenceVictim
    <2> HIDE DEF v
    <2>3. FencedIncarnation(v) \in Nat
      BY <2>1 DEF FencedIncarnation, Grant
    <2>4. /\ r \in Record /\ r \in FenceRecords /\ r.inc = FencedIncarnation(v)
          /\ r.domain = v.domain /\ r.epoch = v.epoch /\ r.token = mem.tok + 1
      BY <1>0, <2>1, <2>3, FenceRecType DEF Grant, FenceRec, FenceRecords
    <2>5. /\ next \in Operation /\ next.handler = op.handler /\ next.req = op.req
          /\ next.pc = "close" /\ next.target = v
      <3>1. op.handler # "recover"
        BY <1>0, <1>1 DEF HandlerShape
      <3> QED BY <1>0, <2>1, <3>1 DEF Operation, AfterFence
    <2> HIDE DEF r, next
    <2>6. Applied(r, next)
      BY <2>2, <2>4, <2>5, EmitOutcome DEF Declined, InStep
    <2> DEFINE a == Apply(mem, r)
    <2>7. /\ a.grants = mem.grants /\ a.domains = mem.domains
          /\ \A i \in a.fencedInc : i \in mem.fencedInc \/ (i = r.inc /\ r.inc # 0)
      BY <1>0, <2>4, FenceTables DEF FenceHistoryHasRoom
    <2>8. /\ mem'.grants = a.grants /\ mem'.domains = a.domains /\ mem'.ext = a.ext
          /\ mem'.fencedInc = a.fencedInc /\ mem'.frecs = a.frecs
          /\ op'.handler = op.handler /\ op'.req = op.req /\ op'.pc = "close" /\ op'.target = v
      BY <2>5, <2>6 DEF Applied
    <2>9. ASSUME NEW g \in OpenGrants(mem), g # v PROVE Explained(mem', g)
      <3>1. <<v.domain, v.epoch>> # <<g.domain, g.epoch>>
        <4>1. v \in mem.grants /\ g \in mem.grants /\ v.epoch \in Nat /\ g.epoch \in Nat
          BY <1>g, <2>1 DEF Grant
        <4> QED BY <1>0, <2>9, <4>1 DEF LineageInv, Ordered, Before
      <3>2. Explained(mem, g)
        BY <1>1, <2>2 DEF AimInv
      <3>3. g \in Grant /\ g.token < r.token
        BY <1>0, <1>g, <2>4
      <3>4. Explained(a, g)
        BY <1>0, <2>4, <3>1, <3>2, <3>3, FenceExplains DEF FenceHistoryHasRoom
      <3> HIDE DEF a
      <3> QED BY <2>8, <3>4, ExplainedSame
    <2> HIDE DEF a
    <2>10. OpenGrants(mem') = OpenGrants(mem)
      BY <2>7, <2>8 DEF OpenGrants
    <2>11. op.handler = "allocate" => op.req.inc \notin mem'.fencedInc
      BY <2>4, <2>7, <2>8 DEF AimInv, FencedIncarnation
    <2> QED BY <1>1, <2>2, <2>7, <2>8, <2>9, <2>10, <2>11 DEF AimInv
  <1>2. CASE FenceUnowned
    <2> DEFINE r == FenceRec(op.req.domain, op.req.scope, op.req.epoch, op.req.inc)
               next == [op EXCEPT !.pc = "finish"]
    <2>0. op.handler = "fence" /\ op.pc = "scan" /\ phase = "ready"
      BY <1>0, <1>2, ServingIsReady DEF FenceUnowned
    <2>1. /\ Victims = {} /\ Emit(r, next) /\ phase' = phase
      BY <1>2 DEF FenceUnowned
    <2>2. /\ r \in Record /\ r \in FenceRecords
          /\ r.domain = op.req.domain /\ r.epoch = op.req.epoch /\ r.token = mem.tok + 1
      BY <1>0, FenceRecType DEF Request, FenceRec, FenceRecords
    <2>3. /\ next \in Operation /\ next.handler = op.handler /\ next.req = op.req
          /\ next.pc = "finish"
      BY <1>0 DEF Operation
    <2> HIDE DEF r, next
    <2>4. Applied(r, next)
      BY <2>1, <2>2, <2>3, EmitOutcome DEF Declined, InStep
    <2> DEFINE a == Apply(mem, r)
    <2>5. a.grants = mem.grants /\ a.domains = mem.domains
      BY <1>0, <2>2, FenceTables DEF FenceHistoryHasRoom
    <2>6. /\ mem'.grants = a.grants /\ mem'.domains = a.domains /\ mem'.ext = a.ext
          /\ mem'.fencedInc = a.fencedInc /\ mem'.frecs = a.frecs
          /\ op'.handler = op.handler /\ op'.req = op.req /\ op'.pc = "finish"
      BY <2>3, <2>4 DEF Applied
    <2>7. ASSUME NEW g \in OpenGrants(mem) PROVE Explained(mem', g)
      <3>1. <<op.req.domain, op.req.epoch>> # <<g.domain, g.epoch>>
        <4>1. g.scope = mem.domains[g.domain]
          BY <2>0 DEF AimInv
        <4>2. op.req.scope = mem.domains[op.req.domain]
          BY <2>0 DEF AimInv
        <4>3. ~(g.domain = op.req.domain /\ g.scope = op.req.scope /\ op.req.epoch \in {0, g.epoch})
          BY <2>0, <2>1 DEF Victims
        <4> QED BY <4>1, <4>2, <4>3
      <3>2. Explained(mem, g)
        BY <2>0 DEF AimInv
      <3>3. g \in Grant /\ g.token < r.token
        BY <1>0, <1>g, <2>2
      <3>4. Explained(a, g)
        BY <1>0, <2>2, <3>1, <3>2, <3>3, FenceExplains DEF FenceHistoryHasRoom
      <3> HIDE DEF a
      <3> QED BY <2>6, <3>4, ExplainedSame
    <2> HIDE DEF a
    <2>8. OpenGrants(mem') = OpenGrants(mem)
      BY <2>5, <2>6 DEF OpenGrants
    <2> QED BY <2>0, <2>1, <2>5, <2>6, <2>7, <2>8 DEF AimInv
  <1>3. CASE AdoptScope
    <2> DEFINE r == [kind |-> "ExtentAdopt", token |-> mem.tok + 1, scope |-> op.req.scope,
                     inc |-> op.req.inc]
               next == [op EXCEPT !.pc = "open", !.target = NewGrant]
    <2>0. op.handler = "allocate" /\ op.pc = "scan" /\ phase = "ready"
      BY <1>0, <1>3, ServingIsReady DEF AdoptScope
    <2>1. Victims = {} /\ Emit(r, next) /\ phase' = phase
      BY <1>3 DEF AdoptScope
    <2>2. /\ r \in Record /\ r.kind = "ExtentAdopt" /\ r.token = mem.tok + 1
          /\ r.scope = op.req.scope
      BY <1>0 DEF Record, AdoptRecord, Request
    <2>3. /\ NewGrant.domain = op.req.domain /\ NewGrant.scope = op.req.scope
          /\ NewGrant.token = mem.tok + 1
      BY DEF NewGrant
    <2>4. NewGrant \in Grant
      <3>1. MaxEpoch(mem, op.req.domain) \in Nat
        BY <1>0, MaxEpochBounded
      <3> QED BY <1>0, <3>1 DEF NewGrant, Grant, Request, RegistryState, GrantStates
    <2> HIDE DEF r
    <2>5. /\ next \in Operation /\ next.handler = op.handler /\ next.req = op.req
          /\ next.pc = "open" /\ next.target = NewGrant
      BY <1>0, <2>4 DEF Operation
    <2> HIDE DEF next
    <2>6. Applied(r, next)
      BY <2>1, <2>2, <2>5, EmitOutcome DEF Declined, InStep
    <2> DEFINE a == Apply(mem, r)
    <2>7. /\ a.grants = mem.grants /\ a.domains = mem.domains
          /\ a.fencedInc = mem.fencedInc /\ a.frecs = mem.frecs
          /\ \A e \in Extents : a.ext[e].hw = IF e \in r.scope THEN r.token ELSE mem.ext[e].hw
      BY <1>0, <2>2, OtherTables, ApplyFields
    <2>8. /\ mem'.grants = a.grants /\ mem'.domains = a.domains /\ mem'.ext = a.ext
          /\ mem'.fencedInc = a.fencedInc /\ mem'.frecs = a.frecs
          /\ op'.handler = op.handler /\ op'.req = op.req /\ op'.pc = "open"
          /\ op'.target = NewGrant
      BY <2>5, <2>6 DEF Applied
    <2> HIDE DEF a
    <2>9. ASSUME NEW g \in OpenGrants(mem) PROVE Explained(mem', g)
      <3>1. g.scope \cap op.req.scope = {}
        BY <2>0, <2>1 DEF Victims, Overlapping
      <3>2. Explained(mem, g)
        BY <2>0 DEF AimInv
      <3>3. \A e \in g.scope : mem'.ext[e].hw = mem.ext[e].hw
        BY <1>g, <2>2, <2>7, <2>8, <3>1
      <3> QED BY <2>7, <2>8, <3>2, <3>3, ExplainedSame
    <2>10. OpenGrants(mem') = OpenGrants(mem)
      BY <2>7, <2>8 DEF OpenGrants
    <2>11. \A e \in op'.target.scope : mem'.ext[e].hw = op'.target.token
      BY <2>2, <2>3, <2>4, <2>7, <2>8 DEF Grant
    <2> QED BY <2>0, <2>1, <2>3, <2>7, <2>8, <2>9, <2>10, <2>11 DEF AimInv
  <1>4. CASE OpenGrant
    <2> DEFINE r == [kind |-> "GrantOpen", grant |-> op.target]
               next == [op EXCEPT !.pc = "finish"]
    <2>0. op.handler = "allocate" /\ op.pc = "open" /\ phase = "ready"
      BY <1>0, <1>4, ServingIsReady DEF OpenGrant, HandlerShape
    <2>1. Emit(r, next) /\ phase' = phase
      BY <1>4 DEF OpenGrant
    <2>2. r \in Record /\ r.kind = "GrantOpen" /\ r.grant = op.target
      BY <1>0, <2>0 DEF TypeInv, TargetSound, Record, OpenRecord
    <2>3. /\ next \in Operation /\ next.handler = op.handler /\ next.req = op.req
          /\ next.pc = "finish"
      BY <1>0 DEF Operation
    <2> HIDE DEF r, next
    <2>4. Applied(r, next)
      BY <2>1, <2>2, <2>3, EmitOutcome DEF Declined, InStep
    <2> DEFINE a == Apply(mem, r)
    <2>5. /\ a.domains = mem.domains /\ a.ext = mem.ext
          /\ a.fencedInc = mem.fencedInc /\ a.frecs = mem.frecs
          /\ OpenGrants(a) \subseteq OpenGrants(mem) \cup {op.target}
      BY <1>0, <2>2, OtherTables, ApplyOpens
    <2>6. /\ mem'.grants = a.grants /\ mem'.domains = a.domains /\ mem'.ext = a.ext
          /\ mem'.fencedInc = a.fencedInc /\ mem'.frecs = a.frecs
          /\ op'.handler = op.handler /\ op'.req = op.req /\ op'.pc = "finish"
      BY <2>3, <2>4 DEF Applied
    <2>7. OpenGrants(mem') = OpenGrants(a)
      BY <2>6 DEF OpenGrants
    <2> HIDE DEF a
    <2>8. ASSUME NEW g \in OpenGrants(mem)
          PROVE  /\ g.domain \in Domains /\ g.scope # {} /\ g.scope = mem.domains[g.domain]
                 /\ Explained(mem', g)
      <3>1. /\ g.domain \in Domains /\ g.scope # {} /\ g.scope = mem.domains[g.domain]
            /\ Explained(mem, g)
        BY <2>0 DEF AimInv
      <3> QED BY <2>5, <2>6, <3>1, ExplainedSame
    <2>9. /\ op.target.domain \in Domains /\ op.target.scope # {}
          /\ op.target.scope = mem.domains[op.target.domain]
      BY <2>0 DEF AimInv
    <2>10. Explained(mem', op.target)
      <3>1. op.target.inc \notin mem'.fencedInc
        BY <1>0, <2>0, <2>5, <2>6 DEF AimInv, TargetInv
      <3>2. op.target.token \in Nat
        BY <1>0 DEF Grant
      <3>3. \A e \in op.target.scope : mem'.ext[e].hw = op.target.token
        BY <2>0, <2>5, <2>6 DEF AimInv
      <3>4. \A e \in op.target.scope : ~(mem'.ext[e].hw > op.target.token)
        BY <3>2, <3>3
      <3> QED BY <3>1, <3>4 DEF Explained
    <2> QED BY <2>0, <2>1, <2>5, <2>6, <2>7, <2>8, <2>9, <2>10 DEF AimInv
  <1>5. CASE CloseVictim /\ phase = "ready"
    <2> DEFINE r == [kind |-> "GrantClose", id |-> op.target.id, state |-> ClosedAs(op.handler)]
               next == [op EXCEPT !.pc = IF op.handler = "release" THEN "finish" ELSE "scan",
                                  !.target = NoGrant, !.hit = TRUE]
    <2>1. op.pc = "close" /\ Emit(r, next) /\ phase' = phase
      BY <1>5 DEF CloseVictim
    <2>2. r \in Record /\ r \in CloseRecord /\ r.kind = "GrantClose" /\ r.id = op.target.id
      BY <1>0 DEF Record, CloseRecord, ClosedAs, GrantStates, Grant
    <2>3. NoGrant \in Grant
      BY DEF NoGrant, Grant, GrantStates
    <2> HIDE DEF r
    <2>4. /\ next \in Operation /\ next.handler = op.handler /\ next.req = op.req
          /\ next.pc \in {"finish", "scan"}
      BY <1>0, <2>3 DEF Operation
    <2> HIDE DEF next
    <2>5. Applied(r, next)
      BY <2>2, <2>1, <2>4, EmitOutcome DEF Declined, InStep
    <2> DEFINE a == Apply(mem, r)
    <2>6. /\ a.domains = mem.domains /\ a.ext = mem.ext
          /\ a.fencedInc = mem.fencedInc /\ a.frecs = mem.frecs
          /\ \A g \in OpenGrants(a) : g \in OpenGrants(mem) /\ g # op.target
      <3>1. /\ a.domains = mem.domains /\ a.ext = mem.ext
            /\ a.fencedInc = mem.fencedInc /\ a.frecs = mem.frecs
        BY <1>0, <2>2, OtherTables
      <3>2. \A g \in OpenGrants(a) : g \in OpenGrants(mem) /\ g.id # r.id
        BY <1>0, <2>2, ClosedGone
      <3> HIDE DEF a
      <3> QED BY <2>2, <3>1, <3>2
    <2>7. /\ mem'.grants = a.grants /\ mem'.domains = a.domains /\ mem'.ext = a.ext
          /\ mem'.fencedInc = a.fencedInc /\ mem'.frecs = a.frecs
          /\ op'.handler = op.handler /\ op'.req = op.req /\ op'.pc \in {"finish", "scan"}
      BY <2>4, <2>5 DEF Applied
    <2>8. OpenGrants(mem') = OpenGrants(a)
      BY <2>7 DEF OpenGrants
    <2> HIDE DEF a
    <2>9. ASSUME NEW g \in OpenGrants(mem')
          PROVE  /\ g.domain \in Domains /\ g.scope # {} /\ g.scope = mem.domains[g.domain]
                 /\ Explained(mem', g)
      <3>1. /\ g.domain \in Domains /\ g.scope # {} /\ g.scope = mem.domains[g.domain]
            /\ Explained(mem, g)
        BY <1>5, <2>6, <2>8 DEF AimInv
      <3> QED BY <2>6, <2>7, <3>1, ExplainedSame
    <2> QED BY <1>5, <2>6, <2>7, <2>9 DEF AimInv
  <1>6. ASSUME NEW d \in Domains, NEW scope \in Scopes, Define(d, scope) PROVE AimInv'
    <2> DEFINE r == [kind |-> "DomainDefine", domain |-> d, scope |-> scope]
               next == Begin("define", "finish", NoRequest)
    <2>0. op = Free /\ phase = "ready" /\ mem.domains[d] = {} /\ Emit(r, next) /\ phase' = phase
      BY <1>6 DEF Define, CanServe
    <2>1. next \in Operation /\ next.handler = "define" /\ next.pc = "finish"
      <3>1. next \in Operation
        BY BeginType, FreeType DEF Handlers
      <3>2. next.handler = "define" /\ next.pc = "finish"
        BY DEF Begin, Free
      <3> QED BY <3>1, <3>2
    <2>2. r \in Record /\ r.kind = "DomainDefine" /\ r.domain = d
      BY ConstantsAssumption DEF Record, DomainRecord
    <2> HIDE DEF r, next
    <2>3. Applied(r, next)
      BY <2>0, <2>1, <2>2, EmitOutcome DEF Declined, InStep
    <2> DEFINE a == Apply(mem, r)
    <2>4. /\ a.grants = mem.grants /\ a.ext = mem.ext
          /\ a.fencedInc = mem.fencedInc /\ a.frecs = mem.frecs
          /\ a.domains = [mem.domains EXCEPT ![d] = r.scope]
      BY <1>0, <2>2, OtherTables, ApplyFields
    <2>5. /\ mem'.grants = a.grants /\ mem'.domains = a.domains /\ mem'.ext = a.ext
          /\ mem'.fencedInc = a.fencedInc /\ mem'.frecs = a.frecs
          /\ op'.handler = "define" /\ op'.pc = "finish"
      BY <2>1, <2>3 DEF Applied
    <2> HIDE DEF a
    <2>6. ASSUME NEW g \in OpenGrants(mem')
          PROVE  /\ g.domain \in Domains /\ g.scope # {} /\ g.scope = mem'.domains[g.domain]
                 /\ Explained(mem', g)
      <3>1. g \in OpenGrants(mem)
        BY <2>4, <2>5 DEF OpenGrants
      <3>2. /\ g.domain \in Domains /\ g.scope # {} /\ g.scope = mem.domains[g.domain]
            /\ Explained(mem, g)
        BY <2>0, <3>1, FreeFields DEF AimInv
      <3>3. g.domain # d
        BY <2>0, <3>2
      <3>4. mem'.domains[g.domain] = mem.domains[g.domain]
        BY <1>0, <2>4, <2>5, <3>2, <3>3 DEF RegistryState
      <3> QED BY <2>4, <2>5, <3>2, <3>4, ExplainedSame
    <2> QED BY <2>0, <2>5, <2>6 DEF AimInv
  <1>7. CASE Hello
    <2> DEFINE r == [kind |-> "IncarnationAllocate", inc |-> mem.inc + 1]
               next == Begin("hello", "finish", [NoRequest EXCEPT !.inc = mem.inc + 1])
    <2>0. op = Free /\ Emit(r, next) /\ phase' = phase /\ mem.inc \in Nat
      BY <1>0, <1>7 DEF Hello, CanServe, RegistryState
    <2>1. [NoRequest EXCEPT !.inc = mem.inc + 1] \in Request
      BY <2>0 DEF NoRequest, Request
    <2>2. next \in Operation /\ next.handler = "hello" /\ next.pc = "finish"
      <3>1. next \in Operation
        BY <2>1, BeginType DEF Handlers
      <3>2. next.handler = "hello" /\ next.pc = "finish"
        BY DEF Begin, Free
      <3> QED BY <3>1, <3>2
    <2>3. r \in Record /\ r.kind = "IncarnationAllocate"
      BY <2>0 DEF Record, BootRecord
    <2> HIDE DEF r, next
    <2>4. Applied(r, next)
      BY <2>0, <2>2, <2>3, EmitOutcome DEF Declined, InStep
    <2>5. /\ Apply(mem, r).grants = mem.grants /\ Apply(mem, r).ext = mem.ext
          /\ Apply(mem, r).fencedInc = mem.fencedInc /\ Apply(mem, r).frecs = mem.frecs
          /\ Apply(mem, r).domains = mem.domains
      BY <1>0, <2>3, OtherTables, ApplyFields
    <2>6. /\ mem'.grants = mem.grants /\ mem'.domains = mem.domains /\ mem'.ext = mem.ext
          /\ mem'.fencedInc = mem.fencedInc /\ mem'.frecs = mem.frecs
          /\ op'.handler = "hello" /\ op'.pc = "finish"
      BY <2>2, <2>4, <2>5 DEF Applied
    <2> QED BY <1>q, <2>0, <2>6, FreeFields
  <1>8. CASE RecordCommit
    <2> DEFINE r == [kind |-> "CommitRecord"]
               next == [op EXCEPT !.pc = "finish"]
    <2>0. op.pc = "record" /\ op.handler = "commit" /\ Emit(r, next) /\ phase' = phase
      BY <1>0, <1>8 DEF RecordCommit, HandlerShape
    <2>1. next \in Operation /\ next.handler = "commit" /\ next.pc = "finish"
      BY <1>0, <2>0 DEF Operation
    <2>2. r \in Record /\ r.kind = "CommitRecord"
      BY DEF Record, EffectRecord
    <2> HIDE DEF r, next
    <2>3. Applied(r, next)
      BY <2>0, <2>1, <2>2, EmitOutcome DEF Declined, InStep
    <2>4. /\ Apply(mem, r).grants = mem.grants /\ Apply(mem, r).ext = mem.ext
          /\ Apply(mem, r).fencedInc = mem.fencedInc /\ Apply(mem, r).frecs = mem.frecs
          /\ Apply(mem, r).domains = mem.domains
      BY <1>0, <2>2, OtherTables, ApplyFields
    <2>5. /\ mem'.grants = mem.grants /\ mem'.domains = mem.domains /\ mem'.ext = mem.ext
          /\ mem'.fencedInc = mem.fencedInc /\ mem'.frecs = mem.frecs
          /\ op'.handler = "commit" /\ op'.pc = "finish"
      BY <2>1, <2>3, <2>4 DEF Applied
    <2> QED BY <1>q, <2>0, <2>5
  <1>9. CASE Recovered
    <2>1. CASE op.result = "ok" /\ phase' = "ready" /\ op' = Free /\ mem' = mem
      <3>1. OpenGrants(mem) = {}
        BY <1>0, <1>9, <2>1 DEF Recovered, BootInv, RecoveryDone, Recovering
      <3> QED BY <2>1, <3>1, FreeFields DEF AimInv
    <2>2. CASE GoDown
      BY <1>n, <2>2 DEF GoDown
    <2> QED BY <1>9, <2>1, <2>2 DEF Recovered
  <1>10. ASSUME NEW i \in sessions, NEW d \in Domains, NEW a \in Attempts, Allocate(i, d, a)
         PROVE  AimInv'
    <2>1. /\ op = Free /\ phase = "ready" /\ op'.pc \in {"scan", "finish"} /\ op'.req.inc = i
          /\ i \notin mem.fencedInc /\ UNCHANGED <<phase, mem>>
      BY <1>10, AllocateEffect DEF Allocate, CanServe
    <2>2. op'.req.domain = d /\ op'.req.scope = mem.domains[d] /\ mem.domains[d] # {}
      BY <1>10 DEF Allocate, MayAllocate, Begin, Free, NoRequest
    <2> QED BY <2>1, <2>2, FreeFields DEF AimInv
  <1>11. ASSUME NEW d \in Domains, NEW epoch, NEW i, Fence(d, epoch, i) PROVE AimInv'
    <2>1. /\ op = Free /\ phase = "ready" /\ op'.pc = "scan" /\ op'.handler = "fence"
          /\ UNCHANGED <<phase, mem>>
      BY <1>11, FenceEffect DEF Fence, CanServe
    <2>2. op'.req.domain = d /\ op'.req.scope = mem.domains[d] /\ mem.domains[d] # {}
      BY <1>11 DEF Fence, Begin, Free, NoRequest
    <2> QED BY <2>1, <2>2, FreeFields DEF AimInv
  <1>12. ASSUME NEW c \in issued, Release(c) \/ Commit(c) PROVE AimInv'
    <2>1. op = Free /\ op'.handler \in {"release", "commit"} /\ op'.pc \in {"scan", "record"}
          /\ UNCHANGED <<phase, mem>>
      BY <1>12, ReleaseEffect, CommitEffect DEF Release, Commit, CanServe
    <2> QED BY <1>q, <2>1, FreeFields
  <1>13. CASE FenceDone
    <2>1. /\ op.handler = "fence" /\ op.pc = "scan" /\ op'.handler = "fence"
          /\ op'.pc = "finish" /\ op'.req = op.req /\ UNCHANGED <<phase, mem>>
      BY <1>0, <1>13 DEF FenceDone, Operation
    <2> QED BY <2>1 DEF AimInv
  <1>14. CASE Finish
    <2>1. op.pc = "finish" /\ op' = Free /\ UNCHANGED <<phase, mem>>
      BY <1>14 DEF Finish
    <2> QED BY <1>q, <2>1, FreeFields
  <1>15. ASSUME Refuse \/ Observe \/ (\E i \in sessions : Disconnect(i)) PROVE AimInv'
    <2>1. op = Free /\ op' = Free /\ UNCHANGED <<phase, mem>>
      BY <1>15 DEF Refuse, Observe, Disconnect, CanServe, vars
    <2> QED BY <1>q, <2>1, FreeFields
  <1>16. CASE Restart \/ Crash
    BY <1>16, <1>n DEF Restart, Crash, GoDown
  <1>17. CASE RestartFails \/ UNCHANGED vars
    BY <1>17 DEF RestartFails, vars, AimInv, Explained
  <1>18. CASE HandlerStep /\ phase # "ready"
    <2>1. CASE Recovered
      BY <1>9, <2>1
    <2>2. CASE ~Recovered
      <3>1. phase' = phase
        BY <1>18, <2>2 DEF HandlerStep, FenceVictim, MarkVictim, CloseVictim, FenceUnowned, FenceDone,
                           AdoptScope, OpenGrant, RecordCommit, EndBoot, BeginBoot, Finish
      <3> QED BY <1>18, <1>n, <3>1
    <2> QED BY <2>1, <2>2
  <1>19. CASE HandlerStep /\ phase = "ready"
    <2>1. ~MarkVictim /\ ~EndBoot /\ ~BeginBoot
      BY <1>0, <1>19 DEF HandlerShape, MarkVictim, EndBoot, BeginBoot
    <2> QED BY <1>1, <1>2, <1>3, <1>4, <1>5, <1>8, <1>9, <1>13, <1>14, <1>19, <2>1 DEF HandlerStep
  <1>20. CASE Requests
    BY <1>6, <1>7, <1>10, <1>11, <1>12, <1>15, <1>20 DEF Requests
  <1> QED BY <1>16, <1>17, <1>18, <1>19, <1>20 DEF Next

\* While memory and journal are in step and lineage and fence history have room,
\* the two audits report what AuditFindings allows and nothing else, through any
\* crash, recovery and late commit: succession goes backwards only between two
\* domains, and an open grant is found fenced or below a mark only after a fence
\* that was aimed at another domain or epoch.
THEOREM Audited ==
  Spec /\ [](InStep /\ LineageHasRoom /\ FenceHistoryHasRoom) => []AuditFindings
  <1>1. TypeInv /\ MutexInv /\ RestartInv
          => \A s \in {mem, disk} : /\ AuditState(s).epoch_regressions = {}
                                    /\ AuditState(s).duplicate_exclusive_grants = {}
    BY StateAudited, Types
       DEF MutexInv, OpenGrantsDisjoint, RestartInv, LineageInv, RegistryState
  <1>2. TypeInv /\ HistoryInv /\ EpochsMonotone
          => \A p \in AuditHistory(Credentials).fence_escapes :
               Credentials[p[1]].domain # Credentials[p[2]].domain
    <2> SUFFICES ASSUME TypeInv, HistoryInv, EpochsMonotone,
                        NEW p \in AuditHistory(Credentials).fence_escapes,
                        Credentials[p[1]].domain = Credentials[p[2]].domain
                 PROVE  FALSE
      OBVIOUS
    <2> DEFINE c == log[p[1]].cred
               b == log[p[2]].cred
    <2>1. /\ p[1] \in DOMAIN log /\ p[2] \in DOMAIN log /\ p[1] < p[2]
          /\ Credentials[p[1]] = c /\ Credentials[p[2]] = b
          /\ c.scope \cap b.scope # {} /\ c.inc # b.inc /\ Precedes(b, c)
      BY DEF AuditHistory, Handovers, Credentials
    <2>2. /\ c \in issued /\ b \in issued /\ c # b /\ c.domain = b.domain
          /\ c.token =< b.token
      BY <2>1 DEF HistoryInv
    <2> HIDE DEF c, b
    <2>3. (c.token < b.token <=> c.epoch < b.epoch) /\ c.epoch # b.epoch
      BY <2>2 DEF EpochsMonotone
    <2>4. (b.token < c.token <=> b.epoch < c.epoch)
      BY <2>2 DEF EpochsMonotone
    <2>5. c.token \in Nat /\ b.token \in Nat /\ c.epoch \in Nat /\ b.epoch \in Nat
      BY <2>2, Types
    <2>6. b.epoch < c.epoch
      BY <2>1, <2>3 DEF Precedes
    <2> QED BY <2>2, <2>4, <2>5, <2>6
  <1>3. /\ AuditHistory(Credentials).token_regressions = {}
        /\ AuditHistory(Credentials).foreign_owner_appends = {}
        /\ \A p \in AuditHistory(Credentials).fence_escapes :
             Credentials[p[1]].domain # Credentials[p[2]].domain
        /\ \A s \in {mem, disk} : /\ AuditState(s).epoch_regressions = {}
                                  /\ AuditState(s).duplicate_exclusive_grants = {}
        /\ CanServe => OpenGrantsExplained(mem)
        => AuditFindings
    BY DEF AuditFindings
  <1>4. Init => AimInv
    BY FreeFields DEF Init, AimInv
  <1>5. TypeInv /\ TypeInv' /\ RestartInv /\ RestartInv' /\ AimInv /\ FenceHistoryHasRoom
          /\ InStep' /\ [Next]_vars => AimInv'
    BY AimStep
  <1>6. AimInv => (CanServe => OpenGrantsExplained(mem))
    <2> SUFFICES ASSUME AimInv, CanServe PROVE OpenGrantsExplained(mem)
      OBVIOUS
    <2>1. \A g \in OpenGrants(mem) : Explained(mem, g)
      BY FreeFields DEF AimInv, CanServe
    <2> QED BY <2>1 DEF OpenGrantsExplained, AuditState, Explained
  <1> QED BY <1>1, <1>2, <1>3, <1>4, <1>5, <1>6, TokensInOrder, Monotone, HistoryInvariant,
             RestartInvariant, PTL DEF Spec

-----------------------------------------------------------------------------
(* Snapshots. *)

\* What deserialize() checks, and the registrations it rests on: every grant is
\* one of a registered domain.
Tabled(s) ==
  /\ IsFiniteSet(s.grants) /\ Cardinality(s.grants) =< MaxLineageEntries
  /\ Cardinality(Present(s)) =< MaxIndexedExtents
  /\ IsFiniteSet(s.frecs) /\ Cardinality(s.frecs) =< MaxFenceRecords
  /\ \A g \in s.grants : /\ g.id # 0 /\ g.epoch # 0 /\ g.scope # {}
                         /\ g.domain \in Domains /\ s.domains[g.domain] # {}
  /\ \A f \in s.frecs : f.domain # NoDomain => s.domains[f.domain] # {}

\* The record r names registered domains and gives a grant all its numbers.
Registers(s, r) ==
  /\ r.kind = "DomainDefine" => r.scope # {}
  /\ r.kind = "Fence" /\ r.domain # NoDomain => s.domains[r.domain] # {}
  /\ r.kind = "GrantOpen" => /\ r.grant.id # 0 /\ r.grant.epoch # 0 /\ r.grant.scope # {}
                             /\ r.grant.domain \in Domains /\ s.domains[r.grant.domain] # {}

\* Room is made for a grant before it enters the lineage.
LEMMA OpenTabled ==
  ASSUME NEW s \in RegistryState, NEW r \in OpenRecord, Tabled(s), CanApply(s, r), Registers(s, r)
  PROVE  Tabled(Apply(s, r))
  <1> DEFINE a == Apply(s, r)
  <1>0. r.kind = "GrantOpen" /\ r.grant \in Grant /\ r \in Record
    BY DEF OpenRecord, Record
  <1>1. /\ a.grants = Retained(s) \cup {r.grant} /\ a.ext = s.ext /\ a.frecs = s.frecs
        /\ a.domains = s.domains
    BY <1>0 DEF Apply, ApplyGrantOpen, RegistryState
  <1>2. CanOpenGrant(s, r.grant)
    BY <1>0 DEF CanApply
  <1>3. IsFiniteSet(s.grants) /\ Cardinality(s.grants) \in Nat /\ MaxLineageEntries \in Nat
        /\ Cardinality(s.grants) =< MaxLineageEntries
    BY FS_CardinalityType, LimitsAssumption DEF Tabled
  <1>4. /\ IsFiniteSet(Retained(s)) /\ Retained(s) \subseteq s.grants
        /\ Cardinality(Retained(s)) < MaxLineageEntries
    <2>1. CASE Cardinality(s.grants) < MaxLineageEntries
      BY <1>3, <2>1 DEF Retained
    <2>2. CASE ~(Cardinality(s.grants) < MaxLineageEntries)
      <3> DEFINE o == Oldest(s.grants \ OpenGrants(s))
      <3>1. s.grants \ OpenGrants(s) # {}
        BY <1>2, <2>2 DEF CanOpenGrant, OpenGrants
      <3>2. s.grants \ OpenGrants(s) \in SUBSET Grant
        BY DEF RegistryState
      <3>3. o \in s.grants
        BY <3>1, <3>2, OldestInSet
      <3>4. Retained(s) = s.grants \ {o}
        BY <2>2 DEF Retained
      <3> HIDE DEF o
      <3> QED BY <1>3, <3>3, <3>4, FS_RemoveElement
    <2> QED BY <2>1, <2>2
  <1>5. IsFiniteSet(a.grants) /\ Cardinality(a.grants) =< MaxLineageEntries
    <2>1. Cardinality(Retained(s)) \in Nat
      BY <1>4, FS_CardinalityType
    <2>2. /\ IsFiniteSet(Retained(s) \cup {r.grant})
          /\ \/ Cardinality(Retained(s) \cup {r.grant}) = Cardinality(Retained(s))
             \/ Cardinality(Retained(s) \cup {r.grant}) = Cardinality(Retained(s)) + 1
      BY <1>4, FS_AddElement
    <2> HIDE DEF a
    <2> QED BY <1>1, <1>3, <1>4, <2>1, <2>2
  <1>6. \A g \in a.grants : /\ g.id # 0 /\ g.epoch # 0 /\ g.scope # {}
                            /\ g.domain \in Domains /\ a.domains[g.domain] # {}
    BY <1>0, <1>1, <1>4 DEF Tabled, Registers
  <1>7. Present(a) = Present(s)
    BY <1>1 DEF Present
  <1> HIDE DEF a
  <1> QED BY <1>1, <1>5, <1>6, <1>7 DEF Tabled, a

\* Closing a grant adds none.
LEMMA CloseTabled ==
  ASSUME NEW s \in RegistryState, NEW r \in CloseRecord, Tabled(s)
  PROVE  Tabled(Apply(s, r))
  <1> DEFINE a == Apply(s, r)
             c(h) == IF h.id = r.id /\ IsOpen(h) THEN [h EXCEPT !.state = r.state] ELSE h
             f == [h \in s.grants |-> c(h)]
  <1>1. /\ a.grants = {c(h) : h \in s.grants} /\ a.ext = s.ext /\ a.frecs = s.frecs
        /\ a.domains = s.domains
    BY DEF CloseRecord, Apply, ApplyGrantClose, RegistryState
  <1>2. ASSUME NEW h \in s.grants
        PROVE  c(h).id = h.id /\ c(h).domain = h.domain /\ c(h).scope = h.scope
               /\ c(h).epoch = h.epoch
    BY DEF RegistryState, Grant
  <1>3. Present(a) = Present(s)
    BY <1>1 DEF Present
  <1> HIDE DEF a, c
  <1>4. f \in Surjection(s.grants, a.grants)
    BY <1>1 DEF Surjection
  <1>5. IsFiniteSet(a.grants) /\ Cardinality(a.grants) =< Cardinality(s.grants)
    BY <1>4, FS_Surjection DEF Tabled
  <1>6. Cardinality(a.grants) =< MaxLineageEntries
    <2>1. Cardinality(a.grants) \in Nat /\ Cardinality(s.grants) \in Nat /\ MaxLineageEntries \in Nat
      BY <1>5, FS_CardinalityType, LimitsAssumption DEF Tabled
    <2> QED BY <1>5, <2>1 DEF Tabled
  <1>7. \A g \in a.grants : /\ g.id # 0 /\ g.epoch # 0 /\ g.scope # {}
                            /\ g.domain \in Domains /\ a.domains[g.domain] # {}
    BY <1>1, <1>2 DEF Tabled
  <1> QED BY <1>1, <1>3, <1>5, <1>6, <1>7 DEF Tabled, a

\* The extents a fence or an adoption touches fit into the table.
LEMMA PresentBounded ==
  ASSUME NEW s \in RegistryState, NEW a, NEW scope \in SUBSET Extents, TableHasRoom(s, scope),
         Present(a) \subseteq Present(s) \cup scope
  PROVE  Cardinality(Present(a)) =< MaxIndexedExtents
  <1>1. IsFiniteSet(Present(s)) /\ IsFiniteSet(scope)
    BY TablesAssumption, FS_Subset DEF Present
  <1>2. /\ IsFiniteSet(Present(s) \cup scope)
        /\ Cardinality(Present(s) \cup scope)
             = Cardinality(Present(s)) + Cardinality(scope) - Cardinality(Present(s) \cap scope)
    BY <1>1, FS_Union
  <1>3. /\ Cardinality(Present(s)) \in Nat /\ Cardinality(scope) \in Nat
        /\ Cardinality(Present(s) \cap scope) \in Nat
    BY <1>1, FS_CardinalityType, FS_Intersection
  <1>4. /\ Cardinality(Present(a)) =< Cardinality(Present(s) \cup scope)
        /\ Cardinality(Present(a)) \in Nat
    BY <1>2, FS_Subset, FS_CardinalityType
  <1>5. Cardinality(Present(s)) + Cardinality(scope) =< MaxIndexedExtents /\ MaxIndexedExtents \in Nat
    BY LimitsAssumption DEF TableHasRoom
  <1> QED BY <1>2, <1>3, <1>4, <1>5

\* The fence history makes room before it takes a record.
LEMMA TrimmedBounded ==
  ASSUME NEW s \in RegistryState, Tabled(s)
  PROVE  /\ Trimmed(s) \subseteq s.frecs /\ IsFiniteSet(Trimmed(s))
         /\ Cardinality(Trimmed(s)) < MaxFenceRecords
  <1>1. /\ IsFiniteSet(s.frecs) /\ Cardinality(s.frecs) \in Nat /\ MaxFenceRecords \in Nat \ {0}
        /\ Cardinality(s.frecs) =< MaxFenceRecords
    BY FS_CardinalityType, LimitsAssumption DEF Tabled
  <1>2. Trimmed(s) \subseteq s.frecs
    BY DEF Trimmed
  <1>3. IsFiniteSet(Trimmed(s)) /\ Cardinality(Trimmed(s)) \in Nat
        /\ Cardinality(Trimmed(s)) =< Cardinality(s.frecs)
    BY <1>1, <1>2, FS_Subset, FS_CardinalityType
  <1>4. CASE Cardinality(s.frecs) < MaxFenceRecords
    BY <1>1, <1>2, <1>3, <1>4
  <1>5. CASE ~(Cardinality(s.frecs) < MaxFenceRecords)
    <2>1. s.frecs # {}
      BY <1>1, <1>5, FS_EmptySet
    <2> DEFINE T == {f.token : f \in s.frecs}
    <2>2. T \in SUBSET Nat /\ T # {}
      BY <2>1 DEF RegistryState, FenceRecord
    <2>3. \E x \in T : \A y \in T : x =< y
      <3> HIDE DEF T
      <3> QED BY <2>2, NatLeast
    <2>4. PICK f \in s.frecs : \A h \in s.frecs : f.token =< h.token
      BY <2>3
    <2>5. \A h \in s.frecs : h.token \in Nat
      BY DEF RegistryState, FenceRecord
    <2>6. f \notin Trimmed(s)
      BY <1>5, <2>4, <2>5 DEF Trimmed
    <2>7. Cardinality(Trimmed(s)) # Cardinality(s.frecs)
      BY <1>1, <1>2, <2>6, FS_Subset
    <2> QED BY <1>1, <1>2, <1>3, <2>7
  <1> QED BY <1>4, <1>5

\* A fence that the table accepts keeps within the bounds.
LEMMA FenceTabled ==
  ASSUME NEW s \in RegistryState, NEW r \in FenceRecords, Tabled(s), CanApply(s, r), Registers(s, r)
  PROVE  Tabled(Apply(s, r))
  <1> DEFINE a == Apply(s, r)
             n == [token |-> r.token, domain |-> r.domain, epoch |-> r.epoch, inc |-> r.inc]
  <1>0. r.kind = "Fence" /\ r.scope \in SUBSET Extents
    BY DEF FenceRecords
  <1>1. /\ a.grants = s.grants /\ a.frecs = Trimmed(s) \cup {n} /\ a.domains = s.domains
        /\ \A e \in Extents : a.ext[e].hw = IF e \in r.scope THEN r.token ELSE s.ext[e].hw
    BY <1>0 DEF Apply, ApplyFence, RegistryState
  <1>2. Cardinality(Present(a)) =< MaxIndexedExtents
    <2>1. Present(a) \subseteq Present(s) \cup r.scope
      BY <1>1 DEF Present
    <2>2. TableHasRoom(s, r.scope)
      BY <1>0 DEF CanApply, CanFence
    <2> HIDE DEF a
    <2> QED BY <1>0, <2>1, <2>2, PresentBounded
  <1>3. IsFiniteSet(a.frecs) /\ Cardinality(a.frecs) =< MaxFenceRecords
    <2>1. /\ IsFiniteSet(Trimmed(s)) /\ Cardinality(Trimmed(s)) < MaxFenceRecords
          /\ Cardinality(Trimmed(s)) \in Nat /\ MaxFenceRecords \in Nat
      BY TrimmedBounded, FS_CardinalityType, LimitsAssumption
    <2> HIDE DEF n
    <2> QED BY <1>1, <2>1, FS_AddElement
  <1>4. \A f \in a.frecs : f.domain # NoDomain => a.domains[f.domain] # {}
    BY <1>0, <1>1, TrimmedBounded DEF Tabled, Registers
  <1> HIDE DEF a, n
  <1> QED BY <1>1, <1>2, <1>3, <1>4 DEF Tabled, a

\* Every record that applies leaves a state that can be loaded.
LEMMA ApplyTabled ==
  ASSUME NEW s \in RegistryState, NEW r \in Record, Tabled(s), CanApply(s, r), Registers(s, r)
  PROVE  Tabled(Apply(s, r))
  <1> DEFINE a == Apply(s, r)
  <1>q. ASSUME a.grants = s.grants, a.frecs = s.frecs, a.ext = s.ext, a.domains = s.domains
        PROVE  Tabled(a)
    BY <1>q DEF Tabled, Present
  <1>1. CASE r \in BootRecord \cup MarkRecord \cup EffectRecord
    <2>1. CASE r \in BootRecord
      BY <1>q, <2>1 DEF BootRecord, Apply, RegistryState
    <2>2. CASE r \in MarkRecord \cup EffectRecord
      BY <1>q, <2>2 DEF MarkRecord, EffectRecord, Apply, RegistryState
    <2> QED BY <1>1, <2>1, <2>2
  <1>2. CASE r \in DomainRecord
    <2>1. /\ a.grants = s.grants /\ a.frecs = s.frecs /\ a.ext = s.ext
          /\ a.domains = [s.domains EXCEPT ![r.domain] = r.scope]
      BY <1>2 DEF DomainRecord, Apply, RegistryState
    <2>2. /\ \A f \in s.frecs : f.domain \in Domains \cup {NoDomain}
          /\ \A d \in Domains : s.domains[d] # {} => a.domains[d] # {}
      BY <1>2, <2>1 DEF DomainRecord, Registers, RegistryState, FenceRecord
    <2>3. Present(a) = Present(s)
      BY <2>1 DEF Present
    <2> HIDE DEF a
    <2> QED BY <2>1, <2>2, <2>3 DEF Tabled, a
  <1>3. CASE r \in OpenRecord
    BY <1>3, OpenTabled
  <1>4. CASE r \in CloseRecord
    BY <1>4, CloseTabled
  <1>5. CASE r \in FenceRecords
    BY <1>5, FenceTabled
  <1>6. CASE r \in AdoptRecord
    <2>0. r.kind = "ExtentAdopt" /\ r.scope \in SUBSET Extents
      BY <1>6 DEF AdoptRecord
    <2>1. /\ a.grants = s.grants /\ a.frecs = s.frecs /\ a.domains = s.domains
          /\ \A e \in Extents : a.ext[e].hw = IF e \in r.scope THEN r.token ELSE s.ext[e].hw
      BY <2>0 DEF Apply, ApplyAdopt, RegistryState
    <2>2. Present(a) \subseteq Present(s) \cup r.scope
      BY <2>1 DEF Present
    <2>3. TableHasRoom(s, r.scope)
      BY <2>0 DEF CanApply, CanAdopt
    <2> HIDE DEF a
    <2>4. Cardinality(Present(a)) =< MaxIndexedExtents
      BY <2>0, <2>2, <2>3, PresentBounded
    <2> QED BY <2>1, <2>4 DEF Tabled, a
  <1> QED BY <1>1, <1>2, <1>3, <1>4, <1>5, <1>6 DEF Record

\* Two states with the same four tables.
SameTables(s, t) ==
  s.domains = t.domains /\ s.grants = t.grants /\ s.ext = t.ext /\ s.frecs = t.frecs

\* What a record does to the tables, and whether it may, depends on them alone.
LEMMA ApplySameTables ==
  ASSUME NEW s \in RegistryState, NEW t \in RegistryState, SameTables(s, t), NEW r \in Record
  PROVE  /\ SameTables(Apply(s, r), Apply(t, r))
         /\ CanApply(s, r) <=> CanApply(t, r)
  <1>1. CanApply(s, r) <=> CanApply(t, r)
    <2>1. CanFence(s, r) <=> CanFence(t, r)
      BY DEF SameTables, CanFence, TableHasRoom, Present
    <2>2. CanAdopt(s, r) <=> CanAdopt(t, r)
      BY DEF SameTables, CanAdopt, TableHasRoom, Present
    <2>3. CanOpenGrant(s, r.grant) <=> CanOpenGrant(t, r.grant)
      BY DEF SameTables, CanOpenGrant, MaxEpoch, OpenGrants
    <2> QED BY <2>1, <2>2, <2>3 DEF CanApply
  <1>2. Apply(s, r).grants = Apply(t, r).grants
    BY ApplySameLineage DEF SameTables
  <1>3. /\ Apply(s, r).domains = Apply(t, r).domains /\ Apply(s, r).ext = Apply(t, r).ext
        /\ Apply(s, r).frecs = Apply(t, r).frecs
    <2>1. CASE r \in BootRecord
      BY <2>1 DEF BootRecord, Apply, RegistryState, SameTables
    <2>2. CASE r \in DomainRecord \cup MarkRecord \cup EffectRecord
      BY <2>2 DEF DomainRecord, MarkRecord, EffectRecord, Apply, RegistryState, SameTables
    <2>3. CASE r \in OpenRecord \cup CloseRecord
      BY <2>3 DEF OpenRecord, CloseRecord, Apply, ApplyGrantOpen, ApplyGrantClose, RegistryState,
                  SameTables
    <2>4. CASE r \in FenceRecords
      BY <2>4 DEF FenceRecords, Apply, ApplyFence, Trimmed, RegistryState, SameTables
    <2>5. CASE r \in AdoptRecord
      BY <2>5 DEF AdoptRecord, Apply, ApplyAdopt, RegistryState, SameTables
    <2> QED BY <2>1, <2>2, <2>3, <2>4, <2>5 DEF Record
  <1> QED BY <1>1, <1>2, <1>3 DEF SameTables

\* Both images can be loaded, they hold the same tables while in step, and the
\* request in hand is for a registered domain.
TableInv ==
  /\ Tabled(mem) /\ Tabled(disk)
  /\ phase # "down" /\ ~mem.ahead => SameTables(mem, disk)
  /\ op.handler \in {"allocate", "fence"} =>
       /\ op.req.domain \in Domains /\ op.req.scope # {} /\ mem.domains[op.req.domain] # {}
  /\ op.pc = "open" =>
       /\ op.target.id # 0 /\ op.target.epoch # 0 /\ op.target.scope # {}
       /\ op.target.domain \in Domains /\ mem.domains[op.target.domain] # {}

\* An emitting step writes a record of registered domains only.
LEMMA MovesRegister ==
  ASSUME TypeInv, TableInv, NEW r \in Record, NEW next \in Operation, Moves(r, next)
  PROVE  Registers(mem, r)
  <1>1. r.kind = "DomainDefine" => r.scope # {}
    BY DEF Moves
  <1>2. r.kind = "Fence" /\ r.domain # NoDomain => mem.domains[r.domain] # {}
    <2>1. \A g \in Victims : mem.domains[g.domain] # {}
      BY VictimsAreOpen DEF TypeInv, OpenGrants, TableInv, Tabled
    <2> QED BY <2>1 DEF Moves, TableInv
  <1>3. r.kind = "GrantOpen" => r.grant = op.target /\ op.pc = "open"
    BY DEF Moves
  <1> QED BY <1>1, <1>2, <1>3 DEF Registers, TableInv

\* A registered domain stays registered.
LEMMA DomainsStay ==
  ASSUME NEW s \in RegistryState, NEW r \in Record, Registers(s, r), NEW d \in Domains,
         s.domains[d] # {}
  PROVE  Apply(s, r).domains[d] # {}
  <1>1. CASE r \in BootRecord
    BY <1>1 DEF BootRecord, Apply, RegistryState
  <1>2. CASE r \in DomainRecord
    <2>1. Apply(s, r).domains = [s.domains EXCEPT ![r.domain] = r.scope]
      BY <1>2 DEF DomainRecord, Apply, RegistryState
    <2> QED BY <1>2, <2>1 DEF DomainRecord, Registers, RegistryState
  <1>3. CASE r \in MarkRecord \cup EffectRecord
    BY <1>3 DEF MarkRecord, EffectRecord, Apply, RegistryState
  <1>4. CASE r \in OpenRecord \cup CloseRecord
    BY <1>4 DEF OpenRecord, CloseRecord, Apply, ApplyGrantOpen, ApplyGrantClose, RegistryState
  <1>5. CASE r \in FenceRecords \cup AdoptRecord
    BY <1>5 DEF FenceRecords, AdoptRecord, Apply, ApplyFence, ApplyAdopt, RegistryState
  <1> QED BY <1>1, <1>2, <1>3, <1>4, <1>5 DEF Record

\* A state with fewer fence records and the same other tables loads as well.
LEMMA FewerRecordsTabled ==
  ASSUME NEW s, Tabled(s), NEW t, t.grants = s.grants, t.ext = s.ext, t.domains = s.domains,
         t.frecs \subseteq s.frecs
  PROVE  Tabled(t)
  <1>1. /\ IsFiniteSet(t.frecs) /\ Cardinality(t.frecs) =< Cardinality(s.frecs)
        /\ Cardinality(t.frecs) \in Nat /\ Cardinality(s.frecs) \in Nat /\ MaxFenceRecords \in Nat
    BY FS_Subset, FS_CardinalityType, LimitsAssumption DEF Tabled
  <1>2. Cardinality(t.frecs) =< MaxFenceRecords
    BY <1>1 DEF Tabled
  <1>3. Present(t) = Present(s)
    BY DEF Present
  <1> QED BY <1>1, <1>2, <1>3 DEF Tabled

\* Every step leaves both images loadable.
LEMMA TableStep ==
  ASSUME TypeInv, HandlerShape, TableInv, [Next]_vars
  PROVE  TableInv'
  <1>0. /\ mem \in RegistryState /\ disk \in RegistryState /\ op \in Operation
        /\ Sound(mem) /\ mem.gid \in Nat
    BY Types DEF TypeInv
  <1>q. ASSUME UNCHANGED <<phase, mem, disk>>, op'.pc # "open",
               op'.handler \notin {"allocate", "fence"}
        PROVE  TableInv'
    BY <1>q DEF TableInv
  <1>d. ASSUME GoDown, disk' = disk PROVE TableInv'
    <2>1. phase' = "down" /\ mem' = Blank /\ op'.pc # "open" /\ op'.handler = "free"
      BY <1>d, FreeFields DEF GoDown
    <2>2. Tabled(Blank)
      <3>1. Blank.grants = {} /\ Blank.frecs = {} /\ Present(Blank) = {}
        BY DEF Blank, Present
      <3>2. {MaxLineageEntries, MaxFenceRecords, MaxIndexedExtents} \subseteq Nat
        BY LimitsAssumption
      <3> QED BY <3>1, <3>2, FS_EmptySet DEF Tabled
    <2> QED BY <1>d, <2>1, <2>2 DEF TableInv
  <1>k. ASSUME Checkpoint, mem' = mem, phase' # "down", phase # "down", op' = Free
        PROVE  TableInv'
    <2>1. disk' = disk \/ SameTables(mem, disk')
      BY <1>0, <1>k DEF Checkpoint, Import, RegistryState, SameTables
    <2>2. SameTables(mem, disk') => Tabled(disk')
      <3> SUFFICES ASSUME SameTables(mem, disk') PROVE Tabled(disk')
        OBVIOUS
      <3>1. /\ disk'.grants = mem.grants /\ disk'.ext = mem.ext /\ disk'.domains = mem.domains
            /\ disk'.frecs \subseteq mem.frecs
        BY DEF SameTables
      <3> QED BY <3>1, FewerRecordsTabled DEF TableInv
    <2> QED BY <1>k, <2>1, <2>2, FreeFields DEF TableInv
  <1>1. CASE Emitting
    <2>0. phase # "down"
      BY <1>1, EmittingUp
    <2>1. PICK r \in Record, next \in Operation :
            /\ Moves(r, next)
            /\ Applied(r, next) \/ Declined(r)
            /\ UNCHANGED <<phase, sessions, issued, log, floor>>
      BY <1>1, EmittingMoves
    <2>2. Registers(mem, r)
      BY <2>1, MovesRegister
    <2>3. CASE Declined(r)
      <3>1. Tabled(mem')
        BY <2>3, FewerRecordsTabled DEF Declined, TableInv
      <3> QED BY <2>3, <3>1 DEF Declined, TableInv
    <2>4. CASE Applied(r, next)
      <3>1. CanApply(mem, r) /\ SameTables(mem', Apply(mem, r))
        BY <2>4 DEF Applied, SameTables
      <3>2. Tabled(Apply(mem, r))
        BY <1>0, <2>2, <3>1, ApplyTabled DEF TableInv
      <3>3. Tabled(mem')
        <4>1. /\ mem'.grants = Apply(mem, r).grants /\ mem'.ext = Apply(mem, r).ext
              /\ mem'.domains = Apply(mem, r).domains /\ mem'.frecs \subseteq Apply(mem, r).frecs
          BY <3>1 DEF SameTables
        <4> QED BY <3>2, <4>1, FewerRecordsTabled
      <3>4. ~mem.ahead => Tabled(Apply(disk, r)) /\ SameTables(mem', Apply(disk, r))
        <4> SUFFICES ASSUME ~mem.ahead
                     PROVE  Tabled(Apply(disk, r)) /\ SameTables(mem', Apply(disk, r))
          OBVIOUS
        <4>1. SameTables(mem, disk)
          BY <2>0 DEF TableInv
        <4>2. CanApply(disk, r) /\ SameTables(Apply(mem, r), Apply(disk, r))
          BY <1>0, <3>1, <4>1, ApplySameTables
        <4>3. Registers(disk, r)
          BY <2>2, <4>1 DEF Registers, SameTables
        <4>4. Tabled(Apply(disk, r))
          BY <1>0, <4>2, <4>3, ApplyTabled DEF TableInv
        <4> QED BY <3>1, <4>2, <4>4 DEF SameTables
      <3>5. Tabled(disk')
        BY <2>4, <3>4 DEF Applied, TableInv
      <3>6. ~mem'.ahead => SameTables(mem', disk')
        BY <2>4, <3>4 DEF Applied
      <3>7. \A d \in Domains : mem.domains[d] # {} => mem'.domains[d] # {}
        BY <1>0, <2>2, <3>1, DomainsStay DEF SameTables
      <3>8. op'.handler \in {"allocate", "fence"} => op.handler = op'.handler /\ op'.req = op.req
        BY <2>1, <2>4 DEF Applied, Moves, Continues
      <3>9. op'.pc = "open" =>
              /\ op'.target.id # 0 /\ op'.target.epoch # 0 /\ op'.target.scope # {}
              /\ op'.target.domain \in Domains /\ mem'.domains[op'.target.domain] # {}
        <4> SUFFICES ASSUME op'.pc = "open"
                     PROVE  /\ op'.target.id # 0 /\ op'.target.epoch # 0
                            /\ op'.target.scope # {} /\ op'.target.domain \in Domains
                            /\ mem'.domains[op'.target.domain] # {}
          OBVIOUS
        <4>1. op.handler = "allocate" /\ op'.target = NewGrant
          BY <2>1, <2>4 DEF Moves, Continues, Applied, AfterFence
        <4>2. /\ NewGrant.id = mem.gid + 1 /\ NewGrant.domain = op.req.domain
              /\ NewGrant.scope = op.req.scope
              /\ NewGrant.epoch = MaxEpoch(mem, op.req.domain) + 1
          BY DEF NewGrant
        <4>3. MaxEpoch(mem, op.req.domain) \in Nat
          BY <1>0, MaxEpochBounded
        <4>4. /\ op.req.domain \in Domains /\ op.req.scope # {} /\ mem.domains[op.req.domain] # {}
          BY <4>1 DEF TableInv
        <4> QED BY <1>0, <3>7, <4>1, <4>2, <4>3, <4>4
      <3> QED BY <3>3, <3>5, <3>6, <3>7, <3>8, <3>9 DEF TableInv
    <2> QED BY <2>1, <2>3, <2>4
  <1>2. ASSUME NEW i \in sessions, Disconnect(i) PROVE TableInv'
    BY <1>2, <1>q, FreeFields DEF Disconnect, CanServe
  <1>3. ASSUME NEW i \in sessions, NEW d \in Domains, NEW a \in Attempts, Allocate(i, d, a)
        PROVE  TableInv'
    <2>1. op'.pc # "open" /\ UNCHANGED <<phase, mem, disk>>
      BY <1>3, AllocateEffect
    <2>2. op'.req.domain = d /\ op'.req.scope = mem.domains[d] /\ mem.domains[d] # {}
      BY <1>3 DEF Allocate, MayAllocate, Begin, Free, NoRequest
    <2> QED BY <2>1, <2>2 DEF TableInv
  <1>4. ASSUME NEW d \in Domains, NEW epoch, NEW i, Fence(d, epoch, i) PROVE TableInv'
    <2>1. op'.pc # "open" /\ UNCHANGED <<phase, mem, disk>>
      BY <1>4, FenceEffect
    <2>2. op'.req.domain = d /\ op'.req.scope = mem.domains[d] /\ mem.domains[d] # {}
      BY <1>4 DEF Fence, Begin, Free, NoRequest
    <2> QED BY <2>1, <2>2 DEF TableInv
  <1>5. ASSUME NEW c \in issued, Release(c) \/ Commit(c) PROVE TableInv'
    BY <1>5, <1>q, ReleaseEffect, CommitEffect
  <1>6. CASE FenceDone
    <2>1. op'.pc # "open" /\ op'.req = op.req /\ op.handler = "fence" /\ UNCHANGED <<phase, mem, disk>>
      BY <1>0, <1>6 DEF FenceDone, Operation
    <2> QED BY <2>1 DEF TableInv
  <1>7. CASE EndBoot /\ mem.openBoots = {}
    <2>1. /\ op'.pc # "open" /\ op'.handler = "recover" /\ UNCHANGED <<phase, mem, disk>>
      BY <1>0, <1>7 DEF EndBoot, Operation, HandlerShape
    <2> QED BY <1>q, <2>1
  <1>8. CASE Recovered
    <2>1. phase # "down"
      BY <1>8 DEF Recovered, HandlerShape
    <2> QED BY <1>8, <1>d, <1>k, <2>1 DEF Recovered
  <1>9. CASE Finish
    <2>1. phase = "ready" /\ phase' = phase
      BY <1>9, ServingIsReady DEF Finish
    <2> QED BY <1>9, <1>k, <2>1 DEF Finish
  <1>10. CASE Restart
    <2>1. /\ disk' = disk /\ SameTables(mem', disk) /\ op'.pc = "boots" /\ op'.handler = "recover"
      BY <1>0, <1>10 DEF Restart, Rebuild, RegistryState, SameTables, Begin, Free
    <2>2. Tabled(mem')
      <3>1. /\ mem'.grants = disk.grants /\ mem'.ext = disk.ext
            /\ mem'.domains = disk.domains /\ mem'.frecs \subseteq disk.frecs
        BY <2>1 DEF SameTables
      <3> QED BY <3>1, FewerRecordsTabled DEF TableInv
    <2> QED BY <2>1, <2>2 DEF TableInv
  <1>11. CASE Crash
    BY <1>11, <1>d DEF Crash
  <1>12. CASE Observe \/ RestartFails \/ UNCHANGED vars
    BY <1>12 DEF Observe, RestartFails, vars, TableInv
  <1>13. CASE Refuse
    BY <1>13, <1>k DEF Refuse, CanServe
  <1> QED BY <1>1, <1>2, <1>3, <1>4, <1>5, <1>6, <1>7, <1>8, <1>9, <1>10, <1>11, <1>12, <1>13
          DEF Next, Requests, HandlerStep, Emitting

\* Whatever a checkpoint stores, and whatever a crash leaves to be replayed, passes
\* the checks deserialize() makes of the tables.
THEOREM Loadable == Spec => []SnapshotLoadable
  <1>1. Init => TableInv
    <2>1. ASSUME Init PROVE TableInv
      <3>1. mem = Blank /\ disk = Blank /\ op.pc # "open" /\ op.handler = "free" /\ phase = "down"
        BY <2>1, FreeFields DEF Init
      <3>2. Tabled(Blank)
        <4>1. Blank.grants = {} /\ Blank.frecs = {} /\ Present(Blank) = {}
          BY DEF Blank, Present
        <4>2. {MaxLineageEntries, MaxFenceRecords, MaxIndexedExtents} \subseteq Nat
          BY LimitsAssumption
        <4> QED BY <4>1, <4>2, FS_EmptySet DEF Tabled
      <3> QED BY <3>1, <3>2 DEF TableInv
    <2> QED BY <2>1
  <1>2. TypeInv /\ RestartInv /\ TableInv /\ [Next]_vars => TableInv'
    BY TableStep DEF RestartInv
  <1>3. ASSUME NEW s \in RegistryState, Tabled(s), Ordered(s.grants), Disjoint(OpenGrants(s))
        PROVE  ImportAccepts(s)
    <2>0. \A g \in s.grants : g.id \in Nat /\ g.epoch \in Nat
      BY DEF RegistryState, Grant
    <2>1. \A g, h \in s.grants : g.id = h.id => g = h
      BY <1>3, <2>0 DEF Ordered, Before
    <2>2. EpochsInOrder(s.grants)
      BY <1>3, <2>0 DEF Ordered, Before, EpochsInOrder
    <2>3. ASSUME NEW g \in OpenGrants(s), NEW h \in OpenGrants(s), g # h
          PROVE  <<g.domain, g.scope>> # <<h.domain, h.scope>>
      <3>1. g.scope # {} /\ g.scope \cap h.scope = {}
        BY <1>3, <2>3 DEF Disjoint, Tabled, OpenGrants
      <3> QED BY <3>1
    <2>4. \A g \in s.grants : g.id # 0 /\ g.domain # NoDomain /\ g.epoch # 0
      BY <1>3, TablesAssumption DEF Tabled
    <2> QED BY <1>3, <2>1, <2>2, <2>3, <2>4 DEF ImportAccepts, Tabled
  <1>4. TypeInv /\ MutexInv /\ RestartInv /\ TableInv => SnapshotLoadable
    BY <1>3, Types
       DEF SnapshotLoadable, TableInv, RestartInv, LineageInv, MutexInv, OpenGrantsDisjoint
  <1> QED BY <1>1, <1>2, <1>4, RestartInvariant, PTL DEF Spec

=============================================================================
