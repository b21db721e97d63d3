--------------------------- MODULE RegistryTables ---------------------------
(***************************************************************************)
(* The registry's durable state as a value: domains, the lineage and the   *)
(* fence tables, the counters, and RegistryState::apply, the one code path *)
(* through which live handlers and journal replay change it.               *)
(***************************************************************************)
EXTENDS Integers, FiniteSets, FiniteSetsExt

CONSTANTS
  Domains,            \* control domain ids
  NoDomain,           \* the absent domain id
  Extents,            \* fabric extents
  MaxLineageEntries,  \* limits::kMaxLineageEntries
  MaxFenceRecords,    \* limits::kMaxFenceRecords
  MaxIndexedExtents   \* limits::kMaxIndexedExtents

ASSUME TablesAssumption ==
  /\ NoDomain \notin Domains
  /\ IsFiniteSet(Extents)

\* The three limits are fixed in the code; none is zero.
ASSUME LimitsAssumption ==
  {MaxLineageEntries, MaxFenceRecords, MaxIndexedExtents} \subseteq Nat \ {0}

-----------------------------------------------------------------------------
(* Data.  0 is the unset value of every counter type, as in ids.hpp. *)

GrantStates == {"Open", "Closed", "Fenced", "Interrupted"}

Grant == [id: Nat, domain: Domains \cup {NoDomain}, scope: SUBSET Extents,
          epoch: Nat, inc: Nat, attempt: Nat, token: Nat, boot: Nat,
          state: GrantStates]

NoGrant == [id |-> 0, domain |-> NoDomain, scope |-> {}, epoch |-> 0, inc |-> 0,
            attempt |-> 0, token |-> 0, boot |-> 0, state |-> "Closed"]

FenceRecord == [token: Nat, domain: Domains \cup {NoDomain}, epoch: Nat, inc: Nat]

Mark == [hw: Nat, owner: Nat]

RegistryState ==
  [domains: [Domains -> SUBSET Extents],  \* {} while unregistered
   grants: SUBSET Grant,                  \* LineageTable::grants_, oldest id first
   ext: [Extents -> Mark],                \* FenceTable::extents_, hw = 0 while absent
   fencedInc: SUBSET Nat,
   fencedEpoch: SUBSET ((Domains \cup {NoDomain}) \X Nat),
   frecs: SUBSET FenceRecord,             \* FenceTable::records_, by token
   marks: SUBSET Nat,                     \* grants with an InterruptMark
   openBoots: SUBSET Nat,                 \* boots without an end record
   tok: Nat, gid: Nat, inc: Nat,          \* the three durable counters
   boot: Nat,                             \* incarnation of the current boot
   ahead: BOOLEAN]                        \* registry_sequence_ # Store::last_sequence_

Blank ==
  [domains |-> [d \in Domains |-> {}], grants |-> {},
   ext |-> [e \in Extents |-> [hw |-> 0, owner |-> 0]],
   fencedInc |-> {}, fencedEpoch |-> {}, frecs |-> {}, marks |-> {},
   openBoots |-> {}, tok |-> 0, gid |-> 0, inc |-> 0, boot |-> 0, ahead |-> FALSE]

-----------------------------------------------------------------------------
(* LineageTable. *)

IsOpen(g) == g.state = "Open"

OpenGrants(s) == {g \in s.grants : IsOpen(g)}

\* The grant with the lowest id: open_grants() sorts by id, grants_ grows by id.
Oldest(G) == CHOOSE g \in G : \A h \in G : g.id =< h.id

\* Mutant of MaxEpoch: only open grants count.
MaxOpenEpoch(s, d) == Max({0} \cup {g.epoch : g \in {h \in OpenGrants(s) : h.domain = d}})

MaxEpoch(s, d) == Max({0} \cup {g.epoch : g \in {h \in s.grants : h.domain = d}})

\* open_grant() makes room by dropping the oldest grant that is not open.
Retained(s) ==
  IF Cardinality(s.grants) < MaxLineageEntries
  THEN s.grants
  ELSE s.grants \ {Oldest(s.grants \ OpenGrants(s))}

CanOpenGrant(s, g) ==
  /\ \A h \in s.grants : h.id # g.id
  /\ g.epoch >= MaxEpoch(s, g.domain)
  /\ \A h \in OpenGrants(s) : ~(h.domain = g.domain /\ h.scope = g.scope)
  /\ Cardinality(s.grants) < MaxLineageEntries \/ s.grants # OpenGrants(s)

Raise(counter, value) == IF value > counter THEN value ELSE counter

ApplyGrantOpen(s, r) ==
  [s EXCEPT !.gid = Raise(s.gid, r.grant.id),
            !.tok = Raise(s.tok, r.grant.token),
            !.grants = Retained(s) \cup {r.grant}]

ApplyGrantClose(s, r) ==
  [s EXCEPT !.grants = {IF g.id = r.id /\ IsOpen(g) THEN [g EXCEPT !.state = r.state] ELSE g
                          : g \in s.grants}]

-----------------------------------------------------------------------------
(* FenceTable. *)

Present(s) == {e \in Extents : s.ext[e].hw > 0}

\* The bound counts the whole scope, extents that are already present included.
TableHasRoom(s, scope) ==
  Cardinality(Present(s)) + Cardinality(scope) =< MaxIndexedExtents

CanFence(s, r) ==
  /\ TableHasRoom(s, r.scope)
  /\ \A e \in r.scope : s.ext[e].hw =< r.token

CanAdopt(s, r) ==
  /\ TableHasRoom(s, r.scope)
  /\ \A e \in r.scope : /\ s.ext[e].hw =< r.token
                        /\ s.ext[e].hw = r.token => s.ext[e].owner = r.inc

\* The history is bounded: the oldest record goes before a new one comes.
Trimmed(s) ==
  IF Cardinality(s.frecs) < MaxFenceRecords
  THEN s.frecs
  ELSE {f \in s.frecs : \E h \in s.frecs : h.token < f.token}

\* A full table of fenced incarnations or epochs drops the new entry silently.
AddBounded(S, x) == IF Cardinality(S) < MaxFenceRecords THEN S \cup {x} ELSE S

ApplyFence(s, r) ==
  [s EXCEPT
     !.tok = Raise(s.tok, r.token),
     !.ext = [e \in Extents |->
                IF e \in r.scope
                THEN [hw |-> r.token, owner |-> IF r.inc # 0 THEN r.inc ELSE s.ext[e].owner]
                ELSE s.ext[e]],
     !.fencedInc = IF r.inc # 0 THEN AddBounded(s.fencedInc, r.inc) ELSE s.fencedInc,
     !.fencedEpoch = IF r.epoch # 0
                     THEN AddBounded(s.fencedEpoch, <<r.domain, r.epoch>>)
                     ELSE s.fencedEpoch,
     !.frecs = Trimmed(s) \cup
               {[token |-> r.token, domain |-> r.domain, epoch |-> r.epoch, inc |-> r.inc]}]

ApplyAdopt(s, r) ==
  [s EXCEPT
     !.tok = Raise(s.tok, r.token),
     !.ext = [e \in Extents |->
                IF e \in r.scope THEN [hw |-> r.token, owner |-> r.inc] ELSE s.ext[e]]]

\* FenceTable::import, run when a snapshot is loaded: the fenced incarnations
\* are rebuilt from the retained records and from every extent's owner.
Import(s) ==
  [s EXCEPT
     !.fencedInc = {f.inc : f \in {h \in s.frecs : h.inc # 0}} \cup
                   {s.ext[e].owner : e \in {x \in Extents : s.ext[x].owner # 0}},
     !.fencedEpoch = {<<f.domain, f.epoch>> : f \in {h \in s.frecs : h.epoch # 0}}]

-----------------------------------------------------------------------------
(* The journal records, as their payloads are decoded. *)

BootRecord == [kind: {"BootBegin", "BootEnd", "IncarnationAllocate"}, inc: Nat]
DomainRecord == [kind: {"DomainDefine"}, domain: Domains, scope: SUBSET Extents]
OpenRecord == [kind: {"GrantOpen"}, grant: {g \in Grant : g.epoch =< g.id}]
CloseRecord == [kind: {"GrantClose"}, id: Nat, state: GrantStates \ {"Open"}]
FenceRecords == [kind: {"Fence"}, token: Nat, domain: Domains \cup {NoDomain},
                 scope: SUBSET Extents, epoch: Nat, inc: Nat]
AdoptRecord == [kind: {"ExtentAdopt"}, token: Nat, scope: SUBSET Extents, inc: Nat]
MarkRecord == [kind: {"InterruptMark"}, id: Nat]
EffectRecord == [kind: {"CommitRecord"}]

Record == BootRecord \cup DomainRecord \cup OpenRecord \cup CloseRecord
          \cup FenceRecords \cup AdoptRecord \cup MarkRecord \cup EffectRecord

-----------------------------------------------------------------------------
(* RegistryState::apply: the one code path of live and replayed records. *)

Apply(s, r) ==
  CASE r.kind = "BootBegin" ->
         [s EXCEPT !.boot = r.inc, !.inc = Raise(s.inc, r.inc),
                   !.openBoots = s.openBoots \cup {r.inc}]
    [] r.kind = "BootEnd" -> [s EXCEPT !.openBoots = s.openBoots \ {r.inc}]
    [] r.kind = "DomainDefine" -> [s EXCEPT !.domains[r.domain] = r.scope]
    [] r.kind = "GrantOpen" -> ApplyGrantOpen(s, r)
    [] r.kind = "GrantClose" -> ApplyGrantClose(s, r)
    [] r.kind = "Fence" -> ApplyFence(s, r)
    [] r.kind = "ExtentAdopt" -> ApplyAdopt(s, r)
    [] r.kind = "IncarnationAllocate" -> [s EXCEPT !.inc = r.inc]
    [] r.kind = "InterruptMark" -> [s EXCEPT !.marks = s.marks \cup {r.id}]
    [] r.kind = "CommitRecord" -> s

CanApply(s, r) ==
  CASE r.kind = "Fence" -> CanFence(s, r)
    [] r.kind = "ExtentAdopt" -> CanAdopt(s, r)
    [] r.kind = "GrantOpen" -> CanOpenGrant(s, r.grant)
    [] OTHER -> TRUE

\* What a refused record leaves behind: apply() has already advanced the
\* sequence and the counters, and FenceTable::apply has dropped the oldest
\* record, when the table's own bound refuses.
Refused(s, r) ==
  [s EXCEPT
     !.ahead = TRUE,
     !.tok = CASE r.kind = "GrantOpen" -> Raise(s.tok, r.grant.token)
               [] OTHER -> Raise(s.tok, r.token),
     !.gid = IF r.kind = "GrantOpen" THEN Raise(s.gid, r.grant.id) ELSE s.gid,
     !.frecs = IF r.kind = "Fence" THEN Trimmed(s) ELSE s.frecs]

=============================================================================
