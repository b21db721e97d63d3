------------------------------- MODULE Audit --------------------------------
(***************************************************************************)
(* The readers of the registry's durable state: the auditor that sbfctl    *)
(* runs over the fabric log and the registry tables, the checks a snapshot *)
(* passes when it is loaded, and the reconciliation of two lineages.  They *)
(* judge states that Registry produces.                                    *)
(***************************************************************************)
EXTENDS Registry

-----------------------------------------------------------------------------
(* audit_fabric_history over a sequence of the grants that acted. *)

\* succession_precedes: epoch first, then fence token, then grant id.
Precedes(a, b) ==
  \/ a.epoch < b.epoch
  \/ a.epoch = b.epoch /\ a.token < b.token
  \/ a.epoch = b.epoch /\ a.token = b.token /\ a.id < b.id

\* <<j, i>>: record j is the last writer of some extent when record i is read.
Handovers(h) ==
  {p \in (DOMAIN h) \X (DOMAIN h) :
     /\ p[1] < p[2]
     /\ \E e \in h[p[1]].scope \cap h[p[2]].scope :
          \A k \in p[1] + 1 .. p[2] - 1 : e \notin h[k].scope}

\* The findings, each as the pair of records it is about.  The comparison of a
\* record with the one before it repeats the one per extent.
AuditHistory(h) ==
  [token_regressions |-> {p \in Handovers(h) : h[p[1]].token > h[p[2]].token},
   foreign_owner_appends |->
     {p \in Handovers(h) : h[p[1]].token = h[p[2]].token /\ h[p[1]].inc # h[p[2]].inc},
   fence_escapes |->
     {p \in Handovers(h) : /\ h[p[1]].inc # h[p[2]].inc
                           /\ Precedes(h[p[2]], h[p[1]])
                           /\ \/ p[1] + 1 = p[2]
                              \/ h[p[1]].token < h[p[2]].token}]

-----------------------------------------------------------------------------
(* audit_registry_state. *)

\* FenceTable::validate and LineageTable::validate.  The grants are read in the
\* order of their ids, the marks without the absent extents.
EpochsInOrder(G) ==
  \A g, h \in G : g.domain = h.domain /\ g.id < h.id => g.epoch =< h.epoch

AuditState(s) ==
  [epoch_regressions |-> {g \in s.grants : ~EpochsInOrder({g} \cup {h \in s.grants : h.id < g.id})},
   duplicate_exclusive_grants |->
     {p \in OpenGrants(s) \X OpenGrants(s) :
        /\ p[1].id < p[2].id
        /\ p[1].scope \cap p[2].scope # {}
        /\ p[1].inc # p[2].inc},
   uninterruptible_grants |-> {g \in OpenGrants(s) : g.inc \in s.fencedInc},
   lowered_grants |-> {g \in OpenGrants(s) : \E e \in g.scope : s.ext[e].hw > g.token}]

-----------------------------------------------------------------------------
(* RegistryState::deserialize with FenceTable::import and LineageTable::import. *)

\* Mutant of ImportAccepts: a full lineage is one too many.
ImportAcceptsBelowBound(s) == Cardinality(s.grants) < MaxLineageEntries

\* The bounds on every table, the lineage's own invariants, and a fence record
\* whose scope is still known: that of a registered domain or a retained grant.
ImportAccepts(s) ==
  /\ Cardinality(s.grants) =< MaxLineageEntries
  /\ Cardinality(Present(s)) =< MaxIndexedExtents
  /\ Cardinality(s.frecs) =< MaxFenceRecords
  /\ \A g \in s.grants : g.id # 0 /\ g.domain # NoDomain /\ g.epoch # 0
  /\ \A g, h \in s.grants : g.id = h.id => g = h
  /\ EpochsInOrder(s.grants)
  /\ \A g, h \in OpenGrants(s) : g # h => <<g.domain, g.scope>> # <<h.domain, h.scope>>
  /\ \A f \in s.frecs : f.domain # NoDomain => s.domains[f.domain] # {}

-----------------------------------------------------------------------------
(* reconcile: two lineages merged by grant id, differences surfaced. *)

Bindings(g) == <<g.domain, g.scope, g.epoch, g.inc, g.token>>

\* The local copy of a grant both sides know is kept, its state included.
Reconcile(local, remote) ==
  [merged |-> local \cup {g \in remote : \A l \in local : l.id # g.id},
   conflicts |-> {l \in local : \E g \in remote : g.id = l.id /\ Bindings(g) # Bindings(l)}]

-----------------------------------------------------------------------------
(* Properties. *)

Credentials == [i \in DOMAIN log |-> log[i].cred]

\* A fence after the grant was opened that was aimed at something else: another
\* domain, or another epoch of the grant's own.
AimedElsewhere(f, g) ==
  f.token > g.token /\ <<f.domain, f.epoch>> # <<g.domain, g.epoch>>

\* The two findings about the open grants of a registry at rest, each explained
\* by a retained fence record.
OpenGrantsExplained(s) ==
  /\ \A g \in AuditState(s).uninterruptible_grants :
       \E f \in s.frecs : AimedElsewhere(f, g) /\ f.inc = g.inc
  /\ \A g \in AuditState(s).lowered_grants :
       \A e \in {x \in g.scope : s.ext[x].hw > g.token} :
         \E f \in s.frecs : AimedElsewhere(f, g) /\ f.token = s.ext[e].hw

\* What the two audits report of a registry is known, through any succession, late
\* commit, crash and recovery.  In the history no token goes back and no token has
\* two owners; succession goes backwards only between two domains, whose epochs
\* are not related.  The tables hold no two grants over an extent and no domain's
\* epochs fall, in memory and on disk.  Between two requests a grant is found open
\* although its incarnation is fenced, or below a mark of its extents, only after
\* a fence that was aimed at another domain or epoch: a fence of the grant itself
\* is always followed by its close, and a successor does not fence itself.
AuditFindings ==
  /\ LET report == AuditHistory(Credentials)
     IN  /\ report.token_regressions = {}
         /\ report.foreign_owner_appends = {}
         /\ \A p \in report.fence_escapes : Credentials[p[1]].domain # Credentials[p[2]].domain
  /\ \A s \in {mem, disk} : /\ AuditState(s).epoch_regressions = {}
                            /\ AuditState(s).duplicate_exclusive_grants = {}
  /\ CanServe => OpenGrantsExplained(mem)

\* Whatever state a checkpoint stores, and whatever a crash leaves to be replayed,
\* passes the checks deserialize() makes of the tables.  (That open() goes on to
\* serve is ServesAgain.)
SnapshotLoadable == ImportAccepts(mem) /\ ImportAccepts(disk)

\* A coordinator's copies of its grants and the registry's lineage, in memory and
\* after any crash, reconcile without a conflict:
\* no grant id is ever given to a second grant.
LineagesReconcile ==
  \A s \in {mem, disk} : Reconcile(s.grants, issued).conflicts = {}

=============================================================================
