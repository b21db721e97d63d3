------------------------------ MODULE Registry ------------------------------
(***************************************************************************)
(* The sbf registry: the single process that owns every authority decision *)
(* of the fabric.  The module models RegistryState and the handlers of     *)
(* RegistryService together with the two durable files they write, the     *)
(* journal (Store) and the fabric log (FabricStore), under crashes,        *)
(* restarts and failing appends.                                           *)
(*                                                                         *)
(* A handler holds state_mutex_ from its first to its last step, applies   *)
(* its journal records to memory and then appends them one at a time.  The *)
(* model takes one step per journal record, applying it to memory and to   *)
(* the disk image together.  Nobody reads memory in between and a crash    *)
(* discards it, so a crash between two steps leaves exactly the prefix of  *)
(* the handler's records that a crash inside append_records leaves.        *)
(*                                                                         *)
(* `disk' is the state a replay of snapshot and journal would produce.     *)
(***************************************************************************)
EXTENDS RegistryTables, Sequences

CONSTANTS
  Scopes,             \* the scopes a domain may be registered for
  Attempts,           \* attempt sequence numbers a coordinator uses
  MaxSessions,        \* RegistryConfig::max_sessions
  CheckpointEvery,    \* RegistryConfig::checkpoint_every_records
  AppendMayFail,      \* TRUE: an append may fail with an I/O error
  MaxIncarnations,    \* bound: no hello beyond this incarnation
  MaxTokens,          \* bound: no request that fences beyond this token
  MaxEffects,         \* bound: no commit beyond this many effects
  MaxFaults           \* bound: number of crashes and failed appends

ASSUME ConstantsAssumption ==
  /\ Scopes \subseteq SUBSET Extents
  /\ {} \notin Scopes
  /\ Attempts \subseteq Nat
  /\ AppendMayFail \in BOOLEAN
  /\ CheckpointEvery \in Nat

VARIABLES
  phase,     \* "down", "recovering" or "ready"
  mem,       \* RegistryState in memory (Blank while down)
  disk,      \* what snapshot + journal replay to
  since,     \* records_since_checkpoint_, capped at CheckpointEvery
  op,        \* the handler that holds state_mutex_, and how far it is
  sessions,  \* incarnations with a live session
  issued,    \* grants handed out in responses; clients may present them late
  log,       \* the fabric log: effects in durable order
  floor,     \* FabricStore::owners_: per-extent token floor and owner
  deposed,   \* history: every incarnation a fence took effect on
  faults     \* history: crashes and failed appends so far

vars == <<phase, mem, disk, since, op, sessions, issued, log, floor, deposed, faults>>

-----------------------------------------------------------------------------
(* The handler in progress. *)

Request == [domain: Domains \cup {NoDomain}, scope: SUBSET Extents, epoch: Nat,
            inc: Nat, attempt: Nat, grant: Nat]

NoRequest == [domain |-> NoDomain, scope |-> {}, epoch |-> 0, inc |-> 0,
              attempt |-> 0, grant |-> 0]

Handlers == {"free", "hello", "define", "allocate", "commit", "fence", "release", "recover"}

Operation == [handler: Handlers,
              pc: {"boots", "scan", "mark", "close", "open", "record", "finish"},
              req: Request,
              target: Grant,       \* grant being fenced, opened or handed out
              hit: BOOLEAN,        \* fence(): fenced_any
              result: {"ok", "refused", "io"}]

Free == [handler |-> "free", pc |-> "finish", req |-> NoRequest, target |-> NoGrant,
         hit |-> FALSE, result |-> "ok"]

Begin(handler, pc, req) ==
  [Free EXCEPT !.handler = handler, !.pc = pc, !.req = req]

Effect == [cred: Grant, boot: Nat]

-----------------------------------------------------------------------------
(* emit() and Store::append.  A record that applies is appended when its     *)
(* sequence is the journal's next one; an append that fails may still have   *)
(* reached the file.  Once memory is ahead every later append is refused.    *)

Appended(r) ==
  /\ ~mem.ahead
  /\ mem' = Apply(mem, r)
  /\ disk' = Apply(disk, r)
  /\ since' = IF since < CheckpointEvery THEN since + 1 ELSE since
  /\ faults' = faults

NotAppended(r) ==
  /\ mem' = [Apply(mem, r) EXCEPT !.ahead = TRUE]
  /\ \/ mem.ahead /\ UNCHANGED <<disk, faults>>
     \/ /\ ~mem.ahead
        /\ AppendMayFail /\ faults < MaxFaults
        /\ disk' \in {disk, Apply(disk, r)}
        /\ faults' = faults + 1
  /\ since' = since

\* Emit r, then go on with the operation `next'.
Emit(r, next) ==
  \/ /\ CanApply(mem, r)
     /\ \/ Appended(r) /\ op' = next
        \/ NotAppended(r) /\ op' = [next EXCEPT !.result = "io"]
  \/ /\ ~CanApply(mem, r)
     /\ mem' = Refused(mem, r)
     /\ op' = [op EXCEPT !.pc = "finish",
                         !.result = IF op.result = "io" THEN "io" ELSE "refused"]
     /\ UNCHANGED <<disk, since, faults>>

-----------------------------------------------------------------------------
(* Requests: a worker thread takes state_mutex_ for one decoded frame.       *)

CanServe == phase = "ready" /\ op = Free

\* decide, inspect and ping leave the registry as it is.
Observe == CanServe /\ UNCHANGED vars

\* The end of append_records: a checkpoint when enough records were appended,
\* of the state in memory, whatever the journal holds.  A failed append returns
\* before the checkpoint.
Checkpoint ==
  IF op.result # "io" /\ since >= CheckpointEvery
  THEN disk' = Import(mem) /\ since' = 0
  ELSE UNCHANGED <<disk, since>>

\* A request a handler refuses, and a registration it already has, emit nothing
\* but pass through append_records all the same.
Refuse ==
  /\ CanServe
  /\ sessions # {}
  /\ Checkpoint
  /\ UNCHANGED <<phase, mem, op, sessions, issued, log, floor, deposed, faults>>

\* Mutant of Hello: the counter moves in memory only.
HelloUnjournalled ==
  /\ CanServe
  /\ Cardinality(sessions) < MaxSessions
  /\ mem.inc < MaxIncarnations
  /\ mem' = [mem EXCEPT !.inc = mem.inc + 1]
  /\ op' = Begin("hello", "finish", [NoRequest EXCEPT !.inc = mem.inc + 1])
  /\ UNCHANGED <<disk, since, phase, sessions, issued, log, floor, deposed, faults>>

\* handle_hello: the incarnation is journalled before it is handed out.
Hello ==
  /\ CanServe
  /\ Cardinality(sessions) < MaxSessions
  /\ mem.inc < MaxIncarnations
  /\ Emit([kind |-> "IncarnationAllocate", inc |-> mem.inc + 1],
          Begin("hello", "finish", [NoRequest EXCEPT !.inc = mem.inc + 1]))
  /\ UNCHANGED <<phase, sessions, issued, log, floor, deposed>>

\* release_session: the connection of incarnation i is gone.
Disconnect(i) ==
  /\ CanServe
  /\ i \in sessions
  /\ sessions' = sessions \ {i}
  /\ UNCHANGED <<phase, mem, disk, since, op, issued, log, floor, deposed, faults>>

\* define_domain: a domain keeps the scope it was first registered for.
Define(d, scope) ==
  /\ CanServe
  /\ mem.domains[d] = {}
  /\ Emit([kind |-> "DomainDefine", domain |-> d, scope |-> scope],
          Begin("define", "finish", NoRequest))
  /\ UNCHANGED <<phase, sessions, issued, log, floor, deposed>>

\* Mutant of MayAllocate: a fenced incarnation may ask again.
MayAllocateFenced(s, i, d) == s.domains[d] # {} /\ s.boot < i /\ i =< s.inc

\* allocate_epoch up to its first record.  A retry of an allocation that is
\* still open is answered with the same grant and emits nothing.
MayAllocate(s, i, d) ==
  /\ s.domains[d] # {}
  /\ i \notin s.fencedInc
  /\ s.boot < i /\ i =< s.inc

SameAttempt(s, i, d, a) ==
  {g \in OpenGrants(s) : g.inc = i /\ g.attempt = a /\ g.domain = d}

Allocate(i, d, a) ==
  /\ CanServe
  /\ i \in sessions
  /\ mem.tok < MaxTokens
  /\ MayAllocate(mem, i, d)
  /\ LET req == [NoRequest EXCEPT !.domain = d, !.scope = mem.domains[d],
                                  !.inc = i, !.attempt = a]
     IN  \/ \E g \in SameAttempt(mem, i, d, a) :
               op' = [Begin("allocate", "finish", req) EXCEPT !.target = g]
         \/ /\ SameAttempt(mem, i, d, a) = {}
            /\ op' = Begin("allocate", "scan", req)
  /\ UNCHANGED <<phase, mem, disk, since, sessions, issued, log, floor, deposed, faults>>

\* fence(): anybody with a session may fence a registered scope, naming an
\* epoch and an incarnation it has heard of, or none.
Fence(d, epoch, i) ==
  /\ CanServe
  /\ sessions # {}
  /\ mem.tok < MaxTokens
  /\ mem.domains[d] # {}
  /\ op' = Begin("fence", "scan", [NoRequest EXCEPT !.domain = d, !.scope = mem.domains[d],
                                                    !.epoch = epoch, !.inc = i])
  /\ UNCHANGED <<phase, mem, disk, since, sessions, issued, log, floor, deposed, faults>>

\* release() closes an open grant by id.
Release(c) ==
  /\ CanServe
  /\ sessions # {}
  /\ mem.tok < MaxTokens
  /\ \E g \in OpenGrants(mem) : g.id = c.id
  /\ op' = Begin("release", "scan", [NoRequest EXCEPT !.grant = c.id])
  /\ UNCHANGED <<phase, mem, disk, since, sessions, issued, log, floor, deposed, faults>>

\* Mutant of CommitGate: the grant is found by id, open or not.
CommitGateAnyState(s, c) ==
  /\ s.domains[c.domain] = c.scope
  /\ \E g \in s.grants : g.id = c.id /\ g.epoch = c.epoch /\ g.inc = c.inc /\ g.token = c.token

\* commit(): every binding of the credential is compared with the open grant.
CommitGate(s, c) ==
  /\ s.domains[c.domain] = c.scope
  /\ \E g \in OpenGrants(s) : /\ g.id = c.id
                             /\ g.domain = c.domain /\ g.scope = c.scope
                             /\ g.epoch = c.epoch /\ g.inc = c.inc
                             /\ g.token = c.token

\* Mutant of FabricGate: the owner's own token is taken for a stale one.
FabricGateStrict(c) == \A e \in c.scope : floor[e].hw < c.token

\* FabricStore::admit: the gate that consults only the durable floor.
FabricGate(c) ==
  \A e \in c.scope : /\ floor[e].hw =< c.token
                     /\ floor[e].hw = c.token => floor[e].owner = c.inc

\* The effect is durable in the fabric log before the journal hears of it.
Commit(c) ==
  /\ CanServe
  /\ sessions # {}
  /\ Len(log) < MaxEffects
  /\ CommitGate(mem, c)
  /\ FabricGate(c)
  /\ log' = Append(log, [cred |-> c, boot |-> mem.boot])
  /\ floor' = [e \in Extents |-> IF e \in c.scope
                                 THEN [hw |-> c.token, owner |-> c.inc]
                                 ELSE floor[e]]
  /\ op' = Begin("commit", "record", NoRequest)
  /\ UNCHANGED <<phase, mem, disk, since, sessions, issued, deposed, faults>>

-----------------------------------------------------------------------------
(* The steps of the handler that holds state_mutex_, one journal record each. *)

\* Mutant of Overlapping: only the requesting domain's own grants.
OverlappingSameDomain(s, req) == {g \in OpenGrants(s) : g.domain = req.domain}

Overlapping(s, req) == {g \in OpenGrants(s) : g.scope \cap req.scope # {}}

\* Mutant of Interrupted: recovery trusts what it finds.
InterruptedNone(s) == {}

Interrupted(s) == OpenGrants(s)

\* The open grants the handler still has to fence.
Victims ==
  CASE op.handler = "allocate" -> Overlapping(mem, op.req)
    [] op.handler = "fence" ->
         {g \in OpenGrants(mem) : /\ g.domain = op.req.domain
                                 /\ g.scope = op.req.scope
                                 /\ op.req.epoch \in {0, g.epoch}}
    [] op.handler = "release" -> {g \in OpenGrants(mem) : g.id = op.req.grant}
    [] op.handler = "recover" -> Interrupted(mem)
    [] OTHER -> {}

\* Mutant of FencedIncarnation: a successor fences itself with its predecessor.
FencedIncarnationSelf(g) == g.inc

\* Only allocate_epoch spares an incarnation: the one superseding itself.
FencedIncarnation(g) ==
  IF op.handler = "allocate" /\ g.inc = op.req.inc THEN 0 ELSE g.inc

\* fence_scope()'s record, under the next token.
FenceRec(d, scope, epoch, i) ==
  [kind |-> "Fence", token |-> mem.tok + 1, domain |-> d, scope |-> scope,
   epoch |-> epoch, inc |-> i]

\* History: a fence that takes effect on an incarnation.
Depose(r) ==
  deposed' = IF r.inc # 0 /\ CanApply(mem, r) THEN deposed \cup {r.inc} ELSE deposed

\* Mutant of AfterFence: recovery closes without a mark.
AfterFenceUnmarked == "close"

AfterFence == IF op.handler = "recover" THEN "mark" ELSE "close"

\* fence_scope() for the oldest grant still to be fenced.
FenceVictim ==
  /\ op.pc = "scan"
  /\ Victims # {}
  /\ LET g == Oldest(Victims)
         r == FenceRec(g.domain, g.scope, g.epoch, FencedIncarnation(g))
     IN  /\ Emit(r, [op EXCEPT !.pc = AfterFence, !.target = g])
         /\ Depose(r)
  /\ UNCHANGED <<phase, sessions, issued, log, floor>>

\* recover_after_restart surfaces the interrupted grant before closing it.
MarkVictim ==
  /\ op.pc = "mark"
  /\ Emit([kind |-> "InterruptMark", id |-> op.target.id], [op EXCEPT !.pc = "close"])
  /\ UNCHANGED <<phase, sessions, issued, log, floor, deposed>>

\* Mutant of ClosedAs: a state GrantState does not have.
ClosedAsReleased(handler) == IF handler = "release" THEN "Released" ELSE "Fenced"

ClosedAs(handler) ==
  CASE handler = "recover" -> "Interrupted"
    [] handler = "release" -> "Closed"
    [] OTHER -> "Fenced"

CloseVictim ==
  /\ op.pc = "close"
  /\ Emit([kind |-> "GrantClose", id |-> op.target.id, state |-> ClosedAs(op.handler)],
          [op EXCEPT !.pc = IF op.handler = "release" THEN "finish" ELSE "scan",
                     !.target = NoGrant, !.hit = TRUE])
  /\ UNCHANGED <<phase, sessions, issued, log, floor, deposed>>

\* fence() with no grant to close still raises the high-water marks.
FenceUnowned ==
  /\ op.handler = "fence" /\ op.pc = "scan"
  /\ Victims = {} /\ ~op.hit
  /\ LET r == FenceRec(op.req.domain, op.req.scope, op.req.epoch, op.req.inc)
     IN  Emit(r, [op EXCEPT !.pc = "finish"]) /\ Depose(r)
  /\ UNCHANGED <<phase, sessions, issued, log, floor>>

\* Mutant of FenceDone: the handler rescans instead of returning.
FenceDoneRescans ==
  /\ op.handler = "fence" /\ op.pc = "scan"
  /\ Victims = {} /\ op.hit
  /\ UNCHANGED vars

FenceDone ==
  /\ op.handler = "fence" /\ op.pc = "scan"
  /\ Victims = {} /\ op.hit
  /\ op' = [op EXCEPT !.pc = "finish"]
  /\ UNCHANGED <<phase, mem, disk, since, sessions, issued, log, floor, deposed, faults>>

\* allocate_epoch, nothing overlapping left: adopt the scope under a new token.
NewGrant ==
  [id |-> mem.gid + 1, domain |-> op.req.domain, scope |-> op.req.scope,
   epoch |-> MaxEpoch(mem, op.req.domain) + 1, inc |-> op.req.inc,
   attempt |-> op.req.attempt, token |-> mem.tok + 1, boot |-> mem.boot,
   state |-> "Open"]

AdoptScope ==
  /\ op.handler = "allocate" /\ op.pc = "scan"
  /\ Victims = {}
  /\ Emit([kind |-> "ExtentAdopt", token |-> mem.tok + 1, scope |-> op.req.scope,
            inc |-> op.req.inc],
          [op EXCEPT !.pc = "open", !.target = NewGrant])
  /\ UNCHANGED <<phase, sessions, issued, log, floor, deposed>>

\* Mutant of OpenGrant: answered from memory before the append.
OpenGrantUnjournalled ==
  /\ op.pc = "open"
  /\ mem' = Apply(mem, [kind |-> "GrantOpen", grant |-> op.target])
  /\ op' = [op EXCEPT !.pc = "finish"]
  /\ UNCHANGED <<disk, since, phase, sessions, issued, log, floor, deposed, faults>>

OpenGrant ==
  /\ op.pc = "open"
  /\ Emit([kind |-> "GrantOpen", grant |-> op.target], [op EXCEPT !.pc = "finish"])
  /\ UNCHANGED <<phase, sessions, issued, log, floor, deposed>>

RecordCommit ==
  /\ op.pc = "record"
  /\ Emit([kind |-> "CommitRecord"], [op EXCEPT !.pc = "finish"])
  /\ UNCHANGED <<phase, sessions, issued, log, floor, deposed>>

\* Unlock and answer.  Only a handler whose appends all succeeded answers.
Finish ==
  /\ op.pc = "finish" /\ op.handler \notin {"free", "recover"}
  /\ Checkpoint
  /\ op' = Free
  /\ sessions' = IF op.handler = "hello" /\ op.result = "ok"
                 THEN sessions \cup {op.req.inc} ELSE sessions
  /\ issued' = IF op.handler = "allocate" /\ op.result = "ok"
               THEN issued \cup {op.target} ELSE issued
  /\ UNCHANGED <<phase, mem, log, floor, deposed, faults>>

-----------------------------------------------------------------------------
(* Crash, restart and recovery. *)

GoDown ==
  /\ phase' = "down"
  /\ mem' = Blank
  /\ op' = Free
  /\ since' = 0
  /\ sessions' = {}

Crash ==
  /\ phase # "down"
  /\ faults < MaxFaults
  /\ faults' = faults + 1
  /\ GoDown
  /\ UNCHANGED <<disk, issued, log, floor, deposed>>

\* Mutant of Rebuild: the effect boundary is not consulted.
RebuildFromTables(s) == s

\* rebuild(): the counters resume above everything durable, and the effect
\* boundary dominates.
Rebuild(s) ==
  [s EXCEPT
     !.tok = Max({s.tok} \cup {s.ext[e].hw : e \in Extents}
                 \cup {g.token : g \in s.grants} \cup {f.token : f \in s.frecs}
                 \cup {log[i].cred.token : i \in DOMAIN log}),
     !.gid = Max({s.gid} \cup {g.id : g \in s.grants}
                 \cup {log[i].cred.id : i \in DOMAIN log})]

\* Mutant of RecoveryBlocked: a boot that never ended stops the next one.
RecoveryBlockedByBoot(s) == s.ahead \/ s.openBoots # {}

\* recover_after_restart emits all its records before the first is appended:
\* when one of them cannot be applied, or the replayed sequence is ahead of the
\* journal, open() fails and nothing is written.
RecoveryBlocked(s) ==
  \/ s.ahead
  \/ \E g \in OpenGrants(s) : ~TableHasRoom(s, g.scope)

Restart ==
  /\ phase = "down"
  /\ ~RecoveryBlocked(disk)
  /\ phase' = "recovering"
  /\ mem' = Rebuild(disk)
  /\ op' = Begin("recover", "boots", NoRequest)
  /\ UNCHANGED <<disk, since, sessions, issued, log, floor, deposed, faults>>

RestartFails ==
  /\ phase = "down"
  /\ RecoveryBlocked(disk)
  /\ UNCHANGED vars

EndBoot ==
  /\ op.pc = "boots"
  /\ IF mem.openBoots = {}
     THEN op' = [op EXCEPT !.pc = "scan"] /\ UNCHANGED <<mem, disk, since, faults>>
     ELSE Emit([kind |-> "BootEnd", inc |-> Min(mem.openBoots)], op)
  /\ UNCHANGED <<phase, sessions, issued, log, floor, deposed>>

BootIncarnation == mem.inc + 1

BeginBoot ==
  /\ op.handler = "recover" /\ op.pc = "scan"
  /\ Victims = {}
  /\ Emit([kind |-> "BootBegin", inc |-> BootIncarnation], [op EXCEPT !.pc = "finish"])
  /\ UNCHANGED <<phase, sessions, issued, log, floor, deposed>>

\* open() ends: ready, or not at all when an append failed.
Recovered ==
  /\ op.handler = "recover" /\ op.pc = "finish"
  /\ \/ /\ op.result = "ok"
        /\ phase' = "ready"
        /\ op' = Free
        /\ Checkpoint
        /\ UNCHANGED <<mem, sessions>>
     \/ /\ op.result # "ok"
        /\ GoDown
        /\ disk' = disk
  /\ UNCHANGED <<issued, log, floor, deposed, faults>>

-----------------------------------------------------------------------------
Init ==
  /\ phase = "down"
  /\ mem = Blank
  /\ disk = Blank
  /\ since = 0
  /\ op = Free
  /\ sessions = {}
  /\ issued = {}
  /\ log = <<>>
  /\ floor = [e \in Extents |-> [hw |-> 0, owner |-> 0]]
  /\ deposed = {}
  /\ faults = 0

Requests ==
  \/ Hello
  \/ \E i \in sessions : Disconnect(i)
  \/ \E d \in Domains, scope \in Scopes : Define(d, scope)
  \/ \E i \in sessions, d \in Domains, a \in Attempts : Allocate(i, d, a)
  \/ \E d \in Domains, epoch \in {0} \cup {c.epoch : c \in issued},
        i \in {0} \cup {c.inc : c \in issued} : Fence(d, epoch, i)
  \/ \E c \in issued : Release(c) \/ Commit(c)
  \/ Observe \/ Refuse

HandlerStep ==
  \/ FenceVictim \/ MarkVictim \/ CloseVictim
  \/ FenceUnowned \/ FenceDone
  \/ AdoptScope \/ OpenGrant \/ RecordCommit
  \/ EndBoot \/ BeginBoot \/ Recovered
  \/ Finish

Next == Requests \/ HandlerStep \/ Restart \/ RestartFails \/ Crash

Spec == Init /\ [][Next]_vars

\* The thread inside a handler or inside open() runs on, and whoever supervises
\* the process starts it again after a crash.
FairSpec == Spec /\ WF_vars(HandlerStep) /\ WF_vars(Restart)

-----------------------------------------------------------------------------
(* Properties. *)

\* Every variable has its type (RegistryState, FabricStore, the request in hand).
TypeOK ==
  /\ phase \in {"down", "recovering", "ready"}
  /\ mem \in RegistryState
  /\ disk \in RegistryState
  /\ since \in Nat
  /\ op \in Operation
  /\ sessions \subseteq Nat
  /\ issued \subseteq Grant
  /\ log \in Seq(Effect)
  /\ floor \in [Extents -> Mark]
  /\ deposed \subseteq Nat
  /\ faults \in Nat

Disjoint(G) == \A g, h \in G : g # h => g.scope \cap h.scope = {}

\* MUTEX.  No two open grants share an extent, whichever domains own them, in
\* the running registry and in what any crash leaves on disk: allocate_epoch
\* fences and closes every overlapping grant before it opens one.
OpenGrantsDisjoint == Disjoint(OpenGrants(mem)) /\ Disjoint(OpenGrants(disk))

\* A fence token that mutated the fabric belongs to one grant for ever, across
\* domains whose scopes never meet (where the per-extent floor cannot see it),
\* crashes, and grants that were never journalled: rebuild() resumes the token
\* counter above the effect boundary.
EffectTokensIdentifyGrants ==
  \A i, j \in DOMAIN log :
    log[i].cred.token = log[j].cred.token => log[i].cred = log[j].cred

\* MUTEX at the effect boundary: an admitted mutation is never older than a
\* grant that was acknowledged for one of its extents, however late, duplicated
\* or reordered the commit request is.
NoStaleEffect ==
  [][\A i \in DOMAIN log' \ DOMAIN log, c \in issued :
       c.scope \cap log'[i].cred.scope # {} => c.token =< log'[i].cred.token]_vars

\* PERSISTENCE IS NOT LIVENESS.  An effect is only ever admitted in the boot
\* that issued its grant: no grant of an earlier boot is honoured after a restart.
NoEffectAcrossRestart == \A i \in DOMAIN log : log[i].boot = log[i].cred.boot

\* NO RESURRECTION.  After an incarnation is fenced, through a successor, an
\* operator, a release or a restart, no grant is opened for it or acknowledged
\* to it again.
NoResurrection ==
  [][phase = "ready" =>
       \A g \in (OpenGrants(mem') \ mem.grants) \cup (issued' \ issued) : g.inc \notin deposed]_vars

\* An incarnation is journalled before it is handed out, so that no later boot
\* can hand it out again.
IncarnationsDurable ==
  \A i \in sessions \cup {c.inc : c \in issued} : i =< disk.inc

\* MONOTONE EPOCH.  Two grants issued for one domain have different epochs, in
\* the order of their tokens.
EpochsMonotone ==
  \A c, b \in issued :
    c.domain = b.domain /\ c # b => (c.token < b.token <=> c.epoch < b.epoch) /\ c.epoch # b.epoch

\* The registry half of decide_authority's gates for an exclusive mutation,
\* with the evidence taken as current.
DecideGate(s, c) ==
  /\ s.domains[c.domain] = c.scope
  /\ \E g \in OpenGrants(s) : /\ g.domain = c.domain /\ g.scope = c.scope
                             /\ g.epoch = c.epoch /\ g.inc = c.inc
                             /\ g.token = c.token
  /\ c.epoch >= MaxEpoch(s, c.domain)
  /\ c.inc \notin s.fencedInc
  /\ <<c.domain, c.epoch>> \notin s.fencedEpoch
  /\ \A e \in c.scope : s.ext[e].hw =< c.token
  /\ \A g \in OpenGrants(s) : g.id # c.id => g.scope \cap c.scope = {}

\* A holder that decide() finds authoritative is one whose mutation commit()
\* and the fabric log admit: the three layers keep separate state and agree.
DecisionHonoured ==
  CanServe => \A c \in issued : DecideGate(mem, c) => CommitGate(mem, c) /\ FabricGate(c)

\* Recovery leaves nothing out, also when it was itself interrupted between its
\* records: every grant it closed is surfaced by a durable interrupt mark, and a
\* ready registry has one open boot, its own, and no open grant of an older boot
\* or incarnation.
RecoveryComplete ==
  /\ \A g \in disk.grants : g.state = "Interrupted" => g.id \in disk.marks
  /\ phase = "ready" =>
       /\ mem.openBoots = {mem.boot}
       /\ \A g \in OpenGrants(mem) : g.boot = mem.boot /\ g.inc > mem.boot

\* A handler that took state_mutex_ gives it back.
LockReleased == op.handler # "free" ~> op.handler = "free"

\* What is on disk lets no recovery through: a checkpoint stored a state whose
\* sequence is beyond the journal's, or an open grant lies over extents for which
\* the extent table, counting them twice, has no room left for a fence.
BeyondRecovery ==
  \/ disk.ahead
  \/ \E g \in OpenGrants(disk) :
       Cardinality(Present(disk)) + Cardinality(g.scope) > MaxIndexedExtents

\* A registry that went down, by a crash or a failed append, also inside open(),
\* serves again, unless it left one of two states on disk: an open grant at the
\* bound of the extent table, or a checkpoint taken while memory was ahead of the
\* journal.  Nothing else that a handler or a recovery cut short leaves behind
\* stops recover_after_restart.
ServesAgain == phase = "down" ~> phase = "ready" \/ BeyondRecovery

-----------------------------------------------------------------------------
(* The registry implements the promise of Authority. *)

\* A grant is in force while the registry that holds it open is serving.
InForce == IF phase = "ready" THEN OpenGrants(mem) ELSE {}

Promised == INSTANCE Authority WITH
  held <- InForce,
  effects <- [i \in DOMAIN log |-> log[i].cred]

\* Every step of the registry, crashes, failed appends and recovery included, is
\* one that Authority allows or leaves its state alone: a grant comes into force
\* only on extents no other grant holds and above every earlier effect, and an
\* effect is only ever that of a grant in force.
ImplementsAuthority == Promised!AuthoritySpec

-----------------------------------------------------------------------------
(* What the documentation or a comment claims and the code does not give. *)

\* "Once an extent's high-water mark rises, every lower token is permanently
\* refused for that extent" (README, invariant 3).
LowerTokensRefused ==
  CanServe => \A c \in issued :
    (\E e \in c.scope : mem.ext[e].hw > c.token) => ~(CommitGate(mem, c) /\ FabricGate(c))

=============================================================================
