# Split-Brain Fabric: TLA+ models, checks and proofs

Split-Brain Fabric (sbf) decides which coordinator may mutate which extents of a
fabric, so that two sides of a partition never both do. This directory holds
TLA+ specifications of that decision, written from the C++ code, the TLC
configurations that check them on small instances, and TLAPS proofs of the
properties that matter most. `PROJECT.json` is the index: which definition
models which lines, which run checks what, which theorem states what.

    tlc -workers 2 -config MCRegistry_safety.cfg MCRegistry
    tlc -workers 2 -config MCStorage.cfg MCStorage
    tlapm RegistryProofs.tla

## 1. The system

### Parts, state, operations

| Part (source) | State | Operations |
|---|---|---|
| Registry state machine (`registry_state.cpp`) | domains, policy, lineage, fence table, interrupt marks, counters for tokens, grants, incarnations and record sequence | `allocate_incarnation`, `define_domain`, `allocate_epoch`, `decide`, `commit`, `fence`, `release`, `recover_after_restart`, `rebuild`, `apply` |
| Registry service (`registry_service.cpp`) | session table, `records_since_checkpoint_`, phase | `open`, `handle_hello`, one handler per frame type under `state_mutex_`, `append_records`, `release_session`, `stop` |
| Epoch lineage (`lineage.cpp`) | at most `kMaxLineageEntries` grants, the boots | open, close, evict, `max_epoch`, `reconcile` |
| Fence table (`fence.cpp`) | per-extent mark and owner, fenced incarnations and epochs, bounded history | `adopt`, `apply`, `import`, `admit` |
| Durable store (`persistence.cpp`) | journal and snapshot files, `last_sequence_` | `append`, `checkpoint`, `open` with replay |
| Fabric log (`fabric_store.cpp`) | the effects, per-extent token floor and owner | `admit`, `open` |
| Evidence (`evidence.cpp`) | none | `assess_evidence`, `QuorumProfile` |
| Witness (`witness_service.cpp`) | per subject what it attested last, its sequence, its sessions; all in memory | hello, `attest`, status, restart |
| Arbiter (`arbiter.cpp`) | none | `decide_authority`, `check_revocation` |
| Coordinator (`coordinator.cpp`, `registry_client.cpp`) | its grant, epoch, token, `allocation_step_` | `acquire`, `collect_evidence`, `evaluate`, `mutate` |
| Auditor (`audit.cpp`) | none | `audit_fabric_history`, `audit_registry_state` |
| Selection planner (`selection.cpp`) | none | `select_authority_set`, its exhaustive reference, its greedy heuristic, `validate_plan` |
| Connection hub (`conn_hub.hpp`) | live sockets, their number, a stop flag | `add`, `remove`, `begin_stop`, `wait_drained` |
| Framed protocol (`protocol.cpp`, `net.cpp`) | a decoder's buffer, a session binding, a listener | `FrameDecoder::push`, `check_envelope`, `accept`, `stop`, `read_some`, `write_all` |
| Value types, tools | see `PROJECT.json` | |

### How they interact

A coordinator connects to the registry, which hands out an incarnation, and asks
for an epoch. The registry fences and closes every overlapping open grant and
opens a new one under a new fence token. The coordinator then collects
statements from the witnesses and asks the registry to decide; with current
evidence and an open grant it sends the mutation, which the registry compares
with the grant and the fabric log with its own floor. All registry requests are
serialised by one mutex, and everything the registry decides is a sequence of
journal records that `apply` runs both live and at replay. The witnesses share
nothing with each other or with the registry. Both kinds of service run one
accepting thread and a detached thread per connection, which share a hub, a
session table and a stop flag with the thread that owns the service.

### What is hard

* One request is several journal records. A crash between two of them leaves a
  prefix; recovery itself is such a sequence and may be cut short as well.
* Memory and journal part when an append fails: the record has been applied, the
  sequence number of every later record is refused, and requests are still served.
* Credentials outlive what they were issued for: a commit may arrive after its
  grant was superseded, fenced, released or interrupted, or twice.
* Three layers (registry, fabric log, witnesses) keep separate state that must agree.
* Bounded tables evict, refuse or drop.
* A file can end anywhere inside a record, an append can fail with its bytes in
  the file, and a checkpoint is three steps that fail or crash one by one.
* Shutdown meets connections that are being accepted, workers blocked on clients
  that do not read, and a second shutdown. A stream arrives cut anywhere.
* Witnesses forget; their statements live on and are presented late.

`PROJECT.json` lists these as hazards, each at its line, with the properties that
look for it going wrong.

## 2. The modules

| Module | Models |
|---|---|
| `RegistryTables` | the registry's durable state as a value, and `apply` on it (lineage, fence table, counters, snapshot import) |
| `Registry` | the running registry: handlers, sessions, journal, fabric log, crashes, failed appends, checkpoints, recovery |
| `RegistryProofs` | theorems about `Registry` and `Audit`: types and exclusion, boots, effects and the refinement to `Authority`; what is promised of the past |
| `Authority` | abstract: extents held by one grant at a time, acted on by its holder only |
| `Audit` | the auditor, the loader's checks and `reconcile` as operators on what `Registry` reaches |
| `RecordFile` | a file of records whose last one may be incomplete, and the scan of it |
| `Storage` | journal, snapshot and fabric log as files, and the process that writes and reopens them |
| `DurableLog` | abstract: a log that only grows and keeps what was acknowledged |
| `Framing` | frames as parts of a stream, `FrameDecoder` |
| `Service` | the threads of a service: owner, runner, one worker per connection |
| `Evidence` | `assess_evidence` and the quorum profile as operators |
| `Assessment` | a bundle that grows under a moving clock, in front of `assess_evidence` |
| `WitnessMemory` | what a witness remembers and what it may attest on the strength of it |
| `Witness` | the witness processes and the coordinators that pool their statements |
| `Arbiter` | `decide_authority` and `check_revocation` as operators over `RegistryTables` and the verdict of `Evidence` |
| `Arbitration` | several claimants in front of one arbiter, with a view that changes |
| `Selection` | the selection planner, asked in every view `Arbitration` reaches |
| `Coordinator` | coordinators running `mutate()` against registry, witnesses and fabric log |
| `StorageProofs`, `EvidenceProofs`, `AssessmentProofs`, `WitnessProofs`, `ArbitrationProofs`, `CoordinatorProofs`, `ServiceProofs` | lemmas about `Evidence`, and the theorems about the modules they are named after |
| `MCRegistry`, `MCAssessment`, `MCWitness`, `MCArbitration`, `MCCoordinator`, `MCStorage`, `MCService` | constants for TLC |

`MCRegistry` extends `Audit` and so `Registry`, `MCArbitration` extends
`Selection` and so `Arbitration`: the operators of the extending module are asked
about every state of the extended one.

### Registry

`mem` is `RegistryState` in memory, `disk` what snapshot and journal would replay
to. The handler that holds `state_mutex_` is `op`: its name, how far it is, its
request and the grant in hand. One step emits one journal record (`Emit`), which
`Apply` applies to memory and to disk. The code applies all records of a handler
first and appends them afterwards. Nobody reads memory between the two, since
the mutex is held, and a crash discards it, so both orders leave the same disk
images and the same answers. Where it does make a difference, in
`recover_after_restart`, whose records are all lost when one of them cannot be
applied, `RecoveryBlocked` decides before the first one.

| Action | Code |
|---|---|
| `Hello`, `Disconnect` | `handle_hello`, `release_session` |
| `Define` | `define_domain` |
| `Allocate`, `FenceVictim`, `CloseVictim`, `AdoptScope`, `OpenGrant` | `allocate_epoch` |
| `Fence`, `FenceVictim`, `CloseVictim`, `FenceUnowned`, `FenceDone` | `fence` |
| `Release`, `FenceVictim`, `CloseVictim` | `release` |
| `Commit`, `RecordCommit` | `commit`, `FabricStore::admit` |
| `Finish` | the end of a handler: checkpoint when due, unlock, answer |
| `Refuse`, `Observe` | refused and read-only requests |
| `Crash`, `Restart`, `RestartFails` | process death, `open` with `rebuild` |
| `EndBoot`, `FenceVictim`, `MarkVictim`, `CloseVictim`, `BeginBoot`, `Recovered` | `recover_after_restart` and the end of `open` |

A failing append (`NotAppended`) may or may not have reached the file. From then
on `mem.ahead` holds and every later append is refused by the journal's sequence
check, as in the code. A failed append returns before the checkpoint; a later
request without records of its own passes through `append_records` and takes it.

Coordinators are the environment: any request, with any credential ever handed
out (`issued`), at any time. `deposed` and `faults` are history variables.

Abstractions: a scope is a set of extents; payloads, operations, digests and the
wall clock are left out; the policy is a constant, as no service changes it;
`fencedInc` and the other sorted vectors are sets. The gates of `decide()` that
read registry state are `DecideGate`, with the evidence taken as current.

`ImplementsAuthority` is the refinement to `Authority`: `held` is the open grants
of a ready registry (`InForce`), `effects` the credentials of the fabric log. A
crash retires every grant at once, `Recovered` brings the new boot's (none) into
force; a commit is an act of a grant in force; and a grant opens above the token
of every effect there is, so that the floor of the fabric log, and the token
counter that `rebuild` resumes, are part of what is checked.

### Audit

`AuditHistory` and `AuditState` return the sets of findings of the two audits,
`ImportAccepts` is the checks `deserialize` makes of a snapshot, table by table,
and `Reconcile` the merge of two lineages with the conflicts it reports. They are
evaluated in the states of `Registry`: on memory, on disk, on the fabric log, and
on the grants the coordinators were told of as the second lineage.

### Storage

One level below `Registry`. There `disk` is one value and an append succeeds,
fails or fails after reaching the file; here are the three files behind it. A
piece of a file is a record with the number of its parts that are `missing`; the
scan stops at the first piece that does not follow its predecessor, a piece at
the end with parts missing is torn and cut off, and anything else is corrupt. A
journal record is its id, and `mem` the sequence of ids applied, so states are
equal when the same records were applied in the same order.

| Action | Code |
|---|---|
| `Handle(k)` | a handler that applies `k` records to memory |
| `Commit`, `CommitFails`, `CrashInCommit` | `FabricStore::admit` with a write that succeeds, fails or is cut short, and `commit`'s own record |
| `AppendRecord`, `AppendsDone` | `append_records`: `Store::append` for each, failing with any part of the bytes written; then the answer, or the checkpoint when due |
| `WriteSnapshot`, `CloseJournal`, `Rotate` | `Store::checkpoint`, each step of which may fail |
| `Crash` | process death, also with a record half written |
| `Open`, `OpenRefused` | `Store::open`, `FabricStore::open`, `load_snapshot`, `replay` and the boot's record, or the refusal of a corrupt file |

`ImplementsDurableLog` is the refinement to `DurableLog`, with `log` the records a
reader of snapshot and journal finds. With `ReplayMatchesMemory` it is what
`Registry` assumes when it keeps `disk` as one value.

### Framing, Service

A frame is two parts, header and payload, either of which may be flawed; a stream
is a sequence of parts, and a read takes any number of them. `Push` is
`FrameDecoder::push`: what is whole is decoded, the rest is kept, a flaw poisons
the decoder. A request is answered, refused, or refused as foreign to the session;
what it does to the registry is `Registry`'s subject.

| Action | Code |
|---|---|
| `Publish`, `Loop`, `Accept`, `Recheck`, `Add`, `Ending`, `Drained` | `RegistryService::run`, with `Listener::accept`, `ConnectionHub::add` and `wait_drained` |
| `Stop`, `ReadHub`, `Join` | `stop` and `join`, called by the owner at any time or once the phase is Stopped |
| `StopListener`, `CloseListener` | `Listener::stop`, by any thread: flag first, socket second |
| `BeginStop`, `ShutVictims` | `ConnectionHub::begin_stop`: flag and snapshot under the lock, sockets outside it |
| `CheckStop`, `Read`, `Handle`, `Reply`, `Shutdown`, `Leave`, `Remove` | the loop of a connection's worker and its end, with `handle_hello`, `check_envelope` and `release_session` |
| `Connect`, `Stall`, `Hangup` | the client: connects, stops reading, goes away |

`stop` reads `hub_` without the lock under which `run` publishes it; a read that
overlaps the write may see either value, which is what `ReadHub` may find before
and after `Publish`. The worker's locals are dropped when it leaves, and the client
stalls or goes away where the worker uses the socket: elsewhere nobody could tell.

### Evidence, Assessment, Witness

`Newest` and `Selections` give the statements `assess_evidence` keeps, one per
witness. `std::sort` with `attestation_less` leaves statements it does not tell
apart in any order, so `Verdicts` is a set. `StatementKind`, `LeaseState` and
`Judge` are the comparisons in the order the code makes them; the counters it
reports beside the verdict are left out, and so are the checks of the policy's name,
the range of the horizon and the bundle's size. A profile gives each witness one fault
domain, where `evidence.cpp:68` takes the same witness under two as two entries. The
registry never sets witness floors, so no statement is below one.

In `Witness`, any coordinator asks any witness for any claim it believes in,
naming any step up to the registry's, since a request carries the step of the
requester's allocation; `WitnessService::attest` itself takes any step. Two claims to one epoch are what the witnesses are there
for. The registry itself produces them only when an append failed
(`reissued_epoch`) or its lineage is full (below). `Provable` pools all statements ever
issued: it is what coordinators that share everything could present.

### Arbiter, Arbitration

`Verdict` is `decide_authority` from its structural checks to the grant, gate by
gate in the order of the code. `Contest` is the part about competing claims: the
two loops over the overlapping claims, sorted by claim id, each of which stops at
the first claim that stops the request (`Obstacle`, `Twin`). `MustFence` is the
list an authoritative decision carries. `Revoked` is `check_revocation`, with a
view that is complete. The policy's `require_quorum_for_exclusive` is not there
because the code never reads it.

`Arbitration` lets five offered claims enter the view, become proven, expire, be
seen to stop and be fenced in any order, and asks about all of them in every
state. This is more than the registry does, whose competing claims are always
active and proven (`Coordinator!Competing`); `decide_authority` takes any view.

### Selection

`Search` is the branch and bound search, with its budget of nodes, over the legal
candidates in the order of `preference_less`; `Greedy` and `Reference` are the two
other planners, `ValidPlan` is `validate_plan`, and `Plan` what
`select_authority_set` returns. `PlanIsOptimal` compares the search with
`Reference`, which is the optimum as a definition: a largest feasible set and, of
those, the one with the most preferred claim of any difference. Two things are to be
known of the code. The optimum is the largest set, so it may leave out the claim
with the highest epoch. And each claim is judged by `decide_authority` with the
competing claims cleared, so a plan's `must_fence` is always empty. The refusal of more
than `kMaxCompetingClaims` candidates (`selection.cpp:205`) and candidates that repeat a
claim id are left out.

### Coordinator

One record per process holds what the class holds (`epoch`, `token`, `grant`,
`authority`, `step` for `allocation_step_`) and where `mutate()` is.

| Action | Code |
|---|---|
| `Connect` | `Coordinator::connect`, `RegistryClient::connect`; again, too, with `authority_` kept |
| `Mutate`, `Acquire` | `mutate` up to its loop, `acquire_authority`, `allocate_epoch` |
| `Collect` | one turn of `collect_evidence`, `WitnessClient::attest`, `WitnessService::attest` |
| `Evaluate` | `evaluate`, `RegistryState::decide` at the registry's own step |
| `Commit` | the rest of the loop's body, `RegistryState::commit`, `FabricStore::admit` |
| `Release`, `Exit` | `release`, `close` or the death of the process |
| `Break`, the second case of `Answered` | a connection that breaks before a request is written, or after it was served |
| `OperatorFence` | `RegistryState::fence` |
| `RegistryRestart`, `WitnessRestart` | both services losing their connections, the witness its memory as well |

The registry serves a request in one step; what goes on inside one, what a crash or a
failed append there leaves, and tables that refuse a record (`fence.cpp:55`, `:86`) are
`Registry`'s subject. A restart here keeps the fenced incarnations as they are;
`FenceTable::import` would add extent owners, which only refuses more. Coordinators
that do without evidence (`require_quorum = false`, `coordinator.cpp:198`) are left out. Every allocation of a coordinator is
a new attempt, so the idempotent answer does not occur. A domain's scope is fixed
by its definition, so a witness's subject is a domain. A restarted registry counts
fence generations from one again, from wherever its snapshot was taken, so
`fenceGen` may become any number it can have reached. A process that is told of a
lost connection at its next request, and one that is told at once, do the same.
`decided` and `failures` are history variables.

## 3. Runs

Passing runs:

| Run | Shows |
|---|---|
| `safety` | two coordinators, two domains over equal, nested or disjoint scopes, every request in every order and one crash: open grants are disjoint, epochs follow tokens, late commits are refused, what `decide` calls authoritative is admitted, the audits report only what has a known cause (below), and the lineage agrees with what the coordinators were told |
| `faults` | two faults, each a crash (also inside recovery) or a failed append, with checkpoints and an extent table that refuses: tokens of effects identify their grant, incarnations are not reissued and fenced ones do not return, nothing of an older boot is honoured, recovery is complete before the registry is ready, every state is one the loader accepts, and `Registry` implements `Authority` |
| `liveness` | a handler gives the mutex back; a registry that went down serves again, unless it left one of two states on disk, both of which the run reaches |
| `assessment` | evidence is current only with a quorum of newest, exactly bound, unexpired statements; old statements are inert; waiting never freshens |
| `votes` | while witnesses keep their memory, two claims to one epoch are never both proven, and a pool of statements has one verdict |
| `arbitration` | of two claims whose scopes meet at most one is authoritative, of two incarnations with the same epoch none; a proven highest claim is not refused for ever; what is superseded is named for fencing; the planner's search finds the reference's optimum, and with too small a budget it does not claim to |
| `coordination` | witnesses never refuse the coordinator whose grant is open; an effect belongs to a decided grant and none newer was decided before it; a decision that `check_revocation` lets stand would be admitted, also across a restart |
| `storage` | three faults, each a crash or a failing write with any part of its bytes in the file, at every step of appends, checkpoints and commits: the journal stays readable, replay gives what is in memory unless an append failed, nothing acknowledged is lost and nothing comes back out of order, the fabric log keeps its tokens in order and, unless a flush failed, its effects |
| `service` | owner, runner and two workers in every interleaving, streams cut anywhere, flaws, violations of the session's rules, stalling and vanishing clients, one or two stops: every stop ends, `join` leaves nothing behind, sessions come and go with their workers, frames are handled as sent, and a client that goes away gives its session back |

Runs that show the code departing from what the repository says of it (quoted in
`PROJECT.json`, "findings"):

| Run | What happens |
|---|---|
| `fence_miss` | a fence that matches no open grant raises the marks of its extents above an overlapping grant, which stays open and whose lower token is still admitted; `commit` asks neither the marks nor the fenced incarnations |
| `reissued_epoch` | an append fails, the retry is answered from memory, a restart issues the same epoch again |
| `amnesia` | a restarted witness votes again, and two coordinators hold a majority for one epoch |

More were met while modelling; the bounds or a property's wording leave them out.

* With the table of fenced incarnations full (`MaxFenceRecords` = 1 and
  `MaxTokens` = 6 with two sessions), a new entry is dropped silently (`fence.cpp:123`) and the
  incarnation is granted authority again: `NoResurrection` fails.
* A full lineage (`MaxLineageEntries` = 2) evicts the oldest closed grant of
  whichever domain (`lineage.cpp:41`); `max_epoch` is computed from what is left,
  so a domain may start again at epoch one: `EpochsMonotone` fails.
* After a refused commit `mutate()` goes on under the same epoch, token and grant
  (`coordinator.cpp:264`), where the comment above it says that it re-acquires
  "rather than retrying under the same epoch". The retries are refused, which
  `EffectsFollowDecisions` covers; they only cost attempts.
* `FenceTable::import` puts the owner of every extent into the fenced
  incarnations, so a state loaded from a snapshot has more of them than the live
  state it was taken of; restart fences the open grants anyway, so only the offline
  auditor sees it, and reports the open grants of any snapshot as uninterruptible.
* A restarted witness numbers its statements from one again, so two of them may tie
  in `attestation_less`, and the verdict then depends on the order of the bundle;
  `VerdictIndependentOfOrder` is therefore stated for witnesses that kept their
  memory.
* Near the extent bound a grant that was adopted cannot be fenced, since
  `fence.cpp:86` counts its extents a second time. Recovery cannot fence it either,
  and `open` fails for ever. The `liveness` run reaches this state with two extents in
  one scope and `MaxIndexedExtents` = 3; `ServesAgain` names it in `BeyondRecovery`
  and fails without that part.
* A checkpoint taken after a failed append stores a state that is ahead of the
  sequence number it is filed under (`persistence.hpp:67`, "journal sequence fully
  reflected in payload"). Every later `open` fails: this is the other part of
  `BeyondRecovery`, reached with `CheckpointEvery` = 3. If the process crashes between the snapshot's rename and
  the journal's rotation, records are applied twice, where `persistence.cpp:587`
  speaks of a "superset journal that recovery skips over"; hence the condition in
  `ReplayMatchesMemory`.
* When a write or flush of the fabric log fails, the next effect reuses the
  sequence number behind the bytes that are left. On reopening the log is refused as
  corrupt, or an effect that was reported durable is cut off as a torn tail;
  `persistence.hpp:99` says "only a genuinely truncated final record may be
  discarded". `EffectsSurviveCrashes` has the condition that no flush failed.
* `FabricStore::admit` never compares the file's size with the limit that `open`
  and `load` enforce (`fabric_store.cpp:188`): a log past it cannot be opened again.
* `registry_service.cpp:263` assigns `stop_connection` instead of raising it
  (`witness_service.cpp:272` too): an ordinary refusal in the same chunk takes an
  identity violation back, and the connection stays open. The repository's
  README.md:272 says that the connection is closed. `ViolationsEndConnections` makes
  this one exception.
* Good frames that arrive in one chunk with a flaw behind them are dropped
  unanswered, since `push` reports only the flaw.
* A witness never removes an entry of `sessions_` (`witness_service.cpp:231`), so
  `SessionsMatchWorkers` is false of a witness, and after `kMaxSessions` connections
  it takes no more.
* The auditor orders effects by epoch also across domains (`audit.cpp:33`) and
  reports a legal succession between two of them as a fence escape. `AuditFindings`
  allows that finding between two domains.
* A fence that matches no open grant raises the marks of its extents and fences the
  incarnation it names, while a grant of another domain, or of another epoch, over
  these extents or by this incarnation stays open (`registry_state.cpp:1069`). The
  auditor reports that grant as uninterruptible (`audit.cpp:177`) or as below a mark
  (`audit.cpp:205`). `AuditFindings` allows the two findings only where a retained
  fence record aimed at another domain or epoch is their cause, and only asks between
  two requests: in a handler the grant is fenced before it is closed, and a crash in
  between leaves it open and fenced on disk until recovery closes it.
* `check_revocation` revokes on a higher epoch of any other domain, overlapping or
  not (`arbiter.cpp:371`): too much, never too little, and no service calls it.
* `allocation_step_` is set once per allocation (`coordinator.cpp:110`): past the
  horizon, every statement collected for the epoch is expired when it arrives.
* `begin_stop` shuts down the sockets of its snapshot outside the lock while their
  workers close them (`conn_hub.hpp:75`): `handle_` is read and written without
  synchronisation, and a descriptor closed in between may be another's by then.

### Bounds

| Bound | Why it is enough |
|---|---|
| two domains, two extents, three scopes | equal, nested and disjoint scopes, one or two domains superseding each other |
| `MaxSessions` 2 in `safety` | a holder and a rival; 1 elsewhere, where the incarnations of successive sessions and boots are the rivals |
| `MaxIncarnations` 4 | boots and sessions share the counter: two boots and two coordinators, or three boots |
| `MaxTokens` 3 | no request starts at the bound, but a started handler goes on past it: a grant, its supersession (two tokens) and a fence |
| `MaxEffects` 2 | an effect and one later than it |
| `MaxFaults` 2 | a failed append followed by a crash, a crash inside the recovery from a crash |
| `CheckpointEvery` 3 in `faults` and `liveness` | checkpoints in the middle of a grant's life and in recovery, and of a state ahead of the journal |
| `MaxIndexedExtents` 3 in `faults` and `liveness` | refuses the second record about a scope of two extents |
| one domain, the scopes `{e1}` and `{e1, e2}` in `liveness` | a scope that can be fenced near the extent bound and one that cannot |
| `MaxLineageEntries` 2 in `faults` | the third grant evicts a closed one; out of the way (100) elsewhere, like `MaxFenceRecords` in every run |
| `MaxBundle` 3, `MaxStep` 3 | a majority of three witnesses, or two statements of one; before, in and after a window |
| `MaxStatements` 2, `MaxRestarts` 1, `Horizon` 1 | a vote, its repetition or successor, one restart, expired and live statements |
| five offers, `MaxFences` 2 in `arbitration` | a rival in another domain with the same epoch, a successor, its twin under the same token, a reader; two fences reach every pair |
| two coordinators, `MaxStep` 8, `MaxFailures` 1, `Reachable` with one or both witnesses | eight requests: two hellos, two grants, two decisions and a late commit, or a restart between grant and grant; any one broken connection or restart on the way; with and without a quorum |
| `d3`, `Budgets` {3, 8}, `MaxSearchNodes` 100 in `arbitration` | claims over disjoint scopes, so that a plan has several; budgets that run out at once or half-way, and one that never does |
| `MaxIds` 5, `MaxBatch` 2, `CheckpointEvery` 2 in `storage` | a boot and two requests of two records, or three boots; a checkpoint at every other record |
| `MaxEffects` 2, `MaxFaults` 3, `MaxMissing` 2 in `storage` | an effect over another's remains; a failed write, a crash and a crash on the way back; a record with nothing, a part or all of it in the file |
| three credentials in `storage` | a token, its successor over a larger scope, and a second owner of the token |
| two connections, `MaxSessions` 1, six pairs of scripts in `service` | a session refused and a session freed; a violation with an ordinary refusal behind it, a request before the hello, a repeated request id, a second hello, a flaw in payload or header with a frame before or after it, and an idle client beside one that asks for the shutdown |
| `Count` 2, `Horizon` 2, `LeaseHorizon` 2 | an attempt and the one after it, windows that expire within the run |

`MCCoordinator` does not check deadlock: at `MaxStep` everything waits for a
registry that takes no further request. Nor does `MCStorage`, whose records and
faults run out, or `MCService`, where a service that was stopped has ended. Extents, domains and witnesses are symmetric
where no liveness property is checked, coordinators in `coordination`.

### Fairness

`FairSpec` assumes that the thread inside a handler or inside `open` runs on (it
waits for nothing but file I/O, which returns or fails) and that something
restarts the process after a crash. No request is assumed to arrive. Faults are
bounded, so `ServesAgain` says that the registry returns once they stop, unless the
disk is `BeyondRecovery`.

`Service`'s `FairSpec` assumes that each thread is scheduled: the runner, every
worker, the owner once it has begun to stop, and the owner's poll of the phase, with
which the tools wait for a shutdown request. Weak fairness suffices, as a thread
that can go on stays able to. Clients are not assumed to send, to read or to go
away, and no signal need arrive. A worker in a read or a write goes on only when
there is something to do there: bytes, room, a client that left, or a socket shut
down from our side.

## 4. Proofs

TLAPS checks every theorem for every value of the constants: any number of domains,
extents, witnesses, claims and connections, any bounds on faults and requests. The
assumptions are the named ones of the modules (`TablesAssumption`,
`ConstantsAssumption`, `LimitsAssumption`, `ServiceAssumption` and so on: no domain
is the absent domain, at least one domain, finitely many extents, non-empty scopes,
limits and attempts that are natural numbers, a connection is neither owner nor
runner), which TLC evaluates in the runs. Where a theorem needs more, its statement
says so and the reason is given below.

### Registry

| Theorem | States | Under |
|---|---|---|
| `TypeInvariant`, `TypeCorrect` | `TypeOK`, and that the counters are above every number in the tables | |
| `Mutex` | `OpenGrantsDisjoint` | |
| `RestartInvariant` | the invariant of the next six | |
| `Durable` | `IncarnationsDurable` | |
| `Recovery` | `RecoveryComplete` | |
| `Honoured` | `DecisionHonoured` | |
| `SameBoot` | `NoEffectAcrossRestart` | |
| `TokensIdentify` | `EffectTokensIdentifyGrants` | |
| `Implements` | the refinement `ImplementsAuthority` | |
| `Loadable` | `SnapshotLoadable` | |
| `TokensInOrder` | the auditor finds no token regression and no foreign owner | |
| `NotResurrected` | `NoResurrection` | `[]FencedTableHasRoom` |
| `NotStale` | `NoStaleEffect` | `[]InStep` |
| `Reconciles` | `LineagesReconcile` | `[]InStep` |
| `Monotone` | `EpochsMonotone` | `[](InStep /\ LineageHasRoom)` |
| `Audited` | `AuditFindings` | `[](InStep /\ LineageHasRoom /\ FenceHistoryHasRoom)` |

`TypeOK` alone is not inductive: that `MaxEpoch` and the counters of `rebuild` are
numbers needs the sets they are maxima of to be bounded, because `Max` is a
`CHOOSE`. `TypeInv` adds `Dominated`, in memory and on disk (the token and grant
counters are never below a number in the tables, and a grant's epoch never above its
id), `EffectsBounded` for the fabric log, and `TargetSound` for the grant in hand.

`Mutex` rests on `MutexInv`. `LineageOnDisk` says that disk and memory hold the same
grants until memory runs ahead, so that a record which is safe in memory is safe in
the file; `TargetFree` that nothing open overlaps the grant an allocation is about to
open, from the end of its scan to `GrantOpen`; and `IdleWhileDown` that no handler is
in progress while the registry is down.

`RestartInv` is what has to be known between two boots. A property of the ready
registry, such as `DecisionHonoured`, says nothing of a registry that is down or
recovering, so it is not inductive; the invariant follows the facts through the steps
of recovery.

* `IncarnationInv`: the counter on disk bounds every incarnation that a session, a
  grant or a credential carries. Memory may run ahead of the disk, but only in an
  incarnation that is not answered.
* `BootInv`: older boots are ended first, open grants closed next, and the new boot
  begins above all of them; a credential above the boot's own incarnation was issued
  in this boot.
* `TargetInv`: from its numbering to its opening, a grant is above every token in the
  tables, the fabric log and the hands of this boot's coordinators.
* `EffectInv`: the fabric floor is the token of an effect, no effect is above the token
  counter, and over the extents of an open grant the floor is at most its own token.
* `MarkInv`: a grant is marked interrupted before it is closed so, also in the file.
* `LineageInv`: ids, tokens and the epochs of a domain order the grants alike.

For `Implements` the mapping is that of `Registry`. `InForce` is empty unless the
registry is ready, so only the steps out of and into readiness and those of the
handlers change it: `OpenGrant` is an authorisation above every effect (`TargetInv`),
`CloseVictim` and `Crash` retire grants, and `Commit` is an act of a grant in force,
as the gate of `commit` demands.

`Audited` adds `AimInv`, kept while the registry is ready: an open grant covers the
scope of its domain, and whatever fences did to it is told by a retained record aimed
elsewhere, unless the handler in progress is about to close it. A fence aimed at the
grant's own domain and epoch meets its scope, so it finds the grant and closes it; a
successor takes over the extents under its own token and was admitted unfenced, so it
begins explained. Recovery need not be followed: it leaves no grant open.

The four hypotheses are circumstances the code depends on; the findings and the list
in section 3 show what happens without them.

* `InStep`, memory is not ahead of the journal. After a failed append the registry
  goes on serving, and a retry is answered with a grant that a crash forgets
  (`reissued_epoch`).
* `LineageHasRoom`. A full lineage evicts the oldest closed grant, and the epochs of
  its domain start again.
* `FencedTableHasRoom`. A full table drops a fenced incarnation silently.
* `FenceHistoryHasRoom`. A full history drops its oldest record, and with it the
  explanation of an older finding.

`Loadable` needs none of them, but it needs the limits of the tables to be at least
one, as the code's are (`LimitsAssumption`): a table that may hold nothing would still
be given the entry just made.

### Files

| Theorem | States |
|---|---|
| `Stored` | the invariant of the others |
| `Readable` | `JournalReadable` |
| `Replays` | `ReplayMatchesMemory` |
| `LogImplemented` | the refinement `ImplementsDurableLog` |
| `HistoryGated` | `FabricHistoryGated` |
| `EffectsSurvive` | `EffectsSurviveCrashes` |

These hold for files of any length, any number of faults, and any part of a record
missing. None of the properties is inductive: a journal that can be read says nothing
of what the next append does to it. `StorageInv` has four parts.

* `FileInv`, of the files alone: the numbers in the journal follow on each other, the
  first one on the snapshot's at the latest and the last one not below it, and only the
  last record may be incomplete (`Consecutive`). It holds while the process is down, and
  all that `Open` may rely on is here.
* `NumberInv`: the store's `last_sequence_` is the last number a reader finds, or one
  below it where a write that was reported as failed is in the file after all. In that
  case, and behind an incomplete record, the number that memory would append next is
  already higher, so `Store::append` refuses it: this is why a damaged tail stays the
  tail.
* `ContentInv`: while the numbers agree, memory is the replay followed by what is still
  to be appended; between `WriteSnapshot` and `Rotate` the snapshot is memory; and at all
  times memory holds all that a reader finds, and what it has beyond that is newer. The
  last two are what a snapshot needs that is taken of a memory ahead of its journal: the
  log a reader finds then grows by records whose append had failed.
* `FabricInv`: the process knows the fabric log as it is, with the floor of each extent,
  or a write that it took for failed has left bytes behind. In the second case the number
  it uses next is taken, and since the reader wants the numbers 1, 2, 3 it gets no
  further: later effects do not become visible, which is a loss (`EffectsSurviveCrashes`
  holds only without a failed flush) but keeps the history gated.

What a reader finds is described without induction. The scan stops at the least bad
place, which exists because the naturals are well founded, and a replay picks a set of
places that is an interval (`PickedRun`, `SuffixIs`). The lemmas `AppendedPiece`,
`CoveredMore` and `CutJournal` say what an append, a snapshot and the cut at `Open` do to
it. Each step of `LogImplemented` follows from `Grows`, which every step lemma proves
beside the invariant.

### Evidence, witnesses, arbiter

| Theorem | States | Under |
|---|---|---|
| `FailsClosed` | `CurrentMeansQuorum` | |
| `LateAnswersInert` | `OldStatementsInert` | |
| `WaitingProvesNothing` | `NoFreshnessByWaiting` | |
| `VotesRemembered` | the invariant of the next two | |
| `ExclusiveVotes` | `VotesExclusive` | |
| `OrderImmaterial` | `VerdictIndependentOfOrder` | |
| `ArbiterMutex` | `NeverBoth` | `Policy.equalEpochFatal` |
| `AllSupersededNamed` | `SupersededAreNamed` | `Policy.equalEpochFatal`, `Policy.fenceLower` |
| `HighestWins` | `HighestProvenWins` | `Serves`, room in the fence history |

`assess_evidence` is a function of a bundle, so its theorems are lemmas about the
operators (`EvidenceProofs`) plus `BundleInv`: what `Newest` keeps, what a statement
that supports the claim must say, and that a witness which has made a newer statement
is judged by that one. `VoteInv` has three parts: a running witness remembers the
last thing it said (`Remembered`), so that it voted for one incarnation and token per
epoch (`OneVote`) and never used a number twice (`Numbered`). Two quorums of a valid
profile share witnesses (`QuorumsMeet`, by counting), and a shared witness that did
not restart would have voted twice.

The arbiter's theorems are about the two loops of `Contest`. Sorted by claim id, each
stops at its first obstacle; the proofs need that a first one exists whenever there
is any, which is where claim ids are well founded. The policy switches in the
hypotheses are the code's defaults, and each can be turned off by a policy, which then
loses the guarantee. `Serves` says that the policy is one under which the claims can be
served at all (a valid profile, the right generation, leases where they are required);
`HighestWins` would be false without it, as every claim is then refused. It also needs
the bounded fence history to hold all fences: `check_revocation` and the gates read
that history.

### Coordinators

| Theorem | States | Under |
|---|---|---|
| `Served` | types, and the lineage in order | |
| `Followed` | `EffectsFollowDecisions` | |
| `Welcome` | `HolderNeverRefused` | `[]LineageHasRoom`, at most `MaxSubjects` domains |
| `Complete` | `RevocationComplete` | `[]LineageHasRoom`, `[]FencedTableHasRoom` |

These hold for any number of coordinators, domains and witnesses and any number of
failures. An allocation fences the grants in its way one after the other. What the
loop leaves behind is described once, by an invariant of its passes (`LoopInv`) and
the relations `Closing` (some open grants ended, and the incarnations that held them
are fenced) and `Granting` (those in the way ended, then one was opened). Every action
is shown to be one of three moves (`StepMoves`): the registry ends grants and the
coordinators keep their names; a coordinator is given an incarnation; a coordinator is
granted an epoch, and in both cases it may not hear of it. The invariants are then
carried over the three moves, not over the twelve actions.

* `Lineage`: the grants are for their domains' scopes, the counters are ahead of them,
  ids identify them and no two open ones meet.
* `DecisionInv`: no decision and no floor of the fabric is above an open grant it
  meets, or above the token counter, and who commits was decided for. It needs that an
  open grant was open before or is newer than every token handed out (`TokensRise`).
* `AgreementInv`: an incarnation belongs to one process and one domain (`NamesInv`);
  within a domain an epoch is one grant and an open grant has the highest
  (`EpochsIdentify`); an epoch that a coordinator holds is in the lineage and nobody
  else's (`HoldersInv`); and what a witness remembers is in the lineage, under an
  incarnation that its holder has or had (`VotesInv`). The last part is for a
  coordinator that connects again and keeps its epoch under a new incarnation: witnesses
  remember the old one, and refuse the new; but then the registry does not find the
  grant held under the new one either, and the property is not about it.
* `TraceInv`: every decision is for a grant of the lineage, and one that ended was
  followed by a higher epoch of its domain or has its incarnation fenced.
  `allocate_epoch` does not fence the caller's own incarnation; that this leaves a
  higher epoch behind is where `NamesInv` is needed.

The hypotheses are limits of the code again. With a full lineage the epochs of a domain
start over, and witnesses that remember a higher one refuse their holder; a witness with
`max_subjects` domains refuses the next; and a full table of fenced incarnations drops
the trace of a grant that ended.

### Threads

| Theorem | States |
|---|---|
| `Serving` | the invariant of the next three |
| `JoinIsSafe` | `NothingOutlivesJoin` |
| `SessionsReleased` | `SessionsMatchWorkers` |
| `ViolationsEnd` | `ViolationsEndConnections` |

`ServiceInv` holds for any number of connections and any scripts. Its parts are
`CountInv` (the hub's number is that of the running workers, and a connection that is
in the backlog or in hand is in one place only and has no worker yet), `StopInv` (who
is about to stop or close the listener does so in a stopping service, a listener whose
flag is set has a thread that will close it, and the runner drains the hub only
behind it) and `SessionInv`. `JoinIsSafe` combines all of them: the owner is done
after the runner, the runner after the last worker, and then nobody is left who could
be between the listener's flag and its close. `ViolationsEnd` adds `LogInv`: a
violation that was not taken back still holds its worker's `stop_connection`, nothing
of a later chunk was handled since, and the worker is not where it would read.

### Only model-checked

* Liveness: `LockReleased`, `ServesAgain`, `StopEnds`, `HangupsFreeSessions`. The
  prover does not do fairness.
* `DecodedAsSent`: `Push` folds over a chunk, and what a fold computes is an induction
  over data, which the installed provers cannot do.
* `Selection`: the search is a `RECURSIVE` operator, with which the prover loses its
  SMT backend.

## 5. Not modelled

Left to another module, or to a smaller set of inputs:

* `Registry` commits without a failing fabric log and checkpoints in one step that
  succeeds; `Storage` has the steps of both and their failures (`CommitFails`,
  `WriteSnapshot`, `Rotate` and the rest).
* `Registry`'s `Fence` names an epoch and an incarnation that were given out, or none;
  a request may carry any numbers. An epoch nobody holds matches no grant, which is
  `FenceUnowned` as well; an incarnation fenced before it is given out would be refused
  authority from its first request on.

Not modelled:

* the signal behind a failed send: `net.cpp:204` sends without `MSG_NOSIGNAL` and
  nothing ignores `SIGPIPE`, so on POSIX a reply to a client that is gone may end the
  process; `Service`'s `Reply` takes the error return, which is what the code handles;
* the payload codecs of the single messages, canonical encoding, digests, text,
  option parsing: no state, and what they preserve is not what these properties
  tell apart (how a stream is cut into frames is in `Framing`);
* the system calls under the sockets and files, beyond their outcomes;
* the witness's threads: `WitnessService::run` is the program of `Service` without
  `release_session` and without a shutdown request;
* data races below the level of a value (`handle_` in `begin_stop`);
* that `mutate()` succeeds in the end, which it need not: its attempts are bounded and
  its evidence window is never refreshed;
* the sizes of files, and the bounds of tables the runs keep out of the way
  (named above with what happens at them).

