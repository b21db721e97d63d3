------------------------------ MODULE Storage -------------------------------
(***************************************************************************)
(* The registry's files, one level below Registry: the journal, the        *)
(* snapshot and the fabric log, written and read back by a process that    *)
(* may crash inside any write, whose writes may fail, and whose memory is  *)
(* changed before its journal is.                                          *)
(*                                                                         *)
(* A journal record is its id; applying it to memory appends it to `mem',  *)
(* so that two states are equal when the same records were applied in the  *)
(* same order.  An effect is its place among the effects ever tried, `tried'.*)
(***************************************************************************)
EXTENDS RecordFile, Functions

CONSTANTS
  Extents,
  Credentials,      \* [token, inc, scope] of the commits that reach the fabric log
  CheckpointEvery,  \* RegistryConfig::checkpoint_every_records
  MaxBatch,         \* bound: journal records of one handler
  MaxIds,           \* bound: journal records
  MaxEffects,       \* bound: effects, failed ones included
  MaxFaults         \* bound: crashes and failed writes

ASSUME StorageAssumption ==
  /\ Credentials \subseteq [token: Nat \ {0}, inc: Nat \ {0}, scope: SUBSET Extents]
  /\ CheckpointEvery \in Nat \ {0}

VARIABLES
  journal,    \* sbf.journal
  snapshot,   \* sbf.snapshot: [covers, state, regSeq]
  fabric,     \* sbf.fabric
  proc,       \* the process: see Process
  nextId,     \* history: ids given out
  tried,      \* history: the credentials of the effects written, whole or not
  acked,      \* history: journal records of requests that were answered Ok
  done,       \* history: effects that were reported durable
  flushFailed,\* history: a write to the fabric log has failed
  faults      \* history: crashes and failed writes

vars == <<journal, snapshot, fabric, proc, nextId, tried, acked, done, flushFailed, faults>>

Process ==
  [phase: {"down", "opening", "ready"},
   pc: {"idle", "append", "snapshot", "close", "rotate"},
   mem: Seq(Nat),      \* the records applied to RegistryState
   regSeq: Nat,        \* registry_sequence_
   pending: Seq(Nat \X Nat),   \* <<sequence, id>> of the records still to be appended
   batch: SUBSET Nat,  \* the records of the request in hand
   handle: BOOLEAN,    \* Store::file_ is open
   last: Nat,          \* Store::last_sequence_
   since: Nat,         \* records_since_checkpoint_
   flast: Nat,         \* FabricStore::last_sequence_
   floor: [Extents -> [hw: Nat, owner: Nat]]]   \* FabricStore::owners_

NoFloor == [e \in Extents |-> [hw |-> 0, owner |-> 0]]

Down ==
  [phase |-> "down", pc |-> "idle", mem |-> <<>>, regSeq |-> 0, pending |-> <<>>, batch |-> {},
   handle |-> FALSE, last |-> 0, since |-> 0, flast |-> 0, floor |-> NoFloor]

-----------------------------------------------------------------------------
(* Reading the files back. *)

\* Store::open skips sequences it has already seen or the snapshot covers, and
\* refuses one that leaves a gap.
JournalBad ==
  {i \in DOMAIN journal :
     \/ journal[i].missing > 0
     \/ journal[i].seq > 1 + Max({snapshot.covers} \cup {journal[j].seq : j \in 1..(i - 1)})}

\* The places of the records a replay applies: those behind the snapshot.
Unseen == {i \in 1..(Stop(journal, JournalBad) - 1) : journal[i].seq > snapshot.covers}

\* Mutant of Behind: what the snapshot covers is applied again.
BehindAll == Intact(journal, JournalBad)

Behind == Picked(journal, Unseen)

Ids(pieces) == [i \in DOMAIN pieces |-> pieces[i].id]

Replayed == snapshot.state \o Ids(Behind)

\* FabricStore::open wants the sequence numbers 1, 2, 3...
FabricBad == {i \in DOMAIN fabric : fabric[i].missing > 0 \/ fabric[i].seq # i}

History == Ids(Intact(fabric, FabricBad))

Raised(floor, c) ==
  [e \in Extents |-> IF e \in c.scope THEN [hw |-> c.token, owner |-> c.inc] ELSE floor[e]]

\* record_owner for every record of the file: the last one of an extent stands.
FloorOf(h) ==
  [e \in Extents |->
     LET on == {i \in DOMAIN h : e \in tried[h[i]].scope}
     IN  IF on = {} THEN [hw |-> 0, owner |-> 0]
         ELSE [hw |-> tried[h[Max(on)]].token, owner |-> tried[h[Max(on)]].inc]]

-----------------------------------------------------------------------------
(* Requests. *)

Serving == proc.phase = "ready" /\ proc.pc = "idle"

\* p with k more records in memory, to be appended: emit() applies them first.
Emitted(p, k) ==
  [p EXCEPT !.pc = "append",
            !.mem = @ \o [i \in 1..k |-> nextId + i],
            !.regSeq = @ + k,
            !.pending = [i \in 1..k |-> <<p.regSeq + i, nextId + i>>],
            !.batch = (nextId + 1)..(nextId + k)]

\* A handler that emits k records; one that emits none is a refused request.
Handle(k) ==
  /\ Serving
  /\ nextId + k =< MaxIds
  /\ proc' = Emitted(proc, k)
  /\ nextId' = nextId + k
  /\ UNCHANGED <<journal, snapshot, fabric, tried, acked, done, flushFailed, faults>>

\* Mutant of FabricGate: the floor is not compared.
FabricGateOpen(c) == TRUE

FabricGate(c) ==
  \A e \in c.scope : /\ proc.floor[e].hw =< c.token
                     /\ proc.floor[e].hw = c.token => proc.floor[e].owner = c.inc

Effect == Whole(proc.flast + 1, Len(tried) + 1)

\* Mutant of Commit: the sequence number of the file is not advanced.
CommitSameSequence(c) ==
  /\ Serving
  /\ nextId < MaxIds /\ Len(tried) < MaxEffects
  /\ FabricGate(c)
  /\ fabric' = Append(fabric, Effect)
  /\ tried' = Append(tried, c)
  /\ done' = done \cup {Len(tried) + 1}
  /\ proc' = [Emitted(proc, 1) EXCEPT !.floor = Raised(@, c)]
  /\ nextId' = nextId + 1
  /\ UNCHANGED <<journal, snapshot, acked, flushFailed, faults>>

\* commit() with FabricStore::admit: the effect is made durable before memory and
\* the journal hear of it.
Commit(c) ==
  /\ Serving
  /\ nextId < MaxIds /\ Len(tried) < MaxEffects
  /\ FabricGate(c)
  /\ fabric' = Append(fabric, Effect)
  /\ tried' = Append(tried, c)
  /\ done' = done \cup {Len(tried) + 1}
  /\ proc' = [Emitted(proc, 1) EXCEPT !.flast = @ + 1, !.floor = Raised(@, c)]
  /\ nextId' = nextId + 1
  /\ UNCHANGED <<journal, snapshot, acked, flushFailed, faults>>

\* The write or the flush fails: the answer is Unknown and nothing in memory
\* moves, so that the next effect takes the same sequence number.
CommitFails(c) ==
  /\ Serving
  /\ Len(tried) < MaxEffects /\ faults < MaxFaults
  /\ FabricGate(c)
  /\ fabric' \in Interrupted(fabric, Effect)
  /\ tried' = Append(tried, c)
  /\ proc' = Emitted(proc, 0)
  /\ flushFailed' = TRUE
  /\ faults' = faults + 1
  /\ UNCHANGED <<journal, snapshot, nextId, acked, done>>

-----------------------------------------------------------------------------
(* append_records, one record at a time, and the checkpoint it may end in. *)

\* The request ends without an answer, or open() fails and the process exits.
Failed(p) == IF p.phase = "opening" THEN Down ELSE [p EXCEPT !.pc = "idle", !.pending = <<>>]

\* Mutant of Appendable: the sequence is not compared with the file's.
AppendableAny(p) == p.handle

Appendable(p) == p.handle /\ p.pending[1][1] = p.last + 1

Record == Whole(proc.pending[1][1], proc.pending[1][2])

AppendRecord ==
  /\ proc.pc = "append" /\ proc.pending # <<>>
  /\ \/ /\ Appendable(proc)
        /\ journal' = Append(journal, Record)
        /\ proc' = [proc EXCEPT !.pending = Tail(@),
                                !.last = Record.seq, !.since = @ + 1]
        /\ UNCHANGED faults
     \/ /\ Appendable(proc)
        /\ faults < MaxFaults
        /\ journal' \in Interrupted(journal, Record)
        /\ proc' = Failed(proc)
        /\ faults' = faults + 1
     \/ /\ ~Appendable(proc)
        /\ proc' = Failed(proc)
        /\ UNCHANGED <<journal, faults>>
  /\ UNCHANGED <<snapshot, fabric, nextId, tried, acked, done, flushFailed>>

\* p after a request that succeeded.
Served(p) == [p EXCEPT !.phase = "ready", !.pc = "idle", !.batch = {}]

AppendsDone ==
  /\ proc.pc = "append" /\ proc.pending = <<>>
  /\ \/ /\ proc.since < CheckpointEvery
        /\ proc' = Served(proc)
        /\ acked' = acked \cup proc.batch
     \/ /\ proc.since >= CheckpointEvery
        /\ proc' = [proc EXCEPT !.pc = "snapshot"]
        /\ UNCHANGED acked
  /\ UNCHANGED <<journal, snapshot, fabric, nextId, tried, done, flushFailed, faults>>

\* Mutant of WriteSnapshot: a failed write does not stop the rotation.
WriteSnapshotRegardless ==
  /\ proc.pc = "snapshot" /\ proc.handle
  /\ faults < MaxFaults
  /\ proc' = [proc EXCEPT !.pc = "close"]
  /\ faults' = faults + 1
  /\ UNCHANGED <<journal, snapshot, fabric, nextId, tried, acked, done, flushFailed>>

\* Store::checkpoint of the state in memory.  The staging file replaces the old
\* snapshot in one step or not at all.
WriteSnapshot ==
  /\ proc.pc = "snapshot"
  /\ \/ /\ proc.handle
        /\ snapshot' = [covers |-> proc.last, state |-> proc.mem, regSeq |-> proc.regSeq]
        /\ proc' = [proc EXCEPT !.pc = "close"]
        /\ UNCHANGED faults
     \/ /\ proc.handle
        /\ faults < MaxFaults
        /\ proc' = Failed(proc)
        /\ faults' = faults + 1
        /\ UNCHANGED snapshot
     \/ /\ ~proc.handle
        /\ proc' = Failed(proc)
        /\ UNCHANGED <<snapshot, faults>>
  /\ UNCHANGED <<journal, fabric, nextId, tried, acked, done, flushFailed>>

\* The journal is flushed and closed before it is rotated.
CloseJournal ==
  /\ proc.pc = "close"
  /\ \/ /\ proc' = [proc EXCEPT !.pc = "rotate", !.handle = FALSE]
        /\ UNCHANGED faults
     \/ /\ faults < MaxFaults
        /\ proc' = Failed(proc)
        /\ faults' = faults + 1
  /\ UNCHANGED <<journal, snapshot, fabric, nextId, tried, acked, done, flushFailed>>

\* An empty journal replaces the old one.  When that, or reopening it, fails the
\* store is left without a file for good and every later append is refused.
Rotate ==
  /\ proc.pc = "rotate"
  /\ \/ /\ journal' = <<>>
        /\ proc' = Served([proc EXCEPT !.handle = TRUE, !.since = 0])
        /\ acked' = acked \cup proc.batch
        /\ UNCHANGED faults
     \/ /\ faults < MaxFaults
        /\ journal' \in {journal, <<>>}
        /\ proc' = Failed(proc)
        /\ faults' = faults + 1
        /\ UNCHANGED acked
  /\ UNCHANGED <<snapshot, fabric, nextId, tried, done, flushFailed>>

-----------------------------------------------------------------------------
(* Crash and reopening. *)

\* A crash inside an append leaves any part of the record in the file.
Crash ==
  /\ proc.phase # "down"
  /\ faults < MaxFaults
  /\ journal' \in IF proc.pc = "append" /\ proc.pending # <<>> /\ Appendable(proc)
                  THEN Interrupted(journal, Record) ELSE {journal}
  /\ proc' = Down
  /\ faults' = faults + 1
  /\ UNCHANGED <<snapshot, fabric, nextId, tried, acked, done, flushFailed>>

CrashInCommit(c) ==
  /\ Serving
  /\ Len(tried) < MaxEffects /\ faults < MaxFaults
  /\ FabricGate(c)
  /\ fabric' \in Interrupted(fabric, Effect)
  /\ tried' = Append(tried, c)
  /\ proc' = Down
  /\ faults' = faults + 1
  /\ UNCHANGED <<journal, snapshot, nextId, acked, done, flushFailed>>

\* What a process that opens the files knows before it journals its boot.
Opened(behind, history) ==
  [Down EXCEPT
     !.phase = "opening", !.handle = TRUE,
     !.mem = snapshot.state \o Ids(behind),
     !.regSeq = IF behind = <<>> THEN snapshot.regSeq ELSE behind[Len(behind)].seq,
     !.last = Max({snapshot.covers} \cup {behind[i].seq : i \in DOMAIN behind}),
     !.flast = Len(history), !.floor = FloorOf(history)]

\* RegistryService::open: both files are scanned, a torn tail is cut off, the
\* snapshot is loaded, what is behind it replayed, and the boot is journalled.
Open ==
  /\ proc.phase = "down"
  /\ nextId < MaxIds
  /\ ~Corrupt(journal, JournalBad) /\ ~Corrupt(fabric, FabricBad)
  /\ journal' = Intact(journal, JournalBad)
  /\ fabric' = Intact(fabric, FabricBad)
  /\ proc' = Emitted(Opened(Behind, History), 1)
  /\ nextId' = nextId + 1
  /\ UNCHANGED <<snapshot, tried, acked, done, flushFailed, faults>>

OpenRefused ==
  /\ proc.phase = "down"
  /\ Corrupt(journal, JournalBad) \/ Corrupt(fabric, FabricBad)
  /\ UNCHANGED vars

-----------------------------------------------------------------------------
Init ==
  /\ journal = <<>>
  /\ snapshot = [covers |-> 0, state |-> <<>>, regSeq |-> 0]
  /\ fabric = <<>>
  /\ proc = Down
  /\ nextId = 0
  /\ tried = <<>>
  /\ acked = {}
  /\ done = {}
  /\ flushFailed = FALSE
  /\ faults = 0

Next ==
  \/ \E k \in 0..MaxBatch : Handle(k)
  \/ \E c \in Credentials : Commit(c) \/ CommitFails(c) \/ CrashInCommit(c)
  \/ AppendRecord \/ AppendsDone
  \/ WriteSnapshot \/ CloseJournal \/ Rotate
  \/ Crash \/ Open \/ OpenRefused

Spec == Init /\ [][Next]_vars

-----------------------------------------------------------------------------
(* Properties. *)

\* The journal never reads as corrupt: an append that failed, with any part of
\* its bytes in the file, is never followed by another record, because memory's
\* sequence has moved on and Store::append refuses the next one.
JournalReadable == ~Corrupt(journal, JournalBad)

\* While no append has failed, what a restart would replay is what is in memory,
\* whichever step of a checkpoint was the last to succeed: the assumption under
\* which Registry keeps `disk' as one value.
ReplayMatchesMemory ==
  Serving /\ proc.regSeq = proc.last => Replayed = proc.mem

\* The records a reader finds, be it once or twice.
Found == Range(snapshot.state) \cup {journal[i].id : i \in Unseen}

Journalled == INSTANCE DurableLog WITH log <- Found

\* The journal with its snapshot implements a log that only grows and keeps what
\* was acknowledged, through torn and failed appends, checkpoints interrupted or
\* failing between any two of their steps, and repeated reopening.
ImplementsDurableLog == Journalled!LogSpec

\* The effects that can be read back were each admitted above or with the tokens
\* of the effects before them on the same extent, and equal tokens have one owner,
\* also when flushes failed and left their bytes behind.
FabricHistoryGated ==
  LET known == History
      h == [i \in DOMAIN known |-> tried[known[i]]]
  IN  \A i, j \in DOMAIN h : i < j /\ h[i].scope \cap h[j].scope # {} =>
        /\ h[i].token =< h[j].token
        /\ h[i].token = h[j].token => h[i].inc = h[j].inc

\* Unless a flush of the fabric log has failed, a log that was written by crashing
\* processes reopens, and with every effect that was reported durable in it.
EffectsSurviveCrashes ==
  ~flushFailed => ~Corrupt(fabric, FabricBad) /\ done \subseteq {History[i] : i \in DOMAIN History}

=============================================================================
