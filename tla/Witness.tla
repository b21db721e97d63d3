------------------------------ MODULE Witness -------------------------------
(***************************************************************************)
(* The witnesses: processes that hold one quorum vote each, remember in    *)
(* memory what they have attested, and forget it when they restart.        *)
(* Coordinators, connected or partitioned, ask any of them to attest any   *)
(* claim they believe in, and keep every statement they got.               *)
(***************************************************************************)
EXTENDS WitnessMemory

CONSTANTS
  Claims,          \* the claims coordinators make
  MaxSessions,     \* limits::kMaxSessions
  MaxStep,         \* bound: the registry's clock
  MaxStatements,   \* bound: statements a witness issues between restarts
  MaxRestarts      \* bound: witnesses that restart, each once

ASSUME WitnessConstants ==
  /\ Claims \subseteq {c \in Claim : c.epoch # 0 /\ c.inc # 0 /\ c.token # 0}
  /\ MaxSessions \in Nat
  /\ MaxStep \in Nat

VARIABLES
  subjects,    \* per witness: subjects_, what it attested last
  lastSeq,     \* per witness: last_sequence_
  sessions,    \* per witness: the size of sessions_
  linked,      \* witnesses with a coordinator connected
  statements,  \* every statement ever issued; coordinators may present any
  now,         \* the registry's logical step
  forgetful    \* history: witnesses that restarted

vars == <<subjects, lastSeq, sessions, linked, statements, now, forgetful>>

-----------------------------------------------------------------------------
Init ==
  /\ subjects = [w \in Witnesses |-> [s \in Subjects |-> Nothing]]
  /\ lastSeq = [w \in Witnesses |-> 0]
  /\ sessions = [w \in Witnesses |-> 0]
  /\ linked = {}
  /\ statements = {}
  /\ now = 1
  /\ forgetful = {}

\* A hello: sessions_ grows and nothing ever takes an entry out of it.
Connect(w) ==
  /\ w \notin linked
  /\ sessions[w] < MaxSessions
  /\ sessions' = [sessions EXCEPT ![w] = @ + 1]
  /\ linked' = linked \cup {w}
  /\ UNCHANGED <<subjects, lastSeq, statements, now, forgetful>>

\* The connection is gone, on either side; the entry in sessions_ is not.
Disconnect(w) ==
  /\ w \in linked
  /\ linked' = linked \ {w}
  /\ UNCHANGED <<subjects, lastSeq, sessions, statements, now, forgetful>>

\* attest(), for a claim the witness may attest.
Attest(w, c, step) ==
  LET memory == Attested(subjects[w], c)
      seq    == lastSeq[w] + 1
  IN  /\ w \in linked
      /\ lastSeq[w] < MaxStatements
      /\ MayAttest(subjects[w], c)
      /\ subjects' = [subjects EXCEPT ![w] = memory]
      /\ lastSeq' = [lastSeq EXCEPT ![w] = seq]
      /\ statements' = statements \cup {Attestation(w, c, memory, seq, step)}
      /\ UNCHANGED <<sessions, linked, now, forgetful>>

\* A witness process that restarts remembers nothing.
Restart(w) ==
  /\ w \notin forgetful /\ Cardinality(forgetful) < MaxRestarts
  /\ forgetful' = forgetful \cup {w}
  /\ subjects' = [subjects EXCEPT ![w] = [s \in Subjects |-> Nothing]]
  /\ lastSeq' = [lastSeq EXCEPT ![w] = 0]
  /\ sessions' = [sessions EXCEPT ![w] = 0]
  /\ linked' = linked \ {w}
  /\ UNCHANGED <<statements, now>>

\* The registry serves some request.
Tick ==
  /\ now < MaxStep
  /\ now' = now + 1
  /\ UNCHANGED <<subjects, lastSeq, sessions, linked, statements, forgetful>>

\* A status request, or a hello or an attestation the witness refuses.
Observe == UNCHANGED vars

Next ==
  \/ \E w \in Witnesses : Connect(w) \/ Disconnect(w) \/ Restart(w)
  \/ \E w \in Witnesses, c \in Claims, step \in 1..now : Attest(w, c, step)
  \/ Tick
  \/ Observe

Spec == Init /\ [][Next]_vars

-----------------------------------------------------------------------------
(* Properties. *)

\* The evidence that coordinators, pooling every statement they got, can put
\* together for claim c is current at the registry.
Provable(c) ==
  LET useful == {a \in statements : StatementKind(c, Profile, a, now) = "support"}
  IN  "Current" \in Verdicts(c, Profile, useful, {}, Profile.generation, now)

Rivals(c, d) == c # d /\ c.subject = d.subject /\ c.epoch = d.epoch

\* The witnesses that any two quorums have in common, at least.
Overlap == 2 * RequiredWitnesses(Profile) - Cardinality(Profile.witnesses)

\* Two claims for the same epoch of a subject are both proven only if a whole
\* overlap of quorums restarted, whoever asks which witness in which order and
\* whatever is presented late: a witness gives its vote for an epoch to one
\* incarnation and token for as long as it runs, and quorums meet.
VotesExclusive ==
  Cardinality(forgetful) < Overlap =>
    \A c, d \in Claims : Rivals(c, d) => ~(Provable(c) /\ Provable(d))

\* While no witness restarts, the verdict on whatever statements coordinators
\* pool is the same in every order of the bundle: a witness never gives two
\* statements the same number.
VerdictIndependentOfOrder ==
  forgetful = {} =>
    \A c \in Claims :
      Cardinality(Verdicts(c, Profile, statements, {}, Profile.generation, now)) = 1

-----------------------------------------------------------------------------
(* What the documentation claims and the code does not give. *)

\* "A witness refuses to attest two different incarnations for the same (domain,
\* scope, epoch). A partitioned side therefore cannot assemble a quorum"
\* (README, enforcement layer 1), with witnesses that may restart.
QuorumExclusive ==
  \A c, d \in Claims : Rivals(c, d) => ~(Provable(c) /\ Provable(d))

=============================================================================
