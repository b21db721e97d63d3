---------------------------- MODULE WitnessMemory ---------------------------
(***************************************************************************)
(* What a witness remembers, which claims it may attest on the strength of *)
(* it, and the statement it then signs.                                    *)
(***************************************************************************)
EXTENDS Evidence

CONSTANTS
  Horizon,      \* WitnessConfig::attestation_horizon_steps
  MaxSubjects   \* WitnessConfig::max_subjects

ASSUME WitnessConfig ==
  /\ Horizon \in Nat \ {0}
  /\ MaxSubjects \in Nat

\* AttestedSubject: epoch 0 while the witness knows nothing of the subject.
Memory == [epoch: Nat, inc: Nat, token: Nat, gen: Nat]

Nothing == [epoch |-> 0, inc |-> 0, token |-> 0, gen |-> 0]

Known(memory) == {s \in Subjects : memory[s].epoch # 0}

\* Mutant of MayAttest: the vote of an epoch may move to another incarnation.
MayAttestAnyone(memory, c) ==
  IF memory[c.subject].epoch = 0
  THEN Cardinality(Known(memory)) < MaxSubjects
  ELSE c.epoch >= memory[c.subject].epoch

\* A superseded epoch is refused, and so is a second incarnation or token for
\* the epoch attested last.
MayAttest(memory, c) ==
  LET last == memory[c.subject]
  IN  IF last.epoch = 0
      THEN Cardinality(Known(memory)) < MaxSubjects
      ELSE /\ c.epoch >= last.epoch
           /\ c.epoch = last.epoch => c.inc = last.inc /\ c.token = last.token

\* The memory after the claim was attested: a new generation of its subject.
Attested(memory, c) ==
  [memory EXCEPT ![c.subject] = [epoch |-> c.epoch, inc |-> c.inc, token |-> c.token,
                                 gen |-> memory[c.subject].gen + 1]]

\* The statement.  Its window starts at the step the requester names, which is
\* the step of its allocation.
Attestation(w, c, memory, seq, step) ==
  [witness |-> w, subject |-> c.subject, epoch |-> c.epoch, inc |-> c.inc, token |-> c.token,
   gen |-> memory[c.subject].gen, policyGen |-> Profile.generation, issuedAt |-> step,
   validUntil |-> step + Horizon, seq |-> seq, support |-> TRUE]

=============================================================================
