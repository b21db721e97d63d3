---------------------------- MODULE Coordinator -----------------------------
(***************************************************************************)
(* Coordinators at work: mutate() acquires an epoch from the registry,     *)
(* collects statements from the witnesses one by one, has the registry     *)
(* decide and sends the mutation, attempt after attempt, over connections  *)
(* that break before or after a request is served.                         *)
(*                                                                         *)
(* The registry serves a request in one step here: it holds its mutex and  *)
(* answers at the end, and module Registry looks inside.  The witnesses    *)
(* are those of module Witness without their session tables.               *)
(***************************************************************************)
EXTENDS Arbiter, WitnessMemory, Sequences

CONSTANTS
  Coordinators,     \* coordinator processes
  Home,             \* the scope each domain is registered for
  WitnessOrder,     \* CoordinatorConfig::witnesses
  Count,            \* attempts of one call of mutate()
  Reachable,        \* bound: the sets of witnesses a connect() may get through to
  LeaseHorizon,     \* RegistryConfig::lease_horizon_steps
  MaxIncarnations,  \* bound: hellos and restarts of the registry
  MaxTokens,        \* bound: no request that fences beyond this token
  MaxEffects,       \* bound: mutations
  MaxStep,          \* bound: requests the registry serves
  MaxFailures       \* bound: broken connections and restarts

ASSUME CoordinatorAssumption ==
  /\ Home \in [Domains -> (SUBSET Extents) \ {{}}]
  /\ WitnessOrder \in Seq(Witnesses)
  /\ Reachable \subseteq SUBSET Witnesses
  /\ Subjects = Domains /\ Domains # {}
  /\ Count \in Nat

VARIABLES
  reg,       \* the registry's state
  fenceGen,  \* FenceTable::generation_
  now,       \* the registry's logical step
  floor,     \* FabricStore::owners_
  effects,   \* admitted mutations, in order
  memory,    \* per witness: subjects_
  lastSeq,   \* per witness: last_sequence_
  co,        \* the coordinators
  decided,   \* history: authoritative decisions the registry gave
  failures   \* history: connections lost and processes restarted

registry == <<reg, fenceGen, now>>
fabric == <<floor, effects>>
witnesses == <<memory, lastSeq>>
vars == <<reg, fenceGen, now, floor, effects, memory, lastSeq, co, decided, failures>>

-----------------------------------------------------------------------------
(* The registry's answers. *)

\* fence_scope() and close_grant() of g, naming incarnation i.
FenceAndClose(s, g, i, state) ==
  Apply(Apply(s, [kind |-> "Fence", token |-> s.tok + 1, domain |-> g.domain,
                  scope |-> g.scope, epoch |-> g.epoch, inc |-> i]),
        [kind |-> "GrantClose", id |-> g.id, state |-> state])

\* The loop over the grants of G, oldest first: the state after the first n of them,
\* and those that are left.  spared is not named in a fence.
FenceGrants(s, G, spared, state) ==
  LET after[n \in 0..Cardinality(G)] ==
        IF n = 0
        THEN [reg |-> s, left |-> G]
        ELSE LET p == after[n - 1]
                 g == Oldest(p.left)
             IN  [reg |-> FenceAndClose(p.reg, g, IF g.inc = spared THEN 0 ELSE g.inc, state),
                  left |-> p.left \ {g}]
  IN  after[Cardinality(G)].reg

MayAllocate(s, i) == i \notin s.fencedInc /\ s.boot < i /\ i =< s.inc

\* allocate_epoch.  A coordinator counts every attempt, so that none of its
\* allocations is a retry of an earlier one.
AllocateEpoch(s, d, i) ==
  LET t == FenceGrants(s, {g \in OpenGrants(s) : g.scope \cap Home[d] # {}}, i, "Fenced")
      n == t.tok + 1
  IN  Apply(Apply(t, [kind |-> "ExtentAdopt", token |-> n, scope |-> Home[d], inc |-> i]),
            [kind |-> "GrantOpen",
             grant |-> [id |-> t.gid + 1, domain |-> d, scope |-> Home[d],
                        epoch |-> MaxEpoch(t, d) + 1, inc |-> i, attempt |-> 0, token |-> n,
                        boot |-> t.boot, state |-> "Open"]])

\* The open grant that decide() finds for a coordinator, if any.
Held(s, r) ==
  {g \in OpenGrants(s) : g.domain = r.domain /\ g.epoch = r.epoch /\ g.inc = r.inc
                         /\ g.token = r.token}

\* Every other open grant is an active claim with current evidence.
Competing(s, g) ==
  {[claim |-> h.id, domain |-> h.domain, scope |-> h.scope, epoch |-> h.epoch, inc |-> h.inc,
    token |-> h.token, mode |-> "ExclusiveMutation", evidence |-> "Current", active |-> TRUE]
     : h \in OpenGrants(s) \ {g}}

ClaimOf(r) == [subject |-> r.domain, epoch |-> r.epoch, inc |-> r.inc, token |-> r.token]

\* decide(): the verdicts it may reach for coordinator r's bundle at a step.
Decide(s, r, step) ==
  IF Held(s, r) = {}
  THEN {IF r.epoch < MaxEpoch(s, r.domain) THEN "Stale" ELSE "Fenced"}
  ELSE LET g == CHOOSE h \in Held(s, r) : TRUE
           q == [claim |-> g.id, domain |-> r.domain, scope |-> Home[r.domain],
                 epoch |-> r.epoch, inc |-> r.inc, token |-> r.token,
                 mode |-> "ExclusiveMutation", policyGen |-> Policy.generation, lease |-> FALSE]
       IN  {Verdict(q, s, e, Competing(s, g)) :
              e \in Verdicts(ClaimOf(r), Profile, r.bundle, {}, Policy.generation, step)}

\* Mutant of Admits: the fabric log's floor alone decides.
AdmitsByFloor(s, r) == \A e \in Home[r.domain] : floor[e].hw =< r.token

\* commit() and FabricStore::admit.
Admits(s, r) ==
  /\ \E g \in Held(s, r) : g.id = r.grant
  /\ \A e \in Home[r.domain] : /\ floor[e].hw =< r.token
                               /\ floor[e].hw = r.token => floor[e].owner = r.inc

-----------------------------------------------------------------------------
(* A coordinator process. *)

\* links are the witnesses it is connected to, step its allocation_step_, todo
\* the attempts left in this call of mutate(), asked the witnesses asked so far.
Process ==
  [pc: {"off", "idle", "acquire", "collect", "evaluate", "commit"}, domain: Domains,
   up: BOOLEAN, links: SUBSET Witnesses, inc: Nat, epoch: Nat, token: Nat, grant: Nat,
   step: Nat, authority: BOOLEAN, todo: Nat, asked: Nat, bundle: SUBSET Statement]

Idle(d) ==
  [pc |-> "off", domain |-> d, up |-> FALSE, links |-> {}, inc |-> 0, epoch |-> 0, token |-> 0,
   grant |-> 0, step |-> 0, authority |-> FALSE, todo |-> 0, asked |-> 0, bundle |-> {}]

\* The head of mutate()'s loop: evidence is collected anew for every attempt.
NextAttempt(r) ==
  IF r.todo = 0
  THEN [r EXCEPT !.pc = "idle", !.asked = 0, !.bundle = {}]
  ELSE [r EXCEPT !.pc = "collect", !.todo = r.todo - 1, !.asked = 0, !.bundle = {}]

\* An attempt that failed: authority is given up and the loop goes on, under the
\* same epoch and token.
Failed(r) == NextAttempt([r EXCEPT !.authority = FALSE])

MayFail == failures < MaxFailures

\* The registry serves a request of c, which leaves c in state r; or it serves it
\* and the answer is lost, which leaves c without its connection in state lost.
Answered(c, r, lost) ==
  \/ co' = [co EXCEPT ![c] = r] /\ failures' = failures
  \/ /\ MayFail
     /\ failures' = failures + 1
     /\ co' = [co EXCEPT ![c] = [lost EXCEPT !.up = FALSE]]

\* What a successful hello leaves behind: a connection bound to incarnation i.
Greeted(r, i, reached) ==
  [r EXCEPT !.pc = "idle", !.up = TRUE, !.links = reached, !.inc = i]

\* connect(), of a new process or again of one that is idle; authority_ and the
\* epoch stay as they are.  Witnesses that cannot be reached are passed over, and
\* without the registry's answer none is tried.
Connect(c, d, reached) ==
  LET r == IF co[c].pc = "off" THEN Idle(d) ELSE co[c]
  IN  /\ co[c].pc = "off" \/ (co[c].pc = "idle" /\ d = co[c].domain)
      /\ reg.inc < MaxIncarnations /\ now < MaxStep
      /\ reg' = Apply(reg, [kind |-> "IncarnationAllocate", inc |-> reg.inc + 1])
      /\ now' = now + 1
      /\ Answered(c, Greeted(r, reg.inc + 1, reached), co[c])
      /\ UNCHANGED <<fenceGen, fabric, witnesses, decided>>

\* mutate() is called.
Mutate(c) ==
  /\ co[c].pc = "idle"
  /\ co' = [co EXCEPT ![c] = IF co[c].authority
                             THEN NextAttempt([co[c] EXCEPT !.todo = Count])
                             ELSE [co[c] EXCEPT !.pc = "acquire"]]
  /\ UNCHANGED <<registry, fabric, witnesses, decided, failures>>

\* acquire_authority(); without a grant mutate() returns.
Acquire(c) ==
  LET r    == co[c]
      s    == AllocateEpoch(reg, r.domain, r.inc)
      gone == [r EXCEPT !.pc = "idle"]
  IN  /\ r.pc = "acquire"
      /\ \/ /\ ~r.up
            /\ co' = [co EXCEPT ![c] = gone]
            /\ UNCHANGED <<registry, failures>>
         \/ /\ r.up /\ ~MayAllocate(reg, r.inc)
            /\ now < MaxStep /\ now' = now + 1
            /\ co' = [co EXCEPT ![c] = gone]
            /\ UNCHANGED <<reg, fenceGen, failures>>
         \/ /\ r.up /\ MayAllocate(reg, r.inc)
            /\ reg.tok < MaxTokens /\ now < MaxStep
            /\ reg' = s
            /\ fenceGen' = fenceGen + (s.tok - reg.tok)
            /\ now' = now + 1
            /\ Answered(c, NextAttempt([r EXCEPT !.epoch = MaxEpoch(s, r.domain), !.token = s.tok,
                                                 !.grant = s.gid, !.step = now',
                                                 !.authority = TRUE, !.todo = Count]), gone)
      /\ UNCHANGED <<fabric, witnesses, decided>>

\* The process after it asked one more witness and heard these statements.
Heard(r, statements) ==
  [r EXCEPT !.asked = r.asked + 1, !.bundle = r.bundle \cup statements]

\* collect_evidence() asks the next witness; one that is not connected, refuses
\* or breaks off contributes nothing.
Collect(c) ==
  LET r    == co[c]
      w    == WitnessOrder[r.asked + 1]
      told == Attested(memory[w], ClaimOf(r))
      seq  == lastSeq[w] + 1
  IN  /\ r.pc = "collect" /\ r.asked < Len(WitnessOrder)
      /\ \/ /\ w \notin r.links \/ ~MayAttest(memory[w], ClaimOf(r))
            /\ co' = [co EXCEPT ![c] = Heard(r, {})]
            /\ UNCHANGED <<memory, lastSeq, failures>>
         \/ /\ w \in r.links /\ MayAttest(memory[w], ClaimOf(r))
            /\ memory' = [memory EXCEPT ![w] = told]
            /\ lastSeq' = [lastSeq EXCEPT ![w] = seq]
            /\ \/ /\ co' = [co EXCEPT ![c] =
                              Heard(r, {Attestation(w, ClaimOf(r), told, seq, r.step)})]
                  /\ failures' = failures
               \/ /\ MayFail /\ failures' = failures + 1
                  /\ co' = [co EXCEPT ![c] = [Heard(r, {}) EXCEPT !.links = r.links \ {w}]]
      /\ UNCHANGED <<registry, fabric, decided>>

\* evaluate(): the registry decides at its own step.
Evaluate(c) ==
  LET r == co[c]
  IN  /\ r.pc = "collect" /\ r.asked = Len(WitnessOrder)
      /\ \/ /\ ~r.up
            /\ co' = [co EXCEPT ![c] = Failed(r)]
            /\ UNCHANGED <<now, decided, failures>>
         \/ /\ r.up
            /\ now < MaxStep /\ now' = now + 1
            /\ \E v \in Decide(reg, r, now') :
                 \/ /\ v = "Authoritative"
                    /\ decided' = decided \cup
                         {[grant |-> r.grant, domain |-> r.domain, scope |-> Home[r.domain],
                           epoch |-> r.epoch, inc |-> r.inc, token |-> r.token,
                           policyGen |-> Policy.generation, fenceGen |-> fenceGen,
                           validUntil |-> now' + LeaseHorizon]}
                    /\ Answered(c, [r EXCEPT !.pc = "commit", !.bundle = {}], Failed(r))
                 \/ /\ v # "Authoritative"
                    /\ decided' = decided
                    /\ Answered(c, Failed(r), Failed(r))
      /\ UNCHANGED <<reg, fenceGen, fabric, witnesses>>

\* The mutation is sent.  A lost answer counts as a failure, served or not.
Commit(c) ==
  LET r == co[c]
  IN  /\ r.pc = "commit"
      /\ \/ /\ ~r.up
            /\ co' = [co EXCEPT ![c] = Failed(r)]
            /\ UNCHANGED <<now, fabric, failures>>
         \/ /\ r.up /\ ~Admits(reg, r)
            /\ now < MaxStep /\ now' = now + 1
            /\ co' = [co EXCEPT ![c] = Failed(r)]
            /\ UNCHANGED <<fabric, failures>>
         \/ /\ r.up /\ Admits(reg, r)
            /\ now < MaxStep /\ now' = now + 1
            /\ Len(effects) < MaxEffects
            /\ effects' = Append(effects, [grant |-> r.grant, scope |-> Home[r.domain],
                                           token |-> r.token])
            /\ floor' = [e \in Extents |-> IF e \in Home[r.domain]
                                           THEN [hw |-> r.token, owner |-> r.inc]
                                           ELSE floor[e]]
            /\ Answered(c, NextAttempt(r), Failed(r))
      /\ UNCHANGED <<reg, fenceGen, witnesses, decided>>

\* release() of the grant it holds, or thinks it holds.
Release(c) ==
  LET r == co[c]
      G == {g \in OpenGrants(reg) : g.id = r.grant}
      s == FenceGrants(reg, G, 0, "Closed")
  IN  /\ r.pc = "idle" /\ r.up /\ r.grant # 0
      /\ reg.tok < MaxTokens /\ now < MaxStep
      /\ reg' = s
      /\ fenceGen' = fenceGen + (s.tok - reg.tok)
      /\ now' = now + 1
      /\ Answered(c, [r EXCEPT !.authority = r.authority /\ G = {}], r)
      /\ UNCHANGED <<fabric, witnesses, decided>>

\* The connection to the registry breaks before the next request is written.
Break(c) ==
  /\ co[c].up /\ MayFail
  /\ failures' = failures + 1
  /\ co' = [co EXCEPT ![c].up = FALSE]
  /\ UNCHANGED <<registry, fabric, witnesses, decided>>

\* The process ends, whatever it was doing.
Exit(c) ==
  /\ co[c].pc # "off" /\ MayFail
  /\ failures' = failures + 1
  /\ co' = [co EXCEPT ![c] = Idle(co[c].domain)]
  /\ UNCHANGED <<registry, fabric, witnesses, decided>>

-----------------------------------------------------------------------------
(* The surroundings. *)

\* An operator fences a domain: its open grants, or just its extents.
OperatorFence(d) ==
  LET G == {g \in OpenGrants(reg) : g.domain = d}
      s == IF G # {} THEN FenceGrants(reg, G, 0, "Fenced")
           ELSE Apply(reg, [kind |-> "Fence", token |-> reg.tok + 1, domain |-> d,
                            scope |-> Home[d], epoch |-> 0, inc |-> 0])
  IN  /\ reg.tok < MaxTokens /\ now < MaxStep
      /\ reg' = s
      /\ fenceGen' = fenceGen + (s.tok - reg.tok)
      /\ now' = now + 1
      /\ UNCHANGED <<fabric, witnesses, co, decided, failures>>

\* The registry restarts: every open grant is interrupted, a boot begins, all
\* connections are gone.  The fence generation counts from one again, from
\* wherever the snapshot was taken.
RegistryRestart ==
  LET s == FenceGrants(reg, OpenGrants(reg), 0, "Interrupted")
  IN  /\ MayFail /\ reg.inc < MaxIncarnations /\ now < MaxStep
      /\ reg' = Apply(s, [kind |-> "BootBegin", inc |-> s.inc + 1])
      /\ fenceGen' \in 1..(s.tok + 1)
      /\ now' = now + 1
      /\ failures' = failures + 1
      /\ co' = [c \in Coordinators |-> [co[c] EXCEPT !.up = FALSE]]
      /\ UNCHANGED <<fabric, witnesses, decided>>

\* A witness restarts and has forgotten everything.
WitnessRestart(w) ==
  /\ MayFail /\ failures' = failures + 1
  /\ memory' = [memory EXCEPT ![w] = [s \in Subjects |-> Nothing]]
  /\ lastSeq' = [lastSeq EXCEPT ![w] = 0]
  /\ co' = [c \in Coordinators |-> [co[c] EXCEPT !.links = @ \ {w}]]
  /\ UNCHANGED <<registry, fabric, decided>>

-----------------------------------------------------------------------------
\* A registry in its first boot with its domains defined.
Init ==
  /\ reg = [Blank EXCEPT !.domains = Home, !.inc = 1, !.boot = 1, !.openBoots = {1}]
  /\ fenceGen = 1
  /\ now = 1
  /\ floor = [e \in Extents |-> [hw |-> 0, owner |-> 0]]
  /\ effects = <<>>
  /\ memory = [w \in Witnesses |-> [s \in Subjects |-> Nothing]]
  /\ lastSeq = [w \in Witnesses |-> 0]
  /\ co \in [Coordinators -> {Idle(CHOOSE d \in Domains : TRUE)}]
  /\ decided = {}
  /\ failures = 0

Next ==
  \/ \E c \in Coordinators :
       \/ \E d \in Domains, reached \in Reachable : Connect(c, d, reached)
       \/ Mutate(c) \/ Acquire(c) \/ Collect(c) \/ Evaluate(c) \/ Commit(c)
       \/ Release(c) \/ Break(c) \/ Exit(c)
  \/ \E d \in Domains : OperatorFence(d)
  \/ RegistryRestart
  \/ \E w \in Witnesses : WitnessRestart(w)

Spec == Init /\ [][Next]_vars

-----------------------------------------------------------------------------
(* Properties. *)

\* Registry and witnesses agree on who holds an epoch: a connected coordinator
\* whose grant is open is refused by no witness, whatever rivals, processes that
\* came before it or the coordinator itself under an earlier incarnation asked.
HolderNeverRefused ==
  \A c \in Coordinators : co[c].up /\ Held(reg, co[c]) # {} =>
    \A w \in Witnesses : MayAttest(memory[w], ClaimOf(co[c]))

\* End to end, a mutation is admitted only for a grant that the registry decided
\* to be authoritative, and never after it decided so for a newer grant over one
\* of the extents, however long the commit was under way.
EffectsFollowDecisions ==
  [][\A i \in DOMAIN effects' \ DOMAIN effects :
       /\ \E d \in decided : d.grant = effects'[i].grant
       /\ \A d \in decided :
            d.scope \cap effects'[i].scope # {} => d.token =< effects'[i].token]_vars

\* A decision that check_revocation lets stand is one whose mutation would be
\* admitted, also after the registry restarted and counts its fence generations
\* anew.
RevocationComplete ==
  \A d \in decided :
    LET G == {g \in OpenGrants(reg) : g.id = d.grant}
        others == IF G = {} THEN {} ELSE Competing(reg, CHOOSE g \in G : TRUE)
    IN  ~Revoked(d, reg, fenceGen, now, others) =>
          /\ G # {}
          /\ \A e \in d.scope : floor[e].hw =< d.token

=============================================================================
