---------------------------- MODULE Arbitration -----------------------------
(***************************************************************************)
(* Several claimants in front of one arbiter: claims appear, their         *)
(* evidence comes and goes, claimants are seen to stop and are fenced, and *)
(* decide_authority is asked about any of them at any time.                *)
(***************************************************************************)
EXTENDS Arbiter

CONSTANTS
  Offers,      \* the requests that may be made
  MaxFences    \* bound: fences

ASSUME OffersAssumption ==
  /\ Offers \subseteq AuthorityRequest
  /\ \A r, q \in Offers : r.claim = q.claim => r = q
  /\ \A r \in Offers : r.epoch # 0 /\ r.inc # 0

VARIABLES
  claims,     \* the requests in the view
  evidence,   \* what assess_evidence makes of each claim's bundle
  active,     \* CompetingClaim::active, by claim id
  tables      \* the fence table and lineage of the view

vars == <<claims, evidence, active, tables>>

EvidenceStates == {"Current", "Stale", "Unknown"}

\* The other claims of the view, as decide_authority sees them.
Competing(r) ==
  {[claim |-> q.claim, domain |-> q.domain, scope |-> q.scope, epoch |-> q.epoch,
    inc |-> q.inc, token |-> q.token, mode |-> q.mode, evidence |-> evidence[q.claim],
    active |-> q.claim \in active] : q \in claims \ {r}}

Decision(r) == Verdict(r, tables, evidence[r.claim], Competing(r))

-----------------------------------------------------------------------------
Init ==
  /\ claims = {}
  /\ evidence = [n \in {r.claim : r \in Offers} |-> "Unknown"]
  /\ active = {}
  /\ tables = [Blank EXCEPT !.tok = Max({r.token : r \in Offers})]

\* A claimant enters the view.
Appear(r) ==
  /\ r \notin claims
  /\ claims' = claims \cup {r}
  /\ active' = active \cup {r.claim}
  /\ UNCHANGED <<evidence, tables>>

\* Its witnesses answer, or their statements expire.
Reassess(r, e) ==
  /\ e # evidence[r.claim]
  /\ evidence' = [evidence EXCEPT ![r.claim] = e]
  /\ UNCHANGED <<claims, active, tables>>

\* It is no longer seen alive; liveness carries no authority.
Stop(r) ==
  /\ r.claim \in active
  /\ active' = active \ {r.claim}
  /\ UNCHANGED <<claims, evidence, tables>>

\* It is fenced, under the next token.
FenceClaim(r) ==
  LET rec == [kind |-> "Fence", token |-> tables.tok + 1, domain |-> r.domain,
              scope |-> r.scope, epoch |-> r.epoch, inc |-> r.inc]
  IN  /\ Cardinality(tables.frecs) < MaxFences
      /\ CanApply(tables, rec)
      /\ tables' = Apply(tables, rec)
      /\ UNCHANGED <<claims, evidence, active>>

Next ==
  \/ \E r \in Offers : Appear(r)
  \/ \E r \in claims, e \in EvidenceStates : Reassess(r, e)
  \/ \E r \in claims : Stop(r) \/ FenceClaim(r)

Spec == Init /\ [][Next]_vars

-----------------------------------------------------------------------------
(* Properties. *)

Overlap(r, q) == r # q /\ r.scope \cap q.scope # {}

\* MUTEX at the arbiter.  Of two claims whose scopes meet at most one is
\* authoritative, however their evidence, liveness and order came about; of two
\* incarnations that claim the same epoch, neither is.
NeverBoth ==
  \A r, q \in claims : Overlap(r, q) =>
    /\ ~(Decision(r) = "Authoritative" /\ Decision(q) = "Authoritative")
    /\ (r.epoch = q.epoch /\ r.mode = q.mode) => Decision(r) # "Authoritative"

\* The arbiter does not refuse everybody: a proven claim of the highest epoch is
\* authoritative as soon as its lower contenders are not seen alive.
HighestProvenWins ==
  \A r \in claims :
    (/\ r.mode = "ExclusiveMutation"
     /\ evidence[r.claim] = "Current"
     /\ r.inc \notin {f.inc : f \in tables.frecs}
     /\ \A f \in tables.frecs : <<f.domain, f.epoch>> # <<r.domain, r.epoch>>
     /\ \A e \in r.scope : tables.ext[e].hw = 0
     /\ \A q \in claims : Overlap(r, q) =>
          q.mode # "ExclusiveMutation" \/ (q.epoch < r.epoch /\ q.claim \notin active))
    => Decision(r) = "Authoritative"

\* What an authoritative decision still overlaps is named in must_fence, so that
\* a caller that acts on the decision knows every claim it supersedes.
SupersededAreNamed ==
  \A r \in claims : Decision(r) = "Authoritative" =>
    \A q \in claims :
      Overlap(r, q) /\ q.mode = "ExclusiveMutation" => q.claim \in MustFence(r, Competing(r))

=============================================================================
