----------------------------- MODULE Selection ------------------------------
(***************************************************************************)
(* The authority plan: select_authority_set searches the claims of a view  *)
(* for the largest set that may hold authority together.  Each claim is    *)
(* judged as if it were alone, then a branch and bound search, limited to  *)
(* a budget of nodes, looks for the best set without exclusive overlaps.   *)
(* The specification is that of Arbitration: a plan may be asked for in    *)
(* any of its states.                                                      *)
(***************************************************************************)
EXTENDS Arbitration, Sequences

CONSTANTS
  DomainRank,      \* DomainId's order, as a rank
  MaxSearchNodes,  \* limits::kMaxSearchNodes
  Budgets          \* node budgets a caller may give

ASSUME SelectionAssumption ==
  /\ DomainRank \in [Domains -> Nat]
  /\ Budgets \subseteq Nat

-----------------------------------------------------------------------------
(* Order and conflicts. *)

\* preference_less: higher epoch, higher token, lower domain, lower claim id.
PreferenceLess(a, b) ==
  \/ a.epoch > b.epoch
  \/ a.epoch = b.epoch /\ a.token > b.token
  \/ /\ a.epoch = b.epoch /\ a.token = b.token
     /\ \/ DomainRank[a.domain] < DomainRank[b.domain]
        \/ a.domain = b.domain /\ a.claim < b.claim

ExclusiveOverlap(a, b) ==
  /\ a.mode = "ExclusiveMutation" /\ b.mode = "ExclusiveMutation"
  /\ a.scope \cap b.scope # {}

\* prepare(): candidates in preference order, and which are legal on their own.
Ordered(C) ==
  [n \in 1..Cardinality(C) |->
     CHOOSE r \in C : Cardinality({q \in C : PreferenceLess(q, r)}) = n - 1]

Legal(r) == Verdict(r, tables, evidence[r.claim], {}) = "Authoritative"

\* Mutant of Better: preference first, size second.
BetterByPreference(a, b) ==
  \/ \E i \in DOMAIN a \cap DOMAIN b : a[i] < b[i] /\ \A j \in 1..(i - 1) : a[j] = b[j]
  \/ Len(a) > Len(b) /\ \A j \in DOMAIN b : a[j] = b[j]

\* better_selection over ranks in ascending order.
Better(a, b) ==
  IF Len(a) # Len(b) THEN Len(a) > Len(b)
  ELSE \E i \in DOMAIN a : a[i] < b[i] /\ \A j \in 1..(i - 1) : a[j] = b[j]

-----------------------------------------------------------------------------
(* The search.  A selection is the sequence of its ranks. *)

Compatible(order, n, chosen) ==
  Legal(order[n]) /\ \A i \in DOMAIN chosen : ~ExclusiveOverlap(order[n], order[chosen[i]])

\* search() from rank n on; state is [nodes, exhausted, best].
RECURSIVE Search(_, _, _, _, _)
Search(order, budget, state, n, chosen) ==
  LET visited == [state EXCEPT !.nodes = @ + 1]
      bound   == Len(chosen) + Len(order) + 1 - n >= Len(visited.best)
      with    == IF bound /\ Compatible(order, n, chosen)
                 THEN Search(order, budget, visited, n + 1, Append(chosen, n))
                 ELSE visited
  IN  CASE state.exhausted -> state
        [] ~state.exhausted /\ visited.nodes > budget -> [visited EXCEPT !.exhausted = TRUE]
        [] OTHER ->
             IF n > Len(order)
             THEN [visited EXCEPT !.best = IF Better(chosen, @) THEN chosen ELSE @]
             ELSE Search(order, budget, with, n + 1, chosen)

\* Mutant of OutcomeOf: a search that was cut short still proves its answer.
OutcomeOfAnySearch(state) == IF state.best = <<>> THEN "ProvenInfeasible" ELSE "ProvenOptimal"

OutcomeOf(state) ==
  CASE ~state.exhausted /\ state.best = <<>> -> "ProvenInfeasible"
    [] ~state.exhausted /\ state.best # <<>> -> "ProvenOptimal"
    [] state.exhausted /\ state.best = <<>> -> "Indeterminate"
    [] OTHER -> "SearchLimitReached"

\* validate_plan: every claim judged again and every pair compared.
ValidPlan(P) ==
  /\ \A r \in P : Legal(r)
  /\ \A r, q \in P : r # q => ~ExclusiveOverlap(r, q)

\* select_authority_set with build_plan; a budget of 0 stands for the limit.
Plan(C, nodes) ==
  LET budget == IF nodes = 0 THEN MaxSearchNodes ELSE nodes
      order  == Ordered(C)
      state  == Search(order, budget, [nodes |-> 0, exhausted |-> FALSE, best |-> <<>>], 1, <<>>)
      chosen == {order[state.best[i]] : i \in DOMAIN state.best}
  IN  CASE C = {} -> [outcome |-> "ProvenInfeasible", authorized |-> {}, refused |-> {}]
        [] C # {} /\ ~ValidPlan(chosen) ->
             [outcome |-> "Invalid", authorized |-> {}, refused |-> C \ chosen]
        [] OTHER -> [outcome |-> OutcomeOf(state), authorized |-> chosen, refused |-> C \ chosen]

-----------------------------------------------------------------------------
(* The two other solvers. *)

\* select_authority_set_reference: of all subsets that are feasible a largest one
\* and, among those, the one that has the most preferred claim of any difference.
Reference(C) ==
  LET feasible == {P \in SUBSET {r \in C : Legal(r)} : ValidPlan(P)}
      largest  == {P \in feasible : \A Q \in feasible : Cardinality(Q) =< Cardinality(P)}
  IN  CHOOSE P \in largest : \A Q \in largest \ {P} :
        \E r \in P \ Q : \A q \in Q \ P : PreferenceLess(r, q)

\* select_authority_set_greedy: take what fits, in preference order.
Greedy(C) ==
  LET order == Ordered(C)
      take[n \in 0..Len(order)] ==
        IF n = 0 THEN <<>>
        ELSE IF Compatible(order, n, take[n - 1]) THEN Append(take[n - 1], n) ELSE take[n - 1]
  IN  {order[take[Len(order)][i]] : i \in DOMAIN take[Len(order)]}

-----------------------------------------------------------------------------
(* Properties. *)

\* With the whole budget the planner's branch and bound finds the set that the
\* exhaustive enumeration finds, for every view: pruning never loses the optimum
\* or its canonical tie-break, and the greedy heuristic never beats it.
PlanIsOptimal ==
  LET plan == Plan(claims, 0)
  IN  /\ plan.authorized = Reference(claims)
      /\ plan.outcome = IF plan.authorized = {} THEN "ProvenInfeasible" ELSE "ProvenOptimal"
      /\ ValidPlan(Greedy(claims))
      /\ Cardinality(Greedy(claims)) =< Cardinality(plan.authorized)

\* However small the budget, a plan names only claims that may hold authority
\* together, passes its own validation, and says that it is optimal, or that
\* nothing is feasible, only when that is so.
PlanNeverOverclaims ==
  \A nodes \in Budgets :
    LET plan == Plan(claims, nodes)
    IN  /\ plan.outcome # "Invalid"
        /\ \A r, q \in plan.authorized : r # q => ~ExclusiveOverlap(r, q)
        /\ plan.outcome \in {"ProvenOptimal", "ProvenInfeasible"} => plan.authorized = Reference(claims)
        /\ plan.outcome \in {"Indeterminate", "ProvenInfeasible"} => plan.authorized = {}

=============================================================================
