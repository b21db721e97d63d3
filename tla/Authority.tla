----------------------------- MODULE Authority ------------------------------
(***************************************************************************)
(* What the fabric promises, without the registry that keeps the promise:  *)
(* authority over a set of extents is held by one grant at a time, only    *)
(* its holder acts on the extents, and whoever is given authority after an *)
(* effect carries a higher fence token than that effect (README, "Formal   *)
(* invariants").  Grants are records with a scope and a token; how they    *)
(* are requested, fenced, journalled and recovered is left open.           *)
(***************************************************************************)
EXTENDS Integers, Sequences

VARIABLES
  held,      \* the grants that are in force
  effects    \* the grants under which the fabric was mutated, in order

Promise == <<held, effects>>

Exclusive(G) == \A g, h \in G : g # h => g.scope \cap h.scope = {}

Initially == held = {} /\ effects = <<>>

\* Authority is given over extents nobody holds, above every effect so far.
Acquire ==
  /\ held \subseteq held'
  /\ Exclusive(held')
  /\ \A g \in held' \ held, i \in DOMAIN effects : effects[i].token < g.token
  /\ UNCHANGED effects

\* Authority ends: by release, fencing, interruption or a crash.
Retire == held' \subseteq held /\ UNCHANGED effects

\* Only a grant in force acts.
Act == (\E g \in held : effects' = Append(effects, g)) /\ UNCHANGED held

Change == Acquire \/ Retire \/ Act

AuthoritySpec == Initially /\ [][Change]_Promise

=============================================================================
