----------------------------- MODULE DurableLog -----------------------------
(***************************************************************************)
(* What the registry relies on its store for: a log that only ever grows   *)
(* at its end and keeps every record it has acknowledged, across crashes,  *)
(* failed writes and checkpoints (persistence.hpp, "Store").  A record is  *)
(* known by the number it was emitted under.                               *)
(***************************************************************************)
EXTENDS Integers

VARIABLES
  log,      \* the records a reader of the store would find
  acked     \* the records that were acknowledged

Empty == log = {} /\ acked = {}

\* New records come behind all that are there.
Grow ==
  /\ log \subseteq log'
  /\ \A r \in log' \ log, q \in log : q < r

\* Only what a reader would find is acknowledged.
Acknowledge == acked \subseteq acked' /\ acked' \subseteq log'

LogSpec == Empty /\ [][Grow /\ Acknowledge]_<<log, acked>>

=============================================================================
