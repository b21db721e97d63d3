------------------------------ MODULE MCService -----------------------------
(* An instance of Service for TLC: a client that breaks the rules in one of    *)
(* several ways, or an idle client beside one that asks the registry to shut   *)
(* down.                                                                       *)
EXTENDS Service

CONSTANTS c1, c2

F(kind, id) == [kind |-> kind, id |-> id, flaw |-> "none"]
Flawed(kind, id, flaw) == [kind |-> kind, id |-> id, flaw |-> flaw]

Both(s1, s2) == [c \in Conns |-> IF c = c1 THEN s1 ELSE s2]

MCScripts ==
  {Both(<<F("hello", 0), F("foreign", 1), F("refused", 2), F("request", 3)>>, <<>>),
   Both(<<F("request", 0), F("hello", 0), F("request", 1)>>, <<>>),
   Both(<<F("hello", 0), F("request", 1), F("request", 1)>>, <<>>),
   Both(<<F("hello", 0), Flawed("request", 1, "payload"), F("request", 2)>>, <<>>),
   Both(<<F("hello", 0), F("hello", 1), Flawed("request", 2, "header")>>, <<>>),
   Both(<<F("hello", 0)>>, <<F("hello", 0), F("shutdown", 1)>>)}

=============================================================================
