----------------------------- MODULE MCStorage ------------------------------
(* An instance of Storage for TLC: an owner, its successor over a larger      *)
(* scope, and a second owner of the first token.                              *)
EXTENDS Storage

CONSTANTS e1, e2

MCCredentials ==
  {[token |-> 1, inc |-> 1, scope |-> {e1}],
   [token |-> 1, inc |-> 2, scope |-> {e1}],
   [token |-> 2, inc |-> 2, scope |-> {e1, e2}]}

=============================================================================
