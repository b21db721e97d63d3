----------------------------- MODULE MCRegistry -----------------------------
(* Instances of Registry for TLC. *)
EXTENDS Audit, TLC

CONSTANTS e1, e2, d1, d2

\* Two domains: their scopes may be equal, nested or disjoint.
ScopesAll == {{e1}, {e2}, {e1, e2}}

ScopesOne == {{e1}}

ScopesNested == {{e1}, {e1, e2}}

ScopesPair == {{e1, e2}}

Symmetry == Permutations({d1, d2}) \cup Permutations({e1, e2})

=============================================================================
