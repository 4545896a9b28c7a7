----------------------------- MODULE MCConnection -----------------------------
EXTENDS Connection, TLC
CONSTANTS a1, a2, e1, e2
Symmetry == Permutations({a1, a2}) \cup Permutations({e1, e2})
=============================================================================
