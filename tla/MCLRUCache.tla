------------------------------ MODULE MCLRUCache ------------------------------
EXTENDS LRUCache, TLC

CONSTANTS a, b, c, d, r1, r2

MCKeys == {a, b, c, d}

MCRecords == {r1, r2}

Symmetry == Permutations(MCKeys) \cup Permutations(MCRecords)

=============================================================================
