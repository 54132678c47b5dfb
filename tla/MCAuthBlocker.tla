----------------------------- MODULE MCAuthBlocker -----------------------------
EXTENDS AuthBlocker, TLC

CONSTANTS a, b, w1, w2

OneIP == {a}

TwoIPs == {a, b}

TwoWorkers == {w1, w2}

Symmetry == Permutations(IPs) \cup Permutations(Workers)

=============================================================================
