------------------------- MODULE MCExpirationCache -------------------------
EXTENDS ExpirationCache, TLC

CONSTANTS k1, k2, k3, k4, v1, v2

MCKey == {k1, k2, k3, k4}
MCValue == {v1, v2}
MCTime == 0 .. 2
Symmetry == Permutations(MCKey) \cup Permutations(MCValue)
=============================================================================
