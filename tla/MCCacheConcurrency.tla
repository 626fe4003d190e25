------------------------ MODULE MCCacheConcurrency ------------------------
EXTENDS CacheConcurrency, TLC

CONSTANTS g1, g2, g3, k1, k2, n1, n2, n3, n4

MCGoroutine == {g1, g2}
MCThreeGoroutines == {g1, g2, g3}
MCKey == {k1, k2}
MCOneKey == {k1}
MCNode == {n1, n2, n3, n4}
MCThreeNodes == {n1, n2, n3}
MCTime == {0, 1}

ReadersAndUpdates == {"Get", "GetEntry", "SetFromHead", "Remove", "All"}
ReadersAndWriters == {"Contains", "Backward", "SetFromTail", "Remove", "Clear"}
GetAndSet == {"Get", "SetFromHead"}
LoopAndSet == {"All", "SetFromHead"}
LoopCallsThatWait == {"Contains", "Backward"}
OneInstant == {0}
LoopCalls == {"TryContains"}

Symmetry == Permutations(MCGoroutine) \cup Permutations(MCKey)
=============================================================================
