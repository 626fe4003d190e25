SPECIFICATION Spec
CONSTANTS
    g1 = g1
    g2 = g2
    g3 = g3
    k1 = k1
    k2 = k2
    n1 = n1
    n2 = n2
    n3 = n3
    n4 = n4
    nil = nil
    Goroutine <- MCGoroutine
    Key <- MCOneKey
    Node <- MCNode
    Time <- MCTime
    Capacity = 1
    Operation <- GetAndSet
    InLoop <- LoopCalls
INVARIANTS
    GetIsUnexpired
