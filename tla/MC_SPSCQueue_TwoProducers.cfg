\* Two producers on one SPSCQueue, as when several threads call MatchingEngine::submit_order.
CONSTANTS
    p1 = p1
    p2 = p2
    d = d
    n1 = n1
    n2 = n2
    n3 = n3
    n4 = n4
    Null = Null
    Producers = {p1, p2}
    Nodes <- MC_Nodes
    Dummy = d
SPECIFICATION Spec
PROPERTIES FifoRefinement
