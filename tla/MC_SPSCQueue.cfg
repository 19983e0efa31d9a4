\* One producer, one consumer, three enqueues: the use the class is made for.
CONSTANTS
    p1 = p1
    p2 = p2
    d = d
    n1 = n1
    n2 = n2
    n3 = n3
    n4 = n4
    Null = Null
    Producers = {p1}
    Nodes <- MC_Nodes
    Dummy = d
SPECIFICATION Spec
INVARIANTS TypeOK NoUseAfterFree
PROPERTIES FifoRefinement EnqueuedIsDequeued
