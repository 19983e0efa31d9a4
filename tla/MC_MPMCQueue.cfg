\* Two producers and two consumers on a ring of two cells, so that the ring
\* wraps and a stale pos meets a cell of a later round.
CONSTANTS
    p1 = p1
    p2 = p2
    c1 = c1
    c2 = c2
    None = None
    Producers = {p1, p2}
    Consumers = {c1, c2}
    Size = 2
    MaxRetries = 2
    MaxPos = 3
SPECIFICATION Spec
SYMMETRY MC_Symmetry
INVARIANTS TypeOK CellOwnersExclusive
PROPERTIES PoolRefinement
