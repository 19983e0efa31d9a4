CONSTANTS
    o1 = o1
    o2 = o2
    o3 = o3
    OrderIds <- MC_OrderIds
    InputPrices = {0, 1, 2}
    Quantities = {0, 1, 2}
    MaxTradeId = 7

SYMMETRY MC_Symmetry

SPECIFICATION Spec

INVARIANT TypeOK
INVARIANT BookNotCrossed
INVARIANT LevelsMatchIndex
INVARIANT VolumeMatchesOrders

PROPERTY MatchesFollowPriority
