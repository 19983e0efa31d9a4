CONSTANTS
    c1 = c1
    s1 = s1
    o1 = o1
    o2 = o2
    Clients <- MC_Clients
    Symbols <- MC_Symbols
    OrderIds <- MC_OrderIds
    InputPrices = {1, 2}
    Quantities = {1, 2}
    MaxRequests = 3

SPECIFICATION Spec

INVARIANT TypeOK
INVARIANT StopDrainsPending
