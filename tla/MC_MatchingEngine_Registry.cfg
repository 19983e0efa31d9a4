\* unregister_symbol from the control thread while the worker is processing a request.
CONSTANTS
    c1 = c1
    s1 = s1
    o1 = o1
    o2 = o2
    Clients <- MC_Clients
    Symbols <- MC_Symbols
    OrderIds <- MC_OrderIds
    InputPrices = {1, 2}
    Quantities = {1, 2}
    MaxRequests = 1

SPECIFICATION Spec

INVARIANT HeldBookRegistered
