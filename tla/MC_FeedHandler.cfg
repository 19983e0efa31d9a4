\* One symbol, three publications per feed, quotes that can cross: recent_opportunities_ capped at 2.
CONSTANTS
    Symbols = {1}
    Quotes <- MC_Quotes
    MaxPublish = 3
    RecentCap = 2
    MaxStarts = 1
SPECIFICATION Spec
INVARIANTS TypeOK RecentIsLatest ProfitableCounted
\* Once the handler has been stopped for the last time and the publisher is done, the program has ended.
CHECK_DEADLOCK FALSE
