SPECIFICATION Spec
CONSTANTS
    NoPrice = NoPrice
    Entries <- MCEntries
    Rolls <- MCRolls
    Tabs = {t1, t2}
    Prices <- MCPrices
    Workers = {w1, w2}
    MaxItems = 2
    Jobs <- MCJobs
    Requests <- MCRequests
    Finishing <- MCFinishing
    PrintRate <- MCPrintRate
    MaxCalls = 3
    Costs <- MCCosts
    Markups <- MCMarkups
SYMMETRY Symmetry
INVARIANTS
    TypeOK
    
    StalePriceIsFlagged
    PricesAreSound
PROPERTIES
    NoSilentOverwrite
CHECK_DEADLOCK FALSE
