SPECIFICATION Spec

CONSTANTS
    Requests = {r1, r2}
    Day = 12
    Minute = 2
    Opens = 4
    Closes = 8
    Holidays = {4, 7}
    Sla <- ShopSla
    Buffer = 3
    Starts <- ShopStarts
    Spans <- ShopSpans

SYMMETRY RequestSymmetry

INVARIANTS
    TypeOK
    DispatchIsWhole
    PayoutsAreRight
    WorkInOrder
    DueDatesKeepWorkingTime
PROPERTIES
    RejectedForGood
