SPECIFICATION FairSpec

CONSTANTS
    Requests = {r1, r2}
    MaxPayments = 2
    MaxPushes = 1
    MaxDeliveries = 2

PROPERTIES
    EveryCallEnds
