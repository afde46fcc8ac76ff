SPECIFICATION Spec

CONSTANTS
    Requests = {r1, r2}
    MaxPayments = 2
    MaxPushes = 2
    MaxDeliveries = 1

SYMMETRY RequestSymmetry

INVARIANTS
    TypeOK
    MoneyBacksJobs

PROPERTIES
    OnlyAStalePushUnpays
