SPECIFICATION Spec

CONSTANTS
    Rows = {p1, p2}
    Users = {u1}
    Cron = cron
    NoRow = none
    MaxPosts = 2

SYMMETRY RowSymmetry

INVARIANTS
    TypeOK
    ReceiptsDecide
    SettlementIsReal
