SPECIFICATION Spec

CONSTANTS
    Requests = {r1, r2}
    Amounts = {a1, a2}
    NoAmount = NoAmount

SYMMETRY Symmetries

INVARIANTS
    TypeOK
    ChargeIsFrozenPrice

PROPERTIES
    AcceptedOnlySuperseded
    KeepsAgreement
