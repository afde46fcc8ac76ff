SPECIFICATION Spec

CONSTANTS
    Workers = {w1, w2}
    LastQuote = 2
    Prices = {p1, p2}
    NoPrice = NoPrice
    MaxVersions = 3
    MaxTasks = 3

SYMMETRY Symmetries

INVARIANTS
    TypeOK
    VersionsInOrder
    SettledAtAgreedPrice

PROPERTIES
    AcceptedVersionStands
