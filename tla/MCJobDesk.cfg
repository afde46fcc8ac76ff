SPECIFICATION DeskSpec

CONSTANTS
    Requests = {r1, r2}
    Callers = {c1, c2}
    MaxFiles = 2
    MaxDeaths = 1

SYMMETRY AnyCaller

INVARIANTS
    DeskTypeOK
    MetadataIsTrue
    ClientSeesReleased
    RemindersAreFew

PROPERTIES
    VerdictsStand
