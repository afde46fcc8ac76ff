SPECIFICATION FairOutboxSpec

CONSTANTS
    Crons = {c1, c2}
    MaxAttempts = 5
    MaxFaults = 2

INVARIANTS
    OutboxTypeOK
    SendsAreFew
    RecordsTell

PROPERTIES
    EndsSentOrGivenUp

\* The system really stops: the e-mail is sent or given up, and nothing is left to do.
CHECK_DEADLOCK FALSE
