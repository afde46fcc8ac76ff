SPECIFICATION FairSpec

CONSTANTS
    Rows = {p1, p2}
    Users = {}
    Cron = cron
    NoRow = none
    MaxPosts = 1

PROPERTIES
    NothingStaysPending

\* The system may really stop: a row without checkout id keeps every other row
\* from being created, and there are no users here.
CHECK_DEADLOCK FALSE
