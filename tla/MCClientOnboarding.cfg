\* One request, not made yet: the rows of a phone only meet in the linking, which
\* treats each alone.  Two workers are enough for every
\* pair of overlapping calls, two accounts for a client who claims and also
\* registered alone, two invites for one that aged or was claimed and its heir.
SPECIFICATION Spec
CONSTANTS
    Workers = {w1, w2}
    Requests = {r1}
    MaxInvites = 2
    MaxAccounts = 2
SYMMETRY WorkerSymmetry
INVARIANTS
    TypeOK
    InvitesEndOnce
    ClientOwnsTheirRequests
PROPERTIES
    RequestKeepsItsClient
