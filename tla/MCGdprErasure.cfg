\* Deletion requests and overlapping erasure jobs of one user.
CONSTANTS
    Users = {u1}
    Requests = {q1, q2, q3}
    Processes = 2
    Jobs = {j1, j2}
    MaxRetries <- MCMaxRetries
    MaxFaults <- MCMaxFaults
    MaxSecret <- MCMaxSecret
    BeatScheduled = TRUE
SPECIFICATION FairSpec
INVARIANTS
    TypeOK
    EnqueuedAtMostProcesses
    PlaceholderIsTheirs
PROPERTIES
    AnonymousIdIsStable
    PromiseKept
\* A user who does not delete the account needs no step.
CHECK_DEADLOCK FALSE
