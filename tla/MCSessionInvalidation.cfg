\* Password resets, account deletions and token refreshes of one user.
CONSTANTS
    Sessions = {s1, s2}
    Resets = {r1, r2}
    Deletions = {q1, q2}
    TicksPerSecond <- MCTicksPerSecond
    MaxTime <- MCMaxTime
SPECIFICATION Spec
SYMMETRY Symmetry
INVARIANTS
    TypeOK
    OldSessionsRejected
    NewSessionsAccepted
PROPERTY
    RejectedForGood
\* The clock stops at MaxTime.
CHECK_DEADLOCK FALSE
