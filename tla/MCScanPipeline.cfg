\* Safety and liveness of the scan leg with crashes, retries and redelivery.
CONSTANTS
    Drawings = {d1}
    Copies = {c1, c2, c3}
    MaxRetries <- MCMaxRetries
    MaxFaults <- MCMaxFaults
SPECIFICATION FairSpec
INVARIANTS
    TypeOK
    AtMostOneMLJob
    MLJobOnlyAfterCommit
    PublishedStateIsStored
PROPERTIES
    VerdictIsFinal
    ScanEnds
\* The system stops when every message is acknowledged.
CHECK_DEADLOCK FALSE
