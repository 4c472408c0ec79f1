\* clamd stays out of reach: every delivery raises until the retries are used up.
CONSTANTS
    Drawings = {d1}
    Copies = {c1}
    MaxRetries = 3
    MaxFaults = 0
SPECIFICATION FairSpec
PROPERTY UnreachableClamdEndsScanning
CHECK_DEADLOCK FALSE
