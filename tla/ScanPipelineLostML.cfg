\* One crash of the worker between the commit of Processing and the ML dispatch.
CONSTANTS
    Drawings = {d1}
    Copies = {c1}
    MaxRetries = 3
    MaxFaults = 1
SPECIFICATION FairSpec
PROPERTY CleanDrawingReachesML
CHECK_DEADLOCK FALSE
