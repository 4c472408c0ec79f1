CONSTANTS
    Drawings = {d1, d2}
    None = None
    Last = 2
    Polls = {p1, p2}
    MaxSwitches = 2
    MaxFaults = 1
SPECIFICATION Spec
INVARIANT TypeOK
PROPERTIES
    StatusArrives
    LateAnswersAreDropped
CHECK_DEADLOCK FALSE
