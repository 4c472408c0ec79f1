CONSTANTS
    Ids = {11, 12, 13}
    Addresses = {a, b}
    Calls = {1, 2, 3}
    None = None
    MaxFaults = 1
    MaxPatches = 2
    Grace = {g}
    Mails = {1, 2, 3, g}
    Arguments <- ArgumentsOf
    Copies = {j1, j2}
    MaxRetries = 2
    MaxMailFaults = 1
    MaxBegun = 3
SPECIFICATION AllSpec
INVARIANT FailuresAreSendGrids
CHECK_DEADLOCK FALSE
