\* The repository as it is, without a beat schedule: only DELETE /account's own job.
CONSTANTS
    Users = {u1}
    Requests = {q1}
    Processes = 1
    Jobs = {j1}
    MaxRetries = 3
    MaxFaults = 0
    MaxSecret = 1
    BeatScheduled = FALSE
SPECIFICATION FairSpec
PROPERTY SentJobErases
CHECK_DEADLOCK FALSE
