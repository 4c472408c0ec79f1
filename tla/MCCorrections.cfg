\* Up to three calls on one drawing with two symbols, up to two of them (or two more)
\* of PATCH /account/consent in two processes, and their events.
CONSTANTS
    bob = bob
    carol = carol
    team = team
    s1 = s1
    s2 = s2
    valve = valve
    pipe = pipe
    NoTeam = NoTeam
    Users = {bob, carol}
    Teams = {team}
    Symbols = {s1, s2}
    Classes = {valve, pipe}
    Role <- MCRole
    TeamOf <- MCTeamOf
    Owners = {bob, team}
    Detected = {s1}
    TeamConsent = {}
    Consents <- MCConsents
    Requests <- MCRequests
    Calls = {c1, c2, c3}
    Patches = {p1, p2, p3}
    Processes = 2
    x1 = x1
    x2 = x2
    Events = {c1, c2, c3, x1, x2}
    Backlog <- MCBacklog
    Drains = {d1}
    Cap = 2
    MaxFaults = 1
    MaxBegun = 3
SPECIFICATION AllSpec
SYMMETRY Symmetry
INVARIANTS
    TypeOK
    LastCorrectionStands
    FirstCorrectionMovesDrawing
    PageIsExplained
    OptOutIsRespected
    RecordsAtMostProcesses
    EventIsInOnePlace
    QueueIsBounded
    OncePerCall
    EventsFollowCommits
PROPERTY DeliveryKept
