\* Concurrent logins to one address, with requests that fail half-way.
CONSTANTS
    Handlers = {h1, h2, h3}
    Threshold <- MCThreshold
    MaxFaults <- MCMaxFaults
SPECIFICATION FairSpec
INVARIANTS
    TypeOK
    GuessesAreBounded
    CounterWillExpire
PROPERTY LockoutEnds
