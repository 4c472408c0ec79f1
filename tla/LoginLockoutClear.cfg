\* A right password that was admitted at four failures, and a fifth failure.
CONSTANTS
    Handlers = {h1, h2}
    Threshold = 5
    MaxFaults = 0
SPECIFICATION Spec
PROPERTY ClearedOnlyBelowThreshold
