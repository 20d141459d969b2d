SPECIFICATION Spec
CONSTANTS
    None = None
    kMaxPx4HoldHandoverAttempts = 1
    MaxActivation = 1
    MaxEpoch = 2
    MaxRequest = 1
    CommandKinds <- MCKinds
INVARIANTS PositionsInTheirFrame
CHECK_DEADLOCK FALSE
