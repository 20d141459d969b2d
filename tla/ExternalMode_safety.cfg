SPECIFICATION Spec
CONSTANTS
    None = None
    kMaxPx4HoldHandoverAttempts = 2
    MaxActivation = 2
    MaxEpoch = 2
    MaxRequest = 1
    CommandKinds <- MCKinds
INVARIANTS TypeOK StoredCommandIsCurrent HandoverPursued OldFrameNotRepeated
PROPERTIES AuthorityImplemented
CHECK_DEADLOCK FALSE
