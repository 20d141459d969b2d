SPECIFICATION FairSpec
CONSTANTS
    None = None
    kMaxPx4HoldHandoverAttempts = 1
    MaxActivation = 1
    MaxEpoch = 1
    MaxRequest = 1
    CommandKinds <- MCLivenessKinds
PROPERTIES RecoveryWindowCloses HandoverSettles HandoverReleases
CHECK_DEADLOCK FALSE
