\* A new epoch and scans in any order: the reset barrier, the accounting, the
\* publication, and that drains, the shutdown and the inbox come to an end.
SPECIFICATION FairSpec
CONSTANTS
    None = None
    Scanners = {scan_thread}
    Announcers = {health_thread}
    MaxEpoch = 2
    MaxSequence = 2
    MaxStamp = 2
    MaxMessages = 3
INVARIANTS TypeOK EveryScanAccounted ReadyMeansCurrentWorld OldScansDrained OrderNeverStopsMapping
PROPERTIES ResetsComplete ShutdownCompletes InboxSettles
\* After the shutdown nothing is left to do.
CHECK_DEADLOCK FALSE
