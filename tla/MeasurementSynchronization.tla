---------------------- MODULE MeasurementSynchronization ----------------------
(***************************************************************************)
(* MeasurementBuffer and MeasurementSynchronizer of FAST-LIO: the bounded  *)
(* buffers of IMU samples and LiDAR scans, and the step that takes the     *)
(* oldest scan together with the IMU samples that span the time from the   *)
(* end of the previous scan to the end of this one.                        *)
(*                                                                         *)
(* A sample is its stamp, a scan its first and last stamp.  All stamps are *)
(* of one clock and the scans are well formed: what the code refuses       *)
(* because of the clock domain or a malformed scan is left out.  0 stands  *)
(* for an absent stamp.                                                    *)
(***************************************************************************)
EXTENDS Naturals, Sequences, FiniteSets, FiniteSetsExt

CONSTANTS
    Time,                  \* the stamps
    maximum_imu_samples,
    maximum_lidar_scans,
    maximum_imu_gap,
    MaxScanDuration        \* bound: of a scan

ASSUME SynchronizationAssumption ==
    /\ Time \subseteq Nat \ {0}
    /\ {maximum_imu_samples, maximum_lidar_scans} \subseteq Nat \ {0}
    /\ {maximum_imu_gap, MaxScanDuration} \subseteq Nat

VARIABLES
    imu_samples,                  \* stamps in the buffer
    lidar_scans,
    imu_validator,                \* the last accepted stamp
    lidar_validator,              \* the last accepted scan's start and end
    last_synchronized_end_time

bufferVars == <<imu_samples, lidar_scans, imu_validator, lidar_validator>>
synchronizationVars == <<bufferVars, last_synchronized_end_time>>

Scan == {s \in [start : Time, end : Time] :
            s.start <= s.end /\ s.end - s.start <= MaxScanDuration}
NoScan == [start |-> 0, end |-> 0]

BufferTypeOK ==
    /\ imu_samples \subseteq Time
    /\ Cardinality(imu_samples) <= maximum_imu_samples
    /\ lidar_scans \in Seq(Scan) /\ Len(lidar_scans) <= maximum_lidar_scans
    /\ imu_validator \in Time \cup {0}
    /\ lidar_validator \in Scan \cup {NoScan}
    /\ last_synchronized_end_time \in Time \cup {0}

BufferInit ==
    /\ imu_samples = {} /\ lidar_scans = <<>>
    /\ imu_validator = 0 /\ lidar_validator = NoScan
    /\ last_synchronized_end_time = 0

----------------------------------------------------------------------------
(* MeasurementBuffer                                                       *)

\* pushImu: a full buffer refuses the new sample before its stamp is examined.
ImuAccepted(t) == Cardinality(imu_samples) < maximum_imu_samples /\ t > imu_validator

BufferImu(t) ==
    IF ImuAccepted(t)
    THEN /\ imu_samples' = imu_samples \cup {t}
         /\ imu_validator' = t
    ELSE UNCHANGED <<imu_samples, imu_validator>>

LidarAccepted(s) ==
    /\ Len(lidar_scans) < maximum_lidar_scans
    /\ s.start > lidar_validator.start /\ s.end > lidar_validator.end

BufferLidar(s) ==
    IF LidarAccepted(s)
    THEN /\ lidar_scans' = Append(lidar_scans, s)
         /\ lidar_validator' = s
    ELSE UNCHANGED <<lidar_scans, lidar_validator>>

BufferCleared ==
    /\ imu_samples' = {} /\ lidar_scans' = <<>>
    /\ imu_validator' = 0 /\ lidar_validator' = NoScan
    /\ last_synchronized_end_time' = 0

----------------------------------------------------------------------------
(* MeasurementSynchronizer::synchronizeNext                                *)

AtOrBefore(t) == {s \in imu_samples : s <= t}
AtOrAfter(t) == {s \in imu_samples : s >= t}
Previous(samples, t) == Max({s \in samples : s < t})

PropagationStart(scan) ==
    IF last_synchronized_end_time = 0 THEN scan.start ELSE last_synchronized_end_time

\* The samples from the last one at or before the propagation start to the first one
\* at or after the scan's end.
Spanned(scan) ==
    {s \in imu_samples : /\ s >= Max(AtOrBefore(PropagationStart(scan)))
                         /\ s <= Min(AtOrAfter(scan.end))}

Gaps(samples) == {t - Previous(samples, t) : t \in samples \ {Min(samples)}}
LongestGap(samples) == Max(Gaps(samples) \cup {0})

\* The sample that ends the first of the longest gaps.
GapEnd(samples) ==
    Min({t \in samples \ {Min(samples)} : t - Previous(samples, t) = LongestGap(samples)})

Overlapping(scan) == scan.start < last_synchronized_end_time
StartUnbracketed(scan) ==
    AtOrBefore(scan.start) = {} \/ AtOrBefore(PropagationStart(scan)) = {}

Outcome(kind) == [kind |-> kind, start |-> 0, gap |-> 0, resume |-> 0]

Synchronization ==
    IF lidar_scans = <<>> \/ imu_samples = {} THEN Outcome("waiting")
    ELSE LET scan == Head(lidar_scans) IN
         IF Overlapping(scan) \/ StartUnbracketed(scan) THEN Outcome("rejected")
         ELSE IF AtOrAfter(scan.end) = {} THEN Outcome("waiting")
         ELSE IF LongestGap(Spanned(scan)) > maximum_imu_gap
         THEN [Outcome("discontinuity") EXCEPT !.gap = LongestGap(Spanned(scan)),
                                               !.resume = GapEnd(Spanned(scan))]
         ELSE [Outcome("group") EXCEPT !.start = PropagationStart(scan)]

\* The samples kept after a group: the first one at or after the scan's end and the
\* one before it, if any.
Retained(scan) ==
    LET after == Min(AtOrAfter(scan.end)) IN
    {s \in imu_samples : \/ s >= after
                         \/ s = Max({r \in imu_samples : r < after} \cup {0})}

\* Mutant of Synchronized: only the samples from the scan's end on are kept.
EarlierSampleDropped(outcome) ==
    /\ lidar_scans' = Tail(lidar_scans)
    /\ imu_samples' = CASE outcome.kind = "rejected" -> imu_samples
                        [] outcome.kind = "discontinuity" -> AtOrAfter(outcome.resume)
                        [] OTHER -> AtOrAfter(Head(lidar_scans).end)
    /\ last_synchronized_end_time' =
         CASE outcome.kind = "rejected" -> last_synchronized_end_time
           [] outcome.kind = "discontinuity" -> outcome.resume
           [] OTHER -> Head(lidar_scans).end
    /\ UNCHANGED <<imu_validator, lidar_validator>>

\* What synchronizeNext does to the buffer and to its epoch.
Synchronized(outcome) ==
    /\ lidar_scans' = Tail(lidar_scans)
    /\ imu_samples' = CASE outcome.kind = "rejected" -> imu_samples
                        [] outcome.kind = "discontinuity" -> AtOrAfter(outcome.resume)
                        [] OTHER -> Retained(Head(lidar_scans))
    /\ last_synchronized_end_time' =
         CASE outcome.kind = "rejected" -> last_synchronized_end_time
           [] outcome.kind = "discontinuity" -> outcome.resume
           [] OTHER -> Head(lidar_scans).end
    /\ UNCHANGED <<imu_validator, lidar_validator>>

=============================================================================
