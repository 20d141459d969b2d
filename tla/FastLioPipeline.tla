---------------------------- MODULE FastLioPipeline ----------------------------
(***************************************************************************)
(* FastLioPipeline: the LiDAR-inertial estimator.  It initialises from IMU *)
(* samples and an initial-state prior, then processes one synchronised     *)
(* scan after another (predict, deskew, correct, insert into the map) and  *)
(* keeps a lifecycle that tells navigation whether the estimate may be     *)
(* used.                                                                   *)
(*                                                                         *)
(* One thread calls pushImu, pushLidar, processNext (until it has nothing  *)
(* to return) and superviseLidarTimeout.  The prior's topic callback calls *)
(* submitInitialStatePrior from another thread; it shares the mailbox      *)
(* initial_prior_candidate_ with the initialisation, which reads it twice. *)
(* reset() is called by nothing but the tests today.                       *)
(*                                                                         *)
(* The numerical outcome of a step (stationarity of the IMU, prediction,   *)
(* deskewing, registration, covariance inflation, the map's size guard) is *)
(* a nondeterministic choice.  The context is the ground start-up, with    *)
(* the prior's source one of PriorSources and the fallback "zero".         *)
(***************************************************************************)
EXTENDS MeasurementSynchronization

CONSTANTS
    PriorSources,                   \* of {"zero", "topic"}
    minimum_imu_samples,
    topic_wait_timeout,
    maximum_topic_prior_age,
    maximum_recoverable_imu_gap,
    maximum_initial_map_registration_failures,
    lost_after_registration_failures,
    recovery_confirmation_updates,
    MaxGeneration                   \* bound: resets

ASSUME PipelineAssumption ==
    /\ PriorSources \subseteq {"zero", "topic"}
    /\ {topic_wait_timeout, maximum_topic_prior_age, maximum_recoverable_imu_gap,
        MaxGeneration} \subseteq Nat
    /\ {minimum_imu_samples, maximum_initial_map_registration_failures,
        lost_after_registration_failures, recovery_confirmation_updates} \subseteq Nat \ {0}

VARIABLES
    prior_source,                   \* config_.initial_prior.source
    generation,
    estimator,                      \* the lifecycle and what it depends on
    initialization,                 \* samples collected and the initialisation's progress
    initial_prior_candidate,        \* the mailbox, and the last accepted stamp
    last_prior_candidate_time,
    imu_clock,                      \* the newest stamp handed to pushImu
    streak                          \* history: corrections since the last uncorrected
                                    \* update, or since Tracking was left

priorVars == <<initial_prior_candidate, last_prior_candidate_time>>
lifecycleVars == <<prior_source, generation, estimator, initialization, priorVars,
                   imu_clock, streak>>
pipelineVars == <<synchronizationVars, lifecycleVars>>

Statuses == {"WaitingForSensors", "CollectingImu", "InitializingImu", "InitializingMap",
             "Tracking", "Degraded", "Lost"}
statusUsesEstimatorState(status) == status \in {"InitializingMap", "Tracking", "Degraded", "Lost"}

\* state_time: of the filter; confirmed: tracking_ever_confirmed_; uncorrected,
\* successes, failures: the consecutive counters, saturating at their limits;
\* reference: the bootstrap map holds the first scan; mapped: the registration map
\* holds points; map_recovery: map_recovery_required_ and insertion_frozen_, which are
\* set and cleared together.
Estimators ==
    [status : Statuses, state_time : Time \cup {0}, confirmed : BOOLEAN,
     uncorrected : 0 .. lost_after_registration_failures,
     successes : 0 .. recovery_confirmation_updates,
     failures : 0 .. maximum_initial_map_registration_failures,
     reference : BOOLEAN, mapped : BOOLEAN, map_recovery : BOOLEAN]

\* samples: collected, saturating; last: last_initialization_imu_time_; result:
\* imu_initialization_result_ has a value; wait_start: prior_wait_start_time_; step and
\* candidate: where tryCompleteImuInitialization stands and the candidate it copied;
\* fallback, prior_time: initial_prior_fallback_applied_, initial_prior_state_time_.
\* initial_prior_gate_closed_ is set only after initialized and tested only with it.
Initializations ==
    [samples : 0 .. minimum_imu_samples, last : Time \cup {0}, result : BOOLEAN,
     wait_start : Time \cup {0}, step : {"idle", "resolve", "apply"},
     candidate : Time \cup {0}, fallback : BOOLEAN, prior_time : Time \cup {0},
     initialized : BOOLEAN]

\* The estimator stays within its counters' limits and the buffers within theirs.
TypeOK ==
    /\ BufferTypeOK
    /\ prior_source \in PriorSources
    /\ generation \in 0 .. MaxGeneration
    /\ estimator \in Estimators
    /\ initialization \in Initializations
    /\ {initial_prior_candidate, last_prior_candidate_time, imu_clock} \subseteq Time \cup {0}
    /\ streak \in 0 .. recovery_confirmation_updates

WaitingForSensors ==
    [status |-> "WaitingForSensors", state_time |-> 0, confirmed |-> FALSE, uncorrected |-> 0,
     successes |-> 0, failures |-> 0, reference |-> FALSE, mapped |-> FALSE,
     map_recovery |-> FALSE]

NotInitialized ==
    [samples |-> 0, last |-> 0, result |-> FALSE, wait_start |-> 0, step |-> "idle",
     candidate |-> 0, fallback |-> FALSE, prior_time |-> 0, initialized |-> FALSE]

Init ==
    /\ BufferInit
    /\ prior_source \in PriorSources
    /\ generation = 0
    /\ estimator = WaitingForSensors /\ initialization = NotInitialized
    /\ initial_prior_candidate = 0 /\ last_prior_candidate_time = 0
    /\ imu_clock = 0 /\ streak = 0

AtMost(n, limit) == IF n > limit THEN limit ELSE n

----------------------------------------------------------------------------
(* The lifecycle, as functions of the estimator's state                    *)

\* Mutant of recordUncorrectedUpdate: the recovery starts over only at the limit.
RecoveryNotRestarted(e) ==
    IF ~e.confirmed THEN e
    ELSE LET n == AtMost(e.uncorrected + 1, lost_after_registration_failures) IN
         [e EXCEPT !.uncorrected = n,
                   !.successes = IF n = lost_after_registration_failures THEN 0 ELSE @,
                   !.status = IF n = lost_after_registration_failures \/ @ = "Lost"
                              THEN "Lost" ELSE "Degraded"]

recordUncorrectedUpdate(e) ==
    IF ~e.confirmed THEN e
    ELSE LET n == AtMost(e.uncorrected + 1, lost_after_registration_failures) IN
         [e EXCEPT !.uncorrected = n, !.successes = 0,
                   !.status = IF n = lost_after_registration_failures \/ @ = "Lost"
                              THEN "Lost" ELSE "Degraded"]

registrationFailed(e) ==
    LET n == AtMost(e.failures + 1, maximum_initial_map_registration_failures)
        counted == IF e.status # "InitializingMap" THEN e
                   ELSE [e EXCEPT !.failures = n,
                                  !.status = IF n = maximum_initial_map_registration_failures
                                             THEN "Lost" ELSE @]
    IN  recordUncorrectedUpdate(counted)

Tracking(e) == [e EXCEPT !.status = "Tracking", !.confirmed = TRUE, !.uncorrected = 0,
                         !.successes = 0]

\* Mutant of correctionAccepted: a recovery does not look at the map.
MapRecoveryIgnored(e) ==
    LET n == AtMost(e.successes + 1, recovery_confirmation_updates) IN
    IF ~e.confirmed THEN Tracking(e)
    ELSE IF e.status = "Tracking" THEN e
    ELSE IF n = recovery_confirmation_updates THEN Tracking(e)
    ELSE [e EXCEPT !.successes = n, !.status = "Degraded"]

correctionAccepted(e) ==
    LET n == AtMost(e.successes + 1, recovery_confirmation_updates) IN
    IF ~e.confirmed THEN Tracking(e)
    ELSE IF e.status = "Tracking" THEN e
    ELSE IF e.map_recovery THEN [e EXCEPT !.successes = n]
    ELSE IF n = recovery_confirmation_updates THEN Tracking(e)
    ELSE [e EXCEPT !.successes = n, !.status = "Degraded"]

\* The map insertion that follows: the scan goes in while Tracking, and the guard on
\* the map's size may then fail for good.
mapUpdated(e, guard_failed) ==
    IF e.status # "Tracking" \/ e.map_recovery THEN e
    ELSE [e EXCEPT !.mapped = TRUE, !.reference = FALSE, !.map_recovery = guard_failed,
                   !.status = IF guard_failed THEN "Degraded" ELSE @]

recoverFromDiscontinuity(e, outcome, inflated) ==
    LET long == outcome.gap > maximum_recoverable_imu_gap
        rebased == recordUncorrectedUpdate([e EXCEPT !.state_time = outcome.resume])
    IN  IF ~statusUsesEstimatorState(e.status) \/ e.state_time = 0 THEN e
        ELSE IF ~inflated THEN [e EXCEPT !.status = "Lost"]
        ELSE IF e.confirmed
        THEN [rebased EXCEPT !.status = IF long THEN "Lost" ELSE @]
        ELSE [rebased EXCEPT !.status = "InitializingMap",
                             !.reference = @ /\ ~long,
                             !.failures = IF long THEN 0 ELSE @]

----------------------------------------------------------------------------
(* processInternal: the possible results of processing a synchronised scan *)

Uncorrected(e) == [estimator |-> e, corrected |-> FALSE]
Corrected(e) == [estimator |-> e, corrected |-> TRUE]

\* The filter is carried over the interval's samples to the scan's end.
PredictedTo(e, scan) == [e EXCEPT !.state_time = scan.end]

\* Deskewing or preprocessing fails, or leaves too few points.
ScanUnusable(e) == Uncorrected(recordUncorrectedUpdate(e))

\* The scan is registered against the bootstrap reference or the map, with success or
\* not; only a map that holds points can fail its size guard.
Registrations(e) ==
    LET accepted == correctionAccepted([e EXCEPT !.failures = 0]) IN
    {Uncorrected(registrationFailed(e))}
    \cup {Corrected(mapUpdated(accepted, guard_failed)) :
             guard_failed \in {g \in BOOLEAN : e.reference \/ e.mapped}}

\* From a filter at the start of the interval: the prediction fails and leaves it there,
\* the scan is lost after it, the first scan becomes the reference, or it is registered.
Predicted(e, scan) ==
    LET predicted == PredictedTo(e, scan) IN
    {Uncorrected(recordUncorrectedUpdate(e)), ScanUnusable(predicted)}
    \cup IF e.status = "InitializingMap" /\ ~e.reference
         THEN {Uncorrected([predicted EXCEPT !.reference = TRUE])}
         ELSE Registrations(predicted)

\* A topic's prior owns its epoch; otherwise the first interval starts at the group's.
InitialEpoch(start) ==
    IF prior_source = "topic" /\ ~initialization.fallback THEN initialization.prior_time
    ELSE start

\* Mutant of FirstScanUsable: a prior later than the scan is not looked for.
PriorEpochUnchecked(scan, start) == scan.start >= initialization.last

FirstScanUsable(scan, start) ==
    scan.start >= initialization.last /\ InitialEpoch(start) <= scan.start

\* A failed prediction leaves the filter behind; it is rebased once the lifecycle has
\* failed closed.
Rebasable(e, start) ==
    e.state_time < start /\ e.confirmed /\ e.status \in {"Degraded", "Lost"}

\* Before the filter runs, the initialisation is tried again with the samples pushImu
\* tried it with, to the same end.
processInternal(scan, start) ==
    LET e == estimator IN
    CASE ~statusUsesEstimatorState(e.status) -> {Uncorrected(e)}
      [] e.state_time = 0 /\ statusUsesEstimatorState(e.status) ->
           IF FirstScanUsable(scan, start)
           THEN Predicted([e EXCEPT !.state_time = InitialEpoch(start)], scan)
           ELSE {Uncorrected(e)}
      [] e.state_time = start -> Predicted(e, scan)
      [] e.state_time \notin {0, start} ->
           {Uncorrected(recordUncorrectedUpdate(e))}
           \cup IF Rebasable(e, start)
                THEN Predicted(recordUncorrectedUpdate([e EXCEPT !.state_time = start]), scan)
                ELSE {}

\* While the prior of a topic is awaited, nothing is synchronised.
PriorAwaited ==
    initialization.result /\ ~initialization.initialized /\ prior_source = "topic"

CanProcess == ~PriorAwaited /\ Synchronization.kind # "waiting"
ThreadFree == initialization.step = "idle" /\ ~CanProcess

Results ==
    LET outcome == Synchronization IN
    CASE outcome.kind = "rejected" -> {Uncorrected(recordUncorrectedUpdate(estimator))}
      [] outcome.kind = "discontinuity" ->
           {Uncorrected(recoverFromDiscontinuity(estimator, outcome, inflated)) :
               inflated \in BOOLEAN}
      [] outcome.kind = "group" -> processInternal(Head(lidar_scans), outcome.start)

processNext ==
    /\ initialization.step = "idle" /\ CanProcess
    /\ Synchronized(Synchronization)
    /\ \E result \in Results :
         /\ estimator' = result.estimator
         /\ streak' = IF result.corrected /\ result.estimator.status # "Tracking"
                      THEN AtMost(streak + 1, recovery_confirmation_updates) ELSE 0
    /\ UNCHANGED <<prior_source, generation, initialization, priorVars, imu_clock>>

----------------------------------------------------------------------------
(* Input and initialisation                                                *)

Collecting == estimator.status \in {"WaitingForSensors", "CollectingImu", "InitializingImu"}

\* pushImu.  During initialisation the sample is collected; once there are enough,
\* every further sample tries to complete it: the samples are stationary or not, and
\* then the prior is resolved, of which this step copies the candidate.
pushImu(t) ==
    /\ ThreadFree
    /\ imu_clock' = Max({imu_clock, t})
    /\ BufferImu(t)
    /\ IF ImuAccepted(t) /\ Collecting
       THEN LET n == AtMost(initialization.samples + 1, minimum_imu_samples)
                enough == n = minimum_imu_samples
            IN \E result \in {r \in BOOLEAN : /\ initialization.result => r
                                              /\ r => enough} :
                 /\ estimator' = [estimator EXCEPT !.status = IF enough THEN "InitializingImu"
                                                              ELSE "CollectingImu"]
                 /\ initialization' =
                      [initialization EXCEPT
                         !.samples = n, !.last = t, !.result = result,
                         !.wait_start = IF initialization.result THEN @ ELSE t,
                         !.step = IF result THEN "resolve" ELSE "idle",
                         !.candidate = IF result THEN initial_prior_candidate ELSE 0]
       ELSE UNCHANGED <<estimator, initialization>>
    /\ UNCHANGED <<lidar_scans, lidar_validator, last_synchronized_end_time, prior_source,
                   generation, priorVars, streak>>

\* resolveInitialStatePrior(application_time), from the candidate it copied.  A stale
\* candidate empties the mailbox, whatever it holds by now.
resolveInitialStatePrior ==
    LET application_time == initialization.last
        candidate == initialization.candidate
        present == prior_source = "topic" /\ candidate # 0
        future == present /\ candidate > application_time
        stale == present /\ ~future /\ application_time - candidate > maximum_topic_prior_age
        accepted == prior_source = "zero" \/ (present /\ ~future /\ ~stale)
        timed_out == application_time - initialization.wait_start >= topic_wait_timeout
        fallback == ~accepted /\ ~future /\ timed_out
    IN  /\ initialization.step = "resolve"
        /\ initialization' = [initialization EXCEPT
                                !.step = IF accepted \/ fallback THEN "apply" ELSE "idle",
                                !.candidate = 0,
                                !.fallback = @ \/ fallback]
        /\ initial_prior_candidate' = IF stale THEN 0 ELSE initial_prior_candidate
        /\ UNCHANGED <<synchronizationVars, prior_source, generation, estimator,
                       last_prior_candidate_time, imu_clock, streak>>

\* The rest of tryCompleteImuInitialization: the mailbox is read again.  The prior of a
\* topic may be refused (tilt, covariance).
applyInitialStatePrior ==
    LET own == prior_source = "topic" /\ ~initialization.fallback IN
    /\ initialization.step = "apply"
    /\ \E accepted \in {a \in BOOLEAN : own \/ a} :
         /\ initialization' =
              [initialization EXCEPT
                 !.step = "idle", !.initialized = accepted,
                 !.prior_time = IF ~accepted THEN 0
                                ELSE IF own THEN initial_prior_candidate
                                ELSE initialization.last]
         /\ estimator' = [estimator EXCEPT !.status = IF accepted THEN "InitializingMap" ELSE @]
    /\ UNCHANGED <<synchronizationVars, prior_source, generation, priorVars, imu_clock, streak>>

\* The prior's topic callback, on its own thread.
submitInitialStatePrior(t) ==
    /\ prior_source = "topic" /\ ~initialization.initialized
    /\ t > last_prior_candidate_time
    /\ initial_prior_candidate' = t /\ last_prior_candidate_time' = t
    /\ UNCHANGED <<synchronizationVars, prior_source, generation, estimator, initialization,
                   imu_clock, streak>>

pushLidar(scan) ==
    /\ ThreadFree
    /\ BufferLidar(scan)
    /\ UNCHANGED <<imu_samples, imu_validator, last_synchronized_end_time, prior_source,
                   generation, estimator, initialization, priorVars, imu_clock, streak>>

\* The steady clock says how long ago the last accepted scan arrived: past
\* degraded_after_lidar_gap_ns, or past lost_after_lidar_gap_ns too.
superviseLidarTimeout(elapsed) ==
    /\ ThreadFree
    /\ lidar_validator # NoScan
    /\ \/ estimator.status = "Tracking"
       \/ estimator.status = "Degraded" /\ elapsed = "lost"
    /\ estimator' = [estimator EXCEPT !.status = IF elapsed = "lost" THEN "Lost"
                                                 ELSE "Degraded"]
    /\ UNCHANGED <<synchronizationVars, prior_source, generation, initialization, priorVars,
                   imu_clock, streak>>

reset ==
    /\ ThreadFree /\ generation < MaxGeneration
    /\ generation' = generation + 1
    /\ BufferCleared
    /\ estimator' = WaitingForSensors /\ initialization' = NotInitialized
    /\ initial_prior_candidate' = 0 /\ last_prior_candidate_time' = 0
    /\ imu_clock' = 0 /\ streak' = 0
    /\ UNCHANGED prior_source

PipelineStep == processNext \/ resolveInitialStatePrior \/ applyInitialStatePrior

Next ==
    \/ PipelineStep
    \/ \E t \in Time : pushImu(t)
    \/ \E t \in Time : submitInitialStatePrior(t)
    \/ \E scan \in Scan : pushLidar(scan)
    \/ \E elapsed \in {"degraded", "lost"} : superviseLidarTimeout(elapsed)
    \/ reset

Spec == Init /\ [][Next]_pipelineVars

\* The processing thread calls processNext until it returns nothing, and finishes an
\* initialisation it has begun.
FairSpec == Spec /\ WF_pipelineVars(PipelineStep)

----------------------------------------------------------------------------
(* Properties                                                              *)

\* The synchroniser always keeps a sample at or before the end of what it has
\* synchronised, so the next scan's interval is bracketed at its start: no group, gap or
\* rejected scan throws away the sample the next prediction starts from.
BracketRetained ==
    last_synchronized_end_time # 0 =>
        \E t \in imu_samples : t <= last_synchronized_end_time

\* The filter's time is never ahead of the synchroniser's epoch (not even with a prior
\* that was replaced in the mailbox by a later one between its check and its use), and
\* while Tracking is reported it is exactly that epoch: a filter left behind by a failed
\* prediction is never reported as tracking.
FilterMatchesSynchronizer ==
    /\ estimator.state_time <= last_synchronized_end_time
    /\ estimator.status = "Tracking" => estimator.state_time = last_synchronized_end_time

\* Once the map has failed its size guard, Tracking is not reported until a reset,
\* however many corrections, gaps and timeouts follow.
MapGuardLatches == estimator.map_recovery => estimator.status # "Tracking"

\* After the first confirmation, Tracking is regained only by
\* recovery_confirmation_updates corrections with no uncorrected update between them.
RecoveryConfirmed ==
    [][/\ estimator.confirmed /\ estimator.status # "Tracking"
       /\ estimator'.status = "Tracking"
       => streak + 1 >= recovery_confirmation_updates]_pipelineVars

\* A scan at the head of the buffer is synchronised or rejected once the IMU has
\* delivered a sample at or after its end.
ScanDecided ==
    \A scan \in Scan :
        (/\ lidar_scans # <<>> /\ Head(lidar_scans) = scan
         /\ imu_clock >= scan.end /\ ~PriorAwaited)
        ~> (lidar_scans = <<>> \/ Head(lidar_scans) # scan)

=============================================================================
