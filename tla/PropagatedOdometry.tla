-------------------------- MODULE PropagatedOdometry --------------------------
(***************************************************************************)
(* PropagatedOdometryWorker: the thread that publishes odometry at the IMU *)
(* rate.  The IMU callback hands it samples, the estimator's thread tells  *)
(* it after every LiDAR update whether navigation is valid and, if the     *)
(* filter was corrected, what the corrected state is.  The worker anchors  *)
(* its propagator at the correction, replays the samples received since,   *)
(* and publishes one estimate per period.                                  *)
(*                                                                         *)
(* A cycle of run() is a sequence of steps: one for every stretch of code  *)
(* that runs under mutex_ or touches only the worker's own state.          *)
(* Producers interleave between them; requestLoadShedding takes no lock.   *)
(***************************************************************************)
EXTENDS ImuPropagation, Sequences

CONSTANTS
    imu_ingress_capacity,
    maximum_correction_age,      \* of the newest sample over the last correction
    publish_period,
    MaxSequence,                 \* bound: corrections made
    MaxGeneration                \* the last value of control_generation_

ASSUME WorkerAssumption ==
    /\ {imu_ingress_capacity, maximum_correction_age, MaxSequence, MaxGeneration} \subseteq Nat
    /\ publish_period \in Nat \ {0}

VARIABLES
    accepting, stop_requested, load_shed_requested, reset_requested,
    invalidation_requested, correction_requested, suspended, control_generation,
    imu_ingress, pending_correction,
    main_valid,                  \* main_status is Tracking and navigation_valid
    last_applied,                \* last_applied_correction_{sequence,time}
    correction_sequence,         \* of the estimator's thread
    worker,                      \* run()'s step and its locals
    propagator,
    next_publish_deadline,
    published                    \* the last estimate handed to the callback

controlVars == <<accepting, stop_requested, suspended, control_generation>>
requestVars == <<load_shed_requested, reset_requested, invalidation_requested>>
correctionVars == <<pending_correction, correction_requested>>
workerVars == <<worker, propagator, next_publish_deadline, published>>
odometryVars == <<controlVars, requestVars, correctionVars, imu_ingress, main_valid,
                  last_applied, correction_sequence, workerVars>>

Correction == [sequence : 1 .. MaxSequence, time : Time, generation : 0 .. MaxGeneration]
Estimate == [time : Time, anchor : Correction, generation : 0 .. MaxGeneration]
Steps == {"idle", "deciding", "blocked", "reset", "shed", "invalidate", "begin", "record", "take",
          "replay", "flush", "recheck", "publish", "exited"}

\* A cycle of run(): the drained batch and whether it held samples, the generation it
\* started in, batch_suspended, the correction being replayed, the stamps of the applied
\* correction and of the latest recorded sample (0 for none), and whether every call
\* succeeded.
Cycle ==
    [step : Steps, batch : Seq(Time), imu : BOOLEAN, generation : 0 .. MaxGeneration,
     suspended : BOOLEAN, correction : Correction \cup {None}, applied : Time \cup {0},
     latest : Time \cup {0}, ok : BOOLEAN]

At(next) ==
    [step |-> next, batch |-> <<>>, imu |-> FALSE, generation |-> 0, suspended |-> FALSE,
     correction |-> None, applied |-> 0, latest |-> 0, ok |-> TRUE]

TypeOK ==
    /\ {accepting, stop_requested, load_shed_requested, reset_requested,
        invalidation_requested, correction_requested, suspended, main_valid} \subseteq BOOLEAN
    /\ control_generation \in 0 .. MaxGeneration
    /\ imu_ingress \in Seq(Time) /\ Len(imu_ingress) <= imu_ingress_capacity
    /\ {pending_correction, last_applied} \subseteq Correction \cup {None}
    /\ correction_sequence \in 0 .. MaxSequence
    /\ worker \in Cycle
    /\ propagator \in Propagators(Correction)
    /\ next_publish_deadline \in Nat
    /\ published \in Estimate \cup {None}

OdometryInit ==
    /\ accepting = TRUE /\ stop_requested = FALSE
    /\ load_shed_requested = FALSE /\ reset_requested = FALSE
    /\ invalidation_requested = FALSE /\ correction_requested = FALSE
    /\ suspended = FALSE /\ control_generation = 0
    /\ imu_ingress = <<>> /\ pending_correction = None
    /\ main_valid = FALSE /\ last_applied = None /\ correction_sequence = 0
    /\ worker = At("idle") /\ propagator = Unanchored
    /\ next_publish_deadline = 0 /\ published = None

\* None stands for no correction and no estimate.
ASSUME NoneAssumption == None \notin Correction \cup Estimate

----------------------------------------------------------------------------
(* Helpers                                                                 *)

\* mutex_ is held only across the decision to sleep: every other critical section
\* is part of one step.
MutexFree == worker.step # "deciding"

\* ready_.notify_one() reaches a worker that sleeps, and is lost on any other.
Notified == IF worker.step = "blocked" THEN [worker EXCEPT !.step = "idle"] ELSE worker

rejectCorrectionNotNewerThanApplied(c) ==
    /\ last_applied # None
    /\ c.sequence <= last_applied.sequence \/ c.time <= last_applied.time

\* Whether c replaces the correction that is waiting.
Supersedes(c, pending) ==
    pending # None => c.sequence > pending.sequence /\ c.time >= pending.time

\* advanceControlGenerationLocked: when the counter is exhausted the worker stops for good.
advanceControlGeneration ==
    IF control_generation < MaxGeneration
    THEN control_generation' = control_generation + 1 /\ UNCHANGED <<accepting, stop_requested>>
    ELSE /\ accepting' = FALSE /\ stop_requested' = TRUE
         /\ UNCHANGED control_generation

----------------------------------------------------------------------------
(* Producers                                                               *)

\* Mutant of enqueueImu: the worker is woken for every sample but the first.
NotifiesLate(t) ==
    /\ accepting /\ MutexFree /\ Len(imu_ingress) < imu_ingress_capacity
    /\ imu_ingress' = Append(imu_ingress, t)
    /\ worker' = IF imu_ingress # <<>> THEN Notified ELSE worker
    /\ UNCHANGED <<controlVars, requestVars, correctionVars, main_valid, last_applied,
                   correction_sequence, propagator, next_publish_deadline, published>>

\* A full ingress sheds the load instead of taking the sample.
enqueueImu(t) ==
    /\ accepting /\ MutexFree
    /\ \/ /\ Len(imu_ingress) < imu_ingress_capacity
          /\ imu_ingress' = Append(imu_ingress, t)
          /\ worker' = IF imu_ingress = <<>> THEN Notified ELSE worker
          /\ UNCHANGED load_shed_requested
       \/ /\ Len(imu_ingress) = imu_ingress_capacity
          /\ load_shed_requested' = TRUE
          /\ worker' = Notified
          /\ UNCHANGED imu_ingress
    /\ UNCHANGED <<controlVars, reset_requested, invalidation_requested, correctionVars,
                   main_valid, last_applied, correction_sequence,
                   propagator, next_publish_deadline, published>>

requestLoadShedding ==
    /\ ~load_shed_requested
    /\ load_shed_requested' = TRUE
    /\ worker' = Notified
    /\ UNCHANGED <<controlVars, reset_requested, invalidation_requested, correctionVars,
                   imu_ingress, main_valid, last_applied, correction_sequence,
                   propagator, next_publish_deadline, published>>

\* enqueueEstimatorState when the estimator is not Tracking or not valid.
enqueueInvalidState ==
    /\ accepting /\ MutexFree
    /\ main_valid' = FALSE
    /\ advanceControlGeneration
    /\ IF stop_requested'
       THEN suspended' = TRUE
            /\ UNCHANGED <<pending_correction, invalidation_requested, worker>>
       ELSE pending_correction' = None /\ invalidation_requested' = TRUE /\ worker' = Notified
            /\ UNCHANGED suspended
    /\ UNCHANGED <<load_shed_requested, reset_requested, correction_requested, imu_ingress,
                   last_applied, correction_sequence,
                   propagator, next_publish_deadline, published>>

\* enqueueEstimatorState for a valid update that did not correct the filter.
enqueueUncorrectedState ==
    /\ accepting /\ MutexFree
    /\ main_valid' = TRUE
    /\ worker' = Notified
    /\ UNCHANGED <<controlVars, requestVars, correctionVars, imu_ingress, last_applied,
                   correction_sequence, propagator, next_publish_deadline, published>>

\* enqueueEstimatorState for a corrected state of the stamp t.
enqueueCorrectedState(t) ==
    LET c == [sequence |-> correction_sequence', time |-> t, generation |-> control_generation] IN
    /\ accepting /\ MutexFree
    /\ correction_sequence < MaxSequence
    /\ correction_sequence' = correction_sequence + 1
    /\ main_valid' = TRUE
    /\ IF ~rejectCorrectionNotNewerThanApplied(c) /\ Supersedes(c, pending_correction)
       THEN pending_correction' = c /\ correction_requested' = TRUE /\ worker' = Notified
       ELSE UNCHANGED <<correctionVars, worker>>
    /\ UNCHANGED <<controlVars, requestVars, imu_ingress, last_applied,
                   propagator, next_publish_deadline, published>>

reset ==
    /\ accepting /\ MutexFree
    /\ reset_requested' = TRUE
    /\ worker' = Notified
    /\ UNCHANGED <<controlVars, load_shed_requested, invalidation_requested, correctionVars,
                   imu_ingress, main_valid, last_applied, correction_sequence,
                   propagator, next_publish_deadline, published>>

stop ==
    /\ MutexFree
    /\ accepting' = FALSE /\ stop_requested' = TRUE
    /\ worker' = Notified
    /\ UNCHANGED <<suspended, control_generation, requestVars, correctionVars, imu_ingress,
                   main_valid, last_applied, correction_sequence,
                   propagator, next_publish_deadline, published>>

----------------------------------------------------------------------------
(* The worker's thread                                                     *)

WakeUp ==
    \/ stop_requested \/ imu_ingress # <<>> \/ load_shed_requested
    \/ reset_requested \/ invalidation_requested \/ correction_requested

producerVars == <<main_valid, correction_sequence>>

\* ready_.wait: the predicate is false, so the thread will sleep ...
waitDecides ==
    /\ worker.step = "idle" /\ ~WakeUp
    /\ worker' = At("deciding")
    /\ UNCHANGED <<controlVars, requestVars, correctionVars, imu_ingress, producerVars,
                   last_applied, propagator, next_publish_deadline, published>>

\* ... and does, releasing mutex_.
waitBlocks ==
    /\ worker.step = "deciding"
    /\ worker' = At("blocked")
    /\ UNCHANGED <<controlVars, requestVars, correctionVars, imu_ingress, producerVars,
                   last_applied, propagator, next_publish_deadline, published>>

runExits ==
    /\ worker.step = "idle" /\ stop_requested
    /\ worker' = At("exited")
    /\ UNCHANGED <<controlVars, requestVars, correctionVars, imu_ingress, producerVars,
                   last_applied, propagator, next_publish_deadline, published>>

drainIngress ==
    /\ worker.step = "idle" /\ WakeUp /\ ~stop_requested
    /\ correction_requested' = FALSE
    /\ imu_ingress' = <<>>
    /\ worker' = [At("reset") EXCEPT !.batch = imu_ingress, !.imu = imu_ingress # <<>>]
    /\ UNCHANGED <<controlVars, requestVars, pending_correction, producerVars,
                   last_applied, propagator, next_publish_deadline, published>>

takeReset ==
    /\ worker.step = "reset"
    /\ \/ /\ reset_requested
          /\ reset_requested' = FALSE
          /\ propagator' = Unanchored
          /\ imu_ingress' = <<>> /\ pending_correction' = None
          /\ advanceControlGeneration
          /\ suspended' = TRUE
          /\ IF control_generation < MaxGeneration
             THEN load_shed_requested' = FALSE /\ invalidation_requested' = FALSE
                  /\ correction_requested' = FALSE /\ worker' = At("idle")
             ELSE worker' = At("exited")
                  /\ UNCHANGED <<load_shed_requested, invalidation_requested, correction_requested>>
       \/ /\ ~reset_requested
          /\ worker' = [worker EXCEPT !.step = "shed"]
          /\ UNCHANGED <<controlVars, requestVars, correctionVars, imu_ingress, propagator>>
    /\ UNCHANGED <<producerVars, last_applied, next_publish_deadline, published>>

\* The generation advances, and a waiting correction is dropped, only when the
\* output was not suspended already.
takeLoadShedding ==
    /\ worker.step = "shed"
    /\ load_shed_requested' = FALSE
    /\ IF load_shed_requested /\ ~suspended
       THEN suspended' = TRUE /\ pending_correction' = None /\ advanceControlGeneration
       ELSE UNCHANGED <<controlVars, pending_correction>>
    /\ IF load_shed_requested /\ ~suspended /\ control_generation = MaxGeneration
       THEN worker' = At("exited") /\ UNCHANGED propagator
       ELSE /\ worker' = [worker EXCEPT !.step = "invalidate"]
            /\ propagator' = IF load_shed_requested THEN setFailure(propagator) ELSE propagator
    /\ UNCHANGED <<reset_requested, invalidation_requested, correction_requested, imu_ingress,
                   producerVars, last_applied, next_publish_deadline, published>>

\* Mutant of takeInvalidation: an invalidation that comes with samples is lost.
InvalidationOnlyWhenIdle ==
    LET applies == invalidation_requested /\ ~worker.imu IN
    /\ worker.step = "invalidate"
    /\ invalidation_requested' = FALSE
    /\ suspended' = (suspended \/ applies)
    /\ propagator' = IF applies THEN setFailure(propagator) ELSE propagator
    /\ worker' = [worker EXCEPT !.step = IF worker.imu THEN "begin" ELSE "take"]
    /\ UNCHANGED <<accepting, stop_requested, control_generation, load_shed_requested,
                   reset_requested, correctionVars, imu_ingress, producerVars,
                   last_applied, next_publish_deadline, published>>

takeInvalidation ==
    /\ worker.step = "invalidate"
    /\ invalidation_requested' = FALSE
    /\ suspended' = (suspended \/ invalidation_requested)
    /\ propagator' = IF invalidation_requested THEN setFailure(propagator) ELSE propagator
    /\ worker' = [worker EXCEPT !.step = IF worker.imu THEN "begin" ELSE "take"]
    /\ UNCHANGED <<accepting, stop_requested, control_generation, load_shed_requested,
                   reset_requested, correctionVars, imu_ingress, producerVars,
                   last_applied, next_publish_deadline, published>>

\* processImuBatch begins: what the loop and the later checks compare with is read once.
beginBatch ==
    /\ worker.step = "begin"
    /\ worker' = [worker EXCEPT !.step = "record", !.suspended = suspended,
                                !.generation = control_generation]
    /\ UNCHANGED <<controlVars, requestVars, correctionVars, imu_ingress, producerVars,
                   last_applied, propagator, next_publish_deadline, published>>

\* A gap suspends the output, and drops a waiting correction unless the generations
\* are exhausted.
handleContinuityReset ==
    /\ suspended' = TRUE
    /\ advanceControlGeneration
    /\ pending_correction' = IF control_generation < MaxGeneration THEN None ELSE pending_correction

\* One round of the loop over the batch: a rejected sample ends it.
recordSample ==
    LET t == Head(worker.batch)
        disposition == Disposition(propagator, t)
        last == disposition = "rejected" \/ Len(worker.batch) = 1
    IN
    /\ worker.step = "record"
    /\ propagator' = validateAndRecordImu(propagator, t, ~worker.suspended)
    /\ IF disposition = "restarted" THEN handleContinuityReset
                                    ELSE UNCHANGED <<controlVars, pending_correction>>
    /\ worker' = [worker EXCEPT !.step = IF last THEN "take" ELSE "record",
                                !.batch = IF last THEN <<>> ELSE Tail(@),
                                !.suspended = ~last /\ (@ \/ disposition = "restarted"),
                                !.latest = IF disposition = "rejected" THEN @ ELSE t,
                                !.ok = disposition # "rejected"]
    /\ UNCHANGED <<requestVars, correction_requested, imu_ingress, producerVars,
                   last_applied, next_publish_deadline, published>>

\* After processPendingCorrection a cycle that drained samples goes on to publish.
AfterCorrection(applied) ==
    IF worker.imu THEN [worker EXCEPT !.step = "flush", !.correction = None, !.applied = applied]
                  ELSE At("idle")

takePendingCorrection ==
    /\ worker.step = "take"
    /\ pending_correction' = None
    /\ worker' = IF /\ pending_correction # None
                    /\ pending_correction.generation = control_generation
                    /\ main_valid
                    /\ ~rejectCorrectionNotNewerThanApplied(pending_correction)
                 THEN [worker EXCEPT !.step = "replay", !.correction = pending_correction]
                 ELSE AfterCorrection(0)
    /\ UNCHANGED <<controlVars, requestVars, correction_requested, imu_ingress, producerVars,
                   last_applied, propagator, next_publish_deadline, published>>

\* The rest of processPendingCorrection: the replay ran without mutex_, so whatever
\* the producers did meanwhile decides what becomes of its result.
finishReplay ==
    LET c == worker.correction
        undisturbed == /\ control_generation = c.generation /\ main_valid
                       /\ ~load_shed_requested /\ ~invalidation_requested
        newerPending == /\ pending_correction # None
                        /\ pending_correction.generation = c.generation
                        /\ Supersedes(pending_correction, c)
    IN
    /\ worker.step = "replay"
    /\ \E replay \in reanchorAndReplay(propagator, c) :
          \/ /\ undisturbed /\ replay.status = "ok" /\ ~newerPending
             /\ propagator' = replay.p
             /\ suspended' = FALSE
             /\ last_applied' = c
             /\ pending_correction' =
                    IF /\ pending_correction # None
                       /\ pending_correction.generation = c.generation
                       /\ ~(/\ pending_correction.sequence > c.sequence
                            /\ pending_correction.time > c.time)
                    THEN None ELSE pending_correction
             /\ worker' = AfterCorrection(c.time)
          \/ /\ undisturbed /\ replay.status = "ok" /\ newerPending
             /\ propagator' = setFailure(replay.p)
             /\ suspended' = TRUE
             /\ worker' = AfterCorrection(0)
             /\ UNCHANGED <<last_applied, pending_correction>>
          \/ /\ ~(undisturbed /\ replay.status = "ok")
             /\ propagator' = replay.p
             /\ pending_correction' =
                    IF /\ undisturbed /\ replay.status = "missing_end"
                       /\ Supersedes(c, pending_correction)
                    THEN c ELSE pending_correction
             /\ worker' = AfterCorrection(0)
             /\ UNCHANGED <<last_applied, suspended>>
    /\ UNCHANGED <<accepting, stop_requested, control_generation, requestVars,
                   correction_requested, imu_ingress, producerVars,
                   next_publish_deadline, published>>

\* A transition asked for since the cycle began.
TransitionPending ==
    load_shed_requested \/ invalidation_requested \/ control_generation # worker.generation

\* Mutant of flushAndAge: the age is looked at before the state is carried forward.
AgeBeforeFlush ==
    LET stale(p) == /\ ~TransitionPending /\ worker.ok
                    /\ p.history # {} /\ last_applied # None /\ kinematicEstimate(p) # None
                    /\ kinematicEstimate(p).time - last_applied.time > maximum_correction_age
    IN
    /\ worker.step = "flush"
    /\ \E flush \in IF /\ ~TransitionPending /\ ~suspended /\ worker.ok /\ worker.latest # 0
                       /\ worker.latest >= next_publish_deadline
                    THEN flushPendingPrediction(propagator)
                    ELSE {[ok |-> worker.ok, p |-> propagator]} :
          /\ propagator' = IF stale(propagator) THEN setFailure(flush.p) ELSE flush.p
          /\ worker' = [worker EXCEPT !.step = "recheck", !.ok = flush.ok /\ ~stale(propagator)]
    /\ UNCHANGED <<controlVars, requestVars, correctionVars, imu_ingress, producerVars,
                   last_applied, next_publish_deadline, published>>

\* The middle of processImuBatch: carry the state to the latest sample if a
\* publication is due, and refuse to go on from a correction that is too old.
flushAndAge ==
    /\ worker.step = "flush"
    /\ \E flush \in IF /\ ~TransitionPending /\ ~suspended /\ worker.ok /\ worker.latest # 0
                       /\ worker.latest >= next_publish_deadline
                    THEN flushPendingPrediction(propagator)
                    ELSE {[ok |-> worker.ok, p |-> propagator]} :
          LET stale == /\ ~TransitionPending /\ flush.ok
                       /\ propagator.history # {} /\ last_applied # None
                       /\ latest_imu_time(flush.p) - last_applied.time > maximum_correction_age
          IN
          /\ propagator' = IF stale THEN setFailure(flush.p) ELSE flush.p
          /\ worker' = [worker EXCEPT !.step = "recheck", !.ok = flush.ok /\ ~stale]
    /\ UNCHANGED <<controlVars, requestVars, correctionVars, imu_ingress, producerVars,
                   last_applied, next_publish_deadline, published>>

\* Mutant of recheckControl: the control channel is not looked at again.
NoRecheck ==
    /\ worker.step = "recheck"
    /\ worker' = IF /\ ~suspended /\ worker.ok /\ propagator.valid
                    /\ worker.latest # 0 /\ worker.latest > worker.applied
                 THEN [worker EXCEPT !.step = "publish"] ELSE At("idle")
    /\ UNCHANGED <<controlVars, requestVars, correctionVars, imu_ingress, producerVars,
                   last_applied, propagator, next_publish_deadline, published>>

\* "Recheck the control channel immediately before publication."
recheckControl ==
    /\ worker.step = "recheck"
    /\ worker' = IF /\ ~TransitionPending /\ main_valid
                    /\ pending_correction = None /\ ~correction_requested
                    /\ ~suspended /\ worker.ok /\ propagator.valid
                    /\ worker.latest # 0 /\ worker.latest > worker.applied
                 THEN [worker EXCEPT !.step = "publish"] ELSE At("idle")
    /\ UNCHANGED <<controlVars, requestVars, correctionVars, imu_ingress, producerVars,
                   last_applied, propagator, next_publish_deadline, published>>

\* The first deadline is the first sample's; the next ones keep its phase.
Deadline == IF next_publish_deadline = 0 THEN worker.latest ELSE next_publish_deadline
NextDeadline(t) == Deadline + publish_period * (((t - Deadline) \div publish_period) + 1)

\* The callback may throw; then the output is suspended until the next correction.
maybePublishOnImu ==
    LET estimate == kinematicEstimate(propagator)
        attempt == /\ ~stop_requested /\ pending_correction = None /\ ~correction_requested
                   /\ ~propagator.requires_reanchor
        due == /\ attempt /\ worker.latest >= Deadline
               /\ estimate # None
               /\ published # None => estimate.time > published.time
    IN
    /\ worker.step = "publish"
    /\ worker' = At("idle")
    /\ \/ /\ due
          /\ published' = [time |-> estimate.time, anchor |-> estimate.anchor,
                         generation |-> control_generation]
          /\ next_publish_deadline' = NextDeadline(worker.latest)
          /\ UNCHANGED suspended
       \/ /\ due
          /\ suspended' = TRUE
          /\ next_publish_deadline' = Deadline
          /\ UNCHANGED published
       \/ /\ ~due
          /\ next_publish_deadline' = IF attempt THEN Deadline ELSE next_publish_deadline
          /\ UNCHANGED <<suspended, published>>
    /\ UNCHANGED <<accepting, stop_requested, control_generation, requestVars, correctionVars,
                   imu_ingress, producerVars, last_applied, propagator>>

\* run()'s catch clauses: an exception in the middle of a cycle ends the thread.
runThrows ==
    /\ worker.step \in {"reset", "shed", "invalidate", "begin", "record", "take", "replay",
                        "flush", "recheck", "publish"}
    /\ accepting' = FALSE /\ stop_requested' = TRUE /\ suspended' = TRUE
    /\ imu_ingress' = <<>>
    /\ worker' = At("exited")
    /\ UNCHANGED <<control_generation, requestVars, correctionVars, producerVars,
                   last_applied, propagator, next_publish_deadline, published>>

WorkerStep ==
    \/ waitDecides \/ waitBlocks \/ runExits \/ drainIngress
    \/ takeReset \/ takeLoadShedding \/ takeInvalidation
    \/ beginBatch \/ recordSample \/ takePendingCorrection \/ finishReplay
    \/ flushAndAge \/ recheckControl \/ maybePublishOnImu

EstimatorUpdates ==
    \/ enqueueInvalidState
    \/ enqueueUncorrectedState
    \/ \E t \in Time : enqueueCorrectedState(t)

OdometryNext ==
    \/ \E t \in Time : enqueueImu(t)
    \/ requestLoadShedding \/ reset \/ stop
    \/ EstimatorUpdates
    \/ WorkerStep \/ runThrows

OdometrySpec == OdometryInit /\ [][OdometryNext]_odometryVars

----------------------------------------------------------------------------
(* Safety                                                                  *)

\* What is published was propagated from the correction the worker records as the
\* last one applied, and from no other: a replay whose result was dropped, because
\* the estimator or the load changed while it ran, is never published.
PublishesAppliedCorrection ==
    [][published' # published => published'.anchor = last_applied]_odometryVars

\* No published estimate is older than the correction age allows.
PublishedIsFresh ==
    published # None => published.time - published.anchor.time <= maximum_correction_age

\* Once the estimator was invalid, or samples were lost, at most the publication in
\* flight still comes from a correction made before: a second one never follows.
SupersededNotRepeated ==
    [][(published' # published /\ published # None)
         => published'.anchor.generation >= published.generation]_odometryVars

\* The worker never sleeps on work that was handed to it under mutex_: whoever
\* leaves a sample, a reset, an invalidation or a correction wakes it.  (A request
\* to shed load takes no lock, and may have to wait for the next sample.)
SleepsOnlyWhenIdle ==
    worker.step = "blocked" =>
        /\ imu_ingress = <<>>
        /\ ~reset_requested /\ ~invalidation_requested /\ ~correction_requested

=============================================================================
