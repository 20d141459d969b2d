----------------------------- MODULE ExternalMode -----------------------------
(***************************************************************************)
(* NavigationMode, the PX4 external mode: which certified command it       *)
(* executes, when it stops executing one, and how it hands over to PX4.    *)
(*                                                                         *)
(* Two threads share trajectory_mutex_.  The mode thread runs px4_ros2's   *)
(* callbacks, the command and mission callbacks and the executor of        *)
(* HoldHandover; the state-input thread runs the estimator and vehicle     *)
(* callbacks.  updateSetpoint and onNavigationCommand give the mutex back  *)
(* between their steps, so each of them is several actions; every other    *)
(* callback is one critical section, hence one action.                     *)
(*                                                                         *)
(* Time is abstracted: a check of a lease (the command's, the odometry's,  *)
(* the health's, the acquisition window's), and of a health sample's stamp *)
(* against the last one taken, may come out either way.  Only the recovery *)
(* window, which must end, has a state of its own.                         *)
(***************************************************************************)
EXTENDS HoldHandover

CONSTANTS
    None,
    MaxActivation,   \* the largest mode_activation_id_ (2^64 - 1 in the code)
    MaxEpoch,        \* the largest localization epoch (2^64 - 1 in the code)
    MaxRequest,      \* bound on the request ids of commands
    CommandKinds     \* the [status, role] pairs commands come with

ASSUME BoundsAssumption == {MaxActivation, MaxEpoch, MaxRequest} \subseteq Nat \ {0}

VARIABLES
    velocity_only,               \* tracking_experiment_.velocity_only_enabled, loaded once
    mode_active, mode_activation_id,
    failure_reported, handover_requested,
    mission_completion_receipt,  \* whether it is set
    navigation_command,
    health,                      \* "unseen", "unstamped", "invalid", or "valid" typed health
    lio_epoch,                   \* lio_localization_epoch_, 0 before the first sample
    odometry,                    \* whether odometry_ is set
    local_frame,                 \* the frame lio_to_px4_local_translation_ned_ maps, or 0
    planner_recovery,            \* "none", or the window: "open", "expired"
    planner_recovery_episode,    \* the command the window was opened for
    safety_hold_position,        \* the frame its coordinates are in, or 0
    completion_position,         \* likewise
    setpoint,                    \* the last setpoint PX4 was given
    update,                      \* the mode thread inside a callback
    estimator_epoch,             \* the frame the estimator publishes in
    left_frame_setpoints         \* history: the setpoints computed in another frame than
                                 \* lio_epoch that were published since it last changed

flagVars == <<mode_active, mode_activation_id, failure_reported, handover_requested,
              mission_completion_receipt>>
inputVars == <<health, lio_epoch, odometry, local_frame>>
recoveryVars == <<planner_recovery, planner_recovery_episode>>
positionVars == <<safety_hold_position, completion_position>>
modeVars == <<flagVars, navigation_command, inputVars, recoveryVars, positionVars>>
outputVars == <<setpoint, left_frame_setpoints>>
vars == <<executorVars, velocity_only, modeVars, outputVars, update, estimator_epoch>>

Frame == 0 .. MaxEpoch
Command == [activation: 1 .. MaxActivation, epoch: 1 .. MaxEpoch,
            request: 1 .. MaxRequest, kind: CommandKinds]

\* A setpoint: the frame its position is given in and the frame of the translation
\* applied to it (both 0 without a position).
Setpoint == [kind: {"none", "stationary", "hold", "tracking"}, frame: Frame, via: Frame]

\* What a callback of the mode thread keeps across the mutex.
Update == [pc: {"idle", "finishing", "health", "command"}, command: Command \cup {None},
           frame: Frame, via: Frame, inside: BOOLEAN]

ASSUME NoneAssumption == None \notin Command

Idle == [pc |-> "idle", command |-> None, frame |-> 0, via |-> 0, inside |-> FALSE]

\* Every variable has the type of the member it stands for.
TypeOK ==
    /\ ExecutorTypeOK
    /\ {velocity_only, mode_active, failure_reported, handover_requested,
        mission_completion_receipt, odometry} \subseteq BOOLEAN
    /\ mode_activation_id \in 0 .. MaxActivation
    /\ navigation_command \in Command \cup {None}
    /\ health \in {"unseen", "unstamped", "invalid", "valid"}
    /\ {lio_epoch, local_frame, safety_hold_position, completion_position} \subseteq Frame
    /\ planner_recovery \in {"none", "open", "expired"}
    /\ planner_recovery_episode \in 0 .. MaxRequest
    /\ setpoint \in Setpoint /\ left_frame_setpoints \in Nat
    /\ update \in Update
    /\ estimator_epoch \in 1 .. MaxEpoch

Init ==
    /\ ExecutorInit
    /\ velocity_only \in BOOLEAN
    /\ mode_active = FALSE /\ mode_activation_id = 0
    /\ failure_reported = FALSE /\ handover_requested = FALSE
    /\ mission_completion_receipt = FALSE
    /\ navigation_command = None
    /\ health = "unseen" /\ lio_epoch = 0 /\ odometry = FALSE
    /\ local_frame = 0
    /\ planner_recovery = "none" /\ planner_recovery_episode = 0
    /\ safety_hold_position = 0 /\ completion_position = 0
    /\ setpoint = [kind |-> "none", frame |-> 0, via |-> 0] /\ left_frame_setpoints = 0
    /\ update = Idle
    /\ estimator_epoch = 1

ModeThreadFree == update.pc = "idle"
Closed == failure_reported \/ handover_requested \/ mission_completion_receipt

Completed(c) == c.kind.status = "COMPLETED"

----------------------------------------------------------------------------
(* Stopping                                                                *)

stopVars == <<failure_reported, handover_requested, safety_hold_position,
              navigation_command, executorVars>>
stopFrame == <<velocity_only, mode_active, mode_activation_id, mission_completion_receipt,
               inputVars, completion_position, estimator_epoch>>

HandOver ==
    /\ handover_requested' = TRUE
    /\ safety_hold_position' = IF odometry THEN lio_epoch ELSE safety_hold_position
    /\ navigation_command' = None
    /\ schedulePx4Hold

\* safetyStopNavigation, failNavigation: the first call of an activation latches the
\* handover, drops the command and asks PX4 for Hold.
StopNavigation ==
    \/ failure_reported /\ UNCHANGED stopVars
    \/ ~failure_reported /\ failure_reported' = TRUE /\ HandOver

clearPlannerRecoveryEpisode ==
    planner_recovery' = "none" /\ planner_recovery_episode' = 0

\* One window per episode: a window that is open is not extended.
OpenPlannerRecovery(c) ==
    IF planner_recovery = "none"
      THEN planner_recovery' = "open" /\ planner_recovery_episode' = c.request
      ELSE UNCHANGED recoveryVars

----------------------------------------------------------------------------
(* Activation: px4_ros2 calls these when PX4's mode changes                *)

ActivationReset ==
    /\ navigation_command' = None
    /\ clearPlannerRecoveryEpisode
    /\ local_frame' = 0
    /\ safety_hold_position' = 0 /\ completion_position' = 0

onActivate ==
    /\ ModeThreadFree /\ ~mode_active
    /\ executor_active /\ nav_state = "external"
    /\ mode_active' = TRUE
    /\ failure_reported' = (mode_activation_id = MaxActivation)
    /\ mode_activation_id' = IF mode_activation_id < MaxActivation
                               THEN mode_activation_id + 1 ELSE mode_activation_id
    /\ handover_requested' = FALSE /\ mission_completion_receipt' = FALSE
    /\ ActivationReset
    /\ UNCHANGED <<executorVars, velocity_only, health, lio_epoch, odometry,
                   outputVars, update, estimator_epoch>>

onDeactivate ==
    /\ ModeThreadFree /\ mode_active
    /\ nav_state # "external"
    /\ mode_active' = FALSE /\ failure_reported' = TRUE
    /\ ActivationReset
    /\ UNCHANGED <<executorVars, velocity_only, mode_activation_id, handover_requested,
                   mission_completion_receipt, health, lio_epoch, odometry,
                   outputVars, update, estimator_epoch>>

----------------------------------------------------------------------------
(* Commands from the navigation runtime                                    *)

\* Mutant of assessCommandSessionIdentity: any activation is taken.
AnyActivation(c, same_session) ==
    /\ health = "valid" /\ c.epoch = lio_epoch
    /\ navigation_command # None =>
         same_session /\ c.request >= navigation_command.request

\* same_session: the mission, the goal epoch's identity and the world do not regress.
assessCommandSessionIdentity(c, same_session) ==
    /\ health = "valid" /\ c.epoch = lio_epoch
    /\ mode_activation_id # 0 => c.activation = mode_activation_id
    /\ navigation_command # None =>
         same_session /\ c.request >= navigation_command.request

\* Mutant of AdmissibleCommand: a command is taken after a stop or a handover.
AdmissibleWhenClosed(c) ==
    /\ ModeThreadFree
    /\ \E same_session \in BOOLEAN : assessCommandSessionIdentity(c, same_session)

\* A command within its lease, while authority is not closed, that belongs to the
\* session; the others are reported and change nothing.
AdmissibleCommand(c) ==
    /\ ModeThreadFree /\ ~Closed
    /\ \E same_session \in BOOLEAN : assessCommandSessionIdentity(c, same_session)

\* The odometry is missing or past its lease (failNavigation), or the vehicle is
\* outside the command's tracking envelope (safetyStopNavigation).  The envelope is
\* not assessed for a rejection.
RejectCommand(c) ==
    /\ AdmissibleCommand(c)
    /\ StopNavigation
    /\ UNCHANGED <<stopFrame, recoveryVars, outputVars, update>>

\* A sample newer than the command held; inside: its endpoint is within
\* kCommandAnchorErrorLimitM of the vehicle.
CommitCommand(c) ==
    /\ AdmissibleCommand(c)
    /\ odometry
    /\ navigation_command' = c
    /\ failure_reported' = FALSE
    /\ \E inside \in {FALSE, Completed(c)} :
         update' = [Idle EXCEPT !.pc = "finishing", !.command = c, !.inside = inside]
    /\ UNCHANGED <<executorVars, velocity_only, mode_active, mode_activation_id,
                   handover_requested, mission_completion_receipt, inputVars,
                   recoveryVars, positionVars, outputVars, estimator_epoch>>

RecoveryOf(c, inside) ==
    \/ /\ Completed(c) /\ ~inside
       /\ OpenPlannerRecovery(c)
    \/ /\ ~Completed(c) \/ (inside /\ c.kind.role # "EMERGENCY")
       /\ clearPlannerRecoveryEpisode
    \/ /\ Completed(c) /\ inside /\ c.kind.role = "EMERGENCY"
       /\ UNCHANGED recoveryVars

finishAcceptedCommand ==
    /\ update.pc = "finishing"
    /\ RecoveryOf(update.command, update.inside)
    /\ update' = Idle
    /\ UNCHANGED <<executorVars, velocity_only, flagVars, navigation_command, inputVars,
                   positionVars, outputVars, estimator_epoch>>

\* Mutant of updateBoundary: the deadline is compared the wrong way round.
BoundaryBeforeDeadline ==
    /\ ModeThreadFree /\ mode_active /\ ~Closed
    /\ planner_recovery = "open"
    /\ clearPlannerRecoveryEpisode
    /\ StopNavigation
    /\ UNCHANGED <<stopFrame, outputVars, update>>

\* The 50 ms boundary timer: a recovery window that ran out stops the navigation.
updateBoundary ==
    /\ ModeThreadFree /\ mode_active /\ ~Closed
    /\ planner_recovery = "expired"
    /\ clearPlannerRecoveryEpisode
    /\ StopNavigation
    /\ UNCHANGED <<stopFrame, outputVars, update>>

\* A COMPLETE receipt of this activation and frame, for the command held if any:
\* onOwnedModeCompleted will ask for Hold.
onMissionProgress ==
    /\ ModeThreadFree /\ mode_active /\ ~Closed
    /\ lio_epoch # 0
    /\ mission_completion_receipt' = TRUE /\ handover_requested' = TRUE
    /\ clearPlannerRecoveryEpisode
    /\ completion_position' = IF odometry \/ navigation_command # None
                                THEN lio_epoch ELSE completion_position
    /\ owned_completed' = (scheduled_mode = "owned")
    /\ UNCHANGED <<handoverVars, scheduled_mode, executor_active, nav_state, velocity_only,
                   mode_active, mode_activation_id, failure_reported, navigation_command,
                   inputVars, safety_hold_position, outputVars, update, estimator_epoch>>

----------------------------------------------------------------------------
(* The setpoint callback, between whose steps the mutex is free            *)

Published(kind, frame, via) ==
    setpoint' = [kind |-> kind, frame |-> frame, via |-> via]

\* What was published is computed in this frame.
ComputedIn(frame) ==
    left_frame_setpoints' = IF frame = lio_epoch THEN left_frame_setpoints
                                                 ELSE left_frame_setpoints + 1

\* publishStationary: the position if the snapshot's translation maps it, and zero
\* velocity in any case.
PublishStationary(position, via) ==
    Published("stationary", IF via # 0 THEN position ELSE 0, IF position # 0 THEN via ELSE 0)

\* lio_to_px4_local_translation_ned, taken only while PX4's position is fresh.
Translations == {0, local_frame}

\* The terminal stream: zero velocity at the position the stop, the completion or
\* the handover left.
TerminalPosition ==
    IF failure_reported THEN safety_hold_position
    ELSE IF mission_completion_receipt THEN completion_position
    ELSE IF safety_hold_position # 0 THEN safety_hold_position
    ELSE IF odometry THEN lio_epoch ELSE 0

TerminalSetpoint ==
    /\ ModeThreadFree /\ mode_active /\ Closed
    /\ \E via \in Translations :
         /\ PublishStationary(TerminalPosition, via)
         /\ IF TerminalPosition # 0 /\ via = 0 THEN StopNavigation ELSE UNCHANGED stopVars
    /\ UNCHANGED <<stopFrame, recoveryVars, left_frame_setpoints, update>>

\* Disarmed, on the ground or without odometry.
GroundedSetpoint ==
    /\ ModeThreadFree /\ mode_active /\ ~Closed
    /\ PublishStationary(0, 0)
    /\ UNCHANGED <<executorVars, velocity_only, modeVars, left_frame_setpoints, update,
                   estimator_epoch>>

\* In the air with an odometry past its lease.
OdometryStale ==
    /\ ModeThreadFree /\ mode_active /\ ~Closed
    /\ odometry
    /\ StopNavigation
    /\ UNCHANGED <<stopFrame, recoveryVars, outputVars, update>>

\* In the air: the callback goes on with this snapshot.
AirborneSetpoint ==
    /\ ModeThreadFree /\ mode_active /\ ~Closed
    /\ odometry
    /\ \E via \in Translations :
         update' = [Idle EXCEPT !.pc = "health", !.command = navigation_command,
                                !.frame = lio_epoch, !.via = via]
    /\ UNCHANGED <<executorVars, velocity_only, modeVars, outputVars, estimator_epoch>>

\* The health gate: without a stamp, invalid, or past its lease.  The wait for a first
\* sample is not reached in the air, since odometry is only taken after one.
HealthRefused ==
    /\ update.pc = "health"
    /\ StopNavigation
    /\ update' = Idle
    /\ UNCHANGED <<stopFrame, recoveryVars, outputVars>>

HealthPassed ==
    /\ update.pc = "health" /\ health = "valid"
    /\ update' = [update EXCEPT !.pc = "command"]
    /\ UNCHANGED <<executorVars, velocity_only, modeVars, outputVars, estimator_epoch>>

\* No command: hold for the acquisition window after takeoff,
AcquireSetpoint ==
    /\ update.pc = "command" /\ update.command = None
    /\ PublishStationary(update.frame, update.via) /\ ComputedIn(update.frame)
    /\ update' = Idle
    /\ UNCHANGED <<executorVars, velocity_only, modeVars, estimator_epoch>>

\* then stop.
AcquisitionOver ==
    /\ update.pc = "command" /\ update.command = None
    /\ StopNavigation
    /\ update' = Idle
    /\ UNCHANGED <<stopFrame, recoveryVars, outputVars>>

\* A completed command outlives its lease while its recovery window is open.
RecoveryWindowOpen(c) ==
    Completed(c) /\ planner_recovery = "open" /\ planner_recovery_episode = c.request

\* A command past its lease, a rejection, or one PX4 cannot represent.
RefusedSetpoint ==
    /\ update.pc = "command" /\ update.command # None
    /\ \/ ~RecoveryWindowOpen(update.command)
       \/ update.via = 0 /\ ~velocity_only
    /\ StopNavigation
    /\ update' = Idle
    /\ UNCHANGED <<stopFrame, recoveryVars, outputVars>>

\* The endpoint of a completed command is held; off it, a recovery window opens.
HoldSetpoint ==
    /\ update.pc = "command" /\ update.command # None
    /\ Completed(update.command)
    /\ ~velocity_only /\ update.via # 0
    /\ Published("hold", update.command.epoch, update.via)
    /\ ComputedIn(update.command.epoch)
    /\ \E anchored \in BOOLEAN :
         IF update.command.kind.role # "EMERGENCY" /\ ~anchored
           THEN OpenPlannerRecovery(update.command)
           ELSE UNCHANGED recoveryVars
    /\ update' = Idle
    /\ UNCHANGED <<executorVars, velocity_only, flagVars, navigation_command, inputVars,
                   positionVars, estimator_epoch>>

\* Only a velocity, of a READY command.
publishVelocityOnlySetpoint ==
    /\ velocity_only
    /\ update.command.kind.status = "READY"
    /\ Published("tracking", 0, 0)

\* The position, velocity and acceleration of the command, or its velocity alone.
TrackingSetpoint ==
    /\ update.pc = "command" /\ update.command # None
    /\ \/ /\ ~velocity_only /\ update.via # 0
          /\ update.command.kind.status \in {"READY", "BRAKING"}
          /\ Published("tracking", update.command.epoch, update.via)
       \/ publishVelocityOnlySetpoint
    /\ ComputedIn(update.command.epoch)
    /\ update' = Idle
    /\ UNCHANGED <<executorVars, velocity_only, modeVars, estimator_epoch>>

\* The adapter, the continuity limit or the command's status refuses a velocity;
\* this handover reports no failure.
requestVelocityOnlyHold ==
    /\ update.pc = "command" /\ update.command # None
    /\ velocity_only
    /\ update.command.kind.status # "REJECTED"
    /\ HandOver
    /\ update' = Idle
    /\ UNCHANGED <<stopFrame, failure_reported, recoveryVars, outputVars>>

updateSetpointReturns ==
    \/ HealthRefused \/ HealthPassed
    \/ AcquireSetpoint \/ AcquisitionOver \/ RefusedSetpoint
    \/ HoldSetpoint \/ TrackingSetpoint \/ requestVelocityOnlyHold

updateSetpoint ==
    \/ TerminalSetpoint \/ GroundedSetpoint \/ OdometryStale \/ AirborneSetpoint
    \/ updateSetpointReturns

----------------------------------------------------------------------------
(* The state-input thread                                                  *)

inputFrame == <<executorVars, velocity_only, flagVars, recoveryVars, positionVars,
                setpoint, update, estimator_epoch>>

\* publishTypedHealth reads the epoch, then publishes, in the correction's thread and in
\* the propagation's with no lock in common, and the sample is delivered later still:
\* it carries any epoch the estimator has had.
HealthEpochs == 1 .. estimator_epoch

\* Mutant of onNewFrame: the command survives the frame it is planned in.
CommandKeptAcrossFrames ==
    odometry' = FALSE /\ local_frame' = 0 /\ UNCHANGED navigation_command

onNewFrame ==
    navigation_command' = None /\ odometry' = FALSE /\ local_frame' = 0

\* A sample stamped after last_lio_diagnostics_ns_ (others change nothing).  The stamp
\* is that of the scan or of the propagated state, so it does not order the frames: a
\* sample of a frame already left is taken as a change of frame like any other.
onEstimatorHealth(e, healthy) ==
    /\ e \in HealthEpochs
    /\ health' = IF healthy THEN "valid" ELSE "invalid"
    /\ lio_epoch' = e
    /\ left_frame_setpoints' = IF e = lio_epoch THEN left_frame_setpoints ELSE 0
    /\ IF lio_epoch \notin {0, e}
         THEN onNewFrame
         ELSE UNCHANGED <<navigation_command, odometry, local_frame>>
    /\ UNCHANGED inputFrame

\* A sample without a usable stamp invalidates the health.
onUnstampedHealth ==
    /\ health' = "unstamped"
    /\ UNCHANGED <<inputFrame, left_frame_setpoints, navigation_command, lio_epoch, odometry,
                   local_frame>>

\* tryAlignPx4LocalFrameLocked: both sources stationary and close to each other.
Alignments(from, sampled) ==
    {from} \cup (IF from = 0 /\ mode_active /\ sampled THEN {lio_epoch} ELSE {})

\* A sample of the current frame, newer than the one held.
onOdometry ==
    /\ health = "valid"
    /\ odometry' = TRUE
    /\ local_frame' \in Alignments(local_frame, TRUE)
    /\ UNCHANGED <<inputFrame, left_frame_setpoints, navigation_command, health, lio_epoch>>

\* A position or altitude reset of PX4's own estimator drops the alignment.
onPx4LocalPosition ==
    /\ \E from \in {0, local_frame} : local_frame' \in Alignments(from, odometry)
    /\ UNCHANGED <<inputFrame, left_frame_setpoints, navigation_command, health, lio_epoch,
                   odometry>>

StateInput ==
    \/ \E e \in 1 .. MaxEpoch, healthy \in BOOLEAN : onEstimatorHealth(e, healthy)
    \/ onUnstampedHealth
    \/ onOdometry
    \/ onPx4LocalPosition

----------------------------------------------------------------------------
(* Time, the estimator and PX4                                             *)

\* The mode thread reads the clock when a callback starts.
RecoveryWindowExpires ==
    /\ ModeThreadFree
    /\ planner_recovery = "open"
    /\ planner_recovery' = "expired"
    /\ UNCHANGED <<executorVars, velocity_only, flagVars, navigation_command, inputVars,
                   planner_recovery_episode, positionVars, outputVars, update, estimator_epoch>>

\* LioPublicFrameGeneration: a discontinuity advances the generation, which stays where
\* it is once it is exhausted.
observe ==
    estimator_epoch' = IF estimator_epoch < MaxEpoch THEN estimator_epoch + 1 ELSE estimator_epoch

\* A result of a later pipeline generation is about to be published.  (A restarted
\* estimator, whose seed is later than any epoch it had, does the same.)
EstimatorResets ==
    /\ observe
    /\ UNCHANGED <<executorVars, velocity_only, modeVars, outputVars, update>>

\* Mutant of checkArmingAndRunConditions: a completion receipt waives the handover.
ReceiptWaivesHandover(late) ==
    /\ mode_active /\ ~mission_completion_receipt
    /\ handover_requested \/ ~odometry \/ health # "valid" \/ late

\* The run conditions reported to PX4 fail; late: a lease or the acquisition window
\* has run out.
checkArmingAndRunConditions(late) ==
    /\ mode_active
    /\ \/ handover_requested
       \/ /\ ~mission_completion_receipt
          /\ ~odometry \/ health # "valid" \/ late

modeUnchanged == UNCHANGED <<velocity_only, modeVars, outputVars, update, estimator_epoch>>

\* PX4's mode fallback, or an operator, takes the vehicle from the executor.
Px4Fallback(late) ==
    ModeThreadFree /\ checkArmingAndRunConditions(late) /\ executorOnDeactivate /\ modeUnchanged

OperatorTakeover == ModeThreadFree /\ executorOnDeactivate /\ modeUnchanged

Px4Selects == ModeThreadFree /\ ~mode_active /\ executorOnActivate /\ modeUnchanged

ExecutorStep == ModeThreadFree /\ ExecutorCallback /\ modeUnchanged

Px4Step == (RetryPeriodElapses \/ Px4EntersHold) /\ modeUnchanged

Next ==
    \/ onActivate \/ onDeactivate
    \/ \E c \in Command : RejectCommand(c) \/ CommitCommand(c)
    \/ finishAcceptedCommand
    \/ updateBoundary \/ onMissionProgress
    \/ updateSetpoint
    \/ StateInput
    \/ RecoveryWindowExpires \/ EstimatorResets
    \/ \E late \in BOOLEAN : Px4Fallback(late)
    \/ OperatorTakeover \/ Px4Selects \/ ExecutorStep \/ Px4Step

Spec == Init /\ [][Next]_vars

\* A callback that has started returns.  The mode thread takes its ready callbacks in
\* turn, so one that is ready between two others again and again is run; deadlines
\* pass, and PX4 answers requests and acts on run conditions it is told have failed.
Fairness ==
    /\ WF_vars(finishAcceptedCommand)
    /\ WF_vars(updateSetpointReturns)
    /\ SF_vars(updateBoundary)
    /\ SF_vars(onDeactivate)
    /\ SF_vars(RecoveryWindowExpires)
    /\ SF_vars(Px4Fallback(FALSE))
    /\ SF_vars(ModeThreadFree /\ onVehicleStatus /\ modeUnchanged)
    /\ SF_vars(ModeThreadFree /\ checkHoldHandover /\ modeUnchanged)
    /\ SF_vars(ModeThreadFree /\ HoldAnswered /\ modeUnchanged)
    /\ WF_vars(Px4Step)

FairSpec == Spec /\ Fairness

----------------------------------------------------------------------------
(* Properties                                                              *)

\* The command held for execution is of the current activation and of the frame the
\* estimator's health last announced, and none is held after a reported failure.
StoredCommandIsCurrent ==
    navigation_command # None =>
      /\ navigation_command.epoch = lio_epoch
      /\ mode_activation_id # 0 => navigation_command.activation = mode_activation_id
      /\ ~failure_reported

\* updateSetpoint may publish a command, or a position to acquire one at, of a frame
\* that health has left since its snapshot.  It does so once: as long as the frame does
\* not change again, every later callback, identical setpoints included, is computed in
\* the frame the mode is in.
OldFrameNotRepeated == left_frame_setpoints <= 1

\* While the mode is active and the executor in charge, a handover that was asked
\* for is being pursued until the attempts are used up.
HandoverPursued ==
    /\ mode_active /\ executor_active /\ handover_requested /\ nav_state = "external"
    /\ hold_handover_attempts < kMaxPx4HoldHandoverAttempts
    => hold_handover_pending \/ scheduled_mode = "loiter" \/ owned_completed

Authority == INSTANCE SetpointAuthority WITH
    authority <- IF ~mode_active THEN "px4"
                 ELSE IF Closed THEN "released"
                 ELSE IF navigation_command = None THEN "acquiring" ELSE "tracking",
    activation <- mode_activation_id,
    frame <- lio_epoch,
    owner <- IF mode_active /\ ~Closed /\ navigation_command # None
               THEN [activation |-> navigation_command.activation,
                     frame |-> navigation_command.epoch]
               ELSE None

\* The mode's flags, its command and the callbacks of both threads implement the
\* authority PX4 relies on: one activation, one frame, and no way back from released.
AuthorityImplemented == Authority!AuthoritySpec

\* A recovery window ends: with another command, the mission's completion, a
\* handover or the end of the activation.
RecoveryWindowCloses ==
    (mode_active /\ planner_recovery # "none") ~> (~mode_active \/ planner_recovery = "none" \/ Closed)

\* A pending hold request is settled: granted, withdrawn, or given up for PX4's
\* fallback.
HandoverSettles == hold_handover_pending ~> ~hold_handover_pending

\* A mode that has asked to hand over is released by PX4, also after the mission's
\* completion.
HandoverReleases == (mode_active /\ handover_requested) ~> ~mode_active

\* A position PX4 is asked to hold is mapped by the translation of its own frame.
PositionsInTheirFrame == setpoint.frame = setpoint.via

=============================================================================
