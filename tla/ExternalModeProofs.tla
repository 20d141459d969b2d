-------------------------- MODULE ExternalModeProofs --------------------------
(***************************************************************************)
(* Proofs about NavigationMode for every bound, command kind and number of *)
(* handover attempts: the command it holds, the frame of what it           *)
(* publishes, the pursuit of a handover, and that it implements            *)
(* SetpointAuthority.                                                      *)
(***************************************************************************)
EXTENDS ExternalMode, TLAPS

\* The command and what it is matched against, of which StoredCommandIsCurrent is
\* inductive.
CommandInv ==
    /\ lio_epoch \in Frame
    /\ mode_activation_id \in 0 .. MaxActivation
    /\ navigation_command \in Command \cup {None}
    /\ mode_active => mode_activation_id # 0
    /\ StoredCommandIsCurrent

----------------------------------------------------------------------------
(* What a step may do to the command and the flags                         *)

commandVars == <<lio_epoch, navigation_command, flagVars>>

Stopped ==
    /\ UNCHANGED <<lio_epoch, mode_active, mode_activation_id, mission_completion_receipt>>
    /\ handover_requested' = TRUE /\ navigation_command' = None
    /\ failure_reported' \in {TRUE, failure_reported}

CommandMoves ==
    \/ UNCHANGED commandVars
    \/ Stopped
    \/ onActivate \/ onDeactivate \/ onMissionProgress
    \/ \E c \in Command : CommitCommand(c)
    \/ \E e \in 1 .. MaxEpoch, healthy \in BOOLEAN : onEstimatorHealth(e, healthy)

\* A stop of either kind leaves the command and the flags alone or takes them down.
LEMMA StopMoves ==
    ASSUME StopNavigation, UNCHANGED stopFrame
    PROVE  UNCHANGED commandVars \/ Stopped
  BY ZenonT(60) DEF StopNavigation, HandOver, stopVars, stopFrame, inputVars, commandVars, flagVars, Stopped

\* Only the activation, a command, a completed mission and the estimator's health do
\* more than that.
LEMMA MovesOfNext == ASSUME [Next]_vars PROVE CommandMoves
<1>1. CASE Next
  <2>1. CASE \E c \in Command : RejectCommand(c) \/ CommitCommand(c)
    BY Zenon, <2>1, StopMoves DEF RejectCommand, CommandMoves
  <2>2. CASE updateBoundary
    BY Zenon, <2>2, StopMoves DEF updateBoundary, CommandMoves
  <2>3. CASE TerminalSetpoint
    <3>1. StopNavigation \/ UNCHANGED stopVars
      BY Zenon, <2>3 DEF TerminalSetpoint
    <3>2. UNCHANGED stopFrame
      BY Zenon, <2>3 DEF TerminalSetpoint
    <3>3. CASE UNCHANGED stopVars
      BY Zenon, <3>2, <3>3 DEF stopVars, stopFrame, inputVars, CommandMoves, commandVars, flagVars
    <3> QED
      BY Zenon, <3>1, <3>2, <3>3, StopMoves DEF CommandMoves
  <2>4. CASE OdometryStale \/ HealthRefused \/ AcquisitionOver \/ RefusedSetpoint
    BY Zenon, <2>4, StopMoves DEF OdometryStale, HealthRefused, AcquisitionOver, RefusedSetpoint,
                           CommandMoves
  <2>5. CASE requestVelocityOnlyHold
    BY Zenon, <2>5 DEF requestVelocityOnlyHold, HandOver, stopFrame, inputVars, Stopped, CommandMoves
  <2>6. CASE \/ finishAcceptedCommand \/ GroundedSetpoint \/ AirborneSetpoint
             \/ HealthPassed \/ AcquireSetpoint \/ HoldSetpoint \/ TrackingSetpoint
    BY ZenonT(60), <2>6 DEF finishAcceptedCommand, GroundedSetpoint, AirborneSetpoint,
                HealthPassed, AcquireSetpoint, HoldSetpoint, TrackingSetpoint, modeVars,
                inputVars, CommandMoves, commandVars
  <2>7. CASE onUnstampedHealth \/ onOdometry \/ onPx4LocalPosition
    BY ZenonT(60), <2>7 DEF onUnstampedHealth, onOdometry, onPx4LocalPosition, inputFrame, CommandMoves,
                commandVars
  <2>8. CASE RecoveryWindowExpires \/ EstimatorResets
    BY Zenon, <2>8 DEF RecoveryWindowExpires, EstimatorResets, modeVars, inputVars, CommandMoves,
                commandVars
  <2>9. CASE modeUnchanged
    BY Zenon, <2>9 DEF modeUnchanged, modeVars, inputVars, CommandMoves, commandVars
  <2>10. CASE \/ onActivate \/ onDeactivate \/ onMissionProgress
              \/ \E e \in 1 .. MaxEpoch, healthy \in BOOLEAN : onEstimatorHealth(e, healthy)
    BY Zenon, <2>10 DEF CommandMoves
  <2> QED
    BY Zenon, <1>1, <2>1, <2>2, <2>3, <2>4, <2>5, <2>6, <2>7, <2>8, <2>9, <2>10
    DEF Next, updateSetpoint, updateSetpointReturns, StateInput, Px4Fallback, OperatorTakeover,
        Px4Selects, ExecutorStep, Px4Step
<1>2. CASE UNCHANGED vars
  BY Zenon, <1>2 DEF vars, modeVars, inputVars, CommandMoves, commandVars
<1> QED
  BY Zenon, <1>1, <1>2

----------------------------------------------------------------------------
(* The command held                                                        *)

LEMMA CommandStep == ASSUME CommandInv, CommandMoves PROVE CommandInv'
<1> USE BoundsAssumption, NoneAssumption DEF CommandInv, StoredCommandIsCurrent
<1>1. CASE UNCHANGED commandVars
  BY Zenon, <1>1 DEF commandVars, flagVars
<1>2. CASE Stopped
  BY Zenon, <1>2 DEF Stopped
<1>3. CASE onActivate
  <2>1. navigation_command' = None /\ lio_epoch' = lio_epoch
    BY Zenon, <1>3 DEF onActivate, ActivationReset
  <2>2. mode_activation_id' \in 1 .. MaxActivation
    BY <1>3 DEF onActivate
  <2> QED
    BY <2>1, <2>2
<1>4. CASE onDeactivate
  BY Zenon, <1>4 DEF onDeactivate, ActivationReset
<1>5. CASE onMissionProgress
  BY Zenon, <1>5 DEF onMissionProgress, inputVars
<1>6. ASSUME NEW c \in Command, CommitCommand(c) PROVE CommandInv'
  BY Zenon, <1>6 DEF CommitCommand, AdmissibleCommand, assessCommandSessionIdentity, inputVars
<1>7. ASSUME NEW e \in 1 .. MaxEpoch, NEW healthy \in BOOLEAN, onEstimatorHealth(e, healthy)
      PROVE  CommandInv'
  <2>1. /\ lio_epoch' = e
        /\ UNCHANGED flagVars
        /\ navigation_command' = None \/ (lio_epoch \in {0, e} /\ UNCHANGED navigation_command)
    BY Zenon, <1>7 DEF onEstimatorHealth, onNewFrame, inputFrame
  <2>2. lio_epoch = 0 => navigation_command = None
    BY DEF Command
  <2> QED
    BY <2>1, <2>2 DEF flagVars, Frame
<1> QED
  BY Zenon, <1>1, <1>2, <1>3, <1>4, <1>5, <1>6, <1>7 DEF CommandMoves

\* The flags, the activation and the command NavigationMode holds, in every behaviour.
THEOREM CommandInvariant == Spec => []CommandInv
<1>1. Init => CommandInv
  <2>1. 0 \in Frame /\ 0 \in 0 .. MaxActivation
    BY BoundsAssumption DEF Frame
  <2> QED
    BY Zenon, <2>1 DEF Init, CommandInv, StoredCommandIsCurrent
<1>2. CommandInv /\ [Next]_vars => CommandInv'
  BY Zenon, CommandStep, MovesOfNext
<1> QED
  BY <1>1, <1>2, PTL DEF Spec

\* onNavigationCommand only ever leaves navigation_command_ a command of this
\* activation and of the frame of the last health sample, whatever the other callbacks do.
THEOREM StoredCommandAlwaysCurrent == Spec => []StoredCommandIsCurrent
  BY CommandInvariant, PTL DEF CommandInv

----------------------------------------------------------------------------
(* The authority implemented                                               *)

\* What the mapping reads; a step that leaves it alone is a stutter of the authority.
LEMMA AuthorityStutters ==
    ASSUME UNCHANGED commandVars
    PROVE  UNCHANGED Authority!authorityVars
  BY Zenon DEF commandVars, flagVars, Closed, Authority!authorityVars

LEMMA AuthorityStep ==
    ASSUME CommandInv, CommandMoves
    PROVE  [Authority!AuthorityNext]_(Authority!authorityVars)
<1> USE DEF Authority!AuthorityNext, Authority!authorityVars, Closed
<1>1. CASE UNCHANGED commandVars
  BY Zenon, <1>1, AuthorityStutters
<1>2. CASE Stopped
  <2>1. CASE mode_active /\ ~Closed
    <3>1. Authority!Release
      BY Zenon, <1>2, <2>1 DEF Stopped, Authority!Release
    <3> QED
      BY Zenon, <3>1
  <2>2. CASE ~mode_active \/ Closed
    BY Zenon, <1>2, <2>2 DEF Stopped
  <2> QED
    BY Zenon, <2>1, <2>2
<1>3. CASE onActivate
  <2>1. /\ ~mode_active /\ mode_active' /\ navigation_command' = None
        /\ ~handover_requested' /\ ~mission_completion_receipt'
        /\ lio_epoch' = lio_epoch
        /\ failure_reported' = (mode_activation_id = MaxActivation)
    BY Zenon, <1>3 DEF onActivate, ActivationReset
  <2>2. \/ /\ mode_activation_id < MaxActivation /\ mode_activation_id # MaxActivation
           /\ mode_activation_id' = mode_activation_id + 1
        \/ /\ mode_activation_id = MaxActivation
           /\ mode_activation_id' = mode_activation_id
    BY <1>3, BoundsAssumption DEF onActivate, CommandInv
  <2>3. Authority!Grant
    BY ZenonT(60), <2>1, <2>2 DEF Authority!Grant
  <2> QED
    BY Zenon, <2>3
<1>4. CASE onDeactivate
  <2>1. /\ mode_active /\ ~mode_active'
        /\ UNCHANGED <<mode_activation_id, lio_epoch>>
    BY Zenon, <1>4 DEF onDeactivate
  <2>2. Authority!Revoke
    BY Zenon, <2>1 DEF Authority!Revoke
  <2> QED
    BY Zenon, <2>2
<1>5. CASE onMissionProgress
  <2>1. /\ mode_active /\ ~Closed /\ mode_active' /\ handover_requested'
        /\ UNCHANGED <<mode_activation_id, lio_epoch>>
    BY Zenon, <1>5 DEF onMissionProgress, inputVars
  <2>2. Authority!Release
    BY Zenon, <2>1 DEF Authority!Release
  <2> QED
    BY Zenon, <2>2
<1>6. ASSUME NEW c \in Command, CommitCommand(c)
      PROVE  [Authority!AuthorityNext]_(Authority!authorityVars)
  <2>1. /\ navigation_command' = c /\ c # None /\ ~Closed /\ ~Closed'
        /\ UNCHANGED <<mode_active, mode_activation_id, lio_epoch>>
    BY Zenon, <1>6, NoneAssumption DEF CommitCommand, AdmissibleCommand, inputVars
  <2>2. /\ c.epoch = lio_epoch
        /\ mode_active => c.activation = mode_activation_id
    BY Zenon, <1>6 DEF CommitCommand, AdmissibleCommand, assessCommandSessionIdentity, CommandInv
  <2>3. CASE mode_active
    <3>1. Authority!Accept
      BY Zenon, <2>1, <2>2, <2>3 DEF Authority!Accept
    <3> QED
      BY Zenon, <3>1
  <2>4. CASE ~mode_active
    BY Zenon, <2>1, <2>4
  <2> QED
    BY Zenon, <2>3, <2>4
<1>7. ASSUME NEW e \in 1 .. MaxEpoch, NEW healthy \in BOOLEAN, onEstimatorHealth(e, healthy)
      PROVE  [Authority!AuthorityNext]_(Authority!authorityVars)
  <2>1. /\ lio_epoch' = e /\ UNCHANGED flagVars
        /\ \/ lio_epoch \notin {0, e} /\ navigation_command' = None
           \/ lio_epoch \in {0, e} /\ UNCHANGED navigation_command
    BY Zenon, <1>7 DEF onEstimatorHealth, onNewFrame, inputFrame
  <2>2. CASE lio_epoch = e
    BY Zenon, <2>1, <2>2, AuthorityStutters DEF commandVars
  <2>3. CASE lio_epoch # e
    <3>1. e \in Nat \ {0, lio_epoch}
      BY <1>7, <2>3, BoundsAssumption
    <3>2. lio_epoch = 0 => navigation_command = None
      BY BoundsAssumption DEF CommandInv, StoredCommandIsCurrent, Command
    <3>3. navigation_command' = None
      BY Zenon, <2>1, <2>3, <3>2
    <3>4. Authority!NewFrame
      BY Zenon, <2>1, <3>1, <3>3 DEF Authority!NewFrame, flagVars
    <3> QED
      BY Zenon, <3>4
  <2> QED
    BY Zenon, <2>2, <2>3
<1> QED
  BY Zenon, <1>1, <1>2, <1>3, <1>4, <1>5, <1>6, <1>7 DEF CommandMoves

\* NavigationMode, with its two threads and the executor, implements the authority:
\* an activation executes only its own commands of the current frame, and none after
\* it has given the vehicle up.
THEOREM ModeImplementsAuthority == Spec => AuthorityImplemented
<1>1. Init => Authority!AuthorityInit
  BY Zenon DEF Init, Authority!AuthorityInit
<1>2. CommandInv /\ [Next]_vars => [Authority!AuthorityNext]_(Authority!authorityVars)
  BY Zenon, AuthorityStep, MovesOfNext
<1> QED
  BY <1>1, <1>2, CommandInvariant, PTL DEF Spec, AuthorityImplemented, Authority!AuthoritySpec

----------------------------------------------------------------------------
(* What a step may do to the frame, the history and the callback under way *)

outputFrame == <<lio_epoch, left_frame_setpoints>>

CallbackMoves ==
    \/ UNCHANGED outputFrame /\ (UNCHANGED update \/ update'.pc = "idle")
    \/ /\ UNCHANGED outputFrame
       /\ update'.pc = "finishing" /\ update'.command \in Command
    \/ /\ UNCHANGED outputFrame
       /\ update'.pc = "health" /\ update'.frame = lio_epoch
       /\ update'.command = navigation_command
    \/ /\ UNCHANGED outputFrame
       /\ update.pc = "health" /\ update'.pc = "command"
       /\ update'.frame = update.frame /\ update'.command = update.command
    \/ /\ UNCHANGED lio_epoch
       /\ update.pc = "command" /\ update'.pc = "idle"
       /\ \/ ComputedIn(update.frame)
          \/ update.command # None /\ ComputedIn(update.command.epoch)
    \/ /\ UNCHANGED update
       /\ lio_epoch' # lio_epoch /\ left_frame_setpoints' = 0

LEMMA IdlePc == Idle.pc = "idle"
  BY Zenon DEF Idle

LEMMA CallbackMovesOfNext ==
    ASSUME update \in Update, [Next]_vars
    PROVE  CallbackMoves
<1> USE DEF outputFrame
<1>1. CASE Next
  <2>1. CASE updateSetpoint
    <3>1. CASE TerminalSetpoint
      BY Zenon, <3>1 DEF TerminalSetpoint, stopFrame, inputVars, CallbackMoves
    <3>2. CASE GroundedSetpoint
      BY Zenon, <3>2 DEF GroundedSetpoint, modeVars, inputVars, CallbackMoves
    <3>3. CASE OdometryStale \/ HealthRefused \/ AcquisitionOver \/ RefusedSetpoint
      <4>1. UNCHANGED <<stopFrame, outputVars>> /\ (UNCHANGED update \/ update' = Idle)
        BY Zenon, <3>3 DEF OdometryStale, HealthRefused, AcquisitionOver, RefusedSetpoint
      <4> QED
        BY Zenon, <4>1, IdlePc DEF stopFrame, inputVars, outputVars, CallbackMoves
    <3>4. CASE requestVelocityOnlyHold
      BY Zenon, <3>4 DEF requestVelocityOnlyHold, stopFrame, inputVars, outputVars, Idle, CallbackMoves
    <3>5. CASE AirborneSetpoint
      BY Zenon, <3>5 DEF AirborneSetpoint, modeVars, inputVars, outputVars, Idle, CallbackMoves
    <3>6. CASE HealthPassed
      BY Zenon, <3>6 DEF HealthPassed, Update, modeVars, inputVars, outputVars, CallbackMoves
    <3>7. CASE AcquireSetpoint
      BY Zenon, <3>7 DEF AcquireSetpoint, modeVars, inputVars, Idle, CallbackMoves
    <3>8. CASE HoldSetpoint \/ TrackingSetpoint
      <4>1. /\ UNCHANGED lio_epoch /\ update' = Idle
            /\ update.pc = "command" /\ update.command # None
            /\ ComputedIn(update.command.epoch)
        BY Zenon, <3>8 DEF HoldSetpoint, TrackingSetpoint, modeVars, inputVars
      <4> QED
        BY Zenon, <4>1 DEF Idle, CallbackMoves
    <3> QED
      BY Zenon, <2>1, <3>1, <3>2, <3>3, <3>4, <3>5, <3>6, <3>7, <3>8
      DEF updateSetpoint, updateSetpointReturns
  <2>2. ASSUME NEW c \in Command, CommitCommand(c) PROVE CallbackMoves
    BY Zenon, <2>2 DEF CommitCommand, inputVars, outputVars, Idle, CallbackMoves
  <2>3. CASE \/ \E c \in Command : RejectCommand(c)
             \/ onActivate \/ onDeactivate \/ finishAcceptedCommand \/ updateBoundary
             \/ onMissionProgress
    <3>1. UNCHANGED <<lio_epoch, outputVars>> /\ (UNCHANGED update \/ update' = Idle)
      BY ZenonT(60), <2>3 DEF RejectCommand, onActivate, onDeactivate, finishAcceptedCommand,
                  updateBoundary, onMissionProgress, stopFrame, inputVars
    <3> QED
      BY Zenon, <3>1, IdlePc DEF outputVars, CallbackMoves
  <2>4. ASSUME NEW e \in 1 .. MaxEpoch, NEW healthy \in BOOLEAN, onEstimatorHealth(e, healthy)
        PROVE  CallbackMoves
    BY Zenon, <2>4 DEF onEstimatorHealth, inputFrame, CallbackMoves
  <2>5. CASE \/ onUnstampedHealth \/ onOdometry \/ onPx4LocalPosition
             \/ RecoveryWindowExpires \/ EstimatorResets
    BY ZenonT(60), <2>5 DEF onUnstampedHealth, onOdometry, onPx4LocalPosition, inputFrame,
                RecoveryWindowExpires, EstimatorResets, modeVars, inputVars, outputVars, CallbackMoves
  <2>6. CASE modeUnchanged
    BY Zenon, <2>6 DEF modeUnchanged, modeVars, inputVars, outputVars, CallbackMoves
  <2> QED
    BY Zenon, <1>1, <2>1, <2>2, <2>3, <2>4, <2>5, <2>6
    DEF Next, StateInput, Px4Fallback, OperatorTakeover, Px4Selects, ExecutorStep, Px4Step
<1>2. CASE UNCHANGED vars
  BY Zenon, <1>2 DEF vars, modeVars, inputVars, outputVars, CallbackMoves
<1> QED
  BY Zenon, <1>1, <1>2

----------------------------------------------------------------------------
(* Types                                                                   *)

\* The executor's scheduling keeps its types: the attempts are counted up to the limit.
LEMMA ScheduleTypes ==
    ASSUME ExecutorTypeOK, schedulePx4Hold
    PROVE  ExecutorTypeOK'
<1>1. hold_handover_attempts' \in 0 .. kMaxPx4HoldHandoverAttempts
  BY AttemptsAssumption
  DEF ExecutorTypeOK, schedulePx4Hold, ScheduleLoiter, shouldRetryPx4HoldHandover
<1>2. /\ hold_handover_pending' \in BOOLEAN /\ hold_handover_in_flight' \in BOOLEAN
      /\ owned_completed' \in BOOLEAN
      /\ scheduled_mode' \in {"none", "owned", "loiter"}
  BY Zenon DEF ExecutorTypeOK, schedulePx4Hold, ScheduleLoiter
<1>3. UNCHANGED <<px4_hold_confirmed, hold_retry_due, executor_active, nav_state>>
  BY Zenon DEF schedulePx4Hold
<1> QED
  BY Zenon, <1>1, <1>2, <1>3 DEF ExecutorTypeOK

LEMMA ExecutorTypes ==
    ASSUME ExecutorTypeOK,
           ExecutorCallback \/ executorOnActivate \/ executorOnDeactivate
             \/ RetryPeriodElapses \/ Px4EntersHold
    PROVE  ExecutorTypeOK'
<1>1. CASE onVehicleStatus \/ HoldAnswered
  <2>1. /\ px4_hold_confirmed' \in BOOLEAN /\ hold_handover_pending' \in BOOLEAN
        /\ hold_handover_in_flight' \in BOOLEAN /\ hold_retry_due' \in BOOLEAN
    BY <1>1, Zenon DEF ExecutorTypeOK, onVehicleStatus, HoldAnswered, onPx4HoldHandoverCompleted
  <2>2. /\ UNCHANGED <<hold_handover_attempts, owned_completed, executor_active, nav_state>>
        /\ scheduled_mode' \in {scheduled_mode, "none"}
    BY Zenon, <1>1 DEF onVehicleStatus, HoldAnswered, onPx4HoldHandoverCompleted, px4Vars
  <2> QED
    BY Zenon, <2>1, <2>2 DEF ExecutorTypeOK
<1>2. CASE checkHoldHandover \/ onOwnedModeCompleted
  BY Zenon, <1>2, ScheduleTypes DEF checkHoldHandover, onOwnedModeCompleted
<1>3. CASE executorOnActivate \/ executorOnDeactivate
  <2>1. 0 \in 0 .. kMaxPx4HoldHandoverAttempts
    BY AttemptsAssumption
  <2> QED
    BY ZenonT(60), <1>3, <2>1 DEF ExecutorTypeOK, executorOnActivate, executorOnDeactivate, Released
<1>4. CASE RetryPeriodElapses \/ Px4EntersHold
  BY <1>4, Zenon DEF ExecutorTypeOK, RetryPeriodElapses, Px4EntersHold, handoverVars, px4Vars
<1> QED
  BY Zenon, <1>1, <1>2, <1>3, <1>4 DEF ExecutorCallback

LEMMA StopTypes ==
    ASSUME TypeOK, StopNavigation \/ (HandOver /\ UNCHANGED failure_reported)
    PROVE  /\ ExecutorTypeOK'
           /\ failure_reported' \in BOOLEAN /\ handover_requested' \in BOOLEAN
           /\ navigation_command' \in Command \cup {None}
           /\ safety_hold_position' \in Frame
<1>1. CASE failure_reported /\ UNCHANGED stopVars
  BY Zenon, <1>1 DEF TypeOK, ExecutorTypeOK, stopVars, executorVars, handoverVars, px4Vars
<1>2. CASE HandOver /\ failure_reported' \in {TRUE, failure_reported}
  <2>1. ExecutorTypeOK'
    BY Zenon, <1>2, ScheduleTypes DEF HandOver, TypeOK
  <2>2. /\ failure_reported' \in BOOLEAN /\ handover_requested' \in BOOLEAN
        /\ navigation_command' \in Command \cup {None}
    BY ZenonT(60), <1>2 DEF HandOver, TypeOK
  <2>3. safety_hold_position' \in Frame
    BY Zenon, <1>2 DEF HandOver, TypeOK
  <2> QED
    BY Zenon, <2>1, <2>2, <2>3
<1> QED
  BY ZenonT(60), <1>1, <1>2 DEF StopNavigation

LEMMA IdleTyped == Idle \in Update
  BY BoundsAssumption DEF Idle, Update, Frame

\* A step that leaves the mode alone.
LEMMA ModeUnchangedTypes ==
    ASSUME TypeOK, modeUnchanged, ExecutorTypeOK'
    PROVE  TypeOK'
  BY Zenon DEF TypeOK, modeUnchanged, modeVars, flagVars, inputVars, recoveryVars, positionVars,
                outputVars

\* A stop, with the recovery, the setpoint and the callback it leaves.
LEMMA StopFrameTypes ==
    ASSUME TypeOK, StopNavigation \/ (HandOver /\ UNCHANGED failure_reported),
           UNCHANGED stopFrame,
           planner_recovery' \in {"none", "open", "expired"},
           planner_recovery_episode' \in 0 .. MaxRequest,
           setpoint' \in Setpoint, UNCHANGED left_frame_setpoints, update' \in Update
    PROVE  TypeOK'
  BY Zenon, StopTypes DEF TypeOK, stopFrame, inputVars

LEMMA PublishedTypes ==
    ASSUME TypeOK, NEW kind \in {"stationary", "hold", "tracking"},
           NEW position \in Frame, NEW via \in Frame, Published(kind, position, via)
    PROVE  setpoint' \in Setpoint
  BY Zenon DEF TypeOK, Published, Setpoint

LEMMA StationaryTypes ==
    ASSUME TypeOK, NEW position \in Frame, NEW via \in Frame, PublishStationary(position, via)
    PROVE  setpoint' \in Setpoint
  BY Zenon, BoundsAssumption DEF TypeOK, PublishStationary, Published, Setpoint, Frame

LEMMA ComputedInTypes ==
    ASSUME TypeOK, NEW frame, ComputedIn(frame)
    PROVE  left_frame_setpoints' \in Nat
  BY DEF TypeOK, ComputedIn

LEMMA SetpointTypes == ASSUME TypeOK, updateSetpoint PROVE TypeOK'
<1> USE DEF recoveryVars, outputVars
<1>0. update \in Update /\ setpoint \in Setpoint /\ 0 \in Frame
  BY BoundsAssumption DEF TypeOK, Frame
<1>1. CASE TerminalSetpoint
  <2>1. TerminalPosition \in Frame
    BY Zenon, <1>0 DEF TypeOK, TerminalPosition
  <2>2. Translations \subseteq Frame
    BY Zenon, <1>0 DEF TypeOK, Translations
  <2>3. setpoint' \in Setpoint /\ update' \in Update
    BY Zenon, <1>0, <1>1, <2>1, <2>2, StationaryTypes DEF TerminalSetpoint
  <2>4. CASE UNCHANGED stopVars
    BY Zenon, <1>1, <2>3, <2>4
    DEF TypeOK, ExecutorTypeOK, TerminalSetpoint, stopVars, stopFrame, inputVars, executorVars,
        handoverVars, px4Vars
  <2>5. CASE StopNavigation
    <3>1. /\ UNCHANGED stopFrame /\ UNCHANGED planner_recovery
          /\ UNCHANGED planner_recovery_episode /\ UNCHANGED left_frame_setpoints
      BY Zenon, <1>1 DEF TerminalSetpoint
    <3>2. /\ planner_recovery' \in {"none", "open", "expired"}
          /\ planner_recovery_episode' \in 0 .. MaxRequest
      BY Zenon, <3>1 DEF TypeOK
    <3> QED
      BY Zenon, <2>3, <2>5, <3>1, <3>2, StopFrameTypes
  <2> QED
    BY Zenon, <1>1, <2>4, <2>5 DEF TerminalSetpoint
<1>2. CASE \/ OdometryStale \/ HealthRefused \/ AcquisitionOver \/ RefusedSetpoint
           \/ requestVelocityOnlyHold
  <2>1. /\ StopNavigation \/ (HandOver /\ UNCHANGED failure_reported)
        /\ UNCHANGED stopFrame /\ UNCHANGED recoveryVars /\ UNCHANGED outputVars
        /\ update' = update \/ update' = Idle
    <3>1. CASE requestVelocityOnlyHold
      BY Zenon, <3>1 DEF requestVelocityOnlyHold
    <3>2. CASE OdometryStale
      BY Zenon, <3>2 DEF OdometryStale
    <3>3. CASE HealthRefused \/ AcquisitionOver \/ RefusedSetpoint
      BY Zenon, <3>3 DEF HealthRefused, AcquisitionOver, RefusedSetpoint
    <3> QED
      BY Zenon, <1>2, <3>1, <3>2, <3>3
  <2>2. /\ planner_recovery' \in {"none", "open", "expired"}
        /\ planner_recovery_episode' \in 0 .. MaxRequest
    BY Zenon, <2>1 DEF TypeOK
  <2>3. setpoint' \in Setpoint /\ update' \in Update
    BY Zenon, <1>0, <2>1, IdleTyped
  <2> QED
    BY Zenon, <2>1, <2>2, <2>3, StopFrameTypes
<1>3. CASE GroundedSetpoint \/ AcquireSetpoint \/ TrackingSetpoint
  <2>1. setpoint' \in Setpoint
    <3>1. CASE GroundedSetpoint
      BY Zenon, <1>0, <3>1, StationaryTypes DEF GroundedSetpoint
    <3>2. CASE AcquireSetpoint
      BY Zenon, <1>0, <3>2, StationaryTypes DEF AcquireSetpoint, Update
    <3>3. CASE TrackingSetpoint
      <4>1. update.frame \in Frame /\ update.via \in Frame
        BY Zenon, <1>0 DEF Update
      <4>2. update.command.epoch \in Frame
        BY <1>0, <3>3, BoundsAssumption DEF TrackingSetpoint, publishVelocityOnlySetpoint, Update, Command, Frame
      <4> QED
        BY Zenon, <1>0, <3>3, <4>1, <4>2, PublishedTypes DEF TrackingSetpoint, publishVelocityOnlySetpoint
    <3> QED
      BY Zenon, <1>3, <3>1, <3>2, <3>3
  <2>2. update' \in Update
    BY Zenon, <1>0, <1>3, IdleTyped DEF GroundedSetpoint, AcquireSetpoint, TrackingSetpoint
  <2>3. UNCHANGED <<executorVars, velocity_only, modeVars, estimator_epoch>>
    BY Zenon, <1>3 DEF GroundedSetpoint, AcquireSetpoint, TrackingSetpoint
  <2>4. left_frame_setpoints' \in Nat
    <3>1. CASE GroundedSetpoint
      BY Zenon, <3>1 DEF GroundedSetpoint, TypeOK
    <3>2. CASE AcquireSetpoint \/ TrackingSetpoint
      BY Zenon, <3>2, ComputedInTypes DEF AcquireSetpoint, TrackingSetpoint
    <3> QED
      BY Zenon, <1>3, <3>1, <3>2
  <2> QED
    BY Zenon, <2>1, <2>2, <2>3, <2>4
    DEF TypeOK, ExecutorTypeOK, executorVars, handoverVars, px4Vars, modeVars, flagVars, inputVars,
        positionVars
<1>4. CASE AirborneSetpoint \/ HealthPassed
  <2>1. update' \in Update
    <3>1. CASE AirborneSetpoint
      <4>1. PICK via \in Translations :
              update' = [Idle EXCEPT !.pc = "health", !.command = navigation_command,
                                     !.frame = lio_epoch, !.via = via]
        BY ZenonT(60), <3>1 DEF AirborneSetpoint
      <4>2. via \in Frame /\ lio_epoch \in Frame /\ navigation_command \in Command \cup {None}
        BY Zenon, <1>0 DEF TypeOK, Translations
      <4> QED
        BY ZenonT(60), <4>1, <4>2 DEF Update, Idle
    <3>2. CASE HealthPassed
      BY Zenon, <1>0, <3>2 DEF HealthPassed, Update
    <3> QED
      BY Zenon, <1>4, <3>1, <3>2
  <2>2. UNCHANGED <<executorVars, velocity_only, modeVars, outputVars, estimator_epoch>>
    BY ZenonT(60), <1>4 DEF AirborneSetpoint, HealthPassed
  <2> QED
    BY Zenon, <2>1, <2>2
    DEF TypeOK, ExecutorTypeOK, executorVars, handoverVars, px4Vars, modeVars, flagVars, inputVars,
        positionVars
<1>5. CASE HoldSetpoint
  <2>1. /\ update.via \in Frame /\ update.command.epoch \in Frame
        /\ update.command.request \in 0 .. MaxRequest
    BY <1>0, <1>5, BoundsAssumption DEF HoldSetpoint, Update, Command, Frame
  <2>2. setpoint' \in Setpoint /\ update' \in Update
    BY Zenon, <1>5, <2>1, PublishedTypes, IdleTyped DEF HoldSetpoint
  <2>3. /\ planner_recovery' \in {"none", "open", "expired"}
        /\ planner_recovery_episode' \in 0 .. MaxRequest
    BY Zenon, <1>5, <2>1 DEF HoldSetpoint, OpenPlannerRecovery, TypeOK
  <2>4. UNCHANGED <<executorVars, velocity_only, flagVars, navigation_command, inputVars,
                    positionVars, estimator_epoch>>
    BY Zenon, <1>5 DEF HoldSetpoint
  <2>5. left_frame_setpoints' \in Nat
    BY Zenon, <1>5, ComputedInTypes DEF HoldSetpoint
  <2> QED
    BY Zenon, <2>2, <2>3, <2>4, <2>5
    DEF TypeOK, ExecutorTypeOK, executorVars, handoverVars, px4Vars, flagVars, inputVars,
        positionVars
<1> QED
  BY Zenon, <1>1, <1>2, <1>3, <1>4, <1>5 DEF updateSetpoint, updateSetpointReturns

\* finishAcceptedCommand runs with the command just stored.
FinishingHasCommand == update.pc = "finishing" => update.command \in Command

LEMMA TypeStep == ASSUME TypeOK, FinishingHasCommand, [Next]_vars PROVE TypeOK'
<1> USE DEF flagVars, inputVars, recoveryVars, positionVars, outputVars
<1>0. update \in Update /\ setpoint \in Setpoint /\ 0 \in Frame
  BY BoundsAssumption DEF TypeOK, Frame
<1>1. CASE onActivate
  <2>1. mode_activation_id' \in 0 .. MaxActivation /\ 0 \in 0 .. MaxRequest
    BY <1>1, BoundsAssumption DEF onActivate, TypeOK
  <2>2. failure_reported' \in BOOLEAN
    BY <1>1, Zenon DEF onActivate
  <2> QED
    BY ZenonT(60), <1>0, <1>1, <2>1, <2>2
    DEF TypeOK, ExecutorTypeOK, onActivate, ActivationReset, clearPlannerRecoveryEpisode,
        executorVars, handoverVars, px4Vars
<1>2. CASE onDeactivate
  <2>1. 0 \in 0 .. MaxRequest
    BY BoundsAssumption
  <2> QED
    BY ZenonT(60), <1>0, <1>2, <2>1
    DEF TypeOK, ExecutorTypeOK, onDeactivate, ActivationReset, clearPlannerRecoveryEpisode,
        executorVars, handoverVars, px4Vars
<1>3. ASSUME NEW c \in Command, RejectCommand(c) PROVE TypeOK'
  <2>1. /\ StopNavigation /\ UNCHANGED stopFrame /\ UNCHANGED recoveryVars
        /\ UNCHANGED outputVars /\ UNCHANGED update
    BY Zenon, <1>3 DEF RejectCommand
  <2>2. /\ planner_recovery' \in {"none", "open", "expired"}
        /\ planner_recovery_episode' \in 0 .. MaxRequest
    BY Zenon, <2>1 DEF TypeOK
  <2> QED
    BY Zenon, <1>0, <2>1, <2>2, StopFrameTypes
<1>4. ASSUME NEW c \in Command, CommitCommand(c) PROVE TypeOK'
  <2>1. PICK inside \in {FALSE, Completed(c)} :
          update' = [Idle EXCEPT !.pc = "finishing", !.command = c, !.inside = inside]
    BY ZenonT(60), <1>4 DEF CommitCommand
  <2>2. inside \in BOOLEAN
    BY Zenon DEF Completed
  <2>3. update' \in Update
    BY ZenonT(60), <1>0, <2>1, <2>2 DEF Update, Idle
  <2> QED
    BY ZenonT(60), <1>4, <2>3
    DEF TypeOK, ExecutorTypeOK, CommitCommand, executorVars, handoverVars, px4Vars
<1>5. CASE finishAcceptedCommand
  <2>1. update.command \in Command /\ RecoveryOf(update.command, update.inside)
    BY Zenon, <1>5 DEF finishAcceptedCommand, FinishingHasCommand
  <2>2. update.command.request \in 0 .. MaxRequest /\ 0 \in 0 .. MaxRequest
    BY <2>1, BoundsAssumption DEF Command
  <2>3. /\ planner_recovery' \in {"none", "open", "expired"}
        /\ planner_recovery_episode' \in 0 .. MaxRequest
    BY Zenon, <2>1, <2>2 DEF RecoveryOf, OpenPlannerRecovery, clearPlannerRecoveryEpisode, TypeOK
  <2>4. update' \in Update
    BY Zenon, <1>5, IdleTyped DEF finishAcceptedCommand
  <2> QED
    BY Zenon, <1>5, <2>3, <2>4
    DEF TypeOK, ExecutorTypeOK, finishAcceptedCommand, executorVars, handoverVars, px4Vars
<1>6. CASE updateBoundary
  <2>1. /\ StopNavigation /\ UNCHANGED stopFrame
        /\ UNCHANGED outputVars /\ UNCHANGED update
        /\ planner_recovery' = "none" /\ planner_recovery_episode' = 0
    BY Zenon, <1>6 DEF updateBoundary, clearPlannerRecoveryEpisode
  <2>2. planner_recovery_episode' \in 0 .. MaxRequest
    BY SMTT(30), <2>1, BoundsAssumption
  <2> QED
    BY Zenon, <1>0, <2>1, <2>2, StopFrameTypes
<1>7. CASE onMissionProgress
  <2>1. planner_recovery' = "none" /\ planner_recovery_episode' \in 0 .. MaxRequest
    BY SMTT(30), <1>7, BoundsAssumption DEF onMissionProgress, clearPlannerRecoveryEpisode
  <2>2. completion_position' \in Frame
    BY Zenon, <1>7 DEF onMissionProgress, TypeOK
  <2>3. owned_completed' \in BOOLEAN
    BY <1>7, Zenon DEF onMissionProgress
  <2> QED
    BY Zenon, <1>7, <2>1, <2>2, <2>3 DEF TypeOK, ExecutorTypeOK, onMissionProgress, handoverVars
<1>8. CASE updateSetpoint
  BY Zenon, <1>8, SetpointTypes
<1>9. CASE StateInput
  <2>1. UNCHANGED inputFrame
    BY ZenonT(60), <1>9 DEF StateInput, onEstimatorHealth, onUnstampedHealth, onOdometry, onPx4LocalPosition
  <2>2. /\ health' \in {"unseen", "unstamped", "invalid", "valid"}
        /\ navigation_command' \in Command \cup {None}
    BY ZenonT(60), <1>9 DEF StateInput, onEstimatorHealth, onNewFrame, onUnstampedHealth, onOdometry,
                onPx4LocalPosition, TypeOK
  <2>3. odometry' \in BOOLEAN
    BY <1>9, Zenon DEF StateInput, onEstimatorHealth, onNewFrame, onUnstampedHealth, onOdometry,
                onPx4LocalPosition, TypeOK
  <2>4. lio_epoch' \in Frame
    <3>1. lio_epoch' = lio_epoch \/ lio_epoch' \in 1 .. MaxEpoch
      BY ZenonT(60), <1>9 DEF StateInput, onEstimatorHealth, onUnstampedHealth, onOdometry, onPx4LocalPosition
    <3> QED
      BY <3>1, BoundsAssumption DEF TypeOK, Frame
  <2>5. local_frame' \in Frame
    BY Zenon, <1>0, <1>9 DEF StateInput, onEstimatorHealth, onNewFrame, onUnstampedHealth, onOdometry,
                onPx4LocalPosition, Alignments, TypeOK
  <2>6. left_frame_setpoints' \in Nat
    <3>1. left_frame_setpoints' \in {left_frame_setpoints, 0}
      BY ZenonT(60), <1>9 DEF StateInput, onEstimatorHealth, onUnstampedHealth, onOdometry, onPx4LocalPosition
    <3> QED
      BY <3>1 DEF TypeOK
  <2> QED
    BY Zenon, <2>1, <2>2, <2>3, <2>4, <2>5, <2>6
    DEF TypeOK, ExecutorTypeOK, inputFrame, executorVars, handoverVars, px4Vars
<1>10. CASE RecoveryWindowExpires
  BY Zenon, <1>10 DEF TypeOK, ExecutorTypeOK, RecoveryWindowExpires, executorVars, handoverVars, px4Vars
<1>11. CASE EstimatorResets
  <2>1. estimator_epoch' \in 1 .. MaxEpoch
    BY <1>11, BoundsAssumption DEF EstimatorResets, observe, TypeOK
  <2> QED
    BY Zenon, <1>11, <2>1
    DEF TypeOK, ExecutorTypeOK, EstimatorResets, modeVars, executorVars, handoverVars, px4Vars
<1>12. CASE \/ \E late \in BOOLEAN : Px4Fallback(late)
            \/ OperatorTakeover \/ Px4Selects \/ ExecutorStep \/ Px4Step
  <2>1. /\ modeUnchanged
        /\ \/ ExecutorCallback \/ executorOnActivate \/ executorOnDeactivate
           \/ RetryPeriodElapses \/ Px4EntersHold
    BY Zenon, <1>12 DEF Px4Fallback, OperatorTakeover, Px4Selects, ExecutorStep, Px4Step
  <2> QED
    BY Zenon, <2>1, ExecutorTypes, ModeUnchangedTypes DEF TypeOK
<1>13. CASE UNCHANGED vars
  BY Zenon, <1>13 DEF TypeOK, ExecutorTypeOK, vars, modeVars, executorVars, handoverVars, px4Vars
<1> QED
  BY Zenon, <1>1, <1>2, <1>3, <1>4, <1>5, <1>6, <1>7, <1>8, <1>9, <1>10, <1>11, <1>12, <1>13 DEF Next

LEMMA FinishingStep ==
    ASSUME FinishingHasCommand, CallbackMoves
    PROVE  FinishingHasCommand'
  BY Zenon DEF FinishingHasCommand, CallbackMoves

\* Every variable of NavigationMode and its executor keeps its type, the count of hold
\* attempts and the activation id their bounds.
THEOREM TypeCorrect == Spec => []TypeOK
<1>1. Init => TypeOK /\ FinishingHasCommand
  <2>1. /\ 0 \in Frame /\ 0 \in 0 .. MaxActivation /\ 0 \in 0 .. MaxRequest
        /\ 1 \in 1 .. MaxEpoch /\ 0 \in 0 .. kMaxPx4HoldHandoverAttempts /\ 0 \in Nat
    BY BoundsAssumption, AttemptsAssumption DEF Frame
  <2>2. ASSUME Init PROVE setpoint \in Setpoint
    BY Zenon, <2>1, <2>2 DEF Init, Setpoint
  <2>3. ASSUME Init PROVE ExecutorTypeOK
    BY ZenonT(60), <2>1, <2>3 DEF Init, ExecutorInit, ExecutorTypeOK
  <2>4. ASSUME Init PROVE TypeOK
    BY ZenonT(60), <2>1, <2>2, <2>3, <2>4, IdleTyped DEF Init, TypeOK
  <2>5. ASSUME Init PROVE FinishingHasCommand
    BY Zenon, <2>5 DEF Init, FinishingHasCommand, Idle
  <2> QED
    BY Zenon, <2>4, <2>5
<1>2. TypeOK /\ FinishingHasCommand /\ [Next]_vars => (TypeOK /\ FinishingHasCommand)'
  <2> SUFFICES ASSUME TypeOK, FinishingHasCommand, [Next]_vars
               PROVE  TypeOK' /\ FinishingHasCommand'
    BY Zenon
  <2>1. CallbackMoves
    BY Zenon, CallbackMovesOfNext DEF TypeOK
  <2> QED
    BY Zenon, <2>1, TypeStep, FinishingStep
<1> QED
  BY <1>1, <1>2, PTL DEF Spec

----------------------------------------------------------------------------
(* The frame of what is published                                          *)

\* A callback under way is in the frame of its command.  Once a setpoint of another
\* frame was published, it is a later callback, which took its snapshot in this frame.
SnapshotInv ==
    /\ left_frame_setpoints \in {0, 1}
    /\ update.pc \in {"health", "command"} =>
         /\ left_frame_setpoints = 1 => update.frame = lio_epoch
         /\ update.command # None => update.command.epoch = update.frame

LEMMA SnapshotStep ==
    ASSUME CommandInv, SnapshotInv, CallbackMoves
    PROVE  SnapshotInv'
<1> USE DEF SnapshotInv, outputFrame
<1>1. CASE UNCHANGED outputFrame /\ (UNCHANGED update \/ update'.pc = "idle")
  BY Zenon, <1>1
<1>2. CASE /\ UNCHANGED outputFrame
           /\ update'.pc = "finishing" /\ update'.command \in Command
  BY Zenon, <1>2
<1>3. CASE /\ UNCHANGED outputFrame
           /\ update'.pc = "health" /\ update'.frame = lio_epoch
           /\ update'.command = navigation_command
  BY Zenon, <1>3 DEF CommandInv, StoredCommandIsCurrent
<1>4. CASE /\ UNCHANGED outputFrame
           /\ update.pc = "health" /\ update'.pc = "command"
           /\ update'.frame = update.frame /\ update'.command = update.command
  BY Zenon, <1>4
<1>5. CASE /\ UNCHANGED lio_epoch
           /\ update.pc = "command" /\ update'.pc = "idle"
           /\ \/ ComputedIn(update.frame)
              \/ update.command # None /\ ComputedIn(update.command.epoch)
  <2>1. ComputedIn(update.frame)
    BY Zenon, <1>5
  <2>2. left_frame_setpoints' = left_frame_setpoints \/ left_frame_setpoints = 0
    BY Zenon, <1>5, <2>1 DEF ComputedIn
  <2>3. left_frame_setpoints' \in {left_frame_setpoints, left_frame_setpoints + 1}
    BY Zenon, <2>1 DEF ComputedIn
  <2>4. left_frame_setpoints' \in {0, 1}
    BY <2>2, <2>3
  <2> QED
    BY Zenon, <1>5, <2>4
<1>6. CASE /\ UNCHANGED update
           /\ lio_epoch' # lio_epoch /\ left_frame_setpoints' = 0
  <2>1. left_frame_setpoints' # 1
    BY <1>6
  <2> QED
    BY Zenon, <1>6, <2>1
<1> QED
  BY Zenon, <1>1, <1>2, <1>3, <1>4, <1>5, <1>6 DEF CallbackMoves

\* updateSetpoint gives the mutex back between its snapshot and its publication, and
\* health may move the mode to another frame, or back, in between: of the setpoints it
\* sends until the next such move at most one, the first, is of another frame.
THEOREM LeftFrameNotRepeated == Spec => []OldFrameNotRepeated
<1>1. Init => SnapshotInv
  BY DEF Init, SnapshotInv, Idle
<1>2. TypeOK /\ CommandInv /\ SnapshotInv /\ [Next]_vars => SnapshotInv'
  BY Zenon, CallbackMovesOfNext, SnapshotStep DEF TypeOK
<1>3. SnapshotInv => OldFrameNotRepeated
  BY DEF SnapshotInv, OldFrameNotRepeated
<1> QED
  BY <1>1, <1>2, <1>3, TypeCorrect, CommandInvariant, PTL DEF Spec

----------------------------------------------------------------------------
(* The pursuit of a handover                                               *)

\* While PX4 flies the external mode the executor has a request with PX4, is to make
\* one, has the owned mode to complete, or has used up its attempts.
ExecutorEngaged ==
    executor_active /\ nav_state = "external" =>
      \/ scheduled_mode \in {"owned", "loiter"}
      \/ hold_handover_pending
      \/ ~(hold_handover_attempts < kMaxPx4HoldHandoverAttempts)

PursuitInv == ExecutorEngaged /\ HandoverPursued

\* Whatever schedulePx4Hold decides, the handover is pursued or the attempts are used up.
LEMMA SchedulePursues ==
    ASSUME schedulePx4Hold
    PROVE  ExecutorEngaged' /\ HandoverPursued'
  BY Zenon DEF schedulePx4Hold, ScheduleLoiter, shouldRetryPx4HoldHandover, ExecutorEngaged,
         HandoverPursued

LEMMA PursuitStep == ASSUME TypeOK, PursuitInv, [Next]_vars PROVE PursuitInv'
<1> USE DEF PursuitInv
<1>1. CASE UNCHANGED executorVars /\ UNCHANGED <<mode_active, handover_requested>>
  BY Zenon, <1>1 DEF ExecutorEngaged, HandoverPursued, executorVars, handoverVars, px4Vars
<1>2. CASE StopNavigation /\ UNCHANGED mode_active
  BY Zenon, <1>1, <1>2, SchedulePursues DEF StopNavigation, HandOver, stopVars
<1>3. CASE HandOver
  BY Zenon, <1>3, SchedulePursues DEF HandOver
<1>4. CASE onActivate \/ onDeactivate
  BY Zenon, <1>4 DEF onActivate, onDeactivate, ExecutorEngaged, HandoverPursued, executorVars,
              handoverVars, px4Vars
<1>5. CASE onMissionProgress
  BY ZenonT(60), <1>5 DEF onMissionProgress, ExecutorEngaged, HandoverPursued, handoverVars
<1>6. CASE modeUnchanged /\ (checkHoldHandover \/ onOwnedModeCompleted)
  BY Zenon, <1>6, SchedulePursues DEF checkHoldHandover, onOwnedModeCompleted
<1>7. CASE modeUnchanged /\ (onVehicleStatus \/ HoldAnswered)
  <2>1. /\ UNCHANGED <<mode_active, handover_requested, executor_active, nav_state,
                       hold_handover_attempts, owned_completed>>
        /\ \/ scheduled_mode' = scheduled_mode
           \/ scheduled_mode = "loiter" /\ (nav_state = "external" => hold_handover_pending')
    BY ZenonT(60), <1>7 DEF modeUnchanged, modeVars, flagVars, onVehicleStatus, HoldAnswered,
                onPx4HoldHandoverCompleted, px4Vars
  <2>2. \/ nav_state = "external" /\ hold_handover_pending => hold_handover_pending'
        \/ scheduled_mode = "loiter"
    BY ZenonT(60), <1>7 DEF onVehicleStatus, HoldAnswered, onPx4HoldHandoverCompleted
  <2> QED
    BY Zenon, <2>1, <2>2 DEF ExecutorEngaged, HandoverPursued
<1>8. CASE modeUnchanged /\ ((executorOnActivate /\ ~mode_active) \/ executorOnDeactivate)
  BY Zenon, <1>8 DEF modeUnchanged, modeVars, flagVars, executorOnActivate, executorOnDeactivate, Released,
              ExecutorEngaged, HandoverPursued
<1>9. CASE modeUnchanged /\ (RetryPeriodElapses \/ Px4EntersHold)
  BY <1>9 DEF modeUnchanged, modeVars, flagVars, RetryPeriodElapses, Px4EntersHold,
              ExecutorEngaged, HandoverPursued, handoverVars, px4Vars
<1> QED
  <2>1. CASE UNCHANGED vars
    BY Zenon, <1>1, <2>1 DEF vars, modeVars, flagVars
  <2>2. CASE \/ \E c \in Command : CommitCommand(c)
             \/ finishAcceptedCommand \/ StateInput \/ RecoveryWindowExpires \/ EstimatorResets
    BY ZenonT(60), <1>1, <2>2
    DEF CommitCommand, finishAcceptedCommand, StateInput, onEstimatorHealth, onUnstampedHealth,
        onOdometry, onPx4LocalPosition, inputFrame, RecoveryWindowExpires, EstimatorResets,
        modeVars, flagVars
  <2>3. CASE updateBoundary \/ \E c \in Command : RejectCommand(c)
    BY Zenon, <1>2, <2>3 DEF updateBoundary, RejectCommand, stopFrame
  <2>4. CASE updateSetpoint
    <3>1. CASE \/ GroundedSetpoint \/ AirborneSetpoint \/ HealthPassed
               \/ AcquireSetpoint \/ HoldSetpoint \/ TrackingSetpoint
      BY ZenonT(60), <1>1, <3>1 DEF GroundedSetpoint, AirborneSetpoint, HealthPassed,
                        AcquireSetpoint, HoldSetpoint, TrackingSetpoint, modeVars, flagVars
    <3>2. CASE TerminalSetpoint \/ OdometryStale
      BY Zenon, <1>1, <1>2, <3>2 DEF TerminalSetpoint, OdometryStale, stopFrame, stopVars
    <3>3. CASE HealthRefused \/ AcquisitionOver \/ RefusedSetpoint
      BY Zenon, <1>2, <3>3 DEF HealthRefused, AcquisitionOver, RefusedSetpoint, stopFrame
    <3>4. CASE requestVelocityOnlyHold
      BY Zenon, <1>3, <3>4 DEF requestVelocityOnlyHold
    <3> QED
      BY Zenon, <2>4, <3>1, <3>2, <3>3, <3>4 DEF updateSetpoint, updateSetpointReturns
  <2> QED
    BY Zenon, <1>4, <1>5, <1>6, <1>7, <1>8, <1>9, <2>1, <2>2, <2>3, <2>4
    DEF Next, Px4Fallback, OperatorTakeover, Px4Selects, ExecutorStep, ExecutorCallback, Px4Step

\* safetyStopNavigation, failNavigation, a velocity-only hold and a completed mission
\* never leave an active mode with a handover nobody is working on.
THEOREM HandoverAlwaysPursued == Spec => []HandoverPursued
<1>1. Init => PursuitInv
  BY Zenon DEF Init, ExecutorInit, PursuitInv, ExecutorEngaged, HandoverPursued
<1>2. TypeOK /\ PursuitInv /\ [Next]_vars => PursuitInv'
  BY Zenon, PursuitStep
<1> QED
  BY <1>1, <1>2, TypeCorrect, PTL DEF Spec, PursuitInv

=============================================================================
