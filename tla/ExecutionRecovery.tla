------------------------- MODULE ExecutionRecovery -------------------------
(***************************************************************************)
(* The public recovery automaton of the execution layer and the lifecycle  *)
(* record it is a field of (execution_recovery_state.hpp,                  *)
(* execution_lifecycle.hpp).  Pure definitions, no variables.              *)
(***************************************************************************)

RecoveryState == {"InitialHold", "TrackMain", "TrackBackup", "EmergencyBrake",
                  "StoppedRecovery", "Px4Hold"}

RecoveryEvent == {"MainCommitted", "BackupActivated", "EmergencyCommitted",
                  "CertifiedStopObserved", "TerminalStopCompleted",
                  "EmergencyCertificationFailed"}

\* A braking command that is still moving the vehicle.
MovingSafety == {"TrackBackup", "EmergencyBrake"}

\* nominalPlanningAllowed
NominalPlanningAllowed(state) ==
    state \in {"InitialHold", "TrackMain", "StoppedRecovery"}

\* The table of transitionExecutionRecovery; a missing pair keeps the state.
RecoveryEdges ==
    {<<"InitialHold",     "MainCommitted",         "TrackMain">>,
     <<"InitialHold",     "BackupActivated",       "TrackBackup">>,
     <<"InitialHold",     "EmergencyCommitted",    "EmergencyBrake">>,
     <<"TrackMain",       "BackupActivated",       "TrackBackup">>,
     <<"TrackMain",       "EmergencyCommitted",    "EmergencyBrake">>,
     <<"TrackMain",       "TerminalStopCompleted", "StoppedRecovery">>,
     <<"TrackBackup",     "CertifiedStopObserved", "StoppedRecovery">>,
     <<"EmergencyBrake",  "CertifiedStopObserved", "StoppedRecovery">>,
     <<"StoppedRecovery", "MainCommitted",         "TrackMain">>}

\* transitionExecutionRecovery: PX4 Hold absorbs everything, and a failed
\* emergency certification leads there from every other state.
TransitionExecutionRecovery(state, event) ==
    IF state = "Px4Hold" \/ event = "EmergencyCertificationFailed"
      THEN "Px4Hold"
      ELSE IF \E next \in RecoveryState : <<state, event, next>> \in RecoveryEdges
             THEN CHOOSE next \in RecoveryState :
                    <<state, event, next>> \in RecoveryEdges
             ELSE state

----------------------------------------------------------------------------
Phase    == {"InitialHold", "TrackingMain", "TrackingBackup", "StoppedHold", "Px4Hold"}
Exposure == {"Unavailable", "Available", "Suspended", "Failed"}
Safety   == {"Nominal", "SafetySuffix"}
Restart  == {"None", "FromRest"}

LifecycleState ==
    [phase: Phase, recovery: RecoveryState, exposure: Exposure,
     safety: Safety, restart: Restart]

InitialLifecycle ==
    [phase |-> "InitialHold", recovery |-> "InitialHold",
     exposure |-> "Unavailable", safety |-> "Nominal", restart |-> "None"]

\* failClosedLifecycleLocked
FailedLifecycle ==
    [phase |-> "Px4Hold", recovery |-> "Px4Hold",
     exposure |-> "Failed", safety |-> "Nominal", restart |-> "None"]

Role == {"Main", "Backup", "Emergency"}
SafetyRole == {"Backup", "Emergency"}

\* The recovery event that a command of this role raises.
RoleEvent(role) ==
    CASE role = "Emergency" -> "EmergencyCommitted"
      [] role = "Backup"    -> "BackupActivated"
      [] OTHER              -> "MainCommitted"
=============================================================================
