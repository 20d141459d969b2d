----------------------------- MODULE HoldHandover -----------------------------
(***************************************************************************)
(* NavigationModeExecutor: how the external mode gives the vehicle back by *)
(* asking PX4 for its Hold mode, with a bounded number of attempts, and    *)
(* what PX4 and the px4_ros2 library do with the request.                  *)
(*                                                                         *)
(* px4_ros2 is external.  Of it the model keeps what the executor relies   *)
(* on: one mode is scheduled at a time, its callback runs once, and a      *)
(* scheduled mode that is superseded or deactivated reports Deactivated.   *)
(***************************************************************************)
EXTENDS Naturals

CONSTANT kMaxPx4HoldHandoverAttempts

ASSUME AttemptsAssumption == kMaxPx4HoldHandoverAttempts \in Nat

VARIABLES
    px4_hold_confirmed,        \* the last vehicle status said AUTO_LOITER
    hold_handover_pending,
    hold_handover_in_flight,
    hold_handover_attempts,
    hold_retry_due,            \* now >= hold_handover_next_retry_steady_ns_
    scheduled_mode,            \* whose px4_ros2 callback is outstanding
    owned_completed,           \* completed(Success) was called on the owned mode
    executor_active,
    nav_state                  \* the mode PX4 flies

handoverVars == <<px4_hold_confirmed, hold_handover_pending, hold_handover_in_flight,
                  hold_handover_attempts, hold_retry_due>>
px4Vars == <<scheduled_mode, owned_completed, executor_active, nav_state>>
executorVars == <<handoverVars, px4Vars>>

ExecutorTypeOK ==
    /\ {px4_hold_confirmed, hold_handover_pending, hold_handover_in_flight,
        hold_retry_due, owned_completed, executor_active} \subseteq BOOLEAN
    /\ hold_handover_attempts \in 0 .. kMaxPx4HoldHandoverAttempts
    /\ scheduled_mode \in {"none", "owned", "loiter"}
    /\ nav_state \in {"external", "loiter", "other"}

Released ==
    /\ px4_hold_confirmed' = FALSE
    /\ hold_handover_pending' = FALSE
    /\ hold_handover_in_flight' = FALSE
    /\ hold_handover_attempts' = 0
    /\ hold_retry_due' = TRUE

ExecutorInit ==
    /\ px4_hold_confirmed = FALSE
    /\ hold_handover_pending = FALSE
    /\ hold_handover_in_flight = FALSE
    /\ hold_handover_attempts = 0
    /\ hold_retry_due = TRUE
    /\ scheduled_mode = "none" /\ owned_completed = FALSE
    /\ executor_active = FALSE /\ nav_state = "other"

----------------------------------------------------------------------------
(* Scheduling                                                              *)

\* Mutant of shouldRetryPx4HoldHandover: the attempts are not bounded.
NeverGivesUp(attempts) == TRUE

shouldRetryPx4HoldHandover(attempts) == attempts < kMaxPx4HoldHandoverAttempts

\* Mutant of ScheduleLoiter: the attempt is not counted.
AttemptNotCounted ==
    /\ UNCHANGED hold_handover_attempts
    /\ scheduled_mode' = "loiter"
    /\ owned_completed' = FALSE
    /\ hold_handover_in_flight' = (scheduled_mode # "loiter")
    /\ hold_handover_pending' = (scheduled_mode # "loiter")

\* scheduleMode(kModeIDLoiter): the owned mode's callback ignores Deactivated, an
\* earlier hold request's callback runs onPx4HoldHandoverCompleted(Deactivated).
ScheduleLoiter ==
    /\ hold_handover_attempts' = hold_handover_attempts + 1
    /\ scheduled_mode' = "loiter"
    /\ owned_completed' = FALSE
    /\ hold_handover_in_flight' = (scheduled_mode # "loiter")
    /\ hold_handover_pending' = (scheduled_mode # "loiter")

schedulePx4Hold ==
    /\ \/ /\ px4_hold_confirmed \/ hold_handover_in_flight
          /\ hold_handover_pending' = TRUE
          /\ UNCHANGED <<hold_handover_in_flight, hold_handover_attempts,
                         scheduled_mode, owned_completed>>
       \/ /\ ~px4_hold_confirmed /\ ~hold_handover_in_flight
          /\ shouldRetryPx4HoldHandover(hold_handover_attempts)
          /\ ScheduleLoiter
       \/ /\ ~px4_hold_confirmed /\ ~hold_handover_in_flight
          /\ ~shouldRetryPx4HoldHandover(hold_handover_attempts)
          /\ hold_handover_pending' = FALSE
          /\ hold_handover_in_flight' = FALSE
          /\ UNCHANGED <<hold_handover_attempts, scheduled_mode, owned_completed>>
    /\ UNCHANGED <<px4_hold_confirmed, hold_retry_due, executor_active, nav_state>>

----------------------------------------------------------------------------
(* The executor's callbacks and its 50 ms timer                            *)

onVehicleStatus ==
    /\ px4_hold_confirmed' = (nav_state = "loiter")
    /\ hold_handover_pending' = (hold_handover_pending /\ nav_state # "loiter")
    /\ hold_handover_in_flight' = (hold_handover_in_flight /\ nav_state # "loiter")
    /\ UNCHANGED <<hold_handover_attempts, hold_retry_due, px4Vars>>

checkHoldHandover ==
    /\ hold_handover_pending /\ ~px4_hold_confirmed
    /\ ~hold_handover_in_flight /\ hold_retry_due
    /\ schedulePx4Hold

\* PX4 puts the executor in charge; it schedules the mode it owns, which PX4 may
\* refuse.
executorOnActivate ==
    /\ ~executor_active
    /\ Released
    /\ executor_active' = TRUE
    /\ scheduled_mode' = "owned" /\ owned_completed' = FALSE
    /\ nav_state' \in {"external", "other"}

\* The outstanding callback reports Deactivated before onDeactivate runs; what it
\* writes is reset there.
executorOnDeactivate ==
    /\ executor_active
    /\ Released
    /\ executor_active' = FALSE
    /\ scheduled_mode' = "none" /\ owned_completed' = FALSE
    /\ nav_state' = "other"

\* The owned mode completed, or PX4 refused to run it.
onOwnedModeCompleted ==
    /\ scheduled_mode = "owned" /\ executor_active
    /\ owned_completed \/ nav_state # "external"
    /\ schedulePx4Hold

\* Mutant of onPx4HoldHandoverCompleted: a failed request is forgotten.
FailureForgotten(result) ==
    /\ scheduled_mode = "loiter"
    /\ result = "Success" => nav_state = "loiter"
    /\ scheduled_mode' = "none"
    /\ hold_handover_in_flight' = FALSE /\ hold_handover_pending' = FALSE
    /\ UNCHANGED <<px4_hold_confirmed, hold_handover_attempts, hold_retry_due,
                   owned_completed, executor_active, nav_state>>

\* The answer to a hold request; Success can only follow the mode itself.
onPx4HoldHandoverCompleted(result) ==
    /\ scheduled_mode = "loiter"
    /\ result = "Success" => nav_state = "loiter"
    /\ scheduled_mode' = "none"
    /\ hold_handover_in_flight' = FALSE
    /\ hold_handover_pending' = (result = "Failure")
    /\ hold_retry_due' = (hold_retry_due /\ result # "Failure")
    /\ UNCHANGED <<px4_hold_confirmed, hold_handover_attempts,
                   owned_completed, executor_active, nav_state>>

HoldAnswered == \E result \in {"Success", "Failure"} : onPx4HoldHandoverCompleted(result)

\* kHoldRetryPeriodNs has passed since the failed attempt.
RetryPeriodElapses ==
    /\ ~hold_retry_due
    /\ hold_retry_due' = TRUE
    /\ UNCHANGED <<px4_hold_confirmed, hold_handover_pending, hold_handover_in_flight,
                   hold_handover_attempts, px4Vars>>

\* PX4 grants the hold request of the executor in charge.
Px4EntersHold ==
    /\ scheduled_mode = "loiter" /\ executor_active
    /\ nav_state # "loiter"
    /\ nav_state' = "loiter"
    /\ UNCHANGED <<handoverVars, scheduled_mode, owned_completed, executor_active>>

ExecutorCallback ==
    \/ onVehicleStatus
    \/ checkHoldHandover
    \/ onOwnedModeCompleted
    \/ HoldAnswered

=============================================================================
