---------------------------- MODULE ImuPropagation ----------------------------
(***************************************************************************)
(* ImuStatePropagator: the state that is carried forward from a LiDAR      *)
(* correction with every IMU sample, and replayed from the recorded        *)
(* history whenever a newer correction arrives.                            *)
(*                                                                         *)
(* Times are sample stamps.  Of the filter state only its provenance is    *)
(* kept: the correction it was anchored at and the stamp it was propagated *)
(* to.  A prediction may fail numerically at any point.                    *)
(***************************************************************************)
EXTENDS Integers, FiniteSets, FiniteSetsExt

CONSTANTS
    Time,                        \* the stamps of the samples
    maximum_integration_step,    \* a longer interval restarts continuity
    imu_history_duration,        \* how much of the history is kept
    None

ASSUME TimeAssumption == Time \subseteq Nat \ {0}
ASSUME StepAssumption == {maximum_integration_step, imu_history_duration} \subseteq Nat

\* history_, latest_estimate_ (anchor and stamp), pending_prediction_samples_ (the
\* last stamp of them, 0 when there are none), valid_ and requires_reanchor.
Propagators(Corrections) ==
    [history : SUBSET Time, anchor : Corrections \cup {None}, time : Time \cup {0},
     pending : Time \cup {0}, valid : BOOLEAN, requires_reanchor : BOOLEAN]

Unanchored ==
    [history |-> {}, anchor |-> None, time |-> 0, pending |-> 0,
     valid |-> FALSE, requires_reanchor |-> TRUE]

latest_imu_time(p) == IF p.history = {} THEN 0 ELSE Max(p.history)

setFailure(p) == [p EXCEPT !.pending = 0, !.valid = FALSE, !.requires_reanchor = TRUE]

\* Keep one sample at or before the start of the retained history.
pruneHistory(h) ==
    {t \in h : \A u \in h : u > t => u >= Max(h) - imu_history_duration}

restartContinuity(t) == [Unanchored EXCEPT !.history = {t}]

\* What a sample is: the continuation of the history, the start of a new one, or
\* a sample whose stamp does not advance.
Disposition(p, t) ==
    IF p.history # {} /\ t <= Max(p.history) THEN "rejected"
    ELSE IF p.history # {} /\ t - Max(p.history) > maximum_integration_step THEN "restarted"
    ELSE "recorded"

validateAndRecordImu(p, t, append_prediction) ==
    IF Disposition(p, t) = "rejected" THEN setFailure(p)
    ELSE IF Disposition(p, t) = "restarted" THEN restartContinuity(t)
    ELSE [p EXCEPT !.history = pruneHistory(@ \cup {t}),
                   !.pending = IF append_prediction /\ ~p.requires_reanchor /\ p.anchor # None
                               THEN t ELSE @]

\* The outcomes of carrying the state over the pending samples.
flushPendingPrediction(p) ==
    IF p.anchor = None \/ p.pending = 0
    THEN {[ok |-> TRUE, p |-> p]}
    ELSE {[ok |-> TRUE, p |-> [p EXCEPT !.time = p.pending, !.pending = 0, !.valid = TRUE,
                                        !.requires_reanchor = FALSE]],
          [ok |-> FALSE, p |-> setFailure(p)]}

\* Whether the history holds a sample on both sides of the correction.
bracketHistory(h, t) ==
    IF h = {} THEN "missing_start"
    ELSE IF t > Max(h) THEN "missing_end"
    ELSE IF t < Min(h) THEN "missing_start" ELSE "ok"

\* The outcomes of anchoring the state at a correction and replaying the history
\* after it.
reanchorAndReplay(p, c) ==
    LET bracket == bracketHistory(p.history, c.time) IN
    IF bracket = "ok"
    THEN {[status |-> "ok", p |-> [history |-> pruneHistory(p.history), anchor |-> c,
                                   time |-> Max(p.history), pending |-> 0,
                                   valid |-> TRUE, requires_reanchor |-> FALSE]],
          [status |-> "failed", p |-> setFailure(p)]}
    ELSE {[status |-> bracket, p |-> setFailure(p)]}

\* What may be published: the state, once it is as recent as the last sample.
kinematicEstimate(p) ==
    IF p.valid /\ p.anchor # None /\ p.time = latest_imu_time(p)
    THEN [time |-> p.time, anchor |-> p.anchor] ELSE None

=============================================================================
