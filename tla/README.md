# TLA+ specifications of the navigation stack

These modules specify the concurrent and stateful core of the stack: how LiDAR
and IMU data become an estimate that may be used, how a world model is
published, who may change the command a vehicle executes, how the planning
worker is interrupted, and how the PX4 external mode follows a command and
gives the vehicle back. TLC checks them on small instances; TLAPS proves the
safety properties of the command timeline, the external mode, the mapping
ingress, the planning worker and the estimator for every value of the
constants. Paths below are relative to `src/src/` unless they
start with `docs/`.

## The system

LiDAR and IMU data go through FAST-LIO (`estimation/`), whose registered scans
and propagated odometry reach `navigation_runtime_node` (`runtime/`). Its
commands go to the PX4 external mode (`px4/`), which turns them into setpoints.

| Part | State | Changed by |
|---|---|---|
| measurement buffer, synchronizer | scans, IMU samples, synchronised epoch | the estimator's thread |
| `FastLioPipeline` | filter time, lifecycle, map guard, prior mailbox | the estimator's thread, the prior callback |
| `PropagatedOdometryWorker` | IMU queue, pending correction, control generation, propagator | IMU and LiDAR callbacks, load shedding, its own thread |
| mapping worker, actor, snapshot store | READY slot, scan in flight, map watermarks, published world | scan callbacks, its own thread, resets, shutdown |
| epoch ingress | active localization epoch, readiness, last scan | scan, health and odometry callbacks |
| `ExecutionAuthority` | active and staged command, admitted goal and epoch, world identity, lifecycle, version, lineage | every thread, one mutex |
| planning worker | one active solve, one pending request, stop tokens | planning timer, goal callbacks, sampler, its own thread |
| heading rebind worker | latest job | command timer, its own thread |
| command timer (`publishCommand`) | a snapshot per cycle | timer thread |
| desired intent | goal and revision | goal and status callbacks |
| `NavigationMode` | activation, command, frame and its translation, recovery window, stop positions | its callback thread, the state-input thread |
| `NavigationModeExecutor` | hold request, attempts, retry time | PX4 status, `px4_ros2` callbacks, a 50 ms timer |

What makes it hard: the runtime node has a multi-threaded executor beside three
workers. Owner regions take the localization, input and command-latch mutexes in this
order, then the publication gate, then the authority's mutex. But `snapshot()`,
`reserveAnchor` and `stagePending` run outside the owner locks, and a solve, a
world validation or a timer cycle works for a long time on what it read at its
start. Optimistic tokens (version, lineage, generation, epochs) decide at the
end whether the result still applies. The hazards this leads to are listed, at
their lines, in `PROJECT.json`.

## Modules

| Module | Models |
|---|---|
| `ExecutionRecovery` | `execution_recovery_state.hpp`, `execution_lifecycle.hpp`: constants and the recovery relation |
| `ExecutionAuthority` | `execution_authority.hpp`: one operator per operation, over the members of the class |
| `ExecutionTimeline` | the threads of the node around one authority; extends the previous two |
| `MCExecutionTimeline` | instances of it for TLC |
| `ObservationAccounting` | `observation_accounting.hpp`: the counters as functions of a record |
| `MappingIngress` | epoch callbacks, `MappingWorker`, the actor's and the store's order checks, the publication, the destructor |
| `PlanningWorker` | `planning_worker.hpp` and the cancellation handshake of `Planner::plan` |
| `HoldHandover` | `NavigationModeExecutor`, and what it relies on of PX4 and `px4_ros2` |
| `ExternalMode` | `NavigationMode`, composed with the handover, PX4, an operator and the estimator's resets; extends `HoldHandover` |
| `SetpointAuthority` | abstract: who may give PX4 setpoints, for which activation and frame |
| `MCExternalMode` | instances of `ExternalMode` for TLC |
| `ImuPropagation` | `imu_state_propagator.cpp`, as functions of the propagator's state |
| `PropagatedOdometry` | `propagated_odometry_worker.cpp` with its producers |
| `MeasurementSynchronization` | `measurement_buffer.cpp`, `measurement_synchronizer.cpp` |
| `FastLioPipeline` | `fast_lio_pipeline.cpp`: input, initialisation, processing, lifecycle; extends the previous |
| `ExecutionAuthorityProofs` | lemmas: what each authority operation preserves |
| `ExecutionTimelineProofs` | the inductive invariant; every client step is an authority step; typing |
| `ExecutionTimelineSafety` | the invariant is inductive, and the theorems |
| `ExternalModeProofs` | invariants of the external mode and its refinement of `SetpointAuthority` |
| `PlanningWorkerProofs` | the cancellation handshake, and the candidates per call |
| `MappingIngressProofs` | mutexes, drain and order of the mapping ingress, and the balance of its counters |
| `PropagatedOdometryProofs` | the odometry worker: what it publishes, and when it sleeps |
| `FastLioPipelineProofs` | the synchroniser's buffers and the estimator's lifecycle |

### The command timeline

`ExecutionAuthority` keeps the members under their names (`active_` is
`active`, `staged_` is `staged`, and so on). An operation that holds the mutex
once is one operator. `reserveAnchor` and the world publication hold it twice
and compute in between, so each is a pin and a second operator that compares
the pin. A command is a record of what the code compares: generation, the
generation it was planned on, world identity, epochs, request, role and lease;
polynomials and certificates are left out, and a check of them is a choice.
Calls that fail leave the state alone and are the callers' alternatives.

`ExecutionTimeline` has one action per critical section of a client:

* two producers run `commitPlannerCandidate` (`StartSolve` to
  `ReadCommitted`): the key check, the choice between an immediate commit and
  a successor, the anchor in two steps, the transaction id, the submission;
* the timer takes a snapshot, activates or drops a due successor, observes the
  sampled role, suspends or fails the path, and exposes the sample;
* the mapping worker validates, pins, publishes or rejects a world, and may
  resume a suspended command;
* the callbacks accept, clear and drop goals and reset the frame; owners apply
  the lifecycle observations of `runCycle` and `validateRetainedCommand`.

`owner_lock` stands for the three owner mutexes. It is held across actions
only where the code makes several authority calls in one locked region, and
calls that do not take these locks may fall in between. `anchored` and
`exposed` are history variables: the anchor of the staged successor, and the
last command given to the transport.

### Mapping ingress

Each action is one critical section of `MappingWorker::mutex_` or of
`localization_transition_mutex_`; the ingress mutex serialises whole
callbacks. A reset stores the new epoch, gives the localization mutex back,
drains the worker, and takes the mutex again. Messages arrive with any epoch,
sequence and stamp. The validator, the decoder, the map and the report may
fail. `mapped` is the watermark of `MappingActor`, `world` the last published
snapshot. The node's fatal handler ends the process; in the model it returns,
which leaves all states of the class reachable.

### Planning worker

A cancellation is two steps under the worker's mutex: the job's stop token,
then the planner's flag `solve_cancelled_`, which belongs to no job. The solve
checks its token, clears the flag, registers a stop callback and stages, without that
mutex. Callers submit, are refused, supersede or cancel. `Revisions` stands
for what the cancellation identity leaves out.

### External mode and hold handover

`NavigationMode` has two threads. The callbacks of the mode (`onActivate`,
commands, mission progress, the boundary timer, `updateSetpoint`, run
conditions) are serial; health, odometry and PX4 position run beside them. The
mutex is released twice inside `updateSetpoint` and once after a command was
stored, so these callbacks are two or three actions, and `update` holds what
the thread keeps across the release: the command, the frame and the
translation of its snapshot. A position is modelled by the frame it is given
in; a setpoint is its kind, that frame and the frame of the translation
applied, and a velocity setpoint has no position. The history variable
`left_frame_setpoints` counts the setpoints computed in another frame than the
mode's that were sent since the mode's frame last changed, so that a repeated
setpoint is not mistaken for a step without output.

The frame is the localization epoch of the estimator's health samples.
`observe` (`LioPublicFrameGeneration`) advances it when a result of a later
pipeline generation is published. `publishTypedHealth` reads it in the
correction's thread and in the propagation's, with no lock in common, and the
stamps that `onEstimatorHealth` compares are those of scans and propagated
states, not of the epochs. A health sample therefore carries any epoch the
estimator has had, and a late one moves the mode back to a frame it had left.
Geometric gates (tracking envelope,
anchor, alignment) and leases are choices. `schedulePx4Hold` is called from
`StopNavigation`, from the completion callback and from the retry timer;
`px4_ros2` answers a request once, and a superseded one with `Deactivated`.

`SetpointAuthority` says what PX4 relies on: authority is granted with an
activation, a command is accepted only for that activation and the current
frame, another frame (also one that was left before) drops it, and a released authority comes back only with a
new activation. `AuthorityImplemented` maps the mode's flags and command to it.

### Propagated odometry

Each action of `PropagatedOdometry` is one critical section of the worker's
mutex, or a stretch outside it that touches only the atomics and the
propagator. The worker's loop is cut between the wait, the drain, the three
requests, the batch, each of its samples, the correction (taken under the
mutex, replayed without it, finished under it), the flush, the recheck and the
publication. A wait is two steps, predicate and sleep, so that a notification
can fall in between. `ImuPropagation` gives the propagator as functions on a
record: history, anchor, pending samples and validity. What the worker
publishes is the anchor and the stamp.

### Estimator

`MeasurementSynchronization` has the buffer's admission and
`synchronizeNext` with all four outcomes (waiting, rejected, discontinuity,
group) and what each erases. `FastLioPipeline` runs the thread that feeds it:
the lifecycle is a record, each function of the code that moves it is an
operator on this record, and `processInternal` is the set of results a
synchronised scan can have, since the numerical outcomes are choices. The
initialisation is three steps, because the prior's callback shares its mailbox
from another thread. `streak` is a history variable.

## Runs

| Run | Question | Properties |
|---|---|---|
| `operations` | everything together from power-up, with the authority operations the node does not use | `TypeOK`, `AvailableMeansCommand`, `CommandsCertified`, `VersionNamesState`, `LineageNamesCommand` |
| `handover` | two producers race for the successor of one command | `SuccessorAnchored`, `MovingSafetyNotReplaced`, `ExposureNeverRegresses` |
| `ownership` | goals, frame resets, worlds and suspensions against stale producers | `TimelineStructure`, `CommandsInCurrentFrame`, `FailedCommandNotRevived` |
| `epoch_reset` | is the goal kept by a reset planned again? No (below) | `KeptGoalPlannedAgain` |
| `mapping` | barrier, accounting, publication, order; drains, shutdown and inbox end | `TypeOK`, `EveryScanAccounted`, `ReadyMeansCurrentWorld`, `OldScansDrained`, `OrderNeverStopsMapping`, `ResetsComplete`, `ShutdownCompletes`, `InboxSettles` |
| `planning_cancellation` | cancel, supersede, shut down | `TypeOK`, `OnlyOwnCancellation`, `CancelledSolveNotStaged`, `PendingIsServed`, `ShutdownCompletes` |
| `external_safety` | activations, frames, late callbacks and hold requests; refinement of `SetpointAuthority` | `TypeOK`, `StoredCommandIsCurrent`, `HandoverPursued`, `OldFrameNotRepeated`, `AuthorityImplemented` |
| `external_liveness` | do recovery windows, hold requests and handovers end? | `RecoveryWindowCloses`, `HandoverSettles`, `HandoverReleases` |
| `external_frames` | are stop positions mapped by their own frame? No (below) | `PositionsInTheirFrame` |
| `propagated_odometry` | what is published while corrections, losses and requests race with the worker | `PublishedIsFresh`, `SleepsOnlyWhenIdle`, `PublishesAppliedCorrection`, `SupersededNotRepeated` |
| `estimator_lifecycle` | brackets, filter time, map guard and recovery over gaps, failures and resets | `BracketRetained`, `FilterMatchesSynchronizer`, `MapGuardLatches`, `RecoveryConfirmed` |
| `imu_full` | is every scan decided once the IMU is past it? No (below) | `ScanDecided` |

All pass but `epoch_reset`, `external_frames` and `imu_full`.

**Bounds.** `operations` runs the whole `Next` and the unused operations from
the initial state, with versions up to 4. Deeper behaviours need a command
first, so `handover` and `ownership` start from `TrackingInit`, the state after
one world, one goal and one commit, and run the threads the question is about.
There, three generations are a predecessor, its successor and a rival;
`MaxVersion` leaves three or four changes of the timeline, which is enough for
a stale pin, an intervening change and the late operation. One stamp suffices
for the properties checked there, since they compare identities and not lease
lengths. `ownership` includes `OwnerClearRestart`, the last call of an accepted
goal, which releases the owner's mutex; the other requests to restart from rest
are left to `operations` and the theorems. In `MappingIngress` three messages are a scan, a reset by one of the
callbacks, and a scan of the new epoch or one that overtakes. In
`PlanningWorker` five calls are a solve, its replacement, and a cancellation of
each with a repeat. In `ExternalMode` two activations and two frames are a
current one and a stale one (the frames may alternate), and two attempts are a
refused and a last one; the
liveness run has one of each, because its questions are about one activation.
In `PropagatedOdometry` three stamps span an age limit of one, two
sequences are a correction and its successor, and one generation is one
invalidation; the ingress holds one sample, so a second one is shed, and
batches of several samples are left to the theorems. In the estimator's run six
stamps hold a scan, a short gap and a gap beyond `maximum_recoverable_imu_gap`;
all limits are one or two, so that each is reached and passed. The theorems
below do not depend on these bounds.

**Fairness.** Fairness is assumed only of steps that a running thread will
take: an executor thread in a callback, a worker with work, a destructor that
was entered. No message need arrive, nobody need call, and the node need not be
destroyed. A solve is assumed to end, for its deadline bounds it. In
`epoch_reset` the planning worker is driven by its periodic timer, so a
planning cycle that can begin eventually does. In `ExternalMode` weak fairness
makes a started callback return. The timer, the deactivation callback and the
executor's callbacks are strongly fair: they are ready whenever the mode thread
is between two callbacks, other callbacks disable them for a moment, and the
executor of the node takes ready callbacks in turn. PX4 is assumed to answer a
request and to act on failed run conditions, as the code assumes as well. In
`imu_full` only `processNext` and the initialisation are fair.

**Deadlock** is checked in the passing runs of the timeline. The other models
stop after a shutdown, or when the bound on calls, stamps or activations is
used up, which is why their configurations switch the check off; the liveness
properties and `SleepsOnlyWhenIdle` take its place.

### A kept goal is not planned again after a localization reset

`resetForLocalizationEpochLocked` first resets the authority to the new epoch
and then calls `setAdmissionGoalEpoch`, which takes the admitted localization
epoch from the world identity the authority still holds, that of the old
frame. `runCycle` compares that epoch with its key before each solve and
returns. The comment in the same function says that "the active goal may be
planned again after that snapshot arrives"; it is planned again only after a
new request has called `beginGoal`. `KeptGoalPlannedAgain` states the comment,
and TLC violates it under fairness of the workers and the reset callback. The
safety properties are not affected: the path stays closed.

### A stop position survives the frame it was measured in

When the estimator announces a new localization epoch, `onEstimatorHealth` of
the external mode drops the command, the odometry and the translation, but not
`safety_hold_position_` and `completion_position_`. If the mode is still in its
terminal stream when the new frame has been aligned, `updateSetpoint` maps the
old coordinates with the new translation, although the comment there promises a
stationary stream. `PositionsInTheirFrame` is violated by a failure, an epoch
change, an alignment and the next setpoint. `OldFrameNotRepeated` holds: a
command crosses the frame at most once, in a callback that had taken its
snapshot before.

### A full IMU buffer is never emptied

Nothing but a synchronised group or a discontinuity removes IMU samples, and a
full buffer refuses the newest one. If it fills before a scan can be
synchronised (8192 samples are about 41 s at 200 Hz without LiDAR, or while a
topic prior is awaited), every later scan waits for a sample that is refused.
The header says that waiting is for a complete group and that a permanent
rejection is returned as a result; `ScanDecided` states that and is violated.

## Proofs

### The command timeline

`ExecutionTimelineSafety` proves, for any set of worlds, any subset of the two
producers and any bounds (`MaxVersionAssumption`, `NoneAssumption`,
`BoundAssumption`, `NullAssumption`: bounds are naturals, worlds are world
identities, and the null value is none of the records):

* `TypeCorrect`, `StructureHolds`, `AlwaysCertified`, `AlwaysAnchored`,
  `FrameHolds`, `AvailabilityHolds`, `VersionFaithful`: the invariants above;
* `SafetyNotReplaced`, `ExposureMonotone`, `FailureSticks`, `LineageFaithful`:
  the action properties above.

Most of these are not inductive alone. `Inductive` proves `Spec => []IInv`, and
`IInv` adds what the threads hold:

* `JobShape`: a producer's candidate matches its key, its snapshot and its
  anchor; this is what makes a late `stagePending` or commit harmless;
* `SnapshotsExact`: a snapshot is of the past, and exact if its version is
  current; from it a version comparison yields equality of the whole state;
* `ImmediateFromRest`: an immediate nominal commit over a command was routed at
  a measured stop, and while its snapshot is current the vehicle still stands;
  `MovingSafetyNotReplaced` needs it;
* `Frame` and `ExposureOrder`: generations and epochs are ordered, and without an
  active command nothing younger than the candidate being prepared was exposed.

The argument has three layers. `ExecutionAuthorityProofs` shows of every
authority operation what it preserves: types, structure, certification, a
moving version, a failed exposure, the lineage. `StepIsAuthorityStep` shows
that each client action calls one operation, or none. `StepPreserves` then
needs the clients' state only where a property depends on it; `ProducerMoves`
and `UnsubmittedMoves` say how one producer step moves that state.

### The external mode

`ExternalModeProofs` proves, for any number of activations, frames, requests
and attempts and any kinds of commands (`NoneAssumption`,
`AttemptsAssumption` and the bounds being naturals):

* `TypeCorrect`: in particular the attempts never pass their limit;
* `StoredCommandAlwaysCurrent`, from the inductive `CommandInv`
  (`CommandInvariant`), which adds that an active mode has an activation id;
  `MovesOfNext` first reduces the many actions to the few ways in which a step
  can move the command and the flags;
* `ModeImplementsAuthority`: `Spec` implies the specification of
  `SetpointAuthority` under the refinement mapping; each of these moves is a
  step or a stutter of the abstract machine;
* `LeftFrameNotRepeated`, from `SnapshotInv`: a command kept across the mutex is
  of the frame kept with it, and once a setpoint of another frame has been sent,
  a callback under way took its snapshot in the present one. No order among the
  frames is needed, here or in the refinement;
* `HandoverAlwaysPursued`, with `ExecutorEngaged`: an executor in charge has a
  scheduled mode, a pending request, or no attempts left.

### The mapping ingress

`MappingIngressProofs` proves, for any set of callbacks and any numbers of
epochs, sequences, stamps and messages (`MappingIngressAssumption`: these are
positive, and the null value is neither a callback nor a scan), `TypeCorrect`,
`ReadinessHolds`, `OldScansDrainedHolds` and `OrderNeverStops`. They follow
from `IngressInv` (`IngressInvHolds`), which adds to the types

* `LockInv`: who holds which mutex, and that a callback past the epoch check
  carries the active epoch and, once its scan is accepted, the last sequence;
* `WorkerInv`: `in_flight_` is up exactly while the worker holds a scan;
* `DrainInv`: no scan held or mapped is of a later epoch, and all are of an
  earlier one while a reset drains the worker;
* `OrderInv`: the map, the scan in process and the queued scan follow one
  another, those of the active epoch are below the admission key, and all are
  older than a scan that is accepted and not yet pushed. This is why two
  filters at the entry are enough for the actor and for the store.

It also proves `EveryScanAccountedHolds` from `AccountInv`:
the counters balance with the number of scans that wait, are queued and are in
process. One lemma per operation of `ObservationAccounting` says which of
these numbers it moves; the callback's, the worker's and the shutdown's steps
then move the slots in the same way. That at most one callback has an accepted
scan comes from `LockInv`.

### The planning worker

`PlanningWorkerProofs` proves `OnlyOwnCancellationHolds` and
`CancelledSolveNotStagedHolds` for any callers, keys and priorities
(`PlanningWorkerAssumption` keeps the null value and the destructor's name
apart from them). `CancellationInv` (`CancellationAgrees`) says that a caller
between the two halves of a cancellation has stopped the active job, that once
`plan()` has cleared the planner's flag it is up only for a job whose token is
stopped, and that a running solve whose token is stopped has the flag up.

`TypeCorrect` bounds the staged candidates by the calls, which no step shows by
itself. It needs `AccountInv` (`CallsAccountFor`): every call fills one place,
and a request is moved, not copied, from its caller to `pending_`, to the solve
and to the backend. That a replacement which completes leaves no second one
behind rests on `CallerHoldsMutex`.

### The odometry worker

`PropagatedOdometryProofs` proves, for any set of stamps, any ingress capacity,
age limit and period, and any number of corrections and generations
(`TimeAssumption`, `StepAssumption`, `WorkerAssumption`, `NoneAssumption`:
stamps are positive, limits and bounds are naturals, the period is positive,
and the null value is no correction or estimate), `TypeCorrect`,
`PublishedIsFreshHolds`, `SleepsOnlyWhenIdleHolds`,
`PublishesAppliedCorrectionHolds` and `SupersededNotRepeatedHolds`. They follow
from `OdometryInv` (`OdometryInvHolds`), which adds to the types

* `PropagatorOK`: a valid propagator has an anchor and samples, and its history
  has a greatest stamp. The set of stamps may be infinite: that a history has a
  greatest stamp is preserved by recording and pruning, not assumed;
* `SleepInv`: already when the wait has decided to sleep, and holds the mutex,
  nothing waits for the worker; a producer then needs the mutex, and wakes it;
* `ReplayInv`: while a correction is replayed without the mutex, its generation
  and the estimator's validity change only with an invalidation that is still
  to be taken, or with the output suspended;
* `AnchorInv`: a valid state that no invalidation and no suspension holds back
  is anchored in the current generation and, unless load is to be shed, at the
  correction applied last. A disturbed replay leaves the propagator valid and
  anchored at a correction that was never recorded as applied; `ReplayInv`
  shows that the request which disturbed it is then still pending;
* `AgeInv` and `PublishInv`: what the age check and the recheck saw still holds
  at the next step, although the producers run in between. `PublishInv` no
  longer mentions the requests, for they may arrive after the recheck.

### The estimator

`FastLioPipelineProofs` proves, for any set of stamps and any capacities and
limits (`SynchronizationAssumption`, `PipelineAssumption`):

* `BracketRetainedHolds`, from `BufferInv`: the sample that ends a gap is later
  than the propagation start (`ResumeIsLater`), and what a group leaves in the
  buffer reaches back to the scan's end (`RetainedReachesBack`). The stamps
  are ordered by the well-foundedness of the naturals, and no bound on the
  buffer is needed;
* `FilterMatches`, `MapGuardLatchesHolds` and `RecoveryConfirmedHolds`, from
  `EstimatorInv` (`EstimatorInvHolds`). It adds that Tracking has been confirmed
  and counts no recovery, that only a confirmed estimator fails its map guard,
  and that the recovery's counter is covered by the corrections in a row,
  *unless the filter is behind the synchroniser*: a failed covariance inflation
  leaves the counter as it was, and what makes this harmless is that the next
  scan starts at a later epoch and restarts the recovery before it can correct.

`Allowed` says what a result of a scan may do to the estimator;
`PredictedAllowed`, `DiscontinuityAllowed` and `GroupAllowed` show it of every
way a scan can end.

### Model-checked only

All liveness properties: they need `ENABLED`, which the prover does not handle.
The three findings are counterexamples that TLC finds. Every safety property of
the passing runs has a theorem.

## Not modelled

* Numerics, most of the code by far: the Kalman filter and its registration,
  the occupancy map, A*, the corridor and trajectory optimisation
  (`navigation_planning_backend`), polynomial sampling, certificates,
  setpoint shaping and frame conversion. They compute over real vectors; what
  the models keep of them is that they succeed or fail.
* Vendored code: the Livox driver and its third-party headers, IKFoM, ikd-Tree,
  ROG-Map.
* Input and output: telemetry, diagnostics, parameters, launch files, the
  Python tools that run scenarios and write reports (`tools/`), the simulator's
  bridges and the offline estimator.
* In the runtime node: the geometry of `runCycle`, the mission callbacks, the
  deferral of a foreign mission, the goal that waits behind a safety suffix,
  the completion witness.
* In the external mode: the tracking experiment's flag
  `suppress_estimator_health_response`, which is off in operation and makes the
  mode ignore an invalid estimator.
* `navigation_mission`: its gates are geometric predicates over measured
  states; only the stop confirmation is a state machine over time.
* `px4_odometry_bridge`: the compensation of PX4's resets is arithmetic on
  poses.
* `FastLioNode`'s input queue, `BoundedSpscQueue`, the execution state store,
  the rebind worker's slot: small and sequential, or described in the hazards.

Counters do not wrap. `PROJECT.json` lists every component with its status.
