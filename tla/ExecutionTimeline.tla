-------------------------- MODULE ExecutionTimeline --------------------------
(***************************************************************************)
(* The threads of navigation_runtime_node.cpp around one                   *)
(* ExecutionAuthority: the two producers that run commitPlannerCandidate   *)
(* (the planning worker and the heading rebind), the command timer         *)
(* (publishCommand), the mapping worker's world publication, and the       *)
(* callbacks that own goals and localization.                              *)
(*                                                                         *)
(* The node takes localization_transition_mutex_, input_mutex_ and the     *)
(* command latch mutex together, in this order, around most authority      *)
(* calls: owner_lock stands for the three.  stagePending, reserveAnchor    *)
(* and every snapshot() run without them, so they fall between any two     *)
(* critical sections of the others.                                        *)
(***************************************************************************)
EXTENDS ExecutionAuthority

CONSTANTS
    Producers,        \* {"planner", "heading"} or a subset
    Worlds,           \* the world identities the mapping engine produces
    PlannerRoles,     \* the roles of the bundles the planning worker exports
    MaxGoalEpoch, MaxLocalizationEpoch, MaxGeneration, MaxStamp   \* bounds

ASSUME BoundAssumption ==
    /\ MaxGoalEpoch \in Nat /\ MaxLocalizationEpoch \in Nat /\ MaxGeneration \in Nat
    /\ MaxStamp \in Nat
    /\ Worlds \subseteq WorldIdentity
    /\ PlannerRoles \subseteq Role
    /\ Producers \subseteq {"planner", "heading"}

VARIABLES
    desired_goal,         \* desired_intent_.goal(): its request id, or None
    goal_epoch,           \* desired_intent_.revision()
    localization_epoch,   \* active_localization_epoch_
    last_generation,      \* the planner's generation reservation
    transaction_id,       \* execution_transaction_id_
    owner_lock,           \* who is between two authority calls of one locked region
    job,                  \* per producer: one commitPlannerCandidate in progress
    timer,                \* the snapshot publishCommand works from
    mapper,               \* one world publication in progress
    anchored,             \* history: the anchor the staged successor was accepted on
    exposed               \* history: the last command handed to the transport

clientVars == <<desired_goal, goal_epoch, localization_epoch, last_generation, transaction_id,
                owner_lock, job, timer, mapper, anchored, exposed>>
vars == <<authorityVars, clientVars>>

IdleJob == [pc |-> "idle", key |-> None, candidate |-> None, snapshot |-> None,
            pin |-> None, anchor |-> None, token |-> None]
IdleMapper == [pc |-> "idle", request |-> None, pin |-> None, bundle |-> None]

Init ==
    /\ AuthorityInit
    /\ desired_goal = None /\ goal_epoch = 0 /\ localization_epoch = 1
    /\ last_generation = 0 /\ transaction_id = 0
    /\ owner_lock = None
    /\ job = [p \in Producers |-> IdleJob]
    /\ timer = None
    /\ mapper = IdleMapper
    /\ anchored = None
    /\ exposed = None

----------------------------------------------------------------------------
(* commitPlannerCandidate                                                  *)

JobBecomes(p, next) == job' = [job EXCEPT ![p] = next]

\* A producer step that calls no mutating authority operation.
Quiet == UNCHANGED <<authorityVars, desired_goal, goal_epoch, localization_epoch, owner_lock,
                     timer, mapper, anchored, exposed>>

\* currentPlanningKey gives no key while a successor is pending or the command
\* path has failed.  The planning worker checks the key again under the owner
\* locks right before it solves (runCycle), which is where its solve begins
\* here; the heading worker starts from the key alone, and needs a command to
\* rebind (scheduleHeadingRebind).
StartSolve(p) ==
    /\ job[p].pc = "idle" /\ owner_lock = None
    /\ ~HasStaged /\ NotFailed /\ lifecycle.recovery # "Px4Hold"
    /\ desired_goal # None /\ goal_epoch # 0
    /\ world_identity # None /\ world_identity.localization_epoch = localization_epoch
    /\ IF p = "heading" THEN HasActive
       ELSE /\ admission_goal_epoch = goal_epoch
            /\ admission_localization_epoch = localization_epoch
    /\ JobBecomes(p, [IdleJob EXCEPT !.pc = "solving",
         !.key = [committed_generation |-> ActiveGeneration, world |-> world_identity,
                  request_id |-> desired_goal, goal_epoch |-> goal_epoch,
                  localization_epoch |-> localization_epoch]])
    /\ Quiet /\ UNCHANGED <<last_generation, transaction_id>>

\* The bundle a solve exports for its key, under the next generation.
Exported(p, role, from, until) ==
    [generation |-> last_generation + 1,
     planned_on |-> job[p].key.committed_generation, world |-> job[p].key.world,
     localization_epoch |-> job[p].key.localization_epoch,
     goal_epoch |-> job[p].key.goal_epoch,
     request_id |-> job[p].key.request_id,
     role |-> role, valid_from |-> from, valid_until |-> until]

\* The solve ends with a candidate under a freshly reserved generation
\* (reserveCandidateGenerationLocked).
FinishSolve(p) ==
    /\ job[p].pc = "solving"
    /\ last_generation < MaxGeneration
    /\ last_generation' = last_generation + 1
    /\ \E role \in (IF p = "heading" THEN {"Main"} ELSE PlannerRoles) :
       \E from \in 1..MaxStamp : \E until \in from..MaxStamp :
         JobBecomes(p, [job[p] EXCEPT !.pc = "solved",
                                      !.candidate = Exported(p, role, from, until)])
    /\ Quiet /\ UNCHANGED transaction_id

Discard(p) ==
    /\ JobBecomes(p, IdleJob)
    /\ Quiet /\ UNCHANGED <<last_generation, transaction_id>>

\* The identity check at the entry of commitPlannerCandidate.
KeyCurrent(key) ==
    /\ key.request_id = desired_goal
    /\ key.goal_epoch = goal_epoch
    /\ key.localization_epoch = localization_epoch
    /\ key.committed_generation = ActiveGeneration
    /\ world_identity # None /\ world_identity.generation = key.world.generation

BeginCommit(p) ==
    /\ job[p].pc = "solved"
    /\ IF KeyCurrent(job[p].key)
         THEN /\ JobBecomes(p, [job[p] EXCEPT !.pc = "checked", !.snapshot = Snapshot])
              /\ Quiet /\ UNCHANGED <<last_generation, transaction_id>>
         ELSE Discard(p)

\* schedule_successor, from a second snapshot of the recovery state.
ScheduleSuccessor(p) ==
    /\ job[p].snapshot.active # None
    /\ job[p].candidate.role # "Emergency"
    /\ lifecycle.recovery # "StoppedRecovery"

ChooseRoute(p) ==
    /\ job[p].pc = "checked"
    /\ JobBecomes(p, [job[p] EXCEPT
         !.pc = IF ScheduleSuccessor(p) THEN "anchoring" ELSE "validated"])
    /\ Quiet /\ UNCHANGED <<last_generation, transaction_id>>

PinAnchor(p) ==
    /\ job[p].pc = "anchoring"
    /\ IF AnchorAvailable(job[p].candidate.valid_from)
         THEN /\ JobBecomes(p, [job[p] EXCEPT !.pc = "pinned", !.pin = AnchorPin])
              /\ Quiet /\ UNCHANGED <<last_generation, transaction_id>>
         ELSE Discard(p)

\* candidateMatchesAnchor compares position, velocity, acceleration, jerk and
\* yaw of the candidate's start with the anchor's state: they agree when the
\* candidate was planned on the very command the anchor was sampled from.
CandidateMatchesAnchor(candidate, anchor) ==
    /\ candidate.planned_on = anchor.active_bundle_generation
    /\ candidate.role # "Emergency"

ConfirmAnchor(p) ==
    LET anchor == AnchorOf(job[p].pin, job[p].candidate.valid_from)
    IN  /\ job[p].pc = "pinned"
        /\ IF AnchorStillCurrent(job[p].pin) /\ CandidateMatchesAnchor(job[p].candidate, anchor)
             THEN /\ JobBecomes(p, [job[p] EXCEPT !.pc = "validated", !.anchor = anchor,
                                                  !.pin = None])
                  /\ Quiet /\ UNCHANGED <<last_generation, transaction_id>>
             ELSE Discard(p)

\* The state, endpoint and reserve checks may refuse (kExecutionState, ...).
RefuseCandidate(p) == job[p].pc = "validated" /\ Discard(p)

\* advanceMonotonicId(execution_transaction_id_): one id per submission.
TakeTransaction(p) ==
    /\ job[p].pc = "validated"
    /\ transaction_id' = transaction_id + 1
    /\ JobBecomes(p, [job[p] EXCEPT !.pc = "submitting",
         !.token = [goal_epoch |-> job[p].candidate.goal_epoch,
                    world |-> job[p].candidate.world,
                    transaction_id |-> transaction_id + 1]])
    /\ Quiet /\ UNCHANGED last_generation

\* stagePending runs without the owner locks.
SubmitSuccessor(p) ==
    /\ job[p].pc = "submitting" /\ job[p].anchor # None
    /\ StagePending(job[p].token, job[p].anchor, job[p].candidate.request_id,
                    job[p].candidate)
    /\ anchored' = job[p].anchor
    /\ JobBecomes(p, IdleJob)
    /\ UNCHANGED <<desired_goal, goal_epoch, localization_epoch, last_generation, transaction_id,
                   owner_lock, timer, mapper, exposed>>

SuccessorRejected(p) ==
    /\ job[p].pc = "submitting" /\ job[p].anchor # None
    /\ ~StageAdmissible(job[p].token, job[p].anchor, job[p].candidate.request_id,
                        job[p].candidate)
    /\ Discard(p)

\* admitImmediateCandidate: owner_current, under the owner locks.
OwnerCurrent(p) ==
    /\ job[p].key.request_id = desired_goal
    /\ job[p].key.goal_epoch = goal_epoch
    /\ job[p].key.localization_epoch = localization_epoch
    /\ job[p].key.committed_generation =
         (IF job[p].snapshot.active = None THEN 0 ELSE job[p].snapshot.active.generation)

SubmitImmediate(p) ==
    /\ job[p].pc = "submitting" /\ job[p].anchor = None
    /\ owner_lock = None
    /\ OwnerCurrent(p)
    /\ TryCommitIfCurrent(job[p].token, job[p].snapshot, job[p].candidate.request_id,
                          job[p].candidate, TRUE)
    /\ \E next \in {"idle", "unqueued"} :
         /\ job[p].candidate.role = "Emergency" => next = "idle"
         /\ JobBecomes(p, IF next = "idle" THEN IdleJob
                          ELSE [job[p] EXCEPT !.pc = "unqueued", !.snapshot = None])
    /\ UNCHANGED <<desired_goal, goal_epoch, localization_epoch, last_generation, transaction_id,
                   owner_lock, timer, mapper, anchored, exposed>>

\* owner_current fails, the authority refuses, or the admission callback does
\* (an expired lease, a stale measurement or a stale world).
ImmediateRejected(p) ==
    /\ job[p].pc = "submitting" /\ job[p].anchor = None
    /\ owner_lock = None
    /\ Discard(p)

\* queueExecutionTimelineActivation failed after the cutover: committed_timeline
\* is read outside the locks and the exact command is revoked.
ReadCommitted(p) ==
    /\ job[p].pc = "unqueued"
    /\ IF active.bundle = job[p].candidate
         THEN /\ JobBecomes(p, [job[p] EXCEPT !.pc = "revoking", !.snapshot = Snapshot])
              /\ Quiet /\ UNCHANGED <<last_generation, transaction_id>>
         ELSE Discard(p)

\* clearCommandForCurrentIdentity, up to failClosedLocked.
ClearCommand(p) ==
    /\ job[p].pc = "revoking" /\ owner_lock = None
    /\ job[p].key.request_id = desired_goal
    /\ job[p].key.goal_epoch = goal_epoch
    /\ job[p].key.localization_epoch = localization_epoch
    /\ InvalidateIfCurrent(job[p].snapshot)
    /\ owner_lock' = p
    /\ JobBecomes(p, IdleJob)
    /\ UNCHANGED <<desired_goal, goal_epoch, localization_epoch, last_generation, transaction_id,
                   timer, mapper, anchored, exposed>>

ClearRejected(p) ==
    /\ job[p].pc = "revoking" /\ owner_lock = None
    /\ \/ job[p].key.request_id # desired_goal
       \/ job[p].key.goal_epoch # goal_epoch
       \/ job[p].key.localization_epoch # localization_epoch
       \/ timeline_version # job[p].snapshot.version
       \/ active.bundle # job[p].snapshot.active
    /\ Discard(p)

\* failClosedLocked as the last call of a locked region that revoked a command.
FailClosedAndUnlock ==
    /\ owner_lock \in Producers \cup {"owner"}
    /\ FailClosed
    /\ owner_lock' = None
    /\ UNCHANGED <<desired_goal, goal_epoch, localization_epoch, last_generation, transaction_id,
                   job, timer, mapper, anchored, exposed>>

----------------------------------------------------------------------------
(* publishCommand                                                          *)

TimerQuiet == UNCHANGED <<desired_goal, goal_epoch, localization_epoch, last_generation,
                          transaction_id, owner_lock, job, mapper, anchored>>

\* Every use below re-checks the snapshot against the authority.
TimerSnapshot ==
    /\ timer' = Snapshot
    /\ UNCHANGED <<authorityVars, exposed>> /\ TimerQuiet

\* Mutant of FinalizerAllows: the recovery state is not read again.
FinalizerIgnoringRecovery ==
    /\ staged.bundle.request_id = desired_goal /\ staged.bundle.goal_epoch = goal_epoch
    /\ staged.bundle.localization_epoch = localization_epoch

\* The activation finalizer re-reads the recovery state, the latch, the desired
\* goal and the localization epoch, all under the owner locks, and queues the
\* planner acknowledgement, which may also fail.
FinalizerAllows ==
    /\ NominalPlanningAllowed(lifecycle.recovery)
    /\ staged.bundle.request_id = desired_goal /\ staged.bundle.goal_epoch = goal_epoch
    /\ staged.bundle.localization_epoch = localization_epoch

TimerActivate ==
    /\ timer # None /\ owner_lock = None
    /\ \E now \in 1..(MaxStamp + 1), finalized \in BOOLEAN :
         /\ ActivatePendingIfDueAndFinalize(now, timer, finalized)
         /\ finalized => FinalizerAllows
    /\ UNCHANGED <<timer, exposed>> /\ TimerQuiet

TimerDropStale ==
    /\ timer # None /\ owner_lock = None
    /\ \E now \in 1..(MaxStamp + 1) : DropStaleSuccessor(now, timer)
    /\ UNCHANGED <<timer, exposed>> /\ TimerQuiet

\* A sample inside the backup segment, or of an emergency bundle.
TimerSampledSafetyRole ==
    /\ timer # None /\ owner_lock = None /\ timer.active # None
    /\ active.bundle = timer.active
    /\ ObserveSampledSafetyRole(timer.active,
         IF timer.active.role = "Emergency" THEN "Emergency" ELSE "Backup")
    /\ UNCHANGED <<timer, exposed>> /\ TimerQuiet

TimerStoppedHold ==
    /\ timer # None /\ owner_lock = None /\ timer.active # None
    /\ active.bundle = timer.active
    /\ StoppedHold(timer.active)
    /\ UNCHANGED <<timer, exposed>> /\ TimerQuiet

TimerPreserveSafetySuffix ==
    /\ timer # None /\ owner_lock = None /\ PreserveSafetySuffix(timer.active)
    /\ UNCHANGED <<timer, exposed>> /\ TimerQuiet

\* The worker (a failed solve) and the timer (a safety suffix it cannot keep)
\* both fail closed against the snapshot they worked from.
TimerFailClosed ==
    /\ timer # None /\ owner_lock = None /\ FailClosedIfCurrentSnapshot(timer)
    /\ UNCHANGED <<timer, exposed>> /\ TimerQuiet

\* suspendCommandForWorldFreshness
TimerSuspend ==
    /\ timer # None /\ owner_lock = None
    /\ IsCurrentSnapshot(timer) /\ SuspendIfCurrentSnapshot(timer)
    /\ UNCHANGED <<timer, exposed>> /\ TimerQuiet

\* The final exposure: publishIfCurrent under the owner locks, with the active
\* pointer, the goal, the epochs and the freshness leases checked once more.
TimerExpose ==
    /\ timer # None /\ owner_lock = None /\ timer.active # None
    /\ timer.active.localization_epoch = localization_epoch
    /\ PublishIfCurrent(timer.active, timer.active.goal_epoch)
    /\ exposed' = timer.active
    /\ UNCHANGED <<authorityVars, timer>> /\ TimerQuiet

----------------------------------------------------------------------------
(* The mapping worker's publication of one world snapshot                  *)

MapperBecomes(next) == mapper' = next
MapperQuiet == UNCHANGED <<desired_goal, goal_epoch, localization_epoch, last_generation,
                           transaction_id, job, timer, anchored, exposed>>

\* Snapshot the timeline and validate its commands against the new world,
\* outside all locks.  renewed: the freshness lease granted to a kept command.
ValidateWorld ==
    /\ mapper.pc = "idle"
    /\ \E identity \in Worlds, retain, retain_pending \in BOOLEAN, renewed \in 1..MaxStamp :
         /\ WorldAdvances(identity)
         /\ retain => HasActive
         /\ retain_pending => HasStaged
         /\ MapperBecomes([IdleMapper EXCEPT !.pc = "validated",
              !.request = [identity |-> identity, version |-> timeline_version,
                           active |-> active.bundle, pending |-> staged.bundle,
                           retain |-> retain, retain_pending |-> retain_pending,
                           renewed |-> renewed]])
    /\ UNCHANGED <<authorityVars, owner_lock>> /\ MapperQuiet

\* Enter the owner locks and the publication gate.
PinWorld ==
    /\ mapper.pc = "validated" /\ owner_lock = None
    /\ mapper.request.identity.localization_epoch = localization_epoch
    /\ timeline_version = mapper.request.version
    /\ WorldAdvances(mapper.request.identity)
    /\ MapperBecomes([mapper EXCEPT !.pc = "pinned", !.pin = WorldPin])
    /\ owner_lock' = "mapper"
    /\ UNCHANGED authorityVars /\ MapperQuiet

\* Superseded: another timeline, or an old localization epoch, won.
WorldSuperseded ==
    /\ \/ /\ mapper.pc = "validated" /\ owner_lock = None
          /\ \/ mapper.request.identity.localization_epoch # localization_epoch
             \/ timeline_version # mapper.request.version
          /\ UNCHANGED owner_lock
       \/ /\ mapper.pc = "pinned"
          /\ ~WorldPinCurrent(mapper.request, mapper.pin)
          /\ owner_lock' = None
    /\ MapperBecomes(IdleMapper)
    /\ UNCHANGED authorityVars /\ MapperQuiet

ActiveCopy(copied) ==
    PreparedCopy(mapper.pin.active, mapper.request.identity, mapper.request.renewed, copied)
PendingCopy(copied) ==
    PreparedCopy(mapper.pin.pending, mapper.request.identity, 0, copied)

CommitWorld ==
    /\ mapper.pc = "pinned"
    /\ \E copied, pending_copied \in BOOLEAN :
         PublishWorldIdentity(mapper.request, mapper.pin,
           IF PrepareActive(mapper.request, mapper.pin) THEN ActiveCopy(copied) ELSE None,
           IF PreparePending(mapper.request, mapper.pin) THEN PendingCopy(pending_copied)
                                                         ELSE None)
    /\ MapperBecomes(IF mapper.request.active # None /\ mapper.request.retain
                       THEN [IdleMapper EXCEPT !.pc = "published"] ELSE IdleMapper)
    /\ owner_lock' = None
    /\ MapperQuiet

\* CandidateRejected: the worker then revokes without the owner locks and stops.
RejectWorld ==
    /\ mapper.pc = "pinned"
    /\ \E copied \in BOOLEAN :
         RejectWorldIdentity(mapper.request, mapper.pin, ActiveCopy(copied))
    /\ MapperBecomes([IdleMapper EXCEPT !.pc = "rejected"])
    /\ owner_lock' = None
    /\ MapperQuiet

InvalidateAfterReject ==
    /\ mapper.pc = "rejected"
    /\ Invalidate
    /\ MapperBecomes([IdleMapper EXCEPT !.pc = "stopped"])
    /\ UNCHANGED owner_lock /\ MapperQuiet

\* After a retained publication a suspended command may resume: the bundle is
\* read outside the locks and matched again inside them.
ReadRecertified ==
    /\ mapper.pc = "published"
    /\ MapperBecomes(IF HasActive /\ lifecycle.exposure = "Suspended"
                       THEN [IdleMapper EXCEPT !.pc = "resuming", !.bundle = active.bundle]
                       ELSE IdleMapper)
    /\ UNCHANGED <<authorityVars, owner_lock>> /\ MapperQuiet

MayResume ==
    /\ ActiveBundleIdentityMatches(mapper.bundle)
    /\ mapper.bundle.localization_epoch = localization_epoch
    /\ lifecycle.exposure = "Suspended"

ResumeCommand ==
    /\ mapper.pc = "resuming" /\ owner_lock = None
    /\ MayResume
    /\ ObserveRetainedCommand(mapper.bundle, lifecycle.safety = "SafetySuffix")
    /\ MapperBecomes(IdleMapper)
    /\ UNCHANGED owner_lock /\ MapperQuiet

ResumeRefused ==
    /\ mapper.pc = "resuming" /\ owner_lock = None
    /\ ~MayResume
    /\ MapperBecomes(IdleMapper)
    /\ UNCHANGED <<authorityVars, owner_lock>> /\ MapperQuiet

----------------------------------------------------------------------------
(* The callbacks and the worker's recovery branches, under the owner locks *)

OwnerQuiet == UNCHANGED <<last_generation, transaction_id, job, timer, mapper,
                          anchored, exposed>>

\* applyValidatedGoalLocked: a new desired goal, keeping or dropping the command.
\* Request ids are fresh, and numbered here by the revision they arrive in.
AcceptGoal ==
    /\ owner_lock = None /\ goal_epoch < MaxGoalEpoch
    /\ desired_goal' = goal_epoch + 1 /\ goal_epoch' = goal_epoch + 1
    /\ \E retain \in BOOLEAN : BeginGoal(localization_epoch, goal_epoch + 1, retain)
    /\ owner_lock' = "goal"
    /\ UNCHANGED localization_epoch /\ OwnerQuiet

\* advanceRevision, and the admission of the revision by the authority; an
\* exhausted revision revokes the command instead.
AdmitNextRevision ==
    \/ /\ goal_epoch < MaxGoalEpoch
       /\ goal_epoch' = goal_epoch + 1
       /\ SetAdmissionGoalEpoch(goal_epoch + 1, FALSE)
    \/ /\ goal_epoch = MaxGoalEpoch
       /\ UNCHANGED goal_epoch
       /\ Invalidate

\* resetForLocalizationEpochLocked, first authority call.
LocalizationReset ==
    /\ owner_lock = None /\ localization_epoch < MaxLocalizationEpoch
    /\ localization_epoch' = localization_epoch + 1
    /\ Reset(localization_epoch + 1)
    /\ owner_lock' = "reset"
    /\ UNCHANGED <<desired_goal, goal_epoch>> /\ OwnerQuiet

\* Its second: the goal is kept under a new revision, unless the revisions are
\* exhausted or a foreign mission is being held, which also fails closed.
AdmitAfterReset ==
    /\ owner_lock = "reset"
    /\ AdmitNextRevision
    /\ \E foreign_hold \in BOOLEAN :
         /\ desired_goal' = IF foreign_hold \/ goal_epoch = MaxGoalEpoch THEN None
                                                                       ELSE desired_goal
         /\ owner_lock' = IF foreign_hold THEN "owner" ELSE None
    /\ UNCHANGED localization_epoch /\ OwnerQuiet

\* onModeStatus (a terminal status) and transitionForeignMissionLocked begin by
\* admitting a revision without a goal.
DropGoal ==
    /\ owner_lock = None
    /\ AdmitNextRevision
    /\ desired_goal' = None
    /\ owner_lock' \in {"clearing", "revoking"}
    /\ UNCHANGED localization_epoch /\ OwnerQuiet

\* onModeStatus ends with clearGoal.  A terminal status deferred until the
\* measured stop starts with it, at the same revision, and then revokes.
ClearGoal ==
    /\ \/ owner_lock = "clearing" /\ owner_lock' = None
       \/ owner_lock = None /\ owner_lock' = "revoking"
    /\ desired_goal' = None
    /\ Reset(localization_epoch)
    /\ UNCHANGED <<goal_epoch, localization_epoch>> /\ OwnerQuiet

\* invalidate() before failClosedLocked(): the end of the two revocations above,
\* and the revocations that keep the desired goal.
RevokeToHold ==
    /\ owner_lock \in {None, "revoking"}
    /\ Invalidate
    /\ owner_lock' = "owner"
    /\ UNCHANGED <<desired_goal, goal_epoch, localization_epoch>> /\ OwnerQuiet

LifecycleQuiet == UNCHANGED <<desired_goal, goal_epoch, localization_epoch, owner_lock>> /\ OwnerQuiet

\* A lost execution lease, an invalid retained command, ...
OwnerFailClosed == owner_lock = None /\ FailClosed /\ LifecycleQuiet

\* A new intent that withdraws the current command until it is replaced.
OwnerSuspend == owner_lock = None /\ SuspendCommand /\ LifecycleQuiet

\* clearRestartFromRest: a call of its own, and the last one of AcceptGoal.
OwnerClearRestart ==
    /\ owner_lock \in {None, "goal"}
    /\ \/ ClearRestartFromRest
       \/ owner_lock = "goal" /\ lifecycle.restart = "None" /\ UNCHANGED authorityVars
    /\ owner_lock' = None
    /\ UNCHANGED <<desired_goal, goal_epoch, localization_epoch>> /\ OwnerQuiet

OwnerRequestRestart ==
    owner_lock = None /\ RequestRestartFromRest(active.bundle) /\ LifecycleQuiet

\* The measured stop of a braking command, the end of a terminal stop, a
\* backup the worker switched to, an emergency that could not be certified.
OwnerRecoveryEvent ==
    /\ owner_lock = None
    /\ \E event \in {"CertifiedStopObserved", "TerminalStopCompleted",
                     "BackupActivated", "EmergencyCertificationFailed"} :
         ApplyRecoveryEvent(event, active.bundle)
    /\ LifecycleQuiet

\* validateRetainedCommand keeps the current command.
OwnerRetain ==
    /\ owner_lock = None
    /\ \E suffix \in BOOLEAN : ObserveRetainedCommand(active.bundle, suffix)
    /\ LifecycleQuiet

----------------------------------------------------------------------------
ProducerStep(p) ==
    \/ StartSolve(p) \/ FinishSolve(p) \/ BeginCommit(p) \/ ChooseRoute(p)
    \/ PinAnchor(p) \/ ConfirmAnchor(p) \/ RefuseCandidate(p) \/ TakeTransaction(p)
    \/ SubmitSuccessor(p) \/ SuccessorRejected(p)
    \/ SubmitImmediate(p) \/ ImmediateRejected(p)
    \/ ReadCommitted(p) \/ ClearCommand(p) \/ ClearRejected(p)

\* Cutover and exposure; what the timer observes about the running command.
TimerStep == TimerSnapshot \/ TimerActivate \/ TimerDropStale \/ TimerExpose
TimerObservation ==
    \/ TimerSampledSafetyRole \/ TimerStoppedHold \/ TimerPreserveSafetySuffix
    \/ TimerFailClosed \/ TimerSuspend

MapperStep ==
    \/ ValidateWorld \/ PinWorld \/ WorldSuperseded \/ CommitWorld \/ RejectWorld
    \/ InvalidateAfterReject \/ ReadRecertified \/ ResumeCommand \/ ResumeRefused

GoalStep ==
    \/ AcceptGoal \/ LocalizationReset \/ AdmitAfterReset \/ DropGoal
    \/ ClearGoal \/ RevokeToHold \/ FailClosedAndUnlock

LifecycleStep ==
    \/ OwnerFailClosed \/ OwnerSuspend \/ OwnerClearRestart \/ OwnerRequestRestart
    \/ OwnerRecoveryEvent \/ OwnerRetain

Next ==
    \/ \E p \in Producers : ProducerStep(p)
    \/ TimerStep \/ TimerObservation \/ MapperStep \/ GoalStep \/ LifecycleStep

Spec == Init /\ [][Next]_vars

\* The remaining operations of the class, which its tests call and no thread of
\* the node does: commits that do not name a predecessor, and the finalizing
\* forms, whose rejected finalizer rolls everything back.
ApiStep(p) ==
    /\ job[p].pc = "submitting" /\ owner_lock = None
    /\ \E finalized \in BOOLEAN :
         \/ /\ job[p].anchor # None
            /\ StagePendingAndFinalize(job[p].token, job[p].anchor,
                 job[p].candidate.request_id, job[p].candidate, finalized)
            /\ anchored' = IF finalized THEN job[p].anchor ELSE anchored
         \/ /\ TryCommitAndFinalize(job[p].token, job[p].candidate.request_id,
                 job[p].candidate, finalized)
            /\ UNCHANGED anchored
         \/ /\ TryCommit(job[p].token, job[p].candidate.request_id, job[p].candidate)
            /\ UNCHANGED anchored
    /\ JobBecomes(p, IdleJob)
    /\ UNCHANGED <<desired_goal, goal_epoch, localization_epoch, last_generation, transaction_id,
                   owner_lock, timer, mapper, exposed>>

ApiNext == Next \/ \E p \in Producers : ApiStep(p)
ApiSpec == Init /\ [][ApiNext]_vars

----------------------------------------------------------------------------
SnapshotType ==
    [version: Nat, active: CandidateBundle \cup {None}, active_goal: Id \cup {None},
     lineage: Nat, pending: CandidateBundle \cup {None}, pending_activation: Nat,
     admission_goal_epoch: Nat, admission_localization_epoch: Nat,
     world: WorldIdentity \cup {None}, lifecycle: LifecycleState]

KeyType == [committed_generation: Nat, world: WorldIdentity, request_id: Id,
            goal_epoch: 1..MaxGoalEpoch, localization_epoch: Id]
PinType == [version: Nat, bundle: CandidateBundle, world: WorldIdentity, lineage: Nat]
JobType ==
    [pc: {"idle", "solving", "solved", "checked", "anchoring", "pinned", "validated",
          "submitting", "unqueued", "revoking"},
     key: KeyType \cup {None}, candidate: CandidateBundle \cup {None},
     snapshot: SnapshotType \cup {None}, pin: PinType \cup {None},
     anchor: Anchor \cup {None}, token: Token \cup {None}]
RequestType ==
    [identity: WorldIdentity, version: Nat, active: CandidateBundle \cup {None},
     pending: CandidateBundle \cup {None}, retain: BOOLEAN, retain_pending: BOOLEAN,
     renewed: Stamp]
WorldPinType == [world: WorldIdentity \cup {None}, active: CandidateBundle \cup {None},
                 pending: CandidateBundle \cup {None}]
MapperType ==
    [pc: {"idle", "validated", "pinned", "published", "resuming", "rejected", "stopped"},
     request: RequestType \cup {None}, pin: WorldPinType \cup {None},
     bundle: CandidateBundle \cup {None}]

LockHolders == {"planner", "heading", "mapper", "owner", "reset", "goal", "clearing", "revoking"}

ASSUME NullAssumption ==
    /\ None \notin SnapshotType /\ None \notin KeyType /\ None \notin PinType
    /\ None \notin Token /\ None \notin RequestType /\ None \notin WorldPinType
    /\ None \notin LockHolders

\* The timeline's variables have the types of the class's members.
AuthorityTypeOK ==
    /\ admission_goal_epoch \in Nat /\ admission_localization_epoch \in Nat
    /\ timeline_version \in Nat /\ active_lineage \in Nat /\ last_transaction_id \in Nat
    /\ world_identity \in WorldIdentity \cup {None}
    /\ active \in [goal: Id \cup {None}, bundle: CandidateBundle \cup {None}]
    /\ staged \in [goal: Id \cup {None}, bundle: CandidateBundle \cup {None}, activation: Nat]
    /\ lifecycle \in LifecycleState

\* The authority's state and what each thread holds on its stack are well typed;
\* in particular an anchor reserved by reserveAnchor always describes a command.
TypeOK ==
    /\ AuthorityTypeOK
    /\ desired_goal \in Id \cup {None}
    /\ goal_epoch \in 0..MaxGoalEpoch /\ localization_epoch \in Id
    /\ last_generation \in Nat /\ transaction_id \in Nat
    /\ owner_lock \in LockHolders \cup {None}
    /\ job \in [Producers -> JobType]
    /\ timer \in SnapshotType \cup {None}
    /\ mapper \in MapperType
    /\ anchored \in Anchor \cup {None}
    /\ exposed \in CandidateBundle \cup {None}

\* invariantHolds(), which schedulePlanningCycle checks on every tick and
\* answers with a revocation: a successor needs a predecessor, and goals and
\* bundles come and go together.
TimelineStructure ==
    /\ InvariantHolds
    /\ HasStaged <=> staged.activation > 0

\* Whatever the authority may execute now or at the next cutover was certified
\* against the world that is published now (publishWorldIdentityIfCurrent...,
\* stagePending, tryCommit).
CommandsCertified ==
    /\ HasActive => active.bundle.world = world_identity
    /\ HasStaged => staged.bundle.world = world_identity

\* A staged successor continues the command that is active now: the anchor it
\* was accepted on names the current lineage and generation, and it belongs to
\* the goal being admitted.  Nothing may slip under a successor between
\* stagePending and its activation.
SuccessorAnchored ==
    HasStaged =>
      /\ anchored.lineage = active_lineage
      /\ anchored.active_bundle_generation = active.bundle.generation
      /\ staged.bundle.planned_on = active.bundle.generation
      /\ staged.bundle.goal_epoch = admission_goal_epoch
      /\ staged.bundle.generation > active.bundle.generation

\* After a localization reset no command of the old frame is active or staged,
\* whatever a producer or the mapping worker still had in flight.
CommandsInCurrentFrame ==
    /\ HasActive => active.bundle.localization_epoch = localization_epoch
    /\ HasStaged => staged.bundle.localization_epoch = localization_epoch

\* An exposable command exists, and was committed in the epochs it is exposed in.
AvailableMeansCommand ==
    lifecycle.exposure = "Available" =>
      /\ HasActive
      /\ active.bundle.localization_epoch = admission_localization_epoch

HeldSnapshots == {job[p].snapshot : p \in Producers} \cup {timer}

\* The version is a faithful token: a thread whose snapshot has the current
\* version sees exactly the current state, lifecycle and world included, so
\* comparing versions (activate, invalidateIfCurrent, the world publication)
\* cannot be fooled by a state that changed and changed back.
VersionNamesState ==
    \A s \in HeldSnapshots \ {None} : s.version = timeline_version => s = Snapshot

\* execution_recovery_state.hpp: "a late nominal result cannot replace either
\* moving safety command".
MovingSafetyNotReplaced ==
    [][ lifecycle.recovery \in MovingSafety /\ HasActive /\ active'.bundle # None
          /\ active'.bundle.generation # active.bundle.generation
        => active'.bundle.role = "Emergency" ]_vars

\* The transport never sees a command older than one it has already seen.
ExposureNeverRegresses ==
    [][ exposed # None => exposed'.generation >= exposed.generation ]_vars

\* A failed command path is reopened only by dropping the command: no failed
\* command is ever exposed again (publishIfCurrent, observeRetainedCommand).
FailedCommandNotRevived ==
    [][ lifecycle.exposure = "Failed" /\ lifecycle'.exposure # "Failed"
        => active' = NoActive /\ staged' = NoStaged ]_vars

Identity(bundle) ==
    IF bundle = None THEN None
    ELSE <<bundle.localization_epoch, bundle.goal_epoch, bundle.request_id, bundle.generation>>

\* The lineage names the active command: as long as it stands still, an anchor
\* reserved on it still points at the same trajectory, recertified or not.
LineageNamesCommand ==
    [][ active_lineage' = active_lineage
        => Identity(active'.bundle) = Identity(active.bundle) ]_vars
=============================================================================
