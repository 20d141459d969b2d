------------------------- MODULE ExecutionAuthority -------------------------
(***************************************************************************)
(* The single owner of the command the vehicle executes                    *)
(* (navigation_execution/execution_authority.hpp).  It holds one active    *)
(* command, at most one staged successor, the world identity both were     *)
(* certified against, the goal and localization epochs new commands must   *)
(* carry, and the lifecycle record.  Every operation below is one critical *)
(* section of mutex_; an operation that the code runs as two critical      *)
(* sections (reserveAnchor, the world publication) is two definitions here *)
(* and its caller may be interrupted in between.                           *)
(*                                                                         *)
(* An operator that changes state is an action, enabled exactly when the   *)
(* call has an effect.  A rejected call returns early and changes nothing; *)
(* the callers do the same for every rejection, so the admission checks are *)
(* predicates (StageAdmissible, CommitAdmissible) and not an enumeration of *)
(* the decision codes.  Bundles and goals are shared_ptr's to immutable objects in the *)
(* code: a bundle is modelled by its contents, and since generations are   *)
(* unique and a recertified copy differs in its world, equality of the     *)
(* records is equality of the pointers.                                    *)
(***************************************************************************)
EXTENDS Naturals, ExecutionRecovery

CONSTANTS
    None,         \* the null pointer / the empty optional
    MaxVersion    \* bound on timeline_version (a uint64 in the code)

Id    == Nat \ {0}    \* the identifiers the code calls valid
Stamp == Nat \ {0}    \* nanosecond stamps

WorldIdentity ==
    [localization_epoch: Id, generation: Id, revision: Id, observation_stamp: Stamp]

\* The fields of CandidateBundle that ownership decisions look at.  planned_on
\* stands for the trajectory data: the generation whose sampled state the
\* candidate starts from (0 when it starts from a measured state).
CandidateBundle ==
    [generation: Id, planned_on: Nat, world: WorldIdentity,
     localization_epoch: Id, goal_epoch: Id, request_id: Id, role: Role,
     valid_from: Stamp, valid_until: Stamp]

Anchor ==
    [active_bundle_generation: Id, lineage: Nat, localization_epoch: Id,
     goal_epoch: Id, request_id: Id, activation: Stamp, command_world: WorldIdentity]

Token == [goal_epoch: Id, world: WorldIdentity, transaction_id: Id]

ASSUME MaxVersionAssumption == MaxVersion \in Nat

ASSUME NoneAssumption ==
    /\ None \notin WorldIdentity
    /\ None \notin CandidateBundle
    /\ None \notin Anchor
    /\ None \notin Nat

VARIABLES
    admission_goal_epoch, admission_localization_epoch,
    timeline_version,     \* bumped by every mutation: the optimistic token
    active_lineage,       \* bumped when the active command changes identity
    last_transaction_id,
    world_identity,       \* the published world, or None
    active,               \* [goal, bundle], both None or both present
    staged,               \* [goal, bundle, activation]
    lifecycle

authorityVars ==
    <<admission_goal_epoch, admission_localization_epoch, timeline_version,
      active_lineage, last_transaction_id, world_identity, active, staged, lifecycle>>

NoActive == [goal |-> None, bundle |-> None]
NoStaged == [goal |-> None, bundle |-> None, activation |-> 0]

HasActive == active.bundle # None
HasStaged == staged.bundle # None

AuthorityInit ==
    /\ admission_goal_epoch = 0
    /\ admission_localization_epoch = 0
    /\ timeline_version = 0
    /\ active_lineage = 0
    /\ last_transaction_id = 0
    /\ world_identity = None
    /\ active = NoActive
    /\ staged = NoStaged
    /\ lifecycle = InitialLifecycle

\* ExecutionAuthority::snapshot(): what a caller carries out of the lock.
Snapshot ==
    [version |-> timeline_version, active |-> active.bundle,
     active_goal |-> active.goal, lineage |-> active_lineage,
     pending |-> staged.bundle, pending_activation |-> staged.activation,
     admission_goal_epoch |-> admission_goal_epoch,
     admission_localization_epoch |-> admission_localization_epoch,
     world |-> world_identity, lifecycle |-> lifecycle]

\* CandidateBundle::valid(), of which the epoch and lease parts matter here.
Valid(bundle) ==
    /\ bundle.world.localization_epoch = bundle.localization_epoch
    /\ bundle.valid_from <= bundle.valid_until

\* advances(current, next)
Advances(current, next) ==
    IF next.localization_epoch # current.localization_epoch
      THEN next.localization_epoch > current.localization_epoch
      ELSE IF next.generation # current.generation
             THEN next.generation > current.generation
             ELSE /\ next.revision > current.revision
                  /\ next.observation_stamp >= current.observation_stamp

\* ++timeline_version_, n times in one critical section.
VersionMoves(n) ==
    timeline_version < MaxVersion /\ timeline_version' = timeline_version + n

\* Every revocation of an existing command moves the lineage.
LineageAfterRevocation ==
    IF HasActive THEN active_lineage + 1 ELSE active_lineage

\* activeBundleIdentityMatchesLocked
ActiveBundleIdentityMatches(bundle) ==
    /\ HasActive /\ active.goal # None /\ bundle # None
    /\ active.bundle.localization_epoch = bundle.localization_epoch
    /\ active.bundle.goal_epoch = bundle.goal_epoch
    /\ active.bundle.request_id = bundle.request_id
    /\ active.bundle.generation = bundle.generation

\* isCurrentSnapshot
IsCurrentSnapshot(expected) ==
    /\ timeline_version = expected.version
    /\ active.bundle = expected.active
    /\ active.goal = expected.active_goal
    /\ active_lineage = expected.lineage
    /\ admission_goal_epoch = expected.admission_goal_epoch
    /\ admission_localization_epoch = expected.admission_localization_epoch

----------------------------------------------------------------------------
(* Admission epochs                                                        *)

\* setAdmissionGoalEpoch: the localization epoch follows the published world,
\* whatever it is.
SetAdmissionGoalEpoch(goal_epoch, retain) ==
    /\ goal_epoch # 0 /\ goal_epoch >= admission_goal_epoch
    /\ admission_goal_epoch' = goal_epoch
    /\ admission_localization_epoch' =
         IF world_identity # None THEN world_identity.localization_epoch
                                  ELSE admission_localization_epoch
    /\ active' = IF retain THEN active ELSE NoActive
    /\ active_lineage' = IF retain THEN active_lineage ELSE LineageAfterRevocation
    /\ lifecycle' = IF retain THEN lifecycle ELSE InitialLifecycle
    /\ staged' = NoStaged
    /\ VersionMoves(1)
    /\ UNCHANGED <<last_transaction_id, world_identity>>

\* beginGoal: only an available command of the same localization epoch survives.
BeginGoal(localization_epoch, goal_epoch, retain_active) ==
    LET retain == /\ retain_active /\ HasActive /\ active.goal # None
                  /\ lifecycle.exposure = "Available"
                  /\ active.bundle.localization_epoch = localization_epoch
    IN  /\ goal_epoch # 0 /\ goal_epoch >= admission_goal_epoch
        /\ localization_epoch # 0
        /\ localization_epoch >= admission_localization_epoch
        /\ admission_goal_epoch' = goal_epoch
        /\ admission_localization_epoch' = localization_epoch
        /\ active' = IF retain THEN active ELSE NoActive
        /\ active_lineage' = IF retain THEN active_lineage ELSE LineageAfterRevocation
        /\ lifecycle' = IF retain THEN lifecycle ELSE InitialLifecycle
        /\ staged' = NoStaged
        /\ VersionMoves(1)
        /\ UNCHANGED <<last_transaction_id, world_identity>>

\* Mutant of Reset: the command of the old frame is kept.
ResetKeepingCommand(localization_epoch) ==
    /\ admission_localization_epoch' = localization_epoch
    /\ admission_goal_epoch' = 0
    /\ VersionMoves(1)
    /\ UNCHANGED <<active, staged, active_lineage, lifecycle, last_transaction_id,
                   world_identity>>

\* reset and clearGoal; the published world is kept.
Reset(localization_epoch) ==
    /\ admission_localization_epoch' = localization_epoch
    /\ admission_goal_epoch' = 0
    /\ active' = NoActive
    /\ active_lineage' = LineageAfterRevocation
    /\ lifecycle' = InitialLifecycle
    /\ staged' = NoStaged
    /\ VersionMoves(1)
    /\ UNCHANGED <<last_transaction_id, world_identity>>

\* Mutant of Invalidate: clearStagedLocked is forgotten.
InvalidateKeepingSuccessor ==
    /\ active' = NoActive
    /\ active_lineage' = LineageAfterRevocation
    /\ lifecycle' = InitialLifecycle
    /\ VersionMoves(1)
    /\ UNCHANGED <<admission_goal_epoch, admission_localization_epoch, staged,
                   last_transaction_id, world_identity>>

\* invalidate
Invalidate ==
    /\ active' = NoActive
    /\ active_lineage' = LineageAfterRevocation
    /\ lifecycle' = InitialLifecycle
    /\ staged' = NoStaged
    /\ VersionMoves(1)
    /\ UNCHANGED <<admission_goal_epoch, admission_localization_epoch,
                   last_transaction_id, world_identity>>

\* Mutant of Withdrawn: a revoked command stays available.
NotWithdrawn(life) == life

\* clearActiveLocked's effect on the lifecycle: only availability is withdrawn.
Withdrawn(life) ==
    IF life.exposure = "Available" THEN [life EXCEPT !.exposure = "Unavailable"] ELSE life

\* invalidateIfCurrent: the lineage moves even when there was no command.
InvalidateIfCurrent(expected) ==
    /\ timeline_version = expected.version
    /\ active.bundle = expected.active
    /\ active' = NoActive
    /\ lifecycle' = Withdrawn(lifecycle)
    /\ active_lineage' = active_lineage + 1
    /\ staged' = NoStaged
    /\ VersionMoves(1)
    /\ UNCHANGED <<admission_goal_epoch, admission_localization_epoch,
                   last_transaction_id, world_identity>>

----------------------------------------------------------------------------
(* Lifecycle facts                                                         *)

\* Mutant of LifecycleBecomes: the version is not moved.
LifecycleBecomesSilently(life) ==
    /\ lifecycle' = life
    /\ UNCHANGED <<admission_goal_epoch, admission_localization_epoch, active_lineage,
                   timeline_version, last_transaction_id, world_identity, active, staged>>

\* noteLifecycleChangeLocked: the version moves only if a facet changed.
LifecycleBecomes(life) ==
    /\ lifecycle' = life
    /\ IF life # lifecycle THEN VersionMoves(1) ELSE UNCHANGED timeline_version
    /\ UNCHANGED <<admission_goal_epoch, admission_localization_epoch, active_lineage,
                   last_transaction_id, world_identity, active, staged>>

NotFailed == lifecycle.exposure # "Failed"

FailClosed == LifecycleBecomes(FailedLifecycle)

\* Mutant of SuspendCommand: a failed path is suspended too.
SuspendCommandAlways == LifecycleBecomes([lifecycle EXCEPT !.exposure = "Suspended"])

SuspendCommand ==
    NotFailed /\ LifecycleBecomes([lifecycle EXCEPT !.exposure = "Suspended"])

ClearRestartFromRest ==
    /\ lifecycle.restart # "None"
    /\ LifecycleBecomes([lifecycle EXCEPT !.restart = "None"])

TrackingPhase(role) == IF role \in SafetyRole THEN "TrackingBackup" ELSE "TrackingMain"

ObserveRetainedCommand(bundle, safety_suffix_active) ==
    /\ NotFailed /\ ActiveBundleIdentityMatches(bundle)
    /\ LifecycleBecomes([lifecycle EXCEPT
         !.exposure = "Available",
         !.safety = IF safety_suffix_active THEN "SafetySuffix" ELSE "Nominal",
         !.phase = TrackingPhase(bundle.role)])

ObserveSampledSafetyRole(bundle, sampled_role) ==
    /\ NotFailed /\ ActiveBundleIdentityMatches(bundle)
    /\ sampled_role \in SafetyRole
    /\ LifecycleBecomes([lifecycle EXCEPT
         !.phase = "TrackingBackup", !.safety = "SafetySuffix",
         !.recovery = TransitionExecutionRecovery(@, RoleEvent(sampled_role))])

PreserveSafetySuffix(bundle) ==
    /\ lifecycle.exposure = "Available" /\ ActiveBundleIdentityMatches(bundle)
    /\ LifecycleBecomes([lifecycle EXCEPT !.safety = "SafetySuffix"])

RequestRestartFromRest(bundle) ==
    /\ NotFailed /\ ActiveBundleIdentityMatches(bundle)
    /\ LifecycleBecomes([lifecycle EXCEPT !.restart = "FromRest"])

ApplyRecoveryEvent(event, bundle) ==
    /\ NotFailed /\ ActiveBundleIdentityMatches(bundle)
    /\ LifecycleBecomes([lifecycle EXCEPT
         !.recovery = TransitionExecutionRecovery(@, event)])

StoppedHold(bundle) ==
    /\ NotFailed /\ ActiveBundleIdentityMatches(bundle)
    /\ LifecycleBecomes([lifecycle EXCEPT
         !.phase = "StoppedHold", !.exposure = "Available", !.safety = "Nominal"])

FailClosedIfCurrentSnapshot(expected) ==
    IsCurrentSnapshot(expected) /\ NotFailed /\ LifecycleBecomes(FailedLifecycle)

SuspendIfCurrentSnapshot(expected) ==
    /\ expected.active # None /\ expected.active_goal # None
    /\ timeline_version = expected.version
    /\ active.bundle = expected.active /\ active.goal = expected.active_goal
    /\ active_lineage = expected.lineage
    /\ NotFailed
    /\ LifecycleBecomes([lifecycle EXCEPT !.exposure = "Suspended"])

\* committedLifecycleLocked, for a bundle that has just become active with
\* this goal over a predecessor of this generation (0: none).
CommittedLifecycle(bundle, goal, previous_generation) ==
    IF \/ lifecycle.exposure = "Failed"
       \/ bundle.generation <= previous_generation
       \/ bundle.localization_epoch # admission_localization_epoch
       \/ bundle.goal_epoch # admission_goal_epoch
       \/ goal # bundle.request_id
      THEN lifecycle
      ELSE [lifecycle EXCEPT
              !.exposure = "Available",
              !.safety = IF bundle.role \in SafetyRole THEN "SafetySuffix" ELSE "Nominal",
              !.phase = TrackingPhase(bundle.role),
              !.recovery = TransitionExecutionRecovery(@, RoleEvent(bundle.role))]

ActiveGeneration == IF HasActive THEN active.bundle.generation ELSE 0

----------------------------------------------------------------------------
(* Anchors and staged successors                                           *)

\* reserveAnchor, first critical section: what the evaluator is pinned to.
AnchorPin == [version |-> timeline_version, bundle |-> active.bundle,
              world |-> world_identity, lineage |-> active_lineage]

\* Mutant of AnchorAvailable: an absent predecessor is pinned as well.
AnchorUnchecked(activation) == activation > 0

AnchorAvailable(activation) ==
    /\ HasActive /\ world_identity # None
    /\ world_identity = active.bundle.world
    /\ activation >= active.bundle.valid_from
    /\ activation <= active.bundle.valid_until

\* The anchor computed from the pinned predecessor, outside the lock.
AnchorOf(pin, activation) ==
    [active_bundle_generation |-> pin.bundle.generation, lineage |-> pin.lineage,
     localization_epoch |-> pin.bundle.localization_epoch,
     goal_epoch |-> pin.bundle.goal_epoch, request_id |-> pin.bundle.request_id,
     activation |-> activation, command_world |-> pin.bundle.world]

\* reserveAnchor, second critical section.
AnchorStillCurrent(pin) ==
    /\ timeline_version = pin.version
    /\ HasActive /\ active.bundle = pin.bundle
    /\ world_identity # None /\ world_identity = pin.world

\* predecessorMatchesAnchor.  The role and the ends it recomputes are
\* functions of the immutable trajectory, so they match when the generation does.
PredecessorMatchesAnchor(predecessor, anchor) ==
    /\ Valid(predecessor)
    /\ predecessor.generation = anchor.active_bundle_generation
    /\ predecessor.localization_epoch = anchor.localization_epoch
    /\ predecessor.goal_epoch = anchor.goal_epoch
    /\ predecessor.request_id = anchor.request_id
    /\ predecessor.world = anchor.command_world
    /\ anchor.activation >= predecessor.valid_from
    /\ anchor.activation <= predecessor.valid_until

\* Mutant of StageAdmissible: the predecessor is not compared with the anchor.
StageAdmissibleUnanchored(token, anchor, goal, candidate) ==
    /\ goal = candidate.request_id /\ Valid(candidate)
    /\ candidate.world = token.world /\ world_identity = token.world
    /\ NotFailed /\ HasActive
    /\ admission_goal_epoch = token.goal_epoch
    /\ token.transaction_id > last_transaction_id

\* The early returns of stagePending, all passed.
StageAdmissible(token, anchor, goal, candidate) ==
    /\ goal = candidate.request_id /\ Valid(candidate)
    /\ candidate.valid_from = anchor.activation
    /\ candidate.localization_epoch = anchor.localization_epoch
    /\ candidate.world = token.world
    /\ admission_goal_epoch # 0
    /\ NotFailed
    /\ admission_goal_epoch = token.goal_epoch
    /\ candidate.goal_epoch = token.goal_epoch
    /\ world_identity = token.world
    /\ token.transaction_id > last_transaction_id
    /\ candidate.valid_until >= anchor.activation
    /\ active_lineage = anchor.lineage
    /\ HasActive /\ PredecessorMatchesAnchor(active.bundle, anchor)

StagePending(token, anchor, goal, candidate) ==
    /\ StageAdmissible(token, anchor, goal, candidate)
    /\ staged' = [goal |-> goal, bundle |-> candidate, activation |-> anchor.activation]
    /\ last_transaction_id' = token.transaction_id
    /\ VersionMoves(1)
    /\ UNCHANGED <<admission_goal_epoch, admission_localization_epoch, active_lineage,
                   world_identity, active, lifecycle>>

\* stagePendingAndFinalize: a rejecting finalizer restores the previous
\* successor and watermark, and the version has moved twice.
StagePendingAndFinalize(token, anchor, goal, candidate, finalized) ==
    IF finalized THEN StagePending(token, anchor, goal, candidate)
    ELSE /\ StageAdmissible(token, anchor, goal, candidate)
         /\ VersionMoves(2)
         /\ UNCHANGED <<admission_goal_epoch, admission_localization_epoch, active_lineage,
                        last_transaction_id, world_identity, active, staged, lifecycle>>

\* A successor may only be looked at with the exact token it was read with.
ActivationDue(now, expected) ==
    /\ NotFailed /\ HasStaged /\ HasActive
    /\ staged.activation > 0 /\ now >= staged.activation
    /\ timeline_version = expected.version
    /\ staged.activation = expected.pending_activation
    /\ expected.pending # None => staged.bundle = expected.pending

\* What the successor must still satisfy at the activation instant.
SuccessorCurrent(now) ==
    /\ staged.goal # None /\ active.goal # None
    /\ staged.goal = staged.bundle.request_id
    /\ world_identity = staged.bundle.world
    /\ admission_goal_epoch = staged.bundle.goal_epoch
    /\ now <= staged.bundle.valid_until
    /\ Valid(staged.bundle) /\ Valid(active.bundle)
    /\ world_identity = active.bundle.world

\* activatePendingIfDueAndFinalize: drop a stale successor, or swap it in and
\* run the finalizer; a rejecting finalizer restores the predecessor but not
\* the successor.
DropStaleSuccessor(now, expected) ==
    /\ \/ NotFailed /\ HasStaged /\ ~HasActive
       \/ ActivationDue(now, expected) /\ ~SuccessorCurrent(now)
    /\ staged' = NoStaged
    /\ VersionMoves(1)
    /\ UNCHANGED <<admission_goal_epoch, admission_localization_epoch, active_lineage,
                   last_transaction_id, world_identity, active, lifecycle>>

ActivatePendingIfDueAndFinalize(now, expected, finalized) ==
    /\ ActivationDue(now, expected) /\ SuccessorCurrent(now)
    /\ staged' = NoStaged
    /\ IF finalized
         THEN /\ active' = [goal |-> staged.goal, bundle |-> staged.bundle]
              /\ lifecycle' = CommittedLifecycle(staged.bundle, staged.goal, ActiveGeneration)
              /\ active_lineage' = active_lineage + 1
              /\ VersionMoves(1)
         ELSE /\ VersionMoves(2)
              /\ UNCHANGED <<active, lifecycle, active_lineage>>
    /\ UNCHANGED <<admission_goal_epoch, admission_localization_epoch,
                   last_transaction_id, world_identity>>

----------------------------------------------------------------------------
(* Immediate commits                                                       *)

\* Mutant of CommitAdmissible: the world may have moved on.
CommitAdmissibleAnyWorld(token, goal, candidate) ==
    /\ goal = candidate.request_id /\ Valid(candidate)
    /\ admission_goal_epoch # 0
    /\ NotFailed
    /\ admission_goal_epoch = token.goal_epoch
    /\ candidate.goal_epoch = token.goal_epoch
    /\ token.transaction_id > last_transaction_id
    /\ candidate.generation >= ActiveGeneration

\* The early returns the three commit operations share.
CommitAdmissible(token, goal, candidate) ==
    /\ goal = candidate.request_id /\ Valid(candidate)
    /\ admission_goal_epoch # 0
    /\ NotFailed
    /\ admission_goal_epoch = token.goal_epoch
    /\ candidate.goal_epoch = token.goal_epoch
    /\ world_identity = token.world
    /\ world_identity = candidate.world
    /\ token.transaction_id > last_transaction_id
    /\ candidate.generation >= ActiveGeneration

Commit(token, goal, candidate) ==
    /\ active' = [goal |-> goal, bundle |-> candidate]
    /\ lifecycle' = CommittedLifecycle(candidate, goal, ActiveGeneration)
    /\ active_lineage' = active_lineage + 1
    /\ staged' = NoStaged
    /\ last_transaction_id' = token.transaction_id
    /\ VersionMoves(1)
    /\ UNCHANGED <<admission_goal_epoch, admission_localization_epoch, world_identity>>

TryCommit(token, goal, candidate) ==
    CommitAdmissible(token, goal, candidate) /\ Commit(token, goal, candidate)

\* tryCommitIfCurrent: additionally the exact predecessor timeline, and the
\* bounded admission callback.
PredecessorCurrent(predecessor) ==
    /\ timeline_version = predecessor.version
    /\ active.bundle = predecessor.active
    /\ staged.bundle = predecessor.pending
    /\ staged.activation = predecessor.pending_activation

\* Mutant of TryCommitIfCurrent: the candidate is compared with the snapshot's
\* command instead of the active one.
TryCommitOverSnapshot(token, predecessor, goal, candidate, admitted) ==
    /\ admitted /\ goal = candidate.request_id /\ Valid(candidate) /\ NotFailed
    /\ admission_goal_epoch = token.goal_epoch /\ world_identity = candidate.world
    /\ token.transaction_id > last_transaction_id
    /\ predecessor.active # None => candidate.generation >= predecessor.active.generation
    /\ Commit(token, goal, candidate)

TryCommitIfCurrent(token, predecessor, goal, candidate, admitted) ==
    /\ CommitAdmissible(token, goal, candidate)
    /\ PredecessorCurrent(predecessor)
    /\ admitted
    /\ Commit(token, goal, candidate)

\* Mutant of TryCommitAndFinalize: the rejected candidate is left in place.
TryCommitWithoutRollback(token, goal, candidate, finalized) ==
    /\ CommitAdmissible(token, goal, candidate)
    /\ IF finalized
         THEN Commit(token, goal, candidate)
         ELSE /\ active' = [goal |-> goal, bundle |-> candidate]
              /\ VersionMoves(2)
              /\ UNCHANGED <<admission_goal_epoch, admission_localization_epoch,
                             active_lineage, last_transaction_id, world_identity,
                             staged, lifecycle>>

\* tryCommitAndFinalize: a rejecting finalizer restores everything but the version.
TryCommitAndFinalize(token, goal, candidate, finalized) ==
    /\ CommitAdmissible(token, goal, candidate)
    /\ IF finalized
         THEN Commit(token, goal, candidate)
         ELSE /\ VersionMoves(2)
              /\ UNCHANGED <<admission_goal_epoch, admission_localization_epoch,
                             active_lineage, last_transaction_id, world_identity,
                             active, staged, lifecycle>>

----------------------------------------------------------------------------
(* World publication                                                       *)

\* A publication request: the new identity, the timeline version it was
\* validated against, and the verdicts on the commands validated against it.
WorldPin == [world |-> world_identity, active |-> active.bundle, pending |-> staged.bundle]

\* First critical section; WorldAdvanced and Superseded are the two refusals.
WorldAdvances(identity) == world_identity # None => Advances(world_identity, identity)

\* The copy of a command certified against the new world.  renewed is the new
\* lease, already capped at the declared end of the trajectory.
Recertified(bundle, identity, renewed) ==
    [bundle EXCEPT !.world = identity,
                   !.valid_until = IF renewed > @ THEN renewed ELSE @]

ExactActiveOwner(request, pin) ==
    /\ request.active # None /\ pin.active = request.active
    /\ pin.world # None /\ pin.active.world = pin.world

PrepareActive(request, pin) == request.retain /\ ExactActiveOwner(request, pin)

PreparePending(request, pin) ==
    /\ PrepareActive(request, pin)
    /\ request.retain_pending /\ request.pending # None
    /\ pin.pending = request.pending /\ pin.pending.world = pin.world

\* The copies made between the two critical sections.  Making one may throw,
\* and a copy that is not valid is discarded; 0 renews nothing.
PreparedCopy(source, identity, renewed, copied) ==
    IF copied /\ Valid(Recertified(source, identity, renewed))
      THEN Recertified(source, identity, renewed) ELSE None

WorldPinCurrent(request, pin) ==
    /\ timeline_version = request.version
    /\ active.bundle = pin.active /\ staged.bundle = pin.pending
    /\ world_identity = pin.world

\* Second critical section, when the active command could not be copied: both
\* commands go, and the world transaction is not consumed (CandidateRejected).
RejectWorldIdentity(request, pin, active_copy) ==
    /\ WorldPinCurrent(request, pin) /\ WorldAdvances(request.identity)
    /\ PrepareActive(request, pin) /\ active_copy = None
    /\ active' = NoActive
    /\ staged' = NoStaged
    /\ active_lineage' = active_lineage + 1
    /\ lifecycle' = FailedLifecycle
    /\ VersionMoves(1)
    /\ UNCHANGED <<admission_goal_epoch, admission_localization_epoch,
                   last_transaction_id, world_identity>>

\* Second critical section, otherwise: the world is published, and with it the
\* certified copies of the commands; a command without one is revoked.
PublishWorldIdentity(request, pin, active_copy, pending_copy) ==
    /\ WorldPinCurrent(request, pin) /\ WorldAdvances(request.identity)
    /\ PrepareActive(request, pin) => active_copy # None
    /\ IF PrepareActive(request, pin)
         THEN /\ active' = [active EXCEPT !.bundle = active_copy]
              /\ UNCHANGED <<active_lineage, lifecycle>>
         ELSE /\ active' = NoActive
              /\ active_lineage' = LineageAfterRevocation
              /\ lifecycle' = IF HasActive THEN FailedLifecycle ELSE lifecycle
    /\ staged' = IF PreparePending(request, pin) /\ pending_copy # None
                   THEN [staged EXCEPT !.bundle = pending_copy] ELSE NoStaged
    /\ world_identity' = request.identity
    /\ VersionMoves(1)
    /\ UNCHANGED <<admission_goal_epoch, admission_localization_epoch, last_transaction_id>>

----------------------------------------------------------------------------
\* publishIfCurrent: the command that reaches the transport is the active one,
\* available, of the expected goal, and certified against the published world.
\* The callback runs inside the critical section.
PublishIfCurrent(expected, expected_goal_epoch) ==
    /\ expected # None /\ active.bundle = expected
    /\ lifecycle.exposure = "Available"
    /\ active.bundle.goal_epoch = expected_goal_epoch
    /\ world_identity # None /\ world_identity = expected.world

\* invariantHolds
InvariantHolds ==
    /\ HasStaged => HasActive
    /\ (active.goal # None) <=> HasActive
    /\ (staged.goal # None) <=> HasStaged
=============================================================================
