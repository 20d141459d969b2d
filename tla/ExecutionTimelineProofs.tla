----------------------- MODULE ExecutionTimelineProofs -----------------------
(***************************************************************************)
(* Proofs about ExecutionTimeline, for every set of producers, worlds and  *)
(* roles and every bound.                                                  *)
(***************************************************************************)
EXTENDS ExecutionAuthorityProofs

\* What a producer carries between its steps: the key it planned for, and a
\* candidate, snapshot, pin, anchor and token that were derived from it, given
\* the last generation, the goal epoch and the two admission epochs.
JobOK(j, generation, goal, admitted, frame) ==
    /\ j.pc # "idle" =>
         /\ j.key # None
         /\ j.key.committed_generation <= generation
         /\ j.key.goal_epoch <= goal
         /\ j.key.goal_epoch = admitted => j.key.localization_epoch = frame
    /\ j.pc \notin {"idle", "solving"} =>
         /\ j.candidate # None
         /\ j.candidate.planned_on = j.key.committed_generation
         /\ j.candidate.planned_on < j.candidate.generation
         /\ j.candidate.generation <= generation
         /\ j.candidate.localization_epoch = j.key.localization_epoch
         /\ j.candidate.goal_epoch = j.key.goal_epoch
    /\ j.pc \in {"checked", "anchoring", "pinned", "validated", "submitting", "revoking"} =>
         j.snapshot # None
    /\ j.pc = "pinned" => j.pin # None
    /\ j.pc = "submitting" => j.token # None /\ j.token.goal_epoch = j.candidate.goal_epoch
    /\ j.anchor # None =>
         /\ j.pc \in {"validated", "submitting"}
         /\ j.candidate.planned_on = j.anchor.active_bundle_generation

JobShape ==
    \A p \in Producers :
      JobOK(job[p], last_generation, goal_epoch, admission_goal_epoch,
            admission_localization_epoch)

\* An immediate commit over a moving command was routed at a measured stop, and
\* as long as its snapshot is current the vehicle still stands.
ImmediateFromRest ==
    \A p \in Producers :
      /\ job[p].pc \in {"validated", "submitting"} /\ job[p].anchor = None
      /\ job[p].candidate.role # "Emergency" /\ job[p].snapshot.active # None
      /\ job[p].snapshot.version = timeline_version
      => lifecycle.recovery = "StoppedRecovery"

MapperShape ==
    /\ mapper.pc \in {"validated", "pinned"} => mapper.request # None
    /\ mapper.pc = "pinned" => mapper.pin # None
    /\ mapper.pc = "resuming" => mapper.bundle # None

\* VersionNamesState, and no snapshot comes from the future.
SnapshotsExact ==
    \A s \in HeldSnapshots \ {None} :
      s.version <= timeline_version /\ (s.version = timeline_version => s = Snapshot)

\* The frame and the generation of the commands.
Frame ==
    /\ HasActive => /\ active.bundle.localization_epoch = admission_localization_epoch
                    /\ active.bundle.localization_epoch = localization_epoch
                    /\ active.bundle.generation <= last_generation
    /\ HasStaged => staged.bundle.generation <= last_generation
    /\ admission_goal_epoch <= goal_epoch
    /\ owner_lock = "reset" => ~HasActive /\ ~HasStaged

Unsubmitted == {"solving", "solved", "checked", "anchoring", "pinned", "validated",
                "submitting"}

\* The exposed command is no younger than the active one.  Only the planning
\* worker plans without a predecessor, and as long as it does, no command can
\* become active, so none younger than its candidate is exposed.
ExposureOrder ==
    /\ exposed # None =>
         /\ exposed.generation <= last_generation
         /\ HasActive => exposed.generation <= active.bundle.generation
    /\ \A p \in Producers :
         job[p].pc \in Unsubmitted /\ job[p].key.committed_generation = 0 =>
           /\ p = "planner"
           /\ ~HasActive
           /\ job[p].pc # "solving" /\ exposed # None =>
                exposed.generation < job[p].candidate.generation

IInv ==
    /\ TypeOK /\ JobShape /\ ImmediateFromRest /\ MapperShape /\ SnapshotsExact /\ Frame
    /\ TimelineStructure /\ CommandsCertified /\ SuccessorAnchored
    /\ CommandsInCurrentFrame /\ AvailableMeansCommand /\ ExposureOrder

\* snapshot() of a well-typed authority is a well-typed snapshot.
LEMMA SnapshotTyped ==
  ASSUME AuthorityTypeOK
  PROVE  Snapshot \in SnapshotType
BY Zenon DEF AuthorityTypeOK, Snapshot, SnapshotType

----------------------------------------------------------------------------
(* Which authority call a step makes                                       *)

\* A recovery event keeps every other facet.
LEMMA RecoveryFacet ==
  ASSUME lifecycle \in LifecycleState, NEW event \in RecoveryEvent
  PROVE  [lifecycle EXCEPT !.recovery = TransitionExecutionRecovery(@, event)] \in LifecycleState
<1>1. TransitionExecutionRecovery(lifecycle.recovery, event) \in RecoveryState
  BY Zenon, RecoveryClosed DEF LifecycleState
<1> QED BY Zenon, <1>1 DEF LifecycleState

\* Each lifecycle operation of the authority is one change of the lifecycle alone.
LEMMA LifecycleCalls ==
  ASSUME AuthorityTypeOK, AvailableMeansCommand,
         \/ FailClosed \/ SuspendCommand \/ ClearRestartFromRest
         \/ \E bundle, suffix : ObserveRetainedCommand(bundle, suffix)
         \/ \E bundle, role : ObserveSampledSafetyRole(bundle, role)
         \/ \E bundle : PreserveSafetySuffix(bundle) \/ RequestRestartFromRest(bundle)
                        \/ StoppedHold(bundle)
         \/ \E bundle : \E event \in RecoveryEvent : ApplyRecoveryEvent(event, bundle)
         \/ \E expected : FailClosedIfCurrentSnapshot(expected)
         \/ \E expected : SuspendIfCurrentSnapshot(expected)
  PROVE  LifecycleChange
<1> USE DEF AuthorityTypeOK, NotFailed, LifecycleChange
<1>1. FailedLifecycle \in LifecycleState /\ FailedLifecycle.exposure = "Failed"
  BY Zenon DEF FailedLifecycle, LifecycleState, Phase, RecoveryState, Exposure, Safety, Restart
<1>2. CASE FailClosed \/ \E expected : FailClosedIfCurrentSnapshot(expected)
  BY Zenon, <1>1, <1>2 DEF FailClosed, FailClosedIfCurrentSnapshot
<1>3. CASE SuspendCommand \/ \E expected : SuspendIfCurrentSnapshot(expected)
  <2> DEFINE life == [lifecycle EXCEPT !.exposure = "Suspended"]
  <2>1. life \in LifecycleState /\ life.exposure = "Suspended" /\ lifecycle.exposure # "Failed"
    BY Zenon, <1>3 DEF LifecycleState, Exposure, SuspendCommand, SuspendIfCurrentSnapshot
  <2>2. LifecycleBecomes(life)
    BY Zenon, <1>3 DEF SuspendCommand, SuspendIfCurrentSnapshot
  <2> HIDE DEF life
  <2> QED BY Zenon, <2>1, <2>2
<1>4. CASE ClearRestartFromRest
  <2> DEFINE life == [lifecycle EXCEPT !.restart = "None"]
  <2>1. life \in LifecycleState /\ life.exposure = lifecycle.exposure
    BY Zenon DEF LifecycleState, Restart
  <2>2. LifecycleBecomes(life)
    BY Zenon, <1>4 DEF ClearRestartFromRest
  <2> HIDE DEF life
  <2> QED BY Zenon, <2>1, <2>2 DEF AvailableMeansCommand
<1>5. CASE \E bundle, suffix : ObserveRetainedCommand(bundle, suffix)
  <2>1. PICK bundle, suffix : ObserveRetainedCommand(bundle, suffix)
    BY Zenon, <1>5
  <2> DEFINE life == [lifecycle EXCEPT !.exposure = "Available",
                        !.safety = IF suffix THEN "SafetySuffix" ELSE "Nominal",
                        !.phase = TrackingPhase(bundle.role)]
  <2>2. life \in LifecycleState
    BY ZenonT(60) DEF LifecycleState, Exposure, Safety, Phase, TrackingPhase
  <2>3. LifecycleBecomes(life) /\ lifecycle.exposure # "Failed" /\ HasActive
    BY ZenonT(60), <2>1 DEF ObserveRetainedCommand, ActiveBundleIdentityMatches
  <2> HIDE DEF life
  <2> QED BY Zenon, <2>2, <2>3
<1>6. CASE \E bundle, role : ObserveSampledSafetyRole(bundle, role)
  <2>1. PICK bundle, role : ObserveSampledSafetyRole(bundle, role)
    BY Zenon, <1>6
  <2> DEFINE life == [lifecycle EXCEPT !.phase = "TrackingBackup", !.safety = "SafetySuffix",
                        !.recovery = TransitionExecutionRecovery(@, RoleEvent(role))]
  <2>2. RoleEvent(role) \in RecoveryEvent
    BY ZenonT(60), <2>1 DEF ObserveSampledSafetyRole, SafetyRole, RoleEvent, RecoveryEvent
  <2>3. TransitionExecutionRecovery(lifecycle.recovery, RoleEvent(role)) \in RecoveryState
    BY Zenon, <2>2, RecoveryClosed DEF LifecycleState
  <2>4. life \in LifecycleState
    BY ZenonT(60), <2>3 DEF LifecycleState, Safety, Phase
  <2>5. LifecycleBecomes(life) /\ lifecycle.exposure # "Failed" /\ HasActive
    BY ZenonT(60), <2>1 DEF ObserveSampledSafetyRole, ActiveBundleIdentityMatches
  <2> HIDE DEF life
  <2> QED BY Zenon, <2>4, <2>5
<1>7. CASE \E bundle : PreserveSafetySuffix(bundle) \/ RequestRestartFromRest(bundle)
                        \/ StoppedHold(bundle)
  <2> DEFINE kept == [lifecycle EXCEPT !.safety = "SafetySuffix"]
             restarted == [lifecycle EXCEPT !.restart = "FromRest"]
             held == [lifecycle EXCEPT !.phase = "StoppedHold", !.exposure = "Available",
                                       !.safety = "Nominal"]
  <2>1. kept \in LifecycleState /\ restarted \in LifecycleState /\ held \in LifecycleState
    BY ZenonT(60) DEF LifecycleState, Exposure, Safety, Phase, Restart
  <2>2. LifecycleBecomes(kept) \/ LifecycleBecomes(restarted) \/ LifecycleBecomes(held)
    BY Zenon, <1>7 DEF PreserveSafetySuffix, RequestRestartFromRest, StoppedHold
  <2>3. lifecycle.exposure # "Failed" /\ HasActive
    BY Zenon, <1>7 DEF PreserveSafetySuffix, RequestRestartFromRest, StoppedHold,
                ActiveBundleIdentityMatches
  <2> HIDE DEF kept, restarted, held
  <2> QED BY Zenon, <2>1, <2>2, <2>3
<1>8. CASE \E bundle : \E event \in RecoveryEvent : ApplyRecoveryEvent(event, bundle)
  <2>1. PICK bundle : \E event \in RecoveryEvent : ApplyRecoveryEvent(event, bundle)
    BY Zenon, <1>8
  <2>2. PICK event \in RecoveryEvent : ApplyRecoveryEvent(event, bundle)
    BY Zenon, <2>1
  <2> DEFINE life == [lifecycle EXCEPT !.recovery = TransitionExecutionRecovery(@, event)]
  <2>3. life \in LifecycleState
    BY Zenon, RecoveryFacet
  <2>4. LifecycleBecomes(life) /\ lifecycle.exposure # "Failed" /\ HasActive
    BY Zenon, <2>2 DEF ApplyRecoveryEvent, ActiveBundleIdentityMatches
  <2> HIDE DEF life
  <2> QED BY Zenon, <2>3, <2>4
<1> QED BY Zenon, <1>2, <1>3, <1>4, <1>5, <1>6, <1>7, <1>8

\* A producer stages, commits, or brings in no command.
LEMMA ProducerCalls ==
  ASSUME TypeOK, JobShape, NEW p \in Producers, ProducerStep(p)
  PROVE  \/ Maintenance
         \/ SubmitSuccessor(p) /\ StageCall
         \/ SubmitImmediate(p) /\ CommitCall
<1>1. job[p] \in JobType
  BY Zenon DEF TypeOK
<1>2. CASE SubmitSuccessor(p)
  <2>1. job[p].token \in Token /\ job[p].anchor \in Anchor /\ job[p].candidate \in CandidateBundle
    BY Zenon, <1>1, <1>2 DEF SubmitSuccessor, JobShape, JobOK, JobType
  <2>2. StagePending(job[p].token, job[p].anchor, job[p].candidate.request_id, job[p].candidate)
    BY Zenon, <1>2 DEF SubmitSuccessor
  <2> QED BY Zenon, <1>2, <2>1, <2>2 DEF StageCall
<1>3. CASE SubmitImmediate(p)
  <2>1. job[p].token \in Token /\ job[p].candidate \in CandidateBundle
    BY Zenon, <1>1, <1>3 DEF SubmitImmediate, JobShape, JobOK, JobType
  <2>2. TryCommit(job[p].token, job[p].candidate.request_id, job[p].candidate)
    BY Zenon, <1>3 DEF SubmitImmediate, TryCommitIfCurrent, TryCommit
  <2> QED BY Zenon, <1>3, <2>1, <2>2 DEF CommitCall
<1>4. CASE ClearCommand(p)
  <2>1. job[p].snapshot \in SnapshotType
    BY Zenon, <1>1, <1>4 DEF ClearCommand, JobShape, JobOK, JobType
  <2>2. InvalidateIfCurrent(job[p].snapshot)
    BY Zenon, <1>4 DEF ClearCommand
  <2> QED BY ZenonT(60), <2>1, <2>2 DEF Maintenance
<1>5. CASE ~(SubmitSuccessor(p) \/ SubmitImmediate(p) \/ ClearCommand(p))
  <2>1. Quiet
    BY ZenonT(60), <1>5 DEF ProducerStep, StartSolve, FinishSolve, BeginCommit, ChooseRoute, PinAnchor,
       ConfirmAnchor, RefuseCandidate, TakeTransaction, SuccessorRejected, ImmediateRejected,
       ReadCommitted, ClearRejected, Discard
  <2> QED BY Zenon, <2>1 DEF Quiet, Maintenance
<1> QED BY Zenon, <1>2, <1>3, <1>4, <1>5

\* What publishCommand does to the authority, apart from a cutover, is maintenance.
LEMMA TimerCalls ==
  ASSUME TypeOK, AvailableMeansCommand, TimerStep \/ TimerObservation
  PROVE  Maintenance \/ (TimerActivate /\ ActivateCall)
<1>1. timer # None => timer \in SnapshotType
  BY Zenon DEF TypeOK
<1>2. 1..(MaxStamp + 1) \subseteq Nat
  BY BoundAssumption
<1>3. CASE TimerSnapshot \/ TimerExpose
  BY ZenonT(60), <1>3 DEF TimerSnapshot, TimerExpose, Maintenance
<1>4. CASE TimerActivate
  BY Zenon, <1>1, <1>2, <1>4 DEF TimerActivate, ActivateCall
<1>5. CASE TimerDropStale
  BY ZenonT(60), <1>1, <1>2, <1>5 DEF TimerDropStale, Maintenance
<1>6. CASE TimerObservation
  <2>1. LifecycleChange
    BY Zenon, <1>6, LifecycleCalls DEF TypeOK, TimerObservation, TimerSampledSafetyRole,
       TimerStoppedHold, TimerPreserveSafetySuffix, TimerFailClosed, TimerSuspend
  <2> QED BY Zenon, <2>1 DEF Maintenance
<1> QED BY Zenon, <1>3, <1>4, <1>5, <1>6 DEF TimerStep

\* The copy prepared outside the authority's mutex is a copy of the pinned command
\* for the new world.
LEMMA PreparedCopyIsCopy ==
  ASSUME NEW source \in CandidateBundle, NEW identity \in WorldIdentity, NEW renewed \in Nat,
         NEW copied \in BOOLEAN
  PROVE  /\ PreparedCopy(source, identity, renewed, copied) \in CandidateBundle \cup {None}
         /\ IsCopy(PreparedCopy(source, identity, renewed, copied), source, identity)
BY Zenon, RecertifiedFacts DEF PreparedCopy, IsCopy

\* What the mapping worker does to the authority is maintenance: no new command.
LEMMA MapperCalls ==
  ASSUME TypeOK, MapperShape, AvailableMeansCommand, MapperStep
  PROVE  Maintenance
<1>1. mapper \in MapperType
  BY Zenon DEF TypeOK
<1>2. CASE CommitWorld
  <2> DEFINE request == mapper.request
             pin == mapper.pin
  <2>1. request \in RequestType /\ pin \in WorldPinType
    BY Zenon, <1>1, <1>2 DEF CommitWorld, MapperShape, MapperType
  <2>2. PICK copied \in BOOLEAN, pending_copied \in BOOLEAN :
           PublishWorldIdentity(request, pin,
             IF PrepareActive(request, pin) THEN ActiveCopy(copied) ELSE None,
             IF PreparePending(request, pin) THEN PendingCopy(pending_copied) ELSE None)
    BY Zenon, <1>2 DEF CommitWorld
  <2>3. request.identity \in WorldIdentity /\ request.renewed \in Nat
    BY Zenon, <2>1 DEF RequestType, Stamp
  <2>4. /\ PrepareActive(request, pin) => pin.active \in CandidateBundle
        /\ PreparePending(request, pin) => pin.pending \in CandidateBundle
    BY Zenon, <2>1 DEF PrepareActive, PreparePending, ExactActiveOwner, RequestType, WorldPinType
  <2> DEFINE active_copy == IF PrepareActive(request, pin) THEN ActiveCopy(copied) ELSE None
             pending_copy == IF PreparePending(request, pin) THEN PendingCopy(pending_copied)
                             ELSE None
  <2>5. /\ active_copy \in CandidateBundle \cup {None}
        /\ IsCopy(active_copy, pin.active, request.identity)
    BY Zenon, <2>3, <2>4, PreparedCopyIsCopy DEF ActiveCopy, IsCopy
  <2>6. /\ pending_copy \in CandidateBundle \cup {None}
        /\ IsCopy(pending_copy, pin.pending, request.identity)
    BY Zenon, <2>3, <2>4, PreparedCopyIsCopy DEF PendingCopy, IsCopy
  <2>7. PublishWorldIdentity(request, pin, active_copy, pending_copy)
    BY Zenon, <2>2
  <2> HIDE DEF request, pin, active_copy, pending_copy
  <2> QED BY ZenonT(60), <2>1, <2>5, <2>6, <2>7 DEF Maintenance, PublishCall
<1>3. CASE RejectWorld
  <2>1. mapper.request \in RequestType /\ mapper.pin \in WorldPinType
    BY Zenon, <1>1, <1>3 DEF RejectWorld, MapperShape, MapperType
  <2>2. RejectWorldIdentity(mapper.request, mapper.pin, None)
    BY Zenon, <1>3 DEF RejectWorld, RejectWorldIdentity
  <2> QED BY ZenonT(60), <2>1, <2>2 DEF Maintenance
<1>4. CASE InvalidateAfterReject
  BY Zenon, <1>4 DEF InvalidateAfterReject, Maintenance
<1>5. CASE ResumeCommand
  <2>1. LifecycleChange
    BY Zenon, <1>5, LifecycleCalls DEF TypeOK, ResumeCommand
  <2> QED BY Zenon, <2>1 DEF Maintenance
<1>6. CASE ValidateWorld \/ PinWorld \/ WorldSuperseded \/ ReadRecertified \/ ResumeRefused
  BY ZenonT(60), <1>6 DEF ValidateWorld, PinWorld, WorldSuperseded, ReadRecertified, ResumeRefused,
     Maintenance
<1> QED BY Zenon, <1>2, <1>3, <1>4, <1>5, <1>6 DEF MapperStep

\* What the goal, reset and recovery callbacks do is maintenance: no new command.
LEMMA OwnerCalls ==
  ASSUME TypeOK, AvailableMeansCommand, GoalStep \/ LifecycleStep
  PROVE  Maintenance
<1>1. /\ localization_epoch \in Id /\ localization_epoch + 1 \in Id
      /\ goal_epoch + 1 \in Id
  BY BoundAssumption DEF TypeOK, Id
<1>2. CASE AcceptGoal
  BY ZenonT(60), <1>1, <1>2 DEF AcceptGoal, Maintenance
<1>3. CASE LocalizationReset
  BY ZenonT(60), <1>1, <1>3 DEF LocalizationReset, Maintenance
<1>4. CASE AdmitAfterReset \/ DropGoal
  BY ZenonT(60), <1>1, <1>4 DEF AdmitAfterReset, DropGoal, AdmitNextRevision, Maintenance
<1>5. CASE ClearGoal
  BY ZenonT(60), <1>1, <1>5 DEF ClearGoal, Maintenance
<1>6. CASE RevokeToHold
  BY Zenon, <1>6 DEF RevokeToHold, Maintenance
<1>7. CASE FailClosedAndUnlock \/ LifecycleStep
  <2>1. LifecycleChange \/ UNCHANGED authorityVars
    BY Zenon, <1>7, LifecycleCalls DEF TypeOK, FailClosedAndUnlock, LifecycleStep, OwnerFailClosed,
       OwnerSuspend, OwnerClearRestart, OwnerRequestRestart, OwnerRecoveryEvent, OwnerRetain,
       RecoveryEvent
  <2> QED BY ZenonT(60), <2>1 DEF Maintenance
<1> QED BY Zenon, <1>2, <1>3, <1>4, <1>5, <1>6, <1>7 DEF GoalStep

\* Every step of the node is one call of the authority, or none, and only three
\* actions bring in a command.
LEMMA StepCalls ==
  ASSUME IInv, [Next]_vars
  PROVE  \/ Maintenance
         \/ (\E p \in Producers : SubmitSuccessor(p)) /\ StageCall
         \/ (\E p \in Producers : SubmitImmediate(p)) /\ CommitCall
         \/ TimerActivate /\ ActivateCall
<1>1. CASE Next
  BY Zenon, <1>1, ProducerCalls, TimerCalls, MapperCalls, OwnerCalls DEF Next, IInv
<1>2. CASE UNCHANGED vars
  BY Zenon, <1>2 DEF vars, Maintenance
<1> QED BY Zenon, <1>1, <1>2

\* Every step of the node is a step of the authority, so the lemmas about
\* AuthorityStep hold of it.
LEMMA StepIsAuthorityStep ==
  ASSUME IInv, [Next]_vars
  PROVE  AuthorityStep
BY Zenon, StepCalls DEF AuthorityStep

----------------------------------------------------------------------------
(* The threads' own state                                                  *)

\* What a producer holds stays in shape while the counters grow and the
\* admission stands, is withdrawn, or moves past every goal seen so far.
LEMMA JobOKGrows ==
  ASSUME NEW j \in JobType,
         NEW generation \in Nat, NEW generation2 \in Nat, generation <= generation2,
         NEW goal \in Nat, NEW goal2 \in Nat, goal <= goal2,
         NEW admitted \in Nat, NEW admitted2 \in Nat, NEW frame \in Nat, NEW frame2 \in Nat,
         \/ admitted2 = admitted /\ frame2 = frame
         \/ admitted2 = 0
         \/ admitted2 > goal,
         JobOK(j, generation, goal, admitted, frame)
  PROVE  JobOK(j, generation2, goal2, admitted2, frame2)
<1>1. CASE j.pc = "idle"
  BY Zenon, <1>1 DEF JobOK
<1>2. CASE j.pc # "idle"
  <2>1. j.key \in KeyType
    BY Zenon, <1>2 DEF JobOK, JobType
  <2>2. j.key.goal_epoch \in Nat /\ j.key.goal_epoch > 0 /\ j.key.committed_generation \in Nat
    BY <2>1, BoundAssumption DEF KeyType
  <2>3. /\ j.key.committed_generation <= generation2
        /\ j.key.goal_epoch <= goal2
        /\ j.key.goal_epoch = admitted2 => j.key.localization_epoch = frame2
    BY SMTT(30), <1>2, <2>2 DEF JobOK
  <2>4. j.candidate # None => j.candidate.generation \in Nat
    BY Zenon DEF JobType, CandidateBundle, Id
  <2> QED BY <2>2, <2>3, <2>4 DEF JobOK
<1> QED BY Zenon, <1>1, <1>2

\* An idle job is well typed and in shape.
LEMMA IdleJobFacts ==
  /\ IdleJob \in JobType
  /\ \A generation, goal, admitted, frame : JobOK(IdleJob, generation, goal, admitted, frame)
BY Zenon DEF IdleJob, JobType, JobOK

\* One producer's step leaves the other producers' jobs as they are.
LEMMA JobUpdate ==
  ASSUME job \in [Producers -> JobType], NEW p \in Producers, NEW next \in JobType,
         JobBecomes(p, next)
  PROVE  /\ job' \in [Producers -> JobType] /\ job'[p] = next
         /\ \A q \in Producers : q # p => job'[q] = job[q]
BY Zenon DEF JobBecomes

\* One producer step: the job keeps its type and shape.
LEMMA ProducerJob ==
  ASSUME IInv, NEW p \in Producers, ProducerStep(p)
  PROVE  \E next \in JobType :
           /\ JobBecomes(p, next)
           /\ JobOK(next, last_generation', goal_epoch, admission_goal_epoch,
                    admission_localization_epoch)
           /\ last_generation' \in Nat /\ last_generation' >= last_generation
           /\ transaction_id' \in Nat
           /\ UNCHANGED <<goal_epoch, localization_epoch, admission_goal_epoch,
                          admission_localization_epoch, timer, mapper, exposed>>
<1> DEFINE OK(j) == /\ j \in JobType
                    /\ JobOK(j, last_generation, goal_epoch, admission_goal_epoch,
                             admission_localization_epoch)
           Still == UNCHANGED <<goal_epoch, localization_epoch, admission_goal_epoch,
                                admission_localization_epoch, timer, mapper, exposed>>
<1>1. /\ OK(job[p]) /\ last_generation \in Nat /\ transaction_id \in Nat
      /\ AuthorityTypeOK /\ Snapshot \in SnapshotType
      /\ goal_epoch \in 0..MaxGoalEpoch /\ localization_epoch \in Id
  BY Zenon, SnapshotTyped DEF IInv, TypeOK, JobShape
<1>2. OK(IdleJob)
  BY Zenon, IdleJobFacts
<1>3. Quiet => Still
  BY Zenon DEF Quiet, authorityVars
<1>4. ASSUME NEW next, OK(next), JobBecomes(p, next), UNCHANGED last_generation,
             transaction_id' \in Nat, Still
      PROVE  \E j \in JobType :
               /\ JobBecomes(p, j)
               /\ JobOK(j, last_generation', goal_epoch, admission_goal_epoch,
                        admission_localization_epoch)
               /\ last_generation' \in Nat /\ last_generation' >= last_generation
               /\ transaction_id' \in Nat
               /\ Still
  BY SMTT(30), <1>1, <1>4
<1>5. CASE StartSolve(p)
  <2> DEFINE key == [committed_generation |-> ActiveGeneration, world |-> world_identity,
                     request_id |-> desired_goal, goal_epoch |-> goal_epoch,
                     localization_epoch |-> localization_epoch]
             next == [IdleJob EXCEPT !.pc = "solving", !.key = key]
  <2>1. ActiveGeneration \in Nat /\ ActiveGeneration <= last_generation
    BY SMTT(30), <1>1, NoneFacts DEF IInv, Frame, ActiveGeneration, HasActive, AuthorityTypeOK, CandidateBundle, Id
  <2>2. admission_localization_epoch = localization_epoch
    BY Zenon, <1>5 DEF StartSolve, IInv, Frame
  <2>3. key \in KeyType
    BY <1>1, <1>5, <2>1, BoundAssumption DEF StartSolve, KeyType, AuthorityTypeOK, IInv, TypeOK
  <2>4. next \in JobType /\ next.pc = "solving" /\ next.key = key /\ next.anchor = None
    BY ZenonT(60), <2>3 DEF IdleJob, JobType
  <2>5. key # None
    BY Zenon, <2>3, NullAssumption
  <2>6. OK(next)
    BY <1>1, <2>1, <2>2, <2>4, <2>5, BoundAssumption DEF JobOK
  <2>7. JobBecomes(p, next) /\ Quiet /\ UNCHANGED <<last_generation, transaction_id>>
    BY Zenon, <1>5 DEF StartSolve
  <2> HIDE DEF next, key
  <2> QED BY Zenon, <1>1, <1>3, <1>4, <2>6, <2>7
<1>6. CASE FinishSolve(p)
  <2>1. PICK role \in (IF p = "heading" THEN {"Main"} ELSE PlannerRoles) :
           \E from \in 1..MaxStamp : \E until \in from..MaxStamp :
             JobBecomes(p, [job[p] EXCEPT !.pc = "solved",
                                          !.candidate = Exported(p, role, from, until)])
    BY ZenonT(60), <1>6 DEF FinishSolve
  <2>2. PICK from \in 1..MaxStamp :
           \E until \in from..MaxStamp :
             JobBecomes(p, [job[p] EXCEPT !.pc = "solved",
                                          !.candidate = Exported(p, role, from, until)])
    BY ZenonT(60), <2>1
  <2>a. PICK until \in from..MaxStamp :
           JobBecomes(p, [job[p] EXCEPT !.pc = "solved",
                                        !.candidate = Exported(p, role, from, until)])
    BY ZenonT(60), <2>2
  <2> DEFINE candidate == Exported(p, role, from, until)
             next == [job[p] EXCEPT !.pc = "solved", !.candidate = candidate]
  <2>3. job[p].key \in KeyType /\ job[p].key.committed_generation <= last_generation
    BY Zenon, <1>1, <1>6 DEF FinishSolve, JobOK, JobType
  <2>4. /\ job[p].key.goal_epoch \in 1..MaxGoalEpoch /\ job[p].key.localization_epoch \in Id
        /\ job[p].key.world \in WorldIdentity /\ job[p].key.committed_generation \in Nat
    BY Zenon, <2>3 DEF KeyType
  <2>5. role \in Role /\ from \in Stamp /\ until \in Stamp
    <3>1. role \in Role
      BY Zenon, BoundAssumption DEF Role
    <3> QED BY <3>1, BoundAssumption DEF Stamp
  <2>6. job[p].key.request_id \in Id
    BY Zenon, <2>3 DEF KeyType
  <2>7. candidate \in CandidateBundle
    BY SMTT(30), <1>1, <2>4, <2>5, <2>6 DEF Exported, CandidateBundle, Id
  <2>8. /\ candidate.generation = last_generation + 1
        /\ candidate.planned_on = job[p].key.committed_generation
        /\ candidate.localization_epoch = job[p].key.localization_epoch
        /\ candidate.goal_epoch = job[p].key.goal_epoch
    BY Zenon DEF Exported
  <2> HIDE DEF candidate
  <2>9. /\ next \in JobType /\ next.pc = "solved" /\ next.key = job[p].key
        /\ next.candidate = candidate /\ next.anchor = job[p].anchor
    BY ZenonT(60), <1>1, <2>7 DEF JobType
  <2>10. job[p].anchor = None
    BY Zenon, <1>1, <1>6 DEF FinishSolve, JobOK
  <2>11. job[p].pc # "idle"
    BY Zenon, <1>6 DEF FinishSolve
  <2>12. JobOK(next, last_generation + 1, goal_epoch, admission_goal_epoch,
               admission_localization_epoch)
    BY <1>1, <2>3, <2>4, <2>7, <2>8, <2>9, <2>10, <2>11, NoneFacts DEF JobOK
  <2>13. JobBecomes(p, next)
    BY Zenon, <2>a DEF candidate
  <2>14. Quiet /\ last_generation' = last_generation + 1 /\ UNCHANGED transaction_id
    BY Zenon, <1>6 DEF FinishSolve
  <2> HIDE DEF next
  <2> QED BY SMTT(30), <1>1, <1>3, <2>9, <2>12, <2>13, <2>14
<1>7. CASE Discard(p)
  BY Zenon, <1>1, <1>2, <1>3, <1>4, <1>7 DEF Discard
<1>8. CASE BeginCommit(p) /\ ~Discard(p)
  <2> DEFINE next == [job[p] EXCEPT !.pc = "checked", !.snapshot = Snapshot]
  <2>1. OK(next)
    BY ZenonT(60), <1>1, <1>8, NullAssumption DEF BeginCommit, JobType, JobOK
  <2>2. JobBecomes(p, next) /\ Quiet /\ UNCHANGED <<last_generation, transaction_id>>
    BY Zenon, <1>8 DEF BeginCommit
  <2> HIDE DEF next
  <2> QED BY Zenon, <1>1, <1>3, <1>4, <2>1, <2>2
<1>9. CASE ChooseRoute(p)
  <2> DEFINE next == [job[p] EXCEPT !.pc = IF ScheduleSuccessor(p) THEN "anchoring" ELSE "validated"]
  <2>1. OK(next)
    BY Zenon, <1>1, <1>9 DEF ChooseRoute, JobType, JobOK
  <2>2. JobBecomes(p, next) /\ Quiet /\ UNCHANGED <<last_generation, transaction_id>>
    BY Zenon, <1>9 DEF ChooseRoute
  <2> HIDE DEF next
  <2> QED BY Zenon, <1>1, <1>3, <1>4, <2>1, <2>2
<1>10. CASE PinAnchor(p) /\ ~Discard(p)
  <2> DEFINE next == [job[p] EXCEPT !.pc = "pinned", !.pin = AnchorPin]
  <2>1. AnchorPin \in PinType
    BY Zenon, <1>1, <1>10 DEF PinAnchor, AnchorAvailable, AnchorPin, PinType, AuthorityTypeOK, HasActive
  <2>2. OK(next)
    BY ZenonT(60), <1>1, <1>10, <2>1, NullAssumption DEF PinAnchor, JobType, JobOK
  <2>3. JobBecomes(p, next) /\ Quiet /\ UNCHANGED <<last_generation, transaction_id>>
    BY Zenon, <1>10 DEF PinAnchor
  <2> HIDE DEF next
  <2> QED BY Zenon, <1>1, <1>3, <1>4, <2>2, <2>3
<1>11. CASE ConfirmAnchor(p) /\ ~Discard(p)
  <2> DEFINE anchor == AnchorOf(job[p].pin, job[p].candidate.valid_from)
             next == [job[p] EXCEPT !.pc = "validated", !.anchor = anchor, !.pin = None]
  <2>1. job[p].pin \in PinType /\ job[p].candidate \in CandidateBundle
    BY Zenon, <1>1, <1>11 DEF ConfirmAnchor, JobType, JobOK
  <2>2. anchor \in Anchor
    BY Zenon, <2>1 DEF AnchorOf, Anchor, PinType, CandidateBundle
  <2>3. job[p].candidate.planned_on = anchor.active_bundle_generation
    BY Zenon, <1>11 DEF ConfirmAnchor, CandidateMatchesAnchor
  <2> HIDE DEF anchor
  <2>4. OK(next)
    BY ZenonT(60), <1>1, <1>11, <2>2, <2>3, NoneFacts DEF ConfirmAnchor, JobType, JobOK
  <2>5. JobBecomes(p, next) /\ Quiet /\ UNCHANGED <<last_generation, transaction_id>>
    BY Zenon, <1>11 DEF ConfirmAnchor, anchor
  <2> HIDE DEF next
  <2> QED BY Zenon, <1>1, <1>3, <1>4, <2>4, <2>5
<1>12. CASE TakeTransaction(p)
  <2> DEFINE token == [goal_epoch |-> job[p].candidate.goal_epoch,
                       world |-> job[p].candidate.world, transaction_id |-> transaction_id + 1]
             next == [job[p] EXCEPT !.pc = "submitting", !.token = token]
  <2>1. job[p].candidate \in CandidateBundle
    BY Zenon, <1>1, <1>12 DEF TakeTransaction, JobType, JobOK
  <2>2. token \in Token /\ token.goal_epoch = job[p].candidate.goal_epoch
    BY SMTT(30), <1>1, <2>1 DEF Token, CandidateBundle, Id
  <2> HIDE DEF token
  <2>3. OK(next)
    BY ZenonT(60), <1>1, <1>12, <2>2, NullAssumption DEF TakeTransaction, JobType, JobOK
  <2>4. JobBecomes(p, next) /\ Quiet /\ UNCHANGED last_generation /\ transaction_id' \in Nat
    BY <1>1, <1>12 DEF TakeTransaction, token
  <2> HIDE DEF next
  <2> QED BY Zenon, <1>1, <1>3, <1>4, <2>3, <2>4
<1>13. CASE SubmitSuccessor(p) \/ ClearCommand(p)
  <2>1. JobBecomes(p, IdleJob) /\ Still /\ UNCHANGED <<last_generation, transaction_id>>
    BY Zenon, <1>13 DEF SubmitSuccessor, ClearCommand, StagePending, InvalidateIfCurrent
  <2> QED BY Zenon, <1>1, <1>2, <1>4, <2>1
<1>14. CASE SubmitImmediate(p)
  <2> DEFINE next == [job[p] EXCEPT !.pc = "unqueued", !.snapshot = None]
  <2>1. OK(next)
    BY ZenonT(60), <1>1, <1>14 DEF SubmitImmediate, JobType, JobOK
  <2>2. JobBecomes(p, IdleJob) \/ JobBecomes(p, next)
    BY Zenon, <1>14 DEF SubmitImmediate
  <2>3. Still /\ UNCHANGED <<last_generation, transaction_id>>
    BY Zenon, <1>14 DEF SubmitImmediate, TryCommitIfCurrent, Commit
  <2> HIDE DEF next
  <2> QED BY Zenon, <1>1, <1>2, <1>4, <2>1, <2>2, <2>3
<1>15. CASE ReadCommitted(p) /\ ~Discard(p)
  <2> DEFINE next == [job[p] EXCEPT !.pc = "revoking", !.snapshot = Snapshot]
  <2>1. OK(next)
    BY ZenonT(60), <1>1, <1>15, NullAssumption DEF ReadCommitted, JobType, JobOK
  <2>2. JobBecomes(p, next) /\ Quiet /\ UNCHANGED <<last_generation, transaction_id>>
    BY Zenon, <1>15 DEF ReadCommitted
  <2> HIDE DEF next
  <2> QED BY Zenon, <1>1, <1>3, <1>4, <2>1, <2>2
<1> QED BY ZenonT(60), <1>5, <1>6, <1>7, <1>8, <1>9, <1>10, <1>11, <1>12, <1>13, <1>14, <1>15
        DEF ProducerStep, RefuseCandidate, SuccessorRejected, ImmediateRejected, ClearRejected

\* How the counters and the admission move under the steps of the other threads.
LEMMA OtherThreads ==
  ASSUME IInv, TimerStep \/ TimerObservation \/ MapperStep \/ GoalStep \/ LifecycleStep
  PROVE  /\ UNCHANGED <<job, last_generation, transaction_id>>
         /\ goal_epoch' \in 0..MaxGoalEpoch /\ goal_epoch' >= goal_epoch
         /\ localization_epoch' \in Id
         /\ \/ UNCHANGED <<admission_goal_epoch, admission_localization_epoch>>
            \/ admission_goal_epoch' = 0
            \/ admission_goal_epoch' > goal_epoch /\ admission_goal_epoch' = goal_epoch'
<1>0. goal_epoch \in 0..MaxGoalEpoch /\ localization_epoch \in Id /\ MaxGoalEpoch \in Nat
  BY Zenon, BoundAssumption DEF IInv, TypeOK
<1>1. CASE TimerStep \/ TimerObservation
  <2>1. UNCHANGED <<job, last_generation, transaction_id, goal_epoch, localization_epoch,
                    admission_goal_epoch, admission_localization_epoch>>
    BY ZenonT(60), <1>1 DEF TimerStep, TimerObservation, TimerSnapshot, TimerActivate, TimerDropStale,
       TimerExpose, TimerSampledSafetyRole, TimerStoppedHold, TimerPreserveSafetySuffix,
       TimerFailClosed, TimerSuspend, TimerQuiet, authorityVars, ActivatePendingIfDueAndFinalize,
       DropStaleSuccessor, ObserveSampledSafetyRole, StoppedHold, PreserveSafetySuffix,
       FailClosedIfCurrentSnapshot, SuspendIfCurrentSnapshot, LifecycleBecomes
  <2> QED BY SMTT(30), <1>0, <2>1
<1>2. CASE MapperStep
  <2>1. UNCHANGED <<job, last_generation, transaction_id, goal_epoch, localization_epoch,
                    admission_goal_epoch, admission_localization_epoch>>
    BY ZenonT(60), <1>2 DEF MapperStep, ValidateWorld, PinWorld, WorldSuperseded, CommitWorld,
       RejectWorld, InvalidateAfterReject, ReadRecertified, ResumeCommand, ResumeRefused,
       MapperQuiet, authorityVars, PublishWorldIdentity, RejectWorldIdentity, Invalidate,
       ObserveRetainedCommand, LifecycleBecomes
  <2> QED BY <1>0, <2>1
<1>3. CASE AcceptGoal
  BY <1>0, <1>3 DEF AcceptGoal, OwnerQuiet, BeginGoal
<1>4. CASE LocalizationReset
  BY SMTT(30), <1>0, <1>4 DEF LocalizationReset, OwnerQuiet, Reset, Id
<1>5. CASE AdmitAfterReset \/ DropGoal
  BY SMTT(30), <1>0, <1>5 DEF AdmitAfterReset, DropGoal, AdmitNextRevision, OwnerQuiet,
     SetAdmissionGoalEpoch, Invalidate
<1>6. CASE ClearGoal
  BY <1>0, <1>6 DEF ClearGoal, OwnerQuiet, Reset
<1>7. CASE RevokeToHold
  BY SMTT(30), <1>0, <1>7 DEF RevokeToHold, OwnerQuiet, Invalidate
<1>8. CASE FailClosedAndUnlock \/ LifecycleStep
  <2>1. UNCHANGED <<job, last_generation, transaction_id, goal_epoch, localization_epoch,
                    admission_goal_epoch, admission_localization_epoch>>
    BY ZenonT(60), <1>8 DEF FailClosedAndUnlock, LifecycleStep, OwnerFailClosed, OwnerSuspend,
       OwnerClearRestart, OwnerRequestRestart, OwnerRecoveryEvent, OwnerRetain, LifecycleQuiet,
       OwnerQuiet, authorityVars, FailClosed, SuspendCommand, ClearRestartFromRest, RequestRestartFromRest,
       ApplyRecoveryEvent, ObserveRetainedCommand, LifecycleBecomes
  <2> QED BY <1>0, <2>1
<1> QED BY Zenon, <1>1, <1>2, <1>3, <1>4, <1>5, <1>6, <1>7, <1>8 DEF GoalStep

\* The mapping worker's record keeps its type and shape.
LEMMA MapperKept ==
  ASSUME IInv, [Next]_vars
  PROVE  mapper' \in MapperType /\ MapperShape'
<1>0. mapper \in MapperType /\ MapperShape /\ AuthorityTypeOK /\ IdleMapper \in MapperType
  BY Zenon DEF IInv, TypeOK, IdleMapper, MapperType
<1>1. CASE UNCHANGED mapper
  BY Zenon, <1>0, <1>1 DEF MapperShape
<1>2. CASE ValidateWorld
  <2>1. PICK identity \in Worlds, retain \in BOOLEAN, retain_pending \in BOOLEAN,
             renewed \in 1..MaxStamp :
           mapper' = [IdleMapper EXCEPT !.pc = "validated",
              !.request = [identity |-> identity, version |-> timeline_version,
                           active |-> active.bundle, pending |-> staged.bundle,
                           retain |-> retain, retain_pending |-> retain_pending,
                           renewed |-> renewed]]
    BY ZenonT(60), <1>2 DEF ValidateWorld, MapperBecomes
  <2> DEFINE request == [identity |-> identity, version |-> timeline_version,
                         active |-> active.bundle, pending |-> staged.bundle,
                         retain |-> retain, retain_pending |-> retain_pending,
                         renewed |-> renewed]
  <2>2. request \in RequestType
    BY <1>0, BoundAssumption DEF RequestType, AuthorityTypeOK, Stamp
  <2>3. mapper' = [IdleMapper EXCEPT !.pc = "validated", !.request = request]
    BY Zenon, <2>1
  <2> HIDE DEF request
  <2> QED BY ZenonT(60), <1>0, <2>2, <2>3, NullAssumption DEF MapperShape, MapperType, IdleMapper
<1>3. CASE PinWorld
  <2>1. WorldPin \in WorldPinType
    BY Zenon, <1>0 DEF WorldPin, WorldPinType, AuthorityTypeOK
  <2>2. /\ mapper' = [mapper EXCEPT !.pc = "pinned", !.pin = WorldPin]
        /\ mapper.pc = "validated"
    BY Zenon, <1>3 DEF PinWorld, MapperBecomes
  <2> QED BY ZenonT(60), <1>0, <2>1, <2>2, NullAssumption DEF MapperShape, MapperType
<1>4. CASE ReadRecertified
  <2>1. \/ mapper' = IdleMapper
        \/ HasActive /\ mapper' = [IdleMapper EXCEPT !.pc = "resuming", !.bundle = active.bundle]
    BY Zenon, <1>4 DEF ReadRecertified, MapperBecomes
  <2> QED BY ZenonT(60), <1>0, <2>1 DEF MapperShape, MapperType, IdleMapper, HasActive, AuthorityTypeOK
<1>5. CASE mapper' \in {IdleMapper, [IdleMapper EXCEPT !.pc = "published"],
                        [IdleMapper EXCEPT !.pc = "rejected"], [IdleMapper EXCEPT !.pc = "stopped"]}
  BY <1>5 DEF MapperShape, MapperType, IdleMapper
<1>6. CASE MapperStep
  BY Zenon, <1>2, <1>3, <1>4, <1>5, <1>6 DEF MapperStep, WorldSuperseded, CommitWorld, RejectWorld,
     InvalidateAfterReject, ResumeCommand, ResumeRefused, MapperBecomes
<1>7. CASE \E p \in Producers : ProducerStep(p)
  BY Zenon, <1>1, <1>7, ProducerJob
<1>8. CASE TimerStep \/ TimerObservation \/ GoalStep \/ LifecycleStep
  BY ZenonT(60), <1>1, <1>8 DEF TimerStep, TimerObservation, TimerSnapshot, TimerActivate, TimerDropStale,
     TimerExpose, TimerSampledSafetyRole, TimerStoppedHold, TimerPreserveSafetySuffix,
     TimerFailClosed, TimerSuspend, TimerQuiet, GoalStep, AcceptGoal, LocalizationReset,
     AdmitAfterReset, DropGoal, ClearGoal, RevokeToHold, FailClosedAndUnlock,
     LifecycleStep, OwnerFailClosed, OwnerSuspend, OwnerClearRestart, OwnerRequestRestart,
     OwnerRecoveryEvent, OwnerRetain, LifecycleQuiet, OwnerQuiet
<1>9. CASE UNCHANGED vars
  BY Zenon, <1>1, <1>9 DEF vars, clientVars
<1> QED BY Zenon, <1>6, <1>7, <1>8, <1>9 DEF Next

\* Who the owner lock, the timer and the history variables may become.
LEMMA OtherTypes ==
  ASSUME IInv, [Next]_vars
  PROVE  /\ owner_lock' \in LockHolders \cup {None}
         /\ desired_goal' \in Id \cup {None}
         /\ timer' \in SnapshotType \cup {None}
         /\ anchored' \in Anchor \cup {None}
         /\ exposed' \in CandidateBundle \cup {None}
<1>0. /\ owner_lock \in LockHolders \cup {None} /\ Producers \subseteq LockHolders
      /\ desired_goal \in Id \cup {None} /\ goal_epoch + 1 \in Id
      /\ timer \in SnapshotType \cup {None} /\ anchored \in Anchor \cup {None}
      /\ exposed \in CandidateBundle \cup {None} /\ Snapshot \in SnapshotType
      /\ job \in [Producers -> JobType]
  BY SnapshotTyped, BoundAssumption DEF IInv, TypeOK, LockHolders, Id
<1>1. CASE \E p \in Producers : ProducerStep(p)
  <2>1. PICK p \in Producers : ProducerStep(p)
    BY Zenon, <1>1
  <2>2. UNCHANGED <<timer, exposed, desired_goal>>
    BY ZenonT(60), <2>1 DEF ProducerStep, StartSolve, FinishSolve, BeginCommit, ChooseRoute, PinAnchor,
       ConfirmAnchor, RefuseCandidate, TakeTransaction, SubmitSuccessor, SuccessorRejected,
       SubmitImmediate, ImmediateRejected, ReadCommitted, ClearCommand, ClearRejected, Discard,
       Quiet
  <2>3. owner_lock' \in {owner_lock, p}
    BY ZenonT(60), <2>1 DEF ProducerStep, StartSolve, FinishSolve, BeginCommit, ChooseRoute, PinAnchor,
       ConfirmAnchor, RefuseCandidate, TakeTransaction, SubmitSuccessor, SuccessorRejected,
       SubmitImmediate, ImmediateRejected, ReadCommitted, ClearCommand, ClearRejected, Discard,
       Quiet
  <2>4. anchored' \in {anchored, job[p].anchor}
    BY ZenonT(60), <2>1 DEF ProducerStep, StartSolve, FinishSolve, BeginCommit, ChooseRoute, PinAnchor,
       ConfirmAnchor, RefuseCandidate, TakeTransaction, SubmitSuccessor, SuccessorRejected,
       SubmitImmediate, ImmediateRejected, ReadCommitted, ClearCommand, ClearRejected, Discard,
       Quiet
  <2>5. job[p].anchor \in Anchor \cup {None}
    BY Zenon, <1>0 DEF JobType
  <2> QED BY Zenon, <1>0, <2>2, <2>3, <2>4, <2>5
<1>2. CASE TimerExpose
  <2>1. /\ exposed' = timer.active /\ timer # None
        /\ UNCHANGED <<timer, owner_lock, anchored, desired_goal>>
    BY Zenon, <1>2 DEF TimerExpose, TimerQuiet
  <2>2. timer.active \in CandidateBundle \cup {None}
    BY Zenon, <1>0, <2>1 DEF SnapshotType
  <2> QED BY Zenon, <1>0, <2>1, <2>2
<1>3. CASE (TimerStep /\ ~TimerExpose) \/ TimerObservation
  <2>1. timer' \in {timer, Snapshot} /\ UNCHANGED <<exposed, owner_lock, anchored, desired_goal>>
    BY ZenonT(60), <1>3 DEF TimerStep, TimerObservation, TimerSnapshot, TimerActivate, TimerDropStale,
     TimerSampledSafetyRole, TimerStoppedHold, TimerPreserveSafetySuffix,
     TimerFailClosed, TimerSuspend, TimerQuiet
  <2> QED BY Zenon, <1>0, <2>1
<1>4. CASE MapperStep
  <2>1. /\ owner_lock' \in {owner_lock, None, "mapper"}
        /\ UNCHANGED <<timer, exposed, anchored, desired_goal>>
    BY ZenonT(60), <1>4 DEF MapperStep, ValidateWorld, PinWorld, WorldSuperseded, CommitWorld,
     RejectWorld, InvalidateAfterReject, ReadRecertified, ResumeCommand, ResumeRefused, MapperQuiet
  <2> QED BY Zenon, <1>0, <2>1 DEF LockHolders
<1>5. CASE GoalStep \/ LifecycleStep
  <2>1. /\ owner_lock' \in {owner_lock, None, "owner", "reset", "goal", "clearing", "revoking"}
        /\ desired_goal' \in {desired_goal, None, goal_epoch + 1}
        /\ UNCHANGED <<timer, exposed, anchored>>
    BY Zenon, <1>5 DEF GoalStep, AcceptGoal, LocalizationReset,
     AdmitAfterReset, DropGoal, ClearGoal, RevokeToHold, FailClosedAndUnlock,
     LifecycleStep, OwnerFailClosed, OwnerSuspend, OwnerClearRestart, OwnerRequestRestart,
     OwnerRecoveryEvent, OwnerRetain, LifecycleQuiet, OwnerQuiet
  <2> QED BY Zenon, <1>0, <2>1 DEF LockHolders
<1>6. CASE UNCHANGED vars
  BY Zenon, <1>0, <1>6 DEF vars, clientVars
<1> QED BY Zenon, <1>1, <1>2, <1>3, <1>4, <1>5, <1>6 DEF Next

\* Types and shapes of what the producers hold.
LEMMA JobsKept ==
  ASSUME IInv, [Next]_vars
  PROVE  /\ job' \in [Producers -> JobType] /\ JobShape'
         /\ last_generation' \in Nat /\ last_generation' >= last_generation
         /\ transaction_id' \in Nat
         /\ goal_epoch' \in 0..MaxGoalEpoch /\ localization_epoch' \in Id
         /\ (admission_goal_epoch <= goal_epoch)'
<1>0. /\ job \in [Producers -> JobType] /\ JobShape /\ last_generation \in Nat
      /\ transaction_id \in Nat /\ goal_epoch \in 0..MaxGoalEpoch /\ localization_epoch \in Id
      /\ admission_goal_epoch \in Nat /\ admission_localization_epoch \in Nat
      /\ admission_goal_epoch <= goal_epoch /\ goal_epoch \in Nat
  BY SMTT(30), BoundAssumption DEF IInv, TypeOK, AuthorityTypeOK, Frame
<1>1. admission_goal_epoch' \in Nat /\ admission_localization_epoch' \in Nat
  BY Zenon, StepIsAuthorityStep, AuthorityTyping DEF IInv, TypeOK, AuthorityTypeOK
<1>2. CASE \E p \in Producers : ProducerStep(p)
  <2>1. PICK p \in Producers : ProducerStep(p)
    BY Zenon, <1>2
  <2>2. PICK next \in JobType :
           /\ JobBecomes(p, next)
           /\ JobOK(next, last_generation', goal_epoch, admission_goal_epoch,
                    admission_localization_epoch)
           /\ last_generation' \in Nat /\ last_generation' >= last_generation
           /\ transaction_id' \in Nat
           /\ UNCHANGED <<goal_epoch, localization_epoch, admission_goal_epoch,
                          admission_localization_epoch, timer, mapper, exposed>>
    BY Zenon, <2>1, ProducerJob
  <2>3. /\ job' \in [Producers -> JobType] /\ job'[p] = next
        /\ \A q \in Producers : q # p => job'[q] = job[q]
    BY Zenon, <1>0, <2>2, JobUpdate
  <2>4. ASSUME NEW q \in Producers, q # p
        PROVE  JobOK(job[q], last_generation', goal_epoch, admission_goal_epoch,
                     admission_localization_epoch)
    <3>1. JobOK(job[q], last_generation, goal_epoch, admission_goal_epoch,
                admission_localization_epoch)
      BY Zenon, <1>0 DEF JobShape
    <3>2. /\ last_generation' \in Nat /\ last_generation <= last_generation'
          /\ goal_epoch <= goal_epoch /\ job[q] \in JobType
      BY SMTT(30), <1>0, <2>2
    <3> QED BY Zenon, <1>0, <3>1, <3>2, JobOKGrows
  <2>5. ASSUME NEW q \in Producers
        PROVE  JobOK(job'[q], last_generation', goal_epoch', admission_goal_epoch',
                     admission_localization_epoch')
    BY Zenon, <2>2, <2>3, <2>4
  <2> QED BY Zenon, <1>0, <2>2, <2>3, <2>5 DEF JobShape
<1>3. CASE TimerStep \/ TimerObservation \/ MapperStep \/ GoalStep \/ LifecycleStep
  <2>1. /\ UNCHANGED <<job, last_generation, transaction_id>>
        /\ goal_epoch' \in 0..MaxGoalEpoch /\ goal_epoch' >= goal_epoch
        /\ localization_epoch' \in Id
        /\ \/ UNCHANGED <<admission_goal_epoch, admission_localization_epoch>>
           \/ admission_goal_epoch' = 0
           \/ admission_goal_epoch' > goal_epoch /\ admission_goal_epoch' = goal_epoch'
    BY Zenon, <1>3, OtherThreads
  <2>2. goal_epoch' \in Nat
    BY SMTT(30), <2>1, BoundAssumption
  <2>3. ASSUME NEW q \in Producers
        PROVE  JobOK(job[q], last_generation, goal_epoch', admission_goal_epoch',
                     admission_localization_epoch')
    BY SMTT(30), <1>0, <1>1, <2>1, <2>2, JobOKGrows DEF JobShape
  <2>4. (admission_goal_epoch <= goal_epoch)'
    BY SMTT(30), <1>0, <1>1, <2>1, <2>2
  <2> QED BY SMTT(30), <1>0, <2>1, <2>3, <2>4 DEF JobShape
<1>4. CASE UNCHANGED vars
  BY <1>0, <1>4 DEF vars, clientVars, authorityVars, JobShape
<1> QED BY Zenon, <1>2, <1>3, <1>4 DEF Next

\* Every step of the node preserves the type invariant.
LEMMA TypeKept ==
  ASSUME IInv, [Next]_vars
  PROVE  TypeOK'
<1>1. AuthorityTypeOK'
  BY Zenon, StepIsAuthorityStep, AuthorityTyping DEF IInv, TypeOK
<1> QED BY Zenon, <1>1, JobsKept, OtherTypes, MapperKept DEF TypeOK
=============================================================================
