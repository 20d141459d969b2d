----------------------- MODULE ExecutionTimelineSafety -----------------------
(***************************************************************************)
(* The inductive invariant of ExecutionTimeline is preserved by every step *)
(* and implies its safety properties.                                      *)
(***************************************************************************)
EXTENDS ExecutionTimelineProofs

\* A maintenance call keeps the active command or drops it.
LEMMA ActiveMaintained ==
  ASSUME AuthorityTypeOK, Maintenance
  PROVE  \/ active'.bundle = None
         \/ /\ HasActive /\ active'.bundle.generation = active.bundle.generation
            /\ active'.bundle.localization_epoch = active.bundle.localization_epoch
            /\ \/ admission_localization_epoch' = admission_localization_epoch
               \/ admission_localization_epoch' = active.bundle.localization_epoch
<1> USE NoneFacts
<1>1. CASE UNCHANGED authorityVars
  BY Zenon, <1>1 DEF AuthorityTypeOK, HasActive, authorityVars
<1>2. CASE \E epoch \in Id : SetAdmissionGoalEpoch(epoch, FALSE)
  BY <1>2 DEF AuthorityTypeOK, HasActive, SetAdmissionGoalEpoch, VersionMoves,
     LineageAfterRevocation, NoActive, NoStaged
<1>3. CASE \E frame \in Id, epoch \in Id, retain \in BOOLEAN : BeginGoal(frame, epoch, retain)
  <2>1. PICK frame \in Id, epoch \in Id, retain \in BOOLEAN : BeginGoal(frame, epoch, retain)
    BY Zenon, <1>3
  <2>2. \/ active' = NoActive
        \/ /\ HasActive /\ active' = active /\ active.bundle.localization_epoch = frame
           /\ admission_localization_epoch' = frame
    BY Zenon, <2>1 DEF BeginGoal
  <2>3. CASE active' = NoActive
    BY Zenon, <2>3 DEF NoActive
  <2>4. CASE /\ HasActive /\ active' = active /\ active.bundle.localization_epoch = frame
             /\ admission_localization_epoch' = frame
    BY Zenon, <2>4
  <2> QED BY Zenon, <2>2, <2>3, <2>4
<1>4. CASE \E frame \in Id : Reset(frame)
  BY <1>4 DEF AuthorityTypeOK, HasActive, Reset, VersionMoves, LineageAfterRevocation,
     NoActive, NoStaged
<1>5. CASE Invalidate
  BY Zenon, <1>5 DEF AuthorityTypeOK, HasActive, Invalidate, VersionMoves,
     LineageAfterRevocation, NoActive, NoStaged
<1>6. CASE \E expected \in SnapshotType : InvalidateIfCurrent(expected)
  BY <1>6 DEF AuthorityTypeOK, HasActive, InvalidateIfCurrent, VersionMoves, NoActive,
     NoStaged
<1>7. CASE LifecycleChange
  BY Zenon, <1>7 DEF AuthorityTypeOK, HasActive, LifecycleChange, LifecycleBecomes,
     VersionMoves
<1>8. CASE \E now \in Nat, expected \in SnapshotType : DropStaleSuccessor(now, expected)
  BY Zenon, <1>8 DEF AuthorityTypeOK, HasActive, DropStaleSuccessor, VersionMoves, NoStaged
<1>9. CASE \E request \in RequestType, pin \in WorldPinType : RejectWorldIdentity(request, pin, None)
  BY <1>9 DEF AuthorityTypeOK, HasActive, RejectWorldIdentity, VersionMoves, NoActive,
     NoStaged
<1>10. CASE PublishCall
  <2>1. PICK request \in RequestType, pin \in WorldPinType :
             \E active_copy, pending_copy \in CandidateBundle \cup {None} :
               /\ PublishWorldIdentity(request, pin, active_copy, pending_copy)
               /\ IsCopy(active_copy, pin.active, request.identity)
               /\ IsCopy(pending_copy, pin.pending, request.identity)
    BY Zenon, <1>10 DEF PublishCall
  <2>2. UNCHANGED admission_localization_epoch
    BY Zenon, <2>1 DEF PublishWorldIdentity
  <2> QED BY <2>1, <2>2, PublicationKeeps DEF NoActive, SameCommand
<1> QED BY ZenonT(60), <1>1, <1>2, <1>3, <1>4, <1>5, <1>6, <1>7, <1>8, <1>9, <1>10
        DEF Maintenance

\* A maintenance call keeps the successor and what it was anchored on, or drops it.
LEMMA StagedMaintained ==
  ASSUME AuthorityTypeOK, Maintenance
  PROVE  \/ staged'.bundle = None
         \/ /\ HasStaged
            /\ UNCHANGED <<active_lineage, admission_goal_epoch>>
            /\ active'.bundle.generation = active.bundle.generation
            /\ staged'.bundle.generation = staged.bundle.generation
            /\ staged'.bundle.planned_on = staged.bundle.planned_on
            /\ staged'.bundle.goal_epoch = staged.bundle.goal_epoch
            /\ staged'.bundle.localization_epoch = staged.bundle.localization_epoch
<1> USE NoneFacts
<1>1. CASE UNCHANGED authorityVars
  BY Zenon, <1>1 DEF AuthorityTypeOK, HasStaged, authorityVars
<1>2. CASE \E epoch \in Id : SetAdmissionGoalEpoch(epoch, FALSE)
  BY <1>2 DEF AuthorityTypeOK, HasStaged, SetAdmissionGoalEpoch, VersionMoves,
     LineageAfterRevocation, NoActive, NoStaged
<1>3. CASE \E frame \in Id, epoch \in Id, retain \in BOOLEAN : BeginGoal(frame, epoch, retain)
  BY <1>3 DEF AuthorityTypeOK, HasStaged, BeginGoal, VersionMoves,
     LineageAfterRevocation, NoActive, NoStaged
<1>4. CASE \E frame \in Id : Reset(frame)
  BY <1>4 DEF AuthorityTypeOK, HasStaged, Reset, VersionMoves, LineageAfterRevocation,
     NoActive, NoStaged
<1>5. CASE Invalidate
  BY Zenon, <1>5 DEF AuthorityTypeOK, HasStaged, Invalidate, VersionMoves,
     LineageAfterRevocation, NoActive, NoStaged
<1>6. CASE \E expected \in SnapshotType : InvalidateIfCurrent(expected)
  BY <1>6 DEF AuthorityTypeOK, HasStaged, InvalidateIfCurrent, VersionMoves, NoActive,
     NoStaged
<1>7. CASE LifecycleChange
  BY Zenon, <1>7 DEF AuthorityTypeOK, HasStaged, LifecycleChange, LifecycleBecomes,
     VersionMoves
<1>8. CASE \E now \in Nat, expected \in SnapshotType : DropStaleSuccessor(now, expected)
  BY <1>8 DEF AuthorityTypeOK, HasStaged, DropStaleSuccessor, VersionMoves, NoStaged
<1>9. CASE \E request \in RequestType, pin \in WorldPinType : RejectWorldIdentity(request, pin, None)
  BY <1>9 DEF AuthorityTypeOK, HasStaged, RejectWorldIdentity, VersionMoves, NoActive,
     NoStaged
<1>10. CASE PublishCall
  <2>1. PICK request \in RequestType, pin \in WorldPinType :
             \E active_copy, pending_copy \in CandidateBundle \cup {None} :
               /\ PublishWorldIdentity(request, pin, active_copy, pending_copy)
               /\ IsCopy(active_copy, pin.active, request.identity)
               /\ IsCopy(pending_copy, pin.pending, request.identity)
    BY Zenon, <1>10 DEF PublishCall
  <2>2. UNCHANGED admission_goal_epoch
    BY Zenon, <2>1 DEF PublishWorldIdentity
  <2> QED BY <2>1, <2>2, PublicationKeeps DEF NoStaged, NoActive, SameCommand
<1> QED BY ZenonT(60), <1>1, <1>2, <1>3, <1>4, <1>5, <1>6, <1>7, <1>8, <1>9, <1>10
        DEF Maintenance

\* A maintenance call never makes a command available that is not there.
LEMMA AvailableMaintained ==
  ASSUME AuthorityTypeOK, Maintenance, lifecycle.exposure = "Available" => HasActive,
         lifecycle'.exposure = "Available"
  PROVE  HasActive'
<1> USE NoneFacts
<1>1. CASE UNCHANGED authorityVars
  BY Zenon, <1>1 DEF AuthorityTypeOK, HasActive, InitialLifecycle, FailedLifecycle, Withdrawn,
     LifecycleState, authorityVars
<1>2. CASE \E epoch \in Id : SetAdmissionGoalEpoch(epoch, FALSE)
  BY SMTT(30), <1>2 DEF AuthorityTypeOK, HasActive, InitialLifecycle, FailedLifecycle, Withdrawn,
     LifecycleState, SetAdmissionGoalEpoch, VersionMoves, LineageAfterRevocation,
     NoActive, NoStaged
<1>3. CASE \E frame \in Id, epoch \in Id, retain \in BOOLEAN : BeginGoal(frame, epoch, retain)
  BY <1>3 DEF AuthorityTypeOK, HasActive, InitialLifecycle, FailedLifecycle, Withdrawn,
     LifecycleState, BeginGoal, VersionMoves, LineageAfterRevocation, NoActive, NoStaged
<1>4. CASE \E frame \in Id : Reset(frame)
  BY <1>4 DEF AuthorityTypeOK, HasActive, InitialLifecycle, FailedLifecycle, Withdrawn,
     LifecycleState, Reset, VersionMoves, LineageAfterRevocation, NoActive, NoStaged
<1>5. CASE Invalidate
  BY Zenon, <1>5 DEF AuthorityTypeOK, HasActive, InitialLifecycle, FailedLifecycle, Withdrawn,
     LifecycleState, Invalidate, VersionMoves, LineageAfterRevocation, NoActive,
     NoStaged
<1>6. CASE \E expected \in SnapshotType : InvalidateIfCurrent(expected)
  BY Zenon, <1>6 DEF AuthorityTypeOK, HasActive, InitialLifecycle, FailedLifecycle, Withdrawn,
     LifecycleState, InvalidateIfCurrent, VersionMoves, NoActive, NoStaged
<1>7. CASE LifecycleChange
  BY Zenon, <1>7 DEF AuthorityTypeOK, HasActive, InitialLifecycle, FailedLifecycle, Withdrawn,
     LifecycleState, LifecycleChange, LifecycleBecomes, VersionMoves
<1>8. CASE \E now \in Nat, expected \in SnapshotType : DropStaleSuccessor(now, expected)
  BY Zenon, <1>8 DEF AuthorityTypeOK, HasActive, InitialLifecycle, FailedLifecycle, Withdrawn,
     LifecycleState, DropStaleSuccessor, VersionMoves, NoStaged
<1>9. CASE \E request \in RequestType, pin \in WorldPinType : RejectWorldIdentity(request, pin, None)
  BY SMTT(30), <1>9 DEF AuthorityTypeOK, HasActive, InitialLifecycle, FailedLifecycle, Withdrawn,
     LifecycleState, RejectWorldIdentity, VersionMoves, NoActive, NoStaged
<1>10. CASE PublishCall
  <2>1. PICK request \in RequestType, pin \in WorldPinType :
             \E active_copy, pending_copy \in CandidateBundle \cup {None} :
               /\ PublishWorldIdentity(request, pin, active_copy, pending_copy)
               /\ IsCopy(active_copy, pin.active, request.identity)
               /\ IsCopy(pending_copy, pin.pending, request.identity)
    BY Zenon, <1>10 DEF PublishCall
  <2> QED BY SMTT(30), <2>1, PublicationKeeps
      DEF AuthorityTypeOK, HasActive, SameCommand, FailedLifecycle, LifecycleState
<1> QED BY ZenonT(60), <1>1, <1>2, <1>3, <1>4, <1>5, <1>6, <1>7, <1>8, <1>9, <1>10
        DEF Maintenance

----------------------------------------------------------------------------
(* The three actions that bring in a command                               *)

\* A staged successor continues the command that is active.
LEMMA Staging ==
  ASSUME IInv, NEW p \in Producers, SubmitSuccessor(p)
  PROVE  /\ UNCHANGED <<active, active_lineage, admission_goal_epoch, lifecycle,
                        admission_localization_epoch, localization_epoch, last_generation>>
         /\ HasActive
         /\ anchored' = job[p].anchor /\ job[p].anchor.lineage = active_lineage
         /\ job[p].anchor.active_bundle_generation = active.bundle.generation
         /\ staged'.bundle = job[p].candidate
         /\ job[p].candidate \in CandidateBundle
         /\ job[p].candidate.planned_on = active.bundle.generation
         /\ job[p].candidate.generation > active.bundle.generation
         /\ job[p].candidate.generation <= last_generation
         /\ job[p].candidate.goal_epoch = admission_goal_epoch
         /\ job[p].candidate.localization_epoch = active.bundle.localization_epoch
<1>1. job[p] \in JobType /\ JobOK(job[p], last_generation, goal_epoch, admission_goal_epoch,
                                  admission_localization_epoch)
  BY Zenon DEF IInv, TypeOK, JobShape
<1>2. /\ job[p].candidate \in CandidateBundle
      /\ job[p].candidate.planned_on = job[p].anchor.active_bundle_generation
      /\ job[p].candidate.planned_on < job[p].candidate.generation
      /\ job[p].candidate.generation <= last_generation
  BY Zenon, <1>1 DEF SubmitSuccessor, JobOK, JobType
<1>3. /\ StageAdmissible(job[p].token, job[p].anchor, job[p].candidate.request_id, job[p].candidate)
      /\ staged'.bundle = job[p].candidate
      /\ UNCHANGED <<active, active_lineage, admission_goal_epoch, lifecycle,
                     admission_localization_epoch, localization_epoch, last_generation>>
      /\ anchored' = job[p].anchor
  BY Zenon DEF SubmitSuccessor, StagePending
<1>4. /\ active_lineage = job[p].anchor.lineage /\ HasActive
      /\ active.bundle.generation = job[p].anchor.active_bundle_generation
      /\ active.bundle.localization_epoch = job[p].anchor.localization_epoch
      /\ job[p].candidate.localization_epoch = job[p].anchor.localization_epoch
      /\ job[p].candidate.goal_epoch = admission_goal_epoch
  BY Zenon, <1>3 DEF StageAdmissible, PredecessorMatchesAnchor
<1>5. job[p].candidate.generation \in Nat /\ job[p].candidate.planned_on \in Nat
  BY Zenon, <1>2 DEF CandidateBundle, Id
<1> QED BY Zenon, <1>2, <1>3, <1>4, <1>5

\* An immediate commit is of the current frame, not older than the command it
\* replaces, and a nominal one replaces a command only at rest.
LEMMA Committing ==
  ASSUME IInv, NEW p \in Producers, SubmitImmediate(p)
  PROVE  /\ UNCHANGED <<admission_goal_epoch, admission_localization_epoch,
                        localization_epoch, last_generation, exposed, owner_lock>>
         /\ active'.bundle = job[p].candidate /\ staged'.bundle = None
         /\ owner_lock = None
         /\ job[p].pc = "submitting"
         /\ job[p].candidate \in CandidateBundle
         /\ job[p].candidate.generation <= last_generation
         /\ job[p].candidate.generation >= ActiveGeneration
         /\ job[p].candidate.localization_epoch = localization_epoch
         /\ job[p].candidate.localization_epoch = admission_localization_epoch
         /\ job[p].key.committed_generation = ActiveGeneration
         /\ HasActive /\ job[p].candidate.role # "Emergency" =>
              lifecycle.recovery = "StoppedRecovery"
<1>1. job[p] \in JobType /\ JobOK(job[p], last_generation, goal_epoch, admission_goal_epoch,
                                  admission_localization_epoch)
  BY Zenon DEF IInv, TypeOK, JobShape
<1>2. /\ job[p].pc = "submitting" /\ job[p].anchor = None /\ OwnerCurrent(p)
      /\ CommitAdmissible(job[p].token, job[p].candidate.request_id, job[p].candidate)
      /\ PredecessorCurrent(job[p].snapshot)
      /\ owner_lock = None
      /\ active'.bundle = job[p].candidate /\ staged'.bundle = None
      /\ UNCHANGED <<admission_goal_epoch, admission_localization_epoch,
                     localization_epoch, last_generation, exposed, owner_lock>>
  BY Zenon DEF SubmitImmediate, TryCommitIfCurrent, Commit, NoStaged
<1>3. /\ job[p].candidate \in CandidateBundle
      /\ job[p].candidate.generation <= last_generation
      /\ job[p].candidate.localization_epoch = job[p].key.localization_epoch
      /\ job[p].candidate.goal_epoch = job[p].key.goal_epoch
      /\ job[p].key.goal_epoch = admission_goal_epoch =>
           job[p].key.localization_epoch = admission_localization_epoch
  BY Zenon, <1>1, <1>2 DEF JobOK, JobType
<1>4. /\ job[p].candidate.goal_epoch = admission_goal_epoch
      /\ job[p].candidate.generation >= ActiveGeneration
      /\ job[p].key.localization_epoch = localization_epoch
      /\ active.bundle = job[p].snapshot.active /\ timeline_version = job[p].snapshot.version
      /\ job[p].key.committed_generation = ActiveGeneration
  BY Zenon, <1>2 DEF CommitAdmissible, OwnerCurrent, PredecessorCurrent, ActiveGeneration, HasActive
<1>5. HasActive /\ job[p].candidate.role # "Emergency" => lifecycle.recovery = "StoppedRecovery"
  BY Zenon, <1>2, <1>4 DEF IInv, ImmediateFromRest, HasActive
<1> QED BY Zenon, <1>2, <1>3, <1>4, <1>5

\* An activation restores the predecessor, or swaps in a younger successor of
\* the same frame while nominal planning is allowed.
LEMMA Activating ==
  ASSUME IInv, TimerActivate
  PROVE  /\ UNCHANGED <<admission_goal_epoch, admission_localization_epoch,
                        localization_epoch, last_generation, exposed, owner_lock>>
         /\ HasActive /\ HasStaged /\ staged'.bundle = None /\ owner_lock = None
         /\ \/ active' = active /\ lifecycle' = lifecycle
            \/ /\ active'.bundle = staged.bundle
               /\ active'.bundle \in CandidateBundle
               /\ active'.bundle.generation > active.bundle.generation
               /\ active'.bundle.generation <= last_generation
               /\ active'.bundle.localization_epoch = localization_epoch
               /\ active'.bundle.localization_epoch = admission_localization_epoch
               /\ NominalPlanningAllowed(lifecycle.recovery)
<1>1. PICK now \in 1..(MaxStamp + 1), finalized \in BOOLEAN :
         /\ ActivatePendingIfDueAndFinalize(now, timer, finalized)
         /\ finalized => FinalizerAllows
  BY Zenon DEF TimerActivate
<1>2. /\ HasActive /\ HasStaged /\ staged'.bundle = None
      /\ UNCHANGED <<admission_goal_epoch, admission_localization_epoch>>
      /\ \/ active' = active /\ lifecycle' = lifecycle
         \/ active'.bundle = staged.bundle /\ FinalizerAllows
  BY SMTT(30), <1>1 DEF ActivatePendingIfDueAndFinalize, ActivationDue, NoStaged
<1>3. UNCHANGED <<localization_epoch, last_generation, exposed, owner_lock>> /\ owner_lock = None
  BY Zenon DEF TimerActivate, TimerQuiet
<1>4. /\ staged.bundle \in CandidateBundle
      /\ staged.bundle.generation > active.bundle.generation
      /\ staged.bundle.generation <= last_generation
      /\ staged.bundle.localization_epoch = localization_epoch
      /\ localization_epoch = admission_localization_epoch
  BY Zenon, <1>2 DEF IInv, TypeOK, AuthorityTypeOK, SuccessorAnchored, Frame, CommandsInCurrentFrame,
     HasStaged, HasActive
<1> QED BY Zenon, <1>2, <1>3, <1>4 DEF FinalizerAllows

----------------------------------------------------------------------------
(* The conjuncts of the invariant                                          *)

\* The frame, the owner lock and the history move only where they should.
LEMMA FrameMoves ==
  ASSUME IInv, [Next]_vars
  PROVE  /\ \/ UNCHANGED localization_epoch /\ (owner_lock' = "reset" => owner_lock = "reset")
            \/ active'.bundle = None /\ staged'.bundle = None
         /\ anchored' = anchored \/ \E p \in Producers : SubmitSuccessor(p)
         /\ exposed' = exposed \/ TimerExpose
<1>1. CASE \E p \in Producers : ProducerStep(p)
  <2>1. PICK p \in Producers : ProducerStep(p)
    BY Zenon, <1>1
  <2>2. p # "reset"
    BY Zenon, BoundAssumption
  <2>3. owner_lock' \in {owner_lock, p}
    BY ZenonT(60), <2>1 DEF ProducerStep, StartSolve, FinishSolve, BeginCommit, ChooseRoute, PinAnchor,
       ConfirmAnchor, RefuseCandidate, TakeTransaction, SubmitSuccessor, SuccessorRejected,
       SubmitImmediate, ImmediateRejected, ReadCommitted, ClearCommand, ClearRejected, Discard,
       Quiet
  <2>4. SubmitSuccessor(p) \/ anchored' = anchored
    BY ZenonT(60), <2>1 DEF ProducerStep, StartSolve, FinishSolve, BeginCommit, ChooseRoute, PinAnchor,
       ConfirmAnchor, RefuseCandidate, TakeTransaction, SuccessorRejected,
       SubmitImmediate, ImmediateRejected, ReadCommitted, ClearCommand, ClearRejected, Discard,
       Quiet
  <2>5. UNCHANGED <<localization_epoch, exposed>>
    BY Zenon, <2>1, ProducerJob
  <2> QED BY Zenon, <2>2, <2>3, <2>4, <2>5
<1>2. CASE TimerStep \/ TimerObservation
  BY Zenon, <1>2 DEF TimerStep, TimerObservation, TimerSnapshot, TimerActivate, TimerDropStale,
     TimerSampledSafetyRole, TimerStoppedHold, TimerPreserveSafetySuffix,
     TimerFailClosed, TimerSuspend, TimerExpose, TimerQuiet
<1>3. CASE MapperStep
  <2>1. owner_lock' \in {owner_lock, None, "mapper"}
        /\ UNCHANGED <<localization_epoch, exposed, anchored>>
    BY ZenonT(60), <1>3 DEF MapperStep, ValidateWorld, PinWorld, WorldSuperseded, CommitWorld,
     RejectWorld, InvalidateAfterReject, ReadRecertified, ResumeCommand, ResumeRefused, MapperQuiet
  <2> QED BY Zenon, <2>1, NullAssumption DEF LockHolders
<1>4. CASE LocalizationReset
  BY Zenon, <1>4 DEF LocalizationReset, Reset, NoActive, NoStaged, OwnerQuiet
<1>5. CASE (GoalStep /\ ~LocalizationReset) \/ LifecycleStep
  <2>1. UNCHANGED <<localization_epoch, exposed, anchored>>
    BY Zenon, <1>5 DEF GoalStep, AcceptGoal,
     AdmitAfterReset, DropGoal, ClearGoal, RevokeToHold, FailClosedAndUnlock,
     LifecycleStep, OwnerFailClosed, OwnerSuspend, OwnerClearRestart, OwnerRequestRestart,
     OwnerRecoveryEvent, OwnerRetain, LifecycleQuiet, OwnerQuiet
  <2>2. owner_lock' \in {owner_lock, None, "owner", "goal", "clearing", "revoking"}
    BY Zenon, <1>5 DEF GoalStep, AcceptGoal,
     AdmitAfterReset, DropGoal, ClearGoal, RevokeToHold, FailClosedAndUnlock,
     LifecycleStep, OwnerFailClosed, OwnerSuspend, OwnerClearRestart, OwnerRequestRestart,
     OwnerRecoveryEvent, OwnerRetain, LifecycleQuiet, OwnerQuiet
  <2> QED BY Zenon, <2>1, <2>2, NullAssumption DEF LockHolders
<1>6. CASE UNCHANGED vars
  BY Zenon, <1>6 DEF vars, clientVars
<1> QED BY Zenon, <1>1, <1>2, <1>3, <1>4, <1>5, <1>6 DEF Next, GoalStep

\* Frame, CommandsInCurrentFrame and AvailableMeansCommand.
LEMMA FrameKept ==
  ASSUME IInv, [Next]_vars
  PROVE  Frame' /\ CommandsInCurrentFrame'
<1>0. /\ AuthorityTypeOK /\ TypeOK' /\ last_generation' >= last_generation
      /\ last_generation \in Nat /\ last_generation' \in Nat
      /\ (admission_goal_epoch <= goal_epoch)'
  BY Zenon, TypeKept, JobsKept DEF IInv, TypeOK
<1>1. ASSUME NEW b \in CandidateBundle, b.generation <= last_generation
      PROVE  b.generation <= last_generation'
  BY <1>0, <1>1 DEF CandidateBundle, Id
<1>2. /\ HasActive => active.bundle \in CandidateBundle
      /\ HasStaged => staged.bundle \in CandidateBundle
      /\ active'.bundle # None => active'.bundle \in CandidateBundle
      /\ staged'.bundle # None => staged'.bundle \in CandidateBundle
  BY Zenon, <1>0 DEF AuthorityTypeOK, TypeOK, HasActive, HasStaged
<1>3. CASE Maintenance
  <2>1. active'.bundle # None =>
          /\ HasActive
          /\ active'.bundle.localization_epoch = active.bundle.localization_epoch
          /\ active'.bundle.localization_epoch = admission_localization_epoch'
          /\ active'.bundle.generation = active.bundle.generation
    BY Zenon, <1>0, <1>3, ActiveMaintained DEF IInv, Frame
  <2>2. staged'.bundle # None =>
          /\ HasStaged
          /\ staged'.bundle.localization_epoch = staged.bundle.localization_epoch
          /\ staged'.bundle.generation = staged.bundle.generation
    BY Zenon, <1>0, <1>3, StagedMaintained
  <2>3. active'.bundle # None => active'.bundle.generation <= last_generation'
    BY Zenon, <1>1, <1>2, <2>1 DEF IInv, Frame
  <2>4. staged'.bundle # None => staged'.bundle.generation <= last_generation'
    BY Zenon, <1>1, <1>2, <2>2 DEF IInv, Frame
  <2>5. active'.bundle # None => active'.bundle.localization_epoch = localization_epoch'
    BY Zenon, <2>1, FrameMoves DEF IInv, Frame
  <2>6. staged'.bundle # None => staged'.bundle.localization_epoch = localization_epoch'
    BY Zenon, <2>2, FrameMoves DEF IInv, CommandsInCurrentFrame
  <2>7. owner_lock' = "reset" => active'.bundle = None /\ staged'.bundle = None
    BY Zenon, <2>1, <2>2, FrameMoves DEF IInv, Frame
  <2> QED BY Zenon, <1>0, <2>1, <2>3, <2>4, <2>5, <2>6, <2>7
          DEF Frame, CommandsInCurrentFrame, HasActive, HasStaged
<1>4. CASE \E p \in Producers : SubmitSuccessor(p)
  <2>1. PICK p \in Producers : SubmitSuccessor(p)
    BY Zenon, <1>4
  <2>2. owner_lock' # "reset"
    BY Zenon, <2>1, Staging DEF SubmitSuccessor, IInv, Frame
  <2> QED BY Zenon, <1>0, <2>1, <2>2, Staging
          DEF IInv, Frame, CommandsInCurrentFrame, HasActive, HasStaged
<1>5. CASE \E p \in Producers : SubmitImmediate(p)
  BY Zenon, <1>0, <1>5, Committing, NullAssumption
     DEF LockHolders, Frame, CommandsInCurrentFrame, HasActive, HasStaged
<1>6. CASE TimerActivate
  BY Zenon, <1>0, <1>6, Activating, NullAssumption
     DEF LockHolders, IInv, Frame, CommandsInCurrentFrame, HasActive, HasStaged
<1> QED BY Zenon, <1>3, <1>4, <1>5, <1>6, StepCalls

\* AvailableMeansCommand is preserved: whoever drops or replaces the command also
\* withdraws its exposure.
LEMMA AvailableKept ==
  ASSUME IInv, [Next]_vars
  PROVE  AvailableMeansCommand'
<1>1. AuthorityTypeOK /\ (lifecycle.exposure = "Available" => HasActive)
  BY Zenon DEF IInv, TypeOK, AvailableMeansCommand
<1>2. lifecycle'.exposure = "Available" => active'.bundle # None
  <2>1. CASE Maintenance
    BY Zenon, <1>1, <2>1, AvailableMaintained DEF HasActive
  <2>2. CASE \E p \in Producers : SubmitSuccessor(p)
    BY Zenon, <1>1, <2>2, Staging DEF HasActive
  <2>3. CASE \E p \in Producers : SubmitImmediate(p)
    BY Zenon, <2>3, Committing, NoneFacts
  <2>4. CASE TimerActivate
    BY Zenon, <1>1, <2>4, Activating, NoneFacts DEF HasActive
  <2> QED BY Zenon, <2>1, <2>2, <2>3, <2>4, StepCalls
<1> QED BY Zenon, <1>2, FrameKept DEF AvailableMeansCommand, Frame, HasActive

\* SuccessorAnchored is preserved: whatever moves the active command or its lineage
\* drops the successor in the same call.
LEMMA AnchoredKept ==
  ASSUME IInv, [Next]_vars
  PROVE  SuccessorAnchored'
<1>1. CASE Maintenance /\ anchored' = anchored
  BY Zenon, <1>1, StagedMaintained DEF IInv, TypeOK, SuccessorAnchored, HasStaged
<1>2. CASE \E p \in Producers : SubmitSuccessor(p)
  BY Zenon, <1>2, Staging DEF SuccessorAnchored, HasStaged
<1>3. CASE (\E p \in Producers : SubmitImmediate(p)) \/ TimerActivate
  BY Zenon, <1>3, Committing, Activating DEF SuccessorAnchored, HasStaged
<1> QED BY Zenon, <1>1, <1>2, <1>3, StepCalls, FrameMoves

\* How one producer step moves its own job, and nobody else's.
LEMMA ProducerMoves ==
  ASSUME IInv, NEW p \in Producers, ProducerStep(p)
  PROVE  /\ \A q \in Producers : q # p => job'[q] = job[q]
         /\ UNCHANGED <<exposed, timer>>
         /\ \/ job'[p] = IdleJob
            \/ /\ StartSolve(p) /\ UNCHANGED authorityVars
               /\ job'[p].pc = "solving" /\ job'[p].snapshot = None
               /\ job'[p].key.committed_generation = ActiveGeneration
            \/ /\ FinishSolve(p) /\ UNCHANGED authorityVars
               /\ job'[p].pc = "solved" /\ job'[p].key = job[p].key
               /\ job'[p].snapshot = job[p].snapshot
               /\ job'[p].candidate.generation = last_generation + 1
            \/ SubmitImmediate(p) /\ job'[p].pc = "unqueued" /\ job'[p].snapshot = None
            \/ /\ UNCHANGED authorityVars
               /\ job'[p].pc = "revoking" /\ job'[p].snapshot = Snapshot
            \/ /\ UNCHANGED <<authorityVars, last_generation>>
               /\ job[p].pc \in Unsubmitted \ {"solving"}
               /\ job'[p].pc \in Unsubmitted \ {"solving"}
               /\ job'[p].key = job[p].key /\ job'[p].candidate = job[p].candidate
               /\ job'[p].snapshot \in {job[p].snapshot, Snapshot}
               /\ job'[p].pc \in {"validated", "submitting"} /\ job'[p].anchor = None =>
                    /\ job'[p].snapshot = job[p].snapshot
                    /\ \/ job[p].pc = "validated" /\ job[p].anchor = None
                       \/ ~ScheduleSuccessor(p)
<1>1. job \in [Producers -> JobType] /\ job[p] \in JobType
  BY Zenon DEF IInv, TypeOK
<1>2. /\ \A q \in Producers : q # p => job'[q] = job[q]
      /\ UNCHANGED <<exposed, timer>>
  BY Zenon, <1>1, ProducerJob DEF JobBecomes
<1>3. ASSUME NEW next, JobBecomes(p, next)
      PROVE  job'[p] = next
  BY Zenon, <1>1, <1>3 DEF JobBecomes
<1>4. Quiet => UNCHANGED authorityVars
  BY Zenon DEF Quiet
<1>5. CASE JobBecomes(p, IdleJob)
  BY Zenon, <1>2, <1>3, <1>5
<1>6. CASE StartSolve(p)
  <2>1. /\ job'[p] = [IdleJob EXCEPT !.pc = "solving",
            !.key = [committed_generation |-> ActiveGeneration, world |-> world_identity,
                     request_id |-> desired_goal, goal_epoch |-> goal_epoch,
                     localization_epoch |-> localization_epoch]]
        /\ UNCHANGED authorityVars
    BY Zenon, <1>3, <1>4, <1>6 DEF StartSolve
  <2>2. /\ job'[p].pc = "solving" /\ job'[p].snapshot = None
        /\ job'[p].key.committed_generation = ActiveGeneration
    BY SMTT(30), <2>1 DEF IdleJob
  <2> QED BY Zenon, <1>2, <1>6, <2>1, <2>2
<1>7. CASE FinishSolve(p)
  <2>1. PICK role, from, until :
          JobBecomes(p, [job[p] EXCEPT !.pc = "solved",
                                       !.candidate = Exported(p, role, from, until)])
    BY <1>7, Zenon DEF FinishSolve
  <2>2. job'[p] = [job[p] EXCEPT !.pc = "solved", !.candidate = Exported(p, role, from, until)]
    BY Zenon, <1>3, <2>1
  <2>3. Exported(p, role, from, until).generation = last_generation + 1
    BY Zenon DEF Exported
  <2>4. /\ job'[p].pc = "solved" /\ job'[p].key = job[p].key
        /\ job'[p].snapshot = job[p].snapshot
        /\ job'[p].candidate.generation = last_generation + 1
    BY Zenon, <1>1, <2>2, <2>3 DEF JobType
  <2>5. UNCHANGED authorityVars
    BY Zenon, <1>4, <1>7 DEF FinishSolve
  <2> QED BY Zenon, <1>2, <1>7, <2>4, <2>5
<1>8. CASE SubmitImmediate(p) /\ ~JobBecomes(p, IdleJob)
  <2>1. job'[p] = [job[p] EXCEPT !.pc = "unqueued", !.snapshot = None]
    BY Zenon, <1>3, <1>8 DEF SubmitImmediate
  <2>2. job'[p].pc = "unqueued" /\ job'[p].snapshot = None
    BY Zenon, <1>1, <2>1 DEF JobType
  <2> QED BY Zenon, <1>2, <1>8, <2>2
<1>9. CASE ReadCommitted(p) /\ ~Discard(p)
  <2>1. job'[p] = [job[p] EXCEPT !.pc = "revoking", !.snapshot = Snapshot] /\ UNCHANGED authorityVars
    BY Zenon, <1>3, <1>4, <1>9 DEF ReadCommitted
  <2>2. job'[p].pc = "revoking" /\ job'[p].snapshot = Snapshot
    BY Zenon, <1>1, <2>1 DEF JobType
  <2> QED BY Zenon, <1>2, <2>1, <2>2
<1>10. CASE BeginCommit(p) /\ ~Discard(p)
  <2>1. /\ job'[p] = [job[p] EXCEPT !.pc = "checked", !.snapshot = Snapshot]
        /\ UNCHANGED <<authorityVars, last_generation>> /\ job[p].pc = "solved"
    BY Zenon, <1>3, <1>4, <1>10 DEF BeginCommit
  <2>2. /\ job'[p].pc = "checked" /\ job'[p].snapshot = Snapshot /\ job'[p].key = job[p].key
        /\ job'[p].candidate = job[p].candidate
    BY Zenon, <1>1, <2>1 DEF JobType
  <2> QED BY Zenon, <1>2, <2>1, <2>2 DEF Unsubmitted
<1>11. CASE ChooseRoute(p)
  <2>1. /\ job'[p] = [job[p] EXCEPT !.pc = IF ScheduleSuccessor(p) THEN "anchoring" ELSE "validated"]
        /\ UNCHANGED <<authorityVars, last_generation>> /\ job[p].pc = "checked"
    BY Zenon, <1>3, <1>4, <1>11 DEF ChooseRoute
  <2>2. /\ job'[p].pc = IF ScheduleSuccessor(p) THEN "anchoring" ELSE "validated"
        /\ job'[p].snapshot = job[p].snapshot /\ job'[p].key = job[p].key
        /\ job'[p].candidate = job[p].candidate
    BY Zenon, <1>1, <2>1 DEF JobType
  <2> QED BY Zenon, <1>2, <2>1, <2>2 DEF Unsubmitted
<1>12. CASE PinAnchor(p) /\ ~Discard(p)
  <2>1. /\ job'[p] = [job[p] EXCEPT !.pc = "pinned", !.pin = AnchorPin]
        /\ UNCHANGED <<authorityVars, last_generation>> /\ job[p].pc = "anchoring"
    BY Zenon, <1>3, <1>4, <1>12 DEF PinAnchor
  <2>2. /\ job'[p].pc = "pinned"
        /\ job'[p].snapshot = job[p].snapshot /\ job'[p].key = job[p].key
        /\ job'[p].candidate = job[p].candidate
    BY Zenon, <1>1, <2>1 DEF JobType
  <2> QED BY Zenon, <1>2, <2>1, <2>2 DEF Unsubmitted
<1>13. CASE ConfirmAnchor(p) /\ ~Discard(p)
  <2> DEFINE anchor == AnchorOf(job[p].pin, job[p].candidate.valid_from)
  <2>1. /\ job'[p] = [job[p] EXCEPT !.pc = "validated", !.anchor = anchor, !.pin = None]
        /\ UNCHANGED <<authorityVars, last_generation>> /\ job[p].pc = "pinned"
    BY Zenon, <1>3, <1>4, <1>13 DEF ConfirmAnchor
  <2>2. job[p].pin \in PinType /\ job[p].candidate \in CandidateBundle
    BY Zenon, <1>1, <2>1 DEF IInv, JobShape, JobOK, JobType
  <2>3. anchor \in Anchor
    BY Zenon, <2>2 DEF AnchorOf, Anchor, PinType, CandidateBundle
  <2> HIDE DEF anchor
  <2>4. /\ job'[p].pc = "validated" /\ job'[p].anchor # None
        /\ job'[p].snapshot = job[p].snapshot /\ job'[p].key = job[p].key
        /\ job'[p].candidate = job[p].candidate
    BY <1>1, <2>1, <2>3, NoneFacts DEF JobType
  <2> QED BY Zenon, <1>2, <2>1, <2>4 DEF Unsubmitted
<1>14. CASE TakeTransaction(p)
  <2>1. /\ job'[p] = [job[p] EXCEPT !.pc = "submitting",
             !.token = [goal_epoch |-> job[p].candidate.goal_epoch,
                        world |-> job[p].candidate.world,
                        transaction_id |-> transaction_id + 1]]
        /\ UNCHANGED <<authorityVars, last_generation>> /\ job[p].pc = "validated"
    BY Zenon, <1>3, <1>4, <1>14 DEF TakeTransaction
  <2>2. /\ job'[p].pc = "submitting" /\ job'[p].anchor = job[p].anchor
        /\ job'[p].snapshot = job[p].snapshot /\ job'[p].key = job[p].key
        /\ job'[p].candidate = job[p].candidate
    BY Zenon, <1>1, <2>1 DEF JobType
  <2> QED BY Zenon, <1>2, <2>1, <2>2 DEF Unsubmitted
<1>15. Discard(p) \/ SubmitSuccessor(p) \/ ClearCommand(p) => JobBecomes(p, IdleJob)
  BY Zenon DEF Discard, SubmitSuccessor, ClearCommand
<1> QED BY ZenonT(60), <1>5, <1>6, <1>7, <1>8, <1>9, <1>10, <1>11, <1>12, <1>13, <1>14, <1>15
        DEF ProducerStep, RefuseCandidate, SuccessorRejected, ImmediateRejected, ClearRejected

\* A producer that still has a candidate to submit after its step has started
\* the solve, finished it, or moved the commit on.
SolveStarted(p) ==
  /\ StartSolve(p) /\ UNCHANGED authorityVars
  /\ job'[p].pc = "solving"
  /\ job'[p].key.committed_generation = ActiveGeneration

SolveFinished(p) ==
  /\ FinishSolve(p) /\ UNCHANGED authorityVars
  /\ job'[p].pc = "solved" /\ job'[p].key = job[p].key
  /\ job'[p].candidate.generation = last_generation + 1

CommitAdvanced(p) ==
  /\ UNCHANGED <<authorityVars, last_generation>>
  /\ job[p].pc \in Unsubmitted \ {"solving"}
  /\ job'[p].key = job[p].key /\ job'[p].candidate = job[p].candidate
  /\ job'[p].pc \in {"validated", "submitting"} /\ job'[p].anchor = None =>
       /\ job'[p].snapshot = job[p].snapshot
       /\ \/ job[p].pc = "validated" /\ job[p].anchor = None
          \/ ~ScheduleSuccessor(p)

LEMMA UnsubmittedMoves ==
  ASSUME IInv, NEW p \in Producers, ProducerStep(p), job'[p].pc \in Unsubmitted
  PROVE  SolveStarted(p) \/ SolveFinished(p) \/ CommitAdvanced(p)
<1>1. job'[p] # IdleJob
  <2>1. job'[p].pc # "idle"
    BY Zenon DEF Unsubmitted
  <2>2. IdleJob.pc = "idle"
    BY Zenon DEF IdleJob
  <2> QED BY Zenon, <2>1, <2>2
<1>2. job'[p].pc # "unqueued" /\ job'[p].pc # "revoking"
  BY Zenon DEF Unsubmitted
<1> QED BY Zenon, <1>1, <1>2, ProducerMoves DEF SolveStarted, SolveFinished, CommitAdvanced

\* The snapshot a producer holds after its step: the one it held, none, or the
\* state the authority is in.
SnapshotKept(p) ==
  job'[p].snapshot = None \/ job'[p].snapshot = job[p].snapshot

SnapshotTaken(p) ==
  job'[p].snapshot = Snapshot /\ UNCHANGED authorityVars

LEMMA SnapshotMoves ==
  ASSUME IInv, NEW p \in Producers, ProducerStep(p)
  PROVE  SnapshotKept(p) \/ SnapshotTaken(p)
<1>1. job'[p] = IdleJob => job'[p].snapshot = None
  <2>1. IdleJob.snapshot = None
    BY Zenon DEF IdleJob
  <2> QED BY Zenon, <2>1
<1>2. \/ job'[p] = IdleJob
      \/ job'[p].snapshot = None
      \/ job'[p].snapshot = job[p].snapshot
      \/ job'[p].snapshot = Snapshot /\ UNCHANGED authorityVars
      \/ /\ UNCHANGED <<authorityVars, last_generation>>
         /\ job'[p].snapshot \in {job[p].snapshot, Snapshot}
  BY ZenonT(60), ProducerMoves
<1>3. UNCHANGED <<authorityVars, last_generation>> => UNCHANGED authorityVars
  BY Zenon
<1> QED BY Zenon, <1>1, <1>2, <1>3 DEF SnapshotKept, SnapshotTaken

\* The other threads leave the jobs alone; the timer takes exact snapshots.
LEMMA OthersMove ==
  ASSUME IInv, TimerStep \/ TimerObservation \/ MapperStep \/ GoalStep \/ LifecycleStep
  PROVE  /\ job' = job
         /\ timer' = timer \/ (timer' = Snapshot /\ UNCHANGED authorityVars)
<1>1. job' = job
  BY Zenon, OtherThreads
<1>2. timer' = timer \/ (timer' = Snapshot /\ UNCHANGED authorityVars)
  BY ZenonT(60) DEF TimerStep, TimerObservation, TimerSnapshot, TimerActivate, TimerDropStale,
     TimerExpose, TimerSampledSafetyRole, TimerStoppedHold, TimerPreserveSafetySuffix,
     TimerFailClosed, TimerSuspend, GoalStep, AcceptGoal, LocalizationReset,
     AdmitAfterReset, DropGoal, ClearGoal, RevokeToHold, FailClosedAndUnlock,
     LifecycleStep, OwnerFailClosed, OwnerSuspend, OwnerClearRestart, OwnerRequestRestart,
     OwnerRecoveryEvent, OwnerRetain, LifecycleQuiet, OwnerQuiet,
     MapperStep, ValidateWorld, PinWorld, WorldSuperseded, CommitWorld,
     RejectWorld, InvalidateAfterReject, ReadRecertified, ResumeCommand, ResumeRefused, MapperQuiet
<1> QED BY Zenon, <1>1, <1>2

\* A version that did not move names the same state.
LEMMA SameVersion ==
  ASSUME IInv, [Next]_vars
  PROVE  /\ timeline_version \in Nat /\ timeline_version' \in Nat
         /\ timeline_version' >= timeline_version
         /\ timeline_version' = timeline_version => UNCHANGED authorityVars
         /\ UNCHANGED authorityVars => Snapshot' = Snapshot /\ UNCHANGED <<active, lifecycle>>
<1>1. timeline_version \in Nat /\ timeline_version' \in Nat
  BY Zenon, TypeKept DEF IInv, TypeOK, AuthorityTypeOK
<1>2. UNCHANGED authorityVars \/ timeline_version' > timeline_version
  BY Zenon, StepIsAuthorityStep, VersionAdvances DEF IInv, TypeOK
<1>3. UNCHANGED authorityVars => Snapshot' = Snapshot /\ UNCHANGED <<active, lifecycle, timeline_version>>
  BY Zenon DEF authorityVars, Snapshot
<1> QED BY SMTT(30), <1>1, <1>2, <1>3

\* VersionNamesState is preserved: every call that changes the authority moves its
\* version.
LEMMA SnapshotsKept ==
  ASSUME IInv, [Next]_vars
  PROVE  SnapshotsExact'
<1>1. ASSUME NEW s, s # None,
             s \in HeldSnapshots \/ (s = Snapshot /\ UNCHANGED authorityVars)
      PROVE  s.version <= timeline_version' /\ (s.version = timeline_version' => s = Snapshot')
  <2>1. CASE s \in HeldSnapshots
    <3>1. s.version <= timeline_version /\ (s.version = timeline_version => s = Snapshot)
      BY Zenon, <1>1, <2>1 DEF IInv, SnapshotsExact
    <3>2. s \in SnapshotType
      BY Zenon, <1>1, <2>1 DEF IInv, TypeOK, HeldSnapshots, JobType
    <3>3. s.version \in Nat
      BY Zenon, <3>2 DEF SnapshotType
    <3> QED BY <3>1, <3>3, SameVersion
  <2>2. CASE s = Snapshot /\ UNCHANGED authorityVars
    <3>1. s.version = timeline_version /\ timeline_version' = timeline_version
      BY Zenon, <2>2 DEF Snapshot, authorityVars
    <3> QED BY Zenon, <2>2, <3>1, SameVersion
  <2> QED BY Zenon, <1>1, <2>1, <2>2
<1>2. ASSUME NEW s \in HeldSnapshots', s # None
      PROVE  s \in HeldSnapshots \/ (s = Snapshot /\ UNCHANGED authorityVars)
  <2>1. CASE \E p \in Producers : ProducerStep(p)
    <3>1. PICK p \in Producers : ProducerStep(p)
      BY Zenon, <2>1
    <3>2. /\ \A q \in Producers : q # p => job'[q] = job[q]
          /\ timer' = timer
      BY Zenon, <3>1, ProducerMoves
    <3>3. SnapshotKept(p) \/ SnapshotTaken(p)
      BY Zenon, <3>1, SnapshotMoves
    <3>4. CASE SnapshotKept(p)
      BY Zenon, <1>2, <3>2, <3>4 DEF HeldSnapshots, SnapshotKept
    <3>5. CASE SnapshotTaken(p)
      BY Zenon, <1>2, <3>2, <3>5 DEF HeldSnapshots, SnapshotTaken
    <3> QED BY Zenon, <3>3, <3>4, <3>5
  <2>2. CASE TimerStep \/ TimerObservation \/ MapperStep \/ GoalStep \/ LifecycleStep
    BY Zenon, <1>2, <2>2, OthersMove DEF HeldSnapshots
  <2>3. CASE UNCHANGED vars
    BY Zenon, <1>2, <2>3 DEF vars, clientVars, HeldSnapshots
  <2> QED BY Zenon, <2>1, <2>2, <2>3 DEF Next
<1> QED BY Zenon, <1>1, <1>2 DEF SnapshotsExact

\* ImmediateFromRest is preserved: a route chosen at a measured stop loses its
\* snapshot when the recovery state moves on.
LEMMA FromRestKept ==
  ASSUME IInv, [Next]_vars
  PROVE  ImmediateFromRest'
<1> SUFFICES ASSUME NEW q \in Producers,
                    job'[q].pc \in {"validated", "submitting"}, job'[q].anchor = None,
                    job'[q].candidate.role # "Emergency", job'[q].snapshot.active # None,
                    job'[q].snapshot.version = timeline_version'
             PROVE  lifecycle'.recovery = "StoppedRecovery"
  BY Zenon DEF ImmediateFromRest
<1>1. CASE job'[q] = job[q]
  <2>1. job[q].snapshot # None /\ job[q].snapshot \in SnapshotType
    BY Zenon, <1>1 DEF IInv, TypeOK, JobShape, JobOK, JobType
  <2>2. job[q].snapshot.version <= timeline_version /\ job[q].snapshot.version \in Nat
    BY Zenon, <2>1 DEF IInv, SnapshotsExact, HeldSnapshots, SnapshotType
  <2>3. timeline_version' = timeline_version
    BY SMTT(30), <1>1, <2>2, SameVersion
  <2>4. lifecycle' = lifecycle
    BY Zenon, <2>3, SameVersion
  <2> QED BY Zenon, <1>1, <2>3, <2>4 DEF IInv, ImmediateFromRest
<1>2. CASE ProducerStep(q)
  <2>0. CommitAdvanced(q)
    <3>1. job'[q].pc \in Unsubmitted /\ job'[q].pc # "solving" /\ job'[q].pc # "solved"
      BY Zenon DEF Unsubmitted
    <3>2. ~SolveStarted(q) /\ ~SolveFinished(q)
      BY Zenon, <3>1 DEF SolveStarted, SolveFinished
    <3> QED BY Zenon, <1>2, <3>1, <3>2, UnsubmittedMoves
  <2>1. /\ UNCHANGED authorityVars
        /\ job'[q].candidate = job[q].candidate
        /\ job'[q].snapshot = job[q].snapshot
        /\ \/ job[q].pc = "validated" /\ job[q].anchor = None
           \/ ~ScheduleSuccessor(q)
    BY Zenon, <2>0 DEF CommitAdvanced
  <2>2. lifecycle' = lifecycle /\ timeline_version' = timeline_version
    BY Zenon, <2>1 DEF authorityVars
  <2>3. CASE job[q].pc = "validated" /\ job[q].anchor = None
    BY Zenon, <2>1, <2>2, <2>3 DEF IInv, ImmediateFromRest
  <2>4. CASE ~ScheduleSuccessor(q)
    BY Zenon, <2>1, <2>2, <2>4 DEF ScheduleSuccessor
  <2> QED BY Zenon, <2>1, <2>3, <2>4
<1>3. CASE \E p \in Producers : ProducerStep(p) /\ p # q
  BY Zenon, <1>1, <1>3, ProducerMoves
<1>4. CASE TimerStep \/ TimerObservation \/ MapperStep \/ GoalStep \/ LifecycleStep
  BY Zenon, <1>1, <1>4, OthersMove
<1>5. CASE UNCHANGED vars
  BY ZenonT(60), <1>1, <1>5 DEF vars, clientVars
<1> QED BY Zenon, <1>2, <1>3, <1>4, <1>5 DEF Next

\* While the planning worker plans without a predecessor, nothing becomes active.
LEMMA NoneBecomesActive ==
  ASSUME IInv, [Next]_vars, NEW q \in Producers,
         job[q].pc \in Unsubmitted, job[q].key.committed_generation = 0,
         ~SubmitImmediate(q)
  PROVE  active'.bundle = None
<1>1. q = "planner" /\ ~HasActive /\ ActiveGeneration = 0
  BY Zenon DEF IInv, ExposureOrder, ActiveGeneration
<1>2. CASE Maintenance
  BY Zenon, <1>1, <1>2, ActiveMaintained DEF IInv, TypeOK
<1>3. CASE (\E p \in Producers : SubmitSuccessor(p)) \/ TimerActivate
  BY Zenon, <1>1, <1>3, Staging, Activating
<1>4. CASE \E p \in Producers : SubmitImmediate(p)
  <2>1. PICK p \in Producers : SubmitImmediate(p)
    BY Zenon, <1>4
  <2>2. job[p].pc = "submitting" /\ job[p].key.committed_generation = 0
    BY Zenon, <1>1, <2>1, Committing
  <2>3. p = "planner"
    BY Zenon, <2>2 DEF IInv, ExposureOrder, Unsubmitted
  <2> QED BY Zenon, <1>1, <2>1, <2>3
<1> QED BY Zenon, <1>2, <1>3, <1>4, StepCalls

\* ExposureOrder is preserved: only a younger command becomes active.
LEMMA ExposureKept ==
  ASSUME IInv, [Next]_vars
  PROVE  ExposureOrder'
<1>0. /\ last_generation \in Nat /\ last_generation' \in Nat /\ last_generation' >= last_generation
      /\ AuthorityTypeOK /\ exposed \in CandidateBundle \cup {None}
      /\ active'.bundle # None => active'.bundle \in CandidateBundle
      /\ HasActive => active.bundle \in CandidateBundle
  BY Zenon, JobsKept, TypeKept DEF IInv, TypeOK, AuthorityTypeOK, HasActive
<1>1. ASSUME NEW b \in CandidateBundle PROVE b.generation \in Nat /\ b.generation > 0
  BY SMTT(30) DEF CandidateBundle, Id
<1>2. CASE TimerExpose
  <2>1. /\ exposed' = active.bundle /\ HasActive
        /\ UNCHANGED <<active, job, last_generation>>
    BY ZenonT(60), <1>2 DEF TimerExpose, TimerQuiet, PublishIfCurrent, HasActive, authorityVars
  <2>2. active.bundle.generation <= last_generation /\ active.bundle.generation \in Nat
    BY Zenon, <1>0, <1>1, <2>1 DEF IInv, Frame
  <2>3. \A q \in Producers :
          ~(job[q].pc \in Unsubmitted /\ job[q].key.committed_generation = 0)
    BY Zenon, <2>1 DEF IInv, ExposureOrder
  <2> QED BY SMTT(30), <2>1, <2>2, <2>3 DEF ExposureOrder, HasActive
<1>3. CASE exposed' = exposed
  <2>1. exposed # None => exposed.generation <= last_generation'
    BY SMTT(30), <1>0, <1>1 DEF IInv, ExposureOrder
  <2>2. exposed # None /\ active'.bundle # None =>
          exposed.generation <= active'.bundle.generation
    <3>1. CASE Maintenance
      BY Zenon, <1>0, <3>1, ActiveMaintained DEF IInv, ExposureOrder
    <3>2. CASE \E p \in Producers : SubmitSuccessor(p)
      BY Zenon, <3>2, Staging DEF IInv, ExposureOrder
    <3>3. CASE \E p \in Producers : SubmitImmediate(p)
      <4>1. PICK p \in Producers : SubmitImmediate(p)
        BY Zenon, <3>3
      <4>2. /\ active'.bundle = job[p].candidate /\ job[p].candidate \in CandidateBundle
            /\ job[p].candidate.generation >= ActiveGeneration
            /\ job[p].key.committed_generation = ActiveGeneration
            /\ job[p].pc = "submitting"
        BY Zenon, <4>1, Committing
      <4>3. CASE HasActive
        <5>1. ActiveGeneration = active.bundle.generation
          BY Zenon, <4>3 DEF ActiveGeneration
        <5>2. exposed # None => exposed.generation <= active.bundle.generation
          BY Zenon, <4>3 DEF IInv, ExposureOrder
        <5> QED BY <1>0, <1>1, <4>2, <4>3, <5>1, <5>2
      <4>4. CASE ~HasActive
        <5>1. job[p].key.committed_generation = 0 /\ job[p].pc \in Unsubmitted
          BY Zenon, <4>2, <4>4 DEF ActiveGeneration, Unsubmitted
        <5>2. exposed # None => exposed.generation < job[p].candidate.generation
          BY Zenon, <4>2, <5>1 DEF IInv, ExposureOrder
        <5> QED BY SMTT(30), <1>0, <1>1, <4>2, <5>2
      <4> QED BY Zenon, <4>3, <4>4
    <3>4. CASE TimerActivate
      <4>1. HasActive /\ (active' = active \/ active'.bundle.generation > active.bundle.generation)
        BY Zenon, <3>4, Activating
      <4>2. exposed # None => exposed.generation <= active.bundle.generation
        BY Zenon, <4>1 DEF IInv, ExposureOrder
      <4> QED BY SMTT(30), <1>0, <1>1, <4>1, <4>2
    <3> QED BY Zenon, <3>1, <3>2, <3>3, <3>4, StepCalls
  <2>3. ASSUME NEW q \in Producers, job'[q].pc \in Unsubmitted,
               job'[q].key.committed_generation = 0
        PROVE  /\ q = "planner"
               /\ active'.bundle = None
               /\ job'[q].pc # "solving" /\ exposed # None =>
                    exposed.generation < job'[q].candidate.generation
    <3>1. CASE job'[q] = job[q]
      <4>1. ~SubmitImmediate(q)
        <5>1. SubmitImmediate(q) => job'[q].pc \in {"idle", "unqueued"}
          BY SMTT(30) DEF SubmitImmediate, JobBecomes, IdleJob, IInv, TypeOK, JobType
        <5> QED BY Zenon, <2>3, <5>1 DEF Unsubmitted
      <4> QED BY Zenon, <2>3, <3>1, <4>1, NoneBecomesActive DEF IInv, ExposureOrder
    <3>2. CASE ProducerStep(q)
      <4>1. CASE SolveStarted(q)
        <5>0. /\ StartSolve(q) /\ UNCHANGED authorityVars /\ job'[q].pc = "solving"
              /\ job'[q].key.committed_generation = ActiveGeneration
          BY Zenon, <4>1 DEF SolveStarted
        <5>1. ~HasActive
          BY <1>0, <1>1, <2>3, <5>0 DEF ActiveGeneration
        <5>2. q = "planner"
          BY Zenon, <5>0, <5>1, BoundAssumption DEF StartSolve
        <5> QED BY Zenon, <5>0, <5>1, <5>2 DEF authorityVars, HasActive
      <4>2. CASE SolveFinished(q)
        <5>0. /\ FinishSolve(q) /\ UNCHANGED authorityVars /\ job'[q].key = job[q].key
              /\ job'[q].candidate.generation = last_generation + 1
          BY Zenon, <4>2 DEF SolveFinished
        <5>1. job[q].pc = "solving"
          BY Zenon, <5>0 DEF FinishSolve
        <5>2. q = "planner" /\ ~HasActive
          BY Zenon, <2>3, <5>0, <5>1 DEF IInv, ExposureOrder, Unsubmitted
        <5>3. exposed # None => exposed.generation < last_generation + 1
          BY SMTT(30), <1>0, <1>1 DEF IInv, ExposureOrder
        <5> QED BY Zenon, <5>0, <5>2, <5>3 DEF authorityVars, HasActive
      <4>3. CASE CommitAdvanced(q)
        <5>1. /\ UNCHANGED <<authorityVars, last_generation>>
              /\ job[q].pc \in Unsubmitted \ {"solving"}
              /\ job'[q].key = job[q].key /\ job'[q].candidate = job[q].candidate
          BY Zenon, <4>3 DEF CommitAdvanced
        <5> QED BY Zenon, <2>3, <5>1 DEF IInv, ExposureOrder, authorityVars, HasActive
      <4> QED BY Zenon, <2>3, <3>2, <4>1, <4>2, <4>3, UnsubmittedMoves
    <3>3. CASE \E p \in Producers : ProducerStep(p) /\ p # q
      BY ZenonT(60), <3>1, <3>3, ProducerMoves
    <3>4. CASE TimerStep \/ TimerObservation \/ MapperStep \/ GoalStep \/ LifecycleStep
      BY Zenon, <3>1, <3>4, OthersMove
    <3>5. CASE UNCHANGED vars
      BY Zenon, <3>1, <3>5 DEF vars, clientVars
    <3> QED BY Zenon, <3>2, <3>3, <3>4, <3>5 DEF Next
  <2> QED BY Zenon, <1>3, <2>1, <2>2, <2>3 DEF ExposureOrder, HasActive
<1> QED BY Zenon, <1>2, <1>3, FrameMoves

----------------------------------------------------------------------------
(* The theorems                                                            *)

\* The inductive invariant holds of a node that has just started.
LEMMA InitEstablishes == Init => IInv
<1> SUFFICES ASSUME Init PROVE IInv
  BY Zenon
<1> USE DEF Init, AuthorityInit
<1>1. AuthorityTypeOK
  BY Zenon DEF AuthorityTypeOK, NoActive, NoStaged, InitialLifecycle, LifecycleState, Phase,
     RecoveryState, Exposure, Safety, Restart
<1>2. IdleMapper \in MapperType
  BY Zenon DEF IdleMapper, MapperType
<1>3. TypeOK
  BY SMTT(30), <1>1, <1>2, IdleJobFacts, BoundAssumption DEF TypeOK, Id
<1>4. JobShape
  BY Zenon, IdleJobFacts DEF JobShape
<1>5. ImmediateFromRest /\ MapperShape /\ ExposureOrder
  BY Zenon DEF ImmediateFromRest, MapperShape, ExposureOrder, IdleJob, IdleMapper, Unsubmitted
<1>6. SnapshotsExact
  BY Zenon DEF SnapshotsExact, HeldSnapshots, IdleJob
<1>7. ~HasActive /\ ~HasStaged
  BY Zenon DEF HasActive, HasStaged, NoActive, NoStaged
<1>8. Frame /\ CommandsCertified /\ SuccessorAnchored /\ CommandsInCurrentFrame
  BY SMTT(30), <1>7 DEF Frame, CommandsCertified, SuccessorAnchored, CommandsInCurrentFrame
<1>9. TimelineStructure /\ AvailableMeansCommand
  BY SMTT(30), <1>7 DEF TimelineStructure, InvariantHolds, AvailableMeansCommand, NoActive, NoStaged,
     InitialLifecycle
<1> QED BY Zenon, <1>3, <1>4, <1>5, <1>6, <1>8, <1>9 DEF IInv

\* Every step of every thread preserves the inductive invariant.
LEMMA StepPreserves == IInv /\ [Next]_vars => IInv'
<1> SUFFICES ASSUME IInv, [Next]_vars PROVE IInv'
  BY Zenon
<1>1. TimelineStructure' /\ CommandsCertified'
  BY Zenon, StepIsAuthorityStep, StructurePreserved, CertifiedPreserved DEF IInv, TypeOK
<1> QED BY Zenon, <1>1, TypeKept, JobsKept, MapperKept, FromRestKept, SnapshotsKept, FrameKept,
        AnchoredKept, AvailableKept, ExposureKept DEF IInv

\* The inductive invariant holds in every reachable state of the node.
THEOREM Inductive == Spec => []IInv
BY InitEstablishes, StepPreserves, PTL DEF Spec

\* Every variable keeps its type: no thread of navigation_runtime_node.cpp reads
\* a null key, candidate, snapshot, anchor or token in any interleaving.
THEOREM TypeCorrect == Spec => []TypeOK
<1>1. IInv => TypeOK
  BY Zenon DEF IInv
<1> QED BY <1>1, Inductive, PTL

\* invariantHolds() of the execution authority never fails.
THEOREM StructureHolds == Spec => []TimelineStructure
<1>1. IInv => TimelineStructure
  BY Zenon DEF IInv
<1> QED BY <1>1, Inductive, PTL

\* No command and no successor outlives the world it was certified against.
THEOREM AlwaysCertified == Spec => []CommandsCertified
<1>1. IInv => CommandsCertified
  BY Zenon DEF IInv
<1> QED BY <1>1, Inductive, PTL

\* A successor always continues the command that is active, although
\* stagePending runs outside the owner locks.
THEOREM AlwaysAnchored == Spec => []SuccessorAnchored
<1>1. IInv => SuccessorAnchored
  BY Zenon DEF IInv
<1> QED BY <1>1, Inductive, PTL

\* No command of an earlier localization epoch survives a reset.
THEOREM FrameHolds == Spec => []CommandsInCurrentFrame
<1>1. IInv => CommandsInCurrentFrame
  BY Zenon DEF IInv
<1> QED BY <1>1, Inductive, PTL

\* What is exposable exists and belongs to the admitted epoch.
THEOREM AvailabilityHolds == Spec => []AvailableMeansCommand
<1>1. IInv => AvailableMeansCommand
  BY Zenon DEF IInv
<1> QED BY <1>1, Inductive, PTL

\* The timeline version is a faithful optimistic token.
THEOREM VersionFaithful == Spec => []VersionNamesState
<1>1. IInv => VersionNamesState
  BY Zenon DEF IInv, SnapshotsExact, VersionNamesState
<1> QED BY <1>1, Inductive, PTL

\* A late nominal result never replaces a moving safety command.
THEOREM SafetyNotReplaced == Spec => MovingSafetyNotReplaced
<1> DEFINE Step == lifecycle.recovery \in MovingSafety /\ HasActive /\ active'.bundle # None
                     /\ active'.bundle.generation # active.bundle.generation
                   => active'.bundle.role = "Emergency"
<1>1. IInv /\ [Next]_vars => [Step]_vars
  <2> SUFFICES ASSUME IInv, [Next]_vars, lifecycle.recovery \in MovingSafety, HasActive,
                      active'.bundle # None,
                      active'.bundle.generation # active.bundle.generation
               PROVE  active'.bundle.role = "Emergency"
    BY Zenon
  <2>1. CASE Maintenance
    BY Zenon, <2>1, ActiveMaintained DEF IInv, TypeOK
  <2>2. CASE \E p \in Producers : SubmitSuccessor(p)
    BY Zenon, <2>2, Staging
  <2>3. CASE \E p \in Producers : SubmitImmediate(p)
    BY Zenon, <2>3, Committing DEF MovingSafety
  <2>4. CASE TimerActivate
    BY Zenon, <2>4, Activating DEF MovingSafety, NominalPlanningAllowed
  <2> QED BY Zenon, <2>1, <2>2, <2>3, <2>4, StepCalls
<1> QED BY <1>1, Inductive, PTL DEF Spec, MovingSafetyNotReplaced

\* The transport never sees a command older than one it has already seen.
THEOREM ExposureMonotone == Spec => ExposureNeverRegresses
<1> DEFINE Step == exposed # None => exposed'.generation >= exposed.generation
<1>1. IInv /\ [Next]_vars => [Step]_vars
  <2> SUFFICES ASSUME IInv, [Next]_vars, exposed # None
               PROVE  exposed'.generation >= exposed.generation
    BY Zenon
  <2>1. exposed.generation \in Nat
    BY Zenon DEF IInv, TypeOK, CandidateBundle, Id
  <2>2. CASE exposed' = exposed
    BY SMTT(30), <2>1, <2>2
  <2>3. CASE TimerExpose
    <3>1. exposed' = active.bundle /\ HasActive
      BY Zenon, <2>3 DEF TimerExpose, PublishIfCurrent, HasActive
    <3>2. exposed.generation <= active.bundle.generation /\ active.bundle.generation \in Nat
      BY ZenonT(60), <3>1 DEF IInv, ExposureOrder, TypeOK, AuthorityTypeOK, HasActive, CandidateBundle, Id
    <3> QED BY Zenon, <2>1, <3>1, <3>2
  <2> QED BY Zenon, <2>2, <2>3, FrameMoves
<1> QED BY <1>1, Inductive, PTL DEF Spec, ExposureNeverRegresses

\* A failed command path is reopened only by dropping its commands.
THEOREM FailureSticks == Spec => FailedCommandNotRevived
<1> DEFINE Step == lifecycle.exposure = "Failed" /\ lifecycle'.exposure # "Failed"
                   => active' = NoActive /\ staged' = NoStaged
<1>1. IInv /\ [Next]_vars => [Step]_vars
  BY Zenon, StepIsAuthorityStep, FailedKept DEF IInv, TypeOK
<1> QED BY <1>1, Inductive, PTL DEF Spec, FailedCommandNotRevived

\* As long as the lineage stands still, so does the active command.
THEOREM LineageFaithful == Spec => LineageNamesCommand
<1> DEFINE Step == active_lineage' = active_lineage
                   => Identity(active'.bundle) = Identity(active.bundle)
<1>1. IInv /\ [Next]_vars => [Step]_vars
  BY Zenon, StepIsAuthorityStep, LineageKept DEF IInv, TypeOK
<1> QED BY <1>1, Inductive, PTL DEF Spec, LineageNamesCommand
=============================================================================
