----------------------- MODULE ExecutionAuthorityProofs -----------------------
(***************************************************************************)
(* What every call of the ExecutionAuthority preserves, whoever makes it:  *)
(* its types, its structure, the certification of its commands, and the    *)
(* meaning of its two counters.  One lemma per fact, one case per call.    *)
(***************************************************************************)
EXTENDS ExecutionTimeline, TLAPS

\* A change of the lifecycle record alone, as the observers make it.
LifecycleChange ==
    \E life \in LifecycleState :
      /\ LifecycleBecomes(life)
      /\ lifecycle.exposure = "Failed" => life.exposure = "Failed"
      /\ life.exposure = "Available" => HasActive

\* A certified copy, or none.
IsCopy(copy, source, identity) ==
    \/ copy = None
    \/ source \in CandidateBundle /\ \E renewed \in Nat : copy = Recertified(source, identity, renewed)

\* The calls that the threads of the node make, with arguments of their types:
\* those that bring in a new command, and the others.
StageCall ==
    \E token \in Token, anchor \in Anchor, candidate \in CandidateBundle :
      StagePending(token, anchor, candidate.request_id, candidate)

ActivateCall ==
    \E now \in Nat, expected \in SnapshotType, finalized \in BOOLEAN :
      ActivatePendingIfDueAndFinalize(now, expected, finalized)

CommitCall ==
    \E token \in Token, candidate \in CandidateBundle :
      TryCommit(token, candidate.request_id, candidate)

PublishCall ==
    \E request \in RequestType, pin \in WorldPinType :
    \E active_copy, pending_copy \in CandidateBundle \cup {None} :
      /\ PublishWorldIdentity(request, pin, active_copy, pending_copy)
      /\ IsCopy(active_copy, pin.active, request.identity)
      /\ IsCopy(pending_copy, pin.pending, request.identity)

Maintenance ==
    \/ UNCHANGED authorityVars
    \/ \E epoch \in Id : SetAdmissionGoalEpoch(epoch, FALSE)
    \/ \E frame \in Id, epoch \in Id, retain \in BOOLEAN : BeginGoal(frame, epoch, retain)
    \/ \E frame \in Id : Reset(frame)
    \/ Invalidate
    \/ \E expected \in SnapshotType : InvalidateIfCurrent(expected)
    \/ LifecycleChange
    \/ \E now \in Nat, expected \in SnapshotType : DropStaleSuccessor(now, expected)
    \/ \E request \in RequestType, pin \in WorldPinType : RejectWorldIdentity(request, pin, None)
    \/ PublishCall

AuthorityStep == Maintenance \/ StageCall \/ ActivateCall \/ CommitCall

\* The recovery automaton is closed.
LEMMA RecoveryClosed ==
  ASSUME NEW state \in RecoveryState, NEW event \in RecoveryEvent
  PROVE  TransitionExecutionRecovery(state, event) \in RecoveryState
<1>1. CASE \E next \in RecoveryState : <<state, event, next>> \in RecoveryEdges
  <2>1. (CHOOSE next \in RecoveryState : <<state, event, next>> \in RecoveryEdges) \in RecoveryState
    BY Zenon, <1>1
  <2> QED BY Zenon, <2>1 DEF TransitionExecutionRecovery, RecoveryState
<1>2. CASE ~ \E next \in RecoveryState : <<state, event, next>> \in RecoveryEdges
  BY Zenon, <1>2 DEF TransitionExecutionRecovery, RecoveryState
<1> QED BY Zenon, <1>1, <1>2

\* What a commit makes of the lifecycle is a lifecycle.
LEMMA CommittedLifecycleType ==
  ASSUME lifecycle \in LifecycleState, NEW bundle \in CandidateBundle, NEW goal, NEW generation \in Nat
  PROVE  CommittedLifecycle(bundle, goal, generation) \in LifecycleState
<1>1. RoleEvent(bundle.role) \in RecoveryEvent
  BY Zenon DEF RoleEvent, RecoveryEvent
<1>2. lifecycle.recovery \in RecoveryState
  BY Zenon DEF LifecycleState
<1>3. TransitionExecutionRecovery(lifecycle.recovery, RoleEvent(bundle.role)) \in RecoveryState
  BY Zenon, <1>1, <1>2, RecoveryClosed
<1>4. TrackingPhase(bundle.role) \in Phase
  BY Zenon DEF TrackingPhase, Phase
<1> QED BY ZenonT(60), <1>3, <1>4 DEF CommittedLifecycle, LifecycleState, Exposure, Safety

\* None is not a bundle, a world, an anchor or an id.
LEMMA NoneFacts ==
  /\ None \notin WorldIdentity /\ None \notin CandidateBundle /\ None \notin Anchor
  /\ None \notin Nat /\ None \notin Id
BY Zenon, NoneAssumption DEF Id

\* A certified copy keeps everything but the world and the lease.
LEMMA RecertifiedFacts ==
  ASSUME NEW bundle \in CandidateBundle, NEW identity \in WorldIdentity, NEW renewed \in Nat
  PROVE  /\ Recertified(bundle, identity, renewed) \in CandidateBundle
         /\ Recertified(bundle, identity, renewed).world = identity
         /\ Recertified(bundle, identity, renewed).generation = bundle.generation
         /\ Recertified(bundle, identity, renewed).planned_on = bundle.planned_on
         /\ Recertified(bundle, identity, renewed).localization_epoch = bundle.localization_epoch
         /\ Recertified(bundle, identity, renewed).goal_epoch = bundle.goal_epoch
         /\ Recertified(bundle, identity, renewed).request_id = bundle.request_id
         /\ Recertified(bundle, identity, renewed).role = bundle.role
<1> DEFINE moved == [bundle EXCEPT !.world = identity]
<1> DEFINE lease == IF renewed > moved.valid_until THEN renewed ELSE moved.valid_until
<1>1. moved \in CandidateBundle /\ moved.valid_until \in Stamp
  BY Zenon DEF CandidateBundle
<1>2. lease \in Stamp
  BY <1>1 DEF Stamp
<1>3. Recertified(bundle, identity, renewed) = [moved EXCEPT !.valid_until = lease]
  BY Zenon DEF Recertified
<1> HIDE DEF lease
<1> QED BY ZenonT(60), <1>1, <1>2, <1>3 DEF CandidateBundle

\* Every authority call preserves the types of the authority.
LEMMA AuthorityTyping ==
  ASSUME AuthorityTypeOK, AuthorityStep
  PROVE  AuthorityTypeOK'
<1> USE NoneFacts, MaxVersionAssumption
<1>0. InitialLifecycle \in LifecycleState /\ FailedLifecycle \in LifecycleState
  BY Zenon DEF InitialLifecycle, FailedLifecycle, LifecycleState, Phase, RecoveryState, Exposure, Safety, Restart
<1>1. CASE UNCHANGED authorityVars
  BY Zenon, <1>1 DEF AuthorityTypeOK, authorityVars
<1>2. CASE \E epoch \in Id : SetAdmissionGoalEpoch(epoch, FALSE)
  BY <1>0, <1>2 DEF AuthorityTypeOK, SetAdmissionGoalEpoch, VersionMoves, LineageAfterRevocation,
     HasActive, NoActive, NoStaged, WorldIdentity, Id
<1>3. CASE \E frame \in Id, epoch \in Id, retain \in BOOLEAN : BeginGoal(frame, epoch, retain)
  BY <1>0, <1>3 DEF AuthorityTypeOK, BeginGoal, VersionMoves, LineageAfterRevocation,
     HasActive, NoActive, NoStaged, Id
<1>4. CASE \E frame \in Id : Reset(frame)
  BY <1>0, <1>4 DEF AuthorityTypeOK, Reset, VersionMoves, LineageAfterRevocation,
     HasActive, NoActive, NoStaged, Id
<1>5. CASE Invalidate
  BY <1>0, <1>5 DEF AuthorityTypeOK, Invalidate, VersionMoves, LineageAfterRevocation,
     HasActive, NoActive, NoStaged
<1>6. CASE \E expected \in SnapshotType : InvalidateIfCurrent(expected)
  <2>1. Withdrawn(lifecycle) \in LifecycleState
    BY Zenon DEF AuthorityTypeOK, Withdrawn, LifecycleState, Exposure
  <2> QED BY <1>6, <2>1 DEF AuthorityTypeOK, InvalidateIfCurrent, VersionMoves, NoActive, NoStaged
<1>7. CASE LifecycleChange
  BY <1>7 DEF AuthorityTypeOK, LifecycleChange, LifecycleBecomes, VersionMoves
<1>8. CASE StageCall
  BY <1>8 DEF StageCall, AuthorityTypeOK, StagePending, VersionMoves, Token, Anchor, CandidateBundle, Id, Stamp
<1>9. CASE \E now \in Nat, expected \in SnapshotType : DropStaleSuccessor(now, expected)
  BY <1>9 DEF AuthorityTypeOK, DropStaleSuccessor, VersionMoves, NoStaged
<1>10. CASE ActivateCall
  <2>1. PICK now \in Nat, expected \in SnapshotType, finalized \in BOOLEAN :
           ActivatePendingIfDueAndFinalize(now, expected, finalized)
    BY Zenon, <1>10 DEF ActivateCall
  <2>2. staged.bundle \in CandidateBundle /\ active.bundle \in CandidateBundle
    BY Zenon, <2>1 DEF AuthorityTypeOK, ActivatePendingIfDueAndFinalize, ActivationDue, HasStaged, HasActive
  <2>3. ActiveGeneration \in Nat
    BY Zenon, <2>2 DEF ActiveGeneration, CandidateBundle, Id, HasActive
  <2>4. CommittedLifecycle(staged.bundle, staged.goal, ActiveGeneration) \in LifecycleState
    BY Zenon, <2>2, <2>3, CommittedLifecycleType DEF AuthorityTypeOK
  <2> QED BY <2>1, <2>2, <2>4 DEF AuthorityTypeOK, ActivatePendingIfDueAndFinalize, VersionMoves, NoStaged
<1>11. CASE CommitCall
  <2>1. PICK token \in Token, candidate \in CandidateBundle :
           TryCommit(token, candidate.request_id, candidate)
    BY Zenon, <1>11 DEF CommitCall
  <2>3. ActiveGeneration \in Nat
    BY Zenon DEF AuthorityTypeOK, ActiveGeneration, CandidateBundle, Id, HasActive
  <2>4. CommittedLifecycle(candidate, candidate.request_id, ActiveGeneration) \in LifecycleState
    BY Zenon, <2>3, CommittedLifecycleType DEF AuthorityTypeOK
  <2> QED BY <2>1, <2>4 DEF AuthorityTypeOK, TryCommit, Commit, VersionMoves, NoStaged, Token, CandidateBundle, Id
<1>12. CASE \E request \in RequestType, pin \in WorldPinType : RejectWorldIdentity(request, pin, None)
  BY SMTT(30), <1>0, <1>12 DEF AuthorityTypeOK, RejectWorldIdentity, VersionMoves, NoActive, NoStaged
<1>13. CASE PublishCall
  BY SMTT(30), <1>0, <1>13 DEF PublishCall, AuthorityTypeOK, PublishWorldIdentity, VersionMoves, LineageAfterRevocation,
     HasActive, NoActive, NoStaged, RequestType
<1> QED BY ZenonT(60), <1>1, <1>2, <1>3, <1>4, <1>5, <1>6, <1>7, <1>8, <1>9, <1>10, <1>11, <1>12, <1>13
        DEF AuthorityStep, Maintenance

\* Two bundles that differ in nothing but world and lease.
SameCommand(b, c) ==
    /\ b \in CandidateBundle /\ c \in CandidateBundle
    /\ b.generation = c.generation /\ b.planned_on = c.planned_on
    /\ b.localization_epoch = c.localization_epoch /\ b.goal_epoch = c.goal_epoch
    /\ b.request_id = c.request_id /\ b.role = c.role

\* What a world publication leaves of the timeline: nothing, the recertified
\* command, or the recertified command and its recertified successor.
LEMMA PublicationKeeps ==
  ASSUME AuthorityTypeOK,
         NEW request \in RequestType, NEW pin \in WorldPinType,
         NEW active_copy \in CandidateBundle \cup {None},
         NEW pending_copy \in CandidateBundle \cup {None},
         PublishWorldIdentity(request, pin, active_copy, pending_copy),
         IsCopy(active_copy, pin.active, request.identity),
         IsCopy(pending_copy, pin.pending, request.identity)
  PROVE  /\ world_identity' = request.identity
         /\ \/ /\ active' = NoActive
               /\ active_lineage' = LineageAfterRevocation
               /\ lifecycle' = IF HasActive THEN FailedLifecycle ELSE lifecycle
            \/ /\ HasActive /\ SameCommand(active'.bundle, active.bundle)
               /\ active' \in [goal: Id \cup {None}, bundle: CandidateBundle \cup {None}]
               /\ active'.goal = active.goal /\ active'.bundle.world = request.identity
               /\ UNCHANGED <<active_lineage, lifecycle>>
         /\ \/ staged' = NoStaged
            \/ /\ HasStaged /\ HasActive /\ SameCommand(staged'.bundle, staged.bundle)
               /\ staged'.goal = staged.goal /\ staged'.activation = staged.activation
               /\ staged'.bundle.world = request.identity
               /\ active' # NoActive
<1> USE NoneFacts
<1>1. request.identity \in WorldIdentity
  BY Zenon DEF RequestType
<1>2. ASSUME NEW copy \in CandidateBundle, NEW source, IsCopy(copy, source, request.identity)
      PROVE  SameCommand(copy, source) /\ copy.world = request.identity
  BY SMTT(30), <1>1, <1>2, RecertifiedFacts DEF IsCopy, SameCommand
<1>3. active.bundle = pin.active /\ staged.bundle = pin.pending
  BY Zenon DEF PublishWorldIdentity, WorldPinCurrent
<1>4. CASE PrepareActive(request, pin)
  <2>1. active_copy \in CandidateBundle /\ active' = [active EXCEPT !.bundle = active_copy]
    BY Zenon, <1>4 DEF PublishWorldIdentity
  <2>2. HasActive
    BY Zenon, <1>3, <1>4 DEF PrepareActive, ExactActiveOwner, HasActive
  <2>3. active'.bundle = active_copy /\ active'.goal = active.goal
    BY Zenon, <2>1 DEF AuthorityTypeOK
  <2>4. SameCommand(active'.bundle, active.bundle) /\ active'.bundle.world = request.identity
    BY Zenon, <1>2, <1>3, <2>1, <2>3
  <2>5. active' # NoActive
    BY Zenon, <2>1, <2>3 DEF NoActive
  <2>6. active' \in [goal: Id \cup {None}, bundle: CandidateBundle \cup {None}]
    BY Zenon, <2>1 DEF AuthorityTypeOK
  <2>7. CASE PreparePending(request, pin) /\ pending_copy # None
    <3>1. pending_copy \in CandidateBundle /\ staged' = [staged EXCEPT !.bundle = pending_copy]
      BY Zenon, <2>7 DEF PublishWorldIdentity
    <3>2. HasStaged
      BY Zenon, <1>3, <2>7 DEF PreparePending, HasStaged
    <3>3. /\ staged'.bundle = pending_copy /\ staged'.goal = staged.goal
          /\ staged'.activation = staged.activation
      BY Zenon, <3>1 DEF AuthorityTypeOK
    <3>4. SameCommand(staged'.bundle, staged.bundle) /\ staged'.bundle.world = request.identity
      BY Zenon, <1>2, <1>3, <3>1, <3>3
    <3> QED BY Zenon, <1>4, <2>2, <2>3, <2>4, <2>5, <2>6, <3>2, <3>3, <3>4 DEF PublishWorldIdentity
  <2>8. CASE ~(PreparePending(request, pin) /\ pending_copy # None)
    BY Zenon, <1>4, <2>2, <2>3, <2>4, <2>6, <2>8 DEF PublishWorldIdentity
  <2> QED BY Zenon, <2>7, <2>8
<1>5. CASE ~PrepareActive(request, pin)
  <2>1. ~PreparePending(request, pin)
    BY Zenon, <1>5 DEF PreparePending
  <2> QED BY Zenon, <1>5, <2>1 DEF PublishWorldIdentity
<1> QED BY Zenon, <1>4, <1>5

\* Goals and bundles come and go together, and a successor needs a predecessor.
LEMMA StructurePreserved ==
  ASSUME AuthorityTypeOK, AuthorityStep, TimelineStructure
  PROVE  TimelineStructure'
<1> USE NoneFacts
<1>1. CASE UNCHANGED authorityVars
  BY Zenon, <1>1 DEF AuthorityTypeOK, TimelineStructure, InvariantHolds, HasActive, HasStaged,
     authorityVars
<1>2. CASE \E epoch \in Id : SetAdmissionGoalEpoch(epoch, FALSE)
  BY <1>2 DEF AuthorityTypeOK, TimelineStructure, InvariantHolds, HasActive, HasStaged,
     SetAdmissionGoalEpoch, VersionMoves, LineageAfterRevocation, NoActive, NoStaged
<1>3. CASE \E frame \in Id, epoch \in Id, retain \in BOOLEAN : BeginGoal(frame, epoch, retain)
  BY <1>3 DEF AuthorityTypeOK, TimelineStructure, InvariantHolds, HasActive, HasStaged,
     BeginGoal, VersionMoves, LineageAfterRevocation, NoActive, NoStaged
<1>4. CASE \E frame \in Id : Reset(frame)
  BY <1>4 DEF AuthorityTypeOK, TimelineStructure, InvariantHolds, HasActive, HasStaged,
     Reset, VersionMoves, LineageAfterRevocation, NoActive, NoStaged
<1>5. CASE Invalidate
  BY <1>5 DEF AuthorityTypeOK, TimelineStructure, InvariantHolds, HasActive, HasStaged,
     Invalidate, VersionMoves, LineageAfterRevocation, NoActive, NoStaged
<1>6. CASE \E expected \in SnapshotType : InvalidateIfCurrent(expected)
  BY <1>6 DEF AuthorityTypeOK, TimelineStructure, InvariantHolds, HasActive, HasStaged,
     InvalidateIfCurrent, VersionMoves, NoActive, NoStaged
<1>7. CASE LifecycleChange
  BY Zenon, <1>7 DEF AuthorityTypeOK, TimelineStructure, InvariantHolds, HasActive, HasStaged,
     LifecycleChange, LifecycleBecomes, VersionMoves
<1>8. CASE StageCall
  <2>1. PICK token \in Token, anchor \in Anchor, candidate \in CandidateBundle :
           StagePending(token, anchor, candidate.request_id, candidate)
    BY Zenon, <1>8 DEF StageCall
  <2>2. candidate.request_id \in Id /\ anchor.activation > 0 /\ candidate # None
    BY DEF CandidateBundle, Anchor, Stamp
  <2>3. /\ staged'.goal = candidate.request_id /\ staged'.bundle = candidate
        /\ staged'.activation = anchor.activation /\ UNCHANGED active /\ HasActive
    BY Zenon, <2>1 DEF StagePending, StageAdmissible
  <2> QED BY Zenon, <2>2, <2>3 DEF TimelineStructure, InvariantHolds, HasActive, HasStaged
<1>9. CASE \E now \in Nat, expected \in SnapshotType : DropStaleSuccessor(now, expected)
  BY SMTT(30), <1>9 DEF AuthorityTypeOK, TimelineStructure, InvariantHolds, HasActive, HasStaged,
     DropStaleSuccessor, VersionMoves, NoStaged
<1>10. CASE ActivateCall
  BY <1>10 DEF ActivateCall, AuthorityTypeOK, TimelineStructure, InvariantHolds, HasActive, HasStaged,
     ActivatePendingIfDueAndFinalize, ActivationDue, SuccessorCurrent, VersionMoves,
     NoStaged
<1>11. CASE CommitCall
  <2>1. PICK token \in Token, candidate \in CandidateBundle :
           TryCommit(token, candidate.request_id, candidate)
    BY Zenon, <1>11 DEF CommitCall
  <2>2. candidate.request_id \in Id /\ candidate # None
    BY Zenon DEF CandidateBundle
  <2>3. active'.goal = candidate.request_id /\ active'.bundle = candidate /\ staged' = NoStaged
    BY Zenon, <2>1 DEF TryCommit, Commit
  <2> QED BY <2>2, <2>3 DEF TimelineStructure, InvariantHolds, HasActive, HasStaged, NoStaged
<1>12. CASE \E request \in RequestType, pin \in WorldPinType : RejectWorldIdentity(request, pin, None)
  BY SMTT(30), <1>12 DEF AuthorityTypeOK, TimelineStructure, InvariantHolds, HasActive, HasStaged,
     RejectWorldIdentity, VersionMoves, NoActive, NoStaged
<1>13. CASE PublishCall
  <2>1. PICK request \in RequestType, pin \in WorldPinType :
             \E active_copy, pending_copy \in CandidateBundle \cup {None} :
               /\ PublishWorldIdentity(request, pin, active_copy, pending_copy)
               /\ IsCopy(active_copy, pin.active, request.identity)
               /\ IsCopy(pending_copy, pin.pending, request.identity)
    BY Zenon, <1>13 DEF PublishCall
  <2> QED BY <2>1, PublicationKeeps
      DEF AuthorityTypeOK, TimelineStructure, InvariantHolds, HasActive, HasStaged, SameCommand,
          NoActive, NoStaged
<1> QED BY ZenonT(60), <1>1, <1>2, <1>3, <1>4, <1>5, <1>6, <1>7, <1>8, <1>9, <1>10, <1>11, <1>12, <1>13
        DEF AuthorityStep, Maintenance

\* Every command stays certified against the published world.
LEMMA CertifiedPreserved ==
  ASSUME AuthorityTypeOK, AuthorityStep, CommandsCertified, TimelineStructure
  PROVE  CommandsCertified'
<1> USE NoneFacts
<1>1. CASE UNCHANGED authorityVars
  BY Zenon, <1>1 DEF AuthorityTypeOK, CommandsCertified, HasActive, HasStaged, authorityVars
<1>2. CASE \E epoch \in Id : SetAdmissionGoalEpoch(epoch, FALSE)
  BY <1>2 DEF AuthorityTypeOK, CommandsCertified, HasActive, HasStaged,
     SetAdmissionGoalEpoch, VersionMoves, LineageAfterRevocation, NoActive, NoStaged
<1>3. CASE \E frame \in Id, epoch \in Id, retain \in BOOLEAN : BeginGoal(frame, epoch, retain)
  BY <1>3 DEF AuthorityTypeOK, CommandsCertified, HasActive, HasStaged, BeginGoal,
     VersionMoves, LineageAfterRevocation, NoActive, NoStaged
<1>4. CASE \E frame \in Id : Reset(frame)
  BY <1>4 DEF AuthorityTypeOK, CommandsCertified, HasActive, HasStaged, Reset,
     VersionMoves, LineageAfterRevocation, NoActive, NoStaged
<1>5. CASE Invalidate
  BY Zenon, <1>5 DEF AuthorityTypeOK, CommandsCertified, HasActive, HasStaged, Invalidate,
     VersionMoves, LineageAfterRevocation, NoActive, NoStaged
<1>6. CASE \E expected \in SnapshotType : InvalidateIfCurrent(expected)
  BY <1>6 DEF AuthorityTypeOK, CommandsCertified, HasActive, HasStaged,
     InvalidateIfCurrent, VersionMoves, NoActive, NoStaged
<1>7. CASE LifecycleChange
  BY Zenon, <1>7 DEF AuthorityTypeOK, CommandsCertified, HasActive, HasStaged, LifecycleChange,
     LifecycleBecomes, VersionMoves
<1>8. CASE StageCall
  BY SMTT(30), <1>8 DEF StageCall, AuthorityTypeOK, CommandsCertified, HasActive, HasStaged, StagePending,
     StageAdmissible, VersionMoves
<1>9. CASE \E now \in Nat, expected \in SnapshotType : DropStaleSuccessor(now, expected)
  BY SMTT(30), <1>9 DEF AuthorityTypeOK, CommandsCertified, HasActive, HasStaged,
     DropStaleSuccessor, VersionMoves, NoStaged
<1>10. CASE ActivateCall
  <2>1. PICK now \in Nat, expected \in SnapshotType, finalized \in BOOLEAN :
           ActivatePendingIfDueAndFinalize(now, expected, finalized)
    BY Zenon, <1>10 DEF ActivateCall
  <2>2. staged'.bundle = None /\ UNCHANGED world_identity
    BY Zenon, <2>1 DEF ActivatePendingIfDueAndFinalize, NoStaged
  <2>3. active'.bundle \in {staged.bundle, active.bundle}
    BY <2>1 DEF ActivatePendingIfDueAndFinalize
  <2>4. world_identity = staged.bundle.world /\ world_identity = active.bundle.world
    BY Zenon, <2>1 DEF ActivatePendingIfDueAndFinalize, SuccessorCurrent
  <2> QED BY ZenonT(60), <2>2, <2>3, <2>4 DEF CommandsCertified, HasActive, HasStaged
<1>11. CASE CommitCall
  BY SMTT(30), <1>11 DEF CommitCall, AuthorityTypeOK, CommandsCertified, HasActive, HasStaged, TryCommit,
     CommitAdmissible, Commit, VersionMoves, NoStaged
<1>12. CASE \E request \in RequestType, pin \in WorldPinType : RejectWorldIdentity(request, pin, None)
  BY SMTT(30), <1>12 DEF AuthorityTypeOK, CommandsCertified, HasActive, HasStaged,
     RejectWorldIdentity, VersionMoves, NoActive, NoStaged
<1>13. CASE PublishCall
  <2>1. PICK request \in RequestType, pin \in WorldPinType :
             \E active_copy, pending_copy \in CandidateBundle \cup {None} :
               /\ PublishWorldIdentity(request, pin, active_copy, pending_copy)
               /\ IsCopy(active_copy, pin.active, request.identity)
               /\ IsCopy(pending_copy, pin.pending, request.identity)
    BY Zenon, <1>13 DEF PublishCall
  <2> QED BY SMTT(30), <2>1, PublicationKeeps
      DEF CommandsCertified, HasActive, HasStaged, NoActive, NoStaged
<1> QED BY ZenonT(60), <1>1, <1>2, <1>3, <1>4, <1>5, <1>6, <1>7, <1>8, <1>9, <1>10, <1>11, <1>12, <1>13
        DEF AuthorityStep, Maintenance

\* The version moves whenever anything moves, and never back.
LEMMA VersionAdvances ==
  ASSUME AuthorityTypeOK, AuthorityStep
  PROVE  UNCHANGED authorityVars \/ timeline_version' > timeline_version
<1>1. CASE UNCHANGED authorityVars
  BY Zenon, <1>1 DEF AuthorityTypeOK, authorityVars, authorityVars
<1>2. CASE \E epoch \in Id : SetAdmissionGoalEpoch(epoch, FALSE)
  BY <1>2 DEF AuthorityTypeOK, authorityVars, SetAdmissionGoalEpoch, VersionMoves,
     LineageAfterRevocation, NoActive, NoStaged
<1>3. CASE \E frame \in Id, epoch \in Id, retain \in BOOLEAN : BeginGoal(frame, epoch, retain)
  BY <1>3 DEF AuthorityTypeOK, authorityVars, BeginGoal, VersionMoves,
     LineageAfterRevocation, NoActive, NoStaged
<1>4. CASE \E frame \in Id : Reset(frame)
  BY <1>4 DEF AuthorityTypeOK, authorityVars, Reset, VersionMoves,
     LineageAfterRevocation, NoActive, NoStaged
<1>5. CASE Invalidate
  BY <1>5 DEF AuthorityTypeOK, authorityVars, Invalidate, VersionMoves,
     LineageAfterRevocation, NoActive, NoStaged
<1>6. CASE \E expected \in SnapshotType : InvalidateIfCurrent(expected)
  BY <1>6 DEF AuthorityTypeOK, authorityVars, InvalidateIfCurrent, VersionMoves,
     NoActive, NoStaged
<1>7. CASE LifecycleChange
  BY SMTT(30), <1>7 DEF AuthorityTypeOK, authorityVars, LifecycleChange, LifecycleBecomes,
     VersionMoves
<1>8. CASE StageCall
  BY <1>8 DEF StageCall, AuthorityTypeOK, authorityVars, StagePending, StageAdmissible,
     VersionMoves
<1>9. CASE \E now \in Nat, expected \in SnapshotType : DropStaleSuccessor(now, expected)
  BY SMTT(30), <1>9 DEF AuthorityTypeOK, authorityVars, DropStaleSuccessor, VersionMoves, NoStaged
<1>10. CASE ActivateCall
  BY SMTT(30), <1>10 DEF ActivateCall, AuthorityTypeOK, authorityVars, ActivatePendingIfDueAndFinalize,
     ActivationDue, SuccessorCurrent, VersionMoves, NoStaged
<1>11. CASE CommitCall
  BY SMTT(30), <1>11 DEF CommitCall, AuthorityTypeOK, authorityVars, TryCommit, CommitAdmissible, Commit,
     VersionMoves, NoStaged
<1>12. CASE \E request \in RequestType, pin \in WorldPinType : RejectWorldIdentity(request, pin, None)
  BY <1>12 DEF AuthorityTypeOK, authorityVars, RejectWorldIdentity, VersionMoves,
     NoActive, NoStaged
<1>13. CASE PublishCall
  BY SMTT(30), <1>13 DEF PublishCall, AuthorityTypeOK, authorityVars, PublishWorldIdentity, VersionMoves,
     LineageAfterRevocation, NoActive, NoStaged
<1> QED BY ZenonT(60), <1>1, <1>2, <1>3, <1>4, <1>5, <1>6, <1>7, <1>8, <1>9, <1>10, <1>11, <1>12, <1>13
        DEF AuthorityStep, Maintenance

\* A failed lifecycle is left only together with its commands.
LEMMA FailedKept ==
  ASSUME AuthorityTypeOK, AuthorityStep, lifecycle.exposure = "Failed", lifecycle'.exposure # "Failed"
  PROVE  active' = NoActive /\ staged' = NoStaged
<1>1. CASE UNCHANGED authorityVars
  BY Zenon, <1>1 DEF AuthorityTypeOK, NotFailed, FailedLifecycle, authorityVars
<1>2. CASE \E epoch \in Id : SetAdmissionGoalEpoch(epoch, FALSE)
  BY Zenon, <1>2 DEF AuthorityTypeOK, NotFailed, FailedLifecycle, SetAdmissionGoalEpoch,
     VersionMoves, LineageAfterRevocation, NoActive, NoStaged
<1>3. CASE \E frame \in Id, epoch \in Id, retain \in BOOLEAN : BeginGoal(frame, epoch, retain)
  BY Zenon, <1>3 DEF AuthorityTypeOK, NotFailed, FailedLifecycle, BeginGoal, VersionMoves,
     LineageAfterRevocation, NoActive, NoStaged
<1>4. CASE \E frame \in Id : Reset(frame)
  BY Zenon, <1>4 DEF AuthorityTypeOK, NotFailed, FailedLifecycle, Reset, VersionMoves,
     LineageAfterRevocation, NoActive, NoStaged
<1>5. CASE Invalidate
  BY Zenon, <1>5 DEF AuthorityTypeOK, NotFailed, FailedLifecycle, Invalidate, VersionMoves,
     LineageAfterRevocation, NoActive, NoStaged
<1>6. CASE \E expected \in SnapshotType : InvalidateIfCurrent(expected)
  BY Zenon, <1>6 DEF AuthorityTypeOK, NotFailed, FailedLifecycle, InvalidateIfCurrent,
     VersionMoves, NoActive, NoStaged
<1>7. CASE LifecycleChange
  BY Zenon, <1>7 DEF AuthorityTypeOK, NotFailed, FailedLifecycle, LifecycleChange,
     LifecycleBecomes, VersionMoves
<1>8. CASE StageCall
  BY Zenon, <1>8 DEF StageCall, AuthorityTypeOK, NotFailed, FailedLifecycle, StagePending,
     StageAdmissible, VersionMoves
<1>9. CASE \E now \in Nat, expected \in SnapshotType : DropStaleSuccessor(now, expected)
  BY Zenon, <1>9 DEF AuthorityTypeOK, NotFailed, FailedLifecycle, DropStaleSuccessor,
     VersionMoves, NoStaged
<1>10. CASE ActivateCall
  BY Zenon, <1>10 DEF ActivateCall, AuthorityTypeOK, NotFailed, FailedLifecycle,
     ActivatePendingIfDueAndFinalize, ActivationDue, SuccessorCurrent, VersionMoves,
     NoStaged
<1>11. CASE CommitCall
  BY Zenon, <1>11 DEF CommitCall, AuthorityTypeOK, NotFailed, FailedLifecycle, TryCommit, CommitAdmissible,
     Commit, VersionMoves, NoStaged
<1>12. CASE \E request \in RequestType, pin \in WorldPinType : RejectWorldIdentity(request, pin, None)
  BY Zenon, <1>12 DEF AuthorityTypeOK, NotFailed, FailedLifecycle, RejectWorldIdentity,
     VersionMoves, NoActive, NoStaged
<1>13. CASE PublishCall
  BY SMTT(30), <1>13 DEF PublishCall, AuthorityTypeOK, NotFailed, FailedLifecycle, PublishWorldIdentity,
     VersionMoves, LineageAfterRevocation, NoActive, NoStaged
<1> QED BY ZenonT(60), <1>1, <1>2, <1>3, <1>4, <1>5, <1>6, <1>7, <1>8, <1>9, <1>10, <1>11, <1>12, <1>13
        DEF AuthorityStep, Maintenance

\* The lineage moves whenever the active command gets another identity.
LEMMA LineageKept ==
  ASSUME AuthorityTypeOK, AuthorityStep, active_lineage' = active_lineage
  PROVE  Identity(active'.bundle) = Identity(active.bundle)
<1> USE NoneFacts
<1>1. CASE UNCHANGED authorityVars
  BY Zenon, <1>1 DEF AuthorityTypeOK, HasActive, Identity, authorityVars
<1>2. CASE \E epoch \in Id : SetAdmissionGoalEpoch(epoch, FALSE)
  BY SMTT(30), <1>2 DEF AuthorityTypeOK, HasActive, Identity, SetAdmissionGoalEpoch, VersionMoves,
     LineageAfterRevocation, NoActive, NoStaged
<1>3. CASE \E frame \in Id, epoch \in Id, retain \in BOOLEAN : BeginGoal(frame, epoch, retain)
  BY <1>3 DEF AuthorityTypeOK, HasActive, Identity, BeginGoal, VersionMoves,
     LineageAfterRevocation, NoActive, NoStaged
<1>4. CASE \E frame \in Id : Reset(frame)
  BY SMTT(30), <1>4 DEF AuthorityTypeOK, HasActive, Identity, Reset, VersionMoves,
     LineageAfterRevocation, NoActive, NoStaged
<1>5. CASE Invalidate
  BY SMTT(30), <1>5 DEF AuthorityTypeOK, HasActive, Identity, Invalidate, VersionMoves,
     LineageAfterRevocation, NoActive, NoStaged
<1>6. CASE \E expected \in SnapshotType : InvalidateIfCurrent(expected)
  BY SMTT(30), <1>6 DEF AuthorityTypeOK, HasActive, Identity, InvalidateIfCurrent, VersionMoves,
     NoActive, NoStaged
<1>7. CASE LifecycleChange
  BY Zenon, <1>7 DEF AuthorityTypeOK, HasActive, Identity, LifecycleChange, LifecycleBecomes,
     VersionMoves
<1>8. CASE StageCall
  BY Zenon, <1>8 DEF StageCall, AuthorityTypeOK, HasActive, Identity, StagePending, StageAdmissible,
     VersionMoves
<1>9. CASE \E now \in Nat, expected \in SnapshotType : DropStaleSuccessor(now, expected)
  BY Zenon, <1>9 DEF AuthorityTypeOK, HasActive, Identity, DropStaleSuccessor, VersionMoves,
     NoStaged
<1>10. CASE ActivateCall
  BY SMTT(30), <1>10 DEF ActivateCall, AuthorityTypeOK, HasActive, Identity, ActivatePendingIfDueAndFinalize,
     ActivationDue, SuccessorCurrent, VersionMoves, NoStaged
<1>11. CASE CommitCall
  BY <1>11 DEF CommitCall, AuthorityTypeOK, HasActive, Identity, TryCommit, CommitAdmissible,
     Commit, VersionMoves, NoStaged
<1>12. CASE \E request \in RequestType, pin \in WorldPinType : RejectWorldIdentity(request, pin, None)
  BY SMTT(30), <1>12 DEF AuthorityTypeOK, HasActive, Identity, RejectWorldIdentity, VersionMoves,
     NoActive, NoStaged
<1>13. CASE PublishCall
  <2>1. PICK request \in RequestType, pin \in WorldPinType :
             \E active_copy, pending_copy \in CandidateBundle \cup {None} :
               /\ PublishWorldIdentity(request, pin, active_copy, pending_copy)
               /\ IsCopy(active_copy, pin.active, request.identity)
               /\ IsCopy(pending_copy, pin.pending, request.identity)
    BY Zenon, <1>13 DEF PublishCall
  <2> QED BY SMTT(30), <2>1, PublicationKeeps
      DEF AuthorityTypeOK, Identity, SameCommand, HasActive, NoActive, LineageAfterRevocation
<1> QED BY ZenonT(60), <1>1, <1>2, <1>3, <1>4, <1>5, <1>6, <1>7, <1>8, <1>9, <1>10, <1>11, <1>12, <1>13
        DEF AuthorityStep, Maintenance
=============================================================================
