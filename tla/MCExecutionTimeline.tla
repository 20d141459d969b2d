------------------------ MODULE MCExecutionTimeline ------------------------
(* Small instances of ExecutionTimeline for TLC.                           *)
EXTENDS ExecutionTimeline

World(l, g, r, t) ==
    [localization_epoch |-> l, generation |-> g, revision |-> r, observation_stamp |-> t]

\* Two revisions in the first frame, and one world of the second frame.
MCWorlds == {World(1, 1, 1, 1), World(1, 1, 2, 2), World(2, 1, 1, 2)}

FirstWorld == World(1, 1, 1, 1)

FirstBundle ==
    [generation |-> 1, planned_on |-> 0, world |-> FirstWorld, localization_epoch |-> 1,
     goal_epoch |-> 1, request_id |-> 1, role |-> "Main", valid_from |-> 1,
     valid_until |-> MaxStamp]

\* A vehicle under way: the state after the first world, the first goal and the
\* first commit (three versions), with every thread idle.
TrackingInit ==
    /\ admission_goal_epoch = 1 /\ admission_localization_epoch = 1
    /\ timeline_version = 3 /\ active_lineage = 1 /\ last_transaction_id = 1
    /\ world_identity = FirstWorld
    /\ active = [goal |-> 1, bundle |-> FirstBundle]
    /\ staged = NoStaged
    /\ lifecycle = [phase |-> "TrackingMain", recovery |-> "TrackMain",
                    exposure |-> "Available", safety |-> "Nominal", restart |-> "None"]
    /\ desired_goal = 1 /\ goal_epoch = 1 /\ localization_epoch = 1
    /\ last_generation = 1 /\ transaction_id = 1
    /\ owner_lock = None /\ job = [p \in Producers |-> IdleJob]
    /\ timer = None /\ mapper = IdleMapper /\ anchored = None /\ exposed = None

MCOneWorld == {FirstWorld}

\* Two producers race for the successor of one command.
HandoverNext ==
    \/ \E p \in Producers : ProducerStep(p)
    \/ TimerStep \/ TimerSampledSafetyRole \/ OwnerRecoveryEvent
    \/ FailClosedAndUnlock
HandoverSpec == TrackingInit /\ [][HandoverNext]_vars

\* A new goal, a reset, a second world and lifecycle observations against one
\* producer and the timer.
OwnershipNext ==
    \/ \E p \in Producers : ProducerStep(p)
    \/ TimerStep \/ MapperStep
    \/ GoalStep \/ OwnerClearRestart \/ OwnerFailClosed \/ OwnerSuspend \/ OwnerRetain
OwnershipSpec == TrackingInit /\ [][OwnershipNext]_vars

\* A localization reset under way, with the workers running: the planning
\* worker is driven by a periodic timer, the mapping worker by its queue, and
\* the reset callback finishes what it starts.
EpochResetNext ==
    \/ LocalizationReset \/ AdmitAfterReset \/ FailClosedAndUnlock
    \/ MapperStep
    \/ ProducerStep("planner")
EpochResetSpec ==
    /\ TrackingInit /\ [][EpochResetNext]_vars
    /\ WF_vars(AdmitAfterReset) /\ WF_vars(FailClosedAndUnlock)
    /\ WF_vars(MapperStep)
    /\ WF_vars(ProducerStep("planner"))

\* "the active goal may be planned again after that snapshot arrives": once the
\* new localization epoch has published a world, the planner solves for the
\* goal that resetForLocalizationEpochLocked kept.
KeptGoalPlannedAgain ==
    /\ localization_epoch > 1 /\ owner_lock = None /\ desired_goal # None
    /\ world_identity # None /\ world_identity.localization_epoch = localization_epoch
    ~> /\ job["planner"].key # None
       /\ job["planner"].key.localization_epoch = localization_epoch
=============================================================================
