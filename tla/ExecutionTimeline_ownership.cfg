SPECIFICATION OwnershipSpec
CONSTANTS
    None = None
    Producers = {"planner"}
    PlannerRoles = {"Main", "Emergency"}
    Worlds <- MCWorlds
    MaxGoalEpoch = 2
    MaxLocalizationEpoch = 2
    MaxGeneration = 3
    MaxStamp = 1
    MaxVersion = 6
INVARIANTS TimelineStructure CommandsInCurrentFrame
PROPERTY FailedCommandNotRevived
