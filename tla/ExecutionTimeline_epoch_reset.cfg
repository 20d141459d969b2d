SPECIFICATION EpochResetSpec
CONSTANTS
    None = None
    Producers = {"planner"}
    PlannerRoles = {"Main"}
    Worlds <- MCWorlds
    MaxGoalEpoch = 3
    MaxLocalizationEpoch = 2
    MaxGeneration = 2
    MaxStamp = 1
    MaxVersion = 9
CHECK_DEADLOCK FALSE
PROPERTY KeptGoalPlannedAgain
