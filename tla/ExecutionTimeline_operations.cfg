SPECIFICATION ApiSpec
CONSTANTS
    None = None
    Producers = {"planner"}
    PlannerRoles = {"Main", "Emergency"}
    Worlds <- MCWorlds
    MaxGoalEpoch = 2
    MaxLocalizationEpoch = 2
    MaxGeneration = 2
    MaxStamp = 1
    MaxVersion = 4
INVARIANTS TypeOK AvailableMeansCommand CommandsCertified VersionNamesState
PROPERTY LineageNamesCommand
