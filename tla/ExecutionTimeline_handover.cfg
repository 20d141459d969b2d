SPECIFICATION HandoverSpec
CONSTANTS
    None = None
    Producers = {"planner", "heading"}
    PlannerRoles = {"Main", "Emergency"}
    Worlds <- MCOneWorld
    MaxGoalEpoch = 1
    MaxLocalizationEpoch = 1
    MaxGeneration = 3
    MaxStamp = 1
    MaxVersion = 6
INVARIANT SuccessorAnchored
PROPERTIES MovingSafetyNotReplaced ExposureNeverRegresses
