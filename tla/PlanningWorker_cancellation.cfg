\* Two callers, two owners of a solve, two revisions and two priorities.
SPECIFICATION FairSpec
CONSTANTS
    None = None
    Callers = {planning_timer, goal_callback}
    Identities = {goal_1, goal_2}
    Revisions = {1, 2}
    Priorities = {1, 3}
    MaxCalls = 5
INVARIANTS TypeOK OnlyOwnCancellation
PROPERTIES CancelledSolveNotStaged PendingIsServed ShutdownCompletes
\* After the shutdown, or the last call, nothing is left to do.
CHECK_DEADLOCK FALSE
