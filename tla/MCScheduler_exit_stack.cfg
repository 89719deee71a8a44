CONSTANTS
    MaxTasks = 3
    Priorities = {128}
SPECIFICATION Spec
INVARIANT
    ExecutingStackIsLive
