CONSTANTS
    MaxTasks = 3
    Priorities = {128}
SPECIFICATION Spec
PROPERTY
    IdleSpinsOnHlt
