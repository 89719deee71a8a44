CONSTANTS
    MaxTasks = 4
    Priorities <- NamedPriorities
SPECIFICATION FairSpec
INVARIANTS
    TypeOK
    OnePlace
    RunningIsCurrent
    OnlyIdleSlotIsForeign
    HighestPriorityRuns
    StopsOnlyWithoutWork
PROPERTIES
    LegalTransitions
    NoOvertaking
    ReadyEventuallyRuns
