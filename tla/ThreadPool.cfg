SPECIFICATION FairSpec
CONSTANTS
    NumThreads = 3
    MaxTasks = 4
INVARIANTS
    TypeOK
    NoAbort
    ReadyWhenConstructed
    NoLostSignal
    ExactlyOnce
    DrainsAlone
    NothingLeftBehind
PROPERTIES
    ConstructorReturns
    EveryTaskRuns
    DestructorReturns
    Implements
