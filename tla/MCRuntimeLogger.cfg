SPECIFICATION FairSpec
CONSTANTS
    Thread = {t1, t2}
    Capacity = 2
    NUMBER_OF_CHECKS_WITH_EMPTY_BUF = 2
    NoThread = NoThread
INVARIANTS
    TypeOK
    RegistryIsExact
    NoUseAfterFree
    CursorIsStable
PROPERTIES
    StagedIsTaken
    ExitedIsFreed
    ShutdownReturns
