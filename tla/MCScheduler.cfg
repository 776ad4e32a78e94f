CONSTANTS
    Threads = {main, t1, t2, t3}
    Main = main
    tasks = tasks
    waiting_list = waiting_list
    NULL = NULL
SPECIFICATION FairSpec
CHECK_DEADLOCK FALSE
INVARIANTS
    MutualExclusion
    RunnableUntilRaced
    WakeupUntilRaced
    ListsPartition
PROPERTIES
    ImplementsMutex
    EveryRunnerRuns
