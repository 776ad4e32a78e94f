CONSTANTS
    Threads = {main, t1, t2}
    Main = main
    tasks = tasks
    waiting_list = waiting_list
    NULL = NULL
SPECIFICATION RetrySpec
CHECK_DEADLOCK FALSE
INVARIANTS
    RunnableIsReady
