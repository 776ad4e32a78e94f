SPECIFICATION Spec
CONSTANTS
    Threads = {k, a}
    Client = k
    Timers = {t1, t2, t3}
    NULL = NULL
    TIMER_FRE = 2
    TIMER_FREQUENCY_MIN = 1
    TIMER_FREQUENCY_MAX = 3
    Frequencies = {0, 1, 2, 3, 4}
    WordSize = 3
    MaxNesting = 2
INVARIANTS
    NoTimerLost
    ExactTicks
PROPERTY
    TimersFire
CONSTRAINT UntilBroken
