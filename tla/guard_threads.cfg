\* trigger() and close() on one GuardCondition from two threads.
CONSTANTS
    t1 = t1
    t2 = t2
    Threads <- MCThreads
    MaxCalls <- MCMaxCalls
SPECIFICATION GSpec
INVARIANT NoCallOnReleased
CHECK_DEADLOCK FALSE
