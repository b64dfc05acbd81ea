\* Four goroutines; what a Close leaves waiting waits for good.
CONSTANTS
    Callers = {c1, c2, c3, c4}
SPECIFICATION FairLockSpec
CHECK_DEADLOCK FALSE
PROPERTIES
    NothingReturnsAfterClose
    CallsReturn
