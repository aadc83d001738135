CONSTANTS
    Tries = 6
    BaseDelay = 80
    MaxFailures = 7
SPECIFICATION Spec
INVARIANT ExecutorMeetsSpec
PROPERTY BackoffGrows
CHECK_DEADLOCK FALSE
