CONSTANTS
    Tries = 33
    BaseDelay = 1
    MaxFailures = 33
SPECIFICATION Spec
PROPERTY BackoffGrows
CHECK_DEADLOCK FALSE
