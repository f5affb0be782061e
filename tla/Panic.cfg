CONSTANTS
    MaxPanics = 3
SPECIFICATION Spec
PROPERTIES RecoverableRestarts ImplementsRecovery
CHECK_DEADLOCK FALSE
