CONSTANTS
    MaxPanics = 3
SPECIFICATION Spec
PROPERTY RecoveryBackoff
CHECK_DEADLOCK FALSE
