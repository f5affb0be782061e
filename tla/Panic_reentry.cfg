CONSTANTS
    MaxPanics = 3
SPECIFICATION Spec
PROPERTY ReentryRecovers
CHECK_DEADLOCK FALSE
