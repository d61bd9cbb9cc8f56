CONSTANTS
    MaxFiles = 3
    MaxBuilds = 2
SPECIFICATION Spec
INVARIANT CwdRestored
CHECK_DEADLOCK FALSE
