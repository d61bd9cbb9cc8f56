CONSTANTS
    MaxFiles = 3
    MaxBuilds = 2
SPECIFICATION Spec
INVARIANT UnknownStatusSkipped
CHECK_DEADLOCK FALSE
