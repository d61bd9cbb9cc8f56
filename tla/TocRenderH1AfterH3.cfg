CONSTANTS MaxHeadings = 5
SPECIFICATION Spec
INVARIANT TopLevelAtTop
CHECK_DEADLOCK FALSE
