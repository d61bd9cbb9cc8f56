CONSTANTS MaxHeadings = 5
SPECIFICATION Spec
INVARIANT TocClosed
CHECK_DEADLOCK FALSE
