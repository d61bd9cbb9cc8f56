CONSTANTS
    Keys <- MC_Keys
    PaneLayouts <- MC_LayoutsDangling
    MaxGroups = 2
    MaxTabs = 2
SPECIFICATION Spec
INVARIANT PanesMatchLinks
CHECK_DEADLOCK FALSE
