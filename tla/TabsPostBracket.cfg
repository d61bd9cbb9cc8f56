CONSTANTS
    Keys <- MC_KeysBracket
    PaneLayouts <- MC_Layouts
    MaxGroups = 2
    MaxTabs = 2
SPECIFICATION Spec
INVARIANT PanesMatchLinks
CHECK_DEADLOCK FALSE
