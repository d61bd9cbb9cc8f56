\* One group of three tabs whose panes are written in another order than its keys.
CONSTANTS
    Keys <- MC_Keys
    PaneLayouts <- MC_LayoutsReordered
    MaxGroups = 1
    MaxTabs = 3
SPECIFICATION Spec
INVARIANT PanesMatchLinks
CHECK_DEADLOCK FALSE
