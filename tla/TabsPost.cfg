CONSTANTS
    Keys <- MC_Keys
    PaneLayouts <- MC_Layouts
    MaxGroups = 2
    MaxTabs = 3
SPECIFICATION Spec
INVARIANTS TypeOK PanesMatchLinks IdsDistinct
CHECK_DEADLOCK FALSE
