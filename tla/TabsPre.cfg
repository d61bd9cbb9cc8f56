CONSTANTS
    Keys <- MC_Keys
    Values <- MC_Values
    Texts <- MC_Texts
    StartLayouts <- MC_Starts
    EndLayouts <- MC_Ends
    EqChoices = {TRUE}
    RepeatKeys = FALSE
    MaxItems = 2
    MaxSegs = 2
SPECIFICATION Spec
INVARIANTS PreFaithful MarkupIsolated
CHECK_DEADLOCK FALSE
