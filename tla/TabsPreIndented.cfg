CONSTANTS
    Keys <- MC_Keys
    Values <- MC_Values
    Texts <- MC_Texts
    StartLayouts <- MC_Starts
    EndLayouts <- MC_EndsIndented
    EqChoices = {TRUE}
    RepeatKeys = FALSE
    MaxItems = 2
    MaxSegs = 2
SPECIFICATION Spec
INVARIANT PreFaithful
CHECK_DEADLOCK FALSE
