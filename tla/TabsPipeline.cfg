CONSTANTS
    Keys <- MC_Keys
    Values <- MC_Values
    Texts <- MC_Texts
    StartLayouts <- MC_Starts
    EndLayouts <- MC_Ends
    MaxItems = 2
    MaxSegs = 2
SPECIFICATION Spec
INVARIANTS TypeOK PreFaithful MarkupIsolated TabsLinked
CHECK_DEADLOCK FALSE
