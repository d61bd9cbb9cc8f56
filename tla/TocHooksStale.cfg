\* Pages may hold a heading whose text is None (it starts with an element).
CONSTANTS
    t1 = t1
    t2 = t2
    t3 = t3
    NoText = NoText
    None = None
    Texts <- MC_Texts
    HeadingTexts <- MC_TextsOrNone
    SlugOf <- MC_SlugOf
    MaxHeadings = 2
    MaxRenders = 2
SPECIFICATION Spec
INVARIANT HooksMatchToc
CHECK_DEADLOCK FALSE
