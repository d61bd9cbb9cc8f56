\* Pages whose headings all start with text: the two passes agree.
CONSTANTS
    t1 = t1
    t2 = t2
    t3 = t3
    NoText = NoText
    None = None
    Texts <- MC_Texts
    HeadingTexts <- MC_Texts
    SlugOf <- MC_SlugOf
    MaxHeadings = 3
    MaxRenders = 3
SPECIFICATION Spec
INVARIANT TypeOK
INVARIANT HooksMatchToc
INVARIANT RegistryDrained
PROPERTY TocAnchorsSpec
\* The build stops once MaxRenders pages are rendered.
CHECK_DEADLOCK FALSE
