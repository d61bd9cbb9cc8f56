\* All heading-level sequences of up to five headings.
CONSTANTS MaxHeadings = 5
SPECIFICATION Spec
INVARIANT TypeOK
INVARIANT SubheadingsNested
\* create_toc is called once per render; nothing follows it.
CHECK_DEADLOCK FALSE
