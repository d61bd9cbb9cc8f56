\* The site's setup: Pelican installs Pygments, which codehilite uses.
CONSTANTS
    DiagramLines <- MC_DiagramLines
    ProseLines <- MC_ProseLines
    CodeLines <- MC_CodeLines
    RawBlocks <- MC_RawBlocks
    Extensions <- MC_Extensions
    Highlighters = {"plain"}
    MaxBlocks = 2
    MaxLines = 2
SPECIFICATION Spec
INVARIANT CodeMarkupNests
\* One page is converted once.
CHECK_DEADLOCK FALSE
