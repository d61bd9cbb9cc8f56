\* Up to three files and two builds of one autoreloading process.
CONSTANTS
    MaxFiles = 3
    MaxBuilds = 2
SPECIFICATION Spec
INVARIANT TypeOK
INVARIANT PagesAccounted
\* The process stops after its last build.
CHECK_DEADLOCK FALSE
