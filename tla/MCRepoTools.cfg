SPECIFICATION Spec
CONSTANTS
    Workdir <- MCWorkdir
    Autofix = {"autofix-1"}
    Longer <- MCLonger
    Paths <- MCPaths
    InitialFiles <- MCInitialFiles
    MaxEdits = 2
INVARIANTS
    TypeOK
    HookSeesThroughSpelling
PROPERTIES
    ChangesStayInClone
