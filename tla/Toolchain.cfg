SPECIFICATION Spec
CONSTANTS
    good = good
    other = other
    rtkey = rtkey
    none = none
    Absent = absent
    Empty = empty
    absent = absent
    empty = empty
    NoTree = notree
    notree = notree
    Extensions = {"gpu", "plot"}
    Members = {"gpu"}
    MaxCommands = 4
    Keys = {good, other}
    NoKey = none
    RtKeys = {rtkey}
    Toolchains = {1, 2}
    MaxRuns = 2
    MaxEdits = 1
    Trusted = {good}
    TrustedRt = {rtkey}
    Runs <- MCRuns
    FdBound = TRUE
    MaxLoads = 1
    LibFlags <- MCLibFlags
    ProgFlags <- MCProgFlags
    MaxTotal = 4
CONSTRAINT Budget
INVARIANTS LoadedIsWhatWasChecked LibraryIsSound 
CHECK_DEADLOCK FALSE
