SPECIFICATION Spec
CONSTANTS
    Names = {"x", "y"}
    Word = 7
    SizeMax = 8
    Lanes = 2
    Edge = 1
    Threshold = 2
    Blocks = {1, 2}
    MaxStatements = 3
INVARIANTS ViewsAreSound ReadsAgree
PROPERTIES ComputesTheBroadcast OnlyTargetsChange
CHECK_DEADLOCK FALSE
