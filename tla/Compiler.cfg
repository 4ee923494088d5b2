CONSTANTS
    MaxText = 3
    MaxLines = 5
    MaxTokens = 12
    MaxStatements = 2
    Allowed = {}
    MaxTurns = 5
    Wrap = 1000
    RemoveUnused = TRUE
SPECIFICATION Spec
PROPERTIES SourceIsRead ReadsWhatIsWritten MeansTheSame
CHECK_DEADLOCK FALSE
