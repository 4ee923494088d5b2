SPECIFICATION Spec
CONSTANTS
    bad = bad
    none = none
    relative = relative
    BadUrl = bad
    NoLocation = none
    RelativeLocation = relative
    Urls <- MCUrls
    Responses <- MCResponses
    Methods = {"POST", "HEAD"}
    MaxRedirects = 2
    MaxBytes = 5
    Piece = 2
INVARIANTS WholeOrError SecretsStayHome ChainIsSound
PROPERTY Returns
CHECK_DEADLOCK FALSE
