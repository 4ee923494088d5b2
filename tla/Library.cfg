CONSTANTS
    Limb = 6
    Limbs = 2
    Byte = 6
    P = 4091
    N = 3989
    B = 58
    GX = 0
    GY = 718
    MaxAttempts = 3
    MaxPieces = 3
SPECIFICATION Spec
INVARIANTS AnswersAreTheLanguage
PROPERTIES JsonIsRead MarkupIsRead SignaturesVerify Curve25519IsAGroup TrustIsAPath
CHECK_DEADLOCK FALSE
