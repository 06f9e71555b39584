SPECIFICATION ProtocolSpec
CONSTANTS
    N = 31
    OddPoints <- MCOddPoints
    FieldSize = 43
    XCoord <- MCXCoord
    EcdsaKeys = {0, 1, 2, 13, 30, 31}
    Messages = {0, 1, 5, 17, 33}
    NonceBytes = {0, 1, 2, 3, 4, 5, 8, 9, 14, 15, 17, 20, 22, 24, 25, 30, 31, 40}
    WireBytes = {0, 1, 2, 3, 5, 10, 12, 15, 16, 22, 30, 31, 40}
    MaxTries = 2
    SecretBytes = {0, 1, 12, 30, 31, 40}
    TweakBytes = {0, 1, 11, 30, 31}
    NonceResults <- MCNonceResults
    Challenges = {0, 1, 7, 30}
    KeyTags = {0, 1, 2, 3, 4, 5, 6, 7}
    KeyBytes = {0, 1, 3, 5, 8, 13, 17, 20, 23, 26, 30, 31, 38, 40, 41, 42, 43, 44, 46, 63}
    NonceTags = {0, 2, 3, 4}
    NonceXBytes = {0, 3, 4, 20, 43}
    MaxParses = 2
    SizeBytes = 3
    SequenceTag = 18
    IntegerTag = 2
    DerScalars = {0, 15, 16, 511, 512, 1008}
    EditBytes = {0, 2, 3, 16, 17, 18, 31}
    MaxEdits = 1
INVARIANTS
    SignedVerifies
    RecoverIffVerifies
    EncodingsRight
    KeysInStep
    KeypairTweaksChecked
    SchnorrVerifies
CHECK_DEADLOCK FALSE
