SPECIFICATION PartSpec
CONSTANTS
    r = 4
    MaxBytes = 13
    MaxOut = 13
    Block = 3
    CtrRange = 12
    MaxLens = {0, 1, 3, 4, 10, 11, 12, 13}
    MaxRequest = 11
    Seeds = {"seed1", "seed2"}
    MaxLen = 7
    MaxCalls = 3
    BlockBytes = 4
    Digest = 2
    SizeHalf = 16
    MaxWritten = 9
    MaxKey = 9
    MaxPrefix = 2
    Base = 2
    KeyLen = 2
    AlgoLen = 1
    Order = 3
    Keys <- TwoKeys
    MaxCounter = 1
INVARIANTS
    SpongeInOrder
    DigestsRight
    NoncesDistinct
    RandomBytesFresh
CHECK_DEADLOCK FALSE
