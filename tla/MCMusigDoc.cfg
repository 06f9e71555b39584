SPECIFICATION Spec
CONSTANTS
    N = 3
    OddPoints <- MCOddPoints3
    KeyLists <- MCKeyLists3
    NonceChoices <- MCAllNonces
    HashChoices = {1}
    TweakChoices = {}
    MaxTweaks = 0
    WireShares = {0, 1, 2}
INVARIANTS
    AnyBadShareSpoils
CHECK_DEADLOCK FALSE
