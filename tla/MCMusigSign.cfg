SPECIFICATION Spec
CONSTANTS
    N = 7
    OddPoints <- MCOddPoints7
    KeyLists <- MCKeyLists7
    NonceChoices <- MCNonces7
    HashChoices <- MCHashes7
    TweakChoices <- MCTweaks7
    MaxTweaks = 2
    WireShares = {1}
INVARIANTS
    TweakAccounting
    HonestShareVerifies
    AggregateVerifies
    OneBadShareSpoils
CHECK_DEADLOCK FALSE
