SPECIFICATION Spec
CONSTANTS
    Signers = {s1, s2}
    Slots = {o1, o2}
    NoArg = NoArg
    Messages = {"m"}
    MaxRandom = 3
    MaxCounter = 1
    MaxSigned = 3
INVARIANTS
    NonceUsedOnce
