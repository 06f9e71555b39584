SPECIFICATION PartSpec
CONSTANTS
    p = 19
    B = 3
    N = 13
    beta = 7
    lambda = 9
    Gx = 1
    Gy = 2
    MaxTable = 4
    GROUP_SIZE = 2
    HALF = 2
    Denominators = {1, 5}
    Multiplied = {0, 1, 2, 3, 6, 7, 12}
    Multipliers = {0, 1, 5, 6, 7, 12}
    SecretKeys = {0, 5}
    Hashed = {1, 2, 7, 11}
INVARIANTS
    GroupLaw
    ConstRight
    SwiftRight
    InversesRight
    LimbsRight
    ScalarsRight
    WordsRight
    ExponentRight
PROPERTY ZRatioRight
CHECK_DEADLOCK FALSE
