SPECIFICATION AlgorithmSpec
CONSTANTS
    ALIGNMENT = 16
    SIZE_MAX = 1073741823
    Header = 32
    sizeof_ge = 88
    sizeof_gej = 128
    sizeof_fe = 40
    sizeof_scalar = 32
    sizeof_int = 4
    sizeof_strauss_point_state = 268
    sizeof_pippenger_point_state = 16
    sizeof_pippenger_state = 16
    TableSize = 8
    WNAF_BITS = 128
    PIPPENGER_MAX_BUCKET_WINDOW = 12
    ECMULT_PIPPENGER_THRESHOLD = 88
    ECMULT_MAX_POINTS_PER_BATCH = 100
    ScratchSizes <- MCScratchSizes
    InUse = {0, 48}
    PointCounts = {0, 1, 2, 5, 87, 88, 101, 180}
    N = 199
    OddPoints <- HighHalf
    Lambda = 92
    BITS = 8
    HALF = 4
    WINDOW_A = 3
    WINDOW_G = 4
    InputPoints = {0, 100}
    InputScalars <- SomeScalars
    InputNg <- SomeNg
    MaxPoints = 2
    PIPPENGER_BITS = 7
    bucket_window = 2
    TermPoints = {0, 57}
    TermScalars <- AllTermScalars
    MaxTerms = 2
    COMB_RANGE = 8
    COMB_BLOCKS = 2
    COMB_TEETH = 3
    Contexts = {c1, c2}
    BlindOutputs = {0, 1, 57, 99, 198}
INVARIANTS
    BatchesSound
    SumsRight
    BlindingCancels
CHECK_DEADLOCK FALSE
