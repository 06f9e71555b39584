SPECIFICATION PartSpec
CONSTANTS
    thash <- MCthash
    prf_addr <- MCprf_addr
    BytesOf <- MCBytesOf
    hash_message <- MChash_message
    gen_message_random <- MCgen_message_random
    Altered <- MCAltered
    InputMessages = {1, 2, 3, 4}
    OptRands = {1, 2}
    OtherHashes <- MCOtherHashes
    MaxSigned = 2
    SPX_N = 2
    SPX_WOTS_LOGW = 4
    SPX_D = 3
    SPX_TREE_HEIGHT = 2
    SPX_FORS_HEIGHT = 3
    SPX_FORS_TREES = 3
    ForsThreads = {t1, t2}
    TreeThreads = 3
    ForsMessages <- MCForsMessages
    ForsAddrs <- MCForsAddrs
    TreeAddrs <- MCTreeAddrs
    gen_leaf <- MCgen_leaf
    Garbage <- Unwritten
    tree_height = 3
    idx_offset = 8
INVARIANTS
    GenuineOpens
    OneValuePerWotsKey
    NothingForged
    LoopsAsSerial
CHECK_DEADLOCK FALSE
