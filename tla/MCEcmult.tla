------------------------------ MODULE MCEcmult ------------------------------
(***************************************************************************)
(* The multiplications of src/ecmult_impl.h and src/ecmult_gen_impl.h:     *)
(* the batches of ecmult_multi_var with the sizes of a 64-bit build; below *)
(* them Strauss, Pippenger and the multiples of G, over the group of 199   *)
(* elements of the repository's exhaustive tests.  A behaviour runs one of *)
(* them and leaves the others in their initial states.                     *)
(***************************************************************************)
EXTENDS EcmultMulti, EcmultGen

CONSTANTS Lambda, BITS, HALF, WINDOW_A, WINDOW_G, InputPoints, InputScalars, InputNg, MaxPoints,
          bucket_window, TermPoints, TermScalars, MaxTerms, PIPPENGER_BITS

VARIABLES
    algorithm,                                                  \* which one runs
    inputs, ng, ps, g_1, g_128, digit, strauss_r, strauss_pc,   \* of Strauss
    terms, bucket_ps, bucket, window, np, bucket_r, bucket_pc   \* of Pippenger

strauss_vars == <<inputs, ng, ps, g_1, g_128, digit, strauss_r, strauss_pc>>
bucket_vars == <<terms, bucket_ps, bucket, window, np, bucket_r, bucket_pc>>

S == INSTANCE Strauss WITH i <- digit, r <- strauss_r, pc <- strauss_pc
P == INSTANCE Pippenger WITH WNAF_BITS <- PIPPENGER_BITS,
        InputPoints <- TermPoints, InputScalars <- TermScalars,
        ps <- bucket_ps, i <- window, r <- bucket_r, pc <- bucket_pc

ASSUME S!GroupAssumption /\ S!WidthAssumption
ASSUME P!PippengerAssumption

(* The batches stand still in one of their states when another one runs.     *)
AlgorithmInit ==
    /\ algorithm \in {"multi", "strauss", "pippenger", "gen"}
    /\ MultiInit /\ S!Init /\ P!Init /\ GenInit
    /\ algorithm # "multi" => scratch = NoSpace /\ n = 0 /\ g = FALSE
    /\ algorithm # "strauss" => ng = S!NoScalar

AlgorithmNext ==
    /\ UNCHANGED algorithm
    /\ \/ algorithm = "multi" /\ MultiNext /\ UNCHANGED <<strauss_vars, bucket_vars, ctx>>
       \/ algorithm = "strauss" /\ S!Next /\ UNCHANGED <<multi_vars, bucket_vars, ctx>>
       \/ algorithm = "pippenger" /\ P!Next /\ UNCHANGED <<multi_vars, strauss_vars, ctx>>
       \/ algorithm = "gen" /\ GenNext /\ UNCHANGED <<multi_vars, strauss_vars, bucket_vars>>

AlgorithmSpec ==
    AlgorithmInit /\ [][AlgorithmNext]_<<algorithm, multi_vars, strauss_vars, bucket_vars, ctx>>

(* The sums of Strauss and of Pippenger, and the digits behind them, are     *)
(* right; what the multiplication of G adds, entries of its table and the    *)
(* offsets of contexts, is never infinity.                                   *)
SumsRight ==
    /\ S!ResultIsSum /\ S!SplitsSound
    /\ P!ResultIsSum /\ P!DigitsSound
    /\ algorithm = "gen" => NothingInfinite

-----------------------------------------------------------------------------
(* From too small for one point up to one batch of Pippenger's algorithm.    *)
MCScratchSizes == {0, 1200, 2400, 5000, 20000, 48000, 60000} \cup {k * 997 : k \in 0 .. 60}

HighHalf == 100 .. 198      \* which Y is odd plays no role here
SomeScalars == {0, 1, 100, 183, 198}
SomeNg == {-1, 0, 1, 15, 16, 77, 127, 128, 198}
AllTermScalars == 0 .. 2 ^ PIPPENGER_BITS - 1
=============================================================================
