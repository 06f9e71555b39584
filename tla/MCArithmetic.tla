---------------------------- MODULE MCArithmetic ----------------------------
(***************************************************************************)
(* Instances of what signatures and key exchanges compute with: points and *)
(* their multiples, field elements and scalars in limbs, inverses, and     *)
(* integers of two words. A behaviour is one of one part.                  *)
(***************************************************************************)
EXTENDS KeyExchange

VARIABLES
    part,
    routine, x, d, e, f, g, eta, len, jac, t, batch,
    fe, ghost, ops,
    r, v, out,
    n, signed, value,
    power, link, j, carried

modinv_vars == <<routine, x, d, e, f, g, eta, len, jac, t, batch>>
field_vars == <<fe, ghost>>
scalar_vars == <<r, v, out>>
int_vars == <<n, signed, value>>
sqrt_vars == <<power, link, j, carried>>

(* Three limbs of 6 bits, and two of 8: the bottom limb of the modulus is    *)
(* negative in both, as those of the code's moduli may be.                   *)
ModinvInputs(m) == (0 .. 3) \cup {5, 8, 100, m \div 4 + 1, m \div 2, m \div 2 + 1, m - 2, m - 1}
                   \cup {(137 * k) % m : k \in 1 .. 110}
M64 == INSTANCE Modinv
        WITH B <- 6, Limbs <- 3, modulus <- <<-3, 0, 4>>, Steps <- 4, Batches <- 9,
             VarBatches <- 9, JacobiBatches <- 20, ByTable <- FALSE, Inputs <- ModinvInputs(16381)
M32 == INSTANCE Modinv
        WITH B <- 8, Limbs <- 2, modulus <- <<-3, 64>>, Steps <- 8, Batches <- 5,
             VarBatches <- 5, JacobiBatches <- 20, ByTable <- TRUE, Inputs <- ModinvInputs(16381)

(* As many limbs as in the code, of fewer bits. The largest number, those    *)
(* around the modulus, and one with every other bit.                         *)
Every2nd(b) == {k \in 0 .. b : k % 2 = 0}
F5 == INSTANCE FieldLimbs
        WITH B <- 9, Top <- 7, Limbs <- 5, W <- 12, c <- <<9, 0>>, FiveLimbs <- TRUE,
             MaxMag <- 4, MulMag <- 1, Factors <- {7, 4583, 7993, 34303}, Ints <- {0, 1}, MaxOps <- 3,
             Inputs <- {{0}, 0 .. 42, (0 .. 42) \ {3}, (0 .. 42) \ {0, 3}, Every2nd(42)}
F10 == INSTANCE FieldLimbs
        WITH B <- 5, Top <- 3, Limbs <- 10, W <- 8, c <- <<11, 2>>, FiveLimbs <- FALSE,
             MaxMag <- 4, MulMag <- 1, Factors <- {503, 1499, 18181, 20533}, Ints <- {0, 1}, MaxOps <- 3,
             Inputs <- {{0}, 0 .. 47, (0 .. 47) \ {1, 3, 6}, (0 .. 47) \ {0, 1, 3, 6}, Every2nd(47)}

(* Half of all scalars of 12 bits, and some of 24.                           *)
S4 == INSTANCE ScalarLimbs
        WITH W <- 3, Limbs <- 4, n <- 4021, lambda <- 2208, a1 <- 20, minus_b1 <- 51, a2 <- 71, b2 <- 20,
             MaxOps <- 2, Starts <- {2 * k : k \in 0 .. 2047} \cup 4015 .. 4095,
             Inputs <- {1, 2, 64, 2011, 4020, 4095}
S8 == INSTANCE ScalarLimbs
        WITH W <- 3, Limbs <- 8, n <- 16773007, lambda <- 8932529,
             a1 <- 599, minus_b1 <- 3763, a2 <- 4362, b2 <- 599, MaxOps <- 2,
             Starts <- {0, 1, 2, 4095, 4096, 8386503, 8386504, 16773006, 16773007, 16773008, 16777215}
                       \cup {(7919 * k * 1013) % 16777216 : k \in 1 .. 40},
             Inputs <- {1, 4096, 8386504, 16773006, 16777215}

(* Words of 4 bits.                                                          *)
I == INSTANCE Int128 WITH H <- 2

ASSUME /\ EllSwiftAssumption
       /\ M64!ModinvAssumption /\ M32!ModinvAssumption
       /\ F5!FieldLimbsAssumption /\ F10!FieldLimbsAssumption
       /\ S4!ScalarLimbsAssumption /\ S8!ScalarLimbsAssumption
       /\ I!Int128Assumption

point_vars == <<vars, const_vars, swift_vars>>
all_vars == <<part, point_vars, modinv_vars, field_vars, ops, scalar_vars, int_vars, sqrt_vars>>

ModinvIdle ==
    /\ routine = "none" /\ x = 0 /\ d = None /\ e = None /\ f = None /\ g = None
    /\ eta = 0 /\ len = 0 /\ jac = 0 /\ t = None /\ batch = 0
FieldIdle == fe = None /\ ghost = None
ScalarIdle == r = None /\ v = 0 /\ out = None

PartInit ==
    /\ part \in {"group", "const", "ellswift", "modinv64", "modinv32", "fe5x52", "fe10x26",
                 "scalar4x64", "scalar8x32", "int128", "fe_sqrt"}
    /\ Init /\ ConstInit /\ F5!SqrtInit
    /\ SwiftInit /\ (part # "ellswift" => sk = [i \in Parties |-> 0])
    /\ CASE part = "modinv64" -> M64!Init [] part = "modinv32" -> M32!Init [] OTHER -> ModinvIdle
    /\ IF part = "int128" THEN I!Init ELSE n = None /\ signed = FALSE /\ value = 0
    /\ CASE part = "fe5x52" -> F5!Init /\ ScalarIdle
         [] part = "fe10x26" -> F10!Init /\ ScalarIdle
         [] part = "scalar4x64" -> S4!Init /\ FieldIdle
         [] part = "scalar8x32" -> S8!Init /\ FieldIdle
         [] OTHER -> FieldIdle /\ ScalarIdle /\ ops = 0

PartNext ==
    /\ UNCHANGED part
    /\ \/ /\ \/ part = "group" /\ Next /\ UNCHANGED <<const_vars, swift_vars>>
             \/ part = "const" /\ ConstNext /\ UNCHANGED swift_vars
             \/ part = "ellswift" /\ SwiftNext
          /\ UNCHANGED <<modinv_vars, field_vars, ops, scalar_vars, int_vars, sqrt_vars>>
       \/ /\ \/ part = "modinv64" /\ M64!Next
             \/ part = "modinv32" /\ M32!Next
          /\ UNCHANGED <<vars, call, swift_vars, field_vars, ops, scalar_vars, int_vars, sqrt_vars>>
       \/ /\ \/ part = "fe5x52" /\ F5!Next
             \/ part = "fe10x26" /\ F10!Next
          /\ UNCHANGED <<point_vars, modinv_vars, scalar_vars, int_vars, sqrt_vars>>
       \/ /\ \/ part = "scalar4x64" /\ S4!Next
             \/ part = "scalar8x32" /\ S8!Next
          /\ UNCHANGED <<point_vars, modinv_vars, field_vars, int_vars, sqrt_vars>>
       \/ /\ part = "int128" /\ I!Next
          /\ UNCHANGED <<point_vars, modinv_vars, field_vars, ops, scalar_vars, sqrt_vars>>
       \/ /\ part = "fe_sqrt" /\ F5!SqrtNext
          /\ UNCHANGED <<point_vars, modinv_vars, field_vars, ops, scalar_vars, int_vars>>

PartSpec == PartInit /\ [][PartNext]_all_vars

(* Inverses and Jacobi symbols are right, of numbers that stay in range (see *)
(* Modinv).                                                                  *)
InversesRight ==
    /\ part = "modinv64" => M64!InRange /\ M64!Meaning /\ M64!ResultRight
    /\ part = "modinv32" => M32!InRange /\ M32!Meaning /\ M32!ResultRight

(* Field elements stand for the right number, within their magnitude (see    *)
(* FieldLimbs).                                                              *)
LimbsRight ==
    /\ part = "fe5x52" => F5!LimbsRight
    /\ part = "fe10x26" => F10!LimbsRight

(* Scalars are right and reduced, and split into short ones (see ScalarLimbs).*)
ScalarsRight ==
    /\ part = "scalar4x64" => S4!ScalarsRight /\ S4!SplitShort
    /\ part = "scalar8x32" => S8!ScalarsRight /\ S8!SplitShort

(* Two words hold the right number, and the chain of squarings reaches the   *)
(* right power (see Int128 and FieldLimbs).                                   *)
WordsRight == part = "int128" => I!Int128Right
ExponentRight == F5!ExponentRight
=============================================================================
