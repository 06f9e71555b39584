------------------------------- MODULE Modinv -------------------------------
(***************************************************************************)
(* Modular inverses and Jacobi symbols by divsteps: src/modinv64_impl.h    *)
(* and src/modinv32_impl.h, which differ in the width and number of limbs  *)
(* and in how the _var functions cancel bits (ByTable).                    *)
(*                                                                         *)
(* A number is a sequence of signed limbs of B bits in words of B + 2, the *)
(* lowest first; all but the top one are not negative unless said so.      *)
(***************************************************************************)
EXTENDS Integers, Sequences

CONSTANTS
    B, Limbs,       \* 62 and 5, or 30 and 9 in the code
    modulus,        \* its limbs, of either sign
    Steps,          \* divsteps in a batch of the constant-time version: 59 or 30
    Batches,        \* batches of the constant-time version: 10 or 20
    VarBatches,     \* what the variable-time version needs at most: 12 or 25
    JacobiBatches,  \* where the Jacobi symbol gives up: 25 or 50
    ByTable,        \* whether bits are cancelled as in modinv32
    Inputs          \* bound: inputs

Shift == 2 ^ B
Word == 4 * Shift
Signed(w) == IF w >= Word \div 2 THEN w - Word ELSE w
Bit(n, i) == (n \div 2 ^ i) % 2
Least(a, b) == IF a <= b THEN a ELSE b

Value(x, len) ==
    LET upto[i \in 0 .. len] == IF i = 0 THEN 0 ELSE upto[i - 1] + x[i] * Shift ^ (i - 1)
    IN  upto[len]
m == Value(modulus, Limbs)
modulus_inv == CHOOSE i \in 0 .. Shift - 1 : (i * modulus[1]) % Shift = 1

ModinvAssumption ==
    /\ {B, Limbs, Steps, Batches, VarBatches, JacobiBatches} \subseteq Nat \ {0}
    /\ Limbs > 1 /\ Steps <= B /\ ByTable \in BOOLEAN
    /\ modulus \in [1 .. Limbs -> -Shift + 1 .. Shift - 1] /\ m > 2 /\ m % 2 = 1
    /\ Inputs \subseteq 0 .. m - 1

OfValue(n) == [i \in 1 .. Limbs |-> (n \div Shift ^ (i - 1)) % Shift]

-----------------------------------------------------------------------------
(* Divsteps on the bottom words; t = <<u, v, q, r>> is the transition matrix *)
(* so far, in words.                                                         *)

Start(eta, f, g, scale) ==
    [eta |-> eta, f |-> f, g |-> g, u |-> scale, v |-> 0, q |-> 0, r |-> scale, jac |-> 0, i |-> B]
Outcome(s) ==
    [eta |-> s.eta, jac |-> s.jac, t |-> <<Signed(s.u), Signed(s.v), Signed(s.q), Signed(s.r)>>]

Divstep(s) ==
    LET odd == s.g % 2
        neg == IF s.eta < 0 THEN -1 ELSE 1
        swap == IF s.eta < 0 THEN odd ELSE 0
        g == (s.g + odd * neg * s.f) % Word
        q == (s.q + odd * neg * s.u) % Word
        r == (s.r + odd * neg * s.v) % Word
    IN  [s EXCEPT !.eta = (IF swap = 1 THEN -@ - 1 ELSE @) - 1,
                  !.f = (@ + swap * g) % Word, !.g = g \div 2,
                  !.u = (2 * (@ + swap * q)) % Word, !.v = (2 * (@ + swap * r)) % Word,
                  !.q = q, !.r = r]
divsteps(zeta0, f0, g0) ==
    LET step[k \in 0 .. Steps] ==
            IF k = 0 THEN Start(zeta0, f0, g0, 2 ^ (B - Steps)) ELSE Divstep(step[k - 1])
    IN  Outcome(step[Steps])

Zeros(g, i) == CHOOSE z \in 0 .. i : (z = i \/ Bit(g, z) = 1) /\ \A k \in 0 .. z - 1 : Bit(g, k) = 0

(* What multiple of f cancels the bottom bits of g: by a formula for six     *)
(* bits after a swap and for four otherwise,                                 *)
cancel_formula(f, g, limit, swapped) ==
    LET bits == Least(limit, IF swapped THEN 6 ELSE 4)
        fm == f % 64
        gm == g % 64
    IN  IF swapped THEN (((fm * gm) % 64) * (fm * fm - 2)) % (2 ^ bits)
        ELSE ((0 - (fm + 8 * Bit(fm + 1, 2))) * gm) % (2 ^ bits)

(* or by a table of the negated inverses modulo 256.                         *)
inv256(f) == CHOOSE n \in 0 .. 255 : (n * (f % 256)) % 256 = 255
cancel_table(f, g, limit) == ((g % 256) * inv256(f)) % (2 ^ Least(limit, 8))

(* Faulty variant: cancels more than eta allows.                             *)
LimitByStepsOnly(eta, i) == i
Limit(eta, i) == Least(eta + 1, i)

(* One turn of the loop: all zeros of g, then a multiple of f is added. With *)
(* sign -1, g becomes -f in a swap, with sign 1 (posdivsteps) f.             *)
WithoutZeros(s, zeros) ==
    [s EXCEPT !.g = @ \div 2 ^ zeros, !.u = (@ * 2 ^ zeros) % Word, !.v = (@ * 2 ^ zeros) % Word,
              !.eta = @ - zeros, !.i = @ - zeros,
              !.jac = (@ + zeros * (Bit(s.f, 1) + Bit(s.f, 2))) % 2]
Swapped(s, sign) ==
    [s EXCEPT !.eta = -@, !.f = s.g, !.g = (sign * s.f) % Word, !.u = s.q, !.v = s.r,
              !.q = (sign * s.u) % Word, !.r = (sign * s.v) % Word,
              !.jac = (@ + Bit(s.f, 1) * Bit(s.g, 1)) % 2]
Plus(s, w) ==
    [s EXCEPT !.g = (@ + s.f * w) % Word, !.q = (@ + s.u * w) % Word, !.r = (@ + s.v * w) % Word]
Cancelled(s, swapped) ==
    Plus(s, IF ByTable THEN cancel_table(s.f, s.g, Limit(s.eta, s.i))
            ELSE cancel_formula(s.f, s.g, Limit(s.eta, s.i), swapped))
SwapAndCancel(s, sign) ==
    IF s.i = 0 THEN s
    ELSE IF s.eta < 0 THEN Cancelled(Swapped(s, sign), TRUE) ELSE Cancelled(s, FALSE)
Turn(s, sign) ==
    IF s.i = 0 THEN s ELSE SwapAndCancel(WithoutZeros(s, Zeros(s.g, s.i)), sign)

Turns(eta, f0, g0, jac, sign) ==
    LET turn[k \in 0 .. B + 1] ==
            IF k = 0 THEN [Start(eta, f0, g0, 1) EXCEPT !.jac = jac] ELSE Turn(turn[k - 1], sign)
    IN  Outcome(turn[B + 1])

divsteps_var(eta, f0, g0) == Turns(eta, f0, g0, 0, -1)
posdivsteps_var(eta, f0, g0, jac) == Turns(eta, f0, g0, jac, 1)

-----------------------------------------------------------------------------
(* Columns are added up and shifted down by one limb; limbs from len on stay.*)
ShiftDown(x, len, Column(_)) ==
    LET c[i \in 1 .. len] == Column(i) + (IF i = 1 THEN 0 ELSE c[i - 1] \div Shift)
    IN  [i \in 1 .. Limbs |-> IF i < len THEN c[i + 1] % Shift
                              ELSE IF i = len THEN c[len] \div Shift ELSE x[i]]

update_fg_var(len, f, g, t) ==
    << ShiftDown(f, len, LAMBDA i : t[1] * f[i] + t[2] * g[i]),
       ShiftDown(g, len, LAMBDA i : t[3] * f[i] + t[4] * g[i]) >>
update_fg(f, g, t) == update_fg_var(Limbs, f, g, t)

SignTerm(a, top) == IF top < 0 THEN a ELSE 0

(* The multiple of the modulus that makes the bottom limb zero, after the    *)
(* one that makes up for negative numbers.                                   *)
Correction(a, b, d, e) ==
    LET md == SignTerm(a, d[Limbs]) + SignTerm(b, e[Limbs])
    IN  md - ((modulus_inv * ((a * d[1] + b * e[1]) % Shift) + md) % Shift)

update_de(d, e, t) ==
    LET md == Correction(t[1], t[2], d, e)
        me == Correction(t[3], t[4], d, e)
    IN  << ShiftDown(d, Limbs, LAMBDA i : t[1] * d[i] + t[2] * e[i] + md * modulus[i]),
           ShiftDown(e, Limbs, LAMBDA i : t[3] * d[i] + t[4] * e[i] + me * modulus[i]) >>

Carried(x) ==
    LET c[i \in 1 .. Limbs] == x[i] + (IF i = 1 THEN 0 ELSE c[i - 1] \div Shift)
    IN  [i \in 1 .. Limbs |-> IF i = Limbs THEN c[i] ELSE c[i] % Shift]
AddIfNegative(x) == IF x[Limbs] < 0 THEN [i \in 1 .. Limbs |-> x[i] + modulus[i]] ELSE x
NegateIf(x, sign) == IF sign < 0 THEN [i \in 1 .. Limbs |-> -x[i]] ELSE x

normalize(x, sign) == Carried(AddIfNegative(Carried(NegateIf(AddIfNegative(x), sign))))

-----------------------------------------------------------------------------
VARIABLES
    routine,     \* "modinv", "modinv_var", "jacobi"
    x,           \* the input
    d, e, f, g,
    eta,         \* zeta for modinv
    len, jac,
    t,           \* the last transition matrix
    batch,       \* batches done
    result

vars == <<routine, x, d, e, f, g, eta, len, jac, t, batch, result>>

None == <<>>
Running == result = None

Init ==
    /\ routine \in {"modinv", "modinv_var", "jacobi"}
    /\ x \in Inputs /\ (routine = "jacobi" => x # 0)
    /\ d = OfValue(0) /\ e = OfValue(1) /\ f = modulus /\ g = OfValue(x)
    /\ eta = -1 /\ len = Limbs /\ jac = 0 /\ t = <<1, 0, 0, 1>> /\ batch = 0 /\ result = None

Is(y, n) == \A i \in 1 .. len : y[i] = IF i = 1 THEN n ELSE 0

Modinv ==
    /\ routine = "modinv" /\ Running /\ batch < Batches
    /\ \E s \in {divsteps(eta, f[1] % Word, g[1] % Word)} :
         \E de \in {update_de(d, e, s.t)}, fg \in {update_fg(f, g, s.t)} :
            /\ eta' = s.eta /\ t' = s.t
            /\ d' = de[1] /\ e' = de[2] /\ f' = fg[1] /\ g' = fg[2]
    /\ batch' = batch + 1
    /\ UNCHANGED <<routine, x, len, jac, result>>

ModinvEnd ==
    /\ routine = "modinv" /\ Running /\ batch = Batches
    /\ result' = normalize(d, f[Limbs])
    /\ UNCHANGED <<routine, x, d, e, f, g, eta, len, jac, t, batch>>

(* The top limb is dropped when it is only the sign of the one below.        *)
(* Faulty variant: the sign is lost with it.                                 *)
Droppable(y) == y[len] \in {0, -1}
ShortenedPlain(y) == y
Shortened(y) == [y EXCEPT ![len - 1] = @ + y[len] * Shift]

ModinvVar ==
    /\ routine = "modinv_var" /\ Running
    /\ \E s \in {divsteps_var(eta, f[1] % Word, g[1] % Word)} :
         \E de \in {update_de(d, e, s.t)}, fg \in {update_fg_var(len, f, g, s.t)} :
            /\ eta' = s.eta /\ t' = s.t
            /\ d' = de[1] /\ e' = de[2]
            /\ \/ /\ Is(fg[2], 0)
                  /\ result' = normalize(de[1], fg[1][len])
                  /\ f' = fg[1] /\ g' = fg[2] /\ UNCHANGED len
               \/ /\ ~Is(fg[2], 0)
                  /\ IF len > 1 /\ Droppable(fg[1]) /\ Droppable(fg[2])
                     THEN f' = Shortened(fg[1]) /\ g' = Shortened(fg[2]) /\ len' = len - 1
                     ELSE f' = fg[1] /\ g' = fg[2] /\ UNCHANGED len
                  /\ UNCHANGED result
    /\ batch' = batch + 1
    /\ UNCHANGED <<routine, x, jac>>

(* The Jacobi symbol looks at a whole word: the second limb is ORed in above *)
(* the first, where a negative one (of the modulus) has ones already.        *)
BottomWord(y) == IF y[1] < 0 THEN y[1] % Word ELSE (y[1] + y[2] * Shift) % Word

JacobiBatch ==
    \E s \in {posdivsteps_var(eta, BottomWord(f), BottomWord(g), jac)} :
      \E fg \in {update_fg_var(len, f, g, s.t)} :
        /\ eta' = s.eta /\ t' = s.t /\ jac' = s.jac
        /\ f' = fg[1] /\ g' = fg[2]
        /\ IF Is(fg[1], 1) THEN result' = <<1 - 2 * s.jac>> /\ UNCHANGED len
           ELSE /\ len' = IF len > 1 /\ fg[1][len] = 0 /\ fg[2][len] = 0 THEN len - 1 ELSE len
                /\ UNCHANGED result
        /\ batch' = batch + 1
JacobiVar ==
    /\ routine = "jacobi" /\ Running
    /\ IF batch = JacobiBatches
       THEN result' = <<0>> /\ UNCHANGED <<f, g, eta, len, jac, t, batch>>
       ELSE JacobiBatch
    /\ UNCHANGED <<routine, x, d, e>>

Next == Modinv \/ ModinvEnd \/ ModinvVar \/ JacobiVar

Spec == Init /\ [][Next]_vars

-----------------------------------------------------------------------------
(* The ranges that the comments state and VERIFY builds check, so that no    *)
(* word overflows: of d, e, f, g, of their limbs and of the matrix           *)
(* (modinv64_impl.h:404-421), for f and g as long as they have len  *)
(* limbs.                                                                    *)
Abs(n) == IF n < 0 THEN -n ELSE n
InRange ==
    /\ \A y \in {Value(d, Limbs), Value(e, Limbs)} : -2 * m < y /\ y < m
    /\ \A y \in {d, e} : \A i \in 1 .. Limbs : -Shift < y[i] /\ y[i] < Shift
    /\ -m < Value(f, len) /\ Value(f, len) <= m
    /\ -m < Value(g, len) /\ Value(g, len) < m
    /\ Abs(t[1]) + Abs(t[2]) <= Shift /\ Abs(t[3]) + Abs(t[4]) <= Shift

(* Throughout, d stands for f / x and e for g / x modulo the modulus.        *)
Meaning ==
    routine # "jacobi" =>
        /\ (Value(d, Limbs) * x - Value(f, len)) % m = 0
        /\ (Value(e, Limbs) * x - Value(g, len)) % m = 0

(* The result is the inverse (0 for 0), or the Jacobi symbol, in canonical   *)
(* limbs, and the loops without a counter end in time.                       *)
JacobiSymbol == IF \E y \in 1 .. m - 1 : (y * y) % m = x THEN 1 ELSE -1
ResultRight ==
    /\ batch <= (CASE routine = "modinv" -> Batches [] routine = "modinv_var" -> VarBatches
                   [] routine = "jacobi" -> JacobiBatches)
    /\ ~Running /\ routine # "jacobi" =>
        /\ \A i \in 1 .. Limbs : result[i] \in 0 .. Shift - 1
        /\ Value(result, Limbs) < m
        /\ (Value(result, Limbs) * x) % m = IF x = 0 THEN 0 ELSE 1
    /\ ~Running /\ routine = "jacobi" => result = <<JacobiSymbol>>
=============================================================================
