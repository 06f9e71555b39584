------------------------------ MODULE Strauss -------------------------------
(***************************************************************************)
(* secp256k1_ecmult_strauss_wnaf (src/ecmult_impl.h): the sum of na * a    *)
(* over several points and of ng * G, with the endomorphism.  Curve points *)
(* are represented by their logarithms (module Group); the coordinates,    *)
(* and the common Z of the tables, are abstracted away.                    *)
(***************************************************************************)
EXTENDS Group, Wnaf

CONSTANTS
    Lambda,        \* the endomorphism maps point p to Lambda * p
    BITS,          \* width of a scalar, 256
    HALF,          \* width of the halves of a split scalar, 128
    WINDOW_A, WINDOW_G,
    InputPoints,   \* points callers pass, infinity among them
    InputScalars,  \* scalars callers pass for them
    InputNg,       \* scalars callers pass for G, NoScalar for NULL
    MaxPoints      \* bound: points in a call

WidthAssumption ==
    /\ N <= 2 ^ BITS /\ 2 ^ HALF <= 2 ^ (BITS - 1) /\ N - 2 ^ HALF >= 2 ^ (BITS - 1)
    /\ Lambda \in Points
    /\ (Lambda * Lambda + Lambda + 1) % N = 0
    /\ WINDOW_A \in 2 .. HALF /\ WINDOW_G \in 2 .. HALF
    /\ InputPoints \subseteq Scalars /\ InputScalars \subseteq Scalars
    /\ InputNg \subseteq Scalars \cup {-1}

LEN == HALF + 1                     \* digits of a half, 129
ECMULT_TABLE_SIZE(w) == 2 ^ (w - 2)

NoScalar == -1                      \* a NULL ng
None == [wnaf |-> <<>>, bits |-> 0] \* no digits

VARIABLES
    inputs,   \* the points and scalars of the call (ghost)
    ng,       \* the scalar of G
    ps,       \* per point: its table, the digits of the two halves
    g_1, g_128,  \* the digits of the halves of ng
    i,        \* the digit position that was last done; NoScalar before the loop
    r,        \* the sum
    pc        \* "points", "digits", "done"

vars == <<inputs, ng, ps, g_1, g_128, i, r, pc>>

-----------------------------------------------------------------------------
(* Splitting. What scalar_split_lambda promises: r1 + Lambda * r2 = k, each  *)
(* of the two or its negation below 2^HALF (scalar_impl.h:137-140, checked   *)
(* by scalar_split_lambda_verify).  Any such pair is a possible result.      *)
Short(k) == k < 2 ^ HALF \/ N - k < 2 ^ HALF
split_lambda(k) ==
    {s \in {<<(k - Lambda * r2) % N, r2>> : r2 \in {x \in Scalars : Short(x)}} : Short(s[1])}

split_128(k) == <<k % 2 ^ HALF, k \div 2 ^ HALF>>

(* ecmult_wnaf takes a scalar whose top bit is set for the negation of a     *)
(* short one.                                                                *)
Sign(k) == IF Bits(k, BITS - 1, 1) = 1 THEN -1 ELSE 1
Magnitude(k) == IF Sign(k) = -1 THEN scalar_negate(k) ELSE k
Digits(k, w) == ecmult_wnaf(Magnitude(k), Sign(k), LEN, w)

(* The odd multiples of a point: a, 3a, 5a, ...; here indexed from 0.        *)
odd_multiples_table(size, a) ==
    LET d == gej_add(a, a)
        next(table, j) == Append(table, gej_add(table[j], d))
        seq == FoldLeft(next, <<a>>, [j \in 1 .. size - 1 |-> j])
    IN  [j \in 0 .. size - 1 |-> seq[j + 1]]

(* Faulty variant: one entry too high for negative digits.   *)
TableGetShifted(pre, n) ==
    IF n > 0 THEN pre[(n - 1) \div 2]
    ELSE ge_neg(pre[((1 - n) \div 2) % Cardinality(DOMAIN pre)])

table_get_ge(pre, n) ==
    IF n > 0 THEN pre[(n - 1) \div 2] ELSE ge_neg(pre[(-n - 1) \div 2])

(* The same for Lambda times the table: X is replaced, the Y is shared.      *)
table_get_ge_lambda(pre, n) == scalar_mul(Lambda, table_get_ge(pre, n))

PreG == odd_multiples_table(ECMULT_TABLE_SIZE(WINDOW_G), G)
PreG128 == odd_multiples_table(ECMULT_TABLE_SIZE(WINDOW_G), scalar_mul(2 ^ HALF, G))

-----------------------------------------------------------------------------
Init ==
    /\ inputs = <<>> /\ ng \in InputNg
    /\ ps = <<>> /\ g_1 = None /\ g_128 = None
    /\ i = NoScalar /\ r = Infinity /\ pc = "points"

(* One round of the loop over the points; zero terms are skipped.            *)
AddPoint(a, na) ==
    /\ pc = "points" /\ Len(inputs) < MaxPoints
    /\ inputs' = Append(inputs, [a |-> a, na |-> na])
    /\ IF na = 0 \/ a = Infinity
       THEN ps' = ps
       ELSE \E s \in split_lambda(na) :
              ps' = Append(ps, [pre_a  |-> odd_multiples_table(ECMULT_TABLE_SIZE(WINDOW_A), a),
                                na_1   |-> Digits(s[1], WINDOW_A),
                                na_lam |-> Digits(s[2], WINDOW_A)])
    /\ UNCHANGED <<ng, g_1, g_128, i, r, pc>>

AllDigits == {p.na_1 : p \in Range(ps)} \cup {p.na_lam : p \in Range(ps)}

(* G's digits, and the highest position of all.                              *)
StartDigits ==
    /\ pc = "points"
    /\ IF ng = NoScalar
       THEN UNCHANGED <<g_1, g_128>>
       ELSE /\ g_1' = Digits(split_128(ng)[1], WINDOW_G)
            /\ g_128' = Digits(split_128(ng)[2], WINDOW_G)
    /\ i' = Max({0, g_1'.bits, g_128'.bits} \cup {d.bits : d \in AllDigits})
    /\ r' = Infinity
    /\ pc' = "digits"
    /\ UNCHANGED <<inputs, ng, ps>>

(* What position k of digits d adds, looked up by get; nothing for a 0.      *)
Term(get(_, _), pre, d, k) ==
    IF k < d.bits /\ d.wnaf[k] # 0 THEN get(pre, d.wnaf[k]) ELSE Infinity

(* One round of the main loop: double, then add what each expansion has.     *)
Digit ==
    /\ pc = "digits" /\ i > 0
    /\ i' = i - 1
    /\ LET add(sum, p) ==
             gej_add(gej_add(sum, Term(table_get_ge, p.pre_a, p.na_1, i')),
                     Term(table_get_ge_lambda, p.pre_a, p.na_lam, i'))
           points == FoldLeft(add, gej_add(r, r), ps)
       IN  r' = gej_add(gej_add(points, Term(table_get_ge, PreG, g_1, i')),
                        Term(table_get_ge, PreG128, g_128, i'))
    /\ UNCHANGED <<inputs, ng, ps, g_1, g_128, pc>>

Finish ==
    /\ pc = "digits" /\ i = 0
    /\ pc' = "done"
    /\ UNCHANGED <<inputs, ng, ps, g_1, g_128, i, r>>

Next ==
    \/ \E a \in InputPoints, na \in InputScalars : AddPoint(a, na)
    \/ StartDigits
    \/ Digit
    \/ Finish

Spec == Init /\ [][Next]_vars

-----------------------------------------------------------------------------
(* The call computes the sum it was asked for, whatever the splits, the      *)
(* signs of the halves and the zero terms among the inputs.                  *)
ResultIsSum ==
    pc = "done" =>
      LET add(sum, in) == gej_add(sum, scalar_mul(in.na, in.a))
      IN  r = FoldLeft(add, IF ng = NoScalar THEN 0 ELSE ng, inputs)

(* The digit expansions keep the promises of ecmult_wnaf: the sum, odd       *)
(* digits that the tables have, gaps of zeros, a bounded count, no carry     *)
(* lost at the top (table_verify and the VERIFY block, :117-121, :211-220).  *)
SplitsSound ==
    LET sound(d, w) == \E s \in 0 .. 2 ^ HALF - 1, sign \in {1, -1} : WnafSound(d, s, sign, LEN, w)
    IN  /\ \A d \in AllDigits : sound(d, WINDOW_A)
        /\ \A d \in {g_1, g_128} \ {None} : sound(d, WINDOW_G)
=============================================================================
