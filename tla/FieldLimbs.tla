----------------------------- MODULE FieldLimbs -----------------------------
(***************************************************************************)
(* Field elements in limbs: src/field_5x52_impl.h with                     *)
(* src/field_5x52_int128_impl.h, or src/field_10x26_impl.h, under the      *)
(* magnitudes of src/field_impl.h. Limbs have B bits, the top one Top, the *)
(* lowest comes first; words have W bits and lose what does not fit.       *)
(***************************************************************************)
EXTENDS Integers, Sequences, FiniteSetsExt

CONSTANTS
    B, Top, Limbs, W,  \* 52, 48, 5, 64 or 26, 22, 10, 32 in the code
    c,               \* the two bottom limbs of 2^256 - p
    FiveLimbs,       \* whether products go the way of field_5x52_int128_impl.h
    MaxMag, MulMag,  \* the largest magnitude, and that of a factor: 32 and 8
    Factors,         \* of p, pairwise coprime: p is not a prime here
    Inputs, Ints,    \* bound: byte strings, as sets of bits, and small integers
    MaxOps           \* bound: operations in a row

Limb == 2 ^ B
Word == 2 ^ W
Low(n) == n % Limb
High(n) == n \div Limb
Fit(n) == n % Word
Fit2(n) == n % Word ^ 2
Shl(n) == n * 2 ^ (B - Top)
Index == 1 .. Limbs
Full(i) == IF i = Limbs THEN 2 ^ Top - 1 ELSE Limb - 1
P == [i \in Index |-> CASE i = 1 -> Limb - c[1] [] i = 2 -> Limb - 1 - c[2] [] OTHER -> Full(i)]
Bits == B * (Limbs - 1) + Top
Residue(n, q) ==
    LET high[i \in 1 .. Limbs + 1] == IF i > Limbs THEN 0 ELSE (high[i + 1] * Limb + n[i]) % q
    IN  high[1]
Residues(n) == [q \in Factors |-> Residue(n, q)]

FieldLimbsAssumption ==
    /\ {B, Top, Limbs, W, MaxMag, MulMag} \subseteq Nat \ {0}
    /\ Top < B /\ Limbs > 3 /\ 2 * Limb * MaxMag <= Word /\ MulMag <= MaxMag
    /\ c \in [1 .. 2 -> 0 .. Limb - 1]
    /\ FiveLimbs => Limbs = 5 /\ c[2] = 0
    /\ P[1] % 2 = 1 /\ \A q \in Factors : Residue(P, q) = 0
    /\ Inputs \subseteq SUBSET (0 .. Bits - 1)

-----------------------------------------------------------------------------
(* Carries are passed up and stay in the top limb.                           *)
Carried(t) ==
    LET s[i \in Index] == Fit(t[i] + (IF i = 1 THEN 0 ELSE High(s[i - 1])))
    IN  [i \in Index |-> IF i = Limbs THEN s[i] ELSE Low(s[i])]

Plus(t, x) == [t EXCEPT ![1] = Fit(@ + x * c[1]), ![2] = Fit(@ + x * c[2])]
WithoutTop(t) == [t EXCEPT ![Limbs] = @ % 2 ^ Top]
Excess(t) == t[Limbs] \div 2 ^ Top

normalize_weak(n) == Carried(Plus(WithoutTop(n), Excess(n)))

(* For numbers that need less than one bit more; with c[2] = 0 this says that *)
(* the second limb is full as well and the first at least that of p.          *)
AtLeastP(t) ==
    /\ t[Limbs] = Full(Limbs) /\ \A i \in 3 .. Limbs - 1 : t[i] = Full(i)
    /\ t[2] + c[2] + High(t[1] + c[1]) >= Limb

(* Faulty variant: is content with a number of the right length.             *)
normalizeWeakly(n) == WithoutTop(normalize_weak(n))
normalize(n) ==
    LET t == normalize_weak(n)
        x == IF AtLeastP(t) THEN 1 ELSE Excess(t)
    IN  WithoutTop(Carried(Plus(t, x)))
normalize_var(n) ==
    LET t == normalize_weak(n)
    IN  IF AtLeastP(t) \/ Excess(t) # 0 THEN WithoutTop(Carried(Plus(t, 1))) ELSE t

IsZeroOrP(t) == t = [i \in Index |-> 0] \/ t = P
normalizes_to_zero(n) == IsZeroOrP(normalize_weak(n))
normalizes_to_zero_var(n) ==
    LET z == Low(Fit(n[1] + Excess(n) * c[1]))
    IN  IF z # 0 /\ z # P[1] THEN FALSE ELSE IsZeroOrP(normalize_weak(n))

(* Packed storage and bytes hold the same bits in other words.               *)
set_b32_mod(v) ==
    [i \in Index |-> MapThenSumSet(LAMBDA k : 2 ^ (k - B * (i - 1)), {k \in v : k \div B = i - 1})]
get_b32(n) == {k \in 0 .. Bits - 1 : (n[k \div B + 1] \div 2 ^ (k % B)) % 2 = 1}

negate(n, m) == [i \in Index |-> Fit(P[i] * 2 * (m + 1) - n[i])]
add(n, o) == [i \in Index |-> Fit(n[i] + o[i])]
add_int(n, k) == [n EXCEPT ![1] = Fit(@ + k)]
mul_int(n, k) == [i \in Index |-> Fit(n[i] * k)]
half(n) ==
    LET t == [i \in Index |-> Fit(n[i] + (n[1] % 2) * P[i])]
    IN  [i \in Index |-> (t[i] \div 2) + (IF i = Limbs THEN 0 ELSE (t[i + 1] % 2) * 2 ^ (B - 1))]

-----------------------------------------------------------------------------
(* Column k of a product, and of a square, where each product of two         *)
(* different limbs is taken once with one of them doubled.                   *)
Pairs(k) == {i \in 0 .. Limbs - 1 : k - i \in 0 .. Limbs - 1}
Product(a, b) == [k \in 0 .. 2 * Limbs - 2 |-> MapThenSumSet(LAMBDA i : a[i + 1] * b[k - i + 1], Pairs(k))]
Square(a) ==
    [k \in 0 .. 2 * Limbs - 2 |->
        MapThenSumSet(LAMBDA i : IF 2 * i = k THEN a[i + 1] ^ 2 ELSE Fit(2 * a[i + 1]) * a[k - i + 1],
                      {i \in Pairs(k) : 2 * i <= k})]

(* 5x52: the two words of the highest columns are folded in at different     *)
(* places; t4 gives up its excess together with the fifth column.            *)
Reduced5(q) ==
    LET R == Shl(c[1])
        Shift == 2 ^ (W - B)
        d3 == Fit2(q[3] + R * Fit(q[8]))
        d4 == Fit2(High(d3) + q[4] + R * Shift * (q[8] \div Word))
        t4 == Low(d4)
        d5 == Fit2(High(d4) + q[5])
        u0 == Shl(Low(d5)) + (t4 \div 2 ^ Top)
        c0 == Fit2(q[0] + u0 * c[1])
        d6 == Fit2(High(d5) + q[6])
        c1 == Fit2(High(c0) + q[1] + Low(d6) * R)
        d7 == Fit2(High(d6) + q[7])
        c2 == Fit2(High(c1) + q[2] + R * Fit(d7))
        c3 == Fit2(High(c2) + R * Shift * (d7 \div Word) + Low(d3))
    IN  <<Low(c0), Low(c1), Low(c2), Low(c3), Fit(High(c3) + (t4 % 2 ^ Top))>>

(* 10x26: in each round a column of the upper half is folded into one of the *)
(* lower half.                                                               *)
Round(s, q, k) ==
    LET d == Fit2(s.d + q[Limbs + k])
        e == Fit2(s.c + q[k] + Low(d) * Shl(c[1]))
    IN  [c |-> Fit2(High(e) + Low(d) * Shl(c[2])), d |-> High(d), t |-> Append(s.t, Low(e))]

Reduced10(q) ==
    LET round[k \in 0 .. Limbs - 1] ==
            IF k = 0 THEN [c |-> 0, d |-> High(Fit2(q[Limbs - 1])), t |-> <<>>]
            ELSE Round(round[k - 1], q, k - 1)
        s == round[Limbs - 1]
        top == Fit2(s.c + s.d * Shl(c[1]) + Low(q[Limbs - 1]))
        x == Fit2((top \div 2 ^ Top) + s.d * Shl(Shl(c[2])))
        d0 == Fit2(x * c[1] + s.t[1])
        d1 == Fit2(High(d0) + x * c[2] + s.t[2])
    IN  [i \in Index |-> CASE i = 1 -> Low(d0) [] i = 2 -> Low(d1) [] i = 3 -> Fit(High(d1) + s.t[3])
                           [] i = Limbs -> top % 2 ^ Top [] OTHER -> s.t[i]]

Reduced(q) == IF FiveLimbs THEN Reduced5(q) ELSE Reduced10(q)
mul(a, b) == Reduced(Product(a, b))
sqr(a) == Reduced(Square(a))

-----------------------------------------------------------------------------
VARIABLES
    fe,      \* two elements, each with its limbs, magnitude and normalized flag
    ghost,   \* what they stand for, modulo each factor of p
    ops

vars == <<fe, ghost, ops>>

Element(n, m, normalized) == [n |-> n, magnitude |-> m, normalized |-> normalized]
Zero == Element([i \in Index |-> 0], 0, TRUE)
Const(k) == [q \in Factors |-> k % q]
Map2(Op(_, _), u, v) == [q \in Factors |-> Op(u[q], v[q]) % q]
Plus2(u, v) == Map2(LAMBDA x, y : x + y, u, v)
Times2(u, v) == Map2(LAMBDA x, y : x * y, u, v)

Init == fe = <<Zero, Zero>> /\ ghost = <<Const(0), Const(0)>> /\ ops = 0

Set(r, n, m, normalized, value) ==
    /\ ops < MaxOps /\ ops' = ops + 1
    /\ fe' = [fe EXCEPT ![r] = Element(n, m, normalized)]
    /\ ghost' = [ghost EXCEPT ![r] = value]

set_int(r) == \E k \in Ints : Set(r, add_int(Zero.n, k), IF k = 0 THEN 0 ELSE 1, TRUE, Const(k))
FromBytes(r) ==
    \E v \in Inputs : LET n == set_b32_mod(v) IN
        \/ Set(r, n, 1, FALSE, Residues(n))
        \/ ~AtLeastP(n) /\ Set(r, n, 1, TRUE, Residues(n))
Normalize(r) ==
    \/ Set(r, normalize(fe[r].n), 1, TRUE, ghost[r])
    \/ Set(r, normalize_var(fe[r].n), 1, TRUE, ghost[r])
    \/ Set(r, normalize_weak(fe[r].n), 1, fe[r].normalized, ghost[r])
Negate(r) ==
    \E m \in fe[r].magnitude .. MaxMag - 1 :
        Set(r, negate(fe[r].n, m), m + 1, FALSE, [q \in Factors |-> (q - ghost[r][q]) % q])
MulInt(r) ==
    \E k \in 0 .. MaxMag :
        /\ k * fe[r].magnitude <= MaxMag
        /\ Set(r, mul_int(fe[r].n, k), k * fe[r].magnitude, FALSE, Times2(ghost[r], Const(k)))
AddInt(r) ==
    \E k \in Ints :
        /\ fe[r].magnitude < MaxMag
        /\ Set(r, add_int(fe[r].n, k), fe[r].magnitude + 1, FALSE, Plus2(ghost[r], Const(k)))
Add(r, x) ==
    /\ fe[r].magnitude + fe[x].magnitude <= MaxMag
    /\ Set(r, add(fe[r].n, fe[x].n), fe[r].magnitude + fe[x].magnitude, FALSE, Plus2(ghost[r], ghost[x]))
Half(r) ==
    /\ fe[r].magnitude < MaxMag
    /\ Set(r, half(fe[r].n), (fe[r].magnitude \div 2) + 1, FALSE,
           Times2(ghost[r], [q \in Factors |-> (q + 1) \div 2]))
Mul(r, x) ==
    /\ fe[r].magnitude <= MulMag /\ fe[x].magnitude <= MulMag
    /\ Set(r, mul(fe[r].n, fe[x].n), 1, FALSE, Times2(ghost[r], ghost[x]))
Sqr(r) ==
    /\ fe[r].magnitude <= MulMag
    /\ Set(r, sqr(fe[r].n), 1, FALSE, Times2(ghost[r], ghost[r]))
Cmov(r, x) ==
    Set(r, fe[x].n, Max({fe[r].magnitude, fe[x].magnitude}), fe[r].normalized /\ fe[x].normalized, ghost[x])
ToAndFrom(r) ==
    /\ fe[r].normalized
    /\ Set(r, set_b32_mod(get_b32(fe[r].n)), 1, TRUE, ghost[r])

Next ==
    \E r \in 1 .. 2 :
        \/ set_int(r) \/ FromBytes(r) \/ Normalize(r) \/ Negate(r) \/ MulInt(r) \/ AddInt(r)
        \/ Add(r, 3 - r) \/ Half(r) \/ Mul(r, 3 - r) \/ Sqr(r) \/ Cmov(r, 3 - r) \/ ToAndFrom(r)

Spec == Init /\ [][Next]_vars

-----------------------------------------------------------------------------
(* Whatever legal operations came before, the limbs stand for the right      *)
(* element, so that no word has lost a carry; they are within what the       *)
(* magnitude promises (field_5x52_impl.h:22-33), a normalized element is     *)
(* less than p, and all ways to normalize and to ask for zero agree.         *)
Canonical(n) == (\A i \in Index : n[i] <= Full(i)) /\ ~AtLeastP(n)
LimbsRight ==
    \A r \in 1 .. 2 :
        LET e == fe[r] IN
        /\ Residues(e.n) = ghost[r]
        /\ \A i \in Index : e.n[i] <= 2 * e.magnitude * Full(i)
        /\ e.normalized => e.magnitude <= 1 /\ Canonical(e.n)
        /\ LET n == normalize(e.n) IN Canonical(n) /\ Residues(n) = ghost[r] /\ n = normalize_var(e.n)
        /\ normalizes_to_zero(e.n) = (ghost[r] = Const(0))
        /\ normalizes_to_zero_var(e.n) = (ghost[r] = Const(0))

-----------------------------------------------------------------------------
(* The addition chain of secp256k1_fe_sqrt over the real field. Every        *)
(* intermediate value is a power of the argument, here its exponent, which   *)
(* is the set of its binary ones: squaring moves the ones up by one place,   *)
(* and multiplying adds exponents.                                           *)

(* One line per variable: which one it copies, the rounds of the loop, and   *)
(* what it is multiplied by in the end.                                      *)
Link(name, from, squarings, times) ==
    [name |-> name, from |-> from, squarings |-> squarings, times |-> times]

(* Faulty variant: one round less between the second and the third block.    *)
ChainShort ==
    << Link("x2", "a", 1, "a"), Link("x3", "x2", 1, "a"), Link("x6", "x3", 3, "x3"),
       Link("x9", "x6", 3, "x3"), Link("x11", "x9", 2, "x2"), Link("x22", "x11", 11, "x11"),
       Link("x44", "x22", 22, "x22"), Link("x88", "x44", 44, "x44"), Link("x176", "x88", 88, "x88"),
       Link("x220", "x176", 44, "x44"), Link("x223", "x220", 3, "x3"),
       Link("t1", "x223", 23, "x22"), Link("t1", "t1", 5, "x2"), Link("r", "t1", 2, "1") >>
Chain ==
    << Link("x2", "a", 1, "a"), Link("x3", "x2", 1, "a"), Link("x6", "x3", 3, "x3"),
       Link("x9", "x6", 3, "x3"), Link("x11", "x9", 2, "x2"), Link("x22", "x11", 11, "x11"),
       Link("x44", "x22", 22, "x22"), Link("x88", "x44", 44, "x44"), Link("x176", "x88", 88, "x88"),
       Link("x220", "x176", 44, "x44"), Link("x223", "x220", 3, "x3"),
       Link("t1", "x223", 23, "x22"), Link("t1", "t1", 6, "x2"), Link("r", "t1", 2, "1") >>

VARIABLES
    power,    \* the exponent of each variable that has been set
    link, j,  \* the line of the chain, and the rounds of its loop done
    carried   \* whether two exponents had a one in common

sqrt_vars == <<power, link, j, carried>>

SqrtInit ==
    /\ power = [name \in {"1", "a"} |-> IF name = "1" THEN {} ELSE {0}]
    /\ link = 1 /\ j = 0 /\ carried = FALSE

Assign(name, e) == power' = [n \in DOMAIN power \cup {name} |-> IF n = name THEN e ELSE power[n]]

fe_sqr ==
    /\ link \in DOMAIN Chain /\ j < Chain[link].squarings
    /\ Assign(Chain[link].name, {b + 1 : b \in power[IF j = 0 THEN Chain[link].from ELSE Chain[link].name]})
    /\ j' = j + 1
    /\ UNCHANGED <<link, carried>>

fe_mul ==
    /\ link \in DOMAIN Chain /\ j = Chain[link].squarings
    /\ LET e == power[Chain[link].name]
           factor == power[Chain[link].times]
       IN  /\ Assign(Chain[link].name, e \cup factor)
           /\ carried' = (carried \/ e \cap factor # {})
    /\ link' = link + 1 /\ j' = 0

SqrtNext == fe_sqr \/ fe_mul

SqrtSpec == SqrtInit /\ [][SqrtNext]_sqrt_vars

-----------------------------------------------------------------------------
(* The result is the power (p + 1) / 4, for p = 2^256 - 2^32 - 977, and each *)
(* xN on the way has a block of N ones, as its name says.                    *)
PBits == 0 .. 255 \ {4, 6, 7, 8, 9, 32}
PPlusOne == (PBits \ 0 .. 3) \cup {4}
AllOnes(name, n) == name \in DOMAIN power /\ (j = 0 \/ Chain[link].name # name) => power[name] = 0 .. n - 1
ExponentRight ==
    /\ ~carried
    /\ link > Len(Chain) => {b + 2 : b \in power["r"]} = PPlusOne
    /\ AllOnes("x2", 2) /\ AllOnes("x3", 3) /\ AllOnes("x6", 6) /\ AllOnes("x9", 9)
    /\ AllOnes("x11", 11) /\ AllOnes("x22", 22) /\ AllOnes("x44", 44) /\ AllOnes("x88", 88)
    /\ AllOnes("x176", 176) /\ AllOnes("x220", 220) /\ AllOnes("x223", 223)
=============================================================================
