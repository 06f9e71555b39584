---------------------------- MODULE ScalarLimbs ----------------------------
(***************************************************************************)
(* Scalars in limbs of W bits: src/scalar_4x64_impl.h, or                  *)
(* src/scalar_8x32_impl.h, and the endomorphism split of src/scalar_impl.h.*)
(* The lowest limb comes first. The top half of the order is ones but for  *)
(* its lowest bit, so that NC, which is 2^256 less the order, has half the *)
(* limbs and a one above them.                                             *)
(***************************************************************************)
EXTENDS Integers, SequencesExt

CONSTANTS
    W, Limbs,        \* 64 and 4, or 32 and 8 in the code
    n,               \* the order
    lambda, a1, minus_b1, a2, b2,   \* the endomorphism and its lattice
    Starts, Inputs,  \* bound: first values and second operands
    MaxOps           \* bound: operations in a row

Limb == 2 ^ W
Low(x) == x % Limb
High(x) == x \div Limb
Index == 1 .. Limbs
Bits == W * Limbs
Half == Limbs \div 2
Digits(x, len) == [i \in 1 .. len |-> (x \div Limb ^ (i - 1)) % Limb]
Value(d) == MapThenSumSet(LAMBDA i : d[i] * Limb ^ (i - 1), DOMAIN d)
Order == Digits(n, Limbs)
NH == Digits(n \div 2, Limbs)
NC == Digits(2 ^ Bits - n, Half + 1)

Times(x, y) == FoldRight(LAMBDA d, z : (z * Limb + d * x) % n, Digits(y, Limbs), 0)

ScalarLimbsAssumption ==
    /\ {W, Limbs, n, lambda, a1, minus_b1, a2, b2} \subseteq Nat \ {0}
    /\ Limbs % 2 = 0 /\ n % 2 = 1
    /\ 2 ^ Bits - n \in 2 ^ (Bits \div 2) + 1 .. 2 ^ (Bits \div 2 + 1) - 1
    /\ (Times(lambda, lambda) + lambda + 1) % n = 0
    /\ Times(minus_b1, lambda) = a1 /\ (a2 + Times(b2, lambda)) % n = 0
    /\ a1 * b2 + minus_b1 * a2 = n
    /\ Starts \cup Inputs \subseteq 0 .. 2 ^ Bits - 1

-----------------------------------------------------------------------------
(* Columns are added up from the bottom in accumulators of three limbs, or   *)
(* of two where the code takes the _fast macros; the digits come out, and at *)
(* the end what is left.                                                     *)
Columns(terms, fast) ==
    LET Extract(s, k) ==
            LET acc == (terms[k] + s.left) % Limb ^ (IF k \in fast THEN 2 ELSE 3)
            IN  [left |-> High(acc), d |-> Append(s.d, Low(acc))]
        all == FoldLeft(Extract, [left |-> 0, d |-> <<>>], [k \in DOMAIN terms |-> k])
    IN  Append(all.d, all.left)

(* Additions in two limbs whose last carry is dropped.                       *)
Chain(terms) == SubSeq(Columns(terms, 1 .. Len(terms)), 1, Len(terms))

ProductColumn(x, y, k) ==
    MapThenSumSet(LAMBDA i : x[i] * y[k + 1 - i], {i \in DOMAIN x : k + 1 - i \in DOMAIN y})

AtLeast(x, y) == \A i \in Index : x[i] < y[i] => \E j \in i + 1 .. Limbs : x[j] > y[j]
check_overflow(d) == IF AtLeast(d, Order) THEN 1 ELSE 0
Digit(x, i) == IF i \in DOMAIN x THEN x[i] ELSE 0
reduce(d, overflow) == Chain([i \in Index |-> d[i] + overflow * Digit(NC, i)])

mul_512(x, y) ==
    Columns([k \in 1 .. 2 * Limbs - 1 |-> ProductColumn(x, y, k)], {1, 2 * Limbs - 1})

(* 512 bits are reduced to 385, 258 and 256 by folding in what is above 256. *)
Fold(l, len, fast) ==
    LET top == SubSeq(l, Limbs + 1, Len(l))
    IN  Columns([k \in 1 .. len |-> (IF k <= Limbs THEN l[k] ELSE 0) + ProductColumn(top, NC, k)], fast)

FoldedTo258(l) == Fold(Fold(l, 3 * Half, {1, 3 * Half}), Limbs + 1, {1, Limbs})
FoldTop(q) == Columns([i \in Index |-> q[i] + q[Limbs + 1] * Digit(NC, i)], Index)
ReduceOnce(d, carry) == reduce(d, carry + check_overflow(d))
(* Faulty variant: the last carry is not looked at.                          *)
ReducedNoCarry(q) == ReduceOnce(SubSeq(q, 1, Limbs), 0)
Reduced(q) == ReduceOnce(SubSeq(q, 1, Limbs), q[Limbs + 1])
reduce_512(l) == Reduced(FoldTop(FoldedTo258(l)))

mul(x, y) == reduce_512(mul_512(x, y))

add(x, y) ==
    LET t == Columns([i \in Index |-> x[i] + y[i]], Index)
        r == SubSeq(t, 1, Limbs)
        overflow == t[Limbs + 1] + check_overflow(r)
    IN  [d |-> reduce(r, overflow), overflow |-> overflow]

is_zero(d) == \A i \in Index : d[i] = 0
Zeroed(d, yes) == IF yes THEN [i \in Index |-> 0] ELSE d
negate(d) == Zeroed(Chain([i \in Index |-> Limb - 1 - d[i] + Order[i] + (IF i = 1 THEN 1 ELSE 0)]), is_zero(d))
cond_negate(d, flag) == [d |-> IF flag = 1 THEN negate(d) ELSE d, returned |-> IF flag = 0 THEN 1 ELSE -1]
is_high(d) == ~AtLeast(NH, d)

(* Faulty variant: adds half of the order without the one.                   *)
halfTooSmall(d) ==
    Chain([i \in Index |-> (d[i] \div 2) + (Digit(d, i + 1) % 2) * (Limb \div 2) + (d[1] % 2) * NH[i]])
half(d) ==
    Chain([i \in Index |-> (d[i] \div 2) + (Digit(d, i + 1) % 2) * (Limb \div 2)
                           + (d[1] % 2) * (NH[i] + (IF i = 1 THEN 1 ELSE 0))])

(* A bit out of range makes it a no-op.                                      *)
cadd_bit(d, bit, flag) ==
    LET b == bit + (IF flag = 1 THEN 0 ELSE Bits)
    IN  Chain([i \in Index |-> d[i] + (IF b \div W = i - 1 THEN 2 ^ (b % W) ELSE 0)])

set_b32(x) ==
    LET d == Digits(x, Limbs)
    IN  [d |-> reduce(d, check_overflow(d)), overflow |-> check_overflow(d)]

get_bits_limb32(d, offset, count) == (d[(offset \div W) + 1] \div 2 ^ (offset % W)) % 2 ^ count
get_bits_var(d, offset, count) ==
    IF (offset + count - 1) \div W = offset \div W THEN get_bits_limb32(d, offset, count)
    ELSE ((d[(offset \div W) + 1] \div 2 ^ (offset % W))
          + Low(d[(offset \div W) + 2] * 2 ^ (W - (offset % W)))) % 2 ^ count

(* Faulty variant: cuts off what is behind the point.                        *)
Shifted(l, shift) ==
    LET limbs == shift \div W
        low == shift % W
        After(i) == IF i <= 2 * Limbs /\ low # 0 THEN Low(l[i] * 2 ^ (W - low)) ELSE 0
    IN  [i \in Index |-> IF i + limbs <= 2 * Limbs THEN (l[i + limbs] \div 2 ^ low) + After(i + limbs + 1) ELSE 0]
mul_shift_varCut(x, y, shift) == Shifted(mul_512(x, y), shift)
mul_shift_var(x, y, shift) ==
    LET l == mul_512(x, y)
    IN  cadd_bit(Shifted(l, shift), 0, get_bits_limb32(l, shift - 1, 1))

split_128(d) == << [i \in Index |-> IF i <= Half THEN d[i] ELSE 0], [i \in Index |-> Digit(d, i + Half) * (IF i <= Half THEN 1 ELSE 0)] >>

(* Multiplication by g1 and g2 estimates the division by n.                  *)
SplitShift == 3 * (Bits \div 2)
Rounded(x) ==
    LET BringDown(s, k) == [q |-> s.q * Limb + (s.rest * Limb) \div n, rest |-> (s.rest * Limb) % n]
        s == FoldLeft(BringDown, [q |-> 0, rest |-> x], [k \in 1 .. SplitShift \div W |-> k])
    IN  s.q + (IF 2 * s.rest >= n THEN 1 ELSE 0)
g1 == Digits(Rounded(b2), Limbs)
g2 == Digits(Rounded(minus_b1), Limbs)
split_lambda(k) ==
    LET c1 == mul(mul_shift_var(k, g1, SplitShift), Digits(minus_b1, Limbs))
        c2 == mul(mul_shift_var(k, g2, SplitShift), Digits(n - b2, Limbs))
        With(r2) == <<add(negate(mul(r2, Digits(lambda, Limbs))), k).d, r2>>
    IN  With(add(c1, c2).d)

-----------------------------------------------------------------------------
VARIABLES
    r,       \* a scalar
    v,       \* what it stands for
    out,     \* what the operation returned beside it, and ought to have
    ops

vars == <<r, v, out, ops>>

Init == r = Digits(0, Limbs) /\ v = 0 /\ out = <<0, 0>> /\ ops = 0

Set(d, value, returned, right) ==
    /\ ops < MaxOps /\ ops' = ops + 1
    /\ r' = d /\ v' = value /\ out' = <<returned, right>>

Flag(b) == IF b THEN 1 ELSE 0

Load == ops = 0 /\ \E x \in Starts : LET s == set_b32(x) IN Set(s.d, x % n, s.overflow, Flag(x >= n))
Add == \E y \in Inputs : LET s == add(r, set_b32(y).d) IN
          Set(s.d, (v + (y % n)) % n, s.overflow, Flag(v + (y % n) >= n))
Mul == \E y \in Inputs : Set(mul(r, set_b32(y).d), Times(v, y % n), 0, 0)
Negate == Set(negate(r), (n - v) % n, 0, 0)
CondNegate == \E flag \in 0 .. 1 :
                LET c == cond_negate(r, flag)
                IN  Set(c.d, IF flag = 1 THEN (n - v) % n ELSE v, c.returned, 1 - 2 * flag)
HalfOf == Set(half(r), IF v % 2 = 0 THEN v \div 2 ELSE (v + n) \div 2, Flag(is_high(r)), Flag(2 * v > n))
CaddBit == \E bit \in 0 .. Bits - 1, flag \in 0 .. 1 :
              /\ v + flag * 2 ^ bit < n
              /\ Set(cadd_bit(r, bit, flag), v + flag * 2 ^ bit, 0, 0)
GetBits == \E offset \in 0 .. Bits - 1, count \in 1 .. W :
              /\ offset + count <= Bits
              /\ Set(r, v, get_bits_var(r, offset, count), (v \div 2 ^ offset) % 2 ^ count)
Split128 == \E i \in 1 .. 2 : Set(split_128(r)[i], IF i = 1 THEN v % 2 ^ (Bits \div 2) ELSE v \div 2 ^ (Bits \div 2), 0, 0)

Next == Load \/ Add \/ Mul \/ Negate \/ CondNegate \/ HalfOf \/ CaddBit \/ GetBits \/ Split128

Spec == Init /\ [][Next]_vars

-----------------------------------------------------------------------------
(* Scalars are always reduced, stand for the right number and come with the  *)
(* right flag, so that no accumulator and no dropped carry was too small.    *)
ScalarsRight == r = Digits(v, Limbs) /\ v < n /\ out[1] = out[2]

(* The split of any scalar has both parts, or their negations, within the    *)
(* bounds proved in scalar_impl.h:181-285, and adds up to it.                *)
Size(d) == Min({Value(d), Value(negate(d))})
SplitShort ==
    \A s \in {split_lambda(r)} :
        /\ (Value(s[1]) + Times(Value(s[2]), lambda)) % n = v
        /\ 2 * Size(s[1]) < a1 + a2 + 1 /\ 2 * Size(s[2]) < minus_b1 + b2 + 2
        /\ {Size(s[1]), Size(s[2])} \subseteq 0 .. 2 ^ (Bits \div 2) - 1
=============================================================================
