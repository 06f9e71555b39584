------------------------------- MODULE Int128 -------------------------------
(***************************************************************************)
(* Integers of two words, for compilers without a type for them:           *)
(* src/int128_struct_impl.h. A word has 2 * H bits. n holds an unsigned or *)
(* a signed integer; value is what it stands for.                          *)
(***************************************************************************)
EXTENDS Integers

CONSTANT H     \* half the bits of a word: 32 in the code

Half == 2 ^ H
Word == Half ^ 2
Bits == 4 * H
Low(a) == a % Half
High(a) == a \div Half
Unsigned == 0 .. Word - 1
Int64 == -(Word \div 2) .. Word \div 2 - 1
Signed(w) == IF w >= Word \div 2 THEN w - Word ELSE w
Pair(hi, lo) == [hi |-> hi % Word, lo |-> lo % Word]

Int128Assumption == H \in Nat \ {0}

(* Four products of half words. A signed factor is cut by an arithmetic      *)
(* shift into a signed upper and an unsigned lower half, so that the same    *)
(* lines serve both. Faulty variant: the middle keeps only half a word.      *)
umul128NoCarry(a, b) ==
    LET ll == Low(a) * Low(b)
        lh == Low(a) * High(b)
        hl == High(a) * Low(b)
        mid34 == (High(ll) + Low(lh) + Low(hl)) % Half
    IN  Pair(High(a) * High(b) + High(lh) + High(hl) + High(mid34), mid34 * Half + Low(ll))
umul128(a, b) ==
    LET ll == Low(a) * Low(b)
        lh == Low(a) * High(b)
        hl == High(a) * Low(b)
        mid34 == High(ll) + Low(lh) + Low(hl)
    IN  Pair(High(a) * High(b) + High(lh) + High(hl) + High(mid34), mid34 * Half + Low(ll))
mul128(a, b) == umul128(a, b)

Carry(lo, added) == IF lo < added THEN 1 ELSE 0
accum(n, m) ==
    LET lo == (n.lo + m.lo) % Word
    IN  Pair(n.hi + m.hi + Carry(lo, m.lo), lo)
dissip(n, m) == Pair(n.hi - (m.hi + Carry(n.lo, m.lo)), n.lo - m.lo)

u128_rshift(n, k) ==
    IF k >= 2 * H THEN Pair(0, n.hi \div 2 ^ (k - 2 * H))
    ELSE IF k > 0 THEN Pair(n.hi \div 2 ^ k, n.hi * 2 ^ (2 * H - k) + n.lo \div 2 ^ k)
    ELSE n
i128_rshift(n, k) ==
    IF k >= 2 * H THEN Pair(Signed(n.hi) \div (Word \div 2), Signed(n.hi) \div 2 ^ (k - 2 * H))
    ELSE IF k > 0 THEN Pair(Signed(n.hi) \div 2 ^ k, n.hi * 2 ^ (2 * H - k) + n.lo \div 2 ^ k)
    ELSE n

u128_check_bits(n, k) ==
    IF k >= 2 * H THEN n.hi \div 2 ^ (k - 2 * H) = 0 ELSE n.hi = 0 /\ n.lo \div 2 ^ k = 0
i128_check_pow2(n, k, sign) ==
    IF k >= 2 * H THEN n = Pair(sign * 2 ^ (k - 2 * H), 0)
    ELSE n = Pair(sign \div 2, sign * 2 ^ k)

-----------------------------------------------------------------------------
VARIABLES n, signed, value

vars == <<n, signed, value>>

InRange == IF signed THEN -(Word ^ 2 \div 2) .. Word ^ 2 \div 2 - 1 ELSE 0 .. Word ^ 2 - 1

Init == signed \in BOOLEAN /\ n = Pair(0, 0) /\ value = 0

Becomes(m, v) == n' = m /\ value' = v /\ UNCHANGED signed

(* Unsigned sums wrap around.                                                *)
u128 ==
    /\ ~signed
    /\ \/ \E hi \in Unsigned, lo \in Unsigned : Becomes(Pair(hi, lo), hi * Word + lo)
       \/ \E a \in Unsigned, b \in Unsigned :
            \/ Becomes(umul128(a, b), a * b)
            \/ Becomes(accum(n, umul128(a, b)), (value + a * b) % Word ^ 2)
       \/ \E a \in Unsigned :
            \/ Becomes(accum(n, Pair(0, a)), (value + a) % Word ^ 2)
            \/ Becomes(Pair(0, a), a)
       \/ \E k \in 0 .. Bits - 1 : Becomes(u128_rshift(n, k), value \div 2 ^ k)

(* Signed ones must not overflow.                                            *)
i128 ==
    /\ signed
    /\ \/ \E hi \in Int64, lo \in Unsigned : Becomes(Pair(hi, lo), hi * Word + lo)
       \/ \E a \in Int64, b \in Int64 :
            \/ Becomes(mul128(a, b), a * b)
            \/ value + a * b \in InRange /\ Becomes(accum(n, mul128(a, b)), value + a * b)
            \/ value - a * b \in InRange /\ Becomes(dissip(n, mul128(a, b)), value - a * b)
       \/ \E a \in Int64 : Becomes(Pair(a \div (Word \div 2), a), a)
       \/ \E k \in 0 .. Bits - 1 : Becomes(i128_rshift(n, k), value \div 2 ^ k)

Next == u128 \/ i128

Spec == Init /\ [][Next]_vars

-----------------------------------------------------------------------------
(* Products, sums with their carries and shifts over both words come out     *)
(* right, two words are the same number only if they are equal, and the      *)
(* checks of VERIFY builds hold for exactly the numbers they are for.        *)
Int128Right ==
    /\ value \in InRange
    /\ n = Pair(value \div Word, value)
    /\ ~signed => \A k \in 0 .. Bits - 1 : u128_check_bits(n, k) <=> value < 2 ^ k
    /\ signed => \A k \in 0 .. Bits - 2, sign \in {-1, 1} :
                   i128_check_pow2(n, k, sign) <=> value = sign * 2 ^ k
=============================================================================
