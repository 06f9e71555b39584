-------------------------------- MODULE Wnaf --------------------------------
(***************************************************************************)
(* The two digit expansions of scalars in src/ecmult_impl.h: the sliding   *)
(* window of ecmult_wnaf (Strauss) and the fixed windows of wnaf_fixed     *)
(* (Pippenger).  A scalar is its value, arrays are functions from 0.       *)
(***************************************************************************)
EXTENDS Integers, SequencesExt

Bits(s, pos, count) == (s \div 2 ^ pos) % 2 ^ count
Odd(k) == k % 2 = 1

(* sum(2^i * digit[i]) over a set of positions, 2^(step * i) for windows.    *)
Weighted(digit, positions, step) ==
    LET term(i, acc) == digit[i] * 2 ^ (step * i) + acc
    IN  FoldSet(term, 0, positions)

-----------------------------------------------------------------------------
(* Faulty variant: keeps the old carry over a window. *)
WnafStepNoBorrow(t, s, sign, len, w) ==
    IF Bits(s, t.bit, 1) = t.carry
    THEN [t EXCEPT !.bit = @ + 1]
    ELSE LET now == IF w > len - t.bit THEN len - t.bit ELSE w
             word == Bits(s, t.bit, now) + t.carry
         IN  [bit |-> t.bit + now, carry |-> 0, last |-> t.bit,
              wnaf |-> [t.wnaf EXCEPT ![t.bit] = sign * word]]

(* One round of ecmult_wnaf's loop: skip a bit, or read a window.            *)
WnafStep(t, s, sign, len, w) ==
    IF Bits(s, t.bit, 1) = t.carry
    THEN [t EXCEPT !.bit = @ + 1]
    ELSE LET now == IF w > len - t.bit THEN len - t.bit ELSE w
             word == Bits(s, t.bit, now) + t.carry
             carry == Bits(word, w - 1, 1)
         IN  [bit |-> t.bit + now, carry |-> carry, last |-> t.bit,
              wnaf |-> [t.wnaf EXCEPT ![t.bit] = sign * (word - carry * 2 ^ w)]]

(* ecmult_wnaf of the value s with its sign: the digits, how many are set,   *)
(* and the carry, which a VERIFY build checks to be 0 in the end.            *)
ecmult_wnaf(s, sign, len, w) ==
    LET round(t, k) == IF t.bit < len THEN WnafStep(t, s, sign, len, w) ELSE t
        start == [bit |-> 0, carry |-> 0, last |-> -1, wnaf |-> [i \in 0 .. len - 1 |-> 0]]
        end == FoldLeft(round, start, [k \in 1 .. len |-> k])
    IN  [wnaf |-> end.wnaf, bits |-> end.last + 1, carry |-> end.carry]

(* What its comment promises (ecmult_impl.h:157-163).                        *)
WnafSound(d, s, sign, len, w) ==
    /\ d.carry = 0
    /\ Weighted(d.wnaf, 0 .. d.bits - 1, 1) = sign * s
    /\ \A i \in 0 .. len - 1 : d.wnaf[i] # 0 =>
         /\ i < d.bits
         /\ Odd(d.wnaf[i]) /\ d.wnaf[i] \in 1 - 2 ^ (w - 1) .. 2 ^ (w - 1) - 1
         /\ \A j \in i + 1 .. i + w - 1 : j < len => d.wnaf[j] = 0
    /\ d.bits > 1 => s >= 2 ^ (d.bits - 2)

-----------------------------------------------------------------------------
WindowCount(bits, w) == (bits + w - 1) \div w      \* WNAF_SIZE_BITS

(* Faulty variant: no collapse of a 1 next to a digit of the other sign, but *)
(* the digit below is changed all the same.                                  *)
FixedCollapseHalf(d, pos, w) ==
    IF pos >= 2 /\ d[pos - 1] = 1 /\ d[pos - 2] < 0
    THEN [d EXCEPT ![pos - 2] = @ + 2 ^ w]
    ELSE d

(* A digit 1 or -1 above a digit of the other sign is folded into it.        *)
FixedCollapse(d, pos, w) ==
    IF pos >= 2 /\ d[pos - 1] = 1 /\ d[pos - 2] < 0
    THEN [d EXCEPT ![pos - 2] = @ + 2 ^ w, ![pos - 1] = 0]
    ELSE IF pos >= 2 /\ d[pos - 1] = -1 /\ d[pos - 2] > 0
    THEN [d EXCEPT ![pos - 2] = @ - 2 ^ w, ![pos - 1] = 0]
    ELSE d

(* One round of wnaf_fixed: an even window borrows from the one below.       *)
FixedStep(d, val, pos, w) ==
    FixedCollapse(IF Odd(val) THEN [d EXCEPT ![pos] = val]
                  ELSE [d EXCEPT ![pos - 1] = @ - 2 ^ w, ![pos] = val + 1],
                  pos, w)

(* wnaf_fixed: windows above the highest nonzero one stay 0.                 *)
wnaf_fixed(s, bits, w) ==
    LET size == WindowCount(bits, w)
        last_w == bits - (size - 1) * w
        val(pos) == Bits(s, pos * w, IF pos = size - 1 THEN last_w ELSE w)
        skew == IF s # 0 /\ ~Odd(s) THEN 1 ELSE 0
        max_pos == Max({0} \cup {pos \in 1 .. size - 1 : val(pos) # 0})
        start == [pos \in 0 .. size - 1 |-> IF pos = 0 THEN Bits(s, 0, w) + skew ELSE 0]
        round(d, pos) == FixedStep(d, val(pos), pos, w)
    IN  [wnaf |-> IF s = 0 THEN [pos \in 0 .. size - 1 |-> 0]
                  ELSE FoldLeft(round, start, [pos \in 1 .. max_pos |-> pos]),
         skew |-> skew]

(* What its comment promises (ecmult_impl.h:430-436).                        *)
FixedSound(d, s, bits, w) ==
    /\ Weighted(d.wnaf, DOMAIN d.wnaf, w) - d.skew = s
    /\ \A pos \in DOMAIN d.wnaf :
         d.wnaf[pos] # 0 => Odd(d.wnaf[pos]) /\ d.wnaf[pos] \in 1 - 2 ^ w .. 2 ^ w - 1
=============================================================================
