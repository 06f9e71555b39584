------------------------------- MODULE Group --------------------------------
(***************************************************************************)
(* The arithmetic every protocol of the library is built on: scalars       *)
(* modulo the group order, and points.  As in the repository's exhaustive  *)
(* tests (scalar_low_impl.h) the group is small and cyclic; a point is     *)
(* represented by its discrete logarithm to the generator, so the point at *)
(* infinity is 0, the generator 1, and adding points adds logarithms.      *)
(*                                                                         *)
(* What a curve adds to that is the Y coordinate: exactly one of a point   *)
(* and its negation has an odd one, and the two share the X coordinate,    *)
(* which is represented by the point of the pair whose Y is even.          *)
(***************************************************************************)
EXTENDS Integers

CONSTANTS
    N,          \* the order of the group
    OddPoints   \* the points whose Y coordinate is odd

Scalars == 0 .. N - 1
Infinity == 0
G == 1
Points == Scalars \ {Infinity}

ASSUME GroupAssumption ==
    /\ N \in Nat /\ N > 2
    /\ OddPoints \subseteq Points
    /\ \A p \in Points : p \in OddPoints <=> N - p \notin OddPoints

scalar_add(a, b) == (a + b) % N

scalar_negate(a) == IF a = 0 THEN 0 ELSE N - a
scalar_mul(a, b) == (a * b) % N

(* A 32-byte string is a number, which may be above the order.               *)
scalar_set_b32(b) == b % N
Overflows(b) == b >= N
scalar_set_b32_seckey(b) == ~Overflows(b) /\ b # 0

(* A loop that adds term[1], ..., term[n] to what it starts with.            *)
Total(start, term, n) ==
    LET sum[i \in 0 .. n] == IF i = 0 THEN start ELSE scalar_add(sum[i - 1], term[i])
    IN  sum[n]

ge_neg(p) == scalar_negate(p)
gej_add(p, q) == scalar_add(p, q)

(* secp256k1_ecmult: na * a + ng * G. *)
ecmult(a, na, ng) == scalar_add(scalar_mul(na, a), ng)

fe_is_odd_y(p) == p \in OddPoints

(* secp256k1_extrakeys_ge_even_y: the point it leaves, and its return value. *)
even_y(p) == IF fe_is_odd_y(p) THEN ge_neg(p) ELSE p
X(p) == even_y(p)

(* secp256k1_eckey_pubkey_tweak_add fails when the sum is infinity. *)
pubkey_tweak_add(key, tweak) == ecmult(key, 1, tweak)
TweakFails(key, tweak) == pubkey_tweak_add(key, tweak) = Infinity
=============================================================================
