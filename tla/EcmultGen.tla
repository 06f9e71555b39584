----------------------------- MODULE EcmultGen ------------------------------
(***************************************************************************)
(* Contexts (src/secp256k1.c) and what is in them: the multiplication of   *)
(* the generator (src/ecmult_gen_impl.h) with the table of the signed-digit *)
(* comb, the comb, and the blinding that secp256k1_context_randomize       *)
(* renews at any time.  Curve points are represented by their logarithms   *)
(* (module Group).  The projective blinding factor only rescales           *)
(* coordinates and is left out, as are the functions that a context points *)
(* to: callbacks and the compression of SHA-256.                           *)
(***************************************************************************)
EXTENDS Group

CONSTANTS
    COMB_RANGE,     \* bits of a scalar, 256
    COMB_BLOCKS,
    COMB_TEETH,
    Contexts,       \* bound: places for a context
    BlindOutputs    \* bound: what the generator seeded for a blinding yields

Pow2[k \in Nat] == IF k = 0 THEN 1 ELSE 2 * Pow2[k - 1]
Bit(d, k) == (d \div Pow2[k]) % 2

ASSUME CombAssumption ==
    /\ {COMB_RANGE, COMB_BLOCKS, COMB_TEETH} \subseteq Nat \ {0}
    /\ N <= Pow2[COMB_RANGE] /\ N % 2 = 1
    /\ BlindOutputs \subseteq Scalars

COMB_SPACING == (COMB_RANGE + COMB_BLOCKS * COMB_TEETH - 1) \div (COMB_BLOCKS * COMB_TEETH)
COMB_BITS == COMB_BLOCKS * COMB_TEETH * COMB_SPACING
COMB_POINTS == Pow2[COMB_TEETH - 1]

VARIABLE
    ctx     \* at each place: whose memory it is, and the ecmult_gen_context

Cleared == [built |-> FALSE, scalar_offset |-> 0, ge_offset |-> Infinity]

-----------------------------------------------------------------------------
(* scalar_half of 1, and the multiples 2^k * G/2 that the table is made of.  *)
Half == (N + 1) \div 2
HalfDoubled(k) == scalar_mul(Pow2[k], Half)
Position(block, tooth) == (block * COMB_TEETH + tooth) * COMB_SPACING

(* Entry k of a block: bit t of k says whether tooth t is added or           *)
(* subtracted; the top tooth is always subtracted.  The table doubles with   *)
(* every other tooth: an earlier entry plus the double of the tooth.         *)
BlockTable(block) ==
    LET sum == Total(Infinity, [t \in 1 .. COMB_TEETH |-> HalfDoubled(Position(block, t - 1))],
                     COMB_TEETH)
        ds(t) == HalfDoubled(Position(block, t) + 1)
        vs[t \in 0 .. COMB_TEETH - 1] ==
            [k \in 0 .. Pow2[t] - 1 |->
                IF t = 0 THEN ge_neg(sum)
                ELSE IF k < Pow2[t - 1] THEN vs[t - 1][k]
                ELSE gej_add(vs[t - 1][k - Pow2[t - 1]], ds(t - 1))]
    IN  vs[COMB_TEETH - 1]

prec_table == [block \in 0 .. COMB_BLOCKS - 1 |-> BlockTable(block)]

(* (2^COMB_BITS - 1) / 2 as a scalar.                                        *)
scalar_diff ==
    LET neghalf == scalar_negate(Half)
    IN  scalar_add(Pow2[COMB_BITS - 1] % N, neghalf)

(* The bits of d under the teeth of a block, the comb shifted by comb_off.   *)
ToothBits(d, block, comb_off) ==
    LET bits[t \in 0 .. COMB_TEETH] ==
            IF t = 0 THEN 0
            ELSE bits[t - 1] + Bit(d, Position(block, t - 1) + comb_off) * Pow2[t - 1]
    IN  bits[COMB_TEETH]

(* Only half of the values are in the table; the rest are negations of the   *)
(* entries with all bits flipped.                                            *)
Lookup(block, bits) ==
    IF Bit(bits, COMB_TEETH - 1) = 1
    THEN ge_neg(prec_table[block][Pow2[COMB_TEETH] - 1 - bits])
    ELSE prec_table[block][bits]

ecmult_gen(gen, gn) ==
    LET d == scalar_add(gen.scalar_offset, gn)
        line(off) == [b \in 1 .. COMB_BLOCKS |-> Lookup(b - 1, ToothBits(d, b - 1, off))]
        comb[k \in 0 .. COMB_SPACING] ==
            IF k = 0 THEN Infinity
            ELSE Total(gej_add(comb[k - 1], comb[k - 1]), line(COMB_SPACING - k), COMB_BLOCKS)
    IN  gej_add(comb[COMB_SPACING], gen.ge_offset)

Reset(gen) ==
    [gen EXCEPT !.ge_offset = ge_neg(G), !.scalar_offset = scalar_add(1, scalar_diff)]
ecmult_gen_context_build == [Reset(Cleared) EXCEPT !.built = TRUE]

(* Faulty variant: the new scalar offset is in place when the point is       *)
(* computed.                                                                 *)
BlindScalarFirst(gen, output) ==
    LET b == IF output = 0 THEN 1 ELSE output
        new == [gen EXCEPT !.scalar_offset = scalar_add(scalar_negate(b), scalar_diff)]
    IN  [new EXCEPT !.ge_offset = ecmult_gen(new, b)]
(* output stands for what the generator yields that is seeded with the seed  *)
(* and the old offset.  The point is computed under the old blinding.        *)
Blind(gen, output) ==
    LET b == IF output = 0 THEN 1 ELSE output
    IN  [gen EXCEPT !.ge_offset = ecmult_gen(gen, b),
                    !.scalar_offset = scalar_add(scalar_negate(b), scalar_diff)]

-----------------------------------------------------------------------------
(* Contexts are made by the library or in memory of the caller, who may also *)
(* copy the static context there. What is refused has no effect but a call   *)
(* of the illegal callback: a clone of a context that is not proper, its     *)
(* randomization, its destruction, and the static context in all of these.   *)
context_is_proper(c) == ctx[c].gen.built
Nowhere == [memory |-> "none", gen |-> Cleared]

GenInit == ctx = [c \in Contexts |-> Nowhere]

MayHold(c, memory) ==
    \/ ctx[c].memory = "none"
    \/ ctx[c].memory = "caller" /\ memory = "caller" /\ ~context_is_proper(c)

Place(c, memory, gen) ==
    /\ MayHold(c, memory)
    /\ ctx' = [ctx EXCEPT ![c] = [memory |-> memory, gen |-> gen]]

Create(c, memory) == Place(c, memory, ecmult_gen_context_build)
Clone(from, c, memory) == context_is_proper(from) /\ Place(c, memory, ctx[from].gen)
CopyStatic(c) == Place(c, "caller", Cleared)

(* With a seed and without.                                                  *)
Randomize(c) ==
    /\ context_is_proper(c)
    /\ \/ ctx' = [ctx EXCEPT ![c].gen = Reset(@)]
       \/ \E output \in BlindOutputs : ctx' = [ctx EXCEPT ![c].gen = Blind(@, output)]

(* Faulty variant: marks the memory as unused and leaves it as it is.        *)
ContextLeft(gen) == [gen EXCEPT !.built = FALSE]
ContextCleared(gen) == Cleared

Destroy(c) ==
    /\ context_is_proper(c)
    /\ ctx' = [ctx EXCEPT ![c] =
                 IF @.memory = "library" THEN Nowhere
                 ELSE [@ EXCEPT !.gen = ContextCleared(@)]]

GenNext ==
    \E c \in Contexts :
        \/ \E memory \in {"library", "caller"} :
            \/ Create(c, memory)
            \/ \E from \in Contexts : Clone(from, c, memory)
        \/ CopyStatic(c)
        \/ Randomize(c)
        \/ Destroy(c)

GenSpec == GenInit /\ [][GenNext]_ctx

-----------------------------------------------------------------------------
(* In every proper context, a clone or not and under every blinding, however *)
(* often it was renewed from the one before, gn times the generator is       *)
(* gn * G; and memory that holds no context keeps no blinding.               *)
BlindingCancels ==
    \A c \in Contexts :
        IF context_is_proper(c)
        THEN \A gn \in Scalars : ecmult_gen(ctx[c].gen, gn) = gn
        ELSE ctx[c].gen = Cleared

(* secp256k1_gej_add_ge cannot add infinity: neither the offset of a context *)
(* in use nor an entry of the table is.                                      *)
NothingInfinite ==
    /\ \A c \in Contexts : context_is_proper(c) => ctx[c].gen.ge_offset # Infinity
    /\ \A b \in 0 .. COMB_BLOCKS - 1, k \in 0 .. COMB_POINTS - 1 : prec_table[b][k] # Infinity
=============================================================================
