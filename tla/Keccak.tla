------------------------------- MODULE Keccak -------------------------------
(***************************************************************************)
(* The incremental sponge of fips202.c: keccak_inc_init, _absorb,          *)
(* _finalize, _squeeze.  The permutation is abstract: what matters is      *)
(* which byte of the message is xored where between two permutations, and  *)
(* which byte of which permuted state comes out.  Message bytes are        *)
(* numbered from 1; a position of the state holds the set of what has been *)
(* xored there since the last permutation.                                 *)
(***************************************************************************)
EXTENDS Integers, Sequences

CONSTANTS
    r,           \* rate in bytes
    MaxBytes,    \* bound: bytes absorbed
    MaxOut       \* bound: bytes squeezed

ASSUME KeccakAssumption == r \in Nat /\ r > 0 /\ MaxBytes \in Nat /\ MaxOut \in Nat

PadByte == -1     \* the domain separation byte p
EndBit == -2      \* the bit 128 of the last byte

Positions == 0 .. r - 1
Zero == [p \in Positions |-> {}]

VARIABLES
    base,     \* what each permutation so far was applied to
    cur,      \* what has been xored in since
    s25,      \* s_inc[25]: bytes xored in, or bytes left to squeeze
    given,    \* message bytes that calls have passed
    taken,    \* message bytes that have been xored in
    perms,    \* permutations of the squeezing phase
    want,     \* bytes the running squeeze still owes
    out,      \* what has come out: the permutation and the position of each byte
    mode      \* "ready", "absorb", "squeeze"

vars == <<base, cur, s25, given, taken, perms, want, out, mode>>

Flip(S, T) == (S \ T) \cup (T \ S)
XorIn(state, S, what(_)) == [p \in Positions |-> IF p \in S THEN Flip(state[p], {what(p)}) ELSE state[p]]
Least(a, b) == IF a <= b THEN a ELSE b

Rest == given - taken
ByteAt(p) == taken + 1 + p - s25       \* the message byte that goes to position p

Init ==
    /\ base = <<>> /\ cur = Zero /\ s25 = 0 /\ given = 0 /\ taken = 0
    /\ perms = 0 /\ want = 0 /\ out = <<>> /\ mode = "ready"

Absorb(mlen) ==
    /\ mode = "ready" /\ given + mlen <= MaxBytes
    /\ given' = given + mlen /\ mode' = "absorb"
    /\ UNCHANGED <<base, cur, s25, taken, perms, want, out>>

(* Faulty variant: waits for one byte more than a block.                     *)
BlockReadyLate == Rest + s25 > r
BlockReady == Rest + s25 >= r

AbsorbBlock ==
    /\ mode = "absorb" /\ BlockReady
    /\ base' = Append(base, XorIn(cur, s25 .. r - 1, ByteAt))
    /\ cur' = Zero
    /\ taken' = taken + (r - s25)
    /\ s25' = 0
    /\ UNCHANGED <<given, perms, want, out, mode>>

(* Faulty variant: forgets the bytes of the call before.                     *)
TailLengthOnly == Rest
TailLength == s25 + Rest

AbsorbTail ==
    /\ mode = "absorb" /\ ~BlockReady
    /\ cur' = XorIn(cur, s25 .. s25 + Rest - 1, ByteAt)
    /\ s25' = TailLength
    /\ taken' = given
    /\ mode' = "ready"
    /\ UNCHANGED <<base, given, perms, want, out>>

Padded(state, n) == XorIn(XorIn(state, {n}, LAMBDA p : PadByte), {r - 1}, LAMBDA p : EndBit)

Finalize ==
    /\ mode = "ready"
    /\ cur' = Padded(cur, s25)
    /\ s25' = 0
    /\ mode' = "squeeze"
    /\ UNCHANGED <<base, given, taken, perms, want, out>>

(* Faulty variant: hands out the start of the state again.                   *)
LeftoverFromStart == 0
Leftover == r - s25

(* The bytes that sit around come first.                                     *)
Squeeze(outlen) ==
    /\ mode = "squeeze" /\ want = 0 /\ Len(out) + outlen <= MaxOut
    /\ LET n == Least(outlen, s25)
       IN  /\ out' = out \o [k \in 1 .. n |-> <<perms, Leftover + k - 1>>]
           /\ s25' = s25 - n
           /\ want' = outlen - n
    /\ UNCHANGED <<base, cur, given, taken, perms, mode>>

SqueezeBlock ==
    /\ want > 0
    /\ LET n == Least(want, r)
       IN  /\ out' = out \o [k \in 1 .. n |-> <<perms + 1, k - 1>>]
           /\ s25' = r - n
           /\ want' = want - n
    /\ perms' = perms + 1
    /\ UNCHANGED <<base, cur, given, taken, mode>>

Next ==
    \/ \E mlen \in 0 .. MaxBytes : Absorb(mlen)
    \/ AbsorbBlock \/ AbsorbTail \/ Finalize
    \/ \E outlen \in 1 .. MaxOut : Squeeze(outlen)
    \/ SqueezeBlock

Spec == Init /\ [][Next]_vars

-----------------------------------------------------------------------------
(* The values of the state: counters, and what was xored where.              *)
Items == {PadByte, EndBit} \cup 1 .. MaxBytes
States == [Positions -> SUBSET Items]
TypeOK ==
    /\ base \in Seq(States) /\ cur \in States
    /\ s25 \in 0 .. r /\ given \in 0 .. MaxBytes /\ taken \in 0 .. given
    /\ perms \in Nat /\ want \in Nat
    /\ out \in Seq(Nat \X Positions)
    /\ mode \in {"ready", "absorb", "squeeze"}

(* Message byte i ends up where the padded message has it, however the calls *)
(* cut the message: what the one-shot keccak_absorb does (fips202.c:346-380,  *)
(* 432-460).  Between calls a block is never full, so that there is room for *)
(* the padding byte (the comment at fips202.c:456-457).                      *)
FullBlock(b) == [p \in Positions |-> {b * r + p + 1}]
LastBlock(n) ==
    [p \in Positions |->
        (IF p < n % r THEN {n - (n % r) + p + 1} ELSE IF p = n % r THEN {PadByte} ELSE {})
        \cup (IF p = r - 1 THEN {EndBit} ELSE {})]
AbsorbedInOrder ==
    /\ mode = "ready" => s25 < r
    /\ mode = "squeeze" =>
        /\ base = [b \in 1 .. given \div r |-> FullBlock(b - 1)]
        /\ cur = LastBlock(given)

(* The bytes that come out are the stream of the rate part of one state      *)
(* after the other, each byte once, however the calls cut it (fips202.c:      *)
(* 480-515).                                                                 *)
StreamInOrder == \A k \in 1 .. Len(out) : out[k] = <<1 + ((k - 1) \div r), (k - 1) % r>>

(* Both halves: what goes in and what comes out are those of the one-shot    *)
(* sponge, wherever the calls are cut.                                       *)
SpongeInOrder == AbsorbedInOrder /\ StreamInOrder
=============================================================================
