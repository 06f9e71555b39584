---------------------------- MODULE SphincsProofs ----------------------------
(***************************************************************************)
(* SPHINCS+, proved for every value of the constants. First what Keccak    *)
(* and Rng say of the bytes they take and hand out, for every block        *)
(* length, every way to cut a stream into calls, and any number of calls.  *)
(* Then what SphincsParallel says of the loops: FORS with any number of    *)
(* trees and threads, and trees of every height over any leaves. Last what *)
(* Sphincs says of signatures: each WOTS key signs one value, and every    *)
(* signature that the signer makes is accepted.                            *)
(***************************************************************************)
EXTENDS Keccak, Rng, SphincsParallel, Sphincs, WellFoundedInduction, SequenceTheorems, TLAPS

(* A byte of a stream of blocks, and the block and the place that it has.    *)
LEMMA PlaceIs ==
    ASSUME NEW b \in Nat \ {0}, NEW q \in Nat, NEW p \in 0 .. b - 1
    PROVE  /\ (b * q + p) \div b = q
           /\ (b * q + p) % b = p
  BY Z3

(* Two sequences, one after the other.                                       *)
LEMMA JoinedIs ==
    ASSUME NEW T, NEW s \in Seq(T), NEW t \in Seq(T)
    PROVE  /\ s \o t \in Seq(T) /\ Len(s \o t) = Len(s) + Len(t)
           /\ \A k \in 1 .. Len(s) + Len(t) : (s \o t)[k] = IF k <= Len(s) THEN s[k] ELSE t[k - Len(s)]
  BY ConcatProperties

-----------------------------------------------------------------------------
(* The sponge. The n blocks that have been permuted, and the s bytes of the  *)
(* next one.                                                                 *)
FullBlocks(n) == [b \in 1 .. n |-> FullBlock(b - 1)]
PartBlock(n, s) == [p \in Positions |-> IF p < s THEN {n * r + p + 1} ELSE {}]

(* While it absorbs, what has been taken is n full blocks and s25 bytes.     *)
Absorbing ==
    mode \in {"ready", "absorb"} =>
        /\ s25 < r /\ perms = 0 /\ want = 0 /\ out = <<>>
        /\ mode = "ready" => taken = given
        /\ \E n \in Nat : /\ taken = n * r + s25
                          /\ base = FullBlocks(n) /\ cur = PartBlock(n, s25)

(* While it squeezes, s25 bytes of the last permutation are left.            *)
Squeezing ==
    mode = "squeeze" =>
        /\ base = FullBlocks(given \div r) /\ cur = LastBlock(given)
        /\ Len(out) + s25 = r * perms
        /\ want > 0 => s25 = 0

SpongeCounters ==
    /\ s25 \in 0 .. r /\ given \in Nat /\ taken \in Nat /\ taken <= given
    /\ perms \in Nat /\ want \in Nat /\ out \in Seq(Nat \X Nat)
    /\ mode \in {"ready", "absorb", "squeeze"}

SpongeInv == SpongeCounters /\ Absorbing /\ Squeezing /\ StreamInOrder

(* One more full block.                                                      *)
LEMMA NextBlock ==
    ASSUME NEW n \in Nat
    PROVE  Append(FullBlocks(n), FullBlock(n)) = FullBlocks(n + 1)
  <1> DEFINE S == {FullBlock(b) : b \in Nat}
  <1>1. FullBlocks(n) \in [1 .. n -> S] /\ FullBlocks(n + 1) \in [1 .. n + 1 -> S] /\ FullBlock(n) \in S
    BY DEF FullBlocks
  <1> HIDE DEF S
  <1>2. FullBlocks(n) \in Seq(S) /\ Len(FullBlocks(n)) = n
    BY <1>1, SeqDef
  <1>3. FullBlocks(n + 1) \in Seq(S) /\ Len(FullBlocks(n + 1)) = n + 1
    BY <1>1, SeqDef
  <1>4. \A b \in 1 .. n + 1 : FullBlocks(n + 1)[b] = FullBlock(b - 1)
    BY DEF FullBlocks
  <1>5. \A b \in 1 .. n : FullBlocks(n)[b] = FullBlock(b - 1)
    BY DEF FullBlocks
  <1> DEFINE more == Append(FullBlocks(n), FullBlock(n))
  <1>6. more \in Seq(S) /\ Len(more) = n + 1 /\ more[n + 1] = FullBlock(n)
        /\ \A b \in 1 .. n : more[b] = FullBlocks(n)[b]
    BY <1>1, <1>2
  <1>7. \A b \in 1 .. n + 1 : more[b] = FullBlocks(n + 1)[b]
    BY <1>4, <1>5, <1>6
  <1> HIDE DEF more
  <1>8. more = FullBlocks(n + 1)
    BY <1>3, <1>6, <1>7, SeqEqual
  <1> QED
    BY <1>8 DEF more

(* Nothing has been taken.                                                   *)
LEMMA NoBlocks == FullBlocks(0) = <<>> /\ PartBlock(0, 0) = Zero
  BY KeccakAssumption DEF FullBlocks, PartBlock, Zero, Positions

(* Message bytes are xored in at the positions S.                            *)
Xored(state, S) == [p \in Positions |-> IF p \in S THEN Flip(state[p], {ByteAt(p)}) ELSE state[p]]

(* Bytes up to e go in after those up to s.                                  *)
LEMMA XorsIn ==
    ASSUME NEW n \in Nat, NEW s \in 0 .. r, NEW e \in 0 .. r, s <= e,
           taken = n * r + s25, s = s25
    PROVE  Xored(PartBlock(n, s), s .. e - 1) = PartBlock(n, e)
  <1>1. \A p \in Positions : ByteAt(p) = n * r + p + 1
    BY KeccakAssumption DEF ByteAt, Positions
  <1> QED
    <2>1. ASSUME NEW p \in Positions
          PROVE  (IF p \in s .. e - 1 THEN Flip(PartBlock(n, s)[p], {ByteAt(p)}) ELSE PartBlock(n, s)[p])
                   = (IF p < e THEN {n * r + p + 1} ELSE {})
      <3>1. p \in Nat /\ ByteAt(p) = n * r + p + 1
        BY <1>1, KeccakAssumption DEF Positions
      <3>2. PartBlock(n, s)[p] = IF p < s THEN {n * r + p + 1} ELSE {}
        BY DEF PartBlock
      <3>3. s \in Nat /\ e \in Nat
        BY KeccakAssumption
      <3> DEFINE b == n * r + p + 1
      <3> HIDE DEF b
      <3>4. CASE p < s
        BY <3>1, <3>2, <3>3, <3>4 DEF b
      <3>5. CASE ~(p < s) /\ p < e
        <4>1. PartBlock(n, s)[p] = {} /\ p \in s .. e - 1 /\ ByteAt(p) = b
          BY <3>1, <3>2, <3>3, <3>5 DEF b
        <4>2. Flip({}, {b}) = {b}
          BY DEF Flip
        <4> QED
          BY <3>5, <4>1, <4>2 DEF b
      <3>6. CASE ~(p < e)
        BY <3>1, <3>2, <3>3, <3>6
      <3> QED
        BY <3>4, <3>5, <3>6
    <2> QED
      BY <2>1 DEF Xored, PartBlock

(* A block that is full.                                                     *)
LEMMA FullIs ==
    ASSUME NEW n \in Nat
    PROVE  PartBlock(n, r) = FullBlock(n) /\ PartBlock(n, 0) = Zero
  BY KeccakAssumption DEF PartBlock, FullBlock, Zero, Positions

(* The padding of a block that is not full.                                  *)
LEMMA PaddedIs ==
    ASSUME NEW n \in Nat, NEW s \in 0 .. r - 1, NEW m \in Nat, m = n * r + s
    PROVE  /\ Padded(PartBlock(n, s), s) = LastBlock(m)
           /\ m \div r = n
  <1>1. m % r = s /\ m \div r = n
    BY KeccakAssumption, PlaceIs
  <1>2. m - (m % r) = n * r
    BY <1>1, KeccakAssumption
  <1>3. \A p \in Positions : n * r + p + 1 # EndBit /\ PadByte # EndBit
    BY KeccakAssumption DEF Positions, EndBit, PadByte
  <1> QED
    BY <1>1, <1>2, <1>3, KeccakAssumption DEF Padded, XorIn, PartBlock, LastBlock, Positions, Flip

-----------------------------------------------------------------------------
(* Before the first call.                                                    *)
LEMMA SpongeStarts == Init => SpongeInv
  <1> SUFFICES ASSUME Init PROVE SpongeInv
    OBVIOUS
  <1>1. /\ base = <<>> /\ cur = Zero /\ s25 = 0 /\ given = 0 /\ taken = 0
        /\ perms = 0 /\ want = 0 /\ out = <<>> /\ mode = "ready"
    BY DEF Init
  <1>2. SpongeCounters
    BY <1>1, KeccakAssumption DEF SpongeCounters
  <1>3. Absorbing
    <2>1. base = FullBlocks(0) /\ cur = PartBlock(0, s25) /\ taken = 0 * r + s25
      BY <1>1, NoBlocks, KeccakAssumption
    <2> QED
      BY <1>1, <2>1, KeccakAssumption DEF Absorbing
  <1> QED
    BY <1>1, <1>2, <1>3 DEF SpongeInv, Squeezing, StreamInOrder

(* The m bytes of a stream of blocks of b bytes, the first one numbered d,   *)
(* and n bytes of block c, from place p on.                                  *)
StreamUpTo(s, b, d, m) ==
    /\ s \in Seq(Nat \X Nat) /\ Len(s) = m
    /\ \A k \in 1 .. m : s[k] = <<d + ((k - 1) \div b), (k - 1) % b>>
PartOf(f, c, p, n) ==
    /\ f \in [1 .. n -> Nat \X Nat]
    /\ \A k \in 1 .. n : f[k] = <<c, p + (k - 1)>>

(* The stream goes on with the n bytes that follow.                          *)
LEMMA StreamGoesOn ==
    ASSUME NEW b \in Nat \ {0}, NEW d \in Nat, NEW m \in Nat, NEW c \in Nat, NEW p \in Nat, NEW n \in Nat,
           p + n <= b, d <= c, m = b * (c - d) + p,
           NEW done, StreamUpTo(done, b, d, m), NEW more, PartOf(more, c, p, n)
    PROVE  StreamUpTo(done \o more, b, d, m + n)
  <1> DEFINE T == Nat \X Nat
             q == c - d
  <1>1. /\ done \in Seq(T) /\ Len(done) = m
        /\ \A k \in 1 .. m : done[k] = <<d + ((k - 1) \div b), (k - 1) % b>>
    BY DEF StreamUpTo
  <1>2. more \in [1 .. n -> T] /\ \A k \in 1 .. n : more[k] = <<d + q, p + (k - 1)>>
    BY DEF PartOf
  <1>9. q \in Nat /\ m = b * q + p
    OBVIOUS
  <1> HIDE DEF T, q
  <1>3. more \in Seq(T) /\ Len(more) = n
    BY <1>2, SeqDef
  <1>4. /\ done \o more \in Seq(T)
        /\ Len(done \o more) = m + n
        /\ \A k \in 1 .. m + n : (done \o more)[k] = IF k <= m THEN done[k] ELSE more[k - m]
    <2>1. done \in Seq(T) /\ more \in Seq(T) /\ Len(done) = m /\ Len(more) = n
      BY <1>1, <1>3
    <2>2. /\ done \o more \in Seq(T) /\ Len(done \o more) = Len(done) + Len(more)
          /\ \A k \in 1 .. Len(done) + Len(more) :
                (done \o more)[k] = IF k <= Len(done) THEN done[k] ELSE more[k - Len(done)]
      BY <2>1, JoinedIs
    <2> QED
      BY <2>1, <2>2
  <1>5. ASSUME NEW k \in 1 .. m + n
        PROVE  (done \o more)[k] = <<d + ((k - 1) \div b), (k - 1) % b>>
    <2>1. CASE k <= m
      <3>1. k \in 1 .. m
        BY <2>1
      <3>2. (done \o more)[k] = done[k]
        BY <1>4, <2>1
      <3> QED
        BY <1>1, <3>1, <3>2
    <2>2. CASE k > m
      <3> DEFINE e == k - m
                 place == p + (e - 1)
      <3>1. e \in 1 .. n /\ k - 1 = b * q + place
        BY <1>9, <2>2
      <3>2. place \in 0 .. b - 1
        BY <3>1
      <3>3. (done \o more)[k] = more[e]
        BY <1>4, <2>2
      <3>4. more[e] = <<d + q, place>>
        BY <1>2, <3>1
      <3> HIDE DEF e, place
      <3>5. (k - 1) \div b = q /\ (k - 1) % b = place
        <4>1. (b * q + place) \div b = q /\ (b * q + place) % b = place
          BY ONLY b \in Nat \ {0}, <1>9, <3>2, PlaceIs, ZenonT(30)
        <4> QED
          BY <3>1, <4>1, ZenonT(30)
      <3> QED
        BY <3>3, <3>4, <3>5
    <2>3. k <= m \/ k > m
      OBVIOUS
    <2> QED
      BY <2>1, <2>2, <2>3
  <1> QED
    BY <1>4, <1>5 DEF StreamUpTo, T

(* Every step of a call keeps the invariant.                                 *)
LEMMA SpongeSteps == SpongeInv /\ [Next]_vars => SpongeInv'
  <1> SUFFICES ASSUME SpongeInv, [Next]_vars
               PROVE  SpongeInv'
    OBVIOUS
  <1>1. SpongeCounters /\ Absorbing /\ Squeezing /\ StreamInOrder /\ r \in Nat \ {0}
    BY KeccakAssumption DEF SpongeInv
  <1>2. ASSUME NEW mlen \in 0 .. MaxBytes, Absorb(mlen)
        PROVE  SpongeInv'
    <2>1. /\ mode = "ready" /\ mode' = "absorb" /\ given' = given + mlen /\ mlen \in Nat
          /\ UNCHANGED <<base, cur, s25, taken, perms, want, out>>
      BY <1>2, KeccakAssumption DEF Absorb
    <2>2. SpongeCounters'
      BY <1>1, <2>1 DEF SpongeCounters
    <2>3. Absorbing'
      BY <1>1, <2>1 DEF Absorbing
    <2> QED
      BY <1>1, <2>1, <2>2, <2>3 DEF SpongeInv, Squeezing, StreamInOrder
  <1>3. CASE AbsorbBlock
    <2>1. /\ mode = "absorb" /\ (given - taken) + s25 >= r
          /\ base' = Append(base, Xored(cur, s25 .. r - 1)) /\ cur' = Zero
          /\ taken' = taken + (r - s25) /\ s25' = 0
          /\ UNCHANGED <<given, perms, want, out, mode>>
      BY <1>3 DEF AbsorbBlock, BlockReady, Rest, XorIn, Xored
    <2>2. PICK n \in Nat : taken = n * r + s25 /\ base = FullBlocks(n) /\ cur = PartBlock(n, s25)
      BY <1>1, <2>1 DEF Absorbing
    <2>3. s25 \in 0 .. r /\ taken \in Nat /\ given \in Nat
      BY <1>1 DEF SpongeCounters
    <2>4. Xored(cur, s25 .. r - 1) = FullBlock(n)
      BY <1>1, <2>2, <2>3, XorsIn, FullIs
    <2>5. base' = FullBlocks(n + 1) /\ cur' = PartBlock(n + 1, s25')
      <3>1. base' = FullBlocks(n + 1)
        BY <2>1, <2>2, <2>4, NextBlock
      <3>2. n + 1 \in Nat /\ s25' = 0 /\ cur' = Zero
        BY <2>1
      <3> QED
        BY <3>1, <3>2, FullIs
    <2>6. taken' = (n + 1) * r + s25' /\ taken' <= given /\ taken' \in Nat
      BY <1>1, <2>1, <2>2, <2>3, Z3
    <2>7. SpongeCounters'
      BY <1>1, <2>1, <2>6 DEF SpongeCounters
    <2>8. Absorbing'
      BY <1>1, <2>1, <2>5, <2>6 DEF Absorbing
    <2> QED
      BY <1>1, <2>1, <2>7, <2>8 DEF SpongeInv, Squeezing, StreamInOrder
  <1>4. CASE AbsorbTail
    <2> DEFINE e == s25 + Rest
    <2>0. s25 \in 0 .. r /\ taken \in Nat /\ given \in Nat /\ taken <= given /\ e = s25 + (given - taken)
      BY <1>1 DEF SpongeCounters, Rest
    <2>1. /\ mode = "absorb" /\ ~((given - taken) + s25 >= r)
          /\ cur' = Xored(cur, s25 .. e - 1)
          /\ s25' = e /\ taken' = given /\ mode' = "ready"
          /\ UNCHANGED <<base, given, perms, want, out>>
      <3>1. mode = "absorb" /\ ~BlockReady /\ s25' = TailLength /\ taken' = given /\ mode' = "ready"
        BY <1>4 DEF AbsorbTail
      <3>2. UNCHANGED <<base, given, perms, want, out>>
        BY <1>4 DEF AbsorbTail
      <3>3. cur' = Xored(cur, s25 .. s25 + Rest - 1)
        BY <1>4 DEF AbsorbTail, XorIn, Xored
      <3>4. s25 + Rest - 1 = e - 1
        BY <2>0 DEF Rest
      <3> QED
        BY <3>1, <3>2, <3>3, <3>4 DEF BlockReady, TailLength, Rest
    <2>2. PICK n \in Nat : taken = n * r + s25 /\ base = FullBlocks(n) /\ cur = PartBlock(n, s25)
      BY <1>1, <2>1 DEF Absorbing
    <2>3. s25 \in 0 .. r /\ taken \in Nat /\ given \in Nat /\ taken <= given
      BY <1>1 DEF SpongeCounters
    <2>4. e \in 0 .. r - 1 /\ s25 <= e
      BY <1>1, <2>0, <2>1
    <2>5. given = n * r + e
      BY <1>1, <2>0, <2>2
    <2> HIDE DEF e
    <2>6. cur' = PartBlock(n, e)
      BY <1>1, <2>1, <2>2, <2>3, <2>4, XorsIn
    <2>7. SpongeCounters'
      BY <1>1, <2>1, <2>3, <2>4 DEF SpongeCounters
    <2>8. Absorbing'
      BY <1>1, <2>1, <2>2, <2>4, <2>5, <2>6 DEF Absorbing
    <2> QED
      BY <1>1, <2>1, <2>7, <2>8 DEF SpongeInv, Squeezing, StreamInOrder
  <1>5. CASE Finalize
    <2>1. /\ mode = "ready" /\ cur' = Padded(cur, s25) /\ s25' = 0 /\ mode' = "squeeze"
          /\ UNCHANGED <<base, given, taken, perms, want, out>>
      BY <1>5 DEF Finalize
    <2>2. taken = given /\ s25 < r /\ perms = 0 /\ want = 0 /\ out = <<>>
      BY <1>1, <2>1 DEF Absorbing
    <2>3. PICK n \in Nat : taken = n * r + s25 /\ base = FullBlocks(n) /\ cur = PartBlock(n, s25)
      BY <1>1, <2>1 DEF Absorbing
    <2>4. given \in Nat /\ s25 \in 0 .. r - 1
      BY <1>1, <2>2 DEF SpongeCounters
    <2>5. cur' = LastBlock(given) /\ given \div r = n
      BY <2>1, <2>2, <2>3, <2>4, PaddedIs
    <2>6. SpongeCounters'
      BY <1>1, <2>1 DEF SpongeCounters
    <2>7. Squeezing'
      BY <1>1, <2>1, <2>2, <2>3, <2>5 DEF Squeezing
    <2> QED
      BY <1>1, <2>1, <2>6, <2>7 DEF SpongeInv, Absorbing, StreamInOrder
  <1>6. ASSUME NEW outlen \in 1 .. MaxOut, Squeeze(outlen)
        PROVE  SpongeInv'
    <2> DEFINE n == Least(outlen, s25)
               more == [k \in 1 .. n |-> <<perms, (r - s25) + k - 1>>]
    <2>1. /\ mode = "squeeze" /\ want = 0
          /\ out' = out \o more /\ s25' = s25 - n /\ want' = outlen - n
          /\ UNCHANGED <<base, cur, given, taken, perms, mode>>
      BY <1>6 DEF Squeeze, Leftover
    <2>2. /\ s25 \in 0 .. r /\ perms \in Nat /\ outlen \in Nat
          /\ n \in 0 .. r /\ n <= s25 /\ n <= outlen /\ (n = s25 \/ n = outlen)
      BY <1>1, KeccakAssumption DEF SpongeCounters, Least
    <2>3. Len(out) + s25 = r * perms
      BY <1>1, <2>1 DEF Squeezing
    <2>4. Len(out) \in Nat
      BY <1>1 DEF SpongeCounters
    <2> HIDE DEF n
    <2>5. /\ out' \in Seq(Nat \X Nat) /\ Len(out') = Len(out) + n
          /\ \A k \in 1 .. Len(out') : out'[k] = <<1 + ((k - 1) \div r), (k - 1) % r>>
      <3>1. CASE perms = 0
        <4>1. s25 = 0 /\ n = 0 /\ Len(out) = 0
          BY <1>1, <2>2, <2>3, <2>4, <3>1
        <4>2. more = <<>> /\ out = <<>>
          BY <1>1, <4>1 DEF SpongeCounters
        <4> QED
          BY <2>1, <4>1, <4>2
      <3>2. CASE perms # 0
        <4> DEFINE p == r - s25
                   d == 1
                   m == Len(out)
        <4>1. m = r * (perms - d) + p /\ d <= perms
          BY <1>1, <2>2, <2>3, <2>4, <3>2, Z3
        <4>2. p \in Nat /\ p + n <= r /\ d \in Nat /\ m \in Nat /\ n \in Nat
          BY <1>1, <2>2, <2>4
        <4>3. StreamUpTo(out, r, d, m)
          BY <1>1 DEF StreamUpTo, StreamInOrder, SpongeCounters
        <4>4. PartOf(more, perms, p, n)
          BY <2>2, <4>2 DEF PartOf
        <4> HIDE DEF more, p, d, m
        <4>5. StreamUpTo(out \o more, r, d, m + n)
          BY <1>1, <2>2, <4>1, <4>2, <4>3, <4>4, StreamGoesOn
        <4> QED
          BY <2>1, <4>5 DEF StreamUpTo, d, m
      <3> QED
        BY <3>1, <3>2
    <2> HIDE DEF more
    <2>6. SpongeCounters'
      BY <1>1, <2>1, <2>2, <2>5 DEF SpongeCounters
    <2>7. Len(out') + s25' = r * perms' /\ (want' > 0 => s25' = 0)
      <3>1. Len(out') = Len(out) + n /\ s25' = s25 - n /\ want' = outlen - n /\ perms' = perms
        BY <2>1, <2>5
      <3>2. Len(out') + s25' = Len(out) + s25
        BY <2>2, <2>4, <3>1
      <3> QED
        BY <2>2, <2>3, <3>1, <3>2
    <2>9. Squeezing'
      BY <1>1, <2>1, <2>7 DEF Squeezing
    <2>8. StreamInOrder'
      BY <2>5 DEF StreamInOrder
    <2> QED
      BY <1>1, <2>1, <2>6, <2>9, <2>8 DEF SpongeInv, Absorbing
  <1>7. CASE SqueezeBlock
    <2> DEFINE n == Least(want, r)
               more == [k \in 1 .. n |-> <<perms + 1, k - 1>>]
    <2>1. /\ want > 0 /\ out' = out \o more /\ s25' = r - n /\ want' = want - n /\ perms' = perms + 1
          /\ UNCHANGED <<base, cur, given, taken, mode>>
      BY <1>7 DEF SqueezeBlock
    <2>2. want \in Nat /\ perms \in Nat /\ n \in 0 .. r /\ n <= want /\ (n = want \/ n = r)
      BY <1>1 DEF SpongeCounters, Least
    <2>3. mode = "squeeze"
      BY <1>1, <2>1 DEF SpongeCounters, Absorbing
    <2>4. s25 = 0 /\ Len(out) = r * perms /\ Len(out) \in Nat
      BY <1>1, <2>1, <2>3 DEF Squeezing, SpongeCounters
    <2> HIDE DEF n
    <2>6. /\ out' \in Seq(Nat \X Nat) /\ Len(out') = Len(out) + n
          /\ \A k \in 1 .. Len(out') : out'[k] = <<1 + ((k - 1) \div r), (k - 1) % r>>
      <3> DEFINE c == perms + 1
                 p == 0
                 d == 1
                 m == Len(out)
      <3>1. m = r * (c - d) + p /\ d <= c
        BY <1>1, <2>2, <2>4
      <3>2. c \in Nat /\ p \in Nat /\ p + n <= r /\ d \in Nat /\ m \in Nat /\ n \in Nat
        BY <1>1, <2>2, <2>4
      <3>3. StreamUpTo(out, r, d, m)
        BY <1>1 DEF StreamUpTo, StreamInOrder, SpongeCounters
      <3>4. PartOf(more, c, p, n)
        BY <2>2 DEF PartOf
      <3> HIDE DEF more, c, p, d, m
      <3>5. StreamUpTo(out \o more, r, d, m + n)
        BY <1>1, <3>1, <3>2, <3>3, <3>4, StreamGoesOn
      <3> QED
        BY <2>1, <3>5 DEF StreamUpTo, d, m
    <2> HIDE DEF more
    <2>7. SpongeCounters'
      BY <1>1, <2>1, <2>2, <2>6 DEF SpongeCounters
    <2>8. Len(out') + s25' = r * perms'
      <3>1. r * (perms + 1) = r * perms + r
        BY <1>1, <2>2, Z3
      <3>2. Len(out') = r * perms + n /\ s25' = r - n /\ perms' = perms + 1
        BY <2>1, <2>4, <2>6
      <3>3. r * perms \in Nat /\ r \in Nat /\ n \in Nat
        BY <2>2, <2>4, KeccakAssumption
      <3>4. Len(out') + s25' = r * perms + r
        BY <3>2, <3>3
      <3> QED
        BY <3>1, <3>2, <3>4
    <2>9. Squeezing'
      BY <1>1, <2>1, <2>2, <2>3, <2>8 DEF Squeezing
    <2>10. StreamInOrder'
      BY <2>6 DEF StreamInOrder
    <2> QED
      BY <2>1, <2>3, <2>7, <2>9, <2>10 DEF SpongeInv, Absorbing
  <1>8. CASE UNCHANGED vars
    BY <1>1, <1>8 DEF vars, SpongeInv, SpongeCounters, Absorbing, Squeezing, StreamInOrder
  <1> QED
    BY <1>2, <1>3, <1>4, <1>5, <1>6, <1>7, <1>8 DEF Next

(* Wherever the calls cut the message and the output, the sponge takes and   *)
(* gives what the one-shot functions do (fips202.c:346-380, 432-515).        *)
THEOREM SpongeAsOneShot == Spec => []SpongeInOrder
  <1>1. SpongeInv => SpongeInOrder
    <2> SUFFICES ASSUME SpongeInv PROVE SpongeInOrder
      OBVIOUS
    <2>1. mode = "ready" => s25 < r
      BY DEF SpongeInv, Absorbing
    <2>2. mode = "squeeze" =>
            base = [b \in 1 .. given \div r |-> FullBlock(b - 1)] /\ cur = LastBlock(given)
      BY DEF SpongeInv, Squeezing, FullBlocks
    <2> QED
      BY <2>1, <2>2 DEF SpongeInv, SpongeInOrder, AbsorbedInOrder
  <1> QED
    BY <1>1, SpongeStarts, SpongeSteps, PTL DEF Spec
-----------------------------------------------------------------------------
(* The seed expander. Blocks are encrypted one after the other, and what was *)
(* announced is less than the counter can count.                             *)
ExpanderInv ==
    /\ ctr \in Nat /\ buffer = ctr - 1 /\ buffer_pos \in 0 .. Block
    /\ length_remaining \in Nat /\ xlen \in Nat
    /\ StreamUpTo(x, Block, 0, Len(x)) /\ Len(x) \in Nat
    /\ Len(x) = Block * buffer + buffer_pos
    /\ IF maxlen = NotStarted THEN length_remaining = 0 /\ xlen = 0 /\ Len(x) = 0
       ELSE maxlen < CtrRange /\ Len(x) + xlen + length_remaining = maxlen

(* Before the first call.                                                    *)
LEMMA ExpanderStarts ==
    ASSUME SeedExpanderAssumption, ExpanderInit
    PROVE  ExpanderInv
  <1>1. /\ maxlen = -1 /\ length_remaining = 0 /\ ctr = 0 /\ buffer = -1 /\ buffer_pos = Block
        /\ xlen = 0 /\ x = <<>> /\ Block \in Nat \ {0}
    BY DEF ExpanderInit, NotStarted, Unfilled, SeedExpanderAssumption
  <1>2. StreamUpTo(x, Block, 0, Len(x)) /\ Len(x) = 0
    BY <1>1 DEF StreamUpTo
  <1> QED
    BY <1>1, <1>2 DEF ExpanderInv, NotStarted

(* The n bytes of the buffer that are next are those of the stream.          *)
LEMMA BufferGoesOn ==
    ASSUME SeedExpanderAssumption, ExpanderInv, NEW n \in Nat, buffer_pos + n <= Block
    PROVE  /\ StreamUpTo(x \o FromBuffer(n), Block, 0, Len(x) + n)
           /\ Len(x \o FromBuffer(n)) = Len(x) + n
  <1> DEFINE d == 0
             m == Len(x)
             more == FromBuffer(n)
  <1>1. /\ Block \in Nat \ {0} /\ m \in Nat /\ m = Block * buffer + buffer_pos
        /\ buffer_pos \in Nat /\ StreamUpTo(x, Block, d, m) /\ ctr \in Nat /\ buffer = ctr - 1
    BY DEF SeedExpanderAssumption, ExpanderInv
  <1>2. CASE ctr = 0
    <2>1. n = 0 /\ m = 0
      BY <1>1, <1>2
    <2>2. FromBuffer(n) = <<>> /\ x \in Seq(Nat \X Nat)
      BY <1>1, <2>1 DEF FromBuffer, StreamUpTo
    <2>3. x \o FromBuffer(n) = x
      BY <2>2
    <2> QED
      BY <1>1, <2>1, <2>3
  <1>3. CASE ctr # 0
    <2>1. buffer \in Nat /\ d \in Nat /\ d <= buffer /\ m = Block * (buffer - d) + buffer_pos
      BY <1>1, <1>3
    <2>2. PartOf(more, buffer, buffer_pos, n)
      BY <1>1, <2>1 DEF PartOf, FromBuffer
    <2> HIDE DEF d, m, more
    <2>3. StreamUpTo(x \o more, Block, d, m + n)
      BY <1>1, <2>1, <2>2, StreamGoesOn
    <2> QED
      BY <2>3 DEF StreamUpTo, d, m, more
  <1> QED
    BY <1>2, <1>3

(* Every call, and every block, keeps the invariant.                         *)
LEMMA ExpanderSteps ==
    ASSUME SeedExpanderAssumption, ExpanderInv, [ExpanderNext]_expander_vars
    PROVE  ExpanderInv'
  <1>1. /\ Block \in Nat \ {0} /\ CtrRange \in Nat \ {0}
        /\ \A len \in MaxLens : len \in Nat
    BY DEF SeedExpanderAssumption
  <1>2. /\ ctr \in Nat /\ buffer = ctr - 1 /\ buffer_pos \in 0 .. Block
        /\ length_remaining \in Nat /\ xlen \in Nat /\ Len(x) \in Nat
        /\ Len(x) = Block * buffer + buffer_pos
    BY DEF ExpanderInv
  <1>3. xlen > 0 => maxlen # NotStarted
    BY DEF ExpanderInv
  <1>4. maxlen # NotStarted => maxlen < CtrRange /\ Len(x) + xlen + length_remaining = maxlen
    BY DEF ExpanderInv
  <1>5. ASSUME NEW len \in MaxLens, seedexpander_init(len)
        PROVE  ExpanderInv'
    <2>1. /\ maxlen = NotStarted /\ UNCHANGED <<ctr, buffer, buffer_pos, xlen, x>>
          /\ \/ UNCHANGED <<maxlen, length_remaining>>
             \/ len < CtrRange /\ maxlen' = len /\ length_remaining' = len
      BY <1>1, <1>5 DEF seedexpander_init, RNG_BAD_MAXLEN
    <2>2. xlen = 0 /\ Len(x) = 0
      BY <2>1 DEF ExpanderInv
    <2> QED
      BY <1>1, <1>5, <2>1, <2>2 DEF ExpanderInv, NotStarted
  <1>6. ASSUME NEW len \in 0 .. MaxRequest, seedexpander(len)
        PROVE  ExpanderInv'
    <2>1. /\ maxlen # NotStarted /\ xlen = 0 /\ UNCHANGED <<maxlen, ctr, buffer, buffer_pos, x>>
          /\ \/ UNCHANGED <<length_remaining, xlen>>
             \/ len < length_remaining /\ length_remaining' = length_remaining - len /\ xlen' = len
      BY <1>2, <1>6 DEF seedexpander, RNG_BAD_REQ_LEN
    <2>2. len \in Nat
      OBVIOUS
    <2>3. Len(x) + xlen' + length_remaining' = maxlen /\ xlen' \in Nat /\ length_remaining' \in Nat
      BY <1>2, <1>4, <2>1, <2>2
    <2> QED
      BY <1>4, <2>1, <2>3 DEF ExpanderInv
  <1>7. CASE BufferHasWhatWeNeed
    <2>1. /\ xlen > 0 /\ xlen <= Block - buffer_pos
          /\ x' = x \o FromBuffer(xlen) /\ buffer_pos' = buffer_pos + xlen /\ xlen' = 0
          /\ UNCHANGED <<maxlen, length_remaining, ctr, buffer>>
      BY <1>7 DEF BufferHasWhatWeNeed, PositionAfter
    <2>2. buffer_pos + xlen <= Block
      BY <1>1, <1>2, <2>1
    <2>3. StreamUpTo(x', Block, 0, Len(x')) /\ Len(x') = Len(x) + xlen
      BY <1>2, <2>1, <2>2, BufferGoesOn
    <2>4. Len(x') = Block * buffer' + buffer_pos' /\ Len(x') \in Nat /\ buffer_pos' \in 0 .. Block
      BY <1>1, <1>2, <2>1, <2>2, <2>3, Z3
    <2>5. maxlen' # NotStarted /\ maxlen' < CtrRange /\ Len(x') + xlen' + length_remaining' = maxlen'
      BY <1>2, <1>3, <1>4, <2>1, <2>3
    <2> QED
      BY <1>2, <2>1, <2>3, <2>4, <2>5 DEF ExpanderInv
  <1>8. CASE TakeWhatIsThere
    <2> DEFINE n == Block - buffer_pos
    <2>1. /\ xlen > n /\ x' = x \o FromBuffer(n) /\ xlen' = xlen - n
          /\ buffer' = ctr /\ buffer_pos' = 0 /\ ctr' = (ctr + 1) % CtrRange
          /\ UNCHANGED <<maxlen, length_remaining>>
      BY <1>8 DEF TakeWhatIsThere
    <2>2. n \in Nat /\ buffer_pos + n = Block /\ xlen > 0
      BY <1>1, <1>2, <2>1
    <2> HIDE DEF n
    <2>3. StreamUpTo(x', Block, 0, Len(x')) /\ Len(x') = Len(x) + n
      BY <1>2, <2>1, <2>2, BufferGoesOn
    <2>4. Len(x') = Block * ctr /\ Len(x') \in Nat
      BY <1>1, <1>2, <2>1, <2>2, <2>3, Z3
    <2>5. maxlen' # NotStarted /\ maxlen' < CtrRange /\ Len(x') + xlen' + length_remaining' = maxlen'
      BY <1>2, <1>3, <1>4, <2>1, <2>2, <2>3
    <2>6. ctr + 1 < CtrRange
      <3>1. Block * ctr < CtrRange - 1
        BY <1>1, <1>2, <1>3, <1>4, <2>1, <2>2, <2>3, <2>4
      <3>2. ctr <= Block * ctr
        BY <1>1, <1>2, Z3
      <3> QED
        BY <1>1, <1>2, <3>1, <3>2, Z3
    <2>7. ctr' = ctr + 1
      BY <1>1, <1>2, <2>1, <2>6, Z3
    <2> QED
      BY <1>1, <1>2, <2>1, <2>2, <2>3, <2>4, <2>5, <2>7 DEF ExpanderInv
  <1>9. CASE UNCHANGED expander_vars
    BY <1>9 DEF ExpanderInv, expander_vars
  <1> QED
    BY <1>5, <1>6, <1>7, <1>8, <1>9 DEF ExpanderNext

(* However the stream is cut into requests, it comes out whole and in order, *)
(* and the counter never wraps (rng.c:67-99).                                *)
THEOREM ExpanderInOrder ==
    ASSUME SeedExpanderAssumption
    PROVE  ExpanderSpec => []RequestsInOrder
  <1>1. ExpanderInit => ExpanderInv
    BY ExpanderStarts
  <1>2. ExpanderInv /\ [ExpanderNext]_expander_vars => ExpanderInv'
    BY ExpanderSteps
  <1>3. ExpanderInv => RequestsInOrder
    <2> SUFFICES ASSUME ExpanderInv PROVE RequestsInOrder
      OBVIOUS
    <2>1. \A k \in 1 .. Len(x) : x[k] = <<0 + ((k - 1) \div Block), (k - 1) % Block>>
      BY DEF ExpanderInv, StreamUpTo
    <2>2. \A k \in 1 .. Len(x) : (k - 1) \div Block \in Int
      BY DEF SeedExpanderAssumption
    <2>3. \A k \in 1 .. Len(x) : x[k] = <<(k - 1) \div Block, (k - 1) % Block>>
      BY <2>1, <2>2
    <2> QED
      BY <2>3 DEF ExpanderInv, RequestsInOrder
  <1> QED
    BY <1>1, <1>2, <1>3, PTL DEF ExpanderSpec
-----------------------------------------------------------------------------
(* randombytes. The keys that were used are those that the blocks kept were  *)
(* made with; the two halves of a Key are blocks that were kept.             *)
UsedKeys == {e[1][2] : e \in kept}

DrbgShape ==
    /\ \E S : drawn \in Seq(S)
    /\ \E o, a : a \in Nat /\ V = [of |-> o, added |-> a]
KeyUnused ==
    /\ Key \notin UsedKeys
    /\ \A k \in UsedKeys \cup {Key} : Len(k) = 2 => k[1] \in kept
DrawnUsed == \A i \in 1 .. Len(drawn) : drawn[i][2] \in UsedKeys

DrbgInv == DrbgShape /\ KeyUnused /\ DrawnUsed /\ BlocksUsedOnce

(* What an update keeps: three blocks made with the Key, and the next Key is *)
(* the first two of them.                                                    *)
Kept(v, t1, t2, t3) ==
    /\ t1[1] = AES(Key, Incremented(v, 1))
    /\ t2[1] = AES(Key, Incremented(v, 2))
    /\ t3[1] = AES(Key, Incremented(v, 3))
    /\ Key' = <<t1, t2>> /\ V' = Counter(t3) /\ kept' = kept \cup {t1, t2, t3}

(* With seed data or without.                                                *)
LEMMA UpdateKeeps ==
    ASSUME NEW v, NEW data, data = <<>> \/ \E d : data = <<d>>, Update(v, data)
    PROVE  \E t1, t2, t3 : Kept(v, t1, t2, t3)
  <1> DEFINE block(i) == AES(Key, Incremented(v, i))
             t(i) == <<block(i)>> \o data
  <1>1. ASSUME NEW i PROVE t(i)[1] = block(i)
    <2> DEFINE c == block(i)
    <2> HIDE DEF c
    <2>1. (<<c>> \o data)[1] = c
      <3>1. CASE data = <<>>
        <4>1. <<c>> \in Seq({c})
          OBVIOUS
        <4> QED
          BY <3>1, <4>1
      <3>2. CASE \E d : data = <<d>>
        <4>1. PICK d : data = <<d>>
          BY <3>2
        <4>2. <<c>> \in Seq({c, d}) /\ <<d>> \in Seq({c, d}) /\ Len(<<c>>) = 1 /\ Len(<<d>>) = 1
          OBVIOUS
        <4>3. (<<c>> \o <<d>>)[1] = <<c>>[1]
          BY <4>2, JoinedIs
        <4> QED
          BY <4>1, <4>3
      <3> QED
        BY <3>1, <3>2
    <2> QED
      BY <2>1 DEF c
  <1>2. UpdateBlocks(v) = [i \in 1 .. 3 |-> block(i)]
    BY DEF UpdateBlocks, BlocksAfter
  <1>3. /\ UpdateBlocks(v)[1] = block(1) /\ UpdateBlocks(v)[2] = block(2)
        /\ UpdateBlocks(v)[3] = block(3)
    BY <1>2
  <1>4. Key' = <<t(1), t(2)>> /\ V' = Counter(t(3))
    BY <1>3 DEF Update
  <1>5. kept' = kept \cup {<<UpdateBlocks(v)[i]>> \o data : i \in 1 .. 3}
    <2>1. kept' = kept \cup {[j \in 1 .. 3 |-> <<UpdateBlocks(v)[j]>> \o data][i] : i \in 1 .. 3}
      BY DEF Update
    <2>2. \A i \in 1 .. 3 :
            [j \in 1 .. 3 |-> <<UpdateBlocks(v)[j]>> \o data][i] = <<UpdateBlocks(v)[i]>> \o data
      OBVIOUS
    <2> QED
      BY <2>1, <2>2
  <1>6. kept' = kept \cup {t(1), t(2), t(3)}
    <2>1. 1 .. 3 = {1, 2, 3}
      OBVIOUS
    <2> QED
      BY <1>3, <1>5, <2>1
  <1>7. t(1)[1] = block(1) /\ t(2)[1] = block(2) /\ t(3)[1] = block(3)
    BY <1>1
  <1> QED
    BY <1>4, <1>6, <1>7 DEF Kept

(* The next Key was never used: its first half would have been kept, and so  *)
(* the Key that made it would have been used before.                         *)
LEMMA KeysGoOn ==
    ASSUME KeyUnused, NEW v, NEW t1, NEW t2, NEW t3, Kept(v, t1, t2, t3)
    PROVE  KeyUnused' /\ UsedKeys' = UsedKeys \cup {Key}
  <1>1. /\ t1[1][2] = Key /\ t2[1][2] = Key /\ t3[1][2] = Key
        /\ Key' = <<t1, t2>> /\ kept' = kept \cup {t1, t2, t3}
    BY DEF Kept, AES
  <1>2. UsedKeys' = UsedKeys \cup {Key}
    BY <1>1 DEF UsedKeys
  <1>3. t1 \notin kept
    BY <1>1 DEF UsedKeys, KeyUnused
  <1>4. Len(Key') = 2 /\ Key'[1] = t1
    BY <1>1
  <1>5. Key' \notin UsedKeys'
    BY <1>2, <1>3, <1>4 DEF KeyUnused
  <1>6. \A k \in UsedKeys' \cup {Key'} : Len(k) = 2 => k[1] \in kept'
    BY <1>1, <1>2, <1>4 DEF KeyUnused
  <1> QED
    BY <1>2, <1>5, <1>6 DEF KeyUnused

(* The blocks that a request draws.                                          *)
LEMMA DrawnIs ==
    ASSUME DrbgShape, NEW n \in Nat, drawn' = drawn \o BlocksAfter(Key, V, n)
    PROVE  /\ \E S : drawn' \in Seq(S)
           /\ Len(drawn) \in Nat /\ Len(drawn') = Len(drawn) + n
           /\ \A i \in 1 .. Len(drawn) + n :
                 drawn'[i] = IF i <= Len(drawn) THEN drawn[i]
                             ELSE AES(Key, Incremented(V, i - Len(drawn)))
  <1> DEFINE more == BlocksAfter(Key, V, n)
             N == {more[i] : i \in 1 .. n}
  <1>1. PICK S : drawn \in Seq(S)
    BY DEF DrbgShape
  <1> DEFINE T == S \cup N
  <1>2. more \in [1 .. n -> T] /\ \A i \in 1 .. n : more[i] = AES(Key, Incremented(V, i))
    BY DEF BlocksAfter
  <1>3. Len(drawn) \in Nat /\ drawn \in [1 .. Len(drawn) -> T]
    BY <1>1
  <1> HIDE DEF T, N, more
  <1>4. more \in Seq(T) /\ Len(more) = n
    BY <1>2, SeqDef
  <1>5. drawn \in Seq(T)
    BY <1>3, SeqDef
  <1>6. /\ drawn \o more \in Seq(T) /\ Len(drawn \o more) = Len(drawn) + Len(more)
        /\ \A k \in 1 .. Len(drawn) + Len(more) :
              (drawn \o more)[k] = IF k <= Len(drawn) THEN drawn[k] ELSE more[k - Len(drawn)]
    BY <1>4, <1>5, JoinedIs
  <1>7. drawn' = drawn \o more
    BY DEF more
  <1>8. ASSUME NEW i \in 1 .. Len(drawn) + n
        PROVE  drawn'[i] = IF i <= Len(drawn) THEN drawn[i]
                           ELSE AES(Key, Incremented(V, i - Len(drawn)))
    <2>1. i > Len(drawn) => i - Len(drawn) \in 1 .. n
      BY <1>3
    <2> QED
      BY <1>2, <1>3, <1>4, <1>6, <1>7, <2>1
  <1> QED
    BY <1>3, <1>4, <1>6, <1>7, <1>8

(* No block is drawn twice, and none is kept.                                *)
LEMMA DrawsGoOn ==
    ASSUME DrbgInv, NEW n \in Nat, drawn' = drawn \o BlocksAfter(Key, V, n),
           NEW t1, NEW t2, NEW t3, Kept(Incremented(V, n), t1, t2, t3)
    PROVE  DrbgInv'
  <1> DEFINE L == Len(drawn)
  <1>1. /\ \E S : drawn' \in Seq(S)
        /\ L \in Nat /\ Len(drawn') = L + n
        /\ \A i \in 1 .. L + n :
              drawn'[i] = IF i <= L THEN drawn[i] ELSE AES(Key, Incremented(V, i - L))
    BY DrawnIs DEF DrbgInv
  <1>2. KeyUnused' /\ UsedKeys' = UsedKeys \cup {Key} /\ Key \notin UsedKeys
    BY KeysGoOn DEF DrbgInv, KeyUnused
  <1>3. /\ V' = [of |-> t3, added |-> 0] /\ kept' = kept \cup {t1, t2, t3}
        /\ t1[1] = AES(Key, Incremented(Incremented(V, n), 1))
        /\ t2[1] = AES(Key, Incremented(Incremented(V, n), 2))
        /\ t3[1] = AES(Key, Incremented(Incremented(V, n), 3))
    BY DEF Kept, Counter
  <1>4. PICK o, a : a \in Nat /\ V = [of |-> o, added |-> a]
    BY DEF DrbgInv, DrbgShape
  <1>5. ASSUME NEW i \in Nat, NEW j \in Nat, Incremented(V, i) = Incremented(V, j)
        PROVE  i = j
    <2>1. Incremented(V, i).added = a + i /\ Incremented(V, j).added = a + j
      BY <1>4 DEF Incremented
    <2> QED
      BY <1>4, <1>5, <2>1
  <1>6. /\ Incremented(Incremented(V, n), 1) = Incremented(V, n + 1)
        /\ Incremented(Incremented(V, n), 2) = Incremented(V, n + 2)
        /\ Incremented(Incremented(V, n), 3) = Incremented(V, n + 3)
    <2>0. ASSUME NEW c \in Nat, NEW k \in Nat
          PROVE  Incremented([of |-> o, added |-> c], k) = [of |-> o, added |-> c + k]
      BY DEF Incremented
    <2>1. ASSUME NEW k \in Nat PROVE Incremented(V, k) = [of |-> o, added |-> a + k]
      BY <1>4, <2>0
    <2>2. ASSUME NEW k \in Nat PROVE Incremented(Incremented(V, n), k) = [of |-> o, added |-> (a + n) + k]
      <3>1. Incremented(V, n) = [of |-> o, added |-> a + n]
        BY <2>1
      <3> DEFINE c == a + n
      <3>2. c \in Nat
        BY <1>4
      <3> HIDE DEF c
      <3>3. Incremented([of |-> o, added |-> c], k) = [of |-> o, added |-> c + k]
        BY <2>0, <3>2
      <3> QED
        BY <3>1, <3>3 DEF c
    <2>3. ASSUME NEW k \in Nat PROVE Incremented(Incremented(V, n), k) = Incremented(V, n + k)
      <3>1. (a + n) + k = a + (n + k) /\ n + k \in Nat
        BY <1>4
      <3> QED
        BY <2>1, <2>2, <3>1
    <2> QED
      BY <2>3
  <1> HIDE DEF L
  <1>7. ASSUME NEW i \in 1 .. L
        PROVE  drawn'[i] = drawn[i] /\ drawn[i][2] \in UsedKeys
    <2>1. drawn[i][2] \in UsedKeys
      BY DEF DrbgInv, DrawnUsed, L
    <2> QED
      BY <1>1, <2>1
  <1>8. ASSUME NEW i \in 1 .. L + n, i > L
        PROVE  /\ i - L \in 1 .. n /\ drawn'[i] = AES(Key, Incremented(V, i - L))
               /\ drawn'[i][2] = Key /\ drawn'[i][3] = Incremented(V, i - L)
    <2>1. i - L \in 1 .. n /\ drawn'[i] = AES(Key, Incremented(V, i - L))
      BY <1>1, <1>8
    <2> QED
      BY <2>1 DEF AES
  <1>9. DrbgShape'
    BY <1>1, <1>3 DEF DrbgShape
  <1>10. DrawnUsed'
    <2>1. ASSUME NEW i \in 1 .. L + n PROVE drawn'[i][2] \in UsedKeys \cup {Key}
      <3>1. CASE i <= L
        <4>1. i \in 1 .. L
          BY <1>1, <3>1
        <4> QED
          BY <1>7, <4>1
      <3>2. CASE i > L
        BY <1>8, <3>2
      <3> QED
        BY <1>1, <3>1, <3>2
    <2> QED
      BY <1>1, <1>2, <2>1 DEF DrawnUsed
  <1>11. ASSUME NEW i \in 1 .. L + n, NEW j \in 1 .. L + n, drawn'[i] = drawn'[j]
         PROVE  i = j
    <2>1. CASE i <= L /\ j <= L
      <3>1. i \in 1 .. L /\ j \in 1 .. L
        BY <1>1, <2>1
      <3>2. drawn[i] = drawn[j]
        BY <1>7, <1>11, <3>1
      <3> QED
        BY <3>1, <3>2 DEF DrbgInv, BlocksUsedOnce, L
    <2>2. CASE i > L /\ j > L
      <3>1. drawn'[i][3] = Incremented(V, i - L) /\ i - L \in Nat
        <4>1. drawn'[i][3] = Incremented(V, i - L) /\ i - L \in 1 .. n
          BY <1>8, <2>2
        <4> QED
          BY <4>1
      <3>2. drawn'[j][3] = Incremented(V, j - L) /\ j - L \in Nat
        <4>1. drawn'[j][3] = Incremented(V, j - L) /\ j - L \in 1 .. n
          BY <1>8, <2>2
        <4> QED
          BY <4>1
      <3>3. i - L = j - L
        BY <1>5, <1>11, <3>1, <3>2
      <3> QED
        BY <1>1, <3>3
    <2>3. CASE i <= L /\ j > L
      <3>1. i \in 1 .. L
        BY <1>1, <2>3
      <3>2. drawn'[i][2] \in UsedKeys /\ drawn'[j][2] = Key
        BY <1>7, <1>8, <2>3, <3>1
      <3> QED
        BY <1>2, <1>11, <3>2
    <2>4. CASE i > L /\ j <= L
      <3>1. j \in 1 .. L
        BY <1>1, <2>4
      <3>2. drawn'[j][2] \in UsedKeys /\ drawn'[i][2] = Key
        BY <1>7, <1>8, <2>4, <3>1
      <3> QED
        BY <1>2, <1>11, <3>2
    <2> QED
      BY <1>1, <2>1, <2>2, <2>3, <2>4
  <1>12. ASSUME NEW i \in 1 .. L + n, <<drawn'[i]>> \in kept'
         PROVE  FALSE
    <2> DEFINE b == drawn'[i]
               e == <<drawn'[i]>>
    <2>0. e[1] = b /\ e \in kept'
      BY <1>12
    <2> HIDE DEF b, e
    <2>1. CASE i <= L
      <3>1. i \in 1 .. L
        BY <1>1, <2>1
      <3>2. e \notin kept
        BY <1>7, <3>1 DEF DrbgInv, BlocksUsedOnce, L, e
      <3>3. b[2] = Key
        <4>1. e = t1 \/ e = t2 \/ e = t3
          BY <1>3, <2>0, <3>2
        <4> QED
          BY <1>3, <2>0, <4>1 DEF AES
      <3>4. b[2] \in UsedKeys
        BY <1>7, <3>1 DEF b
      <3> QED
        BY <1>2, <3>3, <3>4
    <2>2. CASE i > L
      <3>1. b[2] = Key /\ b[3] = Incremented(V, i - L) /\ i - L \in 1 .. n
        BY <1>8, <2>2 DEF b
      <3>2. e \notin kept
        BY <1>2, <2>0, <3>1 DEF UsedKeys
      <3>3. e = t1 \/ e = t2 \/ e = t3
        BY <1>3, <2>0, <3>2
      <3>4. \E k \in {1, 2, 3} : b[3] = Incremented(V, n + k)
        BY <1>3, <1>6, <2>0, <3>3 DEF AES
      <3>5. PICK k \in {1, 2, 3} : b[3] = Incremented(V, n + k)
        BY <3>4
      <3>6. Incremented(V, i - L) = Incremented(V, n + k)
        BY <3>1, <3>5
      <3>7. i - L \in Nat /\ n + k \in Nat
        BY <3>1
      <3>8. i - L = n + k
        BY <1>5, <3>6, <3>7
      <3> QED
        BY <3>1, <3>8
    <2> QED
      BY <1>1, <2>1, <2>2
  <1>13. BlocksUsedOnce'
    BY <1>1, <1>11, <1>12 DEF BlocksUsedOnce
  <1> QED
    BY <1>2, <1>9, <1>10, <1>13 DEF DrbgInv

(* Seeding draws nothing.                                                    *)
LEMMA SeedsGoOn ==
    ASSUME DrbgInv, drawn' = drawn, NEW t1, NEW t2, NEW t3, Kept(V, t1, t2, t3)
    PROVE  DrbgInv'
  <1>1. KeyUnused' /\ UsedKeys' = UsedKeys \cup {Key} /\ Key \notin UsedKeys
    BY KeysGoOn DEF DrbgInv, KeyUnused
  <1>2. /\ V' = [of |-> t3, added |-> 0] /\ kept' = kept \cup {t1, t2, t3}
        /\ t1[1][2] = Key /\ t2[1][2] = Key /\ t3[1][2] = Key
    BY DEF Kept, Counter, AES
  <1>3. DrbgShape'
    BY <1>2 DEF DrbgInv, DrbgShape
  <1>4. DrawnUsed'
    BY <1>1 DEF DrbgInv, DrawnUsed
  <1>5. ASSUME NEW i \in 1 .. Len(drawn), <<drawn[i]>> \in kept'
        PROVE  FALSE
    <2> DEFINE e == <<drawn[i]>>
    <2>1. e[1][2] \in UsedKeys /\ e \notin kept
      BY DEF DrbgInv, DrawnUsed, BlocksUsedOnce
    <2>2. e \in kept'
      BY <1>5
    <2> HIDE DEF e
    <2> QED
      BY <1>1, <1>2, <2>1, <2>2
  <1>6. BlocksUsedOnce'
    BY <1>5 DEF DrbgInv, BlocksUsedOnce
  <1> QED
    BY <1>1, <1>3, <1>4, <1>6 DEF DrbgInv

(* Every call keeps the invariant.                                           *)
LEMMA DrbgSteps ==
    ASSUME SeedExpanderAssumption, DrbgAssumption, DrbgInv, [DrbgNext]_drbg_vars
    PROVE  DrbgInv'
  <1>1. ASSUME NEW seed \in Seeds, randombytes_init(seed)
        PROVE  DrbgInv'
    <2>1. Update(V, <<seed>>) /\ drawn' = drawn
      BY <1>1 DEF randombytes_init
    <2> DEFINE data == <<seed>>
    <2>2. \E d : data = <<d>>
      OBVIOUS
    <2> HIDE DEF data
    <2>3. PICK t1, t2, t3 : Kept(V, t1, t2, t3)
      BY <2>1, <2>2, UpdateKeeps DEF data
    <2> QED
      BY <2>1, <2>3, SeedsGoOn
  <1>2. ASSUME NEW len \in 0 .. MaxLen, randombytes(len)
        PROVE  DrbgInv'
    <2> DEFINE n == BlocksFor(len)
               v == Incremented(V, n)
               data == <<>>
    <2>1. drawn' = drawn \o BlocksAfter(Key, V, n) /\ Update(v, data)
      BY <1>2 DEF randombytes, VAfter
    <2>2. n \in Nat
      <3>1. len \in Nat /\ Block \in Nat \ {0}
        BY DEF SeedExpanderAssumption, DrbgAssumption
      <3> QED
        BY <3>1, Z3 DEF BlocksFor
    <2> HIDE DEF n
    <2>3. PICK t1, t2, t3 : Kept(v, t1, t2, t3)
      BY <2>1, UpdateKeeps
    <2> QED
      BY <2>1, <2>2, <2>3, DrawsGoOn
  <1>3. CASE UNCHANGED drbg_vars
    BY <1>3 DEF drbg_vars, DrbgInv, DrbgShape, KeyUnused, DrawnUsed, BlocksUsedOnce, UsedKeys
  <1> QED
    BY <1>1, <1>2, <1>3 DEF DrbgNext

(* However requests are cut, a block is drawn once and what was drawn is no  *)
(* part of any state (rng.c:155-213).                                        *)
THEOREM DrawnOnce ==
    ASSUME SeedExpanderAssumption, DrbgAssumption
    PROVE  DrbgSpec => []BlocksUsedOnce
  <1>1. DrbgInit => DrbgInv
    <2> SUFFICES ASSUME DrbgInit PROVE DrbgInv
      OBVIOUS
    <2>1. Key = <<"zeros">> /\ V = [of |-> Zeros, added |-> 0] /\ drawn = <<>> /\ kept = {}
      BY DEF DrbgInit, Zeros, Counter
    <2>2. drawn \in Seq({}) /\ Len(drawn) = 0 /\ Len(Key) = 1
      BY <2>1
    <2>3. DrbgShape
      BY <2>1, <2>2 DEF DrbgShape
    <2>4. UsedKeys = {}
      BY <2>1 DEF UsedKeys
    <2>5. KeyUnused
      BY <2>2, <2>4 DEF KeyUnused
    <2> QED
      BY <2>2, <2>3, <2>5 DEF DrbgInv, DrawnUsed, BlocksUsedOnce
  <1>2. DrbgInv /\ [DrbgNext]_drbg_vars => DrbgInv'
    BY DrbgSteps
  <1>3. DrbgInv => BlocksUsedOnce
    BY DEF DrbgInv
  <1> QED
    BY <1>1, <1>2, <1>3, PTL DEF DrbgSpec

(* Both generators: no byte is handed out twice, and none that is kept.      *)
THEOREM AlwaysFresh ==
    ASSUME SeedExpanderAssumption, DrbgAssumption
    PROVE  ExpanderSpec /\ DrbgSpec => []RandomBytesFresh
  <1>1. RequestsInOrder /\ BlocksUsedOnce => RandomBytesFresh
    BY DEF RandomBytesFresh
  <1> QED
    BY <1>1, ExpanderInOrder, DrawnOnce, PTL

-----------------------------------------------------------------------------
(* The OpenMP loop of fors_sign. What an iteration computes, by itself:      *)
Base == KeypairAddr(fors_addr, TYPE_FORSTREE)
StartOf(i) == LeafAddr(Base, i, message_to_indices(mhash)[i])
TreeOf(i) == SignedTree(i, message_to_indices(mhash)[i], StartOf(i))

(* An iteration is not taken, with one thread, or done.                      *)
TakenBy(t, i) == at[t] = i /\ step[t] # "take"
DoneWith(i) == i \notin todo /\ \A t \in ForsThreads : ~TakenBy(t, i)

ForsTypes ==
    /\ todo \subseteq Trees
    /\ at \in [ForsThreads -> Trees \cup {Idle}]
    /\ step \in [ForsThreads -> {"take", "secret", "tree"}]
    /\ DOMAIN fors_tree_addr = ForsThreads
    /\ DOMAIN fors_sig = Trees
    /\ \A i \in Trees : fors_sig[i] = [sk |-> fors_sig[i].sk, auth |-> fors_sig[i].auth]
    /\ DOMAIN roots = Trees

Arrays == fors_sig = [i \in Trees |-> fors_sig[i]] /\ roots = [i \in Trees |-> roots[i]]

(* No two threads have the same iteration; each has its own address, and     *)
(* what it wrote so far is what the iteration computes.                      *)
Threads ==
    \A t \in ForsThreads :
      /\ step[t] = "take" <=> at[t] = Idle
      /\ step[t] # "take" =>
           /\ at[t] \in Trees \ todo
           /\ fors_tree_addr[t] = StartOf(at[t])
           /\ \A u \in ForsThreads \ {t} : at[u] # at[t]
      /\ step[t] = "tree" => fors_sig[at[t]].sk = prf_addr(StartOf(at[t]))

Finished ==
    \A i \in Trees : DoneWith(i) =>
      /\ fors_sig[i].sk = prf_addr(StartOf(i)) /\ fors_sig[i].auth = TreeOf(i).auth
      /\ roots[i] = TreeOf(i).stack[1]

Published ==
    fors_pk # Garbage =>
      /\ LoopEnded
      /\ fors_pk = PublicKey([i \in Trees |-> TreeOf(i).stack[1]], fors_addr)

ForsInv == ForsTypes /\ Arrays /\ Threads /\ Finished /\ Published

(* The loop starts with every iteration to do.                               *)
LEMMA ForsStarts == ForsInit => ForsInv
  <1> SUFFICES ASSUME ForsInit PROVE ForsInv
    OBVIOUS
  <1>1. Idle \notin Trees
    BY DEF Idle, Trees
  <1>2. ForsTypes
    BY DEF ForsInit, ForsTypes
  <1>3. Threads
    BY DEF ForsInit, Threads
  <1>4. Finished
    BY DEF ForsInit, Finished, DoneWith
  <1>5. Published
    BY DEF ForsInit, Published
  <1>6. Arrays
    BY DEF ForsInit, Arrays
  <1> QED
    BY <1>2, <1>3, <1>4, <1>5, <1>6 DEF ForsInv

(* A thread that has no iteration takes one nobody has.                      *)
LEMMA TakeKeeps == ASSUME ForsInv, NEW t \in ForsThreads, Take(t) PROVE ForsInv'
  <1> USE DEF Own
  <1>1. PICK i \in todo :
          /\ todo' = todo \ {i} /\ at' = [at EXCEPT ![t] = i]
          /\ fors_tree_addr' = [fors_tree_addr EXCEPT ![t] = StartOf(i)]
    BY DEF Take, StartOf, Base
  <1>2. /\ step[t] = "take" /\ step' = [step EXCEPT ![t] = "secret"]
        /\ UNCHANGED <<mhash, fors_addr, fors_sig, roots, fors_pk>>
    BY DEF Take
  <1>3. ForsTypes /\ Threads /\ Finished /\ Published
    BY DEF ForsInv
  <1>4. i \in Trees /\ Idle \notin Trees
    BY <1>3 DEF ForsTypes, Idle, Trees
  <1>5. ForsTypes'
    BY <1>1, <1>2, <1>3, <1>4 DEF ForsTypes
  <1>6. \A j : StartOf(j)' = StartOf(j) /\ TreeOf(j)' = TreeOf(j)
    BY <1>2 DEF StartOf, Base, TreeOf
  <1>7. Threads'
    BY <1>1, <1>2, <1>3, <1>4, <1>6 DEF ForsTypes, Threads
  <1>8. Finished'
    <2> SUFFICES ASSUME NEW j \in Trees, DoneWith(j)' PROVE DoneWith(j)
      BY <1>2, <1>3, <1>6 DEF Finished
    <2>1. j # i
      BY <1>1, <1>2, <1>3 DEF DoneWith, TakenBy, ForsTypes
    <2> QED
      BY <1>1, <1>2, <1>3, <2>1 DEF DoneWith, TakenBy, ForsTypes
  <1>9. Published'
    BY <1>1, <1>2, <1>3 DEF Published, LoopEnded
  <1>10. Arrays'
    BY <1>2 DEF ForsInv, Arrays
  <1> QED
    BY <1>5, <1>7, <1>8, <1>9, <1>10 DEF ForsInv

(* It writes the secret, to the slice of its own iteration.                  *)
LEMMA RevealKeeps == ASSUME ForsInv, NEW t \in ForsThreads, Reveal(t) PROVE ForsInv'
  <1>1. /\ step[t] = "secret" /\ step' = [step EXCEPT ![t] = "tree"]
        /\ fors_sig' = [fors_sig EXCEPT ![at[t]].sk = prf_addr(fors_tree_addr[t])]
        /\ UNCHANGED <<mhash, fors_addr, todo, at, fors_tree_addr, roots, fors_pk>>
    BY DEF Reveal, Own
  <1>2. ForsTypes /\ Threads /\ Finished /\ Published
    BY DEF ForsInv
  <1>3. at[t] \in Trees /\ at[t] # Idle /\ Idle \notin Trees /\ fors_tree_addr[t] = StartOf(at[t])
    BY <1>1, <1>2 DEF Threads, Idle, Trees
  <1>4. /\ fors_sig'[at[t]] = [sk |-> prf_addr(StartOf(at[t])), auth |-> fors_sig[at[t]].auth]
        /\ DOMAIN fors_sig' = Trees
        /\ \A j \in Trees \ {at[t]} : fors_sig'[j] = fors_sig[j]
    BY <1>1, <1>2, <1>3 DEF ForsTypes
  <1>5. ForsTypes'
    BY <1>1, <1>2, <1>4 DEF ForsTypes
  <1>6. \A j : StartOf(j)' = StartOf(j) /\ TreeOf(j)' = TreeOf(j)
    BY <1>1 DEF StartOf, Base, TreeOf
  <1>7. Threads'
    BY <1>1, <1>2, <1>3, <1>4, <1>6 DEF ForsTypes, Threads
  <1>8. Finished'
    <2> SUFFICES ASSUME NEW j \in Trees, DoneWith(j)' PROVE DoneWith(j) /\ j # at[t]
      BY <1>1, <1>2, <1>4, <1>6 DEF Finished
    <2> QED
      BY <1>1, <1>2, <1>3 DEF DoneWith, TakenBy, ForsTypes
  <1>9. Published'
    BY <1>1, <1>2, <1>6 DEF Published, LoopEnded
  <1>10. Arrays'
    BY <1>1 DEF ForsInv, Arrays
  <1> QED
    BY <1>5, <1>7, <1>8, <1>9, <1>10 DEF ForsInv

(* It writes the path and the root, and is done with its iteration.          *)
LEMMA TreeKeeps == ASSUME ForsInv, NEW t \in ForsThreads, Tree(t) PROVE ForsInv'
  <1> DEFINE i == at[t]
  <1>1. step[t] = "tree" /\ step' = [step EXCEPT ![t] = "take"] /\ at' = [at EXCEPT ![t] = Idle]
        /\ UNCHANGED <<mhash, fors_addr, todo, fors_pk>>
    BY DEF Tree
  <1>2. ForsTypes /\ Threads /\ Finished /\ Published
    BY DEF ForsInv
  <1>3. /\ i \in Trees \ todo /\ i # Idle /\ Idle \notin Trees /\ fors_tree_addr[t] = StartOf(i)
        /\ fors_sig[i].sk = prf_addr(StartOf(i))
    BY <1>1, <1>2 DEF Threads, Idle, Trees
  <1>4. /\ roots' = [roots EXCEPT ![i] = TreeOf(i).stack[1]]
        /\ fors_sig' = [fors_sig EXCEPT ![i].auth = TreeOf(i).auth]
        /\ fors_tree_addr' = [fors_tree_addr EXCEPT ![t] = TreeOf(i).addr]
    BY <1>3 DEF Tree, Own, TreeOf
  <1>5. /\ fors_sig'[i] = [sk |-> prf_addr(StartOf(i)), auth |-> TreeOf(i).auth] /\ DOMAIN fors_sig' = Trees
        /\ \A j \in Trees \ {i} : fors_sig'[j] = fors_sig[j]
        /\ roots'[i] = TreeOf(i).stack[1] /\ DOMAIN roots' = Trees
        /\ \A j \in Trees \ {i} : roots'[j] = roots[j]
    BY <1>2, <1>3, <1>4 DEF ForsTypes
  <1>6. ForsTypes'
    BY <1>1, <1>2, <1>4, <1>5 DEF ForsTypes
  <1>7. \A j : StartOf(j)' = StartOf(j) /\ TreeOf(j)' = TreeOf(j)
    BY <1>1 DEF StartOf, Base, TreeOf
  <1>8. Threads'
    <2> SUFFICES ASSUME NEW u \in ForsThreads
                 PROVE  /\ step'[u] = "take" <=> at'[u] = Idle
                        /\ step'[u] # "take" =>
                             /\ at'[u] \in Trees \ todo
                             /\ fors_tree_addr'[u] = StartOf(at'[u])
                             /\ \A v \in ForsThreads \ {u} : at'[v] # at'[u]
                        /\ step'[u] = "tree" => fors_sig'[at'[u]].sk = prf_addr(StartOf(at'[u]))
      BY <1>1, <1>7 DEF Threads
    <2>1. CASE u = t
      BY <1>1, <1>2, <2>1 DEF ForsTypes
    <2>2. CASE u # t
      <3>1. step'[u] = step[u] /\ at'[u] = at[u] /\ fors_tree_addr'[u] = fors_tree_addr[u] /\ at'[t] = Idle
        BY <1>1, <1>2, <1>4, <2>2 DEF ForsTypes
      <3>2. step[u] # "take" => at[u] # i
        BY <1>1, <1>2, <2>2 DEF Threads
      <3>3. \A v \in ForsThreads \ {t} : at'[v] = at[v]
        BY <1>1, <1>2 DEF ForsTypes
      <3> QED
        BY <1>2, <1>3, <1>5, <3>1, <3>2, <3>3 DEF Threads
    <2> QED
      BY <2>1, <2>2
  <1>9. Finished'
    <2> SUFFICES ASSUME NEW j \in Trees \ {i}, DoneWith(j)' PROVE DoneWith(j)
      BY <1>1, <1>2, <1>5, <1>7 DEF Finished
    <2> QED
      BY <1>1, <1>2, <1>3 DEF DoneWith, TakenBy, ForsTypes
  <1>10. Published'
    BY <1>1, <1>2, <1>3 DEF Published, LoopEnded
  <1>11. Arrays'
    BY <1>4 DEF ForsInv, Arrays
  <1> QED
    BY <1>6, <1>8, <1>9, <1>10, <1>11 DEF ForsInv

(* After the loop, the roots are those of all iterations.                    *)
LEMMA PublishKeeps == ASSUME ForsInv, Publish PROVE ForsInv'
  <1>1. /\ LoopEnded /\ fors_pk' = PublicKey(roots, fors_addr)
        /\ UNCHANGED <<mhash, fors_addr, todo, at, step, fors_tree_addr, fors_sig, roots>>
    BY DEF Publish
  <1>2. ForsTypes /\ Threads /\ Finished
    BY DEF ForsInv
  <1>3. \A i \in Trees : DoneWith(i)
    BY <1>1, <1>2 DEF LoopEnded, DoneWith, TakenBy, Threads
  <1>4. roots = [i \in Trees |-> TreeOf(i).stack[1]]
    <2>1. \A i \in Trees : roots[i] = TreeOf(i).stack[1]
      BY <1>2, <1>3 DEF Finished
    <2> QED
      BY <2>1 DEF ForsInv, Arrays
  <1>5. ForsTypes' /\ Threads' /\ Finished'
    BY <1>1, <1>2 DEF ForsTypes, Threads, Finished, DoneWith, TakenBy, StartOf, TreeOf, Base
  <1>6. Published'
    BY <1>1, <1>4 DEF Published, LoopEnded, TreeOf, StartOf, Base
  <1>7. Arrays'
    BY <1>1 DEF ForsInv, Arrays
  <1> QED
    BY <1>5, <1>6, <1>7 DEF ForsInv

(* Every step of the loop, by any thread, keeps the invariant.               *)
LEMMA ForsSteps == ForsInv /\ [ForsNext]_fors_vars => ForsInv'
  <1> SUFFICES ASSUME ForsInv, [ForsNext]_fors_vars PROVE ForsInv'
    OBVIOUS
  <1>1. CASE Publish
    BY <1>1, PublishKeeps
  <1>2. ASSUME NEW t \in ForsThreads, Take(t) \/ Reveal(t) \/ Tree(t) PROVE ForsInv'
    BY <1>2, TakeKeeps, RevealKeeps, TreeKeeps
  <1>3. CASE UNCHANGED fors_vars
    <2>1. UNCHANGED <<mhash, fors_addr, todo, at, step, fors_tree_addr, fors_sig, roots, fors_pk>>
      BY <1>3 DEF fors_vars
    <2>2. ForsTypes' /\ Arrays'
      BY <2>1 DEF ForsInv, ForsTypes, Arrays
    <2>3. Threads'
      BY <2>1 DEF ForsInv, Threads, StartOf, Base
    <2>4. Finished'
      BY <2>1 DEF ForsInv, Finished, DoneWith, TakenBy, TreeOf, StartOf, Base
    <2>5. Published'
      BY <2>1 DEF ForsInv, Published, LoopEnded, TreeOf, StartOf, Base
    <2> QED
      BY <2>2, <2>3, <2>4, <2>5 DEF ForsInv
  <1> QED
    BY <1>1, <1>2, <1>3 DEF ForsNext

(* Whatever the threads do when: the signature is the serial one.            *)
LEMMA ForsInvSerial == ForsInv => ForsAsSerial
  <1> SUFFICES ASSUME ForsInv, fors_pk # Garbage
               PROVE  fors_sign(mhash, fors_addr) = [sig |-> fors_sig, pk |-> fors_pk]
    BY DEF ForsAsSerial
  <1>1. ForsTypes /\ Threads /\ Finished /\ LoopEnded
        /\ fors_pk = PublicKey([i \in Trees |-> TreeOf(i).stack[1]], fors_addr)
    BY DEF ForsInv, Published
  <1>2. \A i \in Trees : DoneWith(i)
    BY <1>1 DEF LoopEnded, DoneWith, TakenBy, Threads
  <1>3. \A i \in Trees : fors_sig[i] = [sk |-> prf_addr(StartOf(i)), auth |-> TreeOf(i).auth]
    <2>1. ASSUME NEW i \in Trees PROVE fors_sig[i] = [sk |-> prf_addr(StartOf(i)), auth |-> TreeOf(i).auth]
      <3>1. fors_sig[i] = [sk |-> fors_sig[i].sk, auth |-> fors_sig[i].auth]
        BY <1>1 DEF ForsTypes
      <3>2. fors_sig[i].sk = prf_addr(StartOf(i)) /\ fors_sig[i].auth = TreeOf(i).auth
        BY <1>1, <1>2 DEF Finished
      <3> QED
        BY <3>1, <3>2
    <2> QED
      BY <2>1
  <1>4. fors_sig = [i \in Trees |-> [sk |-> prf_addr(StartOf(i)), auth |-> TreeOf(i).auth]]
    BY <1>3 DEF ForsInv, Arrays
  <1>5. fors_sign(mhash, fors_addr)
          = [sig |-> [i \in Trees |-> [sk |-> prf_addr(StartOf(i)), auth |-> TreeOf(i).auth]],
             pk |-> PublicKey([i \in Trees |-> TreeOf(i).stack[1]], fors_addr)]
    BY DEF fors_sign, TreeOf, StartOf, Base
  <1> QED
    BY <1>1, <1>4, <1>5

-----------------------------------------------------------------------------
(* Division with remainder.                                                  *)
LEMMA Divided ==
    ASSUME NEW n \in Nat, NEW d \in Nat \ {0}
    PROVE  /\ n \div d \in Nat /\ n % d \in 0 .. d - 1
           /\ n = d * (n \div d) + (n % d)
  BY Z3

(* It is the one quotient with a remainder below the divisor.                *)
LEMMA OneQuotient ==
    ASSUME NEW n \in Nat, NEW d \in Nat \ {0}, NEW q \in Nat, NEW e \in 0 .. d - 1, n = d * q + e
    PROVE  n \div d = q
  BY Z3

(* Induction over the natural numbers, for a set.                            *)
LEMMA Induct ==
    ASSUME NEW S, 0 \in S, \A n \in Nat : n \in S => n + 1 \in S
    PROVE  Nat \subseteq S
  <1> SUFFICES ASSUME ~(Nat \subseteq S) PROVE FALSE
    OBVIOUS
  <1> DEFINE Out == {n \in Nat : n \notin S}
  <1>1. Out # {} /\ Out \subseteq Nat
    OBVIOUS
  <1>2. PICK m \in Out : \A k \in Out : <<k, m>> \notin OpToRel(<, Nat)
    BY <1>1, WFMin, NatLessThanWellFounded, Zenon
  <1>3. \A k \in Out : ~(k < m)
    BY <1>1, <1>2 DEF OpToRel
  <1>4. m # 0 /\ m \in Nat
    OBVIOUS
  <1>5. m - 1 \in Nat /\ m - 1 \notin Out
    BY <1>3, <1>4
  <1> QED
    BY <1>4, <1>5

-----------------------------------------------------------------------------
(* Powers of two: the recursion has a solution, so they double.              *)
IsPowers(f, n) == f = [h \in 0 .. n |-> IF h = 0 THEN 1 ELSE 2 * f[h - 1]]

(* For every n the recursion has a solution up to n,                        *)
LEMMA PowersExist == \A n \in Nat : \E f : IsPowers(f, n)
  <1> DEFINE S == {n \in Nat : \E f : IsPowers(f, n)}
  <1>1. 0 \in S
    <2> DEFINE f == [h \in 0 .. 0 |-> 1]
    <2>1. IsPowers(f, 0)
      BY DEF IsPowers
    <2> QED
      BY <2>1
  <1>2. ASSUME NEW n \in Nat, n \in S PROVE n + 1 \in S
    <2>1. PICK f : IsPowers(f, n)
      BY <1>2
    <2> DEFINE longer == [h \in 0 .. n + 1 |-> IF h <= n THEN f[h] ELSE 2 * f[n]]
    <2>2. IsPowers(longer, n + 1)
      BY <2>1 DEF IsPowers
    <2> QED
      BY <2>2
  <1> HIDE DEF S
  <1>3. Nat \subseteq S
    BY <1>1, <1>2, Induct
  <1> QED
    BY <1>3 DEF S

(* solutions agree where both are defined,                                  *)
LEMMA PowersAgree ==
    ASSUME NEW n \in Nat, NEW m \in Nat, m <= n, NEW f, IsPowers(f, n), NEW g, IsPowers(g, m)
    PROVE  f[m] = g[m]
  <1> DEFINE S == {k \in Nat : k <= m => f[k] = g[k]}
  <1>1. 0 \in S
    BY DEF IsPowers
  <1>2. ASSUME NEW k \in Nat, k \in S PROVE k + 1 \in S
    BY <1>2 DEF IsPowers
  <1> HIDE DEF S
  <1>3. m \in S
    BY <1>1, <1>2, Induct
  <1> QED
    BY <1>3 DEF S

(* so Pow2 satisfies its equation.                                          *)
LEMMA Powers ==
    /\ Pow2[0] = 1
    /\ \A n \in Nat : Pow2[n] \in Nat \ {0} /\ Pow2[n + 1] = 2 * Pow2[n]
  <1> DEFINE P(f) == f = [n \in Nat |-> IF n = 0 THEN 1 ELSE 2 * f[n - 1]]
             of(n) == CHOOSE f : IsPowers(f, n)
             all == [n \in Nat |-> of(n)[n]]
  <1>1. \A n \in Nat : IsPowers(of(n), n)
    BY PowersExist
  <1> HIDE DEF of
  <1>2. ASSUME NEW n \in Nat PROVE all[n] = IF n = 0 THEN 1 ELSE 2 * all[n - 1]
    <2>1. CASE n = 0
      BY <1>1, <2>1 DEF IsPowers
    <2>2. CASE n # 0
      <3> DEFINE m == n - 1
      <3>1. m \in Nat /\ m <= n
        BY <2>2
      <3>2. IsPowers(of(n), n) /\ IsPowers(of(m), m)
        BY <1>1, <3>1
      <3>3. of(n)[m] = of(m)[m]
        <4> HIDE DEF m
        <4> QED
          BY <3>1, <3>2, PowersAgree
      <3>4. of(n)[n] = 2 * of(n)[m]
        BY <2>2, <3>2 DEF IsPowers
      <3> QED
        BY <2>2, <3>1, <3>3, <3>4
    <2> QED
      BY <2>1, <2>2
  <1>3. P(all)
    BY <1>2
  <1> HIDE DEF all
  <1>4. P(Pow2)
    <2>1. Pow2 = CHOOSE f : P(f)
      BY DEF Pow2
    <2> QED
      BY <1>3, <2>1, Zenon
  <1>5. Pow2[0] = 1 /\ \A n \in Nat : Pow2[n + 1] = 2 * Pow2[n]
    BY <1>4
  <1> DEFINE S == {n \in Nat : Pow2[n] \in Nat \ {0}}
  <1>6. 0 \in S /\ \A n \in Nat : n \in S => n + 1 \in S
    BY <1>5
  <1> HIDE DEF S
  <1>7. Nat \subseteq S
    BY <1>6, Induct
  <1> QED
    BY <1>5, <1>7 DEF S

-----------------------------------------------------------------------------
(* Shifting by one more is halving.                                          *)
LEMMA ShiftOnce ==
    ASSUME NEW i \in Nat, NEW h \in Nat
    PROVE  /\ Shr(i, 0) = i /\ Shr(i, h) \in Nat
           /\ Shr(i, h + 1) = Shr(i, h) \div 2
  <1> DEFINE d == Pow2[h]  q == i \div d  e == i % d  a == q \div 2  b == q % 2
  <1>1. d \in Nat \ {0} /\ Pow2[h + 1] = 2 * d /\ Pow2[0] = 1
    BY Powers
  <1> HIDE DEF d
  <1>2. q \in Nat /\ e \in 0 .. d - 1 /\ i = d * q + e
    BY <1>1, Divided
  <1> HIDE DEF q, e
  <1>3. a \in Nat /\ b \in 0 .. 1 /\ q = 2 * a + b
    BY <1>2, Divided
  <1> HIDE DEF a, b
  <1>4. i \div (2 * d) = a
    <2> DEFINE dd == 2 * d  ee == d * b + e
    <2>1. i = dd * a + ee
      <3>1. d * q = (2 * d) * a + d * b
        BY <1>1, <1>2, <1>3, Z3
      <3> QED
        BY <1>1, <1>2, <1>3, <3>1, Z3
    <2>2. ee \in 0 .. dd - 1 /\ dd \in Nat \ {0}
      <3>1. CASE b = 0
        <4>1. d * b = 0
          BY <1>1, <3>1
        <4> QED
          BY <1>1, <1>2, <4>1
      <3>2. CASE b = 1
        <4>1. d * b = d
          BY <1>1, <3>2
        <4> QED
          BY <1>1, <1>2, <4>1
      <3> QED
        BY <1>3, <3>1, <3>2
    <2> HIDE DEF dd, ee
    <2>3. i \div dd = a
      BY <1>3, <2>1, <2>2, OneQuotient
    <2> QED
      BY <2>3 DEF dd
  <1>5. Shr(i, 0) = i
    BY <1>1 DEF Shr
  <1> QED
    BY <1>1, <1>2, <1>4, <1>5 DEF Shr, q, a, d

-----------------------------------------------------------------------------
(* The bits of an index, by shifting. Its low h bits are all set:            *)
Ones(i, h) == \A k \in 0 .. h - 1 : Shr(i, k) % 2 = 1

(* Adding one to such an index carries into bit h.                           *)
LEMMA CarryBelow ==
    ASSUME NEW i \in Nat, NEW h \in Nat, Ones(i, h)
    PROVE  \A k \in 0 .. h : Shr(i + 1, k) = Shr(i, k) + 1
  <1> DEFINE S == {k \in Nat : k <= h => Shr(i + 1, k) = Shr(i, k) + 1}
  <1>1. 0 \in S
    BY ShiftOnce
  <1>2. ASSUME NEW k \in Nat, k \in S PROVE k + 1 \in S
    <2> SUFFICES ASSUME k + 1 <= h PROVE Shr(i + 1, k + 1) = Shr(i, k + 1) + 1
      OBVIOUS
    <2> DEFINE i1 == i + 1
    <2>1. Shr(i, k) \in Nat /\ Shr(i, k + 1) = Shr(i, k) \div 2
      BY ShiftOnce
    <2>2. i1 \in Nat
      OBVIOUS
    <2> HIDE DEF i1
    <2>3. Shr(i1, k + 1) = Shr(i1, k) \div 2
      BY <2>2, ShiftOnce
    <2>4. Shr(i1, k) = Shr(i, k) + 1 /\ Shr(i, k) % 2 = 1
      BY <1>2 DEF Ones, i1
    <2>5. Shr(i1, k + 1) = Shr(i, k + 1) + 1
      BY <2>1, <2>3, <2>4
    <2> QED
      BY <2>5 DEF i1
  <1> HIDE DEF S
  <1>3. Nat \subseteq S
    BY <1>1, <1>2, Induct
  <1> QED
    BY <1>3 DEF S

(* and no further, when bit h is clear.                                      *)
LEMMA CarryStops ==
    ASSUME NEW i \in Nat, NEW h \in Nat, Ones(i, h), Shr(i, h) % 2 = 0
    PROVE  \A k \in Nat : k > h => Shr(i + 1, k) = Shr(i, k)
  <1> DEFINE S == {k \in Nat : k > h => Shr(i + 1, k) = Shr(i, k)}
  <1>1. 0 \in S
    OBVIOUS
  <1>2. ASSUME NEW k \in Nat, k \in S PROVE k + 1 \in S
    <2> SUFFICES ASSUME k + 1 > h PROVE Shr(i + 1, k + 1) = Shr(i, k + 1)
      OBVIOUS
    <2> DEFINE i1 == i + 1
    <2>1. Shr(i, k) \in Nat /\ Shr(i, k + 1) = Shr(i, k) \div 2
      BY ShiftOnce
    <2>2. i1 \in Nat
      OBVIOUS
    <2>3. Shr(i1, h) = Shr(i, h) + 1
      BY CarryBelow
    <2>4. k > h => Shr(i1, k) = Shr(i, k)
      BY <1>2
    <2> HIDE DEF i1
    <2>5. Shr(i1, k + 1) = Shr(i1, k) \div 2
      BY <2>2, ShiftOnce
    <2>6. Shr(i1, k + 1) = Shr(i, k + 1)
      <3>1. CASE k = h
        BY <2>1, <2>3, <2>5, <3>1
      <3>2. CASE k > h
        BY <2>1, <2>4, <2>5, <3>2
      <3> QED
        BY <3>1, <3>2
    <2> QED
      BY <2>6 DEF i1
  <1> HIDE DEF S
  <1>3. Nat \subseteq S
    BY <1>1, <1>2, Induct
  <1> QED
    BY <1>3 DEF S

(* An index below 2^H has H bits,                                            *)
LEMMA ShiftBelow ==
    ASSUME NEW H \in Nat, NEW i \in 0 .. Pow2[H] - 1
    PROVE  \A k \in 0 .. H : Shr(i, k) \in 0 .. Pow2[H - k] - 1
  <1> DEFINE S == {k \in Nat : k <= H => Shr(i, k) \in 0 .. Pow2[H - k] - 1}
  <1>1. 0 \in S
    BY ShiftOnce
  <1>2. ASSUME NEW k \in Nat, k \in S PROVE k + 1 \in S
    <2> SUFFICES ASSUME k + 1 <= H PROVE Shr(i, k + 1) \in 0 .. Pow2[H - (k + 1)] - 1
      OBVIOUS
    <2> DEFINE l == H - (k + 1)  p == Pow2[l]
    <2>1. l \in Nat /\ H - k = l + 1 /\ Shr(i, k) \in 0 .. Pow2[H - k] - 1
      BY <1>2
    <2> HIDE DEF l
    <2>2. p \in Nat /\ Pow2[l + 1] = 2 * p
      BY <2>1, Powers
    <2> HIDE DEF p
    <2>3. Shr(i, k) \in 0 .. 2 * p - 1
      BY <2>1, <2>2
    <2>4. Shr(i, k + 1) = Shr(i, k) \div 2
      BY ShiftOnce, Powers
    <2>5. Shr(i, k + 1) \in 0 .. p - 1
      BY <2>2, <2>3, <2>4
    <2> QED
      BY <2>5 DEF p, l
  <1> HIDE DEF S
  <1>3. Nat \subseteq S
    BY <1>1, <1>2, Induct
  <1> QED
    BY <1>3 DEF S

(* and 2^H itself has one, the highest.                                      *)
LEMMA ShiftPower ==
    ASSUME NEW H \in Nat
    PROVE  \A k \in 0 .. H : Shr(Pow2[H], k) = Pow2[H - k]
  <1> DEFINE i == Pow2[H]
             S == {k \in Nat : k <= H => Shr(i, k) = Pow2[H - k]}
  <1>0. i \in Nat /\ H - 0 = H /\ i = Pow2[H]
    BY Powers
  <1> HIDE DEF i
  <1>1. 0 \in S
    <2>1. Shr(i, 0) = i
      BY <1>0, ShiftOnce
    <2> QED
      BY <1>0, <2>1
  <1>2. ASSUME NEW k \in Nat, k \in S PROVE k + 1 \in S
    <2> SUFFICES ASSUME k + 1 <= H PROVE Shr(i, k + 1) = Pow2[H - (k + 1)]
      OBVIOUS
    <2> DEFINE l == H - (k + 1)  p == Pow2[l]
    <2>1. l \in Nat /\ H - k = l + 1 /\ Shr(i, k) = Pow2[H - k]
      BY <1>2
    <2> HIDE DEF l
    <2>2. p \in Nat /\ Pow2[l + 1] = 2 * p
      BY <2>1, Powers
    <2> HIDE DEF p
    <2>3. Shr(i, k) = 2 * p
      BY <2>1, <2>2
    <2>4. Shr(i, k + 1) = Shr(i, k) \div 2
      BY <1>0, ShiftOnce
    <2>5. Shr(i, k + 1) = p
      BY <2>2, <2>3, <2>4
    <2> QED
      BY <2>5 DEF p, l
  <1> HIDE DEF S
  <1>3. Nat \subseteq S
    BY <1>1, <1>2, Induct
  <1> QED
    BY <1>3 DEF S, i

-----------------------------------------------------------------------------
(* A tree to be hashed: its height, the index of its first leaf, the leaves, *)
(* and the address that the call is given.                                   *)
IsTree(a) ==
    /\ a.height \in Nat /\ a.height > 0 /\ a.offset \in Nat
    /\ a.addr \in Addresses
WidthOf(a) == Pow2[a.height]
LeavesOf(a) == 0 .. WidthOf(a) - 1
AroundTree(a) == {a.addr} \cup {NodeAddr(a.addr, h, i, a.offset) : h \in 0 .. a.height, i \in LeavesOf(a)}
Rows(a) == NodesOver(a.row, a.height, a.offset, a.addr)

(* What is known of its parts.                                               *)
LEMMA TreeIs ==
    ASSUME NEW a, IsTree(a)
    PROVE  a.height \in Nat /\ a.height > 0 /\ a.offset \in Nat /\ a.addr \in Addresses
  BY DEF IsTree

(* The nodes over the leaves: the recursion has a solution.                  *)
RowOver(below, h, a) ==
    [i \in 0 .. Pow2[a.height - h] - 1 |->
        thash(<<below[2 * i], below[2 * i + 1]>>, NodeAddr(a.addr, h, i, a.offset))]
AreNodes(f, n, a) == f = [h \in 0 .. n |-> IF h = 0 THEN a.row ELSE RowOver(f[h - 1], h, a)]

(* For every n there are rows of nodes up to height n.                      *)
LEMMA NodesExist == ASSUME NEW a PROVE \A n \in Nat : \E f : AreNodes(f, n, a)
  <1> DEFINE S == {n \in Nat : \E f : AreNodes(f, n, a)}
  <1>1. 0 \in S
    <2> DEFINE f == [h \in 0 .. 0 |-> a.row]
    <2>1. AreNodes(f, 0, a)
      BY DEF AreNodes
    <2> QED
      BY <2>1
  <1>2. ASSUME NEW n \in Nat, n \in S PROVE n + 1 \in S
    <2>1. PICK f : AreNodes(f, n, a)
      BY <1>2
    <2> DEFINE longer == [h \in 0 .. n + 1 |-> IF h <= n THEN f[h] ELSE RowOver(f[n], n + 1, a)]
    <2>2. AreNodes(longer, n + 1, a)
      BY <2>1 DEF AreNodes
    <2> QED
      BY <2>2
  <1> HIDE DEF S
  <1>3. Nat \subseteq S
    BY <1>1, <1>2, Induct
  <1> QED
    BY <1>3 DEF S

(* So the rows are what their equations say.                                 *)
LEMMA NodesAre == ASSUME NEW a, IsTree(a) PROVE AreNodes(Rows(a), a.height, a)
  <1> DEFINE P(f) == AreNodes(f, a.height, a)
  <1>1. \E f : P(f)
    BY NodesExist, TreeIs
  <1>2. Rows(a) = CHOOSE f : P(f)
    BY DEF Rows, NodesOver, AreNodes, RowOver
  <1> QED
    BY <1>1, <1>2, Zenon

(* Row by row: a node hashes the two below it.                              *)
LEMMA NodeRows ==
    ASSUME NEW a, IsTree(a)
    PROVE  /\ Rows(a)[0] = a.row
           /\ \A h \in 0 .. a.height - 1 : \A i \in 0 .. Pow2[a.height - (h + 1)] - 1 :
                 Rows(a)[h + 1][i]
                   = thash(<<Rows(a)[h][2 * i], Rows(a)[h][2 * i + 1]>>,
                           NodeAddr(a.addr, h + 1, i, a.offset))
  <1> DEFINE f == Rows(a)
  <1>1. AreNodes(f, a.height, a)
    BY NodesAre
  <1> HIDE DEF f
  <1>2. f[0] = a.row
    BY <1>1, TreeIs DEF AreNodes
  <1>3. ASSUME NEW h \in 0 .. a.height - 1 PROVE f[h + 1] = RowOver(f[h], h + 1, a)
    BY <1>1, TreeIs DEF AreNodes
  <1> QED
    BY <1>2, <1>3 DEF RowOver, f

-----------------------------------------------------------------------------
(* Two addresses that differ at most in what names a node.                   *)
Alike(b, c) == b.layer = c.layer /\ b.tree = c.tree /\ b.type = c.type /\ b.keypair = c.keypair

(* A node's address takes over nothing else.                                 *)
NodeOf(b, k, j, off) ==
    [layer |-> b.layer, tree |-> b.tree, type |-> b.type, keypair |-> b.keypair,
     b27 |-> k % 256, w28 |-> j + Shr(off, k)]

(* It is an address, like the one it was made from.                          *)
LEMMA NodeAddrIs ==
    ASSUME NEW b \in Addresses, NEW k \in Nat, NEW j \in Nat, NEW off \in Nat
    PROVE  /\ NodeAddr(b, k, j, off) = NodeOf(b, k, j, off)
           /\ NodeAddr(b, k, j, off) \in Addresses
           /\ Alike(NodeAddr(b, k, j, off), b)
  <1> DEFINE c == [b EXCEPT !.b27 = k % 256]  w == j + Shr(off, k)  low == k % 256
  <1>1. b = [layer |-> b.layer, tree |-> b.tree, type |-> b.type, keypair |-> b.keypair,
             b27 |-> b.b27, w28 |-> b.w28]
        /\ b.layer \in Nat /\ b.tree \in Nat /\ b.type \in 0 .. 4 /\ b.keypair \in Nat
    BY DEF Addresses
  <1>2. c = [layer |-> b.layer, tree |-> b.tree, type |-> b.type, keypair |-> b.keypair,
             b27 |-> low, w28 |-> b.w28]
    BY <1>1
  <1>3. NodeAddr(b, k, j, off) = [c EXCEPT !.w28 = w]
    BY DEF NodeAddr, set_tree_index, set_tree_height, Byte
  <1>4. Shr(off, k) \in Nat
    BY ShiftOnce
  <1>5. low \in Nat /\ w \in Nat
    BY <1>4
  <1> HIDE DEF c, w, low
  <1>6. NodeAddr(b, k, j, off)
          = [layer |-> b.layer, tree |-> b.tree, type |-> b.type, keypair |-> b.keypair, b27 |-> low, w28 |-> w]
    BY <1>2, <1>3
  <1>7. NodeAddr(b, k, j, off) \in Addresses /\ Alike(NodeAddr(b, k, j, off), b)
    BY <1>1, <1>5, <1>6 DEF Addresses, Alike
  <1> QED
    BY <1>6, <1>7 DEF w, low, NodeOf

(* The address of a node forgets which node the address was of before.       *)
LEMMA AlikeNodes ==
    ASSUME NEW b \in Addresses, NEW c \in Addresses, Alike(b, c), NEW k \in Nat, NEW j \in Nat, NEW off \in Nat
    PROVE  NodeAddr(b, k, j, off) = NodeAddr(c, k, j, off)
  <1>1. NodeAddr(b, k, j, off) = NodeOf(b, k, j, off) /\ NodeAddr(c, k, j, off) = NodeOf(c, k, j, off)
    BY NodeAddrIs
  <1> QED
    BY <1>1 DEF Alike, NodeOf

(* The addresses a call leaves behind.                                       *)
LEMMA NodeAddrForgets ==
    ASSUME NEW a, IsTree(a), NEW b \in AroundTree(a)
    PROVE  /\ b \in Addresses /\ Alike(b, a.addr)
           /\ \A h \in 0 .. a.height : \A i \in Nat :
                 /\ NodeAddr(b, h, i, a.offset) = NodeAddr(a.addr, h, i, a.offset)
                 /\ i \in LeavesOf(a) => NodeAddr(a.addr, h, i, a.offset) \in AroundTree(a)
  <1>1. a.addr \in Addresses /\ a.offset \in Nat /\ 0 .. a.height \subseteq Nat /\ LeavesOf(a) \subseteq Nat
    BY TreeIs, Powers DEF LeavesOf, WidthOf
  <1>2. b \in Addresses /\ Alike(b, a.addr)
    <2>1. CASE b = a.addr
      BY <1>1, <2>1 DEF Alike
    <2>2. CASE b # a.addr
      <3>1. PICK k \in 0 .. a.height, j \in LeavesOf(a) : b = NodeAddr(a.addr, k, j, a.offset)
        BY <2>2 DEF AroundTree
      <3>2. k \in Nat /\ j \in Nat
        BY <1>1
      <3> QED
        BY <1>1, <3>1, <3>2, NodeAddrIs
    <2> QED
      BY <2>1, <2>2
  <1>3. ASSUME NEW h \in 0 .. a.height, NEW i \in Nat
        PROVE  NodeAddr(b, h, i, a.offset) = NodeAddr(a.addr, h, i, a.offset)
    <2>1. h \in Nat
      BY <1>1
    <2> QED
      BY <1>1, <1>2, <2>1, AlikeNodes
  <1> QED
    BY <1>2, <1>3 DEF AroundTree

(* So trees are the same that have the same leaves and alike addresses.      *)
LEMMA SameRows ==
    ASSUME NEW a, IsTree(a), NEW b, IsTree(b), a.row = b.row, a.height = b.height, a.offset = b.offset,
           Alike(b.addr, a.addr)
    PROVE  \A h \in 0 .. a.height : Rows(b)[h] = Rows(a)[h]
  <1> DEFINE f == Rows(a)  g == Rows(b)
             S == {h \in Nat : h <= a.height => g[h] = f[h]}
  <1>0. /\ AreNodes(f, a.height, a) /\ AreNodes(g, a.height, b)
        /\ a.height \in Nat /\ a.offset \in Nat /\ a.addr \in Addresses /\ b.addr \in Addresses
    BY NodesAre, TreeIs
  <1> HIDE DEF f, g
  <1>1. 0 \in S
    BY <1>0 DEF AreNodes
  <1>2. ASSUME NEW h \in Nat, h \in S PROVE h + 1 \in S
    <2> SUFFICES ASSUME h + 1 <= a.height PROVE g[h + 1] = f[h + 1]
      OBVIOUS
    <2>1. g[h] = f[h] /\ h + 1 \in 0 .. a.height
      BY <1>0, <1>2
    <2>2. \A i \in Nat : NodeAddr(b.addr, h + 1, i, a.offset) = NodeAddr(a.addr, h + 1, i, a.offset)
      BY <1>0, AlikeNodes
    <2>3. 0 .. Pow2[a.height - (h + 1)] - 1 \subseteq Nat
      OBVIOUS
    <2>4. RowOver(g[h], h + 1, b) = RowOver(f[h], h + 1, a)
      BY <2>1, <2>2, <2>3 DEF RowOver
    <2>5. g[h + 1] = RowOver(g[h], h + 1, b) /\ f[h + 1] = RowOver(f[h], h + 1, a)
      BY <1>0, <2>1 DEF AreNodes
    <2> QED
      BY <2>4, <2>5
  <1> HIDE DEF S
  <1>3. Nat \subseteq S
    BY <1>1, <1>2, Induct
  <1> QED
    BY <1>0, <1>3 DEF S, f, g

-----------------------------------------------------------------------------
(* What the stack holds while the leaves are merged. The siblings that the   *)
(* first i leaves have, and with the nodes over leaf i up to height h:       *)
Sib(l, k) == Sibling(Shr(l, k))
PathBelow(a, l, i) == {k \in 0 .. a.height : Sib(l, k) < Shr(i, k)}
PathUpTo(a, l, i, h) == {k \in 0 .. a.height : Sib(l, k) < Shr(i, k) \/ (k <= h /\ Sib(l, k) = Shr(i, k))}
AuthOf(a, l, K) == [k \in K |-> Rows(a)[k][Sib(l, k)]]

Stacks(a, l) ==
    [stack: Seq({Rows(a)[h][i] : h \in 0 .. a.height, i \in Nat}), heights: Seq(0 .. a.height),
     auth: {AuthOf(a, l, K) : K \in SUBSET (0 .. a.height)}, addr: AroundTree(a)]

(* The first n nodes of the stack: one of every set bit of i from bit h on,  *)
(* the highest at the bottom.                                                *)
Holds(a, s, i, n, h) ==
    /\ \A j \in 1 .. n :
        /\ s.heights[j] >= h /\ Shr(i, s.heights[j]) % 2 = 1
        /\ s.stack[j] = Rows(a)[s.heights[j]][Shr(i, s.heights[j]) - 1]
        /\ \A m \in 1 .. n : j < m => s.heights[j] > s.heights[m]
    /\ \A k \in h .. a.height : Shr(i, k) % 2 = 1 => \E j \in 1 .. n : s.heights[j] = k

(* Between two leaves, i of them merged;                                     *)
Between(a, l, s, i) ==
    /\ s \in Stacks(a, l) /\ Len(s.stack) = Len(s.heights)
    /\ Holds(a, s, i, Len(s.stack), 0)
    /\ s.auth = AuthOf(a, l, PathBelow(a, l, i))
    /\ \A k \in 1 .. a.height :
        Len(s.stack) > 0 /\ Top(s.heights) = k => s.addr = NodeAddr(a.addr, k, Shr(i, k) - 1, a.offset)

(* and while the node over leaf i carries upwards.                           *)
Carrying(a, l, s, i, h) ==
    /\ s \in Stacks(a, l) /\ Len(s.stack) = Len(s.heights) /\ Len(s.stack) > 0
    /\ h \in 0 .. a.height /\ Top(s.heights) = h
    /\ Top(s.stack) = Rows(a)[h][Shr(i, h)]
    /\ Ones(i, h)
    /\ Holds(a, s, i, Len(s.stack) - 1, h)
    /\ s.auth = AuthOf(a, l, PathUpTo(a, l, i, h))
    /\ h > 0 => s.addr = NodeAddr(a.addr, h, Shr(i, h), a.offset)

(* Collecting a sibling extends the path by its height.                     *)
LEMMA Collects ==
    ASSUME NEW a, NEW l, NEW K, NEW h
    PROVE  Collect(AuthOf(a, l, K), h, Rows(a)[h][Sib(l, h)]) = AuthOf(a, l, K \cup {h})
  <1> DEFINE f == AuthOf(a, l, K)
  <1>1. DOMAIN f = K /\ \A k \in K : f[k] = Rows(a)[k][Sib(l, k)]
    BY DEF AuthOf
  <1> HIDE DEF f
  <1>2. Collect(f, h, Rows(a)[h][Sib(l, h)]) = AuthOf(a, l, K \cup {h})
    BY <1>1 DEF AuthOf, Collect
  <1> QED
    BY <1>2 DEF f

(* A leaf is pushed.                                                         *)
LEMMA PushCarries ==
    ASSUME NEW a, IsTree(a), NEW l \in LeavesOf(a), NEW i \in LeavesOf(a), NEW s, Between(a, l, s, i),
           NEW t, t = Push(s, Rows(a)[0][i], i, l)
    PROVE  Carrying(a, l, t, i, 0) /\ Len(t.stack) = Len(s.stack) + 1
  <1> DEFINE Nodes == {Rows(a)[h][j] : h \in 0 .. a.height, j \in Nat}
             node == Rows(a)[0][i]
             n == Len(s.stack)
  <1>0. a.height \in Nat /\ LeavesOf(a) \subseteq Nat /\ i \in Nat /\ l \in Nat
    BY Powers, TreeIs DEF LeavesOf, WidthOf
  <1>1. /\ s.stack \in Seq(Nodes) /\ s.heights \in Seq(0 .. a.height)
        /\ n = Len(s.heights) /\ n \in Nat /\ s.addr \in AroundTree(a)
    BY DEF Between, Stacks
  <1>2. node \in Nodes
    BY <1>0
  <1>3. Shr(i, 0) = i /\ Shr(l, 0) = l
    BY <1>0, ShiftOnce
  <1>4. /\ t = [stack |-> Append(s.stack, node), heights |-> Append(s.heights, 0),
                auth |-> IF Sib(l, 0) = i THEN Collect(s.auth, 0, node) ELSE s.auth, addr |-> s.addr]
    <2>1. s = [stack |-> s.stack, heights |-> s.heights, auth |-> s.auth, addr |-> s.addr]
      BY DEF Between, Stacks
    <2> QED
      BY <1>3, <2>1 DEF Push, Sib
  <1>5. t.auth = AuthOf(a, l, PathUpTo(a, l, i, 0))
    <2>1. s.auth = AuthOf(a, l, PathBelow(a, l, i))
      BY DEF Between
    <2>2. CASE Sib(l, 0) = i
      <3>1. PathUpTo(a, l, i, 0) = PathBelow(a, l, i) \cup {0}
        BY <1>0, <1>3, <2>2 DEF PathUpTo, PathBelow
      <3>2. Collect(AuthOf(a, l, PathBelow(a, l, i)), 0, Rows(a)[0][Sib(l, 0)])
               = AuthOf(a, l, PathBelow(a, l, i) \cup {0})
        BY Collects
      <3>3. t.auth = AuthOf(a, l, PathBelow(a, l, i) \cup {0})
        BY <1>4, <2>1, <2>2, <3>2
      <3> QED
        BY <3>1, <3>3
    <2>3. CASE Sib(l, 0) # i
      <3>1. PathUpTo(a, l, i, 0) = PathBelow(a, l, i)
        BY <1>0, <1>3, <2>3 DEF PathUpTo, PathBelow
      <3> QED
        BY <1>4, <2>1, <2>3, <3>1
    <2> QED
      BY <2>2, <2>3
  <1> HIDE DEF Nodes, node
  <1>6. /\ t.stack \in Seq(Nodes) /\ Len(t.stack) = n + 1 /\ t.stack[n + 1] = node
        /\ \A j \in 1 .. n : t.stack[j] = s.stack[j]
    BY <1>1, <1>2, <1>4
  <1>7. /\ t.heights \in Seq(0 .. a.height) /\ Len(t.heights) = n + 1 /\ t.heights[n + 1] = 0
        /\ \A j \in 1 .. n : t.heights[j] = s.heights[j]
    BY <1>0, <1>1, <1>4
  <1>8. Holds(a, t, i, n, 0)
    BY <1>1, <1>6, <1>7, ZenonT(40) DEF Between, Holds
  <1>9. t \in Stacks(a, l)
    <2>1. t.auth \in {AuthOf(a, l, K) : K \in SUBSET (0 .. a.height)}
      BY <1>5 DEF PathUpTo
    <2> QED
      BY <1>1, <1>4, <1>6, <1>7, <2>1 DEF Stacks, Nodes
  <1>10. Ones(i, 0)
    BY DEF Ones
  <1>11. Top(t.stack) = Rows(a)[0][Shr(i, 0)] /\ Top(t.heights) = 0
    BY <1>1, <1>3, <1>6, <1>7 DEF Top, node
  <1> HIDE DEF n
  <1>12. Len(t.stack) - 1 = n /\ Len(t.stack) = Len(t.heights) /\ Len(t.stack) > 0
    BY <1>1, <1>6, <1>7
  <1>13. Carrying(a, l, t, i, 0)
    BY <1>0, <1>5, <1>8, <1>9, <1>10, <1>11, <1>12 DEF Carrying
  <1> QED
    BY <1>6, <1>13 DEF n

(* The top two nodes of a stack, and those below.                            *)
LEMMA Parted ==
    ASSUME NEW S, NEW f \in Seq(S), NEW n \in Nat, Len(f) = n + 2
    PROVE  /\ SubSeq(f, n + 1, n + 2) = <<f[n + 1], f[n + 2]>>
           /\ SubSeq(f, 1, n) \in Seq(S) /\ Len(SubSeq(f, 1, n)) = n
           /\ \A j \in 1 .. n : SubSeq(f, 1, n)[j] = f[j]
  <1>1. n + 1 \in Int /\ n + 2 \in Int /\ n \in Int /\ 1 \in Int
    OBVIOUS
  <1>2. \A j \in 1 .. n + 2 : f[j] \in S
    OBVIOUS
  <1>3. (\A j \in 1 .. n : f[j] \in S) /\ (\A j \in n + 1 .. n + 2 : f[j] \in S)
    BY <1>2
  <1> DEFINE a == n + 1  b == n + 2  g == SubSeq(f, a, b)  c == 1  d == SubSeq(f, c, n)
  <1>4. a \in Int /\ b \in Int /\ c \in Int /\ b = a + 1 /\ a <= b /\ c = 1
    OBVIOUS
  <1>5. (\A j \in c .. n : f[j] \in S) /\ (\A j \in a .. b : f[j] \in S)
    BY <1>3
  <1> HIDE DEF a, b, c
  <1>6. g \in Seq(S) /\ Len(g) = (IF a <= b THEN b - a + 1 ELSE 0) /\ \A j \in 1 .. b - a + 1 : g[j] = f[a + j - 1]
    BY <1>4, <1>5, SubSeqProperties
  <1>7. d \in Seq(S) /\ Len(d) = (IF c <= n THEN n - c + 1 ELSE 0) /\ \A j \in 1 .. n - c + 1 : d[j] = f[c + j - 1]
    BY <1>1, <1>4, <1>5, SubSeqProperties
  <1> HIDE DEF g, d
  <1>8. Len(g) = 2 /\ g[1] = f[a] /\ g[2] = f[b]
    <2>1. b - a + 1 = 2 /\ a + 1 - 1 = a /\ a + 2 - 1 = b
      BY <1>4
    <2> QED
      BY <1>4, <1>6, <2>1
  <1>9. g = <<f[a], f[b]>>
    BY <1>6, <1>8
  <1>10. Len(d) = n /\ \A j \in 1 .. n : d[j] = f[j]
    <2>1. n - c + 1 = n /\ \A j \in 1 .. n : c + j - 1 = j
      BY <1>4
    <2> QED
      BY <1>4, <1>7, <2>1
  <1> QED
    BY <1>7, <1>9, <1>10 DEF a, b, c, d, g

(* Two nodes of a height become the one over both.                           *)
LEMMA MergeCarries ==
    ASSUME NEW a, IsTree(a), NEW l \in LeavesOf(a), NEW i \in LeavesOf(a), NEW h, NEW s,
           Carrying(a, l, s, i, h), CanMerge(s),
           NEW t, t = Merge(s, i, l, a.offset)
    PROVE  Carrying(a, l, t, i, h + 1) /\ Len(t.stack) = Len(s.stack) - 1
  <1> DEFINE Nodes == {Rows(a)[g][j] : g \in 0 .. a.height, j \in Nat}
             n == Len(s.stack) - 2
             u == h + 1
             q == Shr(i, u)
             node == Rows(a)[u][q]
             addr == NodeAddr(a.addr, u, q, a.offset)
  <1>0. a.height \in Nat /\ LeavesOf(a) \subseteq Nat /\ i \in Nat /\ l \in Nat /\ a.addr \in Addresses
        /\ i \in 0 .. Pow2[a.height] - 1
    BY Powers, TreeIs DEF LeavesOf, WidthOf
  <1>1. /\ s.stack \in Seq(Nodes) /\ s.heights \in Seq(0 .. a.height) /\ Len(s.heights) = n + 2 /\ n \in Nat
        /\ Len(s.stack) = n + 2 /\ s.addr \in AroundTree(a) /\ h \in 0 .. a.height
    BY DEF Carrying, Stacks, CanMerge
  <1> HIDE DEF Nodes, n
  <1>2. s.heights[n + 2] = h /\ s.heights[n + 1] = h /\ s.stack[n + 2] = Rows(a)[h][Shr(i, h)]
    BY <1>1 DEF Carrying, Top, CanMerge
  <1>3. Holds(a, s, i, n + 1, h)
    <2>1. Len(s.stack) - 1 = n + 1
      BY <1>1
    <2> QED
      BY <2>1 DEF Carrying
  <1>4. Shr(i, h) % 2 = 1 /\ s.stack[n + 1] = Rows(a)[h][Shr(i, h) - 1]
    <2>1. n + 1 \in 1 .. n + 1
      BY <1>1
    <2> HIDE DEF node
    <2>2. Shr(i, s.heights[n + 1]) % 2 = 1
          /\ s.stack[n + 1] = Rows(a)[s.heights[n + 1]][Shr(i, s.heights[n + 1]) - 1]
      BY <1>3, <2>1 DEF Holds
    <2> QED
      BY <1>2, <2>2
  <1>5. h \in 0 .. a.height - 1
    <2>1. Shr(i, a.height) \in 0 .. Pow2[a.height - a.height] - 1
      BY <1>0, ShiftBelow
    <2>2. Shr(i, a.height) = 0
      BY <1>0, <2>1, Powers
    <2> QED
      BY <1>0, <1>1, <1>4, <2>2
  <1>6. u \in 1 .. a.height /\ h \in Nat
    BY <1>0, <1>5
  <1>7. q \in Nat /\ Shr(i, h) \in Nat /\ q = Shr(i, h) \div 2
    <2>1. Shr(i, h) \in Nat /\ Shr(i, h + 1) = Shr(i, h) \div 2
      BY <1>0, <1>6, ShiftOnce
    <2> QED
      BY <2>1
  <1>8. Shr(i, h) = 2 * q + 1
    <2> HIDE DEF q
    <2> QED
      BY <1>4, <1>7
  <1>9. q \in 0 .. Pow2[a.height - u] - 1 /\ q \in LeavesOf(a)
    <2>1. q \in 0 .. Pow2[a.height - u] - 1
      BY <1>0, <1>6, ShiftBelow
    <2>2. q <= Shr(i, h)
      <3> HIDE DEF q
      <3> QED
        BY <1>7
    <2> DEFINE S == {k \in Nat : Shr(i, k) <= i}
    <2>3. 0 \in S
      BY <1>0, ShiftOnce
    <2>4. ASSUME NEW k \in Nat, k \in S PROVE k + 1 \in S
      <3>1. Shr(i, k) \in Nat /\ Shr(i, k + 1) = Shr(i, k) \div 2
        BY <1>0, ShiftOnce
      <3> QED
        BY <1>0, <2>4, <3>1
    <2> HIDE DEF S
    <2>5. h \in S
      BY <1>6, <2>3, <2>4, Induct
    <2>6. Shr(i, h) <= i
      BY <2>5 DEF S
    <2>7. q <= i
      <3> HIDE DEF q
      <3> QED
        BY <1>0, <1>7, <2>2, <2>6
    <2> HIDE DEF q
    <2> QED
      BY <1>0, <1>7, <2>1, <2>7, Powers DEF LeavesOf, WidthOf
  <1>10. NodeAddr(s.addr, u, q, a.offset) = addr /\ addr \in AroundTree(a)
    <2>1. u \in 0 .. a.height
      BY <1>6
    <2> HIDE DEF u, q
    <2>2. \A b \in AroundTree(a) : NodeAddr(b, u, q, a.offset) = NodeAddr(a.addr, u, q, a.offset)
      BY <1>0, <1>7, <2>1, NodeAddrForgets
    <2>3. NodeAddr(a.addr, u, q, a.offset) \in AroundTree(a)
      BY <1>9, <2>1 DEF AroundTree
    <2> QED
      BY <1>1, <2>2, <2>3
  <1>11. node = thash(<<Rows(a)[h][2 * q], Rows(a)[h][2 * q + 1]>>, addr)
    BY <1>5, <1>9, NodeRows
  <1> HIDE DEF u, q, addr, node
  <1>12. SubSeq(s.stack, n + 1, n + 2) = <<Rows(a)[h][2 * q], Rows(a)[h][2 * q + 1]>>
    <2>1. SubSeq(s.stack, n + 1, n + 2) = <<s.stack[n + 1], s.stack[n + 2]>>
      BY <1>1, Parted
    <2>2. Shr(i, h) - 1 = 2 * q
      BY <1>7, <1>8
    <2> QED
      BY <1>2, <1>4, <1>8, <2>1, <2>2
  <1>13. t = [stack |-> Append(SubSeq(s.stack, 1, n), node), heights |-> Append(SubSeq(s.heights, 1, n), u),
              auth |-> IF Sib(l, u) = q THEN Collect(s.auth, u, node) ELSE s.auth, addr |-> addr]
    <2>1. Top(s.heights) + 1 = u
      BY <1>1, <1>2 DEF Top, u
    <2> QED
      BY <1>10, <1>11, <1>12, <2>1 DEF Merge, Sib, q, n
  <1>14. t.auth = AuthOf(a, l, PathUpTo(a, l, i, u))
    <2>1. s.auth = AuthOf(a, l, PathUpTo(a, l, i, h))
      BY DEF Carrying
    <2>2. CASE Sib(l, u) = q
      <3>1. PathUpTo(a, l, i, u) = PathUpTo(a, l, i, h) \cup {u}
        BY <1>0, <1>1, <1>6, <2>2 DEF PathUpTo, u, q
      <3>2. Collect(AuthOf(a, l, PathUpTo(a, l, i, h)), u, Rows(a)[u][Sib(l, u)])
               = AuthOf(a, l, PathUpTo(a, l, i, h) \cup {u})
        BY Collects
      <3>3. Rows(a)[u][Sib(l, u)] = node
        BY <2>2 DEF node
      <3> QED
        BY <1>13, <2>1, <2>2, <3>1, <3>2, <3>3
    <2>3. CASE Sib(l, u) # q
      <3>1. PathUpTo(a, l, i, u) = PathUpTo(a, l, i, h)
        BY <1>0, <1>1, <1>6, <2>3 DEF PathUpTo, u, q
      <3> QED
        BY <1>13, <2>1, <2>3, <3>1
    <2> QED
      BY <2>2, <2>3
  <1>15. node \in Nodes
    BY <1>6, <1>7 DEF Nodes, node
  <1>16. /\ SubSeq(s.stack, 1, n) \in Seq(Nodes) /\ Len(SubSeq(s.stack, 1, n)) = n
         /\ \A j \in 1 .. n : SubSeq(s.stack, 1, n)[j] = s.stack[j]
         /\ SubSeq(s.heights, 1, n) \in Seq(0 .. a.height) /\ Len(SubSeq(s.heights, 1, n)) = n
         /\ \A j \in 1 .. n : SubSeq(s.heights, 1, n)[j] = s.heights[j]
    <2>1. /\ SubSeq(s.stack, 1, n) \in Seq(Nodes) /\ Len(SubSeq(s.stack, 1, n)) = n
          /\ \A j \in 1 .. n : SubSeq(s.stack, 1, n)[j] = s.stack[j]
      <3> DEFINE f == s.stack
      <3>1. f \in Seq(Nodes) /\ n \in Nat /\ Len(f) = n + 2
        BY <1>1
      <3> HIDE DEF f, n, Nodes
      <3>2. /\ SubSeq(f, 1, n) \in Seq(Nodes) /\ Len(SubSeq(f, 1, n)) = n
            /\ \A j \in 1 .. n : SubSeq(f, 1, n)[j] = f[j]
        BY ONLY <3>1, Parted, ZenonT(30)
      <3> QED
        BY <3>2 DEF f
    <2>2. /\ SubSeq(s.heights, 1, n) \in Seq(0 .. a.height) /\ Len(SubSeq(s.heights, 1, n)) = n
          /\ \A j \in 1 .. n : SubSeq(s.heights, 1, n)[j] = s.heights[j]
      <3> DEFINE f == s.heights  S == 0 .. a.height
      <3>1. f \in Seq(S) /\ n \in Nat /\ Len(f) = n + 2
        BY <1>1
      <3> HIDE DEF f, n, S
      <3>2. /\ SubSeq(f, 1, n) \in Seq(S) /\ Len(SubSeq(f, 1, n)) = n
            /\ \A j \in 1 .. n : SubSeq(f, 1, n)[j] = f[j]
        BY ONLY <3>1, Parted, ZenonT(30)
      <3> QED
        BY <3>2 DEF f, S
    <2> QED
      BY <2>1, <2>2
  <1>17. /\ t.stack \in Seq(Nodes) /\ Len(t.stack) = n + 1 /\ t.stack[n + 1] = node
         /\ \A j \in 1 .. n : t.stack[j] = s.stack[j]
    BY <1>1, <1>13, <1>15, <1>16
  <1>18. /\ t.heights \in Seq(0 .. a.height) /\ Len(t.heights) = n + 1 /\ t.heights[n + 1] = u
         /\ \A j \in 1 .. n : t.heights[j] = s.heights[j]
    BY <1>1, <1>6, <1>13, <1>16
  <1>19. Holds(a, t, i, n, u)
    <2>1. ASSUME NEW j \in 1 .. n
          PROVE  /\ t.heights[j] >= u /\ Shr(i, t.heights[j]) % 2 = 1
                 /\ t.stack[j] = Rows(a)[t.heights[j]][Shr(i, t.heights[j]) - 1]
                 /\ \A m \in 1 .. n : j < m => t.heights[j] > t.heights[m]
      <3>1. s.heights[j] > s.heights[n + 1] /\ s.heights[j] \in Nat
        <4>1. j \in 1 .. n + 1 /\ n + 1 \in 1 .. n + 1 /\ j < n + 1 /\ s.heights[j] \in 0 .. a.height
          <5>1. j \in 1 .. n + 1 /\ n + 1 \in 1 .. n + 1 /\ j < n + 1 /\ j \in 1 .. n + 2
            BY <1>1
          <5>2. s.heights[j] \in 0 .. a.height
            BY <1>1, <5>1, ElementOfSeq, Zenon
          <5> QED
            BY <5>1, <5>2
        <4> QED
          BY <1>0, <1>3, <4>1 DEF Holds
      <3>2. s.heights[j] >= u
        BY <1>2, <1>6, <3>1 DEF u
      <3> QED
        BY <1>1, <1>3, <1>17, <1>18, <3>2, SMTT(30) DEF Holds
    <2>2. ASSUME NEW k \in u .. a.height, Shr(i, k) % 2 = 1 PROVE \E j \in 1 .. n : t.heights[j] = k
      <3>1. k \in h .. a.height /\ k # h
        BY <1>0, <1>6 DEF u
      <3>2. PICK j \in 1 .. n + 1 : s.heights[j] = k
        BY <1>3, <2>2, <3>1 DEF Holds
      <3>3. j \in 1 .. n
        BY <1>1, <1>2, <3>1, <3>2
      <3> QED
        BY <1>18, <3>2, <3>3
    <2> QED
      BY <2>1, <2>2 DEF Holds
  <1>20. t \in Stacks(a, l)
    <2>1. t.auth \in {AuthOf(a, l, K) : K \in SUBSET (0 .. a.height)}
      BY <1>14 DEF PathUpTo
    <2> QED
      <3>1. t = [stack |-> t.stack, heights |-> t.heights, auth |-> t.auth, addr |-> t.addr] /\ t.addr \in AroundTree(a)
        BY <1>10, <1>13
      <3>2. t.stack \in Seq(Nodes) /\ t.heights \in Seq(0 .. a.height)
        BY <1>17, <1>18
      <3> QED
        BY <2>1, <3>1, <3>2 DEF Stacks, Nodes
  <1>21. Ones(i, u)
    BY <1>4, <1>6 DEF Carrying, Ones, u
  <1>22. Top(t.stack) = Rows(a)[u][Shr(i, u)] /\ Top(t.heights) = u
    BY <1>1, <1>17, <1>18 DEF Top, node, q
  <1>23. Len(t.stack) - 1 = n /\ Len(t.stack) = Len(t.heights) /\ Len(t.stack) > 0
    BY <1>1, <1>17, <1>18
  <1>24. u \in 0 .. a.height /\ t.addr = NodeAddr(a.addr, u, Shr(i, u), a.offset)
    BY <1>6, <1>13 DEF addr, q
  <1>25. Carrying(a, l, t, i, u)
    BY <1>14, <1>19, <1>20, <1>21, <1>22, <1>23, <1>24 DEF Carrying
  <1> QED
    BY <1>1, <1>17, <1>25 DEF u, n

(* When nothing merges any more, one leaf more is in.                        *)
LEMMA CarriedIn ==
    ASSUME NEW a, IsTree(a), NEW l \in LeavesOf(a), NEW i \in LeavesOf(a), NEW h, NEW s,
           Carrying(a, l, s, i, h), ~CanMerge(s)
    PROVE  Between(a, l, s, i + 1)
  <1> DEFINE n == Len(s.stack) - 1
             i1 == i + 1
  <1>0. a.height \in Nat /\ i \in Nat /\ l \in Nat
    BY Powers, TreeIs DEF LeavesOf, WidthOf
  <1>1. /\ s.heights \in Seq(0 .. a.height) /\ Len(s.heights) = n + 1 /\ n \in Nat
        /\ Len(s.stack) = n + 1 /\ h \in 0 .. a.height /\ h \in Nat
    BY <1>0 DEF Carrying, Stacks
  <1> HIDE DEF n
  <1>2. s.heights[n + 1] = h /\ s.stack[n + 1] = Rows(a)[h][Shr(i, h)]
    BY <1>1 DEF Carrying, Top
  <1>3. Holds(a, s, i, n, h)
    <2>1. Len(s.stack) - 1 = n
      BY <1>1
    <2> QED
      BY <2>1 DEF Carrying
  <1>4. \A k \in 0 .. a.height : Shr(i, k) \in Nat
    <2>1. 0 .. a.height \subseteq Nat
      BY <1>0
    <2> QED
      BY <1>0, <2>1, ShiftOnce
  <1>5. Shr(i, h) % 2 = 0
    <2>1. Shr(i, h) % 2 # 1
      <3> SUFFICES ASSUME Shr(i, h) % 2 = 1 PROVE FALSE
        OBVIOUS
      <3>1. h \in h .. a.height
        BY <1>1
      <3>2. PICK j \in 1 .. n : s.heights[j] = h
        BY <1>3, <3>1 DEF Holds
      <3>3. s.heights[n] = h
        <4>1. CASE j = n
          BY <3>2, <4>1
        <4>2. CASE j < n
          <5>1. n \in 1 .. n
            BY <1>1, <3>2
          <5>2. s.heights[j] > s.heights[n] /\ s.heights[n] >= h
            BY <1>3, <4>2, <5>1 DEF Holds
          <5>3. n \in 1 .. n + 1
            BY <1>1, <5>1
          <5>4. s.heights[n] \in 0 .. a.height
            BY <1>1, <5>3, ElementOfSeq, Zenon
          <5> QED
            BY <1>1, <3>2, <5>2, <5>4
        <4> QED
          BY <1>1, <4>1, <4>2
      <3>4. Len(s.stack) >= 2 /\ Len(s.heights) - 1 = n /\ Top(s.heights) = h
        BY <1>1, <1>2, <3>2 DEF Top
      <3> QED
        BY <3>3, <3>4 DEF CanMerge
    <2> QED
      BY <1>1, <1>4, <2>1
  <1>6. i1 \in Nat /\ Ones(i, h)
    BY <1>0 DEF Carrying
  <1>7. \A k \in 0 .. h : Shr(i1, k) = Shr(i, k) + 1
    BY <1>0, <1>1, <1>6, CarryBelow
  <1>8. \A k \in Nat : k > h => Shr(i1, k) = Shr(i, k)
    BY <1>0, <1>1, <1>5, <1>6, CarryStops
  <1> HIDE DEF i1
  <1>9. \A k \in 0 .. h - 1 : Shr(i1, k) % 2 = 0
    <2>1. ASSUME NEW k \in 0 .. h - 1 PROVE Shr(i1, k) % 2 = 0
      <3>1. Shr(i, k) % 2 = 1
        BY <1>6 DEF Ones
      <3>2. k \in 0 .. h /\ k \in 0 .. a.height
        BY <1>0, <1>1
      <3>3. Shr(i1, k) = Shr(i, k) + 1 /\ Shr(i, k) \in Nat
        BY <1>4, <1>7, <3>2
      <3> QED
        BY <3>1, <3>3
    <2> QED
      BY <2>1
  <1>10. Shr(i1, h) % 2 = 1 /\ Shr(i1, h) = Shr(i, h) + 1 /\ Shr(i1, h) - 1 = Shr(i, h) /\ Shr(i, h) \in Nat
    <2>1. h \in 0 .. h
      BY <1>1
    <2>2. Shr(i1, h) = Shr(i, h) + 1 /\ Shr(i, h) \in Nat
      BY <1>1, <1>4, <1>7, <2>1
    <2> QED
      BY <1>5, <2>2
  <1>11. \A j \in 1 .. n : s.heights[j] \in 0 .. a.height /\ s.heights[j] > h /\ Shr(i1, s.heights[j]) = Shr(i, s.heights[j])
    <2>1. ASSUME NEW j \in 1 .. n
          PROVE  s.heights[j] \in 0 .. a.height /\ s.heights[j] > h /\ Shr(i1, s.heights[j]) = Shr(i, s.heights[j])
      <3>1. j \in 1 .. n + 1
        BY <1>1
      <3>2. s.heights[j] \in 0 .. a.height
        BY <1>1, <3>1, ElementOfSeq, Zenon
      <3>3. s.heights[j] >= h /\ Shr(i, s.heights[j]) % 2 = 1
        BY <1>3 DEF Holds
      <3>4. s.heights[j] > h
        BY <1>0, <1>1, <1>5, <3>2, <3>3
      <3>5. s.heights[j] \in Nat
        BY <3>2
      <3> QED
        BY <1>8, <3>2, <3>4, <3>5
    <2> QED
      BY <2>1
  <1>12. Holds(a, s, i1, n + 1, 0)
    <2>1. ASSUME NEW j \in 1 .. n + 1
          PROVE  /\ s.heights[j] >= 0 /\ Shr(i1, s.heights[j]) % 2 = 1
                 /\ s.stack[j] = Rows(a)[s.heights[j]][Shr(i1, s.heights[j]) - 1]
                 /\ \A m \in 1 .. n + 1 : j < m => s.heights[j] > s.heights[m]
      <3>1. CASE j = n + 1
        BY <1>1, <1>2, <1>10, <3>1
      <3>2. CASE j # n + 1
        <4>1. j \in 1 .. n
          BY <1>1, <3>2
        <4>2. /\ s.heights[j] >= 0 /\ Shr(i1, s.heights[j]) % 2 = 1
              /\ s.stack[j] = Rows(a)[s.heights[j]][Shr(i1, s.heights[j]) - 1]
          BY <1>3, <1>11, <4>1 DEF Holds
        <4>3. ASSUME NEW m \in 1 .. n + 1, j < m PROVE s.heights[j] > s.heights[m]
          <5>1. CASE m = n + 1
            BY <1>2, <1>11, <4>1, <5>1
          <5>2. CASE m # n + 1
            <6>1. m \in 1 .. n
              BY <1>1, <5>2
            <6> QED
              BY <1>3, <4>1, <4>3, <6>1 DEF Holds
          <5> QED
            BY <5>1, <5>2
        <4> QED
          BY <4>2, <4>3
      <3> QED
        BY <3>1, <3>2
    <2>2. ASSUME NEW k \in 0 .. a.height, Shr(i1, k) % 2 = 1 PROVE \E j \in 1 .. n + 1 : s.heights[j] = k
      <3>1. k >= h
        BY <1>1, <1>9, <2>2
      <3>2. CASE k = h
        BY <1>1, <1>2, <3>2
      <3>3. CASE k > h
        <4>1. k \in h .. a.height /\ Shr(i, k) % 2 = 1
          BY <1>1, <1>8, <2>2, <3>3
        <4>2. PICK j \in 1 .. n : s.heights[j] = k
          BY <1>3, <4>1 DEF Holds
        <4>3. j \in 1 .. n + 1
          BY <1>1
        <4> QED
          BY <4>2, <4>3
      <3> QED
        BY <1>1, <3>1, <3>2, <3>3
    <2> QED
      BY <2>1, <2>2 DEF Holds
  <1>13. s.auth = AuthOf(a, l, PathBelow(a, l, i1))
    <2>1. \A k \in 0 .. a.height : Sib(l, k) \in Int
      <3>1. \A k \in 0 .. a.height : Shr(l, k) \in Nat
        <4>1. 0 .. a.height \subseteq Nat
          BY <1>0
        <4> QED
          BY <1>0, <4>1, ShiftOnce
      <3> QED
        BY <3>1 DEF Sib, Sibling
    <2>2. ASSUME NEW k \in 0 .. a.height
          PROVE  (Sib(l, k) < Shr(i, k) \/ (k <= h /\ Sib(l, k) = Shr(i, k))) <=> Sib(l, k) < Shr(i1, k)
      <3> DEFINE y == Sib(l, k)  z == Shr(i, k)  w == Shr(i1, k)
      <3>1. y \in Int /\ z \in Nat /\ (k <= h => w = z + 1) /\ (k > h => w = z)
        BY <1>0, <1>1, <1>4, <1>7, <1>8, <2>1
      <3> HIDE DEF y, z, w
      <3>2. (y < z \/ (k <= h /\ y = z)) <=> y < w
        BY <1>1, <3>1
      <3> QED
        BY <3>2 DEF y, z, w
    <2>3. PathUpTo(a, l, i, h) = PathBelow(a, l, i1)
      BY <2>2, Zenon DEF PathUpTo, PathBelow
    <2> QED
      BY <2>3 DEF Carrying
  <1>14. \A k \in 1 .. a.height : Top(s.heights) = k => s.addr = NodeAddr(a.addr, k, Shr(i1, k) - 1, a.offset)
    <2>1. ASSUME NEW k \in 1 .. a.height, Top(s.heights) = k
          PROVE  s.addr = NodeAddr(a.addr, k, Shr(i1, k) - 1, a.offset)
      <3>1. k = h /\ h > 0
        BY <1>1, <1>2, <2>1 DEF Top
      <3>2. s.addr = NodeAddr(a.addr, h, Shr(i, h), a.offset)
        BY <3>1 DEF Carrying
      <3> QED
        BY <1>10, <3>1, <3>2
    <2> QED
      BY <2>1
  <1>15. s \in Stacks(a, l) /\ Len(s.stack) = Len(s.heights)
    BY DEF Carrying
  <1>16. Holds(a, s, i1, Len(s.stack), 0)
    BY <1>1, <1>12
  <1>17. Between(a, l, s, i1)
    BY <1>13, <1>14, <1>15, <1>16 DEF Between
  <1> QED
    BY <1>17 DEF i1

-----------------------------------------------------------------------------
(* The inner loop of treehash: the recursion of AddLeaf has a solution.      *)
AreTurns(f, n, first, i, l, off) ==
    f = [k \in 0 .. n |-> IF k = 0 THEN first
                          ELSE IF CanMerge(f[k - 1]) THEN Merge(f[k - 1], i, l, off) ELSE f[k - 1]]

(* For every n there are n turns.                                           *)
LEMMA TurnsExist == ASSUME NEW first, NEW i, NEW l, NEW off PROVE \A n \in Nat : \E f : AreTurns(f, n, first, i, l, off)
  <1> DEFINE S == {n \in Nat : \E f : AreTurns(f, n, first, i, l, off)}
  <1>1. 0 \in S
    <2> DEFINE f == [k \in 0 .. 0 |-> first]
    <2>1. AreTurns(f, 0, first, i, l, off)
      BY DEF AreTurns
    <2> QED
      BY <2>1
  <1>2. ASSUME NEW n \in Nat, n \in S PROVE n + 1 \in S
    <2>1. PICK f : AreTurns(f, n, first, i, l, off)
      BY <1>2
    <2> DEFINE longer == [k \in 0 .. n + 1 |->
                            IF k <= n THEN f[k] ELSE IF CanMerge(f[n]) THEN Merge(f[n], i, l, off) ELSE f[n]]
    <2>2. AreTurns(longer, n + 1, first, i, l, off)
      BY <2>1 DEF AreTurns
    <2> QED
      BY <2>2
  <1> HIDE DEF S
  <1>3. Nat \subseteq S
    BY <1>1, <1>2, Induct
  <1> QED
    BY <1>3 DEF S

(* AddLeaf is the last of them.                                             *)
LEMMA AddLeafTurns ==
    ASSUME NEW s, NEW node, NEW i, NEW l, NEW off, Len(s.stack) \in Nat
    PROVE  \E f : /\ AreTurns(f, Len(s.stack), Push(s, node, i, l), i, l, off)
                  /\ AddLeaf(s, node, i, l, off) = f[Len(s.stack)]
  <1> DEFINE P(f) == AreTurns(f, Len(s.stack), Push(s, node, i, l), i, l, off)
             g == CHOOSE f : P(f)
  <1>1. \E f : P(f)
    BY TurnsExist
  <1>2. P(g)
    BY <1>1, Zenon
  <1>3. AddLeaf(s, node, i, l, off) = g[Len(s.stack)]
    BY DEF AddLeaf, AreTurns
  <1> QED
    BY <1>2, <1>3

(* A leaf goes in, with the nodes it completes.                              *)
LEMMA LeafGoesIn ==
    ASSUME NEW a, IsTree(a), NEW l \in LeavesOf(a), NEW i \in LeavesOf(a), NEW s, Between(a, l, s, i)
    PROVE  Between(a, l, AddLeaf(s, Rows(a)[0][i], i, l, a.offset), i + 1)
  <1> DEFINE first == Push(s, Rows(a)[0][i], i, l)
             n == Len(s.stack)
  <1>1. n \in Nat
    BY DEF Between, Stacks
  <1>2. PICK f : /\ AreTurns(f, n, first, i, l, a.offset)
                 /\ AddLeaf(s, Rows(a)[0][i], i, l, a.offset) = f[n]
    BY <1>1, AddLeafTurns
  <1>3. Carrying(a, l, first, i, 0) /\ Len(first.stack) = n + 1
    BY PushCarries
  <1> HIDE DEF first, n
  <1> DEFINE S == {k \in Nat : k <= n => /\ \E h : Carrying(a, l, f[k], i, h)
                                         /\ Len(f[k].stack) = (n + 1) - k \/ ~CanMerge(f[k])}
  <1>4. 0 \in S
    <2>1. f[0] = first
      BY <1>1, <1>2 DEF AreTurns
    <2> QED
      BY <1>1, <1>3, <2>1
  <1>5. ASSUME NEW k \in Nat, k \in S PROVE k + 1 \in S
    <2> SUFFICES ASSUME k + 1 <= n
                 PROVE  /\ \E h : Carrying(a, l, f[k + 1], i, h)
                        /\ Len(f[k + 1].stack) = (n + 1) - (k + 1) \/ ~CanMerge(f[k + 1])
      OBVIOUS
    <2> DEFINE s1 == f[k]  s2 == f[k + 1]
    <2>1. s2 = IF CanMerge(s1) THEN Merge(s1, i, l, a.offset) ELSE s1
      <3> DEFINE m == k + 1
      <3>1. m \in 0 .. n /\ m # 0 /\ m - 1 = k
        BY <1>1
      <3> HIDE DEF m
      <3>2. f[m] = IF CanMerge(f[m - 1]) THEN Merge(f[m - 1], i, l, a.offset) ELSE f[m - 1]
        BY <1>2, <3>1 DEF AreTurns
      <3> QED
        BY <3>1, <3>2 DEF m
    <2>2. PICK h : Carrying(a, l, s1, i, h)
      BY <1>1, <1>5
    <2>3. Len(s1.stack) = (n + 1) - k \/ ~CanMerge(s1)
      BY <1>1, <1>5
    <2> HIDE DEF s1, s2
    <2>4. CASE CanMerge(s1)
      <3>1. Carrying(a, l, s2, i, h + 1) /\ Len(s2.stack) = Len(s1.stack) - 1
        BY <2>1, <2>2, <2>4, MergeCarries
      <3>2. Len(s2.stack) = (n + 1) - (k + 1)
        BY <1>1, <2>3, <2>4, <3>1
      <3> QED
        BY <3>1, <3>2 DEF s2
    <2>5. CASE ~CanMerge(s1)
      BY <2>1, <2>2, <2>5 DEF s2
    <2> QED
      BY <2>4, <2>5
  <1> HIDE DEF S
  <1>6. n \in S
    BY <1>1, <1>4, <1>5, Induct
  <1> DEFINE last == f[n]
  <1>7. PICK h : Carrying(a, l, last, i, h)
    BY <1>1, <1>6 DEF S
  <1>8. ~CanMerge(last)
    <2>1. n <= n /\ (n + 1) - n = 1
      BY <1>1
    <2> DEFINE d == (n + 1) - n
    <2>2. Len(f[n].stack) = d \/ ~CanMerge(f[n])
      BY <1>6, <2>1, Zenon DEF S
    <2>3. d = 1
      BY <1>1
    <2> QED
      BY <2>2, <2>3 DEF CanMerge
  <1> HIDE DEF last
  <1>9. Between(a, l, last, i + 1)
    BY <1>7, <1>8, CarriedIn
  <1> QED
    BY <1>2, <1>9 DEF last

-----------------------------------------------------------------------------
(* Before the first leaf nothing is there.                                   *)
LEMMA EmptyBetween ==
    ASSUME NEW a, IsTree(a), NEW l \in LeavesOf(a), NEW b \in AroundTree(a)
    PROVE  Between(a, l, EmptyStack(b), 0)
  <1> DEFINE s == EmptyStack(b)
  <1>0. a.height \in Nat /\ l \in Nat /\ 0 .. a.height \subseteq Nat
    BY Powers, TreeIs DEF LeavesOf, WidthOf
  <1>1. s.stack = <<>> /\ s.heights = <<>> /\ s.auth = <<>> /\ s.addr = b
        /\ s = [stack |-> <<>>, heights |-> <<>>, auth |-> <<>>, addr |-> b]
    BY DEF EmptyStack
  <1> HIDE DEF s
  <1>2. \A k \in 0 .. a.height : Shr(0, k) = 0
    <2>1. ASSUME NEW k \in 0 .. a.height PROVE Shr(0, k) = 0
      <3> DEFINE p == Pow2[k]
      <3>1. p \in Nat \ {0}
        BY <1>0, Powers
      <3> HIDE DEF p
      <3>2. 0 = p * 0 + 0 /\ 0 \in 0 .. p - 1 /\ 0 \in Nat
        BY <3>1
      <3>3. 0 \div p = 0
        BY <3>1, <3>2, OneQuotient
      <3> QED
        BY <3>3 DEF Shr, p
    <2> QED
      BY <2>1
  <1>3. \A k \in 0 .. a.height : Sib(l, k) \in Nat
    <2>1. \A k \in 0 .. a.height : Shr(l, k) \in Nat
      BY <1>0, ShiftOnce
    <2> QED
      BY <2>1 DEF Sib, Sibling
  <1>4. PathBelow(a, l, 0) = {}
    BY <1>0, <1>2, <1>3 DEF PathBelow
  <1>5. AuthOf(a, l, {}) = <<>>
    BY DEF AuthOf
  <1>6. s \in Stacks(a, l)
    <2>1. <<>> \in {AuthOf(a, l, K) : K \in SUBSET (0 .. a.height)}
      BY <1>5
    <2>2. <<>> \in Seq({Rows(a)[h][i] : h \in 0 .. a.height, i \in Nat}) /\ <<>> \in Seq(0 .. a.height)
      BY EmptySeq
    <2> QED
      BY <1>1, <2>1, <2>2 DEF Stacks
  <1>7. Len(s.stack) = 0 /\ Len(s.heights) = 0
    BY <1>1
  <1>8. Holds(a, s, 0, Len(s.stack), 0)
    BY <1>2, <1>7 DEF Holds
  <1>9. Between(a, l, s, 0)
    <2>1. s.auth = AuthOf(a, l, PathBelow(a, l, 0))
      BY <1>1, <1>4, <1>5
    <2>2. ~(Len(s.stack) > 0) /\ Len(s.stack) = Len(s.heights)
      BY <1>7
    <2> QED
      BY <1>6, <1>8, <2>1, <2>2 DEF Between
  <1> QED
    BY <1>9 DEF s

(* There is room for another leaf while there is one to come.                *)
LEMMA RoomLeft ==
    ASSUME NEW a, IsTree(a), NEW l, NEW i \in LeavesOf(a), NEW s, Between(a, l, s, i)
    PROVE  Len(s.stack) <= a.height
  <1> DEFINE n == Len(s.stack)
             S == {j \in Nat : 1 <= j /\ j <= n => s.heights[j] + j <= a.height}
  <1>0. a.height \in Nat /\ i \in 0 .. Pow2[a.height] - 1
    BY TreeIs DEF LeavesOf, WidthOf
  <1>1. s.heights \in Seq(0 .. a.height) /\ n = Len(s.heights) /\ n \in Nat /\ Holds(a, s, i, n, 0)
    BY DEF Between, Stacks
  <1> HIDE DEF n
  <1>2. Shr(i, a.height) = 0
    <2>1. Shr(i, a.height) \in 0 .. Pow2[a.height - a.height] - 1
      BY <1>0, ShiftBelow
    <2> QED
      BY <1>0, <2>1, Powers
  <1>3. \A j \in 1 .. n : s.heights[j] \in 0 .. a.height /\ s.heights[j] # a.height
    <2>1. ASSUME NEW j \in 1 .. n PROVE s.heights[j] \in 0 .. a.height /\ s.heights[j] # a.height
      <3>1. s.heights[j] \in 0 .. a.height
        BY <1>1, ElementOfSeq
      <3>2. Shr(i, s.heights[j]) % 2 = 1
        BY <1>1 DEF Holds
      <3> QED
        BY <1>2, <3>1, <3>2
    <2> QED
      BY <2>1
  <1>4. 0 \in S
    OBVIOUS
  <1>5. ASSUME NEW j \in Nat, j \in S PROVE j + 1 \in S
    <2> SUFFICES ASSUME j + 1 <= n PROVE s.heights[j + 1] + (j + 1) <= a.height
      OBVIOUS
    <2>1. j + 1 \in 1 .. n
      BY <1>1
    <2>2. s.heights[j + 1] \in 0 .. a.height /\ s.heights[j + 1] # a.height
      BY <1>3, <2>1
    <2>3. CASE j = 0
      BY <1>0, <2>2, <2>3
    <2>4. CASE j # 0
      <3>1. j \in 1 .. n /\ j < j + 1
        BY <1>1, <2>4
      <3>2. s.heights[j] > s.heights[j + 1]
        BY <1>1, <2>1, <3>1 DEF Holds
      <3>3. s.heights[j] + j <= a.height /\ s.heights[j] \in 0 .. a.height
        BY <1>3, <1>5, <3>1
      <3> QED
        BY <1>0, <2>2, <3>2, <3>3
    <2> QED
      BY <2>3, <2>4
  <1> HIDE DEF S
  <1>6. n \in S
    BY <1>1, <1>4, <1>5, Induct
  <1>7. CASE n = 0
    BY <1>0, <1>7 DEF n
  <1>8. CASE n # 0
    <2>1. n \in 1 .. n
      BY <1>1, <1>8
    <2>2. s.heights[n] + n <= a.height /\ s.heights[n] \in 0 .. a.height
      BY <1>3, <1>6, <2>1 DEF S
    <2>3. n <= a.height
      BY <1>0, <1>1, <2>2
    <2> QED
      BY <2>3 DEF n
  <1> QED
    BY <1>7, <1>8

(* After the last leaf the root is left, and the path is whole.              *)
Whole(a, l) ==
    [stack |-> <<Rows(a)[a.height][0]>>, heights |-> <<a.height>>,
     auth |-> [h \in 0 .. a.height - 1 |-> Rows(a)[h][Sibling(Shr(l, h))]],
     addr |-> NodeAddr(a.addr, a.height, 0, a.offset)]

(* No other bit is set in the number of leaves: the stack has one node.     *)
LEMMA AllIn ==
    ASSUME NEW a, IsTree(a), NEW l \in LeavesOf(a), NEW s, Between(a, l, s, WidthOf(a))
    PROVE  s = Whole(a, l)
  <1> DEFINE n == Len(s.stack)
             H == a.height
  <1>0. H \in Nat /\ H > 0 /\ l \in 0 .. Pow2[H] - 1 /\ l \in Nat
    BY Powers, TreeIs DEF LeavesOf, WidthOf
  <1>1. /\ s.stack \in Seq({Rows(a)[h][i] : h \in 0 .. H, i \in Nat}) /\ s.heights \in Seq(0 .. H)
        /\ n = Len(s.heights) /\ n \in Nat /\ Holds(a, s, WidthOf(a), n, 0)
        /\ s = [stack |-> s.stack, heights |-> s.heights, auth |-> s.auth, addr |-> s.addr]
    BY DEF Between, Stacks
  <1> HIDE DEF n
  <1>2. \A k \in 0 .. H : Shr(WidthOf(a), k) = Pow2[H - k]
    BY <1>0, ShiftPower DEF WidthOf
  <1>3. Shr(WidthOf(a), H) = 1
    <2>1. H \in 0 .. H /\ H - H = 0
      BY <1>0
    <2>2. Shr(WidthOf(a), H) = Pow2[H - H] /\ Pow2[0] = 1
      BY <1>2, <2>1, Powers
    <2> QED
      BY <2>1, <2>2
  <1>4. \A k \in 0 .. H - 1 : Pow2[H - k] = 2 * Pow2[H - (k + 1)] /\ Pow2[H - (k + 1)] \in Nat
    <2>1. ASSUME NEW k \in 0 .. H - 1 PROVE Pow2[H - k] = 2 * Pow2[H - (k + 1)] /\ Pow2[H - (k + 1)] \in Nat
      <3> DEFINE m == H - (k + 1)
      <3>1. m \in Nat /\ H - k = m + 1
        BY <1>0
      <3> HIDE DEF m
      <3>2. Pow2[H - k] = 2 * Pow2[m] /\ Pow2[m] \in Nat
        BY <3>1, Powers
      <3> QED
        BY <3>2 DEF m
    <2> QED
      BY <2>1
  <1>5. \A k \in 0 .. H - 1 : Shr(WidthOf(a), k) % 2 = 0
    <2>1. ASSUME NEW k \in 0 .. H - 1 PROVE Shr(WidthOf(a), k) % 2 = 0
      <3> DEFINE p == Pow2[H - (k + 1)]
      <3>1. Shr(WidthOf(a), k) = 2 * p /\ p \in Nat
        BY <1>0, <1>2, <1>4
      <3> HIDE DEF p
      <3> QED
        BY <3>1
    <2> QED
      BY <2>1
  <1>6. \A j \in 1 .. n : s.heights[j] = H
    <2>1. ASSUME NEW j \in 1 .. n PROVE s.heights[j] = H
      <3>1. s.heights[j] \in 0 .. H
        <4>1. j \in 1 .. Len(s.heights)
          BY <1>1
        <4>2. s.heights \in Seq(0 .. H)
          BY <1>1
        <4> DEFINE f == s.heights
        <4>3. f \in Seq(0 .. H) /\ j \in 1 .. Len(f)
          BY <4>1, <4>2
        <4> HIDE DEF f, H
        <4>4. f[j] \in 0 .. H
          BY <4>3, ElementOfSeq
        <4> QED
          BY <4>4 DEF f
      <3>2. Shr(WidthOf(a), s.heights[j]) % 2 = 1
        BY <1>1 DEF Holds
      <3> QED
        BY <1>0, <1>5, <3>1, <3>2
    <2> QED
      BY <2>1
  <1>7. n = 1
    <2>1. n >= 1
      <3>1. H \in 0 .. H /\ Shr(WidthOf(a), H) % 2 = 1
        BY <1>0, <1>3
      <3>4. Holds(a, s, WidthOf(a), n, 0) /\ H \in 0 .. a.height
        BY <1>1, <3>1
      <3>2. PICK j \in 1 .. n : s.heights[j] = H
        BY ONLY <3>1, <3>4, Zenon DEF Holds
      <3>3. n \in Nat
        BY <1>1
      <3> QED
        BY ONLY <3>2, <3>3, SMTT(30)
    <2>2. ~(n >= 2)
      <3> SUFFICES ASSUME n >= 2 PROVE FALSE
        OBVIOUS
      <3>3. n \in Nat
        BY <1>1
      <3>1. 1 \in 1 .. n /\ 2 \in 1 .. n /\ 1 < 2
        BY ONLY n >= 2, <3>3, SMTT(30)
      <3>4. Holds(a, s, WidthOf(a), n, 0)
        BY <1>1
      <3>5. \A j \in 1 .. n : \A m \in 1 .. n : j < m => s.heights[j] > s.heights[m]
        BY ONLY <3>4, Zenon DEF Holds
      <3>2. s.heights[1] > s.heights[2]
        BY ONLY <3>1, <3>5
      <3> QED
        BY <1>0, <1>6, <3>1, <3>2
    <2>3. n \in Nat
      BY <1>1
    <2> QED
      BY <2>1, <2>2, <2>3
  <1>8. s.heights[1] = H /\ s.stack[1] = Rows(a)[H][0]
    <2>1. 1 \in 1 .. n
      BY <1>7
    <2>2. s.heights[1] = H /\ s.stack[1] = Rows(a)[s.heights[1]][Shr(WidthOf(a), s.heights[1]) - 1]
      BY <1>1, <1>6, <2>1 DEF Holds
    <2>3. Shr(WidthOf(a), H) - 1 = 0
      BY <1>3
    <2> QED
      BY <2>2, <2>3
  <1>9. s.stack = <<Rows(a)[H][0]>> /\ s.heights = <<H>>
    <2>1. Len(s.stack) = 1 /\ Len(s.heights) = 1
      BY <1>1, <1>7 DEF n
    <2> QED
      BY <1>1, <1>8, <2>1
  <1>10. PathBelow(a, l, WidthOf(a)) = 0 .. H - 1
    <2>1. ASSUME NEW k \in 0 .. H - 1 PROVE Sib(l, k) < Shr(WidthOf(a), k)
      <3> DEFINE p == Pow2[H - (k + 1)]  y == Shr(l, k)
      <3>1. k \in 0 .. H
        BY <1>0
      <3>2. y \in 0 .. Pow2[H - k] - 1
        BY <1>0, <3>1, ShiftBelow
      <3>3. y \in 0 .. 2 * p - 1 /\ p \in Nat /\ Shr(WidthOf(a), k) = 2 * p
        BY <1>2, <1>4, <3>1, <3>2
      <3> HIDE DEF p, y
      <3>4. Sibling(y) < 2 * p
        BY <3>3 DEF Sibling
      <3> QED
        BY <3>3, <3>4 DEF Sib, y
    <2>2. ~(Sib(l, H) < Shr(WidthOf(a), H))
      <3>1. H \in 0 .. H
        BY <1>0
      <3>2. Shr(l, H) \in 0 .. Pow2[H - H] - 1
        BY <1>0, <3>1, ShiftBelow
      <3>3. Shr(l, H) = 0
        BY <1>0, <3>2, Powers
      <3> QED
        BY <1>3, <3>3 DEF Sib, Sibling
    <2>3. \A k \in 0 .. H : k # H => k \in 0 .. H - 1
      BY <1>0
    <2>4. \A k \in 0 .. H - 1 : k \in 0 .. H /\ k # H
      BY <1>0
    <2> QED
      BY <2>1, <2>2, <2>3, <2>4 DEF PathBelow
  <1>11. s.auth = [h \in 0 .. H - 1 |-> Rows(a)[h][Sibling(Shr(l, h))]]
    BY <1>10 DEF Between, AuthOf, Sib
  <1>12. s.addr = NodeAddr(a.addr, H, 0, a.offset)
    <2>1. H \in 1 .. H
      BY <1>0
    <2>2. Len(s.stack) > 0 /\ Top(s.heights) = H
      BY <1>1, <1>7, <1>8 DEF Top, n
    <2>3. s.addr = NodeAddr(a.addr, H, Shr(WidthOf(a), H) - 1, a.offset)
      BY <2>1, <2>2 DEF Between
    <2>4. Shr(WidthOf(a), H) - 1 = 0
      BY <1>3
    <2> QED
      BY <2>3, <2>4
  <1> QED
    BY <1>1, <1>9, <1>11, <1>12 DEF Whole

-----------------------------------------------------------------------------
(* What treehash does with the stack: leaf after leaf goes in.               *)
LEMMA TreeGrows ==
    ASSUME NEW a, IsTree(a), NEW l \in LeavesOf(a), NEW b \in AroundTree(a), NEW f,
           f[0] = EmptyStack(b),
           \A k \in LeavesOf(a) : f[k].addr \in AroundTree(a) =>
               f[k + 1] = AddLeaf(f[k], a.row[k], k, l, a.offset)
    PROVE  f[WidthOf(a)] = Whole(a, l)
  <1> DEFINE n == WidthOf(a)
             S == {k \in Nat : k <= n => Between(a, l, f[k], k)}
  <1>1. n \in Nat /\ LeavesOf(a) = 0 .. n - 1
    BY TreeIs, Powers DEF WidthOf, LeavesOf
  <1> HIDE DEF n
  <1>2. 0 \in S
    BY EmptyBetween
  <1>3. ASSUME NEW k \in Nat, k \in S PROVE k + 1 \in S
    <2> SUFFICES ASSUME k + 1 <= n PROVE Between(a, l, f[k + 1], k + 1)
      OBVIOUS
    <2>1. k \in LeavesOf(a) /\ Between(a, l, f[k], k)
      BY <1>1, <1>3
    <2>2. f[k].addr \in AroundTree(a)
      BY <2>1 DEF Between, Stacks
    <2>3. Rows(a)[0][k] = a.row[k]
      BY NodeRows
    <2>4. f[k + 1] = AddLeaf(f[k], Rows(a)[0][k], k, l, a.offset)
      BY <2>1, <2>2, <2>3
    <2>5. Between(a, l, AddLeaf(f[k], Rows(a)[0][k], k, l, a.offset), k + 1)
      BY <2>1, LeafGoesIn
    <2> QED
      BY <2>4, <2>5
  <1> HIDE DEF S
  <1>4. n \in S
    BY <1>1, <1>2, <1>3, Induct
  <1>5. Between(a, l, f[n], n)
    BY <1>1, <1>4 DEF S
  <1> QED
    BY <1>5, AllIn DEF n

-----------------------------------------------------------------------------
(* The tree of a call of treehash_parallel,                                  *)
CallOf(addr) == [height |-> tree_height, offset |-> idx_offset, row |-> Row0(addr), addr |-> addr]

(* which hashes leaves of gen_leaf.                                          *)
LEMMA CallIs ==
    ASSUME NEW addr \in TreeAddrs
    PROVE  /\ IsTree(CallOf(addr)) /\ num_leaves \in Nat
           /\ WidthOf(CallOf(addr)) = num_leaves /\ LeavesOf(CallOf(addr)) = Leaves
           /\ AroundTree(CallOf(addr)) = Around(addr)
           /\ Rows(CallOf(addr)) = TreeUnder(addr)
           /\ \A i \in Leaves : Rows(CallOf(addr))[0][i] = gen_leaf(i + idx_offset, addr)
  <1> DEFINE a == CallOf(addr)
  <1>1. a.height = tree_height /\ a.offset = idx_offset /\ a.row = Row0(addr) /\ a.addr = addr
    BY DEF CallOf
  <1> HIDE DEF a
  <1>2. IsTree(a)
    BY <1>1, TreeAssumption DEF IsTree
  <1>3. WidthOf(a) = num_leaves /\ LeavesOf(a) = Leaves /\ AroundTree(a) = Around(addr)
    BY <1>1 DEF WidthOf, LeavesOf, AroundTree, num_leaves, Leaves, Around
  <1>4. Rows(a) = TreeUnder(addr)
    BY <1>1 DEF Rows, TreeUnder
  <1>5. \A i \in Leaves : Rows(a)[0][i] = gen_leaf(i + idx_offset, addr)
    BY <1>1, <1>2, NodeRows DEF Row0
  <1>6. num_leaves \in Nat
    BY Powers, TreeAssumption DEF num_leaves
  <1> QED
    BY <1>2, <1>3, <1>4, <1>5, <1>6 DEF a

(* The tree is the same for each address the call leaves.                    *)
LEMMA SameCall ==
    ASSUME NEW addr \in TreeAddrs, NEW b \in Around(addr)
    PROVE  \A h \in 0 .. tree_height : TreeUnder(b)[h] = Rows(CallOf(addr))[h]
  <1> DEFINE a == CallOf(addr)  c == CallOf(b)
  <1>1. IsTree(a) /\ b \in AroundTree(a)
    BY CallIs
  <1>2. b \in Addresses /\ Alike(b, a.addr)
    BY <1>1, NodeAddrForgets
  <1>3. IsTree(c)
    BY <1>2, TreeAssumption DEF IsTree, CallOf
  <1>4. \A i \in Leaves : gen_leaf(i + idx_offset, b) = gen_leaf(i + idx_offset, addr)
    BY LeafAssumption
  <1>5. a.row = c.row /\ a.height = c.height /\ a.offset = c.offset /\ Alike(c.addr, a.addr) /\ a.height = tree_height
    BY <1>2, <1>4 DEF CallOf, Row0
  <1>6. Rows(c) = TreeUnder(b)
    BY DEF Rows, TreeUnder, CallOf
  <1> HIDE DEF a, c
  <1>7. \A h \in 0 .. a.height : Rows(c)[h] = Rows(a)[h]
    BY <1>1, <1>3, <1>5, SameRows
  <1> QED
    BY <1>5, <1>6, <1>7 DEF a

(* The serial treehash: its recursion has a solution.                        *)
AreLeaves(f, n, l, b) ==
    f = [k \in 0 .. n |->
            IF k = 0 THEN EmptyStack(b)
            ELSE AddLeaf(f[k - 1], gen_leaf(k - 1 + idx_offset, f[k - 1].addr), k - 1, l, idx_offset)]

(* For every n there are n turns of the outer loop.                         *)
LEMMA LeavesExist == ASSUME NEW l, NEW b PROVE \A n \in Nat : \E f : AreLeaves(f, n, l, b)
  <1> DEFINE S == {n \in Nat : \E f : AreLeaves(f, n, l, b)}
  <1>1. 0 \in S
    <2> DEFINE f == [k \in 0 .. 0 |-> EmptyStack(b)]
    <2>1. AreLeaves(f, 0, l, b)
      BY DEF AreLeaves
    <2> QED
      BY <2>1
  <1>2. ASSUME NEW n \in Nat, n \in S PROVE n + 1 \in S
    <2>1. PICK f : AreLeaves(f, n, l, b)
      BY <1>2
    <2> DEFINE longer == [k \in 0 .. n + 1 |->
                            IF k <= n THEN f[k]
                            ELSE AddLeaf(f[n], gen_leaf(n + idx_offset, f[n].addr), n, l, idx_offset)]
    <2>2. AreLeaves(longer, n + 1, l, b)
      BY <2>1 DEF AreLeaves
    <2> QED
      BY <2>2
  <1> HIDE DEF S
  <1>3. Nat \subseteq S
    BY <1>1, <1>2, Induct
  <1> QED
    BY <1>3 DEF S

(* treehash is the last of them.                                            *)
LEMMA TreehashIs ==
    ASSUME NEW l, NEW b
    PROVE  \E f : /\ AreLeaves(f, num_leaves, l, b)
                  /\ treehash(l, idx_offset, tree_height, gen_leaf, b) = f[num_leaves]
  <1> DEFINE P(f) == AreLeaves(f, num_leaves, l, b)
             g == CHOOSE f : P(f)
  <1>1. num_leaves \in Nat
    BY Powers, TreeAssumption DEF num_leaves
  <1>2. \E f : P(f)
    BY <1>1, LeavesExist
  <1>3. P(g)
    BY <1>2, Zenon
  <1>4. treehash(l, idx_offset, tree_height, gen_leaf, b) = g[num_leaves]
    BY DEF treehash, AreLeaves, num_leaves
  <1> QED
    BY <1>3, <1>4

(* It ends with the root and the path, whichever of the addresses it gets.   *)
LEMMA TreehashWhole ==
    ASSUME NEW addr \in TreeAddrs, NEW l \in Leaves, NEW b \in Around(addr)
    PROVE  treehash(l, idx_offset, tree_height, gen_leaf, b) = Whole(CallOf(addr), l)
  <1> DEFINE a == CallOf(addr)
  <1>1. PICK f : /\ AreLeaves(f, num_leaves, l, b)
                 /\ treehash(l, idx_offset, tree_height, gen_leaf, b) = f[num_leaves]
    BY TreehashIs
  <1>2. /\ IsTree(a) /\ num_leaves \in Nat /\ WidthOf(a) = num_leaves /\ LeavesOf(a) = Leaves
        /\ AroundTree(a) = Around(addr) /\ idx_offset \in Nat
    BY CallIs, TreeAssumption
  <1>3. a.row = Row0(addr) /\ a.offset = idx_offset
    BY DEF CallOf
  <1> HIDE DEF a
  <1>4. f[0] = EmptyStack(b)
    BY <1>1, <1>2 DEF AreLeaves
  <1>5. ASSUME NEW k \in Leaves, f[k].addr \in Around(addr)
        PROVE  f[k + 1] = AddLeaf(f[k], a.row[k], k, l, idx_offset)
    <2> DEFINE m == k + 1
    <2>1. m \in 0 .. num_leaves /\ m # 0 /\ m - 1 = k
      BY <1>2 DEF Leaves
    <2> HIDE DEF m
    <2>2. f[m] = AddLeaf(f[m - 1], gen_leaf(m - 1 + idx_offset, f[m - 1].addr), m - 1, l, idx_offset)
      BY <1>1, <2>1 DEF AreLeaves
    <2>3. gen_leaf(k + idx_offset, f[k].addr) = a.row[k]
      BY <1>3, <1>5, LeafAssumption DEF Row0
    <2> QED
      BY <2>1, <2>2, <2>3 DEF m
  <1>6. f[WidthOf(a)] = Whole(a, l)
    BY <1>2, <1>3, <1>4, <1>5, TreeGrows
  <1> QED
    BY <1>1, <1>2, <1>6 DEF a

-----------------------------------------------------------------------------
(* The chunks of schedule(static) follow one another from the first leaf to  *)
(* the last.                                                                 *)
LEMMA Chunks ==
    /\ ChunkStart(1) = 0 /\ ChunkStart(TreeThreads + 1) = num_leaves
    /\ \A t \in 1 .. TreeThreads + 1 : ChunkStart(t) \in 0 .. num_leaves
    /\ \A t \in Team : ChunkStart(t) <= ChunkStart(t + 1)
  <1> DEFINE q == num_leaves \div TreeThreads
             z == num_leaves % TreeThreads
             T == TreeThreads
  <1>0. T \in Nat /\ T > 0 /\ num_leaves \in Nat
    BY Powers, TreeAssumption DEF num_leaves
  <1>1. q \in Nat /\ z \in 0 .. T - 1 /\ num_leaves = T * q + z
    BY <1>0, Divided
  <1> HIDE DEF q, z, T
  <1>2. \A t : ChunkStart(t) = (t - 1) * q + (IF t - 1 < z THEN t - 1 ELSE z)
    BY DEF ChunkStart, q, z
  <1>3. ChunkStart(1) = 0
    <2>1. ChunkStart(1) = (1 - 1) * q + (IF 1 - 1 < z THEN 1 - 1 ELSE z)
      BY <1>2
    <2> QED
      BY <1>1, <2>1
  <1>4. ChunkStart(T + 1) = num_leaves
    <2>1. ChunkStart(T + 1) = ((T + 1) - 1) * q + (IF (T + 1) - 1 < z THEN (T + 1) - 1 ELSE z)
      BY <1>2
    <2>2. (T + 1) - 1 = T /\ ~(T < z)
      BY <1>0, <1>1
    <2> QED
      BY <1>1, <2>1, <2>2
  <1>5. \A t \in 1 .. T + 1 : ChunkStart(t) \in 0 .. num_leaves
    <2>1. ASSUME NEW t \in 1 .. T + 1 PROVE ChunkStart(t) \in 0 .. num_leaves
      <3> DEFINE d == t - 1  e == IF d < z THEN d ELSE z
      <3>1. d \in 0 .. T /\ d \in Nat
        BY <1>0
      <3>2. ChunkStart(t) = d * q + e
        BY <1>2
      <3> HIDE DEF d
      <3>3. e \in 0 .. z
        BY <1>0, <1>1, <3>1
      <3> HIDE DEF e
      <3>4. d * q \in Nat /\ d * q <= T * q
        BY <1>0, <1>1, <3>1, Z3
      <3>5. T * q \in Nat
        BY <1>0, <1>1
      <3> QED
        BY <1>1, <3>2, <3>3, <3>4, <3>5
    <2> QED
      BY <2>1
  <1>6. \A t \in 1 .. T : ChunkStart(t) <= ChunkStart(t + 1)
    <2>1. ASSUME NEW t \in 1 .. T PROVE ChunkStart(t) <= ChunkStart(t + 1)
      <3> DEFINE d == t - 1  e == IF d < z THEN d ELSE z  g == IF t < z THEN t ELSE z
      <3>1. d \in Nat /\ t = d + 1 /\ (t + 1) - 1 = t
        BY <1>0
      <3>2. ChunkStart(t) = d * q + e
        BY <1>2
      <3>3. ChunkStart(t + 1) = t * q + g
        BY <1>2, <3>1
      <3>4. e <= g /\ e \in Nat /\ g \in Nat
        BY <1>0, <1>1
      <3> HIDE DEF d, e, g
      <3>5. t * q = d * q + q /\ d * q \in Nat
        BY <1>1, <3>1, Z3
      <3> QED
        BY <1>1, <3>2, <3>3, <3>4, <3>5
    <2> QED
      BY <2>1
  <1> QED
    BY <1>3, <1>4, <1>5, <1>6 DEF Team, T

(* So each leaf is in the chunk of a thread.                                 *)
LEMMA ChunksCover ==
    ASSUME NEW i \in Leaves
    PROVE  \E t \in Team : ChunkStart(t) <= i /\ i < ChunkStart(t + 1)
  <1> SUFFICES ASSUME \A t \in Team : ChunkStart(t) <= i => ~(i < ChunkStart(t + 1))
               PROVE  FALSE
    OBVIOUS
  <1> DEFINE S == {t \in Nat : t <= TreeThreads => ChunkStart(t + 1) <= i}
  <1>0. TreeThreads \in Nat /\ i \in Nat /\ i < num_leaves /\ num_leaves \in Nat
    BY Powers, TreeAssumption DEF Leaves, num_leaves
  <1>1. 0 \in S
    <2>1. 0 + 1 = 1
      OBVIOUS
    <2>2. ChunkStart(0 + 1) = 0
      BY <2>1, Chunks
    <2> QED
      BY <1>0, <2>2
  <1>2. ASSUME NEW t \in Nat, t \in S PROVE t + 1 \in S
    <2> SUFFICES ASSUME t + 1 <= TreeThreads PROVE ChunkStart((t + 1) + 1) <= i
      OBVIOUS
    <2> DEFINE u == t + 1
    <2>1. u \in Team /\ u + 1 \in 1 .. TreeThreads + 1 /\ u \in 1 .. TreeThreads + 1
      BY <1>0 DEF Team
    <2>2. ChunkStart(u) <= i
      BY <1>0, <1>2
    <2> HIDE DEF u
    <2>3. ~(i < ChunkStart(u + 1))
      BY <2>1, <2>2
    <2>4. ChunkStart(u + 1) \in 0 .. num_leaves
      BY <2>1, Chunks
    <2>5. ChunkStart(u + 1) <= i
      BY <1>0, <2>3, <2>4
    <2> QED
      BY <2>5 DEF u
  <1> HIDE DEF S
  <1>3. TreeThreads \in S
    BY <1>0, <1>1, <1>2, Induct
  <1>4. ChunkStart(TreeThreads + 1) <= i
    BY <1>0, <1>3 DEF S
  <1> QED
    BY <1>0, <1>4, Chunks

-----------------------------------------------------------------------------
(* The loop over the leaves. Each thread is in its chunk and has written the *)
(* leaves of it so far; the merge finds them all written, and the stack      *)
(* holds what it should of the tree under the address of the call.           *)
TreeState(a) ==
    /\ leaf_idx \in Leaves /\ idx \in 0 .. num_leaves /\ phase \in {"leaves", "merge"}
    /\ next \in [Team -> 0 .. num_leaves] /\ DOMAIN leaves = Leaves
    /\ \A t \in Team : ChunkStart(t) <= next[t] /\ next[t] <= ChunkStart(t + 1)
    /\ \A t \in Team : \A i \in Leaves :
        ChunkStart(t) <= i /\ i < next[t] => leaves[i] = gen_leaf(i + idx_offset, a)
    /\ phase = "leaves" => tree_addr = a /\ idx = 0
    /\ phase = "merge" => TeamArrived
    /\ tree_stack.addr = tree_addr
    /\ Between(CallOf(a), leaf_idx, tree_stack, idx)

TreeInv == \E a \in TreeAddrs : TreeState(a)

(* The loop starts with nothing written and nothing on the stack.           *)
LEMMA TreeStarts == TreeInit => TreeInv
  <1> SUFFICES ASSUME TreeInit PROVE TreeState(tree_addr) /\ tree_addr \in TreeAddrs
    BY DEF TreeInv
  <1> DEFINE a == tree_addr
  <1>0. num_leaves \in Nat /\ TreeThreads \in Nat
    BY Powers, TreeAssumption DEF num_leaves
  <1>1. /\ a \in TreeAddrs /\ leaf_idx \in Leaves /\ next = [t \in Team |-> ChunkStart(t)]
        /\ leaves = [i \in Leaves |-> Garbage] /\ tree_stack = EmptyStack(a) /\ idx = 0 /\ phase = "leaves"
    BY DEF TreeInit
  <1>2. \A t \in Team : ChunkStart(t) \in 0 .. num_leaves /\ ChunkStart(t) <= ChunkStart(t + 1)
    BY <1>0, Chunks DEF Team
  <1>3. Between(CallOf(a), leaf_idx, tree_stack, 0)
    <2>1. /\ IsTree(CallOf(a)) /\ leaf_idx \in LeavesOf(CallOf(a)) /\ a \in AroundTree(CallOf(a))
      BY <1>1, CallIs DEF Around
    <2> QED
      BY <1>1, <2>1, EmptyBetween
  <1>4. tree_stack.addr = a
    BY <1>1 DEF EmptyStack
  <1>5. next \in [Team -> 0 .. num_leaves] /\ \A t \in Team : next[t] = ChunkStart(t)
    BY <1>1, <1>2
  <1>6. \A t \in Team : \A i \in Leaves : ~(ChunkStart(t) <= i /\ i < next[t])
    BY <1>0, <1>2, <1>5 DEF Leaves
  <1>7. \A t \in Team : ChunkStart(t) <= next[t] /\ next[t] <= ChunkStart(t + 1)
    BY <1>2, <1>5
  <1>8. idx \in 0 .. num_leaves /\ DOMAIN leaves = Leaves /\ phase # "merge"
    BY <1>0, <1>1
  <1> QED
    BY <1>1, <1>3, <1>4, <1>5, <1>6, <1>7, <1>8, Zenon DEF TreeState

(* A thread writes a leaf of its chunk, which is what that leaf should be.   *)
LEMMA GenLeafKeeps ==
    ASSUME NEW a \in TreeAddrs, TreeState(a), NEW t \in Team, GenLeaf(t)
    PROVE  TreeState(a)'
  <1>0. num_leaves \in Nat /\ TreeThreads \in Nat
    BY Powers, TreeAssumption DEF num_leaves
  <1>1. /\ next[t] < ChunkStart(t + 1)
        /\ leaves' = [leaves EXCEPT ![next[t]] = gen_leaf(next[t] + idx_offset, tree_addr)]
        /\ next' = [next EXCEPT ![t] = next[t] + 1]
        /\ UNCHANGED <<leaf_idx, tree_addr, tree_stack, idx, phase>>
    BY DEF GenLeaf, LeafIndex
  <1>2. /\ next \in [Team -> 0 .. num_leaves] /\ DOMAIN leaves = Leaves
        /\ \A u \in Team : ChunkStart(u) <= next[u] /\ next[u] <= ChunkStart(u + 1)
    BY DEF TreeState
  <1>3. \A u \in Team : ChunkStart(u) \in 0 .. num_leaves /\ ChunkStart(u + 1) \in 0 .. num_leaves
    <2>1. \A u \in Team : u \in 1 .. TreeThreads + 1 /\ u + 1 \in 1 .. TreeThreads + 1
      BY <1>0 DEF Team
    <2> QED
      BY <2>1, Chunks
  <1>4. phase = "leaves" /\ tree_addr = a
    <2>1. phase # "merge"
      BY <1>0, <1>1, <1>2, <1>3 DEF TreeState, TeamArrived
    <2> QED
      BY <2>1 DEF TreeState
  <1>5. next[t] \in Leaves
    BY <1>0, <1>1, <1>2, <1>3 DEF Leaves
  <1>6. leaves'[next[t]] = gen_leaf(next[t] + idx_offset, a) /\ DOMAIN leaves' = Leaves
        /\ \A i \in Leaves : i # next[t] => leaves'[i] = leaves[i]
    BY <1>1, <1>2, <1>4, <1>5
  <1>7. next' \in [Team -> 0 .. num_leaves] /\ next'[t] = next[t] + 1 /\ \A u \in Team : u # t => next'[u] = next[u]
    <2>1. next[t] + 1 \in 0 .. num_leaves
      BY <1>0, <1>5 DEF Leaves
    <2> QED
      BY <1>1, <1>2, <2>1
  <1>8. \A u \in Team : ChunkStart(u) <= next'[u] /\ next'[u] <= ChunkStart(u + 1)
    BY <1>0, <1>1, <1>2, <1>3, <1>7
  <1>9. ASSUME NEW u \in Team, NEW i \in Leaves, ChunkStart(u) <= i, i < next'[u]
        PROVE  leaves'[i] = gen_leaf(i + idx_offset, a)
    <2>1. CASE i = next[t]
      BY <1>6, <2>1
    <2>2. CASE i # next[t]
      <3>1. i \in Nat /\ next[t] \in Nat
        BY <1>0, <1>5 DEF Leaves
      <3>2. i < next[u]
        BY <1>7, <1>9, <2>2, <3>1
      <3>3. leaves[i] = gen_leaf(i + idx_offset, a)
        BY <1>9, <3>2 DEF TreeState
      <3> QED
        BY <1>6, <2>2, <3>3
    <2> QED
      BY <2>1, <2>2
  <1>10. /\ leaf_idx' = leaf_idx /\ idx' = idx /\ phase' = phase /\ tree_addr' = tree_addr /\ tree_stack' = tree_stack
    BY <1>1
  <1>11. /\ leaf_idx' \in Leaves /\ idx' \in 0 .. num_leaves /\ phase' = "leaves" /\ tree_addr' = a /\ idx' = 0
         /\ tree_stack'.addr = tree_addr' /\ Between(CallOf(a), leaf_idx', tree_stack', idx')
    BY <1>4, <1>10 DEF TreeState
  <1>12. phase' # "merge"
    BY <1>11
  <1>13. \A u \in Team : \A i \in Leaves :
          ChunkStart(u) <= i /\ i < next'[u] => leaves'[i] = gen_leaf(i + idx_offset, a)
    BY <1>9
  <1> QED
    BY <1>6, <1>7, <1>8, <1>11, <1>12, <1>13, Zenon DEF TreeState

(* After the barrier every leaf is written.                                  *)
LEMMA BarrierKeeps ==
    ASSUME NEW a \in TreeAddrs, TreeState(a), Barrier
    PROVE  TreeState(a)'
  <1>1. /\ phase' = "merge" /\ TeamArrived /\ UNCHANGED <<leaf_idx, tree_addr, next, leaves, tree_stack, idx>>
    BY DEF Barrier
  <1>2. TeamArrived'
    BY <1>1 DEF TeamArrived
  <1> QED
    BY <1>1, <1>2 DEF TreeState

(* In the merge phase every leaf is what it should be.                      *)
LEMMA AllWritten ==
    ASSUME NEW a \in TreeAddrs, TreeState(a), phase = "merge", NEW i \in Leaves
    PROVE  leaves[i] = Rows(CallOf(a))[0][i]
  <1>1. PICK t \in Team : ChunkStart(t) <= i /\ i < ChunkStart(t + 1)
    BY ChunksCover
  <1>2. next[t] = ChunkStart(t + 1)
    BY DEF TreeState, TeamArrived
  <1>3. leaves[i] = gen_leaf(i + idx_offset, a)
    BY <1>1, <1>2 DEF TreeState
  <1> QED
    BY <1>3, CallIs

(* The caller merges the next one.                                           *)
LEMMA MergeLeafKeeps ==
    ASSUME NEW a \in TreeAddrs, TreeState(a), MergeLeaf
    PROVE  TreeState(a)'
  <1>0. num_leaves \in Nat
    BY Powers, TreeAssumption DEF num_leaves
  <1>1. /\ phase = "merge" /\ idx < num_leaves
        /\ tree_stack' = AddLeaf(tree_stack, leaves[idx], idx, leaf_idx, idx_offset)
        /\ tree_addr' = tree_stack'.addr /\ idx' = idx + 1
        /\ UNCHANGED <<leaf_idx, next, leaves, phase>>
    BY DEF MergeLeaf
  <1>2. idx \in Leaves /\ idx + 1 \in 0 .. num_leaves /\ leaf_idx \in Leaves
    BY <1>0, <1>1 DEF TreeState, Leaves
  <1>3. leaves[idx] = Rows(CallOf(a))[0][idx]
    BY <1>1, <1>2, AllWritten
  <1>4. Between(CallOf(a), leaf_idx, tree_stack, idx)
    BY DEF TreeState
  <1>5. Between(CallOf(a), leaf_idx, AddLeaf(tree_stack, Rows(CallOf(a))[0][idx], idx, leaf_idx, idx_offset), idx + 1)
    <2> DEFINE c == CallOf(a)
    <2>1. IsTree(c) /\ leaf_idx \in LeavesOf(c) /\ idx \in LeavesOf(c) /\ c.offset = idx_offset
      BY <1>2, CallIs DEF CallOf
    <2> HIDE DEF c
    <2>2. Between(c, leaf_idx, tree_stack, idx)
      BY <1>4 DEF c
    <2>3. Between(c, leaf_idx, AddLeaf(tree_stack, Rows(c)[0][idx], idx, leaf_idx, c.offset), idx + 1)
      BY <2>1, <2>2, LeafGoesIn
    <2> QED
      BY <2>1, <2>3 DEF c
  <1>6. tree_stack' = AddLeaf(tree_stack, Rows(CallOf(a))[0][idx], idx, leaf_idx, idx_offset)
    BY <1>1, <1>3
  <1>7. Between(CallOf(a), leaf_idx', tree_stack', idx')
    <2>1. leaf_idx' = leaf_idx /\ idx' = idx + 1
      BY <1>1
    <2> QED
      BY <1>5, <1>6, <2>1, Zenon
  <1>8. TeamArrived'
    BY <1>1 DEF TreeState, TeamArrived
  <1>9. /\ leaf_idx' = leaf_idx /\ next' = next /\ leaves' = leaves /\ phase' = "merge" /\ tree_stack'.addr = tree_addr'
        /\ idx' \in 0 .. num_leaves /\ phase' # "leaves"
    BY <1>1, <1>2
  <1> QED
    BY <1>7, <1>8, <1>9 DEF TreeState

(* Every step of the loop, by any thread, keeps the invariant.              *)
LEMMA TreeSteps == TreeInv /\ [TreeNext]_tree_vars => TreeInv'
  <1> SUFFICES ASSUME NEW a \in TreeAddrs, TreeState(a), [TreeNext]_tree_vars PROVE TreeState(a)'
    BY DEF TreeInv
  <1>1. ASSUME NEW t \in Team, GenLeaf(t) PROVE TreeState(a)'
    BY <1>1, GenLeafKeeps
  <1>2. CASE Barrier
    BY <1>2, BarrierKeeps
  <1>3. CASE MergeLeaf
    BY <1>3, MergeLeafKeeps
  <1>4. CASE UNCHANGED tree_vars
    <2>1. UNCHANGED <<leaf_idx, tree_addr, next, leaves, tree_stack, idx, phase>>
      BY <1>4 DEF tree_vars
    <2>2. TeamArrived' = TeamArrived
      BY <2>1 DEF TeamArrived
    <2> QED
      BY <2>1, <2>2 DEF TreeState
  <1> QED
    BY <1>1, <1>2, <1>3, <1>4 DEF TreeNext

(* What the state shows of a call.                                           *)
LEMMA TreeInvShows == TreeInv => TreeTypeOK /\ RootAndPath /\ TreeAsSerial /\ StackFits
  <1> SUFFICES ASSUME NEW a \in TreeAddrs, TreeState(a)
               PROVE  TreeTypeOK /\ RootAndPath /\ TreeAsSerial /\ StackFits
    BY DEF TreeInv
  <1>0. num_leaves \in Nat /\ a \in Addresses /\ tree_height \in Nat
    BY Powers, TreeAssumption DEF num_leaves
  <1>1. /\ leaf_idx \in Leaves /\ idx \in 0 .. num_leaves /\ phase \in {"leaves", "merge"}
        /\ next \in [Team -> 0 .. num_leaves] /\ DOMAIN leaves = Leaves
        /\ tree_stack.addr = tree_addr /\ Between(CallOf(a), leaf_idx, tree_stack, idx)
    BY DEF TreeState
  <1> DEFINE c == CallOf(a)
  <1>2. /\ IsTree(c) /\ c.height = tree_height /\ WidthOf(c) = num_leaves /\ LeavesOf(c) = Leaves
        /\ AroundTree(c) = Around(a)
    BY CallIs DEF CallOf
  <1>9. Between(c, leaf_idx, tree_stack, idx)
    BY <1>1
  <1> HIDE DEF c
  <1>3. tree_addr \in Around(a) /\ tree_addr \in Addresses
    <2>1. tree_stack.addr \in AroundTree(c)
      BY <1>9 DEF Between, Stacks
    <2>2. tree_stack.addr \in Addresses
      BY <1>2, <2>1, NodeAddrForgets
    <2> QED
      BY <1>1, <1>2, <2>1, <2>2
  <1>4. TreeTypeOK
    BY <1>1, <1>3 DEF TreeTypeOK
  <1>5. StackFits
    <2> SUFFICES ASSUME phase = "merge", ~Done PROVE Len(tree_stack.stack) <= tree_height
      BY DEF StackFits
    <2>1. idx \in Leaves
      BY <1>0, <1>1 DEF Done, Leaves
    <2> QED
      BY <1>2, <1>9, <2>1, RoomLeft
  <1>6. Done => tree_stack = Whole(c, leaf_idx)
    <2> SUFFICES ASSUME Done PROVE tree_stack = Whole(c, leaf_idx)
      OBVIOUS
    <2>1. Between(c, leaf_idx, tree_stack, WidthOf(c))
      BY <1>2, <1>9 DEF Done
    <2> QED
      BY <1>1, <1>2, <2>1, AllIn
  <1>7. RootAndPath
    <2> DEFINE node == TreeUnder(tree_addr)
    <2>1. \A h \in 0 .. tree_height : node[h] = Rows(c)[h]
      BY <1>3, SameCall DEF c
    <2>2. tree_height \in 0 .. tree_height /\ \A h \in 0 .. tree_height - 1 : h \in 0 .. tree_height
      BY <1>0
    <2> HIDE DEF node
    <2>3. Done => /\ tree_stack.stack = <<node[tree_height][0]>>
                  /\ tree_stack.auth = [h \in 0 .. tree_height - 1 |-> node[h][Sibling(Shr(leaf_idx, h))]]
      BY <1>2, <1>6, <2>1, <2>2 DEF Whole
    <2> QED
      BY <1>1, <2>3 DEF RootAndPath, node
  <1>8. TreeAsSerial
    <2>1. treehash(leaf_idx, idx_offset, tree_height, gen_leaf, tree_addr) = Whole(c, leaf_idx)
      BY <1>1, <1>3, TreehashWhole DEF c
    <2> QED
      BY <1>6, <2>1 DEF TreeAsSerial
  <1> QED
    BY <1>4, <1>5, <1>7, <1>8

-----------------------------------------------------------------------------
LoopsInv == ForsInv /\ TreeInv

(* The two loops together start in their invariants,                        *)
LEMMA LoopsStart == LoopsInit => LoopsInv
  BY ForsStarts, TreeStarts DEF LoopsInit, LoopsInv

(* and keep them.                                                           *)
LEMMA LoopsStep == LoopsInv /\ [LoopsNext]_loops_vars => LoopsInv'
  <1> SUFFICES ASSUME LoopsInv, [LoopsNext]_loops_vars PROVE LoopsInv'
    OBVIOUS
  <1>1. [ForsNext]_fors_vars /\ [TreeNext]_tree_vars
    BY Zenon DEF LoopsNext, loops_vars
  <1> QED
    BY <1>1, ForsSteps, TreeSteps DEF LoopsInv

(* Whatever the threads do when, and for every height of the tree: the       *)
(* parallel loops give what the serial ones give, the tree its root and path, *)
(* and the stack never needs more than its buffer (fors.c:74, utils.c:166).  *)
THEOREM LoopsAlwaysSerial == LoopsSpec => []LoopsAsSerial
  <1>1. LoopsInv => LoopsAsSerial
    BY ForsInvSerial, TreeInvShows DEF LoopsAsSerial, LoopsInv
  <1> QED
    BY <1>1, LoopsStart, LoopsStep, PTL DEF LoopsSpec

(* Its values stay in their sets: no thread runs past the last leaf.         *)
THEOREM LoopsTyped == LoopsSpec => []TreeTypeOK
  <1>1. LoopsInv => TreeTypeOK
    BY TreeInvShows DEF LoopsInv
  <1> QED
    BY <1>1, LoopsStart, LoopsStep, PTL DEF LoopsSpec

-----------------------------------------------------------------------------
(* The trees of a signature. A WOTS tree, by the address the call is given.  *)
WotsRow(addr) == [i \in 0 .. Pow2[SPX_TREE_HEIGHT] - 1 |-> wots_gen_leaf(i, addr)]
WotsTree(addr) == [height |-> SPX_TREE_HEIGHT, offset |-> 0, row |-> WotsRow(addr), addr |-> addr]
WotsRoot(addr) == Rows(WotsTree(addr))[SPX_TREE_HEIGHT][0]

(* A leaf depends on the layer and the tree of the address alone.            *)
LEMMA WotsLeafReads ==
    ASSUME NEW b, NEW c, b.layer = c.layer, b.tree = c.tree, NEW i
    PROVE  wots_gen_leaf(i, b) = wots_gen_leaf(i, c)
  BY DEF wots_gen_leaf, WotsAddr, copy_subtree_addr

(* The turns of treehash over WOTS leaves.                                   *)
AreWotsLeaves(f, n, l, b) ==
    f = [k \in 0 .. n |->
            IF k = 0 THEN EmptyStack(b)
            ELSE AddLeaf(f[k - 1], wots_gen_leaf(k - 1 + 0, f[k - 1].addr), k - 1, l, 0)]

(* For every n there are n of them.                                         *)
LEMMA WotsLeavesExist == ASSUME NEW l, NEW b PROVE \A n \in Nat : \E f : AreWotsLeaves(f, n, l, b)
  <1> DEFINE S == {n \in Nat : \E f : AreWotsLeaves(f, n, l, b)}
  <1>1. 0 \in S
    <2> DEFINE f == [k \in 0 .. 0 |-> EmptyStack(b)]
    <2>1. AreWotsLeaves(f, 0, l, b)
      BY DEF AreWotsLeaves
    <2> QED
      BY <2>1
  <1>2. ASSUME NEW n \in Nat, n \in S PROVE n + 1 \in S
    <2>1. PICK f : AreWotsLeaves(f, n, l, b)
      BY <1>2
    <2> DEFINE longer == [k \in 0 .. n + 1 |->
                            IF k <= n THEN f[k]
                            ELSE AddLeaf(f[n], wots_gen_leaf(n + 0, f[n].addr), n, l, 0)]
    <2>2. AreWotsLeaves(longer, n + 1, l, b)
      BY <2>1 DEF AreWotsLeaves
    <2> QED
      BY <2>2
  <1> HIDE DEF S
  <1>3. Nat \subseteq S
    BY <1>1, <1>2, Induct
  <1> QED
    BY <1>3 DEF S

(* Whatever address treehash starts from, it returns the tree's root and     *)
(* the path of the leaf that is asked for.                                   *)
LEMMA WotsTreehash ==
    ASSUME NEW b \in Addresses, NEW l \in 0 .. Pow2[SPX_TREE_HEIGHT] - 1
    PROVE  /\ IsTree(WotsTree(b))
           /\ treehash(l, 0, SPX_TREE_HEIGHT, wots_gen_leaf, b) = Whole(WotsTree(b), l)
  <1> DEFINE a == WotsTree(b)
             n == Pow2[SPX_TREE_HEIGHT]
             P(f) == AreWotsLeaves(f, n, l, b)
             f == CHOOSE g : P(g)
  <1>1. n \in Nat /\ SPX_TREE_HEIGHT \in Nat /\ SPX_TREE_HEIGHT > 0
    BY SphincsAssumption, Powers
  <1>2. \E g : P(g)
    BY <1>1, WotsLeavesExist
  <1>3. P(f)
    BY <1>2, Zenon
  <1>4. treehash(l, 0, SPX_TREE_HEIGHT, wots_gen_leaf, b) = f[n]
    BY DEF treehash, AreWotsLeaves
  <1>5. /\ a.height = SPX_TREE_HEIGHT /\ a.offset = 0 /\ a.addr = b /\ a.row = WotsRow(b)
    BY DEF WotsTree
  <1> HIDE DEF a, f
  <1>6. IsTree(a) /\ WidthOf(a) = n /\ LeavesOf(a) = 0 .. n - 1 /\ b \in AroundTree(a)
    BY <1>1, <1>5 DEF IsTree, WidthOf, LeavesOf, AroundTree
  <1> HIDE DEF n
  <1>7. f[0] = EmptyStack(b)
    BY <1>1, <1>3 DEF AreWotsLeaves
  <1>8. ASSUME NEW k \in 0 .. n - 1, f[k].addr \in AroundTree(a)
        PROVE  f[k + 1] = AddLeaf(f[k], a.row[k], k, l, 0)
    <2> DEFINE m == k + 1
    <2>1. m \in 0 .. n /\ m # 0 /\ m - 1 = k /\ k + 0 = k
      BY <1>1
    <2> HIDE DEF m
    <2>2. f[m] = AddLeaf(f[m - 1], wots_gen_leaf(m - 1 + 0, f[m - 1].addr), m - 1, l, 0)
      BY <1>3, <2>1 DEF AreWotsLeaves
    <2>3. Alike(f[k].addr, b)
      BY <1>5, <1>6, <1>8, NodeAddrForgets
    <2>4. wots_gen_leaf(k, f[k].addr) = wots_gen_leaf(k, b)
      BY <2>3, WotsLeafReads DEF Alike
    <2>5. a.row[k] = wots_gen_leaf(k, b)
      BY <1>5 DEF WotsRow, n
    <2> QED
      BY <2>1, <2>2, <2>4, <2>5 DEF m
  <1>9. l \in LeavesOf(a)
    BY <1>6 DEF n
  <1>10. f[WidthOf(a)] = Whole(a, l)
    <2>1. \A k \in LeavesOf(a) : f[k].addr \in AroundTree(a) =>
             f[k + 1] = AddLeaf(f[k], a.row[k], k, l, a.offset)
      BY <1>5, <1>6, <1>8, ZenonT(30)
    <2>2. IsTree(a) /\ b \in AroundTree(a)
      BY <1>6
    <2> QED
      BY ONLY <1>7, <1>9, <2>1, <2>2, TreeGrows, ZenonT(30)
  <1> QED
    BY <1>4, <1>6, <1>10 DEF a

(* Addresses that differ in what names a node have the same tree.            *)
LEMMA SameWotsTree ==
    ASSUME NEW b \in Addresses, NEW c \in Addresses, Alike(b, c)
    PROVE  /\ WotsRoot(b) = WotsRoot(c)
           /\ \A h \in 0 .. SPX_TREE_HEIGHT : Rows(WotsTree(b))[h] = Rows(WotsTree(c))[h]
  <1> DEFINE a == WotsTree(c)  d == WotsTree(b)
  <1>1. SPX_TREE_HEIGHT \in Nat /\ SPX_TREE_HEIGHT > 0
    BY SphincsAssumption
  <1>2. \A i : wots_gen_leaf(i, b) = wots_gen_leaf(i, c)
    BY WotsLeafReads DEF Alike
  <1>3. a.row = d.row /\ a.height = d.height /\ a.offset = d.offset /\ Alike(d.addr, a.addr)
        /\ a.height = SPX_TREE_HEIGHT
    BY <1>2 DEF WotsTree, WotsRow
  <1>4. IsTree(a) /\ IsTree(d)
    BY <1>1 DEF IsTree, WotsTree
  <1> HIDE DEF a, d
  <1>5. \A h \in 0 .. a.height : Rows(d)[h] = Rows(a)[h]
    BY <1>3, <1>4, SameRows
  <1>6. SPX_TREE_HEIGHT \in 0 .. SPX_TREE_HEIGHT
    BY <1>1
  <1> QED
    BY <1>3, <1>5, <1>6 DEF WotsRoot, a, d

-----------------------------------------------------------------------------
(* Tree i of a FORS key pair.                                                *)
ForsRow(i, addr) == [k \in 0 .. Pow2[SPX_FORS_HEIGHT] - 1 |-> fors_gen_leaf(k + IdxOffset(i), addr)]
ForsTree(i, addr) ==
    [height |-> SPX_FORS_HEIGHT, offset |-> IdxOffset(i), row |-> ForsRow(i, addr), addr |-> addr]

(* A leaf depends on what alike addresses have in common.                    *)
LEMMA ForsLeafReads ==
    ASSUME NEW b, NEW c, Alike(b, c), NEW i
    PROVE  fors_gen_leaf(i, b) = fors_gen_leaf(i, c)
  BY DEF fors_gen_leaf, KeypairAddr, copy_keypair_addr, Alike

(* The turns of treehash over FORS leaves.                                   *)
AreForsLeaves(f, n, i, l, b) ==
    f = [k \in 0 .. n |->
            IF k = 0 THEN EmptyStack(b)
            ELSE AddLeaf(f[k - 1], fors_gen_leaf(k - 1 + IdxOffset(i), f[k - 1].addr), k - 1, l, IdxOffset(i))]

(* For every n there are n of them.                                         *)
LEMMA ForsLeavesExist == ASSUME NEW i, NEW l, NEW b PROVE \A n \in Nat : \E f : AreForsLeaves(f, n, i, l, b)
  <1> DEFINE S == {n \in Nat : \E f : AreForsLeaves(f, n, i, l, b)}
  <1>1. 0 \in S
    <2> DEFINE f == [k \in 0 .. 0 |-> EmptyStack(b)]
    <2>1. AreForsLeaves(f, 0, i, l, b)
      BY DEF AreForsLeaves
    <2> QED
      BY <2>1
  <1>2. ASSUME NEW n \in Nat, n \in S PROVE n + 1 \in S
    <2>1. PICK f : AreForsLeaves(f, n, i, l, b)
      BY <1>2
    <2> DEFINE longer == [k \in 0 .. n + 1 |->
                            IF k <= n THEN f[k]
                            ELSE AddLeaf(f[n], fors_gen_leaf(n + IdxOffset(i), f[n].addr), n, l, IdxOffset(i))]
    <2>2. AreForsLeaves(longer, n + 1, i, l, b)
      BY <2>1 DEF AreForsLeaves
    <2> QED
      BY <2>2
  <1> HIDE DEF S
  <1>3. Nat \subseteq S
    BY <1>1, <1>2, Induct
  <1> QED
    BY <1>3 DEF S

(* The leaves before tree i.                                                 *)
LEMMA OffsetIs ==
    ASSUME NEW i \in Trees
    PROVE  IdxOffset(i) \in Nat
  <1>1. i \in Nat /\ Pow2[SPX_FORS_HEIGHT] \in Nat
    BY ForsAssumption, Powers DEF Trees
  <1> DEFINE p == Pow2[SPX_FORS_HEIGHT]
  <1>2. p \in Nat
    BY <1>1
  <1> HIDE DEF p
  <1>3. i * p \in Nat
    BY <1>1, <1>2
  <1> QED
    BY <1>3 DEF IdxOffset, p

(* The root and the path of tree i, from any address the call is given.      *)
LEMMA ForsTreehash ==
    ASSUME NEW b \in Addresses, NEW i \in Trees, NEW l \in 0 .. Pow2[SPX_FORS_HEIGHT] - 1
    PROVE  /\ IsTree(ForsTree(i, b))
           /\ SignedTree(i, l, b) = Whole(ForsTree(i, b), l)
  <1> DEFINE a == ForsTree(i, b)
             n == Pow2[SPX_FORS_HEIGHT]
             off == IdxOffset(i)
             P(f) == AreForsLeaves(f, n, i, l, b)
             f == CHOOSE g : P(g)
  <1>1. n \in Nat /\ SPX_FORS_HEIGHT \in Nat /\ SPX_FORS_HEIGHT > 0
    BY ForsAssumption, Powers
  <1>2. \E g : P(g)
    BY <1>1, ForsLeavesExist
  <1>3. P(f)
    BY <1>2, Zenon
  <1>4. SignedTree(i, l, b) = f[n]
    BY DEF SignedTree, treehash, AreForsLeaves
  <1>5. /\ a.height = SPX_FORS_HEIGHT /\ a.offset = off /\ a.addr = b /\ a.row = ForsRow(i, b)
    BY DEF ForsTree
  <1> HIDE DEF a, f
  <1>6. IsTree(a) /\ WidthOf(a) = n /\ LeavesOf(a) = 0 .. n - 1 /\ b \in AroundTree(a)
    BY <1>1, <1>5, OffsetIs DEF IsTree, WidthOf, LeavesOf, AroundTree
  <1> HIDE DEF n, off
  <1>7. f[0] = EmptyStack(b)
    BY <1>1, <1>3 DEF AreForsLeaves
  <1>8. ASSUME NEW k \in 0 .. n - 1, f[k].addr \in AroundTree(a)
        PROVE  f[k + 1] = AddLeaf(f[k], a.row[k], k, l, off)
    <2> DEFINE m == k + 1
    <2>1. m \in 0 .. n /\ m # 0 /\ m - 1 = k
      BY <1>1
    <2> HIDE DEF m
    <2>2. f[m] = AddLeaf(f[m - 1], fors_gen_leaf(m - 1 + IdxOffset(i), f[m - 1].addr), m - 1, l, IdxOffset(i))
      BY <1>3, <2>1 DEF AreForsLeaves
    <2>3. Alike(f[k].addr, b)
      BY <1>5, <1>6, <1>8, NodeAddrForgets
    <2>4. fors_gen_leaf(k + IdxOffset(i), f[k].addr) = fors_gen_leaf(k + IdxOffset(i), b)
      BY <2>3, ForsLeafReads
    <2>5. a.row[k] = fors_gen_leaf(k + IdxOffset(i), b)
      BY <1>5 DEF ForsRow, n
    <2> QED
      BY <2>1, <2>2, <2>4, <2>5 DEF m, off
  <1>9. l \in LeavesOf(a)
    BY <1>6 DEF n
  <1>10. f[WidthOf(a)] = Whole(a, l)
    <2>1. \A k \in LeavesOf(a) : f[k].addr \in AroundTree(a) =>
             f[k + 1] = AddLeaf(f[k], a.row[k], k, l, a.offset)
      BY <1>5, <1>6, <1>8, ZenonT(30)
    <2>2. IsTree(a) /\ b \in AroundTree(a)
      BY <1>6
    <2> QED
      BY ONLY <1>7, <1>9, <2>1, <2>2, TreeGrows, ZenonT(30)
  <1> QED
    BY <1>4, <1>6, <1>10 DEF a

(* Addresses that differ in what names a node have the same tree.            *)
LEMMA SameForsTree ==
    ASSUME NEW b \in Addresses, NEW c \in Addresses, Alike(b, c), NEW i \in Trees
    PROVE  \A h \in 0 .. SPX_FORS_HEIGHT : Rows(ForsTree(i, b))[h] = Rows(ForsTree(i, c))[h]
  <1> DEFINE a == ForsTree(i, c)  d == ForsTree(i, b)
  <1>1. \A k : fors_gen_leaf(k, b) = fors_gen_leaf(k, c)
    BY ForsLeafReads
  <1>2. a.row = d.row /\ a.height = d.height /\ a.offset = d.offset /\ Alike(d.addr, a.addr)
        /\ a.height = SPX_FORS_HEIGHT
    BY <1>1 DEF ForsTree, ForsRow
  <1>3. IsTree(a) /\ IsTree(d)
    BY ForsAssumption, OffsetIs DEF IsTree, ForsTree
  <1> HIDE DEF a, d
  <1>4. \A h \in 0 .. a.height : Rows(d)[h] = Rows(a)[h]
    BY <1>2, <1>3, SameRows
  <1> QED
    BY <1>2, <1>4 DEF a, d

-----------------------------------------------------------------------------
(* Each bit of a digest is one of its bytes'.                                *)
LEMMA BitIs ==
    ASSUME NEW m \in [1 .. SPX_FORS_MSG_BYTES -> 0 .. Byte - 1],
           NEW o \in 0 .. SPX_FORS_HEIGHT * SPX_FORS_TREES - 1
    PROVE  BitOf(m, o) \in 0 .. 1
  <1> DEFINE n == SPX_FORS_HEIGHT * SPX_FORS_TREES
             q == o \div 8
             z == o % 8
             byte == m[q + 1]
  <1>1. n \in Nat
    BY ForsAssumption
  <1> HIDE DEF n
  <1>2. o \in 0 .. n - 1
    BY DEF n
  <1>3. q \in Nat /\ z \in Nat /\ q + 1 \in 1 .. (n + 7) \div 8
    BY <1>1, <1>2
  <1>4. byte \in Nat
    <2>1. q + 1 \in 1 .. SPX_FORS_MSG_BYTES
      BY <1>3 DEF SPX_FORS_MSG_BYTES, n
    <2> HIDE DEF q
    <2>2. byte \in 0 .. Byte - 1 /\ Byte \in Nat
      BY <2>1 DEF Byte
    <2> HIDE DEF byte
    <2> QED
      BY <2>2
  <1> HIDE DEF byte, q, z
  <1>5. Shr(byte, z) \in Nat
    BY <1>3, <1>4, ShiftOnce
  <1>6. Shr(byte, z) % 2 \in 0 .. 1
    BY <1>5
  <1> QED
    BY <1>6 DEF BitOf, byte, q, z

(* The recursion of an index has a solution.                                 *)
AreLow(f, n, m, i) ==
    f = [j \in 0 .. n |-> IF j = 0 THEN 0 ELSE f[j - 1] + Pow2[j - 1] * BitOf(m, i * SPX_FORS_HEIGHT + j - 1)]

(* For every n there are n turns.                                           *)
LEMMA LowExist == ASSUME NEW m, NEW i PROVE \A n \in Nat : \E f : AreLow(f, n, m, i)
  <1> DEFINE S == {n \in Nat : \E f : AreLow(f, n, m, i)}
  <1>1. 0 \in S
    <2> DEFINE f == [j \in 0 .. 0 |-> 0]
    <2>1. AreLow(f, 0, m, i)
      BY DEF AreLow
    <2> QED
      BY <2>1
  <1>2. ASSUME NEW n \in Nat, n \in S PROVE n + 1 \in S
    <2>1. PICK f : AreLow(f, n, m, i)
      BY <1>2
    <2> DEFINE longer == [j \in 0 .. n + 1 |->
                            IF j <= n THEN f[j] ELSE f[j - 1] + Pow2[j - 1] * BitOf(m, i * SPX_FORS_HEIGHT + j - 1)]
    <2>2. ASSUME NEW j \in 0 .. n + 1
          PROVE  longer[j] = IF j = 0 THEN 0
                             ELSE longer[j - 1] + Pow2[j - 1] * BitOf(m, i * SPX_FORS_HEIGHT + j - 1)
      <3>1. CASE j = n + 1
        BY <3>1
      <3>2. CASE j # n + 1
        <4>1. j \in 0 .. n /\ j <= n /\ (j # 0 => j - 1 \in 0 .. n + 1 /\ j - 1 <= n)
          BY <3>2
        <4>2. f[j] = IF j = 0 THEN 0 ELSE f[j - 1] + Pow2[j - 1] * BitOf(m, i * SPX_FORS_HEIGHT + j - 1)
          BY <2>1, <4>1 DEF AreLow
        <4> QED
          BY <4>1, <4>2
      <3> QED
        BY <3>1, <3>2
    <2>3. AreLow(longer, n + 1, m, i)
      BY <2>2 DEF AreLow
    <2> QED
      BY <2>3
  <1> HIDE DEF S
  <1>3. Nat \subseteq S
    BY <1>1, <1>2, Induct
  <1> QED
    BY <1>3 DEF S

(* An index names a leaf of its tree.                                        *)
LEMMA IndicesAre ==
    ASSUME NEW m \in [1 .. SPX_FORS_MSG_BYTES -> 0 .. Byte - 1], NEW i \in Trees
    PROVE  message_to_indices(m)[i] \in 0 .. Pow2[SPX_FORS_HEIGHT] - 1
  <1> DEFINE H == SPX_FORS_HEIGHT
             P(f) == AreLow(f, H, m, i)
             f == CHOOSE g : P(g)
             S == {j \in Nat : j <= H => f[j] \in 0 .. Pow2[j] - 1}
  <1>1. H \in Nat /\ H > 0 /\ SPX_FORS_TREES \in Nat /\ i \in 0 .. SPX_FORS_TREES - 1
    BY ForsAssumption DEF Trees
  <1>2. P(f)
    <2>1. \E g : P(g)
      BY <1>1, LowExist
    <2> QED
      BY <2>1, Zenon
  <1>3. message_to_indices(m)[i] = f[H]
    BY DEF message_to_indices, AreLow
  <1> HIDE DEF f
  <1>4. 0 \in S
    <2>1. f[0] = 0
      BY <1>1, <1>2 DEF AreLow
    <2>2. Pow2[0] = 1
      BY Powers
    <2> QED
      BY <2>1, <2>2
  <1>5. ASSUME NEW j \in Nat, j \in S PROVE j + 1 \in S
    <2> SUFFICES ASSUME j + 1 <= H PROVE f[j + 1] \in 0 .. Pow2[j + 1] - 1
      OBVIOUS
    <2> DEFINE k == j + 1
               o == i * SPX_FORS_HEIGHT + j
               p == Pow2[j]
               bit == BitOf(m, o)
    <2>1. k \in 0 .. H /\ k # 0 /\ k - 1 = j
      BY <1>1
    <2>2. o \in 0 .. SPX_FORS_HEIGHT * SPX_FORS_TREES - 1
      <3> DEFINE T == SPX_FORS_TREES
      <3>1. i * H + H <= H * T
        <4>1. i + 1 <= T /\ i \in Nat /\ T \in Nat
          BY <1>1
        <4> HIDE DEF H, T
        <4>2. (i + 1) * H <= T * H
          BY <1>1, <4>1, Z3
        <4> QED
          BY <1>1, <4>1, <4>2
      <3>2. i * H \in Nat
        BY <1>1
      <3> DEFINE ih == i * H  ht == H * T
      <3>3. ih \in Nat /\ ih + H <= ht /\ ht \in Int
        BY <1>1, <3>1, <3>2
      <3>4. o = ih + j
        OBVIOUS
      <3> HIDE DEF ih, ht, o
      <3>5. o \in 0 .. ht - 1
        BY <1>1, <3>3, <3>4
      <3> QED
        BY <3>5 DEF ht
    <2>3. bit \in 0 .. 1
      BY <2>2, BitIs
    <2> HIDE DEF k
    <2>4. f[k] = f[k - 1] + Pow2[k - 1] * BitOf(m, i * SPX_FORS_HEIGHT + k - 1)
      BY <1>2, <2>1 DEF AreLow
    <2>5. i * SPX_FORS_HEIGHT + k - 1 = o
      BY <1>1, <2>1 DEF k
    <2>6. f[k] = f[j] + p * bit
      BY <2>1, <2>4, <2>5
    <2>7. p \in Nat /\ Pow2[k] = 2 * p /\ f[j] \in 0 .. p - 1
      <3>1. f[j] \in 0 .. Pow2[j] - 1
        BY <1>1, <1>5
      <3>2. Pow2[j] \in Nat /\ Pow2[j + 1] = 2 * Pow2[j]
        BY Powers
      <3> QED
        BY <3>1, <3>2 DEF k
    <2> HIDE DEF p, bit, o
    <2>8. p * bit = 0 \/ p * bit = p
      BY <2>3, <2>7
    <2>9. f[k] \in 0 .. 2 * p - 1
      BY <2>6, <2>7, <2>8
    <2> QED
      BY <2>7, <2>9 DEF k
  <1> HIDE DEF S
  <1>6. H \in S
    BY <1>1, <1>4, <1>5, Induct
  <1> QED
    BY <1>1, <1>3, <1>6 DEF S

-----------------------------------------------------------------------------
(* The fields of an address.                                                 *)
LEMMA AddrIs ==
    ASSUME NEW b \in Addresses
    PROVE  /\ b = [layer |-> b.layer, tree |-> b.tree, type |-> b.type, keypair |-> b.keypair,
                   b27 |-> b.b27, w28 |-> b.w28]
           /\ b.layer \in Nat /\ b.tree \in Nat /\ b.type \in 0 .. 4 /\ b.keypair \in Nat
           /\ b.b27 \in Nat /\ b.w28 \in Nat
  BY DEF Addresses

(* A record of such fields is an address.                                    *)
LEMMA IsAddr ==
    ASSUME NEW u \in Nat, NEW v \in Nat, NEW w \in 0 .. 4, NEW t \in Nat, NEW y \in Nat, NEW z \in Nat
    PROVE  [layer |-> u, tree |-> v, type |-> w, keypair |-> t, b27 |-> y, w28 |-> z] \in Addresses
  BY DEF Addresses

(* A copy for hashes of another type.                                        *)
LEMMA KeypairAddrFields ==
    ASSUME NEW b \in Addresses, NEW type \in 0 .. 4
    PROVE  KeypairAddr(b, type) = [layer |-> b.layer, tree |-> b.tree, type |-> type, keypair |-> b.keypair,
                                   b27 |-> 0, w28 |-> 0]
  <1> DEFINE c == copy_keypair_addr(ZeroAddr, b)  low == type % 256
  <1>1. c = [layer |-> b.layer, tree |-> b.tree, type |-> 0, keypair |-> b.keypair, b27 |-> 0, w28 |-> 0]
    <2> DEFINE u == b.layer  v == b.tree  w == b.keypair
               c1 == [ZeroAddr EXCEPT !.layer = u]  c2 == [c1 EXCEPT !.tree = v]
    <2>1. c = [c2 EXCEPT !.keypair = w]
      BY DEF copy_keypair_addr
    <2> HIDE DEF u, v, w
    <2>2. c1 = [layer |-> u, tree |-> 0, type |-> 0, keypair |-> 0, b27 |-> 0, w28 |-> 0]
      BY DEF ZeroAddr
    <2> HIDE DEF c1
    <2>3. c2 = [layer |-> u, tree |-> v, type |-> 0, keypair |-> 0, b27 |-> 0, w28 |-> 0]
      BY <2>2
    <2> HIDE DEF c2
    <2>4. c = [layer |-> u, tree |-> v, type |-> 0, keypair |-> w, b27 |-> 0, w28 |-> 0]
      BY <2>1, <2>3
    <2> QED
      BY <2>4 DEF u, v, w
  <1>2. KeypairAddr(b, type) = [c EXCEPT !.type = low]
    BY DEF KeypairAddr, set_type, Byte
  <1>3. low = type
    BY SMT
  <1> HIDE DEF c, low
  <1>4. KeypairAddr(b, type) = [layer |-> b.layer, tree |-> b.tree, type |-> low, keypair |-> b.keypair,
                                b27 |-> 0, w28 |-> 0]
    BY <1>1, <1>2
  <1> QED
    BY <1>3, <1>4

(* It is an address.                                                         *)
LEMMA KeypairAddrIs ==
    ASSUME NEW b \in Addresses, NEW type \in 0 .. 4
    PROVE  KeypairAddr(b, type) \in Addresses
  <1>1. KeypairAddr(b, type) = [layer |-> b.layer, tree |-> b.tree, type |-> type, keypair |-> b.keypair,
                                b27 |-> 0, w28 |-> 0]
    BY KeypairAddrFields
  <1> QED
    BY <1>1, AddrIs, IsAddr

(* The address a FORS tree starts from differs only in the node.             *)
LEMMA LeafAddrIs ==
    ASSUME NEW b \in Addresses, NEW i \in Trees, NEW l \in Nat
    PROVE  LeafAddr(b, i, l) \in Addresses /\ Alike(LeafAddr(b, i, l), b)
  <1> DEFINE off == IdxOffset(i)
  <1>1. off \in Nat /\ Shr(off, 0) = off
    BY OffsetIs, ShiftOnce
  <1>2. LeafAddr(b, i, l) = NodeAddr(b, 0, l, off)
    BY <1>1 DEF LeafAddr, NodeAddr
  <1> HIDE DEF off
  <1>3. 0 \in Nat
    OBVIOUS
  <1> QED
    BY <1>1, <1>2, <1>3, NodeAddrIs

(* The public key of FORS, from the definition of its trees.                 *)
ForsRoot(i, addr) == Rows(ForsTree(i, addr))[SPX_FORS_HEIGHT][0]
ForsKey(addr) == PublicKey([i \in Trees |-> ForsRoot(i, KeypairAddr(addr, TYPE_FORSTREE))], addr)

(* No message changes it.                                                    *)
LEMMA ForsSigns ==
    ASSUME NEW m \in [1 .. SPX_FORS_MSG_BYTES -> 0 .. Byte - 1], NEW addr \in Addresses
    PROVE  fors_sign(m, addr).pk = ForsKey(addr)
  <1> DEFINE start0 == KeypairAddr(addr, TYPE_FORSTREE)
             index(i) == message_to_indices(m)[i]
             start(i) == LeafAddr(start0, i, index(i))
  <1>1. start0 \in Addresses
    BY KeypairAddrIs DEF TYPE_FORSTREE
  <1>2. fors_sign(m, addr).pk = PublicKey([i \in Trees |-> SignedTree(i, index(i), start(i)).stack[1]], addr)
    BY DEF fors_sign
  <1> HIDE DEF start0
  <1>3. ASSUME NEW i \in Trees
        PROVE  SignedTree(i, index(i), start(i)).stack[1] = ForsRoot(i, start0)
    <2> DEFINE l == index(i)  b == start(i)
    <2>1. l \in 0 .. Pow2[SPX_FORS_HEIGHT] - 1 /\ SPX_FORS_HEIGHT \in 0 .. SPX_FORS_HEIGHT
      BY IndicesAre, ForsAssumption
    <2>2. l \in Nat
      <3> HIDE DEF l
      <3> QED
        BY <2>1, Powers, ForsAssumption
    <2>3. b \in Addresses /\ Alike(b, start0)
      BY <1>1, <2>2, LeafAddrIs
    <2> HIDE DEF l, b
    <2>4. SignedTree(i, l, b) = Whole(ForsTree(i, b), l)
      BY <2>1, <2>3, ForsTreehash
    <2>5. Whole(ForsTree(i, b), l).stack[1] = Rows(ForsTree(i, b))[SPX_FORS_HEIGHT][0]
      BY DEF Whole, ForsTree
    <2>6. \A h \in 0 .. SPX_FORS_HEIGHT : Rows(ForsTree(i, b))[h] = Rows(ForsTree(i, start0))[h]
      BY <1>1, <2>3, SameForsTree
    <2>7. Rows(ForsTree(i, b))[SPX_FORS_HEIGHT] = Rows(ForsTree(i, start0))[SPX_FORS_HEIGHT]
      BY <2>1, <2>6
    <2> QED
      BY <2>4, <2>5, <2>7 DEF ForsRoot, l, b
  <1>4. [i \in Trees |-> SignedTree(i, index(i), start(i)).stack[1]] = [i \in Trees |-> ForsRoot(i, start0)]
    BY <1>3
  <1> HIDE DEF index, start
  <1> QED
    BY <1>2, <1>4 DEF ForsKey, start0

-----------------------------------------------------------------------------
(* The address of a tree of the hypertree, and the value that a WOTS key of  *)
(* it signs: the root of the tree below, or the FORS key at the bottom.      *)
LayerAddr(layer, tree) == LayerTreeAddr(HashtreeAddr, layer, tree)
RootBelow(layer, tree, idx_leaf) ==
    IF layer = 0 THEN ForsKey(StartAddr([tree |-> tree, idx_leaf |-> idx_leaf]))
    ELSE WotsRoot(LayerAddr(layer - 1, tree * Pow2[SPX_TREE_HEIGHT] + idx_leaf))

(* Where a call signs layer by layer.                                        *)
OfHashtree(b) == b \in Addresses /\ b.type = TYPE_HASHTREE /\ b.keypair = 0
UsedRight(used) == \A u \in used : u[4] = RootBelow(u[1], u[2], u[3])
AtLayer(s, layer) ==
    /\ s.tree \in Nat /\ s.idx_leaf \in 0 .. Pow2[SPX_TREE_HEIGHT] - 1
    /\ OfHashtree(s.tree_addr)
    /\ s.root = RootBelow(layer, s.tree, s.idx_leaf)
    /\ UsedRight(s.used)

(* Where the hash trees' addresses start from.                               *)
LEMMA HashtreeAddrIs ==
    /\ HashtreeAddr = [layer |-> 0, tree |-> 0, type |-> 2, keypair |-> 0, b27 |-> 0, w28 |-> 0]
    /\ OfHashtree(HashtreeAddr)
  <1>1. HashtreeAddr = [layer |-> 0, tree |-> 0, type |-> 2, keypair |-> 0, b27 |-> 0, w28 |-> 0]
    BY DEF HashtreeAddr, set_type, ZeroAddr, TYPE_HASHTREE, Byte
  <1> QED
    BY <1>1 DEF OfHashtree, Addresses, TYPE_HASHTREE

(* The address of a layer takes over only what names a node.                 *)
LEMMA LayerAddrIs ==
    ASSUME NEW b, OfHashtree(b), NEW layer \in Nat, NEW tree \in Nat
    PROVE  LET a == LayerTreeAddr(b, layer, tree)
           IN  /\ OfHashtree(a) /\ Alike(a, LayerAddr(layer, tree))
               /\ LayerAddr(layer, tree) \in Addresses
  <1> DEFINE u == layer % 256
             R(c) == [layer |-> u, tree |-> tree, type |-> c.type, keypair |-> c.keypair,
                      b27 |-> c.b27, w28 |-> c.w28]
  <1>1. u \in Nat
    OBVIOUS
  <1>2. ASSUME NEW c \in Addresses
        PROVE  LayerTreeAddr(c, layer, tree) = R(c) /\ R(c) \in Addresses
    <2>1. c = [layer |-> c.layer, tree |-> c.tree, type |-> c.type, keypair |-> c.keypair,
               b27 |-> c.b27, w28 |-> c.w28]
      BY <1>2, AddrIs
    <2> DEFINE d == [c EXCEPT !.layer = u]
    <2>2. d = [layer |-> u, tree |-> c.tree, type |-> c.type, keypair |-> c.keypair,
               b27 |-> c.b27, w28 |-> c.w28]
      BY <2>1
    <2>3. LayerTreeAddr(c, layer, tree) = [d EXCEPT !.tree = tree]
      BY DEF LayerTreeAddr, set_tree_addr, set_layer_addr, Byte
    <2> HIDE DEF d, u
    <2>4. LayerTreeAddr(c, layer, tree) = R(c)
      BY <2>2, <2>3
    <2>5. R(c) \in Addresses
      BY <1>1, <1>2, AddrIs, IsAddr
    <2> QED
      BY <2>4, <2>5
  <1>3. HashtreeAddr \in Addresses /\ HashtreeAddr.type = TYPE_HASHTREE /\ HashtreeAddr.keypair = 0
    BY HashtreeAddrIs DEF OfHashtree
  <1> HIDE DEF u
  <1>4. LayerTreeAddr(b, layer, tree) = R(b) /\ LayerAddr(layer, tree) = R(HashtreeAddr)
        /\ R(b) \in Addresses /\ R(HashtreeAddr) \in Addresses
    BY <1>2, <1>3 DEF OfHashtree, LayerAddr
  <1>5. OfHashtree(R(b)) /\ Alike(R(b), R(HashtreeAddr))
    BY <1>3, <1>4 DEF OfHashtree, Alike
  <1> HIDE DEF R
  <1> QED
    BY <1>4, <1>5

(* A number is the quotient of its division and its rest.                    *)
LEMMA Composed ==
    ASSUME NEW n \in Nat, NEW h \in Nat
    PROVE  /\ Shr(n, h) \in Nat /\ n % Pow2[h] \in 0 .. Pow2[h] - 1
           /\ Shr(n, h) * Pow2[h] + (n % Pow2[h]) = n
  <1> DEFINE p == Pow2[h]  q == Shr(n, h)  z == n % Pow2[h]
  <1>1. p \in Nat /\ p > 0
    BY Powers
  <1>2. q = n \div p /\ z = n % p
    BY DEF Shr
  <1> HIDE DEF p, q, z
  <1>3. q \in Nat /\ z \in 0 .. p - 1 /\ n = p * q + z
    <2>1. /\ n \div p \in Nat /\ n % p \in 0 .. p - 1
          /\ n = p * (n \div p) + (n % p)
      BY <1>1, Z3
    <2> QED
      BY <1>2, <2>1, Zenon
  <1>4. q * p + z = n
    BY <1>1, <1>3
  <1> QED
    BY <1>3, <1>4 DEF p, q, z

(* The tree of a layer, whatever address it starts from.                     *)
LayerTree(b, layer, tree, l) ==
    treehash(l, 0, SPX_TREE_HEIGHT, wots_gen_leaf, LayerTreeAddr(b, layer, tree))

(* Its root and its path are those of the layer's tree.                      *)
LayerHashed(b, layer, tree, l) ==
    LET c == LayerAddr(layer, tree)
        t == LayerTree(b, layer, tree, l)
    IN  /\ IsTree(WotsTree(c)) /\ OfHashtree(t.addr)
        /\ t.stack[1] = WotsRoot(c)
        /\ t.auth = [h \in 0 .. SPX_TREE_HEIGHT - 1 |-> Rows(WotsTree(c))[h][Sibling(Shr(l, h))]]

(* They always are.                                                          *)
LEMMA LayerTreehash ==
    ASSUME NEW b, OfHashtree(b), NEW layer \in Nat, NEW tree \in Nat, NEW l \in 0 .. Pow2[SPX_TREE_HEIGHT] - 1
    PROVE  LayerHashed(b, layer, tree, l)
  <1> DEFINE H == SPX_TREE_HEIGHT
             a == LayerTreeAddr(b, layer, tree)
             c == LayerAddr(layer, tree)
             t == treehash(l, 0, SPX_TREE_HEIGHT, wots_gen_leaf, a)
  <1>1. OfHashtree(a) /\ Alike(a, c) /\ c \in Addresses /\ a \in Addresses
    <2>1. OfHashtree(a) /\ Alike(a, c) /\ c \in Addresses
      BY LayerAddrIs
    <2> QED
      BY <2>1 DEF OfHashtree
  <1> HIDE DEF a, c
  <1>2. t = Whole(WotsTree(a), l)
    BY <1>1, WotsTreehash
  <1>3. IsTree(WotsTree(c))
    BY <1>1, WotsTreehash
  <1>4. WotsRoot(a) = WotsRoot(c) /\ \A h \in 0 .. H : Rows(WotsTree(a))[h] = Rows(WotsTree(c))[h]
    BY <1>1, SameWotsTree
  <1>5. t.stack[1] = WotsRoot(c)
    <2>1. Whole(WotsTree(a), l).stack[1] = WotsRoot(a)
      BY DEF Whole, WotsTree, WotsRoot
    <2> QED
      BY <1>2, <1>4, <2>1
  <1>6. t.auth = [h \in 0 .. H - 1 |-> Rows(WotsTree(c))[h][Sibling(Shr(l, h))]]
    <2>1. Whole(WotsTree(a), l).auth = [h \in 0 .. H - 1 |-> Rows(WotsTree(a))[h][Sibling(Shr(l, h))]]
      BY DEF Whole, WotsTree
    <2>2. 0 .. H - 1 \subseteq 0 .. H
      BY SphincsAssumption
    <2> QED
      BY <1>2, <1>4, <2>1, <2>2
  <1>7. OfHashtree(t.addr)
    <2>1. Whole(WotsTree(a), l).addr = NodeAddr(a, H, 0, 0)
      BY DEF Whole, WotsTree
    <2>2. H \in Nat /\ 0 \in Nat
      BY SphincsAssumption
    <2> HIDE DEF H
    <2>3. NodeAddr(a, H, 0, 0) \in Addresses /\ Alike(NodeAddr(a, H, 0, 0), a)
      BY <1>1, <2>2, NodeAddrIs
    <2> QED
      BY <1>1, <1>2, <2>1, <2>3 DEF OfHashtree, Alike
  <1> QED
    BY <1>3, <1>5, <1>6, <1>7 DEF LayerHashed, LayerTree, c, a

(* One layer signs the root below it, and leaves its own.                    *)
LEMMA LayerKeeps ==
    ASSUME NEW layer \in Nat, NEW s, AtLayer(s, layer)
    PROVE  AtLayer(SignLayer(s, layer), layer + 1)
  <1> DEFINE H == SPX_TREE_HEIGHT
             c == LayerAddr(layer, s.tree)
             t == LayerTree(s.tree_addr, layer, s.tree, s.idx_leaf)
             t1 == SignLayer(s, layer)
  <1>1. /\ s.tree \in Nat /\ s.idx_leaf \in 0 .. Pow2[H] - 1 /\ OfHashtree(s.tree_addr)
        /\ s.root = RootBelow(layer, s.tree, s.idx_leaf) /\ UsedRight(s.used)
    BY DEF AtLayer
  <1>2. /\ t1.used = s.used \cup {<<layer, s.tree, s.idx_leaf, s.root>>}
        /\ t1.root = t.stack[1] /\ t1.tree_addr = t.addr
        /\ t1.idx_leaf = s.tree % Pow2[H] /\ t1.tree = Shr(s.tree, H)
    BY DEF SignLayer, Up, LayerTree
  <1>3. t.stack[1] = WotsRoot(c) /\ OfHashtree(t.addr)
    <2> DEFINE b == s.tree_addr  tree == s.tree  l == s.idx_leaf
    <2>1. OfHashtree(b) /\ tree \in Nat /\ l \in 0 .. Pow2[SPX_TREE_HEIGHT] - 1
      BY <1>1
    <2> HIDE DEF b, tree, l
    <2>2. LayerHashed(b, layer, tree, l)
      BY <2>1, LayerTreehash
    <2> QED
      BY <2>2 DEF LayerHashed, b, tree, l
  <1> HIDE DEF t, t1
  <1>4. H \in Nat
    BY SphincsAssumption
  <1>5. /\ t1.tree \in Nat /\ t1.idx_leaf \in 0 .. Pow2[H] - 1
        /\ t1.tree * Pow2[H] + t1.idx_leaf = s.tree
    <2> DEFINE n == s.tree
    <2>1. n \in Nat /\ t1.tree = Shr(n, H) /\ t1.idx_leaf = n % Pow2[H]
      BY <1>1, <1>2
    <2> HIDE DEF H, n
    <2>2. /\ Shr(n, H) \in Nat /\ n % Pow2[H] \in 0 .. Pow2[H] - 1
          /\ Shr(n, H) * Pow2[H] + (n % Pow2[H]) = n
      BY ONLY <1>4, <2>1, Composed, ZenonT(30)
    <2>3. /\ t1.tree \in Nat /\ t1.idx_leaf \in 0 .. Pow2[H] - 1
          /\ t1.tree * Pow2[H] + t1.idx_leaf = n
      BY <2>1, <2>2, ZenonT(30)
    <2> QED
      BY <2>3 DEF n, H
  <1>6. t1.root = RootBelow(layer + 1, t1.tree, t1.idx_leaf)
    <2>1. layer + 1 # 0 /\ (layer + 1) - 1 = layer
      OBVIOUS
    <2>2. RootBelow(layer + 1, t1.tree, t1.idx_leaf) = WotsRoot(LayerAddr(layer, s.tree))
      BY <1>5, <2>1 DEF RootBelow
    <2> QED
      BY <1>2, <1>3, <2>2 DEF c
  <1>7. UsedRight(t1.used)
    <2> SUFFICES ASSUME NEW u \in t1.used PROVE u[4] = RootBelow(u[1], u[2], u[3])
      BY DEF UsedRight
    <2>1. CASE u \in s.used
      BY <1>1, <2>1 DEF UsedRight
    <2>2. CASE u = <<layer, s.tree, s.idx_leaf, s.root>>
      BY <1>1, <2>2
    <2> QED
      BY <1>2, <2>1, <2>2
  <1>8. AtLayer(t1, layer + 1)
    BY <1>2, <1>3, <1>5, <1>6, <1>7 DEF AtLayer
  <1> QED
    BY <1>8 DEF t1

-----------------------------------------------------------------------------
(* The layers of a signature: the recursion has a solution.                  *)
AreLayers(f, n, s0) ==
    f = [layer \in 0 .. n |-> IF layer = 0 THEN s0 ELSE SignLayer(f[layer - 1], layer - 1)]

(* For every n there are n layers.                                           *)
LEMMA LayersExist == ASSUME NEW s0 PROVE \A n \in Nat : \E f : AreLayers(f, n, s0)
  <1> DEFINE S == {n \in Nat : \E f : AreLayers(f, n, s0)}
  <1>1. 0 \in S
    <2> DEFINE f == [layer \in 0 .. 0 |-> s0]
    <2>1. AreLayers(f, 0, s0)
      BY DEF AreLayers
    <2> QED
      BY <2>1
  <1>2. ASSUME NEW n \in Nat, n \in S PROVE n + 1 \in S
    <2>1. PICK f : AreLayers(f, n, s0)
      BY <1>2
    <2> DEFINE longer == [layer \in 0 .. n + 1 |-> IF layer <= n THEN f[layer] ELSE SignLayer(f[n], n)]
    <2>2. AreLayers(longer, n + 1, s0)
      BY <2>1 DEF AreLayers
    <2> QED
      BY <2>2
  <1> HIDE DEF S
  <1>3. Nat \subseteq S
    BY <1>1, <1>2, Induct
  <1> QED
    BY <1>3 DEF S

(* Layer by layer, every WOTS key so far signed the root below it.           *)
LEMMA LayersKeep ==
    ASSUME NEW s0, AtLayer(s0, 0), NEW n \in Nat, NEW f, AreLayers(f, n, s0)
    PROVE  AtLayer(f[n], n)
  <1> DEFINE S == {k \in Nat : k <= n => AtLayer(f[k], k)}
  <1>1. 0 \in S
    <2>1. f[0] = s0
      BY DEF AreLayers
    <2> QED
      BY <2>1
  <1>2. ASSUME NEW k \in Nat, k \in S PROVE k + 1 \in S
    <2> SUFFICES ASSUME k + 1 <= n PROVE AtLayer(f[k + 1], k + 1)
      OBVIOUS
    <2>1. AtLayer(f[k], k)
      BY <1>2
    <2>2. f[k + 1] = SignLayer(f[k], k)
      BY DEF AreLayers
    <2> QED
      BY <2>1, <2>2, LayerKeeps
  <1> HIDE DEF S
  <1>3. Nat \subseteq S
    BY <1>1, <1>2, Induct
  <1> QED
    BY <1>3 DEF S

(* What hash_message names: a tree and a leaf of the hypertree.              *)
LEMMA DigestIs ==
    ASSUME NEW m \in InputMessages, NEW optrand \in OptRands
    PROVE  LET d == Digest(gen_message_random(optrand, m), m)
           IN  /\ d.mhash \in [1 .. SPX_FORS_MSG_BYTES -> 0 .. Byte - 1]
               /\ d.tree \in 0 .. Pow2[SPX_TREE_HEIGHT * (SPX_D - 1)] - 1 /\ d.tree \in Nat
               /\ d.idx_leaf \in 0 .. Pow2[SPX_TREE_HEIGHT] - 1 /\ d.idx_leaf \in Nat
  <1> DEFINE h == hash_message(gen_message_random(optrand, m), m)
             d == Digest(gen_message_random(optrand, m), m)
             tree == h.tree % Pow2[SPX_TREE_HEIGHT * (SPX_D - 1)]
             idx_leaf == h.leaf % Pow2[SPX_TREE_HEIGHT]
  <1>1. h.mhash \in [1 .. SPX_FORS_MSG_BYTES -> 0 .. Byte - 1] /\ h.tree \in Nat /\ h.leaf \in Nat
    BY DigestAssumption
  <1>2. d = [mhash |-> h.mhash, tree |-> tree, idx_leaf |-> idx_leaf]
    BY DEF Digest
  <1> HIDE DEF h
  <1>3. ASSUME NEW k \in Nat, NEW n \in Nat PROVE n % Pow2[k] \in 0 .. Pow2[k] - 1 /\ n % Pow2[k] \in Nat
    <2> DEFINE p == Pow2[k]
    <2>1. p \in Nat \ {0}
      BY Powers
    <2> HIDE DEF p
    <2>2. n % p \in 0 .. p - 1 /\ n % p \in Nat
      BY <2>1
    <2> QED
      BY <2>2 DEF p
  <1>4. tree \in 0 .. Pow2[SPX_TREE_HEIGHT * (SPX_D - 1)] - 1 /\ tree \in Nat
    <2> DEFINE k == SPX_TREE_HEIGHT * (SPX_D - 1)
    <2>1. k \in Nat
      BY SphincsAssumption
    <2> HIDE DEF k
    <2>2. h.tree % Pow2[k] \in 0 .. Pow2[k] - 1 /\ h.tree % Pow2[k] \in Nat
      BY <1>1, <1>3, <2>1
    <2> QED
      BY <2>2 DEF k
  <1>5. idx_leaf \in 0 .. Pow2[SPX_TREE_HEIGHT] - 1 /\ idx_leaf \in Nat
    <2> DEFINE k == SPX_TREE_HEIGHT
    <2>1. k \in Nat
      BY SphincsAssumption
    <2> HIDE DEF k
    <2>2. h.leaf % Pow2[k] \in 0 .. Pow2[k] - 1 /\ h.leaf % Pow2[k] \in Nat
      BY <1>1, <1>3, <2>1
    <2> QED
      BY <2>2 DEF k
  <1> HIDE DEF tree, idx_leaf
  <1> QED
    BY <1>1, <1>2, <1>4, <1>5

(* Addresses that a call leaves behind for WOTS, when it starts as well.     *)
WotsLeft(b) == b \in Addresses /\ b.type = TYPE_WOTS /\ b.w28 \in 0 .. 255

(* The address of the leaf that is named.                                    *)
LEMMA StartAddrIs ==
    ASSUME NEW d, d.tree \in Nat, d.idx_leaf \in Nat
    PROVE  WotsLeft(StartAddr(d))
  <1> DEFINE low == d.idx_leaf % 256  tree == d.tree
             z == set_type(ZeroAddr, TYPE_WOTS)  c == set_tree_addr(z, tree)
  <1>1. z = [layer |-> 0, tree |-> 0, type |-> 0, keypair |-> 0, b27 |-> 0, w28 |-> 0]
    BY DEF set_type, ZeroAddr, TYPE_WOTS, Byte
  <1>2. StartAddr(d) = [c EXCEPT !.keypair = low]
    BY DEF StartAddr, set_keypair_addr, Byte
  <1> HIDE DEF z
  <1>3. c = [layer |-> 0, tree |-> tree, type |-> 0, keypair |-> 0, b27 |-> 0, w28 |-> 0]
    BY <1>1 DEF set_tree_addr
  <1>4. low \in Nat /\ tree \in Nat
    OBVIOUS
  <1> HIDE DEF low, c, tree
  <1>5. StartAddr(d) = [layer |-> 0, tree |-> tree, type |-> 0, keypair |-> low, b27 |-> 0, w28 |-> 0]
    BY <1>2, <1>3
  <1>6. StartAddr(d) \in Addresses
    BY <1>4, <1>5, IsAddr
  <1> QED
    BY <1>5, <1>6 DEF WotsLeft, TYPE_WOTS

(* Where a call starts: at the leaf that the digest names, with the FORS key *)
(* that signs the digest.                                                    *)
StartLayer(d) ==
    [layers |-> <<>>, used |-> {}, root |-> fors_sign(d.mhash, StartAddr(d)).pk,
     wots_addr |-> StartAddr(d), tree_addr |-> HashtreeAddr, idx_leaf |-> d.idx_leaf, tree |-> d.tree]

(* That is below the lowest layer.                                           *)
LEMMA StartsAtLayer ==
    ASSUME NEW m \in InputMessages, NEW optrand \in OptRands
    PROVE  AtLayer(StartLayer(Digest(gen_message_random(optrand, m), m)), 0)
  <1> DEFINE d == Digest(gen_message_random(optrand, m), m)  tree == d.tree  idx_leaf == d.idx_leaf
             s0 == StartLayer(d)
  <1>1. /\ d.mhash \in [1 .. SPX_FORS_MSG_BYTES -> 0 .. Byte - 1]
        /\ tree \in Nat /\ idx_leaf \in 0 .. Pow2[SPX_TREE_HEIGHT] - 1 /\ idx_leaf \in Nat
    BY DigestIs
  <1> HIDE DEF d
  <1> DEFINE e == [tree |-> tree, idx_leaf |-> idx_leaf]
  <1>2. StartAddr(d) = StartAddr(e)
    BY DEF StartAddr
  <1>3. StartAddr(d) \in Addresses
    BY <1>1, StartAddrIs DEF WotsLeft
  <1>4. s0.root = RootBelow(0, tree, idx_leaf)
    <2>1. fors_sign(d.mhash, StartAddr(d)).pk = ForsKey(StartAddr(d))
      BY <1>1, <1>3, ForsSigns
    <2>2. RootBelow(0, tree, idx_leaf) = ForsKey(StartAddr(e))
      BY DEF RootBelow
    <2> QED
      BY <1>2, <2>1, <2>2 DEF StartLayer
  <1>5. s0.tree = tree /\ s0.idx_leaf = idx_leaf /\ s0.tree_addr = HashtreeAddr /\ s0.used = {}
    BY DEF StartLayer
  <1> HIDE DEF s0
  <1>6. AtLayer(s0, 0)
    BY <1>1, <1>4, <1>5, HashtreeAddrIs DEF AtLayer, UsedRight
  <1> QED
    BY <1>6 DEF s0, d

(* Every WOTS key of a signature signs the root of what is below it.         *)
LEMMA SignatureUses ==
    ASSUME NEW m \in InputMessages, NEW optrand \in OptRands
    PROVE  UsedRight(signature(m, optrand).used)
  <1> DEFINE d == Digest(gen_message_random(optrand, m), m)
             s0 == StartLayer(d)
             P(f) == AreLayers(f, SPX_D, s0)
             g == CHOOSE f : P(f)
  <1>1. SPX_D \in Nat
    BY SphincsAssumption
  <1>2. \E f : P(f)
    BY <1>1, LayersExist
  <1>3. P(g)
    BY <1>2, Zenon
  <1>4. AtLayer(s0, 0)
    BY StartsAtLayer
  <1>5. signature(m, optrand).used = g[SPX_D].used
    BY DEF signature, AreLayers, StartLayer
  <1> HIDE DEF d, s0, g
  <1>6. AtLayer(g[SPX_D], SPX_D)
    BY <1>1, <1>3, <1>4, LayersKeep
  <1> QED
    BY <1>5, <1>6 DEF AtLayer

(* What the signer has signed, over all its signatures.                      *)
SignedRight == \A e \in signed : UsedRight(e.used)

(* SPHINCS+ keeps no state, and yet a WOTS key signs one value for ever, for *)
(* every height, every number of layers and all hashes (sign.c:160-183): the *)
(* root that it signs is a function of the key's place.                      *)
THEOREM KeysSignOneValue == SphincsSpec => []OneValuePerWotsKey
  <1>1. SphincsInit => SignedRight
    BY DEF SphincsInit, SignedRight
  <1>2. SignedRight /\ [SphincsNext]_sphincs_vars => SignedRight'
    <2> SUFFICES ASSUME SignedRight, [SphincsNext]_sphincs_vars PROVE SignedRight'
      OBVIOUS
    <2>1. CASE Keypair
      BY <2>1 DEF Keypair, SignedRight
    <2>2. CASE Close
      BY <2>2 DEF Close, SignedRight
    <2>3. ASSUME NEW m \in InputMessages, NEW optrand \in OptRands, Sign(m, optrand)
          PROVE  SignedRight'
      <3> DEFINE s == signature(m, optrand)
      <3>1. UsedRight(s.used)
        BY SignatureUses
      <3>2. signed' = signed \cup {[m |-> m, sig |-> s.sig, used |-> s.used]}
        BY <2>3 DEF Sign
      <3> HIDE DEF s
      <3> QED
        BY <3>1, <3>2 DEF SignedRight
    <2>4. ASSUME NEW e \in signed, NEW sm \in Transit(e), NEW short \in BOOLEAN, Open(sm, short)
          PROVE  SignedRight'
      BY <2>4 DEF Open, SignedRight
    <2>5. CASE UNCHANGED sphincs_vars
      BY <2>5 DEF sphincs_vars, SignedRight
    <2> QED
      BY <2>1, <2>2, <2>3, <2>4, <2>5 DEF SphincsNext
  <1>3. SignedRight => OneValuePerWotsKey
    <2> SUFFICES ASSUME SignedRight, NEW e \in signed, NEW f \in signed, NEW u \in e.used, NEW v \in f.used,
                        u[1] = v[1] /\ u[2] = v[2] /\ u[3] = v[3]
                 PROVE  u[4] = v[4]
      BY DEF OneValuePerWotsKey
    <2>1. u[4] = RootBelow(u[1], u[2], u[3]) /\ v[4] = RootBelow(v[1], v[2], v[3])
      BY DEF SignedRight, UsedRight
    <2> QED
      BY <2>1
  <1> QED
    BY <1>1, <1>2, <1>3, PTL DEF SphincsSpec

-----------------------------------------------------------------------------
(* compute_root, turn by turn: the recursion has a solution.                 *)
UpOnce(c, h, l, off, path) ==
    LET a == NodeAddr(c.addr, h, Shr(l, h), off)
    IN  With(thash(Pair(c.out, path[h - 1], Shr(l, h - 1)), a), a)
AreUps(f, n, leaf, l, off, path, b) ==
    f = [h \in 0 .. n |-> IF h = 0 THEN With(leaf, b) ELSE UpOnce(f[h - 1], h, l, off, path)]

(* For every n there are n turns.                                           *)
LEMMA UpsExist ==
    ASSUME NEW leaf, NEW l, NEW off, NEW path, NEW b
    PROVE  \A n \in Nat : \E f : AreUps(f, n, leaf, l, off, path, b)
  <1> DEFINE S == {n \in Nat : \E f : AreUps(f, n, leaf, l, off, path, b)}
  <1>1. 0 \in S
    <2> DEFINE f == [h \in 0 .. 0 |-> With(leaf, b)]
    <2>1. AreUps(f, 0, leaf, l, off, path, b)
      BY DEF AreUps
    <2> QED
      BY <2>1
  <1>2. ASSUME NEW n \in Nat, n \in S PROVE n + 1 \in S
    <2>1. PICK f : AreUps(f, n, leaf, l, off, path, b)
      BY <1>2
    <2> DEFINE longer == [h \in 0 .. n + 1 |-> IF h <= n THEN f[h] ELSE UpOnce(f[n], n + 1, l, off, path)]
    <2>2. AreUps(longer, n + 1, leaf, l, off, path, b)
      BY <2>1 DEF AreUps
    <2> QED
      BY <2>2
  <1> HIDE DEF S
  <1>3. Nat \subseteq S
    BY <1>1, <1>2, Induct
  <1> QED
    BY <1>3 DEF S

(* A node and its sibling are the two that the node above hashes.            *)
LEMMA PairIs ==
    ASSUME NEW row, NEW y \in Nat
    PROVE  Pair(row[y], row[Sibling(y)], y) = <<row[2 * (y \div 2)], row[2 * (y \div 2) + 1]>>
  <1> DEFINE q == y \div 2  z == y % 2
  <1>1. q \in Nat /\ z \in 0 .. 1 /\ y = 2 * q + z
    BY Z3
  <1> HIDE DEF q, z
  <1>2. CASE z = 0
    <2>1. Pair(row[y], row[Sibling(y)], y) = <<row[y], row[y + 1]>>
      BY <1>2 DEF Pair, Sibling, z
    <2>2. y = 2 * q
      BY <1>1, <1>2
    <2>3. <<row[y], row[y + 1]>> = <<row[2 * q], row[2 * q + 1]>>
      BY <2>2
    <2> QED
      BY <2>1, <2>3 DEF q
  <1>3. CASE z = 1
    <2>1. Pair(row[y], row[Sibling(y)], y) = <<row[y - 1], row[y]>>
      BY <1>3 DEF Pair, Sibling, z
    <2>2. y - 1 = 2 * q /\ y = 2 * q + 1
      BY <1>1, <1>3
    <2>3. <<row[y - 1], row[y]>> = <<row[2 * q], row[2 * q + 1]>>
      BY <2>2
    <2> QED
      BY <2>1, <2>3 DEF q
  <1> QED
    BY <1>1, <1>2, <1>3

(* From a leaf and its path comes the root, whatever the address was used    *)
(* for before.                                                               *)
LEMMA RootFromPath ==
    ASSUME NEW a, IsTree(a), NEW l \in LeavesOf(a), NEW b \in Addresses, Alike(b, a.addr), NEW path,
           \A h \in 0 .. a.height - 1 : path[h] = Rows(a)[h][Sibling(Shr(l, h))]
    PROVE  LET c == compute_root(a.row[l], l, a.offset, path, a.height, b)
           IN  c.out = Rows(a)[a.height][0] /\ c.addr \in Addresses /\ Alike(c.addr, a.addr)
  <1> DEFINE H == a.height
             off == a.offset
             rows == Rows(a)
             P(f) == AreUps(f, H, a.row[l], l, off, path, b)
             f == CHOOSE g : P(g)
             Good(h) == /\ f[h].out = rows[h][Shr(l, h)]
                        /\ f[h].addr \in Addresses /\ Alike(f[h].addr, a.addr)
             S == {h \in Nat : h <= H => Good(h)}
  <1>1. /\ H \in Nat /\ H > 0 /\ off \in Nat /\ a.addr \in Addresses
        /\ l \in 0 .. Pow2[H] - 1 /\ l \in Nat
    BY TreeIs, Powers DEF LeavesOf, WidthOf
  <1>2. \E g : P(g)
    BY <1>1, UpsExist
  <1>3. P(f)
    BY <1>2, Zenon
  <1>4. compute_root(a.row[l], l, off, path, H, b) = f[H]
    BY DEF compute_root, AreUps, UpOnce
  <1>5. /\ rows[0] = a.row
        /\ \A h \in 0 .. H - 1 : \A i \in 0 .. Pow2[H - (h + 1)] - 1 :
              rows[h + 1][i] = thash(<<rows[h][2 * i], rows[h][2 * i + 1]>>, NodeAddr(a.addr, h + 1, i, off))
    BY NodeRows
  <1> HIDE DEF f, rows
  <1>6. \A k \in 0 .. H : Shr(l, k) \in 0 .. Pow2[H - k] - 1
    BY <1>1, ShiftBelow
  <1>7. 0 \in S
    <2>1. f[0] = With(a.row[l], b)
      BY <1>1, <1>3 DEF AreUps
    <2>2. Shr(l, 0) = l
      BY <1>1, ShiftOnce
    <2> QED
      BY <1>5, <2>1, <2>2 DEF With
  <1>8. ASSUME NEW h \in Nat, h \in S PROVE h + 1 \in S
    <2> SUFFICES ASSUME h + 1 <= H PROVE Good(h + 1)
      OBVIOUS
    <2> DEFINE k == h + 1  y == Shr(l, h)  up == Shr(l, k)  e == NodeAddr(f[h].addr, k, up, off)
    <2>1. k \in 0 .. H /\ k # 0 /\ k - 1 = h /\ h \in 0 .. H - 1 /\ k \in Nat
      BY <1>1
    <2>2. Good(h)
      BY <1>1, <1>8
    <2>3. y \in Nat /\ up = y \div 2 /\ up \in Nat
      <3>1. \A j \in Nat : Shr(l, j) \in Nat /\ Shr(l, j + 1) = Shr(l, j) \div 2
        BY <1>1, ShiftOnce
      <3> QED
        BY <2>1, <3>1
    <2>4. up \in 0 .. Pow2[H - (h + 1)] - 1
      BY <1>6, <2>1
    <2>5. e = NodeAddr(a.addr, k, up, off) /\ e \in Addresses /\ Alike(e, a.addr)
      <3>1. f[h].addr \in Addresses /\ Alike(f[h].addr, a.addr)
        BY <2>2
      <3> HIDE DEF k, up
      <3>2. e = NodeAddr(a.addr, k, up, off)
        BY <1>1, <2>1, <2>3, <3>1, AlikeNodes
      <3>3. NodeAddr(a.addr, k, up, off) \in Addresses /\ Alike(NodeAddr(a.addr, k, up, off), a.addr)
        BY <1>1, <2>1, <2>3, NodeAddrIs
      <3> QED
        BY <3>2, <3>3
    <2>6. f[k] = With(thash(Pair(f[h].out, path[h], y), e), e)
      <3> HIDE DEF k
      <3>1. f[k] = UpOnce(f[k - 1], k, l, off, path)
        BY <1>3, <2>1 DEF AreUps
      <3> QED
        BY <2>1, <3>1 DEF UpOnce
    <2>7. Pair(f[h].out, path[h], y) = <<rows[h][2 * up], rows[h][2 * up + 1]>>
      <3> DEFINE row == rows[h]
      <3>1. f[h].out = row[y] /\ path[h] = row[Sibling(y)]
        BY <2>1, <2>2 DEF rows
      <3> HIDE DEF row, y
      <3>2. Pair(row[y], row[Sibling(y)], y) = <<row[2 * (y \div 2)], row[2 * (y \div 2) + 1]>>
        BY <2>3, PairIs
      <3> QED
        BY <2>3, <3>1, <3>2 DEF row
    <2>8. rows[k][up] = thash(<<rows[h][2 * up], rows[h][2 * up + 1]>>, NodeAddr(a.addr, k, up, off))
      BY <1>5, <2>1, <2>4
    <2> HIDE DEF k, e, y, up
    <2>9. f[k].out = rows[k][up] /\ f[k].addr = e
      BY <2>5, <2>6, <2>7, <2>8 DEF With
    <2>10. Good(k)
      BY <2>5, <2>9 DEF up
    <2> QED
      BY <2>10 DEF k
  <1> HIDE DEF S
  <1>9. H \in S
    BY <1>1, <1>7, <1>8, Induct
  <1>10. Good(H)
    BY <1>1, <1>9 DEF S
  <1>11. Shr(l, H) = 0
    <2>1. H \in 0 .. H /\ H - H = 0
      BY <1>1
    <2>2. Shr(l, H) \in 0 .. Pow2[H - H] - 1 /\ Pow2[0] = 1
      BY <1>6, <2>1, Powers
    <2> QED
      BY <2>1, <2>2
  <1> QED
    BY <1>4, <1>10, <1>11 DEF rows

-----------------------------------------------------------------------------
(* The verifier of FORS, tree by tree: the recursion has a solution.         *)
ForsTurn(s, i, sig, l) ==
    LET a == LeafAddr(s.addr, i, l)
        root == compute_root(fors_sk_to_leaf(sig[i].sk, a), l, IdxOffset(i), sig[i].auth, SPX_FORS_HEIGHT, a)
    IN  With(Append(s.out, root.out), root.addr)
AreForsTurns(f, n, sig, m, b) ==
    f = [k \in 0 .. n |-> IF k = 0 THEN With(<<>>, b)
                          ELSE ForsTurn(f[k - 1], k - 1, sig, message_to_indices(m)[k - 1])]

(* For every n there are n turns.                                           *)
LEMMA ForsTurnsExist ==
    ASSUME NEW sig, NEW m, NEW b
    PROVE  \A n \in Nat : \E f : AreForsTurns(f, n, sig, m, b)
  <1> DEFINE S == {n \in Nat : \E f : AreForsTurns(f, n, sig, m, b)}
             turn(s, k) == ForsTurn(s, k - 1, sig, message_to_indices(m)[k - 1])
  <1> HIDE DEF turn
  <1>0. ASSUME NEW f, NEW n
        PROVE  AreForsTurns(f, n, sig, m, b)
                 <=> f = [k \in 0 .. n |-> IF k = 0 THEN With(<<>>, b) ELSE turn(f[k - 1], k)]
    BY DEF AreForsTurns, turn
  <1>1. 0 \in S
    <2> DEFINE f == [k \in 0 .. 0 |-> With(<<>>, b)]
    <2>1. f = [k \in 0 .. 0 |-> IF k = 0 THEN With(<<>>, b) ELSE turn(f[k - 1], k)]
      OBVIOUS
    <2> HIDE DEF f
    <2>2. AreForsTurns(f, 0, sig, m, b)
      BY <1>0, <2>1
    <2> QED
      BY <2>2
  <1>2. ASSUME NEW n \in Nat, n \in S PROVE n + 1 \in S
    <2>1. PICK f : AreForsTurns(f, n, sig, m, b)
      BY <1>2
    <2>2. f = [k \in 0 .. n |-> IF k = 0 THEN With(<<>>, b) ELSE turn(f[k - 1], k)]
      BY <1>0, <2>1
    <2> DEFINE longer == [k \in 0 .. n + 1 |-> IF k <= n THEN f[k] ELSE turn(f[n], n + 1)]  o == n + 1
    <2>3. longer = [k \in 0 .. o |-> IF k = 0 THEN With(<<>>, b) ELSE turn(longer[k - 1], k)]
      BY <2>2
    <2> HIDE DEF longer, o
    <2>4. AreForsTurns(longer, o, sig, m, b)
      BY <1>0, <2>3
    <2> QED
      BY <2>4 DEF o
  <1> HIDE DEF S
  <1>3. Nat \subseteq S
    BY <1>1, <1>2, Induct
  <1> QED
    BY <1>3 DEF S

(* A list of roots grows by one.                                             *)
LEMMA RootsGrow ==
    ASSUME NEW k \in Nat, NEW c
    PROVE  Append([i \in 1 .. k |-> ForsRoot(i - 1, c)], ForsRoot(k, c)) = [i \in 1 .. k + 1 |-> ForsRoot(i - 1, c)]
  <1> DEFINE s == [i \in 1 .. k |-> ForsRoot(i - 1, c)]  t == [i \in 1 .. k + 1 |-> ForsRoot(i - 1, c)]
             A == {ForsRoot(i - 1, c) : i \in 1 .. k + 1}
  <1>1. s \in Seq(A) /\ Len(s) = k /\ ForsRoot(k, c) \in A
    OBVIOUS
  <1> QED
    BY <1>1

(* The leaf that is revealed is the leaf of the tree.                        *)
LEMMA RevealedLeaf ==
    ASSUME NEW c \in Addresses, c.type = TYPE_FORSTREE, NEW b \in Addresses, Alike(b, c),
           NEW i \in Trees, NEW l \in 0 .. Pow2[SPX_FORS_HEIGHT] - 1
    PROVE  fors_sk_to_leaf(prf_addr(LeafAddr(c, i, l)), LeafAddr(b, i, l)) = ForsRow(i, c)[l]
  <1> DEFINE off == IdxOffset(i)  e == LeafAddr(c, i, l)
             d == set_tree_index(KeypairAddr(c, TYPE_FORSTREE), l + off)
  <1>1. off \in Nat /\ l \in Nat /\ Shr(off, 0) = off
    <2>1. Pow2[SPX_FORS_HEIGHT] \in Nat
      BY Powers, ForsAssumption
    <2> HIDE DEF off
    <2>2. off \in Nat
      BY OffsetIs DEF off
    <2> QED
      BY <2>1, <2>2, ShiftOnce
  <1>2. LeafAddr(b, i, l) = NodeAddr(b, 0, l, off) /\ e = NodeAddr(c, 0, l, off)
    BY <1>1 DEF LeafAddr, NodeAddr
  <1>3. NodeAddr(b, 0, l, off) = NodeAddr(c, 0, l, off)
    <2> HIDE DEF off
    <2>1. 0 \in Nat
      OBVIOUS
    <2> QED
      BY <1>1, <2>1, AlikeNodes
  <1>4. d = e
    <2> DEFINE w == l + off
    <2>1. e = [layer |-> c.layer, tree |-> c.tree, type |-> c.type, keypair |-> c.keypair, b27 |-> 0, w28 |-> w]
      <3> HIDE DEF off, e
      <3>1. NodeAddr(c, 0, l, off) = NodeOf(c, 0, l, off)
        BY <1>1, NodeAddrIs
      <3>2. 0 % 256 = 0
        OBVIOUS
      <3> QED
        BY <1>1, <1>2, <3>1, <3>2 DEF NodeOf
    <2>2. KeypairAddr(c, TYPE_FORSTREE)
            = [layer |-> c.layer, tree |-> c.tree, type |-> TYPE_FORSTREE, keypair |-> c.keypair, b27 |-> 0, w28 |-> 0]
      BY KeypairAddrFields DEF TYPE_FORSTREE
    <2> DEFINE z == KeypairAddr(c, TYPE_FORSTREE)
    <2>3. d = [z EXCEPT !.w28 = w]
      BY DEF set_tree_index
    <2> HIDE DEF z, w, e, d
    <2>4. d = [layer |-> c.layer, tree |-> c.tree, type |-> TYPE_FORSTREE, keypair |-> c.keypair, b27 |-> 0, w28 |-> w]
      BY <2>2, <2>3 DEF z
    <2> QED
      BY <2>1, <2>4
  <1>5. ForsRow(i, c)[l] = fors_gen_leaf(l + off, c)
    BY DEF ForsRow
  <1>6. fors_gen_leaf(l + off, c) = fors_sk_to_leaf(prf_addr(d), d)
    BY DEF fors_gen_leaf
  <1> HIDE DEF off, e, d
  <1> QED
    BY <1>2, <1>3, <1>4, <1>5, <1>6 DEF e

(* A verifier recomputes the FORS key from what the signer reveals.          *)
LEMMA ForsVerifies ==
    ASSUME NEW m \in [1 .. SPX_FORS_MSG_BYTES -> 0 .. Byte - 1], NEW addr \in Addresses
    PROVE  fors_pk_from_sig(fors_sign(m, addr).sig, m, addr) = ForsKey(addr)
  <1> DEFINE T == SPX_FORS_TREES
             sig == fors_sign(m, addr).sig
             index(i) == message_to_indices(m)[i]
             c == KeypairAddr(addr, TYPE_FORSTREE)
             P(f) == AreForsTurns(f, T, sig, m, c)
             f == CHOOSE g : P(g)
             Good(k) == /\ f[k].addr \in Addresses /\ Alike(f[k].addr, c)
                        /\ f[k].out = [i \in 1 .. k |-> ForsRoot(i - 1, c)]
             S == {k \in Nat : k <= T => Good(k)}
  <1>1. T \in Nat
    BY ForsAssumption
  <1>2. \E g : P(g)
    BY <1>1, ForsTurnsExist
  <1>3. P(f)
    BY <1>2, Zenon
  <1>4. fors_pk_from_sig(sig, m, addr) = PublicKey([i \in Trees |-> f[T].out[i + 1]], addr)
    BY DEF fors_pk_from_sig, AreForsTurns, ForsTurn
  <1>5. c \in Addresses /\ c.type = TYPE_FORSTREE
    <2>1. KeypairAddr(addr, TYPE_FORSTREE) \in Addresses
      BY KeypairAddrIs DEF TYPE_FORSTREE
    <2>2. KeypairAddr(addr, TYPE_FORSTREE)
            = [layer |-> addr.layer, tree |-> addr.tree, type |-> TYPE_FORSTREE, keypair |-> addr.keypair,
               b27 |-> 0, w28 |-> 0]
      BY KeypairAddrFields DEF TYPE_FORSTREE
    <2> QED
      BY <2>1, <2>2
  <1>6. ASSUME NEW i \in Trees
        PROVE  /\ index(i) \in 0 .. Pow2[SPX_FORS_HEIGHT] - 1 /\ index(i) \in Nat
               /\ sig[i].sk = prf_addr(LeafAddr(c, i, index(i)))
               /\ sig[i].auth = [h \in 0 .. SPX_FORS_HEIGHT - 1 |-> Rows(ForsTree(i, c))[h][Sibling(Shr(index(i), h))]]
    <2> DEFINE l == index(i)  b == LeafAddr(c, i, l)
    <2>1. sig[i].sk = prf_addr(b) /\ sig[i].auth = SignedTree(i, l, b).auth
      BY DEF fors_sign
    <2> HIDE DEF c
    <2>2. l \in 0 .. Pow2[SPX_FORS_HEIGHT] - 1
      BY IndicesAre
    <2> HIDE DEF index
    <2>3. l \in Nat
      BY <2>2, Powers, ForsAssumption
    <2>4. b \in Addresses /\ Alike(b, c)
      BY <1>5, <2>3, LeafAddrIs
    <2> HIDE DEF l, b, sig
    <2>5. SignedTree(i, l, b) = Whole(ForsTree(i, b), l)
      BY <2>2, <2>4, ForsTreehash DEF l
    <2>6. Whole(ForsTree(i, b), l).auth = [h \in 0 .. SPX_FORS_HEIGHT - 1 |-> Rows(ForsTree(i, b))[h][Sibling(Shr(l, h))]]
      BY DEF Whole, ForsTree
    <2>7. \A h \in 0 .. SPX_FORS_HEIGHT : Rows(ForsTree(i, b))[h] = Rows(ForsTree(i, c))[h]
      BY <1>5, <2>4, SameForsTree
    <2>8. 0 .. SPX_FORS_HEIGHT - 1 \subseteq 0 .. SPX_FORS_HEIGHT
      BY ForsAssumption
    <2>9. Whole(ForsTree(i, b), l).auth = [h \in 0 .. SPX_FORS_HEIGHT - 1 |-> Rows(ForsTree(i, c))[h][Sibling(Shr(l, h))]]
      BY <2>6, <2>7, <2>8
    <2> QED
      BY <2>1, <2>2, <2>3, <2>5, <2>9 DEF l, b
  <1> HIDE DEF f, c, sig, index
  <1>7. 0 \in S
    <2>1. f[0] = With(<<>>, c)
      BY <1>1, <1>3 DEF AreForsTurns
    <2>2. <<>> = [i \in 1 .. 0 |-> ForsRoot(i - 1, c)]
      OBVIOUS
    <2> QED
      BY <1>5, <2>1, <2>2 DEF With, Alike
  <1>8. ASSUME NEW k \in Nat, k \in S PROVE k + 1 \in S
    <2> SUFFICES ASSUME k + 1 <= T PROVE Good(k + 1)
      OBVIOUS
    <2> DEFINE n == k + 1  l == index(k)  b == LeafAddr(f[k].addr, k, l)  a == ForsTree(k, c)
               root == compute_root(fors_sk_to_leaf(sig[k].sk, b), l, IdxOffset(k), sig[k].auth, SPX_FORS_HEIGHT, b)
    <2>1. n \in 0 .. T /\ n # 0 /\ n - 1 = k /\ k \in Trees
      BY <1>1 DEF Trees
    <2>2. Good(k)
      BY <1>1, <1>8
    <2>3. f[n] = With(Append(f[k].out, root.out), root.addr)
      <3> HIDE DEF n
      <3>1. f[n] = ForsTurn(f[n - 1], n - 1, sig, message_to_indices(m)[n - 1])
        BY <1>3, <2>1 DEF AreForsTurns
      <3> QED
        BY <2>1, <3>1 DEF ForsTurn, index
    <2>4. l \in 0 .. Pow2[SPX_FORS_HEIGHT] - 1 /\ l \in Nat
          /\ sig[k].sk = prf_addr(LeafAddr(c, k, l))
          /\ sig[k].auth = [h \in 0 .. SPX_FORS_HEIGHT - 1 |-> Rows(ForsTree(k, c))[h][Sibling(Shr(l, h))]]
      BY <1>6, <2>1
    <2> HIDE DEF l
    <2>5. b \in Addresses /\ Alike(b, f[k].addr)
      BY <2>1, <2>2, <2>4, LeafAddrIs
    <2>6. Alike(b, c)
      BY <2>2, <2>5 DEF Alike
    <2>7. fors_sk_to_leaf(sig[k].sk, b) = ForsRow(k, c)[l]
      <3>1. f[k].addr \in Addresses /\ Alike(f[k].addr, c)
        BY <2>2
      <3>2. fors_sk_to_leaf(prf_addr(LeafAddr(c, k, l)), LeafAddr(f[k].addr, k, l)) = ForsRow(k, c)[l]
        BY <1>5, <2>1, <2>4, <3>1, RevealedLeaf
      <3> QED
        BY <2>4, <3>2
    <2>8. IsTree(a)
      BY <1>5, <2>1, <2>4, ForsTreehash
    <2>9. /\ a.height = SPX_FORS_HEIGHT /\ a.offset = IdxOffset(k) /\ a.addr = c /\ a.row = ForsRow(k, c)
          /\ LeavesOf(a) = 0 .. Pow2[SPX_FORS_HEIGHT] - 1
          /\ Rows(a)[SPX_FORS_HEIGHT][0] = ForsRoot(k, c)
          /\ sig[k].auth = [h \in 0 .. SPX_FORS_HEIGHT - 1 |-> Rows(a)[h][Sibling(Shr(l, h))]]
      BY <2>4 DEF ForsTree, LeavesOf, WidthOf, ForsRoot
    <2> HIDE DEF a, b
    <2> DEFINE path == sig[k].auth
    <2>10. \A h \in 0 .. a.height - 1 : path[h] = Rows(a)[h][Sibling(Shr(l, h))]
      BY <2>9
    <2>11. l \in LeavesOf(a)
      BY <2>4, <2>9
    <2>12. Alike(b, a.addr)
      BY <2>6, <2>9
    <2> DEFINE e == compute_root(a.row[l], l, a.offset, path, a.height, b)
    <2>13. e.out = Rows(a)[a.height][0] /\ e.addr \in Addresses /\ Alike(e.addr, a.addr)
      <3> HIDE DEF path
      <3> QED
        BY <2>5, <2>8, <2>10, <2>11, <2>12, RootFromPath
    <2>14. root = e
      BY <2>7, <2>9
    <2> HIDE DEF root, e, path
    <2>15. root.out = ForsRoot(k, c) /\ root.addr \in Addresses /\ Alike(root.addr, c)
      BY <2>9, <2>13, <2>14
    <2>16. f[n].out = [i \in 1 .. n |-> ForsRoot(i - 1, c)]
      <3> DEFINE s == [i \in 1 .. k |-> ForsRoot(i - 1, c)]
      <3>1. f[n].out = Append(s, root.out)
        BY <2>2, <2>3 DEF With
      <3>2. Append(s, ForsRoot(k, c)) = [i \in 1 .. n |-> ForsRoot(i - 1, c)]
        BY RootsGrow
      <3> QED
        BY <2>15, <3>1, <3>2
    <2>17. f[n].addr \in Addresses /\ Alike(f[n].addr, c)
      BY <2>3, <2>15 DEF With
    <2> QED
      BY <2>16, <2>17
  <1> HIDE DEF S
  <1>9. T \in S
    BY <1>1, <1>7, <1>8, Induct
  <1>10. f[T].out = [i \in 1 .. T |-> ForsRoot(i - 1, c)]
    BY <1>1, <1>9 DEF S
  <1>11. [i \in Trees |-> f[T].out[i + 1]] = [i \in Trees |-> ForsRoot(i, c)]
    <2>1. ASSUME NEW i \in Trees PROVE f[T].out[i + 1] = ForsRoot(i, c)
      <3>1. i + 1 \in 1 .. T /\ (i + 1) - 1 = i
        BY <1>1 DEF Trees
      <3> QED
        BY <1>10, <3>1
    <2> QED
      BY <2>1
  <1> QED
    BY <1>4, <1>11 DEF ForsKey, c, sig

-----------------------------------------------------------------------------
(* WOTS. Addresses that a key of address b leaves behind: like b, and the    *)
(* hash address fills one byte.                                              *)
InWots(b, c) == c \in Addresses /\ Alike(c, b) /\ c.w28 \in 0 .. 255
InChain(b, i, c) == InWots(b, c) /\ c.b27 = i % 256
LinkAddr(b, i, k) ==
    [layer |-> b.layer, tree |-> b.tree, type |-> b.type, keypair |-> b.keypair, b27 |-> i % 256, w28 |-> k % 256]

(* Setting the chain and the hash keeps them so.                             *)
LEMMA ChainAddrIs ==
    ASSUME NEW b, NEW c, InWots(b, c), NEW i \in Nat
    PROVE  InChain(b, i, set_chain_addr(c, i))
  <1> DEFINE low == i % 256  d == set_chain_addr(c, i)
  <1>1. low \in Nat
    OBVIOUS
  <1>2. c \in Addresses /\ c = [layer |-> c.layer, tree |-> c.tree, type |-> c.type, keypair |-> c.keypair,
                                b27 |-> c.b27, w28 |-> c.w28]
    BY AddrIs DEF InWots
  <1>3. d = [c EXCEPT !.b27 = low]
    BY DEF set_chain_addr, Byte
  <1> HIDE DEF low, d
  <1>4. d = [layer |-> c.layer, tree |-> c.tree, type |-> c.type, keypair |-> c.keypair, b27 |-> low, w28 |-> c.w28]
    BY <1>2, <1>3
  <1>5. d \in Addresses
    BY <1>1, <1>2, <1>4, AddrIs, IsAddr
  <1>6. d.b27 = low /\ d.w28 \in 0 .. 255 /\ Alike(d, b)
    BY <1>4 DEF InWots, Alike
  <1> QED
    BY <1>5, <1>6 DEF InChain, InWots, low, d

(* A link's address depends on the key, the chain and the position alone.    *)
LEMMA LinkAddrIs ==
    ASSUME NEW b, NEW i \in Nat, NEW c, InChain(b, i, c), NEW k \in Nat
    PROVE  set_hash_addr(c, k) = LinkAddr(b, i, k) /\ InChain(b, i, set_hash_addr(c, k))
  <1> DEFINE low == k % 256  d == set_hash_addr(c, k)  w == (c.w28 - (c.w28 % 256)) + low
  <1>1. low \in 0 .. 255
    OBVIOUS
  <1>2. /\ c \in Addresses /\ c = [layer |-> c.layer, tree |-> c.tree, type |-> c.type, keypair |-> c.keypair,
                                   b27 |-> c.b27, w28 |-> c.w28]
        /\ c.w28 \in 0 .. 255 /\ c.b27 = i % 256 /\ Alike(c, b)
    BY AddrIs DEF InChain, InWots
  <1>3. d = [c EXCEPT !.w28 = w]
    BY DEF set_hash_addr, Byte
  <1>4. w = low
    <2> DEFINE n == c.w28
    <2>1. n \in 0 .. 255
      BY <1>2
    <2> HIDE DEF n, low
    <2>2. (n - (n % 256)) + low = low
      BY <1>1, <2>1
    <2> QED
      BY <2>2 DEF n
  <1> HIDE DEF low, d, w
  <1>5. d = [layer |-> c.layer, tree |-> c.tree, type |-> c.type, keypair |-> c.keypair, b27 |-> c.b27, w28 |-> low]
    BY <1>2, <1>3, <1>4
  <1>6. d \in Addresses
    <2>1. low \in Nat
      BY <1>1
    <2> QED
      BY <1>2, <1>5, <2>1, AddrIs, IsAddr
  <1>7. d.b27 = i % 256 /\ d.w28 = low /\ Alike(d, b)
    BY <1>2, <1>5 DEF Alike
  <1>8. d = LinkAddr(b, i, k)
    BY <1>2, <1>5 DEF LinkAddr, Alike, low
  <1> QED
    BY <1>1, <1>6, <1>7, <1>8 DEF InChain, InWots, d

(* Chain i of the key of address b, from its secret to its end.              *)
AreLinks(f, n, b, i) ==
    f = [k \in 0 .. n |-> IF k = 0 THEN prf_addr(LinkAddr(b, i, 0)) ELSE thash(<<f[k - 1]>>, LinkAddr(b, i, k - 1))]
ChainOf(b, i) == CHOOSE f : AreLinks(f, SPX_WOTS_W, b, i)

(* For every n there is a chain of n links,                                  *)
LEMMA LinksExist == ASSUME NEW b, NEW i PROVE \A n \in Nat : \E f : AreLinks(f, n, b, i)
  <1> DEFINE S == {n \in Nat : \E f : AreLinks(f, n, b, i)}
  <1>1. 0 \in S
    <2> DEFINE f == [k \in 0 .. 0 |-> prf_addr(LinkAddr(b, i, 0))]
    <2>1. AreLinks(f, 0, b, i)
      BY DEF AreLinks
    <2> QED
      BY <2>1
  <1>2. ASSUME NEW n \in Nat, n \in S PROVE n + 1 \in S
    <2>1. PICK f : AreLinks(f, n, b, i)
      BY <1>2
    <2> DEFINE longer == [k \in 0 .. n + 1 |-> IF k <= n THEN f[k] ELSE thash(<<f[n]>>, LinkAddr(b, i, n))]
    <2>2. AreLinks(longer, n + 1, b, i)
      BY <2>1 DEF AreLinks
    <2> QED
      BY <2>2
  <1> HIDE DEF S
  <1>3. Nat \subseteq S
    BY <1>1, <1>2, Induct
  <1> QED
    BY <1>3 DEF S

(* so link after link it is what it says.                                    *)
LEMMA ChainIs ==
    ASSUME NEW b, NEW i
    PROVE  /\ SPX_WOTS_W \in Nat \ {0}
           /\ ChainOf(b, i)[0] = prf_addr(LinkAddr(b, i, 0))
           /\ \A k \in 0 .. SPX_WOTS_W - 1 : ChainOf(b, i)[k + 1] = thash(<<ChainOf(b, i)[k]>>, LinkAddr(b, i, k))
  <1> DEFINE W == SPX_WOTS_W  P(f) == AreLinks(f, W, b, i)  f == ChainOf(b, i)
  <1>1. W \in Nat \ {0}
    BY Powers, SphincsAssumption DEF SPX_WOTS_W
  <1>2. \E g : P(g)
    BY <1>1, LinksExist
  <1>3. f = CHOOSE g : P(g)
    BY DEF ChainOf
  <1>4. P(f)
    BY <1>2, <1>3, Zenon
  <1> HIDE DEF f, W
  <1>5. f[0] = prf_addr(LinkAddr(b, i, 0))
    BY <1>1, <1>4 DEF AreLinks
  <1>6. \A k \in 0 .. W - 1 : f[k + 1] = thash(<<f[k]>>, LinkAddr(b, i, k))
    BY <1>1, <1>4 DEF AreLinks
  <1> QED
    BY <1>1, <1>5, <1>6 DEF f, W

(* The loop of gen_chain: its recursion has a solution.                      *)
AreSteps(f, n, in, start, addr) ==
    f = [k \in 0 .. n |-> IF k = 0 THEN With(in, addr) ELSE Link(f[k - 1], start + k - 1)]

(* For every n there are n steps.                                           *)
LEMMA StepsExist ==
    ASSUME NEW in, NEW start \in Nat, NEW addr
    PROVE  \A n \in Nat : \E f : AreSteps(f, n, in, start, addr)
  <1> DEFINE S == {n \in Nat : \E f : AreSteps(f, n, in, start, addr)}
  <1>1. 0 \in S
    <2> DEFINE f == [k \in 0 .. 0 |-> With(in, addr)]
    <2>1. AreSteps(f, 0, in, start, addr)
      BY DEF AreSteps
    <2> QED
      BY <2>1
  <1>2. ASSUME NEW n \in Nat, n \in S PROVE n + 1 \in S
    <2>1. PICK f : AreSteps(f, n, in, start, addr)
      BY <1>2
    <2> DEFINE longer == [k \in 0 .. n + 1 |-> IF k <= n THEN f[k] ELSE Link(f[n], start + n)]
    <2>2. AreSteps(longer, n + 1, in, start, addr)
      BY <2>1, SMTT(30) DEF AreSteps
    <2> QED
      BY <2>2
  <1> HIDE DEF S
  <1>3. Nat \subseteq S
    BY <1>1, <1>2, Induct
  <1> QED
    BY <1>3 DEF S

(* Wherever gen_chain takes a chain up, it goes on with it.                  *)
LEMMA ChainGoesOn ==
    ASSUME NEW b, NEW i \in Nat, NEW c, InChain(b, i, c), NEW start \in Nat, NEW steps \in Nat,
           start + steps <= SPX_WOTS_W, NEW in, in = ChainOf(b, i)[start]
    PROVE  LET e == gen_chain(in, start, steps, c)
           IN  e.out = ChainOf(b, i)[start + steps] /\ InChain(b, i, e.addr)
  <1> DEFINE P(f) == AreSteps(f, steps, in, start, c)
             f == CHOOSE g : P(g)
             t == ChainOf(b, i)
             W == SPX_WOTS_W
             Good(k) == f[k].out = t[start + k] /\ InChain(b, i, f[k].addr)
             S == {k \in Nat : k <= steps => Good(k)}
  <1>1. \E g : P(g)
    BY StepsExist
  <1>2. P(f)
    BY <1>1, Zenon
  <1>3. gen_chain(in, start, steps, c) = f[steps]
    BY DEF gen_chain, AreSteps
  <1>4. W \in Nat \ {0} /\ \A k \in 0 .. W - 1 : t[k + 1] = thash(<<t[k]>>, LinkAddr(b, i, k))
    BY ChainIs
  <1> HIDE DEF f, t, W
  <1>5. 0 \in S
    <2>1. f[0] = With(in, c) /\ start + 0 = start
      BY <1>2 DEF AreSteps
    <2> QED
      BY <2>1 DEF With, t
  <1>6. ASSUME NEW k \in Nat, k \in S PROVE k + 1 \in S
    <2> SUFFICES ASSUME k + 1 <= steps PROVE Good(k + 1)
      OBVIOUS
    <2> DEFINE n == k + 1  j == start + k  e == set_hash_addr(f[k].addr, j)
    <2>1. n \in 0 .. steps /\ n # 0 /\ n - 1 = k /\ start + n - 1 = j /\ start + n = j + 1
          /\ j \in Nat /\ j \in 0 .. W - 1
      BY <1>4 DEF W
    <2>2. Good(k)
      BY <1>6
    <2>3. f[n] = Link(f[k], j)
      <3> HIDE DEF n, j
      <3>1. f[n] = Link(f[n - 1], start + n - 1)
        BY <1>2, <2>1 DEF AreSteps
      <3> QED
        BY <2>1, <3>1
    <2> HIDE DEF n, j
    <2>4. e = LinkAddr(b, i, j) /\ InChain(b, i, e)
      BY <2>1, <2>2, LinkAddrIs
    <2>5. f[n] = With(thash(<<f[k].out>>, e), e)
      BY <2>3 DEF Link
    <2>6. f[k].out = t[j]
      BY <2>2 DEF j
    <2>7. t[j + 1] = thash(<<t[j]>>, LinkAddr(b, i, j))
      BY <1>4, <2>1
    <2> HIDE DEF e
    <2>8. f[n].out = t[j + 1] /\ f[n].addr = e
      BY <2>4, <2>5, <2>6, <2>7 DEF With
    <2>9. Good(n)
      BY <2>1, <2>4, <2>8
    <2> QED
      BY <2>9 DEF n
  <1> HIDE DEF S
  <1>7. steps \in S
    BY <1>5, <1>6, Induct
  <1>8. Good(steps)
    BY <1>7 DEF S
  <1> QED
    BY <1>3, <1>8 DEF t

(* Chain after chain, whatever they are.                                     *)
AddsChains(f, n, vals, b) ==
    \A i \in 1 .. n : InWots(b, f[i - 1].addr) =>
        f[i].out = Append(f[i - 1].out, vals[i]) /\ InWots(b, f[i].addr)

(* They make the list of their values.                                       *)
LEMMA ChainsGrow ==
    ASSUME NEW b, NEW c, InWots(b, c), NEW n \in Nat, NEW vals, NEW f, f[0] = With(<<>>, c),
           AddsChains(f, n, vals, b)
    PROVE  f[n].out = [i \in 1 .. n |-> vals[i]] /\ InWots(b, f[n].addr)
  <1> DEFINE Good(k) == f[k].out = [i \in 1 .. k |-> vals[i]] /\ InWots(b, f[k].addr)
             S == {k \in Nat : k <= n => Good(k)}
  <1>1. 0 \in S
    <2>1. <<>> = [i \in 1 .. 0 |-> vals[i]]
      OBVIOUS
    <2> QED
      BY <2>1 DEF With
  <1>2. ASSUME NEW k \in Nat, k \in S PROVE k + 1 \in S
    <2> SUFFICES ASSUME k + 1 <= n PROVE Good(k + 1)
      OBVIOUS
    <2> DEFINE m == k + 1
    <2>1. m \in 1 .. n /\ m - 1 = k
      OBVIOUS
    <2>2. Good(k)
      BY <1>2
    <2> HIDE DEF m
    <2>3. f[m].out = Append(f[k].out, vals[m]) /\ InWots(b, f[m].addr)
      <3>1. InWots(b, f[m - 1].addr) => f[m].out = Append(f[m - 1].out, vals[m]) /\ InWots(b, f[m].addr)
        BY <2>1 DEF AddsChains
      <3> QED
        BY <2>1, <2>2, <3>1
    <2>4. Append([i \in 1 .. k |-> vals[i]], vals[m]) = [i \in 1 .. m |-> vals[i]]
      <3> DEFINE A == {vals[i] : i \in 1 .. m}  s == [i \in 1 .. k |-> vals[i]]
      <3>1. m = k + 1
        BY DEF m
      <3>2. \A i \in 1 .. m : vals[i] \in A
        OBVIOUS
      <3> HIDE DEF A
      <3>3. s \in [1 .. k -> A]
        BY <3>1, <3>2
      <3>4. s \in Seq(A) /\ Len(s) = k
        BY <3>3
      <3>5. vals[m] \in A
        BY <3>1, <3>2
      <3> QED
        BY <3>1, <3>4, <3>5
    <2>5. Good(m)
      BY <2>2, <2>3, <2>4
    <2> QED
      BY <2>5 DEF m
  <1> HIDE DEF S
  <1>3. n \in S
    BY <1>1, <1>2, Induct
  <1> QED
    BY <1>3 DEF S

-----------------------------------------------------------------------------
(* The chains of a key, and those of a signature: the recursions over the    *)
(* chains have solutions.                                                    *)
SecretTurn(s, i, lengths) ==
    LET c == ChainFromSecret(lengths[i], set_chain_addr(s.addr, i - 1)) IN With(Append(s.out, c.out), c.addr)
SigTurn(s, i, lengths, sig) ==
    LET c == gen_chain(sig[i], lengths[i], (SPX_WOTS_W - 1) - lengths[i], set_chain_addr(s.addr, i - 1))
    IN  With(Append(s.out, c.out), c.addr)
AreSecretTurns(f, n, lengths, addr) ==
    f = [i \in 0 .. n |-> IF i = 0 THEN With(<<>>, addr) ELSE SecretTurn(f[i - 1], i, lengths)]
AreSigTurns(f, n, lengths, sig, addr) ==
    f = [i \in 0 .. n |-> IF i = 0 THEN With(<<>>, addr) ELSE SigTurn(f[i - 1], i, lengths, sig)]

(* For every n there are n turns from secrets,                               *)
LEMMA SecretTurnsExist ==
    ASSUME NEW lengths, NEW addr
    PROVE  \A n \in Nat : \E f : AreSecretTurns(f, n, lengths, addr)
  <1> DEFINE S == {n \in Nat : \E f : AreSecretTurns(f, n, lengths, addr)}
  <1>1. 0 \in S
    <2> DEFINE f == [k \in 0 .. 0 |-> With(<<>>, addr)]
    <2>1. AreSecretTurns(f, 0, lengths, addr)
      BY DEF AreSecretTurns
    <2> QED
      BY <2>1
  <1>2. ASSUME NEW n \in Nat, n \in S PROVE n + 1 \in S
    <2>1. PICK f : AreSecretTurns(f, n, lengths, addr)
      BY <1>2
    <2> DEFINE longer == [k \in 0 .. n + 1 |-> IF k <= n THEN f[k] ELSE SecretTurn(f[n], n + 1, lengths)]
    <2>2. AreSecretTurns(longer, n + 1, lengths, addr)
      BY <2>1 DEF AreSecretTurns
    <2> QED
      BY <2>2
  <1> HIDE DEF S
  <1>3. Nat \subseteq S
    BY <1>1, <1>2, Induct
  <1> QED
    BY <1>3 DEF S

(* and n turns from a signature.                                             *)
LEMMA SigTurnsExist ==
    ASSUME NEW lengths, NEW sig, NEW addr
    PROVE  \A n \in Nat : \E f : AreSigTurns(f, n, lengths, sig, addr)
  <1> DEFINE S == {n \in Nat : \E f : AreSigTurns(f, n, lengths, sig, addr)}
  <1>1. 0 \in S
    <2> DEFINE f == [k \in 0 .. 0 |-> With(<<>>, addr)]
    <2>1. AreSigTurns(f, 0, lengths, sig, addr)
      BY DEF AreSigTurns
    <2> QED
      BY <2>1
  <1>2. ASSUME NEW n \in Nat, n \in S PROVE n + 1 \in S
    <2>1. PICK f : AreSigTurns(f, n, lengths, sig, addr)
      BY <1>2
    <2> DEFINE longer == [k \in 0 .. n + 1 |-> IF k <= n THEN f[k] ELSE SigTurn(f[n], n + 1, lengths, sig)]
    <2>2. AreSigTurns(longer, n + 1, lengths, sig, addr)
      BY <2>1 DEF AreSigTurns
    <2> QED
      BY <2>2
  <1> HIDE DEF S
  <1>3. Nat \subseteq S
    BY <1>1, <1>2, Induct
  <1> QED
    BY <1>3 DEF S

(* As many chains as params.h says.                                          *)
LEMMA LenIs ==
    /\ SPX_WOTS_LEN1 \in Nat /\ SPX_WOTS_LEN2 \in 1 .. 4 /\ SPX_WOTS_LEN \in Nat
    /\ SPX_WOTS_LEN = SPX_WOTS_LEN1 + SPX_WOTS_LEN2
    /\ (SPX_WOTS_LEN1 * SPX_WOTS_LOGW + 7) \div 8 = SPX_N
  <1>1. SPX_WOTS_LEN1 \in Nat /\ (SPX_WOTS_LEN1 * SPX_WOTS_LOGW + 7) \div 8 = SPX_N
    <2>1. CASE SPX_WOTS_LOGW = 4
      BY <2>1, SphincsAssumption DEF SPX_WOTS_LEN1, LEN1
    <2>2. CASE SPX_WOTS_LOGW = 8
      BY <2>2, SphincsAssumption DEF SPX_WOTS_LEN1, LEN1
    <2> QED
      BY <2>1, <2>2, SphincsAssumption
  <1>2. SPX_WOTS_LEN2 \in 1 .. 4
    BY SphincsAssumption DEF SPX_WOTS_LEN2, LEN2
  <1> QED
    BY <1>1, <1>2 DEF SPX_WOTS_LEN

(* From the secrets, every chain as far as the lengths say.                  *)
LEMMA FromSecretsIs ==
    ASSUME NEW b, NEW c, InWots(b, c), NEW lengths,
           \A i \in 1 .. SPX_WOTS_LEN : lengths[i] \in 0 .. SPX_WOTS_W - 1
    PROVE  LET e == AllFromSecret(lengths, c)
           IN  e.out = [i \in 1 .. SPX_WOTS_LEN |-> ChainOf(b, i - 1)[lengths[i]]] /\ InWots(b, e.addr)
  <1> DEFINE n == SPX_WOTS_LEN
             P(f) == AreSecretTurns(f, n, lengths, c)
             f == CHOOSE g : P(g)
             vals == [i \in 1 .. n |-> ChainOf(b, i - 1)[lengths[i]]]
  <1>1. n \in Nat /\ SPX_WOTS_W \in Nat \ {0}
    BY LenIs, ChainIs
  <1>2. \E g : P(g)
    BY <1>1, SecretTurnsExist
  <1>3. P(f)
    BY <1>2, Zenon
  <1>4. AllFromSecret(lengths, c) = f[n]
    BY DEF AllFromSecret, Chains, AreSecretTurns, SecretTurn
  <1> HIDE DEF f, vals
  <1>5. f[0] = With(<<>>, c)
    BY <1>1, <1>3 DEF AreSecretTurns
  <1>6. ASSUME NEW i \in 1 .. n, InWots(b, f[i - 1].addr)
        PROVE  f[i].out = Append(f[i - 1].out, vals[i]) /\ InWots(b, f[i].addr)
    <2> DEFINE j == i - 1  s == f[j]  steps == lengths[i]  d == set_chain_addr(s.addr, j)  a == set_hash_addr(d, 0)
               in == prf_addr(a)  e == gen_chain(in, 0, steps, a)
    <2>1. i \in 0 .. n /\ i # 0 /\ j \in Nat
      BY <1>1
    <2>2. f[i] = With(Append(s.out, e.out), e.addr)
      BY <1>3, <2>1 DEF AreSecretTurns, SecretTurn, ChainFromSecret
    <2>3. steps \in 0 .. SPX_WOTS_W - 1
      OBVIOUS
    <2> HIDE DEF j, steps
    <2>4. InChain(b, j, d)
      BY <1>6, <2>1, ChainAddrIs DEF j
    <2> HIDE DEF d
    <2>5. a = LinkAddr(b, j, 0) /\ InChain(b, j, a)
      <3>1. 0 \in Nat
        OBVIOUS
      <3> QED
        BY <2>1, <2>4, <3>1, LinkAddrIs
    <2>6. in = ChainOf(b, j)[0]
      BY <2>5, ChainIs
    <2>7. steps \in Nat /\ 0 + steps <= SPX_WOTS_W /\ 0 + steps = steps /\ 0 \in Nat
      BY <1>1, <2>3
    <2> HIDE DEF a, in
    <2>8. e.out = ChainOf(b, j)[0 + steps] /\ InChain(b, j, e.addr)
      BY <2>1, <2>5, <2>6, <2>7, ChainGoesOn
    <2>9. vals[i] = ChainOf(b, j)[steps]
      BY DEF vals, j, steps
    <2> HIDE DEF e
    <2> QED
      BY <2>2, <2>7, <2>8, <2>9 DEF With, InChain, j
  <1>7. f[n].out = [i \in 1 .. n |-> vals[i]] /\ InWots(b, f[n].addr)
    <2>1. AddsChains(f, n, vals, b)
      BY <1>6 DEF AddsChains
    <2> HIDE DEF n
    <2> QED
      BY <1>1, <1>5, <2>1, ChainsGrow
  <1>8. [i \in 1 .. n |-> vals[i]] = vals
    BY DEF vals
  <1> QED
    BY <1>4, <1>7, <1>8 DEF vals

(* From a signature of these lengths, every chain to its end: the key.       *)
LEMMA FromSignatureIs ==
    ASSUME NEW b, NEW c, InWots(b, c), NEW msg, NEW sig,
           \A i \in 1 .. SPX_WOTS_LEN : /\ chain_lengths(msg)[i] \in 0 .. SPX_WOTS_W - 1
                                        /\ sig[i] = ChainOf(b, i - 1)[chain_lengths(msg)[i]]
    PROVE  LET e == wots_pk_from_sig(sig, msg, c)
           IN  e.out = [i \in 1 .. SPX_WOTS_LEN |-> ChainOf(b, i - 1)[SPX_WOTS_W - 1]] /\ InWots(b, e.addr)
  <1> DEFINE n == SPX_WOTS_LEN
             lengths == chain_lengths(msg)
             P(f) == AreSigTurns(f, n, lengths, sig, c)
             f == CHOOSE g : P(g)
             vals == [i \in 1 .. n |-> ChainOf(b, i - 1)[SPX_WOTS_W - 1]]
  <1>1. n \in Nat /\ SPX_WOTS_W \in Nat \ {0}
    BY LenIs, ChainIs
  <1>2. \E g : P(g)
    BY <1>1, SigTurnsExist
  <1>3. P(f)
    BY <1>2, Zenon
  <1>4. wots_pk_from_sig(sig, msg, c) = f[n]
    BY DEF wots_pk_from_sig, Chains, AreSigTurns, SigTurn
  <1> HIDE DEF f, vals, lengths
  <1>5. f[0] = With(<<>>, c)
    BY <1>1, <1>3 DEF AreSigTurns
  <1>6. ASSUME NEW i \in 1 .. n, InWots(b, f[i - 1].addr)
        PROVE  f[i].out = Append(f[i - 1].out, vals[i]) /\ InWots(b, f[i].addr)
    <2> DEFINE j == i - 1  s == f[j]  start == lengths[i]  d == set_chain_addr(s.addr, j)
               steps == (SPX_WOTS_W - 1) - start  in == sig[i]  e == gen_chain(in, start, steps, d)
    <2>1. i \in 0 .. n /\ i # 0 /\ j \in Nat
      BY <1>1
    <2>2. f[i] = With(Append(s.out, e.out), e.addr)
      BY <1>3, <2>1 DEF AreSigTurns, SigTurn
    <2>3. start \in 0 .. SPX_WOTS_W - 1 /\ in = ChainOf(b, j)[start]
      BY DEF lengths
    <2> HIDE DEF j, start, in
    <2>4. InChain(b, j, d)
      BY <1>6, <2>1, ChainAddrIs DEF j
    <2>5. start \in Nat /\ steps \in Nat /\ start + steps <= SPX_WOTS_W /\ start + steps = SPX_WOTS_W - 1
      BY <1>1, <2>3
    <2> HIDE DEF d, steps
    <2>6. e.out = ChainOf(b, j)[start + steps] /\ InChain(b, j, e.addr)
      BY <2>1, <2>3, <2>4, <2>5, ChainGoesOn
    <2>7. vals[i] = ChainOf(b, j)[SPX_WOTS_W - 1]
      BY DEF vals, j
    <2> HIDE DEF e
    <2> QED
      BY <2>2, <2>5, <2>6, <2>7 DEF With, InChain, j
  <1>7. f[n].out = [i \in 1 .. n |-> vals[i]] /\ InWots(b, f[n].addr)
    <2>1. AddsChains(f, n, vals, b)
      BY <1>6 DEF AddsChains
    <2> HIDE DEF n
    <2> QED
      BY <1>1, <1>5, <2>1, ChainsGrow
  <1>8. [i \in 1 .. n |-> vals[i]] = vals
    BY DEF vals
  <1> QED
    BY <1>4, <1>7, <1>8 DEF vals

-----------------------------------------------------------------------------
(* The digits of bytes are below W.                                          *)
LEMMA DigitsAre ==
    ASSUME NEW n \in Nat, NEW input,
           \A k \in 1 .. (n * SPX_WOTS_LOGW + 7) \div 8 : input[k] \in 0 .. Byte - 1
    PROVE  base_w(n, input) \in [1 .. n -> 0 .. SPX_WOTS_W - 1]
  <1> DEFINE W == SPX_WOTS_W
  <1>1. W \in Nat \ {0}
    BY ChainIs
  <1> HIDE DEF W
  <1>2. ASSUME NEW k \in 1 .. n
        PROVE  LET bit == (k - 1) * SPX_WOTS_LOGW
               IN  Shr(input[(bit \div 8) + 1], 8 - (SPX_WOTS_LOGW + (bit % 8))) % W \in 0 .. W - 1
    <2> DEFINE bit == (k - 1) * SPX_WOTS_LOGW  place == (bit \div 8) + 1  down == 8 - (SPX_WOTS_LOGW + (bit % 8))
               total == input[place]
    <2>1. down \in Nat /\ place \in 1 .. (n * SPX_WOTS_LOGW + 7) \div 8
      <3>1. CASE SPX_WOTS_LOGW = 4
        BY <3>1
      <3>2. CASE SPX_WOTS_LOGW = 8
        BY <3>2
      <3> QED
        BY <3>1, <3>2, SphincsAssumption
    <2> HIDE DEF place, down
    <2>2. total \in 0 .. Byte - 1 /\ Byte \in Nat
      BY <2>1 DEF Byte
    <2> HIDE DEF total
    <2>3. total \in Nat
      BY <2>2
    <2> DEFINE shifted == Shr(total, down)
    <2>4. shifted \in Nat
      BY <2>1, <2>3, ShiftOnce
    <2> HIDE DEF shifted
    <2>5. shifted % W \in 0 .. W - 1
      BY <1>1, <2>4
    <2> QED
      BY <2>5 DEF shifted, total, place, down
  <1> QED
    BY <1>2 DEF base_w, W

(* The sum of the checksum: its recursion has a solution.                    *)
AreSums(f, n, d) == f = [k \in 0 .. n |-> IF k = 0 THEN 0 ELSE f[k - 1] + ((SPX_WOTS_W - 1) - d[k])]

(* For every n there are n sums.                                             *)
LEMMA SumsExist == ASSUME NEW d PROVE \A n \in Nat : \E f : AreSums(f, n, d)
  <1> DEFINE S == {n \in Nat : \E f : AreSums(f, n, d)}
  <1>1. 0 \in S
    <2> DEFINE f == [k \in 0 .. 0 |-> 0]
    <2>1. AreSums(f, 0, d)
      BY DEF AreSums
    <2> QED
      BY <2>1
  <1>2. ASSUME NEW n \in Nat, n \in S PROVE n + 1 \in S
    <2>1. PICK f : AreSums(f, n, d)
      BY <1>2
    <2> DEFINE longer == [k \in 0 .. n + 1 |-> IF k <= n THEN f[k] ELSE f[n] + ((SPX_WOTS_W - 1) - d[n + 1])]
    <2>2. AreSums(longer, n + 1, d)
      BY <2>1 DEF AreSums
    <2> QED
      BY <2>2
  <1> HIDE DEF S
  <1>3. Nat \subseteq S
    BY <1>1, <1>2, Induct
  <1> QED
    BY <1>3 DEF S

(* The digits of the checksum are below W too.                               *)
LEMMA ChecksumIs ==
    ASSUME NEW d \in [1 .. SPX_WOTS_LEN1 -> 0 .. SPX_WOTS_W - 1]
    PROVE  wots_checksum(d) \in [1 .. SPX_WOTS_LEN2 -> 0 .. SPX_WOTS_W - 1]
  <1> DEFINE n == SPX_WOTS_LEN1  W == SPX_WOTS_W
             P(f) == AreSums(f, n, d)
             f == CHOOSE g : P(g)
             bits == SPX_WOTS_LEN2 * SPX_WOTS_LOGW
             up == (8 - (bits % 8)) % 8
             shifted == f[n] * Pow2[up]
             bytes == ull_to_bytes((bits + 7) \div 8, shifted)
             S == {k \in Nat : k <= n => f[k] \in Nat}
  <1>1. n \in Nat /\ W \in Nat \ {0} /\ bits \in Nat /\ SPX_WOTS_LEN2 \in Nat
    BY LenIs, ChainIs, SphincsAssumption
  <1>2. \E g : P(g)
    BY <1>1, SumsExist
  <1>3. P(f)
    BY <1>2, Zenon
  <1>4. wots_checksum(d) = base_w(SPX_WOTS_LEN2, bytes)
    BY DEF wots_checksum, AreSums
  <1> HIDE DEF f
  <1>5. 0 \in S
    BY <1>1, <1>3 DEF AreSums
  <1>6. ASSUME NEW k \in Nat, k \in S PROVE k + 1 \in S
    <2> SUFFICES ASSUME k + 1 <= n PROVE f[k + 1] \in Nat
      OBVIOUS
    <2>1. f[k] \in Nat /\ d[k + 1] \in 0 .. W - 1
      BY <1>1, <1>6
    <2>2. f[k + 1] = f[k] + ((W - 1) - d[k + 1])
      BY <1>1, <1>3 DEF AreSums
    <2> HIDE DEF W
    <2> QED
      BY <1>1, <2>1, <2>2
  <1> HIDE DEF S, n
  <1>7. n \in S
    BY <1>1, <1>5, <1>6, Induct
  <1>8. f[n] \in Nat
    BY <1>1, <1>7 DEF S
  <1> HIDE DEF bits
  <1>9. up \in Nat
    BY <1>1
  <1> HIDE DEF up
  <1>10. Pow2[up] \in Nat
    BY <1>9, Powers
  <1>11. shifted \in Nat
    BY <1>8, <1>10
  <1> HIDE DEF shifted
  <1>12. \A k \in 1 .. (bits + 7) \div 8 : bytes[k] \in 0 .. Byte - 1
    <2> DEFINE len == (bits + 7) \div 8
    <2>1. ASSUME NEW k \in 1 .. len PROVE Shr(shifted, 8 * (len - k)) % Byte \in 0 .. Byte - 1
      <3> DEFINE down == 8 * (len - k)
      <3>1. len \in Nat
        BY <1>1
      <3> HIDE DEF len
      <3>2. down \in Nat
        BY <3>1
      <3> HIDE DEF down
      <3> DEFINE v == Shr(shifted, down)
      <3>3. v \in Nat
        BY <1>11, <3>2, ShiftOnce
      <3> HIDE DEF v
      <3>4. v % Byte \in 0 .. Byte - 1
        BY <3>3 DEF Byte
      <3> QED
        BY <3>4 DEF v, down
    <2> QED
      BY <2>1 DEF ull_to_bytes
  <1> HIDE DEF bytes
  <1>13. base_w(SPX_WOTS_LEN2, bytes) \in [1 .. SPX_WOTS_LEN2 -> 0 .. SPX_WOTS_W - 1]
    BY <1>1, <1>12, DigitsAre DEF bits
  <1> QED
    BY <1>4, <1>13

(* So are all lengths of a hash of SPX_N bytes.                              *)
LEMMA LengthsAre ==
    ASSUME NEW msg, BytesOf(msg) \in [1 .. SPX_N -> 0 .. Byte - 1]
    PROVE  \A i \in 1 .. SPX_WOTS_LEN : chain_lengths(msg)[i] \in 0 .. SPX_WOTS_W - 1
  <1> DEFINE s == base_w(SPX_WOTS_LEN1, BytesOf(msg))  t == wots_checksum(s)  D == 0 .. SPX_WOTS_W - 1
  <1>1. SPX_WOTS_LEN1 \in Nat /\ SPX_WOTS_LEN2 \in Nat /\ SPX_WOTS_LEN = SPX_WOTS_LEN1 + SPX_WOTS_LEN2
    BY LenIs
  <1>2. s \in [1 .. SPX_WOTS_LEN1 -> D]
    <2>1. \A k \in 1 .. (SPX_WOTS_LEN1 * SPX_WOTS_LOGW + 7) \div 8 : BytesOf(msg)[k] \in 0 .. Byte - 1
      BY LenIs
    <2> QED
      BY <1>1, <2>1, DigitsAre
  <1> HIDE DEF s
  <1>3. t \in [1 .. SPX_WOTS_LEN2 -> D]
    BY <1>2, ChecksumIs
  <1> HIDE DEF t, D
  <1>4. /\ s \in Seq(D) /\ Len(s) = SPX_WOTS_LEN1
        /\ t \in Seq(D) /\ Len(t) = SPX_WOTS_LEN2
    BY <1>1, <1>2, <1>3
  <1>5. \A k \in 1 .. Len(s) + Len(t) : (s \o t)[k] = IF k <= Len(s) THEN s[k] ELSE t[k - Len(s)]
    BY <1>4, JoinedIs
  <1>6. \A i \in 1 .. SPX_WOTS_LEN : (s \o t)[i] \in D
    BY <1>1, <1>2, <1>3, <1>4, <1>5
  <1>7. chain_lengths(msg) = s \o t
    BY DEF chain_lengths, s, t
  <1> QED
    BY <1>6, <1>7 DEF D

-----------------------------------------------------------------------------
(* The keys of the hypertree. The address of WOTS key leaf of a tree, and the *)
(* address under which its public key is hashed.                             *)
KeyAddr(c, leaf) == WotsAddr(c, TYPE_WOTS, leaf)
PkAddr(k) == [layer |-> k.layer, tree |-> k.tree, type |-> TYPE_WOTSPK, keypair |-> k.keypair, b27 |-> 0, w28 |-> 0]
PkLeft(b) == b \in Addresses /\ b.type = TYPE_WOTSPK /\ b.b27 = 0 /\ b.w28 = 0
KeyOf(k) == thash([i \in 1 .. SPX_WOTS_LEN |-> ChainOf(k, i - 1)[SPX_WOTS_W - 1]], PkAddr(k))

(* It depends on the layer, the tree and the key pair.                       *)
LEMMA KeyAddrIs ==
    ASSUME NEW c \in Addresses, NEW leaf \in Nat
    PROVE  /\ KeyAddr(c, leaf) = [layer |-> c.layer, tree |-> c.tree, type |-> 0, keypair |-> leaf % 256,
                                 b27 |-> 0, w28 |-> 0]
           /\ InWots(KeyAddr(c, leaf), KeyAddr(c, leaf)) /\ KeyAddr(c, leaf).type = TYPE_WOTS
  <1> DEFINE low == leaf % 256  u == c.layer  v == c.tree  k == KeyAddr(c, leaf)
             z == set_type(ZeroAddr, TYPE_WOTS)  z1 == [z EXCEPT !.layer = u]  z2 == [z1 EXCEPT !.tree = v]
  <1>1. z = [layer |-> 0, tree |-> 0, type |-> 0, keypair |-> 0, b27 |-> 0, w28 |-> 0]
    BY DEF set_type, ZeroAddr, TYPE_WOTS, Byte
  <1>2. k = [z2 EXCEPT !.keypair = low]
    BY DEF KeyAddr, WotsAddr, set_keypair_addr, copy_subtree_addr, Byte
  <1>3. low \in Nat /\ u \in Nat /\ v \in Nat
    BY AddrIs
  <1> HIDE DEF z, low, u, v, k
  <1>4. z1 = [layer |-> u, tree |-> 0, type |-> 0, keypair |-> 0, b27 |-> 0, w28 |-> 0]
    BY <1>1
  <1> HIDE DEF z1
  <1>5. z2 = [layer |-> u, tree |-> v, type |-> 0, keypair |-> 0, b27 |-> 0, w28 |-> 0]
    BY <1>4
  <1> HIDE DEF z2
  <1>6. k = [layer |-> u, tree |-> v, type |-> 0, keypair |-> low, b27 |-> 0, w28 |-> 0]
    BY <1>2, <1>5
  <1>7. k \in Addresses
    BY <1>3, <1>6, IsAddr
  <1>8. k.w28 = 0 /\ k.type = 0
    BY <1>6
  <1> QED
    BY <1>6, <1>7, <1>8 DEF InWots, Alike, TYPE_WOTS, k, u, v, low

(* The address that carries over from layer to layer does for the key.       *)
LEMMA LayerWotsAddrIs ==
    ASSUME NEW b, WotsLeft(b), NEW c \in Addresses, NEW leaf \in Nat
    PROVE  InWots(KeyAddr(c, leaf), LayerWotsAddr(b, c, leaf))
  <1> DEFINE low == leaf % 256  u == c.layer  v == c.tree  d == LayerWotsAddr(b, c, leaf)
             b1 == [b EXCEPT !.layer = u]  b2 == [b1 EXCEPT !.tree = v]
             R == [layer |-> u, tree |-> v, type |-> b.type, keypair |-> low, b27 |-> b.b27, w28 |-> b.w28]
  <1>1. b \in Addresses /\ b.type = 0 /\ b.w28 \in 0 .. 255
    BY DEF WotsLeft, TYPE_WOTS
  <1>2. b = [layer |-> b.layer, tree |-> b.tree, type |-> b.type, keypair |-> b.keypair,
             b27 |-> b.b27, w28 |-> b.w28] /\ b.type \in 0 .. 4 /\ b.b27 \in Nat /\ b.w28 \in Nat
    BY <1>1, AddrIs
  <1>3. d = [b2 EXCEPT !.keypair = low]
    BY DEF LayerWotsAddr, set_keypair_addr, copy_subtree_addr, Byte
  <1>4. low \in Nat /\ u \in Nat /\ v \in Nat
    BY AddrIs
  <1>5. KeyAddr(c, leaf) = [layer |-> u, tree |-> v, type |-> 0, keypair |-> low, b27 |-> 0, w28 |-> 0]
    BY KeyAddrIs
  <1> HIDE DEF low, u, v, d
  <1>6. b1 = [layer |-> u, tree |-> b.tree, type |-> b.type, keypair |-> b.keypair, b27 |-> b.b27, w28 |-> b.w28]
    BY <1>2
  <1> HIDE DEF b1
  <1>7. b2 = [layer |-> u, tree |-> v, type |-> b.type, keypair |-> b.keypair, b27 |-> b.b27, w28 |-> b.w28]
    BY <1>6
  <1> HIDE DEF b2
  <1>8. d = R
    BY <1>3, <1>7
  <1>9. R \in Addresses
    BY <1>2, <1>4, IsAddr
  <1>10. Alike(R, KeyAddr(c, leaf)) /\ R.w28 \in 0 .. 255
    BY <1>1, <1>5 DEF Alike
  <1> HIDE DEF R
  <1> QED
    BY <1>8, <1>9, <1>10 DEF InWots, d

(* Copied from any address the key left, the address of the public key is    *)
(* the same.                                                                 *)
LEMMA PkAddrIs ==
    ASSUME NEW k, NEW e, InWots(k, e), NEW b, PkLeft(b)
    PROVE  copy_keypair_addr(b, e) = PkAddr(k) /\ PkLeft(copy_keypair_addr(b, e))
  <1> DEFINE u == e.layer  v == e.tree  w == e.keypair  d == copy_keypair_addr(b, e)
             b1 == [b EXCEPT !.layer = u]  b2 == [b1 EXCEPT !.tree = v]
  <1>1. b \in Addresses /\ b.type = 1 /\ b.b27 = 0 /\ b.w28 = 0
    BY DEF PkLeft, TYPE_WOTSPK
  <1>2. b = [layer |-> b.layer, tree |-> b.tree, type |-> 1, keypair |-> b.keypair, b27 |-> 0, w28 |-> 0]
    BY <1>1, AddrIs
  <1>3. d = [b2 EXCEPT !.keypair = w]
    BY DEF copy_keypair_addr
  <1>4. u \in Nat /\ v \in Nat /\ w \in Nat /\ u = k.layer /\ v = k.tree /\ w = k.keypair
    BY AddrIs DEF InWots, Alike
  <1> HIDE DEF u, v, w, d
  <1>5. b1 = [layer |-> u, tree |-> b.tree, type |-> 1, keypair |-> b.keypair, b27 |-> 0, w28 |-> 0]
    BY <1>2
  <1> HIDE DEF b1
  <1>6. b2 = [layer |-> u, tree |-> v, type |-> 1, keypair |-> b.keypair, b27 |-> 0, w28 |-> 0]
    BY <1>5
  <1> HIDE DEF b2
  <1>7. d = [layer |-> u, tree |-> v, type |-> 1, keypair |-> w, b27 |-> 0, w28 |-> 0]
    BY <1>3, <1>6
  <1>8. d \in Addresses
    BY <1>4, <1>7, IsAddr
  <1>9. d.type = 1 /\ d.b27 = 0 /\ d.w28 = 0
    BY <1>7
  <1> QED
    BY <1>4, <1>7, <1>8, <1>9 DEF PkAddr, PkLeft, TYPE_WOTSPK, d

(* A fresh one is such an address.                                           *)
LEMMA FreshPkAddr == PkLeft(set_type(ZeroAddr, TYPE_WOTSPK))
  <1>1. set_type(ZeroAddr, TYPE_WOTSPK) = [layer |-> 0, tree |-> 0, type |-> 1, keypair |-> 0, b27 |-> 0, w28 |-> 0]
    BY DEF set_type, ZeroAddr, TYPE_WOTSPK, Byte
  <1> QED
    BY <1>1 DEF PkLeft, Addresses, TYPE_WOTSPK

(* A leaf of a tree of the hypertree hashes the ends of the key's chains.    *)
LEMMA WotsLeafIs ==
    ASSUME NEW c \in Addresses, NEW leaf \in Nat
    PROVE  wots_gen_leaf(leaf, c) = KeyOf(KeyAddr(c, leaf))
  <1> DEFINE k == KeyAddr(c, leaf)
             all == [i \in 1 .. SPX_WOTS_LEN |-> SPX_WOTS_W - 1]
             e == AllFromSecret(all, k)
             z == set_type(ZeroAddr, TYPE_WOTSPK)
  <1>1. wots_gen_leaf(leaf, c) = thash(e.out, copy_keypair_addr(z, e.addr))
    BY DEF wots_gen_leaf, wots_gen_pk, WotsLeaf, KeyAddr
  <1>2. InWots(k, k)
    BY KeyAddrIs
  <1>3. \A i \in 1 .. SPX_WOTS_LEN : all[i] = SPX_WOTS_W - 1 /\ all[i] \in 0 .. SPX_WOTS_W - 1
    BY ChainIs
  <1>4. PkLeft(z)
    BY FreshPkAddr
  <1> HIDE DEF k, z, all
  <1>5. e.out = [i \in 1 .. SPX_WOTS_LEN |-> ChainOf(k, i - 1)[all[i]]] /\ InWots(k, e.addr)
    BY <1>2, <1>3, FromSecretsIs
  <1>6. e.out = [i \in 1 .. SPX_WOTS_LEN |-> ChainOf(k, i - 1)[SPX_WOTS_W - 1]]
    BY <1>3, <1>5
  <1> HIDE DEF e
  <1>7. copy_keypair_addr(z, e.addr) = PkAddr(k)
    BY <1>4, <1>5, PkAddrIs
  <1> QED
    BY <1>1, <1>6, <1>7 DEF KeyOf, k

-----------------------------------------------------------------------------
(* Hashes are SPX_N bytes, of eight bits each.                               *)
BytesAre == \A blocks, a : BytesOf(thash(blocks, a)) \in [1 .. SPX_N -> 0 .. Byte - 1]

(* Where the signer stands, with the WOTS address it carries along.          *)
SignsAt(s, layer) == AtLayer(s, layer) /\ WotsLeft(s.wots_addr)

(* What it signs there is a hash, so all chain lengths are in range.         *)
LEMMA RootsAreHashes ==
    ASSUME BytesAre, NEW layer \in Nat, NEW s, AtLayer(s, layer)
    PROVE  \A i \in 1 .. SPX_WOTS_LEN : chain_lengths(s.root)[i] \in 0 .. SPX_WOTS_W - 1
  <1> DEFINE hash == s.root
  <1>1. hash = RootBelow(layer, s.tree, s.idx_leaf)
    BY DEF AtLayer
  <1> HIDE DEF hash
  <1>2. \E blocks, a : hash = thash(blocks, a)
    <2>1. CASE layer = 0
      BY <1>1, <2>1 DEF RootBelow, ForsKey, PublicKey
    <2>2. CASE layer # 0
      <3> DEFINE H == SPX_TREE_HEIGHT
                 below == layer - 1  up == s.tree * Pow2[H] + s.idx_leaf
                 c == LayerAddr(below, up)  a == WotsTree(c)  k == H - 1
      <3>1. hash = WotsRoot(c)
        BY <1>1, <2>2 DEF RootBelow
      <3>2. H \in Nat /\ H > 0
        BY SphincsAssumption
      <3>3. below \in Nat /\ up \in Nat
        <4>1. s.tree \in Nat /\ s.idx_leaf \in 0 .. Pow2[H] - 1
          BY DEF AtLayer
        <4>2. Pow2[H] \in Nat
          BY <3>2, Powers
        <4> HIDE DEF H
        <4> QED
          BY <2>2, <4>1, <4>2
      <3> HIDE DEF below, up
      <3>4. c \in Addresses
        BY <3>3, HashtreeAddrIs, LayerAddrIs
      <3> HIDE DEF c
      <3>5. IsTree(a)
        BY <3>2, <3>4 DEF IsTree, WotsTree
      <3>6. a.height = H
        BY DEF WotsTree
      <3>7. k \in 0 .. H - 1 /\ k + 1 = H /\ H - (k + 1) = 0 /\ 0 \in 0 .. Pow2[0] - 1
        BY <3>2, Powers
      <3> HIDE DEF a, k, H
      <3>8. Rows(a)[k + 1][0]
              = thash(<<Rows(a)[k][2 * 0], Rows(a)[k][2 * 0 + 1]>>, NodeAddr(a.addr, k + 1, 0, a.offset))
        BY <3>5, <3>6, <3>7, NodeRows
      <3> QED
        BY <3>1, <3>7, <3>8 DEF WotsRoot, a, H
    <2> QED
      BY <2>1, <2>2
  <1>3. BytesOf(hash) \in [1 .. SPX_N -> 0 .. Byte - 1]
    BY <1>2 DEF BytesAre
  <1>4. \A i \in 1 .. SPX_WOTS_LEN : chain_lengths(hash)[i] \in 0 .. SPX_WOTS_W - 1
    BY <1>3, LengthsAre
  <1> QED
    BY <1>4 DEF hash

(* What a layer adds to a signature.                                         *)
LayerPart(s, layer) ==
    LET below == LayerTreeAddr(s.tree_addr, layer, s.tree)
    IN  [wots |-> wots_sign(s.root, LayerWotsAddr(s.wots_addr, below, s.idx_leaf)).out,
         auth |-> LayerTree(s.tree_addr, layer, s.tree, s.idx_leaf).auth]
PartRight(part, s, layer) ==
    LET c == LayerAddr(layer, s.tree)
        k == KeyAddr(c, s.idx_leaf)
    IN  /\ \A i \in 1 .. SPX_WOTS_LEN : part.wots[i] = ChainOf(k, i - 1)[chain_lengths(s.root)[i]]
        /\ \A h \in 0 .. SPX_TREE_HEIGHT - 1 :
              part.auth[h] = Rows(WotsTree(c))[h][Sibling(Shr(s.idx_leaf, h))]

(* The key's address on a layer is the same from the tree and from its root. *)
LEMMA LayerKeyIs ==
    ASSUME NEW b, OfHashtree(b), NEW w, WotsLeft(w), NEW layer \in Nat, NEW tree \in Nat, NEW leaf \in Nat
    PROVE  LET d == LayerTreeAddr(b, layer, tree)
               c == LayerAddr(layer, tree)
           IN  /\ OfHashtree(d) /\ Alike(d, c) /\ c \in Addresses /\ d \in Addresses
               /\ InWots(KeyAddr(c, leaf), LayerWotsAddr(w, d, leaf))
               /\ KeyAddr(c, leaf).type = TYPE_WOTS
  <1> DEFINE d == LayerTreeAddr(b, layer, tree)  c == LayerAddr(layer, tree)
  <1>1. OfHashtree(d) /\ Alike(d, c) /\ c \in Addresses /\ d \in Addresses
    <2>1. OfHashtree(d) /\ Alike(d, c) /\ c \in Addresses
      BY LayerAddrIs
    <2> QED
      BY <2>1 DEF OfHashtree
  <1> HIDE DEF c, d
  <1>2. InWots(KeyAddr(d, leaf), LayerWotsAddr(w, d, leaf))
    BY <1>1, LayerWotsAddrIs
  <1>3. KeyAddr(c, leaf) = KeyAddr(d, leaf) /\ KeyAddr(c, leaf).type = TYPE_WOTS
    BY <1>1, KeyAddrIs DEF Alike
  <1> QED
    BY <1>1, <1>2, <1>3 DEF c, d

(* Addresses that a key leaves are ready for the next layer.                 *)
LEMMA LeftForNext ==
    ASSUME NEW k, k.type = TYPE_WOTS, NEW e, InWots(k, e)
    PROVE  WotsLeft(e)
  BY DEF InWots, Alike, WotsLeft

(* The signer adds what its layer calls for.                                 *)
LEMMA SignedLayer ==
    ASSUME BytesAre, NEW layer \in Nat, NEW s, SignsAt(s, layer)
    PROVE  /\ PartRight(LayerPart(s, layer), s, layer)
           /\ SignLayer(s, layer).layers = Append(s.layers, LayerPart(s, layer))
           /\ SignLayer(s, layer).root = WotsRoot(LayerAddr(layer, s.tree))
           /\ SignLayer(s, layer).tree = Shr(s.tree, SPX_TREE_HEIGHT)
           /\ SignLayer(s, layer).idx_leaf = s.tree % Pow2[SPX_TREE_HEIGHT]
           /\ SignsAt(SignLayer(s, layer), layer + 1)
  <1> DEFINE b == s.tree_addr  tree == s.tree  leaf == s.idx_leaf  w == s.wots_addr  hash == s.root
             d == LayerTreeAddr(b, layer, tree)
             c == LayerAddr(layer, tree)
             k == KeyAddr(c, leaf)
             a == LayerWotsAddr(w, d, leaf)
             lengths == chain_lengths(hash)
             e == AllFromSecret(lengths, a)
             t == LayerTree(b, layer, tree, leaf)
             above == SignLayer(s, layer)
  <1>1. OfHashtree(b) /\ WotsLeft(w) /\ tree \in Nat /\ leaf \in 0 .. Pow2[SPX_TREE_HEIGHT] - 1 /\ leaf \in Nat
    <2>1. OfHashtree(b) /\ WotsLeft(w) /\ tree \in Nat /\ leaf \in 0 .. Pow2[SPX_TREE_HEIGHT] - 1
      BY DEF SignsAt, AtLayer
    <2>2. Pow2[SPX_TREE_HEIGHT] \in Nat
      BY Powers, SphincsAssumption
    <2> QED
      BY <2>1, <2>2
  <1>2. \A i \in 1 .. SPX_WOTS_LEN : lengths[i] \in 0 .. SPX_WOTS_W - 1
    BY RootsAreHashes DEF SignsAt
  <1>3. AtLayer(above, layer + 1)
    BY LayerKeeps DEF SignsAt
  <1>4. /\ above.layers = Append(s.layers, [wots |-> e.out, auth |-> t.auth])
        /\ above.root = t.stack[1] /\ above.wots_addr = e.addr
        /\ above.tree = Shr(tree, SPX_TREE_HEIGHT) /\ above.idx_leaf = tree % Pow2[SPX_TREE_HEIGHT]
    BY DEF SignLayer, Up, LayerTree, wots_sign
  <1>5. LayerPart(s, layer) = [wots |-> e.out, auth |-> t.auth]
    BY DEF LayerPart, wots_sign
  <1> HIDE DEF above, b, tree, leaf, w, hash, lengths
  <1>6. InWots(k, a) /\ k.type = TYPE_WOTS
    BY <1>1, LayerKeyIs
  <1>7. LayerHashed(b, layer, tree, leaf)
    BY <1>1, LayerTreehash
  <1>8. t.stack[1] = WotsRoot(c)
        /\ t.auth = [h \in 0 .. SPX_TREE_HEIGHT - 1 |-> Rows(WotsTree(c))[h][Sibling(Shr(leaf, h))]]
    BY <1>7 DEF LayerHashed
  <1> HIDE DEF a, k, t, c, d
  <1>9. e.out = [i \in 1 .. SPX_WOTS_LEN |-> ChainOf(k, i - 1)[lengths[i]]] /\ InWots(k, e.addr)
    BY <1>2, <1>6, FromSecretsIs
  <1> HIDE DEF e
  <1>10. WotsLeft(e.addr)
    BY <1>6, <1>9, LeftForNext
  <1>11. PartRight(LayerPart(s, layer), s, layer)
    <2> DEFINE p == LayerPart(s, layer)
    <2>1. \A i \in 1 .. SPX_WOTS_LEN : p.wots[i] = ChainOf(k, i - 1)[lengths[i]]
      BY <1>5, <1>9
    <2>2. \A h \in 0 .. SPX_TREE_HEIGHT - 1 : p.auth[h] = Rows(WotsTree(c))[h][Sibling(Shr(leaf, h))]
      BY <1>5, <1>8
    <2> HIDE DEF p
    <2>3. PartRight(p, s, layer)
      BY <2>1, <2>2 DEF PartRight, k, c, leaf, tree, lengths, hash
    <2> QED
      BY <2>3 DEF p
  <1>12. SignsAt(above, layer + 1)
    BY <1>3, <1>4, <1>10 DEF SignsAt
  <1> QED
    BY <1>4, <1>5, <1>8, <1>11, <1>12 DEF above, c, tree

(* Where the verifier stands when the signer stands at s.                    *)
Agrees(v, s) ==
    /\ v.root = s.root /\ v.tree = s.tree /\ v.idx_leaf = s.idx_leaf
    /\ OfHashtree(v.tree_addr) /\ WotsLeft(v.wots_addr) /\ PkLeft(v.wots_pk_addr)

(* Layer after layer they agree.                                             *)
LEMMA VerifiedLayer ==
    ASSUME BytesAre, NEW layer \in Nat, NEW s, SignsAt(s, layer), NEW v, Agrees(v, s),
           NEW part, PartRight(part, s, layer)
    PROVE  Agrees(VerifyLayer(v, layer, part), SignLayer(s, layer))
  <1> DEFINE b == v.tree_addr  tree == v.tree  leaf == v.idx_leaf  w == v.wots_addr  hash == v.root  p == v.wots_pk_addr
             H == SPX_TREE_HEIGHT
             d == LayerTreeAddr(b, layer, tree)
             c == LayerAddr(layer, tree)
             k == KeyAddr(c, leaf)
             a == LayerWotsAddr(w, d, leaf)
             q == copy_keypair_addr(p, a)
             e == wots_pk_from_sig(part.wots, hash, a)
             node == WotsLeaf(e.out, q)
             t == WotsTree(c)
             top == compute_root(node, leaf, 0, part.auth, H, d)
             up == VerifyLayer(v, layer, part)
  <1>1. /\ OfHashtree(b) /\ WotsLeft(w) /\ PkLeft(p) /\ tree \in Nat
        /\ leaf \in 0 .. Pow2[SPX_TREE_HEIGHT] - 1 /\ leaf \in Nat
    <2>1. /\ OfHashtree(b) /\ WotsLeft(w) /\ PkLeft(p) /\ tree \in Nat
          /\ leaf \in 0 .. Pow2[SPX_TREE_HEIGHT] - 1
      BY DEF Agrees, SignsAt, AtLayer
    <2>2. Pow2[SPX_TREE_HEIGHT] \in Nat
      BY Powers, SphincsAssumption
    <2> QED
      BY <2>1, <2>2
  <1>2. /\ \A i \in 1 .. SPX_WOTS_LEN : /\ chain_lengths(hash)[i] \in 0 .. SPX_WOTS_W - 1
                                        /\ part.wots[i] = ChainOf(k, i - 1)[chain_lengths(hash)[i]]
        /\ \A h \in 0 .. H - 1 : part.auth[h] = Rows(t)[h][Sibling(Shr(leaf, h))]
    <2>1. hash = s.root /\ tree = s.tree /\ leaf = s.idx_leaf
      BY DEF Agrees
    <2>2. \A i \in 1 .. SPX_WOTS_LEN : chain_lengths(s.root)[i] \in 0 .. SPX_WOTS_W - 1
      BY RootsAreHashes DEF SignsAt
    <2> QED
      BY <2>1, <2>2 DEF PartRight
  <1>3. /\ up.root = top.out /\ up.wots_addr = e.addr /\ up.wots_pk_addr = q /\ up.tree_addr = top.addr
        /\ up.tree = Shr(tree, H) /\ up.idx_leaf = tree % Pow2[H]
    BY DEF VerifyLayer, Up
  <1>4. /\ SignLayer(s, layer).root = WotsRoot(c)
        /\ SignLayer(s, layer).tree = Shr(tree, H) /\ SignLayer(s, layer).idx_leaf = tree % Pow2[H]
    <2>1. s.tree = tree
      BY DEF Agrees
    <2>2. /\ SignLayer(s, layer).root = WotsRoot(LayerAddr(layer, s.tree))
          /\ SignLayer(s, layer).tree = Shr(s.tree, SPX_TREE_HEIGHT)
          /\ SignLayer(s, layer).idx_leaf = s.tree % Pow2[SPX_TREE_HEIGHT]
      BY SignedLayer
    <2> QED
      BY <2>1, <2>2
  <1> HIDE DEF up, b, tree, leaf, w, hash, p
  <1>5. OfHashtree(d) /\ Alike(d, c) /\ c \in Addresses /\ d \in Addresses /\ InWots(k, a) /\ k.type = TYPE_WOTS
    BY <1>1, LayerKeyIs
  <1>6. k = KeyAddr(c, leaf)
    OBVIOUS
  <1>7. t.row = WotsRow(c) /\ t.height = H /\ t.offset = 0 /\ t.addr = c
    BY DEF WotsTree
  <1>8. Rows(t)[H][0] = WotsRoot(c)
    BY DEF WotsRoot
  <1>9. IsTree(t) /\ leaf \in LeavesOf(t)
    BY <1>1, <1>5, <1>7, SphincsAssumption DEF IsTree, LeavesOf, WidthOf
  <1> HIDE DEF t, a, k, c, d
  <1>10. e.out = [i \in 1 .. SPX_WOTS_LEN |-> ChainOf(k, i - 1)[SPX_WOTS_W - 1]] /\ InWots(k, e.addr)
    BY <1>2, <1>5, FromSignatureIs
  <1>11. q = PkAddr(k) /\ PkLeft(q)
    BY <1>1, <1>5, PkAddrIs
  <1> HIDE DEF q
  <1>12. node = t.row[leaf]
    <2>1. node = KeyOf(k)
      BY <1>10, <1>11 DEF WotsLeaf, KeyOf
    <2>2. wots_gen_leaf(leaf, c) = KeyOf(k)
      BY <1>1, <1>5, <1>6, WotsLeafIs
    <2>3. WotsRow(c)[leaf] = wots_gen_leaf(leaf, c)
      BY <1>1 DEF WotsRow
    <2> QED
      BY <1>7, <2>1, <2>2, <2>3
  <1> HIDE DEF e, node
  <1>13. top.out = Rows(t)[H][0] /\ top.addr \in Addresses /\ Alike(top.addr, c)
    <2> DEFINE path == part.auth
    <2>1. Alike(d, t.addr) /\ \A h \in 0 .. t.height - 1 : path[h] = Rows(t)[h][Sibling(Shr(leaf, h))]
      BY <1>2, <1>5, <1>7
    <2> HIDE DEF path
    <2> DEFINE z == compute_root(t.row[leaf], leaf, t.offset, path, t.height, d)
    <2>2. z.out = Rows(t)[t.height][0] /\ z.addr \in Addresses /\ Alike(z.addr, t.addr)
      BY <1>5, <1>9, <2>1, RootFromPath
    <2>3. z = top
      BY <1>7, <1>12 DEF path
    <2> HIDE DEF z, top
    <2> QED
      BY <1>7, <2>2, <2>3
  <1> HIDE DEF top
  <1>14. OfHashtree(top.addr)
    <2>1. c.type = TYPE_HASHTREE /\ c.keypair = 0
      BY <1>5 DEF OfHashtree, Alike
    <2> QED
      BY <1>13, <2>1 DEF OfHashtree, Alike
  <1>15. WotsLeft(e.addr)
    BY <1>5, <1>10, LeftForNext
  <1>16. Agrees(up, SignLayer(s, layer))
    BY <1>3, <1>4, <1>8, <1>11, <1>13, <1>14, <1>15 DEF Agrees
  <1> QED
    BY <1>16 DEF up

-----------------------------------------------------------------------------
(* The layers of a verification: the recursion has a solution.               *)
AreChecks(f, n, v0, parts) ==
    f = [layer \in 0 .. n |-> IF layer = 0 THEN v0 ELSE VerifyLayer(f[layer - 1], layer - 1, parts[layer])]

(* For every n there are n layers.                                           *)
LEMMA ChecksExist == ASSUME NEW v0, NEW parts PROVE \A n \in Nat : \E f : AreChecks(f, n, v0, parts)
  <1> DEFINE S == {n \in Nat : \E f : AreChecks(f, n, v0, parts)}
  <1>1. 0 \in S
    <2> DEFINE f == [layer \in 0 .. 0 |-> v0]
    <2>1. AreChecks(f, 0, v0, parts)
      BY DEF AreChecks
    <2> QED
      BY <2>1
  <1>2. ASSUME NEW n \in Nat, n \in S PROVE n + 1 \in S
    <2>1. PICK f : AreChecks(f, n, v0, parts)
      BY <1>2
    <2> DEFINE longer == [layer \in 0 .. n + 1 |->
                            IF layer <= n THEN f[layer] ELSE VerifyLayer(f[n], n, parts[n + 1])]
    <2>2. AreChecks(longer, n + 1, v0, parts)
      BY <2>1 DEF AreChecks
    <2> QED
      BY <2>2
  <1> HIDE DEF S
  <1>3. Nat \subseteq S
    BY <1>1, <1>2, Induct
  <1> QED
    BY <1>3 DEF S

(* A list grows by one.                                                      *)
LEMMA ListGrows ==
    ASSUME NEW k \in Nat, NEW vals
    PROVE  Append([i \in 1 .. k |-> vals[i]], vals[k + 1]) = [i \in 1 .. k + 1 |-> vals[i]]
  <1> DEFINE A == {vals[i] : i \in 1 .. k + 1}  s == [i \in 1 .. k |-> vals[i]]  t == [i \in 1 .. k + 1 |-> vals[i]]
  <1>1. s \in Seq(A) /\ Len(s) = k /\ vals[k + 1] \in A
    OBVIOUS
  <1> QED
    BY <1>1

(* The signature holds what each layer added.                                *)
Parts(f, n) == [j \in 1 .. n |-> LayerPart(f[j - 1], j - 1)]

(* Layer by layer: the signer is at it, and the signature has a part of each *)
(* layer below.                                                              *)
LEMMA PartsGrow ==
    ASSUME BytesAre, NEW s0, SignsAt(s0, 0), s0.layers = <<>>, NEW n \in Nat, NEW f, AreLayers(f, n, s0)
    PROVE  /\ \A k \in 0 .. n : SignsAt(f[k], k)
           /\ f[n].layers = Parts(f, n)
  <1> DEFINE Good(k) == SignsAt(f[k], k) /\ f[k].layers = Parts(f, k)
             S == {k \in Nat : k <= n => Good(k)}
  <1>1. 0 \in S
    <2>1. f[0] = s0
      BY DEF AreLayers
    <2>2. Parts(f, 0) = <<>>
      BY DEF Parts
    <2> QED
      BY <2>1, <2>2
  <1>2. ASSUME NEW k \in Nat, k \in S PROVE k + 1 \in S
    <2> SUFFICES ASSUME k + 1 <= n PROVE Good(k + 1)
      OBVIOUS
    <2>1. SignsAt(f[k], k) /\ f[k].layers = Parts(f, k)
      BY <1>2
    <2>2. f[k + 1] = SignLayer(f[k], k)
      BY DEF AreLayers
    <2> DEFINE s == f[k]
    <2> HIDE DEF s
    <2>3. SignLayer(s, k).layers = Append(s.layers, LayerPart(s, k)) /\ SignsAt(SignLayer(s, k), k + 1)
      BY <2>1, SignedLayer DEF s
    <2>4. Append(Parts(f, k), LayerPart(s, k)) = Parts(f, k + 1)
      <3> DEFINE vals == Parts(f, k + 1)
      <3>1. \A i \in 1 .. k + 1 : vals[i] = LayerPart(f[i - 1], i - 1)
        BY DEF Parts
      <3>2. vals = [i \in 1 .. k + 1 |-> vals[i]]
        BY DEF Parts
      <3>3. vals[k + 1] = LayerPart(s, k)
        <4>1. k + 1 \in 1 .. k + 1 /\ (k + 1) - 1 = k
          OBVIOUS
        <4> QED
          BY <3>1, <4>1 DEF s
      <3>4. Parts(f, k) = [i \in 1 .. k |-> vals[i]]
        BY <3>1 DEF Parts
      <3> HIDE DEF vals
      <3>5. Append([i \in 1 .. k |-> vals[i]], vals[k + 1]) = [i \in 1 .. k + 1 |-> vals[i]]
        BY ListGrows
      <3> QED
        BY <3>2, <3>3, <3>4, <3>5 DEF vals
    <2> QED
      BY <2>1, <2>2, <2>3, <2>4 DEF s
  <1> HIDE DEF S
  <1>3. Nat \subseteq S
    BY <1>1, <1>2, Induct
  <1>4. \A k \in 0 .. n : k \in S /\ k \in Nat /\ k <= n
    BY <1>3
  <1> QED
    BY <1>4 DEF S

(* Signer and verifier walk up the hypertree side by side.                   *)
LEMMA WalkTogether ==
    ASSUME BytesAre, NEW n \in Nat, NEW f, NEW s0, AreLayers(f, n, s0), \A k \in 0 .. n : SignsAt(f[k], k),
           NEW v0, Agrees(v0, s0), NEW g, AreChecks(g, n, v0, Parts(f, n))
    PROVE  Agrees(g[n], f[n])
  <1> DEFINE S == {k \in Nat : k <= n => Agrees(g[k], f[k])}
  <1>1. 0 \in S
    BY DEF AreLayers, AreChecks
  <1>2. ASSUME NEW k \in Nat, k \in S PROVE k + 1 \in S
    <2> SUFFICES ASSUME k + 1 <= n PROVE Agrees(g[k + 1], f[k + 1])
      OBVIOUS
    <2> DEFINE s == f[k]  v == g[k]  part == LayerPart(s, k)
    <2>1. k + 1 \in 1 .. n /\ k + 1 \in 0 .. n /\ k + 1 # 0 /\ (k + 1) - 1 = k /\ k \in 0 .. n
      OBVIOUS
    <2>2. Agrees(v, s) /\ SignsAt(s, k)
      BY <1>2, <2>1
    <2>3. f[k + 1] = SignLayer(s, k)
      BY <2>1 DEF AreLayers
    <2>4. Parts(f, n)[k + 1] = part
      BY <2>1 DEF Parts
    <2>5. g[k + 1] = VerifyLayer(v, k, Parts(f, n)[k + 1])
      BY <2>1 DEF AreChecks
    <2> HIDE DEF s, v
    <2>6. PartRight(part, s, k)
      BY <2>2, SignedLayer
    <2> HIDE DEF part
    <2>7. Agrees(VerifyLayer(v, k, part), SignLayer(s, k))
      BY <2>2, <2>6, VerifiedLayer
    <2> QED
      BY <2>3, <2>4, <2>5, <2>7
  <1> HIDE DEF S
  <1>3. n \in S
    BY <1>1, <1>2, Induct
  <1> QED
    BY <1>3 DEF S

(* The top layer has one tree, whatever tree the walk started in.            *)
LEMMA TreesShrink ==
    ASSUME BytesAre, NEW f, NEW s0, AreLayers(f, SPX_D, s0), \A k \in 0 .. SPX_D : SignsAt(f[k], k),
           s0.tree \in 0 .. Pow2[SPX_TREE_HEIGHT * (SPX_D - 1)] - 1
    PROVE  f[SPX_D - 1].tree = 0
  <1> DEFINE H == SPX_TREE_HEIGHT  n == SPX_D - 1
             Bits(k) == H * (n - k)
             S == {k \in Nat : k <= n => f[k].tree \in 0 .. Pow2[Bits(k)] - 1}
  <1>1. H \in Nat /\ n \in Nat /\ SPX_D = n + 1
    BY SphincsAssumption
  <1>2. 0 \in S
    <2>1. f[0] = s0
      BY <1>1 DEF AreLayers
    <2>2. Bits(0) = H * n
      BY <1>1
    <2> QED
      BY <2>1, <2>2
  <1>3. ASSUME NEW k \in Nat, k \in S PROVE k + 1 \in S
    <2> SUFFICES ASSUME k + 1 <= n PROVE f[k + 1].tree \in 0 .. Pow2[Bits(k + 1)] - 1
      OBVIOUS
    <2> DEFINE s == f[k]  tree == s.tree  B == Bits(k)
    <2>1. tree \in 0 .. Pow2[B] - 1
      <3>1. k <= n
        BY <1>1
      <3> HIDE DEF Bits
      <3> QED
        BY <1>3, <3>1
    <2>2. f[k + 1] = SignLayer(s, k) /\ SignsAt(s, k)
      <3>1. k + 1 \in 0 .. SPX_D /\ k + 1 # 0 /\ (k + 1) - 1 = k /\ k \in 0 .. SPX_D
        BY <1>1
      <3> QED
        BY <3>1 DEF AreLayers
    <2> HIDE DEF s
    <2>3. SignLayer(s, k).tree = Shr(tree, SPX_TREE_HEIGHT)
      BY <2>2, SignedLayer
    <2>4. B \in Nat /\ H \in 0 .. B /\ B - H = Bits(k + 1)
      <3> DEFINE j == n - (k + 1)
      <3>1. j \in Nat /\ n - k = j + 1
        BY <1>1
      <3> HIDE DEF H, j, n
      <3>2. H * j \in Nat /\ H * (j + 1) = H * j + H
        BY <1>1, <3>1
      <3> DEFINE hj == H * j
      <3>3. B = hj + H /\ hj \in Nat
        BY <3>1, <3>2
      <3>4. Bits(k + 1) = hj
        BY DEF j
      <3> HIDE DEF hj, B
      <3> QED
        BY <1>1, <3>3, <3>4
    <2> HIDE DEF tree, B, H, S
    <2>5. Shr(tree, H) \in 0 .. Pow2[B - H] - 1
      BY <2>1, <2>4, ShiftBelow
    <2> QED
      BY <2>2, <2>3, <2>4, <2>5 DEF H
  <1>4. n \in S
    <2> HIDE DEF S, n
    <2> QED
      BY <1>1, <1>2, <1>3, Induct
  <1>5. Bits(n) = 0 /\ Pow2[0] = 1
    BY <1>1, Powers
  <1>6. f[n].tree \in 0 .. Pow2[Bits(n)] - 1
    <2>1. n <= n
      BY <1>1
    <2> QED
      BY <1>4, <2>1
  <1> HIDE DEF Bits, S
  <1>7. f[n].tree = 0
    BY <1>5, <1>6
  <1> QED
    BY <1>7

(* Its root is the key.                                                      *)
LEMMA SeedIs == seed_keypair = WotsRoot(LayerAddr(SPX_D - 1, 0))
  <1> DEFINE low == (SPX_D - 1) % 256
             c == set_layer_addr(HashtreeAddr, SPX_D - 1)
  <1>1. low \in Nat
    BY SphincsAssumption
  <1>2. c = [HashtreeAddr EXCEPT !.layer = low]
    BY DEF set_layer_addr, Byte
  <1> HIDE DEF low
  <1>3. c = [layer |-> low, tree |-> 0, type |-> 2, keypair |-> 0, b27 |-> 0, w28 |-> 0]
    BY <1>2, HashtreeAddrIs
  <1>4. LayerAddr(SPX_D - 1, 0) = [c EXCEPT !.tree = 0]
    BY DEF LayerAddr, LayerTreeAddr, set_tree_addr
  <1>5. seed_keypair = treehash(0, 0, SPX_TREE_HEIGHT, wots_gen_leaf, c).stack[1]
    BY DEF seed_keypair
  <1> HIDE DEF c
  <1>6. LayerAddr(SPX_D - 1, 0) = c /\ c \in Addresses
    BY <1>1, <1>3, <1>4, IsAddr
  <1>7. 0 \in 0 .. Pow2[SPX_TREE_HEIGHT] - 1
    BY Powers, SphincsAssumption
  <1>8. treehash(0, 0, SPX_TREE_HEIGHT, wots_gen_leaf, c) = Whole(WotsTree(c), 0)
    BY <1>6, <1>7, WotsTreehash
  <1>9. Whole(WotsTree(c), 0).stack[1] = WotsRoot(c)
    BY DEF Whole, WotsTree, WotsRoot
  <1> QED
    BY <1>5, <1>6, <1>8, <1>9

-----------------------------------------------------------------------------
(* Where a verification starts.                                              *)
StartCheck(d, sig) ==
    [root |-> fors_pk_from_sig(sig.fors, d.mhash, StartAddr(d)),
     wots_addr |-> StartAddr(d), wots_pk_addr |-> set_type(ZeroAddr, TYPE_WOTSPK),
     tree_addr |-> HashtreeAddr, idx_leaf |-> d.idx_leaf, tree |-> d.tree]

(* Whatever the signer signs verifies.                                       *)
LEMMA SignatureVerifies ==
    ASSUME BytesAre, NEW m \in InputMessages, NEW optrand \in OptRands
    PROVE  verify(signature(m, optrand).sig, m, seed_keypair)
  <1> DEFINE R == gen_message_random(optrand, m)
             d == Digest(R, m)
             D == SPX_D
             addr == StartAddr(d)
             s0 == StartLayer(d)
             P(f) == AreLayers(f, D, s0)
             f == CHOOSE h : P(h)
             sig == signature(m, optrand).sig
             v0 == StartCheck(d, sig)
             Q(g) == AreChecks(g, D, v0, sig.layers)
             g == CHOOSE h : Q(h)
  <1>1. D \in Nat /\ D > 0 /\ D - 1 \in Nat /\ (D - 1) + 1 = D
    BY SphincsAssumption
  <1>2. \E h : P(h)
    BY <1>1, LayersExist
  <1>3. P(f)
    BY <1>2, Zenon
  <1>4. \E h : Q(h)
    BY <1>1, ChecksExist
  <1>5. Q(g)
    BY <1>4, Zenon
  <1>6. sig.R = R /\ sig.fors = fors_sign(d.mhash, addr).sig /\ sig.layers = f[D].layers
    BY DEF signature, AreLayers, StartLayer
  <1>7. verify(sig, m, seed_keypair) = (g[D].root = seed_keypair)
    <2> DEFINE dd == Digest(sig.R, m)  w0 == StartCheck(dd, sig)
    <2>1. verify(sig, m, seed_keypair) = ((CHOOSE h : AreChecks(h, D, w0, sig.layers))[D].root = seed_keypair)
      BY DEF verify, AreChecks, StartCheck
    <2>2. dd = d
      BY <1>6
    <2> HIDE DEF dd, d, sig
    <2> QED
      BY <2>1, <2>2
  <1>8. d.mhash \in [1 .. SPX_FORS_MSG_BYTES -> 0 .. Byte - 1] /\ d.tree \in Nat /\ d.idx_leaf \in Nat
        /\ d.tree \in 0 .. Pow2[SPX_TREE_HEIGHT * (D - 1)] - 1
    BY DigestIs
  <1>9. AtLayer(s0, 0)
    BY StartsAtLayer
  <1> HIDE DEF f, g, d, sig
  <1>10. WotsLeft(addr) /\ addr \in Addresses
    <2>1. WotsLeft(addr)
      BY <1>8, StartAddrIs
    <2> QED
      BY <2>1 DEF WotsLeft
  <1>11. s0.layers = <<>> /\ s0.wots_addr = addr /\ s0.tree = d.tree /\ s0.idx_leaf = d.idx_leaf
         /\ s0.tree_addr = HashtreeAddr /\ s0.root = fors_sign(d.mhash, addr).pk
    BY DEF StartLayer
  <1>12. Agrees(v0, s0)
    <2> DEFINE mhash1 == d.mhash
    <2>1. v0.wots_addr = addr /\ v0.tree = d.tree /\ v0.idx_leaf = d.idx_leaf /\ v0.tree_addr = HashtreeAddr
          /\ v0.wots_pk_addr = set_type(ZeroAddr, TYPE_WOTSPK)
          /\ v0.root = fors_pk_from_sig(sig.fors, mhash1, addr)
      BY DEF StartCheck
    <2> HIDE DEF addr, s0, v0, mhash1
    <2>2. fors_pk_from_sig(fors_sign(mhash1, addr).sig, mhash1, addr) = ForsKey(addr)
      BY <1>8, <1>10, ForsVerifies DEF mhash1
    <2>3. fors_sign(mhash1, addr).pk = ForsKey(addr)
      BY <1>8, <1>10, ForsSigns DEF mhash1
    <2>4. v0.root = s0.root
      BY <1>6, <1>11, <2>1, <2>2, <2>3 DEF mhash1
    <2> QED
      BY <1>10, <1>11, <2>1, <2>4, HashtreeAddrIs, FreshPkAddr DEF Agrees
  <1> HIDE DEF addr, s0, v0
  <1>13. SignsAt(s0, 0)
    BY <1>9, <1>10, <1>11 DEF SignsAt
  <1>14. (\A k \in 0 .. D : SignsAt(f[k], k)) /\ f[D].layers = Parts(f, D)
    BY <1>1, <1>3, <1>11, <1>13, PartsGrow
  <1>15. Agrees(g[D], f[D])
    BY <1>1, <1>3, <1>5, <1>6, <1>12, <1>14, WalkTogether
  <1>16. f[D - 1].tree = 0
    BY <1>3, <1>8, <1>11, <1>14, TreesShrink
  <1>17. f[D].root = WotsRoot(LayerAddr(D - 1, 0))
    <2> DEFINE k == D - 1
    <2>1. k \in Nat /\ k \in 0 .. D /\ D \in 0 .. D
      BY <1>1
    <2>2. f[D] = SignLayer(f[D - 1], D - 1)
      BY <1>1, <1>3 DEF AreLayers
    <2>3. f[k].tree = 0
      BY <1>16
    <2> HIDE DEF k
    <2>4. SignLayer(f[k], k).root = WotsRoot(LayerAddr(k, f[k].tree))
      BY <1>14, <2>1, SignedLayer
    <2> QED
      BY <2>2, <2>3, <2>4 DEF k
  <1>18. g[D].root = seed_keypair
    BY <1>15, <1>17, SeedIs DEF Agrees
  <1>19. verify(sig, m, seed_keypair)
    BY <1>7, <1>18
  <1> QED
    BY <1>19 DEF sig

(* What the holder of the key has seen.                                      *)
KeyRight == pk \in {NoKey, seed_keypair}
Genuine(e) == \E m \in InputMessages, optrand \in OptRands : e.m = m /\ e.sig = signature(m, optrand).sig
AllGenuine == \A e \in signed : Genuine(e)
OpenedRight ==
    (opened # Nothing /\ ~opened.short /\ verify(opened.sig, opened.m, seed_keypair))
        => opened.ret = 0 /\ opened.out = opened.m
OpenInv == KeyRight /\ AllGenuine /\ OpenedRight

(* Every signature that the signer makes opens, to the message that was      *)
(* signed, for every height, every number of layers, every Winternitz and    *)
(* FORS parameter and all hashes (sign.c:122-268): the addresses that signer *)
(* and verifier carry from hash to hash, from chain to chain and from layer  *)
(* to layer never differ where a hash reads them. BytesAre says that a hash  *)
(* has SPX_N bytes.                                                          *)
THEOREM GenuineAlwaysOpens == BytesAre => (SphincsSpec => []GenuineOpens)
  <1> SUFFICES ASSUME BytesAre PROVE SphincsSpec => []GenuineOpens
    OBVIOUS
  <1>1. SphincsInit => OpenInv
    BY DEF SphincsInit, OpenInv, KeyRight, AllGenuine, OpenedRight
  <1>2. OpenInv /\ [SphincsNext]_sphincs_vars => OpenInv'
    <2> SUFFICES ASSUME OpenInv, [SphincsNext]_sphincs_vars PROVE OpenInv'
      OBVIOUS
    <2>1. CASE Keypair
      BY <2>1 DEF Keypair, OpenInv, KeyRight, AllGenuine, OpenedRight
    <2>2. CASE Close
      BY <2>2 DEF Close, OpenInv, KeyRight, AllGenuine, OpenedRight
    <2>3. ASSUME NEW m \in InputMessages, NEW optrand \in OptRands, Sign(m, optrand)
          PROVE  OpenInv'
      <3> DEFINE s == signature(m, optrand)  e == [m |-> m, sig |-> s.sig, used |-> s.used]
      <3>1. e.m = m /\ e.sig = signature(m, optrand).sig
        OBVIOUS
      <3>2. signed' = signed \cup {e} /\ pk' = pk /\ opened' = opened
        BY <2>3 DEF Sign
      <3> HIDE DEF e
      <3>3. Genuine(e)
        BY <3>1 DEF Genuine
      <3>4. AllGenuine'
        BY <3>2, <3>3 DEF OpenInv, AllGenuine
      <3> QED
        BY <3>2, <3>4 DEF OpenInv, KeyRight, OpenedRight
    <2>4. ASSUME NEW e \in signed, NEW sm \in Transit(e), NEW short \in BOOLEAN, Open(sm, short)
          PROVE  OpenInv'
      <3> DEFINE ok == ~short /\ verify(sm.sig, sm.m, pk)
      <3>1. /\ pk' = pk /\ signed' = signed /\ pk # NoKey
            /\ opened' = [m |-> sm.m, sig |-> sm.sig, short |-> short,
                          ret |-> IF ok THEN 0 ELSE -1, out |-> IF ok THEN sm.m ELSE Zeroed]
        BY <2>4 DEF Open
      <3>2. pk = seed_keypair
        BY <3>1 DEF OpenInv, KeyRight
      <3>3. (~opened'.short /\ verify(opened'.sig, opened'.m, seed_keypair))
              => opened'.ret = 0 /\ opened'.out = opened'.m
        <4>1. opened'.m = sm.m /\ opened'.sig = sm.sig /\ opened'.short = short
          BY <3>1
        <4>2. ok => opened'.ret = 0 /\ opened'.out = sm.m
          BY <3>1
        <4> SUFFICES ASSUME ~opened'.short, verify(opened'.sig, opened'.m, seed_keypair)
                     PROVE  opened'.ret = 0 /\ opened'.out = opened'.m
          OBVIOUS
        <4>3. ok
          BY <3>2, <4>1
        <4> HIDE DEF ok
        <4> QED
          BY <4>1, <4>2, <4>3
      <3>4. OpenedRight'
        BY <3>3 DEF OpenedRight
      <3> HIDE DEF ok
      <3> QED
        BY <3>1, <3>4 DEF OpenInv, KeyRight, AllGenuine
    <2>5. CASE UNCHANGED sphincs_vars
      BY <2>5 DEF sphincs_vars, OpenInv, KeyRight, AllGenuine, OpenedRight
    <2> QED
      BY <2>1, <2>2, <2>3, <2>4, <2>5 DEF SphincsNext
  <1>3. OpenInv => GenuineOpens
    <2> SUFFICES ASSUME OpenInv, Received \in Sent, ~opened.short
                 PROVE  opened.ret = 0 /\ opened.out = opened.m
      BY DEF GenuineOpens
    <2>1. PICK e \in signed : Received = [m |-> e.m, sig |-> e.sig]
      BY DEF Sent
    <2>2. opened.m = e.m /\ opened.sig = e.sig
      BY <2>1 DEF Received
    <2>3. PICK m \in InputMessages, optrand \in OptRands : e.m = m /\ e.sig = signature(m, optrand).sig
      BY DEF OpenInv, AllGenuine, Genuine
    <2>4. verify(opened.sig, opened.m, seed_keypair)
      <3> DEFINE sig == signature(m, optrand).sig
      <3>1. verify(sig, m, seed_keypair)
        BY SignatureVerifies
      <3>2. opened.sig = sig /\ opened.m = m
        BY <2>2, <2>3
      <3> HIDE DEF sig
      <3> QED
        BY <3>1, <3>2
    <2>5. opened # Nothing
      <3>1. \E R, fors, layers : signature(m, optrand).sig = [R |-> R, fors |-> fors, layers |-> layers]
        BY DEF signature
      <3>2. DOMAIN opened.sig = {"R", "fors", "layers"}
        BY <2>2, <2>3, <3>1
      <3>3. Nothing.sig = <<>> /\ DOMAIN <<>> = {}
        BY DEF Nothing
      <3> QED
        BY <3>2, <3>3
    <2> QED
      BY <2>4, <2>5 DEF OpenInv, OpenedRight
  <1> QED
    BY <1>1, <1>2, <1>3, PTL DEF SphincsSpec
=============================================================================
