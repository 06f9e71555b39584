--------------------------- MODULE HashFunctions ----------------------------
(***************************************************************************)
(* The buffering of src/hash_impl.h: SHA-256 written in pieces, its        *)
(* padding, midstates, and HMAC on top of it. The compression function is  *)
(* abstract: the chaining value is the sequence of blocks it was given. A  *)
(* byte is a tuple that names it, so that a byte left over in the buffer   *)
(* is told from the right one.                                             *)
(*                                                                         *)
(* The nonces of nonce_function_rfc6979 (src/secp256k1.c) and the          *)
(* generator they are drawn from, where HMAC is a term in its key and      *)
(* message. A caller asks for two nonces, with arguments of its choice.    *)
(***************************************************************************)
EXTENDS Integers, Sequences

CONSTANTS
    BlockBytes,  \* bytes in a block; 64 in the code
    Digest,      \* bytes in a digest; 32 in the code
    SizeHalf,    \* values of each half of the size; 2^32 in the code
    MaxWritten,  \* bound: length of a message
    MaxKey,      \* bound: length of a key
    MaxPrefix    \* bound: blocks in a midstate

(* No message is so long that its length in bits does not fit.               *)
ASSUME HashAssumption ==
    /\ {BlockBytes, Digest, SizeHalf, MaxWritten, MaxKey, MaxPrefix} \subseteq Nat
    /\ BlockBytes > 2 /\ Digest <= BlockBytes /\ SizeHalf > 0 /\ SizeHalf % 8 = 0
    /\ \A bytes \in {MaxPrefix * BlockBytes + MaxWritten, BlockBytes + MaxWritten,
                     BlockBytes + Digest, MaxKey} :
           8 * bytes < SizeHalf * SizeHalf

FirstPad == <<"pad">>
ZeroByte == <<"zero">>
ZeroBytes(n) == [i \in 1 .. n |-> ZeroByte]
Input(from, n) == [i \in 1 .. n |-> <<"input", from + i>>]

Drop(data, n) == SubSeq(data, n + 1, Len(data))
Blocks(data) ==
    [b \in 1 .. Len(data) \div BlockBytes |-> SubSeq(data, (b - 1) * BlockBytes + 1, b * BlockBytes)]
Overlay(buf, at, data) ==
    [i \in 1 .. BlockBytes |-> IF i - at \in 1 .. Len(data) THEN data[i - at] ELSE buf[i]]

(* What a structure on the stack holds before it is initialised.             *)
Garbage == [s |-> <<>>, buf |-> [i \in 1 .. BlockBytes |-> <<"garbage">>], bytes |-> 0]

sha256_initialize(hash) == [hash EXCEPT !.s = <<>>, !.bytes = 0]
sha256_initialize_midstate(hash, bytes, state) == [hash EXCEPT !.s = state, !.bytes = bytes]

(* Faulty variant: lets a full buffer wait for the next call.                *)
FillsLate(bufsize, len) == bufsize # 0 /\ len > BlockBytes - bufsize
Fills(bufsize, len) == bufsize # 0 /\ len >= BlockBytes - bufsize

(* The buffer is completed first, whole blocks are compressed where they     *)
(* are, and what remains goes to the buffer.                                 *)
sha256_write(hash, data) ==
    LET bufsize == hash.bytes % BlockBytes
        fills == Fills(bufsize, Len(data))
        full == Overlay(hash.buf, bufsize, data)
        rest == IF fills THEN Drop(data, BlockBytes - bufsize) ELSE data
        n_blocks == Len(rest) \div BlockBytes
    IN  [s |-> hash.s \o (IF fills THEN <<full>> ELSE <<>>) \o Blocks(rest),
         buf |-> Overlay(IF fills THEN full ELSE hash.buf, IF fills THEN 0 ELSE bufsize,
                         Drop(rest, n_blocks * BlockBytes)),
         bytes |-> hash.bytes + Len(data)]

(* Faulty variant: one byte of padding too many.                             *)
PadLengthLong(bytes) == 1 + ((2 * BlockBytes - 2 - (bytes % BlockBytes)) % BlockBytes)
PadLength(bytes) == 1 + ((2 * BlockBytes - 3 - (bytes % BlockBytes)) % BlockBytes)

(* The length in bits, in two halves.                                        *)
sizedesc(bytes) ==
    << <<"size", (bytes \div (SizeHalf \div 8)) % SizeHalf>>,
       <<"size", (bytes * 8) % SizeHalf>> >>

Finalized(hash) ==
    sha256_write(sha256_write(hash, <<FirstPad>> \o ZeroBytes(PadLength(hash.bytes) - 1)),
                 sizedesc(hash.bytes))
(* The digest, and the state that is left: its chaining value is zeroed.     *)
DigestOf(s) == [i \in 1 .. Digest |-> <<"digest", i, s>>]
sha256_finalize(hash) == DigestOf(Finalized(hash).s)
AfterFinalize(hash) == [Finalized(hash) EXCEPT !.s = <<>>]

-----------------------------------------------------------------------------
(* HMAC.  Masking with 0x5c and then with 0x5c ^ 0x36 leaves 0x36.           *)

SymDiff(S, T) == (S \ T) \cup (T \ S)
outer_mask == {"5c"}
inner_mask == SymDiff(outer_mask, SymDiff({"5c"}, {"36"}))
Masked(rkey, mask) == [i \in 1 .. BlockBytes |-> <<"masked", mask, rkey[i]>>]

(* Faulty variant: hashes a key that just fits.                              *)
KeyFitsBelow(keylen) == keylen < BlockBytes
KeyFits(keylen) == keylen <= BlockBytes

hmac_initialize(hmac, key) ==
    LET shorter == IF KeyFits(Len(key)) THEN key
                   ELSE sha256_finalize(sha256_write(sha256_initialize(Garbage), key))
        rkey == shorter \o ZeroBytes(BlockBytes - Len(shorter))
    IN  [outer |-> sha256_write(sha256_initialize(hmac.outer), Masked(rkey, outer_mask)),
         inner |-> sha256_write(sha256_initialize(hmac.inner), Masked(rkey, inner_mask))]
hmac_write(hmac, data) == [hmac EXCEPT !.inner = sha256_write(@, data)]
hmac_finalize(hmac) == sha256_finalize(sha256_write(hmac.outer, sha256_finalize(hmac.inner)))
AfterHmacFinalize(hmac) ==
    [inner |-> AfterFinalize(hmac.inner),
     outer |-> AfterFinalize(sha256_write(hmac.outer, sha256_finalize(hmac.inner)))]

-----------------------------------------------------------------------------
VARIABLES
    sha, hmac,   \* two structures that are used again and again
    running,     \* what was initialised last: "none", "sha", "hmac"
    prefix,      \* bytes that a midstate stands for
    key,         \* the key of the HMAC
    sent,        \* bytes written since
    finalized,   \* uses finalized so far
    digest       \* the last digest

sha_vars == <<sha, hmac, running, prefix, key, sent, finalized, digest>>

ShaInit ==
    /\ sha = Garbage /\ hmac = [inner |-> Garbage, outer |-> Garbage]
    /\ running = "none" /\ prefix = 0 /\ key = <<>> /\ sent = 0 /\ finalized = 0 /\ digest = <<>>

Prefix(n) == [i \in 1 .. n |-> <<"prefix", i>>]

Initialize ==
    /\ running = "none" /\ finalized < 2
    /\ sha' = sha256_initialize(sha) /\ prefix' = 0
    /\ running' = "sha" /\ sent' = 0
    /\ UNCHANGED <<hmac, key, finalized, digest>>

Midstate(blocks) ==
    /\ running = "none" /\ finalized < 2
    /\ prefix' = blocks * BlockBytes
    /\ sha' = sha256_initialize_midstate(sha, prefix', Blocks(Prefix(prefix')))
    /\ running' = "sha" /\ sent' = 0
    /\ UNCHANGED <<hmac, key, finalized, digest>>

HmacInitialize(keylen) ==
    /\ running = "none" /\ finalized < 2
    /\ key' = [i \in 1 .. keylen |-> <<"key", i>>]
    /\ hmac' = hmac_initialize(hmac, key')
    /\ running' = "hmac" /\ sent' = 0
    /\ UNCHANGED <<sha, prefix, finalized, digest>>

Write(n) ==
    /\ running # "none" /\ sent + n <= MaxWritten
    /\ sent' = sent + n
    /\ \/ running = "sha" /\ sha' = sha256_write(sha, Input(sent, n)) /\ UNCHANGED hmac
       \/ running = "hmac" /\ hmac' = hmac_write(hmac, Input(sent, n)) /\ UNCHANGED sha
    /\ UNCHANGED <<running, prefix, key, finalized, digest>>

ShaFinalize ==
    /\ running = "sha"
    /\ digest' = sha256_finalize(sha) /\ sha' = AfterFinalize(sha)
    /\ running' = "sha done" /\ finalized' = finalized + 1
    /\ UNCHANGED <<hmac, prefix, key, sent>>

HmacFinalize ==
    /\ running = "hmac"
    /\ digest' = hmac_finalize(hmac) /\ hmac' = AfterHmacFinalize(hmac)
    /\ running' = "hmac done" /\ finalized' = finalized + 1
    /\ UNCHANGED <<sha, prefix, key, sent>>

Again ==
    /\ running \in {"sha done", "hmac done"}
    /\ running' = "none" /\ key' = <<>> /\ prefix' = 0 /\ sent' = 0 /\ digest' = <<>>
    /\ UNCHANGED <<sha, hmac, finalized>>

ShaNext ==
    \/ Initialize \/ ShaFinalize \/ HmacFinalize \/ Again
    \/ \E blocks \in 1 .. MaxPrefix : Midstate(blocks)
    \/ \E keylen \in 0 .. MaxKey : HmacInitialize(keylen)
    \/ \E n \in 0 .. MaxWritten : Write(n)

ShaSpec == ShaInit /\ [][ShaNext]_sha_vars

-----------------------------------------------------------------------------
(* The hash of a whole message: padded with as few zeros as make room for    *)
(* the size at the end of a block.                                           *)
PaddedMessage(m) ==
    LET zeros == CHOOSE z \in 0 .. BlockBytes - 1 : (Len(m) + 1 + z + 2) % BlockBytes = 0
        bits == 8 * Len(m)
    IN  m \o <<FirstPad>> \o ZeroBytes(zeros)
          \o << <<"size", bits \div SizeHalf>>, <<"size", bits % SizeHalf>> >>
Hash(m) == DigestOf(Blocks(PaddedMessage(m)))

Hmac(k, m) ==
    LET short == IF Len(k) > BlockBytes THEN Hash(k) ELSE k
        k0 == short \o ZeroBytes(BlockBytes - Len(short))
    IN  Hash(Masked(k0, {"5c"}) \o Hash(Masked(k0, {"36"}) \o m))

(* However a message is cut into writes, and whatever an earlier use left in *)
(* the buffer, the digest is the hash of the padded message, after a         *)
(* midstate too; HMAC is the one of its definition for keys of every length  *)
(* (hash_impl.h:210-257, 276-314).                                           *)
DigestsRight ==
    /\ running = "sha done" => digest = Hash(Prefix(prefix) \o Input(0, sent))
    /\ running = "hmac done" => digest = Hmac(key, Input(0, sent))

-----------------------------------------------------------------------------
CONSTANTS
    Base,         \* values of a byte; 256 in the code
    KeyLen,       \* bytes in a key, a message and the extra data; 32 in the code
    AlgoLen,      \* bytes in the name of the algorithm; 16 in the code
    Order,        \* messages are reduced by it
    Keys,         \* bound: secret keys
    MaxCounter    \* bound: the counter of an attempt

Strings(n) == [1 .. n -> 0 .. Base - 1]
Missing == <<>>
Power[i \in Nat] == IF i = 0 THEN 1 ELSE Base * Power[i - 1]
scalar_get_b32(n) == [i \in 1 .. KeyLen |-> (n \div Power[KeyLen - i]) % Base]

ASSUME Rfc6979Assumption ==
    /\ Base \in Nat \ {0, 1}
    /\ KeyLen \in Nat /\ AlgoLen \in Nat /\ AlgoLen < KeyLen
    /\ Keys \subseteq Strings(KeyLen)
    /\ Order \in 1 .. Power[KeyLen] /\ MaxCounter \in Nat

HMAC(k, message) == <<"hmac", k, message>>

(* The generator: K and V are bound to the key material twice.               *)
V0 == <<"ones">>
K0 == <<"zeros">>

(* Faulty variant: the second round leaves the key material out.             *)
rfc6979_initialize_once(material) ==
    LET k1 == HMAC(K0, << V0, <<0>> >>)
        v1 == HMAC(k1, <<V0>>)
        k2 == HMAC(k1, << v1, <<1>> >>)
    IN  [k |-> k2, v |-> HMAC(k2, <<v1>>), retry |-> FALSE]

rfc6979_initialize(material) ==
    LET k1 == HMAC(K0, << V0, <<0>>, material >>)
        v1 == HMAC(k1, <<V0>>)
        k2 == HMAC(k1, << v1, <<1>>, material >>)
    IN  [k |-> k2, v |-> HMAC(k2, <<v1>>), retry |-> FALSE]

(* One output of a digest's length; it is V.                                 *)
rfc6979_generate(rng) ==
    LET k == IF rng.retry THEN HMAC(rng.k, << rng.v, <<0>> >>) ELSE rng.k
        v == IF rng.retry THEN HMAC(k, <<rng.v>>) ELSE rng.v
    IN  [k |-> k, v |-> HMAC(k, <<v>>), retry |-> TRUE]

(* Faulty variant: takes half of the extra data.                             *)
KeyDataShort(args) ==
    args.key \o scalar_get_b32(args.msg % Order) \o SubSeq(args.data, 1, Len(args.data) \div 2) \o args.algo
(* The message is reduced; what is missing takes no room.                    *)
KeyData(args) == args.key \o scalar_get_b32(args.msg % Order) \o args.data \o args.algo

(* The nonce of an attempt: outputs up to it are drawn and dropped.          *)
nonce_function_rfc6979(args, counter) ==
    LET rng[i \in 0 .. counter] ==
            rfc6979_generate(IF i = 0 THEN rfc6979_initialize(KeyData(args)) ELSE rng[i - 1])
    IN  rng[counter].v

-----------------------------------------------------------------------------
VARIABLE nonces    \* the nonces so far, with the nonces they gave

NonceInit == nonces = <<>>

(* Bound: two nonces.                                                         *)
Call(args, counter) ==
    /\ Len(nonces) < 2
    /\ nonces' = Append(nonces, [args |-> args, counter |-> counter,
                               nonce |-> nonce_function_rfc6979(args, counter)])

Arguments ==
    [key : Keys, msg : 0 .. Power[KeyLen] - 1,
     data : Strings(KeyLen) \cup {Missing}, algo : Strings(AlgoLen) \cup {Missing}]

NonceNext == \E args \in Arguments, counter \in 0 .. MaxCounter : Call(args, counter)

NonceSpec == NonceInit /\ [][NonceNext]_nonces

-----------------------------------------------------------------------------
(* Two nonces give the same nonce only if the key, the message as a number,   *)
(* the extra data, the algorithm and the attempt are the same: no mixture of *)
(* arguments emulates another (the comment at secp256k1.c:506-513), and no   *)
(* attempt repeats one.                                                      *)
NoncesDistinct ==
    Len(nonces) = 2 =>
        LET a == nonces[1]
            b == nonces[2]
        IN  a.nonce = b.nonce <=>
                /\ a.counter = b.counter
                /\ a.args.msg % Order = b.args.msg % Order
                /\ [a.args EXCEPT !.msg = 0] = [b.args EXCEPT !.msg = 0]
=============================================================================
