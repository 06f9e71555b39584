--------------------------- MODULE HashSignatures ---------------------------
(***************************************************************************)
(* The one-time signature WOTS+ (wots.c) and the few-time signature FORS   *)
(* (fors.c) of SPHINCS+. A message of SPX_N bytes is turned into chain     *)
(* lengths; a WOTS signature walks each chain that far, and a verifier     *)
(* walks the rest. FORS has FORS_TREES trees, of each of them the leaf is  *)
(* revealed that the message names.                                        *)
(***************************************************************************)
EXTENDS Merkle

CONSTANTS
    SPX_N,              \* bytes of a hash
    SPX_WOTS_LOGW,      \* log2 of the Winternitz parameter
    BytesOf(_)          \* the bytes of a hash

SPX_WOTS_W == Pow2[SPX_WOTS_LOGW]
LEN1(n, logw) == (8 * n) \div logw

(* Faulty variant: a bound of the table in params.h that is one too large.   *)
LEN2OffByOne(n, logw) ==
    IF logw = 8 THEN (IF n <= 1 THEN 1 ELSE 2)
    ELSE IF n <= 9 THEN 2 ELSE IF n <= 136 THEN 3 ELSE 4

(* params.h precomputes how many digits the checksum takes.                  *)
LEN2(n, logw) ==
    IF logw = 8 THEN (IF n <= 1 THEN 1 ELSE 2)
    ELSE IF n <= 8 THEN 2 ELSE IF n <= 136 THEN 3 ELSE 4

SPX_WOTS_LEN1 == LEN1(SPX_N, SPX_WOTS_LOGW)
SPX_WOTS_LEN2 == LEN2(SPX_N, SPX_WOTS_LOGW)
SPX_WOTS_LEN == SPX_WOTS_LEN1 + SPX_WOTS_LEN2

(* Digits of a byte string, the high bits of every byte first.               *)
base_w(out_len, input) ==
    [k \in 1 .. out_len |->
        LET bit == (k - 1) * SPX_WOTS_LOGW
            total == input[(bit \div 8) + 1]
        IN  Shr(total, 8 - (SPX_WOTS_LOGW + (bit % 8))) % SPX_WOTS_W]

ull_to_bytes(outlen, in) == [k \in 1 .. outlen |-> Shr(in, 8 * (outlen - k)) % Byte]

(* Faulty variant: no checksum.                                              *)
NoChecksum(msg_base_w) == [k \in 1 .. SPX_WOTS_LEN2 |-> 0]

wots_checksum(msg_base_w) ==
    LET sum[k \in 0 .. SPX_WOTS_LEN1] == IF k = 0 THEN 0 ELSE sum[k - 1] + ((SPX_WOTS_W - 1) - msg_base_w[k])
        bits == SPX_WOTS_LEN2 * SPX_WOTS_LOGW
        shifted == sum[SPX_WOTS_LEN1] * Pow2[(8 - (bits % 8)) % 8]
    IN  base_w(SPX_WOTS_LEN2, ull_to_bytes((bits + 7) \div 8, shifted))

chain_lengths(msg) ==
    LET lengths == base_w(SPX_WOTS_LEN1, BytesOf(msg))
    IN  lengths \o wots_checksum(lengths)

(* Each link hashes under the address of its position.                       *)
Link(c, i) ==
    LET a == set_hash_addr(c.addr, i) IN With(thash(<<c.out>>, a), a)

(* A chain never goes past W links.                                          *)
gen_chain(in, start, steps, addr) ==
    LET links == IF start + steps <= SPX_WOTS_W THEN steps ELSE SPX_WOTS_W - start
        after[k \in 0 .. links] == IF k = 0 THEN With(in, addr) ELSE Link(after[k - 1], start + k - 1)
    IN  after[links]

(* One chain after the other; what(i, a) is the value of chain i.            *)
Chains(what(_, _), addr) ==
    LET after[i \in 0 .. SPX_WOTS_LEN] ==
            IF i = 0 THEN With(<<>>, addr)
            ELSE LET s == after[i - 1]
                     c == what(i, set_chain_addr(s.addr, i - 1))
                 IN  With(Append(s.out, c.out), c.addr)
    IN  after[SPX_WOTS_LEN]

(* Faulty variant: leaves the hash address as it is.                         *)
ChainFromSecretStale(steps, addr) == gen_chain(prf_addr(addr), 0, steps, addr)

ChainFromSecret(steps, addr) ==
    LET a == set_hash_addr(addr, 0) IN gen_chain(prf_addr(a), 0, steps, a)

(* Every chain from its secret, as far as the lengths say.                   *)
AllFromSecret(lengths, addr) == Chains(LAMBDA i, a : ChainFromSecret(lengths[i], a), addr)

wots_gen_pk(addr) == AllFromSecret([i \in 1 .. SPX_WOTS_LEN |-> SPX_WOTS_W - 1], addr)
wots_sign(msg, addr) == AllFromSecret(chain_lengths(msg), addr)

wots_pk_from_sig(sig, msg, addr) ==
    LET lengths == chain_lengths(msg)
    IN  Chains(LAMBDA i, a : gen_chain(sig[i], lengths[i], (SPX_WOTS_W - 1) - lengths[i], a), addr)

-----------------------------------------------------------------------------
CONSTANTS SPX_FORS_HEIGHT, SPX_FORS_TREES

ASSUME ForsAssumption ==
    /\ SPX_FORS_HEIGHT \in Nat /\ SPX_FORS_HEIGHT > 0
    /\ SPX_FORS_TREES \in Nat /\ SPX_FORS_TREES > 0

Trees == 0 .. SPX_FORS_TREES - 1

BitOf(m, offset) == Shr(m[(offset \div 8) + 1], offset % 8) % 2

(* Faulty variant: starts each index on a byte of its own.                   *)
IndicesByteAligned(m) ==
    [i \in Trees |-> FoldLeft(LAMBDA acc, j : acc + 2 ^ j * BitOf(m, (8 * i + j) % (8 * Len(m))), 0,
                              [j \in 1 .. SPX_FORS_HEIGHT |-> j - 1])]

(* SPX_FORS_HEIGHT bits of the message per tree, the low bits of a byte first. *)
message_to_indices(m) ==
    [i \in Trees |->
        LET low[j \in 0 .. SPX_FORS_HEIGHT] ==
                IF j = 0 THEN 0 ELSE low[j - 1] + Pow2[j - 1] * BitOf(m, i * SPX_FORS_HEIGHT + j - 1)
        IN  low[SPX_FORS_HEIGHT]]

IdxOffset(i) == i * Pow2[SPX_FORS_HEIGHT]

(* The address of the key pair, for a hash of another type.                  *)
KeypairAddr(fors_addr, type) == set_type(copy_keypair_addr(ZeroAddr, fors_addr), type)

fors_sk_to_leaf(sk, addr) == thash(<<sk>>, addr)

fors_gen_leaf(addr_idx, fors_tree_addr) ==
    LET a == set_tree_index(KeypairAddr(fors_tree_addr, TYPE_FORSTREE), addr_idx)
    IN  fors_sk_to_leaf(prf_addr(a), a)

LeafAddr(addr, i, index) == set_tree_index(set_tree_height(addr, 0), index + IdxOffset(i))

(* Tree i of a signature, of which it reveals leaf index.                    *)
SignedTree(i, index, addr) == treehash(index, IdxOffset(i), SPX_FORS_HEIGHT, fors_gen_leaf, addr)

PublicKey(roots, fors_addr) ==
    thash([k \in 1 .. SPX_FORS_TREES |-> roots[k - 1]], KeypairAddr(fors_addr, TYPE_FORSPK))

fors_sign(m, fors_addr) ==
    LET indices == message_to_indices(m)
        base == KeypairAddr(fors_addr, TYPE_FORSTREE)
        start(i) == LeafAddr(base, i, indices[i])
        tree(i) == SignedTree(i, indices[i], start(i))
    IN  [sig |-> [i \in Trees |-> [sk |-> prf_addr(start(i)), auth |-> tree(i).auth]],
         pk |-> PublicKey([i \in Trees |-> tree(i).stack[1]], fors_addr)]

(* The verifier reuses one address from tree to tree.                        *)
fors_pk_from_sig(sig, m, fors_addr) ==
    LET indices == message_to_indices(m)
        after[k \in 0 .. SPX_FORS_TREES] ==
            IF k = 0 THEN With(<<>>, KeypairAddr(fors_addr, TYPE_FORSTREE))
            ELSE LET s == after[k - 1]
                     i == k - 1
                     a == LeafAddr(s.addr, i, indices[i])
                     root == compute_root(fors_sk_to_leaf(sig[i].sk, a), indices[i], IdxOffset(i),
                                          sig[i].auth, SPX_FORS_HEIGHT, a)
                 IN  With(Append(s.out, root.out), root.addr)
    IN  PublicKey([i \in Trees |-> after[SPX_FORS_TREES].out[i + 1]], fors_addr)
=============================================================================
