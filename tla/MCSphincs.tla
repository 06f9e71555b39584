----------------------------- MODULE MCSphincs ------------------------------
(***************************************************************************)
(* An instance of SPHINCS+ for TLC.  A behaviour signs and verifies with   *)
(* toy hashes on 15-bit numbers, few enough not to collide; or it runs one *)
(* of the two parallel loops, the one over the trees of a FORS signature   *)
(* or the one over the leaves of a tree.                                   *)
(***************************************************************************)
EXTENDS Sphincs, SphincsParallel

VARIABLE part     \* what runs

-----------------------------------------------------------------------------
Mix(x, y) == (x * x + 257 * y + x * (y % 101) + 11) % 32749
MixAddr(seed, a) == Mix(Mix(Mix(Mix(Mix(Mix(seed, a.layer), a.tree), a.type), a.keypair), a.b27), a.w28)

MCthash(blocks, a) == FoldLeft(Mix, MixAddr(5, a), blocks)
MCprf_addr(a) == MixAddr(77, a)
MCBytesOf(hash) == <<hash \div 256, hash % 256>>
MCgen_message_random(optrand, msg) == Mix(Mix(123, optrand), msg)
MChash_message(R, msg) ==
    LET d == Mix(Mix(R, 9), msg)
    IN  [mhash |-> <<d % 256, d \div 256>>, tree |-> Mix(d, 1), leaf |-> Mix(d, 2)]
MCAltered(hash) == hash + 1
MCOtherHashes == {31 * k : k \in 0 .. 2114}

-----------------------------------------------------------------------------
MCgen_leaf(i, addr) == Mix(Mix(Mix(33, addr.layer), addr.tree), i)
Unwritten == -1
(* Three indices of three bits: the third crosses into the second byte.      *)
MCForsMessages == {<<a, b>> : a \in {0, 27, 64, 228, 255}, b \in {0, 1}}
MCForsAddrs == {[ZeroAddr EXCEPT !.tree = 2, !.keypair = 3, !.b27 = stale, !.w28 = stale] : stale \in {0, 3}}
MCTreeAddrs == {[ZeroAddr EXCEPT !.type = TYPE_HASHTREE, !.layer = 1, !.tree = tree, !.b27 = stale, !.w28 = stale]
                  : tree \in {0, 5}, stale \in {0, 3}}

Some(S) == CHOOSE x \in S : TRUE

PartInit ==
    /\ part \in {"sign", "fors", "tree"}
    /\ SphincsInit /\ ForsInit /\ TreeInit
    /\ part # "fors" => mhash = Some(ForsMessages) /\ fors_addr = Some(ForsAddrs)
    /\ part # "tree" => leaf_idx = 0 /\ tree_addr = Some(TreeAddrs)

PartNext ==
    \/ part = "sign" /\ SphincsNext /\ UNCHANGED <<part, fors_vars, tree_vars>>
    \/ part = "fors" /\ ForsNext /\ UNCHANGED <<part, sphincs_vars, tree_vars>>
    \/ part = "tree" /\ TreeNext /\ UNCHANGED <<part, sphincs_vars, fors_vars>>

PartSpec == PartInit /\ [][PartNext]_<<part, sphincs_vars, fors_vars, tree_vars>>

(* Nobody but the signer makes a signature of the ones it gave out: what was *)
(* changed on the way does not open (sign.c:241-315), and a signature gives  *)
(* out no chain from which those of another hash follow, and no leaf of a    *)
(* FORS tree that the digest does not name (wots.c:79-96, fors.c:44-56).     *)
NothingForged == OthersRejected /\ NotContinuable /\ RevealsWhatIsNamed
=============================================================================
