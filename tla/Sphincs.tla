------------------------------- MODULE Sphincs -------------------------------
(***************************************************************************)
(* SPHINCS+ over the hypertree (sign.c): key generation, signing, opening. *)
(* Layer by layer a signature holds a WOTS signature of the root below it  *)
(* and the path of the WOTS key it used; the bottom signs a FORS key.      *)
(***************************************************************************)
EXTENDS HashSignatures, FiniteSets

CONSTANTS
    SPX_D, SPX_TREE_HEIGHT,
    hash_message(_, _),         \* randomizer and message to digest, tree, leaf_idx
    gen_message_random(_, _),   \* optrand and message to a randomizer
    InputMessages, OptRands,
    Altered(_),                 \* a hash other than the given one
    MaxSigned,                  \* bound: signatures the signer makes
    OtherHashes                 \* bound: hashes a signature is compared with

ASSUME SphincsAssumption ==
    /\ SPX_N \in 1 .. 256 /\ SPX_WOTS_LOGW \in {4, 8}
    /\ SPX_D \in Nat /\ SPX_D > 0
    /\ SPX_TREE_HEIGHT \in 1 .. 8

SPX_FORS_MSG_BYTES == (SPX_FORS_HEIGHT * SPX_FORS_TREES + 7) \div 8

(* hash_message hands out bytes and numbers.                                 *)
ASSUME DigestAssumption ==
    \A optrand \in OptRands, m \in InputMessages :
        LET d == hash_message(gen_message_random(optrand, m), m)
        IN  /\ d.mhash \in [1 .. SPX_FORS_MSG_BYTES -> 0 .. Byte - 1]
            /\ d.tree \in Nat /\ d.leaf \in Nat

(* wots_gen_leaf: the hash of a WOTS public key.                             *)
WotsAddr(tree_addr, type, keypair) ==
    set_keypair_addr(copy_subtree_addr(set_type(ZeroAddr, type), tree_addr), keypair)

WotsLeaf(pk, wots_pk_addr) == thash(pk, wots_pk_addr)

wots_gen_leaf(addr_idx, tree_addr) ==
    LET pk == wots_gen_pk(WotsAddr(tree_addr, TYPE_WOTS, addr_idx))
    IN  WotsLeaf(pk.out, copy_keypair_addr(set_type(ZeroAddr, TYPE_WOTSPK), pk.addr))

(* The WOTS address and tree address of a layer: they keep what the layer    *)
(* before left in them.                                                      *)
LayerTreeAddr(tree_addr, layer, tree) == set_tree_addr(set_layer_addr(tree_addr, layer), tree)
LayerWotsAddr(wots_addr, tree_addr, idx_leaf) ==
    set_keypair_addr(copy_subtree_addr(wots_addr, tree_addr), idx_leaf)

(* Faulty variant: takes the leaf from the tree above.                       *)
UpSkipsMask(tree) == [idx_leaf |-> Shr(tree, SPX_TREE_HEIGHT), tree |-> Shr(tree, SPX_TREE_HEIGHT)]
(* The tree of a layer is a leaf of the layer above.                         *)
Up(tree) == [idx_leaf |-> tree % Pow2[SPX_TREE_HEIGHT], tree |-> Shr(tree, SPX_TREE_HEIGHT)]

(* Faulty variant: leaves the message out.                                   *)
DigestOfRandomizer(R, m) ==
    LET d == hash_message(R, 0)
    IN  [mhash |-> d.mhash, tree |-> d.tree % Pow2[SPX_TREE_HEIGHT * (SPX_D - 1)],
         idx_leaf |-> d.leaf % Pow2[SPX_TREE_HEIGHT]]

(* hash_message keeps the bits of the digest that number trees and leaves.   *)
Digest(R, m) ==
    LET d == hash_message(R, m)
    IN  [mhash |-> d.mhash, tree |-> d.tree % Pow2[SPX_TREE_HEIGHT * (SPX_D - 1)],
         idx_leaf |-> d.leaf % Pow2[SPX_TREE_HEIGHT]]

StartAddr(digest) == set_keypair_addr(set_tree_addr(set_type(ZeroAddr, TYPE_WOTS), digest.tree), digest.idx_leaf)
HashtreeAddr == set_type(ZeroAddr, TYPE_HASHTREE)

-----------------------------------------------------------------------------
(* The root of the top tree; treehash_parallel gives what treehash does      *)
(* (module SphincsParallel).                                                 *)
seed_keypair ==
    treehash(0, 0, SPX_TREE_HEIGHT, wots_gen_leaf, set_layer_addr(HashtreeAddr, SPX_D - 1)).stack[1]

(* One layer of a signature; used notes which WOTS key signed which root.    *)
SignLayer(s, layer) ==
    LET tree_addr == LayerTreeAddr(s.tree_addr, layer, s.tree)
        wots_addr == LayerWotsAddr(s.wots_addr, tree_addr, s.idx_leaf)
        wots == wots_sign(s.root, wots_addr)
        tree == treehash(s.idx_leaf, 0, SPX_TREE_HEIGHT, wots_gen_leaf, tree_addr)
        up == Up(s.tree)
    IN  [layers |-> Append(s.layers, [wots |-> wots.out, auth |-> tree.auth]),
         used |-> s.used \cup {<<layer, s.tree, s.idx_leaf, s.root>>},
         root |-> tree.stack[1], wots_addr |-> wots.addr, tree_addr |-> tree.addr,
         idx_leaf |-> up.idx_leaf, tree |-> up.tree]

signature(m, optrand) ==
    LET R == gen_message_random(optrand, m)
        d == Digest(R, m)
        fors == fors_sign(d.mhash, StartAddr(d))
        below[layer \in 0 .. SPX_D] ==
            IF layer = 0
            THEN [layers |-> <<>>, used |-> {}, root |-> fors.pk, wots_addr |-> StartAddr(d),
                  tree_addr |-> HashtreeAddr, idx_leaf |-> d.idx_leaf, tree |-> d.tree]
            ELSE SignLayer(below[layer - 1], layer - 1)
        all == below[SPX_D]
    IN  [sig |-> [R |-> R, fors |-> fors.sig, layers |-> all.layers], used |-> all.used]

(* One layer of a verification, with an address for the leaf on its own.     *)
VerifyLayer(s, layer, part) ==
    LET tree_addr == LayerTreeAddr(s.tree_addr, layer, s.tree)
        wots_addr == LayerWotsAddr(s.wots_addr, tree_addr, s.idx_leaf)
        wots_pk_addr == copy_keypair_addr(s.wots_pk_addr, wots_addr)
        pk == wots_pk_from_sig(part.wots, s.root, wots_addr)
        top == compute_root(WotsLeaf(pk.out, wots_pk_addr), s.idx_leaf, 0, part.auth, SPX_TREE_HEIGHT, tree_addr)
        up == Up(s.tree)
    IN  [root |-> top.out, wots_addr |-> pk.addr, wots_pk_addr |-> wots_pk_addr,
         tree_addr |-> top.addr, idx_leaf |-> up.idx_leaf, tree |-> up.tree]

verify(sig, m, pub_root) ==
    LET d == Digest(sig.R, m)
        below[layer \in 0 .. SPX_D] ==
            IF layer = 0
            THEN [root |-> fors_pk_from_sig(sig.fors, d.mhash, StartAddr(d)),
                  wots_addr |-> StartAddr(d), wots_pk_addr |-> set_type(ZeroAddr, TYPE_WOTSPK),
                  tree_addr |-> HashtreeAddr, idx_leaf |-> d.idx_leaf, tree |-> d.tree]
            ELSE VerifyLayer(below[layer - 1], layer - 1, sig.layers[layer])
    IN  below[SPX_D].root = pub_root

-----------------------------------------------------------------------------
VARIABLES
    pk,        \* the root in the key, NoKey before it is made
    signed,    \* the signed messages that left the signer, and what they used
    opened     \* the last signed message that was opened, with the outcome

sphincs_vars == <<pk, signed, opened>>

NoKey == -1
Nothing == [m |-> -1, sig |-> <<>>, short |-> FALSE, ret |-> -1, out |-> -1]
Zeroed == -1                   \* the message buffer after memset

SphincsInit == pk = NoKey /\ signed = {} /\ opened = Nothing

Keypair ==
    /\ pk = NoKey
    /\ pk' = seed_keypair
    /\ UNCHANGED <<signed, opened>>

Sign(m, optrand) ==
    /\ pk # NoKey /\ opened = Nothing /\ Cardinality(signed) < MaxSigned
    /\ LET s == signature(m, optrand)
       IN  signed' = signed \cup {[m |-> m, sig |-> s.sig, used |-> s.used]}
    /\ UNCHANGED <<pk, opened>>

(* What can happen to a signed message on its way: nothing, or one part of   *)
(* it is another.                                                            *)
Transit(e) ==
    {[m |-> m, sig |-> e.sig] : m \in InputMessages}
    \cup {[m |-> e.m, sig |-> [e.sig EXCEPT !.R = Altered(@)]]}
    \cup {[m |-> e.m, sig |-> [e.sig EXCEPT !.fors[i].sk = Altered(@)]] : i \in Trees}
    \cup {[m |-> e.m, sig |-> [e.sig EXCEPT !.fors[i].auth[h] = Altered(@)]] :
             i \in Trees, h \in 0 .. SPX_FORS_HEIGHT - 1}
    \cup {[m |-> e.m, sig |-> [e.sig EXCEPT !.layers[l].wots[i] = Altered(@)]] :
             l \in 1 .. SPX_D, i \in 1 .. SPX_WOTS_LEN}
    \cup {[m |-> e.m, sig |-> [e.sig EXCEPT !.layers[l].auth[h] = Altered(@)]] :
             l \in 1 .. SPX_D, h \in 0 .. SPX_TREE_HEIGHT - 1}

(* open, of a buffer that holds at least a signature or is too short.        *)
Open(sm, short) ==
    /\ pk # NoKey /\ opened = Nothing
    /\ LET ok == ~short /\ verify(sm.sig, sm.m, pk)
       IN  opened' = [m |-> sm.m, sig |-> sm.sig, short |-> short,
                      ret |-> IF ok THEN 0 ELSE -1, out |-> IF ok THEN sm.m ELSE Zeroed]
    /\ UNCHANGED <<pk, signed>>

(* The caller takes the next one.                                            *)
Close == opened # Nothing /\ opened' = Nothing /\ UNCHANGED <<pk, signed>>

SphincsNext ==
    \/ Keypair \/ Close
    \/ \E m \in InputMessages, optrand \in OptRands : Sign(m, optrand)
    \/ \E e \in signed : \E sm \in Transit(e), short \in BOOLEAN : Open(sm, short)

SphincsSpec == SphincsInit /\ [][SphincsNext]_sphincs_vars

-----------------------------------------------------------------------------
Sent == {[m |-> e.m, sig |-> e.sig] : e \in signed}
Received == [m |-> opened.m, sig |-> opened.sig]

(* What the signer signed opens, to the message (sign.c:122-188, 193-268):   *)
(* signer and verifier walk the hypertree alike, each with addresses that    *)
(* carry over from layer to layer.                                           *)
GenuineOpens == (Received \in Sent /\ ~opened.short) => opened.ret = 0 /\ opened.out = opened.m

(* Nothing else does, and the caller then gets no message (sign.c:287-315).  *)
OthersRejected ==
    (opened # Nothing /\ (Received \notin Sent \/ opened.short))
        => opened.ret = -1 /\ opened.out = Zeroed

(* A WOTS key signs one value for ever, over all signatures of the signer,   *)
(* although it keeps no state: the root below it does not depend on the      *)
(* message (sign.c:160-183).                                                 *)
OneValuePerWotsKey ==
    \A e, f \in signed : \A u \in e.used, v \in f.used :
        (u[1] = v[1] /\ u[2] = v[2] /\ u[3] = v[3]) => u[4] = v[4]

(* The checksum of WOTS fits its digits, and no fewer would do, for every     *)
(* hash length that params.h admits (params.h:33-52).                        *)
ChecksumFits ==
    \A n \in 1 .. 256, logw \in {4, 8} :
        LET w == 2 ^ logw
            largest == LEN1(n, logw) * (w - 1)
        IN  w ^ (LEN2(n, logw) - 1) <= largest /\ largest < w ^ LEN2(n, logw)

(* No WOTS signature in what the signer gives out can be continued to one of *)
(* another hash: some chain of the other is shorter (wots.c:79-96).          *)
NotContinuable ==
    signed # {} /\ opened = Nothing =>
        /\ ChecksumFits
        /\ \A e \in signed : \A u \in e.used : \A other \in OtherHashes \ {u[4]} :
            \E i \in 1 .. SPX_WOTS_LEN : chain_lengths(other)[i] < chain_lengths(u[4])[i]
=============================================================================
