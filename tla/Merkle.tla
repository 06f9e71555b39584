------------------------------- MODULE Merkle -------------------------------
(***************************************************************************)
(* Hash addresses of SPHINCS+ (address.c, shake256_offsets.h) and the      *)
(* Merkle trees hashed under them (utils.c).                               *)
(*                                                                         *)
(* Of the 32 bytes of an address the code writes: byte 3 (layer), 8..15    *)
(* (tree), 19 (type), 23 (keypair), 27 (chain, or height of a node) and    *)
(* 28..31 (index of a node, whose last byte doubles as the hash address).  *)
(* Fields that share bytes in the code share a field here. set_tree_addr   *)
(* and set_tree_index write 8 and 4 bytes, wider than any value the models *)
(* reach.                                                                  *)
(*                                                                         *)
(* treehash computes a root and the authentication path of one leaf with a *)
(* stack, compute_root recomputes the root from a leaf and its path.       *)
(***************************************************************************)
EXTENDS Integers, Sequences, SequencesExt

CONSTANTS
    thash(_, _),      \* thash_shake256_simple.c: hash of blocks under an address
    prf_addr(_)       \* hash_shake256.c: the secret that belongs to an address

TYPE_WOTS == 0
TYPE_WOTSPK == 1
TYPE_HASHTREE == 2
TYPE_FORSTREE == 3
TYPE_FORSPK == 4

Byte == 256

ZeroAddr == [layer |-> 0, tree |-> 0, type |-> 0, keypair |-> 0, b27 |-> 0, w28 |-> 0]
Addresses == [layer: Nat, tree: Nat, type: 0 .. 4, keypair: Nat, b27: Nat, w28: Nat]

(* A value with the address left behind by the calls that made it: the        *)
(* functions write to their caller's address.                                *)
With(out, addr) == [out |-> out, addr |-> addr]

set_layer_addr(addr, layer) == [addr EXCEPT !.layer = layer % Byte]
set_tree_addr(addr, tree) == [addr EXCEPT !.tree = tree]
set_type(addr, type) == [addr EXCEPT !.type = type % Byte]
set_keypair_addr(addr, keypair) == [addr EXCEPT !.keypair = keypair % Byte]

set_chain_addr(addr, chain) == [addr EXCEPT !.b27 = chain % Byte]
set_hash_addr(addr, hash) == [addr EXCEPT !.w28 = (@ - (@ % Byte)) + (hash % Byte)]
set_tree_height(addr, tree_height) == [addr EXCEPT !.b27 = tree_height % Byte]
set_tree_index(addr, tree_index) == [addr EXCEPT !.w28 = tree_index]

copy_subtree_addr(out, in) == [out EXCEPT !.layer = in.layer, !.tree = in.tree]

copy_keypair_addr(out, in) ==
    [out EXCEPT !.layer = in.layer, !.tree = in.tree, !.keypair = in.keypair]

-----------------------------------------------------------------------------
(* Shifts: 1 << h, and i >> h.                                               *)
Pow2[h \in Nat] == IF h = 0 THEN 1 ELSE 2 * Pow2[h - 1]
Shr(i, h) == i \div Pow2[h]

Sibling(i) == IF i % 2 = 0 THEN i + 1 ELSE i - 1
Top(s) == s[Len(s)]

-----------------------------------------------------------------------------
(* The stack of treehash: nodes with their heights, and what it has of the   *)
(* authentication path, by height.                                           *)
EmptyStack(addr) == [stack |-> <<>>, heights |-> <<>>, auth |-> <<>>, addr |-> addr]

Collect(auth, h, node) == [k \in DOMAIN auth \cup {h} |-> IF k = h THEN node ELSE auth[k]]

Push(s, node, idx, leaf_idx) ==
    [s EXCEPT !.stack = Append(@, node), !.heights = Append(@, 0),
              !.auth = IF Sibling(leaf_idx) = idx THEN Collect(@, 0, node) ELSE @]

CanMerge(s) == Len(s.stack) >= 2 /\ Top(s.heights) = s.heights[Len(s.heights) - 1]

NodeAddr(addr, h, tree_idx, idx_offset) ==
    set_tree_index(set_tree_height(addr, h), tree_idx + Shr(idx_offset, h))

(* The two top nodes become one, a level higher.                             *)
Merge(s, idx, leaf_idx, idx_offset) ==
    LET below == Len(s.stack) - 2
        h == Top(s.heights) + 1
        addr == NodeAddr(s.addr, h, Shr(idx, h), idx_offset)
        node == thash(SubSeq(s.stack, below + 1, below + 2), addr)
    IN  [stack |-> Append(SubSeq(s.stack, 1, below), node),
         heights |-> Append(SubSeq(s.heights, 1, below), h),
         auth |-> IF Sibling(Shr(leaf_idx, h)) = Shr(idx, h) THEN Collect(s.auth, h, node) ELSE s.auth,
         addr |-> addr]

(* One turn of the loop; a merge shortens the stack, which bounds the inner  *)
(* loop.                                                                     *)
AddLeaf(s, node, idx, leaf_idx, idx_offset) ==
    LET after[k \in 0 .. Len(s.stack)] ==
            IF k = 0 THEN Push(s, node, idx, leaf_idx)
            ELSE LET t == after[k - 1] IN
                 IF CanMerge(t) THEN Merge(t, idx, leaf_idx, idx_offset) ELSE t
    IN  after[Len(s.stack)]

(* gen_leaf(i, a) is leaf i, made from the address a.                        *)
treehash(leaf_idx, idx_offset, tree_height, gen_leaf(_, _), addr) ==
    LET after[k \in 0 .. Pow2[tree_height]] ==
            IF k = 0 THEN EmptyStack(addr)
            ELSE LET s == after[k - 1] IN
                 AddLeaf(s, gen_leaf(k - 1 + idx_offset, s.addr), k - 1, leaf_idx, idx_offset)
    IN  after[Pow2[tree_height]]

(* The nodes at each height over a row of leaves, from the definition of a   *)
(* tree.                                                                     *)
NodesOver(row, tree_height, idx_offset, addr) ==
    LET nodes[h \in 0 .. tree_height] ==
            IF h = 0 THEN row
            ELSE LET below == nodes[h - 1] IN
                 [i \in 0 .. Pow2[tree_height - h] - 1 |->
                    thash(<<below[2 * i], below[2 * i + 1]>>, NodeAddr(addr, h, i, idx_offset))]
    IN  nodes

-----------------------------------------------------------------------------
Pair(node, sibling, i) == IF i % 2 = 1 THEN <<sibling, node>> ELSE <<node, sibling>>

compute_root(leaf, leaf_idx, idx_offset, auth_path, tree_height, addr) ==
    LET up[h \in 0 .. tree_height] ==
            IF h = 0 THEN With(leaf, addr)
            ELSE LET c == up[h - 1]
                     a == NodeAddr(c.addr, h, Shr(leaf_idx, h), idx_offset)
                 IN  With(thash(Pair(c.out, auth_path[h - 1], Shr(leaf_idx, h - 1)), a), a)
    IN  up[tree_height]
=============================================================================
