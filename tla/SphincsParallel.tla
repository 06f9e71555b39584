-------------------------- MODULE SphincsParallel ---------------------------
(***************************************************************************)
(* The parallel loops of SPHINCS+. In fors_sign (fors.c) every iteration   *)
(* works on a tree_addr of its own, a copy of the common base, and writes  *)
(* its own slices of sig and roots. No schedule is named: any thread may   *)
(* take any iteration. After the loop one thread hashes the roots          *)
(* together.                                                               *)
(*                                                                         *)
(* In treehash_parallel (utils.c) OpenMP threads generate the leaves of a  *)
(* tree, schedule(static), each iteration from an address of its own;      *)
(* after the implicit barrier the calling thread merges them with the      *)
(* stack.                                                                  *)
(***************************************************************************)
EXTENDS HashSignatures

CONSTANTS
    ForsThreads,
    ForsMessages,     \* digests of SPX_FORS_MSG_BYTES bytes
    ForsAddrs,        \* values of fors_addr callers pass
    gen_leaf(_, _),   \* wots_gen_leaf: index and address to a leaf
    TreeThreads,      \* size of the team; thread 1 is the caller
    tree_height,
    idx_offset,
    TreeAddrs,        \* values of tree_addr callers pass
    Garbage           \* what the buffers hold before they are written

VARIABLES
    mhash, fors_addr,   \* the arguments
    todo,            \* the iterations nobody has taken
    at,              \* per thread: its iteration, or Idle
    step,            \* per thread: what it does next
    fors_tree_addr,  \* per thread: the address of the running iteration
    fors_sig, roots,
    fors_pk

fors_vars == <<mhash, fors_addr, todo, at, step, fors_tree_addr, fors_sig, roots, fors_pk>>

Idle == -1

(* Faulty variant: the address is declared outside the loop, and shared.     *)
OwnShared(t) == CHOOSE u \in ForsThreads : TRUE
Own(t) == t

-----------------------------------------------------------------------------
ForsInit ==
    /\ mhash \in ForsMessages /\ fors_addr \in ForsAddrs
    /\ todo = Trees
    /\ at = [t \in ForsThreads |-> Idle]
    /\ step = [t \in ForsThreads |-> "take"]
    /\ fors_tree_addr = [t \in ForsThreads |-> ZeroAddr]
    /\ fors_sig = [i \in Trees |-> [sk |-> Garbage, auth |-> <<>>]]
    /\ roots = [i \in Trees |-> Garbage]
    /\ fors_pk = Garbage

(* An iteration copies the base and names the leaf it reveals.               *)
Take(t) ==
    /\ step[t] = "take"
    /\ \E i \in todo :
        /\ todo' = todo \ {i}
        /\ at' = [at EXCEPT ![t] = i]
        /\ fors_tree_addr' = [fors_tree_addr EXCEPT ![Own(t)] =
                LeafAddr(KeypairAddr(fors_addr, TYPE_FORSTREE), i, message_to_indices(mhash)[i])]
    /\ step' = [step EXCEPT ![t] = "secret"]
    /\ UNCHANGED <<mhash, fors_addr, fors_sig, roots, fors_pk>>

Reveal(t) ==
    /\ step[t] = "secret"
    /\ fors_sig' = [fors_sig EXCEPT ![at[t]].sk = prf_addr(fors_tree_addr[Own(t)])]
    /\ step' = [step EXCEPT ![t] = "tree"]
    /\ UNCHANGED <<mhash, fors_addr, todo, at, fors_tree_addr, roots, fors_pk>>

Tree(t) ==
    /\ step[t] = "tree"
    /\ LET i == at[t]
           tree == SignedTree(i, message_to_indices(mhash)[i], fors_tree_addr[Own(t)])
       IN  /\ roots' = [roots EXCEPT ![i] = tree.stack[1]]
           /\ fors_sig' = [fors_sig EXCEPT ![i].auth = tree.auth]
           /\ fors_tree_addr' = [fors_tree_addr EXCEPT ![Own(t)] = tree.addr]
    /\ at' = [at EXCEPT ![t] = Idle]
    /\ step' = [step EXCEPT ![t] = "take"]
    /\ UNCHANGED <<mhash, fors_addr, todo, fors_pk>>

LoopEnded == todo = {} /\ \A t \in ForsThreads : at[t] = Idle

Publish ==
    /\ LoopEnded /\ fors_pk = Garbage
    /\ fors_pk' = PublicKey(roots, fors_addr)
    /\ UNCHANGED <<mhash, fors_addr, todo, at, step, fors_tree_addr, fors_sig, roots>>

ForsNext == Publish \/ \E t \in ForsThreads : Take(t) \/ Reveal(t) \/ Tree(t)

ForsSpec == ForsInit /\ [][ForsNext]_fors_vars

-----------------------------------------------------------------------------
(* The parallel loop gives what the serial one gives.                        *)
ForsAsSerial == fors_pk # Garbage => fors_sign(mhash, fors_addr) = [sig |-> fors_sig, pk |-> fors_pk]

(* The message alone decides which secrets get out: each revealed one is of  *)
(* the leaf the message names in its own tree, and another message with      *)
(* another bit in its digest reveals another set (fors.c:44-56).             *)
RevealsWhatIsNamed ==
    fors_pk # Garbage =>
        /\ \A i, j \in Trees : i # j => fors_sig[i].sk # fors_sig[j].sk
        /\ \A other \in ForsMessages :
            (\A i \in Trees : fors_sign(other, fors_addr).sig[i].sk = fors_sig[i].sk) => other = mhash

-----------------------------------------------------------------------------
ASSUME TreeAssumption ==
    /\ TreeThreads \in Nat /\ TreeThreads > 0
    /\ tree_height \in Nat /\ tree_height > 0
    /\ idx_offset \in Nat /\ idx_offset % Pow2[tree_height] = 0
    /\ TreeAddrs \subseteq Addresses

num_leaves == Pow2[tree_height]
Leaves == 0 .. num_leaves - 1
Team == 1 .. TreeThreads

(* The addresses a call leaves behind in the one it was given.               *)
Around(addr) == {addr} \cup {NodeAddr(addr, h, i, idx_offset) : h \in 0 .. tree_height, i \in Leaves}

(* Of its address gen_leaf reads the layer and the tree (sign.c:19-34).    *)
ASSUME LeafAssumption ==
    \A addr \in TreeAddrs : \A a \in Around(addr) : \A i \in Leaves :
        gen_leaf(i + idx_offset, a) = gen_leaf(i + idx_offset, addr)

VARIABLES
    leaf_idx,      \* the leaf whose path is asked for
    tree_addr,     \* the caller's address
    next,          \* per thread: the iteration it is at
    leaves,        \* the leaf buffer
    tree_stack,    \* the stack of phase 2
    idx,           \* the leaf phase 2 is at
    phase          \* "leaves", "merge"

tree_vars == <<leaf_idx, tree_addr, next, leaves, tree_stack, idx, phase>>

(* schedule(static): contiguous chunks of nearly equal size, thread by thread. *)
ChunkStart(t) ==
    LET q == num_leaves \div TreeThreads
        longer == num_leaves % TreeThreads
    IN  (t - 1) * q + (IF t - 1 < longer THEN t - 1 ELSE longer)

(* Faulty variant: counts the leaves of the tree from 0.                     *)
LeafIndexLocal(i) == i
LeafIndex(i) == i + idx_offset

-----------------------------------------------------------------------------
TreeInit ==
    /\ leaf_idx \in Leaves
    /\ tree_addr \in TreeAddrs
    /\ next = [t \in Team |-> ChunkStart(t)]
    /\ leaves = [i \in Leaves |-> Garbage]
    /\ tree_stack = EmptyStack(tree_addr)
    /\ idx = 0
    /\ phase = "leaves"

(* gen_leaf only reads its address, a copy of one nobody writes meanwhile.   *)
GenLeaf(t) ==
    /\ next[t] < ChunkStart(t + 1)
    /\ leaves' = [leaves EXCEPT ![next[t]] = gen_leaf(LeafIndex(next[t]), tree_addr)]
    /\ next' = [next EXCEPT ![t] = @ + 1]
    /\ UNCHANGED <<leaf_idx, tree_addr, tree_stack, idx, phase>>

(* Faulty variant: the loop ends without its barrier (nowait).               *)
CallerArrived == next[1] = ChunkStart(2)
TeamArrived == \A t \in Team : next[t] = ChunkStart(t + 1)

Barrier ==
    /\ phase = "leaves" /\ TeamArrived
    /\ phase' = "merge"
    /\ UNCHANGED <<leaf_idx, tree_addr, next, leaves, tree_stack, idx>>

(* The merge writes the address of the caller.                               *)
MergeLeaf ==
    /\ phase = "merge" /\ idx < num_leaves
    /\ tree_stack' = AddLeaf(tree_stack, leaves[idx], idx, leaf_idx, idx_offset)
    /\ tree_addr' = tree_stack'.addr
    /\ idx' = idx + 1
    /\ UNCHANGED <<leaf_idx, next, leaves, phase>>

Done == phase = "merge" /\ idx = num_leaves

TreeNext == (\E t \in Team : GenLeaf(t)) \/ Barrier \/ MergeLeaf

TreeSpec == TreeInit /\ [][TreeNext]_tree_vars

-----------------------------------------------------------------------------
(* The values of the state; no thread runs past the last leaf.               *)
TreeTypeOK ==
    /\ leaf_idx \in Leaves
    /\ tree_addr \in Addresses
    /\ next \in [Team -> 0 .. num_leaves]
    /\ DOMAIN leaves = Leaves
    /\ idx \in 0 .. num_leaves
    /\ phase \in {"leaves", "merge"}

(* The tree that the call is about.                                          *)
Row0(addr) == [i \in Leaves |-> gen_leaf(i + idx_offset, addr)]
TreeUnder(addr) == NodesOver(Row0(addr), tree_height, idx_offset, addr)

(* Whatever the interleaving of the team, the call ends with the root of the *)
(* tree and the siblings on the way up from leaf_idx, one per height: no leaf *)
(* is merged before it is written, and nothing is written past the           *)
(* SPX_TREE_HEIGHT * SPX_N bytes of the path (utils.c:147-158, 200-213).     *)
RootAndPath ==
    Done =>
        LET node == TreeUnder(tree_stack.addr) IN
        /\ tree_stack.stack = <<node[tree_height][0]>>
        /\ tree_stack.auth = [h \in 0 .. tree_height - 1 |-> node[h][Sibling(Shr(leaf_idx, h))]]

(* The team gives what the serial treehash gives, the address it leaves      *)
(* included, for each address that has the same subtree.                     *)
TreeAsSerial ==
    Done => LET serial == treehash(leaf_idx, idx_offset, tree_height, gen_leaf, tree_addr)
            IN  serial = tree_stack

(* There is room for the next leaf on the stack, of tree_height + 1 nodes    *)
(* (utils.c:178).                                                            *)
StackFits == phase = "merge" /\ ~Done => Len(tree_stack.stack) <= tree_height

(* A signer runs loops of both kinds. *)
LoopsInit == ForsInit /\ TreeInit
LoopsNext ==
    \/ ForsNext /\ UNCHANGED tree_vars
    \/ TreeNext /\ UNCHANGED fors_vars
loops_vars == <<fors_vars, tree_vars>>

LoopsSpec == LoopsInit /\ [][LoopsNext]_loops_vars

(* However the team shares the work, the FORS signature and public key are   *)
(* those of the serial loop (fors.c:74), and the loop over the leaves gives  *)
(* the root and the path that the tree defines, within its buffers, and      *)
(* leaves everything as the serial treehash does (utils.c:166).              *)
LoopsAsSerial == ForsAsSerial /\ RootAndPath /\ TreeAsSerial /\ StackFits
=============================================================================
