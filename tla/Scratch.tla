------------------------------ MODULE Scratch -------------------------------
(***************************************************************************)
(* A scratch space and a client of it that allocates, takes checkpoints    *)
(* and returns to them in any order, also to checkpoints that later        *)
(* rollbacks have made stale.                                              *)
(***************************************************************************)
EXTENDS ScratchOps, FiniteSets

CONSTANTS
    MaxFrames,       \* bound: live frames the client holds
    MaxCheckpoints,  \* bound: checkpoints the client remembers
    MaxObjects       \* bound: objects asked of scratch_max_allocation

ASSUME BoundsAssumption ==
    MaxFrames \in Nat /\ MaxCheckpoints \in Nat /\ MaxObjects \in Nat

VARIABLES
    space,     \* the space, or NoSpace
    frames,      \* the frames handed out and not rolled back (ghost)
    checkpoints  \* the values the client got from scratch_checkpoint

vars == <<space, frames, checkpoints>>

HasSpace == space # NoSpace
Frames == [off : Sizes, len : Sizes]

(* The record of the space and the frames keep to size_t.                    *)
TypeOK ==
    /\ space \in Scratches \cup {NoSpace}
    /\ frames \subseteq Frames
    /\ checkpoints \subseteq Sizes

Init ==
    /\ space = NoSpace
    /\ frames = {}
    /\ checkpoints = {}

Create(size) ==
    /\ ~HasSpace
    /\ scratch_create(size) # NoSpace
    /\ space' = scratch_create(size)
    /\ UNCHANGED <<frames, checkpoints>>

(* Memory that was zeroed but never created: run_invalid_scratch_space_tests. *)
UseUncreated(size) ==
    /\ ~HasSpace
    /\ space' = [magic |-> "zero", max_size |-> size, alloc_size |-> 0]
    /\ UNCHANGED <<frames, checkpoints>>

(* The zeroed memory is not freed by scratch_destroy but by its owner. *)
Destroy ==
    /\ HasSpace
    /\ space' = NoSpace
    /\ frames' = {}
    /\ checkpoints' = {}

Checkpoint ==
    /\ HasSpace
    /\ Cardinality(checkpoints \cup {scratch_checkpoint(space)}) <= MaxCheckpoints
    /\ checkpoints' = checkpoints \cup {scratch_checkpoint(space)}
    /\ UNCHANGED <<space, frames>>

(* An accepted rollback ends every frame that reaches above the checkpoint. *)
ApplyCheckpoint(checkpoint) ==
    /\ HasSpace
    /\ space' = scratch_apply_checkpoint(space, checkpoint)
    /\ frames' = {f \in frames : f.off + f.len <= space'.alloc_size}
    /\ UNCHANGED checkpoints

Alloc(size) ==
    /\ HasSpace
    /\ Cardinality(frames) < MaxFrames
    /\ LET r == scratch_alloc(space, size) IN
         /\ space' = r.s
         /\ frames' = IF r.ret = NULL
                      THEN frames
                      ELSE frames \cup {[off |-> r.ret, len |-> ROUND_TO_ALIGN(size)]}
    /\ UNCHANGED checkpoints

Next ==
    \/ \E size \in Sizes : Create(size) \/ UseUncreated(size) \/ Alloc(size)
    \/ \E c \in checkpoints \cup {SIZE_MAX} : ApplyCheckpoint(c)
    \/ Checkpoint
    \/ Destroy

Spec == Init /\ [][Next]_vars

-----------------------------------------------------------------------------
(* scratch_alloc never hands out memory twice or outside the block: whatever *)
(* the order of rollbacks, live frames are disjoint, aligned, inside the     *)
(* max_size bytes of data, and below alloc_size, and the block itself (with  *)
(* its header) does not wrap around the address space.                       *)
Disjoint(f, g) == f.off + f.len <= g.off \/ g.off + g.len <= f.off

FramesSound ==
    /\ \A f, g \in frames : f # g => Disjoint(f, g)
    /\ \A f \in frames : /\ f.off % ALIGNMENT = 0
                         /\ f.off + f.len <= space.alloc_size
    /\ space.alloc_size <= space.max_size
    /\ Valid(space) => Header + space.max_size <= SIZE_MAX

(* The promise of scratch_max_allocation(n): n allocations whose sizes sum   *)
(* to at most the returned value all succeed.  Stated as one step of that    *)
(* induction: the first allocation of a size within the value is granted and *)
(* what is then promised for n - 1 objects still covers the rest.            *)
MaxAllocationHonoured ==
    \A n \in 1 .. MaxObjects :
      \A size \in 0 .. scratch_max_allocation(space, n) :
        Valid(space) /\ 0 < scratch_max_allocation(space, n) =>
          LET r == scratch_alloc(space, size) IN
            /\ r.ret # NULL
            /\ scratch_max_allocation(r.s, n - 1)
                 >= scratch_max_allocation(space, n) - size

=============================================================================
