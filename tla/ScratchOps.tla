----------------------------- MODULE ScratchOps -----------------------------
(***************************************************************************)
(* The scratch space of libsecp256k1 (src/scratch_impl.h) as operators on  *)
(* a record: what each call does to the record, and what it returns.  A    *)
(* scratch space is one malloc'ed block handed out as a stack of frames.   *)
(* Sizes are size_t values, 0 .. SIZE_MAX, and arithmetic on them wraps.   *)
(***************************************************************************)
EXTENDS Integers

CONSTANTS
    ALIGNMENT,   \* every frame starts and ends at a multiple of it
    SIZE_MAX,    \* the largest size_t
    Header       \* ROUND_TO_ALIGN(sizeof(secp256k1_scratch))

ASSUME SizeAssumption ==
    /\ ALIGNMENT \in Nat \ {0}
    /\ SIZE_MAX \in Nat
    /\ (SIZE_MAX + 1) % ALIGNMENT = 0
    /\ Header \in 1 .. SIZE_MAX

NULL == -1                 \* a failed allocation; frames are offsets in data
Sizes == 0 .. SIZE_MAX
Wrap(n) == n % (SIZE_MAX + 1)

(* The macros of util.h: both wrap as size_t expressions do. *)
CEIL_DIV(x, y) == 1 + (Wrap(x - 1) \div y)
ROUND_TO_ALIGN(size) == Wrap(CEIL_DIV(size, ALIGNMENT) * ALIGNMENT)

(***************************************************************************)
(* magic is "scratch" in a live space and "zero" in memory that was only   *)
(* zeroed, which every call detects and reports to the error callback.     *)
(***************************************************************************)
Scratches == [magic : {"scratch", "zero"}, max_size : Sizes, alloc_size : Sizes]
NoSpace == [magic |-> "none", max_size |-> 0, alloc_size |-> 0]
Valid(s) == s.magic = "scratch"
Free(s) == s.max_size - s.alloc_size

scratch_create(size) ==
    IF size > SIZE_MAX - Header
    THEN NoSpace
    ELSE [magic |-> "scratch", max_size |-> size, alloc_size |-> 0]

scratch_checkpoint(s) == IF Valid(s) THEN s.alloc_size ELSE 0

scratch_apply_checkpoint(s, checkpoint) ==
    IF Valid(s) /\ checkpoint <= s.alloc_size
    THEN [s EXCEPT !.alloc_size = checkpoint]
    ELSE s

(* Faulty variant: leaves room for the alignment of one object too few. *)
MaxAllocationOneShort(s, objects) ==
    IF ~Valid(s) \/ Free(s) <= (objects - 1) * (ALIGNMENT - 1)
    THEN 0
    ELSE Free(s) - (objects - 1) * (ALIGNMENT - 1)

scratch_max_allocation(s, objects) ==
    IF \/ ~Valid(s)
       \/ ALIGNMENT > 1 /\ objects > SIZE_MAX \div (ALIGNMENT - 1)
       \/ Free(s) <= objects * (ALIGNMENT - 1)
    THEN 0
    ELSE Free(s) - objects * (ALIGNMENT - 1)

(* Faulty variant: compares the size before it is rounded.                   *)
GrantedUnrounded(s, size) == Valid(s) /\ size <= Free(s)

(* Whether an allocation is granted, the frame's offset, and the new space. *)
Granted(s, size) ==
    /\ ROUND_TO_ALIGN(size) >= size
    /\ Valid(s)
    /\ ROUND_TO_ALIGN(size) <= Free(s)

scratch_alloc(s, size) ==
    IF Granted(s, size)
    THEN [ret |-> s.alloc_size,
          s   |-> [s EXCEPT !.alloc_size = @ + ROUND_TO_ALIGN(size)]]
    ELSE [ret |-> NULL, s |-> s]
=============================================================================
