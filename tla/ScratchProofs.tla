---------------------------- MODULE ScratchProofs ----------------------------
(***************************************************************************)
(* Proofs, for every alignment and every width of size_t, of what Scratch  *)
(* states and TLC checks on a small instance.                              *)
(***************************************************************************)
EXTENDS Scratch, EcmultMulti, WellFoundedInduction, TLAPS

(* Division with remainder, the one fact about \div and % the rest uses. *)
LEMMA DivMod ==
    ASSUME NEW x \in Nat, NEW d \in Nat \ {0}
    PROVE  /\ x \div d \in Nat
           /\ x % d \in 0 .. d - 1
           /\ x = d * (x \div d) + (x % d)
  BY Z3

(* A multiple of d leaves no remainder.                                      *)
LEMMA Multiple ==
    ASSUME NEW k \in Nat, NEW d \in Nat \ {0}
    PROVE  (k * d) % d = 0
  BY Z3

(* Multiples of d are closed under addition.                                 *)
LEMMA SumOfMultiples ==
    ASSUME NEW m \in Nat, NEW k \in Nat, NEW d \in Nat \ {0},
           m % d = 0, k % d = 0
    PROVE  (m + k) % d = 0
  <1>1. /\ m = d * (m \div d) /\ m \div d \in Nat
        /\ k = d * (k \div d) /\ k \div d \in Nat
    BY DivMod
  <1> DEFINE a == m \div d  b == k \div d
  <1>2. m + k = (a + b) * d
    <2>1. d * a + d * b = (a + b) * d
      BY <1>1, Z3
    <2> QED
      BY <1>1, <2>1
  <1>3. a + b \in Nat
    BY <1>1
  <1> HIDE DEF a, b
  <1> QED
    BY <1>2, <1>3, Multiple

(* A size that fits a size_t does not wrap.                                  *)
LEMMA WrapSmall ==
    ASSUME NEW x \in Sizes
    PROVE  Wrap(x) = x
  BY SizeAssumption DEF Wrap, Sizes

(* The quotient is monotone: what a multiple of d bounds, its factor bounds. *)
LEMMA FactorBound ==
    ASSUME NEW a \in Nat, NEW q \in Nat, NEW d \in Nat \ {0}, d * a < d * q
    PROVE  (a + 1) * d <= q * d
  <1>1. a < q
    BY Z3
  <1>2. a + 1 <= q
    BY <1>1
  <1> QED
    BY <1>2, Z3

(* Before it wraps, the rounded size is a multiple of ALIGNMENT of at most   *)
(* SIZE_MAX + 1, less than ALIGNMENT above the size it rounds.               *)
LEMMA RoundedUnwrapped ==
    ASSUME NEW x \in Sizes
    PROVE  LET m == CEIL_DIV(x, ALIGNMENT) * ALIGNMENT IN
             /\ m \in 0 .. SIZE_MAX + 1
             /\ m % ALIGNMENT = 0
             /\ x # 0 => x <= m /\ m < x + ALIGNMENT
             /\ x = 0 => m = SIZE_MAX + 1
  <1> DEFINE y == Wrap(x - 1)
             a == y \div ALIGNMENT
             q == (SIZE_MAX + 1) \div ALIGNMENT
  <1>1. y \in Sizes /\ (x # 0 => y = x - 1) /\ (x = 0 => y = SIZE_MAX)
    <2>1. CASE x = 0
      BY <2>1, SizeAssumption DEF Wrap, Sizes
    <2>2. CASE x # 0
      <3>1. x - 1 \in Sizes
        BY <2>2, SizeAssumption DEF Sizes
      <3>2. Wrap(x - 1) = x - 1
        BY <3>1, WrapSmall
      <3> QED
        BY <2>2, <3>1, <3>2
    <2> QED
      BY <2>1, <2>2
  <1> HIDE DEF y
  <1>2. a \in Nat /\ ALIGNMENT * a <= y /\ y < (ALIGNMENT * a) + ALIGNMENT
    <2>1. y \in Nat /\ ALIGNMENT \in Nat \ {0}
      BY <1>1, SizeAssumption DEF Sizes
    <2>2. a \in Nat /\ y % ALIGNMENT \in 0 .. ALIGNMENT - 1
          /\ y = ALIGNMENT * a + (y % ALIGNMENT)
      BY <2>1, DivMod
    <2>3. ALIGNMENT * a \in Int
      BY <2>1, <2>2
    <2> HIDE DEF a
    <2> QED
      BY <2>1, <2>2, <2>3
  <1>3. q \in Nat /\ ALIGNMENT * q = SIZE_MAX + 1
    <2>1. SIZE_MAX + 1 \in Nat /\ ALIGNMENT \in Nat \ {0}
      BY SizeAssumption
    <2>2. q \in Nat /\ SIZE_MAX + 1 = ALIGNMENT * q + ((SIZE_MAX + 1) % ALIGNMENT)
      BY <2>1, DivMod
    <2> HIDE DEF q
    <2> QED
      BY <2>1, <2>2, SizeAssumption
  <1> DEFINE m == (a + 1) * ALIGNMENT
  <1>4. CEIL_DIV(x, ALIGNMENT) * ALIGNMENT = m
    <2>1. CEIL_DIV(x, ALIGNMENT) = 1 + a
      BY DEF CEIL_DIV, y
    <2>2. 1 + a = a + 1
      BY <1>2
    <2> QED
      BY <2>1, <2>2
  <1> HIDE DEF a, q
  <1>5. m \in Nat /\ m = (ALIGNMENT * a) + ALIGNMENT
    BY <1>2, SizeAssumption, Z3
  <1>6. m <= SIZE_MAX + 1
    <2>1. ALIGNMENT * a < ALIGNMENT * q
      BY <1>1, <1>2, <1>3, SizeAssumption DEF Sizes
    <2>2. (a + 1) * ALIGNMENT <= q * ALIGNMENT
      BY <2>1, <1>2, <1>3, SizeAssumption, FactorBound
    <2>3. q * ALIGNMENT = ALIGNMENT * q
      BY <1>3, SizeAssumption
    <2> QED
      BY <2>2, <2>3, <1>3
  <1>7. m % ALIGNMENT = 0
    <2>1. a + 1 \in Nat
      BY <1>2
    <2> QED
      BY <2>1, SizeAssumption, Multiple
  <1>8. x # 0 => x <= m /\ m < x + ALIGNMENT
    BY <1>1, <1>2, <1>5, SizeAssumption DEF Sizes
  <1>9. x = 0 => m = SIZE_MAX + 1
    BY <1>1, <1>2, <1>5, <1>6, SizeAssumption DEF Sizes
  <1> HIDE DEF m
  <1> QED
    BY <1>4, <1>5, <1>6, <1>7, <1>8, <1>9, SizeAssumption

(* ROUND_TO_ALIGN yields a multiple of ALIGNMENT; when the code's test that  *)
(* it did not wrap passes, it is at least the size and barely above it.      *)
LEMMA RoundUp ==
    ASSUME NEW x \in Sizes
    PROVE  /\ ROUND_TO_ALIGN(x) \in Sizes
           /\ ROUND_TO_ALIGN(x) % ALIGNMENT = 0
           /\ x + (ALIGNMENT - 1) <= SIZE_MAX
                => /\ x <= ROUND_TO_ALIGN(x)
                   /\ ROUND_TO_ALIGN(x) <= x + (ALIGNMENT - 1)
  <1> DEFINE m == CEIL_DIV(x, ALIGNMENT) * ALIGNMENT
  <1>1. /\ m \in 0 .. SIZE_MAX + 1
        /\ m % ALIGNMENT = 0
        /\ x # 0 => x <= m /\ m < x + ALIGNMENT
        /\ x = 0 => m = SIZE_MAX + 1
    BY RoundedUnwrapped
  <1>2. ROUND_TO_ALIGN(x) = Wrap(m)
    BY DEF ROUND_TO_ALIGN
  <1> HIDE DEF m
  <1>3. CASE m = SIZE_MAX + 1
    <2>1. Wrap(m) = 0
      BY <1>3, SizeAssumption DEF Wrap
    <2>2. 0 % ALIGNMENT = 0
      BY SizeAssumption
    <2> QED
      BY <1>1, <1>2, <1>3, <2>1, <2>2, SizeAssumption DEF Sizes
  <1>4. CASE m # SIZE_MAX + 1
    <2>1. m \in Sizes
      BY <1>1, <1>4, SizeAssumption DEF Sizes
    <2>2. Wrap(m) = m
      BY <2>1, WrapSmall
    <2> QED
      BY <1>1, <1>2, <1>4, <2>1, <2>2, SizeAssumption DEF Sizes
  <1> QED
    BY <1>3, <1>4

-----------------------------------------------------------------------------
(* The strengthening that makes FramesSound inductive: everything alloc_size *)
(* can return to is aligned, so the next frame is.                           *)
Aligned ==
    /\ space.alloc_size % ALIGNMENT = 0
    /\ \A c \in checkpoints : c % ALIGNMENT = 0

IInv == TypeOK /\ Aligned /\ FramesSound

(* The fields of a scratch space are sizes.                                  *)
LEMMA SpaceType ==
    ASSUME TypeOK
    PROVE  /\ space.max_size \in Sizes
           /\ space.alloc_size \in Sizes
           /\ Valid(space) => space \in Scratches
           /\ HasSpace => space \in Scratches
  BY SizeAssumption DEF TypeOK, Scratches, NoSpace, HasSpace, Valid, Sizes

(* The invariant holds before the space exists.                              *)
LEMMA InitInv == Init => IInv
  <1> SUFFICES ASSUME Init PROVE IInv
    OBVIOUS
  <1>1. 0 \in Sizes /\ 0 % ALIGNMENT = 0
    BY SizeAssumption DEF Sizes
  <1> QED
    BY <1>1 DEF Init, IInv, TypeOK, Aligned, FramesSound, NoSpace, Valid

(* A granted allocation raises alloc_size, stays in the block, and keeps the *)
(* stack pointer aligned.                                                    *)
LEMMA GrantedStep ==
    ASSUME NEW s \in Scratches, NEW size \in Sizes, Granted(s, size),
           s.alloc_size <= s.max_size, s.alloc_size % ALIGNMENT = 0
    PROVE  LET top == s.alloc_size + ROUND_TO_ALIGN(size) IN
             /\ top \in Sizes
             /\ top <= s.max_size
             /\ s.alloc_size <= top
             /\ top % ALIGNMENT = 0
  <1>1. /\ ROUND_TO_ALIGN(size) \in Sizes
        /\ ROUND_TO_ALIGN(size) % ALIGNMENT = 0
    BY RoundUp
  <1>2. /\ s.alloc_size \in Sizes
        /\ s.max_size \in Sizes
        /\ ROUND_TO_ALIGN(size) <= s.max_size - s.alloc_size
    BY DEF Scratches, Granted, Free
  <1> DEFINE rounded == ROUND_TO_ALIGN(size)
  <1> HIDE DEF rounded
  <1>3. (s.alloc_size + rounded) % ALIGNMENT = 0
    <2>1. s.alloc_size \in Nat /\ rounded \in Nat /\ ALIGNMENT \in Nat \ {0}
      BY <1>1, <1>2, SizeAssumption DEF Sizes, rounded
    <2> QED
      BY <2>1, <1>1, SumOfMultiples DEF rounded
  <1> QED
    BY <1>1, <1>2, <1>3, SizeAssumption DEF Sizes, rounded

(* An allocation, granted or refused, keeps the invariant.                   *)
LEMMA AllocInv ==
    ASSUME IInv, NEW size \in Sizes, Alloc(size)
    PROVE  IInv'
  <1> USE DEF IInv
  <1> DEFINE old == space.alloc_size
             new == ROUND_TO_ALIGN(size)
  <1>0. space \in Scratches /\ space.max_size \in Sizes /\ old \in Sizes
    BY SpaceType DEF Alloc
  <1>1. CASE ~Granted(space, size)
    <2>1. space' = space /\ frames' = frames /\ checkpoints' = checkpoints
      BY <1>1 DEF Alloc, scratch_alloc, NULL
    <2> QED
      BY <2>1 DEF TypeOK, Aligned, FramesSound, Valid
  <1>2. CASE Granted(space, size)
    <2> DEFINE f == [off |-> old, len |-> new]
    <2>1. /\ space' = [space EXCEPT !.alloc_size = @ + new]
          /\ frames' = frames \cup {f}
          /\ checkpoints' = checkpoints
      <3>1. old # NULL
        BY <1>0 DEF Sizes, NULL
      <3> QED
        BY <1>2, <3>1 DEF Alloc, scratch_alloc
    <2>2. /\ old + new \in Sizes
          /\ old + new <= space.max_size
          /\ old <= old + new
          /\ (old + new) % ALIGNMENT = 0
      BY <1>0, <1>2, GrantedStep DEF Aligned, FramesSound
    <2>3. new \in Sizes
      BY RoundUp
    <2> HIDE DEF new
    <2>4. /\ space' \in Scratches
          /\ space'.alloc_size = old + new
          /\ space'.max_size = space.max_size
          /\ space'.magic = space.magic
      BY <1>0, <2>1, <2>2 DEF Scratches
    <2>5. TypeOK'
      BY <1>0, <2>1, <2>3, <2>4 DEF TypeOK, Frames
    <2>6. Aligned'
      BY <2>1, <2>2, <2>4 DEF Aligned
    <2>7. FramesSound'
      <3>1. \A h \in frames : h \in Frames /\ h.off + h.len <= old
        BY DEF TypeOK, FramesSound
      <3>2. \A h \in frames : Disjoint(h, f) /\ Disjoint(f, h)
        BY <3>1 DEF Disjoint
      <3>3. \A h \in frames : h.off + h.len <= old + new
        BY <1>0, <2>2, <2>3, <3>1 DEF Frames, Sizes
      <3>4. f.off % ALIGNMENT = 0 /\ f.off + f.len <= old + new
        BY <1>0, <2>2, <2>3 DEF Aligned, Sizes
      <3> HIDE DEF f
      <3> QED
        BY <2>1, <2>2, <2>4, <3>2, <3>3, <3>4 DEF FramesSound, Valid
    <2> QED
      BY <2>5, <2>6, <2>7
  <1> QED
    BY <1>1, <1>2

(* A rollback, accepted or refused, keeps the invariant.                     *)
LEMMA ApplyCheckpointInv ==
    ASSUME IInv, NEW c \in checkpoints \cup {SIZE_MAX}, ApplyCheckpoint(c)
    PROVE  IInv'
  <1> USE DEF IInv
  <1>0. space \in Scratches /\ space.max_size \in Sizes
        /\ space.alloc_size \in Sizes
    BY SpaceType DEF ApplyCheckpoint
  <1>1. c \in Sizes
    BY SizeAssumption DEF TypeOK, Sizes
  <1>2. CASE ~(Valid(space) /\ c <= space.alloc_size)
    <2>1. space' = space /\ checkpoints' = checkpoints /\ frames' \subseteq frames
      BY <1>2 DEF ApplyCheckpoint, scratch_apply_checkpoint
    <2> QED
      BY <2>1 DEF TypeOK, Aligned, FramesSound, Valid
  <1>3. CASE Valid(space) /\ c <= space.alloc_size
    <2>1. /\ space' = [space EXCEPT !.alloc_size = c]
          /\ frames' = {f \in frames : f.off + f.len <= space'.alloc_size}
          /\ checkpoints' = checkpoints
      BY <1>3 DEF ApplyCheckpoint, scratch_apply_checkpoint
    <2>2. /\ space' \in Scratches
          /\ space'.alloc_size = c
          /\ space'.max_size = space.max_size
          /\ space'.magic = space.magic
      BY <1>0, <1>1, <2>1 DEF Scratches
    <2>3. c # SIZE_MAX
      BY <1>0, <1>3, SizeAssumption DEF FramesSound, Sizes
    <2>4. c % ALIGNMENT = 0 /\ c <= space.max_size
      BY <1>0, <1>1, <1>3, <2>3 DEF Aligned, FramesSound, Sizes
    <2>5. frames' \subseteq frames
      BY <2>1
    <2>6. TypeOK'
      BY <2>1, <2>2, <2>5 DEF TypeOK
    <2>7. Aligned'
      BY <2>1, <2>2, <2>4 DEF Aligned
    <2>8. FramesSound'
      BY <2>1, <2>2, <2>4, <2>5 DEF FramesSound, Valid
    <2> QED
      BY <2>6, <2>7, <2>8
  <1> QED
    BY <1>2, <1>3

(* Every call keeps the invariant.                                           *)
LEMMA NextInv == IInv /\ [Next]_vars => IInv'
  <1> SUFFICES ASSUME IInv, [Next]_vars PROVE IInv'
    OBVIOUS
  <1> USE DEF IInv
  <1>1. ASSUME NEW size \in Sizes, Create(size) PROVE IInv'
    <2>1. /\ ~HasSpace /\ size <= SIZE_MAX - Header
          /\ space' = [magic |-> "scratch", max_size |-> size, alloc_size |-> 0]
          /\ frames' = frames /\ checkpoints' = checkpoints
      <3>1. ~(size > SIZE_MAX - Header)
        BY <1>1 DEF Create, scratch_create
      <3>2. size <= SIZE_MAX - Header
        BY <3>1, SizeAssumption DEF Sizes
      <3> QED
        BY <1>1, <3>1, <3>2 DEF Create, scratch_create
    <2>2. space.alloc_size = 0
      BY <2>1 DEF HasSpace, NoSpace
    <2>3. 0 \in Sizes /\ Header + size <= SIZE_MAX
      BY <2>1, SizeAssumption DEF Sizes
    <2> QED
      BY <2>1, <2>2, <2>3 DEF TypeOK, Aligned, FramesSound, Scratches, Sizes
  <1>2. ASSUME NEW size \in Sizes, UseUncreated(size) PROVE IInv'
    <2>1. /\ ~HasSpace
          /\ space' = [magic |-> "zero", max_size |-> size, alloc_size |-> 0]
          /\ frames' = frames /\ checkpoints' = checkpoints
      BY <1>2 DEF UseUncreated
    <2>2. space.alloc_size = 0 /\ 0 \in Sizes
      BY <2>1, SizeAssumption DEF HasSpace, NoSpace, Sizes
    <2> QED
      BY <2>1, <2>2 DEF TypeOK, Aligned, FramesSound, Scratches, Sizes, Valid
  <1>3. ASSUME NEW size \in Sizes, Alloc(size) PROVE IInv'
    BY <1>3, AllocInv
  <1>4. ASSUME NEW c \in checkpoints \cup {SIZE_MAX}, ApplyCheckpoint(c) PROVE IInv'
    BY <1>4, ApplyCheckpointInv
  <1>5. CASE Checkpoint
    <2>1. /\ space' = space /\ frames' = frames
          /\ checkpoints' = checkpoints \cup {scratch_checkpoint(space)}
      BY <1>5 DEF Checkpoint
    <2>2. scratch_checkpoint(space) \in Sizes
          /\ scratch_checkpoint(space) % ALIGNMENT = 0
      BY SpaceType, SizeAssumption DEF scratch_checkpoint, Aligned, Sizes
    <2> QED
      BY <2>1, <2>2 DEF TypeOK, Aligned, FramesSound, Valid
  <1>6. CASE Destroy
    <2>1. space' = NoSpace /\ frames' = {} /\ checkpoints' = {}
      BY <1>6 DEF Destroy
    <2>2. 0 % ALIGNMENT = 0
      BY SizeAssumption
    <2> QED
      BY <2>1, <2>2 DEF TypeOK, Aligned, FramesSound, NoSpace, Valid
  <1>7. CASE UNCHANGED vars
    BY <1>7 DEF vars, TypeOK, Aligned, FramesSound, Valid
  <1> QED
    BY <1>1, <1>2, <1>3, <1>4, <1>5, <1>6, <1>7 DEF Next

(* The inductive invariant, of every sequence of calls.                      *)
THEOREM SpecInv == Spec => []IInv
  <1>1. Init => IInv
    BY InitInv
  <1>2. IInv /\ [Next]_vars => IInv'
    BY NextInv
  <1> QED
    BY <1>1, <1>2, PTL DEF Spec

(* The values every variable ranges over, for every width of size_t. *)
THEOREM TypeCorrect == Spec => []TypeOK
  <1>1. IInv => TypeOK
    BY DEF IInv
  <1> QED
    BY <1>1, SpecInv, PTL

(* secp256k1_scratch_alloc and _apply_checkpoint never let two live frames   *)
(* overlap, leave the block, or lose their alignment.                        *)
THEOREM MemorySafe == Spec => []FramesSound
  <1>1. IInv => FramesSound
    BY DEF IInv
  <1> QED
    BY <1>1, SpecInv, PTL

-----------------------------------------------------------------------------
(* scratch_max_allocation: the reserve of ALIGNMENT - 1 bytes per object is  *)
(* enough for the rounding of each of them.                                  *)
LEMMA Honoured ==
    ASSUME IInv, MaxObjects \in Nat,
           NEW objects \in 1 .. MaxObjects,
           NEW size \in 0 .. scratch_max_allocation(space, objects),
           Valid(space), 0 < scratch_max_allocation(space, objects)
    PROVE  LET result == scratch_alloc(space, size) IN
             /\ result.ret # NULL
             /\ scratch_max_allocation(result.s, objects - 1)
                  >= scratch_max_allocation(space, objects) - size
  <1> DEFINE pad == objects * (ALIGNMENT - 1)
             pad1 == (objects - 1) * (ALIGNMENT - 1)
             room == Free(space)
             new == ROUND_TO_ALIGN(size)
             result == scratch_alloc(space, size)
  <1>1. /\ space \in Scratches /\ room \in Int /\ room <= SIZE_MAX
        /\ space.alloc_size \in Sizes /\ space.max_size \in Sizes
    BY SpaceType, SizeAssumption DEF IInv, Free, Sizes
  <1>2. /\ pad \in Nat /\ pad1 \in Nat /\ pad = pad1 + (ALIGNMENT - 1)
        /\ pad1 >= 0
    <2>1. objects \in Nat \ {0} /\ ALIGNMENT - 1 \in Nat
      BY SizeAssumption
    <2>2. ASSUME NEW a \in Nat \ {0}, NEW b \in Nat
          PROVE  a * b \in Nat /\ (a - 1) * b \in Nat /\ a * b = (a - 1) * b + b
      BY Z3
    <2> QED
      BY <2>1, <2>2
  <1>3. /\ scratch_max_allocation(space, objects) = room - pad
        /\ pad < room
        /\ ~(ALIGNMENT > 1 /\ objects > SIZE_MAX \div (ALIGNMENT - 1))
    <2>1. scratch_max_allocation(space, objects) # 0
      OBVIOUS
    <2>2. /\ scratch_max_allocation(space, objects) = Free(space) - objects * (ALIGNMENT - 1)
          /\ ~(Free(space) <= objects * (ALIGNMENT - 1))
          /\ ~(ALIGNMENT > 1 /\ objects > SIZE_MAX \div (ALIGNMENT - 1))
      BY <2>1 DEF scratch_max_allocation
    <2> QED
      BY <1>1, <1>2, <2>2
  <1> HIDE DEF pad, pad1, room
  <1>4. size \in Sizes /\ size + pad <= room
    BY <1>1, <1>2, <1>3, SizeAssumption DEF Sizes
  <1>5. size + (ALIGNMENT - 1) <= SIZE_MAX
    BY <1>1, <1>2, <1>4, SizeAssumption DEF Sizes
  <1>6. /\ new \in Sizes /\ size <= new /\ new <= size + (ALIGNMENT - 1)
    BY <1>4, <1>5, RoundUp
  <1> HIDE DEF new
  <1>7. new + pad1 <= room
    BY <1>1, <1>2, <1>4, <1>6, SizeAssumption DEF Sizes
  <1>8. Granted(space, size)
    <2>1. new <= room
      BY <1>1, <1>2, <1>6, <1>7 DEF Sizes
    <2> QED
      BY <1>6, <2>1 DEF Granted, new, room
  <1>9. result = [ret |-> space.alloc_size,
             s |-> [space EXCEPT !.alloc_size = @ + new]]
    BY <1>8 DEF scratch_alloc, new
  <1>10. /\ result.ret # NULL
         /\ Valid(result.s) /\ Free(result.s) = room - new
    <2>1. /\ result.s.magic = space.magic
          /\ result.s.max_size = space.max_size
          /\ result.s.alloc_size = space.alloc_size + new
      BY <1>1, <1>9 DEF Scratches
    <2>2. space.max_size - (space.alloc_size + new)
            = (space.max_size - space.alloc_size) - new
      BY <1>1, <1>6 DEF Sizes
    <2> QED
      BY <1>1, <1>9, <2>1, <2>2 DEF Free, room, Valid, NULL, Sizes
  <1>11. scratch_max_allocation(result.s, objects - 1) >= (room - new) - pad1
    <2>1. CASE Free(result.s) <= pad1
      <3>1. scratch_max_allocation(result.s, objects - 1) = 0
        BY <2>1 DEF scratch_max_allocation, pad1
      <3> QED
        BY <3>1, <2>1, <1>1, <1>2, <1>6, <1>10 DEF Sizes
    <2>2. CASE ~(Free(result.s) <= pad1)
      <3>1. ~(ALIGNMENT > 1 /\ objects - 1 > SIZE_MAX \div (ALIGNMENT - 1))
        <4>1. CASE ALIGNMENT > 1
          <5>1. SIZE_MAX \div (ALIGNMENT - 1) \in Nat
            <6>1. ALIGNMENT - 1 \in Nat \ {0}
              BY <4>1, SizeAssumption
            <6> QED
              BY <6>1, SizeAssumption, DivMod
          <5>2. objects <= SIZE_MAX \div (ALIGNMENT - 1)
            BY <5>1, <4>1, <1>3
          <5> QED
            BY <5>1, <5>2
        <4> QED
          BY <4>1
      <3>2. scratch_max_allocation(result.s, objects - 1) = Free(result.s) - pad1
        BY <2>2, <3>1, <1>10 DEF scratch_max_allocation, pad1
      <3> QED
        BY <3>2, <1>1, <1>2, <1>6, <1>10 DEF Sizes
    <2> QED
      BY <2>1, <2>2
  <1>12. (room - new) - pad1 >= (room - pad) - size
    BY <1>1, <1>2, <1>4, <1>6, SizeAssumption DEF Sizes
  <1>13. scratch_max_allocation(result.s, objects - 1) >= (room - pad) - size
    <2>1. scratch_max_allocation(result.s, objects - 1) \in Int
      BY <1>10, <1>1, <1>2, <1>6 DEF scratch_max_allocation, pad1, Sizes
    <2> QED
      BY <2>1, <1>1, <1>2, <1>4, <1>6, <1>11, <1>12 DEF Sizes
  <1> HIDE DEF result
  <1> QED
    BY <1>3, <1>10, <1>13 DEF result

(* Whatever scratch_max_allocation promises is granted. *)
THEOREM AllocationsHonoured == Spec => []MaxAllocationHonoured
  <1>1. IInv => MaxAllocationHonoured
    BY Honoured, BoundsAssumption DEF MaxAllocationHonoured
  <1> QED
    BY <1>1, SpecInv, PTL

-----------------------------------------------------------------------------
(* The batches of ecmult_multi_var. First, least and greatest elements.      *)
LEMMA LeastOf ==
    ASSUME NEW S \in SUBSET Nat, S # {}
    PROVE  \E m \in S : \A k \in S : m <= k
  <1>1. S # {} /\ S \subseteq Nat
    OBVIOUS
  <1>2. PICK m \in S : \A k \in S : <<k, m>> \notin OpToRel(<, Nat)
    BY <1>1, WFMin, NatLessThanWellFounded, Zenon
  <1>3. \A k \in S : ~(k < m)
    BY <1>2 DEF OpToRel
  <1> QED
    BY <1>3

(* A set of numbers with a bound has a maximum.                              *)
LEMMA MaxIs ==
    ASSUME NEW S \in SUBSET Nat, 0 \in S, NEW bound \in Nat, \A x \in S : x <= bound
    PROVE  Max(S) \in S /\ \A x \in S : x <= Max(S)
  <1> DEFINE Above == {b \in Nat : \A x \in S : x <= b}
  <1>1. bound \in Above
    OBVIOUS
  <1>2. PICK top \in Above : \A b \in Above : top <= b
    <2>1. Above \in SUBSET Nat /\ Above # {}
      BY <1>1
    <2> HIDE DEF Above
    <2> QED
      BY <2>1, LeastOf
  <1>3. top \in S
    <2> SUFFICES ASSUME top \notin S PROVE FALSE
      OBVIOUS
    <2>1. top # 0 /\ top \in Nat
      OBVIOUS
    <2>2. top - 1 \in Above
      BY <2>1
    <2> QED
      BY <1>2, <2>1, <2>2
  <1>4. \A x \in S : top >= x
    OBVIOUS
  <1>5. Max(S) \in S /\ \A y \in S : Max(S) >= y
    BY <1>3, <1>4, Zenon DEF Max
  <1> QED
    BY <1>5

(* Rounding a quotient up.                                                   *)
LEMMA CeilIs ==
    ASSUME NEW x \in 1 .. SIZE_MAX, NEW y \in Nat \ {0}
    PROVE  LET c == CEIL_DIV(x, y) IN c \in Nat \ {0} /\ (c - 1) * y < x /\ x <= c * y
  <1> DEFINE e == x - 1
             q == e \div y
             rest == e % y
  <1>1. e \in Nat /\ e \in Sizes /\ x = e + 1
    BY SizeAssumption DEF Sizes
  <1>2. Wrap(e) = e
    BY <1>1, WrapSmall
  <1>3. CEIL_DIV(x, y) = 1 + q
    BY <1>2 DEF CEIL_DIV
  <1> HIDE DEF e
  <1>4. q \in Nat /\ rest \in 0 .. y - 1 /\ e = y * q + rest
    BY <1>1, DivMod
  <1> HIDE DEF q, rest
  <1>5. /\ y * q \in Nat /\ ((1 + q) - 1) * y = y * q /\ (1 + q) * y = y * q + y
    BY <1>4, Z3
  <1> QED
    BY <1>1, <1>3, <1>4, <1>5

(* A factor that a multiple needs.                                           *)
LEMMA Smaller ==
    ASSUME NEW a \in Nat, NEW b \in Nat, NEW c \in Nat, a <= b
    PROVE  a * c <= b * c /\ c * a <= c * b
  BY Z3

(* The batches: none is larger than what fits, together they are enough, and *)
(* the last one is needed.                                                   *)
LEMMA PlanIs ==
    ASSUME ParametersAssumption, NEW max \in Nat \ {0}, NEW m \in 1 .. SIZE_MAX
    PROVE  LET p == batch_size_helper(max, m) IN
             /\ p.batches \in Nat \ {0} /\ p.points \in Nat \ {0}
             /\ p.points <= max
             /\ (p.batches - 1) * p.points < m /\ m <= p.batches * p.points
             /\ p = [batches |-> p.batches, points |-> p.points]
  <1> DEFINE limit == MinOf(max, ECMULT_MAX_POINTS_PER_BATCH)
             b == CEIL_DIV(m, limit)
             p == CEIL_DIV(m, b)
  <1>1. limit \in Nat \ {0} /\ limit <= max
    BY DEF MinOf, ParametersAssumption
  <1> HIDE DEF limit
  <1>2. b \in Nat \ {0} /\ (b - 1) * limit < m /\ m <= b * limit
    BY <1>1, CeilIs
  <1> HIDE DEF b
  <1>3. p \in Nat \ {0} /\ (p - 1) * b < m /\ m <= p * b
    BY <1>2, CeilIs
  <1> HIDE DEF p
  <1>4. batch_size_helper(max, m) = [batches |-> b, points |-> p]
    BY DEF batch_size_helper, b, p, limit
  <1>5. p <= limit
    <2> SUFFICES ASSUME limit <= p - 1 PROVE FALSE
      BY <1>1, <1>3
    <2> DEFINE e == p - 1
    <2>1. e \in Nat /\ limit <= e /\ e * b < m
      BY <1>3
    <2> HIDE DEF e
    <2>2. limit * b <= e * b /\ limit * b = b * limit
      BY <1>1, <1>2, <2>1, Z3
    <2>3. e * b \in Nat /\ limit * b \in Nat
      BY <1>1, <1>2, <2>1, Z3
    <2> QED
      BY <1>2, <2>1, <2>2, <2>3
  <1>6. (b - 1) * p < m
    <2> DEFINE e == b - 1
    <2>1. e \in Nat /\ e * limit < m
      BY <1>2
    <2> HIDE DEF e
    <2>2. e * p <= e * limit
      BY <1>1, <1>3, <1>5, <2>1, Smaller
    <2>3. e * p \in Nat /\ e * limit \in Nat
      BY <1>1, <1>3, <2>1, Z3
    <2>4. e * p < m
      BY <2>1, <2>2, <2>3
    <2> QED
      BY <2>4 DEF e
  <1>7. m <= b * p
    <2>1. b * p = p * b
      BY <1>2, <1>3, Z3
    <2> QED
      BY <1>3, <2>1
  <1> QED
    BY <1>1, <1>2, <1>3, <1>4, <1>5, <1>6, <1>7

(* Induction, for a set.                                                     *)
LEMMA Induct ==
    ASSUME NEW S, 0 \in S, \A k \in Nat : k \in S => k + 1 \in S
    PROVE  Nat \subseteq S
  <1> SUFFICES ASSUME ~(Nat \subseteq S) PROVE FALSE
    OBVIOUS
  <1> DEFINE Out == {k \in Nat : k \notin S}
  <1>1. Out \in SUBSET Nat /\ Out # {}
    OBVIOUS
  <1>2. PICK m \in Out : \A k \in Out : m <= k
    <2> HIDE DEF Out
    <2> QED
      BY <1>1, LeastOf
  <1>3. m # 0 /\ m \in Nat
    OBVIOUS
  <1>4. m - 1 \in Nat /\ m - 1 \notin Out
    BY <1>2, <1>3
  <1> QED
    BY <1>3, <1>4

-----------------------------------------------------------------------------
(* The allocations of a batch. A space that allocates:                       *)
IsSpace(s) == s \in Scratches /\ Valid(s) /\ s.alloc_size <= s.max_size

(* t is s with more in use.                                                  *)
Grown(s, t) ==
    /\ IsSpace(t) /\ t.max_size = s.max_size /\ t.alloc_size >= s.alloc_size

(* An allocation, whatever its size, leaves a space, and one with the room   *)
(* for its rounding is granted.                                              *)
LEMMA AllocStep ==
    ASSUME NEW s, IsSpace(s), NEW size \in Nat
    PROVE  LET t == scratch_alloc(s, size).s IN
             /\ Grown(s, t)
             /\ \A room \in Nat : size + (ALIGNMENT - 1) + room <= Free(s)
                    => Granted(s, size) /\ room <= Free(t)
  <1> DEFINE t == scratch_alloc(s, size).s
             up == ROUND_TO_ALIGN(size)
  <1>1. /\ s.alloc_size \in Nat /\ s.max_size \in Nat /\ s.max_size <= SIZE_MAX
        /\ s.alloc_size <= s.max_size /\ Valid(s) /\ s \in Scratches
        /\ ALIGNMENT \in Nat \ {0} /\ SIZE_MAX \in Nat
    BY SizeAssumption DEF IsSpace, Scratches, Sizes
  <1>2. CASE ~Granted(s, size)
    <2>1. t = s
      BY <1>2 DEF scratch_alloc
    <2>2. ASSUME NEW room \in Nat, size + (ALIGNMENT - 1) + room <= Free(s)
          PROVE  FALSE
      <3>1. size \in Sizes /\ size + (ALIGNMENT - 1) <= SIZE_MAX
        BY <1>1, <2>2 DEF Free, Sizes
      <3>2. up \in Sizes /\ size <= up /\ up <= size + (ALIGNMENT - 1)
        BY <3>1, RoundUp
      <3> HIDE DEF up
      <3>3. up <= Free(s)
        BY <1>1, <2>2, <3>2 DEF Free, Sizes
      <3> QED
        BY <1>1, <1>2, <3>2, <3>3 DEF Granted, up
    <2>3. Grown(s, s)
      BY <1>1 DEF Grown, IsSpace
    <2> QED
      BY <2>1, <2>2, <2>3
  <1>3. CASE Granted(s, size)
    <2>1. up >= size /\ up <= Free(s)
      BY <1>3 DEF Granted
    <2>2. up \in Sizes
      <3>1. CASE size \in Sizes
        BY <3>1, RoundUp
      <3>2. CASE size \notin Sizes
        <4>1. up \in Int
          <5>1. CEIL_DIV(size, ALIGNMENT) \in Nat
            <6> DEFINE e == size - 1  w == Wrap(e)
            <6>1. e \in Nat
              BY <1>1, <3>2 DEF Sizes
            <6> HIDE DEF e
            <6>2. w \in Nat
              BY <1>1, <6>1, DivMod DEF Wrap
            <6> HIDE DEF w
            <6>3. w \div ALIGNMENT \in Nat
              BY <1>1, <6>2, DivMod
            <6> QED
              BY <6>3 DEF CEIL_DIV, w, e
          <5> DEFINE c == CEIL_DIV(size, ALIGNMENT) * ALIGNMENT
          <5>2. c \in Nat
            BY <1>1, <5>1, Z3
          <5> HIDE DEF c
          <5>3. Wrap(c) \in Nat
            BY <1>1, <5>2, DivMod DEF Wrap
          <5> QED
            BY <5>3 DEF ROUND_TO_ALIGN, c
        <4> HIDE DEF up
        <4> QED
          BY <1>1, <2>1, <4>1 DEF Free, Sizes
      <3> QED
        BY <3>1, <3>2
    <2> HIDE DEF up
    <2>3. t = [s EXCEPT !.alloc_size = @ + up]
      BY <1>3 DEF scratch_alloc, up
    <2> HIDE DEF t
    <2>4. /\ t \in [magic : {"scratch", "zero"}, max_size : Sizes, alloc_size : Nat]
          /\ t.alloc_size = s.alloc_size + up /\ t.max_size = s.max_size /\ t.magic = s.magic
      BY <1>1, <2>2, <2>3 DEF Scratches, Sizes
    <2>5. t.alloc_size <= t.max_size /\ t.alloc_size \in Sizes /\ t.alloc_size >= s.alloc_size
      BY <1>1, <2>1, <2>2, <2>4 DEF Free, Sizes
    <2>6. Grown(s, t)
      BY <1>1, <2>4, <2>5 DEF Grown, IsSpace, Valid, Scratches
    <2>7. ASSUME NEW room \in Nat, size + (ALIGNMENT - 1) + room <= Free(s)
          PROVE  room <= Free(t)
      <3>1. size \in Sizes /\ size + (ALIGNMENT - 1) <= SIZE_MAX
        BY <1>1, <2>7 DEF Free, Sizes
      <3>2. up <= size + (ALIGNMENT - 1)
        BY <3>1, RoundUp DEF up
      <3> QED
        BY <1>1, <2>2, <2>4, <2>7, <3>2 DEF Free, Sizes
    <2> QED
      BY <1>3, <2>6, <2>7 DEF t
  <1> QED
    BY <1>2, <1>3

(* What AllocAll chooses: the space after each of the first m allocations.   *)
After(before, size) ==
    [ok |-> before.ok /\ Granted(before.s, size), s |-> scratch_alloc(before.s, size).s]

Before(s) == [ok |-> TRUE, s |-> s]

IsAfter(f, s, sizes, m) ==
    f = [q \in 0 .. m |-> IF q = 0 THEN Before(s) ELSE After(f[q - 1], sizes[q])]

(* There are such spaces.                                                    *)
LEMMA AfterExists ==
    ASSUME NEW s, NEW sizes, NEW m \in Nat
    PROVE  \E f : IsAfter(f, s, sizes, m)
  <1> DEFINE S == {k \in Nat : \E f : IsAfter(f, s, sizes, k)}
  <1>1. 0 \in S
    <2> DEFINE f == [q \in 0 .. 0 |-> Before(s)]
    <2>1. IsAfter(f, s, sizes, 0)
      BY DEF IsAfter
    <2> QED
      BY <2>1
  <1>2. ASSUME NEW k \in Nat, k \in S
        PROVE  k + 1 \in S
    <2>1. PICK f : IsAfter(f, s, sizes, k)
      BY <1>2
    <2> DEFINE longer == [q \in 0 .. k + 1 |-> IF q <= k THEN f[q] ELSE After(f[k], sizes[k + 1])]
    <2>2. IsAfter(longer, s, sizes, k + 1)
      BY <2>1 DEF IsAfter
    <2> QED
      BY <2>2
  <1> HIDE DEF S
  <1>3. Nat \subseteq S
    BY <1>1, <1>2, Induct
  <1> QED
    BY <1>3 DEF S

(* The last of them is what AllocAll returns.                                *)
LEMMA AllocAllIs ==
    ASSUME NEW s, NEW sizes \in Seq(Nat)
    PROVE  \E f : IsAfter(f, s, sizes, Len(sizes)) /\ AllocAll(s, sizes) = f[Len(sizes)]
  <1> DEFINE f == CHOOSE h : IsAfter(h, s, sizes, Len(sizes))
  <1>1. Len(sizes) \in Nat
    OBVIOUS
  <1>2. IsAfter(f, s, sizes, Len(sizes))
    BY <1>1, AfterExists
  <1>3. AllocAll(s, sizes) = f[Len(sizes)]
    BY DEF AllocAll, IsAfter, After, Before
  <1> HIDE DEF f
  <1> QED
    BY <1>2, <1>3

(* Granted or not, the allocations only add to what is in use; and with room *)
(* for each size and its rounding they are granted, all of them.             *)
LEMMA AllocAllKeeps ==
    ASSUME NEW s, IsSpace(s), NEW sizes \in Seq(Nat)
    PROVE  /\ Grown(s, AllocAll(s, sizes).s)
           /\ \A room \in [0 .. Len(sizes) -> Nat] :
                 /\ room[0] <= Free(s)
                 /\ \A q \in 1 .. Len(sizes) : sizes[q] + (ALIGNMENT - 1) + room[q] <= room[q - 1]
                 => AllocAll(s, sizes).ok
  <1> DEFINE m == Len(sizes)
  <1>1. m \in Nat /\ \A q \in 1 .. m : sizes[q] \in Nat
    OBVIOUS
  <1>2. PICK f : IsAfter(f, s, sizes, m) /\ AllocAll(s, sizes) = f[m]
    BY AllocAllIs
  <1> HIDE DEF m
  <1>3. f[0].ok /\ f[0].s = s
    <2>1. f[0] = Before(s)
      BY <1>1, <1>2 DEF IsAfter
    <2> QED
      BY <2>1 DEF Before
  <1>4. ASSUME NEW k \in Nat, k + 1 <= m
        PROVE  /\ f[k + 1].ok = (f[k].ok /\ Granted(f[k].s, sizes[k + 1]))
               /\ f[k + 1].s = scratch_alloc(f[k].s, sizes[k + 1]).s
    <2>1. f[k + 1] = After(f[k], sizes[k + 1])
      BY <1>1, <1>2, <1>4 DEF IsAfter
    <2> QED
      BY <2>1 DEF After
  <1>5. Grown(s, s)
    BY DEF Grown, IsSpace, Scratches, Sizes
  <1>6. Grown(s, f[m].s)
    <2> DEFINE S == {k \in Nat : k <= m => Grown(s, f[k].s)}
    <2>1. 0 \in S
      BY <1>3, <1>5
    <2>2. ASSUME NEW k \in Nat, k \in S, k + 1 <= m
          PROVE  Grown(s, f[k + 1].s)
      <3>1. Grown(s, f[k].s) /\ sizes[k + 1] \in Nat
        BY <1>1, <2>2
      <3>2. Grown(f[k].s, f[k + 1].s)
        <4> DEFINE u == f[k].s  size == sizes[k + 1]
        <4>1. IsSpace(u) /\ size \in Nat /\ f[k + 1].s = scratch_alloc(u, size).s
          BY <1>4, <2>2, <3>1 DEF Grown
        <4> HIDE DEF u, size
        <4>2. Grown(u, scratch_alloc(u, size).s)
          BY ONLY <4>1, AllocStep, ZenonT(30)
        <4> QED
          BY <4>1, <4>2 DEF u
      <3> QED
        BY <3>1, <3>2 DEF Grown, IsSpace, Scratches, Sizes
    <2>3. \A k \in Nat : k \in S => k + 1 \in S
      BY <2>2
    <2>4. m \in S
      <3> HIDE DEF S
      <3> QED
        BY <1>1, <2>1, <2>3, Induct
    <2> QED
      BY <1>1, <2>4
  <1>7. ASSUME NEW room \in [0 .. m -> Nat], room[0] <= Free(s),
               \A q \in 1 .. m : sizes[q] + (ALIGNMENT - 1) + room[q] <= room[q - 1]
        PROVE  f[m].ok
    <2> DEFINE S == {k \in Nat : k <= m => f[k].ok /\ IsSpace(f[k].s) /\ room[k] <= Free(f[k].s)}
    <2>1. 0 \in S
      BY <1>3, <1>7
    <2>2. ASSUME NEW k \in Nat, k \in S, k + 1 <= m
          PROVE  f[k + 1].ok /\ IsSpace(f[k + 1].s) /\ room[k + 1] <= Free(f[k + 1].s)
      <3> DEFINE size == sizes[k + 1]  left1 == room[k + 1]  t == f[k].s
      <3>1. f[k].ok /\ IsSpace(t) /\ room[k] <= Free(t)
        <4>1. k <= m
          BY <1>1, <2>2
        <4> QED
          BY <2>2, <4>1, Zenon
      <3>2. size \in Nat /\ left1 \in Nat /\ room[k] \in Nat /\ size + (ALIGNMENT - 1) + left1 <= room[k]
        <4>1. k + 1 \in 1 .. m /\ k \in 0 .. m /\ (k + 1) - 1 = k
          BY <1>1, <2>2
        <4> QED
          BY <1>1, <1>7, <4>1
      <3>3. /\ f[k + 1].ok = (f[k].ok /\ Granted(t, size))
            /\ f[k + 1].s = scratch_alloc(t, size).s
        BY <1>4, <2>2
      <3> HIDE DEF size, left1, t
      <3>4. Free(t) \in Int /\ ALIGNMENT \in Nat
        BY <3>1, SizeAssumption DEF IsSpace, Free, Scratches, Sizes
      <3>5. size + (ALIGNMENT - 1) + left1 <= Free(t)
        BY <3>1, <3>2, <3>4
      <3>6. Granted(t, size) /\ left1 <= Free(scratch_alloc(t, size).s) /\ IsSpace(scratch_alloc(t, size).s)
        BY <3>1, <3>2, <3>5, AllocStep DEF Grown
      <3> QED
        BY <3>1, <3>3, <3>6 DEF left1
    <2>3. \A k \in Nat : k \in S => k + 1 \in S
      BY <2>2
    <2>4. m \in S
      <3> HIDE DEF S
      <3> QED
        BY <1>1, <2>1, <2>3, Induct
    <2> QED
      BY <1>1, <2>4
  <1> QED
    BY <1>2, <1>6, <1>7 DEF m

-----------------------------------------------------------------------------
(* How many points fit. The sizes of a build are those of its types.         *)
LEMMA SizesAre ==
    ASSUME ParametersAssumption
    PROVE  /\ sizeof_ge \in Nat \ {0} /\ sizeof_gej \in Nat \ {0} /\ sizeof_fe \in Nat \ {0}
           /\ sizeof_scalar \in Nat \ {0} /\ sizeof_int \in Nat \ {0}
           /\ sizeof_strauss_point_state \in Nat \ {0} /\ sizeof_pippenger_point_state \in Nat \ {0}
           /\ sizeof_pippenger_state \in Nat \ {0} /\ TableSize \in Nat \ {0}
           /\ \A w \in 1 .. 12 : WNAF_SIZE(w + 1) \in Nat \ {0} /\ EntrySize(w) \in Nat \ {0}
                /\ 2 ^ w \in Nat \ {0}
  <1>1. /\ sizeof_ge \in Nat \ {0} /\ sizeof_gej \in Nat \ {0} /\ sizeof_fe \in Nat \ {0}
        /\ sizeof_scalar \in Nat \ {0} /\ sizeof_int \in Nat \ {0}
        /\ sizeof_strauss_point_state \in Nat \ {0} /\ sizeof_pippenger_point_state \in Nat \ {0}
        /\ sizeof_pippenger_state \in Nat \ {0} /\ TableSize \in Nat \ {0}
        /\ WNAF_BITS \in 1 .. SIZE_MAX
    BY DEF ParametersAssumption
  <1>2. ASSUME NEW w \in 1 .. 12
        PROVE  WNAF_SIZE(w + 1) \in Nat \ {0} /\ EntrySize(w) \in Nat \ {0}
    <2> DEFINE digits == WNAF_SIZE(w + 1)  width == w + 1
    <2>1. width \in Nat \ {0}
      OBVIOUS
    <2>2. CEIL_DIV(WNAF_BITS, width) \in Nat \ {0}
      <3> HIDE DEF width
      <3> QED
        BY <1>1, <2>1, CeilIs
    <2>3. digits \in Nat \ {0}
      BY <2>2 DEF WNAF_SIZE
    <2> HIDE DEF digits
    <2>4. (digits + 1) * sizeof_int \in Nat
      BY <1>1, <2>3, Z3
    <2> QED
      BY <1>1, <2>3, <2>4 DEF EntrySize, digits
  <1>3. ASSUME NEW w \in 1 .. 12
        PROVE  2 ^ w \in Nat \ {0}
    <2>1. CASE w = 1
      BY <2>1
    <2>2. CASE w = 2
      BY <2>2
    <2>3. CASE w = 3
      BY <2>3
    <2>4. CASE w = 4
      BY <2>4
    <2>5. CASE w = 5
      BY <2>5
    <2>6. CASE w = 6
      BY <2>6
    <2>7. CASE w = 7
      BY <2>7
    <2>8. CASE w = 8
      BY <2>8
    <2>9. CASE w = 9
      BY <2>9
    <2>10. CASE w = 10
      BY <2>10
    <2>11. CASE w = 11
      BY <2>11
    <2>12. CASE w = 12
      BY <2>12
    <2> QED
      BY <2>1, <2>2, <2>3, <2>4, <2>5, <2>6, <2>7, <2>8, <2>9, <2>10, <2>11, <2>12
  <1> QED
    BY <1>1, <1>2, <1>3

(* The window of a number of points is the first whose limit it does not     *)
(* exceed.                                                                   *)
LEMMA WindowIs ==
    ASSUME ParametersAssumption, NEW m \in Nat, NEW w \in 1 .. 12, m <= WindowLimit[w]
    PROVE  LET v == pippenger_bucket_window(m) IN
             v \in 1 .. w /\ m <= WindowLimit[v]
  <1> DEFINE S == {v \in 1 .. 12 : m <= WindowLimit[v]}
  <1>1. PICK v \in S : \A u \in S : v <= u
    <2>1. S \in SUBSET Nat /\ w \in S
      OBVIOUS
    <2> HIDE DEF S
    <2> QED
      BY <2>1, LeastOf
  <1>2. \A u \in 1 .. 12 : WindowLimit[u] \in Int
    BY SizeAssumption DEF WindowLimit
  <1> DEFINE Is(x) == m <= WindowLimit[x] /\ \A u \in 1 .. x - 1 : m > WindowLimit[u]
  <1>3. v \in 1 .. 12 /\ Is(v)
    BY <1>1, <1>2
  <1>4. ASSUME NEW x \in 1 .. 12, Is(x)
        PROVE  x = v
    BY <1>1, <1>2, <1>4
  <1>5. pippenger_bucket_window(m) = CHOOSE x \in 1 .. 12 : Is(x)
    BY DEF pippenger_bucket_window, ParametersAssumption
  <1> HIDE DEF Is
  <1>6. pippenger_bucket_window(m) = v
    BY <1>3, <1>4, <1>5, Zenon
  <1> QED
    BY <1>1, <1>6

(* What max_allocation keeps back: room to round each object.                *)
LEMMA RoomIs ==
    ASSUME NEW s, IsSpace(s), NEW objects \in Nat
    PROVE  LET room == scratch_max_allocation(s, objects) IN
             /\ room \in 0 .. SIZE_MAX
             /\ room > 0 => room + objects * (ALIGNMENT - 1) <= Free(s)
  <1> DEFINE pad == objects * (ALIGNMENT - 1)
  <1>1. pad \in Nat
    BY SizeAssumption, Z3
  <1>2. Free(s) \in 0 .. SIZE_MAX
    BY SizeAssumption DEF IsSpace, Scratches, Sizes, Free
  <1>3. \/ scratch_max_allocation(s, objects) = 0
        \/ /\ scratch_max_allocation(s, objects) = Free(s) - pad
           /\ ~(Free(s) <= pad)
    BY DEF scratch_max_allocation
  <1> HIDE DEF pad
  <1> QED
    BY <1>1, <1>2, <1>3, SizeAssumption DEF pad

(* The terms of the loop over the windows.                                   *)
Overhead(w) == sizeof_gej * 2 ^ w + 2 * EntrySize(w) + sizeof_pippenger_state
PointsOf(room, w) == MinOf((room - Overhead(w)) \div (2 * EntrySize(w)), WindowLimit[w])
Reached(room, w) ==
    /\ \A v \in 1 .. w : Overhead(v) <= room
    /\ \A v \in 1 .. w - 1 : PointsOf(room, v) = WindowLimit[v]

(* What a window that was reached takes of the room.                         *)
LEMMA WindowTakes ==
    ASSUME ParametersAssumption, NEW room \in 0 .. SIZE_MAX, NEW w \in 1 .. 12, Overhead(w) <= room
    PROVE  /\ Overhead(w) \in Nat \ {0}
           /\ PointsOf(room, w) \in 0 .. SIZE_MAX \cup {WindowLimit[w]} /\ PointsOf(room, w) <= WindowLimit[w]
           /\ \A m \in Nat : m <= PointsOf(room, w) => m * (2 * EntrySize(w)) + Overhead(w) <= room
  <1> DEFINE entry2 == 2 * EntrySize(w)  over == Overhead(w)  limit == WindowLimit[w]
             rest == room - over  most == rest \div entry2
  <1>1. entry2 \in Nat \ {0} /\ EntrySize(w) \in Nat /\ 2 ^ w \in Nat
        /\ sizeof_gej \in Nat /\ sizeof_pippenger_state \in Nat \ {0}
    <2>1. EntrySize(w) \in Nat \ {0}
      BY SizesAre
    <2>2. 2 ^ w \in Nat /\ sizeof_gej \in Nat /\ sizeof_pippenger_state \in Nat \ {0}
      BY SizesAre
    <2> QED
      BY <2>1, <2>2
  <1>2. sizeof_gej * 2 ^ w \in Nat
    <2> DEFINE t == 2 ^ w
    <2>1. t \in Nat
      BY <1>1
    <2> HIDE DEF t
    <2>2. sizeof_gej * t \in Nat
      BY <1>1, <2>1, Z3
    <2> QED
      BY <2>2 DEF t
  <1>3. over \in Nat \ {0}
    BY <1>1, <1>2 DEF Overhead
  <1>4. limit \in Nat
    BY SizeAssumption DEF WindowLimit
  <1>5. PointsOf(room, w) = MinOf(most, limit)
    BY DEF PointsOf
  <1> HIDE DEF entry2, over, limit
  <1>6. rest \in Nat /\ rest + over = room /\ rest <= SIZE_MAX
    BY <1>3, SizeAssumption DEF over
  <1> HIDE DEF rest
  <1>7. most \in Nat /\ entry2 * most <= rest /\ most <= rest
    <2>1. most \in Nat /\ rest % entry2 \in 0 .. entry2 - 1 /\ rest = entry2 * most + (rest % entry2)
      <3>1. rest \in Nat /\ entry2 \in Nat \ {0}
        BY <1>1, <1>6
      <3> QED
        BY <3>1, DivMod
    <2> HIDE DEF most
    <2> DEFINE over2 == rest % entry2  taken == entry2 * most
    <2>2. taken \in Nat /\ most <= taken
      BY <1>1, <2>1, Z3
    <2>3. rest = taken + over2 /\ over2 \in Nat
      BY ONLY <1>1, <2>1
    <2> HIDE DEF over2, taken
    <2>4. taken <= rest /\ most <= rest
      BY <1>6, <2>1, <2>2, <2>3
    <2> QED
      BY <2>1, <2>4 DEF taken
  <1> HIDE DEF most
  <1>8. ASSUME NEW m \in Nat, m <= PointsOf(room, w)
        PROVE  m * entry2 + over <= room
    <2>1. m <= most
      BY <1>4, <1>5, <1>7, <1>8 DEF MinOf
    <2>2. m * entry2 <= most * entry2 /\ most * entry2 = entry2 * most
      BY <1>1, <1>7, <2>1, Z3
    <2>3. m * entry2 \in Nat /\ entry2 * most \in Nat
      BY <1>1, <1>7, Z3
    <2> QED
      BY <1>3, <1>6, <1>7, <2>2, <2>3
  <1>9. MinOf(most, limit) \in 0 .. SIZE_MAX \cup {limit} /\ MinOf(most, limit) <= limit
    <2>1. most \in 0 .. SIZE_MAX
      BY <1>6, <1>7, SizeAssumption
    <2> QED
      BY ONLY <1>4, <2>1 DEF MinOf
  <1> QED
    BY <1>3, <1>5, <1>8, <1>9 DEF entry2, over, limit

(* The maximum of Pippenger's algorithm is 0 or that of a window reached.    *)
LEMMA PippengerMax ==
    ASSUME ParametersAssumption, NEW s, IsSpace(s)
    PROVE  LET room == scratch_max_allocation(s, PIPPENGER_SCRATCH_OBJECTS)
               max == pippenger_max_points(s) IN
             /\ max \in Nat
             /\ max # 0 => \E u \in 1 .. 12 : Reached(room, u) /\ max = PointsOf(room, u)
  <1> DEFINE room == scratch_max_allocation(s, PIPPENGER_SCRATCH_OBJECTS)
             All == {0} \cup {PointsOf(room, w) : w \in {v \in 1 .. 12 : Reached(room, v)}}
  <1>1. room \in 0 .. SIZE_MAX
    BY RoomIs DEF PIPPENGER_SCRATCH_OBJECTS
  <1>2. pippenger_max_points(s) = Max(All)
    BY DEF pippenger_max_points, PointsOf, Overhead, Reached, ParametersAssumption, pippenger_bucket_window_inv
  <1> HIDE DEF room
  <1>3. ASSUME NEW w \in 1 .. 12, Reached(room, w)
        PROVE  PointsOf(room, w) \in Nat /\ PointsOf(room, w) <= SIZE_MAX + 16050
    <2>1. Overhead(w) <= room
      BY <1>3 DEF Reached
    <2>2. PointsOf(room, w) \in 0 .. SIZE_MAX \cup {WindowLimit[w]}
      BY <1>1, <2>1, WindowTakes
    <2>3. WindowLimit[w] \in 0 .. SIZE_MAX + 16050
      BY SizeAssumption DEF WindowLimit
    <2> QED
      BY <2>2, <2>3, SizeAssumption
  <1>4. Max(All) \in All
    <2> DEFINE bound == SIZE_MAX + 16050
    <2>1. All \in SUBSET Nat /\ 0 \in All /\ \A x \in All : x <= bound
      BY <1>3, SizeAssumption
    <2>2. bound \in Nat
      BY SizeAssumption
    <2> HIDE DEF All, bound
    <2> QED
      BY <2>1, <2>2, MaxIs
  <1> QED
    BY <1>2, <1>3, <1>4 DEF room

(* A number of points up to the maximum fits the window that is chosen for   *)
(* it.                                                                       *)
LEMMA PippengerRoom ==
    ASSUME ParametersAssumption, NEW s, IsSpace(s), NEW m \in 1 .. pippenger_max_points(s)
    PROVE  LET w == pippenger_bucket_window(m)
               room == scratch_max_allocation(s, PIPPENGER_SCRATCH_OBJECTS) IN
             /\ w \in 1 .. 12 /\ room \in Nat \ {0} /\ m \in Nat
             /\ m * (2 * EntrySize(w)) + Overhead(w) <= room
  <1> DEFINE room == scratch_max_allocation(s, PIPPENGER_SCRATCH_OBJECTS)
             max == pippenger_max_points(s)
  <1>1. room \in 0 .. SIZE_MAX
    BY RoomIs DEF PIPPENGER_SCRATCH_OBJECTS
  <1>2. max \in Nat
    BY PippengerMax
  <1>3. m \in Nat /\ m # 0 /\ m <= max /\ max # 0
    <2> HIDE DEF max
    <2> QED
      BY <1>2 DEF max
  <1>4. PICK u \in 1 .. 12 : Reached(room, u) /\ max = PointsOf(room, u)
    BY <1>3, PippengerMax
  <1> HIDE DEF room, max
  <1>5. Overhead(u) <= room
    BY <1>4 DEF Reached
  <1>6. m <= PointsOf(room, u) /\ PointsOf(room, u) <= WindowLimit[u] /\ PointsOf(room, u) \in Nat
    BY <1>1, <1>2, <1>3, <1>4, <1>5, WindowTakes
  <1>7. WindowLimit[u] \in Nat
    BY SizeAssumption DEF WindowLimit
  <1>8. m <= WindowLimit[u]
    BY <1>3, <1>6, <1>7
  <1> DEFINE w == pippenger_bucket_window(m)
  <1>9. w \in 1 .. u /\ m <= WindowLimit[w]
    BY <1>3, <1>8, WindowIs
  <1> HIDE DEF w
  <1>10. w \in 1 .. 12 /\ Overhead(w) <= room /\ m <= PointsOf(room, w)
    <2>1. CASE w = u
      BY <1>5, <1>6, <2>1
    <2>2. CASE w # u
      BY <1>4, <1>9, <2>2 DEF Reached
    <2> QED
      BY <2>1, <2>2
  <1>11. m * (2 * EntrySize(w)) + Overhead(w) <= room /\ Overhead(w) \in Nat \ {0}
    BY <1>1, <1>3, <1>10, WindowTakes
  <1>12. room \in Nat \ {0}
    <2> DEFINE x == m * (2 * EntrySize(w))
    <2>1. EntrySize(w) \in Nat
      BY <1>10, SizesAre
    <2>2. x \in Nat
      BY <1>3, <2>1, Z3
    <2>3. x + Overhead(w) <= room
      BY <1>11
    <2> HIDE DEF x
    <2> QED
      BY <1>1, <1>11, <2>2, <2>3, SizeAssumption
  <1> QED
    BY <1>3, <1>10, <1>11, <1>12 DEF w, room

(* Five or six objects with room for each of them and its rounding.          *)
LEMMA FiveFit ==
    ASSUME NEW s, IsSpace(s), NEW a1 \in Nat, NEW a2 \in Nat, NEW a3 \in Nat, NEW a4 \in Nat, NEW a5 \in Nat,
           a1 + a2 + a3 + a4 + a5 + 5 * (ALIGNMENT - 1) <= Free(s)
    PROVE  AllocAll(s, <<a1, a2, a3, a4, a5>>).ok
  <1> DEFINE sizes == <<a1, a2, a3, a4, a5>>
             pad == ALIGNMENT - 1
             room == [q \in 0 .. 5 |-> IF q = 5 THEN 0 ELSE IF q = 4 THEN a5 + pad
                        ELSE IF q = 3 THEN a5 + a4 + 2 * pad ELSE IF q = 2 THEN a5 + a4 + a3 + 3 * pad
                        ELSE IF q = 1 THEN a5 + a4 + a3 + a2 + 4 * pad
                        ELSE a5 + a4 + a3 + a2 + a1 + 5 * pad]
  <1>1. pad \in Nat
    BY SizeAssumption
  <1>2. sizes \in Seq(Nat) /\ Len(sizes) = 5
    OBVIOUS
  <1>3. room \in [0 .. 5 -> Nat]
    BY <1>1
  <1>4. room[0] <= Free(s)
    BY <1>1
  <1>5. \A q \in 1 .. 5 : sizes[q] + pad + room[q] <= room[q - 1]
    BY <1>1
  <1> HIDE DEF sizes, room
  <1> QED
    BY <1>2, <1>3, <1>4, <1>5, AllocAllKeeps DEF pad, sizes

(* The six objects of a batch of Pippenger's algorithm fit a room that their  *)
(* sizes and the rounding of each do not exceed.                             *)
LEMMA SixFit ==
    ASSUME NEW s, IsSpace(s), NEW a1 \in Nat, NEW a2 \in Nat, NEW a3 \in Nat, NEW a4 \in Nat, NEW a5 \in Nat,
           NEW a6 \in Nat, a1 + a2 + a3 + a4 + a5 + a6 + 6 * (ALIGNMENT - 1) <= Free(s)
    PROVE  AllocAll(s, <<a1, a2, a3, a4, a5, a6>>).ok
  <1> DEFINE sizes == <<a1, a2, a3, a4, a5, a6>>
             pad == ALIGNMENT - 1
             room == [q \in 0 .. 6 |-> IF q = 6 THEN 0 ELSE IF q = 5 THEN a6 + pad
                        ELSE IF q = 4 THEN a6 + a5 + 2 * pad ELSE IF q = 3 THEN a6 + a5 + a4 + 3 * pad
                        ELSE IF q = 2 THEN a6 + a5 + a4 + a3 + 4 * pad
                        ELSE IF q = 1 THEN a6 + a5 + a4 + a3 + a2 + 5 * pad
                        ELSE a6 + a5 + a4 + a3 + a2 + a1 + 6 * pad]
  <1>1. pad \in Nat
    BY SizeAssumption
  <1>2. sizes \in Seq(Nat) /\ Len(sizes) = 6
    OBVIOUS
  <1>3. room \in [0 .. 6 -> Nat]
    BY <1>1
  <1>4. room[0] <= Free(s)
    BY <1>1
  <1>5. \A q \in 1 .. 6 : sizes[q] + pad + room[q] <= room[q - 1]
    BY <1>1
  <1> HIDE DEF sizes, room
  <1> QED
    BY <1>2, <1>3, <1>4, <1>5, AllocAllKeeps DEF pad, sizes

(* Every batch of Pippenger's algorithm up to the maximum fits.              *)
LEMMA PippengerFits ==
    ASSUME ParametersAssumption, NEW s, IsSpace(s), NEW m \in 1 .. pippenger_max_points(s)
    PROVE  PippengerObjects(m) \in Seq(Nat) /\ AllocAll(s, PippengerObjects(m)).ok
  <1> DEFINE w == pippenger_bucket_window(m)
             room == scratch_max_allocation(s, PIPPENGER_SCRATCH_OBJECTS)
             e == 2 * m + 2  digits == WNAF_SIZE(w + 1)  buckets == 2 ^ w
             a1 == e * sizeof_ge  a2 == e * sizeof_scalar  a3 == sizeof_pippenger_state
             a4 == e * sizeof_pippenger_point_state  a5 == e * digits * sizeof_int  a6 == buckets * sizeof_gej
  <1>1. /\ w \in 1 .. 12 /\ room \in Nat \ {0} /\ m \in Nat
        /\ m * (2 * EntrySize(w)) + Overhead(w) <= room
    BY PippengerRoom
  <1>2. room + 6 * (ALIGNMENT - 1) <= Free(s)
    <2>1. 6 \in Nat
      OBVIOUS
    <2>2. scratch_max_allocation(s, 6) > 0 => scratch_max_allocation(s, 6) + 6 * (ALIGNMENT - 1) <= Free(s)
      BY <2>1, RoomIs
    <2> QED
      BY <1>1, <2>2 DEF PIPPENGER_SCRATCH_OBJECTS
  <1>3. PippengerObjects(m) = <<a1, a2, a3, a4, a5, a6>>
    BY DEF PippengerObjects
  <1>4. /\ sizeof_ge \in Nat /\ sizeof_scalar \in Nat /\ sizeof_pippenger_state \in Nat
        /\ sizeof_pippenger_point_state \in Nat /\ sizeof_int \in Nat /\ sizeof_gej \in Nat
    BY SizesAre
  <1> HIDE DEF w, room
  <1>5. digits \in Nat /\ buckets \in Nat /\ e \in Nat
    <2>1. digits \in Nat \ {0} /\ buckets \in Nat \ {0}
      BY <1>1, SizesAre
    <2> QED
      BY <1>1, <2>1
  <1> DEFINE entry == EntrySize(w)
  <1>6. /\ entry = sizeof_ge + sizeof_scalar + sizeof_pippenger_point_state + (digits + 1) * sizeof_int
        /\ Overhead(w) = sizeof_gej * buckets + 2 * entry + sizeof_pippenger_state
    BY DEF EntrySize, Overhead
  <1>7. e = 2 * m + 2
    OBVIOUS
  <1> HIDE DEF digits, buckets, e, entry
  <1>8. e * entry = a1 + a2 + a4 + a5 + e * sizeof_int
    BY <1>4, <1>5, <1>6, Z3
  <1>9. entry \in Nat
    <2>1. (digits + 1) * sizeof_int \in Nat
      BY <1>4, <1>5, Z3
    <2> QED
      BY <1>4, <1>6, <2>1
  <1>10. m * (2 * entry) + 2 * entry = e * entry
    BY <1>1, <1>7, <1>9, Z3
  <1>11. a1 \in Nat /\ a2 \in Nat /\ a4 \in Nat /\ a5 \in Nat /\ a6 \in Nat /\ e * sizeof_int \in Nat
         /\ a6 = sizeof_gej * buckets
    BY <1>4, <1>5, Z3
  <1>12. m * (2 * entry) + Overhead(w) = a1 + a2 + a4 + a5 + e * sizeof_int + a6 + a3
    <2> DEFINE x == m * (2 * entry)  y == e * sizeof_int  z == e * entry
    <2>1. x \in Nat /\ y \in Nat /\ z \in Nat
      BY <1>1, <1>5, <1>9, <1>11, Z3
    <2>2. x + 2 * entry = z /\ z = a1 + a2 + a4 + a5 + y
      BY <1>8, <1>10
    <2>3. Overhead(w) = a6 + 2 * entry + a3
      BY <1>6, <1>11
    <2> HIDE DEF x, y, z, a1, a2, a4, a5, a6
    <2>4. x + Overhead(w) = a1 + a2 + a4 + a5 + y + a6 + a3
      BY <1>4, <1>9, <1>11, <2>1, <2>2, <2>3
    <2> QED
      BY <2>4 DEF x, y
  <1> DEFINE x == m * (2 * entry)  y == e * sizeof_int  over == Overhead(w)
  <1>13. x + over <= room /\ x + over = a1 + a2 + a4 + a5 + y + a6 + a3 /\ y \in Nat
    BY <1>1, <1>11, <1>12 DEF entry
  <1>14. a3 \in Nat
    BY <1>4
  <1> HIDE DEF x, y, over, a1, a2, a3, a4, a5, a6
  <1>15. a1 + a2 + a3 + a4 + a5 + a6 + 6 * (ALIGNMENT - 1) <= Free(s)
    <2>1. Free(s) \in Int /\ ALIGNMENT \in Nat
      BY SizeAssumption DEF IsSpace, Scratches, Sizes, Free
    <2>2. a1 + a2 + a4 + a5 + y + a6 + a3 <= room
      BY <1>13
    <2> QED
      BY <1>1, <1>2, <1>11, <1>13, <1>14, <2>1, <2>2
  <1>16. <<a1, a2, a3, a4, a5, a6>> \in Seq(Nat)
    BY <1>11, <1>14
  <1> QED
    BY <1>3, <1>11, <1>14, <1>15, <1>16, SixFit

(* And every batch of Strauss' algorithm.                                    *)
LEMMA StraussFits ==
    ASSUME ParametersAssumption, NEW s, IsSpace(s), NEW m \in 1 .. strauss_max_points(s)
    PROVE  m \in Nat /\ StraussObjects(m) \in Seq(Nat) /\ AllocAll(s, StraussObjects(m)).ok
  <1> DEFINE room == scratch_max_allocation(s, STRAUSS_SCRATCH_OBJECTS)
             point == strauss_scratch_size(1)
             most == room \div point
             a1 == m * sizeof_gej  a2 == m * sizeof_scalar  a3 == m * TableSize * sizeof_fe
             a4 == m * TableSize * sizeof_ge  a5 == m * sizeof_strauss_point_state
  <1>1. /\ sizeof_ge \in Nat /\ sizeof_scalar \in Nat \ {0} /\ sizeof_fe \in Nat /\ TableSize \in Nat
        /\ sizeof_strauss_point_state \in Nat /\ sizeof_gej \in Nat
    BY SizesAre
  <1>2. room \in 0 .. SIZE_MAX /\ (room > 0 => room + 5 * (ALIGNMENT - 1) <= Free(s))
    <2>1. 5 \in Nat
      OBVIOUS
    <2>2. LET q == scratch_max_allocation(s, 5) IN
            q \in 0 .. SIZE_MAX /\ (q > 0 => q + 5 * (ALIGNMENT - 1) <= Free(s))
      BY <2>1, RoomIs
    <2> QED
      BY <2>2 DEF STRAUSS_SCRATCH_OBJECTS
  <1>3. StraussObjects(m) = <<a1, a2, a3, a4, a5>>
    BY DEF StraussObjects
  <1>4. point \in Nat \ {0} /\ point = (sizeof_ge + sizeof_fe) * TableSize + sizeof_strauss_point_state
                                         + sizeof_gej + sizeof_scalar
    <2> DEFINE q == (sizeof_ge + sizeof_fe) * TableSize
    <2>1. q \in Nat
      BY <1>1, Z3
    <2>2. point = 1 * (q + sizeof_strauss_point_state + sizeof_gej + sizeof_scalar)
      BY DEF strauss_scratch_size
    <2> HIDE DEF q, point
    <2>3. point = q + sizeof_strauss_point_state + sizeof_gej + sizeof_scalar /\ point \in Nat \ {0}
      BY <1>1, <2>1, <2>2
    <2> QED
      BY <2>3 DEF q
  <1>5. strauss_max_points(s) = most
    BY DEF strauss_max_points
  <1> HIDE DEF room, point
  <1>6. room \in Nat /\ room <= SIZE_MAX
    BY <1>2, SizeAssumption
  <1>7. most \in Nat /\ room % point \in Nat /\ room = point * most + (room % point)
    <2>1. room \in Nat /\ point \in Nat \ {0}
      BY <1>4, <1>6
    <2>2. most \in Nat /\ room % point \in 0 .. point - 1 /\ room = point * most + (room % point)
      BY ONLY <2>1, DivMod
    <2>3. \A x \in 0 .. point - 1 : x \in Nat
      BY <2>1
    <2> QED
      BY ONLY <2>2, <2>3
  <1> HIDE DEF most
  <1>8. m \in Nat \ {0} /\ m <= most
    BY <1>5, <1>7
  <1>9. m * point <= room /\ m * point \in Nat \ {0}
    <2> DEFINE taken == point * most  rest == room % point
    <2>1. m * point <= taken /\ taken \in Nat /\ m * point \in Nat \ {0}
      BY <1>4, <1>7, <1>8, Z3
    <2>2. room = taken + rest /\ rest \in Nat
      BY <1>7
    <2> HIDE DEF taken, rest
    <2> QED
      BY <2>1, <2>2
  <1>10. /\ a1 \in Nat /\ a2 \in Nat /\ a3 \in Nat /\ a4 \in Nat /\ a5 \in Nat
         /\ m * point = a1 + a2 + a3 + a4 + a5
    BY <1>1, <1>4, <1>8, Z3
  <1> DEFINE all == m * point
  <1>11. all <= room /\ all \in Nat \ {0} /\ all = a1 + a2 + a3 + a4 + a5
    BY <1>9, <1>10
  <1> HIDE DEF all, a1, a2, a3, a4, a5
  <1>12. a1 + a2 + a3 + a4 + a5 + 5 * (ALIGNMENT - 1) <= Free(s)
    <2>1. Free(s) \in Int /\ ALIGNMENT \in Nat
      BY SizeAssumption DEF IsSpace, Scratches, Sizes, Free
    <2> QED
      BY <1>2, <1>6, <1>10, <1>11, <2>1
  <1>13. <<a1, a2, a3, a4, a5>> \in Seq(Nat)
    BY <1>10
  <1> QED
    BY <1>3, <1>8, <1>10, <1>12, <1>13, FiveFit

(* The most points of one batch, for the algorithm a.                        *)
MaxPointsOf(a, s) == IF a = "strauss" THEN strauss_max_points(s) ELSE pippenger_max_points(s)

(* The two maxima are numbers.                                               *)
LEMMA MaxPointsAre ==
    ASSUME ParametersAssumption, NEW s, IsSpace(s)
    PROVE  strauss_max_points(s) \in Nat /\ pippenger_max_points(s) \in Nat
  <1>1. strauss_max_points(s) \in Nat
    <2> DEFINE room == scratch_max_allocation(s, 5)
               point == strauss_scratch_size(1)
               q == (sizeof_ge + sizeof_fe) * TableSize
    <2>1. /\ sizeof_ge \in Nat /\ sizeof_scalar \in Nat \ {0} /\ sizeof_fe \in Nat /\ TableSize \in Nat
          /\ sizeof_strauss_point_state \in Nat /\ sizeof_gej \in Nat
      BY SizesAre
    <2>2. q \in Nat
      BY <2>1, Z3
    <2>3. point = 1 * (q + sizeof_strauss_point_state + sizeof_gej + sizeof_scalar)
      BY DEF strauss_scratch_size
    <2> HIDE DEF q, point
    <2>4. point \in Nat \ {0}
      BY <2>1, <2>2, <2>3
    <2>5. 5 \in Nat
      OBVIOUS
    <2>6. room \in 0 .. SIZE_MAX
      BY <2>5, RoomIs
    <2>7. strauss_max_points(s) = room \div point
      BY DEF strauss_max_points, point, STRAUSS_SCRATCH_OBJECTS
    <2> HIDE DEF room
    <2>8. room \in Nat
      BY <2>6, SizeAssumption
    <2>9. room \div point \in Nat
      BY <2>4, <2>8, DivMod
    <2> QED
      BY <2>7, <2>9
  <1>2. pippenger_max_points(s) \in Nat
    BY PippengerMax
  <1> QED
    BY <1>1, <1>2

(* A batch up to the maximum is granted, of either algorithm.                *)
LEMMA BatchFits ==
    ASSUME ParametersAssumption, NEW s, IsSpace(s), NEW a, NEW m \in 1 .. MaxPointsOf(a, s)
    PROVE  Objects(a, m) \in Seq(Nat) /\ AllocAll(s, Objects(a, m)).ok /\ Grown(s, AllocAll(s, Objects(a, m)).s)
  <1>1. Objects(a, m) \in Seq(Nat) /\ AllocAll(s, Objects(a, m)).ok
    <2>1. CASE a = "strauss"
      <3>1. m \in 1 .. strauss_max_points(s)
        BY <2>1 DEF MaxPointsOf
      <3> QED
        BY <2>1, <3>1, StraussFits DEF Objects
    <2>2. CASE a # "strauss"
      <3>1. m \in 1 .. pippenger_max_points(s)
        BY <2>2 DEF MaxPointsOf
      <3> QED
        BY <2>2, <3>1, PippengerFits DEF Objects
    <2> QED
      BY <2>1, <2>2
  <1> DEFINE o == Objects(a, m)
  <1> HIDE DEF o
  <1>2. Grown(s, AllocAll(s, o).s)
    BY <1>1, AllocAllKeeps DEF o
  <1> QED
    BY <1>1, <1>2 DEF o

-----------------------------------------------------------------------------
(* The terms 0 .. m - 1.                                                     *)
FirstTerms(m) == [k \in 1 .. m |-> k - 1]
TermsFrom(start, m) == [k \in 1 .. m |-> start + (k - 1)]

(* Lists of terms, put together.                                             *)
LEMMA TermsJoin ==
    ASSUME NEW start \in Nat, NEW m \in Nat
    PROVE  /\ FirstTerms(start) \o TermsFrom(start, m) = FirstTerms(start + m)
           /\ FirstTerms(0) = <<>> /\ TermsFrom(start, 0) = <<>>
           /\ TermsFrom(start, m) \o <<m + start>> = TermsFrom(start, m + 1)
           /\ FirstTerms(m) \o <<m>> = FirstTerms(m + 1)
  <1>1. /\ FirstTerms(start) \in Seq(Nat) /\ Len(FirstTerms(start)) = start
        /\ FirstTerms(m) \in Seq(Nat) /\ Len(FirstTerms(m)) = m
        /\ TermsFrom(start, m) \in Seq(Nat) /\ Len(TermsFrom(start, m)) = m
    BY DEF FirstTerms, TermsFrom
  <1>2. FirstTerms(start) \o TermsFrom(start, m) = FirstTerms(start + m)
    BY <1>1 DEF FirstTerms, TermsFrom
  <1>3. TermsFrom(start, m) \o <<m + start>> = TermsFrom(start, m + 1)
    BY <1>1 DEF TermsFrom
  <1>4. FirstTerms(m) \o <<m>> = FirstTerms(m + 1)
    BY <1>1 DEF FirstTerms
  <1>5. FirstTerms(0) = <<>> /\ TermsFrom(start, 0) = <<>>
    BY DEF FirstTerms, TermsFrom
  <1> QED
    BY <1>2, <1>3, <1>4, <1>5

(* The space without the running batch.                                      *)
Base == [magic |-> "scratch", max_size |-> scratch.max_size, alloc_size |-> held]

(* Between the batches of a call, and within one: the plan is enough and not *)
(* too much for n points, and i full batches have been summed.               *)
PlanSound ==
    /\ alg \in {"strauss", "pippenger"} /\ IsSpace(scratch) /\ n \in Nat \ {0}
    /\ plan.batches \in Nat \ {0} /\ plan.points \in Nat \ {0}
    /\ plan.points <= MaxPointsOf(alg, Base)
    /\ (plan.batches - 1) * plan.points < n /\ n <= plan.batches * plan.points

Progress ==
    /\ i \in 0 .. plan.batches
    /\ left = IF i = plan.batches THEN 0 ELSE n - plan.points * i
    /\ r = Sum(FirstTerms(n - left), IF i = 0 THEN 0 ELSE GTerm)
    /\ ~refused

InBatch ==
    /\ i < plan.batches /\ checkpoint = held /\ point_idx \in 0 .. nbp
    /\ tmp = Sum(TermsFrom(offset, point_idx), IF i = 0 THEN GTerm ELSE 0)

SpaceSound ==
    /\ scratch = NoSpace \/ IsSpace(scratch)
    /\ n \in Sizes /\ held \in Sizes /\ g \in BOOLEAN
    /\ scratch.alloc_size >= held
    /\ pc \in {"idle", "batch", "done"} => scratch.alloc_size = held

MultiInv ==
    /\ SpaceSound
    /\ pc \in {"idle", "points", "batch", "done"}
    /\ pc = "idle" => i = 0 /\ point_idx = 0 /\ ~refused
    /\ pc = "points" /\ alg = "simple" =>
          scratch.alloc_size = held /\ point_idx \in 0 .. n /\ r = Sum(FirstTerms(point_idx), GTerm) /\ ~refused
    /\ pc = "points" /\ alg # "simple" => PlanSound /\ Progress /\ InBatch
    /\ pc = "batch" => PlanSound /\ Progress
    /\ pc = "done" => (ret = 0 <=> refused) /\ (ret = 1 => r = Sum(FirstTerms(n), GTerm))
    /\ pc = "done" => ret \in {0, 1}

(* Before the first call the space is the caller's.                          *)
LEMMA MultiInitInv == ASSUME ParametersAssumption, MultiInit PROVE MultiInv
  <1>1. scratch = NoSpace \/ IsSpace(scratch)
    <2>1. CASE scratch = NoSpace
      BY <2>1
    <2>2. CASE scratch # NoSpace
      <3>1. PICK size \in ScratchSizes, used \in InUse :
                scratch = [scratch_create(size) EXCEPT !.alloc_size = used] /\ scratch.alloc_size <= scratch.max_size
        BY <2>2 DEF MultiInit
      <3>2. size \in Sizes /\ used \in Sizes
        BY DEF ParametersAssumption
      <3>3. CASE size > SIZE_MAX - Header
        <4>1. scratch = [magic |-> "none", max_size |-> 0, alloc_size |-> used]
          BY <3>1, <3>3 DEF scratch_create, NoSpace
        <4>2. used <= 0
          BY <3>1, <4>1
        <4>3. used = 0
          BY <3>2, <4>2 DEF Sizes
        <4> QED
          BY <4>1, <4>3 DEF NoSpace
      <3>4. CASE ~(size > SIZE_MAX - Header)
        <4>1. scratch = [magic |-> "scratch", max_size |-> size, alloc_size |-> used]
          BY <3>1, <3>4 DEF scratch_create
        <4>2. used <= size
          BY <3>1, <4>1
        <4> QED
          BY <3>2, <4>1, <4>2 DEF IsSpace, Scratches, Valid
      <3> QED
        BY <3>3, <3>4
    <2> QED
      BY <2>1, <2>2
  <1>2. n \in Sizes /\ g \in BOOLEAN
    BY DEF MultiInit, ParametersAssumption
  <1>3. scratch.alloc_size \in Sizes
    BY <1>1, SizeAssumption DEF IsSpace, Scratches, NoSpace, Sizes
  <1>4. /\ pc = "idle" /\ alg = "none" /\ i = 0 /\ point_idx = 0 /\ refused = FALSE /\ held = scratch.alloc_size
    BY DEF MultiInit
  <1>5. scratch.alloc_size >= held
    BY <1>3, <1>4, SizeAssumption DEF Sizes
  <1>6. SpaceSound
    BY <1>1, <1>2, <1>3, <1>4, <1>5 DEF SpaceSound
  <1> QED
    BY <1>4, <1>6 DEF MultiInv

(* The choice: a plan for the points, whenever there is one.                 *)
LEMMA ChosenIs ==
    ASSUME ParametersAssumption, scratch = NoSpace \/ IsSpace(scratch), n \in Nat \ {0}, n \in Sizes
    PROVE  \/ Chosen.alg = "simple"
           \/ LET p == Chosen.plan IN
              /\ Chosen.alg \in {"strauss", "pippenger"} /\ IsSpace(scratch)
              /\ p.batches \in Nat \ {0} /\ p.points \in Nat \ {0}
              /\ p.points <= MaxPointsOf(Chosen.alg, scratch)
              /\ (p.batches - 1) * p.points < n /\ n <= p.batches * p.points
  <1> DEFINE most == pippenger_max_points(scratch)
             pippenger == batch_size_helper(most, n)
             most2 == strauss_max_points(scratch)
             strauss == batch_size_helper(most2, n)
             Good(p, max) ==
                 /\ p.batches \in Nat \ {0} /\ p.points \in Nat \ {0} /\ p.points <= max
                 /\ (p.batches - 1) * p.points < n /\ n <= p.batches * p.points
  <1>1. n \in 1 .. SIZE_MAX
    BY DEF Sizes
  <1>2. CASE scratch = NoSpace \/ most = 0
    <2>1. Chosen = [alg |-> "simple", plan |-> NoPlan]
      BY <1>2 DEF Chosen
    <2> QED
      BY <2>1
  <1>3. CASE ~(scratch = NoSpace \/ most = 0)
    <2>1. IsSpace(scratch) /\ most \in Nat \ {0} /\ most2 \in Nat
      BY <1>3, MaxPointsAre
    <2>2. Chosen = IF pippenger.points >= ECMULT_PIPPENGER_THRESHOLD
                   THEN [alg |-> "pippenger", plan |-> pippenger]
                   ELSE IF most2 = 0 THEN [alg |-> "simple", plan |-> NoPlan]
                   ELSE [alg |-> "strauss", plan |-> strauss]
      BY <1>3 DEF Chosen
    <2> HIDE DEF most, most2
    <2>3. Good(pippenger, most)
      BY <1>1, <2>1, PlanIs
    <2>4. most2 # 0 => Good(strauss, most2)
      BY <1>1, <2>1, PlanIs
    <2> HIDE DEF pippenger, strauss, Good
    <2>5. CASE pippenger.points >= ECMULT_PIPPENGER_THRESHOLD
      <3>1. Chosen.alg = "pippenger" /\ Chosen.plan = pippenger
        BY <2>2, <2>5
      <3>2. MaxPointsOf(Chosen.alg, scratch) = most
        BY <3>1 DEF MaxPointsOf, most
      <3> QED
        BY <2>1, <2>3, <3>1, <3>2 DEF Good
    <2>6. CASE ~(pippenger.points >= ECMULT_PIPPENGER_THRESHOLD) /\ most2 = 0
      BY <2>2, <2>6
    <2>7. CASE ~(pippenger.points >= ECMULT_PIPPENGER_THRESHOLD) /\ most2 # 0
      <3>1. Chosen.alg = "strauss" /\ Chosen.plan = strauss
        BY <2>2, <2>7
      <3>2. MaxPointsOf(Chosen.alg, scratch) = most2
        BY <3>1 DEF MaxPointsOf, most2
      <3> QED
        BY <2>1, <2>4, <2>7, <3>1, <3>2 DEF Good
    <2> QED
      BY <2>5, <2>6, <2>7
  <1> QED
    BY <1>2, <1>3

(* A space with what the caller held is the base of its batches.             *)
LEMMA BaseIs ==
    ASSUME IsSpace(scratch), scratch.alloc_size = held
    PROVE  Base = scratch
  BY DEF Base, IsSpace, Scratches, Valid

(* The choice leaves a plan for all points, or the loop without batches.     *)
LEMMA StartKeeps ==
    ASSUME ParametersAssumption, MultiInv, Start
    PROVE  MultiInv'
  <1>1. /\ pc = "idle" /\ n > 0 /\ alg' = Chosen.alg /\ plan' = Chosen.plan /\ left' = n
        /\ UNCHANGED <<scratch, n, g, held, i, point_idx, checkpoint, tmp, ret, refused>>
    BY DEF Start, args
  <1>2. SpaceSound /\ i = 0 /\ point_idx = 0 /\ ~refused
    BY <1>1 DEF MultiInv
  <1>3. n \in Nat \ {0} /\ n \in Sizes /\ scratch.alloc_size = held
    BY <1>1, <1>2 DEF SpaceSound, Sizes
  <1>4. pc' \in {"points", "batch"} /\ (pc' = "points" <=> alg' = "simple")
    BY DEF Start
  <1>5. SpaceSound'
    BY <1>1, <1>2, <1>3, <1>4 DEF SpaceSound
  <1>6. CASE alg' = "simple"
    <2>1. pc' = "points" /\ r' = Sum(<<>>, GTerm)
      BY <1>6 DEF Start
    <2>2. FirstTerms(0) = <<>> /\ GTerm' = GTerm
      BY <1>1, TermsJoin DEF GTerm
    <2>3. scratch'.alloc_size = held' /\ point_idx' \in 0 .. n' /\ r' = Sum(FirstTerms(point_idx'), GTerm') /\ ~refused'
      BY <1>1, <1>2, <1>3, <2>1, <2>2
    <2> QED
      BY <1>5, <1>6, <2>1, <2>3 DEF MultiInv
  <1>7. CASE alg' # "simple"
    <2>1. pc' = "batch" /\ r' = Zero
      BY <1>7 DEF Start
    <2>2. /\ alg' \in {"strauss", "pippenger"} /\ IsSpace(scratch)
          /\ plan'.batches \in Nat \ {0} /\ plan'.points \in Nat \ {0}
          /\ plan'.points <= MaxPointsOf(alg', scratch)
          /\ (plan'.batches - 1) * plan'.points < n /\ n <= plan'.batches * plan'.points
      BY <1>1, <1>2, <1>3, <1>7, ChosenIs DEF SpaceSound
    <2>3. Base' = Base /\ Base = scratch
      BY <1>1, <1>3, <2>2, BaseIs DEF Base
    <2>4. PlanSound'
      BY <1>1, <1>3, <2>2, <2>3 DEF PlanSound
    <2>5. Progress'
      <3>1. i' = 0 /\ i' \in 0 .. plan'.batches /\ i' # plan'.batches
        BY <1>1, <1>2, <2>2
      <3>2. plan'.points * i' = 0
        BY <2>2, <3>1
      <3>3. left' = n' - plan'.points * i' /\ n' - left' = 0
        BY <1>1, <1>3, <3>2
      <3>4. r' = Sum(FirstTerms(n' - left'), 0)
        BY <2>1, <3>3, TermsJoin DEF Zero
      <3> QED
        BY <1>1, <1>2, <3>1, <3>3, <3>4 DEF Progress
    <2> QED
      BY <1>5, <2>1, <2>4, <2>5 DEF MultiInv
  <1> QED
    BY <1>6, <1>7

(* Nothing to sum but G.                                                     *)
LEMMA StartEmptyKeeps ==
    ASSUME MultiInv, StartEmpty
    PROVE  MultiInv'
  <1>1. /\ pc = "idle" /\ n = 0 /\ pc' = "done" /\ ret' = 1 /\ r' = Sum(<<>>, GTerm)
        /\ UNCHANGED <<scratch, n, g, held, refused>>
    BY DEF StartEmpty, args
  <1>2. SpaceSound /\ ~refused
    BY <1>1 DEF MultiInv
  <1>3. SpaceSound'
    BY <1>1, <1>2 DEF SpaceSound
  <1>4. r' = Sum(FirstTerms(n'), GTerm')
    BY <1>1, TermsJoin DEF GTerm
  <1> QED
    BY <1>1, <1>2, <1>3, <1>4 DEF MultiInv

(* One term after the other, without batches.                                *)
LEMMA SimplePointKeeps ==
    ASSUME MultiInv, NEW ok \in BOOLEAN, SimplePoint(ok)
    PROVE  MultiInv'
  <1>1. /\ pc = "points" /\ alg = "simple" /\ point_idx < n
        /\ UNCHANGED <<scratch, n, g, held, alg>>
    BY DEF SimplePoint, args
  <1>2. /\ SpaceSound /\ point_idx \in 0 .. n /\ r = Sum(FirstTerms(point_idx), GTerm) /\ ~refused
        /\ scratch.alloc_size = held
    BY <1>1 DEF MultiInv
  <1>3. SpaceSound' /\ GTerm' = GTerm /\ GTerm \in Nat /\ n \in Nat
    BY <1>1, <1>2 DEF SpaceSound, Sizes, GTerm
  <1>4. CASE ok
    <2>1. /\ pc' = "points" /\ point_idx' = point_idx + 1 /\ refused' = refused
          /\ r' = Plus(r, Sum(<<point_idx>>, 0))
      BY <1>1, <1>4 DEF SimplePoint
    <2>2. FirstTerms(point_idx) \o <<point_idx>> = FirstTerms(point_idx + 1)
      <3>1. point_idx \in Nat
        BY <1>2
      <3> QED
        BY <3>1, TermsJoin
    <2>3. r' = Sum(FirstTerms(point_idx'), GTerm')
      BY <1>2, <1>3, <2>1, <2>2 DEF Plus, Sum
    <2>4. point_idx' \in 0 .. n'
      BY <1>1, <1>2, <1>3, <2>1
    <2> QED
      BY <1>1, <1>2, <1>3, <2>1, <2>3, <2>4 DEF MultiInv
  <1>5. CASE ~ok
    <2>1. pc' = "done" /\ ret' = 0 /\ refused' = TRUE
      BY <1>5 DEF SimplePoint
    <2>2. SpaceSound'
      BY <1>1, <1>2 DEF SpaceSound
    <2> QED
      BY <2>1, <2>2 DEF MultiInv
  <1> QED
    BY <1>4, <1>5

(* All terms are summed, without batches.                                    *)
LEMMA SimpleEndKeeps ==
    ASSUME MultiInv, SimpleEnd
    PROVE  MultiInv'
  <1>1. /\ pc = "points" /\ alg = "simple" /\ point_idx = n /\ pc' = "done" /\ ret' = 1
        /\ UNCHANGED <<scratch, n, g, held, r, refused>>
    BY DEF SimpleEnd, args
  <1>2. /\ SpaceSound /\ r = Sum(FirstTerms(point_idx), GTerm) /\ ~refused
        /\ scratch.alloc_size = held
    BY <1>1 DEF MultiInv
  <1>3. SpaceSound' /\ GTerm' = GTerm
    BY <1>1, <1>2 DEF SpaceSound, GTerm
  <1> QED
    BY <1>1, <1>2, <1>3 DEF MultiInv

-----------------------------------------------------------------------------
(* Where the batches stand: batch i starts at the first term not summed yet, *)
(* it is not empty, and after it comes the next one, or the end.             *)
LEMMA ProgressIs ==
    ASSUME PlanSound, Progress, i < plan.batches
    PROVE  /\ i \in Nat /\ offset \in Nat /\ nbp \in 1 .. plan.points
           /\ left = n - offset /\ n - left = offset /\ offset + nbp <= n
           /\ left - nbp = IF i + 1 = plan.batches THEN 0 ELSE n - plan.points * (i + 1)
           /\ n - (left - nbp) = offset + nbp
  <1> DEFINE b == plan.batches  p == plan.points  e == b - 1
             done == p * i  next == p * (i + 1)
  <1>1. /\ b \in Nat \ {0} /\ p \in Nat \ {0} /\ n \in Nat \ {0} /\ e * p < n /\ n <= b * p
        /\ i \in Nat /\ i < b /\ left = n - done
    BY DEF PlanSound, Progress
  <1>2. offset = done /\ nbp = MinOf(left, p)
    BY DEF offset, nbp
  <1>3. e \in Nat /\ i <= e /\ (i + 1 = b <=> i = e) /\ (i + 1 # b => i + 1 <= e)
    BY <1>1
  <1> HIDE DEF e
  <1>4. /\ done \in Nat /\ next \in Nat /\ next = done + p
        /\ done <= e * p /\ e * p \in Nat
        /\ (i = e => done = e * p)
        /\ (i + 1 <= e => next <= e * p)
    <2>5. p \in Nat /\ i \in Nat /\ e \in Nat
      BY <1>1, <1>3
    <2> HIDE DEF p
    <2>6. done \in Nat
      BY <2>5, Z3
    <2>7. e * p \in Nat
      BY <2>5, Z3
    <2>8. next = done + p
      BY <2>5, Z3
    <2>1. done \in Nat /\ next \in Nat /\ next = done + p /\ e * p \in Nat
      <3> HIDE DEF done, next
      <3> QED
        BY <2>5, <2>6, <2>7, <2>8
    <2>2. i * p <= e * p /\ i * p = done
      BY <1>1, <1>3, Z3
    <2>3. i = e => done = e * p
      BY <2>2
    <2>4. ASSUME i + 1 <= e PROVE next <= e * p
      <3> DEFINE f == i + 1
      <3>1. f \in Nat /\ f <= e
        BY <1>1, <2>4
      <3> HIDE DEF f
      <3>2. f * p <= e * p /\ p * f = f * p
        BY <1>1, <1>3, <3>1, Z3
      <3> QED
        BY <3>2 DEF f
    <2> QED
      BY <2>1, <2>2, <2>3, <2>4
  <1>5. b * p = e * p + p
    BY <1>1, Z3 DEF e
  <1> DEFINE before == e * p
  <1>6. before \in Nat /\ before < n /\ n <= before + p /\ done <= before
        /\ (i + 1 = b => done = before) /\ (i + 1 # b => next <= before)
    BY <1>1, <1>3, <1>4, <1>5
  <1>7. done \in Nat /\ next \in Nat /\ next = done + p /\ left = n - done
    BY <1>1, <1>4
  <1> HIDE DEF before, done, next, p, b
  <1>8. nbp \in 1 .. p /\ done + nbp <= n /\ n - (left - nbp) = done + nbp
    BY <1>1, <1>2, <1>6, <1>7 DEF MinOf
  <1>9. CASE i + 1 = b
    <2>1. left <= p /\ nbp = left
      BY <1>1, <1>2, <1>6, <1>7, <1>9 DEF MinOf
    <2>2. left - nbp = 0
      BY <1>1, <1>7, <2>1
    <2> QED
      BY <1>1, <1>2, <1>7, <1>8, <1>9, <2>2 DEF b, p
  <1>10. CASE i + 1 # b
    <2>1. nbp = p
      BY <1>1, <1>2, <1>6, <1>7, <1>10 DEF MinOf
    <2>2. left - nbp = n - next
      BY <1>1, <1>7, <2>1
    <2> QED
      BY <1>1, <1>2, <1>7, <1>8, <1>10, <2>2 DEF b, p, next
  <1> QED
    BY <1>9, <1>10

(* The next batch: its size was chosen for the space, so it is granted.      *)
LEMMA BatchAllocKeeps ==
    ASSUME ParametersAssumption, MultiInv, BatchAlloc
    PROVE  MultiInv'
  <1> DEFINE a == AllocAll(scratch, Objects(alg, nbp))
  <1>1. /\ pc = "batch" /\ i < plan.batches /\ checkpoint' = scratch_checkpoint(scratch)
        /\ UNCHANGED <<n, g, held, alg, plan, i, left, r, refused>>
    BY DEF BatchAlloc, args
  <1>2. SpaceSound /\ PlanSound /\ Progress /\ scratch.alloc_size = held /\ IsSpace(scratch)
    BY <1>1 DEF MultiInv, SpaceSound, PlanSound
  <1>3. Base = scratch
    BY <1>2, BaseIs
  <1>4. nbp \in 1 .. plan.points /\ plan.points \in Nat /\ plan.points <= MaxPointsOf(alg, scratch)
        /\ MaxPointsOf(alg, scratch) \in Nat
    <2>1. plan.points \in Nat /\ plan.points <= MaxPointsOf(alg, scratch)
      BY <1>2, <1>3 DEF PlanSound
    <2>2. strauss_max_points(scratch) \in Nat /\ pippenger_max_points(scratch) \in Nat
      BY <1>2, MaxPointsAre
    <2>3. MaxPointsOf(alg, scratch) \in Nat
      BY <2>2 DEF MaxPointsOf
    <2> QED
      BY <1>1, <1>2, <2>1, <2>3, ProgressIs
  <1>5. nbp \in 1 .. MaxPointsOf(alg, scratch)
    BY <1>4
  <1>6. a.ok /\ Grown(scratch, a.s)
    BY <1>2, <1>5, BatchFits
  <1>7. /\ scratch' = a.s /\ tmp' = Sum(<<>>, IF i = 0 THEN GTerm ELSE 0)
        /\ point_idx' = 0 /\ pc' = "points"
    BY <1>6 DEF BatchAlloc
  <1> HIDE DEF a
  <1>8. /\ IsSpace(scratch') /\ scratch'.max_size = scratch.max_size
        /\ scratch'.alloc_size >= held
    BY <1>2, <1>6, <1>7 DEF Grown
  <1>9. SpaceSound'
    BY <1>1, <1>2, <1>7, <1>8 DEF SpaceSound
  <1>10. Base' = Base
    BY <1>1, <1>8 DEF Base
  <1>11. PlanSound'
    BY <1>1, <1>2, <1>8, <1>10 DEF PlanSound
  <1>12. Progress'
    BY <1>1, <1>2 DEF Progress, GTerm
  <1>13. InBatch'
    <2>1. checkpoint' = held
      BY <1>1, <1>2 DEF scratch_checkpoint, IsSpace, Valid
    <2>2. offset' = offset /\ nbp' = nbp /\ offset \in Nat /\ nbp \in Nat
      BY <1>1, <1>2, <1>4, ProgressIs DEF offset, nbp
    <2>3. TermsFrom(offset, 0) = <<>>
      BY DEF TermsFrom
    <2>4. tmp' = Sum(TermsFrom(offset', point_idx'), IF i' = 0 THEN GTerm' ELSE 0)
      BY <1>1, <1>7, <2>2, <2>3 DEF GTerm
    <2> QED
      BY <1>1, <1>7, <2>1, <2>2, <2>4 DEF InBatch
  <1>14. alg # "simple" /\ pc' = "points" /\ alg' # "simple"
    BY <1>1, <1>2, <1>7 DEF PlanSound
  <1> QED
    BY <1>9, <1>11, <1>12, <1>13, <1>14 DEF MultiInv

(* Giving the frames of a batch back leaves what the caller held.            *)
LEMMA GivenBack ==
    ASSUME IsSpace(scratch), held \in Sizes, scratch.alloc_size >= held
    PROVE  LET s == scratch_apply_checkpoint(scratch, held) IN
           IsSpace(s) /\ s.max_size = scratch.max_size /\ s.alloc_size = held
  <1>1. /\ scratch.magic = "scratch" /\ scratch.max_size \in Sizes /\ scratch.alloc_size \in Sizes
        /\ scratch.alloc_size <= scratch.max_size
        /\ scratch = [magic |-> "scratch", max_size |-> scratch.max_size, alloc_size |-> scratch.alloc_size]
    BY DEF IsSpace, Scratches, Valid
  <1>2. held <= scratch.max_size /\ held <= scratch.alloc_size
    BY <1>1, SizeAssumption DEF Sizes
  <1>3. scratch_apply_checkpoint(scratch, held)
          = [magic |-> "scratch", max_size |-> scratch.max_size, alloc_size |-> held]
    BY <1>1, <1>2 DEF scratch_apply_checkpoint, Valid
  <1> QED
    BY <1>1, <1>2, <1>3 DEF IsSpace, Scratches, Valid

(* The next term of a batch, or a callback that fails: what the batch took   *)
(* is given back.                                                            *)
LEMMA BatchPointKeeps ==
    ASSUME MultiInv, NEW ok \in BOOLEAN, BatchPoint(ok)
    PROVE  MultiInv'
  <1>1. /\ pc = "points" /\ alg # "simple" /\ point_idx < nbp
        /\ UNCHANGED <<n, g, held, alg, plan, i, left, checkpoint, r>>
    BY DEF BatchPoint, args
  <1>2. SpaceSound /\ PlanSound /\ Progress /\ InBatch /\ IsSpace(scratch)
    BY <1>1 DEF MultiInv, PlanSound
  <1>3. /\ checkpoint = held /\ i < plan.batches /\ point_idx \in Nat /\ GTerm' = GTerm /\ GTerm \in Nat
        /\ tmp = Sum(TermsFrom(offset, point_idx), IF i = 0 THEN GTerm ELSE 0)
    <2>1. i < plan.batches /\ checkpoint = held /\ point_idx \in 0 .. nbp
          /\ tmp = Sum(TermsFrom(offset, point_idx), IF i = 0 THEN GTerm ELSE 0)
      BY <1>2 DEF InBatch
    <2>2. nbp \in Nat
      <3>1. nbp \in 1 .. plan.points /\ plan.points \in Nat
        BY <1>2, <2>1, ProgressIs DEF PlanSound
      <3> QED
        BY <3>1
    <2> QED
      BY <1>1, <2>1, <2>2 DEF GTerm
  <1>4. offset' = offset /\ nbp' = nbp /\ offset \in Nat /\ nbp \in Nat
    <2>1. offset \in Nat /\ nbp \in 1 .. plan.points /\ plan.points \in Nat
      BY <1>2, <1>3, ProgressIs DEF PlanSound
    <2>2. offset' = offset /\ nbp' = nbp
      BY <1>1 DEF offset, nbp
    <2> QED
      BY <2>1, <2>2
  <1>5. CASE ok
    <2>1. /\ tmp' = Plus(tmp, Sum(<<point_idx + offset>>, 0)) /\ point_idx' = point_idx + 1
          /\ UNCHANGED <<scratch, pc, ret, refused>>
      BY <1>5 DEF BatchPoint
    <2>2. TermsFrom(offset, point_idx) \o <<point_idx + offset>> = TermsFrom(offset, point_idx + 1)
      BY <1>3, <1>4, TermsJoin
    <2> DEFINE gs == IF i = 0 THEN GTerm ELSE 0
    <2>3. gs \in Nat
      BY <1>3
    <2> HIDE DEF gs
    <2>4. tmp' = Sum(TermsFrom(offset, point_idx + 1), gs)
      <3>1. tmp = Sum(TermsFrom(offset, point_idx), gs)
        BY <1>3 DEF gs
      <3>2. tmp' = Sum(TermsFrom(offset, point_idx) \o <<point_idx + offset>>, gs + 0)
        BY <2>1, <3>1 DEF Plus, Sum
      <3>3. gs + 0 = gs
        BY <2>3
      <3> QED
        BY <2>2, <3>2, <3>3 DEF Sum
    <2>5. InBatch'
      <3>1. tmp' = Sum(TermsFrom(offset', point_idx'), IF i' = 0 THEN GTerm' ELSE 0)
        BY <1>1, <1>3, <1>4, <2>1, <2>4 DEF gs
      <3>2. point_idx' \in 0 .. nbp'
        BY <1>1, <1>3, <1>4, <2>1
      <3> QED
        BY <1>1, <1>3, <3>1, <3>2 DEF InBatch
    <2>6. SpaceSound'
      BY <1>1, <1>2, <2>1 DEF SpaceSound
    <2>7. PlanSound'
      BY <1>1, <1>2, <2>1 DEF PlanSound, Base
    <2>8. Progress'
      BY <1>1, <1>2, <2>1 DEF Progress, GTerm
    <2> QED
      BY <1>1, <2>1, <2>5, <2>6, <2>7, <2>8 DEF MultiInv
  <1>6. CASE ~ok
    <2>1. /\ scratch' = scratch_apply_checkpoint(scratch, held)
          /\ pc' = "done" /\ ret' = 0 /\ refused' = TRUE
      BY <1>3, <1>6 DEF BatchPoint
    <2>2. IsSpace(scratch') /\ scratch'.alloc_size = held
      BY <1>2, <2>1, GivenBack DEF SpaceSound
    <2>3. SpaceSound'
      BY <1>1, <1>2, <2>1, <2>2, SizeAssumption DEF SpaceSound, Sizes
    <2> QED
      BY <2>1, <2>3 DEF MultiInv
  <1> QED
    BY <1>5, <1>6

(* The sum of a batch joins the result, which then holds all its terms.      *)
LEMMA BatchEndKeeps ==
    ASSUME MultiInv, BatchEnd
    PROVE  MultiInv'
  <1>1. /\ pc = "points" /\ alg # "simple" /\ point_idx = nbp
        /\ scratch' = scratch_apply_checkpoint(scratch, checkpoint)
        /\ r' = Plus(r, tmp) /\ left' = left - nbp /\ i' = i + 1 /\ pc' = "batch"
        /\ UNCHANGED <<n, g, held, alg, plan, refused>>
    BY DEF BatchEnd, args
  <1>2. SpaceSound /\ PlanSound /\ Progress /\ InBatch /\ IsSpace(scratch)
    BY <1>1 DEF MultiInv, PlanSound
  <1>3. /\ i < plan.batches /\ checkpoint = held
        /\ tmp = Sum(TermsFrom(offset, nbp), IF i = 0 THEN GTerm ELSE 0)
    BY <1>1, <1>2 DEF InBatch
  <1>4. /\ i \in Nat /\ offset \in Nat /\ nbp \in 1 .. plan.points
        /\ n - left = offset
        /\ left - nbp = IF i + 1 = plan.batches THEN 0 ELSE n - plan.points * (i + 1)
        /\ n - (left - nbp) = offset + nbp
    BY <1>2, <1>3, ProgressIs
  <1>5. IsSpace(scratch') /\ scratch'.max_size = scratch.max_size /\ scratch'.alloc_size = held
    BY <1>1, <1>2, <1>3, GivenBack DEF SpaceSound
  <1>6. SpaceSound'
    BY <1>1, <1>2, <1>5, SizeAssumption DEF SpaceSound, Sizes
  <1>7. PlanSound'
    <2>1. Base' = Base
      BY <1>1, <1>5 DEF Base
    <2> QED
      BY <1>1, <1>2, <1>5, <2>1 DEF PlanSound
  <1>8. Progress'
    <2>1. i' \in 0 .. plan'.batches /\ i' # 0 /\ ~refused'
      BY <1>1, <1>2, <1>3, <1>4 DEF PlanSound, Progress
    <2>2. left' = IF i' = plan'.batches THEN 0 ELSE n' - plan'.points * i'
      BY <1>1, <1>4
    <2>3. GTerm \in Nat /\ GTerm' = GTerm
      BY <1>1 DEF GTerm
    <2>4. nbp \in Nat
      BY <1>2, <1>4 DEF PlanSound
    <2>5. FirstTerms(offset) \o TermsFrom(offset, nbp) = FirstTerms(offset + nbp)
      BY <1>4, <2>4, TermsJoin
    <2> DEFINE before == IF i = 0 THEN 0 ELSE GTerm  gs == IF i = 0 THEN GTerm ELSE 0
    <2>6. before + gs = GTerm
      BY <2>3
    <2> HIDE DEF before, gs
    <2>7. r = Sum(FirstTerms(offset), before) /\ tmp = Sum(TermsFrom(offset, nbp), gs)
      BY <1>2, <1>3, <1>4 DEF Progress, before, gs
    <2>8. r' = Sum(FirstTerms(offset + nbp), GTerm)
      BY <1>1, <2>5, <2>6, <2>7 DEF Plus, Sum
    <2>9. n' - left' = offset + nbp
      BY <1>1, <1>4
    <2>10. r' = Sum(FirstTerms(n' - left'), IF i' = 0 THEN 0 ELSE GTerm')
      BY <2>1, <2>3, <2>8, <2>9
    <2> QED
      BY <2>1, <2>2, <2>10 DEF Progress
  <1> QED
    BY <1>1, <1>6, <1>7, <1>8 DEF MultiInv

(* After the last batch nothing is left.                                     *)
LEMMA BatchesEndKeeps ==
    ASSUME MultiInv, BatchesEnd
    PROVE  MultiInv'
  <1>1. /\ pc = "batch" /\ i = plan.batches /\ pc' = "done" /\ ret' = 1
        /\ UNCHANGED <<scratch, n, g, held, r, refused>>
    BY DEF BatchesEnd, args
  <1>2. SpaceSound /\ PlanSound /\ Progress
    BY <1>1 DEF MultiInv
  <1>3. SpaceSound' /\ GTerm' = GTerm
    BY <1>1, <1>2 DEF SpaceSound, GTerm
  <1>4. left = 0 /\ n - left = n /\ i # 0 /\ ~refused
    BY <1>1, <1>2 DEF PlanSound, Progress
  <1>5. r' = Sum(FirstTerms(n'), GTerm')
    BY <1>1, <1>2, <1>3, <1>4 DEF Progress
  <1> QED
    BY <1>1, <1>3, <1>4, <1>5 DEF MultiInv

(* The next call finds the space as the first one did.                       *)
LEMMA AgainKeeps ==
    ASSUME ParametersAssumption, MultiInv, Again
    PROVE  MultiInv'
  <1>1. /\ pc = "done" /\ pc' = "idle" /\ n' \in PointCounts /\ g' \in BOOLEAN
        /\ i' = 0 /\ point_idx' = 0 /\ refused' = FALSE
        /\ UNCHANGED <<scratch, held>>
    BY DEF Again
  <1>2. SpaceSound /\ n' \in Sizes
    BY <1>1 DEF MultiInv, ParametersAssumption
  <1>3. SpaceSound'
    BY <1>1, <1>2 DEF SpaceSound
  <1> QED
    BY <1>1, <1>3 DEF MultiInv

(* Every step of a call keeps the invariant.                                 *)
LEMMA MultiNextInv == ASSUME ParametersAssumption, MultiInv, [MultiNext]_multi_vars PROVE MultiInv'
  <1>1. CASE StartEmpty
    BY <1>1, StartEmptyKeeps
  <1>2. CASE Start
    BY <1>2, StartKeeps
  <1>3. ASSUME NEW ok \in BOOLEAN, SimplePoint(ok) PROVE MultiInv'
    BY <1>3, SimplePointKeeps
  <1>4. ASSUME NEW ok \in BOOLEAN, BatchPoint(ok) PROVE MultiInv'
    BY <1>4, BatchPointKeeps
  <1>5. CASE SimpleEnd
    BY <1>5, SimpleEndKeeps
  <1>6. CASE BatchAlloc
    BY <1>6, BatchAllocKeeps
  <1>7. CASE BatchEnd
    BY <1>7, BatchEndKeeps
  <1>8. CASE BatchesEnd
    BY <1>8, BatchesEndKeeps
  <1>9. CASE Again
    BY <1>9, AgainKeeps
  <1>10. CASE UNCHANGED multi_vars
    <2>1. UNCHANGED <<scratch, n, g, held, pc, alg, plan, i, left, point_idx, checkpoint, tmp, r, ret, refused>>
      BY <1>10 DEF multi_vars, args
    <2> QED
      BY <2>1 DEF MultiInv, SpaceSound, PlanSound, Progress, InBatch, Base, nbp, offset, GTerm
  <1> QED
    BY <1>1, <1>2, <1>3, <1>4, <1>5, <1>6, <1>7, <1>8, <1>9, <1>10 DEF MultiNext

-----------------------------------------------------------------------------
(* The inductive invariant of ecmult_multi_var holds throughout.             *)
THEOREM MultiAlways == MultiSpec => []MultiInv
  <1>1. MultiInit => MultiInv
    BY ParametersAssumption, MultiInitInv
  <1>2. MultiInv /\ [MultiNext]_multi_vars => MultiInv'
    BY ParametersAssumption, MultiNextInv
  <1> QED
    BY <1>1, <1>2, PTL DEF MultiSpec

(* In every build, with every scratch space and number of points: a call of  *)
(* ecmult_multi_var that succeeds has summed every term once, in order; it   *)
(* fails only if the callback does, because every batch up to the size the   *)
(* code computes fits; it leaves in use what the caller had in use.          *)
THEOREM BatchesAlwaysSound == MultiSpec => []BatchesSound
  <1> SUFFICES MultiInv => BatchesSound
    BY MultiAlways, PTL
  <1> SUFFICES ASSUME MultiInv PROVE BatchesSound
    OBVIOUS
  <1>1. SpaceSound
    BY DEF MultiInv
  <1>2. EveryTermOnce
    <2>1. ASSUME pc = "done", ret = 1 PROVE r = Sum([k \in 1 .. n |-> k - 1], GTerm)
      BY <2>1 DEF MultiInv, FirstTerms
    <2>2. ASSUME pc = "batch" PROVE left > 0 <=> i < plan.batches
      <3>1. PlanSound /\ Progress
        BY <2>2 DEF MultiInv
      <3>2. i \in 0 .. plan.batches /\ plan.batches \in Nat
        BY <3>1 DEF PlanSound, Progress
      <3>3. CASE i = plan.batches
        <4>1. left = 0
          BY <3>1, <3>3 DEF Progress
        <4> QED
          BY <3>2, <3>3, <4>1
      <3>4. CASE i < plan.batches
        <4>1. left = n - offset /\ offset + nbp <= n /\ nbp \in 1 .. plan.points
              /\ offset \in Nat /\ n \in Nat /\ plan.points \in Nat
          BY <3>1, <3>4, ProgressIs DEF PlanSound
        <4> HIDE DEF offset, nbp
        <4>2. left > 0
          BY <4>1
        <4> QED
          BY <3>4, <4>2
      <3> QED
        BY <3>2, <3>3, <3>4
    <2> QED
      BY <2>1, <2>2 DEF EveryTermOnce
  <1>3. FailsOnlyByCallback
    BY DEF MultiInv, FailsOnlyByCallback
  <1>4. FewerPointsFit
    <2> SUFFICES ASSUME scratch # NoSpace
                 PROVE  /\ \A m \in 1 .. pippenger_max_points(scratch) : AllocAll(scratch, PippengerObjects(m)).ok
                        /\ \A m \in 1 .. strauss_max_points(scratch) : AllocAll(scratch, StraussObjects(m)).ok
      BY DEF FewerPointsFit
    <2>1. IsSpace(scratch)
      BY <1>1 DEF SpaceSound
    <2>2. ASSUME NEW m \in 1 .. pippenger_max_points(scratch) PROVE AllocAll(scratch, PippengerObjects(m)).ok
      BY <2>1, ParametersAssumption, PippengerFits
    <2>3. ASSUME NEW m \in 1 .. strauss_max_points(scratch) PROVE AllocAll(scratch, StraussObjects(m)).ok
      BY <2>1, ParametersAssumption, StraussFits
    <2> QED
      BY <2>2, <2>3
  <1>5. ScratchRestored
    BY <1>1 DEF SpaceSound, ScratchRestored
  <1> QED
    BY <1>2, <1>3, <1>4, <1>5 DEF BatchesSound
=============================================================================
