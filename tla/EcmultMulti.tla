---------------------------- MODULE EcmultMulti -----------------------------
(***************************************************************************)
(* secp256k1_ecmult_multi_var (src/ecmult_impl.h): a sum of n products     *)
(* scalar_i * point_i and of g_scalar * G, computed in batches that fit in *)
(* a scratch space.  The terms come from a callback that may fail.  The    *)
(* curve arithmetic of a batch is abstracted to the list of the terms it   *)
(* sums; the control around it, and every size, is the code's.             *)
(***************************************************************************)
EXTENDS ScratchOps, Sequences, FiniteSetsExt

CONSTANTS
    sizeof_ge, sizeof_gej, sizeof_fe, sizeof_scalar, sizeof_int,
    sizeof_strauss_point_state,
    sizeof_pippenger_point_state,
    sizeof_pippenger_state,
    TableSize,                     \* ECMULT_TABLE_SIZE(WINDOW_A)
    WNAF_BITS,
    PIPPENGER_MAX_BUCKET_WINDOW,
    ECMULT_PIPPENGER_THRESHOLD,
    ECMULT_MAX_POINTS_PER_BATCH,
    ScratchSizes,                  \* sizes of the caller's scratch space
    InUse,                         \* what the caller already holds of it
    PointCounts                    \* values of n callers ask for

ASSUME ParametersAssumption ==
    /\ ScratchSizes \cup InUse \cup PointCounts \subseteq Sizes
    /\ {sizeof_ge, sizeof_gej, sizeof_fe, sizeof_scalar, sizeof_int, sizeof_strauss_point_state,
        sizeof_pippenger_point_state, sizeof_pippenger_state, TableSize} \subseteq Nat \ {0}
    /\ WNAF_BITS \in 1 .. SIZE_MAX
    /\ PIPPENGER_MAX_BUCKET_WINDOW = 12
    /\ ECMULT_PIPPENGER_THRESHOLD \in Nat /\ ECMULT_MAX_POINTS_PER_BATCH \in Nat \ {0}

WNAF_SIZE(w) == CEIL_DIV(WNAF_BITS, w)
MinOf(a, b) == IF a < b THEN a ELSE b

-----------------------------------------------------------------------------
(* How many points fit: the functions that choose the algorithm.             *)

PIPPENGER_SCRATCH_OBJECTS == 6
STRAUSS_SCRATCH_OBJECTS == 5

(* WindowLimit[w] is the largest number of points for which window w is used;*)
(* window 8 is never the best.                                               *)
WindowLimit == <<1, 4, 20, 57, 136, 235, 1260, 1260, 4420, 7880, 16050, SIZE_MAX>>

pippenger_bucket_window(n) ==
    CHOOSE w \in 1 .. PIPPENGER_MAX_BUCKET_WINDOW :
      n <= WindowLimit[w] /\ \A v \in 1 .. w - 1 : n > WindowLimit[v]

pippenger_bucket_window_inv(w) == WindowLimit[w]

(* One entry of the arrays of a batch that uses window w. *)
EntrySize(w) == sizeof_ge + sizeof_scalar + sizeof_pippenger_point_state
                  + (WNAF_SIZE(w + 1) + 1) * sizeof_int

(* Faulty variant: leaves no room for the two entries of G. *)
PippengerForgetsG(s) ==
    LET max_alloc == scratch_max_allocation(s, PIPPENGER_SCRATCH_OBJECTS)
        overhead(w) == sizeof_gej * 2 ^ w + sizeof_pippenger_state
        points(w) == MinOf((max_alloc - overhead(w)) \div (2 * EntrySize(w)),
                           pippenger_bucket_window_inv(w))
        reached(w) == /\ \A v \in 1 .. w : overhead(v) <= max_alloc
                      /\ \A v \in 1 .. w - 1 : points(v) = pippenger_bucket_window_inv(v)
    IN  Max({0} \cup {points(w) : w \in {v \in 1 .. PIPPENGER_MAX_BUCKET_WINDOW : reached(v)}})

(* The loop over the windows: it stops at the first window whose buckets do  *)
(* not fit, and after the first one that could not take all its points.      *)
pippenger_max_points(s) ==
    LET max_alloc == scratch_max_allocation(s, PIPPENGER_SCRATCH_OBJECTS)
        overhead(w) == sizeof_gej * 2 ^ w + 2 * EntrySize(w) + sizeof_pippenger_state
        points(w) == MinOf((max_alloc - overhead(w)) \div (2 * EntrySize(w)),
                           pippenger_bucket_window_inv(w))
        reached(w) == /\ \A v \in 1 .. w : overhead(v) <= max_alloc
                      /\ \A v \in 1 .. w - 1 : points(v) = pippenger_bucket_window_inv(v)
    IN  Max({0} \cup {points(w) : w \in {v \in 1 .. PIPPENGER_MAX_BUCKET_WINDOW : reached(v)}})

strauss_scratch_size(n) ==
    n * ((sizeof_ge + sizeof_fe) * TableSize
           + sizeof_strauss_point_state + sizeof_gej + sizeof_scalar)

strauss_max_points(s) ==
    scratch_max_allocation(s, STRAUSS_SCRATCH_OBJECTS) \div strauss_scratch_size(1)

(* Faulty variant: batches larger than what fits.                            *)
BatchSizeOverfull(max, n) ==
    LET m == MinOf(max, ECMULT_MAX_POINTS_PER_BATCH) + 1
    IN  IF n = 0 THEN [batches |-> 0, points |-> 0]
        ELSE [batches |-> CEIL_DIV(n, m), points |-> CEIL_DIV(n, CEIL_DIV(n, m))]

(* ecmult_multi_batch_size_helper, for max # 0: as few batches as possible,  *)
(* then batches as even as possible.                                         *)
batch_size_helper(max, n) ==
    LET m == MinOf(max, ECMULT_MAX_POINTS_PER_BATCH)
    IN  IF n = 0 THEN [batches |-> 0, points |-> 0]
        ELSE [batches |-> CEIL_DIV(n, m), points |-> CEIL_DIV(n, CEIL_DIV(n, m))]

-----------------------------------------------------------------------------
(* What a batch of n points allocates, in order.                             *)
StraussObjects(n) ==
    <<n * sizeof_gej, n * sizeof_scalar, n * TableSize * sizeof_fe,
      n * TableSize * sizeof_ge, n * sizeof_strauss_point_state>>

PippengerObjects(n) ==
    LET entries == 2 * n + 2
        w == pippenger_bucket_window(n)
    IN  <<entries * sizeof_ge, entries * sizeof_scalar, sizeof_pippenger_state,
          entries * sizeof_pippenger_point_state,
          entries * WNAF_SIZE(w + 1) * sizeof_int, 2 ^ w * sizeof_gej>>

Objects(alg, n) == IF alg = "strauss" THEN StraussObjects(n) ELSE PippengerObjects(n)

(* The space after the allocations of a batch, and whether all were granted. *)
AllocAll(s, sizes) ==
    LET after[q \in 0 .. Len(sizes)] ==
            IF q = 0 THEN [ok |-> TRUE, s |-> s]
            ELSE LET before == after[q - 1] IN
                 [ok |-> before.ok /\ Granted(before.s, sizes[q]),
                  s  |-> scratch_alloc(before.s, sizes[q]).s]
    IN  after[Len(sizes)]

-----------------------------------------------------------------------------
(* A call of ecmult_multi_var.                                               *)
VARIABLES
    scratch,     \* the caller's scratch space, NoSpace for NULL
    n, g,        \* how many points, and whether inp_g_sc is given
    pc,          \* "idle", "points" (in a batch), "batch" (between two), "done"
    alg,         \* "none", "simple", "strauss", "pippenger"
    plan,        \* n_batches and n_batch_points
    i,           \* the loop variable of the batches
    left,        \* the n of the code, which counts down
    point_idx,   \* the loop variable of the points of a batch
    checkpoint,  \* what was in use before the batch
    tmp, r,      \* the terms in the batch's sum and in the result
    ret,         \* the value returned
    refused,     \* the callback returned 0 in this call (ghost)
    held         \* what the caller had in use before its calls (ghost)

args == <<n, g, held>>
multi_vars == <<scratch, args, pc, alg, plan, i, left, point_idx, checkpoint, tmp, r, ret, refused>>

Sum(terms, gs) == [terms |-> terms, g |-> gs]
Zero == Sum(<<>>, 0)
Plus(a, b) == Sum(a.terms \o b.terms, a.g + b.g)
NoPlan == [batches |-> 0, points |-> 0]
GTerm == IF g THEN 1 ELSE 0

(* Counters stay within the call's terms and the scratch space is a scratch  *)
(* space.                                                                    *)
MultiTypeOK ==
    /\ scratch \in Scratches \cup {NoSpace}
    /\ n \in PointCounts /\ g \in BOOLEAN
    /\ pc \in {"idle", "points", "batch", "done"}
    /\ alg \in {"none", "simple", "strauss", "pippenger"}
    /\ plan \in [batches : Nat, points : Nat]
    /\ i \in 0 .. plan.batches /\ left \in 0 .. n /\ point_idx \in 0 .. n
    /\ \A sum \in {tmp, r} : sum.terms \in Seq(Nat) /\ sum.g \in 0 .. 1
    /\ checkpoint \in Sizes /\ held \in Sizes
    /\ ret \in {0, 1} /\ refused \in BOOLEAN

MultiInit ==
    /\ scratch \in {NoSpace}
           \cup {s \in {[scratch_create(size) EXCEPT !.alloc_size = used] :
                          size \in ScratchSizes, used \in InUse} :
                   s.alloc_size <= s.max_size}
    /\ n \in PointCounts /\ g \in BOOLEAN
    /\ pc = "idle" /\ alg = "none" /\ plan = NoPlan
    /\ i = 0 /\ left = 0 /\ point_idx = 0 /\ checkpoint = 0
    /\ tmp = Zero /\ r = Zero /\ ret = 0 /\ refused = FALSE
    /\ held = scratch.alloc_size

Chosen ==
    IF scratch = NoSpace \/ pippenger_max_points(scratch) = 0
    THEN [alg |-> "simple", plan |-> NoPlan]
    ELSE LET pippenger == batch_size_helper(pippenger_max_points(scratch), n) IN
         IF pippenger.points >= ECMULT_PIPPENGER_THRESHOLD
         THEN [alg |-> "pippenger", plan |-> pippenger]
         ELSE IF strauss_max_points(scratch) = 0
         THEN [alg |-> "simple", plan |-> NoPlan]
         ELSE [alg  |-> "strauss",
               plan |-> batch_size_helper(strauss_max_points(scratch), n)]

(* Nothing to batch: no points, or all of them one by one. *)
StartEmpty ==
    /\ pc = "idle" /\ n = 0
    /\ r' = Sum(<<>>, GTerm)
    /\ ret' = 1 /\ pc' = "done"
    /\ UNCHANGED <<scratch, args, alg, plan, i, left, point_idx, checkpoint, tmp, refused>>

Start ==
    /\ pc = "idle" /\ n > 0
    /\ alg' = Chosen.alg /\ plan' = Chosen.plan
    /\ left' = n
    /\ IF alg' = "simple"
       THEN r' = Sum(<<>>, GTerm) /\ pc' = "points"
       ELSE r' = Zero /\ pc' = "batch"
    /\ UNCHANGED <<scratch, args, i, point_idx, checkpoint, tmp, ret, refused>>

SimplePoint(ok) ==
    /\ pc = "points" /\ alg = "simple" /\ point_idx < n
    /\ IF ok
       THEN /\ r' = Plus(r, Sum(<<point_idx>>, 0))
            /\ point_idx' = point_idx + 1
            /\ UNCHANGED <<pc, ret, refused>>
       ELSE /\ pc' = "done" /\ ret' = 0 /\ refused' = TRUE
            /\ UNCHANGED <<r, point_idx>>
    /\ UNCHANGED <<scratch, args, alg, plan, i, left, checkpoint, tmp>>

SimpleEnd ==
    /\ pc = "points" /\ alg = "simple" /\ point_idx = n
    /\ pc' = "done" /\ ret' = 1
    /\ UNCHANGED <<scratch, args, alg, plan, i, left, point_idx, checkpoint, tmp, r, refused>>

(* One call of strauss_batch or pippenger_batch: its allocations, one step   *)
(* for each call of the callback, its sum.  The early return of a batch with *)
(* nothing in it is left out: EveryTermOnce says there is none.              *)
nbp == MinOf(left, plan.points)
offset == plan.points * i

BatchAlloc ==
    /\ pc = "batch" /\ i < plan.batches
    /\ checkpoint' = scratch_checkpoint(scratch)
    /\ LET a == AllocAll(scratch, Objects(alg, nbp)) IN
         IF a.ok
         THEN /\ scratch' = a.s
              /\ tmp' = Sum(<<>>, IF i = 0 THEN GTerm ELSE 0)
              /\ point_idx' = 0
              /\ pc' = "points"
              /\ UNCHANGED ret
         ELSE /\ scratch' = scratch_apply_checkpoint(a.s, checkpoint')
              /\ pc' = "done" /\ ret' = 0
              /\ UNCHANGED <<tmp, point_idx>>
    /\ UNCHANGED <<args, alg, plan, i, left, r, refused>>

(* Faulty variants: forgets cb_offset; does not give the frames back. *)
BatchPointNoOffset(ok) ==
    /\ pc = "points" /\ alg # "simple" /\ point_idx < nbp
    /\ IF ok
       THEN /\ tmp' = Plus(tmp, Sum(<<point_idx>>, 0))
            /\ point_idx' = point_idx + 1
            /\ UNCHANGED <<scratch, pc, ret, refused>>
       ELSE /\ scratch' = scratch_apply_checkpoint(scratch, checkpoint)
            /\ pc' = "done" /\ ret' = 0 /\ refused' = TRUE
            /\ UNCHANGED <<tmp, point_idx>>
    /\ UNCHANGED <<args, alg, plan, i, left, checkpoint, r>>

BatchPointLeaks(ok) ==
    /\ pc = "points" /\ alg # "simple" /\ point_idx < nbp
    /\ IF ok
       THEN /\ tmp' = Plus(tmp, Sum(<<point_idx + offset>>, 0))
            /\ point_idx' = point_idx + 1
            /\ UNCHANGED <<scratch, pc, ret, refused>>
       ELSE /\ pc' = "done" /\ ret' = 0 /\ refused' = TRUE
            /\ UNCHANGED <<scratch, tmp, point_idx>>
    /\ UNCHANGED <<args, alg, plan, i, left, checkpoint, r>>

BatchPoint(ok) ==
    /\ pc = "points" /\ alg # "simple" /\ point_idx < nbp
    /\ IF ok
       THEN /\ tmp' = Plus(tmp, Sum(<<point_idx + offset>>, 0))
            /\ point_idx' = point_idx + 1
            /\ UNCHANGED <<scratch, pc, ret, refused>>
       ELSE /\ scratch' = scratch_apply_checkpoint(scratch, checkpoint)
            /\ pc' = "done" /\ ret' = 0 /\ refused' = TRUE
            /\ UNCHANGED <<tmp, point_idx>>
    /\ UNCHANGED <<args, alg, plan, i, left, checkpoint, r>>

BatchEnd ==
    /\ pc = "points" /\ alg # "simple" /\ point_idx = nbp
    /\ scratch' = scratch_apply_checkpoint(scratch, checkpoint)
    /\ r' = Plus(r, tmp)
    /\ left' = left - nbp
    /\ i' = i + 1
    /\ pc' = "batch"
    /\ UNCHANGED <<args, alg, plan, point_idx, checkpoint, tmp, ret, refused>>

BatchesEnd ==
    /\ pc = "batch" /\ i = plan.batches
    /\ pc' = "done" /\ ret' = 1
    /\ UNCHANGED <<scratch, args, alg, plan, i, left, point_idx, checkpoint, tmp, r, refused>>

(* The caller calls again with the same scratch space. *)
Again ==
    /\ pc = "done"
    /\ pc' = "idle" /\ alg' = "none" /\ plan' = NoPlan
    /\ n' \in PointCounts /\ g' \in BOOLEAN
    /\ i' = 0 /\ left' = 0 /\ point_idx' = 0 /\ checkpoint' = 0
    /\ tmp' = Zero /\ r' = Zero /\ ret' = 0 /\ refused' = FALSE
    /\ UNCHANGED <<scratch, held>>

MultiNext ==
    \/ StartEmpty \/ Start
    \/ \E ok \in BOOLEAN : SimplePoint(ok) \/ BatchPoint(ok)
    \/ SimpleEnd
    \/ BatchAlloc \/ BatchEnd \/ BatchesEnd
    \/ Again

MultiSpec == MultiInit /\ [][MultiNext]_multi_vars

-----------------------------------------------------------------------------
(* However the points are cut into batches, a call that returns 1 has summed *)
(* every term exactly once, in order: n points, and G once if it was given.  *)
(* No batch is empty, and together they are enough.                          *)
EveryTermOnce ==
    /\ pc = "done" /\ ret = 1 => r = Sum([k \in 1 .. n |-> k - 1], GTerm)
    /\ pc = "batch" => (left > 0 <=> i < plan.batches)

(* The only reason to return 0 is a callback that did: the number of points  *)
(* in a batch is chosen so that its allocations are always granted.          *)
FailsOnlyByCallback ==
    pc = "done" => (ret = 0 <=> refused)

(* On every way out, and between batches, nothing of the scratch space is in *)
(* use but what the caller held before (the caller's frames survive).        *)
ScratchRestored ==
    pc \in {"idle", "batch", "done"} => scratch.alloc_size = held

(* "The function ensures that fewer points may also be used"                 *)
(* (ecmult_impl.h:740): not only the largest batch, every smaller one fits.  *)
FewerPointsFit ==
    pc = "idle" /\ scratch # NoSpace =>
      /\ \A m \in 1 .. pippenger_max_points(scratch) :
           AllocAll(scratch, PippengerObjects(m)).ok
      /\ \A m \in 1 .. strauss_max_points(scratch) :
           AllocAll(scratch, StraussObjects(m)).ok

(* What a caller relies on: every term is counted once, the call fails only  *)
(* if the callback does, since every batch up to the promised size fits, and *)
(* it leaves in use what the caller had in use.                              *)
BatchesSound ==
    /\ EveryTermOnce
    /\ FailsOnlyByCallback /\ FewerPointsFit
    /\ ScratchRestored
=============================================================================
