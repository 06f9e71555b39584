----------------------------- MODULE Pippenger ------------------------------
(***************************************************************************)
(* secp256k1_ecmult_pippenger_wnaf (src/ecmult_impl.h): the sum of several *)
(* scalar * point terms by buckets.  Curve points are represented by their *)
(* logarithms (module Group); the scalars are the short halves that        *)
(* ecmult_endo_split leaves, so they are numbers below 2^WNAF_BITS.        *)
(***************************************************************************)
EXTENDS Group, Wnaf

CONSTANTS
    WNAF_BITS,      \* 128
    bucket_window,
    InputPoints, InputScalars,
    MaxTerms        \* bound: terms in a call

PippengerAssumption ==
    /\ WNAF_BITS \in Nat /\ bucket_window \in 1 .. 12
    /\ InputPoints \subseteq Scalars
    /\ InputScalars \subseteq 0 .. 2 ^ WNAF_BITS - 1

w == bucket_window + 1
n_wnaf == WindowCount(WNAF_BITS, w)
Buckets == 0 .. 2 ^ bucket_window - 1    \* what pippenger_batch allocates

VARIABLES
    terms,   \* the scalars and points of the call (ghost)
    ps,      \* the digits, skew and point of each term that is not zero
    bucket,  \* the sums of the points with the same digit, up to sign
    i,       \* windows still to do
    np,      \* terms still to put in a bucket in this window
    r,       \* the result so far
    pc       \* "terms", "window", "points", "done"

vars == <<terms, ps, bucket, i, np, r, pc>>

Empty == [b \in Buckets |-> Infinity]

Init ==
    /\ terms = <<>> /\ ps = <<>>
    /\ bucket = Empty /\ i = n_wnaf /\ np = 0
    /\ r = Infinity /\ pc = "terms"

(* The loop over the terms: zero ones are left out.                          *)
Term(sc, pt) ==
    /\ pc = "terms" /\ Len(terms) < MaxTerms
    /\ terms' = Append(terms, [sc |-> sc, pt |-> pt])
    /\ ps' = IF sc = 0 \/ pt = Infinity THEN ps
             ELSE Append(ps, [d |-> wnaf_fixed(sc, WNAF_BITS, w), pt |-> pt])
    /\ UNCHANGED <<bucket, i, np, r, pc>>

(* Without any term left the result is infinity.                             *)
Start ==
    /\ pc = "terms"
    /\ pc' = IF ps = <<>> THEN "done" ELSE "window"
    /\ UNCHANGED <<terms, ps, bucket, i, np, r>>

(* The next window, from the top: all buckets empty.                         *)
Window ==
    /\ pc = "window" /\ i > 0
    /\ i' = i - 1
    /\ bucket' = Empty
    /\ np' = 0
    /\ pc' = "points"
    /\ UNCHANGED <<terms, ps, r>>

PutIn(b, k, p) == [b EXCEPT ![k] = gej_add(@, p)]

(* A point goes to the bucket of its digit, negated for a negative one.      *)
InBucket(b, n, p) ==
    IF n > 0 THEN PutIn(b, (n - 1) \div 2, p)
    ELSE IF n < 0 THEN PutIn(b, (-(n + 1)) \div 2, ge_neg(p))
    ELSE b

(* Faulty variant: takes the skew off in every window. *)
SkewedAlways(b, p) == IF p.d.skew = 1 THEN PutIn(b, 0, ge_neg(p.pt)) ELSE b

(* In the last window the skew is taken off again.                           *)
Skewed(b, p) == IF i = 0 /\ p.d.skew = 1 THEN PutIn(b, 0, ge_neg(p.pt)) ELSE b

Point ==
    /\ pc = "points" /\ np < Len(ps)
    /\ np' = np + 1
    /\ LET p == ps[np']
       IN  bucket' = InBucket(Skewed(bucket, p), p.d.wnaf[i], p.pt)
    /\ UNCHANGED <<terms, ps, i, r, pc>>

Double(p) == gej_add(p, p)

(* bucket[0] + 3 * bucket[1] + 5 * bucket[2] + ... by a running sum; the     *)
(* last of the doublings for the window is between the two halves.           *)
SumBuckets ==
    /\ pc = "points" /\ np = Len(ps)
    /\ LET doubled == FoldLeft(LAMBDA p, j : Double(p), r, [j \in 1 .. bucket_window |-> j])
           down(acc, k) == LET b == 2 ^ bucket_window - k
                               running == gej_add(acc.running, bucket[b])
                           IN  [running |-> running, r |-> gej_add(acc.r, running)]
           acc == FoldLeft(down, [running |-> Infinity, r |-> doubled],
                           [k \in 1 .. 2 ^ bucket_window - 1 |-> k])
       IN  r' = gej_add(Double(acc.r), gej_add(acc.running, bucket[0]))
    /\ pc' = "window"
    /\ UNCHANGED <<terms, ps, bucket, i, np>>

Finish ==
    /\ pc = "window" /\ i = 0
    /\ pc' = "done"
    /\ UNCHANGED <<terms, ps, bucket, i, np, r>>

Next ==
    \/ \E sc \in InputScalars, pt \in InputPoints : Term(sc, pt)
    \/ Start \/ Window \/ Point \/ SumBuckets \/ Finish

Spec == Init /\ [][Next]_vars

-----------------------------------------------------------------------------
(* The buckets add up to the sum of the terms, and the skew that made the    *)
(* digits odd is taken off exactly once.                                     *)
ResultIsSum ==
    pc = "done" =>
      LET add(sum, t) == gej_add(sum, scalar_mul(t.sc, t.pt))
      IN  r = FoldLeft(add, Infinity, terms)

(* The digits are what wnaf_fixed promises, and every one that is not 0 has  *)
(* a bucket among those allocated.                                           *)
DigitsSound ==
    \A p \in Range(ps) :
      /\ \E t \in Range(terms) : t.pt = p.pt /\ FixedSound(p.d, t.sc, WNAF_BITS, w)
      /\ \A k \in 0 .. n_wnaf - 1 :
           p.d.wnaf[k] > 0 => (p.d.wnaf[k] - 1) \div 2 \in Buckets
=============================================================================
