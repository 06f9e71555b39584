------------------------------- MODULE Curve --------------------------------
(***************************************************************************)
(* The formulas of src/group_impl.h over a small field: points of          *)
(* y^2 = x^3 + B in affine (ge) and Jacobian (gej) coordinates.  An        *)
(* accumulator acc runs through every function in every order; log, kept   *)
(* beside it, says which multiple of the generator it has to be.           *)
(*                                                                         *)
(* A field element is its value: magnitudes and normalisation, which the   *)
(* code tracks by hand, are not represented.                               *)
(***************************************************************************)
EXTENDS Integers, Sequences

CONSTANTS
    p, B,           \* the field and the curve
    N,              \* the order of the group
    beta, lambda,   \* the endomorphism: lambda * (x, y) = (beta * x, y)
    Gx, Gy,         \* the generator
    MaxTable        \* bound: entries of a table of odd multiples

Fe == 0 .. p - 1
Scalars == 0 .. N - 1

Mul(a, b) == (a * b) % p
Add(a, b) == (a + b) % p
Sub(a, b) == (a - b) % p
Neg(a) == (-a) % p
Sqr(a) == Mul(a, a)
Half(a) == IF a % 2 = 0 THEN a \div 2 ELSE (a + p) \div 2

ASSUME CurveAssumption ==
    /\ p \in Nat /\ p % 4 = 3 /\ N \in Nat
    /\ {B, beta, Gx, Gy} \subseteq Fe
    /\ Mul(beta, Sqr(beta)) = 1 /\ beta # 1

(* fe_inv gives 0 for 0, and fe_sqrt a root if there is one: the power       *)
(* (p + 1) / 4.                                                              *)
InvTable == [a \in Fe |-> IF a = 0 THEN 0 ELSE CHOOSE b \in Fe : Mul(a, b) = 1]
Inv(a) == InvTable[a]
Power[a \in Fe, n \in 0 .. p] ==
    IF n = 0 THEN 1
    ELSE LET h == Power[a, n \div 2] IN Mul(Sqr(h), IF n % 2 = 0 THEN 1 ELSE a)
RootTable == [a \in Fe |-> Power[a, (p + 1) \div 4]]
fe_sqrt(a) == [ret |-> Sqr(RootTable[a]) = a, r |-> RootTable[a]]
fe_is_odd(a) == a % 2 = 1

ge(x, y) == [x |-> x, y |-> y, infinity |-> FALSE]
gej(x, y, z) == [x |-> x, y |-> y, z |-> z, infinity |-> FALSE]
ge_infinity == [x |-> 0, y |-> 0, infinity |-> TRUE]
gej_infinity == [x |-> 0, y |-> 0, z |-> 0, infinity |-> TRUE]

gej_set_ge(a) == [x |-> a.x, y |-> a.y, z |-> 1, infinity |-> a.infinity]
ge_set_gej_zinv(a, zi) == ge(Mul(a.x, Sqr(zi)), Mul(a.y, Mul(Sqr(zi), zi)))
(* ge_set_gej inverts the z of infinity as well and keeps the flag.          *)
ge_set_gej(a) == [ge_set_gej_zinv(a, Inv(a.z)) EXCEPT !.infinity = a.infinity]

gej_neg(a) == [a EXCEPT !.y = Neg(@)]
ge_mul_lambda(a) == [a EXCEPT !.x = Mul(@, beta)]
gej_rescale(a, s) ==
    [a EXCEPT !.x = Mul(@, Sqr(s)), !.y = Mul(@, Mul(Sqr(s), s)), !.z = Mul(@, s)]

gej_eq_x_var(x, a) == Mul(Sqr(a.z), x) = a.x

ge_set_xo_var(x, odd) ==
    LET root == fe_sqrt(Add(Mul(x, Sqr(x)), B))
    IN  [ret |-> root.ret,
         r |-> ge(x, IF fe_is_odd(root.r) # odd THEN Neg(root.r) ELSE root.r)]

-----------------------------------------------------------------------------
(* The _var functions return the ratio of the z coordinates as well.         *)

NoRatio == -1
With(r, rzr) == [r |-> r, rzr |-> rzr]

gej_double(a) ==
    LET l == Half(Mul(3, Sqr(a.x)))
        s == Sqr(a.y)
        t == Neg(Mul(s, a.x))
        x == Add(Sqr(l), Mul(2, t))
    IN  [x |-> x, y |-> Neg(Add(Mul(Add(t, x), l), Sqr(s))),
         z |-> Mul(a.z, a.y), infinity |-> a.infinity]

gej_double_var(a) ==
    IF a.infinity THEN With(gej_infinity, 1) ELSE With(gej_double(a), a.y)

(* Faulty variant: right only if the z of the other point is 1.              *)
RatioAffine(h, bz) == h
Ratio(h, bz) == Mul(h, bz)

(* What the three additions below have in common: a is at (u1, s1) and the   *)
(* other point at (u2, s2) after scaling, and bz is what the ratio has       *)
(* besides the difference of the two.                                        *)
AddScaled(a, bz, u1, u2, s1, s2) ==
    LET h == Sub(u2, u1)
        i == Sub(s1, s2)
        h2 == Neg(Sqr(h))
        h3 == Mul(h2, h)
        t == Mul(u1, h2)
        x == Add(Add(Sqr(i), h3), Mul(2, t))
    IN  IF h # 0 THEN With(gej(x, Add(Mul(Add(t, x), i), Mul(h3, s1)), Mul(a.z, Mul(h, bz))),
                           Ratio(h, bz))
        ELSE IF i = 0 THEN gej_double_var(a)
        ELSE With(gej_infinity, 0)

gej_add_var(a, b) ==
    LET z22 == Sqr(b.z)
        z12 == Sqr(a.z)
    IN  IF a.infinity THEN With(b, NoRatio)
        ELSE IF b.infinity THEN With(a, 1)
        ELSE AddScaled(a, b.z, Mul(a.x, z22), Mul(b.x, z12),
                       Mul(Mul(a.y, z22), b.z), Mul(Mul(b.y, z12), a.z))

gej_add_ge_var(a, b) ==
    IF a.infinity THEN With(gej_set_ge(b), NoRatio)
    ELSE IF b.infinity THEN With(a, 1)
    ELSE AddScaled(a, 1, a.x, Mul(b.x, Sqr(a.z)), a.y, Mul(Mul(b.y, Sqr(a.z)), a.z))

(* a + (b.x, b.y, 1 / bzinv): the z of a is multiplied by bzinv for the      *)
(* comparison and not for the result.                                        *)
gej_add_zinv_var(a, b, bzinv) ==
    LET az == Mul(a.z, bzinv)
    IN  IF a.infinity
        THEN [gej_set_ge(ge_set_gej_zinv(b, bzinv)) EXCEPT !.infinity = b.infinity]
        ELSE IF b.infinity THEN a
        ELSE AddScaled(a, 1, a.x, Mul(b.x, Sqr(az)), a.y, Mul(Mul(b.y, Sqr(az)), az)).r

(* The addition without branches, for b other than infinity.                 *)
UnifiedSum(a, b, rr_alt, m_alt, q, n) ==
    LET x == Add(Sqr(rr_alt), q)
        z == IF a.infinity THEN 1 ELSE Mul(a.z, m_alt)
    IN  [x |-> IF a.infinity THEN b.x ELSE x,
         y |-> IF a.infinity THEN b.y ELSE Half(Neg(Add(Mul(Add(Mul(2, x), q), rr_alt), n))),
         z |-> z, infinity |-> z = 0]

(* t and m are the sums of the scaled x and y. With opposite y another       *)
(* formula is taken.                                                         *)
UnifiedBy(degenerate, a, b, u2, s1, t, m) ==
    IF degenerate
    THEN UnifiedSum(a, b, Mul(2, s1), Sub(a.x, u2), Mul(Neg(t), Sqr(Sub(a.x, u2))), m)
    ELSE UnifiedSum(a, b, Sub(Sqr(t), Mul(a.x, u2)), m, Mul(Neg(t), Sqr(m)), Sqr(Sqr(m)))

AddUnified(a, b, u2, s2, degenerate(_)) ==
    UnifiedBy(degenerate(Add(a.y, s2)), a, b, u2, a.y, Add(a.x, u2), Add(a.y, s2))

ScaledX(a, b) == Mul(b.x, Sqr(a.z))
ScaledY(a, b) == Mul(Mul(b.y, Sqr(a.z)), a.z)

(* Faulty variant: without the case of opposite y and different x.           *)
gej_add_ge_plain(a, b) == AddUnified(a, b, ScaledX(a, b), ScaledY(a, b), LAMBDA m : FALSE)
gej_add_ge(a, b) == AddUnified(a, b, ScaledX(a, b), ScaledY(a, b), LAMBDA m : m = 0)

-----------------------------------------------------------------------------
(* Tables.  secp256k1_ecmult_odd_multiples_table works on the isomorphic     *)
(* curve on which 2 * a is affine, and omits the z of its entries: zr[i] is  *)
(* the ratio of the z of entry i to that of the entry before.                *)
OddChain(n, d, first, a) ==
    LET chain[i \in 1 .. n] ==
            IF i = 1 THEN With(gej(first.x, first.y, a.z), d.z)
            ELSE gej_add_ge_var(chain[i - 1].r, ge(d.x, d.y))
    IN  [i \in 1 .. n |-> chain[i]]
TableOf(chain, d) ==
    [pre |-> [i \in DOMAIN chain |-> ge(chain[i].r.x, chain[i].r.y)],
     zr |-> [i \in DOMAIN chain |-> chain[i].rzr],
     z |-> Mul(chain[Len(chain)].r.z, d.z)]
TableBySteps(n, a, d) == TableOf(OddChain(n, d, ge_set_gej_zinv(a, d.z), a), d)
odd_multiples_table(n, a) == TableBySteps(n, a, gej_double_var(a).r)

(* Faulty variant: applies only the ratio next to the entry.                 *)
ZSuffixNext(zr, i) == zr[i + 1]
(* The product of the ratios above entry i.                                  *)
ZSuffix(zr, i) ==
    LET zs[k \in i + 1 .. Len(zr)] == IF k = Len(zr) THEN zr[k] ELSE Mul(zs[k + 1], zr[k])
    IN  zs[i + 1]

ge_table_set_globalz(pre, zr) ==
    [i \in 1 .. Len(pre) |->
        IF i = Len(pre) THEN pre[i] ELSE ge_set_gej_zinv(pre[i], ZSuffix(zr, i))]

(* All z are inverted with one inversion: forwards the products of the z     *)
(* before each entry, backwards the inverse of the product of the z up to it. *)
ge_set_all_gej_var(a) ==
    LET z(i) == IF a[i].infinity THEN 1 ELSE a[i].z
        upto[i \in 0 .. Len(a)] == IF i = 0 THEN 1 ELSE Mul(upto[i - 1], z(i))
        u[i \in 1 .. Len(a)] == IF i = Len(a) THEN Inv(upto[i]) ELSE Mul(u[i + 1], z(i + 1))
    IN  [i \in 1 .. Len(a) |->
            IF a[i].infinity THEN ge_infinity
            ELSE ge_set_gej_zinv(a[i], Mul(upto[i - 1], u[i]))]

-----------------------------------------------------------------------------
VARIABLES
    acc,     \* a Jacobian point
    log,     \* the multiple of the generator it has to be
    rzr,     \* the ratio of z the last operation returned
    made     \* the last table: affine points, the z they are to be read with,
             \* and the multiples of the generator they have to be

vars == <<acc, log, rzr, made>>

(* The reference: multiples of the generator by the textbook chord and       *)
(* tangent rules.                                                            *)
Textbook(a, b) ==
    LET slope == IF a = b THEN Mul(Mul(3, Sqr(a.x)), Inv(Mul(2, a.y)))
                 ELSE Mul(Sub(b.y, a.y), Inv(Sub(b.x, a.x)))
        x == Sub(Sub(Sqr(slope), a.x), b.x)
    IN  IF a.infinity THEN b
        ELSE IF b.infinity THEN a
        ELSE IF a.x = b.x /\ a # b THEN ge_infinity
        ELSE ge(x, Sub(Mul(slope, Sub(a.x, x)), a.y))

Twice(a) == Textbook(a, a)

Multiple[k \in Scalars] ==
    IF k = 0 THEN ge_infinity
    ELSE IF k % 2 = 0 THEN Twice(Multiple[k \div 2])
    ELSE Textbook(Multiple[k - 1], ge(Gx, Gy))

Represents(a, k) ==
    IF a.infinity THEN k = 0
    ELSE a.z # 0 /\ k # 0 /\ ge_set_gej_zinv(a, Inv(a.z)) = Multiple[k]

Claim(g, z, k) == [ge |-> g, z |-> z, log |-> k % N]

Init ==
    /\ acc = gej_infinity /\ log = 0
    /\ rzr = NoRatio
    /\ made = <<>>

Becomes(r, k) ==
    /\ acc' = r /\ log' = k % N
    /\ UNCHANGED <<rzr, made>>

(* A _var function, called with and without a place for the ratio; with      *)
(* infinity on the left an addition must not be asked for it.                *)
BecomesVar(s, k) ==
    /\ acc' = s.r /\ log' = k % N
    /\ rzr' \in {NoRatio, s.rzr}
    /\ UNCHANGED made

Double ==
    \/ Becomes(gej_double(acc), 2 * log)
    \/ BecomesVar(gej_double_var(acc), 2 * log)

AddVar(k, z) ==
    BecomesVar(gej_add_var(acc, gej_rescale(gej_set_ge(Multiple[k]), z)), log + k)

AddGeVar(k) == BecomesVar(gej_add_ge_var(acc, Multiple[k]), log + k)

AddGe(k) ==
    /\ k # 0
    /\ Becomes(gej_add_ge(acc, Multiple[k]), log + k)

(* The other point comes as (x, y, 1 / bzinv).                               *)
AddZinvVar(k, bzinv) ==
    LET b == gej_rescale(gej_set_ge(Multiple[k]), Inv(bzinv))
    IN  Becomes(gej_add_zinv_var(acc, [x |-> b.x, y |-> b.y, infinity |-> b.infinity], bzinv),
                log + k)

Negate == Becomes(gej_neg(acc), -log)
Rescale(s) == Becomes(gej_rescale(acc, s), log)
SetGej == Becomes(gej_set_ge(ge_set_gej(acc)), log)
MulLambda == Becomes(gej_set_ge(ge_mul_lambda(ge_set_gej(acc))), lambda * log)

(* A point read from its x coordinate.                                       *)
SetXo(x, odd) ==
    LET read == ge_set_xo_var(x, odd)
        there == {k \in Scalars \ {0} : Multiple[k].x = x /\ fe_is_odd(Multiple[k].y) = odd}
    IN  /\ read.ret \/ there # {}
        /\ Becomes(gej_set_ge(read.r), IF read.ret THEN CHOOSE k \in there : TRUE ELSE 0)

(* The table as it is built, and after its z coordinates were made one.      *)
OddMultiples(n) ==
    /\ ~acc.infinity
    /\ \E t \in {odd_multiples_table(n, acc)} :
         LET z(i) == IF i = n THEN t.z ELSE Mul(t.z, Inv(ZSuffix(t.zr, i)))
             global == ge_table_set_globalz(t.pre, t.zr)
         IN  \/ made' = [i \in 1 .. n |-> Claim(t.pre[i], z(i), (2 * i - 1) * log)]
             \/ made' = [i \in 1 .. n |-> Claim(global[i], t.z, (2 * i - 1) * log)]
    /\ UNCHANGED <<acc, log, rzr>>

(* acc, a point with another z and infinity, in every order and number.      *)
SetAllGej(list) ==
    LET points == [i \in DOMAIN list |->
                      CASE list[i] = "acc" -> acc
                        [] list[i] = "G" -> gej_rescale(gej_set_ge(Multiple[1]), 2)
                        [] list[i] = "infinity" -> gej_infinity]
        affine == ge_set_all_gej_var(points)
        logs == [i \in DOMAIN list |->
                      CASE list[i] = "acc" -> log [] list[i] = "G" -> 1 [] list[i] = "infinity" -> 0]
    IN  /\ made' = [i \in DOMAIN list |-> Claim(affine[i], 1, logs[i])]
        /\ UNCHANGED <<acc, log, rzr>>

(* Bound: a returned ratio or a finished table ends the run.                 *)
Running == rzr = NoRatio /\ made = <<>>

Next ==
    /\ Running
    /\ \/ Double \/ Negate \/ SetGej \/ MulLambda
       \/ \E k \in Scalars :
           \/ AddGeVar(k) \/ AddGe(k)
           \/ \E z \in Fe \ {0} : AddVar(k, z) \/ AddZinvVar(k, z)
       \/ \E s \in Fe \ {0} : Rescale(s)
       \/ \E x \in Fe, odd \in BOOLEAN : SetXo(x, odd)
       \/ \E n \in 1 .. MaxTable : OddMultiples(n)
       \/ \E n \in 0 .. 3 : \E list \in [1 .. n -> {"acc", "G", "infinity"}] : SetAllGej(list)

Spec == Init /\ [][Next]_vars

-----------------------------------------------------------------------------
(* Whatever was done before, the accumulator is the point it has to be:      *)
(* doublings, infinity, opposite points and the points of equal or opposite  *)
(* y that the endomorphism gives are all added right (the case analysis at   *)
(* group_impl.h:708-727), and gej_eq_x_var knows its x coordinate. Every     *)
(* entry of a table is the multiple it stands for, with the z implied by the *)
(* ratios (ecmult_impl.h:59-74), with one z for all, or made affine.         *)
AccIsLog ==
    /\ Represents(acc, log)
    /\ ~acc.infinity => \A x \in Fe : gej_eq_x_var(x, acc) <=> x = Multiple[log].x
TableRight ==
    \A i \in DOMAIN made :
        LET g == made[i].ge
        IN  Represents([x |-> g.x, y |-> g.y, z |-> made[i].z, infinity |-> g.infinity], made[i].log)
GroupLaw == AccIsLog /\ TableRight

(* The ratio an operation returns takes the old z to the new one, where      *)
(* infinity means an implicit z of 0 (group.h:140-151); tables rely on it.   *)
ImplicitZ(a) == IF a.infinity THEN 0 ELSE a.z
ZRatioRight ==
    [][rzr' # NoRatio => ImplicitZ(acc') = Mul(ImplicitZ(acc), rzr')]_vars
=============================================================================
