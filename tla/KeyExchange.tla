---------------------------- MODULE KeyExchange -----------------------------
(***************************************************************************)
(* Constant-time multiplication of a point, src/ecmult_const_impl.h, on    *)
(* the coordinates of module Curve, and its use by secp256k1_ecdh: a state *)
(* is a call and its outcome.                                              *)
(*                                                                         *)
(* Encodings of points as pairs of field elements that look random, and    *)
(* the key exchange on them: src/modules/ellswift/main_impl.h. Two parties *)
(* each make an encoding (u, t) of their public key, a party may also get  *)
(* any other pair, and derive a secret from the two.                       *)
(***************************************************************************)
EXTENDS Curve

CONSTANTS
    GROUP_SIZE,   \* ECMULT_CONST_GROUP_SIZE
    HALF,         \* bits that hold half a scalar or its negation: 128
    Denominators, \* bound: those of x coordinates given as fractions
    Multiplied, Multipliers  \* bound: logarithms of points, and scalars

TABLE_SIZE == 2 ^ (GROUP_SIZE - 1)
GROUPS == (HALF + GROUP_SIZE) \div GROUP_SIZE
BITS == GROUPS * GROUP_SIZE
K == ((2 ^ BITS - 2 ^ (HALF + 1) - 1) * (1 + lambda)) % N
S_OFFSET == 2 ^ HALF

(* What scalar_split_lambda promises (see ScalarLimbs): any two short parts. *)
Short(k) == k < 2 ^ HALF \/ N - k < 2 ^ HALF
split_lambda(k) ==
    {s \in {<<(k - lambda * r2) % N, r2>> : r2 \in {x \in Scalars : Short(x)}} : Short(s[1])}

EcmultConstAssumption ==
    /\ {GROUP_SIZE, HALF} \subseteq Nat \ {0} /\ N % 2 = 1
    /\ 2 ^ GROUP_SIZE - 1 < N /\ 2 ^ (HALF + 1) <= N
    /\ (lambda * lambda + lambda + 1) % N = 0
    /\ \A k \in Scalars : split_lambda(k) # {}
    /\ Denominators \subseteq Fe \ {0} /\ Multiplied \cup Multipliers \subseteq Scalars

-----------------------------------------------------------------------------
scalar_half(a) == IF a % 2 = 0 THEN a \div 2 ELSE (a + N) \div 2

(* The bits of v1 and v2 are to be read as signs.                            *)
Recoded(q) ==
    {<<(s[1] + S_OFFSET) % N, (s[2] + S_OFFSET) % N>> : s \in split_lambda(scalar_half((q + K) % N))}

odd_multiples_table_globalz(a) ==
    LET Global(t) == [pre |-> ge_table_set_globalz(t.pre, t.zr), z |-> t.z]
    IN  Global(odd_multiples_table(TABLE_SIZE, a))

(* Faulty variant: takes the bits of a negative number as they are.          *)
table_get_ge_unflipped(pre, n) ==
    LET negative == n \div TABLE_SIZE = 0
        entry == pre[(n % TABLE_SIZE) + 1]
    IN  IF negative THEN [entry EXCEPT !.y = Neg(@)] ELSE entry
table_get_ge(pre, n) ==
    LET negative == n \div TABLE_SIZE = 0
        entry == pre[((IF negative THEN -1 - n ELSE n) % TABLE_SIZE) + 1]
    IN  IF negative THEN [entry EXCEPT !.y = Neg(@)] ELSE entry

gej_doubled(r) == LET d[j \in 0 .. GROUP_SIZE] == IF j = 0 THEN r ELSE gej_double(d[j - 1]) IN d[GROUP_SIZE]

(* From the top group of bits down; points are affine on an isomorphic curve *)
(* on which the tables have z = 1.                                           *)
SumOfGroups(pre_a, pre_a_lam, v) ==
    LET bits(k, group) == (v[k] \div 2 ^ (group * GROUP_SIZE)) % 2 ^ GROUP_SIZE
        Upper(group, above) ==
            IF group = GROUPS - 1 THEN gej_set_ge(table_get_ge(pre_a, bits(1, group)))
            ELSE gej_add_ge(gej_doubled(above), table_get_ge(pre_a, bits(1, group)))
        r[group \in 0 .. GROUPS - 1] ==
            gej_add_ge(Upper(group, r[group + 1]), table_get_ge(pre_a_lam, bits(2, group)))
    IN  r[0]
TableProduct(table, v) ==
    LET pre_a_lam == [i \in DOMAIN table.pre |-> ge_mul_lambda(table.pre[i])]
    IN  [SumOfGroups(table.pre, pre_a_lam, v) EXCEPT !.z = Mul(@, table.z)]
ecmult_const(a, v) ==
    IF a.infinity THEN gej_infinity
    ELSE TableProduct(odd_multiples_table_globalz(gej_set_ge(a)), v)

is_square_var(a) == fe_sqrt(a).ret
ge_x_on_curve_var(x) == is_square_var(Add(Mul(x, Sqr(x)), B))
ge_x_frac_on_curve_var(n, d) == is_square_var(Add(Mul(d, Mul(n, Sqr(n))), Mul(B, Sqr(Sqr(d)))))

(* The x coordinate of q * (n / d, y), without looking for y. A denominator  *)
(* of NoDenominator stands for NULL.                                         *)
NoDenominator == 0
Unknown == [ret |-> FALSE, x |-> 0]
OverDenominator(rj, dg) == Mul(rj.x, Inv(Mul(Sqr(rj.z), dg)))
XOnly(n, g, dg, v, known_on_curve) ==
    IF ~known_on_curve /\ ~is_square_var(dg) THEN Unknown
    ELSE [ret |-> TRUE, x |-> OverDenominator(ecmult_const(ge(Mul(g, n), Sqr(g)), v), dg)]
ecmult_const_xonly(n, d, v, known_on_curve) ==
    LET g == Add(Mul(n, Sqr(n)), IF d = NoDenominator THEN B ELSE Mul(Mul(Sqr(d), B), d))
    IN  XOnly(n, g, IF d = NoDenominator THEN g ELSE Mul(g, d), v, known_on_curve)

-----------------------------------------------------------------------------
VARIABLES
    call,    \* the point or x coordinate, and the scalar
    result

const_vars == <<call, result>>

None == <<>>
ConstInit == call = None /\ result = None

(* secp256k1_ecdh: a secret that is zero or too large is replaced by one, to *)
(* be refused in the end. hash is what hashfp is given, the coordinates of   *)
(* the point; hashes is what it returns, always 1 for the built-in one.      *)
ecdh(k, secret, hashes) ==
    LET overflow == secret = 0 \/ secret >= N
    IN  /\ call' = <<"ecdh", k, secret, hashes>>
        /\ \E v \in Recoded(IF overflow THEN 1 ELSE secret) :
             \E pt \in {ge_set_gej(ecmult_const(Multiple[k], v))} :
                result' = [ret |-> hashes /\ ~overflow, hash |-> <<fe_is_odd(pt.y), pt.x>>]

Multiply(k, q) ==
    /\ call' = <<"const", k, q>>
    /\ \E v \in Recoded(q) : result' = ecmult_const(Multiple[k], v)

MultiplyX(x, d, q) ==
    LET n == IF d = NoDenominator THEN x ELSE Mul(x, d)
        known == {FALSE, ge_x_on_curve_var(x)}
    IN  /\ call' = <<"xonly", x, q>>
        /\ \E v \in Recoded(q), known_on_curve \in known :
             result' = ecmult_const_xonly(n, d, v, known_on_curve)

ConstNext ==
    /\ call = None
    /\ \/ \E k \in Multiplied \ {0}, secret \in Multipliers \cup {N, N + 1}, hashes \in BOOLEAN :
             ecdh(k, secret, hashes)
       \/ \E k \in Multiplied, q \in Multipliers : Multiply(k, q)
       \/ \E x \in Fe, d \in Denominators \cup {NoDenominator}, q \in Multipliers \ {0} : MultiplyX(x, d, q)
    /\ UNCHANGED vars

-----------------------------------------------------------------------------
(* For every point and scalar and every split of it the product is right,    *)
(* also where the additions meet equal or opposite points or infinity; for   *)
(* x coordinates on the curve alone it is right, others are noticed; both    *)
(* sides of a key exchange get the same secret, and a bad key or a hash      *)
(* function that fails never does.                                           *)
Product(k, q) == Multiple[(k * q) % N]
ConstRight ==
    call # None =>
      LET k == call[2]  q == call[3] IN
      CASE call[1] = "const" -> Represents(result, (k * q) % N)
        [] call[1] = "ecdh" ->
             LET valid == q \in 1 .. N - 1
                 pt == Product(k, IF valid THEN q ELSE 1)
             IN  (result.ret <=> call[4] /\ valid) /\ result.hash = <<fe_is_odd(pt.y), pt.x>>
        [] call[1] = "xonly" ->
             LET logs == {l \in Scalars \ {0} : Multiple[l].x = k}
             IN  /\ result.ret <=> logs # {}
                 /\ \A l \in logs : result.x = Product(l, q).x

-----------------------------------------------------------------------------
CONSTANTS SecretKeys, Hashed   \* bound: secret keys, 0 for an invalid one, and the u tried

EllSwiftAssumption ==
    /\ EcmultConstAssumption
    /\ \A x \in Fe : Add(Mul(x, Sqr(x)), B) # 0
    /\ Add(Add(Sqr(beta), beta), 1) = 0
    /\ SecretKeys \subseteq Scalars /\ Hashed \subseteq Fe \ {0}

(* c1 to c4 are (sqrt(-3) - 1) / 2 and its like, cube roots of 1 and -1.     *)
c2 == beta
c1 == Neg(Add(beta, 1))
c3 == Neg(c1)
c4 == Neg(c2)
Cubic(u) == Add(Mul(u, Sqr(u)), B)

(* Faulty variant: does not look out for g + s = 0.                          *)
SquareOfT(g, s) == s
SquareOrFourTimes(g, s) == IF Add(g, s) = 0 THEN Mul(4, s) ELSE s

xswiftec_frac_var(u0, t) ==
    LET u == IF u0 = 0 THEN 1 ELSE u0
        g == Cubic(u)
        s == SquareOrFourTimes(g, IF t = 0 THEN 1 ELSE Sqr(t))
        gs == Add(g, s)
        d == Mul(3, Mul(s, Sqr(u)))
        n3 == Sub(Mul(d, u), Sqr(gs))
        n2 == Mul(Add(Mul(c2, g), Mul(c1, s)), u)
    IN  IF ge_x_frac_on_curve_var(n3, d) THEN [xn |-> n3, xd |-> d]
        ELSE IF ge_x_frac_on_curve_var(n2, gs) THEN [xn |-> n2, xd |-> gs]
        ELSE [xn |-> Neg(Add(n2, Mul(gs, u))), xd |-> gs]

xswiftec_var(u, t) == LET f == xswiftec_frac_var(u, t) IN Mul(f.xn, Inv(f.xd))
swiftec_var(u, t) == ge_set_xo_var(xswiftec_var(u, t), fe_is_odd(t))

(* A t for x and u, or NoT; c picks the formula and the signs of two roots.  *)
NoT == -1
Root(a) == fe_sqrt(a).r
Completed(u, s, v, c) ==
    LET w == IF c % 2 = (c \div 4) % 2 THEN Neg(Root(s)) ELSE Root(s)
    IN  Mul(w, Add(Mul(u, IF c % 2 = 1 THEN c4 ELSE c3), v))

(* By the first two formulas of the decoder, unless the third has priority.  *)
InverseByX(x, u, c) ==
    LET m == Neg(Add(x, u))
        s0 == Add(Neg(Sqr(m)), Mul(u, x))
        g == Cubic(u)
    IN  IF ge_x_on_curve_var(m) \/ ~is_square_var(Mul(s0, g)) THEN NoT
        ELSE Completed(u, Mul(Inv(s0), g), x, c)

(* By the third.                                                             *)
InverseByDifference(x, u, c) ==
    LET s == Sub(x, u)
        q == Neg(Mul(Add(Mul(3, Mul(s, Sqr(u))), Mul(4, Cubic(u))), s))
        r == Root(q)
    IN  IF ~is_square_var(s) \/ ~is_square_var(q) \/ (c % 2 = 1 /\ r = 0) \/ s = 0 THEN NoT
        ELSE Completed(u, s, Half(Sub(Mul(Inv(s), r), u)), c)

xswiftec_inv_var(x, u, c) ==
    IF (c \div 2) % 2 = 0 THEN InverseByX(x, u, c) ELSE InverseByDifference(x, u, c)

(* The loop over hashed u and c ends with any pair that has an inverse; the  *)
(* sign of t is that of y.                                                   *)
elligatorswift_var(pt) ==
    {LET t == xswiftec_inv_var(pt.x, uc[1], uc[2])
     IN  <<uc[1], IF fe_is_odd(t) # fe_is_odd(pt.y) THEN Neg(t) ELSE t>> :
        uc \in {c \in Hashed \X (0 .. 7) : xswiftec_inv_var(pt.x, c[1], c[2]) # NoT}}

-----------------------------------------------------------------------------
VARIABLES
    sk,      \* secret keys of parties 0 and 1
    ell,     \* the encoding a party published
    shared   \* what a party derived

swift_vars == <<sk, ell, shared>>

Parties == 0 .. 1

SwiftInit ==
    /\ sk \in [Parties -> SecretKeys]
    /\ ell = [i \in Parties |-> None] /\ shared = [i \in Parties |-> None]

ellswift_create(i) ==
    /\ ell[i] = None
    /\ \E e \in elligatorswift_var(Multiple[IF sk[i] = 0 THEN 1 ELSE sk[i]]) :
         ell' = [ell EXCEPT ![i] = IF sk[i] = 0 THEN <<0, 0>> ELSE e]
    /\ UNCHANGED <<sk, shared>>

(* Bound: instead of party 1, somebody sends any pair.                       *)
Foreign(i) ==
    /\ i = 1 /\ ell[i] = None
    /\ \E e \in Fe \X Fe : ell' = [ell EXCEPT ![i] = e]
    /\ sk' = [sk EXCEPT ![i] = CHOOSE k \in Scalars : Multiple[k] = swiftec_var(ell'[i][1], ell'[i][2]).r]
    /\ UNCHANGED shared

(* hashes is what hashfp returns, and hash what it is given.                 *)
ellswift_xdh(i, hashes) ==
    /\ ell[0] # None /\ ell[1] # None /\ shared[i] = None
    /\ LET theirs == ell[1 - i]
           frac == xswiftec_frac_var(theirs[1], theirs[2])
       IN  \E v \in Recoded(IF sk[i] = 0 THEN 1 ELSE sk[i]) :
             shared' = [shared EXCEPT ![i] =
                 [ret |-> hashes /\ sk[i] # 0, hashes |-> hashes,
                  hash |-> <<ell[0], ell[1], ecmult_const_xonly(frac.xn, frac.xd, v, TRUE).x>>]]
    /\ UNCHANGED <<sk, ell>>

SwiftNext ==
    /\ \E i \in Parties :
         ellswift_create(i) \/ Foreign(i) \/ \E hashes \in BOOLEAN : ellswift_xdh(i, hashes)
    /\ UNCHANGED <<vars, const_vars>>

-----------------------------------------------------------------------------
(* Every pair decodes to a point; an encoding decodes to the point it was    *)
(* made from, with its y; and the inverses are all different and all there   *)
(* are, but for the exceptions main_impl.h:149-162 lists.                    *)
Decodes ==
    \A i \in Parties : ell[i] # None /\ sk[i] # 0 =>
        swiftec_var(ell[i][1], ell[i][2]) = [ret |-> TRUE, r |-> Multiple[sk[i]]]
InversesComplete(x, u) ==
    LET found == [c \in 0 .. 7 |-> xswiftec_inv_var(x, u, c)]
        there == {t \in Fe \ {0} : xswiftec_var(u, t) = x /\ Add(Cubic(u), Sqr(t)) # 0}
    IN  /\ {found[c] : c \in 0 .. 7} \ {NoT} = there
        /\ \A c1_, c2_ \in 0 .. 7 : found[c1_] = found[c2_] /\ found[c1_] # NoT => c1_ = c2_

(* Both parties derive the same secret, that of the product of their keys,   *)
(* and a call succeeds with a valid key and a hash function that does.       *)
SecretsAgree ==
    \A i \in Parties : shared[i] # None =>
        /\ shared[i].ret <=> shared[i].hashes /\ sk[i] # 0
        /\ sk[0] # 0 /\ sk[1] # 0 =>
             shared[i].hash = <<ell[0], ell[1], Multiple[(sk[0] * sk[1]) % N].x>>

SwiftRight ==
    /\ Decodes /\ SecretsAgree
    /\ ell[0] = None /\ ell[1] = None /\ sk[0] # 0 =>
         /\ \A u \in Fe, t \in Fe : swiftec_var(u, t).ret
         /\ \A k \in Scalars \ {0}, u \in Fe \ {0} : InversesComplete(Multiple[k].x, u)
=============================================================================
