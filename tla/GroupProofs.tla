----------------------------- MODULE GroupProofs -----------------------------
(***************************************************************************)
(* What the operators of Group satisfy for every order: the scalars are a  *)
(* commutative group under scalar_add, over which scalar_mul distributes,  *)
(* and sums of any length behave as sums.                                  *)
(***************************************************************************)
EXTENDS Group, WellFoundedInduction, TLAPS

(* One subtraction reduces a number below twice the modulus.                 *)
LEMMA SmallMod ==
    ASSUME NEW m \in Nat, NEW n \in Nat \ {0}, m < 2 * n
    PROVE  m % n = IF m < n THEN m ELSE m - n
  <1>1. /\ m \div n \in Nat
        /\ m % n \in 0 .. n - 1
        /\ m = n * (m \div n) + (m % n)
    BY Z3
  <1>2. m \div n < 2
    <2>1. n * (m \div n) <= m
      BY <1>1, Z3
    <2>2. ASSUME NEW q \in Nat, q >= 2 PROVE n * q >= 2 * n
      BY <2>2, Z3
    <2>3. CASE m \div n >= 2
      <3>1. n * (m \div n) >= 2 * n
        BY <2>2, <2>3, <1>1
      <3>2. n * (m \div n) \in Int
        BY <1>1, Z3
      <3> QED
        BY <2>1, <3>1, <3>2
    <2> QED
      BY <2>3, <1>1
  <1>3. CASE m \div n = 0
    BY <1>1, <1>3
  <1>4. CASE m \div n = 1
    BY <1>1, <1>4
  <1> QED
    BY <1>1, <1>2, <1>3, <1>4

(* The group operations, on scalars, without the modulus. *)
LEMMA AddIs ==
    ASSUME NEW a \in Scalars, NEW b \in Scalars
    PROVE  /\ scalar_add(a, b) \in Scalars
           /\ scalar_add(a, b) = IF a + b < N THEN a + b ELSE (a + b) - N
  <1>1. N \in Nat \ {0} /\ a + b \in Nat /\ a + b < 2 * N
    BY GroupAssumption DEF Scalars
  <1>2. scalar_add(a, b) = IF a + b < N THEN a + b ELSE (a + b) - N
    BY <1>1, SmallMod DEF scalar_add
  <1> QED
    BY <1>1, <1>2, GroupAssumption DEF Scalars

(* Negation yields a reduced scalar.                                         *)
LEMMA NegateIs ==
    ASSUME NEW a \in Scalars
    PROVE  scalar_negate(a) \in Scalars
  BY GroupAssumption DEF Scalars, scalar_negate

(* One is neutral for scalar_mul.                                            *)
LEMMA OneTimes ==
    ASSUME NEW a \in Scalars
    PROVE  scalar_mul(1, a) = a
  <1>1. 1 * a = a /\ a \in Nat /\ a < N /\ a < 2 * N /\ N \in Nat \ {0}
    BY GroupAssumption DEF Scalars
  <1> QED
    BY <1>1, SmallMod DEF scalar_mul

(* Tweaking a key adds the tweak to its discrete logarithm.                  *)
LEMMA TweakAddIs ==
    ASSUME NEW p \in Scalars, NEW t \in Scalars
    PROVE  pubkey_tweak_add(p, t) = scalar_add(p, t)
  BY OneTimes DEF pubkey_tweak_add, ecmult

(* Negation distributes over addition, and addition associates. *)
LEMMA NegateSum ==
    ASSUME NEW a \in Scalars, NEW b \in Scalars
    PROVE  scalar_negate(scalar_add(a, b)) = scalar_add(scalar_negate(a), scalar_negate(b))
  <1> DEFINE ab == scalar_add(a, b)
             na == scalar_negate(a)
             nb == scalar_negate(b)
  <1>1. ab \in Scalars /\ ab = IF a + b < N THEN a + b ELSE (a + b) - N
    BY AddIs
  <1>2. na \in Scalars /\ nb \in Scalars
    BY NegateIs
  <1>3. scalar_add(na, nb) = IF na + nb < N THEN na + nb ELSE (na + nb) - N
    BY <1>2, AddIs
  <1>4. /\ na = IF a = 0 THEN 0 ELSE N - a
        /\ nb = IF b = 0 THEN 0 ELSE N - b
        /\ scalar_negate(ab) = IF ab = 0 THEN 0 ELSE N - ab
    BY DEF scalar_negate
  <1> HIDE DEF ab, na, nb
  <1>5. scalar_negate(ab) = scalar_add(na, nb)
    BY <1>1, <1>2, <1>3, <1>4, GroupAssumption DEF Scalars
  <1> QED
    BY <1>5 DEF ab, na, nb

(* Addition of scalars associates.                                           *)
LEMMA AddAssoc ==
    ASSUME NEW a \in Scalars, NEW b \in Scalars, NEW c \in Scalars
    PROVE  scalar_add(scalar_add(a, b), c) = scalar_add(a, scalar_add(b, c))
  <1> DEFINE ab == scalar_add(a, b)
             bc == scalar_add(b, c)
  <1>1. ab \in Scalars /\ ab = IF a + b < N THEN a + b ELSE (a + b) - N
    BY AddIs
  <1>2. bc \in Scalars /\ bc = IF b + c < N THEN b + c ELSE (b + c) - N
    BY AddIs
  <1>3. scalar_add(ab, c) = IF ab + c < N THEN ab + c ELSE (ab + c) - N
    BY <1>1, AddIs
  <1>4. scalar_add(a, bc) = IF a + bc < N THEN a + bc ELSE (a + bc) - N
    BY <1>2, AddIs
  <1> HIDE DEF ab, bc
  <1>5. scalar_add(ab, c) = scalar_add(a, bc)
    BY <1>1, <1>2, <1>3, <1>4, GroupAssumption DEF Scalars
  <1> QED
    BY <1>5 DEF ab, bc

(* Negating twice is the identity.                                           *)
LEMMA NegateTwice ==
    ASSUME NEW a \in Scalars
    PROVE  scalar_negate(scalar_negate(a)) = a
  BY GroupAssumption DEF Scalars, scalar_negate

(* Zero is neutral for scalar_add.                                           *)
LEMMA AddZero ==
    ASSUME NEW a \in Scalars
    PROVE  /\ 0 \in Scalars
           /\ scalar_add(a, 0) = a
           /\ scalar_add(0, a) = a
  <1>1. 0 \in Scalars
    BY GroupAssumption DEF Scalars
  <1>2. /\ scalar_add(a, 0) = IF a + 0 < N THEN a + 0 ELSE (a + 0) - N
        /\ scalar_add(0, a) = IF 0 + a < N THEN 0 + a ELSE (0 + a) - N
    BY <1>1, AddIs
  <1> QED
    BY <1>1, <1>2, GroupAssumption DEF Scalars

(* Addition of scalars commutes.                                             *)
LEMMA AddCommutes ==
    ASSUME NEW a \in Scalars, NEW b \in Scalars
    PROVE  scalar_add(a, b) = scalar_add(b, a)
  BY GroupAssumption DEF scalar_add, Scalars

(* A number and its negation cancel, and nothing else does.                  *)
LEMMA NegateCancels ==
    ASSUME NEW a \in Scalars, NEW b \in Scalars
    PROVE  scalar_add(scalar_negate(a), b) = 0 <=> a = b
  <1>1. scalar_negate(a) \in Scalars
    BY NegateIs
  <1>2. scalar_negate(a) = IF a = 0 THEN 0 ELSE N - a
    BY DEF scalar_negate
  <1> DEFINE na == scalar_negate(a)
  <1>3. scalar_add(na, b) = IF na + b < N THEN na + b ELSE (na + b) - N
    BY <1>1, AddIs
  <1> HIDE DEF na
  <1> QED
    BY <1>1, <1>2, <1>3, GroupAssumption DEF Scalars, na

-----------------------------------------------------------------------------
(* A remainder is determined by being one.                                   *)
LEMMA ModUnique ==
    ASSUME NEW n \in Nat \ {0}, NEW q \in Nat, NEW r \in 0 .. n - 1
    PROVE  (n * q + r) % n = r
  BY Z3

(* Products of scalars are reduced and commute, and zero absorbs.            *)
LEMMA MulIs ==
    ASSUME NEW a \in Scalars, NEW b \in Scalars
    PROVE  /\ scalar_mul(a, b) \in Scalars
           /\ scalar_mul(a, b) = scalar_mul(b, a)
           /\ scalar_mul(0, b) = 0
  <1>1. a * b \in Nat /\ a * b = b * a /\ 0 * b = 0 /\ N \in Nat \ {0}
    BY GroupAssumption, Z3 DEF Scalars
  <1>2. (a * b) % N \in 0 .. N - 1 /\ 0 % N = 0
    BY <1>1, Z3
  <1> QED
    BY <1>1, <1>2 DEF scalar_mul, Scalars

(* A negated factor negates the product.                                     *)
LEMMA NegateFactor ==
    ASSUME NEW a \in Scalars, NEW b \in Scalars
    PROVE  scalar_mul(scalar_negate(a), b) = scalar_negate(scalar_mul(a, b))
  <1>1. CASE a = 0
    BY <1>1, MulIs, NegateIs DEF scalar_negate
  <1>2. CASE a # 0
    <2> DEFINE m == a * b  Q == m \div N  R == m % N
    <2>1. N \in Nat \ {0} /\ a \in Nat /\ a < N /\ b \in Nat
      BY GroupAssumption DEF Scalars
    <2>2. m \in Nat /\ Q \in Nat /\ R \in 0 .. N - 1 /\ m = N * Q + R
      <3>1. m \in Nat
        BY <2>1, Z3
      <3> HIDE DEF m
      <3> QED
        BY <2>1, <3>1, Z3
    <2>3. (N - a) * b = N * b - m /\ m <= N * b
      <3>1. (N - a) * b = N * b - a * b
        BY <2>1, Z3
      <3>2. a * b <= N * b
        BY <2>1, Z3
      <3> QED
        BY <3>1, <3>2
    <2>4. scalar_mul(scalar_negate(a), b) = (N * b - m) % N
      BY <1>2, <2>3 DEF scalar_mul, scalar_negate
    <2>5. scalar_negate(scalar_mul(a, b)) = IF R = 0 THEN 0 ELSE N - R
      BY DEF scalar_mul, scalar_negate
    <2> HIDE DEF m, Q, R
    <2>6. CASE R = 0
      <3>1. N * Q <= N * b
        BY <2>1, <2>2, <2>3, <2>6, Z3
      <3>2. b - Q \in Nat
        BY <2>1, <2>2, <3>1, Z3
      <3>3. N * b - m = N * (b - Q) + 0
        BY <2>1, <2>2, <2>6, Z3
      <3>4. (N * (b - Q) + 0) % N = 0
        <4>1. 0 \in 0 .. N - 1
          BY <2>1
        <4> QED
          BY <2>1, <3>2, <4>1, ModUnique
      <3> QED
        BY <2>4, <2>5, <2>6, <3>3, <3>4
    <2>7. CASE R # 0
      <3>1. N * Q < N * b
        BY <2>1, <2>2, <2>3, <2>7, Z3
      <3>2. b - Q - 1 \in Nat
        BY <2>1, <2>2, <3>1, Z3
      <3>3. N * b - m = N * (b - Q - 1) + (N - R)
        BY <2>1, <2>2, Z3
      <3>4. (N * (b - Q - 1) + (N - R)) % N = N - R
        <4>1. N - R \in 0 .. N - 1
          BY <2>1, <2>2, <2>7
        <4> QED
          BY <2>1, <3>2, <4>1, ModUnique
      <3> QED
        BY <2>4, <2>5, <2>7, <3>3, <3>4
    <2> QED
      BY <2>6, <2>7
  <1> QED
    BY <1>1, <1>2

-----------------------------------------------------------------------------
(* A number is the modulus times the quotient, plus the remainder.           *)
LEMMA DivIs ==
    ASSUME NEW n \in Nat \ {0}, NEW m \in Nat
    PROVE  /\ m \div n \in Nat
           /\ m % n \in 0 .. n - 1
           /\ m = n * (m \div n) + (m % n)
  BY Z3

(* Multiples of the modulus leave a remainder as it is.                      *)
LEMMA ModAddMultiple ==
    ASSUME NEW n \in Nat \ {0}, NEW m \in Nat, NEW k \in Nat
    PROVE  (m + n * k) % n = m % n
  <1>1. PICK q \in Nat, r \in 0 .. n - 1 : m = n * q + r
    BY DivIs
  <1>2. m % n = r
    BY <1>1, ModUnique
  <1>3. m + n * k = n * (q + k) + r /\ q + k \in Nat
    BY <1>1, Z3
  <1>4. (n * (q + k) + r) % n = r
    BY <1>3, ModUnique
  <1> QED
    BY <1>2, <1>3, <1>4

(* A factor may be reduced before the product is.                            *)
LEMMA ModFactor ==
    ASSUME NEW n \in Nat \ {0}, NEW m \in Nat, NEW c \in Nat
    PROVE  /\ ((m % n) * c) % n = (m * c) % n
           /\ (c * (m % n)) % n = (c * m) % n
  <1>1. PICK q \in Nat, r \in 0 .. n - 1 : m = n * q + r
    BY DivIs
  <1>2. m % n = r
    BY <1>1, ModUnique
  <1>3. m * c = r * c + n * (q * c) /\ q * c \in Nat /\ r * c \in Nat
    BY <1>1, Z3
  <1>4. (r * c) % n = (m * c) % n
    <2> DEFINE a == r * c  k == q * c
    <2>1. m * c = a + n * k /\ k \in Nat /\ a \in Nat
      BY <1>3
    <2> HIDE DEF a, k
    <2>2. (a + n * k) % n = a % n
      BY ONLY n \in Nat \ {0}, <2>1, ModAddMultiple, ZenonT(30)
    <2>3. (m * c) % n = a % n
      BY <2>1, <2>2
    <2> QED
      BY <2>3 DEF a
  <1>5. c * m = m * c /\ c * r = r * c
    BY <1>1, Z3
  <1> QED
    BY <1>2, <1>4, <1>5

(* A term may be reduced before the sum is.                                  *)
LEMMA ModTerm ==
    ASSUME NEW n \in Nat \ {0}, NEW m \in Nat, NEW c \in Nat
    PROVE  /\ ((m % n) + c) % n = (m + c) % n
           /\ (c + (m % n)) % n = (c + m) % n
  <1>1. PICK q \in Nat, r \in 0 .. n - 1 : m = n * q + r
    BY DivIs
  <1>2. m % n = r
    BY <1>1, ModUnique
  <1>3. m + c = (r + c) + n * q /\ r + c \in Nat
    BY <1>1, Z3
  <1>4. (r + c) % n = (m + c) % n
    <2> DEFINE a == r + c
    <2>1. m + c = a + n * q /\ q \in Nat /\ a \in Nat
      BY <1>1, <1>3
    <2> HIDE DEF a
    <2>2. (a + n * q) % n = a % n
      BY ONLY n \in Nat \ {0}, <2>1, ModAddMultiple, ZenonT(30)
    <2>3. (m + c) % n = a % n
      BY <2>1, <2>2
    <2> QED
      BY <2>3 DEF a
  <1>5. c + m = m + c /\ c + r = r + c
    BY <1>1, Z3
  <1> QED
    BY <1>2, <1>4, <1>5

(* Multiplication of scalars associates.                                     *)
LEMMA MulAssoc ==
    ASSUME NEW a \in Scalars, NEW b \in Scalars, NEW c \in Scalars
    PROVE  scalar_mul(scalar_mul(a, b), c) = scalar_mul(a, scalar_mul(b, c))
  <1>1. N \in Nat \ {0} /\ a \in Nat /\ b \in Nat /\ c \in Nat
    BY GroupAssumption DEF Scalars
  <1>2. a * b \in Nat /\ b * c \in Nat /\ (a * b) * c = a * (b * c)
    BY <1>1, Z3
  <1>3. (((a * b) % N) * c) % N = ((a * b) * c) % N
    BY <1>1, <1>2, ModFactor
  <1>4. (a * ((b * c) % N)) % N = (a * (b * c)) % N
    BY <1>1, <1>2, ModFactor
  <1> QED
    BY <1>2, <1>3, <1>4 DEF scalar_mul

(* Multiplication distributes over addition.                                 *)
LEMMA MulDistributes ==
    ASSUME NEW a \in Scalars, NEW b \in Scalars, NEW c \in Scalars
    PROVE  /\ scalar_mul(a, scalar_add(b, c)) = scalar_add(scalar_mul(a, b), scalar_mul(a, c))
           /\ scalar_mul(scalar_add(b, c), a) = scalar_add(scalar_mul(b, a), scalar_mul(c, a))
  <1>1. N \in Nat \ {0} /\ a \in Nat /\ b \in Nat /\ c \in Nat
    BY GroupAssumption DEF Scalars
  <1>2. /\ a * b \in Nat /\ a * c \in Nat /\ b + c \in Nat
        /\ a * (b + c) = a * b + a * c
    BY <1>1, Z3
  <1>3. (a * ((b + c) % N)) % N = (a * b + a * c) % N
    <2>1. (a * ((b + c) % N)) % N = (a * (b + c)) % N
      BY <1>1, <1>2, ModFactor
    <2> QED
      BY <1>2, <2>1
  <1>4. ASSUME NEW x \in Nat, NEW y \in Nat
        PROVE  ((x % N) + (y % N)) % N = (x + y) % N
    <2>1. y % N \in Nat
      BY <1>1, DivIs
    <2>2. ((x % N) + (y % N)) % N = (x + (y % N)) % N
      BY <1>1, <2>1, ModTerm
    <2>3. (x + (y % N)) % N = (x + y) % N
      BY <1>1, ModTerm
    <2> QED
      BY <2>2, <2>3
  <1>5. (((a * b) % N) + ((a * c) % N)) % N = (a * b + a * c) % N
    BY <1>2, <1>4
  <1>6. scalar_mul(a, scalar_add(b, c)) = scalar_add(scalar_mul(a, b), scalar_mul(a, c))
    BY <1>3, <1>5 DEF scalar_mul, scalar_add
  <1> QED
    BY <1>6, AddIs, MulIs

-----------------------------------------------------------------------------
(* Of a point and its negation one is even: even_y finds it, and is the same *)
(* for both.                                                                 *)
LEMMA EvenYIs ==
    ASSUME NEW p \in Points
    PROVE  /\ even_y(p) \in Points
           /\ ~fe_is_odd_y(even_y(p))
           /\ even_y(even_y(p)) = even_y(p)
  <1>1. N - p \in Points /\ scalar_negate(p) = N - p
    BY GroupAssumption DEF Points, Scalars, Infinity, scalar_negate
  <1>2. p \in OddPoints <=> N - p \notin OddPoints
    BY GroupAssumption
  <1> QED
    BY <1>1, <1>2 DEF even_y, fe_is_odd_y, ge_neg

-----------------------------------------------------------------------------
(* Induction over the natural numbers, for a set: a number that is not in it *)
(* would have a least one that is not.                                       *)
LEMMA Induct ==
    ASSUME NEW S, 0 \in S, \A n \in Nat : n \in S => n + 1 \in S
    PROVE  Nat \subseteq S
  <1> SUFFICES ASSUME ~(Nat \subseteq S) PROVE FALSE
    OBVIOUS
  <1> DEFINE Out == {n \in Nat : n \notin S}
  <1>1. Out # {} /\ Out \subseteq Nat
    OBVIOUS
  <1>2. PICK m \in Out : \A k \in Out : <<k, m>> \notin OpToRel(<, Nat)
    BY <1>1, WFMin, NatLessThanWellFounded, Zenon
  <1>3. \A k \in Out : ~(k < m)
    BY <1>1, <1>2 DEF OpToRel
  <1>4. m # 0 /\ m \in Nat
    OBVIOUS
  <1>5. m - 1 \in Nat /\ m - 1 \notin Out
    BY <1>3, <1>4
  <1> QED
    BY <1>4, <1>5

(* What Total chooses: the running totals.                                   *)
IsTotal(sum, start, term, n) ==
    sum = [i \in 0 .. n |-> IF i = 0 THEN start ELSE scalar_add(sum[i - 1], term[i])]

(* There are such totals, of any length.                                     *)
LEMMA TotalExists ==
    ASSUME NEW start, NEW term, NEW n \in Nat
    PROVE  \E sum : IsTotal(sum, start, term, n)
  <1> DEFINE S == {k \in Nat : \E sum : IsTotal(sum, start, term, k)}
  <1>1. 0 \in S
    <2> DEFINE sum == [i \in 0 .. 0 |-> start]
    <2>1. IsTotal(sum, start, term, 0)
      BY DEF IsTotal
    <2> QED
      BY <2>1
  <1>2. ASSUME NEW k \in Nat, k \in S
        PROVE  k + 1 \in S
    <2>1. PICK sum : IsTotal(sum, start, term, k)
      BY <1>2
    <2> DEFINE longer == [i \in 0 .. k + 1 |-> IF i <= k THEN sum[i] ELSE scalar_add(sum[k], term[k + 1])]
    <2>2. IsTotal(longer, start, term, k + 1)
      BY <2>1 DEF IsTotal
    <2> QED
      BY <2>2
  <1> HIDE DEF S
  <1>3. Nat \subseteq S
    BY <1>1, <1>2, Induct
  <1> QED
    BY <1>3 DEF S

(* Totals of different lengths agree where both are defined.                 *)
LEMMA TotalUnique ==
    ASSUME NEW start, NEW term, NEW n \in Nat, NEW m \in Nat, m <= n,
           NEW s, IsTotal(s, start, term, n), NEW t, IsTotal(t, start, term, m)
    PROVE  \A i \in 0 .. m : s[i] = t[i]
  <1> DEFINE S == {k \in Nat : k <= m => s[k] = t[k]}
  <1>1. 0 \in S
    BY DEF IsTotal
  <1>2. ASSUME NEW k \in Nat, k \in S
        PROVE  k + 1 \in S
    BY <1>2 DEF IsTotal
  <1> HIDE DEF S
  <1>3. Nat \subseteq S
    BY <1>1, <1>2, Induct
  <1> QED
    BY <1>3 DEF S

(* The turns of the loop.                                                    *)
LEMMA TotalIs ==
    ASSUME NEW start, NEW term
    PROVE  /\ Total(start, term, 0) = start
           /\ \A n \in Nat : Total(start, term, n + 1) = scalar_add(Total(start, term, n), term[n + 1])
  <1> DEFINE sum(k) == CHOOSE s : IsTotal(s, start, term, k)
  <1>1. \A k \in Nat : IsTotal(sum(k), start, term, k)
    BY TotalExists
  <1>2. \A k : Total(start, term, k) = sum(k)[k]
    BY DEF Total, IsTotal
  <1> HIDE DEF sum
  <1>3. sum(0)[0] = start
    BY <1>1 DEF IsTotal
  <1>4. ASSUME NEW n \in Nat
        PROVE  sum(n + 1)[n + 1] = scalar_add(sum(n)[n], term[n + 1])
    <2>1. sum(n + 1)[n] = sum(n)[n]
      BY <1>1, TotalUnique
    <2>2. sum(n + 1)[n + 1] = scalar_add(sum(n + 1)[n], term[n + 1])
      BY <1>1 DEF IsTotal
    <2> QED
      BY <2>1, <2>2
  <1> QED
    BY <1>2, <1>3, <1>4

(* A sum of scalars is a scalar.                                             *)
LEMMA TotalType ==
    ASSUME NEW n \in Nat, NEW start \in Scalars, NEW x, \A i \in 1 .. n : x[i] \in Scalars
    PROVE  Total(start, x, n) \in Scalars
  <1> DEFINE S == {k \in Nat : k <= n => Total(start, x, k) \in Scalars}
  <1>1. 0 \in S
    BY TotalIs
  <1>2. ASSUME NEW k \in Nat, k \in S, k + 1 <= n
        PROVE  Total(start, x, k + 1) \in Scalars
    <2>1. x[k + 1] \in Scalars /\ Total(start, x, k) \in Scalars
      BY <1>2
    <2>2. Total(start, x, k + 1) = scalar_add(Total(start, x, k), x[k + 1])
      BY TotalIs
    <2> QED
      BY <2>1, <2>2, AddIs
  <1>3. Nat \subseteq S
    <2>1. \A k \in Nat : k \in S => k + 1 \in S
      BY <1>2
    <2> HIDE DEF S
    <2> QED
      BY <1>1, <2>1, Induct
  <1> QED
    BY <1>3

(* (a + b) + (c + d) = (a + c) + (b + d).                                    *)
LEMMA AddPairs ==
    ASSUME NEW a \in Scalars, NEW b \in Scalars, NEW c \in Scalars, NEW d \in Scalars
    PROVE  scalar_add(scalar_add(a, b), scalar_add(c, d)) = scalar_add(scalar_add(a, c), scalar_add(b, d))
  <1>1. /\ scalar_add(b, d) \in Scalars /\ scalar_add(c, d) \in Scalars
        /\ scalar_add(b, scalar_add(c, d)) \in Scalars
    BY AddIs
  <1>2. scalar_add(scalar_add(a, b), scalar_add(c, d)) = scalar_add(a, scalar_add(b, scalar_add(c, d)))
    BY <1>1, AddAssoc
  <1>3. scalar_add(b, scalar_add(c, d)) = scalar_add(scalar_add(b, c), d)
    BY AddAssoc
  <1>4. scalar_add(scalar_add(b, c), d) = scalar_add(scalar_add(c, b), d)
    BY AddCommutes
  <1>5. scalar_add(scalar_add(c, b), d) = scalar_add(c, scalar_add(b, d))
    BY AddAssoc
  <1>6. scalar_add(a, scalar_add(c, scalar_add(b, d))) = scalar_add(scalar_add(a, c), scalar_add(b, d))
    BY <1>1, AddAssoc
  <1> QED
    BY <1>2, <1>3, <1>4, <1>5, <1>6

(* The sum of sums is the sum of the sums.                                   *)
LEMMA TotalAdds ==
    ASSUME NEW n \in Nat, NEW s \in Scalars, NEW t \in Scalars, NEW x, NEW y, NEW z,
           \A i \in 1 .. n : x[i] \in Scalars /\ y[i] \in Scalars /\ z[i] = scalar_add(x[i], y[i])
    PROVE  Total(scalar_add(s, t), z, n) = scalar_add(Total(s, x, n), Total(t, y, n))
  <1> DEFINE S == {k \in Nat : k <= n =>
                     Total(scalar_add(s, t), z, k) = scalar_add(Total(s, x, k), Total(t, y, k))}
  <1>1. 0 \in S
    BY TotalIs
  <1>2. ASSUME NEW k \in Nat, k \in S, k + 1 <= n
        PROVE  Total(scalar_add(s, t), z, k + 1)
                 = scalar_add(Total(s, x, k + 1), Total(t, y, k + 1))
    <2>1. /\ x[k + 1] \in Scalars /\ y[k + 1] \in Scalars
          /\ z[k + 1] = scalar_add(x[k + 1], y[k + 1])
      BY <1>2
    <2>2. Total(s, x, k) \in Scalars /\ Total(t, y, k) \in Scalars
      BY <1>2, TotalType
    <2>3. Total(scalar_add(s, t), z, k + 1)
            = scalar_add(scalar_add(Total(s, x, k), Total(t, y, k)), scalar_add(x[k + 1], y[k + 1]))
      <3>1. Total(scalar_add(s, t), z, k + 1) = scalar_add(Total(scalar_add(s, t), z, k), z[k + 1])
        BY ONLY k \in Nat, TotalIs, ZenonT(30)
      <3> QED
        BY <1>2, <2>1, <3>1
    <2>4. Total(s, x, k + 1) = scalar_add(Total(s, x, k), x[k + 1])
      BY ONLY k \in Nat, TotalIs, ZenonT(30)
    <2>5. Total(t, y, k + 1) = scalar_add(Total(t, y, k), y[k + 1])
      BY ONLY k \in Nat, TotalIs, ZenonT(30)
    <2> QED
      BY <2>1, <2>2, <2>3, <2>4, <2>5, AddPairs
  <1>3. Nat \subseteq S
    <2>1. \A k \in Nat : k \in S => k + 1 \in S
      BY <1>2
    <2> HIDE DEF S
    <2> QED
      BY <1>1, <2>1, Induct
  <1> QED
    BY <1>3

(* The sum of multiples is the multiple of the sum.                          *)
LEMMA TotalScales ==
    ASSUME NEW n \in Nat, NEW c \in Scalars, NEW s \in Scalars, NEW x, NEW y,
           \A i \in 1 .. n : x[i] \in Scalars /\ y[i] = scalar_mul(c, x[i])
    PROVE  Total(scalar_mul(c, s), y, n) = scalar_mul(c, Total(s, x, n))
  <1> DEFINE S == {k \in Nat : k <= n =>
                     Total(scalar_mul(c, s), y, k) = scalar_mul(c, Total(s, x, k))}
  <1>1. 0 \in S
    BY TotalIs
  <1>2. ASSUME NEW k \in Nat, k \in S, k + 1 <= n
        PROVE  Total(scalar_mul(c, s), y, k + 1) = scalar_mul(c, Total(s, x, k + 1))
    <2>1. x[k + 1] \in Scalars /\ y[k + 1] = scalar_mul(c, x[k + 1])
      BY <1>2
    <2>2. Total(s, x, k) \in Scalars
      BY <1>2, TotalType
    <2>3. Total(scalar_mul(c, s), y, k + 1)
            = scalar_add(scalar_mul(c, Total(s, x, k)), scalar_mul(c, x[k + 1]))
      <3>1. Total(scalar_mul(c, s), y, k + 1) = scalar_add(Total(scalar_mul(c, s), y, k), y[k + 1])
        BY TotalIs
      <3> QED
        BY <1>2, <2>1, <3>1
    <2>4. Total(s, x, k + 1) = scalar_add(Total(s, x, k), x[k + 1])
      BY TotalIs
    <2> QED
      BY <2>1, <2>2, <2>3, <2>4, MulDistributes
  <1>3. Nat \subseteq S
    <2>1. \A k \in Nat : k \in S => k + 1 \in S
      BY <1>2
    <2> HIDE DEF S
    <2> QED
      BY <1>1, <2>1, Induct
  <1> QED
    BY <1>3

(* Terms that are all zero but one, at most, add that one.                   *)
LEMMA TotalOfOne ==
    ASSUME NEW n \in Nat, NEW s \in Scalars, NEW x, NEW j \in 1 .. n, x[j] \in Scalars,
           \A i \in 1 .. n : i # j => x[i] = 0
    PROVE  Total(s, x, n) = scalar_add(s, x[j])
  <1> DEFINE S == {k \in Nat : k <= n =>
                     Total(s, x, k) = IF k < j THEN s ELSE scalar_add(s, x[j])}
  <1>1. 0 \in S
    BY TotalIs
  <1>2. ASSUME NEW k \in Nat, k \in S, k + 1 <= n
        PROVE  Total(s, x, k + 1) = IF k + 1 < j THEN s ELSE scalar_add(s, x[j])
    <2>1. Total(s, x, k + 1) = scalar_add(Total(s, x, k), x[k + 1])
      BY TotalIs
    <2>2. scalar_add(s, x[j]) \in Scalars
      BY AddIs
    <2>3. CASE k + 1 = j
      BY <1>2, <2>1, <2>3
    <2>4. CASE k + 1 # j
      <3>1. x[k + 1] = 0
        BY <1>2, <2>4
      <3>2. Total(s, x, k) = IF k + 1 < j THEN s ELSE scalar_add(s, x[j])
        BY <1>2, <2>4
      <3> QED
        BY <2>1, <2>2, <3>1, <3>2, AddZero
    <2> QED
      BY <2>3, <2>4
  <1>3. Nat \subseteq S
    <2>1. \A k \in Nat : k \in S => k + 1 \in S
      BY <1>2
    <2> HIDE DEF S
    <2> QED
      BY <1>1, <2>1, Induct
  <1> QED
    BY <1>3

(* The same for sums that start with zero.                                   *)
LEMMA ScalesFromZero ==
    ASSUME NEW n \in Nat, NEW c \in Scalars, NEW x, NEW y,
           \A i \in 1 .. n : x[i] \in Scalars /\ y[i] = scalar_mul(c, x[i])
    PROVE  Total(0, y, n) = scalar_mul(c, Total(0, x, n))
  <1>1. 0 \in Scalars
    BY GroupAssumption DEF Scalars
  <1>2. scalar_mul(c, 0) = 0
    BY <1>1, MulIs
  <1>3. Total(scalar_mul(c, 0), y, n) = scalar_mul(c, Total(0, x, n))
    BY <1>1, TotalScales
  <1> QED
    BY <1>2, <1>3

(* And for the sum of sums.                                                 *)
LEMMA AddsFromZero ==
    ASSUME NEW n \in Nat, NEW x, NEW y, NEW z,
           \A i \in 1 .. n : x[i] \in Scalars /\ y[i] \in Scalars /\ z[i] = scalar_add(x[i], y[i])
    PROVE  Total(0, z, n) = scalar_add(Total(0, x, n), Total(0, y, n))
  <1>1. 0 \in Scalars
    BY GroupAssumption DEF Scalars
  <1>2. Total(scalar_add(0, 0), z, n) = scalar_add(Total(0, x, n), Total(0, y, n))
    BY <1>1, TotalAdds
  <1>3. scalar_add(0, 0) = 0
    BY <1>1, AddZero
  <1> QED
    BY <1>2, <1>3

(* Terms that are all zero add nothing.                                      *)
LEMMA TotalOfNone ==
    ASSUME NEW n \in Nat, NEW s \in Scalars, NEW x, \A i \in 1 .. n : x[i] = 0
    PROVE  Total(s, x, n) = s
  <1>1. CASE n = 0
    BY <1>1, TotalIs
  <1>2. CASE n # 0
    <2>1. 1 \in 1 .. n /\ 0 \in Scalars /\ scalar_add(s, 0) = s
      BY <1>2, AddZero
    <2> QED
      BY <2>1, TotalOfOne
  <1> QED
    BY <1>1, <1>2

(* What a sum starts with may be added in the end.                           *)
LEMMA TotalStart ==
    ASSUME NEW n \in Nat, NEW s \in Scalars, NEW x, \A i \in 1 .. n : x[i] \in Scalars
    PROVE  Total(s, x, n) = scalar_add(s, Total(0, x, n))
  <1> DEFINE zeros == [i \in 1 .. n |-> 0]
  <1>1. 0 \in Scalars /\ scalar_add(s, 0) = s
    BY AddZero
  <1>2. \A i \in 1 .. n : zeros[i] = 0 /\ x[i] = scalar_add(zeros[i], x[i])
    BY AddZero
  <1> HIDE DEF zeros
  <1>3. Total(s, zeros, n) = s
    BY <1>2, TotalOfNone
  <1>4. Total(scalar_add(s, 0), x, n) = scalar_add(Total(s, zeros, n), Total(0, x, n))
    BY <1>1, <1>2, TotalAdds
  <1> QED
    BY <1>1, <1>3, <1>4
=============================================================================
