-------------------------- MODULE SignatureProofs ---------------------------
(***************************************************************************)
(* What Keys says of secret keys, keypairs and Schnorr signatures, and     *)
(* Ecdsa of ECDSA signatures, proved for every group order, every choice   *)
(* of odd points and of X coordinates, and every sequence of calls; and    *)
(* what HashFunctions says of SHA-256 and HMAC, for every size of block    *)
(* and digest and every way to cut a message into writes, and of the       *)
(* nonces drawn from HMAC, for every length of their arguments; and what   *)
(* EcmultGen says of the multiplication of the generator, for every comb   *)
(* and every blinding.                                                     *)
(***************************************************************************)
EXTENDS Keys, Ecdsa, HashFunctions, EcmultGen, GroupProofs, FiniteSetTheorems

(* Reducing what is already a scalar changes nothing.                        *)
LEMMA SetIs ==
    ASSUME NEW b \in Nat
    PROVE  /\ scalar_set_b32(b) \in Scalars
           /\ ~Overflows(b) => scalar_set_b32(b) = b /\ b \in Scalars
  <1>1. N \in Nat \ {0}
    BY GroupAssumption
  <1>2. b % N \in 0 .. N - 1
    BY <1>1, Z3
  <1>3. b < N => b % N = b
    BY <1>1, SmallMod
  <1> QED
    BY <1>1, <1>2, <1>3 DEF scalar_set_b32, Overflows, Scalars

(* The public key of a string: its number if that is a secret key, and a     *)
(* zeroed object otherwise.                                                  *)
LEMMA CreateIs ==
    ASSUME NEW b \in Nat
    PROVE  /\ pubkey_create(b).object \in Scalars
           /\ pubkey_create(b).object = IF scalar_set_b32_seckey(b) THEN b ELSE Failed
           /\ scalar_set_b32_seckey(b) => b \in Points /\ scalar_set_b32(b) = b
  <1>1. scalar_set_b32_seckey(b) => b \in Points /\ scalar_set_b32(b) = b
    BY SetIs DEF scalar_set_b32_seckey, Points, Infinity
  <1>2. pubkey_create(b).object = IF scalar_set_b32_seckey(b) THEN scalar_set_b32(b) ELSE Failed
    BY DEF pubkey_create, Outcome
  <1>3. Failed \in Scalars
    BY AddZero, GroupAssumption DEF Failed, Scalars
  <1> QED
    BY <1>1, <1>2, <1>3 DEF Points

(* A scalar is its own public key, for zero stands for both failures.        *)
LEMMA ScalarsCreate ==
    ASSUME NEW k \in Scalars
    PROVE  k \in Nat /\ pubkey_create(k).object = k
  BY CreateIs, GroupAssumption DEF Scalars, scalar_set_b32_seckey, Overflows, Failed

-----------------------------------------------------------------------------
(* The calls come in pairs, one on a secret key and one on its public key,   *)
(* that succeed or fail together and leave objects that belong together.     *)
Paired(sec, pub) ==
    /\ sec.ret = pub.ret
    /\ sec.object \in Scalars
    /\ pub.object = sec.object

(* The keys before the call: a valid pair, or a zeroed public key.           *)
Belongs(sec, pub) ==
    /\ sec \in Nat
    /\ pub = pubkey_create(sec).object

(* The public key is there exactly if the secret key is valid, and its number. *)
LEMMA BelongsIs ==
    ASSUME NEW sec, NEW pub, Belongs(sec, pub)
    PROVE  /\ pub \in Scalars
           /\ pub # Failed <=> scalar_set_b32_seckey(sec)
           /\ scalar_set_b32_seckey(sec) =>
                pub \in Points /\ pub = sec /\ scalar_set_b32(sec) = pub
  BY CreateIs, GroupAssumption DEF Belongs, Failed, Points, Infinity

(* Negating both.                                                           *)
LEMMA NegatePaired ==
    ASSUME NEW sec, NEW pub, Belongs(sec, pub)
    PROVE  Paired(seckey_negate(sec), pubkey_negate(pub))
  <1>1. 0 \in Scalars
    BY GroupAssumption DEF Scalars
  <1>2. CASE scalar_set_b32_seckey(sec)
    <2>1. pub \in Scalars /\ pub # Failed /\ scalar_set_b32(sec) = pub
      BY <1>2, BelongsIs
    <2>2. scalar_negate(pub) \in Scalars
      BY <2>1, NegateIs
    <2> QED
      BY <1>2, <2>1, <2>2 DEF Paired, seckey_negate, pubkey_negate, Outcome, ge_neg
  <1>3. CASE ~scalar_set_b32_seckey(sec)
    <2>1. pub = Failed
      BY <1>3, BelongsIs
    <2>2. seckey_negate(sec) = [object |-> Failed, ret |-> FALSE]
      BY <1>3 DEF seckey_negate, Outcome, scalar_set_b32_seckey
    <2>3. pubkey_negate(pub) = [object |-> Failed, ret |-> FALSE]
      BY <2>1 DEF pubkey_negate, Outcome
    <2> QED
      BY <1>1, <2>2, <2>3 DEF Paired, Failed
  <1> QED
    BY <1>2, <1>3

(* Adding a tweak to both: the sum is zero for both or for neither.          *)
LEMMA TweakAddPaired ==
    ASSUME NEW sec, NEW pub, Belongs(sec, pub), NEW tweak \in Nat
    PROVE  Paired(seckey_tweak_add(sec, tweak), ec_pubkey_tweak_add(pub, tweak))
  <1>1. 0 \in Scalars
    BY GroupAssumption DEF Scalars
  <1> DEFINE t == scalar_set_b32(tweak)
  <1>2. t \in Scalars
    BY SetIs
  <1>3. CASE scalar_set_b32_seckey(sec)
    <2>1. pub \in Scalars /\ pub # Failed /\ scalar_set_b32(sec) = pub
      BY <1>3, BelongsIs
    <2>2. SeckeySum(sec, tweak) = scalar_add(pub, t) /\ scalar_add(pub, t) \in Scalars
      BY <1>2, <2>1, AddIs DEF SeckeySum
    <2>3. pubkey_tweak_add(pub, t) = scalar_add(pub, t)
      BY <1>2, <2>1, TweakAddIs
    <2> HIDE DEF t
    <2>4. /\ seckey_tweak_add(sec, tweak)
               = Outcome(scalar_add(pub, t), ~Overflows(tweak) /\ scalar_add(pub, t) # 0)
          /\ ec_pubkey_tweak_add(pub, tweak)
               = Outcome(scalar_add(pub, t), ~Overflows(tweak) /\ scalar_add(pub, t) # 0)
      BY <1>3, <2>1, <2>2, <2>3
         DEF seckey_tweak_add, ec_pubkey_tweak_add, TweakFails, Infinity, t, Outcome
    <2> QED
      BY <1>1, <2>2, <2>4 DEF Paired, Outcome, Failed
  <1>4. CASE ~scalar_set_b32_seckey(sec)
    <2>1. pub = Failed
      BY <1>4, BelongsIs
    <2> QED
      BY <1>1, <1>4, <2>1 DEF Paired, seckey_tweak_add, ec_pubkey_tweak_add, Outcome, Failed
  <1> QED
    BY <1>3, <1>4

(* Multiplying both by a tweak.                                              *)
LEMMA TweakMulPaired ==
    ASSUME NEW sec, NEW pub, Belongs(sec, pub), NEW tweak \in Nat
    PROVE  Paired(seckey_tweak_mul(sec, tweak), pubkey_tweak_mul(pub, tweak))
  <1>1. 0 \in Scalars
    BY GroupAssumption DEF Scalars
  <1> DEFINE t == scalar_set_b32(tweak)
  <1>2. t \in Scalars
    BY SetIs
  <1>3. CASE scalar_set_b32_seckey(sec)
    <2>1. pub \in Scalars /\ pub # Failed /\ scalar_set_b32(sec) = pub
      BY <1>3, BelongsIs
    <2>2. scalar_mul(pub, t) \in Scalars /\ scalar_mul(t, pub) = scalar_mul(pub, t)
      BY <1>2, <2>1, MulIs
    <2>3. ecmult(pub, t, 0) = scalar_mul(pub, t)
      BY <2>2, AddZero DEF ecmult
    <2> HIDE DEF t
    <2>4. /\ seckey_tweak_mul(sec, tweak) = Outcome(scalar_mul(pub, t), ~Overflows(tweak) /\ t # 0)
          /\ pubkey_tweak_mul(pub, tweak) = Outcome(scalar_mul(pub, t), ~Overflows(tweak) /\ t # 0)
      BY <1>3, <2>1, <2>3 DEF seckey_tweak_mul, pubkey_tweak_mul, t, Outcome
    <2> QED
      BY <1>1, <2>2, <2>4 DEF Paired, Outcome, Failed
  <1>4. CASE ~scalar_set_b32_seckey(sec)
    <2>1. pub = Failed
      BY <1>4, BelongsIs
    <2> QED
      BY <1>1, <1>4, <2>1 DEF Paired, seckey_tweak_mul, pubkey_tweak_mul, Outcome, Failed
  <1> QED
    BY <1>3, <1>4

(* The sum with another key, whose secret part the model adds as a tweak.    *)
LEMMA CombinePaired ==
    ASSUME NEW sec, NEW pub, Belongs(sec, pub), pub # Failed,
           NEW other \in Nat, scalar_set_b32_seckey(other)
    PROVE  Paired(seckey_tweak_add(sec, other), pubkey_combine(pub, pubkey_create(other).object))
  <1>1. 0 \in Scalars
    BY GroupAssumption DEF Scalars
  <1>2. pub \in Scalars /\ scalar_set_b32(sec) = pub /\ scalar_set_b32_seckey(sec)
    BY BelongsIs
  <1>3. /\ other \in Scalars /\ scalar_set_b32(other) = other
        /\ pubkey_create(other).object = other /\ ~Overflows(other)
    BY CreateIs DEF Points, scalar_set_b32_seckey
  <1>4. /\ SeckeySum(sec, other) = scalar_add(pub, other)
        /\ scalar_add(pub, other) \in Scalars
        /\ gej_add(gej_add(Infinity, pub), other) = scalar_add(pub, other)
        /\ gej_add(pub, other) = scalar_add(pub, other)
    BY <1>2, <1>3, AddIs, AddZero DEF SeckeySum, gej_add, Infinity
  <1>5. /\ seckey_tweak_add(sec, other) = Outcome(scalar_add(pub, other), scalar_add(pub, other) # 0)
        /\ pubkey_combine(pub, other) = Outcome(scalar_add(pub, other), scalar_add(pub, other) # 0)
    BY <1>2, <1>3, <1>4 DEF seckey_tweak_add, pubkey_combine, Infinity, Outcome
  <1> QED
    BY <1>1, <1>3, <1>4, <1>5 DEF Paired, Outcome, Failed

-----------------------------------------------------------------------------
(* The x-only key of a keypair, and the secret key that goes with it: the    *)
(* same number, of the point with even y.                                    *)
LEMMA XonlyIs ==
    ASSUME NEW k \in Points, NEW kp, kp = [sk |-> k, pk |-> k]
    PROVE  /\ Loads(kp) /\ keypair_load(kp) = kp
           /\ xonly_pub(kp.pk) = even_y(k)
           /\ EvenSecret(kp) = even_y(k)
           /\ even_y(k) \in Points
  <1>1. k \in Scalars /\ k # Failed /\ 0 # k /\ k < N
    BY GroupAssumption DEF Points, Scalars, Infinity, Failed
  <1>2. Loads(kp)
    BY <1>1, GroupAssumption DEF Loads, scalar_set_b32_seckey, Overflows, Scalars
  <1> QED
    BY <1>1, <1>2, EvenYIs DEF keypair_load, xonly_pub, EvenSecret, even_y, ge_neg

(* A point and the secret key of its number belong together.                 *)
LEMMA PointsBelong ==
    ASSUME NEW k \in Points
    PROVE  Belongs(k, k) /\ k # Failed
  BY ScalarsCreate DEF Belongs, Points, Infinity, Failed

(* A tweak that succeeds leaves a valid secret key, one that fails zeros.    *)
LEMMA TweakedIs ==
    ASSUME NEW k \in Points, NEW tweak \in Nat
    PROVE  seckey_tweak_add(k, tweak).ret <=> seckey_tweak_add(k, tweak).object # 0
  BY DEF seckey_tweak_add, Outcome, Failed

(* Tweaking a keypair gives a keypair that is whole or zero.                 *)
LEMMA TweakIs ==
    ASSUME NEW k \in Scalars, NEW kp, kp = [sk |-> k, pk |-> k], NEW tweak \in Nat
    PROVE  /\ keypair_xonly_tweak_add(kp, tweak) \in [sk : Scalars, pk : Scalars]
           /\ keypair_xonly_tweak_add(kp, tweak).pk = keypair_xonly_tweak_add(kp, tweak).sk
           /\ keypair_xonly_tweak_add(kp, tweak).pk
                = ec_pubkey_tweak_add(xonly_pub(kp.pk), tweak).object
           /\ keypair_xonly_tweak_add(kp, tweak).sk = 0
                <=> ~ec_pubkey_tweak_add(xonly_pub(kp.pk), tweak).ret
  <1> DEFINE tweaked == keypair_xonly_tweak_add(kp, tweak)
             expected == ec_pubkey_tweak_add(xonly_pub(kp.pk), tweak)
             e == even_y(k)
             sec == seckey_tweak_add(e, tweak)
  <1>1. 0 \in Scalars
    BY AddZero
  <1>2. CASE k \in Points
    <2>1. /\ Loads(kp) /\ keypair_load(kp) = kp /\ xonly_pub(kp.pk) = e
          /\ EvenSecret(kp) = e /\ e \in Points
      BY <1>2, XonlyIs
    <2>2. Paired(sec, expected) /\ (sec.ret <=> sec.object # 0)
      BY <2>1, PointsBelong, TweakAddPaired, TweakedIs
    <2>3. ec_pubkey_tweak_add(even_y(kp.pk), tweak) = expected
      BY <2>1
    <2>4. tweaked = IF sec.ret /\ expected.ret
                    THEN [sk |-> sec.object, pk |-> expected.object] ELSE NoKeypair
      BY <2>1, <2>3 DEF keypair_xonly_tweak_add
    <2> HIDE DEF tweaked, expected, sec
    <2>5. CASE sec.ret
      <3>1. tweaked = [sk |-> sec.object, pk |-> expected.object] /\ expected.ret
        BY <2>2, <2>4, <2>5 DEF Paired
      <3> QED
        BY <2>2, <2>5, <3>1 DEF Paired, tweaked, expected
    <2>6. CASE ~sec.ret
      <3>1. tweaked = NoKeypair /\ ~expected.ret
        BY <2>2, <2>4, <2>6 DEF Paired
      <3>2. expected.object = 0
        BY <2>2, <2>6 DEF Paired
      <3> QED
        BY <1>1, <3>1, <3>2 DEF NoKeypair, Failed, tweaked, expected
    <2> QED
      BY <2>5, <2>6
  <1>3. CASE k \notin Points
    <2>1. k = 0
      BY <1>3 DEF Points, Infinity
    <2>2. ~Loads(kp) /\ xonly_pub(kp.pk) = Failed
      BY <2>1 DEF Loads, xonly_pub, Failed
    <2>3. expected = [object |-> Failed, ret |-> FALSE]
      BY <2>2 DEF ec_pubkey_tweak_add, Outcome
    <2>4. tweaked = NoKeypair
      BY <2>2 DEF keypair_xonly_tweak_add
    <2> QED
      BY <1>1, <2>3, <2>4 DEF NoKeypair, Failed
  <1> QED
    BY <1>2, <1>3


-----------------------------------------------------------------------------
(* The signature the code makes of keypair kp for the nonce k.               *)
Signature(kp, e, k) ==
    [r |-> X(k), s |-> scalar_add(scalar_mul(e, EvenSecret(kp)), SignNonce(k))]

(* An equation in the group: what verification computes is the nonce exactly *)
(* for the s that signing computed.                                          *)
LEMMA Verification ==
    ASSUME NEW e \in Scalars, NEW d \in Scalars, NEW n \in Scalars, NEW s \in Scalars
    PROVE  scalar_add(scalar_mul(scalar_negate(e), d), s) = n
                <=> s = scalar_add(scalar_mul(e, d), n)
  <1> DEFINE m == scalar_mul(e, d)
             neg == scalar_negate(m)
  <1>1. m \in Scalars /\ neg \in Scalars /\ scalar_mul(scalar_negate(e), d) = neg
    BY MulIs, NegateIs, NegateFactor
  <1> HIDE DEF m, neg
  <1>2. scalar_add(neg, m) = 0 /\ scalar_add(m, neg) = 0
    BY <1>1, NegateCancels, AddCommutes DEF neg
  <1>3. scalar_add(neg, scalar_add(m, n)) = n
    BY <1>1, <1>2, AddAssoc, AddZero
  <1>4. scalar_add(m, scalar_add(neg, s)) = s
    BY <1>1, <1>2, AddAssoc, AddZero
  <1> QED
    BY <1>1, <1>3, <1>4 DEF m

(* Of one s, verification accepts only the signature that was made.          *)
LEMMA SignatureVerifies ==
    ASSUME NEW d \in Points, NEW kp, kp = [sk |-> d, pk |-> d],
           NEW e \in Scalars, NEW k \in Points, NEW s \in 0 .. N
    PROVE  schnorrsig_verify(Signature(kp, e, k).r, s, e, xonly_pub(kp.pk))
                <=> s = Signature(kp, e, k).s
  <1> DEFINE pub == even_y(d)
             n == even_y(k)
             rj == ecmult(pub, scalar_negate(e), scalar_set_b32(s))
  <1>1. /\ pub \in Points /\ pub \in Scalars /\ pub # Failed
        /\ xonly_pub(kp.pk) = pub /\ EvenSecret(kp) = pub
    BY XonlyIs DEF Points, Failed, Infinity
  <1>2. /\ n \in Points /\ n \in Scalars /\ n # Infinity
        /\ ~fe_is_odd_y(n) /\ even_y(n) = n
    BY EvenYIs DEF Points
  <1>3. Signature(kp, e, k) = [r |-> n, s |-> scalar_add(scalar_mul(e, pub), n)]
    BY <1>1 DEF Signature, X, SignNonce, even_y, ge_neg
  <1>4. scalar_add(scalar_mul(e, pub), n) \in Scalars
    BY <1>1, <1>2, MulIs, AddIs
  <1>5. CASE s = N
    <2>1. Overflows(s) /\ s \notin Scalars
      BY <1>5, GroupAssumption DEF Overflows, Scalars
    <2> QED
      BY <1>3, <1>4, <2>1 DEF schnorrsig_verify
  <1>6. CASE s \in Scalars
    <2>1. ~Overflows(s) /\ scalar_set_b32(s) = s
      BY <1>6, SetIs, GroupAssumption DEF Overflows, Scalars
    <2>2. rj = n <=> s = scalar_add(scalar_mul(e, pub), n)
      <3>1. rj = scalar_add(scalar_mul(scalar_negate(e), pub), s)
        BY <2>1 DEF ecmult
      <3> HIDE DEF rj, pub, n
      <3> QED
        BY <1>1, <1>2, <1>6, <3>1, Verification
    <2>3. rj # Infinity /\ ~fe_is_odd_y(rj) /\ X(rj) = n <=> rj = n
      BY <1>2 DEF X, even_y
    <2>4. schnorrsig_verify(n, s, e, pub)
            <=> rj # Infinity /\ ~fe_is_odd_y(rj) /\ X(rj) = n
      BY <1>1, <2>1 DEF schnorrsig_verify
    <2> HIDE DEF rj, n, pub
    <2> QED
      BY <1>1, <1>3, <2>2, <2>3, <2>4
  <1> QED
    BY <1>5, <1>6, GroupAssumption DEF Scalars

-----------------------------------------------------------------------------
(* What holds between calls.                                                 *)
KeypairWhole ==
    /\ keypair \in [sk : Scalars, pk : Scalars]
    /\ keypair.pk = keypair.sk

SignatureMade ==
    /\ signed <=> ssig # NoSchnorr
    /\ ssig # NoSchnorr =>
        /\ keypair.pk \in Points
        /\ \E k \in Points : ssig = Signature(keypair, challenge, k)

KeysInv ==
    /\ Belongs(seckey, pubkey) /\ rets[1] = rets[2]
    /\ KeypairWhole
    /\ challenge \in Scalars
    /\ SignatureMade

(* Before the first call the public key has been made from the secret key.   *)
LEMMA KeysInit == KeysAssumption /\ Init => KeysInv
  <1> SUFFICES ASSUME KeysAssumption, Init PROVE KeysInv
    OBVIOUS
  <1>1. Belongs(seckey, pubkey) /\ rets[1] = rets[2]
    BY DEF Init, Belongs, KeysAssumption
  <1>2. KeypairWhole
    BY GroupAssumption DEF Init, KeypairWhole, NoKeypair, Failed, Scalars
  <1> QED
    BY <1>1, <1>2 DEF Init, KeysInv, SignatureMade, KeysAssumption

(* A call on both keys.                                                      *)
LEMMA BothKeeps ==
    ASSUME KeysInv, NEW sec, NEW pub, Paired(sec, pub), Both(sec, pub)
    PROVE  KeysInv'
  <1>1. Belongs(seckey', pubkey') /\ rets'[1] = rets'[2]
    BY ScalarsCreate DEF Both, Paired, Belongs
  <1>2. KeypairWhole' /\ SignatureMade' /\ challenge' \in Scalars
    BY DEF KeysInv, Both, KeypairWhole, SignatureMade, Signature, EvenSecret
  <1> QED
    BY <1>1, <1>2 DEF KeysInv, Belongs

(* Every step keeps all of it.                                               *)
LEMMA KeysStep == KeysAssumption /\ KeysInv /\ [Next]_vars => KeysInv'
  <1> SUFFICES ASSUME KeysAssumption, KeysInv, [Next]_vars PROVE KeysInv'
    OBVIOUS
  <1> USE DEF KeysInv
  <1>1. ASSUME NEW tweak \in TweakBytes PROVE tweak \in Nat
    BY DEF KeysAssumption
  <1>2. CASE Negate
    BY <1>2, NegatePaired, BothKeeps DEF Negate
  <1>3. CASE \E tweak \in TweakBytes : TweakAdd(tweak)
    BY <1>1, <1>3, TweakAddPaired, BothKeeps DEF TweakAdd
  <1>4. CASE \E tweak \in TweakBytes : TweakMul(tweak)
    BY <1>1, <1>4, TweakMulPaired, BothKeeps DEF TweakMul
  <1>5. CASE \E other \in TweakBytes : Combine(other)
    <2>1. PICK other \in TweakBytes : Combine(other)
      BY <1>5
    <2> QED
      BY <1>1, <2>1, CombinePaired, BothKeeps DEF Combine
  <1>6. CASE KeypairCreate
    <2>1. ssig = NoSchnorr /\ ~signed
      BY <1>6 DEF KeypairCreate, SignatureMade, NoKeypair, Failed, Points, Infinity
    <2>2. KeypairWhole'
      BY <1>6, CreateIs, AddZero
         DEF KeypairCreate, keypair_create, KeypairWhole, NoKeypair, Failed, Belongs, Points
    <2> QED
      BY <1>6, <2>1, <2>2 DEF KeypairCreate, SignatureMade, Belongs
  <1>7. CASE \E tweak \in TweakBytes : KeypairTweak(tweak)
    <2>1. PICK tweak \in TweakBytes : KeypairTweak(tweak)
      BY <1>7
    <2>2. keypair = [sk |-> keypair.sk, pk |-> keypair.sk] /\ keypair.sk \in Scalars
      BY DEF KeypairWhole
    <2>3. KeypairWhole'
      BY <1>1, <2>1, <2>2, TweakIs DEF KeypairTweak, KeypairWhole
    <2> QED
      BY <2>1, <2>3 DEF KeypairTweak, SignatureMade, Belongs
  <1>8. CASE \E nonce \in NonceResults : Sign(nonce)
    <2>1. PICK nonce \in NonceResults : Sign(nonce)
      BY <1>8
    <2>2. KeypairWhole' /\ Belongs(seckey', pubkey') /\ rets'[1] = rets'[2] /\ challenge' \in Scalars
      BY <2>1 DEF Sign, KeypairWhole, Belongs
    <2>3. CASE SchnorrSucceeds(keypair, nonce)
      <3>1. scalar_set_b32(nonce) \in Points
        BY <2>3, SetIs DEF SchnorrSucceeds, KeysAssumption, Points, Infinity
      <3>2. Loads(keypair) /\ keypair.pk \in Points /\ keypair_load(keypair) = keypair
        BY <2>3 DEF SchnorrSucceeds, Loads, keypair_load, KeypairWhole, Points, Failed, Infinity
      <3>3. ssig' = Signature(keypair, challenge, scalar_set_b32(nonce)) /\ signed' = TRUE
        BY <2>1, <2>3, <3>2 DEF Sign, schnorrsig_sign, memczero, Signature
      <3>4. keypair' = keypair /\ challenge' = challenge
        BY <2>1 DEF Sign
      <3>5. Signature(keypair', challenge', scalar_set_b32(nonce))
              = Signature(keypair, challenge, scalar_set_b32(nonce))
        BY <3>4
      <3>6. ssig' # NoSchnorr
        <4>1. X(scalar_set_b32(nonce)) # 0
          BY <3>1, EvenYIs DEF X, Points, Infinity
        <4> QED
          BY <3>3, <4>1 DEF Signature, NoSchnorr
      <3>7. SignatureMade'
        BY <3>1, <3>2, <3>3, <3>4, <3>6 DEF SignatureMade, Signature, EvenSecret
      <3> QED
        BY <2>2, <3>7
    <2>4. CASE ~SchnorrSucceeds(keypair, nonce)
      <3>1. ssig' = NoSchnorr /\ signed' = FALSE
        BY <2>1, <2>4 DEF Sign, schnorrsig_sign, memczero
      <3> QED
        BY <2>2, <3>1 DEF SignatureMade, NoSchnorr
    <2> QED
      BY <2>3, <2>4
  <1>9. CASE UNCHANGED vars
    BY <1>9 DEF vars, KeypairWhole, SignatureMade, Belongs, Signature, EvenSecret
  <1> QED
    BY <1>2, <1>3, <1>4, <1>5, <1>6, <1>7, <1>8, <1>9 DEF Next


(* What holds between calls, in every behaviour.                             *)
THEOREM AlwaysKeysInv == KeysAssumption => (Spec => []KeysInv)
  <1> SUFFICES ASSUME KeysAssumption PROVE Spec => []KeysInv
    OBVIOUS
  <1>1. Init => KeysInv
    BY KeysInit
  <1>2. KeysInv /\ [Next]_vars => KeysInv'
    BY KeysStep
  <1> QED
    BY <1>1, <1>2, PTL DEF Spec

(* A secret key and its public key that are given the same calls stay        *)
(* together, whatever the calls: secp256k1_ec_seckey_* and ec_pubkey_*.      *)
THEOREM KeysStayInStep == KeysAssumption => (Spec => []KeysInStep)
  <1>1. KeysInv => KeysInStep
    BY DEF KeysInv, KeysInStep, Belongs
  <1> QED
    BY <1>1, AlwaysKeysInv, PTL

(* What secp256k1_keypair_xonly_tweak_add leaves is what the holder of the   *)
(* x-only key computes and secp256k1_xonly_pubkey_tweak_add_check accepts.   *)
THEOREM KeypairsTweakRight == KeysAssumption => (Spec => []KeypairTweaksChecked)
  <1> SUFFICES ASSUME KeysAssumption PROVE Spec => []KeypairTweaksChecked
    OBVIOUS
  <1>1. KeysInv => KeypairTweaksChecked
    <2> SUFFICES ASSUME KeysInv PROVE KeypairTweaksChecked
      OBVIOUS
    <2>1. keypair = [sk |-> keypair.sk, pk |-> keypair.sk] /\ keypair.sk \in Scalars
      BY DEF KeysInv, KeypairWhole
    <2>2. keypair.pk = pubkey_create(keypair.sk).object
      BY <2>1, ScalarsCreate
    <2> SUFFICES ASSUME NEW tweak \in TweakBytes
                 PROVE  LET tweaked == keypair_xonly_tweak_add(keypair, tweak)
                            internal == xonly_pub(keypair.pk)
                            expected == ec_pubkey_tweak_add(internal, tweak)
                        IN  /\ tweaked.pk = expected.object
                            /\ tweaked.sk = 0 <=> ~expected.ret
                            /\ expected.ret =>
                                xonly_pubkey_tweak_add_check(
                                    X(tweaked.pk), fe_is_odd_y(tweaked.pk), internal, tweak)
      BY <2>2 DEF KeypairTweaksChecked
    <2> DEFINE tweaked == keypair_xonly_tweak_add(keypair, tweak)
               internal == xonly_pub(keypair.pk)
               expected == ec_pubkey_tweak_add(internal, tweak)
    <2>3. tweak \in Nat
      BY DEF KeysAssumption
    <2>4. /\ tweaked \in [sk : Scalars, pk : Scalars] /\ tweaked.pk = tweaked.sk
          /\ tweaked.pk = expected.object
          /\ tweaked.sk = 0 <=> ~expected.ret
      BY <2>1, <2>3, TweakIs
    <2> HIDE DEF tweaked
    <2>5. ASSUME expected.ret
          PROVE  xonly_pubkey_tweak_add_check(X(tweaked.pk), fe_is_odd_y(tweaked.pk), internal, tweak)
      <3>1. tweaked.pk \in Points
        BY <2>4, <2>5 DEF Points, Infinity
      <3>2. X(X(tweaked.pk)) = X(tweaked.pk)
        BY <3>1, EvenYIs DEF X
      <3> QED
        BY <2>4, <2>5, <3>2 DEF xonly_pubkey_tweak_add_check
    <2> QED
      BY <2>4, <2>5 DEF tweaked
  <1>2. Spec => []KeysInv
    BY AlwaysKeysInv
  <1> QED
    BY <1>1, <1>2, PTL

(* secp256k1_schnorrsig_sign returns 1 exactly when it leaves something but  *)
(* zeros, and a signature it returns verifies under the x-only key of its    *)
(* keypair, and with no other s.                                             *)
THEOREM SchnorrSignaturesVerify == KeysAssumption => (Spec => []SchnorrVerifies)
  <1>1. KeysInv => SchnorrVerifies
    <2>0. KeysInv => (signed <=> ssig # NoSchnorr)
      BY DEF KeysInv, SignatureMade
    <2> SUFFICES ASSUME KeysInv, ssig # NoSchnorr
                 PROVE  /\ Loads(keypair)
                        /\ \A s \in 0 .. N :
                            schnorrsig_verify(ssig.r, s, challenge, xonly_pub(keypair.pk))
                                <=> s = ssig.s
      BY <2>0 DEF SchnorrVerifies
    <2>1. keypair = [sk |-> keypair.pk, pk |-> keypair.pk]
      BY DEF KeysInv, KeypairWhole
    <2>2. keypair.pk \in Points /\ challenge \in Scalars
      BY DEF KeysInv, SignatureMade
    <2>3. PICK k \in Points : ssig = Signature(keypair, challenge, k)
      BY DEF KeysInv, SignatureMade
    <2>4. Loads(keypair)
      BY <2>1, <2>2, XonlyIs
    <2> QED
      BY <2>1, <2>2, <2>3, <2>4, SignatureVerifies
  <1> QED
    BY <1>1, AlwaysKeysInv, PTL


-----------------------------------------------------------------------------
(* ECDSA. Dividing by a point's logarithm undoes multiplying by it.          *)
LEMMA InverseIs ==
    ASSUME OrderAssumption, NEW a \in Points
    PROVE  /\ scalar_inverse(a) \in Points
           /\ scalar_mul(a, scalar_inverse(a)) = 1
           /\ scalar_mul(scalar_inverse(a), a) = 1
  <1>1. \E b \in Points : (a * b) % N = 1
    BY DEF OrderAssumption
  <1>2. scalar_inverse(a) = CHOOSE b \in Points : (a * b) % N = 1
    BY DEF scalar_inverse, InverseTable
  <1>3. scalar_inverse(a) \in Points /\ (a * scalar_inverse(a)) % N = 1
    BY <1>1, <1>2
  <1>4. scalar_mul(a, scalar_inverse(a)) = scalar_mul(scalar_inverse(a), a)
    BY <1>3, MulIs DEF Points
  <1> QED
    BY <1>3, <1>4 DEF scalar_mul

(* An equation divided by one of its factors.                                *)
LEMMA Divide ==
    ASSUME OrderAssumption, NEW a \in Points, NEW w \in Scalars, NEW q \in Scalars
    PROVE  scalar_mul(scalar_inverse(a), w) = q <=> w = scalar_mul(a, q)
  <1> DEFINE i == scalar_inverse(a)
  <1>1. /\ i \in Scalars /\ a \in Scalars
        /\ scalar_mul(a, i) = 1 /\ scalar_mul(i, a) = 1
    BY InverseIs DEF Points
  <1> HIDE DEF i
  <1>2. scalar_mul(a, scalar_mul(i, w)) = w
    <2>1. scalar_mul(scalar_mul(a, i), w) = scalar_mul(a, scalar_mul(i, w))
      BY <1>1, MulAssoc
    <2> QED
      BY <1>1, <2>1, OneTimes
  <1>3. scalar_mul(i, scalar_mul(a, q)) = q
    <2>1. scalar_mul(scalar_mul(i, a), q) = scalar_mul(i, scalar_mul(a, q))
      BY <1>1, MulAssoc
    <2> QED
      BY <1>1, <2>1, OneTimes
  <1> QED
    BY <1>2, <1>3 DEF i

(* The inverse of a negation is the negation of the inverse.                 *)
LEMMA InverseNegates ==
    ASSUME OrderAssumption, NEW a \in Points
    PROVE  /\ scalar_negate(a) \in Points /\ scalar_negate(a) = N - a
           /\ scalar_inverse(scalar_negate(a)) = scalar_negate(scalar_inverse(a))
  <1> DEFINE na == scalar_negate(a)
             i == scalar_inverse(a)
             ni == scalar_negate(i)
  <1>1. na \in Points /\ na = N - a
    BY GroupAssumption DEF scalar_negate, Points, Scalars, Infinity
  <1>2. /\ a \in Scalars /\ i \in Scalars /\ scalar_mul(a, i) = 1 /\ ni \in Scalars
    BY InverseIs, NegateIs DEF Points
  <1>3. scalar_mul(na, ni) = scalar_negate(scalar_mul(a, ni))
    BY <1>2, NegateFactor
  <1>4. scalar_mul(a, ni) = scalar_mul(ni, a) /\ scalar_mul(i, a) = 1
    BY <1>2, MulIs
  <1>5. scalar_mul(ni, a) = scalar_negate(scalar_mul(i, a))
    BY <1>2, NegateFactor
  <1>6. 1 \in Scalars
    BY GroupAssumption DEF Scalars
  <1>7. scalar_mul(na, ni) = 1
    BY <1>3, <1>4, <1>5, <1>6, NegateTwice
  <1> HIDE DEF na, ni, i
  <1>8. scalar_mul(scalar_inverse(na), 1) = ni
    BY <1>1, <1>2, <1>6, <1>7, Divide
  <1>9. scalar_inverse(na) \in Scalars
    BY <1>1, InverseIs DEF Points
  <1>10. scalar_mul(scalar_inverse(na), 1) = scalar_inverse(na)
    BY <1>6, <1>9, MulIs, OneTimes
  <1> QED
    BY <1>1, <1>8, <1>10 DEF na, ni, i

(* A term moves to the other side of an equation.                            *)
LEMMA MoveTerm ==
    ASSUME NEW u \in Scalars, NEW m \in Scalars, NEW v \in Scalars
    PROVE  scalar_add(u, scalar_negate(m)) = v <=> u = scalar_add(v, m)
  <1> DEFINE nm == scalar_negate(m)
  <1>1. nm \in Scalars
    BY NegateIs
  <1>2. scalar_add(nm, m) = 0
    BY NegateCancels
  <1>3. scalar_add(m, nm) = 0
    BY <1>1, <1>2, AddCommutes
  <1> HIDE DEF nm
  <1>4. scalar_add(scalar_add(u, nm), m) = u
    BY <1>1, <1>2, AddAssoc, AddZero
  <1>5. scalar_add(scalar_add(v, m), nm) = v
    BY <1>1, <1>3, AddAssoc, AddZero
  <1> QED
    BY <1>4, <1>5 DEF nm

(* The point that verification computes for public key q.                    *)
Computed(x, q, m) ==
    ecmult(q, scalar_mul(scalar_inverse(x.s), x.r), scalar_mul(scalar_inverse(x.s), m))

(* The verification equation without a division.                             *)
LEMMA ComputedIs ==
    ASSUME OrderAssumption, NEW r \in Scalars, NEW s \in Points, NEW m \in Scalars,
           NEW q \in Scalars, NEW p \in Scalars, NEW x, x.r = r, x.s = s
    PROVE  /\ Computed(x, q, m) \in Scalars
           /\ Computed(x, q, m) = p <=> scalar_mul(s, p) = scalar_add(scalar_mul(r, q), m)
  <1> DEFINE i == scalar_inverse(s)
             v == scalar_mul(r, q)
             w == scalar_add(v, m)
  <1>1. i \in Scalars /\ v \in Scalars /\ s \in Scalars
    BY InverseIs, MulIs DEF Points
  <1>2. w \in Scalars
    BY <1>1, AddIs
  <1>3. Computed(x, q, m) = scalar_add(scalar_mul(scalar_mul(i, r), q), scalar_mul(i, m))
    BY DEF Computed, ecmult
  <1> HIDE DEF i
  <1>4. scalar_mul(scalar_mul(i, r), q) = scalar_mul(i, v)
    BY <1>1, MulAssoc
  <1> HIDE DEF v
  <1>5. Computed(x, q, m) = scalar_mul(i, w)
    BY <1>1, <1>3, <1>4, MulDistributes
  <1>6. scalar_mul(i, w) \in Scalars
    BY <1>1, <1>2, MulIs
  <1> HIDE DEF w
  <1>7. scalar_mul(i, w) = p <=> w = scalar_mul(s, p)
    BY <1>2, Divide DEF i
  <1> QED
    BY <1>5, <1>6, <1>7 DEF w, v

(* The recovery equation: what recovery computes from p is q exactly when    *)
(* what verification computes from q is p.                                   *)
LEMMA RecoveredIs ==
    ASSUME OrderAssumption, NEW r \in Points, NEW s \in Points, NEW m \in Scalars,
           NEW q \in Scalars, NEW p \in Scalars, NEW x, x.r = r, x.s = s
    PROVE  ecmult(p, scalar_mul(scalar_inverse(r), s), scalar_negate(scalar_mul(scalar_inverse(r), m))) = q
             <=> Computed(x, q, m) = p
  <1> DEFINE i == scalar_inverse(r)
             u == scalar_mul(s, p)
             nm == scalar_negate(m)
             w == scalar_add(u, nm)
             got == ecmult(p, scalar_mul(i, s), scalar_negate(scalar_mul(i, m)))
  <1>1. /\ i \in Scalars /\ u \in Scalars /\ s \in Scalars /\ r \in Scalars
        /\ nm \in Scalars
    BY InverseIs, MulIs, NegateIs DEF Points
  <1>2. w \in Scalars
    BY <1>1, AddIs
  <1>3. got = scalar_add(scalar_mul(scalar_mul(i, s), p), scalar_negate(scalar_mul(i, m)))
    BY DEF ecmult
  <1> HIDE DEF i, got
  <1>4. scalar_mul(scalar_mul(i, s), p) = scalar_mul(i, u)
    BY <1>1, MulAssoc
  <1>5. scalar_negate(scalar_mul(i, m)) = scalar_mul(i, nm)
    <2>1. scalar_mul(nm, i) = scalar_negate(scalar_mul(m, i))
      BY <1>1, NegateFactor
    <2>2. scalar_mul(nm, i) = scalar_mul(i, nm)
      BY <1>1, MulIs
    <2>3. scalar_mul(m, i) = scalar_mul(i, m)
      BY <1>1, MulIs
    <2> QED
      BY <2>1, <2>2, <2>3
  <1> HIDE DEF u, nm
  <1>6. got = scalar_mul(i, w)
    BY <1>1, <1>3, <1>4, <1>5, MulDistributes
  <1> HIDE DEF w
  <1>7. scalar_mul(i, w) = q <=> w = scalar_mul(r, q)
    BY <1>2, Divide DEF i
  <1>8. scalar_mul(r, q) \in Scalars
    BY <1>1, MulIs
  <1>9. w = scalar_mul(r, q) <=> u = scalar_add(scalar_mul(r, q), m)
    BY <1>1, <1>8, MoveTerm DEF w, nm
  <1>10. Computed(x, q, m) = p <=> scalar_mul(s, p) = scalar_add(scalar_mul(r, q), m)
    BY <1>1, ComputedIs
  <1> QED
    BY <1>6, <1>7, <1>9, <1>10 DEF u, got, i

(* One point of a pair has the X and the parity that an identifier names.    *)
LEMMA OneDecompresses ==
    ASSUME EcdsaAssumption, NEW p \in Points, NEW q \in Points,
           XCoord[p] = XCoord[q], fe_is_odd_y(p) <=> fe_is_odd_y(q)
    PROVE  p = q
  <1>1. q \in {p, N - p}
    BY DEF EcdsaAssumption
  <1>2. p \in OddPoints <=> N - p \notin OddPoints
    BY GroupAssumption
  <1> QED
    BY <1>1, <1>2 DEF fe_is_odd_y

(* The X coordinate that an identifier names, if it is one.                  *)
Named(x, recid) == IF recid >= 2 THEN x.r + N ELSE x.r

(* Identifier recid recovers public key q from a signature with the halves   *)
(* r and s exactly when it names the point that verification computes.       *)
LEMMA RecoversIff ==
    ASSUME EcdsaAssumption, OrderAssumption,
           NEW x, x.r \in Scalars, x.s \in Scalars, NEW m \in Scalars,
           NEW recid \in 0 .. 3, NEW q \in Points
    PROVE  sig_recover(x, m, recid) = q
             <=> /\ Signed(x) /\ (recid >= 2 => HasSecondX(x.r))
                 /\ Computed(x, q, m) \in Points
                 /\ XCoord[Computed(x, q, m)] = Named(x, recid)
                 /\ fe_is_odd_y(Computed(x, q, m)) <=> recid % 2 = 1
  <1> DEFINE pr == Computed(x, q, m)
             decompressed == {p \in Points : XCoord[p] = Named(x, recid)
                                             /\ (fe_is_odd_y(p) <=> recid % 2 = 1)}
             chosen == CHOOSE p \in decompressed : TRUE
             rn == scalar_inverse(x.r)
             fits == Signed(x) /\ (recid >= 2 => HasSecondX(x.r))
             got == ecmult(chosen, scalar_mul(rn, x.s), scalar_negate(scalar_mul(rn, m)))
  <1>1. sig_recover(x, m, recid) = IF fits /\ decompressed # {} THEN got ELSE Infinity
    BY DEF sig_recover, Named
  <1>2. q # Infinity /\ q \in Scalars
    BY DEF Points
  <1>3. fits => x.r \in Points /\ x.s \in Points
    BY DEF Signed, Points, Infinity
  <1>4. \A p \in Points, p2 \in Points : p \in decompressed /\ p2 \in decompressed => p = p2
    BY OneDecompresses
  <1>5. ASSUME fits, decompressed # {}
        PROVE  got = q <=> pr = chosen
    <2>1. chosen \in decompressed
      BY <1>5
    <2>2. chosen \in Scalars
      BY <2>1 DEF Points
    <2> HIDE DEF chosen
    <2> QED
      BY <1>2, <1>3, <1>5, <2>2, RecoveredIs
  <1>6. CASE fits /\ decompressed # {}
    <2>1. chosen \in decompressed
      BY <1>6
    <2>2. sig_recover(x, m, recid) = q <=> pr = chosen
      BY <1>1, <1>5, <1>6
    <2>3. pr = chosen <=> pr \in decompressed
      BY <1>4, <2>1
    <2> HIDE DEF pr, chosen
    <2> QED
      BY <1>6, <2>2, <2>3 DEF pr
  <1>7. CASE ~(fits /\ decompressed # {})
    <2>1. sig_recover(x, m, recid) # q
      BY <1>1, <1>2, <1>7
    <2>2. ~(fits /\ pr \in decompressed)
      BY <1>7
    <2> QED
      BY <2>1, <2>2
  <1> QED
    BY <1>6, <1>7

(* Verification looks for the two X coordinates that identifiers name.       *)
LEMMA VerifiesIff ==
    ASSUME OrderAssumption, NEW x, x.r \in Scalars, x.s \in Scalars, NEW m \in Scalars, NEW q \in Points
    PROVE  sig_verify(x, q, m)
             <=> /\ Signed(x) /\ Computed(x, q, m) \in Points
                 /\ \/ XCoord[Computed(x, q, m)] = x.r
                    \/ HasSecondX(x.r) /\ XCoord[Computed(x, q, m)] = x.r + N
  <1>1. Signed(x) => Computed(x, q, m) \in Scalars
    BY ComputedIs DEF Signed, Points, Infinity
  <1>2. sig_verify(x, q, m)
          <=> /\ Signed(x) /\ Computed(x, q, m) # Infinity
              /\ \/ XCoord[Computed(x, q, m)] = x.r
                 \/ HasSecondX(x.r) /\ XCoord[Computed(x, q, m)] = x.r + N
    BY DEF sig_verify, Computed
  <1> QED
    BY <1>1, <1>2 DEF Points

(* Four identifiers: two bits, the second X and the odd Y.                   *)
LEMMA Identifiers ==
    ASSUME NEW recid \in 0 .. 3, NEW second \in {0, 2}, NEW odd \in {0, 1}
    PROVE  recid = second + odd <=> (recid >= 2 <=> second = 2) /\ (recid % 2 = 1 <=> odd = 1)
  <1>1. recid \in {0, 1, 2, 3}
    OBVIOUS
  <1>2. 0 % 2 = 0 /\ 1 % 2 = 1 /\ 2 % 2 = 0 /\ 3 % 2 = 1
    BY Z3
  <1> QED
    BY <1>1, <1>2

(* The identifiers that recover a public key: one if it verifies, no other   *)
(* and none if it does not.                                                  *)
LEMMA OneRecovers ==
    ASSUME EcdsaAssumption, OrderAssumption,
           NEW x, x.r \in Scalars, x.s \in Scalars, NEW m \in Scalars, NEW q \in Points
    PROVE  Cardinality({recid \in 0 .. 3 : sig_recover(x, m, recid) = q})
             = IF sig_verify(x, q, m) THEN 1 ELSE 0
  <1> DEFINE ids == {recid \in 0 .. 3 : sig_recover(x, m, recid) = q}
             pr == Computed(x, q, m)
             second == IF XCoord[pr] = x.r THEN 0 ELSE 2
             odd == IF pr \in OddPoints THEN 1 ELSE 0
  <1>1. \A recid \in 0 .. 3 :
            recid \in ids
                <=> /\ Signed(x) /\ (recid >= 2 => HasSecondX(x.r)) /\ pr \in Points
                    /\ XCoord[pr] = Named(x, recid)
                    /\ pr \in OddPoints <=> recid % 2 = 1
    BY RecoversIff DEF fe_is_odd_y
  <1>2. sig_verify(x, q, m)
          <=> /\ Signed(x) /\ pr \in Points
              /\ XCoord[pr] = x.r \/ (HasSecondX(x.r) /\ XCoord[pr] = x.r + N)
    BY VerifiesIff
  <1>3. x.r # x.r + N
    BY GroupAssumption DEF Scalars
  <1> HIDE DEF pr
  <1>4. CASE sig_verify(x, q, m)
    <2>1. \A recid \in 0 .. 3 :
              recid \in ids <=> (recid >= 2 <=> second = 2) /\ (recid % 2 = 1 <=> odd = 1)
      <3> TAKE recid \in 0 .. 3
      <3>1. XCoord[pr] = Named(x, recid) <=> (recid >= 2 <=> second = 2)
        BY <1>2, <1>3, <1>4 DEF Named
      <3>2. pr \in OddPoints <=> odd = 1
        OBVIOUS
      <3>3. second = 2 => HasSecondX(x.r)
        BY <1>2, <1>4
      <3> QED
        BY <1>1, <1>2, <1>4, <3>1, <3>2, <3>3
    <2>2. second \in {0, 2} /\ odd \in {0, 1}
      OBVIOUS
    <2> HIDE DEF second, odd
    <2>3. \A recid \in 0 .. 3 : recid \in ids <=> recid = second + odd
      BY <2>1, <2>2, Identifiers
    <2>4. second + odd \in 0 .. 3
      BY <2>2
    <2>5. ids \subseteq 0 .. 3
      OBVIOUS
    <2> HIDE DEF ids
    <2>6. ids = {second + odd}
      BY <2>3, <2>4, <2>5
    <2> QED
      BY <1>4, <2>6, FS_Singleton DEF ids
  <1>5. CASE ~sig_verify(x, q, m)
    <2>1. \A recid \in 0 .. 3 : recid \notin ids
      BY <1>1, <1>2, <1>5 DEF Named
    <2>2. ids = {}
      BY <2>1
    <2> QED
      BY <1>5, <2>2, FS_EmptySet
  <1> QED
    BY <1>4, <1>5

(* A point and its negation have one X coordinate and different parities.    *)
LEMMA NegationShares ==
    ASSUME EcdsaAssumption, NEW p \in Points
    PROVE  /\ scalar_negate(p) \in Points
           /\ XCoord[scalar_negate(p)] = XCoord[p]
           /\ fe_is_odd_y(scalar_negate(p)) <=> ~fe_is_odd_y(p)
  <1>1. scalar_negate(p) = N - p /\ N - p \in Points
    BY GroupAssumption DEF scalar_negate, Points, Scalars, Infinity
  <1>2. XCoord[p] = XCoord[N - p]
    BY <1>1 DEF EcdsaAssumption
  <1>3. p \in OddPoints <=> N - p \notin OddPoints
    BY GroupAssumption
  <1> QED
    BY <1>1, <1>2, <1>3 DEF fe_is_odd_y

(* Of s and its negation at least one is low, and both only if they are one. *)
LEMMA LowOfTwo ==
    ASSUME NEW s \in Points
    PROVE  /\ scalar_is_high(s) => ~scalar_is_high(scalar_negate(s))
           /\ ~scalar_is_high(s) /\ ~scalar_is_high(scalar_negate(s)) => scalar_negate(s) = s
  <1> DEFINE h == N \div 2
  <1>1. h \in Nat /\ N % 2 \in {0, 1} /\ N = 2 * h + (N % 2)
    BY GroupAssumption, DivIs
  <1>2. scalar_negate(s) = N - s /\ s \in Nat
    BY GroupAssumption DEF scalar_negate, Points, Scalars, Infinity
  <1> HIDE DEF h
  <1>3. N = 2 * h \/ N = 2 * h + 1
    BY <1>1
  <1> QED
    BY <1>1, <1>2, <1>3, GroupAssumption DEF scalar_is_high, h

(* Negating s negates the point that verification computes.                  *)
LEMMA ComputedNegates ==
    ASSUME OrderAssumption, NEW x, x.r \in Scalars, x.s \in Points,
           NEW m \in Scalars, NEW q \in Scalars, NEW y, y.r = x.r, y.s = scalar_negate(x.s)
    PROVE  Computed(y, q, m) = scalar_negate(Computed(x, q, m))
  <1> DEFINE p == Computed(x, q, m)
             w == scalar_add(scalar_mul(x.r, q), m)
  <1>1. p \in Scalars /\ scalar_mul(x.s, p) = w
    BY ComputedIs
  <1>2. scalar_negate(p) \in Scalars /\ y.s \in Points /\ x.s \in Scalars /\ y.s \in Scalars
    BY <1>1, NegateIs, InverseNegates DEF Points
  <1> HIDE DEF p
  <1>3. scalar_mul(y.s, scalar_negate(p)) = scalar_negate(scalar_mul(x.s, scalar_negate(p)))
    BY <1>2, NegateFactor
  <1>4. scalar_mul(x.s, scalar_negate(p)) = scalar_mul(scalar_negate(p), x.s)
    BY <1>2, MulIs
  <1>5. scalar_mul(scalar_negate(p), x.s) = scalar_negate(scalar_mul(p, x.s))
    BY <1>1, <1>2, NegateFactor
  <1>6. scalar_mul(p, x.s) = w /\ scalar_mul(p, x.s) \in Scalars
    BY <1>1, <1>2, MulIs
  <1>7. scalar_mul(y.s, scalar_negate(p)) = w
    BY <1>3, <1>4, <1>5, <1>6, NegateTwice
  <1> HIDE DEF w
  <1>8. scalar_mul(y.s, scalar_negate(p)) = scalar_add(scalar_mul(y.r, q), m)
    BY <1>7 DEF w
  <1> DEFINE r == y.r  s == y.s  np == scalar_negate(p)
  <1>9. r \in Scalars /\ s \in Points /\ y.r = r /\ y.s = s /\ np \in Scalars
    BY <1>2
  <1> HIDE DEF r, s, np
  <1>10. Computed(y, q, m) = np <=> scalar_mul(s, np) = scalar_add(scalar_mul(r, q), m)
    BY <1>9, ComputedIs
  <1> QED
    BY <1>8, <1>10 DEF p, np, r, s

(* The verification equation holds for s when it holds for its negation.     *)
LEMMA NegationVerifies ==
    ASSUME EcdsaAssumption, OrderAssumption, NEW x, x.r \in Scalars, x.s \in Scalars,
           NEW m \in Scalars, NEW q \in Points, NEW y, y.r = x.r, y.s = scalar_negate(x.s)
    PROVE  sig_verify(x, q, m) <=> sig_verify(y, q, m)
  <1>1. y.r \in Scalars /\ y.s \in Scalars
    BY NegateIs
  <1>2. CASE x.s = 0
    BY <1>2 DEF sig_verify, Signed, scalar_negate
  <1>3. CASE x.s # 0
    <2>1. x.s \in Points /\ q \in Scalars
      BY <1>3 DEF Points, Infinity
    <2>2. y.s \in Points
      BY <2>1, InverseNegates
    <2>3. Signed(x) <=> Signed(y)
      BY <2>1, <2>2 DEF Signed, Points, Infinity
    <2>4. Computed(y, q, m) = scalar_negate(Computed(x, q, m)) /\ Computed(x, q, m) \in Scalars
      BY <2>1, ComputedNegates, ComputedIs
    <2>5. CASE Computed(x, q, m) \in Points
      <3>1. Computed(y, q, m) \in Points /\ XCoord[Computed(y, q, m)] = XCoord[Computed(x, q, m)]
        BY <2>4, <2>5, NegationShares
      <3>2. sig_verify(x, q, m)
              <=> /\ Signed(x) /\ Computed(x, q, m) \in Points
                  /\ \/ XCoord[Computed(x, q, m)] = x.r
                     \/ HasSecondX(x.r) /\ XCoord[Computed(x, q, m)] = x.r + N
        BY VerifiesIff
      <3>3. sig_verify(y, q, m)
              <=> /\ Signed(y) /\ Computed(y, q, m) \in Points
                  /\ \/ XCoord[Computed(y, q, m)] = x.r
                     \/ HasSecondX(x.r) /\ XCoord[Computed(y, q, m)] = x.r + N
        BY <1>1, VerifiesIff
      <3> QED
        BY <2>3, <2>5, <3>1, <3>2, <3>3
    <2>6. CASE Computed(x, q, m) = Infinity
      <3>1. Computed(y, q, m) = Infinity
        BY <2>4, <2>6 DEF scalar_negate, Infinity
      <3> QED
        BY <1>1, <2>6, <3>1, VerifiesIff DEF Points
    <2> QED
      BY <2>4, <2>5, <2>6 DEF Points
  <1> QED
    BY <1>2, <1>3

(* The two signatures that share r and the square of s.                      *)
LEMMA AcceptsOne ==
    ASSUME EcdsaAssumption, OrderAssumption, NEW x \in Signatures, NEW msghash \in Nat, NEW q \in Points,
           NEW y, y = [x EXCEPT !.s = scalar_negate(x.s)]
    PROVE  {z \in {x, y} : ecdsa_verify(z, q, msghash)}
             = IF sig_verify(x, q, scalar_set_b32(msghash)) THEN {signature_normalize(x)} ELSE {}
  <1> DEFINE m == scalar_set_b32(msghash)
  <1>1. x.r \in Scalars /\ x.s \in Scalars
    BY DEF Signatures
  <1>2. m \in Scalars /\ q # Infinity
    BY SetIs DEF Points
  <1>3. y.r = x.r /\ y.s = scalar_negate(x.s)
    BY DEF Signatures
  <1> HIDE DEF m
  <1>4. sig_verify(x, q, m) <=> sig_verify(y, q, m)
    BY <1>1, <1>2, <1>3, NegationVerifies
  <1>5. \A z : ecdsa_verify(z, q, msghash) <=> ~scalar_is_high(z.s) /\ sig_verify(z, q, m)
    BY <1>2 DEF ecdsa_verify, m
  <1>6. signature_normalize(x) = IF scalar_is_high(x.s) THEN y ELSE x
    BY DEF signature_normalize
  <1>7. CASE sig_verify(x, q, m)
    <2>1. x.s \in Points
      BY <1>1, <1>7 DEF sig_verify, Signed, Points, Infinity
    <2>2. /\ scalar_is_high(x.s) => ~scalar_is_high(y.s)
          /\ ~scalar_is_high(x.s) /\ ~scalar_is_high(y.s) => y.s = x.s
      BY <1>3, <2>1, LowOfTwo
    <2>3. y.s = x.s => y = x
      BY <1>3 DEF Signatures
    <2> QED
      BY <1>4, <1>5, <1>6, <1>7, <2>2, <2>3 DEF m
  <1>8. CASE ~sig_verify(x, q, m)
    BY <1>4, <1>5, <1>8 DEF m
  <1> QED
    BY <1>7, <1>8

-----------------------------------------------------------------------------
(* What an attempt of the signing loop makes with nonce k.                   *)
LEMMA AttemptIs ==
    ASSUME EcdsaAssumption, OrderAssumption, NEW d \in Scalars, NEW m \in Scalars, NEW k \in Points
    PROVE  sig_sign(d, m, k) \in Signatures
  <1> DEFINE x == XCoord[k]
             r == scalar_set_b32(x)
             s == scalar_mul(scalar_inverse(k), scalar_add(scalar_mul(r, d), m))
             recid == (IF Overflows(x) THEN 2 ELSE 0) + (IF fe_is_odd_y(k) THEN 1 ELSE 0)
  <1>1. x \in Nat
    BY GroupAssumption DEF EcdsaAssumption
  <1>2. r \in Scalars
    BY <1>1, SetIs
  <1>3. scalar_inverse(k) \in Scalars /\ scalar_mul(r, d) \in Scalars
    BY <1>2, InverseIs, MulIs DEF Points
  <1>4. scalar_add(scalar_mul(r, d), m) \in Scalars
    BY <1>3, AddIs
  <1>5. s \in Scalars
    BY <1>3, <1>4, MulIs
  <1>6. scalar_negate(s) \in Scalars
    BY <1>5, NegateIs
  <1>7. recid \in {0, 1, 2, 3}
    OBVIOUS
  <1>8. 0 % 2 = 0 /\ 1 % 2 = 1 /\ 2 % 2 = 0 /\ 3 % 2 = 1
    BY Z3
  <1>9. Flip(recid) \in 0 .. 3
    BY <1>7, <1>8 DEF Flip
  <1>10. sig_sign(d, m, k) = IF scalar_is_high(s) THEN [r |-> r, s |-> scalar_negate(s), recid |-> Flip(recid)]
                             ELSE [r |-> r, s |-> s, recid |-> recid]
    BY DEF sig_sign
  <1> HIDE DEF r, s, recid
  <1> QED
    BY <1>2, <1>5, <1>6, <1>7, <1>9, <1>10 DEF Signatures

(* An attempt that succeeded verifies, its s is low, and its identifier is   *)
(* the one that recovers the key.                                            *)
LEMMA AttemptVerifies ==
    ASSUME EcdsaAssumption, OrderAssumption, NEW d \in Points, NEW m \in Scalars, NEW k \in Points,
           Signed(sig_sign(d, m, k))
    PROVE  /\ sig_verify(sig_sign(d, m, k), d, m)
           /\ ~scalar_is_high(sig_sign(d, m, k).s)
           /\ sig_recover(sig_sign(d, m, k), m, sig_sign(d, m, k).recid) = d
  <1> DEFINE x == XCoord[k]
             r == scalar_set_b32(x)
             w == scalar_add(scalar_mul(r, d), m)
             s == scalar_mul(scalar_inverse(k), w)
             second == IF Overflows(x) THEN 2 ELSE 0
             odd == IF k \in OddPoints THEN 1 ELSE 0
             recid == second + odd
             made == sig_sign(d, m, k)
             first == [r |-> r, s |-> s, recid |-> recid]
             flipped == [r |-> r, s |-> scalar_negate(s), recid |-> Flip(recid)]
  <1>1. x \in Nat /\ x < FieldSize /\ FieldSize < 2 * N /\ N \in Nat \ {0} /\ FieldSize \in Nat
    BY GroupAssumption DEF EcdsaAssumption
  <1>2. r \in Scalars /\ d \in Scalars /\ k \in Scalars
    BY <1>1, SetIs DEF Points
  <1>3. IF Overflows(x) THEN x = r + N /\ HasSecondX(r) ELSE x = r
    <2>1. x % N = IF x < N THEN x ELSE x - N
      BY <1>1, SmallMod
    <2> HIDE DEF x
    <2> QED
      BY <1>1, <2>1 DEF Overflows, HasSecondX, scalar_set_b32
  <1>4. w \in Scalars
    BY <1>2, MulIs, AddIs
  <1>5. scalar_inverse(k) \in Scalars
    BY InverseIs DEF Points
  <1>6. s \in Scalars
    BY <1>4, <1>5, MulIs
  <1>7. made = IF scalar_is_high(s) THEN flipped ELSE first
    BY DEF sig_sign, fe_is_odd_y
  <1>8. r \in Points /\ s \in Points
    <2>1. r # 0 /\ s # 0
      <3> HIDE DEF r, s, recid
      <3> QED
        BY <1>7 DEF Signed, scalar_negate
    <2> QED
      BY <1>2, <1>6, <2>1 DEF Points, Infinity
  <1>9. Computed(first, d, m) = k
    <2>1. scalar_mul(k, s) = w
      BY <1>4, <1>6, Divide
    <2>2. scalar_mul(s, k) = w
      BY <1>2, <1>6, <2>1, MulIs
    <2> HIDE DEF r, s, recid
    <2>3. first.r = r /\ first.s = s
      OBVIOUS
    <2> HIDE DEF first
    <2> QED
      BY <1>2, <1>8, <2>2, <2>3, ComputedIs
  <1>10. made.r = r /\ made.s \in Points /\ ~scalar_is_high(made.s)
    <2>1. scalar_negate(s) \in Points
      BY <1>8, InverseNegates
    <2>2. scalar_is_high(s) => ~scalar_is_high(scalar_negate(s))
      BY <1>8, LowOfTwo
    <2> HIDE DEF r, s, recid, made
    <2> QED
      BY <1>7, <1>8, <2>1, <2>2
  <1>11. Computed(made, d, m) = IF scalar_is_high(s) THEN scalar_negate(k) ELSE k
    <2>1. Computed(flipped, d, m) = scalar_negate(Computed(first, d, m))
      <3> HIDE DEF r, s, recid
      <3>1. /\ first.r \in Scalars /\ first.s \in Points
            /\ flipped.r = first.r /\ flipped.s = scalar_negate(first.s)
        BY <1>2, <1>8
      <3> HIDE DEF first, flipped
      <3> QED
        BY <1>2, <3>1, ComputedNegates
    <2> HIDE DEF made, first, flipped
    <2> QED
      BY <1>7, <1>9, <2>1
  <1> DEFINE pr == Computed(made, d, m)
  <1>12. /\ pr \in Points /\ XCoord[pr] = x
         /\ pr \in OddPoints <=> (k \in OddPoints <=> ~scalar_is_high(s))
    <2>1. /\ scalar_negate(k) \in Points
          /\ XCoord[scalar_negate(k)] = XCoord[k]
          /\ scalar_negate(k) \in OddPoints <=> k \notin OddPoints
      BY NegationShares DEF fe_is_odd_y
    <2> HIDE DEF made, s
    <2> QED
      BY <1>11, <2>1
  <1>13. /\ made.recid \in 0 .. 3
         /\ made.recid >= 2 <=> Overflows(x)
         /\ made.recid % 2 = 1 <=> pr \in OddPoints
    <2>1. 0 % 2 = 0 /\ 1 % 2 = 1 /\ 2 % 2 = 0 /\ 3 % 2 = 1
      BY Z3
    <2>2. CASE scalar_is_high(s)
      <3>1. made.recid = Flip(recid)
        BY <1>7, <2>2
      <3>2. pr \in OddPoints <=> k \notin OddPoints
        BY <1>12, <2>2
      <3> HIDE DEF made, pr, x
      <3> QED
        BY <2>1, <3>1, <3>2 DEF Flip
    <2>3. CASE ~scalar_is_high(s)
      <3>1. made.recid = recid
        BY <1>7, <2>3
      <3>2. pr \in OddPoints <=> k \in OddPoints
        BY <1>12, <2>3
      <3> HIDE DEF made, pr, x
      <3> QED
        BY <2>1, <3>1, <3>2
    <2> QED
      BY <2>2, <2>3
  <1>14. made.r \in Scalars /\ made.s \in Scalars
    BY <1>2, <1>10 DEF Points
  <1> HIDE DEF made, r, s, x
  <1>15. sig_verify(made, d, m)
    <2>1. sig_verify(made, d, m)
            <=> /\ Signed(made) /\ pr \in Points
                /\ \/ XCoord[pr] = made.r
                   \/ HasSecondX(made.r) /\ XCoord[pr] = made.r + N
      BY <1>14, VerifiesIff
    <2>2. Signed(made)
      BY DEF made
    <2> HIDE DEF pr
    <2> QED
      BY <1>3, <1>10, <1>12, <2>1, <2>2
  <1>16. sig_recover(made, m, made.recid) = d
    <2>1. sig_recover(made, m, made.recid) = d
            <=> /\ Signed(made) /\ (made.recid >= 2 => HasSecondX(made.r))
                /\ pr \in Points /\ XCoord[pr] = Named(made, made.recid)
                /\ fe_is_odd_y(pr) <=> made.recid % 2 = 1
      BY <1>13, <1>14, RecoversIff
    <2>2. Signed(made)
      BY DEF made
    <2>3. XCoord[pr] = Named(made, made.recid)
      BY <1>3, <1>10, <1>12, <1>13 DEF Named
    <2> HIDE DEF pr
    <2> QED
      BY <1>3, <1>10, <1>12, <1>13, <2>1, <2>2, <2>3 DEF fe_is_odd_y
  <1> QED
    BY <1>10, <1>15, <1>16 DEF made

-----------------------------------------------------------------------------
(* A signing call that has returned left zeros, or the signature of an       *)
(* attempt that succeeded.                                                   *)
AttemptKept ==
    pc = "signed" =>
        IF ret
        THEN /\ signer \in Points
             /\ \E k \in Points : /\ sig = sig_sign(signer, scalar_set_b32(msg), k)
                                  /\ Signed(sig)
        ELSE sig = NoSignature

EcdsaInv == EcdsaTypeOK /\ AttemptKept

(* A 32-byte string that is a secret key is a point's logarithm.             *)
LEMMA SecretIs ==
    ASSUME NEW b \in Nat, scalar_set_b32_seckey(b)
    PROVE  b \in Points
  BY SetIs DEF scalar_set_b32_seckey, Points, Infinity

(* The key and the message that the loop signs with are scalars.             *)
LEMMA ArgumentsAre ==
    ASSUME EcdsaAssumption, EcdsaTypeOK
    PROVE  /\ Sec \in Scalars /\ scalar_set_b32(msg) \in Scalars
           /\ scalar_set_b32_seckey(signer) => signer \in Points /\ Sec = signer
  <1>1. signer \in Nat /\ msg \in Nat
    BY DEF EcdsaAssumption, EcdsaTypeOK
  <1>2. scalar_set_b32_seckey(signer) => signer \in Points
    BY <1>1, SecretIs
  <1>3. 1 \in Scalars
    BY GroupAssumption DEF Scalars
  <1> QED
    BY <1>1, <1>2, <1>3, SetIs DEF Sec, Points

(* Zeros are a signature object.                                             *)
LEMMA ZerosAre == NoSignature \in Signatures
  BY AddZero, GroupAssumption DEF NoSignature, Signatures, Scalars

(* Before the call nothing has been signed.                                  *)
LEMMA EcdsaStarts == EcdsaAssumption /\ EcdsaInit => EcdsaInv
  <1>1. EcdsaAssumption /\ EcdsaInit => EcdsaTypeOK
    <2> SUFFICES ASSUME EcdsaAssumption, EcdsaInit
                 PROVE  EcdsaTypeOK
      OBVIOUS
    <2>1. sig \in Signatures /\ ret \in BOOLEAN /\ pc = "idle"
      BY ZerosAre DEF EcdsaInit
    <2>2. signer \in EcdsaKeys /\ msg \in Messages /\ count \in 0 .. MaxTries
      BY DEF EcdsaAssumption, EcdsaInit
    <2> QED
      BY <2>1, <2>2 DEF EcdsaTypeOK
  <1>2. EcdsaInit => AttemptKept
    BY DEF EcdsaInit, AttemptKept
  <1> QED
    BY <1>1, <1>2 DEF EcdsaInv

(* Every step of the loop and every call on the object keep the invariant.   *)
LEMMA EcdsaSteps ==
    EcdsaAssumption /\ OrderAssumption /\ EcdsaInv /\ [EcdsaNext]_ecdsa_vars => EcdsaInv'
  <1> SUFFICES ASSUME EcdsaAssumption, OrderAssumption, EcdsaInv, [EcdsaNext]_ecdsa_vars
               PROVE  EcdsaInv'
    OBVIOUS
  <1> USE DEF EcdsaInv
  <1>1. /\ signer \in EcdsaKeys /\ msg \in Messages /\ count \in 0 .. MaxTries
        /\ sig \in Signatures /\ ret \in BOOLEAN
    BY DEF EcdsaTypeOK
  <1>2. CASE SignCall
    BY <1>1, <1>2, ZerosAre DEF SignCall, EcdsaTypeOK, AttemptKept
  <1>3. CASE NonceFunctionFails
    <2>1. /\ ret' = FALSE /\ sig' = NoSignature /\ pc' = "signed"
          /\ UNCHANGED <<signer, msg, count>>
      BY <1>3 DEF NonceFunctionFails, Return
    <2> QED
      BY <1>1, <2>1, ZerosAre DEF EcdsaTypeOK, AttemptKept
  <1>4. ASSUME NEW nonce32 \in NonceBytes, TryNonce(nonce32)
        PROVE  EcdsaInv'
    <2> DEFINE attempt == sig_sign(Sec, scalar_set_b32(msg), nonce32)
               valid == scalar_set_b32_seckey(nonce32)
    <2>1. /\ Sec \in Scalars /\ scalar_set_b32(msg) \in Scalars
          /\ scalar_set_b32_seckey(signer) => signer \in Points /\ Sec = signer
      BY ArgumentsAre
    <2>2. valid => nonce32 \in Points
      BY SecretIs DEF EcdsaAssumption
    <2>3. valid => attempt \in Signatures
      BY <2>1, <2>2, AttemptIs
    <2>4. pc = "nonce" /\ UNCHANGED <<signer, msg>>
      BY <1>4 DEF TryNonce
    <2>5. CASE valid /\ Signed(attempt) /\ Return(attempt, TRUE) /\ UNCHANGED count
      <3>1. CASE scalar_set_b32_seckey(signer)
        <4>1. ret' = TRUE /\ sig' = attempt /\ pc' = "signed"
          BY <2>5, <3>1 DEF Return
        <4>2. sig' = sig_sign(signer, scalar_set_b32(msg), nonce32) /\ Signed(sig')
          BY <2>1, <2>5, <3>1, <4>1
        <4> HIDE DEF attempt
        <4>3. AttemptKept'
          BY <2>1, <2>2, <2>4, <2>5, <3>1, <4>1, <4>2 DEF AttemptKept
        <4> QED
          BY <1>1, <2>3, <2>4, <2>5, <4>1, <4>3 DEF EcdsaTypeOK
      <3>2. CASE ~scalar_set_b32_seckey(signer)
        <4>1. ret' = FALSE /\ sig' = NoSignature /\ pc' = "signed"
          BY <2>5, <3>2 DEF Return
        <4> QED
          BY <1>1, <2>4, <2>5, <4>1, ZerosAre DEF EcdsaTypeOK, AttemptKept
      <3> QED
        BY <3>1, <3>2
    <2>6. CASE /\ valid => ~Signed(attempt)
               /\ count < MaxTries /\ count' = count + 1
               /\ sig' = IF valid THEN attempt ELSE sig
               /\ UNCHANGED <<ret, pc>>
      <3> HIDE DEF attempt, valid
      <3>1. sig' \in Signatures
        BY <1>1, <2>3, <2>6
      <3>2. count' \in 0 .. MaxTries
        BY <1>1, <2>6 DEF EcdsaAssumption
      <3> QED
        BY <1>1, <2>4, <2>6, <3>1, <3>2 DEF EcdsaTypeOK, AttemptKept
    <2> QED
      BY <1>4, <2>5, <2>6 DEF TryNonce
  <1>5. ASSUME NEW r32 \in WireBytes, NEW s32 \in WireBytes, NEW recid \in 0 .. 3,
               ParseCompact(r32, s32, recid)
        PROVE  EcdsaInv'
    <2>1. r32 \in Nat /\ s32 \in Nat
      BY DEF EcdsaAssumption
    <2>2. /\ pc' = "parsed" /\ ret' \in BOOLEAN /\ UNCHANGED <<signer, msg, count>>
          /\ ret' => ~Overflows(r32) /\ ~Overflows(s32)
          /\ sig' = IF ret' THEN [r |-> r32, s |-> s32, recid |-> recid] ELSE NoSignature
      BY <1>5 DEF ParseCompact
    <2>3. ret' => r32 \in Scalars /\ s32 \in Scalars
      BY <2>1, <2>2, SetIs
    <2>4. sig' \in Signatures
      BY <2>2, <2>3, ZerosAre DEF Signatures
    <2> QED
      BY <1>1, <2>2, <2>4 DEF EcdsaTypeOK, AttemptKept
  <1>6. CASE Normalize
    <2>1. /\ pc = "parsed" /\ UNCHANGED <<signer, msg, count, pc>>
          /\ ret' \in BOOLEAN /\ sig' = signature_normalize(sig)
      BY <1>6 DEF Normalize, scalar_is_high
    <2>2. scalar_negate(sig.s) \in Scalars
      BY <1>1, NegateIs DEF Signatures
    <2>3. sig' \in Signatures
      BY <1>1, <2>1, <2>2 DEF signature_normalize, Signatures
    <2> QED
      BY <1>1, <2>1, <2>3 DEF EcdsaTypeOK, AttemptKept
  <1>7. CASE UNCHANGED ecdsa_vars
    BY <1>1, <1>7 DEF ecdsa_vars, EcdsaTypeOK, AttemptKept
  <1> QED
    BY <1>2, <1>3, <1>4, <1>5, <1>6, <1>7 DEF EcdsaNext

(* The invariant of the signing call, for every prime order and every set of *)
(* X coordinates (secp256k1.c:541-613).                                      *)
THEOREM AlwaysEcdsaInv == EcdsaAssumption /\ OrderAssumption => (EcdsaSpec => []EcdsaInv)
  <1> SUFFICES ASSUME EcdsaAssumption, OrderAssumption
               PROVE  EcdsaSpec => []EcdsaInv
    OBVIOUS
  <1>1. EcdsaInit => EcdsaInv
    BY EcdsaStarts
  <1>2. EcdsaInv /\ [EcdsaNext]_ecdsa_vars => EcdsaInv'
    BY EcdsaSteps
  <1> QED
    BY <1>1, <1>2, PTL DEF EcdsaSpec

(* However many nonces it took, a signature that is returned verifies and    *)
(* recovers to the signer, and a failed call leaves zeros                    *)
(* (secp256k1.c:580-596).                                                    *)
THEOREM SignaturesVerify ==
    EcdsaAssumption /\ OrderAssumption => (EcdsaSpec => []SignedVerifies)
  <1> SUFFICES ASSUME EcdsaAssumption, OrderAssumption
               PROVE  EcdsaSpec => []SignedVerifies
    OBVIOUS
  <1>1. EcdsaInv => SignedVerifies
    <2> SUFFICES ASSUME EcdsaInv, pc = "signed"
                 PROVE  IF ret
                        THEN /\ ecdsa_verify(sig, signer, msg)
                             /\ sig_recover(sig, scalar_set_b32(msg), sig.recid) = signer
                        ELSE sig = NoSignature
      BY DEF SignedVerifies
    <2> DEFINE m == scalar_set_b32(msg)
    <2>1. CASE ret
      <3>1. signer \in Points
        BY <2>1 DEF EcdsaInv, AttemptKept
      <3>2. PICK k \in Points : sig = sig_sign(signer, m, k) /\ Signed(sig)
        BY <2>1 DEF EcdsaInv, AttemptKept
      <3>3. m \in Scalars
        BY ArgumentsAre DEF EcdsaInv
      <3> HIDE DEF m
      <3>4. /\ sig_verify(sig, signer, m) /\ ~scalar_is_high(sig.s)
            /\ sig_recover(sig, m, sig.recid) = signer
        BY <3>1, <3>2, <3>3, AttemptVerifies
      <3>5. ecdsa_verify(sig, signer, msg)
        BY <3>1, <3>4 DEF ecdsa_verify, m, Points
      <3> QED
        BY <2>1, <3>4, <3>5 DEF m
    <2>2. CASE ~ret
      BY <2>2 DEF EcdsaInv, AttemptKept
    <2> QED
      BY <2>1, <2>2
  <1> QED
    BY <1>1, AlwaysEcdsaInv, PTL

(* Verification and recovery agree on every signature object, and of s and   *)
(* its negation one is accepted (ecdsa_impl.h:244-258,                       *)
(* recovery/main_impl.h:87-121).                                             *)
THEOREM RecoveryAgrees ==
    EcdsaAssumption /\ OrderAssumption => (EcdsaSpec => []RecoverIffVerifies)
  <1> SUFFICES ASSUME EcdsaAssumption, OrderAssumption
               PROVE  EcdsaSpec => []RecoverIffVerifies
    OBVIOUS
  <1>1. EcdsaInv => RecoverIffVerifies
    <2> SUFFICES ASSUME EcdsaInv
                 PROVE  RecoverIffVerifies
      OBVIOUS
    <2>1. sig \in Signatures /\ sig.r \in Scalars /\ sig.s \in Scalars /\ msg \in Nat
      BY DEF EcdsaInv, EcdsaTypeOK, Signatures, EcdsaAssumption
    <2>2. scalar_set_b32(msg) \in Scalars
      BY ArgumentsAre DEF EcdsaInv
    <2>3. OneIdentifierRecovers
      BY <2>1, <2>2, OneRecovers DEF OneIdentifierRecovers
    <2>4. OneOfTwoAccepted
      BY <2>1, AcceptsOne DEF OneOfTwoAccepted
    <2> QED
      BY <2>3, <2>4 DEF RecoverIffVerifies
  <1> QED
    BY <1>1, AlwaysEcdsaInv, PTL

-----------------------------------------------------------------------------
(* What is hashed: a sequence, over any set.                                 *)
IsString(m) == \E T : m \in Seq(T)

(* Functions on 1 .. n are strings of n elements.                            *)
LEMMA StringFrom ==
    ASSUME NEW n \in Nat, NEW f, DOMAIN f = 1 .. n, f = [i \in 1 .. n |-> f[i]]
    PROVE  IsString(f) /\ Len(f) = n
  <1> DEFINE T == {f[i] : i \in 1 .. n}
  <1>1. f \in [1 .. n -> T]
    OBVIOUS
  <1>2. f \in Seq(T) /\ Len(f) = n
    BY <1>1
  <1> QED
    BY <1>2 DEF IsString

(* Strings are equal when they have one length and the same elements.        *)
LEMMA StringsEqual ==
    ASSUME NEW s, NEW t, IsString(s), IsString(t), Len(s) = Len(t),
           \A i \in 1 .. Len(s) : s[i] = t[i]
    PROVE  s = t
  <1>1. PICK S : s \in Seq(S)
    BY DEF IsString
  <1>2. PICK T : t \in Seq(T)
    BY DEF IsString
  <1>3. s \in Seq(S \cup T) /\ t \in Seq(S \cup T)
    BY <1>1, <1>2
  <1> QED
    BY <1>3

(* j is s followed by t.                                                     *)
IsJoin(j, s, t) ==
    /\ IsString(j) /\ Len(s) \in Nat /\ Len(t) \in Nat /\ Len(j) = Len(s) + Len(t)
    /\ \A i \in 1 .. Len(s) : j[i] = s[i]
    /\ \A i \in 1 .. Len(t) : j[Len(s) + i] = t[i]

(* A string written after another.                                           *)
LEMMA JoinIs ==
    ASSUME NEW s, NEW t, IsString(s), IsString(t)
    PROVE  IsJoin(s \o t, s, t)
  <1>1. PICK S : s \in Seq(S)
    BY DEF IsString
  <1>2. PICK T : t \in Seq(T)
    BY DEF IsString
  <1>3. s \in Seq(S \cup T) /\ t \in Seq(S \cup T)
    BY <1>1, <1>2
  <1>4. /\ s \o t \in Seq(S \cup T) /\ Len(s) \in Nat /\ Len(t) \in Nat
        /\ Len(s \o t) = Len(s) + Len(t)
    BY <1>3
  <1>5. \A i \in 1 .. Len(s) : (s \o t)[i] = s[i]
    BY <1>3
  <1>6. ASSUME NEW i \in 1 .. Len(t) PROVE (s \o t)[Len(s) + i] = t[i]
    BY <1>3, <1>4
  <1> QED
    BY <1>4, <1>5, <1>6 DEF IsString, IsJoin

(* Three strings may be joined in either order.                              *)
Associates(s, t, u) == (s \o t) \o u = s \o (t \o u)

(* All strings may.                                                          *)
LEMMA JoinAssoc ==
    ASSUME NEW s, NEW t, NEW u, IsString(s), IsString(t), IsString(u)
    PROVE  Associates(s, t, u)
  <1>1. PICK S : s \in Seq(S)
    BY DEF IsString
  <1>2. PICK T : t \in Seq(T)
    BY DEF IsString
  <1>3. PICK U : u \in Seq(U)
    BY DEF IsString
  <1>4. s \in Seq((S \cup T) \cup U) /\ t \in Seq((S \cup T) \cup U) /\ u \in Seq((S \cup T) \cup U)
    BY <1>1, <1>2, <1>3
  <1> QED
    BY <1>4 DEF Associates

(* The empty string is neutral.                                              *)
LEMMA JoinEmpty ==
    ASSUME NEW s, IsString(s)
    PROVE  s \o <<>> = s /\ <<>> \o s = s /\ IsString(<<>>) /\ Len(<<>>) = 0 /\ Len(s) \in Nat
  <1>1. PICK S : s \in Seq(S)
    BY DEF IsString
  <1>2. IsString(<<>>)
    BY DEF IsString
  <1> QED
    BY <1>1, <1>2

(* p is the n elements of s after the first a.                               *)
IsPiece(p, s, a, n) == IsString(p) /\ Len(p) = n /\ \A i \in 1 .. n : p[i] = s[a + i]

(* A piece of a string.                                                      *)
LEMMA PieceIs ==
    ASSUME NEW s, IsString(s), NEW a \in Nat, NEW n \in Nat, NEW first, NEW last,
           first = a + 1, last = a + n, last <= Len(s)
    PROVE  IsPiece(SubSeq(s, first, last), s, a, n)
  <1>1. PICK S : s \in Seq(S)
    BY DEF IsString
  <1>2. \A i \in first .. last : s[i] \in S
    BY <1>1
  <1> DEFINE p == SubSeq(s, first, last)
  <1>3. p \in Seq(S) /\ Len(p) = n
    BY <1>1, <1>2
  <1>4. ASSUME NEW i \in 1 .. n PROVE p[i] = s[a + i]
    BY <1>1, <1>2
  <1> QED
    BY <1>3, <1>4 DEF IsString, IsPiece

(* A number of bytes is of whole blocks and of what is over.                 *)
LEMMA WholeBlocks ==
    ASSUME HashAssumption, NEW n \in Nat
    PROVE  /\ BlockBytes \in Nat \ {0}
           /\ n \div BlockBytes \in Nat /\ n % BlockBytes \in 0 .. BlockBytes - 1
           /\ (n \div BlockBytes) * BlockBytes \in Nat
           /\ n = (n \div BlockBytes) * BlockBytes + (n % BlockBytes)
           /\ \A q \in Nat, r \in 0 .. BlockBytes - 1 :
                  n = q * BlockBytes + r => q = n \div BlockBytes /\ r = n % BlockBytes
  <1>1. BlockBytes \in Nat \ {0}
    BY DEF HashAssumption
  <1>2. n \div BlockBytes \in Nat /\ n % BlockBytes \in 0 .. BlockBytes - 1
    BY <1>1, Z3
  <1>3. (n \div BlockBytes) * BlockBytes \in Nat
    BY <1>1, <1>2, Z3
  <1>4. n = (n \div BlockBytes) * BlockBytes + (n % BlockBytes)
    <2>1. n = BlockBytes * (n \div BlockBytes) + (n % BlockBytes)
      BY <1>1, Z3
    <2>2. BlockBytes * (n \div BlockBytes) = (n \div BlockBytes) * BlockBytes
      BY <1>1, <1>2, Z3
    <2> QED
      BY <2>1, <2>2
  <1>5. ASSUME NEW q \in Nat, NEW r \in 0 .. BlockBytes - 1, n = q * BlockBytes + r
        PROVE  q = n \div BlockBytes /\ r = n % BlockBytes
    BY <1>1, <1>5, Z3
  <1> QED
    BY <1>1, <1>2, <1>3, <1>4, <1>5

(* Where the block after b whole ones lies, when there are k.                *)
LEMMA BlockWithin ==
    ASSUME HashAssumption, NEW k \in Nat, NEW b \in 1 .. k
    PROVE  /\ (b - 1) * BlockBytes \in Nat
           /\ b * BlockBytes = (b - 1) * BlockBytes + BlockBytes
           /\ b * BlockBytes \in Nat /\ k * BlockBytes \in Nat
           /\ b * BlockBytes <= k * BlockBytes
  <1>1. BlockBytes \in Nat \ {0}
    BY DEF HashAssumption
  <1>2. b - 1 \in Nat /\ b \in Nat /\ k - b \in Nat
    OBVIOUS
  <1>3. /\ (b - 1) * BlockBytes \in Nat /\ b * BlockBytes \in Nat /\ k * BlockBytes \in Nat
        /\ (k - b) * BlockBytes \in Nat
    BY <1>1, <1>2, Z3
  <1>4. b * BlockBytes = (b - 1) * BlockBytes + BlockBytes
    BY <1>1, <1>2, Z3
  <1>5. k * BlockBytes = b * BlockBytes + (k - b) * BlockBytes
    BY <1>1, <1>2, Z3
  <1> QED
    BY <1>3, <1>4, <1>5

(* A whole block of a string.                                                *)
LEMMA BlockIs ==
    ASSUME HashAssumption, NEW m, IsString(m), NEW b \in 1 .. Len(m) \div BlockBytes
    PROVE  /\ IsString(Blocks(m)[b]) /\ Len(Blocks(m)[b]) = BlockBytes
           /\ (b - 1) * BlockBytes \in Nat /\ (b - 1) * BlockBytes + BlockBytes <= Len(m)
           /\ \A i \in 1 .. BlockBytes : Blocks(m)[b][i] = m[(b - 1) * BlockBytes + i]
  <1> DEFINE k == Len(m) \div BlockBytes
             from == (b - 1) * BlockBytes
             to == b * BlockBytes
  <1>1. Len(m) \in Nat
    BY JoinEmpty
  <1>2. k \in Nat /\ k * BlockBytes <= Len(m)
    <2>1. /\ k \in Nat /\ Len(m) % BlockBytes \in 0 .. BlockBytes - 1 /\ BlockBytes \in Nat
          /\ k * BlockBytes \in Nat /\ Len(m) = k * BlockBytes + (Len(m) % BlockBytes)
      BY <1>1, WholeBlocks
    <2> QED
      BY <2>1
  <1>3. /\ from \in Nat /\ to \in Nat /\ to = from + BlockBytes /\ k * BlockBytes \in Nat
        /\ to <= k * BlockBytes
    BY <1>2, BlockWithin
  <1>4. Blocks(m)[b] = SubSeq(m, from + 1, to)
    BY DEF Blocks
  <1>5. BlockBytes \in Nat
    BY DEF HashAssumption
  <1> DEFINE first == from + 1
  <1>6. first = from + 1 /\ to <= Len(m)
    BY <1>1, <1>2, <1>3, <1>5
  <1> HIDE DEF k, from, to, first
  <1>7. IsPiece(SubSeq(m, first, to), m, from, BlockBytes)
    BY <1>3, <1>5, <1>6, PieceIs
  <1>8. /\ IsString(Blocks(m)[b]) /\ Len(Blocks(m)[b]) = BlockBytes
        /\ from \in Nat /\ from + BlockBytes <= Len(m)
        /\ \A i \in 1 .. BlockBytes : Blocks(m)[b][i] = m[from + i]
    BY <1>3, <1>4, <1>6, <1>7 DEF IsPiece, first
  <1> QED
    BY <1>8 DEF from

(* The blocks of a string are a string of them.                              *)
LEMMA BlocksString ==
    ASSUME HashAssumption, NEW m, IsString(m)
    PROVE  /\ IsString(Blocks(m)) /\ Len(Blocks(m)) = Len(m) \div BlockBytes
           /\ Len(m) \in Nat /\ Len(m) \div BlockBytes \in Nat
  <1>1. Len(m) \in Nat
    BY JoinEmpty
  <1>2. Len(m) \div BlockBytes \in Nat
    BY <1>1, WholeBlocks
  <1> DEFINE n == Len(m) \div BlockBytes
             s == Blocks(m)
  <1>3. DOMAIN s = 1 .. n /\ s = [b \in 1 .. n |-> s[b]]
    BY DEF Blocks
  <1> HIDE DEF n, s
  <1>4. IsString(s) /\ Len(s) = n
    BY <1>2, <1>3, StringFrom DEF n
  <1> QED
    BY <1>1, <1>2, <1>4 DEF n, s

(* A string of blocks that are those of m, is Blocks(m).                     *)
LEMMA BlocksAre ==
    ASSUME HashAssumption, NEW m, IsString(m), NEW s, IsString(s),
           Len(s) = Len(m) \div BlockBytes,
           \A b \in 1 .. Len(s) :
               /\ IsString(s[b]) /\ Len(s[b]) = BlockBytes
               /\ \A i \in 1 .. BlockBytes : s[b][i] = m[(b - 1) * BlockBytes + i]
    PROVE  s = Blocks(m)
  <1>1. IsString(Blocks(m)) /\ Len(Blocks(m)) = Len(s)
    BY BlocksString
  <1>2. ASSUME NEW b \in 1 .. Len(s) PROVE s[b] = Blocks(m)[b]
    <2>1. /\ IsString(Blocks(m)[b]) /\ Len(Blocks(m)[b]) = BlockBytes
          /\ \A i \in 1 .. BlockBytes : Blocks(m)[b][i] = m[(b - 1) * BlockBytes + i]
      BY BlockIs
    <2>2. \A i \in 1 .. Len(s[b]) : s[b][i] = Blocks(m)[b][i]
      BY <2>1
    <2> QED
      BY <2>1, <2>2, StringsEqual
  <1> QED
    BY <1>1, <1>2, StringsEqual
(* What is left of a string without its first n elements.                    *)
LEMMA DropIs ==
    ASSUME NEW s, IsString(s), NEW n \in Nat, n <= Len(s)
    PROVE  IsPiece(Drop(s, n), s, n, Len(s) - n)
  <1>1. Len(s) \in Nat
    BY JoinEmpty
  <1> DEFINE rest == Len(s) - n
             first == n + 1
             last == Len(s)
  <1>2. rest \in Nat /\ first = n + 1 /\ last = n + rest /\ last <= Len(s)
    BY <1>1
  <1> HIDE DEF rest, first, last
  <1>3. IsPiece(SubSeq(s, first, last), s, n, rest)
    BY <1>2, PieceIs
  <1> QED
    BY <1>3 DEF Drop, rest, first, last

(* What follows whole blocks adds its blocks to them.                        *)
LEMMA BlocksJoin ==
    ASSUME HashAssumption, NEW m, NEW d, IsString(m), IsString(d), Len(m) % BlockBytes = 0
    PROVE  /\ Blocks(m \o d) = Blocks(m) \o Blocks(d)
           /\ Len(m \o d) \div BlockBytes = (Len(m) \div BlockBytes) + (Len(d) \div BlockBytes)
           /\ Len(m \o d) % BlockBytes = Len(d) % BlockBytes
  <1> DEFINE M == m \o d
             k == Len(m) \div BlockBytes
             q == Len(d) \div BlockBytes
             r == Len(d) % BlockBytes
             s == Blocks(m) \o Blocks(d)
  <1>1. /\ IsString(M) /\ Len(m) \in Nat /\ Len(d) \in Nat /\ Len(M) = Len(m) + Len(d)
        /\ \A i \in 1 .. Len(m) : M[i] = m[i]
        /\ \A i \in 1 .. Len(d) : M[Len(m) + i] = d[i]
    <2>1. IsJoin(m \o d, m, d)
      BY ONLY IsString(m), IsString(d), JoinIs
    <2> QED
      BY <2>1 DEF IsJoin
  <1>2. /\ BlockBytes \in Nat \ {0} /\ k \in Nat /\ k * BlockBytes \in Nat
        /\ Len(m) = k * BlockBytes
    <2>1. /\ BlockBytes \in Nat \ {0} /\ k \in Nat /\ k * BlockBytes \in Nat
          /\ Len(m) = k * BlockBytes + (Len(m) % BlockBytes)
      BY <1>1, WholeBlocks
    <2> QED
      BY <2>1
  <1>3. /\ q \in Nat /\ q * BlockBytes \in Nat /\ r \in 0 .. BlockBytes - 1
        /\ Len(d) = q * BlockBytes + r
    BY <1>1, WholeBlocks
  <1>4. /\ IsString(Blocks(m)) /\ Len(Blocks(m)) = k
        /\ IsString(Blocks(d)) /\ Len(Blocks(d)) = q
    BY BlocksString
  <1>5. /\ IsString(s) /\ Len(s) = k + q
        /\ \A b \in 1 .. k : s[b] = Blocks(m)[b]
        /\ \A b \in 1 .. q : s[k + b] = Blocks(d)[b]
    <2> DEFINE before == Blocks(m)
               after == Blocks(d)
    <2>1. IsString(before) /\ IsString(after)
      BY <1>4
    <2> HIDE DEF before, after, k, q
    <2>2. IsJoin(before \o after, before, after)
      BY <2>1, JoinIs
    <2> QED
      BY <1>4, <2>2 DEF before, after, IsJoin
  <1>6. k + q = Len(M) \div BlockBytes /\ r = Len(M) % BlockBytes
    <2>1. (k + q) * BlockBytes = k * BlockBytes + q * BlockBytes /\ k + q \in Nat
      BY <1>2, <1>3, Z3
    <2> HIDE DEF k, q, r, M
    <2>2. Len(M) \in Nat /\ Len(M) = (k + q) * BlockBytes + r
      BY <1>1, <1>2, <1>3, <2>1
    <2>3. \A j \in Nat, t \in 0 .. BlockBytes - 1 :
              Len(M) = j * BlockBytes + t => j = Len(M) \div BlockBytes /\ t = Len(M) % BlockBytes
      BY <2>2, WholeBlocks
    <2> QED
      BY <1>3, <2>1, <2>2, <2>3
  <1>7. ASSUME NEW b \in 1 .. k
        PROVE  /\ IsString(s[b]) /\ Len(s[b]) = BlockBytes
               /\ \A i \in 1 .. BlockBytes : s[b][i] = M[(b - 1) * BlockBytes + i]
    <2> DEFINE from == (b - 1) * BlockBytes
    <2>1. /\ IsString(Blocks(m)[b]) /\ Len(Blocks(m)[b]) = BlockBytes
          /\ from \in Nat /\ from + BlockBytes <= Len(m)
          /\ \A i \in 1 .. BlockBytes : Blocks(m)[b][i] = m[from + i]
      BY BlockIs
    <2> HIDE DEF from, k, M, s
    <2>2. \A i \in 1 .. BlockBytes : from + i \in 1 .. Len(m)
      BY <2>1, <1>1, <1>2
    <2>3. \A i \in 1 .. BlockBytes : Blocks(m)[b][i] = M[from + i]
      BY <2>1, <2>2, <1>1
    <2>4. s[b] = Blocks(m)[b]
      BY <1>5
    <2> QED
      BY <2>1, <2>3, <2>4 DEF from
  <1>8. ASSUME NEW c \in 1 .. q
        PROVE  /\ IsString(s[k + c]) /\ Len(s[k + c]) = BlockBytes
               /\ \A i \in 1 .. BlockBytes : s[k + c][i] = M[((k + c) - 1) * BlockBytes + i]
    <2> DEFINE from == (c - 1) * BlockBytes
               b == k + c
               start == (b - 1) * BlockBytes
    <2>1. /\ IsString(Blocks(d)[c]) /\ Len(Blocks(d)[c]) = BlockBytes
          /\ from \in Nat /\ from + BlockBytes <= Len(d)
          /\ \A i \in 1 .. BlockBytes : Blocks(d)[c][i] = d[from + i]
      BY BlockIs
    <2>2. start = k * BlockBytes + from
      <3>1. k \in Nat /\ c \in Nat /\ BlockBytes \in Nat
        BY <1>2, <1>3
      <3> HIDE DEF k, q
      <3> QED
        BY <3>1, Z3
    <2> HIDE DEF from, k, q, M, s, start
    <2>3. \A i \in 1 .. BlockBytes : from + i \in 1 .. Len(d)
      BY <2>1, <1>1, <1>2
    <2>4. \A i \in 1 .. BlockBytes : d[from + i] = M[Len(m) + (from + i)]
      BY <2>3, <1>1
    <2>5. \A i \in 1 .. BlockBytes : Len(m) + (from + i) = start + i
      BY <2>1, <2>2, <1>1, <1>2
    <2>6. \A i \in 1 .. BlockBytes : Blocks(d)[c][i] = M[start + i]
      BY <2>1, <2>4, <2>5
    <2>7. s[b] = Blocks(d)[c]
      BY <1>5 DEF b
    <2> QED
      BY <2>1, <2>6, <2>7 DEF start, b
  <1>9. ASSUME NEW b \in 1 .. Len(s)
        PROVE  /\ IsString(s[b]) /\ Len(s[b]) = BlockBytes
               /\ \A i \in 1 .. BlockBytes : s[b][i] = M[(b - 1) * BlockBytes + i]
    <2>1. CASE b <= k
      <3>1. b \in 1 .. k
        BY <1>2, <2>1
      <3> QED
        BY <3>1, <1>7
    <2>2. CASE b > k
      <3> DEFINE c == b - k
      <3>1. c \in 1 .. q /\ k + c = b
        <4>1. k \in Nat /\ q \in Nat /\ b \in 1 .. k + q
          BY <1>2, <1>3, <1>5
        <4> HIDE DEF k, q, s
        <4> QED
          BY <2>2, <4>1
      <3> HIDE DEF c, k, q, M, s
      <3>2. /\ IsString(s[k + c]) /\ Len(s[k + c]) = BlockBytes
            /\ \A i \in 1 .. BlockBytes : s[k + c][i] = M[((k + c) - 1) * BlockBytes + i]
        BY <3>1, <1>8
      <3> QED
        BY <3>1, <3>2
    <2>3. b <= k \/ b > k
      BY <1>2
    <2> QED
      BY <2>1, <2>2, <2>3
  <1>10. s = Blocks(M)
    <2>1. Len(s) = Len(M) \div BlockBytes
      BY <1>5, <1>6
    <2> HIDE DEF s, M
    <2> QED
      BY <1>1, <1>5, <1>9, <2>1, BlocksAre
  <1> QED
    BY <1>6, <1>10
(* The state of a hash that m was written to: the whole blocks are           *)
(* compressed, and what is over is at the start of the buffer.               *)
Holds(hash, m) ==
    /\ IsString(m) /\ hash.bytes = Len(m) /\ hash.s = Blocks(m)
    /\ \A i \in 1 .. Len(m) % BlockBytes :
           hash.buf[i] = m[(Len(m) \div BlockBytes) * BlockBytes + i]

(* A structure with the fields of a hash.                                    *)
IsHash(hash) == hash = [s |-> hash.s, buf |-> hash.buf, bytes |-> hash.bytes]

(* Writing to a hash with nothing in its buffer.                             *)
LEMMA WriteAligned ==
    ASSUME HashAssumption, NEW m, NEW d, IsString(m), IsString(d), Len(m) % BlockBytes = 0,
           NEW h, NEW buf,
           h.s = Blocks(m) \o Blocks(d), h.bytes = Len(m) + Len(d),
           h.buf = Overlay(buf, 0, Drop(d, (Len(d) \div BlockBytes) * BlockBytes))
    PROVE  Holds(h, m \o d)
  <1> DEFINE M == m \o d
             k == Len(m) \div BlockBytes
             q == Len(d) \div BlockBytes
             r == Len(d) % BlockBytes
             from == q * BlockBytes
             over == Drop(d, from)
             start == (Len(M) \div BlockBytes) * BlockBytes
  <1>1. IsJoin(M, m, d)
    BY JoinIs
  <1>2. /\ BlockBytes \in Nat \ {0} /\ k \in Nat /\ k * BlockBytes \in Nat
        /\ Len(m) = k * BlockBytes
    <2>1. Len(m) \in Nat
      BY <1>1 DEF IsJoin
    <2>2. /\ BlockBytes \in Nat \ {0} /\ k \in Nat /\ k * BlockBytes \in Nat
          /\ Len(m) = k * BlockBytes + (Len(m) % BlockBytes)
      BY <2>1, WholeBlocks
    <2> QED
      BY <2>2
  <1>3. /\ q \in Nat /\ from \in Nat /\ r \in 0 .. BlockBytes - 1 /\ Len(d) = from + r
    <2>1. Len(d) \in Nat
      BY <1>1 DEF IsJoin
    <2> QED
      BY <2>1, WholeBlocks
  <1>4. /\ Blocks(M) = Blocks(m) \o Blocks(d)
        /\ Len(M) \div BlockBytes = k + q /\ Len(M) % BlockBytes = r
    BY BlocksJoin
  <1>5. start = Len(m) + from
    <2>1. (k + q) * BlockBytes = k * BlockBytes + q * BlockBytes
      BY <1>2, <1>3, Z3
    <2> QED
      BY <1>2, <1>4, <2>1
  <1>6. IsPiece(over, d, from, r)
    <2> HIDE DEF from, q, r, k, M, start
    <2>3. from \in Nat /\ from <= Len(d)
      BY <1>2, <1>3
    <2>1. IsPiece(Drop(d, from), d, from, Len(d) - from)
      BY <2>3, DropIs
    <2>2. Len(d) - from = r
      BY <1>3
    <2> QED
      BY <2>1, <2>2
  <1>7. h.buf = Overlay(buf, 0, over)
    OBVIOUS
  <1> HIDE DEF M, k, q, r, from, over, start
  <1>8. ASSUME NEW i \in 1 .. r PROVE h.buf[i] = M[start + i]
    <2> DEFINE e == from + i
    <2>1. /\ i \in 1 .. BlockBytes /\ i - 0 = i /\ i \in 1 .. Len(over)
          /\ e \in 1 .. Len(d) /\ Len(m) + e = start + i
      BY <1>1, <1>2, <1>3, <1>5, <1>6 DEF IsPiece, IsJoin
    <2>2. h.buf[i] = over[i]
      <3>1. Overlay(buf, 0, over)[i] = IF i - 0 \in 1 .. Len(over) THEN over[i - 0] ELSE buf[i]
        BY <2>1 DEF Overlay
      <3> QED
        BY <1>7, <2>1, <3>1
    <2>3. over[i] = d[e]
      BY <1>6 DEF IsPiece
    <2> HIDE DEF e
    <2>4. M[Len(m) + e] = d[e]
      BY <1>1, <2>1 DEF IsJoin
    <2> QED
      BY <2>1, <2>2, <2>3, <2>4
  <1>9. IsString(M) /\ h.bytes = Len(M) /\ h.s = Blocks(M)
    BY <1>1, <1>4 DEF IsJoin
  <1> QED
    BY <1>4, <1>8, <1>9 DEF Holds, M, start

(* What is over and what fills it up are a block.                            *)
LEMMA FillsBlock ==
    ASSUME NEW block \in Int, NEW from \in Int, NEW over \in Int, NEW len, NEW added, NEW total,
           len = from + over, added = block - over, total = len + added
    PROVE  total = from + block
  OBVIOUS

(* The bytes of a string that do not make a block.                           *)
Over(m) == Len(m) % BlockBytes

(* full is a buffer that keeps what m left over, filled up with d.           *)
Completes(full, buf, m, d) ==
    /\ Len(d) = BlockBytes - Over(m)
    /\ \A i \in 1 .. Over(m) : buf[i] = m[(Len(m) \div BlockBytes) * BlockBytes + i]
    /\ IsString(full) /\ Len(full) = BlockBytes
    /\ \A i \in 1 .. Over(m) : full[i] = buf[i]
    /\ \A i \in 1 .. Len(d) : full[Over(m) + i] = d[i]

(* A buffer that is filled makes one more block.                             *)
LEMMA BlockFilled ==
    ASSUME HashAssumption, NEW m, NEW d, IsString(m), IsString(d), NEW buf,
           NEW full, Completes(full, buf, m, d)
    PROVE  /\ Blocks(m \o d) = Blocks(m) \o <<full>>
           /\ Len(m \o d) % BlockBytes = 0
  <1> DEFINE M == m \o d
             k == Len(m) \div BlockBytes
             t == Over(m)
             s == Blocks(m) \o <<full>>
             from == k * BlockBytes
  <1>1. IsJoin(M, m, d)
    BY JoinIs
  <1>2. /\ BlockBytes \in Nat \ {0} /\ k \in Nat /\ from \in Nat /\ t \in 0 .. BlockBytes - 1
        /\ Len(m) = from + t /\ Len(m) \in Nat
    <2>1. Len(m) \in Nat
      BY <1>1 DEF IsJoin
    <2> QED
      BY <2>1, WholeBlocks DEF Over
  <1>3. IsString(Blocks(m)) /\ Len(Blocks(m)) = k /\ IsString(<<full>>) /\ Len(<<full>>) = 1
    <2>1. IsString(Blocks(m)) /\ Len(Blocks(m)) = k
      BY BlocksString
    <2>2. <<full>> \in Seq({full}) /\ Len(<<full>>) = 1
      OBVIOUS
    <2> QED
      BY <2>1, <2>2 DEF IsString
  <1>4. /\ IsString(s) /\ Len(s) = k + 1 /\ s[k + 1] = full
        /\ \A b \in 1 .. k : s[b] = Blocks(m)[b]
    <2> DEFINE before == Blocks(m)
               one == <<full>>
    <2>1. IsString(before) /\ IsString(one) /\ Len(before) = k /\ Len(one) = 1 /\ one[1] = full
      BY <1>3
    <2> HIDE DEF before, one, k
    <2>2. IsJoin(before \o one, before, one)
      BY <2>1, JoinIs
    <2>3. 1 \in 1 .. Len(one)
      BY <2>1
    <2> QED
      BY <2>1, <2>2, <2>3 DEF before, one, IsJoin
  <1>5. k + 1 = Len(M) \div BlockBytes /\ Len(M) % BlockBytes = 0
    <2>1. (k + 1) * BlockBytes = from + BlockBytes /\ k + 1 \in Nat
      BY <1>2, Z3
    <2>2. Len(M) = Len(m) + Len(d)
      BY <1>1 DEF IsJoin
    <2> HIDE DEF k, t, M, from
    <2>3. Len(M) = from + BlockBytes
      <3>1. Len(d) = BlockBytes - t
        BY DEF t, Completes
      <3>2. BlockBytes \in Int /\ t \in Int /\ from \in Int /\ Len(m) = from + t
        BY <1>2
      <3> DEFINE added == Len(d)
                 total == Len(M)
                 len == Len(m)
      <3>3. /\ BlockBytes \in Int /\ from \in Int /\ t \in Int
            /\ len = from + t /\ added = BlockBytes - t /\ total = len + added
        BY <2>2, <3>1, <3>2
      <3> HIDE DEF added, total, len
      <3>4. total = from + BlockBytes
        BY <3>3, FillsBlock
      <3> QED
        BY <3>4 DEF total
    <2>5. Len(M) \in Nat /\ Len(M) = (k + 1) * BlockBytes + 0 /\ 0 \in 0 .. BlockBytes - 1
      BY <1>2, <2>1, <2>3
    <2>4. \A j \in Nat, r \in 0 .. BlockBytes - 1 :
              Len(M) = j * BlockBytes + r => j = Len(M) \div BlockBytes /\ r = Len(M) % BlockBytes
      BY <2>5, WholeBlocks
    <2> QED
      BY <2>1, <2>4, <2>5
  <1>6. ASSUME NEW b \in 1 .. k
        PROVE  /\ IsString(s[b]) /\ Len(s[b]) = BlockBytes
               /\ \A i \in 1 .. BlockBytes : s[b][i] = M[(b - 1) * BlockBytes + i]
    <2> DEFINE at == (b - 1) * BlockBytes
    <2>1. /\ IsString(Blocks(m)[b]) /\ Len(Blocks(m)[b]) = BlockBytes
          /\ at \in Nat /\ at + BlockBytes <= Len(m)
          /\ \A i \in 1 .. BlockBytes : Blocks(m)[b][i] = m[at + i]
      BY BlockIs
    <2> HIDE DEF at, k, M, s, t, from
    <2>2. \A i \in 1 .. BlockBytes : at + i \in 1 .. Len(m)
      BY <2>1, <1>2
    <2>3. \A i \in 1 .. BlockBytes : Blocks(m)[b][i] = M[at + i]
      BY <2>1, <2>2, <1>1 DEF IsJoin
    <2> QED
      BY <1>4, <2>1, <2>3 DEF at
  <1>7. ASSUME NEW i \in 1 .. BlockBytes PROVE full[i] = M[from + i]
    <2>1. CASE i <= t
      <3>1. i \in 1 .. t /\ from + i \in 1 .. Len(m)
        <4> HIDE DEF t, from
        <4> QED
          BY <1>2, <2>1
      <3>2. full[i] = buf[i] /\ buf[i] = m[from + i]
        BY <3>1 DEF Completes
      <3>3. M[from + i] = m[from + i]
        BY <3>1, <1>1 DEF IsJoin
      <3> QED
        BY <3>2, <3>3
    <2>2. CASE i > t
      <3> DEFINE j == i - t
      <3>1. j \in 1 .. Len(d) /\ t + j = i /\ Len(m) + j = from + i
        <4>1. Len(d) = BlockBytes - t
          BY DEF Completes
        <4> HIDE DEF t, from
        <4> QED
          BY <1>2, <2>2, <4>1
      <3> HIDE DEF j
      <3>2. full[t + j] = d[j]
        BY <3>1 DEF Completes
      <3>3. M[Len(m) + j] = d[j]
        BY <3>1, <1>1 DEF IsJoin
      <3> QED
        BY <3>1, <3>2, <3>3
    <2>3. i <= t \/ i > t
      BY <1>2
    <2> QED
      BY <2>1, <2>2, <2>3
  <1>8. ASSUME NEW b \in 1 .. Len(s)
        PROVE  /\ IsString(s[b]) /\ Len(s[b]) = BlockBytes
               /\ \A i \in 1 .. BlockBytes : s[b][i] = M[(b - 1) * BlockBytes + i]
    <2>1. b \in 1 .. k \/ (b = k + 1 /\ (b - 1) * BlockBytes = from)
      <3>1. b \in 1 .. k \/ (b = k + 1 /\ b - 1 = k)
        <4>1. k \in Nat /\ Len(s) = k + 1
          BY <1>2, <1>4
        <4> HIDE DEF k, s
        <4>2. b \in 1 .. k + 1
          BY <4>1
        <4> QED
          BY <4>1, <4>2
      <3> QED
        BY <3>1
    <2>2. CASE b = k + 1 /\ (b - 1) * BlockBytes = from
      <3>1. IsString(full) /\ Len(full) = BlockBytes
        BY DEF Completes
      <3> HIDE DEF k, s, M, from
      <3>2. s[b] = full
        BY <1>4, <2>2
      <3> QED
        BY <1>7, <2>2, <3>1, <3>2
    <2> QED
      BY <2>1, <2>2, <1>6
  <1>9. s = Blocks(M)
    <2>1. Len(s) = Len(M) \div BlockBytes /\ IsString(M)
      BY <1>1, <1>4, <1>5 DEF IsJoin
    <2> HIDE DEF s, M
    <2> QED
      BY <1>4, <1>8, <2>1, BlocksAre
  <1> QED
    BY <1>5, <1>9
(* Less than a block has no blocks.                                          *)
LEMMA NoBlocks ==
    ASSUME HashAssumption, NEW d, IsString(d), Len(d) < BlockBytes
    PROVE  Blocks(d) = <<>> /\ Len(d) \div BlockBytes = 0 /\ Len(d) % BlockBytes = Len(d)
  <1> DEFINE n == Len(d)
  <1>1. n \in Nat /\ n < BlockBytes
    BY JoinEmpty
  <1>2. n \div BlockBytes = 0 /\ n % BlockBytes = n
    <2> HIDE DEF n
    <2>3. BlockBytes \in Nat
      BY DEF HashAssumption
    <2>1. n \in 0 .. BlockBytes - 1 /\ n = 0 * BlockBytes + n
      BY <1>1, <2>3, SMTT(20)
    <2>2. \A j \in Nat, r \in 0 .. BlockBytes - 1 :
              n = j * BlockBytes + r => j = n \div BlockBytes /\ r = n % BlockBytes
      BY <1>1, WholeBlocks
    <2> QED
      BY <2>1, <2>2
  <1>3. IsString(Blocks(d)) /\ Len(Blocks(d)) = 0
    BY <1>2, BlocksString
  <1>4. IsString(<<>>) /\ Len(<<>>) = 0
    BY <1>3, JoinEmpty
  <1>5. Blocks(d) = <<>>
    BY <1>3, <1>4, StringsEqual
  <1> QED
    BY <1>2, <1>5

(* h is hash after d, too short to make a block, went to the buffer.         *)
Buffers(h, hash, m, d) ==
    /\ Over(m) + Len(d) < BlockBytes
    /\ h.s = hash.s /\ h.bytes = Len(m) + Len(d)
    /\ \E over : IsPiece(over, d, 0, Len(d)) /\ h.buf = Overlay(hash.buf, Over(m), over)

(* Writing less than makes a block leaves the blocks as they are.            *)
LEMMA WriteShort ==
    ASSUME HashAssumption, NEW m, NEW d, IsString(m), IsString(d),
           NEW hash, Holds(hash, m), NEW h, Buffers(h, hash, m, d)
    PROVE  Holds(h, m \o d)
  <1> DEFINE M == m \o d
             k == Len(m) \div BlockBytes
             from == k * BlockBytes
             n == Len(d)
             l == Len(m)
             t == Over(m)
  <1>1. IsJoin(M, m, d)
    BY JoinIs
  <1>2. /\ BlockBytes \in Nat \ {0} /\ k \in Nat /\ from \in Nat /\ t \in 0 .. BlockBytes - 1
        /\ l = from + t /\ l \in Nat
    <2>1. Len(m) \in Nat
      BY <1>1 DEF IsJoin
    <2> QED
      BY <2>1, WholeBlocks DEF Over
  <1>3. /\ Len(M) = l + n /\ n \in Nat /\ IsString(M)
        /\ \A i \in 1 .. l : M[i] = m[i]
        /\ \A i \in 1 .. n : M[l + i] = d[i]
    BY <1>1 DEF IsJoin
  <1>a. /\ BlockBytes \in Int /\ k \in Int /\ from \in Int /\ 0 <= from /\ t \in Int /\ 0 <= t
        /\ n \in Int /\ 0 <= n /\ l = from + t /\ t + n < BlockBytes
    BY <1>2, <1>3 DEF Buffers
  <1>4. k = Len(M) \div BlockBytes /\ Over(M) = t + n
    <2> HIDE DEF k, l, n, from, M, t
    <2>4. Len(M) = l + n
      BY <1>3
    <2>2. Len(M) \in Nat /\ Len(M) = from + (t + n) /\ t + n \in 0 .. BlockBytes - 1
      BY <1>a, <2>4
    <2>3. \A j \in Nat, r \in 0 .. BlockBytes - 1 :
              Len(M) = j * BlockBytes + r => j = Len(M) \div BlockBytes /\ r = Len(M) % BlockBytes
      BY <2>2, WholeBlocks
    <2> QED
      BY <1>2, <2>2, <2>3 DEF from, Over
  <1>5. Blocks(M) = Blocks(m)
    <2>1. IsString(Blocks(m)) /\ Len(Blocks(m)) = Len(M) \div BlockBytes /\ Len(Blocks(m)) = k
      BY <1>4, BlocksString
    <2>2. ASSUME NEW b \in 1 .. k
          PROVE  /\ IsString(Blocks(m)[b]) /\ Len(Blocks(m)[b]) = BlockBytes
                 /\ \A i \in 1 .. BlockBytes : Blocks(m)[b][i] = M[(b - 1) * BlockBytes + i]
      <3> DEFINE at == (b - 1) * BlockBytes
      <3>1. /\ IsString(Blocks(m)[b]) /\ Len(Blocks(m)[b]) = BlockBytes
            /\ at \in Nat /\ at + BlockBytes <= l
            /\ \A i \in 1 .. BlockBytes : Blocks(m)[b][i] = m[at + i]
        BY BlockIs
      <3> HIDE DEF at, k, M, from, n, l, t
      <3>2. \A i \in 1 .. BlockBytes : at + i \in 1 .. l
        BY <3>1, <1>2
      <3>3. \A i \in 1 .. BlockBytes : Blocks(m)[b][i] = M[at + i]
        BY <3>1, <3>2, <1>3
      <3> QED
        BY <3>1, <3>3 DEF at
    <2> HIDE DEF k, M
    <2> QED
      BY <1>3, <2>1, <2>2, BlocksAre
  <1>6. ASSUME NEW i \in 1 .. t + n PROVE h.buf[i] = M[from + i]
    <2>1. PICK over : /\ h.buf = Overlay(hash.buf, t, over) /\ Len(over) = n
                      /\ \A j \in 1 .. n : over[j] = d[0 + j]
      BY DEF IsPiece, Buffers
    <2>2. \A j \in 1 .. t : hash.buf[j] = m[from + j]
      BY DEF Holds, Over
    <2> HIDE DEF k, l, n, from, M, t
    <2>3. i \in 1 .. BlockBytes
      BY <1>a
    <2>4. h.buf[i] = IF i - t \in 1 .. n THEN over[i - t] ELSE hash.buf[i]
      BY <2>1, <2>3 DEF Overlay
    <2>5. CASE i <= t
      <3>1. i \in 1 .. t /\ from + i \in 1 .. l /\ i - t \notin 1 .. n
        BY <1>a, <2>3, <2>5
      <3> QED
        BY <3>1, <2>2, <2>4, <1>3
    <2>6. CASE i > t
      <3> DEFINE j == i - t
      <3>1. j \in 1 .. n /\ l + j = from + i /\ 0 + j = j
        BY <1>a, <2>3, <2>6
      <3> HIDE DEF j
      <3>2. h.buf[i] = over[j]
        BY <3>1, <2>4 DEF j
      <3> QED
        BY <3>1, <3>2, <2>1, <1>3
    <2>7. i <= t \/ i > t
      BY <1>a
    <2> QED
      BY <2>5, <2>6, <2>7
  <1>7. hash.s = Blocks(m)
    BY DEF Holds
  <1>8. h.s = hash.s /\ h.bytes = l + n
    BY DEF Buffers
  <1> QED
    BY <1>3, <1>4, <1>5, <1>6, <1>7, <1>8 DEF Holds, Over
(* What sha256_write leaves, when it does not fill the buffer and when it    *)
(* does.                                                                     *)
WroteNoFill(w, hash, d, t) ==
    /\ w.s = hash.s \o <<>> \o Blocks(d)
    /\ w.buf = Overlay(hash.buf, t, Drop(d, (Len(d) \div BlockBytes) * BlockBytes))
WroteFill(w, hash, d, full, rest) ==
    /\ w.s = hash.s \o <<full>> \o Blocks(rest)
    /\ w.buf = Overlay(full, 0, Drop(rest, (Len(rest) \div BlockBytes) * BlockBytes))

(* These are the two cases of sha256_write.                                  *)
LEMMA WriteIs ==
    ASSUME NEW hash, NEW d, NEW t, t = hash.bytes % BlockBytes, NEW w, w = sha256_write(hash, d)
    PROVE  /\ IsHash(w) /\ w.bytes = hash.bytes + Len(d)
           /\ ~Fills(t, Len(d)) => WroteNoFill(w, hash, d, t)
           /\ Fills(t, Len(d)) =>
                  WroteFill(w, hash, d, Overlay(hash.buf, t, d), Drop(d, BlockBytes - t))
  <1>1. IsHash(w) /\ w.bytes = hash.bytes + Len(d)
    BY DEF sha256_write, IsHash
  <1>2. CASE ~Fills(t, Len(d))
    BY <1>1, <1>2 DEF sha256_write, WroteNoFill
  <1>3. CASE Fills(t, Len(d))
    BY <1>1, <1>3 DEF sha256_write, WroteFill
  <1> QED
    BY <1>2, <1>3

(* Writing a string after another is writing both at once, whatever the      *)
(* buffer held after the first.                                              *)
LEMMA WriteAppends ==
    ASSUME HashAssumption, NEW hash, NEW m, NEW d, Holds(hash, m), IsString(d)
    PROVE  Holds(sha256_write(hash, d), m \o d) /\ IsHash(sha256_write(hash, d))
  <1> DEFINE w == sha256_write(hash, d)
             t == Over(m)
             n == Len(d)
             l == Len(m)
             c == BlockBytes - t
  <1>1. IsString(m) /\ l \in Nat /\ n \in Nat /\ hash.bytes = l /\ hash.s = Blocks(m)
    BY JoinEmpty DEF Holds
  <1>2. BlockBytes \in Nat \ {0} /\ t \in 0 .. BlockBytes - 1
    BY <1>1, WholeBlocks DEF Over
  <1>3. t = hash.bytes % BlockBytes
    BY <1>1 DEF Over
  <1>4. IsHash(w) /\ w.bytes = l + n
    BY <1>1, <1>3, WriteIs
  <1>11. /\ ~Fills(t, n) => WroteNoFill(w, hash, d, t)
         /\ Fills(t, n) => WroteFill(w, hash, d, Overlay(hash.buf, t, d), Drop(d, c))
    BY <1>3, WriteIs
  <1>5. IsString(Blocks(m)) /\ IsString(Blocks(d))
    BY <1>1, BlocksString
  <1>6. Blocks(m) \o <<>> = Blocks(m)
    BY <1>5, JoinEmpty
  <1>7. CASE t = 0
    <2>1. ~Fills(t, n)
      BY <1>7 DEF Fills
    <2>2. w.s = Blocks(m) \o Blocks(d)
      BY <1>1, <1>6, <1>11, <2>1 DEF WroteNoFill
    <2>3. w.buf = Overlay(hash.buf, 0, Drop(d, (Len(d) \div BlockBytes) * BlockBytes))
      BY <1>7, <1>11, <2>1 DEF WroteNoFill
    <2>4. Len(m) % BlockBytes = 0
      BY <1>7 DEF Over
    <2> HIDE DEF w
    <2>5. Holds(w, m \o d)
      BY <1>1, <1>4, <2>2, <2>3, <2>4, WriteAligned
    <2> QED
      BY <1>4, <2>5 DEF w
  <1>8. CASE t # 0 /\ n < c
    <2>1. ~Fills(t, n)
      BY <1>1, <1>2, <1>8 DEF Fills
    <2>2. t + n < BlockBytes /\ n < BlockBytes
      <3> HIDE DEF t, n, l, c
      <3> QED
        BY <1>1, <1>2, <1>8 DEF c
    <2>3. Blocks(d) = <<>> /\ n \div BlockBytes = 0
      BY <2>2, NoBlocks
    <2>4. w.s = hash.s
      BY <1>1, <1>6, <1>11, <2>1, <2>3 DEF WroteNoFill
    <2>5. w.buf = Overlay(hash.buf, t, Drop(d, 0))
      <3>1. (n \div BlockBytes) * BlockBytes = 0
        <4>1. 0 * BlockBytes = 0
          BY <1>2, SMTT(20)
        <4> QED
          BY <2>3, <4>1, Zenon
      <3> QED
        BY <1>11, <2>1, <3>1 DEF WroteNoFill
    <2>6. IsPiece(Drop(d, 0), d, 0, n)
      <3>1. IsPiece(Drop(d, 0), d, 0, n - 0) /\ n - 0 = n
        BY <1>1, DropIs
      <3> QED
        BY <3>1
    <2> HIDE DEF w
    <2>7. Buffers(w, hash, m, d)
      BY <1>4, <2>2, <2>4, <2>5, <2>6 DEF Buffers
    <2>8. Holds(w, m \o d)
      BY <1>1, <2>7, WriteShort
    <2> QED
      BY <1>4, <2>8 DEF w
  <1>9. CASE t # 0 /\ n >= c
    <2> DEFINE full == Overlay(hash.buf, t, d)
               rest == Drop(d, c)
               head == SubSeq(d, 1, c)
               M == m \o head
    <2>1. Fills(t, n)
      BY <1>1, <1>2, <1>9 DEF Fills
    <2>2. /\ w.s = Blocks(m) \o <<full>> \o Blocks(rest)
          /\ w.buf = Overlay(full, 0, Drop(rest, (Len(rest) \div BlockBytes) * BlockBytes))
      BY <1>1, <1>11, <2>1 DEF WroteFill
    <2>3. c \in Nat /\ c <= n
      <3> HIDE DEF t, n, l
      <3> QED
        BY <1>1, <1>2, <1>9
    <2>4. IsPiece(rest, d, c, n - c)
      BY <2>3, DropIs
    <2>5. IsPiece(head, d, 0, c)
      <3> HIDE DEF c
      <3>1. 0 \in Nat /\ 1 = 0 + 1 /\ c = 0 + c
        BY <2>3
      <3> QED
        BY <2>3, <3>1, PieceIs
    <2>6. IsString(rest) /\ IsString(head) /\ Len(rest) = n - c /\ Len(head) = c
      BY <2>4, <2>5 DEF IsPiece
    <2>7. d = head \o rest
      <3>1. IsJoin(head \o rest, head, rest)
        BY <2>6, JoinIs
      <3> HIDE DEF head, rest, c
      <3>2. IsString(head \o rest) /\ Len(head \o rest) = n
        BY <1>1, <2>3, <2>6, <3>1 DEF IsJoin
      <3>3. ASSUME NEW i \in 1 .. n PROVE d[i] = (head \o rest)[i]
        <4>1. CASE i <= c
          <5>1. i \in 1 .. c /\ 0 + i = i
            BY <2>3, <4>1
          <5>2. head[i] = d[0 + i] /\ (head \o rest)[i] = head[i]
            BY <2>5, <3>1, <5>1, <2>6 DEF IsPiece, IsJoin
          <5> QED
            BY <5>1, <5>2
        <4>2. CASE i > c
          <5> DEFINE j == i - c
          <5>1. j \in 1 .. n - c /\ c + j = i
            <6>1. n \in Nat /\ c \in Nat /\ i \in 1 .. n /\ i > c
              BY <1>1, <2>3, <4>2
            <6> HIDE DEF n, c
            <6> QED
              BY <6>1
          <5> HIDE DEF j
          <5>2. rest[j] = d[c + j] /\ (head \o rest)[c + j] = rest[j]
            BY <2>4, <3>1, <5>1, <2>6 DEF IsPiece, IsJoin
          <5> QED
            BY <5>1, <5>2
        <4>3. i <= c \/ i > c
          BY <2>3
        <4> QED
          BY <4>1, <4>2, <4>3
      <3> QED
        BY <3>2, <3>3, StringsEqual
    <2>8. /\ IsString(full) /\ Len(full) = BlockBytes
          /\ \A i \in 1 .. t : full[i] = hash.buf[i]
          /\ \A i \in 1 .. c : full[t + i] = head[i]
      <3>1. DOMAIN full = 1 .. BlockBytes /\ full = [i \in 1 .. BlockBytes |-> full[i]]
        BY DEF Overlay
      <3>2. \A i \in 1 .. BlockBytes :
                full[i] = IF i - t \in 1 .. n THEN d[i - t] ELSE hash.buf[i]
        BY DEF Overlay
      <3> HIDE DEF full, head, t, n
      <3>3. IsString(full) /\ Len(full) = BlockBytes
        BY <1>2, <3>1, StringFrom
      <3>4. ASSUME NEW i \in 1 .. t PROVE full[i] = hash.buf[i]
        <4>1. i \in 1 .. BlockBytes /\ i - t \notin 1 .. n
          BY <1>1, <1>2
        <4> QED
          BY <3>2, <4>1
      <3>5. ASSUME NEW i \in 1 .. c PROVE full[t + i] = head[i]
        <4> DEFINE e == t + i
        <4>1. e \in 1 .. BlockBytes /\ e - t = i /\ i \in 1 .. n /\ 0 + i = i
          BY <1>1, <1>2, <2>3
        <4> HIDE DEF e
        <4>2. full[e] = d[i]
          BY <3>2, <4>1
        <4>3. head[i] = d[0 + i]
          BY <2>5 DEF IsPiece
        <4> QED
          BY <4>1, <4>2, <4>3 DEF e
      <3> QED
        BY <3>3, <3>4, <3>5
    <2>9. Blocks(M) = Blocks(m) \o <<full>> /\ Len(M) % BlockBytes = 0
      <3>1. Completes(full, hash.buf, m, head)
        BY <2>6, <2>8 DEF Holds, Completes, Over
      <3> HIDE DEF full, head
      <3> QED
        BY <1>1, <2>6, <3>1, BlockFilled
    <2>10. IsString(M) /\ Len(M) = l + c
      <3> HIDE DEF head, l, c
      <3>1. IsJoin(m \o head, m, head)
        BY <1>1, <2>6, JoinIs
      <3> QED
        BY <2>6, <3>1 DEF IsJoin, l
    <2>11. w.s = Blocks(M) \o Blocks(rest) /\ w.bytes = Len(M) + Len(rest)
      <3>1. w.bytes = Len(M) + Len(rest)
        <4> HIDE DEF w, M, rest, l, n, c
        <4> QED
          BY <1>1, <1>4, <2>3, <2>6, <2>10
      <3> QED
        BY <2>2, <2>9, <3>1
    <2>12. Holds(w, M \o rest)
      <3> HIDE DEF w, M, rest, full
      <3> QED
        BY <2>2, <2>6, <2>9, <2>10, <2>11, WriteAligned
    <2>13. M \o rest = m \o d
      <3> HIDE DEF head, rest, l, n, c, t
      <3>1. IsString(m) /\ IsString(head) /\ IsString(rest)
        BY <1>1, <2>6
      <3>2. Associates(m, head, rest)
        BY <3>1, JoinAssoc
      <3> QED
        BY <2>7, <3>2 DEF Associates
    <2> QED
      BY <1>4, <2>12, <2>13
  <1>10. t = 0 \/ (t # 0 /\ n < c) \/ (t # 0 /\ n >= c)
    BY <1>1, <1>2
  <1> QED
    BY <1>7, <1>8, <1>9, <1>10
(* Quotient and remainder are the only ones there are.                       *)
LEMMA Divides ==
    ASSUME NEW n \in Nat, NEW d \in Nat \ {0}, NEW q \in Nat, NEW r \in 0 .. d - 1,
           n = q * d + r
    PROVE  n \div d = q /\ n % d = r
  BY Z3

(* Two multiples that are less than one apart are the same.                  *)
LEMMA CloseMultiples ==
    ASSUME NEW b \in Nat \ {0}, NEW j \in Nat, NEW k \in Nat, j * b - k * b < b, k * b - j * b < b
    PROVE  j = k
  <1>1. ASSUME NEW x \in Nat, NEW y \in Nat, x > y PROVE x * b - y * b >= b
    <2>1. x * b - y * b = (x - y) * b /\ x - y \in Nat \ {0}
      BY <1>1, Z3
    <2>2. \A i \in Nat \ {0} : i * b >= b
      BY Z3
    <2>3. (x - y) * b >= b
      BY <2>1, <2>2
    <2> QED
      BY <2>1, <2>3
  <1>2. /\ j * b \in Nat /\ k * b \in Nat
    BY Z3
  <1>3. CASE j > k
    BY <1>1, <1>2, <1>3
  <1>4. CASE k > j
    BY <1>1, <1>2, <1>4
  <1> QED
    BY <1>3, <1>4

(* The padding finalize writes is the shortest there is.                     *)
LEMMA ShortestPad ==
    ASSUME HashAssumption, NEW n \in Nat
    PROVE  /\ PadLength(n) - 1 \in 0 .. BlockBytes - 1
           /\ (CHOOSE z \in 0 .. BlockBytes - 1 : (n + 1 + z + 2) % BlockBytes = 0)
                  = PadLength(n) - 1
  <1> DEFINE B == BlockBytes
             t == n % B
             k == n \div B
             x == 2 * B - 3 - t
             p == x % B
             Fits(z) == (n + 1 + z + 2) % B = 0
  <1>1. /\ B \in Nat \ {0} /\ B > 2 /\ k \in Nat /\ t \in 0 .. B - 1 /\ k * B \in Nat
        /\ n = k * B + t
    BY WholeBlocks DEF HashAssumption
  <1>2. p \in 0 .. B - 1 /\ (p = x \/ p = x - B)
    <2> HIDE DEF t, k
    <2>1. x \in Nat /\ x < 2 * B
      BY <1>1
    <2> HIDE DEF x
    <2>2. x % B = IF x < B THEN x ELSE x - B
      BY <1>1, <2>1, SmallMod
    <2> QED
      BY <1>1, <2>1, <2>2
  <1>3. PadLength(n) - 1 = p
    <2>1. PadLength(n) = 1 + p
      BY DEF PadLength
    <2> HIDE DEF p
    <2> QED
      BY <1>2, <2>1
  <1>4. PICK j \in Nat : n + 1 + p + 2 = j * B
    <2>1. (k + 2) * B = k * B + 2 * B /\ (k + 1) * B = k * B + B
      BY <1>1, Z3
    <2> HIDE DEF p, k, t
    <2>2. n + 1 + p + 2 = (k + 2) * B \/ n + 1 + p + 2 = (k + 1) * B
      BY <1>1, <1>2, <2>1
    <2>3. k + 2 \in Nat /\ k + 1 \in Nat
      BY <1>1
    <2> QED
      BY <2>2, <2>3
  <1> HIDE DEF p, k, t
  <1>5. Fits(p)
    <2>1. n + 1 + p + 2 \in Nat /\ n + 1 + p + 2 = j * B + 0 /\ 0 \in 0 .. B - 1
      BY <1>1, <1>2, <1>4
    <2> QED
      BY <1>1, <2>1, Divides
  <1>6. ASSUME NEW z \in 0 .. B - 1, Fits(z) PROVE z = p
    <2> DEFINE y == n + 1 + z + 2
               i == y \div B
    <2>1. y \in Nat /\ y % B = 0
      BY <1>6, <1>1
    <2>2. i \in Nat /\ i * B \in Nat /\ y = i * B + (y % B)
      <3> HIDE DEF y
      <3> QED
        BY <2>1, WholeBlocks
    <2>3. n + 1 + z + 2 = i * B
      BY <2>1, <2>2
    <2> HIDE DEF i
    <2>4. i * B - j * B = z - p
      BY <1>1, <1>2, <1>4, <2>2, <2>3
    <2>5. i * B - j * B < B /\ j * B - i * B < B
      BY <1>1, <1>2, <1>4, <2>2, <2>3
    <2>6. i = j
      BY <1>1, <1>4, <2>2, <2>5, CloseMultiples
    <2> QED
      BY <1>1, <1>2, <1>4, <2>3, <2>6
  <1>7. (CHOOSE z \in 0 .. B - 1 : Fits(z)) = p
    <2> HIDE DEF Fits
    <2> QED
      BY <1>2, <1>5, <1>6
  <1> QED
    BY <1>2, <1>3, <1>7
(* The size as it is computed from the bytes is the one in bits.             *)
LEMMA SizeIs ==
    ASSUME HashAssumption, NEW n \in Nat, 8 * n < SizeHalf * SizeHalf
    PROVE  sizedesc(n) = << <<"size", (8 * n) \div SizeHalf>>, <<"size", (8 * n) % SizeHalf>> >>
  <1> DEFINE H == SizeHalf
             h == H \div 8
             q == n \div h
             r == n % h
  <1>1. H \in Nat \ {0} /\ H % 8 = 0
    BY DEF HashAssumption
  <1>2. h \in Nat \ {0} /\ H = 8 * h
    <2>1. h \in Nat /\ H = 8 * h + (H % 8)
      BY <1>1, Z3
    <2> QED
      BY <1>1, <2>1
  <1> HIDE DEF h
  <1>3. q \in Nat /\ r \in 0 .. h - 1 /\ n = h * q + r
    BY <1>2, DivIs
  <1> HIDE DEF q, r
  <1>4. (8 * n) \div H = q
    <2>1. 8 * n \in Nat /\ 8 * n = q * H + 8 * r
      BY <1>2, <1>3, Z3
    <2>2. 8 * r \in 0 .. H - 1
      BY <1>2, <1>3
    <2> DEFINE bits == 8 * n
               over == 8 * r
    <2>4. bits \in Nat /\ bits = q * H + over /\ over \in 0 .. H - 1
      BY <2>1, <2>2
    <2> HIDE DEF bits, over
    <2>3. bits \div H = q
      BY <1>1, <1>3, <2>4, Divides
    <2> QED
      BY <2>3 DEF bits
  <1>5. q % H = q
    <2>1. q < H
      <3>1. SUFFICES ASSUME q >= H PROVE FALSE
        BY <1>1, <1>3
      <3>2. 8 * n >= q * H
        <4>1. 8 * n = q * H + 8 * r /\ q * H \in Nat
          BY <1>1, <1>2, <1>3, Z3
        <4> QED
          BY <1>3, <4>1
      <3>3. q * H >= H * H
        BY <1>1, <1>3, <3>1, Z3
      <3>4. 8 * n < H * H
        OBVIOUS
      <3>5. q * H \in Nat /\ H * H \in Nat
        BY <1>1, <1>3, Z3
      <3> QED
        BY <3>2, <3>3, <3>4, <3>5
    <2> QED
      <3>1. q < 2 * H
        BY <1>1, <1>3, <2>1
      <3> QED
        BY <1>1, <1>3, <2>1, <3>1, SmallMod
  <1>6. n * 8 = 8 * n
    OBVIOUS
  <1> QED
    BY <1>4, <1>5, <1>6 DEF sizedesc, q, h

(* Finalizing yields the hash of all that was written.                       *)
LEMMA FinalizeIs ==
    ASSUME HashAssumption, NEW hash, NEW m, Holds(hash, m),
           8 * Len(m) < SizeHalf * SizeHalf
    PROVE  sha256_finalize(hash) = Hash(m) /\ IsHash(Finalized(hash))
  <1> DEFINE n == Len(m)
             p == PadLength(n) - 1
             first == <<FirstPad>>
             zeros == ZeroBytes(p)
             pad == first \o zeros
             size == sizedesc(n)
             padded == sha256_write(hash, pad)
             final == sha256_write(padded, size)
  <1>1. IsString(m) /\ n \in Nat /\ hash.bytes = n
    BY JoinEmpty DEF Holds
  <1>2. p \in Nat
    <2>1. p \in 0 .. BlockBytes - 1
      BY <1>1, ShortestPad
    <2> QED
      BY <2>1 DEF HashAssumption
  <1>3. IsString(zeros)
    <2>1. DOMAIN zeros = 1 .. p /\ zeros = [i \in 1 .. p |-> zeros[i]]
      BY DEF ZeroBytes
    <2> HIDE DEF zeros, p
    <2> QED
      BY <1>2, <2>1, StringFrom
  <1>4. IsString(first) /\ IsString(size)
    <2>1. first \in Seq({FirstPad})
      OBVIOUS
    <2>2. \A a, b : <<a, b>> \in Seq({a, b})
      OBVIOUS
    <2>3. PICK a, b : size = <<a, b>>
      BY DEF sizedesc
    <2>4. size \in Seq({a, b})
      BY <2>2, <2>3
    <2> HIDE DEF first, size
    <2> QED
      BY <2>1, <2>4 DEF IsString
  <1> HIDE DEF first, zeros, size
  <1>5. IsString(pad)
    BY <1>3, <1>4, JoinIs DEF IsJoin
  <1>6. Finalized(hash) = final
    BY <1>1 DEF Finalized, first, zeros, size
  <1> HIDE DEF pad, p
  <1>7. Holds(padded, m \o pad)
    BY <1>5, WriteAppends
  <1> HIDE DEF padded
  <1>8. Holds(final, (m \o pad) \o size) /\ IsHash(final)
    BY <1>4, <1>7, WriteAppends
  <1> HIDE DEF final
  <1>9. final.s = Blocks((m \o pad) \o size)
    BY <1>8 DEF Holds
  <1>10. PaddedMessage(m) = (m \o pad) \o size
    <2>1. (CHOOSE z \in 0 .. BlockBytes - 1 : (n + 1 + z + 2) % BlockBytes = 0) = p
      BY <1>1, ShortestPad DEF p
    <2>2. size = << <<"size", (8 * n) \div SizeHalf>>, <<"size", (8 * n) % SizeHalf>> >>
      BY <1>1, SizeIs DEF size
    <2>3. PaddedMessage(m) = m \o first \o zeros \o size
      BY <2>1, <2>2 DEF PaddedMessage, first, zeros
    <2>4. Associates(m, first, zeros)
      BY <1>1, <1>3, <1>4, JoinAssoc
    <2> QED
      BY <2>3, <2>4 DEF Associates, pad
  <1>11. sha256_finalize(hash) = DigestOf(final.s)
    BY <1>6 DEF sha256_finalize
  <1> QED
    BY <1>6, <1>8, <1>9, <1>10, <1>11 DEF Hash

(* A structure with another chaining value.                                  *)
LEMMA ChainedAnew ==
    ASSUME NEW x, NEW y, NEW z, NEW hash, hash = [s |-> x, buf |-> y, bytes |-> z], NEW t
    PROVE  [hash EXCEPT !.s = t] = [s |-> t, buf |-> y, bytes |-> z]
  OBVIOUS

(* A structure that is initialised holds nothing, whatever is in its buffer. *)
LEMMA InitializeIs ==
    ASSUME HashAssumption, NEW hash, IsHash(hash)
    PROVE  Holds(sha256_initialize(hash), <<>>) /\ IsHash(sha256_initialize(hash))
  <1> DEFINE w == sha256_initialize(hash)
             buf == hash.buf
  <1>1. w = [s |-> <<>>, buf |-> buf, bytes |-> 0]
    <2>1. hash = [s |-> hash.s, buf |-> buf, bytes |-> hash.bytes]
      BY DEF IsHash
    <2> DEFINE s == hash.s
               bytes == hash.bytes
    <2>2. hash = [s |-> s, buf |-> buf, bytes |-> bytes]
      BY <2>1
    <2> HIDE DEF s, buf, bytes
    <2>3. w = [[hash EXCEPT !.s = <<>>] EXCEPT !.bytes = 0]
      BY DEF sha256_initialize
    <2>4. [hash EXCEPT !.s = <<>>] = [s |-> <<>>, buf |-> buf, bytes |-> bytes]
      BY <2>2, ChainedAnew
    <2> QED
      BY <2>3, <2>4
  <1>2. IsString(<<>>) /\ Len(<<>>) = 0
    <2>1. <<>> \in Seq({}) /\ Len(<<>>) = 0
      OBVIOUS
    <2> QED
      BY <2>1 DEF IsString
  <1>3. Blocks(<<>>) = <<>> /\ Len(<<>>) % BlockBytes = 0
    <2>1. Len(<<>>) < BlockBytes
      BY <1>2 DEF HashAssumption
    <2>2. Len(<<>>) % BlockBytes = Len(<<>>) /\ Blocks(<<>>) = <<>>
      BY <1>2, <2>1, NoBlocks
    <2> QED
      BY <1>2, <2>2
  <1> HIDE DEF w, buf
  <1>4. w.s = <<>> /\ w.bytes = 0
    BY <1>1
  <1>5. Holds(w, <<>>)
    <2>1. \A i \in 1 .. 0 : FALSE
      OBVIOUS
    <2> QED
      BY <1>2, <1>3, <1>4, <2>1 DEF Holds
  <1>6. IsHash(w)
    BY <1>1 DEF IsHash
  <1> QED
    BY <1>5, <1>6 DEF w

(* A digest and a masked key are strings.                                    *)
LEMMA DigestString ==
    ASSUME HashAssumption, NEW s
    PROVE  IsString(DigestOf(s)) /\ Len(DigestOf(s)) = Digest
  <1> DEFINE f == DigestOf(s)
  <1>1. DOMAIN f = 1 .. Digest /\ f = [i \in 1 .. Digest |-> f[i]]
    BY DEF DigestOf
  <1>2. Digest \in Nat
    BY DEF HashAssumption
  <1> HIDE DEF f
  <1>3. IsString(f) /\ Len(f) = Digest
    BY <1>1, <1>2, StringFrom
  <1> QED
    BY <1>3 DEF f

(* A masked key fills a block.                                               *)
LEMMA MaskedString ==
    ASSUME HashAssumption, NEW rkey, NEW mask
    PROVE  IsString(Masked(rkey, mask)) /\ Len(Masked(rkey, mask)) = BlockBytes
  <1> DEFINE f == Masked(rkey, mask)
  <1>1. DOMAIN f = 1 .. BlockBytes /\ f = [i \in 1 .. BlockBytes |-> f[i]]
    BY DEF Masked
  <1>2. BlockBytes \in Nat
    BY DEF HashAssumption
  <1> HIDE DEF f
  <1>3. IsString(f) /\ Len(f) = BlockBytes
    BY <1>1, <1>2, StringFrom
  <1> QED
    BY <1>3 DEF f

(* The key of a block's length that HMAC is defined with.                    *)
KeyBlock(k) ==
    LET short == IF Len(k) > BlockBytes THEN Hash(k) ELSE k
    IN  short \o ZeroBytes(BlockBytes - Len(short))

(* Masking with 0x5c and then with 0x5c ^ 0x36 leaves 0x36.                  *)
LEMMA MasksAre == outer_mask = {"5c"} /\ inner_mask = {"36"}
  <1>1. "5c" # "36"
    OBVIOUS
  <1>2. SymDiff({"5c"}, {"36"}) = {"5c", "36"}
    BY <1>1 DEF SymDiff
  <1>3. SymDiff({"5c"}, {"5c", "36"}) = {"36"}
    BY <1>1 DEF SymDiff
  <1> QED
    BY <1>2, <1>3 DEF outer_mask, inner_mask

(* HMAC starts from the masked keys of its definition, for keys of every     *)
(* length.                                                                   *)
LEMMA HmacStarts ==
    ASSUME HashAssumption, NEW mac, IsHash(mac.inner), IsHash(mac.outer),
           NEW k, IsString(k), 8 * Len(k) < SizeHalf * SizeHalf
    PROVE  /\ Holds(hmac_initialize(mac, k).inner, Masked(KeyBlock(k), {"36"}))
           /\ Holds(hmac_initialize(mac, k).outer, Masked(KeyBlock(k), {"5c"}))
           /\ IsHash(hmac_initialize(mac, k).inner) /\ IsHash(hmac_initialize(mac, k).outer)
           /\ hmac_initialize(mac, k) = [inner |-> hmac_initialize(mac, k).inner,
                                         outer |-> hmac_initialize(mac, k).outer]
  <1> DEFINE rkey == KeyBlock(k)
             inner == sha256_write(sha256_initialize(mac.inner), Masked(rkey, {"36"}))
             outer == sha256_write(sha256_initialize(mac.outer), Masked(rkey, {"5c"}))
  <1>1. Len(k) > BlockBytes =>
            sha256_finalize(sha256_write(sha256_initialize(Garbage), k)) = Hash(k)
    <2>1. IsHash(Garbage)
      BY DEF IsHash, Garbage
    <2>2. Holds(sha256_initialize(Garbage), <<>>)
      BY <2>1, InitializeIs
    <2>3. Holds(sha256_write(sha256_initialize(Garbage), k), <<>> \o k)
      BY <2>2, WriteAppends
    <2>4. <<>> \o k = k
      BY JoinEmpty
    <2> QED
      BY <2>3, <2>4, FinalizeIs
  <1>2. Len(k) \in Nat /\ BlockBytes \in Nat
    BY JoinEmpty DEF HashAssumption
  <1>3. hmac_initialize(mac, k) = [outer |-> outer, inner |-> inner]
    <2>1. KeyFits(Len(k)) <=> ~(Len(k) > BlockBytes)
      BY ONLY <1>2, SMTT(20) DEF KeyFits
    <2> QED
      BY <1>1, <2>1, MasksAre DEF hmac_initialize, KeyBlock
  <1>4. ASSUME NEW hash, IsHash(hash), NEW mask, NEW w,
               w = sha256_write(sha256_initialize(hash), Masked(rkey, mask))
        PROVE  Holds(w, Masked(rkey, mask)) /\ IsHash(w)
    <2> DEFINE f == Masked(rkey, mask)
    <2>1. IsString(f)
      BY MaskedString
    <2>2. Holds(sha256_initialize(hash), <<>>)
      BY <1>4, InitializeIs
    <2> HIDE DEF f
    <2>3. /\ Holds(sha256_write(sha256_initialize(hash), f), <<>> \o f)
          /\ IsHash(sha256_write(sha256_initialize(hash), f))
      BY <2>1, <2>2, WriteAppends
    <2>4. <<>> \o f = f
      BY <2>1, JoinEmpty
    <2> QED
      BY <1>4, <2>3, <2>4 DEF f
  <1>5. Holds(inner, Masked(rkey, {"36"})) /\ IsHash(inner)
    BY <1>4
  <1>6. Holds(outer, Masked(rkey, {"5c"})) /\ IsHash(outer)
    BY <1>4
  <1> HIDE DEF inner, outer
  <1> QED
    BY <1>3, <1>5, <1>6

(* HMAC ends with the hash of its definition.                                *)
LEMMA HmacEnds ==
    ASSUME HashAssumption, NEW mac, NEW k, NEW m, IsString(m),
           Holds(mac.inner, Masked(KeyBlock(k), {"36"}) \o m),
           Holds(mac.outer, Masked(KeyBlock(k), {"5c"})),
           8 * (BlockBytes + Len(m)) < SizeHalf * SizeHalf,
           8 * (BlockBytes + Digest) < SizeHalf * SizeHalf
    PROVE  /\ hmac_finalize(mac) = Hmac(k, m)
           /\ IsHash(Finalized(mac.inner))
           /\ IsHash(Finalized(sha256_write(mac.outer, sha256_finalize(mac.inner))))
  <1> DEFINE rkey == KeyBlock(k)
             mi == Masked(rkey, {"36"})
             mo == Masked(rkey, {"5c"})
             inside == Hash(mi \o m)
  <1>1. IsString(mi) /\ Len(mi) = BlockBytes /\ IsString(mo) /\ Len(mo) = BlockBytes
    BY MaskedString
  <1>2. IsString(inside) /\ Len(inside) = Digest
    BY DigestString DEF Hash
  <1> HIDE DEF inside, mi, mo, rkey
  <1>3. Len(mi \o m) = BlockBytes + Len(m) /\ Len(mo \o inside) = BlockBytes + Digest
    <2>1. IsJoin(mi \o m, mi, m) /\ IsJoin(mo \o inside, mo, inside)
      BY <1>1, <1>2, JoinIs
    <2> QED
      BY <1>1, <1>2, <2>1 DEF IsJoin
  <1>4. sha256_finalize(mac.inner) = inside /\ IsHash(Finalized(mac.inner))
    <2>1. Holds(mac.inner, mi \o m) /\ 8 * Len(mi \o m) < SizeHalf * SizeHalf
      BY <1>3 DEF mi, rkey
    <2> QED
      BY <2>1, FinalizeIs DEF inside
  <1>5. Holds(sha256_write(mac.outer, inside), mo \o inside)
    <2>1. Holds(mac.outer, mo)
      BY DEF mo, rkey
    <2> QED
      BY <1>2, <2>1, WriteAppends
  <1>6. /\ sha256_finalize(sha256_write(mac.outer, inside)) = Hash(mo \o inside)
        /\ IsHash(Finalized(sha256_write(mac.outer, inside)))
    <2>1. 8 * Len(mo \o inside) < SizeHalf * SizeHalf
      BY <1>3
    <2> QED
      BY <1>5, <2>1, FinalizeIs
  <1>7. Hmac(k, m) = Hash(mo \o inside)
    BY DEF Hmac, inside, mi, mo, rkey, KeyBlock
  <1> QED
    BY <1>4, <1>6, <1>7 DEF hmac_finalize
(* The bytes of two writes are those of one.                                 *)
LEMMA InputJoins ==
    ASSUME NEW a \in Nat, NEW n \in Nat
    PROVE  /\ Input(0, a) \o Input(a, n) = Input(0, a + n)
           /\ IsString(Input(0, a)) /\ Len(Input(0, a)) = a
           /\ IsString(Input(a, n)) /\ Len(Input(a, n)) = n
  <1>1. ASSUME NEW b \in Nat, NEW l \in Nat
        PROVE  /\ IsString(Input(b, l)) /\ Len(Input(b, l)) = l
               /\ \A i \in 1 .. l : Input(b, l)[i] = <<"input", b + i>>
    <2> DEFINE f == Input(b, l)
    <2>1. /\ DOMAIN f = 1 .. l /\ f = [i \in 1 .. l |-> f[i]]
          /\ \A i \in 1 .. l : f[i] = <<"input", b + i>>
      BY DEF Input
    <2> HIDE DEF f
    <2>2. IsString(f) /\ Len(f) = l
      BY <2>1, StringFrom
    <2> QED
      BY <2>1, <2>2 DEF f
  <1> DEFINE s == Input(0, a)
             t == Input(a, n)
             c == a + n
             u == Input(0, c)
  <1>2. c \in Nat /\ 0 \in Nat
    OBVIOUS
  <1>3. /\ IsString(s) /\ Len(s) = a /\ \A i \in 1 .. a : s[i] = <<"input", 0 + i>>
        /\ IsString(t) /\ Len(t) = n /\ \A i \in 1 .. n : t[i] = <<"input", a + i>>
    BY <1>1, <1>2
  <1>4. IsString(u) /\ Len(u) = c /\ \A i \in 1 .. c : u[i] = <<"input", 0 + i>>
    <2> HIDE DEF c
    <2> QED
      BY <1>1, <1>2
  <1>5. IsJoin(s \o t, s, t)
    BY <1>3, JoinIs
  <1> HIDE DEF s, t, u
  <1>6. IsString(s \o t) /\ Len(s \o t) = c
    BY <1>3, <1>5 DEF IsJoin
  <1>7. ASSUME NEW i \in 1 .. c PROVE (s \o t)[i] = u[i]
    <2>1. u[i] = <<"input", i>>
      <3>1. 0 + i = i
        OBVIOUS
      <3> QED
        BY <1>4, <3>1
    <2>2. CASE i <= a
      <3>1. i \in 1 .. a /\ 0 + i = i
        BY <2>2
      <3> QED
        BY <1>3, <1>5, <2>1, <3>1 DEF IsJoin
    <2>3. CASE i > a
      <3> DEFINE j == i - a
      <3>1. j \in 1 .. n /\ a + j = i
        BY <2>3
      <3> HIDE DEF j
      <3>2. (s \o t)[a + j] = t[j] /\ t[j] = <<"input", a + j>>
        BY <1>3, <1>5, <3>1 DEF IsJoin
      <3> QED
        BY <2>1, <3>1, <3>2
    <2>4. i <= a \/ i > a
      OBVIOUS
    <2> QED
      BY <2>2, <2>3, <2>4
  <1>8. s \o t = u
    <2> HIDE DEF c
    <2> QED
      BY <1>4, <1>6, <1>7, StringsEqual
  <1> QED
    BY <1>3, <1>8 DEF s, t, u

(* What a midstate stands for is of whole blocks.                            *)
LEMMA PrefixIs ==
    ASSUME HashAssumption, NEW b \in Nat
    PROVE  /\ b * BlockBytes \in Nat
           /\ IsString(Prefix(b * BlockBytes)) /\ Len(Prefix(b * BlockBytes)) = b * BlockBytes
           /\ (b * BlockBytes) % BlockBytes = 0
  <1> DEFINE n == b * BlockBytes
             f == Prefix(n)
  <1>1. BlockBytes \in Nat \ {0}
    BY DEF HashAssumption
  <1>2. n \in Nat
    BY <1>1, Z3
  <1>3. n % BlockBytes = 0
    <2>1. 0 \in 0 .. BlockBytes - 1 /\ n = b * BlockBytes + 0
      BY <1>1, <1>2
    <2> HIDE DEF n
    <2> QED
      BY <1>1, <1>2, <2>1, Divides
  <1> HIDE DEF n
  <1>4. DOMAIN f = 1 .. n /\ f = [i \in 1 .. n |-> f[i]]
    BY DEF Prefix
  <1> HIDE DEF f
  <1>5. IsString(f) /\ Len(f) = n
    BY <1>2, <1>4, StringFrom
  <1> QED
    BY <1>2, <1>3, <1>5 DEF n, f

(* No message of a behaviour is too long for its size.                       *)
LEMMA SizesFit ==
    ASSUME HashAssumption, NEW n \in Nat, n <= MaxWritten
    PROVE  /\ 8 * (BlockBytes + n) < SizeHalf * SizeHalf
           /\ 8 * (BlockBytes + Digest) < SizeHalf * SizeHalf
           /\ \A k \in Nat : k <= MaxKey => 8 * k < SizeHalf * SizeHalf
           /\ \A b \in 0 .. MaxPrefix : 8 * (b * BlockBytes + n) < SizeHalf * SizeHalf
  <1>1. /\ BlockBytes \in Nat /\ SizeHalf \in Nat /\ MaxPrefix \in Nat /\ MaxKey \in Nat
        /\ MaxWritten \in Nat /\ Digest \in Nat
    BY DEF HashAssumption
  <1> DEFINE all == SizeHalf * SizeHalf
             most == MaxPrefix * BlockBytes
  <1>2. all \in Nat /\ most \in Nat
    BY <1>1, Z3
  <1>3. /\ 8 * (most + MaxWritten) < all /\ 8 * (BlockBytes + MaxWritten) < all
        /\ 8 * (BlockBytes + Digest) < all /\ 8 * MaxKey < all
    BY DEF HashAssumption
  <1>4. ASSUME NEW b \in 0 .. MaxPrefix PROVE b * BlockBytes \in Nat /\ b * BlockBytes <= most
    BY <1>1, Z3
  <1> HIDE DEF all, most
  <1>5. 8 * (BlockBytes + n) < all
    BY <1>1, <1>2, <1>3
  <1>6. ASSUME NEW k \in Nat, k <= MaxKey PROVE 8 * k < all
    BY <1>1, <1>2, <1>3, <1>6
  <1>7. ASSUME NEW b \in 0 .. MaxPrefix PROVE 8 * (b * BlockBytes + n) < all
    <2> DEFINE at == b * BlockBytes
    <2>1. at \in Nat /\ at <= most
      BY <1>4
    <2> HIDE DEF at
    <2>2. 8 * (at + n) < all
      BY <1>1, <1>2, <1>3, <2>1
    <2> QED
      BY <2>2 DEF at
  <1> QED
    BY <1>3, <1>5, <1>6, <1>7 DEF all

-----------------------------------------------------------------------------
(* While a structure is in use it holds what was written to it, after the    *)
(* midstate or the masked key it started from.                               *)
ShaHolds == running = "sha" => Holds(sha, Prefix(prefix) \o Input(0, sent))
HmacHolds ==
    running = "hmac" =>
        /\ Holds(hmac.inner, Masked(KeyBlock(key), {"36"}) \o Input(0, sent))
        /\ Holds(hmac.outer, Masked(KeyBlock(key), {"5c"}))
ShaTypes ==
    /\ IsHash(sha) /\ IsHash(hmac.inner) /\ IsHash(hmac.outer)
    /\ hmac = [inner |-> hmac.inner, outer |-> hmac.outer]
    /\ sent \in Nat /\ sent <= MaxWritten
    /\ \E blocks \in 0 .. MaxPrefix : prefix = blocks * BlockBytes
    /\ IsString(key) /\ Len(key) <= MaxKey
ShaInv == ShaTypes /\ ShaHolds /\ HmacHolds /\ DigestsRight

(* The invariant holds at the start.                                         *)
LEMMA ShaStarts == HashAssumption /\ ShaInit => ShaInv
  <1> SUFFICES ASSUME HashAssumption, ShaInit PROVE ShaInv
    OBVIOUS
  <1>1. IsHash(Garbage)
    BY DEF Garbage, IsHash
  <1> DEFINE g == Garbage
  <1>2. /\ sha = g /\ hmac = [inner |-> g, outer |-> g]
        /\ running = "none" /\ prefix = 0 /\ key = <<>> /\ sent = 0
    BY DEF ShaInit
  <1> HIDE DEF g
  <1>3. hmac.inner = g /\ hmac.outer = g
    BY <1>2
  <1>4. IsString(<<>>) /\ Len(<<>>) = 0
    <2>1. <<>> \in Seq({}) /\ Len(<<>>) = 0
      OBVIOUS
    <2> QED
      BY <2>1 DEF IsString
  <1>5. /\ MaxPrefix \in Nat /\ MaxKey \in Nat /\ MaxWritten \in Nat /\ BlockBytes \in Nat
    BY DEF HashAssumption
  <1>6. prefix = 0 * BlockBytes /\ 0 \in 0 .. MaxPrefix
    BY <1>2, <1>5
  <1>7. hmac = [inner |-> hmac.inner, outer |-> hmac.outer]
    BY <1>2, <1>3
  <1>8. ShaTypes
    <2>1. IsHash(sha) /\ IsHash(hmac.inner) /\ IsHash(hmac.outer)
      BY <1>1, <1>2, <1>3 DEF g
    <2>2. sent \in Nat /\ sent <= MaxWritten /\ IsString(key) /\ Len(key) <= MaxKey
      BY <1>2, <1>4, <1>5
    <2> QED
      BY <1>6, <1>7, <2>1, <2>2 DEF ShaTypes
  <1>9. ShaHolds /\ HmacHolds /\ DigestsRight
    BY <1>2 DEF ShaHolds, HmacHolds, DigestsRight
  <1> QED
    BY <1>8, <1>9 DEF ShaInv
(* Initialising forgets what the structure held before.                      *)
LEMMA InitializeKeeps == HashAssumption /\ ShaInv /\ Initialize => ShaInv'
  <1> SUFFICES ASSUME HashAssumption, ShaInv, Initialize PROVE ShaInv'
    OBVIOUS
  <1>1. /\ sha' = sha256_initialize(sha) /\ prefix' = 0 /\ running' = "sha" /\ sent' = 0
        /\ hmac' = hmac /\ key' = key
    BY DEF Initialize
  <1>2. Holds(sha', <<>>) /\ IsHash(sha')
    BY <1>1, InitializeIs DEF ShaInv, ShaTypes
  <1>3. BlockBytes \in Nat /\ MaxPrefix \in Nat /\ MaxWritten \in Nat
    BY DEF HashAssumption
  <1>4. prefix' = 0 * BlockBytes /\ 0 \in 0 .. MaxPrefix
    BY <1>1, <1>3
  <1>5. ShaTypes'
    <2>1. \E blocks \in 0 .. MaxPrefix : prefix' = blocks * BlockBytes
      BY <1>4
    <2>2. 0 \in Nat /\ 0 <= MaxWritten
      BY <1>3
    <2> QED
      BY <1>1, <1>2, <2>1, <2>2 DEF ShaInv, ShaTypes
  <1>6. Prefix(prefix') \o Input(0, sent') = <<>>
    <2>1. /\ Prefix(0) = <<>> /\ Input(0, 0) = <<>>
      BY DEF Prefix, Input
    <2>2. <<>> \o <<>> = <<>>
      OBVIOUS
    <2> QED
      BY <1>1, <2>1, <2>2
  <1>7. ShaHolds'
    BY <1>2, <1>6 DEF ShaHolds
  <1>8. HmacHolds' /\ DigestsRight'
    BY <1>1 DEF HmacHolds, DigestsRight
  <1> QED
    BY <1>5, <1>7, <1>8 DEF ShaInv

(* A midstate stands for the blocks it was given.                            *)
LEMMA MidstateKeeps ==
    ASSUME HashAssumption, ShaInv, NEW blocks \in 1 .. MaxPrefix, Midstate(blocks)
    PROVE  ShaInv'
  <1> DEFINE n == blocks * BlockBytes
             m == Prefix(n)
             s == Blocks(m)
             buf == sha.buf
  <1>1. /\ prefix' = n /\ sha' = sha256_initialize_midstate(sha, n, s)
        /\ running' = "sha" /\ sent' = 0 /\ hmac' = hmac /\ key' = key
    BY DEF Midstate
  <1>2. /\ BlockBytes \in Nat /\ MaxPrefix \in Nat /\ MaxWritten \in Nat
        /\ blocks \in Nat /\ blocks \in 0 .. MaxPrefix
    BY DEF HashAssumption
  <1>3. n \in Nat /\ IsString(m) /\ Len(m) = n /\ n % BlockBytes = 0
    BY <1>2, PrefixIs
  <1>4. sha' = [s |-> s, buf |-> buf, bytes |-> n]
    <2> DEFINE s0 == sha.s
               bytes0 == sha.bytes
    <2>1. sha = [s |-> s0, buf |-> buf, bytes |-> bytes0]
      BY DEF ShaInv, ShaTypes, IsHash
    <2> HIDE DEF s, n, buf, s0, bytes0
    <2>2. sha' = [[sha EXCEPT !.s = s] EXCEPT !.bytes = n]
      BY <1>1 DEF sha256_initialize_midstate
    <2>3. [sha EXCEPT !.s = s] = [s |-> s, buf |-> buf, bytes |-> bytes0]
      BY <2>1
    <2> QED
      BY <2>2, <2>3
  <1> HIDE DEF s, m, buf
  <1>5. sha'.s = s /\ sha'.bytes = n /\ IsHash(sha')
    BY <1>4 DEF IsHash
  <1>6. ShaTypes'
    BY <1>1, <1>2, <1>5 DEF ShaInv, ShaTypes
  <1>7. Holds(sha', m)
    <2>1. \A i \in 1 .. 0 : FALSE
      OBVIOUS
    <2> HIDE DEF n
    <2> QED
      BY <1>3, <1>5, <2>1 DEF Holds, s
  <1>8. Prefix(prefix') \o Input(0, sent') = m
    <2>1. Input(0, 0) = <<>>
      BY DEF Input
    <2>2. m \o <<>> = m
      BY <1>3, JoinEmpty
    <2> QED
      BY <1>1, <2>1, <2>2 DEF m
  <1>9. ShaHolds' /\ HmacHolds' /\ DigestsRight'
    BY <1>1, <1>7, <1>8 DEF ShaHolds, HmacHolds, DigestsRight
  <1> QED
    BY <1>6, <1>9 DEF ShaInv

(* The two halves of an HMAC start from the masked keys.                     *)
LEMMA HmacInitializeKeeps ==
    ASSUME HashAssumption, ShaInv, NEW keylen \in 0 .. MaxKey, HmacInitialize(keylen)
    PROVE  ShaInv'
  <1> DEFINE k == [i \in 1 .. keylen |-> <<"key", i>>]
  <1>1. /\ key' = k /\ hmac' = hmac_initialize(hmac, k) /\ running' = "hmac" /\ sent' = 0
        /\ sha' = sha /\ prefix' = prefix
    BY DEF HmacInitialize
  <1>2. keylen \in Nat /\ keylen <= MaxKey /\ MaxKey \in Nat /\ MaxWritten \in Nat
    BY DEF HashAssumption
  <1>3. DOMAIN k = 1 .. keylen /\ k = [i \in 1 .. keylen |-> k[i]]
    OBVIOUS
  <1> HIDE DEF k
  <1>4. IsString(k) /\ Len(k) = keylen
    BY <1>2, <1>3, StringFrom
  <1>5. 8 * Len(k) < SizeHalf * SizeHalf
    <2>1. 0 \in Nat /\ 0 <= MaxWritten
      BY <1>2
    <2>2. \A l \in Nat : l <= MaxKey => 8 * l < SizeHalf * SizeHalf
      BY <2>1, SizesFit
    <2> QED
      BY <1>2, <1>4, <2>2
  <1>6. /\ Holds(hmac'.inner, Masked(KeyBlock(k), {"36"}))
        /\ Holds(hmac'.outer, Masked(KeyBlock(k), {"5c"}))
        /\ IsHash(hmac'.inner) /\ IsHash(hmac'.outer)
        /\ hmac' = [inner |-> hmac'.inner, outer |-> hmac'.outer]
    <2>1. IsHash(hmac.inner) /\ IsHash(hmac.outer)
      BY DEF ShaInv, ShaTypes
    <2> QED
      BY <1>1, <1>4, <1>5, <2>1, HmacStarts
  <1>7. ShaTypes'
    BY <1>1, <1>2, <1>4, <1>6 DEF ShaInv, ShaTypes
  <1>8. HmacHolds'
    <2> DEFINE mi == Masked(KeyBlock(k), {"36"})
    <2>1. IsString(mi)
      BY MaskedString
    <2>2. mi \o <<>> = mi
      BY <2>1, JoinEmpty
    <2>3. Input(0, 0) = <<>>
      BY DEF Input
    <2>4. Masked(KeyBlock(key'), {"36"}) \o Input(0, sent') = mi
      BY <1>1, <2>2, <2>3
    <2> QED
      BY <1>1, <1>6, <2>4 DEF HmacHolds
  <1>9. ShaHolds' /\ DigestsRight'
    BY <1>1 DEF ShaHolds, DigestsRight
  <1> QED
    BY <1>7, <1>8, <1>9 DEF ShaInv

(* A write goes after what was written before.                               *)
LEMMA WriteKeeps ==
    ASSUME HashAssumption, ShaInv, NEW n \in 0 .. MaxWritten, Write(n)
    PROVE  ShaInv'
  <1> DEFINE d == Input(sent, n)
             before == Input(0, sent)
  <1>1. /\ sent + n <= MaxWritten /\ sent' = sent + n
        /\ running' = running /\ prefix' = prefix /\ key' = key /\ digest' = digest
        /\ running \in {"sha", "hmac"}
    BY DEF Write
  <1>2. sent \in Nat /\ n \in Nat /\ sent + n \in Nat
    <2>1. sent \in Nat
      BY DEF ShaInv, ShaTypes
    <2>2. n \in Nat
      OBVIOUS
    <2> QED
      BY <2>1, <2>2
  <1>3. /\ IsString(d) /\ IsString(before) /\ before \o d = Input(0, sent')
    BY <1>1, <1>2, InputJoins
  <1>4. DigestsRight'
    BY <1>1 DEF DigestsRight
  <1> HIDE DEF d, before
  <1>5. CASE running = "sha"
    <2>1. sha' = sha256_write(sha, d) /\ hmac' = hmac
      BY <1>5 DEF Write, d
    <2> DEFINE m == Prefix(prefix)
    <2>2. IsString(m)
      <3>1. PICK b \in 0 .. MaxPrefix : prefix = b * BlockBytes
        BY DEF ShaInv, ShaTypes
      <3>2. b \in Nat
        BY DEF HashAssumption
      <3>3. IsString(Prefix(b * BlockBytes))
        BY <3>2, PrefixIs
      <3> QED
        BY <3>1, <3>3
    <2>3. Holds(sha, m \o before)
      BY <1>5 DEF ShaInv, ShaHolds, before
    <2> HIDE DEF m
    <2>4. Holds(sha', (m \o before) \o d) /\ IsHash(sha')
      BY <1>3, <2>1, <2>3, WriteAppends
    <2>5. Associates(m, before, d)
      BY <1>3, <2>2, JoinAssoc
    <2>6. Holds(sha', m \o Input(0, sent'))
      BY <1>3, <2>4, <2>5 DEF Associates
    <2>7. ShaHolds' /\ HmacHolds'
      BY <1>1, <1>5, <2>6 DEF ShaHolds, HmacHolds, m
    <2>8. ShaTypes'
      BY <1>1, <1>2, <2>1, <2>4 DEF ShaInv, ShaTypes
    <2> QED
      BY <1>4, <2>7, <2>8 DEF ShaInv
  <1>6. CASE running = "hmac"
    <2>1. hmac' = [hmac EXCEPT !.inner = sha256_write(hmac.inner, d)] /\ sha' = sha
      BY <1>6 DEF Write, d, hmac_write
    <2> DEFINE m == Masked(KeyBlock(key), {"36"})
               outer == hmac.outer
               inner == hmac.inner
               w == sha256_write(inner, d)
    <2>2. IsString(m)
      BY MaskedString
    <2>3. Holds(inner, m \o before) /\ Holds(outer, Masked(KeyBlock(key), {"5c"}))
      BY <1>6 DEF ShaInv, HmacHolds, before
    <2>4. hmac' = [inner |-> w, outer |-> outer]
      <3>1. hmac = [inner |-> inner, outer |-> outer]
        BY DEF ShaInv, ShaTypes
      <3>2. hmac' = [hmac EXCEPT !.inner = w]
        BY <2>1
      <3> HIDE DEF inner, outer, w
      <3> QED
        BY <3>1, <3>2
    <2> HIDE DEF m
    <2>5. Holds(w, (m \o before) \o d) /\ IsHash(w)
      <3> HIDE DEF inner
      <3> QED
        BY <1>3, <2>3, WriteAppends
    <2>6. Associates(m, before, d)
      BY <1>3, <2>2, JoinAssoc
    <2>7. Holds(w, m \o Input(0, sent'))
      BY <1>3, <2>5, <2>6 DEF Associates
    <2>8. IsHash(outer)
      BY DEF ShaInv, ShaTypes
    <2> HIDE DEF w, outer, inner
    <2>9. hmac'.inner = w /\ hmac'.outer = outer
      BY <2>4
    <2>10. ShaHolds' /\ HmacHolds'
      BY <1>1, <1>6, <2>3, <2>7, <2>9 DEF ShaHolds, HmacHolds, m
    <2>11. hmac' = [inner |-> hmac'.inner, outer |-> hmac'.outer]
      BY <2>4, <2>9
    <2>12. ShaTypes'
      BY <1>1, <1>2, <2>1, <2>5, <2>8, <2>9, <2>11 DEF ShaInv, ShaTypes
    <2> QED
      BY <1>4, <2>10, <2>12 DEF ShaInv
  <1> QED
    BY <1>1, <1>5, <1>6
(* What finalizing leaves is a hash structure still.                         *)
LEMMA AfterIs ==
    ASSUME NEW hash, IsHash(Finalized(hash))
    PROVE  IsHash(AfterFinalize(hash))
  <1> DEFINE f == Finalized(hash)
             s == f.s
             buf == f.buf
             bytes == f.bytes
             w == AfterFinalize(hash)
  <1>1. f = [s |-> s, buf |-> buf, bytes |-> bytes]
    BY DEF IsHash
  <1>2. w = [f EXCEPT !.s = <<>>]
    BY DEF AfterFinalize
  <1> HIDE DEF f, s, buf, bytes, w
  <1>3. w = [s |-> <<>>, buf |-> buf, bytes |-> bytes]
    BY <1>1, <1>2
  <1>4. w = [s |-> w.s, buf |-> w.buf, bytes |-> w.bytes]
    BY <1>3
  <1> QED
    BY <1>4 DEF IsHash, w

(* The digest is the hash of the midstate's bytes and all that was written.  *)
LEMMA FinalizeKeeps == HashAssumption /\ ShaInv /\ ShaFinalize => ShaInv'
  <1> SUFFICES ASSUME HashAssumption, ShaInv, ShaFinalize PROVE ShaInv'
    OBVIOUS
  <1>1. /\ running = "sha" /\ digest' = sha256_finalize(sha) /\ sha' = AfterFinalize(sha)
        /\ running' = "sha done"
        /\ hmac' = hmac /\ prefix' = prefix /\ key' = key /\ sent' = sent
    BY DEF ShaFinalize
  <1> DEFINE m == Prefix(prefix) \o Input(0, sent)
  <1>2. Holds(sha, m)
    BY <1>1 DEF ShaInv, ShaHolds
  <1>3. 8 * Len(m) < SizeHalf * SizeHalf
    <2>1. PICK b \in 0 .. MaxPrefix : prefix = b * BlockBytes
      BY DEF ShaInv, ShaTypes
    <2>2. b \in Nat /\ 0 \in Nat
      BY DEF HashAssumption
    <2>3. sent \in Nat /\ sent <= MaxWritten
      BY DEF ShaInv, ShaTypes
    <2> DEFINE p == Prefix(prefix)
               d == Input(0, sent)
    <2>4. IsString(p) /\ Len(p) = prefix
      BY <2>1, <2>2, PrefixIs
    <2>5. IsString(d) /\ Len(d) = sent
      BY <2>2, <2>3, InputJoins
    <2> HIDE DEF p, d
    <2>6. IsJoin(p \o d, p, d)
      BY <2>4, <2>5, JoinIs
    <2>7. Len(m) = prefix + sent
      BY <2>4, <2>5, <2>6 DEF IsJoin, p, d
    <2>8. 8 * (b * BlockBytes + sent) < SizeHalf * SizeHalf
      BY <2>1, <2>3, SizesFit
    <2> QED
      BY <2>1, <2>7, <2>8
  <1> HIDE DEF m
  <1>4. sha256_finalize(sha) = Hash(m) /\ IsHash(Finalized(sha))
    BY <1>2, <1>3, FinalizeIs
  <1>5. IsHash(sha')
    BY <1>1, <1>4, AfterIs
  <1>6. DigestsRight'
    BY <1>1, <1>4 DEF DigestsRight, m
  <1>7. ShaTypes'
    BY <1>1, <1>5 DEF ShaInv, ShaTypes
  <1>8. ShaHolds' /\ HmacHolds'
    BY <1>1 DEF ShaHolds, HmacHolds
  <1> QED
    BY <1>6, <1>7, <1>8 DEF ShaInv

(* The digest of an HMAC is the one of its definition.                       *)
LEMMA HmacFinalizeKeeps == HashAssumption /\ ShaInv /\ HmacFinalize => ShaInv'
  <1> SUFFICES ASSUME HashAssumption, ShaInv, HmacFinalize PROVE ShaInv'
    OBVIOUS
  <1>1. /\ running = "hmac" /\ digest' = hmac_finalize(hmac) /\ hmac' = AfterHmacFinalize(hmac)
        /\ running' = "hmac done"
        /\ sha' = sha /\ prefix' = prefix /\ key' = key /\ sent' = sent
    BY DEF HmacFinalize
  <1> DEFINE m == Input(0, sent)
             inner == AfterFinalize(hmac.inner)
             outer == AfterFinalize(sha256_write(hmac.outer, sha256_finalize(hmac.inner)))
  <1>2. sent \in Nat /\ sent <= MaxWritten /\ 0 \in Nat
    BY DEF ShaInv, ShaTypes
  <1>3. IsString(m) /\ Len(m) = sent
    BY <1>2, InputJoins
  <1>4. /\ Holds(hmac.inner, Masked(KeyBlock(key), {"36"}) \o m)
        /\ Holds(hmac.outer, Masked(KeyBlock(key), {"5c"}))
    BY <1>1 DEF ShaInv, HmacHolds
  <1> HIDE DEF m
  <1>5. /\ 8 * (BlockBytes + Len(m)) < SizeHalf * SizeHalf
        /\ 8 * (BlockBytes + Digest) < SizeHalf * SizeHalf
    BY <1>2, <1>3, SizesFit
  <1>6. /\ hmac_finalize(hmac) = Hmac(key, m)
        /\ IsHash(Finalized(hmac.inner))
        /\ IsHash(Finalized(sha256_write(hmac.outer, sha256_finalize(hmac.inner))))
    BY <1>3, <1>4, <1>5, HmacEnds
  <1>7. IsHash(inner) /\ IsHash(outer)
    BY <1>6, AfterIs
  <1>8. hmac' = [inner |-> inner, outer |-> outer]
    BY <1>1 DEF AfterHmacFinalize
  <1> HIDE DEF inner, outer
  <1>9. hmac'.inner = inner /\ hmac'.outer = outer
    BY <1>8
  <1>10. DigestsRight'
    BY <1>1, <1>6 DEF DigestsRight, m
  <1>11. ShaTypes'
    <2>1. hmac' = [inner |-> hmac'.inner, outer |-> hmac'.outer]
      BY <1>8, <1>9
    <2> QED
      BY <1>1, <1>7, <1>9, <2>1 DEF ShaInv, ShaTypes
  <1>12. ShaHolds' /\ HmacHolds'
    BY <1>1 DEF ShaHolds, HmacHolds
  <1> QED
    BY <1>10, <1>11, <1>12 DEF ShaInv

(* A structure that is done may be used again.                               *)
LEMMA AgainKeeps == HashAssumption /\ ShaInv /\ Again => ShaInv'
  <1> SUFFICES ASSUME HashAssumption, ShaInv, Again PROVE ShaInv'
    OBVIOUS
  <1>1. /\ running' = "none" /\ key' = <<>> /\ prefix' = 0 /\ sent' = 0
        /\ sha' = sha /\ hmac' = hmac
    BY DEF Again
  <1>2. IsString(<<>>) /\ Len(<<>>) = 0
    <2>1. <<>> \in Seq({}) /\ Len(<<>>) = 0
      OBVIOUS
    <2> QED
      BY <2>1 DEF IsString
  <1>3. BlockBytes \in Nat /\ MaxPrefix \in Nat /\ MaxWritten \in Nat /\ MaxKey \in Nat
    BY DEF HashAssumption
  <1>4. prefix' = 0 * BlockBytes /\ 0 \in 0 .. MaxPrefix
    BY <1>1, <1>3
  <1>5. ShaTypes'
    <2>1. \E blocks \in 0 .. MaxPrefix : prefix' = blocks * BlockBytes
      BY <1>4
    <2>2. 0 \in Nat /\ 0 <= MaxWritten /\ 0 <= MaxKey
      BY <1>3
    <2> QED
      BY <1>1, <1>2, <2>1, <2>2 DEF ShaInv, ShaTypes
  <1>6. ShaHolds' /\ HmacHolds' /\ DigestsRight'
    BY <1>1 DEF ShaHolds, HmacHolds, DigestsRight
  <1> QED
    BY <1>5, <1>6 DEF ShaInv

(* Every step keeps the invariant.                                           *)
LEMMA ShaSteps == HashAssumption /\ ShaInv /\ [ShaNext]_sha_vars => ShaInv'
  <1> SUFFICES ASSUME HashAssumption, ShaInv, [ShaNext]_sha_vars PROVE ShaInv'
    OBVIOUS
  <1>1. CASE Initialize
    BY <1>1, InitializeKeeps
  <1>2. CASE ShaFinalize
    BY <1>2, FinalizeKeeps
  <1>3. CASE HmacFinalize
    BY <1>3, HmacFinalizeKeeps
  <1>4. CASE Again
    BY <1>4, AgainKeeps
  <1>5. ASSUME NEW blocks \in 1 .. MaxPrefix, Midstate(blocks) PROVE ShaInv'
    BY <1>5, MidstateKeeps
  <1>6. ASSUME NEW keylen \in 0 .. MaxKey, HmacInitialize(keylen) PROVE ShaInv'
    BY <1>6, HmacInitializeKeeps
  <1>7. ASSUME NEW n \in 0 .. MaxWritten, Write(n) PROVE ShaInv'
    BY <1>7, WriteKeeps
  <1>8. CASE UNCHANGED sha_vars
    BY <1>8 DEF sha_vars, ShaInv, ShaTypes, ShaHolds, HmacHolds, DigestsRight
  <1> QED
    BY <1>1, <1>2, <1>3, <1>4, <1>5, <1>6, <1>7, <1>8 DEF ShaNext

(* SHA-256, from its start or a midstate, and HMAC yield the digest of the   *)
(* whole message, for every size of block and digest, however the message is *)
(* cut into writes, for keys of every length, and whatever an earlier use    *)
(* left in the structures (hash_impl.h:210-257, 276-314).                    *)
THEOREM HashesWhole == ShaSpec => []DigestsRight
  <1>1. HashAssumption /\ ShaInit => ShaInv
    BY ShaStarts
  <1>2. HashAssumption /\ ShaInv /\ [ShaNext]_sha_vars => ShaInv'
    BY ShaSteps
  <1>3. ShaInv => DigestsRight
    BY DEF ShaInv
  <1> QED
    BY <1>1, <1>2, <1>3, HashAssumption, PTL DEF ShaSpec

-----------------------------------------------------------------------------
(* The states of a generator, up to the n-th output.                         *)
IsRng(rng, material, n) ==
    rng = [i \in 0 .. n |->
              rfc6979_generate(IF i = 0 THEN rfc6979_initialize(material) ELSE rng[i - 1])]

(* There are such states, for any number of outputs.                         *)
LEMMA RngExists ==
    ASSUME NEW material, NEW n \in Nat
    PROVE  \E rng : IsRng(rng, material, n)
  <1> DEFINE start == rfc6979_generate(rfc6979_initialize(material))
             S == {k \in Nat : \E rng : IsRng(rng, material, k)}
  <1>1. 0 \in S
    <2> DEFINE rng == [i \in 0 .. 0 |-> start]
    <2>1. IsRng(rng, material, 0)
      BY DEF IsRng
    <2> QED
      BY <2>1
  <1>2. ASSUME NEW k \in Nat, k \in S
        PROVE  k + 1 \in S
    <2>1. PICK rng : IsRng(rng, material, k)
      BY <1>2
    <2> DEFINE longer == [i \in 0 .. k + 1 |-> IF i <= k THEN rng[i] ELSE rfc6979_generate(rng[k])]
    <2>2. IsRng(longer, material, k + 1)
      BY <2>1 DEF IsRng
    <2> QED
      BY <2>2
  <1> HIDE DEF S
  <1>3. Nat \subseteq S
    BY <1>1, <1>2, Induct
  <1> QED
    BY <1>3 DEF S

(* Generators asked for different numbers of outputs agree.                  *)
LEMMA RngUnique ==
    ASSUME NEW material, NEW n \in Nat, NEW m \in Nat, m <= n,
           NEW s, IsRng(s, material, n), NEW t, IsRng(t, material, m)
    PROVE  s[m] = t[m]
  <1> DEFINE S == {k \in Nat : k <= m => s[k] = t[k]}
  <1>1. 0 \in S
    BY DEF IsRng
  <1>2. ASSUME NEW k \in Nat, k \in S
        PROVE  k + 1 \in S
    BY <1>2 DEF IsRng
  <1> HIDE DEF S
  <1>3. m \in S
    BY <1>1, <1>2, Induct
  <1> QED
    BY <1>3 DEF S

(* The state of a generator after n more outputs than one.                   *)
RngAfter(material, n) == (CHOOSE rng : IsRng(rng, material, n))[n]

(* One output leads to the next, and the nonce is the last of them.          *)
LEMMA RngIs ==
    ASSUME NEW material
    PROVE  /\ RngAfter(material, 0) = rfc6979_generate(rfc6979_initialize(material))
           /\ \A n \in Nat : RngAfter(material, n + 1) = rfc6979_generate(RngAfter(material, n))
           /\ \A args, n : material = KeyData(args) =>
                  nonce_function_rfc6979(args, n) = RngAfter(material, n).v
  <1> DEFINE of(k) == CHOOSE s : IsRng(s, material, k)
  <1>1. \A k \in Nat : IsRng(of(k), material, k)
    BY RngExists
  <1>2. \A k : RngAfter(material, k) = of(k)[k]
    BY DEF RngAfter
  <1>3. ASSUME NEW args, NEW n, material = KeyData(args)
        PROVE  nonce_function_rfc6979(args, n) = RngAfter(material, n).v
    BY <1>3 DEF nonce_function_rfc6979, RngAfter, IsRng
  <1> HIDE DEF of
  <1>4. of(0)[0] = rfc6979_generate(rfc6979_initialize(material))
    <2>1. IsRng(of(0), material, 0)
      BY <1>1
    <2> QED
      BY <2>1 DEF IsRng
  <1>5. ASSUME NEW n \in Nat
        PROVE  of(n + 1)[n + 1] = rfc6979_generate(of(n)[n])
    <2> DEFINE m == n + 1
    <2>1. m \in Nat /\ n <= m /\ m # 0 /\ m - 1 = n
      OBVIOUS
    <2> HIDE DEF m
    <2>2. IsRng(of(m), material, m) /\ IsRng(of(n), material, n)
      BY <1>1, <2>1
    <2>3. of(m)[n] = of(n)[n]
      BY <2>1, <2>2, RngUnique
    <2>4. of(m)[m] = rfc6979_generate(of(m)[n])
      BY <2>1, <2>2 DEF IsRng
    <2> QED
      BY <2>3, <2>4 DEF m
  <1> QED
    BY <1>2, <1>3, <1>4, <1>5

(* HMAC of other keys or messages is another term.                           *)
LEMMA HmacInjective ==
    ASSUME NEW k, NEW m, NEW l, NEW n, HMAC(k, m) = HMAC(l, n)
    PROVE  k = l /\ m = n
  BY DEF HMAC

(* What follows the first output: its key tells the material, and the first  *)
(* output from the later ones.                                               *)
FirstKey(k, material) == \E k1, v1 : k = HMAC(k1, << v1, <<1>>, material >>)
LaterKey(k) == \E k1, v1 : k = HMAC(k1, << v1, <<0>> >>)

(* No key is of both kinds, and the first tells the material.                *)
LEMMA KeysTell ==
    ASSUME NEW k, NEW a
    PROVE  /\ FirstKey(k, a) => ~LaterKey(k)
           /\ \A b : FirstKey(k, a) /\ FirstKey(k, b) => a = b
  <1>1. ASSUME FirstKey(k, a), LaterKey(k) PROVE FALSE
    <2>1. PICK k1, v1 : k = HMAC(k1, << v1, <<1>>, a >>)
      BY <1>1 DEF FirstKey
    <2>2. PICK k2, v2 : k = HMAC(k2, << v2, <<0>> >>)
      BY <1>1 DEF LaterKey
    <2>3. << v1, <<1>>, a >> = << v2, <<0>> >>
      <3> DEFINE x == << v1, <<1>>, a >>
                 y == << v2, <<0>> >>
      <3> HIDE DEF x, y
      <3>1. HMAC(k1, x) = HMAC(k2, y)
        BY <2>1, <2>2 DEF x, y
      <3> QED
        BY <3>1, HmacInjective DEF x, y
    <2>4. <<1>> = <<0>>
      BY <2>3
    <2> QED
      BY <2>4
  <1>2. ASSUME NEW b, FirstKey(k, a), FirstKey(k, b) PROVE a = b
    <2>1. PICK k1, v1 : k = HMAC(k1, << v1, <<1>>, a >>)
      BY <1>2 DEF FirstKey
    <2>2. PICK k2, v2 : k = HMAC(k2, << v2, <<1>>, b >>)
      BY <1>2 DEF FirstKey
    <2>3. << v1, <<1>>, a >> = << v2, <<1>>, b >>
      <3> DEFINE x == << v1, <<1>>, a >>
                 y == << v2, <<1>>, b >>
      <3> HIDE DEF x, y
      <3>1. HMAC(k1, x) = HMAC(k2, y)
        BY <2>1, <2>2 DEF x, y
      <3> QED
        BY <3>1, HmacInjective DEF x, y
    <2> QED
      BY <2>3
  <1> QED
    BY <1>1, <1>2

(* The key and the value that an output leaves.                              *)
FirstOutput(rng, a) ==
    rng.retry = TRUE /\ FirstKey(rng.k, a) /\ \E v : rng.v = HMAC(rng.k, <<HMAC(rng.k, <<v>>)>>)
LaterOutput(rng, before) ==
    rng.retry = TRUE /\ LaterKey(rng.k) /\ rng.v = HMAC(rng.k, <<HMAC(rng.k, <<before.v>>)>>)

(* The first output is of the first kind, and those after it of the other.   *)
LEMMA OutputsAre ==
    ASSUME NEW a
    PROVE  /\ FirstOutput(RngAfter(a, 0), a)
           /\ \A n \in Nat : LaterOutput(RngAfter(a, n + 1), RngAfter(a, n))
  <1>1. FirstOutput(RngAfter(a, 0), a)
    <2> DEFINE init == rfc6979_initialize(a)
               k == init.k
               v == init.v
               rng == RngAfter(a, 0)
    <2>1. FirstKey(k, a) /\ init.retry = FALSE
      BY DEF rfc6979_initialize, FirstKey
    <2>2. RngAfter(a, 0) = rfc6979_generate(init)
      BY RngIs
    <2> HIDE DEF init
    <2>3. rfc6979_generate(init) = [k |-> k, v |-> HMAC(k, <<v>>), retry |-> TRUE]
      BY <2>1 DEF rfc6979_generate
    <2>4. \E w : v = HMAC(k, <<w>>)
      BY DEF rfc6979_initialize, init
    <2> HIDE DEF k, v
    <2>5. rng.k = k /\ rng.v = HMAC(k, <<v>>) /\ rng.retry = TRUE
      BY <2>2, <2>3
    <2>6. PICK w : v = HMAC(k, <<w>>)
      BY <2>4
    <2> QED
      BY <2>1, <2>5, <2>6 DEF FirstOutput
  <1>2. ASSUME NEW n \in Nat, RngAfter(a, n).retry = TRUE
        PROVE  LaterOutput(RngAfter(a, n + 1), RngAfter(a, n))
    <2> DEFINE before == RngAfter(a, n)
               k == HMAC(before.k, << before.v, <<0>> >>)
               v == HMAC(k, <<before.v>>)
    <2>1. RngAfter(a, n + 1) = rfc6979_generate(before)
      BY RngIs
    <2>2. rfc6979_generate(before) = [k |-> k, v |-> HMAC(k, <<v>>), retry |-> TRUE]
      BY <1>2 DEF rfc6979_generate
    <2>3. LaterKey(k)
      BY DEF LaterKey
    <2> HIDE DEF k, before
    <2> QED
      BY <2>1, <2>2, <2>3 DEF LaterOutput, before
  <1> DEFINE S == {n \in Nat : RngAfter(a, n).retry = TRUE}
  <1>3. 0 \in S
    BY <1>1 DEF FirstOutput
  <1>4. ASSUME NEW n \in Nat, n \in S PROVE n + 1 \in S
    <2>1. LaterOutput(RngAfter(a, n + 1), RngAfter(a, n))
      BY <1>2, <1>4
    <2> QED
      BY <2>1 DEF LaterOutput
  <1> HIDE DEF S
  <1>5. Nat \subseteq S
    BY <1>3, <1>4, Induct
  <1> QED
    BY <1>1, <1>2, <1>5 DEF S

(* No output repeats an earlier one or one of other material.                *)
LEMMA OutputsDiffer ==
    ASSUME NEW a, NEW b
    PROVE  \A i, j \in Nat : RngAfter(a, i).v = RngAfter(b, j).v => i = j /\ a = b
  <1> DEFINE va(n) == RngAfter(a, n)
             vb(n) == RngAfter(b, n)
             S == {i \in Nat : \A j \in Nat : va(i).v = vb(j).v => i = j /\ a = b}
  <1>1. ASSUME NEW r, NEW s, \E x, y : r.v = HMAC(r.k, x) /\ s.v = HMAC(s.k, y), r.v = s.v
        PROVE  r.k = s.k
    <2>1. PICK x, y : r.v = HMAC(r.k, x) /\ s.v = HMAC(s.k, y)
      BY <1>1
    <2>2. HMAC(r.k, x) = HMAC(s.k, y)
      BY <1>1, <2>1
    <2> QED
      BY <2>2, HmacInjective
  <1>2. ASSUME NEW r, NEW s, NEW p, NEW q, LaterOutput(r, p), LaterOutput(s, q), r.v = s.v
        PROVE  p.v = q.v
    <2> DEFINE x == HMAC(r.k, <<p.v>>)
               y == HMAC(s.k, <<q.v>>)
    <2>1. r.v = HMAC(r.k, <<x>>) /\ s.v = HMAC(s.k, <<y>>)
      BY <1>2 DEF LaterOutput
    <2> HIDE DEF x, y
    <2>2. <<x>> = <<y>>
      <3> DEFINE m == <<x>>
                 n == <<y>>
      <3>1. HMAC(r.k, m) = HMAC(s.k, n)
        BY <1>2, <2>1
      <3> HIDE DEF m, n
      <3>2. m = n
        BY <3>1, HmacInjective
      <3> QED
        BY <3>2 DEF m, n
    <2>3. x = y
      BY <2>2
    <2>4. <<p.v>> = <<q.v>>
      BY <2>3, HmacInjective DEF x, y
    <2> QED
      BY <2>4
  <1>3. /\ FirstOutput(va(0), a) /\ \A n \in Nat : LaterOutput(va(n + 1), va(n))
        /\ FirstOutput(vb(0), b) /\ \A n \in Nat : LaterOutput(vb(n + 1), vb(n))
    BY OutputsAre
  <1> HIDE DEF va, vb
  <1>4. \A r, x : FirstOutput(r, x) => FirstKey(r.k, x) /\ \E z : r.v = HMAC(r.k, z)
    BY DEF FirstOutput
  <1>5. \A r, x : LaterOutput(r, x) => LaterKey(r.k) /\ \E z : r.v = HMAC(r.k, z)
    BY DEF LaterOutput
  <1>6. 0 \in S
    <2> SUFFICES ASSUME NEW j \in Nat, va(0).v = vb(j).v PROVE 0 = j /\ a = b
      OBVIOUS
    <2>1. CASE j = 0
      <3>1. \E x, y : va(0).v = HMAC(va(0).k, x) /\ vb(0).v = HMAC(vb(0).k, y)
        BY <1>3, <1>4
      <3>2. va(0).k = vb(0).k
        BY <1>1, <2>1, <3>1
      <3> QED
        BY <1>3, <1>4, <2>1, <3>2, KeysTell
    <2>2. CASE j # 0
      <3> DEFINE n == j - 1
      <3>1. n \in Nat /\ n + 1 = j
        BY <2>2
      <3> HIDE DEF n
      <3>2. LaterOutput(vb(j), vb(n))
        BY <1>3, <3>1
      <3>3. \E x, y : va(0).v = HMAC(va(0).k, x) /\ vb(j).v = HMAC(vb(j).k, y)
        BY <1>3, <1>4, <1>5, <3>2
      <3>4. va(0).k = vb(j).k
        BY <1>1, <3>3
      <3> QED
        BY <1>3, <1>4, <1>5, <3>2, <3>4, KeysTell
    <2> QED
      BY <2>1, <2>2
  <1>7. ASSUME NEW i \in Nat, i \in S PROVE i + 1 \in S
    <2> SUFFICES ASSUME NEW j \in Nat, va(i + 1).v = vb(j).v PROVE i + 1 = j /\ a = b
      OBVIOUS
    <2>1. LaterOutput(va(i + 1), va(i))
      BY <1>3
    <2>2. CASE j = 0
      <3>1. \E x, y : va(i + 1).v = HMAC(va(i + 1).k, x) /\ vb(0).v = HMAC(vb(0).k, y)
        BY <1>3, <1>4, <1>5, <2>1
      <3>2. va(i + 1).k = vb(0).k
        BY <1>1, <2>2, <3>1
      <3> QED
        BY <1>3, <1>4, <1>5, <2>1, <3>2, KeysTell
    <2>3. CASE j # 0
      <3> DEFINE n == j - 1
      <3>1. n \in Nat /\ n + 1 = j
        BY <2>3
      <3> HIDE DEF n
      <3>2. LaterOutput(vb(j), vb(n))
        BY <1>3, <3>1
      <3>3. va(i).v = vb(n).v
        BY <1>2, <2>1, <3>2
      <3> QED
        BY <1>7, <3>1, <3>3
    <2> QED
      BY <2>2, <2>3
  <1>8. Nat \subseteq S
    <2> HIDE DEF S
    <2> QED
      BY <1>6, <1>7, Induct
  <1> QED
    BY <1>8 DEF va, vb

(* What a table of powers up to n is.                                        *)
IsPower(f, n) == f = [i \in 0 .. n |-> IF i = 0 THEN 1 ELSE Base * f[i - 1]]

(* There is such a table,                                                    *)
LEMMA PowerExists == \A n \in Nat : \E f : IsPower(f, n)
  <1> DEFINE S == {n \in Nat : \E f : IsPower(f, n)}
  <1>1. 0 \in S
    <2> DEFINE f == [i \in 0 .. 0 |-> 1]
    <2>1. IsPower(f, 0)
      BY DEF IsPower
    <2> QED
      BY <2>1
  <1>2. ASSUME NEW n \in Nat, n \in S PROVE n + 1 \in S
    <2>1. PICK f : IsPower(f, n)
      BY <1>2
    <2> DEFINE longer == [i \in 0 .. n + 1 |-> IF i <= n THEN f[i] ELSE Base * f[n]]
    <2>2. IsPower(longer, n + 1)
      BY <2>1 DEF IsPower
    <2> QED
      BY <2>2
  <1> HIDE DEF S
  <1>3. Nat \subseteq S
    BY <1>1, <1>2, Induct
  <1> QED
    BY <1>3 DEF S

(* two tables agree where both are defined,                                  *)
LEMMA PowerAgrees ==
    ASSUME NEW n \in Nat, NEW m \in Nat, m <= n, NEW f, IsPower(f, n), NEW g, IsPower(g, m)
    PROVE  f[m] = g[m]
  <1> DEFINE S == {k \in Nat : k <= m => f[k] = g[k]}
  <1>1. 0 \in S
    BY DEF IsPower
  <1>2. ASSUME NEW k \in Nat, k \in S PROVE k + 1 \in S
    BY <1>2 DEF IsPower
  <1> HIDE DEF S
  <1>3. m \in S
    BY <1>1, <1>2, Induct
  <1> QED
    BY <1>3 DEF S

(* so Power satisfies its equation.                                          *)
LEMMA PowerIs ==
    ASSUME Rfc6979Assumption
    PROVE  /\ Power[0] = 1
           /\ \A n \in Nat : Power[n] \in Nat \ {0} /\ Power[n + 1] = Base * Power[n]
  <1> DEFINE P(f) == f = [i \in Nat |-> IF i = 0 THEN 1 ELSE Base * f[i - 1]]
             of(n) == CHOOSE f : IsPower(f, n)
             all == [n \in Nat |-> of(n)[n]]
  <1>1. \A n \in Nat : IsPower(of(n), n)
    BY PowerExists
  <1> HIDE DEF of
  <1>2. ASSUME NEW n \in Nat PROVE all[n] = IF n = 0 THEN 1 ELSE Base * all[n - 1]
    <2>1. CASE n = 0
      BY <1>1, <2>1 DEF IsPower
    <2>2. CASE n # 0
      <3> DEFINE m == n - 1
      <3>1. m \in Nat /\ m <= n
        BY <2>2
      <3>2. IsPower(of(n), n) /\ IsPower(of(m), m)
        BY <1>1, <3>1
      <3>3. of(n)[m] = of(m)[m]
        <4> HIDE DEF m
        <4> QED
          BY <3>1, <3>2, PowerAgrees
      <3>4. of(n)[n] = Base * of(n)[m]
        BY <2>2, <3>2 DEF IsPower
      <3> QED
        BY <2>2, <3>1, <3>3, <3>4
    <2> QED
      BY <2>1, <2>2
  <1>3. P(all)
    BY <1>2
  <1> HIDE DEF all
  <1>4. P(Power)
    <2> HIDE DEF P
    <2>1. Power = CHOOSE f : P(f)
      BY DEF Power, P
    <2> QED
      BY <1>3, <2>1, Zenon
  <1>5. Power[0] = 1 /\ \A n \in Nat : Power[n + 1] = Base * Power[n]
    BY <1>4
  <1> DEFINE S == {n \in Nat : Power[n] \in Nat \ {0}}
  <1>6. 0 \in S
    BY <1>5
  <1>7. ASSUME NEW n \in Nat, n \in S PROVE n + 1 \in S
    <2> DEFINE p == Power[n]
    <2>1. p \in Nat \ {0} /\ Base \in Nat \ {0} /\ Power[n + 1] = Base * p
      BY <1>5, <1>7 DEF Rfc6979Assumption
    <2> HIDE DEF p
    <2>2. Base * p \in Nat \ {0}
      BY <2>1, Z3
    <2> QED
      BY <2>1, <2>2
  <1> HIDE DEF S
  <1>8. Nat \subseteq S
    BY <1>6, <1>7, Induct
  <1> QED
    BY <1>5, <1>8 DEF S
(* A quotient and the remainder, and how they are told.                      *)
LEMMA Parted ==
    ASSUME NEW n \in Nat, NEW d \in Nat \ {0}
    PROVE  /\ n \div d \in Nat /\ n % d \in 0 .. d - 1
           /\ n = d * (n \div d) + (n % d)
  BY Z3

(* The only quotient whose remainder is below the divisor.                   *)
LEMMA PartedOnce ==
    ASSUME NEW n \in Nat, NEW d \in Nat \ {0}, NEW q \in Nat, NEW e \in 0 .. d - 1, n = d * q + e
    PROVE  n \div d = q
  BY Z3

(* A number without its last digits, from that without one more of them.     *)
LEMMA OneDigit ==
    ASSUME NEW n \in Nat, NEW d \in Nat \ {0}, NEW c \in Nat \ {0}
    PROVE  n \div d = c * (n \div (c * d)) + ((n \div d) % c)
  <1> DEFINE q == n \div d  e == n % d  a == q \div c  b == q % c  dd == c * d  ee == d * b + e
  <1>1. q \in Nat /\ e \in 0 .. d - 1 /\ n = d * q + e
    BY Parted
  <1> HIDE DEF q, e
  <1>2. a \in Nat /\ b \in 0 .. c - 1 /\ q = c * a + b
    BY <1>1, Parted
  <1> HIDE DEF a, b
  <1>3. dd \in Nat \ {0}
    BY Z3
  <1>4. ee \in 0 .. dd - 1
    <2>1. d * b \in Nat /\ d * (c - 1 - b) \in Nat /\ c - 1 - b \in Nat
      BY <1>2, Z3
    <2>2. d * b + d * (c - 1 - b) + d = dd
      BY <1>2, Z3
    <2> HIDE DEF dd
    <2> QED
      BY <1>1, <1>3, <2>1, <2>2
  <1>5. n = dd * a + ee
    <2>1. d * q = dd * a + d * b
      BY <1>2, Z3
    <2>2. dd * a \in Nat /\ d * b \in Nat
      BY <1>2, <1>3, Z3
    <2> HIDE DEF dd
    <2> QED
      BY <1>1, <2>1, <2>2
  <1> HIDE DEF dd, ee
  <1>6. n \div dd = a
    BY <1>2, <1>3, <1>4, <1>5, PartedOnce
  <1> QED
    BY <1>2, <1>6 DEF q, b, dd

(* A number below the size of a string is told by its bytes.                 *)
LEMMA BytesTell ==
    ASSUME Rfc6979Assumption, NEW n \in 0 .. Power[KeyLen] - 1, NEW m \in 0 .. Power[KeyLen] - 1,
           scalar_get_b32(n) = scalar_get_b32(m)
    PROVE  n = m
  <1> DEFINE S == {k \in Nat : k <= KeyLen =>
                                  n \div Power[KeyLen - k] = m \div Power[KeyLen - k]}
  <1>1. KeyLen \in Nat /\ Base \in Nat \ {0}
    BY DEF Rfc6979Assumption
  <1>2. Power[0] = 1 /\ \A j \in Nat : Power[j] \in Nat \ {0} /\ Power[j + 1] = Base * Power[j]
    BY PowerIs
  <1>3. n \in Nat /\ m \in Nat
    BY <1>1, <1>2
  <1>4. 0 \in S
    <2> DEFINE all == Power[KeyLen]
    <2>1. all \in Nat \ {0} /\ n \in 0 .. all - 1 /\ m \in 0 .. all - 1
      BY <1>1, <1>2
    <2> HIDE DEF all
    <2>2. n = all * 0 + n /\ m = all * 0 + m
      BY <1>3, <2>1
    <2>3. n \div all = 0
      BY <1>3, <2>1, <2>2, PartedOnce
    <2>4. m \div all = 0
      BY <1>3, <2>1, <2>2, PartedOnce
    <2>5. KeyLen - 0 = KeyLen
      BY <1>1
    <2> QED
      BY <2>3, <2>4, <2>5 DEF all
  <1>5. ASSUME NEW k \in Nat, k \in S PROVE k + 1 \in S
    <2> SUFFICES ASSUME k + 1 <= KeyLen
                 PROVE  n \div Power[KeyLen - (k + 1)] = m \div Power[KeyLen - (k + 1)]
      OBVIOUS
    <2> DEFINE j == KeyLen - (k + 1)
               d == Power[j]
    <2>1. j \in Nat /\ j + 1 = KeyLen - k /\ k + 1 \in 1 .. KeyLen
      BY <1>1
    <2>2. d \in Nat \ {0} /\ Power[KeyLen - k] = Base * d
      BY <1>2, <2>1
    <2>3. n \div (Base * d) = m \div (Base * d)
      BY <1>1, <1>5, <2>2
    <2>4. (n \div d) % Base = (m \div d) % Base
      <3>1. scalar_get_b32(n)[k + 1] = (n \div d) % Base
        BY <2>1 DEF scalar_get_b32
      <3>2. scalar_get_b32(m)[k + 1] = (m \div d) % Base
        BY <2>1 DEF scalar_get_b32
      <3> QED
        BY <3>1, <3>2
    <2> HIDE DEF d
    <2>5. n \div d = Base * (n \div (Base * d)) + ((n \div d) % Base)
      BY <1>1, <1>3, <2>2, OneDigit
    <2>6. m \div d = Base * (m \div (Base * d)) + ((m \div d) % Base)
      BY <1>1, <1>3, <2>2, OneDigit
    <2>7. n \div d = m \div d
      BY <2>3, <2>4, <2>5, <2>6
    <2> QED
      BY <2>7 DEF d
  <1> HIDE DEF S
  <1>6. KeyLen \in S
    BY <1>1, <1>4, <1>5, Induct
  <1>7. n \div 1 = m \div 1
    <2>1. KeyLen - KeyLen = 0
      BY <1>1
    <2> QED
      BY <1>1, <1>2, <1>6, <2>1 DEF S
  <1> QED
    BY <1>3, <1>7
(* Where two joins are the same and their first parts as long, so are the    *)
(* parts.                                                                    *)
LEMMA JoinTells ==
    ASSUME NEW j, NEW s, NEW t, NEW s2, NEW t2, IsJoin(j, s, t), IsJoin(j, s2, t2),
           IsString(s), IsString(t), IsString(s2), IsString(t2), Len(s) = Len(s2)
    PROVE  s = s2 /\ t = t2
  <1>1. Len(t) = Len(t2)
    BY DEF IsJoin
  <1>2. \A i \in 1 .. Len(s) : s[i] = s2[i]
    BY DEF IsJoin
  <1>3. \A i \in 1 .. Len(t) : t[i] = t2[i]
    BY <1>1 DEF IsJoin
  <1> QED
    BY <1>1, <1>2, <1>3, StringsEqual

(* The parts of the key material.                                            *)
Material(k, m, d, a) == k \o m \o d \o a
IsOptional(s, n) == IsString(s) /\ (Len(s) = n \/ s = Missing)
AreParts(k, m, d, a) ==
    /\ IsString(k) /\ Len(k) = KeyLen /\ IsString(m) /\ Len(m) = KeyLen
    /\ IsOptional(d, KeyLen) /\ IsOptional(a, AlgoLen)

(* What a call passes is of this form.                                       *)
LEMMA PartsAre ==
    ASSUME Rfc6979Assumption, NEW args \in Arguments
    PROVE  /\ AreParts(args.key, scalar_get_b32(args.msg % Order), args.data, args.algo)
           /\ args.msg % Order \in 0 .. Power[KeyLen] - 1
  <1>1. KeyLen \in Nat /\ AlgoLen \in Nat
    BY DEF Rfc6979Assumption
  <1>2. \A n \in Nat : \A f \in Strings(n) : IsString(f) /\ Len(f) = n
    <2> SUFFICES ASSUME NEW n \in Nat, NEW f \in Strings(n) PROVE IsString(f) /\ Len(f) = n
      OBVIOUS
    <2>1. DOMAIN f = 1 .. n /\ f = [i \in 1 .. n |-> f[i]]
      BY DEF Strings
    <2> QED
      BY <2>1, StringFrom
  <1>3. IsString(Missing)
    BY DEF IsString, Missing
  <1>4. /\ args.key \in Strings(KeyLen) /\ args.msg \in 0 .. Power[KeyLen] - 1
        /\ args.data \in Strings(KeyLen) \cup {Missing}
        /\ args.algo \in Strings(AlgoLen) \cup {Missing}
    BY DEF Arguments, Rfc6979Assumption
  <1> DEFINE r == args.msg % Order
             all == Power[KeyLen]
             b == scalar_get_b32(r)
  <1>5. IsString(b) /\ Len(b) = KeyLen
    <2> HIDE DEF r
    <2>1. DOMAIN b = 1 .. KeyLen /\ b = [i \in 1 .. KeyLen |-> b[i]]
      BY DEF scalar_get_b32
    <2> HIDE DEF b
    <2> QED
      BY <1>1, <2>1, StringFrom
  <1>6. r \in 0 .. all - 1
    <2>1. all \in Nat \ {0} /\ Order \in 1 .. all
      BY <1>1, PowerIs DEF Rfc6979Assumption
    <2>2. args.msg \in Nat /\ Order \in Nat \ {0} /\ Order <= all
      BY <1>4, <2>1
    <2> HIDE DEF all
    <2>3. r \in 0 .. Order - 1
      BY <2>2, Parted
    <2> HIDE DEF r
    <2> QED
      BY <2>1, <2>2, <2>3
  <1> HIDE DEF r, b
  <1>7. AreParts(args.key, b, args.data, args.algo)
    BY <1>1, <1>2, <1>3, <1>4, <1>5 DEF AreParts, IsOptional
  <1> QED
    BY <1>6, <1>7 DEF r, b, all

(* The key material tells its parts: the name of an algorithm is shorter     *)
(* than the extra data, so the length tells which of them are missing.       *)
LEMMA PartsTell ==
    ASSUME Rfc6979Assumption, NEW k, NEW m, NEW d, NEW a, AreParts(k, m, d, a),
           NEW k2, NEW m2, NEW d2, NEW a2, AreParts(k2, m2, d2, a2),
           Material(k, m, d, a) = Material(k2, m2, d2, a2)
    PROVE  k = k2 /\ m = m2 /\ d = d2 /\ a = a2
  <1> DEFINE km == k \o m    kmd == km \o d     all == kmd \o a
             km2 == k2 \o m2  kmd2 == km2 \o d2  all2 == kmd2 \o a2
  <1>1. KeyLen \in Nat /\ AlgoLen \in Nat /\ AlgoLen < KeyLen
    BY DEF Rfc6979Assumption
  <1>2. /\ IsString(k) /\ IsString(m) /\ IsString(d) /\ IsString(a)
        /\ IsString(k2) /\ IsString(m2) /\ IsString(d2) /\ IsString(a2)
        /\ Len(k) = KeyLen /\ Len(m) = KeyLen /\ Len(k2) = KeyLen /\ Len(m2) = KeyLen
        /\ Len(d) \in {0, KeyLen} /\ Len(a) \in {0, AlgoLen}
        /\ Len(d2) \in {0, KeyLen} /\ Len(a2) \in {0, AlgoLen}
    BY DEF AreParts, IsOptional, Missing
  <1>3. IsJoin(km, k, m) /\ IsJoin(km2, k2, m2)
    BY <1>2, JoinIs
  <1> HIDE DEF km, km2
  <1>4. IsString(km) /\ IsString(km2)
    BY <1>3 DEF IsJoin
  <1>5. IsJoin(kmd, km, d) /\ IsJoin(kmd2, km2, d2)
    BY <1>2, <1>4, JoinIs
  <1> HIDE DEF kmd, kmd2
  <1>6. IsString(kmd) /\ IsString(kmd2)
    BY <1>5 DEF IsJoin
  <1>7. IsJoin(all, kmd, a) /\ IsJoin(all2, kmd2, a2)
    BY <1>2, <1>6, JoinIs
  <1>8. all = all2
    BY DEF all, all2, kmd, kmd2, km, km2, Material
  <1> HIDE DEF all, all2
  <1>9. /\ Len(km) = KeyLen + KeyLen /\ Len(km2) = KeyLen + KeyLen
        /\ Len(kmd) = Len(km) + Len(d) /\ Len(kmd2) = Len(km2) + Len(d2)
        /\ Len(all) = Len(kmd) + Len(a) /\ Len(all) = Len(kmd2) + Len(a2)
    BY <1>2, <1>3, <1>5, <1>7, <1>8 DEF IsJoin
  <1>10. Len(d) = Len(d2) /\ Len(kmd) = Len(kmd2) /\ Len(km) = Len(km2)
    <2> DEFINE x == Len(d)  y == Len(d2)  u == Len(a)  v == Len(a2)
    <2>1. x \in {0, KeyLen} /\ y \in {0, KeyLen} /\ u \in {0, AlgoLen} /\ v \in {0, AlgoLen}
      BY <1>2
    <2>2. /\ Len(km) = KeyLen + KeyLen /\ Len(km2) = KeyLen + KeyLen
          /\ Len(kmd) = KeyLen + KeyLen + x /\ Len(kmd2) = KeyLen + KeyLen + y
          /\ KeyLen + KeyLen + x + u = KeyLen + KeyLen + y + v
      BY <1>9
    <2> HIDE DEF x, y, u, v
    <2>3. x = y
      BY <1>1, <2>1, <2>2
    <2> QED
      BY <2>2, <2>3 DEF x, y
  <1>11. kmd = kmd2 /\ a = a2
    BY <1>2, <1>6, <1>7, <1>8, <1>10, JoinTells
  <1>12. km = km2 /\ d = d2
    <2>1. IsJoin(kmd, km2, d2)
      BY <1>5, <1>11
    <2> QED
      BY <1>2, <1>4, <1>5, <1>10, <2>1, JoinTells
  <1>13. k = k2 /\ m = m2
    <2>1. IsJoin(km, k2, m2)
      BY <1>3, <1>12
    <2> QED
      BY <1>2, <1>3, <2>1, JoinTells
  <1> QED
    BY <1>11, <1>12, <1>13
(* The arguments that two nonces are to be distinguished by.                 *)
SameCall(a, b) ==
    /\ a.counter = b.counter
    /\ a.args.msg % Order = b.args.msg % Order
    /\ [a.args EXCEPT !.msg = 0] = [b.args EXCEPT !.msg = 0]

(* Everything a call can have left behind.                                   *)
Calls == {[args |-> args, counter |-> counter, nonce |-> nonce_function_rfc6979(args, counter)] :
              args \in Arguments, counter \in Nat}

(* Two calls give one nonce exactly when they distinguish nothing.           *)
LEMMA CallsTell ==
    ASSUME Rfc6979Assumption, NEW a \in Calls, NEW b \in Calls
    PROVE  a.nonce = b.nonce <=> SameCall(a, b)
  <1> DEFINE p == a.args  q == b.args  i == a.counter  j == b.counter
             rp == p.msg % Order  rq == q.msg % Order
             mp == scalar_get_b32(rp)  mq == scalar_get_b32(rq)
  <1>1. /\ p \in Arguments /\ q \in Arguments /\ i \in Nat /\ j \in Nat
        /\ a.nonce = nonce_function_rfc6979(p, i) /\ b.nonce = nonce_function_rfc6979(q, j)
    BY DEF Calls
  <1>2. a.nonce = RngAfter(KeyData(p), i).v /\ b.nonce = RngAfter(KeyData(q), j).v
    BY <1>1, RngIs
  <1>3. a.nonce = b.nonce <=> i = j /\ KeyData(p) = KeyData(q)
    BY <1>1, <1>2, OutputsDiffer
  <1>4. /\ KeyData(p) = Material(p.key, mp, p.data, p.algo)
        /\ KeyData(q) = Material(q.key, mq, q.data, q.algo)
    BY DEF KeyData, Material
  <1>5. /\ AreParts(p.key, mp, p.data, p.algo) /\ AreParts(q.key, mq, q.data, q.algo)
        /\ rp \in 0 .. Power[KeyLen] - 1 /\ rq \in 0 .. Power[KeyLen] - 1
    BY <1>1, PartsAre
  <1>6. SameCall(a, b) <=> i = j /\ rp = rq /\ p.key = q.key /\ p.data = q.data /\ p.algo = q.algo
    <2>1. /\ p = [key |-> p.key, msg |-> p.msg, data |-> p.data, algo |-> p.algo]
          /\ q = [key |-> q.key, msg |-> q.msg, data |-> q.data, algo |-> q.algo]
      BY <1>1 DEF Arguments
    <2>2. /\ [p EXCEPT !.msg = 0] = [key |-> p.key, msg |-> 0, data |-> p.data, algo |-> p.algo]
          /\ [q EXCEPT !.msg = 0] = [key |-> q.key, msg |-> 0, data |-> q.data, algo |-> q.algo]
      BY <1>1 DEF Arguments
    <2>3. [p EXCEPT !.msg = 0] = [q EXCEPT !.msg = 0]
              <=> p.key = q.key /\ p.data = q.data /\ p.algo = q.algo
      BY <2>2
    <2> QED
      BY <2>3 DEF SameCall
  <1> HIDE DEF p, q, i, j, rp, rq
  <1>7. ASSUME KeyData(p) = KeyData(q)
        PROVE  rp = rq /\ p.key = q.key /\ p.data = q.data /\ p.algo = q.algo
    <2>1. Material(p.key, mp, p.data, p.algo) = Material(q.key, mq, q.data, q.algo)
      BY <1>4, <1>7
    <2> HIDE DEF mp, mq
    <2>2. p.key = q.key /\ mp = mq /\ p.data = q.data /\ p.algo = q.algo
      BY <1>5, <2>1, PartsTell
    <2>3. rp = rq
      BY <1>5, <2>2, BytesTell DEF mp, mq
    <2> QED
      BY <2>2, <2>3
  <1>8. ASSUME rp = rq, p.key = q.key, p.data = q.data, p.algo = q.algo
        PROVE  KeyData(p) = KeyData(q)
    BY <1>4, <1>8
  <1> QED
    BY <1>3, <1>6, <1>7, <1>8

(* What a sequence of two holds.                                             *)
LEMMA BothIn ==
    ASSUME NEW S, NEW s \in Seq(S), Len(s) = 2
    PROVE  s[1] \in S /\ s[2] \in S
  <1>1. \A i \in 1 .. Len(s) : s[i] \in S
    OBVIOUS
  <1>2. 1 \in 1 .. Len(s) /\ 2 \in 1 .. Len(s)
    OBVIOUS
  <1> QED
    BY <1>1, <1>2

(* At every call of nonce_function_rfc6979 (src/secp256k1.c), whatever the   *)
(* lengths, the base and the order: two nonces are equal only when the key,  *)
(* the reduced message, the extra data, the algorithm and the attempt are.   *)
THEOREM NoncesTell == NonceSpec => []NoncesDistinct
  <1> DEFINE NonceInv == nonces \in Seq(Calls)
  <1>1. NonceInit => NonceInv
    BY DEF NonceInit
  <1>2. ASSUME NonceInv, [NonceNext]_nonces PROVE NonceInv'
    <2>1. CASE UNCHANGED nonces
      BY <1>2, <2>1
    <2>2. ASSUME NEW args \in Arguments, NEW counter \in 0 .. MaxCounter, Call(args, counter)
          PROVE  NonceInv'
      <3> DEFINE made == [args |-> args, counter |-> counter,
                          nonce |-> nonce_function_rfc6979(args, counter)]
      <3>1. made \in Calls
        BY DEF Calls, Rfc6979Assumption
      <3>2. nonces' = Append(nonces, made)
        BY <2>2 DEF Call
      <3> HIDE DEF made
      <3> QED
        BY <1>2, <3>1, <3>2
    <2> QED
      BY <1>2, <2>1, <2>2 DEF NonceNext
  <1>3. ASSUME NonceInv PROVE NoncesDistinct
    <2> SUFFICES ASSUME Len(nonces) = 2
                 PROVE  nonces[1].nonce = nonces[2].nonce <=> SameCall(nonces[1], nonces[2])
      BY DEF NoncesDistinct, SameCall
    <2>1. nonces[1] \in Calls /\ nonces[2] \in Calls
      BY <1>3, BothIn
    <2> QED
      BY <2>1, Rfc6979Assumption, CallsTell
  <1> HIDE DEF NonceInv
  <1> QED
    BY <1>1, <1>2, <1>3, PTL DEF NonceSpec

-----------------------------------------------------------------------------
(* Powers of two: the recursion has a solution, so they double.              *)
IsPowers(f, n) == f = [h \in 0 .. n |-> IF h = 0 THEN 1 ELSE 2 * f[h - 1]]

(* For every n the recursion has a solution up to n,                        *)
LEMMA PowersExist == \A n \in Nat : \E f : IsPowers(f, n)
  <1> DEFINE S == {n \in Nat : \E f : IsPowers(f, n)}
  <1>1. 0 \in S
    <2> DEFINE f == [h \in 0 .. 0 |-> 1]
    <2>1. IsPowers(f, 0)
      BY DEF IsPowers
    <2> QED
      BY <2>1
  <1>2. ASSUME NEW n \in Nat, n \in S PROVE n + 1 \in S
    <2>1. PICK f : IsPowers(f, n)
      BY <1>2
    <2> DEFINE longer == [h \in 0 .. n + 1 |-> IF h <= n THEN f[h] ELSE 2 * f[n]]
    <2>2. IsPowers(longer, n + 1)
      BY <2>1 DEF IsPowers
    <2> QED
      BY <2>2
  <1> HIDE DEF S
  <1>3. Nat \subseteq S
    BY <1>1, <1>2, Induct
  <1> QED
    BY <1>3 DEF S

(* solutions agree where both are defined,                                  *)
LEMMA PowersAgree ==
    ASSUME NEW n \in Nat, NEW m \in Nat, m <= n, NEW f, IsPowers(f, n), NEW g, IsPowers(g, m)
    PROVE  f[m] = g[m]
  <1> DEFINE S == {k \in Nat : k <= m => f[k] = g[k]}
  <1>1. 0 \in S
    BY DEF IsPowers
  <1>2. ASSUME NEW k \in Nat, k \in S PROVE k + 1 \in S
    BY <1>2 DEF IsPowers
  <1> HIDE DEF S
  <1>3. m \in S
    BY <1>1, <1>2, Induct
  <1> QED
    BY <1>3 DEF S

(* so Pow2 satisfies its equation.                                          *)
LEMMA Powers ==
    /\ Pow2[0] = 1
    /\ \A n \in Nat : Pow2[n] \in Nat \ {0} /\ Pow2[n + 1] = 2 * Pow2[n]
  <1> DEFINE P(f) == f = [n \in Nat |-> IF n = 0 THEN 1 ELSE 2 * f[n - 1]]
             of(n) == CHOOSE f : IsPowers(f, n)
             all == [n \in Nat |-> of(n)[n]]
  <1>1. \A n \in Nat : IsPowers(of(n), n)
    BY PowersExist
  <1> HIDE DEF of
  <1>2. ASSUME NEW n \in Nat PROVE all[n] = IF n = 0 THEN 1 ELSE 2 * all[n - 1]
    <2>1. CASE n = 0
      BY <1>1, <2>1 DEF IsPowers
    <2>2. CASE n # 0
      <3> DEFINE m == n - 1
      <3>1. m \in Nat /\ m <= n
        BY <2>2
      <3>2. IsPowers(of(n), n) /\ IsPowers(of(m), m)
        BY <1>1, <3>1
      <3>3. of(n)[m] = of(m)[m]
        <4> HIDE DEF m
        <4> QED
          BY <3>1, <3>2, PowersAgree
      <3>4. of(n)[n] = 2 * of(n)[m]
        BY <2>2, <3>2 DEF IsPowers
      <3> QED
        BY <2>2, <3>1, <3>3, <3>4
    <2> QED
      BY <2>1, <2>2
  <1>3. P(all)
    BY <1>2
  <1> HIDE DEF all
  <1>4. P(Pow2)
    <2>1. Pow2 = CHOOSE f : P(f)
      BY DEF Pow2
    <2> QED
      BY <1>3, <2>1, Zenon
  <1>5. Pow2[0] = 1 /\ \A n \in Nat : Pow2[n + 1] = 2 * Pow2[n]
    BY <1>4
  <1> DEFINE S == {n \in Nat : Pow2[n] \in Nat \ {0}}
  <1>6. 0 \in S /\ \A n \in Nat : n \in S => n + 1 \in S
    BY <1>5
  <1> HIDE DEF S
  <1>7. Nat \subseteq S
    BY <1>6, Induct
  <1> QED
    BY <1>5, <1>7 DEF S

(* Quotient and remainder of any integer.                                    *)
LEMMA IntDivided ==
    ASSUME NEW x \in Int, NEW n \in Nat \ {0}
    PROVE  /\ x \div n \in Int /\ x % n \in 0 .. n - 1
           /\ x = n * (x \div n) + (x % n)
  BY Z3

(* They are the only ones.                                                   *)
LEMMA OneRemainder ==
    ASSUME NEW x \in Int, NEW n \in Nat \ {0}, NEW q \in Int, NEW e \in 0 .. n - 1, x = n * q + e
    PROVE  x \div n = q /\ x % n = e
  BY Z3

(* Powers multiply.                                                          *)
LEMMA PowersAdd == \A a, b \in Nat : Pow2[a + b] = Pow2[a] * Pow2[b]
  <1> SUFFICES ASSUME NEW a \in Nat PROVE \A b \in Nat : Pow2[a + b] = Pow2[a] * Pow2[b]
    OBVIOUS
  <1> DEFINE S == {b \in Nat : Pow2[a + b] = Pow2[a] * Pow2[b]}
  <1>1. Pow2[0] = 1 /\ \A n \in Nat : Pow2[n] \in Nat \ {0} /\ Pow2[n + 1] = 2 * Pow2[n]
    BY Powers
  <1>2. 0 \in S
    BY <1>1
  <1>3. ASSUME NEW b \in Nat, b \in S PROVE b + 1 \in S
    <2> DEFINE p == Pow2[a]  q == Pow2[b]
    <2>1. p \in Nat /\ q \in Nat /\ Pow2[a + b] = p * q /\ Pow2[b + 1] = 2 * q
      BY <1>1, <1>3
    <2>2. a + (b + 1) = (a + b) + 1 /\ a + b \in Nat
      OBVIOUS
    <2>3. Pow2[a + (b + 1)] = 2 * Pow2[a + b]
      BY <1>1, <2>2
    <2> HIDE DEF p, q
    <2>4. 2 * (p * q) = p * (2 * q)
      BY <2>1, Z3
    <2>5. Pow2[a + (b + 1)] = p * Pow2[b + 1]
      BY <2>1, <2>3, <2>4
    <2> QED
      BY <2>5 DEF p
  <1> HIDE DEF S
  <1>4. Nat \subseteq S
    BY <1>2, <1>3, Induct
  <1> QED
    BY <1>4 DEF S

-----------------------------------------------------------------------------
(* Bits: a number without its last k, from that without one more.            *)
Rest(d, k) == d \div Pow2[k]

(* The next bit of what remains.                                             *)
LEMMA BitIs ==
    ASSUME NEW d \in Nat, NEW k \in Nat
    PROVE  /\ Rest(d, k) \in Nat /\ Bit(d, k) \in {0, 1}
           /\ Rest(d, k) = 2 * Rest(d, k + 1) + Bit(d, k)
  <1> DEFINE p == Pow2[k]  q == d \div p  e == d % p  a == q \div 2  b == q % 2
  <1>1. p \in Nat \ {0} /\ Pow2[k + 1] = 2 * p
    BY Powers
  <1> HIDE DEF p
  <1>2. q \in Int /\ e \in 0 .. p - 1 /\ d = p * q + e
    <2>1. d \in Int
      OBVIOUS
    <2>2. d \div p \in Int /\ d % p \in 0 .. p - 1 /\ d = p * (d \div p) + (d % p)
      BY <1>1, <2>1, IntDivided
    <2> QED
      BY <2>2
  <1>3. q \in Nat
    BY <1>1, Z3
  <1> HIDE DEF q, e
  <1>4. a \in Int /\ b \in 0 .. 1 /\ q = 2 * a + b
    BY <1>2, IntDivided
  <1> HIDE DEF a, b
  <1>5. d \div (2 * p) = a
    <2> DEFINE pp == 2 * p  ee == p * b + e
    <2>1. pp \in Nat \ {0}
      BY <1>1
    <2>2. d = pp * a + ee
      <3>1. p * q = (2 * p) * a + p * b
        BY <1>1, <1>2, <1>4, Z3
      <3>2. (2 * p) * a \in Int /\ p * b \in Int
        BY <1>1, <1>4, Z3
      <3> QED
        BY <1>2, <3>1, <3>2
    <2>3. ee \in 0 .. pp - 1
      <3>1. b = 0 \/ b = 1
        BY <1>4
      <3>2. p * 0 = 0 /\ p * 1 = p
        BY <1>1
      <3> QED
        BY <1>1, <1>2, <3>1, <3>2
    <2> HIDE DEF pp, ee
    <2>4. d \div pp = a
      BY <1>4, <2>1, <2>2, <2>3, OneRemainder
    <2> QED
      BY <2>4 DEF pp
  <1> QED
    BY <1>1, <1>3, <1>4, <1>5 DEF Rest, Bit, a, b, q, p

(* Nothing is missing of all of it, and nothing remains of a small number.   *)
LEMMA RestEnds ==
    ASSUME NEW d \in Nat, NEW k \in Nat
    PROVE  Rest(d, 0) = d /\ (d < Pow2[k] => Rest(d, k) = 0)
  <1> DEFINE p == Pow2[k]
  <1>1. Pow2[0] = 1 /\ p \in Nat \ {0}
    BY Powers
  <1>2. Rest(d, 0) = d
    BY <1>1 DEF Rest
  <1> HIDE DEF p
  <1>3. d < p => d \div p = 0
    <2> SUFFICES ASSUME d < p PROVE d \div p = 0
      OBVIOUS
    <2>1. d = p * 0 + d /\ d \in 0 .. p - 1
      BY <1>1
    <2> QED
      BY <1>1, <2>1, OneRemainder
  <1> QED
    BY <1>2, <1>3 DEF Rest, p
-----------------------------------------------------------------------------
(* The sum of the first n values of a function on the numbers.               *)
IsSum(sum, f, n) == sum = [i \in 0 .. n |-> IF i = 0 THEN 0 ELSE sum[i - 1] + f[i - 1]]
SumOf(f, n) == (CHOOSE sum : IsSum(sum, f, n))[n]

(* There are such sums,                                                      *)
LEMMA SumExists ==
    ASSUME NEW f, NEW n \in Nat
    PROVE  \E sum : IsSum(sum, f, n)
  <1> DEFINE S == {k \in Nat : \E sum : IsSum(sum, f, k)}
  <1>1. 0 \in S
    <2> DEFINE sum == [i \in 0 .. 0 |-> 0]
    <2>1. IsSum(sum, f, 0)
      BY DEF IsSum
    <2> QED
      BY <2>1
  <1>2. ASSUME NEW k \in Nat, k \in S PROVE k + 1 \in S
    <2>1. PICK sum : IsSum(sum, f, k)
      BY <1>2
    <2> DEFINE longer == [i \in 0 .. k + 1 |-> IF i <= k THEN sum[i] ELSE sum[k] + f[k]]
    <2>2. IsSum(longer, f, k + 1)
      BY <2>1 DEF IsSum
    <2> QED
      BY <2>2
  <1> HIDE DEF S
  <1>3. Nat \subseteq S
    BY <1>1, <1>2, Induct
  <1> QED
    BY <1>3 DEF S

(* which agree where both are defined,                                       *)
LEMMA SumAgrees ==
    ASSUME NEW f, NEW n \in Nat, NEW m \in Nat, m <= n,
           NEW s, IsSum(s, f, n), NEW t, IsSum(t, f, m)
    PROVE  s[m] = t[m]
  <1> DEFINE S == {k \in Nat : k <= m => s[k] = t[k]}
  <1>1. 0 \in S
    BY DEF IsSum
  <1>2. ASSUME NEW k \in Nat, k \in S PROVE k + 1 \in S
    BY <1>2 DEF IsSum
  <1> HIDE DEF S
  <1>3. m \in S
    BY <1>1, <1>2, Induct
  <1> QED
    BY <1>3 DEF S

(* so they grow by a value at a time.                                        *)
LEMMA SumIs ==
    ASSUME NEW f
    PROVE  /\ SumOf(f, 0) = 0
           /\ \A n \in Nat : SumOf(f, n + 1) = SumOf(f, n) + f[n]
  <1> DEFINE of(k) == CHOOSE s : IsSum(s, f, k)
  <1>1. \A k \in Nat : IsSum(of(k), f, k)
    BY SumExists
  <1>2. \A k : SumOf(f, k) = of(k)[k]
    BY DEF SumOf
  <1> HIDE DEF of
  <1>3. of(0)[0] = 0
    <2>1. IsSum(of(0), f, 0)
      BY <1>1
    <2> QED
      BY <2>1 DEF IsSum
  <1>4. ASSUME NEW n \in Nat PROVE of(n + 1)[n + 1] = of(n)[n] + f[n]
    <2> DEFINE m == n + 1
    <2>1. m \in Nat /\ n <= m /\ m # 0 /\ m - 1 = n
      OBVIOUS
    <2> HIDE DEF m
    <2>2. IsSum(of(m), f, m) /\ IsSum(of(n), f, n)
      BY <1>1, <2>1
    <2>3. of(m)[n] = of(n)[n]
      BY <2>1, <2>2, SumAgrees
    <2>4. of(m)[m] = of(m)[n] + f[n]
      BY <2>1, <2>2 DEF IsSum
    <2> QED
      BY <2>3, <2>4 DEF m
  <1> QED
    BY <1>2, <1>3, <1>4

(* What is added is integers.                                                *)
IsTerms(f) == \A i \in Nat : f[i] \in Int

(* The sum of integers is one.                                               *)
LEMMA SumType ==
    ASSUME NEW f, IsTerms(f), NEW n \in Nat
    PROVE  SumOf(f, n) \in Int
  <1> DEFINE S == {k \in Nat : SumOf(f, k) \in Int}
  <1>1. 0 \in S
    BY SumIs
  <1>2. ASSUME NEW k \in Nat, k \in S PROVE k + 1 \in S
    <2>1. SumOf(f, k + 1) = SumOf(f, k) + f[k] /\ f[k] \in Int
      BY SumIs DEF IsTerms
    <2> QED
      BY <1>2, <2>1
  <1> HIDE DEF S
  <1>3. Nat \subseteq S
    BY <1>1, <1>2, Induct
  <1> QED
    BY <1>3 DEF S

(* A sum depends on nothing but the values it adds, and is linear.           *)
LEMMA SumLinear ==
    ASSUME NEW f, NEW g, NEW h, IsTerms(f), IsTerms(g), NEW c \in Int, NEW n \in Nat,
           \A i \in 0 .. n - 1 : h[i] = c * f[i] + g[i]
    PROVE  SumOf(h, n) = c * SumOf(f, n) + SumOf(g, n)
  <1> DEFINE S == {k \in Nat : k <= n => SumOf(h, k) = c * SumOf(f, k) + SumOf(g, k)}
  <1>1. 0 \in S
    <2>1. c * 0 + 0 = 0
      OBVIOUS
    <2> QED
      BY <2>1, SumIs
  <1>2. ASSUME NEW k \in Nat, k \in S PROVE k + 1 \in S
    <2> SUFFICES ASSUME k + 1 <= n
                 PROVE  SumOf(h, k + 1) = c * SumOf(f, k + 1) + SumOf(g, k + 1)
      OBVIOUS
    <2> DEFINE F == SumOf(f, k)  H == SumOf(g, k)  x == f[k]  y == g[k]
    <2>1. F \in Int /\ H \in Int /\ x \in Int /\ y \in Int
      BY SumType DEF IsTerms
    <2>2. SumOf(h, k) = c * F + H
      BY <1>2
    <2>3. h[k] = c * x + y
      BY <1>2
    <2>4. /\ SumOf(h, k + 1) = SumOf(h, k) + h[k]
          /\ SumOf(f, k + 1) = F + x /\ SumOf(g, k + 1) = H + y
      BY SumIs
    <2> HIDE DEF F, H, x, y
    <2>5. (c * F + H) + (c * x + y) = c * (F + x) + (H + y)
      BY <2>1, Z3
    <2> QED
      BY <2>2, <2>3, <2>4, <2>5
  <1> HIDE DEF S
  <1>3. n \in S
    BY <1>1, <1>2, Induct
  <1> QED
    BY <1>3 DEF S

(* The sum of what follows the first a values is added to theirs.            *)
LEMMA SumContinues ==
    ASSUME NEW f, NEW g, IsTerms(f), NEW a \in Nat, NEW n \in Nat,
           \A i \in 0 .. n - 1 : g[i] = f[a + i]
    PROVE  SumOf(f, a + n) = SumOf(f, a) + SumOf(g, n)
  <1> DEFINE S == {k \in Nat : k <= n => SumOf(f, a + k) = SumOf(f, a) + SumOf(g, k)}
  <1>1. 0 \in S
    <2>1. SumOf(f, a) \in Int /\ a + 0 = a /\ SumOf(g, 0) = 0
      BY SumIs, SumType
    <2> QED
      BY <2>1
  <1>2. ASSUME NEW k \in Nat, k \in S, k + 1 <= n
        PROVE  SumOf(f, a + (k + 1)) = SumOf(f, a) + SumOf(g, k + 1)
    <2> DEFINE m == a + k  F == SumOf(f, a)  M == SumOf(f, m)  K == SumOf(g, k)  x == g[k]
    <2>1. m \in Nat /\ a + (k + 1) = m + 1 /\ k \in 0 .. n - 1
      BY <1>2
    <2>2. M = F + K /\ x = f[m]
      BY <1>2, <2>1
    <2>3. SumOf(g, k + 1) = K + x /\ SumOf(f, m + 1) = M + f[m]
      BY <2>1, SumIs
    <2>4. F \in Int /\ M \in Int /\ x \in Int
      BY <2>1, <2>2, SumType DEF IsTerms
    <2>5. K \in Int
      <3> DEFINE T == {j \in Nat : j <= n => SumOf(g, j) \in Int}
      <3>1. 0 \in T
        BY SumIs
      <3>2. ASSUME NEW j \in Nat, j \in T PROVE j + 1 \in T
        <4> SUFFICES ASSUME j + 1 <= n PROVE SumOf(g, j + 1) \in Int
          OBVIOUS
        <4>1. SumOf(g, j + 1) = SumOf(g, j) + g[j] /\ g[j] = f[a + j] /\ a + j \in Nat
          BY SumIs
        <4> QED
          BY <3>2, <4>1 DEF IsTerms
      <3> HIDE DEF T
      <3>3. k \in T
        BY <3>1, <3>2, Induct
      <3> QED
        BY <1>2, <3>3 DEF T
    <2> HIDE DEF m, F, M, K, x
    <2> QED
      BY <2>1, <2>2, <2>3, <2>4, <2>5 DEF F
  <1>3. \A k \in Nat : k \in S => k + 1 \in S
    BY <1>2
  <1> HIDE DEF S
  <1>4. n \in S
    BY <1>1, <1>3, Induct
  <1> QED
    BY <1>4 DEF S
-----------------------------------------------------------------------------
(* Digits of two values, and what they stand for.                            *)
IsDigits(b) == \A i \in Nat : b[i] \in {0, 1}
Weighed(b) == [i \in Nat |-> b[i] * Pow2[i]]
ValueOf(b, n) == SumOf(Weighed(b), n)

(* A digit more.                                                             *)
LEMMA ValueIs ==
    ASSUME NEW b, IsDigits(b)
    PROVE  /\ IsTerms(Weighed(b)) /\ ValueOf(b, 0) = 0
           /\ \A n \in Nat : ValueOf(b, n + 1) = ValueOf(b, n) + b[n] * Pow2[n]
  <1>1. \A i \in Nat : Pow2[i] \in Nat
    BY Powers
  <1>2. ASSUME NEW i \in Nat PROVE Weighed(b)[i] = b[i] * Pow2[i] /\ Weighed(b)[i] \in Int
    <2> DEFINE x == b[i]  p == Pow2[i]
    <2>1. x \in {0, 1} /\ p \in Nat /\ Weighed(b)[i] = x * p
      BY <1>1 DEF IsDigits, Weighed
    <2> HIDE DEF x, p
    <2>2. 0 * p = 0 /\ 1 * p = p
      BY <2>1
    <2> QED
      BY <2>1, <2>2 DEF x, p
  <1> QED
    BY <1>2, SumIs DEF ValueOf, IsTerms

(* Digits above do not change one.                                           *)
LEMMA BitBelow ==
    ASSUME NEW x \in Nat, NEW c \in Nat, NEW n \in Nat, NEW u \in Nat, u < n
    PROVE  Bit(x + c * Pow2[n], u) = Bit(x, u)
  <1> DEFINE p == Pow2[u]  r == Pow2[n - (u + 1)]  k == c * r  y == x + c * Pow2[n]
             q == x \div p  e == x % p
  <1>1. p \in Nat \ {0} /\ r \in Nat \ {0} /\ Pow2[u + 1] = 2 * p
    BY Powers
  <1>2. Pow2[n] = (2 * p) * r
    <2>1. u + 1 \in Nat /\ n - (u + 1) \in Nat /\ (u + 1) + (n - (u + 1)) = n
      OBVIOUS
    <2>2. Pow2[(u + 1) + (n - (u + 1))] = Pow2[u + 1] * Pow2[n - (u + 1)]
      BY <2>1, PowersAdd
    <2> QED
      BY <1>1, <2>1, <2>2
  <1> HIDE DEF p, r
  <1>3. k \in Nat
    BY <1>1, Z3
  <1>4. c * Pow2[n] = p * (2 * k)
    <2>1. c * ((2 * p) * r) = p * (2 * (c * r))
      BY <1>1, Z3
    <2> QED
      BY <1>2, <2>1
  <1>5. q \in Nat /\ e \in 0 .. p - 1 /\ x = p * q + e
    BY <1>1, DivIs
  <1> HIDE DEF q, e, k
  <1>6. y \div p = q + 2 * k
    <2> DEFINE t == q + 2 * k
    <2>1. y = p * t + e
      <3>1. p * q + p * (2 * k) = p * t
        BY <1>1, <1>3, <1>5, Z3
      <3>2. p * q \in Nat /\ p * (2 * k) \in Nat
        BY <1>1, <1>3, <1>5, Z3
      <3> HIDE DEF t
      <3> QED
        BY <1>4, <1>5, <3>1, <3>2
    <2>2. t \in Int /\ y \in Int
      <3>1. p * (2 * k) \in Nat
        BY <1>1, <1>3, Z3
      <3> QED
        BY <1>3, <1>4, <1>5, <3>1
    <2> HIDE DEF t, y
    <2>3. y \div p = t
      BY <1>1, <1>5, <2>1, <2>2, OneRemainder
    <2> QED
      BY <2>3 DEF t
  <1>7. (q + 2 * k) % 2 = q % 2
    BY <1>3, <1>5
  <1> HIDE DEF y
  <1> QED
    BY <1>6, <1>7 DEF Bit, q, p, y

(* The bits of a value are its digits.                                       *)
LEMMA DigitsOf ==
    ASSUME NEW b, IsDigits(b), NEW n \in Nat
    PROVE  /\ ValueOf(b, n) \in 0 .. Pow2[n] - 1
           /\ \A u \in 0 .. n - 1 : Bit(ValueOf(b, n), u) = b[u]
  <1> DEFINE S == {k \in Nat : /\ ValueOf(b, k) \in 0 .. Pow2[k] - 1
                               /\ \A u \in 0 .. k - 1 : Bit(ValueOf(b, k), u) = b[u]}
  <1>1. 0 \in S
    BY ValueIs, Powers
  <1>2. ASSUME NEW k \in Nat, k \in S PROVE k + 1 \in S
    <2> DEFINE x == ValueOf(b, k)  c == b[k]  p == Pow2[k]  y == ValueOf(b, k + 1)
    <2>1. x \in 0 .. p - 1 /\ \A u \in 0 .. k - 1 : Bit(x, u) = b[u]
      BY <1>2
    <2>2. p \in Nat \ {0} /\ Pow2[k + 1] = 2 * p
      BY Powers
    <2>3. c \in {0, 1} /\ y = x + c * p
      BY ValueIs DEF IsDigits
    <2> HIDE DEF x, c, p, y
    <2>4. 0 * p = 0 /\ 1 * p = p
      BY <2>2
    <2>5. y \in 0 .. (2 * p) - 1
      BY <2>1, <2>2, <2>3, <2>4
    <2>6. ASSUME NEW u \in 0 .. (k + 1) - 1 PROVE Bit(y, u) = b[u]
      <3>1. CASE u < k
        <4>1. u \in Nat /\ x \in Nat /\ c \in Nat
          BY <2>1, <2>3
        <4>2. Bit(x + c * Pow2[k], u) = Bit(x, u)
          BY <3>1, <4>1, BitBelow
        <4>3. Bit(x, u) = b[u]
          BY <2>1, <3>1
        <4> QED
          BY <2>3, <4>2, <4>3 DEF p
      <3>2. CASE u = k
        <4>1. y = p * c + x /\ y \in Int
          BY <2>1, <2>2, <2>3, <2>4
        <4>2. y \div p = c
          BY <2>1, <2>2, <2>3, <4>1, OneRemainder
        <4>3. c % 2 = c
          BY <2>3
        <4> QED
          BY <3>2, <4>2, <4>3 DEF Bit, p, c
      <3> QED
        BY <3>1, <3>2
    <2> QED
      BY <2>2, <2>5, <2>6 DEF y
  <1> HIDE DEF S
  <1>3. n \in S
    BY <1>1, <1>2, Induct
  <1> QED
    BY <1>3 DEF S

(* The bits of a number.                                                     *)
BitsOf(x) == [u \in Nat |-> Bit(x, u)]

(* A number is the value of its bits.                                        *)
LEMMA NumberIs ==
    ASSUME NEW x \in Nat, NEW n \in Nat, x < Pow2[n]
    PROVE  IsDigits(BitsOf(x)) /\ ValueOf(BitsOf(x), n) = x
  <1> DEFINE b == BitsOf(x)
             S == {k \in Nat : ValueOf(b, k) + Rest(x, k) * Pow2[k] = x}
  <1>1. IsDigits(b)
    BY BitIs DEF BitsOf, IsDigits
  <1>2. \A k \in Nat : b[k] = Bit(x, k)
    BY DEF BitsOf
  <1> HIDE DEF b
  <1>3. 0 \in S
    BY <1>1, ValueIs, Powers, RestEnds
  <1>4. ASSUME NEW k \in Nat, k \in S PROVE k + 1 \in S
    <2> DEFINE r == Rest(x, k)  s == Rest(x, k + 1)  c == Bit(x, k)  p == Pow2[k]
               v == ValueOf(b, k)
    <2>1. r = 2 * s + c /\ c \in {0, 1} /\ s \in Nat
      <3>1. k + 1 \in Nat
        OBVIOUS
      <3>2. r = 2 * s + c /\ c \in {0, 1}
        BY BitIs
      <3>3. s \in Nat
        BY <3>1, BitIs
      <3> QED
        BY <3>2, <3>3
    <2>2. p \in Nat /\ Pow2[k + 1] = 2 * p
      BY Powers
    <2>3. v + r * p = x
      BY <1>4
    <2>4. v \in Int
      BY <1>1, ValueIs, SumType DEF ValueOf
    <2>5. ValueOf(b, k + 1) = v + c * p
      BY <1>1, <1>2, ValueIs
    <2> HIDE DEF r, s, c, p, v
    <2>6. (v + c * p) + s * (2 * p) = v + r * p
      BY <2>1, <2>2, <2>4, Z3
    <2>7. ValueOf(b, k + 1) + s * Pow2[k + 1] = x
      BY <2>2, <2>3, <2>5, <2>6
    <2> QED
      BY <2>7 DEF s
  <1> HIDE DEF S
  <1>5. n \in S
    BY <1>3, <1>4, Induct
  <1>6. ValueOf(b, n) + 0 * Pow2[n] = x
    BY <1>5, RestEnds DEF S
  <1>7. Pow2[n] \in Nat /\ ValueOf(b, n) \in Int
    BY <1>1, Powers, ValueIs, SumType DEF ValueOf
  <1> QED
    BY <1>1, <1>6, <1>7 DEF b

(* Every bit flipped.                                                        *)
LEMMA Flipped ==
    ASSUME NEW x \in Nat, NEW n \in Nat, x < Pow2[n], NEW y, y = Pow2[n] - 1 - x
    PROVE  /\ y \in 0 .. Pow2[n] - 1
           /\ \A u \in 0 .. n - 1 : Bit(y, u) = 1 - Bit(x, u)
  <1> DEFINE b == BitsOf(x)
             f == [u \in Nat |-> 1 - b[u]]
             S == {k \in Nat : ValueOf(f, k) = Pow2[k] - 1 - ValueOf(b, k)}
  <1>1. IsDigits(b) /\ ValueOf(b, n) = x /\ \A k \in Nat : b[k] = Bit(x, k)
    BY NumberIs DEF BitsOf
  <1> HIDE DEF b
  <1>2. IsDigits(f) /\ \A k \in Nat : f[k] = 1 - b[k]
    BY <1>1 DEF IsDigits
  <1> HIDE DEF f
  <1>3. 0 \in S
    BY <1>1, <1>2, ValueIs, Powers
  <1>4. ASSUME NEW k \in Nat, k \in S PROVE k + 1 \in S
    <2> DEFINE c == b[k]  d == f[k]  p == Pow2[k]  v == ValueOf(b, k)  w == ValueOf(f, k)
    <2>1. c \in {0, 1} /\ d = 1 - c
      BY <1>1, <1>2 DEF IsDigits
    <2>2. p \in Nat /\ Pow2[k + 1] = 2 * p
      BY Powers
    <2>3. w = p - 1 - v
      BY <1>4
    <2>4. v \in Int
      BY <1>1, ValueIs, SumType DEF ValueOf
    <2>5. ValueOf(b, k + 1) = v + c * p /\ ValueOf(f, k + 1) = w + d * p
      BY <1>1, <1>2, ValueIs
    <2> HIDE DEF c, d, p, v, w
    <2>6. (c = 0 /\ d = 1) \/ (c = 1 /\ d = 0)
      BY <2>1
    <2>7. 0 * p = 0 /\ 1 * p = p
      BY <2>2
    <2>8. w + d * p = 2 * p - 1 - (v + c * p)
      BY <2>2, <2>3, <2>4, <2>6, <2>7
    <2> QED
      BY <2>2, <2>5, <2>8
  <1> HIDE DEF S
  <1>5. n \in S
    BY <1>3, <1>4, Induct
  <1>6. ValueOf(f, n) = y
    BY <1>1, <1>5 DEF S
  <1>7. y \in 0 .. Pow2[n] - 1 /\ \A u \in 0 .. n - 1 : Bit(y, u) = f[u]
    BY <1>2, <1>6, DigitsOf
  <1> QED
    BY <1>1, <1>2, <1>7
-----------------------------------------------------------------------------
(* So many times half the generator.                                         *)
Halves(x) == (x * Half) % N

(* The half is a scalar, and twice the half is one.                          *)
LEMMA HalfIs ==
    ASSUME CombAssumption
    PROVE  N \in Nat \ {0} /\ Half \in 1 .. N - 1 /\ 2 * Half = N + 1
  <1>1. N \in Nat /\ N > 2 /\ N % 2 = 1
    BY GroupAssumption DEF CombAssumption
  <1>2. Half \in Int /\ (N + 1) % 2 = 0 /\ N + 1 = 2 * Half + ((N + 1) % 2)
    <2> HIDE DEF CombAssumption
    <2>1. N + 1 \in Int
      BY <1>1
    <2>2. N + 1 = 2 * ((N + 1) \div 2) + ((N + 1) % 2) /\ (N + 1) \div 2 \in Int
      <3> DEFINE m == N + 1  two == 2
      <3>1. m \in Int /\ two \in Nat \ {0}
        BY <2>1
      <3> HIDE DEF m, two
      <3>2. m = two * (m \div two) + (m % two) /\ m \div two \in Int
        BY <3>1, IntDivided
      <3> QED
        BY <3>2 DEF m, two
    <2>3. (N + 1) % 2 = 0
      BY <1>1
    <2> QED
      BY <2>2, <2>3 DEF Half
  <1> QED
    BY <1>1, <1>2

(* What follows of a sum: remainders add, and are reduced again.             *)
LEMMA RemaindersAdd ==
    ASSUME NEW x \in Int, NEW y \in Int, NEW n \in Nat \ {0}
    PROVE  ((x % n) + (y % n)) % n = (x + y) % n
  <1> DEFINE q == x \div n  e == x % n  r == y \div n  f == y % n
             s == (e + f) \div n  g == (e + f) % n  t == q + r + s
  <1>1. q \in Int /\ e \in 0 .. n - 1 /\ x = n * q + e
    BY IntDivided
  <1>2. r \in Int /\ f \in 0 .. n - 1 /\ y = n * r + f
    BY IntDivided
  <1> HIDE DEF q, e, r, f
  <1>3. s \in Int /\ g \in 0 .. n - 1 /\ e + f = n * s + g
    <2>1. e + f \in Int
      BY <1>1, <1>2
    <2> QED
      BY <2>1, IntDivided
  <1> HIDE DEF s, g
  <1>4. x + y = n * t + g
    <2>1. n * q + n * r + n * s = n * t
      BY <1>1, <1>2, <1>3, Z3
    <2>2. n * q \in Int /\ n * r \in Int /\ n * s \in Int
      BY <1>1, <1>2, <1>3, Z3
    <2> HIDE DEF t
    <2> QED
      BY <1>1, <1>2, <1>3, <2>1, <2>2
  <1>5. t \in Int /\ x + y \in Int
    BY <1>1, <1>2, <1>3
  <1> HIDE DEF t
  <1>6. (x + y) % n = g
    BY <1>3, <1>4, <1>5, OneRemainder
  <1> QED
    BY <1>6 DEF g, e, f

(* It turns sums of numbers into sums of points.                             *)
LEMMA HalvesAdd ==
    ASSUME CombAssumption, NEW x \in Int, NEW y \in Int
    PROVE  /\ Halves(x) \in Scalars
           /\ gej_add(Halves(x), Halves(y)) = Halves(x + y)
  <1> DEFINE a == x * Half  b == y * Half
  <1>1. N \in Nat \ {0} /\ Half \in Int
    BY HalfIs
  <1>2. a \in Int /\ b \in Int /\ a + b = (x + y) * Half
    BY <1>1, Z3
  <1> HIDE DEF a, b
  <1>3. ((a % N) + (b % N)) % N = (a + b) % N
    BY ONLY <1>1, <1>2, RemaindersAdd, ZenonT(30)
  <1>4. a % N \in Scalars
    BY <1>1, <1>2, IntDivided DEF Scalars
  <1>5. Halves(x) = a % N /\ Halves(y) = b % N /\ Halves(x + y) = (a + b) % N
    BY <1>2 DEF Halves, a, b
  <1> QED
    BY <1>3, <1>4, <1>5 DEF gej_add, scalar_add

(* Nothing, and an even number of halves.                                    *)
LEMMA HalvesWhole ==
    ASSUME CombAssumption
    PROVE  /\ Halves(0) = 0 /\ Halves(1) = Half
           /\ \A x \in Int : Halves(2 * x) = x % N
  <1>1. N \in Nat \ {0} /\ Half \in 1 .. N - 1 /\ 2 * Half = N + 1
    BY HalfIs
  <1>2. Halves(0) = 0
    <2>1. 0 * Half = N * 0 + 0 /\ 0 * Half = 0 /\ 0 \in 0 .. N - 1
      BY <1>1
    <2>2. 0 % N = 0
      BY <1>1, <2>1, OneRemainder
    <2> QED
      BY <2>1, <2>2 DEF Halves
  <1>3. Halves(1) = Half
    <2>1. 1 * Half = N * 0 + Half /\ 1 * Half = Half /\ Half \in 0 .. N - 1 /\ Half \in Int
      BY <1>1
    <2>2. Half % N = Half
      BY <1>1, <2>1, OneRemainder
    <2> QED
      BY <2>1, <2>2 DEF Halves
  <1>4. ASSUME NEW x \in Int PROVE Halves(2 * x) = x % N
    <2> DEFINE q == x \div N  e == x % N  t == x + q  y == (2 * x) * Half
    <2>1. q \in Int /\ e \in 0 .. N - 1 /\ x = N * q + e
      BY <1>1, IntDivided
    <2> HIDE DEF q, e
    <2>2. y = x * (2 * Half)
      BY <1>1, Z3
    <2>3. y = x * N + x
      BY <1>1, <2>2, Z3
    <2>4. y = N * t + e
      <3>1. x * N + N * q = N * t
        BY <1>1, <2>1, Z3
      <3>2. x * N \in Int /\ N * q \in Int
        BY <1>1, <2>1, Z3
      <3> HIDE DEF t, y
      <3> QED
        BY <2>1, <2>3, <3>1, <3>2
    <2>5. t \in Int /\ y \in Int
      BY <1>1, <2>1, <2>3, Z3
    <2> HIDE DEF t, y
    <2>6. y % N = e
      BY <1>1, <2>1, <2>4, <2>5, OneRemainder
    <2> QED
      BY <2>6 DEF Halves, y, e
  <1> QED
    BY <1>2, <1>3, <1>4

(* The opposite number gives the opposite point.                             *)
LEMMA HalvesNegate ==
    ASSUME CombAssumption, NEW x \in Int
    PROVE  ge_neg(Halves(x)) = Halves(-x)
  <1> DEFINE p == Halves(x)  m == Halves(-x)
  <1>1. -x \in Int /\ x + (-x) = 0
    OBVIOUS
  <1>2. p \in Scalars /\ m \in Scalars /\ scalar_add(p, m) = Halves(x + (-x))
    BY <1>1, HalvesAdd DEF gej_add
  <1>3. scalar_add(p, m) = 0
    BY <1>1, <1>2, HalvesWhole
  <1> HIDE DEF p, m
  <1>4. scalar_negate(p) \in Scalars /\ scalar_negate(scalar_negate(p)) = p
    BY <1>2, NegateIs, NegateTwice
  <1>5. scalar_negate(p) = m
    BY <1>2, <1>3, <1>4, NegateCancels
  <1> QED
    BY <1>5 DEF ge_neg, p, m
-----------------------------------------------------------------------------
(* The sum of the same values is the same.                                   *)
LEMMA SumSame ==
    ASSUME NEW f, NEW g, NEW n \in Nat, \A i \in 0 .. n - 1 : f[i] = g[i]
    PROVE  SumOf(f, n) = SumOf(g, n)
  <1> DEFINE S == {k \in Nat : k <= n => SumOf(f, k) = SumOf(g, k)}
  <1>1. 0 \in S
    BY SumIs
  <1>2. ASSUME NEW k \in Nat, k \in S PROVE k + 1 \in S
    <2> SUFFICES ASSUME k + 1 <= n PROVE SumOf(f, k + 1) = SumOf(g, k + 1)
      OBVIOUS
    <2>1. SumOf(f, k + 1) = SumOf(f, k) + f[k] /\ SumOf(g, k + 1) = SumOf(g, k) + g[k]
      BY SumIs
    <2>2. f[k] = g[k] /\ SumOf(f, k) = SumOf(g, k)
      BY <1>2
    <2> QED
      BY <2>1, <2>2
  <1> HIDE DEF S
  <1>3. n \in S
    BY <1>1, <1>2, Induct
  <1> QED
    BY <1>3 DEF S

(* The sizes of the comb.                                                    *)
LEMMA CombSizes ==
    ASSUME CombAssumption
    PROVE  /\ COMB_BLOCKS \in Nat \ {0} /\ COMB_TEETH \in Nat \ {0} /\ COMB_RANGE \in Nat \ {0}
           /\ COMB_BLOCKS * COMB_TEETH \in Nat \ {0} /\ COMB_SPACING \in Nat \ {0}
           /\ COMB_BITS \in Nat \ {0} /\ COMB_BITS >= COMB_RANGE
  <1> DEFINE m == COMB_BLOCKS * COMB_TEETH  x == COMB_RANGE + m - 1  s == x \div m  e == x % m
  <1>1. COMB_BLOCKS \in Nat \ {0} /\ COMB_TEETH \in Nat \ {0} /\ COMB_RANGE \in Nat \ {0}
    BY DEF CombAssumption
  <1>2. m \in Nat \ {0}
    BY <1>1, Z3
  <1> HIDE DEF m
  <1>3. x \in Nat /\ x = COMB_RANGE + m - 1 /\ x >= m
    BY <1>1, <1>2
  <1> HIDE DEF x
  <1>4. s \in Nat /\ e \in 0 .. m - 1 /\ x = m * s + e
    BY <1>2, <1>3, DivIs
  <1> HIDE DEF s, e
  <1>5. m * s \in Nat /\ m * s >= COMB_RANGE
    <2>1. m * s \in Nat
      BY <1>2, <1>4, Z3
    <2> QED
      BY <1>1, <1>2, <1>3, <1>4, <2>1
  <1>6. s # 0
    <2>1. m * 0 = 0
      BY <1>2
    <2> QED
      BY <1>1, <1>5, <2>1
  <1>7. COMB_SPACING = s /\ COMB_BITS = m * s
    BY DEF COMB_SPACING, COMB_BITS, s, x, m
  <1> QED
    BY <1>1, <1>2, <1>4, <1>5, <1>6, <1>7 DEF m

(* Where a tooth is.                                                         *)
LEMMA PositionIs ==
    ASSUME CombAssumption, NEW b \in Nat, NEW t \in Nat
    PROVE  /\ b * COMB_TEETH \in Nat /\ Position(b, t) \in Nat
           /\ Position(b, t) = (b * COMB_TEETH + t) * COMB_SPACING
  <1>1. COMB_TEETH \in Nat /\ COMB_SPACING \in Nat
    BY CombSizes
  <1>2. b * COMB_TEETH \in Nat
    BY <1>1, Z3
  <1> DEFINE j == b * COMB_TEETH + t
  <1>3. j \in Nat
    BY <1>2
  <1> HIDE DEF j
  <1>4. j * COMB_SPACING \in Nat
    BY <1>1, <1>3, Z3
  <1> QED
    BY <1>2, <1>4 DEF Position, j

(* What the teeth of a block stand for, and those that are marked.           *)
Teeth(b) == [u \in Nat |-> Pow2[Position(b, u)]]
Marked(d, w) == [u \in Nat |-> d[u] * w[u]]

(* They are numbers.                                                         *)
LEMMA TeethAre ==
    ASSUME CombAssumption, NEW b \in Nat
    PROVE  /\ IsTerms(Teeth(b))
           /\ \A u \in Nat : Teeth(b)[u] = Pow2[Position(b, u)] /\ Teeth(b)[u] \in Nat
  <1>1. ASSUME NEW u \in Nat
        PROVE  Teeth(b)[u] = Pow2[Position(b, u)] /\ Teeth(b)[u] \in Nat
    <2>1. Position(b, u) \in Nat
      BY PositionIs
    <2> QED
      BY <2>1, Powers DEF Teeth
  <1> QED
    BY <1>1 DEF IsTerms

(* So are their marked ones.                                                 *)
LEMMA MarkedAre ==
    ASSUME NEW d, IsDigits(d), NEW w, IsTerms(w)
    PROVE  /\ IsTerms(Marked(d, w))
           /\ \A u \in Nat : /\ Marked(d, w)[u] = d[u] * w[u]
                             /\ Marked(d, w)[u] = IF d[u] = 0 THEN 0 ELSE w[u]
  <1> SUFFICES ASSUME NEW u \in Nat
               PROVE  /\ Marked(d, w)[u] = d[u] * w[u] /\ Marked(d, w)[u] \in Int
                      /\ Marked(d, w)[u] = IF d[u] = 0 THEN 0 ELSE w[u]
    BY DEF IsTerms
  <1> DEFINE x == d[u]  y == w[u]
  <1>1. x \in {0, 1} /\ y \in Int /\ Marked(d, w)[u] = x * y
    BY DEF IsDigits, IsTerms, Marked
  <1> HIDE DEF x, y
  <1>2. 0 * y = 0 /\ 1 * y = y
    BY <1>1
  <1> QED
    BY <1>1, <1>2 DEF x, y

(* The points that the table is made of.                                     *)
LEMMA HalfDoubledIs ==
    ASSUME CombAssumption, NEW b \in Nat, NEW t \in Nat
    PROVE  /\ HalfDoubled(Position(b, t)) = Halves(Teeth(b)[t])
           /\ HalfDoubled(Position(b, t) + 1) = Halves(2 * Teeth(b)[t])
  <1>1. Position(b, t) \in Nat
    BY PositionIs
  <1>2. Pow2[Position(b, t) + 1] = 2 * Pow2[Position(b, t)]
    BY <1>1, Powers
  <1> QED
    BY <1>2 DEF HalfDoubled, Halves, scalar_mul, Teeth

(* The sum of all teeth of a block, as points and as a number.               *)
AllTeeth(b) ==
    Total(Infinity, [t \in 1 .. COMB_TEETH |-> HalfDoubled(Position(b, t - 1))], COMB_TEETH)

(* They agree.                                                               *)
LEMMA AllTeethAre ==
    ASSUME CombAssumption, NEW b \in Nat
    PROVE  AllTeeth(b) = Halves(SumOf(Teeth(b), COMB_TEETH))
  <1> DEFINE term == [t \in 1 .. COMB_TEETH |-> HalfDoubled(Position(b, t - 1))]
             w == Teeth(b)
             S == {k \in Nat : k <= COMB_TEETH => Total(Infinity, term, k) = Halves(SumOf(w, k))}
  <1>1. COMB_TEETH \in Nat
    BY CombSizes
  <1>2. IsTerms(w)
    BY TeethAre
  <1>3. 0 \in S
    BY TotalIs, SumIs, HalvesWhole DEF Infinity
  <1>4. ASSUME NEW k \in Nat, k \in S PROVE k + 1 \in S
    <2> SUFFICES ASSUME k + 1 <= COMB_TEETH
                 PROVE  Total(Infinity, term, k + 1) = Halves(SumOf(w, k + 1))
      OBVIOUS
    <2>1. term[k + 1] = Halves(w[k])
      <3>1. k + 1 \in 1 .. COMB_TEETH /\ (k + 1) - 1 = k
        BY <1>1
      <3> QED
        BY <3>1, HalfDoubledIs
    <2> HIDE DEF term
    <2>2. Total(Infinity, term, k + 1) = scalar_add(Total(Infinity, term, k), term[k + 1])
      <3>1. k \in Nat
        OBVIOUS
      <3> QED
        BY ONLY <3>1, TotalIs
    <2>3. Total(Infinity, term, k) = Halves(SumOf(w, k))
      BY <1>1, <1>4
    <2>4. SumOf(w, k + 1) = SumOf(w, k) + w[k] /\ SumOf(w, k) \in Int /\ w[k] \in Int
      BY <1>2, SumIs, SumType DEF IsTerms
    <2>5. gej_add(Halves(SumOf(w, k)), Halves(w[k])) = Halves(SumOf(w, k) + w[k])
      BY <2>4, HalvesAdd
    <2> QED
      BY <2>1, <2>2, <2>3, <2>4, <2>5 DEF gej_add
  <1> HIDE DEF S
  <1>5. COMB_TEETH \in S
    BY <1>1, <1>3, <1>4, Induct
  <1> QED
    BY <1>1, <1>5 DEF S, AllTeeth
-----------------------------------------------------------------------------
(* The rounds that double a block of the table.                              *)
IsRounds(vs, b, n) ==
    vs = [t \in 0 .. n |->
            [k \in 0 .. Pow2[t] - 1 |->
                IF t = 0 THEN ge_neg(AllTeeth(b))
                ELSE IF k < Pow2[t - 1] THEN vs[t - 1][k]
                ELSE gej_add(vs[t - 1][k - Pow2[t - 1]], HalfDoubled(Position(b, t - 1) + 1))]]

(* There are such rounds.                                                    *)
LEMMA RoundsExist ==
    ASSUME NEW b, NEW n \in Nat
    PROVE  \E vs : IsRounds(vs, b, n)
  <1> DEFINE S == {k \in Nat : \E vs : IsRounds(vs, b, k)}
  <1>1. 0 \in S
    <2> DEFINE vs == [t \in 0 .. 0 |-> [k \in 0 .. Pow2[t] - 1 |-> ge_neg(AllTeeth(b))]]
    <2>1. IsRounds(vs, b, 0)
      BY DEF IsRounds
    <2> QED
      BY <2>1
  <1>2. ASSUME NEW k \in Nat, k \in S PROVE k + 1 \in S
    <2>1. PICK vs : IsRounds(vs, b, k)
      BY <1>2
    <2> DEFINE last == [i \in 0 .. Pow2[k + 1] - 1 |->
                          IF i < Pow2[k] THEN vs[k][i]
                          ELSE gej_add(vs[k][i - Pow2[k]], HalfDoubled(Position(b, k) + 1))]
               longer == [t \in 0 .. k + 1 |-> IF t <= k THEN vs[t] ELSE last]
    <2>2. IsRounds(longer, b, k + 1)
      <3> DEFINE row(t) == [i \in 0 .. Pow2[t] - 1 |->
                    IF t = 0 THEN ge_neg(AllTeeth(b))
                    ELSE IF i < Pow2[t - 1] THEN longer[t - 1][i]
                    ELSE gej_add(longer[t - 1][i - Pow2[t - 1]],
                                 HalfDoubled(Position(b, t - 1) + 1))]
      <3>1. ASSUME NEW t \in 0 .. k PROVE longer[t] = row(t)
        <4>1. vs[t] = [i \in 0 .. Pow2[t] - 1 |->
                    IF t = 0 THEN ge_neg(AllTeeth(b))
                    ELSE IF i < Pow2[t - 1] THEN vs[t - 1][i]
                    ELSE gej_add(vs[t - 1][i - Pow2[t - 1]],
                                 HalfDoubled(Position(b, t - 1) + 1))]
          BY <2>1 DEF IsRounds
        <4>2. longer[t] = vs[t] /\ (t # 0 => longer[t - 1] = vs[t - 1])
          OBVIOUS
        <4> HIDE DEF longer
        <4> QED
          BY <4>1, <4>2
      <3>2. longer[k + 1] = row(k + 1)
        <4>1. longer[k + 1] = last /\ longer[k] = vs[k] /\ (k + 1) - 1 = k /\ k + 1 # 0
          OBVIOUS
        <4> HIDE DEF longer
        <4> QED
          BY <4>1
      <3>3. longer = [t \in 0 .. k + 1 |-> longer[t]]
        OBVIOUS
      <3>4. \A t \in 0 .. k + 1 : t \in 0 .. k \/ t = k + 1
        OBVIOUS
      <3> HIDE DEF longer
      <3>5. \A t \in 0 .. k + 1 : longer[t] = row(t)
        BY <3>1, <3>2, <3>4
      <3>6. longer = [t \in 0 .. k + 1 |-> row(t)]
        <4> HIDE DEF row
        <4> QED
          BY <3>3, <3>5
      <3> QED
        BY <3>6 DEF IsRounds
    <2> QED
      BY <2>2
  <1> HIDE DEF S
  <1>3. Nat \subseteq S
    BY <1>1, <1>2, Induct
  <1> QED
    BY <1>3 DEF S

(* What entry k is the table for, when t teeth may be added.                 *)
Entry(b, k, t) ==
    Halves(2 * SumOf(Marked(BitsOf(k), Teeth(b)), t) - SumOf(Teeth(b), COMB_TEETH))

(* The bits of a number, with the last below those of the round before.      *)
LEMMA LastBit ==
    ASSUME NEW k \in Nat, NEW t \in Nat, k < Pow2[t + 1]
    PROVE  /\ k < Pow2[t] => Bit(k, t) = 0
           /\ k >= Pow2[t] => /\ Bit(k, t) = 1 /\ k - Pow2[t] \in 0 .. Pow2[t] - 1
                              /\ \A u \in 0 .. t - 1 : Bit(k - Pow2[t], u) = Bit(k, u)
  <1> DEFINE p == Pow2[t]
  <1>1. p \in Nat \ {0} /\ Pow2[t + 1] = 2 * p
    BY Powers
  <1>2. ASSUME k < p PROVE Bit(k, t) = 0
    <2>1. Rest(k, t) = 0
      BY <1>2, RestEnds
    <2> QED
      BY <2>1 DEF Rest, Bit
  <1>3. ASSUME k >= p
        PROVE  /\ Bit(k, t) = 1 /\ k - p \in 0 .. p - 1
               /\ \A u \in 0 .. t - 1 : Bit(k - p, u) = Bit(k, u)
    <2> DEFINE j == k - p
    <2>1. j \in 0 .. p - 1 /\ j \in Nat /\ k = j + 1 * p /\ k = p * 1 + j /\ k \in Int
      BY <1>1, <1>3
    <2> HIDE DEF j
    <2>2. k \div p = 1
      <3> HIDE DEF p
      <3> QED
        BY <1>1, <2>1, OneRemainder
    <2>3. Bit(k, t) = 1
      BY <2>2 DEF Bit
    <2>4. ASSUME NEW u \in 0 .. t - 1 PROVE Bit(j, u) = Bit(k, u)
      <3>1. u \in Nat /\ u < t /\ 1 \in Nat
        OBVIOUS
      <3>2. Bit(j + 1 * Pow2[t], u) = Bit(j, u)
        BY <2>1, <3>1, BitBelow
      <3> QED
        BY <2>1, <3>2
    <2> QED
      BY <2>1, <2>3, <2>4 DEF j
  <1> QED
    BY <1>2, <1>3

(* Every entry of every round.                                               *)
LEMMA RoundsAre ==
    ASSUME CombAssumption, NEW b \in Nat, NEW n \in Nat, NEW vs, IsRounds(vs, b, n)
    PROVE  \A t \in 0 .. n : \A k \in 0 .. Pow2[t] - 1 : vs[t][k] = Entry(b, k, t)
  <1> DEFINE w == Teeth(b)
             mask == SumOf(w, COMB_TEETH)
             marks(k) == Marked(BitsOf(k), w)
             S == {t \in Nat : t <= n => \A k \in 0 .. Pow2[t] - 1 : vs[t][k] = Entry(b, k, t)}
  <1>1. IsTerms(w) /\ mask \in Int
    BY TeethAre, CombSizes, SumType
  <1>2. ASSUME NEW k \in Nat
        PROVE  /\ IsTerms(marks(k))
               /\ \A u \in Nat : marks(k)[u] = IF Bit(k, u) = 0 THEN 0 ELSE w[u]
    <2>1. IsDigits(BitsOf(k)) /\ \A u \in Nat : BitsOf(k)[u] = Bit(k, u)
      BY BitIs DEF BitsOf, IsDigits
    <2> QED
      BY <1>1, <2>1, MarkedAre
  <1>3. \A k, t : Entry(b, k, t) = Halves(2 * SumOf(marks(k), t) - mask)
    BY DEF Entry
  <1>4. \A k \in Nat, t \in Nat : SumOf(marks(k), t) \in Int
    BY <1>2, SumType
  <1>5. vs[0] = [k \in 0 .. Pow2[0] - 1 |-> ge_neg(AllTeeth(b))]
    BY DEF IsRounds
  <1> HIDE DEF w, mask, marks
  <1>6. 0 \in S
    <2>1. Pow2[0] = 1
      BY Powers
    <2>2. SumOf(marks(0), 0) = 0
      BY SumIs
    <2>3. Entry(b, 0, 0) = Halves(-mask)
      BY <1>1, <1>3, <2>2
    <2>4. ge_neg(AllTeeth(b)) = Halves(-mask)
      BY <1>1, AllTeethAre, HalvesNegate DEF mask, w
    <2> QED
      BY <1>5, <2>1, <2>3, <2>4
  <1>7. ASSUME NEW t \in Nat, t \in S PROVE t + 1 \in S
    <2> SUFFICES ASSUME t + 1 <= n, NEW k \in 0 .. Pow2[t + 1] - 1
                 PROVE  vs[t + 1][k] = Entry(b, k, t + 1)
      OBVIOUS
    <2> DEFINE p == Pow2[t]
    <2>1. p \in Nat \ {0} /\ Pow2[t + 1] = 2 * p
      BY Powers
    <2>2. \A j \in 0 .. p - 1 : vs[t][j] = Entry(b, j, t)
      BY <1>7
    <2>3. vs[t + 1][k] = IF k < p THEN vs[t][k]
                         ELSE gej_add(vs[t][k - p], HalfDoubled(Position(b, t) + 1))
      <3> DEFINE m == t + 1
      <3>1. m \in 0 .. n /\ m # 0 /\ m - 1 = t
        OBVIOUS
      <3> HIDE DEF m
      <3>2. vs[m] = [i \in 0 .. Pow2[m] - 1 |->
                       IF m = 0 THEN ge_neg(AllTeeth(b))
                       ELSE IF i < Pow2[m - 1] THEN vs[m - 1][i]
                       ELSE gej_add(vs[m - 1][i - Pow2[m - 1]],
                                    HalfDoubled(Position(b, m - 1) + 1))]
        BY <3>1 DEF IsRounds
      <3>3. k \in 0 .. Pow2[m] - 1
        BY DEF m
      <3> QED
        BY <3>1, <3>2, <3>3 DEF m
    <2>4. k \in Nat /\ k < Pow2[t + 1]
      BY <2>1
    <2>5. /\ SumOf(marks(k), t + 1) = SumOf(marks(k), t) + marks(k)[t]
          /\ marks(k)[t] = IF Bit(k, t) = 0 THEN 0 ELSE w[t]
          /\ SumOf(marks(k), t) \in Int /\ w[t] \in Int
      BY <1>1, <1>2, <1>4, <2>4, SumIs DEF IsTerms
    <2> DEFINE x == SumOf(marks(k), t)  y == w[t]
    <2>6. CASE k < p
      <3>1. Bit(k, t) = 0
        BY <2>4, <2>6, LastBit
      <3>2. SumOf(marks(k), t + 1) = x
        BY <2>5, <3>1
      <3>3. Entry(b, k, t + 1) = Entry(b, k, t)
        BY <1>3, <3>2
      <3> QED
        BY <2>1, <2>2, <2>3, <2>4, <2>6, <3>3
    <2>7. CASE k >= p
      <3> DEFINE j == k - p
      <3>1. Bit(k, t) = 1 /\ j \in 0 .. p - 1 /\ \A u \in 0 .. t - 1 : Bit(j, u) = Bit(k, u)
        BY <2>4, <2>7, LastBit
      <3> HIDE DEF j
      <3>2. SumOf(marks(j), t) = x
        <4>1. \A u \in 0 .. t - 1 : marks(j)[u] = marks(k)[u]
          <5>1. j \in Nat
            BY <2>1, <3>1
          <5>2. ASSUME NEW u \in 0 .. t - 1 PROVE marks(j)[u] = marks(k)[u]
            <6>1. u \in Nat /\ Bit(j, u) = Bit(k, u)
              BY <3>1
            <6> QED
              BY <1>2, <2>4, <5>1, <6>1
          <5> QED
            BY <5>2
        <4> QED
          BY <4>1, SumSame
      <3>3. SumOf(marks(k), t + 1) = x + y
        BY <2>5, <3>1
      <3>4. x \in Int /\ y \in Int
        BY <2>5
      <3>5. HalfDoubled(Position(b, t) + 1) = Halves(2 * y)
        BY HalfDoubledIs DEF w
      <3> HIDE DEF x, y
      <3>6. Entry(b, j, t) = Halves(2 * x - mask) /\ Entry(b, k, t + 1) = Halves(2 * (x + y) - mask)
        BY <1>3, <3>2, <3>3
      <3>7. gej_add(Halves(2 * x - mask), Halves(2 * y)) = Halves((2 * x - mask) + 2 * y)
        <4>1. 2 * x - mask \in Int /\ 2 * y \in Int
          BY <1>1, <3>4
        <4> QED
          BY <4>1, HalvesAdd
      <3>8. (2 * x - mask) + 2 * y = 2 * (x + y) - mask
        BY <1>1, <3>4
      <3>9. vs[t + 1][k] = gej_add(vs[t][j], HalfDoubled(Position(b, t) + 1))
        BY <2>1, <2>3, <2>4, <2>7 DEF j
      <3> QED
        BY <2>2, <3>1, <3>5, <3>6, <3>7, <3>8, <3>9
    <2> QED
      BY <2>1, <2>4, <2>6, <2>7
  <1> HIDE DEF S
  <1>8. Nat \subseteq S
    BY <1>6, <1>7, Induct
  <1> QED
    BY <1>8 DEF S
(* What is in the table.                                                     *)
LEMMA TableIs ==
    ASSUME CombAssumption, NEW b \in 0 .. COMB_BLOCKS - 1, NEW k \in Nat,
           k < Pow2[COMB_TEETH - 1]
    PROVE  prec_table[b][k] = Entry(b, k, COMB_TEETH - 1)
  <1> DEFINE n == COMB_TEETH - 1
             vs == CHOOSE f : IsRounds(f, b, n)
  <1>1. n \in Nat /\ b \in Nat
    BY CombSizes
  <1>2. BlockTable(b) = vs[n]
    BY DEF BlockTable, IsRounds, AllTeeth
  <1>3. IsRounds(vs, b, n)
    <2> HIDE DEF n
    <2> QED
      BY <1>1, RoundsExist
  <1> HIDE DEF n, vs
  <1>4. k \in 0 .. Pow2[n] - 1 /\ n \in 0 .. n
    <2>1. Pow2[n] \in Nat /\ k < Pow2[n]
      BY <1>1, Powers DEF n
    <2> QED
      BY <1>1, <2>1
  <1>5. vs[n][k] = Entry(b, k, n)
    BY <1>1, <1>3, <1>4, RoundsAre
  <1>6. prec_table[b] = BlockTable(b)
    BY DEF prec_table
  <1> QED
    BY <1>2, <1>5, <1>6 DEF n

(* The top bit is the one that half of a number is told by.                  *)
LEMMA TopBit ==
    ASSUME NEW k \in Nat, NEW t \in Nat, k < Pow2[t + 1]
    PROVE  Bit(k, t) = 0 <=> k < Pow2[t]
  <1>1. k < Pow2[t] \/ k >= Pow2[t]
    BY Powers
  <1> QED
    BY <1>1, LastBit

(* With the table all signs are found: a tooth is added if its bit is set    *)
(* and subtracted if not.                                                    *)
LEMMA LookupIs ==
    ASSUME CombAssumption, NEW b \in 0 .. COMB_BLOCKS - 1,
           NEW bits \in Nat, bits < Pow2[COMB_TEETH]
    PROVE  Lookup(b, bits) = Entry(b, bits, COMB_TEETH)
  <1> DEFINE n == COMB_TEETH - 1
             w == Teeth(b)
             mask == SumOf(w, COMB_TEETH)
             marks(k) == Marked(BitsOf(k), w)
             flip == Pow2[COMB_TEETH] - 1 - bits
  <1>1. n \in Nat /\ b \in Nat /\ COMB_TEETH = n + 1 /\ COMB_TEETH \in Nat
    BY CombSizes
  <1>2. IsTerms(w) /\ mask \in Int
    BY <1>1, TeethAre, SumType
  <1>3. ASSUME NEW k \in Nat
        PROVE  /\ IsTerms(marks(k))
               /\ \A u \in Nat : marks(k)[u] = Bit(k, u) * w[u]
               /\ \A u \in Nat : Bit(k, u) = 0 => marks(k)[u] = 0
    <2>1. IsDigits(BitsOf(k)) /\ \A u \in Nat : BitsOf(k)[u] = Bit(k, u)
      BY BitIs DEF BitsOf, IsDigits
    <2> QED
      BY <1>2, <2>1, MarkedAre
  <1>4. \A k, t : Entry(b, k, t) = Halves(2 * SumOf(marks(k), t) - mask)
    BY DEF Entry
  <1>5. flip \in 0 .. Pow2[COMB_TEETH] - 1
        /\ \A u \in 0 .. COMB_TEETH - 1 : Bit(flip, u) = 1 - Bit(bits, u)
    BY <1>1, Flipped
  <1>6. Lookup(b, bits) = IF Bit(bits, n) = 1 THEN ge_neg(prec_table[b][flip])
                          ELSE prec_table[b][bits]
    BY DEF Lookup
  <1>7. Pow2[COMB_TEETH] \in Nat /\ Pow2[n] \in Nat /\ Pow2[n + 1] = Pow2[COMB_TEETH]
    BY <1>1, Powers
  <1>8. Bit(bits, n) \in {0, 1}
    BY <1>1, BitIs
  <1> HIDE DEF n, w, mask, marks, flip
  (* An entry that is in the table is right for the last tooth too.          *)
  <1>9. ASSUME NEW k \in Nat, k < Pow2[COMB_TEETH], Bit(k, n) = 0
        PROVE  prec_table[b][k] = Entry(b, k, COMB_TEETH)
    <2>1. k < Pow2[n]
      BY <1>1, <1>7, <1>9, TopBit
    <2>2. prec_table[b][k] = Entry(b, k, n)
      BY <2>1, TableIs DEF n
    <2>3. SumOf(marks(k), n + 1) = SumOf(marks(k), n) + marks(k)[n] /\ marks(k)[n] = 0
      BY <1>1, <1>3, <1>9, SumIs
    <2>4. SumOf(marks(k), n) \in Int
      BY <1>1, <1>3, SumType
    <2>5. SumOf(marks(k), COMB_TEETH) = SumOf(marks(k), n)
      BY <1>1, <2>3, <2>4
    <2> QED
      BY <1>4, <2>2, <2>5
  <1>10. CASE Bit(bits, n) = 0
    BY <1>6, <1>9, <1>10
  <1>11. CASE Bit(bits, n) = 1
    <2>1. flip \in Nat /\ flip < Pow2[COMB_TEETH]
      BY <1>5, <1>7
    <2>2. Bit(flip, n) = 0
      <3>1. n \in 0 .. COMB_TEETH - 1
        BY <1>1
      <3> QED
        BY <1>5, <1>11, <3>1
    <2>3. prec_table[b][flip] = Entry(b, flip, COMB_TEETH)
      BY <1>9, <2>1, <2>2
    <2> DEFINE x == SumOf(marks(bits), COMB_TEETH)
               y == SumOf(marks(flip), COMB_TEETH)
    <2>4. y = mask - x /\ x \in Int /\ y \in Int
      <3>1. IsTerms(marks(bits)) /\ IsTerms(marks(flip))
        BY <1>3, <2>1
      <3>2. x \in Int /\ y \in Int
        BY <1>1, <3>1, SumType
      <3>3. ASSUME NEW u \in 0 .. COMB_TEETH - 1
            PROVE  marks(flip)[u] = (-1) * marks(bits)[u] + w[u]
        <4> DEFINE c == Bit(bits, u)  d == Bit(flip, u)  v == w[u]
        <4>1. u \in Nat
          BY <1>1
        <4>2. c \in {0, 1} /\ d = 1 - c /\ v \in Int
          BY <1>2, <1>5, <4>1, BitIs DEF IsTerms
        <4>3. marks(bits)[u] = c * v /\ marks(flip)[u] = d * v
          BY <1>3, <2>1, <4>1
        <4> HIDE DEF c, d, v
        <4>4. 0 * v = 0 /\ 1 * v = v
          BY <4>2
        <4>5. (c = 0 /\ d = 1) \/ (c = 1 /\ d = 0)
          BY <4>2
        <4>6. d * v = (-1) * (c * v) + v
          <5>1. CASE c = 0 /\ d = 1
            BY <4>2, <4>4, <5>1
          <5>2. CASE c = 1 /\ d = 0
            BY <4>2, <4>4, <5>2
          <5> QED
            BY <4>5, <5>1, <5>2
        <4> QED
          BY <4>3, <4>6 DEF v
      <3>4. y = (-1) * x + SumOf(w, COMB_TEETH)
        <4>1. -1 \in Int
          OBVIOUS
        <4> QED
          BY <1>1, <1>2, <3>1, <3>3, <4>1, SumLinear
      <3> HIDE DEF x, y
      <3> QED
        BY <1>2, <3>2, <3>4 DEF mask
    <2>5. Entry(b, flip, COMB_TEETH) = Halves(2 * y - mask)
          /\ Entry(b, bits, COMB_TEETH) = Halves(2 * x - mask)
      BY <1>4
    <2> HIDE DEF x, y
    <2>6. ge_neg(Halves(2 * y - mask)) = Halves(-(2 * y - mask))
      <3>1. 2 * y - mask \in Int
        BY <1>2, <2>4
      <3> QED
        BY <3>1, HalvesNegate
    <2>7. -(2 * y - mask) = 2 * x - mask
      BY <1>2, <2>4
    <2> QED
      BY <1>6, <1>11, <2>3, <2>5, <2>6, <2>7
  <1> QED
    BY <1>8, <1>10, <1>11
-----------------------------------------------------------------------------
(* The bits of d at the teeth of a block, under the comb.                    *)
Under(d, b, off) == [u \in Nat |-> Bit(d, Position(b, u) + off)]

(* What is looked up for a block has them for its bits.                      *)
LEMMA ToothBitsAre ==
    ASSUME CombAssumption, NEW d \in Nat, NEW b \in Nat, NEW off \in Nat
    PROVE  /\ IsDigits(Under(d, b, off))
           /\ ToothBits(d, b, off) = ValueOf(Under(d, b, off), COMB_TEETH)
  <1> DEFINE f == Under(d, b, off)
             w == Weighed(f)
             P(s) == s = [t \in 0 .. COMB_TEETH |->
                            IF t = 0 THEN 0
                            ELSE s[t - 1] + Bit(d, Position(b, t - 1) + off) * Pow2[t - 1]]
             bits == CHOOSE s : P(s)
  <1>1. COMB_TEETH \in Nat
    BY CombSizes
  <1>2. ASSUME NEW u \in Nat
        PROVE  f[u] \in {0, 1} /\ w[u] = Bit(d, Position(b, u) + off) * Pow2[u]
    <2>1. Position(b, u) + off \in Nat
      <3>1. Position(b, u) \in Nat
        BY PositionIs
      <3> QED
        BY <3>1
    <2>2. f[u] = Bit(d, Position(b, u) + off) /\ w[u] = f[u] * Pow2[u]
      BY DEF Under, Weighed
    <2> QED
      BY <2>1, <2>2, BitIs
  <1>3. ToothBits(d, b, off) = bits[COMB_TEETH]
    BY DEF ToothBits
  <1> HIDE DEF w, f
  <1>4. \A s : P(s) <=> IsSum(s, w, COMB_TEETH)
    <2>1. ASSUME NEW s
          PROVE  [t \in 0 .. COMB_TEETH |->
                    IF t = 0 THEN 0
                    ELSE s[t - 1] + Bit(d, Position(b, t - 1) + off) * Pow2[t - 1]]
                 = [i \in 0 .. COMB_TEETH |-> IF i = 0 THEN 0 ELSE s[i - 1] + w[i - 1]]
      <3>1. \A t \in 0 .. COMB_TEETH : t # 0 =>
              w[t - 1] = Bit(d, Position(b, t - 1) + off) * Pow2[t - 1]
        BY <1>1, <1>2
      <3> QED
        BY <3>1
    <2> QED
      BY <2>1 DEF IsSum
  <1>5. PICK sum : IsSum(sum, w, COMB_TEETH)
    BY <1>1, SumExists
  <1> HIDE DEF P
  <1>6. P(bits)
    <2>1. P(sum)
      BY <1>4, <1>5
    <2> QED
      BY <2>1, Zenon
  <1> HIDE DEF bits
  <1>7. IsSum(bits, w, COMB_TEETH)
    BY <1>4, <1>6
  <1> DEFINE other == CHOOSE s : IsSum(s, w, COMB_TEETH)
  <1>8. IsSum(other, w, COMB_TEETH)
    BY <1>5, Zenon
  <1>9. SumOf(w, COMB_TEETH) = other[COMB_TEETH]
    BY DEF SumOf
  <1> HIDE DEF other
  <1>10. bits[COMB_TEETH] = other[COMB_TEETH]
    BY <1>1, <1>7, <1>8, SumAgrees
  <1>11. IsDigits(f)
    BY <1>2 DEF IsDigits
  <1> QED
    BY <1>3, <1>9, <1>10, <1>11 DEF ValueOf, w, f

(* What all teeth stand for, and the bits of d under them.                   *)
Weights == [j \in Nat |-> Pow2[j * COMB_SPACING]]
Column(d, off) == [j \in Nat |-> Bit(d, j * COMB_SPACING + off)]

(* They are numbers.                                                         *)
LEMMA ColumnIs ==
    ASSUME CombAssumption, NEW d \in Nat, NEW off \in Nat
    PROVE  /\ IsTerms(Weights) /\ IsDigits(Column(d, off))
           /\ IsTerms(Marked(Column(d, off), Weights))
           /\ \A j \in Nat : /\ j * COMB_SPACING \in Nat /\ j * COMB_SPACING + off \in Nat
                             /\ Weights[j] = Pow2[j * COMB_SPACING] /\ Weights[j] \in Nat
                             /\ Column(d, off)[j] = Bit(d, j * COMB_SPACING + off)
                             /\ Marked(Column(d, off), Weights)[j] = Column(d, off)[j] * Weights[j]
  <1>1. COMB_SPACING \in Nat
    BY CombSizes
  <1>2. ASSUME NEW j \in Nat
        PROVE  /\ j * COMB_SPACING \in Nat /\ j * COMB_SPACING + off \in Nat
               /\ Weights[j] = Pow2[j * COMB_SPACING] /\ Weights[j] \in Nat
               /\ Column(d, off)[j] = Bit(d, j * COMB_SPACING + off)
               /\ Column(d, off)[j] \in {0, 1}
    <2>1. j * COMB_SPACING \in Nat
      BY <1>1, Z3
    <2>2. j * COMB_SPACING + off \in Nat
      BY <2>1
    <2>3. Weights[j] = Pow2[j * COMB_SPACING] /\ Weights[j] \in Nat
      BY <2>1, Powers DEF Weights
    <2>4. Column(d, off)[j] = Bit(d, j * COMB_SPACING + off)
      BY DEF Column
    <2>5. Bit(d, j * COMB_SPACING + off) \in {0, 1}
      BY <2>2, BitIs
    <2> QED
      BY <2>1, <2>2, <2>3, <2>4, <2>5
  <1>3. IsTerms(Weights) /\ IsDigits(Column(d, off))
    BY <1>2 DEF IsTerms, IsDigits
  <1>4. /\ IsTerms(Marked(Column(d, off), Weights))
        /\ \A j \in Nat : Marked(Column(d, off), Weights)[j] = Column(d, off)[j] * Weights[j]
    BY <1>3, MarkedAre
  <1> QED
    BY <1>2, <1>3, <1>4

(* What is added for a block is what its teeth add and subtract.             *)
LEMMA BlockAdds ==
    ASSUME CombAssumption, NEW d \in Nat, NEW off \in Nat, NEW b \in 0 .. COMB_BLOCKS - 1
    PROVE  LET from == b * COMB_TEETH
               to == b * COMB_TEETH + COMB_TEETH
               marks == Marked(Column(d, off), Weights)
           IN  /\ from \in Nat /\ to \in Nat
               /\ Lookup(b, ToothBits(d, b, off))
                      = Halves(2 * (SumOf(marks, to) - SumOf(marks, from))
                                 - (SumOf(Weights, to) - SumOf(Weights, from)))
  <1> DEFINE from == b * COMB_TEETH
             to == from + COMB_TEETH
             marks == Marked(Column(d, off), Weights)
             w == Teeth(b)
             f == Under(d, b, off)
             bits == ToothBits(d, b, off)
             picked == Marked(BitsOf(bits), w)
  <1>15. ASSUME NEW i \in Nat
         PROVE  /\ Column(d, off)[i] = Bit(d, i * COMB_SPACING + off)
                /\ marks[i] = Column(d, off)[i] * Weights[i]
    <2>1. marks[i] = Column(d, off)[i] * Weights[i]
      BY ColumnIs
    <2>2. Column(d, off)[i] = Bit(d, i * COMB_SPACING + off)
      BY DEF Column
    <2> QED
      BY <2>1, <2>2
  <1>1. COMB_TEETH \in Nat /\ b \in Nat /\ COMB_SPACING \in Nat
    BY CombSizes
  <1>2. from \in Nat
    BY <1>1, PositionIs
  <1> HIDE DEF from
  <1>3. IsDigits(f) /\ bits = ValueOf(f, COMB_TEETH)
    BY <1>1, ToothBitsAre
  <1>4. bits \in 0 .. Pow2[COMB_TEETH] - 1 /\ \A u \in 0 .. COMB_TEETH - 1 : Bit(bits, u) = f[u]
    <2> HIDE DEF bits, f
    <2> QED
      BY <1>1, <1>3, DigitsOf
  <1>5. bits \in Nat /\ bits < Pow2[COMB_TEETH]
    <2>1. Pow2[COMB_TEETH] \in Nat
      BY <1>1, Powers
    <2> HIDE DEF bits
    <2> QED
      BY <1>4, <2>1
  <1>6. Lookup(b, bits) = Halves(2 * SumOf(picked, COMB_TEETH) - SumOf(w, COMB_TEETH))
    BY <1>5, LookupIs DEF Entry
  <1>7. IsTerms(w) /\ IsTerms(Weights) /\ IsTerms(marks)
    BY <1>1, TeethAre, ColumnIs
  <1> HIDE DEF marks
  <1>8. ASSUME NEW u \in 0 .. COMB_TEETH - 1
        PROVE  w[u] = Weights[from + u] /\ picked[u] = marks[from + u]
    <2> DEFINE j == from + u
    <2>1. u \in Nat /\ j \in Nat
      BY <1>1, <1>2
    <2>2. Position(b, u) = j * COMB_SPACING
      BY <1>1, <2>1, PositionIs DEF from
    <2> HIDE DEF j
    <2>3. w[u] = Pow2[Position(b, u)] /\ Weights[j] = Pow2[j * COMB_SPACING]
      <3>1. w[u] = Pow2[Position(b, u)]
        BY <1>1, <2>1, TeethAre
      <3>2. Weights[j] = Pow2[j * COMB_SPACING]
        BY <2>1, ColumnIs
      <3> QED
        BY <3>1, <3>2
    <2>4. f[u] = Bit(d, Position(b, u) + off)
      BY <2>1 DEF Under
    <2>5. Column(d, off)[j] = Bit(d, j * COMB_SPACING + off)
          /\ marks[j] = Column(d, off)[j] * Weights[j]
      BY <1>15, <2>1
    <2> HIDE DEF f, w
    <2>6. picked[u] = BitsOf(bits)[u] * w[u] /\ BitsOf(bits)[u] = Bit(bits, u)
      BY <2>1 DEF Marked, BitsOf
    <2>7. Bit(bits, u) = f[u]
      BY <1>4
    <2> QED
      BY <2>2, <2>3, <2>4, <2>5, <2>6, <2>7 DEF j
  <1> HIDE DEF w, picked
  <1>9. SumOf(Weights, to) = SumOf(Weights, from) + SumOf(w, COMB_TEETH)
    <2>1. \A u \in 0 .. COMB_TEETH - 1 : w[u] = Weights[from + u]
      BY <1>8
    <2>2. IsTerms(Weights) /\ COMB_TEETH \in Nat /\ from \in Nat
      BY <1>1, <1>2, <1>7
    <2> HIDE DEF from
    <2> QED
      BY <2>1, <2>2, SumContinues
  <1>10. SumOf(marks, to) = SumOf(marks, from) + SumOf(picked, COMB_TEETH)
    <2>1. \A u \in 0 .. COMB_TEETH - 1 : picked[u] = marks[from + u]
      BY <1>8
    <2>2. IsTerms(marks)
      BY <1>7
    <2> QED
      BY <1>1, <1>2, <2>1, <2>2, SumContinues
  <1>11. /\ SumOf(Weights, from) \in Int /\ SumOf(marks, from) \in Int /\ to \in Nat
         /\ SumOf(Weights, to) \in Int /\ SumOf(marks, to) \in Int
    BY <1>1, <1>2, <1>7, SumType
  <1>12. SumOf(w, COMB_TEETH) \in Int
    BY <1>1, <1>7, SumType
  <1>13. SumOf(picked, COMB_TEETH) \in Int
    <2>1. IsDigits(BitsOf(bits))
      BY <1>5, BitIs DEF IsDigits, BitsOf
    <2>2. IsTerms(picked)
      BY <1>7, <2>1, MarkedAre DEF picked
    <2> QED
      BY <1>1, <2>2, SumType
  <1>14. 2 * SumOf(picked, COMB_TEETH) - SumOf(w, COMB_TEETH)
           = 2 * (SumOf(marks, to) - SumOf(marks, from)) - (SumOf(Weights, to) - SumOf(Weights, from))
    <2> DEFINE x == SumOf(picked, COMB_TEETH)  y == SumOf(w, COMB_TEETH)
               m == SumOf(marks, from)  v == SumOf(Weights, from)
    <2>1. x \in Int /\ y \in Int /\ m \in Int /\ v \in Int
      BY <1>11, <1>12, <1>13
    <2> HIDE DEF x, y, m, v
    <2>2. SumOf(marks, to) = m + x /\ SumOf(Weights, to) = v + y
      BY <1>9, <1>10 DEF x, y, m, v
    <2>3. 2 * x - y = 2 * ((m + x) - m) - ((v + y) - v)
      BY <2>1
    <2> QED
      BY <2>2, <2>3 DEF x, y, m, v
  <1> QED
    BY <1>2, <1>6, <1>11, <1>14 DEF from, marks
-----------------------------------------------------------------------------
(* One turn of the comb: all blocks are added.                               *)
Line(d, off) == [b \in 1 .. COMB_BLOCKS |-> Lookup(b - 1, ToothBits(d, b - 1, off))]
AllTeethCount == COMB_BLOCKS * COMB_TEETH
AllWeights == SumOf(Weights, AllTeethCount)
AllMarked(d, off) == SumOf(Marked(Column(d, off), Weights), AllTeethCount)

(* What the blocks add is what all teeth add and subtract.                   *)
LEMMA LineIs ==
    ASSUME CombAssumption, NEW d \in Nat, NEW off \in Nat, NEW z \in Int
    PROVE  /\ AllMarked(d, off) \in Int /\ AllWeights \in Int
           /\ Total(Halves(z), Line(d, off), COMB_BLOCKS)
                = Halves(z + 2 * AllMarked(d, off) - AllWeights)
  <1> DEFINE marks == Marked(Column(d, off), Weights)
             found == Line(d, off)
             from(n) == n * COMB_TEETH
             upto(n) == z + 2 * SumOf(marks, from(n)) - SumOf(Weights, from(n))
             S == {n \in Nat : n <= COMB_BLOCKS => Total(Halves(z), found, n) = Halves(upto(n))}
  <1>1. COMB_BLOCKS \in Nat /\ COMB_TEETH \in Nat
    BY CombSizes
  <1>2. IsTerms(Weights) /\ IsTerms(marks)
    BY ColumnIs
  <1>3. ASSUME NEW n \in Nat
        PROVE  from(n) \in Nat /\ from(n + 1) = from(n) + COMB_TEETH
    BY <1>1, Z3
  <1>4. from(0) = 0
    BY <1>1
  <1>5. ASSUME NEW n \in Nat, n < COMB_BLOCKS
        PROVE  found[n + 1] = Halves(2 * (SumOf(marks, from(n + 1)) - SumOf(marks, from(n)))
                                      - (SumOf(Weights, from(n + 1)) - SumOf(Weights, from(n))))
    <2>1. n \in 0 .. COMB_BLOCKS - 1
      BY <1>1, <1>5
    <2>2. Lookup(n, ToothBits(d, n, off))
            = Halves(2 * (SumOf(marks, from(n) + COMB_TEETH) - SumOf(marks, from(n)))
                       - (SumOf(Weights, from(n) + COMB_TEETH) - SumOf(Weights, from(n))))
      BY <2>1, BlockAdds
    <2>3. found[n + 1] = Lookup(n, ToothBits(d, n, off))
      <3>1. n + 1 \in 1 .. COMB_BLOCKS /\ (n + 1) - 1 = n
        BY <1>1, <2>1
      <3> QED
        BY <3>1 DEF Line
    <2> HIDE DEF found, marks, from
    <2> QED
      BY <1>3, <2>2, <2>3
  <1> HIDE DEF found, marks, from
  <1>6. ASSUME NEW n \in Nat
        PROVE  /\ SumOf(marks, from(n)) \in Int /\ SumOf(Weights, from(n)) \in Int
               /\ upto(n) \in Int
    <2>1. SumOf(marks, from(n)) \in Int /\ SumOf(Weights, from(n)) \in Int
      BY <1>2, <1>3, SumType
    <2> QED
      BY <2>1
  <1>7. 0 \in S
    <2>1. SumOf(marks, 0) = 0 /\ SumOf(Weights, 0) = 0
      BY SumIs
    <2>2. upto(0) = z
      BY <1>4, <2>1
    <2>3. Total(Halves(z), found, 0) = Halves(z)
      BY TotalIs
    <2> QED
      BY <2>2, <2>3
  <1>14. \A n \in Nat :
           Total(Halves(z), found, n + 1) = scalar_add(Total(Halves(z), found, n), found[n + 1])
    <2> DEFINE start == Halves(z)
    <2> HIDE DEF start
    <2> HIDE DEF upto, S
    <2>1. \A n \in Nat :
            Total(start, found, n + 1) = scalar_add(Total(start, found, n), found[n + 1])
      BY ONLY TotalIs, ZenonT(30)
    <2> QED
      BY <2>1 DEF start
  <1>8. ASSUME NEW n \in Nat, n \in S PROVE n + 1 \in S
    <2> SUFFICES ASSUME n + 1 <= COMB_BLOCKS
                 PROVE  Total(Halves(z), found, n + 1) = Halves(upto(n + 1))
      OBVIOUS
    <2>1. n < COMB_BLOCKS
      BY <1>1
    <2> DEFINE m == SumOf(marks, from(n))  v == SumOf(Weights, from(n))
               mm == SumOf(marks, from(n + 1))  vv == SumOf(Weights, from(n + 1))
               x == 2 * (mm - m) - (vv - v)
    <2>2. m \in Int /\ v \in Int /\ mm \in Int /\ vv \in Int /\ upto(n) = z + 2 * m - v
          /\ upto(n + 1) = z + 2 * mm - vv
      <3>1. n + 1 \in Nat
        OBVIOUS
      <3> QED
        BY <1>6, <3>1
    <2>3. found[n + 1] = Halves(x)
      BY <1>5, <2>1
    <2>4. Total(Halves(z), found, n) = Halves(upto(n))
      BY <1>8, <2>1, <1>1
    <2>5. Total(Halves(z), found, n + 1) = scalar_add(Total(Halves(z), found, n), found[n + 1])
      BY <1>14
    <2> HIDE DEF m, v, mm, vv
    <2>6. upto(n) + x = upto(n + 1) /\ x \in Int /\ upto(n) \in Int
      <3> HIDE DEF upto
      <3> QED
        BY <2>2
    <2> HIDE DEF x, upto
    <2>7. gej_add(Halves(upto(n)), Halves(x)) = Halves(upto(n) + x)
      BY <2>6, HalvesAdd
    <2> QED
      BY <2>3, <2>4, <2>5, <2>6, <2>7 DEF gej_add
  <1> HIDE DEF S
  <1>9. COMB_BLOCKS \in S
    BY <1>1, <1>7, <1>8, Induct
  <1>10. from(COMB_BLOCKS) = AllTeethCount
    BY DEF from, AllTeethCount
  <1>11. Total(Halves(z), found, COMB_BLOCKS) = Halves(upto(COMB_BLOCKS))
    BY <1>1, <1>9 DEF S
  <1>12. AllMarked(d, off) = SumOf(marks, from(COMB_BLOCKS))
         /\ AllWeights = SumOf(Weights, from(COMB_BLOCKS))
    BY <1>10 DEF AllMarked, AllWeights, marks
  <1>13. AllMarked(d, off) \in Int /\ AllWeights \in Int
    BY <1>1, <1>6, <1>12
  <1> QED
    BY <1>11, <1>12, <1>13 DEF found
-----------------------------------------------------------------------------
(* The turns of the comb.                                                    *)
IsComb(comb, d, n) ==
    comb = [k \in 0 .. n |->
              IF k = 0 THEN Infinity
              ELSE Total(gej_add(comb[k - 1], comb[k - 1]), Line(d, COMB_SPACING - k), COMB_BLOCKS)]

(* There are such turns.                                                     *)
LEMMA CombExists ==
    ASSUME NEW d, NEW n \in Nat
    PROVE  \E comb : IsComb(comb, d, n)
  <1> DEFINE S == {k \in Nat : \E comb : IsComb(comb, d, k)}
  <1>1. 0 \in S
    <2> DEFINE comb == [k \in 0 .. 0 |-> Infinity]
    <2>1. IsComb(comb, d, 0)
      BY DEF IsComb
    <2> QED
      BY <2>1
  <1>2. ASSUME NEW k \in Nat, k \in S PROVE k + 1 \in S
    <2>1. PICK comb : IsComb(comb, d, k)
      BY <1>2
    <2> DEFINE turn(p, i) == Total(gej_add(p, p), Line(d, COMB_SPACING - i), COMB_BLOCKS)
               longer == [i \in 0 .. k + 1 |-> IF i <= k THEN comb[i] ELSE turn(comb[k], k + 1)]
    <2>2. comb = [i \in 0 .. k |-> IF i = 0 THEN Infinity ELSE turn(comb[i - 1], i)]
      BY <2>1 DEF IsComb
    <2>3. longer = [i \in 0 .. k + 1 |-> IF i = 0 THEN Infinity ELSE turn(longer[i - 1], i)]
      <3> HIDE DEF turn
      <3> QED
        BY <2>2
    <2> HIDE DEF longer
    <2>4. IsComb(longer, d, k + 1)
      BY <2>3 DEF IsComb
    <2> QED
      BY <2>4
  <1> HIDE DEF S
  <1>3. Nat \subseteq S
    BY <1>1, <1>2, Induct
  <1> QED
    BY <1>3 DEF S

(* The k highest bits that belong to a tooth, and what they stand for.       *)
Upper(d, j, k) ==
    Rest(d, j * COMB_SPACING + (COMB_SPACING - k)) - Pow2[k] * Rest(d, j * COMB_SPACING + COMB_SPACING)
Seen(d, k) == [j \in Nat |-> Upper(d, j, k) * Weights[j]]
AllSeen(d, k) == SumOf(Seen(d, k), AllTeethCount)

(* They are numbers; before the first turn nothing is seen.                  *)
LEMMA SeenIs ==
    ASSUME CombAssumption, NEW d \in Nat, NEW k \in 0 .. COMB_SPACING
    PROVE  /\ IsTerms(Seen(d, k))
           /\ \A j \in Nat : /\ Upper(d, j, k) \in Int
                             /\ Seen(d, k)[j] = Upper(d, j, k) * Weights[j]
                             /\ k = 0 => Seen(d, k)[j] = 0
  <1>1. COMB_SPACING \in Nat /\ k \in Nat /\ COMB_SPACING - k \in Nat
    BY CombSizes
  <1>2. ASSUME NEW j \in Nat
        PROVE  /\ Upper(d, j, k) \in Int /\ Weights[j] \in Int
               /\ k = 0 => Upper(d, j, k) = 0
    <2> DEFINE at == j * COMB_SPACING
               x == Rest(d, at + (COMB_SPACING - k))  y == Rest(d, at + COMB_SPACING)  p == Pow2[k]
    <2>1. at \in Nat /\ Weights[j] \in Nat
      <3>1. 0 \in Nat
        OBVIOUS
      <3> QED
        BY <3>1, ColumnIs
    <2> HIDE DEF at
    <2>2. at + (COMB_SPACING - k) \in Nat /\ at + COMB_SPACING \in Nat
      BY <1>1, <2>1
    <2>3. x \in Nat /\ y \in Nat
      BY <2>2, BitIs
    <2>4. p \in Nat /\ (k = 0 => p = 1)
      BY <1>1, Powers
    <2>5. Upper(d, j, k) = x - p * y
      BY DEF Upper, at
    <2>6. k = 0 => x = y
      <3>1. k = 0 => COMB_SPACING - k = COMB_SPACING
        BY <1>1
      <3> QED
        BY <3>1
    <2> HIDE DEF x, y, p
    <2>7. p * y \in Int
      BY <2>3, <2>4, Z3
    <2> QED
      BY <2>1, <2>3, <2>4, <2>5, <2>6, <2>7
  <1>3. ASSUME NEW j \in Nat
        PROVE  /\ Seen(d, k)[j] = Upper(d, j, k) * Weights[j]
               /\ Seen(d, k)[j] \in Int /\ (k = 0 => Seen(d, k)[j] = 0)
    <2> DEFINE u == Upper(d, j, k)  w == Weights[j]
    <2>1. Seen(d, k)[j] = u * w
      BY DEF Seen
    <2>2. u \in Int /\ w \in Int /\ (k = 0 => u = 0)
      BY <1>2
    <2> HIDE DEF u, w
    <2>3. u * w \in Int /\ 0 * w = 0
      BY <2>2, Z3
    <2> QED
      BY <2>1, <2>2, <2>3 DEF u, w
  <1> QED
    BY <1>2, <1>3 DEF IsTerms

(* A turn sees one bit more under every tooth.                               *)
LEMMA SeesMore ==
    ASSUME CombAssumption, NEW d \in Nat, NEW k \in 0 .. COMB_SPACING - 1
    PROVE  /\ AllSeen(d, k) \in Int
           /\ AllSeen(d, k + 1) = 2 * AllSeen(d, k) + AllMarked(d, COMB_SPACING - (k + 1))
  <1> DEFINE off == COMB_SPACING - (k + 1)
             bits == Column(d, off)
             marks == Marked(bits, Weights)
  <1>1. COMB_SPACING \in Nat /\ k \in Nat /\ off \in Nat /\ AllTeethCount \in Nat
        /\ k \in 0 .. COMB_SPACING /\ k + 1 \in 0 .. COMB_SPACING /\ COMB_SPACING - k = off + 1
    BY CombSizes DEF AllTeethCount
  <1> HIDE DEF off
  <1>2. IsTerms(Seen(d, k)) /\ IsTerms(Seen(d, k + 1))
    BY <1>1, SeenIs
  <1>3. IsTerms(marks) /\ IsDigits(bits) /\ IsTerms(Weights)
    BY <1>1, ColumnIs
  <1>4. ASSUME NEW j \in Nat
        PROVE  Seen(d, k + 1)[j] = 2 * Seen(d, k)[j] + marks[j]
    <2> DEFINE at == j * COMB_SPACING
               x == Rest(d, at + (off + 1))  e == Bit(d, at + off)
               y == Rest(d, at + COMB_SPACING)  p == Pow2[k]  w == Weights[j]
    <2>1. at \in Nat
      BY <1>1, ColumnIs
    <2> HIDE DEF at
    <2>2. at + off \in Nat /\ (at + off) + 1 = at + (off + 1) /\ at + COMB_SPACING \in Nat
      BY <1>1, <2>1
    <2>3. Rest(d, at + off) = 2 * x + e /\ e \in {0, 1}
      BY <2>2, BitIs
    <2>4. x \in Nat /\ y \in Nat
      <3>1. at + (off + 1) \in Nat
        BY <1>1, <2>1
      <3> QED
        BY <2>2, <3>1, BitIs
    <2>5. p \in Nat /\ Pow2[k + 1] = 2 * p
      BY <1>1, Powers
    <2>6. Upper(d, j, k) = x - p * y
      BY <1>1 DEF Upper, at
    <2>7. Upper(d, j, k + 1) = (2 * x + e) - (2 * p) * y
      BY <2>3, <2>5 DEF Upper, at, off
    <2>8. w \in Int
      BY <1>3 DEF IsTerms
    <2>9. bits[j] = e
      BY DEF Column, at
    <2>10. marks[j] = e * w
      BY <2>9 DEF Marked
    <2>11. Seen(d, k)[j] = Upper(d, j, k) * w /\ Seen(d, k + 1)[j] = Upper(d, j, k + 1) * w
      BY DEF Seen
    <2> HIDE DEF x, y, e, p, w
    <2>12. ((2 * x + e) - (2 * p) * y) * w = 2 * ((x - p * y) * w) + e * w
      <3> DEFINE m == p * y  c == x - m
      <3>1. m \in Int /\ (2 * p) * y = 2 * m /\ e \in Int
        BY <2>3, <2>4, <2>5, Z3
      <3> HIDE DEF m
      <3>2. c \in Int /\ (2 * x + e) - 2 * m = 2 * c + e
        BY <2>4, <3>1
      <3> HIDE DEF c
      <3>3. (2 * c + e) * w = 2 * (c * w) + e * w
        BY <2>8, <3>1, <3>2, Z3
      <3> QED
        BY <3>1, <3>2, <3>3 DEF c, m
    <2> QED
      BY <2>6, <2>7, <2>10, <2>11, <2>12
  <1> HIDE DEF marks
  <1>5. SumOf(Seen(d, k + 1), AllTeethCount)
          = 2 * SumOf(Seen(d, k), AllTeethCount) + SumOf(marks, AllTeethCount)
    <2> DEFINE f == Seen(d, k)  h == Seen(d, k + 1)
    <2>1. IsTerms(f) /\ IsTerms(marks) /\ 2 \in Int
      BY <1>2, <1>3
    <2>2. \A i \in 0 .. AllTeethCount - 1 : h[i] = 2 * f[i] + marks[i]
      BY <1>1, <1>4
    <2> HIDE DEF f, h
    <2>3. SumOf(h, AllTeethCount) = 2 * SumOf(f, AllTeethCount) + SumOf(marks, AllTeethCount)
      BY <1>1, <2>1, <2>2, SumLinear
    <2> QED
      BY <2>3 DEF f, h
  <1>6. SumOf(Seen(d, k), AllTeethCount) \in Int
    BY <1>1, <1>2, SumType
  <1> QED
    BY <1>5, <1>6 DEF AllSeen, AllMarked, marks, off
(* After k turns.                                                            *)
LEMMA CombTurns ==
    ASSUME CombAssumption, NEW d \in Nat, NEW comb, IsComb(comb, d, COMB_SPACING)
    PROVE  \A k \in 0 .. COMB_SPACING :
             comb[k] = Halves(2 * AllSeen(d, k) - (Pow2[k] - 1) * AllWeights)
  <1> DEFINE z(k) == 2 * AllSeen(d, k) - (Pow2[k] - 1) * AllWeights
             S == {k \in Nat : k <= COMB_SPACING => comb[k] = Halves(z(k))}
  <1>1. COMB_SPACING \in Nat \ {0}
    BY CombSizes
  <1>2. AllWeights \in Int
    <2>1. 0 \in Nat /\ 0 \in Int
      OBVIOUS
    <2> QED
      BY <2>1, LineIs
  <1>3. 0 \in S
    <2>1. 0 \in 0 .. COMB_SPACING
      BY <1>1
    <2>2. AllSeen(d, 0) = 0
      <3> DEFINE f == Seen(d, 0)
      <3>1. IsTerms(f) /\ \A j \in Nat : f[j] = 0
        BY <2>1, SeenIs
      <3>2. AllTeethCount \in Nat
        BY CombSizes DEF AllTeethCount
      <3> HIDE DEF f
      <3>3. \A i \in 0 .. AllTeethCount - 1 : f[i] = (-1) * f[i] + f[i]
        BY <3>1, <3>2
      <3>4. SumOf(f, AllTeethCount) \in Int
        BY <3>1, <3>2, SumType
      <3>5. SumOf(f, AllTeethCount) = (-1) * SumOf(f, AllTeethCount) + SumOf(f, AllTeethCount)
        BY <3>1, <3>2, <3>3, SumLinear
      <3>6. SumOf(f, AllTeethCount) = 0
        BY <3>4, <3>5
      <3> QED
        BY <3>6 DEF AllSeen, f
    <2>3. Pow2[0] = 1
      BY Powers
    <2>4. z(0) = 0
      BY <1>2, <2>2, <2>3
    <2>5. comb[0] = Infinity
      BY <1>1 DEF IsComb
    <2>6. comb[0] = Halves(0)
      BY <2>5, HalvesWhole DEF Infinity
    <2> QED
      BY <2>4, <2>6
  <1>4. ASSUME NEW k \in Nat, k \in S PROVE k + 1 \in S
    <2> SUFFICES ASSUME k + 1 <= COMB_SPACING
                 PROVE  comb[k + 1] = Halves(z(k + 1))
      OBVIOUS
    <2> DEFINE off == COMB_SPACING - (k + 1)
               a == AllSeen(d, k)  u == AllMarked(d, off)  p == Pow2[k]  v == AllWeights
               now == z(k)
    <2>1. k \in 0 .. COMB_SPACING - 1 /\ off \in Nat
      BY <1>1
    <2>2. comb[k] = Halves(now)
      BY <1>1, <1>4
    <2>3. a \in Int /\ AllSeen(d, k + 1) = 2 * a + u
      BY <2>1, SeesMore
    <2>4. p \in Nat /\ Pow2[k + 1] = 2 * p
      BY Powers
    <2>5. now = 2 * a - (p - 1) * v /\ z(k + 1) = 2 * (2 * a + u) - (2 * p - 1) * v
      BY <2>3, <2>4
    <2>6. comb[k + 1] = Total(gej_add(comb[k], comb[k]), Line(d, off), COMB_BLOCKS)
      <3>1. k + 1 \in 0 .. COMB_SPACING /\ k + 1 # 0 /\ (k + 1) - 1 = k
        BY <1>1
      <3> QED
        BY <3>1 DEF IsComb
    <2>7. u \in Int
      <3>1. 0 \in Int
        OBVIOUS
      <3> QED
        BY <2>1, <3>1, LineIs
    <2> HIDE DEF off, a, u, p, now
    <2>8. now \in Int /\ z(k + 1) = (now + now) + 2 * u - v
      <3> HIDE DEF v, z
      <3>1. v \in Int
        BY <1>2 DEF v
      <3> DEFINE m == p * v
      <3>2. m \in Int /\ (p - 1) * v = m - v /\ (2 * p - 1) * v = 2 * m - v
        BY <2>4, <3>1, Z3
      <3> HIDE DEF m
      <3> QED
        BY <2>3, <2>5, <2>7, <3>1, <3>2
    <2>9. gej_add(comb[k], comb[k]) = Halves(now + now)
      BY <2>2, <2>8, HalvesAdd
    <2>10. Total(Halves(now + now), Line(d, off), COMB_BLOCKS) = Halves((now + now) + 2 * u - v)
      <3> DEFINE y == now + now
      <3>1. y \in Int
        BY <2>8
      <3> HIDE DEF y
      <3>2. Total(Halves(y), Line(d, off), COMB_BLOCKS) = Halves(y + 2 * AllMarked(d, off) - AllWeights)
        BY <2>1, <3>1, LineIs
      <3> QED
        BY <3>2 DEF y, u
    <2> HIDE DEF z
    <2> QED
      BY <2>6, <2>8, <2>9, <2>10
  <1> HIDE DEF S
  <1>5. Nat \subseteq S
    BY <1>3, <1>4, Induct
  <1>6. \A k \in 0 .. COMB_SPACING : k \in Nat /\ k <= COMB_SPACING
    BY <1>1
  <1> HIDE DEF z
  <1> QED
    BY <1>5, <1>6 DEF S, z

(* A power of two that is not smaller.                                       *)
LEMMA PowersGrow ==
    ASSUME NEW a \in Nat, NEW b \in Nat, a <= b
    PROVE  Pow2[a] <= Pow2[b]
  <1> DEFINE c == b - a  x == Pow2[a]  y == Pow2[c]
  <1>1. c \in Nat /\ b = a + c
    OBVIOUS
  <1> HIDE DEF c
  <1>2. x \in Nat \ {0} /\ y \in Nat \ {0}
    BY <1>1, Powers
  <1>3. Pow2[b] = x * y
    BY <1>1, PowersAdd
  <1> HIDE DEF x, y
  <1>4. x <= x * y
    BY <1>2, Z3
  <1> QED
    BY <1>3, <1>4 DEF x

(* In the end every bit of d was seen, each under its tooth.                 *)
LEMMA AllIsSeen ==
    ASSUME CombAssumption, NEW d \in Scalars
    PROVE  AllSeen(d, COMB_SPACING) = d
  <1> DEFINE at(n) == n * COMB_SPACING
             rest(n) == Pow2[at(n)] * Rest(d, at(n))
             f == Seen(d, COMB_SPACING)
             S == {n \in Nat : SumOf(f, n) = d - rest(n)}
  <1>1. /\ COMB_SPACING \in Nat /\ COMB_SPACING \in 0 .. COMB_SPACING /\ AllTeethCount \in Nat
        /\ COMB_SPACING - COMB_SPACING = 0
    BY CombSizes DEF AllTeethCount
  <1>2. d \in Nat /\ d < N /\ N \in Nat
    BY HalfIs DEF Scalars
  <1>3. ASSUME NEW n \in Nat
        PROVE  at(n) \in Nat /\ at(n + 1) = at(n) + COMB_SPACING
    BY <1>1, Z3
  <1>4. at(0) = 0
    BY <1>1
  <1>5. IsTerms(f)
    BY <1>1, <1>2, SeenIs
  <1>6. ASSUME NEW n \in Nat
        PROVE  f[n] = (Rest(d, at(n)) - Pow2[COMB_SPACING] * Rest(d, at(n + 1))) * Pow2[at(n)]
    <2>1. f[n] = Upper(d, n, COMB_SPACING) * Weights[n]
      BY DEF Seen
    <2>2. Weights[n] = Pow2[at(n)]
      BY DEF Weights
    <2>3. at(n) + 0 = at(n)
      BY <1>3
    <2>4. Upper(d, n, COMB_SPACING) = Rest(d, at(n)) - Pow2[COMB_SPACING] * Rest(d, at(n + 1))
      <3>1. Upper(d, n, COMB_SPACING)
              = Rest(d, at(n) + (COMB_SPACING - COMB_SPACING))
                  - Pow2[COMB_SPACING] * Rest(d, at(n) + COMB_SPACING)
        BY DEF Upper
      <3>2. at(n + 1) = at(n) + COMB_SPACING
        BY <1>3
      <3> HIDE DEF at
      <3> QED
        BY <1>1, <2>3, <3>1, <3>2
    <2> HIDE DEF f, at
    <2> QED
      BY <2>1, <2>2, <2>4
  <1> HIDE DEF f, at
  <1>7. 0 \in S
    <2>1. SumOf(f, 0) = 0
      BY SumIs
    <2>2. Pow2[0] = 1 /\ Rest(d, 0) = d
      <3>1. 0 \in Nat
        OBVIOUS
      <3> QED
        BY <1>2, <3>1, Powers, RestEnds
    <2>3. rest(0) = d
      BY <1>2, <1>4, <2>2
    <2> QED
      BY <1>2, <2>1, <2>3
  <1>8. ASSUME NEW n \in Nat, n \in S PROVE n + 1 \in S
    <2> DEFINE x == Rest(d, at(n))  y == Rest(d, at(n + 1))
               p == Pow2[at(n)]  s == Pow2[COMB_SPACING]
    <2>1. at(n) \in Nat /\ at(n + 1) \in Nat /\ at(n + 1) = at(n) + COMB_SPACING
      BY <1>1, <1>3
    <2>2. x \in Nat /\ y \in Nat
      BY <1>2, <2>1, BitIs
    <2>3. p \in Nat /\ s \in Nat
      BY <1>1, <2>1, Powers
    <2>4. Pow2[at(n + 1)] = p * s
      <3> DEFINE u == at(n)  v == COMB_SPACING
      <3>1. u \in Nat /\ v \in Nat /\ at(n + 1) = u + v
        BY <1>1, <2>1
      <3> HIDE DEF u, v
      <3>2. Pow2[u + v] = Pow2[u] * Pow2[v]
        BY ONLY <3>1, PowersAdd, ZenonT(30)
      <3> QED
        BY <3>1, <3>2, ZenonT(30) DEF u, v
    <2>5. rest(n) = p * x /\ rest(n + 1) = (p * s) * y
      BY <2>4
    <2>6. f[n] = (x - s * y) * p
      BY <1>6
    <2>7. SumOf(f, n + 1) = SumOf(f, n) + f[n]
      BY SumIs
    <2>8. SumOf(f, n) = d - rest(n)
      BY <1>8
    <2> HIDE DEF x, y, p, s, rest
    <2>9. (x - s * y) * p = p * x - (p * s) * y /\ p * x \in Int /\ (p * s) * y \in Int
      <3> DEFINE m == s * y
      <3>1. m \in Int
        BY <2>2, <2>3, Z3
      <3>2. p * m = (p * s) * y
        BY <2>2, <2>3, Z3
      <3> HIDE DEF m
      <3>3. (x - m) * p = p * x - p * m /\ p * m \in Int /\ p * x \in Int
        BY <2>2, <2>3, <3>1, Z3
      <3> QED
        BY <3>2, <3>3 DEF m
    <2>10. SumOf(f, n + 1) = d - rest(n + 1)
      <3> DEFINE m == p * x  q == (p * s) * y
      <3>1. m \in Int /\ q \in Int /\ SumOf(f, n + 1) = (d - m) + (m - q) /\ rest(n + 1) = q
        BY <2>5, <2>6, <2>7, <2>8, <2>9
      <3> HIDE DEF m, q
      <3> QED
        BY <1>2, <3>1
    <2> QED
      BY <2>10
  <1> HIDE DEF S
  <1>9. Nat \subseteq S
    BY <1>7, <1>8, Induct
  <1>10. SumOf(f, AllTeethCount) = d - rest(AllTeethCount)
    BY <1>1, <1>9 DEF S
  <1>11. at(AllTeethCount) = COMB_BITS /\ COMB_BITS \in Nat
    BY CombSizes DEF at, COMB_BITS, AllTeethCount
  <1>12. Rest(d, COMB_BITS) = 0 /\ Pow2[COMB_BITS] \in Nat
    <2>1. COMB_RANGE \in Nat /\ COMB_RANGE <= COMB_BITS
      BY CombSizes
    <2>2. Pow2[COMB_RANGE] <= Pow2[COMB_BITS] /\ Pow2[COMB_RANGE] \in Nat /\ Pow2[COMB_BITS] \in Nat
      BY <1>11, <2>1, PowersGrow, Powers
    <2>3. N <= Pow2[COMB_RANGE]
      BY DEF CombAssumption
    <2>4. d < Pow2[COMB_BITS]
      BY <1>2, <2>2, <2>3
    <2> QED
      BY <1>2, <1>11, <2>2, <2>4, RestEnds
  <1>13. rest(AllTeethCount) = 0
    BY <1>11, <1>12
  <1> HIDE DEF rest
  <1> QED
    BY <1>2, <1>10, <1>13 DEF AllSeen, f

(* All teeth, in all turns, stand for all bits set.                          *)
LEMMA AllWeightsAre ==
    ASSUME CombAssumption
    PROVE  (Pow2[COMB_SPACING] - 1) * AllWeights = Pow2[COMB_BITS] - 1
  <1> DEFINE at(n) == n * COMB_SPACING
             s == Pow2[COMB_SPACING]
             S == {n \in Nat : (s - 1) * SumOf(Weights, n) = Pow2[at(n)] - 1}
  <1>1. COMB_SPACING \in Nat /\ AllTeethCount \in Nat
    BY CombSizes DEF AllTeethCount
  <1>2. ASSUME NEW n \in Nat
        PROVE  at(n) \in Nat /\ at(n + 1) = at(n) + COMB_SPACING
    BY <1>1, Z3
  <1>3. at(0) = 0
    BY <1>1
  <1>4. IsTerms(Weights) /\ \A n \in Nat : Weights[n] = Pow2[at(n)]
    <2>1. 0 \in Nat
      OBVIOUS
    <2>2. IsTerms(Weights)
      BY <2>1, ColumnIs
    <2> QED
      BY <2>2 DEF Weights
  <1>5. s \in Nat
    BY <1>1, Powers
  <1> HIDE DEF at
  <1>6. 0 \in S
    <2>1. SumOf(Weights, 0) = 0
      BY SumIs
    <2>2. Pow2[at(0)] = 1
      BY <1>3, Powers
    <2> HIDE DEF s
    <2>3. (s - 1) * 0 = 1 - 1
      BY <1>5
    <2> QED
      BY <2>1, <2>2, <2>3
  <1>7. ASSUME NEW n \in Nat, n \in S PROVE n + 1 \in S
    <2> DEFINE p == Pow2[at(n)]  v == SumOf(Weights, n)
    <2>1. at(n) \in Nat /\ p \in Nat /\ Pow2[at(n + 1)] = p * s
      <3>1. at(n) \in Nat /\ at(n + 1) = at(n) + COMB_SPACING
        BY <1>2
      <3>2. Pow2[at(n) + COMB_SPACING] = p * s
        BY <1>1, <3>1, PowersAdd
      <3>3. p \in Nat
        BY <3>1, Powers
      <3> QED
        BY <3>1, <3>2, <3>3
    <2>2. v \in Int /\ SumOf(Weights, n + 1) = v + p
      BY <1>4, SumType, SumIs
    <2>3. (s - 1) * v = p - 1
      BY <1>7
    <2> HIDE DEF p, v, s
    <2>4. (s - 1) * (v + p) = (s - 1) * v + (p * s - p) /\ p * s \in Int
      <3> DEFINE t == s - 1
      <3>1. t \in Int /\ p * s = p * t + p /\ p * t \in Int
        BY <1>5, <2>1, Z3
      <3> HIDE DEF t
      <3>2. t * (v + p) = t * v + p * t /\ t * v \in Int
        BY <2>1, <2>2, <3>1, Z3
      <3>3. p * s - p = p * t /\ p * s \in Int
        BY <2>1, <3>1
      <3> QED
        BY <3>2, <3>3 DEF t
    <2>5. (s - 1) * SumOf(Weights, n + 1) = Pow2[at(n + 1)] - 1
      <3> DEFINE q == p * s
      <3> HIDE DEF q
      <3>1. q \in Int /\ (s - 1) * (v + p) = (p - 1) + (q - p)
        BY <2>3, <2>4 DEF q
      <3>2. (p - 1) + (q - p) = q - 1
        BY <2>1, <3>1
      <3> QED
        BY <2>1, <2>2, <3>1, <3>2 DEF q
    <2> QED
      BY <2>5
  <1> HIDE DEF S
  <1>8. AllTeethCount \in S
    BY <1>1, <1>6, <1>7, Induct
  <1>9. at(AllTeethCount) = COMB_BITS
    BY DEF at, COMB_BITS, AllTeethCount
  <1> HIDE DEF s
  <1>10. (s - 1) * SumOf(Weights, AllTeethCount) = Pow2[COMB_BITS] - 1
    BY <1>8, <1>9 DEF S
  <1> QED
    BY <1>10 DEF s, AllWeights
-----------------------------------------------------------------------------
(* The difference of the two offsets is half of all bits.                    *)
LEMMA DiffIs ==
    ASSUME CombAssumption
    PROVE  /\ Pow2[COMB_BITS] \in Nat /\ scalar_diff \in Scalars
           /\ scalar_diff = Halves(Pow2[COMB_BITS] - 1)
  <1> DEFINE x == Pow2[COMB_BITS - 1]  y == Pow2[COMB_BITS]
  <1>1. x \in Nat /\ y \in Nat /\ y = 2 * x
    <2>1. COMB_BITS - 1 \in Nat /\ (COMB_BITS - 1) + 1 = COMB_BITS
      BY CombSizes
    <2>2. x \in Nat /\ Pow2[(COMB_BITS - 1) + 1] = 2 * x
      BY <2>1, Powers
    <2> QED
      BY <2>1, <2>2
  <1>2. scalar_diff = scalar_add(x % N, scalar_negate(Half))
    BY DEF scalar_diff
  <1> HIDE DEF x, y
  <1>3. x % N = Halves(2 * x) /\ Half = Halves(1)
    BY <1>1, HalvesWhole
  <1>4. ge_neg(Halves(1)) = Halves(-1)
    BY HalvesNegate
  <1>5. 2 * x \in Int /\ -1 \in Int /\ 2 * x + (-1) = y - 1
    BY <1>1
  <1>6. gej_add(Halves(2 * x), Halves(-1)) = Halves(2 * x + (-1)) /\ Halves(2 * x + (-1)) \in Scalars
    <2> DEFINE a == 2 * x  b == -1
    <2>1. a \in Int /\ b \in Int
      BY <1>5
    <2> HIDE DEF a, b
    <2>2. a + b \in Int
      BY <2>1
    <2>3. gej_add(Halves(a), Halves(b)) = Halves(a + b) /\ Halves(a + b) \in Scalars
      BY <2>1, <2>2, HalvesAdd
    <2> QED
      BY <2>3 DEF a, b
  <1> QED
    BY <1>1, <1>2, <1>3, <1>4, <1>5, <1>6 DEF gej_add, ge_neg, y

(* What the comb yields: the blinded scalar, less the difference.            *)
LEMMA CombIs ==
    ASSUME CombAssumption, NEW gen, NEW gn, NEW d \in Scalars,
           d = scalar_add(gen.scalar_offset, gn)
    PROVE  ecmult_gen(gen, gn)
             = gej_add(scalar_add(d, scalar_negate(scalar_diff)), gen.ge_offset)
  <1> DEFINE P(s) == s = [k \in 0 .. COMB_SPACING |->
                            IF k = 0 THEN Infinity
                            ELSE Total(gej_add(s[k - 1], s[k - 1]), Line(d, COMB_SPACING - k),
                                       COMB_BLOCKS)]
             comb == CHOOSE s : P(s)
             all == Pow2[COMB_BITS] - 1
  <1>1. COMB_SPACING \in Nat /\ COMB_SPACING \in 0 .. COMB_SPACING
    BY CombSizes
  <1>2. d \in Nat /\ d < N /\ N \in Nat \ {0}
    BY HalfIs DEF Scalars
  <1>3. ecmult_gen(gen, gn) = gej_add(comb[COMB_SPACING], gen.ge_offset)
    BY DEF ecmult_gen, Line
  <1>4. \A s : P(s) <=> IsComb(s, d, COMB_SPACING)
    BY DEF IsComb
  <1>5. PICK s : IsComb(s, d, COMB_SPACING)
    BY <1>1, CombExists
  <1> HIDE DEF P
  <1>6. P(comb)
    <2>1. P(s)
      BY <1>4, <1>5
    <2> QED
      BY <2>1, Zenon
  <1> HIDE DEF comb
  <1>7. IsComb(comb, d, COMB_SPACING)
    BY <1>4, <1>6
  <1>8. comb[COMB_SPACING]
          = Halves(2 * AllSeen(d, COMB_SPACING) - (Pow2[COMB_SPACING] - 1) * AllWeights)
    BY <1>1, <1>2, <1>7, CombTurns
  <1>9. comb[COMB_SPACING] = Halves(2 * d - all)
    BY <1>8, AllIsSeen, AllWeightsAre
  <1>10. all \in Int /\ scalar_diff = Halves(all)
    BY DiffIs
  <1> HIDE DEF all
  <1>11. 2 * d \in Int /\ -all \in Int /\ 2 * d + (-all) = 2 * d - all
    BY <1>2, <1>10
  <1>12. Halves(2 * d) = d
    <2>1. Halves(2 * d) = d % N
      BY <1>2, HalvesWhole
    <2>2. d % N = d
      BY <1>2, SmallMod
    <2> QED
      BY <2>1, <2>2
  <1>13. Halves(-all) = scalar_negate(scalar_diff)
    BY <1>10, HalvesNegate DEF ge_neg
  <1>14. gej_add(Halves(2 * d), Halves(-all)) = Halves(2 * d + (-all))
    <2> DEFINE a == 2 * d  b == -all
    <2>1. a \in Int /\ b \in Int
      BY <1>11
    <2> HIDE DEF a, b
    <2>2. gej_add(Halves(a), Halves(b)) = Halves(a + b)
      BY <2>1, HalvesAdd
    <2> QED
      BY <2>2 DEF a, b
  <1>15. comb[COMB_SPACING] = scalar_add(d, scalar_negate(scalar_diff))
    BY <1>9, <1>11, <1>12, <1>13, <1>14 DEF gej_add
  <1> QED
    BY <1>3, <1>15

-----------------------------------------------------------------------------
(* The two offsets of a blinding, when they cancel.                          *)
OffsetsCancel(gen) ==
    /\ gen.scalar_offset \in Scalars /\ gen.ge_offset \in Scalars
    /\ scalar_add(gen.scalar_offset, gen.ge_offset) = scalar_diff

(* Then gn times the generator is gn * G.                                    *)
LEMMA MultipliesRight ==
    ASSUME CombAssumption, NEW gen, OffsetsCancel(gen), NEW gn \in Scalars
    PROVE  ecmult_gen(gen, gn) = gn
  <1> DEFINE so == gen.scalar_offset  off == gen.ge_offset
             d == scalar_add(so, gn)  nd == scalar_negate(scalar_diff)
  <1>1. so \in Scalars /\ off \in Scalars /\ scalar_add(so, off) = scalar_diff
    BY DEF OffsetsCancel
  <1>2. scalar_diff \in Scalars
    BY DiffIs
  <1>3. d \in Scalars /\ nd \in Scalars
    BY <1>1, <1>2, AddIs, NegateIs
  <1>4. ecmult_gen(gen, gn) = scalar_add(scalar_add(d, nd), off)
    BY <1>3, CombIs DEF gej_add
  <1>5. scalar_add(nd, scalar_diff) = 0
    BY <1>2, NegateCancels
  <1> HIDE DEF so, off, nd
  <1>6. scalar_add(scalar_add(d, nd), off) = scalar_add(d, scalar_add(off, nd))
    <2>1. scalar_add(scalar_add(d, nd), off) = scalar_add(d, scalar_add(nd, off))
      BY <1>1, <1>3, AddAssoc
    <2>2. scalar_add(nd, off) = scalar_add(off, nd)
      BY <1>1, <1>3, AddCommutes
    <2> QED
      BY <2>1, <2>2
  <1>7. d = scalar_add(gn, so)
    BY <1>1, AddCommutes
  <1>8. scalar_add(off, nd) \in Scalars
    BY <1>1, <1>3, AddIs
  <1> DEFINE e == scalar_add(off, nd)
  <1>9. scalar_add(scalar_add(gn, so), e) = scalar_add(gn, scalar_add(so, e))
    <2> HIDE DEF e
    <2>1. e \in Scalars
      BY <1>8 DEF e
    <2> QED
      BY <1>1, <2>1, AddAssoc
  <1>10. scalar_add(so, e) = scalar_add(scalar_add(so, off), nd)
    BY <1>1, <1>3, AddAssoc
  <1>11. scalar_add(so, e) = 0
    <2>1. scalar_add(scalar_diff, nd) = scalar_add(nd, scalar_diff)
      BY <1>2, <1>3, AddCommutes
    <2> QED
      BY <1>1, <1>5, <1>10, <2>1
  <1>12. scalar_add(gn, 0) = gn
    BY AddZero
  <1> QED
    BY <1>4, <1>6, <1>7, <1>9, <1>11, <1>12

(* The state of every context: a blinding that cancels, or no blinding.      *)
GenRecords == [built : BOOLEAN, scalar_offset : Scalars, ge_offset : Scalars]
BlindingInv ==
    /\ ctx \in [Contexts -> [memory : {"none", "library", "caller"}, gen : GenRecords]]
    /\ \A c \in Contexts : IF ctx[c].gen.built THEN OffsetsCancel(ctx[c].gen)
                           ELSE ctx[c].gen = Cleared

(* A blinding may be in a context.                                           *)
Kept(gen) == gen \in GenRecords /\ (IF gen.built THEN OffsetsCancel(gen) ELSE gen = Cleared)

(* Both kinds of renewal leave offsets that cancel, and so does a new one;   *)
(* the point of a new blinding is computed under the old one.                *)
LEMMA RenewalsCancel ==
    ASSUME CombAssumption
    PROVE  /\ Kept(Cleared) /\ Kept(ecmult_gen_context_build)
           /\ \A gen : Kept(gen) /\ gen.built =>
                /\ Kept(Reset(gen))
                /\ \A output \in BlindOutputs : Kept(Blind(gen, output))
  <1>1. 0 \in Scalars /\ 1 \in Scalars /\ scalar_negate(1) \in Scalars /\ scalar_diff \in Scalars
    <2>1. 0 \in Scalars /\ 1 \in Scalars
      BY GroupAssumption DEF Scalars
    <2> QED
      BY <2>1, NegateIs, DiffIs
  <1>2. ASSUME NEW b \in Scalars
        PROVE  /\ scalar_negate(b) \in Scalars
               /\ scalar_add(scalar_negate(b), scalar_diff) \in Scalars
               /\ scalar_add(scalar_add(scalar_negate(b), scalar_diff), b) = scalar_diff
    <2> DEFINE nb == scalar_negate(b)
    <2>1. nb \in Scalars /\ scalar_add(nb, scalar_diff) \in Scalars
      BY <1>1, NegateIs, AddIs
    <2>2. scalar_add(nb, b) = 0
      BY NegateCancels
    <2> HIDE DEF nb
    <2>3. scalar_add(scalar_add(nb, scalar_diff), b) = scalar_add(nb, scalar_add(scalar_diff, b))
      BY <1>1, <2>1, AddAssoc
    <2>4. scalar_add(scalar_diff, b) = scalar_add(b, scalar_diff)
      BY <1>1, AddCommutes
    <2>5. scalar_add(nb, scalar_add(b, scalar_diff)) = scalar_add(scalar_add(nb, b), scalar_diff)
      BY <1>1, <2>1, AddAssoc
    <2>6. scalar_add(0, scalar_diff) = scalar_diff
      BY <1>1, AddZero
    <2> QED
      BY <2>1, <2>2, <2>3, <2>4, <2>5, <2>6 DEF nb
  <1>3. scalar_negate(scalar_negate(1)) = 1
    BY <1>1, NegateTwice
  <1>4. Kept(Cleared)
    BY <1>1 DEF Kept, Cleared, GenRecords, Infinity
  (* Any pair of offsets of this form.                                       *)
  <1>5. ASSUME NEW gen \in GenRecords, NEW b \in Scalars, NEW new,
               new = [gen EXCEPT !.ge_offset = b,
                                 !.scalar_offset = scalar_add(scalar_negate(b), scalar_diff)]
        PROVE  new \in GenRecords /\ new.built = gen.built /\ OffsetsCancel(new)
    <2> DEFINE so == scalar_add(scalar_negate(b), scalar_diff)
    <2>1. so \in Scalars /\ scalar_add(so, b) = scalar_diff
      BY <1>2
    <2> HIDE DEF so
    <2>2. new = [gen EXCEPT !.ge_offset = b, !.scalar_offset = so]
      BY <1>5 DEF so
    <2>3. new \in GenRecords /\ new.built = gen.built /\ new.ge_offset = b /\ new.scalar_offset = so
      BY <2>1, <2>2 DEF GenRecords
    <2> QED
      BY <2>1, <2>3 DEF OffsetsCancel
  <1>6. ASSUME NEW gen \in GenRecords
        PROVE  /\ Reset(gen) \in GenRecords /\ Reset(gen).built = gen.built
               /\ OffsetsCancel(Reset(gen))
    <2> DEFINE b == scalar_negate(1)
    <2>1. Reset(gen) = [gen EXCEPT !.ge_offset = b,
                                   !.scalar_offset = scalar_add(scalar_negate(b), scalar_diff)]
      BY <1>3 DEF Reset, G, ge_neg
    <2>2. b \in Scalars
      BY <1>1
    <2> HIDE DEF b
    <2> QED
      BY <1>5, <2>1, <2>2
  <1>7. Kept(ecmult_gen_context_build)
    <2> DEFINE gen == Reset(Cleared)  new == [gen EXCEPT !.built = TRUE]
    <2>1. gen \in GenRecords /\ OffsetsCancel(gen)
      BY <1>4, <1>6 DEF Kept
    <2>2. ecmult_gen_context_build = new
      BY DEF ecmult_gen_context_build
    <2> HIDE DEF gen
    <2>3. new \in GenRecords /\ new.built /\ new.ge_offset = gen.ge_offset
          /\ new.scalar_offset = gen.scalar_offset
      BY <2>1 DEF GenRecords
    <2> HIDE DEF new
    <2>4. OffsetsCancel(new)
      BY <2>1, <2>3 DEF OffsetsCancel
    <2> QED
      BY <2>2, <2>3, <2>4 DEF Kept
  <1>8. ASSUME NEW gen, Kept(gen), gen.built
        PROVE  Kept(Reset(gen))
    BY <1>6, <1>8 DEF Kept
  <1>9. ASSUME NEW gen, Kept(gen), gen.built, NEW output \in BlindOutputs
        PROVE  Kept(Blind(gen, output))
    <2> DEFINE b == IF output = 0 THEN 1 ELSE output
    <2>1. b \in Scalars
      BY <1>1 DEF CombAssumption
    <2>2. gen \in GenRecords /\ OffsetsCancel(gen)
      BY <1>9 DEF Kept
    <2>3. ecmult_gen(gen, b) = b
      <3> HIDE DEF b
      <3> QED
        BY <2>1, <2>2, MultipliesRight
    <2>4. Blind(gen, output)
            = [gen EXCEPT !.ge_offset = b,
                          !.scalar_offset = scalar_add(scalar_negate(b), scalar_diff)]
      BY <2>3 DEF Blind
    <2> HIDE DEF b
    <2>5. /\ Blind(gen, output) \in GenRecords /\ Blind(gen, output).built = gen.built
          /\ OffsetsCancel(Blind(gen, output))
      BY <1>5, <2>1, <2>2, <2>4
    <2> QED
      BY <1>9, <2>5 DEF Kept
  <1> QED
    BY <1>4, <1>7, <1>8, <1>9

(* What is placed in a context is kept there.                                *)
LEMMA PlaceKeeps ==
    ASSUME BlindingInv, NEW c \in Contexts, NEW memory \in {"none", "library", "caller"},
           NEW gen, Kept(gen), ctx' = [ctx EXCEPT ![c] = [memory |-> memory, gen |-> gen]]
    PROVE  BlindingInv'
  <1> DEFINE new == [memory |-> memory, gen |-> gen]
             All == [memory : {"none", "library", "caller"}, gen : GenRecords]
  <1>1. new \in All /\ new.gen = gen
    BY DEF Kept
  <1>2. ctx \in [Contexts -> All] /\ \A k \in Contexts : Kept(ctx[k].gen)
    <2>1. ctx \in [Contexts -> All]
      BY DEF BlindingInv
    <2>2. \A k \in Contexts : ctx[k].gen \in GenRecords
      BY <2>1
    <2> QED
      BY <2>1, <2>2 DEF BlindingInv, Kept
  <1> HIDE DEF new, All
  <1>3. ctx' = [ctx EXCEPT ![c] = new]
    BY DEF new
  <1>4. ctx' \in [Contexts -> All]
    BY <1>1, <1>2, <1>3
  <1>5. \A k \in Contexts : Kept(ctx'[k].gen)
    BY <1>1, <1>2, <1>3
  <1> QED
    BY <1>4, <1>5 DEF BlindingInv, Kept, OffsetsCancel, All

(* Whatever contexts are made, copied, blinded and destroyed, in any order:  *)
(* the comb multiplies the generator by its scalar, whatever the order of    *)
(* the group, the number of blocks and teeth, and the blindings; and memory  *)
(* without a context has no blinding.                                        *)
THEOREM BlindingAlwaysCancels == GenSpec => []BlindingCancels
  <1> USE CombAssumption
  <1>1. GenInit => BlindingInv
    <2> SUFFICES ASSUME GenInit PROVE BlindingInv
      OBVIOUS
    <2>1. Kept(Cleared)
      BY RenewalsCancel
    <2>2. Nowhere \in [memory : {"none", "library", "caller"}, gen : GenRecords]
          /\ Nowhere.gen = Cleared /\ ~Cleared.built
      BY <2>1 DEF Nowhere, Kept, Cleared
    <2> QED
      BY <2>2 DEF GenInit, BlindingInv
  <1>2. BlindingInv /\ [GenNext]_ctx => BlindingInv'
    <2> SUFFICES ASSUME BlindingInv, [GenNext]_ctx PROVE BlindingInv'
      OBVIOUS
    <2>1. ASSUME NEW c \in Contexts
          PROVE  /\ Kept(ctx[c].gen)
                 /\ ctx[c] = [memory |-> ctx[c].memory, gen |-> ctx[c].gen]
                 /\ ctx[c].memory \in {"none", "library", "caller"}
      BY DEF BlindingInv, Kept
    <2>2. ASSUME NEW c \in Contexts, NEW memory \in {"library", "caller"}, Create(c, memory)
          PROVE  BlindingInv'
      BY <2>2, RenewalsCancel, PlaceKeeps DEF Create, Place
    <2>3. ASSUME NEW c \in Contexts, NEW memory \in {"library", "caller"},
                 NEW from \in Contexts, Clone(from, c, memory)
          PROVE  BlindingInv'
      BY <2>1, <2>3, PlaceKeeps DEF Clone, Place
    <2>4. ASSUME NEW c \in Contexts, CopyStatic(c)
          PROVE  BlindingInv'
      BY <2>4, RenewalsCancel, PlaceKeeps DEF CopyStatic, Place
    <2>5. ASSUME NEW c \in Contexts, NEW gen,
                 ctx' = [ctx EXCEPT ![c].gen = gen], Kept(gen)
          PROVE  BlindingInv'
      <3> DEFINE memory == ctx[c].memory
      <3>1. ctx' = [ctx EXCEPT ![c] = [memory |-> memory, gen |-> gen]]
        <4>1. [ctx[c] EXCEPT !.gen = gen] = [memory |-> memory, gen |-> gen]
          <5> DEFINE old == ctx[c].gen
          <5>1. ctx[c] = [memory |-> memory, gen |-> old]
            BY <2>1
          <5> HIDE DEF memory, old
          <5> QED
            BY <5>1
        <4> HIDE DEF memory
        <4>2. ctx' = [ctx EXCEPT ![c] = [ctx[c] EXCEPT !.gen = gen]]
          BY <2>5
        <4> QED
          BY <4>1, <4>2
      <3>2. memory \in {"none", "library", "caller"}
        BY <2>1
      <3> HIDE DEF memory
      <3> QED
        BY <2>5, <3>1, <3>2, PlaceKeeps
    <2>6. ASSUME NEW c \in Contexts, Randomize(c)
          PROVE  BlindingInv'
      <3> DEFINE gen == ctx[c].gen
      <3>1. gen.built /\ Kept(gen)
        BY <2>1, <2>6 DEF Randomize, context_is_proper
      <3>2. CASE ctx' = [ctx EXCEPT ![c].gen = Reset(@)]
        <4>1. ctx' = [ctx EXCEPT ![c].gen = Reset(gen)]
          BY <3>2
        <4> QED
          BY <2>5, <3>1, <4>1, RenewalsCancel
      <3>3. ASSUME NEW output \in BlindOutputs,
                   ctx' = [ctx EXCEPT ![c].gen = Blind(@, output)]
            PROVE  BlindingInv'
        <4>1. ctx' = [ctx EXCEPT ![c].gen = Blind(gen, output)]
          BY <3>3
        <4> QED
          BY <2>5, <3>1, <4>1, RenewalsCancel
      <3> QED
        BY <2>6, <3>2, <3>3 DEF Randomize
    <2>7. ASSUME NEW c \in Contexts, Destroy(c)
          PROVE  BlindingInv'
      <3>1. CASE ctx[c].memory = "library"
        BY <2>7, <3>1, RenewalsCancel, PlaceKeeps DEF Destroy, Nowhere
      <3>2. CASE ctx[c].memory # "library"
        <4>1. ctx' = [ctx EXCEPT ![c].gen = Cleared]
          BY <2>7, <3>2 DEF Destroy, ContextCleared
        <4> QED
          BY <2>5, <4>1, RenewalsCancel
      <3> QED
        BY <3>1, <3>2
    <2>8. CASE UNCHANGED ctx
      BY <2>8 DEF BlindingInv, OffsetsCancel
    <2> QED
      BY <2>2, <2>3, <2>4, <2>6, <2>7, <2>8 DEF GenNext
  <1>3. BlindingInv => BlindingCancels
    BY MultipliesRight DEF BlindingInv, BlindingCancels, context_is_proper
  <1> QED
    BY <1>1, <1>2, <1>3, PTL DEF GenSpec
=============================================================================
