--------------------------- MODULE MusigSignProofs ---------------------------
(***************************************************************************)
(* The bookkeeping of tweaks in the keyagg cache, the equation every honest *)
(* partial signature satisfies, and the one the sum of the shares          *)
(* satisfies, proved for every group order, every choice of odd points,    *)
(* every list of keys and every sequence of tweaks.                        *)
(***************************************************************************)
EXTENDS MusigSign, GroupProofs, FiniteSetTheorems

-----------------------------------------------------------------------------
(* TweakAccounting is inductive together with the types of what it mentions. *)
Sign(acc, p) == IF acc = 1 THEN scalar_negate(p) ELSE p

CacheInv ==
    /\ cache \in CachesWith({cache.second_pk})
    /\ base \in Scalars
    /\ TweakAccounting

(* Making the key even turns the sign of both of its parts. *)
LEMMA EvenedKeepsAccount ==
    ASSUME NEW second, NEW c \in CachesWith(second), NEW b \in Scalars, NEW xonly \in BOOLEAN,
           c.pk = scalar_add(Sign(c.parity_acc, b), c.tweak)
    PROVE  /\ Evened(c, xonly) \in CachesWith(second)
           /\ Evened(c, xonly).pk
                = scalar_add(Sign(Evened(c, xonly).parity_acc, b), Evened(c, xonly).tweak)
  <1> DEFINE s == Sign(c.parity_acc, b)
             e == Evened(c, xonly)
  <1>1. /\ c.pk \in Scalars /\ c.tweak \in Scalars
        /\ c.parity_acc \in {0, 1} /\ c.second_pk \in second
    BY DEF CachesWith
  <1>2. s \in Scalars
    BY NegateIs DEF Sign
  <1>3. CASE ~(xonly /\ fe_is_odd_y(c.pk))
    <2>1. e = c
      BY <1>3 DEF Evened
    <2> QED
      BY <2>1
  <1>4. CASE xonly /\ fe_is_odd_y(c.pk)
    <2>1. e = [c EXCEPT !.pk = ge_neg(@), !.parity_acc = 1 - @,
                        !.tweak = scalar_negate(@)]
      BY <1>4 DEF Evened
    <2>2. /\ scalar_negate(c.pk) \in Scalars
          /\ scalar_negate(c.tweak) \in Scalars
          /\ 1 - c.parity_acc \in {0, 1}
      BY <1>1, NegateIs
    <2>3. /\ e \in CachesWith(second)
          /\ e.pk = scalar_negate(c.pk)
          /\ e.parity_acc = 1 - c.parity_acc
          /\ e.tweak = scalar_negate(c.tweak)
      BY <1>1, <2>1, <2>2 DEF CachesWith, ge_neg
    <2>4. Sign(1 - c.parity_acc, b) = scalar_negate(s)
      <3>1. CASE c.parity_acc = 0
        BY <3>1 DEF Sign
      <3>2. CASE c.parity_acc = 1
        BY <3>2, NegateTwice DEF Sign
      <3> QED
        BY <1>1, <3>1, <3>2
    <2>5. scalar_negate(c.pk) = scalar_add(scalar_negate(s), scalar_negate(c.tweak))
      BY <1>1, <1>2, NegateSum
    <2> HIDE DEF e, s
    <2> QED
      BY <2>3, <2>4, <2>5 DEF e
  <1> QED
    BY <1>3, <1>4

(* Adding a tweak keeps the account of the cache.                            *)
LEMMA TweakAddInv ==
    ASSUME CacheInv, NEW tweak, NEW xonly \in BOOLEAN, TweakAdd(tweak, xonly)
    PROVE  CacheInv'
  <1>1. base' = base /\ cache # NoCache
    BY DEF TweakAdd
  <1>2. CASE ~TweakAccepted(cache, tweak, xonly)
    <2>1. cache' = cache
      BY <1>2 DEF TweakAdd
    <2> QED
      BY <1>1, <2>1 DEF CacheInv, TweakAccounting
  <1>3. CASE TweakAccepted(cache, tweak, xonly)
    <2> DEFINE e == Evened(cache, xonly)
    <2>1. /\ tweak \in Scalars
          /\ pubkey_tweak_add(e.pk, tweak) # Infinity
          /\ cache' = [e EXCEPT !.pk = pubkey_tweak_add(@, tweak),
                                !.tweak = scalar_add(@, tweak)]
      BY <1>3 DEF TweakAdd, TweakAccepted, TweakFails, Tweaked
    <2>2. /\ e \in CachesWith({cache.second_pk})
          /\ e.pk = scalar_add(Sign(e.parity_acc, base), e.tweak)
      BY <1>1, EvenedKeepsAccount DEF CacheInv, TweakAccounting, Sign
    <2> HIDE DEF e
    <2>3. e.pk \in Scalars /\ e.tweak \in Scalars /\ Sign(e.parity_acc, base) \in Scalars
      BY <2>2, NegateIs DEF CacheInv, CachesWith, Sign
    <2>4. /\ pubkey_tweak_add(e.pk, tweak) \in Scalars
          /\ scalar_add(e.tweak, tweak) \in Scalars
      BY <2>1, <2>3, TweakAddIs, AddIs
    <2>5. /\ cache' \in CachesWith({cache.second_pk})
          /\ cache'.second_pk = cache.second_pk
          /\ cache'.pk = pubkey_tweak_add(e.pk, tweak)
          /\ cache'.tweak = scalar_add(e.tweak, tweak)
          /\ cache'.parity_acc = e.parity_acc
      BY <2>1, <2>2, <2>4 DEF CachesWith
    <2>6. pubkey_tweak_add(e.pk, tweak)
            = scalar_add(Sign(e.parity_acc, base), scalar_add(e.tweak, tweak))
      BY <2>1, <2>2, <2>3, TweakAddIs, AddAssoc
    <2>7. TweakAccounting'
      BY <1>1, <2>1, <2>5, <2>6 DEF TweakAccounting, Sign
    <2> QED
      BY <1>1, <2>5, <2>7 DEF CacheInv
  <1> QED
    BY <1>2, <1>3

(* A fresh aggregate starts the account.                                     *)
LEMMA PubkeyAggInv ==
    ASSUME PubkeyAgg
    PROVE  CacheInv'
  <1> DEFINE p == AggPoint(coef, seckeys)
  <1>1. p \in Points /\ cache' = pubkey_agg(coef, seckeys) /\ base' = cache'.pk
    BY DEF PubkeyAgg
  <1>2. /\ cache'.pk = p
        /\ cache'.parity_acc = 0
        /\ cache'.tweak = 0
        /\ cache' = [pk |-> p, second_pk |-> cache'.second_pk,
                     parity_acc |-> 0, tweak |-> 0]
    BY <1>1 DEF pubkey_agg
  <1>3. p \in Scalars /\ p # Infinity /\ 0 \in Scalars
    BY <1>1, GroupAssumption DEF Points, Scalars
  <1> HIDE DEF p
  <1>4. scalar_add(p, 0) = p
    <2>1. scalar_add(p, 0) = IF p + 0 < N THEN p + 0 ELSE (p + 0) - N
      BY <1>3, AddIs
    <2> QED
      BY <2>1, <1>3, GroupAssumption DEF Scalars
  <1>5. cache' \in CachesWith({cache'.second_pk})
    BY <1>2, <1>3 DEF CachesWith
  <1>6. TweakAccounting'
    BY <1>1, <1>2, <1>3, <1>4 DEF TweakAccounting
  <1> QED
    BY <1>1, <1>2, <1>3, <1>5, <1>6 DEF CacheInv

(* Every step keeps the account.                                             *)
LEMMA CacheNext == CacheInv /\ [Next]_vars => CacheInv'
  <1> SUFFICES ASSUME CacheInv, [Next]_vars PROVE CacheInv'
    OBVIOUS
  <1>1. CASE PubkeyAgg
    BY <1>1, PubkeyAggInv
  <1>2. ASSUME NEW tweak \in TweakChoices, NEW xonly \in BOOLEAN, TweakAdd(tweak, xonly)
        PROVE  CacheInv'
    BY <1>2, TweakAddInv
  <1>3. ASSUME UNCHANGED <<cache, base>> PROVE CacheInv'
    BY <1>3 DEF CacheInv, TweakAccounting
  <1>4. ASSUME NEW i \in Signers, NEW k \in NonceChoices, NonceGen(i, k)
        PROVE  CacheInv'
    BY <1>3, <1>4 DEF NonceGen
  <1>5. ASSUME NEW b \in HashChoices, NEW e \in HashChoices, NonceProcess(b, e)
        PROVE  CacheInv'
    BY <1>3, <1>5 DEF NonceProcess
  <1>6. ASSUME NEW i \in Signers, NEW j \in Signers, PartialSign(i, j)
        PROVE  CacheInv'
    BY <1>3, <1>6 DEF PartialSign
  <1>7. ASSUME NEW i \in Signers, NEW s \in WireShares, PartialSigParse(i, s)
        PROVE  CacheInv'
    BY <1>3, <1>7 DEF PartialSigParse
  <1>8. CASE PartialSigAgg
    BY <1>3, <1>8 DEF PartialSigAgg
  <1>9. CASE UNCHANGED vars
    BY <1>3, <1>9 DEF vars
  <1> QED
    BY <1>1, <1>2, <1>4, <1>5, <1>6, <1>7, <1>8, <1>9 DEF Next

(* In keyagg_impl.h: whatever tweaks are applied, in whatever order and mode, *)
(* the tweaked key is the aggregate key with the recorded sign, plus the      *)
(* recorded tweak; this is what partial_sign and nonce_process rely on.       *)
THEOREM TweaksAccounted == Spec => []TweakAccounting
  <1>1. Init => CacheInv
    BY GroupAssumption
       DEF Init, CacheInv, CachesWith, NoCache, TweakAccounting, Scalars, Infinity
  <1>2. CacheInv /\ [Next]_vars => CacheInv'
    BY CacheNext
  <1>3. CacheInv => TweakAccounting
    BY DEF CacheInv
  <1> QED
    BY <1>1, <1>2, <1>3, PTL DEF Spec

-----------------------------------------------------------------------------
(* An honest share satisfies the equation that partial_sig_verify checks.    *)
Signed(negate, p) == IF negate THEN scalar_negate(p) ELSE p

(* A sign may be taken out of a product and out of a sum.                    *)
LEMMA SignedIs ==
    ASSUME NEW negate \in BOOLEAN, NEW a \in Scalars, NEW b \in Scalars
    PROVE  /\ Signed(negate, a) \in Scalars
           /\ scalar_mul(Signed(negate, a), b) = Signed(negate, scalar_mul(a, b))
           /\ scalar_mul(a, Signed(negate, b)) = Signed(negate, scalar_mul(a, b))
           /\ scalar_add(Signed(negate, a), Signed(negate, b)) = Signed(negate, scalar_add(a, b))
  <1>1. Signed(negate, a) \in Scalars /\ Signed(negate, b) \in Scalars
    BY NegateIs DEF Signed
  <1>2. scalar_mul(Signed(negate, a), b) = Signed(negate, scalar_mul(a, b))
    BY NegateFactor DEF Signed
  <1>3. scalar_mul(Signed(negate, b), a) = Signed(negate, scalar_mul(b, a))
    BY NegateFactor DEF Signed
  <1>4. /\ scalar_mul(Signed(negate, b), a) = scalar_mul(a, Signed(negate, b))
        /\ scalar_mul(b, a) = scalar_mul(a, b)
    BY <1>1, MulIs
  <1>5. scalar_add(Signed(negate, a), Signed(negate, b)) = Signed(negate, scalar_add(a, b))
    BY NegateSum DEF Signed
  <1> QED
    BY <1>1, <1>2, <1>3, <1>4, <1>5

(* (E - (E + R)) + R is zero. *)
LEMMA SumCancels ==
    ASSUME NEW e \in Scalars, NEW r \in Scalars
    PROVE  scalar_add(scalar_add(e, scalar_negate(scalar_add(e, r))), r) = 0
  <1> DEFINE s == scalar_add(e, r)
  <1>1. s \in Scalars /\ s = scalar_add(r, e)
    BY AddIs, AddCommutes
  <1>2. scalar_negate(s) \in Scalars
    BY <1>1, NegateIs
  <1> HIDE DEF s
  <1>3. scalar_add(e, scalar_negate(s)) = scalar_add(scalar_negate(s), e)
    BY <1>2, AddCommutes
  <1>4. scalar_add(scalar_add(scalar_negate(s), e), r) = scalar_add(scalar_negate(s), scalar_add(e, r))
    BY <1>2, AddAssoc
  <1>5. scalar_add(scalar_negate(s), s) = 0
    BY <1>1, NegateCancels
  <1> QED
    BY <1>3, <1>4, <1>5 DEF s

(* The share of the signer with key sk and nonces k.                         *)
LEMMA ShareVerifies ==
    ASSUME NEW sk \in Scalars, NEW k \in Scalars \X Scalars, NEW c, NEW ses,
           ses.challenge \in Scalars, ses.noncecoef \in Scalars,
           keyaggcoef(coef, c.second_pk, sk) \in Scalars
    PROVE  partial_sig_verify(Share(sk, k, c, ses), k, sk, c, ses)
  <1> DEFINE mu == keyaggcoef(coef, c.second_pk, sk)
             e == ses.challenge
             b == ses.noncecoef
             neg == NegatesKey(c)
             odd == ses.fin_nonce_parity = 1
             product == Signed(neg, scalar_mul(e, scalar_mul(sk, mu)))
             nonce == effective_nonce(k, b)
             share == Share(sk, k, c, ses)
  <1>1. neg \in BOOLEAN /\ odd \in BOOLEAN
    BY DEF NegatesKey
  <1>2. k[1] \in Scalars /\ k[2] \in Scalars /\ k = <<k[1], k[2]>>
    OBVIOUS
  <1>3. /\ scalar_mul(sk, mu) \in Scalars /\ scalar_mul(e, mu) \in Scalars
        /\ scalar_mul(e, scalar_mul(sk, mu)) \in Scalars /\ product \in Scalars
        /\ scalar_mul(b, k[2]) \in Scalars /\ nonce \in Scalars
    BY <1>1, <1>2, MulIs, AddIs, SignedIs DEF effective_nonce, gej_add
  <1>4. share = scalar_add(product, Signed(odd, nonce))
    <2> DEFINE kn == IF odd THEN <<scalar_negate(k[1]), scalar_negate(k[2])>> ELSE k
    <2>1. share = scalar_add(scalar_mul(e, scalar_mul(Signed(neg, sk), mu)), effective_nonce(kn, b))
      BY DEF Share, Signed
    <2>2. scalar_mul(e, scalar_mul(Signed(neg, sk), mu)) = product
      <3>1. scalar_mul(Signed(neg, sk), mu) = Signed(neg, scalar_mul(sk, mu))
        BY <1>1, SignedIs
      <3> QED
        BY <1>1, <1>3, <3>1, SignedIs
    <2>3. effective_nonce(kn, b) = Signed(odd, nonce)
      <3>1. kn[1] = Signed(odd, k[1]) /\ kn[2] = Signed(odd, k[2])
        <4>1. CASE odd
          BY <4>1 DEF Signed
        <4>2. CASE ~odd
          BY <4>2 DEF Signed
        <4> QED
          BY <4>1, <4>2
      <3>2. scalar_mul(b, Signed(odd, k[2])) = Signed(odd, scalar_mul(b, k[2]))
        <4> DEFINE second == k[2]
        <4>1. second \in Scalars /\ b \in Scalars /\ odd \in BOOLEAN
          BY <1>1, <1>2
        <4> HIDE DEF second, odd
        <4>2. scalar_mul(b, Signed(odd, second)) = Signed(odd, scalar_mul(b, second))
          BY ONLY <4>1, SignedIs, ZenonT(30)
        <4> QED
          BY <4>2 DEF second
      <3>3. scalar_add(Signed(odd, k[1]), Signed(odd, scalar_mul(b, k[2]))) = Signed(odd, nonce)
        <4>1. nonce = scalar_add(k[1], scalar_mul(b, k[2]))
          BY DEF effective_nonce, gej_add
        <4> HIDE DEF nonce, odd
        <4>2. scalar_add(Signed(odd, k[1]), Signed(odd, scalar_mul(b, k[2])))
                = Signed(odd, scalar_add(k[1], scalar_mul(b, k[2])))
          <5> DEFINE first == k[1]  second == scalar_mul(b, k[2])
          <5>1. first \in Scalars /\ second \in Scalars /\ odd \in BOOLEAN
            BY <1>1, <1>2, <1>3
          <5> HIDE DEF first, second
          <5>2. scalar_add(Signed(odd, first), Signed(odd, second)) = Signed(odd, scalar_add(first, second))
            BY ONLY <5>1, SignedIs, ZenonT(30)
          <5> QED
            BY <5>2 DEF first, second
        <4> QED
          BY <4>1, <4>2
      <3> QED
        BY <3>1, <3>2, <3>3 DEF effective_nonce, gej_add
    <2> QED
      BY <2>1, <2>2, <2>3
  <1>5. scalar_mul(Signed(neg, scalar_mul(e, mu)), sk) = product
    <2>1. scalar_mul(Signed(neg, scalar_mul(e, mu)), sk) = Signed(neg, scalar_mul(scalar_mul(e, mu), sk))
      BY <1>1, <1>3, SignedIs
    <2>2. scalar_mul(scalar_mul(e, mu), sk) = scalar_mul(e, scalar_mul(mu, sk))
      BY MulAssoc
    <2>3. scalar_mul(mu, sk) = scalar_mul(sk, mu)
      BY MulIs
    <2> QED
      BY <2>1, <2>2, <2>3
  <1>6. partial_sig_verify(share, k, sk, c, ses)
          <=> gej_add(ecmult(sk, Signed(neg, scalar_mul(e, mu)), scalar_negate(share)),
                      Signed(odd, nonce)) = Infinity
    BY DEF partial_sig_verify, Signed, ge_neg
  <1>7. Signed(odd, nonce) \in Scalars
    BY <1>1, <1>3, SignedIs
  <1>8. scalar_add(scalar_add(product, scalar_negate(share)), Signed(odd, nonce)) = 0
    BY <1>3, <1>4, <1>7, SumCancels
  <1> QED
    BY <1>5, <1>6, <1>8 DEF ecmult, gej_add, Infinity

-----------------------------------------------------------------------------
(* HonestShareVerifies is inductive once the nonces are known to be those a  *)
(* share was made with: a secret nonce that is not zeroed belongs to the     *)
(* public one, and from the session on no public nonce changes.              *)
Nonces == [Signers -> NonceChoices \cup {Zeroed}]

ShareInv ==
    /\ seckeys \in KeyLists /\ coef \in [Range(seckeys) -> HashChoices]
    /\ pubnonce \in Nonces /\ secnonce \in Nonces /\ DOMAIN psig = Signers
    /\ session.challenge \in Scalars /\ session.noncecoef \in Scalars
    /\ \A i \in Signers : secnonce[i] \in {pubnonce[i], Zeroed}
    /\ session # NoSession => \A i \in Signers : pubnonce[i] # Zeroed
    /\ session = NoSession => \A i \in Signers : psig[i].from # "sign"
    /\ HonestShareVerifies

(* Keys and coefficients are scalars.                                        *)
LEMMA SignersTyped ==
    ASSUME ShareInv, NEW i \in Signers, NEW second
    PROVE  seckeys[i] \in Scalars /\ keyaggcoef(coef, second, seckeys[i]) \in Scalars
  <1>1. seckeys \in Seq(Points)
    BY MusigAssumption DEF ShareInv
  <1>2. seckeys[i] \in Points /\ i \in DOMAIN seckeys
    BY <1>1 DEF Signers
  <1>3. seckeys[i] \in Range(seckeys)
    BY <1>2 DEF Range
  <1>4. coef[seckeys[i]] \in HashChoices
    BY <1>3 DEF ShareInv
  <1> QED
    BY <1>2, <1>4, MusigAssumption, GroupAssumption DEF keyaggcoef, Points, Scalars

(* A signature made with the session's cache verifies.                       *)
LEMMA PartialSignShares ==
    ASSUME ShareInv, NEW i \in Signers, NEW j \in Signers, PartialSign(i, j)
    PROVE  ShareInv'
  <1>1. /\ seckeys' = seckeys /\ coef' = coef /\ pubnonce' = pubnonce /\ session' = session
        /\ cache' = cache
        /\ secnonce[i] # Zeroed
        /\ secnonce' = [secnonce EXCEPT ![i] = Zeroed]
        /\ Signers' = Signers
    BY DEF PartialSign, Signers
  <1>2. secnonce' \in Nonces /\ \A x \in Signers : secnonce'[x] \in {pubnonce[x], Zeroed}
    BY <1>1 DEF ShareInv, Nonces
  <1>3. CASE psig' = psig
    BY <1>1, <1>2, <1>3 DEF ShareInv, HonestShareVerifies, Verifies, partial_sig_verify, Nonces,
                            keyaggcoef
  <1>4. CASE psig' # psig
    <2> DEFINE share == [s |-> Share(seckeys[j], secnonce[i], cache, session),
                         from |-> IF cache = session.cache THEN "sign" ELSE "stale"]
    <2>1. /\ seckeys[i] = seckeys[j] /\ session # NoSession
          /\ psig' = [psig EXCEPT ![i] = share]
      BY <1>4 DEF PartialSign
    <2>2. pubnonce[i] = secnonce[i] /\ secnonce[i] \in Scalars \X Scalars
      BY <1>1, MusigAssumption DEF ShareInv, Nonces
    <2>3. /\ seckeys[i] \in Scalars
          /\ keyaggcoef(coef, session.cache.second_pk, seckeys[i]) \in Scalars
      BY SignersTyped
    <2>4. cache = session.cache => partial_sig_verify(share.s, pubnonce[i], seckeys[i], session.cache, session)
      <3> SUFFICES ASSUME cache = session.cache
                   PROVE  partial_sig_verify(share.s, pubnonce[i], seckeys[i], session.cache, session)
        OBVIOUS
      <3>1. share.s = Share(seckeys[i], pubnonce[i], session.cache, session)
        BY <2>1, <2>2
      <3>2. session.challenge \in Scalars /\ session.noncecoef \in Scalars
        BY DEF ShareInv
      <3> QED
        BY <2>2, <2>3, <3>1, <3>2, ShareVerifies
    <2> HIDE DEF share
    <2>5. psig'[i] = share /\ DOMAIN psig' = Signers /\ \A x \in Signers \ {i} : psig'[x] = psig[x]
      BY <2>1 DEF ShareInv
    <2>6. share.from = "sign" => cache = session.cache
      BY DEF share
    <2>7. HonestShareVerifies'
      <3> SUFFICES ASSUME NEW x \in Signers, psig'[x].from = "sign"
                   PROVE  partial_sig_verify(psig'[x].s, pubnonce[x], seckeys[x], session.cache, session)
        BY <1>1 DEF HonestShareVerifies, Verifies, partial_sig_verify, keyaggcoef
      <3>1. CASE x = i
        BY <2>4, <2>5, <2>6, <3>1
      <3>2. CASE x # i
        BY <2>5, <3>2 DEF ShareInv, HonestShareVerifies, Verifies
      <3> QED
        BY <3>1, <3>2
    <2> QED
      BY <1>1, <1>2, <2>1, <2>5, <2>7 DEF ShareInv, Nonces
  <1> QED
    BY <1>3, <1>4

(* No other step changes what an honest share was made from.                 *)
LEMMA OthersShare ==
    ASSUME ShareInv, UNCHANGED <<seckeys, coef, secnonce, pubnonce, session, psig>>
    PROVE  ShareInv'
  BY DEF ShareInv, HonestShareVerifies, Verifies, partial_sig_verify, keyaggcoef, Nonces, Signers

(* Nonces are drawn before there is a session, and so before any share.      *)
LEMMA NonceGenShares ==
    ASSUME ShareInv, NEW i \in Signers, NEW k \in NonceChoices, NonceGen(i, k)
    PROVE  ShareInv'
  <1>1. /\ seckeys' = seckeys /\ coef' = coef /\ session' = session /\ psig' = psig
        /\ pubnonce[i] = Zeroed
        /\ secnonce' = [secnonce EXCEPT ![i] = k]
        /\ pubnonce' = [pubnonce EXCEPT ![i] = k]
        /\ Signers' = Signers
    BY DEF NonceGen, Signers
  <1>2. session = NoSession
    BY <1>1 DEF ShareInv
  <1>3. \A x \in Signers : psig[x].from # "sign"
    BY <1>2 DEF ShareInv
  <1>4. HonestShareVerifies'
    BY <1>1, <1>3 DEF HonestShareVerifies
  <1>5. pubnonce' \in Nonces /\ secnonce' \in Nonces
    BY <1>1 DEF ShareInv, Nonces
  <1>6. \A x \in Signers : secnonce'[x] \in {pubnonce'[x], Zeroed}
    BY <1>1 DEF ShareInv, Nonces
  <1> QED
    BY <1>1, <1>2, <1>3, <1>4, <1>5, <1>6 DEF ShareInv, Nonces

(* A session starts without honest shares.                                   *)
LEMMA NonceProcessShares ==
    ASSUME ShareInv, NEW b \in HashChoices, NEW e \in HashChoices, NonceProcess(b, e)
    PROVE  ShareInv'
  <1>1. /\ seckeys' = seckeys /\ coef' = coef /\ psig' = psig
        /\ pubnonce' = pubnonce /\ secnonce' = secnonce
        /\ session = NoSession /\ \A i \in Signers : pubnonce[i] # Zeroed
        /\ session'.noncecoef = b /\ session'.challenge = e
        /\ Signers' = Signers
    BY DEF NonceProcess, Signers
  <1>2. \A x \in Signers : psig[x].from # "sign"
    BY <1>1 DEF ShareInv
  <1>3. HonestShareVerifies'
    BY <1>1, <1>2 DEF HonestShareVerifies
  <1>4. b \in Scalars /\ e \in Scalars
    BY MusigAssumption
  <1> QED
    BY <1>1, <1>2, <1>3, <1>4 DEF ShareInv, Nonces

(* A share from the wire is not an honest one.                               *)
LEMMA PartialSigParseShares ==
    ASSUME ShareInv, NEW i \in Signers, NEW s \in WireShares, PartialSigParse(i, s)
    PROVE  ShareInv'
  <1> DEFINE share == [s |-> s, from |-> "wire"]
  <1>1. /\ seckeys' = seckeys /\ coef' = coef /\ session' = session
        /\ pubnonce' = pubnonce /\ secnonce' = secnonce
        /\ session # NoSession
        /\ psig' = [psig EXCEPT ![i] = share]
        /\ Signers' = Signers
    BY DEF PartialSigParse, Signers
  <1>2. /\ DOMAIN psig' = Signers /\ psig'[i].from # "sign"
        /\ \A x \in Signers \ {i} : psig'[x] = psig[x]
    BY <1>1 DEF ShareInv
  <1>3. HonestShareVerifies'
    <2> SUFFICES ASSUME NEW x \in Signers, psig'[x].from = "sign"
                 PROVE  partial_sig_verify(psig'[x].s, pubnonce[x], seckeys[x], session.cache, session)
      BY <1>1 DEF HonestShareVerifies, Verifies, partial_sig_verify, keyaggcoef
    <2> QED
      BY <1>2 DEF ShareInv, HonestShareVerifies, Verifies
  <1> QED
    BY <1>1, <1>2, <1>3 DEF ShareInv, Nonces

(* Every step keeps the invariant.                                           *)
LEMMA ShareNext == ShareInv /\ [Next]_vars => ShareInv'
  <1> SUFFICES ASSUME ShareInv, [Next]_vars PROVE ShareInv'
    OBVIOUS
  <1>1. CASE PubkeyAgg
    BY <1>1, OthersShare DEF PubkeyAgg
  <1>2. ASSUME NEW tweak \in TweakChoices, NEW xonly \in BOOLEAN, TweakAdd(tweak, xonly)
        PROVE  ShareInv'
    BY <1>2, OthersShare DEF TweakAdd
  <1>3. ASSUME NEW i \in Signers, NEW k \in NonceChoices, NonceGen(i, k)
        PROVE  ShareInv'
    BY <1>3, NonceGenShares
  <1>4. ASSUME NEW b \in HashChoices, NEW e \in HashChoices, NonceProcess(b, e)
        PROVE  ShareInv'
    BY <1>4, NonceProcessShares
  <1>5. ASSUME NEW i \in Signers, NEW j \in Signers, PartialSign(i, j)
        PROVE  ShareInv'
    BY <1>5, PartialSignShares
  <1>6. ASSUME NEW i \in Signers, NEW s \in WireShares, PartialSigParse(i, s)
        PROVE  ShareInv'
    BY <1>6, PartialSigParseShares
  <1>7. CASE PartialSigAgg
    BY <1>7, OthersShare DEF PartialSigAgg
  <1>8. CASE UNCHANGED vars
    BY <1>8, OthersShare DEF vars
  <1> QED
    BY <1>1, <1>2, <1>3, <1>4, <1>5, <1>6, <1>7, <1>8 DEF Next

-----------------------------------------------------------------------------
(* The sum of the shares. Expected(i) is the only share of signer i that     *)
(* verifies, Deviation(i) what is wrong with the one that arrived.           *)
Expected(i) ==
    scalar_add(Signed(NegatesKey(session.cache),
                      scalar_mul(scalar_mul(session.challenge,
                                            keyaggcoef(coef, session.cache.second_pk, seckeys[i])),
                                 seckeys[i])),
               Signed(session.fin_nonce_parity = 1,
                      effective_nonce(pubnonce[i], session.noncecoef)))
Deviation(i) == scalar_add(psig[i].s, scalar_negate(Expected(i)))
Deviations == [i \in Signers |-> Deviation(i)]

(* What the key and the nonce of the session and its signature are made of.  *)
SessionRight ==
    /\ session.cache \in CachesWith({SecondPk(seckeys)})
    /\ session.cache.pk \in Points
    /\ session.cache.pk = scalar_add(Sign(session.cache.parity_acc, base), session.cache.tweak)
    /\ base = AggPoint(coef, seckeys)
    /\ session.r = effective_nonce(<<AggNonce(1), AggNonce(2)>>, session.noncecoef)
    /\ session.r # Infinity =>
         /\ session.fin_nonce = X(session.r)
         /\ session.fin_nonce_parity = 1 <=> fe_is_odd_y(session.r)
    /\ session.s_part = SPart(session.cache, session.challenge)

SigInv ==
    /\ \A i \in Signers : psig[i].s \in Scalars
    /\ cache # NoCache => cache.second_pk = SecondPk(seckeys) /\ base = AggPoint(coef, seckeys)
    /\ session # NoSession => SessionRight
    /\ sig # NoSig =>
         /\ session # NoSession /\ \A i \in Signers : psig[i] # NoShare
         /\ sig = [r |-> session.fin_nonce, s |-> AggShares(session)]

(* A sign is a factor.                                                       *)
LEMMA SignedFactor ==
    ASSUME NEW negate \in BOOLEAN, NEW a \in Scalars
    PROVE  /\ Signed(negate, 1) \in Scalars
           /\ Signed(negate, a) = scalar_mul(Signed(negate, 1), a)
  <1>1. 1 \in Scalars
    BY GroupAssumption DEF Scalars
  <1>2. scalar_mul(Signed(negate, 1), a) = Signed(negate, scalar_mul(1, a))
    BY <1>1, SignedIs
  <1> QED
    BY <1>1, <1>2, SignedIs, OneTimes

(* What Expected is made of, typed.                                          *)
LEMMA SignerIs ==
    ASSUME ShareInv, NEW i \in Signers
    PROVE  /\ pubnonce[i][1] \in Scalars /\ pubnonce[i][2] \in Scalars
           /\ effective_nonce(pubnonce[i], session.noncecoef) \in Scalars
           /\ session.challenge \in Scalars /\ session.noncecoef \in Scalars
           /\ seckeys[i] \in Scalars
           /\ keyaggcoef(coef, session.cache.second_pk, seckeys[i]) \in Scalars
  <1>1. pubnonce[i] \in NonceChoices \cup {Zeroed}
    BY DEF ShareInv, Nonces
  <1>2. pubnonce[i][1] \in Scalars /\ pubnonce[i][2] \in Scalars
    BY <1>1, MusigAssumption, GroupAssumption DEF Zeroed, Scalars
  <1>3. session.challenge \in Scalars /\ session.noncecoef \in Scalars
    BY DEF ShareInv
  <1>4. effective_nonce(pubnonce[i], session.noncecoef) \in Scalars
    <2>1. scalar_mul(session.noncecoef, pubnonce[i][2]) \in Scalars
      BY <1>2, <1>3, MulIs
    <2> QED
      BY <1>2, <2>1, AddIs DEF effective_nonce, gej_add
  <1> QED
    BY <1>2, <1>3, <1>4, SignersTyped

(* A share verifies exactly if it is the expected one.                       *)
LEMMA DeviationIs ==
    ASSUME ShareInv, NEW i \in Signers, psig[i].s \in Scalars
    PROVE  /\ Expected(i) \in Scalars /\ Deviation(i) \in Scalars
           /\ psig[i].s = scalar_add(Expected(i), Deviation(i))
           /\ Verifies(i) <=> Deviation(i) = 0
  <1> DEFINE s == psig[i].s
             emu == scalar_mul(session.challenge, keyaggcoef(coef, session.cache.second_pk, seckeys[i]))
             neg == NegatesKey(session.cache)
             odd == session.fin_nonce_parity = 1
             rj == effective_nonce(pubnonce[i], session.noncecoef)
             product == Signed(neg, scalar_mul(emu, seckeys[i]))
             rs == Signed(odd, rj)
  <1>1. neg \in BOOLEAN /\ odd \in BOOLEAN
    BY DEF NegatesKey
  <1>2. emu \in Scalars /\ rj \in Scalars /\ seckeys[i] \in Scalars
    BY SignerIs, MulIs
  <1>3. Verifies(i) <=> gej_add(ecmult(seckeys[i], Signed(neg, emu), scalar_negate(s)), rs) = Infinity
    BY DEF Verifies, partial_sig_verify, Signed, ge_neg
  <1>4. Expected(i) = scalar_add(product, rs)
    BY DEF Expected
  <1> HIDE DEF emu, neg, odd, rj
  <1>5. product \in Scalars /\ rs \in Scalars /\ scalar_mul(Signed(neg, emu), seckeys[i]) = product
    <2>1. scalar_mul(emu, seckeys[i]) \in Scalars
      BY <1>2, MulIs
    <2>2. product \in Scalars
      BY <1>1, <2>1, SignedIs
    <2>3. rs \in Scalars
      BY <1>1, <1>2, SignedIs
    <2>4. scalar_mul(Signed(neg, emu), seckeys[i]) = product
      BY <1>1, <1>2, SignedIs
    <2> QED
      BY <2>2, <2>3, <2>4
  <1>6. Verifies(i) <=> scalar_add(scalar_add(product, scalar_negate(s)), rs) = 0
    BY <1>3, <1>5 DEF ecmult, gej_add, Infinity
  <1> HIDE DEF product, rs
  <1>7. /\ Expected(i) \in Scalars /\ scalar_negate(Expected(i)) \in Scalars /\ scalar_negate(s) \in Scalars
        /\ Deviation(i) \in Scalars
    BY <1>4, <1>5, AddIs, NegateIs DEF Deviation
  <1>8. scalar_add(scalar_add(product, scalar_negate(s)), rs) = scalar_add(scalar_negate(s), Expected(i))
    <2>1. scalar_add(product, scalar_negate(s)) = scalar_add(scalar_negate(s), product)
      BY <1>5, <1>7, AddCommutes
    <2> QED
      BY <1>4, <1>5, <1>7, <2>1, AddAssoc
  <1>9. Deviation(i) = scalar_add(scalar_negate(Expected(i)), s)
    BY <1>7, AddCommutes DEF Deviation
  <1>10. Deviation(i) = 0 <=> Expected(i) = s
    BY <1>7, <1>9, NegateCancels
  <1>11. Verifies(i) <=> s = Expected(i)
    <2>1. scalar_add(scalar_negate(s), Expected(i)) = 0 <=> s = Expected(i)
      BY <1>7, NegateCancels
    <2> QED
      BY <1>6, <1>8, <2>1
  <1>12. s = scalar_add(Expected(i), Deviation(i))
    <2>1. scalar_add(Expected(i), scalar_negate(Expected(i))) = 0
      BY <1>7, NegateCancels, AddCommutes
    <2>2. scalar_add(Expected(i), scalar_add(scalar_negate(Expected(i)), s)) = scalar_add(0, s)
      BY <1>7, <2>1, AddAssoc
    <2> QED
      BY <1>9, <2>2, AddZero
  <1> QED
    BY <1>7, <1>10, <1>11, <1>12

(* Signers are counted from one.                                             *)
LEMMA SignersAre ==
    ASSUME ShareInv
    PROVE  Len(seckeys) \in Nat /\ Signers = 1 .. Len(seckeys) /\ DOMAIN seckeys = Signers
  <1>1. seckeys \in Seq(Points)
    BY MusigAssumption DEF ShareInv
  <1> QED
    BY <1>1 DEF Signers

(* The parts of the expected shares that come from the keys.                 *)
KeyPart(i) ==
    Signed(NegatesKey(session.cache),
           scalar_mul(scalar_mul(session.challenge,
                                 keyaggcoef(coef, session.cache.second_pk, seckeys[i])),
                      seckeys[i]))

(* They add up to the aggregate key times the challenge.                     *)
LEMMA KeyPartsTotal ==
    ASSUME ShareInv, SessionRight
    PROVE  /\ \A i \in Signers : KeyPart(i) \in Scalars
           /\ base \in Scalars
           /\ Total(0, [i \in Signers |-> KeyPart(i)], Len(seckeys))
                = Signed(NegatesKey(session.cache), scalar_mul(session.challenge, base))
  <1> DEFINE n == Len(seckeys)
             e == session.challenge
             mu(i) == keyaggcoef(coef, session.cache.second_pk, seckeys[i])
             neg == NegatesKey(session.cache)
             c == scalar_mul(Signed(neg, 1), e)
             points == [q \in DOMAIN seckeys |->
                          scalar_mul(keyaggcoef(coef, SecondPk(seckeys), seckeys[q]), seckeys[q])]
             parts == [i \in Signers |-> KeyPart(i)]
  <1>1. n \in Nat /\ Signers = 1 .. n /\ DOMAIN seckeys = Signers
    BY SignersAre
  <1>2. neg \in BOOLEAN /\ e \in Scalars /\ \A i \in Signers : mu(i) \in Scalars /\ seckeys[i] \in Scalars
    BY SignersTyped DEF NegatesKey, ShareInv
  <1>3. session.cache.second_pk = SecondPk(seckeys) /\ base = Total(0, points, n)
    BY DEF SessionRight, CachesWith, AggPoint, Infinity
  <1>4. \A i \in Signers : points[i] = scalar_mul(mu(i), seckeys[i])
    BY <1>1, <1>3
  <1>5. \A i \in Signers : parts[i] = Signed(neg, scalar_mul(scalar_mul(e, mu(i)), seckeys[i]))
    BY DEF KeyPart
  <1>6. \A i \in Signers : parts[i] = KeyPart(i)
    OBVIOUS
  <1> HIDE DEF n, e, mu, neg, points, parts
  <1>7. c \in Scalars /\ Signed(neg, 1) \in Scalars
    <2>1. Signed(neg, 1) \in Scalars
      BY <1>2, SignedFactor
    <2> QED
      BY <1>2, <2>1, MulIs
  <1>8. ASSUME NEW i \in Signers
        PROVE  points[i] \in Scalars /\ parts[i] = scalar_mul(c, points[i]) /\ parts[i] \in Scalars
    <2>1. mu(i) \in Scalars /\ seckeys[i] \in Scalars
      BY <1>2
    <2>2. points[i] \in Scalars
      BY <1>4, <2>1, MulIs
    <2>3. scalar_mul(scalar_mul(e, mu(i)), seckeys[i]) = scalar_mul(e, points[i])
      BY <1>2, <1>4, <2>1, MulAssoc
    <2>4. scalar_mul(e, points[i]) \in Scalars
      BY <1>2, <2>2, MulIs
    <2>5. parts[i] = scalar_mul(Signed(neg, 1), scalar_mul(e, points[i]))
      BY <1>2, <1>5, <2>3, <2>4, SignedFactor
    <2>6. parts[i] = scalar_mul(c, points[i])
      BY <1>2, <1>7, <2>2, <2>5, MulAssoc
    <2> QED
      BY <1>7, <2>2, <2>6, MulIs
  <1>9. base \in Scalars
    <2>1. 0 \in Scalars
      BY GroupAssumption DEF Scalars
    <2> QED
      BY <1>1, <1>3, <1>8, <2>1, TotalType
  <1>10. Total(0, parts, n) = scalar_mul(c, base)
    <2> HIDE DEF c
    <2>1. Total(0, parts, n) = scalar_mul(c, Total(0, points, n))
      BY <1>1, <1>7, <1>8, ScalesFromZero
    <2> QED
      BY <1>3, <2>1
  <1>11. scalar_mul(c, base) = Signed(neg, scalar_mul(e, base))
    <2>1. scalar_mul(c, base) = scalar_mul(Signed(neg, 1), scalar_mul(e, base))
      BY <1>2, <1>7, <1>9, MulAssoc
    <2>2. scalar_mul(e, base) \in Scalars
      BY <1>2, <1>9, MulIs
    <2> QED
      BY <1>2, <2>1, <2>2, SignedFactor
  <1>12. \A i \in Signers : KeyPart(i) \in Scalars
    BY <1>6, <1>8
  <1> QED
    BY <1>9, <1>10, <1>11, <1>12 DEF parts, n, e, neg

(* The parts that come from the nonces add up to the session's nonce.        *)
NoncePart(i) ==
    Signed(session.fin_nonce_parity = 1, effective_nonce(pubnonce[i], session.noncecoef))

LEMMA NoncePartsTotal ==
    ASSUME ShareInv, SessionRight
    PROVE  /\ \A i \in Signers : NoncePart(i) \in Scalars
           /\ session.r \in Scalars
           /\ Total(0, [i \in Signers |-> NoncePart(i)], Len(seckeys))
                = Signed(session.fin_nonce_parity = 1, session.r)
  <1> DEFINE n == Len(seckeys)
             b == session.noncecoef
             odd == session.fin_nonce_parity = 1
             first == [i \in Signers |-> pubnonce[i][1]]
             second == [i \in Signers |-> pubnonce[i][2]]
             scaled == [i \in Signers |-> scalar_mul(b, second[i])]
             rj == [i \in Signers |-> effective_nonce(pubnonce[i], b)]
             parts == [i \in Signers |-> NoncePart(i)]
  <1>1. n \in Nat /\ Signers = 1 .. n
    BY SignersAre
  <1>2. odd \in BOOLEAN /\ b \in Scalars
    BY DEF ShareInv
  <1>3. ASSUME NEW i \in Signers
        PROVE  /\ first[i] \in Scalars /\ second[i] \in Scalars
               /\ scaled[i] = scalar_mul(b, second[i])
               /\ rj[i] = scalar_add(first[i], scaled[i]) /\ rj[i] \in Scalars
               /\ NoncePart(i) = Signed(odd, rj[i]) /\ parts[i] = NoncePart(i)
    BY SignerIs DEF NoncePart, effective_nonce, gej_add
  <1>4. /\ AggNonce(1) = Total(0, first, n) /\ AggNonce(2) = Total(0, second, n)
        /\ session.r = scalar_add(AggNonce(1), scalar_mul(b, AggNonce(2)))
    BY DEF AggNonce, Infinity, SessionRight, effective_nonce, gej_add
  <1> HIDE DEF n, b, odd, first, second, scaled, rj, parts
  <1>5. ASSUME NEW i \in Signers
        PROVE  scaled[i] \in Scalars
    BY <1>2, <1>3, MulIs
  <1>6. Total(0, scaled, n) = scalar_mul(b, Total(0, second, n))
    BY <1>1, <1>2, <1>3, ScalesFromZero
  <1>7. Total(0, rj, n) = scalar_add(Total(0, first, n), Total(0, scaled, n))
    BY <1>1, <1>3, <1>5, AddsFromZero
  <1>8. session.r = Total(0, rj, n)
    BY <1>4, <1>6, <1>7
  <1>9. session.r \in Scalars
    <2>1. 0 \in Scalars
      BY GroupAssumption DEF Scalars
    <2> QED
      BY <1>1, <1>3, <1>8, <2>1, TotalType
  <1>10. Signed(odd, 1) \in Scalars
    <2>1. 0 \in Scalars
      BY GroupAssumption DEF Scalars
    <2> QED
      BY <1>2, <2>1, SignedFactor
  <1>11. ASSUME NEW i \in Signers
         PROVE  parts[i] = scalar_mul(Signed(odd, 1), rj[i]) /\ NoncePart(i) \in Scalars
    <2>1. rj[i] \in Scalars /\ parts[i] = Signed(odd, rj[i])
      BY <1>3
    <2>2. parts[i] = scalar_mul(Signed(odd, 1), rj[i])
      BY <1>2, <2>1, SignedFactor
    <2>3. parts[i] \in Scalars
      BY <1>2, <2>1, SignedIs
    <2> QED
      BY <1>3, <2>2, <2>3
  <1>12. Total(0, parts, n) = scalar_mul(Signed(odd, 1), session.r)
    <2>1. Total(0, parts, n) = scalar_mul(Signed(odd, 1), Total(0, rj, n))
      BY <1>1, <1>3, <1>10, <1>11, ScalesFromZero
    <2> QED
      BY <1>8, <2>1
  <1>13. scalar_mul(Signed(odd, 1), session.r) = Signed(odd, session.r)
    BY <1>2, <1>9, SignedFactor
  <1> QED
    BY <1>9, <1>11, <1>12, <1>13 DEF parts, n, odd

(* The sum of the shares: what partial_sig_agg should give, and what is      *)
(* wrong with the shares.                                                    *)
Discrepancy == Total(0, Deviations, Len(seckeys))
RightSum ==
    scalar_add(scalar_add(Signed(NegatesKey(session.cache), scalar_mul(session.challenge, base)),
                          Signed(session.fin_nonce_parity = 1, session.r)),
               Discrepancy)

LEMMA AggSharesIs ==
    ASSUME ShareInv, SessionRight, session.s_part \in Scalars,
           \A i \in Signers : psig[i].s \in Scalars
    PROVE  /\ Discrepancy \in Scalars
           /\ AggShares(session) = scalar_add(session.s_part, RightSum)
  <1> DEFINE n == Len(seckeys)
             keys == [i \in Signers |-> KeyPart(i)]
             nonces == [i \in Signers |-> NoncePart(i)]
             expected == [i \in Signers |-> Expected(i)]
             shares == [i \in Signers |-> psig[i].s]
  <1>1. n \in Nat /\ Signers = 1 .. n
    BY SignersAre
  <1>2. ASSUME NEW i \in Signers
        PROVE  /\ keys[i] \in Scalars /\ nonces[i] \in Scalars
               /\ expected[i] = scalar_add(keys[i], nonces[i])
    <2>1. keys[i] = KeyPart(i) /\ nonces[i] = NoncePart(i) /\ expected[i] = Expected(i)
      OBVIOUS
    <2>2. KeyPart(i) \in Scalars /\ NoncePart(i) \in Scalars
      BY KeyPartsTotal, NoncePartsTotal
    <2>3. Expected(i) = scalar_add(KeyPart(i), NoncePart(i))
      BY DEF Expected, KeyPart, NoncePart
    <2> QED
      BY <2>1, <2>2, <2>3
  <1>3. ASSUME NEW i \in Signers
        PROVE  /\ expected[i] \in Scalars /\ Deviations[i] \in Scalars /\ shares[i] \in Scalars
               /\ shares[i] = scalar_add(expected[i], Deviations[i])
    BY DeviationIs DEF Deviations
  <1>4. /\ Total(0, keys, n) = Signed(NegatesKey(session.cache), scalar_mul(session.challenge, base))
        /\ Total(0, nonces, n) = Signed(session.fin_nonce_parity = 1, session.r)
    BY KeyPartsTotal, NoncePartsTotal
  <1>5. AggShares(session) = Total(session.s_part, shares, n)
    BY DEF AggShares
  <1> HIDE DEF n, keys, nonces, expected, shares
  <1>6. Total(0, expected, n) = scalar_add(Total(0, keys, n), Total(0, nonces, n))
    BY <1>1, <1>2, AddsFromZero
  <1>7. Total(0, shares, n) = scalar_add(Total(0, expected, n), Total(0, Deviations, n))
    BY <1>1, <1>3, AddsFromZero
  <1>8. AggShares(session) = scalar_add(session.s_part, Total(0, shares, n))
    BY <1>1, <1>3, <1>5, TotalStart
  <1>9. Discrepancy \in Scalars
    <2>1. 0 \in Scalars
      BY GroupAssumption DEF Scalars
    <2> QED
      BY <1>1, <1>3, <2>1, TotalType DEF Discrepancy, n
  <1> QED
    BY <1>4, <1>6, <1>7, <1>8, <1>9 DEF RightSum, Discrepancy, n

(* The sum in the verification equation, with q for e * X(pk).               *)
LEMMA SchnorrSum ==
    ASSUME NEW k \in Scalars, NEW p \in Scalars, NEW x \in Scalars, NEW d \in Scalars
    PROVE  scalar_add(scalar_negate(scalar_add(k, p)), scalar_add(p, scalar_add(scalar_add(k, x), d)))
             = scalar_add(x, d)
  <1> DEFINE q == scalar_add(k, p)
             y == scalar_add(x, d)
  <1>1. q \in Scalars /\ y \in Scalars /\ scalar_negate(q) \in Scalars /\ scalar_add(k, x) \in Scalars
    BY AddIs, NegateIs
  <1>2. scalar_add(p, scalar_add(scalar_add(k, x), d)) = scalar_add(q, y)
    <2>1. scalar_add(scalar_add(k, x), d) = scalar_add(k, y)
      BY AddAssoc
    <2>2. scalar_add(p, scalar_add(k, y)) = scalar_add(scalar_add(p, k), y)
      BY <1>1, AddAssoc
    <2>3. scalar_add(p, k) = q
      BY AddCommutes
    <2> QED
      BY <2>1, <2>2, <2>3
  <1> HIDE DEF q, y
  <1>3. scalar_add(scalar_negate(q), scalar_add(q, y)) = scalar_add(scalar_add(scalar_negate(q), q), y)
    BY <1>1, AddAssoc
  <1>4. scalar_add(scalar_negate(q), q) = 0
    BY <1>1, NegateCancels
  <1>5. scalar_add(0, y) = y
    BY <1>1, AddZero
  <1> QED
    BY <1>2, <1>3, <1>4, <1>5 DEF q, y

(* Nothing but zero leaves a scalar as it is.                                *)
LEMMA AddsNothing ==
    ASSUME NEW x \in Scalars, NEW d \in Scalars
    PROVE  scalar_add(x, d) = x <=> d = 0
  <1>1. scalar_add(x, d) = IF x + d < N THEN x + d ELSE (x + d) - N
    BY AddIs
  <1> QED
    BY <1>1, GroupAssumption DEF Scalars

(* The key of the session times the challenge.                               *)
LEMMA KeyTimesChallenge ==
    ASSUME ShareInv, SessionRight
    PROVE  /\ session.s_part \in Scalars /\ X(session.cache.pk) \in Scalars
           /\ scalar_mul(session.challenge, X(session.cache.pk))
                = scalar_add(Signed(NegatesKey(session.cache), scalar_mul(session.challenge, base)),
                             session.s_part)
  <1> DEFINE e == session.challenge
             pk == session.cache.pk
             tweak == session.cache.tweak
             acc == session.cache.parity_acc
             odd == fe_is_odd_y(pk)
             neg == NegatesKey(session.cache)
  <1>1. /\ e \in Scalars /\ base \in Scalars /\ tweak \in Scalars /\ acc \in {0, 1}
        /\ pk \in Scalars /\ pk = scalar_add(Sign(acc, base), tweak)
    BY KeyPartsTotal DEF SessionRight, CachesWith, ShareInv
  <1>2. odd \in BOOLEAN /\ neg \in BOOLEAN
    BY DEF fe_is_odd_y, NegatesKey
  <1>3. X(pk) = Signed(odd, pk)
    BY DEF X, even_y, Signed, ge_neg
  <1>4. session.s_part = Signed(odd, scalar_mul(e, tweak))
    BY DEF SessionRight, SPart, Signed
  <1>5. Signed(odd, Sign(acc, base)) = Signed(neg, base)
    <2>1. CASE acc = 0
      <3>1. Sign(acc, base) = base /\ (neg <=> odd)
        BY <2>1 DEF Sign, NegatesKey, fe_is_odd_y
      <3> QED
        BY <3>1, Zenon DEF Signed
    <2>2. CASE acc = 1
      <3>1. Sign(acc, base) = scalar_negate(base) /\ (neg <=> ~odd)
        BY <2>2 DEF Sign, NegatesKey, fe_is_odd_y
      <3>2. scalar_negate(scalar_negate(base)) = base
        BY <1>1, NegateTwice
      <3> QED
        BY <3>1, <3>2, Zenon DEF Signed
    <2> QED
      BY <1>1, <2>1, <2>2
  <1> HIDE DEF e, pk, tweak, acc, odd, neg
  <1>6. Sign(acc, base) \in Scalars /\ Signed(neg, base) \in Scalars /\ Signed(odd, tweak) \in Scalars
    BY <1>1, <1>2, NegateIs DEF Sign, Signed
  <1>7. X(pk) = scalar_add(Signed(neg, base), Signed(odd, tweak))
    <2>1. Signed(odd, pk) = scalar_add(Signed(odd, Sign(acc, base)), Signed(odd, tweak))
      BY <1>1, <1>2, <1>6, SignedIs
    <2> QED
      BY <1>3, <1>5, <2>1
  <1>8. scalar_mul(e, X(pk)) = scalar_add(scalar_mul(e, Signed(neg, base)), scalar_mul(e, Signed(odd, tweak)))
    BY <1>1, <1>6, <1>7, MulDistributes
  <1>9. scalar_mul(e, Signed(neg, base)) = Signed(neg, scalar_mul(e, base))
    BY <1>1, <1>2, SignedIs
  <1>10. scalar_mul(e, Signed(odd, tweak)) = session.s_part
    BY <1>1, <1>2, <1>4, SignedIs
  <1>11. session.s_part \in Scalars /\ X(pk) \in Scalars
    BY <1>1, <1>6, <1>7, <1>10, MulIs, AddIs
  <1> QED
    BY <1>8, <1>9, <1>10, <1>11 DEF e, pk, neg

(* The signature is valid exactly if what is wrong with the shares cancels.  *)
LEMMA ValidIff ==
    ASSUME ShareInv, SigInv, sig # NoSig, session.r # Infinity
    PROVE  Valid <=> Discrepancy = 0
  <1> DEFINE e == session.challenge
             pk == session.cache.pk
             k == Signed(NegatesKey(session.cache), scalar_mul(e, base))
             p == session.s_part
             x == Signed(session.fin_nonce_parity = 1, session.r)
             d == Discrepancy
             r == ecmult(X(pk), scalar_negate(e), sig.s)
  <1>1. SessionRight /\ sig.r = session.fin_nonce /\ sig.s = AggShares(session)
    BY DEF SigInv
  <1>2. /\ p \in Scalars /\ X(pk) \in Scalars /\ scalar_mul(e, X(pk)) = scalar_add(k, p)
        /\ e \in Scalars /\ base \in Scalars /\ session.r \in Scalars
    BY <1>1, KeyTimesChallenge, KeyPartsTotal, NoncePartsTotal DEF ShareInv
  <1>3. k \in Scalars /\ x \in Scalars
    <2>1. NegatesKey(session.cache) \in BOOLEAN /\ scalar_mul(e, base) \in Scalars
      BY <1>2, MulIs DEF NegatesKey
    <2> QED
      BY <1>2, <2>1, SignedIs
  <1>4. d \in Scalars /\ sig.s = scalar_add(p, scalar_add(scalar_add(k, x), d))
    BY <1>1, <1>2, AggSharesIs DEF SigInv, RightSum
  <1>5. session.r \in Points
    BY <1>2 DEF Points
  <1>6. x = X(session.r) /\ sig.r = x
    BY <1>1 DEF SessionRight, X, even_y, Signed, ge_neg
  <1>7. x \in Points /\ ~fe_is_odd_y(x)
    BY <1>5, <1>6, EvenYIs DEF X
  <1>8. Valid <=> r # Infinity /\ ~fe_is_odd_y(r) /\ r = x
    BY <1>6 DEF Valid, schnorrsig_verify
  <1>9. r = scalar_add(scalar_mul(scalar_negate(e), X(pk)), sig.s)
    BY DEF ecmult
  <1> HIDE DEF e, pk, k, p, x, d, r
  <1>10. scalar_mul(scalar_negate(e), X(pk)) = scalar_negate(scalar_add(k, p))
    BY <1>2, NegateFactor
  <1>11. r = scalar_add(x, d)
    BY <1>2, <1>3, <1>4, <1>9, <1>10, SchnorrSum
  <1>12. r = x <=> d = 0
    BY <1>3, <1>4, <1>11, AddsNothing
  <1> QED
    BY <1>7, <1>8, <1>12 DEF Points, d

-----------------------------------------------------------------------------
(* SigInv is inductive, given the two invariants above.                      *)
LEMMA SessionKept ==
    ASSUME SessionRight, UNCHANGED <<seckeys, coef, base, pubnonce, session>>
    PROVE  SessionRight'
  BY DEF SessionRight, AggNonce, Signers

(* Before there is a session there is no signature, nor is there while a     *)
(* share is missing.                                                         *)
LEMMA NoSigYet ==
    ASSUME SigInv
    PROVE  /\ session = NoSession => sig = NoSig
           /\ (\E i \in Signers : psig[i] = NoShare) => sig = NoSig
  BY DEF SigInv

(* The aggregation makes the key again that it may have made before.         *)
LEMMA PubkeyAggSig ==
    ASSUME ShareInv, CacheInv, SigInv, PubkeyAgg
    PROVE  SigInv'
  <1>1. /\ cache' = pubkey_agg(coef, seckeys) /\ base' = cache'.pk
        /\ UNCHANGED <<seckeys, coef, tweaks, secnonce, pubnonce, session, psig, sig>>
    BY DEF PubkeyAgg
  <1>2. cache'.second_pk = SecondPk(seckeys) /\ base' = AggPoint(coef, seckeys)
    BY <1>1 DEF pubkey_agg
  <1>3. session # NoSession => SessionRight'
    <2> SUFFICES ASSUME session # NoSession PROVE SessionRight'
      OBVIOUS
    <2>1. SessionRight /\ base' = base
      BY <1>2 DEF SigInv, SessionRight
    <2> QED
      BY <1>1, <2>1, SessionKept
  <1> QED
    BY <1>1, <1>2, <1>3 DEF SigInv, AggShares, Signers

(* Tweaks leave the second key of the list alone.                            *)
LEMMA TweakAddSig ==
    ASSUME ShareInv, CacheInv, SigInv, NEW tweak, NEW xonly \in BOOLEAN, TweakAdd(tweak, xonly)
    PROVE  SigInv'
  <1>1. /\ cache # NoCache
        /\ UNCHANGED <<seckeys, coef, base, secnonce, pubnonce, session, psig, sig>>
    BY DEF TweakAdd
  <1>2. cache'.second_pk = cache.second_pk
    <2> DEFINE e == Evened(cache, xonly)
    <2>1. cache' = cache \/ cache' = [e EXCEPT !.pk = pubkey_tweak_add(@, tweak),
                                              !.tweak = scalar_add(@, tweak)]
      BY DEF TweakAdd, Tweaked
    <2>2. e \in CachesWith({cache.second_pk})
      BY <1>1, EvenedKeepsAccount DEF CacheInv, TweakAccounting, Sign
    <2> HIDE DEF e
    <2> QED
      BY <2>1, <2>2 DEF CachesWith
  <1>3. session # NoSession => SessionRight'
    BY <1>1, SessionKept DEF SigInv
  <1> QED
    BY <1>1, <1>2, <1>3 DEF SigInv, AggShares, Signers

(* Nonces come before the session.                                           *)
LEMMA NonceGenSig ==
    ASSUME ShareInv, SigInv, NEW i \in Signers, NEW k \in NonceChoices, NonceGen(i, k)
    PROVE  SigInv'
  <1>1. /\ pubnonce[i] = Zeroed
        /\ UNCHANGED <<seckeys, coef, cache, base, session, psig, sig>>
    BY DEF NonceGen
  <1>2. session = NoSession
    BY <1>1 DEF ShareInv
  <1>3. sig = NoSig
    BY <1>2, NoSigYet
  <1> QED
    BY <1>1, <1>2, <1>3 DEF SigInv, Signers

(* The session holds what the nonces and the cache say.                      *)
LEMMA NonceProcessSig ==
    ASSUME ShareInv, CacheInv, SigInv, NEW b \in HashChoices, NEW e \in HashChoices, NonceProcess(b, e)
    PROVE  SigInv'
  <1> DEFINE r == effective_nonce(<<AggNonce(1), AggNonce(2)>>, b)
             pt == IF r = Infinity THEN G ELSE r
  <1>1. /\ cache # NoCache /\ session = NoSession
        /\ UNCHANGED <<seckeys, coef, cache, base, pubnonce, psig, sig>>
        /\ session' = [r |-> r, fin_nonce |-> X(pt),
                       fin_nonce_parity |-> IF fe_is_odd_y(pt) THEN 1 ELSE 0,
                       noncecoef |-> b, challenge |-> e, s_part |-> SPart(cache, e), cache |-> cache]
    BY DEF NonceProcess
  <1>2. sig = NoSig
    BY <1>1, NoSigYet
  <1>3. /\ cache \in CachesWith({SecondPk(seckeys)}) /\ base = AggPoint(coef, seckeys)
        /\ cache.pk = scalar_add(Sign(cache.parity_acc, base), cache.tweak)
        /\ cache.pk \in Points
    BY <1>1 DEF CacheInv, SigInv, TweakAccounting, Sign, Points, CachesWith
  <1>4. AggNonce(1)' = AggNonce(1) /\ AggNonce(2)' = AggNonce(2)
    BY <1>1 DEF AggNonce, Signers
  <1>5. /\ session'.r = r /\ session'.cache = cache /\ session'.noncecoef = b /\ session'.challenge = e
        /\ session'.s_part = SPart(cache, e)
        /\ r # Infinity => /\ session'.fin_nonce = X(r)
                           /\ session'.fin_nonce_parity = IF fe_is_odd_y(r) THEN 1 ELSE 0
    BY <1>1
  <1> HIDE DEF r, pt
  <1>6. SessionRight'
    BY <1>1, <1>3, <1>4, <1>5 DEF SessionRight, r
  <1> QED
    BY <1>1, <1>2, <1>6 DEF SigInv, Signers

(* A share arrives while there is no signature.                              *)
LEMMA ShareArrives ==
    ASSUME SigInv, NEW i \in Signers, NEW share, share.s \in Scalars,
           psig[i] = NoShare, psig' \in {psig, [psig EXCEPT ![i] = share]}, DOMAIN psig = Signers,
           UNCHANGED <<seckeys, coef, cache, base, pubnonce, session, sig>>
    PROVE  SigInv'
  <1>1. sig = NoSig
    BY NoSigYet
  <1>2. \A x \in Signers : psig'[x].s \in Scalars
    BY DEF SigInv
  <1>3. session # NoSession => SessionRight'
    BY SessionKept DEF SigInv
  <1> QED
    BY <1>1, <1>2, <1>3 DEF SigInv, Signers

(* A share that is made is a scalar.                                         *)
LEMMA PartialSignSig ==
    ASSUME ShareInv, SigInv, NEW i \in Signers, NEW j \in Signers, PartialSign(i, j)
    PROVE  SigInv'
  <1> DEFINE s == Share(seckeys[j], secnonce[i], cache, session)
             share == [s |-> s, from |-> IF cache = session.cache THEN "sign" ELSE "stale"]
  <1>1. /\ psig[i] = NoShare
        /\ psig' = psig \/ psig' = [psig EXCEPT ![i] = share]
        /\ UNCHANGED <<seckeys, coef, cache, base, pubnonce, session, sig>>
    BY DEF PartialSign
  <1>2. s \in Scalars
    <2>1. /\ seckeys[j] \in Scalars /\ keyaggcoef(coef, cache.second_pk, seckeys[j]) \in Scalars
          /\ session.challenge \in Scalars /\ session.noncecoef \in Scalars
      BY SignersTyped DEF ShareInv
    <2>2. secnonce[i] \in Scalars \X Scalars
      BY MusigAssumption, GroupAssumption DEF ShareInv, Nonces, Zeroed, Scalars
    <2> DEFINE d == IF NegatesKey(cache) THEN scalar_negate(seckeys[j]) ELSE seckeys[j]
               k == secnonce[i]
               kn == IF session.fin_nonce_parity = 1 THEN <<scalar_negate(k[1]), scalar_negate(k[2])>> ELSE k
               mu == keyaggcoef(coef, cache.second_pk, seckeys[j])
    <2>3. d \in Scalars /\ kn[1] \in Scalars /\ kn[2] \in Scalars
      BY <2>1, <2>2, NegateIs
    <2>4. s = scalar_add(scalar_mul(session.challenge, scalar_mul(d, mu)), effective_nonce(kn, session.noncecoef))
      BY DEF Share
    <2> HIDE DEF s, d, k, kn, mu
    <2>5. mu \in Scalars
      BY <2>1 DEF mu
    <2>6. scalar_mul(session.challenge, scalar_mul(d, mu)) \in Scalars
      BY <2>1, <2>3, <2>5, MulIs
    <2>7. effective_nonce(kn, session.noncecoef) \in Scalars
      BY <2>1, <2>3, MulIs, AddIs DEF effective_nonce, gej_add
    <2> QED
      BY <2>4, <2>6, <2>7, AddIs
  <1> HIDE DEF s
  <1>3. DOMAIN psig = Signers /\ share.s \in Scalars
    BY <1>2 DEF ShareInv
  <1> QED
    BY <1>1, <1>3, ShareArrives

(* So is one that was parsed.                                               *)
LEMMA PartialSigParseSig ==
    ASSUME ShareInv, SigInv, NEW i \in Signers, NEW s \in WireShares, PartialSigParse(i, s)
    PROVE  SigInv'
  <1> DEFINE share == [s |-> s, from |-> "wire"]
  <1>1. /\ psig[i] = NoShare /\ psig' = [psig EXCEPT ![i] = share]
        /\ UNCHANGED <<seckeys, coef, cache, base, pubnonce, session, sig>>
    BY DEF PartialSigParse
  <1>2. share.s \in Scalars /\ DOMAIN psig = Signers
    BY MusigAssumption DEF ShareInv
  <1> QED
    BY <1>1, <1>2, ShareArrives

(* The signature is the sum of the shares.                                   *)
LEMMA PartialSigAggSig ==
    ASSUME SigInv, PartialSigAgg
    PROVE  SigInv'
  <1>1. /\ session # NoSession /\ \A i \in Signers : psig[i] # NoShare
        /\ sig' = [r |-> session.fin_nonce, s |-> AggShares(session)]
        /\ UNCHANGED <<seckeys, coef, cache, base, tweaks, secnonce, pubnonce, session, psig>>
    BY DEF PartialSigAgg
  <1>2. SessionRight'
    BY <1>1, SessionKept DEF SigInv
  <1> QED
    BY <1>1, <1>2 DEF SigInv, AggShares, Signers

(* Every step keeps the invariant.                                           *)
LEMMA SigNext == ShareInv /\ CacheInv /\ SigInv /\ [Next]_vars => SigInv'
  <1> SUFFICES ASSUME ShareInv, CacheInv, SigInv, [Next]_vars PROVE SigInv'
    OBVIOUS
  <1>1. CASE PubkeyAgg
    BY <1>1, PubkeyAggSig
  <1>2. ASSUME NEW tweak \in TweakChoices, NEW xonly \in BOOLEAN, TweakAdd(tweak, xonly)
        PROVE  SigInv'
    BY <1>2, TweakAddSig
  <1>3. ASSUME NEW i \in Signers, NEW k \in NonceChoices, NonceGen(i, k)
        PROVE  SigInv'
    BY <1>3, NonceGenSig
  <1>4. ASSUME NEW b \in HashChoices, NEW e \in HashChoices, NonceProcess(b, e)
        PROVE  SigInv'
    BY <1>4, NonceProcessSig
  <1>5. ASSUME NEW i \in Signers, NEW j \in Signers, PartialSign(i, j)
        PROVE  SigInv'
    BY <1>5, PartialSignSig
  <1>6. ASSUME NEW i \in Signers, NEW s \in WireShares, PartialSigParse(i, s)
        PROVE  SigInv'
    BY <1>6, PartialSigParseSig
  <1>7. CASE PartialSigAgg
    BY <1>7, PartialSigAggSig
  <1>8. CASE UNCHANGED vars
    BY <1>8, SessionKept DEF vars, SigInv, AggShares, Signers
  <1> QED
    BY <1>1, <1>2, <1>3, <1>4, <1>5, <1>6, <1>7, <1>8 DEF Next

(* All of it holds in the beginning.                                         *)
LEMMA MusigInit == Init => ShareInv /\ CacheInv /\ SigInv
  <1> SUFFICES ASSUME Init PROVE ShareInv /\ CacheInv /\ SigInv
    OBVIOUS
  <1>1. 0 \in Scalars
    BY GroupAssumption DEF Scalars
  <1>2. CacheInv
    BY <1>1 DEF Init, CacheInv, CachesWith, NoCache, TweakAccounting, Infinity
  <1>3. ShareInv
    <2>1. session.challenge \in Scalars /\ session.noncecoef \in Scalars
      BY <1>1 DEF Init, NoSession
    <2>2. \A i \in Signers : psig[i].from # "sign" /\ secnonce[i] = Zeroed
      BY DEF Init, NoShare
    <2>3. HonestShareVerifies
      BY <2>2 DEF HonestShareVerifies
    <2> QED
      BY <2>1, <2>2, <2>3 DEF Init, ShareInv, Nonces
  <1>4. SigInv
    BY <1>1 DEF Init, SigInv, NoShare
  <1> QED
    BY <1>2, <1>3, <1>4

(* The strengthening of the invariants of a session, in every state.         *)
THEOREM AlwaysMusigInv == Spec => [](ShareInv /\ CacheInv /\ SigInv)
  <1>1. ShareInv /\ CacheInv /\ SigInv /\ [Next]_vars => (ShareInv /\ CacheInv /\ SigInv)'
    BY ShareNext, CacheNext, SigNext
  <1> QED
    BY <1>1, MusigInit, PTL DEF Spec

(* A share that musig_partial_sign makes with the keyagg cache the session   *)
(* was set up with passes musig_partial_sig_verify (session_impl.h), for     *)
(* every group order, list of keys, tweaks before and after, nonces and      *)
(* values of the hashes, with any parities of the key and of the nonce.      *)
THEOREM HonestSharesVerify == Spec => []HonestShareVerifies
  <1>1. ShareInv => HonestShareVerifies
    BY DEF ShareInv
  <1> QED
    BY <1>1, AlwaysMusigInv, PTL

(* If every share passes musig_partial_sig_verify then the signature that    *)
(* musig_partial_sig_agg makes of them is a valid BIP340 signature under the *)
(* tweaked x-only key (session_impl.h), for every number of signers, every   *)
(* group order and all parities, tweaks and values of the hashes.            *)
THEOREM AggregatesVerify == Spec => []AggregateVerifies
  <1>1. ShareInv /\ SigInv => AggregateVerifies
    <2> SUFFICES ASSUME ShareInv, SigInv, sig # NoSig, session.r # Infinity,
                        \A i \in Signers : Verifies(i)
                 PROVE  Valid
      BY DEF AggregateVerifies
    <2>1. \A i \in 1 .. Len(seckeys) : Deviations[i] = 0
      BY SignersAre, DeviationIs DEF SigInv, Deviations
    <2>2. 0 \in Scalars /\ Len(seckeys) \in Nat
      BY SignersAre, GroupAssumption DEF Scalars
    <2>3. Discrepancy = 0
      BY <2>1, <2>2, TotalOfNone DEF Discrepancy
    <2> QED
      BY <2>3, ValidIff
  <1> QED
    BY <1>1, AlwaysMusigInv, PTL

(* If exactly one share does not verify then the signature is not valid: one *)
(* signer cannot be covered for by accident.                                 *)
THEOREM BadShareSpoils == Spec => []OneBadShareSpoils
  <1>1. ShareInv /\ SigInv => OneBadShareSpoils
    <2> DEFINE Bad == {i \in Signers : ~Verifies(i)}
    <2> SUFFICES ASSUME ShareInv, SigInv, sig # NoSig, session.r # Infinity, Cardinality(Bad) = 1
                 PROVE  ~Valid
      BY DEF OneBadShareSpoils
    <2>1. Len(seckeys) \in Nat /\ Signers = 1 .. Len(seckeys)
      BY SignersAre
    <2>2. IsFiniteSet(Signers)
      BY <2>1, FS_Interval
    <2>3. IsFiniteSet(Bad)
      BY <2>2, FS_Subset
    <2>4. PICK j : Bad = {j}
      BY <2>3, FS_Singleton
    <2>5. j \in Signers /\ ~Verifies(j) /\ \A i \in Signers : i # j => Verifies(i)
      BY <2>4
    <2>6. /\ Deviations[j] \in Scalars /\ Deviations[j] # 0
          /\ \A i \in Signers : i # j => Deviations[i] = 0
      BY <2>5, DeviationIs DEF SigInv, Deviations
    <2>7. 0 \in Scalars
      BY GroupAssumption DEF Scalars
    <2>8. Discrepancy = scalar_add(0, Deviations[j])
      BY <2>1, <2>5, <2>6, <2>7, TotalOfOne DEF Discrepancy
    <2>9. Discrepancy # 0
      BY <2>6, <2>8, AddZero
    <2> QED
      BY <2>9, ValidIff
  <1> QED
    BY <1>1, AlwaysMusigInv, PTL
=============================================================================
