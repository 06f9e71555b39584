----------------------------- MODULE MusigSign ------------------------------
(***************************************************************************)
(* MuSig (src/modules/musig): key aggregation and tweaking (keyagg_impl.h) *)
(* as operators on the keyagg cache, where the hash that yields the        *)
(* coefficients of one list of keys is a function coef from points to      *)
(* scalars; and one signing session among the signers of a key list, from  *)
(* key aggregation through tweaks, nonces and partial signatures to the    *)
(* final signature. Hash values are arbitrary scalars, so every behaviour  *)
(* of the random oracles is explored. The keyagg cache may still be        *)
(* tweaked after the session was set up, and a share may come from the     *)
(* wire (musig_partial_sig_parse) instead of from partial_sign.            *)
(***************************************************************************)
EXTENDS Group, SequencesExt

CachesWith(second) ==
    [pk : Scalars, second_pk : second, parity_acc : {0, 1}, tweak : Scalars]
Caches == CachesWith(Scalars)

(* The first key that differs from the first one; infinity if there is none. *)
SecondPk(pks) ==
    LET others == SelectSeq(pks, LAMBDA pk : pk # pks[1])
    IN  IF others = <<>> THEN Infinity ELSE others[1]

keyaggcoef(coef, second_pk, pk) ==
    IF second_pk # Infinity /\ pk = second_pk THEN 1 ELSE coef[pk]

(* secp256k1_ecmult_multi_var over musig_pubkey_agg_callback. *)
AggPoint(coef, pks) ==
    Total(Infinity, [q \in DOMAIN pks |-> scalar_mul(keyaggcoef(coef, SecondPk(pks), pks[q]), pks[q])],
          Len(pks))

pubkey_agg(coef, pks) ==
    [pk |-> AggPoint(coef, pks), second_pk |-> SecondPk(pks),
     parity_acc |-> 0, tweak |-> 0]

(* pubkey_tweak_add_internal: the key is made even first when xonly, which   *)
(* flips the parity of the untweaked key and the sign of the earlier tweaks. *)
Evened(cache, xonly) ==
    IF xonly /\ fe_is_odd_y(cache.pk)
    THEN [cache EXCEPT !.pk = ge_neg(@), !.parity_acc = 1 - @, !.tweak = scalar_negate(@)]
    ELSE cache

TweakAccepted(cache, tweak, xonly) ==
    /\ tweak \in Scalars
    /\ ~TweakFails(Evened(cache, xonly).pk, tweak)

(* Faulty variant: the parity of the untweaked key stays as it was.          *)
TweakedKeepsParity(cache, tweak, xonly) ==
    [Evened(cache, xonly) EXCEPT !.pk = pubkey_tweak_add(@, tweak),
                                 !.tweak = scalar_add(@, tweak),
                                 !.parity_acc = cache.parity_acc]

Tweaked(cache, tweak, xonly) ==
    [Evened(cache, xonly) EXCEPT !.pk = pubkey_tweak_add(@, tweak),
                                 !.tweak = scalar_add(@, tweak)]

(* The sign both partial_sign and partial_sig_verify give to a signer's key. *)
NegatesKey(cache) == fe_is_odd_y(cache.pk) # (cache.parity_acc = 1)

-----------------------------------------------------------------------------
CONSTANTS
    KeyLists,      \* secret keys of the signers, one sequence per instance
    NonceChoices,  \* bound: the pairs a nonce is drawn from
    HashChoices,   \* bound: the values hashes take
    TweakChoices,  \* bound: tweaks; N stands for a 32-byte value that overflows
    MaxTweaks,     \* bound: calls of the tweaking functions
    WireShares     \* bound: scalars that arrive as partial signatures

(* Secret keys are not zero (secp256k1_keypair_load); the rest are scalars.  *)
ASSUME MusigAssumption ==
    /\ KeyLists \subseteq Seq(Points)
    /\ NonceChoices \subseteq Scalars \X Scalars
    /\ HashChoices \cup WireShares \subseteq Scalars

VARIABLES
    seckeys,   \* the signers' secret keys, also their public points
    coef,      \* the KeyAgg coefficient hash of this list
    cache,     \* the keyagg cache
    base,      \* the untweaked aggregate key (ghost)
    tweaks,    \* number of tweak calls made
    secnonce,  \* secnonce[i]: the pair of secret nonces, or Zeroed
    pubnonce,  \* pubnonce[i]: the pair of public nonces, or Zeroed
    session,   \* the session of musig_nonce_process
    psig,      \* psig[i]: signer i's share and where it came from
    sig        \* the aggregated signature

vars == <<seckeys, coef, cache, base, tweaks, secnonce, pubnonce, session, psig, sig>>

Signers == 1 .. Len(seckeys)
Zeroed == <<0, 0>>
NoCache == [pk |-> Infinity, second_pk |-> Infinity, parity_acc |-> 0, tweak |-> 0]
NoSession == [r |-> Infinity, fin_nonce |-> Infinity, fin_nonce_parity |-> 0,
              noncecoef |-> 0, challenge |-> 0, s_part |-> 0, cache |-> NoCache]
NoShare == [s |-> 0, from |-> "nobody"]
NoSig == [r |-> Infinity, s |-> 0]

(* The values of the state: points and scalars reduced modulo N.             *)
TypeOK ==
    /\ seckeys \in KeyLists
    /\ cache \in Caches
    /\ secnonce \in [Signers -> NonceChoices \cup {Zeroed}]
    /\ pubnonce \in [Signers -> NonceChoices \cup {Zeroed}]
    /\ session \in [r : Scalars, fin_nonce : Scalars, fin_nonce_parity : {0, 1},
                    noncecoef : Scalars, challenge : Scalars, s_part : Scalars,
                    cache : Caches]
    /\ psig \in [Signers -> [s : Scalars, from : {"nobody", "sign", "stale", "wire"}]]
    /\ sig \in [r : Scalars, s : Scalars]

Init ==
    /\ seckeys \in KeyLists
    /\ coef \in [Range(seckeys) -> HashChoices]
    /\ cache = NoCache
    /\ base = Infinity
    /\ tweaks = 0
    /\ secnonce = [i \in Signers |-> Zeroed]
    /\ pubnonce = [i \in Signers |-> Zeroed]
    /\ session = NoSession
    /\ psig = [i \in Signers |-> NoShare]
    /\ sig = NoSig

(* The code relies on the sum not being infinity, which hashes make negligible. *)
PubkeyAgg ==
    /\ cache = NoCache
    /\ AggPoint(coef, seckeys) \in Points
    /\ cache' = pubkey_agg(coef, seckeys)
    /\ base' = cache'.pk
    /\ UNCHANGED <<seckeys, coef, tweaks, secnonce, pubnonce, session, psig, sig>>

(* musig_pubkey_ec_tweak_add and musig_pubkey_xonly_tweak_add: a refused     *)
(* tweak returns before the cache is saved.                                  *)
TweakAdd(tweak, xonly) ==
    /\ cache # NoCache
    /\ tweaks < MaxTweaks /\ sig = NoSig
    /\ cache' = IF TweakAccepted(cache, tweak, xonly)
                THEN Tweaked(cache, tweak, xonly)
                ELSE cache
    /\ tweaks' = tweaks + 1
    /\ UNCHANGED <<seckeys, coef, base, secnonce, pubnonce, session, psig, sig>>

NonceGen(i, k) ==
    /\ pubnonce[i] = Zeroed
    /\ secnonce' = [secnonce EXCEPT ![i] = k]
    /\ pubnonce' = [pubnonce EXCEPT ![i] = k]
    /\ UNCHANGED <<seckeys, coef, cache, base, tweaks, session, psig, sig>>

(* secp256k1_musig_sum_pubnonces *)
AggNonce(j) == Total(Infinity, [i \in Signers |-> pubnonce[i][j]], Len(seckeys))

effective_nonce(nonces, b) == gej_add(nonces[1], scalar_mul(b, nonces[2]))

(* Faulty variant: the tweak enters the signature with the wrong sign. *)
SPartUnsigned(c, challenge) == scalar_mul(challenge, c.tweak)

SPart(c, challenge) ==
    LET e_tmp == scalar_mul(challenge, c.tweak)
    IN  IF fe_is_odd_y(c.pk) THEN scalar_negate(e_tmp) ELSE e_tmp

(* musig_nonce_agg and musig_nonce_process.  b and e are the hashes of the   *)
(* nonce coefficient and the challenge; a final nonce at infinity becomes G. *)
NonceProcess(b, e) ==
    /\ cache # NoCache
    /\ session = NoSession
    /\ \A i \in Signers : pubnonce[i] # Zeroed
    /\ LET r == effective_nonce(<<AggNonce(1), AggNonce(2)>>, b)
           fin_nonce_pt == IF r = Infinity THEN G ELSE r
       IN  session' = [r |-> r,
                       fin_nonce |-> X(fin_nonce_pt),
                       fin_nonce_parity |-> IF fe_is_odd_y(fin_nonce_pt) THEN 1 ELSE 0,
                       noncecoef |-> b,
                       challenge |-> e,
                       s_part |-> SPart(cache, e),
                       cache |-> cache]
    /\ UNCHANGED <<seckeys, coef, cache, base, tweaks, secnonce, pubnonce, psig, sig>>

-----------------------------------------------------------------------------
(* Faulty variant: only the first of the nonces is negated.                  *)
ShareKeepsSecondNonce(sk, k, c, ses) ==
    LET d == IF NegatesKey(c) THEN scalar_negate(sk) ELSE sk
        k1 == IF ses.fin_nonce_parity = 1 THEN scalar_negate(k[1]) ELSE k[1]
    IN  scalar_add(scalar_mul(ses.challenge,
                              scalar_mul(d, keyaggcoef(coef, c.second_pk, sk))),
                   effective_nonce(<<k1, k[2]>>, ses.noncecoef))

(* The scalar partial_sign computes. *)
Share(sk, k, c, ses) ==
    LET d == IF NegatesKey(c) THEN scalar_negate(sk) ELSE sk
        kn == IF ses.fin_nonce_parity = 1
              THEN <<scalar_negate(k[1]), scalar_negate(k[2])>>
              ELSE k
    IN  scalar_add(scalar_mul(ses.challenge,
                              scalar_mul(d, keyaggcoef(coef, c.second_pk, sk))),
                   effective_nonce(kn, ses.noncecoef))

(* musig_partial_sign with signer j's keypair: the secnonce is zeroed first, *)
(* whatever check fails after that.                                          *)
PartialSign(i, j) ==
    /\ secnonce[i] # Zeroed /\ psig[i] = NoShare
    /\ secnonce' = [secnonce EXCEPT ![i] = Zeroed]
    /\ psig' = IF seckeys[i] # seckeys[j] \/ cache = NoCache \/ session = NoSession
               THEN psig
               ELSE [psig EXCEPT ![i] =
                       [s |-> Share(seckeys[j], secnonce[i], cache, session),
                        from |-> IF cache = session.cache THEN "sign" ELSE "stale"]]
    /\ UNCHANGED <<seckeys, coef, cache, base, tweaks, pubnonce, session, sig>>

PartialSigParse(i, s) ==
    /\ session # NoSession
    /\ psig[i] = NoShare
    /\ psig' = [psig EXCEPT ![i] = [s |-> s, from |-> "wire"]]
    /\ UNCHANGED <<seckeys, coef, cache, base, tweaks, secnonce, pubnonce, session, sig>>

(* Faulty variant: verifies as if the final nonce's Y were always even. *)
VerifyIgnoresNonceParity(s, nonces, pk, c, ses) ==
    LET rj == effective_nonce(nonces, ses.noncecoef)
        emu == scalar_mul(ses.challenge, keyaggcoef(coef, c.second_pk, pk))
        e == IF NegatesKey(c) THEN scalar_negate(emu) ELSE emu
    IN  gej_add(ecmult(pk, e, scalar_negate(s)), rj) = Infinity

(* musig_partial_sig_verify: -s*G + e*mu*P + R_i is infinity. *)
partial_sig_verify(s, nonces, pk, c, ses) ==
    LET rj == effective_nonce(nonces, ses.noncecoef)
        emu == scalar_mul(ses.challenge, keyaggcoef(coef, c.second_pk, pk))
        e == IF NegatesKey(c) THEN scalar_negate(emu) ELSE emu
        rs == IF ses.fin_nonce_parity = 1 THEN ge_neg(rj) ELSE rj
    IN  gej_add(ecmult(pk, e, scalar_negate(s)), rs) = Infinity

(* The sum of the shares starts at the tweak's part.                         *)
AggShares(ses) == Total(ses.s_part, [i \in Signers |-> psig[i].s], Len(seckeys))

PartialSigAgg ==
    /\ session # NoSession
    /\ sig = NoSig
    /\ \A i \in Signers : psig[i] # NoShare
    /\ sig' = [r |-> session.fin_nonce, s |-> AggShares(session)]
    /\ UNCHANGED <<seckeys, coef, cache, base, tweaks, secnonce, pubnonce, session, psig>>

(* secp256k1_schnorrsig_verify for the x-only key X(pk). *)
schnorrsig_verify(sg, pk, e) ==
    LET r == ecmult(X(pk), scalar_negate(e), sg.s)
    IN  r # Infinity /\ ~fe_is_odd_y(r) /\ r = sg.r

Next ==
    \/ PubkeyAgg
    \/ \E tweak \in TweakChoices, xonly \in BOOLEAN : TweakAdd(tweak, xonly)
    \/ \E i \in Signers, k \in NonceChoices : NonceGen(i, k)
    \/ \E b, e \in HashChoices : NonceProcess(b, e)
    \/ \E i, j \in Signers : PartialSign(i, j)
    \/ \E i \in Signers, s \in WireShares : PartialSigParse(i, s)
    \/ PartialSigAgg

Spec == Init /\ [][Next]_vars

-----------------------------------------------------------------------------
(* The bookkeeping of keyagg_impl.h: after any sequence of plain and x-only  *)
(* tweaks, accepted or refused, the tweaked key is the original aggregate    *)
(* key with the sign parity_acc says plus the accumulated tweak.             *)
TweakAccounting ==
    cache # NoCache =>
      /\ cache.pk # Infinity
      /\ cache.pk = scalar_add(IF cache.parity_acc = 1 THEN scalar_negate(base) ELSE base,
                               cache.tweak)

Verifies(i) ==
    partial_sig_verify(psig[i].s, pubnonce[i], seckeys[i], session.cache, session)

(* A share of partial_sign, made with the cache the session was set up with, *)
(* passes partial_sig_verify, whatever the parities and tweaks.              *)
HonestShareVerifies ==
    \A i \in Signers : psig[i].from = "sign" => Verifies(i)

Valid == schnorrsig_verify(sig, session.cache.pk, session.challenge)

(* If all shares verify then partial_sig_agg's output is a BIP340 signature  *)
(* for the tweaked x-only key; not claimed for a final nonce at infinity,    *)
(* where R is G by definition, which no sum of honest shares fits:           *)
(* that case is HonestShareVerifies' alone.                                  *)
AggregateVerifies ==
    sig # NoSig /\ session.r # Infinity /\ (\A i \in Signers : Verifies(i)) => Valid

(* One share that does not verify makes the final signature invalid.         *)
OneBadShareSpoils ==
    sig # NoSig /\ Cardinality({i \in Signers : ~Verifies(i)}) = 1
      /\ session.r # Infinity => ~Valid

(* include/secp256k1_musig.h:537 says it of any number of bad shares: "if    *)
(* any partial signature does not verify, the final signature will not       *)
(* verify either".                                                           *)
AnyBadShareSpoils ==
    sig # NoSig /\ (\E i \in Signers : ~Verifies(i)) => ~Valid
=============================================================================
