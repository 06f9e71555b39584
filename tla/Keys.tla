-------------------------------- MODULE Keys --------------------------------
(***************************************************************************)
(* Secret keys, public keys, keypairs and Schnorr signatures               *)
(* (src/secp256k1.c, src/modules/extrakeys, src/modules/schnorrsig).  A    *)
(* secret key and the public key made from it are given the same calls;    *)
(* a keypair made from the secret key is tweaked and signs.                *)
(*                                                                         *)
(* An object that a failed call has zeroed is 0.  The illegal-argument     *)
(* callback, which such objects run into, is one that returns.             *)
(***************************************************************************)
EXTENDS Group

CONSTANTS
    SecretBytes,     \* bound: 32-byte strings taken as secret keys
    TweakBytes,      \* bound: 32-byte strings taken as tweaks
    NonceResults,    \* bound: what the Schnorr nonce function returns
    Challenges       \* bound: values of the challenge hash

Failed == 0

NonceFails == -1

KeysAssumption ==
    /\ SecretBytes \cup TweakBytes \subseteq Nat
    /\ NonceResults \subseteq Nat \cup {NonceFails}
    /\ Challenges \subseteq Scalars

Outcome(object, ret) == [object |-> IF ret THEN object ELSE Failed, ret |-> ret]

(* secp256k1_ec_pubkey_create                                                *)
pubkey_create(seckey) == Outcome(scalar_set_b32(seckey), scalar_set_b32_seckey(seckey))

-----------------------------------------------------------------------------
(* The calls on secret keys and their counterparts on public keys.           *)

seckey_negate(seckey) == Outcome(scalar_negate(scalar_set_b32(seckey)), scalar_set_b32_seckey(seckey))
pubkey_negate(pubkey) == Outcome(ge_neg(pubkey), pubkey # Failed)

SeckeySum(seckey, tweak) == scalar_add(scalar_set_b32(seckey), scalar_set_b32(tweak))

(* Faulty variant: accepts a key that the tweak cancels.                     *)
seckey_tweak_add_to_zero(seckey, tweak) ==
    Outcome(SeckeySum(seckey, tweak), scalar_set_b32_seckey(seckey) /\ ~Overflows(tweak))

seckey_tweak_add(seckey, tweak) ==
    Outcome(SeckeySum(seckey, tweak),
            scalar_set_b32_seckey(seckey) /\ ~Overflows(tweak) /\ SeckeySum(seckey, tweak) # 0)

(* secp256k1_ec_pubkey_tweak_add and its helper; also for x-only keys.       *)
ec_pubkey_tweak_add(pubkey, tweak) ==
    Outcome(pubkey_tweak_add(pubkey, scalar_set_b32(tweak)),
            pubkey # Failed /\ ~Overflows(tweak) /\ ~TweakFails(pubkey, scalar_set_b32(tweak)))

seckey_tweak_mul(seckey, tweak) ==
    Outcome(scalar_mul(scalar_set_b32(seckey), scalar_set_b32(tweak)),
            scalar_set_b32_seckey(seckey) /\ ~Overflows(tweak) /\ scalar_set_b32(tweak) # 0)
pubkey_tweak_mul(pubkey, tweak) ==
    Outcome(ecmult(pubkey, scalar_set_b32(tweak), 0),
            ~Overflows(tweak) /\ pubkey # Failed /\ scalar_set_b32(tweak) # 0)

(* secp256k1_ec_pubkey_combine of two keys.                                  *)
pubkey_combine(pubkey0, pubkey1) ==
    Outcome(gej_add(gej_add(Infinity, pubkey0), pubkey1), gej_add(pubkey0, pubkey1) # Infinity)

-----------------------------------------------------------------------------
(* Keypairs and x-only keys.                                                 *)

NoKeypair == [sk |-> 0, pk |-> Failed]
Loads(keypair) == keypair.pk # Failed /\ scalar_set_b32_seckey(keypair.sk)

keypair_create(seckey) ==
    IF scalar_set_b32_seckey(seckey) THEN [sk |-> seckey, pk |-> seckey] ELSE NoKeypair

(* secp256k1_keypair_load: dummy values in place of a keypair that is not one. *)
keypair_load(keypair) == IF Loads(keypair) THEN keypair ELSE [sk |-> 1, pk |-> G]

(* The secret key of the x-only key.                                         *)
EvenSecret(keypair) ==
    IF fe_is_odd_y(keypair.pk) THEN scalar_negate(keypair.sk) ELSE keypair.sk

(* Faulty variant: tweaks the secret key with the sign it has.               *)
keypair_xonly_tweak_add_plain(keypair, tweak) ==
    LET loaded == keypair_load(keypair)
        sk == seckey_tweak_add(loaded.sk, tweak)
        pk == ec_pubkey_tweak_add(even_y(loaded.pk), tweak)
    IN  IF Loads(keypair) /\ sk.ret /\ pk.ret THEN [sk |-> sk.object, pk |-> pk.object] ELSE NoKeypair

keypair_xonly_tweak_add(keypair, tweak) ==
    LET loaded == keypair_load(keypair)
        sk == seckey_tweak_add(EvenSecret(loaded), tweak)
        pk == ec_pubkey_tweak_add(even_y(loaded.pk), tweak)
    IN  IF Loads(keypair) /\ sk.ret /\ pk.ret THEN [sk |-> sk.object, pk |-> pk.object] ELSE NoKeypair

(* secp256k1_keypair_xonly_pub and secp256k1_xonly_pubkey_from_pubkey.       *)
xonly_pub(pubkey) == IF pubkey = Failed THEN Failed ELSE even_y(pubkey)

xonly_pubkey_tweak_add_check(tweaked, parity, internal, tweak) ==
    LET expected == ec_pubkey_tweak_add(internal, tweak)
    IN  expected.ret /\ X(expected.object) = X(tweaked) /\ (fe_is_odd_y(expected.object) <=> parity)

-----------------------------------------------------------------------------
(* Schnorr signatures: r is the point with even Y that has the X coordinate  *)
(* in the first half.                                                        *)

NoSchnorr == [r |-> 0, s |-> 0]

SignNonce(k) == IF fe_is_odd_y(k) THEN scalar_negate(k) ELSE k

(* nonce is what the nonce function wrote, or NonceFails.                    *)
SchnorrSucceeds(keypair, nonce) ==
    Loads(keypair) /\ nonce # NonceFails /\ scalar_set_b32(nonce) # 0

(* Faulty variant: what was signed with k = 1 stays.                         *)
memczeroNot(sig, ret) == sig
memczero(sig, ret) == IF ret THEN sig ELSE NoSchnorr

(* After a failure the call goes on with k = 1, and zeroes what it signed.   *)
schnorrsig_sign(keypair, nonce, e) ==
    LET loaded == keypair_load(keypair)
        ret == SchnorrSucceeds(keypair, nonce)
        k == IF ret THEN scalar_set_b32(nonce) ELSE 1
        s == scalar_add(scalar_mul(e, EvenSecret(loaded)), SignNonce(k))
    IN  [ret |-> ret, object |-> memczero([r |-> X(k), s |-> s], ret)]

schnorrsig_verify(r, s, e, pubkey) ==
    LET rj == ecmult(pubkey, scalar_negate(e), scalar_set_b32(s))
    IN  ~Overflows(s) /\ pubkey # Failed /\ rj # Infinity /\ ~fe_is_odd_y(rj) /\ X(rj) = r

-----------------------------------------------------------------------------
VARIABLES
    seckey, pubkey,    \* the two that are given the same calls
    rets,              \* what the last two calls returned
    keypair,           \* a keypair
    challenge, ssig,   \* the challenge, and what the last schnorrsig_sign wrote
    signed             \* and returned

vars == <<seckey, pubkey, rets, keypair, challenge, ssig, signed>>

(* The values of the state.                                                  *)
TypeOK ==
    /\ seckey \in SecretBytes \cup Scalars /\ pubkey \in Scalars
    /\ rets \in BOOLEAN \X BOOLEAN
    /\ keypair \in [sk : Scalars, pk : Scalars]
    /\ challenge \in Challenges
    /\ ssig \in [r : Scalars, s : Scalars] /\ signed \in BOOLEAN

Init ==
    /\ seckey \in SecretBytes
    /\ pubkey = pubkey_create(seckey).object
    /\ rets = <<TRUE, TRUE>>
    /\ keypair = NoKeypair
    /\ challenge \in Challenges /\ ssig = NoSchnorr /\ signed = FALSE

(* Bound: keys rest once there is a keypair, and the keypair once it signed. *)
Both(sec, pub) ==
    /\ keypair = NoKeypair
    /\ seckey' = sec.object /\ pubkey' = pub.object /\ rets' = <<sec.ret, pub.ret>>
    /\ UNCHANGED <<keypair, challenge, ssig, signed>>

Negate == Both(seckey_negate(seckey), pubkey_negate(pubkey))
TweakAdd(tweak) == Both(seckey_tweak_add(seckey, tweak), ec_pubkey_tweak_add(pubkey, tweak))
TweakMul(tweak) == Both(seckey_tweak_mul(seckey, tweak), pubkey_tweak_mul(pubkey, tweak))

(* The secret key of a sum is the sum of the secret keys; other is one.      *)
Combine(other) ==
    /\ pubkey # Failed /\ scalar_set_b32_seckey(other)
    /\ Both(seckey_tweak_add(seckey, other), pubkey_combine(pubkey, pubkey_create(other).object))

KeypairCreate ==
    /\ keypair = NoKeypair
    /\ keypair' = keypair_create(seckey)
    /\ UNCHANGED <<seckey, pubkey, rets, challenge, ssig, signed>>

KeypairTweak(tweak) ==
    /\ ssig = NoSchnorr
    /\ keypair' = keypair_xonly_tweak_add(keypair, tweak)
    /\ UNCHANGED <<seckey, pubkey, rets, challenge, ssig, signed>>

(* Into the same buffer, whatever an earlier call left there.                *)
Sign(nonce) ==
    /\ LET result == schnorrsig_sign(keypair, nonce, challenge)
       IN  ssig' = result.object /\ signed' = result.ret
    /\ UNCHANGED <<seckey, pubkey, rets, keypair, challenge>>

Next ==
    \/ Negate \/ KeypairCreate
    \/ \E tweak \in TweakBytes : TweakAdd(tweak) \/ TweakMul(tweak) \/ KeypairTweak(tweak)
    \/ \E other \in TweakBytes : Combine(other)
    \/ \E nonce \in NonceResults : Sign(nonce)

Spec == Init /\ [][Next]_vars

-----------------------------------------------------------------------------
(* A secret key and its public key that are given the same calls stay        *)
(* together: the calls succeed or fail alike, the zeroed objects included,   *)
(* and the public key is always the one of the secret key.                   *)
KeysInStep ==
    /\ rets[1] = rets[2]
    /\ pubkey = pubkey_create(seckey).object

(* A keypair is whole or zero, and tweaking it gives the key that the        *)
(* holder of the x-only key computes and xonly_pubkey_tweak_add_check        *)
(* accepts, or fails when they fail (secp256k1_extrakeys.h, keypair_xonly_   *)
(* tweak_add).                                                               *)
KeypairTweaksChecked ==
    /\ keypair.pk = pubkey_create(keypair.sk).object
    /\ \A tweak \in TweakBytes :
        LET tweaked == keypair_xonly_tweak_add(keypair, tweak)
            internal == xonly_pub(keypair.pk)
            expected == ec_pubkey_tweak_add(internal, tweak)
        IN  /\ tweaked.pk = expected.object
            /\ tweaked.sk = 0 <=> ~expected.ret
            /\ expected.ret =>
                xonly_pubkey_tweak_add_check(X(tweaked.pk), fe_is_odd_y(tweaked.pk), internal, tweak)

(* schnorrsig_sign returns 1 or leaves zeros, never what it signed with      *)
(* k = 1 after a failure (schnorrsig/main_impl.h:158-179), and zeros never   *)
(* pass for a success; a signature it returns verifies under the x-only key  *)
(* of its keypair, with no other s.                                          *)
SchnorrVerifies ==
    /\ signed <=> ssig # NoSchnorr
    /\ signed =>
        /\ Loads(keypair)
        /\ \A s \in 0 .. N :
            schnorrsig_verify(ssig.r, s, challenge, xonly_pub(keypair.pk)) <=> s = ssig.s
=============================================================================
