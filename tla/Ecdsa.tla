------------------------------- MODULE Ecdsa --------------------------------
(***************************************************************************)
(* ECDSA (src/ecdsa_impl.h, src/secp256k1.c, src/modules/recovery): the    *)
(* signing loop with a nonce function that may fail or return values out   *)
(* of range, compact signatures from elsewhere, low-S, verification and    *)
(* recovery of the key.                                                    *)
(*                                                                         *)
(* Points are logarithms (Group), with the X coordinates that they have on *)
(* a curve whose field is larger than its order, so that an X may exceed   *)
(* the order, be the order itself, or differ from another X by the order.  *)
(***************************************************************************)
EXTENDS Group, FiniteSets

CONSTANTS
    FieldSize,   \* the number of field elements
    XCoord,      \* the X coordinate of a point
    EcdsaKeys,   \* bound: 32-byte strings that serve as secret keys
    Messages,    \* bound: message hashes
    NonceBytes,  \* bound: what the nonce function may return
    WireBytes,   \* bound: halves of compact signatures
    MaxTries     \* bound: calls of the nonce function

EcdsaAssumption ==
    /\ FieldSize \in Nat /\ N < FieldSize /\ FieldSize < 2 * N
    /\ XCoord \in [Points -> 0 .. FieldSize - 1]
    /\ \A p, q \in Points : XCoord[p] = XCoord[q] <=> q \in {p, N - p}
    /\ EcdsaKeys \cup Messages \cup NonceBytes \cup WireBytes \subseteq Nat
    /\ MaxTries \in Nat

(* The order is a prime.                                                     *)
OrderAssumption == \A a \in Points : \E b \in Points : (a * b) % N = 1

InverseTable == [a \in Points |-> CHOOSE b \in Points : (a * b) % N = 1]
scalar_inverse(a) == InverseTable[a]

(* Faulty variant: compares with half the order inclusively.                 *)
is_high_inclusive(s) == s >= N \div 2
scalar_is_high(s) == s > N \div 2

Flip(recid) == IF recid % 2 = 0 THEN recid + 1 ELSE recid - 1

(* Faulty variant: negates s and keeps the recovery identifier.              *)
sig_sign_keeps_recid(seckey, message, nonce) ==
    LET r == scalar_set_b32(XCoord[nonce])
        s == scalar_mul(scalar_inverse(nonce), scalar_add(scalar_mul(r, seckey), message))
    IN  [r |-> r, s |-> IF scalar_is_high(s) THEN scalar_negate(s) ELSE s,
         recid |-> (IF Overflows(XCoord[nonce]) THEN 2 ELSE 0) + (IF fe_is_odd_y(nonce) THEN 1 ELSE 0)]

(* secp256k1_ecdsa_sig_sign, which fails when r or s is zero.                *)
sig_sign(seckey, message, nonce) ==
    LET x == XCoord[nonce]
        r == scalar_set_b32(x)
        s == scalar_mul(scalar_inverse(nonce), scalar_add(scalar_mul(r, seckey), message))
        recid == (IF Overflows(x) THEN 2 ELSE 0) + (IF fe_is_odd_y(nonce) THEN 1 ELSE 0)
    IN  IF scalar_is_high(s) THEN [r |-> r, s |-> scalar_negate(s), recid |-> Flip(recid)]
        ELSE [r |-> r, s |-> s, recid |-> recid]

Signed(sig) == sig.r # 0 /\ sig.s # 0

(* The points of a signature with a given r: X is r, or r + N if that is a   *)
(* field element.                                                            *)
HasSecondX(r) == r < FieldSize - N

(* Faulty variant: only looks at the first X.                                *)
sig_verify_first_x(sig, pubkey, message) ==
    LET sn == scalar_inverse(sig.s)
        pr == ecmult(pubkey, scalar_mul(sn, sig.r), scalar_mul(sn, message))
    IN  Signed(sig) /\ pr # Infinity /\ XCoord[pr] = sig.r

sig_verify(sig, pubkey, message) ==
    LET sn == scalar_inverse(sig.s)
        pr == ecmult(pubkey, scalar_mul(sn, sig.r), scalar_mul(sn, message))
    IN  /\ Signed(sig) /\ pr # Infinity
        /\ \/ XCoord[pr] = sig.r
           \/ HasSecondX(sig.r) /\ XCoord[pr] = sig.r + N

(* secp256k1_ecdsa_verify                                                    *)
ecdsa_verify(sig, pubkey, msghash) ==
    ~scalar_is_high(sig.s) /\ pubkey # Infinity /\ sig_verify(sig, pubkey, scalar_set_b32(msghash))

(* secp256k1_ecdsa_sig_recover: the recovered key, infinity if there is none. *)
sig_recover(sig, message, recid) ==
    LET fx == IF recid >= 2 THEN sig.r + N ELSE sig.r
        decompressed == {p \in Points : XCoord[p] = fx /\ (fe_is_odd_y(p) <=> recid % 2 = 1)}
        rn == scalar_inverse(sig.r)
    IN  IF Signed(sig) /\ (recid >= 2 => HasSecondX(sig.r)) /\ decompressed # {}
        THEN ecmult(CHOOSE p \in decompressed : TRUE, scalar_mul(rn, sig.s),
                    scalar_negate(scalar_mul(rn, message)))
        ELSE Infinity

(* secp256k1_ecdsa_signature_normalize                                       *)
signature_normalize(sig) ==
    IF scalar_is_high(sig.s) THEN [sig EXCEPT !.s = scalar_negate(@)] ELSE sig

-----------------------------------------------------------------------------
VARIABLES
    signer, msg,   \* the arguments of the signing call
    count,         \* the counter given to the nonce function
    sig,           \* the signature object, or r and s of the running call
    ret,           \* the return value of the last call
    pc             \* "idle", "nonce" (in the loop of sign_inner), "signed", "parsed"

ecdsa_vars == <<signer, msg, count, sig, ret, pc>>

NoSignature == [r |-> 0, s |-> 0, recid |-> 0]
Signatures == [r : Scalars, s : Scalars, recid : 0 .. 3]

(* The values of the state.                                                  *)
EcdsaTypeOK ==
    /\ signer \in EcdsaKeys /\ msg \in Messages /\ count \in 0 .. MaxTries
    /\ sig \in Signatures /\ ret \in BOOLEAN
    /\ pc \in {"idle", "nonce", "signed", "parsed"}

EcdsaInit ==
    /\ signer \in EcdsaKeys /\ msg \in Messages
    /\ count = 0 /\ sig = NoSignature /\ ret = FALSE /\ pc = "idle"

(* secp256k1_ecdsa_sign_inner: an invalid key is replaced by one.            *)
Sec == IF scalar_set_b32_seckey(signer) THEN signer ELSE 1

SignCall ==
    /\ pc = "idle"
    /\ sig' = NoSignature /\ pc' = "nonce"
    /\ UNCHANGED <<signer, msg, count, ret>>

(* Faulty variant: returns what the last attempt left.                       *)
ReturnLeftover(result, made) ==
    /\ ret' = (made /\ scalar_set_b32_seckey(signer))
    /\ sig' = result
    /\ pc' = "signed"

Return(result, made) ==
    /\ ret' = (made /\ scalar_set_b32_seckey(signer))
    /\ sig' = IF ret' THEN result ELSE NoSignature
    /\ pc' = "signed"

NonceFunctionFails ==
    /\ pc = "nonce"
    /\ Return(sig, FALSE)
    /\ UNCHANGED <<signer, msg, count>>

(* A nonce out of range, and one that gives no signature, are both followed  *)
(* by the next one; r and s keep what the attempt left.                      *)
TryNonce(nonce32) ==
    /\ pc = "nonce"
    /\ LET attempt == sig_sign(Sec, scalar_set_b32(msg), nonce32)
           valid == scalar_set_b32_seckey(nonce32)
       IN  \/ /\ valid /\ Signed(attempt)
              /\ Return(attempt, TRUE)
              /\ UNCHANGED count
           \/ /\ valid => ~Signed(attempt)
              /\ count < MaxTries /\ count' = count + 1
              /\ sig' = IF valid THEN attempt ELSE sig
              /\ UNCHANGED <<ret, pc>>
    /\ UNCHANGED <<signer, msg>>

(* secp256k1_ecdsa_recoverable_signature_parse_compact, and without recid    *)
(* secp256k1_ecdsa_signature_parse_compact.                                  *)
ParseCompact(r32, s32, recid) ==
    /\ pc = "idle"
    /\ ret' = (~Overflows(r32) /\ ~Overflows(s32))
    /\ sig' = IF ret' THEN [r |-> r32, s |-> s32, recid |-> recid] ELSE NoSignature
    /\ pc' = "parsed"
    /\ UNCHANGED <<signer, msg, count>>

Normalize ==
    /\ pc = "parsed"
    /\ ret' = scalar_is_high(sig.s)
    /\ sig' = signature_normalize(sig)
    /\ UNCHANGED <<signer, msg, count, pc>>

EcdsaNext ==
    \/ SignCall \/ NonceFunctionFails \/ Normalize
    \/ \E nonce32 \in NonceBytes : TryNonce(nonce32)
    \/ \E r32, s32 \in WireBytes, recid \in 0 .. 3 : ParseCompact(r32, s32, recid)

EcdsaSpec == EcdsaInit /\ [][EcdsaNext]_ecdsa_vars

-----------------------------------------------------------------------------
(* A signature that is returned verifies under the signer's key and recovers *)
(* to it with the identifier returned, however many nonces it took; a call   *)
(* that fails returns zeros, with nothing of an abandoned attempt            *)
(* (secp256k1.c:580-596).                                                    *)
SignedVerifies ==
    pc = "signed" =>
        IF ret
        THEN /\ ecdsa_verify(sig, signer, msg)
             /\ sig_recover(sig, scalar_set_b32(msg), sig.recid) = signer
        ELSE sig = NoSignature

(* Verification and recovery agree: a key verifies a signature exactly when  *)
(* one identifier recovers it, also where r has two X coordinates, and then  *)
(* it is one identifier only (ecdsa_impl.h:244-258).                         *)
OneIdentifierRecovers ==
    pc # "nonce" =>
        \A pubkey \in Points :
            LET m == scalar_set_b32(msg)
                ids == {recid \in 0 .. 3 : sig_recover(sig, m, recid) = pubkey}
            IN  Cardinality(ids) = IF sig_verify(sig, pubkey, m) THEN 1 ELSE 0

(* Of s and its negation secp256k1_ecdsa_verify accepts exactly one, the one *)
(* that signature_normalize gives, if the equation holds for s (the header:  *)
(* secp256k1.h, secp256k1_ecdsa_signature_normalize).                        *)
OneOfTwoAccepted ==
    pc # "nonce" =>
        \A pubkey \in Points :
            LET other == [sig EXCEPT !.s = scalar_negate(@)]
                accepted == {x \in {sig, other} : ecdsa_verify(x, pubkey, msg)}
            IN  accepted = IF sig_verify(sig, pubkey, scalar_set_b32(msg))
                           THEN {signature_normalize(sig)} ELSE {}

(* What a verifier accepts does not depend on how the signature came: of any *)
(* signature object, signed or parsed, both statements hold.                 *)
RecoverIffVerifies == OneIdentifierRecovers /\ OneOfTwoAccepted
=============================================================================
