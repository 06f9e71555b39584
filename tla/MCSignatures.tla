---------------------------- MODULE MCSignatures ----------------------------
(***************************************************************************)
(* An instance of Ecdsa, Keys and Encodings over one group of order 31:    *)
(* the curve y^2 = x^3 + 29 over the field of 43 elements, whose points    *)
(* have X coordinates above the order, one that is the order, and pairs    *)
(* that differ by it. The scalars in DER have two bytes of their own size. *)
(* A behaviour is one of signatures, of keys, of strings or of DER.        *)
(***************************************************************************)
EXTENDS Keys, Ecdsa

CONSTANTS KeyTags, KeyBytes, NonceTags, NonceXBytes, MaxParses,
          SizeBytes, SequenceTag, IntegerTag, DerScalars, EditBytes, MaxEdits

VARIABLES protocol, type, object, meaning, parses, wire, edits

key_vars == <<type, object, meaning, parses>>
der_vars == <<wire, edits>>
encoding_vars == <<key_vars, der_vars>>

(* The X coordinates of the multiples of (3, 20), and those with odd Y.      *)
MCXCoord == <<3, 32, 31, 10, 18, 22, 16, 5, 30, 20, 17, 34, 41, 8, 14,
              14, 8, 41, 34, 17, 20, 30, 5, 16, 22, 18, 10, 31, 32, 3>>
MCOddPoints == {3, 6, 11, 12, 13, 15, 17, 21, 22, 23, 24, 26, 27, 29, 30}

MCKnown ==
    [k \in 1 .. 30 |->
        CHOOSE q \in [x : {MCXCoord[k]}, y : 0 .. 42, infinity : {FALSE}] :
            /\ (q.y * q.y - q.x * q.x * q.x - 29) % 43 = 0
            /\ q.y % 2 = 1 <=> k \in MCOddPoints]

(* Signatures of one and two bytes per integer, and two integers whose       *)
(* lengths take one and two octets to write down.                            *)
MCLongIntegers == {<<16>>, [i \in 1 .. 16 |-> 1], [i \in 1 .. 34 |-> IF i = 1 THEN 0 ELSE 31]}

C == INSTANCE Encodings
        WITH p <- 43, B <- 29, beta <- 6, lambda <- 5, Gx <- 3, Gy <- 20, MaxTable <- 0,
             acc <- 0, log <- 0, rzr <- 0, made <- <<>>, Known <- MCKnown,
             Base <- 32, Width <- 2, GroupOrder <- 1009, LongIntegers <- MCLongIntegers

ASSUME C!CurveAssumption /\ EcdsaAssumption /\ OrderAssumption /\ KeysAssumption /\ C!DerAssumption

ASSUME \A k \in Points :
    /\ MCKnown[k] = C!Multiple[k]
    /\ k \in MCOddPoints <=> C!fe_is_odd(C!Multiple[k].y)

MCNonceResults == {NonceFails, 0, 1, 3, 5, 17, 31, 33}

ProtocolInit ==
    /\ protocol \in {"ecdsa", "keys", "pubkeys", "der"}
    /\ Init /\ EcdsaInit /\ C!KeyInit /\ C!DerInit
    /\ protocol # "keys" => seckey = 1 /\ challenge = 0
    /\ protocol # "ecdsa" => signer = 1 /\ msg = 0
    /\ protocol # "pubkeys" => type = "pubkey"

ProtocolNext ==
    \/ protocol = "ecdsa" /\ EcdsaNext /\ UNCHANGED <<protocol, vars, encoding_vars>>
    \/ protocol = "keys" /\ Next /\ UNCHANGED <<protocol, ecdsa_vars, encoding_vars>>
    \/ /\ protocol = "pubkeys" /\ C!KeyNext
       /\ UNCHANGED <<protocol, vars, ecdsa_vars, der_vars>>
    \/ /\ protocol = "der" /\ C!DerNext
       /\ UNCHANGED <<protocol, vars, ecdsa_vars, key_vars>>

ProtocolSpec == ProtocolInit /\ [][ProtocolNext]_<<protocol, vars, ecdsa_vars, encoding_vars>>

(* What is read from bytes is what they encode, and what is written is read  *)
(* back (see Encodings).                                                     *)
EncodingsRight ==
    /\ protocol = "der" => C!TakesDerOnly /\ C!LaxTakesDer
    /\ protocol = "pubkeys" => C!KeysRight
=============================================================================
