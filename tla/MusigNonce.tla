----------------------------- MODULE MusigNonce -----------------------------
(***************************************************************************)
(* The life of MuSig nonces (src/modules/musig/session_impl.h): signers    *)
(* generate them into secnonce objects from a randomness buffer or from a  *)
(* counter, and spend them in partial_sign.  Calls come in any order, with *)
(* good and bad arguments, on fresh and on used objects; the buffer is     *)
(* refilled or not between calls.  What the caller owes is modelled as the *)
(* header states it: it does not copy secnonces, fills the buffer with     *)
(* values that do not repeat, and never passes a counter value twice.      *)
(*                                                                         *)
(* A nonce is the hash of the inputs of nonce_function_musig, so it is     *)
(* represented by those inputs.                                            *)
(***************************************************************************)
EXTENDS Integers, Sequences

CONSTANTS
    Signers,     \* owners of a keypair; a signer stands for its key
    Slots,       \* the secnonce objects each signer has
    Messages,    \* messages the optional msg32 argument takes
    NoArg,       \* a NULL optional argument
    MaxRandom,   \* bound: refills of randomness buffers
    MaxCounter,  \* bound: counter values per signer
    MaxSigned    \* bound: partial signatures produced

ASSUME ArgAssumption == NoArg \notin Signers \cup Messages
ASSUME BoundsAssumption == MaxRandom \in Nat /\ MaxCounter \in Nat /\ MaxSigned \in Nat

VARIABLES
    drawn,     \* randomness values handed out so far
    rand,      \* rand[s]: the content of s's session_secrand32; 0 is all zeros
    counter,   \* counter[s]: the next value of nonrepeating_cnt
    secnonce,  \* secnonce[s][o]: a nonce and the key it is for, or Zeroed
    signed     \* the nonces of the partial signatures produced, in order

vars == <<drawn, rand, counter, secnonce, signed>>

Zeroed == [k |-> NoArg, pk |-> NoArg]
OptSigners == Signers \cup {NoArg}
OptMessages == Messages \cup {NoArg}

(* The inputs of nonce_function_musig: where the 32 bytes of input_nonce     *)
(* come from, the optional secret key, the public key, the optional message. *)
Nonces == [from : {"random", "counter"}, input : Nat,
           seckey : OptSigners, pk : Signers, msg : OptMessages]

(* Objects hold a nonce, zeros or nothing, and signing only known signers.   *)
TypeOK ==
    /\ drawn \in Nat
    /\ rand \in [Signers -> Nat]
    /\ counter \in [Signers -> Nat]
    /\ secnonce \in [Signers -> [Slots -> [k : Nonces, pk : Signers] \cup {Zeroed}]]
    /\ signed \in Seq(Nonces)

Init ==
    /\ drawn = 0
    /\ rand = [s \in Signers |-> 0]
    /\ counter = [s \in Signers |-> 0]
    /\ secnonce = [s \in Signers |-> [o \in Slots |-> Zeroed]]
    /\ signed = <<>>

Put(s, o, value) == [secnonce EXCEPT ![s] = [secnonce[s] EXCEPT ![o] = value]]

(* The caller fills its buffer; a faulty source leaves zeros. *)
FillRandom(s) ==
    /\ drawn < MaxRandom
    /\ drawn' = drawn + 1
    /\ rand' = [rand EXCEPT ![s] = drawn']
    /\ UNCHANGED <<counter, secnonce, signed>>

FillZeros(s) ==
    /\ rand' = [rand EXCEPT ![s] = 0]
    /\ UNCHANGED <<drawn, counter, secnonce, signed>>

(* Faulty variant of NonceGen: does not clear the buffer. *)
NonceGenKeepsBuffer(s, o, seckey, msg, args) ==
    LET ok == rand[s] # 0 /\ args = "usable"
        k == [from |-> "random", input |-> rand[s], seckey |-> seckey, pk |-> s, msg |-> msg]
    IN  /\ secnonce' = Put(s, o, IF ok THEN [k |-> k, pk |-> s] ELSE Zeroed)
        /\ UNCHANGED <<drawn, rand, counter, signed>>

(* Faulty variant: does not look at the buffer. *)
NonceGenAcceptsZeros(s, o, seckey, msg, args) ==
    LET ok == args = "usable"
        k == [from |-> "random", input |-> rand[s], seckey |-> seckey, pk |-> s, msg |-> msg]
    IN  /\ secnonce' = Put(s, o, IF ok THEN [k |-> k, pk |-> s] ELSE Zeroed)
        /\ rand' = [rand EXCEPT ![s] = IF ok THEN 0 ELSE @]
        /\ UNCHANGED <<drawn, counter, signed>>

(* Faulty variant: a failing call clears the scalars and leaves the key. *)
NonceGenClearsPartly(s, o, seckey, msg, args) ==
    LET ok == rand[s] # 0 /\ args = "usable"
        k == [from |-> "random", input |-> rand[s], seckey |-> seckey, pk |-> s, msg |-> msg]
    IN  /\ secnonce' = Put(s, o, [k |-> IF ok THEN k ELSE NoArg, pk |-> s])
        /\ rand' = [rand EXCEPT ![s] = IF ok THEN 0 ELSE @]
        /\ UNCHANGED <<drawn, counter, signed>>

(* musig_nonce_gen: "args" says whether the other arguments are usable (a    *)
(* pubnonce pointer, a keyagg_cache and a public key with content, a secret  *)
(* key in range).  On failure the secnonce is left zeroed; the buffer is     *)
(* cleared on success only.                                                  *)
NonceGen(s, o, seckey, msg, args) ==
    LET ok == rand[s] # 0 /\ args = "usable"
        k == [from |-> "random", input |-> rand[s], seckey |-> seckey, pk |-> s, msg |-> msg]
    IN  /\ secnonce' = Put(s, o, IF ok THEN [k |-> k, pk |-> s] ELSE Zeroed)
        /\ rand' = [rand EXCEPT ![s] = IF ok THEN 0 ELSE @]
        /\ UNCHANGED <<drawn, counter, signed>>

(* musig_nonce_gen_counter; the caller moves on to the next value whatever   *)
(* the call returns.                                                         *)
NonceGenCounter(s, o, msg, args) ==
    LET k == [from |-> "counter", input |-> counter[s], seckey |-> s, pk |-> s, msg |-> msg]
    IN  /\ counter[s] < MaxCounter
        /\ counter' = [counter EXCEPT ![s] = @ + 1]
        /\ secnonce' = Put(s, o, IF args = "usable" THEN [k |-> k, pk |-> s] ELSE Zeroed)
        /\ UNCHANGED <<drawn, rand, signed>>

Loads(s, o) == secnonce[s][o] # Zeroed

(* Faulty variant: zeroes the secnonce only where it returns 0. *)
PartialSignKeeps(s, o, j, args) ==
    LET ok == Loads(s, o) /\ args = "usable" /\ secnonce[s][o].pk = j
    IN  /\ secnonce' = IF ok THEN secnonce ELSE Put(s, o, Zeroed)
        /\ ok => Len(signed) < MaxSigned
        /\ signed' = IF ok THEN Append(signed, secnonce[s][o].k) ELSE signed
        /\ UNCHANGED <<drawn, rand, counter>>

(* musig_partial_sign with the keypair of signer j: it loads the secnonce,   *)
(* zeroes it, and only then looks at the other arguments.                    *)
PartialSign(s, o, j, args) ==
    LET ok == Loads(s, o) /\ args = "usable" /\ secnonce[s][o].pk = j
    IN  /\ secnonce' = Put(s, o, Zeroed)
        /\ ok => Len(signed) < MaxSigned
        /\ signed' = IF ok THEN Append(signed, secnonce[s][o].k) ELSE signed
        /\ UNCHANGED <<drawn, rand, counter>>

Args == {"usable", "unusable"}

Next ==
    \E s \in Signers :
      \/ FillRandom(s)
      \/ FillZeros(s)
      \/ \E o \in Slots, args \in Args :
           \/ \E seckey \in {s, NoArg}, msg \in OptMessages :
                NonceGen(s, o, seckey, msg, args)
           \/ \E msg \in OptMessages : NonceGenCounter(s, o, msg, args)
           \/ \E j \in Signers : PartialSign(s, o, j, args)

Spec == Init /\ [][Next]_vars

-----------------------------------------------------------------------------
(* No two partial signatures ever use the same nonce, whatever calls fail in *)
(* between, whichever object or buffer is used again (session_impl.h:646     *)
(* "Set nonce to zero to avoid nonce reuse", :459 the same of the buffer).   *)
NonceUsedOnce ==
    \A i, j \in 1 .. Len(signed) : i # j => signed[i] # signed[j]

(* The cause: a nonce that can still be spent is in one object only, and is  *)
(* not among those already spent.                                            *)
NonceUnspent ==
    \A s \in Signers, o \in Slots : Loads(s, o) =>
      /\ \A i \in 1 .. Len(signed) : signed[i] # secnonce[s][o].k
      /\ \A t \in Signers, q \in Slots :
           Loads(t, q) /\ secnonce[t][q].k = secnonce[s][o].k => s = t /\ o = q

(* A buffer of zeros never becomes a nonce (session_impl.h:445 "may protect  *)
(* against a faulty RNG").                                                   *)
NoZeroRandomness ==
    \A i \in 1 .. Len(signed) : signed[i].from = "random" => signed[i].input # 0
=============================================================================
