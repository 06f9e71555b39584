-------------------------- MODULE MusigNonceProofs --------------------------
(***************************************************************************)
(* MuSig nonces are used once: the proof, for any number of signers,       *)
(* objects, messages and calls.                                            *)
(***************************************************************************)
EXTENDS MusigNonce, SequenceTheorems, TLAPS

(* Where a nonce came from cannot produce it again: the randomness is in no  *)
(* buffer any more, the counter has moved on.                                *)
Exhausted(k) ==
    /\ k \in Nonces
    /\ k.from = "random" => /\ k.input # 0 /\ k.input <= drawn
                            /\ \A t \in Signers : rand[t] # k.input
    /\ k.from = "counter" => k.input < counter[k.pk]

Origins ==
    /\ \A s \in Signers, o \in Slots : Loads(s, o) => Exhausted(secnonce[s][o].k)
    /\ \A i \in 1 .. Len(signed) : Exhausted(signed[i])

(* No value is in two buffers. *)
Buffers ==
    \A s \in Signers :
      /\ rand[s] <= drawn
      /\ \A t \in Signers : rand[s] # 0 /\ rand[s] = rand[t] => s = t

IInv == TypeOK /\ Origins /\ Buffers /\ NonceUnspent /\ NonceUsedOnce

(* What a secnonce object that loads holds.                                  *)
LEMMA HeldIsNonce ==
    ASSUME TypeOK, NEW s \in Signers, NEW o \in Slots, Loads(s, o)
    PROVE  secnonce[s][o].k \in Nonces /\ secnonce[s][o].pk \in Signers
  BY DEF TypeOK, Loads

(* Writing one object leaves every other object alone.                       *)
LEMMA PutIs ==
    ASSUME TypeOK, NEW s \in Signers, NEW o \in Slots,
           NEW value \in [k : Nonces, pk : Signers] \cup {Zeroed}
    PROVE  /\ Put(s, o, value)
                \in [Signers -> [Slots -> [k : Nonces, pk : Signers] \cup {Zeroed}]]
           /\ Put(s, o, value)[s][o] = value
           /\ \A t \in Signers, q \in Slots :
                ~(t = s /\ q = o) => Put(s, o, value)[t][q] = secnonce[t][q]
  BY DEF TypeOK, Put

(* A zeroed object is told apart from one that holds a nonce.                *)
LEMMA ZeroedIsNoNonce ==
    ASSUME NEW k \in Nonces, NEW s \in Signers
    PROVE  [k |-> k, pk |-> s] # Zeroed
  BY ArgAssumption DEF Zeroed

(* What Origins says of a nonce survives a step that hands no new randomness *)
(* to a buffer except a fresh one, and moves no counter back.                *)
LEMMA ExhaustedKept ==
    ASSUME TypeOK, NEW k, Exhausted(k),
           drawn' \in Nat, drawn <= drawn',
           \A t \in Signers : rand'[t] \in {rand[t], 0, drawn + 1},
           \A t \in Signers : counter'[t] \in Nat /\ counter[t] <= counter'[t]
    PROVE  Exhausted(k)'
  <1>1. k \in Nonces /\ k.pk \in Signers /\ k.input \in Nat
    BY DEF Exhausted, Nonces
  <1>2. k.from = "random" => /\ k.input # 0 /\ k.input <= drawn'
                             /\ \A t \in Signers : rand'[t] # k.input
    BY <1>1 DEF Exhausted, TypeOK
  <1>3. k.from = "counter" => k.input < counter'[k.pk]
    BY <1>1 DEF Exhausted, TypeOK
  <1> QED
    BY <1>1, <1>2, <1>3 DEF Exhausted

(* Storing a nonce nothing has seen, and exhausting it, keeps the invariant. *)
LEMMA StoreInv ==
    ASSUME IInv, NEW s \in Signers, NEW o \in Slots, NEW k \in Nonces,
           secnonce' = Put(s, o, [k |-> k, pk |-> s]), signed' = signed,
           TypeOK', Buffers', Exhausted(k)',
           \A c : Exhausted(c) => Exhausted(c)' /\ c # k
    PROVE  IInv'
  <1> DEFINE new == [k |-> k, pk |-> s]
  <1>1. /\ secnonce'[s][o] = new
        /\ \A t \in Signers, q \in Slots :
             ~(t = s /\ q = o) => secnonce'[t][q] = secnonce[t][q]
    BY PutIs DEF IInv
  <1>2. new.k = k
    OBVIOUS
  <1> HIDE DEF new
  <1>3. \A t \in Signers, q \in Slots :
          ~(t = s /\ q = o) /\ Loads(t, q)'
             => Loads(t, q) /\ secnonce'[t][q] = secnonce[t][q]
                /\ Exhausted(secnonce[t][q].k)
    BY <1>1 DEF Loads, IInv, Origins
  <1>4. Origins'
    <2>1. \A t \in Signers, q \in Slots : Loads(t, q)' => Exhausted(secnonce[t][q].k)'
      <3> SUFFICES ASSUME NEW t \in Signers, NEW q \in Slots, Loads(t, q)'
                   PROVE  Exhausted(secnonce[t][q].k)'
        OBVIOUS
      <3>1. CASE t = s /\ q = o
        <4>1. secnonce'[t][q].k = k
          BY <1>1, <1>2, <3>1
        <4> QED
          BY <4>1 DEF Exhausted
      <3>2. CASE ~(t = s /\ q = o)
        <4>1. secnonce'[t][q] = secnonce[t][q] /\ Exhausted(secnonce[t][q].k)
          BY <1>3, <3>2
        <4>2. \A c : Exhausted(c) => Exhausted(c)'
          OBVIOUS
        <4> QED
          BY <4>1, <4>2 DEF Exhausted
      <3> QED
        BY <3>1, <3>2
    <2>2. \A i \in 1 .. Len(signed') : Exhausted(signed[i])'
      BY DEF IInv, Origins, Exhausted
    <2> QED
      BY <2>1, <2>2 DEF Origins
  <1>5. NonceUnspent'
    <2> SUFFICES ASSUME NEW t \in Signers, NEW q \in Slots, Loads(t, q)'
                 PROVE  /\ \A i \in 1 .. Len(signed') : signed'[i] # secnonce'[t][q].k
                        /\ \A u \in Signers, r \in Slots :
                             Loads(u, r)' /\ secnonce'[u][r].k = secnonce'[t][q].k
                               => t = u /\ q = r
      BY DEF NonceUnspent
    <2>1. CASE t = s /\ q = o
      BY <1>1, <1>2, <1>3, <2>1 DEF IInv, Origins
    <2>2. CASE ~(t = s /\ q = o)
      BY <1>1, <1>2, <1>3, <2>2 DEF IInv, NonceUnspent
    <2> QED
      BY <2>1, <2>2
  <1>6. NonceUsedOnce'
    BY DEF IInv, NonceUsedOnce
  <1> QED
    BY <1>4, <1>5, <1>6 DEF IInv

(* Zeroing an object, or anything that leaves nonces alone. *)
LEMMA DropInv ==
    ASSUME IInv, TypeOK', Buffers', signed' = signed,
           \A t \in Signers, q \in Slots :
             secnonce'[t][q] = secnonce[t][q] \/ secnonce'[t][q] = Zeroed,
           \A c : Exhausted(c) => Exhausted(c)'
    PROVE  IInv'
  <1>1. \A t \in Signers, q \in Slots :
          Loads(t, q)' => Loads(t, q) /\ secnonce'[t][q] = secnonce[t][q]
    BY DEF Loads
  <1>2. Origins'
    <2>1. \A t \in Signers, q \in Slots : Loads(t, q)' => Exhausted(secnonce[t][q].k)'
      <3> SUFFICES ASSUME NEW t \in Signers, NEW q \in Slots, Loads(t, q)'
                   PROVE  Exhausted(secnonce[t][q].k)'
        OBVIOUS
      <3>1. secnonce'[t][q] = secnonce[t][q] /\ Exhausted(secnonce[t][q].k)
        BY <1>1 DEF IInv, Origins
      <3> QED
        BY <3>1 DEF Exhausted
    <2>2. \A i \in 1 .. Len(signed') : Exhausted(signed[i])'
      BY DEF IInv, Origins, Exhausted
    <2> QED
      BY <2>1, <2>2 DEF Origins
  <1>3. NonceUnspent' /\ NonceUsedOnce'
    BY <1>1 DEF IInv, NonceUnspent, NonceUsedOnce
  <1> QED
    BY <1>2, <1>3 DEF IInv

(* The invariant holds before any call.                                      *)
LEMMA InitInv == Init => IInv
  <1> SUFFICES ASSUME Init PROVE IInv
    OBVIOUS
  <1>1. TypeOK
    BY DEF Init, TypeOK
  <1>2. \A s \in Signers, o \in Slots : ~Loads(s, o)
    BY DEF Init, Loads
  <1>3. Len(signed) = 0
    BY DEF Init
  <1>4. Buffers
    <2>1. \A s \in Signers : rand[s] = 0
      BY DEF Init
    <2>2. drawn = 0
      BY DEF Init
    <2>3. \A s \in Signers : rand[s] <= drawn
      <3>1. 0 <= 0
        OBVIOUS
      <3> QED
        BY <2>1, <2>2, <3>1, Zenon
    <2>4. \A s, t \in Signers : rand[s] # 0 /\ rand[s] = rand[t] => s = t
      BY <2>1
    <2> QED
      BY <2>3, <2>4 DEF Buffers
  <1> QED
    BY <1>1, <1>2, <1>3, <1>4 DEF IInv, Origins, NonceUnspent, NonceUsedOnce

(* Fresh randomness repeats nothing that was drawn before.                   *)
LEMMA FillRandomInv ==
    ASSUME IInv, NEW s \in Signers, FillRandom(s)
    PROVE  IInv'
  <1>1. TypeOK'
    BY DEF IInv, TypeOK, FillRandom
  <1>2. Buffers'
    BY DEF IInv, TypeOK, Buffers, FillRandom
  <1>3. \A c : Exhausted(c) => Exhausted(c)'
    <2>1. /\ drawn' \in Nat /\ drawn <= drawn'
          /\ \A t \in Signers : rand'[t] \in {rand[t], 0, drawn + 1}
          /\ \A t \in Signers : counter'[t] \in Nat /\ counter[t] <= counter'[t]
      BY DEF IInv, TypeOK, FillRandom
    <2> QED
      BY <2>1, ExhaustedKept DEF IInv
  <1> QED
    BY <1>1, <1>2, <1>3, DropInv DEF FillRandom

(* A zeroed buffer makes no nonce: nonce_gen refuses it.                     *)
LEMMA FillZerosInv ==
    ASSUME IInv, NEW s \in Signers, FillZeros(s)
    PROVE  IInv'
  <1>1. TypeOK'
    BY DEF IInv, TypeOK, FillZeros
  <1>2. Buffers'
    BY DEF IInv, TypeOK, Buffers, FillZeros
  <1>3. \A c : Exhausted(c) => Exhausted(c)'
    <2>1. /\ drawn' \in Nat /\ drawn <= drawn'
          /\ \A t \in Signers : rand'[t] \in {rand[t], 0, drawn + 1}
          /\ \A t \in Signers : counter'[t] \in Nat /\ counter[t] <= counter'[t]
      BY DEF IInv, TypeOK, FillZeros
    <2> QED
      BY <2>1, ExhaustedKept DEF IInv
  <1> QED
    BY <1>1, <1>2, <1>3, DropInv DEF FillZeros

(* nonce_gen consumes the randomness it stores as a nonce.                   *)
LEMMA NonceGenInv ==
    ASSUME IInv, NEW s \in Signers, NEW o \in Slots, NEW seckey \in {s, NoArg},
           NEW msg \in OptMessages, NEW args \in Args,
           NonceGen(s, o, seckey, msg, args)
    PROVE  IInv'
  <1>nonce. PICK k : k = [from |-> "random", input |-> rand[s], seckey |-> seckey,
                      pk |-> s, msg |-> msg]
    OBVIOUS
  <1> DEFINE ok == rand[s] # 0 /\ args = "usable"
             value == IF ok THEN [k |-> k, pk |-> s] ELSE Zeroed
  <1>1. /\ secnonce' = Put(s, o, value) /\ signed' = signed
        /\ rand' = [rand EXCEPT ![s] = IF ok THEN 0 ELSE @]
        /\ drawn' = drawn /\ counter' = counter
    BY <1>nonce DEF NonceGen
  <1>2. k \in Nonces
    BY <1>nonce DEF IInv, TypeOK, Nonces, OptSigners
  <1>3. value \in [k : Nonces, pk : Signers] \cup {Zeroed}
    BY <1>2
  <1>4. k.from = "random" /\ k.input = rand[s]
    BY <1>nonce
  <1>value. /\ ok => value = [k |-> k, pk |-> s]
        /\ ~ok => value = Zeroed
    OBVIOUS
  <1> HIDE DEF value
  <1>5. TypeOK'
    <2>1. secnonce' \in [Signers -> [Slots -> [k : Nonces, pk : Signers] \cup {Zeroed}]]
      BY <1>1, <1>3, PutIs DEF IInv
    <2> QED
      BY <1>1, <2>1 DEF IInv, TypeOK
  <1>6. /\ \A t \in Signers : rand'[t] \in {rand[t], 0}
        /\ ok => rand'[s] = 0
    BY <1>1 DEF IInv, TypeOK
  <1>7. Buffers'
    BY <1>1, <1>6 DEF IInv, TypeOK, Buffers
  <1>8. \A c : Exhausted(c) => Exhausted(c)'
    <2>1. /\ drawn' \in Nat /\ drawn <= drawn'
          /\ \A t \in Signers : rand'[t] \in {rand[t], 0, drawn + 1}
          /\ \A t \in Signers : counter'[t] \in Nat /\ counter[t] <= counter'[t]
      BY <1>1, <1>6 DEF IInv, TypeOK
    <2> QED
      BY <2>1, ExhaustedKept DEF IInv
  <1>9. CASE ok
    <2>1. Exhausted(k)'
      <3>1. \A t \in Signers : rand'[t] # rand[s]
        BY <1>6, <1>9 DEF IInv, TypeOK, Buffers
      <3> QED
        BY <1>1, <1>2, <1>4, <1>9, <3>1 DEF IInv, Buffers, Exhausted, TypeOK
    <2>2. \A c : Exhausted(c) => c # k
      BY <1>4 DEF Exhausted
    <2>3. secnonce' = Put(s, o, [k |-> k, pk |-> s])
      <3>1. value = [k |-> k, pk |-> s]
        BY <1>9 DEF value
      <3> QED
        BY <1>1, <3>1, Zenon
    <2>4. \A c : Exhausted(c) => Exhausted(c)' /\ c # k
      BY <1>8, <2>2
    <2> QED
      BY <1>1, <1>2, <1>5, <1>7, <2>1, <2>3, <2>4, StoreInv
  <1>10. CASE ~ok
    <2>1. \A t \in Signers, q \in Slots :
            secnonce'[t][q] = secnonce[t][q] \/ secnonce'[t][q] = Zeroed
      BY <1>1, <1>3, <1>10, <1>value, PutIs DEF IInv
    <2> QED
      BY <1>1, <1>5, <1>7, <1>8, <2>1, DropInv
  <1> QED
    BY <1>9, <1>10

(* nonce_gen_counter makes a nonce no other counter value makes.             *)
LEMMA NonceGenCounterInv ==
    ASSUME IInv, NEW s \in Signers, NEW o \in Slots,
           NEW msg \in OptMessages, NEW args \in Args,
           NonceGenCounter(s, o, msg, args)
    PROVE  IInv'
  <1>nonce. PICK k : k = [from |-> "counter", input |-> counter[s], seckey |-> s,
                      pk |-> s, msg |-> msg]
    OBVIOUS
  <1> DEFINE value == IF args = "usable" THEN [k |-> k, pk |-> s] ELSE Zeroed
  <1>1. /\ secnonce' = Put(s, o, value) /\ signed' = signed
        /\ counter' = [counter EXCEPT ![s] = @ + 1]
        /\ drawn' = drawn /\ rand' = rand
    BY <1>nonce DEF NonceGenCounter
  <1>2. k \in Nonces
    BY <1>nonce DEF IInv, TypeOK, Nonces, OptSigners
  <1>3. value \in [k : Nonces, pk : Signers] \cup {Zeroed}
    BY <1>2
  <1>4. k.from = "counter" /\ k.input = counter[s] /\ k.pk = s
    BY <1>nonce
  <1>value. /\ args = "usable" => value = [k |-> k, pk |-> s]
        /\ args # "usable" => value = Zeroed
    OBVIOUS
  <1> HIDE DEF value
  <1>count. /\ counter' \in [Signers -> Nat] /\ counter[s] < counter'[s]
        /\ \A t \in Signers : counter[t] <= counter'[t]
    BY <1>1 DEF IInv, TypeOK
  <1>5. TypeOK'
    <2>1. secnonce' \in [Signers -> [Slots -> [k : Nonces, pk : Signers] \cup {Zeroed}]]
      BY <1>1, <1>3, PutIs DEF IInv
    <2> QED
      BY <1>1, <1>count, <2>1 DEF IInv, TypeOK
  <1>6. Buffers'
    BY <1>1 DEF IInv, Buffers
  <1>7. \A c : Exhausted(c) => Exhausted(c)'
    <2>1. /\ drawn' \in Nat /\ drawn <= drawn'
          /\ \A t \in Signers : rand'[t] \in {rand[t], 0, drawn + 1}
          /\ \A t \in Signers : counter'[t] \in Nat /\ counter[t] <= counter'[t]
      BY <1>1, <1>count DEF IInv, TypeOK
    <2> QED
      BY <2>1, ExhaustedKept DEF IInv
  <1>8. CASE args = "usable"
    <2>1. Exhausted(k)'
      BY <1>1, <1>2, <1>4, <1>count DEF Exhausted
    <2>2. \A c : Exhausted(c) => c # k
      BY <1>4 DEF IInv, TypeOK, Exhausted
    <2>3. secnonce' = Put(s, o, [k |-> k, pk |-> s])
      <3>1. value = [k |-> k, pk |-> s]
        BY <1>8 DEF value
      <3> QED
        BY <1>1, <3>1, Zenon
    <2>4. \A c : Exhausted(c) => Exhausted(c)' /\ c # k
      BY <1>7, <2>2
    <2> QED
      BY <1>1, <1>2, <1>5, <1>6, <2>1, <2>3, <2>4, StoreInv
  <1>9. CASE args # "usable"
    <2>1. \A t \in Signers, q \in Slots :
            secnonce'[t][q] = secnonce[t][q] \/ secnonce'[t][q] = Zeroed
      BY <1>1, <1>3, <1>9, <1>value, PutIs DEF IInv
    <2> QED
      BY <1>1, <1>5, <1>6, <1>7, <2>1, DropInv
  <1> QED
    BY <1>8, <1>9

(* partial_sign zeroes the object before it can fail, and spends the nonce once. *)
LEMMA PartialSignInv ==
    ASSUME IInv, NEW s \in Signers, NEW o \in Slots, NEW j \in Signers,
           NEW args \in Args, PartialSign(s, o, j, args)
    PROVE  IInv'
  <1> DEFINE ok == Loads(s, o) /\ args = "usable" /\ secnonce[s][o].pk = j
             k == secnonce[s][o].k
  <1>1. /\ secnonce' = Put(s, o, Zeroed)
        /\ signed' = IF ok THEN Append(signed, k) ELSE signed
        /\ drawn' = drawn /\ rand' = rand /\ counter' = counter
    BY DEF PartialSign
  <1>2. /\ secnonce' \in [Signers -> [Slots -> [k : Nonces, pk : Signers] \cup {Zeroed}]]
        /\ secnonce'[s][o] = Zeroed
        /\ \A t \in Signers, q \in Slots :
             ~(t = s /\ q = o) => secnonce'[t][q] = secnonce[t][q]
    BY <1>1, PutIs DEF IInv
  <1>3. Buffers'
    BY <1>1 DEF IInv, Buffers
  <1>4. \A c : Exhausted(c) => Exhausted(c)'
    BY <1>1 DEF Exhausted
  <1>5. CASE ok
    <2>1. k \in Nonces /\ Exhausted(k) /\ signed \in Seq(Nonces)
      BY <1>5, HeldIsNonce DEF IInv, Origins, TypeOK
    <2> DEFINE n == Len(signed)
    <2>2. /\ signed' \in Seq(Nonces) /\ Len(signed') = n + 1 /\ n \in Nat
          /\ \A i \in 1 .. n : signed'[i] = signed[i]
          /\ signed'[n + 1] = k
      BY <1>1, <1>5, <2>1
    <2>3. TypeOK'
      BY <1>1, <1>2, <2>2 DEF IInv, TypeOK
    <2>4. \A t \in Signers, q \in Slots :
            Loads(t, q)' => /\ Loads(t, q) /\ secnonce'[t][q] = secnonce[t][q]
                            /\ ~(t = s /\ q = o)
      BY <1>2 DEF Loads
    <2>5. \A i \in 1 .. n : signed[i] # k
      BY <1>5 DEF IInv, NonceUnspent
    <2>6. \A t \in Signers, q \in Slots : Loads(t, q)' => secnonce[t][q].k # k
      BY <1>5, <2>4 DEF IInv, NonceUnspent
    <2>7. Origins'
      <3>1. \A t \in Signers, q \in Slots : Loads(t, q)' => Exhausted(secnonce[t][q].k)'
        BY <1>1, <2>4 DEF IInv, Origins, Exhausted
      <3>2. \A i \in 1 .. Len(signed') : Exhausted(signed[i])'
        <4> SUFFICES ASSUME NEW i \in 1 .. n + 1 PROVE Exhausted(signed[i])'
          BY <2>2
        <4>1. signed'[i] = k \/ (i \in 1 .. n /\ signed'[i] = signed[i])
          BY <2>2
        <4>2. Exhausted(signed'[i])
          BY <2>1, <4>1 DEF IInv, Origins
        <4> QED
          BY <1>1, <4>2 DEF Exhausted
      <3> QED
        BY <3>1, <3>2 DEF Origins
    <2>8. NonceUnspent'
      <3> SUFFICES ASSUME NEW t \in Signers, NEW q \in Slots, Loads(t, q)'
                   PROVE  /\ \A i \in 1 .. n + 1 : signed'[i] # secnonce'[t][q].k
                          /\ \A u \in Signers, r \in Slots :
                               Loads(u, r)' /\ secnonce'[u][r].k = secnonce'[t][q].k
                                 => t = u /\ q = r
        BY <2>2 DEF NonceUnspent
      <3>1. Loads(t, q) /\ secnonce'[t][q] = secnonce[t][q] /\ secnonce[t][q].k # k
        BY <2>4, <2>6
      <3>2. \A i \in 1 .. n + 1 : signed'[i] # secnonce'[t][q].k
        BY <2>2, <3>1 DEF IInv, NonceUnspent
      <3>3. \A u \in Signers, r \in Slots :
              Loads(u, r)' /\ secnonce'[u][r].k = secnonce'[t][q].k => t = u /\ q = r
        BY <2>4, <3>1 DEF IInv, NonceUnspent
      <3> QED
        BY <3>2, <3>3
    <2>9. NonceUsedOnce'
      <3> SUFFICES ASSUME NEW i \in 1 .. n + 1, NEW h \in 1 .. n + 1, i # h
                   PROVE  signed'[i] # signed'[h]
        BY <2>2 DEF NonceUsedOnce
      <3> QED
        BY <2>2, <2>5 DEF IInv, NonceUsedOnce
    <2> QED
      BY <1>3, <2>3, <2>7, <2>8, <2>9 DEF IInv
  <1>6. CASE ~ok
    <2>1. TypeOK'
      BY <1>1, <1>2, <1>6 DEF IInv, TypeOK
    <2>2. \A t \in Signers, q \in Slots :
            secnonce'[t][q] = secnonce[t][q] \/ secnonce'[t][q] = Zeroed
      BY <1>2
    <2> QED
      BY <1>1, <1>3, <1>4, <1>6, <2>1, <2>2, DropInv
  <1> QED
    BY <1>5, <1>6

(* A step that changes nothing keeps the invariant.                          *)
LEMMA StutterInv == IInv /\ UNCHANGED vars => IInv'
  BY DEF vars, IInv, TypeOK, Origins, Exhausted, Loads, Buffers, NonceUnspent, NonceUsedOnce

(* Every call keeps the invariant.                                           *)
LEMMA NextInv == IInv /\ [Next]_vars => IInv'
  <1> SUFFICES ASSUME IInv, Next PROVE IInv'
    BY StutterInv
  <1>1. PICK s \in Signers :
          \/ FillRandom(s)
          \/ FillZeros(s)
          \/ \E o \in Slots, args \in Args :
               \/ \E seckey \in {s, NoArg}, msg \in OptMessages :
                    NonceGen(s, o, seckey, msg, args)
               \/ \E msg \in OptMessages : NonceGenCounter(s, o, msg, args)
               \/ \E j \in Signers : PartialSign(s, o, j, args)
    BY DEF Next
  <1>2. CASE FillRandom(s)
    BY <1>2, FillRandomInv
  <1>3. CASE FillZeros(s)
    BY <1>3, FillZerosInv
  <1>4. CASE \E o \in Slots, args \in Args, seckey \in {s, NoArg}, msg \in OptMessages :
               NonceGen(s, o, seckey, msg, args)
    BY <1>4, NonceGenInv
  <1>5. CASE \E o \in Slots, args \in Args, msg \in OptMessages :
               NonceGenCounter(s, o, msg, args)
    BY <1>5, NonceGenCounterInv
  <1>6. CASE \E o \in Slots, args \in Args, j \in Signers : PartialSign(s, o, j, args)
    BY <1>6, PartialSignInv
  <1> QED
    BY <1>1, <1>2, <1>3, <1>4, <1>5, <1>6

(* The inductive invariant, of every sequence of calls.                      *)
THEOREM Invariance == Spec => []IInv
  BY InitInv, NextInv, PTL DEF Spec

(* A secnonce object is either wholly zeroed or wholly a nonce of a key.     *)
THEOREM TypeCorrect == Spec => []TypeOK
  <1>1. IInv => TypeOK
    BY DEF IInv
  <1> QED
    BY <1>1, Invariance, PTL

(* No call sequence makes two partial signatures from one nonce.             *)
THEOREM UsedOnce == Spec => []NonceUsedOnce
  <1>1. IInv => NonceUsedOnce
    BY DEF IInv
  <1> QED
    BY <1>1, Invariance, PTL

(* A nonce still held is held once and has not been spent.                   *)
THEOREM Unspent == Spec => []NonceUnspent
  <1>1. IInv => NonceUnspent
    BY DEF IInv
  <1> QED
    BY <1>1, Invariance, PTL

(* An all-zero randomness buffer never ends up in a partial signature.       *)
THEOREM NoZeros == Spec => []NoZeroRandomness
  <1>1. IInv => NoZeroRandomness
    BY DEF IInv, Origins, Exhausted, NoZeroRandomness
  <1> QED
    BY <1>1, Invariance, PTL
=============================================================================
