-------------------------- MODULE MCSilentPayments --------------------------
(***************************************************************************)
(* An instance of the silent payments, and of the sort by itself on longer *)
(* arrays with equal elements: a behaviour is one or the other.            *)
(***************************************************************************)
EXTENDS SilentPayments

CONSTANTS
    MaxRecipients,   \* bound: recipients of one call
    MaxElements,     \* bound: elements of an array that is only sorted
    Values           \* bound: their values

MCOddPoints == (N + 1) \div 2 .. N - 1

(* Hashes of a kind: no two values that occur here are equal, except on      *)
(* purpose.                                                                  *)
MixTable == [r \in 0 .. N - 1 |-> (r * r + 7 * r + 3) % N]
Mix(x) == MixTable[x % N]
MCInputHash(sum) == Mix(13 * sum)
MCOutputTweak(secret, kk) == Mix(Mix(secret) + 101 * kk)

MCInputKeys == {[seckeys |-> <<5, 11>>, keypairs |-> <<8, N - 9>>],
                [seckeys |-> <<>>, keypairs |-> <<N - 9, 3>>],
                [seckeys |-> <<N - 3>>, keypairs |-> <<N - 3>>],   \* the sum is zero
                [seckeys |-> <<N, 5>>, keypairs |-> <<>>]}         \* not a secret key

Alice == [scan |-> 977, spend |-> 1234, lookup |-> TRUE, labels |-> {77, 78}]
Bob == [scan |-> 300, spend |-> 4321, lookup |-> TRUE, labels |-> {99}]
Address(w, label) == [scan |-> w.scan, spend |-> gej_add(w.spend, label)]

(* A spend key chosen to cancel the tweak of the first set of inputs.        *)
Cancelling ==
    LET sum == 5 + 11 + 8 + 9
        secret == scalar_mul(Alice.scan, scalar_mul(sum, MCInputHash(sum)))
    IN  [scan |-> Alice.scan, spend |-> N - MCOutputTweak(secret, 0)]

Addresses == {Address(Alice, 0), Address(Alice, 77), Address(Alice, 78), Address(Bob, 0),
              Cancelling}
MCWallets == {Alice, Bob, [Alice EXCEPT !.lookup = FALSE, !.labels = {}],
              [Alice EXCEPT !.spend = Cancelling.spend]}
MCRecipientLists == UNION {[1 .. n -> Addresses] : n \in 1 .. MaxRecipients}

-----------------------------------------------------------------------------
Elements == [scan : Values, spend : {1}, index : {0}]
Some(S) == CHOOSE x \in S : TRUE

MCInit ==
    \/ Init
    \/ /\ phase = "only sort"
       /\ \E n \in 0 .. MaxElements : \E a \in [0 .. n - 1 -> Elements] : Sort!Start(a, n)
       /\ ins = Some(MCInputKeys) /\ asked = <<>> /\ generated_outputs = <<>>
       /\ seckey_sum = 0 /\ next = -1 /\ current_scan_pubkey = Infinity
       /\ shared_secret = Infinity /\ k = 0 /\ tx_outputs = <<>> /\ wallet = NoWallet
       /\ prevouts_summary = [sum |-> Infinity, input_hash |-> 0]
       /\ j = 0 /\ label_batch_idx = 0 /\ found_outputs = <<>>

OnlySort ==
    /\ phase = "only sort" /\ Sort!SortNext
    /\ UNCHANGED <<phase, sender_vars, shared_secret, k, tx_vars, scan_vars>>

MCNext == Next \/ OnlySort

MCSpec == MCInit /\ [][MCNext]_vars
=============================================================================
