--------------------------- MODULE SilentPayments ---------------------------
(***************************************************************************)
(* A silent payment from end to end (src/modules/silentpayments): the      *)
(* sender makes one output for each recipient, the outputs appear in a     *)
(* transaction in some order, and a wallet scans that transaction.  Hash   *)
(* values are given by constant operators; points are their logarithms,    *)
(* so a public key is written like its secret key.                         *)
(***************************************************************************)
EXTENDS Group, Sequences, FiniteSets, SequencesExt

CONSTANTS
    InputHash(_),          \* "BIP0352/Inputs", of the sum of the input keys
    OutputTweak(_, _),     \* "BIP0352/SharedSecret", of the secret and k
    GROUP_LIMIT,           \* SECP256K1_SILENTPAYMENTS_RECIPIENT_GROUP_LIMIT
    LABEL_BATCH_SIZE,
    InputKeys,             \* bound: the keys spent, as [seckeys, keypairs]
    RecipientLists,        \* bound: sequences of addresses [scan, spend]
    Wallets,               \* bound: [scan, spend, lookup, labels]
    ForeignKey             \* bound: an output that pays none of the wallets

ASSUME SilentPaymentsAssumption ==
    /\ \A sum \in Scalars : InputHash(sum) \in Scalars
    /\ GROUP_LIMIT \in Nat /\ LABEL_BATCH_SIZE \in Nat
    /\ \A secret \in Scalars, kk \in 0 .. GROUP_LIMIT : OutputTweak(secret, kk) \in Scalars
    /\ \A spent \in InputKeys : spent.seckeys \in Seq(Nat) /\ spent.keypairs \in Seq(Nat)
    /\ \A list \in RecipientLists : list \in Seq([scan : Points, spend : Points])
    /\ \A w \in Wallets :
         /\ w.scan \in Points /\ w.spend \in Points /\ w.labels \subseteq Points
         /\ ~w.lookup => w.labels = {}
    /\ ForeignKey \in Points \ OddPoints

VARIABLES
    phase,              \* which call is in progress
    ins,                \* the keys of the inputs
    asked,              \* the recipients as the caller ordered them (ghost)
    arr, count, i, loop, down, heap_size,   \* recipient_sort, see Hsort
    seckey_sum,         \* the sum of the input keys, times the input hash
    next,               \* the recipient whose output comes next
    current_scan_pubkey, shared_secret, k,  \* locals of sender and recipient
    generated_outputs,
    tx_outputs,         \* the outputs of the transaction
    wallet,             \* who scans it
    prevouts_summary,
    j, label_batch_idx, \* the loop over the outputs
    found_outputs

sort_vars == <<arr, count, i, loop, down, heap_size>>
sender_vars == <<ins, asked, seckey_sum, next, current_scan_pubkey, generated_outputs>>
tx_vars == <<tx_outputs, wallet>>
scan_vars == <<prevouts_summary, j, label_batch_idx, found_outputs>>
vars == <<phase, sort_vars, sender_vars, shared_secret, k, tx_vars, scan_vars>>

Recipients == DOMAIN asked
NoWallet == [scan |-> Infinity, spend |-> Infinity, lookup |-> FALSE, labels |-> {}]

(* By scan key, then by index: heap sort is not stable.                      *)
recipient_sort_cmp(r1, r2) ==
    IF r1.scan # r2.scan THEN r1.scan - r2.scan ELSE r1.index - r2.index

Sort == INSTANCE Hsort WITH cmp <- recipient_sort_cmp

(* secp256k1_silentpayments_recipient: an address and its place in the list. *)
Asked(list) ==
    [q \in 0 .. Len(list) - 1 |->
        [scan |-> list[q + 1].scan, spend |-> list[q + 1].spend, index |-> q]]

Init ==
    /\ ins \in InputKeys
    /\ asked \in {Asked(list) : list \in RecipientLists}
    /\ Sort!Start(asked, Cardinality(Recipients))
    /\ phase = "sum"
    /\ seckey_sum = 0 /\ next = 0
    /\ current_scan_pubkey = Infinity /\ shared_secret = Infinity /\ k = 0
    /\ generated_outputs = [q \in Recipients |-> Infinity]
    /\ tx_outputs = <<>> /\ wallet = NoWallet
    /\ prevouts_summary = [sum |-> Infinity, input_hash |-> 0]
    /\ j = 0 /\ label_batch_idx = 0 /\ found_outputs = <<>>

ScalarSum(s) == Total(0, s, Len(s))

(* Secret keys of taproot inputs count as those of the even point.           *)
SeckeySum == scalar_add(ScalarSum(ins.seckeys),
                        ScalarSum([q \in DOMAIN ins.keypairs |->
                                      IF fe_is_odd_y(ins.keypairs[q])
                                      THEN scalar_negate(ins.keypairs[q])
                                      ELSE ins.keypairs[q]]))
KeysValid == Range(ins.seckeys) \cup Range(ins.keypairs) \subseteq Points

(* sender_create_outputs up to the sort.                                     *)
SumKeys ==
    /\ phase = "sum"
    /\ IF KeysValid /\ SeckeySum # 0 /\ InputHash(SeckeySum) # 0
       THEN /\ seckey_sum' = scalar_mul(SeckeySum, InputHash(SeckeySum))
            /\ phase' = "sort"
       ELSE phase' = "refused" /\ UNCHANGED seckey_sum
    /\ UNCHANGED <<sort_vars, ins, asked, next, current_scan_pubkey, generated_outputs,
                   shared_secret, k, tx_vars, scan_vars>>

SortRecipients ==
    /\ phase = "sort" /\ Sort!SortNext
    /\ phase' = IF loop' = "done" THEN "derive" ELSE "sort"
    /\ UNCHANGED <<sender_vars, shared_secret, k, tx_vars, scan_vars>>

create_shared_secret(public_component, secret_component) ==
    scalar_mul(public_component, secret_component)

output_fails(spend, secret, kk) ==
    OutputTweak(secret, kk) = 0 \/ TweakFails(spend, OutputTweak(secret, kk))
output_pubkey(spend, secret, kk) == X(pubkey_tweak_add(spend, OutputTweak(secret, kk)))

(* Faulty variant: only the first recipient starts a group.                  *)
NewGroupOnce(r) == next = 0

NewGroup(r) == next = 0 \/ current_scan_pubkey # r.scan

(* Faulty variant: one output more than a recipient looks for.               *)
GroupFullLate(kk) == kk > GROUP_LIMIT

GroupFull(kk) == kk >= GROUP_LIMIT

(* One turn of the loop over the sorted recipients.  A failure leaves the    *)
(* outputs made so far in the caller's array.                                *)
CreateOutput ==
    /\ phase = "derive" /\ next < count
    /\ LET r == arr[next]
           kk == IF NewGroup(r) THEN 0 ELSE k
           secret == IF NewGroup(r) THEN create_shared_secret(r.scan, seckey_sum)
                                    ELSE shared_secret
       IN  IF GroupFull(kk) \/ output_fails(r.spend, secret, kk)
           THEN /\ phase' = "refused"
                /\ UNCHANGED <<generated_outputs, current_scan_pubkey, shared_secret, k, next>>
           ELSE /\ generated_outputs' =
                       [generated_outputs EXCEPT ![r.index] = output_pubkey(r.spend, secret, kk)]
                /\ current_scan_pubkey' = r.scan
                /\ shared_secret' = secret
                /\ k' = kk + 1
                /\ next' = next + 1
                /\ phase' = IF next' = count THEN "sent" ELSE "derive"
    /\ UNCHANGED <<sort_vars, ins, asked, seckey_sum, tx_vars, scan_vars>>

-----------------------------------------------------------------------------
(* prevouts_pubkey_sum of prevouts_summary_create.                           *)
SumOf(spent) == scalar_add(ScalarSum(spent.seckeys),
                           ScalarSum([q \in DOMAIN spent.keypairs |-> X(spent.keypairs[q])]))
PubkeySum == SumOf(ins)

SecretOf(spent, w) == create_shared_secret(SumOf(spent),
                                           scalar_mul(w.scan, InputHash(SumOf(spent))))
WalletSecret(w) == SecretOf(ins, w)

(* The outputs that w looks for with number kk, without and with a label.    *)
Own(w, secret, kk) ==
    {output_pubkey(gej_add(w.spend, label), secret, kk) : label \in {Infinity} \cup w.labels}

(* What the hash is trusted for: outputs of two numbers, or of two scan      *)
(* keys, or an unrelated output, do not coincide.                            *)
ASSUME OutputsDiffer ==
    \A spent \in InputKeys, w \in Wallets, k1, k2 \in 0 .. GROUP_LIMIT - 1 :
        LET own == Own(w, SecretOf(spent, w), k1)
        IN  /\ ForeignKey \notin own
            /\ k1 # k2 => own \cap Own(w, SecretOf(spent, w), k2) = {}
            /\ \A r \in UNION {Range(list) : list \in RecipientLists} :
                 r.scan # w.scan => output_pubkey(r.spend, SecretOf(spent, r), k2) \notin own

(* Labelled outputs that another sender makes for k = 0 although the outputs *)
(* of this transaction use that k too.                                       *)
Twins(w) == {output_pubkey(gej_add(w.spend, label), WalletSecret(w), 0) : label \in w.labels}

(* The transaction: all generated outputs, in any order, and a foreign one.  *)
(* A refused call may still lead to a transaction, without those outputs.    *)
Publish ==
    /\ phase \in {"sent", "refused"} /\ tx_outputs = <<>> /\ KeysValid
    /\ \E w \in Wallets :
         /\ wallet' = w
         /\ \E other \in {ForeignKey} \cup Twins(w) :
              tx_outputs' \in IF phase = "sent"
                              THEN SetToSeqs(Range(generated_outputs) \cup {other})
                              ELSE {<<other>>}
    /\ phase' = "published"
    /\ UNCHANGED <<sort_vars, sender_vars, shared_secret, k, scan_vars>>

PrevoutsSummaryCreate ==
    /\ phase = "published"
    /\ IF PubkeySum # Infinity /\ InputHash(PubkeySum) # 0
       THEN /\ prevouts_summary' = [sum |-> PubkeySum, input_hash |-> InputHash(PubkeySum)]
            /\ phase' = "summary"
       ELSE phase' = "failed" /\ UNCHANGED prevouts_summary
    /\ UNCHANGED <<sort_vars, sender_vars, shared_secret, k, tx_vars, j, label_batch_idx,
                   found_outputs>>

(* scan_outputs up to its loops.                                             *)
ScanStart ==
    /\ phase = "summary"
    /\ shared_secret' = create_shared_secret(
                            prevouts_summary.sum,
                            scalar_mul(wallet.scan, prevouts_summary.input_hash))
    /\ k' = 0
    /\ phase' = "scan"
    /\ UNCHANGED <<sort_vars, sender_vars, tx_vars, scan_vars>>

n_tx_outputs == Len(tx_outputs)
k_max == IF n_tx_outputs < GROUP_LIMIT THEN n_tx_outputs ELSE GROUP_LIMIT
t_k == OutputTweak(shared_secret, k)
unlabeled_output == pubkey_tweak_add(wallet.spend, t_k)
tx_output(q) == tx_outputs[q + 1]

(* Both candidates of output q: one for each parity of its Y coordinate.     *)
Candidates(q) == <<gej_add(tx_output(q), ge_neg(unlabeled_output)),
                   gej_add(ge_neg(tx_output(q)), ge_neg(unlabeled_output))>>

NoMatch == [index |-> -1, label |-> Infinity]

(* The first of the batch that the wallet knows as a label.                  *)
check_label_batch(j_start, n_batch) ==
    LET matches == {q \in j_start .. j_start + n_batch - 1 :
                      Range(Candidates(q)) \cap wallet.labels # {}}
    IN  IF matches = {} THEN NoMatch
        ELSE LET first == CHOOSE q \in matches : \A p \in matches : q <= p
                 c == Candidates(first)
             IN  [index |-> first,
                  label |-> IF c[1] \in wallet.labels THEN c[1] ELSE c[2]]

(* Faulty variant: the label that was looked up goes with the direct match.  *)
DirectMatchKeepsIndex(labelled) == [labelled EXCEPT !.index = j]

(* What a direct match at j yields: an earlier label match takes precedence. *)
DirectMatch(labelled) ==
    IF labelled # NoMatch THEN labelled ELSE [index |-> j, label |-> Infinity]

Found(match) ==
    /\ found_outputs' = Append(found_outputs,
                               [output |-> tx_output(match.index),
                                tweak |-> scalar_add(t_k, match.label),
                                label |-> match.label])
    /\ k' = k + 1
    /\ j' = 0 /\ label_batch_idx' = 0
    /\ UNCHANGED phase

Advance(batch) ==
    /\ j' = j + 1 /\ label_batch_idx' = batch
    /\ UNCHANGED <<phase, k, found_outputs>>

Scanning == phase = "scan" /\ k < k_max /\ ~output_fails(wallet.spend, shared_secret, k)
IsDirect == X(unlabeled_output) = tx_output(j)

BatchComplete == label_batch_idx + 1 = LABEL_BATCH_SIZE \/ j = n_tx_outputs - 1

ScanDirect ==
    /\ Scanning /\ j < n_tx_outputs /\ IsDirect
    /\ Found(DirectMatch(check_label_batch(j - label_batch_idx, label_batch_idx)))
    /\ UNCHANGED <<sort_vars, sender_vars, shared_secret, tx_vars, prevouts_summary>>

ScanOther ==
    /\ Scanning /\ j < n_tx_outputs /\ ~IsDirect
    /\ LET match == check_label_batch(j - label_batch_idx, label_batch_idx + 1)
       IN  CASE ~wallet.lookup -> Advance(0)
             [] wallet.lookup /\ ~BatchComplete -> Advance(label_batch_idx + 1)
             [] wallet.lookup /\ BatchComplete /\ match = NoMatch -> Advance(0)
             [] OTHER -> Found(match)
    /\ UNCHANGED <<sort_vars, sender_vars, shared_secret, tx_vars, prevouts_summary>>

(* No output found for this k, or no k left.                                 *)
ScanEnd ==
    /\ phase = "scan" /\ (k = k_max \/ (Scanning /\ j = n_tx_outputs))
    /\ phase' = "scanned"
    /\ UNCHANGED <<sort_vars, sender_vars, shared_secret, k, tx_vars, scan_vars>>

ScanFails ==
    /\ phase = "scan" /\ k < k_max /\ output_fails(wallet.spend, shared_secret, k)
    /\ phase' = "failed"
    /\ UNCHANGED <<sort_vars, sender_vars, shared_secret, k, tx_vars, scan_vars>>

Next == \/ SumKeys \/ SortRecipients \/ CreateOutput
        \/ Publish \/ PrevoutsSummaryCreate
        \/ ScanStart \/ ScanDirect \/ ScanOther \/ ScanEnd \/ ScanFails

Spec == Init /\ [][Next]_vars

-----------------------------------------------------------------------------
Sent == next = count
PaidTo(w) == {q \in Recipients : asked[q].scan = w.scan}
Knows(w, spend) == spend \in {w.spend} \cup {gej_add(w.spend, label) : label \in w.labels}

(* The header's promise on generated_outputs: whatever order the sort leaves *)
(* the recipients in, output q is the one of recipient q, made with the      *)
(* number of earlier recipients of its scan key, and with the secret that    *)
(* the public keys of the inputs give its owner.                             *)
OutputsInCallersOrder ==
    Sent => \A q \in Recipients :
        LET earlier == {p \in Recipients : p < q /\ asked[p].scan = asked[q].scan}
        IN  generated_outputs[q] =
                output_pubkey(asked[q].spend, WalletSecret(asked[q]), Cardinality(earlier))

(* The heap sort leaves the recipients in the one order of scan key and      *)
(* index (hsort_impl.h:104-121, main_impl.h:49), from which the sender finds *)
(* back to the caller's, so that output q pays recipient q.                  *)
OutputsInOrder == Sort!Sorted /\ OutputsInCallersOrder

(* A scan of a sent transaction finds every output that pays the wallet,     *)
(* each once, and nothing else, whatever the order of the outputs and the    *)
(* limit on a group notwithstanding, if the wallet knows the addresses of    *)
(* its scan key that were paid, labels included (main_impl.h:318-324, :675). *)
FindsEveryPayment ==
    /\ phase = "scanned" /\ Sent
    /\ Range(tx_outputs) \cap Twins(wallet) = {}
    /\ \A q \in PaidTo(wallet) : Knows(wallet, asked[q].spend)
    => /\ {found_outputs[q].output : q \in DOMAIN found_outputs}
              = {generated_outputs[q] : q \in PaidTo(wallet)}
       /\ Len(found_outputs) = Cardinality(PaidTo(wallet))

(* The tweak reported with an output is what the wallet adds to its spend    *)
(* key to own that output, also when a label match and a direct match        *)
(* compete for one k (main_impl.h:721-729).                                  *)
FoundIsSpendable ==
    \A q \in DOMAIN found_outputs :
        X(gej_add(wallet.spend, found_outputs[q].tweak)) = found_outputs[q].output
=============================================================================
