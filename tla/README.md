# A TLA+ verification of libsecp256k1 with SPHINCS+

The repository is a fork of libsecp256k1: elliptic-curve arithmetic and the protocols on top of it
(ECDSA, Schnorr, MuSig2, silent payments, ...), to which two hash-based signature schemes,
SPHINCS+-SHAKE256-128f and -256f, were added, with OpenMP loops in their expensive parts. This directory
holds TLA+ modules for the parts whose correctness depends on *control* (orders of calls, sharing, limits,
sizes, digits and positions), TLC runs that check them on small instances, and TLAPS proofs for every
instance of the properties that matter most.

Paths below are relative to the repository; `impl` lines are the ones `PROJECT.json` maps.

## 1. Inventory

### Elliptic-curve library (`src/`)

| Component | State | Operations | Interacts with | What is hard | What makes it correct |
|---|---|---|---|---|---|
| Scratch space, `scratch_impl.h` | one block, `alloc_size`, `max_size` | create, destroy, alloc, checkpoint, apply_checkpoint, max_allocation | multi-multiplication allocates its batches there | rounding near `SIZE_MAX`, stale checkpoints | frames disjoint, aligned, inside the block; what `max_allocation` promises is granted |
| Multi-multiplication, `ecmult_impl.h` (second half) | scratch frames, partial sum | `ecmult_multi_var`, batches of Strauss and Pippenger, simple fallback | scratch, caller's callback, MuSig key aggregation | size formulas against real allocations, batch borders, a callback that refuses | every term once, scratch given back, no failure but the callback's |
| Multiplication, `ecmult_impl.h` (first half) | digits, tables, buckets | Strauss/wNAF with endomorphism, Pippenger with fixed wNAF | every verification | carries at window borders, skew, bucket range | the result is the sum of the products |
| `ecmult_gen_impl.h` | table, scalar and point offset (the blinding) | build, blind, clear, multiply | every signature; contexts | the old blinding is used to make the new one | n*G under every blinding, nothing infinite |
| `ecmult_const_impl.h` | none | constant-time n*P, also for an X given as a fraction | ECDH, ElligatorSwift, silent payments | signed bits of split scalars, tables that are looked up by their lower half, additions without branches | n*P for every split of n |
| MuSig2, `modules/musig/` | keyagg cache, secnonce, session, partial signatures | key aggregation, tweaks, nonce_gen, nonce_agg/process, sign, verify, aggregate | hashes, multi-multiplication | parity signs over tweak sequences, one-time nonces, wrong shares | shares verify, add up, a nonce signs once |
| Silent payments, `modules/silentpayments/` | loop state of sender and scanner | create outputs, prevouts summary, scan with labels | heap sort, ECDH, extrakeys | grouping by an unstable sort, `k` per group, batched label lookups | the payee finds and can spend exactly what was paid |
| Heap sort, `hsort_impl.h` | the array | hsort, heap_down | silent payments, `ec_pubkey_sort` | second child at the end of the heap, equal elements | sorted |
| ECDSA, `ecdsa_impl.h`, `secp256k1.c`, `contrib/lax_der_parsing.c` | none between calls | sign (retry loop), parse (compact, DER, lax DER), serialise, normalise, verify | nonce function, hash | retries, low S, stale r/s after a failure; lengths and paddings of DER | signatures verify; DER is taken in its one form |
| Keys, x-only keys, keypairs, Schnorr, `secp256k1.c`, `eckey_impl.h`, `modules/extrakeys`, `modules/schnorrsig` | the objects the caller keeps | create, negate, tweak (both kinds), combine, keypair tweak, parse, serialise, compare, sign, verify | nonce function, hash | two code paths, one for the secret and one for the public key; parity signs; objects zeroed by failures; three forms of one point | both paths agree, success or failure; signatures verify; an object is the point its last string encodes |
| Recovery, `modules/recovery` | none between calls | recoverable signing, recover | ECDSA | r above the order, recovery identifier after low S | recovers the signing key, and only keys that verify |
| ECDH, ElligatorSwift, `modules/ecdh`, `modules/ellswift` | none | ECDH, encode, decode, create, exchange | constant-time multiplication | three candidates for X in an order the inverse has to respect, divisions by zero in both | both sides get one secret; every string decodes to a point, every point is found among its encodings |
| Contexts, `secp256k1.c` | blinding, callbacks | create, clone, randomize, destroy | everything | memory of the caller, copies of the static context, clones that share a blinding | a proper context multiplies right, memory that holds none keeps no blinding |
| Group formulas, `group_impl.h` | none | Jacobian doubling and additions, decompression, batch inversion, tables | everything above | exceptional cases (equal, opposite, infinite, equal y), omitted z coordinates | the group law |
| Field and scalars, `field_*`, `scalar_*` | magnitude and normalisation of an element | arithmetic on limbs in two layouts, normalisation, bytes, split by the endomorphism | everything | lazy carries, magnitudes, values between p and 2^256, carries out of an accumulator | the residue the operation asks for, limbs within what the magnitude allows |
| Modular inverse, `modinv32_impl.h`, `modinv64_impl.h` | f, g, d, e | inverse and Jacobi symbol, constant and variable time | field, scalars | batches of divsteps on the bottom words, limbs that are dropped, signs | the inverse, in range; the symbol or none |
| Two-word integers, `int128_struct_impl.h` | a pair of words | multiply, add, shift, compare | modular inverse, field, scalars without a 128-bit type | middle products, shifts by a word or more | arithmetic modulo two words |
| SHA-256, HMAC, RFC 6979, `hash_impl.h` | buffer, length; K and V | write, finalize, generate, default nonce function | everything | writes that end at a block, padding over a border, a buffer used before, keys as long as a block | the hash of the whole message; nonces that differ |
| Unit test runner, `unit_test.c` | argument state, a pipe, worker processes, exit status | parse arguments, run sequentially or in forked workers | operating system | several readers of one pipe, aborting workers, failing forks | each test once, exit status truthful, termination |

### SPHINCS+ (`src/sphincs_shake256_128f/`, `src/sphincs_shake256_256f/`)

The two directories hold the same code; they differ in parameters (`params.h`, `api.h`) and in names. The map refers to
128f, the modules take the parameters as constants.

| Component | State | Operations | What is hard | What makes it correct |
|---|---|---|---|---|
| Addresses, `address.c` | eight words reused for everything | setters, copiers | types share bytes, nobody clears them | signer and verifier hash under equal addresses |
| WOTS, `wots.c` | | chains, checksum, sign, recover | checksum width, stale hash byte | the key is recovered; no signature continues to another message |
| FORS, `fors.c` | | indices, trees, sign | indices across bytes, OpenMP loop | signature verifies, reveals the named leaves |
| Trees, `utils.c` | stack, path buffer | treehash, treehash_parallel, compute_root | buffers, offsets, OpenMP loop with barrier | root and path of the tree |
| Scheme, `sign.c` | key, hypertree indices | keypair, sign, verify, open | cutting the indices of the layers | genuine messages open, others do not, one value per WOTS key |
| Keccak, `fips202.c` | 25 words and a byte count | incremental absorb, finalize, squeeze | calls ending at block borders | equals the one-shot sponge |
| Random numbers, `rng.c` | DRBG and seed expander | init, draw | length accounting, an unsynchronised global | no byte comes out twice, none that became a key |

Around them: generated tables, assembly, Sage scripts, build files, benchmarks, examples, tools and a Python script that
picks a parameter set from measurements; they hold no logic of the running system.

The hazards, each with its line and the properties that watch it, are listed in `PROJECT.json`.

## 2. Modules

Data is abstracted the same way in all modules about protocols. A point is its discrete logarithm in a small cyclic group, as in the repository's own
exhaustive tests; what is left of the coordinates is which of P and -P has an odd Y (`Group.tla`, constants `N` and `OddPoints`) and, in `Ecdsa`, the X coordinate as a number.
Hash functions of the protocols are arbitrary values (MuSig), constants (SPHINCS+, where the runs take mixing functions on
15-bit numbers) or fixed mixing functions (silent payments). The modules about arithmetic (`Curve`, `KeyExchange`, `FieldLimbs`, `ScalarLimbs`, `Modinv`, `Int128`) and bytes (`Encodings`)
keep numbers and make them small: few bits to a limb, word or byte, with the number of limbs (in `Modinv` fewer), the constants' roles and the order of carries of the code. Lengths, indices, digits, guards and the order of effects are the code's.

| Module | Models | State and actions |
|---|---|---|
| `ScratchOps` | `scratch_impl.h` as operators on a record, `size_t` of constant width with wrap-around | |
| `Scratch` | a client of a scratch space | frames handed out, checkpoints taken (stale ones included); one action per function |
| `EcmultMulti` | `ecmult_multi_var`, extends `ScratchOps` | choice, allocation of each batch, one step per callback call, end of batch; then another call on the same space |
| `Group` | scalars and points | |
| `Wnaf` | variable and fixed signed digits | operators |
| `Strauss`, `Pippenger` | the two algorithms digit by digit | tables, accumulator, buckets; one action per digit, point or bucket |
| `EcmultGen` | contexts, the comb and its blinding | places for contexts in memory of the library or the caller: `Create`, `Clone`, `CopyStatic`, `Randomize`, `Destroy` |
| `Curve` | `group_impl.h` and the tables of odd multiples, over a small field | an accumulator that runs through every function in every order, beside it the multiple it has to be |
| `KeyExchange` | extends `Curve`: constant-time multiplication of a point, ECDH, ElligatorSwift | one action per function of the interface, on every point and scalar and every way to split the scalar, with hash functions of the caller that succeed or fail |
| `FieldLimbs` | the field in limbs, for both layouts; the addition chain of `fe_sqrt` (`Sqrt...`) | two elements with their magnitudes that run through the operations the magnitude rules of `field.h` allow; the exponents reached, as sets of their binary ones, one action per squaring or multiplication |
| `ScalarLimbs` | scalars in four and eight limbs | two scalars that run through the operations |
| `Modinv` | inverses and Jacobi symbols by divsteps, for both word sizes | the call with its f, g, d, e; one action per batch of divsteps |
| `Int128` | `int128_struct_impl.h` | an accumulator that runs through every function |
| `Ecdsa` | signing loop, compact signatures, verification, recovery | `SignCall`, then `TryNonce` until a nonce serves or `NonceFunctionFails`; `ParseCompact` for signatures from elsewhere, `Normalize` |
| `Encodings` | strict parser, serializer, lax parser of DER signatures (`Der...`); extends `Curve`: strings of public keys, x-only keys, MuSig nonces | a string written here or elsewhere, then edited byte by byte; one object that is parsed into again and again, with the multiple it has to stand for; `FromPubkey` |
| `Keys` | secret and public keys, keypairs, Schnorr | a secret key and its public key given the same calls, a keypair made from the secret key, what the last `schnorrsig_sign` wrote and returned |
| `MusigSign` | key aggregation and tweaks (operators on the cache) and a session of several signers | `PubkeyAgg`, `TweakAdd` (also after the session was set up), `NonceGen`, `NonceProcess`, signing, shares from the wire, aggregation |
| `MusigNonce` | secnonce objects and randomness buffers of several signers | nonce_gen, nonce_gen_counter, partial_sign, each with every subset of missing arguments that returns early |
| `Hsort` | heap sort | one action per turn of a loop |
| `SilentPayments` | sender, transaction, scanner; instantiates `Hsort` | `SumKeys`, `SortRecipients`, `CreateOutput` per recipient, `Publish` (environment), `PrevoutsSummaryCreate`, `ScanStart`, `ScanDirect`/`ScanOther` per output, `ScanEnd`, `ScanFails` |
| `TestRunner` | `unit_test.c` with its processes | actions of the parent (parse, set up, fork, write, wait) and of each child (read, run, end of file, abort) |
| `Merkle`, `HashSignatures` | `address.c` and `utils.c`; `wots.c` and `fors.c` | operators on the address record (bytes that types share are one field), and operators that return their value *and* the address they leave behind |
| `SphincsParallel` | the two OpenMP loops (`Tree...`, `Fors...`) | one action per leaf or tree of a thread, the barrier, the serial rest |
| `Sphincs` | `sign.c` | key, messages signed, one message in transit that may be altered, the verifier |
| `Keccak` | the sponge of `fips202.c` | absorb calls of any length, finalize, squeeze calls of any length |
| `HashFunctions` | SHA-256 and HMAC of `hash_impl.h` with the compression function abstract (`Sha...`); the RFC 6979 generator and `nonce_function_rfc6979` over terms for HMAC (`Nonce...`) | two structures that are used again, with what the buffer keeps, one action per function; two calls with any arguments |
| `Rng` | `rng.c`: `seedexpander` (`Expander...`) and `randombytes` with AES as a term (`Drbg...`) | requests, then one action per turn of the loop; `randombytes_init`, `randombytes`, each with its update of Key and V |

The `MC...` modules are the instances. Where systems do not share state, one module holds them side by side and each behaviour runs
one of them: `MCEcmult` (multi-multiplication, Strauss, Pippenger, contexts), `MCSphincs` (the scheme and the two OpenMP loops),
`MCSilentPayments` (the protocol, the sort), `MCSignatures` (ECDSA, keys and Schnorr, their strings), `MCArithmetic` (what they compute with), `MCByteStreams` (the sponge, SHA-256, RFC 6979 and the two generators). `MCSignatures` takes its points from `Curve`: an `ASSUME` compares them with the multiples of the generator there.
The `...Proofs` modules hold the theorems. Operators named "Faulty variant" are plausible slips of the code next to them; each
property is known to fail under one of them, as listed under `mutants`.

## 3. Runs

| Run | Asks | Bounds, and why they are enough |
|---|---|---|
| `scratch` | Are frames disjoint and promises kept in any order of calls? | `size_t` of 5 bits, alignment 4: the header and the rounding of one object already wrap; three frames and two checkpoints suffice to roll back under a live frame. |
| `musig` | Do honest shares verify and add up, does one bad share show? | order 7, with odd points that are not an interval; key lists with repeats and with a key and its negation, nonces that add up to infinity, two tweaks of either kind: every sign combination occurs. `AggregateVerifies` and `OneBadShareSpoils` set aside the session whose `R` is replaced by G; `HonestShareVerifies` does not |
| `musig_doc` | The header's claim on invalid partial signatures | order 3, all nonces and shares |
| `musig_nonce` | Can a nonce sign twice? | two signers with two objects each, three random draws, three signatures |
| `ecmult` | Does every batch of a multi-multiplication fit, does every term count once? Do digits, tables, buckets and blinding give the product, in every context? | Batches have the sizes of a 64-bit build: 67 scratch sizes up to 60000 bytes, so that none, some and all points fit; at most 100 points in a batch so that several occur; n around the threshold of 88. Digits: order 199 with the endomorphism of the exhaustive tests; scalars at the borders of the split and of the windows; all pairs of 7-bit scalars with windows of 3 bits (7 is no multiple of 3); comb of 2 x 3 teeth; two contexts, blindings 0, 1 and borders of the order, of which each is made under each |
| `test_runner` | Each test once, truthful status, termination | four tests, up to five arguments, three workers, a pipe of two bytes, any set of failing tests, forks that fail; more targets than fit a byte are reached because a byte counts to 4 |
| `test_runner_doc` | The help text on unknown arguments | the same |
| `sphincs` | Does exactly what was signed open, does a signature reveal no more than it must? Are the OpenMP loops like the serial code? | three layers of height 2, three FORS trees with 3-bit indices (the third crosses a byte border), hashes of two bytes, two signatures among four messages, every part altered in turn. Loops: two threads over the FORS trees, three threads over eight leaves (8 is no multiple of 3) starting at leaf 8, all leaves asked for, addresses with and without stale bytes |
| `byte_streams` | Is what goes in and comes out in pieces the same as in one? Does any nonce or random byte come out twice? | Sponge: rate 4, up to 13 bytes in and out, cut in every way: calls inside a block, up to its end, over several blocks. SHA-256: blocks of 4, digests of 2, each half of the size 4 bits (so that the upper half is used), up to 9 bytes and two uses of one structure, keys of 0 to 9 bytes, midstates of one and two blocks. RFC 6979: bits for bytes, keys and messages of two, names of one, order 3 (so that a message is reduced), two attempts. Expander: blocks of 3, lengths on both sides of a block and of the counter's range. DRBG: blocks of 2, three requests of up to three blocks, with and without a seed |
| `silentpayments` | Does the payee find and own what was paid; does hsort sort? | up to three recipients out of five addresses (two labels, a stranger, one that cancels its tweak), limit 2 on a group, batches of 2, every order of the outputs with a foreign one, among them one that competes for a `k`; arrays of up to six elements with three values, so that heaps with and without a second child at the end occur |
| `signatures` | Do signatures verify, recover their key and nothing else? Do secret and public keys stay together? | a group of order 31, the curve y^2 = x^3 + 29 over 43 elements: X coordinates above the order, one equal to it, pairs that differ by it, all unreachable by tests over the real curve; keys, messages, nonces and parsed numbers at 0, 1, the order and beyond; two nonces refused before the third. Strings of points: bytes up to 63 over 43 elements, every first byte, two parses into one object. DER: bytes of 5 bits and scalars of two, so that lengths take one or two octets, integers up to twice what fits, every deletion, change and insertion of one byte |
| `arithmetic` | Are the formulas the group law in every case, and limbs, words, inverses and roots what they stand for? | Curve: 13 points over 19 elements with the endomorphism, all pairs, all z, infinity on either side; tables of up to four entries, lists of up to three points; constant-time multiplication in groups of two bits with two bits to a half. Field: five limbs of 9 bits (the top of 7) in words of 12, and ten of 5 (3) in words of 8: modulus just below the power of two as in the code, magnitude up to 4, three operations. Scalars: four and eight limbs of 3 bits, orders 4021 and 16773007, two operations from values at every border. Inverses: three limbs of 6 bits and two of 8, modulus 16381, operands at the borders and a sample. Two-word integers: words of 4 bits. The modulus of the field is a product of primes there, so that residues fit TLC's integers. Square root: the exponents of the code |

Deadlock is checked in `scratch` and `musig_nonce`. The other systems really stop: a session, a
signature, a scan, a program that has exited (`CHECK_DEADLOCK FALSE`); for the test runner, `Ends` says that it stops only there.

The two violation runs show places where the repository's text and its code part ways:

- `include/secp256k1_musig.h:538-539`: "if any partial signature does not verify, the final signature will not verify either". Two
  shares that are wrong by opposite amounts add up to a valid signature. What does hold, `OneBadShareSpoils`, is about a single one.
- `src/unit_test.c:102`: "Unknown arguments are reported but ignored." They end the run with a failure.

Two more were read and make no run of their own: the comment at `src/sphincs_shake256_128f/utils.c:162-164` says that the team of threads is capped to
the number of leaves, the pragma at line 188 has no such clause (`LoopsAlwaysSerial`: the result does not depend on it);
and `seedexpander` (`rng.c:67`) refuses a request for exactly the bytes that remain, though `rng.c:23` has `maxlen` as the maximum number (`Rng` does as the code).

### Fairness

Only `Ends` needs it: `FairSpec` assumes that the parent and every existing worker keep being scheduled (weak fairness of
each process' own steps), and that a test ends, by returning or by aborting. That is what an operating system gives runnable processes.
A process blocked in `read`, `write` or `waitpid` is not enabled, so nothing is assumed about *when* pipes are ready: that the pipe's ends are closed in
the right processes is what makes `Ends` true, and keeping one open breaks it.

## 4. Proofs

All are of the form `Spec => []P`, for every value of the constants under the named assumptions.

| Module | Theorems | Assumptions | Argument |
|---|---|---|---|
| `ScratchProofs` (space) | `TypeCorrect`, `MemorySafe` (`FramesSound`), `AllocationsHonoured` (`MaxAllocationHonoured`) | `SizeAssumption`: alignment, width and header size | `FramesSound` says nothing about checkpoints that are still held, so it is strengthened by `Aligned`: everything `alloc_size` can return to is a multiple of the alignment. The rounding lemmas (`RoundUp`, `RoundedUnwrapped`) show when rounding does not wrap; `Honoured` compares the two formulas of the code |
| `ScratchProofs` (batches) | `MultiAlways`, `BatchesAlwaysSound` (`BatchesSound`) | `SizeAssumption`; `ParametersAssumption`: positive sizes, scalars of at least one bit, the 12 windows of the code | `RoomIs` and `AllocAllKeeps`: objects are granted if they fit, with the rounding of each, into what `scratch_max_allocation` promises. `StraussFits`, `PippengerFits`: a batch up to the maximum does. The second has to show that a batch of fewer points, which may use a smaller window with longer digits, needs no more than the window the maximum was computed for: `pippenger_max_points` stops at the first window that is not full, so every smaller window was reached with all its points. `PlanIs`: the evened batches are enough and none is empty. `MultiInv` says which terms are summed before batch `i` and within it (`Progress`, `InBatch`) and what of the space is in use |
| `GroupProofs` | lemmas only | `GroupAssumption`: any order above 2, any choice of odd points of which each pair of negatives has one | scalars are a commutative group, and a field if the order is prime; `NegateFactor` moves a sign through a product, `even_y` is idempotent; sums over lists of signers as recursive functions (`Total`); `Induct`, induction over the numbers stated with sets |
| `MusigSignProofs` | `TweaksAccounted` (`TweakAccounting`), `AlwaysMusigInv`, `HonestSharesVerify` (`HonestShareVerifies`), `AggregatesVerify` (`AggregateVerifies`), `BadShareSpoils` (`OneBadShareSpoils`) | `GroupAssumption` | `TweakAccounting` with the types of the fields it mentions is inductive; `EvenedKeepsAccount` is the algebra of one sign flip. The session's invariant says of what each cache, nonce and challenge was made; a share solves its own equation, the equations of all signers add up to Schnorr's (sums by induction over the list), and one that is off by d makes the sum off by d |
| `SignatureProofs` | `KeysStayInStep` (`KeysInStep`), `KeypairsTweakRight` (`KeypairTweaksChecked`), `SchnorrSignaturesVerify` (`SchnorrVerifies`) | `GroupAssumption`, `KeysAssumption`: inputs are numbers | Each pair of calls is `Paired` if the key halves belong together before (`Belongs`); what `schnorrsig_sign` wrote is zero or remembers its nonce, as it returned (`SignatureMade`), and `Verification` solves the equation of Schnorr for s. `KeysInv` collects what holds between calls |
| `SignatureProofs` (ECDSA) | `AlwaysEcdsaInv`, `SignaturesVerify` (`SignedVerifies`), `RecoveryAgrees` (`RecoverIffVerifies`) | `GroupAssumption`, `EcdsaAssumption`: what is known of X coordinates; `OrderAssumption`: the order is prime | A signature that is returned keeps the equation s k = m + r d whatever became of earlier nonces, and lowering s flips the sign of k and with it the recovery identifier. Verifying and recovering solve the same equation for the nonce's point and for the key; that both directions agree needs X coordinates above the order to be told apart |
| `SignatureProofs` (hashes) | `HashesWhole` (`DigestsRight`), `NoncesTell` (`NoncesDistinct`) | `HashAssumption`: a block holds more than the two fields of the size, the length in bits of everything hashed fits them; `Rfc6979Assumption`: messages are reduced by an order that fits a string, the name of the algorithm is shorter than the extra data. The compression function and HMAC are terms, so nothing is assumed of collisions | `Holds(hash, m)`: the structure has compressed the whole blocks of `m` and its buffer starts with the rest, whatever is behind it. A write goes on from `m` to `m \o d` in each case of the code (the buffer fills or not, whole blocks follow or not), so the cuts leave no trace; the padding that ends a block with the size is the shortest one. Outer and inner hash of HMAC hold the masked key (`ShaInv`). A nonce is the state after so many outputs (`RngAfter`): its key tells the first output with its key material from later ones, and a later one tells the one before it, so equal nonces have equal numbers and material (`OutputsDiffer`); the length of the material tells what is missing from it (`PartsTell`), and the bytes of a number tell the number (`BytesTell`) |
| `SignatureProofs` (comb) | `BlindingAlwaysCancels` (`BlindingCancels`) | `GroupAssumption`; `CombAssumption`: the order is odd and no longer than a scalar, the sizes of the comb are positive, blindings are scalars (`scalar_set_b32` reduces them) | Everything is counted in halves of G: `Halves(x)` is x times G/2, a homomorphism (`HalvesAdd`). Each doubling of the table adds one tooth (`RoundsAre`), so an entry is the teeth whose bit is set, less those whose bit is not (`TableIs`), and flipping all bits negates it (`LookupIs`, `Flipped`). A turn of the comb adds every tooth of every block, with the sign of its bit (`LineIs`); after k turns the comb holds the k highest bits under every tooth (`SeesMore`, `CombTurns`), in the end all of them: the parts under the teeth telescope to the scalar (`AllIsSeen`) and the subtracted ones to `scalar_diff` (`AllWeightsAre`, `DiffIs`), even where spacing, blocks and teeth cover more bits than a scalar has. So a context multiplies right if its two offsets add up to `scalar_diff` (`OffsetsCancel`, `MultipliesRight`); every context in use keeps that (`BlindingInv`), because the point of the next blinding is computed under the one before |
| `MusigNonceProofs` | `TypeCorrect`, `UsedOnce`, `Unspent`, `NoZeros` | any sets of signers, objects, messages; any bounds | `Origins`: a nonce that exists was drawn or counted before and its input is in no buffer any more; `Buffers`: no value is in two buffers. With these, a nonce held is held once and unsigned (`Unspent`), and signing zeroes the object before anything else. Only `NonceUsedOnce` is in a run; the others are what it rests on |
| `SphincsProofs` (bytes) | `SpongeAsOneShot` (`SpongeInOrder`), `ExpanderInOrder`, `DrawnOnce`, `AlwaysFresh` (`RandomBytesFresh`) | `KeccakAssumption`, `SeedExpanderAssumption`, `DrbgAssumption`: positive rate and block sizes | Positions: what was absorbed is a whole number of blocks and the bytes in the last one, what was squeezed ends where the state says, and each turn of a loop keeps it; the expander's counter and position and the DRBG's V with their history identify the next byte, so it was never handed out |
| `SphincsProofs` (loops) | `LoopsAlwaysSerial` (`LoopsAsSerial`), `LoopsTyped` | `ForsAssumption`, `TreeAssumption`: positive sizes; `LeafAssumption`: of its address `gen_leaf` reads what a call leaves alone, as `wots_gen_leaf` does, which copies layer and tree (`sign.c:30`) | FORS: an iteration is not taken, with one thread, or done (`Threads`, `Finished`), and a thread writes only its own address and slices. Tree: the chunks of the static schedule cover the leaves (`ChunksCover`). The stack between two leaves (`Between`) has one node for every set bit of the index, the highest at the bottom, and while a node carries upwards (`Carrying`) as adding one to the index does (`CarryBelow`, `CarryStops`); the path has the siblings whose index has been passed. After the last leaf one bit is set, so one node is left, the root (`AllIn`). `treehash` satisfies the same, started from any address a call leaves behind: both are the tree of the definition (`NodesOver`). Heights are any number; in the code below 32, the width of its indices |
| `SphincsProofs` (hypertree) | `KeysSignOneValue` (`OneValuePerWotsKey`) | `SphincsAssumption`, `ForsAssumption`: sizes; `DigestAssumption`: `hash_message` hands out bytes and numbers; nothing of the hashes | The proof of `treehash` above is about a tree given as a record (`IsTree`), so it serves the trees of WOTS keys and of FORS too. Their nodes depend on no more of the address than what names the tree (`Alike`), although the addresses keep what earlier calls left in them: the value below a key is a function of its layer, tree and leaf (`RootBelow`), and the induction over the layers (`LayersKeep`) shows that it is the value that is signed. `SignedRight` is the invariant: it holds of all signatures, so two of them agree |
| `SphincsProofs` (verification) | `GenuineAlwaysOpens` (`GenuineOpens`) | as above, and `BytesAre`: a hash has `SPX_N` bytes of eight bits. It is a hypothesis of the theorem because it is about all hashes, which TLC cannot enumerate; the run's hashes satisfy it. Nothing is assumed of collisions | Signer and verifier compute the same hashes under the same addresses. A chain is a function of its key's address and its number (`ChainOf`); wherever `gen_chain` takes it up it goes on with it (`ChainGoesOn`), although the address still has the bytes of the link before. So a signature and the rest of its chains give the key's ends (`FromSecretsIs`, `FromSignatureIs`); that needs every length to be below W, checksum digits included (`LengthsAre`). From a leaf and the path that `treehash` collected, `compute_root` finds the root (`RootFromPath`), for the trees of FORS (`ForsVerifies`) and of the layers. `Agrees` says where the verifier stands when the signer stands at a layer: same root, same indices, and addresses fit for the next layer whatever is left in their node bytes; `VerifiedLayer` takes it one layer up. The number of the tree loses `SPX_TREE_HEIGHT` bits per layer, so the top layer has tree 0 (`TreesShrink`), whose root is the key (`SeedIs`). `OpenInv`: whatever is in `signed` was made by `signature`, and an outcome is that of `verify` |
| `SilentPaymentsProofs` | `AlwaysInv`, `PaysInOrder` (`OutputsInOrder`), `SpendsWhatItFinds` (`FoundIsSpendable`), `AlwaysCompletes`, `FindsAll` (`FindsEveryPayment`) | `SilentPaymentsAssumption`, `GroupAssumption`; for the last two `OutputsDiffer`: hashed outputs that have to differ do so, which TLC evaluates for the run's hash | Sorting: the array stays a permutation (`Permuted`), the heap property holds outside the turn's path (`Heap`), and the sorted end is not below the rest (`Behind`). Sorted recipients of one scan key are neighbours, so the `k` of each is the number of those before it in its group (`DeriveInv`), though the sort is unstable. `ScanInv`: each output found carries the tweak that makes the wallet's key its private key. `CompleteInv` is why nothing is missed: the payments to the wallet have the numbers 0, 1, ... in the order they were made (`Rank`), what was found are those of the first `k`, and the round for `k` has ruled out every output before `j` as the unlabelled one and every output before the batch as a labelled one (`RuledOut`; both signs of the difference are looked up, `OwnIs`). So a round that finds nothing shows that no output of number `k` exists (`Ended`) |
| `TestRunnerProofs` | `TypeCorrect`, `RunsOnce`, `SuccessIsReal`, `FailureIsReal` | `RunnerAssumption`: registry, numbers of arguments, workers and pipe bytes | `Flow`: the targets split into not yet written, in the pipe, and taken; `Calls`: a target started and not finished is held by exactly one worker; `Fleet`: which processes and descriptors exist in each phase; `Verdict`: what the exit status knows. Each action touches one or two of them |

Only model-checked:

- signed digits with their tables and buckets (`SumsRight`, `ConstRight`), arithmetic on limbs and words (`LimbsRight`, `ScalarsRight`, `WordsRight`, `InversesRight`,
  `ExponentRight`), the curve's formulas (`GroupLaw`, `ZRatioRight`, `SwiftRight`): nonlinear arithmetic over products of powers of two, or
  polynomial identities over a field, which the SMT backend does not find;
- that nothing else opens (`NothingForged`: altered signatures, signatures continued to another hash, FORS leaves the message does not name):
  it rests on hashes that do not collide among the values at hand, which the run's mixing functions have;
- `EncodingsRight`, and `Ends`, which is liveness.

Liveness and `ENABLED` are out of the prover's reach, and so are folds, recursive operators and the library's theorems with an operator for a parameter. Induction
over the numbers is within it where it can be stated with a set (`Induct`) and the data with recursive functions; the theorems about sums, batches, the comb, trees and the sort use that; `Shr`, `Pow2` and `Power` are such a recursion, because the provers know nothing of `^`.

## 5. Not modelled

- Most of the lines of the repository are outside any model: the precomputed tables and test vectors (some 23000 lines of numbers), the tests, benchmarks and
  examples, and the 256f copy of the 128f code. Of the code that runs in a user's program, nearly every file has a module.
- Calls of `randombytes` that overlap in two threads: the global state is unsynchronised and nothing in the repository promises such use;
  `Rng` makes one call at a time. Seeding again with the same bytes repeats the stream by design and is left out. The 128-bit counter V does not wrap in the model.
- Limbs at their full width: numbers of 256 bits are beyond TLC's integers. The narrow instances keep the number of limbs (`Modinv` has three and two for five and nine), the places of the carries and the shape of the
  modulus; that the constants of the code have the right values is left to its tests. The assembly versions are left out, and the repacking of field elements for the modular inverse.
- Constant-time behaviour, `VERIFY_CHECK`s, clearing of memory (but for the blinding of a context): not properties of states and steps.
- Argument checks matter only where they return after an effect (`MusigNonce`, `Encodings`). The DER format of secret keys under `contrib/`, the layout of a MuSig
  session and the strings of partial signatures, labels and prevouts summaries copy fields and are left out.
- Callbacks, the SHA-256 compression function a context may point to, and its self-test.
- Overflow or zero of a hash value: modelled where the code continues (`SilentPayments` refuses, `TweakAdd` refuses), left out elsewhere.
- Real cryptography: no claim is made about forgeries beyond the bookkeeping (which values are signed, opened, reused).

## 6. Plan

1. Prove more: the signed digits of `Wnaf` and `Strauss` (`SumsRight`), which the lemmas on bits and sums behind `BlindingAlwaysCancels` prepare, and the carries of
   `Int128` for every width (`WordsRight`).
2. State as refinements: an abstract one-shot hash that `Keccak` and `HashFunctions` implement, a job pool that `TestRunner` implements.
3. Extend: strings of labels and prevouts summaries, the 256f instance of `Sphincs`.
