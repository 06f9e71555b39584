-------------------------------- MODULE Rng ---------------------------------
(***************************************************************************)
(* The two generators of src/sphincs_shake256_128f/rng.c.                  *)
(*                                                                         *)
(* The seed expander is a stream of encrypted counters, handed out in      *)
(* requests of any length. A byte is the counter of its block and its      *)
(* place there.                                                            *)
(*                                                                         *)
(* randombytes: the blocks AES(Key, V) that a counter V gives are handed   *)
(* out, and the three that follow become the next Key and V. AES is a      *)
(* term; a V is a block plus what was added to it. Calls are made one at a *)
(* time: nothing guards the global state.                                  *)
(***************************************************************************)
EXTENDS Integers, Sequences

CONSTANTS
    Block,       \* bytes in a block; 16 in the code
    CtrRange,    \* values of the counter; 2^32 in the code
    MaxLens,     \* bound: lengths announced
    MaxRequest   \* bound: length of a request

SeedExpanderAssumption ==
    /\ Block \in Nat \ {0} /\ CtrRange \in Nat \ {0} /\ MaxRequest \in Nat
    /\ MaxLens \subseteq Nat

VARIABLES
    maxlen,             \* the length announced
    length_remaining,
    ctr, buffer,        \* the counter and the block it was last encrypted to
    buffer_pos,
    xlen,               \* bytes the running request still owes
    x,                  \* all that was handed out
    refused             \* the last request was refused

expander_vars == <<maxlen, length_remaining, ctr, buffer, buffer_pos, xlen, x, refused>>

NotStarted == -1
Unfilled == -1
RNG_BAD_MAXLEN(len) == len >= CtrRange

ExpanderInit ==
    /\ maxlen = NotStarted /\ length_remaining = 0
    /\ ctr = 0 /\ buffer = Unfilled /\ buffer_pos = Block
    /\ xlen = 0 /\ x = <<>> /\ refused = FALSE

seedexpander_init(len) ==
    /\ maxlen = NotStarted
    /\ IF RNG_BAD_MAXLEN(len) THEN UNCHANGED <<maxlen, length_remaining>>
       ELSE maxlen' = len /\ length_remaining' = len
    /\ refused' = RNG_BAD_MAXLEN(len)
    /\ UNCHANGED <<ctr, buffer, buffer_pos, xlen, x>>

(* The whole of what remains cannot be requested.                            *)
RNG_BAD_REQ_LEN(len) == len >= length_remaining

seedexpander(len) ==
    /\ maxlen # NotStarted /\ xlen = 0
    /\ IF RNG_BAD_REQ_LEN(len) THEN UNCHANGED <<length_remaining, xlen>>
       ELSE length_remaining' = length_remaining - len /\ xlen' = len
    /\ refused' = RNG_BAD_REQ_LEN(len)
    /\ UNCHANGED <<maxlen, ctr, buffer, buffer_pos, x>>

FromBuffer(n) == [i \in 1 .. n |-> <<buffer, buffer_pos + i - 1>>]

(* Faulty variant: the next request starts in the same place.                *)
PositionKept(len) == buffer_pos
PositionAfter(len) == buffer_pos + len

BufferHasWhatWeNeed ==
    /\ xlen > 0 /\ xlen <= Block - buffer_pos
    /\ x' = x \o FromBuffer(xlen)
    /\ buffer_pos' = PositionAfter(xlen)
    /\ xlen' = 0
    /\ UNCHANGED <<maxlen, length_remaining, ctr, buffer, refused>>

TakeWhatIsThere ==
    /\ xlen > 0 /\ xlen > Block - buffer_pos
    /\ x' = x \o FromBuffer(Block - buffer_pos)
    /\ xlen' = xlen - (Block - buffer_pos)
    /\ buffer' = ctr /\ buffer_pos' = 0
    /\ ctr' = (ctr + 1) % CtrRange
    /\ UNCHANGED <<maxlen, length_remaining, refused>>

ExpanderNext ==
    \/ \E len \in MaxLens : seedexpander_init(len)
    \/ \E len \in 0 .. MaxRequest : seedexpander(len)
    \/ BufferHasWhatWeNeed \/ TakeWhatIsThere

ExpanderSpec == ExpanderInit /\ [][ExpanderNext]_expander_vars

-----------------------------------------------------------------------------
(* What is handed out is the stream of blocks in order, no byte twice, none  *)
(* from the buffer before it was filled and none after the counter wrapped;  *)
(* between requests what remains of the announced length is what was not     *)
(* handed out (rng.c:67-99).                                                 *)
RequestsInOrder ==
    /\ \A i \in 1 .. Len(x) : x[i] = <<(i - 1) \div Block, (i - 1) % Block>>
    /\ maxlen # NotStarted => Len(x) + xlen + length_remaining = maxlen

-----------------------------------------------------------------------------
CONSTANTS
    Seeds,      \* bound: seed material
    MaxLen,     \* bound: bytes in a request
    MaxCalls    \* bound: requests

DrbgAssumption == {MaxLen, MaxCalls} \subseteq Nat

VARIABLES
    Key, V,      \* DRBG_ctx
    drawn,       \* blocks handed out, a part of the last one only perhaps
    kept,        \* blocks that became a Key or a V
    requests

drbg_vars == <<Key, V, drawn, kept, requests>>

AES(k, v) == <<"aes", k, v>>
Counter(block) == [of |-> block, added |-> 0]

Incremented(v, n) == [v EXCEPT !.added = @ + n]

BlocksAfter(k, v, n) == [i \in 1 .. n |-> AES(k, Incremented(v, i))]

(* AES256_CTR_DRBG_Update, with data or (the empty sequence) without.        *)
UpdateBlocks(v) == BlocksAfter(Key, v, 3)
Update(v, data) ==
    LET temp == [i \in 1 .. 3 |-> <<UpdateBlocks(v)[i]>> \o data]
    IN  /\ Key' = <<temp[1], temp[2]>>
        /\ V' = Counter(temp[3])
        /\ kept' = kept \cup {temp[i] : i \in 1 .. 3}

Zeros == <<"zeros">>

(* The global state is zero before randombytes_init, and may be used so.     *)
DrbgInit ==
    /\ Key = Zeros /\ V = Counter(Zeros)
    /\ drawn = <<>> /\ kept = {} /\ requests = 0

(* Bound: seeded before the first request or not at all.                     *)
randombytes_init(seed) ==
    /\ requests = 0 /\ Key = Zeros
    /\ Update(V, <<seed>>)
    /\ UNCHANGED <<drawn, requests>>

(* Faulty variant: increments a copy of V.                                   *)
VUnchanged(n) == V
VAfter(n) == Incremented(V, n)

(* A block for every Block bytes requested, and one for what is left.        *)
BlocksFor(len) == (len + Block - 1) \div Block

randombytes(len) ==
    /\ requests < MaxCalls /\ requests' = requests + 1
    /\ drawn' = drawn \o BlocksAfter(Key, V, BlocksFor(len))
    /\ Update(VAfter(BlocksFor(len)), <<>>)

DrbgNext ==
    \/ \E seed \in Seeds : randombytes_init(seed)
    \/ \E len \in 0 .. MaxLen : randombytes(len)

DrbgSpec == DrbgInit /\ [][DrbgNext]_drbg_vars

-----------------------------------------------------------------------------
(* A block is handed out once, and none that was handed out becomes a part   *)
(* of the state, however the requests are cut: what a caller saw says        *)
(* nothing of what the next one gets (rng.c:155-213).                        *)
BlocksUsedOnce ==
    /\ \A i, j \in 1 .. Len(drawn) : drawn[i] = drawn[j] => i = j
    /\ \A i \in 1 .. Len(drawn) : <<drawn[i]>> \notin kept

(* No generator hands a byte out twice, or one that it should keep.          *)
RandomBytesFresh == RequestsInOrder /\ BlocksUsedOnce
=============================================================================
