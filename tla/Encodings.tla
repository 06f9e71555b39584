------------------------------ MODULE Encodings ------------------------------
(***************************************************************************)
(* What the library reads from byte strings and writes to them.            *)
(*                                                                         *)
(* Points: public keys (src/eckey_impl.h, secp256k1.c), x-only keys        *)
(* (modules/extrakeys) and the pairs of points of MuSig nonces             *)
(* (modules/musig/session_impl.h), over the curve of Curve with one byte   *)
(* for a field element. One object of the caller is parsed into again and  *)
(* again; meaning says which multiples of the generator it must stand for. *)
(*                                                                         *)
(* ECDSA signatures in DER (src/ecdsa_impl.h): what the library writes,    *)
(* its parser, and the lax one of contrib/lax_der_parsing.c. A string      *)
(* starts as a signature and is then edited byte by byte.                  *)
(***************************************************************************)
EXTENDS Curve, SequencesExt

CONSTANTS
    Known,         \* the points of the curve: Multiple[k] for each k # 0
    KeyTags,       \* bound: first bytes of the strings parsed
    KeyBytes,      \* bound: their other bytes
    NonceTags, NonceXBytes,   \* bound: the same for the points of a nonce
    MaxParses      \* bound

Even == 2  Odd == 3  Uncompressed == 4  HybridEven == 6  HybridOdd == 7

(* A stored point is 64 bytes; Zeros stands for a cleared key, and in an     *)
(* aggregate nonce for infinity. A parser gives the point, or nothing.       *)
Zeros == ge(0, 0)

ge_is_valid_var(a) == ~a.infinity /\ Sqr(a.y) = Add(Mul(a.x, Sqr(a.x)), B)

Decompressed(x, odd) ==
    {point \in {ge_set_xo_var(x, odd).r} : x < p /\ ge_set_xo_var(x, odd).ret}

(* Faulty variant: does not compare y with the parity of a hybrid key.       *)
TagFitsAny(tag, y) == TRUE
TagFits(tag, y) ==
    /\ tag = HybridEven => ~fe_is_odd(y)
    /\ tag = HybridOdd => fe_is_odd(y)

eckey_pubkey_parse(pub) ==
    IF Len(pub) = 2 /\ pub[1] \in {Even, Odd} THEN Decompressed(pub[2], pub[1] = Odd)
    ELSE IF Len(pub) = 3 /\ pub[1] \in {Uncompressed, HybridEven, HybridOdd}
    THEN {point \in {ge(pub[2], pub[3])} :
             /\ point.x < p /\ point.y < p
             /\ TagFits(pub[1], point.y) /\ ge_is_valid_var(point)}
    ELSE {}

eckey_pubkey_serialize33(a) == <<IF fe_is_odd(a.y) THEN Odd ELSE Even, a.x>>
eckey_pubkey_serialize65(a) == <<Uncompressed, a.x, a.y>>

pubkey_load(key) == {point \in {key} : point.x # 0}

(* Into a buffer of outputlen bytes; the result says how many are used.      *)
ec_pubkey_serialize(key, outputlen, compressed) ==
    LET Out(point) == IF compressed THEN eckey_pubkey_serialize33(point)
                      ELSE eckey_pubkey_serialize65(point)
        fits == outputlen >= IF compressed THEN 2 ELSE 3
    IN  IF fits /\ pubkey_load(key) # {}
        THEN [ret |-> TRUE, output |-> Out(key)]
        ELSE [ret |-> FALSE, output |-> <<>>]

memcmp_var(s, t) ==
    LET differ == {i \in DOMAIN s : s[i] # t[i]}
        first == CHOOSE i \in differ : \A j \in differ : i <= j
    IN  IF differ = {} THEN 0 ELSE s[first] - t[first]

ec_pubkey_cmp(key0, key1) ==
    LET Out(key) == LET s == ec_pubkey_serialize(key, 2, TRUE)
                    IN  IF s.ret THEN s.output ELSE <<0, 0>>
    IN  memcmp_var(Out(key0), Out(key1))

xonly_pubkey_parse(input) == Decompressed(input[1], FALSE)
xonly_pubkey_serialize(key) == {<<point.x>> : point \in pubkey_load(key)}
xonly_pubkey_cmp(key0, key1) ==
    LET Out(key) == IF pubkey_load(key) = {} THEN <<0>> ELSE <<key.x>>
    IN  memcmp_var(Out(key0), Out(key1))

(* Faulty variant: reports the parity and keeps the point.                   *)
ge_even_y_unchanged(a) == [point |-> a, parity |-> fe_is_odd(a.y)]
ge_even_y(a) ==
    [point |-> IF fe_is_odd(a.y) THEN ge(a.x, Neg(a.y)) ELSE a, parity |-> fe_is_odd(a.y)]
xonly_pubkey_from_pubkey(key) == {ge_even_y(point) : point \in pubkey_load(key)}

(* Infinity is a string of zeros and stored as zeros.                        *)
musig_ge_parse_ext(in33) == IF in33 = <<0, 0>> THEN {Zeros} ELSE eckey_pubkey_parse(in33)
musig_ge_serialize_ext(a) == IF a = Zeros THEN <<0, 0>> ELSE eckey_pubkey_serialize33(a)

Halves(in66) == <<SubSeq(in66, 1, 2), SubSeq(in66, 3, 4)>>
musig_pubnonce_parse(in66) ==
    eckey_pubkey_parse(Halves(in66)[1]) \X eckey_pubkey_parse(Halves(in66)[2])
musig_pubnonce_serialize(nonce) ==
    eckey_pubkey_serialize33(nonce[1]) \o eckey_pubkey_serialize33(nonce[2])
musig_aggnonce_parse(in66) ==
    musig_ge_parse_ext(Halves(in66)[1]) \X musig_ge_parse_ext(Halves(in66)[2])
musig_aggnonce_serialize(nonce) ==
    musig_ge_serialize_ext(nonce[1]) \o musig_ge_serialize_ext(nonce[2])

-----------------------------------------------------------------------------
VARIABLES
    type,      \* what the caller's object is for
    object,    \* the points in it; <<>> is an object without its magic bytes
    meaning,   \* the multiples it must stand for; <<>> is an unusable object
    parses

key_vars == <<type, object, meaning, parses>>

KeyTypes == {"pubkey", "xonly", "pubnonce", "aggnonce"}

(* The encodings of a multiple, as strings.                                  *)
OddY(k) == fe_is_odd(Known[k].y)
ShortForm(k) == IF k = 0 THEN <<0, 0>> ELSE <<IF OddY(k) THEN 3 ELSE 2, Known[k].x>>
PubkeyForms(k) ==
    {ShortForm(k)} \cup {<<tag, Known[k].x, Known[k].y>> : tag \in {4, IF OddY(k) THEN 7 ELSE 6}}

PointOrInfinity(half) == {k \in Scalars : half = ShortForm(k)}
PointOf(half) == PointOrInfinity(half) \ {0}

Means(in) ==
    CASE type = "pubkey" -> {<<k>> : k \in {k \in 1 .. N - 1 : in \in PubkeyForms(k)}}
      [] type = "xonly" -> {<<k>> : k \in {k \in 1 .. N - 1 : ~OddY(k) /\ in = <<Known[k].x>>}}
      [] type = "pubnonce" -> PointOf(Halves(in)[1]) \X PointOf(Halves(in)[2])
      [] type = "aggnonce" -> PointOrInfinity(Halves(in)[1]) \X PointOrInfinity(Halves(in)[2])

KeyInit ==
    /\ type \in KeyTypes
    /\ object = <<>> /\ meaning = <<>>
    /\ parses = 0

(* Keys are cleared before they are parsed, nonces are left alone when that  *)
(* fails.                                                                    *)
Parsed(in) ==
    CASE type = "pubkey" -> {<<point>> : point \in eckey_pubkey_parse(in)}
      [] type = "xonly" -> {<<point>> : point \in xonly_pubkey_parse(in)}
      [] type = "pubnonce" -> musig_pubnonce_parse(in)
      [] type = "aggnonce" -> musig_aggnonce_parse(in)
IfRefused == IF type \in {"pubkey", "xonly"} THEN <<Zeros>> ELSE object

Parse(in) ==
    /\ parses < MaxParses
    /\ object' \in IF Parsed(in) = {} THEN {IfRefused} ELSE Parsed(in)
    /\ meaning' \in IF Means(in) # {} THEN Means(in)
                    ELSE IF type \in {"pubkey", "xonly"} THEN {<<>>} ELSE {meaning}
    /\ parses' = parses + 1
    /\ UNCHANGED type

(* The key of the same X and even Y; its parity is part of the meaning.      *)
FromPubkey ==
    /\ type = "pubkey" /\ object # <<>>
    /\ \E even \in xonly_pubkey_from_pubkey(object[1]) :
        /\ object' = <<even.point>>
        /\ meaning' = <<IF even.parity THEN N - meaning[1] ELSE meaning[1]>>
    /\ type' = "xonly"
    /\ UNCHANGED parses

KeyStrings ==
    CASE type = "pubkey" -> (KeyTags \X KeyBytes) \cup (KeyTags \X KeyBytes \X KeyBytes)
      [] type = "xonly" -> {<<x>> : x \in KeyBytes}
      [] OTHER -> NonceTags \X NonceXBytes \X NonceTags \X NonceXBytes

KeyNext ==
    \/ \E in \in KeyStrings : Parse(in)
    \/ FromPubkey

-----------------------------------------------------------------------------
(* After any calls the object is the point that its last string encodes, or  *)
(* unusable: a key that was refused cannot be used, whereas a refused nonce  *)
(* leaves the one before it (session_impl.h:188-206). What is written of it  *)
(* is that encoding, x-only keys have an even Y (secp256k1_extrakeys.h), and *)
(* comparison is an order in which unusable keys come first and only equal   *)
(* keys are equal (secp256k1.c:321-326).                                     *)
PointsStandFor ==
    IF meaning = <<>> THEN object \in {<<>>, <<Zeros>>}
    ELSE object = [i \in DOMAIN meaning |->
                      IF meaning[i] = 0 THEN Zeros ELSE Known[meaning[i]]]
WrittenRight ==
    meaning # <<>> =>
        CASE type = "pubkey" ->
                /\ \A len \in 0 .. 3, compressed \in BOOLEAN :
                      LET s == ec_pubkey_serialize(object[1], len, compressed)
                      IN  s.ret => Len(s.output) <= len /\ Means(s.output) = {meaning}
                /\ ec_pubkey_serialize(object[1], 2, TRUE).ret
                /\ ec_pubkey_serialize(object[1], 3, FALSE).ret
          [] type = "xonly" -> \A out \in {xonly_pubkey_serialize(object[1])} :
                                   out # {} /\ \A s \in out : Means(s) = {meaning}
          [] type = "pubnonce" -> Means(musig_pubnonce_serialize(object)) = {meaning}
          [] type = "aggnonce" -> Means(musig_aggnonce_serialize(object)) = {meaning}
OrderedRight ==
    type \in {"pubkey", "xonly"} /\ object # <<>> =>
        LET Cmp(a, b) == IF type = "pubkey" THEN ec_pubkey_cmp(a, b) ELSE xonly_pubkey_cmp(a, b)
            others == {Known[k] : k \in {k \in 1 .. N - 1 : type = "xonly" => ~OddY(k)}}
        IN  /\ \A other \in others :
                /\ Cmp(object[1], other) = -Cmp(other, object[1])
                /\ Cmp(object[1], other) = 0 <=> object[1] = other
                /\ meaning = <<>> => Cmp(object[1], other) < 0
            /\ Cmp(object[1], object[1]) = 0
KeysRight == PointsStandFor /\ WrittenRight /\ OrderedRight

-----------------------------------------------------------------------------
(* DER.                                                                      *)
CONSTANTS
    Base,                      \* values of a byte; 256 in the code
    Width,                     \* bytes of a scalar; 32 in the code
    SizeBytes,                 \* sizeof(size_t)
    SequenceTag, IntegerTag,   \* 0x30 and 0x02 in the code
    GroupOrder,                \* the order of the group
    DerScalars,                \* bound: halves of the signatures written
    LongIntegers,              \* bound: contents of integers not written here
    EditBytes,                 \* bound: bytes that edits put in
    MaxEdits                   \* bound: edits

Byte == 0 .. Base - 1
HighBit == Base \div 2

DerAssumption ==
    /\ {Base, Width, SizeBytes, MaxEdits} \subseteq Nat
    /\ Base % 2 = 0 /\ Width > 0
    /\ 4 + 2 * (Width + 1) < HighBit   \* 70 < 128 in the code
    /\ GroupOrder \in Base ^ Width \div 2 .. Base ^ Width
    /\ {SequenceTag, IntegerTag} \cup EditBytes \subseteq Byte
    /\ DerScalars \subseteq 0 .. GroupOrder - 1

Number(bytes) == FoldLeft(LAMBDA sum, b : sum * Base + b, 0, bytes)
scalar_get_b32(n) == [i \in 1 .. Width |-> (n \div Base ^ (Width - i)) % Base]

Drop(bytes, n) == SubSeq(bytes, n + 1, Len(bytes))
Left(in, pos) == Len(in) - pos + 1

(* From a place in the input to the place behind what was read.              *)
NotRead == [ok |-> FALSE, value |-> 0, pos |-> 0]
Read(value, pos) == [ok |-> TRUE, value |-> value, pos |-> pos]

-----------------------------------------------------------------------------
(* The parser of the library.                                                *)

(* Faulty variant: takes a length that would fit into one byte.              *)
NeedsLongFormAlways(len) == TRUE
NeedsLongForm(len) == len >= HighBit

der_read_len(in, pos) ==
    LET b1 == in[pos]
        lenleft == b1 - HighBit
        behind == pos + 1 + lenleft
        len == Number(SubSeq(in, pos + 1, behind - 1))
    IN  IF pos > Len(in) THEN NotRead
        ELSE IF b1 < HighBit THEN Read(b1, pos + 1)
        ELSE IF /\ b1 \notin {HighBit, Base - 1}
                /\ lenleft <= Left(in, pos + 1) /\ in[pos + 1] # 0
                /\ lenleft <= SizeBytes
                /\ len <= Left(in, behind) /\ NeedsLongForm(len)
             THEN Read(len, behind)
             ELSE NotRead

(* Faulty variant: looks for superfluous zeros only.                         *)
PaddedWithZeros(d) == Len(d) > 1 /\ d[1] = 0 /\ d[2] < HighBit
Padded(d) ==
    /\ Len(d) > 1
    /\ \/ d[1] = 0 /\ d[2] < HighBit
       \/ d[1] = Base - 1 /\ d[2] >= HighBit

(* A negative number and one out of range are read as zero.                  *)
IntegerValue(d) ==
    LET stripped == IF d[1] = 0 THEN Tail(d) ELSE d
    IN  IF d[1] < HighBit /\ Len(stripped) <= Width /\ Number(stripped) < GroupOrder
        THEN Number(stripped) ELSE 0

IntegerOfLength(in, rlen) ==
    LET d == SubSeq(in, rlen.pos, rlen.pos + rlen.value - 1)
    IN  IF rlen.ok /\ rlen.value \in 1 .. Left(in, rlen.pos) /\ ~Padded(d)
        THEN Read(IntegerValue(d), rlen.pos + rlen.value) ELSE NotRead
der_parse_integer(in, pos) ==
    IF pos > Len(in) \/ in[pos] # IntegerTag THEN NotRead
    ELSE IntegerOfLength(in, der_read_len(in, pos + 1))

NoSig == [ret |-> FALSE, r |-> 0, s |-> 0]

SignatureOf(in, r, s) ==
    IF r.ok /\ s.ok /\ s.pos = Len(in) + 1
    THEN [ret |-> TRUE, r |-> r.value, s |-> s.value] ELSE NoSig
AfterFirst(in, r) == SignatureOf(in, r, der_parse_integer(in, r.pos))
InSequence(in, rlen) ==
    IF rlen.ok /\ rlen.value = Left(in, rlen.pos)
    THEN AfterFirst(in, der_parse_integer(in, rlen.pos)) ELSE NoSig
ecdsa_sig_parse(in) ==
    IF in = <<>> \/ in[1] # SequenceTag THEN NoSig ELSE InSequence(in, der_read_len(in, 2))

(* Faulty variant: leaves a first byte with the high bit without its zero.   *)
ShortestUnsigned(d) ==
    LET Superfluous(k) == \A i \in 1 .. k : d[i] = 0
        k == CHOOSE k \in 0 .. Len(d) - 1 : Superfluous(k) /\ (k + 1 < Len(d) => d[k + 1] # 0)
    IN  Drop(d, k)
(* The loops that drop leading zeros as long as the number stays positive.   *)
Shortest(d) ==
    LET Dropped(k) == \A i \in 1 .. k : d[i] = 0 /\ d[i + 1] < HighBit
    IN  Drop(d, CHOOSE k \in 0 .. Len(d) - 1 :
                    Dropped(k) /\ (k + 1 < Len(d) => ~Dropped(k + 1)))

(* Into a buffer of the given size; size is what it takes.                   *)
Written(r, s, size) ==
    LET needed == 6 + Len(r) + Len(s)
    IN  [ret |-> size >= needed, size |-> needed,
         sig |-> IF size < needed THEN <<>>
                 ELSE <<SequenceTag, 4 + Len(r) + Len(s), IntegerTag, Len(r)>> \o r
                      \o <<IntegerTag, Len(s)>> \o s]
ecdsa_sig_serialize(ar, as, size) ==
    Written(Shortest(<<0>> \o scalar_get_b32(ar)), Shortest(<<0>> \o scalar_get_b32(as)), size)

-----------------------------------------------------------------------------
(* The lax parser.                                                           *)

WithoutZeros(d) ==
    Drop(d, CHOOSE k \in 0 .. Len(d) :
                (\A i \in 1 .. k : d[i] = 0) /\ (k < Len(d) => d[k + 1] # 0))

lax_len(in, pos) ==
    LET lenbyte == in[pos] - HighBit
        stripped == WithoutZeros(SubSeq(in, pos + 1, pos + lenbyte))
    IN  IF pos > Len(in) THEN NotRead
        ELSE IF in[pos] < HighBit THEN Read(in[pos], pos + 1)
        ELSE IF lenbyte <= Left(in, pos + 1) /\ Len(stripped) < SizeBytes
             THEN Read(Number(stripped), pos + 1 + lenbyte)
             ELSE NotRead

(* The length of the sequence is skipped.                                    *)
lax_skip(in, pos) ==
    IF pos > Len(in) THEN NotRead
    ELSE IF in[pos] < HighBit THEN Read(0, pos + 1)
    ELSE IF in[pos] - HighBit <= Left(in, pos + 1) THEN Read(0, pos + 1 + in[pos] - HighBit)
    ELSE NotRead

(* An integer is returned without its leading zeros.                         *)
lax_integer_of(in, len) ==
    IF len.ok /\ len.value <= Left(in, len.pos)
    THEN Read(WithoutZeros(SubSeq(in, len.pos, len.pos + len.value - 1)), len.pos + len.value)
    ELSE NotRead
lax_integer(in, pos) ==
    IF pos > Len(in) \/ in[pos] # IntegerTag THEN NotRead
    ELSE lax_integer_of(in, lax_len(in, pos + 1))

InRange(d) == Len(d) <= Width /\ Number(d) < GroupOrder

LaxSignature(r, s) ==
    IF ~r.ok \/ ~s.ok THEN NoSig
    ELSE IF InRange(r.value) /\ InRange(s.value)
         THEN [ret |-> TRUE, r |-> Number(r.value), s |-> Number(s.value)]
         ELSE [NoSig EXCEPT !.ret = TRUE]
LaxAfterFirst(in, r) == LaxSignature(r, lax_integer(in, r.pos))
ecdsa_signature_parse_der_lax(in) ==
    IF in = <<>> \/ in[1] # SequenceTag \/ ~lax_skip(in, 2).ok THEN NoSig
    ELSE LaxAfterFirst(in, lax_integer(in, lax_skip(in, 2).pos))

-----------------------------------------------------------------------------
VARIABLES
    wire,    \* the string
    edits    \* how often it was edited

der_vars == <<wire, edits>>

DerInit == wire = <<>> /\ edits = 0

(* DER from its definition: an element is a tag, the length in as few octets *)
(* as it takes, and the content.                                             *)
LengthOctets(n) ==
    IF n < HighBit THEN <<n>>
    ELSE LET k == CHOOSE j \in 1 .. SizeBytes : Base ^ (j - 1) <= n /\ n < Base ^ j
         IN  <<HighBit + k>> \o [i \in 1 .. k |-> (n \div Base ^ (k - i)) % Base]
Element(tag, content) == <<tag>> \o LengthOctets(Len(content)) \o content
Signature(a, b) == Element(SequenceTag, Element(IntegerTag, a) \o Element(IntegerTag, b))

Serialize(r, s) ==
    /\ wire = <<>>
    /\ wire' = ecdsa_sig_serialize(r, s, 6 + 2 * (Width + 1)).sig
    /\ UNCHANGED edits

(* A signature made elsewhere, with numbers of any length.                   *)
Foreign(a, b) ==
    /\ wire = <<>>
    /\ wire' = Signature(a, b)
    /\ UNCHANGED edits

Edit(w) == wire' = w /\ edits' = edits + 1

Tamper ==
    /\ edits < MaxEdits
    /\ \E i \in 1 .. Len(wire) :
        \/ Edit(SubSeq(wire, 1, i - 1) \o Drop(wire, i))
        \/ \E b \in EditBytes :
            \/ Edit([wire EXCEPT ![i] = b])
            \/ Edit(SubSeq(wire, 1, i) \o <<b>> \o Drop(wire, i))

DerNext ==
    \/ \E r, s \in DerScalars : Serialize(r, s)
    \/ \E a, b \in LongIntegers : Foreign(a, b)
    \/ Tamper

-----------------------------------------------------------------------------
(* An integer of DER is not empty and has no superfluous first byte.         *)
Minimal(d) ==
    /\ d # <<>>
    /\ Len(d) > 1 => ~(d[1] = 0 /\ d[2] < HighBit) /\ ~(d[1] = Base - 1 /\ d[2] >= HighBit)
Decodings(w) ==
    LET Size(n) == 1 + Len(LengthOctets(n)) + n
        Second(first) ==   \* the lengths the second integer can have
            {n \in 1 .. Len(w) - first :
                /\ n > Len(w) - first - 3 * (2 + SizeBytes)
                /\ Size(Size(first) + Size(n)) = Len(w)}
        Cut(m, n) == <<SubSeq(w, Len(w) - Size(n) - m + 1, Len(w) - Size(n)),
                       Drop(w, Len(w) - n)>>
    IN  {d \in UNION {{Cut(m, n) : n \in Second(m)} : m \in 1 .. Len(w)} :
            Minimal(d[1]) /\ Minimal(d[2]) /\ w = Signature(d[1], d[2])}
Value(d) ==
    IF d[1] < HighBit /\ Len(d) <= Width + 1 /\ Number(d) < GroupOrder
    THEN Number(d) ELSE 0

(* The parser takes DER and nothing else (the X.690 rules quoted at          *)
(* ecdsa_impl.h:44-90), and what the library writes, in a buffer that just   *)
(* fits it, is the one string it reads back as a given valid signature.      *)
TakesDerOnly ==
    \A parsed \in {ecdsa_sig_parse(wire)}, decoded \in {Decodings(wire)} :
        /\ parsed.ret <=> decoded # {}
        /\ \A d \in decoded : parsed.r = Value(d[1]) /\ parsed.s = Value(d[2])
        /\ parsed.r # 0 /\ parsed.s # 0 =>
            LET fitting == ecdsa_sig_serialize(parsed.r, parsed.s, Len(wire))
            IN  fitting.ret /\ fitting.sig = wire
                /\ ecdsa_sig_serialize(parsed.r, parsed.s, Len(wire) - 1)
                     = [ret |-> FALSE, size |-> Len(wire), sig |-> <<>>]

(* The lax parser takes all of that and gives it the same meaning, and       *)
(* garbage behind a signature means nothing (lax_der_parsing.h:24-40,        *)
(* 72-79).                                                                   *)
LaxTakesDer ==
    \A parsed \in {ecdsa_sig_parse(wire)}, lax \in {ecdsa_signature_parse_der_lax(wire)} :
        /\ parsed.ret => lax.ret
        /\ parsed.r # 0 /\ parsed.s # 0 => lax = parsed
        /\ lax.ret => \A b \in EditBytes : ecdsa_signature_parse_der_lax(Append(wire, b)) = lax
=============================================================================
