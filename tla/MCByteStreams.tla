--------------------------- MODULE MCByteStreams ----------------------------
(***************************************************************************)
(* Instances of the parts that cut or hand out streams of bytes: the       *)
(* Keccak sponge, SHA-256 and HMAC, the RFC 6979 nonces, the seed expander *)
(* and the generator behind randombytes.  A behaviour is one of one part.  *)
(* The seed expander has blocks of 3 bytes and a counter below 12: lengths  *)
(* around both are announced, and requests are of up to three blocks.      *)
(***************************************************************************)
EXTENDS Keccak, Rng, HashFunctions

VARIABLE part

(* SHA-256 has blocks of 4 bytes, digests of 2 and a size in two halves of   *)
(* 4 bits.  In the nonces bits stand for bytes; a name of an algorithm is    *)
(* half a key long, and message 3 is message 0.                              *)
TwoKeys == {<<0, 1>>, <<1, 0>>}

ASSUME SeedExpanderAssumption /\ DrbgAssumption

PartInit ==
    /\ part \in {"keccak", "hash", "rfc6979", "seedexpander", "drbg"}
    /\ Init /\ ShaInit /\ NonceInit /\ ExpanderInit /\ DrbgInit

PartNext ==
    /\ UNCHANGED part
    /\ \/ part = "keccak" /\ Next /\ UNCHANGED <<sha_vars, nonces, expander_vars, drbg_vars>>
       \/ part = "hash" /\ ShaNext /\ UNCHANGED <<vars, nonces, expander_vars, drbg_vars>>
       \/ part = "rfc6979" /\ NonceNext /\ UNCHANGED <<vars, sha_vars, expander_vars, drbg_vars>>
       \/ part = "seedexpander" /\ ExpanderNext /\ UNCHANGED <<vars, sha_vars, nonces, drbg_vars>>
       \/ part = "drbg" /\ DrbgNext /\ UNCHANGED <<vars, sha_vars, nonces, expander_vars>>

PartSpec ==
    PartInit /\ [][PartNext]_<<part, vars, sha_vars, nonces, expander_vars, drbg_vars>>
=============================================================================
