---------------------------- MODULE MCMusigSign -----------------------------
(* Instances of MusigSign for TLC. *)
EXTENDS MusigSign

MCOddPoints3 == {2}
MCOddPoints7 == {1, 3, 5}

MCKeyLists3 == {<<a, b>> : a, b \in {1, 2}}
MCAllNonces == Points \X Points

(* Repeated keys, a key and its negation; nonces that add up to infinity.    *)
MCKeyLists7 == {<<2, 3, 2>>, <<4, 4, 1>>, <<1, 6>>, <<3, 3>>}
MCNonces7 == {<<1, 3>>, <<5, 2>>, <<6, 4>>}
MCHashes7 == {2, 5}
MCTweaks7 == {3, 4, 7}
=============================================================================
