------------------------------- MODULE Digests -------------------------------
(* The hashes beside Hasher together: those made of other hashes and the     *)
(* older SHA-256. They share no state.                                       *)
EXTENDS CompositeHash, OldHasher

DigestsSpec == CompositeHashSpec /\ OldHasherSpec

(* Hash256, Hash160 and Hmac give the digests they are defined by, and the   *)
(* older SHA-256 hashes the message it was given, padded as the standard     *)
(* says (hash256.cpp, hash160.cpp, hmac.hpp, sha_2_256_old.cpp).             *)
DigestsAsDefined == AsDefined /\ OldAgrees
=============================================================================
