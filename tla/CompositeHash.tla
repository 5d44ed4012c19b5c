----------------------------- MODULE CompositeHash -----------------------------
(* The hashes made of other hashes: Hash256 (hash256.cpp), Hash160           *)
(* (hash160.cpp) and Hmac (hmac.hpp). What a single hasher promises is the   *)
(* subject of Hasher.tla: here it is the message it was given, finalize adds *)
(* its padding to that message, and a digest is a row of bytes that tell     *)
(* which algorithm made them of what. A byte is such a source with the set   *)
(* of the constants that it is xor-ed with.                                  *)
EXTENDS Naturals, Sequences

CONSTANTS
  HashBlock,        \* bytes of a block of the hasher
  HashDigest,       \* bytes of its digest
  HashKeys,         \* bound: bytes of an initial text or key
  HashInput,        \* bound: bytes given to update after it
  HashFinals        \* bound: finalizes without an init

ASSUME HashSizes ==
  /\ HashBlock \in Nat /\ HashDigest \in Nat /\ HashKeys \in Nat
  /\ HashInput \in Nat /\ HashFinals \in Nat
  /\ HashDigest < HashBlock /\ HashBlock < HashKeys

VARIABLES
  hashKind,         \* which of the three it is
  innerHasher,      \* hasher; inner of a Hmac
  outerHasher,      \* outer of a Hmac
  hashStart,        \* what the last init was given
  hashGiven,        \* what update was given since
  hashSpent,        \* finalizes since the last init, or 1 before the first of a Hmac
  hashOut,          \* the last digest since
  hashWanted        \* what the definition of the hash says it should be

compositehashVars ==
  <<hashKind, innerHasher, outerHasher, hashStart, hashGiven, hashSpent, hashOut, hashWanted>>

-----------------------------------------------------------------------------
Plain(source) == <<source, {}>>
Text(n) == [i \in 1..n |-> Plain(<<"text", <<>>, i>>)]
Zero == Plain(<<"zero", <<>>, 0>>)

(* External: a hasher's digest of a message, and what it holds afterwards.   *)
Hashed(algorithm, message) == [i \in 1..HashDigest |-> Plain(<<algorithm, message, i>>)]
Finished(message) == Append(message, Plain(<<"padding", <<>>, 0>>))

(* b ^= constants, for every byte b *)
Xored(bytes, constants) ==
  [i \in DOMAIN bytes |-> <<bytes[i][1], (bytes[i][2] \ constants) \union (constants \ bytes[i][2])>>]

(* rkey.resize(block_size, 0) *)
Resized(key) == SubSeq(key \o [i \in 1..HashBlock |-> Zero], 1, HashBlock)

CompositeHashInit ==
  /\ hashKind \in {"Hash256", "Hash160", "Hmac"}
  /\ innerHasher = <<>> /\ outerHasher = <<>>
  /\ hashStart = <<>> /\ hashGiven = <<>>
  /\ hashSpent = IF hashKind = "Hmac" THEN 1 ELSE 0
  /\ hashOut = <<>> /\ hashWanted = <<>>

-----------------------------------------------------------------------------
Begun(start) ==
  /\ hashStart' = start /\ hashGiven' = <<>> /\ hashSpent' = 0
  /\ hashOut' = <<>> /\ hashWanted' = <<>>
  /\ UNCHANGED hashKind

(* init() and init(initial_data) of Hash256 and Hash160 *)
HashBegin(start) ==
  /\ hashKind # "Hmac"
  /\ innerHasher' = start
  /\ Begun(start)
  /\ UNCHANGED outerHasher

\* Mutant: inner is not initialised again after it hashed a long key.
HmacBeginUnreset(key) ==
  /\ hashKind = "Hmac"
  /\ LET long == Len(key) > HashBlock
         rkey == Resized(IF long THEN Hashed("sha", key) ELSE key)
     IN  /\ outerHasher' = Xored(rkey, {"opad"})
         /\ innerHasher' = (IF long THEN Finished(key) ELSE <<>>)
                           \o Xored(Xored(rkey, {"opad"}), {"opad", "ipad"})
  /\ Begun(key)

(* Hmac::init: a key longer than a block is hashed with inner, which then    *)
(* starts again; the second xor also undoes the first.                       *)
HmacBegin(key) ==
  /\ hashKind = "Hmac"
  /\ LET rkey == Resized(IF Len(key) > HashBlock THEN Hashed("sha", key) ELSE key)
     IN  /\ outerHasher' = Xored(rkey, {"opad"})
         /\ innerHasher' = Xored(Xored(rkey, {"opad"}), {"opad", "ipad"})
  /\ Begun(key)

HashUpdate(bytes) ==
  /\ Len(hashGiven) + Len(bytes) <= HashInput
  /\ innerHasher' = innerHasher \o bytes
  /\ hashGiven' = hashGiven \o bytes
  /\ UNCHANGED <<hashKind, outerHasher, hashStart, hashSpent, hashOut, hashWanted>>

(* The definitions: of a hash of a hash, and of RFC 2104.                    *)
Wanted ==
  LET message == hashStart \o hashGiven
      key == Resized(IF Len(hashStart) > HashBlock THEN Hashed("sha", hashStart) ELSE hashStart)
  IN  CASE hashKind = "Hash256" -> Hashed("sha", Hashed("sha", message))
        [] hashKind = "Hash160" -> Hashed("ripemd", Hashed("sha", message))
        [] hashKind = "Hmac" -> Hashed("sha", Xored(key, {"opad"})
                                  \o Hashed("sha", Xored(key, {"ipad"}) \o hashGiven))

Finalized(kind, digest) ==
  /\ hashKind = kind /\ hashSpent < HashFinals
  /\ hashOut' = digest
  /\ hashWanted' = IF hashSpent = 0 THEN Wanted ELSE digest
  /\ hashSpent' = hashSpent + 1
  /\ UNCHANGED <<hashKind, hashStart, hashGiven>>

(* Hash256 uses its hasher twice. *)
Hash256Finalize ==
  LET first == Hashed("sha", innerHasher)
  IN  /\ Finalized("Hash256", Hashed("sha", first))
      /\ innerHasher' = Finished(first)
      /\ UNCHANGED outerHasher

(* Hash160 has a second hasher for the occasion. *)
Hash160Finalize ==
  /\ Finalized("Hash160", Hashed("ripemd", Hashed("sha", innerHasher)))
  /\ innerHasher' = Finished(innerHasher)
  /\ UNCHANGED outerHasher

(* A Hmac spends both of its own. *)
HmacFinalize ==
  LET keyed == outerHasher \o Hashed("sha", innerHasher)
  IN  /\ Finalized("Hmac", Hashed("sha", keyed))
      /\ innerHasher' = Finished(innerHasher)
      /\ outerHasher' = Finished(keyed)

CompositeHashNext ==
  \/ \E n \in 0..HashKeys : HashBegin(Text(n)) \/ HmacBegin(Text(n))
  \/ \E n \in 0..1 : HashUpdate(Text(n))
  \/ Hash256Finalize \/ Hash160Finalize \/ HmacFinalize

CompositeHashSpec == CompositeHashInit /\ [][CompositeHashNext]_compositehashVars

-----------------------------------------------------------------------------
(* The digest of a hash that was initialised is the one its definition gives *)
(* for what it was given since, whatever was hashed or keyed before          *)
(* (hash256.cpp:28-34, hash160.cpp:29-34, hmac.hpp:29-63).                   *)
AsDefined == hashOut = hashWanted
=============================================================================
