------------------------------ MODULE OldHasher ------------------------------
(* Sha256Old (sha_2_256_old.cpp), the hasher that keeps no offset: the place *)
(* in its buffer is bytes % 64. Its Transform is the subject of              *)
(* Sha256Transform.tla; here s is the bytes of all the chunks transformed.   *)
EXTENDS Naturals, Sequences

CONSTANTS
  OldBlock,         \* 64 in the source
  OldLength,        \* 8: bytes of the length that ends the padding
  OldWrite,         \* bound: bytes of one Write
  OldTotal          \* bound: bytes of a message

ASSUME OldSizes ==
  /\ OldBlock \in Nat /\ OldLength \in Nat /\ OldLength + 1 < OldBlock
  /\ OldWrite \in Nat /\ OldTotal \in Nat

VARIABLES
  oldS,             \* s
  oldBuf,           \* buf
  oldBytes,         \* bytes
  oldHash,          \* the last hash since Reset
  oldMessage,       \* what was written since Reset
  oldWanted         \* the hash that the standard gives for it

oldhasherVars == <<oldS, oldBuf, oldBytes, oldHash, oldMessage, oldWanted>>

Standard == INSTANCE Digest WITH
  BlockSize <- OldBlock, LengthSize <- OldLength, LittleEndian <- FALSE,
  message <- oldMessage, digest <- oldHash

OldHasherInit ==
  /\ oldS = <<>> /\ oldBytes = 0
  /\ oldBuf = [i \in 1..OldBlock |-> 0]
  /\ oldHash = <<>> /\ oldMessage = <<>> /\ oldWanted = <<>>

-----------------------------------------------------------------------------
Written(h, data) ==
  LET bufsize == h.bytes % OldBlock
      fills == bufsize > 0 /\ bufsize + Len(data) >= OldBlock
      first == IF fills THEN OldBlock - bufsize ELSE 0
      chunks == OldBlock * ((Len(data) - first) \div OldBlock)
      left == Len(data) - first - chunks
      at == IF fills THEN 0 ELSE bufsize
  IN  [s |-> h.s \o (IF fills THEN SubSeq(h.buf, 1, bufsize) ELSE <<>>) \o SubSeq(data, 1, first + chunks),
       buf |-> [i \in 1..OldBlock |->
                  CASE at < i /\ i <= at + left -> data[first + chunks + i - at]
                    [] fills /\ i > bufsize /\ ~(at < i /\ i <= at + left) -> data[i - bufsize]
                    [] OTHER -> h.buf[i]],
       bytes |-> h.bytes + Len(data)]

Now == [s |-> oldS, buf |-> oldBuf, bytes |-> oldBytes]

Becomes(h) == oldS' = h.s /\ oldBuf' = h.buf /\ oldBytes' = h.bytes

OldWriteBytes(data) ==
  /\ oldBytes + Len(data) <= OldTotal
  /\ Becomes(Written(Now, data))
  /\ oldMessage' = oldMessage \o data
  /\ UNCHANGED <<oldHash, oldWanted>>

\* Mutant: the padding may be one byte short of a block boundary.
PaddingShort(bytes) == 1 + ((2 * OldBlock - OldLength - 2 - (bytes % OldBlock)) % OldBlock)

(* 119 = 2 * 64 - 8 - 1 *)
Padding(bytes) == 1 + ((2 * OldBlock - OldLength - 1 - (bytes % OldBlock)) % OldBlock)

OldSizeDesc(bytes) == [i \in 1..OldLength |-> ((8 * bytes) \div 256^(OldLength - i)) % 256]

OldFinalize ==
  LET padded == Written(Now, [i \in 1..Padding(oldBytes) |-> IF i = 1 THEN 128 ELSE 0])
      ended == Written(padded, OldSizeDesc(oldBytes))
  IN  /\ oldBytes <= OldTotal
      /\ Becomes(ended)
      /\ oldHash' = ended.s
      /\ oldMessage' = Standard!Padded(oldMessage)
      /\ oldWanted' = Standard!Padded(oldMessage)

(* FinalizeNoPadding(hash): anything but one chunk is a failed assertion. *)
OldFinalizeNoPadding ==
  /\ oldBytes = OldBlock
  /\ oldHash' = oldS /\ oldWanted' = oldMessage
  /\ UNCHANGED <<oldS, oldBuf, oldBytes, oldMessage>>

OldReset ==
  /\ oldBytes' = 0 /\ oldS' = <<>> /\ oldMessage' = <<>>
  /\ oldHash' = <<>> /\ oldWanted' = <<>>
  /\ UNCHANGED oldBuf

OldHasherNext ==
  \/ \E n \in 0..OldWrite : OldWriteBytes([i \in 1..n |-> (oldBytes + i) % 256])
  \/ OldFinalize \/ OldFinalizeNoPadding \/ OldReset

OldHasherSpec == OldHasherInit /\ [][OldHasherNext]_oldhasherVars

-----------------------------------------------------------------------------
(* Nothing written is lost, repeated or moved on its way through the buffer, *)
(* and the hash is that of the message padded as the standard says, however  *)
(* it was cut into writes (sha_2_256_old.cpp:135-167).                       *)
OldAgrees ==
  /\ oldS \o SubSeq(oldBuf, 1, oldBytes % OldBlock) = oldMessage
  /\ oldHash = oldWanted
=============================================================================
