------------------------------- MODULE Hasher -------------------------------
(***************************************************************************)
(* zen::crypto::Hasher (src/zen/core/crypto/hasher.{hpp,cpp}) with the     *)
(* init_context and finalize of Sha1, Sha256, Sha512 and Ripemd160, which  *)
(* differ in the block size, the size of the length field and its byte     *)
(* order: 64, 8, big-endian; 64, 8, big-endian; 128, 16, big-endian; 64,   *)
(* 8, little-endian.                                                       *)
(*                                                                         *)
(* OpenSSL's context and its compression function are external: what the   *)
(* context holds is the concatenation of the blocks given to transform().  *)
(* Every branch of update() and every turn of its loop is a step; data is  *)
(* what it has not consumed yet.                                           *)
(***************************************************************************)
EXTENDS Naturals, Sequences

CONSTANTS
  BlockSize, LengthSize, LittleEndian,
  MaxUpdate,  \* bound: bytes in one update()
  MaxTotal    \* bound: bytes in a message

ASSUME HasherAssumption ==
  /\ BlockSize \in Nat /\ LengthSize \in Nat /\ LengthSize + 1 < BlockSize
  /\ LittleEndian \in BOOLEAN
  /\ MaxUpdate \in Nat /\ MaxTotal \in Nat

VARIABLES
  context,        \* the bytes of every block transformed since init_context()
  hash_buffer,    \* buffer_, BlockSize bytes
  buffer_offset,  \* buffer_offset_
  total_bytes,    \* total_bytes_
  data,           \* the part of update()'s argument that is left
  rest,           \* what finalize() has still to give to update()
  pc,             \* where update() is
  finalizing,     \* whether finalize() called it
  digest          \* what finalize() returned last: the blocks it covers

hasherVars ==
  <<context, hash_buffer, buffer_offset, total_bytes, data, rest, pc, finalizing, digest>>

Byte == 0 .. 255

Least(a, b) == IF a <= b THEN a ELSE b

RemovePrefix(s, n) == SubSeq(s, n + 1, Len(s))

\* memcpy(&buffer_[at], s, n)
Copied(at, s, n) ==
  [i \in 1 .. BlockSize |-> IF at < i /\ i <= at + n THEN s[i - at] ELSE hash_buffer[i]]

HasherInit ==
  /\ context = <<>>
  /\ hash_buffer = [i \in 1 .. BlockSize |-> 0]
  /\ buffer_offset = 0
  /\ total_bytes = 0
  /\ data = <<>>
  /\ rest = <<>>
  /\ pc = "idle"
  /\ finalizing = FALSE
  /\ digest = <<>>

-----------------------------------------------------------------------------
(* init(), reset()                                                         *)

\* MUTANT of Reset: what the buffer holds is kept.
ResetKeepsOffset ==
  /\ pc = "idle"
  /\ context' = <<>>
  /\ total_bytes' = 0
  /\ UNCHANGED <<hash_buffer, buffer_offset, data, rest, pc, finalizing, digest>>

\* init_context(): buffer_ keeps its bytes, none of which counts any more.
Reset ==
  /\ pc = "idle"
  /\ context' = <<>>
  /\ total_bytes' = 0
  /\ buffer_offset' = 0
  /\ UNCHANGED <<hash_buffer, data, rest, pc, finalizing, digest>>

-----------------------------------------------------------------------------
(* update(data)                                                            *)

Update(d) ==
  /\ pc = "idle"
  /\ total_bytes + Len(d) <= MaxTotal
  /\ data' = d
  /\ pc' = "fill"
  /\ UNCHANGED <<context, hash_buffer, buffer_offset, total_bytes, rest, finalizing, digest>>

\* MUTANT of Fill: the buffer is emptied one byte before it is full.
FillEarly ==
  /\ pc = "fill"
  /\ pc' = "chunk"
  /\ LET room_size == IF buffer_offset = 0 THEN 0
                      ELSE Least(BlockSize - buffer_offset, Len(data))
         filled == buffer_offset + room_size
     IN  /\ hash_buffer' = Copied(buffer_offset, data, room_size)
         /\ data' = RemovePrefix(data, room_size)
         /\ total_bytes' = total_bytes + room_size
         /\ context' = IF filled >= BlockSize - 1 THEN context \o hash_buffer' ELSE context
         /\ buffer_offset' = IF filled >= BlockSize - 1 THEN 0 ELSE filled
  /\ UNCHANGED <<rest, finalizing, digest>>

\* MUTANT of Fill: a block completed from the buffer is not counted.
FillUncounted ==
  /\ pc = "fill"
  /\ pc' = "chunk"
  /\ LET room_size == IF buffer_offset = 0 THEN 0
                      ELSE Least(BlockSize - buffer_offset, Len(data))
         filled == buffer_offset + room_size
     IN  /\ hash_buffer' = Copied(buffer_offset, data, room_size)
         /\ data' = RemovePrefix(data, room_size)
         /\ context' = IF filled = BlockSize THEN context \o hash_buffer' ELSE context
         /\ buffer_offset' = IF filled = BlockSize THEN 0 ELSE filled
  /\ UNCHANGED <<total_bytes, rest, finalizing, digest>>

\* "If some room left in buffer fill it": a full buffer is transformed.
Fill ==
  /\ pc = "fill"
  /\ pc' = "chunk"
  /\ LET room_size == IF buffer_offset = 0 THEN 0
                      ELSE Least(BlockSize - buffer_offset, Len(data))
         filled == buffer_offset + room_size
     IN  /\ hash_buffer' = Copied(buffer_offset, data, room_size)
         /\ data' = RemovePrefix(data, room_size)
         /\ total_bytes' = total_bytes + room_size
         /\ context' = IF filled = BlockSize THEN context \o hash_buffer' ELSE context
         /\ buffer_offset' = IF filled = BlockSize THEN 0 ELSE filled
  /\ UNCHANGED <<rest, finalizing, digest>>

\* "Process remaining data in chunks"
Chunk ==
  /\ pc = "chunk"
  /\ Len(data) >= BlockSize
  /\ total_bytes' = total_bytes + BlockSize
  /\ context' = context \o SubSeq(data, 1, BlockSize)
  /\ data' = RemovePrefix(data, BlockSize)
  /\ UNCHANGED <<hash_buffer, buffer_offset, rest, pc, finalizing, digest>>

\* MUTANT of Leftover: it is kept even if a chunk is left.
LeftoverAlways ==
  /\ pc = "chunk"
  /\ data # <<>>
  /\ hash_buffer' = Copied(0, data, Len(data))
  /\ buffer_offset' = Len(data)
  /\ total_bytes' = total_bytes + Len(data)
  /\ data' = <<>>
  /\ pc' = "done"
  /\ UNCHANGED <<context, rest, finalizing, digest>>

\* "Accumulate leftover in buffer"
Leftover ==
  /\ pc = "chunk"
  /\ Len(data) < BlockSize
  /\ IF data # <<>>
       THEN /\ hash_buffer' = Copied(0, data, Len(data))
            /\ buffer_offset' = Len(data)
            /\ total_bytes' = total_bytes + Len(data)
            /\ data' = <<>>
       ELSE UNCHANGED <<hash_buffer, buffer_offset, total_bytes, data>>
  /\ pc' = "done"
  /\ UNCHANGED <<context, rest, finalizing, digest>>

UpdateReturns ==
  /\ pc = "done" /\ ~finalizing
  /\ pc' = "idle"
  /\ UNCHANGED <<context, hash_buffer, buffer_offset, total_bytes, data, rest, finalizing, digest>>

-----------------------------------------------------------------------------
(* finalize(): two updates, of the padding and of the length field         *)

SizeDesc ==
  LET Significance(i) == IF LittleEndian THEN i - 1 ELSE LengthSize - i
  IN  [i \in 1 .. LengthSize |-> ((8 * total_bytes) \div 256 ^ Significance(i)) % 256]

\* MUTANT of PadSize: 1 + (k % BlockSize) with k off by one.
PadSizeShort ==
  1 + ((2 * BlockSize - LengthSize - 2 - (total_bytes % BlockSize)) % BlockSize)

\* 119 = 2 * 64 - 8 - 1 and 239 = 2 * 128 - 16 - 1 in the source.
PadSize ==
  1 + ((2 * BlockSize - LengthSize - 1 - (total_bytes % BlockSize)) % BlockSize)

Finalize ==
  /\ pc = "idle"
  /\ total_bytes <= MaxTotal
  /\ data' = [i \in 1 .. PadSize |-> IF i = 1 THEN 128 ELSE 0]
  /\ rest' = SizeDesc
  /\ pc' = "fill"
  /\ finalizing' = TRUE
  /\ UNCHANGED <<context, hash_buffer, buffer_offset, total_bytes, digest>>

FinalizeLength ==
  /\ pc = "done" /\ finalizing
  /\ rest # <<>>
  /\ data' = rest
  /\ rest' = <<>>
  /\ pc' = "fill"
  /\ UNCHANGED <<context, hash_buffer, buffer_offset, total_bytes, finalizing, digest>>

\* The words of the context are the digest.
FinalizeReturns ==
  /\ pc = "done" /\ finalizing
  /\ rest = <<>>
  /\ digest' = context
  /\ finalizing' = FALSE
  /\ pc' = "idle"
  /\ UNCHANGED <<context, hash_buffer, buffer_offset, total_bytes, data, rest>>

-----------------------------------------------------------------------------
\* Every byte of a message is told by its place, so that none can be lost, repeated
\* or moved unseen.
Inputs == {[i \in 1 .. n |-> (total_bytes + i) % 256] : n \in 0 .. MaxUpdate}

HasherNext ==
  \/ Reset
  \/ \E d \in Inputs : Update(d)
  \/ Fill \/ Chunk \/ Leftover \/ UpdateReturns
  \/ Finalize \/ FinalizeLength \/ FinalizeReturns

HasherSpec == HasherInit /\ [][HasherNext]_hasherVars

-----------------------------------------------------------------------------
(* Properties                                                              *)

\* Every member holds a value of its type; the offset never leaves the buffer.
HasherTypeOK ==
  /\ context \in Seq(Byte) /\ data \in Seq(Byte) /\ rest \in Seq(Byte) /\ digest \in Seq(Byte)
  /\ hash_buffer \in [1 .. BlockSize -> Byte]
  /\ buffer_offset \in 0 .. BlockSize /\ total_bytes \in Nat
  /\ pc \in {"idle", "fill", "chunk", "done"}
  /\ finalizing \in BOOLEAN

\* total_bytes_ counts what the context and the buffer hold, and the buffer is never
\* left full, through every split of the input (hasher.cpp:14-38).
Accounting ==
  /\ total_bytes = Len(context) + buffer_offset
  /\ buffer_offset < BlockSize

\* The bytes given so far, in order: transformed, in the buffer, still to be consumed.
Message == context \o SubSeq(hash_buffer, 1, buffer_offset) \o data \o rest

\* The hasher computes the digest of the padded message, however it was split, reset or
\* finalized before (hasher.cpp:12-39; finalize of Sha1, Sha256, Sha512, Ripemd160).
Abstract == INSTANCE Digest WITH
  message <- Message,
  digest <- IF finalizing THEN Message ELSE digest

DigestOfMessage == Abstract!Spec
=============================================================================
