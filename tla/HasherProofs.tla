---------------------------- MODULE HasherProofs ----------------------------
(***************************************************************************)
(* Proofs about the hashers, for every block size, length field and        *)
(* message: Hasher and its refinement of Digest, the older SHA-256 with    *)
(* its own buffer (OldHasher), and the hashes made of other hashes         *)
(* (CompositeHash).                                                        *)
(*                                                                         *)
(* Accounting is not inductive: Leftover overwrites the buffer from its    *)
(* start, which loses nothing only because Fill leaves the buffer empty    *)
(* whenever it leaves input behind.  EmptyWhenLeft says so.                *)
(***************************************************************************)
EXTENDS Hasher, Digests, SequenceTheorems, TLAPS

\* What is left after Fill finds an empty buffer.
EmptyWhenLeft == pc = "chunk" /\ data # <<>> => buffer_offset = 0

IInv == HasherTypeOK /\ Accounting /\ EmptyWhenLeft

\* Removing a prefix leaves a sequence with that many elements less.
LEMMA PrefixRemoved ==
  ASSUME NEW s \in Seq(Byte), NEW n \in 0 .. Len(s)
  PROVE  /\ RemovePrefix(s, n) \in Seq(Byte)
         /\ Len(RemovePrefix(s, n)) = Len(s) - n
<1>1. n + 1 \in 1 .. Len(s) + 1 /\ Len(s) \in Nat
  OBVIOUS
<1> QED
  BY <1>1, SubSeqProperties DEF RemovePrefix

\* The length of a concatenation.
LEMMA Concatenated ==
  ASSUME NEW s \in Seq(Byte), NEW t \in Seq(Byte)
  PROVE  s \o t \in Seq(Byte) /\ Len(s \o t) = Len(s) + Len(t)
  BY ConcatProperties

\* A copy within the bounds of the buffer leaves a buffer of bytes.
LEMMA CopyTyped ==
  ASSUME HasherTypeOK, NEW s \in Seq(Byte), NEW at \in Nat, NEW n \in 0 .. Len(s)
  PROVE  Copied(at, s, n) \in [1 .. BlockSize -> Byte]
<1> SUFFICES ASSUME NEW i \in 1 .. BlockSize
             PROVE  (IF at < i /\ i <= at + n THEN s[i - at] ELSE hash_buffer[i]) \in Byte
  BY DEF Copied
<1>1. hash_buffer[i] \in Byte
  BY DEF HasherTypeOK
<1>2. ASSUME at < i, i <= at + n
      PROVE  s[i - at] \in Byte
  <2>1. i - at \in 1 .. Len(s)
    BY <1>2, HasherAssumption
  <2> QED
    BY <2>1
<1> QED
  BY <1>1, <1>2

\* The buffer is a sequence of BlockSize bytes.
LEMMA BufferIsBlock ==
  ASSUME NEW b \in [1 .. BlockSize -> Byte]
  PROVE  b \in Seq(Byte) /\ Len(b) = BlockSize
  BY HasherAssumption

\* The bytes of the length field are bytes.
LEMMA LengthFieldTyped ==
  ASSUME HasherTypeOK
  PROVE  SizeDesc \in Seq(Byte)
<1> DEFINE Byte_(i) ==
      ((8 * total_bytes) \div 256 ^ (IF LittleEndian THEN i - 1 ELSE LengthSize - i)) % 256
<1>1. ASSUME NEW i \in 1 .. LengthSize PROVE Byte_(i) \in Byte
  <2>1. (IF LittleEndian THEN i - 1 ELSE LengthSize - i) \in Nat
    BY HasherAssumption
  <2> DEFINE e == IF LittleEndian THEN i - 1 ELSE LengthSize - i
  <2>2. ASSUME NEW k \in Nat PROVE ((8 * total_bytes) \div 256 ^ k) % 256 \in Byte
    BY DEF HasherTypeOK, Byte
  <2> QED
    BY <2>1, <2>2
<1> QED
  BY <1>1, HasherAssumption DEF SizeDesc

\* The padding is a sequence of bytes.
LEMMA PaddingTyped ==
  ASSUME HasherTypeOK
  PROVE  [i \in 1 .. PadSize |-> IF i = 1 THEN 128 ELSE 0] \in Seq(Byte)
<1>1. total_bytes % BlockSize \in 0 .. BlockSize - 1
  BY HasherAssumption DEF HasherTypeOK
<1>2. PadSize \in Nat
  <2> DEFINE m == total_bytes % BlockSize
  <2>1. 2 * BlockSize - LengthSize - 1 - m \in Nat
    BY <1>1, HasherAssumption
  <2> QED
    BY <2>1, HasherAssumption DEF PadSize
<1> QED
  BY <1>2 DEF Byte

LEMMA InvInit == HasherInit => IInv
<1> SUFFICES ASSUME HasherInit PROVE IInv
  OBVIOUS
<1>1. BlockSize \in Nat /\ BlockSize > 0
  BY HasherAssumption
<1>2. [i \in 1 .. BlockSize |-> 0] \in [1 .. BlockSize -> Byte]
  BY DEF Byte
<1>3. <<>> \in Seq(Byte) /\ Len(<<>>) = 0
  OBVIOUS
<1>4. HasherTypeOK
  <2>1. hash_buffer \in [1 .. BlockSize -> Byte]
    BY <1>2, Zenon DEF HasherInit
  <2>2. /\ context \in Seq(Byte) /\ data \in Seq(Byte) /\ rest \in Seq(Byte) /\ digest \in Seq(Byte)
        /\ pc \in {"idle", "fill", "chunk", "done"} /\ finalizing \in BOOLEAN
    BY <1>3, Zenon DEF HasherInit
  <2>3. buffer_offset \in 0 .. BlockSize /\ total_bytes \in Nat
    BY <1>1 DEF HasherInit
  <2> QED
    BY <2>1, <2>2, <2>3 DEF HasherTypeOK
<1>5. Accounting /\ EmptyWhenLeft
  BY <1>1, <1>3 DEF HasherInit, Accounting, EmptyWhenLeft
<1> QED
  BY <1>4, <1>5 DEF IInv

\* The fill: nothing is left unless the buffer was flushed.
LEMMA FillKeeps == IInv /\ Fill => IInv'
<1> SUFFICES ASSUME IInv, Fill PROVE IInv'
  OBVIOUS
<1>1. /\ data \in Seq(Byte) /\ context \in Seq(Byte) /\ Len(data) \in Nat
      /\ buffer_offset \in Nat /\ buffer_offset < BlockSize /\ total_bytes \in Nat
      /\ total_bytes = Len(context) + buffer_offset /\ Len(context) \in Nat
      /\ BlockSize \in Nat /\ BlockSize > 0
  BY HasherAssumption DEF IInv, HasherTypeOK, Accounting
<1>2. PICK room : room = IF buffer_offset = 0 THEN 0
                         ELSE Least(BlockSize - buffer_offset, Len(data))
  OBVIOUS
<1>3. /\ room \in 0 .. Len(data)
      /\ buffer_offset + room <= BlockSize
      /\ room < Len(data) => buffer_offset + room = BlockSize \/ buffer_offset + room = 0
  BY <1>1, <1>2 DEF Least
<1>4. /\ hash_buffer' = Copied(buffer_offset, data, room)
      /\ data' = RemovePrefix(data, room)
      /\ total_bytes' = total_bytes + room
      /\ context' = (IF buffer_offset + room = BlockSize THEN context \o hash_buffer' ELSE context)
      /\ buffer_offset' = (IF buffer_offset + room = BlockSize THEN 0 ELSE buffer_offset + room)
      /\ pc' = "chunk" /\ UNCHANGED <<rest, finalizing, digest>>
  BY <1>2, Zenon DEF Fill
<1>5. hash_buffer' \in [1 .. BlockSize -> Byte]
  BY <1>1, <1>3, <1>4, CopyTyped DEF IInv
<1>6. data' \in Seq(Byte) /\ Len(data') = Len(data) - room
  BY <1>1, <1>3, <1>4, PrefixRemoved
<1>7. data' # <<>> => room < Len(data)
  BY <1>1, <1>3, <1>6
<1>8. rest \in Seq(Byte) /\ digest \in Seq(Byte) /\ finalizing \in BOOLEAN
  BY DEF IInv, HasherTypeOK
<1>9. CASE buffer_offset + room = BlockSize
  <2>1. context' = context \o hash_buffer' /\ buffer_offset' = 0
    BY <1>4, <1>9
  <2>2. hash_buffer' \in Seq(Byte) /\ Len(hash_buffer') = BlockSize
    BY <1>5, BufferIsBlock
  <2>3. context' \in Seq(Byte) /\ Len(context') = Len(context) + BlockSize
    BY <1>1, <2>1, <2>2, Concatenated
  <2>4. HasherTypeOK'
    BY <1>1, <1>3, <1>4, <1>5, <1>6, <1>8, <2>1, <2>3 DEF HasherTypeOK
  <2>5. total_bytes + room = Len(context) + BlockSize
    BY <1>1, <1>3, <1>9
  <2>6. Accounting'
    BY <1>1, <1>4, <2>1, <2>3, <2>5 DEF Accounting
  <2> QED
    BY <2>1, <2>4, <2>6 DEF IInv, EmptyWhenLeft
<1>10. CASE buffer_offset + room # BlockSize
  <2>1. context' = context /\ buffer_offset' = buffer_offset + room
    BY <1>4, <1>10
  <2>2. HasherTypeOK'
    BY <1>1, <1>3, <1>4, <1>5, <1>6, <1>8, <2>1 DEF HasherTypeOK
  <2>3. Accounting'
    BY <1>1, <1>3, <1>4, <1>10, <2>1 DEF Accounting
  <2>4. EmptyWhenLeft'
    BY <1>3, <1>7, <1>10, <2>1 DEF EmptyWhenLeft
  <2> QED
    BY <2>2, <2>3, <2>4 DEF IInv
<1> QED
  BY <1>9, <1>10

\* A chunk: the context grows by what is counted, and the buffer stays empty.
LEMMA ChunkKeeps == IInv /\ Chunk => IInv'
<1> SUFFICES ASSUME IInv, Chunk PROVE IInv'
  OBVIOUS
<1>1. /\ data \in Seq(Byte) /\ context \in Seq(Byte) /\ BlockSize \in Nat /\ BlockSize > 0
      /\ Len(data) >= BlockSize /\ pc = "chunk" /\ total_bytes \in Nat
      /\ context' = context \o SubSeq(data, 1, BlockSize)
      /\ data' = RemovePrefix(data, BlockSize)
      /\ total_bytes' = total_bytes + BlockSize
      /\ UNCHANGED <<hash_buffer, buffer_offset, rest, pc, finalizing, digest>>
  BY HasherAssumption DEF IInv, HasherTypeOK, Chunk
<1>2. SubSeq(data, 1, BlockSize) \in Seq(Byte) /\ Len(SubSeq(data, 1, BlockSize)) = BlockSize
  <2>1. 1 \in 1 .. Len(data) + 1 /\ BlockSize \in 0 .. Len(data)
    BY <1>1
  <2> QED
    BY <1>1, <2>1, SubSeqProperties
<1>3. context' \in Seq(Byte) /\ Len(context') = Len(context) + BlockSize
  BY <1>1, <1>2
<1>4. data' \in Seq(Byte)
  BY <1>1, PrefixRemoved
<1>5. HasherTypeOK'
  BY <1>1, <1>3, <1>4 DEF IInv, HasherTypeOK
<1>6. buffer_offset = 0
  <2>1. data # <<>>
    BY <1>1
  <2> QED
    BY <2>1, <1>1 DEF IInv, EmptyWhenLeft
<1> QED
  BY <1>1, <1>3, <1>5, <1>6 DEF IInv, Accounting, EmptyWhenLeft

\* The leftover: it overwrites an empty buffer.
LEMMA LeftoverKeeps == IInv /\ Leftover => IInv'
<1> SUFFICES ASSUME IInv, Leftover PROVE IInv'
  OBVIOUS
<1>1. /\ data \in Seq(Byte) /\ BlockSize \in Nat /\ Len(data) < BlockSize /\ Len(data) \in Nat
      /\ pc = "chunk" /\ pc' = "done" /\ context \in Seq(Byte) /\ total_bytes \in Nat
      /\ UNCHANGED <<context, rest, finalizing, digest>>
  BY HasherAssumption DEF IInv, HasherTypeOK, Leftover
<1>2. CASE data = <<>>
  <2>1. UNCHANGED <<hash_buffer, buffer_offset, total_bytes, data>>
    BY <1>2 DEF Leftover
  <2> QED
    BY <1>1, <2>1 DEF IInv, HasherTypeOK, Accounting, EmptyWhenLeft
<1>3. CASE data # <<>>
  <2>1. /\ hash_buffer' = Copied(0, data, Len(data)) /\ buffer_offset' = Len(data)
        /\ total_bytes' = total_bytes + Len(data) /\ data' = <<>>
    BY <1>3 DEF Leftover
  <2>2. hash_buffer' \in [1 .. BlockSize -> Byte]
    BY <1>1, <2>1, CopyTyped DEF IInv
  <2>3. buffer_offset = 0
    BY <1>1, <1>3 DEF IInv, EmptyWhenLeft
  <2>4. HasherTypeOK'
    BY <1>1, <2>1, <2>2 DEF IInv, HasherTypeOK
  <2> QED
    BY <1>1, <2>1, <2>3, <2>4 DEF IInv, Accounting, EmptyWhenLeft
<1> QED
  BY <1>2, <1>3

LEMMA InvNext == IInv /\ [HasherNext]_hasherVars => IInv'
<1> SUFFICES ASSUME IInv, [HasherNext]_hasherVars PROVE IInv'
  OBVIOUS
<1>a. HasherAssumption
  BY HasherAssumption
<1>1. CASE Reset
  BY <1>1, <1>a DEF Reset, IInv, HasherTypeOK, Accounting, EmptyWhenLeft, HasherAssumption
<1>2. ASSUME NEW d \in Inputs, Update(d) PROVE IInv'
  <2>1. d \in Seq(Byte)
    <3>1. PICK n \in 0 .. MaxUpdate : d = [i \in 1 .. n |-> (total_bytes + i) % 256]
      BY DEF Inputs
    <3>2. ASSUME NEW i \in 1 .. n PROVE (total_bytes + i) % 256 \in Byte
      BY <1>a DEF HasherAssumption, IInv, HasherTypeOK, Byte
    <3> QED
      BY <3>1, <3>2, <1>a DEF HasherAssumption
  <2> QED
    BY <1>2, <2>1 DEF Update, IInv, HasherTypeOK, Accounting, EmptyWhenLeft
<1>3. CASE UpdateReturns
  BY <1>3 DEF UpdateReturns, IInv, HasherTypeOK, Accounting, EmptyWhenLeft
<1>4. CASE Finalize
  BY <1>4, PaddingTyped, LengthFieldTyped DEF Finalize, IInv, HasherTypeOK, Accounting, EmptyWhenLeft
<1>5. CASE FinalizeLength
  BY <1>5 DEF FinalizeLength, IInv, HasherTypeOK, Accounting, EmptyWhenLeft
<1>6. CASE FinalizeReturns
  BY <1>6 DEF FinalizeReturns, IInv, HasherTypeOK, Accounting, EmptyWhenLeft
<1>7. CASE UNCHANGED hasherVars
  BY <1>7 DEF hasherVars, IInv, HasherTypeOK, Accounting, EmptyWhenLeft
<1> QED
  BY <1>1, <1>2, <1>3, <1>4, <1>5, <1>6, <1>7, FillKeeps, ChunkKeeps, LeftoverKeeps DEF HasherNext

\* For every block size: total_bytes_ is what the context and the buffer hold, and the
\* buffer is never left full (hasher.cpp:14-38).
THEOREM AccountingHolds == HasherSpec => []Accounting
<1>1. IInv => Accounting
  BY DEF IInv
<1> QED
  BY InvInit, InvNext, <1>1, PTL DEF HasherSpec

\* For every block size: no copy goes past the end of buffer_ (hasher.cpp:15-18, 35-36).
THEOREM TypeCorrect == HasherSpec => []HasherTypeOK
<1>1. IInv => HasherTypeOK
  BY DEF IInv
<1> QED
  BY InvInit, InvNext, <1>1, PTL DEF HasherSpec

-----------------------------------------------------------------------------
(* Numbers of whole blocks of b bytes.                                     *)

Whole(n, b) == \E q \in Nat : n = q * b

\* Products grow by a factor at a time.
LEMMA ProductStep ==
  ASSUME NEW p \in Int, NEW q \in Int, NEW b \in Nat, p < q
  PROVE  p * b + b <= q * b
<1>1. (q - p) * b = q * b - p * b
  OBVIOUS
<1>2. (q - p - 1) * b >= 0
  OBVIOUS
<1>3. (q - p - 1) * b = (q - p) * b - b
  OBVIOUS
<1> QED
  BY <1>1, <1>2, <1>3

\* Division by a positive number.
LEMMA Divided ==
  ASSUME NEW n \in Nat, NEW b \in Nat, b > 0
  PROVE  n \div b \in Nat /\ n % b \in 0 .. b - 1 /\ n = (n \div b) * b + (n % b)
  OBVIOUS

\* There is one remainder.
LEMMA OneRemainder ==
  ASSUME NEW b \in Nat, NEW p \in Nat, NEW q \in Nat, NEW r \in 0 .. b - 1, NEW s \in 0 .. b - 1,
         p * b + r = q * b + s
  PROVE  r = s
<1>1. p * b \in Nat /\ q * b \in Nat
  OBVIOUS
<1>2. CASE p < q
  BY <1>1, <1>2, ProductStep
<1>3. CASE q < p
  BY <1>1, <1>3, ProductStep
<1> QED
  BY <1>1, <1>2, <1>3

\* Whole blocks leave no remainder.
LEMMA WholeIs ==
  ASSUME NEW n \in Nat, NEW b \in Nat, b > 0
  PROVE  Whole(n, b) <=> n % b = 0
<1>1. n \div b \in Nat /\ n % b \in 0 .. b - 1 /\ n = (n \div b) * b + (n % b)
  BY Divided
<1>2. ASSUME n % b = 0 PROVE Whole(n, b)
  BY <1>1, <1>2 DEF Whole
<1>3. ASSUME NEW q \in Nat, n = q * b PROVE n % b = 0
  <2>1. 0 \in 0 .. b - 1 /\ q * b + 0 = (n \div b) * b + (n % b)
    BY <1>1, <1>3
  <2> QED
    BY <2>1, <1>1, OneRemainder
<1> QED
  BY <1>2, <1>3 DEF Whole

\* Two numbers of whole blocks less than a block apart are the same.
LEMMA WholeApart ==
  ASSUME NEW n \in Nat, NEW b \in Nat, NEW r \in 0 .. b - 1, Whole(n, b), Whole(n + r, b)
  PROVE  r = 0
<1>1. PICK p \in Nat : n = p * b
  BY DEF Whole
<1>2. PICK q \in Nat : n + r = q * b
  BY DEF Whole
<1>3. 0 \in 0 .. b - 1 /\ p * b + r = q * b + 0
  BY <1>1, <1>2
<1> QED
  BY <1>3, OneRemainder

\* Whole blocks and whole blocks are whole blocks.
LEMMA WholeSum ==
  ASSUME NEW n \in Nat, NEW m \in Nat, NEW b \in Nat, Whole(n, b), Whole(m, b)
  PROVE  Whole(n + m, b)
<1>1. PICK p \in Nat : n = p * b
  BY DEF Whole
<1>2. PICK q \in Nat : m = q * b
  BY DEF Whole
<1>3. n + m = (p + q) * b /\ p + q \in Nat
  BY <1>1, <1>2
<1> QED
  BY <1>3 DEF Whole

\* No blocks, and one.
LEMMA WholeNumbers ==
  ASSUME NEW b \in Nat
  PROVE  Whole(0, b) /\ Whole(b, b)
<1>1. 0 = 0 * b /\ b = 1 * b
  OBVIOUS
<1> QED
  BY <1>1 DEF Whole

\* No two counts of zeros below b end a message of n bytes and l of its length at the same
\* block.
LEMMA OneCount ==
  ASSUME NEW n \in Nat, NEW b \in Nat, NEW l \in Nat, NEW k \in 0 .. b - 1,
         Whole(n + 1 + k + l, b)
  PROVE  k = CHOOSE z \in 0 .. b - 1 : (n + 1 + z + l) % b = 0
<1> DEFINE Fits(z) == (n + 1 + z + l) % b = 0
<1>1. ASSUME NEW z \in 0 .. b - 1
      PROVE  n + 1 + z + l \in Nat /\ (Whole(n + 1 + z + l, b) <=> Fits(z))
  <2>1. n + 1 + z + l \in Nat /\ b > 0
    OBVIOUS
  <2> QED
    BY <2>1, WholeIs
<1> HIDE DEF Fits
<1>2. ASSUME NEW y \in 0 .. b - 1, NEW z \in 0 .. b - 1, Fits(y), Fits(z), y <= z
      PROVE  y = z
  <2>1. Whole(n + 1 + y + l, b) /\ Whole(n + 1 + z + l, b) /\ n + 1 + y + l \in Nat
    BY <1>1, <1>2
  <2>2. n + 1 + z + l = (n + 1 + y + l) + (z - y) /\ z - y \in 0 .. b - 1
    BY <1>2
  <2>3. z - y = 0
    BY <2>1, <2>2, WholeApart
  <2> QED
    BY <2>3
<1>3. Fits(k)
  BY <1>1
<1>4. \A z \in 0 .. b - 1 : Fits(z) => z = k
  <2> SUFFICES ASSUME NEW z \in 0 .. b - 1, Fits(z) PROVE z = k
    OBVIOUS
  <2>1. z <= k \/ k <= z
    OBVIOUS
  <2> QED
    BY <2>1, <1>2, <1>3
<1>5. k = CHOOSE z \in 0 .. b - 1 : Fits(z)
  BY <1>3, <1>4
<1> QED
  BY <1>5 DEF Fits

\* 1 + (2 * b - l - 1 - n % b) % b bytes between a message of n bytes and its length field
\* of l are the mark and the fewest zeros that fill the last block.
LEMMA FewestZeros ==
  ASSUME NEW n \in Nat, NEW b \in Nat, NEW l \in Nat, l + 1 < b
  PROVE  LET k == (2 * b - l - 1 - (n % b)) % b
         IN  /\ k \in 0 .. b - 1 /\ Whole(n + 1 + k + l, b)
             /\ k = CHOOSE z \in 0 .. b - 1 : (n + 1 + z + l) % b = 0
<1> DEFINE m == n % b
           room == 2 * b - l - 1 - m
           k == room % b
<1>1. n \div b \in Nat /\ m \in 0 .. b - 1 /\ n = (n \div b) * b + m
  BY Divided
<1>2. PICK q \in Nat : n = q * b + m
  BY <1>1
<1> HIDE DEF m
<1>3. room \in Nat
  BY <1>1
<1>4. k \in 0 .. b - 1 /\ room \div b \in Nat /\ room = (room \div b) * b + k
  BY <1>3, Divided
<1>5. PICK p \in Nat : room = p * b + k
  BY <1>4
<1> HIDE DEF k
<1>6. Whole(n + 1 + k + l, b)
  <2>1. n + 1 + k + l = q * b + 2 * b - p * b
    BY <1>2, <1>4, <1>5, <1>1
  <2>2. p < 2
    <3>1. CASE 1 < p
      BY <3>1, <1>5, <1>4, <1>1, ProductStep
    <3> QED
      BY <3>1
  <2>3. n + 1 + k + l = (q + 2 - p) * b /\ q + 2 - p \in Nat
    BY <2>1, <2>2
  <2> QED
    BY <2>3 DEF Whole
<1>7. k = CHOOSE z \in 0 .. b - 1 : (n + 1 + z + l) % b = 0
  BY <1>4, <1>6, OneCount
<1>8. /\ k \in 0 .. b - 1 /\ Whole(n + 1 + k + l, b)
      /\ k = CHOOSE z \in 0 .. b - 1 : (n + 1 + z + l) % b = 0
  BY <1>4, <1>6, <1>7
<1> QED
  BY <1>8 DEF k, m

\* The padding of finalize() is the mark and the fewest zeros that fill the last block.
LEMMA PadSizeFits ==
  ASSUME HasherTypeOK
  PROVE  /\ PadSize = 1 + Abstract!ZeroCount(total_bytes)
         /\ Abstract!ZeroCount(total_bytes) \in 0 .. BlockSize - 1
         /\ Whole(total_bytes + PadSize + LengthSize, BlockSize)
<1> DEFINE k == (2 * BlockSize - LengthSize - 1 - (total_bytes % BlockSize)) % BlockSize
<1>1. BlockSize \in Nat /\ LengthSize \in Nat /\ LengthSize + 1 < BlockSize /\ total_bytes \in Nat
  BY HasherAssumption DEF HasherTypeOK
<1>2. /\ k \in 0 .. BlockSize - 1 /\ Whole(total_bytes + 1 + k + LengthSize, BlockSize)
      /\ k = Abstract!ZeroCount(total_bytes)
  BY <1>1, FewestZeros DEF Abstract!ZeroCount
<1>3. PadSize = 1 + k
  BY DEF PadSize
<1> HIDE DEF k
<1>4. total_bytes + PadSize + LengthSize = total_bytes + 1 + k + LengthSize
  BY <1>1, <1>2, <1>3
<1> QED
  BY <1>2, <1>3, <1>4

-----------------------------------------------------------------------------
(* The bytes of the message.                                               *)

\* What the buffer holds, and a message of four parts.
Held == SubSeq(hash_buffer, 1, buffer_offset)
Joined(c, h, d, r) == c \o h \o d \o r

\* A sequence is its first n elements and the rest.
LEMMA Cut ==
  ASSUME NEW s \in Seq(Byte), NEW n \in 0 .. Len(s)
  PROVE  SubSeq(s, 1, n) \in Seq(Byte) /\ Len(SubSeq(s, 1, n)) = n
         /\ RemovePrefix(s, n) \in Seq(Byte) /\ s = SubSeq(s, 1, n) \o RemovePrefix(s, n)
<1> DEFINE t == SubSeq(s, 1, n)
           u == RemovePrefix(s, n)
<1>1. t \in Seq(Byte) /\ Len(t) = n /\ \A i \in 1 .. n : t[i] = s[i]
  <2>1. n \in Nat /\ \A i \in 1 .. n : s[i] \in Byte
    OBVIOUS
  <2> QED
    BY <2>1, SubSeqProperties
<1>2. u \in Seq(Byte) /\ Len(u) = Len(s) - n
  BY PrefixRemoved
<1>3. \A i \in 1 .. Len(s) - n : u[i] = s[n + i]
  <2>1. n + 1 \in Int /\ Len(s) \in Int /\ \A i \in (n + 1) .. Len(s) : s[i] \in Byte
    OBVIOUS
  <2>2. \A i \in 1 .. Len(s) - (n + 1) + 1 : u[i] = s[(n + 1) + i - 1]
    BY <2>1, SubSeqProperties DEF RemovePrefix
  <2> QED
    BY <2>2
<1> HIDE DEF t, u
<1>4. /\ t \o u \in Seq(Byte) /\ Len(t \o u) = Len(s)
      /\ \A i \in 1 .. Len(s) : (t \o u)[i] = IF i <= n THEN t[i] ELSE u[i - n]
  BY <1>1, <1>2, ConcatProperties
<1>5. \A i \in 1 .. Len(s) : (t \o u)[i] = s[i]
  <2> TAKE i \in 1 .. Len(s)
  <2>1. CASE i <= n
    BY <2>1, <1>1, <1>4
  <2>2. CASE ~(i <= n)
    <3>1. i - n \in 1 .. Len(s) - n /\ n + (i - n) = i
      BY <2>2
    <3> QED
      BY <2>2, <3>1, <1>3, <1>4
  <2> QED
    BY <2>1, <2>2
<1>6. s = t \o u
  BY <1>4, <1>5, SeqEqual
<1> QED
  BY <1>1, <1>2, <1>6 DEF t, u

\* The first bytes of a buffer of size bytes.
LEMMA FrontOf ==
  ASSUME NEW size \in Nat, NEW b \in [1 .. size -> Byte], NEW n \in 0 .. size
  PROVE  /\ SubSeq(b, 1, n) \in Seq(Byte) /\ Len(SubSeq(b, 1, n)) = n
         /\ \A i \in 1 .. n : SubSeq(b, 1, n)[i] = b[i]
<1>1. n \in Nat /\ \A i \in 1 .. n : b[i] \in Byte
  OBVIOUS
<1> QED
  BY <1>1, SubSeqProperties

\* After a copy the buffer holds what it held and the bytes copied.
LEMMA CopyAppends ==
  ASSUME HasherTypeOK, NEW s \in Seq(Byte), NEW n \in 0 .. Len(s), buffer_offset + n <= BlockSize
  PROVE  SubSeq(Copied(buffer_offset, s, n), 1, buffer_offset + n) = Held \o SubSeq(s, 1, n)
<1> DEFINE at == buffer_offset
           c == Copied(at, s, n)
           x == SubSeq(c, 1, at + n)
           t == SubSeq(s, 1, n)
<1>b. BlockSize \in Nat /\ at \in 0 .. BlockSize /\ at + n \in 0 .. BlockSize /\ n \in Nat
        /\ at \in Nat
  BY HasherAssumption DEF HasherTypeOK
<1>1. c \in [1 .. BlockSize -> Byte]
  BY <1>b, CopyTyped
<1>2. \A i \in 1 .. BlockSize : c[i] = IF at < i /\ i <= at + n THEN s[i - at] ELSE hash_buffer[i]
  BY DEF Copied
<1> HIDE DEF c
<1>3. x \in Seq(Byte) /\ Len(x) = at + n /\ \A i \in 1 .. at + n : x[i] = c[i]
  BY <1>1, <1>b, FrontOf
<1>4. Held \in Seq(Byte) /\ Len(Held) = at /\ \A i \in 1 .. at : Held[i] = hash_buffer[i]
  BY <1>b, FrontOf DEF HasherTypeOK, Held
<1>5. t \in Seq(Byte) /\ Len(t) = n /\ \A i \in 1 .. n : t[i] = s[i]
  <2>1. \A i \in 1 .. n : s[i] \in Byte
    OBVIOUS
  <2> QED
    BY <1>b, <2>1, SubSeqProperties
<1> HIDE DEF at, t, x
<1>6. /\ Held \o t \in Seq(Byte) /\ Len(Held \o t) = at + n
      /\ \A i \in 1 .. at + n : (Held \o t)[i] = IF i <= at THEN Held[i] ELSE t[i - at]
  BY <1>4, <1>5, ConcatProperties
<1>7. \A i \in 1 .. at + n : x[i] = (Held \o t)[i]
  <2> TAKE i \in 1 .. at + n
  <2>1. i \in 1 .. BlockSize
    BY <1>b
  <2>2. x[i] = c[i] /\ (Held \o t)[i] = (IF i <= at THEN Held[i] ELSE t[i - at])
    BY <1>3, <1>6
  <2>3. CASE i <= at
    <3>1. c[i] = hash_buffer[i]
      BY <2>1, <2>3, <1>2, <1>b
    <3>2. Held[i] = hash_buffer[i]
      BY <2>1, <2>3, <1>4, <1>b
    <3> QED
      BY <2>2, <2>3, <3>1, <3>2
  <2>4. CASE ~(i <= at)
    <3>1. i - at \in 1 .. n /\ at < i /\ i <= at + n
      BY <2>4, <1>b
    <3>2. c[i] = s[i - at]
      BY <2>1, <3>1, <1>2
    <3>3. t[i - at] = s[i - at]
      BY <3>1, <1>5
    <3> QED
      BY <2>2, <2>4, <3>2, <3>3
  <2> QED
    BY <2>3, <2>4
<1> QED
  BY <1>3, <1>6, <1>7, SeqEqual DEF at, t, x, c

-----------------------------------------------------------------------------
(* The refinement. finalize() ends with an empty buffer because the padded *)
(* message and the context are whole blocks; when update() or finalize()   *)
(* is not under way nothing is left of their input.                        *)

RefInv ==
  /\ IInv
  /\ Whole(Len(context), BlockSize)
  /\ pc \in {"idle", "done"} => data = <<>>
  /\ ~finalizing => rest = <<>>
  /\ pc = "idle" => ~finalizing
  /\ finalizing => Whole(Len(Message), BlockSize)

\* The parts of the message and their lengths.
LEMMA MessageParts ==
  ASSUME HasherTypeOK
  PROVE  /\ Held \in Seq(Byte) /\ Len(Held) = buffer_offset
         /\ Message \in Seq(Byte) /\ Message = Joined(context, Held, data, rest)
         /\ Len(Message) = Len(context) + buffer_offset + Len(data) + Len(rest)
<1>1. context \in Seq(Byte) /\ data \in Seq(Byte) /\ rest \in Seq(Byte)
  BY DEF HasherTypeOK
<1>2. Held \in Seq(Byte) /\ Len(Held) = buffer_offset
  BY FrontOf, HasherAssumption DEF HasherTypeOK, Held
<1>3. context \o Held \in Seq(Byte) /\ Len(context \o Held) = Len(context) + buffer_offset
  BY <1>1, <1>2, Concatenated
<1>4. /\ context \o Held \o data \in Seq(Byte)
      /\ Len(context \o Held \o data) = Len(context) + buffer_offset + Len(data)
  BY <1>1, <1>3, Concatenated
<1>5. /\ context \o Held \o data \o rest \in Seq(Byte)
      /\ Len(context \o Held \o data \o rest) = Len(context) + buffer_offset + Len(data) + Len(rest)
  BY <1>1, <1>4, Concatenated
<1> QED
  BY <1>2, <1>5 DEF Message, Held, Joined

\* Bytes that move from the input to the buffer, or with it to the context, leave the
\* message as it is.
LEMMA Moved ==
  ASSUME NEW c \in Seq(Byte), NEW h \in Seq(Byte), NEW s \in Seq(Byte), NEW u \in Seq(Byte),
         NEW r \in Seq(Byte)
  PROVE  /\ Joined(c, h, s \o u, r) = Joined(c, h \o s, u, r)
         /\ Joined(c, h, s \o u, r) = Joined(c \o (h \o s), <<>>, u, r)
<1>1. c \o h \in Seq(Byte) /\ h \o s \in Seq(Byte) /\ c \o (h \o s) \in Seq(Byte)
  BY Concatenated
<1>2. (c \o h) \o (s \o u) = ((c \o h) \o s) \o u
  BY <1>1, SMTT(60)
<1>3. (c \o h) \o s = c \o (h \o s)
  BY SMTT(60)
<1>4. (c \o (h \o s)) \o <<>> = c \o (h \o s)
  BY <1>1
<1> QED
  BY <1>2, <1>3, <1>4 DEF Joined

\* Filling the buffer, and a full one hashed, leaves the message as it is.
LEMMA FillMessage ==
  ASSUME RefInv, Fill
  PROVE  Message' = Message /\ Whole(Len(context'), BlockSize)
<1>i. IInv /\ HasherTypeOK /\ IInv' /\ HasherTypeOK' /\ Whole(Len(context), BlockSize)
  BY FillKeeps DEF IInv, RefInv
<1>1. /\ data \in Seq(Byte) /\ context \in Seq(Byte) /\ rest \in Seq(Byte) /\ Len(data) \in Nat
      /\ buffer_offset \in Nat /\ buffer_offset < BlockSize /\ BlockSize \in Nat /\ BlockSize > 0
      /\ Len(context) \in Nat
  BY HasherAssumption, <1>i DEF HasherTypeOK, IInv, Accounting
<1>2. PICK room : room = IF buffer_offset = 0 THEN 0
                         ELSE Least(BlockSize - buffer_offset, Len(data))
  OBVIOUS
<1>3. room \in 0 .. Len(data) /\ buffer_offset + room <= BlockSize
        /\ buffer_offset + room \in 0 .. BlockSize
  BY <1>1, <1>2 DEF Least
<1>4. /\ hash_buffer' = Copied(buffer_offset, data, room)
      /\ data' = RemovePrefix(data, room)
      /\ context' = (IF buffer_offset + room = BlockSize THEN context \o hash_buffer' ELSE context)
      /\ buffer_offset' = (IF buffer_offset + room = BlockSize THEN 0 ELSE buffer_offset + room)
      /\ rest' = rest
  BY <1>2, Zenon DEF Fill
<1> DEFINE s == SubSeq(data, 1, room)
           u == RemovePrefix(data, room)
<1>5. s \in Seq(Byte) /\ u \in Seq(Byte) /\ data = s \o u
  BY <1>1, <1>3, Cut
<1>6. SubSeq(hash_buffer', 1, buffer_offset + room) = Held \o s
  BY <1>1, <1>3, <1>4, <1>i, CopyAppends
<1> HIDE DEF s
<1>7. Held \in Seq(Byte) /\ Message = Joined(context, Held, s \o u, rest)
  BY <1>i, <1>5, MessageParts
<1>8. Message' = Joined(context', Held', u, rest)
  BY <1>4, <1>i DEF Message, Held, Joined
<1> HIDE DEF u
<1>9. CASE buffer_offset + room = BlockSize
  <2>1. hash_buffer' \in Seq(Byte) /\ Len(hash_buffer') = BlockSize
    BY <1>i, BufferIsBlock DEF HasherTypeOK
  <2>2. SubSeq(hash_buffer', 1, Len(hash_buffer')) = hash_buffer'
    BY <2>1, SubSeqFull
  <2>3. context' = context \o (Held \o s) /\ buffer_offset' = 0
    BY <1>4, <1>6, <1>9, <2>1, <2>2
  <2>4. Held' = <<>>
    <3>1. Held' = SubSeq(hash_buffer', 1, 0)
      BY <2>3 DEF Held
    <3> QED
      BY <3>1, SubSeqEmpty
  <2>5. Message' = Message
    <3>1. Joined(context, Held, s \o u, rest) = Joined(context \o (Held \o s), <<>>, u, rest)
      BY <1>1, <1>5, <1>7, Moved
    <3>2. Message' = Joined(context \o (Held \o s), <<>>, u, rest)
      BY <1>8, <2>3, <2>4, Zenon
    <3> QED
      BY <1>7, <3>1, <3>2, Zenon
  <2>6. Len(context') = Len(context) + BlockSize
    <3>1. context' = context \o hash_buffer'
      BY <1>4, <1>9, <2>2
    <3>2. Len(context \o hash_buffer') = Len(context) + Len(hash_buffer')
      BY <1>1, <2>1, Concatenated
    <3> QED
      BY <2>1, <3>1, <3>2
  <2> QED
    BY <1>1, <1>i, <2>5, <2>6, WholeSum, WholeNumbers
<1>10. CASE buffer_offset + room # BlockSize
  <2>1. context' = context /\ buffer_offset' = buffer_offset + room
    BY <1>4, <1>10
  <2>2. Held' = Held \o s
    BY <1>6, <2>1 DEF Held
  <2> QED
    BY <1>i, <1>1, <1>5, <1>7, <1>8, <2>1, <2>2, Moved
<1> QED
  BY <1>9, <1>10

\* So does hashing a block of the input.
LEMMA ChunkMessage ==
  ASSUME RefInv, Chunk
  PROVE  Message' = Message /\ Whole(Len(context'), BlockSize)
<1>i. IInv /\ HasherTypeOK /\ Whole(Len(context), BlockSize)
  BY DEF IInv, RefInv
<1>1. /\ data \in Seq(Byte) /\ context \in Seq(Byte) /\ rest \in Seq(Byte)
      /\ BlockSize \in Nat /\ BlockSize > 0 /\ Len(context) \in Nat
      /\ BlockSize \in 0 .. Len(data) /\ pc = "chunk"
      /\ context' = context \o SubSeq(data, 1, BlockSize)
      /\ data' = RemovePrefix(data, BlockSize)
      /\ UNCHANGED <<hash_buffer, buffer_offset, rest>>
  BY HasherAssumption, <1>i DEF HasherTypeOK, Chunk
<1> DEFINE s == SubSeq(data, 1, BlockSize)
           u == RemovePrefix(data, BlockSize)
<1>2. s \in Seq(Byte) /\ Len(s) = BlockSize /\ u \in Seq(Byte) /\ data = s \o u
  BY <1>1, Cut
<1>3. buffer_offset = 0
  <2>1. data # <<>>
    BY <1>1
  <2> QED
    BY <2>1, <1>1, <1>i DEF IInv, EmptyWhenLeft
<1>4. Held = <<>> /\ Held' = <<>>
  <2>1. Held = SubSeq(hash_buffer, 1, 0) /\ Held' = SubSeq(hash_buffer', 1, 0)
    BY <1>1, <1>3 DEF Held
  <2> QED
    BY <2>1, SubSeqEmpty
<1> HIDE DEF s
<1>5. Held \in Seq(Byte) /\ Message = Joined(context, Held, s \o u, rest)
  BY <1>i, <1>2, MessageParts
<1>6. Message' = Joined(context, s, u, rest)
  <2>1. (context \o s) \o <<>> = context \o s
    BY <1>1, <1>2
  <2>2. Message' = ((context \o s) \o <<>>) \o u \o rest
    BY <1>1, <1>4 DEF Message, Held, s
  <2> QED
    BY <2>1, <2>2 DEF Joined
<1> HIDE DEF u
<1>7. Held \o s = s
  BY <1>2, <1>4
<1>8. Message' = Message
  <2>1. Joined(context, Held, s \o u, rest) = Joined(context, Held \o s, u, rest)
    BY <1>1, <1>2, <1>5, Moved
  <2> QED
    BY <1>5, <1>6, <1>7, <2>1
<1>9. Len(context') = Len(context) + BlockSize
  BY <1>1, <1>2, Concatenated DEF s
<1> QED
  BY <1>1, <1>i, <1>8, <1>9, WholeSum, WholeNumbers

\* So does keeping what is left of the input.
LEMMA LeftoverMessage ==
  ASSUME RefInv, Leftover
  PROVE  Message' = Message /\ data' = <<>>
<1>i. IInv /\ HasherTypeOK
  BY DEF IInv, RefInv
<1>1. /\ data \in Seq(Byte) /\ context \in Seq(Byte) /\ rest \in Seq(Byte) /\ BlockSize \in Nat
      /\ Len(data) < BlockSize /\ Len(data) \in Nat /\ pc = "chunk"
      /\ UNCHANGED <<context, rest>>
  BY HasherAssumption, <1>i DEF HasherTypeOK, Leftover
<1>2. CASE data = <<>>
  <2>1. UNCHANGED <<hash_buffer, buffer_offset, data>>
    BY <1>2 DEF Leftover
  <2> QED
    BY <1>1, <1>2, <2>1 DEF Message
<1>3. CASE data # <<>>
  <2>1. hash_buffer' = Copied(0, data, Len(data)) /\ buffer_offset' = Len(data) /\ data' = <<>>
    BY <1>3 DEF Leftover
  <2>2. buffer_offset = 0
    BY <1>1, <1>3, <1>i DEF IInv, EmptyWhenLeft
  <2>3. SubSeq(hash_buffer', 1, buffer_offset + Len(data)) = Held \o SubSeq(data, 1, Len(data))
    <3>1. buffer_offset + Len(data) <= BlockSize /\ Len(data) \in 0 .. Len(data)
      BY <1>1, <2>2
    <3>2. hash_buffer' = Copied(buffer_offset, data, Len(data))
      BY <2>1, <2>2
    <3> QED
      BY <1>1, <1>i, <3>1, <3>2, CopyAppends
  <2>4. SubSeq(data, 1, Len(data)) = data
    BY <1>1, SubSeqFull
  <2>5. Held' = Held \o data
    BY <1>1, <2>1, <2>2, <2>3, <2>4 DEF Held
  <2>6. Held \in Seq(Byte) /\ Message = Joined(context, Held, data, rest)
    BY <1>1, <1>i, MessageParts
  <2>7. Message' = context \o (Held \o data) \o <<>> \o rest
    BY <1>1, <2>1, <2>5 DEF Message, Held
  <2>8. context \o (Held \o data) \o <<>> = context \o Held \o data
    BY <1>1, <2>6
  <2> QED
    BY <2>1, <2>6, <2>7, <2>8 DEF Joined
<1> QED
  BY <1>2, <1>3

\* An update appends its argument to the message.
LEMMA UpdateMessage ==
  ASSUME RefInv, NEW d \in Seq(Byte), Update(d)
  PROVE  Message' = Message \o d
<1>i. HasherTypeOK /\ data = <<>> /\ rest = <<>>
  BY DEF RefInv, IInv, Update
<1>1. Held \in Seq(Byte) /\ context \in Seq(Byte) /\ context \o Held \in Seq(Byte)
  BY <1>i, MessageParts DEF HasherTypeOK
<1>2. Message = context \o Held \o <<>> \o <<>> /\ Message' = context \o Held \o d \o <<>>
  BY <1>i DEF Update, Message, Held
<1>3. context \o Held \o <<>> \o <<>> = context \o Held
        /\ context \o Held \o d \o <<>> = context \o Held \o d
  BY <1>1
<1> QED
  BY <1>2, <1>3

\* The padding is the mark and zeros.
LEMMA MarkedZeros ==
  ASSUME NEW z \in Nat
  PROVE  /\ <<128>> \in Seq(Byte) /\ [i \in 1 .. z |-> 0] \in Seq(Byte)
         /\ [i \in 1 .. 1 + z |-> IF i = 1 THEN 128 ELSE 0] \in Seq(Byte)
         /\ Len([i \in 1 .. 1 + z |-> IF i = 1 THEN 128 ELSE 0]) = 1 + z
         /\ [i \in 1 .. 1 + z |-> IF i = 1 THEN 128 ELSE 0] = <<128>> \o [i \in 1 .. z |-> 0]
<1> DEFINE pad == [i \in 1 .. 1 + z |-> IF i = 1 THEN 128 ELSE 0]
           zeros == [i \in 1 .. z |-> 0]
           mark == <<128>>
<1>1. zeros \in Seq(Byte) /\ Len(zeros) = z /\ \A i \in 1 .. z : zeros[i] = 0
  BY DEF Byte
<1>2. mark \in Seq(Byte) /\ Len(mark) = 1 /\ mark[1] = 128
  BY DEF Byte
<1>3. pad \in Seq(Byte) /\ Len(pad) = 1 + z
        /\ \A i \in 1 .. 1 + z : pad[i] = IF i = 1 THEN 128 ELSE 0
  BY DEF Byte
<1> HIDE DEF pad, zeros, mark
<1>4. mark \in Seq(Byte) /\ zeros \in Seq(Byte)
  BY <1>1, <1>2
<1>5. /\ mark \o zeros \in Seq(Byte) /\ Len(mark \o zeros) = Len(mark) + Len(zeros)
      /\ \A i \in 1 .. Len(mark) + Len(zeros) :
           (mark \o zeros)[i] = IF i <= Len(mark) THEN mark[i] ELSE zeros[i - Len(mark)]
  BY <1>4
<1>6. \A i \in 1 .. 1 + z : pad[i] = (mark \o zeros)[i]
  <2> TAKE i \in 1 .. 1 + z
  <2>1. (mark \o zeros)[i] = IF i <= 1 THEN mark[i] ELSE zeros[i - 1]
    BY <1>1, <1>2, <1>5
  <2>2. CASE i = 1
    BY <2>1, <2>2, <1>2, <1>3
  <2>3. CASE i # 1
    <3>1. i - 1 \in 1 .. z /\ ~(i <= 1)
      BY <2>3
    <3> QED
      BY <2>1, <2>3, <3>1, <1>1, <1>3
  <2> QED
    BY <2>2, <2>3
<1>7. pad = mark \o zeros
  BY <1>1, <1>2, <1>3, <1>5, <1>6, SeqEqual
<1> QED
  BY <1>3, <1>4, <1>7 DEF pad, zeros, mark

\* The two updates of finalize() together append what the standard does.
LEMMA FinalizeMessage ==
  ASSUME RefInv, Finalize
  PROVE  /\ Message' = Abstract!Padded(Message)
         /\ Whole(Len(Message'), BlockSize)
<1> DEFINE pad == [i \in 1 .. PadSize |-> IF i = 1 THEN 128 ELSE 0]
           z == Abstract!ZeroCount(total_bytes)
           zeros == [i \in 1 .. z |-> 0]
           mark == <<128>>
<1>i. HasherTypeOK /\ data = <<>> /\ rest = <<>> /\ total_bytes = Len(context) + buffer_offset
  BY DEF RefInv, IInv, Accounting, Finalize
<1>1. Held \in Seq(Byte) /\ context \in Seq(Byte) /\ context \o Held \in Seq(Byte)
  BY <1>i, MessageParts DEF HasherTypeOK
<1>2. data' = pad /\ rest' = SizeDesc /\ UNCHANGED <<context, hash_buffer, buffer_offset>>
  BY DEF Finalize
<1>3. Message = context \o Held \o <<>> \o <<>> /\ Message' = context \o Held \o pad \o SizeDesc
  BY <1>i, <1>2 DEF Message, Held
<1>4. Message = context \o Held
  BY <1>1, <1>3
<1>5. Len(Message) = total_bytes /\ total_bytes \in Nat
  <2>1. Len(Held) = buffer_offset
    BY <1>i, MessageParts
  <2>2. Len(context \o Held) = Len(context) + Len(Held)
    BY <1>1, Concatenated
  <2> QED
    BY <1>4, <1>i, <2>1, <2>2 DEF HasherTypeOK
<1>6. PadSize = 1 + z /\ z \in Nat /\ Whole(total_bytes + PadSize + LengthSize, BlockSize)
  BY <1>i, PadSizeFits, HasherAssumption
<1>7. pad \in Seq(Byte) /\ SizeDesc \in Seq(Byte) /\ Len(SizeDesc) = LengthSize
        /\ LengthSize \in Nat
  <2>1. DOMAIN SizeDesc = 1 .. LengthSize
    BY DEF SizeDesc
  <2> QED
    BY <1>i, <2>1, PaddingTyped, LengthFieldTyped, HasherAssumption
<1> HIDE DEF z
<1>8. zeros \in Seq(Byte) /\ mark \in Seq(Byte) /\ Len(pad) = 1 + z /\ pad = mark \o zeros
  BY <1>6, MarkedZeros
<1> HIDE DEF pad, zeros, mark
<1>9. Abstract!LengthField(total_bytes) = SizeDesc
  BY DEF Abstract!LengthField, SizeDesc
<1>10. Abstract!Padded(Message) = Message \o mark \o zeros \o SizeDesc
  BY <1>5, <1>9 DEF Abstract!Padded, zeros, z, mark
<1>11. Message \o pad = Message \o mark \o zeros
  <2>1. Message \in Seq(Byte)
    BY <1>1, <1>4
  <2>2. Message \o (mark \o zeros) = (Message \o mark) \o zeros
    BY <1>8, <2>1
  <2> QED
    BY <1>8, <2>2
<1>12. Message' = Message \o pad \o SizeDesc
  BY <1>3, <1>4
<1>13. /\ Message \in Seq(Byte) /\ Message \o pad \in Seq(Byte)
       /\ Len(Message \o pad) = Len(Message) + Len(pad)
  BY <1>1, <1>4, <1>7, Concatenated
<1>14. Len(Message') = total_bytes + PadSize + LengthSize
  <2>1. Len(Message \o pad \o SizeDesc) = Len(Message \o pad) + Len(SizeDesc)
    BY <1>7, <1>13, Concatenated
  <2> QED
    BY <1>5, <1>6, <1>7, <1>8, <1>12, <1>13, <2>1
<1> QED
  BY <1>6, <1>10, <1>11, <1>12, <1>14

\* The inputs are sequences of bytes.
LEMMA InputTyped ==
  ASSUME HasherTypeOK, NEW d \in Inputs
  PROVE  d \in Seq(Byte)
<1>1. PICK n \in 0 .. MaxUpdate : d = [i \in 1 .. n |-> (total_bytes + i) % 256]
  BY DEF Inputs
<1>2. ASSUME NEW i \in 1 .. n PROVE (total_bytes + i) % 256 \in Byte
  BY HasherAssumption DEF HasherTypeOK, Byte
<1> QED
  BY <1>1, <1>2, HasherAssumption

\* What the abstract digest is.
Shown == IF finalizing THEN Message ELSE digest

\* Every step keeps the invariant and is a step of the abstract hasher or none.
LEMMA RefStep ==
  ASSUME RefInv, [HasherNext]_hasherVars
  PROVE  RefInv' /\ [Abstract!Next]_<<Message, Shown>>
<1>i. IInv /\ HasherTypeOK /\ IInv' /\ HasherTypeOK'
  BY InvNext DEF RefInv, IInv
<1>c. context \in Seq(Byte) /\ <<>> \in Seq(Byte) /\ Message \in Seq(Byte)
  BY <1>i, MessageParts DEF HasherTypeOK
<1>r. ASSUME UNCHANGED <<Message, Shown>>
      PROVE  [Abstract!Next]_<<Message, Shown>>
  BY <1>r
<1>1. CASE Reset
  <2>1. /\ context' = <<>> /\ buffer_offset' = 0 /\ data' = <<>> /\ rest' = <<>>
        /\ pc' = "idle" /\ ~finalizing /\ ~finalizing' /\ digest' = digest
    BY <1>1 DEF Reset, RefInv
  <2>2. SubSeq(hash_buffer', 1, 0) = <<>>
    BY SubSeqEmpty
  <2>3. Message' = <<>>
    <3>1. Message' = <<>> \o SubSeq(hash_buffer', 1, 0) \o <<>> \o <<>>
      BY <2>1 DEF Message
    <3>2. <<>> \o <<>> \o <<>> \o <<>> = <<>>
      OBVIOUS
    <3> QED
      BY <3>1, <3>2, <2>2
  <2>4. Whole(Len(context'), BlockSize)
    BY <2>1, WholeNumbers, HasherAssumption
  <2>5. Abstract!Reset
    BY <2>1, <2>3 DEF Abstract!Reset, Shown
  <2> QED
    BY <1>i, <2>1, <2>4, <2>5 DEF RefInv, Abstract!Next
<1>2. ASSUME NEW d \in Inputs, Update(d)
      PROVE  RefInv' /\ [Abstract!Next]_<<Message, Shown>>
  <2>1. d \in Seq(Byte) /\ Message' = Message \o d
    BY <1>2, <1>i, InputTyped, UpdateMessage
  <2>2. /\ ~finalizing /\ ~finalizing' /\ digest' = digest /\ pc' = "fill" /\ rest' = rest
        /\ context' = context
    BY <1>2 DEF Update, RefInv
  <2>3. RefInv'
    BY <1>i, <2>2 DEF RefInv
  <2>4. CASE d = <<>>
    <3>1. Message' = Message
      BY <1>c, <2>1, <2>4
    <3> QED
      BY <2>2, <2>3, <3>1, <1>r DEF Shown
  <2>5. CASE d # <<>>
    <3>1. Len(Message') > Len(Message)
      BY <1>c, <2>1, <2>5
    <3>2. SubSeq(Message', 1, Len(Message)) = Message
      BY <1>c, <2>1, SubSeqOfConcat1, SubSeqFull
    <3>3. Abstract!Update
      BY <2>2, <3>1, <3>2 DEF Abstract!Update, Shown
    <3> QED
      BY <2>3, <3>3 DEF Abstract!Next
  <2> QED
    BY <2>4, <2>5
<1>3. CASE Fill
  <2>1. Message' = Message /\ Whole(Len(context'), BlockSize)
    BY <1>3, FillMessage
  <2>2. pc' = "chunk" /\ UNCHANGED <<rest, finalizing, digest>>
    BY <1>3 DEF Fill
  <2> QED
    BY <1>i, <1>r, <2>1, <2>2 DEF RefInv, Shown
<1>4. CASE Chunk
  <2>1. Message' = Message /\ Whole(Len(context'), BlockSize)
    BY <1>4, ChunkMessage
  <2>2. pc' = "chunk" /\ UNCHANGED <<rest, finalizing, digest>>
    BY <1>4 DEF Chunk
  <2> QED
    BY <1>i, <1>r, <2>1, <2>2 DEF RefInv, Shown
<1>5. CASE Leftover
  <2>1. Message' = Message /\ data' = <<>>
    BY <1>5, LeftoverMessage
  <2>2. pc' = "done" /\ UNCHANGED <<context, rest, finalizing, digest>>
    BY <1>5 DEF Leftover
  <2> QED
    BY <1>i, <1>r, <2>1, <2>2 DEF RefInv, Shown
<1>6. CASE UpdateReturns
  <2>1. Message' = Message
    BY <1>6 DEF UpdateReturns, Message
  <2> QED
    BY <1>6, <1>i, <1>r, <2>1 DEF UpdateReturns, RefInv, Shown
<1>7. CASE Finalize
  <2>1. Message' = Abstract!Padded(Message) /\ Whole(Len(Message'), BlockSize)
    BY <1>7, FinalizeMessage
  <2>2. finalizing' /\ pc' = "fill" /\ context' = context
    BY <1>7 DEF Finalize
  <2>3. Abstract!Finalize
    BY <2>1, <2>2 DEF Abstract!Finalize, Shown
  <2> QED
    BY <1>i, <2>1, <2>2, <2>3 DEF RefInv, Abstract!Next
<1>8. CASE FinalizeLength
  <2>1. /\ data = <<>> /\ data' = rest /\ rest' = <<>> /\ pc' = "fill" /\ finalizing
        /\ UNCHANGED <<context, hash_buffer, buffer_offset, finalizing, digest>>
    BY <1>8 DEF FinalizeLength, RefInv
  <2>2. Held \in Seq(Byte) /\ rest \in Seq(Byte)
    BY <1>i, MessageParts DEF HasherTypeOK
  <2>3. Message = context \o Held \o <<>> \o rest /\ Message' = context \o Held \o rest \o <<>>
    BY <2>1 DEF Message, Held
  <2>4. context \o Held \o <<>> \o rest = context \o Held \o rest \o <<>>
    BY <1>c, <2>2
  <2>5. Message' = Message
    BY <2>3, <2>4
  <2> QED
    BY <1>i, <1>r, <2>1, <2>5 DEF RefInv, Shown
<1>9. CASE FinalizeReturns
  <2>1. /\ data = <<>> /\ rest = <<>> /\ finalizing /\ ~finalizing' /\ digest' = context
             /\ pc' = "idle"
        /\ UNCHANGED <<context, hash_buffer, buffer_offset, data, rest>>
    BY <1>9 DEF FinalizeReturns, RefInv
  <2>2. Message' = Message
    BY <2>1 DEF Message
  <2>3. buffer_offset \in 0 .. BlockSize - 1 /\ Len(context) \in Nat
    BY <1>i, <1>c, HasherAssumption DEF IInv, Accounting, HasherTypeOK
  <2>4. Len(Message) = Len(context) + buffer_offset
    BY <1>i, <2>1, <2>3, MessageParts
  <2>5. buffer_offset = 0
    <3>1. Whole(Len(context), BlockSize) /\ Whole(Len(context) + buffer_offset, BlockSize)
      BY <2>1, <2>4 DEF RefInv
    <3> QED
      BY <2>3, <3>1, WholeApart, HasherAssumption
  <2>6. Message = context
    <3>1. Message = context \o SubSeq(hash_buffer, 1, 0) \o <<>> \o <<>>
      BY <2>1, <2>5 DEF Message
    <3>2. SubSeq(hash_buffer, 1, 0) = <<>>
      BY SubSeqEmpty
    <3>3. context \o <<>> \o <<>> \o <<>> = context
      BY <1>c
    <3> QED
      BY <3>1, <3>2, <3>3
  <2> QED
    BY <1>i, <1>r, <2>1, <2>2, <2>6 DEF RefInv, Shown
<1>10. CASE UNCHANGED hasherVars
  BY <1>10, <1>i, <1>r DEF hasherVars, RefInv, Message, Shown
<1> QED
  BY <1>1, <1>2, <1>3, <1>4, <1>5, <1>6, <1>7, <1>8, <1>9, <1>10 DEF HasherNext

\* The empty message.
LEMMA RefInit == HasherInit => RefInv /\ Message = <<>> /\ Shown = <<>>
<1> SUFFICES ASSUME HasherInit PROVE RefInv /\ Message = <<>> /\ Shown = <<>>
  OBVIOUS
<1>1. IInv
  BY InvInit
<1>2. /\ context = <<>> /\ buffer_offset = 0 /\ data = <<>> /\ rest = <<>> /\ digest = <<>>
      /\ pc = "idle" /\ ~finalizing
  BY DEF HasherInit
<1>3. Message = <<>>
  <2>1. Message = <<>> \o SubSeq(hash_buffer, 1, 0) \o <<>> \o <<>>
    BY <1>2 DEF Message
  <2>2. SubSeq(hash_buffer, 1, 0) = <<>>
    BY SubSeqEmpty
  <2>3. <<>> \o <<>> \o <<>> \o <<>> = <<>>
    OBVIOUS
  <2> QED
    BY <2>1, <2>2, <2>3
<1>4. Whole(Len(context), BlockSize)
  BY <1>2, WholeNumbers, HasherAssumption
<1> QED
  BY <1>1, <1>2, <1>3, <1>4 DEF RefInv, Shown

\* For every block size, length field and byte order: the hasher implements the digest of
\* the padded message, however the message was cut into updates and whatever was hashed,
\* reset or finalized before (hasher.cpp:12-39; finalize of Sha1, Sha256, Sha512, Ripemd160).
THEOREM ImplementsDigest == HasherSpec => DigestOfMessage
<1>1. HasherInit => RefInv /\ Abstract!Init
  BY RefInit DEF Abstract!Init, Shown
<1>2. RefInv /\ [HasherNext]_hasherVars => RefInv' /\ [Abstract!Next]_<<Message, Shown>>
  BY RefStep
<1> QED
  BY <1>1, <1>2, PTL DEF HasherSpec, DigestOfMessage, Abstract!Spec, Shown

-----------------------------------------------------------------------------
(* OldHasher. Its place in the buffer is not kept but computed from the    *)
(* number of bytes, so the invariant says where the message is: the blocks *)
(* transformed are whole, and the first bytes % OldBlock of the buffer     *)
(* follow them.                                                            *)

\* The remainder of whole blocks and some bytes.
LEMMA RemainderIs ==
  ASSUME NEW n \in Nat, NEW b \in Nat, NEW r \in 0 .. b - 1, Whole(n, b)
  PROVE  (n + r) % b = r
<1>1. PICK q \in Nat : n = q * b
  BY DEF Whole
<1>2. PICK k \in Nat : k = n + r
  OBVIOUS
<1>3. k \div b \in Nat /\ k % b \in 0 .. b - 1 /\ k = (k \div b) * b + (k % b)
  BY Divided
<1>4. PICK p \in Nat, t \in 0 .. b - 1 : t = k % b /\ k = p * b + t
  BY <1>3
<1>5. t = r
  <2>1. q * b + r = p * b + t
    BY <1>1, <1>2, <1>4
  <2> QED
    BY <2>1, OneRemainder
<1> QED
  BY <1>2, <1>4, <1>5

\* A hasher of OldHasher holds the message m.
Holds(h, m) ==
  /\ h.s \in Seq(Byte) /\ h.buf \in [1 .. OldBlock -> Byte] /\ h.bytes \in Nat
  /\ m \in Seq(Byte) /\ Len(m) = h.bytes
  /\ h.s \o SubSeq(h.buf, 1, h.bytes % OldBlock) = m

\* The first bytes of a buffer, and two parts of a message.
Front(b, n) == SubSeq(b, 1, n)
Followed(s, t) == s \o t

\* What new holds of old and, from c on, of d.
Behind(new, old, d, c, at, n) ==
  /\ \A i \in 1 .. at : new[i] = old[i]
  /\ \A i \in at + 1 .. at + n : new[i] = d[c + i - at]
  /\ n = Len(d) - c

\* The end of d from c on, put behind the first at bytes of a buffer.
LEMMA PutBehind ==
  ASSUME NEW size \in Nat, NEW old \in [1 .. size -> Byte], NEW new \in [1 .. size -> Byte],
         NEW d \in Seq(Byte), NEW c \in 0 .. Len(d), NEW at \in Nat, NEW n \in Nat,
         at + n <= size, Behind(new, old, d, c, at, n)
  PROVE  Front(new, at + n) = Followed(Front(old, at), RemovePrefix(d, c))
<1> DEFINE x == SubSeq(new, 1, at + n)
           t == SubSeq(old, 1, at)
           u == RemovePrefix(d, c)
<1>1. n \in Nat /\ at \in 0 .. size /\ at + n \in 0 .. size
  BY DEF Behind
<1>2. x \in Seq(Byte) /\ Len(x) = at + n /\ \A i \in 1 .. at + n : x[i] = new[i]
  BY <1>1, FrontOf
<1>3. t \in Seq(Byte) /\ Len(t) = at /\ \A i \in 1 .. at : t[i] = old[i]
  BY <1>1, FrontOf
<1>4. u \in Seq(Byte) /\ Len(u) = n
  BY PrefixRemoved DEF Behind
<1>5. \A i \in 1 .. n : u[i] = d[c + i]
  <2>1. c + 1 \in Int /\ Len(d) \in Int /\ \A i \in (c + 1) .. Len(d) : d[i] \in Byte
    OBVIOUS
  <2>2. \A i \in 1 .. Len(d) - (c + 1) + 1 : u[i] = d[(c + 1) + i - 1]
    BY <2>1, SubSeqProperties DEF RemovePrefix
  <2> QED
    BY <2>2 DEF Behind
<1>f. /\ \A i \in 1 .. at : new[i] = old[i]
      /\ \A i \in at + 1 .. at + n : new[i] = d[c + i - at]
  BY DEF Behind
<1> HIDE DEF x, t, u
<1>6. t \in Seq(Byte) /\ u \in Seq(Byte)
  BY <1>3, <1>4
<1>7. /\ t \o u \in Seq(Byte) /\ Len(t \o u) = Len(t) + Len(u)
      /\ \A i \in 1 .. Len(t) + Len(u) : (t \o u)[i] = IF i <= Len(t) THEN t[i] ELSE u[i - Len(t)]
  BY <1>6, ConcatProperties
<1>8. \A i \in 1 .. at + n : x[i] = (t \o u)[i]
  <2> TAKE i \in 1 .. at + n
  <2>1. x[i] = new[i] /\ (t \o u)[i] = IF i <= at THEN t[i] ELSE u[i - at]
    BY <1>2, <1>3, <1>4, <1>7
  <2>2. CASE i <= at
    <3>1. i \in 1 .. at
      BY <2>2
    <3> QED
      BY <2>1, <2>2, <3>1, <1>3, <1>f
  <2>3. CASE ~(i <= at)
    <3>1. i - at \in 1 .. n /\ i \in at + 1 .. at + n /\ c + (i - at) = c + i - at
      BY <2>3, <1>1
    <3> QED
      BY <2>1, <2>3, <3>1, <1>5, <1>f
  <2> QED
    BY <2>2, <2>3
<1>9. x = t \o u
  BY <1>2, <1>3, <1>4, <1>7, <1>8, SeqEqual
<1> QED
  BY <1>9 DEF x, t, u, Followed, Front

\* Write appends its argument to the message: the place in the buffer is bytes % OldBlock.
LEMMA WrittenHolds ==
  ASSUME NEW h, NEW m, Holds(h, m), NEW d \in Seq(Byte)
  PROVE  Holds(Written(h, d), m \o d)
<1>b. OldBlock \in Nat /\ OldBlock > 0
  BY OldSizes
<1>h. PICK s \in Seq(Byte), buf \in [1 .. OldBlock -> Byte], bytes \in Nat :
           h.s = s /\ h.buf = buf /\ h.bytes = bytes
  BY DEF Holds
<1> DEFINE bufsize == bytes % OldBlock
           fills == bufsize > 0 /\ bufsize + Len(d) >= OldBlock
           first == IF fills THEN OldBlock - bufsize ELSE 0
           blocks == (Len(d) - first) \div OldBlock
           chunks == OldBlock * blocks
           left == Len(d) - first - chunks
           at == IF fills THEN 0 ELSE bufsize
           c == first + chunks
           front == SubSeq(buf, 1, bufsize)
<1>m. m \in Seq(Byte) /\ Len(m) = bytes /\ s \o front = m
  BY <1>h DEF Holds
<1>1. bufsize \in 0 .. OldBlock - 1 /\ Whole(bytes - bufsize, OldBlock) /\ bytes - bufsize \in Nat
  <2>1. /\ bytes \div OldBlock \in Nat /\ bufsize \in 0 .. OldBlock - 1
        /\ bytes = (bytes \div OldBlock) * OldBlock + bufsize
    BY <1>b, <1>h, Divided
  <2>2. PICK q \in Nat : bytes = q * OldBlock + bufsize
    BY <2>1
  <2> HIDE DEF bufsize
  <2>3. bytes - bufsize = q * OldBlock /\ bytes - bufsize \in Nat
    BY <2>1, <2>2, <1>b, <1>h
  <2> QED
    BY <2>1, <2>3 DEF Whole
<1>w. PICK ws, wbuf, wbytes :
        /\ Written(h, d).s = ws /\ Written(h, d).buf = wbuf /\ Written(h, d).bytes = wbytes
        /\ ws = s \o (IF fills THEN front ELSE <<>>) \o SubSeq(d, 1, c)
        /\ wbuf = [i \in 1 .. OldBlock |->
                     CASE at < i /\ i <= at + left -> d[first + chunks + i - at]
                       [] fills /\ i > bufsize /\ ~(at < i /\ i <= at + left) -> d[i - bufsize]
                       [] OTHER -> buf[i]]
        /\ wbytes = bytes + Len(d)
  BY <1>h DEF Written
<1> HIDE DEF bufsize
<1>2. Len(d) \in Nat /\ first \in 0 .. Len(d) /\ Len(d) - first \in Nat
  BY <1>b, <1>1
<1> HIDE DEF first
<1>3. chunks \in Nat /\ left \in 0 .. OldBlock - 1 /\ Whole(chunks, OldBlock)
  <2>1. PICK n \in Nat : n = Len(d) - first
    BY <1>2
  <2>2. n \div OldBlock \in Nat /\ n % OldBlock \in 0 .. OldBlock - 1
          /\ n = (n \div OldBlock) * OldBlock + (n % OldBlock)
    BY <1>b, Divided
  <2>3. PICK q \in Nat, r \in 0 .. OldBlock - 1 : q = n \div OldBlock /\ n = q * OldBlock + r
    BY <2>2
  <2>4. blocks = q
    BY <2>1, <2>3
  <2>5. OldBlock * q = q * OldBlock /\ q * OldBlock \in Nat
    BY <1>b
  <2>6. chunks = q * OldBlock /\ chunks \in Nat
    BY <2>4, <2>5
  <2> HIDE DEF chunks
  <2>7. left = r
    BY <2>1, <2>3, <2>6, <1>2, <1>b
  <2> QED
    BY <2>6, <2>7 DEF Whole
<1> HIDE DEF chunks
<1>4. c \in 0 .. Len(d) /\ left = Len(d) - c /\ c \in Nat
  BY <1>2, <1>3
<1>5. ASSUME ~fills, bufsize # 0
      PROVE  c = 0 /\ bufsize + Len(d) < OldBlock
  <2>1. first = 0 /\ bufsize + Len(d) < OldBlock
    BY <1>5, <1>b, <1>1, <1>2 DEF first
  <2>2. chunks \in 0 .. OldBlock - 1
    BY <2>1, <1>1, <1>2, <1>3, <1>4, <1>b
  <2>3. Whole(0, OldBlock) /\ Whole(0 + chunks, OldBlock)
    BY <1>3, <1>b, WholeNumbers
  <2>4. chunks = 0
    BY <2>2, <2>3, <1>b, WholeApart
  <2> QED
    BY <2>1, <2>4
<1>6. at \in 0 .. OldBlock /\ at \in Nat /\ at + left \in 0 .. OldBlock - 1
  BY <1>1, <1>2, <1>3, <1>4, <1>5, <1>b
<1>7. wbuf \in [1 .. OldBlock -> Byte]
  <2>1. ASSUME NEW i \in 1 .. OldBlock, at < i, i <= at + left
               PROVE d[first + chunks + i - at] \in Byte
    <3>1. first + chunks + i - at \in 1 .. Len(d)
      BY <2>1, <1>2, <1>3, <1>4, <1>6
    <3> QED
      BY <3>1
  <2>2. ASSUME NEW i \in 1 .. OldBlock, fills, i > bufsize PROVE d[i - bufsize] \in Byte
    <3>1. i - bufsize \in 1 .. Len(d)
      BY <2>2, <1>1, <1>2, <1>b
    <3> QED
      BY <3>1
  <2>3. ASSUME NEW i \in 1 .. OldBlock PROVE buf[i] \in Byte
    BY <1>h
  <2> HIDE DEF at, left, fills
  <2> QED
    BY <1>w, <2>1, <2>2, <2>3
<1>8. Behind(wbuf, buf, d, c, at, left)
  <2>1. ASSUME NEW i \in 1 .. at PROVE wbuf[i] = buf[i]
    <3>1. i \in 1 .. OldBlock /\ ~(at < i) /\ ~fills
      BY <2>1, <1>1, <1>6, <1>b
    <3> HIDE DEF at, left, fills
    <3> QED
      BY <3>1, <1>w
  <2>2. ASSUME NEW i \in at + 1 .. at + left PROVE wbuf[i] = d[c + i - at]
    <3>1. i \in 1 .. OldBlock /\ at < i /\ i <= at + left
      BY <1>6, <1>3, <1>b
    <3> HIDE DEF at, left, fills
    <3> QED
      BY <3>1, <1>w
  <2> QED
    BY <2>1, <2>2, <1>4 DEF Behind
<1>9. Front(wbuf, at + left) = Followed(Front(buf, at), RemovePrefix(d, c))
  <2>1. left \in Nat /\ at + left <= OldBlock /\ OldBlock \in Nat
    BY <1>3, <1>6, <1>b
  <2>2. at \in Nat /\ wbuf \in [1 .. OldBlock -> Byte] /\ c \in 0 .. Len(d)
    BY <1>4, <1>6, <1>7
  <2> HIDE DEF at, left, c
  <2> QED
    BY <2>1, <2>2, <1>8, PutBehind
<1> DEFINE d1 == SubSeq(d, 1, c)
           d2 == RemovePrefix(d, c)
<1>10. d1 \in Seq(Byte) /\ Len(d1) = c /\ d2 \in Seq(Byte) /\ d = d1 \o d2
  BY <1>4, Cut
<1>11. front \in Seq(Byte) /\ Len(front) = bufsize
  <2>1. bufsize \in 0 .. OldBlock /\ buf \in [1 .. OldBlock -> Byte]
    BY <1>b, <1>h, <1>1
  <2> QED
    BY <2>1, <1>b, FrontOf
<1>y. wbytes = bytes + Len(d)
  BY <1>w
<1>12. /\ ws \in Seq(Byte) /\ ws \o SubSeq(wbuf, 1, at + left) = m \o d
       /\ Len(ws) = (bytes - bufsize) + (IF fills THEN OldBlock + chunks ELSE chunks)
  <2> HIDE DEF d1, d2, front
  <2>s. s \in Seq(Byte) /\ front \in Seq(Byte) /\ d1 \in Seq(Byte) /\ d2 \in Seq(Byte)
    BY <1>h, <1>10, <1>11
  <2>m. s \o front = m /\ d = d1 \o d2
    BY <1>m, <1>10 DEF front
  <2>l. Len(s) = bytes - bufsize
    <3>1. Len(s \o front) = Len(s) + Len(front) /\ Len(s) \in Nat
      BY <2>s
    <3>2. Len(s) + bufsize = bytes
      BY <3>1, <2>m, <1>m, <1>11
    <3> QED
      BY <3>1, <3>2, <1>1
  <2>e. SubSeq(buf, 1, 0) = <<>> /\ <<>> \o d2 = d2
    BY <2>s, SubSeqEmpty
  <2>a. (s \o front) \o (d1 \o d2) = ((s \o front) \o d1) \o d2
    BY <2>s
  <2>1. CASE fills
    <3>1. ws = s \o front \o d1 /\ SubSeq(wbuf, 1, at + left) = SubSeq(buf, 1, 0) \o d2
      BY <2>1, <1>w, <1>9 DEF Followed, Front, d1, d2, front
    <3>2. SubSeq(wbuf, 1, at + left) = d2
      BY <3>1, <2>e
    <3>3. s \o front \o d1 \in Seq(Byte) /\ Len(s \o front \o d1) = Len(s) + Len(front) + Len(d1)
      BY <2>s
    <3>4. first + bufsize = OldBlock
      BY <2>1, <1>1, <1>b DEF first
    <3>5. Len(ws) = (bytes - bufsize) + (OldBlock + chunks)
      BY <3>1, <3>3, <3>4, <2>l, <1>1, <1>2, <1>3, <1>10, <1>11
    <3>6. ws \o SubSeq(wbuf, 1, at + left) = m \o d
      BY <3>1, <3>2, <2>m, <2>a
    <3> QED
      BY <2>1, <3>1, <3>3, <3>5, <3>6
  <2>2. CASE ~fills /\ bufsize = 0
    <3>1. front = <<>>
      BY <2>2, SubSeqEmpty DEF front
    <3>2. ws = s \o <<>> \o d1 /\ SubSeq(wbuf, 1, at + left) = SubSeq(buf, 1, 0) \o d2
      BY <2>2, <1>w, <1>9 DEF Followed, Front, d1, d2
    <3>3. ws = (s \o front) \o d1 /\ SubSeq(wbuf, 1, at + left) = d2
      BY <3>1, <3>2, <2>e
    <3>4. s \o front \o d1 \in Seq(Byte) /\ Len(s \o front \o d1) = Len(s) + Len(front) + Len(d1)
      BY <2>s
    <3>5. first = 0
      BY <2>2 DEF first
    <3>6. Len(ws) = (bytes - bufsize) + chunks
      BY <3>3, <3>4, <3>5, <2>2, <2>l, <1>1, <1>2, <1>3, <1>10, <1>11
    <3>7. ws \o SubSeq(wbuf, 1, at + left) = m \o d
      BY <3>3, <2>m, <2>a
    <3> QED
      BY <2>2, <3>3, <3>4, <3>6, <3>7
  <2>3. CASE ~fills /\ bufsize # 0
    <3>1. c = 0 /\ chunks = 0
      BY <2>3, <1>2, <1>3, <1>5
    <3>2. d1 = <<>>
      BY <3>1, SubSeqEmpty DEF d1
    <3>3. ws = s \o <<>> \o <<>> /\ SubSeq(wbuf, 1, at + left) = front \o d2
      BY <2>3, <3>2, <1>w, <1>9 DEF Followed, Front, d1, d2, front
    <3>4. s \o <<>> \o <<>> = s /\ s \o (front \o d2) = (s \o front) \o d2
      <4>1. s \o <<>> \o <<>> = s
        BY <2>s
      <4>2. s \o (front \o d2) = (s \o front) \o d2
        BY <2>s, SMTT(60)
      <4> QED
        BY <4>1, <4>2
    <3>5. (s \o front) \o <<>> = s \o front
      BY <2>s
    <3>6. ws \o SubSeq(wbuf, 1, at + left) = (s \o front) \o d2
      BY <3>3, <3>4
    <3>7. (s \o front) \o d2 = m \o d
      BY <3>2, <3>5, <2>m, <2>a
    <3>8. ws = s
      BY <3>3, <3>4
    <3>9. Len(ws) = (bytes - bufsize) + chunks /\ ws \in Seq(Byte)
      BY <3>1, <3>8, <2>l, <1>1
    <3> HIDE DEF at, left
    <3> QED
      BY <2>3, <3>6, <3>7, <3>9
  <2> QED
    BY <2>1, <2>2, <2>3
<1>13. wbytes % OldBlock = at + left
  <2> DEFINE n == (bytes - bufsize) + (IF fills THEN OldBlock + chunks ELSE chunks)
  <2>1. n \in Nat /\ Whole(n, OldBlock)
    <3>1. Whole(OldBlock, OldBlock)
      BY <1>b, WholeNumbers
    <3>2. OldBlock + chunks \in Nat /\ Whole(OldBlock + chunks, OldBlock)
      BY <3>1, <1>b, <1>3, WholeSum
    <3>3. \A k \in Nat : Whole(k, OldBlock) => (bytes - bufsize) + k \in Nat
            /\ Whole((bytes - bufsize) + k, OldBlock)
      BY <1>1, <1>b, WholeSum
    <3> QED
      BY <3>2, <3>3, <1>3
  <2>2. wbytes = n + (at + left)
    <3>1. CASE fills
      BY <3>1, <1>y, <1>1, <1>2, <1>3, <1>b DEF first
    <3>2. CASE ~fills
      BY <3>2, <1>y, <1>1, <1>2, <1>3, <1>b DEF first
    <3> QED
      BY <3>1, <3>2
  <2> HIDE DEF n, at, left
  <2> QED
    BY <2>1, <2>2, <1>6, <1>b, RemainderIs
<1>14. m \o d \in Seq(Byte) /\ Len(m \o d) = wbytes /\ wbytes \in Nat
  <2>1. m \in Seq(Byte)
    BY <1>m
  <2>2. m \o d \in Seq(Byte) /\ Len(m \o d) = Len(m) + Len(d)
    BY <2>1
  <2> QED
    BY <2>2, <1>m, <1>y, <1>2
<1> QED
  <2>1. Written(h, d).s = ws /\ Written(h, d).buf = wbuf /\ Written(h, d).bytes = wbytes
    BY <1>w
  <2> HIDE DEF at, left
  <2>2. ws \o SubSeq(wbuf, 1, wbytes % OldBlock) = m \o d
    BY <1>12, <1>13
  <2> QED
    BY <2>1, <2>2, <1>7, <1>12, <1>14 DEF Holds

\* A hasher that holds a whole number of blocks has transformed them all.
LEMMA HoldsWhole ==
  ASSUME NEW h, NEW m, Holds(h, m), Whole(Len(m), OldBlock)
  PROVE  h.s = m
<1>1. h.s \in Seq(Byte) /\ h.bytes \in Nat /\ Len(m) = h.bytes /\ OldBlock \in Nat /\ OldBlock > 0
  BY OldSizes DEF Holds
<1>2. h.bytes % OldBlock = 0
  BY <1>1, WholeIs
<1>3. h.s \o SubSeq(h.buf, 1, 0) = m
  BY <1>2 DEF Holds
<1>4. SubSeq(h.buf, 1, 0) = <<>>
  BY SubSeqEmpty
<1>5. h.s \o <<>> = h.s
  BY <1>1
<1> QED
  BY <1>3, <1>4, <1>5

\* The length of a message is written as bytes.
LEMMA OldSizeTyped ==
  ASSUME NEW n \in Nat
  PROVE  OldSizeDesc(n) \in Seq(Byte) /\ Len(OldSizeDesc(n)) = OldLength
<1>1. OldLength \in Nat
  BY OldSizes
<1>2. ASSUME NEW i \in 1 .. OldLength
      PROVE  ((8 * n) \div 256 ^ (OldLength - i)) % 256 \in Byte
  <2>1. OldLength - i \in Nat
    BY <1>1
  <2>2. ASSUME NEW k \in Nat PROVE ((8 * n) \div 256 ^ k) % 256 \in Byte
    BY DEF Byte
  <2> QED
    BY <2>1, <2>2
<1>3. OldSizeDesc(n) = [i \in 1 .. OldLength |-> ((8 * n) \div 256 ^ (OldLength - i)) % 256]
  BY DEF OldSizeDesc
<1> QED
  BY <1>1, <1>2, <1>3

\* The padding and the length, written to a hasher that holds m, leave it with m padded as
\* the standard says.
LEMMA PaddedHolds ==
  ASSUME NEW h, NEW m, Holds(h, m)
  PROVE  LET pad == [i \in 1 .. Padding(h.bytes) |-> IF i = 1 THEN 128 ELSE 0]
             ended == Written(Written(h, pad), OldSizeDesc(h.bytes))
         IN  Holds(ended, Standard!Padded(m)) /\ ended.s = Standard!Padded(m)
<1> DEFINE n == Len(m)
           z == Standard!ZeroCount(n)
           pad == [i \in 1 .. Padding(h.bytes) |-> IF i = 1 THEN 128 ELSE 0]
           zeros == [i \in 1 .. z |-> 0]
           mark == <<128>>
           field == OldSizeDesc(n)
           ended == Written(Written(h, pad), field)
<1>1. n \in Nat /\ n = h.bytes /\ m \in Seq(Byte)
  BY DEF Holds
<1>2. OldBlock \in Nat /\ OldLength \in Nat /\ OldLength + 1 < OldBlock
  BY OldSizes
<1>3. Padding(h.bytes) = 1 + z /\ z \in Nat /\ Whole(n + 1 + z + OldLength, OldBlock)
  <2>1. PICK k : k = (2 * OldBlock - OldLength - 1 - (n % OldBlock)) % OldBlock
    OBVIOUS
  <2>2. k \in 0 .. OldBlock - 1 /\ Whole(n + 1 + k + OldLength, OldBlock) /\ k = z
    BY <1>1, <1>2, <2>1, FewestZeros DEF Standard!ZeroCount
  <2>3. Padding(h.bytes) = 1 + k
    BY <1>1, <2>1 DEF Padding
  <2> QED
    BY <2>2, <2>3, <1>2
<1> HIDE DEF n, z
<1>4. /\ pad \in Seq(Byte) /\ zeros \in Seq(Byte) /\ mark \in Seq(Byte)
      /\ Len(pad) = 1 + z /\ pad = mark \o zeros
  BY <1>3, MarkedZeros
<1>5. field \in Seq(Byte) /\ Len(field) = OldLength
  BY <1>1, OldSizeTyped
<1>6. Standard!LengthField(n) = field
  BY DEF Standard!LengthField, OldSizeDesc
<1>7. Standard!Padded(m) = m \o mark \o zeros \o field
  BY <1>6 DEF Standard!Padded, n, z
<1> HIDE DEF pad, zeros, mark, field
<1>8. Holds(ended, (m \o pad) \o field)
  BY <1>4, <1>5, WrittenHolds
<1>9. Standard!Padded(m) = (m \o pad) \o field
  <2>1. m \in Seq(Byte) /\ mark \in Seq(Byte) /\ zeros \in Seq(Byte)
    BY <1>1, <1>4
  <2>2. m \o (mark \o zeros) = (m \o mark) \o zeros
    BY <2>1
  <2>3. m \o pad = (m \o mark) \o zeros
    BY <2>2, <1>4
  <2> QED
    BY <2>3, <1>7
<1>10. Whole(Len((m \o pad) \o field), OldBlock)
  <2>1. m \in Seq(Byte) /\ pad \in Seq(Byte) /\ field \in Seq(Byte)
    BY <1>1, <1>4, <1>5
  <2>2. Len((m \o pad) \o field) = Len(m) + Len(pad) + Len(field)
    BY <2>1
  <2>3. Len(m) + Len(pad) + Len(field) = n + (1 + z) + OldLength
    BY <1>4, <1>5 DEF n
  <2>4. n + (1 + z) + OldLength = n + 1 + z + OldLength
    <3>1. n \in Nat /\ z \in Nat /\ OldLength \in Nat
      BY <1>1, <1>2, <1>3
    <3> QED
      BY <3>1
  <2>5. Len((m \o pad) \o field) = n + 1 + z + OldLength
    BY <2>2, <2>3, <2>4
  <2> QED
    BY <2>5, <1>3
<1>11. Holds(ended, Standard!Padded(m)) /\ ended.s = Standard!Padded(m)
  BY <1>8, <1>9, <1>10, HoldsWhole
<1> QED
  BY <1>1, <1>11 DEF ended, pad, field

\* The hasher holds what was written, and the last hash is the one wanted.
OldInv == Holds(Now, oldMessage) /\ oldHash = oldWanted

\* A new hasher, and one that is reset, hold the empty message.
LEMMA HoldsNothing ==
  ASSUME NEW h, h.s = <<>>, h.buf \in [1 .. OldBlock -> Byte], h.bytes = 0
  PROVE  Holds(h, <<>>)
<1>1. OldBlock \in Nat /\ OldBlock > 0 /\ <<>> \in Seq(Byte) /\ Len(<<>>) = 0
  BY OldSizes
<1>2. 0 % OldBlock = 0
  BY <1>1
<1>3. SubSeq(h.buf, 1, 0) = <<>>
  BY SubSeqEmpty
<1>4. <<>> \o <<>> = <<>>
  OBVIOUS
<1> QED
  BY <1>1, <1>2, <1>3, <1>4 DEF Holds

\* Every operation keeps the message in the hasher.
LEMMA OldStep == OldInv /\ [OldHasherNext]_oldhasherVars => OldInv'
<1> SUFFICES ASSUME OldInv, [OldHasherNext]_oldhasherVars PROVE OldInv'
  OBVIOUS
<1>i. Holds(Now, oldMessage) /\ oldHash = oldWanted
  BY DEF OldInv
<1>n. /\ Now.s = oldS /\ Now.buf = oldBuf /\ Now.bytes = oldBytes
      /\ Now'.s = oldS' /\ Now'.buf = oldBuf' /\ Now'.bytes = oldBytes'
  BY DEF Now
<1>b. ASSUME NEW h, NEW m, Becomes(h), Holds(h, m) PROVE Holds(Now', m)
  <2>1. Now'.s = h.s /\ Now'.buf = h.buf /\ Now'.bytes = h.bytes
    BY <1>n, <1>b DEF Becomes
  <2> QED
    BY <1>b, <2>1 DEF Holds
<1>1. ASSUME NEW k \in 0 .. OldWrite, OldWriteBytes([i \in 1 .. k |-> (oldBytes + i) % 256])
      PROVE  OldInv'
  <2> DEFINE d == [i \in 1 .. k |-> (oldBytes + i) % 256]
  <2>1. oldBytes \in Nat /\ OldWrite \in Nat
    BY <1>i, <1>n, OldSizes DEF Holds
  <2>2. ASSUME NEW i \in 1 .. k PROVE (oldBytes + i) % 256 \in Byte
    BY <2>1 DEF Byte
  <2>3. d \in Seq(Byte)
    BY <2>1, <2>2
  <2>4. Becomes(Written(Now, d)) /\ oldMessage' = oldMessage \o d
          /\ UNCHANGED <<oldHash, oldWanted>>
    BY <1>1 DEF OldWriteBytes
  <2> HIDE DEF d
  <2>5. Holds(Written(Now, d), oldMessage \o d)
    BY <1>i, <2>3, WrittenHolds
  <2>6. Holds(Now', oldMessage')
    BY <2>4, <2>5, <1>b
  <2> QED
    BY <1>i, <2>4, <2>6 DEF OldInv
<1>2. CASE OldFinalize
  <2> DEFINE pad == [i \in 1 .. Padding(oldBytes) |-> IF i = 1 THEN 128 ELSE 0]
             ended == Written(Written(Now, pad), OldSizeDesc(oldBytes))
  <2>1. /\ Becomes(ended) /\ oldHash' = ended.s
        /\ oldMessage' = Standard!Padded(oldMessage) /\ oldWanted' = Standard!Padded(oldMessage)
    BY <1>2 DEF OldFinalize
  <2>2. Holds(ended, Standard!Padded(oldMessage)) /\ ended.s = Standard!Padded(oldMessage)
    BY <1>i, <1>n, PaddedHolds
  <2> HIDE DEF ended
  <2>3. Holds(Now', oldMessage')
    BY <2>1, <2>2, <1>b
  <2> QED
    BY <2>1, <2>2, <2>3 DEF OldInv
<1>3. CASE OldFinalizeNoPadding
  <2>1. /\ oldBytes = OldBlock /\ oldHash' = oldS /\ oldWanted' = oldMessage
        /\ UNCHANGED <<oldS, oldBuf, oldBytes, oldMessage>>
    BY <1>3 DEF OldFinalizeNoPadding
  <2>2. Now' = Now /\ oldMessage' = oldMessage
    BY <2>1 DEF Now
  <2>3. Whole(Len(oldMessage), OldBlock)
    BY <1>i, <1>n, <2>1, OldSizes, WholeNumbers DEF Holds
  <2>4. oldS = oldMessage
    BY <1>i, <1>n, <2>3, HoldsWhole
  <2> QED
    BY <1>i, <2>1, <2>2, <2>4 DEF OldInv
<1>4. CASE OldReset
  <2>1. /\ oldBytes' = 0 /\ oldS' = <<>> /\ oldMessage' = <<>> /\ oldHash' = oldWanted'
        /\ oldBuf' = oldBuf
    BY <1>4 DEF OldReset
  <2>2. Now'.s = <<>> /\ Now'.buf \in [1 .. OldBlock -> Byte] /\ Now'.bytes = 0
    BY <2>1, <1>i, <1>n DEF Holds
  <2> QED
    BY <2>1, <2>2, HoldsNothing DEF OldInv
<1>5. CASE UNCHANGED oldhasherVars
  BY <1>5, <1>i DEF oldhasherVars, OldInv, Now
<1> QED
  BY <1>1, <1>2, <1>3, <1>4, <1>5 DEF OldHasherNext

\* The hasher begins with the empty message.
LEMMA OldBegins == OldHasherInit => OldInv
<1> SUFFICES ASSUME OldHasherInit PROVE OldInv
  OBVIOUS
<1>1. Now.s = <<>> /\ Now.buf \in [1 .. OldBlock -> Byte] /\ Now.bytes = 0
  BY DEF OldHasherInit, Now, Byte
<1> QED
  BY <1>1, HoldsNothing DEF OldHasherInit, OldInv

\* For every block size and however the message was cut into writes: nothing written is
\* lost, repeated or moved on its way through the buffer of Sha256Old, whose place is
\* bytes % 64, and the hash is that of the padded message (sha_2_256_old.cpp:135-167).
THEOREM OldAgreesHolds == OldHasherSpec => []OldAgrees
<1>1. OldInv => OldAgrees
  BY DEF OldInv, OldAgrees, Holds, Now
<1> QED
  BY OldBegins, OldStep, <1>1, PTL DEF OldHasherSpec

-----------------------------------------------------------------------------
(* CompositeHash. That the digest is as defined is not inductive: what the *)
(* hashers hold before it is taken has to be known.                        *)

\* The key of a Hmac, as long as a block.
BlockKey(start) == Resized(IF Len(start) > HashBlock THEN Hashed("sha", start) ELSE start)

\* The bytes of a text.
TextBytes == {Plain(<<"text", <<>>, i>>) : i \in Nat}

\* Until the digest is taken the hashers hold what the definition hashes.
HashInv ==
  /\ hashKind \in {"Hash256", "Hash160", "Hmac"}
  /\ hashSpent \in Nat
  /\ hashStart \in Seq(TextBytes) /\ hashGiven \in Seq(TextBytes)
  /\ AsDefined
  /\ hashSpent = 0 /\ hashKind # "Hmac" => innerHasher = hashStart \o hashGiven
  /\ hashSpent = 0 /\ hashKind = "Hmac" =>
       /\ outerHasher = Xored(BlockKey(hashStart), {"opad"})
       /\ innerHasher = Xored(BlockKey(hashStart), {"ipad"}) \o hashGiven

\* A text is a sequence of its bytes.
LEMMA TextTyped ==
  ASSUME NEW n \in Nat
  PROVE  Text(n) \in Seq(TextBytes)
<1>1. ASSUME NEW i \in 1 .. n PROVE Plain(<<"text", <<>>, i>>) \in TextBytes
  BY DEF TextBytes
<1> HIDE DEF TextBytes
<1>2. Text(n) \in [1 .. n -> TextBytes]
  BY <1>1 DEF Text
<1> QED
  BY <1>2

\* The second xor with opad undoes the first.
LEMMA XoredTwice ==
  ASSUME NEW bytes
  PROVE  Xored(Xored(bytes, {"opad"}), {"opad", "ipad"}) = Xored(bytes, {"ipad"})
<1> DEFINE once == Xored(bytes, {"opad"})
           B(i) == bytes[i][2]
           P(i) == (B(i) \ {"opad"}) \union ({"opad"} \ B(i))
<1>1. /\ DOMAIN once = DOMAIN bytes
      /\ \A i \in DOMAIN bytes : once[i] = <<bytes[i][1], P(i)>>
  BY DEF Xored
<1>2. \A i \in DOMAIN bytes : once[i][1] = bytes[i][1] /\ once[i][2] = P(i)
  BY <1>1
<1>3. ASSUME NEW X
      PROVE  LET Y == (X \ {"opad"}) \union ({"opad"} \ X)
             IN  (Y \ {"opad", "ipad"}) \union ({"opad", "ipad"} \ Y)
                   = (X \ {"ipad"}) \union ({"ipad"} \ X)
  OBVIOUS
<1>4. \A i \in DOMAIN bytes : (P(i) \ {"opad", "ipad"}) \union ({"opad", "ipad"} \ P(i))
                              = (B(i) \ {"ipad"}) \union ({"ipad"} \ B(i))
  BY <1>3
<1> HIDE DEF once, P, B
<1>5. Xored(once, {"opad", "ipad"})
        = [i \in DOMAIN bytes |-> <<bytes[i][1], (P(i) \ {"opad", "ipad"})
          \union ({"opad", "ipad"} \ P(i))>>]
  BY <1>1, <1>2 DEF Xored
<1>6. Xored(bytes, {"ipad"})
        = [i \in DOMAIN bytes |-> <<bytes[i][1], (B(i) \ {"ipad"}) \union ({"ipad"} \ B(i))>>]
  BY DEF Xored, B
<1>7. Xored(once, {"opad", "ipad"}) = Xored(bytes, {"ipad"})
  BY <1>4, <1>5, <1>6
<1> QED
  BY <1>7 DEF once

\* A key xored with a constant is a sequence.
LEMMA KeySequence ==
  ASSUME NEW start, NEW constants
  PROVE  \E S : Xored(BlockKey(start), constants) \in Seq(S)
<1> DEFINE long == IF Len(start) > HashBlock THEN Hashed("sha", start) ELSE start
           all == long \o [i \in 1 .. HashBlock |-> Zero]
           key == SubSeq(all, 1, HashBlock)
           x == Xored(key, constants)
           S == {x[i] : i \in 1 .. HashBlock}
<1>1. HashBlock \in Nat
  BY HashSizes
<1>2. DOMAIN key = 1 .. HashBlock
  <2>1. \A i \in 1 .. HashBlock : all[i] \in {all[j] : j \in 1 .. HashBlock}
    OBVIOUS
  <2> HIDE DEF all
  <2>2. key \in Seq({all[j] : j \in 1 .. HashBlock}) /\ Len(key) = HashBlock - 1 + 1
    BY <1>1, <2>1, SubSeqProperties
  <2> QED
    BY <2>2, <1>1
<1> HIDE DEF key
<1>3. x = [i \in 1 .. HashBlock |-> x[i]]
  BY <1>2 DEF Xored
<1> HIDE DEF x
<1>4. x \in [1 .. HashBlock -> S]
  BY <1>3
<1>5. x \in Seq(S)
  BY <1>1, <1>4
<1> QED
  BY <1>5 DEF BlockKey, Resized, x, key

\* What is given after a key or a text goes behind it.
LEMMA GivenBehind ==
  ASSUME NEW S, NEW k \in Seq(S), NEW g \in Seq(TextBytes), NEW b \in Seq(TextBytes)
  PROVE  (k \o g) \o b = k \o (g \o b)
<1> DEFINE T == S \union TextBytes
<1>1. k \in Seq(T) /\ g \in Seq(T) /\ b \in Seq(T)
  OBVIOUS
<1> HIDE DEF T
<1> QED
  BY <1>1

\* What the definition asks for is what finalize() computes from the hashers.
LEMMA WantedIs ==
  ASSUME HashInv, hashSpent = 0
  PROVE  /\ hashKind = "Hash256" => Wanted = Hashed("sha", Hashed("sha", innerHasher))
         /\ hashKind = "Hash160" => Wanted = Hashed("ripemd", Hashed("sha", innerHasher))
         /\ hashKind = "Hmac" => Wanted = Hashed("sha", outerHasher \o Hashed("sha", innerHasher))
<1>1. CASE hashKind = "Hash256"
  <2>1. innerHasher = hashStart \o hashGiven
    BY <1>1 DEF HashInv
  <2>2. Wanted = Hashed("sha", Hashed("sha", hashStart \o hashGiven))
    BY <1>1 DEF Wanted
  <2> QED
    BY <1>1, <2>1, <2>2
<1>2. CASE hashKind = "Hash160"
  <2>1. innerHasher = hashStart \o hashGiven
    BY <1>2 DEF HashInv
  <2>2. Wanted = Hashed("ripemd", Hashed("sha", hashStart \o hashGiven))
    BY <1>2 DEF Wanted
  <2> QED
    BY <1>2, <2>1, <2>2
<1>3. CASE hashKind = "Hmac"
  <2>1. /\ outerHasher = Xored(BlockKey(hashStart), {"opad"})
        /\ innerHasher = Xored(BlockKey(hashStart), {"ipad"}) \o hashGiven
    BY <1>3 DEF HashInv
  <2>2. Wanted = Hashed("sha", Xored(BlockKey(hashStart), {"opad"})
                   \o Hashed("sha", Xored(BlockKey(hashStart), {"ipad"}) \o hashGiven))
    BY <1>3 DEF Wanted, BlockKey
  <2> QED
    BY <1>3, <2>1, <2>2
<1> QED
  BY <1>1, <1>2, <1>3 DEF HashInv

\* Every operation keeps the hashers at what the definition hashes.
LEMMA HashStep == HashInv /\ [CompositeHashNext]_compositehashVars => HashInv'
<1> SUFFICES ASSUME HashInv, [CompositeHashNext]_compositehashVars PROVE HashInv'
  OBVIOUS
<1>e. <<>> \in Seq(TextBytes)
  OBVIOUS
<1>1. ASSUME NEW n \in 0 .. HashKeys, HashBegin(Text(n)) PROVE HashInv'
  <2>1. Text(n) \in Seq(TextBytes)
    BY TextTyped, HashSizes
  <2>2. /\ innerHasher' = Text(n) /\ hashStart' = Text(n) /\ hashGiven' = <<>> /\ hashSpent' = 0
        /\ hashOut' = hashWanted' /\ hashKind' = hashKind /\ hashKind # "Hmac"
    BY <1>1 DEF HashBegin, Begun
  <2>3. Text(n) \o <<>> = Text(n)
    BY <2>1
  <2> QED
    BY <1>e, <2>1, <2>2, <2>3 DEF HashInv, AsDefined
<1>2. ASSUME NEW n \in 0 .. HashKeys, HmacBegin(Text(n)) PROVE HashInv'
  <2>1. Text(n) \in Seq(TextBytes)
    BY TextTyped, HashSizes
  <2>2. /\ outerHasher' = Xored(BlockKey(Text(n)), {"opad"})
        /\ innerHasher' = Xored(Xored(BlockKey(Text(n)), {"opad"}), {"opad", "ipad"})
        /\ hashStart' = Text(n) /\ hashGiven' = <<>> /\ hashSpent' = 0
        /\ hashOut' = hashWanted' /\ hashKind' = hashKind /\ hashKind = "Hmac"
    BY <1>2 DEF HmacBegin, Begun, BlockKey
  <2>3. innerHasher' = Xored(BlockKey(Text(n)), {"ipad"})
    BY <2>2, XoredTwice
  <2>4. PICK S : Xored(BlockKey(Text(n)), {"ipad"}) \in Seq(S)
    BY KeySequence
  <2>5. Xored(BlockKey(Text(n)), {"ipad"}) \o <<>> = Xored(BlockKey(Text(n)), {"ipad"})
    BY <2>4
  <2> QED
    BY <1>e, <2>1, <2>2, <2>3, <2>5 DEF HashInv, AsDefined
<1>3. ASSUME NEW n \in 0 .. 1, HashUpdate(Text(n)) PROVE HashInv'
  <2>1. Text(n) \in Seq(TextBytes) /\ hashGiven \in Seq(TextBytes) /\ hashStart \in Seq(TextBytes)
    BY TextTyped DEF HashInv
  <2>2. /\ innerHasher' = innerHasher \o Text(n) /\ hashGiven' = hashGiven \o Text(n)
        /\ UNCHANGED <<hashKind, outerHasher, hashStart, hashSpent, hashOut, hashWanted>>
    BY <1>3 DEF HashUpdate
  <2>3. hashGiven' \in Seq(TextBytes)
    BY <2>1, <2>2
  <2>4. ASSUME hashSpent = 0, hashKind # "Hmac" PROVE innerHasher' = hashStart \o hashGiven'
    <3>1. innerHasher = hashStart \o hashGiven
      BY <2>4 DEF HashInv
    <3>2. (hashStart \o hashGiven) \o Text(n) = hashStart \o (hashGiven \o Text(n))
      BY <2>1
    <3> QED
      BY <2>2, <3>1, <3>2
  <2>5. ASSUME hashSpent = 0, hashKind = "Hmac"
        PROVE  innerHasher' = Xored(BlockKey(hashStart), {"ipad"}) \o hashGiven'
    <3> DEFINE key == Xored(BlockKey(hashStart), {"ipad"})
    <3>1. innerHasher = key \o hashGiven
      BY <2>5 DEF HashInv
    <3>2. PICK S : key \in Seq(S)
      BY KeySequence
    <3> HIDE DEF key
    <3>3. (key \o hashGiven) \o Text(n) = key \o (hashGiven \o Text(n))
      BY <2>1, <3>2, GivenBehind
    <3>4. innerHasher' = key \o hashGiven'
      BY <2>2, <3>1, <3>3
    <3> QED
      BY <3>4 DEF key
  <2> QED
    BY <2>1, <2>2, <2>3, <2>4, <2>5 DEF HashInv, AsDefined
<1>4. ASSUME NEW kind, NEW out, Finalized(kind, out), hashSpent = 0 => out = Wanted
      PROVE  HashInv'
  <2>1. /\ hashOut' = out /\ hashWanted' = (IF hashSpent = 0 THEN Wanted ELSE out)
        /\ hashSpent' = hashSpent + 1 /\ UNCHANGED <<hashKind, hashStart, hashGiven>>
    BY <1>4 DEF Finalized
  <2>2. hashOut' = hashWanted'
    BY <1>4, <2>1
  <2>3. hashSpent' \in Nat /\ hashSpent' # 0
    BY <2>1 DEF HashInv
  <2> QED
    BY <2>1, <2>2, <2>3 DEF HashInv, AsDefined
<1>5. CASE Hash256Finalize
  <2>1. hashKind = "Hash256" /\ Finalized("Hash256", Hashed("sha", Hashed("sha", innerHasher)))
    BY <1>5 DEF Hash256Finalize, Finalized
  <2>2. hashSpent = 0 => Hashed("sha", Hashed("sha", innerHasher)) = Wanted
    BY <2>1, WantedIs
  <2> QED
    BY <2>1, <2>2, <1>4
<1>6. CASE Hash160Finalize
  <2>1. hashKind = "Hash160" /\ Finalized("Hash160", Hashed("ripemd", Hashed("sha", innerHasher)))
    BY <1>6 DEF Hash160Finalize, Finalized
  <2>2. hashSpent = 0 => Hashed("ripemd", Hashed("sha", innerHasher)) = Wanted
    BY <2>1, WantedIs
  <2> QED
    BY <2>1, <2>2, <1>4
<1>7. CASE HmacFinalize
  <2>1. /\ hashKind = "Hmac"
        /\ Finalized("Hmac", Hashed("sha", outerHasher \o Hashed("sha", innerHasher)))
    BY <1>7 DEF HmacFinalize, Finalized
  <2>2. hashSpent = 0 => Hashed("sha", outerHasher \o Hashed("sha", innerHasher)) = Wanted
    BY <2>1, WantedIs
  <2> QED
    BY <2>1, <2>2, <1>4
<1>8. CASE UNCHANGED compositehashVars
  BY <1>8 DEF compositehashVars, HashInv, AsDefined
<1> QED
  BY <1>1, <1>2, <1>3, <1>5, <1>6, <1>7, <1>8 DEF CompositeHashNext

\* The hashers begin empty.
LEMMA HashBegins == CompositeHashInit => HashInv
<1> SUFFICES ASSUME CompositeHashInit PROVE HashInv
  OBVIOUS
<1>1. <<>> \in Seq(TextBytes) /\ <<>> \o <<>> = <<>>
  OBVIOUS
<1> QED
  BY <1>1 DEF CompositeHashInit, HashInv, AsDefined

\* For every block and digest size, key and text: the first digest after a construction or a
\* reset is the one its definition gives, of all that was given since, also for a Hmac whose
\* key is hashed first because it is longer than a block (hash256.cpp, hash160.cpp, hmac.hpp).
THEOREM AsDefinedHolds == CompositeHashSpec => []AsDefined
<1>1. HashInv => AsDefined
  BY DEF HashInv
<1> QED
  BY HashBegins, HashStep, <1>1, PTL DEF CompositeHashSpec

-----------------------------------------------------------------------------
\* For every size of block, digest and length field: the hashes made of other hashes and the
\* older SHA-256 give the digests they are defined by (hash256.cpp, hash160.cpp, hmac.hpp,
\* sha_2_256_old.cpp).
THEOREM DigestsHold == DigestsSpec => []DigestsAsDefined
<1>1. AsDefined /\ OldAgrees => DigestsAsDefined
  BY DEF DigestsAsDefined
<1> QED
  BY <1>1, AsDefinedHolds, OldAgreesHolds, PTL DEF DigestsSpec
=============================================================================
