------------------------------- MODULE Digest -------------------------------
(***************************************************************************)
(* What a Merkle-Damgard hasher promises: the digest is that of the whole  *)
(* message, padded as FIPS 180-4 says, however the message was cut into    *)
(* updates.  The compression function is left out: the digest is the       *)
(* padded message it would run over.                                       *)
(***************************************************************************)
EXTENDS Naturals, Sequences

CONSTANTS
  BlockSize,   \* bytes in a block
  LengthSize,  \* bytes in the length field that ends the padding
  LittleEndian \* the order of the bytes in the length field

VARIABLES
  message,  \* the bytes given since the last reset, with the padding once finalized
  digest    \* the last digest

Byte == 0 .. 255

\* The length of a message of n bytes in bits, as LengthSize bytes.
LengthField(n) ==
  LET Significance(i) == IF LittleEndian THEN i - 1 ELSE LengthSize - i
  IN  [i \in 1 .. LengthSize |-> ((8 * n) \div 256 ^ Significance(i)) % 256]

\* The fewest zero bytes that fill the last block between the mark and the length.
ZeroCount(n) ==
  CHOOSE k \in 0 .. BlockSize - 1 : (n + 1 + k + LengthSize) % BlockSize = 0

Padded(m) ==
  m \o <<128>> \o [i \in 1 .. ZeroCount(Len(m)) |-> 0] \o LengthField(Len(m))

Init == message = <<>> /\ digest = <<>>

Reset == message' = <<>> /\ UNCHANGED digest

\* Any bytes may be appended.
Update ==
  /\ Len(message') > Len(message)
  /\ SubSeq(message', 1, Len(message)) = message
  /\ UNCHANGED digest

Finalize ==
  /\ message' = Padded(message)
  /\ digest' = Padded(message)

Next == Reset \/ Update \/ Finalize

Spec == Init /\ [][Next]_<<message, digest>>
=============================================================================
