----------------------------- MODULE DataStream -----------------------------
(* DataStream (stream.cpp) and the integers written to it and read from it   *)
(* (serialize.hpp): fixed sizes, bools and compact sizes. Bytes have Base    *)
(* values (the code: 256) and the sizes of the integer types are constants   *)
(* (the code: 2, 4 and 8 bytes), so that every case of the compact size      *)
(* appears with small numbers. Counts passed to skip are far from wrapping   *)
(* the read position around.                                                 *)
EXTENDS Integers, Sequences, SequencesExt

CONSTANTS
  Base,             \* values of a byte
  Size16, Size32, Size64, \* bytes of uint16_t, uint32_t and uint64_t
  kMaxSerializedCompactSize,
  CompactValues,    \* compact sizes and integers of Size32 bytes the program
  DataValues,       \* writes: the values at the boundaries
  StreamBound       \* bound: bytes in a stream the program itself fills

VARIABLES
  buffer, read_position,
  items,            \* what was written and is still in the buffer (history)
  passed,           \* how many of items the read position has passed (history)
  got               \* what the last read did (history)

datastreamVars == <<buffer, read_position, items, passed, got>>

(* What fits in k bytes is below Power[k]. *)
Power[k \in 0..Size64] == IF k = 0 THEN 1 ELSE Base * Power[k - 1]

ASSUME SizesAssumption ==
  /\ Base \in Nat /\ Size16 \in Nat /\ Size32 \in Nat /\ Size64 \in Nat
  /\ Base > 3 /\ 0 < Size16 /\ Size16 < Size32 /\ Size32 < Size64
  /\ kMaxSerializedCompactSize \in Nat /\ StreamBound \in Nat
  /\ CompactValues \subseteq 0..(Power[Size64] - 1) /\ DataValues \subseteq 0..(Power[Size32] - 1)

Bytes == 0..(Base - 1)
Prefix(k) == Base - 4 + k           \* 253, 254 and 255 for k = 1, 2, 3

(* Bytes in memory order on a little-endian machine, low byte first. *)
Little(n, size) == [i \in 1..size |-> (n \div Power[i - 1]) % Base]
FromLittle(b) ==
  LET value[k \in 0..Len(b)] == IF k = 0 THEN 0 ELSE value[k - 1] * Base + b[Len(b) - k + 1]
  IN  value[Len(b)]

CompactSizeof(n) ==
  CASE n < Prefix(1) -> 1
    [] n >= Prefix(1) /\ n < Power[Size16] -> 1 + Size16
    [] n >= Power[Size16] /\ n < Power[Size32] -> 1 + Size32
    [] OTHER -> 1 + Size64

WriteCompact(n) ==
  LET size == CompactSizeof(n) - 1
  IN  CASE size = 0 -> Little(n, 1)
        [] size = Size16 -> <<Prefix(1)>> \o Little(n, size)
        [] size = Size32 -> <<Prefix(2)>> \o Little(n, size)
        [] OTHER -> <<Prefix(3)>> \o Little(n, size)

(* write_data; a bool is one byte, 0 for true. *)
Encoding(item) ==
  CASE item.kind = "compact" -> WriteCompact(item.value)
    [] item.kind = "bool" -> <<IF item.value = 1 THEN 0 ELSE 1>>
    [] OTHER -> Little(item.value, item.size)

Item(kind, n, size) == [kind |-> kind, value |-> n, size |-> size]
Items ==
  {Item("compact", n, 0) : n \in CompactValues} \union {Item("data", n, Size32) : n \in DataValues}
  \union {Item("bool", n, 1) : n \in 0..1}

-----------------------------------------------------------------------------
Stream(b, p) == [buffer |-> b, pos |-> p, value |-> -1, err |-> "kSuccess"]
Failed(s, err) == [buffer |-> s.buffer, pos |-> s.pos, value |-> -1, err |-> err]

(* read_data: DataStream::read, then shrink drops all up to the new position.*)
ReadData(s, size) ==
  IF s.pos + size > Len(s.buffer) THEN Failed(s, "kReadBeyondData")
  ELSE [buffer |-> SubSeq(s.buffer, s.pos + size + 1, Len(s.buffer)), pos |-> 0, err |-> "kSuccess",
        value |-> FromLittle(SubSeq(s.buffer, s.pos + 1, s.pos + size))]

\* Mutant: the smallest values of the longer forms are not checked for.
ReadCompactLenient(s) ==
  LET prefix == ReadData(s, 1)
      k == prefix.value - Prefix(1) + 1
      r == IF prefix.err # "kSuccess" \/ k < 1 THEN prefix
           ELSE ReadData(prefix, <<Size16, Size32, Size64>>[k])
  IN  IF r.err = "kSuccess" /\ r.value > kMaxSerializedCompactSize THEN Failed(r, "kCompactSizeTooBig") ELSE r

(* read_compact: what a failure consumed stays consumed. *)
ReadCompact(s) ==
  LET prefix == ReadData(s, 1)
      k == prefix.value - Prefix(1) + 1
      long == ReadData(prefix, <<Size16, Size32, Size64>>[k])
      least == <<Prefix(1), Power[Size16], Power[Size32]>>[k]
      r == IF prefix.err # "kSuccess" \/ k < 1 THEN prefix
           ELSE IF long.err = "kSuccess" /\ long.value < least THEN Failed(long, "kNonCanonicalCompactSize")
           ELSE long
  IN  IF r.err = "kSuccess" /\ r.value > kMaxSerializedCompactSize THEN Failed(r, "kCompactSizeTooBig") ELSE r

-----------------------------------------------------------------------------
NothingRead == [item |-> Item("none", -1, 0), bytes |-> <<>>, value |-> -1, err |-> "kSuccess"]

(* An empty stream, or one with the bytes of some message in it. *)
DataStreamInit ==
  /\ buffer \in BoundedSeq(Bytes, Size64 + 1)
  /\ read_position = 0 /\ items = <<>> /\ passed = 0 /\ got = NothingRead

Own == items # <<>> \/ buffer = <<>>        \* filled by this program

Write ==
  /\ Own
  /\ \E item \in Items :
       /\ Len(buffer) + Len(Encoding(item)) <= StreamBound
       /\ buffer' = buffer \o Encoding(item)
       /\ items' = Append(items, item)
  /\ UNCHANGED <<read_position, passed, got>>

(* Reads the item at the read position by the function for its kind. *)
ReadItem ==
  /\ passed < Len(items)
  /\ LET item == items[passed + 1]
         r == IF item.kind = "compact" THEN ReadCompact(Stream(buffer, read_position))
              ELSE ReadData(Stream(buffer, read_position), item.size)
     IN  /\ buffer' = r.buffer /\ read_position' = r.pos
         /\ items' = SubSeq(items, passed + 2, Len(items))
         /\ got' = [item |-> item, bytes |-> <<>>, value |-> r.value, err |-> r.err]
  /\ passed' = 0

(* Reads a compact size from a message. *)
ReadReceived ==
  /\ ~Own
  /\ LET r == ReadCompact(Stream(buffer, read_position))
     IN  /\ buffer' = r.buffer /\ read_position' = r.pos
         /\ got' = [item |-> Item("none", -1, 0), value |-> r.value, err |-> r.err,
                    bytes |-> SubSeq(buffer, 1, Len(buffer) - Len(r.buffer))]
  /\ UNCHANGED <<items, passed>>

(* skip over an item, which stays in the buffer. *)
Skip ==
  /\ passed < Len(items)
  /\ LET next == read_position + Len(Encoding(items[passed + 1]))
     IN  read_position' = IF next < Len(buffer) THEN next ELSE Len(buffer)
  /\ passed' = passed + 1
  /\ UNCHANGED <<buffer, items, got>>

(* seekp back to the beginning. *)
Seekp ==
  /\ passed > 0
  /\ read_position' = 0 /\ passed' = 0
  /\ UNCHANGED <<buffer, items, got>>

Shrink ==
  /\ passed > 0
  /\ buffer' = SubSeq(buffer, read_position + 1, Len(buffer)) /\ read_position' = 0
  /\ items' = SubSeq(items, passed + 1, Len(items)) /\ passed' = 0
  /\ UNCHANGED got

(* get_clear into an empty stream, which takes this one's place. *)
GetClear ==
  /\ buffer' = SubSeq(buffer, read_position + 1, Len(buffer))
  /\ items' = SubSeq(items, passed + 1, Len(items))
  /\ read_position' = 0 /\ passed' = 0
  /\ UNCHANGED got

Clear ==
  /\ buffer' = <<>> /\ read_position' = 0
  /\ items' = <<>> /\ passed' = 0
  /\ UNCHANGED got

DataStreamNext == Write \/ ReadItem \/ ReadReceived \/ Skip \/ Seekp \/ Shrink \/ GetClear \/ Clear

DataStreamSpec == DataStreamInit /\ [][DataStreamNext]_datastreamVars

-----------------------------------------------------------------------------
(* The state is well typed. *)
DataStreamTypeOK ==
  /\ \A i \in 1..Len(buffer) : buffer[i] \in Bytes
  /\ read_position \in 0..Len(buffer)
  /\ passed \in 0..Len(items) /\ \A i \in 1..Len(items) : items[i] \in Items

(* Items one after the other. *)
Layout(its) ==
  LET bytes[k \in 0..Len(its)] == IF k = 0 THEN <<>> ELSE bytes[k - 1] \o Encoding(its[k])
  IN  bytes[Len(its)]

(* However a stream is filled, read, skipped, rewound, shrunk and emptied    *)
(* into another: each integer is read back as it was written (a compact size *)
(* over the limit is refused), the bytes left are the items left, and from a *)
(* message read_compact accepts nothing but what write_compact writes for    *)
(* the value it returns (write_data, write_compact, read_data, read_compact).*)
StreamReadsBack ==
  /\ DataStreamTypeOK
  /\ items # <<>> => buffer = Layout(items)
  /\ got.item.kind = "data" => got.err = "kSuccess" /\ got.value = got.item.value
  /\ got.item.kind = "compact" =>
       IF got.item.value > kMaxSerializedCompactSize THEN got.err = "kCompactSizeTooBig"
       ELSE got.err = "kSuccess" /\ got.value = got.item.value
  /\ got.bytes # <<>> /\ got.err = "kSuccess" =>
       got.bytes = WriteCompact(got.value) /\ got.value <= kMaxSerializedCompactSize
=============================================================================
