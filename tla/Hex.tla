-------------------------------- MODULE Hex ---------------------------------
(* Hexadecimal text (hex.cpp, hex.hpp) and the hashes read from it and       *)
(* written to it (hash.hpp). A text is a sequence of one-letter strings,     *)
(* built letter by letter so that TLC meets every text up to a length; the   *)
(* unrolled loop of decode needs eight digits.                               *)
EXTENDS Integers, Sequences, SequencesExt, Bitwise

CONSTANTS
  HexLetters,       \* letters of the texts
  HexBound,         \* bound: length of a text
  kSize             \* bytes of a hash

VARIABLE hexText

hexVars == <<hexText>>

HexInit == hexText = <<>>
HexNext == Len(hexText) < HexBound /\ \E l \in HexLetters : hexText' = Append(hexText, l)

-----------------------------------------------------------------------------
kHexDigits == <<"0", "1", "2", "3", "4", "5", "6", "7", "8", "9", "a", "b", "c", "d", "e", "f">>
Upper == [a |-> "A", b |-> "B", c |-> "C", d |-> "D", e |-> "E", f |-> "F"]
IsDigit(l, i) == l = kHexDigits[i] \/ (i > 10 /\ l = Upper[kHexDigits[i]])

(* The value of a digit, alone and as the upper half; 255 for other letters. *)
kUnhexTable(l) == IF \E i \in 1..16 : IsDigit(l, i) THEN (CHOOSE i \in 1..16 : IsDigit(l, i)) - 1 ELSE 255
kUnhexTable4(l) == IF kUnhexTable(l) = 255 THEN 255 ELSE 16 * kUnhexTable(l)

HasPrefix(s) == Len(s) >= 2 /\ s[1] = "0" /\ s[2] \in {"x", "X"}
Unprefixed(s) == IF HasPrefix(s) THEN SubSeq(s, 3, Len(s)) ELSE s

Bad == <<256>>      \* kInvalidHexDigit

\* Mutant: only the first and the last digit of a group are checked.
InvalidEnds(f, i) == (f[4 * i - 3] | f[4 * i]) = 255

(* The check of the i-th group of four bytes, for one half of their digits. *)
Invalid(f, i) == (((f[4 * i - 3] | f[4 * i - 2]) | f[4 * i - 1]) | f[4 * i]) = 255

(* An odd digit first, then groups of four bytes, each with one check for    *)
(* all its digits, then the bytes left over.                                 *)
Decode(source) ==
  LET s == Unprefixed(source)
      odd == Len(s) % 2
      pairs == Len(s) \div 2
      hi == [i \in 1..pairs |-> kUnhexTable4(s[odd + 2 * i - 1])]
      lo == [i \in 1..pairs |-> kUnhexTable(s[odd + 2 * i])]
  IN  IF \/ odd = 1 /\ kUnhexTable(s[1]) = 255
         \/ \E i \in 1..(pairs \div 4) : Invalid(lo, i) \/ Invalid(hi, i)
         \/ \E i \in (4 * (pairs \div 4) + 1)..pairs : hi[i] = 255 \/ lo[i] = 255
      THEN Bad
      ELSE (IF odd = 1 THEN <<kUnhexTable(s[1])>> ELSE <<>>) \o [i \in 1..pairs |-> hi[i] | lo[i]]

Encode(bytes, with_prefix) ==
  (IF with_prefix THEN <<"0", "x">> ELSE <<>>)
  \o [i \in 1..(2 * Len(bytes)) |->
        kHexDigits[1 + (IF i % 2 = 1 THEN bytes[(i + 1) \div 2] \div 16 ELSE bytes[i \div 2] % 16)]]

(* Pairs from the last to the first; an odd digit becomes a pair. *)
ReverseHex(source) ==
  LET s == Unprefixed(source)
      pairs == Len(s) \div 2
  IN  (IF HasPrefix(source) THEN <<"0", "x">> ELSE <<>>)
      \o [i \in 1..(2 * pairs) |-> s[Len(s) - i + (IF i % 2 = 1 THEN 0 ELSE 2)]]
      \o (IF Len(s) % 2 = 1 THEN <<"0", s[1]>> ELSE <<>>)

ZerolessView(bytes) ==
  LET first == SelectInSeq(bytes, LAMBDA b : b # 0)
  IN  IF first = 0 THEN <<>> ELSE SubSeq(bytes, first, Len(bytes))

(* encode of an unsigned integer, given as its bytes in big-endian order. *)
EncodeIntegral(bytes, with_prefix) ==
  LET hexed == Encode(ZerolessView(bytes), with_prefix)
  IN  IF Len(hexed) = (IF with_prefix THEN 2 ELSE 0) THEN hexed \o <<"0", "0">> ELSE hexed

(* Hash(ByteView): right aligned, all zeroes when there are too many bytes. *)
Hash(bytes) ==
  [i \in 1..kSize |->
     LET j == i - (kSize - Len(bytes)) IN IF Len(bytes) > kSize \/ j < 1 THEN 0 ELSE bytes[j]]

-----------------------------------------------------------------------------
(* decode without tables and groups: what a hexadecimal number means. *)
Meaning(source) ==
  LET s == Unprefixed(source)
      even == IF Len(s) % 2 = 1 THEN <<"0">> \o s ELSE s
      Value(l) == CHOOSE v \in 0..15 : IsDigit(l, v + 1)
  IN  IF \E i \in 1..Len(s) : \A d \in 1..16 : ~IsDigit(s[i], d) THEN Bad
      ELSE [i \in 1..(Len(even) \div 2) |-> 16 * Value(even[2 * i - 1]) + Value(even[2 * i])]

(* For every text: decode gives the bytes the digits mean and refuses any    *)
(* other letter wherever it stands; what encode makes of the bytes decodes   *)
(* to them again, with and without prefix, for an integer without its        *)
(* leading zeroes; reverse_hex reverses the bytes; and a hash survives its   *)
(* way through text.                                                         *)
HexSound ==
  LET bytes == Decode(hexText)
      nonzero == ZerolessView(bytes)
  IN  /\ bytes = Meaning(hexText)
      /\ bytes # Bad =>
           /\ \A p \in BOOLEAN : Decode(Encode(bytes, p)) = bytes
           /\ \A p \in BOOLEAN :
                Decode(EncodeIntegral(bytes, p)) = IF nonzero = <<>> THEN <<0>> ELSE nonzero
           /\ Decode(ReverseHex(hexText)) = Reverse(bytes)
           /\ Hash(Decode(Encode(Hash(bytes), FALSE))) = Hash(bytes)

=============================================================================
