----------------------------- MODULE HumanText ------------------------------
(* Quantities as text for people: byte counts (to_human_bytes and            *)
(* parse_human_bytes of misc.cpp) and durations (StopWatch::format). A text  *)
(* is the numbers and the unit it shows. The units are constants: fewer      *)
(* bytes in a kilobyte and ticks in a second let every suffix appear.        *)
EXTENDS Integers, Sequences

CONSTANTS
  Divisors,         \* bytes in a kB and in a KiB (the code: 1000 and 1024)
  TimeUnits,        \* ticks in a us, ms, s, minute, hour and day
  QuantityBound     \* bound: the largest quantity

VARIABLE quantity

humantextVars == <<quantity>>

ASSUME DivisorsAssumption == Divisors \subseteq Nat \ {0, 1} /\ QuantityBound \in Nat
ASSUME TimeUnitsAssumption ==
  /\ DOMAIN TimeUnits = 1..6 /\ \A i \in 1..6 : TimeUnits[i] \in Nat \ {0}
  /\ \A i \in 1..5 : TimeUnits[i + 1] % TimeUnits[i] = 0

HumanTextInit == quantity = 0
HumanTextNext ==
  \E bit \in 0..1 : 2 * quantity + bit <= QuantityBound /\ quantity' = 2 * quantity + bit

HumanTextSpec == HumanTextInit /\ [][HumanTextNext]_humantextVars

-----------------------------------------------------------------------------
UnitSuffixes == 5       \* B, KB, MB, GB, TB and their binary relatives

(* What a suffix multiplies by, and what the loop over the suffixes has      *)
(* divided by after i of them.                                               *)
Multiplier(divisor, i) ==
  LET d == divisor
  IN  <<1, d, d * d, d * d * d, d * d * d * d, d * d * d * d * d>>[i + 1]
Bases == <<10, 100, 1000>>      \* of a fraction of one, two or three digits

(* The loop that divides: how often depends on the number of suffixes. *)
SuffixIndex(n, divisor) ==
  CHOOSE i \in 0..UnitSuffixes :
    /\ i = UnitSuffixes \/ n < Multiplier(divisor, i + 1)
    /\ \A j \in 0..(i - 1) : n >= Multiplier(divisor, j + 1)

(* Two decimals, rounded to the nearest; none for bytes. *)
ToHumanBytes(n, divisor) ==
  LET index == SuffixIndex(n, divisor)
      unit == Multiplier(divisor, index)
      hundredths == (200 * n + unit) \div (2 * unit)
  IN  IF index = 0 THEN [whole |-> n, fract |-> 0, digits |-> 0, suffix |-> 0]
      ELSE [whole |-> hundredths \div 100, fract |-> hundredths % 100, digits |-> 2, suffix |-> index]

\* Mutant: the fraction is always taken for tenths.
ParseTenths(text, divisor) ==
  LET multiplier == Multiplier(divisor, text.suffix)
  IN  text.whole * multiplier + (multiplier * text.fract) \div 10

(* A fraction counts for as many decimals as it has digits, not for bytes. *)
ParseHumanBytes(text, divisor) ==
  LET multiplier == Multiplier(divisor, text.suffix)
  IN  text.whole * multiplier
      + IF multiplier > 1 /\ text.digits > 0 THEN (multiplier * text.fract) \div Bases[text.digits] ELSE 0

(* Which units of a duration are shown, from index i of TimeUnits on. *)
LeastShown(d) ==
  CASE d >= TimeUnits[4] -> 3        \* days to seconds
    [] d >= TimeUnits[3] /\ d < TimeUnits[4] -> 2        \* seconds and milliseconds
    [] OTHER -> 1                    \* milliseconds and microseconds, or less

(* The count of unit i, after the greater units have been taken off. *)
Count(d, i) == (IF i = 6 THEN d ELSE d % TimeUnits[i + 1]) \div TimeUnits[i]
Format(d) == [i \in 1..6 |-> IF i < LeastShown(d) THEN 0 ELSE Count(d, i)]

-----------------------------------------------------------------------------
Shown(f) ==
  f[1] * TimeUnits[1] + f[2] * TimeUnits[2] + f[3] * TimeUnits[3]
  + f[4] * TimeUnits[4] + f[5] * TimeUnits[5] + f[6] * TimeUnits[6]

(* A byte count below a thousand terabytes has a suffix, and its text is     *)
(* read back as the same count up to the two decimals it shows; a duration   *)
(* is shown down to its least unit with nothing lost above it, and with no   *)
(* unit at or above the next greater one.                                    *)
HumanSound ==
  /\ \A divisor \in Divisors : quantity < Multiplier(divisor, UnitSuffixes) =>
       LET text == ToHumanBytes(quantity, divisor)
           back == ParseHumanBytes(text, divisor)
           off == IF back > quantity THEN back - quantity ELSE quantity - back
       IN  /\ text.suffix < UnitSuffixes
           /\ off <= Multiplier(divisor, text.suffix) \div 200 + 1
           /\ text.suffix = 0 => back = quantity
  /\ LET text == Format(quantity)
     IN  /\ quantity - Shown(text) \in 0..(TimeUnits[LeastShown(quantity)] - 1)
         /\ \A i \in 1..5 : text[i] * TimeUnits[i] < TimeUnits[i + 1]

(* Every byte count has a suffix, as misc.hpp:25 promises: the index         *)
(* to_human_bytes looks up at misc.cpp:92 is one of the array. The loop at   *)
(* misc.cpp:85 may leave it one past the last.                               *)
SuffixShown == \A divisor \in Divisors : ToHumanBytes(quantity, divisor).suffix < UnitSuffixes

=============================================================================
