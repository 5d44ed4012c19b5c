------------------------------ MODULE Amounts -------------------------------
(* Amount: arithmetic on 64-bit amounts, their text and back (amounts.cpp).  *)
(* The decimals, the supply and the width of the integer are constants (the  *)
(* code: 8, 21000000 and 2^63). A text is a sequence of one-letter strings.  *)
EXTENDS Integers, Sequences, SequencesExt

CONSTANTS
  kCoinMaxDecimals, kCoinMaxSupply,
  AmountLimit,      \* amounts are -AmountLimit .. AmountLimit - 1
  AmountLetters, AmountBound, \* letters and bound of the texts offered to parse
  AmountSteps       \* operands of the arithmetic

VARIABLES amount, amountText

amountsVars == <<amount, amountText>>

kCoin == 10 ^ kCoinMaxDecimals
kMax == kCoinMaxSupply * kCoin
ASSUME AmountAssumption == kMax < AmountLimit

AmountsInit == amount = 0 /\ amountText = <<>>

(* Overflow of a signed integer is undefined: the amount may be anything. *)
AmountRange == (-AmountLimit)..(AmountLimit - 1)
Outcomes(n) == IF n \in AmountRange THEN {n} ELSE AmountRange

(* Arithmetic between texts. *)
Change ==
  /\ amountText = <<>>
  /\ \E n \in AmountSteps :
       amount' \in Outcomes(amount + n) \union Outcomes(amount - n) \union Outcomes(amount * n)
  /\ UNCHANGED amountText
Type ==
  /\ amount = 0 /\ Len(amountText) < AmountBound
  /\ \E l \in AmountLetters : amountText' = Append(amountText, l)
  /\ UNCHANGED amount

-----------------------------------------------------------------------------
Digit == <<"0", "1", "2", "3", "4", "5", "6", "7", "8", "9">>
IsDigits(s) == \A i \in 1..Len(s) : s[i] \in ToSet(Digit)
Number(s) == FoldLeft(LAMBDA n, l : 10 * n + SelectInSeq(Digit, LAMBDA d : d = l) - 1, 0, s)
Width(n) == CHOOSE w \in 1..9 : n < 10 ^ w /\ (w = 1 \/ n >= 10 ^ (w - 1))
Decimal(n, w) == [i \in 1..w |-> Digit[1 + ((n \div 10 ^ (w - i)) % 10)]]

ValidMoney(n) == n >= 0 /\ n <= kMax

(* std::div rounds towards zero. The quotient prints its own sign after the  *)
(* one that stands for the amount. The currency at the end is left out.      *)
AmountToString(n) ==
  LET size == IF n < 0 THEN -n ELSE n
      quot == size \div kCoin
      sign == IF n < 0 THEN IF quot > 0 THEN <<"-", "-">> ELSE <<"-">> ELSE <<>>
      formatted == sign \o Decimal(quot, Width(quot)) \o <<".">> \o Decimal(size % kCoin, kCoinMaxDecimals)
      kept == SelectLastInSeq(formatted, LAMBDA l : l # "0")
  IN  IF n = 0 THEN <<"0">>
      ELSE SubSeq(formatted, 1, IF formatted[kept] = "." THEN kept - 1 ELSE kept)

\* Mutant: the fraction is not filled up with zeroes.
FractUnpadded(s) == Number(s)

(* The fraction with zeroes up to the number of decimals. *)
Fract(s) == Number(s) * 10 ^ (kCoinMaxDecimals - Len(s))

(* Refused is -1 for a text that does not match, -2 for one out of range. *)
Parse(s) ==
  LET dot == SelectInSeq(s, LAMBDA l : l = ".")
      whole == IF dot = 0 THEN s ELSE SubSeq(s, 1, dot - 1)
      fract == IF dot = 0 THEN <<>> ELSE SubSeq(s, dot + 1, Len(s))
      value == Number(whole) * kCoin + Fract(fract)
  IN  CASE \/ ~IsDigits(whole) \/ ~IsDigits(fract)
           \/ Len(whole) > Width(kCoinMaxSupply) \/ Len(fract) > kCoinMaxDecimals -> -1
        [] OTHER -> IF ValidMoney(value) THEN value ELSE -2

(* An amount is taken from the text. *)
Load ==
  /\ amountText # <<>> /\ Parse(amountText) >= 0
  /\ amount' = Parse(amountText) /\ amountText' = <<>>

AmountsNext == Change \/ Type \/ Load

AmountsSpec == AmountsInit /\ [][AmountsNext]_amountsVars

-----------------------------------------------------------------------------
(* Whatever the arithmetic did, overflows included: a valid amount is read   *)
(* back from its own text, the text of an amount out of range is refused,    *)
(* and a text that is accepted is written as a text that means the same      *)
(* (Amount::to_string, Amount::parse). What is accepted is a number within   *)
(* the supply.                                                               *)
AmountSound ==
  LET parsed == Parse(amountText)
  IN  /\ ValidMoney(amount) => Parse(AmountToString(amount)) = amount
      /\ ~ValidMoney(amount) => Parse(AmountToString(amount)) < 0
      /\ parsed >= 0 => ValidMoney(parsed) /\ Parse(AmountToString(parsed)) = parsed
      /\ parsed >= 0 /\ Len(amountText) > 0 /\ amountText[1] # "0" /\ "." \notin ToSet(amountText)
           => AmountToString(parsed) = amountText
=============================================================================
