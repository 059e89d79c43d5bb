------------------------------- MODULE Amounts -------------------------------
(***************************************************************************)
(* How the domain reads an amount (parse_decimal of                        *)
(* src/domain/models/base.py), and how documents print one.                *)
(*                                                                         *)
(* A text is a sequence of characters; blanks at its ends are stripped     *)
(* before.  An amount is an integer of thousandths, the finest fraction    *)
(* that matters: a thousands separator taken for a decimal one.  What a    *)
(* text is read as is a set, empty when it is not an amount.               *)
(***************************************************************************)
EXTENDS Integers, SequencesExt

DigitAt == <<"0", "1", "2", "3", "4", "5", "6", "7", "8", "9">>

DigitChars == ToSet(DigitAt)

DigitValue(c) == SelectInSeq(DigitAt, LAMBDA d : d = c) - 1

(* The characters of a text that are among chars.                          *)
Only(text, chars) ==
  LET kept[i \in 0..Len(text)] ==
        IF i = 0 THEN << >>
        ELSE IF text[i] \in chars THEN Append(kept[i - 1], text[i])
        ELSE kept[i - 1]
  IN kept[Len(text)]

NumberChars == DigitChars \cup {",", ".", "-"}

Without(text, char) == Only(text, ToSet(text) \ {char})

LastAt(text, char) == SelectLastInSeq(text, LAMBDA c : c = char)

(* What digits are read as: nothing of them is zero.                       *)
Number(digits) ==
  LET number[i \in 0..Len(digits)] ==
        IF i = 0 THEN 0 ELSE 10 * number[i - 1] + DigitValue(digits[i])
  IN number[Len(digits)]

Thousandths == <<1000, 100, 10, 1>>

(* decimal.Decimal: an optional sign, digits, at most one point.  More     *)
(* than three decimals, which no convention below prints and no misreading *)
(* of one has, are beyond this unit and read as nothing here.              *)
Unsigned(text) ==
  LET digits   == Without(text, ".")
      point    == LastAt(text, ".")
      decimals == IF point = 0 THEN 0 ELSE Len(text) - point
  IN IF /\ digits # << >> /\ ToSet(digits) \subseteq DigitChars
        /\ Len(digits) >= Len(text) - 1 /\ decimals <= 3
     THEN {Number(digits) * Thousandths[decimals + 1]}
     ELSE {}

Signed(text) == text # << >> /\ Head(text) = "-"

DecimalOf(text) ==
  IF Signed(text) THEN {-amount : amount \in Unsigned(Tail(text))} ELSE Unsigned(text)

(* _CURRENCY_NOISE and the exotic spaces.                                  *)
Noiseless(text) == Only(text, NumberChars)

(* Seeded fault: commas are always thousands separators.                   *)
anglo_notation(text) == Without(text, ",")

(* The separator printed last is the decimal one.                          *)
DecimalNotation(text) ==
  IF LastAt(text, ",") > LastAt(text, ".")
  THEN ReplaceAll(Without(text, "."), ",", ".")
  ELSE Without(text, ",")

(* Accounting notation wraps negative amounts in parentheses.              *)
Accounting(text) == text # << >> /\ Head(text) = "(" /\ Last(text) = ")"

parse_decimal(text) ==
  {IF Accounting(text) THEN -amount ELSE amount :
     amount \in DecimalOf(DecimalNotation(Noiseless(text)))}

(* What the schema stores, to_flat_dict of the parsed amount: a plain      *)
(* decimal text, nothing for what is not an amount.                        *)
Stored(text) ==
  LET plain == DecimalNotation(Noiseless(text))
  IN IF parse_decimal(text) = {} THEN << >>
     ELSE IF ~Accounting(text) THEN plain
     ELSE IF Signed(plain) THEN Tail(plain)
     ELSE <<"-">> \o plain

-----------------------------------------------------------------------------
(* The printer's side.  A style has the separators of a convention and     *)
(* what is written before and after the number.                            *)
Digit(n) == DigitAt[(n % 10) + 1]

TwoDigits(n) == <<Digit(n \div 10), Digit(n)>>

ThreeDigits(n) == <<Digit(n \div 100), Digit(n \div 10), Digit(n)>>

Leading(n) ==
  IF n < 10 THEN <<Digit(n)>> ELSE IF n < 100 THEN TwoDigits(n) ELSE ThreeDigits(n)

Grouped(number, separator) ==
  LET grouped[n \in 0..number] ==
        IF n < 1000 THEN Leading(n)
        ELSE grouped[n \div 1000] \o separator \o ThreeDigits(n % 1000)
  IN grouped[number]

Whole(size) == size \div 1000

Cents(size) == (size % 1000) \div 10

(* An amount without its sign and what is around it.                       *)
Bare(size, style) ==
  Grouped(Whole(size), style.group) \o style.point \o TwoDigits(Cents(size))

Printed(amount, style) ==
  IF amount < 0 THEN <<"(">> \o Bare(-amount, style) \o <<")">>
  ELSE style.before \o Bare(amount, style) \o style.after
=============================================================================
