------------------------------- MODULE Money -------------------------------
(***************************************************************************)
(* The reading of prices and volumes: parse_price_string and               *)
(* parse_volume_string of streaming/money.py, which the CDC job uses, and  *)
(* their port to SQL (dbt/macros/parse_price.sql, stg_priceoverview.sql),  *)
(* which the warehouse uses on the same answers.                           *)
(*                                                                         *)
(* A text is a sequence of digits, of separators and of a sign, which      *)
(* stands for every other character.  A price is an integer of hundredths. *)
(* Texts have at most two digits after a decimal separator, so nothing is  *)
(* rounded.                                                                *)
(***************************************************************************)
EXTENDS Integers, SequencesExt

CONSTANTS
  Comma, Point, Space,
  Sign,       \* a character that is neither a digit nor a separator
  None,       \* no separator, and no value
  Amounts,    \* prices that are displayed
  TextDigits, \* digits in arbitrary texts
  MaxText     \* bound on the length of a text, for TLC

VARIABLE currency   \* the one that was asked for: it comes with the answer

Digits == 0..9

ASSUME MoneyAssumption ==
  /\ Amounts \subseteq Nat /\ TextDigits \subseteq Digits /\ MaxText \in Nat
  /\ IsInjective(<<Comma, Point, Space, Sign, None>>)
  /\ {Comma, Point, Space, Sign, None} \cap Digits = {}

-----------------------------------------------------------------------------
(* CURRENCY_NUMBER_FORMATS, by currency code.                              *)
DecimalPoint == {1, 2, 4, 13, 20, 23, 24}
DecimalComma == {3, 5, 7}
WholeUnits == {8, 10, 18}
Currencies == DecimalPoint \cup DecimalComma \cup WholeUnits

Formats ==
  [c \in Currencies |->
    [thousands |-> CASE c \in DecimalComma -> Point
                     [] c \in {10, 18} -> Space
                     [] OTHER -> Comma,
     decimal |-> CASE c \in DecimalPoint -> Point
                   [] c \in DecimalComma -> Comma
                   [] OTHER -> None]]

Keep(text, characters) ==
  FoldLeft(LAMBDA kept, x : IF x \in characters THEN Append(kept, x) ELSE kept, <<>>, text)
Delete(text, x) == Keep(text, Range(text) \ {x})
Replace(text, x, y) == [i \in DOMAIN text |-> IF text[i] = x THEN y ELSE text[i]]

Integral(digits) == FoldLeft(LAMBDA n, d : 10 * n + d, 0, digits)

(* float(kept) * 100: digits with at most one point among them.            *)
Hundredths(kept) ==
  LET digits == Delete(kept, Point)
      points == {i \in DOMAIN kept : kept[i] = Point}
      decimals == IF points = {} THEN 0 ELSE Len(kept) - CHOOSE i \in points : TRUE
  IN IF digits = <<>> \/ Cardinality(points) > 1 THEN None
     ELSE Integral(digits) * 10 ^ (2 - decimals)

(* Mutant: the decimal separator becomes a point before the thousands go.  *)
ParsePriceDecimalFirst(text, code) ==
  IF text = <<>> \/ code \notin Currencies THEN None
  ELSE LET f == Formats[code]
           kept == Keep(text, Digits \cup {f.thousands, f.decimal})
       IN Hundredths(Delete(Replace(kept, f.decimal, Point), f.thousands))

ParsePrice(text, code) ==
  IF text = <<>> \/ code \notin Currencies THEN None
  ELSE LET f == Formats[code]
           kept == Keep(text, Digits \cup {f.thousands, f.decimal})
       IN Hundredths(Replace(Delete(kept, f.thousands), f.decimal, Point))

ParseVolume(text) ==
  LET digits == Keep(text, Digits) IN IF digits = <<>> THEN None ELSE Integral(digits)

-----------------------------------------------------------------------------
(* The macro.  NULL propagates; a text without digits casts to NULL.       *)
(* Mutant, the first version: a separator that is missing is compared with *)
(* the empty string, and is NULL instead.                                  *)
ParsePriceSqlNullSeparator(text, code) ==
  IF code \notin Currencies THEN None
  ELSE LET f == Formats[code] IN
       IF f.decimal = None THEN None
       ELSE Hundredths(Replace(Delete(Keep(text, Digits \cup {f.thousands, f.decimal}),
                                      f.thousands), f.decimal, Point))

ParsePriceSql(text, code) ==
  IF code \notin Currencies THEN None
  ELSE LET f == Formats[code] IN
       IF f.decimal = None
       THEN LET digits == Delete(Keep(text, Digits \cup {f.thousands}), f.thousands)
            IN IF digits = <<>> THEN None ELSE Integral(digits) * 100
       ELSE Hundredths(Replace(Delete(Keep(text, Digits \cup {f.thousands, f.decimal}),
                                      f.thousands), f.decimal, Point))

-----------------------------------------------------------------------------
(* What Steam displays, from the samples beside the formats and in the     *)
(* fixtures of the tests: the whole part, in groups of three or not, and   *)
(* the decimals unless there are none, which is so in any currency.        *)

DecimalSign(code) == IF code \in DecimalComma \cup {18} THEN Comma ELSE Point

DigitsOf(n) ==
  LET digits[m \in 0..n] == IF m < 10 THEN <<m>> ELSE Append(digits[m \div 10], m % 10)
  IN digits[n]

InGroups(digits, separator) ==
  FlattenSeq([i \in DOMAIN digits |->
    IF i < Len(digits) /\ (Len(digits) - i) % 3 = 0
    THEN <<digits[i], separator>> ELSE <<digits[i]>>])

Displays(amount, code) ==
  LET whole == DigitsOf(amount \div 100)
      decimals == <<DecimalSign(code), (amount % 100) \div 10, amount % 10>>
      shown == IF amount % 100 = 0 THEN <<>> ELSE decimals
      thousands == Formats[code].thousands
  IN {<<Sign, Space>> \o w \o shown \o <<Sign>> : w \in {whole, InGroups(whole, thousands)}}

(* Answers come in any of the currencies, or without one.                  *)
MoneyInit == currency = None
MoneyNext == currency = None /\ currency' \in Currencies
MoneySpec == MoneyInit /\ [][MoneyNext]_currency

-----------------------------------------------------------------------------
(* Properties.                                                             *)

(* "never silently misparse a price" (money.py) holds of the currencies    *)
(* whose decimals are on record: both parsers find the amount in whatever  *)
(* displays it.  Of the others they find a whole amount, and read one that *)
(* comes with decimals as a hundred times what it is, without a word.      *)
PricesReadBack ==
  currency \in Currencies =>
    \A a \in Amounts :
      LET misread == currency \in WholeUnits /\ a % 100 # 0
          read == IF misread THEN 100 * a ELSE a
      IN \A text \in Displays(a, currency) :
           ParsePrice(text, currency) = read /\ ParsePriceSql(text, currency) = read

(* "Kept in sync deliberately" (parse_price.sql): whatever the text, the   *)
(* stream and the warehouse read the same price, or both none.             *)
Texts == UNION {[1..n -> TextDigits \cup {Comma, Point, Space, Sign}] : n \in 0..MaxText}

AtMostTwoDecimals(text, f) ==
  \A i \in DOMAIN text :
    text[i] = f.decimal =>
      Cardinality({j \in DOMAIN text : j > i /\ text[j] \in Digits}) <= 2

ParsersAgree ==
  currency \in Currencies =>
    \A text \in Texts : AtMostTwoDecimals(text, Formats[currency]) =>
      ParsePrice(text, currency) = ParsePriceSql(text, currency)
=============================================================================
