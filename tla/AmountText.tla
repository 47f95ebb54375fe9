----------------------------- MODULE AmountText ------------------------------
(***************************************************************************)
(* Amounts as text (btcamount.rs): BtcAmount::from_text() and Display.     *)
(* Characters are numbers: the digits, and the three below.  A unit has    *)
(* 10^Decimals parts, and an amount has Bits bits.                         *)
(***************************************************************************)
EXTENDS Naturals, Sequences, SequencesExt

CONSTANTS
  Decimals,  \* 8 in the code
  Bits       \* 64 in the code

Dot == 10
Plus == 11
Letter == 12  \* "x", and any other character

MaxAmount == 2^Bits - 1

Digit == 0 .. 9

(* An amount, or the error that is met first.                              *)
Amount(v) == [error |-> "none", v |-> v]
Error(e) == [error |-> e, v |-> 0]

(* checked_mul and checked_add: base * v + d, if it is at most MaxAmount.  *)
Appended(v, base, d) ==
  IF base * v + d > MaxAmount THEN Error("Overflow") ELSE Amount(base * v + d)

ReadDigits(s, base) ==
  FoldLeft(LAMBDA r, c :
             IF r.error # "none" THEN r
             ELSE IF c \notin Digit THEN Error("InvalidAmount")
             ELSE Appended(r.v, base, c),
           Amount(0), s)

(* A leading "+" is allowed, then there are digits and nothing else.       *)
ParseDigits(s, base) ==
  LET digits == IF s # <<>> /\ Head(s) = Plus THEN Tail(s) ELSE s
      r == ReadDigits(digits, base)
  IN  IF r.error = "none" /\ digits = <<>> THEN Error("InvalidAmount") ELSE r

RECURSIVE Scaled(_, _)
Scaled(r, n) ==
  IF n = 0 \/ r.error # "none" THEN r
  ELSE Scaled(Appended(r.v, 10, 0), n - 1)

(* Mutated form: one place too many.                                      *)
Places_More(s, dot) == Decimals - (Len(s) - dot) + 1

(* The places that are missing after the dot.                              *)
Places(s, dot) == Decimals - (Len(s) - dot)

FromText(s) ==
  LET dots == {i \in DOMAIN s : s[i] = Dot}
      dot  == CHOOSE i \in dots : \A j \in dots : i <= j
  IN
  IF Len(s) >= 2 /\ s[1] = 0 /\ s[2] = Letter
    THEN ParseDigits(SubSeq(s, 3, Len(s)), 16)
  ELSE IF dots = {} THEN Scaled(ParseDigits(s, 10), Decimals)
  ELSE IF Len(s) - dot > Decimals THEN Error("TooManyDecimals")
  ELSE Scaled(ParseDigits(RemoveAt(s, dot), 10), Places(s, dot))

(* The n decimal digits of v.                                              *)
Digits(v, n) == [i \in 1 .. n |-> (v \div 10^(n - i)) % 10]

NumDigits(v) == CHOOSE n \in 1 .. 10 : v < 10^n /\ (n = 1 \/ v >= 10^(n - 1))

Display(v) ==
  LET whole == v \div 10^Decimals
  IN  Digits(whole, NumDigits(whole)) \o <<Dot>> \o Digits(v % 10^Decimals, Decimals)

----------------------------------------------------------------------------

(* What is written reads back, up to the largest amount.                   *)
DisplayReadsBack(v) == FromText(Display(v)) = Amount(v)

(* What decimal text stands for, digit by digit on both sides of the dot.  *)
ValueOf(whole, part) ==
  FoldLeft(LAMBDA v, d : 10 * v + d, 0,
           whole \o part \o [i \in 1 .. (Decimals - Len(part)) |-> 0])

(* Text with a sign in front or a dot, or none, is read as what it stands  *)
(* for, or refused because it is too large or too exact: nothing is        *)
(* rounded and nothing wraps around.                                       *)
DecimalIsExact(sign, whole, part) ==
  LET text == sign \o whole \o <<Dot>> \o part
  IN
  IF Len(part) > Decimals THEN FromText(text) = Error("TooManyDecimals")
  ELSE IF whole \o part = <<>> THEN FromText(text) = Error("InvalidAmount")
  ELSE FromText(text) = IF ValueOf(whole, part) > MaxAmount THEN Error("Overflow")
                        ELSE Amount(ValueOf(whole, part))

WholeIsExact(sign, whole) ==
  FromText(sign \o whole) =
    IF whole = <<>> THEN Error("InvalidAmount")
    ELSE IF ValueOf(whole, <<>>) > MaxAmount THEN Error("Overflow")
    ELSE Amount(ValueOf(whole, <<>>))

(* A sign behind the dot is refused, but where it is the first character   *)
(* that is left without the dot: there it counts as a place.               *)
SignBehindDot(sign, whole, part) ==
  LET r == FromText(sign \o whole \o <<Dot, Plus>> \o part)
  IN
  IF sign \o whole = <<>> /\ part # <<>> /\ Len(part) < Decimals
    THEN r = Amount(ValueOf(<<>>, <<0>> \o part))
  ELSE r.error # "none"
=============================================================================
