--------------------------------- MODULE Rlp ----------------------------------
(***************************************************************************)
(* RLP (rlp.rs).  A byte has Byte values: the lower half stand for         *)
(* themselves, a quarter begin strings and a quarter lists; LenLens of     *)
(* each quarter say how many bytes the length takes.                       *)
(***************************************************************************)
EXTENDS Naturals, Sequences, SequencesExt

CONSTANTS
  Byte,      \* 256 in the code
  LenLens    \* 8: a length takes up to that many bytes

Single  == Byte \div 2
Quarter == Byte \div 4
Short   == Quarter - 1 - LenLens   \* 55: the longest item in short form

Bytes(b) == [isList |-> FALSE, b |-> b, items |-> <<>>]
List(l)  == [isList |-> TRUE, b |-> <<>>, items |-> l]

(* to_be_bytes() and trim_left_zeros().                                    *)
RECURSIVE Trimmed(_)
Trimmed(v) == IF v = 0 THEN <<>> ELSE Append(Trimmed(v \div Byte), v % Byte)

Uint(v) == Bytes(Trimmed(v))

Number(b) == FoldLeft(LAMBDA v, d : v * Byte + d, 0, b)

EncodeLen(n, isList) ==
  LET base == Single + (IF isList THEN Quarter ELSE 0)
  IN  IF n <= Short THEN <<base + n>>
      ELSE <<base + Short + Len(Trimmed(n))>> \o Trimmed(n)

RECURSIVE Encode(_), EncodeAll(_)
EncodeAll(items) ==
  IF items = <<>> THEN <<>> ELSE Encode(Head(items)) \o EncodeAll(Tail(items))

Encode(item) ==
  IF item.isList
    THEN EncodeLen(Len(EncodeAll(item.items)), TRUE) \o EncodeAll(item.items)
  ELSE IF Len(item.b) = 1 /\ item.b[1] < Single THEN item.b
  ELSE EncodeLen(Len(item.b), FALSE) \o item.b

EncodeList(items) == Encode(List(items))

----------------------------------------------------------------------------
(* The items of a string of bytes, or an error.                            *)

Items(items) == [error |-> "none", items |-> items]
Error(e) == [error |-> e, items |-> <<>>]

Redundant(v) == Len(v) = 1 /\ v[1] < Single

(* Mutated form: a length in long form may be one that fits the short.     *)
NonCanonicalSize_Fits(digits) == digits[1] = 0

(* Mutated form: a length may begin with zeros.                            *)
NonCanonicalSize_Zeros(digits) == Number(digits) <= Short

(* The digits of a length in long form.                                    *)
NonCanonicalSize(digits) == digits[1] = 0 \/ Number(digits) <= Short

(* Where the payload of the first item is: after its head, or an error.    *)
HeadOf(buf) ==
  LET n    == (buf[1] - Single) % Quarter
      lens == n - Short
      digits == SubSeq(buf, 2, 1 + lens)
      ln   == Number(digits)
      Head_(e, from, len) == [error |-> e, from |-> from, len |-> len]
  IN
  IF Len(buf) - 1 < n THEN Head_("UnexpectedEof", 0, 0)
  ELSE IF n <= Short THEN Head_("none", 2, n)
  ELSE IF NonCanonicalSize(digits) THEN Head_("NonCanonicalSize", 0, 0)
  ELSE IF Len(buf) - 1 - lens < ln THEN Head_("UnexpectedEof", 0, 0)
  ELSE Head_("none", 2 + lens, ln)

(* An item, and what the rest of the bytes holds.                           *)
Before(item, rest) == IF rest.error # "none" THEN rest ELSE Items(<<item>> \o rest.items)

RECURSIVE Decode(_), DecodeHeaded(_, _), DecodeList(_, _)
Decode(buf) ==
  IF buf = <<>> THEN Items(<<>>)
  ELSE IF buf[1] < Single THEN Before(Bytes(<<buf[1]>>), Decode(Tail(buf)))
  ELSE DecodeHeaded(HeadOf(buf), buf)

DecodeHeaded(h, buf) ==
  LET v    == SubSeq(buf, h.from, h.from + h.len - 1)
      rest == SubSeq(buf, h.from + h.len, Len(buf))
  IN
  IF h.error # "none" THEN Error(h.error)
  ELSE IF buf[1] >= Single + Quarter THEN DecodeList(Decode(v), rest)
  ELSE IF Redundant(v) THEN Error("NonCanonicalValue")
  ELSE Before(Bytes(v), Decode(rest))

DecodeList(inner, rest) ==
  IF inner.error # "none" THEN inner ELSE Before(List(inner.items), Decode(rest))

----------------------------------------------------------------------------
(* Items read back, and bytes that are accepted are the only ones of what  *)
(* they hold.                                                              *)
ReadsBack(items) == Decode(EncodeAll(items)) = Items(items)

OneFormEach(buf) ==
  LET d == Decode(buf) IN d.error = "none" => EncodeAll(d.items) = buf
=============================================================================
