------------------------------- MODULE VarInts -------------------------------
(***************************************************************************)
(* The integers of variable length in the formats of the crate: the        *)
(* compact size of Bitcoin (btcvarint.rs) and the varint of protobuf       *)
(* (trontx.rs).  A byte has Byte values, 256 in the code, and the widths   *)
(* of integers scale with it.                                              *)
(***************************************************************************)
EXTENDS Naturals, Sequences

CONSTANTS
  Byte,         \* 256: the values of a byte, a multiple of 4
  VarintBits    \* 64: the width of a protobuf varint

Eof == [error |-> "UnexpectedEof", v |-> 0, used |-> 0]
Value(v, used) == [error |-> "none", v |-> v, used |-> used]

LittleEndian(v, n) == [i \in 1 .. n |-> (v \div Byte^(i - 1)) % Byte]

RECURSIVE Number(_)
Number(b) == IF b = <<>> THEN 0 ELSE Head(b) + Byte * Number(Tail(b))

----------------------------------------------------------------------------
(* BtcVarInt.  The top three values of the first byte say that 2, 4 or 8   *)
(* bytes follow.                                                           *)

Tag(n) == CASE n = 2 -> Byte - 3 [] n = 4 -> Byte - 2 [] n = 8 -> Byte - 1

(* Mutated form: the first tag is taken for a value.                       *)
SizeOf_Tag(v) ==
  CASE v <= Byte - 3 -> 0
    [] v > Byte - 3 /\ v < Byte^2 -> 2
    [] v >= Byte^2 /\ v < Byte^4 -> 4
    [] OTHER -> 8

(* How many bytes follow the first.                                        *)
SizeOf(v) ==
  CASE v < Byte - 3 -> 0
    [] v >= Byte - 3 /\ v < Byte^2 -> 2
    [] v >= Byte^2 /\ v < Byte^4 -> 4
    [] OTHER -> 8

ToArray(v) ==
  IF SizeOf(v) = 0 THEN <<v>> ELSE <<Tag(SizeOf(v))>> \o LittleEndian(v, SizeOf(v))

Decode(buf) ==
  IF buf = <<>> THEN Eof
  ELSE IF Head(buf) < Byte - 3 THEN Value(Head(buf), 1)
  ELSE LET n == CHOOSE m \in {2, 4, 8} : Tag(m) = Head(buf)
       IN  IF Len(buf) < n + 1 THEN Eof
           ELSE Value(Number(SubSeq(buf, 2, n + 1)), n + 1)

----------------------------------------------------------------------------
(* The varint of protobuf: groups of 7 bits, the lowest first, and a bit   *)
(* that says whether more follow.                                          *)

Group == Byte \div 2

RECURSIVE PutVarint(_)
PutVarint(v) ==
  IF v < Group THEN <<v>> ELSE <<(v % Group) + Group>> \o PutVarint(v \div Group)

(* 10 bytes in the code, of which the last has one bit left.               *)
MaxGroups == CHOOSE n \in 1 .. VarintBits :
               Group^n >= 2^VarintBits /\ Group^(n - 1) < 2^VarintBits
LastGroup == 2^VarintBits \div Group^(MaxGroups - 1)

(* Reader::varint()                                                        *)
ReadVarint(b) ==
  LET n == IF Len(b) < MaxGroups THEN Len(b) ELSE MaxGroups
      ends == {i \in 1 .. n : b[i] < Group}
      end == CHOOSE i \in ends : \A j \in ends : i <= j
      big == n = MaxGroups /\ (b[n] % Group) >= LastGroup
               /\ \A j \in ends : j >= MaxGroups
      part[i \in 0 .. n] ==
        IF i = 0 THEN 0 ELSE part[i - 1] + (b[i] % Group) * Group^(i - 1)
  IN
  IF big THEN [Eof EXCEPT !.error = "TooLarge"]
  ELSE IF ends # {} THEN Value(part[end], end)
  ELSE [Eof EXCEPT !.error = IF Len(b) < MaxGroups THEN "UnexpectedEof"
                              ELSE "TooLarge"]

----------------------------------------------------------------------------

(* Each form reads back whatever follows it, and cut short it does not.    *)
ReadsBack(v, rest) ==
  /\ Decode(ToArray(v) \o rest) = Value(v, Len(ToArray(v)))
  /\ \A n \in 0 .. (Len(ToArray(v)) - 1) : Decode(SubSeq(ToArray(v), 1, n)) = Eof
  /\ v < 2^VarintBits =>
       /\ ReadVarint(PutVarint(v) \o rest) = Value(v, Len(PutVarint(v)))
       /\ \A n \in 0 .. (Len(PutVarint(v)) - 1) :
            ReadVarint(SubSeq(PutVarint(v), 1, n)) = Eof

(* A protobuf varint that is accepted has the value of its groups, within  *)
(* the width: no group is shifted out.                                     *)
NothingShiftedOut(b) ==
  LET r == ReadVarint(b)
  IN  r.error = "none" =>
        /\ r.v < 2^VarintBits
        /\ r.used <= MaxGroups
        /\ \A n \in (r.used + 1) .. Len(b) : ReadVarint(SubSeq(b, 1, n)) = r
        /\ r.v = (LET sum[i \in 0 .. r.used] ==
                        IF i = 0 THEN 0
                        ELSE sum[i - 1] + (b[i] % Group) * Group^(i - 1)
                  IN  sum[r.used])
=============================================================================
