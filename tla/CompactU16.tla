------------------------------ MODULE CompactU16 ------------------------------
(***************************************************************************)
(* The compact-u16 lengths of Solana (src/src/solana.rs): seven bits a     *)
(* byte, low ones first, in as few bytes as it takes.                      *)
(***************************************************************************)
EXTENDS Integers, Sequences

(* encode_compact_u16_to_array() *)
Encode(v) ==
  IF v < 128 THEN <<v>>
  ELSE IF v < 16384 THEN <<128 + (v % 128), v \div 128>>
  ELSE <<128 + (v % 128), 128 + ((v \div 128) % 128), v \div 16384>>

Low(b) == b % 128

Value(v, used) == [error |-> "none", value |-> v, used |-> used]
Refused(e) == [error |-> e, value |-> 0, used |-> 0]

(* Mutated form of DecodeThree: a third byte of zero passes. *)
DecodeThree_Long(b) ==
  IF b[3] > 3 THEN Refused("Overflow")
  ELSE Value(Low(b[1]) + 128 * Low(b[2]) + 16384 * b[3], 3)

(* decode_compact_u16(): the third byte holds the two bits that are left.  *)
DecodeThree(b) ==
  IF b[3] > 3 THEN Refused("Overflow")
  ELSE IF b[3] = 0 THEN Refused("NonCanonical")
  ELSE Value(Low(b[1]) + 128 * Low(b[2]) + 16384 * b[3], 3)

Decode(b) ==
  IF Len(b) = 0 THEN Refused("UnexpectedEof")
  ELSE IF b[1] < 128 THEN Value(b[1], 1)
  ELSE IF Len(b) = 1 THEN Refused("UnexpectedEof")
  ELSE IF b[2] = 0 THEN Refused("NonCanonical")
  ELSE IF b[2] < 128 THEN Value(Low(b[1]) + 128 * b[2], 2)
  ELSE IF Len(b) = 2 THEN Refused("UnexpectedEof")
  ELSE DecodeThree(b)

(* Every length reads back, whatever follows it.                           *)
ReadsBack(v, rest) == Decode(Encode(v) \o rest) = Value(v, Len(Encode(v)))

(* Bytes that are read are the only encoding of what they are read as.     *)
IsCanonical(b) ==
  LET d == Decode(b) IN
  d.error = "none" =>
    d.value \in Nat /\ d.value < 65536 /\ Encode(d.value) = SubSeq(b, 1, d.used)
=============================================================================
