-------------------------------- MODULE Bases ---------------------------------
(***************************************************************************)
(* Base58 (base58.rs) and base64 (base64.rs).  A character is its value in *)
(* the alphabet, or one of the two below.                                  *)
(***************************************************************************)
EXTENDS Naturals, Sequences, SequencesExt

CONSTANT KeyLen   \* 32: the bytes of a key that is decoded at compile time

Byte == 256
Base == 58

Pad == 64        \* "="
Foreign == 65    \* any other character

Min2(x, y) == IF x < y THEN x ELSE y

Ok(out) == [error |-> "none", out |-> out]
Error(e) == [error |-> e, out |-> <<>>]

Zeros(s) == LET other == {i \in DOMAIN s : s[i] # 0}
            IN  IF other = {} THEN Len(s) ELSE (CHOOSE i \in other :
                                                  \A j \in other : i <= j) - 1

----------------------------------------------------------------------------
(* Base58.  The digits of a number in base `to', the lowest first, are     *)
(* multiplied by `from' and a digit is added, in place: the carry goes     *)
(* through the digits there are, and then makes new ones.                  *)

RECURSIVE CarryOut(_, _, _, _)
CarryOut(digits, carry, to, room) ==
  IF carry = 0 THEN Ok(digits)
  ELSE IF Len(digits) = room THEN Error("BufferTooSmall")
  ELSE CarryOut(Append(digits, carry % to), carry \div to, to, room)

Appended(digits, value, from, to, room) ==
  LET through == FoldLeft(LAMBDA r, d :
                   LET carry == r.carry + d * from
                   IN  [out |-> Append(r.out, carry % to), carry |-> carry \div to],
                   [out |-> <<>>, carry |-> value], digits)
  IN  CarryOut(through.out, through.carry, to, room)

(* Mutated form: leading zeros are digits of the number like others.       *)
Convert_NoZeros(s, from, to, room) ==
  LET r == FoldLeft(LAMBDA w, value :
             IF w.error # "none" THEN w
             ELSE IF value >= from THEN Error("InvalidChar")
             ELSE Appended(w.out, value, from, to, room),
           Ok(<<>>), s)
  IN  IF r.error = "none" THEN Ok(Reverse(r.out)) ELSE r

(* Leading zeros stand for themselves, the rest is one number.             *)
Convert(s, from, to, room) ==
  LET zeros == Zeros(s)
      r == FoldLeft(LAMBDA w, value :
             IF w.error # "none" THEN w
             ELSE IF value >= from THEN Error("InvalidChar")
             ELSE Appended(w.out, value, from, to, room - zeros),
           Ok(<<>>), SubSeq(s, zeros + 1, Len(s)))
  IN
  IF zeros > room THEN Error("BufferTooSmall")
  ELSE IF r.error # "none" THEN r
  ELSE Ok([i \in 1 .. zeros |-> 0] \o Reverse(r.out))

EncodedLenBound(n) == ((n * 138) \div 100) + 1

Encode58(bytes, room) == Convert(bytes, Byte, Base, room)
Decode58(text, room) == Convert(text, Base, Byte, room)

(* decode_32_const(): an accumulator with one spare byte, and a panic      *)
(* (here an error) if the text is not that of KeyLen bytes.                *)
DecodeKey(text) ==
  LET zeros == Zeros(text)
      r == FoldLeft(LAMBDA w, value :
             IF w.error # "none" THEN w
             ELSE IF value >= Base THEN Error("InvalidChar")
             ELSE Appended(w.out, value, Base, Byte, KeyLen + 1),
           Ok(<<>>), SubSeq(text, zeros + 1, Len(text)))
  IN
  IF r.error # "none" THEN r
  ELSE IF zeros + Len(r.out) # KeyLen THEN Error("WrongLength")
  ELSE Ok([k \in 1 .. KeyLen |->
             IF KeyLen - k < Len(r.out) THEN r.out[KeyLen - k + 1] ELSE 0])

----------------------------------------------------------------------------
(* Base64: three bytes are four characters; the last group may be of one   *)
(* or two bytes, and is padded.                                            *)

CeilDiv3(n) == (n + 2) \div 3

EncodedLen(n) == CeilDiv3(n) * 4

Group(bytes, g) == SubSeq(bytes, 3 * g - 2, Min2(3 * g, Len(bytes)))

EncodeGroup(chunk) ==
  LET At(i) == IF i \in DOMAIN chunk THEN chunk[i] ELSE 0
      v == (At(1) * Byte + At(2)) * Byte + At(3)
  IN  [i \in 1 .. 4 |-> IF i - 1 <= Len(chunk) THEN (v \div 64^(4 - i)) % 64 ELSE Pad]

Encode64(bytes, room) ==
  IF EncodedLen(Len(bytes)) > room THEN Error("BufferTooSmall")
  ELSE Ok(FlattenSeq([g \in 1 .. CeilDiv3(Len(bytes)) |-> EncodeGroup(Group(bytes, g))]))

Pads(chunk) ==
  CHOOSE n \in 0 .. 4 : /\ \A i \in (5 - n) .. 4 : chunk[i] = Pad
                        /\ n < 4 => chunk[4 - n] # Pad

DecodeGroup(chunk, isLast) ==
  LET pad == Pads(chunk)
      digits == SubSeq(chunk, 1, 4 - pad)
      v == FoldLeft(LAMBDA w, d : w * 64 + d, 0, digits) * 64^pad
  IN
  IF pad > 2 \/ (pad > 0 /\ ~isLast) THEN Error("InvalidEncoding")
  ELSE IF \E i \in DOMAIN digits : digits[i] >= 64 THEN Error("InvalidEncoding")
  ELSE IF v % Byte^pad # 0 THEN Error("InvalidEncoding")
  ELSE Ok([i \in 1 .. (3 - pad) |-> (v \div Byte^(3 - i)) % Byte])

Decode64(text, room) ==
  LET groups == Len(text) \div 4
  IN
  IF Len(text) % 4 # 0 THEN Error("InvalidEncoding")
  ELSE FoldLeft(LAMBDA r, g :
         LET d == DecodeGroup(SubSeq(text, 4 * g - 3, 4 * g), g = groups)
         IN  IF r.error # "none" THEN r
             ELSE IF d.error # "none" THEN d
             ELSE IF Len(r.out) + Len(d.out) > room THEN Error("BufferTooSmall")
             ELSE Ok(r.out \o d.out),
         Ok(<<>>), [g \in 1 .. groups |-> g])

DecodedLenBound(n) == (n \div 4) * 3

----------------------------------------------------------------------------
(* Bytes read back from their text, which fits where it is written, and    *)
(* does not where there is less room than it takes.                        *)
BytesReadBack(b) ==
  LET t58 == Encode58(b, EncodedLenBound(Len(b)))
      t64 == Encode64(b, EncodedLen(Len(b)))
  IN
  /\ t58.error = "none"
  /\ Decode58(t58.out, Len(t58.out)) = Ok(b)
  /\ \A room \in 0 .. (Len(t58.out) - 1) :
       Encode58(b, room) = Error("BufferTooSmall")
  /\ t64.error = "none" /\ Len(t64.out) = EncodedLen(Len(b))
  /\ Decode64(t64.out, DecodedLenBound(Len(t64.out))) = Ok(b)

(* Text that decodes is the only one of what it decodes to, and a key of   *)
(* KeyLen bytes is the same at compile time.                               *)
OneTextEach(text) ==
  LET d58 == Decode58(text, Len(text))
      d64 == Decode64(text, DecodedLenBound(Len(text)))
      key == DecodeKey(text)
  IN
  /\ d58.error # "BufferTooSmall" /\ d64.error # "BufferTooSmall"
  /\ d58.error = "none" => Encode58(d58.out, Len(text)) = Ok(text)
  /\ d64.error = "none" => Encode64(d64.out, Len(text)) = Ok(text)
  /\ (key.error = "none") <=> (d58.error = "none" /\ Len(d58.out) = KeyLen)
  /\ key.error = "none" => key = d58
=============================================================================
