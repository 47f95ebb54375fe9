-------------------------------- MODULE UrText --------------------------------
(***************************************************************************)
(* Bytewords and the strings of URs (bcur/bytewords.rs, bcur/mod.rs).      *)
(* Characters are numbers.  The word of byte b begins with the letter      *)
(* b \div Lasts and ends with b % Lasts, which tell it from all others;    *)
(* its middle letters are a third one.                                     *)
(***************************************************************************)
EXTENDS Integers, Sequences, SequencesExt

CONSTANTS
  Bytes,     \* the number of bytes, 256 in the code
  Lasts,     \* how many letters end a word
  CrcLen,    \* 4: bytes of the checksum
  MaxIndex   \* 2^32 - 1: the largest number of a part

Byte == 0 .. (Bytes - 1)

(* Letters are below 50, and 50 above in upper case.                       *)
Case == 50
Space == 100
Hyphen == 101
Slash == 102
Zero == 110       \* the digits are Zero .. Zero + 9
Foreign == 130

IsLetter(c) == c < 2 * Case
Lower(c) == IF IsLetter(c) THEN c % Case ELSE c
Upper(c) == IF IsLetter(c) THEN (c % Case) + Case ELSE c
LowerAll(s) == [i \in DOMAIN s |-> Lower(s[i])]
UpperAll(s) == [i \in DOMAIN s |-> Upper(s[i])]

Middle(b) == 20 + b
Word(b) == <<b \div Lasts, Middle(b), Middle(b), b % Lasts>>

Styles == {"standard", "uri", "minimal"}
SeparatorOf(style) == IF style = "standard" THEN Space ELSE Hyphen

Ok(out) == [error |-> "none", out |-> out]
Error(e) == [error |-> e, out |-> <<>>]

----------------------------------------------------------------------------
(* CRC-32, by nibbles.  A word is the set of the positions of its bits.    *)

Xor(x, y) == (x \cup y) \ (x \cap y)
Shifted(x, n) == {i - n : i \in {j \in x : j >= n}}
LowBits(x, n) == {i \in x : i < n}
AllOnes == 0 .. 31
Polynomial == {31, 30, 29, 27, 26, 24, 23, 21, 20, 19, 15, 9, 8, 5}

BitStep(c) == IF 0 \in c THEN Xor(Polynomial, Shifted(c, 1)) ELSE Shifted(c, 1)

(* CRC_TABLE: four steps of each nibble.                                   *)
TableOf == [nibble \in SUBSET (0 .. 3) |-> BitStep(BitStep(BitStep(BitStep(nibble))))]

NibbleStep(c) == Xor(TableOf[LowBits(c, 4)], Shifted(c, 4))

CrcUpdate(c, byte) == NibbleStep(NibbleStep(Xor(c, byte)))

(* Crc32::new(), update() and finish().                                    *)
Crc32(bytes) == AllOnes \ FoldLeft(CrcUpdate, AllOnes, bytes)

(* The checksum appended to bytewords: the first of its CrcLen digits that *)
(* stand for the bytes of the CRC, each as a byte of the alphabet.         *)
BitsOf(v) == {i \in 0 .. 7 : (v \div 2^i) % 2 = 1}
NumberOf(bits) == FoldLeft(LAMBDA v, i : v + (IF i - 1 \in bits THEN 2^(i - 1) ELSE 0),
                           0, [i \in 1 .. 8 |-> i])
Check(bytes) ==
  LET crc == Crc32([i \in DOMAIN bytes |-> BitsOf(bytes[i])])
  IN  [i \in 1 .. CrcLen |->
         NumberOf(LowBits(Shifted(crc, 32 - 8 * i), 8)) % Bytes]

----------------------------------------------------------------------------
(* Bytewords                                                               *)

EncodedLen(n, style) ==
  IF style = "minimal" THEN (n + CrcLen) * 2 ELSE (n + CrcLen) * 5 - 1

DecodedLenBound(n, style) ==
  LET words == IF style = "minimal" THEN n \div 2 ELSE (n + 4) \div 5
  IN  IF words < CrcLen THEN 0 ELSE words - CrcLen

WordIn(b, style) == IF style = "minimal" THEN <<Word(b)[1], Word(b)[4]>> ELSE Word(b)

Encode(data, style, room) ==
  LET bytes == data \o Check(data)
      words == [i \in DOMAIN bytes |->
                  IF i > 1 /\ style # "minimal"
                    THEN <<SeparatorOf(style)>> \o WordIn(bytes[i], style)
                    ELSE WordIn(bytes[i], style)]
  IN  IF EncodedLen(Len(data), style) > room THEN Error("BufferTooSmall")
      ELSE Ok(FlattenSeq(words))

(* word_value(): by the first and the last letter; the middle is compared  *)
(* if the word has four.                                                   *)
IsWord(w) ==
  /\ w # <<>>
  /\ IsLetter(Head(w)) /\ IsLetter(Last(w))
  /\ Lower(Last(w)) < Lasts
  /\ Lower(Head(w)) * Lasts + Lower(Last(w)) \in Byte
  /\ Len(w) = 4 =>
       LowerAll(w) = Word(Lower(Head(w)) * Lasts + Lower(Last(w)))

WordValue(w) == Lower(Head(w)) * Lasts + Lower(Last(w))

Pairs(text) == [i \in 1 .. (Len(text) \div 2) |-> <<text[2 * i - 1], text[2 * i]>>]

RECURSIVE Split(_, _)
Split(text, sep) ==
  LET at == {i \in DOMAIN text : text[i] = sep}
      i  == CHOOSE j \in at : \A k \in at : j <= k
  IN  IF at = {} THEN <<text>>
      ELSE <<SubSeq(text, 1, i - 1)>> \o Split(SubSeq(text, i + 1, Len(text)), sep)

(* Mutated form: the delay line is read from its first slot.               *)
Unrolled_Slots(d) == [i \in 1 .. CrcLen |-> d.delay[i - 1]]

(* The delay line, the oldest of its bytes first.                          *)
Unrolled(d) == [i \in 1 .. CrcLen |-> d.delay[(d.count + i - 1) % CrcLen]]

(* Bytes go through a line of CrcLen, so that the last ones stay there.    *)
Push(d, b, room) ==
  IF d.error # "none" THEN d
  ELSE IF d.count >= CrcLen /\ d.count - CrcLen >= room
    THEN [d EXCEPT !.error = "BufferTooSmall"]
  ELSE [d EXCEPT !.out = IF d.count >= CrcLen
                           THEN Append(@, d.delay[d.count % CrcLen]) ELSE @,
                 !.delay[d.count % CrcLen] = b,
                 !.count = @ + 1]

Decode(text, style, room) ==
  LET minimal == style = "minimal"
      words == IF minimal THEN Pairs(text) ELSE Split(text, SeparatorOf(style))
      Take(d, w) ==
        IF d.error # "none" THEN d
        ELSE IF ~IsWord(w) \/ (~minimal /\ Len(w) # 4)
          THEN [d EXCEPT !.error = "InvalidWord"]
        ELSE Push(d, WordValue(w), room)
      d == FoldLeft(Take, [error |-> "none", count |-> 0, out |-> <<>>,
                           delay |-> [i \in 0 .. (CrcLen - 1) |-> 0]], words)
  IN
  IF minimal /\ Len(text) % 2 # 0 THEN Error("InvalidLength")
  ELSE IF d.error # "none" THEN Error(d.error)
  ELSE IF d.count < CrcLen THEN Error("InvalidLength")
  ELSE IF Check(d.out) # Unrolled(d) THEN Error("BadChecksum")
  ELSE Ok(d.out)

----------------------------------------------------------------------------
(* UR strings.  The scheme is one character, Scheme.                       *)

Scheme == 103   \* "ur:"

IsDigit(c) == c \in Zero .. (Zero + 9)

TypeIsValid(type, anyCase) ==
  /\ type # <<>>
  /\ \A i \in DOMAIN type :
       \/ IsDigit(type[i]) \/ type[i] = Hyphen
       \/ IsLetter(type[i]) /\ (anyCase \/ type[i] < Case)

(* A positive decimal number that fits, or 0.                              *)
ParseIndex(text) ==
  FoldLeft(LAMBDA v, c :
             IF v = -1 \/ ~IsDigit(c) \/ v * 10 + (c - Zero) > MaxIndex THEN -1
             ELSE v * 10 + (c - Zero),
           IF text = <<>> THEN -1 ELSE 0, text)

FirstOf(text, c) == CHOOSE i \in DOMAIN text :
  text[i] = c /\ \A j \in 1 .. (i - 1) : text[j] # c
LastOf(text, c) == CHOOSE i \in DOMAIN text :
  text[i] = c /\ \A j \in (i + 1) .. Len(text) : text[j] # c
Contains_(text, c) == \E i \in DOMAIN text : text[i] = c

(* What a UR says: its type, a sequence of no numbers or two, and a body.  *)
UrError(e) == [error |-> e, type |-> <<>>, sequence |-> <<>>, body |-> <<>>]

ParseUr(text) ==
  LET rest == Tail(text)
      at   == FirstOf(rest, Slash)
      type == SubSeq(rest, 1, at - 1)
      more == SubSeq(rest, at + 1, Len(rest))
      last == LastOf(more, Slash)
      seq  == SubSeq(more, 1, last - 1)
      dash == FirstOf(seq, Hyphen)
      num  == ParseIndex(SubSeq(seq, 1, dash - 1))
      len  == ParseIndex(SubSeq(seq, dash + 1, Len(seq)))
  IN
  IF text = <<>> \/ text[1] # Scheme THEN UrError("InvalidScheme")
  ELSE IF ~Contains_(rest, Slash) \/ ~TypeIsValid(type, TRUE)
    THEN UrError("InvalidType")
  ELSE IF ~Contains_(more, Slash)
    THEN [error |-> "none", type |-> type, sequence |-> <<>>, body |-> more]
  ELSE IF ~Contains_(seq, Hyphen) \/ num <= 0 \/ len <= 0
    THEN UrError("InvalidSequence")
  ELSE [error |-> "none", type |-> type, sequence |-> <<num, len>>,
        body |-> SubSeq(more, last + 1, Len(more))]

EncodeUr(type, cbor) ==
  IF ~TypeIsValid(type, FALSE) THEN Error("InvalidType")
  ELSE Ok(<<Scheme>> \o type \o <<Slash>>
            \o Encode(cbor, "minimal", EncodedLen(Len(cbor), "minimal")).out)

DecodeUr(text) ==
  LET ur == ParseUr(text)
      d  == Decode(ur.body, "minimal", DecodedLenBound(Len(ur.body), "minimal"))
  IN
  IF ur.error # "none" THEN UrError(ur.error)
  ELSE IF ur.sequence # <<>> THEN UrError("MultiPart")
  ELSE IF d.error # "none" THEN UrError(d.error)
  ELSE [ur EXCEPT !.type = LowerAll(@), !.body = d.out]

----------------------------------------------------------------------------
(* The table of nibbles does what eight single steps do, and the checksum  *)
(* of "123456789" is the one that CRC-32 is known by, 0xcbf43926.          *)
CrcByBits(c, byte) ==
  FoldLeft(LAMBDA x, i : BitStep(x), Xor(c, byte), [i \in 1 .. 8 |-> i])

TableIsRight(bytes) ==
  \A c \in {AllOnes, {}, Polynomial, Crc32(bytes)} : \A i \in DOMAIN bytes :
    CrcUpdate(c, bytes[i]) = CrcByBits(c, bytes[i])

KnownAnswer ==
  LET crc == Crc32([i \in 1 .. 9 |-> BitsOf(48 + i)])
  IN  [i \in 1 .. 4 |-> LowBits(Shifted(crc, 32 - 8 * i), 8)]
        = <<BitsOf(203), BitsOf(244), BitsOf(57), BitsOf(38)>>

(* Data reads back from its words, in either case, where there is room for *)
(* it: its checksum is checked and never comes out with it.                *)
WordsReadBack(data, style) ==
  LET e == Encode(data, style, EncodedLen(Len(data), style))
      n == Len(e.out)
  IN
  /\ e.error = "none" /\ n = EncodedLen(Len(data), style)
  /\ \A text \in {e.out, UpperAll(e.out)} :
       /\ Decode(text, style, DecodedLenBound(n, style)) = Ok(data)
       /\ \A room \in 0 .. (Len(data) - 1) :
            Decode(text, style, room) = Error("BufferTooSmall")

(* Text that decodes is that of what it decodes to, but for its case.      *)
OneTextEach(text, style) ==
  LET d == Decode(text, style, DecodedLenBound(Len(text), style)) IN
  /\ d.error # "BufferTooSmall"
  /\ d.error = "none" =>
       Encode(d.out, style, Len(text)) = Ok(LowerAll(text))

(* What is written of a UR, whole or in parts, is read for what it is.     *)
UrReadsBack(type, sequence, cbor) ==
  LET e == EncodeUr(type, cbor)
      Digits(n) == IF n < 10 THEN <<Zero + n>> ELSE <<Zero + (n \div 10), Zero + (n % 10)>>
      body == Encode(cbor, "minimal", EncodedLen(Len(cbor), "minimal")).out
      part == <<Scheme>> \o type \o <<Slash>> \o Digits(sequence[1]) \o <<Hyphen>>
                \o Digits(sequence[2]) \o <<Slash>> \o body
  IN
  e.error = "none" =>
    /\ DecodeUr(UpperAll(e.out)) =
         [error |-> "none", type |-> type, sequence |-> <<>>, body |-> cbor]
    /\ DecodeUr(part) = UrError("MultiPart")
    /\ ParseUr(part) =
         [error |-> "none", type |-> type, sequence |-> sequence, body |-> body]
=============================================================================
