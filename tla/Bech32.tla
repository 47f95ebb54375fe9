-------------------------------- MODULE Bech32 --------------------------------
(***************************************************************************)
(* Bech32, segwit addresses and CashAddr (bech32.rs).  A text is a         *)
(* sequence of characters: letters of the alphabet, of a value and a case, *)
(* and a few others.  The checksum is one more character, of everything it *)
(* is computed from.                                                       *)
(***************************************************************************)
EXTENDS Naturals, Sequences, SequencesExt

CONSTANTS
  ByteBits, CharBits,        \* 8 and 5 in the code
  MaxVersion,                \* 16: the last witness version
  MinProgram, MaxProgram,    \* 2 and 40: the lengths of witness programs
  V0Programs,                \* {20, 32}: those of version 0
  HashSizes                  \* <<20, 24, 28, 32, 40, 48, 56, 64>>

Byte == 0 .. (2^ByteBits - 1)
CharValue == 0 .. (2^CharBits - 1)

Letter(v, case) == [v |-> v, case |-> case]
Separator == Letter(100, "none")   \* "1"
Colon     == Letter(101, "none")
Foreign   == Letter(102, "lower")  \* not of the alphabet

Checksum(prefix, values, variant, case) ==
  [v |-> 103, case |-> case, of |-> <<prefix, values, variant>>]

IsChecksum(c) == c.v = 103

(* to_ascii_lowercase(); some characters have no case.                     *)
Lower(text) ==
  [i \in DOMAIN text |->
     [text[i] EXCEPT !.case = IF @ = "none" THEN "none" ELSE "lower"]]
Upper(text) ==
  [i \in DOMAIN text |->
     [text[i] EXCEPT !.case = IF @ = "none" THEN "none" ELSE "upper"]]

Cases(text) == {text[i].case : i \in DOMAIN text}

Error(e) == [error |-> e]

----------------------------------------------------------------------------
(* convert_bits(): bits are shifted in from the right, of which the last   *)
(* from + to - 1 are kept, and taken out from the left as soon as there    *)
(* are enough.                                                             *)

Regrouped(data, from, to) ==
  LET Step(r, v) ==
        LET acc  == ((r.acc * 2^from) + v) % 2^(from + to - 1)
            bits == r.bits + from
            n    == bits \div to
        IN  [acc  |-> acc,
             bits |-> bits % to,
             out  |-> r.out \o [j \in 1 .. n |-> (acc \div 2^(bits - j * to)) % 2^to]]
  IN  FoldLeft(Step, [acc |-> 0, bits |-> 0, out |-> <<>>], data)

(* The bits that are left, at the left of a group.                         *)
LeftOver(r, to) == (r.acc * 2^(to - r.bits)) % 2^to

Padded(data, from, to) ==
  LET r == Regrouped(data, from, to)
  IN  IF r.bits > 0 THEN Append(r.out, LeftOver(r, to)) ELSE r.out

(* Mutated form: bits that are left may be anything.                       *)
PaddingError_None(r, from, to) == FALSE

PaddingError(r, from, to) == r.bits >= from \/ LeftOver(r, to) # 0

ToChars(bytes) == Padded(bytes, ByteBits, CharBits)

----------------------------------------------------------------------------
(* Bech32 strings: prefix, separator, data and checksum.                   *)

Letters(values) == [i \in DOMAIN values |-> Letter(values[i], "lower")]

EncodeRaw(hrp, first, payload, variant) ==
  LET values == first \o ToChars(payload)
  IN  hrp \o <<Separator>> \o Letters(values)
        \o <<Checksum(Lower(hrp), values, variant, "lower")>>

Values(chars) == [i \in DOMAIN chars |-> chars[i].v]

Parse(text) ==
  LET seps == {i \in DOMAIN text : text[i] = Separator}
      pos  == CHOOSE i \in seps : \A j \in seps : j <= i
      hrp  == SubSeq(text, 1, pos - 1)
      rest == SubSeq(text, pos + 1, Len(text))
      chars == SubSeq(rest, 1, Len(rest) - 1)
  IN
  CASE {"lower", "upper"} \subseteq Cases(text) -> Error("MixedCase")
    [] seps = {} -> Error("InvalidSeparator")
    [] OTHER ->
       IF pos = 1 \/ rest = <<>> THEN Error("InvalidSeparator")
       ELSE IF \E i \in DOMAIN rest :
                 rest[i].v \notin CharValue /\ ~IsChecksum(rest[i])
         THEN Error("InvalidChar")
       ELSE IF ~IsChecksum(Last(rest)) \/ \E i \in DOMAIN chars : IsChecksum(chars[i])
         THEN Error("InvalidChecksum")
       ELSE IF <<Last(rest).of[1], Last(rest).of[2]>> # <<Lower(hrp), Values(chars)>>
         THEN Error("InvalidChecksum")
       ELSE [error |-> "none", hrp |-> hrp, values |-> Values(chars),
             variant |-> Last(rest).of[3]]

PrefixMatches(got, want) == Lower(got) = want

Decode(text) ==
  LET p == Parse(text)
      r == Regrouped(p.values, CharBits, ByteBits)
  IN  IF p.error # "none" THEN p
      ELSE IF PaddingError(r, CharBits, ByteBits) THEN Error("InvalidPadding")
      ELSE [error |-> "none", hrp |-> p.hrp, payload |-> r.out,
            variant |-> p.variant]

----------------------------------------------------------------------------
(* Segwit addresses                                                        *)

ProgramError(version, len) ==
  IF version > MaxVersion THEN "InvalidWitnessVersion"
  ELSE IF \/ len \notin MinProgram .. MaxProgram
          \/ version = 0 /\ len \notin V0Programs
    THEN "InvalidProgramLength"
  ELSE "none"

VariantOf(version) == IF version = 0 THEN "bech32" ELSE "bech32m"

SegwitEncode(hrp, version, program) ==
  IF ProgramError(version, Len(program)) # "none"
    THEN Error(ProgramError(version, Len(program)))
  ELSE [error |-> "none",
        text |-> EncodeRaw(hrp, <<version>>, program, VariantOf(version))]

SegwitDecode(hrp, text) ==
  LET p == Parse(text)
      version == Head(p.values)
      r == Regrouped(Tail(p.values), CharBits, ByteBits)
  IN
  IF p.error # "none" THEN p
  ELSE IF ~PrefixMatches(p.hrp, hrp) THEN Error("PrefixMismatch")
  ELSE IF p.values = <<>> THEN Error("EmptyPayload")
  ELSE IF version > MaxVersion THEN Error("InvalidWitnessVersion")
  ELSE IF Len(r.out) > MaxProgram THEN Error("InvalidProgramLength")
  ELSE IF PaddingError(r, CharBits, ByteBits) THEN Error("InvalidPadding")
  ELSE IF ProgramError(version, Len(r.out)) # "none"
    THEN Error(ProgramError(version, Len(r.out)))
  ELSE IF p.variant # VariantOf(version) THEN Error("WrongVariant")
  ELSE [error |-> "none", version |-> version, program |-> r.out]

----------------------------------------------------------------------------
(* CashAddr: the version byte has a reserved bit, the type, and the size   *)
(* of the hash as an index of HashSizes.  A type that is too large spills  *)
(* into the reserved bit, or out of the byte.                              *)

Sizes == Len(HashSizes)
Reserved == 2^(ByteBits - 1)

VersionByte(type, len) ==
  ((type * Sizes) % 2^ByteBits)
    + (CHOOSE i \in DOMAIN HashSizes : HashSizes[i] = len) - 1

CashEncode(prefix, type, hash) ==
  LET values == ToChars(<<VersionByte(type, Len(hash))>> \o hash)
  IN
  IF \A i \in DOMAIN HashSizes : HashSizes[i] # Len(hash)
    THEN Error("InvalidHashLength")
  ELSE [error |-> "none",
        text |-> prefix \o <<Colon>> \o Letters(values)
                   \o <<Checksum(prefix, values, "cash", "lower")>>]

(* Of a text with a colon, what is before the first one is the prefix.     *)
CashDecode(prefix, text) ==
  LET colons == {i \in DOMAIN text : text[i] = Colon}
      colon  == CHOOSE i \in colons : \A j \in colons : i <= j
      given  == IF colons = {} THEN prefix ELSE SubSeq(text, 1, colon - 1)
      body   == IF colons = {} THEN text ELSE SubSeq(text, colon + 1, Len(text))
      chars  == SubSeq(body, 1, Len(body) - 1)
      r      == Regrouped(Values(chars), CharBits, ByteBits)
      byte   == Head(r.out)
  IN
  IF ~PrefixMatches(given, prefix) THEN Error("PrefixMismatch")
  ELSE IF \E i \in DOMAIN body : body[i].v \notin CharValue /\ ~IsChecksum(body[i])
    THEN Error("InvalidChar")
  ELSE IF body = <<>> \/ ~IsChecksum(Last(body))
            \/ \E i \in DOMAIN chars : IsChecksum(chars[i])
    THEN Error("InvalidChecksum")
  ELSE IF Last(body).of # <<prefix, Values(chars), "cash">>
    THEN Error("InvalidChecksum")
  ELSE IF chars = <<>> THEN Error("EmptyPayload")
  ELSE IF Len(r.out) > Last(HashSizes) + 1 THEN Error("InvalidHashLength")
  ELSE IF PaddingError(r, CharBits, ByteBits) THEN Error("InvalidPadding")
  ELSE IF r.out = <<>> THEN Error("EmptyPayload")
  ELSE IF byte >= Reserved THEN Error("InvalidVersionByte")
  ELSE IF Len(r.out) - 1 # HashSizes[(byte % Sizes) + 1] THEN Error("InvalidHashLength")
  ELSE [error |-> "none", type |-> byte \div Sizes, hash |-> Tail(r.out)]

----------------------------------------------------------------------------
(* What is encoded, in either case, decodes to what it was.                *)
SegwitReadsBack(hrp, version, program) ==
  LET e == SegwitEncode(hrp, version, program) IN
  e.error = "none" =>
    \A text \in {e.text, Upper(e.text)} :
      SegwitDecode(hrp, text)
        = [error |-> "none", version |-> version, program |-> program]

CashReadsBack(prefix, type, hash) ==
  LET e == CashEncode(prefix, type, hash) IN
  e.error = "none" /\ type < Reserved \div Sizes =>
    \A text \in {e.text, Upper(e.text), SubSeq(e.text, Len(prefix) + 2, Len(e.text))} :
      CashDecode(prefix, text) = [error |-> "none", type |-> type, hash |-> hash]

(* A text that decodes is, but for its case and prefix, the only one that  *)
(* encodes what it decodes to: with the right checksum too, no value has a *)
(* second address.                                                         *)
OneTextEach(hrp, values, variant) ==
  LET text == hrp \o <<Separator>> \o Letters(values)
                \o <<Checksum(hrp, values, variant, "lower")>>
      cash == hrp \o <<Colon>> \o Letters(values)
                \o <<Checksum(hrp, values, "cash", "lower")>>
      d == Decode(text)
      s == SegwitDecode(hrp, text)
      c == CashDecode(hrp, cash)
  IN
  /\ d.error = "none" => EncodeRaw(hrp, <<>>, d.payload, d.variant) = text
  /\ s.error = "none" => SegwitEncode(hrp, s.version, s.program).text = text
  /\ c.error = "none" => CashEncode(hrp, c.type, c.hash).text = cash
=============================================================================
