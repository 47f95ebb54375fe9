----------------------------- MODULE MCOperators -----------------------------
(***************************************************************************)
(* The pure functions of the crate on every input of a bounded size, each  *)
(* against what it promises.  A behaviour picks one case.                  *)
(***************************************************************************)
EXTENDS FountainCut, BbqrCut, PsbtMap, SolanaHeader, CompactU16, SequencesExt

CONSTANTS
  MaxLen,    \* bound on the length of messages and files
  MaxPiece,  \* bound on the length that is asked for
  MaxOurs, MaxTheirs,  \* bounds on the records of two maps
  MaxDepth,         \* depth of the script trees, of MaxLeaves leaves at most
  MaxLeaves,
  MaxHeight,        \* the blocks whose rewards are added up
  HalvingInterval, BaseReward, MaxHalvings, DogeInterval, DogeReward, DogeTail,
  BlocksPerYear, DashReward,
  Decimals, Bits,   \* places and width of amounts
  ByteValues, VarintBits  \* values of a byte, and width of a varint

VARIABLE case

Tree == INSTANCE TaprootTree
Rewards == INSTANCE Rewards
Text == INSTANCE AmountText
Ints == INSTANCE VarInts WITH Byte <- ByteValues

(* Bytes of 3 bits in characters of 2, and keys of 2 bytes.                *)
CashSizes == <<1, 2>>
Addresses == INSTANCE Bech32 WITH
  ByteBits <- 3, CharBits <- 2, MaxVersion <- 2, MinProgram <- 1,
  MaxProgram <- 3, V0Programs <- {2}, HashSizes <- CashSizes
Codecs == INSTANCE Bases WITH KeyLen <- 2

(* Six bytes, whose words begin with two letters and end with three.       *)
Urs == INSTANCE UrText WITH Bytes <- 6, Lasts <- 3, CrcLen <- 2, MaxIndex <- 99

RlpCodec == INSTANCE Rlp WITH Byte <- 32, LenLens <- 2

(* Arguments of eleven kinds, in the head or in one or two bytes; and a   *)
(* decoder that follows two levels.                                        *)
CborWidths == <<1, 2>>
CborCodec == INSTANCE Cbor WITH
  Infos <- 11, Widths <- CborWidths, ByteSize <- 88, MaxDepth_ <- 2

Records == [type : {0, 2}, data : {0, 1}, value : {0, 1}]
Maps(max) == {map \in SeqOf(Records, max) : NoDuplicates(map)}

Init == case = [op |-> "none"]

PickCut ==
  \E len \in 0 .. MaxLen, piece \in 0 .. MaxPiece, enc \in Encodings :
    case' = [op |-> "cut", len |-> len, piece |-> piece, enc |-> enc]

PickMaps ==
  \E ours \in Maps(MaxOurs), theirs \in Maps(MaxTheirs) :
    case' = [op |-> "maps", ours |-> ours, theirs |-> theirs]

(* The sizes of the account lists of a Solana message, at their bounds.    *)
Sizes == {0, 1, 2, 126, 127, 128, 129, 254, 255}

PickHeader ==
  \E sw, sr, nw, nr \in Sizes :
    /\ 1 + sw + sr + nw + nr <= MaxKeys
    /\ case' = [op |-> "header", sw |-> sw, sr |-> sr, nw |-> nw, nr |-> nr]

(* Lengths at the bounds of their encodings, and bytes at theirs.          *)
PickLength ==
  \E v \in {0, 1, 127, 128, 129, 255, 256, 16383, 16384, 32767, 32768, 65535} :
    \E rest \in {<<>>, <<0>>, <<255>>} :
      case' = [op |-> "length", v |-> v, rest |-> rest]

PickBytes ==
  \E b \in SeqOf({0, 1, 3, 4, 127, 128, 129, 255}, 3) :
    case' = [op |-> "bytes", b |-> b]

(* Listings of leaves at any depths, each with a script of its own or all  *)
(* with the same one; the last leaf may have an illegal version.  Longer   *)
(* ones fill the stack with subtrees of several leaves.                    *)
LongListings == {<<0, 1, 3, 3, 3, 3>>, <<1, 1, 1, 2, 3, 3>>, <<2, 2, 1, 1, 2, 3, 3>>}

PickTree ==
  \E depths \in SeqOf(0 .. (MaxDepth + 1), MaxLeaves) \cup LongListings, same \in BOOLEAN,
     version \in {"even", "odd"} :
    case' = [op |-> "tree",
             leaves |-> [i \in DOMAIN depths |->
               [depth |-> depths[i], script |-> IF same THEN 1 ELSE i,
                version |-> IF i = Len(depths) THEN version ELSE "even"]]]

PickHeight ==
  \E network \in Rewards!Networks, height \in 0 .. MaxHeight :
    case' = [op |-> "height", network |-> network, height |-> height]

(* Amounts around the powers of ten and at the end of their width.         *)
PickAmount ==
  \E v \in 0 .. 130 \cup {Text!MaxAmount - d : d \in 0 .. 30} :
    case' = [op |-> "amount", v |-> v]

PickDecimal ==
  \E sign \in {<<>>, <<Text!Plus>>},
     whole \in SeqOf({0, 1, 9}, 3), part \in SeqOf({0, 2, 3, 4, 9}, 3) :
    case' = [op |-> "decimal", sign |-> sign, whole |-> whole, part |-> part]

PickInt ==
  \E v \in 0 .. 70 \cup {4095, 4096, 4097, 16777215}, rest \in {<<>>, <<0>>, <<7>>} :
    case' = [op |-> "int", v |-> v, rest |-> rest]

PickVarint ==
  \E b \in SeqOf(0 .. (ByteValues - 1), 4) : case' = [op |-> "varint", b |-> b]

(* Witness programs and hashes, under versions and types that are legal    *)
(* and not; and characters with the right checksum.  A prefix may contain  *)
(* the separator.                                                          *)
Hrps == {<<Addresses!Foreign>>, <<Addresses!Separator, Addresses!Foreign>>}

PickProgram ==
  \E hrp \in Hrps, version \in 0 .. 3, program \in SeqOf(Addresses!Byte, 3) :
    case' = [op |-> "program", hrp |-> hrp, version |-> version, program |-> program]

PickChars ==
  \E values \in SeqOf(Addresses!CharValue, 6), variant \in {"bech32", "bech32m"} :
    case' = [op |-> "chars", values |-> values, variant |-> variant]

(* Bytes at the bounds of the bases, and long runs of the largest one.     *)
PickData ==
  \E b \in SeqOf({0, 1, 57, 58, 255}, 4)
         \cup {[i \in 1 .. n |-> IF i = 1 THEN first ELSE 255] :
                 n \in 5 .. 40, first \in {0, 1, 255}} :
    case' = [op |-> "data", b |-> b]

PickText ==
  \E text \in SeqOf({0, 1, 16, 48, 57, 58, Codecs!Pad, Codecs!Foreign}, 4)
            \cup {x \o y : x, y \in {<<0, 16, 0, 0>>, <<0, 16, 1, 64>>,
                                     <<0, 16, 4, 64>>, <<1, 16, 64, 64>>}} :
    case' = [op |-> "text", text |-> text]

(* Bytes in each style, and their words with one character changed.        *)
PickWords ==
  \E data \in SeqOf(Urs!Byte, 3), style \in Urs!Styles :
    case' = [op |-> "words", data |-> data, style |-> style]

PickMisread ==
  \E data \in SeqOf(Urs!Byte, 1), style \in Urs!Styles, i \in 1 .. 14,
     c \in {0, 1, 2, 3, 20, 51, Urs!Space, Urs!Hyphen, Urs!Foreign} :
    LET text == Urs!Encode(data, style, 14).out
    IN  /\ i \in DOMAIN text
        /\ case' = [op |-> "misread", style |-> style,
                    text |-> [text EXCEPT ![i] = c]]

PickUr ==
  \E type \in SeqOf({0, 50, Urs!Hyphen, Urs!Zero, Urs!Slash}, 2),
     data \in SeqOf(Urs!Byte, 1), n, len \in {1, 9, 10, 99} :
    case' = [op |-> "ur", type |-> type, data |-> data, sequence |-> <<n, len>>]

(* Items of RLP, to three levels, and the bytes at the bounds of heads.    *)
RlpLeaves == {RlpCodec!Bytes(b) : b \in SeqOf({0, 15, 16}, 2)
                \cup {[i \in 1 .. n |-> 1] : n \in {5, 6, 31, 32, 33}}}
RlpLists == {RlpCodec!List(l) : l \in SeqOf(RlpLeaves, 2)}

PickRlp ==
  \E items \in SeqOf(RlpLeaves, 2) \cup
       {<<a, RlpCodec!List(<<b, c>>)>> : a \in RlpLists, b, c \in {RlpCodec!List(<<>>)} \cup RlpLeaves} :
    case' = [op |-> "rlp", items |-> items]

PickRlpBytes ==
  \E buf \in SeqOf({0, 1, 6, 15, 16, 17, 18, 22, 24, 25, 26, 30}, 4) :
    case' = [op |-> "rlp bytes", buf |-> buf]

(* Long heads with lengths of one and two bytes, right ones and others, on *)
(* payloads that fit them, are cut or go on; by themselves or in a list.   *)
PickRlpLong ==
  \E head \in {22, 23, 30, 31}, hi \in {0, 1, 2}, lo \in {0, 1, 5, 6, 7, 8},
     n \in (4 .. 8) \cup (31 .. 34), fill \in {1, 16, 24}, listed \in BOOLEAN :
    LET digits == IF head \in {22, 30} THEN <<lo>> ELSE <<hi, lo>>
        item   == <<head>> \o digits \o [i \in 1 .. n |-> fill]
    IN  case' = [op |-> "rlp bytes",
                 buf |-> IF listed /\ Len(item) < 32 THEN <<30, Len(item)>> \o item
                         ELSE item]

(* Heads of every type: direct, wide, indefinite and illegal, and the      *)
(* break; and nested values whose maps have keys of their own.             *)
CborHeads ==
  LET H(major, info) == CborCodec!HeadByte(major, info)
  IN  {H(0, 1), H(0, 5), H(1, 0), H(2, 1), H(2, 10), H(3, 0), H(4, 0), H(4, 2), H(4, 10),
       H(5, 1), H(5, 10), H(6, 0), H(7, 1), H(7, 7), CborCodec!Break}

PickCbor == \E data \in SeqOf(CborHeads, 4) : case' = [op |-> "cbor", data |-> data]

(* What is in an indefinite map or array, up to its break.                 *)
PickCborOpen ==
  \E major \in {2, 4, 5}, middle \in SeqOf(CborHeads, 3), after \in {0, CborCodec!Break} :
    case' = [op |-> "cbor",
             data |-> <<CborCodec!HeadByte(major, 10)>> \o middle \o <<CborCodec!Break, after>>]

Flat == {CborCodec!Uint(v) : v \in {0, 4, 5, 87, 88}} \cup
        {CborCodec!Bytes(b) : b \in {<<>>, <<0>>, <<87, 0>>, <<1, 2, 3, 4, 5, 6, 7>>}} \cup
        {CborCodec!True, CborCodec!Null}
Arrays(values) == {CborCodec!Array(l) : l \in SeqOf(values, 2)}
KeyPairs == {k \in Flat \X Flat : k[1] # k[2]}
Entries(keys, x, y) == CborCodec!MapOf(<<<<keys[1], x>>, <<keys[2], y>>>>)
FewValues == {CborCodec!Uint(6), CborCodec!Bytes(<<0>>)}

PickValue ==
  LET Pick(v) == case' = [op |-> "value", v |-> v] IN
  \/ \E v \in Flat : Pick(v)
  \/ \E v \in Arrays(Flat) : Pick(v)
  \/ \E v \in Arrays(Arrays(Arrays(FewValues))) : Pick(v)
  \/ \E keys \in KeyPairs, v \in Flat, u \in Arrays(FewValues) :
       \/ Pick(Entries(keys, v, u))
       \/ Pick(Entries(keys, v, Entries(keys, v, u)))
       \/ Pick(CborCodec!Array(<<Entries(keys, v, v), Entries(keys, u, v)>>))

Next ==
  /\ case.op = "none"
  /\ \/ PickCut \/ PickMaps \/ PickHeader \/ PickLength \/ PickBytes
     \/ PickTree \/ PickHeight \/ PickAmount \/ PickDecimal \/ PickInt
     \/ PickVarint \/ PickProgram \/ PickChars \/ PickData \/ PickText
     \/ PickWords \/ PickMisread \/ PickUr \/ PickRlp \/ PickRlpBytes \/ PickRlpLong
     \/ PickCbor \/ PickCborOpen \/ PickValue

Spec == Init /\ [][Next]_case

(* Encoder::new refuses an empty message and fragments of no length. *)
Cuttable == case.op = "cut" /\ case.len > 0 /\ case.piece > 0

(* Encoder::new: fragments of the asked length at most cover the message,  *)
(* and are the shortest that keep their number.  split(): parts fit and    *)
(* can each be decoded, as few as can be and then as short.                *)
CutsFit ==
  /\ Cuttable => CutCovers(case.len, case.piece) /\ CutShortest(case.len, case.piece)
  /\ case.op = "cut" => /\ CutIsLegal(case.len, case.enc, case.piece)
                        /\ CutIsBest(case.len, case.enc, case.piece)

(* The combiner writes a union in which its own records win, and takes     *)
(* nothing twice and nothing back; updaters and signers replace one        *)
(* record.  The order of what is written does not depend on how often.     *)
MapsKept ==
  case.op = "maps" => /\ CombineIsUnion(case.ours, case.theirs)
                      /\ CombineAbsorbs(case.ours, case.theirs)
                      /\ OrderIsStable(case.ours, case.theirs)
                      /\ \A r \in Records : SetIsUpdate(case.ours, r)

(* The header of a compiled Solana message gives each account the rights   *)
(* of its class, with up to 256 accounts and 255 signers; with 256 signers *)
(* it asks for none of them.                                               *)
Decodes ==
  case.op = "header" => HeaderDecodes(case.sw, case.sr, case.nw, case.nr)

(* A listing of leaves is folded to the root of the tree it lists, and     *)
(* refused if it lists none, with one exception, in which walk() panics:   *)
(* it fills the stack and goes on.  Each control block proves its leaf     *)
(* only.                                                                   *)
TreeFolds ==
  case.op = "tree" =>
    /\ Tree!FoldsTrees(case.leaves)
    /\ \A room \in 0 .. MaxDepth : Tree!ProvesLeaves(case.leaves, "key", room)

(* The supply at a height is the sum of the rewards of its blocks, through *)
(* every halving, interval and year.                                       *)
SupplyAddsUp ==
  case.op = "height" => Rewards!SupplyAddsUp(case.network, case.height)

(* An amount reads back from how it is shown, and decimal text is taken    *)
(* for exactly what it says or refused.                                    *)
AmountsExact ==
  /\ case.op = "amount" => Text!DisplayReadsBack(case.v)
  /\ case.op = "decimal" =>
       /\ Text!DecimalIsExact(case.sign, case.whole, case.part)
       /\ Text!WholeIsExact(case.sign, case.whole)
       /\ Text!SignBehindDot(case.sign, case.whole, case.part)

(* Bytes read back from every text form of them, in either case and where  *)
(* there is just room for them, and text that is accepted is the only one  *)
(* of what it stands for.                                                  *)
AddressKept ==
  /\ case.op = "program" =>
       /\ Addresses!SegwitReadsBack(case.hrp, case.version, case.program)
       /\ Addresses!CashReadsBack(case.hrp, case.version, case.program)
  /\ case.op = "chars" =>
       \A hrp \in Hrps : Addresses!OneTextEach(hrp, case.values, case.variant)

DataKept ==
  /\ case.op = "data" => Codecs!BytesReadBack(case.b)
  /\ case.op = "text" => Codecs!OneTextEach(case.text)

WordsKept ==
  /\ case.op = "none" => Urs!KnownAnswer
  /\ case.op = "words" =>
       /\ Urs!WordsReadBack(case.data, case.style)
       /\ Urs!TableIsRight([i \in DOMAIN case.data |-> Urs!BitsOf(case.data[i])])
  /\ case.op = "misread" => Urs!OneTextEach(case.text, case.style)
  /\ case.op = "ur" => Urs!UrReadsBack(case.type, case.sequence, case.data)

TextKept == AddressKept /\ DataKept /\ WordsKept

(* Lengths, items of RLP and values of CBOR read back from their encoding, *)
(* from whatever follows it; lengths of Solana and items of RLP have no    *)
(* second encoding, what is signed and what is parsed and written again    *)
(* being the same bytes; and the CBOR scanner finds where any item ends.   *)
CodesExact ==
  /\ case.op = "length" => ReadsBack(case.v, case.rest)
  /\ case.op = "bytes" => IsCanonical(case.b)
  /\ case.op = "int" => Ints!ReadsBack(case.v, case.rest)
  /\ case.op = "varint" => Ints!NothingShiftedOut(case.b)
  /\ case.op = "rlp" => RlpCodec!ReadsBack(case.items)
  /\ case.op = "rlp bytes" => RlpCodec!OneFormEach(case.buf)
  /\ case.op = "cbor" => CborCodec!ScansItems(case.data)
  /\ case.op = "value" => CborCodec!ValueReadsBack(case.v)
=============================================================================
