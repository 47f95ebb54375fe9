------------------------------ MODULE Fountain ------------------------------
(***************************************************************************)
(* The fountain code of multi-part URs (src/src/bcur/fountain.rs): how a   *)
(* message is cut into fragments, which fragments a part mixes, and what   *)
(* the parts of the encoders look like to a decoder.                       *)
(*                                                                         *)
(* Bytes are symbolic.  Fragment i of the message of stream s is the set   *)
(* {<<s, i>>}, the XOR of two byte strings is the symmetric difference of  *)
(* the sets that stand for them, and a string of zeros is {}.              *)
(***************************************************************************)
EXTENDS FountainCut, FiniteSets

CONSTANTS
  Stream,          \* the messages that encoders show, one stream of parts each
  UrTypeOf,        \* [Stream -> types]: the UR type, in lowercase
  MessageLen,      \* [Stream -> Nat \ {0}]: cbor.len()
  MaxFragmentLen,  \* [Stream -> Nat \ {0}]: what the encoder was given
  Checksum,        \* [Stream -> values]: crc32(cbor); two streams may collide
  Mix(_, _, _),    \* Mix(n, l, c): the fragments the seeded generator picks
  SeqMax,          \* u32::MAX, the last sequence number
  None             \* Rust's None

ASSUME StreamAssumption ==
  /\ MessageLen \in [Stream -> Nat \ {0}]
  /\ MaxFragmentLen \in [Stream -> Nat \ {0}]

----------------------------------------------------------------------------
SeqLen(s) == FragmentCount(MessageLen[s], MaxFragmentLen[s])

(* What every part of a message agrees on. *)
ShapeOf(s) ==
  [ seqLen      |-> SeqLen(s),
    messageLen  |-> MessageLen[s],
    checksum    |-> Checksum[s],
    fragmentLen |-> FragmentLen(MessageLen[s], MaxFragmentLen[s]) ]

(* None is neither a type nor a shape. *)
ASSUME NoneAssumption ==
  \A s \in Stream : UrTypeOf[s] # None /\ ShapeOf(s) # None

Indexes(s) == 0 .. (SeqLen(s) - 1)

(* Mutated form of ChooseFragments: fragments are numbered from 1. *)
ChooseFragments_OneBased(n, l, c) == IF n <= l THEN {n} ELSE Mix(n, l, c)

(* The first seqLen parts are the fragments in order; the parts after them *)
(* mix a set of fragments that follows from the seed.                      *)
ChooseFragments(n, l, c) == IF n <= l THEN {n - 1} ELSE Mix(n, l, c)

PartIndexes(s, n) == ChooseFragments(n, SeqLen(s), Checksum[s])

ASSUME SeqMaxAssumption == SeqMax \in Nat \ {0}

(* The generator picks a degree of at least 1 and that many fragments. *)
ASSUME MixAssumption ==
  \A s \in Stream : \A n \in (SeqLen(s) + 1) .. SeqMax :
    /\ Mix(n, SeqLen(s), Checksum[s]) \subseteq Indexes(s)
    /\ Mix(n, SeqLen(s), Checksum[s]) # {}

----------------------------------------------------------------------------
(* XOR of byte strings. *)
Xor(a, b) == (a \ b) \cup (b \ a)

(* The XOR of the fragments I of stream s, and its message, whole. *)
Content(s, I) == {s} \X I
Whole(s) == [i \in Indexes(s) |-> Content(s, {i})]

(* Mutated form of NextSeq: the last number stays. *)
NextSeq_Saturating(n) == IF n = SeqMax THEN SeqMax ELSE n + 1

(* next_part: numbers start at 1, and start over when they run out. *)
NextSeq(n) == IF n = SeqMax THEN 1 ELSE n + 1

(* What a scanned string holds.  "unparsed" is not a UR at all; the body   *)
(* of a "corrupt" one fails its checksum or is not a part; "single" is the *)
(* UR of a whole message; "part" a fountain part with its label.           *)
SingleText(s) ==
  [form |-> "single", type |-> UrTypeOf[s], shape |-> ShapeOf(s),
   message |-> Whole(s)]

PartText(s, n) ==
  [form |-> "part", type |-> UrTypeOf[s], label |-> <<n, SeqLen(s)>>,
   seqNum |-> n, shape |-> ShapeOf(s), data |-> Content(s, PartIndexes(s, n))]

(* Encoder::next_part. *)
EncodedText(s, n) == IF SeqLen(s) = 1 THEN SingleText(s) ELSE PartText(s, n)

(* Strings no encoder makes: damaged ones, a label that does not match the *)
(* part, a number of fragments that does not match the lengths.            *)
DamagedTexts(s) ==
  LET p == PartText(s, 1) IN
  { [p EXCEPT !.form = "unparsed"],
    [p EXCEPT !.form = "corrupt"],
    [p EXCEPT !.label = <<2, SeqLen(s)>>],
    [p EXCEPT !.label = <<1, SeqLen(s) + 1>>, !.shape.seqLen = SeqLen(s) + 1] }

Texts ==
  {SingleText(s) : s \in Stream}
    \cup {PartText(s, n) : s \in Stream, n \in 1 .. SeqMax}
    \cup UNION {DamagedTexts(s) : s \in Stream}
=============================================================================
