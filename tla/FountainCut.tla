----------------------------- MODULE FountainCut -----------------------------
(***************************************************************************)
(* How bcur::fountain::Encoder::new cuts a message of len bytes into       *)
(* fragments of at most max bytes.                                         *)
(***************************************************************************)
EXTENDS CeilDiv, TLAPS

(* Mutated form of FragmentLen: as long as was asked for. *)
FragmentLen_Max(len, max) == max

(* fragment_len: the number of fragments comes from the length asked for,  *)
(* then the length from their number.                                      *)
FragmentLen(len, max) == CeilDiv(len, CeilDiv(len, max))

(* seq_len, from the length they really have. *)
FragmentCount(len, max) == CeilDiv(len, FragmentLen(len, max))

----------------------------------------------------------------------------
(* "fragments of at most max_fragment_len bytes each": and every fragment  *)
(* but the last one is full, which is not empty, so that message_len, the  *)
(* number and the length of fragments fit the check of Decoder::start().   *)
CutCovers(len, max) ==
  LET f == FragmentLen(len, max)
      n == FragmentCount(len, max)
  IN  f \in 1 .. max /\ (n - 1) * f < len /\ len <= n * f

(* "The fragments are all of the same length, the shortest that keeps      *)
(* their number": a byte less and there would be more of them.             *)
CutShortest(len, max) ==
  LET f == FragmentLen(len, max)
      n == FragmentCount(len, max)
  IN  n = CeilDiv(len, max) /\ n * (f - 1) < len

----------------------------------------------------------------------------
(* Both hold for messages and fragments of every length.                  *)

Positive == Nat \ {0}

(* Of div_ceil: its value is the least number of pieces of b that cover a. *)
LEMMA CeilDivCovers ==
  ASSUME NEW a \in Positive, NEW b \in Positive
  PROVE  /\ CeilDiv(a, b) \in Positive
         /\ (CeilDiv(a, b) - 1) * b < a
         /\ a <= CeilDiv(a, b) * b
BY SMT DEF CeilDiv, Positive

LEMMA CeilDivLeast ==
  ASSUME NEW a \in Positive, NEW b \in Positive, NEW q \in Nat, a <= q * b
  PROVE  CeilDiv(a, b) <= q
BY SMT DEF CeilDiv, Positive

----------------------------------------------------------------------------
(* The number of fragments that new() computes from their length is the    *)
(* number it started from: dividing twice loses nothing.                   *)
LEMMA CountKept ==
  ASSUME NEW len \in Positive, NEW max \in Positive
  PROVE  /\ FragmentLen(len, max) \in 1 .. max
         /\ FragmentCount(len, max) = CeilDiv(len, max)
<1> DEFINE n == CeilDiv(len, max)
           f == FragmentLen(len, max)
<1>1. n \in Positive /\ len <= n * max
  BY CeilDivCovers
<1>2. f \in Positive /\ (f - 1) * n < len /\ len <= f * n
  BY <1>1, CeilDivCovers DEF FragmentLen
<1>3. f <= max
  <2>1. len <= max * n
    BY <1>1 DEF Positive
  <2> QED
    BY <1>1, <2>1, CeilDivLeast DEF FragmentLen, Positive
<1>4. CeilDiv(len, f) <= n
  <2>1. len <= n * f
    BY <1>1, <1>2 DEF Positive
  <2> QED
    BY <1>1, <1>2, <2>1, CeilDivLeast DEF Positive
<1>5. n <= CeilDiv(len, f)
  <2> DEFINE count == CeilDiv(len, f)
  <2>1. count \in Positive /\ len <= count * f
    BY <1>2, CeilDivCovers
  <2>2. count * f <= count * max
    BY <2>1, <1>2, <1>3 DEF Positive
  <2>3. len <= count * max
    BY <2>1, <2>2, <1>2 DEF Positive
  <2> QED
    BY <2>1, <2>3, CeilDivLeast DEF Positive
<1>6. CeilDiv(len, f) \in Positive
  BY <1>2, CeilDivCovers
<1> QED
  BY <1>1, <1>2, <1>3, <1>4, <1>5, <1>6 DEF FragmentCount, Positive

(* Encoder::new: fragments are not longer than asked for, cover the        *)
(* message, and none is empty, whatever the two lengths.                   *)
THEOREM FragmentsCover ==
  \A len, max \in Positive : CutCovers(len, max)
<1> SUFFICES ASSUME NEW len \in Positive, NEW max \in Positive
             PROVE  CutCovers(len, max)
  OBVIOUS
<1> DEFINE f == FragmentLen(len, max)
<1>1. f \in Positive /\ f \in 1 .. max
  BY CountKept DEF Positive
<1>2. (CeilDiv(len, f) - 1) * f < len /\ len <= CeilDiv(len, f) * f
  BY <1>1, CeilDivCovers
<1> QED
  BY <1>1, <1>2 DEF CutCovers, FragmentCount

(* Encoder::new: the fragments are the shortest that keep their number.    *)
THEOREM FragmentsShortest ==
  \A len, max \in Positive : CutShortest(len, max)
<1> SUFFICES ASSUME NEW len \in Positive, NEW max \in Positive
             PROVE  CutShortest(len, max)
  OBVIOUS
<1> DEFINE n == CeilDiv(len, max)
           f == FragmentLen(len, max)
<1>1. n \in Positive
  BY CeilDivCovers
<1>2. f \in Positive /\ (f - 1) * n < len
  BY <1>1, CeilDivCovers DEF FragmentLen
<1>3. FragmentCount(len, max) = n
  BY CountKept
<1>4. n * (f - 1) < len
  BY <1>1, <1>2 DEF Positive
<1> QED
  BY <1>3, <1>4 DEF CutShortest
=============================================================================
