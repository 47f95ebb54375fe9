------------------------------- MODULE BbqrCut -------------------------------
(***************************************************************************)
(* How bbqr::split_raw cuts a file of len bytes into parts of at most      *)
(* maxPart characters each (src/src/bbqr.rs).                              *)
(***************************************************************************)
EXTENDS CeilDiv

CONSTANTS
  HeaderLen,  \* HEADER_LEN, 8 in the code
  MaxParts,   \* MAX_PARTS, 1295 in the code
  None

Encodings == {"Hex", "Base32", "Zlib"}

(* Encoding::group *)
GroupBytes(enc) == IF enc = "Hex" THEN 1 ELSE 5
GroupChars(enc) == IF enc = "Hex" THEN 2 ELSE 8

(* encoded_len *)
EncodedLen(enc, n) == IF enc = "Hex" THEN n * 2 ELSE CeilDiv(n * 8, 5)

(* What is left for the data. *)
Capacity(maxPart) == maxPart - HeaderLen

Groups(len, enc) == CeilDiv(len, GroupBytes(enc))
MaxGroups(enc, maxPart) == Capacity(maxPart) \div GroupChars(enc)

(* Mutated form of PartLen: parts are as full as they can be. *)
PartLen_Full(len, enc, maxPart) ==
  IF EncodedLen(enc, len) <= Capacity(maxPart) THEN len
  ELSE MaxGroups(enc, maxPart) * GroupBytes(enc)

(* As few parts as fit, then as few groups in each as it takes. *)
PartLen(len, enc, maxPart) ==
  IF EncodedLen(enc, len) <= Capacity(maxPart) THEN len
  ELSE LET groups == Groups(len, enc)
           parts  == CeilDiv(groups, MaxGroups(enc, maxPart))
       IN  CeilDiv(groups, parts) * GroupBytes(enc)

AtLeastOne(n) == IF n < 1 THEN 1 ELSE n

(* An empty file still makes a part. *)
NumParts(len, enc, maxPart) ==
  AtLeastOne(CeilDiv(len, AtLeastOne(PartLen(len, enc, maxPart))))

(* The error that a file is refused with, None if it is cut. *)
SplitRefusal(len, enc, maxPart) ==
  IF Capacity(maxPart) < 0 THEN "PartTooSmall"
  ELSE IF EncodedLen(enc, len) > Capacity(maxPart) /\ MaxGroups(enc, maxPart) = 0
    THEN "PartTooSmall"
  ELSE IF NumParts(len, enc, maxPart) > MaxParts THEN "TooManyParts"
  ELSE None

(* The bytes of part i: all parts have partLen, the last one what is left. *)
ChunkLen(len, enc, maxPart, i) ==
  LET p == PartLen(len, enc, maxPart) IN
  IF (i + 1) * p <= len THEN p ELSE len - i * p

----------------------------------------------------------------------------
(* A cut into n parts of p bytes each, the last one not longer, that can   *)
(* each be decoded on their own and shown in maxPart characters.           *)
LegalCut(len, enc, maxPart, n, p) ==
  /\ HeaderLen + EncodedLen(enc, p) <= maxPart
  /\ n = 1 => p = len
  /\ n > 1 => p % GroupBytes(enc) = 0 /\ (n - 1) * p < len /\ len <= n * p

(* "parts of at most max_part_len characters, header included", of the     *)
(* same length but the last one, cut between groups.                       *)
CutIsLegal(len, enc, maxPart) ==
  SplitRefusal(len, enc, maxPart) = None =>
    LegalCut(len, enc, maxPart, NumParts(len, enc, maxPart),
             PartLen(len, enc, maxPart))

(* "The parts are as few as max_part_len allows, and then as short": no    *)
(* legal cut has fewer parts, nor shorter ones as many, and a file is only *)
(* refused when there is no legal cut into MaxParts.                       *)
CutIsBest(len, enc, maxPart) ==
  \A n \in 1 .. (len + 1), p \in 0 .. len :
    LegalCut(len, enc, maxPart, n, p) =>
      IF SplitRefusal(len, enc, maxPart) = None
        THEN \/ NumParts(len, enc, maxPart) < n
             \/ /\ NumParts(len, enc, maxPart) = n
                /\ PartLen(len, enc, maxPart) <= p
        ELSE n > MaxParts
=============================================================================
