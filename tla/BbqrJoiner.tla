------------------------------ MODULE BbqrJoiner ------------------------------
(***************************************************************************)
(* bbqr::Joiner: puts the parts of a file back together, in whatever order *)
(* they come and however many times.  receive() and finish() do not loop   *)
(* over state, so each is one step.                                        *)
(***************************************************************************)
EXTENDS BbqrCut, FiniteSets, Functions

CONSTANTS
  File,          \* the files on show, as split() or split_with() cut them
  FileType,      \* [File -> characters]
  Encoding,      \* [File -> Encodings]
  RawLen,        \* [File -> Nat]: the length of the file
  StoredLen,     \* [File -> Nat]: its length as cut, compressed if it is
  MaxPartLen,    \* [File -> Nat]: the part length asked for
  Bytes(_, _),   \* Bytes(f, i): the bytes of part i, equal for equal bytes
  MaxFileLen     \* max_len, the limit of the joiner

PartsOf(f) == NumParts(StoredLen[f], Encoding[f], MaxPartLen[f])
Places(f) == 0 .. (PartsOf(f) - 1)

(* What every part agrees on: the header with its index set to 0. *)
HeaderOf(f) ==
  [encoding |-> Encoding[f], fileType |-> FileType[f], numParts |-> PartsOf(f)]

DataOf(f, i) ==
  [ bytes |-> Bytes(f, i),
    len   |-> ChunkLen(StoredLen[f], Encoding[f], MaxPartLen[f], i) ]

Contents(f) == [i \in Places(f) |-> DataOf(f, i)]

ASSUME FileAssumption ==
  \A f \in File :
    /\ StoredLen[f] \in Nat
    /\ MaxPartLen[f] \in Nat
    /\ Encoding[f] \in Encodings
    /\ SplitRefusal(StoredLen[f], Encoding[f], MaxPartLen[f]) = None
    /\ Encoding[f] # "Zlib" => StoredLen[f] = RawLen[f]

ASSUME LimitsAssumption ==
  /\ HeaderLen \in Nat
  /\ MaxParts \in Nat
  /\ MaxFileLen \in Nat

(* None is no file and none of its data, and no error.                     *)
ASSUME NoneAssumption ==
  /\ None \notin {"PartTooSmall", "TooManyParts",
                  "InvalidPart", "InconsistentPart", "TooLarge"}
  /\ \A f \in File :
       /\ f # None
       /\ HeaderOf(f) # None
       /\ \A i \in Places(f) : DataOf(f, i) # None

(* A part as scanned.                                                      *)
PartText(f, i) ==
  [wellFormed |-> TRUE, header |-> HeaderOf(f), index |-> i,
   data |-> DataOf(f, i)]

(* What is scanned: parts of the files on show, and text that              *)
(* decode_part_to_slice() refuses.                                         *)
Texts ==
  (UNION {{PartText(f, i) : i \in Places(f)} : f \in File})
    \cup {[PartText(f, 0) EXCEPT !.wellFormed = FALSE] : f \in File}

----------------------------------------------------------------------------
VARIABLES
  header,    \* what every part agrees on, None before the first
  parts,     \* [index -> data or None]
  received,  \* how many parts there are
  len,       \* how many bytes they hold
  result,    \* what the last call returned
  output,    \* what finish() gave back: the file as a function, or None
  seen       \* history: the parts that were not refused since the start

joinerVars == <<header, parts, received, len>>
vars == <<joinerVars, result, output, seen>>

(* with_max_len() *)
Init ==
  /\ header = None
  /\ parts = <<>>
  /\ received = 0
  /\ len = 0
  /\ result = None
  /\ output = None
  /\ seen = {}

(* Mutated form of IsComplete: a part short. *)
IsComplete_Short == header # None /\ received + 1 >= header.numParts

(* is_complete() *)
IsComplete == header # None /\ received = header.numParts

(* Mutated form of Known: every part is taken for a new one. *)
Known_Never(i) == FALSE

Known(i) == i \in DOMAIN parts /\ parts[i] # None

(* Mutated form of Inconsistent: only the number of parts is compared. *)
Inconsistent_CountOnly(t) == header # None /\ header.numParts # t.header.numParts

(* The part is not of the file that the others are of. *)
Inconsistent(t) == header # None /\ header # t.header

(* Mutated form of AlreadySeen: the data is not compared. *)
AlreadySeen_Index(t) == Known(t.index)

AlreadySeen(t) == Known(t.index) /\ parts[t.index] = t.data

(* Mutated form of TooLarge: the limit is for each part. *)
TooLarge_Each(t) == t.data.len > MaxFileLen

TooLarge(t) == t.data.len > MaxFileLen - len

(* The error that a part is refused with, None if it is not. *)
Refusal(t) ==
  IF ~t.wellFormed THEN "InvalidPart"
  ELSE IF Inconsistent(t) THEN "InconsistentPart"
  ELSE IF AlreadySeen(t) THEN None
  ELSE IF Known(t.index) THEN "InconsistentPart"
  ELSE IF TooLarge(t) THEN "TooLarge"
  ELSE None

Refuse(t) ==
  /\ Refusal(t) # None
  /\ result' = Refusal(t)
  /\ output' = None
  /\ UNCHANGED <<joinerVars, seen>>

Ignore(t) ==
  /\ Refusal(t) = None
  /\ AlreadySeen(t)
  /\ result' = IF IsComplete THEN "complete" ELSE "more"
  /\ output' = None
  /\ seen' = seen \cup {t}
  /\ UNCHANGED joinerVars

Keep(t) ==
  LET places == IF header # None THEN parts
                ELSE [i \in 0 .. (t.header.numParts - 1) |-> None]
  IN
  /\ Refusal(t) = None
  /\ ~AlreadySeen(t)
  /\ header' = IF header = None THEN t.header ELSE header
  /\ parts' = [places EXCEPT ![t.index] = t.data]
  /\ received' = received + 1
  /\ len' = len + t.data.len
  /\ result' = IF IsComplete' THEN "complete" ELSE "more"
  /\ output' = None
  /\ seen' = seen \cup {t}

Receive(t) == Refuse(t) \/ Ignore(t) \/ Keep(t)

(* What finish() makes of the parts: the file they are the parts of, once  *)
(* inflated if it was compressed.  Inflating parts that never were one     *)
(* stream fails.                                                           *)
Unpacked ==
  IF header.encoding # "Zlib" THEN parts
  ELSE IF \E f \in File : HeaderOf(f) = header /\ Contents(f) = parts
                          /\ RawLen[f] <= MaxFileLen
    THEN parts
  ELSE None

Finish ==
  /\ IF IsComplete
       THEN /\ output' = Unpacked
            /\ result' = IF Unpacked = None THEN "CannotInflate" ELSE "Finished"
       ELSE /\ output' = None
            /\ result' = "Incomplete"
  /\ UNCHANGED <<joinerVars, seen>>

Reset ==
  /\ header' = None
  /\ parts' = <<>>
  /\ received' = 0
  /\ len' = 0
  /\ result' = None
  /\ output' = None
  /\ seen' = {}

Next ==
  \/ \E t \in Texts : Receive(t)
  \/ Finish
  \/ Reset

Spec == Init /\ [][Next]_vars

----------------------------------------------------------------------------
(* Properties *)

Kept == {i \in DOMAIN parts : parts[i] # None}

(* The limit on what is kept, which max_len - self.len relies on not to    *)
(* wrap: the lengths add up, and stay within the limit.                    *)
Counted ==
  /\ received = Cardinality(Kept)
  /\ len = SumFunction([i \in Kept |-> parts[i].len])
  /\ len <= MaxFileLen

(* Whether two files on show look alike or not, a part is taken in or      *)
(* refused, and nothing in between: what receive() did not refuse is held  *)
(* as it came, and stays so.                                               *)
AcceptedIsKept == \A t \in seen : Known(t.index) /\ parts[t.index] = t.data

(* The joiner accounts for all that it was given: what it did not refuse   *)
(* it has, and its counts are those of what it has.                        *)
Accounted == Counted /\ AcceptedIsKept

(* A piece of a file is a part at its place, with the bytes it has there.  *)
Piece(i, data) == [index |-> i, data |-> data]

PiecesOfFile(f) == {Piece(i, DataOf(f, i)) : i \in Places(f)}

Pieces == {Piece(i, parts[i]) : i \in Kept}

(* The files that the joiner cannot tell apart, and those of them that all *)
(* it holds is of.                                                         *)
Alike == {f \in File : HeaderOf(f) = header}
Fitting == {f \in Alike : Pieces \subseteq PiecesOfFile(f)}

(* Against the words of Joiner ("A joiner handles one file: once it has    *)
(* seen a part, parts of another file are an error"), files of one header  *)
(* are mixed where their parts came at different indexes.  Anything else   *)
(* that is no part of the file is not excused by this.                     *)
Mixed ==
  /\ header # None
  /\ Fitting = {}
  /\ Pieces \subseteq UNION {PiecesOfFile(f) : f \in Alike}

(* Every part of the file was taken in once: the joiner is complete, in    *)
(* whatever order they came, and not before; and finish() gives back such  *)
(* a file, whole, with its type.                                           *)
CompleteWhenAllSeen ==
  ~Mixed =>
    /\ IsComplete <=>
         \E f \in File : {PartText(f, i) : i \in Places(f)} \subseteq seen
    /\ output # None => \E f \in File : HeaderOf(f) = header /\ output = Contents(f)

(* The file that the joiner gathers.                                       *)
SourceOf ==
  IF header = None \/ Mixed THEN None
  ELSE CHOOSE f \in Alike : f \in Fitting \/ Fitting = {}

(* The joiner is a receiver that settles on a file, takes in pieces of     *)
(* that file alone, down to their bytes, loses none, and is complete       *)
(* exactly when it has them all.  Where files of one header were mixed it  *)
(* promises nothing, until it is reset.                                    *)
Abstract == INSTANCE Reassembly WITH
  Source    <- File,
  PiecesOf  <- PiecesOfFile,
  source    <- SourceOf,
  have      <- IF Mixed THEN {} ELSE Pieces,
  delivered <- IF IsComplete THEN SourceOf ELSE None

Reassembles == Abstract!Spec
=============================================================================
