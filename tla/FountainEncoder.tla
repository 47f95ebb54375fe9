--------------------------- MODULE FountainEncoder ---------------------------
(***************************************************************************)
(* bcur::fountain::Encoder: an endless supply of parts for each stream,    *)
(* numbered from 1 and over again when a u32 runs out.                     *)
(***************************************************************************)
EXTENDS Fountain

VARIABLES
  seqNum,    \* the number of the last part, 0 before the first
  produced   \* history: the fragments that came out on their own

vars == <<seqNum, produced>>

Init ==
  /\ seqNum = [s \in Stream |-> 0]
  /\ produced = [s \in Stream |-> {}]

(* next_part() *)
NextPart(s) ==
  LET n == NextSeq(seqNum[s]) IN
  /\ seqNum' = [seqNum EXCEPT ![s] = n]
  /\ produced' = [produced EXCEPT ![s] =
                    @ \cup (IF n <= SeqLen(s) THEN PartIndexes(s, n) ELSE {})]

Next == \E s \in Stream : NextPart(s)

Spec == Init /\ [][Next]_vars

(* Mutated form of IsComplete: one part early. *)
IsComplete_Early(s) == seqNum[s] >= SeqLen(s) - 1

(* is_complete() *)
IsComplete(s) == seqNum[s] >= SeqLen(s)

(* What text is on the screen of stream s, once there is one. *)
OnScreen(s) == EncodedText(s, seqNum[s])

----------------------------------------------------------------------------
TypeOK ==
  /\ seqNum \in [Stream -> 0 .. SeqMax]
  /\ \A s \in Stream : produced[s] \subseteq Indexes(s)

(* is_complete() tells that each fragment came out once, "which is all a   *)
(* receiver that missed none needs".                                       *)
CompleteIsProduced ==
  \A s \in Stream : IsComplete(s) => produced[s] = Indexes(s)
=============================================================================
