--------------------------- MODULE FountainTransfer ---------------------------
(***************************************************************************)
(* Screens that show the parts of fountain encoders, and a camera that     *)
(* feeds a decoder.  A part that leaves the screen before it is scanned is *)
(* lost, one that stays is scanned any number of times, and the camera may *)
(* turn from one screen to another.                                        *)
(***************************************************************************)
EXTENDS FountainDecoder

VARIABLES seqNum, produced

Enc == INSTANCE FountainEncoder

transferVars == <<vars, seqNum, produced>>

TInit ==
  /\ Init
  /\ Enc!Init

(* A call to receive() takes much less time than a frame: frames that pass *)
(* meanwhile are as good as lost, and are shown after it here.             *)
Show(s) ==
  /\ phase = "idle"
  /\ Enc!NextPart(s)
  /\ UNCHANGED vars

Scan(s) ==
  /\ seqNum[s] > 0
  /\ Receive(Enc!OnScreen(s))
  /\ UNCHANGED <<seqNum, produced>>

DecoderStep ==
  /\ Reduce
  /\ UNCHANGED <<seqNum, produced>>

TNext ==
  \/ \E s \in Stream : Show(s) \/ Scan(s)
  \/ DecoderStep

TSpec == TInit /\ [][TNext]_transferVars

(* Screens go on to the next part, a call to receive() runs to its end,    *)
(* and a part that is shown over and over is scanned at some point.        *)
TFairSpec ==
  /\ TSpec
  /\ WF_transferVars(DecoderStep)
  /\ \A s \in Stream : SF_transferVars(Show(s))
  /\ \A s \in Stream : \A n \in 1 .. SeqMax :
       SF_transferVars(seqNum[s] = n /\ Scan(s))

----------------------------------------------------------------------------
(* What is_complete() tells, of both encoders: see FountainEncoder.        *)
CompleteIsProduced == Enc!CompleteIsProduced

(* The decoder completes, however many parts are lost. *)
EventuallyComplete == <>complete

Told(s) == UrTypeOf[s] = urType /\ ShapeOf(s) = shape

SourceOf ==
  IF complete THEN CHOOSE s \in Stream : UrTypeOf[s] = urType /\ message = Whole(s)
  ELSE IF shape = None THEN None
  ELSE CHOOSE s \in Stream : Told(s)

(* The transfer delivers the message of one source once it has all its     *)
(* pieces, and keeps the pieces it has (Decoder's "puts the parts of a UR  *)
(* back together").                                                        *)
Abstract == INSTANCE Reassembly WITH
  Source    <- Stream,
  PiecesOf  <- Indexes,
  source    <- SourceOf,
  have      <- IF complete THEN Indexes(SourceOf) ELSE known,
  delivered <- IF complete THEN SourceOf ELSE None

Reassembles == Abstract!GatherSpec
=============================================================================
