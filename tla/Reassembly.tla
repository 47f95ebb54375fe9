----------------------------- MODULE Reassembly -----------------------------
(***************************************************************************)
(* What a receiver of a message cut into pieces promises, whatever the     *)
(* code behind it (bcur::fountain::Decoder, bbqr::Joiner): it settles on   *)
(* one source, gathers pieces of that source alone, never loses one, and   *)
(* delivers the message of that source once it has them all.               *)
(***************************************************************************)
CONSTANTS
  Source,       \* the messages on show
  PiecesOf(_),  \* the pieces of a message
  None

VARIABLES
  source,       \* the message being gathered
  have,         \* the pieces it has of it
  delivered     \* the message handed out

vars == <<source, have, delivered>>

Init ==
  /\ source = None
  /\ have = {}
  /\ delivered = None

Gather(s) ==
  /\ delivered = None
  /\ source \in {None, s}
  /\ source' = s
  /\ have' \in SUBSET PiecesOf(s)
  /\ have \subseteq have'
  /\ delivered' \in {None} \cup (IF have' = PiecesOf(s) THEN {s} ELSE {})

Forget ==
  /\ source' = None
  /\ have' = {}
  /\ delivered' = None

Next == (\E s \in Source : Gather(s)) \/ Forget

Spec == Init /\ [][Next]_vars

(* Without a user who starts over. *)
GatherSpec == Init /\ [][\E s \in Source : Gather(s)]_vars
=============================================================================
