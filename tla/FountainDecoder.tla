--------------------------- MODULE FountainDecoder ---------------------------
(***************************************************************************)
(* bcur::fountain::Decoder: puts the parts of a UR back together, in       *)
(* whatever order they come.  receive() is the accepting step below and    *)
(* the steps of its loop, reduce(); nothing else runs between them.  The   *)
(* vectors `mixed' and `queue' are sets: no two of their parts mix the     *)
(* same fragments (HeldIrreducible and QueueReducible), and the steps are  *)
(* taken in any order, of which the code picks one.                        *)
(***************************************************************************)
EXTENDS Fountain

CONSTANTS
  MaxMessageLen, MaxFragments,  \* the limits of with_limits()
  MaxFragmentsForSubsets,       \* 256 in the code
  HoldPerFragment, HoldSlack    \* 2 and 16 in the code

ASSUME LimitAssumption ==
  /\ MaxMessageLen \in Nat
  /\ MaxFragments \in Nat
  /\ MaxFragmentsForSubsets \in Nat
  /\ HoldPerFragment \in Nat
  /\ HoldSlack \in Nat

Atoms == Stream \X Nat

(* The parts that mix fragments of I. *)
PartsOf(I) == [indexes : SUBSET I, data : SUBSET Atoms]

Refusals == {"InvalidUr", "TypeMismatch", "InvalidBody", "InvalidSequence",
             "InvalidPart", "InconsistentPart", "TooLarge"}

(* None is neither a part nor an error. *)
ASSUME NoPartAssumption == None \notin PartsOf(Nat) /\ None \notin Refusals

VARIABLES
  urType, shape, message, known, knownCount, mixed, sampler, complete,
  phase,     \* "reducing" inside reduce(), "idle" between calls
  queue,     \* the local variables of reduce(): the parts to take in
  cur,       \*   and the one taken off the queue
  result,    \* what the last call returned
  accepted,  \* history: the fragments mixed by each part since the start
  dropped    \* history: a part was dropped because too many are on hold

decoderVars == <<urType, shape, message, known, knownCount, mixed, sampler,
                 complete>>
loopVars == <<phase, queue, cur>>
historyVars == <<accepted, dropped>>
vars == <<decoderVars, loopVars, result, historyVars>>

(* with_limits() *)
Init ==
  /\ urType = None
  /\ shape = None
  /\ message = <<>>
  /\ known = {}
  /\ knownCount = 0
  /\ mixed = {}
  /\ sampler = None
  /\ complete = FALSE
  /\ accepted = {}
  /\ dropped = FALSE
  /\ phase = "idle"
  /\ queue = {}
  /\ cur = None
  /\ result = None

(* reset(): everything received is forgotten. *)
Forget ==
  /\ urType' = None
  /\ shape' = None
  /\ message' = <<>>
  /\ known' = {}
  /\ knownCount' = 0
  /\ mixed' = {}
  /\ sampler' = None
  /\ complete' = FALSE
  /\ accepted' = {}
  /\ dropped' = FALSE

----------------------------------------------------------------------------
(* receive() *)

(* start(): the checks of the first part of a message. *)
StartRefusal(sh) ==
  IF sh.messageLen = 0 \/ sh.fragmentLen = 0 THEN "InvalidPart"
  ELSE IF CeilDiv(sh.messageLen, sh.fragmentLen) # sh.seqLen
    THEN "InvalidPart"
  ELSE IF sh.messageLen > MaxMessageLen \/ sh.seqLen > MaxFragments
    THEN "TooLarge"
  ELSE None

(* Mutated form of TypeMismatch: the type is not compared. *)
TypeMismatch_Never(t) == FALSE

TypeMismatch(t) == urType # None /\ urType # t.type

(* Mutated form of Inconsistent: only the number of fragments is compared. *)
Inconsistent_SeqLen(t) == shape.seqLen # t.shape.seqLen

Inconsistent(t) == shape # t.shape

(* The error that a string is refused with, None if it is taken in. *)
Refusal(t) ==
  IF t.form = "unparsed" THEN "InvalidUr"
  ELSE IF TypeMismatch(t) THEN "TypeMismatch"
  ELSE IF t.form = "corrupt" THEN "InvalidBody"
  ELSE IF t.form = "single" THEN
    IF shape # None THEN "InconsistentPart"
    ELSE IF t.shape.messageLen > MaxMessageLen THEN "TooLarge"
    ELSE None
  ELSE IF t.label # <<t.seqNum, t.shape.seqLen>> THEN "InvalidSequence"
  ELSE IF shape = None THEN StartRefusal(t.shape)
  ELSE IF Inconsistent(t) THEN "InconsistentPart"
  ELSE None

IgnoreComplete ==
  /\ phase = "idle"
  /\ complete
  /\ result' = "complete"
  /\ UNCHANGED <<decoderVars, loopVars, historyVars>>

Refuse(t) ==
  /\ phase = "idle"
  /\ ~complete
  /\ Refusal(t) # None
  /\ result' = Refusal(t)
  /\ UNCHANGED <<decoderVars, loopVars, historyVars>>

AcceptSingle(t) ==
  /\ phase = "idle"
  /\ ~complete
  /\ t.form = "single"
  /\ Refusal(t) = None
  /\ urType' = t.type
  /\ known' = {0}
  /\ knownCount' = 1
  /\ message' = t.message
  /\ complete' = TRUE
  /\ result' = "complete"
  /\ UNCHANGED <<shape, mixed, sampler, loopVars, historyVars>>

AcceptPart(t) ==
  LET chosen == ChooseFragments(t.seqNum, t.shape.seqLen, t.shape.checksum) IN
  /\ phase = "idle"
  /\ ~complete
  /\ t.form = "part"
  /\ Refusal(t) = None
  /\ IF shape = None
       THEN /\ shape' = t.shape
            /\ message' = [i \in 0 .. (t.shape.seqLen - 1) |-> {}]
       ELSE UNCHANGED <<shape, message>>
  /\ urType' = IF urType = None THEN t.type ELSE urType
  /\ sampler' = IF t.seqNum > t.shape.seqLen /\ sampler = None
                  THEN t.shape.seqLen ELSE sampler
  /\ phase' = "reducing"
  /\ queue' = {[indexes |-> chosen, data |-> t.data]}
  /\ accepted' = accepted \cup {chosen}
  /\ UNCHANGED <<known, knownCount, mixed, complete, cur, result, dropped>>

Receive(t) ==
  \/ IgnoreComplete
  \/ Refuse(t)
  \/ AcceptSingle(t)
  \/ AcceptPart(t)

----------------------------------------------------------------------------
(* reduce() *)

WithSubsets == shape.seqLen <= MaxFragmentsForSubsets

StrictSubset(I, J) == I \subseteq J /\ I # J

HoldLimit == HoldPerFragment * shape.seqLen + HoldSlack

Pop ==
  /\ phase = "reducing"
  /\ cur = None
  /\ \E p \in queue :
       /\ cur' = p
       /\ queue' = queue \ {p}
  /\ UNCHANGED <<decoderVars, phase, result, historyVars>>

(* What is known is XORed out of the part. *)
DropKnown ==
  /\ phase = "reducing"
  /\ cur # None
  /\ \E i \in cur.indexes \cap known :
       cur' = [indexes |-> cur.indexes \ {i},
               data    |-> Xor(cur.data, message[i])]
  /\ UNCHANGED <<decoderVars, phase, queue, result, historyVars>>

(* A part on hold that this one covers is XORed out of it too. *)
SubtractHeld ==
  /\ phase = "reducing"
  /\ cur # None
  /\ cur.indexes \cap known = {}
  /\ WithSubsets
  /\ \E held \in mixed :
       /\ StrictSubset(held.indexes, cur.indexes)
       /\ cur' = [indexes |-> cur.indexes \ held.indexes,
                  data    |-> Xor(cur.data, held.data)]
  /\ UNCHANGED <<decoderVars, phase, queue, result, historyVars>>

(* Mutated form of Reduced: what is known is left in the part. *)
Reduced_KnownKept ==
  /\ phase = "reducing"
  /\ cur # None

(* Nothing is left to XOR out of the part. *)
Reduced ==
  /\ phase = "reducing"
  /\ cur # None
  /\ cur.indexes \cap known = {}
  /\ WithSubsets =>
       \A held \in mixed : ~StrictSubset(held.indexes, cur.indexes)

(* Mutated forms of Mixing and Covering: nothing is requeued; whatever     *)
(* overlaps is requeued.                                                   *)
Mixing_None(i) == {}
Covering_None == {}
Covering_Overlap == {held \in mixed : held.indexes \cap cur.indexes # {}}

(* The parts on hold that requeue() is to move to the queue: those that    *)
(* mix fragment i, and those that cover the part at hand.                  *)
Mixing(i) == {held \in mixed : i \in held.indexes}
Covering ==
  {held \in mixed : WithSubsets /\ StrictSubset(cur.indexes, held.indexes)}

(* Mutated form of Room: parts are held without a limit. *)
Room_Always == TRUE

Room == Cardinality(mixed \ Covering) < HoldLimit

(* The part says nothing new. *)
Discard ==
  /\ Reduced
  /\ \/ cur.indexes = {}
     \/ /\ Cardinality(cur.indexes) > 1
        /\ \E held \in mixed : held.indexes = cur.indexes
  /\ cur' = None
  /\ UNCHANGED <<decoderVars, phase, queue, result, historyVars>>

(* The part is down to one fragment, which is now known. *)
Recover ==
  /\ Reduced
  /\ \E i \in cur.indexes :
       /\ cur.indexes = {i}
       /\ message' = [message EXCEPT ![i] = cur.data]
       /\ known' = known \cup {i}
       /\ knownCount' = knownCount + 1
       /\ queue' = queue \cup Mixing(i)
       /\ mixed' = mixed \ Mixing(i)
  /\ cur' = None
  /\ UNCHANGED <<urType, shape, sampler, complete, phase, result, historyVars>>

(* The part is put on hold, if there is room, once the parts that cover it *)
(* are back in the queue.                                                  *)
Hold ==
  /\ Reduced
  /\ Cardinality(cur.indexes) > 1
  /\ \A held \in mixed : held.indexes # cur.indexes
  /\ queue' = queue \cup Covering
  /\ mixed' = (mixed \ Covering) \cup (IF Room THEN {cur} ELSE {})
  /\ dropped' = (dropped \/ ~Room)
  /\ cur' = None
  /\ UNCHANGED <<urType, shape, message, known, knownCount, sampler, complete,
                 phase, result, accepted>>

----------------------------------------------------------------------------
(* The end of receive(), once the queue is empty, and finish(). *)

Drained ==
  /\ phase = "reducing"
  /\ cur = None
  /\ queue = {}

(* Mutated form of AllKnown: one fragment short. *)
AllKnown_Early == knownCount + 1 >= shape.seqLen

(* Mutated form of AllKnown: never. *)
AllKnown_Never == knownCount > shape.seqLen

AllKnown == knownCount = shape.seqLen

(* The padding is zeros and the checksum is that of the message: what was  *)
(* put together is the message of a stream of this shape.  Anything else   *)
(* is taken to fail, which a CRC-32 does but once in 2^32.                 *)
Verified == \E s \in Stream : ShapeOf(s) = shape /\ message = Whole(s)

ReturnMore ==
  /\ Drained
  /\ ~AllKnown
  /\ phase' = "idle"
  /\ result' = "more"
  /\ UNCHANGED <<decoderVars, queue, cur, historyVars>>

FinishGood ==
  /\ Drained
  /\ AllKnown
  /\ Verified
  /\ mixed' = {}
  /\ sampler' = None
  /\ complete' = TRUE
  /\ phase' = "idle"
  /\ result' = "complete"
  /\ UNCHANGED <<urType, shape, message, known, knownCount, queue, cur,
                 historyVars>>

FinishBad ==
  /\ Drained
  /\ AllKnown
  /\ ~Verified
  /\ Forget
  /\ phase' = "idle"
  /\ result' = "BadChecksum"
  /\ UNCHANGED <<queue, cur>>

Return == ReturnMore \/ FinishGood \/ FinishBad

Reset ==
  /\ phase = "idle"
  /\ Forget
  /\ result' = None
  /\ UNCHANGED loopVars

----------------------------------------------------------------------------
Reduce ==
  \/ Pop
  \/ DropKnown
  \/ SubtractHeld
  \/ Discard
  \/ Recover
  \/ Hold
  \/ Return

Next ==
  \/ \E t \in Texts : Receive(t)
  \/ Reduce
  \/ Reset

Spec == Init /\ [][Next]_vars

(* A call to receive() runs to its end. *)
FairSpec == Spec /\ WF_vars(Reduce)

----------------------------------------------------------------------------
(* Properties *)

Shapes == {ShapeOf(s) : s \in Stream}

Idx == 0 .. (IF shape = None THEN 0 ELSE shape.seqLen - 1)

(* The state between and inside calls to receive(): a shape that some      *)
(* encoder uses, parts on hold and in the queue within its fragments, one  *)
(* place for each fragment.                                                *)
TypeOK ==
  /\ urType \in {None} \cup {UrTypeOf[s] : s \in Stream}
  /\ shape \in {None} \cup Shapes
  /\ known \subseteq Idx
  /\ knownCount \in Nat
  /\ complete \in BOOLEAN
  /\ shape # None =>
       /\ DOMAIN message = Idx
       /\ \A i \in Idx : message[i] \in SUBSET Atoms
  /\ mixed \cup queue \subseteq PartsOf(Idx)
  /\ cur # None => cur \in PartsOf(Idx)
  /\ sampler # None => shape # None /\ sampler = shape.seqLen
  /\ phase \in {"idle", "reducing"}
  /\ phase = "idle" => queue = {} /\ cur = None
  /\ dropped \in BOOLEAN

(* What receive() completes on is, bit for bit, the message of a stream of *)
(* the type that the decoder reports, whatever was mixed into it.          *)
CompleteIsSent ==
  complete => \E s \in Stream : UrTypeOf[s] = urType /\ message = Whole(s)

(* Parts on hold mix two or more unknown fragments, no two of them the     *)
(* same ones, and none covers another while subsets are looked for: there  *)
(* is nothing left to simplify once reduce() has returned.                 *)
HeldIrreducible ==
  /\ \A p \in mixed : Cardinality(p.indexes) > 1 /\ p.indexes \cap known = {}
  /\ \A p, q \in mixed : p.indexes = q.indexes => p = q
  /\ (shape # None /\ WithSubsets) =>
       \A p, q \in mixed : ~StrictSubset(p.indexes, q.indexes)

(* A part that requeue() put in the queue will get simpler when its turn   *)
(* comes, whatever was done in between: it mixes a known fragment, or it   *)
(* covers a part on hold.  The first part of a call is alone in the queue. *)
QueueReducible ==
  \A p \in queue :
    \/ p.indexes \cap known # {}
    \/ WithSubsets /\ \E q \in mixed : StrictSubset(q.indexes, p.indexes)
    \/ queue = {p} /\ cur = None

(* No fragment that the parts taken in determine one at a time is missed:  *)
(* between calls, no part that was accepted lacks just one fragment,       *)
(* unless a part had to be dropped for want of room.                       *)
PeelComplete ==
  (phase = "idle" /\ ~dropped) =>
    \A S \in accepted : Cardinality(S \ known) # 1

(* "Parts on hold are only worth so much memory": the limit holds at every *)
(* step of reduce(), the parts it has in its queue included.               *)
HoldBound ==
  shape # None =>
    Cardinality(mixed \cup queue) + (IF cur = None THEN 0 ELSE 1)
      <= HoldLimit + 1

(* The first fragment_count parts "are all a receiver needs when it misses *)
(* none": once each fragment came on its own, the decoder is complete,     *)
(* whatever else it was shown and had to drop.                             *)
NoneMissedCompletes ==
  (phase = "idle" /\ shape # None /\ \A i \in Idx : {i} \in accepted) =>
    complete

(* known_count, which decides when to finish, is the number of fragments   *)
(* marked as known: none is counted twice.                                 *)
CountExact == knownCount = Cardinality(known)

(* Within a message, a fragment once recovered stays, with the bytes it    *)
(* had: no later part, be it of another message, writes over it.           *)
RecoveredStays ==
  [][ \/ shape' = None /\ known' = {}
      \/ /\ known \subseteq known'
         /\ \A i \in known : message'[i] = message[i] ]_vars

(* reduce() ends: parts do not move between the queue and the parts on     *)
(* hold forever.                                                           *)
ReduceTerminates == (phase = "reducing") ~> (phase = "idle")
=============================================================================
