--------------------------- MODULE FountainProofs ---------------------------
(***************************************************************************)
(* What holds of the decoder for any set of messages, limits and mixing    *)
(* function: FountainDecoder's safety properties, by one invariant that    *)
(* every action keeps.                                                     *)
(*                                                                         *)
(* Then what holds of a transfer: is_complete() of the encoders is right,  *)
(* what is on a screen is all that the decoder is ever given, and screens  *)
(* and decoder together are the receiver that Reassembly promises.         *)
(***************************************************************************)
EXTENDS FountainTransfer, FiniteSetTheorems, TLAPS

----------------------------------------------------------------------------
(* The streams *)

(* What an encoder's cut gives passes the checks of a decoder.             *)
LEMMA StreamShape ==
  ASSUME NEW s \in Stream
  PROVE  /\ SeqLen(s) \in Nat \ {0}
         /\ SeqLen(s) = CeilDiv(ShapeOf(s).messageLen, ShapeOf(s).fragmentLen)
         /\ ShapeOf(s).seqLen = SeqLen(s)
         /\ Indexes(s) \subseteq Nat
         /\ 0 \in Indexes(s)
<1>1. MessageLen[s] \in Positive /\ MaxFragmentLen[s] \in Positive
  BY StreamAssumption DEF Positive
<1>2. SeqLen(s) = CeilDiv(MessageLen[s], MaxFragmentLen[s])
  BY <1>1, CountKept DEF SeqLen
<1>3. SeqLen(s) \in Positive
  BY <1>1, <1>2, CeilDivCovers
<1> QED
  BY <1>3 DEF ShapeOf, SeqLen, FragmentCount, Indexes, Positive

(* The fragments that a stream's parts mix. *)
LEMMA StreamParts ==
  ASSUME NEW s \in Stream, NEW n \in 1 .. SeqMax
  PROVE  /\ PartIndexes(s, n) \subseteq Indexes(s)
         /\ Content(s, PartIndexes(s, n)) \in SUBSET ({s} \X Nat)
<1>1. PartIndexes(s, n) \subseteq Indexes(s)
  <2>1. CASE n <= SeqLen(s)
    BY <2>1, StreamShape, SeqMaxAssumption
       DEF PartIndexes, ChooseFragments, Indexes
  <2>2. CASE n > SeqLen(s)
    <3>1. n \in (SeqLen(s) + 1) .. SeqMax
      BY <2>2, StreamShape, SeqMaxAssumption
    <3> QED
      BY <2>2, <3>1, StreamShape, MixAssumption, SeqMaxAssumption
         DEF PartIndexes, ChooseFragments
  <2> QED
    BY <2>1, <2>2, StreamShape, SeqMaxAssumption
<1> QED
  BY <1>1, StreamShape DEF Content

(* The only parts that receive() takes in are those of a stream, of the    *)
(* type and the shape of the parts before.                                 *)
LEMMA OnlyParts ==
  ASSUME shape \in {None} \cup Shapes,
         NEW t \in Texts, t.form = "part", Refusal(t) = None
  PROVE  \E s \in Stream : \E n \in 1 .. SeqMax :
           /\ t = PartText(s, n)
           /\ shape \in {None, ShapeOf(s)}
           /\ urType \in {None, UrTypeOf[s]}
<1>1. ~TypeMismatch(t)
  BY NoPartAssumption DEF Refusal, Refusals
<1>2. t.label = <<t.seqNum, t.shape.seqLen>>
  BY NoPartAssumption DEF Refusal, Refusals
<1>3. shape = None => StartRefusal(t.shape) = None
  BY NoPartAssumption DEF Refusal, Refusals
<1>4. shape # None => shape = t.shape
  BY NoPartAssumption DEF Refusal, Refusals, Inconsistent
<1>5. PICK s \in Stream :
        \/ \E n \in 1 .. SeqMax : t = PartText(s, n)
        \/ t \in DamagedTexts(s)
  BY DEF Texts, SingleText
<1>6. ASSUME t \in DamagedTexts(s) PROVE FALSE
  <2> DEFINE p == PartText(s, 1)
             l == SeqLen(s)
  <2>1. l \in Nat \ {0} /\ l = CeilDiv(MessageLen[s], ShapeOf(s).fragmentLen)
    BY StreamShape DEF ShapeOf
  <2>2. CASE t = [p EXCEPT !.label = <<2, l>>]
    BY <1>2, <2>2 DEF PartText
  <2>3. CASE t = [p EXCEPT !.label = <<1, l + 1>>, !.shape.seqLen = l + 1]
    <3>1. /\ t.shape.seqLen = l + 1
          /\ CeilDiv(t.shape.messageLen, t.shape.fragmentLen) = l
      BY <2>1, <2>3 DEF PartText, ShapeOf
    <3>2. CASE shape = None
      BY <1>3, <2>1, <3>1, <3>2, NoPartAssumption DEF StartRefusal, Refusals
    <3>3. CASE shape # None
      <4>1. PICK r \in Stream : shape = ShapeOf(r)
        BY <3>3 DEF Shapes
      <4> QED
        BY <1>4, <2>1, <3>1, <3>3, <4>1, StreamShape
    <3> QED
      BY <3>2, <3>3
  <2> QED
    BY <1>6, <2>2, <2>3 DEF DamagedTexts, PartText
<1>7. PICK n \in 1 .. SeqMax : t = PartText(s, n)
  BY <1>5, <1>6
<1>8. t.type = UrTypeOf[s] /\ t.shape = ShapeOf(s)
  BY <1>7 DEF PartText
<1> QED
  BY <1>1, <1>4, <1>7, <1>8 DEF TypeMismatch

----------------------------------------------------------------------------
(* The invariant *)

(* The parts that are on hold or under way. *)
Pending == mixed \cup queue \cup (IF cur = None THEN {} ELSE {cur})

(* Without a shape nothing was taken in but the UR of a whole message, and *)
(* reduce() runs on parts of a message that is not complete.               *)
Begun ==
  /\ shape = None =>
       mixed = {} /\ queue = {} /\ cur = None /\ accepted = {} /\ ~dropped
  /\ shape = None /\ ~complete => urType = None /\ known = {}
  /\ shape # None => urType # None
  /\ phase = "reducing" => shape # None /\ ~complete

(* All bytes are of messages of the type that the decoder reports. *)
AtomsOfType == {atom \in Atoms : UrTypeOf[atom[1]] = urType}

OneType ==
  /\ \A p \in Pending : p.data \subseteq AtomsOfType
  /\ shape # None => \A i \in Idx : message[i] \subseteq AtomsOfType

(* What makes peeling lose nothing: each fragment that an accepted part    *)
(* mixes is known, or it is in a pending part within the accepted one.     *)
Covered ==
  ~dropped =>
    \A S \in accepted :
      /\ S \subseteq Idx
      /\ \A i \in S \ known :
           \E p \in Pending : i \in p.indexes /\ p.indexes \subseteq S

IInv ==
  /\ TypeOK
  /\ Begun
  /\ OneType
  /\ Covered
  /\ HeldIrreducible
  /\ CountExact
  /\ CompleteIsSent

(* The fragments of a message, and those known of it, are finitely many.   *)
LEMMA IdxFinite ==
  ASSUME TypeOK
  PROVE  /\ Idx \subseteq Nat
         /\ 0 \in Idx
         /\ shape # None => shape.seqLen \in Nat /\ Cardinality(Idx) = shape.seqLen
         /\ IsFiniteSet(Idx)
         /\ IsFiniteSet(known)
<1>1. CASE shape = None
  <2>1. Idx = {0}
    BY <1>1 DEF Idx
  <2>2. IsFiniteSet(Idx)
    BY <2>1, FS_Singleton
  <2>3. IsFiniteSet(known)
    BY <2>2, FS_Subset DEF TypeOK
  <2> QED
    BY <1>1, <2>1, <2>2, <2>3
<1>2. CASE shape # None
  <2>1. PICK s \in Stream : shape = ShapeOf(s)
    BY <1>2 DEF TypeOK, Shapes
  <2>2. shape.seqLen \in Nat \ {0}
    BY <2>1, StreamShape
  <2>3. Idx = 0 .. (shape.seqLen - 1)
    BY <1>2 DEF Idx
  <2>4. IsFiniteSet(Idx) /\ Cardinality(Idx) = shape.seqLen
    BY <2>2, <2>3, FS_Interval
  <2> QED
    BY <2>2, <2>3, <2>4, FS_Subset DEF TypeOK
<1> QED
  BY <1>1, <1>2

LEMMA PartsAreParts ==
  ASSUME TypeOK, NEW p \in Pending
  PROVE  /\ p \in PartsOf(Idx)
         /\ p # None
<1>1. p \in PartsOf(Idx)
  BY DEF Pending, TypeOK
<1>2. PartsOf(Idx) \subseteq PartsOf(Nat)
  BY IdxFinite DEF PartsOf
<1> QED
  BY <1>1, <1>2, NoPartAssumption

----------------------------------------------------------------------------
(* The steps of receive() *)

LEMMA InitIInv == Init => IInv
<1> SUFFICES ASSUME Init PROVE IInv
  OBVIOUS
<1> USE DEF Init
<1>1. TypeOK
  BY DEF TypeOK, Idx
<1>2. Begun /\ OneType /\ Covered
  BY DEF Begun, OneType, Covered, Pending
<1>3. HeldIrreducible /\ CompleteIsSent
  BY DEF HeldIrreducible, CompleteIsSent
<1>4. CountExact
  BY FS_EmptySet DEF CountExact
<1> QED
  BY <1>1, <1>2, <1>3, <1>4 DEF IInv

(* reset(), and the end of a message that does not match its checksum. *)
LEMMA ForgetStep ==
  ASSUME Forget, phase' = "idle", queue' = {}, cur' = None
  PROVE  IInv'
<1> USE DEF Forget
<1>1. TypeOK'
  BY DEF TypeOK, Idx
<1>2. Begun' /\ OneType' /\ Covered'
  BY DEF Begun, OneType, Covered, Pending
<1>3. HeldIrreducible' /\ CompleteIsSent'
  BY DEF HeldIrreducible, CompleteIsSent
<1>4. CountExact'
  BY FS_EmptySet DEF CountExact
<1> QED
  BY <1>1, <1>2, <1>3, <1>4 DEF IInv

LEMMA AcceptSingleStep ==
  ASSUME IInv, NEW t \in Texts, AcceptSingle(t)
  PROVE  IInv'
<1> USE DEF IInv, AcceptSingle, loopVars, historyVars
<1>1. ~TypeMismatch(t) /\ shape = None
  BY NoPartAssumption DEF Refusal, Refusals
<1>2. PICK s \in Stream : t = SingleText(s)
  <2>1. ASSUME NEW s \in Stream, NEW n \in 1 .. SeqMax PROVE t # PartText(s, n)
    BY DEF PartText
  <2>2. ASSUME NEW s \in Stream PROVE t \notin DamagedTexts(s)
    BY DEF DamagedTexts, PartText
  <2> QED
    BY <2>1, <2>2 DEF Texts
<1>3. urType' = UrTypeOf[s] /\ message' = Whole(s)
  BY <1>2 DEF SingleText
<1>4. TypeOK'
  BY <1>1, <1>3 DEF TypeOK, Idx
<1>5. Begun' /\ OneType' /\ Covered'
  BY <1>1 DEF Begun, OneType, Covered, Pending
<1>6. HeldIrreducible'
  BY <1>1 DEF HeldIrreducible, Begun
<1>7. CountExact'
  BY FS_Singleton DEF CountExact
<1>8. CompleteIsSent'
  BY <1>3 DEF CompleteIsSent
<1> QED
  BY <1>4, <1>5, <1>6, <1>7, <1>8

(* A part joins: nothing else changes but, with the first part, the shape, *)
(* the type, and the places for the fragments.                             *)
LEMMA AcceptPartStep ==
  ASSUME IInv, NEW t \in Texts, AcceptPart(t)
  PROVE  IInv'
<1> USE DEF IInv, AcceptPart, historyVars
<1>1. PICK s \in Stream, n \in 1 .. SeqMax :
        /\ t = PartText(s, n)
        /\ shape \in {None, ShapeOf(s)}
        /\ urType \in {None, UrTypeOf[s]}
  BY OnlyParts DEF TypeOK
<1> DEFINE I == PartIndexes(s, n)
           p == [indexes |-> I, data |-> Content(s, I)]
<1>2. /\ t.type = UrTypeOf[s] /\ t.shape = ShapeOf(s)
      /\ ChooseFragments(t.seqNum, t.shape.seqLen, t.shape.checksum) = I
      /\ t.data = Content(s, I)
  BY <1>1 DEF PartText, PartIndexes, ShapeOf
<1>3. shape' = ShapeOf(s) /\ shape' # None
  BY <1>1, <1>2, NoneAssumption
<1>4. urType' = UrTypeOf[s] /\ urType' # None
  BY <1>1, <1>2, NoneAssumption
<1>5. Idx' = Indexes(s) /\ I \subseteq Idx'
  BY <1>3, StreamShape, StreamParts DEF Idx, Indexes
<1>6. p.indexes = I /\ p.data = Content(s, I) /\ p \in PartsOf(Idx')
  BY <1>5, StreamParts DEF PartsOf, Atoms
<1>7. queue' = {p} /\ accepted' = accepted \cup {I}
  BY <1>2
<1>8. queue = {} /\ cur = None
  BY DEF TypeOK
<1>9. CASE shape = None
  <2>1. mixed = {} /\ known = {} /\ accepted = {}
    BY <1>9 DEF Begun
  <2>2. message' = [i \in Idx' |-> {}]
    BY <1>2, <1>3, <1>9, StreamShape DEF Idx
  <2>3. TypeOK'
    BY <1>2, <1>3, <1>4, <1>6, <1>7, <1>8, <1>9, <2>1, <2>2
       DEF TypeOK, Shapes
  <2>4. Begun'
    BY <1>3, <1>4 DEF Begun
  <2>5. OneType'
    BY <1>4, <1>6, <1>7, <1>8, <2>1, <2>2, StreamParts
       DEF OneType, Pending, AtomsOfType, Atoms
  <2>6. Covered'
    BY <1>5, <1>6, <1>7, <2>1 DEF Covered, Pending
  <2>7. HeldIrreducible' /\ CountExact' /\ CompleteIsSent'
    BY <2>1 DEF HeldIrreducible, CountExact, CompleteIsSent
  <2> QED
    BY <2>3, <2>4, <2>5, <2>6, <2>7
<1>10. CASE shape # None
  <2>1. shape' = shape /\ message' = message /\ Idx' = Idx
    BY <1>10 DEF Idx
  <2>2. urType' = urType
    BY <1>1, <1>4, <1>10 DEF Begun
  <2>3. TypeOK'
    BY <1>2, <1>3, <1>4, <1>6, <1>7, <1>8, <1>10, <2>1, <2>2
       DEF TypeOK, Shapes
  <2>4. Begun'
    BY <1>3, <1>4 DEF Begun
  <2>5. OneType'
    <3>1. AtomsOfType' = AtomsOfType
      BY <2>2 DEF AtomsOfType
    <3>2. p.data \subseteq AtomsOfType
      BY <1>4, <1>6, <2>2, StreamParts DEF AtomsOfType, Atoms
    <3>3. Pending' \subseteq Pending \cup {p}
      BY <1>7, <1>8 DEF Pending
    <3> QED
      BY <1>10, <2>1, <3>1, <3>2, <3>3 DEF OneType
  <2>6. Covered'
    BY <1>5, <1>6, <1>7, <1>8, <2>1 DEF Covered, Pending
  <2>7. HeldIrreducible' /\ CountExact' /\ CompleteIsSent'
    BY <2>1 DEF HeldIrreducible, CountExact, CompleteIsSent, WithSubsets
  <2> QED
    BY <2>3, <2>4, <2>5, <2>6, <2>7
<1> QED
  BY <1>9, <1>10

----------------------------------------------------------------------------
(* The steps of reduce() *)

(* Inside reduce() there is a message to put together.                     *)
LEMMA Reducing ==
  ASSUME IInv, phase = "reducing"
  PROVE  shape # None /\ ~complete
BY DEF IInv, Begun

(* Xor of bytes of the right kind is of that kind.                         *)
LEMMA XorWithin ==
  ASSUME NEW A, NEW x \in SUBSET A, NEW y \in SUBSET A
  PROVE  Xor(x, y) \in SUBSET A
BY DEF Xor

LEMMA PopStep ==
  ASSUME IInv, Pop
  PROVE  IInv'
<1> USE DEF IInv, Pop, decoderVars, historyVars
<1>1. shape # None /\ ~complete
  BY Reducing
<1>2. PICK p \in queue : cur' = p /\ queue' = queue \ {p}
  OBVIOUS
<1>3. p # None
  BY PartsAreParts DEF Pending
<1>4. Idx' = Idx /\ Pending' = Pending
  BY <1>2, <1>3 DEF Idx, Pending
<1>5. TypeOK'
  BY <1>2, <1>4 DEF TypeOK
<1>6. Begun' /\ CompleteIsSent'
  BY <1>1 DEF Begun, CompleteIsSent
<1>7. OneType'
  BY <1>4 DEF OneType, AtomsOfType
<1>8. Covered'
  BY <1>4 DEF Covered
<1>9. HeldIrreducible' /\ CountExact'
  BY DEF HeldIrreducible, CountExact, WithSubsets
<1> QED
  BY <1>5, <1>6, <1>7, <1>8, <1>9

LEMMA DropKnownStep ==
  ASSUME IInv, DropKnown
  PROVE  IInv'
<1> USE DEF IInv, DropKnown, decoderVars, historyVars
<1>1. shape # None /\ ~complete
  BY Reducing
<1>2. PICK i \in cur.indexes \cap known :
        cur' = [indexes |-> cur.indexes \ {i},
                data    |-> Xor(cur.data, message[i])]
  OBVIOUS
<1>3. cur \in Pending /\ cur \in PartsOf(Idx) /\ i \in Idx
  BY <1>2, PartsAreParts DEF Pending, TypeOK
<1>4. cur'.indexes = cur.indexes \ {i} /\ cur'.data = Xor(cur.data, message[i])
  BY <1>2
<1>5. Idx' = Idx /\ AtomsOfType' = AtomsOfType
  BY DEF Idx, AtomsOfType
<1>6. cur' \in PartsOf(Idx)
  <2>1. cur.data \in SUBSET Atoms /\ message[i] \in SUBSET Atoms
    BY <1>1, <1>3 DEF PartsOf, TypeOK
  <2>2. Xor(cur.data, message[i]) \in SUBSET Atoms
    BY <2>1, XorWithin
  <2> QED
    BY <1>2, <1>3, <2>2 DEF PartsOf
<1>7. cur'.data \in SUBSET AtomsOfType
  BY <1>1, <1>3, <1>4, XorWithin DEF OneType
<1>8. cur' # None
  BY <1>6, IdxFinite, NoPartAssumption DEF PartsOf
<1>9. Pending' = mixed \cup queue \cup {cur'}
  BY <1>8 DEF Pending
<1>10. TypeOK'
  BY <1>5, <1>6 DEF TypeOK
<1>11. Begun' /\ CompleteIsSent'
  BY <1>1 DEF Begun, CompleteIsSent
<1>12. OneType'
  BY <1>5, <1>7, <1>9 DEF OneType, Pending
<1>13. Covered'
  BY <1>2, <1>4, <1>5, <1>9 DEF Covered, Pending
<1>14. HeldIrreducible' /\ CountExact'
  BY DEF HeldIrreducible, CountExact, WithSubsets
<1> QED
  BY <1>10, <1>11, <1>12, <1>13, <1>14

LEMMA SubtractHeldStep ==
  ASSUME IInv, SubtractHeld
  PROVE  IInv'
<1> USE DEF IInv, SubtractHeld, decoderVars, historyVars
<1>1. shape # None /\ ~complete
  BY Reducing
<1>2. PICK held \in mixed :
        /\ held.indexes \subseteq cur.indexes
        /\ cur' = [indexes |-> cur.indexes \ held.indexes,
                   data    |-> Xor(cur.data, held.data)]
  BY DEF StrictSubset
<1>3. /\ cur \in Pending /\ held \in Pending
      /\ cur \in PartsOf(Idx) /\ held \in PartsOf(Idx)
  BY <1>2, PartsAreParts DEF Pending
<1>4. /\ cur'.indexes = cur.indexes \ held.indexes
      /\ cur'.data = Xor(cur.data, held.data)
  BY <1>2
<1>5. Idx' = Idx /\ AtomsOfType' = AtomsOfType
  BY DEF Idx, AtomsOfType
<1>6. cur' \in PartsOf(Idx)
  <2>1. Xor(cur.data, held.data) \in SUBSET Atoms
    BY <1>3, XorWithin DEF PartsOf
  <2> QED
    BY <1>2, <1>3, <2>1 DEF PartsOf
<1>7. cur'.data \in SUBSET AtomsOfType
  BY <1>3, <1>4, XorWithin DEF OneType
<1>8. cur' # None
  BY <1>6, IdxFinite, NoPartAssumption DEF PartsOf
<1>9. Pending' = mixed \cup queue \cup {cur'}
  BY <1>8 DEF Pending
<1>10. TypeOK'
  BY <1>5, <1>6 DEF TypeOK
<1>11. Begun' /\ CompleteIsSent'
  BY <1>1 DEF Begun, CompleteIsSent
<1>12. OneType'
  BY <1>5, <1>7, <1>9 DEF OneType, Pending
<1>13. Covered'
  <2> SUFFICES ASSUME ~dropped, NEW S \in accepted, NEW j \in S \ known
               PROVE  \E p \in Pending' : j \in p.indexes /\ p.indexes \subseteq S
    BY <1>5 DEF Covered
  <2>1. PICK p \in Pending : j \in p.indexes /\ p.indexes \subseteq S
    BY DEF Covered
  <2>2. CASE p # cur
    BY <1>9, <2>1, <2>2 DEF Pending
  <2>3. CASE p = cur /\ j \in held.indexes
    BY <1>2, <1>9, <2>1, <2>3
  <2>4. CASE p = cur /\ j \notin held.indexes
    BY <1>4, <1>9, <2>1, <2>4
  <2> QED
    BY <2>2, <2>3, <2>4
<1>14. HeldIrreducible' /\ CountExact'
  BY DEF HeldIrreducible, CountExact, WithSubsets
<1> QED
  BY <1>10, <1>11, <1>12, <1>13, <1>14

LEMMA DiscardStep ==
  ASSUME IInv, Discard
  PROVE  IInv'
<1> USE DEF IInv, Discard, Reduced, decoderVars, historyVars
<1>1. shape # None /\ ~complete
  BY Reducing
<1>2. Idx' = Idx /\ Pending' = mixed \cup queue
  BY DEF Idx, Pending
<1>3. TypeOK'
  BY <1>2 DEF TypeOK
<1>4. Begun' /\ CompleteIsSent'
  BY <1>1 DEF Begun, CompleteIsSent
<1>5. OneType'
  BY <1>2 DEF OneType, Pending, AtomsOfType
<1>6. Covered'
  <2> SUFFICES ASSUME ~dropped, NEW S \in accepted, NEW j \in S \ known
               PROVE  \E p \in Pending' : j \in p.indexes /\ p.indexes \subseteq S
    BY <1>2 DEF Covered
  <2>1. PICK p \in Pending : j \in p.indexes /\ p.indexes \subseteq S
    BY DEF Covered
  <2>2. CASE p # cur
    BY <1>2, <2>1, <2>2 DEF Pending
  <2>3. CASE p = cur
    BY <1>2, <2>1, <2>3
  <2> QED
    BY <2>2, <2>3
<1>7. HeldIrreducible' /\ CountExact'
  BY DEF HeldIrreducible, CountExact, WithSubsets
<1> QED
  BY <1>3, <1>4, <1>5, <1>6, <1>7

LEMMA RecoverStep ==
  ASSUME IInv, Recover
  PROVE  IInv'
<1> USE DEF IInv
<1>0. /\ cur' = None
      /\ UNCHANGED <<urType, shape, sampler, complete, phase, accepted, dropped>>
  BY DEF Recover, historyVars
<1>1. /\ phase = "reducing" /\ shape # None /\ ~complete
      /\ cur # None /\ cur.indexes \cap known = {}
  BY Reducing DEF Recover, Reduced
<1>2. PICK i \in cur.indexes :
        /\ cur.indexes = {i}
        /\ message' = [message EXCEPT ![i] = cur.data]
        /\ known' = known \cup {i}
        /\ knownCount' = knownCount + 1
        /\ queue' = queue \cup Mixing(i)
        /\ mixed' = mixed \ Mixing(i)
  BY DEF Recover
<1>3. cur \in Pending /\ cur \in PartsOf(Idx)
  BY <1>1, PartsAreParts DEF Pending
<1>4. i \in Idx /\ i \notin known /\ cur.data \in SUBSET Atoms
  BY <1>1, <1>2, <1>3 DEF PartsOf
<1>5. Idx' = Idx /\ AtomsOfType' = AtomsOfType
  BY <1>0 DEF Idx, AtomsOfType
<1>6. Pending' = mixed \cup queue
  BY <1>0, <1>2 DEF Pending, Mixing
<1>7. TypeOK'
  <2>1. /\ DOMAIN message' = Idx
        /\ \A j \in Idx : message'[j] \in SUBSET Atoms
    BY <1>1, <1>2, <1>4 DEF TypeOK
  <2>2. known' \subseteq Idx /\ knownCount' \in Nat
    BY <1>2, <1>4 DEF TypeOK
  <2>3. mixed' \cup queue' \subseteq PartsOf(Idx)
    BY <1>2 DEF TypeOK, Mixing
  <2> QED
    BY <1>0, <1>1, <1>5, <2>1, <2>2, <2>3 DEF TypeOK
<1>8. Begun' /\ CompleteIsSent'
  BY <1>0, <1>1, <1>2 DEF Mixing, Begun, CompleteIsSent
<1>9. OneType'
  <2>1. \A j \in Idx : message'[j] \subseteq AtomsOfType
    BY <1>1, <1>2, <1>3 DEF OneType, TypeOK
  <2> QED
    BY <1>0, <1>5, <1>6, <2>1 DEF OneType, Pending
<1>10. Covered'
  <2> SUFFICES ASSUME ~dropped, NEW S \in accepted, NEW j \in S \ known'
               PROVE  \E p \in Pending' : j \in p.indexes /\ p.indexes \subseteq S
    BY <1>0, <1>5 DEF Covered
  <2>1. PICK p \in Pending : j \in p.indexes /\ p.indexes \subseteq S
    BY <1>2 DEF Covered
  <2>2. p # cur
    BY <1>2, <2>1
  <2> QED
    BY <1>6, <2>1, <2>2 DEF Pending
<1>11. HeldIrreducible'
  <2>1. \A p \in mixed' : p \in mixed /\ i \notin p.indexes
    BY <1>2 DEF Mixing
  <2> QED
    BY <1>0, <1>2, <2>1 DEF HeldIrreducible, WithSubsets
<1>12. CountExact'
  BY <1>2, <1>4, IdxFinite, FS_AddElement DEF CountExact
<1> QED
  BY <1>7, <1>8, <1>9, <1>10, <1>11, <1>12

LEMMA HoldStep ==
  ASSUME IInv, Hold
  PROVE  IInv'
<1> USE DEF IInv, Hold, Reduced
<1>1. shape # None /\ ~complete
  BY Reducing
<1>2. cur \in Pending /\ cur \in PartsOf(Idx)
  BY PartsAreParts DEF Pending
<1>3. Idx' = Idx /\ AtomsOfType' = AtomsOfType
  BY DEF Idx, AtomsOfType
<1>4. Pending' \subseteq Pending
  BY DEF Pending, Covering
<1>5. ~dropped' => ~dropped /\ Room /\ Pending' = Pending
  BY DEF Pending, Covering
<1>6. TypeOK'
  <2>1. mixed' \cup queue' \subseteq PartsOf(Idx)
    BY <1>2 DEF TypeOK, Covering
  <2>2. dropped' \in BOOLEAN
    OBVIOUS
  <2> QED
    BY <1>3, <2>1, <2>2 DEF TypeOK
<1>7. Begun' /\ CompleteIsSent'
  BY <1>1 DEF Begun, CompleteIsSent
<1>8. OneType'
  BY <1>3, <1>4 DEF OneType
<1>9. Covered'
  BY <1>3, <1>5 DEF Covered
<1>10. HeldIrreducible'
  <2>1. WithSubsets' = WithSubsets
    BY DEF WithSubsets
  <2>2. \A p \in mixed' : p = cur \/ (p \in mixed /\ p \notin Covering)
    OBVIOUS
  <2>3. ASSUME WithSubsets, NEW p \in mixed', NEW q \in mixed'
        PROVE  ~StrictSubset(p.indexes, q.indexes)
    BY <1>1, <2>2, <2>3 DEF HeldIrreducible, Covering, StrictSubset
  <2>4. ASSUME NEW p \in mixed', NEW q \in mixed', p.indexes = q.indexes
        PROVE  p = q
    BY <2>2, <2>4 DEF HeldIrreducible
  <2>5. ASSUME NEW p \in mixed'
        PROVE  Cardinality(p.indexes) > 1 /\ p.indexes \cap known' = {}
    BY <2>2 DEF HeldIrreducible
  <2> QED
    BY <2>1, <2>3, <2>4, <2>5 DEF HeldIrreducible
<1>11. CountExact'
  BY DEF CountExact
<1> QED
  BY <1>6, <1>7, <1>8, <1>9, <1>10, <1>11

(* Once the count is that of the fragments, all of them are known.         *)
LEMMA AllKnownIsAll ==
  ASSUME IInv, phase = "reducing", AllKnown
  PROVE  known = Idx
BY Reducing, IdxFinite, FS_Subset DEF IInv, TypeOK, CountExact, AllKnown

LEMMA ReturnStep ==
  ASSUME IInv, Return
  PROVE  IInv'
<1> USE DEF IInv
<1>1. phase = "reducing" /\ cur = None /\ queue = {}
  BY DEF Return, ReturnMore, FinishGood, FinishBad, Drained
<1>2. shape # None /\ ~complete
  BY <1>1, Reducing
<1>3. CASE ReturnMore
  <2> USE DEF ReturnMore, decoderVars, historyVars
  <2>1. Idx' = Idx /\ Pending' = Pending /\ AtomsOfType' = AtomsOfType
    BY <1>3 DEF Idx, Pending, AtomsOfType
  <2>2. TypeOK' /\ Begun' /\ CompleteIsSent'
    BY <1>1, <1>2, <1>3, <2>1 DEF TypeOK, Begun, CompleteIsSent
  <2>3. OneType' /\ Covered'
    BY <1>3, <2>1 DEF OneType, Covered
  <2>4. HeldIrreducible' /\ CountExact'
    BY <1>3 DEF HeldIrreducible, CountExact, WithSubsets
  <2> QED
    BY <2>2, <2>3, <2>4
<1>4. CASE FinishGood
  <2> USE DEF FinishGood, historyVars
  <2>1. Idx' = Idx /\ AtomsOfType' = AtomsOfType
    BY <1>4 DEF Idx, AtomsOfType
  <2>2. Pending' = {} /\ mixed' = {}
    BY <1>1, <1>4 DEF Pending
  <2>3. TypeOK' /\ Begun'
    BY <1>1, <1>2, <1>4, <2>1, <2>2 DEF TypeOK, Begun
  <2>4. OneType'
    BY <1>4, <2>1, <2>2 DEF OneType
  <2>5. Covered'
    BY <1>1, <1>4, <2>1, AllKnownIsAll DEF Covered
  <2>6. HeldIrreducible' /\ CountExact'
    BY <1>4, <2>2 DEF HeldIrreducible, CountExact
  <2>7. CompleteIsSent'
    <3>1. PICK s \in Stream : ShapeOf(s) = shape /\ message = Whole(s)
      BY <1>4 DEF Verified
    <3>2. 0 \in Indexes(s) /\ 0 \in Idx
      BY <3>1, StreamShape, IdxFinite
    <3>3. <<s, 0>> \in message[0]
      BY <3>1, <3>2 DEF Whole, Content
    <3>4. UrTypeOf[s] = urType
      BY <1>2, <3>2, <3>3 DEF OneType, AtomsOfType
    <3> QED
      BY <1>4, <3>1, <3>4 DEF CompleteIsSent
  <2> QED
    BY <2>3, <2>4, <2>5, <2>6, <2>7
<1>5. CASE FinishBad
  BY <1>1, <1>5, ForgetStep DEF FinishBad
<1> QED
  BY <1>3, <1>4, <1>5 DEF Return

(* The steps that only return something, and those of anything else.       *)
LEMMA IdleStep ==
  ASSUME IInv, UNCHANGED <<decoderVars, loopVars, historyVars>>
  PROVE  IInv'
<1> USE DEF IInv, decoderVars, loopVars, historyVars
<1>1. Idx' = Idx /\ Pending' = Pending /\ AtomsOfType' = AtomsOfType
  BY DEF Idx, Pending, AtomsOfType
<1>2. TypeOK' /\ Begun' /\ CompleteIsSent'
  BY <1>1 DEF TypeOK, Begun, CompleteIsSent
<1>3. OneType' /\ Covered'
  BY <1>1 DEF OneType, Covered
<1>4. HeldIrreducible' /\ CountExact'
  BY DEF HeldIrreducible, CountExact, WithSubsets
<1> QED
  BY <1>2, <1>3, <1>4

LEMMA NextIInv == IInv /\ [Next]_vars => IInv'
<1> SUFFICES ASSUME IInv, [Next]_vars PROVE IInv'
  OBVIOUS
<1>1. ASSUME NEW t \in Texts, Receive(t) PROVE IInv'
  BY <1>1, IdleStep, AcceptSingleStep, AcceptPartStep
     DEF Receive, IgnoreComplete, Refuse
<1>2. CASE Reduce
  BY <1>2, PopStep, DropKnownStep, SubtractHeldStep, DiscardStep,
     RecoverStep, HoldStep, ReturnStep DEF Reduce
<1>3. CASE Reset
  BY <1>3, ForgetStep DEF Reset, IInv, TypeOK, loopVars
<1>4. CASE UNCHANGED vars
  BY <1>4, IdleStep DEF vars
<1> QED
  BY <1>1, <1>2, <1>3, <1>4 DEF Next

(* The invariant holds of every behaviour of the decoder.                  *)
THEOREM Invariant == Spec => []IInv
BY InitIInv, NextIInv, PTL DEF Spec

----------------------------------------------------------------------------
(* What the invariant is for *)

(* The state of the decoder is well formed between and inside calls.       *)
THEOREM TypeCorrect == Spec => []TypeOK
BY Invariant, PTL DEF IInv

(* receive() only completes on a message that a stream of the reported     *)
(* type was made of, whatever parts of others it is given.                 *)
THEOREM OnlySentCompletes == Spec => []CompleteIsSent
BY Invariant, PTL DEF IInv

(* reduce() leaves nothing on hold that could be simplified.               *)
THEOREM HeldStaysIrreducible == Spec => []HeldIrreducible
BY Invariant, PTL DEF IInv

(* known_count is the number of known fragments.                           *)
THEOREM CountStaysExact == Spec => []CountExact
BY Invariant, PTL DEF IInv

LEMMA PeelFromIInv == IInv => PeelComplete
<1> SUFFICES ASSUME IInv, phase = "idle", ~dropped,
                    NEW S \in accepted, Cardinality(S \ known) = 1
             PROVE  FALSE
  BY DEF PeelComplete
<1>1. S \subseteq Idx /\ IsFiniteSet(S \ known)
  BY IdxFinite, FS_Subset, FS_Difference DEF IInv, Covered
<1>2. PICK i : S \ known = {i}
  BY <1>1, FS_Singleton
<1>3. PICK p \in Pending : i \in p.indexes /\ p.indexes \subseteq S
  BY <1>2 DEF IInv, Covered
<1>4. p \in mixed
  BY <1>3 DEF Pending, IInv, TypeOK
<1>5. Cardinality(p.indexes) > 1 /\ p.indexes \cap known = {}
  BY <1>4 DEF IInv, HeldIrreducible
<1>6. p.indexes = {i}
  BY <1>2, <1>3, <1>5
<1> QED
  BY <1>5, <1>6, FS_Singleton

(* No fragment is missed that accepted parts give one at a time.           *)
THEOREM PeelingIsComplete == Spec => []PeelComplete
BY Invariant, PeelFromIInv, PTL

(* No part writes over what is known of a message.                         *)
THEOREM RecoveredIsKept == Spec => RecoveredStays
<1> DEFINE Kept ==
      \/ shape' = None /\ known' = {}
      \/ /\ known \subseteq known'
         /\ \A i \in known : message'[i] = message[i]
<1>1. IInv /\ [Next]_vars => [Kept]_vars
  <2> SUFFICES ASSUME IInv, Next PROVE Kept
    OBVIOUS
  <2>1. ASSUME NEW t \in Texts, Receive(t) PROVE Kept
    <3>1. CASE AcceptPart(t)
      BY <3>1, NoPartAssumption DEF AcceptPart, IInv, Begun
    <3>2. CASE AcceptSingle(t)
      <4>1. shape = None
        BY <3>2, NoPartAssumption DEF AcceptSingle, Refusal, Refusals
      <4> QED
        BY <3>2, <4>1 DEF AcceptSingle, IInv, Begun
    <3> QED
      BY <2>1, <3>1, <3>2
         DEF Receive, IgnoreComplete, Refuse, decoderVars
  <2>2. CASE Recover
    BY <2>2 DEF Recover, Reduced, IInv, TypeOK, Begun
  <2>3. CASE Reduce /\ ~Recover
    BY <2>3 DEF Reduce, Pop, DropKnown, SubtractHeld, Discard, Hold, Return,
                ReturnMore, FinishGood, FinishBad, Forget, decoderVars
  <2>4. CASE Reset
    BY <2>4 DEF Reset, Forget
  <2> QED
    BY <2>1, <2>2, <2>3, <2>4 DEF Next
<1> QED
  BY <1>1, Invariant, PTL DEF Spec, RecoveredStays

----------------------------------------------------------------------------
(***************************************************************************)
(* That reduce() keeps to the limit on parts on hold, that what it puts    *)
(* back in its queue will get simpler, and that the parts it drops are     *)
(* never those that a receiver which misses none relies on.                *)
(***************************************************************************)

InHand == IF cur = None THEN {} ELSE {cur}

(* A part that is one fragment alone is never put on hold, so it is never  *)
(* dropped.                                                                *)
PlainKept ==
  \A i \in Nat : {i} \in accepted =>
    i \in known \/ \E p \in queue \cup InHand : p.indexes = {i}

(* A call that knows every fragment does not return "more". *)
IdleShort ==
  phase = "idle" /\ shape # None /\ ~complete => ~AllKnown

HeldFinite == IsFiniteSet(mixed \cup queue)

HeldWithin == shape # None => Cardinality(mixed) <= HoldLimit

LInv ==
  /\ PlainKept
  /\ IdleShort
  /\ HeldFinite
  /\ HeldWithin
  /\ HoldBound
  /\ QueueReducible

----------------------------------------------------------------------------
LEMMA LimitNat ==
  ASSUME NEW sh \in Shapes
  PROVE  HoldPerFragment * sh.seqLen + HoldSlack \in Nat
<1>1. sh.seqLen \in Nat
  BY StreamShape DEF Shapes
<1>2. HoldPerFragment * sh.seqLen \in Nat
  BY <1>1, LimitAssumption
<1> QED
  BY <1>2, LimitAssumption

LEMMA HoldLimitNat ==
  ASSUME TypeOK, shape # None
  PROVE  HoldLimit \in Nat
BY LimitNat DEF TypeOK, HoldLimit

LEMMA AddOne ==
  ASSUME NEW S, NEW x, IsFiniteSet(S)
  PROVE  /\ IsFiniteSet(S \cup {x})
         /\ Cardinality(S \cup {x}) \in Nat
         /\ Cardinality(S \cup {x}) <= Cardinality(S) + 1
<1>1. Cardinality(S) \in Nat
  BY FS_CardinalityType
<1>2. /\ IsFiniteSet(S \cup {x})
      /\ Cardinality(S \cup {x}) =
           IF x \in S THEN Cardinality(S) ELSE Cardinality(S) + 1
  BY FS_AddElement
<1>3. CASE x \in S
  BY <1>1, <1>2, <1>3
<1>4. CASE x \notin S
  BY <1>1, <1>2, <1>4
<1> QED
  BY <1>3, <1>4

LEMMA SizesNat ==
  ASSUME LInv
  PROVE  /\ IsFiniteSet(mixed)
         /\ Cardinality(mixed) \in Nat
         /\ Cardinality(mixed \cup queue) \in Nat
         /\ \A S \in SUBSET (mixed \cup queue) :
              /\ IsFiniteSet(S)
              /\ Cardinality(S) \in Nat
              /\ Cardinality(S) <= Cardinality(mixed \cup queue)
<1>1. \A S \in SUBSET (mixed \cup queue) :
        IsFiniteSet(S) /\ Cardinality(S) <= Cardinality(mixed \cup queue)
  BY FS_Subset DEF LInv, HeldFinite
<1> QED
  BY <1>1, FS_CardinalityType DEF LInv, HeldFinite

(* There is room for a part that sends others back to the queue.           *)
LEMMA CoveringMakesRoom ==
  ASSUME IInv, LInv, shape # None, Covering # {}
  PROVE  Room
<1>1. mixed \ Covering \in SUBSET mixed /\ mixed \ Covering # mixed
  BY DEF Covering
<1>2. /\ Cardinality(mixed \ Covering) <= Cardinality(mixed)
      /\ Cardinality(mixed \ Covering) # Cardinality(mixed)
      /\ Cardinality(mixed) \in Nat
      /\ Cardinality(mixed \ Covering) \in Nat
  BY <1>1, SizesNat, FS_Subset, FS_CardinalityType
<1>3. HoldLimit \in Nat /\ Cardinality(mixed) <= HoldLimit
  BY HoldLimitNat DEF IInv, LInv, HeldWithin
<1> QED
  BY <1>2, <1>3 DEF Room

----------------------------------------------------------------------------
LEMMA InitLInv == Init => LInv
<1> SUFFICES ASSUME Init PROVE LInv
  OBVIOUS
<1>1. HeldFinite
  BY FS_EmptySet DEF Init, HeldFinite
<1> QED
  BY <1>1 DEF Init, LInv, PlainKept, IdleShort, HeldWithin, HoldBound,
              QueueReducible

LEMMA ForgetLInv ==
  ASSUME Forget, phase' = "idle", queue' = {}, cur' = None
  PROVE  LInv'
<1>1. HeldFinite'
  BY FS_EmptySet DEF Forget, HeldFinite
<1> QED
  BY <1>1 DEF Forget, LInv, PlainKept, IdleShort, HeldWithin, HoldBound,
              QueueReducible

LEMMA IdleLInv ==
  ASSUME LInv, UNCHANGED <<decoderVars, loopVars, historyVars>>
  PROVE  LInv'
BY DEF LInv, PlainKept, InHand, IdleShort, AllKnown, HeldFinite, HeldWithin,
       HoldBound, HoldLimit, QueueReducible, WithSubsets,
       decoderVars, loopVars, historyVars

LEMMA AcceptPartLInv ==
  ASSUME IInv, LInv, NEW t \in Texts, AcceptPart(t)
  PROVE  LInv'
<1> DEFINE I == ChooseFragments(t.seqNum, t.shape.seqLen, t.shape.checksum)
           p == [indexes |-> I, data |-> t.data]
<1>1. /\ queue = {} /\ queue' = {p} /\ cur = None /\ cur' = None
      /\ phase' = "reducing" /\ accepted' = accepted \cup {I}
      /\ UNCHANGED <<mixed, known>>
  BY DEF AcceptPart, IInv, TypeOK
<1>2. p.indexes = I
  OBVIOUS
<1>3. PlainKept' /\ IdleShort' /\ QueueReducible'
  BY <1>1, <1>2 DEF LInv, PlainKept, InHand, IdleShort, QueueReducible
<1>4. /\ IsFiniteSet(mixed') /\ Cardinality(mixed') \in Nat
      /\ IsFiniteSet(mixed' \cup queue')
      /\ Cardinality(mixed' \cup queue') \in Nat
      /\ Cardinality(mixed' \cup queue') <= Cardinality(mixed') + 1
  BY <1>1, SizesNat, FS_AddElement, FS_CardinalityType
<1>5. HeldFinite'
  BY <1>4 DEF HeldFinite
<1>6. TypeOK' /\ shape' # None
  BY AcceptPartStep, <1>1 DEF IInv, Begun
<1>7. HoldLimit' \in Nat
  BY <1>6, LimitNat DEF TypeOK, HoldLimit
<1>8. Cardinality(mixed') <= HoldLimit'
  <2>1. CASE shape = None
    BY <1>1, <1>7, <2>1, FS_EmptySet DEF IInv, Begun
  <2>2. CASE shape # None
    BY <1>1, <2>2 DEF AcceptPart, LInv, HeldWithin, HoldLimit
  <2> QED
    BY <2>1, <2>2
<1>9. HeldWithin' /\ HoldBound'
  BY <1>1, <1>4, <1>7, <1>8 DEF HeldWithin, HoldBound
<1> QED
  BY <1>3, <1>5, <1>9 DEF LInv

(* Steps that take something out of the part at hand, or put it away.      *)
LEMMA ReworkLInv ==
  ASSUME IInv, LInv, cur # None, UNCHANGED <<decoderVars, phase, queue, accepted>>,
         \A i \in Nat : cur.indexes = {i} =>
           i \in known \/ \E p \in InHand' : p.indexes = {i}
  PROVE  LInv'
<1> USE DEF decoderVars
<1>1. PlainKept'
  BY DEF LInv, PlainKept, InHand
<1>2. IdleShort' /\ HeldFinite' /\ HeldWithin'
  BY DEF LInv, IdleShort, AllKnown, HeldFinite, HeldWithin, HoldLimit, IInv, TypeOK
<1>3. HoldBound'
  <2> SUFFICES ASSUME shape # None
               PROVE  Cardinality(mixed \cup queue) + 1 <= HoldLimit + 1
    BY SizesNat, HoldLimitNat DEF HoldBound, HoldLimit, IInv
  <2> QED
    BY DEF LInv, HoldBound
<1>4. QueueReducible'
  BY DEF LInv, QueueReducible, WithSubsets
<1> QED
  BY <1>1, <1>2, <1>3, <1>4 DEF LInv

LEMMA PopLInv ==
  ASSUME IInv, LInv, Pop
  PROVE  LInv'
<1> USE DEF Pop, decoderVars, historyVars
<1>1. shape # None /\ phase = "reducing" /\ cur = None
  BY Reducing
<1>2. PICK p \in queue : cur' = p /\ queue' = queue \ {p}
  OBVIOUS
<1>3. p # None
  BY PartsAreParts DEF Pending, IInv
<1>4. PlainKept'
  BY <1>1, <1>2, <1>3 DEF LInv, PlainKept, InHand
<1>5. IdleShort' /\ HeldWithin'
  BY <1>1 DEF IdleShort, LInv, HeldWithin, HoldLimit
<1>6. mixed \cup queue' \in SUBSET (mixed \cup queue)
  BY <1>2
<1>7. HeldFinite'
  BY <1>6, SizesNat DEF HeldFinite
<1>8. HoldBound'
  <2> SUFFICES Cardinality(mixed \cup queue') <= HoldLimit
    BY <1>1, <1>2, <1>3, <1>6, SizesNat, HoldLimitNat
       DEF HoldBound, HoldLimit, IInv
  <2>1. CASE queue = {p}
    <3>1. mixed \cup queue' = mixed
      BY <1>2, <2>1
    <3> QED
      BY <1>1, <3>1 DEF LInv, HeldWithin
  <2>2. CASE queue # {p}
    <3>0. QueueReducible
      BY DEF LInv
    <3>1. \/ p.indexes \cap known # {}
          \/ WithSubsets /\ \E q \in mixed : StrictSubset(q.indexes, p.indexes)
      BY <1>2, <2>2, <3>0 DEF QueueReducible
    <3>2. p \notin mixed
      BY <1>1, <3>1 DEF IInv, HeldIrreducible
    <3>3. mixed \cup queue' = (mixed \cup queue) \ {p}
      BY <1>2, <3>2
    <3>4. Cardinality(mixed \cup queue') = Cardinality(mixed \cup queue) - 1
      BY <1>2, <3>3, SizesNat, FS_RemoveElement
    <3> QED
      BY <1>1, <3>4, SizesNat, HoldLimitNat DEF LInv, HoldBound, IInv
  <2> QED
    BY <2>1, <2>2
<1>9. QueueReducible'
  BY <1>2 DEF LInv, QueueReducible, WithSubsets
<1> QED
  BY <1>4, <1>5, <1>7, <1>8, <1>9 DEF LInv

LEMMA RecoverLInv ==
  ASSUME IInv, LInv, Recover
  PROVE  LInv'
<1>0. /\ cur' = None
      /\ UNCHANGED <<shape, complete, phase, accepted>>
  BY DEF Recover, historyVars
<1>1. phase = "reducing" /\ shape # None /\ cur # None
  BY Reducing DEF Recover, Reduced
<1>2. PICK i \in cur.indexes :
        /\ cur.indexes = {i}
        /\ known' = known \cup {i}
        /\ queue' = queue \cup Mixing(i)
        /\ mixed' = mixed \ Mixing(i)
  BY DEF Recover
<1>3. mixed' \cup queue' = mixed \cup queue /\ mixed' \in SUBSET mixed
  BY <1>2 DEF Mixing
<1>4. PlainKept'
  BY <1>0, <1>1, <1>2 DEF LInv, PlainKept, InHand, Mixing
<1>5. IdleShort' /\ HeldFinite'
  BY <1>0, <1>1, <1>3 DEF LInv, IdleShort, HeldFinite
<1>6. HeldWithin'
  BY <1>0, <1>1, <1>3, SizesNat, FS_Subset, FS_CardinalityType, HoldLimitNat
     DEF LInv, HeldWithin, HoldLimit, IInv
<1>7. HoldBound'
  <2>1. /\ Cardinality(mixed \cup queue) + 1 <= HoldLimit + 1
        /\ Cardinality(mixed \cup queue) \in Nat /\ HoldLimit \in Nat
    BY <1>1, SizesNat, HoldLimitNat DEF LInv, HoldBound, IInv
  <2>2. HoldLimit' = HoldLimit
    BY <1>0 DEF HoldLimit
  <2>3. Cardinality(mixed \cup queue) + 0 <= HoldLimit + 1
    BY <2>1
  <2>4. Cardinality(mixed' \cup queue') + 0 <= HoldLimit' + 1
    BY <1>3, <2>2, <2>3
  <2> QED
    BY <1>0, <2>4 DEF HoldBound
<1>8. QueueReducible'
  <2> SUFFICES ASSUME NEW p \in queue'
               PROVE  \/ p.indexes \cap known' # {}
                      \/ WithSubsets
                           /\ \E q \in mixed' : StrictSubset(q.indexes, p.indexes)
    BY <1>0 DEF QueueReducible, WithSubsets
  <2>1. CASE p \in Mixing(i)
    BY <1>2, <2>1 DEF Mixing
  <2>2. CASE p \in queue
    <3>1. CASE p.indexes \cap known # {}
      BY <1>2, <3>1
    <3>2. CASE p.indexes \cap known = {}
      <4>1. PICK q \in mixed : WithSubsets /\ StrictSubset(q.indexes, p.indexes)
        BY <1>1, <2>2, <3>2 DEF LInv, QueueReducible
      <4>2. CASE i \in q.indexes
        BY <1>2, <4>1, <4>2 DEF StrictSubset
      <4>3. CASE i \notin q.indexes
        BY <1>2, <4>1, <4>3 DEF Mixing
      <4> QED
        BY <4>2, <4>3
    <3> QED
      BY <3>1, <3>2
  <2> QED
    BY <1>2, <2>1, <2>2
<1> QED
  BY <1>4, <1>5, <1>6, <1>7, <1>8 DEF LInv

LEMMA HoldLInv ==
  ASSUME IInv, LInv, Hold
  PROVE  LInv'
<1>1. /\ shape # None /\ phase = "reducing" /\ cur # None /\ cur' = None
      /\ Cardinality(cur.indexes) > 1
      /\ queue' = queue \cup Covering
      /\ mixed' = (mixed \ Covering) \cup (IF Room THEN {cur} ELSE {})
      /\ UNCHANGED <<shape, known, complete, phase, accepted>>
  BY Reducing DEF Hold, Reduced
<1>2. Covering \subseteq mixed
  BY DEF Covering
<1>3. /\ HoldLimit \in Nat /\ HoldLimit' = HoldLimit
      /\ Cardinality(mixed) \in Nat /\ Cardinality(mixed) <= HoldLimit
      /\ Cardinality(mixed \cup queue) \in Nat
      /\ Cardinality(mixed \cup queue) <= HoldLimit
  <2>1. HoldLimit \in Nat /\ HoldLimit' = HoldLimit
    BY <1>1, HoldLimitNat DEF IInv, HoldLimit
  <2>2. Cardinality(mixed \cup queue) + 1 <= HoldLimit + 1
    BY <1>1 DEF LInv, HoldBound
  <2> QED
    BY <1>1, <2>1, <2>2, SizesNat DEF LInv, HeldWithin
<1>4. PlainKept'
  <2> SUFFICES ASSUME NEW i \in Nat, {i} \in accepted, i \notin known
               PROVE  \E p \in queue' : p.indexes = {i}
    BY <1>1 DEF PlainKept, InHand
  <2>1. cur.indexes # {i}
    BY <1>1, FS_Singleton
  <2> QED
    BY <1>1, <2>1 DEF LInv, PlainKept, InHand
<1>5. IdleShort'
  BY <1>1 DEF IdleShort
<1>6. HeldWithin'
  <2> DEFINE rest == mixed \ Covering
  <2>1. /\ IsFiniteSet(rest) /\ Cardinality(rest) \in Nat
        /\ Cardinality(rest) <= Cardinality(mixed)
    BY SizesNat, FS_Subset, FS_CardinalityType
  <2>2. CASE Room
    <3>1. Cardinality(rest) < HoldLimit
      BY <2>2 DEF Room
    <3>2. mixed' = rest \cup {cur}
      BY <1>1, <2>2
    <3>3. /\ Cardinality(rest \cup {cur}) \in Nat
          /\ Cardinality(rest \cup {cur}) <= Cardinality(rest) + 1
      BY <2>1, AddOne
    <3> QED
      BY <1>3, <2>1, <3>1, <3>2, <3>3 DEF HeldWithin
  <2>3. CASE ~Room
    BY <1>1, <1>3, <2>1, <2>3 DEF HeldWithin
  <2> QED
    BY <2>2, <2>3
<1>7. mixed' \cup queue' \in SUBSET ((mixed \cup queue) \cup {cur})
  BY <1>1, <1>2
<1>8. /\ IsFiniteSet((mixed \cup queue) \cup {cur})
      /\ Cardinality((mixed \cup queue) \cup {cur}) <= HoldLimit + 1
      /\ Cardinality((mixed \cup queue) \cup {cur}) \in Nat
  <2>1. IsFiniteSet(mixed \cup queue)
    BY DEF LInv, HeldFinite
  <2> DEFINE S == mixed \cup queue
  <2>2. /\ IsFiniteSet(S \cup {cur})
        /\ Cardinality(S \cup {cur}) \in Nat
        /\ Cardinality(S \cup {cur}) <= Cardinality(S) + 1
    <3> HIDE DEF S
    <3> QED
      BY <2>1, AddOne DEF S
  <2> QED
    BY <1>3, <2>2
<1>9. HeldFinite'
  BY <1>7, <1>8, FS_Subset DEF HeldFinite
<1>10. HoldBound'
  <2>1. /\ Cardinality(mixed' \cup queue')
             <= Cardinality((mixed \cup queue) \cup {cur})
        /\ Cardinality(mixed' \cup queue') \in Nat
    BY <1>7, <1>8, FS_Subset, FS_CardinalityType
  <2> QED
    BY <1>1, <1>3, <1>8, <2>1 DEF HoldBound
<1>11. QueueReducible'
  <2> SUFFICES ASSUME NEW p \in queue', p.indexes \cap known = {}
               PROVE  /\ WithSubsets
                      /\ \E q \in mixed' : StrictSubset(q.indexes, p.indexes)
    BY <1>1 DEF QueueReducible, WithSubsets
  <2>1. CASE p \in Covering
    <3>1. Room
      BY <1>1, <2>1, CoveringMakesRoom
    <3> QED
      BY <1>1, <2>1, <3>1 DEF Covering
  <2>2. CASE p \in queue
    <3>1. PICK q \in mixed : WithSubsets /\ StrictSubset(q.indexes, p.indexes)
      BY <1>1, <2>2 DEF LInv, QueueReducible
    <3>2. CASE q \in Covering
      <4>1. Room
        BY <1>1, <3>2, CoveringMakesRoom
      <4>2. StrictSubset(cur.indexes, p.indexes)
        BY <3>1, <3>2 DEF Covering, StrictSubset
      <4> QED
        BY <1>1, <3>1, <4>1, <4>2
    <3>3. CASE q \notin Covering
      BY <1>1, <3>1, <3>3
    <3> QED
      BY <3>2, <3>3
  <2> QED
    BY <1>1, <2>1, <2>2
<1> QED
  BY <1>4, <1>5, <1>6, <1>9, <1>10, <1>11 DEF LInv

LEMMA ReturnLInv ==
  ASSUME IInv, LInv, Return
  PROVE  LInv'
<1>1. phase = "reducing" /\ cur = None /\ queue = {}
  BY DEF Return, ReturnMore, FinishGood, FinishBad, Drained
<1>2. shape # None
  BY <1>1, Reducing
<1>3. CASE ReturnMore
  <2>1. IdleShort' /\ PlainKept'
    BY <1>3 DEF ReturnMore, LInv, IdleShort, AllKnown, PlainKept, InHand,
                decoderVars, historyVars
  <2>2. HeldFinite' /\ HeldWithin' /\ HoldBound' /\ QueueReducible'
    BY <1>3 DEF ReturnMore, LInv, HeldFinite, HeldWithin, HoldBound, HoldLimit,
                QueueReducible, WithSubsets, decoderVars, historyVars
  <2> QED
    BY <2>1, <2>2 DEF LInv
<1>4. CASE FinishGood
  <2>1. IdleShort' /\ PlainKept'
    BY <1>1, <1>4 DEF FinishGood, LInv, IdleShort, PlainKept, InHand, historyVars
  <2>2. mixed' = {} /\ queue' = {} /\ cur' = None /\ HoldLimit' = HoldLimit
    BY <1>1, <1>4 DEF FinishGood, HoldLimit
  <2>3. HeldFinite' /\ QueueReducible'
    BY <2>2, FS_EmptySet DEF HeldFinite, QueueReducible
  <2>4. HeldWithin' /\ HoldBound'
    BY <1>2, <2>2, HoldLimitNat, FS_EmptySet DEF HeldWithin, HoldBound, IInv
  <2> QED
    BY <2>1, <2>3, <2>4 DEF LInv
<1>5. CASE FinishBad
  BY <1>1, <1>5, ForgetLInv DEF FinishBad
<1> QED
  BY <1>3, <1>4, <1>5 DEF Return

LEMMA AcceptSingleLInv ==
  ASSUME IInv, LInv, NEW t \in Texts, AcceptSingle(t)
  PROVE  LInv'
<1>1. shape = None
  BY NoPartAssumption DEF AcceptSingle, Refusal, Refusals
<1>2. accepted = {} /\ mixed = {} /\ queue = {} /\ shape' = None
      /\ UNCHANGED <<accepted, mixed, queue>>
  BY <1>1 DEF AcceptSingle, IInv, Begun, loopVars, historyVars
<1> QED
  BY <1>2 DEF LInv, PlainKept, IdleShort, HeldFinite, HeldWithin, HoldBound,
              QueueReducible

----------------------------------------------------------------------------
LEMMA NextLInv == IInv /\ LInv /\ [Next]_vars => LInv'
<1> SUFFICES ASSUME IInv, LInv, [Next]_vars PROVE LInv'
  OBVIOUS
<1>1. ASSUME NEW t \in Texts, Receive(t) PROVE LInv'
  BY <1>1, IdleLInv, AcceptSingleLInv, AcceptPartLInv
     DEF Receive, IgnoreComplete, Refuse
<1>2. CASE DropKnown
  <2>1. \A i \in Nat : cur.indexes = {i} => i \in known
    BY <1>2 DEF DropKnown
  <2> QED
    BY <1>2, <2>1, ReworkLInv DEF DropKnown, historyVars
<1>3. CASE SubtractHeld
  <2>1. PICK held \in mixed : StrictSubset(held.indexes, cur.indexes)
    BY <1>3 DEF SubtractHeld
  <2>2. held.indexes # {}
    BY FS_EmptySet DEF IInv, HeldIrreducible
  <2>3. \A i \in Nat : cur.indexes # {i}
    BY <2>1, <2>2 DEF StrictSubset
  <2> QED
    BY <1>3, <2>3, ReworkLInv DEF SubtractHeld, historyVars
<1>4. CASE Discard
  <2>1. \A i \in Nat : cur.indexes # {i}
    BY <1>4, FS_Singleton DEF Discard
  <2> QED
    BY <1>4, <2>1, ReworkLInv DEF Discard, Reduced, historyVars
<1>5. CASE Pop \/ Recover \/ Hold \/ Return
  BY <1>5, PopLInv, RecoverLInv, HoldLInv, ReturnLInv
<1>6. CASE Reset
  BY <1>6, ForgetLInv DEF Reset, IInv, TypeOK, loopVars
<1>7. CASE UNCHANGED vars
  BY <1>7, IdleLInv DEF vars
<1> QED
  BY <1>1, <1>2, <1>3, <1>4, <1>5, <1>6, <1>7 DEF Next, Reduce

(* reduce() keeps to the limit, and loses no plain fragment on the way.    *)
THEOREM LimitInvariant == Spec => []LInv
BY Invariant, InitLInv, NextLInv, PTL DEF Spec

(* The parts that reduce() works on, those on hold and those in its queue, *)
(* are never more than it may hold, and the one at hand.                   *)
THEOREM HeldStaysBounded == Spec => []HoldBound
BY LimitInvariant, PTL DEF LInv

(* Whatever requeue() moved to the queue will get simpler there.           *)
THEOREM QueuedGetsSimpler == Spec => []QueueReducible
BY LimitInvariant, PTL DEF LInv

(* A receiver that misses none of the first parts has the message with the *)
(* last of them, although parts on hold may have been dropped.             *)
THEOREM NoneMissedIsEnough == Spec => []NoneMissedCompletes
<1>1. IInv /\ LInv => NoneMissedCompletes
  <2> SUFFICES ASSUME IInv, LInv, phase = "idle", shape # None,
                      \A i \in Idx : {i} \in accepted, ~complete
               PROVE  FALSE
    BY DEF NoneMissedCompletes
  <2>1. queue = {} /\ cur = None
    BY DEF IInv, TypeOK
  <2>2. \A i \in Idx : i \in known
    BY <2>1, IdxFinite DEF LInv, PlainKept, InHand, IInv
  <2>3. known = Idx
    BY <2>2 DEF IInv, TypeOK
  <2>4. knownCount = shape.seqLen
    BY <2>3, IdxFinite DEF IInv, CountExact
  <2> QED
    BY <2>4 DEF LInv, IdleShort, AllKnown
<1> QED
  BY <1>1, Invariant, LimitInvariant, PTL

----------------------------------------------------------------------------
(* The encoders *)

(* Screens and decoder have the same fountain code.                        *)
LEMMA OneCode ==
  /\ \A n : Enc!NextSeq(n) = NextSeq(n)
  /\ \A s : /\ Enc!SeqLen(s) = SeqLen(s)
            /\ Enc!ShapeOf(s) = ShapeOf(s)
            /\ Enc!Indexes(s) = Indexes(s)
  /\ \A s, n : /\ Enc!PartIndexes(s, n) = PartIndexes(s, n)
               /\ Enc!EncodedText(s, n) = EncodedText(s, n)
<1>1. \A a, b : Enc!CeilDiv(a, b) = CeilDiv(a, b)
  BY DEF Enc!CeilDiv, CeilDiv
<1>2. \A a, b : /\ Enc!FragmentLen(a, b) = FragmentLen(a, b)
               /\ Enc!FragmentCount(a, b) = FragmentCount(a, b)
  BY <1>1 DEF Enc!FragmentLen, Enc!FragmentCount, FragmentLen, FragmentCount
<1>3. \A s : Enc!SeqLen(s) = SeqLen(s)
  BY <1>2 DEF Enc!SeqLen, SeqLen
<1>4. \A s : /\ Enc!ShapeOf(s) = ShapeOf(s)
            /\ Enc!Indexes(s) = Indexes(s)
  BY <1>2, <1>3 DEF Enc!ShapeOf, ShapeOf, Enc!Indexes, Indexes
<1>5. \A s, n : Enc!PartIndexes(s, n) = PartIndexes(s, n)
  BY <1>3 DEF Enc!PartIndexes, PartIndexes, Enc!ChooseFragments, ChooseFragments
<1>6. \A s, I : Enc!Content(s, I) = Content(s, I)
  BY DEF Enc!Content, Content
<1>7. \A s : Enc!Whole(s) = Whole(s)
  BY <1>4, <1>6 DEF Enc!Whole, Whole
<1>8. \A s : Enc!SingleText(s) = SingleText(s)
  BY <1>4, <1>7 DEF Enc!SingleText, SingleText
<1>9. \A s, n : Enc!PartText(s, n) = PartText(s, n)
  BY <1>3, <1>4, <1>5, <1>6 DEF Enc!PartText, PartText
<1>10. \A s, n : Enc!EncodedText(s, n) = EncodedText(s, n)
  BY <1>3, <1>8, <1>9 DEF Enc!EncodedText, EncodedText
<1>11. \A n : Enc!NextSeq(n) = NextSeq(n)
  BY DEF Enc!NextSeq, NextSeq
<1> QED
  BY <1>3, <1>4, <1>5, <1>10, <1>11

(* The fragments with a number that was passed came out, and keep being    *)
(* out when the numbers start over.                                        *)
EncoderInv ==
  /\ seqNum \in [Stream -> 0 .. SeqMax]
  /\ produced \in [Stream -> SUBSET Nat]
  /\ \A s \in Stream : produced[s] \subseteq Indexes(s)
  /\ \A s \in Stream : \A i \in Indexes(s) : i < seqNum[s] => i \in produced[s]

LEMMA IndexesAre ==
  ASSUME NEW s \in Stream
  PROVE  /\ SeqLen(s) \in Nat \ {0}
         /\ \A i : i \in Indexes(s) <=> i \in Nat /\ i < SeqLen(s)
BY StreamShape DEF Indexes

LEMMA NextPartStep ==
  ASSUME EncoderInv, NEW s \in Stream, Enc!NextPart(s)
  PROVE  EncoderInv'
<1> DEFINE n == NextSeq(seqNum[s])
           new == IF n <= SeqLen(s) THEN PartIndexes(s, n) ELSE {}
<1>1. /\ seqNum' = [seqNum EXCEPT ![s] = n]
      /\ produced' = [produced EXCEPT ![s] = produced[s] \cup new]
  BY OneCode DEF Enc!NextPart
<1>2. seqNum \in [Stream -> 0 .. SeqMax] /\ produced \in [Stream -> SUBSET Nat]
  BY DEF EncoderInv
<1>3. n \in 1 .. SeqMax /\ n \in {1, seqNum[s] + 1}
  BY <1>2, SeqMaxAssumption DEF NextSeq
<1>4. new = IF n <= SeqLen(s) THEN {n - 1} ELSE {}
  BY DEF PartIndexes, ChooseFragments
<1> HIDE DEF n, new
<1>5. new \subseteq Indexes(s)
  BY <1>3, <1>4, IndexesAre
<1>6. new \subseteq Nat
  BY <1>5, IndexesAre
<1>7. /\ seqNum' \in [Stream -> 0 .. SeqMax]
      /\ produced' \in [Stream -> SUBSET Nat]
  <2>1. n \in 0 .. SeqMax
    BY <1>3, SeqMaxAssumption
  <2>2. produced[s] \cup new \in SUBSET Nat
    BY <1>2, <1>6
  <2> QED
    BY <1>1, <1>2, <2>1, <2>2
<1>8. ASSUME NEW r \in Stream
      PROVE  /\ produced'[r] \subseteq Indexes(r)
             /\ \A i \in Indexes(r) : i < seqNum'[r] => i \in produced'[r]
  <2>1. CASE r = s
    <3>1. seqNum'[r] = n /\ produced'[r] = produced[s] \cup new
      BY <1>1, <1>2, <2>1
    <3>2. produced[s] \subseteq Indexes(s)
      BY DEF EncoderInv
    <3>3. ASSUME NEW i \in Indexes(s), i < n
          PROVE  i \in produced[s] \cup new
      <4>1. i \in Nat /\ i < SeqLen(s) /\ SeqLen(s) \in Nat
        BY IndexesAre
      <4>2. CASE i = n - 1
        BY <1>3, <1>4, <4>1, <4>2
      <4>3. CASE i # n - 1
        <5>1. i < seqNum[s]
          BY <1>2, <1>3, <3>3, <4>1, <4>3
        <5> QED
          BY <5>1 DEF EncoderInv
      <4> QED
        BY <4>2, <4>3
    <3> QED
      BY <1>5, <2>1, <3>1, <3>2, <3>3
  <2>2. CASE r # s
    <3>1. seqNum'[r] = seqNum[r] /\ produced'[r] = produced[r]
      BY <1>1, <1>2, <2>2
    <3> QED
      BY <3>1 DEF EncoderInv
  <2> QED
    BY <2>1, <2>2
<1> QED
  BY <1>7, <1>8 DEF EncoderInv

LEMMA EncoderInvariant == TSpec => []EncoderInv
<1>1. TInit => EncoderInv
  BY SeqMaxAssumption, IndexesAre DEF TInit, Enc!Init, EncoderInv
<1>2. ASSUME EncoderInv, [TNext]_transferVars
      PROVE  EncoderInv'
  <2>1. CASE \E s \in Stream : Show(s)
    BY <1>2, <2>1, NextPartStep DEF Show
  <2>2. CASE UNCHANGED <<seqNum, produced>>
    BY <1>2, <2>2 DEF EncoderInv
  <2> QED
    BY <1>2, <2>1, <2>2 DEF TNext, Scan, DecoderStep, transferVars
<1> QED
  BY <1>1, <1>2, PTL DEF TSpec

(* Encoder::is_complete() tells that each fragment came out on its own,    *)
(* however often the numbers started over.                                 *)
THEOREM CompleteIsReallyProduced == TSpec => []CompleteIsProduced
<1>1. EncoderInv => CompleteIsProduced
  <2> SUFFICES ASSUME EncoderInv, NEW s \in Stream, Enc!IsComplete(s)
               PROVE  produced[s] = Indexes(s)
    BY OneCode DEF CompleteIsProduced, Enc!CompleteIsProduced
  <2>1. seqNum[s] \in Nat /\ seqNum[s] >= SeqLen(s)
    BY SeqMaxAssumption, OneCode DEF EncoderInv, Enc!IsComplete
  <2>2. \A i \in Indexes(s) : i < seqNum[s]
    BY <2>1, IndexesAre
  <2> QED
    BY <2>2 DEF EncoderInv
<1> QED
  BY <1>1, EncoderInvariant, PTL

----------------------------------------------------------------------------
(* The decoder *)

(* What the camera sees is a text that FountainDecoder enumerates, so what *)
(* is proved of the decoder for any texts holds of it in a transfer.       *)
THEOREM TransferDecodes == TSpec => Spec
<1>1. TInit => Init
  BY DEF TInit
<1>2. ASSUME EncoderInv, [TNext]_transferVars
      PROVE  [Next]_vars
  <2>1. ASSUME NEW s \in Stream, Scan(s)
        PROVE  Next
    <3>1. seqNum[s] \in 1 .. SeqMax
      BY <1>2, <2>1 DEF EncoderInv, Scan
    <3>2. Enc!OnScreen(s) \in Texts
      BY <3>1, OneCode DEF Enc!OnScreen, EncodedText, Texts
    <3> QED
      BY <2>1, <3>2 DEF Scan, Next
  <2> QED
    BY <1>2, <2>1 DEF TNext, Show, DecoderStep, Next, transferVars
<1> QED
  BY <1>1, <1>2, EncoderInvariant, PTL DEF TSpec, Spec

(* No two streams look the same to the decoder.                            *)
DistinctStreams ==
  \A r, s \in Stream :
    UrTypeOf[r] = UrTypeOf[s] /\ ShapeOf(r) = ShapeOf(s) => r = s

(* What a decoder has are the very bytes of the stream that it settled on. *)
Pure ==
  shape # None /\ ~complete =>
    \E s \in Stream :
      /\ Told(s)
      /\ message = [i \in Indexes(s) |-> message[i]]
      /\ \A i \in known : message[i] = Content(s, {i})
      /\ \A p \in Pending : p.data = Content(s, p.indexes)

LEMMA XorContent ==
  ASSUME NEW s, NEW I, NEW J, J \subseteq I
  PROVE  Xor(Content(s, I), Content(s, J)) = Content(s, I \ J)
BY DEF Xor, Content

(* A step that leaves the bytes alone leaves them pure.                    *)
LEMMA PureKept ==
  ASSUME Pure, UNCHANGED <<urType, shape, message, known, complete>>,
         Pending' \subseteq Pending
  PROVE  Pure'
BY DEF Pure, Told

LEMMA PureAccept ==
  ASSUME IInv, Pure, DistinctStreams, NEW t \in Texts, AcceptPart(t)
  PROVE  /\ Pure'
         /\ shape # None => UNCHANGED <<urType, shape, known>>
         /\ shape = None => known' = {}
         /\ \E s \in Stream : Told(s)'
         /\ ~complete'
<1> USE DEF AcceptPart, IInv, historyVars
<1>1. PICK s \in Stream, n \in 1 .. SeqMax :
        /\ t = PartText(s, n)
        /\ shape \in {None, ShapeOf(s)}
        /\ urType \in {None, UrTypeOf[s]}
  BY OnlyParts DEF TypeOK
<1> DEFINE I == PartIndexes(s, n)
           p == [indexes |-> I, data |-> Content(s, I)]
<1>2. /\ t.type = UrTypeOf[s] /\ t.shape = ShapeOf(s)
      /\ ChooseFragments(t.seqNum, t.shape.seqLen, t.shape.checksum) = I
      /\ t.data = Content(s, I)
  BY <1>1 DEF PartText, PartIndexes, ShapeOf
<1>3. queue' = {p} /\ cur' = cur /\ mixed' = mixed /\ cur = None /\ ~complete
  BY <1>2 DEF TypeOK
<1> HIDE DEF p
<1>4. p.data = Content(s, p.indexes)
  BY DEF p
<1>5. /\ urType' = UrTypeOf[s] /\ shape' = ShapeOf(s)
      /\ shape # None => UNCHANGED <<urType, shape, message>>
  BY <1>1, <1>2, NoneAssumption DEF Begun
<1>6. Told(s)'
  BY <1>5 DEF Told
<1>7. Pending' = mixed \cup {p}
  BY <1>3 DEF Pending
<1>8. CASE shape = None
  <2>1. known' = {} /\ mixed = {}
    BY <1>3, <1>8 DEF Begun
  <2>2. message' = [i \in Indexes(s) |-> message'[i]]
    BY <1>1, <1>2, <1>8, NoneAssumption DEF Begun, ShapeOf, Indexes
  <2> QED
    BY <1>3, <1>4, <1>6, <1>7, <1>8, <2>1, <2>2 DEF Pure
<1>9. CASE shape # None
  <2>1. /\ Told(s)
        /\ message = [i \in Indexes(s) |-> message[i]]
        /\ \A i \in known : message[i] = Content(s, {i})
        /\ \A q \in Pending : q.data = Content(s, q.indexes)
    BY <1>3, <1>5, <1>9, DistinctStreams DEF Pure, Told, DistinctStreams
  <2>2. known' = known /\ message' = message /\ mixed \subseteq Pending
    BY <1>5, <1>9 DEF Pending
  <2>3. Pure'
    BY <1>4, <1>6, <1>7, <2>1, <2>2 DEF Pure
  <2> QED
    BY <1>3, <1>5, <1>6, <1>9, <2>2, <2>3
<1> QED
  BY <1>8, <1>9

LEMMA PureReduce ==
  ASSUME IInv, Pure, Reduce
  PROVE  Pure'
<1> USE DEF IInv, decoderVars, historyVars
<1>1. shape # None /\ ~complete
  <2>1. phase = "reducing"
    BY DEF Reduce, Pop, DropKnown, SubtractHeld, Discard, Recover, Hold, Return,
           ReturnMore, FinishGood, FinishBad, Reduced, Drained
  <2> QED
    BY <2>1, Reducing
<1>2. PICK s \in Stream :
        /\ Told(s)
        /\ message = [i \in Indexes(s) |-> message[i]]
        /\ \A i \in known : message[i] = Content(s, {i})
        /\ \A p \in Pending : p.data = Content(s, p.indexes)
  BY <1>1 DEF Pure
<1>3. CASE Pop
  <2>1. Pending' \subseteq Pending
    BY <1>3 DEF Pop, Pending
  <2> QED
    BY <1>3, <2>1, PureKept DEF Pop
<1>4. CASE DropKnown
  <2>1. PICK i \in cur.indexes \cap known :
          cur' = [indexes |-> cur.indexes \ {i},
                  data    |-> Xor(cur.data, message[i])]
    BY <1>4 DEF DropKnown
  <2>2. /\ cur.data = Content(s, cur.indexes)
        /\ message[i] = Content(s, {i})
    BY <1>2, <1>4 DEF DropKnown, Pending
  <2>3. cur'.data = Content(s, cur'.indexes)
    BY <2>1, <2>2, XorContent
  <2>4. Pending' \subseteq Pending \cup {cur'}
    BY <1>4 DEF DropKnown, Pending
  <2> QED
    BY <1>2, <1>4, <2>3, <2>4 DEF DropKnown, Pure, Told
<1>5. CASE SubtractHeld
  <2>1. PICK held \in mixed :
          /\ held.indexes \subseteq cur.indexes
          /\ cur' = [indexes |-> cur.indexes \ held.indexes,
                     data    |-> Xor(cur.data, held.data)]
    BY <1>5 DEF SubtractHeld, StrictSubset
  <2>2. /\ cur.data = Content(s, cur.indexes)
        /\ held.data = Content(s, held.indexes)
    BY <1>2, <1>5 DEF SubtractHeld, Pending
  <2>3. cur'.data = Content(s, cur'.indexes)
    BY <2>1, <2>2, XorContent
  <2>4. Pending' \subseteq Pending \cup {cur'}
    BY <1>5 DEF SubtractHeld, Pending
  <2> QED
    BY <1>2, <1>5, <2>3, <2>4 DEF SubtractHeld, Pure, Told
<1>6. CASE Discard
  <2>1. Pending' \subseteq Pending
    BY <1>6 DEF Discard, Pending
  <2> QED
    BY <1>6, <2>1, PureKept DEF Discard
<1>7. CASE Recover
  <2>1. PICK i \in cur.indexes :
          /\ cur.indexes = {i}
          /\ message' = [message EXCEPT ![i] = cur.data]
          /\ known' = known \cup {i}
    BY <1>7 DEF Recover
  <2>2. /\ Pending' \subseteq Pending
        /\ cur \in Pending /\ cur \in PartsOf(Idx)
    BY <1>7, PartsAreParts DEF Recover, Reduced, Pending, Mixing
  <2>3. DOMAIN message = Idx /\ known \subseteq Idx /\ i \in Idx
    BY <1>1, <2>1, <2>2 DEF TypeOK, PartsOf
  <2>4. cur.data = Content(s, {i})
    BY <1>2, <2>1, <2>2
  <2>5. \A j \in known' : message'[j] = Content(s, {j})
    BY <1>2, <2>1, <2>3, <2>4
  <2>6. message' = [j \in Indexes(s) |-> message'[j]]
    <3>1. DOMAIN message = Indexes(s)
      BY <1>2
    <3> QED
      BY <2>1, <3>1
  <2> QED
    BY <1>2, <1>7, <2>2, <2>5, <2>6 DEF Recover, Pure, Told
<1>8. CASE Hold
  <2>1. Pending' \subseteq Pending
    BY <1>8 DEF Hold, Reduced, Pending, Covering
  <2> QED
    BY <1>8, <2>1, PureKept DEF Hold
<1>9. CASE Return
  <2>1. CASE ReturnMore
    <3>1. Pending' \subseteq Pending
      BY <2>1 DEF ReturnMore, Pending
    <3> QED
      BY <2>1, <3>1, PureKept DEF ReturnMore
  <2>2. CASE FinishGood \/ FinishBad
    BY <2>2 DEF FinishGood, FinishBad, Forget, Pure
  <2> QED
    BY <1>9, <2>1, <2>2 DEF Return
<1> QED
  BY <1>3, <1>4, <1>5, <1>6, <1>7, <1>8, <1>9 DEF Reduce

(* reduce() subtracts fragments and parts of one stream only, so that what *)
(* is left is that stream's too.                                           *)
THEOREM PureAlways ==
  ASSUME DistinctStreams
  PROVE  Spec => []Pure
<1>1. Init => Pure
  BY DEF Init, Pure
<1>2. ASSUME IInv, Pure, [Next]_vars
      PROVE  Pure'
  <2>1. CASE \E t \in Texts : AcceptPart(t)
    BY <1>2, <2>1, PureAccept
  <2>2. CASE \E t \in Texts : AcceptSingle(t)
    BY <2>2 DEF AcceptSingle, Pure
  <2>3. CASE Reduce
    BY <1>2, <2>3, PureReduce
  <2>4. CASE Reset
    BY <2>4 DEF Reset, Forget, Pure
  <2>5. CASE UNCHANGED <<decoderVars, loopVars>>
    <3>1. Pending' = Pending
      BY <2>5 DEF Pending, decoderVars, loopVars
    <3> QED
      BY <1>2, <2>5, <3>1, PureKept DEF decoderVars
  <2> QED
    BY <1>2, <2>1, <2>2, <2>3, <2>4, <2>5
       DEF Next, Receive, IgnoreComplete, Refuse, vars
<1> QED
  BY <1>1, <1>2, Invariant, PTL DEF Spec

----------------------------------------------------------------------------
(* The refinement *)

(* All the fragments of a stream are its message.                          *)
LEMMA WholeFromParts ==
  ASSUME NEW s \in Stream, message = [i \in Indexes(s) |-> message[i]],
         \A i \in Indexes(s) : message[i] = Content(s, {i})
  PROVE  message = Whole(s)
BY DEF Whole

(* A message that is whole is of one stream only. *)
LEMMA WholeIsOne ==
  ASSUME NEW r \in Stream, NEW s \in Stream, Whole(r) = Whole(s)
  PROVE  r = s
<1>1. 0 \in Indexes(r) /\ 0 \in Indexes(s)
  BY StreamShape
<1>2. Whole(r)[0] = Content(r, {0}) /\ Whole(s)[0] = Content(s, {0})
  BY <1>1 DEF Whole
<1>3. <<r, 0>> \in Content(s, {0})
  BY <1>2 DEF Content
<1> QED
  BY <1>3 DEF Content

LEMMA CompleteSource ==
  ASSUME NEW s \in Stream, complete, UrTypeOf[s] = urType, message = Whole(s)
  PROVE  SourceOf = s
<1>1. \A r \in Stream : message = Whole(r) => r = s
  BY WholeIsOne
<1> QED
  BY <1>1 DEF SourceOf

LEMMA ToldSource ==
  ASSUME DistinctStreams, NEW s \in Stream, ~complete, shape # None, Told(s)
  PROVE  SourceOf = s
<1>1. \A r \in Stream : Told(r) => r = s
  BY DEF DistinctStreams, Told
<1> QED
  BY <1>1 DEF SourceOf

(* A part that is taken in is of the stream at hand, or settles on one.    *)
LEMMA AcceptPartGathers ==
  ASSUME IInv, IInv', Pure, DistinctStreams, NEW t \in Texts, AcceptPart(t)
  PROVE  [\E s \in Stream : Abstract!Gather(s)]_Abstract!vars
<1>1. /\ shape # None => UNCHANGED <<urType, shape, known>>
      /\ shape = None => known' = {}
      /\ \E s \in Stream : Told(s)'
      /\ ~complete /\ ~complete'
  BY PureAccept DEF AcceptPart
<1>2. CASE shape # None
  <2>1. SourceOf' = SourceOf
    BY <1>1, <1>2 DEF SourceOf, Told
  <2> QED
    BY <1>1, <1>2, <2>1 DEF Abstract!vars
<1>3. CASE shape = None
  <2>1. SourceOf = None /\ known = {} /\ known' = {}
    BY <1>1, <1>3 DEF SourceOf, IInv, Begun
  <2>2. PICK s \in Stream : Told(s)'
    BY <1>1
  <2>3. shape' # None
    BY <2>2, NoneAssumption DEF Told
  <2>4. SourceOf' = s
    <3>1. \A r \in Stream : Told(r)' => r = s
      BY <2>2 DEF DistinctStreams, Told
    <3> QED
      BY <1>1, <2>2, <2>3, <3>1 DEF SourceOf
  <2>5. Abstract!Gather(s)
    BY <1>1, <2>1, <2>4 DEF Abstract!Gather
  <2> QED
    BY <2>5
<1> QED
  BY <1>2, <1>3

(* The UR of a whole message is all of its pieces at once.                 *)
LEMMA AcceptSingleGathers ==
  ASSUME IInv, NEW t \in Texts, AcceptSingle(t)
  PROVE  \E s \in Stream : Abstract!Gather(s)
<1> USE DEF IInv, AcceptSingle, loopVars, historyVars
<1>1. shape = None /\ ~complete /\ complete'
  BY NoPartAssumption DEF Refusal, Refusals
<1>2. PICK s \in Stream : t = SingleText(s)
  <2>1. ASSUME NEW s \in Stream, NEW n \in 1 .. SeqMax PROVE t # PartText(s, n)
    BY DEF PartText
  <2>2. ASSUME NEW s \in Stream PROVE t \notin DamagedTexts(s)
    BY DEF DamagedTexts, PartText
  <2> QED
    BY <2>1, <2>2 DEF Texts
<1>3. urType' = UrTypeOf[s] /\ message' = Whole(s)
  BY <1>2 DEF SingleText
<1>4. SourceOf' = s
  <2>1. \A r \in Stream : message' = Whole(r) => r = s
    BY <1>3, WholeIsOne
  <2> QED
    BY <1>1, <1>3, <2>1 DEF SourceOf
<1>5. SourceOf = None /\ known = {}
  BY <1>1 DEF SourceOf, Begun
<1> QED
  BY <1>1, <1>4, <1>5 DEF Abstract!Gather

LEMMA ReduceGathers ==
  ASSUME IInv, Pure, DistinctStreams, Reduce
  PROVE  [\E s \in Stream : Abstract!Gather(s)]_Abstract!vars
<1> USE DEF IInv, decoderVars, historyVars
<1>1. phase = "reducing" /\ shape # None /\ ~complete
  <2>1. phase = "reducing"
    BY DEF Reduce, Pop, DropKnown, SubtractHeld, Discard, Recover, Hold, Return,
           ReturnMore, FinishGood, FinishBad, Reduced, Drained
  <2> QED
    BY <2>1, Reducing
<1>2. PICK s \in Stream :
        /\ Told(s)
        /\ message = [i \in Indexes(s) |-> message[i]]
        /\ \A i \in known : message[i] = Content(s, {i})
  BY <1>1 DEF Pure
<1>3. SourceOf = s
  BY <1>1, <1>2, ToldSource
<1>4. Idx = Indexes(s)
  BY <1>1, <1>2 DEF Idx, Told, Indexes, ShapeOf
<1>5. CASE Recover
  <2>1. UNCHANGED <<urType, shape, complete>>
    BY <1>5 DEF Recover
  <2>2. SourceOf' = s
    BY <1>1, <1>3, <2>1 DEF SourceOf, Told
  <2>3. known \subseteq known' /\ known' \subseteq Indexes(s)
    <3>1. cur \in PartsOf(Idx)
      BY <1>5 DEF Recover, Reduced, TypeOK
    <3> QED
      BY <1>4, <1>5, <3>1 DEF Recover, TypeOK, PartsOf
  <2>4. Abstract!Gather(s)
    BY <1>1, <1>3, <2>1, <2>2, <2>3 DEF Abstract!Gather
  <2> QED
    BY <2>4
<1>6. CASE FinishGood
  <2>1. complete' /\ UNCHANGED <<urType, shape, message, known>> /\ AllKnown
    BY <1>6 DEF FinishGood
  <2>2. known = Indexes(s)
    BY <1>1, <1>4, <2>1, AllKnownIsAll
  <2>3. message = Whole(s)
    BY <1>1, <1>2, <1>4, <2>2, WholeFromParts
  <2>4. SourceOf' = s
    <3>1. \A r \in Stream : message' = Whole(r) => r = s
      BY <2>1, <2>3, WholeIsOne
    <3> QED
      BY <1>2, <2>1, <2>3, <3>1 DEF SourceOf, Told
  <2>5. Abstract!Gather(s)
    BY <1>1, <1>3, <2>1, <2>2, <2>4 DEF Abstract!Gather
  <2> QED
    BY <2>5
<1>7. CASE FinishBad
  <2>1. known = Indexes(s)
    BY <1>1, <1>4, <1>7, AllKnownIsAll DEF FinishBad
  <2>2. message = Whole(s)
    BY <1>1, <1>2, <1>4, <2>1, WholeFromParts
  <2>3. Verified
    BY <1>2, <2>2 DEF Verified, Told
  <2> QED
    BY <1>7, <2>3 DEF FinishBad
<1>8. CASE UNCHANGED <<urType, shape, message, known, complete>>
  BY <1>8 DEF Abstract!vars, SourceOf, Told
<1> QED
  BY <1>5, <1>6, <1>7, <1>8
     DEF Reduce, Pop, DropKnown, SubtractHeld, Discard, Hold, Return, ReturnMore

(* Parts lost, repeated, in any order and from any screen: the decoder     *)
(* settles on one stream, loses no fragment of it, and completes on its    *)
(* message when it has them all, and not before.                           *)
THEOREM TransferReassembles ==
  ASSUME DistinctStreams
  PROVE  TSpec => Reassembles
<1>1. TInit => Abstract!Init
  BY DEF TInit, Init, Abstract!Init, SourceOf
<1>2. ASSUME IInv, IInv', Pure, EncoderInv, [TNext]_transferVars
      PROVE  [\E s \in Stream : Abstract!Gather(s)]_Abstract!vars
  <2>1. CASE UNCHANGED decoderVars
    BY <2>1 DEF decoderVars, Abstract!vars, SourceOf, Told
  <2>2. CASE DecoderStep
    BY <1>2, <2>2, ReduceGathers DEF DecoderStep
  <2>3. ASSUME NEW s \in Stream, Scan(s)
        PROVE  [\E r \in Stream : Abstract!Gather(r)]_Abstract!vars
    <3>1. seqNum[s] \in 1 .. SeqMax
      BY <1>2, <2>3 DEF EncoderInv, Scan
    <3>2. Enc!OnScreen(s) \in Texts
      BY <3>1, OneCode DEF Enc!OnScreen, EncodedText, Texts
    <3>3. CASE AcceptPart(Enc!OnScreen(s))
      BY <1>2, <3>2, <3>3, AcceptPartGathers
    <3>4. CASE AcceptSingle(Enc!OnScreen(s))
      BY <1>2, <3>2, <3>4, AcceptSingleGathers
    <3> QED
      BY <2>1, <2>3, <3>3, <3>4 DEF Scan, Receive, IgnoreComplete, Refuse
  <2> QED
    BY <1>2, <2>1, <2>2, <2>3 DEF TNext, Show, transferVars, vars
<1>3. TSpec => [](IInv /\ Pure /\ EncoderInv)
  BY TransferDecodes, Invariant, PureAlways, EncoderInvariant, PTL
<1> QED
  BY <1>1, <1>2, <1>3, PTL DEF TSpec, Reassembles, Abstract!GatherSpec
=============================================================================
