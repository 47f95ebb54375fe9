----------------------------- MODULE PsbtProofs -----------------------------
(***************************************************************************)
(* What holds of a PSBT that goes from party to party, for any number of   *)
(* parties, inputs, keys and scripts: signatures are not lost, mismatched  *)
(* data stops an operation, and what is finalized can be spent and stays.  *)
(***************************************************************************)
EXTENDS PsbtWorkflow, FiniteSetTheorems, SequenceTheorems,
        WellFoundedInduction, TLAPS

FinalTypes == {FinalScriptSig, FinalWitness}

(* Records that are set by hand are neither signatures nor final scripts:  *)
(* those come from the signer and the finalizer.  set_input_record() takes *)
(* any record, and nothing checks a signature that is put in this way.     *)
OnlyUpdates == \A r \in Records : ~IsSig(r[3]) /\ r[3] \notin FinalTypes

(* Who holds a PSBT holds that of the one transaction that was created.    *)
OneTransaction ==
  /\ copies = [p \in Party |-> copies[p]]
  /\ \A p \in Holders : Inputs(p) \in Transactions
  /\ \A p, q \in Holders : Inputs(p) = Inputs(q)

----------------------------------------------------------------------------
(* What the operations do to the map of an input *)

LEMMA SigIsNotFinal ==
  ASSUME NEW key, IsSig(key)
  PROVE  key \notin FinalTypes
BY DEF IsSig, FinalTypes, FinalScriptSig, FinalWitness, K

LEMMA FinalKeysAre ==
  ASSUME NEW i
  PROVE  /\ FinalKeys(i) # {}
         /\ FinalKeys(i) \subseteq FinalTypes
         /\ \A map : IsFinalized(map) <=> \E key \in FinalTypes : Has(map, key)
BY DEF FinalKeys, FinalTypes, IsFinalized

(* A taproot input gets signatures of its output key and its leaves.       *)
LEMMA TaprootSigs ==
  ASSUME NEW psbt, NEW i, NEW k, NEW o \in TaprootOutcomes(psbt, i, k),
         NEW key \in DOMAIN o.sigs
  PROVE  \E h \in HashTypes(i) :
           \/ /\ key = TapKeySig
              /\ InternalKey[i] = k
              /\ o.sigs[key] = Signature(k, i, h, "key_path")
           \/ \E cb \in DOMAIN ProvenLeaf[i] :
                /\ key = TapScriptSig(k, ProvenLeaf[i][cb])
                /\ o.sigs[key] = Signature(k, i, h, ProvenLeaf[i][cb])
<1> DEFINE map == psbt[i]
           h   == HashType(map, i)
           keyPath == HasKeyPath(map, i, k)
           keySig  == keyPath /\ "key_path" \notin Cannot[k]
           toSign  == LeavesToSign(map, i, k)
           leaves(L) == [x \in {TapScriptSig(k, ProvenLeaf[i][cb]) : cb \in L} |->
                           Signature(k, i, h, x[3])]
           path == [x \in (IF keySig THEN {TapKeySig} ELSE {}) |->
                      Signature(k, i, h, "key_path")]
<1>1. ASSUME NEW e, o \in Failed(e) PROVE FALSE
  BY <1>1 DEF Failed
<1>2. h \in HashTypes(i)
  BY <1>1 DEF TaprootOutcomes
<1>3. PICK L \in SUBSET toSign : o.sigs = Over(leaves(L), path)
  <2>1. \E L \in SUBSET toSign : \E n : o \in Signed(Over(leaves(L), path), n)
    BY <1>1 DEF TaprootOutcomes, Nothing
  <2> HIDE DEF leaves, path, toSign
  <2>2. \A sigs, n : o \in Signed(sigs, n) => o.sigs = sigs
    BY DEF Signed
  <2> QED
    BY <2>1, <2>2
<1>4. CASE key \in DOMAIN leaves(L)
  <2>1. PICK cb \in L : key = TapScriptSig(k, ProvenLeaf[i][cb])
    BY <1>4
  <2>2. o.sigs[key] = Signature(k, i, h, ProvenLeaf[i][cb])
    <3>1. o.sigs[key] = Signature(k, i, h, key[3])
      BY <1>3, <1>4 DEF Over
    <3> QED
      BY <2>1, <3>1 DEF TapScriptSig
  <2>3. cb \in DOMAIN ProvenLeaf[i]
    BY DEF LeavesToSign
  <2> QED
    BY <1>2, <2>1, <2>2, <2>3
<1>5. CASE key \notin DOMAIN leaves(L)
  <2>1. key \in DOMAIN path /\ o.sigs[key] = path[key]
    BY <1>3, <1>5 DEF Over
  <2>2. keySig /\ key = TapKeySig /\ o.sigs[key] = Signature(k, i, h, "key_path")
    BY <2>1
  <2> QED
    BY <1>2, <2>2 DEF HasKeyPath
<1> QED
  BY <1>4, <1>5

(* What a signer adds to an input are its signatures of that input.        *)
LEMMA SigsAdded ==
  ASSUME NEW psbt, NEW i, NEW k, NEW o \in SignOutcomes(psbt, i, k),
         NEW key \in DOMAIN o.sigs
  PROVE  /\ IsSig(key)
         /\ \E h \in HashTypes(i) :
              \/ /\ key = TapKeySig
                 /\ InternalKey[i] = k
                 /\ o.sigs[key] = Signature(k, i, h, "key_path")
              \/ \E cb \in DOMAIN ProvenLeaf[i] :
                   /\ key = TapScriptSig(k, ProvenLeaf[i][cb])
                   /\ o.sigs[key] = Signature(k, i, h, ProvenLeaf[i][cb])
              \/ /\ key = PartialSig(k)
                 /\ Kind[i] # "p2tr"
                 /\ o.sigs[key] = Signature(k, i, h, Script[i])
<1>1. ASSUME NEW e, o \in Failed(e) PROVE FALSE
  BY <1>1 DEF Failed
<1>2. CASE Kind[i] = "p2tr"
  <2>1. o \in TaprootOutcomes(psbt, i, k)
    BY <1>1, <1>2 DEF SignOutcomes, Nothing
  <2>2. \A s : IsSig(TapKeySig) /\ IsSig(TapScriptSig(k, s))
    BY DEF IsSig, TapKeySig, TapScriptSig, K
  <2> QED
    BY <2>1, <2>2, TaprootSigs
<1>3. CASE Kind[i] # "p2tr"
  <2> DEFINE h == HashType(psbt[i], i)
  <2>1. o \in EcdsaOutcomes(psbt, i, k)
    BY <1>1, <1>3 DEF SignOutcomes, Nothing
  <2>2. /\ h \in HashTypes(i)
        /\ o.sigs = [x \in {PartialSig(k)} |-> Signature(k, i, h, Script[i])]
    BY <1>1, <2>1 DEF EcdsaOutcomes, Nothing, Signed
  <2>3. key = PartialSig(k) /\ o.sigs[key] = Signature(k, i, h, Script[i])
    BY <2>2
  <2>4. IsSig(PartialSig(k))
    BY DEF IsSig, PartialSig
  <2> QED
    BY <1>3, <2>2, <2>3, <2>4
<1> QED
  BY <1>2, <1>3

(* An error of the input's data is the outcome of signing it.              *)
LEMMA SignMismatch ==
  ASSUME NEW psbt, NEW i, NEW k, NEW o \in SignOutcomes(psbt, i, k),
         ~IsFinalized(psbt[i]), ResolveError(psbt[i], i) # None
  PROVE  o.error = ResolveError(psbt[i], i)
BY DEF SignOutcomes, Failed

LEMMA FinalMapIs ==
  ASSUME NEW map, NEW i, NEW fin \in FinalMaps(map, i)
  PROVE  \/ fin = map
         \/ /\ ~IsFinalized(map)
            /\ ResolveError(map, i) = None
            /\ \E spend \in Spends(map, i) : fin = Finalized(map, i, spend)
BY DEF FinalMaps

----------------------------------------------------------------------------
(* The steps *)

(* No step changes what inputs a party's copy has.                         *)
LEMMA WriteIs ==
  ASSUME OneTransaction, NEW p, NEW psbt, Write(p, psbt), NEW r \in Party
  PROVE  copies'[r] = IF r = p THEN psbt ELSE copies[r]
BY DEF OneTransaction, Write

LEMMA CreateShape ==
  ASSUME OneTransaction, NEW p \in Party, Create(p)
  PROVE  OneTransaction' /\ Holders = {}
<1>1. \A q \in Party : ~Holds(q)
  BY DEF Create
<1>2. PICK inputs \in Transactions : Write(p, [i \in inputs |-> <<>>])
  BY DEF Create
<1>3. copies' = [copies EXCEPT ![p] = [i \in inputs |-> <<>>]]
  BY <1>2 DEF Write
<1>4. \A q \in Party : q # p => copies'[q] = None
  BY <1>1, <1>3 DEF OneTransaction, Holds
<1>5. copies'[p] = [i \in inputs |-> <<>>]
  BY <1>3 DEF OneTransaction
<1> QED
  BY <1>1, <1>3, <1>4, <1>5 DEF OneTransaction, Holders, Holds, Inputs

(* A party that holds a copy writes another one of the same inputs.        *)
LEMMA WriteShape ==
  ASSUME OneTransaction, NEW p \in Party, Holds(p), NEW psbt,
         DOMAIN psbt = Inputs(p), Write(p, psbt)
  PROVE  OneTransaction'
<1>1. copies' = [copies EXCEPT ![p] = psbt]
  BY DEF Write
<1>2. \A q \in Party : copies'[q] = IF q = p THEN psbt ELSE copies[q]
  BY WriteIs
<1>3. \A q \in Party : Holds(q)' => q = p \/ Holds(q)
  BY <1>2 DEF Holds
<1>4. \A q \in Party : Holds(q)' => Inputs(q)' = Inputs(p)
  BY <1>2, <1>3 DEF Holds, Inputs, Holders, OneTransaction
<1> QED
  BY <1>1, <1>4 DEF OneTransaction, Holders

(* What a step may make of a map: nothing, the map with a record, with the *)
(* signatures of one key, with the records of another party's, or its      *)
(* final form.                                                             *)
Becomes(p, i, map) ==
  \/ map = copies[p][i]
  \/ \E r \in Records : map = Set(copies[p][i], r[3], r[4])
  \/ \E k \in SignersOf[p] : \E o \in SignOutcomes(copies[p], i, k) :
       /\ map = Over(o.sigs, copies[p][i])
       /\ \A key \in DOMAIN o.sigs : o.sigs[key] \in made'
  \/ \E q \in Holders : i \in Inputs(q) /\ map = Over(copies[p][i], copies[q][i])
  \/ map \in FinalMaps(copies[p][i], i)

(* A step writes at most the copy of one party, and what it writes is what *)
(* the operations make of its maps.                                        *)
Stepped ==
  \A p \in Holders :
    /\ DOMAIN copies'[p] = Inputs(p)
    /\ \A i \in Inputs(p) : Becomes(p, i, copies'[p][i])

LEMMA SteppedBy ==
  ASSUME OneTransaction, NEW p \in Party, Holds(p), NEW psbt, Write(p, psbt),
         DOMAIN psbt = Inputs(p), \A i \in Inputs(p) : Becomes(p, i, psbt[i])
  PROVE  OneTransaction' /\ Stepped
<1>1. OneTransaction'
  BY WriteShape
<1>2. ASSUME NEW q \in Holders
      PROVE  /\ DOMAIN copies'[q] = Inputs(q)
             /\ \A i \in Inputs(q) : Becomes(q, i, copies'[q][i])
  <2>1. copies'[q] = IF q = p THEN psbt ELSE copies[q]
    BY <1>2, WriteIs DEF Holders
  <2>2. CASE q = p
    BY <2>1, <2>2
  <2>3. CASE q # p
    BY <1>2, <2>1, <2>3 DEF Becomes, Inputs, Holders
  <2> QED
    BY <2>2, <2>3
<1> QED
  BY <1>1, <1>2 DEF Stepped

LEMMA NotWritten ==
  ASSUME OneTransaction, UNCHANGED copies
  PROVE  OneTransaction' /\ Stepped
<1>1. OneTransaction'
  BY DEF OneTransaction, Holders, Holds, Inputs
<1>2. Stepped
  BY DEF Stepped, Becomes, Holders, Inputs
<1> QED
  BY <1>1, <1>2

LEMMA SignStep ==
  ASSUME OneTransaction, NEW p \in Party, NEW k \in SignersOf[p], Sign(p, k)
  PROVE  OneTransaction' /\ Stepped /\ made \subseteq made'
<1> DEFINE psbt == copies[p]
           sigsOf(o) == UNION {{o[i].sigs[key] : key \in DOMAIN o[i].sigs} :
                                 i \in Inputs(p)}
<1>1. PICK o \in [Inputs(p) -> UNION {SignOutcomes(psbt, i, k) : i \in Inputs(p)}] :
        /\ \A i \in Inputs(p) : o[i] \in SignOutcomes(psbt, i, k)
        /\ made' = made \cup sigsOf(o)
        /\ \/ UNCHANGED copies
           \/ Write(p, [i \in Inputs(p) |-> Over(o[i].sigs, psbt[i])])
  BY DEF Sign, Fail
<1>2. CASE UNCHANGED copies
  BY <1>1, <1>2, NotWritten
<1>3. CASE Write(p, [i \in Inputs(p) |-> Over(o[i].sigs, psbt[i])])
  <2>1. ASSUME NEW i \in Inputs(p)
        PROVE  Becomes(p, i, Over(o[i].sigs, psbt[i]))
    <3>1. \A key \in DOMAIN o[i].sigs : o[i].sigs[key] \in made'
      BY <1>1
    <3>2. o[i] \in SignOutcomes(copies[p], i, k)
      BY <1>1
    <3> QED
      BY <3>1, <3>2 DEF Becomes
  <2>2. Holds(p)
    BY DEF Sign
  <2> QED
    BY <1>1, <1>3, <2>1, <2>2, SteppedBy
<1> QED
  BY <1>1, <1>2, <1>3

LEMMA SignInputStep ==
  ASSUME OneTransaction, NEW p \in Party, NEW k \in SignersOf[p],
         NEW i \in Inputs(p), SignInput(p, k, i)
  PROVE  OneTransaction' /\ Stepped /\ made \subseteq made'
<1>1. PICK o \in SignOutcomes(copies[p], i, k) :
        /\ made' = made \cup {o.sigs[key] : key \in DOMAIN o.sigs}
        /\ \/ UNCHANGED copies
           \/ Write(p, [copies[p] EXCEPT ![i] = Over(o.sigs, @)])
  BY DEF SignInput, Fail
<1>2. CASE UNCHANGED copies
  BY <1>1, <1>2, NotWritten
<1>3. CASE Write(p, [copies[p] EXCEPT ![i] = Over(o.sigs, @)])
  <2>1. Holds(p) /\ DOMAIN copies[p] = Inputs(p)
    BY DEF SignInput, Inputs
  <2> DEFINE psbt == [copies[p] EXCEPT ![i] = Over(o.sigs, @)]
  <2>2. ASSUME NEW j \in Inputs(p)
        PROVE  Becomes(p, j, psbt[j])
    <3>1. psbt[j] = IF j = i THEN Over(o.sigs, copies[p][i]) ELSE copies[p][j]
      BY <2>1
    <3>2. \A key \in DOMAIN o.sigs : o.sigs[key] \in made'
      BY <1>1
    <3> QED
      BY <3>1, <3>2 DEF Becomes
  <2>3. DOMAIN psbt = Inputs(p)
    BY <2>1
  <2> HIDE DEF psbt
  <2> QED
    BY <1>1, <1>3, <2>1, <2>2, <2>3, SteppedBy DEF psbt
<1> QED
  BY <1>1, <1>2, <1>3

LEMMA UpdateStep ==
  ASSUME OneTransaction, NEW r \in Records, Update(r[1], r[2], r[3], r[4])
  PROVE  OneTransaction' /\ Stepped /\ made \subseteq made'
<1> DEFINE p == r[1]
           psbt == [copies[p] EXCEPT ![r[2]] = Set(@, r[3], r[4])]
<1>1. Write(p, psbt) /\ Holds(p) /\ r[2] \in Inputs(p) /\ made' = made
  BY DEF Update
<1>2. DOMAIN copies[p] = Inputs(p) /\ DOMAIN psbt = Inputs(p)
  BY <1>1 DEF Inputs
<1>3. CASE p \in Party
  <2>1. ASSUME NEW i \in Inputs(p)
        PROVE  Becomes(p, i, psbt[i])
    <3>1. psbt[i] = IF i = r[2] THEN Set(copies[p][i], r[3], r[4]) ELSE copies[p][i]
      BY <1>2
    <3> QED
      BY <3>1 DEF Becomes
  <2> HIDE DEF psbt
  <2> QED
    BY <1>1, <1>2, <1>3, <2>1, SteppedBy
<1>4. CASE p \notin Party
  <2>1. UNCHANGED copies
    BY <1>1, <1>4 DEF Write, OneTransaction
  <2> QED
    BY <1>1, <2>1, NotWritten
<1> QED
  BY <1>3, <1>4

LEMMA CombineStep ==
  ASSUME OneTransaction, NEW p \in Party, NEW q \in Party, Combine(p, q)
  PROVE  OneTransaction' /\ Stepped /\ made \subseteq made'
<1> DEFINE psbt == [i \in Inputs(p) |-> Merge(copies[p][i], copies[q][i])]
<1>1. Write(p, psbt) /\ Holds(p) /\ Holds(q) /\ made' = made
  BY DEF Combine
<1>2. Inputs(p) = Inputs(q) /\ q \in Holders
  BY <1>1 DEF OneTransaction, Holders
<1>3. \A i \in Inputs(p) : Becomes(p, i, psbt[i])
  BY <1>2 DEF Becomes, Merge
<1> QED
  BY <1>1, <1>3, SteppedBy

LEMMA FinalizeStep ==
  ASSUME OneTransaction, NEW p \in Party, Finalize(p)
  PROVE  OneTransaction' /\ Stepped /\ made \subseteq made'
<1>1. \/ UNCHANGED copies
      \/ \E fin \in [Inputs(p) -> UNION {FinalMaps(copies[p][i], i) : i \in Inputs(p)}] :
           /\ \A i \in Inputs(p) : fin[i] \in FinalMaps(copies[p][i], i)
           /\ Write(p, fin)
  BY DEF Finalize, Fail
<1>2. made' = made /\ Holds(p)
  BY DEF Finalize
<1>3. CASE UNCHANGED copies
  BY <1>2, <1>3, NotWritten
<1>4. ASSUME NEW fin \in [Inputs(p) -> UNION {FinalMaps(copies[p][i], i) : i \in Inputs(p)}],
             \A i \in Inputs(p) : fin[i] \in FinalMaps(copies[p][i], i),
             Write(p, fin)
      PROVE  OneTransaction' /\ Stepped
  BY <1>2, <1>4, SteppedBy DEF Becomes
<1> QED
  BY <1>1, <1>2, <1>3, <1>4

LEMMA SendStep ==
  ASSUME OneTransaction, NEW p \in Party, NEW q \in Party, Send(p, q)
  PROVE  OneTransaction' /\ Stepped /\ made \subseteq made'
<1>1. Write(q, copies[p]) /\ Holds(p) /\ ~Holds(q) /\ made' = made
  BY DEF Send
<1>2. \A r \in Party : copies'[r] = IF r = q THEN copies[p] ELSE copies[r]
  BY <1>1, WriteIs
<1>3. OneTransaction'
  <2>1. \A r \in Party : Holds(r)' => Inputs(r)' = Inputs(p)
    BY <1>1, <1>2 DEF OneTransaction, Holders, Holds, Inputs
  <2>2. copies' = [r \in Party |-> copies'[r]]
    BY <1>1 DEF Write, OneTransaction
  <2> QED
    BY <1>1, <2>1, <2>2 DEF OneTransaction, Holders
<1>4. Stepped
  BY <1>1, <1>2 DEF Stepped, Becomes, Holders, Inputs
<1> QED
  BY <1>1, <1>3, <1>4

LEMMA NextStep ==
  ASSUME OneTransaction, [Next]_vars
  PROVE  OneTransaction' /\ Stepped /\ made \subseteq made'
<1>1. CASE \E p \in Party : Create(p)
  BY <1>1, CreateShape DEF Stepped, Create
<1>2. CASE UNCHANGED <<copies, made>>
  BY <1>2, NotWritten
<1> QED
  BY <1>1, <1>2, SignStep, SignInputStep, UpdateStep, CombineStep, FinalizeStep, SendStep
     DEF Next, Extract, Fail, vars

(* Who comes to hold a PSBT created an empty one, or was sent a copy.      *)
LEMMA NewHolder ==
  ASSUME OneTransaction, [Next]_vars, NEW p \in Holders', p \notin Holders,
         NEW i \in Inputs(p)'
  PROVE  \/ copies'[p][i] = <<>>
         \/ \E q \in Holders : i \in Inputs(q) /\ copies'[p][i] = copies[q][i]
<1>1. CASE \E q \in Party : Create(q)
  <2>1. PICK q \in Party : Create(q)
    BY <1>1
  <2>2. PICK inputs \in Transactions : Write(q, [j \in inputs |-> <<>>])
    BY <2>1 DEF Create
  <2>3. copies' = [copies EXCEPT ![q] = [j \in inputs |-> <<>>]]
    BY <2>2 DEF Write
  <2>4. p = q
    BY <2>3 DEF OneTransaction, Holders, Holds
  <2>5. copies'[p] = [j \in inputs |-> <<>>] /\ i \in inputs
    BY <2>3, <2>4 DEF OneTransaction, Inputs, Holders
  <2>6. copies'[p][i] = <<>>
    BY <2>5
  <2> QED
    BY <2>6
<1>2. CASE \E q, r \in Party : Send(q, r)
  <2>1. PICK q \in Party, r \in Party : Send(q, r)
    BY <1>2
  <2>2. Write(r, copies[q]) /\ q \in Holders
    BY <2>1 DEF Send, Holders
  <2>3. copies'[p] = IF p = r THEN copies[q] ELSE copies[p]
    BY <2>2, WriteIs DEF Holders
  <2>4. copies'[p] = copies[q]
    BY <2>3 DEF Holders, Holds
  <2>5. i \in Inputs(q)
    BY <2>2, <2>4 DEF Inputs, Holders, Holds
  <2> QED
    BY <2>2, <2>4, <2>5
<1>3. CASE UNCHANGED copies
  BY <1>3 DEF Holders, Holds
<1>4. ASSUME NEW q, NEW psbt, Holds(q), Write(q, psbt)
      PROVE  FALSE
  <2>1. copies'[p] = IF p = q THEN psbt ELSE copies[p]
    BY <1>4, WriteIs DEF Holders
  <2> QED
    BY <1>4, <2>1 DEF Holders, Holds
<1> QED
  <2>1. ASSUME NEW q \in Party, Finalize(q) PROVE UNCHANGED copies
    BY <1>4, <2>1 DEF Finalize, Fail
  <2>2. ASSUME NEW q \in Party, NEW k, Sign(q, k) PROVE UNCHANGED copies
    BY <1>4, <2>2 DEF Sign, Fail
  <2>3. ASSUME NEW q \in Party, NEW k, NEW j, SignInput(q, k, j)
        PROVE  UNCHANGED copies
    BY <1>4, <2>3 DEF SignInput, Fail
  <2>4. ASSUME NEW q \in Party, NEW r \in Party, Combine(q, r) PROVE FALSE
    BY <1>4, <2>4 DEF Combine
  <2>5. ASSUME NEW r \in Records, Update(r[1], r[2], r[3], r[4]) PROVE FALSE
    BY <1>4, <2>5 DEF Update
  <2> QED
    BY <1>1, <1>2, <1>3, <2>1, <2>2, <2>3, <2>4, <2>5 DEF Next, Extract, Fail, vars

LEMMA OneTransactionAlways == Spec => []OneTransaction
<1>1. Init => OneTransaction
  BY DEF Init, OneTransaction, Holders, Holds
<1> QED
  BY <1>1, NextStep, PTL DEF Spec

----------------------------------------------------------------------------
(* The action properties *)

(* A final script is never replaced, however often the input is signed,    *)
(* combined and finalized again: FinalStays of any parties and inputs.     *)
THEOREM FinalStaysAlways ==
  ASSUME OnlyUpdates
  PROVE  Spec => FinalStays
<1>1. ASSUME OneTransaction, [Next]_vars, NEW p \in Holders, NEW i \in Inputs(p),
             NEW key \in FinalKeys(i), Has(copies[p][i], key)
      PROVE  Get(copies'[p][i], key) = copies[p][i][key]
  <2>1. PICK map : map = copies'[p][i] /\ Becomes(p, i, map)
    BY <1>1, NextStep DEF Stepped
  <2> SUFFICES Get(map, key) = copies[p][i][key]
    BY <2>1
  <2>2. key \in FinalTypes /\ IsFinalized(copies[p][i]) /\ ~IsSig(key)
    BY <1>1, FinalKeysAre, SigIsNotFinal
  <2>3. CASE \E r \in Records : map = Set(copies[p][i], r[3], r[4])
    BY <1>1, <2>2, <2>3 DEF OnlyUpdates, Set, Over, Get, Has
  <2>4. CASE \E k \in SignersOf[p] : \E o \in SignOutcomes(copies[p], i, k) :
               map = Over(o.sigs, copies[p][i])
    BY <1>1, <2>2, <2>4, SigsAdded DEF Over, Get, Has
  <2>5. CASE \E q \in Holders : map = Over(copies[p][i], copies[q][i])
    BY <1>1, <2>5 DEF Over, Get, Has
  <2>6. CASE map \in FinalMaps(copies[p][i], i)
    BY <1>1, <2>2, <2>6 DEF FinalMaps, Get, Has
  <2>7. CASE map = copies[p][i]
    BY <1>1, <2>7 DEF Get, Has
  <2> QED
    BY <2>1, <2>3, <2>4, <2>5, <2>6, <2>7 DEF Becomes
<1>2. OneTransaction /\ [Next]_vars =>
        [\A p \in Holders : \A i \in Inputs(p) : \A key \in FinalKeys(i) :
           Has(copies[p][i], key) => Get(copies'[p][i], key) = copies[p][i][key]]_vars
  BY <1>1
<1> QED
  BY <1>2, OneTransactionAlways, PTL DEF Spec, FinalStays

(* No signature is lost before its input is finalized: NoSigLost of any    *)
(* parties and inputs, and whatever records are set.                       *)
THEOREM NoSigLostAlways == Spec => NoSigLost
<1>1. ASSUME OneTransaction, [Next]_vars, NEW p \in Holders, NEW i \in Inputs(p),
             NEW key \in DOMAIN copies[p][i], IsSig(key)
      PROVE  Has(copies'[p][i], key) \/ IsFinalized(copies'[p][i])
  <2>1. PICK map : map = copies'[p][i] /\ Becomes(p, i, map)
    BY <1>1, NextStep DEF Stepped
  <2> SUFFICES Has(map, key) \/ IsFinalized(map)
    BY <2>1
  <2>2. CASE map \in FinalMaps(copies[p][i], i)
    <3>1. CASE \E spend : map = Finalized(copies[p][i], i, spend)
      <4>1. FinalKeys(i) \subseteq DOMAIN map
        BY <3>1 DEF Finalized
      <4> QED
        BY <4>1, FinalKeysAre DEF Has
    <3>2. CASE map = copies[p][i]
      BY <1>1, <3>2 DEF Has
    <3> QED
      BY <2>2, <3>1, <3>2, FinalMapIs
  <2>3. CASE map \notin FinalMaps(copies[p][i], i)
    BY <1>1, <2>1, <2>3 DEF Becomes, Set, Over, Has
  <2> QED
    BY <2>2, <2>3
<1>2. OneTransaction /\ [Next]_vars =>
        [\A p \in Holders : \A i \in Inputs(p) : \A key \in DOMAIN copies[p][i] :
           IsSig(key) => Has(copies'[p][i], key) \/ IsFinalized(copies'[p][i])]_vars
  BY <1>1
<1> QED
  BY <1>2, OneTransactionAlways, PTL DEF Spec, NoSigLost

(* Data that does not match what is spent stops signers and finalizers:    *)
(* MismatchStops of any parties and inputs, and whatever records are set.  *)
THEOREM MismatchStopsAlways == Spec => MismatchStops
<1>1. ASSUME NEW p \in Holders, NEW i \in Inputs(p), ~IsFinalized(copies[p][i]),
             ResolveError(copies[p][i], i) \in Mismatches,
             Finalize(p) \/ \E k \in SignersOf[p] : Sign(p, k)
      PROVE  UNCHANGED copies
  <2>1. ResolveError(copies[p][i], i) \notin Skippable \cup {None}
    BY <1>1, NoneAssumption DEF Mismatches, Skippable, Errors
  <2>2. CASE Finalize(p)
    <3> DEFINE errors == {ResolveError(copies[p][j], j) :
                            j \in {n \in Inputs(p) : ~IsFinalized(copies[p][n])}}
                           \ (Skippable \cup {None})
    <3>1. errors # {}
      BY <1>1, <2>1
    <3> QED
      BY <2>2, <3>1 DEF Finalize, Fail
  <2>3. ASSUME NEW k \in SignersOf[p], Sign(p, k)
        PROVE  UNCHANGED copies
    <3>1. PICK o : /\ \A j \in Inputs(p) : o[j] \in SignOutcomes(copies[p], j, k)
                   /\ {o[j].error : j \in Inputs(p)} \ (Skippable \cup {None}) # {}
                        => UNCHANGED copies
      BY <2>3 DEF Sign, Fail
    <3>2. o[i].error = ResolveError(copies[p][i], i)
      BY <1>1, <2>1, <3>1, SignMismatch
    <3> QED
      BY <2>1, <3>1, <3>2
  <2> QED
    BY <1>1, <2>2, <2>3
<1>2. [Next]_vars =>
        [\A p \in Holders :
           \/ UNCHANGED copies
           \/ \A i \in Inputs(p) : \/ IsFinalized(copies[p][i])
                                 \/ ResolveError(copies[p][i], i) \notin Mismatches
           \/ ~(Finalize(p) \/ \E k \in SignersOf[p] : Sign(p, k))]_vars
  BY <1>1
<1> QED
  BY <1>2, PTL DEF Spec, MismatchStops

----------------------------------------------------------------------------
(* The signatures in the order of the keys *)

(* Induction over the natural numbers, for a set rather than an operator.  *)
LEMMA Induction ==
  ASSUME NEW S, 0 \in S, \A n \in Nat : n \in S => n + 1 \in S
  PROVE  Nat \subseteq S
<1> SUFFICES ASSUME Nat \ S # {} PROVE FALSE
  OBVIOUS
<1>1. PICK m \in Nat \ S : \A k \in Nat \ S : ~(<<k, m>> \in OpToRel(<, Nat))
  BY NatLessThanWellFounded, WFMin
<1>2. m # 0 /\ m - 1 \in Nat /\ m - 1 < m
  OBVIOUS
<1>3. m - 1 \in S
  <2>1. <<m - 1, m>> \in Nat \X Nat
    BY <1>2
  <2>2. <<m - 1, m>> \in OpToRel(<, Nat)
    BY <1>2, <2>1, Zenon DEF OpToRel
  <2> QED
    BY <1>1, <1>2, <2>2
<1> QED
  BY <1>2, <1>3

(* The loop over the keys of a script, up to key m.                        *)
Taken(s, sigOf, n, before) ==
  IF sigOf[KeysOf[s][n]] = None THEN before
  ELSE Append(before, sigOf[KeysOf[s][n]])

Loop(s, sigOf, m, found) ==
  found = [n \in 0 .. m |->
             IF n = 0 THEN <<>> ELSE Taken(s, sigOf, n, found[n - 1])]

LEMMA InOrderDef ==
  ASSUME NEW s, NEW sigOf
  PROVE  InOrder(s, sigOf) =
           (CHOOSE found : Loop(s, sigOf, Len(KeysOf[s]), found))[Len(KeysOf[s])]
BY DEF InOrder, Loop, Taken

LEMMA LoopRuns ==
  ASSUME NEW s, NEW sigOf, NEW m \in Nat
  PROVE  \E found : Loop(s, sigOf, m, found)
<1> DEFINE Good == {n \in Nat : \E found : Loop(s, sigOf, n, found)}
<1>1. 0 \in Good
  <2> DEFINE h == [n \in 0 .. 0 |-> <<>>]
  <2>1. Loop(s, sigOf, 0, h)
    BY DEF Loop
  <2> QED
    BY <2>1
<1>2. ASSUME NEW n \in Nat, n \in Good
      PROVE  n + 1 \in Good
  <2>1. PICK h : Loop(s, sigOf, n, h)
    BY <1>2
  <2> DEFINE h2 == [i \in 0 .. (n + 1) |->
                      IF i = 0 THEN <<>> ELSE Taken(s, sigOf, i, h[i - 1])]
  <2>2. ASSUME NEW i \in 0 .. n
        PROVE  h2[i] = h[i]
    BY <2>1 DEF Loop
  <2>3. Loop(s, sigOf, n + 1, h2)
    <3>1. \A i \in 0 .. (n + 1) : i # 0 => h[i - 1] = h2[i - 1]
      <4> HIDE DEF h2
      <4> QED
        BY <2>2
    <3> QED
      BY <3>1 DEF Loop
  <2> HIDE DEF h2
  <2> QED
    BY <2>3
<1> HIDE DEF Good
<1>3. m \in Good
  BY <1>1, <1>2, Induction
<1> QED
  BY <1>3 DEF Good

(* Some signatures, of the keys f[1], f[2], ... among the first m.         *)
Picked(s, sigOf, m, sigs, f) ==
  /\ sigs \in Seq({sigOf[KeysOf[s][n]] : n \in 1 .. m} \ {None})
  /\ f \in [1 .. Len(sigs) -> 1 .. m]
  /\ \A n \in 1 .. Len(sigs) : sigs[n] = sigOf[KeysOf[s][f[n]]]
  /\ \A n, o \in 1 .. Len(sigs) : o < n => f[o] < f[n]

LEMMA InOrderPicks ==
  ASSUME NEW s, Len(KeysOf[s]) \in Nat, NEW sigOf
  PROVE  \E f : Picked(s, sigOf, Len(KeysOf[s]), InOrder(s, sigOf), f)
<1> DEFINE N == Len(KeysOf[s])
<1>1. PICK found : InOrder(s, sigOf) = found[N] /\ Loop(s, sigOf, N, found)
  BY InOrderDef, LoopRuns
<1> HIDE DEF N
<1>2. /\ found[0] = <<>>
      /\ \A n \in 1 .. N : found[n] = Taken(s, sigOf, n, found[n - 1])
  BY <1>1 DEF Loop, N
<1> DEFINE Good == {n \in Nat : n <= N => \E f : Picked(s, sigOf, n, found[n], f)}
<1>3. 0 \in Good
  <2>1. Picked(s, sigOf, 0, <<>>, <<>>)
    BY DEF Picked
  <2> QED
    BY <1>2, <2>1
<1>4. ASSUME NEW n \in Nat, n \in Good
      PROVE  n + 1 \in Good
  <2> SUFFICES ASSUME n + 1 <= N
               PROVE  \E f : Picked(s, sigOf, n + 1, found[n + 1], f)
    OBVIOUS
  <2> DEFINE V(m) == {sigOf[KeysOf[s][i]] : i \in 1 .. m} \ {None}
             sig == sigOf[KeysOf[s][n + 1]]
  <2>1. PICK f : Picked(s, sigOf, n, found[n], f)
    BY <1>4, N \in Nat DEF N
  <2>2. found[n + 1] = IF sig = None THEN found[n] ELSE Append(found[n], sig)
    <3>1. n + 1 \in 1 .. N /\ (n + 1) - 1 = n
      BY DEF N
    <3>2. found[n + 1] = Taken(s, sigOf, n + 1, found[n])
      BY <1>2, <3>1
    <3> QED
      BY <3>2 DEF Taken
  <2>3. V(n) \subseteq V(n + 1) /\ 1 .. n \subseteq 1 .. (n + 1)
    OBVIOUS
  <2>4. found[n] \in Seq(V(n + 1)) /\ Len(found[n]) \in Nat
    <3>1. found[n] \in Seq(V(n))
      BY <2>1 DEF Picked
    <3> QED
      BY <2>3, <3>1, LenProperties
  <2>5. CASE sig = None
    <3>1. Picked(s, sigOf, n + 1, found[n], f)
      BY <2>1, <2>3, <2>4 DEF Picked
    <3> QED
      BY <2>2, <2>5, <3>1
  <2>6. CASE sig # None
    <3> DEFINE len == Len(found[n])
               g == [i \in 1 .. (len + 1) |-> IF i = len + 1 THEN n + 1 ELSE f[i]]
               longer == Append(found[n], sig)
    <3>1. sig \in V(n + 1)
      BY <2>6
    <3>2. /\ longer \in Seq(V(n + 1))
          /\ Len(longer) = len + 1
          /\ \A i \in 1 .. len : longer[i] = found[n][i]
          /\ longer[len + 1] = sig
      <4> HIDE DEF V, sig
      <4> QED
        BY <2>4, <3>1, AppendProperties
    <3> HIDE DEF longer
    <3>7. /\ len \in Nat
          /\ f \in [1 .. len -> 1 .. n]
          /\ \A i \in 1 .. len : found[n][i] = sigOf[KeysOf[s][f[i]]]
      BY <2>1, <2>4 DEF Picked
    <3>3. g \in [1 .. Len(longer) -> 1 .. (n + 1)]
      <4>1. g \in [1 .. (len + 1) -> 1 .. (n + 1)]
        <5> HIDE DEF len
        <5> QED
          BY <3>7
      <4> QED
        BY <3>2, <4>1
    <3>4. \A i \in 1 .. Len(longer) : longer[i] = sigOf[KeysOf[s][g[i]]]
      <4> SUFFICES ASSUME NEW i \in 1 .. (len + 1)
                   PROVE  longer[i] = sigOf[KeysOf[s][g[i]]]
        BY <3>2
      <4> HIDE DEF len
      <4>1. CASE i = len + 1
        BY <3>2, <3>7, <4>1
      <4>2. CASE i # len + 1
        <5>1. i \in 1 .. len
          BY <3>7, <4>2
        <5>2. longer[i] = found[n][i] /\ g[i] = f[i]
          BY <3>2, <4>2, <5>1
        <5> QED
          BY <3>7, <5>1, <5>2
      <4> QED
        BY <4>1, <4>2
    <3>5. ASSUME NEW i \in 1 .. Len(longer), NEW o \in 1 .. Len(longer), o < i
          PROVE  g[o] < g[i]
      <4>1. o \in 1 .. len /\ g[o] = f[o] /\ f[o] \in 1 .. n
        <5>1. i \in 1 .. (len + 1) /\ o \in 1 .. (len + 1) /\ len \in Nat
          BY <2>4, <3>2
        <5>2. o \in 1 .. len /\ o # len + 1
          <6> HIDE DEF len
          <6> QED
            BY <3>5, <5>1
        <5>3. f \in [1 .. len -> 1 .. n]
          BY <2>1 DEF Picked
        <5>4. g[o] = f[o] /\ f[o] \in 1 .. n
          <6> HIDE DEF len
          <6> QED
            BY <5>1, <5>2, <5>3
        <5> QED
          BY <5>2, <5>4
      <4>2. CASE i = len + 1
        <5>1. g[i] = n + 1
          BY <2>4, <4>2
        <5> QED
          BY <4>1, <5>1
      <4>3. CASE i # len + 1
        <5>1. i \in 1 .. len /\ g[i] = f[i]
          BY <2>4, <3>2, <4>3
        <5>2. f[o] < f[i]
          BY <2>1, <3>5, <4>1, <5>1 DEF Picked
        <5> QED
          BY <4>1, <5>1, <5>2
      <4> QED
        BY <4>2, <4>3
    <3>6. Picked(s, sigOf, n + 1, longer, g)
      <4> HIDE DEF g
      <4> QED
        BY <3>2, <3>3, <3>4, <3>5 DEF Picked
    <3> HIDE DEF g
    <3> QED
      BY <2>2, <2>6, <3>6 DEF longer
  <2> QED
    BY <2>5, <2>6
<1> HIDE DEF Good
<1>5. N \in Good
  BY <1>3, <1>4, Induction DEF N
<1> QED
  BY <1>1, <1>5 DEF Good, N

----------------------------------------------------------------------------
(* What is finalized can be spent *)

(* Satisfies, with the signatures that were made as a parameter.           *)
GoodSpend(spend, i, M) ==
  LET s == spend.script
      signers == [n \in DOMAIN spend.sigs |-> spend.sigs[n].by]
  IN
  /\ \A n \in DOMAIN spend.sigs :
       spend.sigs[n] \in M /\ spend.sigs[n].input = i /\ spend.sigs[n].for = s
  /\ IF s = "key_path" THEN signers = <<InternalKey[i]>>
     ELSE /\ Len(signers) = Threshold[s]
          /\ \E f \in [DOMAIN signers -> DOMAIN KeysOf[s]] :
               \A n \in DOMAIN signers :
                 /\ signers[n] = KeysOf[s][f[n]]
                 /\ \A o \in DOMAIN signers : o < n => f[o] < f[n]

(* A signature on record was made by the key that its record names, for    *)
(* that input and script.                                                  *)
Genuine(map, i, M) ==
  \A key \in DOMAIN map : IsSig(key) =>
    /\ map[key] \in M
    /\ map[key].input = i
    /\ key[1] = "PARTIAL_SIG" => map[key].by = key[2] /\ map[key].for = Script[i]
    /\ key[1] = "TAP_KEY_SIG" => map[key].by = InternalKey[i] /\ map[key].for = "key_path"
    /\ key[1] = "TAP_SCRIPT_SIG" => map[key].by = key[2] /\ map[key].for = key[3]

(* Either final script is one to spend the input with: two copies may have *)
(* been finalized in different ways before they are combined.              *)
Finals(map, i, M) ==
  \A key \in DOMAIN map : key \in FinalTypes => GoodSpend(map[key], i, M)

SpendInv ==
  /\ OneTransaction
  /\ made \subseteq Signatures
  /\ \A p \in Holders : \A i \in Inputs(p) :
       Genuine(copies[p][i], i, made) /\ Finals(copies[p][i], i, made)

(* As many signatures as the threshold, picked in the order of the keys,   *)
(* satisfy a script.                                                       *)
LEMMA SatisfyingIsGood ==
  ASSUME NEW s \in DOMAIN KeysOf, NEW sigOf, NEW i, NEW M,
         \A k \in ScriptKeys(s) : sigOf[k] # None =>
           sigOf[k] \in M /\ sigOf[k].input = i /\ sigOf[k].for = s /\ sigOf[k].by = k,
         NEW sigs \in Satisfying(s, sigOf)
  PROVE  GoodSpend([script |-> s, sigs |-> sigs], i, M)
<1> DEFINE all == InOrder(s, sigOf)
           T == Threshold[s]
           N == Len(KeysOf[s])
           V == {sigOf[KeysOf[s][n]] : n \in 1 .. N} \ {None}
<1>1. /\ N \in Nat /\ DOMAIN KeysOf[s] = 1 .. N
      /\ T \in Nat
      /\ s # "key_path"
      /\ \A n \in 1 .. N : KeysOf[s][n] \in ScriptKeys(s)
  <2>1. KeysOf[s] \in Seq(ScriptKeys(s)) /\ T \in Nat /\ s # "key_path"
    BY ScriptsAssumption
  <2> HIDE DEF T
  <2>2. N \in Nat /\ DOMAIN KeysOf[s] = 1 .. N
    BY <2>1, LenProperties
  <2> QED
    BY <2>1, <2>2 DEF ScriptKeys
<1>2. T <= Len(all) /\ sigs = SubSeq(all, 1, T)
  <2>1. Len(all) >= T \/ Len(all) < T
    <3>1. Len(all) \in Nat
      BY <1>1, InOrderPicks, LenProperties DEF Picked
    <3> QED
      BY <1>1, <3>1
  <2>2. sigs \in IF Len(all) < T THEN {} ELSE {SubSeq(all, 1, T)}
    BY Zenon DEF Satisfying
  <2> HIDE DEF all, T
  <2>3. ~(Len(all) < T) /\ sigs = SubSeq(all, 1, T)
    BY <2>2, Zenon
  <2> QED
    BY <2>1, <2>3
<1>3. PICK f : Picked(s, sigOf, N, all, f)
  BY <1>1, InOrderPicks
<1> HIDE DEF all, T, N, V
<1>4. /\ all \in Seq(V)
      /\ Len(all) \in Nat
      /\ f \in [1 .. Len(all) -> 1 .. N]
      /\ \A n \in 1 .. Len(all) : all[n] \in V /\ all[n] = sigOf[KeysOf[s][f[n]]]
      /\ \A n, o \in 1 .. Len(all) : o < n => f[o] < f[n]
  BY <1>3, LenProperties DEF Picked, V
<1>5. 1 .. T \subseteq 1 .. Len(all)
  BY <1>1, <1>2, <1>4
<1>6. /\ sigs \in Seq(V)
      /\ Len(sigs) = T
      /\ DOMAIN sigs = 1 .. T
      /\ \A n \in 1 .. T : sigs[n] = all[n]
  <2>1. \A n \in 1 .. T : all[n] \in V
    BY <1>4, <1>5
  <2>2. /\ sigs \in Seq(V)
        /\ Len(sigs) = IF 1 <= T THEN T - 1 + 1 ELSE 0
        /\ \A n \in 1 .. T - 1 + 1 : sigs[n] = all[1 + n - 1]
    BY <1>1, <1>2, <2>1, SubSeqProperties
  <2>3. Len(sigs) = T
    BY <1>1, <2>2
  <2> QED
    BY <1>1, <2>2, <2>3, LenProperties
<1>7. ASSUME NEW n \in 1 .. T
      PROVE  /\ sigs[n] \in M /\ sigs[n].input = i /\ sigs[n].for = s
             /\ f[n] \in 1 .. N
             /\ sigs[n].by = KeysOf[s][f[n]]
  <2>1. /\ sigs[n] = sigOf[KeysOf[s][f[n]]]
        /\ sigs[n] # None
        /\ f[n] \in 1 .. N
    BY <1>4, <1>5, <1>6 DEF V
  <2> QED
    BY <1>1, <2>1
<1> DEFINE signers == [n \in DOMAIN sigs |-> sigs[n].by]
           g == [n \in 1 .. T |-> f[n]]
<1>8. DOMAIN signers = 1 .. T /\ \A n \in 1 .. T : signers[n] = KeysOf[s][f[n]]
  BY <1>6, <1>7
<1>9. Len(signers) = T
  <2>1. signers \in [1 .. T -> {sigs[n].by : n \in 1 .. T}]
    BY <1>6
  <2> HIDE DEF signers
  <2>2. signers \in Seq({sigs[n].by : n \in 1 .. T})
    BY <1>1, <2>1, SeqDef
  <2>3. Len(signers) \in Nat /\ 1 .. Len(signers) = 1 .. T
    BY <1>8, <2>2, LenProperties
  <2> QED
    BY <1>1, <2>3
<1>10. /\ g \in [1 .. T -> 1 .. N]
       /\ \A n \in 1 .. T : /\ signers[n] = KeysOf[s][g[n]]
                            /\ \A o \in 1 .. T : o < n => g[o] < g[n]
  BY <1>4, <1>5, <1>7, <1>8
<1> HIDE DEF signers, g
<1>11. \E h \in [DOMAIN signers -> DOMAIN KeysOf[s]] :
         \A n \in DOMAIN signers :
           /\ signers[n] = KeysOf[s][h[n]]
           /\ \A o \in DOMAIN signers : o < n => h[o] < h[n]
  BY <1>1, <1>8, <1>10
<1> QED
  <2>1. PICK spend : spend = [script |-> s, sigs |-> sigs]
    OBVIOUS
  <2>2. spend.script = s /\ spend.sigs = sigs
    BY <2>1
  <2>3. [n \in DOMAIN spend.sigs |-> spend.sigs[n].by] = signers
    BY <2>2, Zenon DEF signers
  <2>4. \A n \in DOMAIN spend.sigs :
          spend.sigs[n] \in M /\ spend.sigs[n].input = i /\ spend.sigs[n].for = s
    BY <1>6, <1>7, <2>2, Zenon
  <2>5. Len(signers) = Threshold[s]
    BY <1>9, Zenon DEF T
  <2>6. GoodSpend(spend, i, M)
    BY <1>1, <1>11, <2>2, <2>3, <2>4, <2>5 DEF GoodSpend
  <2> QED
    BY <2>1, <2>6, Zenon

(* What the finalizer puts together from genuine signatures.               *)
LEMMA SpendsAreGood ==
  ASSUME NEW i \in UNION Transactions, NEW map, NEW M, Genuine(map, i, M),
         \A key \in DOMAIN map : IsSig(key) => map[key] # None,
         NEW spend \in Spends(map, i)
  PROVE  GoodSpend(spend, i, M)
<1>1. CASE Kind[i] # "p2tr"
  <2> DEFINE s == Script[i]
             sigOf == [k \in ScriptKeys(s) |-> Get(map, PartialSig(k))]
  <2>1. PICK sigs \in Satisfying(s, sigOf) : spend = [script |-> s, sigs |-> sigs]
    BY <1>1 DEF Spends
  <2>2. s \in DOMAIN KeysOf
    BY <1>1, ScriptsAssumption
  <2>3. ASSUME NEW k \in ScriptKeys(s), sigOf[k] # None
        PROVE  sigOf[k] \in M /\ sigOf[k].input = i /\ sigOf[k].for = s /\ sigOf[k].by = k
    <3>1. PartialSig(k) \in DOMAIN map /\ sigOf[k] = map[PartialSig(k)]
      BY <2>3 DEF Get
    <3>2. /\ IsSig(PartialSig(k))
          /\ PartialSig(k)[1] = "PARTIAL_SIG" /\ PartialSig(k)[2] = k
      BY DEF PartialSig, IsSig
    <3> QED
      BY <3>1, <3>2 DEF Genuine
  <2> HIDE DEF s, sigOf
  <2> QED
    BY <2>1, <2>2, <2>3, SatisfyingIsGood
<1>2. CASE Kind[i] = "p2tr" /\ Has(map, TapKeySig)
  <2> DEFINE sig == map[TapKeySig]
  <2>1. spend = [script |-> "key_path", sigs |-> <<sig>>]
    BY <1>2 DEF Spends
  <2>2. IsSig(TapKeySig) /\ TapKeySig[1] = "TAP_KEY_SIG"
    BY DEF TapKeySig, IsSig, K
  <2>3. sig \in M /\ sig.input = i /\ sig.for = "key_path" /\ sig.by = InternalKey[i]
    BY <1>2, <2>2 DEF Genuine, Has
  <2> HIDE DEF sig
  <2>4. [n \in DOMAIN <<sig>> |-> <<sig>>[n].by] = <<InternalKey[i]>>
    BY <2>3
  <2> QED
    BY <2>1, <2>3, <2>4 DEF GoodSpend
<1>3. CASE Kind[i] = "p2tr" /\ ~Has(map, TapKeySig)
  <2> DEFINE sigsOf(cb) == [k \in ScriptKeys(ProvenLeaf[i][cb]) |->
                              Get(map, TapScriptSig(k, ProvenLeaf[i][cb]))]
  <2>1. PICK cb \in DOMAIN ProvenLeaf[i] :
          \E sigs \in Satisfying(ProvenLeaf[i][cb], sigsOf(cb)) :
            spend = [script |-> ProvenLeaf[i][cb], sigs |-> sigs]
    BY <1>3 DEF Spends, LeafSpends
  <2> DEFINE s == ProvenLeaf[i][cb]
             sigOf == sigsOf(cb)
  <2>2. s \in DOMAIN KeysOf
    BY ScriptsAssumption
  <2>3. ASSUME NEW k \in ScriptKeys(s), sigOf[k] # None
        PROVE  sigOf[k] \in M /\ sigOf[k].input = i /\ sigOf[k].for = s /\ sigOf[k].by = k
    <3>1. TapScriptSig(k, s) \in DOMAIN map /\ sigOf[k] = map[TapScriptSig(k, s)]
      BY <2>3 DEF Get
    <3>2. /\ IsSig(TapScriptSig(k, s))
          /\ TapScriptSig(k, s)[1] = "TAP_SCRIPT_SIG"
          /\ TapScriptSig(k, s)[2] = k /\ TapScriptSig(k, s)[3] = s
      BY DEF TapScriptSig, IsSig
    <3> QED
      BY <3>1, <3>2 DEF Genuine
  <2>4. PICK sigs \in Satisfying(s, sigOf) : spend = [script |-> s, sigs |-> sigs]
    BY <2>1
  <2> HIDE DEF s, sigOf
  <2> QED
    BY <2>2, <2>3, <2>4, SatisfyingIsGood
<1> QED
  BY <1>1, <1>2, <1>3

LEMMA GoodSpendStays ==
  ASSUME NEW spend, NEW i, NEW M, NEW M2, M \subseteq M2, GoodSpend(spend, i, M)
  PROVE  GoodSpend(spend, i, M2)
BY DEF GoodSpend

LEMMA MapStays ==
  ASSUME NEW map, NEW i, NEW M, NEW M2, M \subseteq M2,
         Genuine(map, i, M), Finals(map, i, M)
  PROVE  Genuine(map, i, M2) /\ Finals(map, i, M2)
BY GoodSpendStays DEF Genuine, Finals

(* The new signatures are made, and of their input. *)
LEMMA SignedIsGenuine ==
  ASSUME NEW psbt, NEW i, NEW k, NEW o \in SignOutcomes(psbt, i, k), NEW M,
         \A key \in DOMAIN o.sigs : o.sigs[key] \in M,
         Genuine(psbt[i], i, M), Finals(psbt[i], i, M)
  PROVE  LET map == Over(o.sigs, psbt[i])
         IN  Genuine(map, i, M) /\ Finals(map, i, M)
<1> DEFINE map == Over(o.sigs, psbt[i])
<1>1. ASSUME NEW key \in DOMAIN map, key \notin DOMAIN o.sigs
      PROVE  key \in DOMAIN psbt[i] /\ map[key] = psbt[i][key]
  BY <1>1 DEF Over
<1>2. ASSUME NEW key \in DOMAIN o.sigs
      PROVE  /\ IsSig(key)
             /\ map[key] \in M /\ map[key].input = i
             /\ key[1] = "PARTIAL_SIG" =>
                  map[key].by = key[2] /\ map[key].for = Script[i]
             /\ key[1] = "TAP_KEY_SIG" =>
                  map[key].by = InternalKey[i] /\ map[key].for = "key_path"
             /\ key[1] = "TAP_SCRIPT_SIG" =>
                  map[key].by = key[2] /\ map[key].for = key[3]
  <2>1. IsSig(key) /\ map[key] = o.sigs[key]
    BY SigsAdded DEF Over
  <2>2. PICK h :
          \/ /\ key = TapKeySig
             /\ InternalKey[i] = k
             /\ o.sigs[key] = Signature(k, i, h, "key_path")
          \/ \E cb \in DOMAIN ProvenLeaf[i] :
               /\ key = TapScriptSig(k, ProvenLeaf[i][cb])
               /\ o.sigs[key] = Signature(k, i, h, ProvenLeaf[i][cb])
          \/ /\ key = PartialSig(k)
             /\ o.sigs[key] = Signature(k, i, h, Script[i])
    BY SigsAdded
  <2>3. \A w : LET sig == Signature(k, i, h, w)
               IN  sig.by = k /\ sig.input = i /\ sig.for = w
    BY DEF Signature
  <2> HIDE DEF map
  <2>4. CASE key = TapKeySig /\ InternalKey[i] = k
               /\ o.sigs[key] = Signature(k, i, h, "key_path")
    <3>1. key[1] = "TAP_KEY_SIG"
      BY <2>4 DEF TapKeySig, K
    <3> QED
      BY <2>1, <2>3, <2>4, <3>1
  <2>5. ASSUME NEW s, key = TapScriptSig(k, s), o.sigs[key] = Signature(k, i, h, s)
        PROVE  /\ key[1] = "TAP_SCRIPT_SIG" /\ key[2] = k /\ key[3] = s
               /\ map[key].by = k /\ map[key].input = i /\ map[key].for = s
    BY <2>1, <2>3, <2>5 DEF TapScriptSig
  <2>6. CASE key = PartialSig(k) /\ o.sigs[key] = Signature(k, i, h, Script[i])
    <3>1. key[1] = "PARTIAL_SIG" /\ key[2] = k
      BY <2>6 DEF PartialSig
    <3> QED
      BY <2>1, <2>3, <2>6, <3>1
  <2> QED
    BY <2>1, <2>2, <2>4, <2>5, <2>6
<1> HIDE DEF map
<1>3. Genuine(map, i, M)
  BY <1>1, <1>2 DEF Genuine
<1>4. Finals(map, i, M)
  BY <1>1, <1>2, SigIsNotFinal DEF Finals
<1> QED
  BY <1>3, <1>4 DEF map

(* Finalizing keeps no signature but those it needs. *)
LEMMA FinalMapIsGood ==
  ASSUME NEW i \in UNION Transactions, NEW map, NEW M,
         Genuine(map, i, M), Finals(map, i, M), M \subseteq Signatures,
         NEW fin \in FinalMaps(map, i)
  PROVE  Genuine(fin, i, M) /\ Finals(fin, i, M)
<1>1. CASE fin = map
  BY <1>1
<1>2. CASE \E spend \in Spends(map, i) : fin = Finalized(map, i, spend)
  <2>1. PICK spend \in Spends(map, i) : fin = Finalized(map, i, spend)
    BY <1>2
  <2>2. \A key \in DOMAIN map : IsSig(key) => map[key] # None
    BY NoneAssumption DEF Genuine
  <2>3. GoodSpend(spend, i, M)
    BY <2>2, SpendsAreGood
  <2>4. ASSUME NEW key \in DOMAIN fin
        PROVE  /\ ~IsSig(key)
               /\ key \in FinalTypes => fin[key] = spend
    <3>1. \/ key \in FinalKeys(i) /\ fin[key] = spend
          \/ key \in {NonWitnessUtxo, WitnessUtxo}
      BY <2>1 DEF Finalized
    <3>2. CASE key \in FinalKeys(i)
      BY <3>1, <3>2, <2>1, FinalKeysAre, SigIsNotFinal DEF Finalized
    <3>3. CASE key \in {NonWitnessUtxo, WitnessUtxo}
      BY <3>3 DEF NonWitnessUtxo, WitnessUtxo, K, IsSig, FinalTypes,
                  FinalScriptSig, FinalWitness
    <3> QED
      BY <3>1, <3>2, <3>3
  <2> QED
    BY <2>3, <2>4 DEF Genuine, Finals
<1> QED
  BY <1>1, <1>2, FinalMapIs

LEMMA SpendInvStep ==
  ASSUME OnlyUpdates, SpendInv, [Next]_vars
  PROVE  SpendInv'
<1>1. OneTransaction' /\ Stepped /\ made \subseteq made'
  BY NextStep DEF SpendInv
<1>2. made' \subseteq Signatures
  <2>1. ASSUME NEW p \in Party, NEW k \in SignersOf[p], NEW i \in UNION Transactions,
               NEW psbt, NEW o \in SignOutcomes(psbt, i, k), NEW key \in DOMAIN o.sigs
        PROVE  o.sigs[key] \in Signatures
    <3>1. \A h \in HashTypes(i) : h \in 0 .. 255
      BY DEF HashTypes
    <3>2. \A h \in 0 .. 255 : \A w \in DOMAIN KeysOf \cup {"key_path"} :
            Signature(k, i, h, w) \in Signatures
      BY DEF Signature, Signatures
    <3>3. PICK h \in HashTypes(i) :
            \/ o.sigs[key] = Signature(k, i, h, "key_path")
            \/ \E cb \in DOMAIN ProvenLeaf[i] :
                 o.sigs[key] = Signature(k, i, h, ProvenLeaf[i][cb])
            \/ Kind[i] # "p2tr" /\ o.sigs[key] = Signature(k, i, h, Script[i])
      BY SigsAdded
    <3>4. /\ \A cb \in DOMAIN ProvenLeaf[i] : ProvenLeaf[i][cb] \in DOMAIN KeysOf
          /\ Kind[i] # "p2tr" => Script[i] \in DOMAIN KeysOf
      BY ScriptsAssumption
    <3> QED
      BY <3>1, <3>2, <3>3, <3>4
  <2>2. ASSUME NEW p \in Party, NEW k \in SignersOf[p], Sign(p, k)
        PROVE  made' \subseteq Signatures
    <3>1. PICK o :
            /\ \A i \in Inputs(p) : o[i] \in SignOutcomes(copies[p], i, k)
            /\ made' = made \cup UNION {{o[i].sigs[key] : key \in DOMAIN o[i].sigs} :
                                         i \in Inputs(p)}
      BY <2>2 DEF Sign
    <3>2. Inputs(p) \in Transactions
      BY <2>2 DEF Sign, SpendInv, OneTransaction, Holders
    <3> QED
      BY <2>1, <3>1, <3>2 DEF SpendInv
  <2>3. ASSUME NEW p \in Party, NEW k \in SignersOf[p], NEW i \in Inputs(p),
               SignInput(p, k, i)
        PROVE  made' \subseteq Signatures
    <3>1. PICK o \in SignOutcomes(copies[p], i, k) :
            made' = made \cup {o.sigs[key] : key \in DOMAIN o.sigs}
      BY <2>3 DEF SignInput
    <3>2. Inputs(p) \in Transactions
      BY <2>3 DEF SignInput, SpendInv, OneTransaction, Holders
    <3> QED
      BY <2>1, <3>1, <3>2 DEF SpendInv
  <2> QED
    BY <2>2, <2>3 DEF SpendInv, Next, Create, Send, Update, Combine, Finalize, Extract, vars
<1>3. \A p \in Holders : \A i \in Inputs(p) :
        /\ i \in UNION Transactions
        /\ Genuine(copies[p][i], i, made') /\ Finals(copies[p][i], i, made')
  BY <1>1, MapStays DEF SpendInv, OneTransaction
<1>4. ASSUME NEW p \in Holders, NEW i \in Inputs(p)
      PROVE  Genuine(copies'[p][i], i, made') /\ Finals(copies'[p][i], i, made')
  <2> DEFINE Good(map) == Genuine(map, i, made') /\ Finals(map, i, made')
  <2>1. PICK map : map = copies'[p][i] /\ Becomes(p, i, map)
    BY <1>1 DEF Stepped
  <2>2. Good(copies[p][i])
    BY <1>3
  <2>3. ASSUME NEW r \in Records, map = Set(copies[p][i], r[3], r[4])
        PROVE  Good(map)
    <3>1. \A key \in DOMAIN map :
            \/ key = r[3]
            \/ key \in DOMAIN copies[p][i] /\ map[key] = copies[p][i][key]
      BY <2>3 DEF Set, Over
    <3>2. ~IsSig(r[3]) /\ r[3] \notin FinalTypes
      BY DEF OnlyUpdates
    <3> QED
      BY <2>2, <3>1, <3>2 DEF Genuine, Finals
  <2>4. ASSUME NEW q \in Holders, i \in Inputs(q),
               map = Over(copies[p][i], copies[q][i])
        PROVE  Good(map)
    <3>1. Good(copies[q][i])
      BY <1>3, <2>4
    <3>2. \A key \in DOMAIN map :
            \/ key \in DOMAIN copies[p][i] /\ map[key] = copies[p][i][key]
            \/ key \in DOMAIN copies[q][i] /\ map[key] = copies[q][i][key]
      BY <2>4 DEF Over
    <3> QED
      BY <2>2, <3>1, <3>2 DEF Genuine, Finals
  <2>5. ASSUME NEW k, NEW o \in SignOutcomes(copies[p], i, k),
               map = Over(o.sigs, copies[p][i]),
               \A key \in DOMAIN o.sigs : o.sigs[key] \in made'
        PROVE  Good(map)
    BY <2>2, <2>5, SignedIsGenuine
  <2>6. ASSUME map \in FinalMaps(copies[p][i], i)
        PROVE  Good(map)
    BY <1>2, <1>3, <2>2, <2>6, FinalMapIsGood
  <2> QED
    BY <2>1, <2>2, <2>3, <2>4, <2>5, <2>6 DEF Becomes
<1>5. ASSUME NEW p \in Holders', NEW i \in Inputs(p)', p \notin Holders
      PROVE  Genuine(copies'[p][i], i, made') /\ Finals(copies'[p][i], i, made')
  <2>1. CASE copies'[p][i] = <<>>
    BY <2>1 DEF Genuine, Finals
  <2> QED
    BY <1>3, <1>5, <2>1, NewHolder DEF SpendInv
<1>6. \A p \in Holders : Inputs(p)' = Inputs(p) \/ p \notin Holders'
  BY <1>1 DEF Stepped, Inputs, Holders
<1> QED
  BY <1>1, <1>2, <1>4, <1>5, <1>6 DEF SpendInv

LEMMA SpendInvariant ==
  ASSUME OnlyUpdates
  PROVE  Spec => []SpendInv
<1>1. Init => SpendInv
  BY DEF Init, SpendInv, OneTransaction, Holders, Holds
<1> QED
  BY <1>1, SpendInvStep, PTL DEF Spec

(* Whoever signed what, in which order and on which copies, an input that  *)
(* counts as final has what its script asks for: FinalIsSpendable of any   *)
(* parties, inputs, keys and scripts.                                      *)
THEOREM FinalIsSpendableAlways ==
  ASSUME OnlyUpdates
  PROVE  Spec => []FinalIsSpendable
<1>1. SpendInv => FinalIsSpendable
  <2> SUFFICES ASSUME SpendInv, NEW p \in Holders, NEW i \in Inputs(p),
                      IsFinalized(copies[p][i])
               PROVE  Satisfies(SpendOf(copies[p][i]), i)
    BY DEF FinalIsSpendable
  <2>1. PICK key \in FinalTypes : /\ key \in DOMAIN copies[p][i]
                                 /\ SpendOf(copies[p][i]) = copies[p][i][key]
    BY DEF IsFinalized, SpendOf, Has, FinalTypes
  <2>2. GoodSpend(SpendOf(copies[p][i]), i, made)
    BY <2>1 DEF SpendInv, Finals
  <2> QED
    BY <2>2 DEF GoodSpend, Satisfies
<1> QED
  BY <1>1, SpendInvariant, PTL

----------------------------------------------------------------------------
(* Signing again covers the rest *)

(* A key that can sign leaves signs all that it has not signed yet, or as  *)
(* many as there is room for.                                              *)
LEMMA LeavesAreSigned ==
  ASSUME NEW psbt, NEW i, NEW k, NEW o \in TaprootOutcomes(psbt, i, k),
         IsFiniteSet(LeavesToSign(psbt[i], i, k)), "leaf" \notin Cannot[k],
         o.error \in Skippable \cup {None},
         \A j \in DOMAIN psbt : UtxoError(psbt[j]) = None
  PROVE  \E L \in SUBSET LeavesToSign(psbt[i], i, k) :
           /\ \A cb \in L : TapScriptSig(k, ProvenLeaf[i][cb]) \in DOMAIN o.sigs
           /\ L = LeavesToSign(psbt[i], i, k) \/ Cardinality(L) >= MaxLeafSigs
<1> DEFINE map == psbt[i]
           h   == HashType(map, i)
           keyPath == HasKeyPath(map, i, k)
           keySig  == keyPath /\ "key_path" \notin Cannot[k]
           left    == SetSize - (IF keySig THEN 1 ELSE 0)
           toSign  == LeavesToSign(map, i, k)
           number  == IF Cardinality(toSign) < left THEN Cardinality(toSign) ELSE left
           leaves(L) == [x \in {TapScriptSig(k, ProvenLeaf[i][cb]) : cb \in L} |->
                           Signature(k, i, h, x[3])]
           path == [x \in (IF keySig THEN {TapKeySig} ELSE {}) |->
                      Signature(k, i, h, "key_path")]
<1>1. /\ o \notin Failed("UnsupportedSighash")
      /\ o \notin Failed("Signer")
  BY NoneAssumption DEF Failed, Skippable, Errors
<1>2. \/ toSign = {}
      \/ \E L \in SUBSET toSign : \E n :
           /\ Cardinality(L) = number
           /\ o \in Signed(Over(leaves(L), path), n)
  <2> DEFINE leafOk == "leaf" \notin Cannot[k]
             all == IF ~leafOk THEN 0 ELSE number
             count == all + (IF keySig THEN 1 ELSE 0)
  <2>1. all = number
    OBVIOUS
  <2>2. \/ toSign = {}
        \/ o \in UNION {Signed(Over(leaves(L), path), count) :
                        L \in {S \in SUBSET toSign : Cardinality(S) = all}}
    BY <1>1, Zenon DEF TaprootOutcomes
  <2> HIDE DEF leaves, path, toSign, number, all, count
  <2> QED
    BY <2>1, <2>2
<1>3. CASE toSign = {}
  <2> WITNESS {} \in SUBSET LeavesToSign(psbt[i], i, k)
  <2> QED
    BY <1>3
<1>4. CASE toSign # {}
  <2> HIDE DEF leaves, path, toSign, number
  <2>1. PICK L \in SUBSET toSign : /\ Cardinality(L) = number
                                  /\ o.sigs = Over(leaves(L), path)
    <3>1. \A sigs, n : o \in Signed(sigs, n) => o.sigs = sigs
      BY DEF Signed
    <3> QED
      BY <1>2, <1>4, <3>1
  <2>2. \A cb \in L : TapScriptSig(k, ProvenLeaf[i][cb]) \in DOMAIN o.sigs
    BY <2>1 DEF Over, leaves
  <2>3. MaxLeafSigs \in Nat /\ left \in Nat /\ left >= MaxLeafSigs
    BY ScriptsAssumption DEF SetSize
  <2>4. L = toSign \/ Cardinality(L) >= MaxLeafSigs
    <3>1. CASE Cardinality(toSign) < left
      <4>1. Cardinality(L) = Cardinality(toSign)
        BY <2>1, <3>1 DEF number
      <4> QED
        BY <4>1, FS_Subset DEF toSign
    <3>2. CASE ~(Cardinality(toSign) < left)
      BY <2>1, <2>3, <3>2 DEF number
    <3> QED
      BY <3>1, <3>2
  <2> QED
    BY <2>1, <2>2, <2>4 DEF toSign
<1> QED
  BY <1>3, <1>4

(* A call that succeeds leaves no leaf of the key without its signature,   *)
(* or gets MAX_LEAF_SIGS further: SigningCovers of any parties and inputs. *)
THEOREM SigningCoversAlways ==
  ASSUME OnlyUpdates
  PROVE  Spec => SigningCovers
<1>1. ASSUME SpendInv, SpendInv', NEW p \in Holders, NEW k \in SignersOf[p],
             result' = None, "leaf" \notin Cannot[k], Sign(p, k), NEW i \in Inputs(p),
             ~IsFinalized(copies[p][i]), ResolveError(copies[p][i], i) = None,
             \A j \in Inputs(p) : UtxoError(copies[p][j]) = None
      PROVE  LET before == Uncovered(copies[p][i], i, k)
                 after  == Uncovered(copies'[p][i], i, k)
             IN  after = {} \/ Cardinality(before \ after) >= MaxLeafSigs
  <2> DEFINE psbt == copies[p]
             before == Uncovered(copies[p][i], i, k)
             after  == Uncovered(copies'[p][i], i, k)
             toSign == LeavesToSign(psbt[i], i, k)
  <2>1. i \in UNION Transactions /\ DOMAIN psbt = Inputs(p)
    BY <1>1 DEF SpendInv, OneTransaction, Inputs, Holders
  <2>2. PICK o :
          /\ \A j \in Inputs(p) : o[j] \in SignOutcomes(psbt, j, k)
          /\ {o[j].error : j \in Inputs(p)} \subseteq Skippable \cup {None}
          /\ copies' = [copies EXCEPT ![p] = [j \in Inputs(p) |-> Over(o[j].sigs, psbt[j])]]
          /\ \A key \in DOMAIN o[i].sigs : o[i].sigs[key] \in made'
    <3>1. PICK o :
            LET errors == {o[j].error : j \in Inputs(p)} \ (Skippable \cup {None}) IN
            /\ \A j \in Inputs(p) : o[j] \in SignOutcomes(psbt, j, k)
            /\ made' = made \cup UNION {{o[j].sigs[key] : key \in DOMAIN o[j].sigs} :
                                          j \in Inputs(p)}
            /\ IF errors # {} THEN \E e \in errors : Fail(e)
               ELSE IF \E j \in Inputs(p) : HasDuplicate(o[j])
                 THEN Fail("DuplicateKey")
               ELSE Write(p, [j \in Inputs(p) |-> Over(o[j].sigs, psbt[j])])
      BY <1>1 DEF Sign
    <3>2. ~Fail("DuplicateKey")
      BY <1>1, NoneAssumption DEF Fail, Errors
    <3>3. \A e : e # None => ~Fail(e)
      BY <1>1 DEF Fail
    <3> QED
      BY <3>1, <3>2, <3>3 DEF Write
  <2>3. copies'[p][i] = Over(o[i].sigs, psbt[i])
    BY <1>1, <2>2 DEF SpendInv, OneTransaction, Holders
  <2> DEFINE sigs == o[i].sigs
  <2>4. \A key \in DOMAIN sigs : IsSig(key) /\ sigs[key] # None
    BY <1>1, <2>2, SigsAdded, NoneAssumption DEF SpendInv
  <2>5. ASSUME NEW cb \in after
        PROVE  cb \in toSign /\ TapScriptSig(k, ProvenLeaf[i][cb]) \notin DOMAIN sigs
    <3> DEFINE key == TapScriptSig(k, ProvenLeaf[i][cb])
    <3>1. /\ Has(Over(sigs, psbt[i]), TapLeafScript(cb))
          /\ k \in ScriptKeys(ProvenLeaf[i][cb])
          /\ Get(Over(sigs, psbt[i]), key) = None
          /\ cb \in DOMAIN ProvenLeaf[i]
      BY <2>3, <2>5 DEF Uncovered, ScriptKeys
    <3>2. ~IsSig(TapLeafScript(cb)) /\ IsSig(key)
      BY DEF TapLeafScript, TapScriptSig, IsSig
    <3>3. Has(psbt[i], TapLeafScript(cb))
      BY <2>4, <3>1, <3>2 DEF Has, Over
    <3> HIDE DEF key, sigs
    <3>4. key \notin DOMAIN sigs
      BY <2>4, <3>1 DEF Get, Over
    <3>5. key \notin DOMAIN psbt[i]
      <4>1. key \in DOMAIN psbt[i] => psbt[i][key] \in Signatures
        BY <1>1, <3>2 DEF SpendInv, Genuine
      <4> QED
        BY <3>1, <3>4, <4>1, NoneAssumption DEF Get, Over
    <3> QED
      BY <3>1, <3>3, <3>4, <3>5 DEF LeavesToSign, Has, key
  <2>6. toSign \subseteq before
    BY DEF LeavesToSign, Uncovered, ScriptKeys, Get, Has
  <2>7. IsFiniteSet(before)
    BY <2>1, ScriptsAssumption, FS_Subset DEF Uncovered
  <2>8. CASE Kind[i] # "p2tr"
    BY <2>1, <2>8, ScriptsAssumption DEF Uncovered
  <2>9. CASE Kind[i] = "p2tr"
    <3>1. o[i] \in TaprootOutcomes(psbt, i, k)
      BY <1>1, <2>2, <2>9 DEF SignOutcomes
    <3>2. o[i].error \in Skippable \cup {None}
      BY <2>2
    <3>3. IsFiniteSet(toSign)
      BY <2>6, <2>7, FS_Subset
    <3>4. PICK L \in SUBSET toSign :
            /\ \A cb \in L : TapScriptSig(k, ProvenLeaf[i][cb]) \in DOMAIN sigs
            /\ L = toSign \/ Cardinality(L) >= MaxLeafSigs
      BY <1>1, <2>1, <3>1, <3>2, <3>3, LeavesAreSigned
    <3> HIDE DEF before, after, toSign, sigs
    <3>5. CASE L = toSign
      BY <2>5, <3>4, <3>5 DEF before, after
    <3>6. CASE Cardinality(L) >= MaxLeafSigs
      <4>1. L \subseteq before \ after
        BY <2>5, <2>6, <3>4
      <4>2. IsFiniteSet(before \ after)
        BY <2>7, FS_Difference
      <4>3. /\ Cardinality(L) <= Cardinality(before \ after)
            /\ Cardinality(L) \in Nat /\ Cardinality(before \ after) \in Nat
        BY <4>1, <4>2, FS_Subset, FS_CardinalityType
      <4>4. Cardinality(before \ after) >= MaxLeafSigs
        BY <3>6, <4>3, ScriptsAssumption
      <4> QED
        BY <4>4 DEF before, after
    <3> QED
      BY <3>4, <3>5, <3>6
  <2> QED
    BY <2>8, <2>9
<1>2. SpendInv /\ SpendInv' /\ [Next]_vars =>
        [\A p \in Holders : \A k \in SignersOf[p] :
           (result' = None /\ "leaf" \notin Cannot[k] /\ Sign(p, k)) =>
             \A i \in Inputs(p) :
               LET before == Uncovered(copies[p][i], i, k)
                   after  == Uncovered(copies'[p][i], i, k)
               IN  \/ IsFinalized(copies[p][i])
                   \/ ResolveError(copies[p][i], i) # None
                   \/ \E j \in Inputs(p) : UtxoError(copies[p][j]) # None
                   \/ after = {}
                   \/ Cardinality(before \ after) >= MaxLeafSigs]_vars
  BY <1>1
<1> QED
  BY <1>2, SpendInvariant, PTL DEF Spec, SigningCovers

----------------------------------------------------------------------------
(* The room for signatures *)

AnyOf(s) == CHOOSE x \in s : TRUE
Less(s) == s \ {AnyOf(s)}

SizesOver(D, sums) ==
  sums = [s \in D |-> IF s = {} THEN 0 ELSE RecordSize(AnyOf(s)) + sums[Less(s)]]

LEMMA SizesDef ==
  ASSUME NEW S
  PROVE  MapThenSumSet(RecordSize, S) =
           (CHOOSE sums : SizesOver(SUBSET S, sums))[S]
BY DEF MapThenSumSet, MapThenFoldSet, SizesOver, AnyOf, Less

LEMMA LessIsLess ==
  ASSUME NEW S, IsFiniteSet(S), NEW s \in SUBSET S, s # {}
  PROVE  /\ AnyOf(s) \in s
         /\ Less(s) \in SUBSET S
         /\ Cardinality(s) \in Nat \ {0}
         /\ Cardinality(Less(s)) = Cardinality(s) - 1
<1>1. AnyOf(s) \in s
  BY DEF AnyOf
<1>2. IsFiniteSet(s)
  BY FS_Subset
<1> QED
  BY <1>1, <1>2, FS_RemoveElement, FS_CardinalityType, FS_EmptySet DEF Less

LEMMA SizesExist ==
  ASSUME NEW S, IsFiniteSet(S)
  PROVE  \E sums : SizesOver(SUBSET S, sums)
<1> DEFINE Upto(n) == {s \in SUBSET S : Cardinality(s) <= n}
           Good == {n \in Nat : \E sums : SizesOver(Upto(n), sums)}
<1>1. 0 \in Good
  <2> DEFINE h == [s \in Upto(0) |-> 0]
  <2>1. \A s \in Upto(0) : s = {}
    BY LessIsLess
  <2>2. SizesOver(Upto(0), h)
    BY <2>1 DEF SizesOver
  <2> QED
    BY <2>2
<1>2. ASSUME NEW n \in Nat, n \in Good
      PROVE  n + 1 \in Good
  <2>1. PICK h : SizesOver(Upto(n), h)
    BY <1>2
  <2> DEFINE h2 == [s \in Upto(n + 1) |->
                      IF s = {} THEN 0 ELSE RecordSize(AnyOf(s)) + h[Less(s)]]
  <2>2. ASSUME NEW s \in Upto(n + 1), s # {}
        PROVE  Less(s) \in Upto(n) /\ Less(s) \in Upto(n + 1)
    BY <2>2, LessIsLess
  <2>3. ASSUME NEW s \in Upto(n + 1), s # {}
        PROVE  h[Less(s)] = h2[Less(s)]
    BY <2>1, <2>2, <2>3 DEF SizesOver
  <2>4. SizesOver(Upto(n + 1), h2)
    BY <2>3 DEF SizesOver
  <2>5. \E sums : SizesOver(Upto(n + 1), sums)
    <3> HIDE DEF h2
    <3> QED
      BY <2>4
  <2> QED
    BY <2>5
<1>3. Cardinality(S) \in Good
  <2> HIDE DEF Good
  <2> QED
    BY <1>1, <1>2, Induction, FS_CardinalityType
<1>4. Upto(Cardinality(S)) = SUBSET S
  BY FS_Subset
<1> QED
  BY <1>3, <1>4

LEMMA SizesRule ==
  ASSUME NEW S, IsFiniteSet(S)
  PROVE  \E sums :
           /\ MapThenSumSet(RecordSize, S) = sums[S]
           /\ sums[{}] = 0
           /\ \A s \in SUBSET S :
                s # {} => sums[s] = RecordSize(AnyOf(s)) + sums[Less(s)]
<1> DEFINE sums == CHOOSE sums : SizesOver(SUBSET S, sums)
<1>1. SizesOver(SUBSET S, sums)
  BY SizesExist
<1>2. MapThenSumSet(RecordSize, S) = sums[S]
  BY SizesDef
<1> HIDE DEF sums
<1>3. \A s \in SUBSET S :
        sums[s] = IF s = {} THEN 0 ELSE RecordSize(AnyOf(s)) + sums[Less(s)]
  BY <1>1 DEF SizesOver
<1> QED
  BY <1>2, <1>3

LEMMA SizesAreInt ==
  ASSUME NEW S, IsFiniteSet(S)
  PROVE  MapThenSumSet(RecordSize, S) \in Int
<1>1. PICK sums : /\ MapThenSumSet(RecordSize, S) = sums[S]
                  /\ sums[{}] = 0
                  /\ \A s \in SUBSET S :
                       s # {} => sums[s] = RecordSize(AnyOf(s)) + sums[Less(s)]
  BY SizesRule
<1> DEFINE Good == {n \in Nat : \A s \in SUBSET S :
                      Cardinality(s) <= n => sums[s] \in Int}
<1>2. 0 \in Good
  BY <1>1, LessIsLess
<1>3. ASSUME NEW n \in Nat, n \in Good
      PROVE  n + 1 \in Good
  <2> SUFFICES ASSUME NEW s \in SUBSET S, Cardinality(s) <= n + 1
               PROVE  sums[s] \in Int
    OBVIOUS
  <2>1. CASE s # {}
    <3>1. Less(s) \in SUBSET S /\ Cardinality(Less(s)) <= n
      BY <2>1, LessIsLess
    <3>2. sums[Less(s)] \in Int
      BY <1>3, <3>1
    <3>3. RecordSize(AnyOf(s)) \in Int
      BY DEF RecordSize
    <3>4. sums[s] = RecordSize(AnyOf(s)) + sums[Less(s)]
      BY <1>1, <2>1
    <3> QED
      BY <3>2, <3>3, <3>4
  <2> QED
    BY <1>1, <2>1
<1>4. Cardinality(S) \in Good
  <2> HIDE DEF Good
  <2> QED
    BY <1>2, <1>3, Induction, FS_CardinalityType
<1> QED
  BY <1>1, <1>4, FS_CardinalityType

(* One signature of a non-taproot input. *)
LEMMA OneSize ==
  ASSUME NEW k, NEW S, S \subseteq {PartialSig(k)}
  PROVE  MapThenSumSet(RecordSize, S) <= 141
<1>1. IsFiniteSet(S)
  BY FS_Singleton, FS_Subset
<1>2. PICK sums : /\ MapThenSumSet(RecordSize, S) = sums[S]
                  /\ sums[{}] = 0
                  /\ \A s \in SUBSET S :
                       s # {} => sums[s] = RecordSize(AnyOf(s)) + sums[Less(s)]
  BY <1>1, SizesRule
<1>3. CASE S = {}
  BY <1>2, <1>3
<1>4. CASE S = {PartialSig(k)}
  <2>1. AnyOf(S) = PartialSig(k) /\ Less(S) = {}
    BY <1>4 DEF AnyOf, Less
  <2>2. RecordSize(PartialSig(k)) = 141
    BY DEF RecordSize, PartialSig
  <2>3. S # {} => sums[S] = RecordSize(AnyOf(S)) + sums[Less(S)]
    BY <1>2
  <2>4. sums[S] = 141
    <3>1. S # {} /\ sums[{}] = 0
      BY <1>2, <1>4
    <3> QED
      BY <2>1, <2>2, <2>3, <3>1
  <2> QED
    BY <1>2, <2>4
<1> QED
  BY <1>3, <1>4

(* The signatures of a taproot input: of its output key, and of leaves.    *)
LEMMA TaprootSize ==
  ASSUME NEW S, IsFiniteSet(S),
         \A key \in S : key = TapKeySig \/ key[1] = "TAP_SCRIPT_SIG"
  PROVE  MapThenSumSet(RecordSize, S) <=
           132 * Cardinality(S \ {TapKeySig}) + (IF TapKeySig \in S THEN 68 ELSE 0)
<1> DEFINE Bound(s) ==
             132 * Cardinality(s \ {TapKeySig}) + (IF TapKeySig \in s THEN 68 ELSE 0)
<1>1. PICK sums : /\ MapThenSumSet(RecordSize, S) = sums[S]
                  /\ sums[{}] = 0
                  /\ \A s \in SUBSET S :
                       s # {} => sums[s] = RecordSize(AnyOf(s)) + sums[Less(s)]
  BY SizesRule
<1>5. sums[{}] = 0
  BY <1>1
<1>6. ASSUME NEW s \in SUBSET S, s # {}
      PROVE  sums[s] = RecordSize(AnyOf(s)) + sums[Less(s)]
  BY <1>1, <1>6
<1> DEFINE Good == {n \in Nat : \A s \in SUBSET S : Cardinality(s) <= n =>
                      sums[s] \in Nat /\ sums[s] <= Bound(s)}
<1>2. 0 \in Good
  <2>1. \A s \in SUBSET S : Cardinality(s) <= 0 => s = {}
    BY LessIsLess
  <2>2. Bound({}) = 0
    BY FS_EmptySet
  <2> HIDE DEF Bound
  <2> QED
    BY <1>5, <2>1, <2>2
<1>3. ASSUME NEW n \in Nat, n \in Good
      PROVE  n + 1 \in Good
  <2> SUFFICES ASSUME NEW s \in SUBSET S, Cardinality(s) <= n + 1
               PROVE  sums[s] \in Nat /\ sums[s] <= Bound(s)
    OBVIOUS
  <2>1. CASE s = {}
    BY <1>2, <2>1, FS_EmptySet
  <2>2. CASE s # {}
    <3> DEFINE x == AnyOf(s)
    <3>1. /\ x \in s
          /\ Less(s) \in SUBSET S
          /\ Cardinality(Less(s)) <= n
      BY <2>2, LessIsLess
    <3>2. sums[Less(s)] \in Nat /\ sums[Less(s)] <= Bound(Less(s))
      BY <1>3, <3>1
    <3>3. sums[s] = RecordSize(x) + sums[Less(s)]
      BY <1>6, <2>2
    <3>4. /\ IsFiniteSet(s \ {TapKeySig})
          /\ Cardinality(s \ {TapKeySig}) \in Nat
      BY FS_Subset, FS_CardinalityType
    <3>5. CASE x = TapKeySig
      <4>1. RecordSize(x) = 68
        BY <3>5 DEF RecordSize, TapKeySig, K
      <4>2. Less(s) \ {TapKeySig} = s \ {TapKeySig} /\ TapKeySig \notin Less(s)
        BY <3>5 DEF Less
      <4>3. Bound(s) = Bound(Less(s)) + 68 /\ Bound(Less(s)) \in Int
        BY <3>1, <3>4, <3>5, <4>2
      <4>4. Bound(s) \in Int
        BY <4>3
      <4> HIDE DEF x, Bound
      <4> QED
        BY <3>2, <3>3, <4>1, <4>3, <4>4
    <3>6. CASE x # TapKeySig
      <4>1. RecordSize(x) = 132
        <5>1. x[1] = "TAP_SCRIPT_SIG"
          BY <3>1, <3>6
        <5> QED
          BY <5>1 DEF RecordSize
      <4>2. /\ Less(s) \ {TapKeySig} = (s \ {TapKeySig}) \ {x}
            /\ TapKeySig \in Less(s) <=> TapKeySig \in s
        BY <3>6 DEF Less
      <4>3. Cardinality((s \ {TapKeySig}) \ {x}) = Cardinality(s \ {TapKeySig}) - 1
        BY <3>1, <3>4, <3>6, FS_RemoveElement
      <4> DEFINE c == Cardinality(s \ {TapKeySig})
                 t == IF TapKeySig \in s THEN 68 ELSE 0
      <4>4. Bound(s) = 132 * c + t
        OBVIOUS
      <4>5. Bound(Less(s)) = 132 * (c - 1) + t
        BY <4>2, <4>3
      <4>6. c \in Nat /\ t \in Nat
        BY <3>4
      <4> HIDE DEF x, Bound, c, t
      <4>7. Bound(s) = Bound(Less(s)) + 132 /\ Bound(Less(s)) \in Int
        BY <4>4, <4>5, <4>6
      <4> QED
        BY <3>2, <3>3, <4>1, <4>7
    <3> QED
      BY <3>5, <3>6
  <2> QED
    BY <2>1, <2>2
<1>4. Cardinality(S) \in Good
  <2> HIDE DEF Good
  <2> QED
    BY <1>2, <1>3, Induction, FS_CardinalityType
<1> QED
  BY <1>1, <1>4, FS_CardinalityType

(* How many leaves are signed: no more than there are, nor than fit.       *)
LEMMA LeavesFit ==
  ASSUME NEW psbt, NEW i, NEW k, NEW o \in TaprootOutcomes(psbt, i, k),
         IsFiniteSet(LeavesToSign(psbt[i], i, k))
  PROVE  \E L \in SUBSET LeavesToSign(psbt[i], i, k) :
           /\ \A key \in DOMAIN o.sigs :
                \/ key = TapKeySig
                \/ \E cb \in L : key = TapScriptSig(k, ProvenLeaf[i][cb])
           /\ Cardinality(L) <= MaxLeafSigs + (IF TapKeySig \in DOMAIN o.sigs THEN 0 ELSE 1)
<1> DEFINE map == psbt[i]
           h   == HashType(map, i)
           keyPath == HasKeyPath(map, i, k)
           keySig  == keyPath /\ "key_path" \notin Cannot[k]
           left    == SetSize - (IF keySig THEN 1 ELSE 0)
           toSign  == LeavesToSign(map, i, k)
           leafOk == "leaf" \notin Cannot[k]
           number == IF ~leafOk THEN 0
                     ELSE IF Cardinality(toSign) < left THEN Cardinality(toSign)
                     ELSE left
           count == number + (IF keySig THEN 1 ELSE 0)
           leaves(L) == [x \in {TapScriptSig(k, ProvenLeaf[i][cb]) : cb \in L} |->
                           Signature(k, i, h, x[3])]
           path == [x \in (IF keySig THEN {TapKeySig} ELSE {}) |->
                      Signature(k, i, h, "key_path")]
<1>1. \/ \E e : o \in Failed(e)
      \/ o \in UNION {Signed(Over(leaves(L), path), count) :
                      L \in {S \in SUBSET toSign : Cardinality(S) = number}}
  BY Zenon DEF TaprootOutcomes, Nothing
<1>2. CASE \E e : o \in Failed(e)
  <2>1. o.sigs = <<>>
    BY <1>2 DEF Failed
  <2> WITNESS {} \in SUBSET LeavesToSign(psbt[i], i, k)
  <2> QED
    BY <2>1, FS_EmptySet, ScriptsAssumption
<1>3. CASE o \in UNION {Signed(Over(leaves(L), path), count) :
                        L \in {S \in SUBSET toSign : Cardinality(S) = number}}
  <2>1. PICK L \in SUBSET toSign : Cardinality(L) = number
                                  /\ o.sigs = Over(leaves(L), path)
    <3>1. \A sigs, n : o \in Signed(sigs, n) => o.sigs = sigs
      BY DEF Signed
    <3> HIDE DEF leaves, path, toSign, number, count
    <3> QED
      BY <1>3, <3>1
  <2>2. DOMAIN o.sigs = DOMAIN leaves(L) \cup DOMAIN path
    <3> HIDE DEF leaves, path
    <3> QED
      BY <2>1 DEF Over
  <2>3. \A key \in DOMAIN o.sigs :
          \/ key = TapKeySig
          \/ \E cb \in L : key = TapScriptSig(k, ProvenLeaf[i][cb])
    BY <2>2
  <2>4. TapKeySig \in DOMAIN o.sigs => keySig
    <3>1. \A s : TapKeySig # TapScriptSig(k, s)
      BY DEF TapKeySig, TapScriptSig, K
    <3> QED
      BY <2>2, <3>1
  <2>5. Cardinality(L) <= MaxLeafSigs + (IF TapKeySig \in DOMAIN o.sigs THEN 0 ELSE 1)
    <3>1. Cardinality(toSign) \in Nat /\ MaxLeafSigs \in Nat
      BY FS_CardinalityType, ScriptsAssumption
    <3>2. number <= left /\ left = MaxLeafSigs + (IF keySig THEN 0 ELSE 1)
      BY <3>1 DEF SetSize
    <3> HIDE DEF number, left, keySig, toSign
    <3>3. number \in Int => number <= MaxLeafSigs + (IF TapKeySig \in DOMAIN o.sigs THEN 0 ELSE 1)
      BY <2>4, <3>1, <3>2
    <3>4. number \in Int
      BY <3>1, <3>2 DEF number, left, SetSize
    <3> QED
      BY <2>1, <3>3, <3>4
  <2> QED
    BY <2>1, <2>3, <2>5
<1> QED
  BY <1>1, <1>2, <1>3

(* The leaves that are signed are on record. *)
LEMMA LeavesOnRecord ==
  ASSUME NEW map, IsFiniteSet(DOMAIN map), NEW i, NEW k,
         NEW L \in SUBSET LeavesToSign(map, i, k)
  PROVE  LET onRecord == {key \in DOMAIN map : key[1] = "TAP_LEAF_SCRIPT"}
         IN  IsFiniteSet(onRecord) /\ Cardinality(L) <= Cardinality(onRecord)
<1> DEFINE onRecord == {key \in DOMAIN map : key[1] = "TAP_LEAF_SCRIPT"}
           f == [cb \in L |-> TapLeafScript(cb)]
<1>1. IsFiniteSet(onRecord)
  BY FS_Subset
<1>2. f \in Injection(L, onRecord)
  <2>1. \A cb : TapLeafScript(cb)[1] = "TAP_LEAF_SCRIPT" /\ TapLeafScript(cb)[2] = cb
    BY DEF TapLeafScript
  <2>2. f \in [L -> onRecord]
    BY <2>1 DEF LeavesToSign, Has
  <2>3. \A c, d \in L : f[c] = f[d] => c = d
    BY <2>1
  <2> HIDE DEF f, onRecord
  <2>4. \A c, d \in DOMAIN f : f[c] = f[d] => c = d
    BY <2>2, <2>3
  <2> QED
    BY <2>2, <2>4 DEF Injection, IsInjective
<1> QED
  BY <1>1, <1>2, FS_Injection

(* The keys of the signatures are no more than the leaves. *)
LEMMA KeysOfLeaves ==
  ASSUME NEW L, IsFiniteSet(L), NEW i, NEW k, NEW S,
         \A key \in S : \E cb \in L : key = TapScriptSig(k, ProvenLeaf[i][cb])
  PROVE  IsFiniteSet(S) /\ Cardinality(S) <= Cardinality(L)
<1> DEFINE cbOf == [key \in S |-> CHOOSE cb \in L : key = TapScriptSig(k, ProvenLeaf[i][cb])]
<1>1. \A key \in S : cbOf[key] \in L /\ key = TapScriptSig(k, ProvenLeaf[i][cbOf[key]])
  OBVIOUS
<1>2. cbOf \in Injection(S, L)
  <2>1. cbOf \in [S -> L]
    BY <1>1
  <2> HIDE DEF cbOf
  <2>2. \A a, b \in DOMAIN cbOf : cbOf[a] = cbOf[b] => a = b
    BY <1>1, <2>1
  <2> QED
    BY <2>1, <2>2 DEF Injection, IsInjective
<1> QED
  BY <1>2, FS_Injection

(* What a map has is finitely many records. *)
FiniteMaps ==
  \A p \in Holders : \A i \in Inputs(p) : IsFiniteSet(DOMAIN copies[p][i])

LEMMA FiniteSigs ==
  ASSUME NEW psbt, NEW i \in UNION Transactions, NEW k, NEW o \in SignOutcomes(psbt, i, k)
  PROVE  IsFiniteSet(DOMAIN o.sigs)
<1> DEFINE leaf == {TapScriptSig(k, ProvenLeaf[i][cb]) : cb \in DOMAIN ProvenLeaf[i]}
<1>1. IsFiniteSet(leaf)
  BY KeysOfLeaves, ScriptsAssumption
<1>2. IsFiniteSet((leaf \cup {TapKeySig}) \cup {PartialSig(k)})
  BY <1>1, FS_AddElement
<1>3. DOMAIN o.sigs \subseteq (leaf \cup {TapKeySig}) \cup {PartialSig(k)}
  BY SigsAdded
<1> QED
  BY <1>2, <1>3, FS_Subset

LEMMA FiniteMapsAlways == Spec => []FiniteMaps
<1>1. Init => FiniteMaps
  BY DEF Init, FiniteMaps, Holders, Holds
<1>2. ASSUME OneTransaction, FiniteMaps, [Next]_vars
      PROVE  FiniteMaps'
  <2>1. OneTransaction' /\ Stepped
    BY <1>2, NextStep
  <2>2. ASSUME NEW p \in Holders, NEW i \in Inputs(p)
        PROVE  IsFiniteSet(DOMAIN copies'[p][i])
    <3>1. PICK map : map = copies'[p][i] /\ Becomes(p, i, map)
      BY <2>1 DEF Stepped
    <3>2. i \in UNION Transactions /\ IsFiniteSet(DOMAIN copies[p][i])
      BY <1>2 DEF OneTransaction, FiniteMaps
    <3>3. ASSUME NEW other, IsFiniteSet(DOMAIN other)
          PROVE  /\ IsFiniteSet(DOMAIN Over(copies[p][i], other))
                 /\ IsFiniteSet(DOMAIN Over(other, copies[p][i]))
      BY <3>2, <3>3, FS_Union DEF Over
    <3>4. ASSUME NEW r \in Records, map = Set(copies[p][i], r[3], r[4])
          PROVE  IsFiniteSet(DOMAIN map)
      <4>1. DOMAIN map = DOMAIN copies[p][i] \cup {r[3]}
        BY <3>4 DEF Set, Over
      <4> QED
        BY <3>2, <4>1, FS_AddElement
    <3>5. ASSUME NEW k, NEW o \in SignOutcomes(copies[p], i, k),
                 map = Over(o.sigs, copies[p][i])
          PROVE  IsFiniteSet(DOMAIN map)
      BY <3>2, <3>3, <3>5, FiniteSigs
    <3>6. ASSUME NEW q \in Holders, i \in Inputs(q),
                 map = Over(copies[p][i], copies[q][i])
          PROVE  IsFiniteSet(DOMAIN map)
      <4>1. IsFiniteSet(DOMAIN copies[q][i])
        BY <1>2, <3>6 DEF FiniteMaps
      <4> QED
        BY <3>3, <3>6, <4>1
    <3>7. ASSUME map \in FinalMaps(copies[p][i], i), map # copies[p][i]
          PROVE  IsFiniteSet(DOMAIN map)
      <4>1. \E spend : map = Finalized(copies[p][i], i, spend)
        BY <3>7, FinalMapIs
      <4>2. DOMAIN map \subseteq (({NonWitnessUtxo} \cup {WitnessUtxo})
                                   \cup {FinalScriptSig}) \cup {FinalWitness}
        BY <4>1, FinalKeysAre DEF Finalized, FinalTypes
      <4>3. IsFiniteSet((({NonWitnessUtxo} \cup {WitnessUtxo})
                           \cup {FinalScriptSig}) \cup {FinalWitness})
        <5>1. IsFiniteSet({NonWitnessUtxo})
          BY FS_Singleton
        <5>2. IsFiniteSet({NonWitnessUtxo} \cup {WitnessUtxo})
          BY <5>1, FS_AddElement
        <5>3. IsFiniteSet(({NonWitnessUtxo} \cup {WitnessUtxo})
                            \cup {FinalScriptSig})
          BY <5>2, FS_AddElement
        <5> QED
          BY <5>3, FS_AddElement
      <4> QED
        BY <4>2, <4>3, FS_Subset
    <3> QED
      BY <3>1, <3>2, <3>4, <3>5, <3>6, <3>7 DEF Becomes
  <2>3. ASSUME NEW p \in Holders', NEW i \in Inputs(p)', p \notin Holders
        PROVE  IsFiniteSet(DOMAIN copies'[p][i])
    <3>1. CASE copies'[p][i] = <<>>
      <4>1. DOMAIN copies'[p][i] = {}
        BY <3>1
      <4> QED
        BY <4>1, FS_EmptySet
    <3> QED
      BY <1>2, <2>3, <3>1, NewHolder DEF FiniteMaps
  <2>4. \A p \in Holders : Inputs(p)' = Inputs(p) \/ p \notin Holders'
    BY <2>1 DEF Stepped, Inputs, Holders
  <2> QED
    BY <2>2, <2>3, <2>4 DEF FiniteMaps
<1> QED
  BY <1>1, <1>2, OneTransactionAlways, PTL DEF Spec

(* sign_len_bound() is enough room for what signing adds to an input:      *)
(* SignFits of any parties and inputs, and whatever records are set.       *)
THEOREM SignFitsAlways == Spec => SignFits
<1>1. ASSUME OneTransaction, FiniteMaps, NEW p \in Holders, NEW k \in SignersOf[p],
             copies'[p] # copies[p], Sign(p, k), NEW i \in Inputs(p)
      PROVE  MapThenSumSet(RecordSize, DOMAIN copies'[p][i] \ DOMAIN copies[p][i])
               <= SignLenBound(copies[p][i])
  <2> DEFINE psbt == copies[p]
             map == psbt[i]
             new == DOMAIN copies'[p][i] \ DOMAIN copies[p][i]
             toSign == LeavesToSign(map, i, k)
             onRecord == {key \in DOMAIN map : key[1] = "TAP_LEAF_SCRIPT"}
  <2>1. PICK o \in SignOutcomes(psbt, i, k) : copies'[p][i] = Over(o.sigs, map)
    <3>1. PICK o : /\ \A j \in Inputs(p) : o[j] \in SignOutcomes(psbt, j, k)
                   /\ \/ UNCHANGED copies
                      \/ copies' = [copies EXCEPT ![p] =
                                      [j \in Inputs(p) |-> Over(o[j].sigs, psbt[j])]]
      BY <1>1 DEF Sign, Fail, Write
    <3>2. copies'[p][i] = Over(o[i].sigs, map)
      BY <1>1, <3>1 DEF OneTransaction, Holders
    <3> QED
      BY <3>1, <3>2
  <2>2. i \in UNION Transactions /\ IsFiniteSet(DOMAIN map)
    BY <1>1 DEF OneTransaction, FiniteMaps
  <2>3. new \subseteq DOMAIN o.sigs
    BY <2>1 DEF Over
  <2>4. IsFiniteSet(toSign)
    BY <2>2, ScriptsAssumption, FS_Subset DEF LeavesToSign
  <2>5. /\ IsFiniteSet(onRecord)
        /\ Cardinality(onRecord) \in Nat
        /\ MaxLeafSigs \in Nat
    BY <2>2, FS_Subset, FS_CardinalityType, ScriptsAssumption
  <2>6. SignLenBound(map) =
          141 + 132 * (IF Cardinality(onRecord) < MaxLeafSigs
                         THEN Cardinality(onRecord) ELSE MaxLeafSigs)
    BY DEF SignLenBound
  <2> HIDE DEF new, toSign, onRecord, map
  <2>7. SignLenBound(map) \in Nat /\ SignLenBound(map) >= 141
    BY <2>5, <2>6
  <2>8. CASE Kind[i] # "p2tr"
    <3>1. DOMAIN o.sigs \subseteq {PartialSig(k)}
      BY <2>2, <2>8 DEF SignOutcomes, EcdsaOutcomes, Nothing, Failed, Signed
    <3>2. MapThenSumSet(RecordSize, new) <= 141
      BY <2>3, <3>1, OneSize
    <3>3. MapThenSumSet(RecordSize, new) \in Int
      BY <2>3, <3>1, SizesAreInt, FS_Singleton, FS_Subset
    <3> QED
      BY <2>7, <3>2, <3>3 DEF new, map
  <2>9. CASE Kind[i] = "p2tr" /\ o \in TaprootOutcomes(psbt, i, k)
    <3>1. PICK L \in SUBSET toSign :
            /\ \A key \in DOMAIN o.sigs :
                 \/ key = TapKeySig
                 \/ \E cb \in L : key = TapScriptSig(k, ProvenLeaf[i][cb])
            /\ Cardinality(L) <= MaxLeafSigs + (IF TapKeySig \in DOMAIN o.sigs THEN 0 ELSE 1)
      BY <2>4, <2>9, LeavesFit DEF toSign, map
    <3>2. IsFiniteSet(L) /\ Cardinality(L) \in Nat
      BY <2>4, FS_Subset, FS_CardinalityType
    <3>3. Cardinality(L) <= Cardinality(onRecord)
      BY <2>2, LeavesOnRecord DEF toSign, onRecord
    <3>4. /\ IsFiniteSet(new \ {TapKeySig})
          /\ Cardinality(new \ {TapKeySig}) \in Nat
          /\ Cardinality(new \ {TapKeySig}) <= Cardinality(L)
      <4>1. \A key \in new \ {TapKeySig} :
              \E cb \in L : key = TapScriptSig(k, ProvenLeaf[i][cb])
        BY <2>3, <3>1
      <4> QED
        BY <3>2, <4>1, KeysOfLeaves, FS_CardinalityType
    <3>5. IsFiniteSet(new)
      <4>1. IsFiniteSet((new \ {TapKeySig}) \cup {TapKeySig})
        BY <3>4, FS_AddElement
      <4>2. new \subseteq (new \ {TapKeySig}) \cup {TapKeySig}
        OBVIOUS
      <4> QED
        BY <4>1, <4>2, FS_Subset
    <3>6. \A key \in new : key = TapKeySig \/ key[1] = "TAP_SCRIPT_SIG"
      BY <2>3, <3>1 DEF TapScriptSig
    <3> DEFINE c == Cardinality(new \ {TapKeySig})
               t == IF TapKeySig \in new THEN 68 ELSE 0
               r == Cardinality(onRecord)
               m == MapThenSumSet(RecordSize, new)
    <3>7. m <= 132 * c + t /\ m \in Int
      BY <3>5, <3>6, TaprootSize, SizesAreInt
    <3>8. /\ c <= MaxLeafSigs + (IF TapKeySig \in new THEN 0 ELSE 1)
          /\ c <= r /\ c \in Nat
      BY <2>3, <2>5, <3>1, <3>2, <3>3, <3>4
    <3> HIDE DEF c, r, m
    <3>9. 132 * c + t <= 141 + 132 * (IF r < MaxLeafSigs THEN r ELSE MaxLeafSigs)
      BY <2>5, <3>8 DEF r
    <3>10. m <= SignLenBound(map)
      BY <2>5, <2>6, <3>7, <3>8, <3>9 DEF r
    <3> QED
      BY <3>10 DEF m, new, map
  <2>10. CASE o \in Failed(None) \/ \E e : o \in Failed(e)
    <3>1. new \subseteq {PartialSig(k)}
      BY <2>3, <2>10 DEF Failed
    <3>2. MapThenSumSet(RecordSize, new) <= 141
      BY <3>1, OneSize
    <3>3. MapThenSumSet(RecordSize, new) \in Int
      BY <3>1, SizesAreInt, FS_Singleton, FS_Subset
    <3> QED
      BY <2>7, <3>2, <3>3 DEF new, map
  <2> QED
    BY <2>8, <2>9, <2>10 DEF SignOutcomes, Nothing
<1>2. OneTransaction /\ FiniteMaps /\ [Next]_vars =>
        [\A p \in Holders :
           copies'[p] # copies[p] /\ (\E k \in SignersOf[p] : Sign(p, k)) =>
           \A i \in Inputs(p) :
             MapThenSumSet(RecordSize, DOMAIN copies'[p][i] \ DOMAIN copies[p][i])
               <= SignLenBound(copies[p][i])]_vars
  BY <1>1
<1> QED
  BY <1>2, OneTransactionAlways, FiniteMapsAlways, PTL DEF Spec, SignFits
=============================================================================
