------------------------------- MODULE BtcProofs -------------------------------
(***************************************************************************)
(* What holds of a transaction that is signed and edited, for any coins,   *)
(* entries, outputs and numbers of calls: the inputs that a call of sign() *)
(* came through can be spent, and a signature stands for exactly what its  *)
(* hash type says.                                                         *)
(***************************************************************************)
EXTENDS BtcSign, SequenceTheorems, TLAPS

(* The script inside a P2WSH output is left to sign() to find only where   *)
(* it is the first that sign() tries: the hint it goes by is gone once the *)
(* input is signed, filled in or cleared.                                  *)
FoundIsFirst ==
  \A c \in Coin : \A k \in Entries[c] :
    k.inner = "auto" => Lock[c].inner = "p2pkh"

----------------------------------------------------------------------------
(* What a signature commits to, from the transaction without signatures.   *)

LockCode(lock) ==
  CASE lock.kind \in {"p2wpkh", "p2sh:p2wpkh"} -> Gen("p2pkh", lock.key)
    [] lock.kind = "p2wsh" -> Gen(lock.inner, lock.key)
    [] OTHER -> Gen(lock.kind, lock.key)

LockSegwit(lock) == lock.cash \/ lock.kind \notin Legacy

PrevoutOf(c) == [amount |-> Amount[c], script |-> PrevScript(c)]

InputsOf(of, i, t) ==
  IF AnyoneCanPay(t)
    THEN [own |-> of.outpoints[i], sequence |-> of.sequences[i],
          prevout |-> PrevoutOf(of.outpoints[i])]
    ELSE [all |-> [outpoints |-> of.outpoints, sequences |-> of.sequences,
                   prevouts |-> [j \in DOMAIN of.outpoints |->
                                   PrevoutOf(of.outpoints[j])]],
          at |-> i]

OutputsOf(of, i, t) ==
  IF SignsNone(t) THEN <<>>
  ELSE IF SignsSingle(t) THEN <<of.outputs[i]>>
  ELSE of.outputs

UnifiedOf(of, i, t, spend, code) ==
  [unified |-> spend, code |-> code, type |-> t, locktime |-> of.locktime,
   inputs |-> InputsOf(of, i, t), outputs |-> OutputsOf(of, i, t)]

EcdsaOf(of, i, lock, t) ==
  IF Unified(t)
    THEN UnifiedOf(of, i, t, IF LockSegwit(lock) THEN "segwit" ELSE "legacy",
                   LockCode(lock))
  ELSE IF LockSegwit(lock)
    THEN [segwit |-> LockCode(lock), type |-> t, mid |-> of,
          coin |-> of.outpoints[i], amount |-> Amount[of.outpoints[i]],
          sequence |-> of.sequences[i]]
  ELSE [legacy |-> LockCode(lock), type |-> t, locktime |-> of.locktime,
        at |-> i, outpoints |-> of.outpoints, sequences |-> of.sequences,
        outputs |-> of.outputs]

TapOf(of, i, leaf, t) ==
  IF Unified(t) THEN UnifiedOf(of, i, t, "taproot", leaf)
  ELSE [taproot |-> leaf, type |-> t, locktime |-> of.locktime,
        inputs |-> InputsOf(of, i, t), outputs |-> OutputsOf(of, i, t)]

SigOn(input) == StackOf(input)[1]
LeafOn(input) == IF Len(StackOf(input)) = 2 THEN StackOf(input)[2] ELSE None

(* Whether the type of the signature can leave inputs and outputs open.    *)
Partly(c, t) == Lock[c].kind = "p2tr" \/ Unified(t)

DigestOf(of, i, input) ==
  IF Lock[input.coin].kind = "p2tr"
    THEN TapOf(of, i, LeafOn(input), SigOn(input).type)
    ELSE EcdsaOf(of, i, Lock[input.coin], SigOn(input).type)

(* All that the lock of a signed input asks for, but for the digest.       *)
Standing(input) ==
  LET lock == Lock[input.coin]
      sig  == SigOn(input)
      leaf == LeafOn(input)
  IN
  /\ IF lock.kind \in Legacy THEN input.witness = <<>>
     ELSE input.script = IF lock.kind = "p2sh:p2wpkh"
                           THEN <<Program(Gen("p2wpkh", lock.key))>> ELSE <<>>
  /\ IF lock.kind = "p2tr"
       THEN /\ Len(StackOf(input)) <= 2
            /\ IF leaf = None
                 THEN sig.by = lock.key /\ sig.how = <<"tweaked", lock.root>>
                 ELSE /\ sig.by = leaf.key /\ sig.how = <<"plain">>
                      /\ leaf.output = PrevScript(input.coin)
       ELSE /\ Tail(StackOf(input)) = Asked(lock)
            /\ lock.cash = ForkId(sig.type)
            /\ sig.by = lock.key /\ sig.how = <<"ecdsa">>

----------------------------------------------------------------------------
(* The invariant.                                                          *)

InputOK(input) ==
  LET lock == Lock[input.coin] IN
  /\ input = [coin |-> input.coin, sequence |-> input.sequence,
              witness |-> input.witness, script |-> input.script]
  /\ input.coin \in Coin
  /\ lock.kind = "p2wsh" =>
       input.script \in {<<>>, <<Program(Gen(lock.inner, lock.key))>>}
  /\ lock.kind \in Legacy => input.witness = <<>>

TxOK ==
  /\ tx = [locktime |-> tx.locktime, outputs |-> tx.outputs, inputs |-> tx.inputs]
  /\ tx.outputs \in Seq(Output)
  /\ tx.inputs \in Seq(Range(tx.inputs))
  /\ \A i \in DOMAIN tx.inputs : InputOK(tx.inputs[i])
  /\ \A i, j \in DOMAIN tx.inputs :
       tx.inputs[i].coin = tx.inputs[j].coin => i = j

(* A call has one entry for each input, and its cache is that of the       *)
(* transaction as it is, whatever it wrote into it.                        *)
CallOK ==
  ~Idle =>
    /\ call = [n |-> call.n, keys |-> call.keys, cache |-> call.cache]
    /\ call.keys \in KeysFor(tx.inputs)
    /\ call.n \in 1 .. Len(tx.inputs) + 1
    /\ call.cache = [segwit |-> call.cache.segwit, taproot |-> call.cache.taproot]
    /\ call.cache.segwit \in {None, Fresh.segwit}
    /\ call.cache.taproot \in {None, Fresh.taproot}
    /\ result = None

(* A signature is that of the last purpose that its coin was signed for.   *)
ForPurpose(p, input) ==
  /\ p.of = [locktime |-> p.of.locktime, outputs |-> p.of.outputs,
             outpoints |-> p.of.outpoints, sequences |-> p.of.sequences]
  /\ p.at \in DOMAIN p.of.outpoints
  /\ p.of.outpoints[p.at] = input.coin
  /\ \A i, j \in DOMAIN p.of.outpoints :
       p.of.outpoints[i] = p.of.outpoints[j] => i = j
  /\ p.type = SigOn(input).type
  /\ p.partly <=> Partly(input.coin, p.type)
  /\ Standing(input)
  /\ SigOn(input).digest = DigestOf(p.of, p.at, input)

MadeOK ==
  /\ made = [c \in Coin |-> made[c]]
  /\ \A i \in DOMAIN tx.inputs :
       HasSignature(tx.inputs[i]) =>
         ForPurpose(made[tx.inputs[i].coin], tx.inputs[i])

IInv == TxOK /\ CallOK /\ PrefixSigned /\ MadeOK

(* A call that returns without an error came through every input.          *)
ResultOK ==
  result # None =>
    /\ Idle
    /\ result.error = None => result.at = Len(tx.inputs) + 1

SpendableAs ==
  \A i \in DOMAIN tx.inputs :
    LET input == tx.inputs[i] IN
    Spendable(i) <=>
      /\ HasSignature(input) /\ Standing(input)
      /\ Partly(input.coin, SigOn(input).type) =>
           SingleError(tx, i, SigOn(input).type) = None
      /\ SigOn(input).digest = DigestOf(Bare, i, input)

----------------------------------------------------------------------------
(* The digests that a node makes anew are those of the transaction without *)
(* its signatures.                                                         *)
LEMMA FreshIsBare ==
  /\ Fresh.segwit = Bare
  /\ Fresh.taproot =
       [locktime |-> Bare.locktime,
        inputs   |-> [outpoints |-> Bare.outpoints, sequences |-> Bare.sequences,
                      prevouts  |-> [j \in DOMAIN Bare.outpoints |->
                                       PrevoutOf(Bare.outpoints[j])]],
        outputs  |-> Bare.outputs]
  /\ \A i \in DOMAIN tx.inputs :
       /\ Bare.outpoints[i] = tx.inputs[i].coin
       /\ Bare.sequences[i] = tx.inputs[i].sequence
       /\ Prevouts(Spent)[i] = PrevoutOf(tx.inputs[i].coin)
  /\ Bare.outputs = tx.outputs
  /\ Bare.locktime = tx.locktime
<1>1. DOMAIN Bare.outpoints = DOMAIN tx.inputs
  BY DEF Bare, Outpoints
<1>2. \A i \in DOMAIN tx.inputs : Bare.outpoints[i] = tx.inputs[i].coin
  BY DEF Bare, Outpoints
<1>3. \A i \in DOMAIN tx.inputs : Bare.sequences[i] = tx.inputs[i].sequence
  BY DEF Bare, SequencesOf
<1>4. Prevouts(Spent) = [j \in DOMAIN Bare.outpoints |-> PrevoutOf(Bare.outpoints[j])]
  BY <1>1, <1>2 DEF Prevouts, Spent, PrevoutOf
<1>5. Fresh.segwit = Bare
  BY DEF Fresh, SegwitMidstate, Bare
<1>6. Fresh.taproot = TaprootMidstate(tx, Prevouts(Spent))
  BY DEF Fresh
<1> QED
  BY <1>1, <1>2, <1>3, <1>4, <1>5, <1>6 DEF TaprootMidstate, Bare

LEMMA SignedParts ==
  ASSUME NEW i \in DOMAIN tx.inputs, NEW t
  PROVE  /\ SignedInputs(tx, Fresh.taproot, i, Prevouts(Spent)[i], t) = InputsOf(Bare, i, t)
         /\ SignedOutputs(tx, Fresh.taproot, i, t) = OutputsOf(Bare, i, t)
<1>1. SignedInputs(tx, Fresh.taproot, i, Prevouts(Spent)[i], t) = InputsOf(Bare, i, t)
  BY FreshIsBare DEF SignedInputs, InputsOf
<1>2. SignedOutputs(tx, Fresh.taproot, i, t) = OutputsOf(Bare, i, t)
  BY FreshIsBare DEF SignedOutputs, OutputsOf
<1> QED
  BY <1>1, <1>2

LEMMA TapDigestIs ==
  ASSUME NEW i \in DOMAIN tx.inputs, NEW k
  PROVE  TapDigest(Fresh, Spent, i, k) = TapOf(Bare, i, k.leaf, k.sighash)
BY SignedParts, FreshIsBare
   DEF TapDigest, TapOf, UnifiedSighash, TaprootSighash, UnifiedOf

LEMMA EcdsaDigestIs ==
  ASSUME NEW i \in DOMAIN tx.inputs, NEW lock, NEW t
  PROVE  EcdsaDigest(Fresh, Spent, i, LockCode(lock), t, LockSegwit(lock))
           = EcdsaOf(Bare, i, lock, t)
<1>1. CASE Unified(t)
  BY <1>1, SignedParts, FreshIsBare
     DEF EcdsaDigest, EcdsaOf, UnifiedSighash, UnifiedOf
<1>2. CASE ~Unified(t) /\ LockSegwit(lock)
  BY <1>2, FreshIsBare DEF EcdsaDigest, EcdsaOf, SegwitSighash, Spent
<1>3. CASE ~Unified(t) /\ ~LockSegwit(lock)
  BY <1>3 DEF EcdsaDigest, EcdsaOf, LegacySighash, Bare
<1> QED
  BY <1>1, <1>2, <1>3

(* Whether a node takes an input.                                          *)
LEMMA SpendableIs == SpendableAs
<1> SUFFICES ASSUME NEW i \in DOMAIN tx.inputs
             PROVE  LET input == tx.inputs[i] IN
                    Spendable(i) <=>
                      /\ HasSignature(input) /\ Standing(input)
                      /\ Partly(input.coin, SigOn(input).type) =>
                           SingleError(tx, i, SigOn(input).type) = None
                      /\ SigOn(input).digest = DigestOf(Bare, i, input)
  BY DEF SpendableAs
<1> PICK input : input = tx.inputs[i]
  OBVIOUS
<1> PICK lock : lock = Lock[input.coin]
  OBVIOUS
<1> PICK sig : sig = SigOn(input)
  OBVIOUS
<1> PICK leaf : leaf = LeafOn(input)
  OBVIOUS
<1>1. CASE lock.kind = "p2tr"
  <2>1. TaprootHolds(i, lock, sig, leaf) <=>
          /\ IF leaf = None
               THEN sig.by = lock.key /\ sig.how = <<"tweaked", lock.root>>
               ELSE /\ sig.by = leaf.key /\ sig.how = <<"plain">>
                    /\ leaf.output = PrevScript(input.coin)
          /\ SingleError(tx, i, sig.type) = None
          /\ sig.digest = TapOf(Bare, i, leaf, sig.type)
    BY TapDigestIs DEF TaprootHolds
  <2>2. DigestOf(Bare, i, input) = TapOf(Bare, i, leaf, sig.type)
    BY <1>1 DEF DigestOf
  <2>3. Spendable(i) <=>
          /\ HasSignature(input)
          /\ input.script = <<>>
          /\ Len(StackOf(input)) <= 2
          /\ TaprootHolds(i, lock, sig, leaf)
    BY <1>1 DEF Spendable, SigOn, LeafOn, Legacy
  <2> QED
    BY <1>1, <2>1, <2>2, <2>3 DEF Standing, Partly, Legacy
<1>2. CASE lock.kind # "p2tr"
  <2>1. EcdsaHolds(i, lock, sig) <=>
          /\ lock.cash = ForkId(sig.type)
          /\ sig.by = lock.key /\ sig.how = <<"ecdsa">>
          /\ Unified(sig.type) => SingleError(tx, i, sig.type) = None
          /\ sig.digest = EcdsaDigest(Fresh, Spent, i, LockCode(lock), sig.type,
                                      LockSegwit(lock))
    BY DEF EcdsaHolds, LockCode, LockSegwit
  <2>2. DigestOf(Bare, i, input) = EcdsaOf(Bare, i, lock, sig.type)
    BY <1>2 DEF DigestOf
  <2>3. Spendable(i) <=>
          /\ HasSignature(input)
          /\ IF lock.kind \in Legacy THEN input.witness = <<>>
             ELSE input.script = IF lock.kind = "p2sh:p2wpkh"
                                   THEN <<Program(Gen("p2wpkh", lock.key))>> ELSE <<>>
          /\ Tail(StackOf(input)) = Asked(lock)
          /\ EcdsaHolds(i, lock, sig)
    BY <1>2 DEF Spendable, SigOn
  <2>4. Partly(input.coin, sig.type) <=> Unified(sig.type)
    BY <1>2 DEF Partly
  <2> QED
    <3>1. EcdsaDigest(Fresh, Spent, i, LockCode(lock), sig.type, LockSegwit(lock))
            = EcdsaOf(Bare, i, lock, sig.type)
      BY EcdsaDigestIs
    <3>2. Standing(input) <=>
            /\ IF lock.kind \in Legacy THEN input.witness = <<>>
               ELSE input.script = IF lock.kind = "p2sh:p2wpkh"
                                     THEN <<Program(Gen("p2wpkh", lock.key))>> ELSE <<>>
            /\ Tail(StackOf(input)) = Asked(lock)
            /\ lock.cash = ForkId(sig.type)
            /\ sig.by = lock.key /\ sig.how = <<"ecdsa">>
      BY <1>2 DEF Standing
    <3> QED
      BY <2>1, <2>2, <2>3, <2>4, <3>1, <3>2
<1> QED
  BY <1>1, <1>2

----------------------------------------------------------------------------
(* What sign() does with an entry that it accepts.                         *)

(* An entry that sign() accepts is for the key and the chain of its coin,  *)
(* and for a digest that exists.                                           *)
LEMMA AcceptedEntry ==
  ASSUME NEW c \in Coin, NEW keys, NEW n, keys[n] \in Entries[c],
         InputError(keys, n) = None
  PROVE  LET k == keys[n]
             t == DefaultType(k)
         IN
         /\ k.key = Lock[c].key
         /\ Partly(c, t) => ~MissingPrevScript(keys) /\ SingleError(tx, n, t) = None
         /\ k.scheme = "p2tr" =>
              /\ t = k.sighash
              /\ k.leaf # None => /\ k.leaf.key = k.key
                                 /\ k.leaf.output = k.prevScript
         /\ k.scheme # "p2tr" => ForkId(t) = Lock[c].cash
<1> PICK k : k = keys[n]
  OBVIOUS
<1> PICK t : t = DefaultType(k)
  OBVIOUS
<1>1. /\ k.scheme = Lock[c].kind
      /\ KeyOfCoin(c, k) /\ TypeOfCoin(c, k) /\ LeafOfSigner(k)
  BY EntriesAssumption
<1>2. k.key # None
  BY FailureAssumption DEF InputError, Failures
<1>3. CASE k.scheme = "p2tr"
  <2>1. TapError(keys, n, k) = None
    BY <1>2, <1>3, FailureAssumption DEF InputError, Failures, Kinds
  <2>2. t = k.sighash
    BY <1>3 DEF DefaultType
  <2>3. LeafError(k) = None /\ ~MissingPrevScript(keys)
    BY <2>1, FailureAssumption DEF TapError, Failures
  <2>4. IF Unified(t) THEN UnifiedError(tx, n, t, "taproot") = None
                      ELSE TaprootError(tx, n, t) = None
    BY <2>1, <2>2, <2>3, FailureAssumption DEF TapError, Failures
  <2>5. SingleError(tx, n, t) = None
    BY <2>4, FailureAssumption DEF UnifiedError, TaprootError, Failures
  <2>6. k.key = Lock[c].key
    BY <1>1, <1>2, <1>3 DEF KeyOfCoin
  <2>7. k.leaf # None =>
          /\ k.leaf.key # None
          /\ "ecdsa" \in Able[k.key] => k.leaf.key = k.key
          /\ k.leaf.output = k.prevScript
    BY <2>3, FailureAssumption DEF LeafError, Failures
  <2>8. k.leaf # None => k.leaf.key = k.key
    BY <2>7, <1>1 DEF LeafOfSigner
  <2> QED
    BY <1>3, <2>2, <2>3, <2>5, <2>6, <2>7, <2>8
<1>4. CASE k.scheme # "p2tr"
  <2>1. "ecdsa" \in Able[k.key]
    BY <1>2, <1>4, FailureAssumption DEF InputError, Failures
  <2>2. EcdsaError(keys, n, t, AsSegwit(k)) = None
    BY <1>2, <1>4, <2>1, FailureAssumption DEF InputError, Failures
  <2>3. k.key = Lock[c].key
    BY <1>1, <1>2, <1>4, <2>1 DEF KeyOfCoin
  <2>4. Unified(t) => /\ ~ForkId(t)
                      /\ ~MissingPrevScript(keys)
                      /\ \E spend \in {"segwit", "legacy"} :
                           UnifiedError(tx, n, t, spend) = None
    BY <2>2, FailureAssumption DEF EcdsaError, Failures
  <2>5. Unified(t) => SingleError(tx, n, t) = None
    BY <2>4, FailureAssumption DEF UnifiedError, Failures
  <2>6. ForkId(t) = Lock[c].cash
    BY <1>1, <1>4, <2>4 DEF TypeOfCoin
  <2>7. Partly(c, t) <=> Unified(t)
    BY <1>1, <1>4 DEF Partly
  <2> QED
    BY <1>4, <2>3, <2>4, <2>5, <2>6, <2>7
<1> QED
  BY <1>3, <1>4

(* What the entries say of the outputs that are spent, when they all say   *)
(* it.                                                                     *)
LEMMA ToldPrevouts ==
  ASSUME TxOK, NEW keys \in KeysFor(tx.inputs)
  PROVE  /\ DOMAIN keys = DOMAIN tx.inputs
         /\ \A i \in DOMAIN tx.inputs :
              /\ keys[i] \in Entries[tx.inputs[i].coin]
              /\ keys[i].amount = Amount[tx.inputs[i].coin]
         /\ ~MissingPrevScript(keys) => Prevouts(keys) = Prevouts(Spent)
<1>1. DOMAIN keys = DOMAIN tx.inputs
  BY DEF KeysFor
<1>2. \A i \in DOMAIN tx.inputs : keys[i] \in Entries[tx.inputs[i].coin]
  BY DEF KeysFor
<1>3. \A i \in DOMAIN tx.inputs : tx.inputs[i].coin \in Coin
  BY DEF TxOK, InputOK
<1>4. \A i \in DOMAIN tx.inputs :
        /\ keys[i].amount = Amount[tx.inputs[i].coin]
        /\ keys[i].prevScript \in {PrevScript(tx.inputs[i].coin), None}
  BY <1>2, <1>3, EntriesAssumption
<1>5. ASSUME ~MissingPrevScript(keys)
      PROVE  Prevouts(keys) = Prevouts(Spent)
  <2>1. \A i \in DOMAIN tx.inputs : keys[i].prevScript = PrevScript(tx.inputs[i].coin)
    BY <1>1, <1>4, <1>5 DEF MissingPrevScript
  <2> QED
    BY <1>1, <1>4, <2>1 DEF Prevouts, Spent
<1> QED
  BY <1>1, <1>2, <1>4, <1>5

LEMMA KeysCount ==
  ASSUME TxOK, NEW keys \in KeysFor(tx.inputs)
  PROVE  Len(keys) = Len(tx.inputs)
<1>1. Len(tx.inputs) \in Nat /\ DOMAIN tx.inputs = 1 .. Len(tx.inputs)
  BY LenProperties DEF TxOK
<1>2. DOMAIN keys = 1 .. Len(tx.inputs)
  BY <1>1, ToldPrevouts
<1>3. PICK S : keys \in [1 .. Len(tx.inputs) -> S]
  BY <1>1 DEF KeysFor
<1>4. keys \in Seq(S)
  BY <1>1, <1>3
<1> QED
  BY <1>1, <1>2, <1>4, LenProperties

(* The cache of a call stays that of the transaction, and has what the     *)
(* digest of the next input is made of.                                    *)
LEMMA CacheReady ==
  ASSUME TxOK, NEW keys \in KeysFor(tx.inputs), NEW n \in DOMAIN tx.inputs,
         InputError(keys, n) = None, NEW cache,
         cache = [segwit |-> cache.segwit, taproot |-> cache.taproot],
         cache.segwit \in {None, Fresh.segwit},
         cache.taproot \in {None, Fresh.taproot}
  PROVE  LET k   == keys[n]
             t   == DefaultType(k)
             new == CacheFor(cache, keys, k)
         IN
         /\ new = [segwit |-> new.segwit, taproot |-> new.taproot]
         /\ new.segwit \in {None, Fresh.segwit}
         /\ new.taproot \in {None, Fresh.taproot}
         /\ k.scheme = "p2tr" \/ Unified(t) => new.taproot = Fresh.taproot
         /\ k.scheme # "p2tr" /\ ~Unified(t) /\ AsSegwit(k) =>
              new.segwit = Fresh.segwit
<1> PICK k : k = keys[n]
  OBVIOUS
<1> PICK t : t = DefaultType(k)
  OBVIOUS
<1> PICK c : c = tx.inputs[n].coin
  OBVIOUS
<1>1. c \in Coin /\ k \in Entries[c]
  BY ToldPrevouts DEF TxOK, InputOK
<1>2. Partly(c, t) <=> k.scheme = "p2tr" \/ Unified(t)
  BY <1>1, EntriesAssumption DEF Partly
<1>3. Partly(c, t) => Prevouts(keys) = Prevouts(Spent)
  BY <1>1, AcceptedEntry, ToldPrevouts
<1>4. Partly(c, t) => TaprootMidstate(tx, Prevouts(keys)) = Fresh.taproot
  BY <1>3 DEF Fresh
<1>5. SegwitMidstate(tx) = Fresh.segwit
  BY DEF Fresh
<1> HIDE DEF Fresh
<1>6. CASE Partly(c, t)
  <2>1. CacheFor(cache, keys, k) = WithTaproot(cache, keys)
    BY <1>2, <1>6 DEF CacheFor
  <2>2. WithTaproot(cache, keys) = [segwit |-> cache.segwit, taproot |-> Fresh.taproot]
    BY <1>4, <1>6 DEF WithTaproot
  <2> QED
    BY <1>2, <1>6, <2>1, <2>2
<1>7. CASE ~Partly(c, t) /\ AsSegwit(k)
  <2>1. CacheFor(cache, keys, k) = WithSegwit(cache)
    BY <1>2, <1>7 DEF CacheFor
  <2>2. WithSegwit(cache) = [segwit |-> Fresh.segwit, taproot |-> cache.taproot]
    BY <1>5 DEF WithSegwit
  <2> QED
    BY <1>2, <1>7, <2>1, <2>2
<1>8. CASE ~Partly(c, t) /\ ~AsSegwit(k)
  <2>1. CacheFor(cache, keys, k) = cache
    BY <1>2, <1>8 DEF CacheFor
  <2> QED
    BY <1>2, <1>8, <2>1
<1> QED
  BY <1>6, <1>7, <1>8

(* The digest that an accepted entry is signed with is the one that the    *)
(* lock of its coin asks for.                                              *)
LEMMA AsLockAsks ==
  ASSUME NEW c \in Coin, NEW k \in Entries[c],
         k.scheme # "p2tr", ForkId(DefaultType(k)) = Lock[c].cash
  PROVE  AsSegwit(k) <=> LockSegwit(Lock[c])
<1>1. k.scheme = Lock[c].kind
  BY EntriesAssumption
<1> QED
  BY <1>1, LockAssumption DEF AsSegwit, LockSegwit, Legacy, Kinds

(* The script inside a P2WSH output is the one of its lock.                *)
LEMMA InnerIs ==
  ASSUME FoundIsFirst, NEW input, InputOK(input),
         NEW k \in Entries[input.coin], k.key = Lock[input.coin].key
  PROVE  InnerOf(input, k) = Lock[input.coin].inner
<1> PICK lock : lock = Lock[input.coin]
  OBVIOUS
<1>1. /\ input.coin \in Coin
      /\ k.scheme = lock.kind
      /\ \/ k.inner = lock.inner
         \/ k.scheme = "p2wsh" /\ k.inner = "auto"
  BY EntriesAssumption DEF InputOK
<1>2. CASE k.inner # "auto"
  BY <1>1, <1>2 DEF InnerOf
<1>3. CASE k.inner = "auto"
  <2>1. lock.inner = "p2pkh"
    BY <1>1, <1>3 DEF FoundIsFirst
  <2>2. k.scheme = "p2wsh"
    BY <1>1, <1>3, <2>1
  <2>3. input.script \in {<<>>, <<Program(Gen("p2pkh", k.key))>>}
    BY <1>1, <2>1, <2>2 DEF InputOK
  <2>4. \A h \in Range(input.script) : h = Program(Gen("p2pkh", k.key))
    BY <2>3 DEF Range
  <2>5. \A h \in Range(input.script) : Gen("p2pkh", k.key) = h.program
    BY <2>4 DEF Program
  <2> DEFINE fitting == {i \in DOMAIN InnerCandidates :
                \A h \in {h \in Range(input.script) : "program" \in DOMAIN h} :
                  Gen(InnerCandidates[i], k.key) = h.program}
  <2>6. DOMAIN InnerCandidates = 1 .. 4 /\ InnerCandidates[1] = "p2pkh"
    BY DEF InnerCandidates
  <2>7. 1 \in fitting /\ fitting \subseteq 1 .. 4
    BY <2>5, <2>6
  <2> HIDE DEF fitting
  <2>8. Min(fitting) = 1
    <3>1. \A i \in fitting : i \in Int /\ 1 <= i
      BY <2>7
    <3>2. \E i \in fitting : \A j \in fitting : i <= j
      BY <2>7, <3>1
    <3>3. Min(fitting) \in fitting /\ \A j \in fitting : Min(fitting) <= j
      BY <3>2 DEF Min
    <3> HIDE DEF Min
    <3>4. Min(fitting) \in Int /\ 1 <= Min(fitting) /\ Min(fitting) <= 1
      BY <2>7, <3>1, <3>3
    <3> QED
      BY <3>4
  <2>9. DetectInner(input, k.key) = "p2pkh"
    BY <2>6, <2>7, <2>8 DEF DetectInner, fitting
  <2> QED
    BY <1>3, <2>1, <2>9 DEF InnerOf
<1> QED
  BY <1>2, <1>3

LEMMA CodeIs ==
  ASSUME FoundIsFirst, NEW input, InputOK(input),
         NEW k \in Entries[input.coin], k.key = Lock[input.coin].key
  PROVE  ScriptCode(input, k) = LockCode(Lock[input.coin])
<1>1. input.coin \in Coin /\ k.scheme = Lock[input.coin].kind
  BY EntriesAssumption DEF InputOK
<1>2. InnerOf(input, k) = Lock[input.coin].inner
  BY InnerIs
<1>3. CASE k.scheme \in {"p2wpkh", "p2sh:p2wpkh"}
  BY <1>1, <1>3 DEF ScriptCode, LockCode
<1>4. CASE k.scheme = "p2wsh"
  BY <1>1, <1>2, <1>4 DEF ScriptCode, LockCode
<1>5. CASE k.scheme \notin {"p2wpkh", "p2sh:p2wpkh", "p2wsh"}
  BY <1>1, <1>5 DEF ScriptCode, LockCode
<1> QED
  BY <1>3, <1>4, <1>5

(* A signature stands first on its stack, before what goes with it.        *)
LEMMA StackIs ==
  ASSUME NEW sig, NEW S, NEW others \in Seq(S)
  PROVE  LET stack == <<sig>> \o others IN
         /\ stack # <<>>
         /\ stack[1] = sig
         /\ Tail(stack) = others
         /\ Len(stack) = 1 + Len(others)
         /\ others # <<>> => stack[2] = others[1]
<1> DEFINE stack == <<sig>> \o others
           T     == S \cup {sig}
<1>1. <<sig>> \in Seq(T) /\ others \in Seq(T)
  BY SeqMonotonic
<1>2. /\ stack \in Seq(T)
      /\ Len(stack) = 1 + Len(others)
      /\ \A i \in 1 .. Len(stack) :
           stack[i] = IF i <= 1 THEN <<sig>>[i] ELSE others[i - 1]
  BY <1>1, ConcatProperties
<1>3. Len(others) \in Nat /\ (others # <<>> => Len(others) > 0)
  BY <1>1, LenProperties, EmptySeq
<1> HIDE DEF stack
<1>4. stack # <<>> /\ stack[1] = sig
  BY <1>2, <1>3
<1>5. others # <<>> => stack[2] = others[1]
  BY <1>2, <1>3
<1>6. Tail(stack) \in Seq(T) /\ Len(Tail(stack)) = Len(others)
  BY <1>2, <1>3, <1>4, HeadTailProperties
<1>7. \A i \in 1 .. Len(others) : Tail(stack)[i] = others[i]
  BY <1>2, <1>3, <1>4, <1>6, HeadTailProperties
<1>8. Tail(stack) = others
  BY <1>1, <1>6, <1>7, SeqEqual
<1> QED
  BY <1>2, <1>4, <1>5, <1>8 DEF stack

LEMMA CompanionsAre ==
  ASSUME FoundIsFirst, NEW input, InputOK(input),
         NEW k \in Entries[input.coin], k.key = Lock[input.coin].key
  PROVE  /\ \E S : Companions(input, k) \in Seq(S)
         /\ k.scheme # "p2tr" => Companions(input, k) = Asked(Lock[input.coin])
         /\ k.scheme = "p2tr" =>
              Companions(input, k) = IF k.leaf = None THEN <<>> ELSE <<k.leaf>>
<1> PICK lock : lock = Lock[input.coin]
  OBVIOUS
<1>1. input.coin \in Coin /\ k.scheme = lock.kind /\ lock.kind \in Kinds
  BY EntriesAssumption, LockAssumption DEF InputOK
<1>2. InnerOf(input, k) = lock.inner
  BY InnerIs
<1> PICK hashed : hashed = PubKeyOf(input, k)
  OBVIOUS
<1>3. hashed = PubKeyItem(IF "p2pukh" \in {lock.kind, lock.inner} THEN "uncompressed"
                          ELSE "compressed", lock.key)
  BY <1>1, <1>2 DEF PubKeyOf
<1>4. CASE k.scheme = "p2tr"
  <2>1. Companions(input, k) = IF k.leaf = None THEN <<>> ELSE <<k.leaf>>
    BY <1>4 DEF Companions
  <2>2. <<>> \in Seq({k.leaf}) /\ <<k.leaf>> \in Seq({k.leaf})
    BY EmptySeq
  <2>3. Companions(input, k) \in Seq({k.leaf})
    BY <2>1, <2>2
  <2> QED
    BY <1>4, <2>1, <2>3
<1>5. CASE k.scheme = "p2pk"
  <2>1. Companions(input, k) = <<>> /\ Asked(lock) = <<>>
    BY <1>1, <1>5 DEF Companions, Asked
  <2>2. Companions(input, k) \in Seq({})
    BY <2>1
  <2> QED
    BY <1>5, <2>1, <2>2
<1>6. CASE k.scheme \in {"p2pkh", "p2pukh", "p2wpkh", "p2sh:p2wpkh"}
  <2>1. Companions(input, k) = <<hashed>>
    BY <1>6 DEF Companions
  <2>2. Asked(lock) = <<hashed>>
    BY <1>1, <1>3, <1>6 DEF Asked
  <2>3. Companions(input, k) \in Seq({hashed})
    BY <2>1
  <2> QED
    BY <1>6, <2>1, <2>2, <2>3
<1>7. CASE k.scheme = "p2wsh"
  <2> PICK program : program = Program(Gen(lock.inner, lock.key))
    OBVIOUS
  <2>1. ScriptCode(input, k) = Gen(lock.inner, lock.key)
    BY <1>1, <1>7, CodeIs DEF LockCode
  <2>2. Companions(input, k)
          = (IF lock.inner \in {"p2pkh", "p2pukh"} THEN <<hashed>> ELSE <<>>)
            \o <<program>>
    BY <1>2, <1>7, <2>1 DEF Companions
  <2>3. Asked(lock)
          = (IF lock.inner \in {"p2pkh", "p2pukh"} THEN <<hashed>> ELSE <<>>)
            \o <<program>>
    BY <1>1, <1>3, <1>7 DEF Asked
  <2>4. <<>> \in Seq({hashed, program}) /\ <<hashed>> \in Seq({hashed, program})
    BY EmptySeq
  <2>5. <<program>> \in Seq({hashed, program})
    OBVIOUS
  <2>6. Companions(input, k) \in Seq({hashed, program})
    BY <2>2, <2>4, <2>5, ConcatProperties
  <2> QED
    BY <1>7, <2>2, <2>3, <2>6
<1> QED
  BY <1>1, <1>4, <1>5, <1>6, <1>7 DEF Kinds

LEMMA StackTyped ==
  ASSUME NEW input, InputOK(input),
         NEW k, k.scheme = Lock[input.coin].kind, NEW sig
  PROVE  LET signed == SignedInput(input, k, sig)
             lock   == Lock[input.coin]
         IN
         /\ InputOK(signed)
         /\ signed.coin = input.coin /\ signed.sequence = input.sequence
         /\ StackOf(signed) = <<sig>> \o Companions(input, k)
         /\ IF lock.kind \in Legacy THEN signed.witness = <<>>
            ELSE signed.script = IF lock.kind = "p2sh:p2wpkh"
                                   THEN <<Program(Gen("p2wpkh", k.key))>> ELSE <<>>
<1> PICK lock : lock = Lock[input.coin]
  OBVIOUS
<1> PICK stack : stack = <<sig>> \o Companions(input, k)
  OBVIOUS
<1>1. CASE k.scheme \in Legacy
  <2>1. SignedInput(input, k, sig)
          = [coin |-> input.coin, sequence |-> input.sequence,
             witness |-> input.witness, script |-> stack]
    BY <1>1 DEF SignedInput, Legacy, InputOK
  <2>2. input.witness = <<>> /\ lock.kind # "p2wsh" /\ lock.kind \in Legacy
    BY <1>1 DEF Legacy, InputOK
  <2> QED
    BY <2>1, <2>2 DEF InputOK, StackOf
<1>2. CASE k.scheme \notin Legacy
  <2> PICK script : script = IF k.scheme = "p2sh:p2wpkh"
                               THEN <<Program(Gen("p2wpkh", k.key))>> ELSE <<>>
    OBVIOUS
  <2>1. SignedInput(input, k, sig)
          = [coin |-> input.coin, sequence |-> input.sequence,
             witness |-> stack, script |-> script]
    BY <1>2 DEF SignedInput, Legacy, InputOK
  <2>2. lock.kind \notin Legacy /\ (lock.kind = "p2wsh" => script = <<>>)
    BY <1>2
  <2> QED
    BY <2>1, <2>2 DEF InputOK, StackOf
<1> QED
  BY <1>1, <1>2

(* An input that sign() signs stands as its lock asks, with the digest of  *)
(* the transaction as it is.                                               *)
LEMMA SignedInputIs ==
  ASSUME FoundIsFirst, TxOK, NEW keys \in KeysFor(tx.inputs),
         NEW n \in DOMAIN tx.inputs, InputError(keys, n) = None, NEW cache,
         LET k == keys[n]
             t == DefaultType(k)
         IN  /\ k.scheme = "p2tr" \/ Unified(t) => cache.taproot = Fresh.taproot
             /\ k.scheme # "p2tr" /\ ~Unified(t) /\ AsSegwit(k) =>
                  cache.segwit = Fresh.segwit
  PROVE  LET k      == keys[n]
             sig    == Signature(cache, keys, n)
             signed == SignedInput(tx.inputs[n], k, sig)
         IN
         /\ InputOK(signed)
         /\ signed.coin = tx.inputs[n].coin
         /\ signed.sequence = tx.inputs[n].sequence
         /\ HasSignature(signed) /\ Standing(signed)
         /\ SigOn(signed).type = DefaultType(k)
         /\ SigOn(signed).digest = DigestOf(Bare, n, signed)
<1>k. PICK k : k = keys[n]
  OBVIOUS
<1>t. PICK t : t = DefaultType(k)
  OBVIOUS
<1>input. PICK input : input = tx.inputs[n]
  OBVIOUS
<1>lock. PICK lock : lock = Lock[input.coin]
  OBVIOUS
<1>sig. PICK sig : sig = Signature(cache, keys, n)
  OBVIOUS
<1>signed. PICK signed : signed = SignedInput(input, k, sig)
  OBVIOUS
<1>others. PICK others : others = Companions(input, k)
  OBVIOUS
<1>1. InputOK(input) /\ input.coin \in Coin /\ k \in Entries[input.coin]
  BY <1>k, <1>input, ToldPrevouts DEF TxOK, InputOK
<1>2. /\ k.scheme = lock.kind /\ k.root = lock.root
      /\ k.prevScript \in {PrevScript(input.coin), None}
      /\ k.amount = Amount[input.coin]
  BY <1>1, <1>lock, EntriesAssumption
<1>3. /\ k.key = lock.key
      /\ Partly(input.coin, t) =>
           ~MissingPrevScript(keys) /\ SingleError(tx, n, t) = None
      /\ k.scheme = "p2tr" =>
           /\ t = k.sighash
           /\ k.leaf # None => k.leaf.key = k.key /\ k.leaf.output = k.prevScript
      /\ k.scheme # "p2tr" => ForkId(t) = lock.cash
  BY <1>1, <1>k, <1>t, <1>lock, AcceptedEntry
<1>4. /\ InputOK(signed)
      /\ signed.coin = input.coin /\ signed.sequence = input.sequence
      /\ StackOf(signed) = <<sig>> \o others
      /\ IF lock.kind \in Legacy THEN signed.witness = <<>>
         ELSE signed.script = IF lock.kind = "p2sh:p2wpkh"
                                THEN <<Program(Gen("p2wpkh", lock.key))>> ELSE <<>>
  <2>1. k.scheme = Lock[input.coin].kind /\ k.key = Lock[input.coin].key
    BY <1>2, <1>3, <1>lock, Zenon
  <2> QED
    BY <1>1, <2>1, <1>lock, <1>signed, <1>others, StackTyped
<1>5. /\ \E S : others \in Seq(S)
      /\ k.scheme # "p2tr" => others = Asked(lock)
      /\ k.scheme = "p2tr" => others = IF k.leaf = None THEN <<>> ELSE <<k.leaf>>
  BY <1>1, <1>3, <1>lock, <1>others, CompanionsAre
<1>6. /\ StackOf(signed) # <<>>
      /\ SigOn(signed) = sig
      /\ Tail(StackOf(signed)) = others
      /\ Len(StackOf(signed)) = 1 + Len(others)
      /\ others # <<>> => StackOf(signed)[2] = others[1]
  BY <1>4, <1>5, StackIs DEF SigOn
<1>7. /\ sig.type = t /\ sig.by = k.key /\ "by" \in DOMAIN sig
      /\ sig.how = IF k.scheme # "p2tr" THEN <<"ecdsa">>
                   ELSE IF k.leaf # None THEN <<"plain">> ELSE <<"tweaked", k.root>>
      /\ sig.digest = IF k.scheme = "p2tr" THEN TapDigest(cache, keys, n, k)
                      ELSE EcdsaDigest(cache, keys, n, ScriptCode(input, k), t, AsSegwit(k))
  BY <1>k, <1>t, <1>input, <1>sig DEF Signature, SigItem
<1>8. HasSignature(signed)
  BY <1>6, <1>7 DEF HasSignature, SigOn
<1>9. Partly(input.coin, t) => Prevouts(keys) = Prevouts(Spent)
  BY <1>3, <1>input, ToldPrevouts
<1>10. CASE k.scheme = "p2tr"
  <2>1. LeafOn(signed) = k.leaf
    <3>1. CASE k.leaf = None
      <4>1. Len(others) = 0
        BY <1>5, <1>10, <3>1
      <4>2. Len(StackOf(signed)) = 1
        BY <1>6, <4>1
      <4> QED
        BY <3>1, <4>2 DEF LeafOn
    <3>2. CASE k.leaf # None
      <4> others = <<k.leaf>>
        BY <1>5, <1>10, <3>2, Zenon
      <4>1. Len(others) = 1 /\ others # <<>> /\ others[1] = k.leaf
        OBVIOUS
      <4>2. Len(StackOf(signed)) = 2 /\ StackOf(signed)[2] = k.leaf
        BY <1>6, <4>1
      <4> QED
        BY <4>2 DEF LeafOn
    <3> QED
      BY <3>1, <3>2
  <2>2. Len(StackOf(signed)) <= 2
    BY <1>5, <1>6, <1>10
  <2>3. Partly(input.coin, t)
    BY <1>2, <1>10, <1>lock DEF Partly
  <2>4. ~MissingPrevScript(keys) /\ DOMAIN keys = DOMAIN tx.inputs
    BY <1>3, <2>3, ToldPrevouts
  <2>5. k.prevScript = PrevScript(input.coin)
    BY <1>2, <1>k, <1>input, <2>4 DEF MissingPrevScript
  <2>6. Standing(signed)
    BY <1>2, <1>3, <1>4, <1>6, <1>7, <1>10, <2>1, <2>2, <2>5, <1>lock DEF Standing
  <2>7. TapDigest(cache, keys, n, k) = TapDigest(Fresh, Spent, n, k)
    BY <1>9, <1>10, <1>k, <2>3 DEF TapDigest
  <2>8. DigestOf(Bare, n, signed) = TapOf(Bare, n, k.leaf, t)
    BY <1>2, <1>4, <1>6, <1>7, <1>10, <2>1, <1>lock DEF DigestOf
  <2>9. sig.digest = DigestOf(Bare, n, signed)
    BY <1>3, <1>7, <1>10, <2>7, <2>8, TapDigestIs
  <2> QED
    BY <1>4, <1>6, <1>7, <1>8, <2>6, <2>9, <1>k, <1>t, <1>input, <1>sig, <1>signed, Zenon
<1>11. CASE k.scheme # "p2tr"
  <2>1. Standing(signed)
    <3>1. Lock[signed.coin] = lock /\ SigOn(signed) = sig /\ lock.kind # "p2tr"
      BY <1>2, <1>4, <1>6, <1>11, <1>lock, Zenon
    <3>2. Tail(StackOf(signed)) = Asked(lock)
      BY <1>5, <1>6, <1>11, Zenon
    <3>3. lock.cash = ForkId(sig.type) /\ sig.by = lock.key /\ sig.how = <<"ecdsa">>
      BY <1>3, <1>7, <1>11, Zenon
    <3> QED
      BY <1>4, <3>1, <3>2, <3>3, Zenon DEF Standing
  <2>2. ScriptCode(input, k) = LockCode(lock)
    <3>1. k.key = Lock[input.coin].key
      BY <1>3, <1>lock, Zenon
    <3>2. ScriptCode(input, k) = LockCode(Lock[input.coin])
      BY <1>1, <3>1, CodeIs, Zenon
    <3> QED
      BY <1>lock, <3>2, Zenon
  <2>3. AsSegwit(k) <=> LockSegwit(lock)
    <3>1. ForkId(DefaultType(k)) = Lock[input.coin].cash
      BY <1>3, <1>11, <1>t, <1>lock, Zenon
    <3> QED
      BY <1>1, <1>11, <1>lock, <3>1, AsLockAsks
  <2>4. Partly(input.coin, t) <=> Unified(t)
    BY <1>2, <1>11, <1>lock DEF Partly
  <2>5. EcdsaDigest(cache, keys, n, LockCode(lock), t, AsSegwit(k))
          = EcdsaDigest(Fresh, Spent, n, LockCode(lock), t, AsSegwit(k))
    <3>1. CASE Unified(t)
      BY <1>9, <1>11, <1>k, <1>t, <2>4, <3>1 DEF EcdsaDigest
    <3>2. CASE ~Unified(t) /\ AsSegwit(k)
      BY <1>2, <1>11, <1>k, <1>t, <1>input, <3>2 DEF EcdsaDigest, Spent
    <3>3. CASE ~Unified(t) /\ ~AsSegwit(k)
      BY <3>3 DEF EcdsaDigest
    <3> QED
      BY <3>1, <3>2, <3>3
  <2>6. EcdsaDigest(Fresh, Spent, n, LockCode(lock), t, AsSegwit(k))
          = EcdsaOf(Bare, n, lock, t)
    <3>1. CASE AsSegwit(k)
      BY <2>3, <3>1, EcdsaDigestIs DEF EcdsaDigest
    <3>2. CASE ~AsSegwit(k)
      BY <2>3, <3>2, EcdsaDigestIs DEF EcdsaDigest
    <3> QED
      BY <3>1, <3>2
  <2>7. DigestOf(Bare, n, signed) = EcdsaOf(Bare, n, lock, t)
    BY <1>2, <1>4, <1>6, <1>7, <1>11, <1>lock DEF DigestOf
  <2>8. sig.digest = DigestOf(Bare, n, signed)
    BY <1>7, <1>11, <2>2, <2>5, <2>6, <2>7
  <2> QED
    BY <1>4, <1>6, <1>7, <1>8, <2>1, <2>8, <1>k, <1>t, <1>input, <1>sig, <1>signed, Zenon
<1> QED
  BY <1>10, <1>11

----------------------------------------------------------------------------
(* The first transaction, and the steps of a call.                         *)
LEMMA SeqInRange ==
  ASSUME NEW T, NEW s \in Seq(T)
  PROVE  /\ s \in Seq(Range(s))
         /\ Len(s) \in Nat /\ DOMAIN s = 1 .. Len(s)
<1>1. Len(s) \in Nat /\ DOMAIN s = 1 .. Len(s)
  BY LenProperties
<1>2. s \in Seq(Range(s))
  BY SeqOfRange
<1> QED
  BY <1>1, <1>2

LEMMA SeqUpdated ==
  ASSUME NEW T, NEW s \in Seq(T), NEW i \in DOMAIN s, NEW e
  PROVE  LET u == [s EXCEPT ![i] = e] IN
         /\ u \in Seq(Range(u)) /\ Len(u) = Len(s) /\ DOMAIN u = DOMAIN s
         /\ u[i] = e /\ \A j \in DOMAIN s \ {i} : u[j] = s[j]
<1> DEFINE u == [s EXCEPT ![i] = e]
<1>1. s \in Seq(T \cup {e})
  BY SeqMonotonic
<1>2. Len(s) \in Nat /\ DOMAIN s = 1 .. Len(s)
  BY LenProperties
<1>3. u \in Seq(T \cup {e}) /\ Len(u) = Len(s)
  BY <1>1, <1>2, ExceptSeq
<1> QED
  BY <1>2, <1>3, SeqInRange

LEMMA NewInputIs ==
  ASSUME NEW c \in Coin
  PROVE  /\ InputOK(NewInput(c)) /\ ~HasSignature(NewInput(c))
         /\ NewInput(c).coin = c
<1> PICK input : input = NewInput(c)
  OBVIOUS
<1> PICK script : script = IF Lock[c].kind = "p2wsh"
      THEN <<Program(Gen(Lock[c].inner, Lock[c].key))>> ELSE <<>>
  OBVIOUS
<1>1. input = [coin |-> c, sequence |-> 0, witness |-> <<>>, script |-> script]
  BY DEF NewInput
<1>2. InputOK(input)
  BY <1>1 DEF InputOK
<1>3. StackOf(input) = <<>>
  BY <1>1 DEF StackOf, Legacy
<1> QED
  BY <1>1, <1>2, <1>3 DEF HasSignature

LEMMA InitHolds == Init => IInv
<1> SUFFICES ASSUME Init PROVE IInv
  OBVIOUS
<1> PICK draft \in Drafts, o \in Output :
      tx = [locktime |-> 0, outputs |-> <<o>>,
            inputs |-> [i \in DOMAIN draft |-> NewInput(draft[i])]]
  BY DEF Init
<1>1. /\ draft \in Seq(Coin)
      /\ \A i, j \in DOMAIN draft : draft[i] = draft[j] => i = j
  BY DraftAssumption
<1>2. Len(draft) \in Nat /\ DOMAIN draft = 1 .. Len(draft)
  BY <1>1, LenProperties
<1>3. DOMAIN tx.inputs = 1 .. Len(draft) /\ \A i \in 1 .. Len(draft) :
        draft[i] \in Coin /\ tx.inputs[i] = NewInput(draft[i])
  BY <1>1, <1>2
<1>4. tx.inputs \in [1 .. Len(draft) -> Range(tx.inputs)]
  BY <1>2 DEF Range
<1>5. tx.inputs \in Seq(Range(tx.inputs))
  BY <1>2, <1>4
<1>6. \A i \in DOMAIN tx.inputs :
        InputOK(tx.inputs[i]) /\ ~HasSignature(tx.inputs[i])
                              /\ tx.inputs[i].coin = draft[i]
  BY <1>3, NewInputIs
<1>7. TxOK
  <2>1. tx = [locktime |-> tx.locktime, outputs |-> tx.outputs, inputs |-> tx.inputs]
    OBVIOUS
  <2>2. tx.outputs \in Seq(Output)
    OBVIOUS
  <2> QED
    BY <1>1, <1>2, <1>3, <1>5, <1>6, <2>1, <2>2 DEF TxOK
<1>8. CallOK /\ PrefixSigned
  BY DEF Init, CallOK, PrefixSigned, Idle
<1>9. MadeOK
  BY <1>6 DEF Init, MadeOK
<1> QED
  BY <1>7, <1>8, <1>9 DEF IInv

LEMMA SignStep ==
  ASSUME IInv, NEW keys \in KeysFor(tx.inputs), Sign(keys)
  PROVE  IInv'
<1>1. TxOK' /\ MadeOK'
  <2>1. UNCHANGED <<tx, made>>
    BY DEF Sign
  <2> QED
    BY <2>1 DEF IInv, TxOK, MadeOK
<1>2. Len(tx.inputs) \in Nat
  BY LenProperties DEF IInv, TxOK
<1>3. CallOK'
  <2>1. call' = [n |-> 1, keys |-> keys, cache |-> NoCache] /\ tx' = tx /\ result' = None
    BY DEF Sign
  <2>2. 1 \in 1 .. Len(tx.inputs) + 1
    BY <1>2
  <2> QED
    BY <2>1, <2>2 DEF CallOK, NoCache
<1>4. PrefixSigned'
  <2>1. /\ call' = [n |-> 1, keys |-> keys, cache |-> NoCache] /\ tx' = tx
        /\ before' = tx.inputs /\ result' = None
    BY DEF Sign
  <2>2. DOMAIN tx.inputs = 1 .. Len(tx.inputs)
    BY LenProperties DEF IInv, TxOK
  <2>3. \A i \in DOMAIN tx.inputs : ~(i < 1)
    BY <1>2, <2>2
  <2> QED
    BY <2>1, <2>3 DEF PrefixSigned, Idle
<1> QED
  BY <1>1, <1>3, <1>4 DEF IInv

LEMMA EndStep ==
  ASSUME IInv, ~Idle, NEW error, End(error)
  PROVE  IInv'
<1>1. /\ result' = [error |-> error, at |-> call.n] /\ call' = None
      /\ UNCHANGED <<tx, before, made>>
  BY DEF End
<1>2. TxOK' /\ MadeOK'
  BY <1>1 DEF IInv, TxOK, MadeOK
<1>3. CallOK'
  BY <1>1 DEF CallOK, Idle
<1>4. \A i \in DOMAIN tx.inputs :
        IF i < call.n THEN Spendable(i) ELSE tx.inputs[i] = before[i]
  BY DEF IInv, PrefixSigned
<1>5. \A i \in DOMAIN tx.inputs : Spendable(i)' <=> Spendable(i)
  <2>1. SpendableAs /\ SpendableAs'
    BY SpendableIs, PTL
  <2>2. Bare' = Bare
    BY <1>1 DEF Bare
  <2> QED
    BY <1>1, <2>1, <2>2 DEF SpendableAs
<1>6. PrefixSigned'
  BY <1>1, <1>4, <1>5 DEF PrefixSigned, Idle
<1> QED
  BY <1>2, <1>3, <1>6 DEF IInv

LEMMA WrongCountStep ==
  ASSUME IInv, WrongCount
  PROVE  IInv'
<1>1. /\ result' = [error |-> "KeyCount", at |-> 1] /\ call' = None
      /\ before' = tx.inputs /\ UNCHANGED <<tx, made>>
  BY DEF WrongCount, Idle
<1>2. TxOK' /\ MadeOK'
  BY <1>1 DEF IInv, TxOK, MadeOK
<1>3. CallOK'
  BY <1>1 DEF CallOK, Idle
<1>4. \A i \in DOMAIN tx.inputs : ~(i < 1)
  BY LenProperties DEF IInv, TxOK
<1>5. PrefixSigned'
  BY <1>1, <1>4 DEF PrefixSigned, Idle
<1> QED
  BY <1>2, <1>3, <1>5 DEF IInv

(* A signed input changes nothing that a signature or an entry is about.   *)
WroteOnly(n, signed) ==
  /\ TxOK' /\ Bare' = Bare /\ Fresh' = Fresh
  /\ DOMAIN tx'.inputs = DOMAIN tx.inputs
  /\ Len(tx'.inputs) = Len(tx.inputs)
  /\ tx'.inputs[n] = signed
  /\ \A i \in DOMAIN tx.inputs : /\ tx'.inputs[i].coin = tx.inputs[i].coin
                                 /\ i # n => tx'.inputs[i] = tx.inputs[i]
  /\ KeysFor(tx'.inputs) = KeysFor(tx.inputs)

LEMMA OnlyOneWritten ==
  ASSUME TxOK, NEW n \in DOMAIN tx.inputs, NEW signed,
         tx' = [tx EXCEPT !.inputs[n] = signed],
         InputOK(signed),
         signed.coin = tx.inputs[n].coin, signed.sequence = tx.inputs[n].sequence
  PROVE  WroteOnly(n, signed)
<1> PICK inputs : inputs = tx.inputs
  OBVIOUS
<1> PICK new : new = [inputs EXCEPT ![n] = signed]
  OBVIOUS
<1>1. tx' = [locktime |-> tx.locktime, outputs |-> tx.outputs, inputs |-> new]
  BY DEF TxOK
<1>2. /\ new \in Seq(Range(new)) /\ Len(new) = Len(inputs)
      /\ DOMAIN new = DOMAIN inputs /\ new[n] = signed
      /\ \A i \in DOMAIN inputs \ {n} : new[i] = inputs[i]
  <2>1. inputs \in Seq(Range(inputs))
    BY DEF TxOK
  <2> QED
    BY <2>1, SeqUpdated
<1>3. \A i \in DOMAIN inputs : new[i].coin = inputs[i].coin
                              /\ new[i].sequence = inputs[i].sequence
  BY <1>2
<1>4. TxOK'
  <2>1. \A i \in DOMAIN new : InputOK(new[i])
    BY <1>2 DEF TxOK
  <2>2. \A i, j \in DOMAIN new : new[i].coin = new[j].coin => i = j
    BY <1>2, <1>3 DEF TxOK
  <2>3. tx.outputs \in Seq(Output)
    BY DEF TxOK
  <2> QED
    <3>1. /\ tx'.inputs = new /\ tx'.outputs = tx.outputs
          /\ tx'.locktime = tx.locktime
      BY <1>1
    <3>2. tx' = [locktime |-> tx'.locktime, outputs |-> tx'.outputs,
                 inputs |-> tx'.inputs]
      BY <1>1, <3>1, Zenon
    <3>3. tx'.outputs \in Seq(Output)
      BY <2>3, <3>1, Zenon
    <3>4. tx'.inputs \in Seq(Range(tx'.inputs))
      BY <1>2, <3>1, Zenon
    <3>5. /\ \A i \in DOMAIN tx'.inputs : InputOK(tx'.inputs[i])
          /\ \A i, j \in DOMAIN tx'.inputs :
               tx'.inputs[i].coin = tx'.inputs[j].coin => i = j
      BY <2>1, <2>2, <3>1
    <3> QED
      BY <3>2, <3>3, <3>4, <3>5, Zenon DEF TxOK
<1>5. Outpoints(tx)' = Outpoints(tx) /\ SequencesOf(tx)' = SequencesOf(tx)
  BY <1>1, <1>2, <1>3 DEF Outpoints, SequencesOf
<1>6. Bare' = Bare
  BY <1>1, <1>5 DEF Bare
<1>7. Fresh' = Fresh
  <2>1. Spent' = Spent
    BY <1>1, <1>2, <1>3 DEF Spent
  <2> QED
    BY <1>1, <1>5, <2>1 DEF Fresh, SegwitMidstate, TaprootMidstate, Prevouts
<1>8. KeysFor(new) = KeysFor(inputs)
  <2>1. DOMAIN new = DOMAIN inputs
    BY <1>2, Zenon
  <2>2. \A i \in DOMAIN new : new[i].coin = inputs[i].coin
    BY <1>3, <2>1, Zenon
  <2>3. {Entries[new[i].coin] : i \in DOMAIN new}
          = {Entries[inputs[i].coin] : i \in DOMAIN inputs}
    BY <2>1, <2>2
  <2> QED
    BY <2>1, <2>2, <2>3 DEF KeysFor
<1>9. /\ DOMAIN tx'.inputs = DOMAIN tx.inputs
      /\ Len(tx'.inputs) = Len(tx.inputs)
      /\ tx'.inputs[n] = signed
      /\ \A i \in DOMAIN tx.inputs : /\ tx'.inputs[i].coin = tx.inputs[i].coin
                                     /\ i # n => tx'.inputs[i] = tx.inputs[i]
  BY <1>1, <1>2, <1>3
<1>10. KeysFor(tx'.inputs) = KeysFor(tx.inputs)
  BY <1>1, <1>8
<1> QED
  BY <1>4, <1>6, <1>7, <1>9, <1>10, Zenon DEF WroteOnly

LEMMA SignNextStep ==
  ASSUME FoundIsFirst, IInv, SignNext
  PROVE  IInv'
<1>n. PICK n : n = call.n
  OBVIOUS
<1>keys. PICK keys : keys = call.keys
  OBVIOUS
<1>k. PICK k : k = keys[n]
  OBVIOUS
<1>t. PICK t : t = DefaultType(k)
  OBVIOUS
<1>cache. PICK cache : cache = CacheFor(call.cache, keys, k)
  OBVIOUS
<1>input. PICK input : input = tx.inputs[n]
  OBVIOUS
<1>signed. PICK signed : signed = SignedInput(input, k, Signature(cache, keys, n))
  OBVIOUS
<1>1. /\ ~Idle /\ n <= Len(keys)
      /\ InputError(keys, n) = None
      /\ tx' = [tx EXCEPT !.inputs[n] = SignedInput(@, k, Signature(cache, keys, n))]
      /\ call' = [call EXCEPT !.n = n + 1, !.cache = cache]
      /\ made' = [made EXCEPT ![input.coin] = Purpose(n, k)]
      /\ result' = result /\ before' = before
  BY <1>n, <1>keys, <1>k, <1>cache, <1>input DEF SignNext, Signing
<1>2. /\ TxOK
      /\ call = [n |-> n, keys |-> keys, cache |-> call.cache]
      /\ keys \in KeysFor(tx.inputs)
      /\ n \in 1 .. Len(tx.inputs) + 1
      /\ call.cache = [segwit |-> call.cache.segwit, taproot |-> call.cache.taproot]
      /\ call.cache.segwit \in {None, Fresh.segwit}
      /\ call.cache.taproot \in {None, Fresh.taproot}
      /\ result = None
  BY <1>1, <1>n, <1>keys DEF IInv, CallOK
<1>3. Len(tx.inputs) \in Nat /\ DOMAIN tx.inputs = 1 .. Len(tx.inputs)
  BY <1>2, LenProperties DEF TxOK
<1>4. Len(keys) = Len(tx.inputs)
  BY <1>2, KeysCount
<1>5. n \in DOMAIN tx.inputs
  BY <1>1, <1>2, <1>3, <1>4
<1>6. /\ input.coin \in Coin /\ InputOK(input)
      /\ k \in Entries[input.coin] /\ k.scheme = Lock[input.coin].kind
  <2>1. InputOK(input) /\ input.coin \in Coin
    BY <1>2, <1>5, <1>input DEF TxOK, InputOK
  <2>2. keys[n] \in Entries[tx.inputs[n].coin]
    BY <1>2, <1>5, ToldPrevouts
  <2>3. k \in Entries[input.coin]
    BY <2>2, <1>k, <1>input, Zenon
  <2> QED
    BY <2>1, <2>3, EntriesAssumption
<1>7. /\ cache = [segwit |-> cache.segwit, taproot |-> cache.taproot]
      /\ cache.segwit \in {None, Fresh.segwit}
      /\ cache.taproot \in {None, Fresh.taproot}
      /\ k.scheme = "p2tr" \/ Unified(t) => cache.taproot = Fresh.taproot
      /\ k.scheme # "p2tr" /\ ~Unified(t) /\ AsSegwit(k) =>
           cache.segwit = Fresh.segwit
  BY <1>1, <1>2, <1>5, <1>k, <1>t, <1>cache, CacheReady
<1>8. /\ InputOK(signed)
      /\ signed.coin = input.coin /\ signed.sequence = input.sequence
      /\ HasSignature(signed) /\ Standing(signed)
      /\ SigOn(signed).type = t
      /\ SigOn(signed).digest = DigestOf(Bare, n, signed)
  <2>1. LET e == keys[n]
            u == DefaultType(e)
        IN  /\ e.scheme = "p2tr" \/ Unified(u) => cache.taproot = Fresh.taproot
            /\ e.scheme # "p2tr" /\ ~Unified(u) /\ AsSegwit(e) =>
                 cache.segwit = Fresh.segwit
    BY <1>7, <1>k, <1>t, Zenon
  <2>2. LET made_ == SignedInput(tx.inputs[n], keys[n], Signature(cache, keys, n)) IN
        /\ InputOK(made_)
        /\ made_.coin = tx.inputs[n].coin /\ made_.sequence = tx.inputs[n].sequence
        /\ HasSignature(made_) /\ Standing(made_)
        /\ SigOn(made_).type = DefaultType(keys[n])
        /\ SigOn(made_).digest = DigestOf(Bare, n, made_)
    BY <1>1, <1>2, <1>5, <2>1, SignedInputIs
  <2> QED
    BY <2>2, <1>k, <1>t, <1>input, <1>signed, Zenon
<1>9. Partly(input.coin, t) => SingleError(tx, n, t) = None
  BY <1>1, <1>6, <1>k, <1>t, AcceptedEntry
<1>10. tx' = [tx EXCEPT !.inputs[n] = signed]
  BY <1>1, <1>k, <1>input, <1>signed
<1>11. /\ TxOK' /\ Bare' = Bare /\ Fresh' = Fresh
       /\ DOMAIN tx'.inputs = DOMAIN tx.inputs
       /\ Len(tx'.inputs) = Len(tx.inputs)
       /\ tx'.inputs[n] = signed
       /\ \A i \in DOMAIN tx.inputs : /\ tx'.inputs[i].coin = tx.inputs[i].coin
                                      /\ i # n => tx'.inputs[i] = tx.inputs[i]
       /\ KeysFor(tx'.inputs) = KeysFor(tx.inputs)
  <2>1. /\ InputOK(signed)
        /\ signed.coin = tx.inputs[n].coin /\ signed.sequence = tx.inputs[n].sequence
    BY <1>8, <1>input, Zenon
  <2>2. TxOK
    BY <1>2, Zenon
  <2>3. WroteOnly(n, signed)
    BY <1>5, <1>10, <2>1, <2>2, OnlyOneWritten, Zenon
  <2> QED
    BY <2>3, Zenon DEF WroteOnly
<1>12. call' = [n |-> n + 1, keys |-> keys, cache |-> cache]
  <2>1. call = [n |-> n, keys |-> keys, cache |-> call.cache]
    BY <1>2, Zenon
  <2>2. call' = [call EXCEPT !.n = n + 1, !.cache = cache]
    BY <1>1, Zenon
  <2>3. PICK held : call = [n |-> n, keys |-> keys, cache |-> held]
    BY <2>1, Zenon
  <2>4. call' = [[n |-> n, keys |-> keys, cache |-> held] EXCEPT !.n = n + 1, !.cache = cache]
    BY <2>2, <2>3, Zenon
  <2> QED
    BY <2>4
<1>13. CallOK'
  <2>1. n + 1 \in 1 .. Len(tx.inputs) + 1
    BY <1>3, <1>5
  <2>2. call'.n = n + 1 /\ call'.keys = keys /\ call'.cache = cache
    BY <1>12
  <2>3. call' = [n |-> call'.n, keys |-> call'.keys, cache |-> call'.cache]
    BY <1>12, <2>2, Zenon
  <2>4. call'.keys \in KeysFor(tx'.inputs) /\ call'.n \in 1 .. Len(tx'.inputs) + 1
    BY <1>2, <1>11, <2>1, <2>2, Zenon
  <2>5. call'.cache = [segwit |-> call'.cache.segwit, taproot |-> call'.cache.taproot]
    BY <1>7, <2>2, Zenon
  <2>6. /\ call'.cache.segwit \in {None, Fresh'.segwit}
        /\ call'.cache.taproot \in {None, Fresh'.taproot}
    BY <1>7, <1>11, <2>2, Zenon
  <2>7. result' = None
    BY <1>1, <1>2, Zenon
  <2> QED
    BY <2>3, <2>4, <2>5, <2>6, <2>7, Zenon DEF CallOK
<1>14. PrefixSigned'
  <2>1. SpendableAs /\ SpendableAs'
    BY SpendableIs, PTL
  <2>2. tx'.outputs = tx.outputs
    BY <1>2, <1>10 DEF TxOK
  <2>3. \A i \in DOMAIN tx.inputs : \A type :
          SingleError(tx, i, type)' = SingleError(tx, i, type)
    BY <2>2 DEF SingleError
  <2>4. Spendable(n)'
    <3>1. /\ n \in DOMAIN tx'.inputs /\ tx'.inputs[n] = signed /\ Bare' = Bare
          /\ \A type : SingleError(tx, n, type)' = SingleError(tx, n, type)
      BY <1>5, <1>11, <2>3, Zenon
    <3>2. Spendable(n)' <=>
            /\ HasSignature(signed) /\ Standing(signed)
            /\ Partly(signed.coin, SigOn(signed).type) =>
                 SingleError(tx, n, SigOn(signed).type) = None
            /\ SigOn(signed).digest = DigestOf(Bare, n, signed)
      BY <2>1, <3>1 DEF SpendableAs
    <3>3. Partly(signed.coin, SigOn(signed).type) =>
            SingleError(tx, n, SigOn(signed).type) = None
      BY <1>8, <1>9, Zenon
    <3> QED
      BY <1>8, <3>2, <3>3, Zenon
  <2>5. \A i \in DOMAIN tx.inputs : i # n /\ Spendable(i) => Spendable(i)'
    BY <1>11, <2>1, <2>3 DEF SpendableAs
  <2>6. \A i \in DOMAIN tx.inputs :
          IF i < n THEN Spendable(i) ELSE tx.inputs[i] = before[i]
    BY <1>1, <1>n DEF IInv, PrefixSigned
  <2>7. ASSUME NEW i \in DOMAIN tx.inputs
        PROVE  IF i < n + 1 THEN Spendable(i)' ELSE tx'.inputs[i] = before'[i]
    <3>1. CASE i < n
      BY <1>3, <1>5, <2>5, <2>6, <3>1
    <3>2. CASE i = n
      BY <1>3, <2>4, <3>2
    <3>3. CASE i > n
      BY <1>1, <1>3, <1>5, <1>11, <2>6, <3>3
    <3> QED
      BY <1>3, <1>5, <3>1, <3>2, <3>3
  <2>8. Idle' => result' = None
    BY <1>1, <1>2
  <2> QED
    BY <1>11, <1>12, <2>7, <2>8 DEF PrefixSigned
<1>15. MadeOK'
  <2>1. made = [c \in Coin |-> made[c]]
    BY DEF IInv, MadeOK
  <2>2. /\ made' = [c \in Coin |-> made'[c]]
        /\ made'[input.coin] = Purpose(n, k)
        /\ \A c \in Coin : c # input.coin => made'[c] = made[c]
    BY <1>1, <1>6, <2>1
  <2>3. ForPurpose(Purpose(n, k), signed)
    <3>p. PICK p : p = Purpose(n, k)
      OBVIOUS
    <3>1. /\ p.of = Bare /\ p.at = n /\ p.type = t
          /\ p.partly <=> k.scheme = "p2tr" \/ Unified(t)
      BY <1>t, <3>p DEF Purpose
    <3>2. Bare = [locktime |-> Bare.locktime, outputs |-> Bare.outputs,
                  outpoints |-> Bare.outpoints, sequences |-> Bare.sequences]
      BY DEF Bare
    <3>3. DOMAIN Bare.outpoints = DOMAIN tx.inputs
      BY DEF Bare, Outpoints
    <3>4. \A i \in DOMAIN tx.inputs : Bare.outpoints[i] = tx.inputs[i].coin
      BY FreshIsBare
    <3>5. \A i, j \in DOMAIN tx.inputs :
            Bare.outpoints[i] = Bare.outpoints[j] => i = j
      BY <1>2, <3>4 DEF TxOK
    <3>6. p.partly <=> Partly(signed.coin, t)
      BY <1>6, <1>8, <3>1 DEF Partly
    <3>7. ForPurpose(p, signed)
      <4>1. p.of = [locktime |-> p.of.locktime, outputs |-> p.of.outputs,
                    outpoints |-> p.of.outpoints, sequences |-> p.of.sequences]
        BY <3>1, <3>2, Zenon
      <4>2. p.at \in DOMAIN p.of.outpoints
        BY <1>5, <3>1, <3>3, Zenon
      <4>3. p.of.outpoints[p.at] = signed.coin
        BY <1>5, <1>8, <1>input, <3>1, <3>4
      <4>4. \A i, j \in DOMAIN p.of.outpoints :
              p.of.outpoints[i] = p.of.outpoints[j] => i = j
        BY <3>1, <3>3, <3>5
      <4>5. /\ p.type = SigOn(signed).type
            /\ p.partly <=> Partly(signed.coin, p.type)
        BY <1>8, <3>1, <3>6, Zenon
      <4>6. Standing(signed) /\ SigOn(signed).digest = DigestOf(p.of, p.at, signed)
        BY <1>8, <3>1, Zenon
      <4> QED
        BY <4>1, <4>2, <4>3, <4>4, <4>5, <4>6 DEF ForPurpose
    <3> QED
      BY <3>7, <3>p, Zenon
  <2>4. ASSUME NEW i \in DOMAIN tx.inputs, HasSignature(tx'.inputs[i])
        PROVE  ForPurpose(made'[tx'.inputs[i].coin], tx'.inputs[i])
    <3>1. CASE i = n
      BY <1>8, <1>11, <2>2, <2>3, <3>1
    <3>2. CASE i # n
      <4>1. tx'.inputs[i] = tx.inputs[i]
        BY <1>11, <3>2
      <4>2. tx.inputs[i].coin # input.coin /\ tx.inputs[i].coin \in Coin
        BY <1>2, <1>5, <1>input, <3>2 DEF TxOK, InputOK
      <4> QED
        BY <2>2, <2>4, <4>1, <4>2 DEF IInv, MadeOK
    <3> QED
      BY <3>1, <3>2
  <2> QED
    BY <1>11, <2>2, <2>4 DEF MadeOK
<1> QED
  BY <1>11, <1>13, <1>14, <1>15 DEF IInv

----------------------------------------------------------------------------
(* The edits of the application.                                           *)

(* An input without a signature, or one that stood there and may have      *)
(* another sequence number.                                                *)
FromInputs(input) ==
  HasSignature(input) =>
    \E j \in DOMAIN tx.inputs :
      /\ input.coin = tx.inputs[j].coin
      /\ input.script = tx.inputs[j].script
      /\ input.witness = tx.inputs[j].witness

LEMMA SequenceUnread ==
  ASSUME NEW p, NEW x, NEW y,
         y.coin = x.coin, y.script = x.script, y.witness = x.witness
  PROVE  /\ HasSignature(y) <=> HasSignature(x)
         /\ ForPurpose(p, x) => ForPurpose(p, y)
<1>1. StackOf(y) = StackOf(x)
  BY DEF StackOf
<1>2. SigOn(y) = SigOn(x) /\ LeafOn(y) = LeafOn(x)
  BY <1>1 DEF SigOn, LeafOn
<1>3. HasSignature(y) <=> HasSignature(x)
  BY <1>1 DEF HasSignature
<1>4. Standing(y) <=> Standing(x)
  BY <1>1, <1>2 DEF Standing
<1>5. DigestOf(p.of, p.at, y) = DigestOf(p.of, p.at, x)
  BY <1>2 DEF DigestOf
<1> QED
  BY <1>2, <1>3, <1>4, <1>5 DEF ForPurpose

(* A transaction the application may put in the place of the one it has.   *)
Redrafted(new) ==
  /\ new = [locktime |-> new.locktime, outputs |-> new.outputs,
            inputs |-> new.inputs]
  /\ new.outputs \in Seq(Output)
  /\ new.inputs \in Seq(Range(new.inputs))
  /\ \A i \in DOMAIN new.inputs : InputOK(new.inputs[i]) /\ FromInputs(new.inputs[i])
  /\ \A i, j \in DOMAIN new.inputs :
       new.inputs[i].coin = new.inputs[j].coin => i = j

LEMMA EditStep ==
  ASSUME IInv, NEW new, Edit(new), Redrafted(new)
  PROVE  IInv'
<1>1. tx' = new /\ made' = made /\ call' = call /\ call = None /\ result' = None
  BY DEF Edit, Idle
<1>2. TxOK'
  BY <1>1 DEF TxOK, Redrafted
<1>3. CallOK' /\ PrefixSigned'
  BY <1>1 DEF CallOK, PrefixSigned, Idle
<1>4. ASSUME NEW i \in DOMAIN new.inputs, HasSignature(new.inputs[i])
      PROVE  ForPurpose(made[new.inputs[i].coin], new.inputs[i])
  <2>1. PICK j \in DOMAIN tx.inputs :
          /\ new.inputs[i].coin = tx.inputs[j].coin
          /\ new.inputs[i].script = tx.inputs[j].script
          /\ new.inputs[i].witness = tx.inputs[j].witness
    BY <1>4 DEF Redrafted, FromInputs
  <2>2. HasSignature(tx.inputs[j])
    BY <1>4, <2>1, SequenceUnread
  <2>3. ForPurpose(made[tx.inputs[j].coin], tx.inputs[j])
    BY <2>2 DEF IInv, MadeOK
  <2> QED
    BY <2>1, <2>3, SequenceUnread
<1>5. MadeOK'
  BY <1>1, <1>4 DEF IInv, MadeOK
<1> QED
  BY <1>2, <1>3, <1>5 DEF IInv

(* The edits that leave the inputs alone.                                  *)
LEMMA EditAround ==
  ASSUME IInv, NEW new, Edit(new),
         new = [locktime |-> new.locktime, outputs |-> new.outputs,
                inputs |-> tx.inputs],
         new.outputs \in Seq(Output)
  PROVE  IInv'
<1>1. new.inputs = tx.inputs
  OBVIOUS
<1>2. new = [locktime |-> new.locktime, outputs |-> new.outputs,
             inputs |-> new.inputs]
  OBVIOUS
<1>3. \A i \in DOMAIN tx.inputs : FromInputs(tx.inputs[i])
  BY DEF FromInputs
<1> QED
  <2>1. Redrafted(new)
    BY <1>1, <1>2, <1>3 DEF IInv, TxOK, Redrafted
  <2> QED
    BY <2>1, EditStep, Zenon

LEMMA AddOutputStep ==
  ASSUME IInv, NEW o \in Output, AddOutput(o)
  PROVE  IInv'
<1> PICK new : new = [tx EXCEPT !.outputs = Append(@, o)]
  OBVIOUS
<1>1. Edit(new)
  BY DEF AddOutput
<1>2. tx.outputs \in Seq(Output)
  BY DEF IInv, TxOK
<1>3. Append(tx.outputs, o) \in Seq(Output)
  BY <1>2
<1>4. new = [locktime |-> tx.locktime, outputs |-> Append(tx.outputs, o),
             inputs |-> tx.inputs]
  BY DEF IInv, TxOK
<1> QED
  BY <1>1, <1>3, <1>4, EditAround

LEMMA SetOutputStep ==
  ASSUME IInv, NEW i \in DOMAIN tx.outputs, NEW o \in Output, SetOutput(i, o)
  PROVE  IInv'
<1> PICK new : new = [tx EXCEPT !.outputs[i] = o]
  OBVIOUS
<1>1. Edit(new)
  BY DEF SetOutput
<1>2. tx.outputs \in Seq(Output) /\ DOMAIN tx.outputs = 1 .. Len(tx.outputs)
  BY LenProperties DEF IInv, TxOK
<1>3. [tx.outputs EXCEPT ![i] = o] \in Seq(Output)
  BY <1>2, ExceptSeq
<1>4. new = [locktime |-> tx.locktime, outputs |-> [tx.outputs EXCEPT ![i] = o],
             inputs |-> tx.inputs]
  BY DEF IInv, TxOK
<1> QED
  BY <1>1, <1>3, <1>4, EditAround

LEMMA DropOutputStep ==
  ASSUME IInv, DropOutput
  PROVE  IInv'
<1> PICK new : new = [tx EXCEPT !.outputs = Front(@)]
  OBVIOUS
<1>1. Edit(new) /\ tx.outputs # <<>>
  BY DEF DropOutput
<1>2. tx.outputs \in Seq(Output)
  BY DEF IInv, TxOK
<1>3. Front(tx.outputs) \in Seq(Output)
  <2>1. Len(tx.outputs) \in Nat \ {0}
    BY <1>1, <1>2, EmptySeq
  <2>2. SubSeq(tx.outputs, 1, Len(tx.outputs) - 1) \in Seq(Output)
    BY <1>2, <2>1, SubSeqProperties
  <2> QED
    BY <2>2 DEF Front
<1>4. new = [locktime |-> tx.locktime, outputs |-> Front(tx.outputs),
             inputs |-> tx.inputs]
  BY DEF IInv, TxOK
<1> QED
  BY <1>1, <1>3, <1>4, EditAround

LEMMA SetLocktimeStep ==
  ASSUME IInv, SetLocktime
  PROVE  IInv'
<1> PICK new : new = [tx EXCEPT !.locktime = 1 - @]
  OBVIOUS
<1>1. Edit(new)
  BY DEF SetLocktime
<1>2. tx.outputs \in Seq(Output)
  BY DEF IInv, TxOK
<1>3. new = [locktime |-> 1 - tx.locktime, outputs |-> tx.outputs,
             inputs |-> tx.inputs]
  BY DEF IInv, TxOK
<1> QED
  BY <1>1, <1>2, <1>3, EditAround

(* The edits that rewrite one input.                                       *)
LEMMA EditOne ==
  ASSUME IInv, NEW new, Edit(new), NEW i \in DOMAIN tx.inputs, NEW input,
         new = [tx EXCEPT !.inputs[i] = input],
         InputOK(input), FromInputs(input), input.coin = tx.inputs[i].coin
  PROVE  IInv'
<1>1. PICK old : old = tx.inputs
  OBVIOUS
<1>2. PICK inputs : inputs = [old EXCEPT ![i] = input]
  OBVIOUS
<1>3. new = [locktime |-> tx.locktime, outputs |-> tx.outputs, inputs |-> inputs]
  BY <1>1, <1>2 DEF IInv, TxOK
<1>4. /\ inputs \in Seq(Range(inputs))
      /\ DOMAIN inputs = DOMAIN old /\ inputs[i] = input
      /\ \A j \in DOMAIN old \ {i} : inputs[j] = old[j]
  <2>1. old \in Seq(Range(old)) /\ i \in DOMAIN old
    BY <1>1 DEF IInv, TxOK
  <2> QED
    BY <1>2, <2>1, SeqUpdated
<1>5. \A j \in DOMAIN old : InputOK(old[j]) /\ FromInputs(old[j])
  BY <1>1 DEF IInv, TxOK, FromInputs
<1>6. \A j \in DOMAIN inputs :
        InputOK(inputs[j]) /\ FromInputs(inputs[j]) /\ inputs[j].coin = old[j].coin
  BY <1>1, <1>4, <1>5
<1>7. \A j, m \in DOMAIN old : old[j].coin = old[m].coin => j = m
  BY <1>1 DEF IInv, TxOK
<1>8. \A j, m \in DOMAIN inputs : inputs[j].coin = inputs[m].coin => j = m
  BY <1>4, <1>6, <1>7
<1>9. tx.outputs \in Seq(Output)
  BY DEF IInv, TxOK
<1>10. new.inputs = inputs /\ new.outputs = tx.outputs /\ new.locktime = tx.locktime
  BY <1>3
<1>15. new = [locktime |-> new.locktime, outputs |-> new.outputs,
              inputs |-> new.inputs]
  BY <1>3, <1>10, Zenon
<1>11. new.outputs \in Seq(Output)
  BY <1>9, <1>10, Zenon
<1>12. new.inputs \in Seq(Range(new.inputs))
  BY <1>4, <1>10, Zenon
<1>13. \A j \in DOMAIN new.inputs :
         InputOK(new.inputs[j]) /\ FromInputs(new.inputs[j])
  BY <1>6, <1>10, Zenon
<1>14. \A j, m \in DOMAIN new.inputs :
         new.inputs[j].coin = new.inputs[m].coin => j = m
  BY <1>8, <1>10
<1> QED
  <2>1. Redrafted(new)
    BY <1>11, <1>12, <1>13, <1>14, <1>15 DEF Redrafted
  <2> QED
    BY <2>1, EditStep, Zenon

LEMMA SetSequenceStep ==
  ASSUME IInv, NEW i \in DOMAIN tx.inputs, SetSequence(i)
  PROVE  IInv'
<1> PICK old : old = tx.inputs[i]
  OBVIOUS
<1> PICK input : input = [old EXCEPT !.sequence = 1 - @]
  OBVIOUS
<1> PICK new : new = [tx EXCEPT !.inputs[i] = input]
  OBVIOUS
<1>1. InputOK(old)
  BY DEF IInv, TxOK
<1>2. input = [coin |-> old.coin, sequence |-> 1 - old.sequence,
               witness |-> old.witness, script |-> old.script]
  BY <1>1 DEF InputOK
<1>3. InputOK(input)
  BY <1>1, <1>2 DEF InputOK
<1>4. FromInputs(input)
  BY <1>2 DEF FromInputs
<1>5. Edit(new)
  <2>1. new = [tx EXCEPT !.inputs[i].sequence = 1 - @]
    BY DEF IInv, TxOK
  <2> QED
    BY <2>1 DEF SetSequence
<1> QED
  BY <1>2, <1>3, <1>4, <1>5, EditOne

LEMMA PrefillCounts ==
  ASSUME NEW kind \in Kinds, kind # "p2sh:p2wpkh", NEW inner
  PROVE  PrefillItems(kind, inner) \in {1, 2, 3}
<1>1. kind \in {"p2pk", "p2tr", "p2pkh", "p2pukh", "p2wpkh", "p2wsh"}
  BY DEF Kinds
<1> QED
  BY <1>1 DEF PrefillItems

LEMMA FirstOf == \A n \in {1, 2, 3} : 1 \in 1 .. n
  OBVIOUS

(* An input whose stack starts with a placeholder has no signature.        *)
LEMMA PlaceholderUnsigned ==
  ASSUME NEW x, NEW n \in {1, 2, 3},
         StackOf(x) = [j \in 1 .. n |-> Placeholder]
  PROVE  ~HasSignature(x)
<1>1. 1 \in 1 .. n
  BY FirstOf, Zenon
<1>2. StackOf(x)[1] = Placeholder
  BY <1>1, Zenon
<1>3. "by" \notin DOMAIN Placeholder
  BY DEF Placeholder
<1> QED
  BY <1>2, <1>3, Zenon DEF HasSignature

LEMMA PrefillStep ==
  ASSUME IInv, NEW i \in DOMAIN tx.inputs, Prefill(i)
  PROVE  IInv'
<1>1. PICK old : old = tx.inputs[i]
  OBVIOUS
<1>2. PICK lock : lock = Lock[old.coin]
  OBVIOUS
<1>3. PICK count : count = PrefillItems(lock.kind, lock.inner)
  OBVIOUS
<1>4. PICK items : items = [j \in 1 .. count |-> Placeholder]
  OBVIOUS
<1>5. PICK script : script = IF lock.kind \in Legacy THEN items ELSE <<>>
  OBVIOUS
<1>6. PICK witness : witness = IF lock.kind \in Legacy THEN <<>> ELSE items
  OBVIOUS
<1>7. PICK input : input = [old EXCEPT !.script = script, !.witness = witness]
  OBVIOUS
<1>8. PICK new : new = [tx EXCEPT !.inputs[i] = input]
  OBVIOUS
<1>9. InputOK(old)
  BY <1>1 DEF IInv, TxOK
<1>10. input = [coin |-> old.coin, sequence |-> old.sequence,
                witness |-> witness, script |-> script]
  BY <1>7, <1>9 DEF InputOK
<1>11. InputOK(input)
  BY <1>2, <1>5, <1>6, <1>9, <1>10 DEF InputOK, Legacy
<1>12. ~HasSignature(input)
  <2>1. StackOf(input) = items
    BY <1>2, <1>5, <1>6, <1>10 DEF StackOf
  <2>2. lock.kind \in Kinds /\ lock.kind # "p2sh:p2wpkh"
    <3>1. Lock[tx.inputs[i].coin].kind # "p2sh:p2wpkh"
      BY Zenon DEF Prefill
    <3> QED
      BY <1>1, <1>2, <1>9, <3>1, LockAssumption DEF InputOK
  <2>3. count \in {1, 2, 3}
    BY <1>3, <2>2, PrefillCounts, Zenon
  <2> QED
    BY <1>4, <2>1, <2>3, PlaceholderUnsigned, Zenon
<1>13. Edit(new)
  <2>1. new = [tx EXCEPT !.inputs[i].script = script, !.inputs[i].witness = witness]
    BY <1>1, <1>7, <1>8 DEF IInv, TxOK
  <2>2. Edit([tx EXCEPT !.inputs[i].script  = IF lock.kind \in Legacy THEN items ELSE <<>>,
                        !.inputs[i].witness = IF lock.kind \in Legacy THEN <<>> ELSE items])
    <3>1. items = [j \in 1 .. PrefillItems(Lock[tx.inputs[i].coin].kind,
                                           Lock[tx.inputs[i].coin].inner) |-> Placeholder]
      BY <1>1, <1>2, <1>3, <1>4, Zenon
    <3>2. lock = Lock[tx.inputs[i].coin]
      BY <1>1, <1>2, Zenon
    <3> QED
      BY <3>1, <3>2, Zenon DEF Prefill, Legacy
  <2>3. Edit([tx EXCEPT !.inputs[i].script = script, !.inputs[i].witness = witness])
    BY <1>5, <1>6, <2>2, Zenon
  <2> QED
    BY <2>1, <2>3, Zenon
<1>14. FromInputs(input)
  BY <1>12, Zenon DEF FromInputs
<1>15. input.coin = tx.inputs[i].coin
  BY <1>1, <1>10
<1> QED
  BY <1>8, <1>11, <1>13, <1>14, <1>15, EditOne, Zenon

LEMMA ClearInputsStep ==
  ASSUME IInv, ClearInputs
  PROVE  IInv'
<1>1. PICK old : old = tx.inputs
  OBVIOUS
<1>2. PICK inputs : inputs = [i \in DOMAIN old |->
                                [old[i] EXCEPT !.script = <<>>, !.witness = <<>>]]
  OBVIOUS
<1>3. PICK new : new = [tx EXCEPT !.inputs = inputs]
  OBVIOUS
<1>4. Edit(new)
  BY <1>1, <1>2, <1>3 DEF ClearInputs
<1>5. new = [locktime |-> tx.locktime, outputs |-> tx.outputs, inputs |-> inputs]
  BY <1>3 DEF IInv, TxOK
<1>6. Len(old) \in Nat /\ DOMAIN old = 1 .. Len(old)
  BY <1>1, LenProperties DEF IInv, TxOK
<1>7. DOMAIN inputs = DOMAIN old /\ inputs \in [DOMAIN old -> Range(inputs)]
  BY <1>2 DEF Range
<1>8. inputs \in Seq(Range(inputs))
  BY <1>6, <1>7
<1>9. ASSUME NEW i \in DOMAIN old
      PROVE  /\ inputs[i].coin = old[i].coin
             /\ InputOK(inputs[i]) /\ ~HasSignature(inputs[i])
  <2>1. InputOK(old[i])
    BY <1>1 DEF IInv, TxOK
  <2>2. inputs[i] = [coin |-> old[i].coin, sequence |-> old[i].sequence,
                     witness |-> <<>>, script |-> <<>>]
    BY <1>2, <2>1 DEF InputOK
  <2>3. StackOf(inputs[i]) = <<>>
    BY <2>2 DEF StackOf
  <2> QED
    BY <2>1, <2>2, <2>3 DEF InputOK, HasSignature
<1>10. \A i, j \in DOMAIN old : old[i].coin = old[j].coin => i = j
  BY <1>1 DEF IInv, TxOK
<1>11. \A i, j \in DOMAIN inputs : inputs[i].coin = inputs[j].coin => i = j
  BY <1>7, <1>9, <1>10
<1>12. \A i \in DOMAIN inputs : InputOK(inputs[i]) /\ FromInputs(inputs[i])
  BY <1>7, <1>9 DEF FromInputs
<1>13. new.outputs \in Seq(Output) /\ new.inputs = inputs
  BY <1>5 DEF IInv, TxOK
<1>14. new = [locktime |-> new.locktime, outputs |-> new.outputs,
              inputs |-> new.inputs]
  BY <1>5
<1> QED
  <2>1. Redrafted(new)
    BY <1>8, <1>11, <1>12, <1>13, <1>14 DEF Redrafted
  <2> QED
    BY <1>4, <2>1, EditStep, Zenon

LEMMA AddInputStep ==
  ASSUME IInv, NEW c \in Coin, AddInput(c)
  PROVE  IInv'
<1> PICK old : old = tx.inputs
  OBVIOUS
<1> PICK input : input = NewInput(c)
  OBVIOUS
<1> PICK inputs : inputs = Append(old, input)
  OBVIOUS
<1> PICK new : new = [tx EXCEPT !.inputs = Append(@, input)]
  OBVIOUS
<1>1. Edit(new) /\ c \notin Range(Outpoints(tx))
  BY DEF AddInput
<1>2. new = [locktime |-> tx.locktime, outputs |-> tx.outputs, inputs |-> inputs]
  BY DEF IInv, TxOK
<1>3. Len(old) \in Nat /\ DOMAIN old = 1 .. Len(old) /\ old \in Seq(Range(old))
  BY LenProperties DEF IInv, TxOK
<1>4. /\ inputs \in Seq(Range(old) \cup {input})
      /\ Len(inputs) = Len(old) + 1
      /\ inputs[Len(old) + 1] = input
      /\ \A i \in 1 .. Len(old) : inputs[i] = old[i]
  <2>1. old \in Seq(Range(old) \cup {input})
    BY <1>3, SeqMonotonic
  <2> QED
    BY <1>3, <2>1, AppendProperties
<1>5. inputs \in Seq(Range(inputs)) /\ DOMAIN inputs = 1 .. Len(old) + 1
  BY <1>4, SeqInRange
<1>6. InputOK(input) /\ ~HasSignature(input) /\ input.coin = c
  BY NewInputIs
<1>7. \A i \in 1 .. Len(old) : InputOK(old[i]) /\ FromInputs(old[i])
  BY <1>3 DEF IInv, TxOK, FromInputs
<1>8. \A i \in 1 .. Len(old) : old[i].coin # c
  BY <1>1, <1>3 DEF Range, Outpoints
<1>9. \A i \in DOMAIN inputs : i \in 1 .. Len(old) \/ i = Len(old) + 1
  BY <1>3, <1>5
<1>10. \A i \in DOMAIN inputs : InputOK(inputs[i]) /\ FromInputs(inputs[i])
  BY <1>4, <1>6, <1>7, <1>9 DEF FromInputs
<1>11. \A i, j \in DOMAIN inputs : inputs[i].coin = inputs[j].coin => i = j
  <2>1. \A i, j \in 1 .. Len(old) : old[i].coin = old[j].coin => i = j
    BY <1>3 DEF IInv, TxOK
  <2> QED
    BY <1>4, <1>6, <1>8, <1>9, <2>1
<1>12. new.outputs \in Seq(Output)
  BY <1>2 DEF IInv, TxOK
<1>13. new.inputs = inputs
  BY <1>2
<1>14. new = [locktime |-> new.locktime, outputs |-> new.outputs,
              inputs |-> new.inputs]
  BY <1>2
<1> QED
  <2>1. Redrafted(new)
    BY <1>5, <1>10, <1>11, <1>12, <1>13, <1>14 DEF Redrafted
  <2> QED
    BY <1>1, <2>1, EditStep, Zenon

LEMMA SwapInputsStep ==
  ASSUME IInv, NEW i \in DOMAIN tx.inputs, NEW j \in DOMAIN tx.inputs,
         SwapInputs(i, j)
  PROVE  IInv'
<1> PICK old : old = tx.inputs
  OBVIOUS
<1> PICK half : half = [old EXCEPT ![i] = old[j]]
  OBVIOUS
<1> PICK inputs : inputs = [half EXCEPT ![j] = old[i]]
  OBVIOUS
<1> PICK new : new = [tx EXCEPT !.inputs[i] = tx.inputs[j], !.inputs[j] = tx.inputs[i]]
  OBVIOUS
<1>1. Edit(new)
  BY DEF SwapInputs
<1>2. new = [locktime |-> tx.locktime, outputs |-> tx.outputs, inputs |-> inputs]
  BY DEF IInv, TxOK
<1>3. old \in Seq(Range(old))
  BY DEF IInv, TxOK
<1>4. /\ half \in Seq(Range(half)) /\ DOMAIN half = DOMAIN old
      /\ half[i] = old[j] /\ \A m \in DOMAIN old \ {i} : half[m] = old[m]
  BY <1>3, SeqUpdated
<1>5. /\ inputs \in Seq(Range(inputs)) /\ DOMAIN inputs = DOMAIN old
      /\ inputs[j] = old[i] /\ \A m \in DOMAIN old \ {j} : inputs[m] = half[m]
  BY <1>4, SeqUpdated
<1>6. \A m \in DOMAIN old :
        inputs[m] = old[IF m = j THEN i ELSE IF m = i THEN j ELSE m]
  BY <1>4, <1>5
<1>7. \A m \in DOMAIN old : InputOK(old[m]) /\ FromInputs(old[m])
  BY DEF IInv, TxOK, FromInputs
<1>8. \A m \in DOMAIN inputs : InputOK(inputs[m]) /\ FromInputs(inputs[m])
  BY <1>5, <1>6, <1>7
<1>9. \A m, o \in DOMAIN inputs : inputs[m].coin = inputs[o].coin => m = o
  BY <1>5, <1>6 DEF IInv, TxOK
<1>10. new.outputs \in Seq(Output)
  BY <1>2 DEF IInv, TxOK
<1>11. new.inputs = inputs
  BY <1>2
<1>12. new = [locktime |-> new.locktime, outputs |-> new.outputs,
              inputs |-> new.inputs]
  BY <1>2
<1>13. new.inputs \in Seq(Range(new.inputs))
  BY <1>5, <1>11
<1>14. /\ \A m \in DOMAIN new.inputs :
            InputOK(new.inputs[m]) /\ FromInputs(new.inputs[m])
       /\ \A m, o \in DOMAIN new.inputs :
            new.inputs[m].coin = new.inputs[o].coin => m = o
  BY <1>8, <1>9, <1>11
<1> QED
  <2>1. Redrafted(new)
    BY <1>10, <1>12, <1>13, <1>14 DEF Redrafted
  <2> QED
    BY <1>1, <2>1, EditStep, Zenon

LEMMA StutterStep ==
  ASSUME IInv, UNCHANGED vars
  PROVE  IInv'
<1>1. UNCHANGED <<tx, call, result, before, made>>
  BY DEF vars
<1>2. TxOK' /\ MadeOK'
  BY <1>1 DEF IInv, TxOK, MadeOK
<1>3. CallOK'
  <2>1. Fresh' = Fresh
    BY <1>1 DEF Fresh, Spent
  <2> HIDE DEF Fresh
  <2> QED
    BY <1>1, <2>1 DEF IInv, CallOK, Idle
<1>4. PrefixSigned'
  <2>1. SpendableAs /\ SpendableAs'
    BY SpendableIs, PTL
  <2>2. Bare' = Bare
    BY <1>1 DEF Bare
  <2>3. \A i \in DOMAIN tx.inputs : Spendable(i)' <=> Spendable(i)
    BY <1>1, <2>1, <2>2 DEF SpendableAs
  <2> QED
    BY <1>1, <2>3 DEF IInv, PrefixSigned, Idle
<1> QED
  BY <1>2, <1>3, <1>4 DEF IInv

LEMMA StepHolds ==
  ASSUME FoundIsFirst
  PROVE  IInv /\ [Next]_vars => IInv'
<1> SUFFICES ASSUME IInv, [Next]_vars PROVE IInv'
  OBVIOUS
<1>1. CASE \E keys \in KeysFor(tx.inputs) : Sign(keys)
  BY <1>1, SignStep
<1>2. CASE SignNext
  BY <1>2, SignNextStep
<1>3. CASE FailNext
  <2>1. ~Idle /\ End(InputError(call.keys, call.n))
    BY <1>3 DEF FailNext, Signing
  <2> QED
    BY <2>1, EndStep
<1>4. CASE Finish
  <2>1. ~Idle /\ End(None)
    BY <1>4 DEF Finish
  <2> QED
    BY <2>1, EndStep
<1>5. CASE WrongCount
  BY <1>5, WrongCountStep
<1>6. CASE \E o \in Output : AddOutput(o)
  BY <1>6, AddOutputStep
<1>7. CASE ClearInputs
  BY <1>7, ClearInputsStep
<1>8. CASE \E i \in DOMAIN tx.inputs : Prefill(i) \/ SetSequence(i)
  BY <1>8, PrefillStep, SetSequenceStep
<1>9. CASE \E c \in Coin : AddInput(c)
  BY <1>9, AddInputStep
<1>10. CASE \E i, j \in DOMAIN tx.inputs : SwapInputs(i, j)
  BY <1>10, SwapInputsStep
<1>11. CASE \E i \in DOMAIN tx.outputs, o \in Output : SetOutput(i, o)
  BY <1>11, SetOutputStep
<1>12. CASE DropOutput
  BY <1>12, DropOutputStep
<1>13. CASE SetLocktime
  BY <1>13, SetLocktimeStep
<1>14. CASE UNCHANGED vars
  BY <1>14, StutterStep
<1> QED
  BY <1>1, <1>2, <1>3, <1>4, <1>5, <1>6, <1>7, <1>8, <1>9, <1>10, <1>11, <1>12,
     <1>13, <1>14 DEF Next

----------------------------------------------------------------------------
(* The invariant that every step of the transaction keeps: a call has one  *)
(* entry for each input and a cache of the transaction as it is, what it   *)
(* signed can be spent, and every signature that stands in an input is the *)
(* one that its coin was signed with last (BtcTx::sign and its helpers).   *)
THEOREM SigningInvariant ==
  ASSUME FoundIsFirst
  PROVE  Spec => []IInv
<1>1. Init => IInv
  BY InitHolds
<1>2. IInv /\ [Next]_vars => IInv'
  BY StepHolds
<1> QED
  BY <1>1, <1>2, PTL DEF Spec

(* For any coins, entries that tell the truth and edits: whatever a call   *)
(* came through before it succeeded, failed or was looked at can be spent, *)
(* although it went on writing into the transaction, and the inputs after  *)
(* that are as they were before the call (the loop of BtcTx::sign).        *)
THEOREM PrefixAlwaysSigned ==
  ASSUME FoundIsFirst
  PROVE  Spec => []PrefixSigned
<1>1. IInv => PrefixSigned
  BY DEF IInv
<1> QED
  BY <1>1, SigningInvariant, PTL

LEMMA ResultStep ==
  ASSUME IInv, ResultOK, [Next]_vars
  PROVE  ResultOK'
<1>1. CASE \E keys \in KeysFor(tx.inputs) : Sign(keys)
  BY <1>1 DEF Sign, ResultOK
<1>2. CASE SignNext
  <2>1. result' = None
    BY <1>2 DEF SignNext, Signing, IInv, CallOK
  <2> QED
    BY <2>1 DEF ResultOK
<1>3. CASE FailNext
  <2>1. PICK error : error # None /\ End(error)
    BY <1>3 DEF FailNext
  <2> QED
    BY <2>1 DEF End, ResultOK, Idle
<1>4. CASE Finish
  <2>1. /\ call.n > Len(call.keys) /\ call' = None /\ tx' = tx
        /\ result' = [error |-> None, at |-> call.n]
        /\ TxOK /\ call.keys \in KeysFor(tx.inputs)
        /\ call.n \in 1 .. Len(tx.inputs) + 1
    BY <1>4 DEF Finish, End, IInv, CallOK
  <2>2. call.n = Len(tx.inputs) + 1
    <3>1. Len(tx.inputs) \in Nat
      BY <2>1, LenProperties DEF TxOK
    <3>2. call.n > Len(tx.inputs)
      BY <2>1, KeysCount
    <3> QED
      BY <2>1, <3>1, <3>2
  <2> QED
    BY <2>1, <2>2 DEF ResultOK, Idle
<1>5. CASE WrongCount
  <2>1. call' = None /\ result'.error = "KeyCount"
    BY <1>5 DEF WrongCount, Idle
  <2> QED
    BY <2>1, FailureAssumption DEF ResultOK, Idle, Failures
<1>6. CASE \E new : Edit(new)
  BY <1>6 DEF Edit, ResultOK
<1>7. CASE UNCHANGED vars
  BY <1>7 DEF vars, ResultOK, Idle
<1>8. CASE \E o \in Output : AddOutput(o)
  BY <1>6, <1>8 DEF AddOutput
<1>9. CASE ClearInputs
  BY <1>6, <1>9 DEF ClearInputs
<1>10. CASE \E i \in DOMAIN tx.inputs : Prefill(i) \/ SetSequence(i)
  <2>1. CASE \E i \in DOMAIN tx.inputs : Prefill(i)
    BY <1>6, <2>1 DEF Prefill
  <2>2. CASE \E i \in DOMAIN tx.inputs : SetSequence(i)
    BY <1>6, <2>2 DEF SetSequence
  <2> QED
    BY <1>10, <2>1, <2>2
<1>11. CASE \E c \in Coin : AddInput(c)
  BY <1>6, <1>11 DEF AddInput
<1>12. CASE \E i, j \in DOMAIN tx.inputs : SwapInputs(i, j)
  BY <1>6, <1>12 DEF SwapInputs
<1>13. CASE \E i \in DOMAIN tx.outputs, o \in Output : SetOutput(i, o)
  BY <1>6, <1>13 DEF SetOutput
<1>14. CASE DropOutput
  BY <1>6, <1>14 DEF DropOutput
<1>15. CASE SetLocktime
  BY <1>6, <1>15 DEF SetLocktime
<1> QED
  BY <1>1, <1>2, <1>3, <1>4, <1>5, <1>7, <1>8, <1>9, <1>10, <1>11, <1>12, <1>13,
     <1>14, <1>15 DEF Next

(* As long as no inner script is left to be found that is not the first    *)
(* one tried, sign() without an error leaves a transaction that can be     *)
(* spent: what its documentation says, for any coins, edits and earlier    *)
(* calls (BtcTx::sign).                                                    *)
THEOREM SignedIsAlwaysValid ==
  ASSUME FoundIsFirst
  PROVE  Spec => []SignedIsValid
<1>1. Init => ResultOK
  BY DEF Init, ResultOK
<1>2. IInv /\ ResultOK /\ [Next]_vars => ResultOK'
  BY ResultStep
<1>3. ASSUME IInv, ResultOK
      PROVE  SignedIsValid
  <2> SUFFICES ASSUME result # None, result.error = None,
                      NEW i \in DOMAIN tx.inputs
               PROVE  Spendable(i)
    BY DEF SignedIsValid
  <2>1. Idle /\ result.at = Len(tx.inputs) + 1
    BY <1>3 DEF ResultOK
  <2>2. IF i < result.at THEN Spendable(i) ELSE tx.inputs[i] = before[i]
    BY <1>3, <2>1 DEF IInv, PrefixSigned
  <2>3. i \in 1 .. Len(tx.inputs) /\ Len(tx.inputs) \in Nat
    BY <1>3, LenProperties DEF IInv, TxOK
  <2> QED
    BY <2>1, <2>2, <2>3
<1> QED
  BY <1>1, <1>2, <1>3, SigningInvariant, PTL DEF Spec

----------------------------------------------------------------------------
(* What has to be the same for two digests to be the same.                 *)

(* Two transactions without their signatures that both have coin c, at     *)
(* place a of the one and at place b of the other.                         *)
Beside(one, a, other, b, c) ==
  /\ a \in DOMAIN one.outpoints /\ one.outpoints[a] = c
  /\ b \in DOMAIN other.outpoints /\ other.outpoints[b] = c
  /\ \A i, j \in DOMAIN one.outpoints : one.outpoints[i] = one.outpoints[j] => i = j

SameInputs(one, a, other, b, t) ==
  IF AnyoneCanPay(t) THEN one.sequences[a] = other.sequences[b]
  ELSE a = b /\ one.outpoints = other.outpoints /\ one.sequences = other.sequences

SameOutputs(one, a, other, b, t) ==
  \/ SignsNone(t)
  \/ SignsSingle(t) /\ one.outputs[a] = other.outputs[b]
  \/ ~SignsNone(t) /\ ~SignsSingle(t) /\ one.outputs = other.outputs

LEMMA InputsAgree ==
  ASSUME NEW one, NEW a, NEW other, NEW b, NEW c, Beside(one, a, other, b, c), NEW t
  PROVE  InputsOf(one, a, t) = InputsOf(other, b, t) <=> SameInputs(one, a, other, b, t)
<1>1. CASE AnyoneCanPay(t)
  BY <1>1 DEF InputsOf, SameInputs, Beside
<1>2. CASE ~AnyoneCanPay(t)
  <2> PICK those : those = [j \in DOMAIN one.outpoints |-> PrevoutOf(one.outpoints[j])]
    OBVIOUS
  <2> PICK these : these = [j \in DOMAIN other.outpoints |-> PrevoutOf(other.outpoints[j])]
    OBVIOUS
  <2>1. one.outpoints = other.outpoints => those = these
    OBVIOUS
  <2>2. InputsOf(one, a, t)
          = [all |-> [outpoints |-> one.outpoints, sequences |-> one.sequences,
                      prevouts |-> those], at |-> a]
    BY <1>2 DEF InputsOf
  <2>3. InputsOf(other, b, t)
          = [all |-> [outpoints |-> other.outpoints, sequences |-> other.sequences,
                      prevouts |-> these], at |-> b]
    BY <1>2 DEF InputsOf
  <2> QED
    BY <1>2, <2>1, <2>2, <2>3 DEF SameInputs
<1> QED
  BY <1>1, <1>2

LEMMA OutputsAgree ==
  ASSUME NEW one, NEW a, NEW other, NEW b, NEW t
  PROVE  OutputsOf(one, a, t) = OutputsOf(other, b, t)
           <=> SameOutputs(one, a, other, b, t)
<1>1. CASE SignsNone(t)
  BY <1>1 DEF OutputsOf, SameOutputs
<1>2. CASE ~SignsNone(t) /\ SignsSingle(t)
  BY <1>2 DEF OutputsOf, SameOutputs
<1>3. CASE ~SignsNone(t) /\ ~SignsSingle(t)
  BY <1>3 DEF OutputsOf, SameOutputs
<1> QED
  BY <1>1, <1>2, <1>3

(* A digest whose type can leave inputs and outputs open.                  *)
SamePartly(one, a, other, b, t) ==
  /\ one.locktime = other.locktime
  /\ SameInputs(one, a, other, b, t)
  /\ SameOutputs(one, a, other, b, t)

LEMMA UnifiedAgree ==
  ASSUME NEW one, NEW a, NEW other, NEW b, NEW c, Beside(one, a, other, b, c),
         NEW t, NEW spend, NEW code
  PROVE  UnifiedOf(one, a, t, spend, code) = UnifiedOf(other, b, t, spend, code)
           <=> SamePartly(one, a, other, b, t)
BY InputsAgree, OutputsAgree DEF UnifiedOf, SamePartly

LEMMA TapAgree ==
  ASSUME NEW one, NEW a, NEW other, NEW b, NEW c, Beside(one, a, other, b, c),
         NEW t, NEW leaf
  PROVE  TapOf(one, a, leaf, t) = TapOf(other, b, leaf, t)
           <=> SamePartly(one, a, other, b, t)
<1>1. CASE Unified(t)
  BY <1>1, UnifiedAgree DEF TapOf
<1>2. CASE ~Unified(t)
  BY <1>2, InputsAgree, OutputsAgree DEF TapOf, SamePartly
<1> QED
  BY <1>1, <1>2

LEMMA EcdsaAgree ==
  ASSUME NEW one, NEW a, NEW other, NEW b, NEW c, Beside(one, a, other, b, c),
         NEW t, NEW lock, ~Unified(t),
         one = [locktime |-> one.locktime, outputs |-> one.outputs,
                outpoints |-> one.outpoints, sequences |-> one.sequences],
         other = [locktime |-> other.locktime, outputs |-> other.outputs,
                  outpoints |-> other.outpoints, sequences |-> other.sequences]
  PROVE  EcdsaOf(one, a, lock, t) = EcdsaOf(other, b, lock, t)
           <=> one = other /\ a = b
<1>1. CASE LockSegwit(lock)
  <2>1. EcdsaOf(one, a, lock, t) = EcdsaOf(other, b, lock, t) => one = other
    BY <1>1 DEF EcdsaOf
  <2>2. one = other => a = b
    BY DEF Beside
  <2> QED
    BY <2>1, <2>2
<1>2. CASE ~LockSegwit(lock)
  <2>1. EcdsaOf(one, a, lock, t) = EcdsaOf(other, b, lock, t) =>
          /\ one.locktime = other.locktime /\ a = b
          /\ one.outpoints = other.outpoints /\ one.sequences = other.sequences
          /\ one.outputs = other.outputs
    BY <1>2 DEF EcdsaOf
  <2> QED
    BY <2>1
<1> QED
  BY <1>1, <1>2

LEMMA SingleIs ==
  ASSUME TxOK, NEW i \in DOMAIN tx.inputs, NEW t
  PROVE  SingleError(tx, i, t) = None <=> (SignsSingle(t) => i \in DOMAIN tx.outputs)
<1>1. i \in Nat /\ i >= 1
  BY LenProperties DEF TxOK
<1>2. Len(tx.outputs) \in Nat /\ DOMAIN tx.outputs = 1 .. Len(tx.outputs)
  BY LenProperties DEF TxOK
<1> QED
  BY <1>1, <1>2, FailureAssumption DEF SingleError, Failures

LEMMA AgreeIsTolerated ==
  ASSUME IInv, NEW i \in DOMAIN tx.inputs, HasSignature(tx.inputs[i])
  PROVE  Spendable(i) <=> Tolerates(made[tx.inputs[i].coin], i)
<1>1. PICK x : x = tx.inputs[i]
  OBVIOUS
<1>2. PICK p : p = made[x.coin]
  OBVIOUS
<1>3. PICK now : now = Bare
  OBVIOUS
<1>4. ForPurpose(p, x) /\ TxOK
  BY <1>1, <1>2 DEF IInv, MadeOK
<1>5. Spendable(i) <=>
        /\ Partly(x.coin, p.type) => SingleError(tx, i, p.type) = None
        /\ DigestOf(p.of, p.at, x) = DigestOf(now, i, x)
  BY <1>1, <1>3, <1>4, SpendableIs DEF SpendableAs, ForPurpose
<1>6. /\ now.locktime = tx.locktime /\ now.outputs = tx.outputs
      /\ now.outpoints = Outpoints(tx) /\ now.sequences = SequencesOf(tx)
      /\ now = [locktime |-> now.locktime, outputs |-> now.outputs,
                outpoints |-> now.outpoints, sequences |-> now.sequences]
  BY <1>3 DEF Bare
<1>7. /\ DOMAIN now.outpoints = DOMAIN tx.inputs
      /\ now.outpoints[i] = x.coin /\ now.sequences[i] = x.sequence
  BY <1>1, <1>6 DEF Outpoints, SequencesOf
<1>8. Beside(p.of, p.at, now, i, x.coin)
  BY <1>4, <1>7 DEF ForPurpose, Beside
<1>9. p.partly <=> Partly(x.coin, p.type)
  BY <1>4 DEF ForPurpose
<1>10. CASE Partly(x.coin, p.type)
  <2>1. DigestOf(p.of, p.at, x) = DigestOf(now, i, x)
          <=> SamePartly(p.of, p.at, now, i, p.type)
    <3>1. SigOn(x).type = p.type
      BY <1>4 DEF ForPurpose
    <3>2. CASE Lock[x.coin].kind = "p2tr"
      BY <1>8, <3>1, <3>2, TapAgree DEF DigestOf
    <3>3. CASE Lock[x.coin].kind # "p2tr"
      <4>1. Unified(p.type)
        BY <1>10, <3>3 DEF Partly
      <4> QED
        BY <1>8, <3>1, <3>3, <4>1, UnifiedAgree DEF DigestOf, EcdsaOf
    <3> QED
      BY <3>2, <3>3
  <2>2. Spendable(i) <=> /\ SignsSingle(p.type) => i \in DOMAIN tx.outputs
                         /\ SamePartly(p.of, p.at, now, i, p.type)
    BY <1>4, <1>5, <1>10, <2>1, SingleIs
  <2>3. ~(SignsNone(p.type) /\ SignsSingle(p.type))
    BY DEF SignsNone, SignsSingle
  <2>4. (/\ SignsSingle(p.type) => i \in DOMAIN tx.outputs
         /\ SameOutputs(p.of, p.at, now, i, p.type))
        <=> \/ SignsNone(p.type)
            \/ /\ SignsSingle(p.type) /\ i \in DOMAIN tx.outputs
               /\ tx.outputs[i] = p.of.outputs[p.at]
            \/ /\ ~(SignsNone(p.type) \/ SignsSingle(p.type))
               /\ tx.outputs = p.of.outputs
    BY <1>6, <2>3 DEF SameOutputs
  <2>5. SameInputs(p.of, p.at, now, i, p.type)
        <=> /\ x.sequence = p.of.sequences[p.at]
            /\ \/ AnyoneCanPay(p.type)
               \/ /\ i = p.at /\ Outpoints(tx) = p.of.outpoints
                  /\ SequencesOf(tx) = p.of.sequences
    BY <1>6, <1>7 DEF SameInputs
  <2>6. Tolerates(p, i) <=>
          /\ tx.locktime = p.of.locktime
          /\ SameInputs(p.of, p.at, now, i, p.type)
          /\ SignsSingle(p.type) => i \in DOMAIN tx.outputs
          /\ SameOutputs(p.of, p.at, now, i, p.type)
    BY <1>1, <1>9, <1>10, <2>4, <2>5 DEF Tolerates
  <2> QED
    BY <1>1, <1>2, <1>6, <2>2, <2>6 DEF SamePartly
<1>11. CASE ~Partly(x.coin, p.type)
  <2>1. Lock[x.coin].kind # "p2tr" /\ ~Unified(p.type)
    BY <1>11 DEF Partly
  <2>2. p.of = [locktime |-> p.of.locktime, outputs |-> p.of.outputs,
                outpoints |-> p.of.outpoints, sequences |-> p.of.sequences]
    BY <1>4 DEF ForPurpose
  <2>3. DigestOf(p.of, p.at, x) = DigestOf(now, i, x) <=> p.of = now /\ p.at = i
    <3>1. SigOn(x).type = p.type
      BY <1>4 DEF ForPurpose
    <3> QED
      BY <1>6, <1>8, <2>1, <2>2, <3>1, EcdsaAgree DEF DigestOf
  <2>4. Tolerates(p, i) <=>
          /\ tx.locktime = p.of.locktime /\ x.sequence = p.of.sequences[p.at]
          /\ i = p.at /\ Outpoints(tx) = p.of.outpoints
          /\ SequencesOf(tx) = p.of.sequences /\ tx.outputs = p.of.outputs
    BY <1>1, <1>9, <1>11 DEF Tolerates
  <2>5. Tolerates(p, i) <=> p.of = now /\ p.at = i
    BY <1>6, <1>7, <2>2, <2>4
  <2> QED
    BY <1>1, <1>2, <1>5, <1>11, <2>3, <2>5
<1> QED
  BY <1>10, <1>11

(* For any coins, entries that tell the truth and edits, in any order and  *)
(* between any calls: a signature that stands in an input is valid exactly *)
(* when nothing changed since it was made but what its hash type leaves    *)
(* open (the sighash functions, and the signing of every scheme).          *)
THEOREM CommitsExactlyAlways ==
  ASSUME FoundIsFirst
  PROVE  Spec => []CommitsExactly
<1>1. IInv => CommitsExactly
  BY AgreeIsTolerated DEF CommitsExactly
<1> QED
  BY <1>1, SigningInvariant, PTL
=============================================================================
