-------------------------------- MODULE BtcSign --------------------------------
(***************************************************************************)
(* A Bitcoin transaction that an application builds, signs and edits       *)
(* (src/src/btctx.rs).  One call of BtcTx::sign fills in its inputs one    *)
(* after the other: Sign starts it, SignNext signs an input, or fails and  *)
(* leaves those before it signed, and Finish ends it.  What is hashed for  *)
(* several inputs is cached for the call, while the call writes into the   *)
(* transaction.  Nothing else happens in between.                          *)
(***************************************************************************)
EXTENDS BtcSighash, SequencesExt

CONSTANTS
  Coin,      \* outputs that the application can spend
  Lock,      \* [Coin -> what it takes to spend it], see Kinds
  Amount,    \* [Coin -> its amount]
  Entries,   \* [Coin -> the signing entries that the application has for it]
  Able,      \* [keys -> what the signer can do]: see Abilities
  Output,    \* what may be an output
  Drafts,    \* sequences of coins that the application starts from
  MaxInputs, MaxOutputs,
  MaxEdits,  \* bound on edits of the transaction
  MaxCalls   \* bound on signing calls

VARIABLES
  tx,
  call,    \* None, or the call of sign() that is under way
  result,  \* [error, at] of the last call, None once tx is edited
  before,  \* history: the inputs before the last call
  made,    \* history: for what each coin was signed last
  edits, calls

vars == <<tx, call, result, before, made, edits, calls>>

(* A lock is [kind, inner, key, root, cash]: the scheme that spends it, the *)
(* script inside P2WSH ("" for the others), the key, the root of the script *)
(* tree of a taproot output or None, and whether its chain has a fork id.   *)
Kinds == {"p2pk", "p2pkh", "p2pukh", "p2wpkh", "p2sh:p2wpkh", "p2wsh", "p2tr"}

(* What a signer may implement: ECDSA with its public key, key-path         *)
(* signatures without and with a script tree, and leaves.                   *)
Abilities == {"ecdsa", "taproot", "root", "leaf"}

(* Script::generate, and the script code of P2WPKH, which is the same.      *)
Gen(name, key) == <<name, key>>

PrevScript(c) == <<c, Lock[c].kind>>

(* Only the scripts that hash a key are spent on a chain with a fork id.    *)
ASSUME LockAssumption ==
  \A c \in Coin :
    /\ Lock[c].kind \in Kinds
    /\ Lock[c].cash => Lock[c].kind \in {"p2pkh", "p2pukh"}

ASSUME DraftAssumption ==
  \A draft \in Drafts :
    /\ draft \in Seq(Coin)
    /\ \A i, j \in DOMAIN draft : draft[i] = draft[j] => i = j

(* What sign() may fail with.                                               *)
Failures ==
  {"MissingKey", "UnsupportedScheme", "Signer", "NoPublicKey",
   "NoMatchingWitnessScript", "UnsupportedSighash", "MissingPrevScript",
   "UnsupportedScript", "KeyNotInvolved", "InvalidScript", "OutputIndex",
   "KeyCount"}

ASSUME FailureAssumption == None \notin Failures

Program(script) == [program |-> script]
PubKeyItem(form, key) == [pubkey |-> key, form |-> form]
SigItem(key, how, digest, t) ==
  [by |-> key, how |-> how, digest |-> digest, type |-> t]
Placeholder == [placeholder |-> 0]

(* The script of a P2WSH coin stands in its input, for the application that *)
(* lets the script inside be found.                                         *)
NewInput(c) ==
  [coin |-> c, sequence |-> 0, witness |-> <<>>,
   script |-> IF Lock[c].kind = "p2wsh"
                THEN <<Program(Gen(Lock[c].inner, Lock[c].key))>> ELSE <<>>]

Init ==
  /\ \E draft \in Drafts, o \in Output :
       tx = [locktime |-> 0, outputs |-> <<o>>,
             inputs |-> [i \in DOMAIN draft |-> NewInput(draft[i])]]
  /\ call = None /\ result = None /\ before = None
  /\ made = [c \in Coin |-> None]
  /\ edits = 0 /\ calls = 0

Idle == call = None

----------------------------------------------------------------------------
(* An entry is [scheme, inner, sighash, key, prevScript, root, leaf].       *)

(* The scheme of a P2WSH input is "p2wsh" with its inner script in inner,   *)
(* "auto" when it has to be found.                                          *)
InnerCandidates == <<"p2pkh", "p2pk", "p2pukh", "p2puk">>

DefaultType(k) == IF k.scheme # "p2tr" /\ k.sighash = 0 THEN 1 ELSE k.sighash

(* The key of an entry is that of the coin, missing, or of a signer that    *)
(* sign() refuses for want of a public key.                                 *)
KeyOfCoin(c, k) ==
  \/ k.key \in {Lock[c].key, None}
  \/ Lock[c].kind # "p2tr" /\ "ecdsa" \notin Able[k.key]

(* The fork id is in the type on the chains that have one, or with the bit  *)
(* of the unified digest, which sign() refuses.                             *)
TypeOfCoin(c, k) ==
  LET t == DefaultType(k) IN
  k.scheme # "p2tr" => \/ ForkId(t) = Lock[c].cash
                       \/ Unified(t) /\ ForkId(t)

(* A signer that has no public key to compare with is given its own leaves. *)
LeafOfSigner(k) ==
  k.leaf # None => k.leaf.key \in {k.key, None} \/ "ecdsa" \in Able[k.key]

(* sign() takes the word of its caller for what an input spends: the        *)
(* entries for a coin tell the truth, as far as they tell.                  *)
ASSUME EntriesAssumption ==
  \A c \in Coin : \A k \in Entries[c] :
    /\ k.scheme = Lock[c].kind
    /\ \/ k.inner = Lock[c].inner
       \/ k.scheme = "p2wsh" /\ k.inner = "auto"
    /\ k.amount = Amount[c]
    /\ k.prevScript \in {PrevScript(c), None}
    /\ k.root = Lock[c].root
    /\ KeyOfCoin(c, k) /\ TypeOfCoin(c, k) /\ LeafOfSigner(k)

(* detect_p2wsh_inner: the first candidate whose hash is in the script of   *)
(* the input, or the first of all if there is none.                         *)
DetectInner(input, key) ==
  LET hints   == {h \in Range(input.script) : "program" \in DOMAIN h}
      fitting == {i \in DOMAIN InnerCandidates :
                    \A h \in hints : Gen(InnerCandidates[i], key) = h.program}
  IN  IF fitting = {} THEN None ELSE InnerCandidates[Min(fitting)]

InnerOf(input, k) ==
  IF k.inner = "auto" THEN DetectInner(input, k.key) ELSE k.inner

(* Which digest an ECDSA scheme signs, and for which script code.           *)
AsSegwit(k) ==
  \/ k.scheme \in {"p2wpkh", "p2sh:p2wpkh", "p2wsh"}
  \/ k.scheme \in {"p2pkh", "p2pukh"} /\ ForkId(DefaultType(k))

ScriptCode(input, k) ==
  CASE k.scheme \in {"p2wpkh", "p2sh:p2wpkh"} -> Gen("p2pkh", k.key)
    [] k.scheme = "p2wsh" -> Gen(InnerOf(input, k), k.key)
    [] OTHER -> Gen(k.scheme, k.key)

PubKeyOf(input, k) ==
  PubKeyItem(IF "p2pukh" \in {k.scheme, InnerOf(input, k)} THEN "uncompressed"
             ELSE "compressed", k.key)

Prevouts(keys) ==
  [i \in DOMAIN keys |-> [amount |-> keys[i].amount, script |-> keys[i].prevScript]]

MissingPrevScript(keys) == \E i \in DOMAIN keys : keys[i].prevScript = None

(* SighashCache: what is there stays. *)
NoCache == [segwit |-> None, taproot |-> None]
WithSegwit(cache) ==
  IF cache.segwit # None THEN cache
  ELSE [cache EXCEPT !.segwit = SegwitMidstate(tx)]
WithTaproot(cache, keys) ==
  IF cache.taproot # None THEN cache
  ELSE [cache EXCEPT !.taproot = TaprootMidstate(tx, Prevouts(keys))]

CacheFor(cache, keys, k) ==
  IF k.scheme = "p2tr" \/ Unified(DefaultType(k)) THEN WithTaproot(cache, keys)
  ELSE IF AsSegwit(k) THEN WithSegwit(cache)
  ELSE cache

(* ecdsa_digest: the error, None if there is a digest, and the digest.      *)
EcdsaError(keys, n, t, segwit) ==
  IF ~Unified(t) THEN None
  ELSE IF ForkId(t) THEN "UnsupportedSighash"
  ELSE IF MissingPrevScript(keys) THEN "MissingPrevScript"
  ELSE UnifiedError(tx, n, t, IF segwit THEN "segwit" ELSE "legacy")

EcdsaDigest(cache, keys, n, code, t, segwit) ==
  IF Unified(t)
    THEN UnifiedSighash(tx, cache.taproot, n, Prevouts(keys)[n], t,
           IF segwit THEN "segwit" ELSE "legacy", code)
  ELSE IF segwit
    THEN SegwitSighash(cache.segwit, tx.inputs[n], code, keys[n].amount, t)
  ELSE LegacySighash(tx, n, code, t)

(* p2tr_sign. A leaf is [key, output]: the key that it checks, None for     *)
(* another script, and the output that its control block proves it for.     *)
LeafError(k) ==
  IF k.leaf = None THEN None
  ELSE IF k.leaf.key = None THEN "UnsupportedScript"
  ELSE IF "ecdsa" \in Able[k.key] /\ k.leaf.key # k.key THEN "KeyNotInvolved"
  ELSE IF k.leaf.output # k.prevScript THEN "InvalidScript"
  ELSE None

TapTypeError(t) ==
  IF t \notin (0 .. 3) \cup (129 .. 131) \cup (33 .. 35) \cup (161 .. 163)
    THEN "UnsupportedSighash" ELSE None

TapAbility(k) ==
  IF k.leaf # None THEN "leaf" ELSE IF k.root # None THEN "root" ELSE "taproot"

TapError(keys, n, k) ==
  LET t == k.sighash IN
  IF TapTypeError(t) # None THEN TapTypeError(t)
  ELSE IF LeafError(k) # None THEN LeafError(k)
  ELSE IF MissingPrevScript(keys) THEN "MissingPrevScript"
  ELSE IF Unified(t) THEN UnifiedError(tx, n, t, "taproot")
  ELSE TaprootError(tx, n, t)

TapDigest(cache, keys, n, k) ==
  LET t == k.sighash IN
  IF Unified(t)
    THEN UnifiedSighash(tx, cache.taproot, n, Prevouts(keys)[n], t, "taproot", k.leaf)
    ELSE TaprootSighash(tx, cache.taproot, n, Prevouts(keys)[n], t, k.leaf)

(* The error that an input fails with, in the order of the code.            *)
InputError(keys, n) ==
  LET k == keys[n]
      t == DefaultType(k)
  IN
  IF k.key = None THEN "MissingKey"
  ELSE IF k.scheme \notin Kinds THEN "UnsupportedScheme"
  ELSE IF k.scheme = "p2tr"
    THEN IF TapError(keys, n, k) # None THEN TapError(keys, n, k)
         ELSE IF TapAbility(k) \notin Able[k.key] THEN "Signer" ELSE None
  ELSE IF "ecdsa" \notin Able[k.key] THEN "NoPublicKey"
  ELSE IF k.scheme = "p2wsh" /\ InnerOf(tx.inputs[n], k) = None
    THEN "NoMatchingWitnessScript"
  ELSE EcdsaError(keys, n, t, AsSegwit(k))

(* The signature of an input, made with a cache that has what it needs.     *)
Signature(cache, keys, n) ==
  LET k == keys[n]
      t == DefaultType(k)
  IN
  IF k.scheme = "p2tr"
    THEN SigItem(k.key, IF k.leaf # None THEN <<"plain">> ELSE <<"tweaked", k.root>>,
                 TapDigest(cache, keys, n, k), t)
    ELSE SigItem(k.key, <<"ecdsa">>,
           EcdsaDigest(cache, keys, n, ScriptCode(tx.inputs[n], k), t, AsSegwit(k)), t)

(* What goes with the signature, on the stack that it stands on.            *)
Companions(input, k) ==
  LET inner == InnerOf(input, k) IN
  CASE k.scheme = "p2pk" -> <<>>
    [] k.scheme \in {"p2pkh", "p2pukh", "p2wpkh", "p2sh:p2wpkh"} ->
         <<PubKeyOf(input, k)>>
    [] k.scheme = "p2wsh" ->
         (IF inner \in {"p2pkh", "p2pukh"} THEN <<PubKeyOf(input, k)>> ELSE <<>>)
         \o <<Program(ScriptCode(input, k))>>
    [] OTHER -> IF k.leaf = None THEN <<>> ELSE <<k.leaf>>

(* An input with a signature: legacy schemes write its script and leave its *)
(* witness, the others write both.                                          *)
SignedInput(input, k, sig) ==
  LET stack == <<sig>> \o Companions(input, k) IN
  IF k.scheme \in {"p2pk", "p2pkh", "p2pukh"}
    THEN [input EXCEPT !.script = stack]
    ELSE [input EXCEPT !.witness = stack,
            !.script = IF k.scheme = "p2sh:p2wpkh"
                         THEN <<Program(Gen("p2wpkh", k.key))>> ELSE <<>>]

----------------------------------------------------------------------------
(* Sign is called with one entry for each input.                            *)
Sign(keys) ==
  /\ Idle /\ calls < MaxCalls
  /\ tx.inputs # <<>>
  /\ Len(keys) = Len(tx.inputs)
  /\ call' = [n |-> 1, keys |-> keys, cache |-> NoCache]
  /\ before' = tx.inputs
  /\ result' = None
  /\ calls' = calls + 1
  /\ UNCHANGED <<tx, made, edits>>

(* What the application signed for: the transaction without its signatures. *)
Bare == [locktime |-> tx.locktime, outputs |-> tx.outputs,
         outpoints |-> Outpoints(tx), sequences |-> SequencesOf(tx)]

Purpose(n, k) ==
  [of |-> Bare, at |-> n, type |-> DefaultType(k),
   partly |-> k.scheme = "p2tr" \/ Unified(DefaultType(k))]

Signing == ~Idle /\ call.n <= Len(call.keys)

SignNext ==
  /\ Signing
  /\ LET n     == call.n
         k     == call.keys[n]
         cache == CacheFor(call.cache, call.keys, k)
     IN
     /\ InputError(call.keys, n) = None
     /\ tx' = [tx EXCEPT !.inputs[n] =
                 SignedInput(@, k, Signature(cache, call.keys, n))]
     /\ call' = [call EXCEPT !.n = n + 1, !.cache = cache]
     /\ made' = [made EXCEPT ![tx.inputs[n].coin] = Purpose(n, k)]
  /\ UNCHANGED <<result, before, edits, calls>>

End(error) ==
  /\ result' = [error |-> error, at |-> call.n]
  /\ call' = None
  /\ UNCHANGED <<tx, before, made, edits, calls>>

FailNext ==
  /\ Signing
  /\ InputError(call.keys, call.n) # None
  /\ End(InputError(call.keys, call.n))

Finish ==
  /\ ~Idle /\ call.n > Len(call.keys)
  /\ End(None)

(* sign() with another number of entries than inputs does nothing.          *)
WrongCount ==
  /\ Idle
  /\ result' = [error |-> "KeyCount", at |-> 1]
  /\ before' = tx.inputs
  /\ UNCHANGED <<tx, call, made, edits, calls>>

----------------------------------------------------------------------------
(* What the application does with the transaction between two calls.        *)
Edit(new) ==
  /\ Idle /\ edits < MaxEdits
  /\ tx' = new
  /\ edits' = edits + 1
  /\ result' = None /\ before' = None
  /\ UNCHANGED <<call, made, calls>>

(* add_net_output *)
AddOutput(o) ==
  /\ Len(tx.outputs) < MaxOutputs
  /\ Edit([tx EXCEPT !.outputs = Append(@, o)])

(* clear_inputs *)
ClearInputs ==
  Edit([tx EXCEPT !.inputs = [i \in DOMAIN @ |->
          [@[i] EXCEPT !.script = <<>>, !.witness = <<>>]]])

(* prefill: the stack has the items of a signed input, which count for fees. *)
PrefillItems(scheme, inner) ==
  CASE scheme \in {"p2pk", "p2tr"} -> 1
    [] scheme \in {"p2pkh", "p2pukh", "p2wpkh"} -> 2
    [] scheme = "p2wsh" -> IF inner \in {"p2pk", "p2puk"} THEN 2 ELSE 3

Prefill(i) ==
  LET k     == Lock[tx.inputs[i].coin]
      items == [j \in 1 .. PrefillItems(k.kind, k.inner) |-> Placeholder]
      legacy == k.kind \in {"p2pk", "p2pkh", "p2pukh"}
  IN
  /\ k.kind # "p2sh:p2wpkh"   \* UnsupportedScheme
  /\ Edit([tx EXCEPT !.inputs[i].script  = IF legacy THEN items ELSE <<>>,
                     !.inputs[i].witness = IF legacy THEN <<>> ELSE items])

(* The fields are public.                                                   *)
AddInput(c) ==
  /\ Len(tx.inputs) < MaxInputs
  /\ c \notin Range(Outpoints(tx))
  /\ \A i \in DOMAIN tx.inputs : Lock[c].cash = Lock[tx.inputs[i].coin].cash
  /\ Edit([tx EXCEPT !.inputs = Append(@, NewInput(c))])

SwapInputs(i, j) ==
  /\ i < j
  /\ Edit([tx EXCEPT !.inputs[i] = tx.inputs[j], !.inputs[j] = tx.inputs[i]])

SetOutput(i, o) == Edit([tx EXCEPT !.outputs[i] = o])
DropOutput == tx.outputs # <<>> /\ Edit([tx EXCEPT !.outputs = Front(@)])
SetSequence(i) == Edit([tx EXCEPT !.inputs[i].sequence = 1 - @])
SetLocktime == Edit([tx EXCEPT !.locktime = 1 - @])

(* The entries for the inputs as they stand.                                *)
KeysFor(inputs) ==
  {keys \in [DOMAIN inputs -> UNION {Entries[inputs[i].coin] : i \in DOMAIN inputs}] :
     \A i \in DOMAIN inputs : keys[i] \in Entries[inputs[i].coin]}

Next ==
  \/ \E keys \in KeysFor(tx.inputs) : Sign(keys)
  \/ SignNext \/ FailNext \/ Finish \/ WrongCount
  \/ \E o \in Output : AddOutput(o)
  \/ ClearInputs
  \/ \E i \in DOMAIN tx.inputs : Prefill(i) \/ SetSequence(i)
  \/ \E c \in Coin : AddInput(c)
  \/ \E i, j \in DOMAIN tx.inputs : SwapInputs(i, j)
  \/ \E i \in DOMAIN tx.outputs, o \in Output : SetOutput(i, o)
  \/ DropOutput
  \/ SetLocktime

Spec == Init /\ [][Next]_vars

----------------------------------------------------------------------------
(* What a node checks of an input: the digest made anew, for the outputs    *)
(* that are really spent, under the rules for the output.                   *)
Spent == [i \in DOMAIN tx.inputs |->
            [amount |-> Amount[tx.inputs[i].coin],
             prevScript |-> PrevScript(tx.inputs[i].coin)]]

Fresh == [segwit |-> SegwitMidstate(tx), taproot |-> TaprootMidstate(tx, Prevouts(Spent))]

Legacy == {"p2pk", "p2pkh", "p2pukh"}

StackOf(input) == IF Lock[input.coin].kind \in Legacy THEN input.script ELSE input.witness

HasSignature(input) ==
  LET stack == StackOf(input) IN stack # <<>> /\ "by" \in DOMAIN stack[1]

EcdsaHolds(i, lock, sig) ==
  LET segwit == lock.cash \/ lock.kind \notin Legacy
      code   == CASE lock.kind \in {"p2wpkh", "p2sh:p2wpkh"} -> Gen("p2pkh", lock.key)
                  [] lock.kind = "p2wsh" -> Gen(lock.inner, lock.key)
                  [] OTHER -> Gen(lock.kind, lock.key)
  IN
  /\ lock.cash = ForkId(sig.type)
  /\ sig.by = lock.key /\ sig.how = <<"ecdsa">>
  /\ Unified(sig.type) => SingleError(tx, i, sig.type) = None
  /\ sig.digest = EcdsaDigest(Fresh, Spent, i, code, sig.type, segwit)

TaprootHolds(i, lock, sig, leaf) ==
  /\ IF leaf = None THEN sig.by = lock.key /\ sig.how = <<"tweaked", lock.root>>
     ELSE /\ sig.by = leaf.key /\ sig.how = <<"plain">>
          /\ leaf.output = PrevScript(tx.inputs[i].coin)
  /\ SingleError(tx, i, sig.type) = None
  /\ sig.digest = TapDigest(Fresh, Spent, i, [sighash |-> sig.type, leaf |-> leaf])

(* The items that the lock asks for beside the signature.                   *)
Asked(lock) ==
  LET hashed == PubKeyItem(IF "p2pukh" \in {lock.kind, lock.inner} THEN "uncompressed"
                           ELSE "compressed", lock.key)
  IN
  CASE lock.kind = "p2pk" -> <<>>
    [] lock.kind = "p2wsh" ->
         (IF lock.inner \in {"p2pkh", "p2pukh"} THEN <<hashed>> ELSE <<>>)
         \o <<Program(Gen(lock.inner, lock.key))>>
    [] OTHER -> <<hashed>>

Spendable(i) ==
  LET input == tx.inputs[i]
      lock  == Lock[input.coin]
      stack == StackOf(input)
  IN
  /\ HasSignature(input)
  /\ IF lock.kind \in Legacy THEN input.witness = <<>>
     ELSE input.script = IF lock.kind = "p2sh:p2wpkh"
                           THEN <<Program(Gen("p2wpkh", lock.key))>> ELSE <<>>
  /\ IF lock.kind = "p2tr"
       THEN /\ Len(stack) <= 2
            /\ TaprootHolds(i, lock, stack[1], IF Len(stack) = 2 THEN stack[2] ELSE None)
       ELSE /\ Tail(stack) = Asked(lock)
            /\ EcdsaHolds(i, lock, stack[1])

(* "Signs the transaction": when sign() returns without an error, every     *)
(* input can be spent (BtcTx::sign).                                        *)
SignedIsValid ==
  result # None /\ result.error = None => \A i \in DOMAIN tx.inputs : Spendable(i)

(* At any point of a call, and after it returned or failed, the inputs that *)
(* it came through can be spent, whatever it signed after them, and the     *)
(* others are as they were (the loop of BtcTx::sign, SighashCache).         *)
PrefixSigned ==
  ~Idle \/ result # None =>
    LET at == IF Idle THEN result.at ELSE call.n IN
    \A i \in DOMAIN tx.inputs :
      IF i < at THEN Spendable(i) ELSE tx.inputs[i] = before[i]

(* A signature for purpose p tolerates what became of the transaction, with *)
(* its input now at i, when nothing changed but what its type leaves open.  *)
Tolerates(p, i) ==
  /\ tx.locktime = p.of.locktime
  /\ tx.inputs[i].sequence = p.of.sequences[p.at]
  /\ \/ p.partly /\ AnyoneCanPay(p.type)
     \/ i = p.at /\ Outpoints(tx) = p.of.outpoints /\ SequencesOf(tx) = p.of.sequences
  /\ \/ p.partly /\ SignsNone(p.type)
     \/ /\ p.partly /\ SignsSingle(p.type)
        /\ i \in DOMAIN tx.outputs
        /\ tx.outputs[i] = p.of.outputs[p.at]
     \/ /\ ~(p.partly /\ (SignsNone(p.type) \/ SignsSingle(p.type)))
        /\ tx.outputs = p.of.outputs

(* A signature stays valid through exactly those edits that its hash type   *)
(* tolerates: it commits to no less than the type says, which would let     *)
(* others change what was signed, and to no more (the sighash functions).   *)
CommitsExactly ==
  \A i \in DOMAIN tx.inputs :
    HasSignature(tx.inputs[i]) =>
      (Spendable(i) <=> Tolerates(made[tx.inputs[i].coin], i))
=============================================================================
