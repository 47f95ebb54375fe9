------------------------------- MODULE SolanaTx -------------------------------
(***************************************************************************)
(* A Solana transaction from its instructions to its last signature        *)
(* (SolanaTx in src/src/solana/tx.rs).  The holders of the keys sign one   *)
(* after the other, some with several keys, some with wrong ones; between  *)
(* calls the transaction is edited, checked, or passed on in bytes.        *)
(***************************************************************************)
EXTENDS SolanaMessage

CONSTANTS
  Payer,       \* keys that pay
  Lists,       \* lists of instructions
  Configs,     \* what a v1 transaction requests
  Tables,      \* lists of table lookups of a v0 transaction
  Blockhash,
  Seeds,       \* sequences of keys: the seeds of one call
  Foreign,     \* bytes that come from elsewhere
  MaxEdits     \* bound on the edits of the blockhash

(* None is neither an error nor a part that bytes are cut in. *)
ASSUME NoneAssumption ==
  None \notin {"TooLarge", "InvalidHeader", "DuplicateKey", "InvalidTxConfig",
               "IndexOutOfRange", "MissingSignatures", "InvalidSignature",
               "SignatureVerification", "Panic", "InvalidData", "UnexpectedEof",
               "TrailingData", "Misread", "signatures", "keys", "values",
               "instructions", "lookups"}

(* A slice of instructions names finitely many accounts, and keys are      *)
(* ordered.                                                                *)
ASSUME ListsAssumption ==
  \A payer \in Payer, ixs \in Lists :
    IsFiniteSet(Seen(payer, ixs)) /\ Seen(payer, ixs) \subseteq Int

(* A lookup counts accounts, and what is requested is one of the Requests. *)
ASSUME TablesAssumption ==
  \A lookups \in Tables : lookups \in Seq([writable : Nat, readonly : Nat])

ASSUME ConfigsAssumption ==
  \A config \in Configs :
    /\ config = [r \in DOMAIN config |-> config[r]]
    /\ DOMAIN config \subseteq {Requests[n] : n \in 1 .. 4}

(* What comes from elsewhere comes unsigned: every signature is one that   *)
(* sign() makes.                                                           *)
ASSUME ForeignAssumption ==
  \A w \in Foreign : w.sigs \in Seq({Zeros}) /\ w.header.required \in Nat

VARIABLES
  tx,      \* the transaction, or None
  draft,   \* history: what it was compiled from, or None
  result,  \* the error of the last call, or None
  made,    \* history: every signature made
  edits    \* history: the number of edits

vars == <<tx, draft, result, made, edits>>

Init ==
  /\ tx = None
  /\ draft = None
  /\ result = None
  /\ made = {}
  /\ edits = 0

Fail(e) == result' = e /\ UNCHANGED <<tx, draft, made, edits>>

(* new_solana_tx(), new_solana_tx_v0(), new_solana_tx_v1() *)
NewTx(format, payer, ixs, b, lookups, config) ==
  LET keys == AccountKeys(payer, ixs)
      h    == HeaderOf(payer, ixs)
  IN  [format |-> format, header |-> h, keys |-> keys, blockhash |-> b,
       ixs |-> Compiled(keys, ixs), lookups |-> lookups, config |-> config,
       sigs |-> [i \in 1 .. h.required |-> Empty]]

NewError(t) ==
  IF Len(t.keys) > MaxKeys THEN "TooLarge"
  ELSE IF t.format = "v1" THEN V1Error(t)
  ELSE None

New(format, payer, ixs, b, lookups, config) ==
  LET t == NewTx(format, payer, ixs, b, lookups, config) IN
  /\ tx = None
  /\ IF NewError(t) # None THEN Fail(NewError(t))
     ELSE /\ tx' = t
          /\ draft' = [payer |-> payer, ixs |-> ixs]
          /\ result' = None
          /\ UNCHANGED <<made, edits>>

Formats(payer, ixs, b) ==
  \/ New("legacy", payer, ixs, b, <<>>, <<>>)
  \/ \E lookups \in Tables : New("v0", payer, ixs, b, lookups, <<>>)
  \/ \E config \in Configs : New("v1", payer, ixs, b, <<>>, config)

(* from_bytes() of what comes from elsewhere. *)
Receive(w) ==
  /\ tx = None
  /\ IF FromBytesError(w) # None THEN Fail(FromBytesError(w))
     ELSE /\ tx' = FromBytes(w)
          /\ result' = None
          /\ UNCHANGED <<draft, made, edits>>

(* The application writes another blockhash into the message. *)
Edit(b) ==
  /\ tx # None
  /\ edits < MaxEdits
  /\ b # tx.blockhash
  /\ tx' = [tx EXCEPT !.blockhash = b]
  /\ edits' = edits + 1
  /\ UNCHANGED <<draft, result, made>>

(* The slot of a key: its first place among the required signers, or 0. *)
Slot(t, k) ==
  LET at == {i \in 1 .. t.header.required : t.keys[i] = k}
  IN  IF at = {} THEN 0 ELSE Min(at)

Signature(t, k) == [by |-> k, message |-> Message(t)]

(* Mutated form of Filled: every call starts from empty slots. *)
Filled_Afresh(t, keys) ==
  [i \in DOMAIN t.sigs |->
     IF \E k \in keys : Slot(t, k) = i THEN Signature(t, t.keys[i]) ELSE Empty]

Filled(t, keys) ==
  [i \in DOMAIN t.sigs |->
     IF \E k \in keys : Slot(t, k) = i THEN Signature(t, t.keys[i]) ELSE t.sigs[i]]

(* sign(): seed after seed, up to the first one that is not required, or   *)
(* that has no slot to be written to.                                      *)
SeedError(t, k) ==
  IF Slot(t, k) = 0 THEN "NotRequiredSigner"
  ELSE IF Slot(t, k) > Len(t.sigs) THEN "Panic"
  ELSE None

Sign(seeds) ==
  /\ tx # None
  /\ IF MessageError(tx) # None THEN Fail(MessageError(tx))
     ELSE IF tx.header.required > Len(tx.keys) THEN Fail("InvalidHeader")
     ELSE LET errors == [n \in DOMAIN seeds |-> SeedError(tx, seeds[n])]
              bad    == {n \in DOMAIN seeds : errors[n] # None}
              stop   == IF bad = {} THEN Len(seeds) + 1 ELSE Min(bad)
              signed == {seeds[n] : n \in 1 .. stop - 1}
          IN
          /\ tx' = [tx EXCEPT !.sigs = Filled(tx, signed)]
          /\ made' = made \cup {Signature(tx, k) : k \in signed}
          /\ result' = IF bad = {} THEN None ELSE errors[stop]
          /\ UNCHANGED <<draft, edits>>

(* Mutated form of Accepts: any signature of the key will do. *)
Accepts_AnyMessage(t, i) ==
  t.sigs[i] \notin {Empty, Zeros} /\ t.sigs[i].by = t.keys[i]

(* ed25519::verify(): the key of the slot signed this message. *)
Accepts(t, i) ==
  t.sigs[i] \notin {Empty, Zeros} /\ t.sigs[i] = Signature(t, t.keys[i])

(* verify() *)
VerifyError(t) ==
  IF MessageError(t) # None THEN MessageError(t)
  ELSE IF t.header.required > Len(t.keys) THEN "InvalidHeader"
  ELSE IF Len(t.sigs) < t.header.required THEN "MissingSignatures"
  ELSE FirstError([i \in 1 .. t.header.required |->
         IF t.sigs[i] = Empty THEN <<TRUE, "InvalidSignature">>
         ELSE <<~Accepts(t, i), "SignatureVerification">>])

Verify ==
  /\ tx # None
  /\ Fail(VerifyError(tx))

(* to_bytes(), and from_bytes() at the next holder. *)
Pass ==
  /\ tx # None
  /\ IF ToBytesError(tx) # None THEN Fail(ToBytesError(tx))
     ELSE IF FromBytesError(ToBytes(tx)) # None
       THEN Fail(FromBytesError(ToBytes(tx)))
     ELSE /\ tx' = FromBytes(ToBytes(tx))
          /\ result' = None
          /\ UNCHANGED <<draft, made, edits>>

Next ==
  \/ \E payer \in Payer, ixs \in Lists, b \in Blockhash : Formats(payer, ixs, b)
  \/ \E w \in Foreign : Receive(w)
  \/ \E b \in Blockhash : Edit(b)
  \/ \E seeds \in Seeds : Sign(seeds)
  \/ Verify
  \/ Pass

Spec == Init /\ [][Next]_vars

----------------------------------------------------------------------------
(* Properties *)

(* The network reads from the header the rights that the instructions ask  *)
(* for, key by key, finds the fee payer first and no key twice, and reads  *)
(* back every instruction: compile_accounts() orders, counts and indexes.  *)
RightsKept ==
  LET payer == draft.payer
      n     == Len(tx.keys)
  IN
  draft # None =>
    /\ tx.keys[1] = payer
    /\ {tx.keys[i] : i \in 1 .. n} = Seen(payer, draft.ixs)
    /\ \A i \in 1 .. n :
         /\ \A j \in 1 .. n : tx.keys[i] = tx.keys[j] => i = j
         /\ SignerAt(tx.header, i - 1) <=> IsSigner(payer, draft.ixs, tx.keys[i])
         /\ WritableAt(tx.header, n, i - 1) <=>
              IsWritable(payer, draft.ixs, tx.keys[i])
    /\ \A m \in DOMAIN draft.ixs :
         LET ix == draft.ixs[m] IN
         /\ tx.keys[tx.ixs[m].program + 1] = ix.program
         /\ [a \in DOMAIN ix.accounts |-> tx.keys[tx.ixs[m].accounts[a] + 1]]
              = [a \in DOMAIN ix.accounts |-> ix.accounts[a].key]

(* A transaction verifies only if the holder of every required key signed  *)
(* this very message, blockhash and all, whatever it signed before.        *)
VerifiedIsSigned ==
  (tx # None /\ VerifyError(tx) = None) =>
    \A i \in 1 .. tx.header.required : Signature(tx, tx.keys[i]) \in made

(* "Serializes the transaction": what is written can be read, as the same  *)
(* message with the same signatures.                                       *)
WireKeeps ==
  (tx # None /\ ToBytesError(tx) = None) =>
    LET w == ToBytes(tx) IN
    /\ FromBytesError(w) = None
    /\ Message(FromBytes(w)) = Message(tx)
    /\ \A i \in DOMAIN tx.sigs : tx.sigs[i] # Empty => w.sigs[i] = tx.sigs[i]

(* A signature stays while the message does: not a later signer, nor a     *)
(* call that fails at its second seed, nor the way through bytes loses it. *)
SignaturesStay ==
  [][tx # None =>
       \A i \in 1 .. tx.header.required :
         (i \in DOMAIN tx.sigs /\ Accepts(tx, i) /\ Message(tx') = Message(tx))
           => tx'.sigs[i] = tx.sigs[i]]_vars

(* "must error, not panic": sign() of a transaction that was read.         *)
NeverPanics == result # "Panic"
=============================================================================
