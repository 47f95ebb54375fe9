-------------------------------- MODULE ZcashTx -------------------------------
(***************************************************************************)
(* Zcash v5 transactions with transparent inputs and outputs and shielded  *)
(* bundles of others (zcashtx.rs): edited, signed input by input or at     *)
(* once, and passed on in bytes.                                           *)
(*                                                                         *)
(* Bytes are cells, numbers of which each is a field of the wire format:   *)
(* fields that are hashed together are one cell.  A digest is the tuple of *)
(* what is hashed, under its personalization.                              *)
(***************************************************************************)
EXTENDS Naturals, Sequences, SequencesExt

CONSTANTS
  Key,         \* numbers above 0
  Outpoints,   \* numbers; 0 is the null outpoint of a coinbase
  Spent,       \* what each outpoint holds: [amount, script]
  Starts,      \* the transactions that are edited and signed
  Saplings, Orchards,   \* the bundles they may carry, as bytes
  HashTypes,
  MaxIns, MaxOuts, MaxEdits, MaxMade,   \* bounds of this model
  None

VARIABLES
  tx,      \* a signature is the place in `made' of what was signed, or 0
  made,    \* history: <<[by, form, type, digest, covered], ...>>
  edits,
  error    \* of the last operation, or None

vars == <<tx, made, edits, error>>

Init == tx \in Starts /\ made = <<>> /\ edits = 0 /\ error = None

(* A p2pkh script of a key, in compressed form or not, and any other.      *)
P2pkh(key, form) == <<key, form>>
OtherScript == <<0, 0>>

----------------------------------------------------------------------------
(* Reading                                                                 *)

Failed == [ok |-> FALSE, items |-> <<>>, n |-> 0, rest |-> <<>>]

Take(data, len) ==
  IF Len(data) < len THEN Failed
  ELSE [ok |-> TRUE, items |-> SubSeq(data, 1, len), n |-> len,
        rest |-> SubSeq(data, len + 1, Len(data))]

(* A compact size and the items of one length that it counts.  Counts are  *)
(* small: the sum of places at the end of a usize is left out.             *)
TakeItems(data, len) ==
  IF data = <<>> THEN Failed
  ELSE [Take(Tail(data), Head(data) * len) EXCEPT !.n = Head(data)]

(* The lengths, in cells: a spend is cv, nullifier and rk; an output cv,   *)
(* commitment and key, compact ciphertext, memo, and the rest; an action   *)
(* cv, nullifier, rk, commitment and key, compact ciphertext, memo, rest.  *)
SpendLen  == 3
OutputLen == 5
ActionLen == 7

(* parse_sapling() and parse_orchard(), with what is left behind them.     *)
Sapling(data) ==
  LET spends  == TakeItems(data, SpendLen)
      outputs == TakeItems(spends.rest, OutputLen)
      some    == spends.n + outputs.n > 0
      balance == Take(outputs.rest, IF some THEN 1 ELSE 0)
      anchor  == Take(balance.rest, IF spends.n > 0 THEN 1 ELSE 0)
      auth    == Take(anchor.rest, IF some THEN 2 * spends.n + outputs.n + 1 ELSE 0)
  IN  [ok |-> spends.ok /\ outputs.ok /\ balance.ok /\ anchor.ok /\ auth.ok,
       spends |-> spends.items, outputs |-> outputs.items,
       balance |-> balance.items, anchor |-> anchor.items, rest |-> auth.rest]

Orchard(data) ==
  LET actions == TakeItems(data, ActionLen)
      some    == actions.n > 0
      trailer == Take(actions.rest, IF some THEN 1 ELSE 0)
      proof   == IF some THEN TakeItems(trailer.rest, 1) ELSE trailer
      auth    == Take(proof.rest, IF some THEN actions.n + 1 ELSE 0)
  IN  [ok |-> actions.ok /\ trailer.ok /\ proof.ok /\ auth.ok,
       actions |-> actions.items, trailer |-> trailer.items, rest |-> auth.rest]

NoSapling == <<0, 0>>
NoOrchard == <<0>>

SaplingOf(t) == IF t.sapling = <<>> THEN NoSapling ELSE t.sapling
OrchardOf(t) == IF t.orchard = <<>> THEN NoOrchard ELSE t.orchard

----------------------------------------------------------------------------
(* Writing, and reading all of it back                                     *)

WriteHeader(t) == <<5, 26, t.branch, t.lock, t.expiry>>

WriteInput(in) ==
  <<in.from>> \o (IF in.sig = 0 THEN <<0>> ELSE <<1, in.sig>>) \o <<in.sequence>>

PutOutput(o) == <<o.amount, Len(o.script)>> \o o.script

Mapped(f(_), s) == FlattenSeq([i \in DOMAIN s |-> f(s[i])])

Serialize(t) ==
  WriteHeader(t)
    \o <<Len(t.inputs)>> \o Mapped(WriteInput, t.inputs)
    \o <<Len(t.outputs)>> \o Mapped(PutOutput, t.outputs)
    \o SaplingOf(t) \o OrchardOf(t)

RECURSIVE ReadInputs(_, _), ReadOutputs(_, _)
ReadInputs(n, data) ==
  LET from == Take(data, 1)
      sig  == TakeItems(from.rest, 1)
      seq  == Take(sig.rest, 1)
      more == ReadInputs(n - 1, seq.rest)
  IN
  IF n = 0 THEN [ok |-> TRUE, items |-> <<>>, rest |-> data]
  ELSE IF ~from.ok \/ ~sig.ok \/ ~seq.ok THEN Failed
  ELSE [more EXCEPT !.items =
          <<[from |-> from.items[1], sig |-> IF sig.n = 0 THEN 0 ELSE sig.items[1],
             sequence |-> seq.items[1]]>> \o @]

ReadOutputs(n, data) ==
  LET amount == Take(data, 1)
      script == TakeItems(amount.rest, 1)
      more   == ReadOutputs(n - 1, script.rest)
  IN
  IF n = 0 THEN [ok |-> TRUE, items |-> <<>>, rest |-> data]
  ELSE IF ~amount.ok \/ ~script.ok THEN Failed
  ELSE [more EXCEPT !.items =
          <<[amount |-> amount.items[1], script |-> script.items]>> \o @]

(* What is before the rest.                                                *)
Before(data, rest) == SubSeq(data, 1, Len(data) - Len(rest))

(* parse_into() buffers with room for so many inputs and outputs.          *)
Parse(data, room) ==
  LET nIns    == TakeItems(SubSeq(data, 6, Len(data)), 0)
      ins     == ReadInputs(nIns.n, nIns.rest)
      nOuts   == TakeItems(ins.rest, 0)
      outs    == ReadOutputs(nOuts.n, nOuts.rest)
      sapling == Sapling(outs.rest)
      orchard == Orchard(sapling.rest)
      s       == Before(outs.rest, sapling.rest)
      o       == Before(sapling.rest, orchard.rest)
  IN
  IF \/ Len(data) < 5 \/ data[1] # 5 \/ data[2] # 26
     \/ ~nIns.ok \/ nIns.n > room \/ ~ins.ok
     \/ ~nOuts.ok \/ nOuts.n > room \/ ~outs.ok
     \/ ~sapling.ok \/ ~orchard.ok \/ orchard.rest # <<>>
    THEN [ok |-> FALSE]
  ELSE [ok |-> TRUE,
        tx |-> [branch |-> data[3], lock |-> data[4], expiry |-> data[5],
                inputs |-> ins.items, outputs |-> outs.items,
                sapling |-> IF s = NoSapling THEN <<>> ELSE s,
                orchard |-> IF o = NoOrchard THEN <<>> ELSE o]]

----------------------------------------------------------------------------
(* Digests                                                                 *)

(* The cells at some places of every item, of items of one length.         *)
CellsOf(items, len, places) ==
  LET at == {i \in DOMAIN items : (i - 1) % len \in places}
      Cells[i \in 0 .. Len(items)] ==
        IF i = 0 THEN <<>>
        ELSE IF i \in at THEN Append(Cells[i - 1], items[i]) ELSE Cells[i - 1]
  IN  Cells[Len(items)]

Digest(person, parts) == <<person>> \o parts

(* A digest of nothing if there are no items.                              *)
DigestOf(items, person, parts) == Digest(person, IF items = <<>> THEN <<>> ELSE parts)

SpendCells(b) ==
  LET n == Len(b.spends) \div SpendLen
  IN  FlattenSeq([i \in 1 .. n |-> <<b.spends[3 * i - 2]>> \o b.anchor \o <<b.spends[3 * i]>>])

SaplingDigest(bundle) ==
  LET b == Sapling(bundle) IN
  DigestOf(b.spends \o b.outputs, "Sapling",
    <<DigestOf(b.spends, "SSpends",
        <<Digest("SSpendC", CellsOf(b.spends, SpendLen, {1})),
          Digest("SSpendN", SpendCells(b))>>),
      DigestOf(b.outputs, "SOutputs",
        <<Digest("SOutC", CellsOf(b.outputs, OutputLen, {1, 2})),
          Digest("SOutM", CellsOf(b.outputs, OutputLen, {3})),
          Digest("SOutN", CellsOf(b.outputs, OutputLen, {0, 4}))>>)>>
      \o b.balance)

OrchardDigest(bundle) ==
  LET b == Orchard(bundle) IN
  DigestOf(b.actions, "Orchard",
    <<Digest("OrcActC", CellsOf(b.actions, ActionLen, {1, 3, 4})),
      Digest("OrcActM", CellsOf(b.actions, ActionLen, {5})),
      Digest("OrcActN", CellsOf(b.actions, ActionLen, {0, 2, 6}))>>
      \o b.trailer)

OutpointOf(in) == <<in.from>>
SequenceOf(in) == <<in.sequence>>
AmountOf(o) == <<o.amount>>
ScriptOf(o) == <<Len(o.script)>> \o o.script

Prevouts(ins)  == Digest("Prevouts", Mapped(OutpointOf, ins))
Sequences_(ins) == Digest("Sequences", Mapped(SequenceOf, ins))
Outputs(outs)  == Digest("Outputs", Mapped(PutOutput, outs))

TransparentDigest(t) ==
  DigestOf(t.inputs \o t.outputs, "Transparent",
    <<Prevouts(t.inputs), Sequences_(t.inputs), Outputs(t.outputs)>>)

TxDigest(t, transparent) ==
  <<t.branch, Digest("Header", WriteHeader(t)), transparent,
    SaplingDigest(SaplingOf(t)), OrchardDigest(OrchardOf(t))>>

BundlesOk(t) ==
  LET s == Sapling(SaplingOf(t)) o == Orchard(OrchardOf(t))
  IN  s.ok /\ s.rest = <<>> /\ o.ok /\ o.rest = <<>>

Txid(t) == TxDigest(t, TransparentDigest(t))

IsCoinbase(t) == Len(t.inputs) = 1 /\ t.inputs[1].from = 0

(* A hash type is a base, 1 all, 2 none, 3 single, plus 128: anyone can    *)
(* pay.                                                                    *)
Base(type) == type % 128
AnyoneCanPay(type) == type >= 128

(* Mutated form: the amounts of the other inputs are not committed to.     *)
AmountsDigest_Own(type, prevouts) == Digest("Amounts", <<>>)

AmountsDigest(type, prevouts) ==
  Digest("Amounts", IF AnyoneCanPay(type) THEN <<>> ELSE Mapped(AmountOf, prevouts))

ScriptsDigest(type, prevouts) ==
  Digest("Scripts", IF AnyoneCanPay(type) THEN <<>> ELSE Mapped(ScriptOf, prevouts))

(* sighash() of an input; 0 is for the shielded spends.                    *)
SighashError(t, i, type, prevouts) ==
  CASE Base(type) \notin 1 .. 3                   -> "UnsupportedSighash"
    [] i > Len(t.inputs)                          -> "InputIndex"
    [] Base(type) = 3 /\ i > Len(t.outputs)       -> "OutputIndex"
    [] i = 0 /\ type # 1                          -> "UnsupportedSighash"
    [] /\ t.inputs # <<>> /\ ~IsCoinbase(t)
       /\ \/ i > Len(prevouts)
          \/ ~AnyoneCanPay(type) /\ Len(prevouts) # Len(t.inputs) -> "PrevOutCount"
    [] ~BundlesOk(t)                              -> "InvalidData"
    [] OTHER                                      -> None

Sighash(t, i, type, prevouts) ==
  LET acp == AnyoneCanPay(type)
      outs == CASE Base(type) = 2 -> <<>>
                [] Base(type) = 3 /\ i # 0 -> <<t.outputs[i]>>
                [] OTHER -> t.outputs
  IN
  IF t.inputs = <<>> \/ IsCoinbase(t) THEN Txid(t)
  ELSE TxDigest(t, Digest("Transparent",
    <<type,
      Prevouts(IF acp THEN <<>> ELSE t.inputs),
      AmountsDigest(type, prevouts),
      ScriptsDigest(type, prevouts),
      Sequences_(IF acp THEN <<>> ELSE t.inputs),
      Outputs(outs),
      Digest("TxIn",
        IF i = 0 THEN <<>>
        ELSE <<t.inputs[i].from>> \o PutOutput(prevouts[i])
               \o <<t.inputs[i].sequence>>)>>))

----------------------------------------------------------------------------
(* What a signature is meant to cover, from the fields.                    *)

(* Everything in a bundle but its proofs and signatures, which are last.   *)
Effects(bundle, auth) == SubSeq(bundle, 1, Len(bundle) - auth)
SaplingEffects(t) ==
  LET b == SaplingOf(t) IN
  IF b = NoSapling THEN b ELSE Effects(b, 2 * b[1] + b[2 + b[1] * SpendLen] + 1)
OrchardEffects(t) ==
  LET b == OrchardOf(t)
  IN  IF b = NoOrchard THEN b ELSE SubSeq(b, 1, 1 + b[1] * ActionLen + 1)

Facts(in, prevout) == [from |-> in.from, sequence |-> in.sequence, spent |-> prevout]

Covered(t, i, type, prevouts) ==
  LET all == [j \in DOMAIN t.inputs |-> Facts(t.inputs[j], prevouts[j])] IN
  [coinbase |-> IsCoinbase(t),
   header   |-> <<t.branch, t.lock, t.expiry>>,
   type     |-> IF IsCoinbase(t) THEN 0 ELSE type,
   sapling  |-> SaplingEffects(t), orchard |-> OrchardEffects(t),
   own      |-> IF IsCoinbase(t) THEN Facts(t.inputs[1], [amount |-> 0, script |-> <<>>])
                ELSE Facts(t.inputs[i], prevouts[i]),
   index    |-> IF IsCoinbase(t) \/ AnyoneCanPay(type) THEN 0 ELSE i,
   others   |-> IF IsCoinbase(t) \/ AnyoneCanPay(type) THEN <<>> ELSE all,
   outputs  |-> CASE IsCoinbase(t)  -> t.outputs
                  [] Base(type) = 2 -> <<>>
                  [] Base(type) = 3 -> <<t.outputs[i]>>
                  [] OTHER          -> t.outputs]

----------------------------------------------------------------------------
(* Signing                                                                 *)

Truth(t) == [i \in DOMAIN t.inputs |-> Spent[t.inputs[i].from]]

(* What a signer is told that the inputs spend: the truth, one amount      *)
(* changed, or no more than up to an input.                                *)
Told(t, i) ==
  {Truth(t), SubSeq(Truth(t), 1, i)}
    \cup {[Truth(t) EXCEPT ![j].amount = @ + 1] : j \in DOMAIN t.inputs}

SignError(t, i, k, type, prevouts) ==
  CASE i > Len(prevouts)                            -> "PrevOutCount"
    [] i <= Len(prevouts) /\ prevouts[i].script[1] = 0 -> "UnsupportedScript"
    [] i <= Len(prevouts) /\ prevouts[i].script[1] \notin {0, k} -> "KeyNotInvolved"
    [] OTHER                                        -> SighashError(t, i, type, prevouts)

Made(t, i, k, type, prevouts) ==
  [by |-> k, form |-> prevouts[i].script[2], type |-> type,
   digest |-> Sighash(t, i, type, prevouts),
   covered |-> Covered(t, i, type, prevouts)]

(* sign_input_to_slice(), whose scriptSig the application puts into the    *)
(* input.                                                                  *)
SignInput(k) ==
  /\ Len(made) < MaxMade
  /\ UNCHANGED edits
  /\ \E i \in DOMAIN tx.inputs, type \in HashTypes :
       /\ \E prevouts \in Told(tx, i) :
            /\ error' = SignError(tx, i, k, type, prevouts)
            /\ IF error' # None THEN UNCHANGED <<tx, made>>
               ELSE /\ made' = Append(made, Made(tx, i, k, type, prevouts))
                    /\ tx' = [tx EXCEPT !.inputs[i].sig = Len(made')]

(* sign_to_slice(): all the inputs, one key each, or nothing is returned.  *)
SignAll ==
  \E n \in DOMAIN tx.inputs :
    \E keys \in [1 .. n -> Key], prevouts \in Told(tx, 1) :
      LET Error(i) == SignError(tx, i, keys[i], 1, prevouts)
          sigs == [i \in 1 .. n |-> Made(tx, i, keys[i], 1, prevouts)]
          signed == [tx EXCEPT !.inputs =
            [i \in DOMAIN @ |-> [@[i] EXCEPT !.sig = Len(made) + i]]]
          bad == {i \in 1 .. n : Error(i) # None}
      IN
      /\ Len(made) + n <= MaxMade
      /\ error' = CASE n # Len(tx.inputs) -> "KeyCount"
                    [] n = Len(tx.inputs) /\ bad # {} ->
                         Error(CHOOSE i \in bad : \A j \in bad : i <= j)
                    [] OTHER -> None
      /\ IF error' # None THEN UNCHANGED <<tx, made>>
         ELSE made' = made \o sigs /\ tx' = Parse(Serialize(signed), MaxIns + MaxOuts).tx
      /\ UNCHANGED edits

(* The application makes another transaction of the one it has.            *)
Edits(t) ==
  (IF Len(t.inputs) = MaxIns THEN {}
   ELSE {[t EXCEPT !.inputs = Append(@, [from |-> o, sig |-> 0, sequence |-> 1])] :
           o \in {x \in Outpoints : \A i \in DOMAIN t.inputs : t.inputs[i].from # x}})
    \cup {[t EXCEPT !.inputs = RemoveAt(@, i)] : i \in DOMAIN t.inputs}
    \cup {[t EXCEPT !.inputs = Reverse(@)], [t EXCEPT !.outputs = Reverse(@)],
          [t EXCEPT !.branch = 8], [t EXCEPT !.lock = 8], [t EXCEPT !.expiry = 8]}
    \cup {[t EXCEPT !.inputs[i].sequence = 2] : i \in DOMAIN t.inputs}
    \cup (IF Len(t.outputs) = MaxOuts THEN {}
          ELSE {[t EXCEPT !.outputs = Append(@, [amount |-> 1, script |-> OtherScript])]})
    \cup {[t EXCEPT !.outputs = RemoveAt(@, i)] : i \in DOMAIN t.outputs}
    \cup {[t EXCEPT !.outputs[i].amount = @ + 1] : i \in DOMAIN t.outputs}
    \cup {[t EXCEPT !.outputs[i].script = OtherScript] : i \in DOMAIN t.outputs}
    \cup {[t EXCEPT !.sapling = b] : b \in Saplings}
    \cup {[t EXCEPT !.orchard = b] : b \in Orchards}

Edit ==
  /\ edits < MaxEdits
  /\ edits' = edits + 1
  /\ tx' \in Edits(tx) \ {tx}
  /\ error' = None
  /\ UNCHANGED made

(* serialize() and parse_into().                                           *)
Pass ==
  /\ UNCHANGED <<made, edits>>
  /\ \E room \in {1, MaxIns + MaxOuts} :
       LET p == Parse(Serialize(tx), room) IN
       /\ error' = IF p.ok THEN None ELSE "refused"
       /\ tx' = IF p.ok THEN p.tx ELSE tx

Next == Edit \/ SignAll \/ Pass \/ \E k \in Key : SignInput(k)

Spec == Init /\ [][Next]_vars

----------------------------------------------------------------------------
(* The signature of an input is one of its digest, by the key of what it   *)
(* really spends.                                                          *)
Verifies(i) ==
  LET m == made[tx.inputs[i].sig]
      spent == Spent[tx.inputs[i].from].script
  IN  /\ tx.inputs[i].sig # 0
      /\ spent = P2pkh(m.by, m.form)
      /\ SighashError(tx, i, m.type, Truth(tx)) = None
      /\ Sighash(tx, i, m.type, Truth(tx)) = m.digest

(* A signature counts exactly as long as what its hash type covers is what *)
(* the signer was told: edits of the rest, of the proofs of a bundle, and  *)
(* a way through bytes, leave it valid, and a wrong amount never passes.   *)
ZcashCommits ==
  \A i \in DOMAIN tx.inputs :
    LET m == made[tx.inputs[i].sig] IN
    /\ tx.inputs[i].sig # 0
    /\ SighashError(tx, i, m.type, Truth(tx)) = None
    /\ Spent[tx.inputs[i].from].script = P2pkh(m.by, m.form)
    => (Verifies(i) <=> Covered(tx, i, m.type, Truth(tx)) = m.covered)

(* A transaction with legal bundles is read back as it was, but for empty  *)
(* bundles that were spelt out, and has the id it had.                     *)
PassKept ==
  Pass /\ error' = None /\ BundlesOk(tx) =>
    Txid(tx') = Txid(tx) /\ Serialize(tx') = Serialize(tx)
=============================================================================
