------------------------------- MODULE CardanoTx ------------------------------
(***************************************************************************)
(* Cardano transactions (cardanotx.rs): built, witnessed by signers here   *)
(* and elsewhere, verified, and passed on in CBOR.  A hash is the bytes    *)
(* that are hashed; a signature is the place in `made' of what was signed  *)
(* and by whom.                                                            *)
(***************************************************************************)
EXTENDS Cbor, FiniteSets

CONSTANTS
  Key,          \* numbers
  Refusing,     \* the keys whose signer fails
  MaxAmount,    \* 2^64 - 1
  Ids, Indexes, Addresses, Amounts, Ttls,   \* of the fields
  OtherIds, OtherAddresses,   \* what they are changed to
  AssetLists,   \* the native tokens that an output is given
  MaxIns, MaxOuts, MaxEdits, MaxMade, MaxWitnesses,   \* bounds of this model
  None

VARIABLES
  tx,       \* [inputs, outputs, fee, ttl, witnesses]
  made,     \* history: <<[by, digest, content, here], ...>>
  asked,    \* the body that a signer elsewhere was given, or None
  edits,
  error     \* of the last operation, or None

vars == <<tx, made, asked, edits, error>>

Default == [inputs |-> <<>>, outputs |-> <<>>, fee |-> 0, ttl |-> 0, witnesses |-> <<>>]

Init == tx = Default /\ made = <<>> /\ asked = None /\ edits = 0 /\ error = None

----------------------------------------------------------------------------
(* The body                                                                *)

SamePolicy(a, b) == a.policy = b.policy
SameAsset(a, b)  == a.policy = b.policy /\ a.name = b.name

(* What an output holds of an asset, which may be listed more than once.   *)
RECURSIVE Total(_, _)
Total(assets, a) ==
  IF assets = <<>> THEN 0
  ELSE Total(Tail(assets), a) + (IF SameAsset(Head(assets), a) THEN Head(assets).amount ELSE 0)

Overflows(assets) == \E i \in DOMAIN assets : Total(assets, assets[i]) > MaxAmount

(* multiasset_map(): policies in the order in which they come first, and   *)
(* the names of each.                                                      *)
RECURSIVE NamesOf(_), MultiassetEntries(_)
NamesOf(l) ==
  IF l = <<>> THEN <<>>
  ELSE <<<<Bytes(Head(l).name), Uint(Total(l, Head(l)))>>>>
         \o NamesOf(SelectSeq(l, LAMBDA x : ~SameAsset(x, Head(l))))

MultiassetEntries(l) ==
  IF l = <<>> THEN <<>>
  ELSE <<<<Bytes(Head(l).policy),
           MapOf(NamesOf(SelectSeq(l, LAMBDA x : SamePolicy(x, Head(l)))))>>>>
         \o MultiassetEntries(SelectSeq(l, LAMBDA x : ~SamePolicy(x, Head(l))))

MultiassetMap(assets) == MapOf(MultiassetEntries(assets))

OutputValue(o) ==
  IF o.assets = <<>> THEN Uint(o.amount)
  ELSE Array(<<Uint(o.amount), MultiassetMap(o.assets)>>)

InputItem(in) == Array(<<Bytes(in.txid), Uint(in.index)>>)
OutputItem(o) == Array(<<Bytes(o.address), OutputValue(o)>>)

(* The errors of body_map(): ids have one length, here 1.                  *)
BodyError(t) ==
  CASE t.inputs = <<>>  -> "NoInputs"
    [] t.inputs # <<>> /\ t.outputs = <<>> -> "NoOutputs"
    [] t.inputs # <<>> /\ t.outputs # <<>>
       /\ (\E i \in DOMAIN t.inputs : Len(t.inputs[i].txid) # 1) -> "InvalidLength"
    [] OTHER ->
         LET bad == {i \in DOMAIN t.outputs :
                       t.outputs[i].address = <<>> \/ Overflows(t.outputs[i].assets)}
         IN  IF bad = {} THEN None
             ELSE LET first == CHOOSE i \in bad : \A j \in bad : i <= j
                  IN  IF t.outputs[first].address = <<>> THEN "EmptyAddress"
                      ELSE "Overflow"

(* Mutated form: the time to live is left out.                             *)
BodyMap_NoTtl(t) ==
  MapOf(<<<<Uint(0), Array([i \in DOMAIN t.inputs |-> InputItem(t.inputs[i])])>>,
          <<Uint(1), Array([i \in DOMAIN t.outputs |-> OutputItem(t.outputs[i])])>>,
          <<Uint(2), Uint(t.fee)>>>>)

BodyMap(t) ==
  MapOf(<<<<Uint(0), Array([i \in DOMAIN t.inputs |-> InputItem(t.inputs[i])])>>,
          <<Uint(1), Array([i \in DOMAIN t.outputs |-> OutputItem(t.outputs[i])])>>,
          <<Uint(2), Uint(t.fee)>>>>
        \o IF t.ttl # 0 THEN <<<<Uint(3), Uint(t.ttl)>>>> ELSE <<>>)

BodyBytes(t) == Encode(BodyMap(t))

----------------------------------------------------------------------------
(* The transaction                                                         *)

WitnessSet(t) ==
  IF t.witnesses = <<>> THEN MapOf(<<>>)
  ELSE MapOf(<<<<Uint(0), Array([i \in DOMAIN t.witnesses |->
         Array(<<Bytes(t.witnesses[i].vkey), Bytes(t.witnesses[i].sig)>>)])>>>>)

Around(body, t) == Encode(Array(<<Raw(body), WitnessSet(t), True, Null>>))
ToBytes(t) == Around(BodyBytes(t), t)

(* from_bytes(): the first entry of a key counts, other keys do not, and   *)
(* neither does what follows the witnesses.                                *)
Has(map, k) == \E i \in DOMAIN map.items : map.items[i][1] = Uint(k)
Get(map, k) ==
  LET at == {i \in DOMAIN map.items : map.items[i][1] = Uint(k)}
  IN  map.items[CHOOSE i \in at : \A j \in at : i <= j][2]

IsPair(v, a, b) ==
  v.type = "array" /\ Len(v.items) = 2 /\ v.items[1].type = a /\ v.items[2].type = b

MultiassetOk(v) ==
  /\ v.type = "map"
  /\ \A i \in DOMAIN v.items :
       /\ v.items[i][1].type = "bytes" /\ v.items[i][2].type = "map"
       /\ \A j \in DOMAIN v.items[i][2].items :
            /\ v.items[i][2].items[j][1].type = "bytes"
            /\ v.items[i][2].items[j][2].type = "uint"

OutputOk(v) ==
  /\ v.type = "array" /\ Len(v.items) >= 2
  /\ v.items[1].type = "bytes"
  /\ \/ v.items[2].type = "uint"
     \/ IsPair(v.items[2], "uint", "map") /\ MultiassetOk(v.items[2].items[2])

ListOk(map, k) == Has(map, k) => Get(map, k).type = "array"
ListOf(map, k) == IF Has(map, k) THEN Get(map, k).items ELSE <<>>

InputOk(v) == IsPair(v, "bytes", "uint")
WitnessOk(v) == IsPair(v, "bytes", "bytes")
NumberOk(map, k) == Has(map, k) => Get(map, k).type = "uint"

(* flatten_assets(): by policy and name.                                   *)
FlattenAssets(map) ==
  SortSeq(FlattenSeq([i \in DOMAIN map.items |->
           [j \in DOMAIN map.items[i][2].items |->
              [policy |-> map.items[i][1].b,
               name   |-> map.items[i][2].items[j][1].b,
               amount |-> map.items[i][2].items[j][2].v]]]),
         LAMBDA a, b : LexLess(a.policy, b.policy)
                         \/ (a.policy = b.policy /\ LexLess(a.name, b.name)))

DecodeOutput(v) ==
  IF v.items[2].type = "uint"
    THEN [address |-> v.items[1].b, amount |-> v.items[2].v, assets |-> <<>>]
  ELSE [address |-> v.items[1].b, amount |-> v.items[2].items[1].v,
        assets |-> FlattenAssets(v.items[2].items[2])]

NumberOf(map, k) == IF Has(map, k) THEN Get(map, k).v ELSE 0

ReadInputs(l) ==
  [i \in DOMAIN l |-> [txid |-> l[i].items[1].b, index |-> l[i].items[2].v]]
ReadOutputs(l) == [i \in DOMAIN l |-> DecodeOutput(l[i])]
ReadWitnesses(l) ==
  [i \in DOMAIN l |-> [vkey |-> l[i].items[1].b, sig |-> l[i].items[2].b]]

BodyOk(b) ==
  /\ b.type = "map"
  /\ ListOk(b, 0) /\ \A v \in ToSet(ListOf(b, 0)) : InputOk(v)
  /\ ListOk(b, 1) /\ \A v \in ToSet(ListOf(b, 1)) : OutputOk(v)
  /\ NumberOk(b, 2) /\ NumberOk(b, 3)

(* A witness set of another type counts for none.                          *)
WitnessesOf(ws) == IF ws.type = "map" THEN ListOf(ws, 0) ELSE <<>>
WitnessesOk(ws) ==
  ws.type = "map" => ListOk(ws, 0) /\ \A v \in ToSet(ListOf(ws, 0)) : WitnessOk(v)

ReadTx(body, ws) ==
  IF ~body.ok \/ ~BodyOk(body.value) \/ ~ws.ok \/ ~WitnessesOk(ws.value)
    THEN [ok |-> FALSE]
  ELSE [ok |-> TRUE,
        tx |-> [inputs    |-> ReadInputs(ListOf(body.value, 0)),
                outputs   |-> ReadOutputs(ListOf(body.value, 1)),
                fee       |-> NumberOf(body.value, 2),
                ttl       |-> NumberOf(body.value, 3),
                witnesses |-> ReadWitnesses(WitnessesOf(ws.value))]]

ReadItems(raw) ==
  IF ~raw.ok \/ Len(raw.items) < 2 THEN [ok |-> FALSE]
  ELSE ReadTx(Decode(raw.items[1]), Decode(raw.items[2]))

FromBytes(data) == ReadItems(SplitArrayItems(data))

----------------------------------------------------------------------------
(* What a transaction says: of the tokens only how much of each.           *)
Content(t) ==
  [inputs |-> t.inputs, fee |-> t.fee, ttl |-> t.ttl,
   outputs |-> [i \in DOMAIN t.outputs |->
     LET o == t.outputs[i] IN
     [address |-> o.address, amount |-> o.amount,
      assets |-> {[a EXCEPT !.amount = Total(o.assets, a)] : a \in ToSet(o.assets)}]]]

Signed(k, body, content, here) == [by |-> k, digest |-> body, content |-> content, here |-> here]

----------------------------------------------------------------------------
(* The application sets the fields.                                        *)
Edits(t) ==
  (IF Len(t.inputs) = MaxIns THEN {}
   ELSE {[t EXCEPT !.inputs = Append(@, [txid |-> id, index |-> i])] : id \in Ids, i \in Indexes})
    \cup (IF Len(t.outputs) = MaxOuts THEN {}
          ELSE {[t EXCEPT !.outputs = Append(@, [address |-> a, amount |-> v, assets |-> l])] :
                  a \in Addresses, v \in Amounts, l \in AssetLists})
    \cup {[t EXCEPT !.outputs[i].assets = l] : i \in DOMAIN t.outputs, l \in AssetLists}
    \cup {[t EXCEPT !.inputs[i].txid = id] : i \in DOMAIN t.inputs, id \in OtherIds}
    \cup {[t EXCEPT !.outputs[i].address = a] :
            i \in DOMAIN t.outputs, a \in OtherAddresses}
    \cup {[t EXCEPT !.outputs[i].amount = v] : i \in DOMAIN t.outputs, v \in Amounts}
    \cup {[t EXCEPT !.fee = v] : v \in Amounts}
    \cup {[t EXCEPT !.ttl = v] : v \in Ttls}
    \cup {[t EXCEPT !.inputs = Reverse(@)]}

Edit ==
  /\ edits < MaxEdits
  /\ edits' = edits + 1
  /\ tx' \in Edits(tx) \ {tx}
  /\ error' = None
  /\ UNCHANGED <<made, asked>>

(* Keys and signatures have one length each, here 1.                       *)
Witness(k, sig) == [vkey |-> <<k>>, sig |-> <<sig>>]
WrongLength(w) == Len(w.vkey) # 1 \/ Len(w.sig) # 1

(* What comes from elsewhere may be cut.                                   *)
Answers(k, sig) ==
  LET w == Witness(k, sig) IN {w, [w EXCEPT !.vkey = <<>>], [w EXCEPT !.sig = <<>>]}

(* sign_with(): a signer that fails leaves the witnesses before it.        *)
Sign ==
  \E keys \in SeqOf(Key, 2) :
    LET bad == {i \in DOMAIN keys : keys[i] \in Refusing}
        n == IF bad = {} THEN Len(keys) ELSE (CHOOSE i \in bad : \A j \in bad : i <= j) - 1
    IN
    /\ keys # <<>>
    /\ Len(made) + Len(keys) <= MaxMade
    /\ Len(tx.witnesses) + Len(keys) <= MaxWitnesses
    /\ UNCHANGED <<asked, edits>>
    /\ IF BodyError(tx) # None THEN error' = BodyError(tx) /\ UNCHANGED <<tx, made>>
       ELSE /\ error' = IF bad = {} THEN None ELSE "Signer"
            /\ made' = made \o [i \in 1 .. n |->
                                  Signed(keys[i], BodyBytes(tx), Content(tx), TRUE)]
            /\ tx' = [tx EXCEPT !.witnesses = @ \o [i \in 1 .. n |->
                                  Witness(keys[i], Len(made) + i)]]

(* A signer elsewhere is given the hash of the body as it is now; its      *)
(* answer may come when the body is another.                               *)
Ask ==
  /\ asked = None
  /\ BodyError(tx) = None
  /\ asked' = [digest |-> BodyBytes(tx), content |-> Content(tx)]
  /\ error' = None
  /\ UNCHANGED <<tx, made, edits>>

(* add_witness(): a key and a signature have their lengths.                *)
AddWitness(k) ==
  /\ asked # None
  /\ Len(made) < MaxMade
  /\ Len(tx.witnesses) < MaxWitnesses
  /\ UNCHANGED edits
  /\ \E w \in Answers(k, Len(made) + 1) :
       IF WrongLength(w) THEN error' = "InvalidLength" /\ UNCHANGED <<tx, made, asked>>
       ELSE /\ made' = Append(made, Signed(k, asked.digest, asked.content, TRUE))
            /\ tx' = [tx EXCEPT !.witnesses = Append(@, w)]
            /\ asked' = None
            /\ error' = None

(* verify(): the error names the first witness that is not of this body;   *)
(* none at all is no error.                                                *)
Witnessed(t, i) ==
  LET w == t.witnesses[i] IN
  /\ ~WrongLength(w)
  /\ made[w.sig[1]].by = w.vkey[1]
  /\ made[w.sig[1]].digest = BodyBytes(t)

VerifyError(t) ==
  LET bad == {i \in DOMAIN t.witnesses : ~Witnessed(t, i)}
      first == CHOOSE i \in bad : \A j \in bad : i <= j
  IN
  IF BodyError(t) # None THEN BodyError(t)
  ELSE IF bad = {} THEN None
  ELSE IF WrongLength(t.witnesses[first]) THEN "InvalidLength"
  ELSE "SignatureVerification"

Verify ==
  /\ error' = VerifyError(tx)
  /\ UNCHANGED <<tx, made, asked, edits>>

(* to_bytes() and from_bytes().                                            *)
Pass ==
  /\ UNCHANGED <<made, asked, edits>>
  /\ IF BodyError(tx) # None THEN error' = BodyError(tx) /\ UNCHANGED tx
     ELSE \E p \in {FromBytes(ToBytes(tx))} :
            /\ error' = IF p.ok THEN None ELSE "InvalidData"
            /\ tx' = IF p.ok THEN p.tx ELSE tx

(* Bytes of another program, which may write its body in another order,    *)
(* with a time to live of 0, or with a key twice, and signs that; its      *)
(* witness may be cut.                                                     *)
Foreign(t) ==
  LET m == BodyMap(t) IN
  {WriteHead(5, Len(l)) \o FlattenSeq([i \in DOMAIN l |-> Encode(l[i][1]) \o Encode(l[i][2])]) :
     l \in {Reverse(m.items), Append(m.items, <<Uint(3), Uint(0)>>),
            Append(m.items, <<Uint(2), Uint(1)>>), Append(m.items, <<Uint(4), Null>>)}}

Receive(k) ==
  /\ BodyError(tx) = None
  /\ Len(made) < MaxMade
  /\ tx.witnesses = <<>>
  /\ UNCHANGED <<asked, edits>>
  /\ \E body \in Foreign(tx), w \in Answers(k, Len(made) + 1) :
       \E p \in {FromBytes(Around(body, [tx EXCEPT !.witnesses = <<w>>]))} :
           IF ~p.ok THEN error' = "InvalidData" /\ UNCHANGED <<tx, made>>
           ELSE /\ tx' = p.tx
                /\ made' = Append(made, Signed(k, body, Content(p.tx), FALSE))
                /\ error' = None

Next ==
  Edit \/ Sign \/ Ask \/ Verify \/ Pass \/ \E k \in Key : AddWitness(k) \/ Receive(k)

Spec == Init /\ [][Next]_vars

----------------------------------------------------------------------------
(* A witness counts for as long as the transaction says what was signed,   *)
(* whatever way its tokens are listed, and no longer; of a transaction     *)
(* that another program wrote in another form none counts, rather than one *)
(* that signed something else.                                             *)
WitnessesCommit ==
  BodyError(tx) = None =>
    \A i \in DOMAIN tx.witnesses :
      ~WrongLength(tx.witnesses[i]) =>
        LET m == made[tx.witnesses[i].sig[1]] IN
        /\ Witnessed(tx, i) => m.content = Content(tx)
        /\ m.here /\ m.content = Content(tx) => Witnessed(tx, i)

(* On the way through bytes the hash, what is said and every witness stay. *)
PassKept ==
  Pass /\ BodyError(tx) = None =>
    /\ error' = None
    /\ BodyBytes(tx') = BodyBytes(tx) /\ Content(tx') = Content(tx)
    /\ tx'.witnesses = tx.witnesses
=============================================================================
