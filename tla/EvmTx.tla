-------------------------------- MODULE EvmTx ---------------------------------
(***************************************************************************)
(* EVM transactions (evmtx.rs, evmraw.rs): built, signed, edited, passed   *)
(* on in bytes and read again.  The bytes are those of RLP; a signature    *)
(* is the place in `made' of what was signed and by whom.                  *)
(***************************************************************************)
EXTENDS Rlp, FiniteSets

CONSTANTS
  Key,
  ChainIds,      \* with 0: none, for legacy transactions
  Values,        \* of the numbers of a transaction
  IntLen,        \* 8: the bytes of a u64
  Tos, Datas,    \* byte strings; <<>> is the creation of a contract
  MaxMade,       \* bound on the signatures that are made
  MaxEdits,      \* and on the fields that are set after the first
  None

VARIABLES
  tx,      \* the transaction, or None
  made,    \* history: <<[by, recid, digest, content], ...>>
  edits,   \* how many fields were set
  error    \* of the last operation, or None

vars == <<tx, made, edits, error>>

Types == {"legacy", "eip2930", "eip1559", "eip4844"}
TypeValue(type) == CASE type = "eip2930" -> 1 [] type = "eip1559" -> 2 [] OTHER -> 3

(* EvmTx::default(), with the fields that the application sets.            *)
Default ==
  [type |-> "legacy", chain |-> 0, nonce |-> 0, tip |-> 0, fee |-> 0, gas |-> 0,
   to |-> <<>>, value |-> 0, data |-> <<>>, signed |-> FALSE, y |-> 0, r |-> 0]

Init == tx = None /\ made = <<>> /\ edits = 0 /\ error = None

----------------------------------------------------------------------------
(* Mutated form of RlpFields: the tip is left out.                         *)
RlpFields_NoTip(t) ==
  IF t.type = "legacy"
    THEN <<Uint(t.nonce), Uint(t.fee), Uint(t.gas), Bytes(t.to), Uint(t.value),
           Bytes(t.data)>>
  ELSE <<Uint(t.chain), Uint(t.nonce)>>
         \o (IF t.type = "eip1559" THEN <<Uint(0)>> ELSE <<>>)
         \o <<Uint(t.fee), Uint(t.gas), Bytes(t.to), Uint(t.value),
              Bytes(t.data), List(<<>>)>>

(* The fields that are signed; there is no access list.                    *)
RlpFields(t) ==
  IF t.type = "legacy"
    THEN <<Uint(t.nonce), Uint(t.fee), Uint(t.gas), Bytes(t.to), Uint(t.value),
           Bytes(t.data)>>
  ELSE <<Uint(t.chain), Uint(t.nonce)>>
         \o (IF t.type = "eip1559" THEN <<Uint(t.tip)>> ELSE <<>>)
         \o <<Uint(t.fee), Uint(t.gas), Bytes(t.to), Uint(t.value),
              Bytes(t.data), List(<<>>)>>

Typed(t, bytes) == IF t.type = "legacy" THEN bytes ELSE <<TypeValue(t.type)>> \o bytes

SignBytes(t) ==
  Typed(t, EncodeList(
    RlpFields(t) \o IF t.type = "legacy" /\ t.chain # 0
                      THEN <<Uint(t.chain), Uint(0), Uint(0)>> ELSE <<>>))

(* r and s are two numbers that are kept the same way.                     *)
ToBytes(t) ==
  IF t.signed
    THEN Typed(t, EncodeList(RlpFields(t) \o <<Uint(t.y), Uint(t.r), Uint(t.r)>>))
    ELSE SignBytes(t)

----------------------------------------------------------------------------
(* parse_transaction().  A field that is a list is taken for no bytes.     *)

At(list, i) == IF list[i].isList THEN <<>> ELSE list[i].b
Num(list, i) == Number(At(list, i))

(* Mutated form: the parity is not taken out of v.                         *)
ChainOf_Odd(v) == IF v >= 35 THEN (v - 34) \div 2 ELSE 0

(* The chain id that a legacy v was made for.                              *)
ChainOf(v) == IF v >= 35 THEN (v - 35 - (1 - (v % 2))) \div 2 ELSE 0

(* The fields from the fee on, which are in one order in all types.        *)
Common(t, list, i) ==
  [t EXCEPT !.fee = Num(list, i), !.gas = Num(list, i + 1), !.to = At(list, i + 2),
            !.value = Num(list, i + 3), !.data = At(list, i + 4)]

WithSignature(t, list, i) ==
  IF Len(list) < i THEN t
  ELSE [t EXCEPT !.signed = TRUE, !.y = Num(list, i), !.r = Num(list, i + 1)]

ParseLegacy(list) ==
  LET t == WithSignature(Common([Default EXCEPT !.nonce = Num(list, 1)], list, 2),
                         list, 7)
  IN  IF t.signed THEN [t EXCEPT !.chain = ChainOf(t.y)] ELSE t

ParseTyped(type, list) ==
  LET t == [Default EXCEPT !.type = type, !.chain = Num(list, 1), !.nonce = Num(list, 2)]
  IN
  IF type = "eip2930" THEN WithSignature(Common(t, list, 3), list, 9)
  ELSE WithSignature(Common([t EXCEPT !.tip = Num(list, 3)], list, 4), list, 10)

FieldCounts(type) ==
  CASE type = "legacy" -> {6, 9} [] type = "eip2930" -> {8, 11} [] OTHER -> {9, 12}

(* Where there is a number that has to fit a u64: chain id, nonce and gas.  *)
IntPlaces(type) ==
  CASE type = "legacy" -> {1, 3} [] type = "eip2930" -> {1, 2, 4} [] OTHER -> {1, 2, 5}

Refused(e) == [error |-> e, t |-> Default]

Parse(buf) ==
  LET type == CASE buf[1] >= Single -> "legacy"
                [] buf[1] = 1 -> "eip2930"
                [] buf[1] = 2 -> "eip1559"
                [] OTHER -> "none"
      d == Decode(IF type = "legacy" THEN buf ELSE Tail(buf))
      list == d.items[1].items
  IN
  IF buf = <<>> THEN Refused("UnexpectedEof")
  ELSE IF type = "none" THEN Refused("UnsupportedTxType")
  ELSE IF d.error # "none" THEN Refused(d.error)
  ELSE IF Len(d.items) # 1 \/ ~d.items[1].isList THEN Refused("InvalidData")
  ELSE IF Len(list) \notin FieldCounts(type) THEN Refused("InvalidFieldCount")
  ELSE IF \E i \in IntPlaces(type) : Len(At(list, i)) > IntLen
    THEN Refused("IntegerTooLong")
  ELSE [error |-> "none",
        t |-> IF type = "legacy" THEN ParseLegacy(list) ELSE ParseTyped(type, list)]

----------------------------------------------------------------------------
(* Signatures and senders.                                                 *)

(* v, by the type of the transaction and its chain.                        *)
VOf(t, recid) ==
  CASE t.type # "legacy"                -> recid
    [] t.type = "legacy" /\ t.chain = 0 -> 27 + recid
    [] OTHER                            -> t.chain * 2 + 35 + recid

(* signature_parts(): the recovery id, or an error.                        *)
RecidOf(t) ==
  CASE t.type = "legacy" /\ t.y >= 35       -> 1 - (t.y % 2)
    [] t.type = "legacy" /\ t.y \in {27, 28} -> t.y - 27
    [] t.type = "legacy" /\ t.y \in {0, 1}   -> t.y
    [] t.type # "legacy" /\ t.y <= 3         -> t.y
    [] OTHER                                 -> 99

(* The signer, if it signed these bytes; with other bytes or another       *)
(* parity nobody that is known is recovered, or there is an error.         *)
Recovered(sig, recid, digest) ==
  IF sig \in DOMAIN made /\ made[sig].recid = recid /\ made[sig].digest = digest
    THEN made[sig].by ELSE None

SenderOf(t) ==
  IF ~t.signed \/ t.type = "eip4844" \/ RecidOf(t) = 99 THEN None
  ELSE Recovered(t.r, RecidOf(t), SignBytes(t))

(* RawEvmTx writes its fields straight into a buffer; its length is        *)
(* counted first.                                                          *)
RawFields(t, v, sig) ==
  (IF t.type = "legacy" THEN <<>> ELSE <<Uint(t.chain)>>)
    \o <<Uint(t.nonce)>>
    \o (IF t.type = "eip1559" THEN <<Uint(t.tip)>> ELSE <<>>)
    \o <<Uint(t.fee), Uint(t.gas), Bytes(t.to), Uint(t.value), Bytes(t.data)>>
    \o (IF t.type = "legacy" THEN <<>> ELSE <<List(<<>>)>>)
    \o (IF t.type = "legacy" /\ sig = 0 /\ t.chain # 0
          THEN <<Uint(t.chain), Uint(0), Uint(0)>> ELSE <<>>)
    \o (IF sig = 0 THEN <<>> ELSE <<Uint(v), Uint(sig), Uint(sig)>>)

RawEncode(t, v, sig) ==
  LET body == EncodeAll(RawFields(t, v, sig))
  IN  (IF t.type = "legacy" THEN <<>> ELSE <<TypeValue(t.type)>>)
        \o EncodeLen(Len(body), TRUE) \o body

(* recover_sender(): v has to be of the chain of the transaction.          *)
RawRecid(t, v) ==
  CASE t.type = "legacy" /\ v >= 35 ->
         IF (v - 35) \div 2 = t.chain THEN (v - 35) % 2 ELSE 99
    [] t.type = "legacy" /\ v < 35 ->
         IF v \in {27, 28} /\ t.chain = 0 THEN v - 27 ELSE 99
    [] OTHER -> IF v \in {0, 1} THEN v ELSE 99

RawSenderOf(t) ==
  IF RawRecid(t, t.y) = 99 THEN None
  ELSE Recovered(t.r, RawRecid(t, t.y), RawEncode(t, 0, 0))

----------------------------------------------------------------------------
(* What a transaction says, by its type.                                   *)
Content(t) ==
  [t EXCEPT !.signed = FALSE, !.y = 0, !.r = 0,
            !.tip = IF t.type = "eip1559" THEN t.tip ELSE 0]

New ==
  /\ tx = None
  /\ \E type \in Types, chain \in ChainIds, to \in Tos :
       tx' = [Default EXCEPT !.type = type, !.chain = chain, !.to = to]
  /\ error' = None
  /\ UNCHANGED <<made, edits>>

Edited(t) ==
  {[t EXCEPT !.type = x] : x \in Types}
    \cup {[t EXCEPT !.chain = x] : x \in ChainIds}
    \cup UNION {{[t EXCEPT !.nonce = x], [t EXCEPT !.tip = x], [t EXCEPT !.fee = x],
                 [t EXCEPT !.gas = x], [t EXCEPT !.value = x]} : x \in Values}
    \cup {[t EXCEPT !.to = x] : x \in Tos}
    \cup {[t EXCEPT !.data = x] : x \in Datas}

(* The application sets a field of the transaction.                        *)
Edit ==
  /\ tx # None
  /\ edits < MaxEdits
  /\ edits' = edits + 1
  /\ tx' \in Edited(tx) \ {tx}
  /\ error' = None
  /\ UNCHANGED made

(* sign(): which recovery id comes out depends on the key and the digest.  *)
Sign(k) ==
  /\ tx # None
  /\ Len(made) < MaxMade
  /\ UNCHANGED edits
  /\ IF tx.type = "eip4844"
       THEN error' = "UnsupportedTxType" /\ UNCHANGED <<tx, made>>
     ELSE \E recid \in {0, 1} :
       /\ made' = Append(made, [by |-> k, recid |-> recid, digest |-> SignBytes(tx),
                                content |-> Content(tx)])
       /\ tx' = [tx EXCEPT !.signed = TRUE, !.y = VOf(tx, recid), !.r = Len(made')]
       /\ error' = None

(* to_bytes() and parse_transaction().                                     *)
Pass ==
  /\ tx # None
  /\ UNCHANGED <<made, edits>>
  /\ IF tx.type = "eip4844"
       THEN error' = "UnsupportedTxType" /\ UNCHANGED tx
     ELSE \E p \in {Parse(ToBytes(tx))} :
            /\ error' = IF p.error = "none" THEN None ELSE p.error
            /\ tx' = IF p.error = "none" THEN p.t ELSE tx

Next == New \/ Edit \/ Pass \/ \E k \in Key : Sign(k)

Spec == Init /\ [][Next]_vars

----------------------------------------------------------------------------
(* The sender that is recovered signed the transaction as it is, field by  *)
(* field and for that chain; RawEvmTx writes the same bytes and recovers   *)
(* the same sender, and never another one.                                 *)
SenderSigned ==
  tx # None /\ tx.type # "eip4844" =>
    /\ SenderOf(tx) # None =>
         /\ made[tx.r].by = SenderOf(tx)
         /\ made[tx.r].content = Content(tx)
         /\ RawSenderOf(tx) = SenderOf(tx)
         /\ RawEncode(tx, tx.y, tx.r) = ToBytes(tx)
    /\ tx.signed /\ RawSenderOf(tx) # None => SenderOf(tx) = RawSenderOf(tx)

(* A transaction that is signed is read as what was written: its hash, its *)
(* sender and what it says stay.                                           *)
PassKept ==
  Pass /\ tx.signed /\ tx.type # "eip4844" =>
    /\ error' = None
    /\ tx'.signed /\ ToBytes(tx') = ToBytes(tx)
    /\ SenderOf(tx) # None =>
         SenderOf(tx') = SenderOf(tx) /\ Content(tx') = Content(tx)
=============================================================================
