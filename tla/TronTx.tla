-------------------------------- MODULE TronTx --------------------------------
(***************************************************************************)
(* Tron transactions (trontx.rs): raw data is built or comes from a node,  *)
(* may be altered on the way, is read to be shown, signed as it was shown, *)
(* and passed on with its signatures.                                      *)
(*                                                                         *)
(* Protobuf is a sequence of cells: fields with a number, a wire type and  *)
(* a value, which is a number or again such a sequence, and plain bytes.   *)
(***************************************************************************)
EXTENDS Integers, Sequences, SequencesExt, FiniteSets

CONSTANTS
  Key,           \* whose address is <<Plain(key)>>; natural numbers
  MaxInt,        \* 2^63 - 1 in the code, and 2^31 - 1 for the small ones
  Amounts,       \* numbers of a transaction, some of them above MaxInt
  RawLens,       \* lengths of raw data
  SigLen,        \* 65: the bytes of a signature, fewer than 128
  Room,          \* the signatures that a reader has room for
  MaxSigs,       \* bound on the signatures made
  MaxAltered,    \* and on the changes on the way
  None

ASSUME NumbersAssumption ==
  /\ MaxInt \in Nat /\ MaxInt >= 31
  /\ Amounts \subseteq Nat
  /\ RawLens \subseteq Nat
  /\ SigLen \in 1 .. 127

VARIABLES
  raw,     \* the raw data that is held, or None
  shown,   \* what it was read as, or None
  altered, \* by how many changes
  sigs,    \* the signatures that go with it
  error    \* of the last operation, or None

vars == <<raw, altered, shown, sigs, error>>

Init ==
  raw = None /\ altered = 0 /\ shown = None /\ sigs = <<>> /\ error = None

----------------------------------------------------------------------------
(* Cells.  Numbers of more bytes than it takes are not minimal.            *)

Field(f, wire, v, b) == [f |-> f, wire |-> wire, v |-> v, b |-> b, minimal |-> TRUE]
Plain(n) == Field(n, "byte", 0, <<>>)

(* put_uint() and put_bytes() omit what is zero or empty, put_delimited()  *)
(* only on demand.                                                         *)
PutUint(f, v)  == IF v = 0 THEN <<>> ELSE <<Field(f, "varint", v, <<>>)>>
PutBytes(f, b) == IF b = <<>> THEN <<>> ELSE <<Field(f, "bytes", 0, b)>>
PutMessage(f, m) == <<Field(f, "bytes", 0, m)>>

(* The bytes of a varint, of less than 2^21 here, and of a field of bytes. *)
VarintLen(v) == CASE v < 128 -> 1 [] v >= 128 /\ v < 16384 -> 2 [] OTHER -> 3

FieldLen(f, len) == VarintLen(8 * f) + VarintLen(len) + len

(* The last field of a number, the way a reader overwrites what it read    *)
(* before, or a value that stands for none.                                *)
LastOf(m, f, none) ==
  LET at == {i \in DOMAIN m : m[i].f = f}
  IN  IF at = {} THEN none ELSE m[CHOOSE i \in at : \A j \in at : j <= i]

IntOf(m, f) == LastOf(m, f, Field(f, "varint", 0, <<>>)).v
BytesOf(m, f) == LastOf(m, f, Field(f, "bytes", 0, <<>>)).b

(* Whether a reader that knows these numbers and bytes gets through; which  *)
(* error it reports otherwise is not told apart.  Addresses have a length, *)
(* here 1.                                                                 *)
Readable(m, ints, bytes, addresses) ==
  \A c \in ToSet(m) :
    /\ c.wire # "byte"
    /\ c.f \in ints \cup bytes
    /\ c.f \in ints => c.wire = "varint" /\ c.v <= MaxInt
    /\ c.f \in bytes => c.wire = "bytes"
    /\ c.f \in addresses => Len(c.b) = 1

Has(m, f) == \E c \in ToSet(m) : c.f = f

----------------------------------------------------------------------------
(* Contracts.  A URL is one byte; the first three are those of the types   *)
(* that are interpreted.                                                   *)

Url(n) == <<Plain(n)>>
TypeOf(url) == CASE url = Url(1) -> 1 [] url = Url(2) -> 2 [] url = Url(3) -> 31
                 [] OTHER -> 0

Address(k) == <<Plain(k)>>

Transfer(owner, to, amount) ==
  [kind |-> "transfer", type |-> 1, url |-> Url(1), owner |-> owner, to |-> to,
   ints |-> <<amount>>, bytes |-> <<>>]
TransferAsset(asset, owner, to, amount) ==
  [kind |-> "asset", type |-> 2, url |-> Url(2), owner |-> owner, to |-> to,
   ints |-> <<amount>>, bytes |-> asset]
Trigger(owner, contract, callValue, data, tokenValue, tokenId) ==
  [kind |-> "trigger", type |-> 31, url |-> Url(3), owner |-> owner,
   to |-> contract, ints |-> <<callValue, tokenValue, tokenId>>, bytes |-> data]
Other(type, url, parameter) ==
  [kind |-> "other", type |-> type, url |-> url, owner |-> <<>>, to |-> <<>>,
   ints |-> <<>>, bytes |-> parameter]

WriteParameter(c) ==
  CASE c.kind = "transfer" ->
         PutBytes(1, c.owner) \o PutBytes(2, c.to) \o PutUint(3, c.ints[1])
    [] c.kind = "asset" ->
         PutBytes(1, c.bytes) \o PutBytes(2, c.owner) \o PutBytes(3, c.to)
           \o PutUint(4, c.ints[1])
    [] c.kind = "trigger" ->
         PutBytes(1, c.owner) \o PutBytes(2, c.to) \o PutUint(3, c.ints[1])
           \o PutBytes(4, c.bytes) \o PutUint(5, c.ints[2]) \o PutUint(6, c.ints[3])
    [] c.kind = "other" -> c.bytes

WriteContract(c, permission) ==
  PutUint(1, c.type)
    \o PutMessage(2, PutBytes(1, c.url) \o PutBytes(2, WriteParameter(c)))
    \o PutUint(5, permission)

(* Which of the fields of a parameter are numbers and bytes, by its type,  *)
(* and which hold the owner and the other address.                         *)
Schema(type) ==
  CASE type = 1  -> [ints |-> {3}, bytes |-> {1, 2}, owner |-> 1, to |-> 2]
    [] type = 2  -> [ints |-> {4}, bytes |-> {1, 2, 3}, owner |-> 2, to |-> 3]
    [] type = 31 -> [ints |-> {3, 5, 6}, bytes |-> {1, 2, 4}, owner |-> 1, to |-> 2]

(* TronContract::parse()                                                   *)
ContractIsRead(type, url, parameter) ==
  LET s == Schema(type) IN
  TypeOf(url) # 0 =>
    /\ type = TypeOf(url)
    /\ Readable(parameter, s.ints, s.bytes, {s.owner, s.to})
    /\ Has(parameter, s.owner) /\ Has(parameter, s.to)

ContractOf(type, url, parameter) ==
  LET s == Schema(type)
      owner == BytesOf(parameter, s.owner)
      to == BytesOf(parameter, s.to)
      Num(f) == IntOf(parameter, f)
  IN  CASE TypeOf(url) = 0  -> Other(type, url, parameter)
        [] TypeOf(url) = 1  -> Transfer(owner, to, Num(3))
        [] TypeOf(url) = 2  -> TransferAsset(BytesOf(parameter, 1), owner, to, Num(4))
        [] TypeOf(url) = 31 -> Trigger(owner, to, Num(3), BytesOf(parameter, 4),
                                       Num(5), Num(6))

----------------------------------------------------------------------------
(* Raw data                                                                *)

WriteRaw(t) ==
  PutBytes(1, t.refBytes) \o PutBytes(4, t.refHash) \o PutUint(8, t.expiration)
    \o PutBytes(10, t.memo)
    \o PutMessage(11, WriteContract(t.contract, t.permission))
    \o PutUint(14, t.timestamp) \o PutUint(18, t.feeLimit)

(* The id of raw data is its hash: here the data itself, where a longer    *)
(* form of a number makes a difference.                                    *)
Id(m) == m

(* Mutated form: what differs from what would be written is accepted.      *)
Canonical_Any(t, m) == TRUE

Canonical(t, m) == Id(WriteRaw(t)) = Id(m)

(* parse_contract()                                                        *)
AnyIsRead(m) ==
  LET any == BytesOf(m, 2) IN
  /\ Readable(m, {1, 5}, {2}, {})
  /\ Has(m, 2)
  /\ Readable(any, {}, {1, 2}, {})
  /\ ContractIsRead(IntOf(m, 1), BytesOf(any, 1), BytesOf(any, 2))

TxOf(m) ==
  LET inner == BytesOf(m, 11)
      any   == BytesOf(inner, 2)
  IN  [refBytes |-> BytesOf(m, 1), refHash |-> BytesOf(m, 4),
       expiration |-> IntOf(m, 8), timestamp |-> IntOf(m, 14),
       feeLimit |-> IntOf(m, 18), memo |-> BytesOf(m, 10),
       contract |-> ContractOf(IntOf(inner, 1), BytesOf(any, 1), BytesOf(any, 2)),
       permission |-> IntOf(inner, 5)]

(* parse(): the reference block has a length, here 1.                      *)
IsRead(m) ==
  /\ Readable(m, {8, 14, 18}, {1, 4, 10, 11}, {1, 4})
  /\ Cardinality({i \in DOMAIN m : m[i].f = 11}) = 1
  /\ AnyIsRead(BytesOf(m, 11))
  /\ Has(m, 1) /\ Has(m, 4)
  /\ Canonical(TxOf(m), m)

----------------------------------------------------------------------------
(* Signatures are of an id, and some signers add 27 to v.                  *)

Signature(k, id, v) == [by |-> k, id |-> id, v |-> v]

Signer(id, sig) ==
  IF sig.v \in 0 .. 3 \cup 27 .. 30 /\ sig.id = id THEN sig.by ELSE None

(* The length of the Transaction message that is written, and as it is     *)
(* computed without writing it.                                            *)
TransactionSize(rawLen, n) == FieldLen(1, rawLen) + n * FieldLen(2, SigLen)
TransactionLen(rawLen, n) == 1 + VarintLen(rawLen) + rawLen + n * (2 + SigLen)

(* parse_transaction() of what transaction_to_slice() wrote: the raw data  *)
(* once, and signatures of the right length.  What it refuses beside that, *)
(* and the results of a node that it skips, are left out.                  *)
PassError(n) == IF n > Room THEN "TooLarge" ELSE None

----------------------------------------------------------------------------
(* The transactions that are built: each contract, with small and large    *)
(* numbers.                                                                *)
Contracts ==
  LET a == Address(0) b == Address(1) IN
  {Transfer(a, b, v) : v \in Amounts}
    \cup {TransferAsset(x, a, b, 1) : x \in {<<>>, <<Plain(7)>>}}
    \cup {Trigger(a, b, v, x, 0, v) : v \in Amounts, x \in {<<>>, <<Plain(7)>>}}
    \cup {Other(type, url, x) : type \in {0, 1, 4}, url \in {<<>>, Url(1), Url(4)},
                                x \in {<<>>, <<Plain(7)>>}}

Raws(expirations, fees, memos, contracts, permissions) ==
  [refBytes : {<<Plain(5)>>}, refHash : {<<Plain(6)>>}, expiration : expirations,
   timestamp : {1}, feeLimit : fees, memo : memos, contract : contracts,
   permission : permissions]

Built ==
  Raws({1}, {0}, {<<>>}, Contracts, {0})
    \cup Raws({0, 1}, Amounts, {<<>>, <<Plain(7)>>},
              {Transfer(Address(0), Address(1), 1)}, {0, 2})

Build ==
  /\ raw = None
  /\ \E t \in Built : raw' = WriteRaw(t)
  /\ error' = None
  /\ UNCHANGED <<altered, shown, sigs>>

(* What others may do to a message: fields go missing, twice, in another   *)
(* order, in a longer form, of another wire type, or new.                  *)
Alterations(m) ==
  {RemoveAt(m, i) : i \in DOMAIN m}
    \cup {Append(RemoveAt(m, i), m[i]) : i \in DOMAIN m}
    \cup {Append(m, m[i]) : i \in DOMAIN m}
    \cup {[m EXCEPT ![i].minimal = FALSE] : i \in DOMAIN m}
    \cup {[m EXCEPT ![i].wire = w] : i \in DOMAIN m, w \in {"varint", "fixed", "byte"}}
    \cup {[m EXCEPT ![i].v = IF @ = 0 THEN 0 ELSE 1] : i \in DOMAIN m}
    \cup {[m EXCEPT ![i].b = Append(@, Plain(7))] : i \in {j \in DOMAIN m : m[j].wire = "bytes"}}
    \cup {Append(m, Field(f, "varint", v, <<>>)) : f \in {2, 3, 4, 5, 14, 20}, v \in {0, 1}}

(* In the raw data, its contract, or the type and parameter of that.       *)
At(m, f) == {i \in DOMAIN m : m[i].f = f}

AlteredContracts(m) ==
  Alterations(m)
    \cup UNION {{[m EXCEPT ![j].b = x] : x \in Alterations(m[j].b)} : j \in At(m, 2)}

Altered(m) ==
  Alterations(m)
    \cup UNION {{[m EXCEPT ![i].b = x] : x \in AlteredContracts(m[i].b)} :
                  i \in At(m, 11)}

Alter ==
  /\ raw # None
  /\ shown = None
  /\ sigs = <<>>
  /\ altered < MaxAltered
  /\ altered' = altered + 1
  /\ raw' \in Altered(raw) \ {raw}
  /\ error' = None
  /\ UNCHANGED <<shown, sigs>>

(* TronTx::parse(), so that the user sees what there is to sign.           *)
Show ==
  /\ raw # None
  /\ IF IsRead(raw) THEN shown' = TxOf(raw) /\ error' = None
     ELSE error' = "refused" /\ UNCHANGED shown
  /\ UNCHANGED <<raw, altered, sigs>>

(* What is shown is signed.                                                *)
Sign(k) ==
  /\ shown # None
  /\ Len(sigs) < MaxSigs
  /\ \E v \in {0, 28} : sigs' = Append(sigs, Signature(k, Id(WriteRaw(shown)), v))
  /\ error' = None
  /\ UNCHANGED <<raw, altered, shown>>

Pass ==
  /\ raw # None
  /\ error' = PassError(Len(sigs))
  /\ IF error' = None THEN shown' = None ELSE UNCHANGED shown
  /\ UNCHANGED <<raw, altered, sigs>>

Next == Build \/ Alter \/ Show \/ Pass \/ \E k \in Key : Sign(k)

Spec == Init /\ [][Next]_vars

----------------------------------------------------------------------------
(* Nothing that is built gets lost or refused on the way through raw data, *)
(* but for numbers above the range, and parameters of a known type that    *)
(* the application wrote itself.                                           *)
Faithful(t) ==
  /\ {t.feeLimit, t.permission} \cup ToSet(t.contract.ints) \subseteq 0 .. MaxInt
  /\ t.contract.kind = "other" => TypeOf(t.contract.url) = 0

BuiltIsRead ==
  \A t \in Built :
    LET m == WriteRaw(t)
    IN  IF Faithful(t) THEN IsRead(m) /\ TxOf(m) = t ELSE ~IsRead(m)

(* What is shown is the raw data that goes out, to the byte: a signature   *)
(* of what was shown is one of the transaction that is broadcast, and the  *)
(* length of that is known beforehand.  What is built is read back.        *)
ShownIsSigned ==
  /\ \A i \in DOMAIN sigs : Signer(Id(raw), sigs[i]) = sigs[i].by
  /\ \A len \in RawLens :
       TransactionSize(len, Len(sigs)) = TransactionLen(len, Len(sigs))
  /\ raw = None => BuiltIsRead
=============================================================================
