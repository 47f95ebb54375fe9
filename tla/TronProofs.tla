------------------------------ MODULE TronProofs ------------------------------
(***************************************************************************)
(* What a user is shown of a Tron transaction is what goes out, for any    *)
(* raw data, changes on the way, keys and numbers of signatures; and any   *)
(* transaction with numbers in range is read back from what it writes.     *)
(***************************************************************************)
EXTENDS TronTx, SequenceTheorems, FiniteSetTheorems, TLAPS

(* What is held of a transaction before anything of it is read: whatever   *)
(* is shown writes the raw data that is there, and what is signed is that. *)
SignedInv ==
  /\ raw = None => shown = None /\ sigs = <<>>
  /\ shown # None => WriteRaw(shown) = raw
  /\ sigs \in Seq([by : Key, id : {raw}, v : {0, 28}])

(* Signatures are added to what is shown, and raw data changes only while  *)
(* there is none.                                                          *)
LEMMA SignedHolds ==
  /\ Init => SignedInv
  /\ SignedInv /\ [Next]_vars => SignedInv'
<1>1. Init => SignedInv
  BY DEF Init, SignedInv
<1>2. ASSUME SignedInv, [Next]_vars
      PROVE  SignedInv'
  <2>1. CASE Build
    <3>1. sigs = <<>> /\ shown = None
      BY <1>2, <2>1 DEF SignedInv, Build
    <3>2. sigs' = <<>> /\ shown' = None
      BY <3>1, <2>1 DEF Build
    <3> QED
      BY <3>2 DEF SignedInv
  <2>2. CASE Alter
    <3>1. sigs' = <<>> /\ shown' = None
      BY <2>2 DEF Alter
    <3> QED
      BY <3>1 DEF SignedInv
  <2>3. CASE Show
    <3>1. raw' = raw /\ sigs' = sigs /\ raw # None
      BY <2>3 DEF Show
    <3>2. shown' = shown \/ WriteRaw(shown') = raw
      BY <2>3 DEF Show, IsRead, Canonical, Id
    <3> QED
      BY <1>2, <3>1, <3>2 DEF SignedInv
  <2>4. CASE Pass
    BY <1>2, <2>4 DEF SignedInv, Pass
  <2>5. ASSUME NEW k \in Key, Sign(k)
        PROVE  SignedInv'
    <3>1. PICK v \in {0, 28} :
            sigs' = Append(sigs, Signature(k, Id(WriteRaw(shown)), v))
      BY <2>5 DEF Sign
    <3>2. raw' = raw /\ shown' = shown /\ shown # None
      BY <2>5 DEF Sign
    <3>3. Id(WriteRaw(shown)) = raw
      BY <1>2, <3>2 DEF SignedInv, Id
    <3>4. Signature(k, Id(WriteRaw(shown)), v) \in [by : Key, id : {raw}, v : {0, 28}]
      BY <3>3 DEF Signature
    <3>5. sigs' \in Seq([by : Key, id : {raw}, v : {0, 28}])
      BY <1>2, <3>1, <3>4, AppendProperties DEF SignedInv
    <3> QED
      BY <1>2, <3>2, <3>5 DEF SignedInv
  <2>6. CASE UNCHANGED vars
    BY <1>2, <2>6 DEF SignedInv, vars
  <2> QED
    BY <1>2, <2>1, <2>2, <2>3, <2>4, <2>5, <2>6 DEF Next
<1> QED
  BY <1>1, <1>2

(* The length of a message is known before it is written: a signature has  *)
(* a length of one byte.                                                   *)
LEMMA LengthIsKnown ==
  ASSUME NEW len \in Nat, NEW n \in Nat
  PROVE  TransactionSize(len, n) = TransactionLen(len, n)
<1>1. VarintLen(8 * 1) = 1 /\ VarintLen(8 * 2) = 1 /\ VarintLen(SigLen) = 1
  BY NumbersAssumption DEF VarintLen
<1>2. FieldLen(1, len) = 1 + VarintLen(len) + len
  BY <1>1 DEF FieldLen
<1>3. FieldLen(2, SigLen) = 2 + SigLen
  BY <1>1, NumbersAssumption DEF FieldLen
<1> QED
  BY <1>2, <1>3 DEF TransactionSize, TransactionLen

----------------------------------------------------------------------------
(* Messages as they are written: fields with numbers that increase.  The   *)
(* set says which fields there are, and k bounds their numbers.            *)

Message(m, C, k) ==
  /\ m \in Seq(C)
  /\ \A c \in C : \E i \in 1 .. Len(m) : m[i] = c
  /\ \A i \in 1 .. Len(m) : m[i].f \in 1 .. k
  /\ \A i, j \in 1 .. Len(m) : i < j => m[i].f < m[j].f

LEMMA FieldIs ==
  ASSUME NEW f, NEW wire, NEW v, NEW b
  PROVE  /\ Field(f, wire, v, b).f = f
         /\ Field(f, wire, v, b).wire = wire
         /\ Field(f, wire, v, b).v = v
         /\ Field(f, wire, v, b).b = b
BY DEF Field

LEMMA NoMessage == Message(<<>>, {}, 0)
BY DEF Message

LEMMA MessageNext ==
  ASSUME NEW m, NEW C, NEW k \in Nat, Message(m, C, k),
         NEW c, NEW f \in Nat, c.f = f, k < f
  PROVE  Message(m \o <<c>>, C \cup {c}, f)
<1> DEFINE n == Len(m)
           D == C \cup {c}
           p == m \o <<c>>
<1>1. m \in Seq(D) /\ <<c>> \in Seq(D) /\ n \in Nat
  BY DEF Message
<1>2. p \in Seq(D) /\ Len(p) = n + 1 /\ p[n + 1] = c
       /\ \A i \in 1 .. n : p[i] = m[i]
  BY <1>1, ConcatProperties
<1>3. \A d \in D : \E i \in 1 .. Len(p) : p[i] = d
  <2>1. \A d \in C : \E i \in 1 .. n : m[i] = d
    BY DEF Message
  <2>2. 1 .. n \subseteq 1 .. Len(p) /\ n + 1 \in 1 .. Len(p)
    BY <1>1, <1>2
  <2> HIDE DEF n, p
  <2>3. \A d \in C : \E i \in 1 .. Len(p) : p[i] = d
    BY <1>2, <2>1, <2>2
  <2>4. \E i \in 1 .. Len(p) : p[i] = c
    BY <1>2, <2>2, Zenon
  <2> QED
    BY <2>3, <2>4
<1>4. \A i \in 1 .. Len(p) : p[i].f \in 1 .. f
  <2>1. \A i \in 1 .. n : m[i].f \in 1 .. k
    BY DEF Message
  <2> HIDE DEF n, p
  <2> SUFFICES ASSUME NEW i \in 1 .. Len(p) PROVE p[i].f \in 1 .. f
    OBVIOUS
  <2>2. CASE i \in 1 .. n
    <3>1. p[i].f \in 1 .. k
      BY <1>2, <2>1, <2>2, Zenon
    <3> QED
      BY <3>1
  <2>3. CASE i = n + 1
    <3>1. p[i].f = f
      BY <1>2, <2>3, Zenon
    <3> QED
      BY <3>1
  <2> QED
    BY <1>1, <1>2, <2>2, <2>3
<1>5. \A i, j \in 1 .. Len(p) : i < j => p[i].f < p[j].f
  <2> SUFFICES ASSUME NEW i \in 1 .. Len(p), NEW j \in 1 .. Len(p), i < j
               PROVE  p[i].f < p[j].f
    OBVIOUS
  <2>1. i \in 1 .. n
    BY <1>1, <1>2
  <2>2. CASE j \in 1 .. n
    BY <1>2, <2>1, <2>2 DEF Message
  <2>3. CASE j = n + 1
    <3>1. m[i].f \in 1 .. k
      BY <2>1 DEF Message
    <3>2. p[i] = m[i] /\ p[j] = c
      BY <1>2, <2>1, <2>3
    <3> QED
      BY <3>1, <3>2
  <2> QED
    BY <1>1, <1>2, <2>2, <2>3
<1> QED
  BY <1>2, <1>3, <1>4, <1>5 DEF Message

LEMMA MessageSame ==
  ASSUME NEW m, NEW C, NEW k \in Nat, Message(m, C, k), NEW f \in Nat, k < f
  PROVE  Message(m \o <<>>, C \cup {}, f)
<1>1. m \o <<>> = m /\ C \cup {} = C
  BY ConcatEmptySeq DEF Message
<1>2. \A i \in 1 .. Len(m) : m[i].f \in 1 .. f
  BY DEF Message
<1> QED
  BY <1>1, <1>2 DEF Message

(* The fields of what is put: one or none.                                 *)
UintSet(f, v) == IF v = 0 THEN {} ELSE {Field(f, "varint", v, <<>>)}
BytesSet(f, b) == IF b = <<>> THEN {} ELSE {Field(f, "bytes", 0, b)}

LEMMA Puts ==
  ASSUME NEW m, NEW C, NEW k \in Nat, Message(m, C, k), NEW f \in Nat, k < f,
         NEW x
  PROVE  /\ Message(m \o PutUint(f, x), C \cup UintSet(f, x), f)
         /\ Message(m \o PutBytes(f, x), C \cup BytesSet(f, x), f)
         /\ Message(m \o PutMessage(f, x), C \cup {Field(f, "bytes", 0, x)}, f)
<1>1. Message(m \o <<>>, C \cup {}, f)
  BY MessageSame
<1>2. \A c : c.f = f => Message(m \o <<c>>, C \cup {c}, f)
  BY MessageNext
<1>3. Message(m \o PutUint(f, x), C \cup UintSet(f, x), f)
  <2>1. CASE x = 0
    <3>1. PutUint(f, x) = <<>> /\ UintSet(f, x) = {}
      BY <2>1 DEF PutUint, UintSet
    <3> QED
      BY <1>1, <3>1, Zenon
  <2>2. CASE x # 0
    <3>1. /\ PutUint(f, x) = <<Field(f, "varint", x, <<>>)>>
          /\ UintSet(f, x) = {Field(f, "varint", x, <<>>)}
      BY <2>2 DEF PutUint, UintSet
    <3>2. Field(f, "varint", x, <<>>).f = f
      BY FieldIs
    <3> QED
      BY <1>2, <3>1, <3>2, Zenon
  <2> QED
    BY <2>1, <2>2
<1>4. Message(m \o PutBytes(f, x), C \cup BytesSet(f, x), f)
  <2>1. CASE x = <<>>
    <3>1. PutBytes(f, x) = <<>> /\ BytesSet(f, x) = {}
      BY <2>1 DEF PutBytes, BytesSet
    <3> QED
      BY <1>1, <3>1, Zenon
  <2>2. CASE x # <<>>
    <3>1. /\ PutBytes(f, x) = <<Field(f, "bytes", 0, x)>>
          /\ BytesSet(f, x) = {Field(f, "bytes", 0, x)}
      BY <2>2 DEF PutBytes, BytesSet
    <3>2. Field(f, "bytes", 0, x).f = f
      BY FieldIs
    <3> QED
      BY <1>2, <3>1, <3>2, Zenon
  <2> QED
    BY <2>1, <2>2
<1>5. Message(m \o PutMessage(f, x), C \cup {Field(f, "bytes", 0, x)}, f)
  <2>1. Field(f, "bytes", 0, x).f = f
    BY FieldIs
  <2> QED
    BY <1>2, <2>1, Zenon DEF PutMessage
<1> QED
  BY <1>3, <1>4, <1>5

LEMMA Numbers ==
  /\ {1, 2, 3, 4, 5, 8, 10, 11, 14} \subseteq Nat
  /\ 1 < 2 /\ 2 < 3 /\ 3 < 4 /\ 4 < 5 /\ 5 < 6 /\ 1 < 4 /\ 2 < 5
  /\ 4 < 8 /\ 8 < 10 /\ 10 < 11 /\ 11 < 14 /\ 14 < 18
  /\ 6 \in Nat /\ 18 \in Nat
OBVIOUS

(* The first of them.                                                      *)
LEMMA FirstPut ==
  ASSUME NEW f \in Nat, 0 < f, NEW x
  PROVE  /\ Message(PutUint(f, x), UintSet(f, x), f)
         /\ Message(PutBytes(f, x), BytesSet(f, x), f)
<1>1. /\ Message(<<>> \o PutUint(f, x), {} \cup UintSet(f, x), f)
      /\ Message(<<>> \o PutBytes(f, x), {} \cup BytesSet(f, x), f)
  BY NoMessage, Puts
<1>2. <<>> \o PutUint(f, x) = PutUint(f, x)
  BY DEF PutUint
<1>3. <<>> \o PutBytes(f, x) = PutBytes(f, x)
  BY DEF PutBytes
<1>4. {} \cup UintSet(f, x) = UintSet(f, x) /\ {} \cup BytesSet(f, x) = BytesSet(f, x)
  OBVIOUS
<1> QED
  BY <1>1, <1>2, <1>3, <1>4, Zenon

(* How such a message is read: each field is the only one of its number.   *)
LEMMA Reads ==
  ASSUME NEW m, NEW C, NEW k \in Nat, Message(m, C, k)
  PROVE  /\ ToSet(m) = C
         /\ \A f, none : (\A c \in C : c.f # f) => LastOf(m, f, none) = none
         /\ \A c \in C : \A none : LastOf(m, c.f, none) = c
         /\ \A c \in C : Cardinality({i \in DOMAIN m : m[i].f = c.f}) = 1
<1>1. DOMAIN m = 1 .. Len(m) /\ Len(m) \in Nat /\ \A i \in 1 .. Len(m) : m[i] \in C
  BY DEF Message
<1>2. ToSet(m) = C
  BY <1>1 DEF Message, ToSet
<1>3. ASSUME NEW f, NEW none, \A c \in C : c.f # f
      PROVE  LastOf(m, f, none) = none
  <2>1. {i \in DOMAIN m : m[i].f = f} = {}
    BY <1>1, <1>3
  <2> QED
    BY <2>1 DEF LastOf
<1>4. ASSUME NEW c \in C
      PROVE  \E i \in DOMAIN m : m[i] = c /\ {j \in DOMAIN m : m[j].f = c.f} = {i}
  <2>1. PICK i \in 1 .. Len(m) : m[i] = c
    BY DEF Message
  <2>2. ASSUME NEW j \in 1 .. Len(m), m[j].f = c.f
        PROVE  j = i
    <3>1. m[i].f \in 1 .. k /\ m[j].f \in 1 .. k
      BY <2>1 DEF Message
    <3>2. (i < j => m[i].f < m[j].f) /\ (j < i => m[j].f < m[i].f)
      BY DEF Message
    <3>3. m[i].f = m[j].f
      BY <2>1, <2>2
    <3>4. ~(m[i].f < m[j].f) /\ ~(m[j].f < m[i].f)
      BY <3>1, <3>3
    <3>5. ~(i < j) /\ ~(j < i)
      BY <3>2, <3>4, Zenon
    <3> QED
      BY <1>1, <2>1, <3>5
  <2> QED
    BY <1>1, <2>1, <2>2
<1>5. ASSUME NEW c \in C, NEW none
      PROVE  LastOf(m, c.f, none) = c
  <2>1. PICK i \in DOMAIN m : m[i] = c /\ {j \in DOMAIN m : m[j].f = c.f} = {i}
    BY <1>4
  <2>2. (CHOOSE x \in {i} : \A y \in {i} : y <= x) = i
    BY <1>1, <2>1
  <2> QED
    BY <2>1, <2>2 DEF LastOf
<1>6. ASSUME NEW c \in C
      PROVE  Cardinality({i \in DOMAIN m : m[i].f = c.f}) = 1
  BY <1>4, <1>6, FS_Singleton
<1> QED
  BY <1>2, <1>3, <1>5, <1>6

LEMMA SetsHave ==
  ASSUME NEW f, NEW x, NEW c
  PROVE  /\ c \in UintSet(f, x) => c.f = f /\ c.wire = "varint" /\ c.v = x /\ x # 0
         /\ c \in BytesSet(f, x) => c.f = f /\ c.wire = "bytes" /\ c.b = x
         /\ c = Field(f, "bytes", 0, x) => c.f = f /\ c.wire = "bytes" /\ c.b = x
BY FieldIs DEF UintSet, BytesSet

(* What a reader gets of a number: what was put, or what stands for none.  *)
LEMMA Gets ==
  ASSUME NEW m, NEW C, NEW k \in Nat, Message(m, C, k), NEW f, NEW x
  PROVE  /\ /\ UintSet(f, x) \subseteq C
            /\ \A c \in C : c.f = f => c \in UintSet(f, x)
            => IntOf(m, f) = x
         /\ /\ BytesSet(f, x) \subseteq C
            /\ \A c \in C : c.f = f => c \in BytesSet(f, x)
            => BytesOf(m, f) = x
         /\ Field(f, "bytes", 0, x) \in C => BytesOf(m, f) = x
         /\ Has(m, f) <=> \E c \in C : c.f = f
<1>1. \A none : (\A c \in C : c.f # f) => LastOf(m, f, none) = none
  BY Reads
<1>2. \A c \in C : \A none : LastOf(m, c.f, none) = c
  BY Reads
<1>3. ASSUME UintSet(f, x) \subseteq C, \A c \in C : c.f = f => c \in UintSet(f, x)
      PROVE  IntOf(m, f) = x
  <2>1. CASE x = 0
    <3>1. \A c \in C : c.f # f
      BY <1>3, <2>1 DEF UintSet
    <3> QED
      BY <1>1, <2>1, <3>1, FieldIs DEF IntOf
  <2>2. CASE x # 0
    <3>1. Field(f, "varint", x, <<>>) \in C
      BY <1>3, <2>2 DEF UintSet
    <3>2. Field(f, "varint", x, <<>>).f = f /\ Field(f, "varint", x, <<>>).v = x
      BY FieldIs
    <3> QED
      BY <1>2, <3>1, <3>2 DEF IntOf
  <2> QED
    BY <2>1, <2>2
<1>4. ASSUME Field(f, "bytes", 0, x) \in C
      PROVE  BytesOf(m, f) = x
  <2>1. Field(f, "bytes", 0, x).f = f /\ Field(f, "bytes", 0, x).b = x
    BY FieldIs
  <2> QED
    BY <1>2, <1>4, <2>1 DEF BytesOf
<1>5. ASSUME BytesSet(f, x) \subseteq C, \A c \in C : c.f = f => c \in BytesSet(f, x)
      PROVE  BytesOf(m, f) = x
  <2>1. CASE x = <<>>
    <3>1. \A c \in C : c.f # f
      BY <1>5, <2>1 DEF BytesSet
    <3> QED
      BY <1>1, <2>1, <3>1, FieldIs DEF BytesOf
  <2>2. CASE x # <<>>
    BY <1>4, <1>5, <2>2 DEF BytesSet
  <2> QED
    BY <2>1, <2>2
<1>6. Has(m, f) <=> \E c \in C : c.f = f
  BY Reads DEF Has
<1> QED
  BY <1>3, <1>4, <1>5, <1>6

----------------------------------------------------------------------------
(* The four levels of raw data, and how each is read.                      *)

RawSet(t) ==
  BytesSet(1, t.refBytes) \cup BytesSet(4, t.refHash) \cup UintSet(8, t.expiration)
    \cup BytesSet(10, t.memo)
    \cup {Field(11, "bytes", 0, WriteContract(t.contract, t.permission))}
    \cup UintSet(14, t.timestamp) \cup UintSet(18, t.feeLimit)

LEMMA RawIs ==
  ASSUME NEW t
  PROVE  Message(WriteRaw(t), RawSet(t), 18)
<1>1. Message(PutBytes(1, t.refBytes), BytesSet(1, t.refBytes), 1)
  BY FirstPut
<1>2. PICK m2, C2 : /\ m2 = PutBytes(1, t.refBytes) \o PutBytes(4, t.refHash)
                    /\ C2 = BytesSet(1, t.refBytes) \cup BytesSet(4, t.refHash)
  OBVIOUS
<1>3. Message(m2, C2, 4)
  BY <1>1, <1>2, Puts, Numbers, Zenon
<1>4. PICK m3, C3 : /\ m3 = m2 \o PutUint(8, t.expiration)
                    /\ C3 = C2 \cup UintSet(8, t.expiration)
  OBVIOUS
<1>5. Message(m3, C3, 8)
  BY <1>3, <1>4, Puts, Numbers, Zenon
<1>6. PICK m4, C4 : m4 = m3 \o PutBytes(10, t.memo) /\ C4 = C3 \cup BytesSet(10, t.memo)
  OBVIOUS
<1>7. Message(m4, C4, 10)
  BY <1>5, <1>6, Puts, Numbers, Zenon
<1>8. PICK inner : inner = WriteContract(t.contract, t.permission)
  OBVIOUS
<1>9. PICK m5, C5 : /\ m5 = m4 \o PutMessage(11, inner)
                    /\ C5 = C4 \cup {Field(11, "bytes", 0, inner)}
  OBVIOUS
<1>10. Message(m5, C5, 11)
  BY <1>7, <1>9, Puts, Numbers, Zenon
<1>11. PICK m6, C6 : /\ m6 = m5 \o PutUint(14, t.timestamp)
                     /\ C6 = C5 \cup UintSet(14, t.timestamp)
  OBVIOUS
<1>12. Message(m6, C6, 14)
  BY <1>10, <1>11, Puts, Numbers, Zenon
<1>13. Message(m6 \o PutUint(18, t.feeLimit), C6 \cup UintSet(18, t.feeLimit), 18)
  BY <1>12, Puts, Numbers, Zenon
<1>14. WriteRaw(t) = m6 \o PutUint(18, t.feeLimit)
  BY <1>2, <1>4, <1>6, <1>8, <1>9, <1>11, Zenon DEF WriteRaw
<1>15. RawSet(t) = C6 \cup UintSet(18, t.feeLimit)
  BY <1>2, <1>4, <1>6, <1>8, <1>9, <1>11, Zenon DEF RawSet
<1> QED
  BY <1>13, <1>14, <1>15, Zenon

AnyOf(c) == PutBytes(1, c.url) \o PutBytes(2, WriteParameter(c))

LEMMA ContractIs ==
  ASSUME NEW c, NEW p
  PROVE  Message(WriteContract(c, p),
                 UintSet(1, c.type) \cup {Field(2, "bytes", 0, AnyOf(c))} \cup UintSet(5, p),
                 5)
<1>1. Message(PutUint(1, c.type), UintSet(1, c.type), 1)
  BY FirstPut
<1>2. PICK any : any = AnyOf(c)
  OBVIOUS
<1>3. Message(PutUint(1, c.type) \o PutMessage(2, any),
              UintSet(1, c.type) \cup {Field(2, "bytes", 0, any)}, 2)
  BY <1>1, Puts, Numbers, Zenon
<1>4. PICK m, C : /\ m = PutUint(1, c.type) \o PutMessage(2, any)
                  /\ C = UintSet(1, c.type) \cup {Field(2, "bytes", 0, any)}
  OBVIOUS
<1>5. Message(m, C, 2)
  BY <1>3, <1>4, Zenon
<1>6. Message(m \o PutUint(5, p), C \cup UintSet(5, p), 5)
  BY <1>5, Puts, Numbers, Zenon
<1>7. WriteContract(c, p) = m \o PutUint(5, p)
  BY <1>2, <1>4, Zenon DEF WriteContract, AnyOf
<1> QED
  BY <1>2, <1>4, <1>6, <1>7, Zenon

LEMMA AnyIs ==
  ASSUME NEW c
  PROVE  Message(AnyOf(c), BytesSet(1, c.url) \cup BytesSet(2, WriteParameter(c)), 2)
<1>1. Message(PutBytes(1, c.url), BytesSet(1, c.url), 1)
  BY FirstPut
<1>2. PICK x : x = WriteParameter(c)
  OBVIOUS
<1>3. Message(PutBytes(1, c.url) \o PutBytes(2, x), BytesSet(1, c.url) \cup BytesSet(2, x), 2)
  BY <1>1, Puts, Numbers, Zenon
<1> QED
  BY <1>2, <1>3, Zenon DEF AnyOf

----------------------------------------------------------------------------
(* Contracts of a type that is interpreted: what is written is read, and   *)
(* refused if a number is out of range.                                    *)

LEMMA UrlsDiffer ==
  /\ TypeOf(Url(1)) = 1 /\ TypeOf(Url(2)) = 2 /\ TypeOf(Url(3)) = 31
  /\ \A url : TypeOf(url) # 0 => url \in {Url(1), Url(2), Url(3)}
<1>1. \A i, j : Url(i) = Url(j) => i = j
  <2> SUFFICES ASSUME NEW i, NEW j, Url(i) = Url(j)
               PROVE  i = j
    OBVIOUS
  <2>1. Plain(i) = Plain(j)
    BY DEF Url
  <2>2. Plain(i).f = i /\ Plain(j).f = j
    BY FieldIs DEF Plain
  <2> QED
    BY <2>1, <2>2
<1>2. 1 # 2 /\ 1 # 3 /\ 2 # 3
  OBVIOUS
<1>3. Url(1) # Url(2) /\ Url(1) # Url(3) /\ Url(2) # Url(3)
  BY <1>1, <1>2, Zenon
<1> QED
  BY <1>3 DEF TypeOf

LEMMA SchemaIs ==
  /\ Schema(1) = [ints |-> {3}, bytes |-> {1, 2}, owner |-> 1, to |-> 2]
  /\ Schema(2) = [ints |-> {4}, bytes |-> {1, 2, 3}, owner |-> 2, to |-> 3]
  /\ Schema(31) = [ints |-> {3, 5, 6}, bytes |-> {1, 2, 4}, owner |-> 1, to |-> 2]
BY DEF Schema

TransferSet(owner, to, v) ==
  BytesSet(1, owner) \cup BytesSet(2, to) \cup UintSet(3, v)

LEMMA TransferMessage ==
  ASSUME NEW o, NEW to, NEW v
  PROVE  Message(WriteParameter(Transfer(o, to, v)), TransferSet(o, to, v), 3)
<1>1. Message(PutBytes(1, o), BytesSet(1, o), 1)
  BY FirstPut
<1>2. PICK m, C : /\ m = PutBytes(1, o) \o PutBytes(2, to)
                  /\ C = BytesSet(1, o) \cup BytesSet(2, to)
  OBVIOUS
<1>3. Message(m, C, 2)
  BY <1>1, <1>2, Puts, Numbers, Zenon
<1>4. Message(m \o PutUint(3, v), C \cup UintSet(3, v), 3)
  BY <1>3, Puts, Numbers, Zenon
<1>5. WriteParameter(Transfer(o, to, v)) = m \o PutUint(3, v)
  BY <1>2 DEF WriteParameter, Transfer
<1> QED
  BY <1>2, <1>4, <1>5, Zenon DEF TransferSet

LEMMA TransferIsRead ==
  ASSUME NEW o, NEW to, NEW v \in Nat, Len(o) = 1, Len(to) = 1,
         NEW c, c = Transfer(o, to, v)
  PROVE  /\ v \in 0 .. MaxInt =>
              /\ ContractIsRead(c.type, c.url, WriteParameter(c))
              /\ ContractOf(c.type, c.url, WriteParameter(c)) = c
         /\ v \notin 0 .. MaxInt => ~ContractIsRead(c.type, c.url, WriteParameter(c))
<1>1. c.type = 1 /\ c.url = Url(1)
  BY DEF Transfer
<1>2. PICK p, C : p = WriteParameter(c) /\ C = TransferSet(o, to, v)
  OBVIOUS
<1>3. Message(p, C, 3)
  BY <1>2, TransferMessage, Zenon
<1>4. ToSet(p) = C
  BY <1>3, Reads
<1>5. o # <<>> /\ to # <<>>
  OBVIOUS
<1>6. Field(1, "bytes", 0, o) \in C /\ Field(2, "bytes", 0, to) \in C
  BY <1>2, <1>5 DEF TransferSet, BytesSet
<1>7. UintSet(3, v) \subseteq C
  BY <1>2 DEF TransferSet
<1>8. ASSUME NEW x \in C
      PROVE  \/ x.f = 1 /\ x.wire = "bytes" /\ x.b = o
             \/ x.f = 2 /\ x.wire = "bytes" /\ x.b = to
             \/ x.f = 3 /\ x.wire = "varint" /\ x.v = v /\ x \in UintSet(3, v)
  BY <1>2, SetsHave DEF TransferSet
<1>9. Has(p, 1) /\ Has(p, 2) /\ BytesOf(p, 1) = o /\ BytesOf(p, 2) = to
  BY <1>3, <1>6, FieldIs, Gets
<1>10. \A x \in C : x.f = 3 => x \in UintSet(3, v)
  BY <1>8
<1>11. IntOf(p, 3) = v
  BY <1>3, <1>7, <1>10, Gets
<1>12. Readable(p, {3}, {1, 2}, {1, 2}) <=> v \in 0 .. MaxInt
  <2>1. ASSUME v \in 0 .. MaxInt
        PROVE  Readable(p, {3}, {1, 2}, {1, 2})
    <3> SUFFICES ASSUME NEW x \in C
                 PROVE  /\ x.wire # "byte"
                        /\ x.f \in {3} \cup {1, 2}
                        /\ x.f \in {3} => x.wire = "varint" /\ x.v <= MaxInt
                        /\ x.f \in {1, 2} => x.wire = "bytes"
                        /\ x.f \in {1, 2} => Len(x.b) = 1
      BY <1>4 DEF Readable
    <3> QED
      BY <1>8, <2>1, NumbersAssumption
  <2>2. ASSUME v \notin 0 .. MaxInt
        PROVE  ~Readable(p, {3}, {1, 2}, {1, 2})
    <3>1. v # 0 /\ ~(v <= MaxInt)
      BY <2>2, NumbersAssumption
    <3>2. Field(3, "varint", v, <<>>) \in C
      BY <1>7, <3>1 DEF UintSet
    <3> QED
      BY <1>4, <3>1, <3>2, FieldIs DEF Readable
  <2> QED
    BY <2>1, <2>2
<1>13. ContractIsRead(1, Url(1), p) <=> v \in 0 .. MaxInt
  BY <1>9, <1>12, UrlsDiffer, SchemaIs DEF ContractIsRead
<1>14. ContractOf(1, Url(1), p) = Transfer(o, to, v)
  BY <1>9, <1>11, UrlsDiffer, SchemaIs DEF ContractOf
<1> QED
  BY <1>1, <1>2, <1>13, <1>14

AssetSet(asset, owner, to, v) ==
  BytesSet(1, asset) \cup BytesSet(2, owner) \cup BytesSet(3, to) \cup UintSet(4, v)

LEMMA AssetMessage ==
  ASSUME NEW a, NEW o, NEW to, NEW v
  PROVE  Message(WriteParameter(TransferAsset(a, o, to, v)), AssetSet(a, o, to, v), 4)
<1>1. Message(PutBytes(1, a), BytesSet(1, a), 1)
  BY FirstPut
<1>2. PICK m, C : /\ m = PutBytes(1, a) \o PutBytes(2, o)
                  /\ C = BytesSet(1, a) \cup BytesSet(2, o)
  OBVIOUS
<1>3. Message(m, C, 2)
  BY <1>1, <1>2, Puts, Numbers, Zenon
<1>4. PICK n, D : n = m \o PutBytes(3, to) /\ D = C \cup BytesSet(3, to)
  OBVIOUS
<1>5. Message(n, D, 3)
  BY <1>3, <1>4, Puts, Numbers, Zenon
<1>6. Message(n \o PutUint(4, v), D \cup UintSet(4, v), 4)
  BY <1>5, Puts, Numbers, Zenon
<1>7. WriteParameter(TransferAsset(a, o, to, v)) = n \o PutUint(4, v)
  BY <1>2, <1>4 DEF WriteParameter, TransferAsset
<1> QED
  BY <1>2, <1>4, <1>6, <1>7, Zenon DEF AssetSet

LEMMA AssetIsRead ==
  ASSUME NEW a, NEW o, NEW to, NEW v \in Nat, Len(o) = 1, Len(to) = 1,
         NEW c, c = TransferAsset(a, o, to, v)
  PROVE  /\ v \in 0 .. MaxInt =>
              /\ ContractIsRead(c.type, c.url, WriteParameter(c))
              /\ ContractOf(c.type, c.url, WriteParameter(c)) = c
         /\ v \notin 0 .. MaxInt => ~ContractIsRead(c.type, c.url, WriteParameter(c))
<1>1. c.type = 2 /\ c.url = Url(2)
  BY DEF TransferAsset
<1>2. PICK p, C : p = WriteParameter(c) /\ C = AssetSet(a, o, to, v)
  OBVIOUS
<1>3. Message(p, C, 4)
  BY <1>2, AssetMessage, Zenon
<1>4. ToSet(p) = C
  BY <1>3, Reads
<1>5. o # <<>> /\ to # <<>>
  OBVIOUS
<1>6. Field(2, "bytes", 0, o) \in C /\ Field(3, "bytes", 0, to) \in C
  BY <1>2, <1>5 DEF AssetSet, BytesSet
<1>7. UintSet(4, v) \subseteq C /\ BytesSet(1, a) \subseteq C
  BY <1>2 DEF AssetSet
<1>8. ASSUME NEW x \in C
      PROVE  \/ x.f = 1 /\ x.wire = "bytes" /\ x \in BytesSet(1, a)
             \/ x.f = 2 /\ x.wire = "bytes" /\ x.b = o
             \/ x.f = 3 /\ x.wire = "bytes" /\ x.b = to
             \/ x.f = 4 /\ x.wire = "varint" /\ x.v = v /\ x \in UintSet(4, v)
  BY <1>2, SetsHave DEF AssetSet
<1>9. Has(p, 2) /\ Has(p, 3) /\ BytesOf(p, 2) = o /\ BytesOf(p, 3) = to
  BY <1>3, <1>6, FieldIs, Gets
<1>10. \A x \in C : /\ x.f = 4 => x \in UintSet(4, v)
                    /\ x.f = 1 => x \in BytesSet(1, a)
  BY <1>8
<1>11. IntOf(p, 4) = v /\ BytesOf(p, 1) = a
  BY <1>3, <1>7, <1>10, Gets
<1>12. Readable(p, {4}, {1, 2, 3}, {2, 3}) <=> v \in 0 .. MaxInt
  <2>1. ASSUME v \in 0 .. MaxInt
        PROVE  Readable(p, {4}, {1, 2, 3}, {2, 3})
    <3> SUFFICES ASSUME NEW x \in C
                 PROVE  /\ x.wire # "byte"
                        /\ x.f \in {4} \cup {1, 2, 3}
                        /\ x.f \in {4} => x.wire = "varint" /\ x.v <= MaxInt
                        /\ x.f \in {1, 2, 3} => x.wire = "bytes"
                        /\ x.f \in {2, 3} => Len(x.b) = 1
      BY <1>4 DEF Readable
    <3> QED
      BY <1>8, <2>1, NumbersAssumption
  <2>2. ASSUME v \notin 0 .. MaxInt
        PROVE  ~Readable(p, {4}, {1, 2, 3}, {2, 3})
    <3>1. v # 0 /\ ~(v <= MaxInt)
      BY <2>2, NumbersAssumption
    <3>2. Field(4, "varint", v, <<>>) \in C
      BY <1>7, <3>1 DEF UintSet
    <3> QED
      BY <1>4, <3>1, <3>2, FieldIs DEF Readable
  <2> QED
    BY <2>1, <2>2
<1>13. ContractIsRead(2, Url(2), p) <=> v \in 0 .. MaxInt
  BY <1>9, <1>12, UrlsDiffer, SchemaIs DEF ContractIsRead
<1>14. ContractOf(2, Url(2), p) = TransferAsset(a, o, to, v)
  BY <1>9, <1>11, UrlsDiffer, SchemaIs DEF ContractOf
<1> QED
  BY <1>1, <1>2, <1>13, <1>14

TriggerSet(owner, contract, callValue, data, tokenValue, tokenId) ==
  BytesSet(1, owner) \cup BytesSet(2, contract) \cup UintSet(3, callValue)
    \cup BytesSet(4, data) \cup UintSet(5, tokenValue) \cup UintSet(6, tokenId)

LEMMA TriggerMessage ==
  ASSUME NEW o, NEW to, NEW v, NEW d, NEW w, NEW u
  PROVE  Message(WriteParameter(Trigger(o, to, v, d, w, u)),
                 TriggerSet(o, to, v, d, w, u), 6)
<1>1. Message(PutBytes(1, o), BytesSet(1, o), 1)
  BY FirstPut
<1>2. PICK m2, C2 : /\ m2 = PutBytes(1, o) \o PutBytes(2, to)
                    /\ C2 = BytesSet(1, o) \cup BytesSet(2, to)
  OBVIOUS
<1>3. Message(m2, C2, 2)
  BY <1>1, <1>2, Puts, Numbers, Zenon
<1>4. PICK m3, C3 : m3 = m2 \o PutUint(3, v) /\ C3 = C2 \cup UintSet(3, v)
  OBVIOUS
<1>5. Message(m3, C3, 3)
  BY <1>3, <1>4, Puts, Numbers, Zenon
<1>6. PICK m4, C4 : m4 = m3 \o PutBytes(4, d) /\ C4 = C3 \cup BytesSet(4, d)
  OBVIOUS
<1>7. Message(m4, C4, 4)
  BY <1>5, <1>6, Puts, Numbers, Zenon
<1>8. PICK m5, C5 : m5 = m4 \o PutUint(5, w) /\ C5 = C4 \cup UintSet(5, w)
  OBVIOUS
<1>9. Message(m5, C5, 5)
  BY <1>7, <1>8, Puts, Numbers, Zenon
<1>10. Message(m5 \o PutUint(6, u), C5 \cup UintSet(6, u), 6)
  BY <1>9, Puts, Numbers, Zenon
<1>11. PICK c : c = Trigger(o, to, v, d, w, u)
  OBVIOUS
<1>12. /\ c.kind = "trigger" /\ c.owner = o /\ c.to = to /\ c.bytes = d
       /\ c.ints[1] = v /\ c.ints[2] = w /\ c.ints[3] = u
  BY <1>11 DEF Trigger
<1>13. WriteParameter(c) =
         PutBytes(1, o) \o PutBytes(2, to) \o PutUint(3, v)
           \o PutBytes(4, d) \o PutUint(5, w) \o PutUint(6, u)
  BY <1>12 DEF WriteParameter
<1>14. WriteParameter(c) = m5 \o PutUint(6, u)
  BY <1>2, <1>4, <1>6, <1>8, <1>13, Zenon
<1>15. TriggerSet(o, to, v, d, w, u) = C5 \cup UintSet(6, u)
  BY <1>2, <1>4, <1>6, <1>8, Zenon DEF TriggerSet
<1> QED
  BY <1>10, <1>11, <1>14, <1>15, Zenon

LEMMA TriggerIsRead ==
  ASSUME NEW o, NEW to, NEW v \in Nat, NEW d, NEW w \in Nat, NEW u \in Nat,
         Len(o) = 1, Len(to) = 1, NEW c, c = Trigger(o, to, v, d, w, u)
  PROVE  /\ {v, w, u} \subseteq 0 .. MaxInt =>
              /\ ContractIsRead(c.type, c.url, WriteParameter(c))
              /\ ContractOf(c.type, c.url, WriteParameter(c)) = c
         /\ ~({v, w, u} \subseteq 0 .. MaxInt) =>
              ~ContractIsRead(c.type, c.url, WriteParameter(c))
<1>1. c.type = 31 /\ c.url = Url(3)
  BY DEF Trigger
<1>2. PICK p, C : p = WriteParameter(c) /\ C = TriggerSet(o, to, v, d, w, u)
  OBVIOUS
<1>3. Message(p, C, 6)
  BY <1>2, TriggerMessage, Zenon
<1>4. ToSet(p) = C
  BY <1>3, Reads, Numbers
<1>5. o # <<>> /\ to # <<>>
  OBVIOUS
<1>6. Field(1, "bytes", 0, o) \in C /\ Field(2, "bytes", 0, to) \in C
  BY <1>2, <1>5 DEF TriggerSet, BytesSet
<1>7. /\ UintSet(3, v) \subseteq C /\ BytesSet(4, d) \subseteq C
      /\ UintSet(5, w) \subseteq C /\ UintSet(6, u) \subseteq C
  BY <1>2 DEF TriggerSet
<1>8. ASSUME NEW x \in C
      PROVE  \/ x.f = 1 /\ x.wire = "bytes" /\ x.b = o
             \/ x.f = 2 /\ x.wire = "bytes" /\ x.b = to
             \/ x.f = 3 /\ x.wire = "varint" /\ x.v = v /\ x \in UintSet(3, v)
             \/ x.f = 4 /\ x.wire = "bytes" /\ x \in BytesSet(4, d)
             \/ x.f = 5 /\ x.wire = "varint" /\ x.v = w /\ x \in UintSet(5, w)
             \/ x.f = 6 /\ x.wire = "varint" /\ x.v = u /\ x \in UintSet(6, u)
  BY <1>2, SetsHave DEF TriggerSet
<1>9. Has(p, 1) /\ Has(p, 2) /\ BytesOf(p, 1) = o /\ BytesOf(p, 2) = to
  BY <1>3, <1>6, FieldIs, Gets
<1>10. \A x \in C : /\ x.f = 3 => x \in UintSet(3, v)
                    /\ x.f = 4 => x \in BytesSet(4, d)
                    /\ x.f = 5 => x \in UintSet(5, w)
                    /\ x.f = 6 => x \in UintSet(6, u)
  BY <1>8
<1>11. IntOf(p, 3) = v /\ BytesOf(p, 4) = d /\ IntOf(p, 5) = w /\ IntOf(p, 6) = u
  BY <1>3, <1>7, <1>10, Gets
<1>12. Readable(p, {3, 5, 6}, {1, 2, 4}, {1, 2}) <=> {v, w, u} \subseteq 0 .. MaxInt
  <2>1. ASSUME {v, w, u} \subseteq 0 .. MaxInt
        PROVE  Readable(p, {3, 5, 6}, {1, 2, 4}, {1, 2})
    <3> SUFFICES ASSUME NEW x \in C
                 PROVE  /\ x.wire # "byte"
                        /\ x.f \in {3, 5, 6} \cup {1, 2, 4}
                        /\ x.f \in {3, 5, 6} => x.wire = "varint" /\ x.v <= MaxInt
                        /\ x.f \in {1, 2, 4} => x.wire = "bytes"
                        /\ x.f \in {1, 2} => Len(x.b) = 1
      BY <1>4 DEF Readable
    <3>1. v <= MaxInt /\ w <= MaxInt /\ u <= MaxInt
      BY <2>1, NumbersAssumption
    <3> QED
      BY <1>8, <3>1
  <2>2. ASSUME NEW f \in {3, 5, 6}, NEW y \in Nat, y \notin 0 .. MaxInt,
               UintSet(f, y) \subseteq C
        PROVE  ~Readable(p, {3, 5, 6}, {1, 2, 4}, {1, 2})
    <3>1. y # 0 /\ ~(y <= MaxInt)
      BY <2>2, NumbersAssumption
    <3>2. Field(f, "varint", y, <<>>) \in C
      BY <2>2, <3>1 DEF UintSet
    <3> QED
      BY <1>4, <3>1, <3>2, FieldIs DEF Readable
  <2> QED
    BY <2>1, <2>2, <1>7
<1>13. ContractIsRead(31, Url(3), p) <=> {v, w, u} \subseteq 0 .. MaxInt
  BY <1>9, <1>12, UrlsDiffer, SchemaIs DEF ContractIsRead
<1>14. ContractOf(31, Url(3), p) = Trigger(o, to, v, d, w, u)
  BY <1>9, <1>11, UrlsDiffer, SchemaIs DEF ContractOf
<1> QED
  BY <1>1, <1>2, <1>13, <1>14

(* The parameter of a type that is not known passes as it is.              *)
LEMMA OtherIsRead ==
  ASSUME NEW type, NEW url, NEW x, TypeOf(url) = 0, NEW c, c = Other(type, url, x)
  PROVE  /\ ContractIsRead(c.type, c.url, WriteParameter(c))
         /\ ContractOf(c.type, c.url, WriteParameter(c)) = c
<1>1. c.kind = "other" /\ c.type = type /\ c.url = url /\ c.bytes = x
  BY DEF Other
<1>2. WriteParameter(c) = x
  BY <1>1 DEF WriteParameter
<1> QED
  BY <1>1, <1>2 DEF ContractIsRead, ContractOf

----------------------------------------------------------------------------
(* Raw data                                                                *)

ParameterIsRead(c) == ContractIsRead(c.type, c.url, WriteParameter(c))

LEMMA AnyReads ==
  ASSUME NEW c, NEW perm \in Nat, c.type \in 0 .. MaxInt
  PROVE  LET inner == WriteContract(c, perm)
             any   == BytesOf(inner, 2)
         IN  /\ BytesOf(any, 1) = c.url /\ BytesOf(any, 2) = WriteParameter(c)
             /\ IntOf(inner, 1) = c.type /\ IntOf(inner, 5) = perm
             /\ perm \in 0 .. MaxInt => (AnyIsRead(inner) <=> ParameterIsRead(c))
             /\ ~ParameterIsRead(c) => ~AnyIsRead(inner)
<1>1. PICK inner, any : inner = WriteContract(c, perm) /\ any = AnyOf(c)
  OBVIOUS
<1>2. PICK C : C = UintSet(1, c.type) \cup {Field(2, "bytes", 0, any)} \cup UintSet(5, perm)
  OBVIOUS
<1>3. Message(inner, C, 5)
  BY <1>1, <1>2, ContractIs, Zenon
<1>4. PICK D : D = BytesSet(1, c.url) \cup BytesSet(2, WriteParameter(c))
  OBVIOUS
<1>5. Message(any, D, 2)
  BY <1>1, <1>4, AnyIs, Zenon
<1>6. ToSet(inner) = C /\ ToSet(any) = D
  BY <1>3, <1>5, Reads
<1>7. ASSUME NEW x \in C
      PROVE  \/ x.f = 1 /\ x.wire = "varint" /\ x.v = c.type /\ x \in UintSet(1, c.type)
             \/ x.f = 2 /\ x.wire = "bytes" /\ x.b = any
             \/ x.f = 5 /\ x.wire = "varint" /\ x.v = perm /\ x \in UintSet(5, perm)
  BY <1>2, SetsHave
<1>8. ASSUME NEW x \in D
      PROVE  \/ x.f = 1 /\ x.wire = "bytes" /\ x \in BytesSet(1, c.url)
             \/ x.f = 2 /\ x.wire = "bytes" /\ x \in BytesSet(2, WriteParameter(c))
  BY <1>4, SetsHave
<1>9. /\ UintSet(1, c.type) \subseteq C /\ UintSet(5, perm) \subseteq C
      /\ Field(2, "bytes", 0, any) \in C
  BY <1>2
<1>10. BytesSet(1, c.url) \subseteq D /\ BytesSet(2, WriteParameter(c)) \subseteq D
  BY <1>4
<1>11. \A x \in C : /\ x.f = 1 => x \in UintSet(1, c.type)
                    /\ x.f = 5 => x \in UintSet(5, perm)
  BY <1>7
<1>12. \A x \in D : /\ x.f = 1 => x \in BytesSet(1, c.url)
                    /\ x.f = 2 => x \in BytesSet(2, WriteParameter(c))
  BY <1>8
<1>13. IntOf(inner, 1) = c.type /\ IntOf(inner, 5) = perm /\ BytesOf(inner, 2) = any
  BY <1>3, <1>9, <1>11, Gets
<1>14. BytesOf(any, 1) = c.url /\ BytesOf(any, 2) = WriteParameter(c)
  BY <1>5, <1>10, <1>12, Gets
<1>15. Has(inner, 2)
  BY <1>3, <1>9, FieldIs, Gets
<1>16. Readable(any, {}, {1, 2}, {})
  BY <1>6, <1>8 DEF Readable
<1>17. ASSUME perm \in 0 .. MaxInt
       PROVE  Readable(inner, {1, 5}, {2}, {})
  <2>1. c.type <= MaxInt /\ perm <= MaxInt
    BY <1>17, NumbersAssumption
  <2> QED
    BY <1>6, <1>7, <2>1 DEF Readable
<1>18. AnyIsRead(inner) <=> Readable(inner, {1, 5}, {2}, {}) /\ ParameterIsRead(c)
  BY <1>13, <1>14, <1>15, <1>16 DEF AnyIsRead, ParameterIsRead
<1> QED
  BY <1>1, <1>13, <1>14, <1>17, <1>18

(* The fields of a transaction.                                            *)
TxShape(t) ==
  t = [refBytes |-> t.refBytes, refHash |-> t.refHash, expiration |-> t.expiration,
       timestamp |-> t.timestamp, feeLimit |-> t.feeLimit, memo |-> t.memo,
       contract |-> t.contract, permission |-> t.permission]

LEMMA TxReads ==
  ASSUME NEW t, TxShape(t), Len(t.refBytes) = 1, Len(t.refHash) = 1,
         t.expiration \in 0 .. MaxInt, t.timestamp \in 0 .. MaxInt,
         t.feeLimit \in Nat, t.permission \in 0 .. MaxInt,
         NEW c, c = t.contract, c.type \in 0 .. MaxInt
  PROVE  LET m == WriteRaw(t) IN
         /\ IsRead(m) => t.feeLimit \in 0 .. MaxInt /\ ParameterIsRead(c)
         /\ t.feeLimit \in 0 .. MaxInt /\ ParameterIsRead(c)
            /\ ContractOf(c.type, c.url, WriteParameter(c)) = c
            => IsRead(m) /\ TxOf(m) = t
<1>1. PICK m, C : m = WriteRaw(t) /\ C = RawSet(t)
  OBVIOUS
<1>2. Message(m, C, 18)
  BY <1>1, RawIs, Zenon
<1>3. ToSet(m) = C
  BY <1>2, Reads, Numbers, Zenon
<1>4. PICK inner : inner = WriteContract(c, t.permission)
  OBVIOUS
<1>5. t.refBytes # <<>> /\ t.refHash # <<>>
  <2>1. Len(<<>>) = 0
    OBVIOUS
  <2>2. Len(t.refBytes) # Len(<<>>) /\ Len(t.refHash) # Len(<<>>)
    BY <2>1
  <2> QED
    BY <2>2, Zenon
<1>6. /\ Field(1, "bytes", 0, t.refBytes) \in C /\ Field(4, "bytes", 0, t.refHash) \in C
      /\ Field(11, "bytes", 0, inner) \in C
  BY <1>1, <1>4, <1>5 DEF RawSet, BytesSet
<1>7. /\ UintSet(8, t.expiration) \subseteq C /\ BytesSet(10, t.memo) \subseteq C
      /\ UintSet(14, t.timestamp) \subseteq C /\ UintSet(18, t.feeLimit) \subseteq C
  BY <1>1 DEF RawSet
<1>8. ASSUME NEW x \in C
      PROVE  \/ x.f = 1 /\ x.wire = "bytes" /\ x.b = t.refBytes
             \/ x.f = 4 /\ x.wire = "bytes" /\ x.b = t.refHash
             \/ x.f = 8 /\ x.wire = "varint" /\ x.v = t.expiration
                /\ x \in UintSet(8, t.expiration)
             \/ x.f = 10 /\ x.wire = "bytes" /\ x \in BytesSet(10, t.memo)
             \/ x.f = 11 /\ x.wire = "bytes" /\ x.b = inner
             \/ x.f = 14 /\ x.wire = "varint" /\ x.v = t.timestamp
                /\ x \in UintSet(14, t.timestamp)
             \/ x.f = 18 /\ x.wire = "varint" /\ x.v = t.feeLimit
                /\ x \in UintSet(18, t.feeLimit)
  BY <1>1, <1>4, SetsHave DEF RawSet
<1>9. \A x \in C : /\ x.f = 8 => x \in UintSet(8, t.expiration)
                   /\ x.f = 10 => x \in BytesSet(10, t.memo)
                   /\ x.f = 14 => x \in UintSet(14, t.timestamp)
                   /\ x.f = 18 => x \in UintSet(18, t.feeLimit)
  BY <1>8
<1>10. 18 \in Nat
  OBVIOUS
<1>11. IntOf(m, 8) = t.expiration /\ IntOf(m, 14) = t.timestamp
       /\ IntOf(m, 18) = t.feeLimit /\ BytesOf(m, 10) = t.memo
  BY <1>2, <1>7, <1>9, <1>10, Gets
<1>12. BytesOf(m, 1) = t.refBytes /\ BytesOf(m, 4) = t.refHash /\ BytesOf(m, 11) = inner
  BY <1>2, <1>6, <1>10, Gets
<1>13. Has(m, 1) /\ Has(m, 4)
  BY <1>2, <1>6, <1>10, FieldIs, Gets
<1>14. Cardinality({i \in DOMAIN m : m[i].f = 11}) = 1
  BY <1>2, <1>6, <1>10, FieldIs, Reads
<1>15. Readable(m, {8, 14, 18}, {1, 4, 10, 11}, {1, 4}) <=> t.feeLimit \in 0 .. MaxInt
  <2>1. ASSUME t.feeLimit \in 0 .. MaxInt
        PROVE  Readable(m, {8, 14, 18}, {1, 4, 10, 11}, {1, 4})
    <3> SUFFICES ASSUME NEW x \in C
                 PROVE  /\ x.wire # "byte"
                        /\ x.f \in {8, 14, 18} \cup {1, 4, 10, 11}
                        /\ x.f \in {8, 14, 18} => x.wire = "varint" /\ x.v <= MaxInt
                        /\ x.f \in {1, 4, 10, 11} => x.wire = "bytes"
                        /\ x.f \in {1, 4} => Len(x.b) = 1
      BY <1>3 DEF Readable
    <3>1. t.feeLimit <= MaxInt /\ t.expiration <= MaxInt /\ t.timestamp <= MaxInt
      BY <2>1, NumbersAssumption
    <3> QED
      BY <1>8, <3>1
  <2>2. ASSUME t.feeLimit \notin 0 .. MaxInt
        PROVE  ~Readable(m, {8, 14, 18}, {1, 4, 10, 11}, {1, 4})
    <3>1. t.feeLimit # 0 /\ ~(t.feeLimit <= MaxInt)
      BY <2>2, NumbersAssumption
    <3>2. Field(18, "varint", t.feeLimit, <<>>) \in C
      BY <1>7, <3>1 DEF UintSet
    <3> QED
      BY <1>3, <3>1, <3>2, FieldIs DEF Readable
  <2> QED
    BY <2>1, <2>2
<1>16. t.permission \in Nat
  BY NumbersAssumption
<1>17. PICK any : any = BytesOf(inner, 2)
  OBVIOUS
<1>18. /\ BytesOf(any, 1) = c.url /\ BytesOf(any, 2) = WriteParameter(c)
       /\ IntOf(inner, 1) = c.type /\ IntOf(inner, 5) = t.permission
       /\ AnyIsRead(inner) <=> ParameterIsRead(c)
  BY <1>4, <1>16, <1>17, AnyReads
<1>19. ASSUME ContractOf(c.type, c.url, WriteParameter(c)) = c
       PROVE  TxOf(m) = t
  BY <1>11, <1>12, <1>17, <1>18, <1>19 DEF TxOf, TxShape
<1>20. ASSUME t.feeLimit \in 0 .. MaxInt, ParameterIsRead(c), TxOf(m) = t
       PROVE  IsRead(m)
  BY <1>1, <1>12, <1>13, <1>14, <1>15, <1>18, <1>20 DEF IsRead, Canonical, Id
<1>21. IsRead(m) => t.feeLimit \in 0 .. MaxInt /\ ParameterIsRead(c)
  BY <1>12, <1>15, <1>18 DEF IsRead
<1> QED
  BY <1>1, <1>19, <1>20, <1>21

(* The transactions that the code says it handles.                         *)
InRange == 0 .. MaxInt

ContractInRange(c) ==
  \/ \E owner, to :
       /\ Len(owner) = 1 /\ Len(to) = 1
       /\ \/ \E v \in InRange : c = Transfer(owner, to, v)
          \/ \E a : \E v \in InRange : c = TransferAsset(a, owner, to, v)
          \/ \E d : \E v, w, u \in InRange : c = Trigger(owner, to, v, d, w, u)
  \/ \E type \in InRange : \E url, x : TypeOf(url) = 0 /\ c = Other(type, url, x)

(* TronTx::parse of what write_raw wrote: any transaction with numbers in  *)
(* range, and with a contract of a known type or a parameter that is not   *)
(* interpreted, comes back field by field.                                 *)
THEOREM RawReadsBack ==
  ASSUME NEW t, TxShape(t), Len(t.refBytes) = 1, Len(t.refHash) = 1,
         t.expiration \in InRange, t.timestamp \in InRange,
         t.feeLimit \in InRange, t.permission \in InRange,
         ContractInRange(t.contract)
  PROVE  IsRead(WriteRaw(t)) /\ TxOf(WriteRaw(t)) = t
<1>1. PICK c : c = t.contract
  OBVIOUS
<1> DEFINE Goal == /\ c.type \in 0 .. MaxInt /\ ParameterIsRead(c)
                   /\ ContractOf(c.type, c.url, WriteParameter(c)) = c
<1>2. Goal
  <2>1. InRange \subseteq Nat
    BY NumbersAssumption DEF InRange
  <2>2. {1, 2, 31} \subseteq 0 .. MaxInt
    BY NumbersAssumption
  <2>3. ASSUME NEW o, NEW to, Len(o) = 1, Len(to) = 1,
               NEW v \in InRange, c = Transfer(o, to, v)
        PROVE  Goal
    <3>1. c.type = 1
      BY <2>3 DEF Transfer
    <3>2. /\ ContractIsRead(c.type, c.url, WriteParameter(c))
          /\ ContractOf(c.type, c.url, WriteParameter(c)) = c
      BY <2>1, <2>3, TransferIsRead DEF InRange
    <3> QED
      BY <2>2, <3>1, <3>2 DEF ParameterIsRead
  <2>4. ASSUME NEW o, NEW to, Len(o) = 1, Len(to) = 1, NEW a,
               NEW v \in InRange, c = TransferAsset(a, o, to, v)
        PROVE  Goal
    <3>1. c.type = 2
      BY <2>4 DEF TransferAsset
    <3>2. /\ ContractIsRead(c.type, c.url, WriteParameter(c))
          /\ ContractOf(c.type, c.url, WriteParameter(c)) = c
      BY <2>1, <2>4, AssetIsRead DEF InRange
    <3> QED
      BY <2>2, <3>1, <3>2 DEF ParameterIsRead
  <2>5. ASSUME NEW o, NEW to, Len(o) = 1, Len(to) = 1, NEW d, NEW v \in InRange,
               NEW w \in InRange, NEW u \in InRange, c = Trigger(o, to, v, d, w, u)
        PROVE  Goal
    <3>1. c.type = 31
      BY <2>5 DEF Trigger
    <3>2. {v, w, u} \subseteq 0 .. MaxInt
      BY DEF InRange
    <3>3. /\ ContractIsRead(c.type, c.url, WriteParameter(c))
          /\ ContractOf(c.type, c.url, WriteParameter(c)) = c
      BY <2>1, <2>5, <3>2, TriggerIsRead
    <3> QED
      BY <2>2, <3>1, <3>3 DEF ParameterIsRead
  <2>6. ASSUME NEW type \in InRange, NEW url, NEW x, TypeOf(url) = 0,
               c = Other(type, url, x)
        PROVE  Goal
    <3>1. c.type = type
      BY <2>6 DEF Other
    <3>2. /\ ContractIsRead(c.type, c.url, WriteParameter(c))
          /\ ContractOf(c.type, c.url, WriteParameter(c)) = c
      BY <2>6, OtherIsRead
    <3> QED
      BY <3>1, <3>2 DEF ParameterIsRead, InRange
  <2> QED
    BY <1>1, <2>3, <2>4, <2>5, <2>6 DEF ContractInRange
<1>3. t.feeLimit \in Nat
  BY NumbersAssumption DEF InRange
<1> QED
  BY <1>1, <1>2, <1>3, TxReads DEF InRange

----------------------------------------------------------------------------
(* Of what is built, also what is refused.                                 *)

Fine(c) ==
  /\ ToSet(c.ints) \subseteq 0 .. MaxInt
  /\ c.kind = "other" => TypeOf(c.url) = 0

LEMMA AddressHasLength ==
  ASSUME NEW k
  PROVE  Len(Address(k)) = 1
BY DEF Address

LEMMA BuiltContract ==
  ASSUME NEW c \in Contracts \cup {Transfer(Address(0), Address(1), 1)}
  PROVE  /\ c.type \in 0 .. MaxInt
         /\ ParameterIsRead(c) => Fine(c)
         /\ Fine(c) => /\ ParameterIsRead(c)
                       /\ ContractOf(c.type, c.url, WriteParameter(c)) = c
<1> DEFINE Goal == /\ c.type \in 0 .. MaxInt
                   /\ ParameterIsRead(c) => Fine(c)
                   /\ Fine(c) => /\ ParameterIsRead(c)
                                 /\ ContractOf(c.type, c.url, WriteParameter(c)) = c
<1>1. PICK a, b : a = Address(0) /\ b = Address(1)
  OBVIOUS
<1>2. Len(a) = 1 /\ Len(b) = 1
  BY <1>1, AddressHasLength
<1>3. {0, 1, 2, 4, 31} \subseteq 0 .. MaxInt /\ Amounts \subseteq Nat /\ 1 \in Nat
  BY NumbersAssumption
<1>4. ASSUME NEW v \in Nat, c = Transfer(a, b, v)
      PROVE  Goal
  <2>1. c.type = 1 /\ c.ints = <<v>> /\ c.kind = "transfer"
    BY <1>4 DEF Transfer
  <2>2. ToSet(c.ints) = {v}
    BY <2>1 DEF ToSet
  <2>3. Fine(c) <=> v \in 0 .. MaxInt
    BY <2>1, <2>2 DEF Fine
  <2> QED
    BY <1>2, <1>3, <1>4, <2>1, <2>3, TransferIsRead DEF ParameterIsRead
<1>5. ASSUME NEW x, c = TransferAsset(x, a, b, 1)
      PROVE  Goal
  <2>1. c.type = 2 /\ c.ints = <<1>> /\ c.kind = "asset"
    BY <1>5 DEF TransferAsset
  <2>2. ToSet(c.ints) = {1}
    BY <2>1 DEF ToSet
  <2>3. Fine(c) <=> 1 \in 0 .. MaxInt
    BY <2>1, <2>2 DEF Fine
  <2> QED
    BY <1>2, <1>3, <1>5, <2>1, <2>3, AssetIsRead DEF ParameterIsRead
<1>6. ASSUME NEW v \in Nat, NEW x, c = Trigger(a, b, v, x, 0, v)
      PROVE  Goal
  <2>1. c.type = 31 /\ c.ints = <<v, 0, v>> /\ c.kind = "trigger"
    BY <1>6 DEF Trigger
  <2>2. ToSet(c.ints) = {v, 0, v}
    BY <2>1 DEF ToSet
  <2>3. Fine(c) <=> {v, 0, v} \subseteq 0 .. MaxInt
    BY <2>1, <2>2 DEF Fine
  <2>4. 0 \in Nat
    OBVIOUS
  <2> QED
    BY <1>2, <1>3, <1>6, <2>1, <2>3, <2>4, TriggerIsRead DEF ParameterIsRead
<1>7. ASSUME NEW type \in {0, 1, 4}, NEW url, NEW x \in {<<>>, <<Plain(7)>>},
             c = Other(type, url, x)
      PROVE  Goal
  <2>1. c.type = type /\ c.url = url /\ c.ints = <<>> /\ c.kind = "other" /\ c.bytes = x
    BY <1>7 DEF Other
  <2>2. ToSet(c.ints) = {}
    BY <2>1 DEF ToSet
  <2>3. Fine(c) <=> TypeOf(url) = 0
    BY <2>1, <2>2 DEF Fine
  <2>4. CASE TypeOf(url) = 0
    BY <1>3, <1>7, <2>1, <2>3, <2>4, OtherIsRead DEF ParameterIsRead
  <2>5. CASE TypeOf(url) # 0
    <3>1. WriteParameter(c) = x
      BY <2>1 DEF WriteParameter
    <3>2. PICK s : s = Schema(type)
      OBVIOUS
    <3>3. CASE x = <<>>
      <4>1. ~Has(x, s.owner)
        BY <3>3 DEF Has, ToSet
      <4> QED
        BY <1>3, <2>1, <2>3, <2>5, <3>1, <3>2, <4>1 DEF ParameterIsRead, ContractIsRead
    <3>4. CASE x = <<Plain(7)>>
      <4>1. Plain(7).wire = "byte" /\ Plain(7) \in ToSet(x)
        BY <3>4, FieldIs DEF Plain, ToSet
      <4>2. ~Readable(x, s.ints, s.bytes, {s.owner, s.to})
        BY <4>1 DEF Readable
      <4> QED
        BY <1>3, <2>1, <2>3, <2>5, <3>1, <3>2, <4>2 DEF ParameterIsRead, ContractIsRead
    <3> QED
      BY <1>7, <3>3, <3>4
  <2> QED
    BY <2>4, <2>5
<1> QED
  BY <1>1, <1>3, <1>4, <1>5, <1>6, <1>7 DEF Contracts

(* What is built is read back unless a number of it is out of range, or    *)
(* the parameter of a known type is not one: then parse() refuses it.      *)
LEMMA BuiltReads == BuiltIsRead
<1> SUFFICES ASSUME NEW t \in Built
             PROVE  IF Faithful(t) THEN IsRead(WriteRaw(t)) /\ TxOf(WriteRaw(t)) = t
                    ELSE ~IsRead(WriteRaw(t))
  BY DEF BuiltIsRead
<1>1. PICK c : c = t.contract
  OBVIOUS
<1>2. {0, 1, 2} \subseteq 0 .. MaxInt /\ Amounts \subseteq Nat /\ 0 \in Nat
  BY NumbersAssumption
<1>3. TxShape(t)
  BY DEF Built, Raws, TxShape
<1>4. /\ t.refBytes = <<Plain(5)>> /\ t.refHash = <<Plain(6)>>
      /\ t.expiration \in {0, 1} /\ t.timestamp = 1 /\ t.permission \in {0, 2}
      /\ t.feeLimit \in Amounts \cup {0}
      /\ c \in Contracts \cup {Transfer(Address(0), Address(1), 1)}
  BY <1>1 DEF Built, Raws
<1>5. Len(t.refBytes) = 1 /\ Len(t.refHash) = 1
  BY <1>4
<1>6. /\ t.expiration \in 0 .. MaxInt /\ t.timestamp \in 0 .. MaxInt
      /\ t.permission \in 0 .. MaxInt /\ t.feeLimit \in Nat
  BY <1>2, <1>4
<1>7. Faithful(t) <=> t.feeLimit \in 0 .. MaxInt /\ Fine(c)
  BY <1>1, <1>6 DEF Faithful, Fine
<1>8. /\ c.type \in 0 .. MaxInt
      /\ ParameterIsRead(c) => Fine(c)
      /\ Fine(c) => /\ ParameterIsRead(c)
                    /\ ContractOf(c.type, c.url, WriteParameter(c)) = c
  BY <1>4, BuiltContract
<1>9. /\ IsRead(WriteRaw(t)) => t.feeLimit \in 0 .. MaxInt /\ ParameterIsRead(c)
      /\ t.feeLimit \in 0 .. MaxInt /\ ParameterIsRead(c)
         /\ ContractOf(c.type, c.url, WriteParameter(c)) = c
         => IsRead(WriteRaw(t)) /\ TxOf(WriteRaw(t)) = t
  BY <1>1, <1>3, <1>5, <1>6, <1>8, TxReads
<1> QED
  BY <1>7, <1>8, <1>9

(* A user signs what is shown, and what is shown is the raw data that goes *)
(* out to the byte, whatever was done to it on the way: every signature    *)
(* that is there is of that, the length of the message is known before it  *)
(* is written, and what is built is read back or refused as it should be.  *)
THEOREM ShownIsAlwaysSigned == Spec => []ShownIsSigned
<1>1. SignedInv => ShownIsSigned
  <2> SUFFICES ASSUME SignedInv
               PROVE  ShownIsSigned
    OBVIOUS
  <2>1. ASSUME NEW i \in DOMAIN sigs
        PROVE  Signer(Id(raw), sigs[i]) = sigs[i].by
    <3>1. PICK S : S = [by : Key, id : {raw}, v : {0, 28}]
      OBVIOUS
    <3>2. sigs \in Seq(S)
      BY <3>1, Zenon DEF SignedInv
    <3>3. sigs[i] \in S
      BY <3>2
    <3>4. sigs[i].id = raw /\ sigs[i].v \in 0 .. 3 \cup 27 .. 30
      BY <3>1, <3>3
    <3> QED
      BY <3>4 DEF Signer, Id
  <2>2. Len(sigs) \in Nat
    BY DEF SignedInv
  <2>3. ASSUME NEW len \in RawLens
        PROVE  TransactionSize(len, Len(sigs)) = TransactionLen(len, Len(sigs))
    BY <2>2, LengthIsKnown, NumbersAssumption
  <2> QED
    BY <2>1, <2>3, BuiltReads DEF ShownIsSigned
<1> QED
  BY <1>1, SignedHolds, PTL DEF Spec
=============================================================================
