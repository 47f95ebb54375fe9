---------------------------- MODULE SolanaProofs ----------------------------
(***************************************************************************)
(* What holds of Solana transactions for all keys, instructions, seeds and *)
(* bytes: the header tells the rights of every account, a length reads     *)
(* back, who is verified to have signed did, the accounts of compiled      *)
(* instructions keep their rights, and what is written can be read.        *)
(***************************************************************************)
EXTENDS SolanaTx, CompactU16, TLAPS, WellFoundedInduction, FiniteSetTheorems,
        SequenceTheorems

----------------------------------------------------------------------------
(* The header of compile_accounts() gives each account the rights of its   *)
(* class, for any number of accounts in each, as long as there are 256 at  *)
(* most and not all of them sign; if they do, it asks for no signature.    *)
THEOREM HeaderRights ==
  ASSUME NEW sw \in Nat, NEW sr \in Nat, NEW nw \in Nat, NEW nr \in Nat,
         1 + sw + sr + nw + nr <= MaxKeys
  PROVE  HeaderDecodes(sw, sr, nw, nr)
<1> DEFINE h == Header(sw, sr, nr)
           n == 1 + sw + sr + nw + nr
<1>1. ASSUME 1 + sw + sr < 256, NEW i \in 0 .. n - 1
      PROVE  /\ SignerAt(h, i) <=> i < 1 + sw + sr
             /\ WritableAt(h, n, i) <=>
                  (i < 1 + sw \/ (1 + sw + sr <= i /\ i < 1 + sw + sr + nw))
  <2>1. /\ AsU8(1 + sw + sr) = 1 + sw + sr
        /\ AsU8(sr) = sr
        /\ nr < 256 /\ AsU8(nr) = nr
    BY <1>1, SMT DEF AsU8, MaxKeys
  <2>2. h = [required |-> 1 + sw + sr, ro_signed |-> sr, ro_unsigned |-> nr]
    BY <2>1 DEF Header
  <2> QED
    BY <2>2 DEF SignerAt, WritableAt
<1>2. ASSUME 1 + sw + sr = 256, NEW i \in 0 .. n - 1
      PROVE  ~SignerAt(h, i)
  <2>1. h.required = 0
    BY <1>2 DEF Header, AsU8
  <2> QED
    BY <2>1 DEF SignerAt
<1> QED
  BY <1>1, <1>2 DEF HeaderDecodes

----------------------------------------------------------------------------
(* encode_compact_u16_to_array() and decode_compact_u16(): a length of 16  *)
(* bits reads back, whatever follows it, and takes the bytes it was given. *)
THEOREM LengthsReadBack ==
  ASSUME NEW len \in Nat, len < 65536, NEW rest \in Seq(0 .. 255)
  PROVE  ReadsBack(len, rest)
<1> DEFINE Reads == Decode(Encode(len) \o rest) = Value(len, Len(Encode(len)))
<1> SUFFICES Reads
  BY DEF ReadsBack
<1>1. CASE len < 128
  <2>1. Encode(len) = <<len>>
    BY <1>1 DEF Encode
  <2>2. Len(<<len>> \o rest) # 0 /\ (<<len>> \o rest)[1] = len
    OBVIOUS
  <2>3. Decode(<<len>> \o rest) = Value(len, 1)
    BY <1>1, <2>2 DEF Decode
  <2>4. Len(<<len>>) = 1
    OBVIOUS
  <2> QED
    BY <2>1, <2>3, <2>4
<1>2. CASE 128 <= len /\ len < 16384
  <2> DEFINE e == <<128 + (len % 128), len \div 128>>
  <2>1. Encode(len) = e
    BY <1>2 DEF Encode
  <2>2. /\ Len(e \o rest) \notin {0, 1}
        /\ (e \o rest)[1] = 128 + (len % 128)
        /\ (e \o rest)[2] = len \div 128
    OBVIOUS
  <2>3. /\ len % 128 \in 0 .. 127 /\ len \div 128 \in 1 .. 127
        /\ len = (len % 128) + 128 * (len \div 128)
    BY <1>2
  <2>4. Low(128 + (len % 128)) = len % 128
    BY <2>3 DEF Low
  <2> HIDE DEF e
  <2>5. Decode(e \o rest) = Value((len % 128) + 128 * (len \div 128), 2)
    BY <2>2, <2>3, <2>4 DEF Decode
  <2>6. Len(e) = 2
    BY DEF e
  <2> QED
    BY <2>1, <2>3, <2>5, <2>6
<1>3. CASE 16384 <= len
  <2> DEFINE e == <<128 + (len % 128), 128 + ((len \div 128) % 128), len \div 16384>>
  <2>1. Encode(len) = e
    <3>1. ~(len < 128) /\ ~(len < 16384)
      BY <1>3
    <3> QED
      BY <3>1 DEF Encode
  <2>2. /\ Len(e \o rest) \notin {0, 1, 2}
        /\ (e \o rest)[1] = 128 + (len % 128)
        /\ (e \o rest)[2] = 128 + ((len \div 128) % 128)
        /\ (e \o rest)[3] = len \div 16384
    OBVIOUS
  <2>3. /\ len % 128 \in 0 .. 127 /\ (len \div 128) % 128 \in 0 .. 127
        /\ len \div 16384 \in 1 .. 3
        /\ len = (len % 128) + 128 * ((len \div 128) % 128) + 16384 * (len \div 16384)
    <3> DEFINE w == len \div 128
    <3>1. /\ w \in 128 .. 511 /\ len % 128 \in 0 .. 127
          /\ len = (len % 128) + 128 * w
      BY <1>3, SMT
    <3>2. /\ w \div 128 \in 1 .. 3 /\ w % 128 \in 0 .. 127
          /\ w = (w % 128) + 128 * (w \div 128)
      <4> HIDE DEF w
      <4> QED  BY <3>1, SMT
    <3>3. len \div 16384 = w \div 128
      BY <1>3, SMT
    <3> QED
      BY <3>1, <3>2, <3>3, SMT
  <2>4. /\ Low(128 + (len % 128)) = len % 128
        /\ Low(128 + ((len \div 128) % 128)) = (len \div 128) % 128
    BY <2>3 DEF Low
  <2> HIDE DEF e
  <2>5. Decode(e \o rest) =
          Value((len % 128) + 128 * ((len \div 128) % 128) + 16384 * (len \div 16384), 3)
    BY <2>2, <2>3, <2>4 DEF Decode, DecodeThree
  <2>6. Len(e) = 3
    BY DEF e
  <2> QED
    BY <2>1, <2>3, <2>5, <2>6
<1> HIDE DEF Reads
<1> QED
  BY <1>1, <1>2, <1>3

LEMMA LowOfHigh ==
  ASSUME NEW x \in Nat, 128 <= x, x < 256
  PROVE  Low(x) \in Nat /\ Low(x) < 128 /\ x = 128 + Low(x)
BY DEF Low

(* Lengths of two and three bytes, of 7, 7 and 2 bits.                     *)
Two(x, y) == x + 128 * y
Three(x, y, z) == x + 128 * y + 16384 * z

Within16Bits(v) == v \in Nat /\ v < 65536

TwoReads(x, y) ==
  Within16Bits(Two(x, y)) /\ Encode(Two(x, y)) = <<128 + x, y>>

LEMMA TwoBack ==
  ASSUME NEW x \in Nat, x < 128, NEW y \in Nat, 0 < y, y < 128
  PROVE  TwoReads(x, y)
<1>1. PICK v \in Nat : v = x + 128 * y
  OBVIOUS
<1>2. 128 <= v /\ v < 16384 /\ v % 128 = x /\ v \div 128 = y
  BY <1>1
<1>3. Within16Bits(v) /\ Encode(v) = <<128 + x, y>>
  BY <1>2 DEF Within16Bits, Encode
<1> QED
  BY <1>1, <1>3 DEF Two, TwoReads

ThreeReads(x, y, z) ==
  /\ Within16Bits(Three(x, y, z))
  /\ Encode(Three(x, y, z)) = <<128 + x, 128 + y, z>>

LEMMA ThreeBack ==
  ASSUME NEW x \in Nat, x < 128, NEW y \in Nat, y < 128,
         NEW z \in Nat, 0 < z, z < 4
  PROVE  ThreeReads(x, y, z)
<1>1. PICK v \in Nat : v = x + 128 * y + 16384 * z
  OBVIOUS
<1>2. /\ 16384 <= v /\ v < 65536
      /\ v % 128 = x /\ (v \div 128) % 128 = y /\ v \div 16384 = z
  <2>1. CASE z = 1
    BY <1>1, <2>1
  <2>2. CASE z = 2
    BY <1>1, <2>2
  <2>3. CASE z = 3
    BY <1>1, <2>3
  <2> QED
    BY <2>1, <2>2, <2>3
<1>3. Within16Bits(v) /\ Encode(v) = <<128 + x, 128 + y, z>>
  BY <1>2 DEF Within16Bits, Encode
<1> QED
  BY <1>1, <1>3 DEF Three, ThreeReads

LEMMA Heads ==
  ASSUME NEW b \in Seq(Nat)
  PROVE  /\ Len(b) \in Nat
         /\ Len(b) # 0 => SubSeq(b, 1, 1) = <<b[1]>>
         /\ Len(b) \notin {0, 1} => SubSeq(b, 1, 2) = <<b[1], b[2]>>
         /\ Len(b) \notin {0, 1, 2} => SubSeq(b, 1, 3) = <<b[1], b[2], b[3]>>
<1>1. PICK n \in Nat : Len(b) = n /\ b \in [1 .. n -> Nat]
  BY LenProperties
<1>2. ASSUME NEW m \in Nat, m <= n
      PROVE  SubSeq(b, 1, m) = [i \in 1 .. m |-> b[i]]
  BY <1>1, <1>2, SubSeqProperties
<1>3. n # 0 => 1 <= n
  OBVIOUS
<1>4. n \notin {0, 1} => 2 <= n
  OBVIOUS
<1>5. n \notin {0, 1, 2} => 3 <= n
  OBVIOUS
<1>6. <<b[1]>> = [i \in 1 .. 1 |-> b[i]]
  OBVIOUS
<1>7. <<b[1], b[2]>> = [i \in 1 .. 2 |-> b[i]]
  OBVIOUS
<1>8. <<b[1], b[2], b[3]>> = [i \in 1 .. 3 |-> b[i]]
  OBVIOUS
<1> QED
  BY <1>1, <1>2, <1>3, <1>4, <1>5, <1>6, <1>7, <1>8

(* decode_compact_u16(): bytes that are read as a length are the encoding  *)
(* of that length and of no other, whatever bytes they are: what was       *)
(* parsed is written again as it was.                                      *)
THEOREM LengthsCanonical ==
  ASSUME NEW b \in Seq(Nat), \A i \in 1 .. Len(b) : b[i] < 256
  PROVE  IsCanonical(b)
<1> DEFINE Right(v, used) ==
             Within16Bits(v) /\ Encode(v) = SubSeq(b, 1, used)
<1> SUFFICES ASSUME NEW d, d = Decode(b), d.error = "none"
             PROVE  Right(d.value, d.used)
  BY DEF IsCanonical, Within16Bits
<1>1. PICK n \in Nat :
        /\ Len(b) = n /\ b \in [1 .. n -> Nat] /\ \A i \in 1 .. n : b[i] < 256
  BY LenProperties
<1>2. n # 0
  BY <1>1 DEF Decode, Refused
<1>0. b[1] \in Nat /\ b[1] < 256
  <2>1. 1 \in 1 .. n
    BY <1>2
  <2> QED
    BY <1>1, <2>1
<1>3. CASE b[1] < 128
  <2>1. d = Value(b[1], 1)
    BY <1>1, <1>2, <1>3 DEF Decode
  <2>2. d.value = b[1] /\ d.used = 1
    BY <2>1 DEF Value
  <2>3. Encode(b[1]) = <<b[1]>>
    BY <1>3 DEF Encode
  <2>4. SubSeq(b, 1, 1) = <<b[1]>>
    BY <1>1, <1>2, Heads
  <2>5. Within16Bits(b[1])
    BY <1>0 DEF Within16Bits
  <2>6. Right(b[1], 1)
    BY <1>0, <2>3, <2>4, <2>5
  <2> HIDE DEF Right
  <2> QED
    BY <2>2, <2>6
<1>4. CASE ~(b[1] < 128)
  <2>1. n # 1 /\ b[2] # 0
    BY <1>1, <1>2, <1>4 DEF Decode, Refused
  <2>2. b[2] \in Nat /\ 0 < b[2] /\ b[2] < 256
    <3>1. 2 \in 1 .. n
      BY <1>2, <2>1
    <3>2. b[2] \in Nat /\ b[2] < 256
      BY <1>1, <3>1
    <3> QED
      BY <2>1, <3>2
  <2>3. Low(b[1]) \in Nat /\ Low(b[1]) < 128 /\ b[1] = 128 + Low(b[1])
    BY <1>0, <1>4, LowOfHigh
  <2>4. CASE b[2] < 128
    <3>1. PICK v : v = Two(Low(b[1]), b[2])
      OBVIOUS
    <3>2. d = Value(v, 2)
      <4>1. Len(b) # 0 /\ Len(b) # 1 /\ ~(b[1] < 128) /\ b[2] # 0 /\ b[2] < 128
        BY <1>1, <1>2, <1>4, <2>1, <2>4
      <4>2. Decode(b) = Value(Low(b[1]) + 128 * b[2], 2)
        BY <4>1 DEF Decode
      <4> QED
        BY <3>1, <4>2 DEF Two
    <3>3. Within16Bits(v) /\ Encode(v) = <<128 + Low(b[1]), b[2]>>
      <4>1. Low(b[1]) \in Nat /\ Low(b[1]) < 128
        BY <2>3, Zenon
      <4>2. b[2] \in Nat /\ 0 < b[2] /\ b[2] < 128
        BY <2>2, <2>4, Zenon
      <4>3. TwoReads(Low(b[1]), b[2])
        BY <4>1, <4>2, TwoBack
      <4> QED
        BY <3>1, <4>3, Zenon DEF TwoReads
    <3>4. SubSeq(b, 1, 2) = <<b[1], b[2]>>
      BY <1>1, <1>2, <2>1, Heads
    <3>5. d.value = v /\ d.used = 2
      BY <3>2 DEF Value
    <3>6. Right(v, 2)
      BY <2>3, <3>3, <3>4, Zenon
    <3> HIDE DEF Right
    <3> QED
      BY <3>5, <3>6
  <2>5. CASE ~(b[2] < 128)
    <3>1. n # 2 /\ d = DecodeThree(b)
      BY <1>1, <1>2, <1>4, <2>1, <2>5 DEF Decode, Refused
    <3>2. Low(b[2]) \in Nat /\ Low(b[2]) < 128 /\ b[2] = 128 + Low(b[2])
      BY <2>2, <2>5, LowOfHigh
    <3>3. PICK v : v = Three(Low(b[1]), Low(b[2]), b[3])
      OBVIOUS
    <3>4. b[3] # 0 /\ ~(b[3] > 3) /\ d = Value(v, 3)
      BY <3>1, <3>3 DEF DecodeThree, Refused, Three
    <3>5. b[3] \in Nat /\ 0 < b[3] /\ b[3] < 4
      <4>1. 3 \in 1 .. n
        BY <1>2, <2>1, <3>1
      <4>2. b[3] \in Nat
        BY <1>1, <4>1
      <4> QED
        BY <3>4, <4>2
    <3>6. /\ Within16Bits(v)
          /\ Encode(v) = <<128 + Low(b[1]), 128 + Low(b[2]), b[3]>>
      <4>1. PICK x, y, z : x = Low(b[1]) /\ y = Low(b[2]) /\ z = b[3]
        OBVIOUS
      <4>2. /\ x \in Nat /\ x < 128 /\ y \in Nat /\ y < 128
            /\ z \in Nat /\ 0 < z /\ z < 4
        BY <2>3, <3>2, <3>5, <4>1, Zenon
      <4>3. ThreeReads(x, y, z)
        BY <4>2, ThreeBack
      <4> QED
        BY <3>3, <4>1, <4>3, Zenon DEF ThreeReads
    <3>7. SubSeq(b, 1, 3) = <<b[1], b[2], b[3]>>
      BY <1>1, <1>2, <2>1, <3>1, Heads
    <3>8. d.value = v /\ d.used = 3
      BY <3>4 DEF Value
    <3>9. Right(v, 3)
      BY <2>3, <3>2, <3>6, <3>7, Zenon
    <3> HIDE DEF Right
    <3> QED
      BY <3>8, <3>9
  <2> QED
    BY <2>4, <2>5
<1> QED
  BY <1>3, <1>4

----------------------------------------------------------------------------
(* The inductive invariant: the transaction has its fields, and its slots  *)
(* hold nothing but what signers made.                                     *)

IsTx(t) ==
  \E f, h, k, b, x, l, c, s :
    t = [format |-> f, header |-> h, keys |-> k, blockhash |-> b, ixs |-> x,
         lookups |-> l, config |-> c, sigs |-> s]

SlotsInv ==
  tx # None =>
    /\ IsTx(tx)
    /\ tx.header.required \in Nat
    /\ tx.sigs \in Seq({Empty, Zeros} \cup made)

(* The least of the checks that fail is one of them. *)
LEMMA MinIsMember ==
  ASSUME NEW S, S \subseteq Nat, S # {}
  PROVE  Min(S) \in S /\ \A y \in S : Min(S) <= y
<1>1. PICK x \in S : \A y \in S : ~(<<y, x>> \in OpToRel(<, Nat))
  BY NatLessThanWellFounded, WFMin
<1>2. ASSUME NEW y \in S
      PROVE  x <= y
  <2>1. <<y, x>> \in Nat \X Nat
    OBVIOUS
  <2>2. ~(y < x)
    BY <1>1, <2>1, Zenon DEF OpToRel
  <2>3. x \in Nat /\ y \in Nat
    OBVIOUS
  <2> QED
    BY <2>2, <2>3
<1> QED
  BY <1>2 DEF Min

(* The class of a set of accounts is as long as the set. *)
LEMMA SortedLen ==
  ASSUME NEW S, IsFiniteSet(S)
  PROVE  Len(Sorted(S)) \in Nat
<1>1. Cardinality(S) \in Nat
  BY FS_CardinalityType
<1> QED
  BY <1>1 DEF Sorted

(* A transaction that is compiled has one empty slot per required signer.  *)
LEMMA NewSlots ==
  ASSUME NEW format, NEW payer \in Payer, NEW ixs \in Lists, NEW b, NEW lookups,
         NEW config
  PROVE  LET t == NewTx(format, payer, ixs, b, lookups, config)
         IN  /\ IsTx(t)
             /\ t.header.required \in Nat
             /\ t.sigs \in Seq({Empty})
<1> DEFINE h == HeaderOf(payer, ixs)
<1>1. \A signer, writable : Len(Class(payer, ixs, signer, writable)) \in Nat
  <2> SUFFICES ASSUME NEW signer, NEW writable
               PROVE  Len(Class(payer, ixs, signer, writable)) \in Nat
    OBVIOUS
  <2> DEFINE S == {k \in Seen(payer, ixs) \ {payer} :
                     /\ IsSigner(payer, ixs, k) = signer
                     /\ IsWritable(payer, ixs, k) = writable}
  <2>1. IsFiniteSet(Seen(payer, ixs))
    BY ListsAssumption
  <2>2. S \in SUBSET Seen(payer, ixs)
    OBVIOUS
  <2>3. IsFiniteSet(S)
    BY <2>1, <2>2, FS_Subset
  <2> QED
    BY <2>3, SortedLen DEF Class
<1>2. h.required \in Nat
  <2> DEFINE n == Len(Class(payer, ixs, TRUE, TRUE))
             m == Len(Class(payer, ixs, TRUE, FALSE))
  <2>1. n \in Nat /\ m \in Nat
    BY <1>1
  <2>2. h.required = AsU8(1 + n + m)
    BY DEF HeaderOf, Header
  <2> HIDE DEF n, m, h
  <2>3. AsU8(1 + n + m) \in Nat
    BY <2>1, SMT DEF AsU8
  <2> QED
    BY <2>2, <2>3
<1>3. NewTx(format, payer, ixs, b, lookups, config) =
        [format |-> format, header |-> h, keys |-> AccountKeys(payer, ixs),
         blockhash |-> b, ixs |-> Compiled(AccountKeys(payer, ixs), ixs),
         lookups |-> lookups, config |-> config,
         sigs |-> [i \in 1 .. h.required |-> Empty]]
  BY DEF NewTx
<1> HIDE DEF h
<1>4. [i \in 1 .. h.required |-> Empty] \in Seq({Empty})
  BY <1>2
<1> DEFINE t == NewTx(format, payer, ixs, b, lookups, config)
<1>5. IsTx(t)
  BY <1>3 DEF IsTx
<1>6. t.header = h /\ t.sigs = [i \in 1 .. h.required |-> Empty]
  BY <1>3
<1> QED
  BY <1>2, <1>4, <1>5, <1>6

(* So has one that is read, whatever its slots hold. *)
LEMMA ReadSlots ==
  ASSUME NEW w
  PROVE  /\ IsTx(FromBytes(w))
         /\ FromBytes(w).header = w.header
         /\ FromBytes(w).sigs = w.sigs
BY DEF FromBytes, IsTx

(* Writing a transaction fills the empty slots with zeros. *)
LEMMA PassSlots ==
  ASSUME NEW t, NEW made_, t.sigs \in Seq({Empty, Zeros} \cup made_)
  PROVE  LET u == FromBytes(ToBytes(t)) IN
         /\ IsTx(u)
         /\ u.header = t.header
         /\ u.sigs \in Seq({Empty, Zeros} \cup made_)
         /\ \A i \in DOMAIN t.sigs : t.sigs[i] # Empty => u.sigs[i] = t.sigs[i]
<1>1. /\ ToBytes(t).header = t.header
      /\ ToBytes(t).sigs =
           [i \in DOMAIN t.sigs |-> IF t.sigs[i] = Empty THEN Zeros ELSE t.sigs[i]]
  BY DEF ToBytes
<1>2. ToBytes(t).sigs \in Seq({Empty, Zeros} \cup made_)
  BY <1>1
<1> QED
  BY <1>1, <1>2, ReadSlots

(* The slot of a key, where it has one, is that of the key. *)
LEMMA SlotIsKeys ==
  ASSUME NEW t, t.header.required \in Nat, NEW k, Slot(t, k) # 0
  PROVE  Slot(t, k) \in 1 .. t.header.required /\ t.keys[Slot(t, k)] = k
<1> DEFINE at == {i \in 1 .. t.header.required : t.keys[i] = k}
<1>1. at # {} /\ at \subseteq Nat
  BY DEF Slot
<1>2. Slot(t, k) = Min(at)
  BY <1>1 DEF Slot
<1>3. Min(at) \in at
  BY <1>1, MinIsMember
<1> QED
  BY <1>2, <1>3

(* A call of sign() writes signatures that it makes, and nothing else.     *)
LEMMA FilledSlots ==
  ASSUME NEW t, NEW keys, NEW old, t.header.required \in Nat,
         t.sigs \in Seq({Empty, Zeros} \cup old)
  PROVE  LET new == old \cup {Signature(t, k) : k \in keys} IN
         /\ Filled(t, keys) \in Seq({Empty, Zeros} \cup new)
         /\ DOMAIN Filled(t, keys) = DOMAIN t.sigs
         /\ \A i \in DOMAIN t.sigs :
              Filled(t, keys)[i] \in {t.sigs[i], Signature(t, t.keys[i])}
<1> DEFINE new == old \cup {Signature(t, k) : k \in keys}
<1>1. \A i \in DOMAIN t.sigs : t.sigs[i] \in {Empty, Zeros} \cup old
  OBVIOUS
<1>2. ASSUME NEW i \in DOMAIN t.sigs, NEW k \in keys, Slot(t, k) = i
      PROVE  Signature(t, t.keys[i]) \in new
  <2>1. Slot(t, k) # 0
    BY <1>2
  <2>2. t.keys[i] = k
    BY <1>2, <2>1, SlotIsKeys
  <2> QED
    BY <2>2
<1>3. \A i \in DOMAIN t.sigs : Filled(t, keys)[i] \in {Empty, Zeros} \cup new
  BY <1>1, <1>2 DEF Filled
<1>4. DOMAIN Filled(t, keys) = 1 .. Len(t.sigs) /\ Len(t.sigs) \in Nat
  BY DEF Filled
<1>5. Filled(t, keys) = [i \in 1 .. Len(t.sigs) |-> Filled(t, keys)[i]]
  BY <1>4 DEF Filled
<1>6. Filled(t, keys) \in Seq({Empty, Zeros} \cup new)
  <2> DEFINE f == Filled(t, keys)
             T == {Empty, Zeros} \cup new
  <2>1. f \in [1 .. Len(t.sigs) -> T]
    <3>1. f = [i \in 1 .. Len(t.sigs) |-> f[i]]
      BY <1>5
    <3>2. \A i \in 1 .. Len(t.sigs) : f[i] \in T
      BY <1>3
    <3> HIDE DEF f, T
    <3> QED
      BY <3>1, <3>2
  <2> HIDE DEF f, T
  <2>2. f \in Seq(T)
    BY <1>4, <2>1
  <2> QED
    BY <2>2 DEF f, T
<1> QED
  BY <1>6 DEF Filled

----------------------------------------------------------------------------
(* Every step keeps the invariant. *)

LEMMA SlotsInvInit == Init => SlotsInv
BY DEF Init, SlotsInv

(* In a call of sign(), either nothing is written or the slots of some of  *)
(* the keys are.                                                           *)
LEMMA SignWrites ==
  ASSUME NEW seeds, Sign(seeds)
  PROVE  \/ UNCHANGED <<tx, made>>
         \/ \E keys : /\ tx' = [tx EXCEPT !.sigs = Filled(tx, keys)]
                      /\ made' = made \cup {Signature(tx, k) : k \in keys}
<1> DEFINE errors == [n \in DOMAIN seeds |-> SeedError(tx, seeds[n])]
           bad    == {n \in DOMAIN seeds : errors[n] # None}
           stop   == IF bad = {} THEN Len(seeds) + 1 ELSE Min(bad)
           signed == {seeds[n] : n \in 1 .. stop - 1}
<1>1. CASE MessageError(tx) # None \/ tx.header.required > Len(tx.keys)
  BY <1>1 DEF Sign, Fail
<1>2. CASE ~(MessageError(tx) # None \/ tx.header.required > Len(tx.keys))
  <2>1. /\ tx' = [tx EXCEPT !.sigs = Filled(tx, signed)]
        /\ made' = made \cup {Signature(tx, k) : k \in signed}
    BY <1>2 DEF Sign
  <2> HIDE DEF signed
  <2> QED
    BY <2>1
<1> QED
  BY <1>1, <1>2

LEMMA SlotsInvSign ==
  ASSUME SlotsInv, NEW seeds, Sign(seeds)
  PROVE  SlotsInv'
<1>1. tx # None
  BY DEF Sign
<1>2. CASE UNCHANGED <<tx, made>>
  BY <1>2 DEF SlotsInv, IsTx
<1>3. ASSUME NEW keys, tx' = [tx EXCEPT !.sigs = Filled(tx, keys)],
             made' = made \cup {Signature(tx, k) : k \in keys}
      PROVE  SlotsInv'
  <2>1. PICK f, h, k, b, x, l, c, s :
          tx = [format |-> f, header |-> h, keys |-> k, blockhash |-> b, ixs |-> x,
                lookups |-> l, config |-> c, sigs |-> s]
    BY <1>1 DEF SlotsInv, IsTx
  <2>2. tx' = [format |-> f, header |-> h, keys |-> k, blockhash |-> b, ixs |-> x,
               lookups |-> l, config |-> c, sigs |-> Filled(tx, keys)]
    BY <1>3, <2>1
  <2>3. tx'.header = tx.header /\ tx'.sigs = Filled(tx, keys)
    BY <2>1, <2>2
  <2>4. IsTx(tx')
    BY <2>2 DEF IsTx
  <2>5. tx.header.required \in Nat /\ tx.sigs \in Seq({Empty, Zeros} \cup made)
    BY <1>1 DEF SlotsInv
  <2>6. tx'.sigs \in Seq({Empty, Zeros} \cup made')
    <3>1. Filled(tx, keys) \in
            Seq({Empty, Zeros} \cup (made \cup {Signature(tx, j) : j \in keys}))
      BY <2>5, FilledSlots
    <3> QED
      BY <1>3, <2>3, <3>1
  <2> QED
    BY <2>3, <2>4, <2>5, <2>6 DEF SlotsInv, IsTx
<1> QED
  BY <1>2, <1>3, SignWrites

LEMMA SlotsInvNew ==
  ASSUME SlotsInv, NEW payer \in Payer, NEW ixs \in Lists, NEW b,
         Formats(payer, ixs, b)
  PROVE  SlotsInv'
<1>1. PICK format, lookups, config : New(format, payer, ixs, b, lookups, config)
  BY DEF Formats
<1> DEFINE t == NewTx(format, payer, ixs, b, lookups, config)
<1>2. CASE NewError(t) # None
  BY <1>1, <1>2 DEF New, Fail, SlotsInv, IsTx
<1>3. CASE NewError(t) = None
  <2>1. tx' = t
    BY <1>1, <1>3 DEF New
  <2>2. IsTx(t) /\ t.header.required \in Nat /\ t.sigs \in Seq({Empty})
    BY NewSlots
  <2> HIDE DEF t
  <2>3. t.sigs \in Seq({Empty, Zeros} \cup made')
    BY <2>2
  <2> QED
    BY <2>1, <2>2, <2>3 DEF SlotsInv, IsTx
<1> QED
  BY <1>2, <1>3

LEMMA SlotsInvReceive ==
  ASSUME SlotsInv, NEW w \in Foreign, Receive(w)
  PROVE  SlotsInv'
<1>1. CASE FromBytesError(w) # None
  BY <1>1 DEF Receive, Fail, SlotsInv, IsTx
<1>2. CASE FromBytesError(w) = None
  <2>1. tx' = FromBytes(w)
    BY <1>2 DEF Receive
  <2>2. w.sigs \in Seq({Zeros}) /\ w.header.required \in Nat
    BY ForeignAssumption
  <2>3. /\ IsTx(tx') /\ tx'.header.required \in Nat
        /\ tx'.sigs \in Seq({Zeros})
    BY <2>1, <2>2, ReadSlots
  <2>4. tx'.sigs \in Seq({Empty, Zeros} \cup made')
    BY <2>3
  <2> QED
    BY <2>3, <2>4 DEF SlotsInv, IsTx
<1> QED
  BY <1>1, <1>2

(* An edit leaves the header and the slots alone. *)
LEMMA EditKeeps ==
  ASSUME SlotsInv, NEW b, Edit(b)
  PROVE  IsTx(tx') /\ tx'.header = tx.header /\ tx'.sigs = tx.sigs
<1>1. PICK f, h, k, d, x, l, c, s :
        tx = [format |-> f, header |-> h, keys |-> k, blockhash |-> d, ixs |-> x,
              lookups |-> l, config |-> c, sigs |-> s]
  BY DEF Edit, SlotsInv, IsTx
<1>2. tx' = [format |-> f, header |-> h, keys |-> k, blockhash |-> b, ixs |-> x,
             lookups |-> l, config |-> c, sigs |-> s]
  BY <1>1 DEF Edit
<1>3. IsTx(tx')
  BY <1>2 DEF IsTx
<1> QED
  BY <1>1, <1>2, <1>3

LEMMA SlotsInvNext ==
  SlotsInv /\ [Next]_vars => SlotsInv'
<1> SUFFICES ASSUME SlotsInv, [Next]_vars
             PROVE  SlotsInv'
  OBVIOUS
<1>1. CASE \E payer \in Payer, ixs \in Lists, b \in Blockhash : Formats(payer, ixs, b)
  BY <1>1, SlotsInvNew
<1>2. CASE \E w \in Foreign : Receive(w)
  BY <1>2, SlotsInvReceive
<1>3. ASSUME NEW b \in Blockhash, Edit(b)
      PROVE  SlotsInv'
  <2>1. tx # None /\ made' = made
    BY <1>3 DEF Edit
  <2>2. IsTx(tx') /\ tx'.header = tx.header /\ tx'.sigs = tx.sigs
    BY <1>3, EditKeeps
  <2>3. /\ tx.header.required \in Nat
        /\ tx.sigs \in Seq({Empty, Zeros} \cup made)
    BY <2>1 DEF SlotsInv
  <2> QED
    BY <2>1, <2>2, <2>3 DEF SlotsInv, IsTx
<1>4. CASE \E seeds \in Seeds : Sign(seeds)
  BY <1>4, SlotsInvSign
<1>5. CASE Verify
  BY <1>5 DEF Verify, Fail, SlotsInv, IsTx
<1>6. CASE Pass
  <2>1. tx # None /\ made' = made
    BY <1>6 DEF Pass, Fail
  <2>2. CASE tx' = tx
    BY <2>1, <2>2 DEF SlotsInv, IsTx
  <2>3. CASE tx' = FromBytes(ToBytes(tx))
    <3>1. /\ tx.header.required \in Nat
          /\ tx.sigs \in Seq({Empty, Zeros} \cup made)
      BY <2>1 DEF SlotsInv
    <3>2. /\ IsTx(tx') /\ tx'.header = tx.header
          /\ tx'.sigs \in Seq({Empty, Zeros} \cup made)
      BY <2>3, <3>1, PassSlots
    <3> QED
      BY <2>1, <3>1, <3>2 DEF SlotsInv, IsTx
  <2> QED
    BY <1>6, <2>2, <2>3 DEF Pass, Fail
<1>7. CASE UNCHANGED vars
  BY <1>7 DEF vars, SlotsInv, IsTx
<1> QED
  BY <1>1, <1>2, <1>3, <1>4, <1>5, <1>6, <1>7 DEF Next

(* Whatever is signed, edited, read and passed on, the slots hold nothing  *)
(* but signatures that sign() made.                                        *)
THEOREM SlotsInvariant == Spec => []SlotsInv
BY SlotsInvInit, SlotsInvNext, PTL DEF Spec

----------------------------------------------------------------------------
(* Where verify() finds no error, every slot was accepted.                 *)
LEMMA NoErrorAccepts ==
  ASSUME NEW t, t.header.required \in Nat, VerifyError(t) = None,
         NEW i \in 1 .. t.header.required
  PROVE  Accepts(t, i) /\ ~(Len(t.sigs) < t.header.required)
<1> DEFINE checks == [n \in 1 .. t.header.required |->
                        IF t.sigs[n] = Empty THEN <<TRUE, "InvalidSignature">>
                        ELSE <<~Accepts(t, n), "SignatureVerification">>]
           failing == {n \in DOMAIN checks : checks[n][1]}
<1>1. /\ MessageError(t) = None
      /\ ~(t.header.required > Len(t.keys))
      /\ ~(Len(t.sigs) < t.header.required)
      /\ FirstError(checks) = None
  BY NoneAssumption DEF VerifyError
<1>2. failing = {}
  <2> SUFFICES ASSUME failing # {}
               PROVE  FALSE
    OBVIOUS
  <2>1. failing \subseteq 1 .. t.header.required
    OBVIOUS
  <2>2. Min(failing) \in 1 .. t.header.required
    <3> HIDE DEF failing
    <3>1. failing \subseteq Nat
      BY <2>1
    <3> QED
      BY <2>1, <3>1, MinIsMember
  <2>3. checks[Min(failing)][2] \in {"InvalidSignature", "SignatureVerification"}
    BY <2>2
  <2>4. FirstError(checks) = checks[Min(failing)][2]
    BY DEF FirstError
  <2> QED
    BY <1>1, <2>3, <2>4, NoneAssumption
<1>3. ~checks[i][1]
  BY <1>2
<1> QED
  BY <1>1, <1>3

(* A transaction verifies only if every required signer signed the message *)
(* as it is now.                                                           *)
THEOREM VerifiedOnlySigned == Spec => []VerifiedIsSigned
<1>1. SlotsInv => VerifiedIsSigned
  <2> SUFFICES ASSUME SlotsInv, tx # None, VerifyError(tx) = None,
                      NEW i \in 1 .. tx.header.required
               PROVE  Signature(tx, tx.keys[i]) \in made
    BY DEF VerifiedIsSigned
  <2>1. tx.header.required \in Nat /\ tx.sigs \in Seq({Empty, Zeros} \cup made)
    BY DEF SlotsInv
  <2>2. Accepts(tx, i) /\ ~(Len(tx.sigs) < tx.header.required)
    BY <2>1, NoErrorAccepts
  <2>3. tx.sigs[i] \in {Empty, Zeros} \cup made
    BY <2>1, <2>2
  <2> QED
    BY <2>2, <2>3 DEF Accepts
<1> QED
  BY <1>1, SlotsInvariant, PTL

(* No call loses a signature of the message as it is: neither later        *)
(* signers, nor calls that fail, nor the way through bytes.                *)
THEOREM SignaturesAreKept == Spec => SignaturesStay
<1> DEFINE Kept ==
      tx # None =>
        \A i \in 1 .. tx.header.required :
          (i \in DOMAIN tx.sigs /\ Accepts(tx, i) /\ Message(tx') = Message(tx))
            => tx'.sigs[i] = tx.sigs[i]
<1>1. SlotsInv /\ [Next]_vars => [Kept]_vars
  <2> SUFFICES ASSUME SlotsInv, Next, tx # None,
                      NEW i \in DOMAIN tx.sigs, Accepts(tx, i)
               PROVE  tx'.sigs[i] = tx.sigs[i]
    OBVIOUS
  <2>1. /\ tx.header.required \in Nat
        /\ tx.sigs \in Seq({Empty, Zeros} \cup made)
        /\ tx.sigs[i] # Empty
        /\ tx.sigs[i] = Signature(tx, tx.keys[i])
    BY DEF SlotsInv, Accepts
  <2>2. CASE \E payer \in Payer, ixs \in Lists, b \in Blockhash : Formats(payer, ixs, b)
    BY <2>2 DEF Formats, New
  <2>3. CASE \E w \in Foreign : Receive(w)
    BY <2>3 DEF Receive
  <2>4. CASE \E b \in Blockhash : Edit(b)
    BY <2>4, EditKeeps
  <2>5. ASSUME NEW seeds \in Seeds, Sign(seeds)
        PROVE  tx'.sigs[i] = tx.sigs[i]
    <3>1. CASE UNCHANGED <<tx, made>>
      BY <3>1
    <3>2. ASSUME NEW keys, tx' = [tx EXCEPT !.sigs = Filled(tx, keys)]
          PROVE  tx'.sigs[i] = tx.sigs[i]
      <4>1. tx'.sigs = Filled(tx, keys)
        BY <3>2 DEF SlotsInv, IsTx
      <4>2. Filled(tx, keys)[i] \in {tx.sigs[i], Signature(tx, tx.keys[i])}
        BY <2>1, FilledSlots
      <4> QED
        BY <2>1, <4>1, <4>2
    <3> QED
      BY <2>5, <3>1, <3>2, SignWrites
  <2>6. CASE Verify
    BY <2>6 DEF Verify, Fail
  <2>7. CASE Pass
    <3>1. CASE tx' = tx
      BY <3>1
    <3>2. CASE tx' = FromBytes(ToBytes(tx))
      BY <2>1, <3>2, PassSlots
    <3> QED
      BY <2>7, <3>1, <3>2 DEF Pass, Fail
  <2> QED
    BY <2>2, <2>3, <2>4, <2>5, <2>6, <2>7 DEF Next
<1>2. Spec => [][Kept]_vars
  BY <1>1, SlotsInvariant, PTL DEF Spec
<1> QED
  BY <1>2 DEF SignaturesStay

----------------------------------------------------------------------------
(* The order of accounts *)

(* Below a member of a finite set of numbers are fewer than are in it, and *)
(* more than below a lesser member.                                        *)
LEMMA RankGrows ==
  ASSUME NEW S, IsFiniteSet(S), S \subseteq Int
  PROVE  \A k \in S :
           /\ Cardinality({j \in S : j < k}) \in 0 .. Cardinality(S) - 1
           /\ \A i \in S : i < k =>
                Cardinality({j \in S : j < i}) < Cardinality({j \in S : j < k})
<1> TAKE k \in S
<1> DEFINE Below(i) == {j \in S : j < i}
<1>1. \A i \in S : IsFiniteSet(Below(i)) /\ Cardinality(Below(i)) \in Nat
  <2> TAKE i \in S
  <2>1. Below(i) \in SUBSET S
    OBVIOUS
  <2> QED
    BY <2>1, FS_Subset, FS_CardinalityType
<1>2. Cardinality(Below(k)) <= Cardinality(S) - 1
  <2>1. Below(k) \in SUBSET (S \ {k})
    OBVIOUS
  <2>2. IsFiniteSet(S \ {k}) /\ Cardinality(S \ {k}) = Cardinality(S) - 1
    BY FS_RemoveElement
  <2> QED
    BY <2>1, <2>2, FS_Subset
<1>3. ASSUME NEW i \in S, i < k
      PROVE  Cardinality(Below(i)) < Cardinality(Below(k))
  <2>1. Below(i) \cup {i} \in SUBSET Below(k)
    <3> SUFFICES ASSUME NEW j \in Below(i) \cup {i}
                 PROVE  j \in S /\ j < k
      OBVIOUS
    <3>1. i \in Int /\ k \in Int /\ j \in Int /\ j \in S /\ (j = i \/ j < i)
      OBVIOUS
    <3> QED
      BY <1>3, <3>1
  <2>2. i \notin Below(i)
    OBVIOUS
  <2> HIDE DEF Below
  <2>3. /\ IsFiniteSet(Below(i) \cup {i})
        /\ Cardinality(Below(i) \cup {i}) = Cardinality(Below(i)) + 1
    BY <1>1, <2>2, FS_AddElement
  <2>4. Cardinality(Below(i) \cup {i}) <= Cardinality(Below(k))
    BY <1>1, <2>1, FS_Subset
  <2> QED
    BY <1>1, <2>3, <2>4
<1>4. Cardinality(S) \in Nat
  BY FS_CardinalityType
<1> QED
  BY <1>1, <1>2, <1>3, <1>4

(* A class lists its accounts, all of them, each once.                     *)
LEMMA SortedLists ==
  ASSUME NEW S, IsFiniteSet(S), S \subseteq Int
  PROVE  /\ Sorted(S) \in Seq(S)
         /\ Len(Sorted(S)) = Cardinality(S)
         /\ \A k \in S : \E n \in 1 .. Len(Sorted(S)) : Sorted(S)[n] = k
         /\ \A m, n \in 1 .. Len(Sorted(S)) : Sorted(S)[m] = Sorted(S)[n] => m = n
<1> DEFINE N == Cardinality(S)
           Rank(k) == Cardinality({j \in S : j < k})
           f == [k \in S |-> Rank(k) + 1]
<1>1. N \in Nat
  BY FS_CardinalityType
<1>2. \A k \in S : /\ Rank(k) \in 0 .. N - 1
                   /\ \A i \in S : i < k => Rank(i) < Rank(k)
  BY RankGrows
<1> HIDE DEF Rank, N
<1>3. f \in Surjection(S, 1 .. N)
  <2>1. f \in [S -> 1 .. N]
    BY <1>1, <1>2
  <2>2. \A i, k \in S : f[i] = f[k] => i = k
    <3>1. \A i, k \in S : i # k => i < k \/ k < i
      OBVIOUS
    <3>2. \A i, k \in S : i < k => f[i] # f[k] /\ f[k] # f[i]
      BY <1>1, <1>2
    <3> QED
      BY <3>1, <3>2
  <2>3. f \in Injection(S, 1 .. N)
    <3> HIDE DEF f
    <3>1. \A i, k \in DOMAIN f : f[i] = f[k] => i = k
      BY <2>1, <2>2
    <3> QED
      BY <2>1, <3>1 DEF Injection, IsInjective
  <2>4. IsFiniteSet(1 .. N) /\ Cardinality(1 .. N) = Cardinality(S)
    BY <1>1, FS_Interval DEF N
  <2> HIDE DEF f
  <2> QED
    BY <2>3, <2>4, FS_Injection
<1>4. ASSUME NEW n \in 1 .. N
      PROVE  \E k \in S : Rank(k) = n - 1
  <2>1. PICK k \in S : f[k] = n
    <3> HIDE DEF f
    <3> QED
      BY <1>3 DEF Surjection
  <2> QED
    BY <1>1, <1>2, <2>1
<1>5. Sorted(S) = [n \in 1 .. N |-> CHOOSE k \in S : Rank(k) = n - 1]
  BY DEF Sorted, N, Rank
<1>6. \A n \in 1 .. N : Sorted(S)[n] \in S /\ Rank(Sorted(S)[n]) = n - 1
  BY <1>4, <1>5
<1>7. Sorted(S) \in Seq(S) /\ Len(Sorted(S)) = N
  <2>1. Sorted(S) \in [1 .. N -> S]
    BY <1>5, <1>6
  <2> QED
    BY <1>1, <2>1
<1>8. ASSUME NEW k \in S
      PROVE  \E n \in 1 .. N : Sorted(S)[n] = k
  <2>1. Rank(k) + 1 \in 1 .. N
    BY <1>1, <1>2
  <2>2. Rank(Sorted(S)[Rank(k) + 1]) = Rank(k) /\ Sorted(S)[Rank(k) + 1] \in S
    BY <1>1, <1>2, <1>6, <2>1
  <2>3. Sorted(S)[Rank(k) + 1] = k
    <3> DEFINE e == Sorted(S)[Rank(k) + 1]
    <3>1. e \in S /\ Rank(e) = Rank(k) /\ Rank(k) \in Int
      BY <1>1, <1>2, <2>2
    <3> HIDE DEF e
    <3>2. ~(e < k) /\ ~(k < e)
      BY <1>2, <3>1
    <3>3. e \in Int /\ k \in Int
      BY <3>1
    <3>4. e = k
      BY <3>2, <3>3
    <3> QED
      BY <3>4 DEF e
  <2> QED
    BY <2>1, <2>3
<1>9. \A m, n \in 1 .. N : Sorted(S)[m] = Sorted(S)[n] => m = n
  BY <1>1, <1>6
<1> QED
  BY <1>7, <1>8, <1>9 DEF N

(* The accounts of one class.                                              *)
Members(payer, ixs, signer, writable) ==
  {k \in Seen(payer, ixs) \ {payer} :
     /\ IsSigner(payer, ixs, k) = signer
     /\ IsWritable(payer, ixs, k) = writable}

(* A list of the members of a set, each once.                              *)
Enumerates(list, S) ==
  /\ list \in Seq(S)
  /\ \A k \in S : \E n \in 1 .. Len(list) : list[n] = k
  /\ \A m, n \in 1 .. Len(list) : list[m] = list[n] => m = n

LEMMA ClassLists ==
  ASSUME NEW payer \in Payer, NEW ixs \in Lists, NEW signer, NEW writable
  PROVE  Enumerates(Class(payer, ixs, signer, writable),
                    Members(payer, ixs, signer, writable))
<1> DEFINE members == Members(payer, ixs, signer, writable)
<1>1. IsFiniteSet(members) /\ members \subseteq Int
  <2>1. members \in SUBSET Seen(payer, ixs)
    BY DEF Members
  <2>2. IsFiniteSet(Seen(payer, ixs)) /\ Seen(payer, ixs) \subseteq Int
    BY ListsAssumption
  <2> HIDE DEF members
  <2> QED
    BY <2>1, <2>2, FS_Subset
<1>2. Class(payer, ixs, signer, writable) = Sorted(members)
  BY DEF Class, Members
<1> HIDE DEF members
<1>3. Enumerates(Sorted(members), members)
  BY <1>1, SortedLists DEF Enumerates
<1> QED
  BY <1>2, <1>3 DEF members

(* Of two lists, one comes after the other.                                *)
Joined(r, s, t) ==
  /\ Len(r) = Len(s) + Len(t)
  /\ \A i \in 1 .. Len(s) : r[i] = s[i]
  /\ \A i \in 1 .. Len(t) : r[Len(s) + i] = t[i]

LEMMA Join ==
  ASSUME NEW A, NEW s \in Seq(A), NEW t \in Seq(A)
  PROVE  s \o t \in Seq(A) /\ Joined(s \o t, s, t)
BY DEF Joined

(* An account and four lists, one after the other.                         *)
InARow(p, x, a, b, c, d) == p = <<x>> \o a \o b \o c \o d

LEMMA FiveLists ==
  ASSUME NEW A, NEW x \in A, NEW a \in Seq(A), NEW b \in Seq(A), NEW c \in Seq(A),
         NEW d \in Seq(A), NEW p, InARow(p, x, a, b, c, d)
  PROVE  /\ p \in Seq(A)
         /\ Len(p) = 1 + Len(a) + Len(b) + Len(c) + Len(d)
         /\ p[1] = x
         /\ \A i \in 1 .. Len(a) : p[1 + i] = a[i]
         /\ \A i \in 1 .. Len(b) : p[1 + Len(a) + i] = b[i]
         /\ \A i \in 1 .. Len(c) : p[1 + Len(a) + Len(b) + i] = c[i]
         /\ \A i \in 1 .. Len(d) : p[1 + Len(a) + Len(b) + Len(c) + i] = d[i]
<1>1. PICK p1 : p1 = <<x>>
  OBVIOUS
<1>2. PICK p2 : p2 = p1 \o a
  OBVIOUS
<1>3. PICK p3 : p3 = p2 \o b
  OBVIOUS
<1>4. PICK p4 : p4 = p3 \o c
  OBVIOUS
<1>5. p = p4 \o d
  BY <1>1, <1>2, <1>3, <1>4 DEF InARow
<1>6. p1 \in Seq(A) /\ Len(p1) = 1 /\ p1[1] = x
  BY <1>1
<1>7. p2 \in Seq(A) /\ Joined(p2, p1, a)
  BY <1>2, <1>6, Join
<1>8. p3 \in Seq(A) /\ Joined(p3, p2, b)
  BY <1>3, <1>7, Join
<1>9. p4 \in Seq(A) /\ Joined(p4, p3, c)
  BY <1>4, <1>8, Join
<1>10. p \in Seq(A) /\ Joined(p, p4, d)
  BY <1>5, <1>9, Join
<1>11. /\ Len(a) \in Nat /\ Len(b) \in Nat /\ Len(c) \in Nat /\ Len(d) \in Nat
       /\ Len(p2) = 1 + Len(a)
       /\ Len(p3) = 1 + Len(a) + Len(b)
       /\ Len(p4) = 1 + Len(a) + Len(b) + Len(c)
       /\ Len(p) = 1 + Len(a) + Len(b) + Len(c) + Len(d)
  BY <1>6, <1>7, <1>8, <1>9, <1>10 DEF Joined
<1>12. \A i \in 1 .. Len(d) : p[1 + Len(a) + Len(b) + Len(c) + i] = d[i]
  BY <1>10, <1>11 DEF Joined
<1>13. \A i \in 1 .. 1 + Len(a) + Len(b) + Len(c) : p[i] = p4[i]
  BY <1>10, <1>11 DEF Joined
<1>14. /\ \A i \in 1 .. Len(c) : p4[1 + Len(a) + Len(b) + i] = c[i]
       /\ \A i \in 1 .. 1 + Len(a) + Len(b) : p4[i] = p3[i]
  BY <1>9, <1>11 DEF Joined
<1>15. /\ \A i \in 1 .. Len(b) : p3[1 + Len(a) + i] = b[i]
       /\ \A i \in 1 .. 1 + Len(a) : p3[i] = p2[i]
  BY <1>8, <1>11 DEF Joined
<1>16. /\ \A i \in 1 .. Len(a) : p2[1 + i] = a[i]
       /\ p2[1] = x
  BY <1>6, <1>7, <1>11 DEF Joined
<1>17. p[1] = x /\ \A i \in 1 .. Len(a) : p[1 + i] = a[i]
  <2>1. ASSUME NEW n \in 1 .. 1 + Len(a)
        PROVE  p[n] = p2[n]
    <3>1. /\ n \in 1 .. 1 + Len(a) + Len(b)
          /\ n \in 1 .. 1 + Len(a) + Len(b) + Len(c)
      BY <1>11
    <3> QED
      BY <1>13, <1>14, <1>15, <3>1
  <2>2. 1 \in 1 .. 1 + Len(a) /\ \A i \in 1 .. Len(a) : 1 + i \in 1 .. 1 + Len(a)
    BY <1>11
  <2> QED
    BY <1>16, <2>1, <2>2
<1>18. \A i \in 1 .. Len(b) : p[1 + Len(a) + i] = b[i]
  BY <1>11, <1>13, <1>14, <1>15
<1>19. \A i \in 1 .. Len(c) : p[1 + Len(a) + Len(b) + i] = c[i]
  BY <1>11, <1>13, <1>14
<1> QED
  BY <1>10, <1>11, <1>12, <1>17, <1>18, <1>19

(* The accounts of compile_accounts(), by their place: sw signers that     *)
(* write and sr that do not after the fee payer, and so on.                *)
Ordered(keys, payer, ixs, sw, sr, nw, nr) ==
  /\ keys \in Seq(Seen(payer, ixs))
  /\ Len(keys) = 1 + sw + sr + nw + nr
  /\ keys[1] = payer
  /\ \A i \in 1 .. Len(keys) :
       /\ i <= 1 + sw + sr <=> IsSigner(payer, ixs, keys[i])
       /\ (i <= 1 + sw \/ (1 + sw + sr < i /\ i <= 1 + sw + sr + nw)) <=>
            IsWritable(payer, ixs, keys[i])
  /\ \A k \in Seen(payer, ixs) : \E i \in 1 .. Len(keys) : keys[i] = k
  /\ \A i, j \in 1 .. Len(keys) : keys[i] = keys[j] => i = j

LEMMA AccountsOrdered ==
  ASSUME NEW payer \in Payer, NEW ixs \in Lists
  PROVE  \E sw, sr, nw, nr \in Nat :
           /\ Ordered(AccountKeys(payer, ixs), payer, ixs, sw, sr, nw, nr)
           /\ HeaderOf(payer, ixs) = Header(sw, sr, nr)
<1> DEFINE a == Class(payer, ixs, TRUE, TRUE)
           b == Class(payer, ixs, TRUE, FALSE)
           c == Class(payer, ixs, FALSE, TRUE)
           d == Class(payer, ixs, FALSE, FALSE)
           A == Members(payer, ixs, TRUE, TRUE)
           B == Members(payer, ixs, TRUE, FALSE)
           C == Members(payer, ixs, FALSE, TRUE)
           D == Members(payer, ixs, FALSE, FALSE)
           S(k) == IsSigner(payer, ixs, k)
           W(k) == IsWritable(payer, ixs, k)
           all == Seen(payer, ixs)
<1>1. /\ \A k \in A : k \in all /\ k # payer /\ S(k) /\ W(k)
      /\ \A k \in B : k \in all /\ k # payer /\ S(k) /\ ~W(k)
      /\ \A k \in C : k \in all /\ k # payer /\ ~S(k) /\ W(k)
      /\ \A k \in D : k \in all /\ k # payer /\ ~S(k) /\ ~W(k)
  BY DEF Members
<1>2. \A k \in all : k = payer \/ k \in A \/ k \in B \/ k \in C \/ k \in D
  BY DEF Members, IsSigner, IsWritable
<1>3. S(payer) /\ W(payer) /\ payer \in all
  BY DEF IsSigner, IsWritable, Seen
<1>4. /\ Enumerates(a, A) /\ Enumerates(b, B)
      /\ Enumerates(c, C) /\ Enumerates(d, D)
  BY ClassLists
<1>5. /\ AccountKeys(payer, ixs) = <<payer>> \o a \o b \o c \o d
      /\ HeaderOf(payer, ixs) = Header(Len(a), Len(b), Len(d))
  BY DEF AccountKeys, HeaderOf
<1>6. PICK p5 : p5 = <<payer>> \o a \o b \o c \o d
  OBVIOUS
<1> HIDE DEF a, b, c, d, A, B, C, D, S, W, all
<1>7. PICK sw, sr, nw, nr :
        sw = Len(a) /\ sr = Len(b) /\ nw = Len(c) /\ nr = Len(d)
  OBVIOUS
<1>8. sw \in Nat /\ sr \in Nat /\ nw \in Nat /\ nr \in Nat
  BY <1>4, <1>7 DEF Enumerates
<1>9. a \in Seq(all) /\ b \in Seq(all) /\ c \in Seq(all) /\ d \in Seq(all)
  BY <1>1, <1>4 DEF Enumerates
<1>10. /\ \A i \in 1 .. sw : a[i] \in A
       /\ \A i \in 1 .. sr : b[i] \in B
       /\ \A i \in 1 .. nw : c[i] \in C
       /\ \A i \in 1 .. nr : d[i] \in D
  BY <1>4, <1>7 DEF Enumerates
<1>11. /\ p5 \in Seq(all) /\ Len(p5) = 1 + sw + sr + nw + nr
       /\ p5[1] = payer
       /\ \A i \in 1 .. sw : p5[1 + i] = a[i]
       /\ \A i \in 1 .. sr : p5[1 + sw + i] = b[i]
       /\ \A i \in 1 .. nw : p5[1 + sw + sr + i] = c[i]
       /\ \A i \in 1 .. nr : p5[1 + sw + sr + nw + i] = d[i]
  <2>1. /\ p5 \in Seq(all)
        /\ Len(p5) = 1 + Len(a) + Len(b) + Len(c) + Len(d)
        /\ p5[1] = payer
        /\ \A i \in 1 .. Len(a) : p5[1 + i] = a[i]
        /\ \A i \in 1 .. Len(b) : p5[1 + Len(a) + i] = b[i]
        /\ \A i \in 1 .. Len(c) : p5[1 + Len(a) + Len(b) + i] = c[i]
        /\ \A i \in 1 .. Len(d) : p5[1 + Len(a) + Len(b) + Len(c) + i] = d[i]
    <3>1. payer \in all /\ InARow(p5, payer, a, b, c, d)
      BY <1>3, <1>6 DEF InARow
    <3> QED
      BY <1>9, <3>1, FiveLists
  <2> QED
    BY <1>7, <2>1
<1>12. AccountKeys(payer, ixs) = p5 /\ HeaderOf(payer, ixs) = Header(sw, sr, nr)
  BY <1>5, <1>6, <1>7
<1>13. ASSUME NEW i \in 1 .. Len(p5)
       PROVE  \/ i = 1 /\ p5[i] = payer
              \/ \E n \in 1 .. sw : i = 1 + n /\ p5[i] = a[n] /\ p5[i] \in A
              \/ \E n \in 1 .. sr : i = 1 + sw + n /\ p5[i] = b[n] /\ p5[i] \in B
              \/ \E n \in 1 .. nw : i = 1 + sw + sr + n /\ p5[i] = c[n] /\ p5[i] \in C
              \/ \E n \in 1 .. nr :
                   i = 1 + sw + sr + nw + n /\ p5[i] = d[n] /\ p5[i] \in D
  <2>1. \/ i = 1
        \/ \E n \in 1 .. sw : i = 1 + n
        \/ \E n \in 1 .. sr : i = 1 + sw + n
        \/ \E n \in 1 .. nw : i = 1 + sw + sr + n
        \/ \E n \in 1 .. nr : i = 1 + sw + sr + nw + n
    <3>1. PICK m \in Int : m = 1 + sw + sr + nw + nr /\ i \in 1 .. m
      BY <1>8, <1>11
    <3>2. CASE i <= 1 + sw
      <4>1. i = 1 \/ (i - 1 \in 1 .. sw /\ i = 1 + (i - 1))
        BY <1>8, <3>1, <3>2
      <4> QED
        BY <4>1
    <3>3. CASE 1 + sw < i /\ i <= 1 + sw + sr
      <4>1. i - (1 + sw) \in 1 .. sr /\ i = 1 + sw + (i - (1 + sw))
        BY <1>8, <3>1, <3>3
      <4> QED
        BY <4>1
    <3>4. CASE 1 + sw + sr < i /\ i <= 1 + sw + sr + nw
      <4>1. /\ i - (1 + sw + sr) \in 1 .. nw
            /\ i = 1 + sw + sr + (i - (1 + sw + sr))
        BY <1>8, <3>1, <3>4
      <4> QED
        BY <4>1
    <3>5. CASE 1 + sw + sr + nw < i
      <4>1. /\ i - (1 + sw + sr + nw) \in 1 .. nr
            /\ i = 1 + sw + sr + nw + (i - (1 + sw + sr + nw))
        BY <1>8, <3>1, <3>5
      <4> QED
        BY <4>1
    <3> QED
      BY <1>8, <3>1, <3>2, <3>3, <3>4, <3>5
  <2> QED
    BY <1>10, <1>11, <2>1
<1>14. ASSUME NEW i \in 1 .. Len(p5)
       PROVE  /\ i <= 1 + sw + sr <=> S(p5[i])
              /\ (i <= 1 + sw \/ (1 + sw + sr < i /\ i <= 1 + sw + sr + nw)) <=> W(p5[i])
  <2>1. CASE i = 1 /\ p5[i] = payer
    BY <1>3, <1>8, <2>1
  <2>2. CASE \E n \in 1 .. sw : i = 1 + n /\ p5[i] \in A
    BY <1>1, <1>8, <2>2
  <2>3. CASE \E n \in 1 .. sr : i = 1 + sw + n /\ p5[i] \in B
    BY <1>1, <1>8, <2>3
  <2>4. CASE \E n \in 1 .. nw : i = 1 + sw + sr + n /\ p5[i] \in C
    BY <1>1, <1>8, <2>4
  <2>5. CASE \E n \in 1 .. nr : i = 1 + sw + sr + nw + n /\ p5[i] \in D
    BY <1>1, <1>8, <2>5
  <2> QED
    BY <1>13, <2>1, <2>2, <2>3, <2>4, <2>5
<1>15. /\ \A k \in A : k # payer /\ k \notin B /\ k \notin C /\ k \notin D
       /\ \A k \in B : k # payer /\ k \notin C /\ k \notin D
       /\ \A k \in C : k # payer /\ k \notin D
       /\ \A k \in D : k # payer
  BY <1>1
<1>16. /\ \A m, n \in 1 .. sw : a[m] = a[n] => m = n
       /\ \A m, n \in 1 .. sr : b[m] = b[n] => m = n
       /\ \A m, n \in 1 .. nw : c[m] = c[n] => m = n
       /\ \A m, n \in 1 .. nr : d[m] = d[n] => m = n
  BY <1>4, <1>7 DEF Enumerates
<1>17. ASSUME NEW i \in 1 .. Len(p5), NEW j \in 1 .. Len(p5), p5[i] = p5[j]
       PROVE  i = j
  <2>1. CASE p5[i] = payer
    BY <1>13, <1>15, <1>17, <2>1
  <2>2. CASE p5[i] \in A
    BY <1>13, <1>15, <1>16, <1>17, <2>2
  <2>3. CASE p5[i] \in B
    BY <1>13, <1>15, <1>16, <1>17, <2>3
  <2>4. CASE p5[i] \in C
    BY <1>13, <1>15, <1>16, <1>17, <2>4
  <2>5. CASE p5[i] \in D
    BY <1>13, <1>15, <1>16, <1>17, <2>5
  <2> QED
    BY <1>13, <2>1, <2>2, <2>3, <2>4, <2>5
<1>18. ASSUME NEW k \in all
       PROVE  \E i \in 1 .. Len(p5) : p5[i] = k
  <2>1. CASE k = payer
    BY <1>8, <1>11, <2>1
  <2>2. CASE k \in A
    <3>1. PICK n \in 1 .. sw : a[n] = k
      BY <1>4, <1>7, <2>2 DEF Enumerates
    <3>2. p5[1 + n] = k
      BY <1>11, <3>1
    <3>3. 1 + n \in 1 .. Len(p5)
      BY <1>8, <1>11
    <3> QED
      BY <3>2, <3>3
  <2>3. CASE k \in B
    <3>1. PICK n \in 1 .. sr : b[n] = k
      BY <1>4, <1>7, <2>3 DEF Enumerates
    <3>2. p5[1 + sw + n] = k
      BY <1>11, <3>1
    <3>3. 1 + sw + n \in 1 .. Len(p5)
      BY <1>8, <1>11
    <3> QED
      BY <3>2, <3>3
  <2>4. CASE k \in C
    <3>1. PICK n \in 1 .. nw : c[n] = k
      BY <1>4, <1>7, <2>4 DEF Enumerates
    <3>2. p5[1 + sw + sr + n] = k
      BY <1>11, <3>1
    <3>3. 1 + sw + sr + n \in 1 .. Len(p5)
      BY <1>8, <1>11
    <3> QED
      BY <3>2, <3>3
  <2>5. CASE k \in D
    <3>1. PICK n \in 1 .. nr : d[n] = k
      BY <1>4, <1>7, <2>5 DEF Enumerates
    <3>2. p5[1 + sw + sr + nw + n] = k
      BY <1>11, <3>1
    <3>3. 1 + sw + sr + nw + n \in 1 .. Len(p5)
      BY <1>8, <1>11
    <3> QED
      BY <3>2, <3>3
  <2> QED
    BY <1>2, <2>1, <2>2, <2>3, <2>4, <2>5
<1>19. Ordered(p5, payer, ixs, sw, sr, nw, nr)
  BY <1>11, <1>14, <1>17, <1>18 DEF Ordered, S, W, all
<1> QED
  BY <1>8, <1>12, <1>19

----------------------------------------------------------------------------
(* What a step does to the transaction *)

(* The message but for its blockhash and config, and the number of slots.  *)
SameParts(t, u) ==
  /\ u.format = t.format /\ u.header = t.header /\ u.keys = t.keys
  /\ u.ixs = t.ixs /\ u.lookups = t.lookups
  /\ DOMAIN u.sigs = DOMAIN t.sigs

ConfigOk(config) ==
  /\ config = [r \in DOMAIN config |-> config[r]]
  /\ DOMAIN config \subseteq {Requests[n] : n \in 1 .. 4}

Built(t, payer, ixs) ==
  \E format, b, lookups, config :
    /\ format \in {"legacy", "v0", "v1"}
    /\ t = NewTx(format, payer, ixs, b, lookups, config)
    /\ NewError(t) = None
    /\ lookups \in Seq([writable : Nat, readonly : Nat])
    /\ ConfigOk(config)

LEMMA SelectedOk ==
  ASSUME NEW mask
  PROVE  LET P == {n \in 1 .. 4 : BitsOf[n] \subseteq mask}
             s == Selected(mask)
         IN  /\ \A m \in DOMAIN s : s[m] \in P
             /\ \A n \in P : \E m \in DOMAIN s : s[m] = n
<1> DEFINE P == {n \in 1 .. 4 : BitsOf[n] \subseteq mask}
<1>1. IsFiniteSet(1 .. 4)
  <2>1. 1 \in Int /\ 4 \in Int
    OBVIOUS
  <2> QED
    BY <2>1, FS_Interval, Zenon
<1>2. P \in SUBSET (1 .. 4) /\ P \subseteq Int
  OBVIOUS
<1>3. Selected(mask) = Sorted(P)
  BY DEF Selected
<1> HIDE DEF P
<1>4. /\ Sorted(P) \in Seq(P)
      /\ \A k \in P : \E n \in 1 .. Len(Sorted(P)) : Sorted(P)[n] = k
  <2>1. IsFiniteSet(P)
    BY <1>1, <1>2, FS_Subset
  <2> QED
    BY <1>2, <2>1, SortedLists, Zenon
<1>5. DOMAIN Sorted(P) = 1 .. Len(Sorted(P))
  <2>1. PICK list : list = Sorted(P)
    OBVIOUS
  <2>2. list \in Seq(P)
    BY <1>4, <2>1, Zenon
  <2>3. DOMAIN list = 1 .. Len(list)
    BY <2>2, LenProperties, Zenon
  <2> QED
    BY <2>1, <2>3, Zenon
<1>6. \A m \in DOMAIN Sorted(P) : Sorted(P)[m] \in P
  <2>1. PICK list : list = Sorted(P)
    OBVIOUS
  <2>2. list \in Seq(P)
    BY <1>4, <2>1, Zenon
  <2>3. \A m \in DOMAIN list : list[m] \in P
    BY <2>2
  <2> QED
    BY <2>1, <2>3, Zenon
<1> QED
  BY <1>3, <1>4, <1>5, <1>6 DEF P

LEMMA ReadConfigOk ==
  ASSUME NEW mask, NEW values
  PROVE  ConfigOk(ReadValues(mask, values))
<1> DEFINE s == Selected(mask)
           At(r) == CHOOSE m \in DOMAIN s : Requests[s[m]] = r
           D == {Requests[s[m]] : m \in DOMAIN s}
<1>1. ReadValues(mask, values) = [r \in D |-> values[At(r)]]
  BY DEF ReadValues
<1>2. D \subseteq {Requests[n] : n \in 1 .. 4}
  BY SelectedOk
<1> HIDE DEF D, At
<1> QED
  BY <1>1, <1>2 DEF ConfigOk

LEMMA Steps ==
  ASSUME SlotsInv, [Next]_vars
  PROVE  \/ UNCHANGED <<tx, draft>>
         \/ /\ tx = None
            /\ \E payer \in Payer, ixs \in Lists :
                 Built(tx', payer, ixs) /\ draft' = [payer |-> payer, ixs |-> ixs]
         \/ /\ tx = None /\ draft' = draft
            /\ \E w \in Foreign : FromBytesError(w) = None /\ tx' = FromBytes(w)
         \/ /\ tx # None /\ draft' = draft
            /\ IsTx(tx') /\ SameParts(tx, tx')
            /\ tx'.config = tx.config \/ ConfigOk(tx'.config)
<1>1. ASSUME NEW payer \in Payer, NEW ixs \in Lists, NEW b, Formats(payer, ixs, b)
      PROVE  \/ UNCHANGED <<tx, draft>>
             \/ /\ tx = None
                /\ Built(tx', payer, ixs) /\ draft' = [payer |-> payer, ixs |-> ixs]
  <2>1. <<>> \in Seq([writable : Nat, readonly : Nat]) /\ ConfigOk(<<>>)
    BY DEF ConfigOk
  <2> DEFINE Found(format, lookups, config) ==
               /\ New(format, payer, ixs, b, lookups, config)
               /\ lookups \in Seq([writable : Nat, readonly : Nat])
               /\ ConfigOk(config)
  <2>2. PICK format \in {"legacy", "v0", "v1"} :
          \E lookups, config : Found(format, lookups, config)
    BY <1>1, <2>1, TablesAssumption, ConfigsAssumption DEF Formats, ConfigOk
  <2>3. PICK lookups, config : Found(format, lookups, config)
    BY <2>2
  <2> DEFINE t == NewTx(format, payer, ixs, b, lookups, config)
  <2>4. CASE NewError(t) # None
    BY <2>3, <2>4 DEF New, Fail
  <2>5. CASE NewError(t) = None
    <3>1. tx = None /\ tx' = t /\ draft' = [payer |-> payer, ixs |-> ixs]
      BY <2>3, <2>5 DEF New
    <3>2. Built(t, payer, ixs)
      BY <2>3, <2>5 DEF Built
    <3> QED
      BY <3>1, <3>2
  <2> QED
    BY <2>4, <2>5
<1>2. ASSUME NEW w \in Foreign, Receive(w)
      PROVE  \/ UNCHANGED <<tx, draft>>
             \/ /\ tx = None /\ draft' = draft
                /\ FromBytesError(w) = None /\ tx' = FromBytes(w)
  BY <1>2 DEF Receive, Fail
<1>3. ASSUME tx # None
      PROVE  \E f, h, k, b, x, l, c, s :
        tx = [format |-> f, header |-> h, keys |-> k, blockhash |-> b, ixs |-> x,
              lookups |-> l, config |-> c, sigs |-> s]
  BY <1>3 DEF SlotsInv, IsTx
<1>4. ASSUME NEW b, Edit(b)
      PROVE  /\ tx # None /\ draft' = draft
             /\ IsTx(tx') /\ SameParts(tx, tx')
             /\ tx'.config = tx.config
  <2>1. tx # None /\ draft' = draft /\ tx' = [tx EXCEPT !.blockhash = b]
    BY <1>4 DEF Edit
  <2>2. PICK f, h, k, d, x, l, c, s :
        tx = [format |-> f, header |-> h, keys |-> k, blockhash |-> d, ixs |-> x,
              lookups |-> l, config |-> c, sigs |-> s]
    BY <1>3, <2>1
  <2>3. tx' = [format |-> f, header |-> h, keys |-> k, blockhash |-> b, ixs |-> x,
               lookups |-> l, config |-> c, sigs |-> s]
    BY <2>1, <2>2
  <2> QED
    BY <2>1, <2>2, <2>3 DEF SameParts, IsTx
<1>5. ASSUME NEW seeds, Sign(seeds)
      PROVE  \/ UNCHANGED <<tx, draft>>
             \/ /\ tx # None /\ draft' = draft
                /\ IsTx(tx') /\ SameParts(tx, tx')
                /\ tx'.config = tx.config
  <2>1. tx # None /\ draft' = draft
    BY <1>5 DEF Sign, Fail
  <2>2. CASE UNCHANGED tx
    BY <2>1, <2>2
  <2>3. ASSUME NEW keys, tx' = [tx EXCEPT !.sigs = Filled(tx, keys)]
        PROVE  IsTx(tx') /\ SameParts(tx, tx') /\ tx'.config = tx.config
    <3>1. PICK f, h, k, d, x, l, c, s :
          tx = [format |-> f, header |-> h, keys |-> k, blockhash |-> d, ixs |-> x,
                lookups |-> l, config |-> c, sigs |-> s]
      BY <1>3, <2>1
    <3>2. tx' = [format |-> f, header |-> h, keys |-> k, blockhash |-> d, ixs |-> x,
                 lookups |-> l, config |-> c, sigs |-> Filled(tx, keys)]
      BY <2>3, <3>1
    <3>3. DOMAIN Filled(tx, keys) = DOMAIN tx.sigs
      BY DEF Filled
    <3> QED
      BY <3>1, <3>2, <3>3 DEF SameParts, IsTx
  <2> QED
    BY <1>5, <2>1, <2>2, <2>3, SignWrites
<1>6. ASSUME Pass
      PROVE  \/ UNCHANGED <<tx, draft>>
             \/ /\ tx # None /\ draft' = draft
                /\ IsTx(tx') /\ SameParts(tx, tx')
                /\ ConfigOk(tx'.config)
  <2>1. CASE UNCHANGED <<tx, draft>>
    BY <2>1
  <2>2. CASE tx # None /\ tx' = FromBytes(ToBytes(tx)) /\ draft' = draft
    <3>1. /\ tx'.format = ToBytes(tx).format /\ tx'.header = ToBytes(tx).header
          /\ tx'.keys = ToBytes(tx).keys /\ tx'.ixs = ToBytes(tx).ixs
          /\ tx'.lookups = ToBytes(tx).lookups /\ tx'.sigs = ToBytes(tx).sigs
          /\ tx'.config = ReadValues(ToBytes(tx).mask, ToBytes(tx).values)
      BY <2>2 DEF FromBytes
    <3>2. /\ tx.format = ToBytes(tx).format /\ tx.header = ToBytes(tx).header
          /\ tx.keys = ToBytes(tx).keys /\ tx.ixs = ToBytes(tx).ixs
          /\ tx.lookups = ToBytes(tx).lookups
          /\ DOMAIN tx.sigs = DOMAIN ToBytes(tx).sigs
      BY DEF ToBytes
    <3> QED
      BY <2>2, <3>1, <3>2, ReadConfigOk, ReadSlots DEF SameParts
  <2> QED
    BY <1>6, <2>1, <2>2 DEF Pass, Fail
<1>7. CASE Verify \/ UNCHANGED vars
  BY <1>7 DEF Verify, Fail, vars
<1> QED
  BY <1>1, <1>2, <1>4, <1>5, <1>6, <1>7 DEF Next

----------------------------------------------------------------------------
(* The rights of accounts *)

(* Fewer than n accounts sign.                                             *)
SignersBelow(n) ==
  \A payer \in Payer, ixs \in Lists :
    Cardinality({k \in Seen(payer, ixs) : IsSigner(payer, ixs, k)}) < n

LEMMA SignersFit ==
  ASSUME NEW limit \in Nat, SignersBelow(limit),
         NEW payer \in Payer, NEW ixs \in Lists, NEW keys,
         NEW sw \in Nat, NEW sr \in Nat, NEW nw \in Nat, NEW nr \in Nat,
         Ordered(keys, payer, ixs, sw, sr, nw, nr)
  PROVE  1 + sw + sr < limit
<1> DEFINE signers == {k \in Seen(payer, ixs) : IsSigner(payer, ixs, k)}
           f == [i \in 1 .. 1 + sw + sr |-> keys[i]]
<1>1. IsFiniteSet(signers) /\ Cardinality(signers) \in Nat
  <2>1. IsFiniteSet(Seen(payer, ixs)) /\ signers \in SUBSET Seen(payer, ixs)
    BY ListsAssumption
  <2> HIDE DEF signers
  <2> QED
    BY <2>1, FS_Subset, FS_CardinalityType
<1>2. Cardinality(signers) < limit
  BY DEF SignersBelow
<1>3. \A i \in 1 .. 1 + sw + sr : i \in 1 .. Len(keys) /\ i <= 1 + sw + sr
  BY DEF Ordered
<1>4. \A i \in 1 .. 1 + sw + sr : keys[i] \in signers
  BY <1>3 DEF Ordered
<1>5. \A i, j \in 1 .. 1 + sw + sr : keys[i] = keys[j] => i = j
  BY <1>3 DEF Ordered
<1> HIDE DEF signers
<1>6. f \in [1 .. 1 + sw + sr -> signers] /\ \A i, j \in DOMAIN f : f[i] = f[j] => i = j
  BY <1>4, <1>5
<1> HIDE DEF f
<1>7. f \in Injection(1 .. 1 + sw + sr, signers)
  BY <1>6 DEF Injection, IsInjective
<1>8. Cardinality(1 .. 1 + sw + sr) <= Cardinality(signers)
  BY <1>1, <1>7, FS_Injection
<1>9. Cardinality(1 .. 1 + sw + sr) = 1 + sw + sr
  BY FS_Interval
<1> QED
  BY <1>1, <1>2, <1>8, <1>9

(* What is compiled tells the way back: the index of a key leads to it.    *)
LEMMA IndexLeads ==
  ASSUME NEW keys, NEW k, NEW n \in Nat, DOMAIN keys = 1 .. n,
         \E i \in 1 .. n : keys[i] = k
  PROVE  /\ IndexOf(keys, k) \in 0 .. n - 1
         /\ keys[IndexOf(keys, k) + 1] = k
<1> DEFINE i == CHOOSE i \in DOMAIN keys : keys[i] = k
<1>1. i \in 1 .. n /\ keys[i] = k
  OBVIOUS
<1>2. IndexOf(keys, k) = i - 1
  BY DEF IndexOf
<1> HIDE DEF i
<1>3. i - 1 \in 0 .. n - 1 /\ (i - 1) + 1 = i
  BY <1>1
<1> QED
  BY <1>1, <1>2, <1>3

(* A transaction as it was compiled.                                       *)
Drafted(t, payer, ixs) ==
  /\ t.keys = AccountKeys(payer, ixs)
  /\ t.header = HeaderOf(payer, ixs)
  /\ t.ixs = Compiled(AccountKeys(payer, ixs), ixs)
  /\ ~(Len(t.keys) > MaxKeys)

DraftInv ==
  /\ tx = None => draft = None
  /\ draft # None =>
       \E payer \in Payer, ixs \in Lists :
         draft = [payer |-> payer, ixs |-> ixs] /\ Drafted(tx, payer, ixs)

LEMMA SeenOf ==
  ASSUME NEW payer, NEW ixs, NEW m \in DOMAIN ixs
  PROVE  /\ ixs[m].program \in Seen(payer, ixs)
         /\ \A a \in DOMAIN ixs[m].accounts : ixs[m].accounts[a].key \in Seen(payer, ixs)
<1>1. \A a \in DOMAIN ixs[m].accounts : ixs[m].accounts[a] \in Metas(ixs)
  BY DEF Metas
<1> QED
  BY <1>1 DEF Seen

LEMMA CompiledParts ==
  ASSUME NEW keys, NEW ixs
  PROVE  /\ DOMAIN Compiled(keys, ixs) = DOMAIN ixs
         /\ \A m \in DOMAIN ixs :
              LET ix == Compiled(keys, ixs)[m] IN
              /\ ix.program = IndexOf(keys, ixs[m].program)
              /\ DOMAIN ix.accounts = DOMAIN ixs[m].accounts
              /\ \A a \in DOMAIN ixs[m].accounts :
                   ix.accounts[a] = IndexOf(keys, ixs[m].accounts[a].key)
BY DEF Compiled, Instruction

(* RightsKept, of a transaction and of what it was compiled from.          *)
RightsOf(t, payer, ixs) ==
  LET n == Len(t.keys) IN
  /\ t.keys[1] = payer
  /\ {t.keys[i] : i \in 1 .. n} = Seen(payer, ixs)
  /\ \A i \in 1 .. n :
       /\ \A j \in 1 .. n : t.keys[i] = t.keys[j] => i = j
       /\ SignerAt(t.header, i - 1) <=> IsSigner(payer, ixs, t.keys[i])
       /\ WritableAt(t.header, n, i - 1) <=> IsWritable(payer, ixs, t.keys[i])
  /\ \A m \in DOMAIN ixs :
       /\ t.keys[t.ixs[m].program + 1] = ixs[m].program
       /\ [a \in DOMAIN ixs[m].accounts |-> t.keys[t.ixs[m].accounts[a] + 1]]
            = [a \in DOMAIN ixs[m].accounts |-> ixs[m].accounts[a].key]

LEMMA DraftKeepsRights ==
  ASSUME SignersBelow(256), NEW payer \in Payer, NEW ixs \in Lists,
         draft = [payer |-> payer, ixs |-> ixs], Drafted(tx, payer, ixs)
  PROVE  RightsKept
<1>1. PICK sw \in Nat, sr \in Nat, nw \in Nat, nr \in Nat :
        /\ Ordered(tx.keys, payer, ixs, sw, sr, nw, nr)
        /\ tx.header = Header(sw, sr, nr)
  BY AccountsOrdered DEF Drafted
<1> DEFINE n == Len(tx.keys)
           keys == tx.keys
<1>2. /\ n = 1 + sw + sr + nw + nr
      /\ keys \in Seq(Seen(payer, ixs))
      /\ keys[1] = payer
      /\ \A i \in 1 .. n :
           /\ i <= 1 + sw + sr <=> IsSigner(payer, ixs, keys[i])
           /\ (i <= 1 + sw \/ (1 + sw + sr < i /\ i <= 1 + sw + sr + nw)) <=>
                IsWritable(payer, ixs, keys[i])
      /\ \A k \in Seen(payer, ixs) : \E i \in 1 .. n : keys[i] = k
      /\ \A i, j \in 1 .. n : keys[i] = keys[j] => i = j
  BY <1>1 DEF Ordered
<1>3. DOMAIN keys = 1 .. n /\ n \in Nat
  BY <1>2
<1>4. 1 + sw + sr < 256
  BY <1>1, SignersFit
<1>5. n <= MaxKeys
  BY <1>3 DEF Drafted, MaxKeys
<1>6. tx.ixs = Compiled(keys, ixs)
  BY DEF Drafted
<1>7. tx.header = Header(sw, sr, nr)
  BY <1>1
<1> HIDE DEF n, keys
<1>8. \A i \in 0 .. n - 1 :
        /\ SignerAt(tx.header, i) <=> i < 1 + sw + sr
        /\ WritableAt(tx.header, n, i) <=>
             (i < 1 + sw \/ (1 + sw + sr <= i /\ i < 1 + sw + sr + nw))
  <2>1. HeaderDecodes(sw, sr, nw, nr)
    BY <1>2, <1>5, HeaderRights
  <2> QED
    BY <1>2, <1>4, <1>7, <2>1 DEF HeaderDecodes
<1>9. ASSUME NEW i \in 1 .. n
      PROVE  /\ SignerAt(tx.header, i - 1) <=> IsSigner(payer, ixs, keys[i])
             /\ WritableAt(tx.header, n, i - 1) <=> IsWritable(payer, ixs, keys[i])
  <2>1. /\ i - 1 \in 0 .. n - 1
        /\ i - 1 < 1 + sw + sr <=> i <= 1 + sw + sr
        /\ i - 1 < 1 + sw <=> i <= 1 + sw
        /\ 1 + sw + sr <= i - 1 <=> 1 + sw + sr < i
        /\ i - 1 < 1 + sw + sr + nw <=> i <= 1 + sw + sr + nw
    BY <1>3
  <2> QED
    BY <1>2, <1>8, <2>1
<1>10. {keys[i] : i \in 1 .. n} = Seen(payer, ixs)
  BY <1>2, <1>3
<1>11. \A k \in Seen(payer, ixs) : keys[IndexOf(keys, k) + 1] = k
  BY <1>2, <1>3, IndexLeads
<1>12. ASSUME NEW m \in DOMAIN ixs
       PROVE  /\ keys[tx.ixs[m].program + 1] = ixs[m].program
              /\ [a \in DOMAIN ixs[m].accounts |-> keys[tx.ixs[m].accounts[a] + 1]]
                   = [a \in DOMAIN ixs[m].accounts |-> ixs[m].accounts[a].key]
  BY <1>6, <1>11, SeenOf, CompiledParts
<1>13. draft.payer = payer /\ draft.ixs = ixs
  OBVIOUS
<1>14. \A i \in 1 .. n :
         /\ \A j \in 1 .. n : keys[i] = keys[j] => i = j
         /\ SignerAt(tx.header, i - 1) <=> IsSigner(payer, ixs, keys[i])
         /\ WritableAt(tx.header, n, i - 1) <=> IsWritable(payer, ixs, keys[i])
  BY <1>2, <1>9
<1>15. \A m \in DOMAIN ixs :
         /\ keys[tx.ixs[m].program + 1] = ixs[m].program
         /\ [a \in DOMAIN ixs[m].accounts |-> keys[tx.ixs[m].accounts[a] + 1]]
              = [a \in DOMAIN ixs[m].accounts |-> ixs[m].accounts[a].key]
  BY <1>12
<1>16. keys[1] = payer
  BY <1>2
<1>17. RightsOf(tx, payer, ixs)
  BY <1>10, <1>14, <1>15, <1>16 DEF RightsOf, n, keys
<1>18. RightsOf(tx, draft.payer, draft.ixs)
  BY <1>13, <1>17
<1> QED
  BY <1>18, Zenon DEF RightsKept, RightsOf

LEMMA DraftInvStep ==
  ASSUME ~IsTx(None), SlotsInv, DraftInv, [Next]_vars
  PROVE  DraftInv'
<1>1. CASE UNCHANGED <<tx, draft>>
  BY <1>1 DEF DraftInv, Drafted
<1>2. ASSUME NEW payer \in Payer, NEW ixs \in Lists,
             Built(tx', payer, ixs), draft' = [payer |-> payer, ixs |-> ixs]
      PROVE  DraftInv'
  <2>1. PICK format, b, lookups, config :
          LET t == NewTx(format, payer, ixs, b, lookups, config)
          IN  tx' = t /\ NewError(t) = None
    BY <1>2 DEF Built
  <2> DEFINE t == NewTx(format, payer, ixs, b, lookups, config)
  <2>2. IsTx(t)
    BY NewSlots
  <2>3. /\ t.keys = AccountKeys(payer, ixs)
        /\ t.header = HeaderOf(payer, ixs)
        /\ t.ixs = Compiled(AccountKeys(payer, ixs), ixs)
    BY DEF NewTx
  <2>4. ~(Len(t.keys) > MaxKeys)
    BY <2>1, NoneAssumption DEF NewError
  <2> HIDE DEF t
  <2>5. tx' = t
    BY <2>1 DEF t
  <2>6. tx' # None
    BY <2>2, <2>5
  <2>7. Drafted(tx', payer, ixs)
    BY <2>3, <2>4, <2>5 DEF Drafted
  <2> QED
    BY <1>2, <2>6, <2>7 DEF DraftInv, Drafted
<1>3. ASSUME NEW w, tx = None, draft' = draft, tx' = FromBytes(w)
      PROVE  DraftInv'
  BY <1>3 DEF DraftInv
<1>4. ASSUME tx # None, draft' = draft, IsTx(tx'), SameParts(tx, tx')
      PROVE  DraftInv'
  <2>1. tx' # None
    BY <1>4
  <2>2. ASSUME NEW payer \in Payer, NEW ixs \in Lists, Drafted(tx, payer, ixs)
        PROVE  Drafted(tx', payer, ixs)
    BY <1>4, <2>2 DEF Drafted, SameParts
  <2> QED
    BY <1>4, <2>1, <2>2 DEF DraftInv, Drafted
<1> QED
  BY <1>1, <1>2, <1>3, <1>4, Steps

(* A transaction that was compiled for instructions which fewer than 256   *)
(* accounts sign gives every account the rights they ask for, whatever is  *)
(* signed, edited or sent through bytes since. 256 signers would be        *)
(* counted as none: the header holds the count as a byte.                  *)
THEOREM RightsAreKept ==
  ASSUME ~IsTx(None), SignersBelow(256)
  PROVE  Spec => []RightsKept
<1>1. Init => DraftInv
  BY DEF Init, DraftInv
<1>2. SlotsInv /\ DraftInv /\ [Next]_vars => DraftInv'
  BY DraftInvStep
<1>3. DraftInv => RightsKept
  <2>1. CASE draft = None
    BY <2>1 DEF RightsKept
  <2>2. CASE draft # None
    BY <2>2, DraftKeepsRights DEF DraftInv
  <2> QED
    BY <2>1, <2>2
<1> QED
  BY <1>1, <1>2, <1>3, SlotsInvariant, PTL DEF Spec

----------------------------------------------------------------------------
(* The way through bytes *)

(* Where every check that fails has an error, there is none if and only if *)
(* no check fails.                                                         *)
LEMMA NoFirstError ==
  ASSUME NEW n \in Nat, NEW checks, DOMAIN checks = 1 .. n,
         \A i \in 1 .. n : checks[i][1] => checks[i][2] # None
  PROVE  FirstError(checks) = None <=> \A i \in 1 .. n : ~checks[i][1]
<1> DEFINE failing == {i \in DOMAIN checks : checks[i][1]}
<1>1. FirstError(checks) = IF failing = {} THEN None ELSE checks[Min(failing)][2]
  BY DEF FirstError
<1>2. failing \subseteq Nat
  OBVIOUS
<1>3. failing # {} => Min(failing) \in failing
  <2> HIDE DEF failing
  <2> QED
    BY <1>2, MinIsMember
<1>4. CASE failing = {}
  BY <1>1, <1>4
<1>5. CASE failing # {}
  BY <1>1, <1>3, <1>5
<1> QED
  BY <1>4, <1>5

(* V1Error() finds nothing. *)
V1Good(h, keys, ixs, config) ==
  /\ ~(h.required > 12 \/ Len(ixs) > 64 \/ Len(keys) > 64)
  /\ ~(Len(keys) < h.required + h.ro_unsigned \/ h.ro_signed >= h.required)
  /\ ~(\E i, j \in DOMAIN keys : i < j /\ keys[i] = keys[j])
  /\ ~HeapInvalid(config)
  /\ ~(\E n \in DOMAIN ixs : ixs[n].program = 0)
  /\ ~(\E n \in DOMAIN ixs : Len(ixs[n].accounts) > 255 \/ ixs[n].data > 65535)
  /\ ~IndexOutOfRange(ixs, Len(keys))

LEMMA V1IsGood ==
  ASSUME NEW t
  PROVE  V1Error(t) = None <=> V1Good(t.header, t.keys, t.ixs, t.config)
<1> DEFINE c1 == \/ t.header.required > 12
                 \/ Len(t.ixs) > 64
                 \/ Len(t.keys) > 64
           c2 == \/ Len(t.keys) < t.header.required + t.header.ro_unsigned
                 \/ t.header.ro_signed >= t.header.required
           c3 == \E i, j \in DOMAIN t.keys : i < j /\ t.keys[i] = t.keys[j]
           c4 == HeapInvalid(t.config)
           c5 == \E n \in DOMAIN t.ixs : t.ixs[n].program = 0
           c6 == \E n \in DOMAIN t.ixs :
                   (Len(t.ixs[n].accounts) > 255 \/ t.ixs[n].data > 65535)
           c7 == IndexOutOfRange(t.ixs, Len(t.keys))
           checks == << <<c1, "TooLarge">>, <<c2, "InvalidHeader">>,
                        <<c3, "DuplicateKey">>, <<c4, "InvalidTxConfig">>,
                        <<c5, "IndexOutOfRange">>, <<c6, "TooLarge">>,
                        <<c7, "IndexOutOfRange">> >>
<1>1. V1Error(t) = FirstError(checks)
  BY SMTT(60) DEF V1Error
<1>2. V1Good(t.header, t.keys, t.ixs, t.config) <=>
        ~c1 /\ ~c2 /\ ~c3 /\ ~c4 /\ ~c5 /\ ~c6 /\ ~c7
  BY DEF V1Good
<1> HIDE DEF c1, c2, c3, c4, c5, c6, c7
<1>3. /\ DOMAIN checks = 1 .. 7
      /\ checks[1][1] <=> c1
      /\ checks[2][1] <=> c2
      /\ checks[3][1] <=> c3
      /\ checks[4][1] <=> c4
      /\ checks[5][1] <=> c5
      /\ checks[6][1] <=> c6
      /\ checks[7][1] <=> c7
  OBVIOUS
<1>4. \A i \in 1 .. 7 : checks[i][2] # None
  BY NoneAssumption
<1> HIDE DEF checks
<1>5. FirstError(checks) = None <=> \A i \in 1 .. 7 : ~checks[i][1]
  BY <1>3, <1>4, NoFirstError
<1>6. (\A i \in 1 .. 7 : ~checks[i][1]) <=>
        ~c1 /\ ~c2 /\ ~c3 /\ ~c4 /\ ~c5 /\ ~c6 /\ ~c7
  BY <1>3
<1> QED
  BY <1>1, <1>2, <1>5, <1>6

(* ParseError() finds nothing, in a transaction that has these parts. *)
Parses(sigs, h, keys, ixs, lookups) ==
  /\ ~(sigs > 256)
  /\ ~(Len(keys) > MaxKeys)
  /\ ~HeaderInvalid(h, Len(keys))
  /\ ~IndexOutOfRange(ixs, Len(keys) + Loaded(lookups))

LEMMA ParsesAll ==
  ASSUME NEW w
  PROVE  /\ ParseError(w) = None =>
              Parses(Len(w.sigs), w.header, w.keys, w.ixs, w.lookups)
         /\ w.cut = None /\ Parses(Len(w.sigs), w.header, w.keys, w.ixs, w.lookups)
              => ParseError(w) = None
<1> DEFINE c1 == Len(w.sigs) > 256
           c2 == w.cut = "signatures"
           c3 == Len(w.keys) > MaxKeys
           c4 == w.cut = "keys"
           c5 == HeaderInvalid(w.header, Len(w.keys))
           c6 == w.cut \in {"instructions", "lookups"}
           c7 == IndexOutOfRange(w.ixs, Addressable(w))
           checks == << <<c1, "TooLarge">>, <<c2, "UnexpectedEof">>,
                        <<c3, "TooLarge">>, <<c4, "UnexpectedEof">>,
                        <<c5, "InvalidHeader">>, <<c6, "UnexpectedEof">>,
                        <<c7, "IndexOutOfRange">> >>
<1>1. ParseError(w) = FirstError(checks)
  BY SMTT(60) DEF ParseError
<1>2. Parses(Len(w.sigs), w.header, w.keys, w.ixs, w.lookups) <=>
        ~c1 /\ ~c3 /\ ~c5 /\ ~c7
  BY DEF Parses, Addressable
<1>3. w.cut = None => ~c2 /\ ~c4 /\ ~c6
  BY NoneAssumption
<1> HIDE DEF c1, c2, c3, c4, c5, c6, c7
<1>4. /\ DOMAIN checks = 1 .. 7
      /\ checks[1][1] <=> c1
      /\ checks[2][1] <=> c2
      /\ checks[3][1] <=> c3
      /\ checks[4][1] <=> c4
      /\ checks[5][1] <=> c5
      /\ checks[6][1] <=> c6
      /\ checks[7][1] <=> c7
  OBVIOUS
<1>5. \A i \in 1 .. 7 : checks[i][2] # None
  BY NoneAssumption
<1> HIDE DEF checks
<1>6. FirstError(checks) = None <=> \A i \in 1 .. 7 : ~checks[i][1]
  BY <1>4, <1>5, NoFirstError
<1>7. (\A i \in 1 .. 7 : ~checks[i][1]) <=>
        ~c1 /\ ~c2 /\ ~c3 /\ ~c4 /\ ~c5 /\ ~c6 /\ ~c7
  BY <1>4
<1> QED
  BY <1>1, <1>2, <1>3, <1>6, <1>7

(* What to_bytes() has checked of a v1 transaction. *)
LEMMA WritesV1 ==
  ASSUME NEW t, t.format = "v1", ToBytesError(t) = None
  PROVE  /\ V1Error(t) = None
         /\ ~(Len(t.sigs) < t.header.required)
         /\ ~(Len(t.sigs) > t.header.required)
         /\ ~(SizeV1(t) > MaxTxSize)
<1> DEFINE c1 == MessageError(t) # None
           c2 == t.format = "v1" /\ Len(t.sigs) < t.header.required
           c3 == t.format = "v1" /\ Len(t.sigs) > t.header.required
           c4 == t.format = "v1" /\ SizeV1(t) > MaxTxSize
           checks == << <<c1, MessageError(t)>>, <<c2, "MissingSignatures">>,
                        <<c3, "InvalidData">>, <<c4, "TooLarge">> >>
<1>1. ToBytesError(t) = FirstError(checks)
  BY SMTT(60) DEF ToBytesError
<1>2. c1 => MessageError(t) # None
  OBVIOUS
<1>3. ~c1 /\ ~c2 /\ ~c3 /\ ~c4 =>
        /\ V1Error(t) = None
        /\ ~(Len(t.sigs) < t.header.required)
        /\ ~(Len(t.sigs) > t.header.required)
        /\ ~(SizeV1(t) > MaxTxSize)
  BY DEF MessageError
<1> HIDE DEF c1, c2, c3, c4
<1>4. /\ DOMAIN checks = 1 .. 4
      /\ checks[1][1] <=> c1
      /\ checks[2][1] <=> c2
      /\ checks[3][1] <=> c3
      /\ checks[4][1] <=> c4
  OBVIOUS
<1>5. \A i \in 1 .. 4 : checks[i][1] => checks[i][2] # None
  BY <1>2, <1>4, NoneAssumption
<1> HIDE DEF checks
<1>6. FirstError(checks) = None <=> \A i \in 1 .. 4 : ~checks[i][1]
  BY <1>4, <1>5, NoFirstError
<1> QED
  BY <1>1, <1>3, <1>4, <1>6

(* from_bytes_v1() finds nothing. *)
LEMMA ReadsV1 ==
  ASSUME NEW w, w.cut = None, ~w.trailing,
         ~(SizeV1(FromBytes(w)) > MaxTxSize), ~MaskInvalid(w.mask),
         V1Error(FromBytes(w)) = None,
         ~(Len(w.sigs) < w.header.required), ~(Len(w.sigs) > w.header.required)
  PROVE  ParseV1Error(w) = None
<1> DEFINE c1 == SizeV1(FromBytes(w)) > MaxTxSize
           c2 == Len(w.ixs) > 64 \/ Len(w.keys) > 64
           c3 == w.cut = "keys"
           c4 == MaskInvalid(w.mask)
           c5 == w.cut \in {"values", "instructions"}
           c6 == V1Error(FromBytes(w)) # None
           c7 == w.cut = "signatures" \/ Len(w.sigs) < w.header.required
           c8 == w.trailing \/ Len(w.sigs) > w.header.required
           checks == << <<c1, "TooLarge">>, <<c2, "TooLarge">>,
                        <<c3, "UnexpectedEof">>, <<c4, "InvalidTxConfig">>,
                        <<c5, "UnexpectedEof">>, <<c6, V1Error(FromBytes(w))>>,
                        <<c7, "UnexpectedEof">>, <<c8, "TrailingData">> >>
<1>1. ParseV1Error(w) = FirstError(checks)
  BY SMTT(60) DEF ParseV1Error
<1>2. FromBytes(w).ixs = w.ixs /\ FromBytes(w).keys = w.keys
  BY DEF FromBytes
<1>3. ~c2
  BY <1>2, V1IsGood DEF V1Good
<1>4. ~c1 /\ ~c3 /\ ~c4 /\ ~c5 /\ ~c6 /\ ~c7 /\ ~c8
  BY NoneAssumption
<1> HIDE DEF c1, c2, c3, c4, c5, c6, c7, c8
<1>5. /\ DOMAIN checks = 1 .. 8
      /\ checks[1][1] <=> c1
      /\ checks[2][1] <=> c2
      /\ checks[3][1] <=> c3
      /\ checks[4][1] <=> c4
      /\ checks[5][1] <=> c5
      /\ checks[6][1] <=> c6
      /\ checks[7][1] <=> c7
      /\ checks[8][1] <=> c8
  OBVIOUS
<1>6. \A i \in 1 .. 8 : ~checks[i][1]
  BY <1>3, <1>4, <1>5
<1> HIDE DEF checks
<1> QED
  BY <1>1, <1>5, <1>6, NoFirstError

(* A config reads back from its mask and values. *)
LEMMA BitsApart ==
  /\ \A n \in 1 .. 4 : \E b \in BitsOf[n] : \A m \in 1 .. 4 : b \in BitsOf[m] => m = n
  /\ \A n \in 1 .. 4 : BitsOf[n] \subseteq 0 .. 4
  /\ \A m, n \in 1 .. 4 : Requests[m] = Requests[n] => m = n
<1>1. BitsOf[1] = {0, 1} /\ BitsOf[2] = {2} /\ BitsOf[3] = {3} /\ BitsOf[4] = {4}
  BY DEF BitsOf
<1>2. /\ Requests[1] = "priority_fee" /\ Requests[2] = "compute_unit_limit"
      /\ Requests[3] = "loaded_accounts_data_size_limit" /\ Requests[4] = "heap_size"
  BY DEF Requests
<1>3. \A n \in 1 .. 4 : n = 1 \/ n = 2 \/ n = 3 \/ n = 4
  OBVIOUS
<1>4. \A n \in 1 .. 4 : \E b \in BitsOf[n] : \A m \in 1 .. 4 : b \in BitsOf[m] => m = n
  <2>1. /\ \A m \in 1 .. 4 : 0 \in BitsOf[m] => m = 1
        /\ \A m \in 1 .. 4 : 2 \in BitsOf[m] => m = 2
        /\ \A m \in 1 .. 4 : 3 \in BitsOf[m] => m = 3
        /\ \A m \in 1 .. 4 : 4 \in BitsOf[m] => m = 4
    BY <1>1, <1>3
  <2>2. 0 \in BitsOf[1] /\ 2 \in BitsOf[2] /\ 3 \in BitsOf[3] /\ 4 \in BitsOf[4]
    BY <1>1
  <2> QED
    BY <1>3, <2>1, <2>2
<1>5. \A n \in 1 .. 4 : BitsOf[n] \subseteq 0 .. 4
  BY <1>1, <1>3
<1>6. \A m, n \in 1 .. 4 : Requests[m] = Requests[n] => m = n
  BY <1>2, <1>3
<1> QED
  BY <1>4, <1>5, <1>6

LEMMA MaskSelects ==
  ASSUME NEW c, NEW n \in 1 .. 4
  PROVE  BitsOf[n] \subseteq Mask(c) <=> Requests[n] \in DOMAIN c
<1> DEFINE Set == {m \in 1 .. 4 : Requests[m] \in DOMAIN c}
<1>1. Mask(c) = UNION {BitsOf[m] : m \in Set}
  BY DEF Mask
<1>2. PICK b \in BitsOf[n] : \A m \in 1 .. 4 : b \in BitsOf[m] => m = n
  BY BitsApart
<1>3. ASSUME Requests[n] \in DOMAIN c
      PROVE  BitsOf[n] \subseteq Mask(c)
  BY <1>1, <1>3
<1>4. ASSUME BitsOf[n] \subseteq Mask(c)
      PROVE  Requests[n] \in DOMAIN c
  <2>1. b \in Mask(c)
    BY <1>2, <1>4
  <2>2. PICK m \in Set : b \in BitsOf[m]
    BY <1>1, <2>1
  <2> QED
    BY <1>2, <2>2
<1> QED
  BY <1>3, <1>4

LEMMA MaskIsValid ==
  ASSUME NEW c
  PROVE  ~MaskInvalid(Mask(c))
<1> DEFINE Set == {m \in 1 .. 4 : Requests[m] \in DOMAIN c}
           low == Mask(c) \cap {0, 1}
<1>1. Mask(c) = UNION {BitsOf[m] : m \in Set}
  BY DEF Mask
<1>2. BitsOf[1] = {0, 1} /\ BitsOf[2] = {2} /\ BitsOf[3] = {3} /\ BitsOf[4] = {4}
  BY DEF BitsOf
<1>3. Mask(c) \subseteq 0 .. 4
  BY <1>1, BitsApart
<1>4. low = {} \/ low = {0, 1}
  <2>1. \A m \in 1 .. 4 : (0 \in BitsOf[m] \/ 1 \in BitsOf[m]) => m = 1
    BY <1>2
  <2>2. CASE 1 \in Set
    BY <1>1, <1>2, <2>2
  <2>3. CASE 1 \notin Set
    BY <1>1, <2>1, <2>3
  <2> QED
    BY <2>2, <2>3
<1>5. Cardinality({}) = 0 /\ Cardinality({0, 1}) = 2
  <2>1. Cardinality({}) = 0
    BY FS_EmptySet
  <2>2. IsFiniteSet({0}) /\ Cardinality({0}) = 1
    BY FS_Singleton
  <2>3. 1 \notin {0} /\ {0} \cup {1} = {0, 1}
    OBVIOUS
  <2>4. Cardinality({0} \cup {1}) = 2
    BY <2>2, <2>3, FS_AddElement
  <2> QED
    BY <2>1, <2>3, <2>4
<1>6. Cardinality(low) # 1
  <2> HIDE DEF low
  <2> QED
    BY <1>4, <1>5
<1> QED
  BY <1>3, <1>6 DEF MaskInvalid

LEMMA ConfigReadsBack ==
  ASSUME NEW c, ConfigOk(c)
  PROVE  ReadValues(Mask(c), Values(c)) = c
<1> DEFINE s == Selected(Mask(c))
           P == {n \in 1 .. 4 : BitsOf[n] \subseteq Mask(c)}
           At(r) == CHOOSE m \in DOMAIN s : Requests[s[m]] = r
           D == {Requests[s[m]] : m \in DOMAIN s}
           v == Values(c)
<1>1. /\ \A m \in DOMAIN s : s[m] \in P
      /\ \A n \in P : \E m \in DOMAIN s : s[m] = n
  BY SelectedOk
<1>2. v = [m \in DOMAIN s |-> c[Requests[s[m]]]]
  BY DEF Values
<1>3. ReadValues(Mask(c), v) = [r \in D |-> v[At(r)]]
  BY DEF ReadValues
<1> HIDE DEF v
<1>4. P = {n \in 1 .. 4 : Requests[n] \in DOMAIN c}
  BY MaskSelects
<1> HIDE DEF s, P
<1>5. D = DOMAIN c
  <2>1. ASSUME NEW m \in DOMAIN s
        PROVE  Requests[s[m]] \in DOMAIN c
    BY <1>1, <1>4
  <2>2. ASSUME NEW r \in DOMAIN c
        PROVE  r \in D
    <3>1. PICK n \in 1 .. 4 : r = Requests[n]
      BY DEF ConfigOk
    <3>2. n \in P
      BY <1>4, <3>1
    <3> QED
      BY <1>1, <3>1, <3>2
  <2> QED
    BY <2>1, <2>2
<1>6. ASSUME NEW r \in D
      PROVE  v[At(r)] = c[r]
  <2>1. \E m \in DOMAIN s : Requests[s[m]] = r
    BY <1>6
  <2>2. At(r) \in DOMAIN s /\ Requests[s[At(r)]] = r
    BY <2>1
  <2> QED
    BY <1>2, <2>2
<1> HIDE DEF D, At
<1> QED
  BY <1>3, <1>5, <1>6 DEF ConfigOk, v

(* Induction over the natural numbers, for a set rather than an operator.  *)
LEMMA Induction ==
  ASSUME NEW S, 0 \in S, \A n \in Nat : n \in S => n + 1 \in S
  PROVE  Nat \subseteq S
<1> SUFFICES ASSUME Nat \ S # {} PROVE FALSE
  OBVIOUS
<1>1. PICK least \in Nat \ S : \A n \in Nat \ S : least <= n
  BY MinIsMember
<1>2. least # 0 /\ least - 1 \in Nat /\ ~(least <= least - 1)
  OBVIOUS
<1>3. least - 1 \in S
  BY <1>1, <1>2
<1> QED
  BY <1>2, <1>3

(* The accounts that lookups load are counted, one lookup after another.   *)
AnyOf(s) == CHOOSE x \in s : TRUE
Less(s) == s \ {AnyOf(s)}
CountOf(lookups, n) == lookups[n].writable + lookups[n].readonly

CountsOver(D, lookups, counts) ==
  counts = [s \in D |-> IF s = {} THEN 0
                        ELSE CountOf(lookups, AnyOf(s)) + counts[Less(s)]]

LEMMA LoadedDef ==
  ASSUME NEW lookups
  PROVE  Loaded(lookups) =
           LET S == DOMAIN lookups
           IN  (CHOOSE counts : CountsOver(SUBSET S, lookups, counts))[S]
BY DEF Loaded, MapThenSumSet, MapThenFoldSet, CountsOver, CountOf, AnyOf, Less

LEMMA LessIsLess ==
  ASSUME NEW S, IsFiniteSet(S), NEW s \in SUBSET S, s # {}
  PROVE  /\ AnyOf(s) \in s
         /\ Less(s) \in SUBSET S
         /\ Cardinality(s) \in Nat \ {0}
         /\ Cardinality(Less(s)) = Cardinality(s) - 1
<1>1. AnyOf(s) \in s
  BY DEF AnyOf
<1>2. IsFiniteSet(s)
  BY FS_Subset
<1> QED
  BY <1>1, <1>2, FS_RemoveElement, FS_CardinalityType, FS_EmptySet DEF Less

LEMMA CountsExist ==
  ASSUME NEW lookups, NEW S, IsFiniteSet(S)
  PROVE  \E counts : CountsOver(SUBSET S, lookups, counts)
<1> DEFINE Upto(n) == {s \in SUBSET S : Cardinality(s) <= n}
           Good == {n \in Nat : \E counts : CountsOver(Upto(n), lookups, counts)}
<1>1. 0 \in Good
  <2> DEFINE h == [s \in Upto(0) |-> 0]
  <2>1. \A s \in Upto(0) : s = {}
    BY LessIsLess
  <2>2. CountsOver(Upto(0), lookups, h)
    BY <2>1 DEF CountsOver
  <2> QED
    BY <2>2
<1>2. ASSUME NEW n \in Nat, n \in Good
      PROVE  n + 1 \in Good
  <2>1. PICK h : CountsOver(Upto(n), lookups, h)
    BY <1>2
  <2> DEFINE more == [s \in Upto(n + 1) |->
                        IF s = {} THEN 0
                        ELSE CountOf(lookups, AnyOf(s)) + h[Less(s)]]
  <2>2. ASSUME NEW s \in Upto(n + 1), s # {}
        PROVE  Less(s) \in Upto(n) /\ Less(s) \in Upto(n + 1)
    BY <2>2, LessIsLess
  <2>3. ASSUME NEW s \in Upto(n + 1), s # {}
        PROVE  h[Less(s)] = more[Less(s)]
    BY <2>1, <2>2, <2>3 DEF CountsOver
  <2>4. CountsOver(Upto(n + 1), lookups, more)
    BY <2>3 DEF CountsOver
  <2>5. \E counts : CountsOver(Upto(n + 1), lookups, counts)
    <3> HIDE DEF more
    <3> QED
      BY <2>4
  <2> QED
    BY <2>5
<1>3. Cardinality(S) \in Good
  <2> HIDE DEF Good
  <2> QED
    BY <1>1, <1>2, Induction, FS_CardinalityType
<1>4. Upto(Cardinality(S)) = SUBSET S
  BY FS_Subset
<1> QED
  BY <1>3, <1>4

LEMMA LoadedIsNat ==
  ASSUME NEW lookups \in Seq([writable : Nat, readonly : Nat])
  PROVE  Loaded(lookups) \in Nat
<1> DEFINE S == DOMAIN lookups
           counts == CHOOSE counts : CountsOver(SUBSET S, lookups, counts)
<1>1. IsFiniteSet(S)
  <2>1. S = 1 .. Len(lookups) /\ 1 \in Int /\ Len(lookups) \in Int
    OBVIOUS
  <2> QED
    BY <2>1, FS_Interval, Zenon
<1>2. ASSUME NEW n \in S
      PROVE  CountOf(lookups, n) \in Nat
  <2> DEFINE R == [writable : Nat, readonly : Nat]
  <2> HIDE DEF R
  <2>0. lookups \in Seq(R)
    BY DEF R
  <2>1. lookups[n] \in R
    BY <2>0
  <2>2. lookups[n].writable \in Nat /\ lookups[n].readonly \in Nat
    BY <2>1 DEF R
  <2> QED
    BY <2>2 DEF CountOf
<1>3. Loaded(lookups) = counts[S]
  BY LoadedDef
<1> HIDE DEF S
<1>4. CountsOver(SUBSET S, lookups, counts)
  BY <1>1, CountsExist
<1> HIDE DEF counts
<1>5. /\ counts[{}] = 0
      /\ \A s \in SUBSET S :
           s # {} => counts[s] = CountOf(lookups, AnyOf(s)) + counts[Less(s)]
  <2>1. \A s \in SUBSET S :
          counts[s] = IF s = {} THEN 0
                      ELSE CountOf(lookups, AnyOf(s)) + counts[Less(s)]
    BY <1>4 DEF CountsOver
  <2> QED
    BY <2>1
<1> DEFINE Good == {n \in Nat : \A s \in SUBSET S :
                      Cardinality(s) <= n => counts[s] \in Nat}
<1>6. 0 \in Good
  <2> SUFFICES ASSUME NEW s \in SUBSET S, Cardinality(s) <= 0
               PROVE  counts[s] \in Nat
    OBVIOUS
  <2>1. s = {}
    BY <1>1, LessIsLess
  <2>2. counts[s] = 0
    BY <1>5, <2>1
  <2> QED
    BY <2>2
<1>7. ASSUME NEW n \in Nat, n \in Good
      PROVE  n + 1 \in Good
  <2> SUFFICES ASSUME NEW s \in SUBSET S, Cardinality(s) <= n + 1
               PROVE  counts[s] \in Nat
    OBVIOUS
  <2>1. CASE s # {}
    <3>1. /\ Less(s) \in SUBSET S /\ Cardinality(Less(s)) <= n
          /\ AnyOf(s) \in S
      BY <1>1, <2>1, LessIsLess
    <3>2. counts[Less(s)] \in Nat
      BY <1>7, <3>1
    <3>3. CountOf(lookups, AnyOf(s)) \in Nat
      BY <1>2, <3>1
    <3>4. counts[s] = CountOf(lookups, AnyOf(s)) + counts[Less(s)]
      BY <1>5, <2>1
    <3> QED
      BY <3>2, <3>3, <3>4
  <2>2. CASE s = {}
    <3>1. counts[s] = 0
      BY <1>5, <2>2
    <3> QED
      BY <3>1
  <2> QED
    BY <2>1, <2>2
<1>8. Cardinality(S) \in Good
  <2> HIDE DEF Good
  <2> QED
    BY <1>1, <1>6, <1>7, Induction, FS_CardinalityType
<1> QED
  BY <1>1, <1>3, <1>8, FS_CardinalityType

(* What makes a transaction of the older formats readable. *)
Readable(t) ==
  /\ FirstByte(Len(t.sigs)) # 129
  /\ t.format = "legacy" => ~(t.header.required >= 128)
  /\ Parses(Len(t.sigs), t.header, t.keys, t.ixs, t.lookups)

WireInv ==
  tx # None => ConfigOk(tx.config) /\ (tx.format # "v1" => Readable(tx))

LEMMA BuiltReads ==
  ASSUME SignersBelow(128), NEW payer \in Payer, NEW ixs \in Lists, NEW t,
         Built(t, payer, ixs)
  PROVE  ConfigOk(t.config) /\ Readable(t)
<1>1. PICK format, b, lookups, config :
        LET c == NewTx(format, payer, ixs, b, lookups, config)
        IN  /\ t = c /\ NewError(c) = None
            /\ lookups \in Seq([writable : Nat, readonly : Nat]) /\ ConfigOk(config)
  BY DEF Built
<1> DEFINE keys == AccountKeys(payer, ixs)
<1>2. /\ t.keys = keys /\ t.header = HeaderOf(payer, ixs)
      /\ t.ixs = Compiled(keys, ixs) /\ t.lookups = lookups /\ t.config = config
      /\ t.sigs = [i \in 1 .. t.header.required |-> Empty]
  BY <1>1 DEF NewTx
<1>3. ~(Len(keys) > MaxKeys)
  BY <1>1, <1>2, NoneAssumption DEF NewError
<1>4. PICK sw \in Nat, sr \in Nat, nw \in Nat, nr \in Nat :
        /\ Ordered(keys, payer, ixs, sw, sr, nw, nr)
        /\ t.header = Header(sw, sr, nr)
  BY <1>2, AccountsOrdered
<1> HIDE DEF keys
<1>5. /\ Len(keys) = 1 + sw + sr + nw + nr /\ DOMAIN keys = 1 .. Len(keys)
      /\ \A k \in Seen(payer, ixs) : \E i \in 1 .. Len(keys) : keys[i] = k
  BY <1>4 DEF Ordered
<1>6. 1 + sw + sr < 128
  BY <1>4, SignersFit
<1>7. /\ t.header.required = 1 + sw + sr
      /\ t.header.ro_signed = sr
      /\ t.header.ro_unsigned = nr
  <2>1. AsU8(1 + sw + sr) = 1 + sw + sr /\ AsU8(sr) = sr /\ AsU8(nr) = nr
    BY <1>3, <1>5, <1>6, SMT DEF AsU8, MaxKeys
  <2> QED
    BY <1>4, <2>1 DEF Header
<1>8. Len(t.sigs) = 1 + sw + sr
  BY <1>2, <1>7
<1>9. FirstByte(Len(t.sigs)) # 129
  BY <1>6, <1>8 DEF FirstByte
<1>10. ~HeaderInvalid(t.header, Len(keys))
  BY <1>5, <1>7 DEF HeaderInvalid
<1>11. Loaded(lookups) \in Nat
  BY <1>1, LoadedIsNat
<1>12. \A k \in Seen(payer, ixs) : IndexOf(keys, k) \in 0 .. Len(keys) - 1
  BY <1>5, IndexLeads
<1>13. ~IndexOutOfRange(t.ixs, Len(keys) + Loaded(lookups))
  <2>1. ASSUME NEW m \in DOMAIN ixs
        PROVE  /\ ~(t.ixs[m].program >= Len(keys) + Loaded(lookups))
               /\ DOMAIN t.ixs[m].accounts = DOMAIN ixs[m].accounts
               /\ \A a \in DOMAIN ixs[m].accounts :
                    ~(t.ixs[m].accounts[a] >= Len(keys) + Loaded(lookups))
    <3>1. t.ixs[m].program = IndexOf(keys, ixs[m].program)
      BY <1>2, CompiledParts
    <3>2. /\ DOMAIN t.ixs[m].accounts = DOMAIN ixs[m].accounts
          /\ \A a \in DOMAIN ixs[m].accounts :
               t.ixs[m].accounts[a] = IndexOf(keys, ixs[m].accounts[a].key)
      BY <1>2, CompiledParts
    <3>3. ixs[m].program \in Seen(payer, ixs)
      BY SeenOf
    <3>4. \A a \in DOMAIN ixs[m].accounts : ixs[m].accounts[a].key \in Seen(payer, ixs)
      BY SeenOf
    <3>5. \A i \in 0 .. Len(keys) - 1 : ~(i >= Len(keys) + Loaded(lookups))
      BY <1>5, <1>11
    <3> QED
      BY <1>12, <3>1, <3>2, <3>3, <3>4, <3>5
  <2>2. DOMAIN t.ixs = DOMAIN ixs
    BY <1>2, CompiledParts
  <2> QED
    BY <2>1, <2>2 DEF IndexOutOfRange
<1>14. ConfigOk(t.config)
  BY <1>1, <1>2
<1> QED
  BY <1>2, <1>3, <1>6, <1>7, <1>8, <1>9, <1>10, <1>13, <1>14 DEF Readable, Parses

LEMMA SameReads ==
  ASSUME NEW t, NEW u, NEW S, NEW T, t.sigs \in Seq(S), u.sigs \in Seq(T),
         SameParts(t, u), Readable(t)
  PROVE  Readable(u)
<1>1. Len(u.sigs) = Len(t.sigs)
  <2>1. PICK a \in Seq(S) : a = t.sigs
    OBVIOUS
  <2>2. PICK b \in Seq(T) : b = u.sigs
    OBVIOUS
  <2>3. DOMAIN a = 1 .. Len(a) /\ DOMAIN b = 1 .. Len(b)
    OBVIOUS
  <2>4. Len(a) \in Nat /\ Len(b) \in Nat /\ DOMAIN a = DOMAIN b
    BY <2>1, <2>2 DEF SameParts
  <2> QED
    BY <2>1, <2>2, <2>3, <2>4
<1> QED
  BY <1>1 DEF Readable, SameParts

(* What is written is read as the same message.                            *)
LEMMA ReadAsWritten ==
  ASSUME NEW t, NEW S, IsTx(t), t.sigs \in Seq({Empty, Zeros} \cup S),
         ConfigOk(t.config)
  PROVE  LET u == FromBytes(ToBytes(t)) IN
         /\ SameParts(t, u) /\ u.config = t.config
         /\ Len(ToBytes(t).sigs) = Len(t.sigs)
         /\ Message(u) = Message(t)
<1> DEFINE w == ToBytes(t)
           u == FromBytes(w)
<1>1. /\ w.format = t.format /\ w.header = t.header /\ w.keys = t.keys
      /\ w.blockhash = t.blockhash /\ w.ixs = t.ixs /\ w.lookups = t.lookups
      /\ w.mask = Mask(t.config) /\ w.values = Values(t.config)
      /\ DOMAIN w.sigs = DOMAIN t.sigs
  BY DEF ToBytes
<1>2. u = [format |-> w.format, header |-> w.header, keys |-> w.keys,
           blockhash |-> w.blockhash, ixs |-> w.ixs, lookups |-> w.lookups,
           config |-> ReadValues(w.mask, w.values), sigs |-> w.sigs]
  BY DEF FromBytes
<1>3. Len(w.sigs) = Len(t.sigs)
  <2>1. PICK a \in Seq({Empty, Zeros} \cup S) : a = t.sigs
    OBVIOUS
  <2>2. w.sigs = [i \in 1 .. Len(a) |-> IF a[i] = Empty THEN Zeros ELSE a[i]]
    <3>1. DOMAIN a = 1 .. Len(a)
      OBVIOUS
    <3> QED
      BY <2>1, <3>1 DEF ToBytes
  <2>3. Len(a) \in Nat
    OBVIOUS
  <2> QED
    BY <2>1, <2>2, <2>3
<1> HIDE DEF w, u
<1>4. /\ u.format = t.format /\ u.header = t.header /\ u.keys = t.keys
      /\ u.blockhash = t.blockhash /\ u.ixs = t.ixs /\ u.lookups = t.lookups
      /\ u.config = t.config /\ u.sigs = w.sigs
  BY <1>1, <1>2, ConfigReadsBack
<1>5. Message(u) = Message(t)
  <2> DEFINE D == {"format", "header", "keys", "blockhash", "ixs", "lookups",
                   "config", "sigs"}
             parts == D \ {"sigs"}
  <2>1. DOMAIN u = D
    BY <1>2
  <2>2. DOMAIN t = D
    BY DEF IsTx
  <2>3. \A f \in parts : u[f] = t[f]
    BY <1>4
  <2>4. Message(u) = [f \in parts |-> u[f]] /\ Message(t) = [f \in parts |-> t[f]]
    BY <2>1, <2>2 DEF Message
  <2> HIDE DEF parts
  <2> QED
    BY <2>3, <2>4
<1>6. SameParts(t, u)
  BY <1>1, <1>4 DEF SameParts
<1> QED
  BY <1>3, <1>4, <1>5, <1>6 DEF w, u

LEMMA WrittenIsRead ==
  ASSUME NEW t, NEW S, IsTx(t), t.sigs \in Seq({Empty, Zeros} \cup S),
         t.header.required \in Nat, ConfigOk(t.config),
         t.format # "v1" => Readable(t), ToBytesError(t) = None
  PROVE  FromBytesError(ToBytes(t)) = None
<1> DEFINE w == ToBytes(t)
           u == FromBytes(w)
<1>1. SameParts(t, u) /\ u.config = t.config /\ Len(w.sigs) = Len(t.sigs)
  BY ReadAsWritten
<1>2. /\ w.format = t.format /\ w.header = t.header /\ w.keys = t.keys
      /\ w.ixs = t.ixs /\ w.lookups = t.lookups /\ w.mask = Mask(t.config)
      /\ w.cut = None /\ ~w.trailing /\ u.sigs = w.sigs
  BY DEF ToBytes, FromBytes
<1> HIDE DEF w, u
<1>3. CASE t.format = "v1"
  <2>1. /\ V1Error(t) = None
        /\ ~(Len(t.sigs) < t.header.required)
        /\ ~(Len(t.sigs) > t.header.required)
        /\ ~(SizeV1(t) > MaxTxSize)
    BY <1>3, WritesV1
  <2>2. SizeV1(u) = SizeV1(t)
    BY <1>1, <1>2 DEF SizeV1, SameParts
  <2>3. V1Error(u) = None
    BY <1>1, <2>1, V1IsGood DEF SameParts
  <2>4. ParseV1Error(w) = None
    BY <1>1, <1>2, <2>1, <2>2, <2>3, MaskIsValid, ReadsV1 DEF u
  <2>5. ~Misread(w)
    BY <1>2, <1>3 DEF Misread
  <2> QED
    BY <1>2, <1>3, <2>4, <2>5 DEF FromBytesError, w
<1>4. CASE t.format # "v1"
  <2>1. Readable(t)
    BY <1>4
  <2>2. Parses(Len(w.sigs), w.header, w.keys, w.ixs, w.lookups)
    BY <1>1, <1>2, <2>1 DEF Readable
  <2>3. ParseError(w) = None
    BY <1>2, <2>2, ParsesAll
  <2>4. ~Misread(w)
    BY <1>1, <1>2, <1>4, <2>1 DEF Misread, Readable
  <2> QED
    BY <1>2, <1>4, <2>3, <2>4 DEF FromBytesError, w
<1> QED
  BY <1>3, <1>4

LEMMA WireInvStep ==
  ASSUME ~IsTx(None), SignersBelow(128), SlotsInv, SlotsInv', WireInv, [Next]_vars
  PROVE  WireInv'
<1>1. CASE UNCHANGED <<tx, draft>>
  BY <1>1 DEF WireInv
<1>2. ASSUME NEW payer \in Payer, NEW ixs \in Lists, Built(tx', payer, ixs)
      PROVE  WireInv'
  BY <1>2, BuiltReads DEF WireInv
<1>3. ASSUME NEW w \in Foreign, FromBytesError(w) = None, tx' = FromBytes(w)
      PROVE  WireInv'
  <2>1. /\ tx'.format = w.format /\ tx'.header = w.header /\ tx'.keys = w.keys
        /\ tx'.ixs = w.ixs /\ tx'.lookups = w.lookups /\ tx'.sigs = w.sigs
        /\ tx'.config = ReadValues(w.mask, w.values)
    BY <1>3 DEF FromBytes
  <2>2. ConfigOk(tx'.config)
    BY <2>1, ReadConfigOk
  <2>3. ASSUME w.format # "v1"
        PROVE  Readable(tx')
    <3>1. ~Misread(w) /\ ParseError(w) = None
      BY <1>3, <2>3, NoneAssumption DEF FromBytesError
    <3>2. Parses(Len(w.sigs), w.header, w.keys, w.ixs, w.lookups)
      BY <3>1, ParsesAll
    <3> QED
      BY <2>1, <2>3, <3>1, <3>2 DEF Readable, Misread
  <2> QED
    BY <2>1, <2>2, <2>3 DEF WireInv
<1>4. ASSUME tx # None, IsTx(tx'), SameParts(tx, tx'),
             tx'.config = tx.config \/ ConfigOk(tx'.config)
      PROVE  WireInv'
  <2>1. tx' # None
    BY <1>4
  <2>2. /\ tx.sigs \in Seq({Empty, Zeros} \cup made)
        /\ tx'.sigs \in Seq({Empty, Zeros} \cup made')
    BY <1>4, <2>1 DEF SlotsInv
  <2>3. ConfigOk(tx'.config)
    BY <1>4 DEF WireInv
  <2>4. ASSUME tx'.format # "v1"
        PROVE  Readable(tx')
    BY <1>4, <2>2, <2>4, SameReads DEF WireInv, SameParts
  <2> QED
    BY <2>3, <2>4 DEF WireInv
<1> QED
  BY <1>1, <1>2, <1>3, <1>4, Steps

(* What is written can be read, as the same message with the same          *)
(* signatures, for any instructions that fewer than 128 accounts sign: the *)
(* first byte of a legacy message is the number of its signers, and with   *)
(* its high bit set it opens a versioned one.                              *)
THEOREM WireAlwaysKeeps ==
  ASSUME ~IsTx(None), SignersBelow(128)
  PROVE  Spec => []WireKeeps
<1>1. Init => WireInv
  BY DEF Init, WireInv
<1>2. SlotsInv /\ SlotsInv' /\ WireInv /\ [Next]_vars => WireInv'
  BY WireInvStep
<1>3. SlotsInv /\ WireInv => WireKeeps
  <2> SUFFICES ASSUME SlotsInv, WireInv, tx # None, ToBytesError(tx) = None
               PROVE  LET w == ToBytes(tx) IN
                      /\ FromBytesError(w) = None
                      /\ Message(FromBytes(w)) = Message(tx)
                      /\ \A i \in DOMAIN tx.sigs :
                           tx.sigs[i] # Empty => w.sigs[i] = tx.sigs[i]
    BY DEF WireKeeps
  <2>1. /\ IsTx(tx) /\ tx.header.required \in Nat /\ ConfigOk(tx.config)
        /\ tx.sigs \in Seq({Empty, Zeros} \cup made)
        /\ tx.format # "v1" => Readable(tx)
    BY DEF SlotsInv, WireInv
  <2>2. FromBytesError(ToBytes(tx)) = None
    BY <2>1, WrittenIsRead
  <2>3. Message(FromBytes(ToBytes(tx))) = Message(tx)
    BY <2>1, ReadAsWritten
  <2>4. \A i \in DOMAIN tx.sigs :
          tx.sigs[i] # Empty => ToBytes(tx).sigs[i] = tx.sigs[i]
    BY DEF ToBytes
  <2> QED
    BY <2>2, <2>3, <2>4
<1> QED
  BY <1>1, <1>2, <1>3, SlotsInvariant, PTL DEF Spec
=============================================================================
