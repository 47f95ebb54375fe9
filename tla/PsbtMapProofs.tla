----------------------------- MODULE PsbtMapProofs -----------------------------
(***************************************************************************)
(* What write_map makes of maps of any number of records, of any types,    *)
(* data and values: a combined map is a union in which one map wins, and   *)
(* to combine again changes no byte; setting a record replaces that one.   *)
(***************************************************************************)
EXTENDS PsbtMap, FiniteSetTheorems, SequenceTheorems, TLAPS

(* An enumeration of the places that are written, in the order in which    *)
(* write_map comes to them.                                                *)
Places(p, n, records, written) ==
  /\ n \in Nat
  /\ p \in [1 .. n -> written]
  /\ \A i \in written : \E m \in 1 .. n : p[m] = i
  /\ \A k, m \in 1 .. n : k < m => Precedes(records, p[k], p[m])

Typed(records, written) ==
  /\ written \subseteq Nat
  /\ \A i \in written : records[i].type \in Nat

(* Of two places one comes first.                                          *)
LEMMA PrecedesIsOrder ==
  ASSUME NEW records, NEW written, Typed(records, written),
         NEW i \in written, NEW j \in written
  PROVE  /\ ~Precedes(records, i, i)
         /\ i # j => Precedes(records, i, j) \/ Precedes(records, j, i)
         /\ \A k \in written :
              Precedes(records, i, j) /\ Precedes(records, j, k)
                => Precedes(records, i, k)
  BY DEF Precedes, Typed

(* The places ahead of one, in an enumeration, are those enumerated before.*)
LEMMA AheadAreCounted ==
  ASSUME NEW records, NEW written, Typed(records, written),
         NEW p, NEW n, Places(p, n, records, written), NEW m \in 1 .. n
  PROVE  Cardinality({j \in written : Precedes(records, j, p[m])}) = m - 1
<1> DEFINE A == {j \in written : Precedes(records, j, p[m])}
           q == [k \in 1 .. m - 1 |-> p[k]]
<1>1. m \in Nat /\ n \in Nat /\ m <= n
  BY DEF Places
<1>2. \A k \in 1 .. m - 1 : k \in 1 .. n /\ k < m
  BY <1>1
<1>3. \A k \in 1 .. m - 1 : p[k] \in A
  BY <1>2 DEF Places
<1>4. \A k \in 1 .. m - 1 : q[k] = p[k]
  OBVIOUS
<1>5. q \in [1 .. m - 1 -> A]
  BY <1>3
<1>6. ASSUME NEW k \in 1 .. m - 1, NEW l \in 1 .. m - 1, p[k] = p[l]
      PROVE  k = l
  <2>1. k \in 1 .. n /\ l \in 1 .. n /\ p[k] \in written
    BY <1>2 DEF Places
  <2>2. ~Precedes(records, p[k], p[l]) /\ ~Precedes(records, p[l], p[k])
    BY <2>1, <1>6, PrecedesIsOrder
  <2>3. ~(k < l) /\ ~(l < k)
    BY <2>1, <2>2 DEF Places
  <2> QED
    BY <2>3
<1>7. ASSUME NEW j \in A
      PROVE  \E k \in 1 .. m - 1 : p[k] = j
  <2>1. PICK k \in 1 .. n : p[k] = j
    BY DEF Places
  <2>2. Precedes(records, p[k], p[m]) /\ p[k] \in written /\ p[m] \in written
    BY <2>1 DEF Places
  <2>3. k # m
    BY <2>2, PrecedesIsOrder
  <2>4. ~(m < k)
    <3> SUFFICES ASSUME m < k PROVE FALSE
      OBVIOUS
    <3>1. Precedes(records, p[m], p[k])
      BY DEF Places
    <3>2. Precedes(records, p[m], p[m])
      BY <3>1, <2>2, PrecedesIsOrder
    <3> QED
      BY <3>2, <2>2, PrecedesIsOrder
  <2>5. k \in 1 .. m - 1
    BY <2>3, <2>4, <1>1
  <2> QED
    BY <2>1, <2>5
<1>8. q \in Bijection(1 .. m - 1, A)
  <2>1. q \in Injection(1 .. m - 1, A)
    BY <1>4, <1>5, <1>6 DEF Injection, IsInjective
  <2>2. q \in Surjection(1 .. m - 1, A)
    BY <1>4, <1>5, <1>7 DEF Surjection
  <2> QED
    BY <2>1, <2>2 DEF Bijection
<1>9. IsFiniteSet(1 .. m - 1) /\ Cardinality(1 .. m - 1) = m - 1
  BY <1>1, FS_Interval
<1>10. Cardinality(A) = Cardinality(1 .. m - 1)
  BY <1>8, <1>9, FS_Bijection DEF ExistsBijection
<1> QED
  BY <1>9, <1>10

(* write_map writes the records in the order of any such enumeration.      *)
LEMMA GroupedAsPlaced ==
  ASSUME NEW records, NEW written, Typed(records, written),
         NEW p, NEW n, Places(p, n, records, written)
  PROVE  GroupByType(records, written) = [m \in 1 .. n |-> records[p[m]]]
<1> DEFINE Rank(i) == Cardinality({j \in written : Precedes(records, j, i)})
<1>1. \A m \in 1 .. n : Rank(p[m]) = m - 1
  BY AheadAreCounted
<1>2. Cardinality(written) = n
  <2>1. \A k, m \in 1 .. n : p[k] = p[m] => k = m
    <3> SUFFICES ASSUME NEW k \in 1 .. n, NEW m \in 1 .. n, p[k] = p[m]
                 PROVE  k = m
      OBVIOUS
    <3>1. k - 1 = m - 1
      BY <1>1
    <3> QED
      BY <3>1
  <2>2. p \in Bijection(1 .. n, written)
    BY <2>1 DEF Places, Bijection, Injection, IsInjective, Surjection
  <2>3. IsFiniteSet(1 .. n) /\ Cardinality(1 .. n) = n
    BY FS_Interval DEF Places
  <2> QED
    BY <2>2, <2>3, FS_Bijection DEF ExistsBijection
<1>3. ASSUME NEW m \in 1 .. n
      PROVE  (CHOOSE i \in written : Rank(i) = m - 1) = p[m]
  <2>1. p[m] \in written /\ Rank(p[m]) = m - 1
    BY <1>1 DEF Places
  <2>2. ASSUME NEW i \in written, Rank(i) = m - 1
        PROVE  i = p[m]
    <3>1. PICK k \in 1 .. n : p[k] = i
      BY DEF Places
    <3>2. k - 1 = m - 1
      BY <3>1, <2>2, <1>1
    <3>3. k = m
      BY <3>2
    <3> QED
      BY <3>1, <3>3
  <2> HIDE DEF Rank
  <2> QED
    BY <2>1, <2>2
<1>4. GroupByType(records, written) =
        [m \in 1 .. Cardinality(written) |->
           records[CHOOSE i \in written : Rank(i) = m - 1]]
  BY DEF GroupByType
<1> QED
  <2> HIDE DEF Rank
  <2> QED
    BY <1>2, <1>3, <1>4

(* There is such an enumeration: each place has its own number of places   *)
(* ahead of it.                                                            *)
LEMMA PlacesExist ==
  ASSUME NEW records, NEW written, Typed(records, written), IsFiniteSet(written)
  PROVE  \E p : Places(p, Cardinality(written), records, written)
<1> DEFINE Ahead(i) == {j \in written : Precedes(records, j, i)}
           Rank(i) == Cardinality(Ahead(i))
           n == Cardinality(written)
           rank == [i \in written |-> Rank(i)]
           p == [m \in 1 .. n |-> CHOOSE i \in written : Rank(i) = m - 1]
<1>1. n \in Nat
  BY FS_CardinalityType
<1>2. ASSUME NEW i \in written
      PROVE  IsFiniteSet(Ahead(i)) /\ Rank(i) \in Nat
  BY FS_Subset, FS_CardinalityType
<1>3. ASSUME NEW i \in written, NEW j \in written, Precedes(records, j, i)
      PROVE  Rank(j) < Rank(i)
  <2>1. j \notin Ahead(j) /\ j \in Ahead(i)
    BY <1>3, PrecedesIsOrder
  <2>2. Ahead(j) \subseteq Ahead(i)
    BY <1>3, PrecedesIsOrder
  <2>3. Cardinality(Ahead(j)) <= Cardinality(Ahead(i))
    BY <2>2, <1>2, FS_Subset
  <2>4. Cardinality(Ahead(j)) # Cardinality(Ahead(i))
    BY <2>1, <2>2, <1>2, FS_Subset
  <2>5. Cardinality(Ahead(j)) \in Nat /\ Cardinality(Ahead(i)) \in Nat
    BY <1>2
  <2> HIDE DEF Ahead
  <2> QED
    BY <2>3, <2>4, <2>5
<1>4. ASSUME NEW i \in written
      PROVE  Rank(i) \in 0 .. n - 1
  <2>1. Ahead(i) \subseteq written \ {i}
    BY PrecedesIsOrder
  <2>2. IsFiniteSet(written \ {i}) /\ Cardinality(written \ {i}) = n - 1
    BY FS_RemoveElement
  <2>3. Rank(i) <= n - 1
    BY <2>1, <2>2, FS_Subset
  <2>4. Rank(i) \in Nat
    BY <1>2
  <2> HIDE DEF Rank, n
  <2> QED
    BY <2>3, <2>4, <1>1
<1>5. ASSUME NEW i \in written, NEW j \in written, Rank(i) = Rank(j)
      PROVE  i = j
  <2>1. ~(Rank(i) < Rank(j)) /\ ~(Rank(j) < Rank(i))
    <3>1. Rank(i) \in Nat /\ Rank(j) \in Nat
      BY <1>2, Zenon
    <3>2. PICK r : r = Rank(i)
      OBVIOUS
    <3>3. r \in Nat /\ Rank(j) = r
      BY <1>5, <3>1, <3>2, Zenon
    <3>4. ~(r < r)
      BY <3>3
    <3> QED
      BY <3>2, <3>3, <3>4, Zenon
  <2> QED
    BY <2>1, <1>3, PrecedesIsOrder
<1>6. \A m \in 1 .. n : \E i \in written : Rank(i) = m - 1
  <2>1. rank \in Injection(written, 0 .. n - 1)
    BY <1>4, <1>5 DEF Injection, IsInjective
  <2>2. IsFiniteSet(0 .. n - 1) /\ Cardinality(0 .. n - 1) = n
    BY <1>1, FS_Interval
  <2>3. rank \in Surjection(written, 0 .. n - 1)
    BY <2>1, <2>2, FS_Injection
  <2>4. \A r \in 0 .. n - 1 : \E i \in written : rank[i] = r
    BY <2>3 DEF Surjection
  <2>5. ASSUME NEW m \in 1 .. n
        PROVE  \E i \in written : Rank(i) = m - 1
    <3>1. m - 1 \in 0 .. n - 1
      BY <1>1
    <3>2. PICK i \in written : rank[i] = m - 1
      BY <2>4, <3>1
    <3> QED
      BY <3>2
  <2> QED
    BY <2>5
<1>7. \A m \in 1 .. n : p[m] \in written /\ Rank(p[m]) = m - 1
  <2> HIDE DEF Rank
  <2> QED
    BY <1>6
<1>8. \A i \in written : \E m \in 1 .. n : p[m] = i
  <2> SUFFICES ASSUME NEW i \in written
               PROVE  \E m \in 1 .. n : p[m] = i
    OBVIOUS
  <2>1. Rank(i) + 1 \in 1 .. n /\ (Rank(i) + 1) - 1 = Rank(i)
    BY <1>4, <1>1
  <2>2. p[Rank(i) + 1] \in written /\ Rank(p[Rank(i) + 1]) = Rank(i)
    BY <2>1, <1>7
  <2>3. p[Rank(i) + 1] = i
    BY <2>2, <1>5
  <2> QED
    BY <2>1, <2>3
<1>9. ASSUME NEW k \in 1 .. n, NEW m \in 1 .. n, k < m
      PROVE  Precedes(records, p[k], p[m])
  <2>1. p[k] \in written /\ p[m] \in written
    BY <1>7
  <2>2. Rank(p[k]) = k - 1 /\ Rank(p[m]) = m - 1
    BY <1>7
  <2>3. ~(Rank(p[m]) < Rank(p[k])) /\ Rank(p[m]) # Rank(p[k])
    BY <2>2, <1>9
  <2>4. ~Precedes(records, p[m], p[k]) /\ p[m] # p[k]
    BY <2>1, <2>3, <1>3
  <2> HIDE DEF p
  <2> QED
    BY <2>1, <2>4, PrecedesIsOrder
<1>10. p \in [1 .. n -> written]
  BY <1>7
<1>11. Places(p, n, records, written)
  <2> HIDE DEF p, n
  <2> QED
    BY <1>1, <1>8, <1>9, <1>10 DEF Places
<1> QED
  BY <1>11

----------------------------------------------------------------------------
(* Records, maps without duplicates, and what is written of some places.   *)

Records(R) == \A r \in R : r.type \in Nat

Distinct(map) ==
  \A i, j \in DOMAIN map : KeyOf(map[i]) = KeyOf(map[j]) => i = j

Grouped(map) == \A i, j \in DOMAIN map : i < j => map[i].type <= map[j].type

(* check_duplicates finds no two records of one key.                       *)
LEMMA NoDuplicatesIsDistinct ==
  ASSUME NEW R, NEW map \in Seq(R)
  PROVE  NoDuplicates(map) <=> Distinct(map)
<1> DEFINE key == [i \in 1 .. Len(map) |-> KeyOf(map[i])]
<1>1. DOMAIN map = 1 .. Len(map) /\ Len(map) \in Nat
  OBVIOUS
<1>2. IsFiniteSet(1 .. Len(map)) /\ Cardinality(1 .. Len(map)) = Len(map)
  BY <1>1, FS_Interval
<1>3. key \in Surjection(1 .. Len(map), KeysOf(map))
  BY <1>1 DEF Surjection, KeysOf
<1>4. NoDuplicates(map) <=> key \in Injection(1 .. Len(map), KeysOf(map))
  BY <1>2, <1>3, FS_Surjection DEF NoDuplicates
<1>5. key \in Injection(1 .. Len(map), KeysOf(map)) <=> Distinct(map)
  BY <1>1 DEF Injection, IsInjective, Distinct, KeysOf
<1> QED
  BY <1>4, <1>5

(* Map::get gives the value of the one record of a key.                    *)
LEMMA ValueIsFound ==
  ASSUME NEW R, NEW map \in Seq(R), Distinct(map), NEW i \in DOMAIN map
  PROVE  ValueOf(map, KeyOf(map[i])) = map[i].value
<1> DEFINE First(n) == /\ KeyOf(map[n]) = KeyOf(map[i])
                       /\ \A j \in 1 .. n - 1 : KeyOf(map[j]) # KeyOf(map[i])
<1>1. ASSUME NEW j \in 1 .. i - 1
      PROVE  KeyOf(map[j]) # KeyOf(map[i])
  <2>1. j \in DOMAIN map /\ j # i
    OBVIOUS
  <2> QED
    BY <2>1 DEF Distinct
<1>2. First(i)
  BY <1>1
<1>3. \A n \in DOMAIN map : First(n) => n = i
  BY DEF Distinct
<1>4. (CHOOSE n \in DOMAIN map : First(n)) = i
  <2> HIDE DEF First
  <2> QED
    BY <1>2, <1>3
<1> QED
  BY <1>4 DEF ValueOf

(* A map has the records of some places in an enumeration of them.         *)
Copied(out, records, written) ==
  \E p : /\ Places(p, Len(out), records, written)
         /\ \A m \in DOMAIN out : out[m] = records[p[m]]

(* What write_map writes of places whose keys differ: a map that has the   *)
(* records of these places and no others, by type.                         *)
LEMMA WrittenIsKept ==
  ASSUME NEW R, Records(R), NEW records \in Seq(R),
         NEW written, written \subseteq DOMAIN records,
         \A i, j \in written : KeyOf(records[i]) = KeyOf(records[j]) => i = j,
         NEW out, out = GroupByType(records, written)
  PROVE  /\ out \in Seq(R)
         /\ Distinct(out)
         /\ Grouped(out)
         /\ KeysOf(out) = {KeyOf(records[i]) : i \in written}
         /\ \A i \in written :
              ValueOf(out, KeyOf(records[i])) = records[i].value
         /\ Copied(out, records, written)
<1>1. Typed(records, written)
  BY DEF Typed, Records
<1>2. IsFiniteSet(written)
  <2>1. IsFiniteSet(1 .. Len(records))
    BY FS_Interval
  <2> QED
    BY <2>1, FS_Subset
<1>3. PICK n : n = Cardinality(written)
  OBVIOUS
<1>4. PICK p : Places(p, n, records, written)
  BY <1>1, <1>2, <1>3, PlacesExist
<1>5. out = [m \in 1 .. n |-> records[p[m]]]
  BY <1>1, <1>4, GroupedAsPlaced
<1>6. n \in Nat /\ \A m \in 1 .. n : p[m] \in written /\ p[m] \in DOMAIN records
  BY <1>4 DEF Places
<1>7. out \in Seq(R) /\ DOMAIN out = 1 .. n /\ Len(out) = n
  <2>1. \A m \in 1 .. n : records[p[m]] \in R
    BY <1>6
  <2> QED
    BY <2>1, <1>5, <1>6
<1>8. \A m \in DOMAIN out : out[m] = records[p[m]]
  BY <1>5, <1>7
<1>9. \A k, m \in DOMAIN out : p[k] = p[m] => k = m
  <2> SUFFICES ASSUME NEW k \in 1 .. n, NEW m \in 1 .. n, p[k] = p[m]
               PROVE  k = m
    BY <1>7
  <2>1. ~Precedes(records, p[k], p[m]) /\ ~Precedes(records, p[m], p[k])
    BY <1>1, <1>6, PrecedesIsOrder
  <2>2. ~(k < m) /\ ~(m < k)
    BY <1>4, <2>1 DEF Places
  <2> QED
    BY <2>2, <1>6
<1>10. Distinct(out)
  <2> SUFFICES ASSUME NEW k \in DOMAIN out, NEW m \in DOMAIN out,
                      KeyOf(out[k]) = KeyOf(out[m])
               PROVE  k = m
    BY DEF Distinct
  <2>1. p[k] = p[m]
    BY <1>6, <1>7, <1>8
  <2> QED
    BY <2>1, <1>9
<1>11. Grouped(out)
  <2> SUFFICES ASSUME NEW k \in 1 .. n, NEW m \in 1 .. n, k < m
               PROVE  out[k].type <= out[m].type
    BY <1>7 DEF Grouped
  <2>1. Precedes(records, p[k], p[m])
    BY <1>4 DEF Places
  <2>2. records[p[k]].type \in Nat /\ records[p[m]].type \in Nat
    BY <1>6, <1>1 DEF Typed
  <2>3. records[p[k]].type <= records[p[m]].type
    BY <2>1, <2>2 DEF Precedes
  <2>4. out[k] = records[p[k]] /\ out[m] = records[p[m]]
    BY <1>7, <1>8, Zenon
  <2> QED
    BY <2>3, <2>4, Zenon
<1>12. KeysOf(out) = {KeyOf(records[i]) : i \in written}
  <2>1. \A i \in written : \E m \in DOMAIN out : p[m] = i
    BY <1>4, <1>7 DEF Places
  <2>2. \A m \in DOMAIN out : p[m] \in written /\ out[m] = records[p[m]]
    BY <1>6, <1>7, <1>8
  <2> QED
    BY <2>1, <2>2 DEF KeysOf
<1>13. ASSUME NEW i \in written
       PROVE  ValueOf(out, KeyOf(records[i])) = records[i].value
  <2>1. PICK m \in DOMAIN out : p[m] = i
    BY <1>4, <1>7 DEF Places
  <2>2. out[m] = records[i]
    BY <2>1, <1>8
  <2> QED
    BY <2>1, <2>2, <1>7, <1>10, ValueIsFound
<1>14. Copied(out, records, written)
  BY <1>4, <1>7, <1>8 DEF Copied
<1> QED
  BY <1>7, <1>10, <1>11, <1>12, <1>13, <1>14

----------------------------------------------------------------------------
(* The combiner.                                                           *)

Merged(map, other) ==
  {i \in DOMAIN (map \o other) :
     i > Len(map) => KeyOf((map \o other)[i]) \notin KeysOf(map)}

LEMMA Joined ==
  ASSUME NEW R, NEW map \in Seq(R), NEW other \in Seq(R)
  PROVE  /\ map \o other \in Seq(R)
         /\ Len(map \o other) = Len(map) + Len(other)
         /\ DOMAIN (map \o other) = 1 .. Len(map) + Len(other)
         /\ \A i \in DOMAIN map :
              i \in DOMAIN (map \o other) /\ (map \o other)[i] = map[i]
         /\ \A i \in DOMAIN other :
              /\ Len(map) + i \in DOMAIN (map \o other)
              /\ (map \o other)[Len(map) + i] = other[i]
         /\ \A i \in DOMAIN (map \o other) :
              i > Len(map) => /\ i - Len(map) \in DOMAIN other
                              /\ (map \o other)[i] = other[i - Len(map)]
  OBVIOUS

(* Combining writes what this map has, and of the other one what is new.   *)
LEMMA CombineWrites ==
  ASSUME NEW R, NEW map \in Seq(R), NEW other \in Seq(R)
  PROVE  Combine(map, other) = GroupByType(map \o other, Merged(map, other))
<1>1. PICK all : all = map \o other
  OBVIOUS
<1>2. all \in Seq(R) /\ Len(all) = Len(map) + Len(other)
  BY <1>1
<1>3. all \o <<>> = all
  BY <1>2
<1>4. KeysOf(<<>>) = {}
  BY DEF KeysOf
<1>5. \A i \in 1 .. Len(map) : all[i] = map[i] /\ KeyOf(all[i]) \in KeysOf(map)
  BY <1>1 DEF KeysOf
<1> DEFINE Written(i) ==
      \/ i \in 1 .. Len(map) /\ KeyOf(all[i]) \in KeysOf(map) \ {}
      \/ /\ i \in Len(map) + 1 .. Len(map) + Len(other)
         /\ Secondary(map, all[i], {})
      \/ i \in Len(map) + Len(other) + 1 .. Len(all)
<1>6. Combine(map, other) = GroupByType(all, {i \in DOMAIN all : Written(i)})
  BY <1>1, <1>3, <1>4 DEF Combine, WriteMap
<1>7. ASSUME NEW i \in DOMAIN all
      PROVE  Written(i) <=> (i > Len(map) => KeyOf(all[i]) \notin KeysOf(map))
  <2>1. i \in 1 .. Len(map) + Len(other)
    BY <1>2
  <2>2. CASE i \in 1 .. Len(map)
    BY <2>2, <1>5
  <2>3. CASE i \in Len(map) + 1 .. Len(map) + Len(other)
    BY <2>3, <1>2 DEF Secondary
  <2> QED
    BY <2>1, <2>2, <2>3
<1>8. {i \in DOMAIN all : Written(i)} = Merged(map, other)
  BY <1>1, <1>7 DEF Merged
<1> QED
  BY <1>1, <1>6, <1>8

(* A map that is grouped by type already is written as it is, and nothing  *)
(* of a map with no other keys is added to it.                             *)
LEMMA GroupedIsKept ==
  ASSUME NEW R, Records(R), NEW map \in Seq(R), Grouped(map),
         NEW other \in Seq(R), KeysOf(other) \subseteq KeysOf(map)
  PROVE  Combine(map, other) = map
<1> DEFINE p == [m \in 1 .. Len(map) |-> m]
<1>1. PICK all : all = map \o other
  OBVIOUS
<1>2. /\ all \in Seq(R) /\ Len(all) = Len(map) + Len(other)
      /\ \A i \in 1 .. Len(map) : i \in DOMAIN all /\ all[i] = map[i]
      /\ \A i \in DOMAIN all :
           i > Len(map) => KeyOf(all[i]) \in KeysOf(other)
  BY <1>1, Joined DEF KeysOf
<1>3. Merged(map, other) = 1 .. Len(map)
  <2>1. \A i \in DOMAIN all : i \in 1 .. Len(map) \/ i > Len(map)
    BY <1>2
  <2>2. \A i \in 1 .. Len(map) : i \in DOMAIN all /\ ~(i > Len(map))
    BY <1>2
  <2> QED
    BY <2>1, <2>2, <1>1, <1>2 DEF Merged
<1>4. Typed(all, 1 .. Len(map))
  BY <1>2 DEF Typed, Records
<1>5. Places(p, Len(map), all, 1 .. Len(map))
  <2>1. ASSUME NEW k \in 1 .. Len(map), NEW m \in 1 .. Len(map), k < m
        PROVE  Precedes(all, k, m)
    <3>1. map[k].type <= map[m].type
      BY <2>1 DEF Grouped
    <3>2. map[k].type \in Nat /\ map[m].type \in Nat
      BY DEF Records
    <3> QED
      BY <3>1, <3>2, <2>1, <1>2 DEF Precedes
  <2> QED
    BY <2>1 DEF Places
<1>6. GroupByType(all, 1 .. Len(map)) = [m \in 1 .. Len(map) |-> all[p[m]]]
  BY <1>4, <1>5, GroupedAsPlaced
<1>7. [m \in 1 .. Len(map) |-> all[p[m]]] = map
  BY <1>2
<1> QED
  BY <1>1, <1>3, <1>6, <1>7, CombineWrites

(* Of the places that combining writes, no two have one key.               *)
LEMMA MergedIsDistinct ==
  ASSUME NEW R, NEW map \in Seq(R), NEW other \in Seq(R),
         Distinct(map), Distinct(other),
         NEW i \in Merged(map, other), NEW j \in Merged(map, other),
         KeyOf((map \o other)[i]) = KeyOf((map \o other)[j])
  PROVE  i = j
<1>1. PICK all : all = map \o other
  OBVIOUS
<1>2. i \in DOMAIN all /\ j \in DOMAIN all
  BY <1>1 DEF Merged
<1>3. i \in Nat /\ j \in Nat
  BY <1>1, <1>2, Joined
<1>4. CASE i <= Len(map) /\ j <= Len(map)
  <2>1. i \in DOMAIN map /\ j \in DOMAIN map
    BY <1>1, <1>2, <1>4, Joined
  <2> QED
    BY <2>1, Joined DEF Distinct
<1>5. CASE i > Len(map) /\ j > Len(map)
  <2>1. i - Len(map) \in DOMAIN other /\ j - Len(map) \in DOMAIN other
    BY <1>1, <1>2, <1>5, Joined
  <2>2. KeyOf(other[i - Len(map)]) = KeyOf(other[j - Len(map)])
    BY <1>1, <1>2, <1>5, Joined
  <2>3. i - Len(map) = j - Len(map)
    BY <2>1, <2>2 DEF Distinct
  <2> QED
    BY <2>3, <1>3
<1>6. CASE i <= Len(map) /\ j > Len(map)
  <2>1. i \in DOMAIN map
    BY <1>1, <1>2, <1>6, Joined
  <2>2. (map \o other)[i] = map[i]
    BY <2>1, Joined
  <2>3. KeyOf((map \o other)[i]) \in KeysOf(map)
    BY <2>1, <2>2 DEF KeysOf
  <2> QED
    BY <2>3, <1>6 DEF Merged
<1>7. CASE i > Len(map) /\ j <= Len(map)
  <2>1. j \in DOMAIN map
    BY <1>1, <1>2, <1>7, Joined
  <2>2. (map \o other)[j] = map[j]
    BY <2>1, Joined
  <2>3. KeyOf((map \o other)[j]) \in KeysOf(map)
    BY <2>1, <2>2 DEF KeysOf
  <2> QED
    BY <2>3, <1>7 DEF Merged
<1> QED
  BY <1>3, <1>4, <1>5, <1>6, <1>7

(* What a combined map has: the records of both whose keys this map does   *)
(* not have, by type, each at the value that this map gives it.            *)
LEMMA CombinedHas ==
  ASSUME NEW R, Records(R), NEW map \in Seq(R), NEW other \in Seq(R),
         NoDuplicates(map), NoDuplicates(other),
         NEW union, union = Combine(map, other)
  PROVE  /\ union \in Seq(R)
         /\ Distinct(union)
         /\ Grouped(union)
         /\ KeysOf(union) = KeysOf(map) \cup KeysOf(other)
         /\ \A key \in KeysOf(map) : ValueOf(union, key) = ValueOf(map, key)
         /\ \A key \in KeysOf(other) \ KeysOf(map) :
              ValueOf(union, key) = ValueOf(other, key)
         /\ Copied(union, map \o other, Merged(map, other))
<1>1. Distinct(map) /\ Distinct(other)
  BY NoDuplicatesIsDistinct
<1>2. PICK all : all = map \o other
  OBVIOUS
<1>3. PICK W : W = Merged(map, other)
  OBVIOUS
<1>4. all \in Seq(R) /\ W \subseteq DOMAIN all
  BY <1>2, <1>3, Joined DEF Merged
<1>5. \A i, j \in W : KeyOf(all[i]) = KeyOf(all[j]) => i = j
  BY <1>1, <1>2, <1>3, MergedIsDistinct
<1>6. union = GroupByType(all, W)
  BY <1>2, <1>3, CombineWrites
<1>7. /\ union \in Seq(R) /\ Distinct(union) /\ Grouped(union)
      /\ KeysOf(union) = {KeyOf(all[i]) : i \in W}
      /\ \A i \in W : ValueOf(union, KeyOf(all[i])) = all[i].value
      /\ Copied(union, all, W)
  BY <1>4, <1>5, <1>6, WrittenIsKept
<1>8. ASSUME NEW i \in DOMAIN map
      PROVE  i \in W /\ all[i] = map[i]
  BY <1>2, <1>3, Joined DEF Merged
<1>9. ASSUME NEW i \in DOMAIN other, KeyOf(other[i]) \notin KeysOf(map)
      PROVE  Len(map) + i \in W /\ all[Len(map) + i] = other[i]
  BY <1>2, <1>3, <1>9, Joined DEF Merged
<1>10. ASSUME NEW i \in W
       PROVE  \/ \E j \in DOMAIN map : all[i] = map[j]
              \/ \E j \in DOMAIN other : all[i] = other[j]
  <2>1. i \in DOMAIN all /\ i \in Nat
    BY <1>4
  <2>2. CASE i <= Len(map)
    <3>1. i \in DOMAIN map
      BY <2>1, <2>2, <1>4
    <3> QED
      BY <3>1, <1>8
  <2>3. CASE i > Len(map)
    BY <2>1, <2>3, <1>2, Joined
  <2> QED
    BY <2>1, <2>2, <2>3
<1>11. KeysOf(union) = KeysOf(map) \cup KeysOf(other)
  <2>1. \A i \in W : KeyOf(all[i]) \in KeysOf(map) \cup KeysOf(other)
    BY <1>10 DEF KeysOf
  <2>2. \A i \in DOMAIN map : KeyOf(map[i]) \in {KeyOf(all[j]) : j \in W}
    BY <1>8
  <2>3. KeysOf(map) \subseteq {KeyOf(all[j]) : j \in W}
    BY <2>2 DEF KeysOf
  <2>4. \A i \in DOMAIN other :
          KeyOf(other[i]) \notin KeysOf(map) =>
            KeyOf(other[i]) \in {KeyOf(all[j]) : j \in W}
    BY <1>9
  <2>5. KeysOf(other) \subseteq {KeyOf(all[j]) : j \in W}
    BY <2>3, <2>4 DEF KeysOf
  <2> QED
    BY <2>1, <2>3, <2>5, <1>7
<1>12. ASSUME NEW key \in KeysOf(map)
       PROVE  ValueOf(union, key) = ValueOf(map, key)
  <2>1. PICK i \in DOMAIN map : KeyOf(map[i]) = key
    BY DEF KeysOf
  <2>2. ValueOf(union, key) = map[i].value
    BY <2>1, <1>7, <1>8
  <2>3. ValueOf(map, key) = map[i].value
    BY <2>1, <1>1, ValueIsFound
  <2> QED
    BY <2>2, <2>3
<1>13. ASSUME NEW key \in KeysOf(other) \ KeysOf(map)
       PROVE  ValueOf(union, key) = ValueOf(other, key)
  <2>1. PICK i \in DOMAIN other : KeyOf(other[i]) = key
    BY DEF KeysOf
  <2>2. ValueOf(union, key) = other[i].value
    <3>1. Len(map) + i \in W /\ all[Len(map) + i] = other[i]
      BY <2>1, <1>9
    <3> QED
      BY <3>1, <2>1, <1>7
  <2>3. ValueOf(other, key) = other[i].value
    BY <2>1, <1>1, ValueIsFound
  <2> QED
    BY <2>2, <2>3
<1> QED
  BY <1>2, <1>3, <1>7, <1>11, <1>12, <1>13

(* For any two maps without duplicates the combiner writes their union, in *)
(* which the records of the first win (Psbt::combine_to_slice).            *)
THEOREM CombineAlwaysUnites ==
  ASSUME NEW R, Records(R), NEW map \in Seq(R), NEW other \in Seq(R),
         NoDuplicates(map), NoDuplicates(other)
  PROVE  CombineIsUnion(map, other)
<1>1. PICK union : union = Combine(map, other)
  OBVIOUS
<1>2. /\ union \in Seq(R) /\ Distinct(union)
      /\ KeysOf(union) = KeysOf(map) \cup KeysOf(other)
      /\ \A key \in KeysOf(map) : ValueOf(union, key) = ValueOf(map, key)
      /\ \A key \in KeysOf(other) \ KeysOf(map) :
           ValueOf(union, key) = ValueOf(other, key)
  BY <1>1, CombinedHas
<1>3. NoDuplicates(union)
  BY <1>2, NoDuplicatesIsDistinct
<1>4. \A key \in KeysOf(union) :
        ValueOf(union, key) =
          ValueOf(IF key \in KeysOf(map) THEN map ELSE other, key)
  BY <1>2
<1>5. AsFunction(union) =
        [key \in KeysOf(map) \cup KeysOf(other) |->
           ValueOf(IF key \in KeysOf(map) THEN map ELSE other, key)]
  BY <1>2, <1>4 DEF AsFunction
<1> QED
  BY <1>1, <1>3, <1>5 DEF CombineIsUnion

(* Combining again with either of the two, or with itself, gives back the  *)
(* combined map to the byte: what lags behind takes nothing back.          *)
THEOREM CombineAlwaysAbsorbs ==
  ASSUME NEW R, Records(R), NEW map \in Seq(R), NEW other \in Seq(R),
         NoDuplicates(map), NoDuplicates(other)
  PROVE  CombineAbsorbs(map, other)
<1>1. PICK union : union = Combine(map, other)
  OBVIOUS
<1>2. /\ union \in Seq(R) /\ Grouped(union)
      /\ KeysOf(union) = KeysOf(map) \cup KeysOf(other)
  BY <1>1, CombinedHas
<1>3. Combine(union, other) = union
  BY <1>2, GroupedIsKept
<1>4. Combine(union, map) = union
  BY <1>2, GroupedIsKept
<1>5. Combine(union, union) = union
  BY <1>2, GroupedIsKept
<1> QED
  BY <1>1, <1>3, <1>4, <1>5 DEF CombineAbsorbs

(* A record of this map stands in the combined one, and of two of a type   *)
(* the earlier one stands before the other.                                *)
LEMMA OrderOfTypeIsKept ==
  ASSUME NEW R, Records(R), NEW map \in Seq(R), NEW other \in Seq(R),
         NoDuplicates(map), NoDuplicates(other),
         NEW union, union = Combine(map, other),
         NEW i \in DOMAIN map, NEW j \in DOMAIN map,
         i < j, map[i].type = map[j].type
  PROVE  (CHOOSE n \in DOMAIN union : union[n] = map[i])
           < (CHOOSE n \in DOMAIN union : union[n] = map[j])
<1>1. PICK all : all = map \o other
  OBVIOUS
<1>2. PICK W : W = Merged(map, other)
  OBVIOUS
<1>3. union \in Seq(R) /\ Distinct(union)
  BY CombinedHas
<1>4. PICK p : /\ Places(p, Len(union), all, W)
               /\ \A m \in DOMAIN union : union[m] = all[p[m]]
  <2>1. Copied(union, map \o other, Merged(map, other))
    BY CombinedHas
  <2> QED
    BY <2>1, <1>1, <1>2 DEF Copied
<1>5. \A n \in DOMAIN map : n \in W /\ all[n] = map[n]
  BY <1>1, <1>2, Joined DEF Merged
<1>6. DOMAIN union = 1 .. Len(union)
  BY <1>3
<1>7. PICK k \in DOMAIN union : p[k] = i
  BY <1>4, <1>5, <1>6 DEF Places
<1>8. PICK m \in DOMAIN union : p[m] = j
  BY <1>4, <1>5, <1>6 DEF Places
<1>9. union[k] = map[i] /\ union[m] = map[j]
  BY <1>4, <1>5, <1>7, <1>8
<1>10. \A n \in DOMAIN union : union[n] = map[i] => n = k
  BY <1>3, <1>7, <1>9 DEF Distinct
<1>11. \A n \in DOMAIN union : union[n] = map[j] => n = m
  BY <1>3, <1>8, <1>9 DEF Distinct
<1>12. k # m
  BY <1>7, <1>8
<1>13. ~(m < k)
  <2> SUFFICES ASSUME m < k PROVE FALSE
    OBVIOUS
  <2>1. Precedes(all, j, i)
    BY <1>4, <1>6, <1>7, <1>8 DEF Places
  <2>2. all[i].type = all[j].type /\ all[i].type \in Nat
    BY <1>5 DEF Records
  <2> QED
    BY <2>1, <2>2 DEF Precedes
<1>14. k < m
  BY <1>6, <1>12, <1>13
<1> QED
  BY <1>9, <1>10, <1>11, <1>14

(* The combined map is grouped by type, the records of a type keep their   *)
(* order, and writing it once more changes nothing (write_map).            *)
THEOREM OrderIsAlwaysStable ==
  ASSUME NEW R, Records(R), NEW map \in Seq(R), NEW other \in Seq(R),
         NoDuplicates(map), NoDuplicates(other)
  PROVE  OrderIsStable(map, other)
<1>1. PICK union : union = Combine(map, other)
  OBVIOUS
<1>2. union \in Seq(R) /\ Grouped(union)
  BY <1>1, CombinedHas
<1>3. Rewrite(union) = union
  <2>1. <<>> \in Seq(R) /\ KeysOf(<<>>) \subseteq KeysOf(union)
    BY DEF KeysOf
  <2>2. Combine(union, <<>>) = union
    BY <1>2, <2>1, GroupedIsKept
  <2> QED
    BY <2>2 DEF Rewrite, Combine
<1>4. \A i, j \in DOMAIN map :
        i < j /\ map[i].type = map[j].type =>
          (CHOOSE n \in DOMAIN union : union[n] = map[i])
            < (CHOOSE n \in DOMAIN union : union[n] = map[j])
  BY <1>1, OrderOfTypeIsKept
<1> QED
  BY <1>1, <1>2, <1>3, <1>4 DEF OrderIsStable, Grouped

----------------------------------------------------------------------------
(* The updater.                                                            *)

Others(map, key) == {i \in DOMAIN map : KeyOf(map[i]) # key}

(* Removing a record writes the places of the others.                      *)
LEMMA RemoveWrites ==
  ASSUME NEW R, NEW map \in Seq(R), NEW key
  PROVE  RemoveRecord(map, key) = GroupByType(map, Others(map, key))
<1>1. map \o <<>> \o <<>> = map
  OBVIOUS
<1>2. KeysOf(<<>>) = {}
  BY DEF KeysOf
<1> DEFINE Written(i) ==
      \/ i \in 1 .. Len(map) /\ KeyOf(map[i]) \in (KeysOf(map) \ {key}) \ {}
      \/ /\ i \in Len(map) + 1 .. Len(map) + Len(<<>>)
         /\ Secondary(map, map[i], {})
      \/ i \in Len(map) + Len(<<>>) + 1 .. Len(map)
<1>3. RemoveRecord(map, key) = GroupByType(map, {i \in DOMAIN map : Written(i)})
  BY <1>1, <1>2 DEF RemoveRecord, WriteMap
<1>4. ASSUME NEW i \in DOMAIN map
      PROVE  Written(i) <=> KeyOf(map[i]) # key
  <2>1. i \in 1 .. Len(map) /\ KeyOf(map[i]) \in KeysOf(map)
    BY DEF KeysOf
  <2>2. i \notin Len(map) + 1 .. Len(map) + Len(<<>>)
    BY <2>1
  <2>3. i \notin Len(map) + Len(<<>>) + 1 .. Len(map)
    BY <2>1
  <2> QED
    BY <2>1, <2>2, <2>3
<1>5. {i \in DOMAIN map : Written(i)} = Others(map, key)
  BY <1>4 DEF Others
<1> QED
  BY <1>3, <1>5

(* Setting a record writes the places of the others, and then the record.  *)
LEMMA SetWrites ==
  ASSUME NEW R, NEW map \in Seq(R), NEW r \in R
  PROVE  SetRecord(map, r) =
           GroupByType(map \o <<r>>, Others(map, KeyOf(r)) \cup {Len(map) + 1})
<1>1. PICK all : all = map \o <<r>>
  OBVIOUS
<1>2. map \o <<>> = map
  OBVIOUS
<1>3. KeysOf(<<r>>) = {KeyOf(r)}
  BY DEF KeysOf
<1>4. /\ Len(all) = Len(map) + 1 /\ DOMAIN all = 1 .. Len(map) + 1
      /\ \A i \in 1 .. Len(map) : all[i] = map[i]
  BY <1>1
<1> DEFINE Written(i) ==
      \/ i \in 1 .. Len(map) /\ KeyOf(all[i]) \in KeysOf(map) \ {KeyOf(r)}
      \/ /\ i \in Len(map) + 1 .. Len(map) + Len(<<>>)
         /\ Secondary(map, all[i], {KeyOf(r)})
      \/ i \in Len(map) + Len(<<>>) + 1 .. Len(all)
<1>5. SetRecord(map, r) = GroupByType(all, {i \in DOMAIN all : Written(i)})
  BY <1>1, <1>2, <1>3 DEF SetRecord, WriteMap
<1>6. ASSUME NEW i \in DOMAIN all
      PROVE  Written(i) <=> i \in Others(map, KeyOf(r)) \/ i = Len(map) + 1
  <2>1. CASE i \in 1 .. Len(map)
    <3>1. i \notin Len(map) + 1 .. Len(map) + Len(<<>>)
      BY <2>1
    <3>2. i \notin Len(map) + Len(<<>>) + 1 .. Len(all) /\ i # Len(map) + 1
      BY <2>1, <1>4
    <3>3. KeyOf(all[i]) = KeyOf(map[i]) /\ KeyOf(map[i]) \in KeysOf(map)
      BY <2>1, <1>4 DEF KeysOf
    <3> QED
      BY <2>1, <3>1, <3>2, <3>3 DEF Others
  <2>2. CASE i = Len(map) + 1
    <3>1. i \in Len(map) + Len(<<>>) + 1 .. Len(all)
      BY <2>2, <1>4
    <3> QED
      BY <3>1, <2>2
  <2> QED
    BY <2>1, <2>2, <1>4
<1>7. {i \in DOMAIN all : Written(i)} =
        Others(map, KeyOf(r)) \cup {Len(map) + 1}
  <2>1. Others(map, KeyOf(r)) \subseteq DOMAIN all
    BY <1>4 DEF Others
  <2>2. Len(map) + 1 \in DOMAIN all
    BY <1>4
  <2> QED
    BY <2>1, <2>2, <1>6
<1> QED
  BY <1>1, <1>5, <1>7

(* A map has the records of another, but for one that has replaced its own. *)
Updated(set, map, r) ==
  /\ KeysOf(set) = KeysOf(map) \cup {KeyOf(r)}
  /\ \A key \in KeysOf(set) :
       ValueOf(set, key) = IF key = KeyOf(r) THEN r.value ELSE ValueOf(map, key)

(* What setting a record leaves: the others as they were, in their order,  *)
(* and the record.                                                         *)
LEMMA SetHas ==
  ASSUME NEW R, Records(R), NEW map \in Seq(R), NoDuplicates(map), NEW r \in R,
         NEW set, set = SetRecord(map, r)
  PROVE  /\ set \in Seq(R)
         /\ Distinct(set)
         /\ Updated(set, map, r)
         /\ Copied(set, map \o <<r>>, Others(map, KeyOf(r)) \cup {Len(map) + 1})
<1>1. PICK all : all = map \o <<r>>
  OBVIOUS
<1>2. PICK W : W = Others(map, KeyOf(r)) \cup {Len(map) + 1}
  OBVIOUS
<1>3. Distinct(map)
  BY NoDuplicatesIsDistinct
<1>4. /\ all \in Seq(R) /\ DOMAIN all = 1 .. Len(map) + 1
      /\ all[Len(map) + 1] = r
      /\ \A i \in DOMAIN map : all[i] = map[i]
  BY <1>1
<1>5. W \subseteq DOMAIN all
  BY <1>2, <1>4 DEF Others
<1>6. \A i \in W : \/ i = Len(map) + 1
                   \/ i \in DOMAIN map /\ KeyOf(map[i]) # KeyOf(r)
  BY <1>2 DEF Others
<1>7. \A i, j \in W : KeyOf(all[i]) = KeyOf(all[j]) => i = j
  <2> SUFFICES ASSUME NEW i \in W, NEW j \in W, KeyOf(all[i]) = KeyOf(all[j])
               PROVE  i = j
    OBVIOUS
  <2>1. CASE i \in DOMAIN map /\ j \in DOMAIN map
    BY <2>1, <1>3, <1>4 DEF Distinct
  <2>2. CASE i = Len(map) + 1
    BY <2>2, <1>4, <1>6
  <2>3. CASE j = Len(map) + 1
    BY <2>3, <1>4, <1>6
  <2> QED
    BY <2>1, <2>2, <2>3, <1>6
<1>8. set = GroupByType(all, W)
  BY <1>1, <1>2, SetWrites
<1>9. /\ set \in Seq(R) /\ Distinct(set)
      /\ KeysOf(set) = {KeyOf(all[i]) : i \in W}
      /\ \A i \in W : ValueOf(set, KeyOf(all[i])) = all[i].value
      /\ Copied(set, all, W)
  BY <1>4, <1>5, <1>7, <1>8, WrittenIsKept
<1>10. Len(map) + 1 \in W /\ \A i \in DOMAIN map : KeyOf(map[i]) # KeyOf(r) => i \in W
  BY <1>2 DEF Others
<1>11. KeysOf(set) = KeysOf(map) \cup {KeyOf(r)}
  <2>1. \A i \in W : KeyOf(all[i]) \in KeysOf(map) \cup {KeyOf(r)}
    BY <1>4, <1>6 DEF KeysOf
  <2>2. KeyOf(r) \in {KeyOf(all[i]) : i \in W}
    BY <1>4, <1>10
  <2>3. \A i \in DOMAIN map : KeyOf(map[i]) \in {KeyOf(all[j]) : j \in W}
    BY <2>2, <1>4, <1>10
  <2> QED
    BY <2>1, <2>2, <2>3, <1>9 DEF KeysOf
<1>12. ValueOf(set, KeyOf(r)) = r.value
  BY <1>4, <1>9, <1>10
<1>13. ASSUME NEW key \in KeysOf(map), key # KeyOf(r)
       PROVE  ValueOf(set, key) = ValueOf(map, key)
  <2>1. PICK i \in DOMAIN map : KeyOf(map[i]) = key
    BY DEF KeysOf
  <2>2. i \in W /\ all[i] = map[i]
    BY <2>1, <1>13, <1>4, <1>10
  <2>3. ValueOf(set, key) = map[i].value
    BY <2>1, <2>2, <1>9
  <2>4. ValueOf(map, key) = map[i].value
    BY <2>1, <1>3, ValueIsFound
  <2> QED
    BY <2>3, <2>4
<1>14. Copied(set, map \o <<r>>, Others(map, KeyOf(r)) \cup {Len(map) + 1})
  BY <1>1, <1>2, <1>9
<1>15. Updated(set, map, r)
  BY <1>11, <1>12, <1>13 DEF Updated
<1> QED
  BY <1>9, <1>11, <1>14, <1>15

(* A record that was set and removed again leaves what there is without it.*)
LEMMA RemoveUndoesSet ==
  ASSUME NEW R, Records(R), NEW map \in Seq(R), NoDuplicates(map), NEW r \in R
  PROVE  RemoveRecord(SetRecord(map, r), KeyOf(r)) = RemoveRecord(map, KeyOf(r))
<1>1. PICK set : set = SetRecord(map, r)
  OBVIOUS
<1>2. PICK all : all = map \o <<r>>
  OBVIOUS
<1>3. PICK key : key = KeyOf(r)
  OBVIOUS
<1>4. PICK W : W = Others(map, key) \cup {Len(map) + 1}
  OBVIOUS
<1>5. set \in Seq(R) /\ DOMAIN set = 1 .. Len(set)
  <2>1. set \in Seq(R)
    BY <1>1, SetHas, Zenon
  <2> QED
    BY <2>1
<1>6. PICK p : /\ Places(p, Len(set), all, W)
               /\ \A m \in DOMAIN set : set[m] = all[p[m]]
  <2>1. Copied(set, map \o <<r>>, Others(map, KeyOf(r)) \cup {Len(map) + 1})
    BY <1>1, SetHas
  <2> QED
    BY <2>1, <1>2, <1>3, <1>4 DEF Copied
<1>7. /\ KeyOf(all[Len(map) + 1]) = key
      /\ \A i \in DOMAIN map : all[i] = map[i]
  BY <1>2, <1>3
<1>8. PICK V : V = Others(set, key)
  OBVIOUS
<1>9. V \subseteq DOMAIN set /\ \A m \in DOMAIN set : m \in V <=> KeyOf(set[m]) # key
  BY <1>8 DEF Others
<1>10. IsFiniteSet(V) /\ Typed(set, V)
  <2>1. IsFiniteSet(1 .. Len(set))
    BY <1>5, FS_Interval
  <2>2. IsFiniteSet(V)
    BY <2>1, <1>5, <1>9, FS_Subset
  <2> QED
    BY <2>2, <1>5, <1>9 DEF Typed, Records
<1>11. PICK n : n = Cardinality(V)
  OBVIOUS
<1>12. PICK q : Places(q, n, set, V)
  BY <1>10, <1>11, PlacesExist
<1>13. RemoveRecord(set, key) = [m \in 1 .. n |-> set[q[m]]]
  <2>1. GroupByType(set, V) = [m \in 1 .. n |-> set[q[m]]]
    BY <1>10, <1>12, GroupedAsPlaced
  <2> QED
    BY <2>1, <1>5, <1>8, RemoveWrites
<1>14. ASSUME NEW m \in V
       PROVE  p[m] \in Others(map, key) /\ set[m] = map[p[m]]
  <2>1. m \in 1 .. Len(set) /\ set[m] = all[p[m]] /\ p[m] \in W
    BY <1>5, <1>6, <1>9 DEF Places
  <2>2. p[m] # Len(map) + 1
    BY <2>1, <1>7, <1>9, <1>5
  <2>3. p[m] \in Others(map, key)
    BY <2>1, <2>2, <1>4
  <2>4. p[m] \in DOMAIN map
    BY <2>3 DEF Others
  <2> QED
    BY <2>1, <2>3, <2>4, <1>7
<1> DEFINE o == [m \in 1 .. n |-> p[q[m]]]
<1>15. \A m \in 1 .. n : q[m] \in V
  BY <1>12 DEF Places
<1>16. o \in [1 .. n -> Others(map, key)]
  BY <1>14, <1>15
<1>17. ASSUME NEW i \in Others(map, key)
       PROVE  \E m \in 1 .. n : o[m] = i
  <2>1. i \in W /\ i \in DOMAIN map /\ KeyOf(map[i]) # key
    BY <1>4 DEF Others
  <2>2. PICK k \in DOMAIN set : p[k] = i
    BY <2>1, <1>5, <1>6 DEF Places
  <2>3. set[k] = map[i]
    BY <2>1, <2>2, <1>6, <1>7
  <2>4. k \in V
    BY <2>1, <2>2, <2>3, <1>9
  <2>5. PICK m \in 1 .. n : q[m] = k
    BY <2>4, <1>12 DEF Places
  <2> QED
    BY <2>2, <2>5
<1>18. ASSUME NEW k \in 1 .. n, NEW m \in 1 .. n, k < m
       PROVE  Precedes(map, o[k], o[m])
  <2>1. PICK x, y : x = q[k] /\ y = q[m]
    OBVIOUS
  <2>2. x \in V /\ y \in V /\ Precedes(set, x, y)
    BY <2>1, <1>12, <1>15, <1>18 DEF Places
  <2>3. set[x] = map[p[x]] /\ set[y] = map[p[y]]
    BY <2>2, <1>14
  <2>4. x < y => Precedes(all, p[x], p[y])
    BY <2>2, <1>5, <1>6, <1>9 DEF Places
  <2>5. p[x] \in DOMAIN map /\ p[y] \in DOMAIN map
    BY <2>2, <1>14 DEF Others
  <2>6. all[p[x]] = map[p[x]] /\ all[p[y]] = map[p[y]]
    BY <2>5, <1>7
  <2>7. map[p[x]].type \in Nat /\ map[p[y]].type \in Nat
    BY <2>5 DEF Records
  <2>8. Precedes(map, p[x], p[y])
    BY <2>2, <2>3, <2>4, <2>6, <2>7 DEF Precedes
  <2> QED
    BY <2>1, <2>8
<1>19. Places(o, n, map, Others(map, key))
  <2> HIDE DEF o
  <2>1. n \in Nat
    BY <1>12 DEF Places
  <2> QED
    BY <2>1, <1>16, <1>17, <1>18 DEF Places
<1>20. Typed(map, Others(map, key))
  BY DEF Typed, Records, Others
<1>21. RemoveRecord(map, key) = [m \in 1 .. n |-> map[o[m]]]
  <2>1. GroupByType(map, Others(map, key)) = [m \in 1 .. n |-> map[o[m]]]
    <3> HIDE DEF o
    <3> QED
      BY <1>19, <1>20, GroupedAsPlaced
  <2> QED
    BY <2>1, RemoveWrites
<1>22. \A m \in 1 .. n : set[q[m]] = map[o[m]]
  BY <1>14, <1>15
<1>23. RemoveRecord(set, key) = RemoveRecord(map, key)
  BY <1>13, <1>21, <1>22
<1> QED
  BY <1>1, <1>3, <1>23

(* Setting a record replaces that record alone, and removing it again      *)
(* leaves the others alone (set_input_record and remove_input_record).     *)
THEOREM SetAlwaysUpdates ==
  ASSUME NEW R, Records(R), NEW map \in Seq(R), NoDuplicates(map), NEW r \in R
  PROVE  SetIsUpdate(map, r)
<1>1. PICK set : set = SetRecord(map, r)
  OBVIOUS
<1>2. /\ set \in Seq(R) /\ Distinct(set)
      /\ KeysOf(set) = KeysOf(map) \cup {KeyOf(r)}
      /\ Updated(set, map, r)
  <2>1. set \in Seq(R)
    BY <1>1, SetHas, Zenon
  <2>2. Distinct(set)
    BY <1>1, SetHas, Zenon
  <2>3. Updated(set, map, r)
    BY <1>1, SetHas, Zenon
  <2> QED
    BY <2>1, <2>2, <2>3 DEF Updated
<1>3. NoDuplicates(set)
  BY <1>2, NoDuplicatesIsDistinct
<1>4. AsFunction(set) =
        [key \in KeysOf(map) \cup {KeyOf(r)} |->
           IF key = KeyOf(r) THEN r.value ELSE ValueOf(map, key)]
  BY <1>2 DEF AsFunction, Updated
<1>5. RemoveRecord(set, KeyOf(r)) = RemoveRecord(map, KeyOf(r))
  BY <1>1, RemoveUndoesSet
<1> QED
  BY <1>1, <1>3, <1>4, <1>5 DEF SetIsUpdate
=============================================================================
