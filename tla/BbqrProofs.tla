----------------------------- MODULE BbqrProofs -----------------------------
(***************************************************************************)
(* What holds of bbqr::Joiner for any set of files, cut in any way that    *)
(* split_raw accepts, and any limit: BbqrJoiner's invariants, by one that  *)
(* every action keeps, and that the joiner is a receiver of Reassembly.    *)
(***************************************************************************)
EXTENDS BbqrJoiner, FountainCut, FiniteSetTheorems, WellFoundedInduction

----------------------------------------------------------------------------
(* The cut *)

(* An empty file has no groups.                                            *)
LEMMA CeilDivZero ==
  ASSUME NEW b \in Positive
  PROVE  CeilDiv(0, b) = 0
BY SMT DEF CeilDiv, Positive

LEMMA GroupsType ==
  ASSUME NEW enc \in Encodings
  PROVE  /\ GroupBytes(enc) \in Positive
         /\ GroupChars(enc) \in Positive
         /\ \A n \in Nat : EncodedLen(enc, n) \in Nat
         /\ EncodedLen(enc, 0) = 0
         /\ \A m, n \in Nat : m <= n => EncodedLen(enc, m) <= EncodedLen(enc, n)
         /\ \A k \in Nat :
              EncodedLen(enc, k * GroupBytes(enc)) = k * GroupChars(enc)
BY SMT DEF Encodings, GroupBytes, GroupChars, EncodedLen, CeilDiv, Positive

(* As many groups fit in a part as MaxGroups says.                         *)
LEMMA GroupsFit ==
  ASSUME NEW enc \in Encodings, NEW max \in Nat, Capacity(max) >= 0
  PROVE  /\ MaxGroups(enc, max) \in Nat
         /\ \A k \in Nat : k * GroupChars(enc) <= Capacity(max)
                             <=> k <= MaxGroups(enc, max)
<1>1. Capacity(max) \in Nat
  BY LimitsAssumption DEF Capacity
<1> QED
  BY <1>1, SMT DEF MaxGroups, GroupChars, Encodings

(* A file that does not fit in one part: so many groups in each.           *)
PartGroups(stored, enc, max) ==
  CeilDiv(Groups(stored, enc),
          CeilDiv(Groups(stored, enc), MaxGroups(enc, max)))

OnePart(stored, enc, max) == EncodedLen(enc, stored) <= Capacity(max)

LEMMA OnePartCut ==
  ASSUME NEW stored \in Nat, NEW enc \in Encodings, NEW max \in Nat,
         OnePart(stored, enc, max)
  PROVE  /\ PartLen(stored, enc, max) = stored
         /\ NumParts(stored, enc, max) = 1
<1>1. PartLen(stored, enc, max) = stored
  BY DEF PartLen, OnePart
<1>2. CeilDiv(stored, AtLeastOne(stored)) \in {0, 1}
  BY SMT DEF CeilDiv, AtLeastOne
<1> QED
  BY <1>1, <1>2 DEF NumParts, AtLeastOne

LEMMA ManyPartsCut ==
  ASSUME NEW stored \in Nat, NEW enc \in Encodings, NEW max \in Nat,
         ~OnePart(stored, enc, max), Capacity(max) >= 0, MaxGroups(enc, max) # 0
  PROVE  /\ stored \in Positive
         /\ Groups(stored, enc) \in Positive
         /\ MaxGroups(enc, max) \in Positive
         /\ CeilDiv(Groups(stored, enc), MaxGroups(enc, max)) \in Positive
         /\ PartGroups(stored, enc, max) \in 1 .. MaxGroups(enc, max)
         /\ PartLen(stored, enc, max)
              = PartGroups(stored, enc, max) * GroupBytes(enc)
         /\ PartLen(stored, enc, max) \in Positive
         /\ NumParts(stored, enc, max) = CeilDiv(stored, PartLen(stored, enc, max))
         /\ NumParts(stored, enc, max) \in Positive
<1> DEFINE groups == Groups(stored, enc)
           most == MaxGroups(enc, max)
           count == CeilDiv(groups, most)
           each == PartGroups(stored, enc, max)
<1>1. stored \in Positive
  BY GroupsType, LimitsAssumption DEF OnePart, Positive, Capacity
<1>2. most \in Positive
  BY GroupsFit DEF Positive
<1>3. groups \in Positive
  BY <1>1, GroupsType, CeilDivCovers DEF Groups
<1>4. count \in Positive /\ groups <= count * most
  BY <1>2, <1>3, CeilDivCovers
<1>5. each \in Positive
  BY <1>3, <1>4, CeilDivCovers DEF PartGroups
<1>6. each <= most
  <2>1. groups <= most * count
    BY <1>2, <1>3, <1>4 DEF Positive
  <2> QED
    BY <1>2, <1>3, <1>4, <2>1, CeilDivLeast DEF PartGroups, Positive
<1>7. PartLen(stored, enc, max) = each * GroupBytes(enc)
  BY DEF PartLen, PartGroups, OnePart
<1>8. PartLen(stored, enc, max) \in Positive
  <2>1. \A a, b \in Positive : a * b \in Positive
    BY DEF Positive
  <2> QED
    BY <1>5, <1>7, <2>1, GroupsType
<1>9. CeilDiv(stored, PartLen(stored, enc, max)) \in Positive
  BY <1>1, <1>8, CeilDivCovers
<1>10. NumParts(stored, enc, max) = CeilDiv(stored, PartLen(stored, enc, max))
  BY <1>8, <1>9 DEF NumParts, AtLeastOne, Positive
<1> QED
  BY <1>1, <1>2, <1>3, <1>4, <1>5, <1>6, <1>7, <1>8, <1>9, <1>10 DEF Positive

(* A file that is not refused fits in one part or has room for a group.    *)
LEMMA SplitCondition ==
  ASSUME NEW stored \in Nat, NEW enc \in Encodings, NEW max \in Nat,
         SplitRefusal(stored, enc, max) = None
  PROVE  /\ Capacity(max) >= 0
         /\ ~OnePart(stored, enc, max) => MaxGroups(enc, max) # 0
BY GroupsType, LimitsAssumption, NoneAssumption
   DEF SplitRefusal, Capacity, OnePart

LEMMA PartLenType ==
  ASSUME NEW stored \in Nat, NEW enc \in Encodings, NEW max \in Nat,
         SplitRefusal(stored, enc, max) = None
  PROVE  /\ PartLen(stored, enc, max) \in Nat
         /\ NumParts(stored, enc, max) \in Positive
<1>1. CASE OnePart(stored, enc, max)
  BY <1>1, OnePartCut DEF Positive
<1>2. CASE ~OnePart(stored, enc, max)
  BY <1>2, SplitCondition, ManyPartsCut DEF Positive
<1> QED
  BY <1>1, <1>2

(* "parts of at most max_part_len characters, header included", cut        *)
(* between groups, for files and lengths of any size.                      *)
THEOREM CutAlwaysLegal ==
  \A stored \in Nat, enc \in Encodings, max \in Nat :
    CutIsLegal(stored, enc, max)
<1> SUFFICES ASSUME NEW stored \in Nat, NEW enc \in Encodings, NEW max \in Nat,
                    SplitRefusal(stored, enc, max) = None
             PROVE  LegalCut(stored, enc, max, NumParts(stored, enc, max),
                             PartLen(stored, enc, max))
  BY DEF CutIsLegal
<1> DEFINE n == NumParts(stored, enc, max)
           p == PartLen(stored, enc, max)
           each == PartGroups(stored, enc, max)
<1>1. /\ Capacity(max) >= 0
      /\ ~OnePart(stored, enc, max) => MaxGroups(enc, max) # 0
  BY SplitCondition
<1>2. CASE OnePart(stored, enc, max)
  BY <1>2, OnePartCut, GroupsType, LimitsAssumption
     DEF LegalCut, OnePart, Capacity
<1>3. CASE ~OnePart(stored, enc, max)
  <2>1. /\ stored \in Positive /\ p \in Positive /\ n \in Positive
        /\ each \in 1 .. MaxGroups(enc, max)
        /\ p = each * GroupBytes(enc)
        /\ n = CeilDiv(stored, p)
        /\ MaxGroups(enc, max) \in Positive
    BY <1>1, <1>3, ManyPartsCut
  <2>2. EncodedLen(enc, p) = each * GroupChars(enc)
    BY <2>1, GroupsType
  <2>3. EncodedLen(enc, p) <= Capacity(max)
    BY <1>1, <2>1, <2>2, GroupsFit DEF Positive
  <2>4. HeaderLen + EncodedLen(enc, p) <= max
    BY <2>1, <2>3, GroupsType, LimitsAssumption DEF Capacity, Positive
  <2>5. (n - 1) * p < stored /\ stored <= n * p
    BY <2>1, CeilDivCovers
  <2>6. n # 1
    <3> SUFFICES ASSUME n = 1 PROVE FALSE
      OBVIOUS
    <3>1. stored <= p
      BY <2>1, <2>5 DEF Positive
    <3>2. EncodedLen(enc, stored) <= EncodedLen(enc, p)
      BY <2>1, <3>1, GroupsType DEF Positive
    <3> QED
      BY <1>3, <2>1, <2>3, <3>2, GroupsType, LimitsAssumption
         DEF OnePart, Capacity, Positive
  <2>7. p % GroupBytes(enc) = 0
    <3>1. \A k \in Nat : (k * 1) % 1 = 0 /\ (k * 5) % 5 = 0
      OBVIOUS
    <3>2. GroupBytes(enc) \in {1, 5}
      BY DEF GroupBytes
    <3> QED
      BY <2>1, <3>1, <3>2
  <2> QED
    BY <2>4, <2>5, <2>6, <2>7 DEF LegalCut
<1> QED
  BY <1>2, <1>3

(* A legal cut into n parts of p bytes has at least as many parts, and     *)
(* when it has as many, parts that are as long.                            *)
LEMMA LegalCutsAreWorse ==
  ASSUME NEW stored \in Nat, NEW enc \in Encodings, NEW max \in Nat,
         Capacity(max) >= 0,
         NEW n \in Positive, NEW p \in Nat, LegalCut(stored, enc, max, n, p),
         ~OnePart(stored, enc, max)
  PROVE  /\ MaxGroups(enc, max) # 0
         /\ \/ NumParts(stored, enc, max) < n
            \/ /\ NumParts(stored, enc, max) = n
               /\ PartLen(stored, enc, max) <= p
<1> DEFINE size == GroupBytes(enc)
           chars == GroupChars(enc)
           groups == Groups(stored, enc)
           most == MaxGroups(enc, max)
           k == p \div size
           count == CeilDiv(groups, most)
           each == PartGroups(stored, enc, max)
           best == NumParts(stored, enc, max)
<1>1. HeaderLen + EncodedLen(enc, p) <= max
  BY DEF LegalCut
<1>2. EncodedLen(enc, p) <= Capacity(max)
  BY <1>1, GroupsType, LimitsAssumption DEF Capacity
<1>3. n # 1
  BY <1>2 DEF LegalCut, OnePart
<1>4. p % size = 0 /\ stored <= n * p
  BY <1>3 DEF LegalCut, Positive
<1>5. k \in Nat /\ p = k * size
  <2>1. size \in {1, 5}
    BY DEF GroupBytes
  <2>2. \A q \in Nat : /\ q \div 1 \in Nat /\ (q % 1 = 0 => q = (q \div 1) * 1)
                       /\ q \div 5 \in Nat /\ (q % 5 = 0 => q = (q \div 5) * 5)
    OBVIOUS
  <2> QED
    BY <1>4, <2>1, <2>2
<1> HIDE DEF k
<1>6. k <= most /\ most \in Nat
  BY <1>2, <1>5, GroupsType, GroupsFit
<1>7. stored \in Positive
  BY GroupsType, LimitsAssumption DEF OnePart, Positive, Capacity
<1>8. k # 0
  BY <1>4, <1>5, <1>7, GroupsType DEF Positive
<1>9. most # 0
  BY <1>6, <1>5, <1>8
<1>10. /\ groups \in Positive /\ most \in Positive /\ count \in Positive
       /\ each \in 1 .. most
       /\ PartLen(stored, enc, max) = each * size
       /\ PartLen(stored, enc, max) \in Positive
       /\ best = CeilDiv(stored, PartLen(stored, enc, max))
       /\ best \in Positive
  BY <1>9, ManyPartsCut
<1>11. groups <= n * k
  <2>1. n * (k * size) = (n * k) * size
    BY <1>5, GroupsType DEF Positive
  <2>2. n * k \in Nat
    BY <1>5 DEF Positive
  <2> QED
    BY <1>4, <1>5, <1>7, <2>1, <2>2, GroupsType, CeilDivLeast DEF Groups
<1>12. n * k <= n * most
  BY <1>5, <1>6 DEF Positive
<1>13. count <= n
  <2>1. groups <= n * most
    BY <1>5, <1>6, <1>10, <1>11, <1>12 DEF Positive
  <2> QED
    BY <1>10, <2>1, CeilDivLeast DEF Positive
<1>14. best <= count
  <2>1. groups <= each * count
    BY <1>10, CeilDivCovers DEF PartGroups
  <2>2. stored <= groups * size
    BY <1>7, GroupsType, CeilDivCovers DEF Groups
  <2>3. groups * size <= (each * count) * size
    <3>1. each * count \in Nat
      BY <1>10 DEF Positive
    <3>2. size \in {1, 5}
      BY DEF GroupBytes
    <3> QED
      BY <1>10, <2>1, <3>1, <3>2 DEF Positive
  <2>4. (each * count) * size = count * (each * size)
    BY <1>10, GroupsType DEF Positive
  <2>5. stored <= count * (each * size)
    BY <1>7, <1>10, <2>2, <2>3, <2>4, GroupsType DEF Positive
  <2> QED
    BY <1>7, <1>10, <2>5, CeilDivLeast DEF Positive
<1>15. ASSUME best = n
       PROVE  each * size <= p
  <2>1. count = n
    BY <1>10, <1>13, <1>14, <1>15 DEF Positive
  <2>2. groups <= k * n
    BY <1>5, <1>11 DEF Positive
  <2>3. each <= k
    BY <1>5, <1>10, <2>1, <2>2, CeilDivLeast DEF PartGroups
  <2> QED
    BY <1>5, <1>10, <2>3, GroupsType DEF Positive
<1> QED
  BY <1>9, <1>10, <1>13, <1>14, <1>15 DEF Positive

(* "The parts are as few as max_part_len allows, and then as short", and a *)
(* file is refused only when it cannot be cut.                             *)
THEOREM CutAlwaysBest ==
  \A stored \in Nat, enc \in Encodings, max \in Nat :
    CutIsBest(stored, enc, max)
<1> SUFFICES ASSUME NEW stored \in Nat, NEW enc \in Encodings, NEW max \in Nat,
                    NEW n \in 1 .. (stored + 1), NEW p \in 0 .. stored,
                    LegalCut(stored, enc, max, n, p)
             PROVE  IF SplitRefusal(stored, enc, max) = None
                      THEN \/ NumParts(stored, enc, max) < n
                           \/ /\ NumParts(stored, enc, max) = n
                              /\ PartLen(stored, enc, max) <= p
                      ELSE n > MaxParts
  BY DEF CutIsBest
<1>1. n \in Positive /\ p \in Nat
  BY DEF Positive
<1>2. Capacity(max) >= 0
  BY <1>1, GroupsType, LimitsAssumption DEF LegalCut, Capacity
<1>3. CASE OnePart(stored, enc, max)
  <2>1. PartLen(stored, enc, max) = stored /\ NumParts(stored, enc, max) = 1
    BY <1>3, OnePartCut
  <2>2. n = 1 => p = stored
    BY DEF LegalCut
  <2>3. SplitRefusal(stored, enc, max) # None => MaxParts < 1
    BY <1>2, <1>3, <2>1, GroupsType, LimitsAssumption
       DEF SplitRefusal, OnePart, Capacity
  <2> QED
    BY <1>1, <2>1, <2>2, <2>3, LimitsAssumption DEF Positive
<1>4. CASE ~OnePart(stored, enc, max)
  <2>1. /\ MaxGroups(enc, max) # 0
        /\ \/ NumParts(stored, enc, max) < n
           \/ /\ NumParts(stored, enc, max) = n
              /\ PartLen(stored, enc, max) <= p
    BY <1>1, <1>2, <1>4, LegalCutsAreWorse
  <2>2. NumParts(stored, enc, max) \in Positive
    BY <1>2, <1>4, <2>1, ManyPartsCut
  <2>3. SplitRefusal(stored, enc, max) # None =>
          NumParts(stored, enc, max) > MaxParts
    BY <1>2, <2>1, LimitsAssumption DEF SplitRefusal, Capacity
  <2> QED
    BY <1>1, <2>1, <2>2, <2>3, LimitsAssumption DEF Positive
<1> QED
  BY <1>3, <1>4

----------------------------------------------------------------------------
(* The parts of a file *)

LEMMA PartType ==
  ASSUME NEW f \in File
  PROVE  /\ PartsOf(f) \in Positive
         /\ HeaderOf(f) # None
         /\ HeaderOf(f).numParts = PartsOf(f)
         /\ \A i \in Places(f) : DataOf(f, i) # None /\ DataOf(f, i).len \in Int
<1>1. /\ PartsOf(f) \in Positive
      /\ PartLen(StoredLen[f], Encoding[f], MaxPartLen[f]) \in Nat
      /\ StoredLen[f] \in Nat
  BY PartLenType, FileAssumption DEF PartsOf
<1>2. ASSUME NEW i \in Places(f)
      PROVE  DataOf(f, i).len \in Int
  <2>1. i \in Int
    BY <1>1 DEF Places, Positive
  <2> QED
    BY <1>1, <2>1 DEF DataOf, ChunkLen
<1> QED
  BY <1>1, <1>2, NoneAssumption DEF HeaderOf

----------------------------------------------------------------------------
(* Sums *)

(* Induction over the natural numbers, for a set rather than an operator.  *)
LEMMA Induction ==
  ASSUME NEW S, 0 \in S, \A n \in Nat : n \in S => n + 1 \in S
  PROVE  Nat \subseteq S
<1> SUFFICES ASSUME Nat \ S # {} PROVE FALSE
  OBVIOUS
<1>1. PICK m \in Nat \ S : \A k \in Nat \ S : ~(<<k, m>> \in OpToRel(<, Nat))
  BY NatLessThanWellFounded, WFMin
<1>2. m # 0 /\ m - 1 \in Nat /\ m - 1 < m
  OBVIOUS
<1>3. m - 1 \in S
  <2>1. <<m - 1, m>> \in Nat \X Nat
    BY <1>2
  <2>2. <<m - 1, m>> \in OpToRel(<, Nat)
    BY <1>2, <2>1, Zenon DEF OpToRel
  <2> QED
    BY <1>1, <1>2, <2>2
<1> QED
  BY <1>2, <1>3

AnyOf(s) == CHOOSE x \in s : TRUE
Less(s) == s \ {AnyOf(s)}

SumsOver(D, sums, g) ==
  sums = [s \in D |-> IF s = {} THEN 0 ELSE g[AnyOf(s)] + sums[Less(s)]]

LEMMA SumDef ==
  ASSUME NEW g
  PROVE  SumFunction(g) = (CHOOSE sums : SumsOver(SUBSET DOMAIN g, sums, g))[DOMAIN g]
BY DEF SumFunction, SumFunctionOnSet, FoldFunctionOnSet, MapThenFoldSet, SumsOver, AnyOf, Less

LEMMA LessIsLess ==
  ASSUME NEW S, IsFiniteSet(S), NEW s \in SUBSET S, s # {}
  PROVE  /\ AnyOf(s) \in s
         /\ Less(s) \in SUBSET S
         /\ Cardinality(s) \in Nat \ {0}
         /\ Cardinality(Less(s)) = Cardinality(s) - 1
<1>1. AnyOf(s) \in s
  BY DEF AnyOf
<1>2. IsFiniteSet(s)
  BY FS_Subset
<1> QED
  BY <1>1, <1>2, FS_RemoveElement, FS_CardinalityType, FS_EmptySet DEF Less

LEMMA SumsExist ==
  ASSUME NEW g, IsFiniteSet(DOMAIN g)
  PROVE  \E sums : SumsOver(SUBSET DOMAIN g, sums, g)
<1> DEFINE S == DOMAIN g
           Upto(n) == {s \in SUBSET S : Cardinality(s) <= n}
           Good == {n \in Nat : \E sums : SumsOver(Upto(n), sums, g)}
<1>1. 0 \in Good
  <2> DEFINE h == [s \in Upto(0) |-> 0]
  <2>1. \A s \in Upto(0) : s = {}
    BY LessIsLess
  <2>2. SumsOver(Upto(0), h, g)
    BY <2>1 DEF SumsOver
  <2> QED
    BY <2>2
<1>2. ASSUME NEW n \in Nat, n \in Good
      PROVE  n + 1 \in Good
  <2>1. PICK h : SumsOver(Upto(n), h, g)
    BY <1>2
  <2> DEFINE h2 == [s \in Upto(n + 1) |->
                      IF s = {} THEN 0 ELSE g[AnyOf(s)] + h[Less(s)]]
  <2>2. ASSUME NEW s \in Upto(n + 1), s # {}
        PROVE  Less(s) \in Upto(n) /\ Less(s) \in Upto(n + 1)
    BY <2>2, LessIsLess
  <2>3. ASSUME NEW s \in Upto(n + 1), s # {}
        PROVE  h[Less(s)] = h2[Less(s)]
    BY <2>1, <2>2, <2>3 DEF SumsOver
  <2>4. SumsOver(Upto(n + 1), h2, g)
    BY <2>3 DEF SumsOver
  <2>5. \E sums : SumsOver(Upto(n + 1), sums, g)
    <3> HIDE DEF h2
    <3> QED
      BY <2>4
  <2> QED
    BY <2>5
<1>3. Cardinality(S) \in Good
  <2> HIDE DEF Good
  <2> QED
    BY <1>1, <1>2, Induction, FS_CardinalityType
<1>4. Upto(Cardinality(S)) = SUBSET S
  BY FS_Subset
<1> QED
  BY <1>3, <1>4

LEMMA SumsRule ==
  ASSUME NEW g, IsFiniteSet(DOMAIN g)
  PROVE  \E sums :
           /\ SumFunction(g) = sums[DOMAIN g]
           /\ sums[{}] = 0
           /\ \A s \in SUBSET DOMAIN g :
                s # {} => sums[s] = g[AnyOf(s)] + sums[Less(s)]
<1> DEFINE sums == CHOOSE sums : SumsOver(SUBSET DOMAIN g, sums, g)
<1>1. SumsOver(SUBSET DOMAIN g, sums, g)
  BY SumsExist
<1>2. SumFunction(g) = sums[DOMAIN g]
  BY SumDef
<1> HIDE DEF sums
<1>3. \A s \in SUBSET DOMAIN g :
        sums[s] = IF s = {} THEN 0 ELSE g[AnyOf(s)] + sums[Less(s)]
  BY <1>1 DEF SumsOver
<1> QED
  BY <1>2, <1>3

(* The sum of a function that agrees with another on its domain, and has   *)
(* one point more.                                                         *)
LEMMA SumOfOneMore ==
  ASSUME NEW g, NEW h, NEW x,
         IsFiniteSet(DOMAIN g), x \notin DOMAIN g,
         DOMAIN h = DOMAIN g \cup {x},
         \A y \in DOMAIN g : g[y] \in Int /\ h[y] = g[y],
         h[x] \in Int
  PROVE  SumFunction(g) \in Int /\ SumFunction(h) = SumFunction(g) + h[x]
<1> DEFINE S == DOMAIN g
           T == DOMAIN h
<1>0. IsFiniteSet(T)
  BY FS_AddElement
<1>1. PICK a : /\ SumFunction(g) = a[S]
               /\ a[{}] = 0
               /\ \A s \in SUBSET S : s # {} => a[s] = g[AnyOf(s)] + a[Less(s)]
  BY SumsRule
<1>2. PICK b : /\ SumFunction(h) = b[T]
               /\ b[{}] = 0
               /\ \A s \in SUBSET T : s # {} => b[s] = h[AnyOf(s)] + b[Less(s)]
  BY <1>0, SumsRule
<1> HIDE DEF S, T
<1> DEFINE Good == {n \in Nat : \A s \in SUBSET T : Cardinality(s) <= n =>
                      /\ b[s] \in Int
                      /\ s \in SUBSET S => b[s] = a[s]
                      /\ \A y \in s : b[s] = h[y] + b[s \ {y}]}
<1>3. 0 \in Good
  <2>1. \A s \in SUBSET T : Cardinality(s) <= 0 => s = {}
    BY <1>0, LessIsLess
  <2>2. /\ b[{}] \in Int
        /\ b[{}] = a[{}]
        /\ \A y \in {} : b[{}] = h[y] + b[{} \ {y}]
    BY <1>1, <1>2
  <2> QED
    BY <2>1, <2>2
<1>4. ASSUME NEW n \in Nat, n \in Good
      PROVE  n + 1 \in Good
  <2> SUFFICES ASSUME NEW s \in SUBSET T, Cardinality(s) <= n + 1
               PROVE  /\ b[s] \in Int
                      /\ s \in SUBSET S => b[s] = a[s]
                      /\ \A y \in s : b[s] = h[y] + b[s \ {y}]
    OBVIOUS
  <2>0. CASE s = {}
    BY <2>0, <1>1, <1>2
  <2>1. CASE s # {}
    <3> DEFINE z == AnyOf(s)
    <3>1. /\ z \in s
          /\ Less(s) \in SUBSET T
          /\ Cardinality(Less(s)) <= n
      BY <1>0, <2>1, LessIsLess
    <3>2. h[z] \in Int /\ b[Less(s)] \in Int
      BY <1>4, <3>1 DEF T, S
    <3>3. b[s] = h[z] + b[Less(s)]
      BY <1>2, <2>1
    <3>4. ASSUME s \in SUBSET S
          PROVE  b[s] = a[s]
      <4>1. Less(s) \in SUBSET S
        BY <3>4 DEF Less
      <4>2. b[Less(s)] = a[Less(s)]
        BY <1>4, <3>1, <4>1
      <4>3. h[z] = g[z]
        BY <3>1, <3>4 DEF S
      <4> QED
        BY <1>1, <2>1, <3>3, <3>4, <4>2, <4>3
    <3>5. ASSUME NEW y \in s, y # z
          PROVE  b[s] = h[y] + b[s \ {y}]
      <4>1. /\ s \ {y} \in SUBSET T
            /\ Cardinality(s \ {y}) <= n
        <5>1. IsFiniteSet(s)
          BY <1>0, FS_Subset
        <5>2. Cardinality(s) \in Nat /\ Cardinality(s \ {y}) = Cardinality(s) - 1
          BY <5>1, FS_RemoveElement, FS_CardinalityType
        <5> QED
          BY <5>2
      <4>2. z \in s \ {y} /\ y \in Less(s)
        BY <3>1, <3>5 DEF Less
      <4>3. b[Less(s)] = h[y] + b[Less(s) \ {y}]
        BY <1>4, <3>1, <4>2
      <4>4. b[s \ {y}] = h[z] + b[(s \ {y}) \ {z}]
        BY <1>4, <4>1, <4>2
      <4>5. Less(s) \ {y} = (s \ {y}) \ {z}
        BY DEF Less
      <4>6. h[y] \in Int
        BY DEF T, S
      <4>7. b[(s \ {y}) \ {z}] \in Int
        <5>1. /\ (s \ {y}) \ {z} \in SUBSET T
              /\ IsFiniteSet(s \ {y})
              /\ Cardinality(s \ {y}) \in Nat
          BY <1>0, <4>1, FS_Subset, FS_CardinalityType
        <5>2. Cardinality((s \ {y}) \ {z}) = Cardinality(s \ {y}) - 1
          BY <5>1, <4>2, FS_RemoveElement
        <5> QED
          BY <1>4, <4>1, <5>1, <5>2
      <4> DEFINE rest == b[(s \ {y}) \ {z}]
      <4>8. b[Less(s)] = h[y] + rest /\ b[s \ {y}] = h[z] + rest
        BY <4>3, <4>4, <4>5
      <4>9. rest \in Int
        BY <4>7
      <4> HIDE DEF rest
      <4> QED
        BY <3>2, <3>3, <4>6, <4>9, <4>8
    <3>6. b[s] = h[z] + b[s \ {z}]
      BY <3>3 DEF Less
    <3>7. \A y \in s : b[s] = h[y] + b[s \ {y}]
      BY <3>5, <3>6
    <3>8. b[s] \in Int
      BY <3>2, <3>3
    <3> QED
      BY <3>4, <3>7, <3>8
  <2> QED
    BY <2>0, <2>1
<1>5. Nat \subseteq Good
  <2> HIDE DEF Good
  <2> QED
    BY <1>3, <1>4, Induction
<1>6. S \in SUBSET T /\ x \in T /\ T \ {x} = S
  BY DEF S, T
<1>7. Cardinality(T) \in Nat /\ Cardinality(S) \in Nat
  BY <1>0, FS_CardinalityType DEF S
<1>8. b[T] = h[x] + b[S] /\ b[S] = a[S] /\ b[S] \in Int
  BY <1>5, <1>6, <1>7
<1> QED
  BY <1>1, <1>2, <1>8

LEMMA SumOfNone ==
  ASSUME NEW g, DOMAIN g = {}
  PROVE  SumFunction(g) = 0
BY SumsRule, FS_EmptySet

LEMMA SameSum ==
  ASSUME NEW g, NEW h, g = h
  PROVE  SumFunction(g) = SumFunction(h)
OBVIOUS

----------------------------------------------------------------------------
(* The joiner *)

(* The parts belong to the header: none before it, a place for each after. *)
Settled ==
  IF header = None THEN parts = <<>> /\ seen = {}
  ELSE /\ \E f \in File : header = HeaderOf(f)
       /\ parts = [i \in 0 .. (header.numParts - 1) |-> parts[i]]

(* The text t is of the file that the joiner gathers, and its data is kept. *)
Holds(t) ==
  \E f \in File : \E i \in Places(f) :
    /\ t = PartText(f, i)
    /\ header = HeaderOf(f)
    /\ parts[i] = DataOf(f, i)

(* What is kept is what was seen.                                          *)
KeptIsSeen ==
  /\ \A t \in seen : Holds(t)
  /\ \A i \in Kept : \E t \in seen : t.index = i

(* What finish() gave is what the joiner still has.                        *)
OutputIsKept ==
  output # None =>
    /\ IsComplete
    /\ output = parts
    /\ header.encoding = "Zlib" =>
         \E f \in File : HeaderOf(f) = header /\ Contents(f) = parts

JoinerInv ==
  /\ Settled
  /\ KeptIsSeen
  /\ Counted
  /\ OutputIsKept

LEMMA KeptFinite ==
  ASSUME Settled
  PROVE  /\ IsFiniteSet(Kept)
         /\ header = None => Kept = {}
         /\ header # None => /\ Kept \subseteq 0 .. (header.numParts - 1)
                             /\ header.numParts \in Positive
                             /\ DOMAIN parts = 0 .. (header.numParts - 1)
<1>1. CASE header = None
  <2>1. Kept = {}
    BY <1>1 DEF Settled, Kept
  <2> QED
    BY <1>1, <2>1, FS_EmptySet
<1>2. CASE header # None
  <2>1. PICK f \in File : header = HeaderOf(f)
    BY <1>2 DEF Settled
  <2>2. header.numParts \in Positive
    BY <2>1, PartType
  <2>3. DOMAIN parts = 0 .. (header.numParts - 1)
    BY <1>2 DEF Settled
  <2>4. Kept \subseteq 0 .. (header.numParts - 1)
    BY <2>3 DEF Kept
  <2>5. IsFiniteSet(0 .. (header.numParts - 1))
    BY <2>2, FS_Interval DEF Positive
  <2> QED
    BY <1>2, <2>2, <2>3, <2>4, <2>5, FS_Subset
<1> QED
  BY <1>1, <1>2

(* A part that is not refused is well-formed and of the file at hand.      *)
LEMMA Accepted ==
  ASSUME NEW t \in Texts, Refusal(t) = None
  PROVE  /\ \E f \in File : \E i \in Places(f) : t = PartText(f, i)
         /\ header = None \/ header = t.header
         /\ ~AlreadySeen(t) => ~Known(t.index) /\ ~TooLarge(t)
<1>1. t.wellFormed /\ ~Inconsistent(t)
      /\ (~AlreadySeen(t) => ~Known(t.index) /\ ~TooLarge(t))
  BY NoneAssumption DEF Refusal
<1>2. \A f \in File : t # [PartText(f, 0) EXCEPT !.wellFormed = FALSE]
  BY <1>1 DEF PartText
<1>3. t \in UNION {{PartText(f, i) : i \in Places(f)} : f \in File}
  <2> DEFINE good == UNION {{PartText(f, i) : i \in Places(f)} : f \in File}
             bad == {[PartText(f, 0) EXCEPT !.wellFormed = FALSE] : f \in File}
  <2>1. t \in good \/ t \in bad
    BY DEF Texts
  <2>2. t \notin bad
    BY <1>2
  <2> QED
    BY <2>1, <2>2
<1>4. \E f \in File : \E i \in Places(f) : t = PartText(f, i)
  BY <1>3
<1> QED
  BY <1>1, <1>4 DEF Inconsistent

LEMMA IgnoreStep ==
  ASSUME JoinerInv, NEW t \in Texts, Ignore(t)
  PROVE  JoinerInv'
<1>1. Refusal(t) = None /\ AlreadySeen(t) /\ UNCHANGED joinerVars
      /\ seen' = seen \cup {t} /\ output' = None
  BY DEF Ignore
<1>2. PICK f \in File : \E i \in Places(f) : t = PartText(f, i)
  BY <1>1, Accepted
<1>3. PICK i \in Places(f) : t = PartText(f, i)
  BY <1>2
<1>4. header # None
  BY <1>1 DEF AlreadySeen, Known, JoinerInv, Settled
<1>5. header = HeaderOf(f)
  BY <1>1, <1>3, <1>4, Accepted DEF PartText
<1>6. parts[i] = DataOf(f, i)
  BY <1>1, <1>3 DEF AlreadySeen, PartText
<1>7. Settled'
  BY <1>1, <1>4 DEF JoinerInv, Settled, joinerVars
<1>8. KeptIsSeen'
  BY <1>1, <1>3, <1>5, <1>6 DEF JoinerInv, KeptIsSeen, Holds, Kept, joinerVars
<1>9. Counted'
  BY <1>1 DEF JoinerInv, Counted, Kept, joinerVars
<1> QED
  BY <1>1, <1>7, <1>8, <1>9 DEF JoinerInv, OutputIsKept

(* The new part takes a place that was free.                               *)
LEMMA KeepStep ==
  ASSUME JoinerInv, NEW t \in Texts, Keep(t)
  PROVE  JoinerInv'
<1> DEFINE places == IF header # None THEN parts
                     ELSE [i \in 0 .. (t.header.numParts - 1) |-> None]
<1>1. /\ Refusal(t) = None
      /\ ~AlreadySeen(t)
      /\ header' = IF header = None THEN t.header ELSE header
      /\ parts' = [places EXCEPT ![t.index] = t.data]
      /\ received' = received + 1
      /\ len' = len + t.data.len
      /\ output' = None
      /\ seen' = seen \cup {t}
  BY DEF Keep
<1>2. /\ ~Known(t.index) /\ ~TooLarge(t)
      /\ header = None \/ header = t.header
      /\ header' = t.header
      /\ \E f \in File : \E i \in Places(f) : t = PartText(f, i)
  BY <1>1, Accepted
<1>3. PICK f \in File : \E i \in Places(f) : t = PartText(f, i)
  BY <1>2
<1>4. PICK i \in Places(f) : t = PartText(f, i)
  BY <1>3
<1>5. /\ t.header = HeaderOf(f) /\ t.index = i /\ t.data = DataOf(f, i)
      /\ HeaderOf(f) # None /\ HeaderOf(f).numParts = PartsOf(f)
      /\ PartsOf(f) \in Positive
      /\ DataOf(f, i) # None /\ DataOf(f, i).len \in Int
  BY <1>4, PartType DEF PartText
<1>6. places = [j \in Places(f) |-> places[j]]
  <2>1. CASE header = None
    BY <1>5, <2>1 DEF Places
  <2>2. CASE header # None
    BY <1>2, <1>5, <2>2 DEF JoinerInv, Settled, Places
  <2> QED
    BY <2>1, <2>2
<1>7. Kept = {j \in Places(f) : places[j] # None}
  <2>1. CASE header = None
    <3>1. Kept = {}
      BY <2>1, KeptFinite DEF JoinerInv
    <3>2. \A j \in Places(f) : places[j] = None
      BY <1>5, <2>1 DEF Places
    <3> QED
      BY <3>1, <3>2
  <2>2. CASE header # None
    BY <1>6, <2>2 DEF Kept
  <2> QED
    BY <2>1, <2>2
<1>8. \A j \in Kept : header # None /\ places[j] = parts[j]
  BY KeptFinite DEF JoinerInv
<1>9. i \notin Kept
  BY <1>2, <1>5 DEF Known, Kept
<1> HIDE DEF places
<1>10. parts' = [j \in Places(f) |-> IF j = i THEN DataOf(f, i) ELSE places[j]]
  BY <1>1, <1>5, <1>6
<1>11. Kept' = Kept \cup {i}
  BY <1>5, <1>7, <1>10 DEF Kept
<1>12. IsFiniteSet(Kept)
  BY KeptFinite DEF JoinerInv
<1>13. Settled'
  <2>1. header' = HeaderOf(f) /\ header' # None /\ header'.numParts = PartsOf(f)
    BY <1>2, <1>5, Zenon
  <2>2. parts' = [j \in Places(f) |-> parts'[j]]
    BY <1>10
  <2>3. parts' = [j \in 0 .. (header'.numParts - 1) |-> parts'[j]]
    BY <2>1, <2>2, Zenon DEF Places
  <2> QED
    BY <2>1, <2>3, Zenon DEF Settled
<1>14. KeptIsSeen'
  <2>1. ASSUME NEW u \in seen
        PROVE  Holds(u)'
    <3>1. PICK g \in File : \E j \in Places(g) : /\ u = PartText(g, j)
                                                 /\ header = HeaderOf(g)
                                                 /\ parts[j] = DataOf(g, j)
      BY <2>1 DEF JoinerInv, KeptIsSeen, Holds
    <3>2. PICK j \in Places(g) : /\ u = PartText(g, j)
                                 /\ header = HeaderOf(g)
                                 /\ parts[j] = DataOf(g, j)
      BY <3>1
    <3>3. header # None /\ header' = header
      BY <1>1, <1>2, <3>2, PartType
    <3>4. j \in Kept
      BY <3>2, <3>3, PartType DEF Kept, JoinerInv, Settled, Places
    <3>5. parts'[j] = parts[j]
      BY <1>7, <1>8, <1>9, <1>10, <3>4
    <3> QED
      BY <3>2, <3>3, <3>5 DEF Holds
  <2>2. Holds(t)'
    BY <1>2, <1>4, <1>5, <1>10 DEF Holds
  <2>3. \A j \in Kept' : \E u \in seen' : u.index = j
    BY <1>1, <1>5, <1>11 DEF JoinerInv, KeptIsSeen
  <2> QED
    BY <1>1, <2>1, <2>2, <2>3 DEF KeptIsSeen
<1>15. Counted'
  <2> DEFINE g == [j \in Kept |-> parts[j].len]
             h == [j \in Kept' |-> parts'[j].len]
  <2>1. \A j \in Kept : g[j] \in Int
    <3> SUFFICES ASSUME NEW j \in Kept PROVE parts[j].len \in Int
      OBVIOUS
    <3>1. PICK u \in seen : u.index = j
      BY DEF JoinerInv, KeptIsSeen
    <3>2. PICK e \in File : \E k \in Places(e) : u = PartText(e, k)
                                                  /\ parts[k] = DataOf(e, k)
      BY DEF JoinerInv, KeptIsSeen, Holds
    <3> QED
      BY <3>1, <3>2, PartType DEF PartText
  <2>2. \A j \in Kept : h[j] = g[j]
    BY <1>7, <1>8, <1>9, <1>10, <1>11
  <2>3. h[i] = DataOf(f, i).len
    BY <1>10, <1>11
  <2>4. /\ SumFunction(g) \in Int
        /\ SumFunction(h) = SumFunction(g) + h[i]
    <3>1. DOMAIN g = Kept /\ DOMAIN h = Kept \cup {i}
      BY <1>11
    <3> HIDE DEF g, h
    <3> QED
      BY <1>5, <1>9, <1>12, <2>1, <2>2, <2>3, <3>1, SumOfOneMore
  <2>5. len = SumFunction(g) /\ len <= MaxFileLen /\ received = Cardinality(Kept)
    BY DEF JoinerInv, Counted
  <2>6. len' = SumFunction(h)
    BY <1>1, <1>5, <2>3, <2>4, <2>5
  <2>7. len' <= MaxFileLen
    BY <1>1, <1>2, <1>5, <2>4, <2>5, LimitsAssumption DEF TooLarge
  <2>8. received' = Cardinality(Kept')
    BY <1>1, <1>9, <1>11, <1>12, <2>5, FS_AddElement
  <2> QED
    BY <2>6, <2>7, <2>8 DEF Counted
<1> QED
  BY <1>1, <1>13, <1>14, <1>15 DEF JoinerInv, OutputIsKept

LEMMA FinishStep ==
  ASSUME JoinerInv, Finish
  PROVE  JoinerInv'
<1>1. UNCHANGED <<joinerVars, seen>>
  BY DEF Finish
<1>2. Settled' /\ KeptIsSeen' /\ Counted'
  BY <1>1 DEF JoinerInv, Settled, KeptIsSeen, Holds, Counted, Kept, joinerVars
<1>3. OutputIsKept'
  BY <1>1 DEF Finish, OutputIsKept, Unpacked, IsComplete, joinerVars
<1> QED
  BY <1>2, <1>3 DEF JoinerInv

(* As with_max_len() and reset() leave it.                                 *)
Empty ==
  /\ header = None /\ parts = <<>> /\ received = 0 /\ len = 0
  /\ output = None /\ seen = {}

LEMMA EmptyJoiner == Empty => JoinerInv
<1> SUFFICES ASSUME Empty PROVE JoinerInv
  OBVIOUS
<1> USE DEF Empty
<1>1. Kept = {}
  BY DEF Kept
<1>2. Counted
  BY <1>1, SumOfNone, FS_EmptySet, LimitsAssumption DEF Counted
<1> QED
  BY <1>1, <1>2 DEF JoinerInv, Settled, KeptIsSeen, OutputIsKept

(* receive(), reset() and finish() keep the joiner in order: what it holds  *)
(* it was given, what it gives out it holds, and its counts are right.     *)
THEOREM JoinerInvariant == Spec => []JoinerInv
<1>1. Init => JoinerInv
  BY EmptyJoiner DEF Init, Empty
<1>2. ASSUME JoinerInv, [Next]_vars
      PROVE  JoinerInv'
  <2>1. CASE \E t \in Texts : Refuse(t)
    BY <1>2, <2>1 DEF Refuse, joinerVars, JoinerInv, Settled, KeptIsSeen, Holds,
                      Counted, Kept, OutputIsKept
  <2>2. CASE \E t \in Texts : Ignore(t)
    BY <1>2, <2>2, IgnoreStep
  <2>3. CASE \E t \in Texts : Keep(t)
    BY <1>2, <2>3, KeepStep
  <2>4. CASE Finish
    BY <1>2, <2>4, FinishStep
  <2>5. CASE Reset
    <3>1. Empty'
      BY <2>5 DEF Reset, Empty
    <3> QED
      BY <3>1, EmptyJoiner, PTL
  <2>6. CASE UNCHANGED vars
    BY <1>2, <2>6 DEF vars, joinerVars, JoinerInv, Settled, KeptIsSeen, Holds,
                      Counted, Kept, OutputIsKept, IsComplete
  <2> QED
    BY <1>2, <2>1, <2>2, <2>3, <2>4, <2>5, <2>6 DEF Next, Receive
<1> QED
  BY <1>1, <1>2, PTL DEF Spec

(* For any files, alike or not: what was not refused is kept as it came.   *)
LEMMA SeenIsKept == JoinerInv => AcceptedIsKept
<1> SUFFICES ASSUME JoinerInv, NEW t \in seen
             PROVE  Known(t.index) /\ parts[t.index] = t.data
  BY DEF AcceptedIsKept
<1>1. PICK f \in File : \E i \in Places(f) : /\ t = PartText(f, i)
                                             /\ header = HeaderOf(f)
                                             /\ parts[i] = DataOf(f, i)
  BY DEF JoinerInv, KeptIsSeen, Holds
<1>2. /\ t.index \in Places(f)
      /\ parts[t.index] = t.data
      /\ t.data # None
  BY <1>1, PartType DEF PartText
<1>3. header # None /\ Places(f) = 0 .. (header.numParts - 1)
  BY <1>1, PartType DEF Places
<1>4. DOMAIN parts = Places(f)
  BY <1>3, KeptFinite DEF JoinerInv
<1> QED
  BY <1>2, <1>4 DEF Known

(* The joiner has what it did not refuse, counts it and how long it is,    *)
(* within its limit: max_len - self.len does not wrap.                     *)
THEOREM AccountedAlways == Spec => []Accounted
<1>1. JoinerInv => Accounted
  BY SeenIsKept DEF JoinerInv, Accounted
<1> QED
  BY <1>1, JoinerInvariant, PTL

(* is_complete() counts the parts: the count is right.                     *)
LEMMA CompleteHasAll ==
  JoinerInv =>
    (IsComplete <=> header # None /\ Kept = 0 .. (header.numParts - 1))
<1> SUFFICES ASSUME JoinerInv
             PROVE  IsComplete <=>
                      header # None /\ Kept = 0 .. (header.numParts - 1)
  OBVIOUS
<1>1. CASE header = None
  BY <1>1 DEF IsComplete
<1>2. CASE header # None
  <2> DEFINE all == 0 .. (header.numParts - 1)
  <2>1. header.numParts \in Positive /\ Kept \in SUBSET all
    BY <1>2, KeptFinite DEF JoinerInv
  <2>2. IsFiniteSet(all) /\ Cardinality(all) = header.numParts
    <3>1. /\ header.numParts - 1 \in Int
          /\ ~(0 > header.numParts - 1)
          /\ (header.numParts - 1) - 0 + 1 = header.numParts
      BY <2>1 DEF Positive
    <3> QED
      BY <3>1, FS_Interval
  <2> HIDE DEF all
  <2>3. Cardinality(Kept) = Cardinality(all) <=> Kept = all
    BY <2>1, <2>2, FS_Subset
  <2> QED
    BY <1>2, <2>2, <2>3 DEF IsComplete, JoinerInv, Counted, all
<1> QED
  BY <1>1, <1>2

(* What is held is of files of the header: then it is mixed, or it is all  *)
(* of one of them.                                                         *)
LEMMA NotMixed ==
  ASSUME JoinerInv, header # None, ~Mixed
  PROVE  \E f \in File : /\ header = HeaderOf(f)
                         /\ \A i \in Kept : i \in Places(f) /\ parts[i] = DataOf(f, i)
<1>1. ASSUME NEW i \in Kept
      PROVE  Piece(i, parts[i]) \in UNION {PiecesOfFile(f) : f \in Alike}
  <2>1. PICK t \in seen : t.index = i
    BY <1>1 DEF JoinerInv, KeptIsSeen
  <2>2. PICK f \in File : \E j \in Places(f) : /\ t = PartText(f, j)
                                               /\ header = HeaderOf(f)
                                               /\ parts[j] = DataOf(f, j)
    BY <2>1 DEF JoinerInv, KeptIsSeen, Holds
  <2>3. i \in Places(f) /\ parts[i] = DataOf(f, i)
    BY <2>1, <2>2 DEF PartText
  <2>4. f \in Alike /\ Piece(i, parts[i]) \in PiecesOfFile(f)
    BY <2>2, <2>3 DEF Alike, PiecesOfFile
  <2> QED
    BY <2>4
<1>2. Pieces \subseteq UNION {PiecesOfFile(f) : f \in Alike}
  BY <1>1 DEF Pieces
<1>3. PICK f \in Fitting : TRUE
  BY <1>2 DEF Mixed
<1>4. f \in File /\ header = HeaderOf(f) /\ Pieces \subseteq PiecesOfFile(f)
  BY <1>3 DEF Fitting, Alike
<1>5. ASSUME NEW i \in Kept
      PROVE  i \in Places(f) /\ parts[i] = DataOf(f, i)
  <2>1. Piece(i, parts[i]) \in PiecesOfFile(f)
    BY <1>4 DEF Pieces
  <2>2. PICK j \in Places(f) : Piece(i, parts[i]) = Piece(j, DataOf(f, j))
    BY <2>1 DEF PiecesOfFile
  <2>3. i = j /\ parts[i] = DataOf(f, j)
    BY <2>2 DEF Piece
  <2> QED
    BY <2>3
<1> QED
  BY <1>4, <1>5

(* Every part of a file seen, and then only, the joiner is complete, and   *)
(* finish() gives that file, unless files of one header were mixed.        *)
THEOREM CompleteExactly == Spec => []CompleteWhenAllSeen
<1>1. ASSUME JoinerInv, ~Mixed
      PROVE  /\ IsComplete <=>
                  \E f \in File : {PartText(f, i) : i \in Places(f)} \subseteq seen
             /\ output # None =>
                  \E f \in File : HeaderOf(f) = header /\ output = Contents(f)
  <2>1. ASSUME IsComplete
        PROVE  \E f \in File :
                 /\ header = HeaderOf(f)
                 /\ \A i \in Places(f) : PartText(f, i) \in seen
                 /\ Contents(f) = parts
    <3>1. header # None
      BY <2>1 DEF IsComplete
    <3>2. PICK f \in File :
            /\ header = HeaderOf(f)
            /\ \A i \in Kept : i \in Places(f) /\ parts[i] = DataOf(f, i)
      BY <1>1, <3>1, NotMixed
    <3>3. Kept = Places(f)
      BY <1>1, <2>1, <3>2, CompleteHasAll, PartType DEF Places
    <3>4. ASSUME NEW i \in Places(f)
          PROVE  PartText(f, i) \in seen
      <4>1. PICK t \in seen : t.index = i
        BY <1>1, <3>3 DEF JoinerInv, KeptIsSeen
      <4>2. PICK g \in File : \E j \in Places(g) : /\ t = PartText(g, j)
                                                   /\ header = HeaderOf(g)
                                                   /\ parts[j] = DataOf(g, j)
        BY <1>1, <4>1 DEF JoinerInv, KeptIsSeen, Holds
      <4>3. /\ t = PartText(g, i) /\ HeaderOf(g) = HeaderOf(f)
            /\ DataOf(g, i) = DataOf(f, i)
        BY <3>2, <3>3, <4>1, <4>2 DEF PartText
      <4>4. PartText(g, i) = PartText(f, i)
        BY <4>3 DEF PartText
      <4> QED
        BY <4>3, <4>4
    <3>5. parts = [i \in Places(f) |-> parts[i]]
      BY <1>1, <3>1, <3>2, PartType DEF JoinerInv, Settled, Places
    <3>6. Contents(f) = parts
      BY <3>2, <3>3, <3>5 DEF Contents
    <3> QED
      BY <3>2, <3>4, <3>6
  <2>2. ASSUME NEW f \in File, \A i \in Places(f) : PartText(f, i) \in seen
        PROVE  IsComplete
    <3>1. ASSUME NEW i \in Places(f)
          PROVE  header = HeaderOf(f) /\ i \in Kept
      <4>1. Holds(PartText(f, i))
        BY <1>1, <2>2 DEF JoinerInv, KeptIsSeen
      <4>2. header = HeaderOf(f) /\ parts[i] # None
        BY <4>1, PartType DEF Holds, PartText
      <4> QED
        BY <1>1, <4>2, KeptFinite, PartType DEF JoinerInv, Places, Kept
    <3>2. 0 \in Places(f)
      BY PartType DEF Places, Positive
    <3>3. Kept = 0 .. (header.numParts - 1) /\ header # None
      BY <1>1, <3>1, <3>2, KeptFinite, PartType DEF JoinerInv, Places
    <3> QED
      BY <1>1, <3>3, CompleteHasAll
  <2>3. IsComplete =>
          \E f \in File : {PartText(f, i) : i \in Places(f)} \subseteq seen
    BY <2>1
  <2>4. (\E f \in File : {PartText(f, i) : i \in Places(f)} \subseteq seen)
          => IsComplete
    BY <2>2
  <2>5. output # None =>
          \E f \in File : HeaderOf(f) = header /\ output = Contents(f)
    BY <1>1, <2>1 DEF JoinerInv, OutputIsKept
  <2> QED
    BY <2>3, <2>4, <2>5
<1>2. JoinerInv => CompleteWhenAllSeen
  BY <1>1 DEF CompleteWhenAllSeen
<1> QED
  BY <1>2, JoinerInvariant, PTL

----------------------------------------------------------------------------
(* The refinement *)

(* No two files have the same header: then no part of one is taken for a   *)
(* part of another, which the format does not rule out.                    *)
DistinctHeaders ==
  \A f, g \in File : HeaderOf(f) = HeaderOf(g) => f = g

(* What Reassembly's variables stand for, once a file is settled on.       *)
SourceFits ==
  /\ ~Mixed
  /\ IF header = None THEN SourceOf = None /\ Kept = {} /\ ~IsComplete
     ELSE /\ SourceOf \in File
          /\ HeaderOf(SourceOf) = header
          /\ Kept \subseteq Places(SourceOf)
          /\ \A i \in Kept : parts[i] = DataOf(SourceOf, i)
          /\ IsComplete <=> Kept = Places(SourceOf)

LEMMA SourceIsAFile ==
  ASSUME DistinctHeaders, JoinerInv
  PROVE  SourceFits
<1>1. CASE header = None
  BY <1>1, KeptFinite, CompleteHasAll DEF SourceFits, SourceOf, Mixed, JoinerInv
<1>2. CASE header # None
  <2>1. PICK f \in File : HeaderOf(f) = header
    BY <1>2 DEF JoinerInv, Settled
  <2>2. Alike = {f}
    BY <2>1 DEF Alike, DistinctHeaders
  <2>3. Places(f) = 0 .. (header.numParts - 1)
    BY <2>1, PartType DEF Places
  <2>4. ASSUME NEW i \in Kept
        PROVE  parts[i] = DataOf(f, i)
    <3>1. PICK t \in seen : t.index = i
      BY <2>4 DEF JoinerInv, KeptIsSeen
    <3>2. PICK g \in File : \E j \in Places(g) : /\ t = PartText(g, j)
                                                 /\ header = HeaderOf(g)
                                                 /\ parts[j] = DataOf(g, j)
      BY <3>1 DEF JoinerInv, KeptIsSeen, Holds
    <3>3. g = f
      BY <2>1, <3>2 DEF DistinctHeaders
    <3> QED
      BY <3>1, <3>2, <3>3 DEF PartText
  <2>5. Kept \subseteq Places(f) /\ (IsComplete <=> Kept = Places(f))
    BY <1>2, <2>3, KeptFinite, CompleteHasAll DEF JoinerInv
  <2>6. Pieces \subseteq PiecesOfFile(f)
    BY <2>4, <2>5 DEF Pieces, PiecesOfFile
  <2>7. Fitting = {f}
    BY <2>2, <2>6 DEF Fitting
  <2>8. ~Mixed
    BY <2>7 DEF Mixed
  <2>9. SourceOf = f
    BY <1>2, <2>2, <2>7, <2>8 DEF SourceOf
  <2> QED
    BY <1>2, <2>1, <2>4, <2>5, <2>8, <2>9 DEF SourceFits
<1> QED
  BY <1>1, <1>2

(* If no two files have the same header, none are ever mixed: what the     *)
(* joiner promises, it always promises.                                    *)
THEOREM NeverMixed ==
  ASSUME DistinctHeaders
  PROVE  Spec => []~Mixed
<1>1. JoinerInv => ~Mixed
  BY SourceIsAFile DEF SourceFits
<1> QED
  BY <1>1, JoinerInvariant, PTL

(* The parts that are kept are pieces of the source, with their bytes.     *)
PiecesFit ==
  header # None =>
    /\ SourceOf \in File
    /\ Pieces \subseteq PiecesOfFile(SourceOf)
    /\ IsComplete <=> Pieces = PiecesOfFile(SourceOf)

LEMMA PiecesAreOfSource == SourceFits => PiecesFit
<1> SUFFICES ASSUME SourceFits, header # None
             PROVE  /\ SourceOf \in File
                    /\ Pieces \subseteq PiecesOfFile(SourceOf)
                    /\ IsComplete <=> Pieces = PiecesOfFile(SourceOf)
  BY DEF PiecesFit
<1>1. /\ SourceOf \in File
      /\ Kept \subseteq Places(SourceOf)
      /\ \A i \in Kept : parts[i] = DataOf(SourceOf, i)
      /\ IsComplete <=> Kept = Places(SourceOf)
  BY DEF SourceFits
<1>2. Pieces = {Piece(i, DataOf(SourceOf, i)) : i \in Kept}
  BY <1>1 DEF Pieces
<1>3. Pieces \subseteq PiecesOfFile(SourceOf)
  BY <1>1, <1>2 DEF PiecesOfFile
<1>4. ASSUME Pieces = PiecesOfFile(SourceOf), NEW i \in Places(SourceOf)
      PROVE  i \in Kept
  <2>1. Piece(i, DataOf(SourceOf, i)) \in Pieces
    BY <1>4 DEF PiecesOfFile
  <2>2. PICK j \in Kept : Piece(i, DataOf(SourceOf, i)) = Piece(j, parts[j])
    BY <2>1 DEF Pieces
  <2>3. i = j
    BY <2>2 DEF Piece
  <2> QED
    BY <2>3
<1>5. Kept = Places(SourceOf) => Pieces = PiecesOfFile(SourceOf)
  BY <1>2 DEF PiecesOfFile
<1>6. Pieces = PiecesOfFile(SourceOf) => Kept = Places(SourceOf)
  BY <1>1, <1>4
<1> QED
  BY <1>1, <1>3, <1>5, <1>6

LEMMA JoinerUnchanged ==
  UNCHANGED joinerVars => UNCHANGED Abstract!vars
BY DEF joinerVars, Abstract!vars, Pieces, Kept, SourceOf, IsComplete,
       Mixed, Fitting, Alike

LEMMA KeepGathers ==
  ASSUME DistinctHeaders, JoinerInv, JoinerInv', NEW t \in Texts, Keep(t)
  PROVE  Abstract!Next
<1>0. SourceFits /\ ~Mixed /\ SourceFits' /\ ~Mixed'
  <2>1. SourceFits'
    BY SourceIsAFile, PTL DEF DistinctHeaders
  <2> QED
    BY <2>1, SourceIsAFile DEF SourceFits
<1>1. /\ Refusal(t) = None /\ ~AlreadySeen(t)
      /\ header' = IF header = None THEN t.header ELSE header
      /\ seen' = seen \cup {t}
  BY DEF Keep
<1>2. /\ ~Known(t.index)
      /\ header = None \/ header = t.header
      /\ \E f \in File : \E i \in Places(f) : t = PartText(f, i)
  BY <1>1, Accepted
<1>3. PICK f \in File : \E i \in Places(f) : t = PartText(f, i)
  BY <1>2
<1>4. /\ t.index \in Places(f) /\ t.header = HeaderOf(f)
      /\ Places(f) = 0 .. (t.header.numParts - 1)
      /\ t.header # None
  BY <1>3, PartType DEF PartText, Places
<1>5. /\ SourceOf' \in File
      /\ Pieces' \subseteq PiecesOfFile(SourceOf')
      /\ IsComplete' <=> Pieces' = PiecesOfFile(SourceOf')
  <2>1. SourceFits'
    BY <1>0
  <2>2. PiecesFit'
    BY <2>1, PiecesAreOfSource, PTL
  <2> QED
    BY <1>1, <1>4, <2>2 DEF PiecesFit
<1>6. ~IsComplete
  BY <1>2, <1>4, CompleteHasAll DEF Known, Kept
<1>7. SourceOf \in {None, SourceOf'}
  <2>1. CASE header = None
    BY <2>1 DEF SourceOf
  <2>2. CASE header # None
    <3>1. header' = header
      BY <1>1, <2>2
    <3>2. /\ SourceOf \in File /\ HeaderOf(SourceOf) = header
          /\ SourceOf' \in File /\ HeaderOf(SourceOf') = header
      BY <1>0, <2>2, <3>1 DEF SourceFits
    <3> QED
      BY <3>2 DEF DistinctHeaders
  <2> QED
    BY <2>1, <2>2
<1>8. Pieces \subseteq Pieces'
  <2> SUFFICES ASSUME NEW j \in Kept PROVE j \in Kept' /\ parts'[j] = parts[j]
    BY DEF Pieces
  <2>1. header # None /\ t.index # j
    BY <1>2, KeptFinite DEF JoinerInv, Known, Kept
  <2>2. parts' = [parts EXCEPT ![t.index] = t.data]
    BY <2>1 DEF Keep
  <2> QED
    BY <2>1, <2>2 DEF Kept
<1>9. Abstract!Gather(SourceOf')
  BY <1>0, <1>5, <1>6, <1>7, <1>8 DEF Abstract!Gather
<1> QED
  BY <1>5, <1>9 DEF Abstract!Next

(* As long as no two files have the same header, whatever parts come, in   *)
(* whatever order: the joiner settles on a file, takes in parts of that    *)
(* file alone, with the bytes they have there, loses none, and is complete *)
(* when it has them all.                                                   *)
THEOREM JoinerReassembles ==
  ASSUME DistinctHeaders
  PROVE  Spec => Reassembles
<1>1. Init => Abstract!Init
  BY DEF Init, Abstract!Init, SourceOf, Pieces, Kept, IsComplete, Mixed
<1>2. ASSUME JoinerInv, JoinerInv', [Next]_vars
      PROVE  [Abstract!Next]_Abstract!vars
  <2>1. CASE \E t \in Texts : Keep(t)
    BY <1>2, <2>1, KeepGathers
  <2>2. CASE Reset
    <3>1. SourceOf' = None /\ Pieces' = {} /\ ~IsComplete'
      BY <2>2 DEF Reset, SourceOf, Pieces, Kept, IsComplete, Mixed
    <3> QED
      BY <3>1 DEF Abstract!Next, Abstract!Forget
  <2>3. CASE UNCHANGED joinerVars
    BY <2>3, JoinerUnchanged
  <2> QED
    BY <1>2, <2>1, <2>2, <2>3
       DEF Next, Receive, Refuse, Ignore, Finish, vars
<1> QED
  BY <1>1, <1>2, JoinerInvariant, PTL DEF Spec, Reassembles, Abstract!Spec
=============================================================================
