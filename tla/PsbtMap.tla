------------------------------- MODULE PsbtMap -------------------------------
(***************************************************************************)
(* The key-value maps of a PSBT (src/src/psbt/mod.rs): sequences of        *)
(* records, whose key is a type and some data, and how write_map rewrites  *)
(* one for the updaters, the signers, the combiner and the finalizer.      *)
(***************************************************************************)
EXTENDS Integers, Sequences, FiniteSets

KeyOf(r) == <<r.type, r.data>>
KeysOf(map) == {KeyOf(map[i]) : i \in DOMAIN map}

(* Map::get: the value of the first record with the key. *)
ValueOf(map, key) ==
  map[CHOOSE i \in DOMAIN map :
        KeyOf(map[i]) = key /\ \A j \in 1 .. (i - 1) : KeyOf(map[j]) # key].value

AsFunction(map) == [key \in KeysOf(map) |-> ValueOf(map, key)]

(* check_duplicates, in validate_map *)
NoDuplicates(map) == Cardinality(KeysOf(map)) = Len(map)

(* Records grouped by ascending type, in their order within a type: of two *)
(* the one of the lower type comes first, or the earlier one of a type.    *)
Precedes(records, i, j) ==
  \/ records[i].type < records[j].type
  \/ records[i].type = records[j].type /\ i < j

GroupByType(records, written) ==
  LET Ahead(i) == {j \in written : Precedes(records, j, i)}
  IN  [n \in 1 .. Cardinality(written) |->
         records[CHOOSE i \in written : Cardinality(Ahead(i)) = n - 1]]

(* Mutated form of Secondary: the records of the other map are not         *)
(* compared with those of this one.                                        *)
Secondary_Duplicating(map, r, replaced) == KeyOf(r) \notin replaced

(* The records of the other map whose key is not in this one.              *)
Secondary(map, r, replaced) == KeyOf(r) \notin KeysOf(map) \cup replaced

(* write_map: the records whose keys are to be kept, then those of the     *)
(* other map, then the added ones, which replace both.                     *)
WriteMap(map, keep, secondary, added) ==
  LET replaced == KeysOf(added)
      all == map \o secondary \o added
      Written(i) ==
        \/ i \in 1 .. Len(map) /\ KeyOf(all[i]) \in keep \ replaced
        \/ /\ i \in Len(map) + 1 .. Len(map) + Len(secondary)
           /\ Secondary(map, all[i], replaced)
        \/ i \in Len(map) + Len(secondary) + 1 .. Len(all)
  IN  GroupByType(all, {i \in DOMAIN all : Written(i)})

(* What the callers of write_map do with it.                               *)
Rewrite(map) == WriteMap(map, KeysOf(map), <<>>, <<>>)
SetRecord(map, r) == WriteMap(map, KeysOf(map), <<>>, <<r>>)
RemoveRecord(map, key) == WriteMap(map, KeysOf(map) \ {key}, <<>>, <<>>)
Combine(map, other) == WriteMap(map, KeysOf(map), other, <<>>)

----------------------------------------------------------------------------
(* What a map holds, whatever the order of its records, is all that counts *)
(* for what is done next: a union in which this map wins.                  *)
CombineIsUnion(map, other) ==
  LET union == Combine(map, other) IN
  /\ NoDuplicates(union)
  /\ AsFunction(union) =
       [key \in KeysOf(map) \cup KeysOf(other) |->
          ValueOf(IF key \in KeysOf(map) THEN map ELSE other, key)]

(* Combining again with what was combined already changes nothing, be it   *)
(* the bytes, and a copy that lags behind takes nothing back.              *)
CombineAbsorbs(map, other) ==
  LET union == Combine(map, other) IN
  /\ Combine(union, other) = union
  /\ Combine(union, map) = union
  /\ Combine(union, union) = union

(* A record is set to its last value, the others stay as they are, and     *)
(* removing it again leaves the others alone.                              *)
SetIsUpdate(map, r) ==
  LET set == SetRecord(map, r) IN
  /\ NoDuplicates(set)
  /\ AsFunction(set) =
       [key \in KeysOf(map) \cup {KeyOf(r)} |->
          IF key = KeyOf(r) THEN r.value ELSE ValueOf(map, key)]
  /\ RemoveRecord(set, KeyOf(r)) = RemoveRecord(map, KeyOf(r))

(* "Records grouped by ascending key type and in their existing order      *)
(* within a type": so that rewriting a map that was written changes        *)
(* nothing, and two records of one type never swap.                        *)
OrderIsStable(map, other) ==
  LET union == Combine(map, other)
      At(r) == CHOOSE i \in DOMAIN union : union[i] = r
  IN
  /\ \A i, j \in DOMAIN union : i < j => union[i].type <= union[j].type
  /\ \A i, j \in DOMAIN map :
       i < j /\ map[i].type = map[j].type => At(map[i]) < At(map[j])
  /\ Rewrite(union) = union
=============================================================================
