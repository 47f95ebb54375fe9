--------------------------------- MODULE Cbor ---------------------------------
(***************************************************************************)
(* The CBOR of Cardano transactions (cbor.rs): values in canonical form,   *)
(* their decoder, and the scanner that measures any item.                  *)
(***************************************************************************)
EXTENDS Naturals, Sequences, SequencesExt

CONSTANTS
  Infos,      \* 32: what a head says beside its major type
  Widths,     \* <<1, 2, 4, 8>>: the bytes of an argument that needs more
  ByteSize,   \* 256: the values of a byte of an argument
  MaxDepth_   \* 64: how deep the decoder follows arrays and maps

Direct == Infos - 4 - Len(Widths)   \* 24: the arguments in the head itself
Indefinite == Infos - 1

HeadByte(major, info) == major * Infos + info
Break == HeadByte(7, Indefinite)

Uint(v)     == [type |-> "uint", v |-> v, b |-> <<>>, items |-> <<>>]
Bytes(b)    == [type |-> "bytes", v |-> 0, b |-> b, items |-> <<>>]
Array(l)    == [type |-> "array", v |-> 0, b |-> <<>>, items |-> <<>> \o l]
MapOf(l)    == [type |-> "map", v |-> 0, b |-> <<>>, items |-> <<>> \o l]  \* <<<<k, v>>, ...>>
Simple(v)   == [type |-> "simple", v |-> v, b |-> <<>>, items |-> <<>>]
Raw(b)      == [type |-> "raw", v |-> 0, b |-> b, items |-> <<>>]

False == Simple(Direct - 4)
True  == Simple(Direct - 3)
Null  == Simple(Direct - 2)

----------------------------------------------------------------------------
(* Writing                                                                 *)

BigEndian(v, width) == [i \in 1 .. width |-> (v \div ByteSize ^ (width - i)) % ByteSize]
RECURSIVE Number(_)
Number(b) == IF b = <<>> THEN 0 ELSE Number(Front(b)) * ByteSize + Last(b)

(* write_head(): in the shortest form.                                     *)
WriteHead(major, v) ==
  IF v < Direct THEN <<HeadByte(major, v)>>
  ELSE LET w == CHOOSE w \in DOMAIN Widths :
                  /\ v < ByteSize ^ Widths[w]
                  /\ \A x \in DOMAIN Widths : v < ByteSize ^ Widths[x] => w <= x
       IN  <<HeadByte(major, Direct + w - 1)>> \o BigEndian(v, Widths[w])

RECURSIVE LexLess(_, _)
LexLess(a, b) ==
  IF b = <<>> THEN FALSE
  ELSE \/ a = <<>>
       \/ Head(a) < Head(b)
       \/ Head(a) = Head(b) /\ LexLess(Tail(a), Tail(b))

(* Mutated form: the map is written in the order of its entries.           *)
KeyLess_Never(a, b) == FALSE

(* Shorter keys first.                                                     *)
KeyLess(a, b) ==
  Len(a[1]) < Len(b[1]) \/ (Len(a[1]) = Len(b[1]) /\ LexLess(a[1], b[1]))

RECURSIVE Joined(_)
Joined(pairs) ==
  IF pairs = <<>> THEN <<>>
  ELSE Head(pairs)[1] \o Head(pairs)[2] \o Joined(Tail(pairs))

RECURSIVE Encode(_), EncodeAll(_), EncodePairs(_)
EncodeAll(l) == IF l = <<>> THEN <<>> ELSE Encode(Head(l)) \o EncodeAll(Tail(l))

EncodePairs(l) ==
  IF l = <<>> THEN <<>>
  ELSE <<<<Encode(Head(l)[1]), Encode(Head(l)[2])>>>> \o EncodePairs(Tail(l))

Encode(value) ==
  CASE value.type = "uint"   -> WriteHead(0, value.v)
    [] value.type = "bytes"  -> WriteHead(2, Len(value.b)) \o value.b
    [] value.type = "array"  -> WriteHead(4, Len(value.items)) \o EncodeAll(value.items)
    [] value.type = "map"    ->
         WriteHead(5, Len(value.items))
           \o Joined(SortSeq(EncodePairs(value.items), KeyLess))
    [] value.type = "simple" -> <<HeadByte(7, value.v)>>
    [] value.type = "raw"    -> value.b

----------------------------------------------------------------------------
(* Reading at a position, from 1.  What is wrong is not told apart.        *)

BadHead == [ok |-> FALSE, major |-> 0, arg |-> 0, indefinite |-> FALSE, at |-> 0]

ReadHead(data, at) ==
  LET major == data[at] \div Infos
      info  == data[at] % Infos
      w     == IF info >= Direct /\ info < Direct + Len(Widths)
                 THEN Widths[info - Direct + 1] ELSE 0
  IN
  IF at > Len(data) THEN BadHead
  ELSE IF info >= Direct + Len(Widths) /\ info # Indefinite THEN BadHead
  ELSE IF at + w > Len(data) THEN BadHead
  ELSE [ok |-> TRUE, major |-> major, indefinite |-> info = Indefinite,
        arg |-> CASE info < Direct     -> info
                  [] info = Indefinite -> 0
                  [] OTHER             -> Number(SubSeq(data, at + 1, at + w)),
        at |-> at + 1 + w]

(* check_count(): every item takes a byte at least.                        *)
Left(data, at) == Len(data) - at + 1

NoValue == [ok |-> FALSE, value |-> Null, at |-> 0]
Value(v, at) == [ok |-> TRUE, value |-> v, at |-> at]

(* How many items are in an array or a map, which has two an entry.        *)
Count(h) == h.arg * (h.major - 3)

(* A list of items with one more before it.                                *)
Before(item, list) == [list EXCEPT !.items = <<item>> \o @]

Container(h, list) ==
  IF ~list.ok THEN NoValue
  ELSE IF h.major = 4 THEN Value(Array(list.items), list.at)
  ELSE Value(MapOf([i \in 1 .. h.arg |->
               <<list.items[2 * i - 1], list.items[2 * i]>>]), list.at)

RECURSIVE DecodeValue(_, _, _), DecodeHeaded(_, _, _),
          DecodeItems(_, _, _, _), DecodeMore(_, _, _, _)
DecodeItems(data, at, n, depth) ==
  IF n = 0 THEN [ok |-> TRUE, items |-> <<>>, at |-> at]
  ELSE DecodeMore(DecodeValue(data, at, depth), data, n - 1, depth)

DecodeMore(first, data, n, depth) ==
  IF ~first.ok THEN [ok |-> FALSE, items |-> <<>>, at |-> 0]
  ELSE Before(first.value, DecodeItems(data, first.at, n, depth))

DecodeHeaded(h, data, depth) ==
  IF ~h.ok \/ (h.indefinite /\ h.major \in {0, 2, 4, 5}) THEN NoValue
  ELSE CASE h.major = 0 -> Value(Uint(h.arg), h.at)
         [] h.major = 2 ->
              IF h.arg > Left(data, h.at) THEN NoValue
              ELSE Value(Bytes(SubSeq(data, h.at, h.at + h.arg - 1)), h.at + h.arg)
         [] h.major \in {4, 5} ->
              IF depth >= MaxDepth_ \/ Count(h) > Left(data, h.at) THEN NoValue
              ELSE Container(h, DecodeItems(data, h.at, Count(h), depth + 1))
         [] h.major = 7 ->
              CASE h.arg \in {Direct - 4, Direct - 3} -> Value(Simple(h.arg), h.at)
                [] h.arg \in {Direct - 2, Direct - 1} -> Value(Null, h.at)
                [] OTHER -> NoValue
         [] OTHER -> NoValue

DecodeValue(data, at, depth) == DecodeHeaded(ReadHead(data, at), data, depth)

Decode(data) == DecodeValue(data, 1, 0)

----------------------------------------------------------------------------
(* scan_item(): the containers that are open, by the items that they still *)
(* expect or until a break.  A position of 0 is an error.                  *)

Items(n) == [left |-> n, pairs |-> FALSE, mid |-> FALSE]
UntilBreak(pairs) == [left |-> 0, pairs |-> pairs, mid |-> FALSE]

(* The chunks of an indefinite string, through their break code.           *)
RECURSIVE ScanChunks(_, _, _)
ScanChunks(data, at, major) ==
  LET h == ReadHead(data, at) IN
  IF at <= Len(data) /\ data[at] = Break THEN at + 1
  ELSE IF ~h.ok \/ h.major # major \/ h.indefinite \/ h.arg > Left(data, h.at) THEN 0
  ELSE ScanChunks(data, h.at + h.arg, major)

(* An item is complete, and with it every container it was the last of.    *)
RECURSIVE Complete(_)
Complete(open) ==
  LET top == Last(open) IN
  IF open = <<>> THEN <<>>
  ELSE IF top.left = 0 THEN [open EXCEPT ![Len(open)].mid = top.pairs /\ ~@]
  ELSE IF top.left > 1 THEN [open EXCEPT ![Len(open)].left = @ - 1]
  ELSE Complete(Front(open))

(* Mutated form: a break may come between a key and its value.             *)
Closes_Anywhere(data, at, open) ==
  /\ open # <<>> /\ Last(open).left = 0
  /\ at <= Len(data) /\ data[at] = Break

Closes(data, at, open) ==
  /\ open # <<>> /\ Last(open).left = 0 /\ ~Last(open).mid
  /\ at <= Len(data) /\ data[at] = Break

(* Tags, and containers that are not empty, are open until their last item *)
(* or their break.                                                         *)
Opens(h) == h.major = 6 \/ (h.major \in {4, 5} /\ (h.indefinite \/ Count(h) > 0))

Opened(h) ==
  CASE h.major = 6                     -> Items(1)
    [] h.major # 6 /\ h.indefinite     -> UntilBreak(h.major = 5)
    [] OTHER                           -> Items(Count(h))

TooMany(h, data) == h.major # 6 /\ ~h.indefinite /\ Count(h) > Left(data, h.at)

(* Where any other item ends, or 0.                                        *)
EndOf(h, data) ==
  CASE h.major \in {2, 3} /\ h.indefinite -> ScanChunks(data, h.at, h.major)
    [] h.major \in {2, 3} /\ ~h.indefinite ->
         IF h.arg > Left(data, h.at) THEN 0 ELSE h.at + h.arg
    [] h.major = 7 /\ h.indefinite -> 0
    [] OTHER -> h.at

RECURSIVE Scan(_, _, _), ScanHeaded(_, _, _), Resume(_, _, _)
Scan(data, at, open) ==
  IF Closes(data, at, open) THEN Resume(data, at + 1, Complete(Front(open)))
  ELSE ScanHeaded(ReadHead(data, at), data, open)

ScanHeaded(h, data, open) ==
  IF ~h.ok THEN 0
  ELSE IF ~Opens(h) THEN Resume(data, EndOf(h, data), Complete(open))
  ELSE IF TooMany(h, data) THEN 0
  ELSE Scan(data, h.at, Append(open, Opened(h)))

(* On with what follows a complete item, if it was not the whole.          *)
Resume(data, next, open) ==
  IF next = 0 \/ open = <<>> THEN next ELSE Scan(data, next, open)

ScanItem(data, at) == Scan(data, at, <<>>)

(* split_array_items(): the bytes of each item; what follows is ignored.   *)
RECURSIVE SplitFrom(_, _, _), SplitAfter(_, _, _, _)
SplitFrom(data, at, n) ==
  IF n = 0 THEN [ok |-> TRUE, items |-> <<>>]
  ELSE SplitAfter(data, at, ScanItem(data, at), n - 1)

SplitAfter(data, at, next, n) ==
  IF next = 0 THEN [ok |-> FALSE, items |-> <<>>]
  ELSE Before(SubSeq(data, at, next - 1), SplitFrom(data, next, n))

SplitArrayItems(data) ==
  LET h == ReadHead(data, 1) IN
  IF ~h.ok \/ h.major # 4 \/ h.indefinite \/ h.arg > Left(data, h.at)
    THEN [ok |-> FALSE, items |-> <<>>]
  ELSE SplitFrom(data, h.at, h.arg)

----------------------------------------------------------------------------
(* The grammar, by recursion: where the item at a position may end.        *)
RECURSIVE ItemEnds(_, _), ItemsEnd(_, _, _), BrokenEnds(_, _, _)
ItemsEnd(data, at, n) ==
  IF n = 0 THEN {at}
  ELSE UNION {ItemsEnd(data, e, n - 1) : e \in ItemEnds(data, at)}

(* Groups of so many items, up to a break.                                 *)
BrokenEnds(data, at, n) ==
  IF at > Len(data) THEN {}
  ELSE IF data[at] = Break THEN {at + 1}
  ELSE UNION {BrokenEnds(data, e, n) : e \in ItemsEnd(data, at, n)}

ItemEnds(data, at) ==
  LET h == ReadHead(data, at)
      Fits(e) == IF e <= Len(data) + 1 THEN {e} ELSE {}
  IN
  IF ~h.ok THEN {}
  ELSE CASE h.major \in {0, 1} -> {h.at}
         [] h.major \in {2, 3} /\ ~h.indefinite -> Fits(h.at + h.arg)
         [] h.major \in {2, 3} /\ h.indefinite  ->
              {e \in {ScanChunks(data, h.at, h.major)} : e # 0}
         [] h.major \in {4, 5} /\ ~h.indefinite ->
              IF h.arg > Len(data) THEN {}
              ELSE ItemsEnd(data, h.at, h.arg * (h.major - 3))
         [] h.major \in {4, 5} /\ h.indefinite  -> BrokenEnds(data, h.at, h.major - 3)
         [] h.major = 6 -> ItemEnds(data, h.at)
         [] OTHER -> IF h.indefinite THEN {} ELSE {h.at}

(* The scanner measures what is one item, of any kind, and only that; and  *)
(* what the decoder reads, it measures the same.                           *)
ScansItems(data) ==
  /\ ItemEnds(data, 1) = {e \in {ScanItem(data, 1)} : e # 0}
  /\ Decode(data).ok => ScanItem(data, 1) = Decode(data).at

(* The value, with its maps in the order of their keys.                    *)
RECURSIVE Ordered(_)
Ordered(v) ==
  CASE v.type = "array" -> [v EXCEPT !.items = [i \in DOMAIN @ |-> Ordered(@[i])]]
    [] v.type = "map" ->
         [v EXCEPT !.items =
            SortSeq([i \in DOMAIN @ |-> <<Ordered(@[i][1]), Ordered(@[i][2])>>],
                     LAMBDA a, b : KeyLess(<<Encode(a[1])>>, <<Encode(b[1])>>))]
    [] OTHER -> v

(* How many arrays and maps are nested in a value.                         *)
RECURSIVE DepthOf(_)
DepthOf(v) ==
  LET parts == CASE v.type = "array" -> {v.items[i] : i \in DOMAIN v.items}
                 [] v.type = "map"   -> {v.items[i][2] : i \in DOMAIN v.items}
                 [] OTHER            -> {}
  IN  IF v.type \in {"array", "map"} THEN 1 + Max({0} \cup {DepthOf(p) : p \in parts})
      ELSE 0

(* A value is read as it was, maps in order, as deep as the decoder goes;  *)
(* its encoding does not depend on the order of entries, and is taken      *)
(* apart again inside an array.                                            *)
ValueReadsBack(v) ==
  LET e == Encode(v) IN
  /\ IF DepthOf(v) <= MaxDepth_ THEN Decode(e) = Value(Ordered(v), Len(e) + 1)
     ELSE ~Decode(e).ok
  /\ v.type = "map" => Encode([v EXCEPT !.items = Reverse(@)]) = e
  /\ SplitArrayItems(Encode(Array(<<v, Raw(e), v>>))) = [ok |-> TRUE, items |-> <<e, e, e>>]
=============================================================================
