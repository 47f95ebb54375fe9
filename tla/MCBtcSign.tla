------------------------------ MODULE MCBtcSign ------------------------------
(* Instances of BtcSign for TLC.                                           *)
EXTENDS BtcSign, TLC

CONSTANTS
  a, b, ext,             \* keys, the last of an external taproot signer
  bare, old, cash, cash2, seg, nested, wsh, hinted, tap, tree, \* coins
  o1, o2                 \* outputs

OneLock(kind, in, key, root, bch) ==
  [kind |-> kind, inner |-> in, key |-> key, root |-> root, cash |-> bch]

LockTable ==
  (bare   :> OneLock("p2pk", "", a, None, FALSE)) @@
  (old    :> OneLock("p2pkh", "", a, None, FALSE)) @@
  (cash   :> OneLock("p2pukh", "", a, None, TRUE)) @@
  (cash2  :> OneLock("p2pkh", "", b, None, TRUE)) @@
  (seg    :> OneLock("p2wpkh", "", a, None, FALSE)) @@
  (nested :> OneLock("p2sh:p2wpkh", "", b, None, FALSE)) @@
  (wsh    :> OneLock("p2wsh", "p2pkh", b, None, FALSE)) @@
  (hinted :> OneLock("p2wsh", "p2pk", b, None, FALSE)) @@
  (tap    :> OneLock("p2tr", "", ext, None, FALSE)) @@
  (tree   :> OneLock("p2tr", "", a, "root", FALSE))

MCCoin == DOMAIN LockTable \ {hinted}
MCAmount == [c \in DOMAIN LockTable |-> IF c \in {old, seg} THEN 1 ELSE 2]
MCAble == (a :> Abilities) @@ (b :> Abilities) @@ (ext :> {"taproot"})

(* An entry for coin c that says what is so.                               *)
Entry(c, in, t) ==
  [scheme |-> LockTable[c].kind, inner |-> in, sighash |-> t, key |-> LockTable[c].key,
   amount |-> MCAmount[c], prevScript |-> PrevScript(c), root |-> LockTable[c].root,
   leaf |-> None]

EntryTable ==
  (bare   :> {Entry(bare, "", 0)}) @@
  (old    :> {Entry(old, "", 0), Entry(old, "", 163)}) @@
  (cash   :> {Entry(cash, "", 65), [Entry(cash, "", 65) EXCEPT !.key = None]}) @@
  (cash2  :> {Entry(cash2, "", 65)}) @@
  (seg    :> {[Entry(seg, "", 1) EXCEPT !.prevScript = None], Entry(seg, "", 34),
              [Entry(seg, "", 0) EXCEPT !.key = ext]}) @@
  (nested :> {Entry(nested, "", 0), Entry(nested, "", 97)}) @@
  (wsh    :> {Entry(wsh, "auto", 0), Entry(wsh, "p2pkh", 161)}) @@
  (hinted :> {Entry(hinted, "auto", 0)}) @@
  (tap    :> {Entry(tap, "", t) : t \in {0, 3, 129}}) @@
  (tree   :> {Entry(tree, "", 131),
              [Entry(tree, "", 35) EXCEPT
                 !.leaf = [key |-> a, output |-> PrevScript(tree)]]})

\* TLC keeps the value of a table, and not that of what a constant stands for.
MCLock == LockTable
MCEntries == EntryTable

MCDrafts == { <<bare>>, <<old, seg, wsh>>, <<cash2, cash>>, <<tap, wsh>>,
              <<nested, tree>> }

(* A P2WSH coin whose inner script, a P2PK, is to be found, beside another *)
(* one that may fail.                                                      *)
HintedCoin == {hinted, seg}
HintedDrafts == { <<hinted, seg>> }

(* The code never looks at outputs but to hash them.                       *)
OutputSymmetry == Permutations(Output)
=============================================================================
