------------------------------- MODULE MCPsbt -------------------------------
(* Instances of PsbtWorkflow for TLC.                                      *)
EXTENDS PsbtWorkflow, TLC

CONSTANTS a, b, c,          \* keys
          pa, pb, pc,       \* parties
          shared, multi, single, tap,  \* inputs, and their scripts
          cb1, cb2, cb3,    \* control blocks
          one, both, late   \* scripts of leaves

(* Three transactions.  The first has a 2-of-3 P2WSH input, signed by pa   *)
(* with a, and by pb with b and c, which asks for another hash type.  The  *)
(* others are signed by pc alone.  One has a P2TR input with three leaves: *)
(* a's, a and b's, and one of c or a; b holds the internal key, and c's    *)
(* signer cannot sign leaves.  One has a nested P2WSH input of a and b's   *)
(* and a legacy P2SH input of b's, with data that does not match what they *)
(* spend.                                                                  *)
AllTransactions == {{shared}, {tap}, {multi, single}}
AllCosigners ==
  ({shared} :> {pa, pb}) @@ ({tap} :> {pc}) @@ ({multi, single} :> {pc})
AllCompletable == {{shared}}
AllKind ==
  (shared :> "p2wsh") @@ (tap :> "p2tr") @@ (multi :> "p2wsh")
    @@ (single :> "legacy")
AllNested == {multi, single}
AllScript ==
  (shared :> shared) @@ (tap :> None) @@ (multi :> multi) @@ (single :> single)
AllInternalKey ==
  (tap :> b) @@ [i \in {shared, multi, single} |-> None]
AllProvenLeaf ==
  (tap :> ((cb1 :> one) @@ (cb2 :> both) @@ (cb3 :> late)))
    @@ [i \in {shared, multi, single} |-> <<>>]
AllBlockLen == (cb1 :> 97) @@ (cb2 :> 65) @@ (cb3 :> 97)
AllThreshold ==
  (one :> 1) @@ (both :> 2) @@ (late :> 1) @@ (shared :> 2) @@ (multi :> 2)
    @@ (single :> 1)
AllKeysOf ==
  (one :> <<a>>) @@ (both :> <<b, a>>) @@ (late :> <<c, a>>)
    @@ (shared :> <<a, b, c>>) @@ (multi :> <<a, b>>) @@ (single :> <<b>>)
AllSignersOf == (pa :> {a}) @@ (pb :> {b, c}) @@ (pc :> {a, b, c})
AllCannot == (a :> {}) @@ (b :> {}) @@ (c :> {"leaf"})
TapRecords ==
  ({pc} \X {tap}
     \X {WitnessUtxo, TapLeafScript(cb1), TapLeafScript(cb2), TapLeafScript(cb3),
         TapMerkleRoot}
     \X {"right"})
  \cup {<<pc, tap, TapInternalKey, a>>, <<pc, tap, TapInternalKey, b>>}
AllRecords ==
  { <<pa, shared, NonWitnessUtxo, "right">>,
    <<pa, shared, WitnessScript, "right">>,
    <<pb, shared, SighashType, 33>> }
  \cup TapRecords
  \cup ({pc} \X {multi} \X {NonWitnessUtxo, RedeemScript, WitnessScript}
          \X {"right", "wrong"})
  \cup ({pc} \X {single} \X {WitnessUtxo, NonWitnessUtxo, RedeemScript}
          \X {"right"})

(* The same leaf at two places of the tree.                                *)
TwiceTransactions == {{tap}}
TwiceProvenLeaf == tap :> ((cb1 :> one) @@ (cb2 :> both) @@ (cb3 :> one))
=============================================================================
