------------------------------ MODULE PsbtInput ------------------------------
(***************************************************************************)
(* What signing and finalizing do to one input of a PSBT                   *)
(* (src/src/psbt/sign.rs, finalize.rs).  A PSBT is a function from its     *)
(* inputs to their maps, and a map one from keys to values: PsbtMap shows  *)
(* that the order of the records does not matter.                          *)
(*                                                                         *)
(* A hash of a script is the script, and a record is "right" when it has   *)
(* the hash that what is spent commits to.  A signature is what made it.   *)
(***************************************************************************)
EXTENDS Integers, Sequences, FiniteSets

CONSTANTS
  Kind,          \* [inputs -> {"legacy", "p2wpkh", "p2wsh", "p2tr"}]
  Nested,        \* the inputs whose output is P2SH
  Script,        \* [inputs -> scripts]: what a non-taproot input executes
  InternalKey,   \* [inputs -> keys]: whose tweak is the taproot output key
  ProvenLeaf,    \* [inputs -> [control blocks -> scripts]]: the leaves that
                 \* the output key commits to
  BlockLen,      \* [control blocks -> Nat]
  Threshold,     \* [scripts -> Nat]: the m of their template
  KeysOf,        \* [scripts -> sequences of keys]: its keys, in script order
  Cannot,        \* [signers' keys -> SUBSET {"ecdsa", "key_path", "leaf"}]
  MaxLeafSigs,   \* MAX_LEAF_SIGS, 8 in the code
  None

(* Keys of records, without data and with it. *)
K(type) == <<type, None>>

NonWitnessUtxo == K("NON_WITNESS_UTXO")
WitnessUtxo    == K("WITNESS_UTXO")
SighashType    == K("SIGHASH_TYPE")
RedeemScript   == K("REDEEM_SCRIPT")
WitnessScript  == K("WITNESS_SCRIPT")
TapInternalKey == K("TAP_INTERNAL_KEY")
TapMerkleRoot  == K("TAP_MERKLE_ROOT")
TapKeySig      == K("TAP_KEY_SIG")
FinalScriptSig == K("FINAL_SCRIPTSIG")
FinalWitness   == K("FINAL_SCRIPTWITNESS")
PartialSig(k)      == <<"PARTIAL_SIG", k>>
TapLeafScript(cb)  == <<"TAP_LEAF_SCRIPT", cb>>
TapScriptSig(k, s) == <<"TAP_SCRIPT_SIG", k, s>>

Get(map, key) == IF key \in DOMAIN map THEN map[key] ELSE None
Has(map, key) == key \in DOMAIN map

(* The records of a map, and those of another whose keys it does not have. *)
Over(map, other) ==
  [key \in DOMAIN map \cup DOMAIN other |->
     IF key \in DOMAIN map THEN map[key] ELSE other[key]]

(* PsbtInput::is_finalized *)
IsFinalized(map) == Has(map, FinalScriptSig) \/ Has(map, FinalWitness)

(* What the operations fail with. *)
Errors == {"MissingUtxo", "UtxoTxidMismatch", "MissingRedeemScript",
  "RedeemScriptMismatch", "MissingWitnessScript", "WitnessScriptMismatch",
  "WitnessUtxoForNonWitness", "UnsupportedScript", "UnsupportedSighash",
  "Signer", "KeyNotInvolved", "DuplicateKey", "NotFinalized"}

----------------------------------------------------------------------------
(* Psbt::utxo and resolve(): the error an input is refused with, or None.  *)
UtxoError(map) ==
  IF Has(map, NonWitnessUtxo)
    THEN IF map[NonWitnessUtxo] = "right" THEN None ELSE "UtxoTxidMismatch"
  ELSE IF Has(map, WitnessUtxo) THEN None
  ELSE "MissingUtxo"

ScriptError(map, key, missing, mismatch) ==
  CASE ~Has(map, key) -> missing
    [] Has(map, key) /\ map[key] # "right" -> mismatch
    [] OTHER -> None

ResolveError(map, i) ==
  LET redeem  == ScriptError(map, RedeemScript, "MissingRedeemScript",
                             "RedeemScriptMismatch")
      witness == ScriptError(map, WitnessScript, "MissingWitnessScript",
                             "WitnessScriptMismatch")
  IN
  IF UtxoError(map) # None THEN UtxoError(map)
  ELSE IF i \in Nested /\ redeem # None THEN redeem
  ELSE IF Kind[i] = "p2wsh" THEN witness
  ELSE IF Kind[i] = "p2tr" /\ i \in Nested THEN "UnsupportedScript"
  ELSE IF Kind[i] = "legacy" /\ ~Has(map, NonWitnessUtxo)
    THEN "WitnessUtxoForNonWitness"
  ELSE None

(* Mutated form of Skippable: a mismatch does not stop the operation. *)
Skippable_Mismatch == {"MissingUtxo", "UnsupportedScript",
  "MissingRedeemScript", "MissingWitnessScript", "UtxoTxidMismatch",
  "RedeemScriptMismatch", "WitnessScriptMismatch"}

(* Errors that leave an input as it is without failing the operation. *)
Skippable == {"MissingUtxo", "UnsupportedScript", "MissingRedeemScript",
              "MissingWitnessScript"}

----------------------------------------------------------------------------
(* Signing.  hash types: SIGHASH_UNIFIED is bit 0x20. *)
Unified(h) == (h \div 32) % 2 = 1

HashTypes(i) ==
  IF Kind[i] = "p2tr"
    THEN {0, 1, 2, 3, 129, 130, 131, 33, 34, 35, 161, 162, 163}
    ELSE {1} \cup {h \in 0 .. 255 : Unified(h)}

HashType(map, i) ==
  IF Has(map, SighashType) THEN map[SighashType]
  ELSE IF Kind[i] = "p2tr" THEN 0 ELSE 1

Signature(k, i, h, what) == [by |-> k, input |-> i, hashType |-> h, for |-> what]

ScriptKeys(s) == {KeysOf[s][n] : n \in DOMAIN KeysOf[s]}

(* The key is the internal key on record, if any, and its tweak with the   *)
(* merkle root on record, if any, gives the output key.                    *)
HasKeyPath(map, i, k) ==
  /\ InternalKey[i] = k
  /\ Get(map, TapInternalKey) \in {None, k}
  /\ Get(map, TapMerkleRoot) =
       IF DOMAIN ProvenLeaf[i] = {} THEN None ELSE "right"

(* Mutated form of LeavesToSign: leaves that are signed are signed again. *)
LeavesToSign_All(map, i, k) ==
  {cb \in DOMAIN ProvenLeaf[i] :
     Has(map, TapLeafScript(cb)) /\ k \in ScriptKeys(ProvenLeaf[i][cb])}

(* The leaves on record that are proven, push the key and have no          *)
(* signature of it yet.                                                    *)
LeavesToSign(map, i, k) ==
  {cb \in DOMAIN ProvenLeaf[i] :
     /\ Has(map, TapLeafScript(cb))
     /\ k \in ScriptKeys(ProvenLeaf[i][cb])
     /\ ~Has(map, TapScriptSig(k, ProvenLeaf[i][cb]))}

(* Mutated form of SetSize: one more. *)
SetSize_Extra == 2 + MaxLeafSigs

(* How many signatures a SignedSet holds. *)
SetSize == 1 + MaxLeafSigs

(* What sign_input() does with one input: fail with an error, or add the   *)
(* records `sigs', as many as `count' counts.  Which leaves it gets to     *)
(* before the set is full depends on the order of their records.           *)
Failed(e) == {[error |-> e, sigs |-> <<>>, count |-> 0]}
Nothing == Failed(None)
Signed(sigs, count) == {[error |-> None, sigs |-> sigs, count |-> count]}

TaprootOutcomes(psbt, i, k) ==
  LET map == psbt[i]
      h   == HashType(map, i)
      keyPath == HasKeyPath(map, i, k)
      keySig  == keyPath /\ "key_path" \notin Cannot[k]
      left  == SetSize - (IF keySig THEN 1 ELSE 0)
      toSign == LeavesToSign(map, i, k)
      leafOk == "leaf" \notin Cannot[k]
      number == IF ~leafOk THEN 0
                ELSE IF Cardinality(toSign) < left THEN Cardinality(toSign)
                ELSE left
      Sigs(L) ==
        Over([key \in {TapScriptSig(k, ProvenLeaf[i][cb]) : cb \in L} |->
                Signature(k, i, h, key[3])],
             [key \in (IF keySig THEN {TapKeySig} ELSE {}) |->
                Signature(k, i, h, "key_path")])
  IN
  IF h \notin HashTypes(i) THEN Failed("UnsupportedSighash")
  ELSE IF ~keyPath /\ toSign = {} THEN Nothing
  ELSE IF \E j \in DOMAIN psbt : UtxoError(psbt[j]) # None THEN Failed("MissingUtxo")
  ELSE IF number = 0 /\ ~keySig THEN Failed("Signer")
  ELSE UNION {Signed(Sigs(L), number + (IF keySig THEN 1 ELSE 0)) :
                L \in {S \in SUBSET toSign : Cardinality(S) = number}}

EcdsaOutcomes(psbt, i, k) ==
  LET map == psbt[i]
      h   == HashType(map, i)
  IN
  IF k \notin ScriptKeys(Script[i]) THEN Nothing
  ELSE IF h \notin HashTypes(i) THEN Failed("UnsupportedSighash")
  ELSE IF Unified(h) /\ \E j \in DOMAIN psbt : UtxoError(psbt[j]) # None
    THEN Failed("MissingUtxo")
  ELSE IF "ecdsa" \in Cannot[k] THEN Failed("Signer")
  ELSE Signed([key \in {PartialSig(k)} |-> Signature(k, i, h, Script[i])], 1)

SignOutcomes(psbt, i, k) ==
  IF IsFinalized(psbt[i]) THEN Nothing
  ELSE IF ResolveError(psbt[i], i) # None THEN Failed(ResolveError(psbt[i], i))
  ELSE IF Kind[i] = "p2tr" THEN TaprootOutcomes(psbt, i, k)
  ELSE EcdsaOutcomes(psbt, i, k)

(* emit() parses what was written: two records of one key are an error.    *)
HasDuplicate(o) == o.count # Cardinality(DOMAIN o.sigs)

----------------------------------------------------------------------------
(* Finalizing *)

(* The signatures on record among those by the keys of a script, in order. *)
InOrder(s, sigOf) ==
  LET found[n \in 0 .. Len(KeysOf[s])] ==
        IF n = 0 THEN <<>>
        ELSE IF sigOf[KeysOf[s][n]] = None THEN found[n - 1]
        ELSE Append(found[n - 1], sigOf[KeysOf[s][n]])
  IN  found[Len(KeysOf[s])]

(* Mutated form of Satisfying: one signature short. *)
Satisfying_Short(s, sigOf) ==
  LET sigs == InOrder(s, sigOf)
  IN  IF Len(sigs) < Threshold[s] - 1 THEN {} ELSE {sigs}

(* satisfy(), tap_script_witness(): the first m signatures in the order of *)
(* the script's keys, if there are as many.                                *)
Satisfying(s, sigOf) ==
  LET sigs == InOrder(s, sigOf)
  IN  IF Len(sigs) < Threshold[s] THEN {}
      ELSE {SubSeq(sigs, 1, Threshold[s])}

(* Among the leaves with enough signatures, one of those with the shortest *)
(* control block.                                                          *)
LeafSpends(map, i) ==
  LET Sigs(cb) ==
        Satisfying(ProvenLeaf[i][cb],
                   [k \in ScriptKeys(ProvenLeaf[i][cb]) |->
                      Get(map, TapScriptSig(k, ProvenLeaf[i][cb]))])
      ready == {cb \in DOMAIN ProvenLeaf[i] :
                  Has(map, TapLeafScript(cb)) /\ Sigs(cb) # {}}
      best  == {cb \in ready : \A o \in ready : BlockLen[cb] <= BlockLen[o]}
  IN  UNION {{[script |-> ProvenLeaf[i][cb], sigs |-> s] : s \in Sigs(cb)} :
               cb \in best}

(* build_final(): the ways to spend a resolved input, none if signatures   *)
(* are missing.                                                            *)
Spends(map, i) ==
  IF Kind[i] # "p2tr"
    THEN {[script |-> Script[i], sigs |-> s] :
            s \in Satisfying(Script[i], [k \in ScriptKeys(Script[i]) |->
                                            Get(map, PartialSig(k))])}
  ELSE IF Has(map, TapKeySig)
    THEN {[script |-> "key_path", sigs |-> <<map[TapKeySig]>>]}
  ELSE LeafSpends(map, i)

FinalKeys(i) ==
  (IF Kind[i] = "legacy" \/ i \in Nested THEN {FinalScriptSig} ELSE {})
    \cup (IF Kind[i] # "legacy" THEN {FinalWitness} ELSE {})

(* The map of a finalized input keeps the UTXOs (and unknown records). *)
Finalized(map, i, spend) ==
  [key \in (DOMAIN map \cap {NonWitnessUtxo, WitnessUtxo}) \cup FinalKeys(i) |->
     IF key \in FinalKeys(i) THEN spend ELSE map[key]]

(* What finalize() makes of an input. *)
FinalMaps(map, i) ==
  IF IsFinalized(map) \/ ResolveError(map, i) # None \/ Spends(map, i) = {}
    THEN {map}
  ELSE {Finalized(map, i, spend) : spend \in Spends(map, i)}
=============================================================================
