------------------------------ MODULE BtcSighash ------------------------------
(***************************************************************************)
(* What a signature of a Bitcoin transaction commits to                    *)
(* (src/src/btcraw.rs).  A digest is the record of what is hashed: equal   *)
(* digests are equal records.  The version stands with the lock time.      *)
(*                                                                         *)
(*   transaction  [locktime, inputs, outputs]                              *)
(*   input        [coin, sequence, script, witness]                        *)
(*   prevout      [amount, script]: the output that an input spends        *)
(***************************************************************************)
EXTENDS Integers, Sequences

CONSTANT None

ASSUME NoneAssumption == None \notin Int

(* The bits of a hash type. *)
HasBit(t, bit) == (t \div bit) % 2 = 1
AnyoneCanPay(t) == HasBit(t, 128)
ForkId(t) == HasBit(t, 64)
Unified(t) == HasBit(t, 32)
SignsNone(t) == t % 32 = 2
SignsSingle(t) == t % 32 = 3

Outpoints(tx) == [i \in DOMAIN tx.inputs |-> tx.inputs[i].coin]
SequencesOf(tx) == [i \in DOMAIN tx.inputs |-> tx.inputs[i].sequence]

(* Mutated form of LegacySighash: the other inputs keep their scripts. *)
LegacySighash_KeepScripts(tx, n, code, t) ==
  [legacy |-> code, type |-> t, locktime |-> tx.locktime, at |-> n,
   outpoints |-> Outpoints(tx), sequences |-> SequencesOf(tx),
   scripts |-> [i \in DOMAIN tx.inputs \ {n} |-> tx.inputs[i].script],
   outputs |-> tx.outputs]

(* legacy_sighash_of: the script code stands in input n, the scripts of    *)
(* the other inputs are empty, and witnesses are left out.  The whole      *)
(* transaction is signed, whatever the type.                               *)
LegacySighash(tx, n, code, t) ==
  [legacy |-> code, type |-> t, locktime |-> tx.locktime, at |-> n,
   outpoints |-> Outpoints(tx), sequences |-> SequencesOf(tx),
   outputs |-> tx.outputs]

(* segwit_v0_midstate_of *)
SegwitMidstate(tx) ==
  [locktime |-> tx.locktime, outpoints |-> Outpoints(tx),
   sequences |-> SequencesOf(tx), outputs |-> tx.outputs]

SegwitSighash(mid, input, code, amount, t) ==
  [segwit |-> code, type |-> t, mid |-> mid, coin |-> input.coin,
   amount |-> amount, sequence |-> input.sequence]

(* taproot_midstate_of *)
TaprootMidstate(tx, prevouts) ==
  [locktime  |-> tx.locktime,
   inputs    |-> [outpoints |-> Outpoints(tx), sequences |-> SequencesOf(tx),
                  prevouts |-> prevouts],
   outputs   |-> tx.outputs]

(* Mutated form of SignedOutputs: SINGLE signs them all. *)
SignedOutputs_SingleIsAll(tx, mid, n, t) ==
  IF SignsNone(t) THEN <<>> ELSE mid.outputs

(* The outputs, all of them, none, or the one at the place of the input.   *)
SignedOutputs(tx, mid, n, t) ==
  IF SignsNone(t) THEN <<>>
  ELSE IF SignsSingle(t) THEN <<tx.outputs[n]>>
  ELSE mid.outputs

(* All inputs and the place of this one, or this one wherever it is.       *)
SignedInputs(tx, mid, n, prevout, t) ==
  IF AnyoneCanPay(t)
    THEN [own |-> tx.inputs[n].coin, sequence |-> tx.inputs[n].sequence,
          prevout |-> prevout]
    ELSE [all |-> mid.inputs, at |-> n]

(* The error of a digest that does not exist, None if it does.             *)
SingleError(tx, n, t) ==
  IF SignsSingle(t) /\ n > Len(tx.outputs) THEN "OutputIndex" ELSE None

TaprootError(tx, n, t) ==
  IF t \notin (0 .. 3) \cup (129 .. 131) THEN "UnsupportedSighash"
  ELSE SingleError(tx, n, t)

(* taproot_sighash_of; leaf is None for the key path. *)
TaprootSighash(tx, mid, n, prevout, t, leaf) ==
  [taproot |-> leaf, type |-> t, locktime |-> mid.locktime,
   inputs |-> SignedInputs(tx, mid, n, prevout, t),
   outputs |-> SignedOutputs(tx, mid, n, t)]

(* is_unified_hash_type: taproot takes the types of BIP-341 only. *)
IsUnifiedHashType(t, spend) ==
  Unified(t) /\ (spend = "taproot" => t % 128 \in 33 .. 35)

UnifiedError(tx, n, t, spend) ==
  IF ~IsUnifiedHashType(t, spend) THEN "UnsupportedSighash"
  ELSE SingleError(tx, n, t)

(* unified_sighash_of; code is the script code, or the leaf for taproot. *)
UnifiedSighash(tx, mid, n, prevout, t, spend, code) ==
  [unified |-> spend, code |-> code, type |-> t, locktime |-> mid.locktime,
   inputs |-> SignedInputs(tx, mid, n, prevout, t),
   outputs |-> SignedOutputs(tx, mid, n, t)]
=============================================================================
