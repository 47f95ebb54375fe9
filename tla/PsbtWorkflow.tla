----------------------------- MODULE PsbtWorkflow -----------------------------
(***************************************************************************)
(* Parties that pass copies of a PSBT around: each may update, sign and    *)
(* finalize its copy, combine it with that of another party, and extract   *)
(* the transaction.  Each operation of the crate writes a new PSBT or      *)
(* fails; the party keeps what was written.                                *)
(***************************************************************************)
EXTENDS PsbtInput, FiniteSetsExt

CONSTANTS
  Party,
  Transactions,  \* the sets of inputs of the transactions to choose from
  Cosigners,     \* [Transactions -> sets of parties]: who works on which
  Completable,   \* the transactions whose parties have all it takes
  SignersOf,     \* [Party -> sets of keys]: the keys that a party holds
  Records        \* the records <<p, i, key, value>> that party p sets

VARIABLES
  copies,     \* [Party -> a PSBT, or None]
  extracted,  \* the transaction that was last extracted, or None
  result,     \* the error of the last operation, or None
  made        \* history: every signature that a signer was asked to make

(* The scripts that an input executes are those that match a template, and *)
(* a leaf is none of them.                                                 *)
ASSUME ScriptsAssumption ==
  /\ \A i \in UNION Transactions :
       /\ Kind[i] # "p2tr" => Script[i] \in DOMAIN KeysOf /\ DOMAIN ProvenLeaf[i] = {}
       /\ IsFiniteSet(DOMAIN ProvenLeaf[i])
       /\ \A cb \in DOMAIN ProvenLeaf[i] : ProvenLeaf[i][cb] \in DOMAIN KeysOf
  /\ \A s \in DOMAIN KeysOf : KeysOf[s] \in Seq(ScriptKeys(s)) /\ Threshold[s] \in Nat
  /\ "key_path" \notin DOMAIN KeysOf
  /\ MaxLeafSigs \in Nat

(* What a signer makes. *)
Signatures ==
  [by : UNION {SignersOf[p] : p \in Party}, input : UNION Transactions,
   hashType : 0 .. 255, for : DOMAIN KeysOf \cup {"key_path"}]

(* An operation that succeeds has no error, and a record that is absent    *)
(* has no value.                                                           *)
ASSUME NoneAssumption == None \notin Errors \cup Signatures

vars == <<copies, extracted, result, made>>

Init ==
  /\ copies = [p \in Party |-> None]
  /\ extracted = None
  /\ result = None
  /\ made = {}

Holds(p) == copies[p] # None

Inputs(p) == IF Holds(p) THEN DOMAIN copies[p] ELSE {}

Write(p, psbt) ==
  /\ copies' = [copies EXCEPT ![p] = psbt]
  /\ result' = None

Fail(e) ==
  /\ result' = e
  /\ UNCHANGED copies

(* create_to_slice() *)
Create(p) ==
  /\ ~Holds(p)
  /\ \A q \in Party : ~Holds(q)
  /\ \E inputs \in Transactions :
       p \in Cosigners[inputs] /\ Write(p, [i \in inputs |-> <<>>])
  /\ UNCHANGED <<extracted, made>>

(* A party hands a copy of what it has to one that has none.               *)
Send(p, q) ==
  /\ Holds(p)
  /\ ~Holds(q)
  /\ q \in Cosigners[Inputs(p)]
  /\ Write(q, copies[p])
  /\ UNCHANGED <<extracted, made>>

(* set_input_record(): the new value replaces any other. *)
Set(map, key, value) == Over([k \in {key} |-> value], map)

Update(p, i, key, value) ==
  /\ Holds(p)
  /\ i \in Inputs(p)
  /\ Write(p, [copies[p] EXCEPT ![i] = Set(@, key, value)])
  /\ UNCHANGED <<extracted, made>>

(* sign_to_slice(): every input that the key is involved in. *)
Sign(p, k) ==
  LET psbt == copies[p] IN
  /\ Holds(p)
  /\ \E o \in [Inputs(p) -> UNION {SignOutcomes(psbt, i, k) : i \in Inputs(p)}] :
       LET errors == {o[i].error : i \in Inputs(p)} \ (Skippable \cup {None})
           sigs   == UNION {{o[i].sigs[key] : key \in DOMAIN o[i].sigs} :
                              i \in Inputs(p)}
       IN
       /\ \A i \in Inputs(p) : o[i] \in SignOutcomes(psbt, i, k)
       /\ made' = made \cup sigs
       /\ IF errors # {} THEN \E e \in errors : Fail(e)
          ELSE IF \E i \in Inputs(p) : HasDuplicate(o[i])
            THEN Fail("DuplicateKey")
          ELSE Write(p, [i \in Inputs(p) |-> Over(o[i].sigs, psbt[i])])
  /\ UNCHANGED extracted

(* sign_input_to_slice(): one input, and no error is passed over. *)
SignInput(p, k, i) ==
  LET psbt == copies[p] IN
  /\ Holds(p)
  /\ \E o \in SignOutcomes(psbt, i, k) :
       /\ made' = made \cup {o.sigs[key] : key \in DOMAIN o.sigs}
       /\ IF o.error # None THEN Fail(o.error)
          ELSE IF o.count = 0 THEN Fail("KeyNotInvolved")
          ELSE IF HasDuplicate(o) THEN Fail("DuplicateKey")
          ELSE Write(p, [psbt EXCEPT ![i] = Over(o.sigs, @)])
  /\ UNCHANGED extracted

(* Mutated forms of Merge: the other copy wins; the other copy replaces.   *)
Merge_TheirsWin(map, other) == Over(other, map)
Merge_Replace(map, other) == other

(* The records already present win. *)
Merge(map, other) == Over(map, other)

(* combine_to_slice() *)
Combine(p, q) ==
  /\ p # q
  /\ Holds(p)
  /\ Holds(q)
  /\ Write(p, [i \in Inputs(p) |-> Merge(copies[p][i], copies[q][i])])
  /\ UNCHANGED <<extracted, made>>

(* finalize_to_slice() *)
Finalize(p) ==
  /\ Holds(p)
  /\ LET psbt == copies[p]
         errors == {ResolveError(psbt[i], i) :
                      i \in {j \in Inputs(p) : ~IsFinalized(psbt[j])}}
                     \ (Skippable \cup {None})
     IN
     IF errors # {} THEN \E e \in errors : Fail(e)
     ELSE \E fin \in [Inputs(p) -> UNION {FinalMaps(psbt[i], i) : i \in Inputs(p)}] :
            /\ \A i \in Inputs(p) : fin[i] \in FinalMaps(psbt[i], i)
            /\ Write(p, fin)
  /\ UNCHANGED <<extracted, made>>

SpendOf(map) ==
  IF Has(map, FinalWitness) THEN map[FinalWitness] ELSE map[FinalScriptSig]

(* extract_tx_to_slice() *)
Extract(p) ==
  /\ Holds(p)
  /\ IF \A i \in Inputs(p) : IsFinalized(copies[p][i])
       THEN /\ extracted' = [i \in Inputs(p) |-> SpendOf(copies[p][i])]
            /\ result' = None
            /\ UNCHANGED copies
       ELSE Fail("NotFinalized") /\ UNCHANGED extracted
  /\ UNCHANGED made

Next ==
  \/ \E p \in Party : Create(p) \/ Finalize(p) \/ Extract(p)
  \/ \E p \in Party : \E k \in SignersOf[p] :
       Sign(p, k) \/ \E i \in Inputs(p) : SignInput(p, k, i)
  \/ \E p, q \in Party : Send(p, q) \/ Combine(p, q)
  \/ \E r \in Records : Update(r[1], r[2], r[3], r[4])

Spec == Init /\ [][Next]_vars

Completing == UNION {Cosigners[inputs] : inputs \in Completable}

(* Those who can complete a transaction go on: records are set, every      *)
(* signer signs its party's copy, copies are sent and combined both ways,  *)
(* finalized and extracted.                                                *)
FairSpec ==
  /\ Spec
  /\ WF_vars(\E p \in Party : Create(p))
  /\ \A r \in {t \in Records : t[1] \in Completing} :
       WF_vars(Update(r[1], r[2], r[3], r[4]))
  /\ \A p \in Completing :
       /\ \A k \in SignersOf[p] : WF_vars(Sign(p, k))
       /\ \A q \in Completing \ {p} :
            WF_vars(Send(p, q)) /\ WF_vars(Combine(p, q))
       /\ WF_vars(Finalize(p))
       /\ WF_vars(Extract(p))

----------------------------------------------------------------------------
(* Properties *)

Holders == {p \in Party : Holds(p)}

(* A finalized input has what its script asks for: as many signatures as   *)
(* the threshold, by different keys of the script and in their order, each *)
(* made by the holder of the key for that input and script.                *)
Satisfies(spend, i) ==
  LET s == spend.script
      signers == [n \in DOMAIN spend.sigs |-> spend.sigs[n].by]
  IN
  /\ \A n \in DOMAIN spend.sigs :
       spend.sigs[n] \in made /\ spend.sigs[n].input = i
         /\ spend.sigs[n].for = s
  /\ IF s = "key_path" THEN signers = <<InternalKey[i]>>
     ELSE /\ Len(signers) = Threshold[s]
          /\ \E f \in [DOMAIN signers -> DOMAIN KeysOf[s]] :
               \A n \in DOMAIN signers :
                 /\ signers[n] = KeysOf[s][f[n]]
                 /\ \A o \in DOMAIN signers : o < n => f[o] < f[n]

FinalIsSpendable ==
  \A p \in Holders : \A i \in Inputs(p) :
    IsFinalized(copies[p][i]) => Satisfies(SpendOf(copies[p][i]), i)

(* What is finalized stays as it is, whatever other copies are combined    *)
(* into it and however often it is signed and finalized again.             *)
FinalStays ==
  [][\A p \in Holders : \A i \in Inputs(p) : \A key \in FinalKeys(i) :
       Has(copies[p][i], key) => Get(copies'[p][i], key) = copies[p][i][key]]_vars

IsSig(key) == key[1] \in {"PARTIAL_SIG", "TAP_KEY_SIG", "TAP_SCRIPT_SIG"}

(* No step loses a signature, short of finalizing the input: a combiner    *)
(* does not drop what only one copy has, nor does signing again.           *)
NoSigLost ==
  [][\A p \in Holders : \A i \in Inputs(p) : \A key \in DOMAIN copies[p][i] :
       IsSig(key) => Has(copies'[p][i], key) \/ IsFinalized(copies'[p][i])]_vars

(* Signing writes a PSBT, with a signature "for each tapscript leaf that   *)
(* pushes its x-only key and has a valid control block": what it adds does *)
(* not make its own output invalid.                                        *)
SignNeverSpoils == result # "DuplicateKey"

(* "Leaves that already carry this key's signature are skipped, so signing *)
(* again covers the rest": a call that succeeds leaves no leaf of the key  *)
(* without its signature, or gets MAX_LEAF_SIGS of them further, unless    *)
(* the data of the input, or the UTXO of any input, is not there.          *)
Uncovered(map, i, k) ==
  {cb \in DOMAIN ProvenLeaf[i] :
     /\ Has(map, TapLeafScript(cb))
     /\ \E n \in DOMAIN KeysOf[ProvenLeaf[i][cb]] : KeysOf[ProvenLeaf[i][cb]][n] = k
     /\ Get(map, TapScriptSig(k, ProvenLeaf[i][cb])) = None}

SigningCovers ==
  [][\A p \in Holders : \A k \in SignersOf[p] :
       (result' = None /\ "leaf" \notin Cannot[k] /\ Sign(p, k)) =>
         \A i \in Inputs(p) :
           LET before == Uncovered(copies[p][i], i, k)
               after  == Uncovered(copies'[p][i], i, k)
           IN  \/ IsFinalized(copies[p][i])
               \/ ResolveError(copies[p][i], i) # None
               \/ \E j \in Inputs(p) : UtxoError(copies[p][j]) # None
               \/ after = {}
               \/ Cardinality(before \ after) >= MaxLeafSigs]_vars

(* sign_len_bound(): the bytes that a call adds to an input, by the sizes  *)
(* of the largest records, do not exceed the room it is given: 141 bytes,  *)
(* and 132 for each leaf up to MAX_LEAF_SIGS.                              *)
RecordSize(key) ==
  CASE key[1] = "PARTIAL_SIG"    -> 1 + 66 + 1 + 73
    [] key[1] = "TAP_KEY_SIG"    -> 1 + 1 + 1 + 65
    [] key[1] = "TAP_SCRIPT_SIG" -> 1 + 65 + 1 + 65
    [] OTHER                     -> 0

SignLenBound(map) ==
  LET leaves == Cardinality({key \in DOMAIN map : key[1] = "TAP_LEAF_SCRIPT"})
  IN  141 + 132 * (IF leaves < MaxLeafSigs THEN leaves ELSE MaxLeafSigs)

SignFits ==
  [][\A p \in Holders :
       copies'[p] # copies[p] /\ (\E k \in SignersOf[p] : Sign(p, k)) =>
       \A i \in Inputs(p) :
         MapThenSumSet(RecordSize, DOMAIN copies'[p][i] \ DOMAIN copies[p][i])
           <= SignLenBound(copies[p][i])]_vars

(* "An input whose data fails the BIP-174 signer checks (mismatched txid,  *)
(* redeem or witness script, ...) makes the whole operation fail": nothing *)
(* is written while an unfinalized input has such data.                    *)
Mismatches == {"UtxoTxidMismatch", "RedeemScriptMismatch",
               "WitnessScriptMismatch", "WitnessUtxoForNonWitness"}

MismatchStops ==
  [][\A p \in Holders :
       \/ UNCHANGED copies
       \/ \A i \in Inputs(p) : \/ IsFinalized(copies[p][i])
                             \/ ResolveError(copies[p][i], i) \notin Mismatches
       \/ ~(Finalize(p) \/ \E k \in SignersOf[p] : Sign(p, k))
    ]_vars

(* Whoever holds enough keys of each input gets the transaction out.       *)
EventuallyExtracted ==
  <>(\/ extracted # None
     \/ \E p \in Holders : Inputs(p) \notin Completable)
=============================================================================
