---------------------------- MODULE SolanaMessage ----------------------------
(***************************************************************************)
(* Solana messages and what is serialized of them (src/src/solana/tx.rs).  *)
(* Keys are numbers, as they are ordered; the data of an instruction is    *)
(* its length.  Indices into the account keys are zero-based, as in Rust.  *)
(*                                                                         *)
(*   instruction  [program, accounts, data], before compilation and after  *)
(*   transaction  [format, header, keys, blockhash, ixs, lookups, config,  *)
(*                 sigs], where config holds the requests that are set     *)
(***************************************************************************)
EXTENDS SolanaHeader, Sequences, FiniteSets, FiniteSetsExt

CONSTANTS
  None,          \* no error
  Empty, Zeros   \* the signature slots that nobody signed: empty, or 64 zeros

----------------------------------------------------------------------------
(* Instructions *)

Meta(k, signer, writable) ==
  [key |-> k, is_signer |-> signer, is_writable |-> writable]

Instruction(program, accounts, data) ==
  [program |-> program, accounts |-> accounts, data |-> data]

(* transfer_instruction() *)
Transfer(system, from, to) ==
  Instruction(system, <<Meta(from, TRUE, TRUE), Meta(to, FALSE, TRUE)>>, 12)

(* set_compute_unit_limit(), set_compute_unit_price() *)
SetComputeUnitLimit(budget) == Instruction(budget, <<>>, 5)
SetComputeUnitPrice(budget) == Instruction(budget, <<>>, 9)

(* spl_transfer_instruction() *)
SplTransfer(token, source, destination, owner) ==
  Instruction(token,
    << Meta(source, FALSE, TRUE), Meta(destination, FALSE, TRUE),
       Meta(owner, TRUE, FALSE) >>, 9)

(* create_ata_instruction(), with the address that is derived. *)
CreateAta(program, payer, ata, wallet, mint, system, token) ==
  Instruction(program,
    << Meta(payer, TRUE, TRUE), Meta(ata, FALSE, TRUE),
       Meta(wallet, FALSE, FALSE), Meta(mint, FALSE, FALSE),
       Meta(system, FALSE, FALSE), Meta(token, FALSE, FALSE) >>, 0)

(* advance_nonce_instruction() *)
AdvanceNonce(system, nonce, sysvar, authority) ==
  Instruction(system,
    << Meta(nonce, FALSE, TRUE), Meta(sysvar, FALSE, FALSE),
       Meta(authority, TRUE, FALSE) >>, 4)

----------------------------------------------------------------------------
(* compile_accounts(): the accounts of all instructions, with the rights   *)
(* that any of them asks for, the fee payer first, and then by rights.     *)

Metas(ixs) ==
  UNION {{ixs[n].accounts[m] : m \in DOMAIN ixs[n].accounts} : n \in DOMAIN ixs}

Seen(payer, ixs) ==
  {payer} \cup {a.key : a \in Metas(ixs)} \cup {ixs[n].program : n \in DOMAIN ixs}

IsSigner(payer, ixs, k) ==
  k = payer \/ \E a \in Metas(ixs) : a.key = k /\ a.is_signer

IsWritable(payer, ixs, k) ==
  k = payer \/ \E a \in Metas(ixs) : a.key = k /\ a.is_writable

Sorted(S) ==
  [n \in 1 .. Cardinality(S) |->
     CHOOSE k \in S : Cardinality({j \in S : j < k}) = n - 1]

Class(payer, ixs, signer, writable) ==
  Sorted({k \in Seen(payer, ixs) \ {payer} :
            /\ IsSigner(payer, ixs, k) = signer
            /\ IsWritable(payer, ixs, k) = writable})

(* Mutated form of AccountKeys: the read-only signers come first. *)
AccountKeys_ReadonlyFirst(payer, ixs) ==
  <<payer>> \o Class(payer, ixs, TRUE, FALSE) \o Class(payer, ixs, TRUE, TRUE)
    \o Class(payer, ixs, FALSE, TRUE) \o Class(payer, ixs, FALSE, FALSE)

AccountKeys(payer, ixs) ==
  <<payer>> \o Class(payer, ixs, TRUE, TRUE) \o Class(payer, ixs, TRUE, FALSE)
    \o Class(payer, ixs, FALSE, TRUE) \o Class(payer, ixs, FALSE, FALSE)

HeaderOf(payer, ixs) ==
  Header(Len(Class(payer, ixs, TRUE, TRUE)), Len(Class(payer, ixs, TRUE, FALSE)),
         Len(Class(payer, ixs, FALSE, FALSE)))

IndexOf(keys, k) == (CHOOSE i \in DOMAIN keys : keys[i] = k) - 1

(* compile_instructions() *)
Compiled(keys, ixs) ==
  [n \in DOMAIN ixs |->
     Instruction(IndexOf(keys, ixs[n].program),
       [m \in DOMAIN ixs[n].accounts |-> IndexOf(keys, ixs[n].accounts[m].key)],
       ixs[n].data)]

----------------------------------------------------------------------------
(* Validation: the first check that fails gives the error. *)

FirstError(checks) ==
  LET failing == {n \in DOMAIN checks : checks[n][1]}
  IN  IF failing = {} THEN None ELSE checks[Min(failing)][2]

(* Mutated form of HeaderInvalid: the unsigned accounts are not looked at. *)
HeaderInvalid_SignersOnly(h, n) ==
  h.required > n \/ h.ro_signed > h.required

(* validate_solana_header() *)
HeaderInvalid(h, n) ==
  \/ h.required > n
  \/ h.ro_signed > h.required
  \/ h.required + h.ro_unsigned > n

(* Mutated form of IndexOutOfRange: the last account is out of range. *)
IndexOutOfRange_Last(ixs, addressable) ==
  \E n \in DOMAIN ixs :
    \/ ixs[n].program >= addressable - 1
    \/ \E m \in DOMAIN ixs[n].accounts : ixs[n].accounts[m] >= addressable - 1

(* validate_instruction_indexes() *)
IndexOutOfRange(ixs, addressable) ==
  \E n \in DOMAIN ixs :
    \/ ixs[n].program >= addressable
    \/ \E m \in DOMAIN ixs[n].accounts : ixs[n].accounts[m] >= addressable

(* The static accounts, and for v0 those loaded from lookup tables. *)
Loaded(lookups) ==
  LET CountOf(n) == lookups[n].writable + lookups[n].readonly
  IN  MapThenSumSet(CountOf, DOMAIN lookups)

Addressable(t) == Len(t.keys) + Loaded(t.lookups)

(* SolanaTxConfig::validate() *)
HeapInvalid(config) ==
  /\ "heap_size" \in DOMAIN config
  /\ config.heap_size % 1024 # 0 \/ config.heap_size \notin 32768 .. 262144

(* SolanaMessageV1::validate() *)
V1Error(t) ==
  FirstError(<<
    << \/ t.header.required > 12
       \/ Len(t.ixs) > 64
       \/ Len(t.keys) > 64, "TooLarge" >>,
    << \/ Len(t.keys) < t.header.required + t.header.ro_unsigned
       \/ t.header.ro_signed >= t.header.required, "InvalidHeader" >>,
    << \E i, j \in DOMAIN t.keys : i < j /\ t.keys[i] = t.keys[j], "DuplicateKey" >>,
    << HeapInvalid(t.config), "InvalidTxConfig" >>,
    << \E n \in DOMAIN t.ixs : t.ixs[n].program = 0, "IndexOutOfRange" >>,
    << \E n \in DOMAIN t.ixs : Len(t.ixs[n].accounts) > 255 \/ t.ixs[n].data > 65535,
       "TooLarge" >>,
    << IndexOutOfRange(t.ixs, Len(t.keys)), "IndexOutOfRange" >> >>)

----------------------------------------------------------------------------
(* Serialization: a v1 config is a mask and the words that it selects. *)

Requests ==
  <<"priority_fee", "compute_unit_limit", "loaded_accounts_data_size_limit",
    "heap_size">>

(* The priority fee takes two bits, and two words of 32 bits. *)
BitsOf == <<{0, 1}, {2}, {3}, {4}>>

Mask(config) == UNION {BitsOf[n] : n \in {m \in 1 .. 4 : Requests[m] \in DOMAIN config}}

MaskInvalid(mask) == ~(mask \subseteq 0 .. 4) \/ Cardinality(mask \cap {0, 1}) = 1

(* write_values(), read_values(): in the order of the bits. *)
Selected(mask) == Sorted({n \in 1 .. 4 : BitsOf[n] \subseteq mask})

Values(config) ==
  LET s == Selected(Mask(config)) IN [m \in DOMAIN s |-> config[Requests[s[m]]]]

ReadValues(mask, values) ==
  LET s == Selected(mask)
      At(r) == CHOOSE m \in DOMAIN s : Requests[s[m]] = r
  IN  [r \in {Requests[s[m]] : m \in DOMAIN s} |-> values[At(r)]]

MaxTxSize == 4096

InstructionsSize(ixs) ==
  LET SizeOf(n) == 4 + Len(ixs[n].accounts) + ixs[n].data
  IN  MapThenSumSet(SizeOf, DOMAIN ixs)

SizeV1(t) ==
  42 + 32 * Len(t.keys) + 4 * Cardinality(Mask(t.config))
    + InstructionsSize(t.ixs) + 64 * Len(t.sigs)

(* The bytes that are signed, and SolanaTx::message_bytes(): a length that *)
(* does not fit compact-u16 panics.                                        *)
Message(t) == [f \in DOMAIN t \ {"sigs"} |-> t[f]]

MessageError(t) ==
  IF t.format = "v1" THEN V1Error(t)
  ELSE IF \E n \in DOMAIN t.ixs : Len(t.ixs[n].accounts) > 65535 \/ t.ixs[n].data > 65535
    THEN "Panic" ELSE None

(* SolanaTx::to_bytes().  What is written is a record of the parts, with   *)
(* the part that the bytes end in, if they are cut, and what follows them. *)
ToBytesError(t) ==
  FirstError(<<
    << MessageError(t) # None, MessageError(t) >>,
    << t.format = "v1" /\ Len(t.sigs) < t.header.required, "MissingSignatures" >>,
    << t.format = "v1" /\ Len(t.sigs) > t.header.required, "InvalidData" >>,
    << t.format = "v1" /\ SizeV1(t) > MaxTxSize, "TooLarge" >> >>)

ToBytes(t) ==
  [format |-> t.format, header |-> t.header, keys |-> t.keys,
   blockhash |-> t.blockhash, ixs |-> t.ixs, lookups |-> t.lookups,
   mask |-> Mask(t.config), values |-> Values(t.config),
   sigs |-> [i \in DOMAIN t.sigs |-> IF t.sigs[i] = Empty THEN Zeros ELSE t.sigs[i]],
   cut |-> None, trailing |-> FALSE]

(* The transaction that is read, once it is valid. *)
FromBytes(w) ==
  [format |-> w.format, header |-> w.header, keys |-> w.keys,
   blockhash |-> w.blockhash, ixs |-> w.ixs, lookups |-> w.lookups,
   config |-> ReadValues(w.mask, w.values), sigs |-> w.sigs]

(* The first byte of a compact-u16, and how its reader tells the formats   *)
(* apart: 0x81 opens a v1 transaction, a high bit a versioned message.     *)
FirstByte(length) == IF length < 128 THEN length ELSE 128 + (length % 128)

Misread(w) ==
  \/ w.format # "v1" /\ FirstByte(Len(w.sigs)) = 129
  \/ w.format = "legacy" /\ w.header.required >= 128

(* SolanaTx::from_bytes(), for legacy and v0: bytes after the message are  *)
(* passed over.                                                            *)
ParseError(w) ==
  FirstError(<<
    << Len(w.sigs) > 256, "TooLarge" >>,
    << w.cut = "signatures", "UnexpectedEof" >>,
    << Len(w.keys) > MaxKeys, "TooLarge" >>,
    << w.cut = "keys", "UnexpectedEof" >>,
    << HeaderInvalid(w.header, Len(w.keys)), "InvalidHeader" >>,
    << w.cut \in {"instructions", "lookups"}, "UnexpectedEof" >>,
    << IndexOutOfRange(w.ixs, Addressable(w)), "IndexOutOfRange" >> >>)

(* SolanaTx::from_bytes_v1() *)
ParseV1Error(w) ==
  FirstError(<<
    << SizeV1(FromBytes(w)) > MaxTxSize, "TooLarge" >>,
    << Len(w.ixs) > 64 \/ Len(w.keys) > 64, "TooLarge" >>,
    << w.cut = "keys", "UnexpectedEof" >>,
    << MaskInvalid(w.mask), "InvalidTxConfig" >>,
    << w.cut \in {"values", "instructions"}, "UnexpectedEof" >>,
    << V1Error(FromBytes(w)) # None, V1Error(FromBytes(w)) >>,
    << w.cut = "signatures" \/ Len(w.sigs) < w.header.required, "UnexpectedEof" >>,
    << w.trailing \/ Len(w.sigs) > w.header.required, "TrailingData" >> >>)

(* Bytes that are taken for another format are refused by one of its       *)
(* checks.                                                                 *)
FromBytesError(w) ==
  IF Misread(w) THEN "Misread"
  ELSE IF w.format = "v1" THEN ParseV1Error(w)
  ELSE ParseError(w)
=============================================================================
