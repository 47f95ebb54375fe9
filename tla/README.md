# A verification of outscript-rs

TLA+ models of outscript-rs: of what keeps state over several calls and several
actors, and of the codecs and closed forms that the rest is built from; the TLC
configurations that check them on small instances; and machine-checked proofs
of what matters most for every instance. Source
paths below are relative to the crate (`src/`).

The crate is a library without threads or I/O. Its difficulties are of another
kind: values that are built up over many calls made in an order that nobody
controls (parts of a QR code scanned by a camera, a PSBT passed between
parties), data structures that are rewritten while they are walked, limits on
what is kept, calls that fail half way, and arithmetic at the boundaries of
encodings.

## 1. Inventory

### Fountain-coded URs (`bcur/fountain.rs`)

* **State.** `Encoder`: the fragments and the last sequence number, a `u32`.
  `Decoder`: the type and the shape (number and length of fragments, message
  length, checksum) fixed by the first part; a buffer for the message; which
  fragments are known, and how many; the parts on hold, which mix fragments
  that are not known; a sampler; whether it is complete.
* **Operations.** `Encoder::new`, `next_part`, `is_complete`, `fragment_count`;
  `Decoder::with_limits`, `receive`, `reset`, `is_complete`. `receive` parses,
  refuses what is inconsistent, then runs `reduce`: a queue of parts, each
  simplified by what is known and by the parts on hold, then dropped,
  recovered, or put on hold, and each putting other parts back in the queue;
  and last `finish`, which checks padding and checksum.
* **Hard.** The loop of `reduce` moves parts back and forth between its queue
  and the parts on hold (does it end, does it miss something?); the limit on
  parts on hold; parts that are lost, repeated and come from several screens;
  messages that cannot be told apart; an error in the middle of a call;
  numbers that run out.
* **Correct when** every fragment that can be peeled off is; what completes is
  one of the messages that were shown; a receiver that missed nothing is
  complete; memory is bounded; every call returns; parts of other messages do
  not spoil the one that is being received.

### UR strings and bytewords (`bcur/mod.rs`, `bcur/bytewords.rs`)

Stateless codecs. A word is found by its first and last letter; a checksum
follows the data, and which bytes are the checksum is known only at the end.
To the decoder a scanned string is unparsable, damaged, a whole message or a
part. They are correct when bytes read back from each of the three styles in
either case, a text that is accepted is the only one of its bytes, and type,
numbers and data of a UR come back.

### BBQr (`bbqr.rs`)

* **State.** `Joiner`: the header all parts agree on, the parts by index, how
  many there are and how many bytes they have.
* **Operations.** `split`, `split_with` and their common `split_raw`;
  `Joiner::with_max_len`, `receive`, `finish`, `reset`.
* **Hard.** Parts are cut in groups of 5 bytes (8 characters) so that each can
  be decoded alone, with one part, none and several treated apart; parts of
  several files on show; the arithmetic of the limit; no checksum.
* **Correct when** a cut fits and is as small as can be, and a joiner gives
  back a file that was shown, completes exactly when it saw all its parts, and
  keeps within its limit.

### PSBTs (`psbt/mod.rs`, `psbt/sign.rs`, `psbt/finalize.rs`)

* **State.** A PSBT is a byte string: a global map and a map per input and per
  output. Every operation parses it and writes a new one.
* **Operations.** create, set and remove records, combine, sign (all inputs or
  one), finalize, extract.
* **Hard.** Copies are signed, combined and finalized by several parties in
  any order; a stale copy is combined into a finalized one; which errors stop
  an operation and which are passed over; a fixed number of taproot leaves per
  call, with a buffer sized by a separate formula; what is on record changes
  between two signers; duplicate records.
* **Correct when** no signature is lost, what is finalized can be spent and
  stays, data that does not match what is spent stops everything, and parties
  that keep passing copies around get the transaction out.

### Bitcoin transactions (`btctx.rs`, `btcraw.rs`)

* **State.** `BtcTx`: inputs with their scripts and witnesses, outputs, lock
  time, all of them public. During a call of `sign`: a cache of hashes that
  several inputs share.
* **Operations.** `sign`, `add_output`, `clear_inputs`, `prefill`, the
  signature hashes, and whatever the application does to the fields.
* **Hard.** A call fails at some input and leaves those before it signed; the
  cache outlives the writes of the call; what is read from an input is erased
  by signing it; each hash type leaves other parts of the transaction open.
* **Correct when** what a call signed can be spent, also after it failed, after
  a retry and after edits, and a signature is good for exactly the changes that
  its type allows.

### Solana transactions (`solana/tx.rs`, `solana.rs`)

* **State.** `SolanaTx`: a message (header of three counts, account keys,
  blockhash, instructions, and the lookups of v0 or the requests of v1) and
  the signature slots, all of them public.
* **Operations.** The instruction builders, the constructors of the three
  formats, `sign`, `verify`, `to_bytes`, `from_bytes`, and whatever the
  application does to the fields. The length codec `compact-u16`.
* **Hard.** The accounts are ordered so that three counts of a byte tell the
  rights of each; holders sign one after the other, a call may fail at its
  second seed, and the message may change in between; a transaction is passed on
  half signed; what is read need not be what this crate would write.
* **Correct when** the network reads the rights that were asked for, what is
  held is well formed wherever it comes from, a transaction verifies only if
  all have signed it as it is, and no signature of it is lost on the way.

### Transactions of other chains

`EvmTx` and `RawEvmTx` (`evmtx.rs`, `evmraw.rs`, over `rlp.rs`), `TronTx`
(`trontx.rs`, with its own protobuf), `ZcashTx` (`zcashtx.rs`), `CardanoTx`
(`cardanotx.rs`, over `cbor.rs`).

* **State.** The fields, all of them public, and signatures or witnesses.
* **Operations.** Signing, reading and writing bytes, recovery of the sender,
  verification, the id or hash, and whatever the application does to the fields.
* **Hard.** A transaction is edited after it was signed, read and written again,
  and altered by others on the way; what is signed is written from the fields
  again each time. EVM: the chain of a legacy transaction is on the wire only
  inside `v`, with the parity, and two encoders have to agree. Tron: the user is
  shown what was parsed, signs what that writes, and broadcasts what was
  received. Zcash: a tree of digests whose parts depend on the hash type, and
  amounts and scripts that only the signer knows. Cardano: witnesses of an
  earlier body, an answer of a signer elsewhere that comes late, a signer that
  refuses after others have signed, bodies in another form.
* **Correct when** a sender that is recovered, or a witness or signature that
  verifies, is of someone who signed just that; what need not disturb a
  signature does not; and a way through bytes changes neither id nor content.

### The other components

| component | state and operations | hard about it | status |
|---|---|---|---|
| Taproot trees (`taproot.rs`) | a stack of hashes by depth during a call | listings that are not trees, equal subtrees, no room | modelled |
| Rewards (`reward.rs`) | none | closed-form sums over intervals | modelled |
| Amounts, varints (`btcamount.rs`, `btcvarint.rs`) | none | overflow at the boundaries | modelled |
| Addresses and codecs (`base58.rs`, `base64.rs`, `bech32.rs`, `address.rs`, ...) | none | regrouping of bits, padding, second spellings | codecs |
| Scripts and keys (`script.rs`, `insertable.rs`, `out.rs`, `btcguess.rs`, `pushbytes.rs`) | none | tables, push lengths | not modelled |
| Hashes and curves (`hash.rs`, `crypto/`) | none | cryptography | symbolic |
| Buffers and errors (`inline.rs`, `sink.rs`, `error.rs`) | none | plumbing | not modelled |

Components interact by plain calls. Those that matter here: the PSBT signer
uses the signature hashes of `btctx` and the control blocks of `taproot`; the
fountain decoder uses the UR parser; PSBTs travel as URs and BBQr files, which
is why the two receivers promise the same thing (`Reassembly`); EVM and Cardano
transactions are what RLP and CBOR make of them, and their modules extend the
modules of those codecs, so that a digest is the bytes that are hashed.

## 2. Modules

| module | models |
|---|---|
| `CeilDiv` | `div_ceil` |
| `FountainCut` | the cut of a message in `Encoder::new`, as operators, what it promises, and that it keeps it |
| `Fountain` | the wire: shapes, what parts mix, XOR, what a scanned string holds |
| `FountainEncoder` | `Encoder` |
| `FountainDecoder` | `Decoder`, with `reduce` step by step |
| `FountainTransfer` | composes encoders on screens with a decoder behind a camera |
| `Reassembly` | abstract: what a receiver of pieces promises |
| `BbqrCut`, `BbqrJoiner` | `split_raw`; `Joiner` |
| `PsbtMap` | `write_map` on sequences of records, as updater and combiner |
| `PsbtInput` | what signing and finalizing do to one input, as operators |
| `PsbtWorkflow` | parties with copies of a PSBT: every operation as an action |
| `BtcSighash` | the signature hashes: legacy, BIP-143, BIP-341 and unified |
| `BtcSign` | a transaction that is built, signed, edited and signed again |
| `SolanaHeader` | the counts of a header, and what the network reads from them |
| `SolanaMessage` | the builders, the compilation, the checks, the way to bytes and back |
| `SolanaTx` | a transaction that is made or read, signed, edited, passed on |
| `CompactU16` | the length codec |
| `TaprootTree` | `walk`, control blocks and their check; trees as what a listing means |
| `Rewards` | the rewards of blocks and their closed-form sums |
| `AmountText`, `VarInts` | amounts as text; compact sizes and protobuf varints |
| `Bech32`, `Bases` | Bech32, segwit and CashAddr; base58 and base64 |
| `UrText` | bytewords, CRC-32, strings of URs |
| `Rlp`, `Cbor` | the two codecs, written, read and, for CBOR, scanned |
| `EvmTx`, `TronTx`, `ZcashTx`, `CardanoTx` | a transaction of each chain: made or read, edited, signed, passed on |
| `MC*` | instances for TLC; `MCOperators` runs through inputs of pure functions, `MCChains` has one chain at a time |
| `FountainProofs`, `BbqrProofs`, `PsbtMapProofs`, `PsbtProofs`, `BtcProofs`, `SolanaProofs`, `TronProofs` | theorems |

### The decoder

One call of `receive` is `Receive(t)`, for a scanned string `t`, then `Reduce`
until `phase` is `"idle"` again; nothing else happens in between, since `Reset`
and `Receive` ask for an idle decoder. `Refusal` lists the early returns in
the order of the code; a refused string leaves everything as it is. The steps
of `Reduce` are those of the loop: `Pop`, the two ways to simplify a part
(`DropKnown`, `SubtractHeld`), the three fates of what is left (`Discard`,
`Recover`, `Hold`), and the end of the call (`Return`). `mixed` and `queue`
are vectors in the code and sets here. Nothing is lost by it: two of their
parts never mix the same fragments, which `HeldIrreducible` states and
`FountainProofs` proves for the parts on hold. The model takes parts off in
any order, of which the code has one.

Bytes are symbolic: the fragment `i` of stream `s` is `{<<s, i>>}` and XOR is
symmetric difference, so that mixing parts of two messages gives garbage, as it
does in the program, and never one of them. The seeded generator is a constant
operator `Mix`, of which `MixAssumption` says only that it picks a non-empty
set of fragments. CRC-32 is taken to tell messages apart when they are put
together (`Verified`), and *not* when parts are compared: two streams may have
the same `Checksum`.

`accepted` and `dropped` are history variables. They have no part in any guard.

### The transfer

Each stream has a screen, `Show` is `next_part` and `Scan` gives the decoder
what is shown. A part that is replaced before it is scanned is lost; one that
stays is scanned again. `Show` waits for a call of `receive` to return, which
merely says that a frame that comes meanwhile is not scanned. `Reassembles`
says that the decoder, seen through a refinement mapping, is a receiver that
settles on one source, gathers its pieces and delivers its message.

### BBQr

`receive` and `finish` have no loop over state, and each is an action. Texts
hold a header, an index and data with a length; base32, hex and deflate count
only by their lengths and by whether they decode. `Unpacked` says that what was
never one deflate stream does not inflate. The refinement mapping gives
`Reassembly` the pieces by index *and* bytes, so that a part of another file is
no piece of the one settled on, even at a place of its own. One case is excused:
`Mixed`, parts of several files with one and the same header, which the joiner
takes in where their indexes differ. Then it promises nothing until it is reset.

### PSBT

`PsbtMap` works on sequences of records, as `write_map` does, and shows what
the order of records cannot change. The code looks for the lowest type above the
last one, round after round, and writes the records of that type from map to
map; `GroupByType` says where each record ends up by that, which is after the
records that `Precedes` puts before it. On that ground `PsbtInput` has maps as
functions. `SignOutcomes` gives the outcomes of signing an input, `Spends` the
ways to finalize it; they follow the code branch by branch, errors included. A
hash of a script is the script, a record is `"right"` or not, and a signature
is a record of who made it, for which input, script and hash type.
`PsbtWorkflow` has one action for each operation of the crate; `Send` is the
application. In `Sign` the outcome of every input is chosen, an error of any
that is not `Skippable` fails the call and leaves the copy as it is, and so
does the parser when the signatures written give two records one key.

### Bitcoin transactions

A digest is the record of what is hashed, so that two digests are equal when
they commit to the same. `Sign` starts a call and `SignNext` signs one input,
with the branches of `sign` and of the functions it calls gathered by what they
yield: the error (`InputError`), the cache, the signature, and the items beside
it. A coin is an output with a `Lock`; `Entries` are what the application may
give `sign` for it, among them entries without a key, with a signer that cannot
do what is asked, without the spent script, and with hash types that are
refused. They tell the truth: a wrong amount makes a wrong signature and that
is not the code's doing. `Spendable` is the node: it computes the digests anew,
with nothing cached and for what is really spent, and compares the whole stack.
The version stands with the lock time. Annexes and code separators, which
`sign` never uses, are left out. Hash types other than ALL are used with
taproot and unified signatures only: "Legacy and segwit v0 sighashes support
whole-transaction commitments only" (`btcraw.rs`), and `sign` does not check.

### Solana

Keys are numbers, since compilation sorts them, and of the data of an
instruction its length counts. `AccountKeys` is `compile_accounts`: the code
gathers accounts in a list and moves them to four lists, the model has sets
and sorts each. The bytes of a transaction are the record of their parts, with
`cut` and `trailing` for bytes that end too early or too late; `FromBytesError`
has the checks of the parsers in their order, and `FirstError` gives the first
that fails. A signature is who made it and the message it is of. `Sign` is one
call with several seeds: the slots of those before the first bad one are
filled. A panic is a result like an error. `Foreign` are bytes that this crate
did not write, among them some with a wrong header, an index out of range,
too many slots, and too few in
`MCSolanaShort`; they come unsigned. `draft` remembers what a
transaction was compiled from, `made` which signatures exist. `hash()` is left
out.

### Pure functions

Each of these modules has the algorithm the way the code goes about it, loops
with what they carry from round to round, and beside it what it promises in
terms of its own: a tree is defined by recursion on its listing and not with a
stack, a supply is a sum over blocks, an amount is the number its digits stand
for, an item of CBOR ends where a grammar by recursion says so.

The sizes of the code are parameters. Where a byte has 256 values in the code it
has `Byte` or `ByteSize`, of which the same fractions have the same meaning: in
RLP the lower half are bytes themselves and a quarter begins lists, in a compact
size the last three are tags, in CBOR a head has 8 major types and `Infos` kinds
of arguments, of which the last is indefinite and those before it take the
`Widths`. Base58 and base64 have whole bytes. The checksums of Bech32 and
base58 are symbolic, a character that tells all it was computed from; the CRC-32
of bytewords is computed, by nibbles as in the code, and compared with a known
answer (`KnownAnswer`).

### Transactions of other chains

A signature is the place of an entry of `made`, which remembers the key, the
bytes that were signed, and apart from these what the transaction said then:
`Content` and `Covered` are taken from the fields and not from what is hashed,
so that a field that is missing from a digest shows. Hashes are what is hashed.

* `EvmTx`: `RlpFields` and `ToBytes` for `EvmTx`, `RawFields` and `RawEncode`
  for the encoder of `RawEvmTx` that measures first; `Parse` takes `v` apart.
  `Parse` refuses numbers of more than `IntLen` bytes where the code reads a
  `u64`, which no transaction here writes.
  Which of two recovery ids comes out of `Sign` is chosen. Of the edits all
  fields of the type are changed, the type and the chain too.
* `TronTx`: protobuf as a sequence of fields with numbers, wire types and
  whether a number is in its shortest form, so that what differs on the wire
  differs here. `Alter` is whoever passes it on: a field removed, moved, twice,
  longer, of another wire type or value, or new, in the raw data, its contract,
  or the parameter of that. `Show` is `TronTx::parse` before signing.
  `TransactionLen` is the length as the code computes it, `TransactionSize` the
  length that its writers of single fields add up to. `Pass` is the way through
  the message around the raw data, as `transaction_to_slice` writes it; of what
  `parse_transaction` refuses only the lack of room is there, not raw data that
  is missing or repeated nor signatures of a wrong length, and other fields,
  which it skips, are left out.
* `ZcashTx`: bytes are cells, each a field of the format or a run of them that
  is hashed together. `Sapling` and `Orchard` are the parsers of bundles, which
  `SaplingDigest` and `OrchardDigest` use again. `Told` is what a signer is
  told of the outputs that are spent: the truth, a wrong amount, or too few of
  them. Counts are small: the sum `n + len` of `take_items`, which wraps or
  panics for a count near the end of a `usize`, is left out.
* `CardanoTx`: `BodyMap` over `Cbor`, with the tokens of an output grouped and
  added up. `Sign` is `sign_with` with one or two signers of which some refuse;
  `Ask` and `AddWitness` are a signer elsewhere, with any edits in between,
  whose key or signature may come cut; keys and signatures are one byte long;
  `Receive` reads the bytes of a program that orders a body otherwise, spells
  out a zero, repeats a key or adds one.

## 3. Runs

| run | configuration | shows |
|---|---|---|
| `fountain_decoder` | `MCFountain.cfg` | peeling is complete, nothing reducible is left on hold, counts are exact, every call returns |
| `fountain_twins` | `MCFountainTwins.cfg` | with messages that cannot be told apart and room for two parts: memory is bounded, plain parts always complete, and what completes is one of the messages |
| `operators` | `MCOperators.cfg` | the cuts of both formats are legal and the best there are; combining maps is a union in which one's own records win, updating replaces one record, order is stable; Solana's header tells the rights of all accounts, but where 256 sign; listings of leaves fold to the root of their tree or are refused, but for those that overfill the stack, which are told exactly; the supply is the sum of rewards; amounts are exact or refused; every text and every code reads back, and what must have one form has one |
| `transfer` | `MCTransfer.cfg` | the decoder refines `Reassembly`, and completes; `is_complete()` of an encoder is never early |
| `bbqr_joiner` | `MCBbqr.cfg` | with files on show that no header tells apart: the joiner accounts exactly, refuses what contradicts a part on record and keeps the rest as it came; unless it mixed such files, it refines `Reassembly` down to the bytes, is complete exactly when all parts were seen, and gives back a file that was shown |
| `psbt` | `MCPsbt.cfg` | 2 of 3 and two parties, key path and leaves over several calls, and inputs with data that does not match what they spend: no signature lost, what is final stays and is spendable, signing is within the size bound and covers every leaf, no operation goes through while data does not match, the transaction gets out |
| `btc_signing` | `MCBtcSign.cfg` | what a call signed can be spent, whatever it or another call signed after it; failures leave the rest alone; signatures survive exactly the edits that their types allow |
| `psbt_leaf_twice` | `MCPsbtTapTwice.cfg` | violation, see below |
| `btc_sign_again` | `MCBtcAgain.cfg` | violation, see below |
| `solana` | `MCSolana.cfg` | accounts keep their rights, it verifies only when all have signed it as it is, what is written can be read, no signature is lost |
| `solana_no_slots` | `MCSolanaShort.cfg` | violation, see below |
| `chains` | `MCChains.cfg` | EVM: who is recovered signed all there is, for that chain, and both encoders agree; Tron: what is shown is what goes out, to the byte; Zcash: a signature counts exactly as long as what its type covers; Cardano: a witness counts exactly as long as the content; what is passed on in bytes keeps id, signatures and content |

### Bounds

* `MCFountain`: 4 fragments, the fewest with which a part on hold can cover two
  others and be covered itself, and all the degrees 1 to 4; sequence numbers up
  to 10, so that 6 mixed parts of a chain of subsets come in any order; another
  type, a single-part message, one over the limits, and every kind of damaged
  string. The subset search is on here and off in the twins, where
  `MAX_FRAGMENTS_FOR_SUBSETS` is 0.
* `MCFountainTwins`: 3 fragments, all pairs and the triple mixed; the constants
  of the hold limit are 0 and 2 in place of 2 and 16, so that more parts come
  than fit.
* `MCTransfer`: `SeqMax` 4, so that the numbers of both encoders start over
  after three plain parts and a mixed one, several times in a behaviour.
* `MCOperators`: lengths up to 36 and pieces up to 40, with a header of 2
  characters and 6 parts at most: several groups per part in each encoding,
  parts that hold no group, too many parts, and the boundaries between them.
  The boundaries repeat with the group lengths 5 and 8. Maps have up to three
  and two records of two types and two data: with three records, those of a
  type can stand apart, and every interleaving occurs.
* `MCBbqr`: three parts, a file that is compressed, one in hex, one over the
  limit of 16 bytes that also fills up in the middle of a file. Two of them come
  with another state of the same file, under the same header, so that files are
  mixed in some behaviours; the others have headers of their own, one with the
  same number of parts.
* `MCPsbt`: three transactions. Two parties, three keys and a threshold of two
  let signatures be short, just enough, and more than needed, in any order. A
  taproot input has a key path and three leaves, and `MAX_LEAF_SIGS` is 1, so
  that they take two calls or three; the size bound is linear in it. A nested
  and a legacy input have records that may be wrong.
* `MCBtcSign`: drafts of one to three inputs of every kind, two calls and two
  edits in any order: sign, edit, retry, and edit what was signed. Two outputs
  that may be equal, for SINGLE to tell its own from the others; a third input
  lets a swap leave one alone.
* `MCSolana`: a fee payer and two other signers, enough for a call that fails
  at its second seed and for a key that signs between two others; lists of up to
  two instructions from every builder, with the fee payer as a program and one
  list too long for v1; one edit, before, between or after the signatures;
  bytes of every format, right, and wrong in one place each.
* `MCOperators`, Solana: the sizes of the four lists of accounts, and the
  lengths, are those next to the bounds where a count wraps or an encoding takes
  another byte.
* `MCOperators`, trees: up to 5 leaves at depths up to 4 with a limit of 3, so
  that there are trees of every shape, listings of none, leaves too deep, and
  equal subtrees. The stack has room for 4 nodes, and 0, 1, 2, 3, 3 is the
  shortest listing that needs more; three longer ones fill it with subtrees of
  several leaves.
* `MCOperators`, rewards: intervals of 3, 5 and 9 blocks and heights up to 40,
  past the last interval of Dogecoin and the last halving, with rewards that
  are rounded down. The closed forms treat an interval of any length alike.
* `MCOperators`, amounts and varints: two decimals and 14 bits, with amounts at
  the end of the width, with a dot or without, and a sign in front or behind the
  dot; compact sizes over bytes of 3 bits, at the boundaries of
  each width; protobuf varints of 5 bits, whose last group has one bit left as
  the tenth has in the code.
* `MCOperators`, texts: bytes of 3 bits in characters of 2, up to three bytes or
  six characters, so that every remainder of bits occurs; six bytewords with
  three last letters and one character changed anywhere; base58 up to 40 bytes,
  to where the bound on its length is one too many; base64 of one to three
  groups with padding in the wrong places.
* `MCOperators`, RLP and CBOR: 5 bits to a byte of RLP, where items of up to 5
  bytes have a short head, and up to 33 take one or two more bytes, with long
  heads of the right length, of a length that has a shorter form, of one that
  begins with a zero, and on payloads that are cut or go on; up to four
  heads of CBOR in a row, every type, wide, indefinite and illegal, open arrays
  and maps with up to three in them; values one level deeper than the limit of
  2.
* `MCChains`: two edits and two signatures, so that a transaction is edited
  after it was signed and signed again (EVM; Cardano has three edits and a
  second key, whose signer refuses); one altered field and one signature more
  than a reader has room for, with raw data of lengths on either side of where
  a varint takes another byte (Tron); two inputs, bundles of each kind that
  differ in one cell, spelt out empty, or cut wrong, under every hash type that
  is defined and one that is not (Zcash); edits of an input, an address, an
  amount, tokens, the fee and the end of validity, witnesses cut, tokens listed in
  another order, twice, and above the largest amount, in bytes of 88 values so
  that heads of two sizes occur (Cardano). A behaviour has one chain; Tron has
  variables of its own, so that `MCChains` is an extension of `TronTx`, and the
  other chains share theirs.

Deadlock is checked except in `operators`, which picks a case and stops, and in
`chains`, where the bounds on edits and signatures end a behaviour.

### Fairness

* `FairSpec` of the decoder and `TFairSpec`: a call of `receive` runs to its
  end, it is a loop on one thread (weak fairness of `Reduce`).
* `TFairSpec`: screens go on to the next part, and for each sequence number, a
  part that is shown over and over is scanned at some point (strong fairness,
  as a part is shown for a moment only). Without the latter a camera could
  miss the same fragment for ever. Encoders that start over show every number
  over and over, and this is what the run assumes of the user and nothing of
  the code.
* `FairSpec` of the PSBT workflow: parties go on setting their records,
  signing, exchanging and combining copies, finalizing and extracting. These
  are decisions of users; the property is that no order of them gets stuck.

### Where the code and its documentation part

* `psbt_leaf_twice`. A leaf script that is proven at two places of the tree is
  signed twice in one call under one record key, and the call fails with
  `DuplicateKey` when it parses what it wrote, every time.
* `btc_sign_again`. For the scheme `p2wsh`, `sign` finds the inner script by the
  hash in the input's scriptSig, and empties it. Signing again, as after a call
  that failed at a later input, takes the first candidate and returns `Ok` with
  a witness that the coin does not accept. `prefill` and `clear_inputs` empty
  it as well. Naming the inner scheme (`p2wsh:p2pk`) avoids it.
* `solana_no_slots`. `from_bytes` takes a legacy or v0 transaction that has
  fewer signatures than its header requires, `verify` answers
  `MissingSignatures`, and `sign` indexes past the slots and panics. "Header
  references more signers than keys; must error, not panic" is what the test
  `verify_sign_no_panic_on_bad_header` asks of a wrong header
  (`src/solana_tests.rs`).

Read in the code, and not shown by a run of their own:

* Taproot: the stack of `walk` has a node for each depth from 0 to
  `MAX_TAPROOT_DEPTH`, and "depths strictly increase up the stack, so it never
  outgrows the deepest allowed leaf" (`src/taproot.rs`), but a leaf is on it
  before it is merged with its sibling. The depths 0, 1, and so on to 128, and
  128 once more, pass every check and index past its end: a panic, where
  `tap_tree_root` is documented to fail with `InvalidData`. The model has the
  panic (`IsFull`), and `TreeFolds` states the exception: `Overfills` says for
  which listings it occurs, such as 0, 1, 2, 3, 3 with a limit of 3, and there
  are no others.
* BBQr: "A joiner handles one file: once it has seen a part, parts of another
  file are an error" (`Joiner` in `src/bbqr.rs`), but parts of another file with
  the same type, encoding and number of parts are accepted at indexes not seen
  yet (`Mixed`), and the joiner then completes on parts of both. The format has
  no checksum.
* Solana: 256 signers are counted as 0 in the header; with 128 and more, a
  first byte may be taken for the mark of a v0 or v1 transaction; `hash()`
  gives the 64 zeros of an unsigned first slot once the transaction was written
  and read.
* Bitcoin: with the fork id of Bitcoin Cash, `p2pk` signs the legacy digest
  where `p2pkh` signs the one of BIP-143; `prefill` counts 64 bytes for taproot
  signatures that have 65 with a hash type; an amount may have a sign, and in
  one without a whole part, behind the dot, where it counts as a place
  (`SignBehindDot`).
* PSBT: a signing call without a key-path signature signs nine leaves, where
  `MAX_LEAF_SIGS`, "the most taproot leaves one signing call signs per input",
  is 8 (the size bound still holds, by the room for the key-path record).
* Rewards: the sums add one to the height, which overflows at the largest `u64`.
* CashAddr: types of 16 and above spill into the reserved bit of the version
  byte (`CashReadsBack` asks for a smaller one), and text in mixed case is read.
* EVM: an access list is dropped when a transaction is read, and the sender
  recovered is another one; the bytes that are signed for a legacy transaction
  with a chain read as a signed transaction of another chain; numbers with
  leading zeros, and lists in place of strings, are read as numbers;
  `chain_id * 2 + 35` may exceed a `u64`; `RawEvmTx` refuses a `v` of another
  chain where `EvmTx` takes the chain from it.
* Tron: amounts above the largest `i64` can be built and signed, and not read
  (`BuiltIsRead` says so).
* Cardano: the body of another program in another form is written again in
  canonical form, under another hash, and its witnesses no longer verify; a
  transaction without witnesses verifies; when a signer fails, the witnesses of
  those before it stay.

## 4. Proofs

All theorems are for any streams, limits, generator and checksums, any files
and cuts, any parties, inputs, keys and scripts, any coins, entries and edits,
any maps and records, any instructions, seeds and bytes, and any raw data and
what is done to it on the way, under named assumptions on the constants, which
TLC evaluates in the runs:

* fountain code: `StreamAssumption` (lengths are positive), `SeqMaxAssumption`,
  `MixAssumption`, `LimitAssumption` (limits are naturals), `NoneAssumption`
  and `NoPartAssumption` (`None` is no other value);
* BBQr: `FileAssumption` (lengths are naturals, `split` did not refuse the
  file, and a file that is not deflated is stored as it is),
  `LimitsAssumption` and `NoneAssumption`;
* PSBT: `ScriptsAssumption` (a non-taproot input has a script of a known
  template and no leaves, a leaf that is proven has a known script, and they
  are finitely many) and `NoneAssumption`;
* Bitcoin: `EntriesAssumption` (what `sign` is told of a coin is true, as far as
  it is told), `LockAssumption` (a coin of a chain with a fork id has a script
  that hashes a key, as `p2pk` would sign the legacy digest there),
  `DraftAssumption` (no coin is spent twice), `FailureAssumption` and
  `NoneAssumption` (`None` is no error, number or hash type);
* Tron: `NumbersAssumption` (amounts and lengths are naturals, the largest
  integer is at least 31, the largest type that is interpreted, and the length
  of a signature takes one byte to write);
* Solana: `NoneAssumption` (`None` is neither an error nor a part of the
  bytes), `ListsAssumption` (instructions name finitely many accounts, which
  are ordered), `TablesAssumption` (a lookup counts accounts),
  `ConfigsAssumption` (a config sets some of the four requests), and
  `ForeignAssumption` (what comes from elsewhere comes unsigned, with natural
  counts).

Some theorems have a hypothesis of their own, which is not a property of the
code but of who uses it. Each is named, is needed, and holds of the instances
whose runs check the property; they are explained with the theorems.

* `FountainCut`: `FragmentsCover`, `FragmentsShortest`. The point is
  `CountKept`: rounding up twice gives the number of fragments that rounding
  once gave, which is also why the decoder's own count agrees with the
  encoder's.
* `FountainProofs`: `TypeCorrect`, `OnlySentCompletes`, `HeldStaysIrreducible`,
  `CountStaysExact`, `PeelingIsComplete`, `RecoveredIsKept`, from `Invariant`:
  `IInv` is kept by every action. None of the properties is inductive alone.
  `PeelComplete` speaks of the decoder between calls; what carries it through
  the loop is `Covered`: each unknown fragment of an accepted part is in some
  part under way that lies *within* the accepted one. `CompleteIsSent` needs
  `OneType`, that all bytes come from messages of the type reported, and
  `Begun`, what is so before there is a shape. `CountExact` follows because a
  part that is down to one fragment is down to one that is not known.
  `HeldStaysBounded`, `QueuedGetsSimpler` and `NoneMissedIsEnough` follow from
  `IInv /\ LInv`. A part that is put on hold frees at least the places of those
  it sends back (`CoveringMakesRoom`), so the parts in memory are at most one
  over the limit. `PlainKept` says that a plain fragment that was accepted is
  known or under way, as nothing that is one fragment alone is ever on hold,
  and so never dropped. `TransferDecodes` shows that a transfer is a behaviour
  of the decoder alone: what screens show is among the texts that
  `FountainDecoder` enumerates. All that is proved of the decoder therefore
  holds of a transfer. `CompleteIsReallyProduced` is about the encoder,
  `EncoderInv`: the fragments with a number that was passed came out, and do so
  again after the numbers start over. `TransferReassembles` is the refinement
  of `Reassembly`. It needs `Pure`: the fragments and the parts under way are
  bytes of the one stream that was settled on, which subtraction keeps. This
  assumes `DistinctStreams`: no two streams have the same type, length, cut and
  checksum. A decoder cannot tell such streams apart and takes parts of both,
  as in the run `fountain_twins`.
* `BbqrProofs`: `CutAlwaysLegal` and `CutAlwaysBest` are what `CutsFit` checks
  of BBQr, for every length, encoding and limit. The second compares with every
  other cut, so it needs that lengths only grow in groups, and that rounding
  to groups never costs a part. `JoinerInvariant` is `JoinerInv`: a joiner
  has settled on the header of a file, holds what it was given and nothing
  else (`KeptIsSeen`), and its counts are those of what it holds (`Counted`,
  which is why `max_len - self.len` cannot wrap). From it follow
  `AccountedAlways`, for any files, and `CompleteExactly`, for any files
  that were not mixed: what is held is of files of the header settled on, so
  that it is all of one of them or `Mixed` (`NotMixed`). `JoinerReassembles`
  and `NeverMixed` assume `DistinctHeaders`, that no two files have the same
  encoding, type and number of parts: a header is all that tells files apart.
  Then every part that is held is one of the file settled on, with its bytes
  (`SourceIsAFile`, `PiecesAreOfSource`), and a new one is a piece of it that
  was not there (`KeepGathers`).
* `PsbtMapProofs`: what `MapsKept` checks of maps of up to three records, for
  maps of any length, types, data and values, as long as types are naturals and
  the maps have no duplicates (which `parse` refuses). The order in which
  records are written is total, so that the places that are written can be
  enumerated in one way only (`PlacesExist`, `GroupedAsPlaced`), and whatever
  else is known to list them in that order is what `write_map` writes:
  `CombineAlwaysUnites`, `CombineAlwaysAbsorbs` and `OrderIsAlwaysStable` of
  the combiner, `SetAlwaysUpdates` of the updaters.
* `PsbtProofs`. What every operation does to the map of an input is said once
  (`NextStep`): it stays, gets a record that is set, the signatures of a key,
  what another copy has, or is finalized. With `OneTransaction`, all copies are
  of the transaction that was created, this gives `NoSigLostAlways`,
  `MismatchStopsAlways` and `FinalStaysAlways`. `FinalIsSpendableAlways`
  needs `SpendInv`: every signature in a map was made by a signer for that
  input and script, and *either* final script of a map spends the input, as two
  copies may be finalized in different ways before they are combined. That
  the signatures come in the order of the keys is shown of the loop
  (`InOrderPicks`). `SigningCoversAlways` is by cases of the signing outcome;
  `SignFitsAlways` adds up the sizes of the records that signing adds
  (`FiniteMaps`, `LeavesFit`). `FinalStaysAlways`, `FinalIsSpendableAlways` and
  `SigningCoversAlways` assume `OnlyUpdates`, that what an application puts in
  with `set_input_record` is neither a signature nor a final script. That
  function takes any record and checks none, so that without it a final script
  could be anything. The proof of `SigningCovers` failed at first because it
  was false: `sign` also skips taproot inputs while the spent output of
  *another* input is missing, since a taproot signature commits to all of
  them. The property now allows for that.
* `BtcProofs`: `PrefixAlwaysSigned`, `SignedIsAlwaysValid` and
  `CommitsExactlyAlways`, from `SigningInvariant`. `PrefixSigned` is not
  inductive: a call goes on writing scripts and witnesses while the cache holds
  hashes of a transaction that had others. `IInv` says why this does no harm:
  the cache is empty or has the hashes of the outpoints, sequences, amounts and
  outputs *as they are now* (`CallOK`), which what a call writes is no part of.
  `CommitsExactly` compares a signature with the transaction it was made in,
  which edits have left behind; `MadeOK` has every signature that still stands
  in an input be the one that is remembered of its coin, and every digest be a
  function of the transaction without its scripts and witnesses (`DigestOf`),
  whatever branch of `sign` it comes from, so that two digests are equal when
  two such transactions agree on what the hash type covers. All assume
  `FoundIsFirst`: an entry that lets the script inside a `p2wsh` output be found
  is used only where that script is the first that `sign` tries. Without it
  `SignedIsValid` is false, as `btc_sign_again` shows, and signatures are made
  of a script that the coin does not have.
* `TronProofs`: `ShownIsAlwaysSigned`, from `SignedInv`: what is shown writes
  the raw data that is there, byte for byte, and signatures are of that raw
  data. This rests on the last comparison of `TronTx::parse` alone, whatever
  was altered on the way. The rest of `ShownIsSigned` is about what is built:
  `RawReadsBack` says that any transaction with a reference block and numbers in
  range is read back as it was. Each level of the four is a list of ordered
  fields of which empty ones are left out (`Message`), so that a reader that
  takes the last field of each number gets what was put in (`Reads`, `Gets`).
  What is not in range is refused, and so the theorem says of every
  transaction that is built which of the two it is.
* `SolanaProofs`: `HeaderRights`, `LengthsReadBack` and `LengthsCanonical`
  state what `Decodes` and a part of `CodesExact` check in the run `operators`,
  without its bounds.
  `VerifiedOnlySigned` and `SignaturesAreKept` follow from `SlotsInvariant`: a
  slot holds nothing that no signer made. It is needed because `Accepts`
  compares a slot with the signature that the key *would* make of the message
  as it is, which says nothing of whether it did. `SignaturesAreKept` has to
  look into a call of `sign` that stops half way (the first bad seed is the
  least of a set, `MinIsMember`), and into the bytes, which give back what is
  not empty.
  `RightsAreKept` goes back to `compile_accounts`: `SortedLists` (each list has
  every account of its class once), `AccountsOrdered` (and so has the list of
  all, the fee payer first) and `DraftInv`, that a compiled transaction keeps
  its keys, header and instructions whatever is done with it. It assumes
  `SignersBelow(256)`: the header holds the number of signers as a byte, and
  with exactly 256 of them it says that there are none.
  `WireAlwaysKeeps` needs `WireInv`: each check that `from_bytes` makes of a
  legacy or v0 transaction holds of any transaction there is, while `to_bytes`
  checks those of v1 itself. A config reads back from its mask
  (`ConfigReadsBack`), and the accounts that tables load add up to a natural
  number, so that an index into the static keys is in range. It assumes
  `SignersBelow(128)`: the number of signatures opens the bytes, and from 128
  on a legacy message reads as a versioned one (`Misread`). Transactions are
  records, which `None` is not: both say so.

What a fold or a loop computes is proved by a least counterexample, a set of
naturals with no least element being empty: the libraries' induction theorems
take an operator as a parameter, which the provers cannot instantiate. The sums
over sets (`MapThenSumSet`, `SumFunction`) and the loop of `InOrder` are done
this way, which is why `InOrder` is a recursive function.

`RecoveredStays` and `QueueReducible` are stated by `RecoveredIsKept` and
`QueuedGetsSimpler` alone and by no run: the theorems say it for every instance.

`PsbtMapProofs`, and what is proved of `CutsFit`, `Decodes` and `CodesExact`,
state parts of what the run `operators` checks, without naming its definitions,
which speak of the one case of a behaviour.

Only model-checked: `ReduceTerminates`, `EventuallyComplete` and
`EventuallyExtracted` (liveness under fairness is out of the prover's reach);
the codecs and pure functions (`TreeFolds`, `SupplyAddsUp`, `AmountsExact`,
`TextKept`, `CodesExact`, and how `CutsFit` gathers the cuts); and the other
chains (`SenderSigned`, `ZcashCommits`, `WitnessesCommit`, `PassKeeps`). The
codecs are recursive, and so are the modules of EVM and Cardano above them: what
a recursive definition computes for every input is out of the prover's reach.
The inputs and outputs of Zcash are read in a recursion as well, and that its
digests determine what they cover is a statement about where one field ends and
the next begins.

## 5. Plan

Done: the fountain code, BBQr, PSBT maps and workflow, signing of Bitcoin
transactions, Solana and Tron, with their proofs; taproot trees, the codecs,
amounts and rewards, and the transactions of EVM chains, Zcash and Cardano,
model-checked.

Left: `SenderSigned` and `WitnessesCommit` could be proved over codecs that are
constants, of which it is assumed that they are injective, with the runs of
`Rlp` and `Cbor` as the ground for that.

### Not modelled

* Output scripts and keys (`script.rs`, `insertable.rs`, `pubkey.rs`, `out.rs`,
  `btcguess.rs`, `pushbytes.rs`): tables of templates filled in with a key or
  hash. A model would repeat the tables.
* Hashes and curves (`hash.rs`, `crypto/`): cryptography, which the models take
  to be ideal. A hash is what is hashed, a signature is who made it and of
  what.
* Buffers and errors (`inline.rs`, `sink.rs`, `error.rs`, `lib.rs`).
* Of components that are partly modelled: the checks of single records when a
  PSBT is parsed (`validate_record`, conditions on one key or value
  each: the models start from maps that passed them), and the embedded
  transactions' layout; parsing and serialization of Bitcoin transactions,
  which the model has as records; the tables of address prefixes; the ABI
  encoder and JSON form of EVM transactions; the derivation of Cardano keys and
  of Solana program addresses, which is arithmetic on curves.
