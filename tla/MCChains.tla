------------------------------- MODULE MCChains -------------------------------
(***************************************************************************)
(* The transactions of four chains, one at a time.  Tron has variables of  *)
(* its own, and the other modules share theirs: `tx' is the transaction,   *)
(* `made' what was signed, `edits' the changes, and `asked' what is out of *)
(* the hands of the library.                                               *)
(***************************************************************************)
EXTENDS TronTx

VARIABLES chain, tx, made, asked, edits

tronVars == <<raw, altered, shown, sigs>>

mcVars == <<chain, tx, made, asked, edits, tronVars, error>>

NoTron == raw = None /\ altered = 0 /\ shown = None /\ sigs = <<>>
NoOther == tx = None /\ made = <<>> /\ asked = None /\ edits = 0

----------------------------------------------------------------------------
(* EVM: bytes of 5 bits, where items of more than 5 have a longer head.    *)
Evm == INSTANCE EvmTx WITH
  Byte <- 32, LenLens <- 2, Key <- {1}, ChainIds <- {0, 1}, Values <- {0, 20}, IntLen <- 8,
  Tos <- {<<>>, <<9>>}, Datas <- {<<>>, <<9>>}, MaxMade <- 2, MaxEdits <- 2

(* Zcash: three outputs to spend, the last of them uncompressed; one may   *)
(* be the null outpoint of a coinbase.  Bundles with a spend, an output or *)
(* an action, that differ in one cell, spelt out empty, or cut wrong.      *)
ZcashSpent ==
  [o \in 0 .. 2 |-> [amount |-> 5, script |-> IF o = 2 THEN <<2, 1>> ELSE <<1, o>>]]
ZcashIn(o) == [from |-> o, sig |-> 0, sequence |-> 1]
ZcashOut(script) == [amount |-> 1, script |-> script]
ASpend == <<1, 11, 12, 13, 0, 5, 6, 7, 7, 7>>
AnOutput == <<0, 1, 21, 22, 23, 24, 25, 5, 7, 7>>
AnAction == <<1, 31, 32, 33, 34, 35, 36, 37, 5, 2, 7, 7, 7, 7>>
ZcashTx(ins, outs, sapling, orchard) ==
  [branch |-> 6, lock |-> 0, expiry |-> 0, inputs |-> ins, outputs |-> outs,
   sapling |-> sapling, orchard |-> orchard]

Zcash == INSTANCE ZcashTx WITH
  Key <- {1, 2}, Outpoints <- 0 .. 2, Spent <- ZcashSpent,
  Starts <- {ZcashTx(<<ZcashIn(1), ZcashIn(2)>>,
                     <<ZcashOut(<<1, 0>>), ZcashOut(<<0, 0>>)>>, <<>>, <<>>),
             ZcashTx(<<ZcashIn(1)>>, <<ZcashOut(<<1, 0>>)>>, ASpend, AnAction),
             ZcashTx(<<ZcashIn(0)>>, <<ZcashOut(<<2, 1>>)>>, AnOutput, <<>>)},
  Saplings <- {<<>>, <<0, 0>>, <<0, 0, 9>>, SubSeq(ASpend, 1, 9), AnOutput}
                \cup {[ASpend EXCEPT ![i] = 9] : i \in {3, 4, 7, 8}}
                \cup {[AnOutput EXCEPT ![i] = 9] : i \in {4, 6, 9}},
  Orchards <- {<<>>, <<0>>, <<1, 31, 32, 33, 34, 35, 36, 37, 5, 1, 7, 7, 7>>}
                \cup {[AnAction EXCEPT ![i] = 9] : i \in {4, 8, 9, 11}},
  HashTypes <- {0, 1, 2, 3, 129, 130, 131},
  MaxIns <- 2, MaxOuts <- 2, MaxEdits <- 1, MaxMade <- 2

(* Cardano: the tokens of an output in different orders, twice, under      *)
(* names of different lengths, and above the largest amount.               *)
Token(policy, name, amount) == [policy |-> <<policy>>, name |-> name, amount |-> amount]

Cardano == INSTANCE CardanoTx WITH
  Infos <- 11, Widths <- <<1, 2>>, ByteSize <- 88, MaxDepth_ <- 6,
  Key <- {1, 2}, Refusing <- {2}, MaxAmount <- 20, Ids <- {<<5>>, <<>>},
  Indexes <- {0}, Addresses <- {<<9>>, <<>>}, Amounts <- {5}, Ttls <- {6},
  OtherIds <- {<<6>>}, OtherAddresses <- {<<8>>},
  AssetLists <- {<<>>, <<Token(7, <<>>, 1)>>,
                 <<Token(8, <<2, 1>>, 1), Token(7, <<3>>, 1),
                   Token(8, <<2, 1>>, 1), Token(8, <<3>>, 1)>>,
                 <<Token(7, <<3>>, 1), Token(8, <<3>>, 1), Token(8, <<2, 1>>, 2)>>,
                 <<Token(7, <<>>, 20), Token(7, <<>>, 1)>>},
  MaxIns <- 1, MaxOuts <- 1, MaxEdits <- 3, MaxMade <- 2, MaxWitnesses <- 2

----------------------------------------------------------------------------
ChainInit ==
  \/ chain = "evm" /\ asked = None /\ Evm!Init /\ NoTron
  \/ chain = "tron" /\ NoOther /\ Init
  \/ chain = "zcash" /\ asked = None /\ Zcash!Init /\ NoTron
  \/ chain = "cardano" /\ Cardano!Init /\ NoTron

ChainNext ==
  /\ UNCHANGED chain
  /\ \/ chain = "evm" /\ Evm!Next /\ UNCHANGED <<asked, tronVars>>
     \/ chain = "tron" /\ Next /\ UNCHANGED <<tx, made, asked, edits>>
     \/ chain = "zcash" /\ Zcash!Next /\ UNCHANGED <<asked, tronVars>>
     \/ chain = "cardano" /\ Cardano!Next /\ UNCHANGED tronVars

ChainSpec == ChainInit /\ [][ChainNext]_mcVars

(* evmtx.rs, evmraw.rs: a recovered sender signed what there is, and both  *)
(* encoders agree.                                                         *)
SenderSigned == chain = "evm" => Evm!SenderSigned

(* zcashtx.rs: a signature counts as long as what its hash type covers is  *)
(* what the signer was told.                                               *)
ZcashCommits == chain = "zcash" => Zcash!ZcashCommits

(* cardanotx.rs: a witness counts as long as the transaction says what was *)
(* signed.                                                                 *)
WitnessesCommit == chain = "cardano" => Cardano!WitnessesCommit

(* to_bytes() and from_bytes() and their likes: a transaction keeps its    *)
(* id, its signatures and what it says on the way.                         *)
PassKeeps ==
  [][/\ chain = "evm" => Evm!PassKept
     /\ chain = "zcash" => Zcash!PassKept
     /\ chain = "cardano" => Cardano!PassKept]_mcVars
=============================================================================
