------------------------------- MODULE MCSolana -------------------------------
(* Instances of SolanaTx for TLC.  The system program has the lowest key,  *)
(* the keys 1 to 3 sign, 4 and 5 never do.                                 *)
EXTENDS SolanaTx

CONSTANTS early, late  \* blockhashes

System == 0
Token == 7
Budget == 8
Sysvar == 9

MCPayer == {1, 2}

(* One asks to sign for an account that another one only reads, one has    *)
(* the fee payer for a program, and one is too long for a v1 transaction.  *)
Instructions ==
  { Transfer(System, 1, 2), SplTransfer(Token, 4, 2, 3),
    AdvanceNonce(System, 2, Sysvar, 1), CreateAta(6, 3, 4, 1, 5, System, Token),
    SetComputeUnitLimit(Budget), Instruction(1, <<Meta(3, FALSE, FALSE)>>, 3),
    Instruction(Token, <<>>, 4000) }

MCLists ==
  {<<>>} \cup {<<i>> : i \in Instructions}
         \cup {<<i, j>> : i \in {Transfer(System, 1, 2), SplTransfer(Token, 4, 2, 3)},
                          j \in Instructions}

NoRequest == [r \in {} |-> 0]
MCConfigs ==
  { NoRequest, [priority_fee |-> 5, heap_size |-> 32768],
    [compute_unit_limit |-> 9, heap_size |-> 32000] }

Table == [writable |-> 1, readonly |-> 1]
MCTables == {<<>>, <<Table, Table>>}

MCBlockhash == {early, late}

MCSeeds == {<<1>>, <<2>>, <<3>>, <<1, 2>>, <<3, 2>>, <<1, 5>>}

(* What other programs may write, right and wrong.                         *)
Other(format, lookups, config) ==
  ToBytes(NewTx(format, 1, <<Transfer(System, 1, 2), SplTransfer(Token, 4, 2, 3)>>,
                early, lookups, config))

Legacy == Other("legacy", <<>>, NoRequest)
V0 == Other("v0", <<Table, Table>>, NoRequest)
V1 == Other("v1", <<>>, [priority_fee |-> 5, heap_size |-> 32768])

MCForeign ==
  LET InstructionOf(w, index) ==
        [w EXCEPT !.ixs = Append(@, Instruction(index, <<index>>, 1))]
      WithSlots(w, n) == [w EXCEPT !.sigs = [i \in 1 .. n |-> Zeros]]
  IN
  {Legacy, V0, V1}
  \cup {[w EXCEPT !.trailing = TRUE] : w \in {Legacy, V0, V1}}
  \cup {[w EXCEPT !.cut = c] : w \in {Legacy, V0, V1},
          c \in {"signatures", "keys", "instructions"}}
  \cup {[V0 EXCEPT !.cut = "lookups"], [V1 EXCEPT !.cut = "values"]}
  \cup {InstructionOf(w, Len(w.keys) + d) : w \in {Legacy, V0, V1}, d \in {-1, 0, 3, 4}}
  \cup {InstructionOf(w, 0) : w \in {Legacy, V1}}
  \cup {[w EXCEPT !.header = h] : w \in {Legacy, V0, V1},
          h \in [required : {0, 2, 7, 130}, ro_signed : {0, 2, 3},
                 ro_unsigned : {2, 5}]}
  \cup {WithSlots(w, n) : w \in {Legacy, V0, V1}, n \in {3, 129, 257}}
  \cup {WithSlots(V1, 0)}
  \cup {[V1 EXCEPT !.mask = m, !.values = <<5>>] : m \in {{0}, {1, 2}, {2}, {0, 1, 5}}}
  \cup {[V1 EXCEPT !.mask = {4}, !.values = <<h>>] : h \in {1024, 262144, 263168}}
  \cup {[w EXCEPT !.keys[2] = 1] : w \in {Legacy, V1}}

(* A transaction without room for the signatures that it asks for.         *)
ShortForeign ==
  {[w EXCEPT !.sigs = <<>>] : w \in {Legacy, V0}}
=============================================================================
