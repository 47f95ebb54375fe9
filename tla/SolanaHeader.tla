----------------------------- MODULE SolanaHeader -----------------------------
(***************************************************************************)
(* The header of a Solana message (src/src/solana/tx.rs): three counts of  *)
(* a byte each, from which the network reads the rights of every account.  *)
(***************************************************************************)
EXTENDS Integers

MaxKeys == 256

AsU8(n) == n % 256

(* Mutated form of Header: the fee payer is not counted. *)
Header_NoPayer(sw, sr, nr) ==
  [required |-> AsU8(sw + sr), ro_signed |-> AsU8(sr), ro_unsigned |-> AsU8(nr)]

(* The header, from the sizes of the classes without the fee payer. *)
Header(sw, sr, nr) ==
  [required |-> AsU8(1 + sw + sr), ro_signed |-> AsU8(sr), ro_unsigned |-> AsU8(nr)]

(* What the network reads from a header, of account i of n. *)
SignerAt(h, i) == i < h.required
WritableAt(h, n, i) ==
  IF SignerAt(h, i) THEN i < h.required - h.ro_signed ELSE i < n - h.ro_unsigned

(* A header gives every account the rights of its class, as long as the    *)
(* signers can be counted in a u8.  Where all of the 256 accounts that are *)
(* allowed sign, the count wraps and the header asks for no signature.     *)
HeaderDecodes(sw, sr, nw, nr) ==
  LET h == Header(sw, sr, nr)
      n == 1 + sw + sr + nw + nr
  IN
  /\ 1 + sw + sr < 256 =>
       \A i \in 0 .. n - 1 :
         /\ SignerAt(h, i) <=> i < 1 + sw + sr
         /\ WritableAt(h, n, i) <=>
              (i < 1 + sw \/ (1 + sw + sr <= i /\ i < 1 + sw + sr + nw))
  /\ 1 + sw + sr = 256 => \A i \in 0 .. n - 1 : ~SignerAt(h, i)
===============================================================================
