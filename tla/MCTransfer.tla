----------------------------- MODULE MCTransfer -----------------------------
(* Instances of FountainTransfer for TLC: two screens, with messages of 3  *)
(* fragments each, of the same type and different checksums.               *)
EXTENDS FountainTransfer, TLC

CONSTANTS a, b

MCStream == {a, b}
MCUrTypeOf == (a :> "bytes") @@ (b :> "bytes")
MCMessageLen == (a :> 5) @@ (b :> 6)
MCMaxFragmentLen == (a :> 2) @@ (b :> 2)
MCChecksum == (a :> 1) @@ (b :> 2)
MCMix(n, l, k) == IF l = 3 THEN (0 .. 2) \ {n % 4} ELSE 0 .. (l - 1)

=============================================================================
