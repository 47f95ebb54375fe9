----------------------------- MODULE MCFountain -----------------------------
(* Instances of FountainDecoder for TLC: what the streams show and mix.    *)
EXTENDS FountainDecoder, TLC

CONSTANTS a, b, c, d

(* a: 4 fragments of 2 bytes, the last one padded; b: another type, 2      *)
(* fragments; c: fits a single part; d: more than the limits allow.        *)
MCStream == {a, b, c, d}
MCUrTypeOf == (a :> "bytes") @@ (b :> "psbt") @@ (c :> "bytes") @@ (d :> "bytes")
MCMessageLen == (a :> 7) @@ (b :> 3) @@ (c :> 1) @@ (d :> 9)
MCMaxFragmentLen == (a :> 2) @@ (b :> 2) @@ (c :> 2) @@ (d :> 3)
MCChecksum == (a :> 1) @@ (b :> 2) @@ (c :> 3) @@ (d :> 4)

(* Two messages of 3 fragments that parts cannot tell apart, and a third   *)
(* one that differs from them by its type alone.                           *)
TwinStream == {a, b, c}
TwinUrTypeOf == (a :> "bytes") @@ (b :> "bytes") @@ (c :> "psbt")
TwinMessageLen == (a :> 3) @@ (b :> 3) @@ (c :> 3)
TwinMaxFragmentLen == (a :> 1) @@ (b :> 1) @@ (c :> 1)
TwinChecksum == (a :> 1) @@ (b :> 1) @@ (c :> 1)

(* Every pair of the 3 fragments, then all of them: more than fit.         *)
TwinMix(n, l, k) ==
  (4 :> {0, 1} @@ 5 :> {1, 2} @@ 6 :> {0, 2} @@ 7 :> {0, 1, 2})[n]

MCMix(n, l, k) ==
  CASE l = 4 -> (5 :> {0, 1} @@ 6 :> {1, 2, 3} @@ 7 :> {0, 1, 2, 3}
                  @@ 8 :> {2, 3} @@ 9 :> {0, 2} @@ 10 :> {0, 1, 3})[n]
    [] l = 1 -> {0}
    [] OTHER -> (0 .. (l - 1)) \ (IF n % 3 = 0 THEN {} ELSE {n % l})

=============================================================================
