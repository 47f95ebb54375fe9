------------------------------- MODULE MCBbqr -------------------------------
(* Instances of BbqrJoiner for TLC: plain is cut into 3 parts of 5, 5 and *)
(* 2 bytes, zipped is compressed into 2 parts, hexed is in hex, and large  *)
(* is over the limit.  draft is another state of the file plain, and       *)
(* rezipped one of zipped: their headers are the same, and no part is.     *)
EXTENDS BbqrJoiner, TLC

CONSTANTS plain, zipped, hexed, large, draft, rezipped

MCFile == {plain, zipped, hexed, large, draft, rezipped}

(* Type, encoding, length, length as cut, and the length asked for.        *)
Shown(type, enc, raw, stored, max) ==
  [type |-> type, enc |-> enc, raw |-> raw, stored |-> stored, max |-> max]

MCShown ==
  [f \in {plain, draft} |-> Shown("P", "Base32", 12, 12, 16)]
    @@ [f \in {zipped, rezipped} |-> Shown("P", "Zlib", 12, 7, 16)]
    @@ (hexed :> Shown("T", "Hex", 4, 4, 12))
    @@ (large :> Shown("T", "Base32", 20, 20, 16))

MCFileType   == [f \in File |-> MCShown[f].type]
MCEncoding   == [f \in File |-> MCShown[f].enc]
MCRawLen     == [f \in File |-> MCShown[f].raw]
MCStoredLen  == [f \in File |-> MCShown[f].stored]
MCMaxPartLen == [f \in File |-> MCShown[f].max]
MCBytes(f, i) == <<f, i>>
=============================================================================
