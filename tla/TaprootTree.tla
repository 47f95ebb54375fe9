----------------------------- MODULE TaprootTree -----------------------------
(***************************************************************************)
(* Script trees of taproot outputs (taproot.rs): walk() folds a listing of *)
(* leaves with their depths on a stack, and control blocks carry the way   *)
(* from a leaf to the root.  Hashes are symbolic: a leaf's is of its       *)
(* version and script, a branch's of its children in any order.            *)
(***************************************************************************)
EXTENDS Naturals, Sequences, SequencesExt

CONSTANT MaxDepth   \* MAX_TAPROOT_DEPTH

TapLeafHash(version, script) == [leaf |-> <<version, script>>, of |-> {}]

(* The children are sorted, so the hash depends on their set alone.        *)
TapBranchHash(x, y) == [leaf |-> <<>>, of |-> {x, y}]

(* Versions: "even" ones are legal, "odd" ones and the tag of the annex    *)
(* are not.                                                                *)
VersionError(version) == version \in {"odd", "annex"}

FoldPath(hash, path) == FoldLeft(TapBranchHash, hash, path)

(* merkle_root_from_path(): None for a path that is too long.              *)
PathTooLong(path) == Len(path) > MaxDepth

----------------------------------------------------------------------------
(* walk(): the state of its loops is the stack, the path met so far, and   *)
(* the error that ends it.                                                 *)

Start == [stack |-> <<>>, path |-> <<>>, error |-> "none"]

Top(w) == Last(w.stack)

Fails(w, e) == [w EXCEPT !.error = e]

(* Mutated form: the node itself in place of its sibling.                  *)
Sibling_Second(x, y) == y.hash

Sibling(x, y) == IF x.holds THEN y.hash ELSE x.hash

(* Two finished subtrees at the same depth become their parent.            *)
RECURSIVE Merged(_, _)
Merged(w, room) ==
  IF w.error # "none" \/ Len(w.stack) < 2
       \/ Top(w).depth # w.stack[Len(w.stack) - 1].depth
    THEN w
  ELSE
    LET x == w.stack[Len(w.stack) - 1]
        y == Top(w)
        onPath == x.holds \/ y.holds
        parent == [hash |-> TapBranchHash(x.hash, y.hash),
                   depth |-> x.depth - 1, holds |-> onPath]
    IN
    IF x.depth = 0 THEN Fails(w, "InvalidData")
    ELSE IF onPath /\ Len(w.path) >= room THEN Fails(w, "BufferTooSmall")
    ELSE Merged([w EXCEPT !.stack = Append(Front(Front(@)), parent),
                          !.path = IF onPath THEN Append(@, Sibling(x, y)) ELSE @],
                room)

(* The stack is an array of MaxDepth + 1 nodes: writing past it panics.    *)
IsFull(w) == Len(w.stack) = MaxDepth + 1

Pushed(w, leaf, holds) ==
  IF IsFull(w) THEN Fails(w, "panic")
  ELSE [w EXCEPT !.stack =
          Append(@, [hash |-> TapLeafHash(leaf.version, leaf.script),
                     depth |-> leaf.depth, holds |-> holds])]

WithLeaf(w, leaf, holds, room) ==
  CASE w.error # "none"             -> w
    [] VersionError(leaf.version)   -> Fails(w, "InvalidData")
    [] leaf.depth > MaxDepth        -> Fails(w, "TooLarge")
    [] w.stack # <<>> /\ leaf.depth < Top(w).depth -> Fails(w, "InvalidData")
    [] OTHER                        -> Merged(Pushed(w, leaf, holds), room)

(* Mutated form: any single node is taken for the root.                    *)
IsFolded_AnyDepth(w) == Len(w.stack) = 1

(* A complete tree folds to a single node at depth 0.                      *)
IsFolded(w) == Len(w.stack) = 1 /\ w.stack[1].depth = 0

(* target is the position of a leaf, or 0 for none; room is the number of  *)
(* nodes that fit path_out.                                                *)
Walk(leaves, target, room) ==
  LET w == FoldLeft(LAMBDA v, i : WithLeaf(v, leaves[i], i = target, room),
                    Start, [i \in DOMAIN leaves |-> i])
  IN
  IF target > Len(leaves) THEN Fails(Start, "IndexOutOfRange")
  ELSE IF w.error = "none" /\ ~IsFolded(w) THEN Fails(w, "InvalidData")
  ELSE w

RootOf(w) == w.stack[1].hash

----------------------------------------------------------------------------
(* Control blocks.  The output key is of the internal key and the root;    *)
(* its parity is that of a symbolic function of both.                      *)

OutputKey(key, root) == [key |-> key, root |-> root]

ControlBlock(key, leaves, i, room) ==
  LET w == Walk(leaves, i, room)
  IN  [error |-> IF i > Len(leaves) THEN "IndexOutOfRange" ELSE w.error,
       version |-> IF i > Len(leaves) THEN "even" ELSE leaves[i].version,
       key |-> key, path |-> w.path]

ParseError(block) ==
  CASE PathTooLong(block.path)      -> "TooLarge"
    [] VersionError(block.version)  -> "InvalidData"
    [] OTHER                        -> "none"

Verify(block, script, output) ==
  /\ ~PathTooLong(block.path)
  /\ OutputKey(block.key,
               FoldPath(TapLeafHash(block.version, script), block.path)) = output

----------------------------------------------------------------------------
(* What a listing means: the subtree at depth d is a leaf of that depth,   *)
(* or the listings of two subtrees one deeper.                             *)

RECURSIVE IsTree(_, _)
IsTree(leaves, d) ==
  \/ Len(leaves) = 1 /\ leaves[1].depth = d
  \/ \E k \in 1 .. (Len(leaves) - 1) :
       /\ IsTree(SubSeq(leaves, 1, k), d + 1)
       /\ IsTree(SubSeq(leaves, k + 1, Len(leaves)), d + 1)

RECURSIVE TreeHash(_, _), TreePath(_, _, _)

SplitOf(leaves, d) ==
  CHOOSE k \in 1 .. (Len(leaves) - 1) :
    /\ IsTree(SubSeq(leaves, 1, k), d + 1)
    /\ IsTree(SubSeq(leaves, k + 1, Len(leaves)), d + 1)

Left(leaves, d) == SubSeq(leaves, 1, SplitOf(leaves, d))
Right(leaves, d) == SubSeq(leaves, SplitOf(leaves, d) + 1, Len(leaves))

TreeHash(leaves, d) ==
  IF Len(leaves) = 1 THEN TapLeafHash(leaves[1].version, leaves[1].script)
  ELSE TapBranchHash(TreeHash(Left(leaves, d), d + 1),
                     TreeHash(Right(leaves, d), d + 1))

(* The hashes beside the way from leaf i, the lowest first.                *)
TreePath(leaves, i, d) ==
  LET k == SplitOf(leaves, d)
  IN  IF Len(leaves) = 1 THEN <<>>
      ELSE IF i <= k
        THEN Append(TreePath(Left(leaves, d), i, d + 1),
                    TreeHash(Right(leaves, d), d + 1))
      ELSE Append(TreePath(Right(leaves, d), i - k, d + 1),
                  TreeHash(Left(leaves, d), d + 1))

AllowedLeaf(leaf) == leaf.depth <= MaxDepth /\ ~VersionError(leaf.version)

AllAllowed(leaves) == \A i \in DOMAIN leaves : AllowedLeaf(leaves[i])

IsLegal(leaves) == IsTree(leaves, 0) /\ AllAllowed(leaves)

(* Subtrees at depth d and every depth below, one of each.                 *)
RECURSIVE IsSpine(_, _)
IsSpine(leaves, d) ==
  IF d > MaxDepth THEN leaves = <<>>
  ELSE \E k \in DOMAIN leaves :
         /\ IsTree(SubSeq(leaves, 1, k), d)
         /\ IsSpine(SubSeq(leaves, k + 1, Len(leaves)), d + 1)

(* Such a listing goes on after it filled the stack from depth 0 to        *)
(* MaxDepth: the next leaf that is not refused finds no room.              *)
Overfills(leaves) ==
  \E k \in 1 .. (Len(leaves) - 1) :
    /\ IsSpine(SubSeq(leaves, 1, k), 0)
    /\ AllAllowed(SubSeq(leaves, 1, k + 1))
    /\ leaves[k + 1].depth = MaxDepth

(* A listing is folded exactly if it is one of a tree, and to its root; of *)
(* the others, exactly those that overfill the stack are not refused with  *)
(* an error.                                                               *)
FoldsTrees(leaves) ==
  LET w == Walk(leaves, 0, 0)
  IN  /\ (w.error = "none") <=> IsLegal(leaves)
      /\ (w.error = "panic") <=> Overfills(leaves)
      /\ IsLegal(leaves) => RootOf(w) = TreeHash(leaves, 0)

(* The control block of a leaf, written where there is room for it, reads  *)
(* back and proves the script of that leaf, and no other script under the  *)
(* same version, in the output of the tree.                                *)
ProvesLeaves(leaves, key, room) ==
  IsLegal(leaves) =>
    \A i \in DOMAIN leaves :
      LET block == ControlBlock(key, leaves, i, room)
          output == OutputKey(key, TreeHash(leaves, 0))
      IN
      IF leaves[i].depth > room THEN block.error = "BufferTooSmall"
      ELSE /\ block.error = "none"
           /\ ParseError(block) = "none"
           /\ block.path = TreePath(leaves, i, 0)
           /\ \A j \in DOMAIN leaves :
                Verify(block, leaves[j].script, output)
                  <=> leaves[j].script = leaves[i].script
=============================================================================
