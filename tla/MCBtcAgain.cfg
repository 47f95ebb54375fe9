CONSTANTS
  None = None
  a = a
  b = b
  ext = ext
  bare = bare
  old = old
  cash = cash
  cash2 = cash2
  seg = seg
  nested = nested
  wsh = wsh
  hinted = hinted
  tap = tap
  tree = tree
  o1 = o1
  o2 = o2
  Coin <- HintedCoin
  Lock <- MCLock
  Amount <- MCAmount
  Entries <- MCEntries
  Able <- MCAble
  Output = {o1, o2}
  Drafts <- HintedDrafts
  MaxInputs = 2
  MaxOutputs = 2
  MaxEdits = 0
  MaxCalls = 2
SYMMETRY OutputSymmetry
SPECIFICATION Spec
INVARIANT SignedIsValid
