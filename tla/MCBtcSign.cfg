CONSTANTS
  None = None
  a = a
  b = b
  ext = ext
  bare = bare
  old = old
  cash = cash
  cash2 = cash2
  seg = seg
  nested = nested
  wsh = wsh
  hinted = hinted
  tap = tap
  tree = tree
  o1 = o1
  o2 = o2
  Coin <- MCCoin
  Lock <- MCLock
  Amount <- MCAmount
  Entries <- MCEntries
  Able <- MCAble
  Output = {o1, o2}
  Drafts <- MCDrafts
  MaxInputs = 3
  MaxOutputs = 2
  MaxEdits = 2
  MaxCalls = 2
SYMMETRY OutputSymmetry
SPECIFICATION Spec
INVARIANTS PrefixSigned CommitsExactly
