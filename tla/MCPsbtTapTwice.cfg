CONSTANTS
  a = a
  b = b
  c = c
  pa = pa
  pb = pb
  pc = pc
  shared = shared
  multi = multi
  single = single
  tap = tap
  cb1 = cb1
  cb2 = cb2
  cb3 = cb3
  one = one
  both = both
  late = late
  None = None
  Party = {pc}
  Transactions <- TwiceTransactions
  Cosigners <- AllCosigners
  Completable <- AllCompletable
  Kind <- AllKind
  Nested <- AllNested
  Script <- AllScript
  InternalKey <- AllInternalKey
  ProvenLeaf <- TwiceProvenLeaf
  BlockLen <- AllBlockLen
  Threshold <- AllThreshold
  KeysOf <- AllKeysOf
  Cannot <- AllCannot
  MaxLeafSigs = 2
  SignersOf <- AllSignersOf
  Records <- TapRecords
SPECIFICATION Spec
INVARIANT SignNeverSpoils
