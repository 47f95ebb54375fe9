CONSTANTS
  a = a
  b = b
  c = c
  pa = pa
  pb = pb
  pc = pc
  shared = shared
  multi = multi
  single = single
  tap = tap
  cb1 = cb1
  cb2 = cb2
  cb3 = cb3
  one = one
  both = both
  late = late
  None = None
  Party = {pa, pb, pc}
  Transactions <- AllTransactions
  Cosigners <- AllCosigners
  Completable <- AllCompletable
  Kind <- AllKind
  Nested <- AllNested
  Script <- AllScript
  InternalKey <- AllInternalKey
  ProvenLeaf <- AllProvenLeaf
  BlockLen <- AllBlockLen
  Threshold <- AllThreshold
  KeysOf <- AllKeysOf
  Cannot <- AllCannot
  MaxLeafSigs = 1
  SignersOf <- AllSignersOf
  Records <- AllRecords
SPECIFICATION FairSpec
INVARIANT FinalIsSpendable
PROPERTIES FinalStays NoSigLost SignFits SigningCovers MismatchStops EventuallyExtracted
