CONSTANTS
  a = a
  b = b
  c = c
  d = d
  None = None
  Stream <- MCStream
  UrTypeOf <- MCUrTypeOf
  MessageLen <- MCMessageLen
  MaxFragmentLen <- MCMaxFragmentLen
  Checksum <- MCChecksum
  Mix <- MCMix
  SeqMax = 10
  MaxMessageLen = 8
  MaxFragments = 4
  MaxFragmentsForSubsets = 256
  HoldPerFragment = 2
  HoldSlack = 16
SPECIFICATION FairSpec
INVARIANTS TypeOK HeldIrreducible PeelComplete CountExact
PROPERTY ReduceTerminates
