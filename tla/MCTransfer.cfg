CONSTANTS
  a = a
  b = b
  None = None
  Stream <- MCStream
  UrTypeOf <- MCUrTypeOf
  MessageLen <- MCMessageLen
  MaxFragmentLen <- MCMaxFragmentLen
  Checksum <- MCChecksum
  Mix <- MCMix
  SeqMax = 4
  MaxMessageLen = 8
  MaxFragments = 4
  MaxFragmentsForSubsets = 256
  HoldPerFragment = 2
  HoldSlack = 16
SPECIFICATION TFairSpec
INVARIANT CompleteIsProduced
PROPERTIES Reassembles EventuallyComplete
