CONSTANTS
  a = a
  b = b
  c = c
  d = d
  None = None
  Stream <- TwinStream
  UrTypeOf <- TwinUrTypeOf
  MessageLen <- TwinMessageLen
  MaxFragmentLen <- TwinMaxFragmentLen
  Checksum <- TwinChecksum
  Mix <- TwinMix
  SeqMax = 7
  MaxMessageLen = 8
  MaxFragments = 4
  MaxFragmentsForSubsets = 0
  HoldPerFragment = 0
  HoldSlack = 2
SPECIFICATION Spec
INVARIANTS HoldBound NoneMissedCompletes CompleteIsSent
