CONSTANTS
  None = None
  Key = {0, 1}
  MaxInt = 31
  Amounts = {0, 1, 40}
  RawLens = {1, 127, 128, 16383, 16384}
  SigLen = 65
  Room = 1
  MaxSigs = 2
  MaxAltered = 1
SPECIFICATION ChainSpec
INVARIANTS SenderSigned ShownIsSigned ZcashCommits WitnessesCommit
PROPERTY PassKeeps
CHECK_DEADLOCK FALSE
