CONSTANTS
  None = None
  Empty = Empty
  Zeros = Zeros
  early = early
  late = late
  Payer <- MCPayer
  Lists <- MCLists
  Configs <- MCConfigs
  Tables <- MCTables
  Blockhash <- MCBlockhash
  Seeds <- MCSeeds
  Foreign <- MCForeign
  MaxEdits = 1
SPECIFICATION Spec
INVARIANTS RightsKept VerifiedIsSigned WireKeeps
PROPERTY SignaturesStay
