CONSTANTS
  q = 5
  c1 = c1
  c2 = c2
  Contexts <- MCContexts
  Members <- MCMembers
  vals <- MCVals
  Rings <- MCRings
  Chals <- MCChals
  Names <- MCNames
  ssk <- MCSsk
  Draws <- MCDraws
SYMMETRY MCSymmetry
SPECIFICATION Spec
INVARIANTS
  HonestProofsVerify
  VerifiedMeansOwnEntry
  VerifiedMeansSameArguments
  ProofFillsItsBuffer
  AuthenticMeansOwnKey
CHECK_DEADLOCK FALSE
