SPECIFICATION Spec
CONSTANTS
  Secrets <- MCSecrets
  Groups <- MCGroups
  Texts <- MCTexts
  Numerals <- MCNumerals
  toBigInt <- MCToBigInt
  bytes <- MCBytes
  MaxDepth = 3
  MaxProofs = 2
INVARIANTS VerifiesOverItsGroupOnly NullifierNamesTheMember SignatureNamesTheKey
