SPECIFICATION NumbersSpec
CONSTANTS
  Width = 3
  Tails <- MCTails
  Ids <- MCIds
  Deployer = deployer
  MaxIds = 4
  Chunk = 8
  DigestSize = 4
  WordBytes = 1
  InitialState <- MCInitialState
  ClearedState <- MCClearedState
  transform <- MCtransform
  DigestOf <- MCDigestOf
  ByteXor <- MCXor
  MaxMessage = 17
  Pieces = {1, 6, 8}
  Reused = {8, 14}
  KeyLengths = {4, 9}
  Seeds <- MCSeeds
  DrawLengths = {1, 4, 9}
  MaxDraws = 2
  MaxSizes <- MCMaxSizes
  OwnFrames = {2200}
  Counts = {1, 3, 160, 275, 276, 300}
INVARIANTS ReadersGetTheKeys LookupFindsTheKey
  NumbersAreRight DigestIsStandard DrawsDiffer ChainsAreRight BatchesGetTheirMemory
PROPERTIES IndexStable RevocationFinal
CHECK_DEADLOCK FALSE
