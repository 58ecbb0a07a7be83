SPECIFICATION CallersSpec
CONSTANTS
  P = 19
  CURVE_B = 3
  Order = 13
  Gx = 1
  Gy = 2
  Bits = 4
  WINDOW_A = 3
  WINDOW_G = 4
  GenBits = 2
  NumsX = 1
  UnseededZ = 2
  UnseededBlind = 4
  bucket_window <- MCBucketWindow
  ECMULT_PIPPENGER_THRESHOLD = 2
  Others = {0, 1, 5, 12}
  Denominators = {1, 3}
  Scalars = {0, 1, 3, 6, 12}
  Blinds = {1, 12}
  Hashes = {1, 2, 3, 6, 17}
  N = 13
  FieldSize = 19
  X <- PointX
  Y <- PointY
  Bytes <- MCBytes
  Secrets = {0, 1, 5, 12, 13}
  Messages = {0, 1, 7, 12, 25}
  Draws <- MCDraws
  Seckeys <- MCSeckeys
  Invalid = 14
  Texts = {1, 2}
  RandomBytes <- MCRandomBytes
  Extras = {0, 1, 6}
  Digest <- MCDigest
CONSTRAINT OneAtATime
INVARIANTS RightPoint ChecksHold BlindingCancels SavedPointsReload
  KeysStayAPair SignaturesVerify AggregatesVerify
CHECK_DEADLOCK FALSE
