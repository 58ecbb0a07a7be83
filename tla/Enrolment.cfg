SPECIFICATION Spec
CONSTANTS
  c1 = c1
  c2 = c2
  c3 = c3
  NoKey = NoKey
  Commands <- MCCommands
  Paths <- MCPaths
  Accounts <- MCAccounts
  path <- SharedPath
  account <- SharedAccount
  Minings = {TRUE, FALSE}
  Prices = {1, 2}
  Deployer = deployer
INVARIANTS KeyKept ListedOnce PrintedIndexRight AddedMeansListed SentIsKept
PROPERTY SentIsListed
CHECK_DEADLOCK FALSE
