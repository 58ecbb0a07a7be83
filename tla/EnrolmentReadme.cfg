SPECIFICATION Spec
CONSTANTS
  c1 = c1
  c2 = c2
  c3 = c3
  NoKey = NoKey
  Commands <- MCCommands
  Paths <- MCPaths
  Accounts <- MCAccounts
  path <- ReadmePath
  account <- OneAccount
  Minings = {TRUE}
  Prices = {1}
  Deployer = deployer
INVARIANT ListedKeyIsInItsFile
CHECK_DEADLOCK FALSE
