SPECIFICATION Spec
CONSTANTS
  u = u
  o1 = o1
  o2 = o2
  o3 = o3
  o4 = o4
  Ids <- FewIds
  Clients <- MCClients
  Deployer = deployer
  N = 2
  M = 3
  MaxIds = 4
INVARIANT RegisterOutputsAProof
