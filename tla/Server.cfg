SPECIFICATION Spec
CONSTANTS
  u1 = u1
  u2 = u2
  None = None
  Users <- TwoUsers
  MaxForms = 4
  MaxExits = 1
CONSTRAINT FourthInOrder
SYMMETRY UserSymmetry
INVARIANTS LoginOnlyIfVerified ToldMeansRegistered ToldCanLogIn
PROPERTY ImplementsService
CHECK_DEADLOCK FALSE
