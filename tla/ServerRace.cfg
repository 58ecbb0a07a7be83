SPECIFICATION Spec
CONSTANTS
  u1 = u1
  u2 = u2
  None = None
  Users <- TwoUsers
  MaxForms = 2
  MaxExits = 0
INVARIANT SubmitRegisters
CHECK_DEADLOCK FALSE
