\* Is the total power the sum of the deposits when some were made before
\* initialize?
SPECIFICATION Spec
CONSTANTS
  h1 = h1  h2 = h2
  Holders = {h1}
  Admin = Admin
  Configs <- MCTwoConfigs
  DefaultConfig <- Plain
  EarlyCalls = TRUE
  MaxInt = 15000
  MaxPower = 1
  MaxProposals = 2
  MaxTime = 4
  None = None
INVARIANT PowerAccounted
