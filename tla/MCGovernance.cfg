\* One proposal, two holders, weights of 1 and 2: votes in person and by
\* delegate, ties and rounding, power withdrawn between the vote and the
\* count, rewards, execution in time.
SPECIFICATION Spec
CONSTANTS
  h1 = h1  h2 = h2
  Holders <- MCHolders
  Admin = Admin
  Configs <- MCOneConfig
  DefaultConfig <- Plain
  EarlyCalls = FALSE
  MaxInt = 15000
  MaxPower = 2
  MaxProposals = 1
  MaxTime = 3
  None = None
SYMMETRY HolderSymmetry
CONSTRAINT KeptSmall
INVARIANTS TypeOK PowerAccounted VotesAccounted
PROPERTIES PassedByMajority
