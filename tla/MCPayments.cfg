\* Two users and two escrows on one asset, which the admin may move from one
\* token to another while caps change.
SPECIFICATION Spec
CONSTANTS
  root = root  u1 = u1  u2 = u2  xlm = xlm  t1 = t1  t2 = t2
  Users <- MCUsers
  Self = Self
  Admins = {root}
  Assets = {xlm}
  Tokens <- MCTokens
  TokenChoices <- MCAnyToken
  Caps = {0, 1}
  InitialWallet <- MCWallet
  MaxAmount = 2
  MaxEscrows = 2
  None = None
SYMMETRY MCSymmetry
INVARIANTS TypeOK CustodyConserved
PROPERTIES PayoutsAccounted SpendingBounded
