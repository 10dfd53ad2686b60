\* Does setting a cap to 0 lift it?
SPECIFICATION Spec
CONSTANTS
  root = root  u1 = u1  u2 = u2  xlm = xlm  t1 = t1  t2 = t2
  Users <- MCUsers
  Self = Self
  Admins = {root}
  Assets = {xlm}
  Tokens <- MCTokens
  TokenChoices <- MCAnyToken
  Caps = {0, 1}
  InitialWallet <- MCWallet
  MaxAmount = 2
  MaxEscrows = 2
  None = None
INVARIANT UncappedCanWithdraw
