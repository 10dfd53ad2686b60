\* Does the yield history ever add up to more than was earned?
SPECIFICATION Spec
CONSTANTS
  s1 = s1  usd = usd  None = None
  Stakers = {s1}
  Assets = {usd}
  Principals = {1}  Rates = {1}
  Earned <- MCEarned
  Offers = {}
  Amounts = {1}
  MaxReserve = 1  MaxSchedules = 0  MaxLogged = 4  MaxTime = 2
INVARIANT HistoryNeverAhead
