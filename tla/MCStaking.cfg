\* Two stakers in two assets come, go early and go on time: running totals,
\* cooldowns and penalties over a whole lock.  Two stakers and a reserve that
\* may run dry: claims of all three kinds, in batches of either order, a
\* one-off and a recurring distribution.
SPECIFICATION StakingSpec
CONSTANTS
  s1 = s1  s2 = s2  usd = usd  xlm = xlm  dai = dai  None = None
  Stakers = {s1, s2}
  Assets = {usd, xlm}
  Schedules <- MCSchedules
  EmergencyConfigs <- MCConfigs
  LockAmounts = {1}
  Scale = 1000
  Coins = {dai}
  Principals = {1}
  Rates = {0, 1}
  Earned <- MCEarned
  Offers <- MCOffers
  Claims = {1, 2}
  MaxReserve = 2  MaxSchedules = 2  MaxLogged = 4
  MaxBalance = 2
  TrancheRange = 1000
  MaxTime = 3  MaxEmergencies = 2
SYMMETRY MCSymmetry
CONSTRAINT KeptSmall
INVARIANTS StakesTyped TotalsAgree CooldownKept YieldAccounted
PROPERTIES EarlyExitPenalized YieldConserved
