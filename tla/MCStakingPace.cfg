\* Does a graduated schedule hold back what it has not unlocked?
SPECIFICATION PaceSpec
CONSTANTS
  s1 = s1  usd = usd  xlm = xlm  None = None
  Stakers = {s1}
  Assets = {usd}
  Schedules <- MCGraduated
  EmergencyConfigs <- MCNoConfig
  LockAmounts = {1}
  Scale = 1000
  MaxBalance = 5
  TrancheRange = 1000
  MaxTime = 3  MaxEmergencies = 0
INVARIANT GraduatedPace
