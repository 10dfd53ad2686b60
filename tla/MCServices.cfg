\* The treasury, versions, the audit log, the emergency controls, analyses,
\* the asset registry, fees, gamification and valuation, each on its own.
\* Some of them stop at their bounds.
SPECIFICATION MCServicesSpec
CONSTANTS
  p1 = p1  p2 = p2  f1 = f1  s1 = s1  s2 = s2  ch = ch  xlm = xlm  swap = swap
  People = {p1, p2}
  Admin = p1
  Assets = {xlm}
  Settings <- MCSettings
  MaxAmount = 3
  MaxRequests = 2
  MaxVersions = 2
  MaxUpgrades = 3
  Events = {"a", "b"}
  Policies <- MCPolicies
  EarlyCalls = FALSE
  MaxSeq = 4
  Changes <- MCChanges
  Thresholds = {1000, 3000}
  Operations = {swap}
  Limits <- MCLimits
  MaxTime = 3
  Portfolios = {f1}
  MaxDay = 2
  TriggerKeys = {1, 2}
  EventTypes = {"Trade"}
  Values <- MCValues
  Triggers <- MCTriggers
  Latencies = {4}
  Outputs = {1}
  MaxId = 3
  MaxListeners = 0
  MaxReports = 1
  Symbols = {s1, s2}
  Metadata = {"a"}
  Decimals = {8, 19}
  Balances <- MCBalances
  Prices = {0, 3}
  MaxAssets = 2
  FeeIds = {"YIELD"}
  Structures <- MCStructures
  Caps = {0}
  WaiverTerms <- MCWaiverTerms
  Bases = {10}
  Recipients <- MCRecipients
  MaxHistory = 2
  MaxRecipients = 2
  MaxTotal = 1
  MaxWaivers = 1
  Users = {p1}
  Modules = {0}
  Batches <- MCBatches
  BadgeIds = {"COM_1"}
  Rewards = {30}
  Funds <- MCFunds
  ChallengeIds = {ch}
  Challenges <- MCChallenges
  Increments <- MCIncrements
  InitialPool = 30
  MaxReturn = 1
  MaxTrades = 1
  MaxActions = 1
  MaxProgress = 2
  MaxCreated = 2
  MaxPaid = 30
  Quantities = {1}
  MarketPrices = {2, 3}
  Costs = {2}
  Investments = {2}
  Rates = {10}
  Periods = {4}
  Scale = 100
  MaxSnapshots = 3
  None = None
INVARIANTS OversightTyped RecordsAgree ChainIntact RateHeld StaysHalted RanksRight FiguresRight
PROPERTIES MultisigHonoured Sanctioned PruneExact QuoteHonoured RewardsEarned
CHECK_DEADLOCK FALSE
