\* The instances of MCMarkets.cfg: tokens that were sold are redeemed as well.
SPECIFICATION ServicesSpec
CONSTANTS
  p1 = p1  p2 = p2  f1 = f1  a1 = a1  a2 = a2  a3 = a3  xlm = xlm  usd = usd
  People = {p1, p2}
  Admin = p1
  Portfolios = {f1}
  Assets = {a1, a2, a3}
  Allocations <- MCAllocations
  Thresholds = {1000}
  Intervals = {1, 2}
  AlertThresholds <- MCThresholds
  ExtraReadings <- MCReadings
  Grants <- MCGrants
  MaxThresholds = 2
  MaxExecutions = 3
  MaxAlerts = 3
  PairIds = {xlm}
  PairConfigs <- MCPairConfigs
  SlippageConfigs <- MCSlippageConfigs
  OrderPrices = {1, 2}
  OrderAmounts = {2, 3}
  Batches <- MCBatches
  Outcomes = {0, 1}
  Terms <- MCTerms
  Seeds = {1000}
  Deposits = {500}
  Stakes = {500}
  TokenAmounts = {300}
  Bonds = {15}
  MinLiquidity = 1000
  DisputePeriod = 1
  MaxDepth = 2
  MaxOrders = 3
  MaxVolume = 1000
  MaxProvided = 3
  Quoted = {usd}
  Providers = {1, 2, 3}
  Founding <- MCFounding
  ProviderSets <- MCProviderSets
  FeedConfigs <- MCFeedConfigs
  Methods = {"Latest", "TWAP", "WeightedAverage"}
  FeedPrices <- MCFeedPrices
  FeedBatches <- MCFeedBatches
  Lags <- MCLags
  Statuses = {"Anomalous"}
  MaxCalls = 2
  MaxTime = 5
  None = None
INVARIANT RedeemsHeld
CHECK_DEADLOCK FALSE
