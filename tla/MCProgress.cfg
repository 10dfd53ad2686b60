\* One proposal over its whole life, the admin switching between two
\* configurations at any moment: both delays, both ways to execute, and the
\* calls that need nobody's permission kept up.  Two events to two
\* subscriptions of one subscriber, retried and batched.
SPECIFICATION ProgressSpec
CONSTANTS
  h1 = h1  h2 = h2  s1 = s1
  Holders = {h1}
  Admin = Admin
  Configs <- MCTwoConfigs
  DefaultConfig <- Plain
  EarlyCalls = FALSE
  MaxInt = 15000
  MaxPower = 2
  MaxProposals = 1
  MaxTime = 5
  None = None
  Subscribers = {s1}
  EventKinds <- MCKinds
  Filters <- MCFilters
  Preferences <- MCPreferences
  RetryMax = 1  MaxSubs = 2  MaxEvents = 2  MaxChanges = 1  MaxAttempts = 1
INVARIANTS TimelockInStep MetricsTrue
PROPERTIES KeepsPromise EventuallyDecided KeepsOutbox
