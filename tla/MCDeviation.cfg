\* One asset at a few prices, and a scale small enough for TLC: the deviation of
\* the returns between snapshots of values from 1 to 3, and the square root in it.
SPECIFICATION Spec
CONSTANTS
  Portfolios = {f1}
  Assets = {s1}
  Quantities = {1}
  Prices = {1, 2, 3}
  Costs = {2}
  Investments = {}
  Rates = {}
  Periods = {}
  Scale = 100
  MaxAssets = 1
  MaxSnapshots = 3
  None = None
INVARIANT DeviationIsRoot
CHECK_DEADLOCK FALSE
