------------------------------ MODULE Valuation -----------------------------
(***************************************************************************)
(* The valuation contract: the assets of a portfolio with their prices,     *)
(* snapshots of its value, and what is computed from both: allocation,      *)
(* returns, drawdown, time-weighted return, Sharpe and Sortino ratios.      *)
(* Fixed-point numbers have Scale (1e18 in the code) for one; results are   *)
(* exact integers, so the overflow errors of the code are left out, as are  *)
(* timestamps.  No call asks who makes it.                                  *)
(***************************************************************************)
EXTENDS Integers, ListOps, Functions

CONSTANTS
  Portfolios, Assets,
  Quantities, Prices, Costs, Investments, Rates, Periods,  \* what callers set
  Scale,
  MaxAssets, MaxSnapshots,  \* bounds of the exploration (the code has none)
  None

VARIABLES
  assets, initialInvestment, snapshots, valuationHistory, riskFreeRate, periodsPerYear

vars == <<assets, initialInvestment, snapshots, valuationHistory, riskFreeRate, periodsPerYear>>

PortfolioAsset == [asset : Assets, quantity : Int, current_price : Int, cost_basis : Int]

PortfolioSnapshot == [total_value : Int, total_cost_basis : Int, asset_count : Nat]

ValuationHistoryEntry == [total_value : Int, absolute_return : Int, percentage_return : Int]

ValuationAssumption ==
  /\ Quantities \cup Prices \cup Costs \cup Investments \cup Rates \subseteq Int
  /\ Periods \subseteq Nat /\ Scale \in Nat \ {0}

TypeOK ==
  /\ assets \in [Portfolios -> Seq(PortfolioAsset)]
  /\ initialInvestment \in [Portfolios -> Int]
  /\ snapshots \in [Portfolios -> Seq(PortfolioSnapshot)]
  /\ valuationHistory \in [Portfolios -> Seq(ValuationHistoryEntry)]
  /\ riskFreeRate \in Int /\ periodsPerYear \in Nat

(* The rates that initialize stores are those read when nothing is stored.  *)
Init ==
  /\ assets = [f \in Portfolios |-> <<>>]
  /\ initialInvestment = [f \in Portfolios |-> 0]
  /\ snapshots = [f \in Portfolios |-> <<>>]
  /\ valuationHistory = [f \in Portfolios |-> <<>>]
  /\ riskFreeRate = (4 * Scale) \div 100 /\ periodsPerYear = 365

-----------------------------------------------------------------------------
(* Fixed point *)

Abs(x) == Max({x, -x})

(* fp_mul_div: towards zero.                                                *)
MulDiv(a, b, d) ==
  LET q == (Abs(a) * Abs(b)) \div Abs(d)
  IN  IF (a < 0) # (b < 0) THEN (IF d < 0 THEN q ELSE -q) ELSE (IF d < 0 THEN -q ELSE q)

FpMul(a, b) == MulDiv(a, b, Scale)
FpDiv(a, b) == MulDiv(a, Scale, b)

(* fp_sqrt: rounds of Newton's method from x / 2, given up at the first      *)
(* that does not come out lower (the limit of 128 rounds is out of reach: a  *)
(* guess far above the root is halved).                                      *)
FpSqrt(x) ==
  LET newton[g \in Nat] ==
        LET next == (g + FpDiv(x, g)) \div 2 IN IF next >= g THEN g ELSE newton[next]
  IN  IF x = 0 THEN 0 ELSE newton[Max({x \div 2, 1})]

Quotient(a, n) == MulDiv(a, 1, n)

-----------------------------------------------------------------------------
(* What a portfolio is worth *)

MarketValue(a) == a.quantity * a.current_price

(* calculate_portfolio_value *)
PortfolioValue(f) == SumFunction([i \in DOMAIN assets[f] |-> MarketValue(assets[f][i])])

(* calculate_total_cost_basis *)
TotalCostBasis(f) ==
  SumFunction([i \in DOMAIN assets[f] |-> assets[f][i].quantity * assets[f][i].cost_basis])

(* get_asset_allocation: shares in basis points rounded down, what they are *)
(* short of the whole given to the last asset; None for an error.           *)
AssetAllocation(f) ==
  LET total == PortfolioValue(f)
      bps == [i \in DOMAIN assets[f] |->
                Max({Quotient(MarketValue(assets[f][i]) * 10000, total), 0})]
  IN  IF assets[f] = <<>> \/ total <= 0 THEN None
      ELSE [bps EXCEPT ![Len(bps)] = Max({@ + 10000 - SumFunction(bps), 0})]

(* calculate_returns *)
Returns(f) ==
  LET gain == PortfolioValue(f) - initialInvestment[f]
  IN  IF initialInvestment[f] = 0 \/ PortfolioValue(f) = 0 THEN None
      ELSE [absolute_return |-> gain, percentage_return |-> FpDiv(gain, initialInvestment[f])]

-----------------------------------------------------------------------------
(* Calls *)

PlaceOf(f, a) == SelectInSeq(assets[f], LAMBDA x : x.asset = a)

SetAsset(f, a) ==
  LET i == PlaceOf(f, a.asset)
  IN  /\ i = 0 => Len(assets[f]) < MaxAssets
      /\ assets' = [assets EXCEPT ![f] = IF i = 0 THEN Append(@, a) ELSE ReplaceAt(@, i, a)]
      /\ UNCHANGED <<initialInvestment, snapshots, valuationHistory, riskFreeRate, periodsPerYear>>

RemoveAsset(f, a) ==
  LET i == PlaceOf(f, a)
  IN  /\ i # 0
      /\ assets' = [assets EXCEPT ![f] = RemoveAt(@, i)]
      /\ UNCHANGED <<initialInvestment, snapshots, valuationHistory, riskFreeRate, periodsPerYear>>

SetInitialInvestment(f, amount) ==
  /\ initialInvestment' = [initialInvestment EXCEPT ![f] = amount]
  /\ UNCHANGED <<assets, snapshots, valuationHistory, riskFreeRate, periodsPerYear>>

SetRiskFreeRate(rate) ==
  /\ riskFreeRate' = rate
  /\ UNCHANGED <<assets, initialInvestment, snapshots, valuationHistory, periodsPerYear>>

SetAnnualizationPeriod(n) ==
  /\ periodsPerYear' = n
  /\ UNCHANGED <<assets, initialInvestment, snapshots, valuationHistory, riskFreeRate>>

(* The history counts returns from the cost basis, calculate_returns from   *)
(* the initial investment.                                                  *)
TakeSnapshot(f) ==
  LET value == PortfolioValue(f)
      cost == TotalCostBasis(f)
      gain == IF cost > 0 THEN value - cost ELSE 0
  IN  /\ Len(snapshots[f]) < MaxSnapshots
      /\ snapshots' = [snapshots EXCEPT ![f] =
           Append(@, [total_value |-> value, total_cost_basis |-> cost,
                      asset_count |-> Len(assets[f])])]
      /\ valuationHistory' = [valuationHistory EXCEPT ![f] =
           Append(@, [total_value |-> value, absolute_return |-> gain,
                      percentage_return |-> IF cost > 0 THEN FpDiv(gain, cost) ELSE 0])]
      /\ UNCHANGED <<assets, initialInvestment, riskFreeRate, periodsPerYear>>

Next ==
  \/ \E rate \in Rates : SetRiskFreeRate(rate)
  \/ \E n \in Periods : SetAnnualizationPeriod(n)
  \/ \E f \in Portfolios :
       \/ TakeSnapshot(f)
       \/ \E amount \in Investments : SetInitialInvestment(f, amount)
       \/ \E a \in Assets :
            \/ RemoveAsset(f, a)
            \/ \E q \in Quantities, x \in Prices, c \in Costs :
                 SetAsset(f, [asset |-> a, quantity |-> q, current_price |-> x, cost_basis |-> c])

Spec == Init /\ [][Next]_vars

-----------------------------------------------------------------------------
(* Performance of a series of values *)

(* The returns from value to value; none after a value that is not positive. *)
PeriodicReturns(v) ==
  LET from == SelectSeq([i \in 1..(Len(v) - 1) |-> i], LAMBDA i : v[i] > 0)
  IN  [k \in DOMAIN from |-> FpDiv(v[from[k] + 1] - v[from[k]], v[from[k]])]

Mean(r) == Quotient(SumFunction(r), Len(r))
RatePerPeriod == FpDiv(riskFreeRate, periodsPerYear * Scale)

(* The variance of sharpe_ratio, the downside variance of sortino_ratio.    *)
Variance(r) ==
  Quotient(SumFunction([i \in DOMAIN r |-> FpMul(r[i] - Mean(r), r[i] - Mean(r))]), Len(r) - 1)
DownsideVariance(r) ==
  LET Short(i) == Min({r[i] - RatePerPeriod, 0})
  IN  Quotient(SumFunction([i \in DOMAIN r |-> FpMul(Short(i), Short(i))]), Len(r) - 1)

Annualized(excess, deviation) ==
  FpMul(FpDiv(excess, deviation), FpSqrt(periodsPerYear * Scale))

Sharpe(r) ==
  LET deviation == FpSqrt(Variance(r))
  IN  IF deviation = 0 THEN 0 ELSE Annualized(Mean(r) - RatePerPeriod, deviation)

(* Without a loss the ratio is 0 or, None here, half of the largest i128.   *)
Sortino(r) ==
  LET deviation == FpSqrt(DownsideVariance(r))
      excess == Mean(r) - RatePerPeriod
  IN  IF deviation = 0 THEN (IF excess <= 0 THEN 0 ELSE None)
      ELSE Annualized(excess, deviation)

(* Mutant: the fall since the first value.                                  *)
FallSinceStart(v) ==
  FoldLeft(LAMBDA seen, x : IF v[1] > 0 THEN Max({seen, FpDiv(v[1] - x, v[1])}) ELSE seen,
           0, Tail(v))

(* max_drawdown: one pass, keeping the peak so far.                         *)
MaxDrawdown(v) ==
  FoldLeft(LAMBDA seen, x :
             LET peak == Max({seen.peak, x})
             IN  [peak |-> peak,
                  fall |-> IF peak > 0 THEN Max({seen.fall, FpDiv(peak - x, peak)})
                           ELSE seen.fall],
           [peak |-> v[1], fall |-> 0], Tail(v)).fall

(* time_weighted_return: None when a value before the last is 0.            *)
TimeWeightedReturn(v) ==
  IF \E i \in 1..(Len(v) - 1) : v[i] = 0 THEN None
  ELSE FoldLeft(LAMBDA product, i : FpMul(product, FpDiv(v[i + 1], v[i])),
                Scale, [i \in 1..(Len(v) - 1) |-> i]) - Scale

(* calculate_performance_metrics *)
PerformanceMetrics(f) ==
  LET v == [i \in DOMAIN valuationHistory[f] |-> valuationHistory[f][i].total_value]
      r == PeriodicReturns(v)
  IN  IF Len(v) < 2 \/ Len(r) < 2 \/ periodsPerYear = 0 \/ TimeWeightedReturn(v) = None THEN None
      ELSE [sharpe_ratio |-> Sharpe(r), sortino_ratio |-> Sortino(r),
            max_drawdown |-> MaxDrawdown(v), time_weighted_return |-> TimeWeightedReturn(v)]

-----------------------------------------------------------------------------
(* Properties *)

(***************************************************************************)
(* get_asset_allocation: of a portfolio without short positions, exactly    *)
(* the whole is allocated, and to each asset its share rounded down, or for *)
(* the last what is left and no less.                                       *)
(***************************************************************************)
AllocationsWhole ==
  \A f \in Portfolios :
    LET bps == AssetAllocation(f)
        Share(i) == (MarketValue(assets[f][i]) * 10000) \div PortfolioValue(f)
    IN  bps # None /\ (\A i \in DOMAIN assets[f] : MarketValue(assets[f][i]) >= 0) =>
          /\ SumFunction(bps) = 10000
          /\ \A i \in DOMAIN bps : bps[i] >= Share(i) /\ (i < Len(bps) => bps[i] = Share(i))

(***************************************************************************)
(* calculate_performance_metrics: of a portfolio that is never worth less   *)
(* than nothing, the drawdown is the worst fall from any value to any later *)
(* one, the chained return never overstates the return from the first to    *)
(* the last, and neither ratio has the wrong sign.                          *)
(***************************************************************************)
MetricsRight ==
  \A f \in Portfolios :
    LET m == PerformanceMetrics(f)
        v == [i \in DOMAIN valuationHistory[f] |-> valuationHistory[f][i].total_value]
        falls == {FpDiv(v[p[1]] - v[p[2]], v[p[1]]) :
                    p \in {q \in (DOMAIN v) \X (DOMAIN v) : q[1] < q[2] /\ v[q[1]] > 0}}
        excess == Mean(PeriodicReturns(v)) - RatePerPeriod
    IN  m # None /\ (\A i \in DOMAIN v : v[i] >= 0) =>
          /\ m.max_drawdown = Max(falls \cup {0})
          /\ m.time_weighted_return * v[1] <= (v[Len(v)] - v[1]) * Scale
          /\ m.sharpe_ratio * excess >= 0
          /\ m.sortino_ratio # None => m.sortino_ratio * excess >= 0

(***************************************************************************)
(* fp_sqrt, as its comment and its test have it: the deviation under the    *)
(* Sharpe ratio is the square root of the variance, to the last digit.      *)
(***************************************************************************)
DeviationIsRoot ==
  \A f \in Portfolios :
    PerformanceMetrics(f) # None =>
      LET v == [i \in DOMAIN valuationHistory[f] |-> valuationHistory[f][i].total_value]
          variance == Variance(PeriodicReturns(v))
          root == FpSqrt(variance)
      IN  /\ variance * Scale <= (root + 1) * (root + 1)
          /\ root > 0 => variance * Scale >= (root - 1) * (root - 1)
=============================================================================
