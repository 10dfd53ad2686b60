------------------------------ MODULE MCMarkets ------------------------------
(***************************************************************************)
(* Small instances of the contracts that follow or make prices: the         *)
(* portfolio of rebalancing, the order book of trade, the prediction market *)
(* and the price feed.  They share nothing, so each behaviour exercises one *)
(* of them, chosen at the start, and the states of the run are the sum of   *)
(* theirs.  A module is instantiated more than once, on the same variables, *)
(* where its cases need bounds of different kinds.                          *)
(***************************************************************************)
EXTENDS Markets

CONSTANTS p1, p2, f1, a1, a2, a3, xlm, usd

VARIABLE service

servicesVars == <<service, marketsVars>>

-----------------------------------------------------------------------------
(* Portfolios: the schedule, the weights, the alerts.                       *)

Only(w) == a1 :> w
Split(x, y, z) == (a1 :> x) @@ (a2 :> y) @@ (a3 :> z)

MCAllocations == {Split(5000, 3000, 2000), Split(7000, 2000, 1000), Only(10000), Only(9000)}
MCReadings == {<<>>}
MCGrants == {[role |-> "Manager", permissions |-> None, expires_at |-> 0]}

Threshold(metric, asset, comparison, lower, severity) ==
  [metric |-> metric, asset |-> asset, comparison |-> comparison, trigger |-> 1000,
   lower |-> lower, upper |-> None, severity |-> severity, enabled |-> TRUE]

MCThresholds ==
  {Threshold("PortfolioDrift", "ALL", "Above", None, "Warning"),
   Threshold("AssetDrift", a2, "Equal", None, "Info")}

(* Kept and InList, on lists of up to three: they are what they are for.    *)
ASSUME KeptSelects ==
  \A n \in 0..3 : \A s \in [1..n -> 0..2], bound \in 0..2 :
    LET chosen == SelectSeq(s, LAMBDA x : x < bound)
    IN  Kept(s, LAMBDA x : x < bound) = chosen /\ InList(s, LAMBDA x : x < bound) = Len(chosen)

Scheduled == INSTANCE Portfolio WITH
  Allocations <- {Only(10000)}, Thresholds <- {}, AlertThresholds <- {}

Weighed == INSTANCE Portfolio WITH
  Intervals <- {}, AlertThresholds <- {}, MaxExecutions <- 2, MaxTime <- 1

Alerted == INSTANCE Portfolio WITH
  People <- {p1}, Allocations <- {Split(5000, 3000, 2000), Split(7000, 2000, 1000)},
  Thresholds <- {}, Intervals <- {}, MaxExecutions <- 0, MaxTime <- 2

-----------------------------------------------------------------------------
(* The order book: a batch of one leg, one whose second leg meets what the  *)
(* first left, and one that asks for more than it may get.                  *)

Leg(side, price, n, slip) ==
  [pair |-> xlm, side |-> side, price |-> price, amount |-> n, max_slippage_bps |-> slip]

MCPairConfigs == {[is_active |-> a, min_order_size |-> 1, max_order_size |-> 2] : a \in BOOLEAN}
MCSlippageConfigs == {[max_slippage_bps |-> 0, enabled |-> TRUE]}
MCBatches ==
  {<<Leg("Buy", 2, 1, None)>>, <<Leg("Buy", 1, 2, None), Leg("Sell", 1, 1, None)>>,
   <<Leg("Sell", 2, 3, 0)>>}

Traded == INSTANCE OrderBook WITH
  People <- {p2}, Prices <- OrderPrices, Amounts <- OrderAmounts, MaxOrders <- 3

-----------------------------------------------------------------------------
(* The prediction market: its whole life, its pool, its orders.             *)

(* A fee of a tenth, and one of two and a half times the whole.             *)
Charging(fee_bps) ==
  [end |-> 2, resolution |-> 3, cap |-> 0, fee_bps |-> fee_bps, early_close |-> TRUE]

MCTerms == {Charging(1000), Charging(25000)}

Settled == INSTANCE Prediction WITH
  Terms <- {Charging(1000)}, Amounts <- TokenAmounts, MaxVolume <- 1000, MaxProvided <- 1, MaxOrders <- 0

Pooled == INSTANCE Prediction WITH
  Terms <- {Charging(1000)}, Amounts <- TokenAmounts, MaxVolume <- 500, Bonds <- {},
  MaxOrders <- 0, MaxTime <- 1

Overcharged == INSTANCE Prediction WITH
  Terms <- {Charging(25000)}, Amounts <- TokenAmounts, MaxProvided <- 2, Bonds <- {},
  MaxOrders <- 0, MaxTime <- 1

Ordered == INSTANCE Prediction WITH
  Terms <- {Charging(1000)}, Amounts <- TokenAmounts, Seeds <- {}, Deposits <- {}, Stakes <- {}, Bonds <- {}, MaxTime <- 2

-----------------------------------------------------------------------------
(* The price feed: three providers, a short memory and a strict middle, or  *)
(* a longer life and a loose one.  A batch reports three prices of now; one *)
(* more call may report one before or ahead of its time and flagged.        *)
Feed(deviation, ttl, entries) ==
  [max_deviation_bps |-> deviation, default_ttl_seconds |-> ttl, max_history_entries |-> entries]

MCFounding == [o \in 1..3 |-> [trust_weight |-> o, is_active |-> TRUE, max_staleness |-> 2]]
MCProviderSets == {[trust_weight |-> 0, is_active |-> FALSE, max_staleness |-> 1]}
MCFeedConfigs == <<Feed(5000, 1, 1), Feed(10000, 2, 0)>>

MCFeedPrices == {-3, 9}
MCLags == {-1, 1}
MCFeedBatches == [1..3 -> {[price |-> p, lag |-> 0, status |-> "Fresh"] : p \in {0, 4, 9}}]

Priced == INSTANCE PriceFeed WITH
  Assets <- Quoted, Prices <- FeedPrices, Batches <- FeedBatches, MaxTime <- 3

-----------------------------------------------------------------------------
ServicesInit ==
  /\ service \in {"schedules", "weights", "alerts", "trade", "settlement", "liquidity", "charges",
                  "orders", "prices"}
  /\ MarketsInit

ServicesNext ==
  /\ \/ /\ \/ service = "schedules" /\ Scheduled!Step
           \/ service = "weights" /\ Weighed!Step
           \/ service = "alerts" /\ Alerted!Step
        /\ UNCHANGED <<exchange, predictions, prices>>
     \/ /\ service = "trade" /\ Traded!Next
        /\ UNCHANGED <<now, portfolio, predictions, prices>>
     \/ /\ \/ service = "settlement" /\ Settled!Next
           \/ service = "liquidity" /\ Pooled!Next
           \/ service = "charges" /\ Overcharged!Next
           \/ service = "orders" /\ Ordered!Next
        /\ UNCHANGED <<portfolio, exchange, prices>>
     \/ /\ service = "prices" /\ Priced!Next
        /\ UNCHANGED <<portfolio, exchange, predictions>>
  /\ UNCHANGED service

ServicesSpec == ServicesInit /\ [][ServicesNext]_servicesVars

RedeemsHeld == Predicted!RedeemsHeld
=============================================================================
