------------------------------- MODULE Markets -------------------------------
(***************************************************************************)
(* The contracts that follow or make prices, side by side on one ledger:    *)
(* the portfolios of rebalancing (whose names this module takes over), the  *)
(* order book of trade, a prediction market and the price feed.  They share *)
(* its clock and nothing else.                                              *)
(***************************************************************************)
EXTENDS Portfolio

CONSTANTS
  Admin,
  PairIds, PairConfigs, SlippageConfigs, OrderPrices, OrderAmounts, Batches,
  Outcomes, Terms, Seeds, Deposits, Stakes, TokenAmounts, Bonds, MinLiquidity, DisputePeriod,
  MaxDepth, MaxOrders, MaxVolume, MaxProvided,
  Quoted, Providers, Founding, ProviderSets, FeedConfigs, Methods, FeedPrices, Lags, Statuses,
  FeedBatches, MaxCalls

VARIABLES
  pairs, slippage, order, book, volume,
  market, pool, lpBalance, lpTotalSupply, outcomeBalance, position, tradingVolume, dispute, bids,
  resting, provided, bought, paid,
  oracles, feedConfig, feedMethod, report, cached, fallback, priceLog, tracked, calls

portfolio == <<portfolioOwner, rbac, sink, weights, schedule, executions, alerts>>
exchange == <<pairs, slippage, order, book, volume>>
predictions == <<market, pool, lpBalance, lpTotalSupply, outcomeBalance, position, tradingVolume,
                 dispute, bids, resting, provided, bought, paid>>
prices == <<oracles, feedConfig, feedMethod, report, cached, fallback, priceLog, tracked, calls>>
marketsVars == <<now, portfolio, exchange, predictions, prices>>

Exchanged == INSTANCE OrderBook WITH Prices <- OrderPrices, Amounts <- OrderAmounts
Predicted == INSTANCE Prediction WITH Amounts <- TokenAmounts
Fed == INSTANCE PriceFeed WITH
  Assets <- Quoted, Prices <- FeedPrices, Batches <- FeedBatches

ASSUME MarketsAssumption == Predicted!PredictionAssumption /\ Exchanged!OrderBookAssumption

MarketsInit == Init /\ Exchanged!Init /\ Predicted!Init /\ Fed!Init

Rebalancing == Next /\ UNCHANGED <<exchange, predictions, prices>>
Trading == Exchanged!Next /\ UNCHANGED <<now, portfolio, predictions, prices>>
Predicting == Predicted!Next /\ UNCHANGED <<portfolio, exchange, prices>>
Pricing == Fed!Next /\ UNCHANGED <<portfolio, exchange, predictions>>

MarketsNext == Rebalancing \/ Trading \/ Predicting \/ Pricing

MarketsSpec == MarketsInit /\ [][MarketsNext]_marketsVars

-----------------------------------------------------------------------------
(* Properties *)

(* Each contract keeps its types. *)
MarketsTyped == TypeOK /\ Exchanged!TypeOK /\ Predicted!TypeOK /\ Fed!TypeOK

(* What one contract keeps in two places agrees: the two copies of an order *)
(* in the book (BookSound), alerts and their statistics (AlertsAccounted).  *)
RecordsAgree == Exchanged!BookSound /\ AlertsAccounted

(* What OrderBook, Prediction and PriceFeed say of their calls. *)
FillsInOrder == Exchanged!FillsInOrder
PoolSound == Predicted!PoolSound
TradesConserve == Predicted!TradesConserve
TokensPaidOnce == Predicted!TokensPaidOnce
OutcomeStands == Predicted!OutcomeStands
AnswersNearMiddle == Fed!AnswersNearMiddle
=============================================================================
