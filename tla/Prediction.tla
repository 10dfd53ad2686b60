----------------------------- MODULE Prediction -----------------------------
(***************************************************************************)
(* One prediction market from its creation to the redemption of its tokens: *)
(* a constant-product pool with one reserve per outcome, positions, resting *)
(* orders, resolution by the oracle, disputes and settlement.  The contract *)
(* moves no tokens: collateral is what its calls take and return.           *)
(* Left out: names, categories, entry prices and profit, and match_order,   *)
(* which no call reaches.                                                   *)
(***************************************************************************)
EXTENDS Integers, Sequences, FiniteSetsExt, SequencesExt, Rounding

CONSTANTS
  People, Admin,
  Outcomes,       \* indices of the outcomes
  Terms,          \* of create_market: end, resolution, cap, fee_bps, early_close
  Seeds, Deposits,\* collateral to open a pool with and to add to it
  Stakes,         \* collateral to buy with
  Amounts,        \* tokens to sell, to redeem and to order
  Bonds,
  MinLiquidity,   \* MIN_LIQUIDITY
  DisputePeriod,  \* DISPUTE_PERIOD_SECS
  MaxDepth,       \* MAX_BOOK_DEPTH
  MaxVolume,      \* bounds the trading volume
  MaxProvided,    \* bounds the calls that add and remove liquidity
  MaxOrders,      \* bounds the orders placed
  MaxTime,        \* bounds the ledger timestamp
  None

VARIABLES
  market, pool, lpBalance, lpTotalSupply, outcomeBalance, position, tradingVolume,
  dispute,
  bids,      \* PredictionOrder, by order_id
  resting,   \* OrderBook: the ids in the list of a market
  now,
  provided,  \* the calls that added or removed liquidity, for MaxProvided
  bought,    \* the outcome tokens a user was given by the pool, in all
  paid       \* the collateral a user was paid for tokens of an outcome, in all

vars == <<market, pool, lpBalance, lpTotalSupply, outcomeBalance, position, tradingVolume,
          dispute, bids, resting, now, provided, bought, paid>>

trading == <<pool, lpBalance, lpTotalSupply, outcomeBalance, position, tradingVolume, bought, provided>>
orders == <<bids, resting>>

Tokens == [Outcomes -> Nat]
Reserves == [Outcomes -> Int]

(* A fee above the whole amount may take a reserve below zero. *)
Pool ==
  [collateral_reserve : Int, outcome_reserves : Reserves, lp_supply : Int,
   k_per_outcome : Reserves, fees_accumulated : Int]

Market ==
  [status : {"Active", "PendingResolution", "Resolved", "Disputed", "Closed", "Cancelled"},
   creator : People, terms : Terms, total_collateral : Nat,
   resolved_outcome : Outcomes \cup {None}, resolved_at : 0..MaxTime \cup {None}]

Position == [outcome_amounts : Tokens, settled : BOOLEAN]

Dispute == [claimed : Outcomes, status : {"Pending", "Accepted", "Rejected"}]

PredictionOrder ==
  [owner : People, amount : Amounts, remaining : Nat, status : {"Active", "Cancelled"}]

(* A market has outcomes, and None is neither a market nor a position.      *)
PredictionAssumption ==
  /\ IsFiniteSet(People)
  /\ Outcomes \in SUBSET Nat /\ Outcomes # {}
  /\ \A t \in Terms : t.fee_bps \in Int
  /\ Seeds \subseteq Int /\ Deposits \subseteq Int /\ Stakes \subseteq Int /\ Amounts \subseteq Int
  /\ MinLiquidity \in Nat /\ DisputePeriod \in Nat
  /\ MaxTime \in Nat \ {0} /\ MaxProvided \in Nat
  /\ None \notin Market /\ None \notin Position

TypeOK ==
  /\ market \in Market \cup {None} /\ pool \in Pool \cup {None} /\ dispute \in Dispute \cup {None}
  /\ lpBalance \in [People -> Int] /\ lpTotalSupply \in Int
  /\ outcomeBalance \in [People -> Tokens] /\ position \in [People -> Position \cup {None}]
  /\ bought \in [People -> Tokens] /\ paid \in [People -> Tokens]
  /\ bids \in Seq(PredictionOrder) /\ resting \in Seq(Nat)
  /\ tradingVolume \in Nat /\ now \in 0..MaxTime /\ provided \in 0..MaxProvided

Init ==
  LET none == [o \in Outcomes |-> 0] IN
  /\ market = None /\ pool = None /\ dispute = None
  /\ lpBalance = [u \in People |-> 0] /\ lpTotalSupply = 0
  /\ outcomeBalance = [u \in People |-> none] /\ position = [u \in People |-> None]
  /\ tradingVolume = 0 /\ provided = 0
  /\ bids = <<>> /\ resting = <<>> /\ now = 1
  /\ bought = [u \in People |-> none] /\ paid = [u \in People |-> none]

-----------------------------------------------------------------------------
(* Opening the market and its pool *)

CreateMarket(creator, t) ==
  /\ market = None
  /\ Cardinality(Outcomes) \in 2..10
  /\ now < t.end /\ t.end < t.resolution
  /\ market' = [status |-> "Active", creator |-> creator, terms |-> t, total_collateral |-> 0,
                resolved_outcome |-> None, resolved_at |-> None]
  /\ UNCHANGED <<trading, dispute, orders, now, paid>>

Is(status) == market # None /\ market.status = status
Trading == Is("Active") /\ now < market.terms.end

(* update_all_k: k is that of the reserves, and of no others. *)
WithK(p) ==
  [p EXCEPT !.k_per_outcome = [o \in Outcomes |-> p.collateral_reserve * p.outcome_reserves[o]]]

Providing == provided < MaxProvided /\ provided' = provided + 1

(* Anybody may call it, and call it again: the new pool replaces the old.   *)
CreateLiquidityPool(who, seed) ==
  /\ Is("Active") /\ seed >= MinLiquidity
  /\ Providing
  /\ pool' = WithK([collateral_reserve |-> seed, outcome_reserves |-> [o \in Outcomes |-> seed],
                    lp_supply |-> seed, k_per_outcome |-> <<>>, fees_accumulated |-> 0])
  /\ lpBalance' = [lpBalance EXCEPT ![who] = @ + seed]
  /\ lpTotalSupply' = lpTotalSupply + seed
  /\ market' = [market EXCEPT !.total_collateral = seed]
  /\ UNCHANGED <<outcomeBalance, position, tradingVolume, bought, dispute, orders, now, paid>>

(* The collateral that goes in is the deposit at the price of outcome 0.    *)
AddLiquidity(who, n) ==
  LET share(r) == Quot(r * n, Max({pool.collateral_reserve, 1}))
      first == pool.lp_supply = 0
      minted == IF first THEN n ELSE Quot(n * pool.lp_supply, pool.collateral_reserve)
      outcome0 == pool.outcome_reserves[Min(Outcomes)]
  IN
  /\ Is("Active") /\ pool # None /\ n > 0
  /\ pool.lp_supply # 0 => pool.collateral_reserve # 0
  /\ Providing
  /\ pool' = WithK([pool EXCEPT
       !.collateral_reserve = @ + (IF first THEN n ELSE share(outcome0)),
       !.outcome_reserves = [o \in Outcomes |-> @[o] + (IF first THEN n ELSE share(@[o]))],
       !.lp_supply = @ + minted])
  /\ lpBalance' = [lpBalance EXCEPT ![who] = @ + minted]
  /\ lpTotalSupply' = lpTotalSupply + minted
  /\ market' = [market EXCEPT !.total_collateral = @ + n]
  /\ UNCHANGED <<outcomeBalance, position, tradingVolume, bought, dispute, orders, now, paid>>

(* checked_sub stops at the width of i128: the balance may fall below 0.    *)
RemoveLiquidity(who, n) ==
  LET out(r) == Quot(r * n, pool.lp_supply) IN
  /\ pool # None /\ n \in 1..pool.lp_supply
  /\ Providing
  /\ pool' = WithK([pool EXCEPT
       !.collateral_reserve = @ - out(@),
       !.outcome_reserves = [o \in Outcomes |-> @[o] - out(@[o])],
       !.lp_supply = @ - n])
  /\ lpBalance' = [lpBalance EXCEPT ![who] = @ - n]
  /\ lpTotalSupply' = lpTotalSupply - n
  /\ UNCHANGED <<market, outcomeBalance, position, tradingVolume, bought, dispute, orders, now, paid>>

(* Mutant: k keeps the fees out after they have joined the reserve. *)
DistributeFeesOldK ==
  /\ pool # None /\ pool.fees_accumulated > 0
  /\ pool' = [pool EXCEPT !.collateral_reserve = @ + pool.fees_accumulated, !.fees_accumulated = 0]
  /\ UNCHANGED <<market, lpBalance, lpTotalSupply, outcomeBalance, position, tradingVolume, provided, bought,
                 dispute, orders, now, paid>>

DistributeFees ==
  /\ pool # None /\ pool.fees_accumulated > 0
  /\ pool' = WithK([pool EXCEPT !.collateral_reserve = @ + pool.fees_accumulated,
                                !.fees_accumulated = 0])
  /\ UNCHANGED <<market, lpBalance, lpTotalSupply, outcomeBalance, position, tradingVolume, provided, bought,
                 dispute, orders, now, paid>>

-----------------------------------------------------------------------------
(* Trading with the pool *)

(* create_market takes any fee_bps: below zero, and above the whole. *)
Fee(n) == Quot(n * market.terms.fee_bps, 10000)

(* buy_outcome_tokens, and record_trade of the buyer.  Of the collateral it *)
(* asks only that it can be divided by.                                     *)
BuyOutcome(u, o, n, least) ==
  LET collateral == pool.collateral_reserve + n - Fee(n)
      reserve == Quot(pool.k_per_outcome[o], collateral)
      out == pool.outcome_reserves[o] - reserve
      supply == MapThenSumSet(LAMBDA i : pool.outcome_reserves[i], Outcomes)
      held == IF position[u] = None
              THEN [outcome_amounts |-> [i \in Outcomes |-> 0], settled |-> FALSE]
              ELSE position[u]
  IN
  /\ Trading /\ pool # None /\ n > 0
  /\ market.terms.cap > 0 => supply + n <= market.terms.cap
  /\ collateral # 0 /\ out >= least /\ out > 0
  /\ tradingVolume + n <= MaxVolume
  /\ pool' = WithK([pool EXCEPT !.collateral_reserve = collateral, !.outcome_reserves[o] = reserve,
                                !.fees_accumulated = @ + Fee(n)])
  /\ outcomeBalance' = [outcomeBalance EXCEPT ![u][o] = @ + out]
  /\ position' = [position EXCEPT ![u] = [held EXCEPT !.outcome_amounts[o] = @ + out]]
  /\ tradingVolume' = tradingVolume + n
  /\ bought' = [bought EXCEPT ![u][o] = @ + out]
  /\ UNCHANGED <<market, lpBalance, lpTotalSupply, provided, dispute, orders, now, paid>>

(* Mutant: the fee stays in the reserve and is counted as a fee as well.    *)
SellOutcomeFeeKept(u, o, n, least) ==
  LET reserve == pool.outcome_reserves[o] + n
      collateral == Quot(pool.k_per_outcome[o], reserve)
      before == pool.collateral_reserve - collateral
      out == before - Fee(before)
  IN
  /\ Trading /\ pool # None /\ n > 0
  /\ outcomeBalance[u][o] >= n /\ reserve # 0 /\ out >= least /\ out > 0
  /\ tradingVolume + out <= MaxVolume
  /\ pool' = WithK([pool EXCEPT !.collateral_reserve = collateral + Fee(before),
                                !.outcome_reserves[o] = reserve,
                                !.fees_accumulated = @ + Fee(before)])
  /\ outcomeBalance' = [outcomeBalance EXCEPT ![u][o] = @ - n]
  /\ tradingVolume' = tradingVolume + out
  /\ UNCHANGED <<market, lpBalance, lpTotalSupply, position, provided, bought, dispute, orders, now, paid>>

(* The balance falls; the position, which redemption reads, does not.       *)
SellOutcome(u, o, n, least) ==
  LET reserve == pool.outcome_reserves[o] + n
      collateral == Quot(pool.k_per_outcome[o], reserve)
      before == pool.collateral_reserve - collateral
      out == before - Fee(before)
  IN
  /\ Trading /\ pool # None /\ n > 0
  /\ outcomeBalance[u][o] >= n /\ reserve # 0 /\ out >= least /\ out > 0
  /\ tradingVolume + out <= MaxVolume
  /\ pool' = WithK([pool EXCEPT !.collateral_reserve = collateral, !.outcome_reserves[o] = reserve,
                                !.fees_accumulated = @ + Fee(before)])
  /\ outcomeBalance' = [outcomeBalance EXCEPT ![u][o] = @ - n]
  /\ tradingVolume' = tradingVolume + out
  /\ UNCHANGED <<market, lpBalance, lpTotalSupply, position, provided, bought, dispute, orders, now, paid>>

-----------------------------------------------------------------------------
(* Resting orders: placed and cancelled, in the order they came *)

PlaceOrder(u, n) ==
  /\ Trading /\ n > 0
  /\ Len(resting) < MaxDepth /\ Len(bids) < MaxOrders
  /\ bids' = Append(bids, [owner |-> u, amount |-> n, remaining |-> n, status |-> "Active"])
  /\ resting' = Append(resting, Len(bids'))
  /\ UNCHANGED <<market, trading, dispute, now, paid>>

(* A market that is over keeps its orders until they are cancelled. *)
CancelOrder(caller, id) ==
  /\ id \in DOMAIN bids /\ bids[id].status = "Active"
  /\ caller \in {Admin, bids[id].owner}
  /\ bids' = [bids EXCEPT ![id].status = "Cancelled", ![id].remaining = 0]
  /\ resting' = RemoveFirst(resting, id)
  /\ UNCHANGED <<market, trading, dispute, now, paid>>

-----------------------------------------------------------------------------
(* The life of the market *)

FinalizeTrading ==
  /\ Is("Active") /\ now >= market.terms.end
  /\ market' = [market EXCEPT !.status = "PendingResolution"]
  /\ UNCHANGED <<trading, dispute, orders, now, paid>>

EarlyClose(caller) ==
  /\ Is("Active") /\ market.terms.early_close
  /\ caller \in {Admin, market.creator}
  /\ market' = [market EXCEPT !.status = "Closed", !.resolved_outcome = None, !.resolved_at = now]
  /\ UNCHANGED <<trading, dispute, orders, now, paid>>

CancelMarket ==
  /\ Is("Active") /\ market.total_collateral <= 0
  /\ market' = [market EXCEPT !.status = "Cancelled"]
  /\ UNCHANGED <<trading, dispute, orders, now, paid>>

(* Anybody may call it who names the market's oracle. *)
SubmitResolution(o) ==
  /\ Is("PendingResolution") /\ now >= market.terms.resolution
  /\ market' = [market EXCEPT !.status = "Resolved", !.resolved_outcome = o, !.resolved_at = now]
  /\ UNCHANGED <<trading, dispute, orders, now, paid>>

(* Mutant: a dispute may be filed for ever. *)
FileDisputeLate(o, bond) ==
  /\ Is("Resolved")
  /\ dispute # None => dispute.status # "Pending"
  /\ bond >= (market.total_collateral * 100) \div 10000
  /\ dispute' = [claimed |-> o, status |-> "Pending"]
  /\ market' = [market EXCEPT !.status = "Disputed"]
  /\ UNCHANGED <<trading, orders, now, paid>>

FileDispute(o, bond) ==
  /\ Is("Resolved") /\ now <= market.resolved_at + DisputePeriod
  /\ dispute # None => dispute.status # "Pending"
  /\ bond >= (market.total_collateral * 100) \div 10000
  /\ dispute' = [claimed |-> o, status |-> "Pending"]
  /\ market' = [market EXCEPT !.status = "Disputed"]
  /\ UNCHANGED <<trading, orders, now, paid>>

(* A dispute that is accepted starts the period again. *)
ResolveDispute(accepted) ==
  /\ market # None /\ dispute # None /\ dispute.status = "Pending"
  /\ dispute' = [dispute EXCEPT !.status = IF accepted THEN "Accepted" ELSE "Rejected"]
  /\ market' = [market EXCEPT
                  !.status = "Resolved",
                  !.resolved_outcome = IF accepted THEN dispute.claimed ELSE @,
                  !.resolved_at = IF accepted THEN now ELSE @]
  /\ UNCHANGED <<trading, orders, now, paid>>

(* Mutant: whoever has a position may redeem any number of tokens. *)
RedeemTokensUnheld(u, n) ==
  LET o == market.resolved_outcome
      left == [position[u].outcome_amounts EXCEPT ![o] = @ - n]
  IN
  /\ Is("Resolved") /\ n > 0
  /\ position[u] # None /\ ~position[u].settled
  /\ position' = [position EXCEPT ![u] = [outcome_amounts |-> left,
                                          settled |-> \A i \in Outcomes : left[i] = 0]]
  /\ paid' = [paid EXCEPT ![u][o] = @ + n]
  /\ UNCHANGED <<market, pool, lpBalance, lpTotalSupply, outcomeBalance, tradingVolume, provided, bought,
                 dispute, orders, now>>

(* redeem_winning_tokens *)
RedeemTokens(u, n) ==
  LET o == market.resolved_outcome
      left == [position[u].outcome_amounts EXCEPT ![o] = @ - n]
  IN
  /\ Is("Resolved") /\ n > 0
  /\ position[u] # None /\ ~position[u].settled /\ position[u].outcome_amounts[o] >= n
  /\ position' = [position EXCEPT ![u] = [outcome_amounts |-> left,
                                          settled |-> \A i \in Outcomes : left[i] = 0]]
  /\ paid' = [paid EXCEPT ![u][o] = @ + n]
  /\ UNCHANGED <<market, pool, lpBalance, lpTotalSupply, outcomeBalance, tradingVolume, provided, bought,
                 dispute, orders, now>>

(* Mutant: the tokens that are paid for stay in the position, unsettled.    *)
SettlePositionOpen(u) ==
  LET o == market.resolved_outcome IN
  /\ market # None /\ o # None
  /\ position[u] # None /\ ~position[u].settled
  /\ position' = [position EXCEPT ![u].settled = position[u].outcome_amounts[o] = 0]
  /\ paid' = [paid EXCEPT ![u][o] = @ + position[u].outcome_amounts[o]]
  /\ UNCHANGED <<market, pool, lpBalance, lpTotalSupply, outcomeBalance, tradingVolume, provided, bought,
                 dispute, orders, now>>

(* It asks for an outcome, not for the status: a disputed one is paid too.  *)
SettlePosition(u) ==
  LET o == market.resolved_outcome IN
  /\ market # None /\ o # None
  /\ position[u] # None /\ ~position[u].settled
  /\ position' = [position EXCEPT ![u].settled = TRUE, ![u].outcome_amounts[o] = 0]
  /\ paid' = [paid EXCEPT ![u][o] = @ + position[u].outcome_amounts[o]]
  /\ UNCHANGED <<market, pool, lpBalance, lpTotalSupply, outcomeBalance, tradingVolume, provided, bought,
                 dispute, orders, now>>

Tick ==
  /\ now < MaxTime
  /\ now' = now + 1
  /\ UNCHANGED <<market, trading, dispute, orders, paid>>

Trade(u) ==
  \/ \E o \in Outcomes, least \in {0} :
       \/ \E n \in Stakes : BuyOutcome(u, o, n, least)
       \/ \E n \in Amounts : SellOutcome(u, o, n, least)
  \/ \E n \in Amounts : PlaceOrder(u, n)
  \/ \E id \in 1..MaxOrders : CancelOrder(u, id)

Provide(u) ==
  \/ \E n \in Seeds : CreateLiquidityPool(u, n)
  \/ \E n \in Deposits : AddLiquidity(u, n) \/ RemoveLiquidity(u, n)

Next ==
  \/ \E u \in People :
       \/ \E t \in Terms : CreateMarket(u, t)
       \/ Trade(u) \/ Provide(u) \/ EarlyClose(u)
       \/ \E n \in Amounts : RedeemTokens(u, n)
       \/ SettlePosition(u)
  \/ DistributeFees \/ FinalizeTrading \/ CancelMarket
  \/ \E o \in Outcomes : SubmitResolution(o) \/ \E b \in Bonds : FileDispute(o, b)
  \/ \E accepted \in BOOLEAN : ResolveDispute(accepted)
  \/ Tick

Spec == Init /\ [][Next]_vars

-----------------------------------------------------------------------------
(* Properties *)

SumOver(f) == MapThenSumSet(LAMBDA u : f[u], People)

(***************************************************************************)
(* Whatever mixture of seeding, deposits, withdrawals and trades: what      *)
(* verify_invariant looks for is true of the pool, no reserve falls below   *)
(* zero unless the fee is more than the whole, the LP tokens add up to      *)
(* their total, and the orders at rest are the ones still live, each once   *)
(* and in the order they came.                                              *)
(***************************************************************************)
Solvent(p) ==
  /\ p.collateral_reserve >= 0 /\ p.lp_supply >= 0
  /\ \A o \in Outcomes : p.outcome_reserves[o] >= 0

PoolSound ==
  /\ pool # None => \A o \in Outcomes :
       pool.k_per_outcome[o] = pool.collateral_reserve * pool.outcome_reserves[o]
  /\ pool # None /\ market.terms.fee_bps <= 10000 => Solvent(pool)
  /\ SumOver(lpBalance) = lpTotalSupply
  /\ Range(resting) = {id \in DOMAIN bids : bids[id].status = "Active"}
  /\ \A i, j \in DOMAIN resting : i < j => resting[i] < resting[j]

(***************************************************************************)
(* A trade moves tokens between the pool and its user and makes none; and   *)
(* the collateral the volume counts is what the reserve and the fees        *)
(* together gain from a buyer or give to a seller, whatever is rounded off. *)
(***************************************************************************)
TradesConserve ==
  [][tradingVolume' # tradingVolume =>
       LET outside(o) == SumOver([u \in People |-> outcomeBalance[u][o]])
           collateral == pool.collateral_reserve + pool.fees_accumulated
       IN
       /\ \A o \in Outcomes :
            pool'.outcome_reserves[o] + outside(o)' = pool.outcome_reserves[o] + outside(o)
       /\ collateral' - collateral =
            (IF bought' # bought THEN 1 ELSE -1) * (tradingVolume' - tradingVolume)]_vars

(***************************************************************************)
(* However redeem_tokens and settle_position are mixed and disputes decided *)
(* between them, every token the pool sold is paid for at most once: it is  *)
(* still in a position or has been paid for.                                *)
(***************************************************************************)
TokensPaidOnce ==
  \A u \in People, o \in Outcomes :
    paid[u][o] + (IF position[u] = None THEN 0 ELSE position[u].outcome_amounts[o]) = bought[u][o]

(***************************************************************************)
(* settlement.rs: "holders of the winning outcome token can redeem their    *)
(* tokens at a 1:1 rate": nobody is paid for more tokens than they hold.    *)
(***************************************************************************)
RedeemsHeld == \A u \in People, o \in Outcomes : paid[u][o] <= outcomeBalance[u][o]

(***************************************************************************)
(* Once the period to dispute it is over and none is pending, the outcome   *)
(* of a market stands.                                                      *)
(***************************************************************************)
OutcomeStands ==
  [][Is("Resolved") /\ now > market.resolved_at + DisputePeriod => market' = market]_vars
=============================================================================
