# Astraport contracts: formal models

TLA+ models of the Astraport smart contracts (Rust, Soroban), the TLC runs
that check them on small instances, and TLAPS proofs of what matters most for
every instance. Paths below are relative to the repository; line numbers are
those of the commit the models were read from.

## 1. The system

The repository holds fifteen contracts, each its own crate under `contracts/`.
A contract keeps its state in ledger storage and is driven by calls. **A call
is atomic**: it runs alone, and an error return or a trap undoes all its
writes, including those of the contracts it called. Nothing runs in the
background; time is the ledger timestamp, which moves between calls. So the
hard behaviour is not in threads but in *sequences*: calls of many parties in
an order nobody planned for, state checked in one call and used in a later
one, periods and cooldowns that end between two calls, counters kept by
increments, and pools that several claims draw on.

| Component | State | Operations | What makes it correct |
|---|---|---|---|
| **payments** | admin, token per asset, balances, caps, escrows; the tokens held in the token contracts | deposit, withdraw, transfer, create/release/refund escrow, caps, token registration, admin rotation | tokens held cover balances and escrows; an escrow pays once; caps bound what an account spends |
| **governance: proposals** | configuration, voting power and its total, proposals, vote records, delegations, timelock entries, pause flag, reward claims | deposit/withdraw power, delegate, submit, vote, vote for a delegator, finalize, queue, execute, emergency execute, cancel, claim rewards | one vote per holder; tallies are those of the votes; decided once, after voting; executed only after the delay; the total power is the sum |
| **governance: treasury** | balance per asset, signers, requests with approvals | deposit, request, approve, execute, signers | enough distinct approvers; paid once; never overdrawn |
| **staking: stakes** | balance and position per (staker, asset), totals and counters, emergency configuration, cooldowns and history | stake, unstake, emergency unstake, lock positions, configuration | totals agree with balances; a lock can only be left early at the penalty; cooldowns separate emergencies |
| **staking: yield** | yield records, history, distribution schedules, reserve, pause | open, accrue, set rate, claim in full / in part / in batches, schedule, process, fund, withdraw reserve | no order of calls creates or loses yield; the reserve pays exactly what it loses; each date paid once |
| staking: alerts, APY, projections; multi-asset (not modelled) | read-only views and derived records; the multi-asset module is reachable from no entry point | – | arithmetic |
| **versioning** | versions, upgrade proposals, approvals, feature flags | propose, approve, execute, reject, rollback, freeze | one active version; threshold honoured |
| **audit** | entries, chain head, sequence counters, retention policy | log, verify, recompute, prune | the stored head is that of the retained entries |
| **events: deliveries** | subscriptions with filters and modes, delivery records, batches, metrics | subscribe, dispatch, deliver, fail, acknowledge, flush | every matched event is delivered at least once and acknowledged only then |
| **events: analyses** | triggers, analyses, recommendations, metrics | emit, report, time out, accept, reject | every number names one thing; the counters are those of the records |
| **emergency** | pause, breaker, safe mode, rate limits, incidents | pause, trip, reset, check limits | limits per window; the modes block what they say |
| **trade** | pairs, orders, the two sides of a book, volumes | place, cancel, atomic batch | book and order records agree; a batch fills best price first, or is undone |
| **prediction** | market, pool, LP tokens, positions, orders, resolution, dispute | trade, provide liquidity, resolve, dispute, settle, redeem | tokens and collateral are conserved; the outcome stands; winning tokens are paid once |
| **pricefeed** | providers, reports, cache, fallback, history | register, report, get a price | a price comes from fresh reports near their middle |
| **rebalancing** | target, holdings, schedule, executions, alerts, roles | set, rebalance, schedule, alert, grant | scheduled rebalances keep their distance |
| **asset** | entries per symbol, the list per portfolio, prices | add, update, remove, price | the two copies agree |
| **fee** | structures, waivers, history, running totals | quote, collect, waive, distribute | the fee is the one quoted; totals agree with the history |
| **gamification** | statistics, scores, badges, challenges, pool | play, issue, progress, distribute | a reward is earned, once, and covered by the pool |
| **valuation** | positions, snapshots, history | set, snapshot, allocate, measure | the figures are those of their definitions |

**Interaction.** The contracts are loosely coupled. payments calls token
contracts; governance, staking, trade and emergency may report to an audit
contract (`log_audit_if_configured`), whose answer changes nothing in the
caller; the treasury and the proposals share one contract, its configuration
and its admin; the yield engine and the stakes share one contract but no
state — `stake` and `unstake` never touch a yield record, although
`engine.rs:91` describes them as adjusting its principal.

The hazards of the code, each at its line and with the properties aimed at
it, are listed in `PROJECT.json`.

## 2. Modules

| Module | Stands for | 
|---|---|
| `Payments` | `payments/src/lib.rs`, `records.rs` |
| `Governance` | `governance/src/lib.rs`, `timelock.rs` and the proposal half of `records.rs` |
| `ProposalLifecycle` | the abstract specification `Governance` is shown to implement |
| `Treasury` | `governance/src/treasury.rs` and its wrappers |
| `Staking` | the stake half of `staking/src/lib.rs`, and `emergency.rs` |
| `Yield` | `staking/src/engine.rs` and its wrappers |
| `Versioning` | `versioning/src/lib.rs`, `migration.rs` |
| `Audit` | `audit/src/lib.rs`, `checksum.rs` |
| `Emergency` | `emergency/src/lib.rs` |
| `Delivery` | the subscription half of `events/src/lib.rs`, `subscriptions.rs` |
| `Outbox` | the abstract specification `Delivery` is shown to implement |
| `Analysis` | the analysis half of `events/src/lib.rs` |
| `OrderBook` | `trade/src/lib.rs`, `orderbook.rs`, `engine.rs`, `slippage.rs` |
| `Prediction` | `prediction/src/lib.rs`, `cpmm.rs`, `orderbook.rs`, `oracle.rs`, `settlement.rs` |
| `PriceFeed` | `pricefeed/src/lib.rs`, `validation.rs`, `aggregation.rs`, `oracle.rs` |
| `Portfolio` | `rebalancing/src/lib.rs`, `drift_engine.rs`, `rbac.rs`, `alerts.rs`, `multi_asset_rebalancer.rs` |
| `Assets` | `asset/src/lib.rs` |
| `Fees` | `fee/src/lib.rs`, `engine.rs`, `reporting.rs` |
| `Gamification` | `gamification/src/lib.rs` |
| `Valuation` | `valuation/src/lib.rs`, `performance.rs` |
| `Totals` | sums over functions; no code |
| `Rounding` | division towards zero, of numbers of either sign; no code of its own |
| `Lists` | selecting from a sequence and counting in it, by sets of indices; no code |
| `ListOps` | the operators of `SequencesExt` that the contracts of `Services` need; no code |
| `Oversight` | treasury, versions, audit log and emergency controls side by side |
| `Watch` | `Emergency` with two history variables |
| `Services` | `Oversight` with analyses, assets, fees, gamification and valuation beside it |
| `StakingContract` | the staking contract: `Staking` and `Yield` side by side |
| `Markets` | portfolios, order book, prediction market and price feed side by side |
| `Promises` | proposals and deliveries side by side: the two contracts with an abstract specification |
| `MC*` | instances for TLC; `MCProgress`, `MCStaking`, `MCServices` and `MCMarkets` exercise several components (see below), `MCStakingPace` and `MCYield` add a history variable each |
| `TotalsProofs` | lemmas on sums, on lists without repetitions, on bounds of finite sets, and on counting up |
| `PaymentsProofs`, `GovernanceProofs`, `OrderBookProofs` | the theorems of the module each is named for |
| `ServicesProofs` | theorems of `Treasury`, `Versioning`, `Audit` and `Watch`, lifted to `Oversight`, then of `Analysis`, `Assets`, `Fees`, `Gamification` and `Valuation`, all lifted to `Services` |
| `StakingProofs` | theorems of `Yield` and of `Staking`, and both lifted to `StakingContract` |
| `MarketsProofs` | theorems of `Portfolio`, of `Prediction` and of `OrderBook`, lifted to `Markets` |
| `DeliveryProofs` | theorems of `Promises` about its deliveries |

**How code becomes an action.** One entry point is one action. Its guard is
the conjunction of the checks that the call must pass, its effect all the
writes it makes; failed calls change nothing and are left out, and so are
events, getters and the audit trail, which no contract code reads back.
Authorization (`require_auth`) is the choice of the caller: an action is
parameterised by the address that signs. Where a call only takes the signature
of the address it is told is the admin (`add_signer`, `remove_signer`, the
reserve and pause calls of staking), the model lets the call be made and keeps
no admin.
Storage keys are variables, an absent key reads as its default or as `None`.
i128 and u64 limits are constants (`MaxAmount`, `MaxPower`, `MaxBalance`, ...)
and the guards are where the code checks or traps on overflow.

* **Payments.** `wallet` is the outside world: what each address holds in each
  token contract. `TokenTransfer` is the token contract's transfer, which traps
  when the sender is short; it is a conjunct of the calls that make it, so that
  a failed transfer undoes the call. `SendToContract` is a transfer made
  without calling the contract. A cap is an amount, absent (`NoCap`), or the
  Void that the setters store for 0 (`VoidCap`) and on which the readers trap.
* **Governance.** `CastVote` and `CastDelegatedVote` share `RecordVote`, for
  both key the record by the token holder. `EarlyCalls` says whether calls that
  do not check initialization may come before it: the constant is TRUE in the
  run about that question only. `finalize_proposal` multiplies the total power and
  the votes by a threshold and errs where a product does not fit an i128:
  `Countable` says when both do, with `MaxInt` for the limit, and
  `FinalizeProposal` is disabled where they do not.
* **Treasury.** Requests are a sequence in the order of their ids. Both
  configuration fields change under it.
* **Staking.** Timestamps are ticks and the fixed-point scale a parameter;
  `MulDiv` rounds towards zero as the code does. The exponential penalty curve
  is left out (`decay` is `Linear` or `Custom`). The number of tranches of a
  graduated schedule is cut to 32 bits as in the code (`TrancheRange`).
* **Yield.** `Earned` is a constant operator for `compute_yield`: the model
  asks of it only that no time yields nothing. The instances give it daily
  compounding. History and distribution lists are kept as the sums of their
  amounts, which is what the properties are about. A history entry is written
  inside `accrue_to`, the record by its callers; the model keeps the two apart.
  `offered` remembers the distributions as they were set up, which the code
  overwrites as it pays them: what a date may pay is said in terms of it.
* **Versioning.** Versions and proposals are sequences in the order of their
  numbers. A migration is atomic with the call that executes it, so that
  `Activate` is one change of two statuses and the pointer; of its steps the
  code asks only whether there are any. Nothing is initialized twice and nothing
  works before `initialize`, so `Init` is the state it leaves.
* **Audit.** SHA-256 is taken to be injective: a chain hash is the sequence of
  payloads hashed into it. `Older`, `AgeFloor` and `CountFloor` give the loops
  of `prune_old` in closed form.
* **Emergency.** The three modes and their thresholds, and rate counters as the
  code stores them, with a window reset only by a call that is then counted
  (`Window` gives the counter such a call finds). `validate_operation` is the
  predicate `ValidateOperation`: it changes nothing but the incident log. `Watch`
  adds what a property about the past needs: `granted`, the calls a limit let
  through at each moment, and `owed`, what the admin has not done since a trip.

* **Delivery.** Events are numbered by a count of their own, for ids are only
  compared. A record is found by subscriber and event, the first in the list,
  as the code does. A batch is a list of events that triggers a flush; the
  records live beside it. `Sending` is what one delivery makes of the records
  that are due; `Dispatched` is the loop over the subscriptions, which may flush,
  and so deliver, between two of them. Severity, event type and one numeric condition stand
  for the filters.
* **Analysis.** One counter numbers analyses, recommendations and events.
  Whoever reports a result is not authenticated and may report again.
* **OrderBook.** Each side holds copies of the orders, which the matching
  updates along with the stored ones. A batch is one action, `ExecuteBatch`:
  `Match` over one leg after another, enabled only if none fails. The fees of a
  leg are charged to no account and left out.
* **Prediction.** One market. `provided`, `bought` and `paid` are history
  variables. The pool's arithmetic is the code's, rounding included: the
  reserves are numbers, and `k_per_outcome` is stored and rewritten where the
  code does; `create_market` takes any rate of fee, so the model does: of a
  negative one the fee is negative, and above 10000 it is more than what is
  paid, a purchase goes through all the same and may leave reserves below zero.
  `Quot` rounds all of it towards zero. An order is cancelled at its first place
  in the list.
* **PriceFeed.** `GetPrice` and `BatchGetPrices` write the cache and the log, so
  they are actions, aggregation included; `ValidatePrices` is the filter by age
  and by distance from the median, `Resolved` the order cache, reports, fallback.
  A report is whatever is sent (`Point`): a price of either sign, a time past or to
  come, a status of the provider's choice, one by one or in a batch.
* **Portfolio.** Weights in basis points; drift is computed as the engine does.
  A threshold names a metric, a comparison and its limits. A call on a schedule
  that is refused (`err_none`, `err_exist`, `err_val`) returns a symbol and no
  error, after the caller has been stored as the owner of a portfolio that had
  none: `ScheduleRefused`. `Step` is every call but those on roles, which nobody
  can make (section 6), `Next` adds them.
* **Lists.** Loops that filter or count are written with sets of indices: `Kth`
  is the k-th of them, `Kept` what a filter keeps, `InList` how many it would
  keep. Written without recursion they can be proved about; `MCMarkets` compares
  them with `SelectSeq` (`KeptSelects`), and `MCServices` compares `ListOps` with
  `SequencesExt` (`OpsAgree`), on all short lists over three values. `ListOps` is
  there because every `INSTANCE` of a contract repeats what its modules extend,
  and the prover carries that along in every step.
* **Assets, Fees, Gamification, Valuation.** Records as the code stores them,
  in the order it stores them, with what is computed from them (summaries,
  quotes, reports, leaderboards, ratios) as operators, in exact integers.

**Several components.** The contracts share nothing but the ledger clock, and
no property relates two of them. `Oversight`, `Services`, `StakingContract`,
`Markets` and `Promises` put some of them side by side: a step is a step of one,
while the variables of the others stand still, but for the time where two share
it (`day` of fees and challenges in `Services`). A composite takes over the names of one of
its parts and instantiates the others (`Versioned`, `Audited`, `Guarded`;
`Advised`, `Registered`, `Charged`, `Rewarded`, `Valued`; `Yields`;
`Exchanged`, `Predicted`, `Fed`; `Delivered`), states their properties
under its own names, and is what both the runs and the theorems are about.

In a run the component a behaviour exercises (`service`, `subject`) is chosen in
the initial state, so that the states of the run are the sum of theirs and not
the product: `MCServices` extends `Services` and gives each contract its turn,
`MCMarkets` extends `Markets`, `MCStaking` extends `StakingContract`,
`MCProgress` extends `Promises`. A module is instantiated more than once where
two questions about it need different bounds: `Settled`, `Pooled`, `Ordered` and
`Overcharged` and `Priced` beside `Predicted` and `Fed`, `Scheduled`, `Weighed` and `Alerted` of
`Portfolio`, `Traded` of `OrderBook`, `Ranked` of `Gamification` beside `Rewarded`,
`AdvisedAlone` and `Listened` of `Analysis` beside `Advised`, `Published` of `Delivery`.

Definitions named `...Unchecked`, `...Again`, `...Early` and the like, each
marked as a mutant, are slips a programmer might make. No action uses them;
putting one in the place of the definition it precedes makes TLC report the
property listed with it in `PROJECT.json`.

## 3. Runs

`tlc -config <run>.cfg <module>`; the module is in `PROJECT.json`.
`MCServices`, `MCMarkets`, `MCMarketsSold` and `MCDeviation` do not check for
deadlock: some of their components stop at the bounds of the model. The others do.

### Runs that pass

| Run | Properties | Instance |
|---|---|---|
| `MCPayments` | `TypeOK`, `CustodyConserved`, `PayoutsAccounted`, `SpendingBounded` | 2 users, the contract itself and an admin, 1 asset the admin may move between 2 tokens, amounts to 2, caps 0 and 1, 2 escrows |
| `MCGovernance` | `TypeOK`, `PowerAccounted`, `VotesAccounted`, `PassedByMajority` | 2 holders with power to 2 each, 1 proposal, time to 3 |
| `MCProgress` | `TimelockInStep`, `MetricsTrue`, `KeepsPromise`, `EventuallyDecided`, `KeepsOutbox` | proposals: 1 holder with power to 2, 1 proposal, 2 configurations, time to 5, and a limit (`MaxInt`) that a count over a total of 2 exceeds under one of them; deliveries: 1 subscriber, 2 subscriptions, 2 events, immediate and in batches of 2, 1 failure each |
| `MCStaking` | `StakesTyped`, `TotalsAgree`, `CooldownKept`, `YieldAccounted`, `EarlyExitPenalized`, `YieldConserved` | stakes: 2 stakers in 2 assets, amounts to 2, all schedule kinds, 2 emergency configurations, time to 3; yield: 2 stakers, 1 asset, a one-off and a recurring distribution, reserve to 2, 2 days |
| `MCServices` | `OversightTyped`, `RecordsAgree`, `ChainIntact`, `RateHeld`, `StaysHalted`, `RanksRight`, `FiguresRight`, `MultisigHonoured`, `Sanctioned`, `PruneExact`, `QuoteHonoured`, `RewardsEarned` | treasury: 2 people, 2 requests, 2 settings; versioning: 2 people, 2 versions, 3 proposals; audit: 4 entries, 3 policies; emergency: 2 people, 1 operation, 4 limits, time to 3; analysis: 2 triggers, 3 numbers; assets: 2 symbols; fees: a share and tiers, waivers that expire; gamification: everything that pays for one user, the board for two; valuation: 2 assets, 3 snapshots |
| `MCMarkets` | `MarketsTyped`, `SchedulePaced`, `RecordsAgree`, `PoolSound`, `TokensPaidOnce`, `FillsInOrder`, `TradesConserve`, `OutcomeStands`, `AnswersNearMiddle` | portfolio: 2 people, 2 intervals, 3 executions, time to 5, 3 assets, 2 thresholds; trade: 1 pair, 3 orders at 2 prices, batches of 1 and 2 legs; prediction: 2 people, 2 outcomes, from creation to redemption with a dispute, 3 liquidity calls, 2 orders, fees of 10% and of 250%; pricefeed: 3 providers, batches of prices 0, 4 and 9, single ones of -3 and 9 that are late or ahead of their time and flagged, 2 calls, time to 3 |

What the properties say:

* `CustodyConserved`: the tokens held cover balances and active escrows *in
  total*, assets re-registered or not.
* `PayoutsAccounted`: tokens leave only against a claim struck out in the same
  step, and an escrow settles once, to the right party, from the contract's
  tokens. `SpendingBounded`: no call takes more than a cap from an account,
  whatever the entry point, and only `set_token` takes cover from a token.
* `PowerAccounted`, `VotesAccounted`: totals, tallies and rewards kept by
  increments agree with the records they summarise, though power and
  delegations move on. `PassedByMajority`: rounding never lets a tie through.
* `KeepsPromise`: refinement. The stage of a proposal, its ballots, and which
  periods have ended map the contract to `ProposalLifecycle`, where a ballot is
  taken once per holder while voting is open, the decision falls once after it
  has closed, and execution follows the timelock or the override of admin and
  guardian. `TimelockInStep` keeps the two records of a queued proposal
  together; `KeepsPromise` also holds execution to the configured delays.
* `EventuallyDecided`: liveness, unless the count overflows; see section 5.
* `KeepsOutbox`: refinement, with liveness. However deliveries fail, are put
  off, batched, paused and acknowledged, each event is sent to each subscription
  it matched when it was dispatched, and acknowledged only then (`Outbox`). A full
  batch is dropped with records that are not due yet; they go out with the next
  `deliver_pending`. `MetricsTrue`: its counters are those of its records.
* `MultisigHonoured`, `Sanctioned`: distinct approvals, one payment per request,
  no other outflow; a version goes live by a pending proposal with enough
  different approvers, or by a rollback to one that was live, and a frozen or
  rolled-back one never again.
* `TotalsAgree`, `StakesTyped`: the running totals and the two records of a pair
  agree with the balances.
* `CooldownKept`: recorded emergencies are apart. `EarlyExitPenalized`: leaving
  a cliff early is an emergency withdrawal of that amount at a rate no later
  moment would exceed.
* `YieldConserved`: paid plus claimable is changed by time alone, and what a
  paying call takes from the reserve is what it pays. `YieldAccounted`: no date
  of a schedule is paid twice or early, and until a reserve exists the history
  adds up to what was earned.
* `OversightTyped`: the types of the four contracts, among them that no treasury
  asset is overdrawn by requests that compete for it, and that pointer, statuses
  and frozen list of the versions agree.
* `RecordsAgree` (`MCServices`): entry and list of an asset; analyses,
  recommendations and their counters; fee history, running totals and reports.
  (`MCMarkets`): the two copies of an order in the book, alerts and their
  statistics.
* `ChainIntact`: whatever was logged and pruned, the stored head verifies against
  the retained entries. `PruneExact`: what is kept is the longest run of newest
  entries the policy allows, when two limits cut one after the other.
* `RateHeld`: since a limit was set, no window allows more than the limit and no
  period of that length, wherever it starts, more than twice the limit. (Twice
  is reached: windows are anchored at the first call, and two may meet.)
  `StaysHalted`: a trip turns unsafe operations down until the admin has both
  reset and unpaused, in either order, whatever happens in between.
* `QuoteHonoured`: the fee collected is the one quoted, to a caller with no
  waiver of its own. `RewardsEarned`: nobody is paid more than left the pool in
  the same call, nor twice for one badge or challenge. (A tier reward may be
  taken again; the property lets it.) `RanksRight`, `FiguresRight`: leaderboard,
  allocation, drawdown, chained return and ratios against reference definitions.
* `FillsInOrder`: over all legs of a batch an order gives something only if every
  better or older one of its side is filled, and the volume counted is what was
  given. A batch that fails leaves nothing.
* `TradesConserve`, `PoolSound`: a trade makes no outcome tokens, the pool and
  its fees gain what the buyer pays, rounding included; the stored products are
  those of the reserves after any call, and no reserve is below zero unless the
  market charges more than the whole. `TokensPaidOnce`: what a user bought is
  in the position or has been paid, by whichever of two calls. `OutcomeStands`:
  once nothing can be disputed any more, no call changes the market.
* `AnswersNearMiddle`: a price aggregated by any method lies within the allowed
  deviation of a middle of the fresh reports of active providers, as long as most
  of them are of a positive price and none of these providers has a weight of zero,
  whatever the others send. Without either premise it is false of the code
  (see below).
* `SchedulePaced`: two scheduled rebalances are an interval apart, however the
  schedule was updated, cancelled, set anew or executed late.

### Runs that show a disagreement

Each checks one statement the repository makes in a doc, comment or test, and
TLC shows the code breaking it. The quotes are in `PROJECT.json`.

| Run | Statement | What happens |
|---|---|---|
| `MCPaymentsZeroCap` | cap 0 disables a cap | the stored Void makes every later capped call trap |
| `MCGovernanceEarly` | the total is that of all holders | initialize zeroes it over earlier deposits |
| `MCStakingPace` | one tranche unlocks 25% | each call unlocks 25% of the remainder |
| `MCYieldHistory` | an entry covers the time since the one before | a claim capped at 0 logs without storing |
| `MCMarketsSold` | holders redeem their winning tokens 1:1 | tokens sold to the pool stay in the position that is redeemed |
| `MCDeviation` | `fp_sqrt` returns the square root | for arguments below 4 it returns half of them |

Other statements the code does not keep need no run: the models show them by
the absence of a guard.

* `payments/src/lib.rs:10`, internal balances mirror tokens held: after
  `set_token` they are owed in a token that may not be held.
* `payments/src/lib.rs:18`, caps bound escrow release: settlement reads no cap.
* `governance/src/lib.rs:1378`, the pause prevents proposals and votes: no call
  but pause and unpause reads it.
* `governance/src/lib.rs:1507`, emergency execution from Passed, Timelock or
  Voting: a Defeated proposal can be executed too.
* `governance/src/records.rs:225`, the limit caps a withdrawal: it caps the
  request, at the balance of that moment.
* `staking/src/records.rs:286`, a Withdrawn position is closed: staking again
  revives it without changing its state.
* `staking/src/emergency.rs:153`, the rate is clamped to 0..10000: a negative
  start rate is not, at elapsed 0.
* `versioning/src/lib.rs:582`, a rollback goes to the version immediately before:
  any Superseded version is accepted.
* `versioning/src/lib.rs:231`, the threshold is at most the signers and the
  admin: `remove_signer` may leave it above. A removed signer's approvals count.
* `audit/src/lib.rs:296`, the head is the most recent entry's hash, and `:433`:
  after a pruning it is neither that nor the lowest entry's, but that of a new
  chain over the entries kept, whose stored hashes stay those of the old one.
* `audit/src/records.rs:192`, the count of entries retained: pruning does not
  lower it.
* `pricefeed/src/validation.rs:225`, the cache serves up to twice the TTL as a
  grace period: a price resolved from the cache may be cached again, so that the
  period starts over. With nothing but stale reports `get_price_with_method`
  caches a price of zero and never tries the fallback; weights that are all zero
  make a price of zero too. `batch_submit_prices` asks neither whether the
  provider is registered nor whether it is active.
* `pricefeed/src/validation.rs:139`, a price far from the median is anomalous: where
  the median is zero or less, none is, and any price may be answered. A price
  dated in the future counts as fresh (`:46`), until long after that date.
* `rebalancing/src/rbac.rs`, an owner grants roles: `assign_role` looks for the
  right to do so in stored assignments only, and there is none to begin with
  (theorem `NobodyHoldsARole`).
* `prediction/src/settlement.rs`: `settle_position` does not ask for the status
  of the market and pays during a dispute. `create_liquidity_pool` may be called
  again, by anybody, and replaces the pool. `create_market` (`lib.rs:83`) bounds
  no rate of fee; with one above the whole a purchase succeeds that takes from
  the reserve. `remove_liquidity` may leave an LP balance negative.
* `fee/src/engine.rs:100`, a fee lies between 0 and its base: of a negative base
  the fee is the base; `collect_fee` charges by
  the structure the caller names, not the portfolio's.
* `gamification/src/lib.rs:493`: two of the badges issued automatically
  (`TRD_100`, `ROI_100`) are defined without the underscore (`:577`, `:601`), so
  that no reward is found for them; `distribute_tier_reward` may be repeated, by
  anybody.
* `valuation/src/lib.rs`: with a short position the allocation does not add up
  to the whole.
* `staking/src/lib.rs:718`, no lock pays the minimum penalty: it pays the start
  rate.

## 4. Bounds, and why they are enough

Amounts of 2 or 3 units let an account be split, emptied and overdrawn and let
a maximum be hit from below; two owners of each kind give every pairwise
interference; two escrows or requests let one be settled while
another is open. Time bounds are longer than the longest period plus one, so
that every period is seen open, at its boundary and over. Two configurations
let the value checked differ from the value used later. In governance the
weights 1 and 2 with thresholds of 50% produce ties, majorities and rounding.
In `MCProgress` `MaxInt` is 15000: a total of 2 at a quorum of 100% does not fit,
one of 1 does, so that a count fails, and succeeds after power is withdrawn or the
configuration changed. `TrancheRange` is 1000, since TLC's integers have 32 bits
themselves; no run gets there.
A third configuration or owner would add states, not kinds of step, to these
properties; that the custody results do not depend on the bounds is proved.

In `MCServices` two versions already alternate in every way (a third adds
longer orders of the same steps), four entries let a policy cut twice with
entries left over, and windows of 1 and 2 ticks close and reopen in time 3.
`EarlyCalls` of `Audit` is FALSE there: an entry logged before `initialize`
loses its number to the next one, while the head goes on, and the recomputation
fails, as `MCGovernanceEarly` shows of the same pattern.

In `MCMarkets` a book of three orders at two prices has a better, an equal and a
worse one; the legs of one batch meet what the legs before left. The market's
seed of 1000 with trades of 300 and 500 makes every division round, and a fee of 250%
takes the reserves below zero with a purchase once half of the pool is withdrawn; its market
already trades when the run starts, at time 1. Three
providers with prices of 0, 4 and 9 in one batch make a strict middle, ties and a
median of zero; one more call sends -3 or 9, late or ahead of its time and marked as
anomalous; the interval of a
schedule is changed from 1 to 2 and back within time 5. In `MCProgress` two
subscriptions with one filter share a subscriber, which is where the records of
two deliveries are only told apart by their order.

Two runs constrain the state space (`KeptSmall`) instead of the constants. In
`MCStaking` a staker alone meets every feature; in both assets at once, one of
the positions has no schedule, and no lock position is kept and time ends at 2.
Where two stakers take part, time ends at 1, without lock positions and
graduated schedules, and one of them has had at most one emergency, the other
none. The yield side ends at 2 and has one record only where there are
distributions. The theorems of section 6 cover what is left out here. In
`MCGovernance` the last tick is followed only for a proposal that was queued.

Symmetry is used for users, tokens, holders, stakers and assets, which the
instances treat alike, and never in the run with liveness and refinement.
Model-only bounds are that the votes for one proposal are together at most
`MaxInt`, `MaxEscrows`, `MaxProposals`, `MaxRequests` (u64 counters),
`MaxEmergencies`, `MaxSchedules`, `MaxLogged`, `MaxVersions`, `MaxUpgrades`,
`MaxSeq`, `MaxSubs`, `MaxEvents`, `MaxChanges`, `MaxAttempts`, `MaxId`,
`MaxListeners`, `MaxReports`, `MaxOrders`, `MaxVolume`, `MaxProvided`,
`MaxCalls`, `MaxExecutions`, `MaxAlerts`, `MaxTotal`, `MaxWaivers`,
`MaxSnapshots`, those of `Gamification` (lists and counters the code does not
bound) and `MaxTime`. Where a run stops at them the configuration turns the
check for deadlock off.

## 5. Fairness

Only `MCProgress` assumes any (`ProgressSpec`, the `FairSpec` of `Governance`
and of `Delivery`). `finalize_proposal`, `queue_timelock` and `execute_proposal`
need nobody's permission, so that any interested party can make them: `FairSpec`
assumes that each, for each proposal, is not left enabled for ever, and that
ledgers close (`Tick`). Nothing is assumed of voters, the admin or the guardian.
`EventuallyDecided` says what the code gives: a voting proposal whose period
ends leaves voting, unless the products of its count overflow (`Stuck`):
`deposit_voting_power` moves no token, so that a holder can raise the total
until `finalize_proposal` returns an error, and the proposal then stays in
voting until power is withdrawn, the thresholds are set anew or it is cancelled.
A passed one leaves that state unless its configured delay is 0
(`queue_timelock` then refuses it, and no other ordinary path exists), a queued
one executes.

`deliver_pending` takes no authorization: a keeper can call it for any
subscriber. `FairSpec` of `Delivery` assumes that it is not left uncalled for
ever where it would deliver something, and that time passes. The backoff is bounded
by `RetryMax` as in the code. Failures are not: `mark_delivery_failed` may be called
without end, and each call puts a record off again, so that `MaxAttempts` is a
bound of the model. The liveness half of `KeepsOutbox` therefore says that a record
is sent once failures end: it is put off, and never given up.

## 6. Proofs

Each theorem holds for every value of the constants that the assumption of its
module allows: `PaymentsAssumption`, `GovernanceAssumption`,
`StakingAssumption`, `YieldAssumption`, `OversightAssumption` (which is
`TreasuryAssumption` with those of `Versioning`, `Audit` and `Emergency`),
`ServicesAssumption` (those of `Analysis`, `Assets`, `Fees`, `Gamification` and
`Valuation`), `MarketsAssumption` (those of `Prediction` and `OrderBook`),
`IntervalsAssumption` and `DeliveryAssumption`. They ask for finite sets of
parties and assets of any size, any limits, numbers where the code has numbers
(negative ones too where it does not look), that `None` is none of the values it
stands beside, that each delay of the backoff is positive, as every one the code
computes is, and that a page of the leaderboard (100 in the code) holds no more
than the 500 `get_user_rank` asks for. TLC evaluates them in the runs. The last
column names what is shown to be kept by every step. The `Spec` of a component
is the one of its module; where several are composed, the theorem about the
composite is deduced from the component's by showing that the composite's steps
are its steps.

| Theorem | States | Inductive invariant |
|---|---|---|
| `PaymentsProofs!TypeCorrect` | `Spec => []TypeOK` | `TypeOK`: the guards of each action are what keeps balances, holdings and the escrow counter in range |
| `PaymentsProofs!Custody` | `Spec => []CustodyConserved` | `TypeOK` and the property: a deposit raises both sides, a payout or settlement lowers both, a transfer or a new escrow moves between two parts of the right side, a direct transfer raises the left |
| `PaymentsProofs!PayoutsStruckOut` | `Spec => PayoutsAccounted`, from `OutflowsClaimed` and `EscrowsPayOnce` | `TypeOK`: each call that pays is matched with the one balance or escrow it strikes out |
| `PaymentsProofs!SpendsBounded` | `Spec => SpendingBounded`, from `SpendsWithinCaps` and `CoverStays` | `TypeOK`; for the cover, a payout lowers tokens and claims of one token alike |
| `GovernanceProofs!TypeCorrect` | `Spec => []TypeOK` | `TypeOK` |
| `GovernanceProofs!PowerSum` | `Spec => []PowerAccounted`, if `~EarlyCalls` | `PowerInv` adds that nobody has power before `initialize` stores its zero total |
| `GovernanceProofs!RecordsInStep` | `Spec => []TimelockInStep`, if `~EarlyCalls` | `LockInv` adds that an id not handed out has neither record: otherwise a new proposal could find an old entry under its id |
| `GovernanceProofs!LifecycleKept` | `Spec => KeepsPromise` (the refinement), if `~EarlyCalls` | `PaceInv` adds to `LockInv` that nobody has voted under an id not handed out, that a passed proposal is past its vote, and that an entry falls due later than a configured delay after the vote and is executed only once due |
| `GovernanceProofs!TalliesTrue`, `RewardedOnce`, `VotesCounted` | `Spec => []VotesAccounted`, if `~EarlyCalls` | `CountInv` adds to `PaceInv` that the two tallies are the sums of the weights recorded; `RewardInv` relates claims and payments |
| `GovernanceProofs!MajoritiesOnly` | `Spec => PassedByMajority`, if `~EarlyCalls` | `CountInv`: the verdict is read from the tallies, the property speaks of the votes |
| `ServicesProofs!AllTyped` | `OversightSpec => []OversightTyped`, if `~EarlyCalls` | the four types, of which the treasury's (`TypeCorrect`) and the versions' (`LiveInv`, for `LiveVersion`) are the ones that say something: what takes over is neither the current version nor frozen, and a new number is on no list |
| `ServicesProofs!SignaturesCounted`, from `Multisig` | `MultisigHonoured` (an action property) | `ApprovalInv` adds that no list of approvals names anybody twice: the code counts the list, the property counts people |
| `ServicesProofs!AllSanctioned`, from `PaymentsRequested` and `UpgradesApproved` | `Sanctioned` (an action property) | `TypeOK` of the treasury; `BallotInv`, which does for the upgrades what `ApprovalInv` does for the payments |
| `ServicesProofs!LogVerifies`, from `ChainVerifies` | `[]ChainIntact`, if `~EarlyCalls` | `ChainInv` adds types and that the head is absent only of an empty log |
| `ServicesProofs!LogPruned`, from `PrunesExactly` | `PruneExact`, if `~EarlyCalls` | `OrderInv` adds that the times of the entries follow their numbers and none lies in the future, without which the walk of `prune_old` would stop before an old entry |
| `ServicesProofs!HaltKept`, from `HaltsHold` | `[]StaysHalted` | `HaltInv`: as long as a reset is owed the breaker is tripped, as long as an unpausing is owed everything is paused |
| `ServicesProofs!RatesKept`, from `RatesHold` | `[]RateHeld` | `RateInv` relates the counter of the open window to the calls granted in it, and every period to the at most two windows it meets |
| `ServicesProofs!ServicesRun` | `ServicesSpec` implements `OversightSpec` and the specifications of `Analysis`, `Assets`, `Fees`, `Gamification` and `Valuation` | none: a day that passes for fees is a `Tick` of the game, and the other way round |
| `ServicesProofs!AllRecordsAgree` | `[]RecordsAgree` | `AdviceInv`: the ids given out are those in use and none has two uses, and each metric is, or bounds, the number of records that say so. `AssetsInv`: the list of a portfolio holds exactly its entries, each once, and a portfolio is registered once if it has a list (`Matches`, `Enlisted`, `Once`). `FeesInv`: what is collected is the sum by category and the sum by portfolio, and while no record has been dropped the sums of the history (`LedgerTrue`). For the game and the values, their types: a score between 0 and 100 is the one its statistics give |
| `ServicesProofs!QuotesHonoured` | `QuoteHonoured` (an action property) | `FeesInv`: the waiver found first by the call is the one found first for the portfolio once no waiver of the caller is active |
| `ServicesProofs!RewardsAreEarned` | `RewardsEarned` (an action property) | the type of the game: badges paid in turn are followed one by one, each either paid by a pool that holds it or not at all, so that what the pool lost is what the user has had |
| `ServicesProofs!RanksAreRight` | `[]RanksRight` | `PlayersListed`: each player is listed once and has statistics. The board itself is not a state: after n rounds of the insertion sort each of the first n players is where the number of those ahead of it says (`OnBoard`, kept by `BoardGrows`: a new player moves exactly those with a smaller key), so that ranks, pages and `get_user_rank` agree (`BoardRanked`, `PagesRight`, `RankTold`) |
| `StakingProofs!TotalsExact` | `Spec => []TotalsAgree` | `TotalsInv` adds the types the totals rest on: the counts are exact before each call, hence positive where something is taken out, and the subtraction that would saturate at 0 never does |
| `StakingProofs!ContractTyped`, from `TypeCorrect`, `PrincipalsTrue` and `YieldHolds` | `[]StakesTyped` | `StakeInv`, types and principals with `TotalsInv`: a total in range needs the balances it is the sum of |
| `StakingProofs!CooldownsKept` | `Spec => []CooldownKept` | `CoolInv` adds that the end of a staker's cooldown guards the last record of its history |
| `StakingProofs!EarlyExitsPenalized` | `Spec => EarlyExitPenalized` | `StakeInv`; that the rate never rises is arithmetic: the linear decay, rounded towards zero, is monotone whatever the scale (`DivMono` to `PenaltyFalls`) |
| `StakingProofs!YieldIsAccounted`, from `StakingProofs!YieldHolds` and `YieldToldTrue` | `[]YieldAccounted` | `YieldInv`: positions are stored no later than now (`PositionsInv`), a reserve is within its range or absent (`ReserveInv`), a date of a schedule only ever moves forward from the one offered (`PayoutsInv`), and the history of a pair that never met a reserve adds up |
| `StakingProofs!YieldIsKept`, from `StakingProofs!YieldIsConserved` | `YieldConserved` (an action property) | `YieldInv`; the walk of a batch over the stakers it names is followed staker by staker: each is paid at most what it could claim, and the reserve loses exactly the sum |
| `MarketsProofs!NobodyHoldsARole` | no role is ever assigned | the statement itself: every call on roles needs a role |
| `MarketsProofs!ScheduledRebalancesPaced` | `[]SchedulePaced` | `PaceInv` adds that the history lies in the past, and that a schedule that has been executed remembers no earlier time than the history: a schedule cancelled and set anew starts from now, and one updated counts from its last execution, so that both bounds are needed |
| `MarketsProofs!PoolIsSound`, `TokensArePaidOnce`, from `PredictionHolds` | `[]PoolSound`, `[]TokensPaidOnce` | `PredictionInv`: the market with its dispute, the stored products, the shares that sum to the supply, the tokens, the resting list that is exactly the active orders in their order; and that a fee of at most the whole keeps the reserves from falling below zero (`SolvencyKept`, `SolvencyMoved`), for which there is no pool before a market, whose terms never change (`Standing`) |
| `MarketsProofs!MarketTyped`, from `PredictionHolds` | `[]Predicted!TypeOK`: balances, positions, payments and volumes stay non-negative at any rate of fee; reserves are only numbers | `PredictionInv` |
| `MarketsProofs!OutcomesStand`, `TradesAreConserving` | `OutcomeStands`, `TradesConserve` (action properties) | `PredictionInv` |
| `MarketsProofs!ExchangeRuns` | `MarketsSpec` implements `Spec` of `OrderBook` | none |
| `OrderBookProofs!BookTypes`, `BooksAgree` | `Spec => []TypeOK`, `Spec => []BookSound` of `OrderBook` | `BookInv`: each side of a book is the live orders of that side, each once and as stored under its key, best price first and the older of equals before the younger. It holds after every leg of a batch, not only between calls (`MatchFills`): the legs that follow are matched with what the ones before left |
| `OrderBookProofs!FilledByPriority`, `MarketsProofs!OrdersFillByPriority` | `FillsInOrder` (an action property) | `BookInv`, and over the legs of a batch that what was passed is filled and that the volume is what was given (`CountUp`) |
| `MarketsProofs!RecordsAreKept` | `[]RecordsAgree` of `Markets` | `BookInv` for the orders; `AlertInv` for the alerts: the list, the pending ones and the counters are of the same alerts |
| `DeliveryProofs!CountersAreTrue` | `[]MetricsTrue` | `DeliveryInv`: every record is of a subscription of its subscriber and of an event dispatched, no two are of both, and each counter is the sum over the records |
| `DeliveryProofs!DeliveriesKeepOutbox` | `PromisesSpec => Delivered!Out!Safety`: the safety half of `KeepsOutbox`, initial states to initial states and every step to a step of `Outbox` or a stutter | `DeliveryInv`: that a dispatch makes one record per match, and that a full batch drops only what can still be sent, is what makes each call one step of the outbox |

The hypothesis `~EarlyCalls` is that no call that does not check for it comes
before `initialize`; run `MCGovernanceEarly` shows that `PowerAccounted` needs
it, and an audit log loses its chain the same way (section 4).

A sum over a function is the cardinality of a set of units (`Totals`), which
the provers can reason about without induction: `TotalsProofs` proves what
changing one or two entries, or adding one, does to the sum (`TotalRaise`,
`TotalLower`, `TotalMove`, `TotalExtend`, ...), and the step lemmas cite these.
The sum of the community modules used by `Prediction`, over values that may be
negative, is taken apart the same way (`Summed`, `SummedIsNet`: what is above
zero less what is below). A loop over a list is an iteration whose every
intermediate state keeps a predicate: `CountUp` is the step from one number to
the next over a set of numbers, and `Iterates` what a recursive function on
`0..n` does, so that the loop of a dispatch (`Reached`, `DispatchTrue`), the
walk of a batch of claims and the sort of the leaderboard need no induction over data of their own.

The k-th of a set of indices exists and is one of them (`KthInside` of
`ServicesProofs`); with it a filter is a sequence of elements that pass
(`Selected`), which is what the removal of waivers, new badges and the analyses
started by one event rest on.

`StepSplits` of `MarketsProofs` shows once that most of the calls on portfolios
leave time, roles, schedules and histories alone; the steps that do not are one
lemma each.

Everything else is model-checked only:

* liveness and `ENABLED`, out of TLAPS's reach: `EventuallyDecided`, and of
  `KeepsOutbox` that what was owed is sent in the end;
* what a recursive function or a sort computes for every input, but for the
  insertion sort of the leaderboard: compounding, middles and means
  (`AnswersNearMiddle`, and the types of the price feed in `MarketsTyped`, whose
  other three contracts have `BookTypes`, `MarketTyped` and the invariants
  above), allocations, drawdown and ratios (`FiguresRight`);
* `MarketsTyped` as a whole for that reason.

## 7. Not modelled

* Audit trails, events, getters, metadata, titles and payloads: nothing in the
  contracts reads them back into a decision.
* The numerical methods (`pow`, `exp`, the exponential penalty): one step each,
  without state.
* Ledger entry expiry: the contracts never extend or restore an entry, and the
  models take storage as permanent.
* Feature flags and migration records (versioning); secondary indexes, queries,
  exports and signatures (audit); fee, trade size, lock period, notifiers and
  incident log (emergency): no other call depends on them.
* Overflow errors where results are exact integers in the model (fees,
  gamification, valuation, prediction): the code reports them and undoes the call.
  Of governance, the errors of the checked operations are in the model. Its tallies
  (`lib.rs:752`, `:880`), their sums (`:965`, `:988`) and the rewards paid (`:1598`) are added
  without a check and wrap in the release build, which sets no `overflow-checks`:
  votes of more than an i128 for one proposal, and as many rewards, are beyond the model.
  So are prices whose sums and products are beyond an i128 (pricefeed).
* Trade orders and quotes (rebalancing), confidences and endpoints (pricefeed),
  latency sums (events), fees of trades, entry prices and profit figures
  (prediction): figures for display.
* `match_order` of prediction, which no entry point reaches, nor
  `execute_atomic_rebalance` and `set_audit_sink` of rebalancing, which stand in an `impl`
  without `#[contractimpl]` (`lib.rs:1141`).
* Alerts, APY quotes and projections of staking: derived from a stake record,
  read by clients only.
* `set_principal` of the yield engine and `multi_asset.rs`, which no entry
  point reaches.

## 8. Plan

Done in this order: payments with its proofs, governance with its abstract
specification and the proof of the refinement, treasury, stakes, yield,
versioning, audit and emergency with their proofs; deliveries with their
abstract specification and the proof of its safety; analyses, order book,
prediction markets with their proofs, price feed, portfolios, assets, fees,
gamification, valuation; the order book, the alerts, the registry, fees,
rewards and analyses with their proofs. Next:

1. Proofs: the types of `Portfolio` and of `PriceFeed`; `OutcomeStands` and the
   like for several markets.
2. The alerts of staking, and the projections against a reference definition.
3. Signed entries and exports of the audit log.
4. Feature flags of versioning beside its upgrades.
