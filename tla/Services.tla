------------------------------ MODULE Services ------------------------------
(***************************************************************************)
(* The contracts that serve the others, side by side on one ledger: those   *)
(* of Oversight (the treasury, versions, the audit log, the emergency       *)
(* controls), the analyses of events, the asset registry, fees,             *)
(* gamification and valuation.  They share nothing but the time; fees and   *)
(* challenges are dated in days.                                            *)
(***************************************************************************)
EXTENDS Oversight

CONSTANTS
  Portfolios, MaxDay,
  TriggerKeys, EventTypes, Values, Triggers, Latencies, Outputs, MaxId, MaxListeners, MaxReports,
  Symbols, Metadata, Decimals, Balances, Prices, MaxAssets,
  FeeIds, Structures, Caps, WaiverTerms, Bases, Recipients, MaxHistory, MaxRecipients, MaxTotal,
  MaxWaivers,
  Users, Modules, Batches, BadgeIds, Rewards, Funds, ChallengeIds, Challenges, Increments,
  InitialPool, MaxReturn, MaxTrades, MaxActions, MaxProgress, MaxCreated, MaxPaid,
  Quantities, MarketPrices, Costs, Investments, Rates, Periods, Scale, MaxSnapshots

VARIABLES
  day,
  triggers, analyses, recommendations, analysisMetrics, nextId, listeners, history,
  registryAdmin, assetEntry, portfolioAssets, assetPrice, registered,
  feeAdmin, feeStructure, portfolioFee, waivers, recipients, feeHistory, totalCollected,
  categoryTotal, portfolioTotal,
  gameAdmin, totalModules, players, stats, score, badges, badgeReward, challenge, challengeIds,
  challengeEntry, rewardPool, rewardsPaid,
  assets, initialInvestment, snapshots, valuationHistory, riskFreeRate, periodsPerYear

advice == <<triggers, analyses, recommendations, analysisMetrics, nextId, listeners, history>>
registry == <<registryAdmin, assetEntry, portfolioAssets, assetPrice, registered>>
charges == <<feeAdmin, feeStructure, portfolioFee, waivers, recipients, feeHistory,
             totalCollected, categoryTotal, portfolioTotal>>
game == <<gameAdmin, totalModules, players, stats, score, badges, badgeReward, challenge,
          challengeIds, challengeEntry, rewardPool, rewardsPaid>>
values == <<assets, initialInvestment, snapshots, valuationHistory, riskFreeRate, periodsPerYear>>
servicesVars == <<day, oversightVars, advice, registry, charges, game, values>>

Advised == INSTANCE Analysis
Registered == INSTANCE Assets
Charged == INSTANCE Fees WITH now <- day, MaxTime <- MaxDay
Rewarded == INSTANCE Gamification WITH now <- day, MaxTime <- MaxDay
Valued == INSTANCE Valuation WITH Assets <- Symbols, Prices <- MarketPrices

ASSUME ServicesAssumption ==
  /\ Advised!AnalysisAssumption /\ Registered!AssetsAssumption /\ Charged!FeesAssumption
  /\ Rewarded!GamificationAssumption /\ Valued!ValuationAssumption

ServicesInit ==
  OversightInit /\ Advised!Init /\ Registered!Init /\ Charged!Init /\ Rewarded!Init /\ Valued!Init

Oversee == OversightNext /\ UNCHANGED <<day, advice, registry, charges, game, values>>
Advise == Advised!Next /\ UNCHANGED <<day, oversightVars, registry, charges, game, values>>
Register == Registered!Next /\ UNCHANGED <<day, oversightVars, advice, charges, game, values>>
Charge == Charged!Next /\ UNCHANGED <<oversightVars, advice, registry, game, values>>
PlayGame == Rewarded!Next /\ UNCHANGED <<oversightVars, advice, registry, charges, values>>
Value == Valued!Next /\ UNCHANGED <<day, oversightVars, advice, registry, charges, game>>

ServicesNext == Oversee \/ Advise \/ Register \/ Charge \/ PlayGame \/ Value

ServicesSpec == ServicesInit /\ [][ServicesNext]_servicesVars

-----------------------------------------------------------------------------
(* Properties *)

(***************************************************************************)
(* Each contract keeps its types, and what it keeps in two places agrees,   *)
(* whatever calls change it: entries and the list of a portfolio            *)
(* (SummaryTrue), analyses and their counters (AnalysesAccounted), fees and *)
(* their totals (FeesAccounted).                                            *)
(***************************************************************************)
RecordsAgree ==
  /\ Advised!TypeOK /\ Advised!AnalysesAccounted
  /\ Registered!TypeOK /\ Registered!SummaryTrue
  /\ Charged!TypeOK /\ Charged!FeesAccounted
  /\ Rewarded!TypeOK /\ Valued!TypeOK

(* What Fees promises of a quote, Gamification of rewards and ranks. *)
QuoteHonoured == Charged!QuoteHonoured
RewardsEarned == Rewarded!RewardsEarned
RanksRight == Rewarded!RanksRight
=============================================================================
