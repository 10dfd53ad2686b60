---------------------------- MODULE Gamification ----------------------------
(***************************************************************************)
(* The gamification engine: statistics and scores of players, badges,       *)
(* challenges, the reward pool all of them are paid from and the            *)
(* leaderboard.  A call that fails leaves nothing behind.  Names, texts,    *)
(* times of records, the metric of a challenge and the active flag of a     *)
(* badge definition (stored, never read) are left out.                      *)
(***************************************************************************)
EXTENDS Integers, ListOps, Lists

CONSTANTS
  People,
  Users,          \* those of them who play
  Modules,        \* numbers of learning modules to initialize with
  Batches,        \* batches of trades: [roi_bps, successful]
  BadgeIds,       \* badges an admin issues or reprices
  Rewards, Funds, \* amounts admins ask for
  ChallengeIds,
  Challenges,     \* target_value, reward_amount, start_time, end_time
  Increments,     \* progress that users report
  InitialPool,    \* 1_000_000
  MaxReturn,      \* MAX_LEADERBOARD_RETURN
  MaxTrades, MaxActions, MaxProgress, MaxCreated, MaxPaid, MaxTime, \* bounds of the exploration
  None

VARIABLES
  now, gameAdmin, totalModules, players, stats, score, badges, badgeReward,
  challenge, challengeIds, challengeEntry, rewardPool, rewardsPaid

playing == <<players, stats, score>>
campaigns == <<challenge, challengeIds, challengeEntry>>
rewards == <<rewardPool, rewardsPaid>>
vars == <<now, gameAdmin, totalModules, playing, badges, badgeReward, campaigns, rewards>>

Tier == {"Bronze", "Silver", "Gold", "Platinum"}

(* create_default_badge_defs: the badges and what they are worth.  Two ids   *)
(* are not the ones that badges are earned under ("TRD_100" and "ROI_100").  *)
DefaultBadges ==
  {"1ST_TRD", "TRD_10", "TRD_50", "TRD100", "POS_ROI", "ROI_50", "ROI100", "STRK_3", "STRK_5",
   "STRK10", "LRN_1", "LRN_5", "LRN_ALL", "COM_1", "BRZ_TIR", "SLV_TIR", "GLD_TIR", "PLT_TIR"}

DefaultBadgeDefs ==
  [id \in DefaultBadges |->
     CASE id \in {"1ST_TRD", "LRN_1", "COM_1"} -> 5
       [] id \in {"TRD_10", "POS_ROI", "STRK_3", "BRZ_TIR"} -> 10
       [] id = "LRN_5" -> 15
       [] id = "STRK_5" -> 20
       [] id \in {"TRD_50", "SLV_TIR"} -> 25
       [] id = "ROI_50" -> 30
       [] id = "STRK10" -> 40
       [] id \in {"TRD100", "ROI100", "LRN_ALL", "GLD_TIR"} -> 50
       [] id = "PLT_TIR" -> 100]

Badge == DefaultBadges \cup {"TRD_100", "ROI_100"} \cup BadgeIds

Stats ==
  [trade_count : Nat, successful_trades : Nat, best_roi_bps : Int, current_streak : Nat,
   best_streak : Nat, modules_completed : Nat, total_modules : Nat, community_actions : Nat,
   challenges_won : Nat, tier : Tier, total_score : 0..100]

Trades == [roi_bps : Int, successful : BOOLEAN]

GamificationAssumption ==
  /\ Users \subseteq People /\ None \notin People /\ Modules \subseteq Nat
  /\ Batches \subseteq Seq(Trades) /\ <<>> \notin Batches
  /\ Rewards \subseteq Int /\ Funds \subseteq Int
  /\ Challenges \subseteq [target_value : Int, reward_amount : Int, start_time : Nat, end_time : Nat]
  /\ Increments \subseteq Int /\ InitialPool \in Int /\ MaxReturn \in 0..500
  /\ None \notin Stats
  /\ None \notin [terms : Challenges, active : BOOLEAN]
  /\ None \notin [current_value : Int, completed : BOOLEAN]

TypeOK ==
  /\ now \in Nat /\ gameAdmin \in People \cup {None} /\ totalModules \in Nat
  /\ players \in Seq(People)
  /\ stats \in [People -> Stats \cup {None}] /\ score \in [People -> 0..100]
  /\ \A u \in People : score[u] = IF stats[u] = None THEN 0 ELSE stats[u].total_score
  /\ badges \in [People -> Seq(Badge)]
  /\ \A id \in DOMAIN badgeReward : badgeReward[id] \in Int
  /\ challenge \in [ChallengeIds -> [terms : Challenges, active : BOOLEAN] \cup {None}]
  /\ challengeIds \in Seq(ChallengeIds)
  /\ challengeEntry \in
       [ChallengeIds -> [People -> [current_value : Int, completed : BOOLEAN] \cup {None}]]
  /\ rewardPool \in Int /\ rewardsPaid \in [People -> Int]

Init ==
  /\ now = 1
  /\ gameAdmin = None /\ totalModules = 0
  /\ players = <<>>
  /\ stats = [u \in People |-> None] /\ score = [u \in People |-> 0]
  /\ badges = [u \in People |-> <<>>] /\ badgeReward = <<>>
  /\ challenge = [c \in ChallengeIds |-> None] /\ challengeIds = <<>>
  /\ challengeEntry = [c \in ChallengeIds |-> [u \in People |-> None]]
  /\ rewardPool = 0 /\ rewardsPaid = [u \in People |-> 0]

-----------------------------------------------------------------------------
(* Scores *)

TradeScore(n) == Min({2 * n, 30})
RoiScore(roi) == IF roi <= 0 THEN 0 ELSE Min({(roi * 30) \div 10000, 30})
StreakScore(n) == Min({3 * n, 15})
LearnScore(n, total) == IF total = 0 THEN 0 ELSE Min({(n * 15) \div total, 15})
CommunityScore(n) == Min({2 * n, 10})

(* compute_total_score *)
TotalScore(s) ==
  TradeScore(s.successful_trades) + RoiScore(s.best_roi_bps) + StreakScore(s.best_streak)
  + LearnScore(s.modules_completed, s.total_modules) + CommunityScore(s.community_actions)

(* score_to_tier *)
TierOf(n) ==
  CASE n >= 75 -> "Platinum" [] n \in 50..74 -> "Gold" [] n \in 25..49 -> "Silver"
    [] n < 25 -> "Bronze"

(* tier_reward *)
TierReward == [Bronze |-> 10, Silver |-> 25, Gold |-> 50, Platinum |-> 100]

(* What every call that changes statistics does with them.                  *)
Rescore(u, s) ==
  /\ stats' = [stats EXCEPT ![u] = [s EXCEPT !.total_score = TotalScore(s),
                                             !.tier = TierOf(TotalScore(s))]]
  /\ score' = [score EXCEPT ![u] = TotalScore(s)]

(* A trade in the statistics of its trader.                                 *)
Traded(s, trade) ==
  LET streak == IF trade.successful THEN s.current_streak + 1 ELSE 0
  IN  [s EXCEPT !.trade_count = @ + 1,
                !.successful_trades = @ + (IF trade.successful THEN 1 ELSE 0),
                !.current_streak = streak,
                !.best_streak = Max({@, streak}),
                !.best_roi_bps = Max({@, trade.roi_bps})]

-----------------------------------------------------------------------------
(* Players *)

Initialize(p, n) ==
  /\ gameAdmin = None
  /\ gameAdmin' = p
  /\ totalModules' = n
  /\ rewardPool' = InitialPool
  /\ badgeReward' = DefaultBadgeDefs
  /\ UNCHANGED <<now, playing, badges, campaigns, rewardsPaid>>

RegisterUser(u) ==
  /\ gameAdmin # None
  /\ stats[u] = None
  /\ stats' = [stats EXCEPT ![u] =
       [trade_count |-> 0, successful_trades |-> 0, best_roi_bps |-> 0, current_streak |-> 0,
        best_streak |-> 0, modules_completed |-> 0, total_modules |-> totalModules,
        community_actions |-> 0, challenges_won |-> 0, tier |-> "Bronze", total_score |-> 0]]
  /\ players' = IF Contains(players, u) THEN players ELSE Append(players, u)
  /\ UNCHANGED <<now, gameAdmin, totalModules, score, badges, badgeReward, campaigns, rewards>>

RecordTrade(u, trade) ==
  /\ stats[u] # None
  /\ stats[u].trade_count < MaxTrades
  /\ Rescore(u, Traded(stats[u], trade))
  /\ UNCHANGED <<now, gameAdmin, totalModules, players, badges, badgeReward, campaigns, rewards>>

(* The statistics after the trades of a batch.                              *)
TradedAll(s, trades) ==
  LET after[n \in 0..Len(trades)] ==
        IF n = 0 THEN s ELSE Traded(after[n - 1], trades[n])
  IN  after[Len(trades)]

RecordTradesBatch(u, trades) ==
  /\ stats[u] # None
  /\ stats[u].trade_count + Len(trades) <= MaxTrades
  /\ Rescore(u, TradedAll(stats[u], trades))
  /\ UNCHANGED <<now, gameAdmin, totalModules, players, badges, badgeReward, campaigns, rewards>>

CompleteLearningModule(u) ==
  /\ stats[u] # None
  /\ Rescore(u, [stats[u] EXCEPT !.modules_completed = Min({@ + 1, stats[u].total_modules})])
  /\ UNCHANGED <<now, gameAdmin, totalModules, players, badges, badgeReward, campaigns, rewards>>

RecordCommunityAction(u) ==
  /\ stats[u] # None
  /\ stats[u].community_actions < MaxActions
  /\ Rescore(u, [stats[u] EXCEPT !.community_actions = @ + 1])
  /\ UNCHANGED <<now, gameAdmin, totalModules, players, badges, badgeReward, campaigns, rewards>>

-----------------------------------------------------------------------------
(* Badges *)

(* evaluate_badges: the badges in the order of the code, and which of them  *)
(* are due.                                                                 *)
BadgeOrder ==
  <<"1ST_TRD", "TRD_10", "TRD_50", "TRD_100", "POS_ROI", "ROI_50", "ROI_100", "STRK_3", "STRK_5",
    "STRK10", "LRN_1", "LRN_5", "LRN_ALL", "COM_1", "BRZ_TIR", "SLV_TIR", "GLD_TIR", "PLT_TIR">>

Due(s, id) ==
  \/ id = "1ST_TRD" /\ s.trade_count >= 1
  \/ id = "TRD_10" /\ s.successful_trades >= 10
  \/ id = "TRD_50" /\ s.successful_trades >= 50
  \/ id = "TRD_100" /\ s.successful_trades >= 100
  \/ id = "POS_ROI" /\ s.best_roi_bps > 0
  \/ id = "ROI_50" /\ s.best_roi_bps >= 5000
  \/ id = "ROI_100" /\ s.best_roi_bps >= 10000
  \/ id = "STRK_3" /\ s.best_streak >= 3
  \/ id = "STRK_5" /\ s.best_streak >= 5
  \/ id = "STRK10" /\ s.best_streak >= 10
  \/ id = "LRN_1" /\ s.modules_completed >= 1
  \/ id = "LRN_5" /\ s.modules_completed >= 5
  \/ id = "LRN_ALL" /\ s.total_modules > 0 /\ s.modules_completed >= s.total_modules
  \/ id = "COM_1" /\ s.community_actions >= 1
  \/ id = "BRZ_TIR" /\ s.tier = "Bronze" /\ s.total_score >= 24
  \/ id = "SLV_TIR" /\ s.tier \in {"Silver", "Gold", "Platinum"}
  \/ id = "GLD_TIR" /\ s.tier \in {"Gold", "Platinum"}
  \/ id = "PLT_TIR" /\ s.tier = "Platinum"

NewBadges(u) == Kept(BadgeOrder, LAMBDA id : Due(stats[u], id) /\ ~Contains(badges[u], id))

(* find_badge_reward *)
BadgeReward(id) == IF id \in DOMAIN badgeReward THEN badgeReward[id] ELSE 0

(* A reward that the pool cannot pay is not paid at all: what is left in    *)
(* the pool, and what the user has had.                                     *)
Paid(purse, reward) ==
  IF reward > 0 /\ purse.pool >= reward
  THEN [pool |-> purse.pool - reward, had |-> purse.had + reward]
  ELSE purse

Pay(u, purse) ==
  /\ rewardPool' = purse.pool
  /\ rewardsPaid' = [rewardsPaid EXCEPT ![u] = purse.had]

Purse(u) == [pool |-> rewardPool, had |-> rewardsPaid[u]]

(* What is left when the rewards of some badges have been paid in turn.     *)
PaidAll(purse, ids) ==
  LET after[n \in 0..Len(ids)] ==
        IF n = 0 THEN purse ELSE Paid(after[n - 1], BadgeReward(ids[n]))
  IN  after[Len(ids)]

(* Anybody may call.                                                        *)
CheckAndIssueBadges(u) ==
  /\ stats[u] # None
  /\ badges' = [badges EXCEPT ![u] = @ \o NewBadges(u)]
  /\ Pay(u, PaidAll(Purse(u), NewBadges(u)))
  /\ UNCHANGED <<now, gameAdmin, totalModules, playing, badgeReward, campaigns>>

(* Mutant: a badge the user has is issued, and paid, again.                 *)
IssueBadgeAgain(p, u, id) ==
  /\ p = gameAdmin
  /\ Len(badges[u]) < 3
  /\ stats[u] # None
  /\ badges' = [badges EXCEPT ![u] = Append(@, id)]
  /\ Pay(u, Paid(Purse(u), BadgeReward(id)))
  /\ UNCHANGED <<now, gameAdmin, totalModules, playing, badgeReward, campaigns>>

IssueBadge(p, u, id) ==
  /\ p = gameAdmin
  /\ ~Contains(badges[u], id)
  /\ stats[u] # None
  /\ badges' = [badges EXCEPT ![u] = Append(@, id)]
  /\ Pay(u, Paid(Purse(u), BadgeReward(id)))
  /\ UNCHANGED <<now, gameAdmin, totalModules, playing, badgeReward, campaigns>>

UpdateBadgeDefinition(p, id, reward) ==
  /\ p = gameAdmin
  /\ id \in DOMAIN badgeReward
  /\ badgeReward' = [badgeReward EXCEPT ![id] = reward]
  /\ UNCHANGED <<now, gameAdmin, totalModules, playing, badges, campaigns, rewards>>

-----------------------------------------------------------------------------
(* Challenges *)

(* A challenge created again replaces the one of its id, and is listed      *)
(* once more.                                                               *)
CreateChallenge(p, c, terms) ==
  /\ p = gameAdmin
  /\ terms.start_time < terms.end_time /\ terms.target_value > 0 /\ terms.reward_amount > 0
  /\ Len(challengeIds) < MaxCreated
  /\ challenge' = [challenge EXCEPT ![c] = [terms |-> terms, active |-> TRUE]]
  /\ challengeIds' = Append(challengeIds, c)
  /\ UNCHANGED <<now, gameAdmin, totalModules, playing, badges, badgeReward, challengeEntry, rewards>>

(* Joining asks neither for a registered user nor for an active challenge.  *)
JoinChallenge(u, c) ==
  /\ challenge[c] # None
  /\ now \in challenge[c].terms.start_time .. challenge[c].terms.end_time
  /\ challengeEntry[c][u] = None
  /\ challengeEntry' = [challengeEntry EXCEPT ![c][u] = [current_value |-> 0, completed |-> FALSE]]
  /\ UNCHANGED <<now, gameAdmin, totalModules, playing, badges, badgeReward, challenge, challengeIds,
                 rewards>>

(* The user says how far it has come.                                       *)
UpdateChallengeProgress(u, c, increment) ==
  LET entry == challengeEntry[c][u]
      terms == challenge[c].terms
      value == entry.current_value + increment
      won == value >= terms.target_value /\ ~entry.completed
  IN  /\ challenge[c] # None /\ challenge[c].active
      /\ now \in terms.start_time .. terms.end_time
      /\ entry # None
      /\ value \in -MaxProgress..MaxProgress
      /\ challengeEntry' = [challengeEntry EXCEPT ![c][u] =
                              [current_value |-> value, completed |-> entry.completed \/ won]]
      /\ IF won
         THEN /\ stats[u] # None
              /\ Pay(u, Paid(Purse(u), terms.reward_amount))
              /\ Rescore(u, [stats[u] EXCEPT !.challenges_won = @ + 1])
         ELSE UNCHANGED <<stats, score, rewards>>
      /\ UNCHANGED <<now, gameAdmin, totalModules, players, badges, badgeReward, challenge,
                     challengeIds>>

EndChallenge(p, c) ==
  /\ p = gameAdmin
  /\ challenge[c] # None
  /\ challenge' = [challenge EXCEPT ![c].active = FALSE]
  /\ UNCHANGED <<now, gameAdmin, totalModules, playing, badges, badgeReward, challengeIds,
                 challengeEntry, rewards>>

-----------------------------------------------------------------------------
(* Rewards and administration *)

(* Anybody may call, at any time and as often as the pool lasts.            *)
DistributeTierReward(u) ==
  /\ stats[u] # None
  /\ LET amount == TierReward[stats[u].tier]
     IN  /\ rewardPool >= amount
         /\ rewardsPaid[u] + amount <= MaxPaid
         /\ Pay(u, Paid(Purse(u), amount))
  /\ UNCHANGED <<now, gameAdmin, totalModules, playing, badges, badgeReward, campaigns>>

(* The amount may be negative.                                              *)
FundRewardPool(p, amount) ==
  /\ p = gameAdmin
  /\ rewardPool + amount \in -MaxPaid..MaxPaid
  /\ rewardPool' = rewardPool + amount
  /\ UNCHANGED <<now, gameAdmin, totalModules, playing, badges, badgeReward, campaigns, rewardsPaid>>

TransferAdmin(p, q) ==
  /\ p = gameAdmin
  /\ gameAdmin' = q
  /\ UNCHANGED <<now, totalModules, playing, badges, badgeReward, campaigns, rewards>>

Tick ==
  /\ now < MaxTime
  /\ now' = now + 1
  /\ UNCHANGED <<gameAdmin, totalModules, playing, badges, badgeReward, campaigns, rewards>>

Setup == \E p \in People, n \in Modules : Initialize(p, n)

Play ==
  \E u \in Users :
    \/ RegisterUser(u)
    \/ \E trades \in Batches : RecordTrade(u, trades[1]) \/ RecordTradesBatch(u, trades)
    \/ CompleteLearningModule(u)
    \/ RecordCommunityAction(u)

Reward ==
  \E u \in Users :
    \/ CheckAndIssueBadges(u)
    \/ DistributeTierReward(u)
    \/ \E c \in ChallengeIds :
         \/ JoinChallenge(u, c)
         \/ \E n \in Increments : UpdateChallengeProgress(u, c, n)

Administer ==
  \E p \in People :
    \/ \E u \in Users, id \in BadgeIds : IssueBadge(p, u, id)
    \/ \E id \in BadgeIds, reward \in Rewards : UpdateBadgeDefinition(p, id, reward)
    \/ \E c \in ChallengeIds :
         \/ \E terms \in Challenges : CreateChallenge(p, c, terms)
         \/ EndChallenge(p, c)
    \/ \E amount \in Funds : FundRewardPool(p, amount)
    \/ \E q \in People : TransferAdmin(p, q)

Next == Tick \/ Setup \/ Play \/ Reward \/ Administer

Spec == Init /\ [][Next]_vars

-----------------------------------------------------------------------------
(* The leaderboard *)

Metric == {"Score", "TradeCount", "Roi", "Streak"}

SortKey(u, metric) ==
  LET s == stats[u]
  IN  CASE metric = "Score" -> s.total_score [] metric = "TradeCount" -> s.successful_trades
        [] metric = "Roi" -> s.best_roi_bps [] metric = "Streak" -> s.best_streak

(* Mutant: a player goes in front of those whose key is the same.           *)
InsertedFirst(board, u, metric) ==
  InsertAt(board, InList(board, LAMBDA v : SortKey(v, metric) > SortKey(u, metric)) + 1, u)

(* One round of the insertion sort: a player goes in front of those whose   *)
(* key is smaller.                                                          *)
Inserted(board, u, metric) ==
  InsertAt(board, InList(board, LAMBDA v : SortKey(v, metric) >= SortKey(u, metric)) + 1, u)

Sorted(metric) ==
  LET after[n \in 0..Len(players)] ==
        IF n = 0 THEN <<>> ELSE Inserted(after[n - 1], players[n], metric)
  IN  after[Len(players)]

(* build_leaderboard: the players from offset on, limit of them at most,    *)
(* each with its rank.                                                      *)
Leaderboard(metric, offset, limit) ==
  LET board == Sorted(metric)
      first == Min({offset, Len(board)})
      last == Min({first + Min({limit, MaxReturn}), Len(board)})
  IN  [i \in 1..(last - first) |-> [rank |-> first + i, user |-> board[first + i]]]

(* get_user_rank: None beyond the page.                                     *)
UserRank(u, metric) ==
  LET page == Leaderboard(metric, 0, 500)
      i == SelectInSeq(page, LAMBDA e : e.user = u)
  IN  IF i = 0 THEN None ELSE page[i].rank

-----------------------------------------------------------------------------
(* Properties *)

(***************************************************************************)
(* check_and_issue_badges, issue_badge, update_challenge_progress and       *)
(* distribute_tier_reward: a user is paid only what leaves the pool in the  *)
(* same call, never more than it holds, and only for a badge it did not     *)
(* have, for a challenge it had not completed (not even one that was        *)
(* created again since), or for its tier.                                   *)
(***************************************************************************)
RewardsEarned ==
  [][\A u \in People :
       rewardsPaid'[u] # rewardsPaid[u] =>
         /\ rewardsPaid'[u] - rewardsPaid[u] = rewardPool - rewardPool'
         /\ rewardPool' \in 0..rewardPool
         /\ \/ ToSet(badges'[u]) # ToSet(badges[u])
            \/ \E c \in ChallengeIds :
                 challengeEntry[c][u] # None /\ ~challengeEntry[c][u].completed
                 /\ challengeEntry'[c][u].completed
            \/ DistributeTierReward(u)]_vars

(***************************************************************************)
(* build_leaderboard, get_user_rank: whatever page is asked for, a player's *)
(* rank is one more than the number of players with a better key, or with   *)
(* the same and registered before; and every player whose rank is on the    *)
(* page is there.                                                           *)
(***************************************************************************)
RanksRight ==
  \A metric \in Metric :
    LET Better(v, u) ==
          \/ SortKey(v, metric) > SortKey(u, metric)
          \/ /\ SortKey(v, metric) = SortKey(u, metric)
             /\ SelectInSeq(players, LAMBDA x : x = v) < SelectInSeq(players, LAMBDA x : x = u)
        Rank(u) == 1 + Cardinality({v \in ToSet(players) : Better(v, u)})
    IN  /\ \A offset \in 0..Len(players), limit \in 0..Len(players) :
             LET page == Leaderboard(metric, offset, limit)
             IN  {[rank |-> Rank(u), user |-> u] :
                    u \in {v \in ToSet(players) :
                             Rank(v) \in (offset + 1)..(offset + Min({limit, MaxReturn}))}}
                 = ToSet(page)
        /\ \A u \in ToSet(players) :
             UserRank(u, metric) = IF Rank(u) <= MaxReturn THEN Rank(u) ELSE None
=============================================================================
