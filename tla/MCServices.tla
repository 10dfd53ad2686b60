----------------------------- MODULE MCServices -----------------------------
(***************************************************************************)
(* Small instances of Services.  Its contracts share nothing but the time,  *)
(* so each behaviour exercises one of them, chosen at the start, and the    *)
(* states of the run are the sum of theirs.                                 *)
(***************************************************************************)
EXTENDS Services, TLC

CONSTANTS p1, p2, f1, s1, s2, ch, xlm, swap

VARIABLE service

-----------------------------------------------------------------------------
(* ListOps, on lists of up to three: the operators are those of             *)
(* SequencesExt, which this module has from Treasury.                       *)

Ops == INSTANCE ListOps

ASSUME OpsAgree ==
  \A n \in 0..3 : \A s \in [1..n -> 0..2], x \in 0..2 :
    /\ Ops!ToSet(s) = ToSet(s) /\ (Ops!Contains(s, x) <=> Contains(s, x))
    /\ n > 0 => Ops!Last(s) = Last(s)
    /\ Ops!SelectInSeq(s, LAMBDA y : y > x) = SelectInSeq(s, LAMBDA y : y > x)
    /\ \A i \in 1..n : /\ Ops!ReplaceAt(s, i, x) = ReplaceAt(s, i, x)
                       /\ Ops!RemoveAt(s, i) = RemoveAt(s, i)
    /\ \A i \in 1..(n + 1) : Ops!InsertAt(s, i, x) = InsertAt(s, i, x)
    /\ Ops!FoldLeft(LAMBDA y, z : 3 * y + z, x, s) = FoldLeft(LAMBDA y, z : 3 * y + z, x, s)

(* Treasury: half of the balance per request on two approvals, or all of it *)
(* on one.                                                                  *)

Half == [spendBps |-> 5000, threshold |-> 2]
MCSettings == {Half, [spendBps |-> 10000, threshold |-> 1]}

(* Versions, the audit log, the emergency controls. *)

MCPolicies ==
  {[max_entries |-> 2, max_age_seconds |-> 0], [max_entries |-> 0, max_age_seconds |-> 1],
   [max_entries |-> 2, max_age_seconds |-> 1]}
MCChanges == {-2000, 1000, 3000}
MCLimits == {[max_calls |-> n, window_seconds |-> w] : n \in 1..2, w \in 1..2}

(* Analyses: two triggers on one kind of event, and one of them with a      *)
(* plain subscription beside it.                                            *)

MCTriggers ==
  {[events |-> {"Trade"}, threshold |-> 1, operator |-> "GreaterOrEqual", is_active |-> TRUE,
    owner |-> p1]}
MCValues == {None, 1}

Listened == INSTANCE Analysis WITH People <- {p1}, TriggerKeys <- {1}, MaxListeners <- 1
AdvisedAlone == INSTANCE Analysis WITH People <- {p1}

(* The registry: two symbols, and values that are turned down among those   *)
(* that are not.                                                            *)

MCBalances == {-1, 0, 2}

(* Fees: a share, and tiers; waivers of an hour. *)

Structure(type, category, bps, tiers) ==
  [fee_type |-> type, amount_bps |-> bps, tiered_entries |-> tiers, category |-> category,
   active |-> TRUE, fee_cap |-> None]

MCStructures ==
  {Structure("Percentage", "Yield", 1000, <<>>),
   Structure("Tiered", "Trading", 0, <<[threshold |-> 0, fee_bps |-> 500],
                                       [threshold |-> 10, fee_bps |-> 2000]>>)}
MCWaiverTerms == {[discount_bps |-> 5000, waived |-> FALSE, expires_at |-> 2]}
MCRecipients == {<<[address |-> p1, share |-> 1], [address |-> p2, share |-> 2]>>}

(* The game: one user and everything that pays, two users and the board.    *)

Trade(roi, successful) == [roi_bps |-> roi, successful |-> successful]
MCBatches == {<<Trade(12000, TRUE)>>}
MCFunds == {-30}
MCChallenges == {[target_value |-> 2, reward_amount |-> 20, start_time |-> 0, end_time |-> 1]}
MCIncrements == {-2, 2}

Ranked == INSTANCE Gamification WITH
  now <- day, MaxTime <- MaxDay, Users <- People, Modules <- {1},
  Batches <- MCBatches \cup {<<Trade(600, TRUE), Trade(-100, FALSE)>>},
  BadgeIds <- {}, Rewards <- {}, Funds <- {}, Challenges <- {}, Increments <- {},
  InitialPool <- 0, MaxTrades <- 2, MaxActions <- 0, MaxPaid <- 100

(* Valuation: hundredths; two assets, and prices one above the cost.        *)

-----------------------------------------------------------------------------
MCServicesInit ==
  /\ service \in {"treasury", "versioning", "audit", "emergency", "analysis", "listeners",
                  "assets", "fees", "rewards", "ranks", "valuation"}
  /\ ServicesInit /\ (service # "treasury" => config = Half)

MCServicesNext ==
  /\ \/ /\ \/ service = "treasury" /\ PayOut
           \/ service = "versioning" /\ Upgrade
           \/ service = "audit" /\ Log
           \/ service = "emergency" /\ Protect
        /\ UNCHANGED <<day, advice, registry, charges, game, values>>
     \/ /\ \/ service = "analysis" /\ AdvisedAlone!Next
           \/ service = "listeners" /\ Listened!Next
        /\ UNCHANGED <<day, oversightVars, registry, charges, game, values>>
     \/ service = "assets" /\ Register
     \/ service = "fees" /\ Charge
     \/ service = "rewards" /\ PlayGame
     \/ service = "ranks" /\ (Ranked!Setup \/ Ranked!Play)
        /\ UNCHANGED <<oversightVars, advice, registry, charges, values>>
     \/ service = "valuation" /\ Value
  /\ UNCHANGED service

MCServicesSpec == MCServicesInit /\ [][MCServicesNext]_<<service, servicesVars>>

-----------------------------------------------------------------------------
(* Properties *)

(* What valuation tells of a portfolio: MetricsRight, AllocationsWhole. *)
FiguresRight == service = "valuation" => Valued!MetricsRight /\ Valued!AllocationsWhole
=============================================================================
