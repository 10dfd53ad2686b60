------------------------------ MODULE MCStaking ------------------------------
(***************************************************************************)
(* A small instance of the staking contract.  Its two sides share the       *)
(* ledger clock and nothing else: each behaviour exercises one of them,     *)
(* chosen at the start.                                                     *)
(***************************************************************************)
EXTENDS StakingContract, TLC

CONSTANTS s1, s2, usd, xlm, dai

VARIABLE service

stakingVars == <<service, contractVars>>

MCSymmetry == Permutations(Stakers) \cup Permutations(Assets)

-----------------------------------------------------------------------------
(* Stakes *)

EmergencyOf(start, end, decay, cooldown, enabled) ==
  [start |-> start, end |-> end, decay |-> decay, cooldown |-> cooldown, enabled |-> enabled]

MCSchedules ==
  {[kind |-> "Immediate"], [kind |-> "Cliff", unlock |-> 2],
   [kind |-> "Graduated", start |-> 1, interval |-> 1, tranche |-> 5000]}
MCConfigs == {EmergencyOf(4000, 1000, "Linear", 2, TRUE), EmergencyOf(500, 500, "Custom", 2, FALSE)}

(***************************************************************************)
(* One staker is followed through everything a stake may meet; in two       *)
(* assets, with one of them unlocked, no lock position and less time.       *)
(* Where two take part, what matters is how their calls mix, and the rest   *)
(* is kept simple: no lock positions, no graduated schedule, no position    *)
(* closed to more stake, one emergency withdrawal, and the clock stops at   *)
(* the first tick.                                                          *)
(***************************************************************************)
Takes(s) == \E a \in Assets : position[<<s, a>>] # None

StakesKeptSmall ==
  /\ \A s \in Stakers : (\A a \in Assets : position[<<s, a>>] # None) =>
       /\ \E a \in Assets : position[<<s, a>>].schedule.kind = "Immediate"
       /\ lockedAmount[s] = None /\ now <= 2
  /\ (\A s \in Stakers : Takes(s)) =>
       /\ now <= 1
       /\ \A s \in Stakers : lockedAmount[s] = None
       /\ \E s \in Stakers : Len(history[s]) <= 1 /\ \A r \in Stakers \ {s} : history[r] = <<>>
       /\ \A k \in Pairs : position[k] # None =>
            ~position[k].locked /\ position[k].schedule.kind # "Graduated"
       /\ emergency # None => emergency.enabled

-----------------------------------------------------------------------------
(* Yield.  A tick is a day and the rate the factor a day adds to the        *)
(* principal, as in the daily compounding mode.                             *)

MCEarned(principal, rate, days) == principal * ((1 + rate)^days - 1)

MCOffers ==
  {[due |-> 1, interval |-> 0, amount |-> 1], [due |-> 0, interval |-> 1, amount |-> 2]}

(***************************************************************************)
(* Two stakers compete in claims alone; one staker also has distributions   *)
(* on schedule.                                                             *)
(***************************************************************************)
YieldKeptSmall ==
  /\ now <= 2
  /\ \A k \in Yields!Pairs : schedules[k] # <<>> => \A j \in Yields!Pairs \ {k} : record[j] = None

-----------------------------------------------------------------------------
StakingInit == service \in {"stakes", "yield"} /\ ContractInit

StakingNext ==
  /\ \/ service = "stakes" /\ StakeStep
     \/ service = "yield" /\ YieldStep
  /\ UNCHANGED service

StakingSpec == StakingInit /\ [][StakingNext]_stakingVars

KeptSmall ==
  /\ service = "stakes" => StakesKeptSmall
  /\ service = "yield" => YieldKeptSmall
=============================================================================
