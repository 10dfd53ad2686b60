---------------------------- MODULE MCStakingPace ----------------------------
(***************************************************************************)
(* Staking with a history variable: how much was ever staked in a pair.     *)
(***************************************************************************)
EXTENDS Staking

CONSTANTS s1, usd, xlm

VARIABLE deposited

Quarters == [kind |-> "Graduated", start |-> 1, interval |-> 1, tranche |-> 2500]
MCGraduated == {Quarters}
MCNoConfig == {}

PaceInit == Init /\ deposited = [k \in Pairs |-> 0]
PaceNext ==
  /\ Next
  /\ deposited' = [k \in Pairs |-> deposited[k] + SaturatingSub(balance'[k], balance[k])]
PaceSpec == PaceInit /\ [][PaceNext]_<<vars, deposited>>

(***************************************************************************)
(* tests.rs:1776: after one tranche of 25% "only 25% = 250 is unlocked" of  *)
(* 1000 staked: what has left a graduated pair, no emergency withdrawal     *)
(* being possible, is no more than the share its schedule has unlocked.     *)
(***************************************************************************)
GraduatedPace ==
  \A k \in Pairs :
    (position[k] # None /\ position[k].schedule.kind = "Graduated"
       /\ now > position[k].schedule.start) =>
      deposited[k] - balance[k] <= (deposited[k] * UnlockedBps(position[k].schedule)) \div MaxBps
=============================================================================
