---------------------------- MODULE MarketsProofs ----------------------------
(***************************************************************************)
(* Theorems about three contracts of Markets, for any number of calls: the  *)
(* schedules and roles of Portfolio, for any people, portfolios, intervals  *)
(* and grants; the prediction market, for any people, outcomes, terms and   *)
(* amounts; and the order book, of which OrderBookProofs has the proofs.    *)
(***************************************************************************)
EXTENDS Markets, TotalsProofs, SequenceTheorems

Book == INSTANCE OrderBookProofs WITH Prices <- OrderPrices, Amounts <- OrderAmounts

-----------------------------------------------------------------------------
(* The schedules and roles of portfolios *)


(* What a step does to what the theorems are about: nothing, or an entry in *)
(* the history, or a change of a schedule, or time.                         *)
Settings == UNCHANGED <<now, assignment, schedule, executions>>

Noting(f, outcome, details) ==
  /\ executions' = [executions EXCEPT ![f] =
       Append(@, [timestamp |-> now, outcome |-> outcome, details |-> details])]
  /\ UNCHANGED <<now, assignment>>

ByHand(f) ==
  /\ Noting(f, "done", "manual") /\ UNCHANGED schedule

Scheduling(f) ==
  /\ \/ \E p \in People : CancelSchedule(f, p)
     \/ \E p \in People, n \in Intervals : SetSchedule(f, p, n) \/ UpdateSchedule(f, p, n)
  /\ UNCHANGED <<now, assignment, executions>>

LEMMA StepSplits ==
  ASSUME Step
  PROVE  \/ Settings \/ Tick
         \/ \E f \in Portfolios : ByHand(f) \/ Scheduling(f) \/ ExecuteScheduled(f)
<1>1. ASSUME NEW f \in Portfolios, NEW p \in People,
             \/ SetAuditSink(f, p) \/ ScheduleRefused(f, p)
             \/ \E w \in Allocations : SetTargetAllocation(f, p, w) \/ SetCurrentHoldings(f, p, w)
             \/ \E bps \in Thresholds : SetDriftThreshold(f, p, bps)
      PROVE  Settings
  BY <1>1 DEF SetAuditSink, ScheduleRefused, SetTargetAllocation, SetCurrentHoldings,
              SetDriftThreshold, Settings, rbac
<1>2. ASSUME NEW f \in Portfolios, NEW p \in People, NEW c, ConfigureAlerts(f, p, c)
      PROVE  Settings
  BY <1>2 DEF ConfigureAlerts, Settings, rbac
<1>3. ASSUME NEW f \in Portfolios, NEW p \in People, NEW t \in AlertThresholds, NEW e \in BOOLEAN,
             NEW i \in 1..MaxThresholds,
             \/ SetAlertConfig(f, p, <<t>>, e) \/ SetAlertsEnabled(f, p, e)
             \/ AddThreshold(f, p, t) \/ UpdateThreshold(f, p, i, t) \/ RemoveThreshold(f, p, i)
      PROVE  Settings
  BY <1>2, <1>3
  DEF SetAlertConfig, SetAlertsEnabled, AddThreshold, UpdateThreshold, RemoveThreshold
<1>4. ASSUME NEW f \in Portfolios, NEW p \in People, NEW i \in 1..MaxAlerts,
             AcknowledgeAlert(f, p, i)
      PROVE  Settings
  BY <1>4 DEF AcknowledgeAlert, Settings, rbac
<1>5. ASSUME NEW f \in Portfolios, NEW x \in ExtraReadings, CheckAlerts(f, x) PROVE Settings
  BY <1>5 DEF CheckAlerts, Settings, rbac
<1>6. ASSUME NEW f \in Portfolios, NEW p \in People,
             \/ Rebalance(f, p, "REBALANCE") \/ Rebalance(f, p, "EXECUTE_REBALANCE")
      PROVE  ByHand(f)
  BY <1>6 DEF Rebalance, Recorded, ByHand, Noting, rbac
<1>7. ASSUME NEW f \in Portfolios, NEW p \in People,
             \/ CancelSchedule(f, p)
             \/ \E n \in Intervals : SetSchedule(f, p, n) \/ UpdateSchedule(f, p, n)
      PROVE  Scheduling(f)
  BY <1>7 DEF CancelSchedule, SetSchedule, UpdateSchedule, Scheduling, rbac
<1>8. CASE \E f \in Portfolios, p \in People :
       \/ SetAuditSink(f, p) \/ CancelSchedule(f, p) \/ ScheduleRefused(f, p)
       \/ \E w \in Allocations : SetTargetAllocation(f, p, w) \/ SetCurrentHoldings(f, p, w)
       \/ \E bps \in Thresholds : SetDriftThreshold(f, p, bps)
       \/ Rebalance(f, p, "REBALANCE") \/ Rebalance(f, p, "EXECUTE_REBALANCE")
       \/ \E n \in Intervals : SetSchedule(f, p, n) \/ UpdateSchedule(f, p, n)
       \/ \E t \in AlertThresholds : \E e \in BOOLEAN, i \in 1..MaxThresholds :
            \/ SetAlertConfig(f, p, <<t>>, e) \/ SetAlertsEnabled(f, p, e)
            \/ AddThreshold(f, p, t) \/ UpdateThreshold(f, p, i, t) \/ RemoveThreshold(f, p, i)
       \/ \E i \in 1..MaxAlerts : AcknowledgeAlert(f, p, i)
  BY <1>1, <1>3, <1>4, <1>6, <1>7, <1>8
<1>9. CASE \E f \in Portfolios : ExecuteScheduled(f) \/ \E x \in ExtraReadings : CheckAlerts(f, x)
  BY <1>5, <1>9
<1> QED BY <1>8, <1>9 DEF Step

-----------------------------------------------------------------------------
(* Roles *)

NobodyAppointed == \A f \in Portfolios, p \in People : assignment[f][p] = None

(* What assert_permission asks for, nobody has. *)
LEMMA NobodyManages ==
  ASSUME NobodyAppointed, NEW f \in Portfolios, NEW p \in People, NEW q \in People,
         NEW g \in Grants, ManageRoles(f, p, q, g)
  PROVE  FALSE
<1>1. Holds(f, p, "MANAGE_ROLES")
  BY DEF ManageRoles, AssignRole, RevokeRole, ExtendRole, EmergencyRevokeAll, Managed
<1> QED BY <1>1 DEF NobodyAppointed, Holds

LEMMA RolesUntouched ==
  ASSUME NobodyAppointed, [Next]_vars PROVE assignment' = assignment
<1>1. CASE \E f \in Portfolios, p, q \in People, g \in Grants : ManageRoles(f, p, q, g)
  BY <1>1, NobodyManages
<1>2. CASE Step
  BY <1>2, StepSplits DEF Settings, Tick, ByHand, Noting, Scheduling, ExecuteScheduled, rbac
<1>3. CASE UNCHANGED vars
  BY <1>3 DEF vars, rbac
<1> QED BY <1>1, <1>2, <1>3 DEF Next

(***************************************************************************)
(* Nobody is ever given a role, not even by the owner: assign_role asks the *)
(* caller for a role that may manage roles, and there is none to begin with *)
(* (rbac.rs looks at the stored assignments only).                          *)
(***************************************************************************)
THEOREM NobodyHoldsARole ==
  Spec => [](\A f \in Portfolios, p \in People : assignment[f][p] = None)
<1>1. Init => NobodyAppointed
  BY DEF Init, NobodyAppointed
<1>2. NobodyAppointed /\ [Next]_vars => NobodyAppointed'
  BY RolesUntouched DEF NobodyAppointed
<1> QED BY <1>1, <1>2, PTL DEF Spec, NobodyAppointed

-----------------------------------------------------------------------------
(* Schedules *)

(* The history lies in the past, and a schedule that says when it was last  *)
(* executed says so of no earlier time than the history does.               *)
Paced(f) ==
  \A i \in DOMAIN executions[f] :
    LET e == executions[f][i] IN
    /\ e.timestamp <= now
    /\ schedule[f] # None /\ e.details = "schd_exec" =>
         /\ e.timestamp + schedule[f].interval <= schedule[f].next_execution
         /\ schedule[f].last_execution > 0 => e.timestamp <= schedule[f].last_execution

PaceInv ==
  /\ now \in Nat
  /\ schedule \in [Portfolios -> Schedule \cup {None}]
  /\ executions \in [Portfolios -> Seq(Execution)]
  /\ NobodyAppointed
  /\ \A f \in Portfolios : Paced(f)

LEMMA PaceInit == Init => PaceInv
BY DEF Init, PaceInv, Paced, NobodyAppointed

(* What a portfolio has executed is of the right type. *)
LEMMA PastTyped ==
  ASSUME PaceInv, NEW f \in Portfolios, NEW i \in DOMAIN executions[f]
  PROVE  executions[f][i] \in Execution
<1>1. executions[f] \in Seq(Execution)
  BY DEF PaceInv
<1> QED BY <1>1

(* A new entry is the last one. *)
LEMMA Noted ==
  ASSUME PaceInv, NEW f \in Portfolios, NEW outcome, NEW details, Noting(f, outcome, details),
         outcome \in {"done", "no_target", "no_hold"},
         details \in {"manual", "schd_exec"}
  PROVE  /\ executions' \in [Portfolios -> Seq(Execution)]
         /\ \A g \in Portfolios : g # f => executions'[g] = executions[g]
         /\ \A i \in DOMAIN executions'[f] :
              \/ i \in DOMAIN executions[f] /\ executions'[f][i] = executions[f][i]
              \/ executions'[f][i] = [timestamp |-> now, outcome |-> outcome, details |-> details]
<1> DEFINE e == [timestamp |-> now, outcome |-> outcome, details |-> details]
<1>1. e \in Execution
  BY DEF PaceInv, Execution
<1>2. /\ executions \in [Portfolios -> Seq(Execution)] /\ executions[f] \in Seq(Execution)
      /\ executions' = [executions EXCEPT ![f] = Append(@, e)]
  BY DEF PaceInv, Noting
<1> HIDE DEF e
<1>3. Append(executions[f], e) \in Seq(Execution)
  BY <1>1, <1>2
<1>4. executions'[f] = Append(executions[f], e)
  BY <1>2
<1>5. \A i \in DOMAIN Append(executions[f], e) :
        \/ i \in DOMAIN executions[f] /\ Append(executions[f], e)[i] = executions[f][i]
        \/ Append(executions[f], e)[i] = e
  BY <1>2
<1> QED BY <1>2, <1>3, <1>4, <1>5 DEF e

LEMMA PaceByHand ==
  ASSUME PaceInv, NEW f \in Portfolios, ByHand(f) PROVE PaceInv'
<1> DEFINE outcome == "done" details == "manual"
<1>1. Noting(f, outcome, details)
  BY DEF ByHand
<1>2. /\ executions' \in [Portfolios -> Seq(Execution)]
      /\ \A g \in Portfolios : g # f => executions'[g] = executions[g]
      /\ \A i \in DOMAIN executions'[f] :
           \/ i \in DOMAIN executions[f] /\ executions'[f][i] = executions[f][i]
           \/ executions'[f][i] = [timestamp |-> now, outcome |-> outcome, details |-> details]
  BY <1>1, Noted
<1>3. now' = now /\ schedule' = schedule /\ assignment' = assignment /\ now \in Nat
  BY <1>1 DEF Noting, ByHand, PaceInv
<1>4. ASSUME NEW g \in Portfolios, g # f PROVE Paced(g)'
  BY <1>2, <1>3, <1>4 DEF Paced, PaceInv
<1>5. ASSUME NEW i \in DOMAIN executions'[f]
      PROVE  /\ executions'[f][i].timestamp <= now
             /\ executions'[f][i].details = "schd_exec" =>
                  i \in DOMAIN executions[f] /\ executions'[f][i] = executions[f][i]
  <2>1. CASE i \in DOMAIN executions[f] /\ executions'[f][i] = executions[f][i]
    BY <2>1 DEF Paced, PaceInv
  <2>2. CASE executions'[f][i] = [timestamp |-> now, outcome |-> outcome, details |-> details]
    BY <1>1, <1>3, <2>2
  <2> QED BY <1>2, <2>1, <2>2
<1>6. Paced(f)'
  BY <1>3, <1>5 DEF Paced, PaceInv
<1> QED BY <1>2, <1>3, <1>4, <1>6 DEF PaceInv, NobodyAppointed

LEMMA RescheduledIs ==
  ASSUME NEW n \in Nat, NEW next \in Nat, NEW last \in Nat, now \in Nat
  PROVE  Rescheduled([interval |-> n, next_execution |-> next, last_execution |-> last])
           = [interval |-> n, next_execution |-> now + n, last_execution |-> now]
<1> DEFINE s == [interval |-> n, next_execution |-> next, last_execution |-> last]
           t == [interval |-> n, next_execution |-> next, last_execution |-> now]
<1>1. [s EXCEPT !.last_execution = now] = t
  OBVIOUS
<1>2. [t EXCEPT !.next_execution = now + n]
        = [interval |-> n, next_execution |-> now + n, last_execution |-> now]
  OBVIOUS
<1>3. Rescheduled(s) = [[s EXCEPT !.last_execution = now] EXCEPT !.next_execution = now + s.interval]
  BY DEF Rescheduled
<1>4. s.interval = n
  OBVIOUS
<1> QED BY <1>1, <1>2, <1>3, <1>4

LEMMA PaceScheduled ==
  ASSUME PaceInv, NEW f \in Portfolios, ExecuteScheduled(f) PROVE PaceInv'
<1>1. PICK outcome \in {"done", "no_target", "no_hold"} : Noting(f, outcome, "schd_exec")
  BY DEF ExecuteScheduled, Recorded, Noting, rbac
<1>2. /\ executions' \in [Portfolios -> Seq(Execution)]
      /\ \A g \in Portfolios : g # f => executions'[g] = executions[g]
      /\ \A i \in DOMAIN executions'[f] :
           \/ i \in DOMAIN executions[f] /\ executions'[f][i] = executions[f][i]
           \/ executions'[f][i] = [timestamp |-> now, outcome |-> outcome, details |-> "schd_exec"]
  BY <1>1, Noted
<1>3. /\ now' = now /\ assignment' = assignment /\ now \in Nat
      /\ schedule \in [Portfolios -> Schedule \cup {None}] /\ schedule[f] \in Schedule
      /\ schedule' = [schedule EXCEPT ![f] = Rescheduled(schedule[f])]
  BY DEF ExecuteScheduled, PaceInv, rbac
<1>4. /\ Rescheduled(schedule[f]) \in Schedule
      /\ Rescheduled(schedule[f]).interval \in Nat
      /\ Rescheduled(schedule[f]).last_execution = now
      /\ Rescheduled(schedule[f]).next_execution = now + Rescheduled(schedule[f]).interval
  <2> DEFINE s == schedule[f]
  <2>1. PICK n \in Intervals, next \in Nat, last \in Nat :
          s = [interval |-> n, next_execution |-> next, last_execution |-> last]
    BY <1>3 DEF Schedule
  <2>2. n \in Nat
    BY <2>1, IntervalsAssumption
  <2>3. Rescheduled(s) = [interval |-> n, next_execution |-> now + n, last_execution |-> now]
    BY <1>3, <2>1, <2>2, RescheduledIs
  <2>4. Rescheduled(s) \in Schedule
    BY <1>3, <2>1, <2>2, <2>3 DEF Schedule
  <2> QED BY <2>2, <2>3, <2>4
<1> HIDE DEF Rescheduled
<1>5. /\ schedule' \in [Portfolios -> Schedule \cup {None}]
      /\ schedule'[f] = Rescheduled(schedule[f])
      /\ \A g \in Portfolios : g # f => schedule'[g] = schedule[g]
  BY <1>3, <1>4
<1>6. ASSUME NEW g \in Portfolios, g # f PROVE Paced(g)'
  BY <1>2, <1>3, <1>5, <1>6 DEF Paced, PaceInv
<1>7. ASSUME NEW i \in DOMAIN executions'[f]
      PROVE  executions'[f][i].timestamp <= now /\ executions'[f][i].timestamp \in Nat
  <2>1. CASE i \in DOMAIN executions[f] /\ executions'[f][i] = executions[f][i]
    BY <2>1, PastTyped DEF Paced, PaceInv, Execution
  <2>2. CASE executions'[f][i] = [timestamp |-> now, outcome |-> outcome, details |-> "schd_exec"]
    BY <2>2, <1>3
  <2> QED BY <1>2, <2>1, <2>2
<1>8. Paced(f)'
  BY <1>3, <1>4, <1>5, <1>7 DEF Paced
<1> QED BY <1>2, <1>3, <1>5, <1>6, <1>8 DEF PaceInv, NobodyAppointed

(* A schedule that is set, changed or cancelled is as far from the past as  *)
(* its interval asks.                                                       *)
LEMMA PaceScheduling ==
  ASSUME PaceInv, NEW f \in Portfolios, Scheduling(f) PROVE PaceInv'
<1>1. /\ now' = now /\ assignment' = assignment /\ executions' = executions /\ now \in Nat
      /\ executions \in [Portfolios -> Seq(Execution)]
      /\ schedule \in [Portfolios -> Schedule \cup {None}] /\ Paced(f)
  BY DEF Scheduling, PaceInv
<1>2. PICK s \in Schedule \cup {None} :
        /\ schedule' = [schedule EXCEPT ![f] = s]
        /\ s = None \/ /\ s.interval \in Nat
                       /\ \/ s.last_execution = 0 /\ s.next_execution = now + s.interval
                          \/ /\ s.last_execution > 0 /\ schedule[f] \in Schedule
                             /\ schedule[f] # None
                             /\ s.last_execution = schedule[f].last_execution
                             /\ s.next_execution = s.last_execution + s.interval
  <2>1. CASE \E p \in People : CancelSchedule(f, p)
    BY <2>1 DEF CancelSchedule
  <2>2. ASSUME NEW p \in People, NEW n \in Intervals, SetSchedule(f, p, n)
        PROVE  \E s \in Schedule : /\ schedule' = [schedule EXCEPT ![f] = s]
                                   /\ s.interval \in Nat /\ s.last_execution = 0
                                   /\ s.next_execution = now + s.interval
    <3> DEFINE s == [interval |-> n, next_execution |-> now + n, last_execution |-> 0]
    <3>1. n \in Nat /\ s \in Schedule
      BY <1>1, IntervalsAssumption DEF Schedule
    <3>2. schedule' = [schedule EXCEPT ![f] = s]
      BY <2>2 DEF SetSchedule
    <3> QED BY <3>1, <3>2
  <2>3. ASSUME NEW p \in People, NEW n \in Intervals, UpdateSchedule(f, p, n)
        PROVE  \E s \in Schedule :
                 /\ schedule' = [schedule EXCEPT ![f] = s] /\ s.interval \in Nat
                 /\ schedule[f] \in Schedule /\ schedule[f] # None
                 /\ s.last_execution = schedule[f].last_execution
                 /\ s.next_execution = (IF s.last_execution > 0 THEN s.last_execution ELSE now)
                                         + s.interval
    <3> DEFINE last == schedule[f].last_execution
               s == [interval |-> n, last_execution |-> last,
                     next_execution |-> (IF last > 0 THEN last ELSE now) + n]
    <3>1. n \in Nat /\ schedule[f] # None /\ schedule[f] \in Schedule
      BY <2>3, <1>1, IntervalsAssumption DEF UpdateSchedule
    <3>2. last \in Nat
      BY <3>1 DEF Schedule
    <3>3. s \in Schedule
      BY <1>1, <3>1, <3>2 DEF Schedule
    <3>4. schedule' = [schedule EXCEPT ![f] = s]
      BY <2>3 DEF UpdateSchedule
    <3> QED BY <3>1, <3>3, <3>4
  <2>4. ASSUME NEW s \in Schedule PROVE s.last_execution > 0 \/ s.last_execution = 0
    BY DEF Schedule
  <2> QED BY <2>1, <2>2, <2>3, <2>4 DEF Scheduling
<1>3. /\ schedule' \in [Portfolios -> Schedule \cup {None}] /\ schedule'[f] = s
      /\ \A g \in Portfolios : g # f => schedule'[g] = schedule[g]
  BY <1>1, <1>2
<1>4. ASSUME NEW g \in Portfolios, g # f PROVE Paced(g)'
  BY <1>1, <1>3, <1>4 DEF Paced, PaceInv
<1>5. ASSUME NEW i \in DOMAIN executions[f], s # None, executions[f][i].details = "schd_exec"
      PROVE  /\ executions[f][i].timestamp + s.interval <= s.next_execution
             /\ s.last_execution > 0 => executions[f][i].timestamp <= s.last_execution
  <2>1. /\ executions[f][i].timestamp \in Nat /\ executions[f][i].timestamp <= now
        /\ s.interval \in Nat
    BY <1>1, <1>2, <1>5, PastTyped DEF Paced, Execution
  <2>2. CASE s.last_execution = 0 /\ s.next_execution = now + s.interval
    BY <1>1, <2>1, <2>2
  <2>3. CASE /\ s.last_execution > 0 /\ schedule[f] \in Schedule /\ schedule[f] # None
             /\ s.last_execution = schedule[f].last_execution
             /\ s.next_execution = s.last_execution + s.interval
    <3>1. executions[f][i].timestamp <= s.last_execution /\ s.last_execution \in Nat
      BY <1>1, <1>5, <2>3 DEF Paced, Schedule
    <3> QED BY <2>1, <2>3, <3>1
  <2> QED BY <1>2, <1>5, <2>2, <2>3
<1>6. Paced(f)'
  BY <1>1, <1>3, <1>5 DEF Paced
<1> QED BY <1>1, <1>3, <1>4, <1>6 DEF PaceInv, NobodyAppointed

LEMMA PaceStep == PaceInv /\ [Next]_vars => PaceInv'
<1> SUFFICES ASSUME PaceInv, [Next]_vars PROVE PaceInv'
  OBVIOUS
<1>1. CASE Settings
  BY <1>1 DEF Settings, PaceInv, Paced, NobodyAppointed
<1>2. CASE Tick
  <2>1. /\ now \in Nat /\ now' = now + 1 /\ assignment' = assignment
        /\ schedule' = schedule /\ executions' = executions
    BY <1>2 DEF Tick, PaceInv, rbac
  <2>2. ASSUME NEW f \in Portfolios PROVE Paced(f)'
    <3>1. \A i \in DOMAIN executions[f] :
            executions[f][i].timestamp \in Nat /\ executions[f][i].timestamp <= now
      BY PastTyped DEF PaceInv, Paced, Execution
    <3> QED BY <2>1, <3>1 DEF Paced, PaceInv
  <2> QED BY <2>1, <2>2 DEF PaceInv, NobodyAppointed
<1>3. CASE \E f \in Portfolios, p, q \in People, g \in Grants : ManageRoles(f, p, q, g)
  BY <1>3, NobodyManages DEF PaceInv
<1>4. CASE UNCHANGED vars
  BY <1>4, <1>1 DEF vars, Settings, rbac
<1> QED BY <1>1, <1>2, <1>3, <1>4, StepSplits, PaceByHand, PaceScheduling, PaceScheduled DEF Next

(***************************************************************************)
(* SchedulePaced, whatever the intervals.  (It is not inductive: a schedule *)
(* that is changed counts its new interval from its last execution, or from *)
(* now, so the invariant must say that the history is no later than that.)  *)
(***************************************************************************)
THEOREM ScheduledRebalancesPaced == Spec => []SchedulePaced
<1>1. Init => PaceInv
  BY PaceInit
<1>2. PaceInv /\ [Next]_vars => PaceInv'
  BY PaceStep
<1>3. PaceInv => SchedulePaced
  BY DEF PaceInv, Paced, SchedulePaced
<1> QED BY <1>1, <1>2, <1>3, PTL DEF Spec

-----------------------------------------------------------------------------
(* The prediction market *)


(***************************************************************************)
(* What is shown to be kept, part by part: the market and its dispute, the  *)
(* pool and what is in it, the shares, the outcome tokens, the orders, the  *)
(* counters.                                                                *)
(***************************************************************************)
MarketTrue ==
  /\ market \in Predicted!Market \cup {None} /\ dispute \in Predicted!Dispute \cup {None} /\ now \in 0..MaxTime
  /\ Predicted!Is("Resolved") \/ Predicted!Is("Disputed") =>
       market.resolved_outcome \in Outcomes /\ market.resolved_at \in 0..MaxTime
  /\ dispute # None /\ dispute.status = "Pending" => Predicted!Is("Disputed")

PoolTrue ==
  /\ pool \in Predicted!Pool \cup {None}
  /\ pool # None => \A o \in Outcomes :
       pool.k_per_outcome[o] = pool.collateral_reserve * pool.outcome_reserves[o]

SolvencyTrue ==
  pool # None => market # None /\ (market.terms.fee_bps <= 10000 => Predicted!Solvent(pool))

SharesTrue ==
  /\ lpBalance \in [People -> Int] /\ lpTotalSupply \in Int
  /\ Predicted!SumOver(lpBalance) = lpTotalSupply

TokensTrue ==
  /\ outcomeBalance \in [People -> Predicted!Tokens] /\ position \in [People -> Predicted!Position \cup {None}]
  /\ bought \in [People -> Predicted!Tokens] /\ paid \in [People -> Predicted!Tokens]
  /\ Predicted!TokensPaidOnce

OrdersTrue ==
  /\ bids \in Seq(Predicted!PredictionOrder) /\ resting \in Seq(Nat)
  /\ Range(resting) = {id \in DOMAIN bids : bids[id].status = "Active"}
  /\ \A i, j \in DOMAIN resting : i < j => resting[i] < resting[j]

CountsTrue == tradingVolume \in Nat /\ provided \in 0..MaxProvided

PredictionInv ==
  /\ MarketTrue /\ PoolTrue /\ SolvencyTrue /\ SharesTrue
  /\ TokensTrue /\ OrdersTrue /\ CountsTrue

(* IsFiniteSet is the same operator wherever it is taken from. *)
LEMMA PeopleFinite == IsFiniteSet(People)
<1>1. Predicted!IsFiniteSet(People) <=> IsFiniteSet(People)
  BY Zenon DEF IsFiniteSet, Predicted!IsFiniteSet
<1> QED BY <1>1, MarketsAssumption DEF Predicted!PredictionAssumption

(* The community sum, taken apart. *)
LEMMA SumIsSummed == ASSUME NEW f PROVE Predicted!SumOver(f) = Summed(f, People)
BY DEF Predicted!SumOver, Predicted!MapThenSumSet, Predicted!MapThenFoldSet, Summed

LEMMA PredictionStarts == Predicted!Init => PredictionInv
<1> SUFFICES ASSUME Predicted!Init PROVE PredictionInv
  OBVIOUS
<1> DEFINE none == [o \in Outcomes |-> 0]
<1>1. none \in Predicted!Tokens
  BY DEF Predicted!Tokens
<1>2. MarketTrue
  BY MarketsAssumption DEF MarketTrue, Predicted!Init, Predicted!Is, Predicted!PredictionAssumption
<1>3. SharesTrue
  <2>1. lpBalance = [u \in People |-> 0] /\ lpTotalSupply = 0
    BY DEF Predicted!Init
  <2>2. \A u \in People : lpBalance[u] = 0
    BY <2>1
  <2>3. Summed(lpBalance, People) = 0
    BY <2>2, PeopleFinite, SummedZero
  <2> QED BY <2>1, <2>3, SumIsSummed DEF SharesTrue
<1>4. TokensTrue
  BY <1>1 DEF TokensTrue, Predicted!Init, Predicted!TokensPaidOnce
<1>5. OrdersTrue
  BY DEF OrdersTrue, Predicted!Init, Range
<1>6. PoolTrue /\ SolvencyTrue /\ CountsTrue
  BY MarketsAssumption DEF PoolTrue, SolvencyTrue, CountsTrue, Predicted!Init, Predicted!PredictionAssumption
<1> QED BY <1>2, <1>3, <1>4, <1>5, <1>6 DEF PredictionInv

-----------------------------------------------------------------------------
(* The life of the market *)

Decision(m, s, o, t, n) ==
  n = [m EXCEPT !.status = s, !.resolved_outcome = o, !.resolved_at = t]

LEMMA MarketWith ==
  ASSUME NEW m \in Predicted!Market, NEW s, NEW o \in Outcomes \cup {None},
         NEW t \in 0..MaxTime \cup {None}, NEW n, Decision(m, s, o, t, n),
         s \in {"Active", "PendingResolution", "Resolved", "Disputed", "Closed", "Cancelled"}
  PROVE  /\ n \in Predicted!Market /\ n # None
         /\ n.status = s /\ n.resolved_outcome = o /\ n.resolved_at = t /\ n.terms = m.terms
<1> DEFINE a == [m EXCEPT !.status = s]
           b == [a EXCEPT !.resolved_outcome = o]
           c == [b EXCEPT !.resolved_at = t]
<1>1. a \in Predicted!Market /\ a.status = s /\ a.terms = m.terms
  BY DEF Predicted!Market
<1> HIDE DEF a
<1>2. b \in Predicted!Market /\ b.status = s /\ b.resolved_outcome = o /\ b.terms = m.terms
  BY <1>1 DEF Predicted!Market
<1> HIDE DEF b
<1>3. /\ c \in Predicted!Market /\ c.status = s /\ c.resolved_outcome = o /\ c.resolved_at = t
      /\ c.terms = m.terms
  BY <1>2 DEF Predicted!Market
<1>4. c # None
  BY <1>3, MarketsAssumption DEF Predicted!PredictionAssumption
<1>5. c = n
  BY DEF a, b, Decision
<1> QED BY <1>3, <1>4, <1>5

LEMMA StatusWith ==
  ASSUME NEW m \in Predicted!Market, NEW s,
         s \in {"Active", "PendingResolution", "Resolved", "Disputed", "Closed", "Cancelled"}
  PROVE  LET n == [m EXCEPT !.status = s] IN
         /\ n \in Predicted!Market /\ n # None /\ n.status = s
         /\ n.resolved_outcome = m.resolved_outcome /\ n.resolved_at = m.resolved_at /\ n.terms = m.terms
<1> DEFINE n == [m EXCEPT !.status = s]
<1>1. /\ n \in Predicted!Market /\ n.status = s
      /\ n.resolved_outcome = m.resolved_outcome /\ n.resolved_at = m.resolved_at /\ n.terms = m.terms
  BY DEF Predicted!Market
<1>2. n # None
  BY <1>1, MarketsAssumption DEF Predicted!PredictionAssumption
<1> QED BY <1>1, <1>2

(* The calls that only collateral goes in with. *)
LEMMA CollateralWith ==
  ASSUME NEW m \in Predicted!Market, NEW n \in Nat
  PROVE  LET w == [m EXCEPT !.total_collateral = n] IN
         /\ w \in Predicted!Market /\ w # None /\ w.status = m.status
         /\ w.resolved_outcome = m.resolved_outcome /\ w.resolved_at = m.resolved_at /\ w.terms = m.terms
<1> DEFINE w == [m EXCEPT !.total_collateral = n]
<1>1. /\ w \in Predicted!Market /\ w.status = m.status
      /\ w.resolved_outcome = m.resolved_outcome /\ w.resolved_at = m.resolved_at /\ w.terms = m.terms
  BY DEF Predicted!Market
<1>2. w # None
  BY <1>1, MarketsAssumption DEF Predicted!PredictionAssumption
<1> QED BY <1>1, <1>2

LEMMA MarketCreated ==
  ASSUME MarketTrue, NEW u \in People, NEW t \in Terms, Predicted!CreateMarket(u, t)
  PROVE  MarketTrue'
<1>1. /\ market' \in Predicted!Market /\ market'.status = "Active" /\ market = None
      /\ dispute' = dispute /\ now' = now
  BY DEF Predicted!CreateMarket, Predicted!Market
<1>2. ~(dispute # None /\ dispute.status = "Pending")
  BY <1>1 DEF MarketTrue, Predicted!Is
<1> QED BY <1>1, <1>2 DEF MarketTrue, Predicted!Is

LEMMA MarketOver ==
  ASSUME MarketTrue,
         \/ Predicted!FinalizeTrading \/ Predicted!CancelMarket
         \/ \E u \in People : Predicted!EarlyClose(u)
  PROVE  MarketTrue'
<1>1. /\ market \in Predicted!Market /\ Predicted!Is("Active") /\ market # None /\ market.status = "Active"
      /\ dispute' = dispute /\ now' = now /\ now \in 0..MaxTime
  BY DEF MarketTrue, Predicted!FinalizeTrading, Predicted!CancelMarket, Predicted!EarlyClose, Predicted!Is
<1>2. ~(dispute # None /\ dispute.status = "Pending")
  BY <1>1 DEF MarketTrue, Predicted!Is
<1>3. market' \in Predicted!Market /\ market'.status \in {"PendingResolution", "Cancelled", "Closed"}
  <2>1. CASE Predicted!FinalizeTrading \/ Predicted!CancelMarket
    <3>1. PICK s \in {"PendingResolution", "Cancelled"} : market' = [market EXCEPT !.status = s]
      BY <2>1 DEF Predicted!FinalizeTrading, Predicted!CancelMarket
    <3> QED BY <1>1, <3>1, StatusWith
  <2>2. CASE \E u \in People : Predicted!EarlyClose(u)
    <3>1. Decision(market, "Closed", None, now, market')
      BY <2>2 DEF Predicted!EarlyClose, Decision
    <3> QED BY <1>1, <3>1, MarketWith
  <2> QED BY <2>1, <2>2
<1> QED BY <1>1, <1>2, <1>3 DEF MarketTrue, Predicted!Is

LEMMA MarketResolved ==
  ASSUME MarketTrue, NEW o \in Outcomes, Predicted!SubmitResolution(o)
  PROVE  MarketTrue'
<1>1. /\ market \in Predicted!Market /\ market # None /\ market.status = "PendingResolution"
      /\ dispute' = dispute /\ now' = now /\ now \in 0..MaxTime
      /\ Decision(market, "Resolved", o, now, market')
  BY DEF MarketTrue, Predicted!SubmitResolution, Predicted!Is, Decision
<1>2. ~(dispute # None /\ dispute.status = "Pending")
  BY <1>1 DEF MarketTrue, Predicted!Is
<1>3. /\ market' \in Predicted!Market /\ market'.status = "Resolved"
      /\ market'.resolved_outcome = o /\ market'.resolved_at = now
  BY <1>1, MarketWith
<1> QED BY <1>1, <1>2, <1>3 DEF MarketTrue, Predicted!Is

LEMMA MarketDisputed ==
  ASSUME MarketTrue, NEW o \in Outcomes, NEW b \in Bonds, Predicted!FileDispute(o, b)
  PROVE  MarketTrue'
<1>1. /\ market \in Predicted!Market /\ Predicted!Is("Resolved") /\ market' = [market EXCEPT !.status = "Disputed"]
      /\ dispute' = [claimed |-> o, status |-> "Pending"] /\ now' = now
  BY DEF MarketTrue, Predicted!FileDispute, Predicted!Is
<1>2. /\ market' \in Predicted!Market /\ market' # None /\ market'.status = "Disputed"
      /\ market'.resolved_outcome = market.resolved_outcome
      /\ market'.resolved_at = market.resolved_at
  BY <1>1, StatusWith
<1>3. dispute' \in Predicted!Dispute
  BY <1>1 DEF Predicted!Dispute
<1> QED BY <1>1, <1>2, <1>3 DEF MarketTrue, Predicted!Is

LEMMA MarketDecided ==
  ASSUME MarketTrue, NEW accepted \in BOOLEAN, Predicted!ResolveDispute(accepted)
  PROVE  MarketTrue'
<1> DEFINE o == IF accepted THEN dispute.claimed ELSE market.resolved_outcome
           t == IF accepted THEN now ELSE market.resolved_at
<1>1. /\ market \in Predicted!Market /\ Predicted!Is("Disputed") /\ dispute \in Predicted!Dispute /\ now' = now
      /\ Decision(market, "Resolved", o, t, market')
      /\ dispute' = [dispute EXCEPT !.status = IF accepted THEN "Accepted" ELSE "Rejected"]
  BY DEF MarketTrue, Predicted!ResolveDispute, Predicted!Is, Decision
<1>2. o \in Outcomes /\ t \in 0..MaxTime
  BY <1>1 DEF MarketTrue, Predicted!Dispute
<1> HIDE DEF o, t
<1>3. /\ market' \in Predicted!Market /\ market'.status = "Resolved"
      /\ market'.resolved_outcome = o /\ market'.resolved_at = t
  BY <1>1, <1>2, MarketWith
<1>4. dispute' \in Predicted!Dispute /\ dispute'.status # "Pending"
  BY <1>1 DEF Predicted!Dispute
<1> QED BY <1>1, <1>2, <1>3, <1>4 DEF MarketTrue, Predicted!Is

(* Collateral is added to an open market only. *)
LEMMA MarketFunded ==
  ASSUME MarketTrue, Predicted!Is("Active"), NEW n \in Nat, market' = [market EXCEPT !.total_collateral = n],
         dispute' = dispute, now' = now
  PROVE  MarketTrue'
<1>1. market \in Predicted!Market /\ market.status = "Active"
  BY DEF MarketTrue, Predicted!Is
<1>2. market' \in Predicted!Market /\ market'.status = "Active"
  BY <1>1, CollateralWith
<1>3. ~(dispute # None /\ dispute.status = "Pending")
  BY <1>1 DEF MarketTrue, Predicted!Is
<1> QED BY <1>2, <1>3 DEF MarketTrue, Predicted!Is

-----------------------------------------------------------------------------
(* The pool and the shares in it *)

(* What Prediction assumes of the amounts. *)
LEMMA AmountsAre ==
  /\ Outcomes \in SUBSET Nat /\ Outcomes # {} /\ \A t \in Terms : t.fee_bps \in Int
  /\ Seeds \subseteq Int /\ Deposits \subseteq Int /\ Stakes \subseteq Int
  /\ TokenAmounts \subseteq Int /\ MinLiquidity \in Nat /\ DisputePeriod \in Nat
  /\ MaxTime \in Nat /\ MaxProvided \in Nat
  /\ None \notin Predicted!Position
BY MarketsAssumption DEF Predicted!PredictionAssumption

(* A pool whose fields are written anew, and its products with them. *)
Rewritten(p, c, r, l, f, q) ==
  q = Predicted!WithK([p EXCEPT !.collateral_reserve = c, !.outcome_reserves = r, !.lp_supply = l,
                        !.fees_accumulated = f])

(* What comes of it: the products are those of the reserves, and nothing is *)
(* below zero that was not written so.                                      *)
Renewed(c, r, l, f, q) ==
  /\ q \in Predicted!Pool
  /\ \A o \in Outcomes : q.k_per_outcome[o] = q.collateral_reserve * q.outcome_reserves[o]
  /\ q.collateral_reserve = c /\ q.outcome_reserves = r /\ q.fees_accumulated = f
  /\ c >= 0 /\ l >= 0 /\ (\A o \in Outcomes : r[o] >= 0) => Predicted!Solvent(q)

LEMMA PoolRewritten ==
  ASSUME NEW p \in Predicted!Pool, NEW c \in Int, NEW r \in Predicted!Reserves, NEW l \in Int,
         NEW f \in Int, NEW q, Rewritten(p, c, r, l, f, q)
  PROVE  Renewed(c, r, l, f, q)
<1> DEFINE p1 == [p EXCEPT !.collateral_reserve = c]
           p2 == [p1 EXCEPT !.outcome_reserves = r]
           p3 == [p2 EXCEPT !.lp_supply = l]
           p4 == [p3 EXCEPT !.fees_accumulated = f]
           k == [o \in Outcomes |-> c * r[o]]
           p5 == [p4 EXCEPT !.k_per_outcome = k]
<1>1. p1 \in Predicted!Pool /\ p1.collateral_reserve = c
  BY DEF Predicted!Pool
<1> HIDE DEF p1
<1>2. p2 \in Predicted!Pool /\ p2.collateral_reserve = c /\ p2.outcome_reserves = r
  BY <1>1 DEF Predicted!Pool
<1> HIDE DEF p2
<1>3. p3 \in Predicted!Pool /\ p3.collateral_reserve = c /\ p3.outcome_reserves = r /\ p3.lp_supply = l
  BY <1>2 DEF Predicted!Pool
<1> HIDE DEF p3
<1>4. /\ p4 \in Predicted!Pool /\ p4.collateral_reserve = c /\ p4.outcome_reserves = r
      /\ p4.lp_supply = l /\ p4.fees_accumulated = f
  BY <1>3 DEF Predicted!Pool
<1>5. q = Predicted!WithK(p4)
  BY DEF Rewritten, p1, p2, p3
<1> HIDE DEF p4
<1>6. q = p5
  BY <1>4, <1>5 DEF Predicted!WithK
<1>7. k \in Predicted!Reserves
  BY DEF Predicted!Reserves
<1> HIDE DEF k
<1>8. /\ p5 \in Predicted!Pool /\ p5.collateral_reserve = c /\ p5.outcome_reserves = r
      /\ p5.lp_supply = l /\ p5.fees_accumulated = f /\ p5.k_per_outcome = k
  BY <1>4, <1>7 DEF Predicted!Pool
<1> QED BY <1>6, <1>8 DEF Renewed, k, Predicted!Solvent

(* The pool a seed opens. *)
LEMMA PoolOpened ==
  ASSUME NEW n \in Nat, NEW q,
         q = Predicted!WithK([collateral_reserve |-> n, outcome_reserves |-> [o \in Outcomes |-> n],
                      lp_supply |-> n, k_per_outcome |-> <<>>, fees_accumulated |-> 0])
  PROVE  /\ q \in Predicted!Pool
         /\ \A o \in Outcomes : q.k_per_outcome[o] = q.collateral_reserve * q.outcome_reserves[o]
         /\ Predicted!Solvent(q)
<1> DEFINE r == [o \in Outcomes |-> n]
           p == [collateral_reserve |-> n, outcome_reserves |-> r, lp_supply |-> n,
                 k_per_outcome |-> <<>>, fees_accumulated |-> 0]
           k == [o \in Outcomes |-> n * r[o]]
<1>1. q = [p EXCEPT !.k_per_outcome = k]
  BY DEF Predicted!WithK
<1>2. r \in Predicted!Reserves /\ k \in Predicted!Reserves /\ \A o \in Outcomes : r[o] >= 0
  BY DEF Predicted!Reserves
<1> HIDE DEF r, k
<1>3. q = [collateral_reserve |-> n, outcome_reserves |-> r, lp_supply |-> n,
           k_per_outcome |-> k, fees_accumulated |-> 0]
  BY <1>1
<1> QED BY <1>2, <1>3 DEF Predicted!Pool, Predicted!Solvent, k

(* A quotient is an integer, and that of TLA+ where nothing is negative.    *)
LEMMA QuotIs ==
  ASSUME NEW a \in Int, NEW b \in Int \ {0}
  PROVE  /\ Predicted!Quot(a, b) \in Int
         /\ a >= 0 /\ b > 0 => Predicted!Quot(a, b) = a \div b
<1>1. Predicted!Size(a) \in Nat /\ Predicted!Size(b) \in Nat \ {0}
  BY DEF Predicted!Size
<1>2. Predicted!Size(a) \div Predicted!Size(b) \in Int
  BY <1>1
<1> QED BY <1>2 DEF Predicted!Quot, Predicted!Size

(* A part of a reserve, rounded down. *)
LEMMA PartOf ==
  ASSUME NEW r \in Nat, NEW n \in Nat, NEW d \in Nat \ {0}
  PROVE  Predicted!Quot(r * n, d) \in Nat /\ (n <= d => Predicted!Quot(r * n, d) <= r)
<1> DEFINE q == (r * n) \div d
<1>1. r * n \in Nat
  OBVIOUS
<1>2. q \in Nat /\ d * q <= r * n
  BY <1>1
<1>3. ASSUME n <= d, q > r PROVE FALSE
  <2> HIDE DEF q
  <2>1. r * n <= r * d
    BY <1>3
  <2>2. d * q >= d * (r + 1)
    BY <1>2, <1>3
  <2>3. d * (r + 1) = d * r + d /\ d * r = r * d /\ d * r \in Nat /\ r * n \in Nat /\ d * q \in Nat
    BY <1>2
  <2> QED BY <1>2, <2>1, <2>2, <2>3
<1> HIDE DEF q
<1>4. q \in Nat /\ (n <= d => q <= r)
  BY <1>2, <1>3
<1>5. Predicted!Quot(r * n, d) = q
  <2> DEFINE x == r * n
  <2>1. x \in Int /\ x >= 0 /\ d \in Int \ {0} /\ d > 0
    BY <1>1
  <2> HIDE DEF x
  <2>2. Predicted!Quot(x, d) = x \div d
    BY <2>1, QuotIs
  <2> QED BY <2>2 DEF x, q
<1> QED BY <1>4, <1>5

(* One share changes with the total. *)
LEMMA SharesMoved ==
  ASSUME SharesTrue, NEW u \in People, NEW d \in Int,
         lpBalance' = [lpBalance EXCEPT ![u] = @ + d], lpTotalSupply' = lpTotalSupply + d
  PROVE  SharesTrue'
<1>1. lpBalance \in [People -> Int] /\ lpTotalSupply \in Int
  BY DEF SharesTrue
<1>2. /\ lpBalance' \in [People -> Int] /\ lpBalance'[u] = lpBalance[u] + d
      /\ \A v \in People \ {u} : lpBalance'[v] = lpBalance[v]
  BY <1>1
<1>3. \A v \in People : lpBalance[v] \in Int
  BY <1>1
<1>4. Summed(lpBalance', People) = Summed(lpBalance, People) + d
  <2> DEFINE f == lpBalance
             g == lpBalance'
  <2>1. /\ \A v \in People : f[v] \in Int /\ g[u] = f[u] + d
        /\ \A v \in People \ {u} : g[v] = f[v]
    BY <1>2, <1>3
  <2>2. Summed(g, People) = Summed(f, People) + d
    <3> HIDE DEF f, g
    <3> QED BY <2>1, PeopleFinite, SummedShift
  <2> QED BY <2>2
<1>5. Predicted!SumOver(lpBalance') = Predicted!SumOver(lpBalance) + d
  BY <1>4, SumIsSummed
<1>6. Predicted!SumOver(lpBalance)' = Predicted!SumOver(lpBalance')
  BY DEF Predicted!SumOver, Predicted!MapThenSumSet, Predicted!MapThenFoldSet
<1> QED BY <1>1, <1>2, <1>5, <1>6 DEF SharesTrue

LEMMA SharesKept ==
  ASSUME SharesTrue, lpBalance' = lpBalance, lpTotalSupply' = lpTotalSupply
  PROVE  SharesTrue'
BY DEF SharesTrue, Predicted!SumOver, Predicted!MapThenSumSet, Predicted!MapThenFoldSet

LEMMA CountsProvided ==
  ASSUME CountsTrue, Predicted!Providing, tradingVolume' = tradingVolume PROVE CountsTrue'
BY AmountsAre DEF CountsTrue, Predicted!Providing

LEMMA PoolCreated ==
  ASSUME MarketTrue, SharesTrue, CountsTrue, NEW u \in People, NEW n \in Seeds,
         Predicted!CreateLiquidityPool(u, n)
  PROVE  MarketTrue' /\ PoolTrue' /\ SharesTrue' /\ CountsTrue' /\ Predicted!Solvent(pool')
<1>1. n \in Nat
  BY AmountsAre DEF Predicted!CreateLiquidityPool
<1>2. /\ Predicted!Is("Active") /\ market' = [market EXCEPT !.total_collateral = n]
      /\ dispute' = dispute /\ now' = now
      /\ lpBalance' = [lpBalance EXCEPT ![u] = @ + n] /\ lpTotalSupply' = lpTotalSupply + n
      /\ Predicted!Providing /\ tradingVolume' = tradingVolume
      /\ pool' = Predicted!WithK([collateral_reserve |-> n, outcome_reserves |-> [o \in Outcomes |-> n],
                          lp_supply |-> n, k_per_outcome |-> <<>>, fees_accumulated |-> 0])
  BY DEF Predicted!CreateLiquidityPool
<1>3. MarketTrue'
  BY <1>1, <1>2, MarketFunded
<1>4. PoolTrue' /\ Predicted!Solvent(pool')
  BY <1>1, <1>2, PoolOpened DEF PoolTrue
<1>5. SharesTrue'
  <2>1. n \in Int
    BY <1>1
  <2> QED BY <1>2, <2>1, SharesMoved
<1> QED BY <1>2, <1>3, <1>4, <1>5, CountsProvided

LEMMA AtLeastOne == ASSUME NEW c \in Int PROVE Predicted!Max({c, 1}) \in Nat \ {0}
<1>1. \E x \in {c, 1} : \A y \in {c, 1} : x >= y
  <2>1. CASE c >= 1
    BY <2>1
  <2>2. CASE c < 1
    BY <2>2
  <2> QED BY <2>1, <2>2
<1>2. Predicted!Max({c, 1}) \in {c, 1} /\ Predicted!Max({c, 1}) >= 1
  BY <1>1 DEF Predicted!Max
<1> QED BY <1>2

LEMMA FirstOutcome == Predicted!Min(Outcomes) \in Outcomes
<1>1. \E m \in Outcomes : \A n \in Outcomes : m <= n
  BY AmountsAre, LeastNat
<1> QED BY <1>1 DEF Predicted!Min

LEMMA LiquidityAdded ==
  ASSUME MarketTrue, PoolTrue, SharesTrue, CountsTrue, NEW u \in People, NEW n \in Deposits,
         Predicted!AddLiquidity(u, n)
  PROVE  /\ MarketTrue' /\ PoolTrue' /\ SharesTrue' /\ CountsTrue'
         /\ Predicted!Solvent(pool) => Predicted!Solvent(pool')
<1> DEFINE c == pool.collateral_reserve
           l == pool.lp_supply
           r == pool.outcome_reserves
           share(x) == Predicted!Quot(x * n, Predicted!Max({c, 1}))
           first == l = 0
           minted == IF first THEN n ELSE Predicted!Quot(n * l, c)
           gain(x) == IF first THEN n ELSE share(x)
           more == gain(r[Predicted!Min(Outcomes)])
           reserves == [o \in Outcomes |-> r[o] + gain(r[o])]
<1>1. /\ pool \in Predicted!Pool /\ n \in Nat /\ Predicted!Is("Active") /\ market \in Predicted!Market
      /\ l # 0 => c # 0
  BY AmountsAre DEF Predicted!AddLiquidity, PoolTrue, Predicted!Is, MarketTrue
<1>2. /\ c \in Int /\ l \in Int /\ pool.fees_accumulated \in Int
      /\ r \in [Outcomes -> Int] /\ market.total_collateral \in Nat
  BY <1>1 DEF Predicted!Pool, Predicted!Reserves, Predicted!Market
<1>3. Predicted!Max({c, 1}) \in Nat \ {0}
  BY <1>2, AtLeastOne
<1>4. \A x \in Int : gain(x) \in Int /\ (x >= 0 => gain(x) >= 0)
  <2>1. ASSUME NEW x \in Int PROVE share(x) \in Int /\ (x >= 0 => share(x) >= 0)
    <3>1. x * n \in Int
      BY <1>1
    <3>2. share(x) \in Int
      BY <1>3, <3>1, QuotIs
    <3>3. x >= 0 => share(x) >= 0
      BY <1>1, <1>3, PartOf
    <3> QED BY <3>2, <3>3
  <2> HIDE DEF share
  <2> QED BY <1>1, <2>1
<1>5. minted \in Int /\ (c >= 0 /\ l >= 0 => minted >= 0)
  <2>1. CASE first
    BY <1>1, <2>1
  <2>2. CASE ~first
    <3>1. c \in Int \ {0} /\ n * l \in Int
      BY <1>1, <1>2, <2>2
    <3>2. Predicted!Quot(n * l, c) \in Int
      BY <3>1, QuotIs
    <3>3. c >= 0 /\ l >= 0 => Predicted!Quot(n * l, c) >= 0
      BY <1>1, <1>2, <3>1, PartOf
    <3> QED BY <2>2, <3>2, <3>3
  <2> QED BY <2>1, <2>2
<1>6. Rewritten(pool, c + more, reserves, l + minted, pool.fees_accumulated, pool')
  <2>1. pool' = Predicted!WithK([pool EXCEPT !.collateral_reserve = @ + more, !.outcome_reserves = reserves,
                                     !.lp_supply = @ + minted])
    BY DEF Predicted!AddLiquidity
  <2> HIDE DEF more, minted, reserves
  <2>2. [pool EXCEPT !.collateral_reserve = @ + more, !.outcome_reserves = reserves,
                     !.lp_supply = @ + minted]
        = [pool EXCEPT !.collateral_reserve = c + more, !.outcome_reserves = reserves,
                       !.lp_supply = l + minted, !.fees_accumulated = pool.fees_accumulated]
    BY <1>1 DEF Predicted!Pool
  <2> QED BY <2>1, <2>2 DEF Rewritten
<1>7. /\ Predicted!Providing /\ tradingVolume' = tradingVolume /\ dispute' = dispute /\ now' = now
      /\ market' = [market EXCEPT !.total_collateral = @ + n]
      /\ lpBalance' = [lpBalance EXCEPT ![u] = @ + minted] /\ lpTotalSupply' = lpTotalSupply + minted
  BY DEF Predicted!AddLiquidity
<1> HIDE DEF gain, minted
<1>8. /\ more \in Int /\ (r[Predicted!Min(Outcomes)] >= 0 => more >= 0)
      /\ reserves \in Predicted!Reserves
      /\ (\A o \in Outcomes : r[o] >= 0) => \A o \in Outcomes : reserves[o] >= 0
  <2>1. Predicted!Min(Outcomes) \in Outcomes
    BY FirstOutcome
  <2>2. \A o \in Outcomes : r[o] \in Int /\ gain(r[o]) \in Int /\ (r[o] >= 0 => gain(r[o]) >= 0)
    BY <1>2, <1>4
  <2> QED BY <2>1, <2>2 DEF Predicted!Reserves
<1> HIDE DEF more, reserves
<1>9. /\ c + more \in Int /\ l + minted \in Int
      /\ Predicted!Solvent(pool) => /\ c + more >= 0 /\ l + minted >= 0
                                    /\ \A o \in Outcomes : reserves[o] >= 0
  <2>1. Predicted!Solvent(pool) => c >= 0 /\ l >= 0 /\ \A o \in Outcomes : r[o] >= 0
    BY DEF Predicted!Solvent
  <2> HIDE DEF c, l, r
  <2> QED BY <1>2, <1>5, <1>8, <2>1, FirstOutcome
<1> HIDE DEF c, l, r
<1>10. PoolTrue' /\ (Predicted!Solvent(pool) => Predicted!Solvent(pool'))
  <2> DEFINE f == pool.fees_accumulated
             g == c + more
             h == l + minted
  <2>1. /\ pool \in Predicted!Pool /\ g \in Int /\ reserves \in Predicted!Reserves /\ h \in Int
        /\ f \in Int /\ Rewritten(pool, g, reserves, h, f, pool')
    BY <1>1, <1>2, <1>6, <1>8, <1>9
  <2> HIDE DEF f, g, h
  <2>2. Renewed(g, reserves, h, f, pool')
    BY <2>1, PoolRewritten
  <2> QED BY <1>9, <2>2 DEF PoolTrue, Renewed, g, h
<1>11. MarketTrue'
  <2>1. /\ market' = [market EXCEPT !.total_collateral = market.total_collateral + n]
        /\ market.total_collateral + n \in Nat
    BY <1>1, <1>2, <1>7
  <2> QED BY <1>1, <1>7, <2>1, MarketFunded
<1> QED BY <1>5, <1>7, <1>10, <1>11, SharesMoved, CountsProvided

LEMMA LiquidityRemoved ==
  ASSUME MarketTrue, PoolTrue, SharesTrue, CountsTrue, NEW u \in People, NEW n \in Deposits,
         Predicted!RemoveLiquidity(u, n)
  PROVE  /\ MarketTrue' /\ PoolTrue' /\ SharesTrue' /\ CountsTrue'
         /\ Predicted!Solvent(pool) => Predicted!Solvent(pool')
<1> DEFINE l == pool.lp_supply
           c == pool.collateral_reserve
           out(r) == Predicted!Quot(r * n, l)
           reserves == [o \in Outcomes |-> pool.outcome_reserves[o] - out(pool.outcome_reserves[o])]
<1>1. pool \in Predicted!Pool /\ n \in 1..l
  BY DEF Predicted!RemoveLiquidity, PoolTrue
<1>2. /\ c \in Int /\ l \in Int /\ pool.fees_accumulated \in Int
      /\ pool.outcome_reserves \in [Outcomes -> Int]
  BY <1>1 DEF Predicted!Pool, Predicted!Reserves
<1>3. n \in Nat /\ l \in Nat \ {0} /\ n <= l
  BY <1>1, <1>2
<1>4. \A r \in Int : out(r) \in Int /\ (r >= 0 => out(r) <= r)
  <2>1. ASSUME NEW r \in Int PROVE out(r) \in Int /\ (r >= 0 => out(r) <= r)
    <3>1. r * n \in Int
      BY <1>3
    <3>2. out(r) \in Int
      BY <1>3, <3>1, QuotIs
    <3>3. r >= 0 => out(r) <= r
      BY <1>3, PartOf
    <3> QED BY <3>2, <3>3
  <2> QED BY <2>1
<1>5. Rewritten(pool, c - out(c), reserves, l - n, pool.fees_accumulated, pool')
  <2>1. pool' = Predicted!WithK([pool EXCEPT !.collateral_reserve = @ - out(@),
                                     !.outcome_reserves = reserves, !.lp_supply = @ - n])
    BY DEF Predicted!RemoveLiquidity
  <2> HIDE DEF reserves
  <2>2. [pool EXCEPT !.collateral_reserve = @ - out(@), !.outcome_reserves = reserves,
                     !.lp_supply = @ - n]
        = [pool EXCEPT !.collateral_reserve = c - out(c), !.outcome_reserves = reserves,
                       !.lp_supply = l - n, !.fees_accumulated = pool.fees_accumulated]
    BY <1>1 DEF Predicted!Pool
  <2> QED BY <2>1, <2>2 DEF Rewritten
<1>6. /\ Predicted!Providing /\ tradingVolume' = tradingVolume /\ dispute' = dispute /\ now' = now
      /\ market' = market
      /\ lpBalance' = [lpBalance EXCEPT ![u] = @ - n] /\ lpTotalSupply' = lpTotalSupply - n
  BY DEF Predicted!RemoveLiquidity
<1> HIDE DEF out
<1>7. /\ c - out(c) \in Int /\ l - n \in Int /\ -n \in Int /\ l - n >= 0
      /\ c >= 0 => c - out(c) >= 0
  BY <1>2, <1>3, <1>4
<1>8. /\ reserves \in Predicted!Reserves
      /\ (\A o \in Outcomes : pool.outcome_reserves[o] >= 0) => \A o \in Outcomes : reserves[o] >= 0
  <2>1. \A o \in Outcomes :
          /\ pool.outcome_reserves[o] \in Int /\ out(pool.outcome_reserves[o]) \in Int
          /\ pool.outcome_reserves[o] >= 0 =>
               out(pool.outcome_reserves[o]) <= pool.outcome_reserves[o]
    BY <1>2, <1>4
  <2> QED BY <2>1 DEF Predicted!Reserves
<1> HIDE DEF reserves
<1>9. PoolTrue' /\ (Predicted!Solvent(pool) => Predicted!Solvent(pool'))
  <2>1. Predicted!Solvent(pool) => c >= 0 /\ \A o \in Outcomes : pool.outcome_reserves[o] >= 0
    BY DEF Predicted!Solvent
  <2> DEFINE f == pool.fees_accumulated
             g == c - out(c)
             h == l - n
  <2>2. /\ pool \in Predicted!Pool /\ g \in Int /\ reserves \in Predicted!Reserves /\ h \in Int
        /\ f \in Int /\ Rewritten(pool, g, reserves, h, f, pool')
    BY <1>1, <1>2, <1>5, <1>7, <1>8
  <2> HIDE DEF f, g, h, c, l
  <2>3. Renewed(g, reserves, h, f, pool')
    BY <2>2, PoolRewritten
  <2> QED BY <1>7, <1>8, <2>1, <2>3 DEF PoolTrue, Renewed, g, h
<1>10. SharesTrue'
  <2>1. lpBalance \in [People -> Int] /\ lpTotalSupply \in Int
    BY DEF SharesTrue
  <2>2. /\ lpBalance' = [lpBalance EXCEPT ![u] = @ + (-n)]
        /\ lpTotalSupply' = lpTotalSupply + (-n)
    BY <1>3, <1>6, <2>1
  <2> QED BY <1>7, <2>2, SharesMoved
<1>11. MarketTrue'
  BY <1>6 DEF MarketTrue, Predicted!Is
<1> QED BY <1>6, <1>9, <1>10, <1>11, CountsProvided

LEMMA FeesDistributed ==
  ASSUME PoolTrue, Predicted!DistributeFees
  PROVE  PoolTrue' /\ (Predicted!Solvent(pool) => Predicted!Solvent(pool'))
<1> DEFINE c == pool.collateral_reserve
           f == pool.fees_accumulated
<1>1. pool \in Predicted!Pool /\ f > 0
  BY DEF Predicted!DistributeFees, PoolTrue
<1>2. c \in Int /\ f \in Int /\ pool.lp_supply \in Int /\ pool.outcome_reserves \in Predicted!Reserves
  BY <1>1 DEF Predicted!Pool
<1>3. Rewritten(pool, c + f, pool.outcome_reserves, pool.lp_supply, 0, pool')
  <2>1. pool' = Predicted!WithK([pool EXCEPT !.collateral_reserve = @ + f, !.fees_accumulated = 0])
    BY DEF Predicted!DistributeFees
  <2>2. [pool EXCEPT !.collateral_reserve = @ + f, !.fees_accumulated = 0]
        = [pool EXCEPT !.collateral_reserve = c + f, !.outcome_reserves = pool.outcome_reserves,
                       !.lp_supply = pool.lp_supply, !.fees_accumulated = 0]
    BY <1>1 DEF Predicted!Pool
  <2> QED BY <2>1, <2>2 DEF Rewritten
<1>4. c + f \in Int /\ 0 \in Int /\ (c >= 0 => c + f >= 0)
  BY <1>1, <1>2
<1>5. Predicted!Solvent(pool) =>
        c >= 0 /\ pool.lp_supply >= 0 /\ \A o \in Outcomes : pool.outcome_reserves[o] >= 0
  BY DEF Predicted!Solvent
<1> HIDE DEF c, f
<1>6. /\ pool' \in Predicted!Pool
      /\ \A o \in Outcomes :
           pool'.k_per_outcome[o] = pool'.collateral_reserve * pool'.outcome_reserves[o]
      /\ c + f >= 0 /\ pool.lp_supply >= 0
           /\ (\A o \in Outcomes : pool.outcome_reserves[o] >= 0) => Predicted!Solvent(pool')
  <2> DEFINE r == pool.outcome_reserves
             l == pool.lp_supply
             g == c + f
             e == 0
  <2>1. /\ pool \in Predicted!Pool
        /\ g \in Int /\ r \in Predicted!Reserves /\ l \in Int /\ e \in Int
        /\ Rewritten(pool, g, r, l, e, pool')
    BY <1>1, <1>2, <1>3, <1>4
  <2> HIDE DEF r, l, g, e, f
  <2>2. Renewed(g, r, l, e, pool')
    BY <2>1, PoolRewritten
  <2> QED BY <2>2 DEF Renewed, r, l, g
<1> QED BY <1>4, <1>5, <1>6 DEF PoolTrue

-----------------------------------------------------------------------------
(* Trades *)

LEMMA FeeIs ==
  ASSUME MarketTrue, market # None, NEW n \in Int
  PROVE  /\ Predicted!Fee(n) \in Int
         /\ n >= 0 /\ market.terms.fee_bps <= 10000 => Predicted!Fee(n) <= n
<1> DEFINE rate == market.terms.fee_bps
           fee == Predicted!Quot(n * rate, 10000)
<1>1. market.terms \in Terms
  BY DEF MarketTrue, Predicted!Market
<1>2. rate \in Int
  BY <1>1, AmountsAre
<1> HIDE DEF rate
<1>3. fee \in Int
  <2>1. n * rate \in Int
    BY <1>2
  <2> QED BY <2>1, QuotIs
<1>4. CASE n >= 0 /\ rate \in 0..10000
  <2> DEFINE d == 10000
  <2>1. n \in Nat /\ rate \in Nat /\ d \in Nat \ {0} /\ rate <= d
    BY <1>4
  <2> HIDE DEF d
  <2>2. Predicted!Quot(n * rate, d) <= n
    BY <2>1, PartOf
  <2> QED BY <1>3, <2>2 DEF Predicted!Fee, rate, d
<1>5. CASE n >= 0 /\ rate < 0
  <2>1. n * rate <= 0
    BY <1>2, <1>5
  <2>2. fee <= 0
    <3>1. n * rate \in Int
      BY <1>2
    <3> QED BY <2>1, <3>1 DEF Predicted!Quot, Predicted!Size
  <2>3. fee <= n
    BY <1>3, <1>5, <2>2
  <2> QED BY <1>3, <2>3 DEF Predicted!Fee, rate
<1>6. CASE n < 0 \/ rate > 10000
  BY <1>2, <1>3, <1>6 DEF Predicted!Fee, rate
<1> QED BY <1>2, <1>4, <1>5, <1>6

(* One entry of a table by people and outcomes changes. *)
Moved(f, u, o, d, g) == g = [f EXCEPT ![u][o] = @ + d]

LEMMA EntryMoved ==
  ASSUME NEW f \in [People -> Predicted!Tokens], NEW u \in People, NEW o \in Outcomes, NEW d \in Int,
         f[u][o] + d \in Nat, NEW g, Moved(f, u, o, d, g)
  PROVE  /\ g \in [People -> Predicted!Tokens] /\ g[u][o] = f[u][o] + d
         /\ \A v \in People, i \in Outcomes : v # u \/ i # o => g[v][i] = f[v][i]
<1> DEFINE row == [f[u] EXCEPT ![o] = @ + d]
<1>1. f[u] \in [Outcomes -> Nat]
  BY DEF Predicted!Tokens
<1>2. row \in Predicted!Tokens /\ row[o] = f[u][o] + d /\ \A i \in Outcomes \ {o} : row[i] = f[u][i]
  BY <1>1 DEF Predicted!Tokens
<1>3. g = [f EXCEPT ![u] = row]
  BY DEF Moved
<1> HIDE DEF row
<1>4. g \in [People -> Predicted!Tokens] /\ g[u] = row /\ \A v \in People \ {u} : g[v] = f[v]
  BY <1>2, <1>3
<1> QED BY <1>2, <1>4

(* The tokens of an outcome that are with people. *)
Outside(b, o) == Summed([u \in People |-> b[u][o]], People)

LEMMA OutsideIs ==
  ASSUME NEW b \in [People -> Predicted!Tokens], NEW o \in Outcomes PROVE Outside(b, o) \in Int
<1> DEFINE F == [u \in People |-> b[u][o]]
<1>1. F \in [People -> Nat] /\ \A u \in People : F[u] \in Int
  BY DEF Predicted!Tokens
<1>2. Summed(F, People) = Net(F, People)
  <2> HIDE DEF F
  <2> QED BY <1>1, PeopleFinite, SummedIsNet
<1>3. Net(F, People) \in Int
  <2>1. Above(F, People) \in [People -> Nat] /\ Below(F, People) \in [People -> Nat]
    BY <1>1 DEF Above, Below
  <2> HIDE DEF F
  <2>2. Total(Above(F, People)) \in Nat /\ Total(Below(F, People)) \in Nat
    BY <2>1, PeopleFinite, UnitsFinite
  <2> QED BY <2>2 DEF Net
<1> QED BY <1>2, <1>3 DEF Outside

LEMMA OutsideMoves ==
  ASSUME NEW f \in [People -> Predicted!Tokens], NEW u \in People, NEW o \in Outcomes, NEW d \in Int,
         f[u][o] + d \in Nat, NEW g, Moved(f, u, o, d, g), NEW i \in Outcomes
  PROVE  Outside(g, i) = Outside(f, i) + (IF i = o THEN d ELSE 0)
<1> DEFINE F == [v \in People |-> f[v][i]]
           G == [v \in People |-> g[v][i]]
           e == IF i = o THEN d ELSE 0
<1>1. /\ g[u][o] = f[u][o] + d
      /\ \A v \in People, j \in Outcomes : v # u \/ j # o => g[v][j] = f[v][j]
  BY EntryMoved
<1>2. \A v \in People : f[v][i] \in Int
  BY DEF Predicted!Tokens
<1>3. /\ \A v \in People : F[v] \in Int /\ \A w \in People \ {u} : G[w] = F[w]
      /\ G[u] = F[u] + e /\ e \in Int
  BY <1>1, <1>2
<1>4. Summed(G, People) = Summed(F, People) + e
  <2> HIDE DEF F, G, e
  <2> QED BY <1>3, PeopleFinite, SummedShift
<1> QED BY <1>4 DEF Outside

(* What a position holds of an outcome. *)
Owned(p, o) == IF p = None THEN 0 ELSE p.outcome_amounts[o]

LEMMA PaidOnceIs ==
  /\ Predicted!TokensPaidOnce <=>
       \A u \in People, o \in Outcomes : paid[u][o] + Owned(position[u], o) = bought[u][o]
  /\ Predicted!TokensPaidOnce' <=>
       \A u \in People, o \in Outcomes : paid'[u][o] + Owned(position'[u], o) = bought'[u][o]
BY DEF Predicted!TokensPaidOnce, Owned

(* The position tokens are added to. *)
Held(u) ==
  IF position[u] = None THEN [outcome_amounts |-> [i \in Outcomes |-> 0], settled |-> FALSE]
  ELSE position[u]

LEMMA HeldIs ==
  ASSUME TokensTrue, NEW u \in People
  PROVE  Held(u) \in Predicted!Position /\ \A o \in Outcomes : Held(u).outcome_amounts[o] = Owned(position[u], o)
BY DEF TokensTrue, Held, Owned, Predicted!Position, Predicted!Tokens

LEMMA PositionGrown ==
  ASSUME NEW p \in Predicted!Position, NEW o \in Outcomes, NEW d \in Nat, NEW q,
         q = [p EXCEPT !.outcome_amounts[o] = @ + d]
  PROVE  /\ q \in Predicted!Position /\ q # None
         /\ \A i \in Outcomes : Owned(q, i) = p.outcome_amounts[i] + (IF i = o THEN d ELSE 0)
<1> DEFINE row == [p.outcome_amounts EXCEPT ![o] = @ + d]
<1>1. p.outcome_amounts \in [Outcomes -> Nat]
  BY DEF Predicted!Position, Predicted!Tokens
<1>2. /\ row \in Predicted!Tokens
      /\ \A i \in Outcomes : row[i] = p.outcome_amounts[i] + (IF i = o THEN d ELSE 0)
  BY <1>1 DEF Predicted!Tokens
<1>3. q = [p EXCEPT !.outcome_amounts = row]
  OBVIOUS
<1> HIDE DEF row
<1>4. q \in Predicted!Position /\ q.outcome_amounts = row
  BY <1>2, <1>3 DEF Predicted!Position
<1>5. q # None
  BY <1>4, AmountsAre
<1> QED BY <1>2, <1>4, <1>5 DEF Owned

(***************************************************************************)
(* A purchase: what the pool gives the buyer is owned from then on, and     *)
(* what the buyer pays is in the reserve or among the fees.                 *)
(***************************************************************************)
LEMMA TokensBought ==
  ASSUME PredictionInv, NEW u \in People, NEW o \in Outcomes, NEW n \in Stakes, NEW least \in {0},
         Predicted!BuyOutcome(u, o, n, least)
  PROVE  /\ PoolTrue' /\ TokensTrue' /\ CountsTrue'
         /\ \A i \in Outcomes :
              pool'.outcome_reserves[i] + Outside(outcomeBalance', i)
                = pool.outcome_reserves[i] + Outside(outcomeBalance, i)
         /\ (pool'.collateral_reserve + pool'.fees_accumulated)
              - (pool.collateral_reserve + pool.fees_accumulated) = tradingVolume' - tradingVolume
         /\ bought' # bought
         /\ market.terms.fee_bps <= 10000 /\ Predicted!Solvent(pool) => Predicted!Solvent(pool')
<1> DEFINE c == pool.collateral_reserve
           f == pool.fees_accumulated
           collateral == c + n - Predicted!Fee(n)
           reserve == Predicted!Quot(pool.k_per_outcome[o], collateral)
           r == pool.outcome_reserves
           out == r[o] - reserve
           reserves == [r EXCEPT ![o] = reserve]
<1>1. /\ pool \in Predicted!Pool /\ market # None /\ n \in Nat
  BY AmountsAre DEF PredictionInv, PoolTrue, Predicted!BuyOutcome, Predicted!Trading, Predicted!Is
<1>2. /\ c \in Int /\ f \in Int /\ r \in [Outcomes -> Int] /\ pool.lp_supply \in Int
      /\ pool.k_per_outcome[o] \in Int /\ Predicted!Fee(n) \in Int
  BY <1>1, FeeIs DEF PredictionInv, Predicted!Pool, Predicted!Reserves
<1>3. /\ collateral # 0 /\ out > 0 /\ tradingVolume' = tradingVolume + n
      /\ pool' = Predicted!WithK([pool EXCEPT !.collateral_reserve = collateral,
                                      !.outcome_reserves[o] = reserve,
                                      !.fees_accumulated = @ + Predicted!Fee(n)])
      /\ Moved(outcomeBalance, u, o, out, outcomeBalance')
      /\ position' = [position EXCEPT ![u] = [Held(u) EXCEPT !.outcome_amounts[o] = @ + out]]
      /\ Moved(bought, u, o, out, bought')
      /\ paid' = paid /\ provided' = provided
  BY DEF Predicted!BuyOutcome, Moved, Held
<1>4. collateral \in Int \ {0}
  BY <1>1, <1>2, <1>3
<1>5. reserve \in Int /\ out \in Nat \ {0}
  <2> HIDE DEF collateral
  <2>1. reserve \in Int
    BY <1>2, <1>4, QuotIs
  <2> HIDE DEF reserve
  <2> QED BY <1>2, <1>3, <2>1
<1>6. reserves \in Predicted!Reserves
  BY <1>2, <1>5 DEF Predicted!Reserves
<1>7. Rewritten(pool, collateral, reserves, pool.lp_supply, f + Predicted!Fee(n), pool')
  <2> HIDE DEF collateral, reserve
  <2>1. [pool EXCEPT !.collateral_reserve = collateral, !.outcome_reserves[o] = reserve,
                     !.fees_accumulated = @ + Predicted!Fee(n)]
        = [pool EXCEPT !.collateral_reserve = collateral, !.outcome_reserves = reserves,
                       !.lp_supply = pool.lp_supply, !.fees_accumulated = f + Predicted!Fee(n)]
    BY <1>1 DEF Predicted!Pool
  <2> QED BY <1>3, <2>1 DEF Rewritten
<1>8. f + Predicted!Fee(n) \in Int
  BY <1>2
<1>9. /\ pool' \in Predicted!Pool
      /\ \A i \in Outcomes :
           pool'.k_per_outcome[i] = pool'.collateral_reserve * pool'.outcome_reserves[i]
      /\ pool'.collateral_reserve = collateral /\ pool'.outcome_reserves = reserves
      /\ pool'.fees_accumulated = f + Predicted!Fee(n)
      /\ collateral >= 0 /\ pool.lp_supply >= 0 /\ (\A i \in Outcomes : reserves[i] >= 0) =>
           Predicted!Solvent(pool')
  <2> DEFINE l == pool.lp_supply
             e == f + Predicted!Fee(n)
  <2>1. /\ pool \in Predicted!Pool
        /\ collateral \in Int /\ reserves \in Predicted!Reserves /\ l \in Int /\ e \in Int
        /\ Rewritten(pool, collateral, reserves, l, e, pool')
    BY <1>1, <1>2, <1>4, <1>6, <1>7, <1>8
  <2> HIDE DEF collateral, reserves, l, e, f, c, r, out, reserve
  <2>2. Renewed(collateral, reserves, l, e, pool')
    BY <2>1, PoolRewritten
  <2> QED BY <2>2 DEF Renewed, l, e
<1>10. (pool'.collateral_reserve + pool'.fees_accumulated) - (c + f) = tradingVolume' - tradingVolume
  <2>1. tradingVolume \in Nat
    BY DEF PredictionInv, CountsTrue
  <2> QED BY <1>1, <1>2, <1>3, <1>9, <2>1
<1>11. \A i \in Outcomes : reserves[i] = r[i] - (IF i = o THEN out ELSE 0)
  <2> HIDE DEF collateral
  <2> QED BY <1>2, <1>5
<1>22. ASSUME market.terms.fee_bps <= 10000, Predicted!Solvent(pool) PROVE Predicted!Solvent(pool')
  <2>1. c >= 0 /\ pool.lp_supply >= 0 /\ \A i \in Outcomes : r[i] >= 0
    BY <1>22 DEF Predicted!Solvent
  <2>2. Predicted!Fee(n) <= n
    BY <1>1, <1>22, FeeIs DEF PredictionInv
  <2>3. collateral \in Nat \ {0}
    BY <1>1, <1>2, <1>4, <2>1, <2>2
  <2>4. pool.k_per_outcome[o] = c * r[o]
    BY DEF PredictionInv, PoolTrue, Predicted!BuyOutcome
  <2>5. reserve >= 0
    <3> HIDE DEF collateral
    <3>1. c \in Nat /\ r[o] \in Nat
      BY <1>2, <2>1
    <3> QED BY <2>3, <2>4, <3>1, PartOf
  <2>6. \A i \in Outcomes : reserves[i] >= 0
    <3> HIDE DEF reserve
    <3> QED BY <1>2, <1>5, <2>1, <2>5
  <2> HIDE DEF reserves, collateral, f
  <2> QED BY <1>9, <2>1, <2>3, <2>6
<1>12. /\ outcomeBalance \in [People -> Predicted!Tokens] /\ bought \in [People -> Predicted!Tokens]
       /\ paid \in [People -> Predicted!Tokens] /\ position \in [People -> Predicted!Position \cup {None}]
  BY DEF PredictionInv, TokensTrue
<1> HIDE DEF c, f, collateral, reserve, out, reserves
<1>13. outcomeBalance[u][o] + out \in Nat /\ bought[u][o] + out \in Nat
  BY <1>5, <1>12 DEF Predicted!Tokens
<1>14. outcomeBalance' \in [People -> Predicted!Tokens]
  BY <1>3, <1>5, <1>12, <1>13, EntryMoved
<1>15. /\ bought' \in [People -> Predicted!Tokens] /\ bought'[u][o] = bought[u][o] + out
       /\ \A v \in People, i \in Outcomes : v # u \/ i # o => bought'[v][i] = bought[v][i]
  BY <1>3, <1>5, <1>12, <1>13, EntryMoved
<1>16. /\ \A i \in Outcomes : Outside(outcomeBalance', i)
                               = Outside(outcomeBalance, i) + (IF i = o THEN out ELSE 0)
       /\ \A i \in Outcomes : Outside(outcomeBalance, i) \in Int
  <2>1. \A i \in Outcomes : Outside(outcomeBalance', i)
                               = Outside(outcomeBalance, i) + (IF i = o THEN out ELSE 0)
    BY <1>3, <1>5, <1>12, <1>13, OutsideMoves
  <2> QED BY <1>12, <2>1, OutsideIs
<1>17. \A i \in Outcomes : pool'.outcome_reserves[i] + Outside(outcomeBalance', i)
                             = r[i] + Outside(outcomeBalance, i)
  BY <1>2, <1>5, <1>9, <1>11, <1>16
<1>18. TokensTrue'
  <2> DEFINE q == [Held(u) EXCEPT !.outcome_amounts[o] = @ + out]
  <2>1. /\ Held(u) \in Predicted!Position
        /\ \A i \in Outcomes : Held(u).outcome_amounts[i] = Owned(position[u], i)
    BY HeldIs DEF PredictionInv
  <2>2. out \in Nat
    BY <1>5
  <2>3. /\ q \in Predicted!Position
        /\ \A i \in Outcomes : Owned(q, i) = Held(u).outcome_amounts[i]
                                               + (IF i = o THEN out ELSE 0)
    <3> HIDE DEF Held
    <3> QED BY <2>1, <2>2, PositionGrown
  <2>4. position' = [position EXCEPT ![u] = q]
    BY <1>3
  <2> HIDE DEF q
  <2>5. /\ position' \in [People -> Predicted!Position \cup {None}] /\ position'[u] = q
        /\ \A v \in People \ {u} : position'[v] = position[v]
    BY <1>12, <2>3, <2>4
  <2>6. \A v \in People, i \in Outcomes : paid[v][i] + Owned(position[v], i) = bought[v][i]
    BY PaidOnceIs DEF PredictionInv, TokensTrue
  <2>7. \A v \in People, i \in Outcomes : paid[v][i] \in Nat /\ bought[v][i] \in Nat
    BY <1>12 DEF Predicted!Tokens
  <2>8. \A i \in Outcomes : Owned(position[u], i) \in Nat
    BY <2>1 DEF Predicted!Position, Predicted!Tokens
  <2>9. ASSUME NEW v \in People, NEW i \in Outcomes
        PROVE  paid'[v][i] + Owned(position'[v], i) = bought'[v][i]
    <3>1. CASE v # u
      BY <1>3, <1>15, <2>5, <2>6, <3>1
    <3>2. CASE v = u /\ i # o
      BY <1>3, <1>15, <2>1, <2>3, <2>5, <2>6, <2>8, <3>2
    <3>3. CASE v = u /\ i = o
      <4>1. Owned(position'[v], i) = Owned(position[v], i) + out
        BY <2>1, <2>3, <2>5, <3>3
      <4>2. bought'[v][i] = bought[v][i] + out
        BY <1>15, <3>3
      <4>3. paid'[v][i] + Owned(position[v], i) = bought[v][i]
        BY <1>3, <2>6
      <4> QED BY <1>3, <2>2, <2>7, <2>8, <3>3, <4>1, <4>2, <4>3
    <3> QED BY <3>1, <3>2, <3>3
  <2>10. Predicted!TokensPaidOnce'
    BY <2>9, PaidOnceIs
  <2> QED BY <1>3, <1>12, <1>14, <1>15, <2>5, <2>10 DEF TokensTrue
<1>19. bought' # bought
  <2>1. bought[u][o] \in Nat
    BY <1>12 DEF Predicted!Tokens
  <2> QED BY <1>5, <1>15, <2>1
<1>20. CountsTrue'
  BY <1>1, <1>3 DEF PredictionInv, CountsTrue
<1>21. PoolTrue'
  BY <1>9 DEF PoolTrue
<1> QED BY <1>10, <1>17, <1>18, <1>19, <1>20, <1>21, <1>22 DEF c, f

(* A sale, of tokens the seller has; its position keeps them. *)
LEMMA TokensSold ==
  ASSUME PredictionInv, NEW u \in People, NEW o \in Outcomes, NEW n \in TokenAmounts,
         NEW least \in {0}, Predicted!SellOutcome(u, o, n, least)
  PROVE  /\ PoolTrue' /\ TokensTrue' /\ CountsTrue'
         /\ \A i \in Outcomes :
              pool'.outcome_reserves[i] + Outside(outcomeBalance', i)
                = pool.outcome_reserves[i] + Outside(outcomeBalance, i)
         /\ (pool'.collateral_reserve + pool'.fees_accumulated)
              - (pool.collateral_reserve + pool.fees_accumulated)
              = -(tradingVolume' - tradingVolume)
         /\ bought' = bought
         /\ Predicted!Solvent(pool) => Predicted!Solvent(pool')
<1> DEFINE c == pool.collateral_reserve
           f == pool.fees_accumulated
           r == pool.outcome_reserves
           reserve == r[o] + n
           collateral == Predicted!Quot(pool.k_per_outcome[o], reserve)
           before == c - collateral
           out == before - Predicted!Fee(before)
           reserves == [r EXCEPT ![o] = reserve]
<1>1. pool \in Predicted!Pool /\ market # None /\ n \in Nat \ {0}
  BY AmountsAre DEF PredictionInv, PoolTrue, Predicted!SellOutcome, Predicted!Trading, Predicted!Is
<1>2. /\ c \in Int /\ f \in Int /\ r \in [Outcomes -> Int] /\ pool.lp_supply \in Int
      /\ pool.k_per_outcome[o] = c * r[o]
  <2>1. /\ c \in Int /\ f \in Int /\ r \in [Outcomes -> Int] /\ pool.lp_supply \in Int
    BY <1>1 DEF Predicted!Pool, Predicted!Reserves
  <2>2. pool # None
    BY DEF Predicted!SellOutcome
  <2> QED BY <2>1, <2>2 DEF PredictionInv, PoolTrue
<1>3. /\ reserve # 0 /\ out > 0 /\ tradingVolume' = tradingVolume + out /\ outcomeBalance[u][o] >= n
      /\ pool' = Predicted!WithK([pool EXCEPT !.collateral_reserve = collateral,
                                      !.outcome_reserves[o] = reserve,
                                      !.fees_accumulated = @ + Predicted!Fee(before)])
      /\ outcomeBalance' = [outcomeBalance EXCEPT ![u][o] = @ - n]
      /\ position' = position /\ bought' = bought /\ paid' = paid /\ provided' = provided
  BY DEF Predicted!SellOutcome
<1>4. reserve \in Int \ {0} /\ r[o] \in Int /\ c * r[o] \in Int
  BY <1>1, <1>2, <1>3
<1>5. collateral \in Int
  <2> HIDE DEF reserve
  <2> QED BY <1>2, <1>4, QuotIs
<1>6. before \in Int
  <2> HIDE DEF collateral
  <2> QED BY <1>2, <1>5
<1>23. Predicted!Solvent(pool) =>
         /\ collateral >= 0 /\ pool.lp_supply >= 0
         /\ \A i \in Outcomes : reserves[i] >= 0
  <2> SUFFICES ASSUME Predicted!Solvent(pool)
               PROVE  /\ collateral >= 0 /\ pool.lp_supply >= 0
                      /\ \A i \in Outcomes : reserves[i] >= 0
    OBVIOUS
  <2>1. c \in Nat /\ pool.lp_supply >= 0 /\ \A i \in Outcomes : r[i] \in Nat
    BY <1>2 DEF Predicted!Solvent
  <2>2. reserve \in Nat \ {0}
    BY <1>1, <2>1
  <2>3. collateral >= 0
    <3> HIDE DEF reserve
    <3> QED BY <1>2, <2>1, <2>2, PartOf
  <2>4. \A i \in Outcomes : reserves[i] >= 0
    <3> HIDE DEF reserve
    <3> QED BY <1>2, <2>1, <2>2
  <2> QED BY <2>1, <2>3, <2>4
<1> HIDE DEF collateral, before
<1>7. Predicted!Fee(before) \in Int
  BY <1>1, <1>6, FeeIs DEF PredictionInv
<1>8. out \in Nat
  BY <1>3, <1>6, <1>7
<1>9. reserves \in Predicted!Reserves
  BY <1>2, <1>4 DEF Predicted!Reserves
<1>10. Rewritten(pool, collateral, reserves, pool.lp_supply, f + Predicted!Fee(before), pool')
  <2> HIDE DEF reserve
  <2>1. [pool EXCEPT !.collateral_reserve = collateral, !.outcome_reserves[o] = reserve,
                     !.fees_accumulated = @ + Predicted!Fee(before)]
        = [pool EXCEPT !.collateral_reserve = collateral, !.outcome_reserves = reserves,
                       !.lp_supply = pool.lp_supply, !.fees_accumulated = f + Predicted!Fee(before)]
    BY <1>1 DEF Predicted!Pool
  <2> QED BY <1>3, <2>1 DEF Rewritten
<1>11. f + Predicted!Fee(before) \in Int
  BY <1>2, <1>7
<1>12. /\ pool' \in Predicted!Pool
       /\ \A i \in Outcomes :
            pool'.k_per_outcome[i] = pool'.collateral_reserve * pool'.outcome_reserves[i]
       /\ pool'.collateral_reserve = collateral /\ pool'.outcome_reserves = reserves
       /\ pool'.fees_accumulated = f + Predicted!Fee(before)
       /\ Predicted!Solvent(pool) => Predicted!Solvent(pool')
  <2> DEFINE l == pool.lp_supply
             e == f + Predicted!Fee(before)
  <2>1. /\ pool \in Predicted!Pool
        /\ collateral \in Int /\ reserves \in Predicted!Reserves /\ l \in Int /\ e \in Int
        /\ Rewritten(pool, collateral, reserves, l, e, pool')
    BY <1>1, <1>2, <1>5, <1>9, <1>10, <1>11
  <2>2. Predicted!Solvent(pool) => collateral >= 0 /\ l >= 0 /\ \A i \in Outcomes : reserves[i] >= 0
    BY <1>23
  <2> HIDE DEF reserves, l, e, f, c, r, out, reserve
  <2>3. Renewed(collateral, reserves, l, e, pool')
    BY <2>1, PoolRewritten
  <2> QED BY <2>2, <2>3 DEF Renewed, l, e
<1>13. tradingVolume \in Nat
  BY DEF PredictionInv, CountsTrue
<1>14. (pool'.collateral_reserve + pool'.fees_accumulated) - (c + f)
         = -(tradingVolume' - tradingVolume)
  BY <1>2, <1>3, <1>5, <1>7, <1>12, <1>13 DEF before
<1>15. \A i \in Outcomes : reserves[i] = r[i] + (IF i = o THEN n ELSE 0)
  BY <1>1, <1>2
<1>16. /\ outcomeBalance \in [People -> Predicted!Tokens]
       /\ outcomeBalance[u][o] + (-n) \in Nat /\ -n \in Int
       /\ Moved(outcomeBalance, u, o, -n, outcomeBalance')
  <2>1. outcomeBalance \in [People -> Predicted!Tokens] /\ outcomeBalance[u][o] \in Nat
    BY DEF PredictionInv, TokensTrue, Predicted!Tokens
  <2>2. outcomeBalance[u][o] - n = outcomeBalance[u][o] + (-n)
    BY <1>1, <2>1
  <2>3. Moved(outcomeBalance, u, o, -n, outcomeBalance')
    BY <1>3, <2>2 DEF Moved
  <2> QED BY <1>1, <1>3, <2>1, <2>3
<1>17. outcomeBalance' \in [People -> Predicted!Tokens]
  BY <1>16, EntryMoved
<1>18. /\ \A i \in Outcomes : Outside(outcomeBalance', i)
                               = Outside(outcomeBalance, i) + (IF i = o THEN -n ELSE 0)
       /\ \A i \in Outcomes : Outside(outcomeBalance, i) \in Int
  <2>1. \A i \in Outcomes : Outside(outcomeBalance', i)
                               = Outside(outcomeBalance, i) + (IF i = o THEN -n ELSE 0)
    BY <1>16, OutsideMoves
  <2> QED BY <1>16, <2>1, OutsideIs
<1>19. \A i \in Outcomes : pool'.outcome_reserves[i] + Outside(outcomeBalance', i)
                             = r[i] + Outside(outcomeBalance, i)
  <2> HIDE DEF reserves, r
  <2> QED BY <1>1, <1>2, <1>12, <1>15, <1>18
<1>20. TokensTrue'
  BY <1>3, <1>17 DEF PredictionInv, TokensTrue, Predicted!TokensPaidOnce
<1>21. CountsTrue'
  BY <1>3, <1>8, <1>13 DEF PredictionInv, CountsTrue
<1>22. PoolTrue'
  BY <1>12 DEF PoolTrue
<1> QED BY <1>3, <1>12, <1>14, <1>19, <1>20, <1>21, <1>22

-----------------------------------------------------------------------------
(* The orders at rest *)

Sorted(s) == \A i, j \in DOMAIN s : i < j => s[i] < s[j]

(* Taking an element out of an increasing sequence leaves the others, still *)
(* increasing.                                                              *)
LEMMA TakenOut ==
  ASSUME NEW s \in Seq(Nat), Sorted(s), NEW e \in Range(s)
  PROVE  LET t == Predicted!RemoveFirst(s, e) IN
         t \in Seq(Nat) /\ Sorted(t) /\ Range(t) = Range(s) \ {e}
<1> DEFINE I == {i \in 1..Len(s) : s[i] = e}
           k == Predicted!Min(I)
           t == SubSeq(s, 1, k - 1) \o SubSeq(s, k + 1, Len(s))
<1>1. k \in 1..Len(s) /\ s[k] = e
  <2>1. PICK i \in DOMAIN s : s[i] = e
    BY DEF Range
  <2>2. I # {} /\ I \in SUBSET Nat
    BY <2>1
  <2>3. \E m \in I : \A n \in I : m <= n
    BY <2>2, LeastNat
  <2>4. k \in I
    <3> HIDE DEF I
    <3> QED BY <2>3 DEF Predicted!Min
  <2> QED BY <2>4
<1>2. Predicted!RemoveFirst(s, e) = t
  <2>1. \E i \in 1..Len(s) : s[i] = e
    BY <1>1
  <2>2. Predicted!SelectInSeq(s, LAMBDA v : v = e) = k
    BY <2>1 DEF Predicted!SelectInSeq
  <2> QED BY <2>1, <2>2 DEF Predicted!RemoveFirst, Predicted!RemoveAt
<1> HIDE DEF I, k
<1> DEFINE head == SubSeq(s, 1, k - 1)
           tail == SubSeq(s, k + 1, Len(s))
           n == Len(s)
<1>a. n \in Nat /\ DOMAIN s = 1..n /\ \A i \in 1..n : s[i] \in Nat
  OBVIOUS
<1>b. head \in Seq(Nat) /\ Len(head) = k - 1 /\ \A i \in 1..(k - 1) : head[i] = s[i]
  <2>1. \A i \in 1..(k - 1) : s[i] \in Nat
    BY <1>1, <1>a
  <2>2. /\ head \in Seq(Nat) /\ Len(head) = IF 1 <= k - 1 THEN k - 1 - 1 + 1 ELSE 0
        /\ \A i \in 1..(k - 1 - 1 + 1) : head[i] = s[1 + i - 1]
    BY <1>1, <2>1, SubSeqProperties
  <2> QED BY <1>1, <2>2
<1>c. tail \in Seq(Nat) /\ Len(tail) = n - k /\ \A i \in 1..(n - k) : tail[i] = s[k + i]
  <2>1. \A i \in (k + 1)..n : s[i] \in Nat
    BY <1>1, <1>a
  <2>2. /\ tail \in Seq(Nat) /\ Len(tail) = IF k + 1 <= n THEN n - (k + 1) + 1 ELSE 0
        /\ \A i \in 1..(n - (k + 1) + 1) : tail[i] = s[(k + 1) + i - 1]
    BY <1>1, <1>a, <2>1, SubSeqProperties
  <2>3. n - (k + 1) + 1 = n - k /\ (IF k + 1 <= n THEN n - (k + 1) + 1 ELSE 0) = n - k
    <3>1. n \in Int /\ k \in Int /\ k <= n
      BY <1>1, <1>a
    <3> HIDE DEF n
    <3>2. n - (k + 1) + 1 = n - k
      BY <3>1
    <3>3. ~(k + 1 <= n) => n - k = 0
      BY <3>1
    <3> QED BY <3>2, <3>3
  <2>4. \A i \in 1..(n - k) : (k + 1) + i - 1 = k + i
    BY <1>1, <1>a
  <2> HIDE DEF tail, n
  <2> QED BY <2>2, <2>3, <2>4
<1>3. /\ t \in Seq(Nat) /\ Len(t) = n - 1 /\ DOMAIN t = 1..(n - 1)
      /\ \A i \in 1..(n - 1) : t[i] = IF i < k THEN s[i] ELSE s[i + 1]
  <2> HIDE DEF head, tail
  <2>1. t = head \o tail
    BY DEF head, tail
  <2> HIDE DEF t, n
  <2>2. /\ t \in Seq(Nat) /\ Len(t) = (k - 1) + (n - k)
        /\ \A i \in 1..((k - 1) + (n - k)) :
             t[i] = IF i <= k - 1 THEN head[i] ELSE tail[i - (k - 1)]
    <3>1. /\ t \in Seq(Nat) /\ Len(t) = Len(head) + Len(tail)
          /\ \A i \in 1..(Len(head) + Len(tail)) :
               t[i] = IF i <= Len(head) THEN head[i] ELSE tail[i - Len(head)]
      BY <1>b, <1>c, <2>1, ConcatProperties
    <3> QED BY <1>b, <1>c, <3>1
  <2>3. (k - 1) + (n - k) = n - 1 /\ k \in 1..n
    BY <1>1, <1>a DEF n
  <2>4. /\ t \in Seq(Nat) /\ Len(t) = n - 1 /\ DOMAIN t = 1..(n - 1)
    BY <2>2, <2>3, LenProperties
  <2>5. ASSUME NEW i \in 1..(n - 1) PROVE t[i] = IF i < k THEN s[i] ELSE s[i + 1]
    <3>1. t[i] = IF i <= k - 1 THEN head[i] ELSE tail[i - (k - 1)]
      BY <2>2, <2>3
    <3>2. CASE i < k
      <4>1. i <= k - 1 /\ i \in 1..(k - 1)
        BY <2>3, <3>2
      <4> QED BY <1>b, <3>1, <3>2, <4>1
    <3>3. CASE ~(i < k)
      <4>1. ~(i <= k - 1) /\ i - (k - 1) \in 1..(n - k) /\ k + (i - (k - 1)) = i + 1
        BY <1>a, <2>3, <3>3
      <4> QED BY <1>c, <3>1, <3>3, <4>1
    <3> QED BY <3>2, <3>3
  <2> QED BY <2>4, <2>5
<1> HIDE DEF t, n
<1>d. k \in 1..n /\ \A i, j \in 1..n : i < j => s[i] < s[j]
  BY <1>1, <1>a DEF Sorted, n
<1>4. Sorted(t)
  <2> SUFFICES ASSUME NEW i \in 1..(n - 1), NEW j \in 1..(n - 1), i < j PROVE t[i] < t[j]
    BY <1>3 DEF Sorted
  <2>1. i \in 1..n /\ j \in 1..n /\ i + 1 \in 1..n /\ j + 1 \in 1..n /\ i < j + 1 /\ i + 1 < j + 1
    BY <1>a
  <2>2. s[i] < s[j] /\ s[i] < s[j + 1] /\ s[i + 1] < s[j + 1]
    BY <1>d, <2>1
  <2>3. j < k => i < k
    BY <1>d
  <2> QED BY <1>3, <2>2, <2>3
<1>5. Range(t) \subseteq Range(s) \ {e}
  <2> SUFFICES ASSUME NEW i \in 1..(n - 1) PROVE t[i] \in Range(s) /\ t[i] # e
    BY <1>3 DEF Range
  <2>1. CASE i < k
    <3>1. i \in 1..n /\ t[i] = s[i] /\ s[i] < s[k]
      BY <1>3, <1>a, <1>d, <2>1
    <3> QED BY <1>1, <1>a, <3>1 DEF Range
  <2>2. CASE ~(i < k)
    <3>1. i + 1 \in 1..n /\ k < i + 1
      BY <1>a, <1>d, <2>2
    <3>2. t[i] = s[i + 1] /\ s[k] < s[i + 1]
      BY <1>3, <1>d, <2>2, <3>1
    <3> QED BY <1>1, <1>a, <3>1, <3>2 DEF Range
  <2> QED BY <2>1, <2>2
<1>6. Range(s) \ {e} \subseteq Range(t)
  <2> SUFFICES ASSUME NEW j \in 1..n, s[j] # e PROVE s[j] \in Range(t)
    BY <1>a DEF Range
  <2>1. CASE j < k
    <3>1. j \in 1..(n - 1) /\ t[j] = s[j]
      BY <1>3, <1>a, <1>d, <2>1
    <3> QED BY <1>3, <3>1 DEF Range
  <2>2. CASE ~(j < k)
    <3>1. j # k
      BY <1>1
    <3>2. j - 1 \in 1..(n - 1) /\ ~(j - 1 < k) /\ (j - 1) + 1 = j
      BY <1>a, <1>d, <2>2, <3>1
    <3>3. t[j - 1] = s[j]
      BY <1>3, <3>2
    <3> QED BY <1>3, <3>2, <3>3 DEF Range
  <2> QED BY <2>1, <2>2
<1> QED BY <1>2, <1>3, <1>4, <1>5, <1>6

LEMMA OrderPlaced ==
  ASSUME OrdersTrue, NEW u \in People, NEW n \in TokenAmounts, Predicted!PlaceOrder(u, n)
  PROVE  OrdersTrue'
<1> DEFINE b == [owner |-> u, amount |-> n, remaining |-> n, status |-> "Active"]
           l == Len(bids)
<1>1. /\ bids \in Seq(Predicted!PredictionOrder) /\ resting \in Seq(Nat) /\ Sorted(resting)
      /\ Range(resting) = {id \in DOMAIN bids : bids[id].status = "Active"}
  BY DEF OrdersTrue, Sorted
<1>2. bids' = Append(bids, b) /\ n \in Nat
  BY AmountsAre DEF Predicted!PlaceOrder
<1>3. b \in Predicted!PredictionOrder
  BY <1>2 DEF Predicted!PredictionOrder
<1>4. /\ bids' \in Seq(Predicted!PredictionOrder) /\ Len(bids') = l + 1 /\ l \in Nat
      /\ bids'[l + 1].status = "Active" /\ \A i \in 1..l : bids'[i] = bids[i]
  <2> HIDE DEF b
  <2>1. bids' \in Seq(Predicted!PredictionOrder) /\ Len(bids') = l + 1 /\ l \in Nat
        /\ bids'[l + 1] = b /\ \A i \in 1..l : bids'[i] = bids[i]
    BY <1>1, <1>2, <1>3
  <2> QED BY <2>1 DEF b
<1>5. resting' = Append(resting, l + 1)
  BY <1>4 DEF Predicted!PlaceOrder
<1> DEFINE m == Len(resting)
<1>6. /\ m \in Nat /\ DOMAIN resting = 1..m /\ DOMAIN bids = 1..l /\ l \in Nat
      /\ \A i \in 1..m : resting[i] \in 1..l
  <2>1. m \in Nat /\ DOMAIN resting = 1..m /\ DOMAIN bids = 1..l /\ l \in Nat
    BY <1>1, LenProperties
  <2>2. \A i \in DOMAIN resting : resting[i] \in Range(resting)
    BY DEF Range
  <2> QED BY <1>1, <2>1, <2>2
<1> HIDE DEF b, l
<1>7. /\ resting' \in Seq(Nat) /\ DOMAIN resting' = 1..(m + 1)
      /\ resting'[m + 1] = l + 1 /\ \A i \in 1..m : resting'[i] = resting[i]
  <2>1. l + 1 \in Nat
    BY <1>6
  <2> QED BY <1>1, <1>5, <2>1
<1> HIDE DEF m
<1>8. Sorted(resting')
  <2> SUFFICES ASSUME NEW i \in 1..(m + 1), NEW j \in 1..(m + 1), i < j
               PROVE  resting'[i] < resting'[j]
    BY <1>7 DEF Sorted
  <2>1. i \in 1..m /\ resting'[i] = resting[i] /\ resting[i] \in 1..l
    BY <1>6, <1>7
  <2>2. CASE j = m + 1
    BY <1>6, <1>7, <2>1, <2>2
  <2>3. CASE j # m + 1
    <3>1. j \in 1..m /\ resting'[j] = resting[j]
      BY <1>6, <1>7, <2>3
    <3> QED BY <1>1, <1>6, <2>1, <3>1 DEF Sorted
  <2> QED BY <2>2, <2>3
<1>9. Range(resting') = Range(resting) \cup {l + 1}
  <2>1. 1..(m + 1) = 1..m \cup {m + 1}
    BY <1>6
  <2> QED BY <1>6, <1>7, <2>1 DEF Range
<1>10. {id \in DOMAIN bids' : bids'[id].status = "Active"}
         = {id \in DOMAIN bids : bids[id].status = "Active"} \cup {l + 1}
  <2>1. DOMAIN bids' = 1..(l + 1) /\ DOMAIN bids = 1..l
    BY <1>1, <1>4 DEF l
  <2> QED BY <1>4, <2>1
<1> QED BY <1>1, <1>4, <1>7, <1>8, <1>9, <1>10 DEF OrdersTrue, Sorted

LEMMA OrderCancelled ==
  ASSUME OrdersTrue, NEW u \in People, NEW id, Predicted!CancelOrder(u, id)
  PROVE  OrdersTrue'
<1>1. /\ bids \in Seq(Predicted!PredictionOrder) /\ resting \in Seq(Nat) /\ Sorted(resting)
      /\ Range(resting) = {i \in DOMAIN bids : bids[i].status = "Active"}
  BY DEF OrdersTrue, Sorted
<1>2. /\ id \in DOMAIN bids /\ bids[id].status = "Active"
      /\ bids' = [bids EXCEPT ![id].status = "Cancelled", ![id].remaining = 0]
      /\ resting' = Predicted!RemoveFirst(resting, id)
  BY DEF Predicted!CancelOrder
<1>3. resting' \in Seq(Nat) /\ Sorted(resting') /\ Range(resting') = Range(resting) \ {id}
  BY <1>1, <1>2, TakenOut
<1>4. /\ bids' \in Seq(Predicted!PredictionOrder) /\ DOMAIN bids' = DOMAIN bids
      /\ bids'[id].status = "Cancelled" /\ \A i \in DOMAIN bids \ {id} : bids'[i] = bids[i]
  <2> DEFINE x == [bids[id] EXCEPT !.status = "Cancelled"]
             y == [x EXCEPT !.remaining = 0]
  <2>1. bids[id] \in Predicted!PredictionOrder
    BY <1>1, <1>2
  <2>2. x \in Predicted!PredictionOrder /\ x.status = "Cancelled"
    BY <2>1 DEF Predicted!PredictionOrder
  <2> HIDE DEF x
  <2>3. y \in Predicted!PredictionOrder /\ y.status = "Cancelled"
    BY <2>2 DEF Predicted!PredictionOrder
  <2>4. bids' = [bids EXCEPT ![id] = y]
    BY <1>1, <1>2 DEF x
  <2> HIDE DEF y
  <2>5. id \in 1..Len(bids) /\ DOMAIN bids = 1..Len(bids)
    BY <1>1, <1>2, LenProperties
  <2>6. /\ bids' \in Seq(Predicted!PredictionOrder) /\ Len(bids') = Len(bids)
        /\ \A i \in 1..Len(bids) : bids'[i] = IF i = id THEN y ELSE bids[i]
    BY <1>1, <2>3, <2>4, <2>5, ExceptSeq
  <2>7. DOMAIN bids' = 1..Len(bids)
    BY <2>6, LenProperties
  <2> QED BY <2>3, <2>5, <2>6, <2>7
<1>5. {i \in DOMAIN bids' : bids'[i].status = "Active"}
         = {i \in DOMAIN bids : bids[i].status = "Active"} \ {id}
  BY <1>4
<1> QED BY <1>1, <1>3, <1>4, <1>5 DEF OrdersTrue, Sorted

-----------------------------------------------------------------------------
(* Payment for tokens: they leave the position they are paid from *)

LEMMA TokensPaid ==
  ASSUME TokensTrue, NEW u \in People, NEW o \in Outcomes, NEW d \in Nat, NEW q \in Predicted!Position,
         position[u] # None, position' = [position EXCEPT ![u] = q],
         \A i \in Outcomes :
           q.outcome_amounts[i] = position[u].outcome_amounts[i] - (IF i = o THEN d ELSE 0),
         Moved(paid, u, o, d, paid'), bought' = bought, outcomeBalance' = outcomeBalance
  PROVE  TokensTrue'
<1>1. /\ outcomeBalance \in [People -> Predicted!Tokens] /\ bought \in [People -> Predicted!Tokens]
      /\ paid \in [People -> Predicted!Tokens] /\ position \in [People -> Predicted!Position \cup {None}]
  BY DEF TokensTrue
<1>2. q # None
  BY AmountsAre
<1>3. /\ position' \in [People -> Predicted!Position \cup {None}] /\ position'[u] = q
      /\ \A v \in People \ {u} : position'[v] = position[v]
  BY <1>1
<1>4. paid[u][o] \in Nat /\ paid[u][o] + d \in Nat
  BY <1>1 DEF Predicted!Tokens
<1>5. /\ paid' \in [People -> Predicted!Tokens] /\ paid'[u][o] = paid[u][o] + d
      /\ \A v \in People, i \in Outcomes : v # u \/ i # o => paid'[v][i] = paid[v][i]
  BY <1>1, <1>4, EntryMoved
<1>6. \A v \in People, i \in Outcomes : paid[v][i] + Owned(position[v], i) = bought[v][i]
  BY PaidOnceIs DEF TokensTrue
<1>7. \A i \in Outcomes : position[u].outcome_amounts[i] \in Nat
  <2>1. position[u] \in Predicted!Position
    BY <1>1
  <2> QED BY <2>1 DEF Predicted!Position, Predicted!Tokens
<1>8. ASSUME NEW v \in People, NEW i \in Outcomes
      PROVE  paid'[v][i] + Owned(position'[v], i) = bought'[v][i]
  <2>1. CASE v # u
    BY <1>3, <1>5, <1>6, <2>1
  <2>2. CASE v = u /\ i # o
    <3>1. Owned(position'[v], i) = Owned(position[v], i)
      BY <1>2, <1>3, <1>7, <2>2 DEF Owned
    <3> QED BY <1>5, <1>6, <2>2, <3>1
  <2>3. CASE v = u /\ i = o
    <3>1. /\ Owned(position'[v], i) = position[u].outcome_amounts[o] - d
          /\ Owned(position[v], i) = position[u].outcome_amounts[o]
      BY <1>2, <1>3, <2>3 DEF Owned
    <3>2. paid[u][o] + position[u].outcome_amounts[o] = bought[u][o]
      BY <1>6, <2>3, <3>1
    <3> QED BY <1>4, <1>5, <1>7, <2>3, <3>1, <3>2
  <2> QED BY <2>1, <2>2, <2>3
<1>9. Predicted!TokensPaidOnce'
  BY <1>8, PaidOnceIs
<1> QED BY <1>1, <1>3, <1>5, <1>9 DEF TokensTrue

LEMMA TokensRedeemed ==
  ASSUME MarketTrue, TokensTrue, NEW u \in People, NEW n \in TokenAmounts, Predicted!RedeemTokens(u, n)
  PROVE  TokensTrue'
<1> DEFINE o == market.resolved_outcome
           p == position[u]
           left == [p.outcome_amounts EXCEPT ![o] = @ - n]
           q == [outcome_amounts |-> left, settled |-> \A i \in Outcomes : left[i] = 0]
<1>1. /\ o \in Outcomes /\ n \in Nat /\ p # None /\ p.outcome_amounts[o] >= n
      /\ position' = [position EXCEPT ![u] = q] /\ bought' = bought
      /\ outcomeBalance' = outcomeBalance
      /\ Moved(paid, u, o, n, paid')
  <2>1. o \in Outcomes /\ n \in Nat
    BY AmountsAre DEF MarketTrue, Predicted!RedeemTokens
  <2> QED BY <2>1 DEF Predicted!RedeemTokens, Moved
<1>2. p \in Predicted!Position
  BY <1>1 DEF TokensTrue
<1>3. p.outcome_amounts \in [Outcomes -> Nat]
  BY <1>2 DEF Predicted!Position, Predicted!Tokens
<1> HIDE DEF o, p
<1>4. /\ left \in Predicted!Tokens
      /\ \A i \in Outcomes : left[i] = p.outcome_amounts[i] - (IF i = o THEN n ELSE 0)
  BY <1>1, <1>3 DEF Predicted!Tokens
<1> HIDE DEF left
<1>5. /\ q \in Predicted!Position
      /\ \A i \in Outcomes : q.outcome_amounts[i] = p.outcome_amounts[i] - (IF i = o THEN n ELSE 0)
  <2>1. q.outcome_amounts = left
    OBVIOUS
  <2>2. (\A i \in Outcomes : left[i] = 0) \in BOOLEAN
    OBVIOUS
  <2> QED BY <1>4, <2>1, <2>2 DEF Predicted!Position
<1> HIDE DEF q
<1> QED BY <1>1, <1>5, TokensPaid DEF p

LEMMA TokensSettled ==
  ASSUME MarketTrue, TokensTrue, NEW u \in People, Predicted!SettlePosition(u)
  PROVE  TokensTrue'
<1> DEFINE o == market.resolved_outcome
           p == position[u]
           d == p.outcome_amounts[o]
           p1 == [p EXCEPT !.settled = TRUE]
           left == [p.outcome_amounts EXCEPT ![o] = 0]
           q == [p1 EXCEPT !.outcome_amounts = left]
<1>1. /\ market # None /\ o # None /\ p # None
      /\ position' = [position EXCEPT ![u].settled = TRUE, ![u].outcome_amounts[o] = 0]
      /\ bought' = bought /\ outcomeBalance' = outcomeBalance
      /\ Moved(paid, u, o, d, paid')
  BY DEF Predicted!SettlePosition, Moved
<1>2. o \in Outcomes
  BY <1>1 DEF MarketTrue, Predicted!Market
<1>3. p \in Predicted!Position /\ position \in [People -> Predicted!Position \cup {None}]
  BY <1>1 DEF TokensTrue
<1>4. p.outcome_amounts \in [Outcomes -> Nat]
  BY <1>3 DEF Predicted!Position, Predicted!Tokens
<1>5. p1 \in Predicted!Position /\ p1.outcome_amounts = p.outcome_amounts
  BY <1>3 DEF Predicted!Position
<1>6. position' = [position EXCEPT ![u] = q]
  BY <1>1, <1>3, <1>5
<1> HIDE DEF o, p, p1
<1>7. /\ left \in Predicted!Tokens /\ d \in Nat
      /\ \A i \in Outcomes : left[i] = p.outcome_amounts[i] - (IF i = o THEN d ELSE 0)
  BY <1>2, <1>4 DEF Predicted!Tokens
<1> HIDE DEF left, d
<1>8. /\ q \in Predicted!Position
      /\ \A i \in Outcomes : q.outcome_amounts[i] = p.outcome_amounts[i] - (IF i = o THEN d ELSE 0)
  <2>1. q \in Predicted!Position /\ q.outcome_amounts = left
    BY <1>5, <1>7 DEF Predicted!Position
  <2> QED BY <1>7, <2>1
<1> HIDE DEF q
<1>9. /\ position[u] # None /\ bought' = bought /\ outcomeBalance' = outcomeBalance
      /\ Moved(paid, u, o, d, paid')
  BY <1>1 DEF p
<1>10. \A i \in Outcomes :
         q.outcome_amounts[i] = position[u].outcome_amounts[i] - (IF i = o THEN d ELSE 0)
  BY <1>8 DEF p
<1> QED BY <1>2, <1>6, <1>7, <1>8, <1>9, <1>10, TokensPaid

(* The parts that a call leaves alone. *)
LEMMA PartsKept ==
  /\ MarketTrue /\ UNCHANGED <<market, dispute, now>> => MarketTrue'
  /\ PoolTrue /\ UNCHANGED pool => PoolTrue'
  /\ TokensTrue /\ UNCHANGED <<outcomeBalance, position, bought, paid>> => TokensTrue'
  /\ OrdersTrue /\ UNCHANGED <<bids, resting>> => OrdersTrue'
  /\ CountsTrue /\ UNCHANGED <<tradingVolume, provided>> => CountsTrue'
<1>1. MarketTrue /\ UNCHANGED <<market, dispute, now>> => MarketTrue'
  BY DEF MarketTrue, Predicted!Is
<1>2. PoolTrue /\ UNCHANGED pool => PoolTrue'
  BY DEF PoolTrue
<1>3. TokensTrue /\ UNCHANGED <<outcomeBalance, position, bought, paid>> => TokensTrue'
  BY DEF TokensTrue, Predicted!TokensPaidOnce
<1>4. OrdersTrue /\ UNCHANGED <<bids, resting>> => OrdersTrue'
  BY DEF OrdersTrue
<1>5. CountsTrue /\ UNCHANGED <<tradingVolume, provided>> => CountsTrue'
  BY DEF CountsTrue
<1> QED BY <1>1, <1>2, <1>3, <1>4, <1>5

LEMMA MarketAged ==
  ASSUME MarketTrue, UNCHANGED <<market, dispute>>, now < MaxTime, now' = now + 1
  PROVE  MarketTrue'
BY AmountsAre DEF MarketTrue, Predicted!Is

(* The calls that leave the market alone, and those that leave the pool. *)
LEMMA MarketLeft ==
  ASSUME NEW u \in People
  PROVE  /\ Predicted!Trade(u) => market' = market
         /\ \A n \in Deposits : Predicted!RemoveLiquidity(u, n) => market' = market
         /\ \A n \in TokenAmounts : Predicted!RedeemTokens(u, n) => market' = market
         /\ Predicted!SettlePosition(u) => market' = market
<1>1. ASSUME NEW o \in Outcomes, NEW n \in Stakes, NEW least \in {0}, Predicted!BuyOutcome(u, o, n, least)
      PROVE  market' = market
  BY <1>1 DEF Predicted!BuyOutcome
<1>2. ASSUME NEW o \in Outcomes, NEW n \in TokenAmounts, NEW least \in {0},
             Predicted!SellOutcome(u, o, n, least)
      PROVE  market' = market
  BY <1>2 DEF Predicted!SellOutcome
<1>3. ASSUME NEW n \in TokenAmounts, Predicted!PlaceOrder(u, n) PROVE market' = market
  BY <1>3 DEF Predicted!PlaceOrder
<1>4. ASSUME NEW id \in 1..MaxOrders, Predicted!CancelOrder(u, id) PROVE market' = market
  BY <1>4 DEF Predicted!CancelOrder
<1>5. ASSUME NEW n \in Deposits, Predicted!RemoveLiquidity(u, n) PROVE market' = market
  BY <1>5 DEF Predicted!RemoveLiquidity
<1>6. ASSUME NEW n \in TokenAmounts, Predicted!RedeemTokens(u, n) PROVE market' = market
  BY <1>6 DEF Predicted!RedeemTokens
<1>7. ASSUME Predicted!SettlePosition(u) PROVE market' = market
  BY <1>7 DEF Predicted!SettlePosition
<1> QED BY <1>1, <1>2, <1>3, <1>4, <1>5, <1>6, <1>7 DEF Predicted!Trade

LEMMA PoolThere ==
  /\ \A u \in People, o \in Outcomes, n \in Stakes, least \in {0} :
       Predicted!BuyOutcome(u, o, n, least) => pool # None /\ market # None
  /\ \A u \in People, o \in Outcomes, n \in TokenAmounts, least \in {0} :
       Predicted!SellOutcome(u, o, n, least) => pool # None /\ market # None
  /\ \A u \in People, n \in Seeds : Predicted!CreateLiquidityPool(u, n) => market # None
  /\ \A u \in People, n \in Deposits : Predicted!AddLiquidity(u, n) => pool # None /\ market # None
  /\ \A u \in People, n \in Deposits : Predicted!RemoveLiquidity(u, n) => pool # None
  /\ Predicted!DistributeFees => pool # None
<1>1. ASSUME NEW u \in People, NEW o \in Outcomes, NEW n \in Stakes, NEW least \in {0},
             Predicted!BuyOutcome(u, o, n, least)
      PROVE  pool # None /\ market # None
  BY <1>1 DEF Predicted!BuyOutcome, Predicted!Trading, Predicted!Is
<1>2. ASSUME NEW u \in People, NEW o \in Outcomes, NEW n \in TokenAmounts, NEW least \in {0},
             Predicted!SellOutcome(u, o, n, least)
      PROVE  pool # None /\ market # None
  BY <1>2 DEF Predicted!SellOutcome, Predicted!Trading, Predicted!Is
<1>3. ASSUME NEW u \in People, NEW n \in Seeds, Predicted!CreateLiquidityPool(u, n) PROVE market # None
  BY <1>3 DEF Predicted!CreateLiquidityPool, Predicted!Is
<1>4. ASSUME NEW u \in People, NEW n \in Deposits, Predicted!AddLiquidity(u, n)
      PROVE  pool # None /\ market # None
  BY <1>4 DEF Predicted!AddLiquidity, Predicted!Is
<1>5. ASSUME NEW u \in People, NEW n \in Deposits, Predicted!RemoveLiquidity(u, n) PROVE pool # None
  BY <1>5 DEF Predicted!RemoveLiquidity
<1>6. Predicted!DistributeFees => pool # None
  BY DEF Predicted!DistributeFees
<1> QED BY <1>1, <1>2, <1>3, <1>4, <1>5, <1>6

(* No call changes the terms of a market. *)
Standing == market' # None /\ market'.terms = market.terms

LEMMA TermsStand ==
  ASSUME MarketTrue, market # None, [Predicted!Next]_(Predicted!vars)
  PROVE  Standing
<1>1. market \in Predicted!Market /\ market.total_collateral \in Nat /\ now \in 0..MaxTime
  BY DEF MarketTrue, Predicted!Market
<1>2. ASSUME NEW u \in People
      PROVE  /\ \A t \in Terms : ~Predicted!CreateMarket(u, t)
             /\ \A n \in Seeds : Predicted!CreateLiquidityPool(u, n) => Standing
             /\ \A n \in Deposits : Predicted!AddLiquidity(u, n) => Standing
             /\ Predicted!EarlyClose(u) => Standing
  <2>1. \A t \in Terms : ~Predicted!CreateMarket(u, t)
    BY DEF Predicted!CreateMarket
  <2>2. ASSUME NEW n \in Seeds, Predicted!CreateLiquidityPool(u, n) PROVE Standing
    <3>1. n \in Nat /\ market' = [market EXCEPT !.total_collateral = n]
      BY <2>2, AmountsAre DEF Predicted!CreateLiquidityPool
    <3> QED BY <1>1, <3>1, CollateralWith DEF Standing
  <2>3. ASSUME NEW n \in Deposits, Predicted!AddLiquidity(u, n) PROVE Standing
    <3>1. n \in Nat /\ market' = [market EXCEPT !.total_collateral = @ + n]
      BY <2>3, AmountsAre DEF Predicted!AddLiquidity
    <3>2. /\ market' = [market EXCEPT !.total_collateral = market.total_collateral + n]
          /\ market.total_collateral + n \in Nat
      BY <1>1, <3>1
    <3> QED BY <1>1, <3>2, CollateralWith DEF Standing
  <2>4. ASSUME Predicted!EarlyClose(u) PROVE Standing
    <3>1. Decision(market, "Closed", None, now, market')
      BY <2>4 DEF Predicted!EarlyClose, Decision
    <3> QED BY <1>1, <3>1, MarketWith DEF Standing
  <2> QED BY <2>1, <2>2, <2>3, <2>4
<1>3. Predicted!FinalizeTrading \/ Predicted!CancelMarket => Standing
  <2> SUFFICES ASSUME Predicted!FinalizeTrading \/ Predicted!CancelMarket PROVE Standing
    OBVIOUS
  <2>1. PICK s \in {"PendingResolution", "Cancelled"} : market' = [market EXCEPT !.status = s]
    BY DEF Predicted!FinalizeTrading, Predicted!CancelMarket
  <2> QED BY <1>1, <2>1, StatusWith DEF Standing
<1>4. ASSUME NEW o \in Outcomes
      PROVE  /\ Predicted!SubmitResolution(o) => Standing
             /\ \A b \in Bonds : Predicted!FileDispute(o, b) => Standing
  <2>1. ASSUME Predicted!SubmitResolution(o) PROVE Standing
    <3>1. Decision(market, "Resolved", o, now, market')
      BY <2>1 DEF Predicted!SubmitResolution, Decision
    <3> QED BY <1>1, <3>1, MarketWith DEF Standing
  <2>2. ASSUME NEW b \in Bonds, Predicted!FileDispute(o, b) PROVE Standing
    <3>1. market' = [market EXCEPT !.status = "Disputed"]
      BY <2>2 DEF Predicted!FileDispute
    <3> QED BY <1>1, <3>1, StatusWith DEF Standing
  <2> QED BY <2>1, <2>2
<1>5. ASSUME NEW accepted \in BOOLEAN, Predicted!ResolveDispute(accepted) PROVE Standing
  <2> DEFINE o == IF accepted THEN dispute.claimed ELSE market.resolved_outcome
             t == IF accepted THEN now ELSE market.resolved_at
  <2>1. Decision(market, "Resolved", o, t, market') /\ dispute # None
    BY <1>5 DEF Predicted!ResolveDispute, Decision
  <2>2. o \in Outcomes \cup {None} /\ t \in 0..MaxTime \cup {None}
    BY <1>1, <2>1 DEF MarketTrue, Predicted!Dispute, Predicted!Market
  <2> HIDE DEF o, t
  <2> QED BY <1>1, <2>1, <2>2, MarketWith DEF Standing
<1>6. ASSUME NEW u \in People
      PROVE  /\ Predicted!Trade(u) => market' = market
             /\ \A n \in Deposits : Predicted!RemoveLiquidity(u, n) => market' = market
             /\ \A n \in TokenAmounts : Predicted!RedeemTokens(u, n) => market' = market
             /\ Predicted!SettlePosition(u) => market' = market
  BY MarketLeft
<1>7. Predicted!DistributeFees \/ Predicted!Tick \/ UNCHANGED Predicted!vars => market' = market
  BY DEF Predicted!DistributeFees, Predicted!Tick, Predicted!vars
<1>8. market' = market => Standing
  BY DEF Standing
<1> QED BY <1>2, <1>3, <1>4, <1>5, <1>6, <1>7, <1>8 DEF Predicted!Next, Predicted!Provide

(* A pool that is left alone stays solvent, and there is none before there  *)
(* is a market.                                                             *)
LEMMA SolvencyKept ==
  ASSUME PredictionInv, [Predicted!Next]_(Predicted!vars), UNCHANGED pool
  PROVE  SolvencyTrue'
<1>1. MarketTrue /\ SolvencyTrue
  BY DEF PredictionInv
<1>2. pool # None => Standing
  BY <1>1, TermsStand DEF SolvencyTrue
<1> QED BY <1>1, <1>2 DEF SolvencyTrue, Standing, Predicted!Solvent

LEMMA SolvencyMoved ==
  ASSUME PredictionInv, [Predicted!Next]_(Predicted!vars), market # None,
         \/ Predicted!Solvent(pool')
         \/ pool # None /\ (market.terms.fee_bps <= 10000 /\ Predicted!Solvent(pool) =>
                              Predicted!Solvent(pool'))
  PROVE  SolvencyTrue'
<1>1. Standing
  BY TermsStand DEF PredictionInv
<1>2. pool # None /\ market.terms.fee_bps <= 10000 => Predicted!Solvent(pool)
  BY DEF PredictionInv, SolvencyTrue
<1> HIDE DEF Predicted!Solvent
<1>3. SolvencyTrue' <=>
        (pool' # None => market' # None /\ (market'.terms.fee_bps <= 10000 => Predicted!Solvent(pool')))
  BY DEF SolvencyTrue, Predicted!Solvent
<1> QED BY <1>1, <1>2, <1>3 DEF Standing

LEMMA PredictionSteps == PredictionInv /\ [Predicted!Next]_(Predicted!vars) => PredictionInv'
<1> SUFFICES ASSUME PredictionInv, [Predicted!Next]_(Predicted!vars) PROVE PredictionInv'
  OBVIOUS
<1>0. MarketTrue /\ PoolTrue /\ SolvencyTrue /\ SharesTrue /\ TokensTrue /\ OrdersTrue /\ CountsTrue
  BY DEF PredictionInv
<1> SUFFICES MarketTrue' /\ PoolTrue' /\ SolvencyTrue' /\ SharesTrue' /\ TokensTrue' /\ OrdersTrue'
             /\ CountsTrue'
  BY DEF PredictionInv
<1>1. CASE UNCHANGED Predicted!vars
  BY <1>0, <1>1, PartsKept, SharesKept, SolvencyKept DEF Predicted!vars
<1>2. CASE \E u \in People, t \in Terms : Predicted!CreateMarket(u, t)
  BY <1>0, <1>2, PartsKept, SharesKept, SolvencyKept, MarketCreated DEF Predicted!CreateMarket, Predicted!trading, Predicted!orders
<1>3. CASE \E u \in People, o \in Outcomes, least \in {0}, n \in Stakes : Predicted!BuyOutcome(u, o, n, least)
  <2>1. /\ PoolTrue' /\ TokensTrue' /\ CountsTrue' /\ pool # None /\ market # None
        /\ market.terms.fee_bps <= 10000 /\ Predicted!Solvent(pool) => Predicted!Solvent(pool')
    BY <1>3, TokensBought, PoolThere
  <2>2. SolvencyTrue'
    BY <2>1, SolvencyMoved
  <2> QED BY <1>0, <1>3, PartsKept, SharesKept, <2>1, <2>2 DEF Predicted!BuyOutcome, Predicted!orders
<1>4. CASE \E u \in People, o \in Outcomes, least \in {0}, n \in TokenAmounts :
             Predicted!SellOutcome(u, o, n, least)
  <2>1. /\ PoolTrue' /\ TokensTrue' /\ CountsTrue' /\ pool # None /\ market # None
        /\ Predicted!Solvent(pool) => Predicted!Solvent(pool')
    BY <1>4, TokensSold, PoolThere
  <2>2. SolvencyTrue'
    BY <2>1, SolvencyMoved
  <2> QED BY <1>0, <1>4, PartsKept, SharesKept, <2>1, <2>2 DEF Predicted!SellOutcome, Predicted!orders
<1>5. CASE \E u \in People, n \in TokenAmounts : Predicted!PlaceOrder(u, n)
  BY <1>0, <1>5, PartsKept, SharesKept, SolvencyKept, OrderPlaced DEF Predicted!PlaceOrder, Predicted!trading
<1>6. CASE \E u \in People, id \in 1..MaxOrders : Predicted!CancelOrder(u, id)
  <2>1. OrdersTrue'
    BY <1>0, <1>6, OrderCancelled
  <2>2. UNCHANGED <<market, dispute, now, pool, lpBalance, lpTotalSupply, outcomeBalance, position,
                    tradingVolume, bought, provided, paid>>
    BY <1>6 DEF Predicted!CancelOrder, Predicted!trading
  <2> QED BY <1>0, <2>1, <2>2, PartsKept, SharesKept, SolvencyKept
<1>7. CASE \E u \in People, n \in Seeds : Predicted!CreateLiquidityPool(u, n)
  <2>1. /\ MarketTrue' /\ PoolTrue' /\ SharesTrue' /\ CountsTrue' /\ market # None
        /\ Predicted!Solvent(pool')
    BY <1>0, <1>7, PoolCreated, PoolThere DEF SolvencyTrue
  <2>2. SolvencyTrue'
    BY <2>1, SolvencyMoved
  <2> QED BY <1>0, <1>7, <2>1, <2>2, PartsKept, SharesKept DEF Predicted!CreateLiquidityPool, Predicted!orders
<1>8. CASE \E u \in People, n \in Deposits : Predicted!AddLiquidity(u, n)
  <2>1. /\ MarketTrue' /\ PoolTrue' /\ SharesTrue' /\ CountsTrue' /\ market # None
        /\ pool # None /\ (Predicted!Solvent(pool) => Predicted!Solvent(pool'))
    BY <1>0, <1>8, LiquidityAdded, PoolThere DEF SolvencyTrue
  <2>2. SolvencyTrue'
    BY <2>1, SolvencyMoved
  <2> QED BY <1>0, <1>8, <2>1, <2>2, PartsKept, SharesKept DEF Predicted!AddLiquidity, Predicted!orders
<1>9. CASE \E u \in People, n \in Deposits : Predicted!RemoveLiquidity(u, n)
  <2>1. /\ MarketTrue' /\ PoolTrue' /\ SharesTrue' /\ CountsTrue' /\ market # None
        /\ pool # None /\ (Predicted!Solvent(pool) => Predicted!Solvent(pool'))
    BY <1>0, <1>9, LiquidityRemoved, PoolThere DEF SolvencyTrue
  <2>2. SolvencyTrue'
    BY <2>1, SolvencyMoved
  <2> QED BY <1>0, <1>9, <2>1, <2>2, PartsKept, SharesKept DEF Predicted!RemoveLiquidity, Predicted!orders
<1>10. CASE \/ Predicted!FinalizeTrading \/ Predicted!CancelMarket
            \/ \E u \in People : Predicted!EarlyClose(u)
  BY <1>0, <1>10, PartsKept, SharesKept, SolvencyKept, MarketOver
     DEF Predicted!FinalizeTrading, Predicted!CancelMarket, Predicted!EarlyClose, Predicted!trading, Predicted!orders
<1>11. CASE \E u \in People, n \in TokenAmounts : Predicted!RedeemTokens(u, n)
  <2>1. TokensTrue'
    BY <1>0, <1>11, TokensRedeemed
  <2>2. UNCHANGED <<market, dispute, now, pool, lpBalance, lpTotalSupply, tradingVolume, provided,
                    bids, resting>>
    BY <1>11 DEF Predicted!RedeemTokens, Predicted!orders
  <2> QED BY <1>0, <2>1, <2>2, PartsKept, SharesKept, SolvencyKept
<1>12. CASE \E u \in People : Predicted!SettlePosition(u)
  <2>1. TokensTrue'
    BY <1>0, <1>12, TokensSettled
  <2>2. UNCHANGED <<market, dispute, now, pool, lpBalance, lpTotalSupply, tradingVolume, provided,
                    bids, resting>>
    BY <1>12 DEF Predicted!SettlePosition, Predicted!orders
  <2> QED BY <1>0, <2>1, <2>2, PartsKept, SharesKept, SolvencyKept
<1>13. CASE Predicted!DistributeFees
  <2>1. /\ PoolTrue' /\ market # None
        /\ pool # None /\ (Predicted!Solvent(pool) => Predicted!Solvent(pool'))
    BY <1>0, <1>13, FeesDistributed, PoolThere DEF SolvencyTrue
  <2>2. SolvencyTrue'
    BY <2>1, SolvencyMoved
  <2> QED BY <1>0, <1>13, <2>1, <2>2, PartsKept, SharesKept DEF Predicted!DistributeFees, Predicted!orders
<1>14. CASE \E o \in Outcomes : Predicted!SubmitResolution(o)
  <2>1. MarketTrue'
    BY <1>0, <1>14, MarketResolved
  <2>2. UNCHANGED <<pool, lpBalance, lpTotalSupply, outcomeBalance, position, tradingVolume, bought,
                    provided, bids, resting, paid>>
    BY <1>14 DEF Predicted!SubmitResolution, Predicted!trading, Predicted!orders
  <2> QED BY <1>0, <2>1, <2>2, PartsKept, SharesKept, SolvencyKept
<1>15. CASE \E o \in Outcomes, b \in Bonds : Predicted!FileDispute(o, b)
  <2>1. MarketTrue'
    BY <1>0, <1>15, MarketDisputed
  <2>2. UNCHANGED <<pool, lpBalance, lpTotalSupply, outcomeBalance, position, tradingVolume, bought,
                    provided, bids, resting, paid>>
    BY <1>15 DEF Predicted!FileDispute, Predicted!trading, Predicted!orders
  <2> QED BY <1>0, <2>1, <2>2, PartsKept, SharesKept, SolvencyKept
<1>16. CASE \E accepted \in BOOLEAN : Predicted!ResolveDispute(accepted)
  <2>1. MarketTrue'
    BY <1>0, <1>16, MarketDecided
  <2>2. UNCHANGED <<pool, lpBalance, lpTotalSupply, outcomeBalance, position, tradingVolume, bought,
                    provided, bids, resting, paid>>
    BY <1>16 DEF Predicted!ResolveDispute, Predicted!trading, Predicted!orders
  <2> QED BY <1>0, <2>1, <2>2, PartsKept, SharesKept, SolvencyKept
<1>17. CASE Predicted!Tick
  BY <1>0, <1>17, PartsKept, SharesKept, SolvencyKept, MarketAged DEF Predicted!Tick, Predicted!trading, Predicted!orders
<1> QED BY <1>1, <1>2, <1>3, <1>4, <1>5, <1>6, <1>7, <1>8, <1>9, <1>10, <1>11, <1>12, <1>13,
           <1>14, <1>15, <1>16, <1>17 DEF Predicted!Next, Predicted!Trade, Predicted!Provide

-----------------------------------------------------------------------------
(* The market among the contracts *)

LEMMA PortfolioClock ==
  Next => UNCHANGED now \/ (now < MaxTime /\ now' = now + 1)
<1>1. Step => UNCHANGED now \/ (now < MaxTime /\ now' = now + 1)
  BY StepSplits DEF Settings, Tick, ByHand, Noting, Scheduling, ExecuteScheduled
<1> QED BY <1>1 DEF Next, ManageRoles

LEMMA FeedClock ==
  Fed!Next => UNCHANGED now \/ (now < MaxTime /\ now' = now + 1)
<1>1. ASSUME NEW o, NEW q, Fed!RegisterOracle(o, q) \/ Fed!UpdateOracle(o, q) \/ Fed!RemoveOracle(o)
      PROVE  UNCHANGED now
  BY <1>1 DEF Fed!RegisterOracle, Fed!UpdateOracle, Fed!RemoveOracle
<1>2. ASSUME NEW x, NEW a, Fed!SetValidationConfig(x) \/ Fed!SetDefaultMethod(x) \/ Fed!SetFallbackPrice(a, x)
      PROVE  UNCHANGED now
  BY <1>2 DEF Fed!SetValidationConfig, Fed!SetDefaultMethod, Fed!SetFallbackPrice
<1>3. ASSUME NEW a, Fed!ClearCache(a) \/ Fed!Track(a) \/ Fed!Untrack(a)
      PROVE  UNCHANGED now
  BY <1>3 DEF Fed!ClearCache, Fed!Track, Fed!Untrack
<1>4. ASSUME NEW a, NEW o, NEW x, Fed!SubmitPrice(a, o, x) \/ Fed!BatchSubmitPrices(a, x)
      PROVE  UNCHANGED now
  <2>1. Fed!SubmitPrice(a, o, x) => UNCHANGED now
    BY DEF Fed!SubmitPrice
  <2>2. Fed!BatchSubmitPrices(a, x) => UNCHANGED now
    BY DEF Fed!BatchSubmitPrices
  <2> QED BY <1>4, <2>1, <2>2
<1>5. ASSUME NEW a, NEW m, Fed!GetPrice(a) \/ Fed!GetPriceWithMethod(a, m)
      PROVE  UNCHANGED now
  BY <1>5 DEF Fed!GetPrice, Fed!GetPriceWithMethod, Fed!BatchGetPrices
<1> QED BY <1>1, <1>2, <1>3, <1>4, <1>5 DEF Fed!Next, Fed!Tick

(* A step of any of the contracts is one of the market, or its clock's, or  *)
(* nothing to it.                                                           *)
LEMMA MarketSteps == [MarketsNext]_marketsVars => [Predicted!Next]_(Predicted!vars)
<1>1. UNCHANGED <<now, predictions>> => UNCHANGED Predicted!vars
  BY DEF predictions, Predicted!vars
<1>2. UNCHANGED predictions /\ now < MaxTime /\ now' = now + 1 => Predicted!Tick
  BY DEF predictions, Predicted!Tick, Predicted!trading, Predicted!orders
<1>3. UNCHANGED marketsVars => UNCHANGED <<now, predictions>>
  BY DEF marketsVars
<1>4. Rebalancing => [Predicted!Next]_(Predicted!vars)
  BY <1>1, <1>2, PortfolioClock DEF Rebalancing, Predicted!Next
<1>5. Trading => [Predicted!Next]_(Predicted!vars)
  BY <1>1 DEF Trading
<1>6. Pricing => [Predicted!Next]_(Predicted!vars)
  BY <1>1, <1>2, FeedClock DEF Pricing, Predicted!Next
<1> QED BY <1>1, <1>3, <1>4, <1>5, <1>6 DEF MarketsNext, Predicting

(***************************************************************************)
(* Whatever the other contracts do, the prediction market behaves as        *)
(* Prediction says of it alone.                                             *)
(***************************************************************************)
THEOREM MarketRuns == MarketsSpec => Predicted!Spec
<1>1. MarketsInit => Predicted!Init
  BY DEF MarketsInit
<1> QED BY <1>1, MarketSteps, PTL DEF MarketsSpec, Predicted!Spec

THEOREM PredictionHolds == Predicted!Spec => []PredictionInv
BY PredictionStarts, PredictionSteps, PTL DEF Predicted!Spec

(***************************************************************************)
(* No balance of outcome tokens, no position, payment or volume of trade    *)
(* falls below zero, whatever the deposits, withdrawals and trades and      *)
(* whatever rate of fee the market was created with: a trade checks what it *)
(* gives for its sign, even where a fee above the whole has taken the       *)
(* reserves below zero.                                                     *)
(***************************************************************************)
THEOREM MarketTyped == MarketsSpec => []Predicted!TypeOK
<1>1. PredictionInv => Predicted!TypeOK
  BY DEF PredictionInv, MarketTrue, PoolTrue, SharesTrue, TokensTrue, OrdersTrue, CountsTrue, Predicted!TypeOK
<1> QED BY <1>1, MarketRuns, PredictionHolds, PTL

(***************************************************************************)
(* The products of the pool are those of its reserves, no reserve is below  *)
(* zero unless the market charges more than the whole, the shares in the    *)
(* pool add up, and the orders at rest are the live ones, each once and in  *)
(* the order they came.                                                     *)
(***************************************************************************)
THEOREM PoolIsSound == MarketsSpec => []PoolSound
<1>1. PredictionInv => PoolSound
  <2>1. Predicted!Range(resting) = Range(resting)
    BY DEF Range, Predicted!Range
  <2> QED BY <2>1 DEF PredictionInv, PoolTrue, SolvencyTrue, SharesTrue, OrdersTrue, PoolSound, Predicted!PoolSound
<1> QED BY <1>1, MarketRuns, PredictionHolds, PTL

(***************************************************************************)
(* Every token the pool sold is in a position or has been paid for once,    *)
(* however redeem_tokens and settle_position are mixed.                     *)
(***************************************************************************)
THEOREM TokensArePaidOnce == MarketsSpec => []TokensPaidOnce
<1>1. PredictionInv => TokensPaidOnce
  BY DEF PredictionInv, TokensTrue, TokensPaidOnce
<1> QED BY <1>1, MarketRuns, PredictionHolds, PTL

(***************************************************************************)
(* The outcome of a market stands once its period to dispute it is over.    *)
(***************************************************************************)
THEOREM OutcomesStand == MarketsSpec => OutcomeStands
<1>1. ASSUME PredictionInv, [Predicted!Next]_(Predicted!vars), Predicted!Is("Resolved"),
             now > market.resolved_at + DisputePeriod
      PROVE  market' = market
  <2>1. /\ market # None /\ market.status = "Resolved"
        /\ market.resolved_at \in Nat /\ now \in Nat /\ DisputePeriod \in Nat
        /\ ~(dispute # None /\ dispute.status = "Pending")
    BY <1>1, AmountsAre DEF PredictionInv, MarketTrue, Predicted!Is
  <2>2. ASSUME NEW u \in People
        PROVE  /\ \A t \in Terms : ~Predicted!CreateMarket(u, t)
               /\ \A n \in Seeds : ~Predicted!CreateLiquidityPool(u, n)
               /\ \A n \in Deposits : ~Predicted!AddLiquidity(u, n)
               /\ ~Predicted!EarlyClose(u)
    BY <2>1 DEF Predicted!CreateMarket, Predicted!CreateLiquidityPool, Predicted!AddLiquidity, Predicted!EarlyClose, Predicted!Is
  <2>3. ~Predicted!FinalizeTrading /\ ~Predicted!CancelMarket /\ \A o \in Outcomes : ~Predicted!SubmitResolution(o)
    BY <2>1 DEF Predicted!FinalizeTrading, Predicted!CancelMarket, Predicted!SubmitResolution, Predicted!Is
  <2>4. \A o \in Outcomes, b \in Bonds : ~Predicted!FileDispute(o, b)
    BY <1>1, <2>1 DEF Predicted!FileDispute
  <2>5. \A accepted \in BOOLEAN : ~Predicted!ResolveDispute(accepted)
    BY <2>1 DEF Predicted!ResolveDispute
  <2>6. ASSUME NEW u \in People
        PROVE  /\ Predicted!Trade(u) => market' = market
               /\ \A n \in Deposits : Predicted!RemoveLiquidity(u, n) => market' = market
               /\ \A n \in TokenAmounts : Predicted!RedeemTokens(u, n) => market' = market
               /\ Predicted!SettlePosition(u) => market' = market
    BY MarketLeft
  <2>7. (Predicted!DistributeFees \/ Predicted!Tick \/ UNCHANGED Predicted!vars) => market' = market
    BY DEF Predicted!DistributeFees, Predicted!Tick, Predicted!vars
  <2> QED BY <1>1, <2>2, <2>3, <2>4, <2>5, <2>6, <2>7 DEF Predicted!Next, Predicted!Provide
<1>2. PredictionInv /\ [Predicted!Next]_(Predicted!vars)
        => [Predicted!Is("Resolved") /\ now > market.resolved_at + DisputePeriod => market' = market]_(Predicted!vars)
  BY <1>1
<1> QED BY <1>2, MarketRuns, PredictionHolds, PTL DEF Predicted!Spec, OutcomeStands, Predicted!OutcomeStands

-----------------------------------------------------------------------------
(* What a trade moves *)

Collateral == pool.collateral_reserve + pool.fees_accumulated

Conserving ==
  /\ \A o \in Outcomes :
       pool'.outcome_reserves[o] + Outside(outcomeBalance', o)
         = pool.outcome_reserves[o] + Outside(outcomeBalance, o)
  /\ Collateral' - Collateral
       = (IF bought' # bought THEN 1 ELSE -1) * (tradingVolume' - tradingVolume)

(* Only trades move the volume. *)
LEMMA VolumeMoves ==
  ASSUME [Predicted!Next]_(Predicted!vars), tradingVolume' # tradingVolume
  PROVE  \E u \in People, o \in Outcomes, least \in {0} :
           \/ \E n \in Stakes : Predicted!BuyOutcome(u, o, n, least)
           \/ \E n \in TokenAmounts : Predicted!SellOutcome(u, o, n, least)
<1>1. ASSUME NEW u \in People
      PROVE  /\ \A t \in Terms : ~Predicted!CreateMarket(u, t)
             /\ \A n \in Seeds : ~Predicted!CreateLiquidityPool(u, n)
             /\ \A n \in Deposits : ~Predicted!AddLiquidity(u, n) /\ ~Predicted!RemoveLiquidity(u, n)
             /\ ~Predicted!EarlyClose(u)
  BY DEF Predicted!CreateMarket, Predicted!CreateLiquidityPool, Predicted!AddLiquidity, Predicted!RemoveLiquidity, Predicted!EarlyClose,
         Predicted!trading
<1>2. ~Predicted!FinalizeTrading /\ ~Predicted!CancelMarket /\ ~Predicted!DistributeFees /\ ~Predicted!Tick
  BY DEF Predicted!FinalizeTrading, Predicted!CancelMarket, Predicted!DistributeFees, Predicted!Tick, Predicted!trading
<1>3. /\ \A o \in Outcomes : ~Predicted!SubmitResolution(o)
      /\ \A o \in Outcomes, b \in Bonds : ~Predicted!FileDispute(o, b)
      /\ \A accepted \in BOOLEAN : ~Predicted!ResolveDispute(accepted)
  <2>1. ASSUME NEW o \in Outcomes, Predicted!SubmitResolution(o) PROVE FALSE
    BY <2>1 DEF Predicted!SubmitResolution, Predicted!trading
  <2>2. ASSUME NEW o \in Outcomes, NEW b \in Bonds, Predicted!FileDispute(o, b) PROVE FALSE
    BY <2>2 DEF Predicted!FileDispute, Predicted!trading
  <2>3. ASSUME NEW accepted \in BOOLEAN, Predicted!ResolveDispute(accepted) PROVE FALSE
    BY <2>3 DEF Predicted!ResolveDispute, Predicted!trading
  <2> QED BY <2>1, <2>2, <2>3
<1>4. ASSUME NEW u \in People
      PROVE  /\ \A n \in TokenAmounts : ~Predicted!PlaceOrder(u, n) /\ ~Predicted!RedeemTokens(u, n)
             /\ \A id \in 1..MaxOrders : ~Predicted!CancelOrder(u, id)
             /\ ~Predicted!SettlePosition(u)
  BY DEF Predicted!PlaceOrder, Predicted!RedeemTokens, Predicted!CancelOrder, Predicted!SettlePosition, Predicted!trading
<1>5. ~UNCHANGED Predicted!vars
  BY DEF Predicted!vars
<1> QED BY <1>1, <1>2, <1>3, <1>4, <1>5 DEF Predicted!Next, Predicted!Provide, Predicted!Trade

LEMMA TradeConserves ==
  ASSUME PredictionInv, [Predicted!Next]_(Predicted!vars), tradingVolume' # tradingVolume PROVE Conserving
<1>0. tradingVolume \in Nat
  BY DEF PredictionInv, CountsTrue
<1>1. ASSUME NEW u \in People, NEW o \in Outcomes, NEW least \in {0}, NEW n \in Stakes,
             Predicted!BuyOutcome(u, o, n, least)
      PROVE  Conserving
  <2>1. /\ \A i \in Outcomes :
             pool'.outcome_reserves[i] + Outside(outcomeBalance', i)
               = pool.outcome_reserves[i] + Outside(outcomeBalance, i)
        /\ (pool'.collateral_reserve + pool'.fees_accumulated)
             - (pool.collateral_reserve + pool.fees_accumulated) = tradingVolume' - tradingVolume
        /\ bought' # bought /\ CountsTrue'
    BY <1>1, TokensBought
  <2>2. tradingVolume' - tradingVolume \in Int
    BY <1>0, <2>1 DEF CountsTrue
  <2>3. (IF bought' # bought THEN 1 ELSE -1) * (tradingVolume' - tradingVolume)
          = tradingVolume' - tradingVolume
    BY <2>1, <2>2
  <2> QED BY <2>1, <2>3 DEF Conserving, Collateral
<1>2. ASSUME NEW u \in People, NEW o \in Outcomes, NEW least \in {0}, NEW n \in TokenAmounts,
             Predicted!SellOutcome(u, o, n, least)
      PROVE  Conserving
  <2>1. /\ \A i \in Outcomes :
             pool'.outcome_reserves[i] + Outside(outcomeBalance', i)
               = pool.outcome_reserves[i] + Outside(outcomeBalance, i)
        /\ (pool'.collateral_reserve + pool'.fees_accumulated)
             - (pool.collateral_reserve + pool.fees_accumulated)
             = -(tradingVolume' - tradingVolume)
        /\ bought' = bought /\ CountsTrue'
    BY <1>2, TokensSold
  <2>2. tradingVolume' - tradingVolume \in Int
    BY <1>0, <2>1 DEF CountsTrue
  <2>3. (IF bought' # bought THEN 1 ELSE -1) * (tradingVolume' - tradingVolume)
          = -(tradingVolume' - tradingVolume)
    BY <2>1, <2>2
  <2> QED BY <2>1, <2>3 DEF Conserving, Collateral
<1> QED BY <1>1, <1>2, VolumeMoves

(***************************************************************************)
(* A trade makes no tokens and loses no collateral, whatever is rounded     *)
(* off: what the reserve and the fees together gain is what the buyer paid, *)
(* and what they lose what the seller got.                                  *)
(***************************************************************************)
THEOREM TradesAreConserving == MarketsSpec => TradesConserve
<1>1. ASSUME PredictionInv, [Predicted!Next]_(Predicted!vars)
      PROVE  [tradingVolume' # tradingVolume => Conserving]_(Predicted!vars)
  BY <1>1, TradeConserves
<1>2. Conserving =>
        /\ \A o \in Outcomes :
             pool'.outcome_reserves[o] + Predicted!SumOver([u \in People |-> outcomeBalance[u][o]])'
               = pool.outcome_reserves[o] + Predicted!SumOver([u \in People |-> outcomeBalance[u][o]])
        /\ (pool.collateral_reserve + pool.fees_accumulated)'
             - (pool.collateral_reserve + pool.fees_accumulated)
             = (IF bought' # bought THEN 1 ELSE -1) * (tradingVolume' - tradingVolume)
  <2>1. ASSUME NEW o \in Outcomes
        PROVE  /\ Predicted!SumOver([u \in People |-> outcomeBalance[u][o]]) = Outside(outcomeBalance, o)
               /\ Predicted!SumOver([u \in People |-> outcomeBalance[u][o]])' = Outside(outcomeBalance', o)
    BY SumIsSummed DEF Outside, Predicted!SumOver, Predicted!MapThenSumSet, Predicted!MapThenFoldSet, Summed
  <2> QED BY <2>1 DEF Conserving, Collateral
<1>3. ASSUME PredictionInv, [Predicted!Next]_(Predicted!vars)
      PROVE  [tradingVolume' # tradingVolume =>
                LET outside(o) == Predicted!SumOver([u \in People |-> outcomeBalance[u][o]])
                    collateral == pool.collateral_reserve + pool.fees_accumulated
                IN
                /\ \A o \in Outcomes :
                     pool'.outcome_reserves[o] + outside(o)' = pool.outcome_reserves[o] + outside(o)
                /\ collateral' - collateral =
                     (IF bought' # bought THEN 1 ELSE -1) * (tradingVolume' - tradingVolume)]_(Predicted!vars)
  BY <1>1, <1>2, <1>3
<1> QED BY <1>3, MarketRuns, PredictionHolds, PTL DEF Predicted!Spec, TradesConserve, Predicted!TradesConserve
-----------------------------------------------------------------------------
(* The order book among the contracts: Book is OrderBook with its proofs,   *)
(* and its operators are those of Exchanged.                                *)

LEMMA SameBooks ==
  /\ \A s, o : Exchanged!Insert(s, o) = Book!Insert(s, o)
  /\ \A s, id : Exchanged!RemoveFromBook(s, id) = Book!RemoveFromBook(s, id)
<1>1. \A s, o : Exchanged!Insert(s, o) = Book!Insert(s, o)
  BY Zenon DEF Exchanged!Insert, Book!Insert, Exchanged!Better, Book!Better,
               Exchanged!InsertAt, Book!InsertAt, Exchanged!Min, Book!Min
<1>2. \A s, id : Exchanged!RemoveFromBook(s, id) = Book!RemoveFromBook(s, id)
  BY Zenon DEF Exchanged!RemoveFromBook, Book!RemoveFromBook, Exchanged!RemoveFirstMatch, Book!RemoveFirstMatch,
               Exchanged!RemoveAt, Book!RemoveAt, Exchanged!SelectInSeq, Book!SelectInSeq, Exchanged!Min, Book!Min
<1> QED BY <1>1, <1>2

LEMMA SameTaken ==
  /\ \A s, leg : Exchanged!Taken(s, leg) = Book!Taken(s, leg)
  /\ \A s, leg : Exchanged!Traded(s, leg) = Book!Traded(s, leg)
  /\ \A s, leg : Exchanged!FilledBy(s, leg) = Book!FilledBy(s, leg)
<1>1. \A s, leg : Exchanged!Taken(s, leg) = Book!Taken(s, leg)
  BY Zenon DEF Exchanged!Taken, Book!Taken, Exchanged!Better, Book!Better, Exchanged!Ahead, Book!Ahead, Exchanged!MapThenSumSet, Book!MapThenSumSet, Exchanged!MapThenFoldSet, Book!MapThenFoldSet
<1>2. \A s, leg : Exchanged!Traded(s, leg) = Book!Traded(s, leg)
  BY Zenon DEF Exchanged!Traded, Book!Traded, Exchanged!Taken, Book!Taken, Exchanged!Better, Book!Better, Exchanged!Ahead, Book!Ahead, Exchanged!MapThenSumSet, Book!MapThenSumSet, Exchanged!MapThenFoldSet, Book!MapThenFoldSet
<1>3. \A s, leg : Exchanged!FilledBy(s, leg) = Book!FilledBy(s, leg)
  BY Zenon DEF Exchanged!FilledBy, Book!FilledBy, Exchanged!Taken, Book!Taken, Exchanged!Better, Book!Better, Exchanged!Ahead, Book!Ahead, Exchanged!MapThenSumSet, Book!MapThenSumSet, Exchanged!MapThenFoldSet, Book!MapThenFoldSet
<1> QED BY <1>1, <1>2, <1>3

LEMMA SameRest ==
  ASSUME NEW s, NEW leg
  PROVE  /\ Exchanged!RestAfter(s, leg) = Book!RestAfter(s, leg)
         /\ \A ords : Exchanged!OrdersAfter(ords, s, leg) = Book!OrdersAfter(ords, s, leg)
<1>1. Exchanged!AfterAll(s, leg) = Book!AfterAll(s, leg)
  BY SameTaken DEF Exchanged!After, Book!After, Exchanged!AfterAll, Book!AfterAll
<1>2. Exchanged!Emptied(s, leg) = Book!Emptied(s, leg)
  BY <1>1 DEF Exchanged!Emptied, Book!Emptied
<1>3. \A S : Exchanged!Cardinality(S) = Book!Cardinality(S)
  BY Zenon DEF Exchanged!Cardinality, Book!Cardinality
<1>4. Exchanged!RestAfter(s, leg) = Book!RestAfter(s, leg)
  BY <1>1, <1>2, <1>3 DEF Exchanged!RestAfter, Book!RestAfter
<1>5. \A ords : Exchanged!OrdersAfter(ords, s, leg) = Book!OrdersAfter(ords, s, leg)
  BY <1>1 DEF Exchanged!OrdersAfter, Book!OrdersAfter, Exchanged!Places, Book!Places
<1> QED BY <1>4, <1>5

LEMMA SameMatch ==
  ASSUME NEW b, NEW leg
  PROVE  Exchanged!Match(b, leg) = Book!Match(b, leg)
<1> DEFINE p == leg.pair
           opp == Exchanged!Opposite(leg.side)
           s == b.book[p][opp]
           orders == Exchanged!OrdersAfter(b.order[p], s, leg)
           rest == Exchanged!RestAfter(s, leg)
           traded == Exchanged!Traded(s, leg)
<1>1. opp = Book!Opposite(leg.side)
  BY DEF Exchanged!Opposite, Book!Opposite
<1>2. Exchanged!Match(b, leg) =
        [b EXCEPT !.order[p] = orders, !.book[p][opp] = rest, !.volume[p] = @ + traded]
  BY Zenon DEF Exchanged!Match
<1>3. orders = Book!OrdersAfter(b.order[p], s, leg) /\ rest = Book!RestAfter(s, leg)
      /\ traded = Book!Traded(s, leg)
  BY SameRest, SameTaken
<1>4. Book!Match(b, leg) =
        [b EXCEPT !.order[p] = orders, !.book[p][opp] = rest, !.volume[p] = @ + traded]
  <2> DEFINE far == Book!Opposite(leg.side)
             t == b.book[p][far]
             o == Book!OrdersAfter(b.order[p], t, leg)
             r == Book!RestAfter(t, leg)
             v == Book!Traded(t, leg)
  <2>1. Book!Match(b, leg) = [b EXCEPT !.order[p] = o, !.book[p][far] = r, !.volume[p] = @ + v]
    BY Zenon DEF Book!Match
  <2>2. far = opp /\ t = s
    BY <1>1
  <2>3. o = orders /\ r = rest /\ v = traded
    BY <1>3, <2>2
  <2> HIDE DEF far, t, o, r, v, opp, s, orders, rest, traded, p
  <2> QED BY <2>1, <2>2, <2>3
<1> QED BY <1>2, <1>4

LEMMA SameAcceptable ==
  ASSUME NEW b, NEW leg
  PROVE  Exchanged!Acceptable(b, leg) <=> Book!Acceptable(b, leg)
<1> DEFINE s == b.book[leg.pair][Book!Opposite(leg.side)]
           t == b.book[leg.pair][Exchanged!Opposite(leg.side)]
           config == IF leg.max_slippage_bps = None THEN slippage[leg.pair]
                     ELSE [max_slippage_bps |-> leg.max_slippage_bps, enabled |-> TRUE]
           open == /\ leg.pair \in DOMAIN pairs /\ pairs[leg.pair].is_active
                   /\ leg.amount > 0 /\ leg.price > 0 /\ leg.amount >= pairs[leg.pair].min_order_size
<1>1. s = t
  BY DEF Exchanged!Opposite, Book!Opposite
<1>2. Book!Acceptable(b, leg) <=>
        /\ open
        /\ s # <<>> => Book!Near(config, leg.side, leg.price, s[1].price)
        /\ Book!FilledBy(s, leg) > 0 =>
             Book!Near(config, leg.side, leg.price, Book!Traded(s, leg) \div Book!FilledBy(s, leg))
  BY DEF Book!Acceptable
<1>3. Exchanged!Acceptable(b, leg) <=>
        /\ open
        /\ t # <<>> => Exchanged!Near(config, leg.side, leg.price, t[1].price)
        /\ Exchanged!FilledBy(t, leg) > 0 =>
             Exchanged!Near(config, leg.side, leg.price, Exchanged!Traded(t, leg) \div Exchanged!FilledBy(t, leg))
  BY DEF Exchanged!Acceptable
<1>4. \A side, limit, price : Exchanged!Near(config, side, limit, price) <=> Book!Near(config, side, limit, price)
  BY DEF Exchanged!Near, Book!Near, Exchanged!Bps, Book!Bps
<1> HIDE DEF s, t, config, open
<1> QED BY <1>1, <1>2, <1>3, <1>4, SameTaken

LEMMA SamePlaced ==
  ASSUME NEW p, NEW owner, NEW side, NEW price, NEW amount, Exchanged!PlaceOrder(p, owner, side, price, amount)
  PROVE  Book!PlaceOrder(p, owner, side, price, amount)
<1> DEFINE o == [order_id |-> Len(order[p]) + 1, owner |-> owner, side |-> side, price |-> price,
                 amount |-> amount, remaining |-> amount, status |-> "Active"]
           s == Exchanged!Insert(book[p][side], o)
<1>1. book' = [book EXCEPT ![p][side] = s]
  BY DEF Exchanged!PlaceOrder
<1>2. s = Book!Insert(book[p][side], o)
  BY SameBooks
<1>3. book' = [book EXCEPT ![p][side] = Book!Insert(@, o)]
  <2> HIDE DEF s, o
  <2> QED BY <1>1, <1>2
<1> QED BY <1>3 DEF Exchanged!PlaceOrder, Book!PlaceOrder

LEMMA SameCancelled ==
  ASSUME NEW p, NEW caller, NEW id, Exchanged!CancelOrder(p, caller, id)
  PROVE  Book!CancelOrder(p, caller, id)
<1> DEFINE side == order[p][id].side
           s == Exchanged!RemoveFromBook(book[p][side], id)
<1>1. book' = [book EXCEPT ![p][side] = s]
  BY DEF Exchanged!CancelOrder
<1>2. s = Book!RemoveFromBook(book[p][side], id)
  BY SameBooks
<1>3. book' = [book EXCEPT ![p][side] = Book!RemoveFromBook(@, id)]
  <2> HIDE DEF s
  <2> QED BY <1>1, <1>2
<1> QED BY <1>3 DEF Exchanged!CancelOrder, Book!CancelOrder, Exchanged!Live, Book!Live

LEMMA SameBatch ==
  ASSUME NEW legs, Exchanged!ExecuteBatch(legs)
  PROVE  Book!ExecuteBatch(legs)
<1> DEFINE start == [ok |-> TRUE, order |-> order, book |-> book, volume |-> volume]
           E(f) == [n \in 0..Len(legs) |->
                      IF n = 0 THEN start
                      ELSE IF f[n - 1].ok /\ Exchanged!Acceptable(f[n - 1], legs[n])
                           THEN Exchanged!Match(f[n - 1], legs[n])
                           ELSE [f[n - 1] EXCEPT !.ok = FALSE]]
           B(f) == [n \in 0..Len(legs) |->
                      IF n = 0 THEN start
                      ELSE IF f[n - 1].ok /\ Book!Acceptable(f[n - 1], legs[n])
                           THEN Book!Match(f[n - 1], legs[n])
                           ELSE [f[n - 1] EXCEPT !.ok = FALSE]]
           run == CHOOSE f : f = E(f)
           after == CHOOSE f : f = B(f)
<1>1. ASSUME NEW f PROVE E(f) = B(f)
  <2> HIDE DEF start
  <2> QED BY SameAcceptable, SameMatch
<1>2. run = after
  <2> HIDE DEF E, B
  <2> QED BY <1>1, Zenon
<1>3. /\ legs # <<>> /\ run[Len(legs)].ok
      /\ order' = run[Len(legs)].order /\ book' = run[Len(legs)].book
      /\ volume' = run[Len(legs)].volume /\ UNCHANGED <<pairs, slippage>>
  BY DEF Exchanged!ExecuteBatch, Exchanged!Standing
<1>4. /\ legs # <<>> /\ after[Len(legs)].ok
      /\ order' = after[Len(legs)].order /\ book' = after[Len(legs)].book
      /\ volume' = after[Len(legs)].volume /\ UNCHANGED <<pairs, slippage>>
  <2> HIDE DEF run, after
  <2> QED BY <1>2, <1>3
<1> QED BY <1>4 DEF Book!ExecuteBatch, Book!Standing

LEMMA SameExchange ==
  /\ Exchanged!Init => Book!Init
  /\ Exchanged!Next => Book!Next
  /\ UNCHANGED exchange => UNCHANGED Book!vars
<1>1. Exchanged!Init => Book!Init
  BY DEF Exchanged!Init, Book!Init, Exchanged!DefaultSlippage, Book!DefaultSlippage, Exchanged!Sides, Book!Sides
<1>2. \A p, c : /\ Exchanged!RegisterPair(p, c) => Book!RegisterPair(p, c)
                /\ Exchanged!UpdatePair(p, c) => Book!UpdatePair(p, c)
                /\ Exchanged!SetSlippage(p, c) => Book!SetSlippage(p, c)
  BY DEF Exchanged!RegisterPair, Book!RegisterPair, Exchanged!UpdatePair, Book!UpdatePair,
         Exchanged!SetSlippage, Book!SetSlippage, Exchanged!DefaultSlippage, Book!DefaultSlippage
<1>3. Exchanged!Next => Book!Next
  BY <1>2, SamePlaced, SameCancelled, SameBatch DEF Exchanged!Next, Book!Next, Exchanged!Sides, Book!Sides
<1>4. UNCHANGED exchange => UNCHANGED Book!vars
  BY DEF exchange, Book!vars
<1> QED BY <1>1, <1>3, <1>4

LEMMA BookAssumed == Book!OrderBookAssumption
BY MarketsAssumption DEF Book!OrderBookAssumption, Exchanged!OrderBookAssumption, Book!TradeLeg, Exchanged!TradeLeg, Book!Sides, Exchanged!Sides

LEMMA BookStep == [MarketsNext]_marketsVars => [Book!Next]_(Book!vars)
<1>1. UNCHANGED marketsVars => UNCHANGED exchange
  BY DEF marketsVars
<1> QED BY <1>1, SameExchange DEF MarketsNext, Rebalancing, Trading, Predicting, Pricing

(***************************************************************************)
(* Whatever the other contracts do, the trading engine behaves as OrderBook  *)
(* says of it alone.                                                         *)
(***************************************************************************)
THEOREM ExchangeRuns == MarketsSpec => Book!Spec
<1>1. MarketsInit => Book!Init
  BY SameExchange DEF MarketsInit
<1> QED BY <1>1, BookStep, PTL DEF MarketsSpec, Book!Spec

(* OrderBook's FillsInOrder of one step, in the operators of Exchanged.     *)
LEMMA SameFills ==
  ASSUME \A p \in PairIds : Book!PairFilled(p)
  PROVE  \A p \in PairIds :
           LET gave(id) == IF order'[p][id].status = "Cancelled" THEN 0
                           ELSE order[p][id].remaining - order'[p][id].remaining
               ahead(a, b) == /\ order[p][a].side = order[p][b].side /\ order[p][a].remaining > 0
                              /\ \/ Exchanged!Better(order[p][a].side, order[p][a].price, order[p][b].price)
                                 \/ order[p][a].price = order[p][b].price /\ a < b
           IN
           /\ \A a, b \in DOMAIN order[p] :
                gave(b) > 0 /\ ahead(a, b) => order'[p][a].status = "Filled"
           /\ volume'[p] - volume[p] =
                Exchanged!MapThenSumSet(LAMBDA id : gave(id) * order[p][id].price, DOMAIN order[p])
BY Book!PairsFilled, Zenon DEF Book!Better, Exchanged!Better, Exchanged!MapThenSumSet, Book!MapThenSumSet, Exchanged!MapThenFoldSet, Book!MapThenFoldSet

(***************************************************************************)
(* Every order that gives something to a batch is at the front of its side   *)
(* (match_order), and the volume counted is what the orders gave.            *)
(***************************************************************************)
THEOREM OrdersFillByPriority == MarketsSpec => FillsInOrder
<1>1. Book!Init => Book!BookInv
  BY Book!BooksInit
<1>2. Book!BookInv /\ [Book!Next]_(Book!vars) => Book!BookInv'
  BY BookAssumed, Book!BookSteps
<1>3. Book!BookInv /\ [Book!Next]_(Book!vars) =>
        \A p \in PairIds :
           LET gave(id) == IF order'[p][id].status = "Cancelled" THEN 0
                           ELSE order[p][id].remaining - order'[p][id].remaining
               ahead(a, b) == /\ order[p][a].side = order[p][b].side /\ order[p][a].remaining > 0
                              /\ \/ Exchanged!Better(order[p][a].side, order[p][a].price, order[p][b].price)
                                 \/ order[p][a].price = order[p][b].price /\ a < b
           IN
           /\ \A a, b \in DOMAIN order[p] :
                gave(b) > 0 /\ ahead(a, b) => order'[p][a].status = "Filled"
           /\ volume'[p] - volume[p] =
                Exchanged!MapThenSumSet(LAMBDA id : gave(id) * order[p][id].price, DOMAIN order[p])
  BY BookAssumed, Book!BookSteps, SameFills
<1> QED BY <1>1, <1>2, <1>3, ExchangeRuns, PTL DEF Book!Spec, FillsInOrder, Exchanged!FillsInOrder, Exchanged!vars

-----------------------------------------------------------------------------
(* Alerts and their statistics *)

IsAlert(e) ==
  e = [severity |-> e.severity, fired_at |-> e.fired_at, acknowledged |-> e.acknowledged,
       observed |-> e.observed]

Counts(log, s) == Cardinality({i \in DOMAIN log : log[i].severity = s})
LastOf(log) == IF log = <<>> THEN 0 ELSE log[Len(log)].fired_at

(* A history and the statistics about it. *)
AlertsTrue(log, stats) ==
  /\ log \in Seq(Range(log)) /\ \A i \in DOMAIN log : IsAlert(log[i])
  /\ stats.fired \in [Severity -> Nat] /\ \A s \in Severity : stats.fired[s] = Counts(log, s)
  /\ stats.last_fired_at = LastOf(log)

AlertConfig == [thresholds : Seq(AlertThresholds), enabled : BOOLEAN]

AlertInv ==
  /\ alertConfig \in [Portfolios -> AlertConfig \cup {None}]
  /\ alertLog = [f \in Portfolios |-> alertLog[f]] /\ alertStats = [f \in Portfolios |-> alertStats[f]]
  /\ \A f \in Portfolios : AlertsTrue(alertLog[f], alertStats[f])

LEMMA Wider ==
  ASSUME NEW S, NEW T, NEW a \in Seq(S), S \subseteq T
  PROVE  a \in Seq(T)
<1>1. Len(a) \in Nat /\ DOMAIN a = 1..Len(a) /\ \A i \in 1..Len(a) : a[i] \in T
  BY LenProperties, ElementOfSeq
<1>2. a = [i \in 1..Len(a) |-> a[i]]
  BY <1>1, LenProperties
<1>3. a \in [1..Len(a) -> T]
  BY <1>1, <1>2
<1> QED BY <1>1, <1>3, SeqDef

LEMMA RemovedAt ==
  ASSUME NEW S, NEW s \in Seq(S), NEW k \in DOMAIN s
  PROVE  RemoveAt(s, k) \in Seq(S)
<1>1. Len(s) \in Nat /\ DOMAIN s = 1..Len(s) /\ \A i \in 1..Len(s) : s[i] \in S
  BY LenProperties, ElementOfSeq
<1>2. SubSeq(s, 1, k - 1) \in Seq(S)
  <2>1. k - 1 \in Int /\ 1 \in Int /\ \A i \in 1..(k - 1) : s[i] \in S
    BY <1>1
  <2> QED BY <2>1, SubSeqProperties
<1>3. SubSeq(s, k + 1, Len(s)) \in Seq(S)
  <2>1. k + 1 \in Int /\ Len(s) \in Int /\ \A i \in (k + 1)..Len(s) : s[i] \in S
    BY <1>1
  <2> QED BY <2>1, SubSeqProperties
<1> QED BY <1>2, <1>3, ConcatProperties DEF RemoveAt

LEMMA CountJoined ==
  ASSUME NEW S, NEW a \in Seq(S), NEW T, NEW c \in Seq(T), NEW s
  PROVE  /\ Counts(a, s) \in Nat /\ Counts(c, s) \in Nat
         /\ Counts(a \o c, s) = Counts(a, s) + Counts(c, s)
<1> DEFINE m == Len(a)
           n == Len(c)
           d == a \o c
           A == {i \in 1..m : a[i].severity = s}
           C == {i \in 1..n : c[i].severity = s}
           D == {m + i : i \in C}
<1>1. /\ m \in Nat /\ n \in Nat /\ DOMAIN a = 1..m /\ DOMAIN c = 1..n
  BY LenProperties
<1>2. /\ d \in Seq(S \cup T) /\ Len(d) = m + n
      /\ \A i \in 1..(m + n) : d[i] = IF i <= m THEN a[i] ELSE c[i - m]
  <2>1. a \in Seq(S \cup T) /\ c \in Seq(S \cup T)
    BY Wider
  <2> QED BY <2>1, ConcatProperties
<1>3. DOMAIN d = 1..(m + n)
  BY <1>2, LenProperties
<1> HIDE DEF m, n, d
<1>4. {i \in DOMAIN d : d[i].severity = s} = A \cup D
  <2>1. ASSUME NEW i \in 1..(m + n) PROVE d[i].severity = s <=> i \in A \cup D
    <3>1. CASE i <= m
      <4>1. i \in 1..m /\ \A j \in C : i # m + j
        BY <1>1, <3>1
      <4> QED BY <1>2, <3>1, <4>1
    <3>2. CASE i > m
      <4>1. i - m \in 1..n /\ i = m + (i - m) /\ i \notin 1..m /\ ~(i <= m)
        BY <1>1, <3>2
      <4>2. \A j \in C : i = m + j => j = i - m
        BY <1>1, <4>1
      <4> QED BY <1>2, <4>1, <4>2
    <3> QED BY <1>1, <3>1, <3>2
  <2>2. A \cup D \subseteq 1..(m + n)
    BY <1>1
  <2> HIDE DEF A, D
  <2> QED BY <1>3, <2>1, <2>2
<1>5. IsFiniteSet(A) /\ IsFiniteSet(C) /\ Cardinality(A) \in Nat /\ Cardinality(C) \in Nat
  <2>1. 1 \in Int /\ m \in Int /\ n \in Int
    BY <1>1
  <2>2. IsFiniteSet(1..m) /\ IsFiniteSet(1..n)
    BY <2>1, FS_Interval
  <2>3. A \subseteq 1..m /\ C \subseteq 1..n
    OBVIOUS
  <2> HIDE DEF A, C
  <2>4. IsFiniteSet(A) /\ IsFiniteSet(C)
    BY <2>2, <2>3, FS_Subset
  <2> QED BY <2>4, FS_CardinalityType
<1>6. IsFiniteSet(D) /\ Cardinality(D) = Cardinality(C)
  <2> DEFINE up == [i \in C |-> m + i]
  <2>1. up \in [C -> D] /\ (\A i, j \in C : up[i] = up[j] => i = j) /\ \A x \in D : \E i \in C : up[i] = x
    BY <1>1
  <2> HIDE DEF up, C, D
  <2>2. up \in Bijection(C, D)
    BY <2>1 DEF Bijection, Injection, IsInjective, Surjection
  <2>3. ExistsBijection(C, D)
    BY <2>2 DEF ExistsBijection
  <2> QED BY <1>5, <2>3, FS_Bijection
<1>7. A \cap D = {}
  BY <1>1
<1>8. Cardinality(A \cup D) = Cardinality(A) + Cardinality(D)
  <2> HIDE DEF A, D
  <2>1. /\ IsFiniteSet(A \cap D)
        /\ Cardinality(A \cup D) = Cardinality(A) + Cardinality(D) - Cardinality(A \cap D)
    BY <1>5, <1>6, FS_Union, FS_Intersection
  <2>2. Cardinality({}) = 0 /\ Cardinality(D) \in Nat
    BY <1>6, FS_EmptySet, FS_CardinalityType
  <2>3. Cardinality(A \cap D) = 0
    BY <1>7, <2>2
  <2> HIDE DEF C
  <2> QED BY <1>5, <2>1, <2>2, <2>3
<1> QED BY <1>1, <1>4, <1>5, <1>6, <1>8 DEF Counts, d

(* The thresholds that fire make a list, as long as there are such. *)
LEMMA FiredListed ==
  ASSUME NEW config \in AlertConfig \cup {None}, NEW readings
  PROVE  \E n \in Nat : /\ DOMAIN Firing(config, readings) = 1..n
                        /\ n = 0 => Firing(config, readings) = <<>>
<1>1. CASE config = None \/ ~config.enabled
  <2>1. Firing(config, readings) = <<>>
    BY <1>1 DEF Firing
  <2>2. DOMAIN Firing(config, readings) = 1..0
    BY <2>1
  <2> QED BY <2>2
<1>2. CASE ~(config = None \/ ~config.enabled)
  <2> DEFINE Test(t) == /\ t.enabled /\ <<t.metric, t.asset>> \in DOMAIN readings
                        /\ Breached(t, readings[<<t.metric, t.asset>>])
             hits == {i \in DOMAIN config.thresholds : Test(config.thresholds[i])}
  <2>1. DOMAIN Firing(config, readings) = 1..Cardinality(hits)
    BY <1>2 DEF Firing, Kept
  <2>2. config.thresholds \in Seq(AlertThresholds)
    BY <1>2 DEF AlertConfig
  <2>3. DOMAIN config.thresholds = 1..Len(config.thresholds) /\ Len(config.thresholds) \in Int
    BY <2>2, LenProperties
  <2>4. IsFiniteSet(1..Len(config.thresholds)) /\ 1 \in Int
    BY <2>3, FS_Interval
  <2>5. hits \subseteq 1..Len(config.thresholds)
    BY <2>3
  <2> HIDE DEF hits
  <2>6. Cardinality(hits) \in Nat
    BY <2>4, <2>5, FS_Subset, FS_CardinalityType
  <2>7. CASE Cardinality(hits) = 0
    <3>1. DOMAIN Firing(config, readings) = {}
      BY <2>1, <2>7
    <3>2. \E g : Firing(config, readings) = [i \in DOMAIN Firing(config, readings) |-> g[i]]
      <4> DEFINE P == {i \in DOMAIN config.thresholds : Test(config.thresholds[i])}
                 g == [i \in 1..Cardinality(P) |-> config.thresholds[Kth(P, i)]]
      <4>1. Firing(config, readings) = g
        BY <1>2 DEF Firing, Kept
      <4>2. g = [i \in DOMAIN g |-> g[i]]
        OBVIOUS
      <4> QED BY <4>1, <4>2
    <3> QED BY <2>1, <2>7, <3>1, <3>2
  <2> QED BY <2>1, <2>6, <2>7
<1> QED BY <1>1, <1>2

LEMMA IsSeq ==
  ASSUME NEW f, NEW n \in Nat, f = [i \in 1..n |-> f[i]]
  PROVE  f \in Seq(Range(f)) /\ DOMAIN f = 1..n /\ Len(f) = n
<1>1. DOMAIN f = 1..n
  OBVIOUS
<1>2. \A i \in 1..n : f[i] \in Range(f)
  BY <1>1 DEF Range
<1>3. f \in [1..n -> Range(f)]
  BY <1>1, <1>2
<1>4. f \in Seq(Range(f))
  BY <1>3, SeqDef
<1> QED BY <1>1, <1>4, LenProperties

(* check_alerts: what it fired is added to the history and counted. *)
LEMMA AlertsChecked ==
  ASSUME AlertInv, NEW f \in Portfolios, NEW x, CheckAlerts(f, x)
  PROVE  AlertInv'
<1> DEFINE readings == Readings(f, x)
           fired == Firing(alertConfig[f], readings)
           log == alertLog[f]
           alert(i) == [severity |-> fired[i].severity, fired_at |-> now, acknowledged |-> FALSE,
                        observed |-> readings[<<fired[i].metric, fired[i].asset>>]]
           new == [i \in DOMAIN fired |-> alert(i)]
           more == log \o new
           stats == Counted(alertStats[f], fired)
<1>1. /\ fired # <<>> /\ alertLog' = [alertLog EXCEPT ![f] = more]
      /\ alertStats' = [alertStats EXCEPT ![f] = stats] /\ UNCHANGED alertConfig
  BY DEF CheckAlerts, new, more
<1>2. PICK n \in Nat : DOMAIN fired = 1..n /\ (n = 0 => fired = <<>>)
  BY FiredListed DEF AlertInv
<1>3. AlertsTrue(log, alertStats[f])
  BY DEF AlertInv
<1>4. log \in Seq(Range(log)) /\ Len(log) \in Nat /\ DOMAIN log = 1..Len(log)
  BY <1>3, LenProperties DEF AlertsTrue
<1>5. n > 0
  BY <1>1, <1>2
<1>6. new \in Seq(Range(new)) /\ DOMAIN new = 1..n /\ Len(new) = n
  <2>1. new = [i \in 1..n |-> new[i]]
    BY <1>2
  <2> HIDE DEF new
  <2> QED BY <2>1, IsSeq
<1>7. \A i \in 1..n : new[i].severity = fired[i].severity /\ new[i].fired_at = now /\ IsAlert(new[i])
  BY <1>2 DEF IsAlert
<1> HIDE DEF new, log, fired
<1>8. /\ more \in Seq(Range(log) \cup Range(new)) /\ Len(more) = Len(log) + n
      /\ \A i \in 1..(Len(log) + n) : more[i] = IF i <= Len(log) THEN log[i] ELSE new[i - Len(log)]
  <2>1. log \in Seq(Range(log) \cup Range(new)) /\ new \in Seq(Range(log) \cup Range(new))
    BY <1>4, <1>6, Wider
  <2> QED BY <1>6, <2>1, ConcatProperties
<1>9. \A s \in Severity : Counts(more, s) = Counts(log, s) + Counts(new, s) /\ Counts(new, s) \in Nat
  BY <1>4, <1>6, CountJoined
<1> HIDE DEF more
<1>10. \A s \in Severity : Counts(new, s) = InList(fired, LAMBDA t : t.severity = s)
  <2> SUFFICES ASSUME NEW s \in Severity
               PROVE  Cardinality({i \in DOMAIN new : new[i].severity = s})
                        = Cardinality({i \in DOMAIN fired : fired[i].severity = s})
    BY DEF Counts, InList
  <2>1. {i \in DOMAIN new : new[i].severity = s} = {i \in DOMAIN fired : fired[i].severity = s}
    BY <1>2, <1>6, <1>7
  <2> QED BY <2>1
<1>11. AlertsTrue(more, stats)
  <2>1. more \in Seq(Range(more)) /\ DOMAIN more = 1..(Len(log) + n)
    <3>1. DOMAIN more = 1..(Len(log) + n) /\ Len(log) + n \in Nat
      BY <1>4, <1>8, LenProperties
    <3>2. more = [i \in 1..(Len(log) + n) |-> more[i]]
      BY <1>8, <3>1
    <3> QED BY <3>1, <3>2, IsSeq
  <2>2. ASSUME NEW i \in DOMAIN more PROVE IsAlert(more[i])
    <3>1. CASE i <= Len(log)
      BY <1>3, <1>4, <1>8, <2>1, <3>1 DEF AlertsTrue
    <3>2. CASE ~(i <= Len(log))
      <4>1. i - Len(log) \in 1..n
        BY <1>4, <2>1, <3>2
      <4> QED BY <1>7, <1>8, <2>1, <3>2, <4>1
    <3> QED BY <3>1, <3>2
  <2>3. \A s \in Severity : alertStats[f].fired[s] \in Nat /\ alertStats[f].fired[s] = Counts(log, s)
    BY <1>3 DEF AlertsTrue
  <2>4. stats.last_fired_at = now /\ stats.fired = [s \in Severity |->
           alertStats[f].fired[s] + InList(fired, LAMBDA t : t.severity = s)]
    BY DEF Counted
  <2>5. \A s \in Severity : stats.fired[s] = alertStats[f].fired[s] + Counts(new, s)
    BY <1>10, <2>4, Zenon
  <2>6. stats.fired \in [Severity -> Nat] /\ \A s \in Severity : stats.fired[s] = Counts(more, s)
    <3>1. \A s \in Severity : stats.fired[s] \in Nat /\ stats.fired[s] = Counts(more, s)
      BY <1>9, <2>3, <2>5
    <3>2. stats.fired = [s \in Severity |-> stats.fired[s]]
      BY <2>4
    <3> QED BY <3>1, <3>2
  <2>7. stats.last_fired_at = LastOf(more)
    <3>1. Len(log) + n \in 1..(Len(log) + n) /\ ~(Len(log) + n <= Len(log)) /\ (Len(log) + n) - Len(log) = n
          /\ n \in 1..n
      BY <1>4, <1>5
    <3>2. more[Len(log) + n].fired_at = now
      BY <1>7, <1>8, <3>1
    <3>3. more # <<>>
      BY <1>8, <3>1
    <3> QED BY <1>8, <2>4, <3>2, <3>3 DEF LastOf
  <2> QED BY <2>1, <2>2, <2>6, <2>7 DEF AlertsTrue
<1> QED BY <1>1, <1>11 DEF AlertInv, log

(* acknowledge_alert changes neither when nor how seriously it fired. *)
LEMMA AlertAcknowledged ==
  ASSUME AlertInv, NEW f \in Portfolios, NEW p, NEW k, AcknowledgeAlert(f, p, k)
  PROVE  AlertInv'
<1> DEFINE log == alertLog[f]
           seen == [log EXCEPT ![k].acknowledged = TRUE]
<1>1. /\ k \in DOMAIN log /\ alertLog' = [alertLog EXCEPT ![f] = seen]
      /\ UNCHANGED <<alertConfig, alertStats>>
  BY DEF AcknowledgeAlert
<1>2. AlertsTrue(log, alertStats[f])
  BY DEF AlertInv
<1>3. log \in Seq(Range(log)) /\ Len(log) \in Nat /\ DOMAIN log = 1..Len(log) /\ log = [i \in 1..Len(log) |-> log[i]]
  BY <1>2, LenProperties DEF AlertsTrue
<1>4. seen[k] = [log[k] EXCEPT !.acknowledged = TRUE] /\ \A i \in DOMAIN log : i # k => seen[i] = log[i]
  BY <1>1
<1>5. DOMAIN seen = 1..Len(log) /\ seen = [i \in 1..Len(log) |-> seen[i]]
  BY <1>3
<1> HIDE DEF seen, log
<1>6. seen \in Seq(Range(seen)) /\ Len(seen) = Len(log)
  BY <1>3, <1>5, IsSeq
<1>7. ASSUME NEW i \in DOMAIN log
      PROVE  seen[i].severity = log[i].severity /\ seen[i].fired_at = log[i].fired_at /\ IsAlert(seen[i])
  <2>1. IsAlert(log[i])
    BY <1>2 DEF AlertsTrue
  <2>2. CASE i = k
    <3>1. seen[i] = [severity |-> log[i].severity, fired_at |-> log[i].fired_at, acknowledged |-> TRUE,
                     observed |-> log[i].observed]
      BY <1>4, <2>1, <2>2 DEF IsAlert
    <3> QED BY <3>1 DEF IsAlert
  <2>3. CASE i # k
    BY <1>4, <2>1, <2>3
  <2> QED BY <2>2, <2>3
<1>8. \A s : Counts(seen, s) = Counts(log, s)
  <2> SUFFICES ASSUME NEW s
               PROVE  {i \in DOMAIN seen : seen[i].severity = s} = {i \in DOMAIN log : log[i].severity = s}
    BY DEF Counts
  <2> QED BY <1>3, <1>5, <1>7
<1>9. LastOf(seen) = LastOf(log)
  <2>1. seen # <<>> /\ log # <<>> /\ Len(log) \in DOMAIN log
    BY <1>1, <1>3, <1>6
  <2> QED BY <1>6, <1>7, <2>1 DEF LastOf
<1>10. AlertsTrue(seen, alertStats[f])
  BY <1>2, <1>3, <1>5, <1>6, <1>7, <1>8, <1>9 DEF AlertsTrue
<1> QED BY <1>1, <1>10 DEF AlertInv, log

(* set_alert_config, add_threshold, update_threshold, remove_threshold and  *)
(* enable_alerts or disable_alerts change no more than the configuration.   *)
LEMMA AlertsConfigured ==
  ASSUME AlertInv, NEW f \in Portfolios, NEW p, NEW t \in AlertThresholds, NEW e \in BOOLEAN, NEW k,
         \/ SetAlertConfig(f, p, <<t>>, e) \/ SetAlertsEnabled(f, p, e)
         \/ AddThreshold(f, p, t) \/ UpdateThreshold(f, p, k, t) \/ RemoveThreshold(f, p, k)
  PROVE  AlertInv'
<1> DEFINE c == alertConfig[f]
           ts == c.thresholds
<1>1. c # None => c = [thresholds |-> ts, enabled |-> c.enabled] /\ ts \in Seq(AlertThresholds) /\ c.enabled \in BOOLEAN
  BY DEF AlertInv, AlertConfig
<1>2. \E d \in AlertConfig : /\ alertConfig' = [alertConfig EXCEPT ![f] = d]
                             /\ UNCHANGED <<alertLog, alertStats>>
  <2>1. CASE SetAlertConfig(f, p, <<t>>, e)
    <3>1. [thresholds |-> <<t>>, enabled |-> e] \in AlertConfig
      BY DEF AlertConfig
    <3> QED BY <2>1, <3>1 DEF SetAlertConfig, ConfigureAlerts
  <2>2. CASE SetAlertsEnabled(f, p, e)
    <3>1. [c EXCEPT !.enabled = e] \in AlertConfig
      BY <1>1, <2>2 DEF AlertConfig, SetAlertsEnabled
    <3> QED BY <2>2, <3>1 DEF SetAlertsEnabled, ConfigureAlerts
  <2>3. CASE AddThreshold(f, p, t)
    <3>1. Append(ts, t) \in Seq(AlertThresholds)
      BY <1>1, <2>3, AppendProperties DEF AddThreshold
    <3>2. [c EXCEPT !.thresholds = Append(ts, t)] \in AlertConfig
      BY <1>1, <2>3, <3>1 DEF AlertConfig, AddThreshold
    <3> QED BY <2>3, <3>2 DEF AddThreshold, ConfigureAlerts
  <2>4. CASE UpdateThreshold(f, p, k, t)
    <3>1. [ts EXCEPT ![k] = t] \in Seq(AlertThresholds)
      BY <1>1, <2>4, ExceptSeq DEF UpdateThreshold
    <3>2. [c EXCEPT !.thresholds = [ts EXCEPT ![k] = t]] \in AlertConfig
      BY <1>1, <2>4, <3>1 DEF AlertConfig, UpdateThreshold
    <3> QED BY <2>4, <3>2 DEF UpdateThreshold, ConfigureAlerts
  <2>5. CASE RemoveThreshold(f, p, k)
    <3>1. RemoveAt(ts, k) \in Seq(AlertThresholds)
      <4>1. c # None /\ k \in DOMAIN ts
        BY <2>5 DEF RemoveThreshold
      <4> QED BY <1>1, <4>1, RemovedAt
    <3>2. [c EXCEPT !.thresholds = RemoveAt(ts, k)] \in AlertConfig
      BY <1>1, <2>5, <3>1 DEF AlertConfig, RemoveThreshold
    <3> QED BY <2>5, <3>2 DEF RemoveThreshold, ConfigureAlerts
  <2> QED BY <2>1, <2>2, <2>3, <2>4, <2>5
<1> QED BY <1>2 DEF AlertInv

(* No other call has to do with alerts. *)
LEMMA AlertsUntouched ==
  ASSUME AlertInv, UNCHANGED alerts
  PROVE  AlertInv'
BY DEF AlertInv, alerts

LEMMA AlertSteps == AlertInv /\ [Next]_vars => AlertInv'
<1> SUFFICES ASSUME AlertInv, [Next]_vars PROVE AlertInv'
  OBVIOUS
<1>1. CASE UNCHANGED vars
  BY <1>1, AlertsUntouched DEF vars
<1>2. CASE Step
  <2>1. ASSUME NEW f \in Portfolios, NEW p \in People,
               \/ SetAuditSink(f, p) \/ CancelSchedule(f, p) \/ ScheduleRefused(f, p)
               \/ \E w \in Allocations : SetTargetAllocation(f, p, w) \/ SetCurrentHoldings(f, p, w)
               \/ \E bps \in Thresholds : SetDriftThreshold(f, p, bps)
        PROVE  UNCHANGED alerts
    BY <2>1 DEF SetAuditSink, CancelSchedule, ScheduleRefused, SetTargetAllocation,
                SetCurrentHoldings, SetDriftThreshold
  <2>2. ASSUME NEW f \in Portfolios, NEW p \in People,
               \/ Rebalance(f, p, "REBALANCE") \/ Rebalance(f, p, "EXECUTE_REBALANCE")
               \/ \E n \in Intervals : SetSchedule(f, p, n) \/ UpdateSchedule(f, p, n)
        PROVE  UNCHANGED alerts
    BY <2>2 DEF Rebalance, SetSchedule, UpdateSchedule
  <2>3. ASSUME Tick \/ \E f \in Portfolios : ExecuteScheduled(f)
        PROVE  UNCHANGED alerts
    BY <2>3 DEF Tick, ExecuteScheduled
  <2> QED BY <1>2, <2>1, <2>2, <2>3, AlertsUntouched, AlertsConfigured, AlertsChecked, AlertAcknowledged DEF Step
<1>3. CASE \E f \in Portfolios, p, q \in People, g \in Grants : ManageRoles(f, p, q, g)
  BY <1>3, AlertsUntouched DEF ManageRoles
<1> QED BY <1>1, <1>2, <1>3 DEF Next

LEMMA AlertsStart == Init => AlertInv
<1> SUFFICES ASSUME Init PROVE AlertInv
  OBVIOUS
<1>1. <<>> \in Seq(Range(<<>>)) /\ DOMAIN <<>> = {}
  OBVIOUS
<1>2. \A s : Counts(<<>>, s) = 0
  BY <1>1, FS_EmptySet DEF Counts
<1>3. AlertsTrue(<<>>, [fired |-> [s \in Severity |-> 0], last_fired_at |-> 0])
  BY <1>1, <1>2 DEF AlertsTrue, LastOf
<1> QED BY <1>3 DEF Init, AlertInv

LEMMA InvAlerts == AlertInv => AlertsAccounted
<1> SUFFICES ASSUME AlertInv, NEW f \in Portfolios
             PROVE  /\ \A s \in Severity : alertStats[f].fired[s] = InList(alertLog[f], LAMBDA e : e.severity = s)
                    /\ alertStats[f].last_fired_at = IF alertLog[f] = <<>> THEN 0 ELSE Last(alertLog[f]).fired_at
  BY DEF AlertsAccounted
<1>1. AlertsTrue(alertLog[f], alertStats[f])
  BY DEF AlertInv
<1>2. \A s \in Severity : alertStats[f].fired[s] = InList(alertLog[f], LAMBDA e : e.severity = s)
  BY <1>1 DEF AlertsTrue, Counts, InList
<1>3. alertStats[f].last_fired_at = IF alertLog[f] = <<>> THEN 0 ELSE Last(alertLog[f]).fired_at
  BY <1>1 DEF AlertsTrue, LastOf, Last
<1> QED BY <1>2, <1>3

-----------------------------------------------------------------------------
(* What one contract keeps in two places *)

LEMMA SameSound == Book!BookSound => Exchanged!BookSound
BY Zenon DEF Exchanged!BookSound, Book!BookSound, Exchanged!Live, Book!Live, Exchanged!Sides, Book!Sides,
             Exchanged!Better, Book!Better, Exchanged!Range, Book!Range, Exchanged!Cardinality, Book!Cardinality

LEMMA AlertsAmongOthers == AlertInv /\ [MarketsNext]_marketsVars => AlertInv'
<1>1. UNCHANGED portfolio => UNCHANGED alerts
  BY DEF portfolio
<1>2. UNCHANGED marketsVars => UNCHANGED alerts
  BY <1>1 DEF marketsVars
<1> QED BY <1>1, <1>2, AlertSteps, AlertsUntouched DEF MarketsNext, Rebalancing, Trading, Predicting, Pricing

(***************************************************************************)
(* What a contract keeps twice agrees: the copies of an order in a book and *)
(* under its key, after any placements, cancellations and batches; alerts   *)
(* and their statistics, after any checks, acknowledgements and changes of  *)
(* the thresholds.                                                          *)
(***************************************************************************)
THEOREM RecordsAreKept == MarketsSpec => []RecordsAgree
<1>1. MarketsInit => Book!BookInv /\ AlertInv
  BY SameExchange, Book!BooksInit, AlertsStart DEF MarketsInit
<1>2. Book!BookInv /\ [MarketsNext]_marketsVars => Book!BookInv'
  BY BookStep, BookAssumed, Book!BookSteps
<1>3. Book!BookInv /\ AlertInv => RecordsAgree
  BY BookAssumed, Book!InvBookSound, SameSound, InvAlerts DEF RecordsAgree
<1> QED BY <1>1, <1>2, <1>3, AlertsAmongOthers, PTL DEF MarketsSpec

=============================================================================
