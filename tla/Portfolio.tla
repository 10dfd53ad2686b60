----------------------------- MODULE Portfolio ------------------------------
(***************************************************************************)
(* The rebalancing contract: the target and the holdings of a portfolio,    *)
(* rebalances by hand and on schedule, alerts on the drift between the two, *)
(* and the roles that let others than the owner act.  A call that returns   *)
(* an error leaves nothing behind.  Quotes, trade orders, labels and the    *)
(* audit sink's records are left out.                                       *)
(***************************************************************************)
EXTENDS Integers, FiniteSetsExt, SequencesExt, Lists

CONSTANTS
  People, Portfolios, Assets,
  Allocations,    \* weights in basis points of some of the assets
  Thresholds,     \* drift thresholds that are asked for
  Intervals,      \* RebalanceInterval in ticks
  AlertThresholds, \* AlertThreshold, see below
  ExtraReadings,  \* readings of metrics supplied by a caller
  Grants,         \* what is granted: role, permissions (None: those of the role), expires_at
  MaxThresholds,  \* MAX_THRESHOLDS_PER_CONFIG
  MaxExecutions, MaxAlerts, MaxTime,
  None

ASSUME IntervalsAssumption == Intervals \subseteq Nat

VARIABLES
  now, portfolioOwner, assignment, accessLog, sink,
  target, holdings, driftThreshold, schedule, executions,
  alertConfig, alertLog, alertStats

rbac == <<assignment, accessLog>>
weights == <<target, holdings, driftThreshold>>
alerts == <<alertConfig, alertLog, alertStats>>
vars == <<now, portfolioOwner, rbac, sink, weights, schedule, executions, alerts>>

Hundred == 10000

Permission ==
  {"VIEW", "MODIFY_ALLOCATIONS", "REBALANCE", "MANAGE_SCHEDULE", "EXECUTE_REBALANCE", "LIQUIDATE",
   "MANAGE_ROLES", "CONFIGURE"}

RolePermissions ==
  [Owner |-> Permission,
   Manager |-> Permission \ {"LIQUIDATE", "MANAGE_ROLES", "CONFIGURE"},
   Viewer |-> {"VIEW"},
   Liquidator |-> {"VIEW", "LIQUIDATE"}]

RoleAssignment ==
  [role : DOMAIN RolePermissions, permissions : SUBSET Permission, expires_at : Nat,
   granted_by : People]

Schedule == [interval : Intervals, next_execution : Nat, last_execution : Nat]

Execution ==
  [timestamp : Nat, outcome : {"done", "no_target", "no_hold"},
   details : {"manual", "schd_exec"}]

Severity == {"Info", "Warning", "Critical"}

(* AlertThreshold, with its bounds None when they are not set.              *)
IsAlertThreshold(t) ==
  /\ t.metric \in {"PortfolioDrift", "AssetDrift", "Custom"} /\ t.severity \in Severity
  /\ t.comparison \in {"Above", "Below", "Equal"} /\ t.enabled \in BOOLEAN

Alert == [severity : Severity, fired_at : Nat, observed : Int, acknowledged : BOOLEAN]

TypeOK ==
  /\ now \in Nat
  /\ portfolioOwner \in [Portfolios -> People \cup {None}]
  /\ assignment \in [Portfolios -> [People -> RoleAssignment \cup {None}]]
  /\ sink \in BOOLEAN
  /\ target \in [Portfolios -> Allocations \cup {None}]
  /\ holdings \in [Portfolios -> Allocations \cup {None}]
  /\ driftThreshold \in [Portfolios -> 0..Hundred]
  /\ schedule \in [Portfolios -> Schedule \cup {None}]
  /\ executions \in [Portfolios -> Seq(Execution)]
  /\ \A f \in Portfolios :
       /\ alertConfig[f] # None =>
            /\ alertConfig[f].enabled \in BOOLEAN
            /\ \A i \in DOMAIN alertConfig[f].thresholds :
                 IsAlertThreshold(alertConfig[f].thresholds[i])
       /\ alertLog[f] \in Seq(Alert)
       /\ alertStats[f].fired \in [Severity -> Nat] /\ alertStats[f].last_fired_at \in Nat

Init ==
  /\ now = 1
  /\ portfolioOwner = [f \in Portfolios |-> None]
  /\ assignment = [f \in Portfolios |-> [p \in People |-> None]]
  /\ accessLog = [f \in Portfolios |-> <<>>]
  /\ sink = FALSE
  /\ target = [f \in Portfolios |-> None] /\ holdings = [f \in Portfolios |-> None]
  /\ driftThreshold = [f \in Portfolios |-> 100]
  /\ schedule = [f \in Portfolios |-> None]
  /\ executions = [f \in Portfolios |-> <<>>]
  /\ alertConfig = [f \in Portfolios |-> None]
  /\ alertLog = [f \in Portfolios |-> <<>>]
  /\ alertStats = [f \in Portfolios |->
                     [fired |-> [s \in Severity |-> 0], last_fired_at |-> 0]]

-----------------------------------------------------------------------------
(* Who may act *)

(* check_permission *)
Holds(f, p, permission) ==
  LET a == assignment[f][p] IN
  /\ a # None
  /\ a.expires_at = 0 \/ now < a.expires_at
  /\ permission \in a.permissions

(* require_owner_auth: the first to call becomes the owner.                 *)
IsOwner(f, p) == portfolioOwner[f] \in {None, p}

OwnerNoted(f, p) ==
  portfolioOwner' = [portfolioOwner EXCEPT ![f] = IF @ = None THEN p ELSE @]

(* require_auth_or_rbac *)
Authorized(f, p, permission) ==
  /\ IsOwner(f, p) \/ Holds(f, p, permission)
  /\ OwnerNoted(f, p)

-----------------------------------------------------------------------------
(* Roles.  assert_permission looks for a role that lets the caller manage   *)
(* roles, of the owner too.                                                 *)

Managed(f, p, action) ==
  /\ Holds(f, p, "MANAGE_ROLES")
  /\ accessLog' = [accessLog EXCEPT ![f] = Append(@, [actor |-> p, action |-> action])]

(* grant_role and grant_role_with_permissions, which is for the owner.      *)
AssignRole(f, p, assignee, grant) ==
  /\ IsOwner(f, p) \/ (grant.permissions = None /\ Holds(f, p, "MANAGE_ROLES"))
  /\ grant.role # "Owner"
  /\ Managed(f, p, "assign_role")
  /\ assignment' = [assignment EXCEPT ![f][assignee] =
       [role |-> grant.role, expires_at |-> grant.expires_at, granted_by |-> p,
        permissions |-> IF grant.permissions = None THEN RolePermissions[grant.role]
                        ELSE grant.permissions]]

RevokeRole(f, p, assignee) ==
  /\ IsOwner(f, p) /\ Managed(f, p, "revoke_role")
  /\ assignment[f][assignee] # None /\ assignment[f][assignee].role # "Owner"
  /\ assignment' = [assignment EXCEPT ![f][assignee] = None]

ExtendRole(f, p, assignee, expires_at) ==
  /\ IsOwner(f, p) /\ Managed(f, p, "extend_expiry")
  /\ assignment[f][assignee] # None
  /\ assignment' = [assignment EXCEPT ![f][assignee].expires_at = expires_at]

EmergencyRevokeAll(f, p, known) ==
  /\ IsOwner(f, p) /\ Managed(f, p, "revoke_all")
  /\ assignment' = [assignment EXCEPT ![f] =
       [q \in People |-> IF q \in known /\ @[q] # None /\ @[q].role # "Owner" THEN None ELSE @[q]]]

(* The calls about roles.  None is ever let through: see MarketsProofs.     *)
ManageRoles(f, p, q, grant) ==
  /\ \/ AssignRole(f, p, q, grant)
     \/ RevokeRole(f, p, q)
     \/ ExtendRole(f, p, q, grant.expires_at)
     \/ EmergencyRevokeAll(f, p, {q})
  /\ OwnerNoted(f, p)
  /\ UNCHANGED <<now, sink, weights, schedule, executions, alerts>>

SetAuditSink(f, p) ==
  /\ Authorized(f, p, "CONFIGURE") /\ sink' = TRUE
  /\ UNCHANGED <<now, rbac, weights, schedule, executions, alerts>>

-----------------------------------------------------------------------------
(* Targets and holdings *)

Sum(w) == FoldFunction(LAMBDA x, n : x + n, 0, w)

SetTargetAllocation(f, p, w) ==
  /\ Authorized(f, p, "MODIFY_ALLOCATIONS") /\ Sum(w) = Hundred
  /\ target' = [target EXCEPT ![f] = w]
  /\ UNCHANGED <<now, rbac, sink, holdings, driftThreshold, schedule, executions, alerts>>

SetCurrentHoldings(f, p, w) ==
  /\ Authorized(f, p, "MODIFY_ALLOCATIONS") /\ Sum(w) = Hundred
  /\ holdings' = [holdings EXCEPT ![f] = w]
  /\ UNCHANGED <<now, rbac, sink, target, driftThreshold, schedule, executions, alerts>>

SetDriftThreshold(f, p, bps) ==
  /\ Authorized(f, p, "MODIFY_ALLOCATIONS") /\ bps <= Hundred
  /\ driftThreshold' = [driftThreshold EXCEPT ![f] = bps]
  /\ UNCHANGED <<now, rbac, sink, target, holdings, schedule, executions, alerts>>

Weight(w, a) == IF a \in DOMAIN w THEN w[a] ELSE 0

Known(f) == target[f] # None /\ holdings[f] # None

(* Of each asset targeted or held, how much too much there is of it.        *)
Drift(f) ==
  [a \in DOMAIN target[f] \cup DOMAIN holdings[f] |-> Weight(holdings[f], a) - Weight(target[f], a)]

AbsDrift(f) == [a \in DOMAIN Drift(f) |-> Max({Drift(f)[a], -Drift(f)[a]})]

-----------------------------------------------------------------------------
(* Rebalances *)

Recorded(f, outcome, details) ==
  /\ Len(executions[f]) < MaxExecutions
  /\ executions' = [executions EXCEPT ![f] =
       Append(@, [timestamp |-> now, outcome |-> outcome, details |-> details])]

Rebalance(f, p, permission) ==
  /\ Authorized(f, p, permission) /\ Known(f)
  /\ Recorded(f, "done", "manual")
  /\ UNCHANGED <<now, rbac, sink, weights, schedule, alerts>>

-----------------------------------------------------------------------------
(* Schedules *)

SetSchedule(f, p, interval) ==
  /\ Authorized(f, p, "MANAGE_SCHEDULE") /\ schedule[f] = None
  /\ schedule' = [schedule EXCEPT ![f] =
       [interval |-> interval, next_execution |-> now + interval, last_execution |-> 0]]
  /\ UNCHANGED <<now, rbac, sink, weights, executions, alerts>>

(* The new interval counts from the last execution, if there was one.       *)
UpdateSchedule(f, p, interval) ==
  LET s == schedule[f] IN
  /\ Authorized(f, p, "MANAGE_SCHEDULE") /\ s # None
  /\ schedule' = [schedule EXCEPT ![f] =
       [interval |-> interval, last_execution |-> s.last_execution,
        next_execution |-> (IF s.last_execution > 0 THEN s.last_execution ELSE now) + interval]]
  /\ UNCHANGED <<now, rbac, sink, weights, executions, alerts>>

CancelSchedule(f, p) ==
  /\ Authorized(f, p, "MANAGE_SCHEDULE") /\ schedule[f] # None
  /\ schedule' = [schedule EXCEPT ![f] = None]
  /\ UNCHANGED <<now, rbac, sink, weights, executions, alerts>>

(* There is always one of the three to refuse: set_schedule where there is  *)
(* a schedule, the other two where there is none.  They answer with a       *)
(* symbol and not with an error, so that the owner they noted stays.        *)
ScheduleRefused(f, p) ==
  /\ Authorized(f, p, "MANAGE_SCHEDULE")
  /\ UNCHANGED <<now, rbac, sink, weights, schedule, executions, alerts>>

(* Mutant: the next execution follows the one that was due. *)
RescheduledFromDue(s) ==
  [s EXCEPT !.last_execution = now, !.next_execution = s.next_execution + s.interval]

Rescheduled(s) == [s EXCEPT !.last_execution = now, !.next_execution = now + s.interval]

(* check_exec_sched_rebalance: anyone may have what is due executed.        *)
ExecuteScheduled(f) ==
  /\ schedule[f] # None /\ now >= schedule[f].next_execution
  /\ Recorded(f, IF target[f] = None THEN "no_target" ELSE IF holdings[f] = None THEN "no_hold"
                 ELSE "done", "schd_exec")
  /\ schedule' = [schedule EXCEPT ![f] = Rescheduled(@)]
  /\ UNCHANGED <<now, portfolioOwner, rbac, sink, weights, alerts>>

-----------------------------------------------------------------------------
(* Alerts *)

ConfigureAlerts(f, p, config) ==
  /\ Authorized(f, p, "CONFIGURE")
  /\ alertConfig' = [alertConfig EXCEPT ![f] = config]
  /\ UNCHANGED <<now, rbac, sink, weights, schedule, executions, alertLog, alertStats>>

SetAlertConfig(f, p, ts, enabled) ==
  ConfigureAlerts(f, p, [thresholds |-> ts, enabled |-> enabled])

AddThreshold(f, p, t) ==
  /\ alertConfig[f] # None /\ Len(alertConfig[f].thresholds) < MaxThresholds
  /\ ConfigureAlerts(f, p, [alertConfig[f] EXCEPT !.thresholds = Append(@, t)])

UpdateThreshold(f, p, i, t) ==
  /\ alertConfig[f] # None /\ i \in DOMAIN alertConfig[f].thresholds
  /\ ConfigureAlerts(f, p, [alertConfig[f] EXCEPT !.thresholds[i] = t])

RemoveThreshold(f, p, i) ==
  /\ alertConfig[f] # None /\ i \in DOMAIN alertConfig[f].thresholds
  /\ ConfigureAlerts(f, p, [alertConfig[f] EXCEPT !.thresholds = RemoveAt(@, i)])

SetAlertsEnabled(f, p, enabled) ==
  /\ alertConfig[f] # None
  /\ ConfigureAlerts(f, p, [alertConfig[f] EXCEPT !.enabled = enabled])

Readings(f, extra) ==
  LET drifts == [k \in {<<"AssetDrift", a>> : a \in DOMAIN Drift(f)} |-> AbsDrift(f)[k[2]]]
      most == <<"PortfolioDrift", "ALL">> :> Max({0} \cup Range(AbsDrift(f)))
  IN  IF Known(f) THEN drifts @@ most @@ extra ELSE extra

(* A threshold with bounds fires whatever is observed, in range or not.     *)
Breached(t, observed) ==
  IF t.lower # None \/ t.upper # None THEN TRUE
  ELSE CASE t.comparison = "Above" -> observed > t.trigger
         [] t.comparison = "Below" -> observed < t.trigger
         [] t.comparison = "Equal" -> observed = t.trigger

Firing(config, readings) ==
  IF config = None \/ ~config.enabled THEN <<>>
  ELSE Kept(config.thresholds, LAMBDA t :
         /\ t.enabled /\ <<t.metric, t.asset>> \in DOMAIN readings
         /\ Breached(t, readings[<<t.metric, t.asset>>]))

Counted(stats, fired) ==
  [fired |-> [s \in Severity |-> stats.fired[s] + InList(fired, LAMBDA t : t.severity = s)],
   last_fired_at |-> now]

CheckAlerts(f, extra) ==
  LET readings == Readings(f, extra)
      fired == Firing(alertConfig[f], readings)
  IN
  /\ fired # <<>> /\ Len(alertLog[f]) + Len(fired) <= MaxAlerts
  /\ alertLog' = [alertLog EXCEPT ![f] = @ \o
       [i \in DOMAIN fired |->
          [severity |-> fired[i].severity, fired_at |-> now, acknowledged |-> FALSE,
           observed |-> readings[<<fired[i].metric, fired[i].asset>>]]]]
  /\ alertStats' = [alertStats EXCEPT ![f] = Counted(@, fired)]
  /\ UNCHANGED <<now, portfolioOwner, rbac, sink, weights, schedule, executions, alertConfig>>

AcknowledgeAlert(f, p, i) ==
  /\ Authorized(f, p, "CONFIGURE") /\ i \in DOMAIN alertLog[f]
  /\ alertLog' = [alertLog EXCEPT ![f][i].acknowledged = TRUE]
  /\ UNCHANGED <<now, rbac, sink, weights, schedule, executions, alertConfig, alertStats>>

Tick ==
  /\ now < MaxTime /\ now' = now + 1
  /\ UNCHANGED <<portfolioOwner, rbac, sink, weights, schedule, executions, alerts>>

-----------------------------------------------------------------------------
(* All but the calls about roles. *)
Step ==
  \/ \E f \in Portfolios, p \in People :
       \/ SetAuditSink(f, p) \/ CancelSchedule(f, p) \/ ScheduleRefused(f, p)
       \/ \E w \in Allocations : SetTargetAllocation(f, p, w) \/ SetCurrentHoldings(f, p, w)
       \/ \E bps \in Thresholds : SetDriftThreshold(f, p, bps)
       \/ Rebalance(f, p, "REBALANCE") \/ Rebalance(f, p, "EXECUTE_REBALANCE")
       \/ \E n \in Intervals : SetSchedule(f, p, n) \/ UpdateSchedule(f, p, n)
       \/ \E t \in AlertThresholds : \E e \in BOOLEAN, i \in 1..MaxThresholds :
            \/ SetAlertConfig(f, p, <<t>>, e) \/ SetAlertsEnabled(f, p, e)
            \/ AddThreshold(f, p, t) \/ UpdateThreshold(f, p, i, t) \/ RemoveThreshold(f, p, i)
       \/ \E i \in 1..MaxAlerts : AcknowledgeAlert(f, p, i)
  \/ \E f \in Portfolios : ExecuteScheduled(f) \/ \E x \in ExtraReadings : CheckAlerts(f, x)
  \/ Tick

Next == Step \/ \E f \in Portfolios, p, q \in People, g \in Grants : ManageRoles(f, p, q, g)

Spec == Init /\ [][Next]_vars

-----------------------------------------------------------------------------
(* Properties *)

(***************************************************************************)
(* Whatever happened to the schedule in between, changed, cancelled and set *)
(* anew, no scheduled rebalance comes sooner after another than the         *)
(* interval in force when it is due.                                        *)
(***************************************************************************)
SchedulePaced ==
  \A f \in Portfolios : \A i \in DOMAIN executions[f] :
    schedule[f] # None /\ executions[f][i].details = "schd_exec" =>
      executions[f][i].timestamp + schedule[f].interval <= schedule[f].next_execution

(* The statistics of the alerts agree with their history, whatever was      *)
(* acknowledged, and however the thresholds changed.                        *)
AlertsAccounted ==
  \A f \in Portfolios :
    LET fired == alertLog[f] IN
    /\ \A s \in Severity :
         alertStats[f].fired[s] = InList(fired, LAMBDA e : e.severity = s)
    /\ alertStats[f].last_fired_at = IF fired = <<>> THEN 0 ELSE Last(fired).fired_at
=============================================================================
