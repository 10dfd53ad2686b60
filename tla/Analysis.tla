------------------------------ MODULE Analysis ------------------------------
(***************************************************************************)
(* Triggers start analyses, an AI service reports on them and each report   *)
(* of success makes a recommendation; plain subscriptions hear of emitted   *)
(* events.  One counter numbers analyses, recommendations and events.  The  *)
(* reporter is not authenticated and may report again and after a timeout.  *)
(***************************************************************************)
EXTENDS Integers, Sequences, FiniteSetsExt, Functions, Lists

CONSTANTS
  People,
  TriggerKeys,   \* Symbols, as numbers in the order a Map keeps its keys in
  Triggers,      \* AITrigger: events, threshold, is_active, owner
  EventTypes,
  Values,        \* current_value, or None
  Latencies,     \* latency_ms, or None
  Outputs,       \* the first byte of raw_output, or None
  MaxId,         \* bounds the numbers given out
  MaxListeners,  \* bounds the plain subscriptions
  MaxReports,    \* bounds the failures, timeouts and answers counted
  None

VARIABLES
  triggers, analyses, recommendations, analysisMetrics, nextId,
  listeners,     \* Subscription, in order of order_index
  history        \* the events emitted

vars == <<triggers, analyses, recommendations, analysisMetrics, nextId, listeners, history>>

Statuses == {"Pending", "InProgress", "Completed", "Failed", "TimedOut", "Other"}
Ids == 1..MaxId

Zero ==
  [total |-> 0, successful |-> 0, failed |-> 0, timed_out |-> 0, average_latency_ms |-> 0,
   accepted |-> 0, rejected |-> 0]

AnalysisResult ==
  [trigger : TriggerKeys, status : Statuses, latency_ms : {0} \cup (Latencies \ {None}),
   output : Outputs \cup {None}]
Recommendation == [analysis : Ids, action : 0..5, accepted : BOOLEAN \cup {None}]
AnalysisMetrics ==
  [total : Nat, successful : Nat, failed : Nat, timed_out : Nat, average_latency_ms : Nat,
   accepted : Nat, rejected : Nat]
Subscription == [subscriber : People, events : SUBSET EventTypes, is_active : BOOLEAN]
Event == [id : Ids, type : EventTypes]

AnalysisAssumption ==
  /\ IsFiniteSet(TriggerKeys) /\ TriggerKeys = 1..Cardinality(TriggerKeys)
  /\ IsFiniteSet(Latencies) /\ Latencies \ {None} \subseteq Nat
  /\ MaxId \in Nat /\ None \notin BOOLEAN

TypeOK ==
  /\ triggers \in [DOMAIN triggers -> Triggers] /\ DOMAIN triggers \subseteq TriggerKeys
  /\ analyses \in [DOMAIN analyses -> AnalysisResult] /\ DOMAIN analyses \subseteq Ids
  /\ recommendations \in [DOMAIN recommendations -> Recommendation]
  /\ DOMAIN recommendations \subseteq Ids
  /\ analysisMetrics \in AnalysisMetrics
  /\ nextId \in 0..MaxId
  /\ listeners \in Seq(Subscription)
  /\ history \in Seq(Event)

Init ==
  /\ triggers = <<>> /\ analyses = <<>> /\ recommendations = <<>>
  /\ analysisMetrics = Zero /\ nextId = 0
  /\ listeners = <<>> /\ history = <<>>

(* A Map with one more entry, or one entry replaced. *)
Put(f, key, v) == [k \in DOMAIN f \cup {key} |-> IF k = key THEN v ELSE f[k]]

-----------------------------------------------------------------------------
(* Triggers *)

AddTrigger(key, t) ==
  /\ key \notin DOMAIN triggers
  /\ triggers' = Put(triggers, key, t)
  /\ UNCHANGED <<analyses, recommendations, analysisMetrics, nextId, listeners, history>>

RemoveTrigger(key, owner) ==
  /\ key \in DOMAIN triggers /\ triggers[key].owner = owner
  /\ triggers' = Restrict(triggers, DOMAIN triggers \ {key})
  /\ UNCHANGED <<analyses, recommendations, analysisMetrics, nextId, listeners, history>>

(* evaluate_condition *)
Crossed(op, value, threshold) ==
  CASE op = "GreaterThan" -> value > threshold [] op = "LessThan" -> value < threshold
    [] op = "EqualTo" -> value = threshold [] op = "GreaterOrEqual" -> value >= threshold
    [] op = "LessOrEqual" -> value <= threshold

Evaluate(t, type, value) ==
  /\ type \in t.events
  /\ t.threshold # None => value # None /\ Crossed(t.operator, value, t.threshold)

(* Every trigger that fires submits an analysis of its own. *)
ProcessEvent(type, value) ==
  LET fires == {k \in DOMAIN triggers : triggers[k].is_active /\ Evaluate(triggers[k], type, value)}
      n == Cardinality(fires)
  IN
  /\ nextId + n <= MaxId
  /\ nextId' = nextId + n
  /\ analyses' = [id \in DOMAIN analyses \cup (nextId + 1 .. nextId') |->
                    IF id <= nextId THEN analyses[id]
                    ELSE [trigger |-> Kth(fires, id - nextId), status |-> "Pending", latency_ms |-> 0,
                          output |-> None]]
  /\ analysisMetrics' = [analysisMetrics EXCEPT !.total = @ + n]
  /\ UNCHANGED <<triggers, recommendations, listeners, history>>

-----------------------------------------------------------------------------
(* Reports *)

(* from(u32): what the metrics take an unknown status for. *)
Meant(status) == IF status = "Other" THEN "Pending" ELSE status

Completed(m, latency) ==
  LET n == m.successful + 1 IN
  [m EXCEPT !.successful = n,
            !.average_latency_ms = IF latency = 0 THEN @
                                   ELSE IF n > 1 THEN (@ * (n - 1) + latency) \div n
                                   ELSE latency]

Counted(m, status, latency) ==
  CASE status = "Completed" -> Completed(m, latency)
    [] status = "Failed" -> [m EXCEPT !.failed = @ + 1]
    [] status = "TimedOut" -> [m EXCEPT !.timed_out = @ + 1]
    [] OTHER -> m

(* The action is the first byte of the analysis's output, old or new.       *)
Recommended(id, output) ==
  [analysis |-> id, accepted |-> None,
   action |-> IF output # None /\ output \in 0..4 THEN output ELSE 5]

UpdateAnalysisStatus(id, status, latency, output) ==
  LET a == [analyses[id] EXCEPT !.status = status,
                                !.latency_ms = IF latency = None THEN @ ELSE latency,
                                !.output = IF output = None THEN @ ELSE output]
      completed == Meant(status) = "Completed"
  IN
  /\ id \in DOMAIN analyses
  /\ nextId' = nextId + (IF completed THEN 1 ELSE 0) /\ nextId' <= MaxId
  /\ analyses' = [analyses EXCEPT ![id] = a]
  /\ analysisMetrics' = Counted(analysisMetrics, Meant(status), a.latency_ms)
  /\ analysisMetrics'.failed + analysisMetrics'.timed_out <= MaxReports
  /\ recommendations' = IF completed THEN Put(recommendations, nextId', Recommended(id, a.output))
                        ELSE recommendations
  /\ UNCHANGED <<triggers, listeners, history>>

(* Anybody may call it; no clock is read. *)
ProcessTimeout(id) ==
  /\ id \in DOMAIN analyses /\ analyses[id].status \in {"Pending", "InProgress"}
  /\ analysisMetrics.failed + analysisMetrics.timed_out < MaxReports
  /\ analyses' = [analyses EXCEPT ![id].status = "TimedOut"]
  /\ analysisMetrics' = [analysisMetrics EXCEPT !.timed_out = @ + 1]
  /\ UNCHANGED <<triggers, recommendations, nextId, listeners, history>>

(* An answer may be given again, by anybody. *)
ProcessRecommendationFeedback(id, accepted) ==
  /\ id \in DOMAIN recommendations
  /\ analysisMetrics.accepted + analysisMetrics.rejected < MaxReports
  /\ recommendations' = [recommendations EXCEPT ![id].accepted = accepted]
  /\ analysisMetrics' = [analysisMetrics EXCEPT !.accepted = @ + (IF accepted THEN 1 ELSE 0),
                                                !.rejected = @ + (IF accepted THEN 0 ELSE 1)]
  /\ UNCHANGED <<triggers, analyses, nextId, listeners, history>>

-----------------------------------------------------------------------------
(* Plain subscriptions and emitted events *)

Listening(s) == {i \in DOMAIN listeners : listeners[i].subscriber = s /\ listeners[i].is_active}

Subscribe(s, events) ==
  /\ Listening(s) = {} /\ Len(listeners) < MaxListeners
  /\ listeners' = Append(listeners, [subscriber |-> s, events |-> events, is_active |-> TRUE])
  /\ UNCHANGED <<triggers, analyses, recommendations, analysisMetrics, nextId, history>>

Unsubscribe(s) ==
  /\ Listening(s) # {}
  /\ listeners' = [i \in DOMAIN listeners |->
                     [listeners[i] EXCEPT !.is_active = @ /\ i \notin Listening(s)]]
  /\ UNCHANGED <<triggers, analyses, recommendations, analysisMetrics, nextId, history>>

(* Whom emit_event publishes an event to, in the order they registered. *)
Notified(type) ==
  LET hears(l) == l.is_active /\ (l.events = {} \/ type \in l.events)
      heard == SelectSeq(listeners, hears)
  IN  [i \in DOMAIN heard |-> heard[i].subscriber]

EmitEvent(type) ==
  /\ nextId < MaxId
  /\ nextId' = nextId + 1
  /\ history' = Append(history, [id |-> nextId', type |-> type])
  /\ UNCHANGED <<triggers, analyses, recommendations, analysisMetrics, listeners>>

Report(id) ==
  \/ \E s \in Statuses, l \in Latencies, o \in Outputs : UpdateAnalysisStatus(id, s, l, o)
  \/ ProcessTimeout(id)

Next ==
  \/ \E key \in TriggerKeys :
       \/ \E t \in Triggers : AddTrigger(key, t)
       \/ \E p \in People : RemoveTrigger(key, p)
  \/ \E type \in EventTypes : EmitEvent(type) \/ \E v \in Values : ProcessEvent(type, v)
  \/ \E id \in Ids :
       \/ Report(id)
       \/ \E accepted \in BOOLEAN : ProcessRecommendationFeedback(id, accepted)
  \/ \E s \in People :
       \/ \E events \in SUBSET EventTypes : Subscribe(s, events)
       \/ Unsubscribe(s)

Spec == Init /\ [][Next]_vars

-----------------------------------------------------------------------------
(* Properties *)

(***************************************************************************)
(* However often an analysis is reported on and a recommendation answered:  *)
(* each number next_id gave to one of three calls names exactly one         *)
(* analysis, recommendation or event; there is a recommendation for each    *)
(* success counted; an analysis that ended was counted for the way it       *)
(* ended, an answer for what it said; and the average latency, kept by      *)
(* integer division, never exceeds what was reported.                       *)
(***************************************************************************)
AnalysesAccounted ==
  LET m == analysisMetrics
      events == {history[i].id : i \in DOMAIN history}
      Ended(s) == Cardinality({id \in DOMAIN analyses : analyses[id].status = s})
      Answered(a) == Cardinality({id \in DOMAIN recommendations : recommendations[id].accepted = a})
  IN
  /\ DOMAIN analyses \cup DOMAIN recommendations \cup events = 1..nextId
  /\ m.total + m.successful + Len(history) = nextId
  /\ m.total = Cardinality(DOMAIN analyses) /\ m.successful = Cardinality(DOMAIN recommendations)
  /\ Ended("Completed") <= m.successful /\ Ended("Failed") <= m.failed
  /\ Ended("TimedOut") <= m.timed_out
  /\ Answered(TRUE) <= m.accepted /\ Answered(FALSE) <= m.rejected
  /\ \A id \in DOMAIN recommendations : recommendations[id].analysis \in DOMAIN analyses
  /\ m.average_latency_ms <= Max({0} \cup (Latencies \ {None}))
=============================================================================
