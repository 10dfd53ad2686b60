------------------------------- MODULE Delivery -------------------------------
(***************************************************************************)
(* Event subscriptions with filters, and the deliveries they are owed:      *)
(* queued by dispatch_event, published when due by anybody who calls        *)
(* deliver_pending, put off by a reported failure, acknowledged by the      *)
(* subscriber.  Batches are lists that trigger a flush: the records go out  *)
(* without it, and a full batch is dropped while its last record is not due *)
(* yet.  One portfolio.                                                     *)
(* Events are numbered by their own count: next_id also serves analyses,    *)
(* and ids are only compared.  Latency sums and history are left out.       *)
(***************************************************************************)
EXTENDS Integers, Sequences, FiniteSetsExt, Totals

CONSTANTS
  Subscribers,
  EventKinds,    \* what is dispatched: event_type, severity and numeric details
  Filters,       \* EventFilter
  Preferences,   \* SubscriptionPreferences: mode and batch_size
  RetryMax,      \* RETRY_MAX_SECS
  MaxSubs,       \* bounds the subscriptions
  MaxEvents,     \* bounds the dispatched events
  MaxChanges,    \* bounds the changes made to subscriptions
  MaxAttempts,   \* bounds the attempts on a record
  MaxTime        \* bounds the ledger timestamp, and what is scheduled

VARIABLES
  subs,        \* ManagedSubscription(id), in order of the ids
  dispatched,  \* the number of events dispatched
  deliveries,  \* the delivery records of a subscriber
  batch,       \* pending_batch of a subscriber
  metrics,     \* DeliveryMetrics
  changes,     \* the changes made to subscriptions, for MaxChanges
  now          \* the ledger timestamp

vars == <<subs, dispatched, deliveries, batch, metrics, changes, now>>

SubIds == DOMAIN subs
EventIds == 1..MaxEvents

ManagedSubscription ==
  [subscriber : Subscribers, filter : Filters, prefs : Preferences,
   status : {"Active", "Paused", "Cancelled"}, total_delivered : Nat, total_failed : Nat]

DeliveryRecord ==
  [event_id : EventIds, subscription_id : 1..MaxSubs,
   status : {"Pending", "Delivered", "Acknowledged"}, attempts : Nat, next_retry_at : 0..MaxTime]

TypeOK ==
  /\ subs \in Seq(ManagedSubscription) /\ Len(subs) <= MaxSubs
  /\ dispatched \in 0..MaxEvents
  /\ \A s \in Subscribers : deliveries[s] \in Seq(DeliveryRecord) /\ batch[s] \in Seq(EventIds)
  /\ metrics \in [delivered : Nat, acknowledged : Nat, failed : Nat, retries : Nat]
  /\ changes \in 0..MaxChanges /\ now \in 0..MaxTime

Init ==
  /\ subs = <<>> /\ dispatched = 0
  /\ deliveries = [s \in Subscribers |-> <<>>] /\ batch = [s \in Subscribers |-> <<>>]
  /\ metrics = [delivered |-> 0, acknowledged |-> 0, failed |-> 0, retries |-> 0]
  /\ changes = 0 /\ now = 0

-----------------------------------------------------------------------------
(* Managed subscriptions *)

CreateSubscription(s, filter, prefs) ==
  /\ Len(subs) < MaxSubs
  /\ subs' = Append(subs, [subscriber |-> s, filter |-> filter, prefs |-> prefs,
                           status |-> "Active", total_delivered |-> 0, total_failed |-> 0])
  /\ UNCHANGED <<dispatched, deliveries, batch, metrics, changes, now>>

Change == changes < MaxChanges /\ changes' = changes + 1

UpdatePrefs(id, prefs) ==
  /\ subs[id].status # "Cancelled"
  /\ subs' = [subs EXCEPT ![id].prefs = prefs]
  /\ Change
  /\ UNCHANGED <<dispatched, deliveries, batch, metrics, now>>

(* pause_subscription, resume_subscription and cancel_subscription *)
SetSubscriptionStatus(id, status) ==
  /\ subs[id].status = "Cancelled" => status = "Cancelled"
  /\ subs' = [subs EXCEPT ![id].status = status]
  /\ Change
  /\ UNCHANGED <<dispatched, deliveries, batch, metrics, now>>

Compare(op, a, b) ==
  CASE op = "GreaterThan" -> a > b [] op = "LessThan" -> a < b [] op = "EqualTo" -> a = b
    [] op = "GreaterOrEqual" -> a >= b [] op = "LessOrEqual" -> a <= b

(* A condition on a detail the event lacks, or has as no number, fails. *)
Matches(filter, kind) ==
  /\ filter.min_severity <= kind.severity
  /\ filter.event_types = {} \/ kind.type \in filter.event_types
  /\ \A c \in filter.conditions :
       c.key \in DOMAIN kind.details /\ Compare(c.op, kind.details[c.key], c.value)

-----------------------------------------------------------------------------
(* Deliveries *)

(* The delay before the attempt that follows n others. *)
Backoff(n) == Min({2 ^ Min({n, 31}), RetryMax})

(* A record waits before every attempt: of powers of 2 it matters that they *)
(* are positive.                                                            *)
DeliveryAssumption ==
  /\ IsFiniteSet(Subscribers)
  /\ {MaxSubs, MaxEvents, MaxChanges, MaxAttempts, MaxTime} \subseteq Nat
  /\ \A n \in 0..MaxAttempts : Backoff(n) \in Nat \ {0}

(* What the calls below read and write, so that one may make another. *)
Books == [subs |-> subs, deliveries |-> deliveries, batch |-> batch, metrics |-> metrics]

Store(b) ==
  subs' = b.subs /\ deliveries' = b.deliveries /\ batch' = b.batch /\ metrics' = b.metrics

(* What deliver_pending makes of the records that are due.                  *)
Sending(b, s, due) ==
  LET records == b.deliveries[s]
      sent == [i \in DOMAIN records |->
                 IF i \in due THEN [records[i] EXCEPT !.status = "Delivered", !.attempts = @ + 1]
                 ELSE records[i]]
      sentTo(id) == Cardinality({i \in due : records[i].subscription_id = id})
  IN
  [subs |-> [id \in DOMAIN b.subs |->
               [b.subs[id] EXCEPT !.total_delivered = @ + sentTo(id)]],
   deliveries |-> [b.deliveries EXCEPT ![s] = sent],
   batch |-> b.batch,
   metrics |-> [b.metrics EXCEPT !.delivered = @ + Cardinality(due),
                  !.retries = @ + Cardinality({i \in due : records[i].attempts > 0})]]

DueNow(records) ==
  {i \in DOMAIN records : records[i].status = "Pending" /\ records[i].next_retry_at <= now}

(* Mutant: a delivery already made is overlooked. *)
DeliverAgain(b, s) ==
  LET records == b.deliveries[s] IN
  Sending(b, s, {i \in DOMAIN records : records[i].next_retry_at <= now})

Deliver(b, s) == Sending(b, s, DueNow(b.deliveries[s]))

Flush(b, s) ==
  IF b.batch[s] = <<>> THEN b ELSE [Deliver(b, s) EXCEPT !.batch[s] = <<>>]

(* One matching subscription gets its record; in batch mode the event also  *)
(* joins the subscriber's batch, which is flushed when it is full.          *)
Enqueue(b, id, event) ==
  LET s == b.subs[id].subscriber
      record == [event_id |-> event, subscription_id |-> id, status |-> "Pending",
                 attempts |-> 0, next_retry_at |-> now + Backoff(0)]
      queued == [b EXCEPT !.deliveries[s] = Append(@, record)]
      batched == [queued EXCEPT !.batch[s] = Append(@, event)]
  IN  IF b.subs[id].prefs.mode = "Immediate" THEN queued
      ELSE IF Len(batched.batch[s]) >= b.subs[id].prefs.batch_size THEN Flush(batched, s)
      ELSE batched

Receives(id, kind) == subs[id].status = "Active" /\ Matches(subs[id].filter, kind)

(* One subscription after another, in the order of the ids. *)
Dispatched(kind, event) ==
  LET after[id \in 0..Len(subs)] ==
        IF id = 0 THEN Books
        ELSE IF Receives(id, kind) THEN Enqueue(after[id - 1], id, event)
        ELSE after[id - 1]
  IN  after[Len(subs)]

DispatchEvent(kind) ==
  /\ dispatched < MaxEvents /\ now + Backoff(0) <= MaxTime
  /\ dispatched' = dispatched + 1
  /\ Store(Dispatched(kind, dispatched + 1))
  /\ UNCHANGED <<changes, now>>

(* Anybody may call it. *)
DeliverPending(s) ==
  /\ Store(Deliver(Books, s))
  /\ UNCHANGED <<dispatched, changes, now>>

FlushBatch(s) ==
  /\ Store(Flush(Books, s))
  /\ UNCHANGED <<dispatched, changes, now>>

FirstWith(s, event, status) ==
  LET found == {i \in DOMAIN deliveries[s] :
                  deliveries[s][i].event_id = event /\ deliveries[s][i].status = status}
  IN  IF found = {} THEN 0 ELSE Min(found)

(* Mutant: the failure is not counted for the subscription it befell.       *)
FailFirstSub(s, event) ==
  LET i == FirstWith(s, event, "Pending") IN
  /\ i # 0
  /\ deliveries[s][i].attempts < MaxAttempts
  /\ now + Backoff(deliveries[s][i].attempts) <= MaxTime
  /\ deliveries' = [deliveries EXCEPT ![s][i].attempts = @ + 1,
                      ![s][i].next_retry_at = now + Backoff(deliveries[s][i].attempts)]
  /\ metrics' = [metrics EXCEPT !.failed = @ + 1]
  /\ subs' = [subs EXCEPT ![1].total_failed = @ + 1]
  /\ UNCHANGED <<dispatched, batch, changes, now>>

(* The first pending record of the event: attempts count failures too.      *)
(* Anybody may report one.                                                  *)
MarkDeliveryFailed(s, event) ==
  LET i == FirstWith(s, event, "Pending") IN
  /\ i # 0
  /\ deliveries[s][i].attempts < MaxAttempts
  /\ now + Backoff(deliveries[s][i].attempts) <= MaxTime
  /\ deliveries' = [deliveries EXCEPT ![s][i].attempts = @ + 1,
                      ![s][i].next_retry_at = now + Backoff(deliveries[s][i].attempts)]
  /\ metrics' = [metrics EXCEPT !.failed = @ + 1]
  /\ subs' = [subs EXCEPT ![deliveries[s][i].subscription_id].total_failed = @ + 1]
  /\ UNCHANGED <<dispatched, batch, changes, now>>

Acknowledge(s, event) ==
  LET i == FirstWith(s, event, "Delivered") IN
  /\ i # 0
  /\ deliveries' = [deliveries EXCEPT ![s][i].status = "Acknowledged"]
  /\ metrics' = [metrics EXCEPT !.acknowledged = @ + 1]
  /\ UNCHANGED <<subs, dispatched, batch, changes, now>>

Tick ==
  /\ now < MaxTime
  /\ now' = now + 1
  /\ UNCHANGED <<subs, dispatched, deliveries, batch, metrics, changes>>

Subscription ==
  \/ \E s \in Subscribers :
       \E f \in Filters, p \in Preferences : CreateSubscription(s, f, p)
  \/ \E id \in SubIds :
       \/ \E p \in Preferences : UpdatePrefs(id, p)
       \/ \E status \in {"Active", "Paused", "Cancelled"} : SetSubscriptionStatus(id, status)

Next ==
  \/ Subscription
  \/ \E kind \in EventKinds : DispatchEvent(kind)
  \/ \E s \in Subscribers :
       \/ DeliverPending(s) \/ FlushBatch(s)
       \/ \E event \in EventIds : MarkDeliveryFailed(s, event) \/ Acknowledge(s, event)
  \/ Tick

Spec == Init /\ [][Next]_vars

(* A keeper delivers for every subscriber, and ledgers close. *)
FairSpec == Spec /\ (\A s \in Subscribers : WF_vars(DeliverPending(s))) /\ WF_vars(Tick)

-----------------------------------------------------------------------------
(* Properties *)

AllRecords == UNION {{s} \X DOMAIN deliveries[s] : s \in Subscribers}
Tally(Count(_)) == Total([r \in AllRecords |-> Count(deliveries[r[1]][r[2]])])

Sent(record) == IF record.status = "Pending" THEN 0 ELSE 1
Acknowledged(record) == IF record.status = "Acknowledged" THEN 1 ELSE 0
Failed(record) == record.attempts - Sent(record)
Retried(record) == IF Failed(record) > 0 THEN Sent(record) ELSE 0

(***************************************************************************)
(* The counters, kept by increments per contract and per subscription, are  *)
(* those of the records: what was sent, failed, retried and acknowledged,   *)
(* for subscriptions of one subscriber too, and every attempt is one or the *)
(* other.                                                                   *)
(***************************************************************************)
MetricsTrue ==
  LET Of(id, record, n) == IF record.subscription_id = id THEN n ELSE 0 IN
  /\ metrics.delivered = Tally(Sent) /\ metrics.acknowledged = Tally(Acknowledged)
  /\ metrics.failed = Tally(Failed) /\ metrics.retries = Tally(Retried)
  /\ \A id \in SubIds :
       /\ subs[id].total_delivered = Tally(LAMBDA record : Of(id, record, Sent(record)))
       /\ subs[id].total_failed = Tally(LAMBDA record : Of(id, record, Failed(record)))

(* How far the delivery of an event to a subscription has come. *)
Stage(event, id) ==
  LET s == subs[id].subscriber
      found == {i \in DOMAIN deliveries[s] : deliveries[s][i].event_id = event
                                              /\ deliveries[s][i].subscription_id = id}
  IN  IF id \notin SubIds \/ found = {} THEN "none"
      ELSE LET status == deliveries[s][Min(found)].status IN
           CASE status = "Pending" -> "due" [] status = "Delivered" -> "sent"
             [] status = "Acknowledged" -> "seen"

Out == INSTANCE Outbox WITH
  Events <- EventIds, Subscriptions <- 1..MaxSubs,
  stage <- [p \in EventIds \X (1..MaxSubs) |-> Stage(p[1], p[2])]

(***************************************************************************)
(* However deliveries fail, are batched, paused and reported, and though a  *)
(* batch is dropped with records that are not due, each matched event is    *)
(* sent to each subscription and acknowledged only then.                    *)
(***************************************************************************)
KeepsOutbox == Out!Spec
=============================================================================
