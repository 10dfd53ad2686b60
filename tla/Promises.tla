------------------------------ MODULE Promises ------------------------------
(***************************************************************************)
(* The two contracts of which something is promised for later, side by side *)
(* on one ledger: the proposals of Governance (whose names this module      *)
(* takes over) and the deliveries of events.  They share its clock.         *)
(***************************************************************************)
EXTENDS Governance

CONSTANTS
  Subscribers, EventKinds, Filters, Preferences, RetryMax,
  MaxSubs, MaxEvents, MaxChanges, MaxAttempts

VARIABLES subs, dispatched, deliveries, batch, metrics, changes

outbox == <<subs, dispatched, deliveries, batch, metrics, changes>>
proposals == <<initialized, config, power, totalPower, nextId, proposal, vote, delegation,
               timelock, paused, claimed, totalRewards>>
promisesVars == <<now, proposals, outbox>>

Delivered == INSTANCE Delivery

ASSUME DeliveryAssumption == Delivered!DeliveryAssumption

PromisesInit == Init /\ Delivered!Init

Governing == Next /\ UNCHANGED outbox
Publishing == Delivered!Next /\ UNCHANGED proposals

PromisesNext == Governing \/ Publishing

PromisesSpec == PromisesInit /\ [][PromisesNext]_promisesVars

-----------------------------------------------------------------------------
(* Properties *)

(***************************************************************************)
(* Deliveries keep their types, and their counters are those of the records *)
(* (MetricsTrue of Delivery).                                               *)
(***************************************************************************)
MetricsTrue == Delivered!TypeOK /\ Delivered!MetricsTrue

(* Deliveries implement the abstract at-least-once outbox. *)
KeepsOutbox == Delivered!KeepsOutbox
=============================================================================
