----------------------------- MODULE MCProgress -----------------------------
(***************************************************************************)
(* What must eventually happen: a small instance of Governance with one     *)
(* holder, whose admin switches between two configurations, and one of      *)
(* Delivery with one subscriber, whose two subscriptions have one filter,   *)
(* which one of the two kinds of event passes.  They share the ledger clock *)
(* and nothing else: each behaviour exercises one of them, chosen at the    *)
(* start.                                                                   *)
(***************************************************************************)
EXTENDS MCGovernance, Promises

CONSTANT s1

VARIABLE subject

progressVars == <<subject, promisesVars>>

Drift(n) == [type |-> "Rebalanced", severity |-> 1, details |-> [x \in {"drift"} |-> n]]

MCKinds == {Drift(1), Drift(2)}
MCFilters ==
  {[event_types |-> {"Rebalanced"}, min_severity |-> 1,
    conditions |-> {[key |-> "drift", op |-> "GreaterThan", value |-> 1]}]}
MCPreferences == {[mode |-> "Immediate", batch_size |-> 1], [mode |-> "Batch", batch_size |-> 2]}

(* The deliveries need less time than a proposal. *)
Published == INSTANCE Delivery WITH MaxTime <- 2

Govern(A) == subject = "proposals" /\ A /\ UNCHANGED <<subject, outbox>>
Publish(A) == subject = "outbox" /\ A /\ UNCHANGED <<subject, proposals>>

ProgressInit == subject \in {"proposals", "outbox"} /\ PromisesInit

GovernStep == subject = "proposals" /\ Next /\ UNCHANGED <<subject, outbox>>
PublishStep == subject = "outbox" /\ Published!Next /\ UNCHANGED <<subject, proposals>>

ProgressNext == GovernStep \/ PublishStep

(* The fairness of FairSpec of both: time passes, somebody makes the calls  *)
(* that need nobody's permission, a keeper delivers what is pending.        *)
ProgressSpec ==
  /\ ProgressInit /\ [][ProgressNext]_progressVars
  /\ WF_progressVars(Govern(Tick))
  /\ \A id \in Ids : /\ WF_progressVars(Govern(FinalizeProposal(id)))
                      /\ WF_progressVars(Govern(QueueTimelock(id)))
                      /\ WF_progressVars(Govern(ExecuteProposal(id)))
  /\ WF_progressVars(Publish(Published!Tick))
  /\ WF_progressVars(Publish(Published!DeliverPending(s1)))
=============================================================================
