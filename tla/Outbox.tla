------------------------------- MODULE Outbox -------------------------------
(***************************************************************************)
(* What the events contract promises of its deliveries: an event is due to  *)
(* the subscriptions it matched when it was published, is sent to each of   *)
(* them at least once, and is acknowledged only after that.                 *)
(***************************************************************************)
CONSTANTS Events, Subscriptions

VARIABLE stage

Pairs == Events \X Subscriptions
Stages == {"none", "due", "sent", "seen"}

Init == stage = [p \in Pairs |-> "none"]

Sent(p) == stage[p] = "due" /\ stage'[p] = "sent"

Send == stage' \in [Pairs -> Stages] /\ \A p \in Pairs : stage'[p] = stage[p] \/ Sent(p)

Acknowledge(p) ==
  /\ stage[p] = "sent"
  /\ stage' = [stage EXCEPT ![p] = "seen"]

(* An event becomes due to those it matches; what was due before may be    *)
(* sent in the same step.                                                   *)
Publish(e) ==
  /\ \A s \in Subscriptions : stage[<<e, s>>] = "none"
  /\ stage' \in [Pairs -> Stages]
  /\ \A p \in Pairs :
       \/ stage'[p] = stage[p]
       \/ p[1] = e /\ stage'[p] = "due"
       \/ Sent(p)

Next == Send \/ (\E e \in Events : Publish(e)) \/ (\E p \in Pairs : Acknowledge(p))

Safety == Init /\ [][Next]_stage

(* Nothing stays due for ever. *)
AtLeastOnce == \A p \in Pairs : stage[p] = "due" ~> stage[p] # "due"

Spec == Safety /\ AtLeastOnce
=============================================================================
