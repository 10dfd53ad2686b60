-------------------------- MODULE ProposalLifecycle --------------------------
(***************************************************************************)
(* What the governance contract promises about a proposal: ballots are      *)
(* taken only while voting is open, one per token holder; the outcome is    *)
(* decided once, after voting has closed; a passed proposal waits out its   *)
(* timelock before it is executed; and nothing leaves a final stage.  Only  *)
(* the admin and the guardian together may override all this.               *)
(***************************************************************************)
CONSTANTS Ids, Voters

VARIABLES
  stage,    \* stage[i]: where proposal i stands, "None" before it is submitted
  ballots,  \* ballots[i]: the token holders whose vote is in
  closed,   \* proposals whose voting period is over
  due       \* proposals whose timelock has run out

lifecycleVars == <<stage, ballots, closed, due>>

Begin ==
  /\ stage = [i \in Ids |-> "None"]
  /\ ballots = [i \in Ids |-> {}]
  /\ closed = {} /\ due = {}

Move(i, from, to) ==
  /\ stage[i] \in from
  /\ stage' = [stage EXCEPT ![i] = to]
  /\ UNCHANGED <<ballots, closed, due>>

Submit(i) == Move(i, {"None"}, "Voting") /\ ballots[i] = {} /\ i \notin closed

TakeBallot(i, v) ==
  /\ stage[i] = "Voting" /\ i \notin closed
  /\ v \notin ballots[i]
  /\ ballots' = [ballots EXCEPT ![i] = @ \cup {v}]
  /\ UNCHANGED <<stage, closed, due>>

Decide(i) ==
  /\ i \in closed
  /\ Move(i, {"Voting"}, "Passed") \/ Move(i, {"Voting"}, "Defeated")

Withdrawn(i) == Move(i, {"Voting"}, "Cancelled")
Queue(i) == Move(i, {"Passed"}, "Timelock") /\ i \notin due
Execute(i) == Move(i, {"Timelock"}, "Executed") /\ i \in due
Override(i) == Move(i, {"Voting", "Passed", "Defeated", "Timelock"}, "Overridden")

(* Time passes: periods end and never begin again. *)
Elapse ==
  /\ closed \subseteq closed' /\ due \subseteq due'
  /\ \A i \in due' \ due : stage[i] \notin {"None", "Voting", "Passed"}
  /\ UNCHANGED <<stage, ballots>>

LifecycleNext ==
  \/ \E i \in Ids :
       \/ Submit(i) \/ Decide(i) \/ Withdrawn(i) \/ Queue(i) \/ Execute(i) \/ Override(i)
       \/ \E v \in Voters : TakeBallot(i, v)
  \/ Elapse

Lifecycle == Begin /\ [][LifecycleNext]_lifecycleVars
=============================================================================
