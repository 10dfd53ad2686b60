---------------------------- MODULE MCGovernance ----------------------------
(***************************************************************************)
(* Small instances of Governance: one or two holders and proposals, one     *)
(* tick per period or delay.                                                *)
(***************************************************************************)
EXTENDS Governance, TLC

CONSTANTS h1, h2

MCHolders == {h1, h2}
HolderSymmetry == Permutations(MCHolders)

(* Half of the power for a quorum, half of the votes for approval. *)
Plain ==
  [threshold |-> 1, votingPeriod |-> 1, quorumBps |-> 5000, approvalBps |-> 5000,
   timelockDelay |-> 1, emergencyDelay |-> 1, reward |-> 1, maxActive |-> 1]

(* Everyone must vote, more than 80% for it, two proposals may be active,   *)
(* and no delay at all for an ordinary proposal.                            *)
Hasty ==
  [Plain EXCEPT !.quorumBps = 10000, !.approvalBps = 8000, !.timelockDelay = 0, !.maxActive = 2]

(* The last tick is for a queued proposal only. *)
KeptSmall == now = MaxTime => \E id \in Ids : timelock[id] # None

MCOneConfig == {}
MCTwoConfigs == {Plain, Hasty}
=============================================================================
