----------------------------- MODULE Governance -----------------------------
(***************************************************************************)
(* The governance DAO: deposited voting power, proposals and their votes,   *)
(* delegation, finalization, the timelock queue, emergency controls and     *)
(* participation rewards.  The treasury is in Treasury.tla.                 *)
(*                                                                          *)
(* A call is one ledger transaction: an action is a whole successful call.  *)
(* The audit trail and events are records for readers and are left out, as  *)
(* are the payload and the titles, which no code interprets.                *)
(***************************************************************************)
EXTENDS Integers, Totals

CONSTANTS
  Holders,        \* addresses that hold power, propose and vote
  Admin,          \* the address initialize stores as admin
  Configs,        \* configurations the admin may set
  DefaultConfig,  \* the compiled-in configuration
  EarlyCalls,     \* whether calls may reach the contract before initialize
  MaxInt,         \* i128::MAX, bounds the total and what is computed from it
  MaxPower,       \* bounds each holder's power, i128::MAX in the code
  MaxProposals,   \* u64::MAX, bounds the proposal ids
  MaxTime,        \* bounds the ledger timestamp
  None

Ids == 1..MaxProposals
Directions == {"For", "Against", "Abstain"}
Final == {"Executed", "Cancelled", "ExecutionFailed"}

Config ==
  [threshold : Int, votingPeriod : Nat, quorumBps : Nat, approvalBps : Nat,
   timelockDelay : Nat, emergencyDelay : Nat, reward : Int, maxActive : Nat]

(* set_config's checks, those on the treasury's fields excepted. *)
ValidConfig(c) ==
  /\ c.votingPeriod # 0
  /\ c.quorumBps \in 1..10000
  /\ c.approvalBps \in 1..10000
  /\ c.maxActive # 0

Proposal ==
  [proposer : Holders, emergency : BOOLEAN,
   status : {"Voting", "Passed", "Defeated", "Timelock"} \cup Final,
   tally : [Directions -> Nat], voterCount : Nat, votingEnds : Nat]
VoteRecord == [weight : 1..MaxPower, direction : Directions]
Delegation == [delegate : Holders, active : BOOLEAN]
TimelockEntry == [executeAfter : Nat, status : {"Pending", "Executed"}]

ASSUME GovernanceAssumption ==
  /\ IsFiniteSet(Holders) /\ None \notin Holders
  /\ None \notin Proposal /\ None \notin VoteRecord /\ None \notin TimelockEntry
  /\ Configs \subseteq Config /\ DefaultConfig \in Config
  /\ EarlyCalls \in BOOLEAN
  /\ MaxInt \in Nat /\ MaxPower \in 0..MaxInt
  /\ MaxProposals \in Nat /\ MaxTime \in Nat

VARIABLES
  initialized,   \* Admin and Guardian are stored
  config,        \* Config
  power,         \* VotingPower(holder), 0 when absent
  totalPower,    \* TotalVotingPower
  nextId,        \* NextProposalId; AllProposalIds always lists 1..nextId-1
  proposal,      \* Proposal(id), or None
  vote,          \* VoteRecord(id, token holder), or None
  delegation,    \* Delegation(delegator), or None
  timelock,      \* TimelockEntry(id), or None
  paused,        \* EmergencyPaused
  claimed,       \* the <<id, voter>> with RewardClaimed
  totalRewards,  \* TotalRewardsDistributed
  now            \* the ledger timestamp

admins == <<initialized, config, paused>>
powers == <<power, totalPower>>
rewards == <<claimed, totalRewards>>
vars == <<admins, powers, nextId, proposal, vote, delegation, timelock, rewards, now>>

TypeOK ==
  /\ initialized \in BOOLEAN /\ paused \in BOOLEAN
  /\ config \in Config
  /\ power \in [Holders -> 0..MaxPower] /\ totalPower \in Int
  /\ nextId \in 1..(MaxProposals + 1)
  /\ proposal \in [Ids -> Proposal \cup {None}]
  /\ vote \in [Ids \X Holders -> VoteRecord \cup {None}]
  /\ delegation \in [Holders -> Delegation \cup {None}]
  /\ timelock \in [Ids -> TimelockEntry \cup {None}]
  /\ claimed \subseteq Ids \X Holders /\ totalRewards \in Int
  /\ now \in 0..MaxTime

Init ==
  /\ initialized = FALSE /\ paused = FALSE
  /\ config = DefaultConfig
  /\ power = [h \in Holders |-> 0] /\ totalPower = 0
  /\ nextId = 1
  /\ proposal = [i \in Ids |-> None]
  /\ vote = [k \in Ids \X Holders |-> None]
  /\ delegation = [h \in Holders |-> None]
  /\ timelock = [i \in Ids |-> None]
  /\ claimed = {} /\ totalRewards = 0
  /\ now = 0

(* What a checked operation returns, and does not trap or err on.           *)
Fits(n) == -MaxInt - 1 <= n /\ n <= MaxInt

Open == initialized \/ EarlyCalls
Exists(id) == proposal[id] # None
Has(id, status) == Exists(id) /\ proposal[id].status = status
SetStatus(id, status) == proposal' = [proposal EXCEPT ![id].status = status]

-----------------------------------------------------------------------------
(* Administration.  initialize stores the zero totals and the first id over *)
(* whatever is there.                                                       *)

Initialize ==
  /\ ~initialized
  /\ initialized' = TRUE
  /\ config' = DefaultConfig
  /\ totalPower' = 0
  /\ paused' = FALSE
  /\ nextId' = 1
  /\ UNCHANGED <<power, proposal, vote, delegation, timelock, rewards, now>>

SetConfig(c) ==
  /\ initialized
  /\ ValidConfig(c)
  /\ config' = c
  /\ UNCHANGED <<initialized, paused, powers, nextId, proposal, vote, delegation, timelock,
                 rewards, now>>

EmergencyPause ==
  /\ initialized /\ ~paused
  /\ paused' = TRUE
  /\ UNCHANGED <<initialized, config, powers, nextId, proposal, vote, delegation, timelock,
                 rewards, now>>

EmergencyUnpause ==
  /\ initialized /\ paused
  /\ paused' = FALSE
  /\ UNCHANGED <<initialized, config, powers, nextId, proposal, vote, delegation, timelock,
                 rewards, now>>

-----------------------------------------------------------------------------
(* Voting power and delegation *)

(* Mutant: the sum is not checked for overflow. *)
DepositUnchecked(h, amount) ==
  /\ Open
  /\ power' = [power EXCEPT ![h] = @ + amount]
  /\ totalPower' = totalPower + amount
  /\ UNCHANGED <<admins, nextId, proposal, vote, delegation, timelock, rewards, now>>

DepositVotingPower(h, amount) ==
  /\ Open
  /\ power[h] + amount <= MaxPower /\ Fits(totalPower + amount)
  /\ power' = [power EXCEPT ![h] = @ + amount]
  /\ totalPower' = totalPower + amount
  /\ UNCHANGED <<admins, nextId, proposal, vote, delegation, timelock, rewards, now>>

(* Mutant: the total is left as it was. *)
WithdrawKeepingTotal(h, amount) ==
  /\ Open
  /\ amount <= power[h]
  /\ power' = [power EXCEPT ![h] = @ - amount]
  /\ UNCHANGED <<admins, totalPower, nextId, proposal, vote, delegation, timelock, rewards, now>>

WithdrawVotingPower(h, amount) ==
  /\ Open
  /\ amount <= power[h] /\ Fits(totalPower - amount)
  /\ power' = [power EXCEPT ![h] = @ - amount]
  /\ totalPower' = totalPower - amount
  /\ UNCHANGED <<admins, nextId, proposal, vote, delegation, timelock, rewards, now>>

Delegate(h, d) ==
  /\ Open
  /\ h # d
  /\ delegation' = [delegation EXCEPT ![h] = [delegate |-> d, active |-> TRUE]]
  /\ UNCHANGED <<admins, powers, nextId, proposal, vote, timelock, rewards, now>>

RevokeDelegation(h) ==
  /\ Open
  /\ delegation[h] # None
  /\ delegation' = [delegation EXCEPT ![h].active = FALSE]
  /\ UNCHANGED <<admins, powers, nextId, proposal, vote, timelock, rewards, now>>

-----------------------------------------------------------------------------
(* Proposals and votes *)

CountActiveProposals ==
  Cardinality({i \in 1..(nextId - 1) : \E s \in {"Voting", "Timelock", "Passed"} : Has(i, s)})

NewProposal(h, emergency) ==
  [proposer |-> h, emergency |-> emergency, status |-> "Voting",
   tally |-> [d \in Directions |-> 0], voterCount |-> 0,
   votingEnds |-> now + config.votingPeriod]

SubmitProposal(h, emergency) ==
  /\ Open
  /\ power[h] >= config.threshold
  /\ CountActiveProposals < config.maxActive
  /\ nextId <= MaxProposals
  /\ proposal' = [proposal EXCEPT ![nextId] = NewProposal(h, emergency)]
  /\ nextId' = nextId + 1
  /\ UNCHANGED <<admins, powers, vote, delegation, timelock, rewards, now>>

CancelProposal(caller, id) ==
  /\ initialized
  /\ Has(id, "Voting")
  /\ caller \in {proposal[id].proposer, Admin}
  /\ SetStatus(id, "Cancelled")
  /\ UNCHANGED <<admins, powers, nextId, vote, delegation, timelock, rewards, now>>

Votes(tally) == tally["For"] + tally["Against"] + tally["Abstain"]

(* Mutant: no check that the holder has not voted yet. *)
RecordVoteAgain(holder, id, direction) ==
  /\ Open
  /\ Has(id, "Voting")
  /\ now <= proposal[id].votingEnds
  /\ power[holder] > 0 /\ Fits(Votes(proposal[id].tally) + power[holder])
  /\ vote' = [vote EXCEPT ![<<id, holder>>] = [weight |-> power[holder], direction |-> direction]]
  /\ proposal' = [proposal EXCEPT ![id].tally[direction] = @ + power[holder],
                                  ![id].voterCount = @ + 1]
  /\ UNCHANGED <<admins, powers, nextId, delegation, timelock, rewards, now>>

(* What cast_vote and cast_delegated_vote share: the record is keyed by the *)
(* token holder and carries the power the holder has at this moment.  The   *)
(* tallies are summed without a check: the votes of a proposal are bounded  *)
(* here by MaxInt together.                                                 *)
RecordVote(holder, id, direction) ==
  /\ Open
  /\ Has(id, "Voting")
  /\ now <= proposal[id].votingEnds
  /\ vote[<<id, holder>>] = None
  /\ power[holder] > 0 /\ Fits(Votes(proposal[id].tally) + power[holder])
  /\ vote' = [vote EXCEPT ![<<id, holder>>] = [weight |-> power[holder], direction |-> direction]]
  /\ proposal' = [proposal EXCEPT ![id].tally[direction] = @ + power[holder],
                                  ![id].voterCount = @ + 1]
  /\ UNCHANGED <<admins, powers, nextId, delegation, timelock, rewards, now>>

CastVote(voter, id, direction) == RecordVote(voter, id, direction)

CastDelegatedVote(delegate, holder, id, direction) ==
  /\ delegation[holder] = [delegate |-> delegate, active |-> TRUE]
  /\ RecordVote(holder, id, direction)

(* finalize_proposal's verdict, in basis points of the power and the votes. *)
Share(amount, bps) == (amount * bps) \div 10000

NetVotes(tally) == tally["For"] + tally["Against"]
Quorate(tally) == Votes(tally) >= Share(totalPower, config.quorumBps)

(* Mutant: a share exactly at the threshold is enough. *)
ApprovedAtThreshold(tally) ==
  /\ Quorate(tally)
  /\ NetVotes(tally) # 0
  /\ tally["For"] >= Share(NetVotes(tally), config.approvalBps)

Approved(tally) ==
  /\ Quorate(tally)
  /\ NetVotes(tally) # 0
  /\ tally["For"] > Share(NetVotes(tally), config.approvalBps)

(* Neither product overflows.  Where one does the count is an error, as     *)
(* often as it is tried, until power is withdrawn or the threshold set anew. *)
Countable(tally) ==
  /\ Fits(totalPower * config.quorumBps)
  /\ Quorate(tally) => Fits(NetVotes(tally) * config.approvalBps)

(* Mutants: the count does not wait for the end of the vote; a proposal short *)
(* of its quorum is an error and not a defeat.                              *)
FinalizeEarly(id) ==
  /\ Has(id, "Voting")
  /\ Countable(proposal[id].tally)
  /\ SetStatus(id, IF Approved(proposal[id].tally) THEN "Passed" ELSE "Defeated")
  /\ UNCHANGED <<admins, powers, nextId, vote, delegation, timelock, rewards, now>>

FinalizeApprovedOnly(id) ==
  /\ Has(id, "Voting")
  /\ now > proposal[id].votingEnds
  /\ Countable(proposal[id].tally)
  /\ Approved(proposal[id].tally)
  /\ SetStatus(id, "Passed")
  /\ UNCHANGED <<admins, powers, nextId, vote, delegation, timelock, rewards, now>>

FinalizeProposal(id) ==
  /\ Has(id, "Voting")
  /\ now > proposal[id].votingEnds
  /\ Countable(proposal[id].tally)
  /\ SetStatus(id, IF Approved(proposal[id].tally) THEN "Passed" ELSE "Defeated")
  /\ UNCHANGED <<admins, powers, nextId, vote, delegation, timelock, rewards, now>>

-----------------------------------------------------------------------------
(* Timelock and execution *)

EffectiveDelay(p) == IF p.emergency THEN config.emergencyDelay ELSE config.timelockDelay

QueueTimelock(id) ==
  /\ Has(id, "Passed")
  /\ LET delay == EffectiveDelay(proposal[id]) IN
     /\ delay # 0
     /\ timelock' = [timelock EXCEPT ![id] =
                       [executeAfter |-> now + delay, status |-> "Pending"]]
  /\ SetStatus(id, "Timelock")
  /\ UNCHANGED <<admins, powers, nextId, vote, delegation, rewards, now>>

(* Mutant: the proposal's own status is not stored. *)
ExecuteEntryOnly(id) ==
  /\ Has(id, "Timelock")
  /\ timelock[id] # None /\ timelock[id].status # "Executed"
  /\ now >= timelock[id].executeAfter
  /\ timelock' = [timelock EXCEPT ![id].status = "Executed"]
  /\ UNCHANGED <<admins, powers, nextId, proposal, vote, delegation, rewards, now>>

(* check_ready and mark_executed, in one call. *)
ExecuteProposal(id) ==
  /\ Has(id, "Timelock")
  /\ timelock[id] # None /\ timelock[id].status # "Executed"
  /\ now >= timelock[id].executeAfter
  /\ timelock' = [timelock EXCEPT ![id].status = "Executed"]
  /\ SetStatus(id, "Executed")
  /\ UNCHANGED <<admins, powers, nextId, vote, delegation, rewards, now>>

(* Signed by the admin and the guardian together. *)
EmergencyExecute(id) ==
  /\ initialized
  /\ Exists(id) /\ proposal[id].status \notin Final
  /\ SetStatus(id, "Executed")
  /\ UNCHANGED <<admins, powers, nextId, vote, delegation, timelock, rewards, now>>

ClaimRewards(voter, id) ==
  /\ Open
  /\ <<id, voter>> \notin claimed
  /\ vote[<<id, voter>>] # None
  /\ claimed' = claimed \cup {<<id, voter>>}
  /\ totalRewards' = totalRewards + config.reward
  /\ UNCHANGED <<admins, powers, nextId, proposal, vote, delegation, timelock, now>>

(* The ledger closes and its timestamp moves on. *)
Tick ==
  /\ now < MaxTime
  /\ now' = now + 1
  /\ UNCHANGED <<admins, powers, nextId, proposal, vote, delegation, timelock, rewards>>

-----------------------------------------------------------------------------
Administer ==
  \/ Initialize
  \/ \E c \in Configs : SetConfig(c)
  \/ EmergencyPause \/ EmergencyUnpause
  \/ \E id \in Ids : EmergencyExecute(id)

HoldPower ==
  \/ \E h \in Holders, n \in 1..MaxPower : DepositVotingPower(h, n)
  \/ \E h \in Holders, n \in 1..MaxPower : WithdrawVotingPower(h, n)
  \/ \E h, d \in Holders : Delegate(h, d)
  \/ \E h \in Holders : RevokeDelegation(h)

Vote ==
  \/ \E h \in Holders, e \in BOOLEAN : SubmitProposal(h, e)
  \/ \E c \in Holders \cup {Admin}, id \in Ids : CancelProposal(c, id)
  \/ \E h \in Holders, id \in Ids, d \in Directions : CastVote(h, id, d)
  \/ \E g, h \in Holders, id \in Ids, d \in Directions : CastDelegatedVote(g, h, id, d)
  \/ \E h \in Holders, id \in Ids : ClaimRewards(h, id)

(* The calls anyone may make without authorization or power. *)
Advance(id) == FinalizeProposal(id) \/ QueueTimelock(id) \/ ExecuteProposal(id)

Next == Administer \/ HoldPower \/ Vote \/ (\E id \in Ids : Advance(id)) \/ Tick

Spec == Init /\ [][Next]_vars

(* Time passes, and somebody eventually makes the calls that need no one's *)
(* permission.                                                             *)
FairSpec ==
  /\ Spec
  /\ WF_vars(Tick)
  /\ \A id \in Ids : /\ WF_vars(FinalizeProposal(id))
                      /\ WF_vars(QueueTimelock(id))
                      /\ WF_vars(ExecuteProposal(id))

-----------------------------------------------------------------------------
(* Properties *)

VotersOf(id) == {h \in Holders : vote[<<id, h>>] # None}
WeightCast(id, d) ==
  Total([h \in Holders |-> IF h \in VotersOf(id) /\ vote[<<id, h>>].direction = d
                           THEN vote[<<id, h>>].weight ELSE 0])

(***************************************************************************)
(* TotalVotingPower, the base of every quorum, is the sum of what the       *)
(* holders have deposited (records.rs:309).                                 *)
(***************************************************************************)
PowerAccounted == totalPower = Total(power)

(***************************************************************************)
(* A proposal's tallies and voter count are those of its vote records,      *)
(* whatever became of the voters' power and delegations since.              *)
(***************************************************************************)
TallyMatchesVotes ==
  \A id \in Ids : Exists(id) =>
    /\ \A d \in Directions : proposal[id].tally[d] = WeightCast(id, d)
    /\ proposal[id].voterCount = Cardinality(VotersOf(id))

(***************************************************************************)
(* Rewards go to recorded voters, once per proposal: with one reward rate   *)
(* the total paid is that rate times the claims.                            *)
(***************************************************************************)
RewardsPaidOnce ==
  /\ \A k \in claimed : vote[k] # None
  /\ (\A c \in Configs : c.reward = DefaultConfig.reward)
       => totalRewards = DefaultConfig.reward * Cardinality(claimed)

(***************************************************************************)
(* What is made of the votes agrees with their records, whatever the voters *)
(* do afterwards: the tallies and the rewards.                              *)
(***************************************************************************)
VotesAccounted == TallyMatchesVotes /\ RewardsPaidOnce

(***************************************************************************)
(* A proposal the timelock executed had been decided, and had then waited   *)
(* out a delay the admin had configured.                                    *)
(***************************************************************************)
ExecutionDelayed ==
  \A id \in Ids :
    (timelock[id] # None /\ timelock[id].status = "Executed") =>
      \E c \in Configs \cup {DefaultConfig} :
        LET delay == IF proposal[id].emergency THEN c.emergencyDelay ELSE c.timelockDelay
        IN  delay > 0 /\ now > proposal[id].votingEnds + delay

(***************************************************************************)
(* The two records of a queued proposal, written by two modules, agree: one *)
(* in the timelock has a pending entry, so that it can run once it is due,  *)
(* and an entry is executed only together with its proposal.                *)
(***************************************************************************)
TimelockInStep ==
  \A id \in Ids :
    /\ Has(id, "Timelock") => timelock[id] # None /\ timelock[id].status = "Pending"
    /\ (timelock[id] # None /\ timelock[id].status = "Executed") => Has(id, "Executed")

(***************************************************************************)
(* A proposal passes only on more than the approval threshold's share of    *)
(* the recorded votes for and against: neither the rounding of basis points *)
(* nor an abstention ever lets a tie through.                               *)
(***************************************************************************)
PassedByMajority ==
  [][\A id \in Ids :
       (Has(id, "Voting") /\ Has(id, "Passed")') =>
         WeightCast(id, "For") * 10000
           > config.approvalBps * (WeightCast(id, "For") + WeightCast(id, "Against"))]_vars

(***************************************************************************)
(* Every run of the contract is a run of ProposalLifecycle: one ballot per  *)
(* holder and only while voting is open, one decision after it has closed,  *)
(* no execution before the timelock has run out.  A proposal executed over  *)
(* the timelock's head, its entry not executed, is one overridden.  And     *)
(* what the promise cannot say: the delay was one the admin had configured. *)
(***************************************************************************)
Stage(id) ==
  IF ~Exists(id) THEN "None"
  ELSE IF Has(id, "Executed") /\ (timelock[id] = None \/ timelock[id].status = "Pending")
  THEN "Overridden"
  ELSE proposal[id].status

Promise == INSTANCE ProposalLifecycle WITH
  Voters <- Holders,
  stage <- [i \in Ids |-> Stage(i)],
  ballots <- [i \in Ids |-> VotersOf(i)],
  closed <- {i \in Ids : Exists(i) /\ now > proposal[i].votingEnds},
  due <- {i \in Ids : timelock[i] # None /\ now >= timelock[i].executeAfter}

KeepsPromise == Promise!Lifecycle /\ []ExecutionDelayed

(***************************************************************************)
(* Once its voting has ended a proposal is eventually decided or withdrawn, *)
(* unless its count overflows: finalize_proposal then fails for as long as  *)
(* the total power and the thresholds are what they are.  A queued proposal *)
(* is eventually executed; a passed one leaves that state unless the admin  *)
(* has set its delay to 0, which queue_timelock refuses.                    *)
(* (Periods that end beyond MaxTime are beyond the model.)                  *)
(***************************************************************************)
Stuck(id) == now > proposal[id].votingEnds /\ ~Countable(proposal[id].tally)

EventuallyDecided ==
  \A id \in Ids :
    /\ (Has(id, "Voting") /\ proposal[id].votingEnds < MaxTime)
         ~> (~Has(id, "Voting") \/ Stuck(id))
    /\ Has(id, "Passed") ~> (~Has(id, "Passed") \/ EffectiveDelay(proposal[id]) = 0)
    /\ (Has(id, "Timelock") /\ timelock[id].executeAfter <= MaxTime) ~> Has(id, "Executed")
=============================================================================
