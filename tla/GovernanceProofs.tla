-------------------------- MODULE GovernanceProofs --------------------------
(***************************************************************************)
(* Theorems about Governance, for any holders, configurations and bounds.   *)
(***************************************************************************)
EXTENDS Governance, TotalsProofs

USE GovernanceAssumption

-----------------------------------------------------------------------------
(* Type correctness *)

LEMMA TypeInit == Init => TypeOK
<1> SUFFICES ASSUME Init PROVE TypeOK
  OBVIOUS
<1>1. config \in Config /\ nextId \in 1..(MaxProposals + 1) /\ now \in 0..MaxTime
  BY DEF Init
<1>2. power \in [Holders -> 0..MaxPower] /\ totalPower \in Int /\ totalRewards \in Int
  BY DEF Init
<1> QED BY <1>1, <1>2 DEF Init, TypeOK

(***************************************************************************)
(* Replacing the status of an existing proposal, or adding a vote to it,    *)
(* leaves a proposal.                                                       *)
(***************************************************************************)
LEMMA StatusKeepsType ==
  ASSUME proposal \in [Ids -> Proposal \cup {None}], NEW id \in Ids, Exists(id),
         NEW status \in {"Passed", "Defeated", "Timelock"} \cup Final, SetStatus(id, status)
  PROVE  proposal' \in [Ids -> Proposal \cup {None}]
<1>1. proposal[id] \in Proposal
  BY DEF Exists
<1>2. [proposal[id] EXCEPT !.status = status] \in Proposal
  BY <1>1 DEF Proposal
<1>3. proposal' = [proposal EXCEPT ![id] = [proposal[id] EXCEPT !.status = status]]
  BY DEF SetStatus
<1> QED BY <1>2, <1>3

Voted(h, id, d) ==
  [[proposal[id] EXCEPT !.tally = [proposal[id].tally EXCEPT ![d] = @ + power[h]]]
     EXCEPT !.voterCount = proposal[id].voterCount + 1]

LEMMA VoteMakesProposal ==
  ASSUME TypeOK, NEW h \in Holders, NEW id \in Ids, NEW d \in Directions, RecordVote(h, id, d)
  PROVE  /\ Voted(h, id, d) \in Proposal /\ Voted(h, id, d).status = "Voting"
         /\ proposal' = [proposal EXCEPT ![id] = Voted(h, id, d)]
<1>1. /\ proposal[id] \in Proposal /\ proposal[id].status = "Voting" /\ power[h] \in Nat
      /\ proposal' = [proposal EXCEPT ![id].tally[d] = @ + power[h], ![id].voterCount = @ + 1]
  BY DEF RecordVote, Has, Exists, TypeOK
<1> DEFINE tally == [proposal[id].tally EXCEPT ![d] = @ + power[h]]
           q == [proposal[id] EXCEPT !.tally = tally]
<1>2. tally \in [Directions -> Nat] /\ proposal[id].voterCount \in Nat
  BY <1>1 DEF Proposal
<1>3. proposal' = [proposal EXCEPT ![id] = Voted(h, id, d)]
  BY <1>1 DEF Voted
<1> HIDE DEF tally
<1>4. q \in Proposal /\ q.status = "Voting"
  BY <1>1, <1>2 DEF Proposal
<1> HIDE DEF q
<1>5. /\ [q EXCEPT !.voterCount = proposal[id].voterCount + 1] \in Proposal
      /\ [q EXCEPT !.voterCount = proposal[id].voterCount + 1].status = "Voting"
  BY <1>2, <1>4 DEF Proposal
<1> QED BY <1>3, <1>5 DEF Voted, q, tally

LEMMA VoteKeepsType ==
  ASSUME TypeOK, NEW h \in Holders, NEW id \in Ids, NEW d \in Directions, RecordVote(h, id, d)
  PROVE  TypeOK'
<1>1. proposal' \in [Ids -> Proposal \cup {None}]
  BY VoteMakesProposal DEF TypeOK
<1>2. vote' \in [Ids \X Holders -> VoteRecord \cup {None}]
  <2>1. power[h] \in 1..MaxPower
    BY DEF RecordVote, TypeOK
  <2>2. [weight |-> power[h], direction |-> d] \in VoteRecord
    BY <2>1 DEF VoteRecord
  <2> QED BY <2>2 DEF RecordVote, TypeOK
<1>3. UNCHANGED <<admins, powers, nextId, delegation, timelock, rewards, now>>
  BY DEF RecordVote
<1> QED BY <1>1, <1>2, <1>3 DEF TypeOK, admins, powers, rewards

LEMMA TypeAdminister == TypeOK /\ Administer => TypeOK'
<1> SUFFICES ASSUME TypeOK, Administer PROVE TypeOK'
  OBVIOUS
<1>1. CASE Initialize
  <2>1. initialized' \in BOOLEAN /\ paused' \in BOOLEAN /\ config' \in Config
    BY <1>1 DEF Initialize
  <2>1a. totalPower' \in Int /\ nextId' \in 1..(MaxProposals + 1)
    BY <1>1 DEF Initialize
  <2>2. UNCHANGED <<power, proposal, vote, delegation, timelock, claimed, totalRewards, now>>
    BY <1>1 DEF Initialize, rewards
  <2> QED BY <2>1, <2>1a, <2>2 DEF TypeOK
<1>2. ASSUME NEW c \in Configs, SetConfig(c) PROVE TypeOK'
  BY <1>2 DEF SetConfig, TypeOK, powers, rewards
<1>3. CASE EmergencyPause \/ EmergencyUnpause
  BY <1>3 DEF EmergencyPause, EmergencyUnpause, TypeOK, powers, rewards
<1>4. ASSUME NEW id \in Ids, EmergencyExecute(id) PROVE TypeOK'
  <2>1. proposal' \in [Ids -> Proposal \cup {None}]
    BY <1>4, StatusKeepsType DEF EmergencyExecute, TypeOK, Final
  <2> QED BY <1>4, <2>1 DEF EmergencyExecute, TypeOK, admins, powers, rewards
<1> QED BY <1>1, <1>2, <1>3, <1>4 DEF Administer

LEMMA TypeHoldPower == TypeOK /\ HoldPower => TypeOK'
<1> SUFFICES ASSUME TypeOK, HoldPower PROVE TypeOK'
  OBVIOUS
<1>1. ASSUME NEW h \in Holders, NEW n \in 1..MaxPower, DepositVotingPower(h, n) PROVE TypeOK'
  BY <1>1 DEF DepositVotingPower, TypeOK, admins, rewards
<1>2. ASSUME NEW h \in Holders, NEW n \in 1..MaxPower, WithdrawVotingPower(h, n) PROVE TypeOK'
  BY <1>2 DEF WithdrawVotingPower, TypeOK, admins, rewards
<1>3. ASSUME NEW h \in Holders, NEW d \in Holders, Delegate(h, d) PROVE TypeOK'
  BY <1>3 DEF Delegate, Delegation, TypeOK, admins, powers, rewards
<1>4. ASSUME NEW h \in Holders, RevokeDelegation(h) PROVE TypeOK'
  <2>1. /\ delegation[h] \in Delegation
        /\ delegation' = [delegation EXCEPT ![h] = [delegation[h] EXCEPT !.active = FALSE]]
    BY <1>4 DEF RevokeDelegation, TypeOK
  <2>2. [delegation[h] EXCEPT !.active = FALSE] \in Delegation
    BY <2>1 DEF Delegation
  <2> QED BY <1>4, <2>1, <2>2 DEF RevokeDelegation, TypeOK, admins, powers, rewards
<1> QED BY <1>1, <1>2, <1>3, <1>4 DEF HoldPower

LEMMA TypeVote == TypeOK /\ Vote => TypeOK'
<1> SUFFICES ASSUME TypeOK, Vote PROVE TypeOK'
  OBVIOUS
<1>1. ASSUME NEW h \in Holders, NEW e \in BOOLEAN, SubmitProposal(h, e) PROVE TypeOK'
  <2>1. NewProposal(h, e) \in Proposal
    BY DEF NewProposal, Proposal, TypeOK, Config
  <2>2. /\ nextId \in Ids /\ nextId' = nextId + 1
        /\ proposal' = [proposal EXCEPT ![nextId] = NewProposal(h, e)]
    BY <1>1 DEF SubmitProposal, TypeOK, Ids
  <2>3. nextId' \in 1..(MaxProposals + 1)
    BY <2>2 DEF Ids
  <2>4. proposal' \in [Ids -> Proposal \cup {None}]
    BY <2>1, <2>2 DEF TypeOK
  <2> QED BY <1>1, <2>3, <2>4 DEF SubmitProposal, TypeOK, admins, powers, rewards
<1>2. ASSUME NEW c \in Holders \cup {Admin}, NEW id \in Ids, CancelProposal(c, id) PROVE TypeOK'
  <2>1. proposal' \in [Ids -> Proposal \cup {None}]
    BY <1>2, StatusKeepsType DEF CancelProposal, Has, TypeOK, Final
  <2> QED BY <1>2, <2>1 DEF CancelProposal, TypeOK, admins, powers, rewards
<1>3. ASSUME NEW h \in Holders, NEW id \in Ids, NEW d \in Directions, RecordVote(h, id, d)
      PROVE  TypeOK'
  BY <1>3, VoteKeepsType
<1>4. ASSUME NEW h \in Holders, NEW id \in Ids, ClaimRewards(h, id) PROVE TypeOK'
  BY <1>4 DEF ClaimRewards, TypeOK, Config, admins, powers
<1> QED BY <1>1, <1>2, <1>3, <1>4 DEF Vote, CastVote, CastDelegatedVote

LEMMA TypeAdvance ==
  ASSUME TypeOK, NEW id \in Ids, Advance(id)
  PROVE  TypeOK'
<1>1. CASE FinalizeProposal(id)
  <2>1. proposal' \in [Ids -> Proposal \cup {None}]
    BY <1>1, StatusKeepsType DEF FinalizeProposal, Has, TypeOK
  <2> QED BY <1>1, <2>1 DEF FinalizeProposal, TypeOK, admins, powers, rewards
<1>2. CASE QueueTimelock(id)
  <2>1. proposal' \in [Ids -> Proposal \cup {None}]
    BY <1>2, StatusKeepsType DEF QueueTimelock, Has, TypeOK
  <2> DEFINE entry == [executeAfter |-> now + EffectiveDelay(proposal[id]), status |-> "Pending"]
  <2>2. entry \in TimelockEntry
    BY DEF TimelockEntry, EffectiveDelay, TypeOK, Config
  <2>3. timelock' = [timelock EXCEPT ![id] = entry]
    BY <1>2 DEF QueueTimelock
  <2> HIDE DEF entry
  <2>4. timelock' \in [Ids -> TimelockEntry \cup {None}]
    BY <2>2, <2>3 DEF TypeOK
  <2> QED BY <1>2, <2>1, <2>4 DEF QueueTimelock, TypeOK, admins, powers, rewards
<1>3. CASE ExecuteProposal(id)
  <2>1. proposal' \in [Ids -> Proposal \cup {None}]
    BY <1>3, StatusKeepsType DEF ExecuteProposal, Has, TypeOK, Final
  <2>2. /\ timelock[id] \in TimelockEntry
        /\ timelock' = [timelock EXCEPT ![id] = [timelock[id] EXCEPT !.status = "Executed"]]
    BY <1>3 DEF ExecuteProposal, TypeOK
  <2>3. [timelock[id] EXCEPT !.status = "Executed"] \in TimelockEntry
    BY <2>2 DEF TimelockEntry
  <2>4. timelock' \in [Ids -> TimelockEntry \cup {None}]
    BY <2>2, <2>3 DEF TypeOK
  <2> QED BY <1>3, <2>1, <2>4 DEF ExecuteProposal, TypeOK, admins, powers, rewards
<1> QED BY <1>1, <1>2, <1>3 DEF Advance

LEMMA TypeStep == TypeOK /\ [Next]_vars => TypeOK'
<1> SUFFICES ASSUME TypeOK, [Next]_vars PROVE TypeOK'
  OBVIOUS
<1>1. CASE UNCHANGED vars
  BY <1>1 DEF vars, admins, powers, rewards, TypeOK
<1>2. CASE Tick
  BY <1>2 DEF Tick, TypeOK, admins, powers, rewards
<1> QED BY <1>1, <1>2, TypeAdminister, TypeHoldPower, TypeVote, TypeAdvance DEF Next

(***************************************************************************)
(* Whatever the calls and their order, initialization included, stored      *)
(* values keep their shape: in particular no holder's power leaves          *)
(* 0..i128::MAX and no vote has a weight of 0.                              *)
(***************************************************************************)
THEOREM TypeCorrect == Spec => []TypeOK
BY TypeInit, TypeStep, PTL DEF Spec

-----------------------------------------------------------------------------
(* The total of voting power *)

(***************************************************************************)
(* PowerAccounted is inductive once two facts are added: power keeps its    *)
(* range, and nobody has any before initialize stores its zero total.       *)
(***************************************************************************)
PowerInv ==
  /\ power \in [Holders -> 0..MaxPower]
  /\ PowerAccounted
  /\ ~initialized => \A h \in Holders : power[h] = 0

LEMMA PowerInit == Init => PowerInv
<1> SUFFICES ASSUME Init PROVE PowerInv
  OBVIOUS
<1>1. power \in [Holders -> 0..MaxPower] /\ \A h \in Holders : power[h] = 0
  BY DEF Init
<1>2. Total(power) = 0
  BY <1>1, TotalZero
<1> QED BY <1>1, <1>2 DEF Init, PowerInv, PowerAccounted

(***************************************************************************)
(* Most calls leave power, its total and the initialization alone.          *)
(***************************************************************************)
LEMMA PowerUntouched ==
  ASSUME PowerInv, UNCHANGED <<power, totalPower>>, initialized => initialized'
  PROVE  PowerInv'
BY DEF PowerInv, PowerAccounted

LEMMA PowerDeposit ==
  ASSUME PowerInv, ~EarlyCalls, NEW h \in Holders, NEW n \in 1..MaxPower,
         DepositVotingPower(h, n)
  PROVE  PowerInv'
<1>1. /\ power[h] \in 0..MaxPower /\ n \in Nat
      /\ power[h] + n <= MaxPower
      /\ power' = [power EXCEPT ![h] = @ + n] /\ totalPower' = totalPower + n
      /\ initialized /\ initialized' = initialized
  BY DEF DepositVotingPower, PowerInv, Open, admins
<1>2. power' \in [Holders -> 0..MaxPower]
  BY <1>1 DEF PowerInv
<1>3. power'[h] = power[h] + n /\ \A x \in Holders \ {h} : power'[x] = power[x]
  BY <1>1 DEF PowerInv
<1>4. power \in [Holders -> Nat] /\ power' \in [Holders -> Nat]
  BY <1>2 DEF PowerInv
<1>5. Total(power') = Total(power) + n
  <2>1. IsFiniteSet(Holders) /\ n \in Nat /\ (\A x \in Holders \ {h} : power'[x] = power[x])
    BY <1>1, <1>3
  <2>2. power'[h] = power[h] + n
    BY <1>1, <1>3
  <2> QED BY ONLY <2>1, <2>2, <1>4, TotalRaise, h \in Holders
<1> QED BY <1>1, <1>2, <1>5 DEF PowerInv, PowerAccounted

LEMMA PowerWithdraw ==
  ASSUME PowerInv, ~EarlyCalls, NEW h \in Holders, NEW n \in 1..MaxPower,
         WithdrawVotingPower(h, n)
  PROVE  PowerInv'
<1>1. /\ power[h] \in 0..MaxPower /\ n \in Nat
      /\ n <= power[h]
      /\ power' = [power EXCEPT ![h] = @ - n] /\ totalPower' = totalPower - n
      /\ initialized /\ initialized' = initialized
  BY DEF WithdrawVotingPower, PowerInv, Open, admins
<1>2. power' \in [Holders -> 0..MaxPower]
  BY <1>1 DEF PowerInv
<1>3. power'[h] = power[h] - n /\ \A x \in Holders \ {h} : power'[x] = power[x]
  BY <1>1 DEF PowerInv
<1>4. power \in [Holders -> Nat] /\ power' \in [Holders -> Nat]
  BY <1>2 DEF PowerInv
<1>5. Total(power') = Total(power) - n
  <2>1. IsFiniteSet(Holders) /\ n \in Nat /\ (\A x \in Holders \ {h} : power'[x] = power[x])
    BY <1>1, <1>3
  <2>2. power'[h] = power[h] - n /\ n <= power[h]
    BY <1>1, <1>3
  <2> QED BY ONLY <2>1, <2>2, <1>4, TotalLower, h \in Holders
<1> QED BY <1>1, <1>2, <1>5 DEF PowerInv, PowerAccounted

LEMMA PowerInitialize ==
  ASSUME PowerInv, Initialize
  PROVE  PowerInv'
<1>1. Total(power) = 0
  <2>1. power \in [Holders -> Nat] /\ \A h \in Holders : power[h] = 0
    BY DEF PowerInv, Initialize
  <2> QED BY <2>1, TotalZero
<1> QED BY <1>1 DEF PowerInv, PowerAccounted, Initialize

LEMMA PowerStep == ~EarlyCalls /\ PowerInv /\ [Next]_vars => PowerInv'
<1> SUFFICES ASSUME ~EarlyCalls, PowerInv, [Next]_vars PROVE PowerInv'
  OBVIOUS
<1>1. CASE UNCHANGED vars
  BY <1>1, PowerUntouched DEF vars, powers, admins
<1>2. CASE Administer
  <2>1. CASE Initialize
    BY <2>1, PowerInitialize
  <2>2. ASSUME NEW c \in Configs, SetConfig(c) PROVE PowerInv'
    BY <2>2, PowerUntouched DEF SetConfig, powers
  <2>3. CASE EmergencyPause \/ EmergencyUnpause
    BY <2>3, PowerUntouched DEF EmergencyPause, EmergencyUnpause, powers
  <2>4. ASSUME NEW id \in Ids, EmergencyExecute(id) PROVE PowerInv'
    BY <2>4, PowerUntouched DEF EmergencyExecute, admins, powers
  <2> QED BY <1>2, <2>1, <2>2, <2>3, <2>4 DEF Administer
<1>3. CASE HoldPower
  <2>1. ASSUME NEW h \in Holders, NEW n \in 1..MaxPower, DepositVotingPower(h, n)
        PROVE  PowerInv'
    BY <2>1, PowerDeposit
  <2>2. ASSUME NEW h \in Holders, NEW n \in 1..MaxPower, WithdrawVotingPower(h, n)
        PROVE  PowerInv'
    BY <2>2, PowerWithdraw
  <2>3. ASSUME NEW h \in Holders, NEW d \in Holders, Delegate(h, d) PROVE PowerInv'
    BY <2>3, PowerUntouched DEF Delegate, admins, powers
  <2>4. ASSUME NEW h \in Holders, RevokeDelegation(h) PROVE PowerInv'
    BY <2>4, PowerUntouched DEF RevokeDelegation, admins, powers
  <2> QED BY <1>3, <2>1, <2>2, <2>3, <2>4 DEF HoldPower
<1>4. CASE Vote
  <2>1. ASSUME NEW h \in Holders, NEW e \in BOOLEAN, SubmitProposal(h, e) PROVE PowerInv'
    BY <2>1, PowerUntouched DEF SubmitProposal, admins, powers
  <2>2. ASSUME NEW c \in Holders \cup {Admin}, NEW id \in Ids, CancelProposal(c, id)
        PROVE  PowerInv'
    BY <2>2, PowerUntouched DEF CancelProposal, admins, powers
  <2>3. ASSUME NEW h \in Holders, NEW id \in Ids, NEW d \in Directions, RecordVote(h, id, d)
        PROVE  PowerInv'
    BY <2>3, PowerUntouched DEF RecordVote, admins, powers
  <2>4. ASSUME NEW h \in Holders, NEW id \in Ids, ClaimRewards(h, id) PROVE PowerInv'
    BY <2>4, PowerUntouched DEF ClaimRewards, admins, powers
  <2> QED BY <1>4, <2>1, <2>2, <2>3, <2>4 DEF Vote, CastVote, CastDelegatedVote
<1>5. ASSUME NEW id \in Ids, Advance(id) PROVE PowerInv'
  BY <1>5, PowerUntouched
  DEF Advance, FinalizeProposal, QueueTimelock, ExecuteProposal, admins, powers
<1>6. CASE Tick
  BY <1>6, PowerUntouched DEF Tick, admins, powers
<1> QED BY <1>1, <1>2, <1>3, <1>4, <1>5, <1>6 DEF Next

(***************************************************************************)
(* When no call comes before initialize, the base of every quorum is always *)
(* exactly what the holders have deposited: deposits, withdrawals and       *)
(* everything else keep TotalVotingPower the sum of the powers.             *)
(***************************************************************************)
THEOREM PowerSum ==
  ASSUME ~EarlyCalls
  PROVE  Spec => []PowerAccounted
<1>1. Init => PowerInv
  BY PowerInit
<1>2. PowerInv /\ [Next]_vars => PowerInv'
  BY PowerStep
<1>3. PowerInv => PowerAccounted
  BY DEF PowerInv
<1> QED BY <1>1, <1>2, <1>3, PTL DEF Spec

-----------------------------------------------------------------------------
(* The two records of a queued proposal *)

(***************************************************************************)
(* What the two records of proposal i are to each other.  TimelockInStep is *)
(* its first two conjuncts for all i; the third, that an id not handed out  *)
(* yet has neither record, makes it inductive: a new proposal finds no      *)
(* entry left under its id.                                                 *)
(***************************************************************************)
EntryDone(i) == timelock[i] # None /\ timelock[i].status = "Executed"
Fresh(i) == ~initialized \/ i >= nextId

InStep(i) ==
  /\ Has(i, "Timelock") => timelock[i] # None /\ timelock[i].status = "Pending"
  /\ EntryDone(i) => Has(i, "Executed")
  /\ Fresh(i) => proposal[i] = None /\ timelock[i] = None

LockInv == TypeOK /\ \A i \in Ids : InStep(i)

LEMMA LockInit == Init => LockInv
<1> SUFFICES ASSUME Init PROVE LockInv
  OBVIOUS
<1>1. \A i \in Ids : proposal[i] = None /\ timelock[i] = None
  BY DEF Init
<1> QED BY <1>1, TypeInit DEF LockInv, InStep, Has, Exists, EntryDone

(* A step that leaves both records of i alone leaves them in step. *)
LEMMA InStepKept ==
  ASSUME NEW i \in Ids, InStep(i), proposal'[i] = proposal[i], timelock'[i] = timelock[i],
         Fresh(i)' => Fresh(i)
  PROVE  InStep(i)'
BY DEF InStep, Has, Exists, EntryDone

LEMMA AllInStepKept ==
  ASSUME \A i \in Ids : InStep(i), UNCHANGED <<proposal, timelock>>,
         \A i \in Ids : Fresh(i)' => Fresh(i)
  PROVE  \A i \in Ids : InStep(i)'
BY InStepKept

(***************************************************************************)
(* A proposal that exists and takes a new status, or a vote, still exists,  *)
(* and no other proposal changes.                                           *)
(***************************************************************************)
LEMMA StatusSet ==
  ASSUME TypeOK, NEW id \in Ids, Exists(id),
         NEW status \in {"Passed", "Defeated", "Timelock"} \cup Final, SetStatus(id, status)
  PROVE  /\ Exists(id)' /\ proposal'[id].status = status
         /\ \A i \in Ids \ {id} : proposal'[i] = proposal[i]
<1>1. /\ proposal \in [Ids -> Proposal \cup {None}] /\ proposal[id] \in Proposal
  BY DEF Exists, TypeOK
<1>2. proposal' = [proposal EXCEPT ![id] = [proposal[id] EXCEPT !.status = status]]
  BY DEF SetStatus
<1>3. /\ [proposal[id] EXCEPT !.status = status] \in Proposal
      /\ [proposal[id] EXCEPT !.status = status].status = status
  BY <1>1 DEF Proposal
<1>4. /\ proposal'[id] = [proposal[id] EXCEPT !.status = status]
      /\ \A i \in Ids \ {id} : proposal'[i] = proposal[i]
  BY <1>1, <1>2
<1> QED BY <1>3, <1>4 DEF Exists

(***************************************************************************)
(* The same at every step that moves one existing proposal to a status that *)
(* is neither queued nor executed, and leaves the timelock alone.           *)
(***************************************************************************)
LEMMA MoveInStep ==
  ASSUME TypeOK, \A i \in Ids : InStep(i), NEW id \in Ids, Exists(id), Exists(id)',
         \A i \in Ids \ {id} : proposal'[i] = proposal[i], timelock' = timelock,
         UNCHANGED <<initialized, nextId>>,
         ~Has(id, "Executed"),
         proposal'[id].status # "Timelock" \/ Has(id, "Timelock")
  PROVE  \A i \in Ids : InStep(i)'
<1>1. ASSUME NEW i \in Ids, i # id PROVE InStep(i)'
  BY <1>1, InStepKept DEF Fresh
<1>2. InStep(id)'
  BY DEF InStep, Has, Exists, EntryDone, Fresh
<1> QED BY <1>1, <1>2

LEMMA LockStep == ~EarlyCalls /\ LockInv /\ [Next]_vars => LockInv'
<1> SUFFICES ASSUME ~EarlyCalls, LockInv, [Next]_vars PROVE \A i \in Ids : InStep(i)'
  BY TypeStep DEF LockInv
<1>0. TypeOK /\ (\A i \in Ids : InStep(i))
  BY DEF LockInv
<1>1. CASE UNCHANGED vars
  BY <1>0, <1>1, AllInStepKept DEF vars, admins, Fresh
<1>2. CASE Administer
  <2>1. CASE Initialize
    BY <1>0, <2>1, AllInStepKept DEF Initialize, Fresh
  <2>2. ASSUME NEW c \in Configs, SetConfig(c) PROVE \A i \in Ids : InStep(i)'
    BY <1>0, <2>2, AllInStepKept DEF SetConfig, Fresh
  <2>3. CASE EmergencyPause \/ EmergencyUnpause
    BY <1>0, <2>3, AllInStepKept DEF EmergencyPause, EmergencyUnpause, Fresh
  <2>4. ASSUME NEW id \in Ids, EmergencyExecute(id) PROVE \A i \in Ids : InStep(i)'
    <3>1. /\ Exists(id) /\ ~Has(id, "Executed") /\ SetStatus(id, "Executed")
          /\ timelock' = timelock /\ UNCHANGED <<initialized, nextId>>
      BY <2>4 DEF EmergencyExecute, Has, Final, admins
    <3>2. /\ Exists(id)' /\ proposal'[id].status = "Executed"
          /\ \A i \in Ids \ {id} : proposal'[i] = proposal[i]
      BY <1>0, <3>1, StatusSet DEF Final
    <3> QED BY <1>0, <3>1, <3>2, MoveInStep
  <2> QED BY <1>2, <2>1, <2>2, <2>3, <2>4 DEF Administer
<1>3. CASE HoldPower
  <2>1. UNCHANGED <<initialized, nextId, proposal, timelock>>
    BY <1>3 DEF HoldPower, DepositVotingPower, WithdrawVotingPower, Delegate, RevokeDelegation,
                admins
  <2> QED BY <1>0, <2>1, AllInStepKept DEF Fresh
<1>4. CASE Vote
  <2>1. ASSUME NEW h \in Holders, NEW e \in BOOLEAN, SubmitProposal(h, e)
        PROVE  \A i \in Ids : InStep(i)'
    <3>1. PICK k \in Ids : k = nextId
      BY <1>0, <2>1 DEF SubmitProposal, TypeOK, Ids
    <3>2. /\ nextId' = k + 1 /\ initialized /\ initialized'
          /\ proposal' = [proposal EXCEPT ![k] = NewProposal(h, e)] /\ timelock' = timelock
      BY <3>1, <2>1 DEF SubmitProposal, Open, admins
    <3>3. proposal'[k] = NewProposal(h, e) /\ timelock'[k] = None
      <4>1. k >= nextId
        BY <3>1 DEF Ids
      <4>2. Fresh(k)
        BY <4>1 DEF Fresh
      <4> QED BY <1>0, <4>2, <3>2 DEF TypeOK, InStep
    <3>4. InStep(k)'
      <4>1. ~Fresh(k)'
        BY <3>2 DEF Fresh, Ids
      <4>2. proposal'[k].status = "Voting"
        BY <3>3 DEF NewProposal
      <4> QED BY <3>3, <4>1, <4>2 DEF InStep, Has, EntryDone
    <3>5. ASSUME NEW i \in Ids, i # k PROVE InStep(i)'
      <4>1. proposal'[i] = proposal[i] /\ timelock'[i] = timelock[i]
        BY <1>0, <3>2, <3>5 DEF TypeOK
      <4>2. Fresh(i)' => Fresh(i)
        BY <3>1, <3>2 DEF Fresh, Ids
      <4> QED BY <1>0, <4>1, <4>2, InStepKept
    <3> QED BY <3>4, <3>5
  <2>2. ASSUME NEW c \in Holders \cup {Admin}, NEW id \in Ids, CancelProposal(c, id)
        PROVE  \A i \in Ids : InStep(i)'
    <3>1. /\ Exists(id) /\ ~Has(id, "Executed") /\ SetStatus(id, "Cancelled")
          /\ timelock' = timelock /\ UNCHANGED <<initialized, nextId>>
      BY <2>2 DEF CancelProposal, Has, admins
    <3>2. /\ Exists(id)' /\ proposal'[id].status = "Cancelled"
          /\ \A i \in Ids \ {id} : proposal'[i] = proposal[i]
      BY <1>0, <3>1, StatusSet DEF Final
    <3> QED BY <1>0, <3>1, <3>2, MoveInStep
  <2>3. ASSUME NEW h \in Holders, NEW id \in Ids, NEW d \in Directions, RecordVote(h, id, d)
        PROVE  \A i \in Ids : InStep(i)'
    <3>1. /\ Exists(id) /\ ~Has(id, "Executed")
          /\ timelock' = timelock /\ UNCHANGED <<initialized, nextId>>
      BY <2>3 DEF RecordVote, Has, admins
    <3>2. /\ Voted(h, id, d) \in Proposal /\ Voted(h, id, d).status = "Voting"
          /\ proposal' = [proposal EXCEPT ![id] = Voted(h, id, d)]
      BY <1>0, <2>3, VoteMakesProposal
    <3>3. /\ Exists(id)' /\ proposal'[id].status = "Voting"
          /\ \A i \in Ids \ {id} : proposal'[i] = proposal[i]
      BY <1>0, <3>2 DEF Exists, TypeOK
    <3> QED BY <1>0, <3>1, <3>3, MoveInStep
  <2>4. ASSUME NEW h \in Holders, NEW id \in Ids, ClaimRewards(h, id)
        PROVE  \A i \in Ids : InStep(i)'
    BY <1>0, <2>4, AllInStepKept DEF ClaimRewards, admins, Fresh
  <2> QED BY <1>4, <2>1, <2>2, <2>3, <2>4 DEF Vote, CastVote, CastDelegatedVote
<1>5. ASSUME NEW id \in Ids, FinalizeProposal(id) PROVE \A i \in Ids : InStep(i)'
  <2>1. PICK status \in {"Passed", "Defeated"} : SetStatus(id, status)
    BY <1>5 DEF FinalizeProposal
  <2>2. /\ Exists(id) /\ ~Has(id, "Executed")
        /\ timelock' = timelock /\ UNCHANGED <<initialized, nextId>>
    BY <1>5 DEF FinalizeProposal, Has, admins
  <2>3. /\ Exists(id)' /\ proposal'[id].status = status
        /\ \A i \in Ids \ {id} : proposal'[i] = proposal[i]
    BY <1>0, <2>1, <2>2, StatusSet
  <2> QED BY <1>0, <2>1, <2>2, <2>3, MoveInStep
<1>6. ASSUME NEW id \in Ids, QueueTimelock(id) PROVE \A i \in Ids : InStep(i)'
  <2>1. /\ Exists(id) /\ SetStatus(id, "Timelock") /\ UNCHANGED <<initialized, nextId>>
    BY <1>6 DEF QueueTimelock, Has, admins
  <2>2. /\ Exists(id)' /\ proposal'[id].status = "Timelock"
        /\ \A i \in Ids \ {id} : proposal'[i] = proposal[i]
    BY <1>0, <2>1, StatusSet
  <2> DEFINE entry == [executeAfter |-> now + EffectiveDelay(proposal[id]), status |-> "Pending"]
  <2>3. entry \in TimelockEntry /\ entry.status = "Pending"
    BY <1>0 DEF TimelockEntry, EffectiveDelay, TypeOK, Config
  <2>4. timelock' = [timelock EXCEPT ![id] = entry]
    BY <1>6 DEF QueueTimelock
  <2> HIDE DEF entry
  <2>5. timelock'[id] = entry /\ \A i \in Ids \ {id} : timelock'[i] = timelock[i]
    BY <1>0, <2>4 DEF TypeOK
  <2>6. InStep(id)'
    BY <1>0, <2>1, <2>2, <2>3, <2>5 DEF InStep, Has, Exists, EntryDone, Fresh
  <2>7. ASSUME NEW i \in Ids, i # id PROVE InStep(i)'
    BY <1>0, <2>1, <2>2, <2>5, <2>7, InStepKept DEF Fresh
  <2> QED BY <2>6, <2>7
<1>7. ASSUME NEW id \in Ids, ExecuteProposal(id) PROVE \A i \in Ids : InStep(i)'
  <2>1. /\ Exists(id) /\ SetStatus(id, "Executed") /\ UNCHANGED <<initialized, nextId>>
    BY <1>7 DEF ExecuteProposal, Has, admins
  <2>2. /\ Exists(id)' /\ proposal'[id].status = "Executed"
        /\ \A i \in Ids \ {id} : proposal'[i] = proposal[i]
    BY <1>0, <2>1, StatusSet DEF Final
  <2>3. \A i \in Ids \ {id} : timelock'[i] = timelock[i]
    BY <1>0, <1>7 DEF ExecuteProposal, TypeOK
  <2>4. InStep(id)'
    BY <1>0, <2>1, <2>2 DEF InStep, Has, Exists, EntryDone, Fresh
  <2>5. ASSUME NEW i \in Ids, i # id PROVE InStep(i)'
    BY <1>0, <2>1, <2>2, <2>3, <2>5, InStepKept DEF Fresh
  <2> QED BY <2>4, <2>5
<1>8. CASE Tick
  BY <1>0, <1>8, AllInStepKept DEF Tick, admins, Fresh
<1> QED BY <1>1, <1>2, <1>3, <1>4, <1>5, <1>6, <1>7, <1>8 DEF Next, Advance

(***************************************************************************)
(* When no call comes before initialize, the proposal and its timelock      *)
(* entry, written by two modules, never disagree: a queued proposal has a   *)
(* pending entry, and an entry is executed only together with its proposal, *)
(* whatever the emergency path, cancellations and new configurations do.    *)
(***************************************************************************)
THEOREM RecordsInStep ==
  ASSUME ~EarlyCalls
  PROVE  Spec => []TimelockInStep
<1>1. Init => LockInv
  BY LockInit
<1>2. LockInv /\ [Next]_vars => LockInv'
  BY LockStep
<1>3. LockInv => TimelockInStep
  BY DEF LockInv, InStep, EntryDone, TimelockInStep
<1> QED BY <1>1, <1>2, <1>3, PTL DEF Spec

-----------------------------------------------------------------------------
(* The promise of ProposalLifecycle *)

(***************************************************************************)
(* What LockInv lacks for the refinement.  Of proposal i: an id not handed  *)
(* out yet has no votes, so a new proposal starts without ballots; a passed *)
(* one is past its voting period, so its timelock starts after that; an     *)
(* entry belongs to a queued or executed proposal, and falls due more than  *)
(* a configured delay after the vote; and it is executed only once due.     *)
(***************************************************************************)
DelayOf(c, p) == IF p.emergency THEN c.emergencyDelay ELSE c.timelockDelay

DelayServed(i) ==
  \E c \in Configs \cup {DefaultConfig} :
    /\ DelayOf(c, proposal[i]) > 0
    /\ timelock[i].executeAfter > proposal[i].votingEnds + DelayOf(c, proposal[i])

Paced(i) ==
  /\ Fresh(i) => \A h \in Holders : vote[<<i, h>>] = None
  /\ Has(i, "Passed") => now > proposal[i].votingEnds
  /\ timelock[i] # None => (Has(i, "Timelock") \/ Has(i, "Executed")) /\ DelayServed(i)
  /\ EntryDone(i) => now >= timelock[i].executeAfter

PaceInv ==
  /\ LockInv
  /\ config \in Configs \cup {DefaultConfig}
  /\ \A i \in Ids : Paced(i)

LEMMA PaceInit == Init => PaceInv
<1> SUFFICES ASSUME Init PROVE PaceInv
  OBVIOUS
<1>1. \A i \in Ids : /\ proposal[i] = None /\ timelock[i] = None
                     /\ \A h \in Holders : vote[<<i, h>>] = None
  BY DEF Init
<1>2. config \in Configs \cup {DefaultConfig}
  BY DEF Init
<1> QED BY <1>1, <1>2, LockInit DEF PaceInv, Paced, Has, Exists, EntryDone

(* A step that leaves the records of i alone leaves it paced, at any later time. *)
LEMMA PacedKept ==
  ASSUME TypeOK, TypeOK', NEW i \in Ids, Paced(i),
         proposal'[i] = proposal[i], timelock'[i] = timelock[i],
         \A h \in Holders : vote'[<<i, h>>] = vote[<<i, h>>],
         now' >= now, Fresh(i)' => Fresh(i)
  PROVE  Paced(i)'
<1>1. now \in Nat /\ now' \in Nat
  BY DEF TypeOK
<1>2. DelayServed(i)' <=> DelayServed(i)
  BY DEF DelayServed
<1>3. /\ Has(i, "Passed") => proposal[i].votingEnds \in Nat
      /\ EntryDone(i) => timelock[i].executeAfter \in Nat
  BY DEF TypeOK, Has, Exists, EntryDone, Proposal, TimelockEntry
<1>4. Has(i, "Passed")' => now' > proposal'[i].votingEnds
  BY <1>1, <1>3 DEF Paced, Has, Exists
<1>5. EntryDone(i)' => now' >= timelock'[i].executeAfter
  BY <1>1, <1>3 DEF Paced, EntryDone
<1>6. Fresh(i)' => \A h \in Holders : vote'[<<i, h>>] = None
  BY DEF Paced
<1>7. timelock'[i] # None => (Has(i, "Timelock")' \/ Has(i, "Executed")') /\ DelayServed(i)'
  BY <1>2 DEF Paced, Has, Exists
<1> QED BY <1>4, <1>5, <1>6, <1>7 DEF Paced

LEMMA AllPacedKept ==
  ASSUME TypeOK, TypeOK', \A i \in Ids : Paced(i), UNCHANGED <<proposal, timelock, vote>>,
         now' >= now, \A i \in Ids : Fresh(i)' => Fresh(i)
  PROVE  \A i \in Ids : Paced(i)'
BY PacedKept

(***************************************************************************)
(* One existing proposal changes, its terms do not, and the timelock is     *)
(* left alone.                                                              *)
(***************************************************************************)
SameTerms(i) ==
  /\ proposal'[i].votingEnds = proposal[i].votingEnds
  /\ proposal'[i].emergency = proposal[i].emergency

LEMMA MovePaced ==
  ASSUME TypeOK, TypeOK', \A i \in Ids : InStep(i) /\ Paced(i),
         NEW id \in Ids, Exists(id), Exists(id)', SameTerms(id),
         \A i \in Ids \ {id} : proposal'[i] = proposal[i],
         \A i \in Ids \ {id} : \A h \in Holders : vote'[<<i, h>>] = vote[<<i, h>>],
         UNCHANGED <<timelock, now, initialized, nextId>>,
         Has(id, "Passed")' => now > proposal[id].votingEnds,
         timelock[id] # None => Has(id, "Executed")'
  PROVE  \A i \in Ids : Paced(i)'
<1>1. ASSUME NEW i \in Ids, i # id PROVE Paced(i)'
  <2>1. proposal'[i] = proposal[i] /\ timelock'[i] = timelock[i] /\ now' >= now
    BY <1>1 DEF TypeOK
  <2>2. \A h \in Holders : vote'[<<i, h>>] = vote[<<i, h>>]
    BY <1>1
  <2> QED BY <2>1, <2>2, PacedKept DEF Fresh
<1>2. Paced(id)'
  <2>1. ~Fresh(id)'
    BY DEF InStep, Exists, Fresh
  <2>2. timelock'[id] # None => DelayServed(id)'
    BY DEF Paced, DelayServed, DelayOf, SameTerms
  <2>3. Has(id, "Passed")' => now' > proposal'[id].votingEnds
    BY DEF SameTerms
  <2>4. EntryDone(id)' => now' >= timelock'[id].executeAfter
    BY DEF Paced, EntryDone
  <2> QED BY <2>1, <2>2, <2>3, <2>4 DEF Paced
<1> QED BY <1>1, <1>2

(* A new status leaves the terms of the proposal. *)
LEMMA StatusKeepsTerms ==
  ASSUME TypeOK, NEW id \in Ids, Exists(id), NEW status, SetStatus(id, status)
  PROVE  SameTerms(id)
<1>1. /\ proposal \in [Ids -> Proposal \cup {None}] /\ proposal[id] \in Proposal
  BY DEF Exists, TypeOK
<1>2. proposal' = [proposal EXCEPT ![id] = [proposal[id] EXCEPT !.status = status]]
  BY DEF SetStatus
<1>3. proposal'[id] = [proposal[id] EXCEPT !.status = status]
  BY <1>1, <1>2
<1> QED BY <1>1, <1>3 DEF SameTerms, Proposal

(* So does a vote. *)
LEMMA VoteKeepsTerms ==
  ASSUME TypeOK, NEW h \in Holders, NEW id \in Ids, NEW d \in Directions, RecordVote(h, id, d)
  PROVE  SameTerms(id)
<1>1. proposal[id] \in Proposal /\ proposal \in [Ids -> Proposal \cup {None}]
  BY DEF RecordVote, Has, Exists, TypeOK
<1>2. proposal'[id] = Voted(h, id, d)
  BY <1>1, VoteMakesProposal
<1> DEFINE q == [proposal[id] EXCEPT !.tally = [proposal[id].tally EXCEPT ![d] = @ + power[h]]]
<1>3. /\ q.votingEnds = proposal[id].votingEnds /\ q.emergency = proposal[id].emergency
      /\ Voted(h, id, d) = [q EXCEPT !.voterCount = proposal[id].voterCount + 1]
      /\ DOMAIN q = DOMAIN proposal[id]
  BY <1>1 DEF Proposal, Voted
<1> HIDE DEF q
<1>4. DOMAIN q = {"proposer", "emergency", "status", "tally", "voterCount", "votingEnds"}
  BY <1>1, <1>3 DEF Proposal
<1>5. /\ Voted(h, id, d).votingEnds = q.votingEnds
      /\ Voted(h, id, d).emergency = q.emergency
  BY <1>3, <1>4
<1> QED BY <1>2, <1>3, <1>5 DEF SameTerms

LEMMA PaceSubmit ==
  ASSUME ~EarlyCalls, PaceInv, TypeOK', NEW h \in Holders, NEW e \in BOOLEAN, SubmitProposal(h, e)
  PROVE  \A i \in Ids : Paced(i)'
<1>0. TypeOK /\ \A i \in Ids : InStep(i) /\ Paced(i)
  BY DEF PaceInv, LockInv
<1>1. PICK k \in Ids : k = nextId
  BY <1>0 DEF SubmitProposal, TypeOK, Ids
<1>2. /\ nextId' = k + 1 /\ initialized /\ initialized' /\ now' = now /\ vote' = vote
      /\ proposal' = [proposal EXCEPT ![k] = NewProposal(h, e)] /\ timelock' = timelock
  BY <1>1 DEF SubmitProposal, Open, admins
<1>3. Fresh(k)
  BY <1>1 DEF Fresh, Ids
<1>4. proposal'[k].status = "Voting" /\ timelock'[k] = None
  <2>1. proposal'[k] = NewProposal(h, e)
    BY <1>0, <1>2 DEF TypeOK
  <2> QED BY <1>0, <1>2, <1>3, <2>1 DEF NewProposal, InStep
<1>5. Paced(k)'
  <2>1. ~Fresh(k)'
    BY <1>2 DEF Fresh, Ids
  <2> QED BY <1>4, <2>1 DEF Paced, Has, EntryDone
<1>6. ASSUME NEW i \in Ids, i # k PROVE Paced(i)'
  <2>1. proposal'[i] = proposal[i] /\ timelock'[i] = timelock[i] /\ now' >= now
    BY <1>0, <1>2, <1>6 DEF TypeOK
  <2>2. Fresh(i)' => Fresh(i)
    BY <1>1, <1>2 DEF Fresh, Ids
  <2>3. \A x \in Holders : vote'[<<i, x>>] = vote[<<i, x>>]
    BY <1>2
  <2> QED BY <1>0, <2>1, <2>2, <2>3, PacedKept
<1> QED BY <1>5, <1>6

LEMMA PaceVote ==
  ASSUME PaceInv, TypeOK', NEW h \in Holders, NEW id \in Ids, NEW d \in Directions,
         RecordVote(h, id, d)
  PROVE  \A i \in Ids : Paced(i)'
<1>0. TypeOK /\ \A i \in Ids : InStep(i) /\ Paced(i)
  BY DEF PaceInv, LockInv
<1>1. /\ Exists(id) /\ Has(id, "Voting") /\ UNCHANGED <<timelock, now, initialized, nextId>>
      /\ vote' = [vote EXCEPT ![<<id, h>>] = [weight |-> power[h], direction |-> d]]
  BY DEF RecordVote, Has, admins
<1>2. \A i \in Ids \ {id} : \A x \in Holders : vote'[<<i, x>>] = vote[<<i, x>>]
  BY <1>0, <1>1 DEF TypeOK
<1>3. /\ Voted(h, id, d) \in Proposal /\ Voted(h, id, d).status = "Voting"
      /\ proposal' = [proposal EXCEPT ![id] = Voted(h, id, d)]
  BY <1>0, VoteMakesProposal
<1>4. /\ Exists(id)' /\ proposal'[id].status = "Voting"
      /\ \A i \in Ids \ {id} : proposal'[i] = proposal[i]
  BY <1>0, <1>3 DEF Exists, TypeOK
<1>5. SameTerms(id)
  BY <1>0, VoteKeepsTerms
<1>6. timelock[id] = None
  BY <1>0, <1>1 DEF Paced, Has
<1>7. ~Has(id, "Passed")'
  BY <1>4 DEF Has
<1> QED BY <1>0, <1>1, <1>2, <1>4, <1>5, <1>6, <1>7, MovePaced

(***************************************************************************)
(* A new status of one existing proposal, the timelock left alone.          *)
(***************************************************************************)
LEMMA PaceStatus ==
  ASSUME PaceInv, TypeOK', NEW id \in Ids, Exists(id),
         NEW status \in {"Passed", "Defeated"} \cup Final, SetStatus(id, status),
         UNCHANGED <<vote, timelock, now, initialized, nextId>>,
         status = "Passed" => now > proposal[id].votingEnds,
         timelock[id] # None => status = "Executed"
  PROVE  \A i \in Ids : Paced(i)'
<1>0. TypeOK /\ \A i \in Ids : InStep(i) /\ Paced(i)
  BY DEF PaceInv, LockInv
<1>1. /\ Exists(id)' /\ proposal'[id].status = status
      /\ \A i \in Ids \ {id} : proposal'[i] = proposal[i]
  BY <1>0, StatusSet
<1>2. SameTerms(id)
  BY <1>0, StatusKeepsTerms
<1>3. Has(id, "Passed")' => now > proposal[id].votingEnds
  BY <1>1 DEF Has
<1>4. timelock[id] # None => Has(id, "Executed")'
  BY <1>1 DEF Has, Exists
<1>5. \A i \in Ids \ {id} : \A h \in Holders : vote'[<<i, h>>] = vote[<<i, h>>]
  OBVIOUS
<1>6. UNCHANGED <<timelock, now, initialized, nextId>>
  OBVIOUS
<1> QED BY ONLY <1>0, <1>1, <1>2, <1>3, <1>4, <1>5, <1>6, MovePaced, Exists(id), TypeOK', id \in Ids

LEMMA PaceQueue ==
  ASSUME PaceInv, TypeOK', NEW id \in Ids, QueueTimelock(id)
  PROVE  \A i \in Ids : Paced(i)'
<1>0. TypeOK /\ \A i \in Ids : InStep(i) /\ Paced(i)
  BY DEF PaceInv, LockInv
<1>1. /\ Exists(id) /\ Has(id, "Passed") /\ SetStatus(id, "Timelock")
      /\ UNCHANGED <<vote, now, initialized, nextId>>
  BY DEF QueueTimelock, Has, admins
<1>2. /\ Exists(id)' /\ proposal'[id].status = "Timelock"
      /\ \A i \in Ids \ {id} : proposal'[i] = proposal[i]
  BY <1>0, <1>1, StatusSet
<1>3. SameTerms(id)
  BY <1>0, <1>1, StatusKeepsTerms
<1> DEFINE delay == EffectiveDelay(proposal[id])
           entry == [executeAfter |-> now + delay, status |-> "Pending"]
<1>4. /\ delay # 0 /\ timelock' = [timelock EXCEPT ![id] = entry]
  BY DEF QueueTimelock
<1>5. delay \in Nat /\ delay = DelayOf(config, proposal[id])
  BY <1>0 DEF EffectiveDelay, DelayOf, TypeOK, Config
<1>5a. now \in Nat /\ proposal[id].votingEnds \in Nat /\ now > proposal[id].votingEnds
  BY <1>0, <1>1 DEF TypeOK, Exists, Proposal, Paced
<1> HIDE DEF delay
<1>6. entry.executeAfter = now + delay /\ entry.status = "Pending"
  OBVIOUS
<1> HIDE DEF entry
<1>7. timelock'[id] = entry /\ \A i \in Ids \ {id} : timelock'[i] = timelock[i]
  BY <1>0, <1>4 DEF TypeOK
<1>8. Paced(id)'
  <2>1. DelayServed(id)'
    <3>1. config \in Configs \cup {DefaultConfig}
      BY DEF PaceInv
    <3>2. DelayOf(config, proposal[id]) = DelayOf(config, proposal'[id])
      BY <1>3 DEF DelayOf, SameTerms
    <3>3. /\ DelayOf(config, proposal'[id]) > 0
          /\ timelock'[id].executeAfter > proposal'[id].votingEnds + DelayOf(config, proposal'[id])
      BY <1>3, <1>4, <1>5, <1>5a, <1>6, <1>7, <3>2 DEF SameTerms
    <3> QED BY <3>1, <3>3 DEF DelayServed
  <2>2. ~EntryDone(id)'
    BY <1>6, <1>7 DEF EntryDone
  <2>3. ~Fresh(id)'
    BY <1>0, <1>1 DEF InStep, Exists, Fresh
  <2> QED BY <1>2, <2>1, <2>2, <2>3 DEF Paced, Has
<1>9. ASSUME NEW i \in Ids, i # id PROVE Paced(i)'
  <2>1. proposal'[i] = proposal[i] /\ timelock'[i] = timelock[i] /\ now' >= now
    BY <1>1, <1>2, <1>5a, <1>7, <1>9
  <2>2. \A h \in Holders : vote'[<<i, h>>] = vote[<<i, h>>]
    BY <1>1
  <2>3. Fresh(i)' => Fresh(i)
    BY <1>1 DEF Fresh
  <2> QED BY <1>0, <2>1, <2>2, <2>3, PacedKept
<1> QED BY <1>8, <1>9

LEMMA PaceExecute ==
  ASSUME PaceInv, TypeOK', NEW id \in Ids, ExecuteProposal(id)
  PROVE  \A i \in Ids : Paced(i)'
<1>0. TypeOK /\ \A i \in Ids : InStep(i) /\ Paced(i)
  BY DEF PaceInv, LockInv
<1>1. /\ Exists(id) /\ SetStatus(id, "Executed") /\ UNCHANGED <<vote, now, initialized, nextId>>
      /\ timelock[id] # None /\ now >= timelock[id].executeAfter
      /\ timelock' = [timelock EXCEPT ![id] = [timelock[id] EXCEPT !.status = "Executed"]]
  BY DEF ExecuteProposal, Has, admins
<1>2. /\ Exists(id)' /\ proposal'[id].status = "Executed"
      /\ \A i \in Ids \ {id} : proposal'[i] = proposal[i]
  BY <1>0, <1>1, StatusSet DEF Final
<1>3. SameTerms(id)
  BY <1>0, <1>1, StatusKeepsTerms
<1>4. /\ timelock'[id].executeAfter = timelock[id].executeAfter
      /\ \A i \in Ids \ {id} : timelock'[i] = timelock[i]
  BY <1>0, <1>1 DEF TypeOK, TimelockEntry
<1>5. Paced(id)'
  <2>1. DelayServed(id)'
    BY <1>0, <1>1, <1>3, <1>4 DEF Paced, DelayServed, DelayOf, SameTerms
  <2>2. ~Fresh(id)'
    BY <1>0, <1>1 DEF InStep, Exists, Fresh
  <2>3. now' >= timelock'[id].executeAfter
    BY <1>1, <1>4
  <2> QED BY <1>2, <2>1, <2>2, <2>3 DEF Paced, Has
<1>6. ASSUME NEW i \in Ids, i # id PROVE Paced(i)'
  <2>1. proposal'[i] = proposal[i] /\ timelock'[i] = timelock[i] /\ now' >= now
    BY <1>0, <1>1, <1>2, <1>4, <1>6 DEF TypeOK
  <2>2. \A h \in Holders : vote'[<<i, h>>] = vote[<<i, h>>]
    BY <1>1
  <2>3. Fresh(i)' => Fresh(i)
    BY <1>1 DEF Fresh
  <2> QED BY <1>0, <2>1, <2>2, <2>3, PacedKept
<1> QED BY <1>5, <1>6

LEMMA PaceConfig ==
  ASSUME config \in Configs \cup {DefaultConfig}, [Next]_vars
  PROVE  config' \in Configs \cup {DefaultConfig}
<1>1. CASE UNCHANGED config
  BY <1>1
<1>2. CASE Administer
  BY <1>2 DEF Administer, Initialize, SetConfig, EmergencyPause, EmergencyUnpause,
              EmergencyExecute, admins
<1>3. CASE HoldPower \/ Vote
  BY <1>3 DEF HoldPower, DepositVotingPower, WithdrawVotingPower, Delegate, RevokeDelegation,
              Vote, SubmitProposal, CancelProposal, CastVote, CastDelegatedVote, RecordVote,
              ClaimRewards, admins
<1>4. ASSUME NEW id \in Ids, Advance(id) PROVE UNCHANGED config
  BY <1>4 DEF Advance, FinalizeProposal, QueueTimelock, ExecuteProposal, admins
<1> QED BY <1>1, <1>2, <1>3, <1>4 DEF Next, Tick, vars, admins

LEMMA PaceStep == ~EarlyCalls /\ PaceInv /\ [Next]_vars => PaceInv'
<1> SUFFICES ASSUME ~EarlyCalls, PaceInv, [Next]_vars PROVE \A i \in Ids : Paced(i)'
  BY LockStep, PaceConfig DEF PaceInv
<1>0. TypeOK /\ TypeOK' /\ (\A i \in Ids : InStep(i) /\ Paced(i)) /\ now \in Nat
  BY TypeStep DEF PaceInv, LockInv, TypeOK
<1>1. CASE UNCHANGED vars
  BY <1>0, <1>1, AllPacedKept DEF vars, admins, Fresh
<1>2. CASE Administer
  <2>1. CASE Initialize
    BY <1>0, <2>1, AllPacedKept DEF Initialize, Fresh
  <2>2. ASSUME NEW c \in Configs, SetConfig(c) PROVE \A i \in Ids : Paced(i)'
    BY <1>0, <2>2, AllPacedKept DEF SetConfig, Fresh
  <2>3. CASE EmergencyPause \/ EmergencyUnpause
    BY <1>0, <2>3, AllPacedKept DEF EmergencyPause, EmergencyUnpause, Fresh
  <2>4. ASSUME NEW id \in Ids, EmergencyExecute(id) PROVE \A i \in Ids : Paced(i)'
    BY <1>0, <2>4, PaceStatus DEF EmergencyExecute, Final, admins
  <2> QED BY <1>2, <2>1, <2>2, <2>3, <2>4 DEF Administer
<1>3. CASE HoldPower
  <2>1. UNCHANGED <<initialized, nextId, proposal, timelock, vote, now>>
    BY <1>3 DEF HoldPower, DepositVotingPower, WithdrawVotingPower, Delegate, RevokeDelegation,
                admins
  <2> QED BY <1>0, <2>1, AllPacedKept DEF Fresh
<1>4. CASE Vote
  <2>1. ASSUME NEW c \in Holders \cup {Admin}, NEW id \in Ids, CancelProposal(c, id)
        PROVE  \A i \in Ids : Paced(i)'
    <3>1. Exists(id) /\ timelock[id] = None
      BY <1>0, <2>1 DEF CancelProposal, Paced, Has
    <3> QED BY <1>0, <2>1, <3>1, PaceStatus DEF CancelProposal, Final, admins
  <2>2. ASSUME NEW h \in Holders, NEW id \in Ids, ClaimRewards(h, id)
        PROVE  \A i \in Ids : Paced(i)'
    BY <1>0, <2>2, AllPacedKept DEF ClaimRewards, admins, Fresh
  <2> QED BY <1>0, <1>4, <2>1, <2>2, PaceSubmit, PaceVote DEF Vote, CastVote, CastDelegatedVote
<1>5. ASSUME NEW id \in Ids, FinalizeProposal(id) PROVE \A i \in Ids : Paced(i)'
  <2>1. PICK status \in {"Passed", "Defeated"} : SetStatus(id, status)
    BY <1>5 DEF FinalizeProposal
  <2>2. Exists(id) /\ now > proposal[id].votingEnds /\ timelock[id] = None
    BY <1>0, <1>5 DEF FinalizeProposal, Paced, Has
  <2> QED BY <1>0, <1>5, <2>1, <2>2, PaceStatus DEF FinalizeProposal, admins
<1>6. CASE Tick
  BY <1>0, <1>6, AllPacedKept DEF Tick, admins, Fresh
<1> QED BY <1>0, <1>1, <1>2, <1>3, <1>4, <1>5, <1>6, PaceQueue, PaceExecute DEF Next, Advance

(***************************************************************************)
(* Proof of the refinement, action by action.  What the abstract clocks     *)
(* see: a step that keeps time, the terms of every proposal and the due     *)
(* dates leaves them alone.                                                 *)
(***************************************************************************)
ClosedIds == {i \in Ids : Exists(i) /\ now > proposal[i].votingEnds}
DueIds == {i \in Ids : timelock[i] # None /\ now >= timelock[i].executeAfter}

LEMMA StageUnlessExecuted ==
  ASSUME NEW i \in Ids, Exists(i), ~Has(i, "Executed")
  PROVE  Stage(i) = proposal[i].status
BY DEF Stage

LEMMA Promised ==
  ASSUME NEW id \in Ids, NEW from, NEW to, Stage(id) \in from, Stage(id)' = to,
         \A i \in Ids \ {id} : proposal'[i] = proposal[i] /\ timelock'[i] = timelock[i],
         UNCHANGED <<vote, ClosedIds, DueIds>>
  PROVE  Promise!Move(id, from, to)
<1>1. \A i \in Ids \ {id} : Stage(i)' = Stage(i)
  BY DEF Stage, Has, Exists
<1>2. [i \in Ids |-> Stage(i)]' = [[i \in Ids |-> Stage(i)] EXCEPT ![id] = to]
  BY <1>1
<1>3. [i \in Ids |-> Stage(i)][id] \in from
  OBVIOUS
<1>4. \A i \in Ids : VotersOf(i)' = VotersOf(i)
  BY DEF VotersOf
<1>5. UNCHANGED [i \in Ids |-> VotersOf(i)]
  BY <1>4
<1> QED BY <1>2, <1>3, <1>5 DEF Promise!Move, ClosedIds, DueIds

LEMMA SameClosed ==
  ASSUME \A i \in Ids : Exists(i)' <=> Exists(i),
         \A i \in Ids : Exists(i) => proposal'[i].votingEnds = proposal[i].votingEnds,
         now' = now
  PROVE  UNCHANGED ClosedIds
BY DEF ClosedIds

LEMMA StatusPromised ==
  ASSUME TypeOK, NEW id \in Ids, Exists(id),
         NEW status \in {"Passed", "Defeated", "Timelock"} \cup Final, SetStatus(id, status),
         NEW from, NEW to, Stage(id) \in from, Stage(id)' = to,
         \A i \in Ids \ {id} : timelock'[i] = timelock[i],
         UNCHANGED <<vote, now, DueIds>>
  PROVE  Promise!Move(id, from, to)
<1>1. Exists(id)' /\ \A i \in Ids \ {id} : proposal'[i] = proposal[i]
  BY StatusSet
<1>2. proposal'[id].votingEnds = proposal[id].votingEnds
  BY StatusKeepsTerms DEF SameTerms
<1>3. /\ \A i \in Ids : Exists(i)' <=> Exists(i)
      /\ \A i \in Ids : Exists(i) => proposal'[i].votingEnds = proposal[i].votingEnds
  BY <1>1, <1>2 DEF Exists
<1>4. UNCHANGED ClosedIds
  BY <1>3, SameClosed
<1> QED BY <1>1, <1>4, Promised

LEMMA StutterPromised ==
  ASSUME UNCHANGED <<proposal, timelock, vote, now>>
  PROVE  UNCHANGED Promise!lifecycleVars
<1>1. \A i \in Ids : Stage(i)' = Stage(i) /\ VotersOf(i)' = VotersOf(i)
  BY DEF Stage, Has, Exists, VotersOf
<1>2. UNCHANGED ClosedIds /\ UNCHANGED DueIds
  BY DEF ClosedIds, DueIds, Exists
<1>3. UNCHANGED [i \in Ids |-> Stage(i)] /\ UNCHANGED [i \in Ids |-> VotersOf(i)]
  BY <1>1
<1> QED BY <1>2, <1>3 DEF Promise!lifecycleVars, ClosedIds, DueIds

LEMMA SubmitPromised ==
  ASSUME ~EarlyCalls, PaceInv, NEW h \in Holders, NEW e \in BOOLEAN, SubmitProposal(h, e)
  PROVE  \E i \in Ids : Promise!Submit(i)
<1>0. TypeOK /\ \A i \in Ids : InStep(i) /\ Paced(i)
  BY DEF PaceInv, LockInv
<1>1. PICK k \in Ids : k = nextId
  BY <1>0 DEF SubmitProposal, TypeOK, Ids
<1>2. /\ now' = now /\ vote' = vote /\ timelock' = timelock
      /\ proposal' = [proposal EXCEPT ![k] = NewProposal(h, e)]
  BY <1>1 DEF SubmitProposal
<1>3. Fresh(k)
  BY <1>1 DEF Fresh, Ids
<1>4. proposal[k] = None /\ timelock[k] = None /\ \A x \in Holders : vote[<<k, x>>] = None
  BY <1>0, <1>3 DEF InStep, Paced
<1>5. /\ proposal'[k] = NewProposal(h, e)
      /\ \A i \in Ids \ {k} : proposal'[i] = proposal[i]
  BY <1>0, <1>2 DEF TypeOK
<1>6. NewProposal(h, e) \in Proposal
  BY <1>0 DEF NewProposal, Proposal, TypeOK, Config
<1>7. Exists(k)' /\ proposal'[k].status = "Voting"
  BY <1>5, <1>6 DEF Exists, NewProposal
<1>8. ~(now' > proposal'[k].votingEnds)
  <2>1. proposal'[k].votingEnds = now + config.votingPeriod
    BY <1>5 DEF NewProposal
  <2>2. now \in Nat /\ config.votingPeriod \in Nat
    BY <1>0 DEF TypeOK, Config
  <2> QED BY <1>2, <2>1, <2>2
<1>9. UNCHANGED ClosedIds
  <2>1. \A i \in Ids \ {k} : i \in ClosedIds' <=> i \in ClosedIds
    BY <1>2, <1>5 DEF ClosedIds, Exists
  <2>2. k \notin ClosedIds /\ k \notin ClosedIds'
    BY <1>4, <1>8 DEF ClosedIds, Exists
  <2> QED BY <2>1, <2>2 DEF ClosedIds
<1>10. UNCHANGED DueIds
  BY <1>2 DEF DueIds
<1>11. Stage(k) \in {"None"} /\ Stage(k)' = "Voting"
  BY <1>4, <1>7 DEF Stage, Has, Exists
<1>12. Promise!Move(k, {"None"}, "Voting")
  BY <1>2, <1>5, <1>9, <1>10, <1>11, Promised
<1>13. VotersOf(k) = {} /\ k \notin ClosedIds
  BY <1>4 DEF VotersOf, ClosedIds, Exists
<1> QED BY <1>12, <1>13 DEF Promise!Submit, ClosedIds

LEMMA VotePromised ==
  ASSUME PaceInv, NEW h \in Holders, NEW id \in Ids, NEW d \in Directions, RecordVote(h, id, d)
  PROVE  Promise!TakeBallot(id, h)
<1>0. TypeOK
  BY DEF PaceInv, LockInv
<1>1. /\ Exists(id) /\ Has(id, "Voting") /\ UNCHANGED <<timelock, now>>
      /\ now <= proposal[id].votingEnds /\ vote[<<id, h>>] = None
      /\ vote' = [vote EXCEPT ![<<id, h>>] = [weight |-> power[h], direction |-> d]]
  BY DEF RecordVote, Has
<1>2. /\ Voted(h, id, d) \in Proposal /\ Voted(h, id, d).status = "Voting"
      /\ proposal' = [proposal EXCEPT ![id] = Voted(h, id, d)]
  BY <1>0, VoteMakesProposal
<1>3. /\ Exists(id)' /\ proposal'[id].status = "Voting"
      /\ \A i \in Ids \ {id} : proposal'[i] = proposal[i]
  BY <1>0, <1>2 DEF Exists, TypeOK
<1>4. proposal'[id].votingEnds = proposal[id].votingEnds
  BY <1>0, VoteKeepsTerms DEF SameTerms
<1>5. UNCHANGED ClosedIds
  <2>1. /\ \A i \in Ids : Exists(i)' <=> Exists(i)
        /\ \A i \in Ids : Exists(i) => proposal'[i].votingEnds = proposal[i].votingEnds
    BY <1>1, <1>3, <1>4 DEF Exists
  <2> QED BY <1>1, <2>1, SameClosed
<1>6. UNCHANGED DueIds
  BY <1>1 DEF DueIds
<1>7. UNCHANGED [i \in Ids |-> Stage(i)]
  <2>1. Stage(id) = "Voting" /\ Stage(id)' = "Voting"
    BY <1>1, <1>3 DEF Stage, Has, Exists
  <2>2. \A i \in Ids \ {id} : Stage(i)' = Stage(i)
    BY <1>1, <1>3 DEF Stage, Has, Exists
  <2> QED BY <2>1, <2>2
<1>8. Stage(id) = "Voting" /\ id \notin ClosedIds
  <2>1. now \in Nat /\ proposal[id].votingEnds \in Nat
    BY <1>0, <1>1 DEF TypeOK, Exists, Proposal
  <2> QED BY <1>1, <2>1 DEF Stage, Has, ClosedIds
<1>9. [i \in Ids |-> VotersOf(i)]'
        = [[i \in Ids |-> VotersOf(i)] EXCEPT ![id] = VotersOf(id) \cup {h}]
  <2>1. [weight |-> power[h], direction |-> d] # None
    <3>1. power[h] \in 1..MaxPower
      BY <1>0 DEF RecordVote, TypeOK
    <3>2. [weight |-> power[h], direction |-> d] \in VoteRecord
      BY <3>1 DEF VoteRecord
    <3> QED BY <3>2
  <2>2. VotersOf(id)' = VotersOf(id) \cup {h}
    BY <1>0, <1>1, <2>1 DEF VotersOf, TypeOK
  <2>3. \A i \in Ids \ {id} : VotersOf(i)' = VotersOf(i)
    BY <1>0, <1>1 DEF VotersOf, TypeOK
  <2> QED BY <2>2, <2>3
<1>10. h \notin VotersOf(id)
  BY <1>1 DEF VotersOf
<1> QED BY <1>5, <1>6, <1>7, <1>8, <1>9, <1>10 DEF Promise!TakeBallot, ClosedIds, DueIds

LEMMA CancelPromised ==
  ASSUME PaceInv, NEW c \in Holders \cup {Admin}, NEW id \in Ids, CancelProposal(c, id)
  PROVE  Promise!Withdrawn(id)
<1>0. TypeOK
  BY DEF PaceInv, LockInv
<1>1. /\ Exists(id) /\ Has(id, "Voting") /\ SetStatus(id, "Cancelled")
      /\ UNCHANGED <<vote, timelock, now>>
  BY DEF CancelProposal, Has
<1>2. Exists(id)' /\ proposal'[id].status = "Cancelled"
  BY <1>0, <1>1, StatusSet DEF Final
<1>3. Stage(id) \in {"Voting"} /\ Stage(id)' = "Cancelled"
  BY <1>1, <1>2 DEF Stage, Has, Exists
<1>4. UNCHANGED DueIds
  BY <1>1 DEF DueIds
<1>5. Promise!Move(id, {"Voting"}, "Cancelled")
  BY <1>0, <1>1, <1>3, <1>4, StatusPromised DEF Final
<1> QED BY <1>5 DEF Promise!Withdrawn

LEMMA FinalizePromised ==
  ASSUME PaceInv, NEW id \in Ids, FinalizeProposal(id)
  PROVE  Promise!Decide(id)
<1>0. TypeOK
  BY DEF PaceInv, LockInv
<1>1. PICK status \in {"Passed", "Defeated"} : SetStatus(id, status)
  BY DEF FinalizeProposal
<1>2. /\ Exists(id) /\ Has(id, "Voting") /\ now > proposal[id].votingEnds
      /\ UNCHANGED <<vote, timelock, now>>
  BY DEF FinalizeProposal, Has
<1>3. Exists(id)' /\ proposal'[id].status = status
  BY <1>0, <1>1, <1>2, StatusSet
<1>4. Stage(id) \in {"Voting"} /\ Stage(id)' = status
  BY <1>1, <1>2, <1>3 DEF Stage, Has, Exists
<1>5. UNCHANGED DueIds
  BY <1>2 DEF DueIds
<1>6. Promise!Move(id, {"Voting"}, status)
  BY <1>0, <1>1, <1>2, <1>4, <1>5, StatusPromised
<1>7. id \in ClosedIds
  BY <1>2 DEF ClosedIds
<1> QED BY <1>1, <1>6, <1>7 DEF Promise!Decide, ClosedIds

LEMMA QueuePromised ==
  ASSUME PaceInv, NEW id \in Ids, QueueTimelock(id)
  PROVE  Promise!Queue(id)
<1>0. TypeOK /\ Paced(id)
  BY DEF PaceInv, LockInv
<1>1. /\ Exists(id) /\ Has(id, "Passed") /\ SetStatus(id, "Timelock") /\ UNCHANGED <<vote, now>>
  BY DEF QueueTimelock, Has
<1>2. Exists(id)' /\ proposal'[id].status = "Timelock"
  BY <1>0, <1>1, StatusSet
<1>3. Stage(id) \in {"Passed"} /\ Stage(id)' = "Timelock"
  BY <1>1, <1>2 DEF Stage, Has, Exists
<1> DEFINE delay == EffectiveDelay(proposal[id])
           entry == [executeAfter |-> now + delay, status |-> "Pending"]
<1>4. delay # 0 /\ timelock' = [timelock EXCEPT ![id] = entry]
  BY DEF QueueTimelock
<1>5. delay \in Nat /\ now \in Nat
  BY <1>0 DEF EffectiveDelay, TypeOK, Config
<1> HIDE DEF delay
<1>6. entry.executeAfter = now + delay
  OBVIOUS
<1> HIDE DEF entry
<1>7. timelock'[id] = entry /\ \A i \in Ids \ {id} : timelock'[i] = timelock[i]
  BY <1>0, <1>4 DEF TypeOK
<1>8. id \notin DueIds /\ id \notin DueIds'
  <2>1. timelock[id] = None
    BY <1>0, <1>1 DEF Paced, Has
  <2>2. ~(now' >= timelock'[id].executeAfter)
    BY <1>1, <1>4, <1>5, <1>6, <1>7
  <2> QED BY <2>1, <2>2 DEF DueIds
<1>9. UNCHANGED DueIds
  <2>1. \A i \in Ids \ {id} : i \in DueIds' <=> i \in DueIds
    BY <1>1, <1>7 DEF DueIds
  <2> QED BY <1>8, <2>1 DEF DueIds
<1>10. Promise!Move(id, {"Passed"}, "Timelock")
  BY <1>0, <1>1, <1>3, <1>7, <1>9, StatusPromised
<1> QED BY <1>8, <1>10 DEF Promise!Queue, DueIds

LEMMA ExecutePromised ==
  ASSUME PaceInv, NEW id \in Ids, ExecuteProposal(id)
  PROVE  Promise!Execute(id)
<1>0. TypeOK
  BY DEF PaceInv, LockInv
<1>1. /\ Exists(id) /\ Has(id, "Timelock") /\ SetStatus(id, "Executed") /\ UNCHANGED <<vote, now>>
      /\ timelock[id] # None /\ now >= timelock[id].executeAfter
      /\ timelock' = [timelock EXCEPT ![id] = [timelock[id] EXCEPT !.status = "Executed"]]
  BY DEF ExecuteProposal, Has
<1>2. Exists(id)' /\ proposal'[id].status = "Executed"
  BY <1>0, <1>1, StatusSet DEF Final
<1>3. /\ timelock[id] \in TimelockEntry
      /\ timelock'[id] = [timelock[id] EXCEPT !.status = "Executed"]
      /\ \A i \in Ids \ {id} : timelock'[i] = timelock[i]
  BY <1>0, <1>1 DEF TypeOK
<1>4. /\ timelock'[id].executeAfter = timelock[id].executeAfter
      /\ timelock'[id].status = "Executed" /\ timelock'[id] # None
  <2>1. timelock'[id] \in TimelockEntry
    BY <1>3 DEF TimelockEntry
  <2> QED BY <1>3, <2>1 DEF TimelockEntry
<1>5. Stage(id) \in {"Timelock"} /\ Stage(id)' = "Executed"
  BY <1>1, <1>2, <1>4 DEF Stage, Has, Exists
<1>6. UNCHANGED DueIds
  <2>1. \A i \in Ids : i \in DueIds' <=> i \in DueIds
    BY <1>1, <1>3, <1>4 DEF DueIds
  <2> QED BY <2>1 DEF DueIds
<1>7. Promise!Move(id, {"Timelock"}, "Executed")
  BY <1>0, <1>1, <1>3, <1>5, <1>6, StatusPromised DEF Final
<1>8. id \in DueIds
  BY <1>1 DEF DueIds
<1> QED BY <1>7, <1>8 DEF Promise!Execute, DueIds

LEMMA OverridePromised ==
  ASSUME PaceInv, NEW id \in Ids, EmergencyExecute(id)
  PROVE  Promise!Override(id)
<1>0. TypeOK /\ InStep(id)
  BY DEF PaceInv, LockInv
<1>1. /\ Exists(id) /\ proposal[id].status \notin Final /\ SetStatus(id, "Executed")
      /\ UNCHANGED <<vote, timelock, now>>
  BY DEF EmergencyExecute
<1>2. Exists(id)' /\ proposal'[id].status = "Executed"
  BY <1>0, <1>1, StatusSet DEF Final
<1>3. timelock[id] = None \/ timelock[id].status = "Pending"
  <2>1. ~EntryDone(id)
    BY <1>0, <1>1 DEF InStep, Has, Final
  <2>2. timelock[id] # None => timelock[id].status \in {"Pending", "Executed"}
    BY <1>0 DEF TypeOK, TimelockEntry
  <2> QED BY <2>1, <2>2 DEF EntryDone
<1>4. Stage(id)' = "Overridden"
  BY <1>1, <1>2, <1>3 DEF Stage, Has, Exists
<1>5. Stage(id) \in {"Voting", "Passed", "Defeated", "Timelock"}
  <2>1. proposal[id].status \in {"Voting", "Passed", "Defeated", "Timelock"}
    BY <1>0, <1>1 DEF TypeOK, Exists, Proposal
  <2> QED BY <1>1, <2>1 DEF Stage, Has, Final
<1>6. UNCHANGED DueIds
  BY <1>1 DEF DueIds
<1>7. Promise!Move(id, {"Voting", "Passed", "Defeated", "Timelock"}, "Overridden")
  BY <1>0, <1>1, <1>4, <1>5, <1>6, StatusPromised DEF Final
<1> QED BY <1>7 DEF Promise!Override

LEMMA TickPromised ==
  ASSUME PaceInv, Tick
  PROVE  Promise!Elapse
<1>0. TypeOK /\ \A i \in Ids : InStep(i) /\ Paced(i)
  BY DEF PaceInv, LockInv
<1>1. now \in Nat /\ now' = now + 1 /\ UNCHANGED <<proposal, vote, timelock>>
  BY <1>0 DEF Tick, TypeOK
<1>2. ClosedIds \subseteq ClosedIds'
  <2>1. \A i \in Ids : Exists(i) => proposal[i].votingEnds \in Nat
    BY <1>0 DEF TypeOK, Exists, Proposal
  <2> QED BY <1>1, <2>1 DEF ClosedIds, Exists
<1>3. DueIds \subseteq DueIds'
  <2>1. \A i \in Ids : timelock[i] # None => timelock[i].executeAfter \in Nat
    BY <1>0 DEF TypeOK, TimelockEntry
  <2> QED BY <1>1, <2>1 DEF DueIds
<1>4. \A i \in DueIds' : Stage(i) \notin {"None", "Voting", "Passed"}
  <2>1. SUFFICES ASSUME NEW i \in Ids, timelock[i] # None
                 PROVE  Stage(i) \notin {"None", "Voting", "Passed"}
    BY <1>1 DEF DueIds
  <2>2. Exists(i) /\ proposal[i].status \in {"Timelock", "Executed"}
    BY <1>0, <2>1 DEF Paced, Has
  <2> QED BY <2>2 DEF Stage
<1>5. UNCHANGED [i \in Ids |-> Stage(i)] /\ UNCHANGED [i \in Ids |-> VotersOf(i)]
  BY <1>1 DEF Stage, Has, Exists, VotersOf
<1>6. \A i \in Ids : [j \in Ids |-> Stage(j)][i] = Stage(i)
  OBVIOUS
<1>7. \A i \in DueIds' \ DueIds : [j \in Ids |-> Stage(j)][i] \notin {"None", "Voting", "Passed"}
  BY <1>4, <1>6 DEF DueIds
<1> QED BY <1>2, <1>3, <1>5, <1>7 DEF Promise!Elapse, ClosedIds, DueIds

LEMMA PromiseInit == Init => Promise!Begin
<1> SUFFICES ASSUME Init PROVE Promise!Begin
  OBVIOUS
<1>1. \A i \in Ids : Stage(i) = "None" /\ VotersOf(i) = {}
  BY DEF Init, Stage, Exists, VotersOf
<1>2. ClosedIds = {} /\ DueIds = {}
  BY DEF Init, ClosedIds, DueIds, Exists
<1> QED BY <1>1, <1>2 DEF Promise!Begin, ClosedIds, DueIds

LEMMA PromiseStep ==
  ~EarlyCalls /\ PaceInv /\ [Next]_vars => [Promise!LifecycleNext]_(Promise!lifecycleVars)
<1> SUFFICES ASSUME ~EarlyCalls, PaceInv, [Next]_vars
             PROVE  Promise!LifecycleNext \/ UNCHANGED Promise!lifecycleVars
  OBVIOUS
<1>1. CASE UNCHANGED vars
  BY <1>1, StutterPromised DEF vars
<1>2. CASE Administer
  <2>1. ASSUME NEW id \in Ids, EmergencyExecute(id) PROVE Promise!LifecycleNext
    BY <2>1, OverridePromised DEF Promise!LifecycleNext
  <2>2. CASE Initialize \/ (\E c \in Configs : SetConfig(c)) \/ EmergencyPause \/ EmergencyUnpause
    BY <2>2, StutterPromised DEF Initialize, SetConfig, EmergencyPause, EmergencyUnpause
  <2> QED BY <1>2, <2>1, <2>2 DEF Administer
<1>3. CASE HoldPower
  BY <1>3, StutterPromised
  DEF HoldPower, DepositVotingPower, WithdrawVotingPower, Delegate, RevokeDelegation
<1>4. CASE Vote
  <2>1. ASSUME NEW h \in Holders, NEW e \in BOOLEAN, SubmitProposal(h, e)
        PROVE  Promise!LifecycleNext
    BY <2>1, SubmitPromised DEF Promise!LifecycleNext
  <2>2. ASSUME NEW c \in Holders \cup {Admin}, NEW id \in Ids, CancelProposal(c, id)
        PROVE  Promise!LifecycleNext
    BY <2>2, CancelPromised DEF Promise!LifecycleNext
  <2>3. ASSUME NEW h \in Holders, NEW id \in Ids, NEW d \in Directions, RecordVote(h, id, d)
        PROVE  Promise!LifecycleNext
    BY <2>3, VotePromised DEF Promise!LifecycleNext
  <2>4. ASSUME NEW h \in Holders, NEW id \in Ids, ClaimRewards(h, id)
        PROVE  UNCHANGED Promise!lifecycleVars
    BY <2>4, StutterPromised DEF ClaimRewards
  <2> QED BY <1>4, <2>1, <2>2, <2>3, <2>4 DEF Vote, CastVote, CastDelegatedVote
<1>5. ASSUME NEW id \in Ids, Advance(id) PROVE Promise!LifecycleNext
  BY <1>5, FinalizePromised, QueuePromised, ExecutePromised DEF Advance, Promise!LifecycleNext
<1>6. CASE Tick
  BY <1>6, TickPromised DEF Promise!LifecycleNext
<1> QED BY <1>1, <1>2, <1>3, <1>4, <1>5, <1>6 DEF Next

LEMMA PaceDelays == PaceInv => ExecutionDelayed
<1> SUFFICES ASSUME PaceInv, NEW id \in Ids, EntryDone(id)
             PROVE  \E c \in Configs \cup {DefaultConfig} :
                      DelayOf(c, proposal[id]) > 0
                        /\ now > proposal[id].votingEnds + DelayOf(c, proposal[id])
  BY DEF ExecutionDelayed, EntryDone, DelayOf
<1>1. TypeOK /\ Paced(id) /\ Exists(id) /\ timelock[id] # None
  BY DEF PaceInv, LockInv, InStep, Has, EntryDone
<1>2. PICK c \in Configs \cup {DefaultConfig} :
        /\ DelayOf(c, proposal[id]) > 0
        /\ timelock[id].executeAfter > proposal[id].votingEnds + DelayOf(c, proposal[id])
  BY <1>1 DEF Paced, DelayServed
<1>3. now >= timelock[id].executeAfter
  BY <1>1 DEF Paced
<1>4. now \in Nat /\ timelock[id].executeAfter \in Nat
  BY <1>1 DEF TypeOK, TimelockEntry
<1>5. proposal[id].votingEnds \in Nat
  BY <1>1 DEF TypeOK, Exists, Proposal
<1>6. DelayOf(c, proposal[id]) \in Nat
  <2>1. c \in Config
    OBVIOUS
  <2> QED BY <2>1 DEF DelayOf, Config
<1> QED BY <1>2, <1>3, <1>4, <1>5, <1>6

(***************************************************************************)
(* When no call comes before initialize, the contract implements the        *)
(* lifecycle it promises: it starts where the lifecycle begins, and every   *)
(* call and every ledger close is one of its moves or none of its business. *)
(* No ballot is taken twice or late, no proposal is decided early or twice, *)
(* and the timelock never executes before a configured delay has run out    *)
(* after the vote, whatever the admin does to the configuration meanwhile.  *)
(***************************************************************************)
THEOREM LifecycleKept ==
  ASSUME ~EarlyCalls
  PROVE  Spec => KeepsPromise
<1>1. Init => PaceInv /\ Promise!Begin
  BY PaceInit, PromiseInit
<1>2. PaceInv /\ [Next]_vars => PaceInv'
  BY PaceStep
<1>3. PaceInv /\ [Next]_vars => [Promise!LifecycleNext]_(Promise!lifecycleVars)
  BY PromiseStep
<1>4. PaceInv => ExecutionDelayed
  BY PaceDelays
<1> QED BY <1>1, <1>2, <1>3, <1>4, PTL DEF Spec, KeepsPromise, Promise!Lifecycle

-----------------------------------------------------------------------------
(* Tallies *)

(***************************************************************************)
(* TallyMatchesVotes, proposal by proposal.  It is inductive beside PaceInv, *)
(* whose first part is needed here too: a new proposal starts with empty    *)
(* tallies, so there must be no vote under its id.                          *)
(***************************************************************************)
Ballots(i, d) ==
  [h \in Holders |-> IF h \in VotersOf(i) /\ vote[<<i, h>>].direction = d
                     THEN vote[<<i, h>>].weight ELSE 0]

Counted(i) ==
  Exists(i) => /\ \A d \in Directions : proposal[i].tally[d] = Total(Ballots(i, d))
               /\ proposal[i].voterCount = Cardinality(VotersOf(i))

CountInv == PaceInv /\ \A i \in Ids : Counted(i)

LEMMA CountInit == Init => CountInv
<1> SUFFICES ASSUME Init PROVE CountInv
  OBVIOUS
<1>1. \A i \in Ids : ~Exists(i)
  BY DEF Init, Exists
<1> QED BY <1>1, PaceInit DEF CountInv, Counted

LEMMA BallotsType ==
  ASSUME TypeOK, NEW i \in Ids, NEW d \in Directions
  PROVE  Ballots(i, d) \in [Holders -> Nat]
<1> SUFFICES ASSUME NEW h \in Holders, h \in VotersOf(i) PROVE vote[<<i, h>>].weight \in Nat
  BY DEF Ballots
<1>1. vote[<<i, h>>] \in VoteRecord
  BY DEF TypeOK, VotersOf
<1> QED BY <1>1 DEF VoteRecord

SameTally(i) ==
  /\ Exists(i)' <=> Exists(i)
  /\ Exists(i) => /\ proposal'[i].tally = proposal[i].tally
                  /\ proposal'[i].voterCount = proposal[i].voterCount

(* A proposal whose votes and tallies stay is still counted. *)
LEMMA CountedKept ==
  ASSUME NEW i \in Ids, Counted(i), SameTally(i),
         \A h \in Holders : vote'[<<i, h>>] = vote[<<i, h>>]
  PROVE  Counted(i)'
<1>1. VotersOf(i)' = VotersOf(i)
  BY DEF VotersOf
<1>2. \A d \in Directions : Ballots(i, d)' = Ballots(i, d)
  BY <1>1 DEF Ballots
<1> QED BY <1>1, <1>2 DEF Counted, SameTally

LEMMA AllCountedKept ==
  ASSUME \A i \in Ids : Counted(i), UNCHANGED <<proposal, vote>>
  PROVE  \A i \in Ids : Counted(i)'
BY CountedKept DEF SameTally, Exists

LEMMA StatusCounted ==
  ASSUME TypeOK, \A i \in Ids : Counted(i), NEW id \in Ids, Exists(id),
         NEW status \in {"Passed", "Defeated", "Timelock"} \cup Final, SetStatus(id, status),
         vote' = vote
  PROVE  \A i \in Ids : Counted(i)'
<1>1. /\ proposal \in [Ids -> Proposal \cup {None}] /\ proposal[id] \in Proposal
  BY DEF Exists, TypeOK
<1>2. proposal' = [proposal EXCEPT ![id] = [proposal[id] EXCEPT !.status = status]]
  BY DEF SetStatus
<1>3. proposal'[id] = [proposal[id] EXCEPT !.status = status]
  BY <1>1, <1>2
<1>4. Exists(id)' /\ \A i \in Ids \ {id} : proposal'[i] = proposal[i]
  BY StatusSet
<1>5. SameTally(id)
  BY <1>1, <1>3, <1>4 DEF SameTally, Proposal
<1>6. \A i \in Ids : SameTally(i)
  BY <1>4, <1>5 DEF SameTally, Exists
<1> QED BY <1>6, CountedKept

LEMMA SubmitCounted ==
  ASSUME ~EarlyCalls, CountInv, NEW h \in Holders, NEW e \in BOOLEAN, SubmitProposal(h, e)
  PROVE  \A i \in Ids : Counted(i)'
<1>0. TypeOK /\ \A i \in Ids : InStep(i) /\ Paced(i) /\ Counted(i)
  BY DEF CountInv, PaceInv, LockInv
<1>1. PICK k \in Ids : k = nextId
  BY <1>0 DEF SubmitProposal, TypeOK, Ids
<1>2. vote' = vote /\ proposal' = [proposal EXCEPT ![k] = NewProposal(h, e)]
  BY <1>1 DEF SubmitProposal
<1>3. Fresh(k)
  BY <1>1 DEF Fresh, Ids
<1>4. \A x \in Holders : vote'[<<k, x>>] = None
  BY <1>0, <1>2, <1>3 DEF Paced
<1>5. VotersOf(k)' = {} /\ Cardinality({}) = 0
  BY <1>4, FS_EmptySet DEF VotersOf
<1>6. ASSUME NEW d \in Directions PROVE Total(Ballots(k, d)') = 0
  <2>1. Ballots(k, d)' = [x \in Holders |-> 0]
    BY <1>5 DEF Ballots
  <2>2. [x \in Holders |-> 0] \in [Holders -> Nat] /\ \A x \in Holders : [y \in Holders |-> 0][x] = 0
    OBVIOUS
  <2>3. Total([x \in Holders |-> 0]) = 0
    BY <2>2, TotalZero
  <2> QED BY <2>1, <2>3
<1>7. /\ proposal'[k] = NewProposal(h, e)
      /\ \A i \in Ids \ {k} : proposal'[i] = proposal[i]
  BY <1>0, <1>2 DEF TypeOK
<1>8. Counted(k)'
  BY <1>5, <1>6, <1>7 DEF Counted, NewProposal
<1>9. ASSUME NEW i \in Ids, i # k PROVE Counted(i)'
  <2>1. SameTally(i)
    BY <1>7, <1>9 DEF SameTally, Exists
  <2> QED BY <1>0, <1>2, <2>1, CountedKept
<1> QED BY <1>8, <1>9

(***************************************************************************)
(* The heart of the matter: the voter's entry goes from 0 to the power it   *)
(* holds, in the vote's direction only, and the tally grows by as much.     *)
(***************************************************************************)
LEMMA VoteCounted ==
  ASSUME CountInv, TypeOK', NEW h \in Holders, NEW id \in Ids, NEW d \in Directions,
         RecordVote(h, id, d)
  PROVE  \A i \in Ids : Counted(i)'
<1>0. TypeOK /\ \A i \in Ids : Counted(i)
  BY DEF CountInv, PaceInv, LockInv
<1> DEFINE record == [weight |-> power[h], direction |-> d]
<1>1. /\ Exists(id) /\ vote[<<id, h>>] = None
      /\ power[h] \in Nat /\ record.weight = power[h] /\ record.direction = d
      /\ record \in VoteRecord
  <2>1. power[h] \in 1..MaxPower
    BY <1>0 DEF RecordVote, TypeOK
  <2> QED BY <2>1 DEF RecordVote, Has, VoteRecord
<1>2. vote' = [vote EXCEPT ![<<id, h>>] = record]
  BY DEF RecordVote
<1> HIDE DEF record
<1>3. /\ vote'[<<id, h>>] = record /\ record # None
      /\ \A x \in Holders \ {h} : vote'[<<id, x>>] = vote[<<id, x>>]
      /\ \A i \in Ids \ {id} : \A x \in Holders : vote'[<<i, x>>] = vote[<<i, x>>]
  BY <1>0, <1>1, <1>2 DEF TypeOK
<1>4. proposal' = [proposal EXCEPT ![id] = Voted(h, id, d)]
  BY <1>0, VoteMakesProposal
<1>5. /\ Exists(id)' /\ proposal'[id] = Voted(h, id, d)
      /\ \A i \in Ids \ {id} : proposal'[i] = proposal[i]
  BY <1>0, <1>4, VoteMakesProposal DEF Exists, TypeOK
<1>6. ASSUME NEW i \in Ids, i # id PROVE Counted(i)'
  <2>1. SameTally(i)
    BY <1>5, <1>6 DEF SameTally, Exists
  <2> QED BY <1>0, <1>3, <1>6, <2>1, CountedKept
<1>7. VotersOf(id)' = VotersOf(id) \cup {h} /\ h \notin VotersOf(id)
  BY <1>1, <1>3 DEF VotersOf
<1>8. Cardinality(VotersOf(id))' = Cardinality(VotersOf(id)) + 1
  <2>1. IsFiniteSet(VotersOf(id))
    BY FS_Subset DEF VotersOf
  <2> QED BY <1>7, <2>1, FS_AddElement
<1>9. ASSUME NEW x \in Directions
      PROVE  Total(Ballots(id, x)') = Total(Ballots(id, x)) + (IF x = d THEN power[h] ELSE 0)
  <2>1. Ballots(id, x) \in [Holders -> Nat]
    BY <1>0, BallotsType
  <2>2. Ballots(id, x)' \in [Holders -> Nat]
    <3>1. ASSUME NEW y \in Holders, y \in VotersOf(id)' PROVE vote'[<<id, y>>].weight \in Nat
      <4>1. vote'[<<id, y>>] \in VoteRecord
        BY <3>1 DEF TypeOK, VotersOf
      <4> QED BY <4>1 DEF VoteRecord
    <3> QED BY <3>1 DEF Ballots
  <2>3. Ballots(id, x)[h] = 0
    BY <1>7 DEF Ballots
  <2>4. Ballots(id, x)'[h] = IF x = d THEN power[h] ELSE 0
    BY <1>1, <1>3, <1>7 DEF Ballots
  <2>5. \A y \in Holders \ {h} : Ballots(id, x)'[y] = Ballots(id, x)[y]
    BY <1>3, <1>7 DEF Ballots
  <2> DEFINE gain == IF x = d THEN power[h] ELSE 0
             f == Ballots(id, x)
             g == Ballots(id, x)'
  <2>6. gain \in Nat /\ g[h] = f[h] + gain
    BY <1>1, <2>3, <2>4
  <2> HIDE DEF gain, f, g
  <2>7. f \in [Holders -> Nat] /\ g \in [Holders -> Nat] /\ \A y \in Holders \ {h} : g[y] = f[y]
    BY <2>1, <2>2, <2>5 DEF f, g
  <2>8. Total(g) = Total(f) + gain
    BY <2>6, <2>7, TotalRaise
  <2> QED BY <2>8 DEF f, g, gain
<1>10. Counted(id)'
  <2>1. /\ proposal[id] \in Proposal
    BY <1>0, <1>1 DEF Exists, TypeOK
  <2>2. /\ Voted(h, id, d).voterCount = proposal[id].voterCount + 1
        /\ \A x \in Directions : Voted(h, id, d).tally[x]
             = proposal[id].tally[x] + (IF x = d THEN power[h] ELSE 0)
    <3> DEFINE tally == [proposal[id].tally EXCEPT ![d] = @ + power[h]]
               q == [proposal[id] EXCEPT !.tally = tally]
    <3>1. \A x \in Directions : tally[x] = proposal[id].tally[x] + (IF x = d THEN power[h] ELSE 0)
      BY <1>1, <2>1 DEF Proposal
    <3>2. tally \in [Directions -> Nat]
      BY <1>1, <2>1 DEF Proposal
    <3>3. Voted(h, id, d) = [q EXCEPT !.voterCount = proposal[id].voterCount + 1]
      BY DEF Voted
    <3> HIDE DEF tally
    <3>4. q \in Proposal /\ q.tally = tally
      BY <2>1, <3>2 DEF Proposal
    <3> HIDE DEF q
    <3>5. /\ Voted(h, id, d).voterCount = proposal[id].voterCount + 1
          /\ Voted(h, id, d).tally = q.tally
      BY <3>3, <3>4 DEF Proposal
    <3> QED BY <3>1, <3>4, <3>5
  <2>3. \A x \in Directions : proposal'[id].tally[x] = Total(Ballots(id, x)')
    BY <1>0, <1>1, <1>5, <1>9, <2>2 DEF Counted
  <2>4. proposal'[id].voterCount = Cardinality(VotersOf(id))'
    BY <1>0, <1>1, <1>5, <1>8, <2>2 DEF Counted
  <2> QED BY <2>3, <2>4 DEF Counted
<1> QED BY <1>6, <1>10

LEMMA CountStep == ~EarlyCalls /\ CountInv /\ [Next]_vars => CountInv'
<1> SUFFICES ASSUME ~EarlyCalls, CountInv, [Next]_vars PROVE \A i \in Ids : Counted(i)'
  BY PaceStep DEF CountInv
<1>0. TypeOK /\ TypeOK' /\ \A i \in Ids : Counted(i)
  BY TypeStep DEF CountInv, PaceInv, LockInv
<1>1. CASE UNCHANGED vars
  BY <1>0, <1>1, AllCountedKept DEF vars
<1>2. CASE Administer
  <2>1. ASSUME NEW id \in Ids, EmergencyExecute(id) PROVE \A i \in Ids : Counted(i)'
    BY <1>0, <2>1, StatusCounted DEF EmergencyExecute, Final
  <2>2. CASE Initialize \/ (\E c \in Configs : SetConfig(c)) \/ EmergencyPause \/ EmergencyUnpause
    BY <1>0, <2>2, AllCountedKept DEF Initialize, SetConfig, EmergencyPause, EmergencyUnpause
  <2> QED BY <1>2, <2>1, <2>2 DEF Administer
<1>3. CASE HoldPower
  BY <1>0, <1>3, AllCountedKept
  DEF HoldPower, DepositVotingPower, WithdrawVotingPower, Delegate, RevokeDelegation
<1>4. CASE Vote
  <2>1. ASSUME NEW c \in Holders \cup {Admin}, NEW id \in Ids, CancelProposal(c, id)
        PROVE  \A i \in Ids : Counted(i)'
    BY <1>0, <2>1, StatusCounted DEF CancelProposal, Has, Final
  <2>2. ASSUME NEW h \in Holders, NEW id \in Ids, ClaimRewards(h, id)
        PROVE  \A i \in Ids : Counted(i)'
    BY <1>0, <2>2, AllCountedKept DEF ClaimRewards
  <2> QED BY <1>0, <1>4, <2>1, <2>2, SubmitCounted, VoteCounted DEF Vote, CastVote, CastDelegatedVote
<1>5. ASSUME NEW id \in Ids, Advance(id) PROVE \A i \in Ids : Counted(i)'
  <2>1. PICK status \in {"Passed", "Defeated", "Timelock"} \cup Final : SetStatus(id, status)
    BY <1>5 DEF Advance, FinalizeProposal, QueueTimelock, ExecuteProposal, Final
  <2>2. Exists(id) /\ vote' = vote
    BY <1>5 DEF Advance, FinalizeProposal, QueueTimelock, ExecuteProposal, Has
  <2> QED BY <1>0, <2>1, <2>2, StatusCounted
<1>6. CASE Tick
  BY <1>0, <1>6, AllCountedKept DEF Tick
<1> QED BY <1>1, <1>2, <1>3, <1>4, <1>5, <1>6 DEF Next

(***************************************************************************)
(* When no call comes before initialize, every proposal's tallies are the   *)
(* sums of the weights in its vote records, and its voter count is their    *)
(* number: no order of votes, delegated votes, deposits, withdrawals and    *)
(* revoked delegations counts a holder twice or forgets one.                *)
(***************************************************************************)
THEOREM TalliesTrue ==
  ASSUME ~EarlyCalls
  PROVE  Spec => []TallyMatchesVotes
<1>1. Init => CountInv
  BY CountInit
<1>2. CountInv /\ [Next]_vars => CountInv'
  BY CountStep
<1>3. CountInv => TallyMatchesVotes
  BY DEF CountInv, Counted, Ballots, TallyMatchesVotes, WeightCast
<1> QED BY <1>1, <1>2, <1>3, PTL DEF Spec

-----------------------------------------------------------------------------
(* Rewards *)

(***************************************************************************)
(* RewardsPaidOnce is inductive with TypeOK and the range of the            *)
(* configuration: every claim adds one pair to the set and one rate to the  *)
(* total, and no step takes a vote away.                                    *)
(***************************************************************************)
RewardInv ==
  /\ TypeOK
  /\ config \in Configs \cup {DefaultConfig}
  /\ RewardsPaidOnce

LEMMA ClaimsFinite ==
  ASSUME TypeOK
  PROVE  IsFiniteSet(claimed) /\ Cardinality(claimed) \in Nat
<1>1. 1 \in Int /\ MaxProposals \in Int
  OBVIOUS
<1>2. IsFiniteSet(Ids)
  BY <1>1, FS_Interval DEF Ids
<1>3. IsFiniteSet(Ids \X Holders)
  BY <1>2, FS_Product
<1>4. IsFiniteSet(claimed)
  BY <1>3, FS_Subset DEF TypeOK
<1> QED BY <1>4, FS_CardinalityType

LEMMA RewardInit == Init => RewardInv
<1> SUFFICES ASSUME Init PROVE RewardInv
  OBVIOUS
<1>1. claimed = {} /\ totalRewards = 0 /\ Cardinality({}) = 0
  BY FS_EmptySet DEF Init
<1>2. DefaultConfig.reward * 0 = 0
  BY DEF Config
<1>3. config \in Configs \cup {DefaultConfig}
  BY DEF Init
<1> QED BY <1>1, <1>2, <1>3, TypeInit DEF RewardInv, RewardsPaidOnce

LEMMA RewardClaimed ==
  ASSUME RewardInv, NEW h \in Holders, NEW id \in Ids, ClaimRewards(h, id)
  PROVE  RewardsPaidOnce'
<1>0. TypeOK /\ RewardsPaidOnce
  BY DEF RewardInv
<1>1. /\ claimed' = claimed \cup {<<id, h>>} /\ <<id, h>> \notin claimed
      /\ totalRewards' = totalRewards + config.reward
      /\ vote[<<id, h>>] # None /\ vote' = vote
  BY DEF ClaimRewards
<1>2. \A k \in claimed' : vote'[k] # None
  BY <1>0, <1>1 DEF RewardsPaidOnce
<1>3. Cardinality(claimed') = Cardinality(claimed) + 1 /\ Cardinality(claimed) \in Nat
  BY <1>0, <1>1, ClaimsFinite, FS_AddElement
<1>4. ASSUME \A c \in Configs : c.reward = DefaultConfig.reward
      PROVE  totalRewards' = DefaultConfig.reward * Cardinality(claimed')
  <2>1. totalRewards = DefaultConfig.reward * Cardinality(claimed)
    BY <1>0, <1>4 DEF RewardsPaidOnce
  <2>2. config.reward = DefaultConfig.reward /\ DefaultConfig.reward \in Int
    BY <1>4 DEF RewardInv, Config
  <2>3. \A r \in Int, n \in Nat : r * (n + 1) = r * n + r
    OBVIOUS
  <2> QED BY <1>1, <1>3, <2>1, <2>2, <2>3
<1> QED BY <1>2, <1>4 DEF RewardsPaidOnce

LEMMA RewardUntouched ==
  ASSUME RewardInv, UNCHANGED rewards, \A k \in claimed : vote[k] # None => vote'[k] # None
  PROVE  RewardsPaidOnce'
BY DEF RewardInv, RewardsPaidOnce, rewards

LEMMA RewardStep == RewardInv /\ [Next]_vars => RewardInv'
<1> SUFFICES ASSUME RewardInv, [Next]_vars PROVE RewardsPaidOnce'
  BY TypeStep, PaceConfig DEF RewardInv
<1>1. CASE UNCHANGED vars
  BY <1>1, RewardUntouched DEF vars
<1>2. CASE Administer
  BY <1>2, RewardUntouched
  DEF Administer, Initialize, SetConfig, EmergencyPause, EmergencyUnpause, EmergencyExecute
<1>3. CASE HoldPower
  BY <1>3, RewardUntouched
  DEF HoldPower, DepositVotingPower, WithdrawVotingPower, Delegate, RevokeDelegation
<1>4. CASE Vote
  <2>1. ASSUME NEW h \in Holders, NEW id \in Ids, NEW d \in Directions, RecordVote(h, id, d)
        PROVE  RewardsPaidOnce'
    <3> DEFINE record == [weight |-> power[h], direction |-> d]
    <3>1. record # None
      <4>1. power[h] \in 1..MaxPower
        BY <2>1 DEF RewardInv, RecordVote, TypeOK
      <4>2. record \in VoteRecord
        BY <4>1 DEF VoteRecord
      <4> QED BY <4>2
    <3>2. vote' = [vote EXCEPT ![<<id, h>>] = record] /\ UNCHANGED rewards
      BY <2>1 DEF RecordVote
    <3> HIDE DEF record
    <3>3. \A k \in claimed : vote[k] # None => vote'[k] # None
      BY <3>1, <3>2 DEF RewardInv, TypeOK
    <3> QED BY <3>2, <3>3, RewardUntouched
  <2>2. ASSUME NEW h \in Holders, NEW e \in BOOLEAN, SubmitProposal(h, e) PROVE RewardsPaidOnce'
    BY <2>2, RewardUntouched DEF SubmitProposal
  <2>3. ASSUME NEW c \in Holders \cup {Admin}, NEW id \in Ids, CancelProposal(c, id)
        PROVE  RewardsPaidOnce'
    BY <2>3, RewardUntouched DEF CancelProposal
  <2> QED BY <1>4, <2>1, <2>2, <2>3, RewardClaimed DEF Vote, CastVote, CastDelegatedVote
<1>5. ASSUME NEW id \in Ids, Advance(id) PROVE RewardsPaidOnce'
  BY <1>5, RewardUntouched DEF Advance, FinalizeProposal, QueueTimelock, ExecuteProposal
<1>6. CASE Tick
  BY <1>6, RewardUntouched DEF Tick, rewards
<1> QED BY <1>1, <1>2, <1>3, <1>4, <1>5, <1>6 DEF Next

(***************************************************************************)
(* Wherever initialize falls among the calls, rewards go to recorded voters *)
(* only and once per proposal: with one rate, the total paid is that rate   *)
(* times the claims, whatever becomes of proposals and powers since.        *)
(***************************************************************************)
THEOREM RewardedOnce == Spec => []RewardsPaidOnce
<1>1. RewardInv => RewardsPaidOnce
  BY DEF RewardInv
<1> QED BY <1>1, RewardInit, RewardStep, PTL DEF Spec

-----------------------------------------------------------------------------
(* Majorities *)

(* Being above a share rounded down is being above the share. *)
LEMMA AboveShare ==
  ASSUME NEW votes \in Nat, NEW net \in Nat, NEW bps \in Nat, votes > Share(net, bps)
  PROVE  votes * 10000 > bps * net
<1>1. net * bps \in Nat /\ net * bps = bps * net
  OBVIOUS
<1>2. \A x \in Nat : votes > x \div 10000 => votes * 10000 > x
  OBVIOUS
<1> QED BY <1>1, <1>2 DEF Share

(* A step that passes a proposal is its finalization. *)
LEMMA OnlyFinalizePasses ==
  ASSUME TypeOK, [Next]_vars, NEW id \in Ids, Has(id, "Voting"), Has(id, "Passed")'
  PROVE  FinalizeProposal(id)
<1>1. proposal'[id] # proposal[id] /\ proposal'[id].status = "Passed" /\ Exists(id)
  BY DEF Has
<1>2. ASSUME NEW i \in Ids, i # id, NEW p, proposal' = [proposal EXCEPT ![i] = p] PROVE FALSE
  BY <1>1, <1>2 DEF TypeOK
<1>3. ASSUME NEW i \in Ids, Exists(i),
             NEW status \in {"Passed", "Defeated", "Timelock"} \cup Final, SetStatus(i, status)
      PROVE  i = id /\ status = "Passed"
  <2>1. proposal'[i].status = status /\ \A j \in Ids \ {i} : proposal'[j] = proposal[j]
    BY <1>3, StatusSet
  <2> QED BY <1>1, <2>1
<1>4. ASSUME Administer PROVE FALSE
  <2>1. ASSUME NEW i \in Ids, EmergencyExecute(i) PROVE FALSE
    BY <1>3, <2>1 DEF EmergencyExecute, Final
  <2> QED BY <1>1, <1>4, <2>1
          DEF Administer, Initialize, SetConfig, EmergencyPause, EmergencyUnpause
<1>5. ASSUME HoldPower PROVE FALSE
  BY <1>1, <1>5
  DEF HoldPower, DepositVotingPower, WithdrawVotingPower, Delegate, RevokeDelegation
<1>6. ASSUME Vote PROVE FALSE
  <2>1. ASSUME NEW h \in Holders, NEW e \in BOOLEAN, SubmitProposal(h, e) PROVE FALSE
    <3>1. PICK k \in Ids : k = nextId
      BY <2>1 DEF SubmitProposal, TypeOK, Ids
    <3>2. proposal' = [proposal EXCEPT ![k] = NewProposal(h, e)]
      BY <2>1, <3>1 DEF SubmitProposal
    <3>3. proposal'[k].status = "Voting"
      BY <3>2 DEF TypeOK, NewProposal
    <3> QED BY <1>1, <1>2, <3>2, <3>3
  <2>2. ASSUME NEW c \in Holders \cup {Admin}, NEW i \in Ids, CancelProposal(c, i) PROVE FALSE
    BY <1>3, <2>2 DEF CancelProposal, Has, Final
  <2>3. ASSUME NEW h \in Holders, NEW i \in Ids, NEW d \in Directions, RecordVote(h, i, d)
        PROVE  FALSE
    <3>1. /\ Voted(h, i, d).status = "Voting"
          /\ proposal' = [proposal EXCEPT ![i] = Voted(h, i, d)]
      BY <2>3, VoteMakesProposal
    <3>2. proposal'[i].status = "Voting"
      BY <3>1 DEF TypeOK
    <3> QED BY <1>1, <1>2, <3>1, <3>2
  <2>4. ASSUME NEW h \in Holders, NEW i \in Ids, ClaimRewards(h, i) PROVE FALSE
    BY <1>1, <2>4 DEF ClaimRewards
  <2> QED BY <1>6, <2>1, <2>2, <2>3, <2>4 DEF Vote, CastVote, CastDelegatedVote
<1>7. ASSUME NEW i \in Ids, Advance(i) PROVE i = id /\ FinalizeProposal(i)
  <2>1. CASE FinalizeProposal(i)
    <3>1. Exists(i) /\ \E status \in {"Passed", "Defeated"} : SetStatus(i, status)
      BY <2>1 DEF FinalizeProposal, Has
    <3> QED BY <1>3, <2>1, <3>1
  <2>2. CASE QueueTimelock(i)
    BY <1>3, <2>2 DEF QueueTimelock, Has
  <2>3. CASE ExecuteProposal(i)
    BY <1>3, <2>3 DEF ExecuteProposal, Has, Final
  <2> QED BY <1>7, <2>1, <2>2, <2>3 DEF Advance
<1> QED BY <1>1, <1>4, <1>5, <1>6, <1>7 DEF Next, Tick, vars

LEMMA MajorityStep ==
  ASSUME CountInv, [Next]_vars, NEW id \in Ids, Has(id, "Voting"), Has(id, "Passed")'
  PROVE  WeightCast(id, "For") * 10000
           > config.approvalBps * (WeightCast(id, "For") + WeightCast(id, "Against"))
<1>0. TypeOK /\ Counted(id)
  BY DEF CountInv, PaceInv, LockInv
<1>1. FinalizeProposal(id) /\ Exists(id)
  BY <1>0, OnlyFinalizePasses DEF Has
<1> DEFINE tally == proposal[id].tally
<1>2. tally \in [Directions -> Nat] /\ config.approvalBps \in Nat
  BY <1>0, <1>1 DEF TypeOK, Exists, Proposal, Config
<1>3. Approved(tally)
  <2>1. SUFFICES ASSUME ~Approved(tally) PROVE FALSE
    OBVIOUS
  <2>2. SetStatus(id, "Defeated")
    BY <1>1, <2>1 DEF FinalizeProposal
  <2>3. proposal'[id].status = "Defeated"
    BY <1>0, <1>1, <2>2, StatusSet
  <2> QED BY <2>3 DEF Has
<1>4. tally["For"] > Share(tally["For"] + tally["Against"], config.approvalBps)
  <2>1. tally["For"] > Share(NetVotes(tally), config.approvalBps)
    BY <1>3 DEF Approved
  <2>2. NetVotes(tally) = tally["For"] + tally["Against"]
    BY DEF NetVotes
  <2> QED BY <2>1, <2>2
<1>5. tally["For"] \in Nat /\ tally["Against"] \in Nat
  BY <1>2 DEF Directions
<1>6. tally["For"] * 10000 > config.approvalBps * (tally["For"] + tally["Against"])
  BY <1>2, <1>4, <1>5, AboveShare
<1>7. tally["For"] = WeightCast(id, "For") /\ tally["Against"] = WeightCast(id, "Against")
  BY <1>0, <1>1 DEF Counted, Ballots, WeightCast, Directions
<1> QED BY <1>6, <1>7

(***************************************************************************)
(* When no call comes before initialize, a proposal passes only if the      *)
(* weight recorded for it is above the configured share of the weight for   *)
(* and against: for all powers and thresholds, rounding included.           *)
(***************************************************************************)
THEOREM MajoritiesOnly ==
  ASSUME ~EarlyCalls
  PROVE  Spec => PassedByMajority
<1> DEFINE Majority == \A id \in Ids :
             (Has(id, "Voting") /\ Has(id, "Passed")') =>
               WeightCast(id, "For") * 10000
                 > config.approvalBps * (WeightCast(id, "For") + WeightCast(id, "Against"))
<1>1. Init => CountInv
  BY CountInit
<1>2. CountInv /\ [Next]_vars => CountInv'
  BY CountStep
<1>3. CountInv /\ [Next]_vars => [Majority]_vars
  BY MajorityStep
<1> HIDE DEF Majority
<1>4. Spec => [][Majority]_vars
  BY <1>1, <1>2, <1>3, PTL DEF Spec
<1> QED BY <1>4 DEF PassedByMajority, Majority

(***************************************************************************)
(* Votes are counted as they were cast and rewarded once, whatever the      *)
(* voters do with their power and their delegations afterwards.             *)
(***************************************************************************)
THEOREM VotesCounted ==
  ASSUME ~EarlyCalls
  PROVE  Spec => []VotesAccounted
<1>1. TallyMatchesVotes /\ RewardsPaidOnce => VotesAccounted
  BY DEF VotesAccounted
<1> QED BY <1>1, TalliesTrue, RewardedOnce, PTL
=============================================================================
