------------------------------- MODULE Staking -------------------------------
(***************************************************************************)
(* Stakes: balances and positions per staker and asset, unlock schedules,   *)
(* emergency withdrawals against a penalty, and the running totals of       *)
(* what is staked and by how many.  Yield is in Yield.tla, which shares the *)
(* contract but none of this state.  Each action is one successful call.    *)
(* Amounts are accounting only: no token moves.                             *)
(***************************************************************************)
EXTENDS Integers, Sequences, Totals

CONSTANTS
  Stakers, Assets,
  Schedules,         \* unlock schedules stakers choose
  EmergencyConfigs,  \* emergency configurations the admin chooses
  LockAmounts,       \* amounts the admin records in a LockPosition
  Scale,             \* the fixed-point scale, 10^18 in the code
  MaxBalance,        \* i128::MAX
  TrancheRange,      \* 2^32, by which the number of tranches is taken
  MaxTime,           \* bounds the ledger timestamp
  MaxEmergencies,    \* bounds a staker's emergency history
  None

Pairs == Stakers \X Assets
MaxBps == 10000

Schedule ==
  [kind : {"Immediate"}]
    \cup [kind : {"Cliff"}, unlock : Nat]
    \cup [kind : {"Graduated"}, start : Nat, interval : Nat, tranche : Nat]

EmergencyConfig ==
  [start : Int, end : Int, decay : {"Linear", "Custom"}, cooldown : Nat, enabled : BOOLEAN]

Position ==
  [principal : 0..MaxBalance, schedule : Schedule, openedAt : Nat,
   state : {"Locked", "Active", "Claimable", "Withdrawn"}, locked : BOOLEAN]

EmergencyRecord == [at : Nat, requested : Nat, penalty : Int, bps : Int]

ASSUME StakingAssumption ==
  /\ IsFiniteSet(Stakers) /\ IsFiniteSet(Assets)
  /\ Schedules \subseteq Schedule
  /\ EmergencyConfigs \subseteq EmergencyConfig /\ None \notin EmergencyConfigs \cup Position
  /\ LockAmounts \subseteq Int
  /\ Scale \in Nat \ {0}
  /\ TrancheRange \in Nat \ {0}
  /\ MaxBalance \in Nat /\ MaxTime \in Nat /\ MaxEmergencies \in Nat

VARIABLES
  position,       \* Position(staker, asset), or None
  balance,        \* Balance(staker, asset), 0 when absent
  totalStaked,    \* TotalStaked(asset)
  positionCount,  \* StakerPositionCount(staker)
  activeStakers,  \* ActiveStakerCount
  lockedAmount,   \* LockPosition(staker).locked_amount, or None
  emergency,      \* EmergencyDataKey::Config, or None
  cooldownEnd,    \* CooldownEnd(staker)
  history,        \* the staker's emergency unstake records, oldest first
  now             \* the ledger timestamp

stakes == <<position, balance>>
totals == <<totalStaked, positionCount, activeStakers>>
exits == <<lockedAmount, emergency, cooldownEnd, history>>
vars == <<stakes, totals, exits, now>>

TypeOK ==
  /\ position \in [Pairs -> Position \cup {None}]
  /\ balance \in [Pairs -> 0..MaxBalance]
  /\ totalStaked \in [Assets -> 0..MaxBalance]
  /\ positionCount \in [Stakers -> Nat] /\ activeStakers \in Nat
  /\ lockedAmount \in [Stakers -> Int \cup {None}]
  /\ emergency \in EmergencyConfigs \cup {None}
  /\ cooldownEnd \in [Stakers -> Nat]
  /\ history \in [Stakers -> Seq(EmergencyRecord)]
  /\ now \in 0..MaxTime

Init ==
  /\ position = [k \in Pairs |-> None]
  /\ balance = [k \in Pairs |-> 0]
  /\ totalStaked = [a \in Assets |-> 0]
  /\ positionCount = [s \in Stakers |-> 0] /\ activeStakers = 0
  /\ lockedAmount = [s \in Stakers |-> None]
  /\ emergency = None
  /\ cooldownEnd = [s \in Stakers |-> 0]
  /\ history = [s \in Stakers |-> <<>>]
  /\ now = 0

-----------------------------------------------------------------------------
(* update_totals_on_stake and update_totals_on_unstake: the staker of pair k *)
(* goes from its present balance to new.                                     *)

(* Mutant: every stake counts as the first. *)
UpdateTotalsOnStakeAlwaysFirst(k, new) ==
  /\ totalStaked[k[2]] + (new - balance[k]) <= MaxBalance
  /\ totalStaked' = [totalStaked EXCEPT ![k[2]] = @ + (new - balance[k])]
  /\ positionCount' = [positionCount EXCEPT ![k[1]] = @ + 1]
  /\ activeStakers' = IF positionCount[k[1]] = 0 THEN activeStakers + 1 ELSE activeStakers

UpdateTotalsOnStake(k, new) ==
  LET first == balance[k] = 0 IN
  /\ totalStaked[k[2]] + (new - balance[k]) <= MaxBalance
  /\ totalStaked' = [totalStaked EXCEPT ![k[2]] = @ + (new - balance[k])]
  /\ positionCount' = [positionCount EXCEPT ![k[1]] = IF first THEN @ + 1 ELSE @]
  /\ activeStakers' = IF first /\ positionCount[k[1]] = 0 THEN activeStakers + 1
                      ELSE activeStakers

SaturatingDec(n) == IF n > 0 THEN n - 1 ELSE 0

UpdateTotalsOnUnstake(k, new) ==
  LET left == SaturatingDec(positionCount[k[1]]) IN
  /\ totalStaked' = [totalStaked EXCEPT ![k[2]] = @ - (balance[k] - new)]
  /\ positionCount' = [positionCount EXCEPT ![k[1]] = IF new = 0 THEN left ELSE @]
  /\ activeStakers' = IF new = 0 /\ left = 0 THEN SaturatingDec(activeStakers)
                      ELSE activeStakers

-----------------------------------------------------------------------------
ValidSchedule(sch) ==
  \/ sch.kind = "Immediate"
  \/ sch.kind = "Cliff" /\ sch.unlock > now
  \/ sch.kind = "Graduated" /\ sch.start > now /\ sch.interval # 0 /\ sch.tranche <= MaxBps

NewPosition(amount, sch, lock) ==
  [principal |-> amount, schedule |-> sch, openedAt |-> now,
   state |-> IF sch.kind = "Immediate" THEN "Active" ELSE "Locked", locked |-> lock]

(* An existing position keeps its own schedule, state and lock. *)
Stake(k, amount, sch, lock) ==
  LET new == balance[k] + amount IN
  /\ ValidSchedule(sch)
  /\ \/ /\ position[k] = None
        /\ position' = [position EXCEPT ![k] = NewPosition(amount, sch, lock)]
     \/ /\ position[k] # None /\ ~position[k].locked
        /\ position[k].principal + amount <= MaxBalance
        /\ position' = [position EXCEPT ![k].principal = @ + amount]
  /\ new <= MaxBalance
  /\ balance' = [balance EXCEPT ![k] = new]
  /\ UpdateTotalsOnStake(k, new)
  /\ UNCHANGED <<exits, now>>

(* What a graduated schedule has unlocked, in basis points of the principal. *)
UnlockedBps(sch) ==
  LET bps == (((now - sch.start) \div sch.interval) % TrancheRange) * sch.tranche
  IN  IF bps < MaxBps THEN bps ELSE MaxBps

(* Mutant: a cliff opens a second early.                                    *)
CanUnstakeAMomentEarly(k, amount) ==
  LET p == position[k] sch == p.schedule IN
  \/ sch.kind = "Immediate"
  \/ sch.kind = "Cliff" /\ now + 1 >= sch.unlock
  \/ sch.kind = "Graduated" /\ now > sch.start

CanUnstake(k, amount) ==
  LET p == position[k] sch == p.schedule IN
  \/ sch.kind = "Immediate"
  \/ sch.kind = "Cliff" /\ now >= sch.unlock
  \/ /\ sch.kind = "Graduated" /\ now > sch.start
     /\ amount <= (p.principal * UnlockedBps(sch)) \div MaxBps - (p.principal - balance[k])

Matured(sch) ==
  \/ sch.kind = "Cliff"
  \/ sch.kind = "Graduated" /\ UnlockedBps(sch) = MaxBps

(* Mutant: the principal is not written.                                    *)
ShrinkBalanceOnly(k, amount, state) ==
  LET new == balance[k] - amount IN
  /\ balance' = [balance EXCEPT ![k] = new]
  /\ position' = [position EXCEPT ![k].state = IF new = 0 THEN "Withdrawn" ELSE state]
  /\ UpdateTotalsOnUnstake(k, new)

(* The balance leaves the pair; an emptied position is Withdrawn. *)
Shrink(k, amount, state) ==
  LET new == balance[k] - amount IN
  /\ balance' = [balance EXCEPT ![k] = new]
  /\ position' = [position EXCEPT ![k].principal = new,
                                  ![k].state = IF new = 0 THEN "Withdrawn" ELSE state]
  /\ UpdateTotalsOnUnstake(k, new)

Unstake(k, amount) ==
  /\ position[k] # None
  /\ CanUnstake(k, amount)
  /\ amount <= balance[k]
  /\ Shrink(k, amount, IF position[k].state = "Locked" /\ Matured(position[k].schedule)
                       THEN "Claimable" ELSE position[k].state)
  /\ UNCHANGED <<exits, now>>

-----------------------------------------------------------------------------
(* Emergency withdrawals *)

SetLockPosition(s, amount) ==
  /\ lockedAmount' = [lockedAmount EXCEPT ![s] = amount]
  /\ UNCHANGED <<stakes, totals, emergency, cooldownEnd, history, now>>

ConfigureEmergency(c) ==
  /\ emergency' = c
  /\ UNCHANGED <<stakes, totals, lockedAmount, cooldownEnd, history, now>>

(* mul_div: the quotient is cut off towards 0. *)
MulDiv(a, b, d) == IF a * b < 0 THEN -((-a * b) \div d) ELSE (a * b) \div d

Clamp(bps) == IF bps < 0 THEN 0 ELSE IF bps > MaxBps THEN MaxBps ELSE bps

LinearDecay(start, end, elapsed, total) ==
  start + MulDiv(end - start, MulDiv(elapsed, Scale, total), Scale)

(* compute_penalty_bps; the exponential curve is not modelled. *)
PenaltyBps(c, elapsed, total) ==
  IF total = 0 \/ elapsed = 0 THEN (IF c.start < MaxBps THEN c.start ELSE MaxBps)
  ELSE IF elapsed >= total THEN Clamp(c.end)
  ELSE Clamp(IF c.decay = "Linear" THEN LinearDecay(c.start, c.end, elapsed, total)
             ELSE c.start)

SaturatingSub(a, b) == IF a > b THEN a - b ELSE 0

(* The lock a penalty is measured on: when it began and how long it lasts.  *)
LockStart(p) ==
  CASE p.schedule.kind = "Cliff" -> p.openedAt
    [] p.schedule.kind = "Graduated" -> p.schedule.start
    [] OTHER -> now
LockLength(p) ==
  CASE p.schedule.kind = "Cliff" -> SaturatingSub(p.schedule.unlock, p.openedAt)
    [] p.schedule.kind = "Graduated" -> (MaxBps \div p.schedule.tranche) * p.schedule.interval
    [] OTHER -> 0

PenaltyOn(p) == PenaltyBps(emergency, SaturatingSub(now, LockStart(p)), LockLength(p))

NewRecord(p, amount) ==
  [at |-> now, requested |-> amount, penalty |-> MulDiv(amount, PenaltyOn(p), MaxBps),
   bps |-> PenaltyOn(p)]

ReduceLock(s, amount) ==
  lockedAmount' =
    [lockedAmount EXCEPT ![s] = IF @ = None \/ @ = amount THEN None ELSE @ - amount]

(* Mutant: the cooldown ends a second early.                                *)
CooldownOverEarly(s) == now + 1 >= cooldownEnd[s]
CooldownOver(s) == now >= cooldownEnd[s]

EmergencyUnstake(k, amount) ==
  LET s == k[1] IN
  /\ position[k] # None
  /\ amount <= balance[k]
  /\ position[k].schedule.kind = "Graduated" => position[k].schedule.tranche # 0
  /\ emergency # None /\ emergency.enabled
  /\ CooldownOver(s)
  /\ Len(history[s]) < MaxEmergencies
  /\ history' = [history EXCEPT ![s] = Append(@, NewRecord(position[k], amount))]
  /\ cooldownEnd' = [cooldownEnd EXCEPT ![s] =
                       IF emergency.cooldown > 0 THEN now + emergency.cooldown ELSE @]
  /\ Shrink(k, amount, position[k].state)
  /\ ReduceLock(s, amount)
  /\ UNCHANGED <<emergency, now>>

(* The ledger closes and its timestamp moves on. *)
Tick ==
  /\ now < MaxTime
  /\ now' = now + 1
  /\ UNCHANGED <<stakes, totals, exits>>

Amounts == 1..MaxBalance

Next ==
  \/ \E k \in Pairs, n \in Amounts, sch \in Schedules, lock \in BOOLEAN : Stake(k, n, sch, lock)
  \/ \E k \in Pairs, n \in Amounts : Unstake(k, n)
  \/ \E k \in Pairs, n \in Amounts : EmergencyUnstake(k, n)
  \/ \E s \in Stakers, n \in LockAmounts : SetLockPosition(s, n)
  \/ \E c \in EmergencyConfigs : ConfigureEmergency(c)
  \/ Tick

Spec == Init /\ [][Next]_vars

-----------------------------------------------------------------------------
(* Properties *)

Holds(s) == {a \in Assets : balance[<<s, a>>] > 0}

(***************************************************************************)
(* The running totals, kept up by increments, agree with the balances they  *)
(* stand for: the amount staked of each asset, the assets each staker       *)
(* holds, and the stakers who hold any.                                     *)
(***************************************************************************)
TotalsAgree ==
  /\ \A a \in Assets : totalStaked[a] = Total([s \in Stakers |-> balance[<<s, a>>]])
  /\ \A s \in Stakers : positionCount[s] = Cardinality(Holds(s))
  /\ activeStakers = Cardinality({s \in Stakers : Holds(s) # {}})

(***************************************************************************)
(* A position and the balance, stored under two keys by every entry point,  *)
(* never come apart, and a balance always has a position to leave through.  *)
(***************************************************************************)
PrincipalMirrorsBalance ==
  \A k \in Pairs : balance[k] = IF position[k] = None THEN 0 ELSE position[k].principal

(***************************************************************************)
(* Two emergency withdrawals of one staker, from whichever of its assets,   *)
(* are never closer than the shortest cooldown ever configured.             *)
(***************************************************************************)
CooldownKept ==
  \A s \in Stakers : \A i \in 1..(Len(history[s]) - 1) :
    \E c \in EmergencyConfigs : history[s][i + 1].at >= history[s][i].at + c.cooldown

(***************************************************************************)
(* What leaves a pair under a cliff before its time leaves by an emergency  *)
(* withdrawal of that amount, at a rate no later moment of the lock would   *)
(* exceed: waiting never costs more.                                        *)
(***************************************************************************)
EarlyExitPenalized ==
  [][\A k \in Pairs :
       LET p == position[k] IN
       (balance'[k] < balance[k] /\ p.schedule.kind = "Cliff" /\ now < p.schedule.unlock) =>
         /\ Len(history'[k[1]]) = Len(history[k[1]]) + 1
         /\ LET r == history'[k[1]][Len(history'[k[1]])] IN
            /\ r.requested = balance[k] - balance'[k]
            /\ (emergency.start >= emergency.end /\ emergency.start >= 0) =>
                 \A t \in now..MaxTime :
                   PenaltyBps(emergency, SaturatingSub(t, p.openedAt), LockLength(p)) <= r.bps]_vars
=============================================================================
