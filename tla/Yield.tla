-------------------------------- MODULE Yield --------------------------------
(***************************************************************************)
(* The yield engine of the staking contract: positions that earn with the   *)
(* ledger clock, the claims on what they earned, scheduled distributions    *)
(* and the reserve that backs some of these.  Its positions are opened by   *)
(* their own entry point and share no state with the stakes of Staking.tla. *)
(* Amounts are accounting only: no token moves.                             *)
(***************************************************************************)
EXTENDS Integers, Sequences, Totals

CONSTANTS
  Stakers, Assets,
  Principals, Rates,   \* what positions are opened with and set to
  Earned(_, _, _),     \* compute_yield(principal, apr, seconds)
  Offers,              \* distributions put on schedule
  Amounts,             \* amounts claimed, funded and withdrawn
  MaxReserve,          \* i128::MAX
  MaxSchedules,        \* bounds a pair's schedule list
  MaxLogged,           \* bounds what a pair's history adds up to
  MaxTime,             \* bounds the ledger timestamp
  None

Pairs == Stakers \X Assets
NoReserve == -1   \* how an absent ReserveBalance(asset) reads

Schedule == [due : Nat, interval : Nat, amount : Nat, executed : BOOLEAN]
Offer == [due : Nat, interval : Nat, amount : Nat]

(* A position that is not older than its last checkpoint has nothing        *)
(* pending.  Rates under which a principal shrinks are left out.            *)
YieldAssumption ==
  /\ IsFiniteSet(Stakers)
  /\ \A p \in Principals, r \in Rates : Earned(p, r, 0) = 0
  /\ \A p \in Principals, r \in Rates, t \in 0..MaxTime : Earned(p, r, t) \in Nat
  /\ Offers \subseteq Offer /\ Amounts \subseteq Nat \ {0}
  /\ {MaxReserve, MaxSchedules, MaxLogged, MaxTime} \subseteq Nat
  /\ None \notin [principal : Principals, apr : Rates, last : 0..MaxTime, accrued : Nat]

VARIABLES
  record,     \* Record(staker, asset), or None
  logged,     \* the yield_earned of the pair's History entries, summed
  claimed,    \* the amounts of its claims in DistributionHistory, summed
  paid,       \* the amounts of its scheduled payouts there, summed
  schedules,  \* Schedule(staker, asset)
  offered,    \* these schedules as they were first stored: no call reads it
  reserve,    \* ReserveBalance(asset), or NoReserve
  paused,     \* DistributionsPaused
  now         \* the ledger timestamp

positions == <<record, logged, claimed>>
payouts == <<paid, schedules, offered>>
vars == <<positions, payouts, reserve, paused, now>>

YieldRecord == [principal : Principals, apr : Rates, last : 0..MaxTime, accrued : Nat]

TypeOK ==
  /\ record \in [Pairs -> YieldRecord \cup {None}]
  /\ logged \in [Pairs -> 0..MaxLogged] /\ claimed \in [Pairs -> Nat] /\ paid \in [Pairs -> Nat]
  /\ schedules \in [Pairs -> Seq(Schedule)]
  /\ reserve \in [Assets -> (0..MaxReserve) \cup {NoReserve}]
  /\ paused \in BOOLEAN
  /\ now \in 0..MaxTime

Init ==
  /\ record = [k \in Pairs |-> None]
  /\ logged = [k \in Pairs |-> 0] /\ claimed = [k \in Pairs |-> 0]
  /\ paid = [k \in Pairs |-> 0]
  /\ schedules = [k \in Pairs |-> <<>>] /\ offered = [k \in Pairs |-> <<>>]
  /\ reserve = [a \in Assets |-> NoReserve]
  /\ paused = FALSE
  /\ now = 0

-----------------------------------------------------------------------------
(* Accrual *)

PendingYield(r) == Earned(r.principal, r.apr, now - r.last)
CurrentYield(k) ==
  IF record[k] = None THEN 0 ELSE record[k].accrued + PendingYield(record[k])

(* accrue_to: the log grows here and now, the record only if it is stored.  *)
AccrueTo(r) == [r EXCEPT !.accrued = @ + PendingYield(r), !.last = now]
LogAccrual(ks) ==
  /\ logged' = [k \in Pairs |-> IF k \in ks /\ record[k] # None
                                THEN logged[k] + PendingYield(record[k]) ELSE logged[k]]
  /\ \A k \in ks : logged'[k] <= MaxLogged

(* Mutant: an existing position is overwritten without a checkpoint. *)
OpenAnew(k, principal, apr) ==
  /\ record' = [record EXCEPT ![k] = [principal |-> principal, apr |-> apr, last |-> now,
                  accrued |-> IF record[k] = None THEN 0 ELSE record[k].accrued]]
  /\ UNCHANGED <<logged, claimed, payouts, reserve, paused, now>>

OpenPosition(k, principal, apr) ==
  /\ record' = [record EXCEPT ![k] = [principal |-> principal, apr |-> apr, last |-> now,
                                      accrued |-> CurrentYield(k)]]
  /\ LogAccrual({k})
  /\ UNCHANGED <<claimed, payouts, reserve, paused, now>>

Accrue(k) ==
  /\ record[k] # None
  /\ record' = [record EXCEPT ![k] = AccrueTo(@)]
  /\ LogAccrual({k})
  /\ UNCHANGED <<claimed, payouts, reserve, paused, now>>

SetRate(k, apr) ==
  /\ record[k] # None
  /\ record' = [record EXCEPT ![k] = [AccrueTo(@) EXCEPT !.apr = apr]]
  /\ LogAccrual({k})
  /\ UNCHANGED <<claimed, payouts, reserve, paused, now>>

-----------------------------------------------------------------------------
(* Claims *)

(* Mutant: the accrual is not logged. *)
ClaimUnlogged(k) ==
  /\ record[k] # None
  /\ record' = [record EXCEPT ![k] = [AccrueTo(@) EXCEPT !.accrued = 0]]
  /\ claimed' = [claimed EXCEPT ![k] = @ + CurrentYield(k)]
  /\ UNCHANGED <<logged, payouts, reserve, paused, now>>

(* claim_yield pays in full and leaves the reserve alone. *)
ClaimYield(k) ==
  /\ record[k] # None
  /\ record' = [record EXCEPT ![k] = [AccrueTo(@) EXCEPT !.accrued = 0]]
  /\ LogAccrual({k})
  /\ claimed' = [claimed EXCEPT ![k] = @ + CurrentYield(k)]
  /\ UNCHANGED <<payouts, reserve, paused, now>>

AtMost(x, y) == IF x <= y THEN x ELSE y
Capped(amount, left) == IF left = NoReserve THEN amount ELSE AtMost(amount, left)

(* What a claim of n by each of some pairs leaves behind.  A claim of 0     *)
(* leaves the record as it was, though its accrual has been logged.         *)
Pay(ks, n) ==
  /\ LogAccrual(ks)
  /\ record' = [k \in Pairs |-> IF k \in ks /\ n[k] > 0
                                THEN [AccrueTo(record[k]) EXCEPT !.accrued = @ - n[k]]
                                ELSE record[k]]
  /\ claimed' = [k \in Pairs |-> IF k \in ks THEN claimed[k] + n[k] ELSE claimed[k]]

ClaimYieldPartial(k, amount) ==
  LET a == k[2]
      n == Capped(AtMost(amount, CurrentYield(k)), reserve[a])
  IN
  /\ record[k] # None
  /\ Pay({k}, [j \in {k} |-> n])
  /\ reserve' = [reserve EXCEPT ![a] = IF @ = NoReserve THEN @ ELSE @ - n]
  /\ UNCHANGED <<payouts, paused, now>>

(* What is left of a reserve after the first i of some payments are taken   *)
(* from it in their order, each as Capped.                                  *)
Left(start, amounts) ==
  LET left[i \in 0..Len(amounts)] ==
        IF i = 0 \/ start = NoReserve THEN start
        ELSE left[i - 1] - AtMost(amounts[i], left[i - 1])
  IN  left

(* Each staker authorizes the call, which a list can ask of it only once. *)
BatchClaim(list, a) ==
  LET amounts == [i \in 1..Len(list) |-> CurrentYield(<<list[i], a>>)]
      left == Left(reserve[a], amounts)
      ks == {<<list[i], a>> : i \in 1..Len(list)}
      place(k) == CHOOSE i \in 1..Len(list) : list[i] = k[1]
  IN
  /\ ~paused
  /\ Pay(ks, [k \in ks |-> Capped(amounts[place(k)], left[place(k) - 1])])
  /\ reserve' = [reserve EXCEPT ![a] = left[Len(list)]]
  /\ UNCHANGED <<payouts, paused, now>>

-----------------------------------------------------------------------------
(* Scheduled distributions *)

ScheduleDistribution(k, offer) ==
  /\ Len(schedules[k]) < MaxSchedules
  /\ schedules' = [schedules EXCEPT ![k] = Append(@,
       [due |-> offer.due, interval |-> offer.interval, amount |-> offer.amount,
        executed |-> FALSE])]
  /\ offered' = [offered EXCEPT ![k] = Append(@, offer)]
  /\ UNCHANGED <<positions, paid, reserve, paused, now>>

Due(s) == ~s.executed /\ s.due <= now

(* Which of the schedules are paid: those due that the reserve still covers *)
(* when their turn comes.  The rest stays pending.                          *)
PaidNow(list, start) ==
  LET left[i \in 0..Len(list)] ==
        IF i = 0 THEN start
        ELSE IF Due(list[i]) /\ list[i].amount <= left[i - 1] THEN left[i - 1] - list[i].amount
        ELSE left[i - 1]
  IN  {i \in 1..Len(list) :
         Due(list[i]) /\ (start = NoReserve \/ list[i].amount <= left[i - 1])}

SumOf(list, is) ==
  Total([i \in 1..Len(list) |-> IF i \in is THEN list[i].amount ELSE 0])

(* A recurring schedule moves on by one interval, however late it is paid. *)
Roll(s) ==
  IF s.interval > 0 THEN [s EXCEPT !.due = @ + s.interval] ELSE [s EXCEPT !.executed = TRUE]

ProcessDistribution(k) ==
  LET list == schedules[k]
      is == PaidNow(list, reserve[k[2]])
      total == SumOf(list, is)
  IN
  /\ ~paused
  /\ paid' = [paid EXCEPT ![k] = @ + total]
  /\ schedules' = [schedules EXCEPT ![k] =
                     [i \in 1..Len(list) |-> IF i \in is THEN Roll(list[i]) ELSE list[i]]]
  /\ reserve' = [reserve EXCEPT ![k[2]] = IF @ = NoReserve THEN @ ELSE @ - total]
  /\ UNCHANGED <<positions, offered, paused, now>>

-----------------------------------------------------------------------------
(* The reserve and the pause, signed by the address named as admin *)

FundReserve(a, amount) ==
  LET held == IF reserve[a] = NoReserve THEN 0 ELSE reserve[a] IN
  /\ held + amount <= MaxReserve
  /\ reserve' = [reserve EXCEPT ![a] = held + amount]
  /\ UNCHANGED <<positions, payouts, paused, now>>

WithdrawReserve(a, amount) ==
  /\ amount <= reserve[a]
  /\ reserve' = [reserve EXCEPT ![a] = @ - amount]
  /\ UNCHANGED <<positions, payouts, paused, now>>

SetPaused(p) ==
  /\ paused' = p
  /\ UNCHANGED <<positions, payouts, reserve, now>>

(* The ledger closes and its timestamp moves on. *)
Tick ==
  /\ now < MaxTime
  /\ now' = now + 1
  /\ UNCHANGED <<positions, payouts, reserve, paused>>

Batches == UNION {{f \in [1..n -> Stakers] : \A i, j \in 1..n : f[i] = f[j] => i = j}
                  : n \in 1..Cardinality(Stakers)}

Earn ==
  \/ \E k \in Pairs, p \in Principals, r \in Rates : OpenPosition(k, p, r)
  \/ \E k \in Pairs : Accrue(k)
  \/ \E k \in Pairs, r \in Rates : SetRate(k, r)

Claim ==
  \/ \E k \in Pairs : ClaimYield(k)
  \/ \E k \in Pairs, n \in Amounts : ClaimYieldPartial(k, n)
  \/ \E list \in Batches, a \in Assets : BatchClaim(list, a)

Distribute ==
  \/ \E k \in Pairs, o \in Offers : ScheduleDistribution(k, o)
  \/ \E k \in Pairs : ProcessDistribution(k)
  \/ \E a \in Assets, n \in Amounts : FundReserve(a, n)
  \/ \E a \in Assets, n \in Amounts : WithdrawReserve(a, n)
  \/ \E p \in BOOLEAN : SetPaused(p)

Next == Earn \/ Claim \/ Distribute \/ Tick

Spec == Init /\ [][Next]_vars

-----------------------------------------------------------------------------
(* Properties.  The first two are about steps. *)

(***************************************************************************)
(* Yield comes from time alone.  What a pair has been paid in claims and    *)
(* what it could claim now add up to the same before and after every call:  *)
(* no order of openings, rate changes, partial, batch and capped claims     *)
(* creates, loses or pays twice what was earned.                            *)
(***************************************************************************)
EntitlementKept ==
  now' = now => \A k \in Pairs :
    claimed'[k] + CurrentYield(k)' = claimed[k] + CurrentYield(k)

(***************************************************************************)
(* A reserve, once there, is never overdrawn; and a payout taken from it    *)
(* falls to stakers in full: what leaves it in a call that pays anybody is  *)
(* exactly what the call pays, to all stakers of the asset together.        *)
(***************************************************************************)
PaidOut(a) == Total([s \in Stakers |-> claimed[<<s, a>>] + paid[<<s, a>>]])

ReserveBacksPayouts ==
  \A a \in Assets :
    (reserve'[a] < reserve[a] /\ PaidOut(a)' # PaidOut(a)) =>
      PaidOut(a)' - PaidOut(a) = reserve[a] - reserve'[a]

Conserved == [][EntitlementKept /\ ReserveBacksPayouts]_vars

(***************************************************************************)
(* The history a staker is shown is true: until a reserve is first funded,  *)
(* the yield its entries say was earned is what the position still accrues  *)
(* and what it has been paid.                                               *)
(***************************************************************************)
HistoryTrue ==
  \A k \in Pairs : (reserve[k[2]] = NoReserve /\ record[k] # None) =>
    logged[k] = claimed[k] + record[k].accrued

(***************************************************************************)
(* Each date of a schedule is paid once, late or not, and none ahead of its *)
(* time: what a pair has been paid is the amount of each of its schedules   *)
(* for every date it has moved past.                                        *)
(***************************************************************************)
DatesPaid(s, offer) ==
  IF s.interval > 0 THEN (s.due - offer.due) \div s.interval ELSE IF s.executed THEN 1 ELSE 0

PaidOncePerDate ==
  \A k \in Pairs :
    /\ paid[k] = Total([i \in DOMAIN schedules[k] |->
                          schedules[k][i].amount * DatesPaid(schedules[k][i], offered[k][i])])
    /\ \A i \in DOMAIN schedules[k] :
         LET s == schedules[k][i] IN DatesPaid(s, offered[k][i]) > 0 => s.due <= now + s.interval

(***************************************************************************)
(* What the documentation says and the code does not do                     *)
(***************************************************************************)

(* records.rs:79: an entry accounts for the time "since the previous entry" *)
(* and for the "Yield earned during this period".  Entries that do not      *)
(* overlap never add up to more than the position has yielded.              *)
HistoryNeverAhead == \A k \in Pairs : logged[k] <= claimed[k] + CurrentYield(k)
=============================================================================
