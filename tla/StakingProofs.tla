---------------------------- MODULE StakingProofs ----------------------------
(***************************************************************************)
(* Theorems about the staking contract.  Its yield engine, for any stakers, *)
(* assets, rates, offers and bounds, and any function of the time that      *)
(* yields nothing in no time: what is earned is claimed once, what leaves a *)
(* reserve is paid, and every date of a distribution once.  Its stakes, for *)
(* any stakers, assets, schedules, configurations and bounds: the running   *)
(* totals, the types, the two copies of a stake, the cooldowns and the      *)
(* price of leaving early.                                                  *)
(***************************************************************************)
EXTENDS StakingContract, TotalsProofs

-----------------------------------------------------------------------------
(* The yield engine *)

(* Total and IsFiniteSet are the same operators wherever they are taken from. *)
LEMMA TotalsAlike ==
  /\ \A f : Yields!Total(f) = Total(f)
  /\ \A S : Yields!Cardinality(S) = Cardinality(S)
  /\ \A S : Yields!IsFiniteSet(S) <=> IsFiniteSet(S)
<1>1. \A S : Yields!Cardinality(S) = Cardinality(S) /\ (Yields!IsFiniteSet(S) <=> IsFiniteSet(S))
  BY Zenon DEF Cardinality, Yields!Cardinality, IsFiniteSet, Yields!IsFiniteSet
<1> QED BY <1>1 DEF Yields!Total, Total, Yields!Units, Units

LEMMA Settings ==
  /\ IsFiniteSet(Stakers)
  /\ \A p \in Principals, r \in Rates : Earned(p, r, 0) = 0
  /\ \A p \in Principals, r \in Rates, t \in 0..MaxTime : Earned(p, r, t) \in Nat
  /\ Offers \subseteq Yields!Offer /\ Claims \subseteq Nat \ {0}
  /\ MaxReserve \in Nat /\ MaxSchedules \in Nat /\ MaxLogged \in Nat /\ MaxTime \in Nat
  /\ None \notin Yields!YieldRecord
BY YieldAssumption, TotalsAlike DEF Yields!YieldAssumption, Yields!YieldRecord

-----------------------------------------------------------------------------
(* One position *)

PositionsInv ==
  /\ record \in [Yields!Pairs -> Yields!YieldRecord \cup {None}]
  /\ logged \in [Yields!Pairs -> 0..MaxLogged] /\ claimed \in [Yields!Pairs -> Nat]
  /\ now \in 0..MaxTime
  /\ \A k \in Yields!Pairs : record[k] # None => record[k].last <= now
  /\ \A k \in Yields!Pairs : record[k] = None => logged[k] = 0 /\ claimed[k] = 0

(* What the history of a pair says that has never met a reserve. *)
ToldTrue(k) == record[k] # None => logged[k] = claimed[k] + record[k].accrued

LEMMA CheckpointIs ==
  ASSUME NEW r \in Yields!YieldRecord, NEW yield, NEW time
  PROVE  [r EXCEPT !.accrued = yield, !.last = time]
           = [principal |-> r.principal, apr |-> r.apr, last |-> time, accrued |-> yield]
<1> DEFINE with == [principal |-> r.principal, apr |-> r.apr, last |-> r.last, accrued |-> yield]
<1>1. [r EXCEPT !.accrued = yield] = with
  BY DEF Yields!YieldRecord
<1>2. [with EXCEPT !.last = time]
        = [principal |-> r.principal, apr |-> r.apr, last |-> time, accrued |-> yield]
  OBVIOUS
<1>3. [r EXCEPT !.accrued = yield, !.last = time] = [[r EXCEPT !.accrued = yield] EXCEPT !.last = time]
  OBVIOUS
<1> QED BY <1>1, <1>2, <1>3

LEMMA YieldTyped ==
  ASSUME PositionsInv, NEW k \in Yields!Pairs
  PROVE  /\ Yields!CurrentYield(k) \in Nat
         /\ record[k] = None => Yields!CurrentYield(k) = 0
         /\ record[k] # None =>
              /\ record[k] \in Yields!YieldRecord /\ record[k].accrued \in Nat
              /\ Yields!PendingYield(record[k]) \in Nat
              /\ Yields!CurrentYield(k) = record[k].accrued + Yields!PendingYield(record[k])
              /\ Yields!AccrueTo(record[k])
                   = [principal |-> record[k].principal, apr |-> record[k].apr, last |-> now,
                      accrued |-> Yields!CurrentYield(k)]
              /\ record[k].principal \in Principals /\ record[k].apr \in Rates
<1>1. CASE record[k] = None
  BY <1>1 DEF Yields!CurrentYield
<1>2. CASE record[k] # None
  <2> DEFINE r == record[k]
  <2>1. r \in Yields!YieldRecord /\ r.last <= now /\ now \in 0..MaxTime /\ MaxTime \in Nat
    BY <1>2, Settings DEF PositionsInv
  <2>2. /\ r.principal \in Principals /\ r.apr \in Rates /\ r.last \in 0..MaxTime
        /\ r.accrued \in Nat
    BY <2>1 DEF Yields!YieldRecord
  <2>3. now - r.last \in 0..MaxTime
    BY <2>1, <2>2
  <2>4. Yields!PendingYield(r) \in Nat
    BY <2>2, <2>3, Settings DEF Yields!PendingYield
  <2>5. Yields!CurrentYield(k) = r.accrued + Yields!PendingYield(r)
    BY <1>2 DEF Yields!CurrentYield
  <2>6. Yields!AccrueTo(r) = [principal |-> r.principal, apr |-> r.apr, last |-> now,
                         accrued |-> r.accrued + Yields!PendingYield(r)]
    <3> DEFINE more == r.accrued + Yields!PendingYield(r)
    <3>1. Yields!AccrueTo(r) = [r EXCEPT !.accrued = more, !.last = now]
      BY DEF Yields!AccrueTo
    <3> HIDE DEF more
    <3>2. [r EXCEPT !.accrued = more, !.last = now]
            = [principal |-> r.principal, apr |-> r.apr, last |-> now, accrued |-> more]
      BY <2>1, CheckpointIs
    <3> QED BY <3>1, <3>2 DEF more
  <2> QED BY <1>2, <2>1, <2>2, <2>4, <2>5, <2>6
<1> QED BY <1>1, <1>2

(* A record that has just been brought up to date has nothing pending. *)
LEMMA NothingPending ==
  ASSUME NEW k \in Yields!Pairs, record'[k] \in Yields!YieldRecord, now' \in Nat, record'[k].last = now'
  PROVE  Yields!CurrentYield(k)' = record'[k].accrued
<1>1. record'[k] # None /\ record'[k].principal \in Principals /\ record'[k].apr \in Rates
      /\ record'[k].accrued \in Nat
  BY Settings DEF Yields!YieldRecord
<1>2. Earned(record'[k].principal, record'[k].apr, now' - record'[k].last) = 0
  <2>1. now' - record'[k].last = 0
    OBVIOUS
  <2> QED BY <1>1, <2>1, Settings
<1> QED BY <1>1, <1>2 DEF Yields!CurrentYield, Yields!PendingYield

(* A pair no call touches yields as before. *)
LEMMA Untouched ==
  ASSUME NEW k, record'[k] = record[k], now' = now
  PROVE  Yields!CurrentYield(k)' = Yields!CurrentYield(k)
BY DEF Yields!CurrentYield, Yields!PendingYield

LEMMA Logged ==
  ASSUME PositionsInv, NEW ks \in SUBSET Yields!Pairs, Yields!LogAccrual(ks)
  PROVE  /\ logged' \in [Yields!Pairs -> 0..MaxLogged]
         /\ \A k \in Yields!Pairs : logged'[k] = IF k \in ks /\ record[k] # None
                                            THEN logged[k] + Yields!PendingYield(record[k])
                                            ELSE logged[k]
<1>1. \A k \in Yields!Pairs : logged'[k] = IF k \in ks /\ record[k] # None
                                      THEN logged[k] + Yields!PendingYield(record[k])
                                      ELSE logged[k]
  BY DEF Yields!LogAccrual
<1>2. ASSUME NEW k \in Yields!Pairs PROVE logged'[k] \in 0..MaxLogged
  <2>1. logged[k] \in 0..MaxLogged /\ MaxLogged \in Nat
    BY Settings DEF PositionsInv
  <2>2. CASE k \in ks /\ record[k] # None
    <3>1. Yields!PendingYield(record[k]) \in Nat
      BY <2>2, YieldTyped
    <3>2. logged'[k] <= MaxLogged
      BY <2>2 DEF Yields!LogAccrual
    <3> QED BY <1>1, <2>1, <2>2, <3>1, <3>2
  <2>3. CASE ~(k \in ks /\ record[k] # None)
    BY <1>1, <2>1, <2>3
  <2> QED BY <2>2, <2>3
<1>3. logged' = [k \in Yields!Pairs |-> logged'[k]]
  BY DEF Yields!LogAccrual
<1> QED BY <1>1, <1>2, <1>3

(***************************************************************************)
(* A call that brings some pairs up to date and pays n[k] to each: what it  *)
(* stores of those it pays, or stores without paying, is what they could    *)
(* claim less what they are paid; the rest it leaves as it was.             *)
(***************************************************************************)
Settles(ks, n) ==
  /\ now' = now
  /\ Yields!LogAccrual(ks)
  /\ DOMAIN record' = Yields!Pairs /\ record' = [k \in Yields!Pairs |-> record'[k]]
  /\ claimed' = [k \in Yields!Pairs |-> IF k \in ks THEN claimed[k] + n[k] ELSE claimed[k]]
  /\ \A k \in Yields!Pairs :
       \/ record'[k] = record[k] /\ (k \in ks => n[k] = 0)
       \/ /\ k \in ks /\ record'[k] \in Yields!YieldRecord /\ record'[k].last = now
          /\ n[k] \in Nat /\ record'[k].accrued + n[k] = Yields!CurrentYield(k)

(* What it leaves as it was had nothing pending. *)
UpToDate(k, ks) ==
  (record'[k] = record[k] /\ k \in ks /\ record[k] # None) => Yields!PendingYield(record[k]) = 0

LEMMA SettlesKeeps ==
  ASSUME PositionsInv, NEW ks \in SUBSET Yields!Pairs, NEW n, Settles(ks, n)
  PROVE  /\ PositionsInv'
         /\ \A k \in Yields!Pairs : claimed'[k] + Yields!CurrentYield(k)' = claimed[k] + Yields!CurrentYield(k)
         /\ \A k \in Yields!Pairs :
              ToldTrue(k) /\ UpToDate(k, ks)
                => ToldTrue(k)'
<1>0. now' = now /\ now \in Nat /\ now \in 0..MaxTime
  BY Settings DEF Settles, PositionsInv
<1> DEFINE Same(k) == record'[k] = record[k] /\ (k \in ks => n[k] = 0)
           Fresh(k) == /\ k \in ks /\ record'[k] \in Yields!YieldRecord /\ record'[k].last = now
                       /\ n[k] \in Nat /\ record'[k].accrued + n[k] = Yields!CurrentYield(k)
<1>1. \A k \in Yields!Pairs : Same(k) \/ Fresh(k)
  BY DEF Settles
<1>2. \A k \in Yields!Pairs : claimed'[k] = IF k \in ks THEN claimed[k] + n[k] ELSE claimed[k]
  BY DEF Settles
<1>3. /\ logged' \in [Yields!Pairs -> 0..MaxLogged]
      /\ \A k \in Yields!Pairs : logged'[k] = IF k \in ks /\ record[k] # None
                                         THEN logged[k] + Yields!PendingYield(record[k])
                                         ELSE logged[k]
  BY Logged DEF Settles
<1>4. ASSUME NEW k \in Yields!Pairs
      PROVE  /\ record'[k] \in Yields!YieldRecord \cup {None} /\ claimed'[k] \in Nat
             /\ record'[k] # None => record'[k].last <= now
             /\ record'[k] = None => logged'[k] = 0 /\ claimed'[k] = 0
             /\ claimed'[k] + Yields!CurrentYield(k)' = claimed[k] + Yields!CurrentYield(k)
             /\ ToldTrue(k) /\ UpToDate(k, ks)
                  => ToldTrue(k)'
  <2>0. /\ record[k] \in Yields!YieldRecord \cup {None} /\ claimed[k] \in Nat /\ logged[k] \in Nat
        /\ record[k] # None => record[k].last <= now
        /\ record[k] = None => logged[k] = 0 /\ claimed[k] = 0
        /\ Yields!CurrentYield(k) \in Nat
    BY YieldTyped DEF PositionsInv
  <2>1. CASE Same(k)
    <3>1. claimed'[k] = claimed[k]
      BY <1>2, <2>0, <2>1
    <3>2. Yields!CurrentYield(k)' = Yields!CurrentYield(k)
      BY <1>0, <2>1, Untouched
    <3>3. record[k] = None => logged'[k] = 0
      BY <1>3, <2>0
    <3>4. ASSUME ToldTrue(k), UpToDate(k, ks), record[k] # None
          PROVE  logged'[k] = claimed'[k] + record'[k].accrued
      <4>1. /\ record[k].accrued \in Nat /\ Yields!PendingYield(record[k]) \in Nat
            /\ Yields!CurrentYield(k) = record[k].accrued + Yields!PendingYield(record[k])
        BY <3>4, YieldTyped
      <4>2. k \in ks => Yields!PendingYield(record[k]) = 0
        BY <2>1, <3>4 DEF UpToDate
      <4>3. logged'[k] = logged[k]
        BY <1>3, <2>0, <3>4, <4>1, <4>2
      <4> QED BY <2>1, <3>1, <3>4, <4>3 DEF ToldTrue
    <3> HIDE DEF Same
    <3>5. record'[k] = record[k]
      BY <2>1 DEF Same
    <3> QED BY <2>0, <3>1, <3>2, <3>3, <3>4, <3>5 DEF ToldTrue
  <2>2. CASE Fresh(k)
    <3>1. record'[k] # None /\ record'[k].accrued \in Nat
      BY <2>2, Settings DEF Yields!YieldRecord
    <3>2. Yields!CurrentYield(k)' = record'[k].accrued
      BY <1>0, <2>2, NothingPending
    <3>3. claimed'[k] = claimed[k] + n[k] /\ n[k] \in Nat
      BY <1>2, <2>2
    <3>4. ASSUME ToldTrue(k) PROVE logged'[k] = claimed'[k] + record'[k].accrued
      <4>1. CASE record[k] = None
        <5>1. record'[k].accrued + n[k] = 0 /\ record'[k].accrued \in Nat /\ n[k] \in Nat
          BY <2>2, <3>1, <4>1, YieldTyped
        <5>2. logged'[k] = 0 /\ claimed[k] = 0
          BY <1>3, <2>0, <4>1
        <5> HIDE DEF Fresh
        <5> QED BY <3>3, <5>1, <5>2
      <4>2. CASE record[k] # None
        <5>1. /\ record[k].accrued \in Nat /\ Yields!PendingYield(record[k]) \in Nat
              /\ Yields!CurrentYield(k) = record[k].accrued + Yields!PendingYield(record[k])
          BY <4>2, YieldTyped
        <5>2. logged'[k] = logged[k] + Yields!PendingYield(record[k])
          BY <1>3, <2>2, <4>2
        <5>3. logged[k] = claimed[k] + record[k].accrued
          BY <3>4, <4>2 DEF ToldTrue
        <5>4. record'[k].accrued + n[k] = record[k].accrued + Yields!PendingYield(record[k])
          BY <2>2, <5>1
        <5>5. claimed[k] \in Nat /\ logged[k] \in Nat /\ record'[k].accrued \in Nat
          BY <2>0, <3>1
        <5> HIDE DEF Fresh
        <5> QED BY <3>3, <5>1, <5>2, <5>3, <5>4, <5>5
      <4> QED BY <4>1, <4>2
    <3>5. record'[k] \in Yields!YieldRecord /\ record'[k].last = now
          /\ record'[k].accrued + n[k] = Yields!CurrentYield(k)
      BY <2>2
    <3> HIDE DEF Fresh
    <3> QED BY <1>0, <2>0, <3>1, <3>2, <3>3, <3>4, <3>5 DEF ToldTrue
  <2> QED BY <1>1, <2>1, <2>2
<1>5. /\ record' \in [Yields!Pairs -> Yields!YieldRecord \cup {None}]
      /\ claimed' \in [Yields!Pairs -> Nat]
  <2>1. record' = [k \in Yields!Pairs |-> record'[k]] /\ claimed' = [k \in Yields!Pairs |-> claimed'[k]]
    BY DEF Settles
  <2> QED BY <1>4, <2>1
<1>6. PositionsInv'
  BY <1>0, <1>3, <1>4, <1>5 DEF PositionsInv
<1> QED BY <1>4, <1>6

-----------------------------------------------------------------------------
(* A reserve and the payments taken from it one after the other *)

Reserves == Nat \cup {Yields!NoReserve}

(* The recursive functions of Left and PaidNow are what they are meant to   *)
(* be: functions that exist.                                                *)
LEMMA LeftUnfolds ==
  ASSUME NEW start \in Reserves, NEW amounts \in Seq(Nat),
         NEW left, left = Yields!Left(start, amounts)
  PROVE  left = [i \in 0..Len(amounts) |->
                   IF i = 0 \/ start = Yields!NoReserve THEN start
                   ELSE left[i - 1] - Yields!AtMost(amounts[i], left[i - 1])]
<1> DEFINE n == Len(amounts)
           Body(f) == [i \in 0..n |-> IF i = 0 \/ start = Yields!NoReserve THEN start
                                      ELSE f[i - 1] - Yields!AtMost(amounts[i], f[i - 1])]
           step == [p \in (1..n) \X Int |-> IF start = Yields!NoReserve THEN start
                                            ELSE p[2] - Yields!AtMost(amounts[p[1]], p[2])]
<1>1. n \in Nat /\ start \in Int /\ \A i \in 1..n : amounts[i] \in Nat
  BY DEF Reserves, Yields!NoReserve
<1>2. step \in [(1..n) \X Int -> Int]
  BY <1>1 DEF Yields!AtMost
<1>3. PICK g : Runs(g, n, Int, start, step)
  <2> HIDE DEF step, n
  <2> QED BY <1>1, <1>2, Iterates
<1>4. g = Body(g)
  <2>1. g \in [0..n -> Int] /\ g[0] = start /\ \A i \in 1..n : g[i] = step[<<i, g[i - 1]>>]
    BY <1>3 DEF Runs
  <2>2. ASSUME NEW i \in 1..n
        PROVE  g[i] = IF start = Yields!NoReserve THEN start ELSE g[i - 1] - Yields!AtMost(amounts[i], g[i - 1])
    <3>1. <<i, g[i - 1]>> \in (1..n) \X Int
      <4>1. i - 1 \in 0..n
        BY <1>1
      <4> HIDE DEF n
      <4> QED BY <2>1, <4>1
    <3> QED BY <2>1, <3>1
  <2>3. \A i \in 0..n : g[i] = Body(g)[i]
    BY <1>1, <2>1, <2>2
  <2>4. g = [i \in 0..n |-> g[i]]
    BY <2>1
  <2> HIDE DEF n
  <2> QED BY <2>3, <2>4
<1>5. left = CHOOSE f : f = Body(f)
  BY DEF Yields!Left
<1> HIDE DEF Body
<1>6. left = Body(left)
  BY <1>4, <1>5, Zenon
<1> QED BY <1>6 DEF Body

LEMMA LeftIs ==
  ASSUME NEW start \in Reserves, NEW amounts \in Seq(Nat),
         NEW left, left = Yields!Left(start, amounts)
  PROVE  /\ left[0] = start
         /\ start = Yields!NoReserve => \A i \in 0..Len(amounts) : left[i] = start
         /\ start # Yields!NoReserve =>
              /\ \A i \in 0..Len(amounts) : left[i] \in Nat
              /\ \A i \in 1..Len(amounts) : left[i] = left[i - 1] - Yields!AtMost(amounts[i], left[i - 1])
<1> DEFINE n == Len(amounts)
<1>0. n \in Nat /\ \A i \in 1..n : amounts[i] \in Nat
  OBVIOUS
<1>1. \A i \in 0..n : left[i] = IF i = 0 \/ start = Yields!NoReserve THEN start
                                ELSE left[i - 1] - Yields!AtMost(amounts[i], left[i - 1])
  <2>1. left = [i \in 0..n |-> IF i = 0 \/ start = Yields!NoReserve THEN start
                               ELSE left[i - 1] - Yields!AtMost(amounts[i], left[i - 1])]
    BY LeftUnfolds
  <2> DEFINE E(i) == IF i = 0 \/ start = Yields!NoReserve THEN start
                     ELSE left[i - 1] - Yields!AtMost(amounts[i], left[i - 1])
  <2>2. left = [i \in 0..n |-> E(i)]
    BY <2>1
  <2> HIDE DEF E, n
  <2>3. \A i \in 0..n : left[i] = E(i)
    BY <2>2
  <2> QED BY <2>3 DEF E
<1>2. ASSUME start # Yields!NoReserve PROVE \A i \in 0..n : left[i] \in Nat
  <2> DEFINE S == {i \in 0..n : left[i] \in Nat}
  <2>1. 0 \in S
    BY <1>0, <1>1, <1>2 DEF Reserves
  <2>2. ASSUME NEW i \in 0..n, i < n, i \in S PROVE i + 1 \in S
    <3>1. i + 1 \in 1..n /\ i + 1 - 1 = i /\ left[i] \in Nat /\ amounts[i + 1] \in Nat
      BY <1>0, <2>2
    <3>2. left[i + 1] = left[i] - Yields!AtMost(amounts[i + 1], left[i])
      BY <1>1, <1>2, <3>1
    <3>3. left[i + 1] \in Nat
      BY <3>1, <3>2 DEF Yields!AtMost
    <3> QED BY <3>1, <3>3
  <2>3. 0..n \subseteq S
    <3> HIDE DEF S
    <3> QED BY <1>0, <2>1, <2>2, CountUp
  <2> QED BY <2>3
<1> QED BY <1>0, <1>1, <1>2

-----------------------------------------------------------------------------

(* The schedules of a list that are paid: due, and covered in their turn.   *)
LEMMA PaidNowIs ==
  ASSUME NEW start \in Reserves, NEW list \in Seq(Yields!Schedule)
  PROVE  /\ \A i \in Yields!PaidNow(list, start) : i \in 1..Len(list) /\ Yields!Due(list[i])
         /\ start # Yields!NoReserve =>
              \E left \in [0..Len(list) -> Nat] :
                /\ left[0] = start
                /\ \A i \in 1..Len(list) :
                     left[i] = IF i \in Yields!PaidNow(list, start) THEN left[i - 1] - list[i].amount
                               ELSE left[i - 1]
<1> DEFINE n == Len(list)
           Takes(i, m) == Yields!Due(list[i]) /\ list[i].amount <= m
           Body(f) == [i \in 0..n |-> IF i = 0 THEN start
                                      ELSE IF Yields!Due(list[i]) /\ list[i].amount <= f[i - 1]
                                      THEN f[i - 1] - list[i].amount ELSE f[i - 1]]
           step == [p \in (1..n) \X Int |->
                      IF Takes(p[1], p[2]) THEN p[2] - list[p[1]].amount ELSE p[2]]
           left == CHOOSE f : f = Body(f)
<1>1. n \in Nat /\ start \in Int /\ \A i \in 1..n : list[i] \in Yields!Schedule /\ list[i].amount \in Nat
  <2>1. n \in Nat /\ \A i \in 1..n : list[i] \in Yields!Schedule
    OBVIOUS
  <2>2. \A s \in Yields!Schedule : s.amount \in Nat
    BY DEF Yields!Schedule
  <2> HIDE DEF n
  <2> QED BY <2>1, <2>2 DEF Reserves, Yields!NoReserve
<1>2. step \in [(1..n) \X Int -> Int]
  <2> HIDE DEF Takes
  <2> QED BY <1>1
<1>3. PICK g : Runs(g, n, Int, start, step)
  <2> HIDE DEF step, n
  <2> QED BY <1>1, <1>2, Iterates
<1>4. g = Body(g)
  <2>1. g \in [0..n -> Int] /\ g[0] = start /\ \A i \in 1..n : g[i] = step[<<i, g[i - 1]>>]
    BY <1>3 DEF Runs
  <2>2. ASSUME NEW i \in 1..n
        PROVE  g[i] = IF Takes(i, g[i - 1]) THEN g[i - 1] - list[i].amount ELSE g[i - 1]
    <3>1. <<i, g[i - 1]>> \in (1..n) \X Int
      <4>1. i - 1 \in 0..n
        BY <1>1
      <4> HIDE DEF n
      <4> QED BY <2>1, <4>1
    <3> HIDE DEF Takes
    <3> QED BY <2>1, <3>1
  <2>3. \A i \in 0..n : g[i] = Body(g)[i]
    BY <1>1, <2>1, <2>2
  <2>4. g = [i \in 0..n |-> g[i]]
    BY <2>1
  <2> HIDE DEF n
  <2> QED BY <2>3, <2>4
<1>5. left = Body(left)
  <2> HIDE DEF Body
  <2> QED BY <1>4, Zenon
<1>6. Yields!PaidNow(list, start)
        = {i \in 1..n : Yields!Due(list[i]) /\ (start = Yields!NoReserve \/ list[i].amount <= left[i - 1])}
  BY DEF Yields!PaidNow
<1> HIDE DEF left
<1>7. \A i \in 0..n : left[i] = IF i = 0 THEN start
                                ELSE IF Takes(i, left[i - 1])
                                THEN left[i - 1] - list[i].amount ELSE left[i - 1]
  <2> DEFINE E(i) == IF i = 0 THEN start
                     ELSE IF Takes(i, left[i - 1]) THEN left[i - 1] - list[i].amount ELSE left[i - 1]
  <2>1. left = [i \in 0..n |-> E(i)]
    BY <1>5
  <2> HIDE DEF E, n
  <2>2. \A i \in 0..n : left[i] = E(i)
    BY <2>1
  <2> QED BY <2>2 DEF E
<1>8. ASSUME start # Yields!NoReserve
      PROVE  /\ left \in [0..n -> Nat] /\ left[0] = start
             /\ \A i \in 1..n : left[i] = IF i \in Yields!PaidNow(list, start)
                                          THEN left[i - 1] - list[i].amount ELSE left[i - 1]
  <2> DEFINE S == {i \in 0..n : left[i] \in Nat}
  <2>1. 0 \in S
    BY <1>1, <1>7, <1>8 DEF Reserves
  <2>2. ASSUME NEW i \in 0..n, i < n, i \in S PROVE i + 1 \in S
    <3>1. i + 1 \in 1..n /\ i + 1 - 1 = i /\ left[i] \in Nat /\ list[i + 1].amount \in Nat
      BY <1>1, <2>2
    <3>2. left[i + 1] = IF Takes(i + 1, left[i]) THEN left[i] - list[i + 1].amount ELSE left[i]
      BY <1>7, <3>1
    <3>3. left[i + 1] \in Nat
      BY <3>1, <3>2
    <3> QED BY <3>1, <3>3
  <2>3. 0..n \subseteq S
    <3> HIDE DEF S
    <3> QED BY <1>1, <2>1, <2>2, CountUp
  <2>4. \A i \in 1..n : left[i] = IF i \in Yields!PaidNow(list, start)
                                  THEN left[i - 1] - list[i].amount ELSE left[i - 1]
    BY <1>1, <1>6, <1>7, <1>8
  <2>5. left \in [0..n -> Nat]
    <3>1. left = [i \in 0..n |-> left[i]]
      BY <1>5
    <3> HIDE DEF n
    <3> QED BY <2>3, <3>1
  <2>6. left[0] = start
    BY <1>1, <1>7
  <2> QED BY <2>4, <2>5, <2>6
<1> QED BY <1>6, <1>8

(* What is taken from a reserve for them is within it. *)
LEMMA SumOfIs ==
  ASSUME NEW start \in Reserves, NEW list \in Seq(Yields!Schedule), NEW total,
         total = Yields!SumOf(list, Yields!PaidNow(list, start))
  PROVE  total \in Nat /\ (start # Yields!NoReserve => total <= start)
<1> DEFINE n == Len(list)
           is == Yields!PaidNow(list, start)
           v == [i \in 1..n |-> IF i \in is THEN list[i].amount ELSE 0]
<1>1. n \in Nat /\ \A i \in 1..n : list[i].amount \in Nat
  <2>1. n \in Nat /\ \A i \in 1..n : list[i] \in Yields!Schedule
    OBVIOUS
  <2>2. \A s \in Yields!Schedule : s.amount \in Nat
    BY DEF Yields!Schedule
  <2> HIDE DEF n
  <2> QED BY <2>1, <2>2
<1>2. n \in Nat /\ v \in [1..n -> Nat] /\ IsFiniteSet(1..n)
  <2>1. n \in Nat /\ v \in [1..n -> Nat]
    BY <1>1
  <2>2. 1 \in Int /\ n \in Int
    BY <2>1
  <2> HIDE DEF n, v
  <2>3. IsFiniteSet(1..n)
    BY <2>2, FS_Interval
  <2> QED BY <2>1, <2>3
<1>3. total = Total(v) /\ Total(v) \in Nat
  <2>1. total = Total(v)
    BY <1>1, TotalsAlike DEF Yields!SumOf
  <2> HIDE DEF v, n
  <2> QED BY <1>2, <2>1, UnitsFinite
<1>4. ASSUME start # Yields!NoReserve PROVE Total(v) <= start
  <2>1. PICK left \in [0..n -> Nat] :
          /\ left[0] = start
          /\ \A i \in 1..n : left[i] = IF i \in is THEN left[i - 1] - list[i].amount ELSE left[i - 1]
    BY <1>4, PaidNowIs
  <2>2. ASSUME NEW i \in 1..n PROVE left[i] = left[i - 1] - v[i]
    <3>1. i - 1 \in 0..n /\ list[i].amount \in Nat
      BY <1>1
    <3>2. left[i - 1] \in Nat
      <4> HIDE DEF n
      <4> QED BY <2>1, <3>1
    <3>3. v[i] = IF i \in is THEN list[i].amount ELSE 0
      OBVIOUS
    <3> HIDE DEF n, v, is
    <3> QED BY <2>1, <3>1, <3>2, <3>3
  <2> HIDE DEF v, n
  <2> QED BY <1>2, <2>1, <2>2, DrawnDown
<1> QED BY <1>3, <1>4

-----------------------------------------------------------------------------
(* Each call that touches positions settles them *)

LEMMA PairIs ==
  ASSUME NEW k \in Yields!Pairs
  PROVE  k[1] \in Stakers /\ k[2] \in Coins /\ k = <<k[1], k[2]>>
BY DEF Yields!Pairs

(* One pair is brought up to date and paid m. *)
LEMMA OneSettles ==
  ASSUME PositionsInv, NEW k \in Yields!Pairs, NEW new \in Yields!YieldRecord, NEW m \in Nat,
         new.last = now, new.accrued + m = Yields!CurrentYield(k),
         record' = [record EXCEPT ![k] = new], claimed' = [claimed EXCEPT ![k] = @ + m],
         Yields!LogAccrual({k}), now' = now
  PROVE  Settles({k}, [j \in {k} |-> m]) /\ record'[k].last = now
<1> DEFINE n == [j \in {k} |-> m]
<1>1. n[k] = m
  OBVIOUS
<1>2. record \in [Yields!Pairs -> Yields!YieldRecord \cup {None}] /\ claimed \in [Yields!Pairs -> Nat]
  BY DEF PositionsInv
<1>3. /\ record' = [j \in Yields!Pairs |-> record'[j]] /\ DOMAIN record' = Yields!Pairs
      /\ record'[k] = new /\ \A j \in Yields!Pairs \ {k} : record'[j] = record[j]
  BY <1>2
<1> HIDE DEF n
<1>4. claimed' = [j \in Yields!Pairs |-> IF j \in {k} THEN claimed[j] + n[j] ELSE claimed[j]]
  BY <1>1, <1>2
<1>5. ASSUME NEW j \in Yields!Pairs
      PROVE  \/ record'[j] = record[j] /\ (j \in {k} => n[j] = 0)
             \/ /\ j \in {k} /\ record'[j] \in Yields!YieldRecord /\ record'[j].last = now
                /\ n[j] \in Nat /\ record'[j].accrued + n[j] = Yields!CurrentYield(j)
  <2>1. CASE j = k
    BY <1>1, <1>3, <2>1
  <2>2. CASE j # k
    BY <1>3, <2>2
  <2> QED BY <2>1, <2>2
<1>6. Settles({k}, n)
  BY <1>3, <1>4, <1>5 DEF Settles
<1> QED BY <1>3, <1>6 DEF n

LEMMA OpenSettles ==
  ASSUME PositionsInv, NEW k \in Yields!Pairs, NEW p \in Principals, NEW r \in Rates,
         Yields!OpenPosition(k, p, r)
  PROVE  Settles({k}, [j \in {k} |-> 0]) /\ record'[k].last = now
<1> DEFINE new == [principal |-> p, apr |-> r, last |-> now, accrued |-> Yields!CurrentYield(k)]
<1>1. Yields!CurrentYield(k) \in Nat /\ now \in 0..MaxTime /\ record \in [Yields!Pairs -> Yields!YieldRecord \cup {None}]
      /\ claimed \in [Yields!Pairs -> Nat]
  BY YieldTyped DEF PositionsInv
<1>2. new \in Yields!YieldRecord /\ new # None /\ new.last = now /\ new.accrued = Yields!CurrentYield(k)
  BY <1>1, Settings DEF Yields!YieldRecord
<1>3. record' = [record EXCEPT ![k] = new] /\ Yields!LogAccrual({k}) /\ now' = now
      /\ claimed' = [claimed EXCEPT ![k] = @ + 0]
  BY <1>1 DEF Yields!OpenPosition
<1>4. new.accrued + 0 = Yields!CurrentYield(k)
  BY <1>1
<1> HIDE DEF new
<1> QED BY <1>2, <1>3, <1>4, OneSettles

LEMMA AccrueSettles ==
  ASSUME PositionsInv, NEW k \in Yields!Pairs, record[k] # None, NEW r \in Rates,
         \/ Yields!Accrue(k)
         \/ Yields!SetRate(k, r)
  PROVE  Settles({k}, [j \in {k} |-> 0]) /\ record'[k].last = now
<1> DEFINE at == [principal |-> record[k].principal, apr |-> record[k].apr, last |-> now,
                  accrued |-> Yields!CurrentYield(k)]
           new == IF Yields!Accrue(k) THEN at ELSE [at EXCEPT !.apr = r]
<1>1. Yields!CurrentYield(k) \in Nat /\ now \in 0..MaxTime /\ record \in [Yields!Pairs -> Yields!YieldRecord \cup {None}]
      /\ claimed \in [Yields!Pairs -> Nat]
  BY YieldTyped DEF PositionsInv
<1>2. Yields!AccrueTo(record[k]) = at /\ record[k].principal \in Principals /\ record[k].apr \in Rates
  BY YieldTyped
<1>3. new \in Yields!YieldRecord /\ new.last = now /\ new.accrued = Yields!CurrentYield(k)
  BY <1>1, <1>2 DEF Yields!YieldRecord
<1>4. record' = [record EXCEPT ![k] = new] /\ Yields!LogAccrual({k}) /\ now' = now
      /\ claimed' = [claimed EXCEPT ![k] = @ + 0]
  BY <1>1, <1>2 DEF Yields!Accrue, Yields!SetRate
<1>5. new.accrued + 0 = Yields!CurrentYield(k)
  BY <1>1, <1>3
<1> HIDE DEF new
<1> QED BY <1>3, <1>4, <1>5, OneSettles

LEMMA ClaimSettles ==
  ASSUME PositionsInv, NEW k \in Yields!Pairs, Yields!ClaimYield(k)
  PROVE  Settles({k}, [j \in {k} |-> Yields!CurrentYield(k)]) /\ record'[k].last = now
<1> DEFINE at == [principal |-> record[k].principal, apr |-> record[k].apr, last |-> now,
                  accrued |-> Yields!CurrentYield(k)]
           new == [at EXCEPT !.accrued = 0]
<1>0. record[k] # None
  BY DEF Yields!ClaimYield
<1>1. Yields!CurrentYield(k) \in Nat /\ now \in 0..MaxTime /\ record \in [Yields!Pairs -> Yields!YieldRecord \cup {None}]
      /\ claimed \in [Yields!Pairs -> Nat]
  BY YieldTyped DEF PositionsInv
<1>2. Yields!AccrueTo(record[k]) = at /\ record[k].principal \in Principals /\ record[k].apr \in Rates
  BY <1>0, YieldTyped
<1>3. new \in Yields!YieldRecord /\ new.last = now /\ new.accrued = 0
  BY <1>1, <1>2 DEF Yields!YieldRecord
<1>4. record' = [record EXCEPT ![k] = new] /\ Yields!LogAccrual({k}) /\ now' = now
      /\ claimed' = [claimed EXCEPT ![k] = @ + Yields!CurrentYield(k)]
  BY <1>2 DEF Yields!ClaimYield
<1>5. new.accrued + Yields!CurrentYield(k) = Yields!CurrentYield(k)
  BY <1>1, <1>3
<1> HIDE DEF new
<1> QED BY <1>1, <1>3, <1>4, <1>5, OneSettles

LEMMA PaySettles ==
  ASSUME PositionsInv, NEW ks \in SUBSET Yields!Pairs, NEW n, now' = now, Yields!Pay(ks, n),
         \A k \in ks : n[k] \in Nat /\ n[k] <= Yields!CurrentYield(k)
  PROVE  /\ Settles(ks, n)
         /\ \A k \in ks : record'[k] = record[k] => n[k] = 0
<1>1. record \in [Yields!Pairs -> Yields!YieldRecord \cup {None}] /\ now \in 0..MaxTime
  BY DEF PositionsInv
<1>2. record' = [k \in Yields!Pairs |-> IF k \in ks /\ n[k] > 0
                                   THEN [Yields!AccrueTo(record[k]) EXCEPT !.accrued = @ - n[k]]
                                   ELSE record[k]]
  BY DEF Yields!Pay
<1>3. ASSUME NEW k \in ks, n[k] > 0
      PROVE  /\ record'[k] \in Yields!YieldRecord /\ record'[k].last = now
             /\ record'[k].accrued + n[k] = Yields!CurrentYield(k)
  <2> DEFINE at == [principal |-> record[k].principal, apr |-> record[k].apr, last |-> now,
                    accrued |-> Yields!CurrentYield(k)]
  <2>0. n[k] \in Nat /\ n[k] <= Yields!CurrentYield(k)
    OBVIOUS
  <2>1. n[k] \in Nat /\ n[k] <= Yields!CurrentYield(k) /\ Yields!CurrentYield(k) \in Nat /\ record[k] # None
    <3>1. Yields!CurrentYield(k) \in Nat /\ (record[k] = None => Yields!CurrentYield(k) = 0)
      BY YieldTyped
    <3> QED BY <1>3, <2>0, <3>1
  <2>2. Yields!AccrueTo(record[k]) = at /\ record[k].principal \in Principals /\ record[k].apr \in Rates
    BY <2>1, YieldTyped
  <2>3. record'[k] = [Yields!AccrueTo(record[k]) EXCEPT !.accrued = @ - n[k]]
    BY <1>2, <1>3
  <2>4. record'[k] = [principal |-> record[k].principal, apr |-> record[k].apr, last |-> now,
                      accrued |-> Yields!CurrentYield(k) - n[k]]
    BY <2>2, <2>3
  <2>5. Yields!CurrentYield(k) - n[k] \in Nat /\ Yields!CurrentYield(k) - n[k] + n[k] = Yields!CurrentYield(k)
    BY <2>1
  <2> QED BY <1>1, <2>2, <2>4, <2>5 DEF Yields!YieldRecord
<1>4. ASSUME NEW k \in Yields!Pairs, ~(k \in ks /\ n[k] > 0)
      PROVE  record'[k] = record[k] /\ (k \in ks => n[k] = 0)
  BY <1>2, <1>4
<1>5. /\ DOMAIN record' = Yields!Pairs /\ record' = [k \in Yields!Pairs |-> record'[k]]
  BY <1>2
<1>6. /\ Yields!LogAccrual(ks)
      /\ claimed' = [k \in Yields!Pairs |-> IF k \in ks THEN claimed[k] + n[k] ELSE claimed[k]]
  BY DEF Yields!Pay
<1>7. Settles(ks, n)
  BY <1>3, <1>4, <1>5, <1>6 DEF Settles
<1>8. ASSUME NEW k \in ks, record'[k] = record[k], n[k] # 0 PROVE FALSE
  <2>1. n[k] > 0 /\ record[k].last = now /\ record[k] \in Yields!YieldRecord
        /\ record[k].accrued + n[k] = Yields!CurrentYield(k)
    BY <1>3, <1>8
  <2>2. Yields!CurrentYield(k) = record[k].accrued + Yields!PendingYield(record[k])
    BY <2>1, Settings, YieldTyped
  <2>3. Yields!PendingYield(record[k]) = 0
    <3>1. now - record[k].last = 0
      BY <1>1, <2>1
    <3> QED BY <2>1, <3>1, Settings DEF Yields!PendingYield, Yields!YieldRecord
  <2>4. record[k].accrued \in Nat /\ n[k] \in Nat
    BY <2>1 DEF Yields!YieldRecord
  <2> QED BY <2>1, <2>2, <2>3, <2>4
<1> QED BY <1>7, <1>8

-----------------------------------------------------------------------------
(* The payments of a batch *)

ReserveInv ==
  /\ reserve \in [Coins -> (0..MaxReserve) \cup {Yields!NoReserve}]
  /\ paused \in BOOLEAN

LEMMA ReserveIs ==
  ASSUME ReserveInv, NEW a \in Coins
  PROVE  /\ reserve[a] \in Reserves /\ reserve[a] \in Int
         /\ reserve[a] # Yields!NoReserve => reserve[a] \in 0..MaxReserve
BY Settings DEF ReserveInv, Reserves, Yields!NoReserve

(***************************************************************************)
(* A batch pays each staker it names at most what that staker could claim,  *)
(* all of it when there is no reserve, and takes from the reserve what it   *)
(* pays.                                                                    *)
(***************************************************************************)
PaysBatch(list, a, n, ks, m, v) ==
  /\ ks \in SUBSET Yields!Pairs /\ m \in Nat /\ v \in [1..m -> Nat]
  /\ Settles(ks, n)
  /\ list \in Injection(1..m, Stakers)
  /\ ks = {<<list[i], a>> : i \in 1..m}
  /\ \A i \in 1..m : n[<<list[i], a>>] = v[i]
  /\ \A k \in ks : record'[k] = record[k] => n[k] = 0
  /\ reserve[a] = Yields!NoReserve => \A k \in ks : n[k] = Yields!CurrentYield(k)
  /\ UNCHANGED <<paid, schedules, offered, paused>>
  /\ reserve' = [b \in Coins |-> reserve'[b]] /\ \A b \in Coins \ {a} : reserve'[b] = reserve[b]
  /\ reserve[a] = Yields!NoReserve => reserve'[a] = Yields!NoReserve
  /\ reserve[a] # Yields!NoReserve =>
       reserve'[a] = reserve[a] - Total(v) /\ Total(v) <= reserve[a]

LEMMA BatchPays ==
  ASSUME PositionsInv, ReserveInv, NEW list \in Yields!Batches, NEW a \in Coins, Yields!BatchClaim(list, a)
  PROVE  \E n, ks, m, v : PaysBatch(list, a, n, ks, m, v)
<1>1. PICK m \in 1..Yields!Cardinality(Stakers) :
        list \in [1..m -> Stakers] /\ \A i, j \in 1..m : list[i] = list[j] => i = j
  BY DEF Yields!Batches
<1>2. m \in Nat /\ m >= 1
  <2>1. Cardinality(Stakers) \in Nat
    BY Settings, FS_CardinalityType
  <2> QED BY <1>1, <2>1, TotalsAlike
<1>3. list \in Seq(Stakers) /\ Len(list) = m
  BY <1>1, <1>2
<1>4. list \in Injection(1..m, Stakers)
  BY <1>1 DEF Injection, IsInjective
<1> DEFINE amounts == [i \in 1..m |-> Yields!CurrentYield(<<list[i], a>>)]
           start == reserve[a]
           left == Yields!Left(start, amounts)
           ks == {<<list[i], a>> : i \in 1..m}
           place(k) == CHOOSE i \in 1..m : list[i] = k[1]
           n == [k \in ks |-> Yields!Capped(amounts[place(k)], left[place(k) - 1])]
           v == [i \in 1..m |-> Yields!Capped(amounts[i], left[i - 1])]
<1>5. ks \in SUBSET Yields!Pairs
  BY <1>1 DEF Yields!Pairs
<1>6. \A i \in 1..m : amounts[i] \in Nat /\ amounts[i] = Yields!CurrentYield(<<list[i], a>>)
  <2>1. \A i \in 1..m : <<list[i], a>> \in Yields!Pairs
    BY <1>1 DEF Yields!Pairs
  <2> QED BY <2>1, YieldTyped
<1>7. amounts \in Seq(Nat) /\ Len(amounts) = m /\ start \in Reserves
  <2>1. amounts \in [1..m -> Nat]
    BY <1>6
  <2> HIDE DEF amounts
  <2> QED BY <1>2, <2>1, ReserveIs
<1>8. /\ left[0] = start
      /\ start = Yields!NoReserve => \A i \in 0..m : left[i] = start
      /\ start # Yields!NoReserve =>
           /\ \A i \in 0..m : left[i] \in Nat
           /\ \A i \in 1..m : left[i] = left[i - 1] - Yields!AtMost(amounts[i], left[i - 1])
  <2> HIDE DEF amounts, left, start
  <2>1. start \in Reserves /\ amounts \in Seq(Nat) /\ left = Yields!Left(start, amounts)
    BY <1>7 DEF left
  <2> DEFINE Is(l) ==
        /\ left[0] = start
        /\ start = Yields!NoReserve => \A i \in 0..l : left[i] = start
        /\ start # Yields!NoReserve =>
             /\ \A i \in 0..l : left[i] \in Nat
             /\ \A i \in 1..l : left[i] = left[i - 1] - Yields!AtMost(amounts[i], left[i - 1])
  <2>2. Is(Len(amounts))
    BY <2>1, LeftIs
  <2> HIDE DEF Is
  <2>3. Is(m)
    BY <1>7, <2>2
  <2> QED BY <2>3 DEF Is
<1>9. /\ Yields!Pay(ks, n) /\ reserve' = [reserve EXCEPT ![a] = left[m]] /\ now' = now
      /\ UNCHANGED <<paid, schedules, offered, paused>>
  <2> USE <1>3
  <2> QED BY DEF Yields!BatchClaim, Yields!payouts
<1>10. \A i \in 1..m : place(<<list[i], a>>) = i
  <2> SUFFICES ASSUME NEW i \in 1..m PROVE (CHOOSE j \in 1..m : list[j] = list[i]) = i
    OBVIOUS
  <2> QED BY <1>1
<1>11. ASSUME NEW i \in 1..m
       PROVE  /\ n[<<list[i], a>>] = v[i] /\ v[i] \in Nat /\ v[i] <= amounts[i]
              /\ start = Yields!NoReserve => v[i] = amounts[i]
              /\ start # Yields!NoReserve => left[i] = left[i - 1] - v[i]
  <2>1. n[<<list[i], a>>] = v[i] /\ v[i] = Yields!Capped(amounts[i], left[i - 1])
    <3> HIDE DEF amounts, left, place
    <3> QED BY <1>10
  <2>2. i - 1 \in 0..m /\ amounts[i] \in Nat
    BY <1>2, <1>6
  <2> HIDE DEF amounts, left, start, n, v
  <2>3. CASE start = Yields!NoReserve
    BY <1>8, <2>1, <2>2, <2>3 DEF Yields!Capped
  <2>4. CASE start # Yields!NoReserve
    <3>1. left[i - 1] \in Nat /\ left[i] = left[i - 1] - Yields!AtMost(amounts[i], left[i - 1])
      BY <1>8, <2>2, <2>4
    <3> QED BY <2>1, <2>2, <2>4, <3>1 DEF Yields!Capped, Yields!AtMost, Yields!NoReserve
  <2> QED BY <2>3, <2>4
<1>12. v \in [1..m -> Nat]
  <2>1. v = [i \in 1..m |-> v[i]]
    OBVIOUS
  <2> HIDE DEF v
  <2> QED BY <1>11, <2>1
<1> HIDE DEF n, v, left, start
<1>13. ASSUME NEW k \in ks
       PROVE  /\ n[k] \in Nat /\ n[k] <= Yields!CurrentYield(k)
              /\ start = Yields!NoReserve => n[k] = Yields!CurrentYield(k)
  <2>1. PICK i \in 1..m : k = <<list[i], a>>
    OBVIOUS
  <2> HIDE DEF ks, amounts
  <2> QED BY <1>6, <1>11, <2>1
<1> HIDE DEF ks
<1>14. Settles(ks, n) /\ \A k \in ks : record'[k] = record[k] => n[k] = 0
  BY <1>5, <1>9, <1>13, PaySettles
<1>15. /\ reserve' = [b \in Coins |-> reserve'[b]] /\ \A b \in Coins \ {a} : reserve'[b] = reserve[b]
       /\ reserve'[a] = left[m]
  BY <1>9 DEF ReserveInv
<1>16. start = Yields!NoReserve => left[m] = Yields!NoReserve
  BY <1>2, <1>8
<1>17. ASSUME start # Yields!NoReserve PROVE left[m] = start - Total(v) /\ Total(v) <= start
  <2> DEFINE rest == [i \in 0..m |-> left[i]]
  <2>1. rest \in [0..m -> Nat] /\ rest[0] = start /\ rest[m] = left[m]
    BY <1>2, <1>8, <1>17
  <2>2. \A i \in 1..m : rest[i] = rest[i - 1] - v[i]
    <3>1. ASSUME NEW i \in 1..m PROVE rest[i] = rest[i - 1] - v[i]
      <4>1. i \in 0..m /\ i - 1 \in 0..m
        BY <1>2
      <4> QED BY <1>11, <1>17, <4>1
    <3> QED BY <3>1
  <2> HIDE DEF rest
  <2> QED BY <1>2, <1>12, <2>1, <2>2, DrawnDown
<1>18. \A i \in 1..m : n[<<list[i], a>>] = v[i]
  BY <1>11
<1>19. reserve[a] = start /\ ks = {<<list[i], a>> : i \in 1..m}
  BY DEF start, ks
<1> HIDE DEF amounts
<1>20. PaysBatch(list, a, n, ks, m, v)
  BY <1>2, <1>4, <1>5, <1>9, <1>12, <1>13, <1>14, <1>15, <1>16, <1>17, <1>18, <1>19 DEF PaysBatch
<1> QED BY <1>20, Zenon

-----------------------------------------------------------------------------
(* What a call pays and what it takes from a reserve *)

PayoutsTyped ==
  /\ paid \in [Yields!Pairs -> Nat]
  /\ schedules \in [Yields!Pairs -> Seq(Yields!Schedule)] /\ offered \in [Yields!Pairs -> Seq(Yields!Offer)]

(* A sum over the stakers of an asset grows by what they receive together.  *)
LEMMA PaidOutGrows ==
  ASSUME NEW a \in Coins, NEW gain \in [Stakers -> Nat],
         claimed \in [Yields!Pairs -> Nat], paid \in [Yields!Pairs -> Nat],
         claimed' \in [Yields!Pairs -> Nat], paid' \in [Yields!Pairs -> Nat],
         \A s \in Stakers : claimed'[<<s, a>>] + paid'[<<s, a>>]
                              = claimed[<<s, a>>] + paid[<<s, a>>] + gain[s]
  PROVE  Yields!PaidOut(a)' = Yields!PaidOut(a) + Total(gain) /\ Yields!PaidOut(a) \in Nat /\ Total(gain) \in Nat
<1> DEFINE f == [s \in Stakers |-> claimed[<<s, a>>] + paid[<<s, a>>]]
           h == [s \in Stakers |-> claimed'[<<s, a>>] + paid'[<<s, a>>]]
<1>1. \A s \in Stakers : <<s, a>> \in Yields!Pairs
  BY DEF Yields!Pairs
<1>2. f \in [Stakers -> Nat] /\ h \in [Stakers -> Nat] /\ \A s \in Stakers : h[s] = f[s] + gain[s]
  BY <1>1
<1>3. Yields!PaidOut(a) = Total(f) /\ Yields!PaidOut(a)' = Total(h)
  BY TotalsAlike DEF Yields!PaidOut
<1> HIDE DEF f, h
<1> QED BY <1>2, <1>3, Settings, TotalSum, UnitsFinite

(* Nobody receives anything, or one staker alone does.                      *)
LEMMA PaidOutSame ==
  ASSUME NEW a, claimed' = claimed, paid' = paid
  PROVE  Yields!PaidOut(a)' = Yields!PaidOut(a)
BY DEF Yields!PaidOut

LEMMA PaidOutOne ==
  ASSUME NEW k \in Yields!Pairs, NEW n \in Nat,
         claimed \in [Yields!Pairs -> Nat], paid \in [Yields!Pairs -> Nat],
         \/ claimed' = [claimed EXCEPT ![k] = @ + n] /\ paid' = paid
         \/ paid' = [paid EXCEPT ![k] = @ + n] /\ claimed' = claimed
  PROVE  /\ Yields!PaidOut(k[2])' = Yields!PaidOut(k[2]) + n /\ Yields!PaidOut(k[2]) \in Nat
         /\ \A a \in Coins \ {k[2]} : Yields!PaidOut(a)' = Yields!PaidOut(a)
<1> DEFINE gain == [s \in Stakers |-> IF s = k[1] THEN n ELSE 0]
           none == [s \in Stakers |-> 0]
<1>1. k[1] \in Stakers /\ k[2] \in Coins /\ k = <<k[1], k[2]>>
  BY PairIs
<1>2. claimed' \in [Yields!Pairs -> Nat] /\ paid' \in [Yields!Pairs -> Nat]
  OBVIOUS
<1>3. Total(gain) = n
  <2>1. /\ gain \in [Stakers -> Nat] /\ none \in [Stakers -> Nat]
        /\ gain[k[1]] = none[k[1]] + n /\ \A s \in Stakers \ {k[1]} : gain[s] = none[s]
    BY <1>1
  <2>2. Total(none) = 0
    BY TotalZero
  <2> HIDE DEF gain, none
  <2>3. Total(gain) = Total(none) + n
    BY <1>1, <2>1, Settings, TotalRaise
  <2> QED BY <2>2, <2>3
<1>4. \A s \in Stakers, a \in Coins :
        <<s, a>> \in Yields!Pairs /\ (<<s, a>> = k <=> s = k[1] /\ a = k[2])
  BY <1>1 DEF Yields!Pairs
<1>5. \A s \in Stakers :
        claimed'[<<s, k[2]>>] + paid'[<<s, k[2]>>] = claimed[<<s, k[2]>>] + paid[<<s, k[2]>>] + gain[s]
  BY <1>1, <1>4
<1>6. gain \in [Stakers -> Nat]
  OBVIOUS
<1>7. Yields!PaidOut(k[2])' = Yields!PaidOut(k[2]) + n /\ Yields!PaidOut(k[2]) \in Nat
  <2> HIDE DEF gain
  <2> QED BY <1>1, <1>2, <1>3, <1>5, <1>6, PaidOutGrows
<1>8. ASSUME NEW a \in Coins \ {k[2]} PROVE Yields!PaidOut(a)' = Yields!PaidOut(a)
  <2>1. \A s \in Stakers : claimed'[<<s, a>>] = claimed[<<s, a>>] /\ paid'[<<s, a>>] = paid[<<s, a>>]
    BY <1>4
  <2>2. [s \in Stakers |-> claimed'[<<s, a>>] + paid'[<<s, a>>]]
          = [s \in Stakers |-> claimed[<<s, a>>] + paid[<<s, a>>]]
    BY <2>1
  <2> QED BY <2>2 DEF Yields!PaidOut
<1> QED BY <1>7, <1>8

LEMMA BatchBacked ==
  ASSUME PositionsInv, ReserveInv, PayoutsTyped,
         NEW list \in Yields!Batches, NEW a \in Coins, Yields!BatchClaim(list, a)
  PROVE  Yields!ReserveBacksPayouts
<1>1. PICK n, ks, m, v : PaysBatch(list, a, n, ks, m, v)
  BY BatchPays
<1> USE DEF PaysBatch
<1>2. ASSUME NEW b \in Coins \ {a} PROVE ~(reserve'[b] < reserve[b])
  BY <1>1, ReserveIs
<1>3. Yields!PaidOut(a)' = Yields!PaidOut(a) + Total(v) /\ Yields!PaidOut(a) \in Nat /\ Total(v) \in Nat
  <2> DEFINE gain == [s \in Stakers |-> IF <<s, a>> \in ks THEN n[<<s, a>>] ELSE 0]
  <2>1. list \in [1..m -> Stakers]
    BY <1>1 DEF Injection
  <2>2. \A s \in Stakers : <<s, a>> \in ks <=> \E i \in 1..m : list[i] = s
    BY <1>1, <2>1
  <2>3. \A i \in 1..m : gain[list[i]] = v[i]
    BY <1>1, <2>1, <2>2
  <2>4. \A s \in Stakers : (\A i \in 1..m : list[i] # s) => gain[s] = 0
    BY <2>2
  <2>5. gain \in [Stakers -> Nat]
    <3>1. ASSUME NEW s \in Stakers PROVE (IF <<s, a>> \in ks THEN n[<<s, a>>] ELSE 0) \in Nat
      <4>1. CASE <<s, a>> \in ks
        <5>1. PICK i \in 1..m : list[i] = s
          BY <2>2, <4>1
        <5> QED BY <1>1, <4>1, <5>1
      <4>2. CASE <<s, a>> \notin ks
        BY <4>2
      <4> QED BY <4>1, <4>2
    <3> QED BY <3>1
  <2>6. IsFiniteSet(1..m)
    <3>1. 1 \in Int /\ m \in Int
      BY <1>1
    <3> QED BY <3>1, FS_Interval
  <2>7. Total(gain) = Total(v)
    <3> DEFINE dom == 1..m
    <3>1. /\ IsFiniteSet(dom) /\ v \in [dom -> Nat] /\ list \in Injection(dom, Stakers)
          /\ \A i \in dom : gain[list[i]] = v[i]
          /\ \A s \in Stakers : (\A i \in dom : list[i] # s) => gain[s] = 0
      BY <1>1, <2>3, <2>4, <2>6
    <3> HIDE DEF gain, dom, PaysBatch
    <3> QED BY ONLY <2>5, <3>1, TotalRelabel
  <2>8. claimed \in [Yields!Pairs -> Nat] /\ claimed' \in [Yields!Pairs -> Nat]
    BY <1>1, SettlesKeeps DEF PositionsInv
  <2>9. paid \in [Yields!Pairs -> Nat] /\ paid' \in [Yields!Pairs -> Nat] /\ paid' = paid
    BY <1>1 DEF PayoutsTyped
  <2>10. \A s \in Stakers : claimed'[<<s, a>>] + paid'[<<s, a>>]
                              = claimed[<<s, a>>] + paid[<<s, a>>] + gain[s]
    <3>1. ASSUME NEW s \in Stakers
          PROVE  claimed'[<<s, a>>] = claimed[<<s, a>>] + gain[s]
      <4>1. <<s, a>> \in Yields!Pairs
        BY DEF Yields!Pairs
      <4>2. claimed'[<<s, a>>] = IF <<s, a>> \in ks THEN claimed[<<s, a>>] + n[<<s, a>>]
                                 ELSE claimed[<<s, a>>]
        BY <1>1, <4>1 DEF Settles
      <4>3. claimed[<<s, a>>] \in Nat
        BY <2>8, <4>1
      <4> QED BY <4>2, <4>3
    <3>2. \A s \in Stakers : <<s, a>> \in Yields!Pairs /\ claimed[<<s, a>>] \in Nat /\ paid[<<s, a>>] \in Nat
      BY <2>8, <2>9 DEF Yields!Pairs
    <3> HIDE DEF gain
    <3> QED BY <2>5, <2>9, <3>1, <3>2
  <2> HIDE DEF gain, PaysBatch
  <2> QED BY <2>5, <2>7, <2>8, <2>9, <2>10, PaidOutGrows
<1>4. (reserve'[a] < reserve[a] /\ Yields!PaidOut(a)' # Yields!PaidOut(a)) =>
        Yields!PaidOut(a)' - Yields!PaidOut(a) = reserve[a] - reserve'[a]
  <2>1. reserve[a] \in Int
    BY ReserveIs
  <2>2. CASE reserve[a] = Yields!NoReserve
    BY <1>1, <2>1, <2>2
  <2>3. CASE reserve[a] # Yields!NoReserve
    <3>1. reserve'[a] = reserve[a] - Total(v)
      BY <1>1, <2>3
    <3> QED BY <1>3, <2>1, <3>1
  <2> QED BY <2>2, <2>3
<1> QED BY <1>2, <1>4 DEF Yields!ReserveBacksPayouts

-----------------------------------------------------------------------------
(* Claims, and what they keep *)

(* A position as old as its last checkpoint has nothing pending. *)
LEMMA PendingNow ==
  ASSUME PositionsInv, NEW k \in Yields!Pairs, record[k] # None, record[k].last = now
  PROVE  Yields!PendingYield(record[k]) = 0
<1>1. now \in Nat /\ record[k] \in Yields!YieldRecord
  BY Settings DEF PositionsInv
<1>2. now - record[k].last = 0 /\ record[k].principal \in Principals /\ record[k].apr \in Rates
  BY <1>1 DEF Yields!YieldRecord
<1> QED BY <1>2, Settings DEF Yields!PendingYield

DatesTrue(k) ==
  /\ Len(offered[k]) = Len(schedules[k])
  /\ \A i \in 1..Len(schedules[k]) : schedules[k][i].due >= offered[k][i].due

PayoutsInv == PayoutsTyped /\ (\A k \in Yields!Pairs : DatesTrue(k)) /\ Yields!PaidOncePerDate

YieldInv == PositionsInv /\ ReserveInv /\ PayoutsInv /\ Yields!HistoryTrue

LEMMA SettledKeeps ==
  ASSUME YieldInv, NEW ks \in SUBSET Yields!Pairs, NEW n, Settles(ks, n),
         UNCHANGED <<paid, schedules, offered>>, ReserveInv',
         \A a \in Coins : reserve'[a] = Yields!NoReserve => reserve[a] = Yields!NoReserve,
         \A k \in ks : reserve[k[2]] = Yields!NoReserve => UpToDate(k, ks)
  PROVE  YieldInv' /\ Yields!EntitlementKept
<1>1. PositionsInv' /\ Yields!EntitlementKept
  BY SettlesKeeps DEF YieldInv, Yields!EntitlementKept
<1>2. Yields!HistoryTrue'
  <2> SUFFICES ASSUME NEW k \in Yields!Pairs, reserve'[k[2]] = Yields!NoReserve PROVE ToldTrue(k)'
    BY DEF Yields!HistoryTrue, ToldTrue
  <2>1. reserve[k[2]] = Yields!NoReserve
    BY PairIs
  <2>2. ToldTrue(k)
    BY <2>1 DEF YieldInv, Yields!HistoryTrue, ToldTrue
  <2>3. UpToDate(k, ks)
    BY <2>1 DEF UpToDate
  <2> QED BY <2>2, <2>3, SettlesKeeps DEF YieldInv
<1>3. PayoutsInv'
  BY DEF YieldInv, PayoutsInv, PayoutsTyped, DatesTrue, Yields!PaidOncePerDate, Settles
<1> QED BY <1>1, <1>2, <1>3 DEF YieldInv

(* No reserve changes, so none backs anything. *)
LEMMA NothingDrawn ==
  ASSUME ReserveInv, reserve' = reserve
  PROVE  Yields!ReserveBacksPayouts
<1>1. \A a \in Coins : ~(reserve'[a] < reserve[a])
  BY ReserveIs
<1> QED BY <1>1 DEF Yields!ReserveBacksPayouts

LEMMA EarnKeeps ==
  ASSUME YieldInv, Yields!Earn \/ \E k \in Yields!Pairs : Yields!ClaimYield(k)
  PROVE  YieldInv' /\ Yields!EntitlementKept /\ Yields!ReserveBacksPayouts
<1>1. PICK k \in Yields!Pairs :
        \/ \E p \in Principals, r \in Rates : Yields!OpenPosition(k, p, r)
        \/ Yields!Accrue(k)
        \/ \E r \in Rates : Yields!SetRate(k, r)
        \/ Yields!ClaimYield(k)
  BY DEF Yields!Earn
<1>2. UNCHANGED <<paid, schedules, offered, reserve, paused>>
  BY <1>1 DEF Yields!OpenPosition, Yields!Accrue, Yields!SetRate, Yields!ClaimYield, Yields!payouts
<1>3. PositionsInv /\ ReserveInv
  BY DEF YieldInv
<1>4. (\E n : Settles({k}, n)) /\ record'[k].last = now
  <2>1. CASE \E p \in Principals, r \in Rates : Yields!OpenPosition(k, p, r)
    BY <1>3, <2>1, OpenSettles
  <2>2. CASE Yields!Accrue(k)
    <3>1. record[k] # None /\ record[k].apr \in Rates
      BY <1>3, <2>2, YieldTyped DEF Yields!Accrue
    <3> QED BY <1>3, <2>2, <3>1, AccrueSettles
  <2>3. CASE \E r \in Rates : Yields!SetRate(k, r)
    BY <1>3, <2>3, AccrueSettles DEF Yields!SetRate
  <2>4. CASE Yields!ClaimYield(k)
    BY <1>3, <2>4, ClaimSettles
  <2> QED BY <1>1, <2>1, <2>2, <2>3, <2>4
<1>5. UpToDate(k, {k})
  BY <1>3, <1>4, PendingNow DEF UpToDate
<1>6. ReserveInv'
  BY <1>2, <1>3 DEF ReserveInv
<1>7. PICK n : Settles({k}, n)
  BY <1>4
<1>8. YieldInv' /\ Yields!EntitlementKept
  BY <1>2, <1>5, <1>6, <1>7, SettledKeeps
<1> QED BY <1>2, <1>3, <1>8, NothingDrawn

LEMMA PartialKeeps ==
  ASSUME YieldInv, NEW k \in Yields!Pairs, NEW amount \in Claims, Yields!ClaimYieldPartial(k, amount)
  PROVE  YieldInv' /\ Yields!EntitlementKept /\ Yields!ReserveBacksPayouts
<1> DEFINE m == Yields!Capped(Yields!AtMost(amount, Yields!CurrentYield(k)), reserve[k[2]])
           n == [j \in {k} |-> m]
           a == k[2]
<1>1. /\ PositionsInv /\ ReserveInv /\ PayoutsTyped /\ a \in Coins /\ record[k] # None
      /\ Yields!CurrentYield(k) \in Nat /\ amount \in Nat /\ amount > 0
  <2>1. PositionsInv /\ ReserveInv /\ PayoutsTyped /\ record[k] # None
    BY DEF YieldInv, PayoutsInv, Yields!ClaimYieldPartial
  <2>2. a \in Coins
    BY PairIs
  <2>3. Yields!CurrentYield(k) \in Nat
    BY <2>1, YieldTyped
  <2>4. amount \in Nat /\ amount > 0
    BY Settings
  <2> QED BY <2>1, <2>2, <2>3, <2>4
<1>2. reserve[a] \in Int /\ (reserve[a] # Yields!NoReserve => reserve[a] \in 0..MaxReserve)
  BY <1>1, ReserveIs
<1>3. /\ m \in Nat /\ m <= Yields!CurrentYield(k)
      /\ reserve[a] # Yields!NoReserve => m <= reserve[a]
      /\ reserve[a] = Yields!NoReserve /\ m = 0 => Yields!CurrentYield(k) = 0
  BY <1>1, <1>2 DEF Yields!Capped, Yields!AtMost
<1>4. /\ Yields!Pay({k}, n) /\ now' = now /\ UNCHANGED <<paid, schedules, offered, paused>>
      /\ reserve' = [reserve EXCEPT ![a] = IF @ = Yields!NoReserve THEN @ ELSE @ - m]
  BY DEF Yields!ClaimYieldPartial, Yields!payouts
<1>5. n[k] = m
  OBVIOUS
<1> HIDE DEF n, m
<1>6. Settles({k}, n) /\ (record'[k] = record[k] => m = 0)
  BY <1>1, <1>3, <1>4, <1>5, PaySettles
<1>7. reserve[a] = Yields!NoReserve => UpToDate(k, {k})
  <2>1. /\ record[k].accrued \in Nat /\ Yields!PendingYield(record[k]) \in Nat
        /\ Yields!CurrentYield(k) = record[k].accrued + Yields!PendingYield(record[k])
    BY <1>1, YieldTyped
  <2> QED BY <1>3, <1>6, <2>1 DEF UpToDate
<1>8. /\ reserve'[a] = IF reserve[a] = Yields!NoReserve THEN reserve[a] ELSE reserve[a] - m
      /\ \A b \in Coins \ {a} : reserve'[b] = reserve[b]
      /\ reserve' = [b \in Coins |-> reserve'[b]]
  BY <1>1, <1>4 DEF ReserveInv
<1>9. ReserveInv' /\ (reserve'[a] = Yields!NoReserve => reserve[a] = Yields!NoReserve)
  <2>1. reserve'[a] \in (0..MaxReserve) \cup {Yields!NoReserve}
        /\ (reserve'[a] = Yields!NoReserve => reserve[a] = Yields!NoReserve)
    BY <1>2, <1>3, <1>8, Settings DEF Yields!NoReserve
  <2>2. \A b \in Coins : reserve'[b] \in (0..MaxReserve) \cup {Yields!NoReserve}
    BY <1>1, <1>8, <2>1 DEF ReserveInv
  <2>3. paused' = paused
    BY <1>4
  <2> QED BY <1>1, <1>8, <2>1, <2>2, <2>3 DEF ReserveInv
<1>10. YieldInv' /\ Yields!EntitlementKept
  BY <1>4, <1>6, <1>7, <1>8, <1>9, SettledKeeps
<1>11. claimed' = [claimed EXCEPT ![k] = @ + m] /\ paid' = paid
       /\ claimed \in [Yields!Pairs -> Nat] /\ paid \in [Yields!Pairs -> Nat]
  BY <1>1, <1>4, <1>5, <1>6 DEF Settles, PositionsInv, PayoutsTyped
<1>12. /\ Yields!PaidOut(a)' = Yields!PaidOut(a) + m /\ Yields!PaidOut(a) \in Nat
       /\ \A b \in Coins \ {a} : Yields!PaidOut(b)' = Yields!PaidOut(b)
  BY <1>3, <1>11, PaidOutOne
<1>13. (reserve'[a] < reserve[a] /\ Yields!PaidOut(a)' # Yields!PaidOut(a)) =>
         Yields!PaidOut(a)' - Yields!PaidOut(a) = reserve[a] - reserve'[a]
  BY <1>2, <1>3, <1>8, <1>12
<1>14. Yields!ReserveBacksPayouts
  BY <1>12, <1>13 DEF Yields!ReserveBacksPayouts
<1> QED BY <1>10, <1>14

LEMMA BatchKeeps ==
  ASSUME YieldInv, NEW list \in Yields!Batches, NEW a \in Coins, Yields!BatchClaim(list, a)
  PROVE  YieldInv' /\ Yields!EntitlementKept /\ Yields!ReserveBacksPayouts
<1>1. PositionsInv /\ ReserveInv /\ PayoutsTyped
  BY DEF YieldInv, PayoutsInv
<1>2. PICK n, ks, m, v : PaysBatch(list, a, n, ks, m, v)
  BY <1>1, BatchPays
<1>3. ks \in SUBSET Yields!Pairs /\ Settles(ks, n) /\ UNCHANGED <<paid, schedules, offered, paused>>
  BY <1>2 DEF PaysBatch
<1>4. IsFiniteSet(1..m)
  <2>1. 1 \in Int /\ m \in Int
    BY <1>2 DEF PaysBatch
  <2> QED BY <2>1, FS_Interval
<1>5. Total(v) \in Nat
  <2> DEFINE dom == 1..m
  <2>1. v \in [dom -> Nat] /\ IsFiniteSet(dom)
    BY <1>2, <1>4 DEF PaysBatch
  <2> HIDE DEF dom
  <2> QED BY <2>1, UnitsFinite
<1>6. ReserveInv' /\ (reserve'[a] = Yields!NoReserve => reserve[a] = Yields!NoReserve)
  <2>1. reserve'[a] \in (0..MaxReserve) \cup {Yields!NoReserve}
        /\ (reserve'[a] = Yields!NoReserve => reserve[a] = Yields!NoReserve)
    BY <1>1, <1>2, <1>5, Settings, ReserveIs DEF PaysBatch, Yields!NoReserve
  <2>2. \A b \in Coins : reserve'[b] \in (0..MaxReserve) \cup {Yields!NoReserve}
    BY <1>1, <1>2, <2>1 DEF ReserveInv, PaysBatch
  <2>3. reserve' = [b \in Coins |-> reserve'[b]] /\ paused' \in BOOLEAN
    BY <1>1, <1>2 DEF ReserveInv, PaysBatch
  <2> QED BY <2>1, <2>2, <2>3 DEF ReserveInv
<1>7. \A b \in Coins : reserve'[b] = Yields!NoReserve => reserve[b] = Yields!NoReserve
  BY <1>2, <1>6 DEF PaysBatch
<1>8. ASSUME NEW k \in ks, reserve[k[2]] = Yields!NoReserve PROVE UpToDate(k, ks)
  <2>1. k \in Yields!Pairs /\ reserve[a] = Yields!NoReserve
    BY <1>2, <1>8 DEF PaysBatch
  <2>2. n[k] = Yields!CurrentYield(k) /\ (record'[k] = record[k] => n[k] = 0)
    BY <1>2, <2>1 DEF PaysBatch
  <2>3. record[k] # None => /\ record[k].accrued \in Nat /\ Yields!PendingYield(record[k]) \in Nat
                            /\ Yields!CurrentYield(k) = record[k].accrued + Yields!PendingYield(record[k])
    BY <1>1, <2>1, YieldTyped
  <2> QED BY <2>2, <2>3 DEF UpToDate
<1>9. YieldInv' /\ Yields!EntitlementKept
  BY <1>3, <1>6, <1>7, <1>8, SettledKeeps
<1> QED BY <1>1, <1>9, BatchBacked

-----------------------------------------------------------------------------
(* Scheduled distributions *)

LEMMA Dividing ==
  ASSUME NEW x \in Nat, NEW v \in Nat, v > 0
  PROVE  x \div v \in Nat /\ (x + v) \div v = x \div v + 1 /\ 0 \div v = 0
OBVIOUS

(* A payment moves a schedule past one date: the next one of a recurring    *)
(* schedule, the only one of any other.                                     *)
LEMMA RollsOneDate ==
  ASSUME NEW s \in Yields!Schedule, NEW o \in Yields!Offer, s.due >= o.due
  PROVE  /\ Yields!DatesPaid(s, o) \in Nat /\ s.amount \in Nat /\ s.due \in Nat /\ s.interval \in Nat
         /\ ~s.executed =>
              /\ Yields!DatesPaid(Yields!Roll(s), o) = Yields!DatesPaid(s, o) + 1
              /\ Yields!Roll(s) \in Yields!Schedule /\ Yields!Roll(s).due >= o.due
              /\ Yields!Roll(s).amount = s.amount /\ Yields!Roll(s).interval = s.interval
              /\ Yields!Roll(s).due = s.due + s.interval
<1>1. /\ s.due \in Nat /\ s.interval \in Nat /\ s.amount \in Nat /\ s.executed \in BOOLEAN
      /\ o.due \in Nat /\ s.due - o.due \in Nat
      /\ s = [due |-> s.due, interval |-> s.interval, amount |-> s.amount, executed |-> s.executed]
  BY DEF Yields!Schedule, Yields!Offer
<1>2. CASE s.interval > 0
  <2> DEFINE next == [due |-> s.due + s.interval, interval |-> s.interval, amount |-> s.amount,
                      executed |-> s.executed]
             x == s.due - o.due
  <2>1. Yields!Roll(s) = next
    BY <1>1, <1>2 DEF Yields!Roll
  <2>2. x \div s.interval \in Nat /\ (x + s.interval) \div s.interval = x \div s.interval + 1
    BY <1>1, <1>2, Dividing
  <2>4. next \in Yields!Schedule /\ next.due >= o.due
        /\ next.due = s.due + s.interval /\ next.interval = s.interval /\ next.amount = s.amount
    BY <1>1 DEF Yields!Schedule
  <2>5. Yields!DatesPaid(s, o) = x \div s.interval
    BY <1>2 DEF Yields!DatesPaid
  <2> HIDE DEF next
  <2>6. Yields!DatesPaid(next, o) = (next.due - o.due) \div s.interval
    BY <1>2, <2>4 DEF Yields!DatesPaid
  <2>7. next.due - o.due = x + s.interval
    BY <1>1, <2>4
  <2> HIDE DEF x
  <2>8. Yields!DatesPaid(next, o) = (x + s.interval) \div s.interval
    BY <2>6, <2>7
  <2> QED BY <1>1, <2>1, <2>2, <2>4, <2>5, <2>8
<1>3. CASE ~(s.interval > 0)
  <2> DEFINE done == [due |-> s.due, interval |-> s.interval, amount |-> s.amount, executed |-> TRUE]
  <2>1. Yields!Roll(s) = done
    BY <1>1, <1>3 DEF Yields!Roll
  <2>2. s.interval = 0 /\ s.due = s.due + s.interval
    BY <1>1, <1>3
  <2>3. Yields!DatesPaid(s, o) = (IF s.executed THEN 1 ELSE 0) /\ Yields!DatesPaid(done, o) = 1
    BY <1>3 DEF Yields!DatesPaid
  <2>4. done \in Yields!Schedule /\ done.due >= o.due
    BY <1>1 DEF Yields!Schedule
  <2> QED BY <1>1, <2>1, <2>2, <2>3, <2>4
<1> QED BY <1>1, <1>2, <1>3

(* The dates a list of schedules has been paid for, in amounts.             *)
Worth(list, offers) == [i \in DOMAIN list |-> list[i].amount * Yields!DatesPaid(list[i], offers[i])]
NoneAhead(list, offers, time) ==
  \A i \in DOMAIN list : Yields!DatesPaid(list[i], offers[i]) > 0 => list[i].due <= time + list[i].interval

LEMMA PaidIs ==
  Yields!PaidOncePerDate <=>
    \A k \in Yields!Pairs : paid[k] = Total(Worth(schedules[k], offered[k]))
                       /\ NoneAhead(schedules[k], offered[k], now)
BY TotalsAlike DEF Yields!PaidOncePerDate, Worth, NoneAhead

LEMMA Members ==
  ASSUME PayoutsInv, NEW k \in Yields!Pairs
  PROVE  /\ schedules[k] \in Seq(Yields!Schedule) /\ Len(offered[k]) = Len(schedules[k])
         /\ Len(schedules[k]) \in Nat /\ DOMAIN schedules[k] = 1..Len(schedules[k])
         /\ \A i \in 1..Len(schedules[k]) :
              schedules[k][i] \in Yields!Schedule /\ offered[k][i] \in Yields!Offer
              /\ schedules[k][i].due >= offered[k][i].due
<1>1. schedules[k] \in Seq(Yields!Schedule) /\ offered[k] \in Seq(Yields!Offer)
  BY DEF PayoutsInv, PayoutsTyped
<1>2. Len(offered[k]) = Len(schedules[k])
      /\ \A i \in 1..Len(schedules[k]) : schedules[k][i].due >= offered[k][i].due
  BY DEF PayoutsInv, DatesTrue
<1>3. \A i \in 1..Len(schedules[k]) : schedules[k][i] \in Yields!Schedule
  BY <1>1
<1>4. \A i \in 1..Len(offered[k]) : offered[k][i] \in Yields!Offer
  BY <1>1
<1>5. Len(schedules[k]) \in Nat /\ DOMAIN schedules[k] = 1..Len(schedules[k])
  BY <1>1
<1> QED BY <1>1, <1>2, <1>3, <1>4, <1>5

LEMMA WorthTyped ==
  ASSUME NEW n \in Nat, NEW list, NEW offers, DOMAIN list = 1..n,
         \A i \in 1..n : list[i] \in Yields!Schedule /\ offers[i] \in Yields!Offer /\ list[i].due >= offers[i].due
  PROVE  Worth(list, offers) \in [1..n -> Nat]
<1>1. ASSUME NEW i \in 1..n PROVE list[i].amount * Yields!DatesPaid(list[i], offers[i]) \in Nat
  <2>1. list[i].amount \in Nat /\ Yields!DatesPaid(list[i], offers[i]) \in Nat
    BY RollsOneDate
  <2> QED BY <2>1
<1> QED BY <1>1 DEF Worth

(***************************************************************************)
(* Rolling the schedules that are paid raises what their dates are worth by *)
(* what they are paid, and none of them moves further ahead than one        *)
(* interval.                                                                *)
(***************************************************************************)
Rolls(n, list, offers, is, time, next) ==
  /\ n \in Nat /\ DOMAIN list = 1..n /\ time \in Nat
  /\ \A i \in 1..n : list[i] \in Yields!Schedule /\ offers[i] \in Yields!Offer /\ list[i].due >= offers[i].due
  /\ \A i \in is : i \in 1..n /\ ~list[i].executed /\ list[i].due <= time
  /\ NoneAhead(list, offers, time)
  /\ DOMAIN next = 1..n
  /\ \A i \in 1..n : next[i] = IF i \in is THEN Yields!Roll(list[i]) ELSE list[i]

LEMMA RollsThePaid ==
  ASSUME NEW n, NEW list, NEW offers, NEW is, NEW time, NEW next,
         Rolls(n, list, offers, is, time, next)
  PROVE  /\ \A i \in 1..n : next[i] \in Yields!Schedule /\ next[i].due >= offers[i].due
         /\ NoneAhead(next, offers, time)
         /\ \A i \in 1..n : Worth(next, offers)[i]
                              = Worth(list, offers)[i] + (IF i \in is THEN list[i].amount ELSE 0)
<1> USE DEF Rolls
<1>1. DOMAIN next = 1..n /\ DOMAIN list = 1..n
  OBVIOUS
<1>2. ASSUME NEW i \in 1..n
      PROVE  /\ next[i] \in Yields!Schedule /\ next[i].due >= offers[i].due
             /\ Yields!DatesPaid(next[i], offers[i]) > 0 => next[i].due <= time + next[i].interval
             /\ next[i].amount * Yields!DatesPaid(next[i], offers[i])
                  = list[i].amount * Yields!DatesPaid(list[i], offers[i])
                      + (IF i \in is THEN list[i].amount ELSE 0)
  <2>0. /\ Yields!DatesPaid(list[i], offers[i]) \in Nat /\ list[i].amount \in Nat
        /\ list[i].due \in Nat /\ list[i].interval \in Nat
        /\ list[i].amount * Yields!DatesPaid(list[i], offers[i]) \in Nat
    <3>1. /\ Yields!DatesPaid(list[i], offers[i]) \in Nat /\ list[i].amount \in Nat
          /\ list[i].due \in Nat /\ list[i].interval \in Nat
      BY RollsOneDate
    <3> QED BY <3>1
  <2>1. CASE i \in is
    <3>1. next[i] = Yields!Roll(list[i]) /\ ~list[i].executed /\ list[i].due <= time
      BY <2>1
    <3>2. /\ Yields!DatesPaid(next[i], offers[i]) = Yields!DatesPaid(list[i], offers[i]) + 1
          /\ next[i] \in Yields!Schedule /\ next[i].due >= offers[i].due
          /\ next[i].amount = list[i].amount /\ next[i].interval = list[i].interval
          /\ next[i].due = list[i].due + list[i].interval
      BY <3>1, RollsOneDate
    <3>3. \A x \in Nat, y \in Nat : x * (y + 1) = x * y + x
      OBVIOUS
    <3>4. next[i].amount * Yields!DatesPaid(next[i], offers[i])
            = list[i].amount * Yields!DatesPaid(list[i], offers[i]) + list[i].amount
      BY <2>0, <3>2, <3>3
    <3>5. next[i].due <= time + next[i].interval
      BY <2>0, <3>1, <3>2
    <3> QED BY <2>1, <3>2, <3>4, <3>5
  <2>2. CASE i \notin is
    <3>1. next[i] = list[i]
      BY <2>2
    <3> QED BY <2>0, <2>2, <3>1 DEF NoneAhead
  <2> QED BY <2>1, <2>2
<1> QED BY <1>1, <1>2 DEF NoneAhead, Worth

LEMMA ProcessKeeps ==
  ASSUME YieldInv, NEW k \in Yields!Pairs, Yields!ProcessDistribution(k)
  PROVE  YieldInv' /\ Yields!EntitlementKept /\ Yields!ReserveBacksPayouts
<1> DEFINE list == schedules[k]
           a == k[2]
           is == Yields!PaidNow(list, reserve[a])
           total == Yields!SumOf(list, is)
           n == Len(list)
           next == [i \in 1..n |-> IF i \in is THEN Yields!Roll(list[i]) ELSE list[i]]
<1>1. PositionsInv /\ ReserveInv /\ PayoutsInv /\ PayoutsTyped /\ a \in Coins /\ now \in Nat
  BY PairIs, Settings DEF YieldInv, PayoutsInv, PositionsInv
<1>2. reserve[a] \in Reserves /\ reserve[a] \in Int
      /\ (reserve[a] # Yields!NoReserve => reserve[a] \in 0..MaxReserve)
  BY <1>1, ReserveIs
<1>3. /\ list \in Seq(Yields!Schedule) /\ Len(offered[k]) = n /\ n \in Nat /\ DOMAIN list = 1..n
      /\ \A i \in 1..n : list[i] \in Yields!Schedule /\ offered[k][i] \in Yields!Offer
                         /\ list[i].due >= offered[k][i].due
  BY <1>1, Members
<1>4. total \in Nat /\ (reserve[a] # Yields!NoReserve => total <= reserve[a])
  BY <1>2, <1>3, SumOfIs
<1>5. \A i \in is : i \in 1..n /\ ~list[i].executed /\ list[i].due <= now
  BY <1>2, <1>3, PaidNowIs DEF Yields!Due
<1>6. /\ paid' = [paid EXCEPT ![k] = @ + total]
      /\ schedules' = [schedules EXCEPT ![k] = next]
      /\ reserve' = [reserve EXCEPT ![a] = IF @ = Yields!NoReserve THEN @ ELSE @ - total]
      /\ UNCHANGED <<record, logged, claimed, offered, paused, now>>
  BY DEF Yields!ProcessDistribution, Yields!positions
<1>7. paid[k] = Total(Worth(list, offered[k])) /\ NoneAhead(list, offered[k], now)
  BY <1>1, PaidIs DEF PayoutsInv
<1>8. total = Total([i \in 1..n |-> IF i \in is THEN list[i].amount ELSE 0])
  BY TotalsAlike DEF Yields!SumOf
<1> HIDE DEF total
<1>9. /\ \A i \in 1..n : next[i] \in Yields!Schedule /\ next[i].due >= offered[k][i].due
      /\ NoneAhead(next, offered[k], now)
      /\ \A i \in 1..n : Worth(next, offered[k])[i]
                           = Worth(list, offered[k])[i] + (IF i \in is THEN list[i].amount ELSE 0)
  <2> DEFINE nxt == next
             l == list
             m == n
             js == is
             os == offered[k]
  <2>1. Rolls(m, l, os, js, now, nxt)
    BY <1>1, <1>3, <1>5, <1>7 DEF Rolls
  <2> HIDE DEF nxt, l, m, js, os
  <2>2. /\ \A i \in 1..m : nxt[i] \in Yields!Schedule /\ nxt[i].due >= os[i].due
        /\ NoneAhead(nxt, os, now)
        /\ \A i \in 1..m : Worth(nxt, os)[i] = Worth(l, os)[i] + (IF i \in js THEN l[i].amount ELSE 0)
    BY <2>1, RollsThePaid
  <2> QED BY <2>2 DEF nxt, l, m, js, os
<1>10. next \in Seq(Yields!Schedule) /\ Len(next) = n /\ DOMAIN next = 1..n
  <2>1. next = [i \in 1..n |-> next[i]]
    OBVIOUS
  <2> HIDE DEF next, n
  <2> QED BY <1>3, <1>9, <2>1
<1>11. Total(Worth(next, offered[k])) = Total(Worth(list, offered[k])) + total
  <2> DEFINE dom == 1..n
             f == Worth(list, offered[k])
             h == Worth(next, offered[k])
             g == [i \in 1..n |-> IF i \in is THEN list[i].amount ELSE 0]
  <2>1. f \in [dom -> Nat]
    <3> HIDE DEF n, list
    <3> QED BY <1>3, WorthTyped
  <2>2. h \in [dom -> Nat]
    <3> HIDE DEF n, next
    <3> QED BY <1>3, <1>9, <1>10, WorthTyped
  <2>3. g \in [dom -> Nat] /\ \A i \in dom : h[i] = f[i] + g[i]
    <3>1. \A i \in 1..n : list[i].amount \in Nat
      <4>1. \A s \in Yields!Schedule : s.amount \in Nat
        BY DEF Yields!Schedule
      <4> HIDE DEF list, n
      <4> QED BY <1>3, <4>1
    <3> HIDE DEF h, f
    <3> QED BY <1>9, <3>1 DEF h, f
  <2>4. IsFiniteSet(dom)
    <3>1. 1 \in Int /\ n \in Int
      BY <1>3
    <3> HIDE DEF n
    <3> QED BY <3>1, FS_Interval
  <2>5. total = Total(g)
    BY <1>8
  <2> HIDE DEF dom, f, g, h
  <2>6. Total(h) = Total(f) + Total(g)
    BY ONLY <2>1, <2>2, <2>3, <2>4, TotalSum
  <2> QED BY <2>5, <2>6 DEF f, h
<1>12. PayoutsInv'
  <2> HIDE DEF list, n, is, next
  <2>1. PayoutsTyped'
    BY <1>1, <1>4, <1>6, <1>10 DEF PayoutsTyped
  <2>2. ASSUME NEW j \in Yields!Pairs
        PROVE  /\ DatesTrue(j)'
               /\ paid'[j] = Total(Worth(schedules'[j], offered'[j]))
               /\ NoneAhead(schedules'[j], offered'[j], now')
    <3>1. CASE j = k
      <4>1. schedules'[j] = next /\ offered'[j] = offered[k] /\ paid'[j] = paid[k] + total /\ now' = now
        BY <1>1, <1>6, <3>1 DEF PayoutsTyped
      <4> QED BY <1>3, <1>7, <1>9, <1>10, <1>11, <4>1 DEF DatesTrue
    <3>2. CASE j # k
      <4>1. schedules'[j] = schedules[j] /\ offered'[j] = offered[j] /\ paid'[j] = paid[j] /\ now' = now
        BY <1>1, <1>6, <3>2 DEF PayoutsTyped
      <4>2. DatesTrue(j) /\ paid[j] = Total(Worth(schedules[j], offered[j]))
            /\ NoneAhead(schedules[j], offered[j], now)
        BY <1>1, PaidIs DEF PayoutsInv
      <4> QED BY <4>1, <4>2 DEF DatesTrue
    <3> QED BY <3>1, <3>2
  <2>3. Yields!PaidOncePerDate'
    <3>1. \A j \in Yields!Pairs : paid'[j] = Total(Worth(schedules'[j], offered'[j]))
                             /\ NoneAhead(schedules'[j], offered'[j], now')
      BY <2>2
    <3> QED BY <3>1, TotalsAlike DEF Yields!PaidOncePerDate, Worth, NoneAhead
  <2> QED BY <2>1, <2>2, <2>3 DEF PayoutsInv
<1> HIDE DEF list, n, is, next
<1>13. /\ reserve'[a] = IF reserve[a] = Yields!NoReserve THEN reserve[a] ELSE reserve[a] - total
       /\ \A b \in Coins \ {a} : reserve'[b] = reserve[b]
       /\ reserve' = [b \in Coins |-> reserve'[b]]
  BY <1>1, <1>6 DEF ReserveInv
<1>14. ReserveInv' /\ (reserve'[a] = Yields!NoReserve => reserve[a] = Yields!NoReserve)
  <2>1. reserve'[a] \in (0..MaxReserve) \cup {Yields!NoReserve}
        /\ (reserve'[a] = Yields!NoReserve => reserve[a] = Yields!NoReserve)
    BY <1>2, <1>4, <1>13, Settings DEF Yields!NoReserve
  <2>2. \A b \in Coins : reserve'[b] \in (0..MaxReserve) \cup {Yields!NoReserve}
    BY <1>1, <1>13, <2>1 DEF ReserveInv
  <2>3. paused' = paused
    BY <1>6
  <2> QED BY <1>1, <1>13, <2>1, <2>2, <2>3 DEF ReserveInv
<1>15. PositionsInv' /\ Yields!EntitlementKept
  BY <1>1, <1>6, Untouched DEF PositionsInv, Yields!EntitlementKept
<1>16. Yields!HistoryTrue'
  <2>1. \A j \in Yields!Pairs : reserve'[j[2]] = Yields!NoReserve => reserve[j[2]] = Yields!NoReserve
    BY <1>13, <1>14, PairIs
  <2> QED BY <1>6, <2>1 DEF YieldInv, Yields!HistoryTrue
<1>17. claimed \in [Yields!Pairs -> Nat] /\ paid \in [Yields!Pairs -> Nat]
  BY <1>1 DEF PositionsInv, PayoutsTyped
<1>18. /\ Yields!PaidOut(a)' = Yields!PaidOut(a) + total /\ Yields!PaidOut(a) \in Nat
       /\ \A b \in Coins \ {a} : Yields!PaidOut(b)' = Yields!PaidOut(b)
  BY <1>4, <1>6, <1>17, PaidOutOne
<1>19. (reserve'[a] < reserve[a] /\ Yields!PaidOut(a)' # Yields!PaidOut(a)) =>
         Yields!PaidOut(a)' - Yields!PaidOut(a) = reserve[a] - reserve'[a]
  BY <1>2, <1>4, <1>13, <1>18
<1>20. Yields!ReserveBacksPayouts
  BY <1>18, <1>19 DEF Yields!ReserveBacksPayouts
<1> QED BY <1>12, <1>14, <1>15, <1>16, <1>20 DEF YieldInv

(* A schedule just stored has been paid for no date. *)
LEMMA ScheduleKeeps ==
  ASSUME YieldInv, NEW k \in Yields!Pairs, NEW o \in Offers, Yields!ScheduleDistribution(k, o)
  PROVE  PayoutsInv'
<1> DEFINE list == schedules[k]
           n == Len(list)
           new == [due |-> o.due, interval |-> o.interval, amount |-> o.amount, executed |-> FALSE]
           longer == Append(list, new)
           offers == Append(offered[k], o)
<1>1. PayoutsInv /\ PayoutsTyped /\ now \in Nat
  BY Settings DEF YieldInv, PayoutsInv, PositionsInv
<1>2. /\ list \in Seq(Yields!Schedule) /\ offered[k] \in Seq(Yields!Offer) /\ Len(offered[k]) = n
      /\ n \in Nat /\ DOMAIN list = 1..n
      /\ \A i \in 1..n : list[i] \in Yields!Schedule /\ offered[k][i] \in Yields!Offer
                         /\ list[i].due >= offered[k][i].due
  BY <1>1, Members DEF PayoutsTyped
<1>3. /\ o \in Yields!Offer /\ new \in Yields!Schedule /\ new.due = o.due /\ new.interval = o.interval
      /\ o.due \in Nat /\ o.interval \in Nat /\ ~new.executed /\ new.amount \in Nat
  BY Settings DEF Yields!Offer, Yields!Schedule
<1>4. Yields!DatesPaid(new, o) = 0
  <2>1. new.due - o.due = 0 /\ (new.interval > 0 => 0 \div new.interval = 0)
    BY <1>3, Dividing
  <2> HIDE DEF new
  <2> QED BY <1>3, <2>1 DEF Yields!DatesPaid
<1>5. /\ schedules' = [schedules EXCEPT ![k] = longer] /\ offered' = [offered EXCEPT ![k] = offers]
      /\ paid' = paid /\ now' = now
  BY DEF Yields!ScheduleDistribution
<1>6. paid[k] = Total(Worth(list, offered[k])) /\ NoneAhead(list, offered[k], now)
  BY <1>1, PaidIs DEF PayoutsInv
<1> HIDE DEF new
<1>7. /\ longer \in Seq(Yields!Schedule) /\ offers \in Seq(Yields!Offer) /\ DOMAIN longer = 1..(n + 1)
      /\ Len(longer) = n + 1 /\ Len(offers) = n + 1
      /\ longer[n + 1] = new /\ offers[n + 1] = o
      /\ \A i \in 1..n : longer[i] = list[i] /\ offers[i] = offered[k][i]
  <2>1. offered[k] \in Seq(Yields!Offer) /\ o \in Yields!Offer /\ list \in Seq(Yields!Schedule) /\ new \in Yields!Schedule
    BY <1>2, <1>3
  <2> HIDE DEF list
  <2> QED BY <1>2, <2>1
<1> HIDE DEF list, n, longer, offers
<1>8. \A i \in 1..(n + 1) : i \in 1..n \/ i = n + 1
  BY <1>2
<1>9. \A i \in 1..(n + 1) : longer[i] \in Yields!Schedule /\ offers[i] \in Yields!Offer /\ longer[i].due >= offers[i].due
  BY <1>2, <1>3, <1>7, <1>8
<1>10. NoneAhead(longer, offers, now)
  <2>1. ASSUME NEW i \in 1..(n + 1), Yields!DatesPaid(longer[i], offers[i]) > 0
        PROVE  longer[i].due <= now + longer[i].interval
    <3>1. i # n + 1
      BY <1>4, <1>7, <2>1
    <3>2. i \in 1..n
      BY <1>8, <3>1
    <3> QED BY <1>2, <1>6, <1>7, <2>1, <3>2 DEF NoneAhead
  <2> QED BY <1>7, <2>1 DEF NoneAhead
<1>11. Total(Worth(longer, offers)) = Total(Worth(list, offered[k]))
  <2> DEFINE S == 1..n
             T == 1..(n + 1)
             b == n + 1
             f == Worth(list, offered[k])
             g == Worth(longer, offers)
  <2>1. f \in [S -> Nat]
    BY <1>2, WorthTyped
  <2>2. g \in [T -> Nat]
    <3>1. n + 1 \in Nat
      BY <1>2
    <3> QED BY <1>7, <1>9, <3>1, WorthTyped
  <2>3. b \in T /\ b \notin S /\ S \subseteq T /\ \A x \in T : x \in S \/ x = b
    BY <1>2
  <2>4. \A x \in S : g[x] = f[x]
    BY <1>2, <1>7, <2>3 DEF Worth
  <2>5. g[b] = 0
    <3>1. g[b] = new.amount * 0
      BY <1>4, <1>7, <2>3 DEF Worth
    <3>2. \A x \in Nat : x * 0 = 0
      OBVIOUS
    <3> QED BY <1>3, <3>1, <3>2
  <2>6. IsFiniteSet(S)
    <3>1. 1 \in Int /\ n \in Int
      BY <1>2
    <3> QED BY <3>1, FS_Interval
  <2> HIDE DEF S, T, b, f, g
  <2>7. Total(g) = Total(f) + g[b] /\ Total(f) \in Nat
    BY ONLY <2>1, <2>2, <2>3, <2>4, <2>6, TotalExtend, UnitsFinite
  <2> QED BY <2>5, <2>7 DEF f, g
<1>12. PayoutsTyped'
  BY <1>1, <1>5, <1>7 DEF PayoutsTyped
<1>13. ASSUME NEW j \in Yields!Pairs
       PROVE  /\ DatesTrue(j)'
              /\ paid'[j] = Total(Worth(schedules'[j], offered'[j]))
              /\ NoneAhead(schedules'[j], offered'[j], now')
  <2>1. CASE j = k
    <3>1. schedules'[j] = longer /\ offered'[j] = offers /\ paid'[j] = paid[k] /\ now' = now
      BY <1>1, <1>5, <2>1 DEF PayoutsTyped
    <3> QED BY <1>6, <1>7, <1>9, <1>10, <1>11, <3>1 DEF DatesTrue
  <2>2. CASE j # k
    <3>1. schedules'[j] = schedules[j] /\ offered'[j] = offered[j] /\ paid'[j] = paid[j] /\ now' = now
      BY <1>1, <1>5, <2>2 DEF PayoutsTyped
    <3>2. DatesTrue(j) /\ paid[j] = Total(Worth(schedules[j], offered[j]))
          /\ NoneAhead(schedules[j], offered[j], now)
      BY <1>1, PaidIs DEF PayoutsInv
    <3> QED BY <3>1, <3>2 DEF DatesTrue
  <2> QED BY <2>1, <2>2
<1>14. Yields!PaidOncePerDate'
  <2>1. \A j \in Yields!Pairs : paid'[j] = Total(Worth(schedules'[j], offered'[j]))
                           /\ NoneAhead(schedules'[j], offered'[j], now')
    BY <1>13
  <2> QED BY <2>1, TotalsAlike DEF Yields!PaidOncePerDate, Worth, NoneAhead
<1> QED BY <1>12, <1>13, <1>14 DEF PayoutsInv

LEMMA DistributeKeeps ==
  ASSUME YieldInv, Yields!Distribute
  PROVE  YieldInv' /\ Yields!EntitlementKept /\ Yields!ReserveBacksPayouts
<1>0. PositionsInv /\ ReserveInv /\ PayoutsInv
  BY DEF YieldInv
<1>1. ASSUME NEW k \in Yields!Pairs, NEW o \in Offers, Yields!ScheduleDistribution(k, o)
      PROVE  YieldInv' /\ Yields!EntitlementKept /\ Yields!ReserveBacksPayouts
  <2>1. UNCHANGED <<record, logged, claimed, reserve, paused, now>>
    BY <1>1 DEF Yields!ScheduleDistribution, Yields!positions
  <2>2. PositionsInv' /\ ReserveInv' /\ Yields!EntitlementKept
    BY <1>0, <2>1, Untouched DEF PositionsInv, ReserveInv, Yields!EntitlementKept
  <2>3. Yields!HistoryTrue'
    BY <2>1 DEF YieldInv, Yields!HistoryTrue
  <2>4. Yields!ReserveBacksPayouts
    BY <1>0, <2>1, NothingDrawn
  <2> QED BY <1>1, <2>2, <2>3, <2>4, ScheduleKeeps DEF YieldInv
<1>2. ASSUME NEW k \in Yields!Pairs, Yields!ProcessDistribution(k)
      PROVE  YieldInv' /\ Yields!EntitlementKept /\ Yields!ReserveBacksPayouts
  BY <1>2, ProcessKeeps
<1>3. ASSUME UNCHANGED <<record, logged, claimed, paid, schedules, offered, now>>, ReserveInv',
             \A a \in Coins : reserve'[a] = Yields!NoReserve => reserve[a] = Yields!NoReserve
      PROVE  YieldInv' /\ Yields!EntitlementKept /\ Yields!ReserveBacksPayouts
  <2>1. PositionsInv' /\ Yields!EntitlementKept
    BY <1>0, <1>3, Untouched DEF PositionsInv, Yields!EntitlementKept
  <2>2. PayoutsInv'
    BY <1>0, <1>3 DEF PayoutsInv, PayoutsTyped, DatesTrue, Yields!PaidOncePerDate
  <2>3. Yields!HistoryTrue'
    BY <1>3, PairIs DEF YieldInv, Yields!HistoryTrue
  <2>4. Yields!ReserveBacksPayouts
    BY <1>3, PaidOutSame DEF Yields!ReserveBacksPayouts
  <2> QED BY <1>3, <2>1, <2>2, <2>3, <2>4 DEF YieldInv
<1>4. ASSUME NEW a \in Coins, NEW n \in Claims, Yields!FundReserve(a, n) \/ Yields!WithdrawReserve(a, n)
      PROVE  YieldInv' /\ Yields!EntitlementKept /\ Yields!ReserveBacksPayouts
  <2>1. UNCHANGED <<record, logged, claimed, paid, schedules, offered, paused, now>>
    BY <1>4 DEF Yields!FundReserve, Yields!WithdrawReserve, Yields!positions, Yields!payouts
  <2>2. reserve[a] \in Int /\ (reserve[a] # Yields!NoReserve => reserve[a] \in 0..MaxReserve)
        /\ n \in Nat /\ n > 0 /\ MaxReserve \in Nat
    BY <1>0, ReserveIs, Settings
  <2> DEFINE held == IF reserve[a] = Yields!NoReserve THEN 0 ELSE reserve[a]
             new == IF Yields!FundReserve(a, n) THEN held + n ELSE reserve[a] - n
  <2>3. new \in 0..MaxReserve /\ new # Yields!NoReserve
    BY <1>4, <2>2 DEF Yields!FundReserve, Yields!WithdrawReserve, Yields!NoReserve
  <2>4. reserve' = [reserve EXCEPT ![a] = new]
    BY <1>4 DEF Yields!FundReserve, Yields!WithdrawReserve
  <2> HIDE DEF new
  <2>5. ReserveInv' /\ \A b \in Coins : reserve'[b] = Yields!NoReserve => reserve[b] = Yields!NoReserve
    BY <1>0, <2>1, <2>3, <2>4 DEF ReserveInv
  <2> QED BY <1>3, <2>1, <2>5
<1>5. ASSUME NEW p \in BOOLEAN, Yields!SetPaused(p)
      PROVE  YieldInv' /\ Yields!EntitlementKept /\ Yields!ReserveBacksPayouts
  <2>1. /\ UNCHANGED <<record, logged, claimed, paid, schedules, offered, reserve, now>> /\ paused' = p
    BY <1>5 DEF Yields!SetPaused, Yields!positions, Yields!payouts
  <2>2. ReserveInv'
    BY <1>0, <2>1 DEF ReserveInv
  <2> QED BY <1>3, <2>1, <2>2
<1> QED BY <1>1, <1>2, <1>4, <1>5 DEF Yields!Distribute

LEMMA TickKeeps ==
  ASSUME YieldInv, Yields!Tick
  PROVE  YieldInv' /\ Yields!EntitlementKept /\ Yields!ReserveBacksPayouts
<1>0. PositionsInv /\ ReserveInv /\ PayoutsInv
  BY DEF YieldInv
<1>1. /\ UNCHANGED <<record, logged, claimed, paid, schedules, offered, reserve, paused>>
      /\ now \in 0..MaxTime /\ now' = now + 1 /\ now < MaxTime /\ MaxTime \in Nat
  BY <1>0, Settings DEF Yields!Tick, Yields!positions, Yields!payouts, PositionsInv
<1>2. now' \in 0..MaxTime /\ now' # now /\ now' >= now /\ now' \in Nat
  BY <1>1
<1>3. PositionsInv'
  <2>1. \A k \in Yields!Pairs : record[k] # None => record[k].last \in 0..MaxTime
    BY <1>0 DEF PositionsInv, Yields!YieldRecord
  <2>2. \A k \in Yields!Pairs : record[k] # None => record[k].last <= now'
    BY <1>0, <1>1, <2>1 DEF PositionsInv
  <2> QED BY <1>0, <1>1, <1>2, <2>2 DEF PositionsInv
<1>4. PayoutsInv'
  <2>1. ASSUME NEW k \in Yields!Pairs, NEW i \in DOMAIN schedules[k],
               schedules[k][i].due <= now + schedules[k][i].interval
        PROVE  schedules[k][i].due <= now' + schedules[k][i].interval
    <3>1. schedules[k][i] \in Yields!Schedule
      BY <1>0, Members
    <3>2. schedules[k][i].due \in Nat /\ schedules[k][i].interval \in Nat
      BY <3>1 DEF Yields!Schedule
    <3> QED BY <1>1, <2>1, <3>2
  <2>2. Yields!PaidOncePerDate'
    <3>1. Yields!PaidOncePerDate
      BY <1>0 DEF PayoutsInv
    <3> QED BY <1>1, <2>1, <3>1 DEF Yields!PaidOncePerDate
  <2> QED BY <1>0, <1>1, <2>2 DEF PayoutsInv, PayoutsTyped, DatesTrue
<1>5. ReserveInv' /\ Yields!HistoryTrue'
  BY <1>0, <1>1 DEF YieldInv, ReserveInv, Yields!HistoryTrue
<1>6. Yields!EntitlementKept
  BY <1>2 DEF Yields!EntitlementKept
<1> QED BY <1>0, <1>1, <1>3, <1>4, <1>5, <1>6, NothingDrawn DEF YieldInv

LEMMA YieldStarts == Yields!Init => YieldInv
<1> SUFFICES ASSUME Yields!Init PROVE YieldInv
  OBVIOUS
<1>1. PositionsInv /\ ReserveInv
  <2>1. 0 \in 0..MaxLogged /\ 0 \in 0..MaxTime
    BY Settings
  <2>2. /\ record = [k \in Yields!Pairs |-> None] /\ logged = [k \in Yields!Pairs |-> 0]
        /\ claimed = [k \in Yields!Pairs |-> 0] /\ now = 0
        /\ reserve = [a \in Coins |-> Yields!NoReserve] /\ paused = FALSE
    BY DEF Yields!Init
  <2>3. PositionsInv
    BY <2>1, <2>2 DEF PositionsInv
  <2> QED BY <2>2, <2>3 DEF ReserveInv
<1>2. Yields!HistoryTrue
  BY DEF Yields!Init, Yields!HistoryTrue
<1>3. PayoutsTyped
  BY DEF Yields!Init, PayoutsTyped
<1>4. ASSUME NEW k \in Yields!Pairs
      PROVE  DatesTrue(k) /\ paid[k] = Total(Worth(schedules[k], offered[k]))
             /\ NoneAhead(schedules[k], offered[k], now)
  <2>1. schedules[k] = <<>> /\ offered[k] = <<>> /\ paid[k] = 0
    BY DEF Yields!Init
  <2> DEFINE w == Worth(schedules[k], offered[k])
  <2>2. w \in [{} -> Nat] /\ \A x \in {} : w[x] = 0
    BY <2>1 DEF Worth
  <2>3. Total(w) = 0
    <3> HIDE DEF w
    <3> QED BY <2>2, TotalZero
  <2> QED BY <2>1, <2>3 DEF DatesTrue, NoneAhead
<1> QED BY <1>1, <1>2, <1>3, <1>4, PaidIs DEF YieldInv, PayoutsInv

LEMMA YieldKeeps ==
  ASSUME YieldInv, [Yields!Next]_(Yields!vars)
  PROVE  YieldInv' /\ ((Yields!EntitlementKept /\ Yields!ReserveBacksPayouts) \/ UNCHANGED Yields!vars)
<1>1. CASE Yields!Next
  <2>1. ASSUME NEW k \in Yields!Pairs, NEW n \in Claims, Yields!ClaimYieldPartial(k, n)
        PROVE  YieldInv' /\ Yields!EntitlementKept /\ Yields!ReserveBacksPayouts
    BY <2>1, PartialKeeps
  <2>2. ASSUME NEW list \in Yields!Batches, NEW a \in Coins, Yields!BatchClaim(list, a)
        PROVE  YieldInv' /\ Yields!EntitlementKept /\ Yields!ReserveBacksPayouts
    BY <2>2, BatchKeeps
  <2> QED BY <1>1, <2>1, <2>2, EarnKeeps, DistributeKeeps, TickKeeps DEF Yields!Next, Yields!Claim
<1>2. CASE UNCHANGED Yields!vars
  BY <1>2 DEF Yields!vars, Yields!positions, Yields!payouts, YieldInv, PositionsInv, ReserveInv, PayoutsInv,
              PayoutsTyped, DatesTrue, Yields!PaidOncePerDate, Yields!HistoryTrue
<1> QED BY <1>1, <1>2

-----------------------------------------------------------------------------
(* The theorems *)

THEOREM YieldHolds == Yields!Spec => []YieldInv
<1>1. Yields!Init => YieldInv
  BY YieldStarts
<1>2. YieldInv /\ [Yields!Next]_(Yields!vars) => YieldInv'
  BY YieldKeeps
<1> QED BY <1>1, <1>2, PTL DEF Yields!Spec

(***************************************************************************)
(* TypeOK of Yield: no counter leaves its range, no reserve goes below 0.   *)
(***************************************************************************)
LEMMA YieldInvTyped == YieldInv => Yields!TypeOK
BY DEF YieldInv, PositionsInv, ReserveInv, PayoutsInv, PayoutsTyped, Yields!TypeOK

(***************************************************************************)
(* The entry history of a pair that never met a reserve says what it earned *)
(* (HistoryTrue), and scheduled payouts are one for each date that came     *)
(* (PaidOncePerDate).                                                       *)
(***************************************************************************)
THEOREM YieldToldTrue == Yields!Spec => [](Yields!TypeOK /\ Yields!HistoryTrue /\ Yields!PaidOncePerDate)
<1>1. YieldInv => Yields!TypeOK /\ Yields!HistoryTrue /\ Yields!PaidOncePerDate
  BY YieldInvTyped DEF YieldInv, PayoutsInv
<1> QED BY <1>1, YieldHolds, PTL

(***************************************************************************)
(* No call creates, loses or pays twice what a position has earned          *)
(* (EntitlementKept), and what a payout takes from a reserve is what        *)
(* stakers receive (ReserveBacksPayouts).                                   *)
(***************************************************************************)
THEOREM YieldIsConserved == Yields!Spec => Yields!Conserved
<1>1. YieldInv /\ [Yields!Next]_(Yields!vars) => [Yields!EntitlementKept /\ Yields!ReserveBacksPayouts]_(Yields!vars)
  BY YieldKeeps
<1> QED BY <1>1, YieldHolds, PTL DEF Yields!Spec, Yields!Conserved

-----------------------------------------------------------------------------
(* The stakes *)

USE StakingAssumption

-----------------------------------------------------------------------------
(* Sets and counters around one changed balance *)

Column(a) == [s \in Stakers |-> balance[<<s, a>>]]
Active == {s \in Stakers : Holds(s) # {}}

(* The parts of the types that the totals rest on. *)
TotalsTyped ==
  /\ balance \in [Pairs -> Nat]
  /\ totalStaked \in [Assets -> Int]
  /\ positionCount \in [Stakers -> Nat] /\ activeStakers \in Nat

TotalsInv == TotalsTyped /\ TotalsAgree

LEMMA Finite ==
  /\ \A s \in Stakers : IsFiniteSet(Holds(s)) /\ Cardinality(Holds(s)) \in Nat
  /\ IsFiniteSet(Active) /\ Cardinality(Active) \in Nat
<1>1. (\A s \in Stakers : Holds(s) \subseteq Assets) /\ Active \subseteq Stakers
  BY DEF Holds, Active
<1>2. \A S, T : IsFiniteSet(T) /\ S \subseteq T => IsFiniteSet(S)
  BY FS_Subset
<1> QED BY <1>1, <1>2, FS_CardinalityType

(***************************************************************************)
(* A balance that goes up or down by n moves its asset's sum by n and no    *)
(* other asset's.                                                           *)
(***************************************************************************)
LEMMA ColumnMoves ==
  ASSUME TotalsTyped, NEW s \in Stakers, NEW a \in Assets, NEW new \in Nat,
         balance' = [balance EXCEPT ![<<s, a>>] = new]
  PROVE  /\ Total(Column(a))' = Total(Column(a)) + (new - balance[<<s, a>>])
         /\ \A b \in Assets \ {a} : Total(Column(b))' = Total(Column(b))
         /\ Total(Column(a)) \in Nat
<1> DEFINE k == <<s, a>>
           f == Column(a)
           g == Column(a)'
<1>1. /\ k \in Pairs /\ balance[k] \in Nat /\ balance'[k] = new
      /\ \A j \in Pairs \ {k} : balance'[j] = balance[j]
      /\ \A r \in Stakers, b \in Assets : <<r, b>> \in Pairs /\ (<<r, b>> = k <=> r = s /\ b = a)
  BY DEF Pairs, TotalsTyped
<1>2. /\ f \in [Stakers -> Nat] /\ g \in [Stakers -> Nat]
      /\ f[s] = balance[k] /\ g[s] = new
      /\ \A r \in Stakers \ {s} : g[r] = f[r]
  BY <1>1 DEF Column, TotalsTyped
<1>3. \A b \in Assets \ {a} : Column(b)' = Column(b)
  BY <1>1 DEF Column
<1> HIDE DEF k, f, g
<1>4. CASE new >= balance[k]
  <2>1. PICK n \in Nat : new = balance[k] + n
    <3>1. new - balance[k] \in Nat /\ new = balance[k] + (new - balance[k])
      BY <1>1, <1>4
    <3> QED BY <3>1
  <2>2. g[s] = f[s] + n
    BY <1>2, <2>1
  <2>3. Total(g) = Total(f) + n
    BY <1>2, <2>2, TotalRaise
  <2>4. Total(f) \in Nat
    BY <1>2, UnitsFinite
  <2> QED BY <1>1, <1>3, <2>1, <2>3, <2>4 DEF f, g, k
<1>5. CASE new < balance[k]
  <2>1. PICK n \in Nat : new = balance[k] - n /\ n <= balance[k]
    <3>1. balance[k] - new \in Nat /\ new = balance[k] - (balance[k] - new)
      BY <1>1, <1>5
    <3> QED BY <1>1, <3>1
  <2>2. g[s] = f[s] - n /\ n <= f[s]
    BY <1>2, <2>1
  <2>3. Total(g) = Total(f) - n
    BY <1>2, <2>2, TotalLower
  <2>4. Total(f) \in Nat
    BY <1>2, UnitsFinite
  <2> QED BY <1>1, <1>3, <2>1, <2>3, <2>4 DEF f, g, k
<1> QED BY <1>1, <1>4, <1>5

(***************************************************************************)
(* What the staker of a changed balance holds: the asset joins, leaves, or  *)
(* was there and stays; nobody else's holdings change.                      *)
(***************************************************************************)
LEMMA HoldsMove ==
  ASSUME TotalsTyped, NEW s \in Stakers, NEW a \in Assets, NEW new \in Nat,
         balance' = [balance EXCEPT ![<<s, a>>] = new]
  PROVE  /\ Holds(s)' = IF new > 0 THEN Holds(s) \cup {a} ELSE Holds(s) \ {a}
         /\ a \in Holds(s) <=> balance[<<s, a>>] > 0
         /\ \A r \in Stakers \ {s} : Holds(r)' = Holds(r)
<1> DEFINE k == <<s, a>>
<1>1. /\ k \in Pairs /\ balance'[k] = new
      /\ \A j \in Pairs \ {k} : balance'[j] = balance[j]
      /\ \A r \in Stakers, b \in Assets : <<r, b>> \in Pairs /\ (<<r, b>> = k <=> r = s /\ b = a)
  BY DEF Pairs, TotalsTyped
<1> HIDE DEF k
<1>2. \A b \in Assets : b \in Holds(s)' <=> IF b = a THEN new > 0 ELSE b \in Holds(s)
  BY <1>1 DEF Holds
<1>3. \A r \in Stakers \ {s} : Holds(r)' = Holds(r)
  BY <1>1 DEF Holds
<1>4. Holds(s)' \subseteq Assets /\ Holds(s) \subseteq Assets
  BY DEF Holds
<1>5. Holds(s)' = IF new > 0 THEN Holds(s) \cup {a} ELSE Holds(s) \ {a}
  BY <1>2, <1>4
<1> QED BY <1>3, <1>5 DEF Holds

(***************************************************************************)
(* Who holds anything: the staker, if it holds something afterwards, and    *)
(* everybody else who did before.                                           *)
(***************************************************************************)
LEMMA ActiveMoves ==
  ASSUME NEW s \in Stakers, \A r \in Stakers \ {s} : Holds(r)' = Holds(r)
  PROVE  Active' = IF Holds(s)' # {} THEN Active \cup {s} ELSE Active \ {s}
BY DEF Active

(* Adding or taking out one element of a finite set, counted. *)
LEMMA CountAdd ==
  ASSUME NEW S, IsFiniteSet(S), NEW x
  PROVE  Cardinality(S \cup {x}) = IF x \in S THEN Cardinality(S) ELSE Cardinality(S) + 1
BY FS_AddElement

LEMMA CountRemove ==
  ASSUME NEW S, IsFiniteSet(S), NEW x
  PROVE  Cardinality(S \ {x}) = IF x \in S THEN Cardinality(S) - 1 ELSE Cardinality(S)
BY FS_RemoveElement

LEMMA CountEmpty ==
  ASSUME NEW S, IsFiniteSet(S)
  PROVE  Cardinality(S) \in Nat /\ (Cardinality(S) = 0 <=> S = {})
BY FS_CardinalityType, FS_EmptySet

-----------------------------------------------------------------------------
(* The two updates *)

LEMMA StakeTotals ==
  ASSUME TotalsInv, NEW s \in Stakers, NEW a \in Assets, NEW new \in Nat,
         new > balance[<<s, a>>], balance' = [balance EXCEPT ![<<s, a>>] = new],
         UpdateTotalsOnStake(<<s, a>>, new)
  PROVE  TotalsInv'
<1> DEFINE k == <<s, a>>
           first == balance[k] = 0
<1>1. /\ TotalsTyped /\ k \in Pairs /\ balance[k] \in Nat /\ new > 0
      /\ \A b \in Assets : totalStaked[b] = Total(Column(b))
      /\ \A r \in Stakers : positionCount[r] = Cardinality(Holds(r))
      /\ activeStakers = Cardinality(Active)
  BY DEF TotalsInv, TotalsTyped, TotalsAgree, Pairs, Column, Active
<1>2. /\ totalStaked' = [totalStaked EXCEPT ![a] = @ + (new - balance[k])]
      /\ positionCount' = [positionCount EXCEPT ![s] = IF first THEN @ + 1 ELSE @]
      /\ activeStakers' = IF first /\ positionCount[s] = 0 THEN activeStakers + 1
                          ELSE activeStakers
  BY DEF UpdateTotalsOnStake
<1>3. TotalsTyped'
  BY <1>1, <1>2 DEF TotalsTyped
<1>4. \A b \in Assets : totalStaked'[b] = Total(Column(b))'
  <2>1. /\ Total(Column(a))' = Total(Column(a)) + (new - balance[k])
        /\ \A b \in Assets \ {a} : Total(Column(b))' = Total(Column(b))
    BY <1>1, ColumnMoves
  <2> HIDE DEF k
  <2>2. totalStaked'[a] = Total(Column(a))'
    BY ONLY <1>1, <1>2, <2>1, a \in Assets DEF TotalsTyped
  <2>3. \A b \in Assets \ {a} : totalStaked'[b] = Total(Column(b))'
    BY ONLY <1>1, <1>2, <2>1 DEF TotalsTyped
  <2> QED BY <2>2, <2>3
<1>5. /\ Holds(s)' = Holds(s) \cup {a} /\ (a \in Holds(s) <=> ~first)
      /\ \A r \in Stakers \ {s} : Holds(r)' = Holds(r)
  <2>1. /\ Holds(s)' = IF new > 0 THEN Holds(s) \cup {a} ELSE Holds(s) \ {a}
        /\ a \in Holds(s) <=> balance[k] > 0
        /\ \A r \in Stakers \ {s} : Holds(r)' = Holds(r)
    BY <1>1, HoldsMove
  <2>2. first <=> ~(balance[k] > 0)
    BY <1>1
  <2> QED BY <1>1, <2>1, <2>2
<1>6. Active' = Active \cup {s} /\ (s \in Active <=> Holds(s) # {})
  BY <1>5, ActiveMoves DEF Active
<1> HIDE DEF k, first
<1>7. \A r \in Stakers : positionCount'[r] = Cardinality(Holds(r)')
  <2>1. positionCount'[s] = Cardinality(Holds(s)')
    BY <1>1, <1>2, <1>5, Finite, CountAdd DEF TotalsTyped
  <2>2. \A r \in Stakers \ {s} : positionCount'[r] = Cardinality(Holds(r)')
    BY <1>1, <1>2, <1>5 DEF TotalsTyped
  <2> QED BY <2>1, <2>2
<1>8. activeStakers' = Cardinality(Active')
  <2>1. first /\ positionCount[s] = 0 <=> Holds(s) = {}
    BY <1>1, <1>5, Finite, CountEmpty
  <2> QED BY <1>1, <1>2, <1>6, <2>1, Finite, CountAdd
<1> QED BY <1>3, <1>4, <1>7, <1>8 DEF TotalsInv, TotalsAgree, Column, Active

(***************************************************************************)
(* Because the counts are exact before the call, the subtraction that would *)
(* saturate at 0 never does.                                                *)
(***************************************************************************)
LEMMA UnstakeTotals ==
  ASSUME TotalsInv, NEW s \in Stakers, NEW a \in Assets, NEW new \in Nat,
         new < balance[<<s, a>>], balance' = [balance EXCEPT ![<<s, a>>] = new],
         UpdateTotalsOnUnstake(<<s, a>>, new)
  PROVE  TotalsInv'
<1> DEFINE k == <<s, a>>
           left == SaturatingDec(positionCount[s])
<1>1. /\ TotalsTyped /\ k \in Pairs /\ balance[k] \in Nat /\ balance[k] > 0
      /\ \A b \in Assets : totalStaked[b] = Total(Column(b))
      /\ \A r \in Stakers : positionCount[r] = Cardinality(Holds(r))
      /\ activeStakers = Cardinality(Active)
  BY DEF TotalsInv, TotalsTyped, TotalsAgree, Pairs, Column, Active
<1>2. /\ totalStaked' = [totalStaked EXCEPT ![a] = @ - (balance[k] - new)]
      /\ positionCount' = [positionCount EXCEPT ![s] = IF new = 0 THEN left ELSE @]
      /\ activeStakers' = IF new = 0 /\ left = 0 THEN SaturatingDec(activeStakers)
                          ELSE activeStakers
  BY DEF UpdateTotalsOnUnstake
<1>3. /\ a \in Holds(s) /\ Holds(s)' = IF new > 0 THEN Holds(s) ELSE Holds(s) \ {a}
      /\ \A r \in Stakers \ {s} : Holds(r)' = Holds(r)
  <2>1. /\ Holds(s)' = IF new > 0 THEN Holds(s) \cup {a} ELSE Holds(s) \ {a}
        /\ a \in Holds(s) <=> balance[k] > 0
        /\ \A r \in Stakers \ {s} : Holds(r)' = Holds(r)
    BY <1>1, HoldsMove
  <2> QED BY <1>1, <2>1
<1>4. /\ s \in Active
      /\ Active' = IF new = 0 /\ Holds(s) \ {a} = {} THEN Active \ {s} ELSE Active
  BY <1>3, ActiveMoves DEF Active
<1>5. \A b \in Assets : totalStaked'[b] = Total(Column(b))'
  <2>1. /\ Total(Column(a))' = Total(Column(a)) + (new - balance[k])
        /\ \A b \in Assets \ {a} : Total(Column(b))' = Total(Column(b))
        /\ Total(Column(a)) \in Nat
    BY <1>1, ColumnMoves
  <2> HIDE DEF k
  <2>2. totalStaked'[a] = Total(Column(a))'
    BY ONLY <1>1, <1>2, <2>1, a \in Assets, new \in Nat DEF TotalsTyped
  <2>3. \A b \in Assets \ {a} : totalStaked'[b] = Total(Column(b))'
    BY ONLY <1>1, <1>2, <2>1 DEF TotalsTyped
  <2> QED BY <2>2, <2>3
<1> HIDE DEF k
<1>6. /\ positionCount[s] \in Nat /\ positionCount[s] > 0
      /\ left = positionCount[s] - 1 /\ left = Cardinality(Holds(s) \ {a}) /\ left \in Nat
  <2>1. positionCount[s] \in Nat /\ positionCount[s] > 0
    BY <1>1, <1>3, Finite, CountEmpty
  <2>2. Cardinality(Holds(s) \ {a}) = positionCount[s] - 1
    BY <1>1, <1>3, Finite, CountRemove
  <2> QED BY <2>1, <2>2 DEF SaturatingDec
<1>7. left = 0 <=> Holds(s) \ {a} = {}
  <2>1. IsFiniteSet(Holds(s) \ {a})
    BY Finite, FS_RemoveElement
  <2> QED BY <1>6, <2>1, CountEmpty
<1> HIDE DEF left
<1>8. activeStakers \in Nat /\ activeStakers > 0
  BY <1>1, <1>4, Finite, CountEmpty
<1>9. activeStakers' = Cardinality(Active')
  BY <1>1, <1>2, <1>4, <1>7, <1>8, Finite, CountRemove DEF SaturatingDec
<1>10. \A r \in Stakers : positionCount'[r] = Cardinality(Holds(r)')
  <2>1. positionCount'[s] = Cardinality(Holds(s)')
    BY <1>1, <1>2, <1>3, <1>6 DEF TotalsTyped
  <2>2. \A r \in Stakers \ {s} : positionCount'[r] = Cardinality(Holds(r)')
    BY <1>1, <1>2, <1>3 DEF TotalsTyped
  <2> QED BY <2>1, <2>2
<1>11. TotalsTyped'
  <2>1. balance' \in [Pairs -> Nat]
    BY <1>1 DEF TotalsTyped
  <2>2. totalStaked' \in [Assets -> Int]
    BY <1>1, <1>2 DEF TotalsTyped
  <2>3. positionCount' \in [Stakers -> Nat]
    BY <1>1, <1>2, <1>6 DEF TotalsTyped
  <2>4. activeStakers' \in Nat
    BY <1>2, <1>8 DEF SaturatingDec
  <2> QED BY <2>1, <2>2, <2>3, <2>4 DEF TotalsTyped
<1> QED BY <1>5, <1>9, <1>10, <1>11 DEF TotalsInv, TotalsAgree, Column, Active

-----------------------------------------------------------------------------
LEMMA TotalsInit == Init => TotalsInv
<1> SUFFICES ASSUME Init PROVE TotalsInv
  OBVIOUS
<1>1. TotalsTyped /\ \A k \in Pairs : balance[k] = 0
  BY DEF Init, TotalsTyped
<1>2. ASSUME NEW a \in Assets PROVE Total(Column(a)) = 0
  <2>1. Column(a) \in [Stakers -> Nat] /\ \A s \in Stakers : Column(a)[s] = 0
    BY <1>1 DEF Column, Pairs, TotalsTyped
  <2> QED BY <2>1, TotalZero
<1>3. (\A s \in Stakers : Holds(s) = {}) /\ Active = {}
  <2>1. \A s \in Stakers, a \in Assets : balance[<<s, a>>] = 0
    BY <1>1 DEF Pairs
  <2>2. \A s \in Stakers : Holds(s) = {}
    BY <2>1 DEF Holds
  <2> QED BY <2>2 DEF Active
<1>4. Cardinality({}) = 0
  BY FS_EmptySet
<1>5. /\ \A a \in Assets : totalStaked[a] = Total(Column(a))
      /\ \A s \in Stakers : positionCount[s] = Cardinality(Holds(s))
      /\ activeStakers = Cardinality(Active)
  BY <1>2, <1>3, <1>4 DEF Init
<1> QED BY <1>1, <1>5 DEF TotalsInv, TotalsAgree, Column, Active

LEMMA ShrinkTotals ==
  ASSUME TotalsInv, NEW k \in Pairs, NEW n \in Amounts, n <= balance[k], NEW state,
         Shrink(k, n, state)
  PROVE  TotalsInv'
<1>1. PICK s \in Stakers : \E a \in Assets : k = <<s, a>>
  BY DEF Pairs
<1>2. PICK a \in Assets : k = <<s, a>>
  BY <1>1
<1> DEFINE new == balance[k] - n
<1>3. balance[k] \in Nat /\ new \in Nat /\ new < balance[k]
  BY DEF TotalsInv, TotalsTyped, Amounts
<1>4. balance' = [balance EXCEPT ![k] = new] /\ UpdateTotalsOnUnstake(k, new)
  BY DEF Shrink
<1> HIDE DEF new
<1> QED BY <1>2, <1>3, <1>4, UnstakeTotals

LEMMA TotalsStep == TotalsInv /\ [Next]_vars => TotalsInv'
<1> SUFFICES ASSUME TotalsInv, [Next]_vars PROVE TotalsInv'
  OBVIOUS
<1>1. CASE UNCHANGED <<balance, totals>>
  BY <1>1 DEF TotalsInv, TotalsTyped, TotalsAgree, totals, Holds
<1>2. ASSUME NEW k \in Pairs, NEW n \in Amounts, NEW sch \in Schedules, NEW lock \in BOOLEAN,
             Stake(k, n, sch, lock)
      PROVE  TotalsInv'
  <2>1. PICK s \in Stakers : \E a \in Assets : k = <<s, a>>
    BY DEF Pairs
  <2>2. PICK a \in Assets : k = <<s, a>>
    BY <2>1
  <2> DEFINE new == balance[k] + n
  <2>3. balance[k] \in Nat /\ new \in Nat /\ new > balance[k]
    BY DEF TotalsInv, TotalsTyped, Amounts
  <2>4. balance' = [balance EXCEPT ![k] = new] /\ UpdateTotalsOnStake(k, new)
    BY <1>2 DEF Stake
  <2> HIDE DEF new
  <2> QED BY <2>2, <2>3, <2>4, StakeTotals
<1>3. ASSUME NEW k \in Pairs, NEW n \in Amounts, Unstake(k, n) PROVE TotalsInv'
  <2>1. n <= balance[k] /\ \E state : Shrink(k, n, state)
    BY <1>3 DEF Unstake
  <2> QED BY <2>1, ShrinkTotals
<1>4. ASSUME NEW k \in Pairs, NEW n \in Amounts, EmergencyUnstake(k, n) PROVE TotalsInv'
  <2>1. n <= balance[k] /\ \E state : Shrink(k, n, state)
    BY <1>4 DEF EmergencyUnstake
  <2> QED BY <2>1, ShrinkTotals
<1> QED
  BY <1>1, <1>2, <1>3, <1>4
  DEF Next, vars, stakes, SetLockPosition, ConfigureEmergency, Tick

(***************************************************************************)
(* The amount staked of each asset, the number of assets each staker holds  *)
(* and the number of active stakers, all kept by increments in stake,       *)
(* unstake and emergency_unstake, are always those of the balances.         *)
(***************************************************************************)
THEOREM TotalsExact == Spec => []TotalsAgree
<1>1. TotalsInv => TotalsAgree
  BY DEF TotalsInv
<1> QED BY <1>1, TotalsInit, TotalsStep, PTL DEF Spec

-----------------------------------------------------------------------------
(* Type correctness, and the position beside the balance *)

(***************************************************************************)
(* The two hold together: what is staked of an asset stays a natural number *)
(* because it is a sum, and a principal keeps its range because it is the   *)
(* balance of its pair.                                                     *)
(***************************************************************************)
StakeInv == TypeOK /\ TotalsInv /\ PrincipalMirrorsBalance

LEMMA StakeInit == Init => StakeInv
<1> SUFFICES ASSUME Init PROVE StakeInv
  OBVIOUS
<1>1. /\ position \in [Pairs -> Position \cup {None}] /\ balance \in [Pairs -> 0..MaxBalance]
      /\ totalStaked \in [Assets -> 0..MaxBalance]
  BY DEF Init
<1>2. /\ positionCount \in [Stakers -> Nat] /\ activeStakers \in Nat
      /\ lockedAmount \in [Stakers -> Int \cup {None}]
      /\ cooldownEnd \in [Stakers -> Nat] /\ now \in 0..MaxTime
  BY DEF Init
<1>3. history \in [Stakers -> Seq(EmergencyRecord)]
  BY DEF Init
<1>4. TypeOK
  BY <1>1, <1>2, <1>3 DEF Init, TypeOK
<1>5. PrincipalMirrorsBalance
  BY DEF Init, PrincipalMirrorsBalance
<1> QED BY <1>4, <1>5, TotalsInit DEF StakeInv

(* A rate is a number of basis points, whatever the configuration. *)
LEMMA MulDivType ==
  ASSUME NEW a \in Int, NEW b \in Int, NEW d \in Nat \ {0}
  PROVE  MulDiv(a, b, d) \in Int
<1>1. a * b \in Int /\ -a * b \in Int
  OBVIOUS
<1>2. \A x \in Int : x \div d \in Int
  OBVIOUS
<1> QED BY <1>1, <1>2 DEF MulDiv

LEMMA PenaltyType ==
  ASSUME NEW c \in EmergencyConfig, NEW elapsed \in Nat, NEW total \in Nat
  PROVE  PenaltyBps(c, elapsed, total) \in Int
<1>1. c.start \in Int /\ c.end \in Int
  BY DEF EmergencyConfig
<1>2. \A x \in Int : Clamp(x) \in Int
  BY DEF Clamp, MaxBps
<1>3. CASE total = 0 \/ elapsed = 0
  BY <1>1, <1>3 DEF PenaltyBps, MaxBps
<1>4. CASE total # 0 /\ elapsed # 0
  <2>1. LinearDecay(c.start, c.end, elapsed, total) \in Int
    <3>1. MulDiv(elapsed, Scale, total) \in Int
      BY <1>4, MulDivType
    <3>2. c.end - c.start \in Int
      BY <1>1
    <3>3. MulDiv(c.end - c.start, MulDiv(elapsed, Scale, total), Scale) \in Int
      BY <3>1, <3>2, MulDivType
    <3> QED BY <1>1, <3>3 DEF LinearDecay
  <2> QED BY <1>1, <1>2, <1>4, <2>1 DEF PenaltyBps
<1> QED BY <1>3, <1>4

LEMMA RecordType ==
  ASSUME TypeOK, NEW k \in Pairs, NEW n \in Amounts, EmergencyUnstake(k, n)
  PROVE  NewRecord(position[k], n) \in EmergencyRecord
<1> DEFINE p == position[k]
           sch == p.schedule
<1>1. /\ p \in Position /\ now \in Nat /\ n \in Nat
      /\ emergency \in EmergencyConfig
      /\ sch.kind = "Graduated" => sch.tranche # 0
  BY DEF EmergencyUnstake, TypeOK, Amounts
<1>2. p.openedAt \in Nat /\ sch \in Schedule
  BY <1>1 DEF Position
<1>3. /\ sch.kind = "Cliff" => sch.unlock \in Nat
      /\ sch.kind = "Graduated" => sch.start \in Nat /\ sch.interval \in Nat /\ sch.tranche \in Nat
  BY <1>2 DEF Schedule
<1>4. LockStart(p) \in Nat
  BY <1>1, <1>2, <1>3 DEF LockStart
<1>5. LockLength(p) \in Nat
  <2>1. CASE sch.kind = "Cliff"
    BY <1>2, <1>3, <2>1 DEF LockLength, SaturatingSub
  <2>2. CASE sch.kind = "Graduated"
    <3>1. \A t \in Nat \ {0} : MaxBps \div t \in Nat
      BY DEF MaxBps
    <3>2. \A x \in Nat, y \in Nat : x * y \in Nat
      OBVIOUS
    <3>3. (MaxBps \div sch.tranche) * sch.interval \in Nat
      BY <1>1, <1>3, <2>2, <3>1, <3>2
    <3> QED BY <2>2, <3>3 DEF LockLength
  <2>3. CASE sch.kind \notin {"Cliff", "Graduated"}
    BY <2>3 DEF LockLength
  <2> QED BY <2>1, <2>2, <2>3
<1>6. SaturatingSub(now, LockStart(p)) \in Nat
  BY <1>1, <1>4 DEF SaturatingSub
<1>7. PenaltyOn(p) \in Int
  BY <1>1, <1>5, <1>6, PenaltyType DEF PenaltyOn
<1>8. MulDiv(n, PenaltyOn(p), MaxBps) \in Int
  <2>1. MaxBps \in Nat \ {0}
    BY DEF MaxBps
  <2> QED BY <1>1, <1>7, <2>1, MulDivType
<1> HIDE DEF p
<1>9. NewRecord(p, n) \in EmergencyRecord
  BY <1>1, <1>7, <1>8 DEF NewRecord, EmergencyRecord
<1> QED BY <1>9 DEF p

(***************************************************************************)
(* Leaving: the position of k becomes Left(k, new, state), and nothing else *)
(* of the stakes changes.                                                   *)
(***************************************************************************)
Left(k, new, state) ==
  [[position[k] EXCEPT !.principal = new] EXCEPT !.state = IF new = 0 THEN "Withdrawn" ELSE state]

LEMMA ShrinkStakes ==
  ASSUME StakeInv, TotalsInv', NEW k \in Pairs, position[k] # None, NEW n \in Amounts,
         n <= balance[k],
         NEW state \in {"Locked", "Active", "Claimable", "Withdrawn"}, Shrink(k, n, state)
  PROVE  /\ position' \in [Pairs -> Position \cup {None}]
         /\ balance' \in [Pairs -> 0..MaxBalance]
         /\ totalStaked' \in [Assets -> 0..MaxBalance]
         /\ positionCount' \in [Stakers -> Nat] /\ activeStakers' \in Nat
         /\ PrincipalMirrorsBalance'
<1> DEFINE new == balance[k] - n
<1>1. /\ position[k] \in Position /\ balance[k] \in 0..MaxBalance /\ n \in Nat /\ n > 0
      /\ new \in 0..MaxBalance
      /\ position \in [Pairs -> Position \cup {None}] /\ balance \in [Pairs -> 0..MaxBalance]
      /\ totalStaked \in [Assets -> 0..MaxBalance]
  BY DEF StakeInv, TypeOK, Amounts
<1>2. /\ position' = [position EXCEPT ![k] = Left(k, new, state)]
      /\ balance' = [balance EXCEPT ![k] = new]
      /\ totalStaked' = [totalStaked EXCEPT ![k[2]] = @ - (balance[k] - new)]
  BY DEF Shrink, Left, UpdateTotalsOnUnstake
<1>3. balance[k] - new = n
  BY <1>1
<1> HIDE DEF new
<1>4. Left(k, new, state) \in Position /\ Left(k, new, state).principal = new
  <2> DEFINE q == [position[k] EXCEPT !.principal = new]
             last == IF new = 0 THEN "Withdrawn" ELSE state
  <2>1. q \in Position /\ q.principal = new
    BY <1>1 DEF Position
  <2>2. last \in {"Locked", "Active", "Claimable", "Withdrawn"}
    OBVIOUS
  <2>3. Left(k, new, state) = [q EXCEPT !.state = last]
    BY DEF Left
  <2> HIDE DEF q, last
  <2> QED BY <2>1, <2>2, <2>3 DEF Position
<1>5. /\ position' \in [Pairs -> Position \cup {None}] /\ position'[k] = Left(k, new, state)
      /\ \A j \in Pairs \ {k} : position'[j] = position[j]
  BY <1>1, <1>2, <1>4
<1>6. /\ balance' \in [Pairs -> 0..MaxBalance] /\ balance'[k] = new
      /\ \A j \in Pairs \ {k} : balance'[j] = balance[j]
  BY <1>1, <1>2
<1>7. position'[k] # None
  BY <1>4, <1>5
<1>8. PrincipalMirrorsBalance'
  <2>1. \A j \in Pairs \ {k} :
          balance'[j] = IF position'[j] = None THEN 0 ELSE position'[j].principal
    BY <1>5, <1>6 DEF StakeInv, PrincipalMirrorsBalance
  <2>2. balance'[k] = IF position'[k] = None THEN 0 ELSE position'[k].principal
    BY <1>4, <1>5, <1>6, <1>7
  <2> QED BY <2>1, <2>2 DEF PrincipalMirrorsBalance
<1>9. totalStaked' \in [Assets -> 0..MaxBalance]
  <2>1. \A b \in Assets : totalStaked'[b] \in Nat
    <3>1. SUFFICES ASSUME NEW b \in Assets PROVE totalStaked'[b] \in Nat
      OBVIOUS
    <3> DEFINE col == [s \in Stakers |-> balance'[<<s, b>>]]
    <3>2. col \in [Stakers -> Nat]
      BY <1>6 DEF Pairs
    <3> HIDE DEF col
    <3>3. Total(col) \in Nat
      BY <3>2, UnitsFinite
    <3> QED BY <3>3 DEF col, TotalsInv, TotalsAgree
  <2>2. \A b \in Assets : totalStaked'[b] <= totalStaked[b] /\ totalStaked[b] \in 0..MaxBalance
    BY <1>1, <1>2, <1>3
  <2>3. DOMAIN totalStaked' = Assets /\ \A b \in Assets : totalStaked'[b] \in 0..MaxBalance
    BY <1>1, <1>2, <2>1, <2>2
  <2>4. totalStaked' = [b \in Assets |-> totalStaked'[b]]
    BY <1>1, <1>2
  <2> QED BY <2>3, <2>4
<1>10. positionCount' \in [Stakers -> Nat] /\ activeStakers' \in Nat
  BY DEF TotalsInv, TotalsTyped
<1> QED BY <1>5, <1>6, <1>8, <1>9, <1>10

LEMMA StakeStakes ==
  ASSUME StakeInv, TotalsInv', NEW k \in Pairs, NEW n \in Amounts, NEW sch \in Schedules,
         NEW lock \in BOOLEAN, Stake(k, n, sch, lock)
  PROVE  StakeInv'
<1> DEFINE new == balance[k] + n
<1>1. /\ position \in [Pairs -> Position \cup {None}] /\ balance \in [Pairs -> 0..MaxBalance]
      /\ totalStaked \in [Assets -> 0..MaxBalance]
      /\ balance[k] \in 0..MaxBalance /\ n \in Nat /\ n <= MaxBalance /\ now \in Nat
      /\ k[2] \in Assets
  BY DEF StakeInv, TypeOK, Amounts, Pairs
<1>2. /\ new <= MaxBalance /\ new \in Nat
      /\ balance' = [balance EXCEPT ![k] = new]
      /\ totalStaked[k[2]] + (new - balance[k]) <= MaxBalance
      /\ totalStaked' = [totalStaked EXCEPT ![k[2]] = @ + (new - balance[k])]
  BY <1>1 DEF Stake, UpdateTotalsOnStake
<1>3. new - balance[k] = n
  BY <1>1
<1> HIDE DEF new
<1>4. /\ balance' \in [Pairs -> 0..MaxBalance] /\ balance'[k] = new
      /\ \A j \in Pairs \ {k} : balance'[j] = balance[j]
  BY <1>1, <1>2
<1>5. totalStaked' \in [Assets -> 0..MaxBalance]
  <2>1. totalStaked[k[2]] + n \in 0..MaxBalance
    BY <1>1, <1>2, <1>3
  <2> QED BY <1>1, <1>2, <1>3, <2>1
<1>6. balance[k] = IF position[k] = None THEN 0 ELSE position[k].principal
  BY DEF StakeInv, PrincipalMirrorsBalance
<1>7. \E q \in Position : q.principal = new /\ position' = [position EXCEPT ![k] = q]
  <2>1. CASE position[k] = None
    <3>1. NewPosition(n, sch, lock) \in Position /\ NewPosition(n, sch, lock).principal = n
      BY <1>1 DEF NewPosition, Position
    <3>2. new = n
      BY <1>1, <1>6, <2>1 DEF new
    <3>3. position' = [position EXCEPT ![k] = NewPosition(n, sch, lock)]
      BY <2>1 DEF Stake
    <3> QED BY <3>1, <3>2, <3>3
  <2>2. CASE position[k] # None
    <3>1. position[k] \in Position /\ balance[k] = position[k].principal
      BY <1>1, <1>6, <2>2
    <3>2. position' = [position EXCEPT ![k].principal = @ + n]
      BY <2>2 DEF Stake
    <3>3. position' = [position EXCEPT ![k] = [position[k] EXCEPT !.principal = new]]
      BY <3>1, <3>2 DEF new
    <3>4. /\ [position[k] EXCEPT !.principal = new] \in Position
          /\ [position[k] EXCEPT !.principal = new].principal = new
      BY <1>2, <3>1 DEF Position
    <3> QED BY <3>3, <3>4
  <2> QED BY <2>1, <2>2
<1>8. PICK q \in Position : q.principal = new /\ position' = [position EXCEPT ![k] = q]
  BY <1>7
<1>9. /\ position' \in [Pairs -> Position \cup {None}] /\ position'[k] = q /\ q # None
      /\ \A j \in Pairs \ {k} : position'[j] = position[j]
  BY <1>1, <1>8
<1>10. PrincipalMirrorsBalance'
  <2>1. \A j \in Pairs \ {k} :
          balance'[j] = IF position'[j] = None THEN 0 ELSE position'[j].principal
    BY <1>4, <1>9 DEF StakeInv, PrincipalMirrorsBalance
  <2>2. balance'[k] = IF position'[k] = None THEN 0 ELSE position'[k].principal
    BY <1>4, <1>8, <1>9
  <2> QED BY <2>1, <2>2 DEF PrincipalMirrorsBalance
<1>11. positionCount' \in [Stakers -> Nat] /\ activeStakers' \in Nat
  BY DEF TotalsInv, TotalsTyped
<1>12. UNCHANGED <<lockedAmount, emergency, cooldownEnd, history, now>>
  BY DEF Stake, exits
<1>13. TypeOK'
  BY <1>4, <1>5, <1>9, <1>11, <1>12 DEF StakeInv, TypeOK
<1> QED BY <1>10, <1>13 DEF StakeInv

LEMMA StakesStep == StakeInv /\ [Next]_vars => StakeInv'
<1> SUFFICES ASSUME StakeInv, [Next]_vars PROVE StakeInv'
  OBVIOUS
<1>0. TypeOK /\ PrincipalMirrorsBalance /\ TotalsInv'
  BY TotalsStep DEF StakeInv
<1>1. CASE UNCHANGED vars
  BY <1>0, <1>1 DEF vars, stakes, totals, exits, StakeInv, TypeOK, PrincipalMirrorsBalance
<1>2. ASSUME NEW k \in Pairs, NEW n \in Amounts, Unstake(k, n) PROVE StakeInv'
  <2> DEFINE state == IF position[k].state = "Locked" /\ Matured(position[k].schedule)
                      THEN "Claimable" ELSE position[k].state
  <2>1. /\ position[k] # None /\ n <= balance[k] /\ Shrink(k, n, state)
        /\ UNCHANGED <<lockedAmount, emergency, cooldownEnd, history, now>>
    BY <1>2 DEF Unstake, exits
  <2>2. state \in {"Locked", "Active", "Claimable", "Withdrawn"}
    BY <1>0, <2>1 DEF TypeOK, Position
  <2> HIDE DEF state
  <2>3. /\ position' \in [Pairs -> Position \cup {None}] /\ balance' \in [Pairs -> 0..MaxBalance]
        /\ totalStaked' \in [Assets -> 0..MaxBalance]
        /\ positionCount' \in [Stakers -> Nat] /\ activeStakers' \in Nat
        /\ PrincipalMirrorsBalance'
    BY <1>0, <2>1, <2>2, ShrinkStakes
  <2> QED BY <1>0, <2>1, <2>3 DEF StakeInv, TypeOK
<1>3. ASSUME NEW k \in Pairs, NEW n \in Amounts, EmergencyUnstake(k, n) PROVE StakeInv'
  <2>1. /\ position[k] # None /\ n <= balance[k] /\ Shrink(k, n, position[k].state)
        /\ UNCHANGED <<emergency, now>> /\ k[1] \in Stakers /\ emergency # None /\ n \in Nat
    BY <1>3 DEF EmergencyUnstake, Pairs, Amounts
  <2>2. position[k].state \in {"Locked", "Active", "Claimable", "Withdrawn"}
    BY <1>0, <2>1 DEF TypeOK, Position
  <2>3. /\ position' \in [Pairs -> Position \cup {None}] /\ balance' \in [Pairs -> 0..MaxBalance]
        /\ totalStaked' \in [Assets -> 0..MaxBalance]
        /\ positionCount' \in [Stakers -> Nat] /\ activeStakers' \in Nat
        /\ PrincipalMirrorsBalance'
    BY <1>0, <2>1, <2>2, ShrinkStakes
  <2>4. history' \in [Stakers -> Seq(EmergencyRecord)]
    <3>1. NewRecord(position[k], n) \in EmergencyRecord
      BY <1>0, <1>3, RecordType
    <3>2. history' = [history EXCEPT ![k[1]] = Append(history[k[1]], NewRecord(position[k], n))]
      BY <1>3 DEF EmergencyUnstake
    <3>3. Append(history[k[1]], NewRecord(position[k], n)) \in Seq(EmergencyRecord)
      BY <1>0, <2>1, <3>1 DEF TypeOK
    <3> QED BY <1>0, <2>1, <3>2, <3>3 DEF TypeOK
  <2>5. cooldownEnd' \in [Stakers -> Nat]
    <3>1. emergency.cooldown \in Nat /\ now \in Nat
      BY <1>0, <2>1 DEF TypeOK, EmergencyConfig
    <3> QED BY <1>0, <1>3, <2>1, <3>1 DEF EmergencyUnstake, TypeOK
  <2>6. lockedAmount' \in [Stakers -> Int \cup {None}]
    BY <1>0, <1>3, <2>1 DEF EmergencyUnstake, ReduceLock, TypeOK
  <2> QED BY <1>0, <2>1, <2>3, <2>4, <2>5, <2>6 DEF StakeInv, TypeOK
<1>4. ASSUME NEW s \in Stakers, NEW n \in LockAmounts, SetLockPosition(s, n) PROVE StakeInv'
  <2>1. lockedAmount' \in [Stakers -> Int \cup {None}]
    BY <1>0, <1>4 DEF SetLockPosition, TypeOK
  <2> QED BY <1>0, <1>4, <2>1
          DEF SetLockPosition, StakeInv, TypeOK, PrincipalMirrorsBalance, stakes, totals
<1>5. ASSUME NEW c \in EmergencyConfigs, ConfigureEmergency(c) PROVE StakeInv'
  BY <1>0, <1>5
  DEF ConfigureEmergency, StakeInv, TypeOK, PrincipalMirrorsBalance, stakes, totals
<1>6. CASE Tick
  BY <1>0, <1>6 DEF Tick, StakeInv, TypeOK, PrincipalMirrorsBalance, stakes, totals, exits
<1> QED BY <1>0, <1>1, <1>2, <1>3, <1>4, <1>5, <1>6, StakeStakes DEF Next

(***************************************************************************)
(* Whatever stakers and the admin call, the stored values keep their type:  *)
(* no total or balance leaves 0..i128::MAX, and every penalty is a number,  *)
(* whatever the lock it is measured on.                                     *)
(***************************************************************************)
THEOREM TypeCorrect == Spec => []TypeOK
<1>1. StakeInv => TypeOK
  BY DEF StakeInv
<1> QED BY <1>1, StakeInit, StakesStep, PTL DEF Spec

(***************************************************************************)
(* The principal in a position, which three entry points of two modules     *)
(* write, is always the balance of its pair, and no balance is without a    *)
(* position to leave through.                                               *)
(***************************************************************************)
THEOREM PrincipalsTrue == Spec => []PrincipalMirrorsBalance
<1>1. StakeInv => PrincipalMirrorsBalance
  BY DEF StakeInv
<1> QED BY <1>1, StakeInit, StakesStep, PTL DEF Spec

-----------------------------------------------------------------------------
(* Cooldowns *)

(***************************************************************************)
(* CooldownKept staker by staker, and what keeps it: the last withdrawal is *)
(* not in the future, and unless the configuration it was made under had no *)
(* cooldown, CooldownEnd lies that cooldown after it.                       *)
(***************************************************************************)
Spaced(s) ==
  \A i \in 1..(Len(history[s]) - 1) :
    \E c \in EmergencyConfigs : history[s][i + 1].at >= history[s][i].at + c.cooldown

LastGuarded(s) ==
  Len(history[s]) > 0 =>
    /\ now >= history[s][Len(history[s])].at
    /\ \E c \in EmergencyConfigs :
         c.cooldown = 0 \/ cooldownEnd[s] >= history[s][Len(history[s])].at + c.cooldown

CoolInv == StakeInv /\ \A s \in Stakers : Spaced(s) /\ LastGuarded(s)

LEMMA CoolInit == Init => CoolInv
<1> SUFFICES ASSUME Init PROVE CoolInv
  OBVIOUS
<1>1. \A s \in Stakers : Len(history[s]) = 0
  BY DEF Init
<1> QED BY <1>1, StakeInit DEF CoolInv, Spaced, LastGuarded

LEMMA LastIn ==
  ASSUME NEW S, NEW h \in Seq(S), Len(h) > 0
  PROVE  h[Len(h)] \in S
OBVIOUS

LEMMA CoolKept ==
  ASSUME TypeOK, TypeOK', NEW s \in Stakers, Spaced(s), LastGuarded(s), now' >= now,
         history'[s] = history[s], cooldownEnd'[s] = cooldownEnd[s]
  PROVE  Spaced(s)' /\ LastGuarded(s)'
<1>1. now \in Nat /\ now' \in Nat /\ history[s] \in Seq(EmergencyRecord)
  BY DEF TypeOK
<1>2. Len(history[s]) > 0 => history[s][Len(history[s])].at \in Nat
  BY <1>1, LastIn DEF EmergencyRecord
<1>3. Spaced(s)'
  BY DEF Spaced
<1>4. LastGuarded(s)'
  BY <1>1, <1>2 DEF LastGuarded
<1> QED BY <1>3, <1>4

LEMMA CoolExit ==
  ASSUME TypeOK, TypeOK', \A s \in Stakers : Spaced(s) /\ LastGuarded(s),
         NEW k \in Pairs, NEW n \in Amounts, EmergencyUnstake(k, n)
  PROVE  \A s \in Stakers : Spaced(s)' /\ LastGuarded(s)'
<1> DEFINE s == k[1]
           h == history[s]
           r == NewRecord(position[k], n)
<1>1. /\ s \in Stakers /\ h \in Seq(EmergencyRecord) /\ now' = now /\ now \in Nat
      /\ emergency \in EmergencyConfigs /\ emergency.cooldown \in Nat
      /\ cooldownEnd[s] \in Nat /\ now >= cooldownEnd[s]
  BY DEF EmergencyUnstake, TypeOK, Pairs, CooldownOver, EmergencyConfig
<1>2. r \in EmergencyRecord /\ r.at = now
  BY RecordType DEF NewRecord
<1>3. /\ history' = [history EXCEPT ![s] = Append(h, r)]
      /\ cooldownEnd' = [cooldownEnd EXCEPT ![s] =
                           IF emergency.cooldown > 0 THEN now + emergency.cooldown ELSE @]
  BY DEF EmergencyUnstake
<1> HIDE DEF r
<1>4. /\ history'[s] = Append(h, r)
      /\ \A x \in Stakers \ {s} : history'[x] = history[x] /\ cooldownEnd'[x] = cooldownEnd[x]
      /\ cooldownEnd'[s] = IF emergency.cooldown > 0 THEN now + emergency.cooldown
                           ELSE cooldownEnd[s]
  BY <1>1, <1>3 DEF TypeOK
<1>5. ASSUME NEW x \in Stakers, x # s PROVE Spaced(x)' /\ LastGuarded(x)'
  BY <1>1, <1>4, <1>5, CoolKept
<1>6. /\ Len(history'[s]) = Len(h) + 1 /\ history'[s][Len(h) + 1] = r
      /\ \A i \in 1..Len(h) : history'[s][i] = h[i]
      /\ Len(h) \in Nat
  BY <1>1, <1>2, <1>4
<1>7. Spaced(s) /\ LastGuarded(s)
  BY <1>1
<1>8. LastGuarded(s)'
  <2>1. now' >= history'[s][Len(history'[s])].at
    BY <1>1, <1>2, <1>6
  <2>2. emergency.cooldown = 0
          \/ cooldownEnd'[s] >= history'[s][Len(history'[s])].at + emergency.cooldown
    BY <1>1, <1>2, <1>4, <1>6
  <2> QED BY <1>1, <2>1, <2>2 DEF LastGuarded
<1>9. Spaced(s)'
  <2>1. SUFFICES ASSUME NEW i \in 1..Len(h)
                 PROVE  \E c \in EmergencyConfigs :
                          history'[s][i + 1].at >= history'[s][i].at + c.cooldown
    BY <1>6 DEF Spaced
  <2>2. CASE i < Len(h)
    <3>1. i \in 1..(Len(h) - 1) /\ history'[s][i + 1] = h[i + 1] /\ history'[s][i] = h[i]
      BY <1>6, <2>2
    <3> QED BY <1>7, <3>1 DEF Spaced
  <2>3. CASE i = Len(h)
    <3>1. history'[s][i + 1] = r /\ history'[s][i] = h[Len(h)] /\ Len(h) > 0
      BY <1>6, <2>3
    <3>2. h[Len(h)].at \in Nat
      BY <1>1, <3>1, LastIn DEF EmergencyRecord
    <3>3. PICK c \in EmergencyConfigs :
            c.cooldown = 0 \/ cooldownEnd[s] >= h[Len(h)].at + c.cooldown
      BY <1>7, <3>1 DEF LastGuarded
    <3>4. c.cooldown \in Nat /\ now >= h[Len(h)].at
      BY <1>7, <3>1 DEF LastGuarded, EmergencyConfig
    <3>5. now >= h[Len(h)].at + c.cooldown
      BY <1>1, <3>2, <3>3, <3>4
    <3> QED BY <1>2, <3>1, <3>5
  <2> QED BY <1>6, <2>2, <2>3
<1> QED BY <1>5, <1>8, <1>9

LEMMA CoolStep == CoolInv /\ [Next]_vars => CoolInv'
<1> SUFFICES ASSUME CoolInv, [Next]_vars PROVE \A s \in Stakers : Spaced(s)' /\ LastGuarded(s)'
  BY StakesStep DEF CoolInv
<1>0. TypeOK /\ TypeOK' /\ (\A s \in Stakers : Spaced(s) /\ LastGuarded(s)) /\ now \in Nat
  BY StakesStep DEF CoolInv, StakeInv, TypeOK
<1>1. CASE UNCHANGED <<history, cooldownEnd>> /\ now' >= now
  BY <1>0, <1>1, CoolKept
<1>2. CASE UNCHANGED vars
  BY <1>0, <1>1, <1>2 DEF vars, exits
<1>3. ASSUME NEW k \in Pairs, NEW n \in Amounts, NEW sch \in Schedules, NEW lock \in BOOLEAN,
             Stake(k, n, sch, lock)
      PROVE  UNCHANGED <<history, cooldownEnd>> /\ now' >= now
  BY <1>0, <1>3 DEF Stake, exits
<1>4. CASE (\E s \in Stakers, n \in LockAmounts : SetLockPosition(s, n))
             \/ (\E c \in EmergencyConfigs : ConfigureEmergency(c)) \/ Tick
  BY <1>0, <1>1, <1>4 DEF SetLockPosition, ConfigureEmergency, Tick, exits
<1>5. ASSUME NEW k \in Pairs, NEW n \in Amounts, Unstake(k, n)
      PROVE  UNCHANGED <<history, cooldownEnd>> /\ now' >= now
  BY <1>0, <1>5 DEF Unstake, exits
<1>6. ASSUME NEW k \in Pairs, NEW n \in Amounts, EmergencyUnstake(k, n)
      PROVE  \A s \in Stakers : Spaced(s)' /\ LastGuarded(s)'
  BY <1>0, <1>6, CoolExit
<1> QED BY <1>0, <1>1, <1>2, <1>3, <1>4, <1>5, <1>6 DEF Next

(***************************************************************************)
(* Two emergency withdrawals of one staker are never closer than a cooldown *)
(* that was configured, from whichever of its assets, however the admin     *)
(* changes the configuration in between.                                    *)
(***************************************************************************)
THEOREM CooldownsKept == Spec => []CooldownKept
<1>1. CoolInv => CooldownKept
  BY DEF CoolInv, Spaced, CooldownKept
<1> QED BY <1>1, CoolInit, CoolStep, PTL DEF Spec

-----------------------------------------------------------------------------
(* Penalties: the longer a lock has lasted, the less leaving it costs *)

LEMMA DivMono ==
  ASSUME NEW x \in Nat, NEW y \in Nat, NEW d \in Nat \ {0}, x <= y
  PROVE  x \div d \in Nat /\ y \div d \in Nat /\ x \div d <= y \div d
<1> DEFINE p == x \div d
           q == y \div d
<1>1. p \in Nat /\ q \in Nat
  OBVIOUS
<1>2. d * p <= x /\ y < d * q + d
  OBVIOUS
<1> HIDE DEF p, q
<1>3. ASSUME p > q PROVE FALSE
  <2>1. p >= q + 1
    BY <1>1, <1>3
  <2>2. d * p >= d * (q + 1)
    BY <1>1, <2>1
  <2>3. d * (q + 1) = d * q + d /\ d * p \in Nat /\ d * q \in Nat
    BY <1>1
  <2> QED BY <1>2, <2>2, <2>3
<1>4. p <= q
  BY <1>1, <1>3
<1> QED BY <1>1, <1>4 DEF p, q

LEMMA ProductMono ==
  ASSUME NEW x \in Nat, NEW y \in Nat, NEW m \in Nat, x <= y
  PROVE  x * m \in Nat /\ y * m \in Nat /\ x * m <= y * m /\ m * x <= m * y
OBVIOUS

LEMMA WholeQuotient ==
  ASSUME NEW m \in Nat, NEW d \in Nat \ {0}
  PROVE  (d * m) \div d = m /\ (m * d) \div d = m
OBVIOUS

(* What the part of the lock that has passed takes off the rate.            *)
Elapsed(e, total) == (e * Scale) \div total
Cut(c, e, total) == ((c.start - c.end) * Elapsed(e, total)) \div Scale

LEMMA LinearCut ==
  ASSUME NEW c \in EmergencyConfigs, c.start >= c.end, NEW total \in Nat \ {0}, NEW e \in Nat,
         e <= total
  PROVE  /\ Cut(c, e, total) \in Nat /\ Cut(c, e, total) <= c.start - c.end
         /\ Elapsed(e, total) \in Nat /\ Elapsed(e, total) <= Scale
         /\ LinearDecay(c.start, c.end, e, total) = c.start - Cut(c, e, total)
<1> DEFINE D == c.start - c.end
           q == Elapsed(e, total)
<1>1. c.start \in Int /\ c.end \in Int /\ D \in Nat /\ Scale \in Nat \ {0}
  BY DEF EmergencyConfig
<1>2. q \in Nat /\ q <= Scale
  <2>1. e * Scale \in Nat /\ total * Scale \in Nat /\ e * Scale <= total * Scale
    BY <1>1, ProductMono
  <2>2. (e * Scale) \div total \in Nat /\ (e * Scale) \div total <= (total * Scale) \div total
    BY <2>1, DivMono
  <2>3. (total * Scale) \div total = Scale
    BY <1>1, WholeQuotient
  <2> QED BY <2>2, <2>3 DEF Elapsed
<1>3. (D * q) \div Scale \in Nat /\ (D * q) \div Scale <= D
  <2> HIDE DEF D, q
  <2>1. D * q \in Nat /\ D * Scale \in Nat /\ D * q <= D * Scale
    BY <1>1, <1>2, ProductMono
  <2>2. (D * q) \div Scale \in Nat /\ (D * q) \div Scale <= (D * Scale) \div Scale
    BY <1>1, <2>1, DivMono
  <2>3. (D * Scale) \div Scale = D
    BY <1>1, WholeQuotient
  <2> QED BY <2>2, <2>3
<1>4. MulDiv(e, Scale, total) = q
  <2>1. e * Scale \in Nat
    BY <1>1, ProductMono
  <2> QED BY <2>1 DEF MulDiv, Elapsed
<1>5. MulDiv(c.end - c.start, q, Scale) = -((D * q) \div Scale)
  <2>1. c.end - c.start = -D
    BY <1>1
  <2> HIDE DEF D, q
  <2>2. (-D) * q = -(D * q) /\ D * q \in Nat
    BY <1>1, <1>2
  <2>3. CASE D * q = 0
    <3>1. 0 \div Scale = 0
      BY <1>1
    <3> QED BY <2>1, <2>2, <2>3, <3>1 DEF MulDiv
  <2>4. CASE D * q # 0
    <3>1. (-D) * q < 0 /\ -((-D) * q) = D * q
      BY <2>2, <2>4
    <3> QED BY <2>1, <2>2, <3>1 DEF MulDiv
  <2> QED BY <2>3, <2>4
<1>6. LinearDecay(c.start, c.end, e, total) = c.start - ((D * q) \div Scale)
  <2> HIDE DEF D, q
  <2>1. LinearDecay(c.start, c.end, e, total) = c.start + (-((D * q) \div Scale))
    BY <1>4, <1>5 DEF LinearDecay
  <2> QED BY <1>1, <1>3, <2>1
<1> QED BY <1>2, <1>3, <1>6 DEF Cut

LEMMA CutMono ==
  ASSUME NEW c \in EmergencyConfigs, c.start >= c.end, NEW total \in Nat \ {0},
         NEW e \in Nat, NEW f \in Nat, e <= f, f <= total
  PROVE  Cut(c, e, total) <= Cut(c, f, total)
<1> DEFINE D == c.start - c.end
<1>1. D \in Nat /\ Scale \in Nat \ {0}
  BY DEF EmergencyConfig
<1>2. e * Scale \in Nat /\ f * Scale \in Nat /\ e * Scale <= f * Scale
  BY <1>1, ProductMono
<1>3. Elapsed(e, total) \in Nat /\ Elapsed(f, total) \in Nat /\ Elapsed(e, total) <= Elapsed(f, total)
  BY <1>2, DivMono DEF Elapsed
<1> HIDE DEF D
<1>4. /\ D * Elapsed(e, total) \in Nat /\ D * Elapsed(f, total) \in Nat
      /\ D * Elapsed(e, total) <= D * Elapsed(f, total)
  BY <1>1, <1>3, ProductMono
<1>5. (D * Elapsed(e, total)) \div Scale <= (D * Elapsed(f, total)) \div Scale
  BY <1>1, <1>4, DivMono
<1> QED BY <1>5 DEF Cut, D

(* The rate before it is clamped.                                           *)
Level(c, e, total) ==
  IF total = 0 \/ e = 0 THEN c.start
  ELSE IF e >= total THEN c.end
  ELSE IF c.decay = "Linear" THEN c.start - Cut(c, e, total) ELSE c.start

LEMMA PenaltyLevel ==
  ASSUME NEW c \in EmergencyConfigs, c.start >= c.end, c.start >= 0, NEW total \in Nat,
         NEW e \in Nat
  PROVE  Level(c, e, total) \in Int /\ PenaltyBps(c, e, total) = Clamp(Level(c, e, total))
<1>1. c.start \in Int /\ c.end \in Int /\ MaxBps = 10000
  BY DEF EmergencyConfig, MaxBps
<1>2. CASE total = 0 \/ e = 0
  BY <1>1, <1>2 DEF Level, PenaltyBps, Clamp
<1>3. CASE total # 0 /\ e # 0 /\ e >= total
  BY <1>1, <1>3 DEF Level, PenaltyBps
<1>4. CASE total # 0 /\ e # 0 /\ ~(e >= total)
  <2>1. total \in Nat \ {0} /\ e <= total
    BY <1>4
  <2>2. /\ Cut(c, e, total) \in Nat
        /\ LinearDecay(c.start, c.end, e, total) = c.start - Cut(c, e, total)
    BY <2>1, LinearCut
  <2>3. Level(c, e, total) = IF c.decay = "Linear" THEN c.start - Cut(c, e, total) ELSE c.start
    BY <1>4 DEF Level
  <2>4. PenaltyBps(c, e, total)
          = Clamp(IF c.decay = "Linear" THEN LinearDecay(c.start, c.end, e, total) ELSE c.start)
    BY <1>4 DEF PenaltyBps
  <2>5. Level(c, e, total) \in Int
    BY <1>1, <2>2, <2>3
  <2> QED BY <2>2, <2>3, <2>4, <2>5
<1> QED BY <1>2, <1>3, <1>4

LEMMA LevelFalls ==
  ASSUME NEW c \in EmergencyConfigs, c.start >= c.end, c.start >= 0, NEW total \in Nat,
         NEW e \in Nat, NEW f \in Nat, e <= f
  PROVE  Level(c, f, total) <= Level(c, e, total)
<1>1. c.start \in Int /\ c.end \in Int
  BY DEF EmergencyConfig
<1>2. CASE total = 0 \/ f = 0
  BY <1>1, <1>2 DEF Level
<1>3. CASE total # 0 /\ f # 0 /\ f >= total
  <2>1. Level(c, f, total) = c.end
    BY <1>3 DEF Level
  <2>2. CASE e = 0 \/ e >= total
    BY <1>1, <1>3, <2>1, <2>2 DEF Level
  <2>3. CASE e # 0 /\ ~(e >= total)
    <3>1. Cut(c, e, total) \in Nat /\ Cut(c, e, total) <= c.start - c.end
      BY <1>3, <2>3, LinearCut
    <3>2. Level(c, e, total) \in {c.start - Cut(c, e, total), c.start}
      BY <1>3, <2>3 DEF Level
    <3> QED BY <1>1, <2>1, <3>1, <3>2
  <2> QED BY <2>2, <2>3
<1>4. CASE total # 0 /\ f # 0 /\ ~(f >= total)
  <2>1. /\ Cut(c, f, total) \in Nat
        /\ Level(c, f, total) = IF c.decay = "Linear" THEN c.start - Cut(c, f, total) ELSE c.start
    BY <1>4, LinearCut DEF Level
  <2>2. CASE e = 0
    BY <1>1, <2>1, <2>2 DEF Level
  <2>3. CASE e # 0
    <3>1. Level(c, e, total) = IF c.decay = "Linear" THEN c.start - Cut(c, e, total) ELSE c.start
      BY <1>4, <2>3 DEF Level
    <3>2. /\ Cut(c, e, total) \in Nat /\ Cut(c, e, total) <= Cut(c, f, total)
      BY <1>4, LinearCut, CutMono
    <3> QED BY <1>1, <2>1, <3>1, <3>2
  <2> QED BY <2>2, <2>3
<1> QED BY <1>2, <1>3, <1>4

(* Under rates that do not rise from the start of a lock to its end, the    *)
(* rate never rises in between.                                             *)
LEMMA PenaltyFalls ==
  ASSUME NEW c \in EmergencyConfigs, c.start >= c.end, c.start >= 0, NEW total \in Nat,
         NEW e \in Nat, NEW f \in Nat, e <= f
  PROVE  PenaltyBps(c, f, total) <= PenaltyBps(c, e, total)
<1>1. /\ Level(c, e, total) \in Int /\ Level(c, f, total) \in Int
      /\ Level(c, f, total) <= Level(c, e, total)
      /\ PenaltyBps(c, e, total) = Clamp(Level(c, e, total))
      /\ PenaltyBps(c, f, total) = Clamp(Level(c, f, total))
  BY PenaltyLevel, LevelFalls
<1>2. ASSUME NEW a \in Int, NEW b \in Int, a <= b PROVE Clamp(a) <= Clamp(b)
  BY <1>2 DEF Clamp, MaxBps
<1> QED BY <1>1, <1>2

-----------------------------------------------------------------------------
(* Early exits *)

ExitNow(k) ==
  LET p == position[k] IN
  (balance'[k] < balance[k] /\ p.schedule.kind = "Cliff" /\ now < p.schedule.unlock) =>
    /\ Len(history'[k[1]]) = Len(history[k[1]]) + 1
    /\ LET r == history'[k[1]][Len(history'[k[1]])] IN
       /\ r.requested = balance[k] - balance'[k]
       /\ (emergency.start >= emergency.end /\ emergency.start >= 0) =>
            \A t \in now..MaxTime :
              PenaltyBps(emergency, SaturatingSub(t, p.openedAt), LockLength(p)) <= r.bps

LEMMA ExitByEmergency ==
  ASSUME StakeInv, NEW k \in Pairs, NEW n \in Amounts, EmergencyUnstake(k, n)
  PROVE  ExitNow(k)
<1> DEFINE s == k[1]
           p == position[k]
           r == NewRecord(p, n)
<1>1. /\ s \in Stakers /\ p \in Position /\ now \in Nat /\ MaxTime \in Nat
      /\ history \in [Stakers -> Seq(EmergencyRecord)]
      /\ balance[k] \in Nat /\ n \in Nat
      /\ emergency \in EmergencyConfigs
  BY DEF StakeInv, TypeOK, Pairs, EmergencyUnstake, Amounts
<1>2. /\ history' = [history EXCEPT ![s] = Append(@, r)]
      /\ balance' = [balance EXCEPT ![k] = balance[k] - n]
  BY DEF EmergencyUnstake, Shrink
<1>3. /\ Len(history'[s]) = Len(history[s]) + 1
      /\ history'[s][Len(history'[s])] = r
  <2>1. history[s] \in Seq(EmergencyRecord) /\ history'[s] = Append(history[s], r)
    BY <1>1, <1>2
  <2> QED BY <2>1
<1>4. r.requested = balance[k] - balance'[k]
  <2>1. balance'[k] = balance[k] - n
    BY <1>2 DEF StakeInv, TypeOK
  <2> QED BY <1>1, <2>1 DEF NewRecord
<1>5. ASSUME p.schedule.kind = "Cliff", emergency.start >= emergency.end, emergency.start >= 0,
             NEW t \in now..MaxTime
      PROVE  PenaltyBps(emergency, SaturatingSub(t, p.openedAt), LockLength(p)) <= r.bps
  <2>1. p.openedAt \in Nat /\ p.schedule \in Schedule
    BY <1>1 DEF Position
  <2>2. p.schedule.unlock \in Nat
    BY <1>5, <2>1 DEF Schedule
  <2>3. /\ LockLength(p) = SaturatingSub(p.schedule.unlock, p.openedAt)
        /\ LockStart(p) = p.openedAt
    BY <1>5 DEF LockLength, LockStart
  <2>4. LockLength(p) \in Nat
    BY <2>1, <2>2, <2>3 DEF SaturatingSub
  <2>5. /\ SaturatingSub(now, p.openedAt) \in Nat /\ SaturatingSub(t, p.openedAt) \in Nat
        /\ SaturatingSub(now, p.openedAt) <= SaturatingSub(t, p.openedAt)
    BY <1>1, <2>1 DEF SaturatingSub
  <2>6. PenaltyBps(emergency, SaturatingSub(t, p.openedAt), LockLength(p))
          <= PenaltyBps(emergency, SaturatingSub(now, p.openedAt), LockLength(p))
    BY <1>1, <1>5, <2>4, <2>5, PenaltyFalls
  <2>7. r.bps = PenaltyBps(emergency, SaturatingSub(now, p.openedAt), LockLength(p))
    BY <2>3 DEF NewRecord, PenaltyOn
  <2> QED BY <2>6, <2>7
<1> HIDE DEF r
<1> QED BY <1>3, <1>4, <1>5 DEF ExitNow

LEMMA ExitStep ==
  ASSUME StakeInv, Next, NEW k \in Pairs
  PROVE  ExitNow(k)
<1>0. /\ StakeInv' /\ balance \in [Pairs -> Nat] /\ balance' \in [Pairs -> Nat]
      /\ Amounts \subseteq Nat
  BY StakesStep DEF StakeInv, TypeOK, Amounts
<1>1. ASSUME ~(balance'[k] < balance[k]) PROVE ExitNow(k)
  BY <1>1 DEF ExitNow
<1>2. ASSUME NEW j \in Pairs, NEW n \in Amounts, NEW sch \in Schedules, NEW lock \in BOOLEAN,
             Stake(j, n, sch, lock)
      PROVE  ExitNow(k)
  <2>1. balance' = [balance EXCEPT ![j] = balance[j] + n] /\ n \in Nat
    BY <1>0, <1>2 DEF Stake
  <2>2. ~(balance'[k] < balance[k])
    BY <1>0, <2>1
  <2> QED BY <1>1, <2>2
<1>3. ASSUME NEW j \in Pairs, NEW n \in Amounts, Unstake(j, n) PROVE ExitNow(k)
  <2>1. balance' = [balance EXCEPT ![j] = balance[j] - n] /\ CanUnstake(j, n)
    BY <1>3 DEF Unstake, Shrink
  <2>2. CASE j # k
    <3>1. ~(balance'[k] < balance[k])
      BY <1>0, <2>1, <2>2
    <3> QED BY <1>1, <3>1
  <2>3. CASE j = k
    <3>1. ~(position[k].schedule.kind = "Cliff" /\ now < position[k].schedule.unlock)
      <4>1. ASSUME position[k].schedule.kind = "Cliff" PROVE now >= position[k].schedule.unlock
        BY <2>1, <2>3, <4>1 DEF CanUnstake
      <4>2. ASSUME position[k].schedule.kind = "Cliff" PROVE position[k].schedule.unlock \in Nat
        <5>1. position[k] \in Position
          BY <1>3, <2>3 DEF Unstake, StakeInv, TypeOK
        <5>2. position[k].schedule \in Schedule
          BY <5>1 DEF Position
        <5> QED BY <4>2, <5>2 DEF Schedule
      <4>3. now \in Nat
        BY DEF StakeInv, TypeOK
      <4> QED BY <4>1, <4>2, <4>3
    <3> QED BY <3>1 DEF ExitNow
  <2> QED BY <2>2, <2>3
<1>4. ASSUME NEW j \in Pairs, NEW n \in Amounts, EmergencyUnstake(j, n) PROVE ExitNow(k)
  <2>1. balance' = [balance EXCEPT ![j] = balance[j] - n]
    BY <1>4 DEF EmergencyUnstake, Shrink
  <2>2. CASE j # k
    <3>1. ~(balance'[k] < balance[k])
      BY <1>0, <2>1, <2>2
    <3> QED BY <1>1, <3>1
  <2>3. CASE j = k
    BY <1>4, <2>3, ExitByEmergency
  <2> QED BY <2>2, <2>3
<1>5. CASE (\E s \in Stakers, n \in LockAmounts : SetLockPosition(s, n))
             \/ (\E c \in EmergencyConfigs : ConfigureEmergency(c)) \/ Tick
  <2>1. balance' = balance
    BY <1>5 DEF SetLockPosition, ConfigureEmergency, Tick, stakes
  <2>2. ~(balance'[k] < balance[k])
    BY <1>0, <2>1
  <2> QED BY <1>1, <2>2
<1> QED BY <1>2, <1>3, <1>4, <1>5 DEF Next

(***************************************************************************)
(* Nothing leaves a cliff early but by a recorded emergency withdrawal, and *)
(* for any rates that do not rise over the lock, any length of it and any   *)
(* scale of the fixed-point arithmetic, the rate paid is at least that of   *)
(* every later moment.                                                      *)
(***************************************************************************)
THEOREM EarlyExitsPenalized == Spec => EarlyExitPenalized
<1>1. StakeInv /\ [Next]_vars => [\A k \in Pairs : ExitNow(k)]_vars
  BY ExitStep
<1> QED BY <1>1, StakeInit, StakesStep, PTL DEF Spec, EarlyExitPenalized, ExitNow

-----------------------------------------------------------------------------
(* The contract: stakes and yield over one ledger clock *)

(***************************************************************************)
(* Each side runs as if the other were not there: a call of one leaves the  *)
(* state of the other alone, and the clock ticks for both.                  *)
(***************************************************************************)
THEOREM EachSideRuns == ContractSpec => Spec /\ Yields!Spec
<1>1. ContractInit => Init /\ Yields!Init
  BY DEF ContractInit
<1>2. [ContractNext]_contractVars => [Next]_vars /\ [Yields!Next]_(Yields!vars)
  <2>1. ASSUME StakeStep PROVE [Next]_vars /\ [Yields!Next]_(Yields!vars)
    <3>1. Next /\ UNCHANGED <<record, logged, claimed, paid, schedules, offered, reserve, paused>>
      BY <2>1 DEF StakeStep, yieldVars
    <3>2. CASE Tick
      <4>1. Yields!Tick
        BY <3>1, <3>2 DEF Tick, Yields!Tick, Yields!positions, Yields!payouts
      <4> QED BY <3>1, <4>1 DEF Yields!Next
    <3>3. CASE ~Tick
      <4>1. now' = now
        BY <3>1, <3>3 DEF Next, Stake, Unstake, EmergencyUnstake, SetLockPosition,
                          ConfigureEmergency, Shrink, exits, stakes, totals
      <4> QED BY <3>1, <4>1 DEF Yields!vars, Yields!positions, Yields!payouts
    <3> QED BY <3>2, <3>3
  <2>2. ASSUME YieldStep PROVE [Next]_vars /\ [Yields!Next]_(Yields!vars)
    <3>1. Yields!Next /\ UNCHANGED <<stakes, totals, exits>>
      BY <2>2 DEF YieldStep
    <3>2. CASE Yields!Tick
      <4>1. Tick
        BY <3>1, <3>2 DEF Tick, Yields!Tick
      <4> QED BY <3>1, <4>1 DEF Next
    <3>3. CASE ~Yields!Tick
      <4>1. now' = now
        BY <3>1, <3>3 DEF Yields!Next, Yields!Earn, Yields!Claim, Yields!Distribute,
             Yields!OpenPosition, Yields!Accrue, Yields!SetRate, Yields!ClaimYield,
             Yields!ClaimYieldPartial, Yields!BatchClaim, Yields!ScheduleDistribution,
             Yields!ProcessDistribution, Yields!FundReserve, Yields!WithdrawReserve, Yields!SetPaused
      <4> QED BY <3>1, <4>1 DEF vars
    <3> QED BY <3>2, <3>3
  <2>3. ASSUME UNCHANGED contractVars PROVE UNCHANGED vars /\ UNCHANGED Yields!vars
    BY <2>3 DEF contractVars, yieldVars, vars, Yields!vars, Yields!positions, Yields!payouts
  <2> QED BY <2>1, <2>2, <2>3 DEF ContractNext
<1> QED BY <1>1, <1>2, PTL DEF ContractSpec, Spec, Yields!Spec

(***************************************************************************)
(* Both sides keep their types, and a position's principal is the balance   *)
(* of its pair.                                                             *)
(***************************************************************************)
THEOREM ContractTyped == ContractSpec => []StakesTyped
<1>1. TypeOK /\ PrincipalMirrorsBalance /\ (Yields!TypeOK /\ Yields!HistoryTrue /\ Yields!PaidOncePerDate)
        => StakesTyped
  BY DEF StakesTyped
<1> QED BY <1>1, EachSideRuns, TypeCorrect, PrincipalsTrue, YieldToldTrue, PTL

(***************************************************************************)
(* In the contract the totals are the sums of the balances, cooldowns hold  *)
(* and leaving early never costs less than leaving later.                   *)
(***************************************************************************)
THEOREM StakesSound == ContractSpec => []TotalsAgree /\ []CooldownKept /\ EarlyExitPenalized
BY EachSideRuns, TotalsExact, CooldownsKept, EarlyExitsPenalized, PTL

(***************************************************************************)
(* A staker's yield history is true until a reserve caps it, and each date  *)
(* of a distribution is paid once.                                          *)
(***************************************************************************)
THEOREM YieldIsAccounted == ContractSpec => []YieldAccounted
<1>1. (Yields!TypeOK /\ Yields!HistoryTrue /\ Yields!PaidOncePerDate) => YieldAccounted
  BY DEF YieldAccounted
<1> QED BY <1>1, EachSideRuns, YieldToldTrue, PTL

(***************************************************************************)
(* No order of calls creates, loses or pays twice what was earned; payouts  *)
(* of a reserve reach stakers in full.                                      *)
(***************************************************************************)
THEOREM YieldIsKept == ContractSpec => YieldConserved
BY EachSideRuns, YieldIsConserved, PTL DEF YieldConserved
=============================================================================
