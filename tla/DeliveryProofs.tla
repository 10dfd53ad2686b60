---------------------------- MODULE DeliveryProofs ----------------------------
(***************************************************************************)
(* Theorems about the deliveries of Promises, for any subscribers, filters, *)
(* modes and events, and any number of calls: the counters are those of the *)
(* records, and the steps are those of the abstract Outbox.                 *)
(***************************************************************************)
EXTENDS Promises, TotalsProofs, SequenceTheorems

(* Total and IsFiniteSet are the same operators wherever they are taken from. *)
LEMMA DeliverySettings ==
  /\ \A f : Delivered!Total(f) = Total(f)
  /\ \A S : Delivered!Cardinality(S) = Cardinality(S)
  /\ IsFiniteSet(Subscribers)
  /\ MaxSubs \in Nat /\ MaxEvents \in Nat /\ MaxChanges \in Nat /\ MaxAttempts \in Nat /\ MaxTime \in Nat
  /\ \A n \in 0..MaxAttempts : Delivered!Backoff(n) \in Nat \ {0}
<1>1. \A S : Delivered!Cardinality(S) = Cardinality(S) /\ (Delivered!IsFiniteSet(S) <=> IsFiniteSet(S))
  BY Zenon DEF Cardinality, Delivered!Cardinality, IsFiniteSet, Delivered!IsFiniteSet
<1>2. \A f : Delivered!Total(f) = Total(f)
  BY <1>1 DEF Delivered!Total, Total, Delivered!Units, Units
<1> QED BY <1>1, <1>2, DeliveryAssumption DEF Delivered!DeliveryAssumption

-----------------------------------------------------------------------------
(* Counting records *)

(* A record that has been sent has been tried. *)
Kept == {r \in Delivered!DeliveryRecord : r.status # "Pending" => r.attempts >= 1}
Lists == [Subscribers -> Seq(Kept)]

Places(d) == UNION {{s} \X DOMAIN d[s] : s \in Subscribers}
Counts(d, f) == [r \in Places(d) |-> f[d[r[1]][r[2]]]]
Counted(d, f) == Total(Counts(d, f))

LEMMA PlacesFinite ==
  ASSUME NEW d \in Lists
  PROVE  /\ IsFiniteSet(Places(d))
         /\ \A r : r \in Places(d) <=> \E s \in Subscribers : \E i \in DOMAIN d[s] : r = <<s, i>>
         /\ \A s \in Subscribers : Len(d[s]) \in Nat /\ DOMAIN d[s] = 1..Len(d[s])
         /\ \A s \in Subscribers : \A i \in DOMAIN d[s] : d[s][i] \in Kept
<1> DEFINE n == [s \in Subscribers |-> Len(d[s])]
<1>1. \A s \in Subscribers : d[s] \in Seq(Kept)
  BY DEF Lists
<1>2. ASSUME NEW s \in Subscribers
      PROVE  Len(d[s]) \in Nat /\ DOMAIN d[s] = 1..Len(d[s]) /\ \A i \in DOMAIN d[s] : d[s][i] \in Kept
  BY <1>1, LenProperties
<1>3. n \in [Subscribers -> Nat]
  BY <1>2
<1>4. Units(n) = Places(d)
  BY <1>2 DEF Units, Places
<1>5. IsFiniteSet(Places(d))
  <2> HIDE DEF n
  <2> QED BY <1>3, <1>4, UnitsFinite, DeliverySettings
<1>6. \A r : r \in Places(d) <=> \E s \in Subscribers : \E i \in DOMAIN d[s] : r = <<s, i>>
  BY DEF Places
<1> QED BY <1>2, <1>5, <1>6

LEMMA CountsTyped ==
  ASSUME NEW d \in Lists, NEW f \in [Kept -> Nat]
  PROVE  Counts(d, f) \in [Places(d) -> Nat] /\ Counted(d, f) \in Nat
<1>1. Counts(d, f) \in [Places(d) -> Nat]
  <2> SUFFICES ASSUME NEW r \in Places(d) PROVE f[d[r[1]][r[2]]] \in Nat
    BY DEF Counts
  <2>1. PICK s \in Subscribers : \E i \in DOMAIN d[s] : r = <<s, i>>
    BY PlacesFinite
  <2>2. PICK i \in DOMAIN d[s] : r = <<s, i>>
    BY <2>1
  <2>3. d[s][i] \in Kept
    BY PlacesFinite
  <2> QED BY <2>2, <2>3
<1> QED BY <1>1, PlacesFinite, UnitsFinite DEF Counted

LEMMA CountsSame ==
  ASSUME NEW d \in Lists, NEW e, Places(e) = Places(d), NEW f,
         \A s \in Subscribers : \A i \in DOMAIN d[s] : f[e[s][i]] = f[d[s][i]]
  PROVE  Counted(e, f) = Counted(d, f)
<1>1. ASSUME NEW r \in Places(d) PROVE f[e[r[1]][r[2]]] = f[d[r[1]][r[2]]]
  <2>1. PICK s \in Subscribers : \E i \in DOMAIN d[s] : r = <<s, i>>
    BY PlacesFinite
  <2>2. PICK i \in DOMAIN d[s] : r = <<s, i>>
    BY <2>1
  <2> QED BY <2>2
<1>2. Counts(e, f) = Counts(d, f)
  BY <1>1 DEF Counts
<1> QED BY <1>2 DEF Counted

(* What is counted once for each point of a set comes to its size. *)
LEMMA TotalMarks ==
  ASSUME NEW S, IsFiniteSet(S), NEW T \in SUBSET S, NEW g \in [S -> Nat],
         \A x \in S : g[x] = IF x \in T THEN 1 ELSE 0
  PROVE  Total(g) = Cardinality(T)
<1> DEFINE mark == [x \in T |-> <<x, 1>>]
<1>1. \A u : u \in Units(g) <=> \E x \in T : u = <<x, 1>>
  <2>1. ASSUME NEW u \in Units(g) PROVE \E x \in T : u = <<x, 1>>
    <3>1. PICK x \in S, i \in Nat : i \in 1..g[x] /\ u = <<x, i>>
      BY DEF Units
    <3>2. x \in T /\ i = 1
      BY <3>1
    <3> QED BY <3>1, <3>2
  <2>2. ASSUME NEW x \in T PROVE <<x, 1>> \in Units(g)
    BY DEF Units
  <2> QED BY <2>1, <2>2
<1>2. mark \in Bijection(T, Units(g))
  BY <1>1 DEF Bijection, Injection, IsInjective, Surjection
<1>3. IsFiniteSet(T)
  BY FS_Subset
<1>4. ExistsBijection(T, Units(g))
  <2> HIDE DEF mark
  <2> QED BY <1>2 DEF ExistsBijection
<1> QED BY <1>3, <1>4, FS_Bijection DEF Total

(* Records change in their places, those at T of s each by one.             *)
More(d, e, f, s, T) ==
  /\ T \subseteq DOMAIN d[s]
  /\ \A t \in Subscribers : DOMAIN e[t] = DOMAIN d[t]
  /\ \A t \in Subscribers : \A i \in DOMAIN d[t] :
       f[e[t][i]] = f[d[t][i]] + (IF t = s /\ i \in T THEN 1 ELSE 0)

LEMMA CountedMore ==
  ASSUME NEW d \in Lists, NEW e \in Lists, NEW f \in [Kept -> Nat],
         NEW s \in Subscribers, NEW T, More(d, e, f, s, T)
  PROVE  Counted(e, f) = Counted(d, f) + Cardinality(T)
<1> DEFINE P == Places(d)
           M == {s} \X T
           g == [r \in P |-> IF r \in M THEN 1 ELSE 0]
<1>1. Places(e) = P
  BY DEF Places, More
<1>2. /\ IsFiniteSet(P)
      /\ \A r : r \in P <=> \E t \in Subscribers : \E i \in DOMAIN d[t] : r = <<t, i>>
  BY PlacesFinite
<1>3. M \subseteq P
  BY <1>2 DEF More
<1>0. g \in [P -> Nat]
  OBVIOUS
<1>4. \A x \in P : g[x] = IF x \in M THEN 1 ELSE 0
  OBVIOUS
<1>5. Total(g) = Cardinality(M)
  <2> HIDE DEF g, P, M
  <2> QED BY <1>0, <1>2, <1>3, <1>4, TotalMarks
<1>6. Cardinality(M) = Cardinality(T)
  <2>1. IsFiniteSet(T)
    <3>1. IsFiniteSet(DOMAIN d[s])
      BY PlacesFinite, FS_Interval
    <3> QED BY <3>1, FS_Subset DEF More
  <2>2. IsFiniteSet({s}) /\ Cardinality({s}) = 1
    BY FS_Singleton
  <2>3. Cardinality(T) \in Nat
    BY <2>1, FS_CardinalityType
  <2>4. Cardinality(M) = 1 * Cardinality(T)
    BY <2>1, <2>2, FS_Product
  <2> QED BY <2>3, <2>4
<1>7. Counts(d, f) \in [P -> Nat] /\ Counts(e, f) \in [P -> Nat]
  BY <1>1, CountsTyped
<1>8. ASSUME NEW r \in P PROVE Counts(e, f)[r] = Counts(d, f)[r] + g[r]
  <2>1. PICK t \in Subscribers : \E i \in DOMAIN d[t] : r = <<t, i>>
    BY <1>2
  <2>2. PICK i \in DOMAIN d[t] : r = <<t, i>>
    BY <2>1
  <2>3. Counts(e, f)[r] = f[e[t][i]] /\ Counts(d, f)[r] = f[d[t][i]]
    BY <1>1, <2>2 DEF Counts
  <2>4. g[r] = IF t = s /\ i \in T THEN 1 ELSE 0
    BY <2>2
  <2> QED BY <2>3, <2>4 DEF More
<1> HIDE DEF P, M, g
<1>9. Total(Counts(e, f)) = Total(Counts(d, f)) + Total(g)
  <2> DEFINE before == Counts(d, f)
             after == Counts(e, f)
  <2>1. before \in [P -> Nat] /\ after \in [P -> Nat] /\ \A r \in P : after[r] = before[r] + g[r]
    BY <1>7, <1>8
  <2> HIDE DEF before, after
  <2>2. Total(after) = Total(before) + Total(g)
    BY <1>0, <1>2, <2>1, TotalSum
  <2> QED BY <2>2 DEF before, after
<1> QED BY <1>5, <1>6, <1>9 DEF Counted

(* A record is added to a list. *)
Added(d, e, s, x) == e = [d EXCEPT ![s] = Append(d[s], x)]

LEMMA CountedAppend ==
  ASSUME NEW d \in Lists, NEW f \in [Kept -> Nat], NEW s \in Subscribers, NEW x \in Kept,
         NEW e, Added(d, e, s, x)
  PROVE  /\ e \in Lists
         /\ Len(e[s]) = Len(d[s]) + 1 /\ e[s][Len(d[s]) + 1] = x
         /\ \A i \in DOMAIN d[s] : e[s][i] = d[s][i]
         /\ \A t \in Subscribers : t # s => e[t] = d[t]
         /\ Counted(e, f) = Counted(d, f) + f[x]
<1> DEFINE n == Len(d[s]) + 1
           new == <<s, n>>
<1>1. d[s] \in Seq(Kept) /\ Len(d[s]) \in Nat /\ DOMAIN d[s] = 1..Len(d[s])
  BY LenProperties DEF Lists
<1>2. /\ Append(d[s], x) \in Seq(Kept) /\ Len(Append(d[s], x)) = n
      /\ Append(d[s], x)[n] = x /\ \A i \in DOMAIN d[s] : Append(d[s], x)[i] = d[s][i]
  BY <1>1
<1>3. e[s] = Append(d[s], x) /\ \A t \in Subscribers : t # s => e[t] = d[t]
  BY DEF Lists, Added
<1>4. e \in Lists
  BY <1>2, <1>3 DEF Lists, Added
<1>5. DOMAIN e[s] = 1..n
  BY <1>2, <1>3, LenProperties
<1>11. \A r : r \in Places(e) <=> \E t \in Subscribers : \E i \in DOMAIN e[t] : r = <<t, i>>
  BY <1>4, PlacesFinite
<1>6. \A r : r \in Places(e) <=> r \in Places(d) \/ r = new
  <2>1. ASSUME NEW r \in Places(e) PROVE r \in Places(d) \/ r = new
    <3>1. PICK t \in Subscribers : \E i \in DOMAIN e[t] : r = <<t, i>>
      BY <1>11
    <3>2. PICK i \in DOMAIN e[t] : r = <<t, i>>
      BY <3>1
    <3>3. i \in DOMAIN d[t] \/ (t = s /\ i = n)
      BY <1>1, <1>3, <1>5
    <3> QED BY <3>2, <3>3, PlacesFinite
  <2>2. ASSUME NEW r \in Places(d) PROVE r \in Places(e)
    <3>1. PICK t \in Subscribers : \E i \in DOMAIN d[t] : r = <<t, i>>
      BY PlacesFinite
    <3>2. PICK i \in DOMAIN d[t] : r = <<t, i>>
      BY <3>1
    <3>3. i \in DOMAIN e[t]
      BY <1>1, <1>3, <1>5
    <3> QED BY <1>11, <3>2, <3>3
  <2>3. new \in Places(e)
    <3>1. n \in DOMAIN e[s]
      BY <1>1, <1>5
    <3> QED BY <1>11, <3>1
  <2> QED BY <2>1, <2>2, <2>3
<1>7. new \notin Places(d)
  <2> SUFFICES ASSUME new \in Places(d) PROVE FALSE
    OBVIOUS
  <2>1. \E t \in Subscribers : \E i \in DOMAIN d[t] : new = <<t, i>>
    BY PlacesFinite
  <2>2. n \in DOMAIN d[s]
    BY <2>1
  <2> QED BY <1>1, <2>2
<1>8. Counts(e, f)[new] = f[x]
  BY <1>2, <1>3, <1>6 DEF Counts
<1>9. ASSUME NEW r \in Places(d) PROVE Counts(e, f)[r] = Counts(d, f)[r]
  <2>1. PICK t \in Subscribers : \E i \in DOMAIN d[t] : r = <<t, i>>
    BY PlacesFinite
  <2>2. PICK i \in DOMAIN d[t] : r = <<t, i>>
    BY <2>1
  <2>3. e[t][i] = d[t][i]
    BY <1>2, <1>3
  <2>4. r \in Places(e)
    BY <1>6
  <2>5. Counts(e, f)[r] = f[e[t][i]] /\ Counts(d, f)[r] = f[d[t][i]]
    BY <2>2, <2>4 DEF Counts
  <2> QED BY <2>3, <2>5
<1>10. Total(Counts(e, f)) = Total(Counts(d, f)) + Counts(e, f)[new]
  <2>1. IsFiniteSet(Places(d)) /\ Counts(d, f) \in [Places(d) -> Nat] /\ Counts(e, f) \in [Places(e) -> Nat]
    BY <1>4, PlacesFinite, CountsTyped
  <2>2. new \in Places(e) /\ Places(d) \subseteq Places(e)
    BY <1>6
  <2> DEFINE before == Counts(d, f)
             after == Counts(e, f)
             P == Places(d)
             Q == Places(e)
  <2>3. /\ IsFiniteSet(P) /\ before \in [P -> Nat] /\ after \in [Q -> Nat]
        /\ new \in Q /\ new \notin P /\ P \subseteq Q
        /\ \A r \in Q : r \in P \/ r = new
        /\ \A r \in P : after[r] = before[r]
    BY <1>6, <1>7, <1>9, <2>1, <2>2
  <2> HIDE DEF new, before, after, P, Q
  <2>4. Total(after) = Total(before) + after[new]
    BY <2>3, TotalExtend
  <2> QED BY <2>4 DEF before, after
<1> QED BY <1>2, <1>3, <1>4, <1>8, <1>10 DEF Counted

-----------------------------------------------------------------------------
(* What is counted *)

SentOf == [r \in Kept |-> Delivered!Sent(r)]
SeenOf == [r \in Kept |-> Delivered!Acknowledged(r)]
FailedOf == [r \in Kept |-> Delivered!Failed(r)]
RetriedOf == [r \in Kept |-> Delivered!Retried(r)]
ForOne(f, id) == [r \in Kept |-> IF r.subscription_id = id THEN f[r] ELSE 0]

Metrics == [delivered : Nat, acknowledged : Nat, failed : Nat, retries : Nat]

CountsTrue(u, m, d) ==
  /\ m.delivered = Counted(d, SentOf) /\ m.acknowledged = Counted(d, SeenOf)
  /\ m.failed = Counted(d, FailedOf) /\ m.retries = Counted(d, RetriedOf)
  /\ \A id \in DOMAIN u : /\ u[id].total_delivered = Counted(d, ForOne(SentOf, id))
                          /\ u[id].total_failed = Counted(d, ForOne(FailedOf, id))

LEMMA KeptFields ==
  ASSUME NEW r \in Kept
  PROVE  /\ r \in Delivered!DeliveryRecord
         /\ r.event_id \in Delivered!EventIds /\ r.subscription_id \in 1..MaxSubs
         /\ r.status \in {"Pending", "Delivered", "Acknowledged"} /\ r.attempts \in Nat
         /\ r.next_retry_at \in 0..MaxTime
         /\ r.status # "Pending" => r.attempts >= 1
BY DEF Kept, Delivered!DeliveryRecord

LEMMA MeasuresTyped ==
  /\ SentOf \in [Kept -> Nat] /\ SeenOf \in [Kept -> Nat]
  /\ FailedOf \in [Kept -> Nat] /\ RetriedOf \in [Kept -> Nat]
  /\ \A id : ForOne(SentOf, id) \in [Kept -> Nat] /\ ForOne(FailedOf, id) \in [Kept -> Nat]
<1>1. ASSUME NEW r \in Kept
      PROVE  /\ Delivered!Sent(r) \in Nat /\ Delivered!Acknowledged(r) \in Nat
             /\ Delivered!Failed(r) \in Nat /\ Delivered!Retried(r) \in Nat
  BY <1>1, KeptFields DEF Delivered!Sent, Delivered!Acknowledged, Delivered!Failed, Delivered!Retried
<1>2. SentOf \in [Kept -> Nat] /\ SeenOf \in [Kept -> Nat]
  BY <1>1 DEF SentOf, SeenOf
<1>3. FailedOf \in [Kept -> Nat] /\ RetriedOf \in [Kept -> Nat]
  BY <1>1 DEF FailedOf, RetriedOf
<1>4. ASSUME NEW id PROVE ForOne(SentOf, id) \in [Kept -> Nat] /\ ForOne(FailedOf, id) \in [Kept -> Nat]
  BY <1>2, <1>3 DEF ForOne
<1> QED BY <1>2, <1>3, <1>4

(* MetricsTrue, in these terms. *)
LEMMA MetricsAre ==
  ASSUME deliveries \in Lists, CountsTrue(subs, metrics, deliveries)
  PROVE  Delivered!MetricsTrue
<1> DEFINE d == deliveries
           P == Delivered!AllRecords
<1>1. P = Places(d)
  BY DEF Delivered!AllRecords, Places
<1>2. ASSUME NEW r \in P PROVE d[r[1]][r[2]] \in Kept
  <2>1. PICK s \in Subscribers : \E i \in DOMAIN d[s] : r = <<s, i>>
    BY <1>1, <1>2, PlacesFinite
  <2>2. PICK i \in DOMAIN d[s] : r = <<s, i>>
    BY <2>1
  <2> QED BY <2>2, PlacesFinite
<1> HIDE DEF P, d
<1>3. Counts(d, SentOf) = [r \in P |-> Delivered!Sent(d[r[1]][r[2]])]
  BY <1>1, <1>2 DEF Counts, SentOf
<1>4. Counts(d, SeenOf) = [r \in P |-> Delivered!Acknowledged(d[r[1]][r[2]])]
  BY <1>1, <1>2 DEF Counts, SeenOf
<1>5. Counts(d, FailedOf) = [r \in P |-> Delivered!Failed(d[r[1]][r[2]])]
  BY <1>1, <1>2 DEF Counts, FailedOf
<1>6. Counts(d, RetriedOf) = [r \in P |-> Delivered!Retried(d[r[1]][r[2]])]
  BY <1>1, <1>2 DEF Counts, RetriedOf
<1>7. ASSUME NEW id
      PROVE  Counts(d, ForOne(SentOf, id)) =
               [r \in P |-> IF d[r[1]][r[2]].subscription_id = id THEN Delivered!Sent(d[r[1]][r[2]]) ELSE 0]
  BY <1>1, <1>2 DEF Counts, ForOne, SentOf
<1>8. ASSUME NEW id
      PROVE  Counts(d, ForOne(FailedOf, id)) =
               [r \in P |-> IF d[r[1]][r[2]].subscription_id = id THEN Delivered!Failed(d[r[1]][r[2]]) ELSE 0]
  BY <1>1, <1>2 DEF Counts, ForOne, FailedOf
<1>9. /\ Delivered!Tally(Delivered!Sent) = Counted(d, SentOf)
      /\ Delivered!Tally(Delivered!Acknowledged) = Counted(d, SeenOf)
      /\ Delivered!Tally(Delivered!Failed) = Counted(d, FailedOf)
      /\ Delivered!Tally(Delivered!Retried) = Counted(d, RetriedOf)
  BY <1>3, <1>4, <1>5, <1>6, DeliverySettings DEF Delivered!Tally, Counted, P, d
<1>10. ASSUME NEW id \in DOMAIN subs
       PROVE  /\ subs[id].total_delivered = Delivered!Total([r \in P |->
                   IF d[r[1]][r[2]].subscription_id = id THEN Delivered!Sent(d[r[1]][r[2]]) ELSE 0])
              /\ subs[id].total_failed = Delivered!Total([r \in P |->
                   IF d[r[1]][r[2]].subscription_id = id THEN Delivered!Failed(d[r[1]][r[2]]) ELSE 0])
  BY <1>7, <1>8, DeliverySettings DEF CountsTrue, Counted, d
<1> QED BY <1>9, <1>10 DEF Delivered!MetricsTrue, Delivered!Tally, Delivered!SubIds, CountsTrue, P, d

-----------------------------------------------------------------------------
(* Sending what is due *)

(* A function on an interval from 1 is a sequence. *)
LEMMA FunctionIsSeq ==
  ASSUME NEW S, NEW n \in Nat, NEW f \in [1..n -> S]
  PROVE  f \in Seq(S) /\ Len(f) = n /\ DOMAIN f = 1..n
<1>1. f \in Seq(S)
  BY SeqDef
<1>2. Len(f) \in Nat /\ DOMAIN f = 1..Len(f) /\ DOMAIN f = 1..n
  BY <1>1, LenProperties
<1> QED BY <1>1, <1>2

(* The books of the calls. *)
BooksTyped(b) ==
  /\ b \in [subs : Seq(Delivered!ManagedSubscription), deliveries : Lists,
            batch : [Subscribers -> Seq(Delivered!EventIds)], metrics : Metrics]
  /\ Len(b.subs) <= MaxSubs

(* Every record is of a subscription of its subscriber and of an event up   *)
(* to n, and there are not two of both.                                     *)
Owned(u, d, n) ==
  \A s \in Subscribers : \A i \in DOMAIN d[s] :
    /\ d[s][i].event_id <= n
    /\ d[s][i].subscription_id \in DOMAIN u
    /\ u[d[s][i].subscription_id].subscriber = s

Single(d) ==
  \A s \in Subscribers : \A i, j \in DOMAIN d[s] :
    d[s][i].event_id = d[s][j].event_id /\ d[s][i].subscription_id = d[s][j].subscription_id => i = j

BooksTrue(b, n) ==
  /\ BooksTyped(b) /\ Owned(b.subs, b.deliveries, n) /\ Single(b.deliveries)
  /\ CountsTrue(b.subs, b.metrics, b.deliveries)

(* The same subscriptions, but for their counters. *)
SubsKept(u, v) == DOMAIN v = DOMAIN u /\ \A id \in DOMAIN u : v[id].subscriber = u[id].subscriber

Passed(r, q) == r.status = "Pending" /\ r.next_retry_at <= now /\ q.status = "Delivered"

Moved(d, e) ==
  \A s \in Subscribers :
    /\ DOMAIN e[s] = DOMAIN d[s]
    /\ \A i \in DOMAIN d[s] :
         /\ e[s][i].event_id = d[s][i].event_id /\ e[s][i].subscription_id = d[s][i].subscription_id
         /\ e[s][i].next_retry_at = d[s][i].next_retry_at
         /\ e[s][i].status = d[s][i].status \/ Passed(d[s][i], e[s][i])

LEMMA OwnedMoved ==
  ASSUME NEW d, NEW e, NEW u, NEW v, NEW n, Owned(u, d, n), Single(d), Moved(d, e), SubsKept(u, v)
  PROVE  Owned(v, e, n) /\ Single(e)
<1>1. Owned(v, e, n)
  BY DEF Owned, Moved, SubsKept
<1>2. Single(e)
  BY DEF Single, Moved
<1> QED BY <1>1, <1>2

LEMMA RecordSent ==
  ASSUME NEW r \in Kept, r.status = "Pending"
  PROVE  LET q == [r EXCEPT !.status = "Delivered", !.attempts = @ + 1] IN
         /\ q \in Kept /\ q.status = "Delivered" /\ q.event_id = r.event_id
         /\ q.subscription_id = r.subscription_id /\ q.next_retry_at = r.next_retry_at
         /\ SentOf[q] = SentOf[r] + 1 /\ SeenOf[q] = SeenOf[r] /\ FailedOf[q] = FailedOf[r]
         /\ RetriedOf[q] = RetriedOf[r] + (IF r.attempts > 0 THEN 1 ELSE 0)
<1> DEFINE q == [r EXCEPT !.status = "Delivered", !.attempts = @ + 1]
           a == [r EXCEPT !.status = "Delivered"]
           c == [a EXCEPT !.attempts = r.attempts + 1]
<1>1. /\ a \in Delivered!DeliveryRecord /\ a.status = "Delivered" /\ a.event_id = r.event_id
      /\ a.subscription_id = r.subscription_id /\ a.next_retry_at = r.next_retry_at /\ a.attempts = r.attempts
  BY KeptFields DEF Delivered!DeliveryRecord
<1>2. q = c
  BY KeptFields DEF Delivered!DeliveryRecord
<1> HIDE DEF a, q
<1>3. /\ c \in Delivered!DeliveryRecord /\ c.status = "Delivered" /\ c.event_id = r.event_id
      /\ c.subscription_id = r.subscription_id /\ c.next_retry_at = r.next_retry_at
      /\ c.attempts = r.attempts + 1
  BY <1>1, KeptFields DEF Delivered!DeliveryRecord
<1> HIDE DEF c
<1>4. c \in Kept
  BY <1>3, KeptFields DEF Kept
<1>5. SentOf[c] = 1 /\ SentOf[r] = 0 /\ SeenOf[c] = 0 /\ SeenOf[r] = 0
  BY <1>3, <1>4 DEF SentOf, SeenOf, Delivered!Sent, Delivered!Acknowledged
<1>6. FailedOf[c] = r.attempts /\ FailedOf[r] = r.attempts
  BY <1>3, <1>4, KeptFields DEF FailedOf, Delivered!Failed, Delivered!Sent
<1>7. RetriedOf[c] = (IF r.attempts > 0 THEN 1 ELSE 0) /\ RetriedOf[r] = 0
  BY <1>3, <1>4, KeptFields DEF RetriedOf, Delivered!Retried, Delivered!Failed, Delivered!Sent
<1>8. /\ c \in Kept /\ c.status = "Delivered" /\ c.event_id = r.event_id
      /\ c.subscription_id = r.subscription_id /\ c.next_retry_at = r.next_retry_at
      /\ SentOf[c] = SentOf[r] + 1 /\ SeenOf[c] = SeenOf[r] /\ FailedOf[c] = FailedOf[r]
      /\ RetriedOf[c] = RetriedOf[r] + (IF r.attempts > 0 THEN 1 ELSE 0)
  BY <1>3, <1>4, <1>5, <1>6, <1>7
<1> QED BY <1>2, <1>8 DEF q

(* deliver_pending *)
LEMMA DeliverTrue ==
  ASSUME NEW b, NEW n, BooksTrue(b, n), NEW s \in Subscribers, NEW c, c = Delivered!Deliver(b, s)
  PROVE  /\ BooksTrue(c, n) /\ SubsKept(b.subs, c.subs) /\ Moved(b.deliveries, c.deliveries)
         /\ c.batch = b.batch
<1> DEFINE d == b.deliveries
           records == d[s]
           due == Delivered!DueNow(records)
           retried == {i \in due : records[i].attempts > 0}
           of(id) == {i \in due : records[i].subscription_id = id}
           sent == [i \in DOMAIN records |->
                      IF i \in due THEN [records[i] EXCEPT !.status = "Delivered", !.attempts = @ + 1]
                      ELSE records[i]]
           u == [id \in DOMAIN b.subs |->
                   [b.subs[id] EXCEPT !.total_delivered = @ + Cardinality(of(id))]]
           e == [d EXCEPT ![s] = sent]
           m == [b.metrics EXCEPT !.delivered = @ + Cardinality(due),
                                  !.retries = @ + Cardinality(retried)]
<1>1. c = [subs |-> u, deliveries |-> e, batch |-> b.batch, metrics |-> m]
  BY DeliverySettings DEF Delivered!Deliver, Delivered!Sending
<1>2. /\ b.subs \in Seq(Delivered!ManagedSubscription) /\ Len(b.subs) <= MaxSubs /\ d \in Lists
      /\ b.batch \in [Subscribers -> Seq(Delivered!EventIds)] /\ b.metrics \in Metrics
      /\ Owned(b.subs, d, n) /\ Single(d) /\ CountsTrue(b.subs, b.metrics, d)
  BY DEF BooksTrue, BooksTyped
<1> HIDE DEF d
<1>3. /\ records \in Seq(Kept) /\ Len(records) \in Nat /\ DOMAIN records = 1..Len(records)
      /\ \A i \in DOMAIN records : records[i] \in Kept
  BY <1>2, PlacesFinite, LenProperties DEF Lists
<1>4. /\ due \subseteq DOMAIN records /\ retried \subseteq DOMAIN records
      /\ \A id : of(id) \subseteq DOMAIN records
      /\ \A i \in DOMAIN records : i \in due <=> records[i].status = "Pending" /\ records[i].next_retry_at <= now
  BY DEF Delivered!DueNow
<1> HIDE DEF due
<1>5. /\ Cardinality(due) \in Nat /\ Cardinality(retried) \in Nat
      /\ \A id : Cardinality(of(id)) \in Nat
  <2>1. IsFiniteSet(DOMAIN records)
    BY <1>3, FS_Interval
  <2>2. IsFiniteSet(due) /\ IsFiniteSet(retried) /\ \A id : IsFiniteSet(of(id))
    BY <1>4, <2>1, FS_Subset
  <2> QED BY <2>2, FS_CardinalityType
<1>6. \A i \in DOMAIN records :
        /\ i \in due => /\ sent[i] = [records[i] EXCEPT !.status = "Delivered", !.attempts = @ + 1]
                        /\ records[i].status = "Pending" /\ records[i].next_retry_at <= now
        /\ i \notin due => sent[i] = records[i]
  BY <1>4
<1>7. ASSUME NEW i \in DOMAIN records
      PROVE  /\ sent[i] \in Kept
             /\ sent[i].event_id = records[i].event_id
             /\ sent[i].subscription_id = records[i].subscription_id
             /\ sent[i].next_retry_at = records[i].next_retry_at
             /\ sent[i].status = records[i].status \/ Passed(records[i], sent[i])
             /\ SentOf[sent[i]] = SentOf[records[i]] + (IF i \in due THEN 1 ELSE 0)
             /\ SeenOf[sent[i]] = SeenOf[records[i]]
             /\ FailedOf[sent[i]] = FailedOf[records[i]]
             /\ RetriedOf[sent[i]] = RetriedOf[records[i]] + (IF i \in retried THEN 1 ELSE 0)
  <2>0. records[i] \in Kept
    BY <1>3
  <2>1. CASE i \in due
    <3> DEFINE r == records[i]
               q == [r EXCEPT !.status = "Delivered", !.attempts = @ + 1]
    <3>1. r \in Kept /\ r.status = "Pending" /\ r.next_retry_at <= now /\ sent[i] = q
      BY <1>3, <1>6, <2>1
    <3>2. /\ q \in Kept /\ q.status = "Delivered" /\ q.event_id = r.event_id
          /\ q.subscription_id = r.subscription_id /\ q.next_retry_at = r.next_retry_at
          /\ SentOf[q] = SentOf[r] + 1 /\ SeenOf[q] = SeenOf[r] /\ FailedOf[q] = FailedOf[r]
          /\ RetriedOf[q] = RetriedOf[r] + (IF r.attempts > 0 THEN 1 ELSE 0)
      BY <3>1, RecordSent
    <3>3. i \in retried <=> r.attempts > 0
      BY <2>1
    <3> HIDE DEF q, r
    <3>4. Passed(r, q)
      BY <3>1, <3>2 DEF Passed
    <3> HIDE DEF retried, sent
    <3>5. /\ q \in Kept /\ q.event_id = r.event_id
          /\ q.subscription_id = r.subscription_id /\ q.next_retry_at = r.next_retry_at
          /\ Passed(r, q)
          /\ SentOf[q] = SentOf[r] + (IF i \in due THEN 1 ELSE 0)
          /\ SeenOf[q] = SeenOf[r] /\ FailedOf[q] = FailedOf[r]
          /\ RetriedOf[q] = RetriedOf[r] + (IF i \in retried THEN 1 ELSE 0)
      BY <2>1, <3>2, <3>3, <3>4
    <3> QED BY <3>1, <3>5 DEF r
  <2>2. CASE i \notin due
    <3>1. sent[i] = records[i] /\ i \notin retried
      BY <1>6, <2>2
    <3>2. SentOf[records[i]] \in Nat /\ RetriedOf[records[i]] \in Nat
      BY <2>0, MeasuresTyped
    <3> HIDE DEF sent, retried
    <3> QED BY <2>0, <2>2, <3>1, <3>2
  <2> QED BY <2>1, <2>2
<1>8. sent \in Seq(Kept) /\ DOMAIN sent = DOMAIN records
  <2>1. sent \in [1..Len(records) -> Kept]
    BY <1>3, <1>7
  <2> HIDE DEF sent
  <2> QED BY <1>3, <2>1, FunctionIsSeq
<1> HIDE DEF sent
<1>9. /\ e \in Lists /\ e[s] = sent /\ \A t \in Subscribers : t # s => e[t] = d[t]
  BY <1>2, <1>8 DEF Lists
<1> HIDE DEF e
<1>10. Moved(d, e)
  BY <1>7, <1>8, <1>9 DEF Moved
<1>11. /\ u \in Seq(Delivered!ManagedSubscription) /\ Len(u) = Len(b.subs)
       /\ \A id \in DOMAIN b.subs :
            /\ u[id].subscriber = b.subs[id].subscriber
            /\ u[id].total_delivered = b.subs[id].total_delivered + Cardinality(of(id))
            /\ u[id].total_failed = b.subs[id].total_failed
       /\ DOMAIN u = DOMAIN b.subs
  <2>1. /\ Len(b.subs) \in Nat /\ DOMAIN b.subs = 1..Len(b.subs)
        /\ \A id \in DOMAIN b.subs : b.subs[id] \in Delivered!ManagedSubscription
    BY <1>2, LenProperties
  <2>2. ASSUME NEW id \in DOMAIN b.subs
        PROVE  /\ u[id] \in Delivered!ManagedSubscription
               /\ u[id].subscriber = b.subs[id].subscriber
               /\ u[id].total_delivered = b.subs[id].total_delivered + Cardinality(of(id))
               /\ u[id].total_failed = b.subs[id].total_failed
    <3>1. Cardinality(of(id)) \in Nat
      BY <1>5
    <3> DEFINE k == Cardinality(of(id))
               x == b.subs[id]
    <3>2. u[id] = [x EXCEPT !.total_delivered = @ + k] /\ x \in Delivered!ManagedSubscription
      BY <2>1
    <3> HIDE DEF k, x, u
    <3> QED BY <3>1, <3>2 DEF Delivered!ManagedSubscription, k, x
  <2>3. u \in [1..Len(b.subs) -> Delivered!ManagedSubscription]
    BY <2>1, <2>2
  <2> HIDE DEF u
  <2> QED BY <2>1, <2>2, <2>3, FunctionIsSeq
<1> HIDE DEF u
<1>12. /\ m \in Metrics /\ m.delivered = b.metrics.delivered + Cardinality(due)
       /\ m.retries = b.metrics.retries + Cardinality(retried)
       /\ m.acknowledged = b.metrics.acknowledged /\ m.failed = b.metrics.failed
  <2> DEFINE x == b.metrics
             j == Cardinality(due)
             k == Cardinality(retried)
             y == [x EXCEPT !.delivered = @ + j]
             z == [y EXCEPT !.retries = x.retries + k]
  <2>1. x \in Metrics /\ j \in Nat /\ k \in Nat
    BY <1>2, <1>5
  <2> HIDE DEF x, j, k
  <2>2. /\ y \in Metrics /\ y.delivered = x.delivered + j /\ y.retries = x.retries
        /\ y.acknowledged = x.acknowledged /\ y.failed = x.failed
    BY <2>1 DEF Metrics
  <2>3. m = z
    BY <2>1 DEF Metrics, x, j, k
  <2> HIDE DEF y, m
  <2>4. /\ z \in Metrics /\ z.delivered = x.delivered + j /\ z.retries = x.retries + k
        /\ z.acknowledged = x.acknowledged /\ z.failed = x.failed
    BY <2>1, <2>2 DEF Metrics
  <2> QED BY <2>3, <2>4 DEF x, j, k
<1> HIDE DEF m
<1>13. SubsKept(b.subs, u)
  BY <1>11 DEF SubsKept
<1>14. Owned(u, e, n) /\ Single(e)
  BY <1>2, <1>10, <1>13, OwnedMoved
<1>15. CountsTrue(u, m, e)
  <2>0. \A t \in Subscribers : DOMAIN e[t] = DOMAIN d[t]
    BY <1>10 DEF Moved
  <2>1. Counted(e, SentOf) = Counted(d, SentOf) + Cardinality(due)
    <3>1. ASSUME NEW t \in Subscribers, NEW i \in DOMAIN d[t]
          PROVE  SentOf[e[t][i]] = SentOf[d[t][i]] + (IF t = s /\ i \in due THEN 1 ELSE 0)
      <4>1. SentOf[d[t][i]] \in Nat
        BY <1>2, PlacesFinite, MeasuresTyped
      <4> QED BY <1>7, <1>9, <4>1
    <3>2. More(d, e, SentOf, s, due)
      BY <1>4, <2>0, <3>1 DEF More
    <3>3. SentOf \in [Kept -> Nat] /\ d \in Lists /\ e \in Lists
      BY <1>2, <1>9, MeasuresTyped
    <3> HIDE DEF records
    <3> QED BY <3>2, <3>3, CountedMore
  <2>2. Counted(e, RetriedOf) = Counted(d, RetriedOf) + Cardinality(retried)
    <3>1. ASSUME NEW t \in Subscribers, NEW i \in DOMAIN d[t]
          PROVE  RetriedOf[e[t][i]] = RetriedOf[d[t][i]] + (IF t = s /\ i \in retried THEN 1 ELSE 0)
      <4>1. RetriedOf[d[t][i]] \in Nat
        BY <1>2, PlacesFinite, MeasuresTyped
      <4> HIDE DEF retried
      <4> QED BY <1>7, <1>9, <4>1
    <3>2. More(d, e, RetriedOf, s, retried)
      BY <1>4, <2>0, <3>1 DEF More
    <3> HIDE DEF retried
    <3> QED BY <1>2, <1>9, <3>2, CountedMore, MeasuresTyped
  <2>3. \A id : Counted(e, ForOne(SentOf, id)) = Counted(d, ForOne(SentOf, id)) + Cardinality(of(id))
    <3> SUFFICES ASSUME NEW id
                 PROVE  Counted(e, ForOne(SentOf, id)) = Counted(d, ForOne(SentOf, id)) + Cardinality(of(id))
      OBVIOUS
    <3> DEFINE f == ForOne(SentOf, id)
               T == of(id)
    <3>1. ASSUME NEW t \in Subscribers, NEW i \in DOMAIN d[t]
          PROVE  f[e[t][i]] = f[d[t][i]] + (IF t = s /\ i \in T THEN 1 ELSE 0)
      <4>1. d[t][i] \in Kept /\ e[t][i] \in Kept /\ f[d[t][i]] \in Nat
        BY <1>2, <1>9, <2>0, PlacesFinite, MeasuresTyped
      <4>2. CASE t = s
        <5>1. i \in T <=> i \in due /\ records[i].subscription_id = id
          BY <1>4, <4>2
        <5>2. /\ e[t][i] = sent[i] /\ d[t][i] = records[i]
              /\ sent[i].subscription_id = records[i].subscription_id
              /\ SentOf[sent[i]] = SentOf[records[i]] + (IF i \in due THEN 1 ELSE 0)
          BY <1>7, <1>9, <4>2
        <5>3. SentOf[records[i]] \in Nat
          BY <1>3, <4>2, MeasuresTyped
        <5> HIDE DEF T
        <5> QED BY <4>1, <4>2, <5>1, <5>2, <5>3 DEF ForOne
      <4>3. CASE t # s
        BY <1>9, <4>1, <4>3
      <4> QED BY <4>2, <4>3
    <3>2. T \subseteq DOMAIN d[s]
      BY <1>4
    <3>3. f \in [Kept -> Nat]
      BY MeasuresTyped
    <3> HIDE DEF f, T
    <3>4. More(d, e, f, s, T)
      BY <2>0, <3>1, <3>2 DEF More
    <3>5. Counted(e, f) = Counted(d, f) + Cardinality(T)
      BY <1>2, <1>9, <3>3, <3>4, CountedMore
    <3> QED BY <3>5 DEF f, T
  <2>4. /\ Counted(e, SeenOf) = Counted(d, SeenOf) /\ Counted(e, FailedOf) = Counted(d, FailedOf)
        /\ \A id : Counted(e, ForOne(FailedOf, id)) = Counted(d, ForOne(FailedOf, id))
    <3>1. ASSUME NEW t \in Subscribers, NEW i \in DOMAIN d[t]
          PROVE  /\ SeenOf[e[t][i]] = SeenOf[d[t][i]] /\ FailedOf[e[t][i]] = FailedOf[d[t][i]]
                 /\ \A id : ForOne(FailedOf, id)[e[t][i]] = ForOne(FailedOf, id)[d[t][i]]
      <4>1. d[t][i] \in Kept /\ e[t][i] \in Kept
        BY <1>2, <1>9, <2>0, PlacesFinite
      <4>2. /\ SeenOf[e[t][i]] = SeenOf[d[t][i]] /\ FailedOf[e[t][i]] = FailedOf[d[t][i]]
            /\ e[t][i].subscription_id = d[t][i].subscription_id
        BY <1>7, <1>9
      <4> QED BY <4>1, <4>2 DEF ForOne
    <3>2. Places(e) = Places(d)
      BY <2>0 DEF Places
    <3>3. ASSUME NEW f, \A t \in Subscribers : \A i \in DOMAIN d[t] : f[e[t][i]] = f[d[t][i]]
          PROVE  Counted(e, f) = Counted(d, f)
      BY <1>2, <3>2, <3>3, CountsSame
    <3> QED BY <3>1, <3>3
  <2>5. \A id \in DOMAIN u : /\ u[id].total_delivered = Counted(e, ForOne(SentOf, id))
                             /\ u[id].total_failed = Counted(e, ForOne(FailedOf, id))
    <3> HIDE DEF of
    <3> QED BY <1>2, <1>11, <2>3, <2>4 DEF CountsTrue
  <2>6. m.delivered = Counted(e, SentOf) /\ m.retries = Counted(e, RetriedOf)
    <3> HIDE DEF retried
    <3> QED BY <1>2, <1>12, <2>1, <2>2 DEF CountsTrue
  <2>7. m.acknowledged = Counted(e, SeenOf) /\ m.failed = Counted(e, FailedOf)
    BY <1>2, <1>12, <2>4 DEF CountsTrue
  <2> QED BY <2>5, <2>6, <2>7 DEF CountsTrue
<1>16. c.subs = u /\ c.deliveries = e /\ c.batch = b.batch /\ c.metrics = m
  BY <1>1
<1>17. BooksTyped(c)
  BY <1>1, <1>2, <1>9, <1>11, <1>12 DEF BooksTyped
<1> QED BY <1>10, <1>13, <1>14, <1>15, <1>16, <1>17 DEF BooksTrue, d

(* flush_batch *)
LEMMA FlushTrue ==
  ASSUME NEW b, NEW n, BooksTrue(b, n), NEW s \in Subscribers, NEW c, c = Delivered!Flush(b, s)
  PROVE  BooksTrue(c, n) /\ SubsKept(b.subs, c.subs) /\ Moved(b.deliveries, c.deliveries)
<1>1. CASE b.batch[s] = <<>>
  <2>1. c = b
    BY <1>1 DEF Delivered!Flush
  <2> QED BY <2>1 DEF SubsKept, Moved
<1>2. CASE b.batch[s] # <<>>
  <2> DEFINE a == Delivered!Deliver(b, s)
  <2>1. c = [a EXCEPT !.batch[s] = <<>>]
    BY <1>2 DEF Delivered!Flush
  <2>2. /\ BooksTrue(a, n) /\ SubsKept(b.subs, a.subs) /\ Moved(b.deliveries, a.deliveries)
    BY DeliverTrue
  <2> HIDE DEF a
  <2>3. BooksTyped(a)
    BY <2>2 DEF BooksTrue
  <2>4. /\ c.subs = a.subs /\ c.deliveries = a.deliveries /\ c.metrics = a.metrics
        /\ c.batch = [a.batch EXCEPT ![s] = <<>>]
        /\ c = [subs |-> c.subs, deliveries |-> c.deliveries, batch |-> c.batch, metrics |-> c.metrics]
    BY <2>1, <2>3 DEF BooksTyped
  <2>5. c.batch \in [Subscribers -> Seq(Delivered!EventIds)]
    <3>1. <<>> \in Seq(Delivered!EventIds)
      BY EmptySeq
    <3>2. a.batch \in [Subscribers -> Seq(Delivered!EventIds)]
      BY <2>3 DEF BooksTyped
    <3> QED BY <2>4, <3>1, <3>2
  <2>6. BooksTyped(c)
    BY <2>3, <2>4, <2>5 DEF BooksTyped
  <2> QED BY <2>2, <2>4, <2>6 DEF BooksTrue
<1> QED BY <1>1, <1>2

-----------------------------------------------------------------------------
(* Dispatching an event *)

(* What has become of the lists d while an event was dispatched to the      *)
(* first k subscriptions.                                                   *)
Grown(d, e, event, k) ==
  \A s \in Subscribers :
    /\ DOMAIN d[s] \subseteq DOMAIN e[s]
    /\ \A i \in DOMAIN d[s] :
         /\ e[s][i].event_id = d[s][i].event_id /\ e[s][i].subscription_id = d[s][i].subscription_id
         /\ e[s][i].status = d[s][i].status \/ (d[s][i].status = "Pending" /\ e[s][i].status = "Delivered")
    /\ \A i \in DOMAIN e[s] : i \notin DOMAIN d[s] =>
         /\ e[s][i].event_id = event /\ e[s][i].subscription_id <= k
         /\ e[s][i].status = "Pending" /\ e[s][i].next_retry_at > now

LEMMA GrownMoved ==
  ASSUME NEW d, NEW e, NEW g, NEW event, NEW k, Grown(d, e, event, k), Moved(e, g),
         e \in Lists, now \in Int
  PROVE  Grown(d, g, event, k)
<1> SUFFICES ASSUME NEW s \in Subscribers
             PROVE  /\ DOMAIN d[s] \subseteq DOMAIN g[s]
                    /\ \A i \in DOMAIN d[s] :
                         /\ g[s][i].event_id = d[s][i].event_id
                         /\ g[s][i].subscription_id = d[s][i].subscription_id
                         /\ \/ g[s][i].status = d[s][i].status
                            \/ d[s][i].status = "Pending" /\ g[s][i].status = "Delivered"
                    /\ \A i \in DOMAIN g[s] : i \notin DOMAIN d[s] =>
                         /\ g[s][i].event_id = event /\ g[s][i].subscription_id <= k
                         /\ g[s][i].status = "Pending" /\ g[s][i].next_retry_at > now
  BY DEF Grown
<1>1. DOMAIN g[s] = DOMAIN e[s] /\ DOMAIN d[s] \subseteq DOMAIN e[s]
  BY DEF Moved, Grown
<1>2. ASSUME NEW i \in DOMAIN d[s]
      PROVE  /\ g[s][i].event_id = d[s][i].event_id
             /\ g[s][i].subscription_id = d[s][i].subscription_id
             /\ \/ g[s][i].status = d[s][i].status
                \/ d[s][i].status = "Pending" /\ g[s][i].status = "Delivered"
  BY <1>1 DEF Moved, Grown, Passed
<1>3. ASSUME NEW i \in DOMAIN g[s], i \notin DOMAIN d[s]
      PROVE  /\ g[s][i].event_id = event /\ g[s][i].subscription_id <= k
             /\ g[s][i].status = "Pending" /\ g[s][i].next_retry_at > now
  <2>1. /\ e[s][i].event_id = event /\ e[s][i].subscription_id <= k
        /\ e[s][i].status = "Pending" /\ e[s][i].next_retry_at > now
    BY <1>1, <1>3 DEF Grown
  <2>2. /\ g[s][i].event_id = e[s][i].event_id /\ g[s][i].subscription_id = e[s][i].subscription_id
        /\ g[s][i].next_retry_at = e[s][i].next_retry_at
        /\ g[s][i].status = e[s][i].status \/ Passed(e[s][i], g[s][i])
    BY <1>1, <1>3 DEF Moved
  <2>3. e[s][i].next_retry_at \in Int
    BY <1>1, <1>3, PlacesFinite, KeptFields
  <2>4. ~Passed(e[s][i], g[s][i])
    BY <2>1, <2>3 DEF Passed
  <2> QED BY <2>1, <2>2, <2>4
<1> QED BY <1>1, <1>2, <1>3

(* One subscription gets its record. *)
LEMMA EnqueueTrue ==
  ASSUME NEW b, NEW event \in Delivered!EventIds, BooksTrue(b, event),
         NEW id \in DOMAIN b.subs, NEW c, c = Delivered!Enqueue(b, id, event),
         NEW d, Grown(d, b.deliveries, event, id - 1),
         \A s \in Subscribers : \A i \in DOMAIN d[s] : d[s][i].event_id # event,
         now \in Nat, now + Delivered!Backoff(0) <= MaxTime
  PROVE  BooksTrue(c, event) /\ SubsKept(b.subs, c.subs) /\ Grown(d, c.deliveries, event, id)
<1> DEFINE s == b.subs[id].subscriber
           list == b.deliveries
           record == [event_id |-> event, subscription_id |-> id, status |-> "Pending",
                      attempts |-> 0, next_retry_at |-> now + Delivered!Backoff(0)]
           queued == [b EXCEPT !.deliveries[s] = Append(@, record)]
           batched == [queued EXCEPT !.batch[s] = Append(@, event)]
           e == queued.deliveries
<1>1. /\ b.subs \in Seq(Delivered!ManagedSubscription) /\ Len(b.subs) <= MaxSubs /\ list \in Lists
      /\ b.batch \in [Subscribers -> Seq(Delivered!EventIds)] /\ b.metrics \in Metrics
      /\ Owned(b.subs, list, event) /\ Single(list) /\ CountsTrue(b.subs, b.metrics, list)
  BY DEF BooksTrue, BooksTyped
<1>2. id \in 1..Len(b.subs) /\ Len(b.subs) \in Nat /\ s \in Subscribers /\ id \in 1..MaxSubs
  <2>1. DOMAIN b.subs = 1..Len(b.subs) /\ Len(b.subs) \in Nat
    BY <1>1, LenProperties
  <2>2. b.subs[id] \in Delivered!ManagedSubscription
    BY <1>1, <2>1, ElementOfSeq
  <2>3. s \in Subscribers
    BY <2>2 DEF Delivered!ManagedSubscription
  <2>4. id \in 1..MaxSubs
    BY <1>1, <2>1, DeliverySettings
  <2> QED BY <2>1, <2>3, <2>4
<1>3. Delivered!Backoff(0) \in Nat \ {0}
  BY DeliverySettings
<1>4. record \in Kept
  BY <1>2, <1>3, DeliverySettings DEF Kept, Delivered!DeliveryRecord
<1>5. /\ e = [list EXCEPT ![s] = Append(list[s], record)]
      /\ queued.subs = b.subs /\ queued.batch = b.batch /\ queued.metrics = b.metrics
      /\ queued = [b EXCEPT !.deliveries = e]
  BY <1>1, <1>2 DEF BooksTrue, BooksTyped, Lists
<1>6. /\ record.event_id = event /\ record.subscription_id = id /\ record.status = "Pending"
      /\ record.next_retry_at > now /\ record.attempts = 0
  BY <1>3
<1>7. Added(list, e, s, record)
  BY <1>5 DEF Added
<1> HIDE DEF list, record, e
<1>8. /\ e \in Lists
      /\ Len(e[s]) = Len(list[s]) + 1 /\ e[s][Len(list[s]) + 1] = record
      /\ \A i \in DOMAIN list[s] : e[s][i] = list[s][i]
      /\ \A t \in Subscribers : t # s => e[t] = list[t]
      /\ \A f \in [Kept -> Nat] : Counted(e, f) = Counted(list, f) + f[record]
  <2> HIDE DEF s
  <2>1. ASSUME NEW f \in [Kept -> Nat]
        PROVE  /\ e \in Lists
               /\ Len(e[s]) = Len(list[s]) + 1 /\ e[s][Len(list[s]) + 1] = record
               /\ \A i \in DOMAIN list[s] : e[s][i] = list[s][i]
               /\ \A t \in Subscribers : t # s => e[t] = list[t]
               /\ Counted(e, f) = Counted(list, f) + f[record]
    BY <1>1, <1>2, <1>4, <1>7, CountedAppend
  <2>2. SentOf \in [Kept -> Nat]
    BY MeasuresTyped
  <2> HIDE DEF list, e, record
  <2> QED BY <2>1, <2>2
<1>9. /\ DOMAIN list[s] = 1..Len(list[s]) /\ Len(list[s]) \in Nat
      /\ DOMAIN e[s] = DOMAIN list[s] \cup {Len(list[s]) + 1} /\ Len(list[s]) + 1 \notin DOMAIN list[s]
  <2> HIDE DEF s
  <2>1. DOMAIN list[s] = 1..Len(list[s]) /\ Len(list[s]) \in Nat
    BY <1>1, <1>2, PlacesFinite
  <2>2. DOMAIN e[s] = 1..Len(e[s])
    BY <1>2, <1>8, PlacesFinite
  <2>3. DOMAIN e[s] = 1..(Len(list[s]) + 1)
    BY <1>8, <2>2
  <2> QED BY <2>1, <2>3
<1>10. \A t \in Subscribers : \A i \in DOMAIN e[t] :
         \/ i \in DOMAIN list[t] /\ e[t][i] = list[t][i]
         \/ t = s /\ i = Len(list[s]) + 1 /\ i \notin DOMAIN list[t] /\ e[t][i] = record
  BY <1>8, <1>9
<1>11. \A t \in Subscribers : DOMAIN list[t] \subseteq DOMAIN e[t]
  BY <1>8, <1>9
<1>12. \A t \in Subscribers : \A i \in DOMAIN list[t] :
         list[t][i].event_id # event \/ list[t][i].subscription_id # id
  <2> SUFFICES ASSUME NEW t \in Subscribers, NEW i \in DOMAIN list[t], list[t][i].event_id = event
               PROVE  list[t][i].subscription_id # id
    OBVIOUS
  <2>1. CASE i \in DOMAIN d[t]
    BY <2>1 DEF Grown, list
  <2>2. CASE i \notin DOMAIN d[t]
    <3>1. list[t][i].subscription_id <= id - 1
      BY <2>2 DEF Grown, list
    <3> QED BY <1>2, <3>1
  <2> QED BY <2>1, <2>2
<1>13. Owned(b.subs, e, event)
  <2> SUFFICES ASSUME NEW t \in Subscribers, NEW i \in DOMAIN e[t]
               PROVE  /\ e[t][i].event_id <= event
                      /\ e[t][i].subscription_id \in DOMAIN b.subs
                      /\ b.subs[e[t][i].subscription_id].subscriber = t
    BY DEF Owned
  <2>1. CASE i \in DOMAIN list[t] /\ e[t][i] = list[t][i]
    BY <1>1, <2>1 DEF Owned
  <2>2. CASE t = s /\ e[t][i] = record
    BY <1>6, <2>2 DEF Delivered!EventIds
  <2> QED BY <1>10, <2>1, <2>2
<1>14. Single(e)
  <2> SUFFICES ASSUME NEW t \in Subscribers, NEW i \in DOMAIN e[t], NEW j \in DOMAIN e[t],
                      e[t][i].event_id = e[t][j].event_id,
                      e[t][i].subscription_id = e[t][j].subscription_id
               PROVE  i = j
    BY DEF Single
  <2>1. CASE i \in DOMAIN list[t] /\ e[t][i] = list[t][i] /\ j \in DOMAIN list[t] /\ e[t][j] = list[t][j]
    BY <1>1, <2>1 DEF Single
  <2>2. CASE i \in DOMAIN list[t] /\ e[t][i] = list[t][i] /\ e[t][j] = record
    BY <1>6, <1>12, <2>2
  <2>3. CASE j \in DOMAIN list[t] /\ e[t][j] = list[t][j] /\ e[t][i] = record
    BY <1>6, <1>12, <2>3
  <2>4. CASE t = s /\ i = Len(list[s]) + 1 /\ j = Len(list[s]) + 1
    BY <2>4
  <2> QED BY <1>10, <2>1, <2>2, <2>3, <2>4
<1>15. CountsTrue(b.subs, b.metrics, e)
  <2>1. /\ SentOf[record] = 0 /\ SeenOf[record] = 0 /\ FailedOf[record] = 0 /\ RetriedOf[record] = 0
        /\ \A k : ForOne(SentOf, k)[record] = 0 /\ ForOne(FailedOf, k)[record] = 0
    <3>1. SentOf[record] = 0 /\ SeenOf[record] = 0
      BY <1>4, <1>6 DEF SentOf, SeenOf, Delivered!Sent, Delivered!Acknowledged
    <3>2. FailedOf[record] = 0 /\ RetriedOf[record] = 0
      BY <1>4, <1>6 DEF FailedOf, RetriedOf, Delivered!Failed, Delivered!Retried, Delivered!Sent
    <3> QED BY <1>4, <3>1, <3>2 DEF ForOne
  <2>2. \A f \in [Kept -> Nat] : f[record] = 0 => Counted(e, f) = Counted(list, f)
    <3>1. \A f \in [Kept -> Nat] : Counted(list, f) \in Nat
      BY <1>1, CountsTyped
    <3> QED BY <1>8, <3>1
  <2>3. /\ Counted(e, SentOf) = Counted(list, SentOf) /\ Counted(e, SeenOf) = Counted(list, SeenOf)
        /\ Counted(e, FailedOf) = Counted(list, FailedOf)
        /\ Counted(e, RetriedOf) = Counted(list, RetriedOf)
    BY <2>1, <2>2, MeasuresTyped
  <2>4. \A k : /\ Counted(e, ForOne(SentOf, k)) = Counted(list, ForOne(SentOf, k))
               /\ Counted(e, ForOne(FailedOf, k)) = Counted(list, ForOne(FailedOf, k))
    BY <2>1, <2>2, MeasuresTyped
  <2> QED BY <1>1, <2>3, <2>4 DEF CountsTrue
<1>16. Grown(d, e, event, id)
  <2> SUFFICES ASSUME NEW t \in Subscribers
               PROVE  /\ DOMAIN d[t] \subseteq DOMAIN e[t]
                      /\ \A i \in DOMAIN d[t] :
                           /\ e[t][i].event_id = d[t][i].event_id
                           /\ e[t][i].subscription_id = d[t][i].subscription_id
                           /\ \/ e[t][i].status = d[t][i].status
                              \/ d[t][i].status = "Pending" /\ e[t][i].status = "Delivered"
                      /\ \A i \in DOMAIN e[t] : i \notin DOMAIN d[t] =>
                           /\ e[t][i].event_id = event /\ e[t][i].subscription_id <= id
                           /\ e[t][i].status = "Pending" /\ e[t][i].next_retry_at > now
    BY DEF Grown
  <2>1. DOMAIN d[t] \subseteq DOMAIN list[t]
    BY DEF Grown, list
  <2>2. DOMAIN d[t] \subseteq DOMAIN e[t]
    BY <1>11, <2>1
  <2>3. ASSUME NEW i \in DOMAIN d[t]
        PROVE  /\ e[t][i].event_id = d[t][i].event_id
               /\ e[t][i].subscription_id = d[t][i].subscription_id
               /\ \/ e[t][i].status = d[t][i].status
                  \/ d[t][i].status = "Pending" /\ e[t][i].status = "Delivered"
    <3>1. e[t][i] = list[t][i]
      BY <1>10, <2>1, <2>2
    <3> QED BY <3>1 DEF Grown, list
  <2>4. ASSUME NEW i \in DOMAIN e[t], i \notin DOMAIN d[t]
        PROVE  /\ e[t][i].event_id = event /\ e[t][i].subscription_id <= id
               /\ e[t][i].status = "Pending" /\ e[t][i].next_retry_at > now
    <3>1. CASE i \in DOMAIN list[t] /\ e[t][i] = list[t][i]
      <4>1. /\ list[t][i].event_id = event /\ list[t][i].subscription_id <= id - 1
            /\ list[t][i].status = "Pending" /\ list[t][i].next_retry_at > now
        BY <2>4, <3>1 DEF Grown, list
      <4>2. list[t][i].subscription_id \in Int
        BY <1>1, <3>1, PlacesFinite, KeptFields
      <4> QED BY <1>2, <3>1, <4>1, <4>2
    <3>2. CASE e[t][i] = record
      BY <1>2, <1>6, <3>2
    <3> QED BY <1>10, <3>1, <3>2
  <2> QED BY <2>2, <2>3, <2>4
<1>17. BooksTyped(queued)
  BY <1>1, <1>5, <1>8 DEF BooksTyped, BooksTrue
<1>18. BooksTrue(queued, event) /\ Grown(d, queued.deliveries, event, id)
  BY <1>5, <1>13, <1>14, <1>15, <1>16, <1>17 DEF BooksTrue, e
<1>19. SubsKept(b.subs, queued.subs)
  BY <1>5 DEF SubsKept
<1>20. /\ BooksTrue(batched, event) /\ Grown(d, batched.deliveries, event, id)
       /\ SubsKept(b.subs, batched.subs)
  <2>1. Append(queued.batch[s], event) \in Seq(Delivered!EventIds)
    BY <1>1, <1>2, <1>5
  <2> HIDE DEF queued
  <2>2. /\ BooksTyped(batched) /\ batched.subs = queued.subs /\ batched.deliveries = queued.deliveries
        /\ batched.metrics = queued.metrics
    BY <1>2, <1>17, <2>1 DEF BooksTyped
  <2> HIDE DEF batched
  <2> QED BY <1>18, <1>19, <2>2 DEF BooksTrue
<1>21. c = queued \/ c = batched \/ c = Delivered!Flush(batched, s)
  BY DEF Delivered!Enqueue, record
<1> HIDE DEF queued, batched
<1>22. CASE c = Delivered!Flush(batched, s)
  <2>1. BooksTrue(c, event) /\ SubsKept(batched.subs, c.subs) /\ Moved(batched.deliveries, c.deliveries)
    BY <1>2, <1>20, <1>22, FlushTrue
  <2>2. batched.deliveries \in Lists
    BY <1>20 DEF BooksTrue, BooksTyped
  <2>3. Grown(d, c.deliveries, event, id)
    BY <1>20, <2>1, <2>2, GrownMoved
  <2>4. SubsKept(b.subs, c.subs)
    BY <1>20, <2>1 DEF SubsKept
  <2> QED BY <2>1, <2>3, <2>4
<1> QED BY <1>18, <1>19, <1>20, <1>21, <1>22

(* The event has reached the first k subscriptions. *)
Reached(b, event, k) ==
  /\ BooksTrue(b, event) /\ SubsKept(subs, b.subs)
  /\ Grown(deliveries, b.deliveries, event, k)

Book == {b \in [subs : Seq(Delivered!ManagedSubscription), deliveries : Lists,
                batch : [Subscribers -> Seq(Delivered!EventIds)], metrics : Metrics] :
           Len(b.subs) <= MaxSubs}

(* One subscription more. *)
Further(kind, event, id, b) ==
  IF Delivered!Receives(id, kind) THEN Delivered!Enqueue(b, id, event) ELSE b

LEMMA FurtherReaches ==
  ASSUME NEW kind, NEW event \in Delivered!EventIds, NEW id \in 1..Len(subs), NEW b,
         Reached(b, event, id - 1), now \in Nat, now + Delivered!Backoff(0) <= MaxTime,
         \A s \in Subscribers : \A i \in DOMAIN deliveries[s] : deliveries[s][i].event_id # event,
         Len(subs) \in Nat, DOMAIN subs = 1..Len(subs)
  PROVE  Reached(Further(kind, event, id, b), event, id) /\ Further(kind, event, id, b) \in Book
<1> DEFINE c == Further(kind, event, id, b)
<1>1. id \in DOMAIN b.subs
  BY DEF Reached, SubsKept
<1>2. CASE Delivered!Receives(id, kind)
  <2>1. c = Delivered!Enqueue(b, id, event)
    BY <1>2 DEF Further
  <2> HIDE DEF c
  <2>2. BooksTrue(c, event) /\ SubsKept(b.subs, c.subs) /\ Grown(deliveries, c.deliveries, event, id)
    BY <1>1, <2>1, EnqueueTrue DEF Reached
  <2> QED BY <2>2 DEF Reached, SubsKept, BooksTrue, BooksTyped, Book, c
<1>3. CASE ~Delivered!Receives(id, kind)
  <2>1. c = b
    BY <1>3 DEF Further
  <2>2. b.deliveries \in Lists /\ b \in Book
    BY DEF Reached, BooksTrue, BooksTyped, Book
  <2>3. \A s \in Subscribers : \A i \in DOMAIN b.deliveries[s] :
          b.deliveries[s][i].subscription_id <= id - 1 => b.deliveries[s][i].subscription_id <= id
    <3> SUFFICES ASSUME NEW s \in Subscribers, NEW i \in DOMAIN b.deliveries[s]
                 PROVE  b.deliveries[s][i].subscription_id \in Int
      OBVIOUS
    <3> QED BY <2>2, PlacesFinite, KeptFields
  <2>4. Grown(deliveries, b.deliveries, event, id)
    BY <2>3 DEF Reached, Grown
  <2> QED BY <2>1, <2>2, <2>4 DEF Reached
<1> QED BY <1>2, <1>3

(* dispatch_event *)
LEMMA DispatchTrue ==
  ASSUME NEW kind, NEW event \in Delivered!EventIds, event = dispatched + 1,
         dispatched \in Nat, BooksTrue(Delivered!Books, dispatched),
         now \in Nat, now + Delivered!Backoff(0) <= MaxTime,
         NEW c, c = Delivered!Dispatched(kind, event)
  PROVE  Reached(c, event, Len(subs))
<1> DEFINE n == Len(subs)
           b == Delivered!Books
           F(f, id) == IF id = 0 THEN b ELSE IF Delivered!Receives(id, kind)
                                            THEN Delivered!Enqueue(f[id - 1], id, event)
                                            ELSE f[id - 1]
           Body(f) == [id \in 0..n |-> F(f, id)]
           step == [p \in (1..n) \X Book |->
                      IF Reached(p[2], event, p[1] - 1) THEN Further(kind, event, p[1], p[2]) ELSE p[2]]
<1>1. /\ b.subs = subs /\ b.deliveries = deliveries /\ b.batch = batch /\ b.metrics = metrics
      /\ b \in Book /\ subs \in Seq(Delivered!ManagedSubscription) /\ deliveries \in Lists
  BY DEF BooksTrue, BooksTyped, Book, Delivered!Books
<1>2. n \in Nat /\ DOMAIN subs = 1..n
  BY <1>1, LenProperties
<1>3. \A s \in Subscribers : \A i \in DOMAIN deliveries[s] :
        /\ deliveries[s][i].event_id # event
        /\ deliveries[s][i].event_id <= dispatched => deliveries[s][i].event_id <= event
  <2> SUFFICES ASSUME NEW s \in Subscribers, NEW i \in DOMAIN deliveries[s]
               PROVE  deliveries[s][i].event_id \in Int /\ deliveries[s][i].event_id <= dispatched
    OBVIOUS
  <2>1. deliveries[s][i] \in Kept
    BY <1>1, PlacesFinite
  <2>2. deliveries[s][i].event_id \in Int
    BY <2>1, KeptFields DEF Delivered!EventIds
  <2> QED BY <1>1, <2>2 DEF BooksTrue, Owned
<1>4. Reached(b, event, 0)
  <2>1. BooksTrue(b, event)
    BY <1>1, <1>3 DEF BooksTrue, Owned
  <2>2. SubsKept(subs, b.subs) /\ Grown(deliveries, b.deliveries, event, 0)
    BY <1>1 DEF SubsKept, Grown
  <2> QED BY <2>1, <2>2 DEF Reached
<1> HIDE DEF b
<1>5. ASSUME NEW id \in 1..n, NEW a, Reached(a, event, id - 1)
      PROVE  Reached(Further(kind, event, id, a), event, id) /\ Further(kind, event, id, a) \in Book
  BY <1>2, <1>3, <1>5, FurtherReaches
<1>6. step \in [(1..n) \X Book -> Book]
  BY <1>5
<1>7. PICK g : Runs(g, n, Book, b, step)
  <2> HIDE DEF step, n
  <2> QED BY <1>1, <1>2, <1>6, Iterates
<1>8. g \in [0..n -> Book] /\ g[0] = b /\ \A i \in 1..n : g[i] = step[<<i, g[i - 1]>>]
  BY <1>7 DEF Runs
<1>9. \A i \in 1..n : g[i - 1] \in Book
  <2> SUFFICES ASSUME NEW i \in 1..n PROVE i - 1 \in 0..n
    BY <1>8
  <2> QED BY <1>2
<1>10. \A i \in 1..n : Reached(g[i - 1], event, i - 1) => g[i] = Further(kind, event, i, g[i - 1])
  BY <1>8, <1>9
<1> HIDE DEF n
<1>11. \A i \in 0..n : Reached(g[i], event, i)
  <2> DEFINE S == {i \in 0..n : Reached(g[i], event, i)}
  <2>1. 0 \in S
    BY <1>2, <1>4, <1>8
  <2>2. ASSUME NEW i \in 0..n, i < n, i \in S PROVE i + 1 \in S
    <3>1. i + 1 \in 1..n /\ i + 1 - 1 = i
      BY <1>2, <2>2
    <3>2. g[i + 1] = Further(kind, event, i + 1, g[i])
      BY <1>10, <2>2, <3>1
    <3>3. Reached(g[i + 1], event, i + 1)
      BY <1>5, <2>2, <3>1, <3>2
    <3> QED BY <3>1, <3>3
  <2>3. 0..n \subseteq S
    <3> HIDE DEF S
    <3> QED BY <1>2, <2>1, <2>2, CountUp
  <2> QED BY <2>3
<1>12. g = Body(g)
  <2>1. \A i \in 1..n : i - 1 \in 0..n
    BY <1>2
  <2>2. ASSUME NEW i \in 0..n PROVE g[i] = F(g, i)
    <3>1. CASE i = 0
      BY <1>8, <3>1
    <3>2. CASE i # 0
      <4>1. i \in 1..n
        BY <1>2, <3>2
      <4>2. g[i] = Further(kind, event, i, g[i - 1])
        BY <1>10, <1>11, <2>1, <4>1
      <4> QED BY <3>2, <4>2 DEF Further
    <3> QED BY <3>1, <3>2
  <2>3. g = [i \in 0..n |-> g[i]]
    BY <1>8
  <2> HIDE DEF F
  <2> QED BY <2>2, <2>3
<1> DEFINE after == CHOOSE f : f = Body(f)
<1>13. c = after[n]
  BY DEF Delivered!Dispatched, n, b
<1>14. after = Body(after)
  <2> HIDE DEF Body
  <2> QED BY <1>12, Zenon
<1> HIDE DEF after
<1>15. \A i \in 0..n : after[i] = F(after, i)
  <2> HIDE DEF F
  <2> QED BY <1>14
<1>16. \A i \in 0..n : Reached(after[i], event, i)
  <2> DEFINE S == {i \in 0..n : Reached(after[i], event, i)}
  <2>1. 0 \in S
    <3>1. 0 \in 0..n
      BY <1>2
    <3>2. after[0] = b
      BY <1>15, <3>1
    <3> QED BY <1>4, <3>1, <3>2
  <2>2. ASSUME NEW i \in 0..n, i < n, i \in S PROVE i + 1 \in S
    <3>1. i + 1 \in 1..n /\ i + 1 - 1 = i /\ i + 1 # 0 /\ i + 1 \in 0..n
      BY <1>2, <2>2
    <3>2. after[i + 1] = F(after, i + 1)
      BY <1>15, <3>1
    <3>3. after[i + 1] = Further(kind, event, i + 1, after[i])
      BY <3>1, <3>2 DEF Further
    <3>4. Reached(after[i + 1], event, i + 1)
      BY <1>5, <2>2, <3>1, <3>3
    <3> QED BY <3>1, <3>4
  <2>3. 0..n \subseteq S
    <3> HIDE DEF S
    <3> QED BY <1>2, <2>1, <2>2, CountUp
  <2> QED BY <2>3
<1>17. n \in 0..n
  BY <1>2
<1> QED BY <1>13, <1>16, <1>17 DEF n

-----------------------------------------------------------------------------
(* One record, or one subscription, changes *)

Replaced(d, e, s, i, q) == e = [d EXCEPT ![s] = [d[s] EXCEPT ![i] = q]]

LEMMA RecordReplaced ==
  ASSUME NEW d \in Lists, NEW s \in Subscribers, NEW i \in DOMAIN d[s], NEW q \in Kept,
         NEW e, Replaced(d, e, s, i, q)
  PROVE  /\ e \in Lists /\ d[s][i] \in Kept
         /\ \A t \in Subscribers : DOMAIN e[t] = DOMAIN d[t]
         /\ \A t \in Subscribers : \A j \in DOMAIN d[t] :
              e[t][j] = IF t = s /\ j = i THEN q ELSE d[t][j]
         /\ \A f \in [Kept -> Nat] :
              /\ f[q] = f[d[s][i]] => Counted(e, f) = Counted(d, f)
              /\ f[q] = f[d[s][i]] + 1 => Counted(e, f) = Counted(d, f) + 1
<1> DEFINE list == [d[s] EXCEPT ![i] = q]
<1>1. d[s] \in Seq(Kept) /\ DOMAIN d[s] = 1..Len(d[s]) /\ d[s][i] \in Kept
  BY PlacesFinite DEF Lists
<1>2. list \in Seq(Kept) /\ DOMAIN list = DOMAIN d[s]
  BY <1>1, ExceptSeq
<1>3. \A j \in DOMAIN d[s] : list[j] = IF j = i THEN q ELSE d[s][j]
  BY <1>1
<1> HIDE DEF list
<1>4. e = [d EXCEPT ![s] = list]
  BY DEF Replaced, list
<1>5. e[s] = list /\ \A t \in Subscribers : t # s => e[t] = d[t]
  BY <1>4 DEF Lists
<1>6. e \in Lists
  BY <1>2, <1>4 DEF Lists
<1>7. \A t \in Subscribers : DOMAIN e[t] = DOMAIN d[t]
  BY <1>2, <1>5
<1>8. \A t \in Subscribers : \A j \in DOMAIN d[t] :
        e[t][j] = IF t = s /\ j = i THEN q ELSE d[t][j]
  BY <1>3, <1>5
<1>9. ASSUME NEW f \in [Kept -> Nat], f[q] = f[d[s][i]]
      PROVE  Counted(e, f) = Counted(d, f)
  <2>1. Places(e) = Places(d)
    BY <1>7 DEF Places
  <2>2. \A t \in Subscribers : \A j \in DOMAIN d[t] : f[e[t][j]] = f[d[t][j]]
    BY <1>8, <1>9
  <2> QED BY <2>1, <2>2, CountsSame
<1>10. ASSUME NEW f \in [Kept -> Nat], f[q] = f[d[s][i]] + 1
       PROVE  Counted(e, f) = Counted(d, f) + 1
  <2>1. ASSUME NEW t \in Subscribers, NEW j \in DOMAIN d[t]
        PROVE  f[e[t][j]] = f[d[t][j]] + (IF t = s /\ j \in {i} THEN 1 ELSE 0)
    <3>1. f[d[t][j]] \in Nat
      BY PlacesFinite
    <3> QED BY <1>8, <1>10, <3>1
  <2>2. More(d, e, f, s, {i})
    BY <1>7, <2>1 DEF More
  <2>3. Counted(e, f) = Counted(d, f) + Cardinality({i})
    BY <1>6, <2>2, CountedMore
  <2>4. Cardinality({i}) = 1
    BY FS_Singleton
  <2> QED BY <2>3, <2>4
<1> QED BY <1>1, <1>6, <1>7, <1>8, <1>9, <1>10

(* Subscriptions keep their subscribers and counters. *)
SubsEdited(u, v) ==
  /\ v \in Seq(Delivered!ManagedSubscription) /\ DOMAIN v = DOMAIN u /\ Len(v) = Len(u)
  /\ \A id \in DOMAIN u : /\ v[id].subscriber = u[id].subscriber
                          /\ v[id].total_delivered = u[id].total_delivered
                          /\ v[id].total_failed = u[id].total_failed

LEMMA SubsEditedTrue ==
  ASSUME NEW b, NEW n, BooksTrue(b, n), NEW c, SubsEdited(b.subs, c.subs),
         c.deliveries = b.deliveries, c.batch = b.batch, c.metrics = b.metrics,
         c = [subs |-> c.subs, deliveries |-> c.deliveries, batch |-> c.batch, metrics |-> c.metrics]
  PROVE  BooksTrue(c, n)
<1>1. BooksTyped(c)
  BY DEF BooksTrue, BooksTyped, SubsEdited
<1>2. Owned(c.subs, c.deliveries, n) /\ Single(c.deliveries)
  BY DEF BooksTrue, Owned, SubsEdited
<1>3. CountsTrue(c.subs, c.metrics, c.deliveries)
  BY DEF BooksTrue, CountsTrue, SubsEdited
<1> QED BY <1>1, <1>2, <1>3 DEF BooksTrue

(* No record counts for a subscription that is not there yet. *)
LEMMA NothingCounted ==
  ASSUME NEW d \in Lists, NEW f \in [Kept -> Nat],
         \A s \in Subscribers : \A i \in DOMAIN d[s] : f[d[s][i]] = 0
  PROVE  Counted(d, f) = 0
<1> DEFINE P == Places(d)
           g == Counts(d, f)
<1>1. IsFiniteSet(P) /\ g \in [P -> Nat]
  BY PlacesFinite, CountsTyped
<1>2. ASSUME NEW r \in P PROVE g[r] = 0
  <2>1. PICK s \in Subscribers : \E i \in DOMAIN d[s] : r = <<s, i>>
    BY PlacesFinite
  <2>2. PICK i \in DOMAIN d[s] : r = <<s, i>>
    BY <2>1
  <2> QED BY <2>2 DEF Counts
<1>3. {} \in SUBSET P /\ \A r \in P : g[r] = IF r \in {} THEN 1 ELSE 0
  BY <1>2
<1> HIDE DEF P, g
<1>4. Total(g) = Cardinality({})
  BY <1>1, <1>3, TotalMarks
<1> QED BY <1>4, FS_EmptySet DEF Counted, g

-----------------------------------------------------------------------------
(* The steps of the contract *)

DeliveryInv ==
  /\ BooksTrue(Delivered!Books, dispatched)
  /\ dispatched \in 0..MaxEvents /\ changes \in 0..MaxChanges /\ now \in 0..MaxTime

LEMMA BooksAre ==
  ASSUME DeliveryInv
  PROVE  /\ subs \in Seq(Delivered!ManagedSubscription) /\ Len(subs) \in Nat /\ Len(subs) <= MaxSubs
         /\ DOMAIN subs = 1..Len(subs) /\ \A id \in DOMAIN subs : subs[id] \in Delivered!ManagedSubscription
         /\ deliveries \in Lists /\ batch \in [Subscribers -> Seq(Delivered!EventIds)] /\ metrics \in Metrics
         /\ Owned(subs, deliveries, dispatched) /\ Single(deliveries)
         /\ CountsTrue(subs, metrics, deliveries)
         /\ dispatched \in Nat /\ now \in Nat
<1>1. /\ subs \in Seq(Delivered!ManagedSubscription) /\ Len(subs) <= MaxSubs
      /\ deliveries \in Lists /\ batch \in [Subscribers -> Seq(Delivered!EventIds)] /\ metrics \in Metrics
      /\ Owned(subs, deliveries, dispatched) /\ Single(deliveries)
      /\ CountsTrue(subs, metrics, deliveries)
  BY DEF DeliveryInv, BooksTrue, BooksTyped, Delivered!Books
<1>2. DOMAIN subs = 1..Len(subs) /\ Len(subs) \in Nat
  BY <1>1, LenProperties
<1>3. \A id \in DOMAIN subs : subs[id] \in Delivered!ManagedSubscription
  BY <1>1, <1>2, ElementOfSeq
<1>4. dispatched \in Nat /\ now \in Nat
  BY DEF DeliveryInv
<1> QED BY <1>1, <1>2, <1>3, <1>4

LEMMA StoreIs ==
  ASSUME NEW c, BooksTyped(c), Delivered!Store(c)
  PROVE  Delivered!Books' = c
BY DEF BooksTyped, Delivered!Store, Delivered!Books

LEMMA FirstWithIs ==
  ASSUME DeliveryInv, NEW s \in Subscribers, NEW event, NEW status,
         NEW i, i = Delivered!FirstWith(s, event, status), i # 0
  PROVE  /\ i \in DOMAIN deliveries[s] /\ deliveries[s][i] \in Kept
         /\ deliveries[s][i].event_id = event /\ deliveries[s][i].status = status
<1> DEFINE found == {j \in DOMAIN deliveries[s] :
                       deliveries[s][j].event_id = event /\ deliveries[s][j].status = status}
<1>1. /\ DOMAIN deliveries[s] = 1..Len(deliveries[s]) /\ Len(deliveries[s]) \in Nat
      /\ \A j \in DOMAIN deliveries[s] : deliveries[s][j] \in Kept
  BY BooksAre, PlacesFinite
<1>2. found # {} /\ i = Delivered!Min(found)
  BY DEF Delivered!FirstWith
<1>3. found \in SUBSET Nat
  BY <1>1
<1>4. i \in found
  <2> HIDE DEF found
  <2>1. \E m \in found : \A n \in found : m <= n
    BY <1>2, <1>3, LeastNat
  <2> QED BY <1>2, <2>1 DEF Delivered!Min
<1> QED BY <1>1, <1>4

LEMMA CreateTrue ==
  ASSUME DeliveryInv, NEW s \in Subscribers, NEW f \in Filters, NEW p \in Preferences,
         Delivered!CreateSubscription(s, f, p)
  PROVE  DeliveryInv' /\ SubsKept(subs, [id \in DOMAIN subs |-> subs'[id]])
<1> DEFINE n == Len(subs) + 1
           new == [subscriber |-> s, filter |-> f, prefs |-> p, status |-> "Active",
                   total_delivered |-> 0, total_failed |-> 0]
<1>1. /\ new \in Delivered!ManagedSubscription /\ new.subscriber = s
      /\ new.total_delivered = 0 /\ new.total_failed = 0
  BY DEF Delivered!ManagedSubscription
<1>2. subs' = Append(subs, new) /\ Len(subs) < MaxSubs
  BY DEF Delivered!CreateSubscription
<1>3. UNCHANGED <<dispatched, deliveries, batch, metrics, changes, now>>
  BY DEF Delivered!CreateSubscription
<1> HIDE DEF new
<1>4. /\ subs' \in Seq(Delivered!ManagedSubscription) /\ Len(subs') = n /\ subs'[n] = new
      /\ \A id \in DOMAIN subs : subs'[id] = subs[id]
  BY <1>1, <1>2, BooksAre, AppendProperties
<1>5. DOMAIN subs' = 1..n
  BY <1>4, LenProperties
<1>6. n <= MaxSubs
  BY <1>2, BooksAre, DeliverySettings
<1>7. BooksTyped(Delivered!Books')
  BY <1>3, <1>4, <1>6, BooksAre DEF BooksTyped, Delivered!Books
<1>8. \A id \in DOMAIN subs : id \in DOMAIN subs'
  BY <1>5, BooksAre
<1>9. Owned(subs', deliveries', dispatched') /\ Single(deliveries')
  <2>1. Owned(subs', deliveries, dispatched)
    BY <1>4, <1>8, BooksAre DEF Owned
  <2> QED BY <1>3, <2>1, BooksAre
<1>10. CountsTrue(subs', metrics, deliveries)
  <2>1. ASSUME NEW id \in DOMAIN subs'
        PROVE  /\ subs'[id].total_delivered = Counted(deliveries, ForOne(SentOf, id))
               /\ subs'[id].total_failed = Counted(deliveries, ForOne(FailedOf, id))
    <3>1. CASE id \in DOMAIN subs
      BY <1>4, <3>1, BooksAre DEF CountsTrue
    <3>2. CASE id \notin DOMAIN subs
      <4>1. id = n /\ subs'[id] = new
        BY <1>4, <1>5, <3>2, BooksAre
      <4>2. ASSUME NEW t \in Subscribers, NEW i \in DOMAIN deliveries[t]
            PROVE  /\ ForOne(SentOf, id)[deliveries[t][i]] = 0
                   /\ ForOne(FailedOf, id)[deliveries[t][i]] = 0
        <5>1. deliveries[t][i] \in Kept
          BY BooksAre, PlacesFinite
        <5>2. deliveries[t][i].subscription_id # id
          BY <3>2, BooksAre DEF Owned
        <5> QED BY <5>1, <5>2 DEF ForOne
      <4>3. /\ Counted(deliveries, ForOne(SentOf, id)) = 0
            /\ Counted(deliveries, ForOne(FailedOf, id)) = 0
        BY <4>2, BooksAre, MeasuresTyped, NothingCounted
      <4> QED BY <1>1, <4>1, <4>3
    <3> QED BY <3>1, <3>2
  <2> QED BY <2>1, BooksAre DEF CountsTrue
<1>11. BooksTrue(Delivered!Books', dispatched')
  BY <1>3, <1>7, <1>9, <1>10 DEF BooksTrue, Delivered!Books
<1>12. SubsKept(subs, [id \in DOMAIN subs |-> subs'[id]])
  BY <1>4 DEF SubsKept
<1> QED BY <1>3, <1>11, <1>12 DEF DeliveryInv

(* update_subscription_preferences, and the status of a subscription *)
LEMMA SubscriptionTrue ==
  ASSUME DeliveryInv, SubsEdited(subs, subs'), Delivered!Change,
         UNCHANGED <<dispatched, deliveries, batch, metrics, now>>
  PROVE  DeliveryInv'
<1> DEFINE b == Delivered!Books
           c == Delivered!Books'
<1>1. /\ b.subs = subs /\ c.subs = subs' /\ c.deliveries = b.deliveries /\ c.batch = b.batch
      /\ c.metrics = b.metrics
      /\ c = [subs |-> c.subs, deliveries |-> c.deliveries, batch |-> c.batch, metrics |-> c.metrics]
  BY DEF Delivered!Books
<1>2. BooksTrue(b, dispatched)
  BY DEF DeliveryInv
<1> HIDE DEF b, c
<1>3. BooksTrue(c, dispatched)
  BY <1>1, <1>2, SubsEditedTrue
<1>4. changes' \in 0..MaxChanges
  BY DeliverySettings DEF DeliveryInv, Delivered!Change
<1> QED BY <1>3, <1>4 DEF DeliveryInv, c

LEMMA EditTrue ==
  ASSUME DeliveryInv, NEW id \in DOMAIN subs, NEW a \in Delivered!ManagedSubscription,
         a.subscriber = subs[id].subscriber, a.total_delivered = subs[id].total_delivered,
         a.total_failed = subs[id].total_failed, subs' = [subs EXCEPT ![id] = a]
  PROVE  SubsEdited(subs, subs')
<1>1. subs' \in Seq(Delivered!ManagedSubscription) /\ Len(subs') = Len(subs)
  BY BooksAre, ExceptSeq
<1>2. DOMAIN subs' = DOMAIN subs /\ \A k \in DOMAIN subs : subs'[k] = IF k = id THEN a ELSE subs[k]
  BY BooksAre
<1> QED BY <1>1, <1>2 DEF SubsEdited

LEMMA UpdatePrefsTrue ==
  ASSUME DeliveryInv, NEW id \in Delivered!SubIds, NEW p \in Preferences, Delivered!UpdatePrefs(id, p)
  PROVE  DeliveryInv' /\ SubsEdited(subs, subs')
<1> DEFINE a == [subs[id] EXCEPT !.prefs = p]
<1>1. id \in DOMAIN subs /\ subs[id] \in Delivered!ManagedSubscription
  BY BooksAre DEF Delivered!SubIds
<1>2. /\ a \in Delivered!ManagedSubscription /\ a.subscriber = subs[id].subscriber
      /\ a.total_delivered = subs[id].total_delivered /\ a.total_failed = subs[id].total_failed
  BY <1>1 DEF Delivered!ManagedSubscription
<1>3. subs' = [subs EXCEPT ![id] = a]
  BY DEF Delivered!UpdatePrefs
<1> HIDE DEF a
<1>4. SubsEdited(subs, subs')
  BY <1>1, <1>2, <1>3, EditTrue
<1> QED BY <1>4, SubscriptionTrue DEF Delivered!UpdatePrefs

LEMMA SetStatusTrue ==
  ASSUME DeliveryInv, NEW id \in Delivered!SubIds, NEW status \in {"Active", "Paused", "Cancelled"},
         Delivered!SetSubscriptionStatus(id, status)
  PROVE  DeliveryInv' /\ SubsEdited(subs, subs')
<1> DEFINE a == [subs[id] EXCEPT !.status = status]
<1>1. id \in DOMAIN subs /\ subs[id] \in Delivered!ManagedSubscription
  BY BooksAre DEF Delivered!SubIds
<1>2. /\ a \in Delivered!ManagedSubscription /\ a.subscriber = subs[id].subscriber
      /\ a.total_delivered = subs[id].total_delivered /\ a.total_failed = subs[id].total_failed
  BY <1>1 DEF Delivered!ManagedSubscription
<1>3. subs' = [subs EXCEPT ![id] = a]
  BY DEF Delivered!SetSubscriptionStatus
<1> HIDE DEF a
<1>4. SubsEdited(subs, subs')
  BY <1>1, <1>2, <1>3, EditTrue
<1> QED BY <1>4, SubscriptionTrue DEF Delivered!SetSubscriptionStatus

LEMMA DeliverPendingTrue ==
  ASSUME DeliveryInv, NEW s \in Subscribers, Delivered!DeliverPending(s) \/ Delivered!FlushBatch(s)
  PROVE  DeliveryInv' /\ SubsKept(subs, subs') /\ Moved(deliveries, deliveries')
<1> DEFINE b == Delivered!Books
<1>1. PICK c : /\ Delivered!Store(c) /\ UNCHANGED <<dispatched, changes, now>>
               /\ c = Delivered!Deliver(b, s) \/ c = Delivered!Flush(b, s)
  BY DEF Delivered!DeliverPending, Delivered!FlushBatch
<1>2. BooksTrue(b, dispatched) /\ b.subs = subs /\ b.deliveries = deliveries
  BY DEF DeliveryInv, Delivered!Books
<1> HIDE DEF b
<1>3. BooksTrue(c, dispatched) /\ SubsKept(b.subs, c.subs) /\ Moved(b.deliveries, c.deliveries)
  BY <1>1, <1>2, DeliverTrue, FlushTrue
<1>4. Delivered!Books' = c
  BY <1>1, <1>3, StoreIs DEF BooksTrue
<1>5. subs' = c.subs /\ deliveries' = c.deliveries
  BY <1>1 DEF Delivered!Store
<1> QED BY <1>1, <1>2, <1>3, <1>4, <1>5 DEF DeliveryInv

LEMMA DispatchEventTrue ==
  ASSUME DeliveryInv, NEW kind \in EventKinds, Delivered!DispatchEvent(kind)
  PROVE  /\ DeliveryInv' /\ SubsKept(subs, subs') /\ now' = now
         /\ dispatched' = dispatched + 1 /\ dispatched + 1 \in Delivered!EventIds
         /\ Grown(deliveries, deliveries', dispatched + 1, Len(subs))
<1> DEFINE event == dispatched + 1
           c == Delivered!Dispatched(kind, event)
<1>1. /\ dispatched < MaxEvents /\ now + Delivered!Backoff(0) <= MaxTime
      /\ dispatched' = event /\ Delivered!Store(c) /\ UNCHANGED <<changes, now>>
  BY DEF Delivered!DispatchEvent
<1>2. event \in Delivered!EventIds /\ event \in 0..MaxEvents
  BY <1>1, DeliverySettings DEF DeliveryInv, Delivered!EventIds
<1>3. BooksTrue(Delivered!Books, dispatched) /\ dispatched \in Nat /\ now \in Nat
  BY BooksAre DEF DeliveryInv
<1>4. Reached(c, event, Len(subs))
  BY <1>1, <1>2, <1>3, DispatchTrue
<1> HIDE DEF c
<1>5. Delivered!Books' = c
  BY <1>1, <1>4, StoreIs DEF Reached, BooksTrue
<1>6. subs' = c.subs /\ deliveries' = c.deliveries
  BY <1>1 DEF Delivered!Store
<1> QED BY <1>1, <1>2, <1>4, <1>5, <1>6 DEF DeliveryInv, Reached

LEMMA RecordFailed ==
  ASSUME NEW r \in Kept, r.status = "Pending", NEW t \in 0..MaxTime
  PROVE  LET q == [r EXCEPT !.attempts = @ + 1, !.next_retry_at = t] IN
         /\ q \in Kept /\ q.status = r.status /\ q.event_id = r.event_id
         /\ q.subscription_id = r.subscription_id
         /\ SentOf[q] = SentOf[r] /\ SeenOf[q] = SeenOf[r] /\ RetriedOf[q] = RetriedOf[r]
         /\ FailedOf[q] = FailedOf[r] + 1
<1> DEFINE q == [r EXCEPT !.attempts = @ + 1, !.next_retry_at = t]
<1>1. /\ r \in Delivered!DeliveryRecord /\ r.attempts \in Nat
      /\ r.event_id \in Delivered!EventIds /\ r.subscription_id \in 1..MaxSubs
  BY KeptFields
<1> DEFINE a == [r EXCEPT !.attempts = r.attempts + 1]
<1>2. /\ a \in Delivered!DeliveryRecord /\ a.status = "Pending" /\ a.event_id = r.event_id
      /\ a.subscription_id = r.subscription_id /\ a.attempts = r.attempts + 1
      /\ q = [a EXCEPT !.next_retry_at = t]
  BY <1>1 DEF Delivered!DeliveryRecord
<1> HIDE DEF q, a
<1>3. /\ q \in Delivered!DeliveryRecord /\ q.status = "Pending" /\ q.event_id = r.event_id
      /\ q.subscription_id = r.subscription_id /\ q.attempts = r.attempts + 1
  BY <1>2 DEF Delivered!DeliveryRecord
<1>4. q \in Kept
  BY <1>3 DEF Kept
<1>5. SentOf[q] = 0 /\ SentOf[r] = 0 /\ SeenOf[q] = 0 /\ SeenOf[r] = 0
  BY <1>3, <1>4 DEF SentOf, SeenOf, Delivered!Sent, Delivered!Acknowledged
<1>6. FailedOf[q] = r.attempts + 1 /\ FailedOf[r] = r.attempts
  BY <1>1, <1>3, <1>4 DEF FailedOf, Delivered!Failed, Delivered!Sent
<1>7. RetriedOf[q] = 0 /\ RetriedOf[r] = 0
  BY <1>3, <1>4 DEF RetriedOf, Delivered!Retried, Delivered!Sent
<1>8. /\ q \in Kept /\ q.status = r.status /\ q.event_id = r.event_id
      /\ q.subscription_id = r.subscription_id
      /\ SentOf[q] = SentOf[r] /\ SeenOf[q] = SeenOf[r] /\ RetriedOf[q] = RetriedOf[r]
      /\ FailedOf[q] = FailedOf[r] + 1
  BY <1>3, <1>4, <1>5, <1>6, <1>7
<1> QED BY <1>8 DEF q

LEMMA RecordSeen ==
  ASSUME NEW r \in Kept, r.status = "Delivered"
  PROVE  LET q == [r EXCEPT !.status = "Acknowledged"] IN
         /\ q \in Kept /\ q.status = "Acknowledged" /\ q.event_id = r.event_id
         /\ q.subscription_id = r.subscription_id
         /\ SentOf[q] = SentOf[r] /\ FailedOf[q] = FailedOf[r] /\ RetriedOf[q] = RetriedOf[r]
         /\ SeenOf[q] = SeenOf[r] + 1
<1> DEFINE q == [r EXCEPT !.status = "Acknowledged"]
<1>1. r \in Delivered!DeliveryRecord /\ r.attempts \in Nat /\ r.attempts >= 1
  BY KeptFields
<1>2. /\ q \in Delivered!DeliveryRecord /\ q.status = "Acknowledged" /\ q.event_id = r.event_id
      /\ q.subscription_id = r.subscription_id /\ q.attempts = r.attempts
  BY <1>1 DEF Delivered!DeliveryRecord
<1> HIDE DEF q
<1>3. q \in Kept
  BY <1>1, <1>2 DEF Kept
<1>4. SentOf[q] = 1 /\ SentOf[r] = 1 /\ SeenOf[q] = 1 /\ SeenOf[r] = 0
  BY <1>2, <1>3 DEF SentOf, SeenOf, Delivered!Sent, Delivered!Acknowledged
<1>5. FailedOf[q] = r.attempts - 1 /\ FailedOf[r] = r.attempts - 1
  BY <1>1, <1>2, <1>3 DEF FailedOf, Delivered!Failed, Delivered!Sent
<1>6. RetriedOf[q] = RetriedOf[r]
  BY <1>1, <1>2, <1>3 DEF RetriedOf, Delivered!Retried, Delivered!Failed, Delivered!Sent
<1>7. /\ q \in Kept /\ q.status = "Acknowledged" /\ q.event_id = r.event_id
      /\ q.subscription_id = r.subscription_id
      /\ SentOf[q] = SentOf[r] /\ FailedOf[q] = FailedOf[r] /\ RetriedOf[q] = RetriedOf[r]
      /\ SeenOf[q] = SeenOf[r] + 1
  BY <1>2, <1>3, <1>4, <1>5, <1>6
<1> QED BY <1>7 DEF q

(* A record keeps what it is of. *)
LEMMA OwnedReplaced ==
  ASSUME NEW d \in Lists, NEW s \in Subscribers, NEW i \in DOMAIN d[s], NEW q \in Kept,
         q.event_id = d[s][i].event_id, q.subscription_id = d[s][i].subscription_id,
         NEW e, Replaced(d, e, s, i, q), NEW u, NEW v, SubsKept(u, v),
         NEW n, Owned(u, d, n), Single(d)
  PROVE  Owned(v, e, n) /\ Single(e)
<1>1. /\ \A t \in Subscribers : DOMAIN e[t] = DOMAIN d[t]
      /\ \A t \in Subscribers : \A j \in DOMAIN d[t] :
           e[t][j].event_id = d[t][j].event_id /\ e[t][j].subscription_id = d[t][j].subscription_id
  BY RecordReplaced
<1>2. Owned(v, e, n)
  BY <1>1 DEF Owned, SubsKept
<1>3. Single(e)
  BY <1>1 DEF Single
<1> QED BY <1>2, <1>3

LEMMA MarkFailedTrue ==
  ASSUME DeliveryInv, NEW s \in Subscribers, NEW event, Delivered!MarkDeliveryFailed(s, event)
  PROVE  /\ DeliveryInv' /\ SubsKept(subs, subs')
         /\ \E i \in DOMAIN deliveries[s], q \in Kept :
              /\ Replaced(deliveries, deliveries', s, i, q)
              /\ q.event_id = deliveries[s][i].event_id /\ q.status = deliveries[s][i].status
              /\ q.subscription_id = deliveries[s][i].subscription_id
<1> DEFINE i == Delivered!FirstWith(s, event, "Pending")
           r == deliveries[s][i]
           k == r.subscription_id
           t == now + Delivered!Backoff(r.attempts)
           q == [r EXCEPT !.attempts = @ + 1, !.next_retry_at = t]
           a == [subs[k] EXCEPT !.total_failed = @ + 1]
<1>1. i \in DOMAIN deliveries[s] /\ r \in Kept /\ r.event_id = event /\ r.status = "Pending"
  BY FirstWithIs DEF Delivered!MarkDeliveryFailed
<1>2. t \in 0..MaxTime
  <2>1. r.attempts < MaxAttempts /\ t <= MaxTime
    BY DEF Delivered!MarkDeliveryFailed
  <2>2. r.attempts \in 0..MaxAttempts
    BY <1>1, <2>1, KeptFields, DeliverySettings
  <2>3. Delivered!Backoff(r.attempts) \in Nat
    BY <2>2, DeliverySettings
  <2> QED BY <2>1, <2>3, BooksAre, DeliverySettings
<1>3. Replaced(deliveries, deliveries', s, i, q)
  <2>1. deliveries' = [deliveries EXCEPT ![s][i].attempts = @ + 1, ![s][i].next_retry_at = t]
    BY DEF Delivered!MarkDeliveryFailed
  <2>2. deliveries \in [Subscribers -> Seq(Kept)] /\ deliveries[s] \in Seq(Kept)
    BY BooksAre DEF Lists
  <2> HIDE DEF t, i
  <2> QED BY <1>1, <2>1, <2>2 DEF Replaced
<1>4. metrics' = [metrics EXCEPT !.failed = @ + 1] /\ subs' = [subs EXCEPT ![k] = a]
  BY DEF Delivered!MarkDeliveryFailed
<1>5. UNCHANGED <<dispatched, batch, changes, now>>
  BY DEF Delivered!MarkDeliveryFailed
<1>6. /\ q \in Kept /\ q.status = r.status /\ q.event_id = r.event_id /\ q.subscription_id = k
      /\ SentOf[q] = SentOf[r] /\ SeenOf[q] = SeenOf[r] /\ RetriedOf[q] = RetriedOf[r]
      /\ FailedOf[q] = FailedOf[r] + 1
  <2> HIDE DEF r, t
  <2> QED BY <1>1, <1>2, RecordFailed
<1>7. k \in DOMAIN subs /\ subs[k] \in Delivered!ManagedSubscription
  BY <1>1, BooksAre DEF Owned
<1>8. /\ a \in Delivered!ManagedSubscription /\ a.subscriber = subs[k].subscriber
      /\ a.total_delivered = subs[k].total_delivered /\ a.total_failed = subs[k].total_failed + 1
  BY <1>7 DEF Delivered!ManagedSubscription
<1> HIDE DEF a, q, t, r, i
<1>9. /\ subs' \in Seq(Delivered!ManagedSubscription) /\ Len(subs') = Len(subs)
      /\ DOMAIN subs' = DOMAIN subs
      /\ \A id \in DOMAIN subs : subs'[id] = IF id = k THEN a ELSE subs[id]
  BY <1>4, <1>7, <1>8, BooksAre, ExceptSeq
<1>10. SubsKept(subs, subs')
  BY <1>8, <1>9 DEF SubsKept
<1>11. Owned(subs', deliveries', dispatched) /\ Single(deliveries')
  BY <1>1, <1>3, <1>6, <1>10, BooksAre, OwnedReplaced DEF r
<1>12. /\ metrics' \in Metrics /\ metrics'.delivered = metrics.delivered
       /\ metrics'.acknowledged = metrics.acknowledged /\ metrics'.retries = metrics.retries
       /\ metrics'.failed = metrics.failed + 1
  BY <1>4, BooksAre DEF Metrics
<1>13. /\ deliveries' \in Lists
       /\ \A f \in [Kept -> Nat] :
            /\ f[q] = f[r] => Counted(deliveries', f) = Counted(deliveries, f)
            /\ f[q] = f[r] + 1 => Counted(deliveries', f) = Counted(deliveries, f) + 1
  BY <1>1, <1>3, <1>6, BooksAre, RecordReplaced DEF r
<1>14. /\ metrics'.delivered = Counted(deliveries', SentOf)
       /\ metrics'.acknowledged = Counted(deliveries', SeenOf)
       /\ metrics'.failed = Counted(deliveries', FailedOf)
       /\ metrics'.retries = Counted(deliveries', RetriedOf)
  BY <1>6, <1>12, <1>13, BooksAre, MeasuresTyped DEF CountsTrue
<1>15. ASSUME NEW id \in DOMAIN subs'
       PROVE  /\ subs'[id].total_delivered = Counted(deliveries', ForOne(SentOf, id))
              /\ subs'[id].total_failed = Counted(deliveries', ForOne(FailedOf, id))
  <2>1. /\ ForOne(SentOf, id)[q] = ForOne(SentOf, id)[r]
        /\ ForOne(FailedOf, id)[q] = IF id = k THEN ForOne(FailedOf, id)[r] + 1
                                    ELSE ForOne(FailedOf, id)[r]
    BY <1>1, <1>6 DEF ForOne
  <2>2. ForOne(SentOf, id) \in [Kept -> Nat] /\ ForOne(FailedOf, id) \in [Kept -> Nat]
    BY MeasuresTyped
  <2>3. /\ Counted(deliveries', ForOne(SentOf, id)) = Counted(deliveries, ForOne(SentOf, id))
        /\ Counted(deliveries', ForOne(FailedOf, id)) =
             IF id = k THEN Counted(deliveries, ForOne(FailedOf, id)) + 1
             ELSE Counted(deliveries, ForOne(FailedOf, id))
    BY <1>13, <2>1, <2>2
  <2>4. /\ subs[id].total_delivered = Counted(deliveries, ForOne(SentOf, id))
        /\ subs[id].total_failed = Counted(deliveries, ForOne(FailedOf, id))
    BY <1>9, BooksAre DEF CountsTrue
  <2> QED BY <1>8, <1>9, <2>3, <2>4
<1>16. CountsTrue(subs', metrics', deliveries')
  BY <1>14, <1>15 DEF CountsTrue
<1>17. BooksTyped(Delivered!Books')
  BY <1>5, <1>9, <1>12, <1>13, BooksAre DEF BooksTyped, Delivered!Books
<1>18. DeliveryInv'
  BY <1>5, <1>11, <1>16, <1>17 DEF DeliveryInv, BooksTrue, Delivered!Books
<1> QED BY <1>1, <1>3, <1>6, <1>10, <1>18 DEF r

LEMMA AcknowledgeTrue ==
  ASSUME DeliveryInv, NEW s \in Subscribers, NEW event, Delivered!Acknowledge(s, event)
  PROVE  /\ DeliveryInv' /\ UNCHANGED subs
         /\ \E i \in DOMAIN deliveries[s], q \in Kept :
              /\ Replaced(deliveries, deliveries', s, i, q)
              /\ q.event_id = deliveries[s][i].event_id
              /\ q.subscription_id = deliveries[s][i].subscription_id
              /\ deliveries[s][i].status = "Delivered" /\ q.status = "Acknowledged"
<1> DEFINE i == Delivered!FirstWith(s, event, "Delivered")
           r == deliveries[s][i]
           q == [r EXCEPT !.status = "Acknowledged"]
<1>1. i \in DOMAIN deliveries[s] /\ r \in Kept /\ r.event_id = event /\ r.status = "Delivered"
  BY FirstWithIs DEF Delivered!Acknowledge
<1>2. Replaced(deliveries, deliveries', s, i, q)
  BY DEF Delivered!Acknowledge, Replaced
<1>3. metrics' = [metrics EXCEPT !.acknowledged = @ + 1]
  BY DEF Delivered!Acknowledge
<1>4. UNCHANGED <<subs, dispatched, batch, changes, now>>
  BY DEF Delivered!Acknowledge
<1>5. /\ q \in Kept /\ q.status = "Acknowledged" /\ q.event_id = r.event_id
      /\ q.subscription_id = r.subscription_id
      /\ SentOf[q] = SentOf[r] /\ FailedOf[q] = FailedOf[r] /\ RetriedOf[q] = RetriedOf[r]
      /\ SeenOf[q] = SeenOf[r] + 1
  <2> HIDE DEF r
  <2> QED BY <1>1, RecordSeen
<1> HIDE DEF q, r, i
<1>6. Owned(subs, deliveries', dispatched) /\ Single(deliveries')
  <2>1. SubsKept(subs, subs)
    BY DEF SubsKept
  <2> QED BY <1>1, <1>2, <1>5, <2>1, BooksAre, OwnedReplaced DEF r
<1>7. /\ metrics' \in Metrics /\ metrics'.delivered = metrics.delivered
      /\ metrics'.acknowledged = metrics.acknowledged + 1 /\ metrics'.retries = metrics.retries
      /\ metrics'.failed = metrics.failed
  <2>1. metrics \in Metrics /\ metrics.acknowledged + 1 \in Nat
    BY BooksAre DEF Metrics
  <2>2. metrics' = [metrics EXCEPT !.acknowledged = metrics.acknowledged + 1]
    BY <1>3
  <2> QED BY <2>1, <2>2 DEF Metrics
<1>8. /\ deliveries' \in Lists
      /\ \A f \in [Kept -> Nat] :
           /\ f[q] = f[r] => Counted(deliveries', f) = Counted(deliveries, f)
           /\ f[q] = f[r] + 1 => Counted(deliveries', f) = Counted(deliveries, f) + 1
  BY <1>1, <1>2, <1>5, BooksAre, RecordReplaced DEF r
<1>9. /\ metrics'.delivered = Counted(deliveries', SentOf)
      /\ metrics'.acknowledged = Counted(deliveries', SeenOf)
      /\ metrics'.failed = Counted(deliveries', FailedOf)
      /\ metrics'.retries = Counted(deliveries', RetriedOf)
  BY <1>5, <1>7, <1>8, BooksAre, MeasuresTyped DEF CountsTrue
<1>10. ASSUME NEW id \in DOMAIN subs
       PROVE  /\ subs[id].total_delivered = Counted(deliveries', ForOne(SentOf, id))
              /\ subs[id].total_failed = Counted(deliveries', ForOne(FailedOf, id))
  <2>1. /\ ForOne(SentOf, id)[q] = ForOne(SentOf, id)[r]
        /\ ForOne(FailedOf, id)[q] = ForOne(FailedOf, id)[r]
    BY <1>1, <1>5 DEF ForOne
  <2>2. ForOne(SentOf, id) \in [Kept -> Nat] /\ ForOne(FailedOf, id) \in [Kept -> Nat]
    BY MeasuresTyped
  <2> QED BY <1>8, <2>1, <2>2, BooksAre DEF CountsTrue
<1>11. CountsTrue(subs, metrics', deliveries')
  BY <1>9, <1>10 DEF CountsTrue
<1>12. BooksTyped(Delivered!Books')
  BY <1>4, <1>7, <1>8, BooksAre DEF BooksTyped, Delivered!Books
<1>13. DeliveryInv'
  BY <1>4, <1>6, <1>11, <1>12 DEF DeliveryInv, BooksTrue, Delivered!Books
<1> QED BY <1>1, <1>2, <1>4, <1>5, <1>13 DEF r

LEMMA ClockBounded ==
  ASSUME Next, now \in 0..MaxTime
  PROVE  now' \in 0..MaxTime
<1> USE DEF admins, powers, rewards
<1>1. CASE Tick
  BY <1>1, GovernanceAssumption DEF Tick
<1>2. CASE Administer
  BY <1>2 DEF Administer, Initialize, SetConfig, EmergencyPause, EmergencyUnpause, EmergencyExecute
<1>3. CASE HoldPower
  BY <1>3 DEF HoldPower, DepositVotingPower, WithdrawVotingPower, Delegate, RevokeDelegation
<1>4. CASE Vote
  BY <1>4 DEF Vote, SubmitProposal, CancelProposal, CastVote, CastDelegatedVote, RecordVote, ClaimRewards
<1>5. CASE \E id \in Ids : Advance(id)
  BY <1>5 DEF Advance, FinalizeProposal, QueueTimelock, ExecuteProposal
<1> QED BY <1>1, <1>2, <1>3, <1>4, <1>5 DEF Next

(* One step of either contract. *)
LEMMA DeliveryStep ==
  ASSUME DeliveryInv, [PromisesNext]_promisesVars
  PROVE  DeliveryInv'
<1>1. CASE Governing
  <2>1. UNCHANGED outbox
    BY <1>1 DEF Governing
  <2>2. now' \in 0..MaxTime
    <3>1. Next /\ now \in 0..MaxTime
      BY <1>1 DEF Governing, DeliveryInv
    <3> QED BY <3>1, ClockBounded
  <2> QED BY <2>1, <2>2 DEF DeliveryInv, outbox, Delivered!Books
<1>2. CASE Publishing
  <2>1. Delivered!Next
    BY <1>2 DEF Publishing
  <2>2. CASE Delivered!Subscription
    BY <2>2, CreateTrue, UpdatePrefsTrue, SetStatusTrue DEF Delivered!Subscription
  <2>3. CASE \E kind \in EventKinds : Delivered!DispatchEvent(kind)
    BY <2>3, DispatchEventTrue
  <2>4. CASE \E s \in Subscribers :
               \/ Delivered!DeliverPending(s) \/ Delivered!FlushBatch(s)
               \/ \E event \in Delivered!EventIds :
                    Delivered!MarkDeliveryFailed(s, event) \/ Delivered!Acknowledge(s, event)
    BY <2>4, DeliverPendingTrue, MarkFailedTrue, AcknowledgeTrue
  <2>5. CASE Delivered!Tick
    <3>1. now' \in 0..MaxTime /\ UNCHANGED outbox
      BY <2>5, DeliverySettings DEF Delivered!Tick, DeliveryInv, outbox
    <3> QED BY <3>1 DEF DeliveryInv, outbox, Delivered!Books
  <2> QED BY <2>1, <2>2, <2>3, <2>4, <2>5 DEF Delivered!Next
<1>3. CASE UNCHANGED promisesVars
  BY <1>3 DEF DeliveryInv, promisesVars, outbox, Delivered!Books
<1> QED BY <1>1, <1>2, <1>3 DEF PromisesNext

LEMMA DeliveryStarts ==
  ASSUME PromisesInit
  PROVE  DeliveryInv
<1>1. /\ subs = <<>> /\ dispatched = 0 /\ changes = 0 /\ now = 0
      /\ deliveries = [s \in Subscribers |-> <<>>] /\ batch = [s \in Subscribers |-> <<>>]
      /\ metrics = [delivered |-> 0, acknowledged |-> 0, failed |-> 0, retries |-> 0]
  BY DEF PromisesInit, Delivered!Init
<1>2. /\ <<>> \in Seq(Delivered!ManagedSubscription) /\ Len(subs) = 0
      /\ <<>> \in Seq(Kept) /\ <<>> \in Seq(Delivered!EventIds)
  BY <1>1, EmptySeq
<1>3. DOMAIN <<>> = {}
  OBVIOUS
<1>4. BooksTyped(Delivered!Books)
  BY <1>1, <1>2, DeliverySettings DEF BooksTyped, Lists, Metrics, Delivered!Books
<1>5. deliveries \in Lists
  BY <1>4 DEF BooksTyped, Delivered!Books
<1>6. \A s \in Subscribers : DOMAIN deliveries[s] = {}
  BY <1>1, <1>3
<1>7. \A f \in [Kept -> Nat] : Counted(deliveries, f) = 0
  BY <1>5, <1>6, NothingCounted
<1>8. CountsTrue(subs, metrics, deliveries)
  BY <1>1, <1>3, <1>7, MeasuresTyped DEF CountsTrue
<1>9. Owned(subs, deliveries, dispatched) /\ Single(deliveries)
  BY <1>6 DEF Owned, Single
<1> QED BY <1>1, <1>4, <1>8, <1>9, DeliverySettings DEF DeliveryInv, BooksTrue, Delivered!Books

LEMMA DeliveryInvariant == PromisesSpec => []DeliveryInv
<1>1. PromisesInit => DeliveryInv
  BY DeliveryStarts
<1>2. DeliveryInv /\ [PromisesNext]_promisesVars => DeliveryInv'
  BY DeliveryStep
<1> QED BY <1>1, <1>2, PTL DEF PromisesSpec

(***************************************************************************)
(* However events, deliveries, failures and acknowledgments interleave, the *)
(* counters of the contract and of each subscription are those of the       *)
(* records (get_delivery_metrics, total_delivered, total_failed).           *)
(***************************************************************************)
THEOREM CountersAreTrue == PromisesSpec => []MetricsTrue
<1>1. DeliveryInv => MetricsTrue
  <2> SUFFICES ASSUME DeliveryInv PROVE MetricsTrue
    OBVIOUS
  <2>1. Delivered!MetricsTrue
    BY BooksAre, MetricsAre
  <2>2. \A s \in Subscribers : deliveries[s] \in Seq(Delivered!DeliveryRecord)
    <3> SUFFICES ASSUME NEW s \in Subscribers PROVE deliveries[s] \in Seq(Delivered!DeliveryRecord)
      OBVIOUS
    <3>1. /\ Len(deliveries[s]) \in Nat /\ deliveries[s] \in [1..Len(deliveries[s]) -> Kept]
      BY BooksAre, LenProperties DEF Lists
    <3>2. deliveries[s] \in [1..Len(deliveries[s]) -> Delivered!DeliveryRecord]
      BY <3>1 DEF Kept
    <3> QED BY <3>1, <3>2, FunctionIsSeq
  <2>3. \A s \in Subscribers : batch[s] \in Seq(Delivered!EventIds)
    BY BooksAre
  <2> QED BY <2>1, <2>2, <2>3, BooksAre DEF MetricsTrue, Delivered!TypeOK, DeliveryInv, Metrics
<1> QED BY <1>1, DeliveryInvariant, PTL

-----------------------------------------------------------------------------
(* The abstract outbox *)

OutPairs == Delivered!EventIds \X (1..MaxSubs)
OutStage == [p \in OutPairs |-> Delivered!Stage(p[1], p[2])]

Named(status) ==
  CASE status = "Pending" -> "due" [] status = "Delivered" -> "sent" [] status = "Acknowledged" -> "seen"

IsOf(r, p) == r.event_id = p[1] /\ r.subscription_id = p[2]

(* The stages are those of the records d. *)
StagesTrue(stage, d) ==
  /\ stage \in [OutPairs -> {"none", "due", "sent", "seen"}]
  /\ \A p \in OutPairs :
       /\ \A s \in Subscribers : \A i \in DOMAIN d[s] :
            IsOf(d[s][i], p) => stage[p] = Named(d[s][i].status)
       /\ (\A s \in Subscribers : \A i \in DOMAIN d[s] : ~IsOf(d[s][i], p)) => stage[p] = "none"

LEMMA StageIs ==
  ASSUME DeliveryInv, NEW p \in OutPairs
  PROVE  /\ \A s \in Subscribers : \A i \in DOMAIN deliveries[s] :
              IsOf(deliveries[s][i], p) => Delivered!Stage(p[1], p[2]) = Named(deliveries[s][i].status)
         /\ (\A s \in Subscribers : \A i \in DOMAIN deliveries[s] : ~IsOf(deliveries[s][i], p))
               => Delivered!Stage(p[1], p[2]) = "none"
<1> DEFINE event == p[1]
           id == p[2]
           t == subs[id].subscriber
           found == {i \in DOMAIN deliveries[t] : deliveries[t][i].event_id = event
                                                  /\ deliveries[t][i].subscription_id = id}
<1>1. ASSUME NEW s \in Subscribers, NEW i \in DOMAIN deliveries[s], IsOf(deliveries[s][i], p)
      PROVE  Delivered!Stage(event, id) = Named(deliveries[s][i].status)
  <2>1. id \in DOMAIN subs /\ t = s
    BY <1>1, BooksAre DEF Owned, IsOf
  <2>2. found = {i}
    BY <1>1, <2>1, BooksAre DEF Single, IsOf
  <2>3. i \in Nat
    BY BooksAre, PlacesFinite
  <2> HIDE DEF found
  <2>4. Delivered!Min(found) = i
    BY <2>2, <2>3 DEF Delivered!Min
  <2> QED BY <2>1, <2>2, <2>4 DEF Delivered!Stage, Delivered!SubIds, Named, found
<1>2. ASSUME \A s \in Subscribers : \A i \in DOMAIN deliveries[s] : ~IsOf(deliveries[s][i], p)
      PROVE  Delivered!Stage(event, id) = "none"
  <2>1. CASE id \in DOMAIN subs
    <3>1. t \in Subscribers
      BY <2>1, BooksAre DEF Delivered!ManagedSubscription
    <3>2. found = {}
      BY <1>2, <3>1 DEF IsOf
    <3> QED BY <3>2 DEF Delivered!Stage
  <2>2. CASE id \notin DOMAIN subs
    BY <2>2 DEF Delivered!Stage, Delivered!SubIds
  <2> QED BY <2>1, <2>2
<1> QED BY <1>1, <1>2

LEMMA StagesAre == DeliveryInv => StagesTrue(OutStage, deliveries)
<1> SUFFICES ASSUME DeliveryInv PROVE StagesTrue(OutStage, deliveries)
  OBVIOUS
<1>1. ASSUME NEW p \in OutPairs
      PROVE  OutStage[p] = Delivered!Stage(p[1], p[2]) /\ OutStage[p] \in {"none", "due", "sent", "seen"}
  <2>1. OutStage[p] = Delivered!Stage(p[1], p[2])
    BY DEF OutStage
  <2>2. CASE \A s \in Subscribers : \A i \in DOMAIN deliveries[s] : ~IsOf(deliveries[s][i], p)
    BY <2>1, <2>2, StageIs
  <2>3. CASE \E s \in Subscribers : \E i \in DOMAIN deliveries[s] : IsOf(deliveries[s][i], p)
    <3>1. PICK s \in Subscribers : \E i \in DOMAIN deliveries[s] : IsOf(deliveries[s][i], p)
      BY <2>3
    <3>2. PICK i \in DOMAIN deliveries[s] : IsOf(deliveries[s][i], p)
      BY <3>1
    <3>3. deliveries[s][i].status \in {"Pending", "Delivered", "Acknowledged"}
      BY BooksAre, PlacesFinite, KeptFields
    <3>4. Delivered!Stage(p[1], p[2]) = Named(deliveries[s][i].status)
      BY <3>2, StageIs
    <3> QED BY <2>1, <3>3, <3>4 DEF Named
  <2> QED BY <2>1, <2>2, <2>3
<1>2. OutStage \in [OutPairs -> {"none", "due", "sent", "seen"}]
  BY <1>1 DEF OutStage
<1> QED BY <1>1, <1>2, StageIs DEF StagesTrue

(* Records stay, and one that was pending may have been delivered. *)
Advanced(d, e) ==
  \A s \in Subscribers :
    /\ DOMAIN e[s] = DOMAIN d[s]
    /\ \A i \in DOMAIN d[s] :
         /\ e[s][i].event_id = d[s][i].event_id /\ e[s][i].subscription_id = d[s][i].subscription_id
         /\ \/ e[s][i].status = d[s][i].status
            \/ d[s][i].status = "Pending" /\ e[s][i].status = "Delivered"

GoneOut(z, w, p) == z[p] = "due" /\ w[p] = "sent"

LEMMA AdvancedStages ==
  ASSUME NEW z, NEW w, NEW d, NEW e, StagesTrue(z, d), StagesTrue(w, e), Advanced(d, e), NEW p \in OutPairs
  PROVE  w[p] = z[p] \/ GoneOut(z, w, p)
<1>1. CASE \A s \in Subscribers : \A i \in DOMAIN d[s] : ~IsOf(d[s][i], p)
  <2>1. \A s \in Subscribers : \A i \in DOMAIN e[s] : ~IsOf(e[s][i], p)
    BY <1>1 DEF Advanced, IsOf
  <2> QED BY <1>1, <2>1 DEF StagesTrue
<1>2. CASE \E s \in Subscribers : \E i \in DOMAIN d[s] : IsOf(d[s][i], p)
  <2>1. PICK s \in Subscribers : \E i \in DOMAIN d[s] : IsOf(d[s][i], p)
    BY <1>2
  <2>2. PICK i \in DOMAIN d[s] : IsOf(d[s][i], p)
    BY <2>1
  <2>3. i \in DOMAIN e[s] /\ IsOf(e[s][i], p)
    BY <2>2 DEF Advanced, IsOf
  <2>4. z[p] = Named(d[s][i].status) /\ w[p] = Named(e[s][i].status)
    BY <2>2, <2>3 DEF StagesTrue
  <2>5. \/ e[s][i].status = d[s][i].status
        \/ d[s][i].status = "Pending" /\ e[s][i].status = "Delivered"
    BY DEF Advanced
  <2> QED BY <2>4, <2>5 DEF Named, GoneOut
<1> QED BY <1>1, <1>2

(* An acknowledged record. *)
LEMMA SeenStages ==
  ASSUME NEW z, NEW w, NEW d \in Lists, NEW e, StagesTrue(z, d), StagesTrue(w, e),
         NEW s \in Subscribers, NEW i \in DOMAIN d[s], NEW q \in Kept, Replaced(d, e, s, i, q),
         q.event_id = d[s][i].event_id, q.subscription_id = d[s][i].subscription_id,
         d[s][i].status = "Delivered", q.status = "Acknowledged"
  PROVE  \E p \in OutPairs : z[p] = "sent" /\ w = [z EXCEPT ![p] = "seen"]
<1> DEFINE p == <<d[s][i].event_id, d[s][i].subscription_id>>
<1>1. /\ \A t \in Subscribers : DOMAIN e[t] = DOMAIN d[t]
      /\ \A t \in Subscribers : \A j \in DOMAIN d[t] :
           e[t][j] = IF t = s /\ j = i THEN q ELSE d[t][j]
      /\ d[s][i] \in Kept
  BY RecordReplaced
<1>2. p \in OutPairs
  BY <1>1, KeptFields DEF OutPairs
<1>3. z[p] = "sent" /\ w[p] = "seen"
  <2>1. IsOf(d[s][i], p) /\ IsOf(e[s][i], p) /\ i \in DOMAIN e[s] /\ e[s][i] = q
    BY <1>1 DEF IsOf
  <2> QED BY <1>2, <2>1 DEF StagesTrue, Named
<1>4. ASSUME NEW o \in OutPairs, o # p PROVE w[o] = z[o]
  <2>1. ~IsOf(d[s][i], o) /\ ~IsOf(e[s][i], o)
    BY <1>1, <1>4 DEF IsOf, OutPairs
  <2>2. CASE \A t \in Subscribers : \A j \in DOMAIN d[t] : ~IsOf(d[t][j], o)
    <3>1. \A t \in Subscribers : \A j \in DOMAIN e[t] : ~IsOf(e[t][j], o)
      BY <1>1, <2>1, <2>2
    <3> QED BY <2>2, <3>1 DEF StagesTrue
  <2>3. CASE \E t \in Subscribers : \E j \in DOMAIN d[t] : IsOf(d[t][j], o)
    <3>1. PICK t \in Subscribers : \E j \in DOMAIN d[t] : IsOf(d[t][j], o)
      BY <2>3
    <3>2. PICK j \in DOMAIN d[t] : IsOf(d[t][j], o)
      BY <3>1
    <3>3. e[t][j] = d[t][j] /\ j \in DOMAIN e[t]
      BY <1>1, <2>1, <3>2
    <3> QED BY <3>2, <3>3 DEF StagesTrue
  <2> QED BY <2>2, <2>3
<1>5. w = [z EXCEPT ![p] = "seen"]
  BY <1>2, <1>3, <1>4 DEF StagesTrue
<1> QED BY <1>2, <1>3, <1>5

(* A dispatched event. *)
LEMMA GrownStages ==
  ASSUME NEW z, NEW w, NEW d \in Lists, NEW e \in Lists, StagesTrue(z, d), StagesTrue(w, e),
         NEW event, NEW k, Grown(d, e, event, k),
         \A s \in Subscribers : \A i \in DOMAIN d[s] : d[s][i].event_id # event,
         NEW p \in OutPairs
  PROVE  /\ p[1] = event => z[p] = "none"
         /\ \/ w[p] = z[p]
            \/ p[1] = event /\ w[p] = "due"
            \/ GoneOut(z, w, p)
<1>1. CASE p[1] = event
  <2>1. z[p] = "none"
    BY <1>1 DEF StagesTrue, IsOf
  <2>2. CASE \A s \in Subscribers : \A i \in DOMAIN e[s] : ~IsOf(e[s][i], p)
    BY <2>1, <2>2 DEF StagesTrue
  <2>3. CASE \E s \in Subscribers : \E i \in DOMAIN e[s] : IsOf(e[s][i], p)
    <3>1. PICK s \in Subscribers : \E i \in DOMAIN e[s] : IsOf(e[s][i], p)
      BY <2>3
    <3>2. PICK i \in DOMAIN e[s] : IsOf(e[s][i], p)
      BY <3>1
    <3>3. i \notin DOMAIN d[s]
      BY <1>1, <3>2 DEF Grown, IsOf
    <3>4. e[s][i].status = "Pending"
      BY <3>3 DEF Grown
    <3> QED BY <1>1, <2>1, <3>2, <3>4 DEF StagesTrue, Named
  <2> QED BY <2>1, <2>2, <2>3
<1>2. CASE p[1] # event
  <2>1. CASE \A s \in Subscribers : \A i \in DOMAIN d[s] : ~IsOf(d[s][i], p)
    <3>1. \A s \in Subscribers : \A i \in DOMAIN e[s] : ~IsOf(e[s][i], p)
      BY <1>2, <2>1 DEF Grown, IsOf
    <3> QED BY <1>2, <2>1, <3>1 DEF StagesTrue
  <2>2. CASE \E s \in Subscribers : \E i \in DOMAIN d[s] : IsOf(d[s][i], p)
    <3>1. PICK s \in Subscribers : \E i \in DOMAIN d[s] : IsOf(d[s][i], p)
      BY <2>2
    <3>2. PICK i \in DOMAIN d[s] : IsOf(d[s][i], p)
      BY <3>1
    <3>3. i \in DOMAIN e[s] /\ IsOf(e[s][i], p)
      BY <3>2 DEF Grown, IsOf
    <3>4. z[p] = Named(d[s][i].status) /\ w[p] = Named(e[s][i].status)
      BY <3>2, <3>3 DEF StagesTrue
    <3>5. \/ e[s][i].status = d[s][i].status
          \/ d[s][i].status = "Pending" /\ e[s][i].status = "Delivered"
      BY DEF Grown
    <3> QED BY <1>2, <3>4, <3>5 DEF Named, GoneOut
  <2> QED BY <2>1, <2>2
<1> QED BY <1>1, <1>2

(* In these terms, the steps of the outbox. *)
LEMMA OutboxSteps ==
  ASSUME OutStage' \in [OutPairs -> {"none", "due", "sent", "seen"}]
  PROVE  /\ (\A p \in OutPairs : OutStage'[p] = OutStage[p] \/ GoneOut(OutStage, OutStage', p))
              => Delivered!Out!Next
         /\ (\E p \in OutPairs : OutStage[p] = "sent" /\ OutStage' = [OutStage EXCEPT ![p] = "seen"])
              => Delivered!Out!Next
         /\ \A event \in Delivered!EventIds :
              (\A p \in OutPairs :
                 /\ p[1] = event => OutStage[p] = "none"
                 /\ \/ OutStage'[p] = OutStage[p]
                    \/ p[1] = event /\ OutStage'[p] = "due"
                    \/ GoneOut(OutStage, OutStage', p))
              => Delivered!Out!Next
<1> USE DEF GoneOut, Delivered!Out!Pairs, Delivered!Out!Stages
<1>1. ASSUME \A p \in OutPairs : OutStage'[p] = OutStage[p] \/ GoneOut(OutStage, OutStage', p)
      PROVE  Delivered!Out!Send
  BY <1>1 DEF Delivered!Out!Send, Delivered!Out!Sent, OutStage, OutPairs
<1>2. ASSUME NEW p \in OutPairs, OutStage[p] = "sent", OutStage' = [OutStage EXCEPT ![p] = "seen"]
      PROVE  Delivered!Out!Acknowledge(p)
  BY <1>2 DEF Delivered!Out!Acknowledge, OutStage, OutPairs
<1>3. ASSUME NEW event \in Delivered!EventIds,
             \A p \in OutPairs :
               /\ p[1] = event => OutStage[p] = "none"
               /\ \/ OutStage'[p] = OutStage[p]
                  \/ p[1] = event /\ OutStage'[p] = "due"
                  \/ GoneOut(OutStage, OutStage', p)
      PROVE  Delivered!Out!Publish(event)
  <2>1. \A id \in 1..MaxSubs : OutStage[<<event, id>>] = "none"
    BY <1>3 DEF OutPairs
  <2> QED BY <1>3, <2>1 DEF Delivered!Out!Publish, Delivered!Out!Sent, OutStage, OutPairs
<1> QED BY <1>1, <1>2, <1>3 DEF Delivered!Out!Next, OutPairs

LEMMA OutboxStep ==
  ASSUME DeliveryInv, DeliveryInv', [PromisesNext]_promisesVars,
         StagesTrue(OutStage, deliveries), StagesTrue(OutStage', deliveries')
  PROVE  Delivered!Out!Next
<1>0. /\ OutStage' \in [OutPairs -> {"none", "due", "sent", "seen"}]
      /\ deliveries \in Lists /\ deliveries' \in Lists
  <2>1. deliveries \in Lists
    BY BooksAre
  <2>2. deliveries' \in Lists
    BY DEF DeliveryInv, BooksTrue, BooksTyped, Delivered!Books
  <2> QED BY <2>1, <2>2 DEF StagesTrue
<1>1. CASE Advanced(deliveries, deliveries')
  <2>1. \A p \in OutPairs : OutStage'[p] = OutStage[p] \/ GoneOut(OutStage, OutStage', p)
    BY <1>1, AdvancedStages
  <2> QED BY <1>0, <2>1, OutboxSteps
<1>2. CASE UNCHANGED deliveries
  <2>1. Advanced(deliveries, deliveries')
    BY <1>2 DEF Advanced
  <2> QED BY <1>1, <2>1
<1>3. CASE \E kind \in EventKinds : Delivered!DispatchEvent(kind)
  <2>1. PICK kind \in EventKinds : Delivered!DispatchEvent(kind)
    BY <1>3
  <2>2. /\ dispatched + 1 \in Delivered!EventIds
        /\ Grown(deliveries, deliveries', dispatched + 1, Len(subs))
    BY <2>1, DispatchEventTrue
  <2>3. \A s \in Subscribers : \A i \in DOMAIN deliveries[s] : deliveries[s][i].event_id # dispatched + 1
    <3> SUFFICES ASSUME NEW s \in Subscribers, NEW i \in DOMAIN deliveries[s]
                 PROVE  deliveries[s][i].event_id # dispatched + 1
      OBVIOUS
    <3>1. deliveries[s][i].event_id \in Int
      BY BooksAre, PlacesFinite, KeptFields DEF Delivered!EventIds
    <3>2. deliveries[s][i].event_id <= dispatched
      BY BooksAre DEF Owned
    <3> QED BY <3>1, <3>2, BooksAre
  <2>4. ASSUME NEW p \in OutPairs
        PROVE  /\ p[1] = dispatched + 1 => OutStage[p] = "none"
               /\ \/ OutStage'[p] = OutStage[p]
                  \/ p[1] = dispatched + 1 /\ OutStage'[p] = "due"
                  \/ GoneOut(OutStage, OutStage', p)
    BY <1>0, <2>2, <2>3, GrownStages
  <2> QED BY <1>0, <2>2, <2>4, OutboxSteps
<1>4. CASE \E s \in Subscribers, event \in Delivered!EventIds : Delivered!Acknowledge(s, event)
  <2>1. PICK s \in Subscribers, event \in Delivered!EventIds : Delivered!Acknowledge(s, event)
    BY <1>4
  <2>2. PICK i \in DOMAIN deliveries[s], q \in Kept :
          /\ Replaced(deliveries, deliveries', s, i, q)
          /\ q.event_id = deliveries[s][i].event_id
          /\ q.subscription_id = deliveries[s][i].subscription_id
          /\ deliveries[s][i].status = "Delivered" /\ q.status = "Acknowledged"
    BY <2>1, AcknowledgeTrue
  <2>3. \E p \in OutPairs : OutStage[p] = "sent" /\ OutStage' = [OutStage EXCEPT ![p] = "seen"]
    BY <1>0, <2>2, SeenStages
  <2> QED BY <1>0, <2>3, OutboxSteps
<1>5. CASE \E s \in Subscribers, event \in Delivered!EventIds : Delivered!MarkDeliveryFailed(s, event)
  <2>1. PICK s \in Subscribers, event \in Delivered!EventIds : Delivered!MarkDeliveryFailed(s, event)
    BY <1>5
  <2>2. PICK i \in DOMAIN deliveries[s], q \in Kept :
          /\ Replaced(deliveries, deliveries', s, i, q)
          /\ q.event_id = deliveries[s][i].event_id /\ q.status = deliveries[s][i].status
          /\ q.subscription_id = deliveries[s][i].subscription_id
    BY <2>1, MarkFailedTrue
  <2>3. /\ \A t \in Subscribers : DOMAIN deliveries'[t] = DOMAIN deliveries[t]
        /\ \A t \in Subscribers : \A j \in DOMAIN deliveries[t] :
             deliveries'[t][j] = IF t = s /\ j = i THEN q ELSE deliveries[t][j]
    BY <1>0, <2>2, RecordReplaced
  <2>4. Advanced(deliveries, deliveries')
    BY <2>2, <2>3 DEF Advanced
  <2> QED BY <1>1, <2>4
<1>6. CASE \E s \in Subscribers : Delivered!DeliverPending(s) \/ Delivered!FlushBatch(s)
  <2>1. Moved(deliveries, deliveries')
    BY <1>6, DeliverPendingTrue
  <2>2. Advanced(deliveries, deliveries')
    BY <2>1 DEF Moved, Passed, Advanced
  <2> QED BY <1>1, <2>2
<1>7. CASE Governing \/ UNCHANGED promisesVars
  BY <1>2, <1>7 DEF Governing, promisesVars, outbox
<1>8. CASE Delivered!Subscription \/ Delivered!Tick
  BY <1>2, <1>8 DEF Delivered!Subscription, Delivered!Tick, Delivered!CreateSubscription,
       Delivered!UpdatePrefs, Delivered!SetSubscriptionStatus
<1>9. CASE Publishing
  <2>1. Delivered!Next
    BY <1>9 DEF Publishing
  <2> QED BY <1>3, <1>4, <1>5, <1>6, <1>8, <2>1 DEF Delivered!Next
<1> QED BY <1>7, <1>9 DEF PromisesNext

(***************************************************************************)
(* The deliveries implement the abstract outbox, but for what only fairness *)
(* brings about: an event becomes due to the subscriptions it matched, goes *)
(* out to each of them from there, and is acknowledged only when it has.    *)
(***************************************************************************)
THEOREM DeliveriesKeepOutbox == PromisesSpec => Delivered!Out!Safety
<1>1. PromisesInit => Delivered!Out!Init
  <2> SUFFICES ASSUME PromisesInit PROVE Delivered!Out!Init
    OBVIOUS
  <2>1. StagesTrue(OutStage, deliveries)
    BY DeliveryStarts, StagesAre
  <2>2. \A s \in Subscribers : DOMAIN deliveries[s] = {}
    BY DEF PromisesInit, Delivered!Init
  <2>3. \A p \in OutPairs : OutStage[p] = "none"
    BY <2>1, <2>2 DEF StagesTrue
  <2>4. OutStage = [p \in OutPairs |-> "none"]
    BY <2>3 DEF OutStage
  <2> QED BY <2>4 DEF OutStage, OutPairs, Delivered!Out!Init, Delivered!Out!Pairs
<1>2. DeliveryInv => StagesTrue(OutStage, deliveries)
  BY StagesAre
<1>3. DeliveryInv' => StagesTrue(OutStage, deliveries)'
  BY <1>2, PTL
<1>4. DeliveryInv /\ DeliveryInv' /\ [PromisesNext]_promisesVars => [Delivered!Out!Next]_OutStage
  BY <1>2, <1>3, OutboxStep
<1> QED BY <1>1, <1>4, DeliveryInvariant, PTL
      DEF PromisesSpec, Delivered!Out!Safety, OutStage, OutPairs

=============================================================================
