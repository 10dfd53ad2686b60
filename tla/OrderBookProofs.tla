--------------------------- MODULE OrderBookProofs ---------------------------
(***************************************************************************)
(* Theorems about OrderBook, for any people, pairs, prices, amounts and     *)
(* batches, and any number of orders: the two copies of an order agree,     *)
(* each side of the book is its live orders by priority, and every batch    *)
(* fills orders by priority.                                                *)
(***************************************************************************)
EXTENDS OrderBook, TotalsProofs, SequenceTheorems

-----------------------------------------------------------------------------
(* Sequences *)

(* An element is put in at k: those from there on move by one.              *)
LEMMA PutIn ==
  ASSUME NEW S, NEW s \in Seq(S), NEW e \in S, NEW k \in 1..(Len(s) + 1)
  PROVE  LET t == InsertAt(s, k, e) IN
         /\ t \in Seq(S) /\ Len(t) = Len(s) + 1 /\ DOMAIN t = 1..(Len(s) + 1)
         /\ \A i \in 1..(Len(s) + 1) :
              t[i] = IF i < k THEN s[i] ELSE IF i = k THEN e ELSE s[i - 1]
<1> DEFINE n == Len(s)
           head == SubSeq(s, 1, k - 1)
           tail == SubSeq(s, k, n)
           t == (head \o <<e>>) \o tail
<1>1. n \in Nat /\ DOMAIN s = 1..n /\ \A i \in 1..n : s[i] \in S
  BY LenProperties, ElementOfSeq
<1> HIDE DEF n
<1>2. k \in Nat /\ 1 <= k /\ k <= n + 1
  BY <1>1 DEF n
<1>3. head \in Seq(S) /\ Len(head) = k - 1 /\ \A i \in 1..(k - 1) : head[i] = s[i]
  <2>1. \A i \in 1..(k - 1) : s[i] \in S
    BY <1>1, <1>2
  <2>2. /\ head \in Seq(S) /\ Len(head) = IF 1 <= k - 1 THEN k - 1 - 1 + 1 ELSE 0
        /\ \A i \in 1..(k - 1 - 1 + 1) : head[i] = s[1 + i - 1]
    BY <1>2, <2>1, SubSeqProperties
  <2> HIDE DEF head
  <2> QED BY <1>2, <2>2
<1>4. tail \in Seq(S) /\ Len(tail) = n - k + 1 /\ \A i \in 1..(n - k + 1) : tail[i] = s[k + i - 1]
  <2>1. \A i \in k..n : s[i] \in S
    BY <1>1, <1>2
  <2>2. /\ tail \in Seq(S) /\ Len(tail) = IF k <= n THEN n - k + 1 ELSE 0
        /\ \A i \in 1..(n - k + 1) : tail[i] = s[k + i - 1]
    BY <1>1, <1>2, <2>1, SubSeqProperties
  <2> HIDE DEF tail
  <2> QED BY <1>1, <1>2, <2>2
<1> HIDE DEF head, tail
<1>5. <<e>> \in Seq(S) /\ Len(<<e>>) = 1 /\ <<e>>[1] = e
  OBVIOUS
<1>6. /\ head \o <<e>> \in Seq(S) /\ Len(head \o <<e>>) = k
      /\ \A i \in 1..k : (head \o <<e>>)[i] = IF i <= k - 1 THEN head[i] ELSE <<e>>[i - (k - 1)]
  BY <1>2, <1>3, <1>5, ConcatProperties
<1>7. /\ t \in Seq(S) /\ Len(t) = n + 1
      /\ \A i \in 1..(n + 1) : t[i] = IF i <= k THEN (head \o <<e>>)[i] ELSE tail[i - k]
  <2>1. k + (n - k + 1) = n + 1
    BY <1>1, <1>2
  <2>2. /\ t \in Seq(S) /\ Len(t) = k + (n - k + 1)
        /\ \A i \in 1..(k + (n - k + 1)) : t[i] = IF i <= k THEN (head \o <<e>>)[i] ELSE tail[i - k]
    <3> DEFINE front == head \o <<e>>
    <3>1. t = front \o tail /\ front \in Seq(S) /\ Len(front) = k /\ Len(tail) = n - k + 1
      BY <1>4, <1>6
    <3> HIDE DEF t, front
    <3>2. /\ t \in Seq(S) /\ Len(t) = Len(front) + Len(tail)
          /\ \A i \in 1..(Len(front) + Len(tail)) :
               t[i] = IF i <= Len(front) THEN front[i] ELSE tail[i - Len(front)]
      BY <1>4, <3>1, ConcatProperties
    <3> QED BY <3>1, <3>2 DEF front
  <2> HIDE DEF t
  <2> QED BY <2>1, <2>2
<1>8. InsertAt(s, k, e) = t
  BY DEF InsertAt, head, tail, n
<1> HIDE DEF t
<1>9. ASSUME NEW i \in 1..(n + 1)
      PROVE  t[i] = IF i < k THEN s[i] ELSE IF i = k THEN e ELSE s[i - 1]
  <2>1. CASE i < k
    <3>1. i \in 1..k /\ i <= k /\ i <= k - 1 /\ i \in 1..(k - 1)
      BY <1>2, <2>1
    <3> QED BY <1>3, <1>6, <1>7, <2>1, <3>1
  <2>2. CASE i = k
    <3>1. i \in 1..k /\ i <= k /\ ~(i <= k - 1) /\ i - (k - 1) = 1
      BY <1>2, <2>2
    <3> QED BY <1>5, <1>6, <1>7, <2>2, <3>1
  <2>3. CASE i > k
    <3>1. ~(i <= k) /\ i - k \in 1..(n - k + 1) /\ k + (i - k) - 1 = i - 1 /\ ~(i < k) /\ i # k
      BY <1>1, <1>2, <2>3
    <3> QED BY <1>4, <1>7, <3>1
  <2> QED BY <1>2, <2>1, <2>2, <2>3
<1>10. DOMAIN t = 1..(n + 1)
  BY <1>7, LenProperties
<1> QED BY <1>7, <1>8, <1>9, <1>10 DEF n

(* An element is taken out at k: those behind it move by one.               *)
LEMMA TakenOut ==
  ASSUME NEW S, NEW s \in Seq(S), NEW k \in 1..Len(s)
  PROVE  LET t == RemoveAt(s, k) IN
         /\ t \in Seq(S) /\ Len(t) = Len(s) - 1 /\ DOMAIN t = 1..(Len(s) - 1)
         /\ \A i \in 1..(Len(s) - 1) : t[i] = IF i < k THEN s[i] ELSE s[i + 1]
<1> DEFINE n == Len(s)
           head == SubSeq(s, 1, k - 1)
           tail == SubSeq(s, k + 1, n)
           t == head \o tail
<1>1. n \in Nat /\ DOMAIN s = 1..n /\ \A i \in 1..n : s[i] \in S
  BY LenProperties, ElementOfSeq
<1> HIDE DEF n
<1>2. k \in Nat /\ 1 <= k /\ k <= n
  BY <1>1 DEF n
<1>3. head \in Seq(S) /\ Len(head) = k - 1 /\ \A i \in 1..(k - 1) : head[i] = s[i]
  <2>1. \A i \in 1..(k - 1) : s[i] \in S
    BY <1>1, <1>2
  <2>2. /\ head \in Seq(S) /\ Len(head) = IF 1 <= k - 1 THEN k - 1 - 1 + 1 ELSE 0
        /\ \A i \in 1..(k - 1 - 1 + 1) : head[i] = s[1 + i - 1]
    BY <1>2, <2>1, SubSeqProperties
  <2> HIDE DEF head
  <2> QED BY <1>2, <2>2
<1>4. tail \in Seq(S) /\ Len(tail) = n - k /\ \A i \in 1..(n - k) : tail[i] = s[k + i]
  <2>1. \A i \in (k + 1)..n : s[i] \in S
    BY <1>1, <1>2
  <2>2. /\ tail \in Seq(S) /\ Len(tail) = IF k + 1 <= n THEN n - (k + 1) + 1 ELSE 0
        /\ \A i \in 1..(n - (k + 1) + 1) : tail[i] = s[(k + 1) + i - 1]
    BY <1>1, <1>2, <2>1, SubSeqProperties
  <2> HIDE DEF tail
  <2>3. n - (k + 1) + 1 = n - k /\ (~(k + 1 <= n) => n - k = 0)
    BY <1>1, <1>2
  <2>4. \A i \in 1..(n - k) : (k + 1) + i - 1 = k + i
    BY <1>1, <1>2
  <2> QED BY <2>2, <2>3, <2>4
<1> HIDE DEF head, tail
<1>5. /\ t \in Seq(S) /\ Len(t) = n - 1
      /\ \A i \in 1..(n - 1) : t[i] = IF i <= k - 1 THEN head[i] ELSE tail[i - (k - 1)]
  <2>1. (k - 1) + (n - k) = n - 1
    BY <1>1, <1>2
  <2>2. /\ t \in Seq(S) /\ Len(t) = Len(head) + Len(tail)
        /\ \A i \in 1..(Len(head) + Len(tail)) :
             t[i] = IF i <= Len(head) THEN head[i] ELSE tail[i - Len(head)]
    BY <1>3, <1>4, ConcatProperties
  <2> QED BY <1>3, <1>4, <2>1, <2>2
<1>6. RemoveAt(s, k) = t
  BY DEF RemoveAt, head, tail, n
<1> HIDE DEF t
<1>7. ASSUME NEW i \in 1..(n - 1) PROVE t[i] = IF i < k THEN s[i] ELSE s[i + 1]
  <2>1. CASE i < k
    <3>1. i <= k - 1 /\ i \in 1..(k - 1)
      BY <1>2, <2>1
    <3> QED BY <1>3, <1>5, <2>1, <3>1
  <2>2. CASE ~(i < k)
    <3>1. ~(i <= k - 1) /\ i - (k - 1) \in 1..(n - k) /\ k + (i - (k - 1)) = i + 1
      BY <1>1, <1>2, <2>2
    <3> QED BY <1>4, <1>5, <2>2, <3>1
  <2> QED BY <2>1, <2>2
<1>8. DOMAIN t = 1..(n - 1)
  BY <1>5, LenProperties
<1> QED BY <1>5, <1>6, <1>7, <1>8 DEF n

(* The first k elements are dropped.                                        *)
LEMMA Dropped ==
  ASSUME NEW S, NEW s \in Seq(S), NEW k \in 0..Len(s)
  PROVE  LET t == SubSeq(s, k + 1, Len(s)) IN
         /\ t \in Seq(S) /\ Len(t) = Len(s) - k /\ DOMAIN t = 1..(Len(s) - k)
         /\ \A i \in 1..(Len(s) - k) : t[i] = s[k + i]
<1> DEFINE n == Len(s)
           t == SubSeq(s, k + 1, n)
<1>1. n \in Nat /\ DOMAIN s = 1..n /\ \A i \in 1..n : s[i] \in S
  BY LenProperties, ElementOfSeq
<1> HIDE DEF n
<1>2. k \in Nat /\ 0 <= k /\ k <= n
  BY <1>1 DEF n
<1>3. \A i \in (k + 1)..n : s[i] \in S
  BY <1>1, <1>2
<1>4. /\ t \in Seq(S) /\ Len(t) = IF k + 1 <= n THEN n - (k + 1) + 1 ELSE 0
      /\ \A i \in 1..(n - (k + 1) + 1) : t[i] = s[(k + 1) + i - 1]
  BY <1>1, <1>2, <1>3, SubSeqProperties
<1> HIDE DEF t
<1>5. n - (k + 1) + 1 = n - k /\ (~(k + 1 <= n) => n - k = 0)
  BY <1>1, <1>2
<1>6. \A i \in 1..(n - k) : (k + 1) + i - 1 = k + i
  BY <1>1, <1>2
<1>7. t \in Seq(S) /\ Len(t) = n - k /\ \A i \in 1..(n - k) : t[i] = s[k + i]
  BY <1>4, <1>5, <1>6
<1>8. DOMAIN t = 1..(n - k)
  BY <1>7, LenProperties
<1> QED BY <1>7, <1>8 DEF t, n

-----------------------------------------------------------------------------
(* Orders and sides *)

Before(side, o, q) ==
  \/ Better(side, o.price, q.price)
  \/ o.price = q.price /\ o.order_id < q.order_id

OrdersSound(ords) ==
  /\ ords \in Seq(Order)
  /\ \A id \in DOMAIN ords :
       /\ ords[id].order_id = id /\ ords[id].price > 0
       /\ ords[id].status \in Live <=> ords[id].remaining > 0

(* A side of the book is the live orders of that side, by priority.         *)
SideSound(ords, s, side) ==
  /\ s \in Seq(Order)
  /\ \A i \in DOMAIN s :
       /\ s[i].order_id \in DOMAIN ords /\ ords[s[i].order_id] = s[i]
       /\ s[i].side = side /\ s[i].remaining > 0
  /\ \A id \in DOMAIN ords : ords[id].side = side /\ ords[id].remaining > 0 =>
       \E i \in DOMAIN s : s[i].order_id = id
  /\ \A i, j \in DOMAIN s : i < j => Before(side, s[i], s[j])

LEMMA OrderFields ==
  ASSUME OrderBookAssumption, NEW o \in Order
  PROVE  /\ o.order_id \in Nat /\ o.price \in Int /\ o.amount \in Int /\ o.remaining \in Nat
         /\ o.side \in Sides
<1>1. /\ o.order_id \in 1..MaxOrders /\ o.price \in Prices /\ o.amount \in Amounts
      /\ o.remaining \in Nat /\ o.side \in Sides
  BY DEF Order
<1>2. Prices \subseteq Int /\ Amounts \subseteq Int /\ MaxOrders \in Nat
  BY DEF OrderBookAssumption
<1>3. o.order_id \in Nat
  BY <1>1, <1>2
<1> QED BY <1>1, <1>2, <1>3

LEMMA BetterOrders ==
  ASSUME NEW side, NEW a \in Int, NEW b \in Int, NEW c \in Int
  PROVE  /\ ~Better(side, a, b) => Better(side, b, a) \/ a = b
         /\ Better(side, a, b) => ~Better(side, b, a) /\ a # b
         /\ Better(side, a, b) /\ Better(side, b, c) => Better(side, a, c)
BY DEF Better

LEMMA Domains ==
  ASSUME NEW S, NEW s \in Seq(S)
  PROVE  Len(s) \in Nat /\ DOMAIN s = 1..Len(s) /\ \A i \in 1..Len(s) : i \in Nat /\ s[i] \in S
BY LenProperties, ElementOfSeq

(* An order is in one place of its side.                                    *)
LEMMA OnePlace ==
  ASSUME OrderBookAssumption, NEW ords, NEW s, NEW side, SideSound(ords, s, side),
         NEW i \in DOMAIN s, NEW j \in DOMAIN s, s[i].order_id = s[j].order_id
  PROVE  i = j
<1>1. s \in Seq(Order) /\ Len(s) \in Nat /\ DOMAIN s = 1..Len(s) /\ \A k \in 1..Len(s) : s[k] \in Order
  BY Domains DEF SideSound
<1>2. /\ s[i].price \in Int /\ s[j].price \in Int
      /\ s[i].order_id \in Int /\ s[j].order_id \in Int /\ s[i] = s[j]
  BY <1>1, OrderFields DEF SideSound
<1>3. ~Before(side, s[i], s[j]) /\ ~Before(side, s[j], s[i])
  BY <1>2, BetterOrders DEF Before
<1> QED BY <1>1, <1>3 DEF SideSound

(* The first of the worse orders, or the place behind the last.             *)
LEMMA PlaceFound ==
  ASSUME NEW n \in Nat, NEW worse \in SUBSET (1..n),
         NEW k, k = IF worse = {} THEN n + 1 ELSE Min(worse)
  PROVE  /\ k \in 1..(n + 1) /\ (k <= n => k \in worse)
         /\ \A i \in 1..n : i < k => i \notin worse
<1>1. CASE worse = {}
  BY <1>1
<1>2. CASE worse # {}
  <2>1. worse \in SUBSET Nat
    OBVIOUS
  <2>2. \E m \in worse : \A j \in worse : m <= j
    BY <1>2, <2>1, LeastNat
  <2>3. k \in worse /\ \A j \in worse : k <= j
    BY <1>2, <2>2 DEF Min
  <2> QED BY <2>3
<1> QED BY <1>1, <1>2

(* insert_order_sorted keeps the side sorted: the new order is the youngest. *)
LEMMA InsertSound ==
  ASSUME OrderBookAssumption, NEW ords, OrdersSound(ords), NEW s, NEW side, SideSound(ords, s, side),
         NEW o \in Order, o.order_id = Len(ords) + 1, o.side = side, o.remaining > 0
  PROVE  SideSound(Append(ords, o), Insert(s, o), side)
<1> DEFINE n == Len(s)
           worse == {i \in DOMAIN s : Better(o.side, o.price, s[i].price)}
           k == IF worse = {} THEN n + 1 ELSE Min(worse)
           t == Insert(s, o)
           more == Append(ords, o)
<1>1. s \in Seq(Order) /\ n \in Nat /\ DOMAIN s = 1..n /\ \A i \in 1..n : s[i] \in Order
  BY Domains DEF SideSound
<1>2. /\ ords \in Seq(Order) /\ Len(ords) \in Nat /\ DOMAIN ords = 1..Len(ords)
      /\ more \in Seq(Order) /\ DOMAIN more = 1..(Len(ords) + 1)
      /\ more[Len(ords) + 1] = o /\ \A id \in 1..Len(ords) : more[id] = ords[id]
  BY Domains, AppendProperties, LenProperties DEF OrdersSound
<1>3. /\ k \in 1..(n + 1) /\ (k <= n => k \in worse) /\ \A i \in 1..n : i < k => i \notin worse
  <2> HIDE DEF n
  <2>1. worse \in SUBSET (1..n)
    BY <1>1
  <2> HIDE DEF worse
  <2> QED BY <1>1, <2>1, PlaceFound
<1>4. t = InsertAt(s, k, o)
  BY DEF Insert
<1>5. /\ \A i \in 1..n : i \in worse <=> Better(side, o.price, s[i].price)
  BY <1>1
<1> HIDE DEF worse, k
<1>6. /\ t \in Seq(Order) /\ DOMAIN t = 1..(n + 1)
      /\ \A i \in 1..(n + 1) : t[i] = IF i < k THEN s[i] ELSE IF i = k THEN o ELSE s[i - 1]
  <2>1. k \in 1..(Len(s) + 1)
    BY <1>3
  <2> DEFINE u == InsertAt(s, k, o)
  <2>2. /\ u \in Seq(Order) /\ DOMAIN u = 1..(Len(s) + 1)
        /\ \A i \in 1..(Len(s) + 1) : u[i] = IF i < k THEN s[i] ELSE IF i = k THEN o ELSE s[i - 1]
    BY <1>1, <2>1, PutIn
  <2>3. t = u
    BY <1>4
  <2> HIDE DEF t, u
  <2> QED BY <2>2, <2>3
<1> HIDE DEF t, n, more
<1>7. /\ k \in Nat /\ k >= 1
      /\ \A i \in 1..(n + 1) : i < k => i \in 1..n
      /\ \A i \in 1..(n + 1) : ~(i < k) /\ i # k => i - 1 \in 1..n /\ i - 1 >= k
  BY <1>1, <1>3
<1>8. \A i \in 1..n : /\ s[i].order_id \in 1..Len(ords) /\ ords[s[i].order_id] = s[i]
                      /\ s[i].side = side /\ s[i].remaining > 0
                      /\ s[i].price \in Int /\ s[i].order_id \in Int
  <2> SUFFICES ASSUME NEW i \in 1..n
               PROVE  /\ s[i].order_id \in 1..Len(ords) /\ ords[s[i].order_id] = s[i]
                      /\ s[i].side = side /\ s[i].remaining > 0
                      /\ s[i].price \in Int /\ s[i].order_id \in Int
    OBVIOUS
  <2>1. s[i] \in Order /\ i \in DOMAIN s
    BY <1>1
  <2>2. s[i].price \in Int /\ s[i].order_id \in Int
    BY <2>1, OrderFields
  <2> QED BY <1>2, <2>1, <2>2 DEF SideSound
<1>9. o.price \in Int /\ o.order_id \in Int
  BY OrderFields
<1>10. ASSUME NEW i \in 1..(n + 1)
       PROVE  /\ t[i].order_id \in DOMAIN more /\ more[t[i].order_id] = t[i]
              /\ t[i].side = side /\ t[i].remaining > 0
  <2>1. CASE i = k
    BY <1>2, <1>6, <1>7, <2>1
  <2>2. ASSUME NEW j \in 1..n, t[i] = s[j]
        PROVE  /\ t[i].order_id \in DOMAIN more /\ more[t[i].order_id] = t[i]
               /\ t[i].side = side /\ t[i].remaining > 0
    BY <1>2, <1>8, <2>2
  <2> QED BY <1>6, <1>7, <2>1, <2>2
<1>11. ASSUME NEW id \in DOMAIN more, more[id].side = side, more[id].remaining > 0
       PROVE  \E i \in 1..(n + 1) : t[i].order_id = id
  <2>1. CASE id = Len(ords) + 1
    BY <1>3, <1>6, <1>7, <2>1
  <2>2. CASE id # Len(ords) + 1
    <3>1. id \in DOMAIN ords /\ ords[id].side = side /\ ords[id].remaining > 0
      BY <1>2, <1>11, <2>2
    <3>2. PICK j \in 1..n : s[j].order_id = id
      BY <1>1, <3>1 DEF SideSound
    <3>3. CASE j < k
      <4>1. j \in 1..(n + 1) /\ t[j] = s[j]
        BY <1>1, <1>6, <3>3
      <4> QED BY <3>2, <4>1
    <3>4. CASE ~(j < k)
      <4>1. j + 1 \in 1..(n + 1) /\ ~(j + 1 < k) /\ j + 1 # k /\ (j + 1) - 1 = j
        BY <1>1, <1>7, <3>4
      <4>2. t[j + 1] = s[j]
        BY <1>6, <4>1
      <4> QED BY <3>2, <4>1, <4>2
    <3> QED BY <3>3, <3>4
  <2> QED BY <2>1, <2>2
<1>12. \A i, j \in 1..n : i < j => Before(side, s[i], s[j])
  BY <1>1 DEF SideSound
<1>13. ASSUME NEW i \in 1..n, i < k PROVE Before(side, s[i], o)
  <2>1. ~Better(side, o.price, s[i].price)
    BY <1>3, <1>5, <1>13
  <2>2. Better(side, s[i].price, o.price) \/ s[i].price = o.price
    BY <1>8, <1>9, <2>1, BetterOrders
  <2>3. s[i].order_id < o.order_id
    BY <1>2, <1>8
  <2> QED BY <2>2, <2>3 DEF Before
<1>14. ASSUME NEW j \in 1..n, j >= k PROVE Before(side, o, s[j])
  <2>1. k \in 1..n /\ Better(side, o.price, s[k].price)
    BY <1>1, <1>3, <1>5, <1>7, <1>14
  <2>2. j = k \/ Before(side, s[k], s[j])
    BY <1>7, <1>12, <1>14, <2>1
  <2>3. j = k \/ Better(side, s[k].price, s[j].price) \/ s[k].price = s[j].price
    BY <2>2 DEF Before
  <2>4. Better(side, o.price, s[j].price)
    BY <1>8, <1>9, <2>1, <2>3, BetterOrders
  <2> QED BY <2>4 DEF Before
<1>15. ASSUME NEW i \in 1..(n + 1), NEW j \in 1..(n + 1), i < j
       PROVE  Before(side, t[i], t[j])
  <2>1. CASE j < k
    <3>1. i \in 1..n /\ j \in 1..n /\ t[i] = s[i] /\ t[j] = s[j]
      BY <1>6, <1>7, <1>15, <2>1
    <3> QED BY <1>12, <1>15, <3>1
  <2>2. CASE j = k
    <3>1. i < k /\ i \in 1..n /\ t[i] = s[i] /\ t[j] = o
      BY <1>6, <1>7, <1>15, <2>2
    <3> QED BY <1>13, <3>1
  <2>3. CASE ~(j < k) /\ j # k
    <3>1. j - 1 \in 1..n /\ j - 1 >= k /\ t[j] = s[j - 1]
      BY <1>6, <1>7, <2>3
    <3>2. CASE i = k
      BY <1>6, <1>14, <3>1, <3>2
    <3>3. CASE i < k
      <4>1. i \in 1..n /\ t[i] = s[i] /\ i < j - 1
        BY <1>6, <1>7, <3>1, <3>3
      <4> QED BY <1>12, <3>1, <4>1
    <3>4. CASE ~(i < k) /\ i # k
      <4>1. i - 1 \in 1..n /\ t[i] = s[i - 1] /\ i - 1 < j - 1
        BY <1>6, <1>7, <1>15, <3>4
      <4> QED BY <1>12, <3>1, <4>1
    <3> QED BY <1>7, <3>2, <3>3, <3>4
  <2> QED BY <1>7, <2>1, <2>2, <2>3
<1>16. SideSound(more, t, side)
  BY <1>6, <1>10, <1>11, <1>15 DEF SideSound
<1> QED BY <1>16 DEF more, t

(* The other side has nothing to do with a new order.                       *)
LEMMA OtherSide ==
  ASSUME NEW ords, OrdersSound(ords), NEW s, NEW side, SideSound(ords, s, side),
         NEW o \in Order, o.side # side
  PROVE  SideSound(Append(ords, o), s, side)
<1> DEFINE more == Append(ords, o)
<1>1. /\ ords \in Seq(Order) /\ Len(ords) \in Nat /\ DOMAIN ords = 1..Len(ords)
      /\ more \in Seq(Order) /\ DOMAIN more = 1..(Len(ords) + 1)
      /\ more[Len(ords) + 1] = o /\ \A id \in 1..Len(ords) : more[id] = ords[id]
  BY Domains, AppendProperties, LenProperties DEF OrdersSound
<1> HIDE DEF more
<1>2. \A i \in DOMAIN s : s[i].order_id \in DOMAIN more /\ more[s[i].order_id] = s[i]
  BY <1>1 DEF SideSound
<1>3. ASSUME NEW id \in DOMAIN more, more[id].side = side, more[id].remaining > 0
      PROVE  id \in DOMAIN ords /\ ords[id].side = side /\ ords[id].remaining > 0
  BY <1>1, <1>3
<1>4. SideSound(more, s, side)
  BY <1>2, <1>3 DEF SideSound
<1> QED BY <1>4 DEF more

-----------------------------------------------------------------------------
(* Cancelling *)

Struck(o) == [o EXCEPT !.status = "Cancelled", !.remaining = 0]
Without(ords, id) == [ords EXCEPT ![id] = Struck(@)]

LEMMA StruckIs ==
  ASSUME NEW o \in Order
  PROVE  /\ Struck(o) \in Order /\ Struck(o).order_id = o.order_id /\ Struck(o).price = o.price
         /\ Struck(o).side = o.side /\ Struck(o).status = "Cancelled" /\ Struck(o).remaining = 0
BY DEF Struck, Order

LEMMA WithoutIs ==
  ASSUME NEW ords, OrdersSound(ords), NEW id \in DOMAIN ords
  PROVE  /\ OrdersSound(Without(ords, id)) /\ DOMAIN Without(ords, id) = DOMAIN ords
         /\ Without(ords, id)[id] = Struck(ords[id])
         /\ \A a \in DOMAIN ords : a # id => Without(ords, id)[a] = ords[a]
<1> DEFINE less == Without(ords, id)
<1>1. ords \in Seq(Order) /\ Len(ords) \in Nat /\ DOMAIN ords = 1..Len(ords)
  BY Domains DEF OrdersSound
<1>2. ords[id] \in Order /\ Struck(ords[id]) \in Order
  BY <1>1, Domains, StruckIs
<1>3. less = [ords EXCEPT ![id] = Struck(ords[id])]
  BY DEF Without
<1>4. /\ less \in Seq(Order) /\ DOMAIN less = DOMAIN ords
      /\ less[id] = Struck(ords[id]) /\ \A a \in DOMAIN ords : a # id => less[a] = ords[a]
  <2> DEFINE o == Struck(ords[id])
             u == [ords EXCEPT ![id] = o]
  <2>1. o \in Order
    BY <1>2
  <2> HIDE DEF o
  <2>2. /\ u \in Seq(Order) /\ DOMAIN u = DOMAIN ords
        /\ u[id] = o /\ \A a \in DOMAIN ords : a # id => u[a] = ords[a]
    BY <1>1, <2>1, ExceptSeq
  <2> QED BY <1>3, <2>2 DEF o
<1> HIDE DEF less
<1>5. ASSUME NEW a \in DOMAIN less
      PROVE  less[a].order_id = a /\ less[a].price > 0 /\ (less[a].status \in Live <=> less[a].remaining > 0)
  <2>1. CASE a = id
    BY <1>2, <1>4, <2>1, StruckIs DEF OrdersSound, Live
  <2>2. CASE a # id
    BY <1>4, <2>2 DEF OrdersSound
  <2> QED BY <2>1, <2>2
<1>6. OrdersSound(less)
  BY <1>4, <1>5 DEF OrdersSound
<1> QED BY <1>4, <1>6 DEF less

(* remove_order_from_book: its first entry is the only one.                 *)
LEMMA RemoveSound ==
  ASSUME OrderBookAssumption, NEW ords, OrdersSound(ords), NEW s, NEW side, SideSound(ords, s, side),
         NEW id \in DOMAIN ords, ords[id].side = side, ords[id].remaining > 0
  PROVE  SideSound(Without(ords, id), RemoveFromBook(s, id), side)
<1> DEFINE n == Len(s)
           I == {i \in 1..Len(s) : s[i].order_id = id}
           k == Min(I)
           t == RemoveFromBook(s, id)
           less == Without(ords, id)
<1>1. s \in Seq(Order) /\ n \in Nat /\ DOMAIN s = 1..n /\ \A i \in 1..n : s[i] \in Order
  BY Domains DEF SideSound
<1>2. PICK j \in 1..n : s[j].order_id = id
  BY <1>1 DEF SideSound
<1>3. k \in 1..n /\ s[k].order_id = id
  <2>1. I # {} /\ I \in SUBSET Nat
    BY <1>2
  <2>2. \E m \in I : \A i \in I : m <= i
    BY <2>1, LeastNat
  <2>3. k \in I
    <3> HIDE DEF I
    <3> QED BY <2>2 DEF Min
  <2> QED BY <2>3
<1>4. t = RemoveAt(s, k)
  <2>1. \E i \in 1..Len(s) : s[i].order_id = id
    BY <1>2
  <2>2. SelectInSeq(s, LAMBDA c : c.order_id = id) = k
    BY <2>1 DEF SelectInSeq
  <2> QED BY <2>1, <2>2 DEF RemoveFromBook, RemoveFirstMatch
<1> HIDE DEF I, k
<1>5. /\ t \in Seq(Order) /\ DOMAIN t = 1..(n - 1)
      /\ \A i \in 1..(n - 1) : t[i] = IF i < k THEN s[i] ELSE s[i + 1]
  <2> DEFINE u == RemoveAt(s, k)
  <2>1. /\ u \in Seq(Order) /\ DOMAIN u = 1..(Len(s) - 1)
        /\ \A i \in 1..(Len(s) - 1) : u[i] = IF i < k THEN s[i] ELSE s[i + 1]
    BY <1>1, <1>3, TakenOut
  <2> HIDE DEF t, u
  <2>2. t = u
    BY <1>4 DEF u
  <2> QED BY <2>1, <2>2
<1>6. /\ DOMAIN less = DOMAIN ords /\ less[id].remaining = 0
      /\ \A a \in DOMAIN ords : a # id => less[a] = ords[a]
  <2>1. ords[id] \in Order
    BY Domains DEF OrdersSound
  <2> QED BY <2>1, WithoutIs, StruckIs
<1> HIDE DEF t, n, less
<1>7. \A i \in 1..n : i # k => s[i].order_id # id
  BY <1>1, <1>3, OnePlace
<1>8. /\ k \in Nat /\ k >= 1
      /\ \A i \in 1..(n - 1) : i < k => i \in 1..n /\ i # k
      /\ \A i \in 1..(n - 1) : ~(i < k) => i + 1 \in 1..n /\ i + 1 # k /\ i + 1 > k
      /\ \A i \in 1..n : i < k => i \in 1..(n - 1)
      /\ \A i \in 1..n : i > k => i - 1 \in 1..(n - 1) /\ ~(i - 1 < k) /\ (i - 1) + 1 = i
  BY <1>1, <1>3
<1>9. ASSUME NEW i \in 1..(n - 1)
      PROVE  /\ t[i].order_id \in DOMAIN less /\ less[t[i].order_id] = t[i]
             /\ t[i].side = side /\ t[i].remaining > 0
  <2>1. PICK j1 \in 1..n : j1 # k /\ t[i] = s[j1]
    BY <1>5, <1>8
  <2>2. /\ s[j1].order_id \in DOMAIN ords /\ ords[s[j1].order_id] = s[j1]
        /\ s[j1].side = side /\ s[j1].remaining > 0
    BY <1>1 DEF SideSound
  <2>3. s[j1].order_id # id
    BY <1>7, <2>1
  <2> QED BY <1>6, <2>1, <2>2, <2>3
<1>10. ASSUME NEW a \in DOMAIN less, less[a].side = side, less[a].remaining > 0
       PROVE  \E i \in 1..(n - 1) : t[i].order_id = a
  <2>1. a # id /\ a \in DOMAIN ords /\ ords[a].side = side /\ ords[a].remaining > 0
    <3>1. a # id
      BY <1>6, <1>10
    <3> QED BY <1>6, <1>10, <3>1
  <2>2. PICK j1 \in 1..n : s[j1].order_id = a
    BY <1>1, <2>1 DEF SideSound
  <2>3. j1 < k \/ j1 > k
    BY <1>3, <1>8, <2>1, <2>2
  <2>4. CASE j1 < k
    BY <1>5, <1>8, <2>2, <2>4
  <2>5. CASE j1 > k
    <3>1. t[j1 - 1] = s[j1] /\ j1 - 1 \in 1..(n - 1)
      BY <1>5, <1>8, <2>5
    <3> QED BY <2>2, <3>1
  <2> QED BY <2>3, <2>4, <2>5
<1>11. ASSUME NEW i \in 1..(n - 1), NEW j1 \in 1..(n - 1), i < j1
       PROVE  Before(side, t[i], t[j1])
  <2>1. \A a, c \in 1..n : a < c => Before(side, s[a], s[c])
    BY <1>1 DEF SideSound
  <2>2. CASE j1 < k
    <3>1. i < k /\ i \in 1..n /\ j1 \in 1..n
      BY <1>8, <1>11, <2>2
    <3> QED BY <1>5, <1>11, <2>1, <2>2, <3>1
  <2>3. CASE ~(j1 < k) /\ i < k
    <3>1. i \in 1..n /\ j1 + 1 \in 1..n /\ i < j1 + 1
      BY <1>8, <1>11, <2>3
    <3> QED BY <1>5, <2>1, <2>3, <3>1
  <2>4. CASE ~(j1 < k) /\ ~(i < k)
    <3>1. i + 1 \in 1..n /\ j1 + 1 \in 1..n /\ i + 1 < j1 + 1
      BY <1>8, <1>11, <2>4
    <3> QED BY <1>5, <2>1, <2>4, <3>1
  <2> QED BY <2>2, <2>3, <2>4
<1>12. SideSound(less, t, side)
  BY <1>5, <1>9, <1>10, <1>11 DEF SideSound
<1> QED BY <1>12 DEF less, t

LEMMA OtherSideKept ==
  ASSUME NEW ords, OrdersSound(ords), NEW s, NEW side, SideSound(ords, s, side),
         NEW id \in DOMAIN ords, ords[id].side # side
  PROVE  SideSound(Without(ords, id), s, side)
<1> DEFINE less == Without(ords, id)
<1>1. /\ DOMAIN less = DOMAIN ords /\ less[id].side = ords[id].side
      /\ \A a \in DOMAIN ords : a # id => less[a] = ords[a]
  <2>1. ords[id] \in Order
    BY Domains DEF OrdersSound
  <2> QED BY <2>1, WithoutIs, StruckIs
<1> HIDE DEF less
<1>2. \A i \in DOMAIN s : s[i].order_id \in DOMAIN ords /\ ords[s[i].order_id] = s[i] /\ s[i].side = side
  BY DEF SideSound
<1>3. \A i \in DOMAIN s : s[i].order_id # id
  BY <1>2
<1>4. \A i \in DOMAIN s : s[i].order_id \in DOMAIN less /\ less[s[i].order_id] = s[i]
  BY <1>1, <1>2, <1>3
<1>5. ASSUME NEW a \in DOMAIN less, less[a].side = side, less[a].remaining > 0
      PROVE  a \in DOMAIN ords /\ ords[a].side = side /\ ords[a].remaining > 0
  <2>1. a # id
    BY <1>1, <1>5
  <2> QED BY <1>1, <1>5, <2>1
<1>6. SideSound(less, s, side)
  BY <1>4, <1>5 DEF SideSound
<1> QED BY <1>6 DEF less

-----------------------------------------------------------------------------
(* What a taker takes *)

LEMMA Rises ==
  ASSUME NEW n \in Nat, NEW P \in [0..n -> Int], \A i \in 1..n : P[i - 1] <= P[i]
  PROVE  \A i, j \in 0..n : i <= j => P[i] <= P[j]
<1> DEFINE S == {j \in 0..n : \A i \in 0..n : i <= j => P[i] <= P[j]}
<1>1. 0 \in S
  <2>1. \A i \in 0..n : i <= 0 => i = 0
    OBVIOUS
  <2> QED BY <2>1
<1>2. ASSUME NEW j \in 0..n, j < n, j \in S PROVE j + 1 \in S
  <2>1. j + 1 \in 1..n /\ (j + 1) - 1 = j /\ j + 1 \in 0..n
    BY <1>2
  <2>2. P[j] <= P[j + 1] /\ P[j] \in Int /\ P[j + 1] \in Int
    BY <2>1
  <2>3. ASSUME NEW i \in 0..n, i <= j + 1 PROVE P[i] <= P[j + 1]
    <3>1. i <= j \/ i = j + 1
      BY <2>3
    <3>2. P[i] \in Int
      OBVIOUS
    <3>3. i <= j => P[i] <= P[j]
      BY <1>2
    <3> QED BY <2>2, <3>1, <3>2, <3>3
  <2> QED BY <2>1, <2>3
<1>3. 0..n \subseteq S
  <2> HIDE DEF S
  <2> QED BY <1>1, <1>2, CountUp
<1> QED BY <1>3

(* Sums over 1..i. *)
LEMMA SumsUp ==
  ASSUME NEW n \in Nat, NEW f, \A i \in 1..n : f[i] \in Int
  PROVE  /\ Summed(f, 1..0) = 0
         /\ \A i \in 0..n : Summed(f, 1..i) \in Int
         /\ \A i \in 1..n : Summed(f, 1..i) = Summed(f, 1..(i - 1)) + f[i]
<1>1. \A i \in 0..n : IsFiniteSet(1..i) /\ \A j \in 1..i : f[j] \in Int
  <2>1. \A i \in 0..n : 1..i \subseteq 1..n
    OBVIOUS
  <2> QED BY <2>1, FS_Interval
<1>2. \A i \in 0..n : Summed(f, 1..i) = Net(f, 1..i)
  BY <1>1, SummedIsNet
<1>3. Summed(f, 1..0) = 0
  <2>1. \A x \in 1..0 : f[x] = 0
    OBVIOUS
  <2>2. IsFiniteSet(1..0)
    BY FS_Interval
  <2> QED BY <2>1, <2>2, SummedZero
<1>4. ASSUME NEW i \in 1..n
      PROVE  Net(f, 1..i) = f[i] + Net(f, 1..(i - 1)) /\ Net(f, 1..(i - 1)) \in Int
  <2>1. (1..i) \ {i} = 1..(i - 1) /\ i \in 1..i /\ i \in 0..n
    OBVIOUS
  <2>2. IsFiniteSet(1..i) /\ \A j \in 1..i : f[j] \in Int
    BY <1>1, <2>1
  <2>3. Net(f, 1..i) = f[i] + Net(f, (1..i) \ {i}) /\ Net(f, (1..i) \ {i}) \in Int
    BY <2>1, <2>2, NetSplits
  <2> QED BY <2>1, <2>3
<1>5. ASSUME NEW i \in 1..n PROVE Summed(f, 1..i) = Summed(f, 1..(i - 1)) + f[i] /\ Summed(f, 1..i) \in Int
  <2>1. i \in 0..n /\ i - 1 \in 0..n /\ f[i] \in Int
    OBVIOUS
  <2> QED BY <1>2, <1>4, <2>1
<1>6. ASSUME NEW i \in 0..n PROVE Summed(f, 1..i) \in Int
  <2>1. i = 0 \/ i \in 1..n
    OBVIOUS
  <2> QED BY <1>3, <1>5, <2>1
<1> QED BY <1>3, <1>5, <1>6

(* The amounts ahead grow from one order to the next by what it offers.     *)
LEMMA AheadGrows ==
  ASSUME OrderBookAssumption, NEW s \in Seq(Order)
  PROVE  /\ \A i \in 1..Len(s) : Ahead(s, i) \in Nat
         /\ \A i, j \in 1..Len(s) : i < j => Ahead(s, i) + s[i].remaining <= Ahead(s, j)
<1> DEFINE n == Len(s)
           f == [j \in 1..n |-> s[j].remaining]
           Sum(i) == Summed(f, 1..(i - 1))
<1>1. n \in Nat /\ DOMAIN s = 1..n /\ \A i \in 1..n : s[i] \in Order
  BY Domains
<1>2. \A i \in 1..n : f[i] = s[i].remaining /\ f[i] \in Nat
  BY <1>1, OrderFields
<1> HIDE DEF n
<1>3. \A i \in 1..n : Ahead(s, i) = Sum(i)
  <2> SUFFICES ASSUME NEW i \in 1..n PROVE Ahead(s, i) = Sum(i)
    OBVIOUS
  <2> DEFINE D == 1..(i - 1)
             g == [j \in D |-> s[j].remaining]
             R(sum) == [q \in SUBSET D |-> IF q = {} THEN 0 ELSE LET x == CHOOSE x \in q : TRUE IN s[x].remaining + sum[q \ {x}]]
             Q(sum) == [q \in SUBSET D |-> IF q = {} THEN 0 ELSE LET x == CHOOSE x \in q : TRUE IN f[x] + sum[q \ {x}]]
  <2>1. Ahead(s, i) = (CHOOSE sum : sum = R(sum))[D]
    BY DEF Ahead, MapThenSumSet, MapThenFoldSet
  <2>2. Sum(i) = (CHOOSE sum : sum = Q(sum))[D]
    BY DEF Summed
  <2>3. ASSUME NEW sum PROVE R(sum) = Q(sum)
    <3>1. ASSUME NEW q \in SUBSET D, q # {} PROVE f[CHOOSE x \in q : TRUE] = s[CHOOSE x \in q : TRUE].remaining
      <4>1. (CHOOSE x \in q : TRUE) \in D
        BY <3>1
      <4>2. D \subseteq 1..n
        BY <1>1
      <4> QED BY <1>2, <4>1, <4>2
    <3> QED BY <3>1
  <2>4. (CHOOSE sum : sum = R(sum)) = (CHOOSE sum : sum = Q(sum))
    <3> HIDE DEF R, Q
    <3> QED BY <2>3
  <2> QED BY <2>1, <2>2, <2>4
<1> DEFINE P == [i \in 0..n |-> Summed(f, 1..i)]
<1> HIDE DEF f
<1>4. /\ P \in [0..n -> Int] /\ P[0] = 0 /\ \A i \in 1..n : P[i - 1] <= P[i]
      /\ \A i \in 1..n : P[i] = P[i - 1] + f[i]
  <2>1. /\ Summed(f, 1..0) = 0 /\ \A i \in 0..n : Summed(f, 1..i) \in Int
        /\ \A i \in 1..n : Summed(f, 1..i) = Summed(f, 1..(i - 1)) + f[i]
    <3>1. \A i \in 1..n : f[i] \in Int
      BY <1>2
    <3> HIDE DEF Sum, P
    <3> QED BY <1>1, <3>1, SumsUp
  <2>2. 0 \in 0..n /\ \A i \in 1..n : i \in 0..n /\ i - 1 \in 0..n
    BY <1>1
  <2>3. P \in [0..n -> Int] /\ P[0] = 0 /\ \A i \in 1..n : P[i] = P[i - 1] + f[i]
    BY <2>1, <2>2
  <2>4. ASSUME NEW i \in 1..n PROVE P[i - 1] <= P[i]
    <3>1. P[i - 1] \in Int /\ f[i] \in Nat /\ P[i] = P[i - 1] + f[i]
      BY <1>2, <2>2, <2>3
    <3> HIDE DEF P
    <3> QED BY <3>1
  <2> QED BY <2>3, <2>4
<1>5. \A i \in 1..n : i - 1 \in 0..n /\ i \in 0..n /\ Sum(i) = P[i - 1]
  BY <1>1
<1> HIDE DEF P, Sum
<1>6. \A i, j \in 0..n : i <= j => P[i] <= P[j]
  BY <1>1, <1>4, Rises
<1>7. ASSUME NEW i \in 1..n PROVE Ahead(s, i) \in Nat
  <2>1. 0 <= i - 1 /\ 0 \in 0..n
    BY <1>1
  <2>2. P[0] <= P[i - 1] /\ P[i - 1] \in Int
    BY <1>4, <1>5, <1>6, <2>1
  <2> QED BY <1>3, <1>4, <1>5, <2>2
<1>8. ASSUME NEW i \in 1..n, NEW j \in 1..n, i < j PROVE Ahead(s, i) + s[i].remaining <= Ahead(s, j)
  <2>1. i <= j - 1
    BY <1>1, <1>8
  <2>2. P[i] <= P[j - 1] /\ P[i] = P[i - 1] + f[i]
    BY <1>4, <1>5, <1>6, <2>1
  <2> QED BY <1>2, <1>3, <1>5, <2>2
<1> QED BY <1>7, <1>8 DEF n

(* An order gives at most what it has, and something only if those ahead    *)
(* of it give all they have.                                                *)
LEMMA TakenByPriority ==
  ASSUME OrderBookAssumption, NEW s \in Seq(Order), NEW leg \in TradeLeg, leg.amount > 0
  PROVE  LET taken == Taken(s, leg) IN
         /\ DOMAIN taken = DOMAIN s
         /\ \A i \in DOMAIN s : taken[i] \in Nat /\ taken[i] <= s[i].remaining
         /\ \A i, j \in DOMAIN s : i < j /\ taken[j] > 0 => taken[i] = s[i].remaining
<1> DEFINE n == Len(s)
           taken == Taken(s, leg)
           within(i) == \A j \in 1..i : ~Better(leg.side, s[j].price, leg.price)
           wanted(i) == leg.amount - Ahead(s, i)
<1>1. n \in Nat /\ DOMAIN s = 1..n /\ \A i \in 1..n : i \in Nat /\ s[i] \in Order
  BY Domains
<1>2. \A i \in 1..n : s[i].remaining \in Nat
  BY <1>1, OrderFields
<1>3. leg.amount \in Int
  BY DEF TradeLeg
<1>4. /\ \A i \in 1..n : Ahead(s, i) \in Nat
      /\ \A i, j \in 1..n : i < j => Ahead(s, i) + s[i].remaining <= Ahead(s, j)
  BY AheadGrows
<1>5. DOMAIN taken = DOMAIN s /\ \A i \in DOMAIN s : taken[i] =
        IF ~within(i) \/ wanted(i) <= 0 THEN 0
        ELSE IF wanted(i) <= s[i].remaining THEN wanted(i) ELSE s[i].remaining
  BY DEF Taken
<1>6. \A i, j \in 1..n : i < j /\ within(j) => within(i)
  <2> SUFFICES ASSUME NEW i \in 1..n, NEW j \in 1..n, i < j, within(j), NEW k \in 1..i
               PROVE  ~Better(leg.side, s[k].price, leg.price)
    OBVIOUS
  <2>1. k \in 1..j
    BY <1>1
  <2> QED BY <2>1
<1>7. \A i \in 1..n : wanted(i) \in Int
  BY <1>3, <1>4
<1>8. \A i, j \in 1..n : i < j /\ wanted(j) > 0 => wanted(i) > s[i].remaining
  <2> SUFFICES ASSUME NEW i \in 1..n, NEW j \in 1..n, i < j, wanted(j) > 0
               PROVE  wanted(i) > s[i].remaining
    OBVIOUS
  <2>1. /\ Ahead(s, i) \in Nat /\ Ahead(s, j) \in Nat /\ s[i].remaining \in Nat
        /\ Ahead(s, i) + s[i].remaining <= Ahead(s, j)
    BY <1>2, <1>4
  <2> QED BY <1>3, <2>1
<1> HIDE DEF taken, within, wanted, n
<1>9. ASSUME NEW i \in 1..n PROVE taken[i] \in Nat /\ taken[i] <= s[i].remaining
  <2>1. taken[i] = IF ~within(i) \/ wanted(i) <= 0 THEN 0
                   ELSE IF wanted(i) <= s[i].remaining THEN wanted(i) ELSE s[i].remaining
    BY <1>1, <1>5
  <2>2. s[i].remaining \in Nat /\ wanted(i) \in Int
    BY <1>2, <1>7
  <2> QED BY <2>1, <2>2
<1>10. ASSUME NEW i \in 1..n, NEW j \in 1..n, i < j, taken[j] > 0 PROVE taken[i] = s[i].remaining
  <2>1. within(j) /\ wanted(j) > 0
    <3>1. ~(~within(j) \/ wanted(j) <= 0)
      BY <1>1, <1>5, <1>10
    <3> QED BY <1>7, <3>1
  <2>2. within(i) /\ wanted(i) > s[i].remaining
    BY <1>6, <1>8, <1>10, <2>1
  <2>3. ~(wanted(i) <= 0) /\ ~(wanted(i) <= s[i].remaining)
    BY <1>2, <1>7, <2>2
  <2> QED BY <1>1, <1>5, <2>2, <2>3
<1> QED BY <1>1, <1>5, <1>9, <1>10 DEF taken

-----------------------------------------------------------------------------
(* Matching one leg *)

LEMMA AfterIs ==
  ASSUME NEW o \in Order, o.remaining > 0, o.status \in Live, NEW m \in Nat, m <= o.remaining
  PROVE  /\ After(o, m) \in Order /\ After(o, m).order_id = o.order_id /\ After(o, m).price = o.price
         /\ After(o, m).side = o.side /\ After(o, m).remaining = o.remaining - m
         /\ After(o, m).status \in Live <=> After(o, m).remaining > 0
         /\ m = 0 => After(o, m) = o
         /\ m > 0 => After(o, m).status =
              IF After(o, m).remaining = 0 THEN "Filled" ELSE "PartiallyFilled"
<1> DEFINE st == IF m = 0 THEN o.status ELSE IF m = o.remaining THEN "Filled" ELSE "PartiallyFilled"
           q == After(o, m)
<1>1. o.remaining \in Nat /\ o.remaining - m \in Nat
  <2>1. o.remaining \in Nat
    BY DEF Order
  <2> QED BY <2>1
<1>2. st \in {"Active", "PartiallyFilled", "Filled", "Cancelled"}
  BY DEF Order
<1>3. q = [order_id |-> o.order_id, owner |-> o.owner, side |-> o.side, price |-> o.price,
           amount |-> o.amount, remaining |-> o.remaining - m, status |-> st]
  <2>1. o = [order_id |-> o.order_id, owner |-> o.owner, side |-> o.side, price |-> o.price,
             amount |-> o.amount, remaining |-> o.remaining, status |-> o.status]
    BY DEF Order
  <2>2. /\ DOMAIN q = DOMAIN o /\ q.order_id = o.order_id /\ q.owner = o.owner /\ q.side = o.side
        /\ q.price = o.price /\ q.amount = o.amount
    BY <2>1 DEF After
  <2>3. q.remaining = o.remaining - m
    BY <2>1 DEF After
  <2>4. q.status = st
    BY <2>1 DEF After
  <2>5. q = [x \in DOMAIN o |-> q[x]]
    BY DEF After
  <2> HIDE DEF q, st
  <2>6. DOMAIN o = {"order_id", "owner", "side", "price", "amount", "remaining", "status"}
    BY <2>1
  <2> QED BY <2>2, <2>3, <2>4, <2>5, <2>6
<1> HIDE DEF q
<1>4. /\ q.order_id = o.order_id /\ q.price = o.price /\ q.side = o.side
      /\ q.remaining = o.remaining - m /\ q.status = st
  BY <1>3
<1>5. q \in Order
  <2> HIDE DEF st
  <2> QED BY <1>1, <1>2, <1>3 DEF Order
<1>6. m = 0 => q = o
  <2>1. m = 0 => o.remaining - m = o.remaining /\ st = o.status
    BY <1>1
  <2> HIDE DEF st
  <2> QED BY <1>3, <2>1 DEF Order
<1>7. q.status \in Live <=> q.remaining > 0
  BY <1>1, <1>4 DEF Live
<1>8. m > 0 => q.status = IF q.remaining = 0 THEN "Filled" ELSE "PartiallyFilled"
  BY <1>1, <1>4
<1> QED BY <1>4, <1>5, <1>6, <1>7, <1>8 DEF q

(* Each order of the side after the leg. *)
LEMMA AfterAllIs ==
  ASSUME OrderBookAssumption, NEW ords, OrdersSound(ords), NEW s, NEW side, SideSound(ords, s, side),
         NEW leg \in TradeLeg, leg.amount > 0, NEW i \in DOMAIN s
  PROVE  LET q == AfterAll(s, leg)[i]
             m == Taken(s, leg)[i] IN
         /\ q \in Order /\ q.order_id = s[i].order_id /\ q.price = s[i].price /\ q.side = side
         /\ m \in Nat /\ m <= s[i].remaining /\ q.remaining = s[i].remaining - m
         /\ q.status \in Live <=> q.remaining > 0
         /\ m = 0 => q = s[i]
         /\ m > 0 => q.status = IF q.remaining = 0 THEN "Filled" ELSE "PartiallyFilled"
<1> DEFINE m == Taken(s, leg)[i]
<1>1. s \in Seq(Order) /\ s[i] \in Order
  BY Domains DEF SideSound
<1>2. m \in Nat /\ m <= s[i].remaining
  BY <1>1, TakenByPriority
<1>3. s[i].remaining > 0 /\ s[i].side = side /\ s[i].status \in Live
  BY DEF SideSound, OrdersSound
<1>4. AfterAll(s, leg)[i] = After(s[i], m)
  BY DEF AfterAll
<1> HIDE DEF m
<1> QED BY <1>1, <1>2, <1>3, <1>4, AfterIs DEF m

LEMMA OrdersAfterIs ==
  ASSUME OrderBookAssumption, NEW ords, OrdersSound(ords), NEW s, NEW side, SideSound(ords, s, side),
         NEW leg \in TradeLeg, leg.amount > 0
  PROVE  /\ OrdersSound(OrdersAfter(ords, s, leg)) /\ DOMAIN OrdersAfter(ords, s, leg) = DOMAIN ords
         /\ \A i \in DOMAIN s : OrdersAfter(ords, s, leg)[s[i].order_id] = AfterAll(s, leg)[i]
         /\ \A id \in DOMAIN ords : (\A i \in DOMAIN s : s[i].order_id # id) =>
              OrdersAfter(ords, s, leg)[id] = ords[id]
<1> DEFINE new == OrdersAfter(ords, s, leg)
<1>1. ords \in Seq(Order) /\ Len(ords) \in Nat /\ DOMAIN ords = 1..Len(ords)
      /\ \A id \in DOMAIN ords : ords[id] \in Order
  BY Domains DEF OrdersSound
<1>2. DOMAIN new = DOMAIN ords /\ \A id \in DOMAIN ords :
        new[id] = IF Places(s, id) = {} THEN ords[id]
                  ELSE AfterAll(s, leg)[CHOOSE i \in Places(s, id) : TRUE]
  BY DEF OrdersAfter
<1>3. new = [id \in 1..Len(ords) |-> new[id]]
  BY <1>1 DEF OrdersAfter
<1> HIDE DEF new
<1>4. ASSUME NEW i \in DOMAIN s PROVE new[s[i].order_id] = AfterAll(s, leg)[i]
  <2> DEFINE id == s[i].order_id
  <2>1. id \in DOMAIN ords
    BY DEF SideSound
  <2>2. i \in Places(s, id) /\ \A j \in Places(s, id) : j = i
    BY OnePlace DEF Places
  <2>3. Places(s, id) # {} /\ (CHOOSE j \in Places(s, id) : TRUE) = i
    BY <2>2
  <2> HIDE DEF id
  <2>4. new[id] = AfterAll(s, leg)[i]
    BY <1>2, <2>1, <2>3
  <2> QED BY <2>4 DEF id
<1>5. ASSUME NEW id \in DOMAIN ords, \A i \in DOMAIN s : s[i].order_id # id
      PROVE  new[id] = ords[id]
  BY <1>2, <1>5 DEF Places
<1>6. ASSUME NEW id \in DOMAIN ords
      PROVE  /\ new[id] \in Order /\ new[id].order_id = id /\ new[id].price > 0
             /\ new[id].status \in Live <=> new[id].remaining > 0
  <2>1. ords[id] \in Order /\ ords[id].order_id = id /\ ords[id].price > 0
        /\ (ords[id].status \in Live <=> ords[id].remaining > 0)
    BY <1>1 DEF OrdersSound
  <2>2. CASE \A i \in DOMAIN s : s[i].order_id # id
    BY <1>5, <2>1, <2>2
  <2>3. ASSUME NEW i \in DOMAIN s, s[i].order_id = id
        PROVE  /\ new[id] \in Order /\ new[id].order_id = id /\ new[id].price > 0
               /\ new[id].status \in Live <=> new[id].remaining > 0
    <3>1. new[id] = AfterAll(s, leg)[i] /\ s[i] = ords[id]
      BY <1>4, <2>3 DEF SideSound
    <3>2. LET q == AfterAll(s, leg)[i] IN
          /\ q \in Order /\ q.order_id = s[i].order_id /\ q.price = s[i].price
          /\ q.status \in Live <=> q.remaining > 0
      BY AfterAllIs
    <3> QED BY <2>1, <2>3, <3>1, <3>2
  <2> QED BY <2>2, <2>3
<1>7. new \in Seq(Order)
  <2>1. new \in [1..Len(ords) -> Order]
    BY <1>1, <1>3, <1>6
  <2> QED BY <1>1, <2>1, SeqDef
<1>8. OrdersSound(new)
  BY <1>2, <1>6, <1>7 DEF OrdersSound
<1> QED BY <1>2, <1>4, <1>5, <1>8 DEF new

(* A set of numbers with no gaps is 1..k.                                   *)
LEMMA NoGaps ==
  ASSUME NEW n \in Nat, NEW F \in SUBSET (1..n), \A i, j \in 1..n : i < j /\ j \in F => i \in F
  PROVE  Cardinality(F) \in 0..n /\ F = 1..Cardinality(F)
<1> DEFINE T == (1..(n + 1)) \ F
<1>1. T \in SUBSET Nat /\ T # {}
  <2>1. n + 1 \in T
    OBVIOUS
  <2> QED BY <2>1
<1>2. PICK m \in T : \A i \in T : m <= i
  <2> HIDE DEF T
  <2> QED BY <1>1, LeastNat
<1>3. m \in 1..(n + 1) /\ m \notin F
  OBVIOUS
<1>4. \A i \in 1..n : i < m => i \in F
  <2> SUFFICES ASSUME NEW i \in 1..n, i < m, i \notin F PROVE FALSE
    OBVIOUS
  <2>1. i \in T
    OBVIOUS
  <2>2. m <= i /\ m \in Int
    BY <1>2, <1>3, <2>1
  <2> QED BY <2>2
<1>5. \A i \in F : i < m
  <2> SUFFICES ASSUME NEW i \in F, ~(i < m) PROVE FALSE
    OBVIOUS
  <2>1. i \in 1..n /\ m \in Int
    BY <1>3
  <2>2. m < i /\ m \in 1..n
    BY <1>3, <2>1
  <2> QED BY <1>3, <2>1, <2>2
<1>6. F = 1..(m - 1) /\ m - 1 \in 0..n
  <2>1. \A i \in 1..(m - 1) : i \in 1..n /\ i < m
    BY <1>3
  <2>2. \A i \in F : i \in 1..(m - 1)
    BY <1>3, <1>5
  <2>3. F \subseteq 1..(m - 1)
    BY <2>2
  <2>4. 1..(m - 1) \subseteq F
    BY <1>4, <2>1
  <2>5. m - 1 \in 0..n
    BY <1>3
  <2> QED BY <2>3, <2>4, <2>5
<1>7. Cardinality(1..(m - 1)) = m - 1
  BY <1>3, FS_Interval
<1> QED BY <1>6, <1>7

(* The orders a leg fills are the first of the side. *)
LEMMA EmptiedFirst ==
  ASSUME OrderBookAssumption, NEW ords, OrdersSound(ords), NEW s, NEW side, SideSound(ords, s, side),
         NEW leg \in TradeLeg, leg.amount > 0
  PROVE  LET k == Cardinality(Emptied(s, leg)) IN
         k \in 0..Len(s) /\ Emptied(s, leg) = 1..k
<1> DEFINE F == Emptied(s, leg)
<1>1. s \in Seq(Order) /\ Len(s) \in Nat /\ DOMAIN s = 1..Len(s) /\ \A i \in 1..Len(s) : s[i] \in Order
  BY Domains DEF SideSound
<1>2. F \in SUBSET (1..Len(s)) /\ \A i \in 1..Len(s) : i \in F <=> AfterAll(s, leg)[i].remaining = 0
  BY <1>1 DEF Emptied
<1> HIDE DEF F
<1>3. ASSUME NEW i \in 1..Len(s), NEW j \in 1..Len(s), i < j, j \in F PROVE i \in F
  <2>1. /\ AfterAll(s, leg)[i].remaining = s[i].remaining - Taken(s, leg)[i]
        /\ AfterAll(s, leg)[j].remaining = s[j].remaining - Taken(s, leg)[j]
        /\ Taken(s, leg)[j] \in Nat
    BY <1>1, AfterAllIs
  <2>2. s[j].remaining > 0 /\ s[j].remaining \in Nat /\ s[i].remaining \in Nat
    BY <1>1, OrderFields DEF SideSound
  <2>3. Taken(s, leg)[j] > 0
    BY <1>2, <1>3, <2>1, <2>2
  <2>4. Taken(s, leg)[i] = s[i].remaining
    BY <1>1, <1>3, <2>3, TakenByPriority
  <2> QED BY <1>2, <2>1, <2>2, <2>4
<1>4. Cardinality(F) \in 0..Len(s) /\ F = 1..Cardinality(F)
  BY <1>1, <1>2, <1>3, NoGaps
<1> QED BY <1>4 DEF F

(* match_order leaves the side sorted and complete. *)
LEMMA RestSound ==
  ASSUME OrderBookAssumption, NEW ords, OrdersSound(ords), NEW s, NEW side, SideSound(ords, s, side),
         NEW leg \in TradeLeg, leg.amount > 0
  PROVE  SideSound(OrdersAfter(ords, s, leg), RestAfter(s, leg), side)
<1> DEFINE n == Len(s)
           after == AfterAll(s, leg)
           k == Cardinality(Emptied(s, leg))
           t == RestAfter(s, leg)
           new == OrdersAfter(ords, s, leg)
<1>1. s \in Seq(Order) /\ n \in Nat /\ DOMAIN s = 1..n /\ \A i \in 1..n : s[i] \in Order
  BY Domains DEF SideSound
<1>2. \A i \in 1..n : /\ after[i] \in Order /\ after[i].order_id = s[i].order_id
                      /\ after[i].price = s[i].price /\ after[i].side = side
                      /\ after[i].remaining \in Nat
  <2> SUFFICES ASSUME NEW i \in 1..n
               PROVE  /\ after[i] \in Order /\ after[i].order_id = s[i].order_id
                      /\ after[i].price = s[i].price /\ after[i].side = side
                      /\ after[i].remaining \in Nat
    OBVIOUS
  <2>1. /\ after[i] \in Order /\ after[i].order_id = s[i].order_id
        /\ after[i].price = s[i].price /\ after[i].side = side
    BY <1>1, AfterAllIs
  <2> QED BY <2>1, OrderFields
<1>3. after \in Seq(Order) /\ Len(after) = n
  <2>1. after = [i \in 1..n |-> after[i]]
    BY <1>1 DEF AfterAll
  <2> HIDE DEF after
  <2>2. after \in [1..n -> Order]
    BY <1>2, <2>1
  <2>3. after \in Seq(Order)
    BY <1>1, <2>2, SeqDef
  <2> QED BY <1>1, <2>1, <2>3, LenProperties
<1>4. /\ k \in 0..n /\ k \in Nat /\ \A i \in 1..n : after[i].remaining = 0 <=> i <= k
  <2>1. k \in 0..n /\ Emptied(s, leg) = 1..k
    BY EmptiedFirst
  <2>2. \A i \in 1..n : i \in Emptied(s, leg) <=> after[i].remaining = 0
    BY <1>1 DEF Emptied
  <2> HIDE DEF k, after
  <2> QED BY <1>1, <2>1, <2>2
<1>5. /\ DOMAIN new = DOMAIN ords
      /\ \A i \in 1..n : new[s[i].order_id] = after[i]
      /\ \A id \in DOMAIN ords : (\A i \in 1..n : s[i].order_id # id) => new[id] = ords[id]
  BY <1>1, OrdersAfterIs
<1>6. t = SubSeq(after, k + 1, n)
  BY DEF RestAfter
<1> HIDE DEF n, after, k, t, new
<1>7. /\ t \in Seq(Order) /\ DOMAIN t = 1..(n - k) /\ \A i \in 1..(n - k) : t[i] = after[k + i]
  BY <1>3, <1>4, <1>6, Dropped
<1>8. /\ \A i \in 1..(n - k) : k + i \in 1..n /\ ~(k + i <= k)
      /\ \A i \in 1..n : ~(i <= k) => i - k \in 1..(n - k) /\ k + (i - k) = i
  BY <1>1, <1>4
<1>9. ASSUME NEW i \in 1..(n - k)
      PROVE  /\ t[i].order_id \in DOMAIN new /\ new[t[i].order_id] = t[i]
             /\ t[i].side = side /\ t[i].remaining > 0
  <2>1. t[i] = after[k + i] /\ k + i \in 1..n /\ after[k + i].remaining # 0
    BY <1>4, <1>7, <1>8
  <2>2. s[k + i].order_id \in DOMAIN ords
    BY <1>1, <2>1 DEF SideSound
  <2> QED BY <1>2, <1>5, <2>1, <2>2
<1>10. ASSUME NEW id \in DOMAIN new, new[id].side = side, new[id].remaining > 0
       PROVE  \E i \in 1..(n - k) : t[i].order_id = id
  <2>1. \E j \in 1..n : s[j].order_id = id
    <3>1. CASE \A i \in 1..n : s[i].order_id # id
      <4>1. id \in DOMAIN ords /\ ords[id].side = side /\ ords[id].remaining > 0
        BY <1>5, <1>10, <3>1
      <4> QED BY <1>1, <4>1 DEF SideSound
    <3> QED BY <3>1
  <2>2. PICK j \in 1..n : s[j].order_id = id
    BY <2>1
  <2>3. new[id] = after[j] /\ ~(j <= k)
    <3>1. new[id] = after[j]
      BY <1>5, <2>2
    <3>2. after[j].remaining # 0
      BY <1>2, <1>10, <3>1
    <3> QED BY <1>4, <3>1, <3>2
  <2>4. t[j - k] = after[j] /\ j - k \in 1..(n - k)
    BY <1>7, <1>8, <2>3
  <2> QED BY <1>2, <2>2, <2>4
<1>11. ASSUME NEW i \in 1..(n - k), NEW j \in 1..(n - k), i < j
       PROVE  Before(side, t[i], t[j])
  <2>1. k + i \in 1..n /\ k + j \in 1..n /\ k + i < k + j
    BY <1>4, <1>8, <1>11
  <2>2. Before(side, s[k + i], s[k + j])
    BY <1>1, <2>1 DEF SideSound
  <2> QED BY <1>2, <1>7, <2>1, <2>2 DEF Before
<1>12. SideSound(new, t, side)
  BY <1>7, <1>9, <1>10, <1>11 DEF SideSound
<1> QED BY <1>12 DEF new, t

(* and has nothing to do with the other side. *)
LEMMA OtherSideRests ==
  ASSUME OrderBookAssumption, NEW ords, OrdersSound(ords), NEW s, NEW side, SideSound(ords, s, side),
         NEW leg \in TradeLeg, leg.amount > 0, NEW u, NEW other, SideSound(ords, u, other), other # side
  PROVE  SideSound(OrdersAfter(ords, s, leg), u, other)
<1> DEFINE new == OrdersAfter(ords, s, leg)
<1>1. /\ DOMAIN new = DOMAIN ords
      /\ \A i \in DOMAIN s : new[s[i].order_id] = AfterAll(s, leg)[i]
      /\ \A id \in DOMAIN ords : (\A i \in DOMAIN s : s[i].order_id # id) => new[id] = ords[id]
  BY OrdersAfterIs
<1>2. \A i \in DOMAIN s : AfterAll(s, leg)[i].side = side
  BY AfterAllIs
<1> HIDE DEF new
<1>3. ASSUME NEW id \in DOMAIN ords
      PROVE  /\ new[id].side = side => ords[id].side = side
             /\ ords[id].side # side => new[id] = ords[id]
  <2>1. CASE \A i \in DOMAIN s : s[i].order_id # id
    BY <1>1, <2>1
  <2>2. CASE \E i \in DOMAIN s : s[i].order_id = id
    <3>1. PICK i \in DOMAIN s : s[i].order_id = id
      BY <2>2
    <3>2. ords[id] = s[i] /\ s[i].side = side
      BY <3>1 DEF SideSound
    <3> QED BY <3>2
  <2> QED BY <2>1, <2>2
<1>4. ASSUME NEW id \in DOMAIN ords, new[id].side = other PROVE new[id] = ords[id]
  <2>1. CASE \A i \in DOMAIN s : s[i].order_id # id
    BY <1>1, <2>1
  <2>2. CASE \E i \in DOMAIN s : s[i].order_id = id
    <3>1. PICK i \in DOMAIN s : s[i].order_id = id
      BY <2>2
    <3>2. new[id].side = side
      BY <1>1, <1>2, <3>1
    <3> QED BY <1>4, <3>2
  <2> QED BY <2>1, <2>2
<1>5. \A i \in DOMAIN u : /\ u[i].order_id \in DOMAIN ords /\ ords[u[i].order_id] = u[i]
                          /\ u[i].side = other /\ u[i].remaining > 0
  BY DEF SideSound
<1>6. \A i \in DOMAIN u : new[u[i].order_id] = u[i]
  BY <1>3, <1>5
<1>7. SideSound(new, u, other)
  BY <1>1, <1>4, <1>5, <1>6 DEF SideSound
<1> QED BY <1>7 DEF new

-----------------------------------------------------------------------------
(* What was filled since some earlier orders *)

AheadOf(ords, a, c) ==
  /\ ords[a].side = ords[c].side /\ ords[a].remaining > 0
  /\ \/ Better(ords[a].side, ords[a].price, ords[c].price)
     \/ ords[a].price = ords[c].price /\ a < c

(* An order as it was, or with less of it left.                             *)
Drawn(o, q) ==
  /\ q.side = o.side /\ q.price = o.price
  /\ \/ q = o
     \/ /\ q.remaining < o.remaining
        /\ q.status = IF q.remaining = 0 THEN "Filled" ELSE "PartiallyFilled"

ByPriority(old, new) ==
  /\ DOMAIN new = DOMAIN old
  /\ \A id \in DOMAIN old : Drawn(old[id], new[id])
  /\ \A a, c \in DOMAIN old :
       new[c].remaining < old[c].remaining /\ AheadOf(old, a, c) => new[a].remaining = 0

LEMMA PriorityStarts ==
  ASSUME OrderBookAssumption, NEW ords, OrdersSound(ords)
  PROVE  ByPriority(ords, ords)
<1>1. \A id \in DOMAIN ords : ords[id].remaining \in Int
  BY Domains, OrderFields DEF OrdersSound
<1> QED BY <1>1 DEF ByPriority, Drawn

(* A leg draws on what those before it left.                                *)
LEMMA PriorityKept ==
  ASSUME OrderBookAssumption, NEW old, OrdersSound(old), NEW ords, OrdersSound(ords),
         ByPriority(old, ords), NEW s, NEW side, SideSound(ords, s, side),
         NEW leg \in TradeLeg, leg.amount > 0
  PROVE  ByPriority(old, OrdersAfter(ords, s, leg))
<1> DEFINE new == OrdersAfter(ords, s, leg)
           after == AfterAll(s, leg)
           taken == Taken(s, leg)
<1>1. /\ DOMAIN new = DOMAIN ords /\ DOMAIN ords = DOMAIN old /\ OrdersSound(new)
      /\ \A i \in DOMAIN s : new[s[i].order_id] = after[i]
      /\ \A id \in DOMAIN ords : (\A i \in DOMAIN s : s[i].order_id # id) => new[id] = ords[id]
  BY OrdersAfterIs DEF ByPriority
<1>2. \A id \in DOMAIN old :
        /\ old[id].remaining \in Nat /\ ords[id].remaining \in Nat /\ new[id].remaining \in Nat
        /\ old[id].price \in Int /\ id \in Int /\ old[id].side = ords[id].side /\ old[id].price = ords[id].price
  <2> SUFFICES ASSUME NEW id \in DOMAIN old
               PROVE  /\ old[id].remaining \in Nat /\ ords[id].remaining \in Nat /\ new[id].remaining \in Nat
                      /\ old[id].price \in Int /\ id \in Int
                      /\ old[id].side = ords[id].side /\ old[id].price = ords[id].price
    OBVIOUS
  <2>1. old[id] \in Order /\ ords[id] \in Order /\ new[id] \in Order /\ id \in Int
    BY <1>1, Domains DEF OrdersSound
  <2> HIDE DEF new
  <2> QED BY <2>1, OrderFields DEF ByPriority, Drawn
<1>3. s \in Seq(Order) /\ DOMAIN s = 1..Len(s) /\ Len(s) \in Nat
  BY Domains DEF SideSound
<1>4. \A i \in DOMAIN s : /\ s[i].order_id \in DOMAIN ords /\ ords[s[i].order_id] = s[i]
                          /\ s[i].side = side /\ s[i].remaining > 0
  BY DEF SideSound
<1>5. ASSUME NEW i \in DOMAIN s
      PROVE  /\ after[i].price = s[i].price /\ after[i].side = s[i].side
             /\ taken[i] \in Nat /\ taken[i] <= s[i].remaining
             /\ after[i].remaining = s[i].remaining - taken[i]
             /\ taken[i] = 0 => after[i] = s[i]
             /\ taken[i] > 0 =>
                  after[i].status = IF after[i].remaining = 0 THEN "Filled" ELSE "PartiallyFilled"
  BY <1>4, AfterAllIs
<1>6. \A i, j \in DOMAIN s : i < j /\ taken[j] > 0 => taken[i] = s[i].remaining
  BY <1>3, TakenByPriority
<1> HIDE DEF new, after, taken
<1>7. ASSUME NEW id \in DOMAIN old PROVE Drawn(old[id], new[id]) /\ new[id].remaining <= ords[id].remaining
  <2>1. CASE \A i \in DOMAIN s : s[i].order_id # id
    BY <1>1, <1>2, <2>1 DEF ByPriority
  <2>2. ASSUME NEW i \in DOMAIN s, s[i].order_id = id
        PROVE  Drawn(old[id], new[id]) /\ new[id].remaining <= ords[id].remaining
    <3>1. new[id] = after[i] /\ ords[id] = s[i] /\ Drawn(old[id], ords[id])
      BY <1>1, <1>4, <2>2 DEF ByPriority
    <3>2. after[i].side = old[id].side /\ after[i].price = old[id].price
      BY <1>5, <3>1 DEF Drawn
    <3>3. ords[id].remaining <= old[id].remaining
      BY <1>2, <3>1 DEF Drawn
    <3>4. CASE taken[i] = 0
      BY <1>2, <1>5, <3>1, <3>4
    <3>5. CASE taken[i] > 0
      <4>1. after[i].remaining < old[id].remaining /\ after[i].remaining <= ords[id].remaining
        BY <1>2, <1>5, <3>1, <3>3, <3>5
      <4>2. after[i].status = IF after[i].remaining = 0 THEN "Filled" ELSE "PartiallyFilled"
        BY <1>5, <3>5
      <4> QED BY <3>1, <3>2, <4>1, <4>2 DEF Drawn
    <3> QED BY <1>5, <3>4, <3>5
  <2> QED BY <2>1, <2>2
<1>8. ASSUME NEW a \in DOMAIN old, NEW c \in DOMAIN old,
             new[c].remaining < old[c].remaining, AheadOf(old, a, c)
      PROVE  new[a].remaining = 0
  <2>1. CASE ords[c].remaining < old[c].remaining
    <3>1. ords[a].remaining = 0
      BY <1>8, <2>1 DEF ByPriority
    <3> QED BY <1>2, <1>7, <3>1
  <2>2. CASE ords[a].remaining = 0
    BY <1>2, <1>7, <2>2
  <2>3. CASE ~(ords[c].remaining < old[c].remaining) /\ ords[a].remaining # 0
    <3>1. new[c] # ords[c]
      BY <1>8, <2>3
    <3>2. PICK j \in DOMAIN s : s[j].order_id = c
      BY <1>1, <3>1
    <3>3. ords[c] = s[j] /\ new[c] = after[j]
      BY <1>1, <1>4, <3>2
    <3>4. taken[j] > 0
      BY <1>5, <3>1, <3>3
    <3>5. ords[a].side = side /\ ords[a].remaining > 0 /\ a \in DOMAIN ords
      BY <1>1, <1>2, <1>4, <1>8, <2>3, <3>3 DEF AheadOf
    <3>6. PICK i \in DOMAIN s : s[i].order_id = a
      BY <3>5 DEF SideSound
    <3>7. ords[a] = s[i] /\ new[a] = after[i]
      BY <1>1, <1>4, <3>6
    <3>8. i < j
      <4>1. i # j
        BY <1>2, <1>8, <3>2, <3>6, BetterOrders DEF AheadOf
      <4>2. ASSUME j < i PROVE FALSE
        <5>1. Before(side, s[j], s[i])
          BY <4>2 DEF SideSound
        <5>2. \/ Better(side, old[c].price, old[a].price)
              \/ old[c].price = old[a].price /\ c < a
          BY <1>2, <3>2, <3>3, <3>6, <3>7, <5>1 DEF Before
        <5>3. \/ Better(side, old[a].price, old[c].price)
              \/ old[a].price = old[c].price /\ a < c
          BY <1>2, <1>8, <3>5 DEF AheadOf
        <5> QED BY <1>2, <5>2, <5>3, BetterOrders
      <4> QED BY <1>3, <4>1, <4>2
    <3>9. taken[i] = s[i].remaining
      BY <1>6, <3>4, <3>8
    <3>10. s[i].remaining \in Nat
      BY <1>2, <3>7
    <3> QED BY <1>5, <3>7, <3>9, <3>10
  <2> QED BY <2>1, <2>2, <2>3
<1>9. ByPriority(old, new)
  BY <1>1, <1>7, <1>8 DEF ByPriority
<1> QED BY <1>9 DEF new

-----------------------------------------------------------------------------
(* What the fills are worth *)

LEMMA Product == ASSUME NEW m \in Nat, NEW c \in Int, c > 0 PROVE m * c \in Nat /\ 0 * c = 0
OBVIOUS

LEMMA Distributes == ASSUME NEW a \in Int, NEW c \in Int, NEW q \in Int PROVE (a + c) * q = a * q + c * q
OBVIOUS

LEMMA SummedTotal ==
  ASSUME NEW S, IsFiniteSet(S), NEW f \in [S -> Nat]
  PROVE  Summed(f, S) = Total(f) /\ Total(f) \in Nat
<1>1. \A x \in S : f[x] \in Int
  OBVIOUS
<1>2. Summed(f, S) = Net(f, S)
  BY <1>1, SummedIsNet
<1>3. Above(f, S) = f
  <2>1. f = [x \in S |-> f[x]] /\ \A x \in S : (IF f[x] > 0 THEN f[x] ELSE 0) = f[x]
    OBVIOUS
  <2> QED BY <2>1 DEF Above
<1>4. Below(f, S) \in [S -> Nat] /\ \A x \in S : Below(f, S)[x] = 0
  BY DEF Below
<1>5. Total(Below(f, S)) = 0
  BY <1>4, TotalZero
<1>6. Total(f) \in Nat
  BY UnitsFinite
<1> QED BY <1>2, <1>3, <1>5, <1>6 DEF Net

Worth(s, leg) == [i \in DOMAIN s |-> Taken(s, leg)[i] * s[i].price]
Gain(old, new) == [id \in DOMAIN old |-> (old[id].remaining - new[id].remaining) * old[id].price]

LEMMA TradedIs == ASSUME NEW s, NEW leg PROVE Traded(s, leg) = Summed(Worth(s, leg), DOMAIN s)
<1> DEFINE D == DOMAIN s
           w == Worth(s, leg)
           R(sum) == [q \in SUBSET D |-> IF q = {} THEN 0 ELSE
                        LET x == CHOOSE x \in q : TRUE IN (Taken(s, leg)[x] * s[x].price) + sum[q \ {x}]]
           Q(sum) == [q \in SUBSET D |-> IF q = {} THEN 0 ELSE
                        LET x == CHOOSE x \in q : TRUE IN w[x] + sum[q \ {x}]]
<1>1. Traded(s, leg) = (CHOOSE sum : sum = R(sum))[D]
  BY DEF Traded, MapThenSumSet, MapThenFoldSet
<1>2. Summed(w, D) = (CHOOSE sum : sum = Q(sum))[D]
  BY DEF Summed
<1>3. ASSUME NEW sum PROVE R(sum) = Q(sum)
  <2>1. ASSUME NEW q \in SUBSET D, q # {}
        PROVE  w[CHOOSE x \in q : TRUE] = Taken(s, leg)[CHOOSE x \in q : TRUE] * s[CHOOSE x \in q : TRUE].price
    <3>1. (CHOOSE x \in q : TRUE) \in D
      BY <2>1
    <3> QED BY <3>1 DEF Worth
  <2> QED BY <2>1
<1>4. (CHOOSE sum : sum = R(sum)) = (CHOOSE sum : sum = Q(sum))
  <2> HIDE DEF R, Q
  <2> QED BY <1>3
<1> QED BY <1>1, <1>2, <1>4

(* The orders that give are those of the side, each once.                   *)
LEMMA GainGrows ==
  ASSUME OrderBookAssumption, NEW old, OrdersSound(old), NEW ords, OrdersSound(ords),
         ByPriority(old, ords), NEW s, NEW side, SideSound(ords, s, side),
         NEW leg \in TradeLeg, leg.amount > 0
  PROVE  /\ Summed(Gain(old, OrdersAfter(ords, s, leg)), DOMAIN old)
              = Summed(Gain(old, ords), DOMAIN old) + Traded(s, leg)
         /\ Traded(s, leg) \in Nat /\ Summed(Gain(old, ords), DOMAIN old) \in Nat
<1> DEFINE D == DOMAIN old
           new == OrdersAfter(ords, s, leg)
           f == Gain(old, ords)
           h == Gain(old, new)
           g == [id \in D |-> (ords[id].remaining - new[id].remaining) * old[id].price]
           v == Worth(s, leg)
           name == [i \in DOMAIN s |-> s[i].order_id]
<1>1. /\ DOMAIN new = D /\ DOMAIN ords = D /\ OrdersSound(new) /\ ByPriority(old, new)
      /\ \A i \in DOMAIN s : new[s[i].order_id] = AfterAll(s, leg)[i]
      /\ \A id \in D : (\A i \in DOMAIN s : s[i].order_id # id) => new[id] = ords[id]
  BY OrdersAfterIs, PriorityKept DEF ByPriority
<1>2. IsFiniteSet(D) /\ IsFiniteSet(DOMAIN s)
  <2>1. D = 1..Len(old) /\ Len(old) \in Nat /\ DOMAIN s = 1..Len(s) /\ Len(s) \in Nat
    BY Domains DEF OrdersSound, SideSound
  <2> QED BY <2>1, FS_Interval
<1>3. \A i \in DOMAIN s :
        /\ s[i].order_id \in D /\ ords[s[i].order_id] = s[i] /\ s[i].price > 0 /\ s[i].price \in Int
        /\ Taken(s, leg)[i] \in Nat /\ s[i].remaining \in Nat
        /\ AfterAll(s, leg)[i].remaining = s[i].remaining - Taken(s, leg)[i]
  <2> SUFFICES ASSUME NEW i \in DOMAIN s
               PROVE  /\ s[i].order_id \in D /\ ords[s[i].order_id] = s[i] /\ s[i].price > 0 /\ s[i].price \in Int
                      /\ Taken(s, leg)[i] \in Nat /\ s[i].remaining \in Nat
                      /\ AfterAll(s, leg)[i].remaining = s[i].remaining - Taken(s, leg)[i]
    OBVIOUS
  <2>1. s[i].order_id \in D /\ ords[s[i].order_id] = s[i] /\ s[i].price > 0
    BY <1>1 DEF SideSound, OrdersSound
  <2>2. s[i] \in Order
    BY Domains DEF SideSound
  <2>3. Taken(s, leg)[i] \in Nat /\ AfterAll(s, leg)[i].remaining = s[i].remaining - Taken(s, leg)[i]
    BY AfterAllIs
  <2> QED BY <2>1, <2>2, <2>3, OrderFields
<1>4. \A id \in D :
        /\ old[id].remaining \in Nat /\ ords[id].remaining \in Nat /\ new[id].remaining \in Nat
        /\ ords[id].remaining <= old[id].remaining /\ new[id].remaining <= ords[id].remaining
        /\ old[id].price = ords[id].price /\ old[id].price \in Int /\ old[id].price > 0
  <2> SUFFICES ASSUME NEW id \in D
               PROVE  /\ old[id].remaining \in Nat /\ ords[id].remaining \in Nat /\ new[id].remaining \in Nat
                      /\ ords[id].remaining <= old[id].remaining /\ new[id].remaining <= ords[id].remaining
                      /\ old[id].price = ords[id].price /\ old[id].price \in Int /\ old[id].price > 0
    OBVIOUS
  <2>1. old[id] \in Order /\ ords[id] \in Order /\ new[id] \in Order /\ old[id].price > 0
    BY <1>1, Domains DEF OrdersSound
  <2> HIDE DEF new
  <2>2. /\ old[id].remaining \in Nat /\ ords[id].remaining \in Nat /\ new[id].remaining \in Nat
        /\ old[id].price \in Int
    BY <2>1, OrderFields
  <2>3. ords[id].remaining <= old[id].remaining /\ old[id].price = ords[id].price
    BY <2>2 DEF ByPriority, Drawn
  <2>4. new[id].remaining <= ords[id].remaining
    <3>1. CASE \A i \in DOMAIN s : s[i].order_id # id
      BY <1>1, <2>2, <3>1
    <3>2. ASSUME NEW i \in DOMAIN s, s[i].order_id = id PROVE new[id].remaining <= ords[id].remaining
      BY <1>1, <1>3, <2>2, <3>2
    <3> QED BY <3>1, <3>2
  <2> QED BY <2>1, <2>2, <2>3, <2>4
<1> HIDE DEF new
<1>5. f \in [D -> Nat] /\ h \in [D -> Nat] /\ g \in [D -> Nat] /\ v \in [DOMAIN s -> Nat]
  <2>1. ASSUME NEW id \in D
        PROVE  /\ (old[id].remaining - ords[id].remaining) * old[id].price \in Nat
               /\ (old[id].remaining - new[id].remaining) * old[id].price \in Nat
               /\ (ords[id].remaining - new[id].remaining) * old[id].price \in Nat
    <3>1. /\ old[id].remaining - ords[id].remaining \in Nat
          /\ old[id].remaining - new[id].remaining \in Nat
          /\ ords[id].remaining - new[id].remaining \in Nat
      BY <1>4
    <3> QED BY <1>4, <3>1, Product
  <2>2. ASSUME NEW i \in DOMAIN s PROVE Taken(s, leg)[i] * s[i].price \in Nat
    BY <1>3, Product
  <2> QED BY <2>1, <2>2 DEF Gain, Worth
<1>6. \A id \in D : h[id] = f[id] + g[id]
  <2> SUFFICES ASSUME NEW id \in D
               PROVE  (old[id].remaining - new[id].remaining) * old[id].price
                        = (old[id].remaining - ords[id].remaining) * old[id].price
                            + (ords[id].remaining - new[id].remaining) * old[id].price
    BY DEF Gain
  <2> DEFINE x == old[id].remaining - ords[id].remaining
             y == ords[id].remaining - new[id].remaining
             c == old[id].price
  <2>1. x \in Int /\ y \in Int /\ c \in Int /\ old[id].remaining - new[id].remaining = x + y
    BY <1>4
  <2> HIDE DEF x, y, c
  <2>2. (x + y) * c = x * c + y * c
    BY <2>1, Distributes
  <2> QED BY <2>1, <2>2 DEF x, y, c
<1>7. name \in Injection(DOMAIN s, D)
  <2>1. name \in [DOMAIN s -> D]
    BY <1>3
  <2>2. \A i, j \in DOMAIN s : name[i] = name[j] => i = j
    BY OnePlace
  <2> HIDE DEF name, D
  <2> QED BY <2>1, <2>2 DEF Injection, IsInjective
<1>8. \A i \in DOMAIN s : g[name[i]] = v[i]
  <2> SUFFICES ASSUME NEW i \in DOMAIN s
               PROVE  (ords[s[i].order_id].remaining - new[s[i].order_id].remaining) * old[s[i].order_id].price
                        = Taken(s, leg)[i] * s[i].price
    BY <1>3 DEF Worth
  <2>1. ords[s[i].order_id].remaining - new[s[i].order_id].remaining = Taken(s, leg)[i]
    BY <1>1, <1>3
  <2>2. old[s[i].order_id].price = s[i].price
    BY <1>3, <1>4
  <2> QED BY <2>1, <2>2
<1>9. \A id \in D : (\A i \in DOMAIN s : name[i] # id) => g[id] = 0
  <2> SUFFICES ASSUME NEW id \in D, \A i \in DOMAIN s : s[i].order_id # id
               PROVE  (ords[id].remaining - new[id].remaining) * old[id].price = 0
    OBVIOUS
  <2>1. ords[id].remaining - new[id].remaining = 0
    BY <1>1, <1>4
  <2> QED BY <1>4, <2>1, Product
<1> HIDE DEF f, g, h, v, name, D
<1>10. Total(h) = Total(f) + Total(g)
  BY <1>2, <1>5, <1>6, TotalSum
<1>11. Total(g) = Total(v)
  BY <1>2, <1>5, <1>7, <1>8, <1>9, TotalRelabel
<1>12. Traded(s, leg) = Summed(v, DOMAIN s)
  BY TradedIs DEF v
<1>13. /\ Summed(h, D) = Total(h) /\ Summed(f, D) = Total(f) /\ Summed(v, DOMAIN s) = Total(v)
       /\ Total(f) \in Nat /\ Total(v) \in Nat
  BY <1>2, <1>5, SummedTotal
<1> QED BY <1>10, <1>11, <1>12, <1>13 DEF f, h, D, new

-----------------------------------------------------------------------------
(* The legs of a batch *)

Books ==
  [ok : BOOLEAN, order : [PairIds -> Seq(Order)], book : [PairIds -> [Sides -> Seq(Order)]],
   volume : [PairIds -> Nat]]

PairSound(ords, sides) ==
  OrdersSound(ords) /\ \A side \in Sides : SideSound(ords, sides[side], side)

BooksSound(b) == b \in Books /\ \A p \in PairIds : PairSound(b.order[p], b.book[p])

(* What the legs so far did to the books the call began with.               *)
FilledSince(b) ==
  /\ BooksSound(b)
  /\ \A p \in PairIds :
       /\ ByPriority(order[p], b.order[p])
       /\ b.volume[p] - volume[p] = Summed(Gain(order[p], b.order[p]), DOMAIN order[p])

LEMMA MatchIs ==
  ASSUME NEW b \in Books, NEW leg \in TradeLeg
  PROVE  LET p == leg.pair
             opp == Opposite(leg.side)
             s == b.book[p][opp]
             c == Match(b, leg) IN
         /\ p \in PairIds /\ opp \in Sides
         /\ c = [ok |-> b.ok,
                 order |-> [b.order EXCEPT ![p] = OrdersAfter(b.order[p], s, leg)],
                 book |-> [b.book EXCEPT ![p] = [b.book[p] EXCEPT ![opp] = RestAfter(s, leg)]],
                 volume |-> [b.volume EXCEPT ![p] = b.volume[p] + Traded(s, leg)]]
<1> DEFINE p == leg.pair
           opp == Opposite(leg.side)
           s == b.book[p][opp]
           c == Match(b, leg)
<1>1. p \in PairIds /\ opp \in Sides
  BY DEF TradeLeg, Opposite, Sides
<1>2. b = [ok |-> b.ok, order |-> b.order, book |-> b.book, volume |-> b.volume]
      /\ b.order \in [PairIds -> Seq(Order)] /\ b.book \in [PairIds -> [Sides -> Seq(Order)]]
      /\ b.volume \in [PairIds -> Nat]
  BY DEF Books
<1> DEFINE o1 == OrdersAfter(b.order[p], s, leg)
           t1 == RestAfter(s, leg)
           w1 == Traded(s, leg)
<1>3. c = [[[b EXCEPT !.order = [b.order EXCEPT ![p] = o1]]
              EXCEPT !.book = [b.book EXCEPT ![p] = [b.book[p] EXCEPT ![opp] = t1]]]
              EXCEPT !.volume = [b.volume EXCEPT ![p] = b.volume[p] + w1]]
  BY <1>2 DEF Match
<1> HIDE DEF o1, t1, w1, c, s, opp, p
<1>4. c = [ok |-> b.ok, order |-> [b.order EXCEPT ![p] = o1],
           book |-> [b.book EXCEPT ![p] = [b.book[p] EXCEPT ![opp] = t1]],
           volume |-> [b.volume EXCEPT ![p] = b.volume[p] + w1]]
  BY <1>2, <1>3
<1> QED BY <1>1, <1>4 DEF c, s, opp, p, o1, t1, w1

LEMMA MatchFills ==
  ASSUME OrderBookAssumption, BooksSound(Standing), NEW b, FilledSince(b),
         NEW leg \in TradeLeg, leg.amount > 0
  PROVE  FilledSince(Match(b, leg))
<1> DEFINE p == leg.pair
           opp == Opposite(leg.side)
           s == b.book[p][opp]
           c == Match(b, leg)
           o1 == OrdersAfter(b.order[p], s, leg)
           t1 == RestAfter(s, leg)
<1>1. /\ b \in Books /\ p \in PairIds /\ opp \in Sides
      /\ c = [ok |-> b.ok, order |-> [b.order EXCEPT ![p] = o1],
              book |-> [b.book EXCEPT ![p] = [b.book[p] EXCEPT ![opp] = t1]],
              volume |-> [b.volume EXCEPT ![p] = b.volume[p] + Traded(s, leg)]]
  BY MatchIs DEF FilledSince, BooksSound
<1>2. /\ b.ok \in BOOLEAN /\ b.order \in [PairIds -> Seq(Order)]
      /\ b.book \in [PairIds -> [Sides -> Seq(Order)]] /\ b.volume \in [PairIds -> Nat]
  BY <1>1 DEF Books
<1>3. \A q \in PairIds : OrdersSound(order[q]) /\ volume[q] \in Nat
  BY DEF BooksSound, Standing, PairSound, Books
<1>4. /\ OrdersSound(b.order[p]) /\ ByPriority(order[p], b.order[p])
      /\ \A side \in Sides : SideSound(b.order[p], b.book[p][side], side)
      /\ b.volume[p] - volume[p] = Summed(Gain(order[p], b.order[p]), DOMAIN order[p])
  BY <1>1 DEF FilledSince, BooksSound, PairSound
<1>5. OrdersSound(o1)
  BY <1>1, <1>4, OrdersAfterIs
<1>6. SideSound(o1, t1, opp)
  BY <1>1, <1>4, RestSound
<1>7. ASSUME NEW side \in Sides, side # opp PROVE SideSound(o1, b.book[p][side], side)
  BY <1>1, <1>4, <1>7, OtherSideRests
<1>8. ByPriority(order[p], o1)
  BY <1>1, <1>3, <1>4, PriorityKept
<1>9. /\ Summed(Gain(order[p], o1), DOMAIN order[p])
           = Summed(Gain(order[p], b.order[p]), DOMAIN order[p]) + Traded(s, leg)
      /\ Traded(s, leg) \in Nat /\ Summed(Gain(order[p], b.order[p]), DOMAIN order[p]) \in Nat
  BY <1>1, <1>3, <1>4, GainGrows
<1>10. o1 \in Seq(Order) /\ t1 \in Seq(Order)
  BY <1>5, <1>6 DEF OrdersSound, SideSound
<1> HIDE DEF p, opp, s, c, o1, t1
<1>11. /\ c.ok = b.ok /\ c.order = [b.order EXCEPT ![p] = o1]
       /\ c.book = [b.book EXCEPT ![p] = [b.book[p] EXCEPT ![opp] = t1]]
       /\ c.volume = [b.volume EXCEPT ![p] = b.volume[p] + Traded(s, leg)]
  BY <1>1
<1>12. /\ c.order \in [PairIds -> Seq(Order)] /\ c.order[p] = o1
       /\ \A q \in PairIds : q # p => c.order[q] = b.order[q]
  BY <1>1, <1>2, <1>10, <1>11
<1>13. /\ c.book \in [PairIds -> [Sides -> Seq(Order)]] /\ c.book[p][opp] = t1
       /\ \A side \in Sides : side # opp => c.book[p][side] = b.book[p][side]
       /\ \A q \in PairIds : q # p => c.book[q] = b.book[q]
  <2> DEFINE row == [b.book[p] EXCEPT ![opp] = t1]
  <2>1. /\ row \in [Sides -> Seq(Order)] /\ row[opp] = t1
        /\ \A side \in Sides : side # opp => row[side] = b.book[p][side]
    BY <1>1, <1>2, <1>10
  <2> HIDE DEF row
  <2>2. c.book = [b.book EXCEPT ![p] = row]
    BY <1>11 DEF row
  <2> QED BY <1>1, <1>2, <2>1, <2>2
<1>14. /\ c.volume \in [PairIds -> Nat] /\ c.volume[p] = b.volume[p] + Traded(s, leg)
       /\ \A q \in PairIds : q # p => c.volume[q] = b.volume[q]
  BY <1>1, <1>2, <1>9, <1>11
<1>15. c \in Books
  BY <1>1, <1>2, <1>11, <1>12, <1>13, <1>14 DEF Books
<1>16. ASSUME NEW q \in PairIds
       PROVE  /\ PairSound(c.order[q], c.book[q]) /\ ByPriority(order[q], c.order[q])
              /\ c.volume[q] - volume[q] = Summed(Gain(order[q], c.order[q]), DOMAIN order[q])
  <2>1. CASE q # p
    BY <1>12, <1>13, <1>14, <2>1 DEF FilledSince, BooksSound
  <2>2. CASE q = p
    <3>1. PairSound(c.order[p], c.book[p])
      <4>1. ASSUME NEW side \in Sides PROVE SideSound(o1, c.book[p][side], side)
        BY <1>6, <1>7, <1>13
      <4> QED BY <1>5, <1>12, <4>1 DEF PairSound
    <3>2. c.volume[p] - volume[p] = Summed(Gain(order[p], c.order[p]), DOMAIN order[p])
      <4>1. b.volume[p] \in Nat /\ volume[p] \in Nat
        BY <1>1, <1>2, <1>3
      <4>2. c.volume[p] = b.volume[p] + Traded(s, leg) /\ c.order[p] = o1
        BY <1>12, <1>14
      <4> QED BY <1>4, <1>9, <4>1, <4>2
    <3> QED BY <1>8, <1>12, <2>2, <3>1, <3>2
  <2> QED BY <2>1, <2>2
<1>17. FilledSince(c)
  BY <1>15, <1>16 DEF FilledSince, BooksSound
<1> QED BY <1>17 DEF c

OneLeg(b, leg) == IF b.ok /\ Acceptable(b, leg) THEN Match(b, leg) ELSE [b EXCEPT !.ok = FALSE]

LEMMA OneLegFills ==
  ASSUME OrderBookAssumption, BooksSound(Standing), NEW b, FilledSince(b), NEW leg \in TradeLeg
  PROVE  FilledSince(OneLeg(b, leg)) /\ OneLeg(b, leg) \in Books
<1> DEFINE c == OneLeg(b, leg)
<1>1. CASE b.ok /\ Acceptable(b, leg)
  <2>1. leg.amount > 0
    BY <1>1 DEF Acceptable
  <2>2. FilledSince(Match(b, leg)) /\ c = Match(b, leg)
    BY <1>1, <2>1, MatchFills DEF OneLeg
  <2> QED BY <2>2 DEF FilledSince, BooksSound
<1>2. CASE ~(b.ok /\ Acceptable(b, leg))
  <2>1. c = [b EXCEPT !.ok = FALSE]
    BY <1>2 DEF OneLeg
  <2>2. b \in Books
    BY DEF FilledSince, BooksSound
  <2>3. /\ c \in Books /\ c.order = b.order /\ c.book = b.book /\ c.volume = b.volume
    BY <2>1, <2>2 DEF Books
  <2> QED BY <2>3 DEF FilledSince, BooksSound
<1> QED BY <1>1, <1>2

(* execute_atomic_batch: the loop over the legs. *)
LEMMA BatchFills ==
  ASSUME OrderBookAssumption, BooksSound(Standing), NEW legs \in Batches, ExecuteBatch(legs)
  PROVE  \E b : FilledSince(b) /\ order' = b.order /\ book' = b.book /\ volume' = b.volume
<1> DEFINE n == Len(legs)
           F(f, i) == IF i = 0 THEN Standing
                      ELSE IF f[i - 1].ok /\ Acceptable(f[i - 1], legs[i])
                           THEN Match(f[i - 1], legs[i])
                           ELSE [f[i - 1] EXCEPT !.ok = FALSE]
           Body(f) == [i \in 0..n |-> F(f, i)]
           step == [q \in (1..n) \X Books |-> IF FilledSince(q[2]) THEN OneLeg(q[2], legs[q[1]]) ELSE q[2]]
<1>1. legs \in Seq(TradeLeg) /\ n \in Nat /\ \A i \in 1..n : legs[i] \in TradeLeg
  BY Domains DEF OrderBookAssumption
<1>2. FilledSince(Standing)
  <2>1. ASSUME NEW p \in PairIds
        PROVE  /\ ByPriority(order[p], order[p])
               /\ volume[p] - volume[p] = Summed(Gain(order[p], order[p]), DOMAIN order[p])
    <3>1. OrdersSound(order[p]) /\ volume[p] \in Nat
      BY DEF BooksSound, Standing, PairSound, Books
    <3>2. IsFiniteSet(DOMAIN order[p]) /\ \A id \in DOMAIN order[p] : order[p][id] \in Order
      <4>1. DOMAIN order[p] = 1..Len(order[p]) /\ Len(order[p]) \in Nat
            /\ \A id \in 1..Len(order[p]) : order[p][id] \in Order
        BY <3>1, Domains DEF OrdersSound
      <4>2. IsFiniteSet(1..Len(order[p]))
        BY <4>1, FS_Interval
      <4> QED BY <4>1, <4>2
    <3>3. \A id \in DOMAIN order[p] : Gain(order[p], order[p])[id] = 0
      <4> SUFFICES ASSUME NEW id \in DOMAIN order[p]
                   PROVE  (order[p][id].remaining - order[p][id].remaining) * order[p][id].price = 0
        BY DEF Gain
      <4>1. order[p][id].remaining \in Nat /\ order[p][id].price \in Int
        BY <3>2, OrderFields
      <4> QED BY <4>1
    <3>4. Summed(Gain(order[p], order[p]), DOMAIN order[p]) = 0
      BY <3>2, <3>3, SummedZero
    <3> QED BY <3>1, <3>4, PriorityStarts
  <2> QED BY <2>1 DEF FilledSince, Standing
<1>3. ASSUME NEW i \in 1..n, NEW a, FilledSince(a)
      PROVE  FilledSince(OneLeg(a, legs[i])) /\ OneLeg(a, legs[i]) \in Books
  BY <1>1, <1>3, OneLegFills
<1>4. Standing \in Books
  BY DEF BooksSound
<1>5. step \in [(1..n) \X Books -> Books]
  BY <1>3
<1>6. PICK g : Runs(g, n, Books, Standing, step)
  <2> HIDE DEF step, n
  <2> QED BY <1>1, <1>4, <1>5, Iterates
<1>7. g \in [0..n -> Books] /\ g[0] = Standing /\ \A i \in 1..n : g[i] = step[<<i, g[i - 1]>>]
  BY <1>6 DEF Runs
<1>8. \A i \in 1..n : g[i - 1] \in Books
  <2> SUFFICES ASSUME NEW i \in 1..n PROVE i - 1 \in 0..n
    BY <1>7
  <2> QED BY <1>1
<1>9. \A i \in 1..n : FilledSince(g[i - 1]) => g[i] = OneLeg(g[i - 1], legs[i])
  BY <1>7, <1>8
<1> HIDE DEF n, step
<1>10. \A i \in 0..n : FilledSince(g[i])
  <2> DEFINE S == {i \in 0..n : FilledSince(g[i])}
  <2>1. 0 \in S
    BY <1>1, <1>2, <1>7
  <2>2. ASSUME NEW i \in 0..n, i < n, i \in S PROVE i + 1 \in S
    <3>1. i + 1 \in 1..n /\ i + 1 - 1 = i
      BY <1>1, <2>2
    <3>2. g[i + 1] = OneLeg(g[i], legs[i + 1])
      BY <1>9, <2>2, <3>1
    <3>3. FilledSince(g[i + 1])
      BY <1>3, <2>2, <3>1, <3>2
    <3> QED BY <3>1, <3>3
  <2>3. 0..n \subseteq S
    <3> HIDE DEF S
    <3> QED BY <1>1, <2>1, <2>2, CountUp
  <2> QED BY <2>3
<1>11. g = Body(g)
  <2>1. \A i \in 1..n : i - 1 \in 0..n
    BY <1>1
  <2>2. ASSUME NEW i \in 0..n PROVE g[i] = F(g, i)
    <3>1. CASE i = 0
      BY <1>7, <3>1
    <3>2. CASE i # 0
      <4>1. i \in 1..n
        BY <1>1, <3>2
      <4>2. g[i] = OneLeg(g[i - 1], legs[i])
        BY <1>9, <1>10, <2>1, <4>1
      <4> QED BY <3>2, <4>2 DEF OneLeg
    <3> QED BY <3>1, <3>2
  <2>3. g = [i \in 0..n |-> g[i]]
    BY <1>7
  <2> HIDE DEF F
  <2> QED BY <2>2, <2>3
<1> DEFINE after == CHOOSE f : f = Body(f)
           end == after[n]
<1>12. order' = end.order /\ book' = end.book /\ volume' = end.volume
  BY DEF ExecuteBatch, n
<1>13. after = Body(after)
  <2> HIDE DEF Body
  <2> QED BY <1>11, Zenon
<1> HIDE DEF after
<1>14. \A i \in 0..n : after[i] = F(after, i)
  <2> HIDE DEF F
  <2> QED BY <1>13
<1>15. \A i \in 0..n : FilledSince(after[i])
  <2> DEFINE S == {i \in 0..n : FilledSince(after[i])}
  <2>1. 0 \in S
    <3>1. 0 \in 0..n
      BY <1>1
    <3>2. after[0] = Standing
      BY <1>14, <3>1
    <3> QED BY <1>2, <3>1, <3>2
  <2>2. ASSUME NEW i \in 0..n, i < n, i \in S PROVE i + 1 \in S
    <3>1. i + 1 \in 1..n /\ i + 1 - 1 = i /\ i + 1 # 0 /\ i + 1 \in 0..n
      BY <1>1, <2>2
    <3>2. after[i + 1] = F(after, i + 1)
      BY <1>14, <3>1
    <3>3. F(after, i + 1) = OneLeg(after[i + 1 - 1], legs[i + 1])
      <4> DEFINE j == i + 1
      <4>1. j # 0
        BY <3>1
      <4> HIDE DEF j
      <4>2. F(after, j) = OneLeg(after[j - 1], legs[j])
        BY <4>1 DEF OneLeg
      <4> QED BY <4>2 DEF j
    <3>5. after[i + 1] = OneLeg(after[i], legs[i + 1])
      BY <3>1, <3>2, <3>3
    <3>4. FilledSince(after[i + 1])
      BY <1>3, <2>2, <3>1, <3>5
    <3> QED BY <3>1, <3>4
  <2>3. 0..n \subseteq S
    <3> HIDE DEF S
    <3> QED BY <1>1, <2>1, <2>2, CountUp
  <2> QED BY <2>3
<1>16. n \in 0..n
  BY <1>1
<1>17. FilledSince(end)
  BY <1>15, <1>16
<1> QED BY <1>12, <1>17

-----------------------------------------------------------------------------
(* The inductive invariant: the stored orders are keyed by their own id, and *)
(* the copies in the book are the live ones, by priority.                   *)

BookInv ==
  /\ DOMAIN pairs \subseteq PairIds /\ Range(pairs) \subseteq PairConfigs
  /\ slippage \in [PairIds -> SlippageConfigs \cup {DefaultSlippage}]
  /\ BooksSound(Standing)

LEMMA BookFields ==
  ASSUME BooksSound(Standing)
  PROVE  /\ order \in [PairIds -> Seq(Order)] /\ book \in [PairIds -> [Sides -> Seq(Order)]]
         /\ volume \in [PairIds -> Nat] /\ \A p \in PairIds : PairSound(order[p], book[p])
BY DEF BooksSound, Standing, Books

LEMMA BooksFrom ==
  ASSUME order \in [PairIds -> Seq(Order)], book \in [PairIds -> [Sides -> Seq(Order)]],
         volume \in [PairIds -> Nat], \A p \in PairIds : PairSound(order[p], book[p])
  PROVE  BooksSound(Standing)
BY DEF BooksSound, Standing, Books

LEMMA BooksFromNext ==
  ASSUME order' \in [PairIds -> Seq(Order)], book' \in [PairIds -> [Sides -> Seq(Order)]],
         volume' \in [PairIds -> Nat], \A p \in PairIds : PairSound(order'[p], book'[p])
  PROVE  BooksSound(Standing)'
BY DEF BooksSound, Standing, Books

LEMMA BooksInit ==
  ASSUME Init
  PROVE  BookInv
<1>1. /\ order \in [PairIds -> Seq(Order)] /\ book \in [PairIds -> [Sides -> Seq(Order)]]
      /\ volume \in [PairIds -> Nat]
  <2>1. <<>> \in Seq(Order)
    OBVIOUS
  <2> QED BY <2>1 DEF Init
<1>2. ASSUME NEW p \in PairIds PROVE PairSound(order[p], book[p])
  <2>1. order[p] = <<>> /\ \A side \in Sides : book[p][side] = <<>>
    BY DEF Init
  <2>2. <<>> \in Seq(Order) /\ DOMAIN <<>> = {}
    OBVIOUS
  <2>3. OrdersSound(<<>>)
    BY <2>2 DEF OrdersSound
  <2>4. \A side \in Sides : SideSound(<<>>, <<>>, side)
    BY <2>2 DEF SideSound
  <2> QED BY <2>1, <2>3, <2>4 DEF PairSound
<1>3. BooksSound(Standing)
  BY <1>1, <1>2, BooksFrom
<1>4. DOMAIN pairs \subseteq PairIds /\ Range(pairs) \subseteq PairConfigs
  BY DEF Init, Range
<1>5. slippage \in [PairIds -> SlippageConfigs \cup {DefaultSlippage}]
  BY DEF Init
<1> QED BY <1>3, <1>4, <1>5 DEF BookInv

(* register_trading_pair, update_trading_pair, set_slippage_config *)
LEMMA PairSettings ==
  ASSUME BookInv, NEW p \in PairIds,
         \/ \E c \in PairConfigs : RegisterPair(p, c) \/ UpdatePair(p, c)
         \/ \E c \in SlippageConfigs : SetSlippage(p, c)
  PROVE  BookInv' /\ UNCHANGED <<order, book, volume>>
<1>1. UNCHANGED <<order, book, volume>>
  BY DEF RegisterPair, UpdatePair, SetSlippage
<1>2. BooksSound(Standing)'
  BY <1>1 DEF BookInv, BooksSound, Standing
<1>3. slippage' \in [PairIds -> SlippageConfigs \cup {DefaultSlippage}]
  BY DEF BookInv, RegisterPair, UpdatePair, SetSlippage
<1>4. DOMAIN pairs' \subseteq PairIds /\ Range(pairs') \subseteq PairConfigs
  <2>1. CASE \E c \in PairConfigs : RegisterPair(p, c)
    BY <2>1 DEF BookInv, RegisterPair, Range
  <2>2. CASE \E c \in PairConfigs : UpdatePair(p, c)
    <3>1. PICK c \in PairConfigs : UpdatePair(p, c)
      BY <2>2
    <3>2. DOMAIN pairs' = DOMAIN pairs
      BY <3>1 DEF UpdatePair
    <3>3. \A q \in DOMAIN pairs : pairs'[q] \in PairConfigs
      <4> SUFFICES ASSUME NEW q \in DOMAIN pairs PROVE pairs'[q] \in PairConfigs
        OBVIOUS
      <4>1. pairs[q] \in PairConfigs
        BY DEF BookInv, Range
      <4>2. pairs'[q] = IF q = p THEN c ELSE pairs[q]
        BY <3>1 DEF UpdatePair
      <4> QED BY <4>1, <4>2
    <3> QED BY <3>2, <3>3 DEF BookInv, Range
  <2>3. CASE \E c \in SlippageConfigs : SetSlippage(p, c)
    BY <2>3 DEF BookInv, SetSlippage
  <2> QED BY <2>1, <2>2, <2>3
<1> QED BY <1>1, <1>2, <1>3, <1>4 DEF BookInv

(* place_limit_order: the new order is live on its side of both copies.     *)
LEMMA PlaceSound ==
  ASSUME OrderBookAssumption, BookInv, NEW p \in PairIds, NEW owner \in People, NEW side \in Sides,
         NEW price \in Prices, NEW amount \in Amounts, PlaceOrder(p, owner, side, price, amount)
  PROVE  /\ BookInv' /\ volume' = volume
         /\ \A q \in PairIds : \A id \in DOMAIN order[q] : order'[q][id] = order[q][id]
<1> DEFINE ords == order[p]
           o == [order_id |-> Len(order[p]) + 1, owner |-> owner, side |-> side, price |-> price,
                 amount |-> amount, remaining |-> amount, status |-> "Active"]
           more == Append(ords, o)
<1>1. /\ order \in [PairIds -> Seq(Order)] /\ book \in [PairIds -> [Sides -> Seq(Order)]]
      /\ volume \in [PairIds -> Nat] /\ \A q \in PairIds : PairSound(order[q], book[q])
  BY BookFields DEF BookInv
<1>2. OrdersSound(ords) /\ ords \in Seq(Order) /\ Len(ords) \in Nat /\ DOMAIN ords = 1..Len(ords)
  BY <1>1, Domains DEF PairSound
<1>3. /\ amount > 0 /\ price > 0 /\ Len(ords) < MaxOrders
      /\ order' = [order EXCEPT ![p] = more]
      /\ book' = [book EXCEPT ![p][side] = Insert(@, o)]
      /\ UNCHANGED <<pairs, slippage, volume>>
  BY DEF PlaceOrder
<1>4. /\ price \in Int /\ amount \in Nat /\ MaxOrders \in Nat
      /\ Len(ords) + 1 \in 1..MaxOrders
  BY <1>2, <1>3 DEF OrderBookAssumption
<1>5. /\ o \in Order /\ o.order_id = Len(ords) + 1 /\ o.side = side /\ o.price = price
      /\ o.remaining = amount /\ o.status = "Active"
  BY <1>4 DEF Order
<1> HIDE DEF o
<1>6. /\ more \in Seq(Order) /\ DOMAIN more = 1..(Len(ords) + 1)
      /\ more[Len(ords) + 1] = o /\ \A id \in DOMAIN ords : more[id] = ords[id]
  BY <1>2, <1>5, AppendProperties, LenProperties
<1> HIDE DEF more
<1>7. OrdersSound(more)
  <2>1. ASSUME NEW id \in DOMAIN more
        PROVE  more[id].order_id = id /\ more[id].price > 0 /\ (more[id].status \in Live <=> more[id].remaining > 0)
    <3>1. CASE id = Len(ords) + 1
      BY <1>3, <1>5, <1>6, <3>1 DEF Live
    <3>2. CASE id # Len(ords) + 1
      <4>1. id \in DOMAIN ords
        BY <1>2, <1>6, <3>2
      <4> QED BY <1>2, <1>6, <4>1 DEF OrdersSound
    <3> QED BY <3>1, <3>2
  <2> QED BY <1>6, <2>1 DEF OrdersSound
<1>8. \A t \in Sides : SideSound(ords, book[p][t], t)
  BY <1>1 DEF PairSound
<1>9. SideSound(more, Insert(book[p][side], o), side)
  BY <1>2, <1>3, <1>5, <1>8, InsertSound DEF more
<1>10. \A t \in Sides : t # side => SideSound(more, book[p][t], t)
  BY <1>2, <1>5, <1>8, OtherSide DEF more
<1>11. Insert(book[p][side], o) \in Seq(Order)
  BY <1>9 DEF SideSound
<1>12. /\ order' \in [PairIds -> Seq(Order)] /\ order'[p] = more
       /\ \A q \in PairIds : q # p => order'[q] = order[q]
  BY <1>1, <1>3, <1>6
<1>13. /\ book' \in [PairIds -> [Sides -> Seq(Order)]]
       /\ book'[p][side] = Insert(book[p][side], o)
       /\ \A t \in Sides : t # side => book'[p][t] = book[p][t]
       /\ \A q \in PairIds : q # p => book'[q] = book[q]
  BY <1>1, <1>3, <1>11
<1>14. ASSUME NEW q \in PairIds PROVE PairSound(order'[q], book'[q])
  <2>1. CASE q # p
    BY <1>1, <1>12, <1>13, <2>1
  <2>2. CASE q = p
    <3>1. \A t \in Sides : SideSound(more, book'[p][t], t)
      BY <1>9, <1>10, <1>13
    <3> QED BY <1>7, <1>12, <2>2, <3>1 DEF PairSound
  <2> QED BY <2>1, <2>2
<1>15. volume' \in [PairIds -> Nat] /\ volume' = volume
  BY <1>1, <1>3
<1>16. BooksSound(Standing)'
  BY <1>12, <1>13, <1>14, <1>15, BooksFromNext
<1>17. BookInv'
  BY <1>3, <1>16 DEF BookInv
<1>18. \A q \in PairIds : \A id \in DOMAIN order[q] : order'[q][id] = order[q][id]
  BY <1>6, <1>12
<1> QED BY <1>15, <1>17, <1>18

(* cancel_order: the order leaves its side, and both copies forget it.      *)
LEMMA CancelSound ==
  ASSUME OrderBookAssumption, BookInv, NEW p \in PairIds, NEW caller, NEW id, CancelOrder(p, caller, id)
  PROVE  /\ BookInv' /\ volume' = volume /\ id \in DOMAIN order[p]
         /\ order'[p][id].status = "Cancelled"
         /\ \A q \in PairIds : \A a \in DOMAIN order[q] :
              <<q, a>> # <<p, id>> => order'[q][a] = order[q][a]
<1> DEFINE ords == order[p]
           side == order[p][id].side
           less == Without(ords, id)
           left == RemoveFromBook(book[p][side], id)
<1>1. /\ order \in [PairIds -> Seq(Order)] /\ book \in [PairIds -> [Sides -> Seq(Order)]]
      /\ volume \in [PairIds -> Nat] /\ \A q \in PairIds : PairSound(order[q], book[q])
  BY BookFields DEF BookInv
<1>2. /\ OrdersSound(ords) /\ ords \in Seq(Order) /\ \A t \in Sides : SideSound(ords, book[p][t], t)
  BY <1>1 DEF PairSound
<1>3. /\ id \in DOMAIN ords /\ ords[id].status \in Live
      /\ order' = [order EXCEPT ![p][id].status = "Cancelled", ![p][id].remaining = 0]
      /\ book' = [book EXCEPT ![p][side] = left]
      /\ UNCHANGED <<pairs, slippage, volume>>
  BY DEF CancelOrder
<1>4. ords[id] \in Order /\ side \in Sides /\ ords[id].remaining > 0
  <2>1. ords[id] \in Order
    BY <1>2, <1>3, Domains
  <2>2. side \in Sides
    BY <2>1 DEF Order
  <2>3. ords[id].remaining > 0
    BY <1>2, <1>3 DEF OrdersSound
  <2> QED BY <2>1, <2>2, <2>3
<1>5. order' = [order EXCEPT ![p] = less]
  BY <1>1, <1>3 DEF Without, Struck
<1>6. /\ OrdersSound(less) /\ DOMAIN less = DOMAIN ords /\ less[id] = Struck(ords[id])
      /\ \A a \in DOMAIN ords : a # id => less[a] = ords[a]
  BY <1>2, <1>3, WithoutIs
<1>7. SideSound(less, left, side)
  BY <1>2, <1>3, <1>4, RemoveSound
<1>8. \A t \in Sides : t # side => SideSound(less, book[p][t], t)
  BY <1>2, <1>3, OtherSideKept
<1>9. Struck(ords[id]).status = "Cancelled"
  BY <1>4, StruckIs
<1> HIDE DEF less, left, side
<1>10. left \in Seq(Order) /\ less \in Seq(Order)
  BY <1>6, <1>7 DEF SideSound, OrdersSound
<1>11. /\ order' \in [PairIds -> Seq(Order)] /\ order'[p] = less
       /\ \A q \in PairIds : q # p => order'[q] = order[q]
  BY <1>1, <1>5, <1>10
<1>12. /\ book' \in [PairIds -> [Sides -> Seq(Order)]] /\ book'[p][side] = left
       /\ \A t \in Sides : t # side => book'[p][t] = book[p][t]
       /\ \A q \in PairIds : q # p => book'[q] = book[q]
  BY <1>1, <1>3, <1>4, <1>10
<1>13. ASSUME NEW q \in PairIds PROVE PairSound(order'[q], book'[q])
  <2>1. CASE q # p
    BY <1>1, <1>11, <1>12, <2>1
  <2>2. CASE q = p
    <3>1. \A t \in Sides : SideSound(less, book'[p][t], t)
      BY <1>7, <1>8, <1>12
    <3> QED BY <1>6, <1>11, <2>2, <3>1 DEF PairSound
  <2> QED BY <2>1, <2>2
<1>14. volume' \in [PairIds -> Nat] /\ volume' = volume
  BY <1>1, <1>3
<1>15. BooksSound(Standing)'
  BY <1>11, <1>12, <1>13, <1>14, BooksFromNext
<1>16. BookInv'
  BY <1>3, <1>15 DEF BookInv
<1>17. \A q \in PairIds : \A a \in DOMAIN order[q] : <<q, a>> # <<p, id>> => order'[q][a] = order[q][a]
  BY <1>6, <1>11
<1> QED BY <1>3, <1>6, <1>9, <1>11, <1>14, <1>16, <1>17

(* execute_atomic_batch *)
LEMMA BatchSound ==
  ASSUME OrderBookAssumption, BookInv, NEW legs \in Batches, ExecuteBatch(legs)
  PROVE  /\ BookInv'
         /\ \A p \in PairIds :
              /\ ByPriority(order[p], order'[p])
              /\ volume'[p] - volume[p] = Summed(Gain(order[p], order'[p]), DOMAIN order[p])
<1>1. BooksSound(Standing)
  BY DEF BookInv
<1>2. PICK b : FilledSince(b) /\ order' = b.order /\ book' = b.book /\ volume' = b.volume
  BY <1>1, BatchFills
<1>3. BooksSound(b)
  BY <1>2 DEF FilledSince
<1>4. BooksSound(Standing)'
  BY <1>2, <1>3, BooksFromNext DEF BooksSound, Books
<1>5. BookInv'
  BY <1>4 DEF BookInv, ExecuteBatch
<1>6. ASSUME NEW p \in PairIds
      PROVE  /\ ByPriority(order[p], order'[p])
             /\ volume'[p] - volume[p] = Summed(Gain(order[p], order'[p]), DOMAIN order[p])
  BY <1>2 DEF FilledSince
<1> QED BY <1>5, <1>6

-----------------------------------------------------------------------------
(* What the invariant says *)

LiveOf(ords, side) == {id \in DOMAIN ords : ords[id].side = side /\ ords[id].remaining > 0}

(* A side and the live orders of it are in one-to-one correspondence.       *)
LEMMA SideIsLive ==
  ASSUME OrderBookAssumption, NEW ords, OrdersSound(ords), NEW s, NEW side, SideSound(ords, s, side)
  PROVE  /\ Len(s) = Cardinality(LiveOf(ords, side))
         /\ Range(s) = {ords[id] : id \in LiveOf(ords, side)}
<1> DEFINE live == LiveOf(ords, side)
           key == [i \in 1..Len(s) |-> s[i].order_id]
<1>1. s \in Seq(Order) /\ Len(s) \in Nat /\ DOMAIN s = 1..Len(s)
  BY Domains DEF SideSound
<1>2. \A i \in 1..Len(s) : s[i].order_id \in live /\ ords[s[i].order_id] = s[i]
  BY <1>1 DEF SideSound, LiveOf
<1>3. \A id \in live : \E i \in 1..Len(s) : s[i].order_id = id
  BY <1>1 DEF SideSound, LiveOf
<1>4. Len(s) = Cardinality(live)
  <2>1. key \in [1..Len(s) -> live]
    BY <1>2
  <2>2. \A i, j \in 1..Len(s) : key[i] = key[j] => i = j
    BY <1>1, OnePlace
  <2>3. \A id \in live : \E i \in 1..Len(s) : key[i] = id
    BY <1>3
  <2> HIDE DEF key, live
  <2>4. key \in Bijection(1..Len(s), live)
    BY <2>1, <2>2, <2>3 DEF Bijection, Injection, IsInjective, Surjection
  <2>5. ExistsBijection(1..Len(s), live)
    BY <2>4 DEF ExistsBijection
  <2>6. IsFiniteSet(1..Len(s)) /\ Cardinality(1..Len(s)) = Len(s)
    <3>1. 1 \in Int /\ Len(s) \in Int
      BY <1>1
    <3>2. /\ IsFiniteSet(1..Len(s))
          /\ Cardinality(1..Len(s)) = IF 1 > Len(s) THEN 0 ELSE Len(s) - 1 + 1
      BY <3>1, FS_Interval
    <3> QED BY <1>1, <3>2
  <2> QED BY <2>5, <2>6, FS_Bijection
<1>5. Range(s) = {ords[id] : id \in live}
  <2> DEFINE all == {ords[id] : id \in live}
  <2>1. ASSUME NEW o \in Range(s) PROVE o \in all
    <3>1. PICK i \in 1..Len(s) : o = s[i]
      BY <1>1 DEF Range
    <3> QED BY <1>2, <3>1
  <2>2. ASSUME NEW o \in all PROVE o \in Range(s)
    <3>1. PICK id \in live : o = ords[id]
      OBVIOUS
    <3>2. PICK i \in 1..Len(s) : s[i].order_id = id
      BY <1>3
    <3> QED BY <1>1, <1>2, <3>1, <3>2 DEF Range
  <2> HIDE DEF all
  <2>3. Range(s) = all
    BY <2>1, <2>2
  <2> QED BY <2>3 DEF all
<1> QED BY <1>4, <1>5

LEMMA InvBookSound ==
  ASSUME OrderBookAssumption, BookInv
  PROVE  BookSound
<1> SUFFICES ASSUME NEW p \in PairIds
             PROVE  /\ \A id \in DOMAIN order[p] :
                         order[p][id].status \in Live <=> order[p][id].remaining > 0
                    /\ \A side \in Sides :
                         LET s == book[p][side]
                             live == {id \in DOMAIN order[p] :
                                        order[p][id].side = side /\ order[p][id].remaining > 0}
                         IN
                         /\ Len(s) = Cardinality(live) /\ Range(s) = {order[p][id] : id \in live}
                         /\ \A i, j \in DOMAIN s : i < j =>
                              \/ Better(side, s[i].price, s[j].price)
                              \/ s[i].price = s[j].price /\ s[i].order_id < s[j].order_id
  BY DEF BookSound
<1>1. OrdersSound(order[p]) /\ \A side \in Sides : SideSound(order[p], book[p][side], side)
  BY BookFields DEF BookInv, PairSound
<1>2. \A id \in DOMAIN order[p] : order[p][id].status \in Live <=> order[p][id].remaining > 0
  BY <1>1 DEF OrdersSound
<1>3. ASSUME NEW side \in Sides
      PROVE  LET s == book[p][side]
                 live == {id \in DOMAIN order[p] :
                            order[p][id].side = side /\ order[p][id].remaining > 0}
             IN
             /\ Len(s) = Cardinality(live) /\ Range(s) = {order[p][id] : id \in live}
             /\ \A i, j \in DOMAIN s : i < j =>
                  \/ Better(side, s[i].price, s[j].price)
                  \/ s[i].price = s[j].price /\ s[i].order_id < s[j].order_id
  <2> DEFINE s == book[p][side]
             live == {id \in DOMAIN order[p] : order[p][id].side = side /\ order[p][id].remaining > 0}
  <2>1. Len(s) = Cardinality(live) /\ Range(s) = {order[p][id] : id \in live}
    <3>1. live = LiveOf(order[p], side)
      BY DEF LiveOf
    <3>2. SideSound(order[p], s, side)
      BY <1>1
    <3> HIDE DEF live, s
    <3>3. Range(s) = {order[p][id] : id \in live} /\ Len(s) = Cardinality(live)
      BY <1>1, <3>1, <3>2, SideIsLive
    <3> QED BY <3>3
  <2>2. \A i, j \in DOMAIN s : i < j =>
          \/ Better(side, s[i].price, s[j].price)
          \/ s[i].price = s[j].price /\ s[i].order_id < s[j].order_id
    BY <1>1 DEF SideSound, Before
  <2> QED BY <2>1, <2>2
<1> QED BY <1>2, <1>3

AllOrdersSound == \A p \in PairIds : OrdersSound(order[p])

LEMMA InvOrders == BookInv => AllOrdersSound
BY BookFields DEF BookInv, PairSound, AllOrdersSound

LEMMA InvTypeOK ==
  ASSUME BookInv
  PROVE  TypeOK
<1>1. /\ order \in [PairIds -> Seq(Order)] /\ book \in [PairIds -> [Sides -> Seq(Order)]]
      /\ volume \in [PairIds -> Nat]
  BY BookFields DEF BookInv
<1> QED BY <1>1 DEF TypeOK, BookInv

-----------------------------------------------------------------------------
(* What a step fills *)

Gave(p, id) == IF order'[p][id].status = "Cancelled" THEN 0
               ELSE order[p][id].remaining - order'[p][id].remaining
Given(p) == [id \in DOMAIN order[p] |-> Gave(p, id) * order[p][id].price]

(* FillsInOrder for one pair, without its LET.                              *)
PairFilled(p) ==
  /\ \A a, c \in DOMAIN order[p] :
       Gave(p, c) > 0 /\ AheadOf(order[p], a, c) => order'[p][a].status = "Filled"
  /\ volume'[p] - volume[p] = Summed(Given(p), DOMAIN order[p])

LEMMA GivenIs ==
  ASSUME NEW p
  PROVE  MapThenSumSet(LAMBDA id : Gave(p, id) * order[p][id].price, DOMAIN order[p])
           = Summed(Given(p), DOMAIN order[p])
<1> DEFINE D == DOMAIN order[p]
           w == Given(p)
           R(sum) == [q \in SUBSET D |-> IF q = {} THEN 0 ELSE
                        LET x == CHOOSE x \in q : TRUE IN (Gave(p, x) * order[p][x].price) + sum[q \ {x}]]
           Q(sum) == [q \in SUBSET D |-> IF q = {} THEN 0 ELSE
                        LET x == CHOOSE x \in q : TRUE IN w[x] + sum[q \ {x}]]
<1>1. MapThenSumSet(LAMBDA id : Gave(p, id) * order[p][id].price, D) = (CHOOSE sum : sum = R(sum))[D]
  BY DEF MapThenSumSet, MapThenFoldSet
<1>2. Summed(w, D) = (CHOOSE sum : sum = Q(sum))[D]
  BY DEF Summed
<1>3. ASSUME NEW sum PROVE R(sum) = Q(sum)
  <2>1. ASSUME NEW q \in SUBSET D, q # {}
        PROVE  w[CHOOSE x \in q : TRUE]
                 = Gave(p, CHOOSE x \in q : TRUE) * order[p][CHOOSE x \in q : TRUE].price
    <3>1. (CHOOSE x \in q : TRUE) \in D
      BY <2>1
    <3> QED BY <3>1 DEF Given
  <2> QED BY <2>1
<1>4. (CHOOSE sum : sum = R(sum)) = (CHOOSE sum : sum = Q(sum))
  <2> HIDE DEF R, Q
  <2> QED BY <1>3
<1> QED BY <1>1, <1>2, <1>4

LEMMA PairsFilled ==
  ASSUME \A p \in PairIds : PairFilled(p)
  PROVE  \A p \in PairIds :
           LET gave(id) == IF order'[p][id].status = "Cancelled" THEN 0
                           ELSE order[p][id].remaining - order'[p][id].remaining
               ahead(a, b) == /\ order[p][a].side = order[p][b].side /\ order[p][a].remaining > 0
                              /\ \/ Better(order[p][a].side, order[p][a].price, order[p][b].price)
                                 \/ order[p][a].price = order[p][b].price /\ a < b
           IN
           /\ \A a, b \in DOMAIN order[p] :
                gave(b) > 0 /\ ahead(a, b) => order'[p][a].status = "Filled"
           /\ volume'[p] - volume[p] =
                MapThenSumSet(LAMBDA id : gave(id) * order[p][id].price, DOMAIN order[p])
<1> SUFFICES ASSUME NEW p \in PairIds
             PROVE  /\ \A a, b \in DOMAIN order[p] :
                         Gave(p, b) > 0 /\ AheadOf(order[p], a, b) => order'[p][a].status = "Filled"
                    /\ volume'[p] - volume[p] =
                         MapThenSumSet(LAMBDA id : Gave(p, id) * order[p][id].price, DOMAIN order[p])
  BY DEF Gave, AheadOf
<1> QED BY GivenIs DEF PairFilled

LEMMA NothingFilled ==
  ASSUME OrderBookAssumption, NEW p, OrdersSound(order[p]), volume[p] \in Nat, volume'[p] = volume[p],
         \A id \in DOMAIN order[p] :
           order'[p][id] = order[p][id] \/ order'[p][id].status = "Cancelled"
  PROVE  PairFilled(p)
<1>1. /\ DOMAIN order[p] = 1..Len(order[p]) /\ Len(order[p]) \in Nat
      /\ \A id \in 1..Len(order[p]) : order[p][id] \in Order
  BY Domains DEF OrdersSound
<1>2. IsFiniteSet(1..Len(order[p]))
  <2>1. 1 \in Int /\ Len(order[p]) \in Int
    BY <1>1
  <2> QED BY <2>1, FS_Interval
<1>3. ASSUME NEW id \in DOMAIN order[p] PROVE Gave(p, id) = 0 /\ Given(p)[id] = 0
  <2>1. order[p][id].remaining \in Nat /\ order[p][id].price \in Int
    BY <1>1, OrderFields
  <2>2. Gave(p, id) = 0
    BY <2>1 DEF Gave
  <2>3. 0 * order[p][id].price = 0
    BY <2>1
  <2> QED BY <2>2, <2>3 DEF Given
<1>4. Summed(Given(p), DOMAIN order[p]) = 0
  BY <1>1, <1>2, <1>3, SummedZero
<1> QED BY <1>3, <1>4 DEF PairFilled

LEMMA DrawnFilled ==
  ASSUME OrderBookAssumption, NEW p, OrdersSound(order[p]), OrdersSound(order'[p]), ByPriority(order[p], order'[p]),
         volume'[p] - volume[p] = Summed(Gain(order[p], order'[p]), DOMAIN order[p])
  PROVE  PairFilled(p)
<1>1. \A id \in DOMAIN order[p] : order[p][id] \in Order /\ order'[p][id] \in Order
  BY Domains DEF OrdersSound, ByPriority
<1>2. ASSUME NEW id \in DOMAIN order[p]
      PROVE  Gave(p, id) = order[p][id].remaining - order'[p][id].remaining
  <2>1. order[p][id].remaining \in Nat /\ order'[p][id].remaining \in Nat
    BY <1>1, OrderFields
  <2>2. CASE order'[p][id].status = "Cancelled"
    <3>1. Drawn(order[p][id], order'[p][id])
      BY DEF ByPriority
    <3>2. order'[p][id] = order[p][id]
      BY <2>2, <3>1 DEF Drawn
    <3> QED BY <2>1, <2>2, <3>2 DEF Gave
  <2>3. CASE order'[p][id].status # "Cancelled"
    BY <2>3 DEF Gave
  <2> QED BY <2>2, <2>3
<1>3. Given(p) = Gain(order[p], order'[p])
  BY <1>2 DEF Given, Gain
<1>4. ASSUME NEW a \in DOMAIN order[p], NEW c \in DOMAIN order[p], Gave(p, c) > 0, AheadOf(order[p], a, c)
      PROVE  order'[p][a].status = "Filled"
  <2>1. /\ order[p][c].remaining \in Nat /\ order'[p][c].remaining \in Nat
        /\ order[p][a].remaining \in Nat /\ order'[p][a].remaining \in Nat
    BY <1>1, OrderFields
  <2>2. order'[p][c].remaining < order[p][c].remaining
    BY <1>2, <1>4, <2>1
  <2>3. order'[p][a].remaining = 0
    BY <1>4, <2>2 DEF ByPriority
  <2>4. order[p][a].remaining > 0
    BY <1>4 DEF AheadOf
  <2>5. Drawn(order[p][a], order'[p][a])
    BY DEF ByPriority
  <2> QED BY <2>1, <2>3, <2>4, <2>5 DEF Drawn
<1> QED BY <1>3, <1>4 DEF PairFilled

-----------------------------------------------------------------------------
(* Every step *)

LEMMA BookSteps ==
  ASSUME OrderBookAssumption, BookInv, [Next]_vars
  PROVE  BookInv' /\ \A p \in PairIds : PairFilled(p)
<1>1. /\ order \in [PairIds -> Seq(Order)] /\ volume \in [PairIds -> Nat]
      /\ \A p \in PairIds : OrdersSound(order[p])
  BY BookFields DEF BookInv, PairSound
<1>2. CASE UNCHANGED <<order, book, volume>> /\ BookInv'
  BY <1>1, <1>2, NothingFilled
<1>3. CASE UNCHANGED vars
  <2>1. BookInv'
    BY <1>3 DEF vars, BookInv, BooksSound, Standing
  <2> QED BY <1>2, <1>3, <2>1 DEF vars
<1>4. CASE \E p \in PairIds :
             \/ \E c \in PairConfigs : RegisterPair(p, c) \/ UpdatePair(p, c)
             \/ \E c \in SlippageConfigs : SetSlippage(p, c)
  BY <1>2, <1>4, PairSettings
<1>5. ASSUME NEW p \in PairIds, NEW who \in People, NEW side \in Sides, NEW price \in Prices,
             NEW n \in Amounts, PlaceOrder(p, who, side, price, n)
      PROVE  BookInv' /\ \A q \in PairIds : PairFilled(q)
  BY <1>1, <1>5, PlaceSound, NothingFilled
<1>6. ASSUME NEW p \in PairIds, NEW who, NEW id, CancelOrder(p, who, id)
      PROVE  BookInv' /\ \A q \in PairIds : PairFilled(q)
  <2>1. /\ BookInv' /\ volume' = volume /\ order'[p][id].status = "Cancelled"
        /\ \A q \in PairIds : \A a \in DOMAIN order[q] :
             <<q, a>> # <<p, id>> => order'[q][a] = order[q][a]
    BY <1>6, CancelSound
  <2>2. \A q \in PairIds : \A a \in DOMAIN order[q] :
          order'[q][a] = order[q][a] \/ order'[q][a].status = "Cancelled"
    BY <2>1
  <2> QED BY <1>1, <2>1, <2>2, NothingFilled
<1>7. ASSUME NEW legs \in Batches, ExecuteBatch(legs)
      PROVE  BookInv' /\ \A q \in PairIds : PairFilled(q)
  <2>1. BookInv'
    BY <1>7, BatchSound
  <2>2. \A q \in PairIds : OrdersSound(order'[q])
    <3>1. AllOrdersSound'
      BY <2>1, InvOrders, PTL
    <3> QED BY <3>1 DEF AllOrdersSound
  <2>3. \A q \in PairIds :
          /\ ByPriority(order[q], order'[q])
          /\ volume'[q] - volume[q] = Summed(Gain(order[q], order'[q]), DOMAIN order[q])
    BY <1>7, BatchSound
  <2> QED BY <1>1, <2>1, <2>2, <2>3, DrawnFilled
<1> QED BY <1>3, <1>4, <1>5, <1>6, <1>7 DEF Next

(***************************************************************************)
(* The trading engine (contracts/trade/src/orderbook.rs and engine.rs): in   *)
(* every state it can reach, its stored orders and its books are of their    *)
(* types.                                                                    *)
(***************************************************************************)
THEOREM BookTypes == OrderBookAssumption => (Spec => []TypeOK)
<1> SUFFICES ASSUME OrderBookAssumption PROVE Spec => []TypeOK
  OBVIOUS
<1>1. Init => BookInv
  BY BooksInit
<1>2. BookInv /\ [Next]_vars => BookInv'
  BY BookSteps
<1>3. BookInv => TypeOK
  BY InvTypeOK
<1> QED BY <1>1, <1>2, <1>3, PTL DEF Spec

(***************************************************************************)
(* insert_order_sorted, remove_order_from_book and match_order keep the two  *)
(* copies of an order the same: each side of the book is always its live     *)
(* orders, each once, by price and then by age.                              *)
(***************************************************************************)
THEOREM BooksAgree == OrderBookAssumption => (Spec => []BookSound)
<1> SUFFICES ASSUME OrderBookAssumption PROVE Spec => []BookSound
  OBVIOUS
<1>1. Init => BookInv
  BY BooksInit
<1>2. BookInv /\ [Next]_vars => BookInv'
  BY BookSteps
<1>3. BookInv => BookSound
  BY InvBookSound
<1> QED BY <1>1, <1>2, <1>3, PTL DEF Spec

(***************************************************************************)
(* match_order never fills an order while one of its side with a better     *)
(* price, or with its price and older, has something left, over all the      *)
(* legs of a batch; and the volume grows by what the orders gave.            *)
(***************************************************************************)
THEOREM FilledByPriority == OrderBookAssumption => (Spec => FillsInOrder)
<1> SUFFICES ASSUME OrderBookAssumption PROVE Spec => FillsInOrder
  OBVIOUS
<1>1. Init => BookInv
  BY BooksInit
<1>2. BookInv /\ [Next]_vars => BookInv'
  BY BookSteps
<1>3. BookInv /\ [Next]_vars =>
             [\A p \in PairIds :
               LET gave(id) == IF order'[p][id].status = "Cancelled" THEN 0
                               ELSE order[p][id].remaining - order'[p][id].remaining
                   ahead(a, b) == /\ order[p][a].side = order[p][b].side /\ order[p][a].remaining > 0
                                  /\ \/ Better(order[p][a].side, order[p][a].price, order[p][b].price)
                                     \/ order[p][a].price = order[p][b].price /\ a < b
               IN
               /\ \A a, b \in DOMAIN order[p] :
                    gave(b) > 0 /\ ahead(a, b) => order'[p][a].status = "Filled"
               /\ volume'[p] - volume[p] =
                    MapThenSumSet(LAMBDA id : gave(id) * order[p][id].price, DOMAIN order[p])]_vars
  BY BookSteps, PairsFilled
<1> QED BY <1>1, <1>2, <1>3, PTL DEF Spec, FillsInOrder

=============================================================================
