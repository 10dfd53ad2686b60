----------------------------- MODULE OrderBook ------------------------------
(***************************************************************************)
(* The trading engine: limit orders rest in the book of a pair, whose sides *)
(* hold copies of the orders, best price first, and batches of legs take    *)
(* from them.  An error in any leg undoes the call.  Fees are charged to    *)
(* nobody's account and are left out, as is the audit sink.                 *)
(***************************************************************************)
EXTENDS Integers, Sequences, FiniteSetsExt, SequencesExt, Functions

CONSTANTS
  People, Admin,
  PairIds,
  PairConfigs,   \* TradePair: is_active, min_order_size, max_order_size
  SlippageConfigs,
  Prices, Amounts,
  Batches,       \* sequences of TradeLeg
  MaxDepth,      \* MAX_ORDERS_PER_PAIR
  MaxOrders,     \* bounds the orders placed on a pair
  None

VARIABLES
  pairs, slippage, order, book, volume

vars == <<pairs, slippage, order, book, volume>>

Sides == {"Buy", "Sell"}
Live == {"Active", "PartiallyFilled"}
Bps == 10000

DefaultSlippage == [max_slippage_bps |-> 500, enabled |-> TRUE]

Order ==
  [order_id : 1..MaxOrders, owner : People, side : Sides, price : Prices, amount : Amounts,
   remaining : Nat, status : {"Active", "PartiallyFilled", "Filled", "Cancelled"}]

TradeLeg ==
  [pair : PairIds, side : Sides, price : Int, amount : Int, max_slippage_bps : Int \cup {None}]

OrderBookAssumption ==
  /\ Prices \subseteq Int /\ Amounts \subseteq Int /\ MaxOrders \in Nat
  /\ Batches \subseteq Seq(TradeLeg)

TypeOK ==
  /\ DOMAIN pairs \subseteq PairIds /\ Range(pairs) \subseteq PairConfigs
  /\ slippage \in [PairIds -> SlippageConfigs \cup {DefaultSlippage}]
  /\ \A p \in PairIds : order[p] \in Seq(Order) /\ \A s \in Sides : book[p][s] \in Seq(Order)
  /\ volume \in [PairIds -> Nat]

Init ==
  /\ pairs = <<>>
  /\ slippage = [p \in PairIds |-> DefaultSlippage]
  /\ order = [p \in PairIds |-> <<>>]
  /\ book = [p \in PairIds |-> [s \in Sides |-> <<>>]]
  /\ volume = [p \in PairIds |-> 0]

-----------------------------------------------------------------------------
(* Pairs: calls of the admin *)

RegisterPair(p, config) ==
  /\ p \notin DOMAIN pairs
  /\ pairs' = [q \in DOMAIN pairs \cup {p} |-> IF q = p THEN config ELSE pairs[q]]
  /\ slippage' = [slippage EXCEPT ![p] = DefaultSlippage]
  /\ UNCHANGED <<order, book, volume>>

UpdatePair(p, config) ==
  /\ p \in DOMAIN pairs
  /\ pairs' = [pairs EXCEPT ![p] = config]
  /\ UNCHANGED <<slippage, order, book, volume>>

SetSlippage(p, config) ==
  /\ slippage' = [slippage EXCEPT ![p] = config]
  /\ UNCHANGED <<pairs, order, book, volume>>

-----------------------------------------------------------------------------
(* Orders *)

Better(side, price, other) == IF side = "Buy" THEN price > other ELSE price < other

(* Mutant: a new order goes before those with the same price. *)
InsertFirst(s, o) ==
  LET worse == {i \in DOMAIN s : ~Better(o.side, s[i].price, o.price)}
  IN  InsertAt(s, IF worse = {} THEN Len(s) + 1 ELSE Min(worse), o)

(* Before the first order with a worse price, so behind those with its own. *)
Insert(s, o) ==
  LET worse == {i \in DOMAIN s : Better(o.side, o.price, s[i].price)}
  IN  InsertAt(s, IF worse = {} THEN Len(s) + 1 ELSE Min(worse), o)

PlaceOrder(p, owner, side, price, amount) ==
  LET o == [order_id |-> Len(order[p]) + 1, owner |-> owner, side |-> side, price |-> price,
            amount |-> amount, remaining |-> amount, status |-> "Active"]
  IN
  /\ p \in DOMAIN pairs /\ pairs[p].is_active
  /\ amount \in pairs[p].min_order_size .. pairs[p].max_order_size
  /\ amount > 0 /\ price > 0
  /\ Len(book[p][side]) < MaxDepth /\ Len(order[p]) < MaxOrders
  /\ book' = [book EXCEPT ![p][side] = Insert(@, o)]
  /\ order' = [order EXCEPT ![p] = Append(@, o)]
  /\ UNCHANGED <<pairs, slippage, volume>>

RemoveFromBook(s, id) == RemoveFirstMatch(s, LAMBDA c : c.order_id = id)

CancelOrder(p, caller, id) ==
  LET o == order[p][id] IN
  /\ id \in DOMAIN order[p] /\ o.status \in Live
  /\ caller \in {Admin, o.owner}
  /\ book' = [book EXCEPT ![p][o.side] = RemoveFromBook(@, id)]
  /\ order' = [order EXCEPT ![p][id].status = "Cancelled", ![p][id].remaining = 0]
  /\ UNCHANGED <<pairs, slippage, volume>>

-----------------------------------------------------------------------------
(* Batches *)

Opposite(side) == IF side = "Buy" THEN "Sell" ELSE "Buy"

(* check_slippage: whether a price is near enough to the limit. *)
Near(config, side, limit, price) ==
  \/ ~config.enabled \/ config.max_slippage_bps <= 0
  \/ IF side = "Buy"
     THEN price <= limit \/ ((price - limit) * Bps) \div limit <= config.max_slippage_bps
     ELSE price >= limit \/ ((limit - price) * Bps) \div limit <= config.max_slippage_bps

(* What the orders ahead of the i-th still offer.                           *)
Ahead(s, i) == MapThenSumSet(LAMBDA j : s[j].remaining, 1..(i - 1))

(* What each resting order gives to a taker: best first, up to the first    *)
(* beyond the limit, until the amount is reached.                           *)
Taken(s, leg) ==
  LET within(i) == \A j \in 1..i : ~Better(leg.side, s[j].price, leg.price)
      wanted(i) == leg.amount - Ahead(s, i)
  IN  [i \in DOMAIN s |-> IF ~within(i) \/ wanted(i) <= 0 THEN 0
                          ELSE IF wanted(i) <= s[i].remaining THEN wanted(i)
                          ELSE s[i].remaining]

After(o, n) ==
  [o EXCEPT !.remaining = @ - n,
            !.status = IF n = 0 THEN @ ELSE IF n = o.remaining THEN "Filled" ELSE "PartiallyFilled"]

AfterAll(s, leg) ==
  LET taken == Taken(s, leg) IN [i \in DOMAIN s |-> After(s[i], taken[i])]

Emptied(s, leg) == LET after == AfterAll(s, leg) IN {i \in DOMAIN s : after[i].remaining = 0}

(* Mutant: an order that is filled in part keeps its old copy in the book.  *)
StaleRestAfter(s, leg) == SubSeq(s, Cardinality(Emptied(s, leg)) + 1, Len(s))

(* Orders are filled from the front of the book, and the filled are removed. *)
RestAfter(s, leg) == SubSeq(AfterAll(s, leg), Cardinality(Emptied(s, leg)) + 1, Len(s))

Places(s, id) == {i \in DOMAIN s : s[i].order_id = id}

OrdersAfter(ords, s, leg) ==
  LET after == AfterAll(s, leg)
  IN  [id \in DOMAIN ords |-> IF Places(s, id) = {} THEN ords[id]
                              ELSE after[CHOOSE i \in Places(s, id) : TRUE]]

Traded(s, leg) ==
  LET taken == Taken(s, leg) IN MapThenSumSet(LAMBDA i : taken[i] * s[i].price, DOMAIN s)

FilledBy(s, leg) ==
  LET taken == Taken(s, leg) IN MapThenSumSet(LAMBDA i : taken[i], DOMAIN s)

Match(b, leg) ==
  LET s == b.book[leg.pair][Opposite(leg.side)]
  IN  [b EXCEPT
         !.order[leg.pair] = OrdersAfter(@, s, leg),
         !.book[leg.pair][Opposite(leg.side)] = RestAfter(s, leg),
         !.volume[leg.pair] = @ + Traded(s, leg)]

Acceptable(b, leg) ==
  LET s == b.book[leg.pair][Opposite(leg.side)]
      config == IF leg.max_slippage_bps = None THEN slippage[leg.pair]
                ELSE [max_slippage_bps |-> leg.max_slippage_bps, enabled |-> TRUE]
      filled == FilledBy(s, leg)
      average == Traded(s, leg) \div filled
  IN
  /\ leg.pair \in DOMAIN pairs /\ pairs[leg.pair].is_active
  /\ leg.amount > 0 /\ leg.price > 0 /\ leg.amount >= pairs[leg.pair].min_order_size
  /\ s # <<>> => Near(config, leg.side, leg.price, s[1].price)
  /\ filled > 0 => Near(config, leg.side, leg.price, average)

Standing == [ok |-> TRUE, order |-> order, book |-> book, volume |-> volume]

(* The legs run on what those before them left; one that fails undoes all.  *)
ExecuteBatch(legs) ==
  LET after[n \in 0..Len(legs)] ==
        IF n = 0 THEN Standing
        ELSE IF after[n - 1].ok /\ Acceptable(after[n - 1], legs[n])
             THEN Match(after[n - 1], legs[n])
             ELSE [after[n - 1] EXCEPT !.ok = FALSE]
      end == after[Len(legs)]
  IN
  /\ legs # <<>> /\ end.ok
  /\ order' = end.order /\ book' = end.book /\ volume' = end.volume
  /\ UNCHANGED <<pairs, slippage>>

Next ==
  \/ \E p \in PairIds :
       \/ \E c \in PairConfigs : RegisterPair(p, c) \/ UpdatePair(p, c)
       \/ \E c \in SlippageConfigs : SetSlippage(p, c)
       \/ \E who \in People, side \in Sides, price \in Prices, n \in Amounts :
            PlaceOrder(p, who, side, price, n)
       \/ \E who \in People \cup {Admin}, id \in 1..MaxOrders : CancelOrder(p, who, id)
  \/ \E legs \in Batches : ExecuteBatch(legs)

Spec == Init /\ [][Next]_vars

-----------------------------------------------------------------------------
(* Properties *)

(***************************************************************************)
(* After any calls, each side of the book holds the live orders of its      *)
(* side, each once and as it is stored under its own key, the best price    *)
(* first and the older of two with one price before the younger; an order   *)
(* is live while some of it remains.                                        *)
(***************************************************************************)
BookSound ==
  \A p \in PairIds :
    /\ \A id \in DOMAIN order[p] : order[p][id].status \in Live <=> order[p][id].remaining > 0
    /\ \A side \in Sides :
         LET s == book[p][side]
             live == {id \in DOMAIN order[p] : order[p][id].side = side /\ order[p][id].remaining > 0}
         IN
         /\ Len(s) = Cardinality(live) /\ Range(s) = {order[p][id] : id \in live}
         /\ \A i, j \in DOMAIN s : i < j =>
              \/ Better(side, s[i].price, s[j].price)
              \/ s[i].price = s[j].price /\ s[i].order_id < s[j].order_id

(***************************************************************************)
(* match_order, over all the legs of a batch: an order gives something only *)
(* if every order of its side with a better price, or with its own and      *)
(* older, is filled; and the volume counted is what the orders gave, each   *)
(* at its own price.                                                        *)
(***************************************************************************)
FillsInOrder ==
  [][\A p \in PairIds :
       LET gave(id) == IF order'[p][id].status = "Cancelled" THEN 0
                       ELSE order[p][id].remaining - order'[p][id].remaining
           ahead(a, b) == /\ order[p][a].side = order[p][b].side /\ order[p][a].remaining > 0
                          /\ \/ Better(order[p][a].side, order[p][a].price, order[p][b].price)
                             \/ order[p][a].price = order[p][b].price /\ a < b
       IN
       /\ \A a, b \in DOMAIN order[p] :
            gave(b) > 0 /\ ahead(a, b) => order'[p][a].status = "Filled"
       /\ volume'[p] - volume[p] =
            MapThenSumSet(LAMBDA id : gave(id) * order[p][id].price, DOMAIN order[p])]_vars
=============================================================================
