----------------------------- MODULE PriceFeed ------------------------------
(***************************************************************************)
(* The price feed: providers report prices of assets, which are checked for *)
(* age and for distance from their median, aggregated, cached and logged.   *)
(* An asset nobody reports on may have a fallback price.  Names, endpoints, *)
(* confidences and events are left out.                                     *)
(***************************************************************************)
EXTENDS Integers, FiniteSetsExt, SequencesExt, Rounding

CONSTANTS
  Assets,
  Providers,     \* numbers, in the order of the map that holds the oracles
  Founding,      \* the oracles an admin has registered before anything else
  ProviderSets,  \* OracleProvider: trust_weight, is_active, max_staleness
  FeedConfigs,   \* PriceValidationConfig, the first of them the default
  Methods,       \* those that are asked for
  Prices,        \* of either sign: nothing is asked of a price
  Lags,          \* how old a price is when it is reported; below 0, in the future
  Statuses,      \* what a provider may say of a price of its own
  Batches,       \* of price, lag and status, of each of some providers
  MaxCalls,      \* bounds the calls of admin and providers
  MaxTime,
  None

VARIABLES
  now, oracles, feedConfig, feedMethod, report, cached, fallback, priceLog, tracked,
  calls  \* calls made so far by admin and providers

settings == <<oracles, feedConfig, feedMethod, fallback, tracked>>
vars == <<now, settings, report, cached, priceLog, calls>>

DefaultConfig == FeedConfigs[1]

Severity == <<"Fresh", "Fallback", "Stale", "Anomalous", "Unknown">>

AggregationMethod == {"Median", "Latest", "TWAP", "WeightedAverage"}

(* OracleProvider *)
Oracle == [trust_weight : Nat, is_active : BOOLEAN, max_staleness : Nat]

PricePoint == [price : Int, timestamp : Nat, status : Range(Severity)]

(* AggregatedPrice *)
Answer ==
  [price : Int, timestamp : 0..MaxTime, num_sources : Nat, method : AggregationMethod,
   status : Range(Severity)]

CacheEntry == [aggregated : Answer, cached_at : 0..MaxTime, ttl_seconds : Nat]

TypeOK ==
  /\ now \in 0..MaxTime
  /\ oracles \in [Providers -> Oracle \cup {None}]
  /\ feedConfig \in Range(FeedConfigs) /\ feedMethod \in AggregationMethod
  /\ report \in [Assets -> [Providers -> PricePoint \cup {None}]]
  /\ cached \in [Assets -> CacheEntry \cup {None}]
  /\ fallback \in [Assets -> Int \cup {None}]
  /\ \A a \in Assets :
       priceLog[a] \in Seq([price : Int, timestamp : 0..MaxTime, num_sources : Nat])
  /\ tracked \subseteq Assets

Init ==
  /\ now = 1
  /\ oracles = Founding
  /\ feedConfig = DefaultConfig /\ feedMethod = "Median"
  /\ report = [a \in Assets |-> [o \in Providers |-> None]]
  /\ cached = [a \in Assets |-> None]
  /\ fallback = [a \in Assets |-> None]
  /\ priceLog = [a \in Assets |-> <<>>]
  /\ tracked = {} /\ calls = 0

Called == calls < MaxCalls /\ calls' = calls + 1

-----------------------------------------------------------------------------
(* Calls of the admin *)

RegisterOracle(o, provider) ==
  /\ oracles[o] = None /\ oracles' = [oracles EXCEPT ![o] = provider]
  /\ Called /\ UNCHANGED <<now, feedConfig, feedMethod, fallback, tracked, report, cached, priceLog>>

UpdateOracle(o, provider) ==
  /\ oracles[o] # None /\ oracles' = [oracles EXCEPT ![o] = provider]
  /\ Called /\ UNCHANGED <<now, feedConfig, feedMethod, fallback, tracked, report, cached, priceLog>>

(* What the provider reported stays. *)
RemoveOracle(o) ==
  /\ oracles[o] # None /\ oracles' = [oracles EXCEPT ![o] = None]
  /\ Called /\ UNCHANGED <<now, feedConfig, feedMethod, fallback, tracked, report, cached, priceLog>>

SetValidationConfig(config) ==
  /\ feedConfig' = config
  /\ Called /\ UNCHANGED <<now, oracles, feedMethod, fallback, tracked, report, cached, priceLog>>

SetDefaultMethod(method) ==
  /\ feedMethod' = method
  /\ Called /\ UNCHANGED <<now, oracles, feedConfig, fallback, tracked, report, cached, priceLog>>

SetFallbackPrice(a, price) ==
  /\ fallback' = [fallback EXCEPT ![a] = price]
  /\ Called /\ UNCHANGED <<now, oracles, feedConfig, feedMethod, tracked, report, cached, priceLog>>

ClearCache(a) ==
  /\ cached' = [cached EXCEPT ![a] = None]
  /\ Called /\ UNCHANGED <<now, settings, report, priceLog>>

Track(a) ==
  /\ tracked' = tracked \cup {a}
  /\ Called /\ UNCHANGED <<now, oracles, feedConfig, feedMethod, fallback, report, cached, priceLog>>

Untrack(a) ==
  /\ tracked' = tracked \ {a}
  /\ Called /\ UNCHANGED <<now, oracles, feedConfig, feedMethod, fallback, report, cached, priceLog>>

-----------------------------------------------------------------------------
(* Reports *)

(* What a provider sends: a price, whether it is positive or not, and a     *)
(* time, whether it is past or not.                                         *)
Point(price, lag, status) == [price |-> price, timestamp |-> now - lag, status |-> status]

Points == {Point(p, lag, s) : p \in Prices, lag \in {l \in Lags : l <= now}, s \in Statuses}

SubmitPrice(a, o, point) ==
  /\ oracles[o] # None /\ oracles[o].is_active
  /\ report' = [report EXCEPT ![a][o] = point]
  /\ Called /\ UNCHANGED <<now, settings, cached, priceLog>>

(* A batch is taken whoever sends it: one point of each of some providers.  *)
BatchSubmitPrices(a, batch) ==
  /\ \A o \in DOMAIN batch : batch[o].lag <= now
  /\ report' = [report EXCEPT ![a] =
       [o \in DOMAIN batch |-> Point(batch[o].price, batch[o].lag, batch[o].status)] @@ @]
  /\ Called /\ UNCHANGED <<now, settings, cached, priceLog>>

-----------------------------------------------------------------------------
(* Validation *)

Age(t) == Max({0, now - t})

(* The reports of the active providers, some of them marked as stale by the *)
(* provider's own limit.                                                    *)
FetchAll(a) ==
  LET active == {o \in Providers : oracles[o] # None /\ report[a][o] # None}
      ids == SetToSortSeq({o \in active : oracles[o].is_active}, LAMBDA x, y : x < y)
      Aged(o) ==
        LET late == now > 0 /\ report[a][o].timestamp > 0
                    /\ Age(report[a][o].timestamp) > oracles[o].max_staleness
        IN  IF late THEN [report[a][o] EXCEPT !.status = "Stale"] ELSE report[a][o]
  IN  [i \in DOMAIN ids |-> Aged(ids[i]) @@ [provider |-> ids[i]]]

IsStale(point) ==
  now = 0 \/ point.timestamp = 0 \/ Age(point.timestamp) > feedConfig.default_ttl_seconds

Median(points) ==
  LET s == SortSeq([i \in DOMAIN points |-> points[i].price], LAMBDA x, y : x < y)
      n == Len(s)
  IN  IF n % 2 = 1 THEN s[n \div 2 + 1] ELSE Quot(s[n \div 2] + s[n \div 2 + 1], 2)

Distance(x, y) == IF x < y THEN y - x ELSE x - y

(* Of a median below zero every deviation is below zero too, and of zero    *)
(* there is none: nothing is anomalous then.                                *)
IsAnomalous(price, median) ==
  median # 0 /\ Quot(Distance(price, median) * 10000, median) > feedConfig.max_deviation_bps

(* Mutant: age does not matter. *)
FreshOnesAnyAge(points) == points

FreshOnes(points) == SelectSeq(points, LAMBDA p : ~IsStale(p))

ValidatePrices(points) ==
  LET fresh == FreshOnes(points) IN
  [i \in DOMAIN fresh |->
     IF IsAnomalous(fresh[i].price, Median(fresh)) THEN [fresh[i] EXCEPT !.status = "Anomalous"]
     ELSE fresh[i]]

(* A provider may itself report a price as anomalous. *)
NonAnomalous(points) == SelectSeq(points, LAMBDA p : p.status # "Anomalous")

-----------------------------------------------------------------------------
(* Aggregation *)

WorstStatus(points) ==
  Severity[Max({1} \cup {CHOOSE k \in DOMAIN Severity : Severity[k] = points[i].status :
                           i \in DOMAIN points})]

Mean(points, weight) ==
  LET Total(F(_)) == FoldLeft(LAMBDA n, p : n + F(p), 0, points)
      total == Total(LAMBDA p : weight[p.provider])
  IN  IF total > 0 THEN Quot(Total(LAMBDA p : p.price * weight[p.provider]), total) ELSE 0

(* The last of those with the latest observation. *)
Latest(points) ==
  LET newest(i) == \A j \in DOMAIN points : points[j].timestamp <= points[i].timestamp
  IN  points[Max({i \in DOMAIN points : newest(i)})].price

PriceBy(method, points) ==
  CASE method = "Median" -> Median(points)
    [] method = "Latest" -> Latest(points)
    [] method = "TWAP" ->
         Mean(points, [o \in {points[i].provider : i \in DOMAIN points} |->
           LET i == CHOOSE i \in DOMAIN points : points[i].provider = o
           IN  Max({0, 1000000 - Age(points[i].timestamp)})])
    [] method = "WeightedAverage" ->
         Mean(points, [o \in Providers |-> IF oracles[o] = None THEN 1000
                                           ELSE oracles[o].trust_weight])

(* Of no points at all: a price of zero. *)
Aggregate(points, method) ==
  [price |-> IF points = <<>> THEN 0 ELSE PriceBy(method, points),
   timestamp |-> now, num_sources |-> Len(points), method |-> method,
   status |-> IF points = <<>> THEN "Unknown" ELSE WorstStatus(points)]

FallbackAnswer(a, method) ==
  [price |-> fallback[a], timestamp |-> now, num_sources |-> 0, method |-> method,
   status |-> "Fallback"]

-----------------------------------------------------------------------------
(* Queries *)

Cached(answer) ==
  [aggregated |-> answer, cached_at |-> now, ttl_seconds |-> feedConfig.default_ttl_seconds]

Logged(log, answer) ==
  LET entry == [price |-> answer.price, timestamp |-> now, num_sources |-> answer.num_sources]
      long == Append(log, entry)
  IN  SubSeq(long, Max({1, Len(long) - feedConfig.max_history_entries + 1}), Len(long))

InGrace(a) ==
  cached[a] # None /\ Age(cached[a].cached_at) <= 2 * cached[a].ttl_seconds

(* resolve_price: what is in the cache, else the reports that agree, else   *)
(* the fallback; an asset with none of them has no price.                   *)
Resolved(a) ==
  LET good == NonAnomalous(ValidatePrices(FetchAll(a))) IN
  IF InGrace(a) THEN cached[a].aggregated
  ELSE IF good # <<>> THEN Aggregate(good, feedMethod)
  ELSE IF fallback[a] # None THEN FallbackAnswer(a, "Latest")
  ELSE None

(* What it answers is cached again, from the cache or not. *)
GetPrice(a) ==
  /\ Resolved(a) # None
  /\ cached' = [cached EXCEPT ![a] = Cached(Resolved(a))]
  /\ priceLog' = [priceLog EXCEPT ![a] = Logged(@, Resolved(a))]
  /\ UNCHANGED <<now, settings, report, calls>>

(* get_price_with_method: reports that all stray are aggregated after all.  *)
ByMethod(a, method) ==
  LET valid == ValidatePrices(FetchAll(a))
      good == NonAnomalous(valid)
  IN  Aggregate(IF good = <<>> THEN valid ELSE good, method)

(* Each request of a batch is a call.  One that finds no report is answered *)
(* with the fallback or with an error, and changes nothing.                 *)
BatchGetPrices(requests) ==
  LET Answered(a) == {i \in DOMAIN requests : requests[i].asset = a /\ FetchAll(a) # <<>>}
      Replies(a) == SetToSortSeq(Answered(a), LAMBDA x, y : x < y)
      AnswerTo(i) == ByMethod(requests[i].asset, requests[i].method)
  IN
  /\ \E a \in Assets : Answered(a) # {}
  /\ cached' = [a \in Assets |-> IF Answered(a) = {} THEN cached[a]
                                 ELSE Cached(AnswerTo(Max(Answered(a))))]
  /\ priceLog' = [a \in Assets |->
       FoldLeft(LAMBDA log, i : Logged(log, AnswerTo(i)), priceLog[a], Replies(a))]
  /\ UNCHANGED <<now, settings, report, calls>>

GetPriceWithMethod(a, method) == BatchGetPrices(<<[asset |-> a, method |-> method]>>)

Tick ==
  /\ now < MaxTime /\ now' = now + 1
  /\ UNCHANGED <<settings, report, cached, priceLog, calls>>

-----------------------------------------------------------------------------
Next ==
  \/ \E o \in Providers, p \in ProviderSets : RegisterOracle(o, p) \/ UpdateOracle(o, p)
  \/ \E o \in Providers : RemoveOracle(o)
  \/ \E c \in Range(FeedConfigs) : SetValidationConfig(c)
  \/ \E m \in Methods : SetDefaultMethod(m)
  \/ \E a \in Assets, p \in Prices : SetFallbackPrice(a, p)
  \/ \E a \in Assets : ClearCache(a) \/ Track(a) \/ Untrack(a)
  \/ \E a \in Assets, o \in Providers, p \in Points : SubmitPrice(a, o, p)
  \/ \E a \in Assets, b \in Batches : BatchSubmitPrices(a, b)
  \/ \E a \in Assets : GetPrice(a)
  \/ \E a \in Assets, m \in Methods : GetPriceWithMethod(a, m)
  \/ Tick

Spec == Init /\ [][Next]_vars

-----------------------------------------------------------------------------
(* Properties *)

(* The fresh reports of the active providers, whatever they say of them. *)
Current(a) ==
  {o \in Providers :
     /\ oracles[o] # None /\ oracles[o].is_active /\ report[a][o] # None
     /\ report[a][o].timestamp > 0
     /\ now - report[a][o].timestamp <= feedConfig.default_ttl_seconds}

(* Half of the reports, or more, are on either side of the middle. *)
Middle(a, price) ==
  LET Side(Beyond(_, _)) == {o \in Current(a) : Beyond(report[a][o].price, price)}
  IN  /\ 2 * Cardinality(Side(LAMBDA x, y : x < y)) <= Cardinality(Current(a))
      /\ 2 * Cardinality(Side(LAMBDA x, y : x > y)) <= Cardinality(Current(a))

(* Most of them are of a positive price, and none has a weight of zero. *)
MostlyPositive(a) ==
  2 * Cardinality({o \in Current(a) : report[a][o].price > 0}) > Cardinality(Current(a))

Weighed(a) ==
  \A o \in Current(a) :
    oracles[o].trust_weight > 0 /\ Age(report[a][o].timestamp) < 1000000

(***************************************************************************)
(* get_price: as long as most of the fresh reports of active providers are  *)
(* of a positive price, a price it aggregates, by whatever method, strays   *)
(* from the middle of these reports by no more than the allowed deviation:  *)
(* a minority cannot move it further, whatever prices, times and statuses   *)
(* it sends.  (Where the median is zero or less nothing is filtered out at  *)
(* all, and weights of zero make a price of zero.)                          *)
(***************************************************************************)
AnswersNearMiddle ==
  [][\A a \in Assets :
       GetPrice(a) /\ ~InGrace(a) /\ cached'[a].aggregated.num_sources > 0
       /\ MostlyPositive(a) /\ Weighed(a) =>
         \E lo, hi \in {report[a][o].price : o \in Current(a)} : \E m \in lo..hi :
           /\ Middle(a, m)
           /\ Distance(cached'[a].aggregated.price, m) * 10000
                < (feedConfig.max_deviation_bps + 1) * m]_vars
=============================================================================
