-------------------------------- MODULE Fees --------------------------------
(***************************************************************************)
(* The fee contract: fee structures, the structure assigned to a portfolio, *)
(* waivers of an address or of a portfolio, collection with its history and *)
(* running totals, and the reports made of the history.  A fee is recorded, *)
(* no token moves.  Labels, and the time and the caller of a record, are    *)
(* left out.                                                                *)
(***************************************************************************)
EXTENDS Integers, ListOps, Functions, Lists

CONSTANTS
  People, Admin, Portfolios, FeeIds,
  Structures,     \* FeeStructure that admins ask for
  Caps,           \* caps they set afterwards, or None
  WaiverTerms,    \* discount_bps, waived and expires_at (0: never) of waivers
  Bases,          \* amounts that fees are charged on
  Recipients,     \* lists of revenue recipients
  MaxHistory, MaxRecipients,  \* MAX_HISTORY, MAX_RECIPIENTS
  MaxTotal,       \* bound of the exploration on what is collected
  MaxWaivers,     \* bound of the exploration on the waivers (the code has none)
  MaxTime,
  None

VARIABLES
  now, feeAdmin, feeStructure, portfolioFee, waivers, recipients,
  feeHistory, totalCollected, categoryTotal, portfolioTotal

settings == <<feeAdmin, feeStructure, portfolioFee, waivers, recipients>>
ledger == <<feeHistory, totalCollected, categoryTotal, portfolioTotal>>
vars == <<now, settings, ledger>>

BpsDenom == 10000

FeeCategory == {"Rebalancing", "Yield", "Management", "Trading", "Protocol", "Custom"}

FeeWaiver ==
  [address : People \cup {None}, portfolio : Portfolios \cup {None}, discount_bps : 0..BpsDenom,
   waived : BOOLEAN, expires_at : Nat]

FeeRecord ==
  [fee_id : FeeIds, category : FeeCategory, portfolio_id : Portfolios, base_amount : Int,
   fee_amount : Int, discount_bps : 0..BpsDenom, waived : BOOLEAN]

FeeStructure ==
  [fee_type : {"Flat", "Percentage", "Tiered"}, amount_bps : Int,
   tiered_entries : Seq([threshold : Int, fee_bps : Int]), category : FeeCategory,
   active : BOOLEAN, fee_cap : Int \cup {None}]

RevenueRecipient == [address : People, share : Nat]

FeesAssumption ==
  /\ Admin \in People /\ IsFiniteSet(Portfolios)
  /\ None \notin People \cup Portfolios \cup FeeIds \cup FeeStructure
  /\ Structures \subseteq FeeStructure /\ Caps \subseteq Int \cup {None}
  /\ WaiverTerms \subseteq [discount_bps : Int, waived : BOOLEAN, expires_at : Nat]
  /\ Bases \subseteq Int /\ Recipients \subseteq Seq(RevenueRecipient)
  /\ MaxHistory \in Nat \ {0} /\ MaxRecipients \in Nat /\ MaxTotal \in Nat

TypeOK ==
  /\ now \in Nat
  /\ feeAdmin \in People
  /\ feeStructure \in [FeeIds -> FeeStructure \cup {None}]
  /\ portfolioFee \in [Portfolios -> FeeIds \cup {None}]
  /\ waivers \in Seq(FeeWaiver)
  /\ recipients \in Seq(RevenueRecipient) /\ Len(recipients) <= MaxRecipients
  /\ feeHistory \in Seq(FeeRecord) /\ Len(feeHistory) <= MaxHistory
  /\ totalCollected \in Int
  /\ categoryTotal \in [FeeCategory -> Int] /\ portfolioTotal \in [Portfolios -> Int]

Init ==
  /\ now = 1
  /\ feeAdmin = Admin
  /\ feeStructure = [id \in FeeIds |-> None]
  /\ portfolioFee = [f \in Portfolios |-> None]
  /\ waivers = <<>> /\ recipients = <<>>
  /\ feeHistory = <<>> /\ totalCollected = 0
  /\ categoryTotal = [c \in FeeCategory |-> 0] /\ portfolioTotal = [f \in Portfolios |-> 0]

-----------------------------------------------------------------------------
(* The fee of an amount *)

(* Integer division of the code: towards zero.                              *)
Quotient(a, b) == IF a >= 0 THEN a \div b ELSE -((-a) \div b)

(* calculate_tiered_fee: the last tier of the list that the amount reaches. *)
TieredFee(tiers, amount) ==
  LET reached == {i \in DOMAIN tiers : amount >= tiers[i].threshold}
  IN  IF reached = {} THEN 0 ELSE Quotient(amount * tiers[Max(reached)].fee_bps, BpsDenom)

(* compute_raw_fee *)
RawFee(fs, amount) ==
  CASE fs.fee_type = "Flat" -> fs.amount_bps
    [] fs.fee_type = "Percentage" -> Quotient(amount * fs.amount_bps, BpsDenom)
    [] fs.fee_type = "Tiered" -> TieredFee(fs.tiered_entries, amount)

ClampFee(fee, base) == Min({Max({fee, 0}), base})

ApplyFeeCap(fee, cap) == IF cap # None /\ cap >= 0 /\ cap < fee THEN cap ELSE fee

ApplyDiscount(fee, w) ==
  IF w.waived THEN 0
  ELSE IF w.discount_bps <= 0 THEN fee
  ELSE Max({Quotient(fee * (BpsDenom - w.discount_bps), BpsDenom), 0})

(* calculate_fee *)
Gross(id, amount) ==
  LET fs == feeStructure[id]
  IN  ApplyFeeCap(ClampFee(RawFee(fs, amount), amount), fs.fee_cap)

(* validate_fee_structure *)
StructureValid(fs) ==
  /\ fs.fee_type = "Percentage" => fs.amount_bps \in 0..BpsDenom
  /\ fs.fee_type = "Flat" => fs.amount_bps >= 0
  /\ fs.fee_type = "Tiered" => fs.tiered_entries # <<>>
  /\ fs.fee_cap # None => fs.fee_cap >= 0

(* waiver_is_active *)
WaiverActive(w) == w.expires_at = 0 \/ now < w.expires_at

(* What the first waiver of some places grants.                             *)
Granted(places) ==
  IF places = {} THEN [discount_bps |-> 0, waived |-> FALSE]
  ELSE LET w == waivers[Min(places)] IN [discount_bps |-> w.discount_bps, waived |-> w.waived]

ResolveForPortfolio(f) ==
  Granted({i \in DOMAIN waivers : WaiverActive(waivers[i]) /\ waivers[i].portfolio = f})

(* Mutant: a waiver that has expired still counts.                          *)
ResolveExpired(p, f) ==
  Granted({i \in DOMAIN waivers : waivers[i].address = p \/ waivers[i].portfolio = f})

ResolveForCollect(p, f) ==
  Granted({i \in DOMAIN waivers : /\ WaiverActive(waivers[i])
                                  /\ waivers[i].address = p \/ waivers[i].portfolio = f})

Chargeable(id) == feeStructure[id] # None /\ feeStructure[id].active

(* estimate_fee, and calculate_portfolio_fee: the assigned structure first. *)
QuotedId(id, f) == IF portfolioFee[f] = None THEN id ELSE portfolioFee[f]
EstimateFee(id, f, amount) ==
  ApplyDiscount(Gross(QuotedId(id, f), amount), ResolveForPortfolio(f))

-----------------------------------------------------------------------------
(* Settings, by the admin *)

TransferAdmin(p, q) ==
  /\ p = feeAdmin
  /\ feeAdmin' = q
  /\ UNCHANGED <<now, feeStructure, portfolioFee, waivers, recipients, ledger>>

SetFeeStructure(p, id, fs) ==
  /\ p = feeAdmin
  /\ StructureValid(fs)
  /\ feeStructure' = [feeStructure EXCEPT ![id] = fs]
  /\ UNCHANGED <<now, feeAdmin, portfolioFee, waivers, recipients, ledger>>

SetFeeActive(p, id, active) ==
  /\ p = feeAdmin
  /\ feeStructure[id] # None
  /\ feeStructure' = [feeStructure EXCEPT ![id].active = active]
  /\ UNCHANGED <<now, feeAdmin, portfolioFee, waivers, recipients, ledger>>

(* The new cap is not validated.                                            *)
SetFeeCap(p, id, cap) ==
  /\ p = feeAdmin
  /\ feeStructure[id] # None
  /\ feeStructure' = [feeStructure EXCEPT ![id].fee_cap = cap]
  /\ UNCHANGED <<now, feeAdmin, portfolioFee, waivers, recipients, ledger>>

SetPortfolioFee(p, f, id) ==
  /\ p = feeAdmin
  /\ feeStructure[id] # None
  /\ portfolioFee' = [portfolioFee EXCEPT ![f] = id]
  /\ UNCHANGED <<now, feeAdmin, feeStructure, waivers, recipients, ledger>>

RemovePortfolioFee(p, f) ==
  /\ p = feeAdmin
  /\ portfolioFee' = [portfolioFee EXCEPT ![f] = None]
  /\ UNCHANGED <<now, feeAdmin, feeStructure, waivers, recipients, ledger>>

(* waiver_same_target *)
SameTarget(a, b) == a.address = b.address /\ a.portfolio = b.portfolio

SetFeeWaiver(p, w) ==
  /\ p = feeAdmin
  /\ w.discount_bps \in 0..BpsDenom
  /\ LET same == {i \in DOMAIN waivers : SameTarget(waivers[i], w)}
     IN  waivers' = IF same = {} THEN Append(waivers, w) ELSE [waivers EXCEPT ![Min(same)] = w]
  /\ Len(waivers') <= MaxWaivers
  /\ UNCHANGED <<now, feeAdmin, feeStructure, portfolioFee, recipients, ledger>>

RemoveFeeWaiver(p, address, portfolio) ==
  /\ p = feeAdmin
  /\ waivers' = Kept(waivers, LAMBDA w : ~SameTarget(w, [address |-> address,
                                                        portfolio |-> portfolio]))
  /\ UNCHANGED <<now, feeAdmin, feeStructure, portfolioFee, recipients, ledger>>

SetRevenueRecipients(p, rs) ==
  /\ p = feeAdmin
  /\ Len(rs) <= MaxRecipients
  /\ recipients' = rs
  /\ UNCHANGED <<now, feeAdmin, feeStructure, portfolioFee, waivers, ledger>>

-----------------------------------------------------------------------------
(* Collection *)

(* append_fee_record: the oldest record makes room.                         *)
Remembered(record) ==
  Append(IF Len(feeHistory) >= MaxHistory THEN Tail(feeHistory) ELSE feeHistory, record)

(* collect_fee, and the calls that collect a fee of a fixed id: the id is    *)
(* the caller's, whatever is assigned to the portfolio.                      *)
CollectFee(p, id, f, base) ==
  /\ Chargeable(id)
  /\ LET w == ResolveForCollect(p, f)
         fee == ApplyDiscount(Gross(id, base), w)
         category == feeStructure[id].category
     IN  /\ totalCollected + fee \in -MaxTotal..MaxTotal
         /\ feeHistory' = Remembered([fee_id |-> id, category |-> category, portfolio_id |-> f,
                                      base_amount |-> base, fee_amount |-> fee,
                                      discount_bps |-> w.discount_bps, waived |-> w.waived])
         /\ totalCollected' = totalCollected + fee
         /\ categoryTotal' = [categoryTotal EXCEPT ![category] = @ + fee]
         /\ portfolioTotal' = [portfolioTotal EXCEPT ![f] = @ + fee]
  /\ UNCHANGED <<now, settings>>

Tick ==
  /\ now < MaxTime
  /\ now' = now + 1
  /\ UNCHANGED <<settings, ledger>>

Next ==
  \/ Tick
  \/ \E p \in People :
       \/ \E q \in People : TransferAdmin(p, q)
       \/ \E rs \in Recipients : SetRevenueRecipients(p, rs)
       \/ \E a \in People \cup {None}, f \in Portfolios \cup {None} :
            \/ RemoveFeeWaiver(p, a, f)
            \/ \E t \in WaiverTerms :
                 SetFeeWaiver(p, [address |-> a, portfolio |-> f, discount_bps |-> t.discount_bps,
                                  waived |-> t.waived, expires_at |-> t.expires_at])
       \/ \E f \in Portfolios : RemovePortfolioFee(p, f)
       \/ \E id \in FeeIds :
            \/ \E fs \in Structures : SetFeeStructure(p, id, fs)
            \/ \E active \in BOOLEAN : SetFeeActive(p, id, active)
            \/ \E cap \in Caps : SetFeeCap(p, id, cap)
            \/ \E f \in Portfolios :
                 \/ SetPortfolioFee(p, f, id)
                 \/ \E base \in Bases : CollectFee(p, id, f, base)

Spec == Init /\ [][Next]_vars

-----------------------------------------------------------------------------
(* Reports *)

(* The fees of the records at some places.                                  *)
Collected(records, places) ==
  SumFunctionOnSet([i \in DOMAIN records |-> records[i].fee_amount], places)

(* Categories without a positive sum are not listed.                        *)
ByCategory(records, places) ==
  LET sum == [c \in FeeCategory |->
                Collected(records, {i \in places : records[i].category = c})]
  IN  Restrict(sum, {c \in FeeCategory : sum[c] > 0})

(* build_fee_summary: what a fee is short of its base counts as discount.   *)
FeeSummary(records) ==
  LET all == DOMAIN records
  IN  [total_collected |-> Collected(records, all),
       by_category |-> ByCategory(records, all),
       total_discounts |-> SumFunction([i \in all |->
                             Max({0, IF records[i].waived THEN records[i].base_amount
                                     ELSE records[i].base_amount - records[i].fee_amount})]),
       waived_count |-> InList(records, LAMBDA r : r.waived)]

(* build_portfolio_report *)
PortfolioReport(f, records) ==
  LET own == {i \in DOMAIN records : records[i].portfolio_id = f}
  IN  [total_fees |-> Collected(records, own), event_count |-> Cardinality(own),
       by_category |-> ByCategory(records, own)]

(* distribute_revenue: shares rounded down, the rest to the first.          *)
Distributed(amount) ==
  LET shares == SumFunction([i \in DOMAIN recipients |-> recipients[i].share])
      parts == [i \in DOMAIN recipients |-> (recipients[i].share * amount) \div shares]
  IN  IF amount <= 0 \/ shares = 0 THEN <<>>
      ELSE [parts EXCEPT ![1] = @ + amount - SumFunction(parts)]

-----------------------------------------------------------------------------
(* Properties *)

(***************************************************************************)
(* collect_fee and the reports: the three running totals agree with one     *)
(* another; while the history has dropped nothing, a summary made of it,    *)
(* its portfolio reports and its categories tell the same amounts; and what *)
(* distribute_revenue makes of a fee adds up to that fee.                   *)
(***************************************************************************)
FeesAccounted ==
  LET summary == FeeSummary(feeHistory)
      earning == {c \in FeeCategory : categoryTotal[c] > 0}
  IN  /\ totalCollected = SumFunction(categoryTotal)
      /\ totalCollected = SumFunction(portfolioTotal)
      /\ Len(feeHistory) < MaxHistory =>
           /\ summary.total_collected = totalCollected
           /\ summary.by_category = Restrict(categoryTotal, earning)
           /\ \A f \in Portfolios :
                PortfolioReport(f, feeHistory).total_fees = portfolioTotal[f]
      /\ \A i \in DOMAIN feeHistory :
           LET fee == feeHistory[i].fee_amount
               parts == Distributed(fee)
           IN  parts # <<>> => SumFunction(parts) = fee

(***************************************************************************)
(* estimate_fee promises what collect_fee charges: to a caller with no      *)
(* waiver of its own, for a structure that is the portfolio's or when the   *)
(* portfolio has none, the next fee recorded is the one quoted.             *)
(***************************************************************************)
QuoteHonoured ==
  [][ledger' # ledger => \A p \in People, id \in FeeIds, f \in Portfolios, base \in Bases :
       /\ CollectFee(p, id, f, base)
       /\ portfolioFee[f] \in {None, id}
       /\ \A i \in DOMAIN waivers : WaiverActive(waivers[i]) => waivers[i].address # p
       => Last(feeHistory').fee_amount = EstimateFee(id, f, base)]_vars
=============================================================================
