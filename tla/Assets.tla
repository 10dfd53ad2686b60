------------------------------- MODULE Assets -------------------------------
(***************************************************************************)
(* The asset registry: the assets of each portfolio, stored twice, as an    *)
(* entry per symbol and as the portfolio's list, and the prices they are    *)
(* valued at.  The labels of an asset (name, type, risk level) are one      *)
(* field.  A call that returns an error leaves nothing behind.              *)
(***************************************************************************)
EXTENDS Integers, ListOps, Functions, Lists

CONSTANTS
  People, Portfolios, Symbols,
  Metadata,       \* labels an asset may carry
  Decimals, Balances, Prices, \* what callers ask for
  MaxAssets,      \* MAX_ASSETS_PER_PORTFOLIO
  None

VARIABLES registryAdmin, assetEntry, portfolioAssets, assetPrice, registered

vars == <<registryAdmin, assetEntry, portfolioAssets, assetPrice, registered>>

Asset ==
  [symbol : Symbols, metadata : Metadata, decimals : Int, balance : Int, is_active : BOOLEAN]

PortfolioSummary == [asset_count : Nat, total_value : Int, active_asset_count : Nat]

AssetsAssumption ==
  /\ Decimals \cup Balances \cup Prices \subseteq Int /\ MaxAssets \in Nat
  /\ None \notin People \cup Asset \cup Int /\ None \notin Seq(Asset) \cup PortfolioSummary

TypeOK ==
  /\ registryAdmin \in People \cup {None}
  /\ assetEntry \in [Portfolios -> [Symbols -> Asset \cup {None}]]
  /\ portfolioAssets \in [Portfolios -> Seq(Asset) \cup {None}]
  /\ \A f \in Portfolios : portfolioAssets[f] # None => Len(portfolioAssets[f]) <= MaxAssets
  /\ assetPrice \in [Symbols -> Prices \cup {None}]
  /\ registered \in Seq(Portfolios)

Init ==
  /\ registryAdmin = None
  /\ assetEntry = [f \in Portfolios |-> [s \in Symbols |-> None]]
  /\ portfolioAssets = [f \in Portfolios |-> None]
  /\ assetPrice = [s \in Symbols |-> None]
  /\ registered = <<>>

(* validate_decimals, validate_balance, validate_price *)
DecimalsValid(d) == d <= 18
BalanceValid(b) == b >= 0
PriceValid(x) == x > 0

(* get_portfolio_assets *)
Listed(f) == IF portfolioAssets[f] = None THEN <<>> ELSE portfolioAssets[f]

(* The first place of a symbol in a list, or 0.                             *)
PlaceOf(list, s) == SelectInSeq(list, LAMBDA a : a.symbol = s)

-----------------------------------------------------------------------------

Initialize(p) ==
  /\ registryAdmin = None
  /\ registryAdmin' = p
  /\ UNCHANGED <<assetEntry, portfolioAssets, assetPrice, registered>>

AddAsset(p, f, a) ==
  /\ p = registryAdmin
  /\ DecimalsValid(a.decimals) /\ BalanceValid(a.balance)
  /\ assetEntry[f][a.symbol] = None
  /\ Len(Listed(f)) < MaxAssets
  /\ assetEntry' = [assetEntry EXCEPT ![f][a.symbol] = a]
  /\ portfolioAssets' = [portfolioAssets EXCEPT ![f] = Append(Listed(f), a)]
  /\ registered' = IF Contains(registered, f) THEN registered ELSE Append(registered, f)
  /\ UNCHANGED <<registryAdmin, assetPrice>>

(* Mutant: the asset stays in the list.                                     *)
RemoveEntryOnly(p, f, s) ==
  /\ p = registryAdmin
  /\ assetEntry[f][s] # None
  /\ assetEntry[f][s].balance = 0
  /\ assetEntry' = [assetEntry EXCEPT ![f][s] = None]
  /\ UNCHANGED <<registryAdmin, portfolioAssets, assetPrice, registered>>

RemoveAsset(p, f, s) ==
  /\ p = registryAdmin
  /\ assetEntry[f][s] # None
  /\ assetEntry[f][s].balance = 0
  /\ assetEntry' = [assetEntry EXCEPT ![f][s] = None]
  /\ LET i == PlaceOf(Listed(f), s)
     IN  portfolioAssets' = [portfolioAssets EXCEPT ![f] =
           IF i = 0 THEN Listed(f) ELSE RemoveAt(Listed(f), i)]
  /\ UNCHANGED <<registryAdmin, assetPrice, registered>>

(* The entry is read, edited and stored, and replaces its copy in the list. *)
Store(f, a) ==
  /\ assetEntry' = [assetEntry EXCEPT ![f][a.symbol] = a]
  /\ LET i == PlaceOf(Listed(f), a.symbol)
     IN  portfolioAssets' = [portfolioAssets EXCEPT ![f] =
           IF i = 0 THEN Listed(f) ELSE ReplaceAt(Listed(f), i, a)]
  /\ UNCHANGED <<registryAdmin, assetPrice, registered>>

UpdateAssetBalance(p, f, s, balance) ==
  /\ p = registryAdmin
  /\ BalanceValid(balance)
  /\ assetEntry[f][s] # None
  /\ Store(f, [assetEntry[f][s] EXCEPT !.balance = balance])

UpdateAssetMetadata(p, f, s, metadata, decimals) ==
  /\ p = registryAdmin
  /\ DecimalsValid(decimals)
  /\ assetEntry[f][s] # None
  /\ Store(f, [assetEntry[f][s] EXCEPT !.metadata = metadata, !.decimals = decimals])

SetAssetPrice(p, s, x) ==
  /\ p = registryAdmin
  /\ PriceValid(x)
  /\ assetPrice' = [assetPrice EXCEPT ![s] = x]
  /\ UNCHANGED <<registryAdmin, assetEntry, portfolioAssets, registered>>

Next ==
  \E p \in People :
    \/ Initialize(p)
    \/ \E s \in Symbols, x \in Prices : SetAssetPrice(p, s, x)
    \/ \E f \in Portfolios, s \in Symbols :
         \/ \E m \in Metadata, d \in Decimals, b \in Balances, act \in BOOLEAN :
              AddAsset(p, f, [symbol |-> s, metadata |-> m, decimals |-> d, balance |-> b,
                              is_active |-> act])
         \/ RemoveAsset(p, f, s)
         \/ \E b \in Balances : UpdateAssetBalance(p, f, s, b)
         \/ \E m \in Metadata, d \in Decimals : UpdateAssetMetadata(p, f, s, m, d)

Spec == Init /\ [][Next]_vars

-----------------------------------------------------------------------------
(* What the registry answers *)

(* get_asset_value: None without a price.                                   *)
AssetValue(f, s) ==
  IF assetEntry[f][s] = None \/ assetPrice[s] = None THEN None
  ELSE assetEntry[f][s].balance * assetPrice[s]

(* get_portfolio_value: an asset without a price is worth nothing.          *)
Worth(a) == IF assetPrice[a.symbol] = None THEN 0 ELSE a.balance * assetPrice[a.symbol]

PortfolioValue(f) == SumFunction([i \in DOMAIN Listed(f) |-> Worth(Listed(f)[i])])

(* get_portfolio_summary *)
Summary(f) ==
  IF portfolioAssets[f] = None THEN None
  ELSE [asset_count |-> Len(Listed(f)),
        total_value |-> PortfolioValue(f),
        active_asset_count |-> InList(Listed(f), LAMBDA a : a.is_active)]

(***************************************************************************)
(* add_asset, remove_asset, update_asset_*: every change is made to both    *)
(* copies, so what get_portfolio_summary reads off the list is what the     *)
(* entries hold: as many assets, as many of them active, worth as much; and *)
(* a portfolio that has ever held an asset is registered once.              *)
(***************************************************************************)
SummaryTrue ==
  \A f \in Portfolios :
    LET held == {s \in Symbols : assetEntry[f][s] # None}
        priced == {s \in held : AssetValue(f, s) # None}
    IN  IF Summary(f) = None THEN held = {} /\ ~Contains(registered, f)
        ELSE /\ Summary(f).asset_count = Cardinality(held)
             /\ Summary(f).active_asset_count =
                  Cardinality({s \in held : assetEntry[f][s].is_active})
             /\ Summary(f).total_value = SumFunction([s \in priced |-> AssetValue(f, s)])
             /\ Cardinality({i \in DOMAIN registered : registered[i] = f}) = 1
=============================================================================
