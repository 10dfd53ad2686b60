--------------------------- MODULE StakingContract ---------------------------
(***************************************************************************)
(* The staking contract: the stakes of Staking, whose names this module     *)
(* takes over, and the yield engine of Yield beside them.  They share the   *)
(* ledger clock and nothing else.                                           *)
(***************************************************************************)
EXTENDS Staking

CONSTANTS
  Coins,               \* the assets yield positions are opened in
  Principals, Rates, Earned(_, _, _), Offers,
  Claims,              \* amounts claimed, funded and withdrawn
  MaxReserve, MaxSchedules, MaxLogged

VARIABLES record, logged, claimed, paid, schedules, offered, reserve, paused

yieldVars == <<record, logged, claimed, paid, schedules, offered, reserve, paused>>
contractVars == <<now, stakes, totals, exits, yieldVars>>

Yields == INSTANCE Yield WITH Assets <- Coins, Amounts <- Claims

ASSUME YieldAssumption == Yields!YieldAssumption

ContractInit == Init /\ Yields!Init

(* A call of one side, or the ledger closes for both. *)
StakeStep == Next /\ UNCHANGED yieldVars
YieldStep == Yields!Next /\ UNCHANGED <<stakes, totals, exits>>

ContractNext == StakeStep \/ YieldStep

ContractSpec == ContractInit /\ [][ContractNext]_contractVars

-----------------------------------------------------------------------------
(* Properties *)

(* Both sides keep their types, and the amount a position stores stays the  *)
(* balance of its pair, which two modules write (PrincipalMirrorsBalance).  *)
StakesTyped == TypeOK /\ PrincipalMirrorsBalance /\ Yields!TypeOK

(* What a staker is told and paid is what was earned and due: the history   *)
(* of its yield (HistoryTrue), the dates of its distributions.              *)
YieldAccounted == Yields!HistoryTrue /\ Yields!PaidOncePerDate

(***************************************************************************)
(* No order of calls creates, loses or pays twice what was earned           *)
(* (EntitlementKept), and a payout of a reserve falls to stakers in full    *)
(* (ReserveBacksPayouts).                                                   *)
(***************************************************************************)
YieldConserved == Yields!Conserved
=============================================================================
