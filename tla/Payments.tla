------------------------------ MODULE Payments ------------------------------
(***************************************************************************)
(* The payments contract: internal balances backed by tokens the contract   *)
(* holds, transfers between accounts, per-transaction caps and two-party    *)
(* escrows.                                                                 *)
(*                                                                          *)
(* A call to the contract is one ledger transaction: an error return or a   *)
(* trap undoes all of it.  An action is therefore a whole successful call   *)
(* and its guard the conjunction of the checks the call must pass.  Errors, *)
(* events and the getters change nothing and are left out.                  *)
(***************************************************************************)
EXTENDS Integers, Totals

CONSTANTS
  Users,         \* addresses that can authorize a call
  Self,          \* the contract's own address: may receive, never calls
  Admins,        \* addresses the admin role is given to
  Assets,        \* asset symbols
  Tokens,        \* token contracts
  TokenChoices,  \* TokenChoices[a]: the tokens an admin may register for a
  Caps,          \* cap values an admin may set
  InitialWallet, \* tokens the users hold before the first call
  MaxAmount,     \* i128::MAX
  MaxEscrows,    \* u64::MAX, the last escrow id
  None

Holders == Users \cup {Self}
Accounts == Holders \X Assets
Purses == Holders \X Tokens
Amounts == 1..MaxAmount

ASSUME PaymentsAssumption ==
  /\ IsFiniteSet(Users) /\ IsFiniteSet(Assets) /\ IsFiniteSet(Tokens)
  /\ Self \notin Users
  /\ None \notin Users \cup Admins \cup Tokens
  /\ TokenChoices \in [Assets -> SUBSET Tokens]
  /\ MaxAmount \in Nat /\ MaxEscrows \in Nat
  /\ Caps \subseteq Nat
  /\ InitialWallet \in [Purses -> 0..MaxAmount]
  /\ \A t \in Tokens : InitialWallet[<<Self, t>>] = 0

(***************************************************************************)
(* How a cap key reads.  A cap set to 0 is stored as Option::None, which is *)
(* a Void value under the key; effective_cap reads the key as an i128.      *)
(***************************************************************************)
NoCap == 0      \* the key is absent
VoidCap == -1   \* the key holds Void

VARIABLES
  admin,            \* Admin, or None before initialize
  tokenMap,         \* TokenMap(asset), or None
  balance,          \* Balance(owner, asset), 0 when absent
  globalCap,        \* GlobalCap
  assetCap,         \* AssetCap(asset)
  escrowIdCounter,  \* EscrowIdCounter and EscrowCount, always written alike
  escrow,           \* Escrow(id), for the ids handed out so far
  wallet            \* what each address holds in each token contract

vars == <<admin, tokenMap, balance, globalCap, assetCap, escrowIdCounter, escrow, wallet>>
config == <<admin, tokenMap, globalCap, assetCap>>

EscrowRecord ==
  [asset : Assets, depositor : Users, receiver : Holders, amount : Amounts,
   status : {"Active", "Released", "Refunded"}]

TypeOK ==
  /\ admin \in Admins \cup {None}
  /\ tokenMap \in [Assets -> Tokens \cup {None}]
  /\ \A a \in Assets : tokenMap[a] \in TokenChoices[a] \cup {None}
  /\ balance \in [Accounts -> 0..MaxAmount]
  /\ globalCap \in Nat \cup {VoidCap}
  /\ assetCap \in [Assets -> Nat \cup {VoidCap}]
  /\ escrowIdCounter \in 0..MaxEscrows
  /\ escrow \in [1..escrowIdCounter -> EscrowRecord]
  /\ wallet \in [Purses -> 0..MaxAmount]

Init ==
  /\ admin = None
  /\ tokenMap = [a \in Assets |-> None]
  /\ balance = [k \in Accounts |-> 0]
  /\ globalCap = NoCap
  /\ assetCap = [a \in Assets |-> NoCap]
  /\ escrowIdCounter = 0
  /\ escrow = [i \in 1..0 |-> None]
  /\ wallet = InitialWallet

-----------------------------------------------------------------------------
(* The token contract, as the payments contract uses it: a transfer traps   *)
(* when the sender is short or the receiver's i128 would overflow.          *)

TokenTransfer(t, from, to, amount) ==
  /\ amount <= wallet[<<from, t>>]
  /\ IF from = to
     THEN wallet' = wallet
     ELSE /\ wallet[<<to, t>>] + amount <= MaxAmount
          /\ wallet' = [wallet EXCEPT ![<<from, t>>] = @ - amount,
                                     ![<<to, t>>] = @ + amount]

(* Tokens sent to the contract's address without calling the contract. *)
SendToContract(u, t, amount) ==
  /\ TokenTransfer(t, u, Self, amount)
  /\ UNCHANGED <<config, balance, escrowIdCounter, escrow>>

-----------------------------------------------------------------------------
(* Administration *)

Initialize(a) ==
  /\ admin = None
  /\ admin' = a
  /\ UNCHANGED <<tokenMap, balance, globalCap, assetCap, escrowIdCounter, escrow, wallet>>

TransferAdmin(caller, new) ==
  /\ caller = admin
  /\ admin' = new
  /\ UNCHANGED <<tokenMap, balance, globalCap, assetCap, escrowIdCounter, escrow, wallet>>

SetToken(caller, asset, t) ==
  /\ caller = admin
  /\ tokenMap' = [tokenMap EXCEPT ![asset] = t]
  /\ UNCHANGED <<admin, balance, globalCap, assetCap, escrowIdCounter, escrow, wallet>>

StoredCap(cap) == IF cap = 0 THEN VoidCap ELSE cap

SetGlobalCap(caller, cap) ==
  /\ caller = admin
  /\ globalCap' = StoredCap(cap)
  /\ UNCHANGED <<admin, tokenMap, balance, assetCap, escrowIdCounter, escrow, wallet>>

SetAssetCap(caller, asset, cap) ==
  /\ caller = admin
  /\ assetCap' = [assetCap EXCEPT ![asset] = StoredCap(cap)]
  /\ UNCHANGED <<admin, tokenMap, balance, globalCap, escrowIdCounter, escrow, wallet>>

-----------------------------------------------------------------------------
(* Balances *)

(* check_cap over effective_cap: reading a Void cap traps the call. *)
CheckCap(asset, amount) ==
  \A cap \in {globalCap, assetCap[asset]} :
    cap # VoidCap /\ (cap # NoCap => amount <= cap)

Registered(asset) == tokenMap[asset] # None

Deposit(from, asset, amount) ==
  /\ Registered(asset)
  /\ balance[<<from, asset>>] + amount <= MaxAmount
  /\ balance' = [balance EXCEPT ![<<from, asset>>] = @ + amount]
  /\ TokenTransfer(tokenMap[asset], from, Self, amount)
  /\ UNCHANGED <<config, escrowIdCounter, escrow>>

(* Mutant: withdraw pays without writing the reduced balance. *)
WithdrawUndebited(to, asset, amount) ==
  /\ CheckCap(asset, amount)
  /\ Registered(asset)
  /\ amount <= balance[<<to, asset>>]
  /\ TokenTransfer(tokenMap[asset], Self, to, amount)
  /\ UNCHANGED <<config, balance, escrowIdCounter, escrow>>

Withdraw(to, asset, amount) ==
  /\ CheckCap(asset, amount)
  /\ Registered(asset)
  /\ amount <= balance[<<to, asset>>]
  /\ balance' = [balance EXCEPT ![<<to, asset>>] = @ - amount]
  /\ TokenTransfer(tokenMap[asset], Self, to, amount)
  /\ UNCHANGED <<config, escrowIdCounter, escrow>>

Transfer(from, to, asset, amount) ==
  /\ from # to
  /\ CheckCap(asset, amount)
  /\ amount <= balance[<<from, asset>>]
  /\ balance[<<to, asset>>] + amount <= MaxAmount
  /\ balance' = [balance EXCEPT ![<<from, asset>>] = @ - amount,
                                ![<<to, asset>>] = @ + amount]
  /\ UNCHANGED <<config, escrowIdCounter, escrow, wallet>>

-----------------------------------------------------------------------------
(* Escrow *)

NewEscrow(depositor, receiver, asset, amount) ==
  [asset |-> asset, depositor |-> depositor, receiver |-> receiver,
   amount |-> amount, status |-> "Active"]

(* Mutants: the escrow id is not checked for overflow; the amount locked is *)
(* not taken from the depositor's balance.                                  *)
CreateEscrowUnbounded(depositor, receiver, asset, amount) ==
  LET id == escrowIdCounter + 1 IN
  /\ depositor # receiver
  /\ CheckCap(asset, amount)
  /\ amount <= balance[<<depositor, asset>>]
  /\ balance' = [balance EXCEPT ![<<depositor, asset>>] = @ - amount]
  /\ escrowIdCounter' = id
  /\ escrow' = [i \in 1..id |->
                  IF i = id THEN NewEscrow(depositor, receiver, asset, amount) ELSE escrow[i]]
  /\ UNCHANGED <<config, wallet>>

CreateEscrowUndebited(depositor, receiver, asset, amount) ==
  LET id == escrowIdCounter + 1 IN
  /\ depositor # receiver
  /\ CheckCap(asset, amount)
  /\ amount <= balance[<<depositor, asset>>]
  /\ id <= MaxEscrows
  /\ escrowIdCounter' = id
  /\ escrow' = [i \in 1..id |->
                  IF i = id THEN NewEscrow(depositor, receiver, asset, amount) ELSE escrow[i]]
  /\ UNCHANGED <<config, balance, wallet>>

CreateEscrow(depositor, receiver, asset, amount) ==
  LET id == escrowIdCounter + 1 IN
  /\ depositor # receiver
  /\ CheckCap(asset, amount)
  /\ amount <= balance[<<depositor, asset>>]
  /\ id <= MaxEscrows
  /\ balance' = [balance EXCEPT ![<<depositor, asset>>] = @ - amount]
  /\ escrowIdCounter' = id
  /\ escrow' = [i \in 1..id |->
                  IF i = id THEN NewEscrow(depositor, receiver, asset, amount) ELSE escrow[i]]
  /\ UNCHANGED <<config, wallet>>

(* settle_escrow: either party may ask for either outcome. *)
SettleEscrow(id, caller, to, outcome) ==
  /\ escrow[id].status = "Active"
  /\ caller \in {escrow[id].depositor, escrow[id].receiver}
  /\ escrow' = [escrow EXCEPT ![id].status = outcome]
  /\ Registered(escrow[id].asset)
  /\ TokenTransfer(tokenMap[escrow[id].asset], Self, to, escrow[id].amount)
  /\ UNCHANGED <<config, balance, escrowIdCounter>>

ReleaseEscrow(id, caller) == SettleEscrow(id, caller, escrow[id].receiver, "Released")

(* Mutant: the refund goes to the receiver. *)
RefundReceiver(id, caller) == SettleEscrow(id, caller, escrow[id].receiver, "Refunded")

RefundEscrow(id, caller) == SettleEscrow(id, caller, escrow[id].depositor, "Refunded")

-----------------------------------------------------------------------------
Administer ==
  \/ \E a \in Admins : Initialize(a)
  \/ \E caller, new \in Admins : TransferAdmin(caller, new)
  \/ \E caller \in Admins, a \in Assets : \E t \in TokenChoices[a] : SetToken(caller, a, t)
  \/ \E caller \in Admins, cap \in Caps : SetGlobalCap(caller, cap)
  \/ \E caller \in Admins, a \in Assets, cap \in Caps : SetAssetCap(caller, a, cap)

Pay ==
  \/ \E u \in Users, a \in Assets, n \in Amounts : Deposit(u, a, n)
  \/ \E u \in Users, a \in Assets, n \in Amounts : Withdraw(u, a, n)
  \/ \E u \in Users, v \in Holders, a \in Assets, n \in Amounts : Transfer(u, v, a, n)
  \/ \E u \in Users, t \in Tokens, n \in Amounts : SendToContract(u, t, n)

UseEscrow ==
  \/ \E u \in Users, v \in Holders, a \in Assets, n \in Amounts : CreateEscrow(u, v, a, n)
  \/ \E id \in DOMAIN escrow, u \in Users : ReleaseEscrow(id, u)
  \/ \E id \in DOMAIN escrow, u \in Users : RefundEscrow(id, u)

Next == Administer \/ Pay \/ UseEscrow

Spec == Init /\ [][Next]_vars

-----------------------------------------------------------------------------
(* What the contract owes, and what it holds *)

Held == [t \in Tokens |-> wallet[<<Self, t>>]]
Locked == [i \in DOMAIN escrow |->
             IF escrow[i].status = "Active" THEN escrow[i].amount ELSE 0]
Liabilities == Total(balance) + Total(Locked)

(***************************************************************************)
(* "Internal balances are a mirror of tokens actually held by this          *)
(* contract, never created from thin air" (lib.rs:10): whatever happens,    *)
(* re-registering an asset's token included, the tokens the contract holds  *)
(* cover all balances and all unsettled escrows together.                   *)
(***************************************************************************)
CustodyConserved == Liabilities <= Total(Held)

(***************************************************************************)
(* The same token by token.  A token covers what is owed in it when what    *)
(* the contract holds of it is enough for the balances and the unsettled    *)
(* escrows of the assets registered on it.  Only set_token, which moves an  *)
(* asset's claims to another token, can break that cover: no order of       *)
(* deposits, payouts, transfers and escrows pays one owner with what is     *)
(* owed to another.                                                         *)
(***************************************************************************)
BalanceIn(t) == [k \in Accounts |-> IF tokenMap[k[2]] = t THEN balance[k] ELSE 0]
LockedIn(t) == [i \in DOMAIN escrow |->
                  IF tokenMap[escrow[i].asset] = t THEN Locked[i] ELSE 0]
Covered(t) == Total(BalanceIn(t)) + Total(LockedIn(t)) <= wallet[<<Self, t>>]

CoverKept ==
  [][tokenMap' = tokenMap => \A t \in Tokens : Covered(t) => Covered(t)']_vars

(***************************************************************************)
(* An escrow is settled once and then never changes; the step that settles  *)
(* it pays its amount to the receiver on release and to the depositor on    *)
(* refund, from the contract's own tokens, and settles no other escrow.     *)
(***************************************************************************)
Payee(e) == IF e.status = "Released" THEN e.receiver ELSE e.depositor

EscrowPaysOnce ==
  [][\A i \in DOMAIN escrow :
       /\ i \in DOMAIN escrow'
       /\ escrow'[i] # escrow[i] =>
            /\ escrow[i].status = "Active"
            /\ escrow'[i] \in {[escrow[i] EXCEPT !.status = s] : s \in {"Released", "Refunded"}}
            /\ \A j \in DOMAIN escrow \ {i} : escrow'[j] = escrow[j]
            /\ Payee(escrow'[i]) # Self =>
                 \E t \in Tokens :
                   /\ wallet'[<<Payee(escrow'[i]), t>>]
                        = wallet[<<Payee(escrow'[i]), t>>] + escrow[i].amount
                   /\ wallet'[<<Self, t>>] = wallet[<<Self, t>>] - escrow[i].amount]_vars

(***************************************************************************)
(* Tokens leave the contract only against a claim that is struck out in the *)
(* same step: the receiving owner's balance, or an escrow, falls by what    *)
(* left.  A debit and its transfer can never come apart.                    *)
(***************************************************************************)
OutflowAccounted ==
  [][\A t \in Tokens :
       LET out == wallet[<<Self, t>>] - wallet'[<<Self, t>>] IN
       out > 0 =>
         \/ \E u \in Users, a \in Assets :
              /\ balance[<<u, a>>] - balance'[<<u, a>>] = out
              /\ wallet'[<<u, t>>] - wallet[<<u, t>>] = out
         \/ \E i \in DOMAIN escrow : Locked[i] = out /\ Locked'[i] = 0]_vars

(***************************************************************************)
(* No single step takes more from an account than the smaller of the caps   *)
(* in force, whichever entry point it goes through.                         *)
(***************************************************************************)
SpendWithinCap ==
  [][\A k \in Accounts : \A cap \in {globalCap, assetCap[k[2]]} :
       cap > 0 => balance[k] - balance'[k] <= cap]_vars

(***************************************************************************)
(* Tokens leave the contract only against a claim (OutflowAccounted), and   *)
(* against an escrow once and to the one it is due to (EscrowPaysOnce).     *)
(***************************************************************************)
PayoutsAccounted == OutflowAccounted /\ EscrowPaysOnce

(***************************************************************************)
(* A step takes no more than the caps allow from an account                 *)
(* (SpendWithinCap), and nobody's cover from a token (CoverKept).           *)
(***************************************************************************)
SpendingBounded == SpendWithinCap /\ CoverKept

(***************************************************************************)
(* What the documentation says and the code does not do                     *)
(***************************************************************************)

(* lib.rs:255 and 278: "cap == 0" disables a cap.  With no positive cap in  *)
(* force an owner whose asset is registered and funded can withdraw.        *)
UncappedCanWithdraw ==
  \A u \in Users, a \in Assets :
    (/\ globalCap <= 0 /\ assetCap[a] <= 0
     /\ balance[<<u, a>>] > 0 /\ Registered(a)
     /\ wallet[<<Self, tokenMap[a]>>] > 0
     /\ wallet[<<u, tokenMap[a]>>] < MaxAmount)
      => ENABLED Withdraw(u, a, 1)
=============================================================================
