--------------------------- MODULE PaymentsProofs ---------------------------
(***************************************************************************)
(* Theorems about Payments, for any users, assets, tokens and bounds: types, *)
(* custody of the tokens it owes, as a whole and token by token, payouts,   *)
(* escrows and caps.                                                        *)
(***************************************************************************)
EXTENDS Payments, TotalsProofs

USE PaymentsAssumption

-----------------------------------------------------------------------------
(* Finite domains of the sums *)

LEMMA FiniteDomains ==
  IsFiniteSet(Holders) /\ IsFiniteSet(Accounts) /\ IsFiniteSet(Purses)
<1>1. IsFiniteSet(Holders)
  BY FS_AddElement DEF Holders
<1> QED BY <1>1, FS_Product DEF Accounts, Purses

(***************************************************************************)
(* A token transfer keeps the wallets well-formed and moves the contract's  *)
(* holding of that token, and of no other, by the amount.                   *)
(***************************************************************************)
LEMMA TransferWallet ==
  ASSUME TypeOK, NEW t \in Tokens, NEW from \in Holders, NEW to \in Holders,
         NEW n \in Amounts, TokenTransfer(t, from, to, n)
  PROVE  /\ wallet' \in [Purses -> 0..MaxAmount]
         /\ \A s \in Tokens \ {t} : wallet'[<<Self, s>>] = wallet[<<Self, s>>]
         /\ from # Self /\ to = Self => wallet'[<<Self, t>>] = wallet[<<Self, t>>] + n
         /\ from = Self /\ to # Self =>
              /\ n <= wallet[<<Self, t>>]
              /\ wallet'[<<Self, t>>] = wallet[<<Self, t>>] - n
              /\ wallet'[<<to, t>>] = wallet[<<to, t>>] + n
         /\ from = Self /\ to = Self => wallet'[<<Self, t>>] = wallet[<<Self, t>>]
<1> DEFINE p == <<from, t>>
           q == <<to, t>>
<1>1. /\ p \in Purses /\ q \in Purses /\ (p = q <=> from = to)
      /\ \A s \in Tokens : <<Self, s>> \in Purses
      /\ \A s \in Tokens \ {t} : <<Self, s>> # p /\ <<Self, s>> # q
      /\ (p = <<Self, t>> <=> from = Self) /\ (q = <<Self, t>> <=> to = Self)
  BY DEF Purses, Holders
<1>2. /\ n \in Nat /\ n <= wallet[p]
      /\ p = q => wallet' = wallet
      /\ p # q => /\ wallet[q] + n <= MaxAmount
                  /\ wallet' = [wallet EXCEPT ![p] = @ - n, ![q] = @ + n]
      /\ wallet \in [Purses -> 0..MaxAmount]
  BY <1>1 DEF TokenTransfer, TypeOK, Amounts
<1> HIDE DEF p, q
<1>3. /\ p = q => wallet' = wallet
      /\ p # q => /\ wallet'[p] = wallet[p] - n
                  /\ wallet'[q] = wallet[q] + n
      /\ \A r \in Purses \ {p, q} : wallet'[r] = wallet[r]
      /\ wallet' \in [Purses -> 0..MaxAmount]
  <2>1. CASE p = q
    BY <1>2, <2>1
  <2>2. CASE p # q
    BY <1>1, <1>2, <2>2
  <2> QED BY <2>1, <2>2
<1> QED BY <1>1, <1>2, <1>3 DEF p, q

-----------------------------------------------------------------------------
(* Every reachable state is well-typed; in particular balances and wallets  *)
(* never leave 0..MaxAmount, ids are never reused and records never change  *)
(* shape.                                                                   *)

LEMMA TypeInit == Init => TypeOK
BY DEF Init, TypeOK, NoCap, EscrowRecord, Purses

LEMMA TypeStep == TypeOK /\ [Next]_vars => TypeOK'
<1> SUFFICES ASSUME TypeOK, [Next]_vars PROVE TypeOK'
  OBVIOUS
<1>1. CASE UNCHANGED vars
  BY <1>1 DEF vars, TypeOK
<1>2. CASE Administer
  <2>1. ASSUME NEW a \in Admins, Initialize(a) PROVE TypeOK'
    BY <2>1 DEF Initialize, TypeOK
  <2>2. ASSUME NEW caller \in Admins, NEW new \in Admins, TransferAdmin(caller, new)
        PROVE  TypeOK'
    BY <2>2 DEF TransferAdmin, TypeOK
  <2>3. ASSUME NEW caller \in Admins, NEW a \in Assets, NEW t \in TokenChoices[a],
               SetToken(caller, a, t)
        PROVE  TypeOK'
    BY <2>3 DEF SetToken, TypeOK
  <2>4. ASSUME NEW caller \in Admins, NEW cap \in Caps, SetGlobalCap(caller, cap)
        PROVE  TypeOK'
    BY <2>4 DEF SetGlobalCap, StoredCap, VoidCap, TypeOK
  <2>5. ASSUME NEW caller \in Admins, NEW a \in Assets, NEW cap \in Caps,
               SetAssetCap(caller, a, cap)
        PROVE  TypeOK'
    BY <2>5 DEF SetAssetCap, StoredCap, VoidCap, TypeOK
  <2> QED BY <1>2, <2>1, <2>2, <2>3, <2>4, <2>5 DEF Administer
<1>3. CASE Pay
  <2>1. ASSUME NEW u \in Users, NEW a \in Assets, NEW n \in Amounts, Deposit(u, a, n)
        PROVE  TypeOK'
    <3>1. /\ u \in Holders /\ Self \in Holders /\ tokenMap[a] \in Tokens
          /\ <<u, a>> \in Accounts
      BY <2>1 DEF Holders, Accounts, Deposit, Registered, TypeOK
    <3>2. wallet' \in [Purses -> 0..MaxAmount]
      BY <3>1, <2>1, TransferWallet DEF Deposit
    <3>3. balance' \in [Accounts -> 0..MaxAmount]
      <4>1. /\ n \in Nat /\ balance[<<u, a>>] + n <= MaxAmount
            /\ balance' = [balance EXCEPT ![<<u, a>>] = @ + n]
            /\ balance \in [Accounts -> 0..MaxAmount]
        BY <2>1 DEF Deposit, TypeOK, Amounts
      <4>2. balance[<<u, a>>] + n \in 0..MaxAmount
        BY <3>1, <4>1
      <4> QED BY <3>1, <4>1, <4>2
    <3> QED BY <2>1, <3>2, <3>3 DEF Deposit, TypeOK, config
  <2>2. ASSUME NEW u \in Users, NEW a \in Assets, NEW n \in Amounts, Withdraw(u, a, n)
        PROVE  TypeOK'
    <3>1. /\ u \in Holders /\ Self \in Holders /\ tokenMap[a] \in Tokens
          /\ <<u, a>> \in Accounts
      BY <2>2 DEF Holders, Accounts, Withdraw, Registered, TypeOK
    <3>2. wallet' \in [Purses -> 0..MaxAmount]
      BY <3>1, <2>2, TransferWallet DEF Withdraw
    <3>3. balance' \in [Accounts -> 0..MaxAmount]
      <4>1. /\ n \in Nat /\ n <= balance[<<u, a>>]
            /\ balance' = [balance EXCEPT ![<<u, a>>] = @ - n]
            /\ balance \in [Accounts -> 0..MaxAmount]
        BY <2>2 DEF Withdraw, TypeOK, Amounts
      <4> QED BY <3>1, <4>1
    <3> QED BY <2>2, <3>2, <3>3 DEF Withdraw, TypeOK, config
  <2>3. ASSUME NEW u \in Users, NEW v \in Holders, NEW a \in Assets, NEW n \in Amounts,
               Transfer(u, v, a, n)
        PROVE  TypeOK'
    <3>1. <<u, a>> \in Accounts /\ <<v, a>> \in Accounts /\ <<u, a>> # <<v, a>>
      BY <2>3 DEF Transfer, Accounts, Holders
    <3>2. /\ n \in Nat /\ n <= balance[<<u, a>>] /\ balance[<<v, a>>] + n <= MaxAmount
          /\ balance' = [balance EXCEPT ![<<u, a>>] = @ - n, ![<<v, a>>] = @ + n]
          /\ balance \in [Accounts -> 0..MaxAmount]
      BY <2>3 DEF Transfer, TypeOK, Amounts
    <3>3. balance' \in [Accounts -> 0..MaxAmount]
      BY <3>1, <3>2, MoveKeepsRange
    <3> QED BY <2>3, <3>2, <3>3 DEF Transfer, TypeOK, config
  <2>4. ASSUME NEW u \in Users, NEW t \in Tokens, NEW n \in Amounts, SendToContract(u, t, n)
        PROVE  TypeOK'
    <3>1. u \in Holders /\ Self \in Holders
      BY DEF Holders
    <3>2. wallet' \in [Purses -> 0..MaxAmount]
      BY <3>1, <2>4, TransferWallet DEF SendToContract
    <3> QED BY <2>4, <3>2 DEF SendToContract, TypeOK, config
  <2> QED BY <1>3, <2>1, <2>2, <2>3, <2>4 DEF Pay
<1>4. CASE UseEscrow
  <2>1. ASSUME NEW u \in Users, NEW v \in Holders, NEW a \in Assets, NEW n \in Amounts,
               CreateEscrow(u, v, a, n)
        PROVE  TypeOK'
    <3>1. <<u, a>> \in Accounts
      BY DEF Accounts, Holders
    <3>2. balance' \in [Accounts -> 0..MaxAmount]
      BY <2>1, <3>1 DEF CreateEscrow, TypeOK, Amounts
    <3>3. NewEscrow(u, v, a, n) \in EscrowRecord
      BY DEF NewEscrow, EscrowRecord
    <3>4. /\ escrowIdCounter' \in 0..MaxEscrows
          /\ escrow' \in [1..escrowIdCounter' -> EscrowRecord]
      BY <2>1, <3>3 DEF CreateEscrow, TypeOK
    <3> QED BY <2>1, <3>2, <3>4 DEF CreateEscrow, TypeOK, config
  <2>2. ASSUME NEW id \in DOMAIN escrow, NEW u \in Users, NEW to \in Holders,
               NEW outcome \in {"Released", "Refunded"}, SettleEscrow(id, u, to, outcome)
        PROVE  TypeOK'
    <3>1. /\ escrow[id] \in EscrowRecord /\ escrow[id].amount \in Amounts
          /\ tokenMap[escrow[id].asset] \in Tokens /\ Self \in Holders
      BY <2>2 DEF SettleEscrow, Registered, TypeOK, EscrowRecord, Holders
    <3>2. wallet' \in [Purses -> 0..MaxAmount]
      BY <2>2, <3>1, TransferWallet DEF SettleEscrow
    <3>3. [escrow[id] EXCEPT !.status = outcome] \in EscrowRecord
      BY <3>1 DEF EscrowRecord
    <3>4. escrow' \in [1..escrowIdCounter -> EscrowRecord]
      BY <2>2, <3>3 DEF SettleEscrow, TypeOK
    <3> QED BY <2>2, <3>2, <3>4 DEF SettleEscrow, TypeOK, config
  <2>3. \A id \in DOMAIN escrow : escrow[id].receiver \in Holders /\ escrow[id].depositor \in Holders
    BY DEF TypeOK, EscrowRecord, Holders
  <2> QED BY <1>4, <2>1, <2>2, <2>3 DEF UseEscrow, ReleaseEscrow, RefundEscrow
<1> QED BY <1>1, <1>2, <1>3, <1>4 DEF Next

(***************************************************************************)
(* Through deposits, withdrawals, transfers, settlements and overflow       *)
(* checks, no balance or holding leaves 0..i128::MAX, and every escrow id   *)
(* given out has a record.                                                  *)
(***************************************************************************)
THEOREM TypeCorrect == Spec => []TypeOK
BY TypeInit, TypeStep, PTL DEF Spec

-----------------------------------------------------------------------------
(* Custody: how each kind of step moves the three sums *)

LEMMA SumsTyped ==
  ASSUME TypeOK
  PROVE  /\ balance \in [Accounts -> Nat] /\ Total(balance) \in Nat
         /\ Held \in [Tokens -> Nat] /\ Total(Held) \in Nat
         /\ Locked \in [1..escrowIdCounter -> Nat] /\ Total(Locked) \in Nat
         /\ IsFiniteSet(1..escrowIdCounter)
<1>1. balance \in [Accounts -> Nat]
  BY DEF TypeOK
<1>2. Held \in [Tokens -> Nat]
  BY DEF TypeOK, Held, Purses, Holders
<1>3. /\ escrowIdCounter \in Nat /\ 1 \in Int /\ escrowIdCounter \in Int
      /\ escrow \in [1..escrowIdCounter -> EscrowRecord]
  BY DEF TypeOK
<1>4. \A i \in 1..escrowIdCounter : escrow[i].amount \in Nat
  BY <1>3 DEF EscrowRecord, Amounts
<1>5. Locked \in [1..escrowIdCounter -> Nat]
  BY <1>3, <1>4 DEF Locked
<1>6. IsFiniteSet(1..escrowIdCounter)
  BY <1>3, FS_Interval
<1> QED BY <1>1, <1>2, <1>5, <1>6, FiniteDomains, UnitsFinite DEF PaymentsAssumption

LEMMA HeldMoves ==
  ASSUME TypeOK, TypeOK', NEW t \in Tokens, NEW from \in Holders, NEW to \in Holders,
         NEW n \in Amounts, TokenTransfer(t, from, to, n)
  PROVE  /\ from # Self /\ to = Self => Total(Held)' = Total(Held) + n
         /\ from = Self /\ to # Self => Total(Held)' = Total(Held) - n
         /\ from = Self /\ to = Self => Total(Held)' = Total(Held)
<1> DEFINE before == Held
           after == Held'
<1>1. /\ before \in [Tokens -> Nat] /\ after \in [Tokens -> Nat] /\ n \in Nat
      /\ IsFiniteSet(Tokens)
  BY DEF TypeOK, Held, Purses, Holders, Amounts, PaymentsAssumption
<1>2. /\ \A s \in Tokens \ {t} : after[s] = before[s]
      /\ from # Self /\ to = Self => after[t] = before[t] + n
      /\ from = Self /\ to # Self => after[t] = before[t] - n /\ n <= before[t]
      /\ from = Self /\ to = Self => after[t] = before[t] + 0
  <2>1. \A s \in Tokens : before[s] = wallet[<<Self, s>>] /\ after[s] = wallet'[<<Self, s>>]
    BY DEF Held
  <2>2. \A s \in Tokens \ {t} : wallet'[<<Self, s>>] = wallet[<<Self, s>>]
    BY TransferWallet
  <2>3. from # Self /\ to = Self => wallet'[<<Self, t>>] = wallet[<<Self, t>>] + n
    BY TransferWallet
  <2>4. from = Self /\ to # Self => n <= wallet[<<Self, t>>]
    BY TransferWallet
  <2>4a. ASSUME from = Self, to # Self PROVE wallet'[<<Self, t>>] = wallet[<<Self, t>>] - n
    <3>1. from = Self /\ to # Self =>
            /\ n <= wallet[<<Self, t>>]
            /\ wallet'[<<Self, t>>] = wallet[<<Self, t>>] - n
            /\ wallet'[<<to, t>>] = wallet[<<to, t>>] + n
      BY TransferWallet
    <3> QED BY <2>4a, <3>1
  <2>5. from = Self /\ to = Self => wallet'[<<Self, t>>] = wallet[<<Self, t>>]
    BY TransferWallet
  <2> HIDE DEF before, after
  <2>6. before[t] \in Nat /\ n \in Nat
    BY <1>1
  <2>7. before[t] = wallet[<<Self, t>>] /\ after[t] = wallet'[<<Self, t>>]
    BY <2>1
  <2>8. from = Self /\ to = Self => after[t] = before[t] + 0
    BY <2>5, <2>6, <2>7
  <2>9. \A s \in Tokens \ {t} : after[s] = before[s]
    BY <2>1, <2>2
  <2> QED BY <2>3, <2>4, <2>4a, <2>7, <2>8, <2>9
<1> HIDE DEF before, after
<1>3. CASE from # Self /\ to = Self
  <2>1. Total(after) = Total(before) + n
    BY <1>1, <1>2, <1>3, TotalRaise
  <2> QED BY <1>3, <2>1 DEF before, after
<1>4. CASE from = Self /\ to # Self
  <2>1. Total(after) = Total(before) - n
    BY <1>1, <1>2, <1>4, TotalLower
  <2> QED BY <1>4, <2>1 DEF before, after
<1>5. CASE from = Self /\ to = Self
  <2>1. Total(after) = Total(before) + 0 /\ Total(before) \in Nat
    BY <1>1, <1>2, <1>5, TotalRaise, UnitsFinite
  <2> QED BY <1>5, <2>1 DEF before, after
<1> QED BY <1>3, <1>4, <1>5

LEMMA BalanceLowered ==
  ASSUME TypeOK, TypeOK', NEW k \in Accounts, NEW n \in Amounts, n <= balance[k],
         balance' = [balance EXCEPT ![k] = @ - n]
  PROVE  Total(balance)' = Total(balance) - n
<1> DEFINE after == balance'
<1>1. /\ after \in [Accounts -> Nat] /\ balance \in [Accounts -> Nat]
      /\ n \in Nat /\ IsFiniteSet(Accounts)
  BY FiniteDomains DEF TypeOK, Amounts
<1>2. after[k] = balance[k] - n /\ \A x \in Accounts \ {k} : after[x] = balance[x]
  BY DEF TypeOK
<1> HIDE DEF after
<1>3. Total(after) = Total(balance) - n
  BY <1>1, <1>2, TotalLower
<1> QED BY <1>3 DEF after

LEMMA LockedGrows ==
  ASSUME TypeOK, TypeOK', NEW u \in Users, NEW v \in Holders, NEW a \in Assets,
         NEW n \in Amounts, CreateEscrow(u, v, a, n)
  PROVE  Total(Locked)' = Total(Locked) + n
<1> DEFINE S == 1..escrowIdCounter
           id == escrowIdCounter + 1
           T == 1..id
           after == Locked'
<1>1. /\ id \notin S /\ S \cup {id} = T
      /\ escrow \in [S -> EscrowRecord] /\ escrow' \in [T -> EscrowRecord]
      /\ \A i \in S : escrow'[i] = escrow[i]
      /\ escrow'[id].status = "Active" /\ escrow'[id].amount = n
  BY DEF CreateEscrow, NewEscrow, TypeOK
<1>2. /\ Locked \in [S -> Nat] /\ after \in [T -> Nat] /\ IsFiniteSet(S)
  <2>1. Locked \in [S -> Nat] /\ IsFiniteSet(S)
    BY SumsTyped
  <2>2. \A i \in T : escrow'[i].amount \in Nat
    BY <1>1 DEF EscrowRecord, Amounts
  <2> QED BY <1>1, <2>1, <2>2 DEF Locked
<1>3. (\A i \in S : after[i] = Locked[i]) /\ after[id] = n
  BY <1>1 DEF Locked
<1> HIDE DEF S, id, T, after
<1>4. id \in T /\ id \notin S /\ S \subseteq T /\ \A x \in T : x \in S \/ x = id
  BY <1>1, <1>2
<1>5. Total(after) = Total(Locked) + after[id]
  BY <1>2, <1>3, <1>4, TotalExtend
<1> QED BY <1>3, <1>5 DEF after

LEMMA LockedFalls ==
  ASSUME TypeOK, TypeOK', NEW id \in DOMAIN escrow, NEW u \in Users, NEW to \in Holders,
         NEW outcome \in {"Released", "Refunded"}, SettleEscrow(id, u, to, outcome)
  PROVE  Total(Locked)' = Total(Locked) - escrow[id].amount
<1> DEFINE S == 1..escrowIdCounter
           n == escrow[id].amount
           after == Locked'
<1>1. /\ escrow \in [S -> EscrowRecord] /\ escrow' \in [S -> EscrowRecord] /\ id \in S
      /\ \A i \in S \ {id} : escrow'[i] = escrow[i]
      /\ escrow[id].status = "Active" /\ escrow'[id].status = outcome
  BY DEF SettleEscrow, TypeOK, EscrowRecord
<1>2. \A i \in S : escrow[i].amount \in Nat /\ escrow'[i].amount \in Nat
  BY <1>1 DEF EscrowRecord, Amounts
<1>3. /\ Locked \in [S -> Nat] /\ after \in [S -> Nat] /\ IsFiniteSet(S) /\ n \in Nat
  BY <1>1, <1>2, SumsTyped DEF Locked
<1>4. Locked[id] = n /\ after[id] = 0 /\ \A i \in S \ {id} : after[i] = Locked[i]
  BY <1>1 DEF Locked
<1>5. after[id] = Locked[id] - n /\ n <= Locked[id]
  BY <1>3, <1>4
<1> HIDE DEF S, n, after
<1>6. id \in S
  BY <1>1
<1>7. Total(after) = Total(Locked) - n
  BY <1>3, <1>4, <1>5, <1>6, TotalLower
<1> QED BY <1>7 DEF after, n

LEMMA CustodyStep == TypeOK /\ TypeOK' /\ CustodyConserved /\ [Next]_vars => CustodyConserved'
<1> SUFFICES ASSUME TypeOK, TypeOK', CustodyConserved, [Next]_vars PROVE CustodyConserved'
  OBVIOUS
<1> USE DEF CustodyConserved, Liabilities
<1>0. /\ Total(balance) \in Nat /\ Total(Held) \in Nat /\ Total(Locked) \in Nat
      /\ Amounts \subseteq Nat
  BY SumsTyped DEF Amounts
<1>1. ASSUME UNCHANGED <<balance, escrow, wallet>> PROVE CustodyConserved'
  BY <1>1 DEF Held, Locked
<1>2. CASE UNCHANGED vars
  BY <1>1, <1>2 DEF vars
<1>3. CASE Administer
  BY <1>1, <1>3 DEF Administer, Initialize, TransferAdmin, SetToken, SetGlobalCap, SetAssetCap
<1>4. CASE Pay
  <2>1. ASSUME NEW u \in Users, NEW a \in Assets, NEW n \in Amounts, Deposit(u, a, n)
        PROVE  CustodyConserved'
    <3>1. /\ u \in Holders /\ Self \in Holders /\ tokenMap[a] \in Tokens
          /\ u # Self /\ <<u, a>> \in Accounts
      BY <2>1 DEF Holders, Accounts, Deposit, Registered, TypeOK, PaymentsAssumption
    <3>2. Total(Held)' = Total(Held) + n
      BY <3>1, <2>1, HeldMoves DEF Deposit
    <3>3. Total(balance)' = Total(balance) + n
      <4> DEFINE after == balance'
                 k == <<u, a>>
      <4>1. /\ after \in [Accounts -> Nat] /\ balance \in [Accounts -> Nat]
            /\ n \in Nat /\ IsFiniteSet(Accounts)
        BY FiniteDomains DEF TypeOK, Amounts
      <4>2. /\ k \in Accounts /\ after[k] = balance[k] + n
            /\ \A x \in Accounts \ {k} : after[x] = balance[x]
        BY <2>1, <3>1 DEF Deposit, TypeOK
      <4> HIDE DEF after, k
      <4>3. Total(after) = Total(balance) + n
        BY <4>1, <4>2, TotalRaise
      <4> QED BY <4>3 DEF after
    <3>4. Total(Locked)' = Total(Locked)
      BY <2>1 DEF Deposit, Locked
    <3> QED BY <1>0, <3>2, <3>3, <3>4
  <2>2. ASSUME NEW u \in Users, NEW a \in Assets, NEW n \in Amounts, Withdraw(u, a, n)
        PROVE  CustodyConserved'
    <3>1. /\ u \in Holders /\ Self \in Holders /\ tokenMap[a] \in Tokens
          /\ u # Self /\ <<u, a>> \in Accounts
      BY <2>2 DEF Holders, Accounts, Withdraw, Registered, TypeOK, PaymentsAssumption
    <3>2. Total(Held)' = Total(Held) - n
      BY <3>1, <2>2, HeldMoves DEF Withdraw
    <3>3. Total(balance)' = Total(balance) - n
      BY <3>1, <2>2, BalanceLowered DEF Withdraw
    <3>4. Total(Locked)' = Total(Locked)
      BY <2>2 DEF Withdraw, Locked
    <3> QED BY <1>0, <3>2, <3>3, <3>4
  <2>3. ASSUME NEW u \in Users, NEW v \in Holders, NEW a \in Assets, NEW n \in Amounts,
               Transfer(u, v, a, n)
        PROVE  CustodyConserved'
    <3> DEFINE after == balance'
               p == <<u, a>>
               q == <<v, a>>
    <3>1. /\ p \in Accounts /\ q \in Accounts /\ p # q /\ IsFiniteSet(Accounts)
          /\ after \in [Accounts -> Nat] /\ balance \in [Accounts -> Nat] /\ n \in Nat
      <4>1. p \in Accounts /\ q \in Accounts /\ p # q
        BY <2>3 DEF Transfer, Accounts, Holders
      <4>2. after \in [Accounts -> Nat] /\ balance \in [Accounts -> Nat] /\ n \in Nat
        BY DEF TypeOK, Amounts
      <4> QED BY <4>1, <4>2, FiniteDomains
    <3>2. /\ n <= balance[p] /\ after[p] = balance[p] - n /\ after[q] = balance[q] + n
          /\ \A r \in Accounts \ {p, q} : after[r] = balance[r]
      <4>1. /\ n <= balance[p] /\ balance[q] + n <= MaxAmount /\ MaxAmount \in Nat
            /\ balance \in [Accounts -> 0..MaxAmount]
            /\ balance' = [balance EXCEPT ![p] = @ - n, ![q] = @ + n]
        BY <2>3 DEF Transfer, TypeOK, PaymentsAssumption
      <4> HIDE DEF p, q
      <4> QED BY <4>1, <3>1, MoveKeepsRange
    <3> HIDE DEF after, p, q
    <3>3. Total(after) = Total(balance)
      BY <3>1, <3>2, TotalMove
    <3>4. Total(Locked)' = Total(Locked) /\ Total(Held)' = Total(Held)
      BY <2>3 DEF Transfer, Locked, Held
    <3> QED BY <3>3, <3>4 DEF after
  <2>4. ASSUME NEW u \in Users, NEW t \in Tokens, NEW n \in Amounts, SendToContract(u, t, n)
        PROVE  CustodyConserved'
    <3>1. u \in Holders /\ Self \in Holders /\ u # Self
      BY DEF Holders, PaymentsAssumption
    <3>2. Total(Held)' = Total(Held) + n
      BY <3>1, <2>4, HeldMoves DEF SendToContract
    <3>3. Total(Locked)' = Total(Locked) /\ Total(balance)' = Total(balance)
      BY <2>4 DEF SendToContract, Locked
    <3> QED BY <1>0, <3>2, <3>3
  <2> QED BY <1>4, <2>1, <2>2, <2>3, <2>4 DEF Pay
<1>5. CASE UseEscrow
  <2>1. ASSUME NEW u \in Users, NEW v \in Holders, NEW a \in Assets, NEW n \in Amounts,
               CreateEscrow(u, v, a, n)
        PROVE  CustodyConserved'
    <3>1. <<u, a>> \in Accounts
      BY DEF Accounts, Holders
    <3>2. Total(balance)' = Total(balance) - n
      BY <3>1, <2>1, BalanceLowered DEF CreateEscrow
    <3>3. Total(Locked)' = Total(Locked) + n
      BY <2>1, LockedGrows
    <3>4. Total(Held)' = Total(Held)
      BY <2>1 DEF CreateEscrow, Held
    <3> QED BY <1>0, <3>2, <3>3, <3>4
  <2>2. ASSUME NEW id \in DOMAIN escrow, NEW u \in Users, NEW to \in Holders,
               NEW outcome \in {"Released", "Refunded"}, SettleEscrow(id, u, to, outcome)
        PROVE  CustodyConserved'
    <3> DEFINE n == escrow[id].amount
    <3>1. n \in Amounts /\ tokenMap[escrow[id].asset] \in Tokens /\ Self \in Holders
      BY <2>2 DEF SettleEscrow, Registered, TypeOK, EscrowRecord, Holders
    <3>2. Total(Held)' = Total(Held) - n \/ Total(Held)' = Total(Held)
      BY <2>2, <3>1, HeldMoves DEF SettleEscrow
    <3>3. Total(Locked)' = Total(Locked) - n
      BY <2>2, LockedFalls
    <3>4. Total(balance)' = Total(balance)
      BY <2>2 DEF SettleEscrow
    <3>5. n \in Nat
      BY <3>1 DEF Amounts
    <3> HIDE DEF n
    <3> QED BY <1>0, <3>2, <3>3, <3>4, <3>5
  <2>3. \A id \in DOMAIN escrow : escrow[id].receiver \in Holders /\ escrow[id].depositor \in Holders
    BY DEF TypeOK, EscrowRecord, Holders
  <2> QED BY <1>5, <2>1, <2>2, <2>3 DEF UseEscrow, ReleaseEscrow, RefundEscrow
<1> QED BY <1>2, <1>3, <1>4, <1>5 DEF Next

LEMMA CustodyInit == Init => CustodyConserved
<1> SUFFICES ASSUME Init PROVE CustodyConserved
  OBVIOUS
<1>1. TypeOK
  BY TypeInit
<1>2. /\ \A k \in Accounts : balance[k] = 0
      /\ escrowIdCounter = 0 /\ DOMAIN Locked = 1..0
  BY DEF Init, Locked
<1>3. Total(balance) = 0
  BY <1>1, <1>2, SumsTyped, TotalZero
<1>4. Total(Locked) = 0
  <2>1. \A i \in 1..escrowIdCounter : Locked[i] = 0
    BY <1>2
  <2> QED BY <1>1, <2>1, SumsTyped, TotalZero
<1> QED BY <1>1, <1>3, <1>4, SumsTyped DEF CustodyConserved, Liabilities

(***************************************************************************)
(* Custody: the tokens the contract holds always cover what it owes,        *)
(* whichever tokens the admin registers.                                    *)
(***************************************************************************)
THEOREM Custody == Spec => []CustodyConserved
<1>1. Init => TypeOK /\ CustodyConserved
  BY TypeInit, CustodyInit
<1>2. (TypeOK /\ CustodyConserved) /\ [Next]_vars => (TypeOK /\ CustodyConserved)'
  BY TypeStep, CustodyStep
<1> QED BY <1>1, <1>2, PTL DEF Spec

-----------------------------------------------------------------------------
(* Cover, token by token: how each kind of step moves what is owed in t *)

Share(a, t, n) == IF tokenMap[a] = t THEN n ELSE 0

LEMMA CoverTyped ==
  ASSUME TypeOK, NEW t \in Tokens
  PROVE  /\ BalanceIn(t) \in [Accounts -> Nat] /\ Total(BalanceIn(t)) \in Nat
         /\ LockedIn(t) \in [1..escrowIdCounter -> Nat] /\ Total(LockedIn(t)) \in Nat
         /\ wallet[<<Self, t>>] \in Nat
<1>1. BalanceIn(t) \in [Accounts -> Nat]
  BY DEF BalanceIn, TypeOK
<1>2. DOMAIN escrow = 1..escrowIdCounter
  BY DEF TypeOK
<1>3. LockedIn(t) \in [1..escrowIdCounter -> Nat]
  BY <1>2, SumsTyped DEF LockedIn
<1>4. wallet[<<Self, t>>] \in Nat
  BY DEF TypeOK, Purses, Holders
<1> QED BY <1>1, <1>3, <1>4, SumsTyped, FiniteDomains, UnitsFinite

LEMMA CreditIn ==
  ASSUME TypeOK, TypeOK', tokenMap' = tokenMap, NEW t \in Tokens,
         NEW u \in Holders, NEW a \in Assets, NEW n \in Nat,
         balance'[<<u, a>>] = balance[<<u, a>>] + n,
         \A k \in Accounts \ {<<u, a>>} : balance'[k] = balance[k]
  PROVE  Total(BalanceIn(t))' = Total(BalanceIn(t)) + Share(a, t, n)
<1> DEFINE k == <<u, a>>
           before == BalanceIn(t)
           after == BalanceIn(t)'
           d == Share(a, t, n)
<1>1. k \in Accounts /\ IsFiniteSet(Accounts) /\ d \in Nat /\ k[2] = a
  BY FiniteDomains DEF Accounts, Share
<1>2. before \in [Accounts -> Nat]
  BY CoverTyped
<1>3. after \in [Accounts -> Nat]
  BY DEF BalanceIn, TypeOK
<1>4. \A x \in Accounts \ {k} : after[x] = before[x]
  BY DEF BalanceIn
<1>5. after[k] = before[k] + d
  <2>1. balance[k] \in Nat /\ balance'[k] = balance[k] + n
    BY <1>1 DEF TypeOK
  <2>2. /\ before[k] = IF tokenMap[a] = t THEN balance[k] ELSE 0
        /\ after[k] = IF tokenMap[a] = t THEN balance'[k] ELSE 0
    BY <1>1 DEF BalanceIn
  <2> QED BY <2>1, <2>2 DEF Share
<1> HIDE DEF k, before, after, d
<1>6. Total(after) = Total(before) + d
  BY <1>1, <1>2, <1>3, <1>4, <1>5, TotalRaise
<1> QED BY <1>6 DEF before, after, d

LEMMA DebitIn ==
  ASSUME TypeOK, TypeOK', tokenMap' = tokenMap, NEW t \in Tokens,
         NEW u \in Holders, NEW a \in Assets, NEW n \in Amounts, n <= balance[<<u, a>>],
         balance' = [balance EXCEPT ![<<u, a>>] = @ - n]
  PROVE  /\ Total(BalanceIn(t))' = Total(BalanceIn(t)) - Share(a, t, n)
         /\ Share(a, t, n) <= Total(BalanceIn(t))
<1> DEFINE k == <<u, a>>
           before == BalanceIn(t)
           after == BalanceIn(t)'
           d == Share(a, t, n)
<1>1. /\ k \in Accounts /\ IsFiniteSet(Accounts) /\ n \in Nat /\ d \in Nat
      /\ k[2] = a
  BY FiniteDomains DEF Accounts, Share, Amounts
<1>2. before \in [Accounts -> Nat]
  BY CoverTyped
<1>3. after \in [Accounts -> Nat]
  BY DEF BalanceIn, TypeOK
<1>4. \A x \in Accounts \ {k} : after[x] = before[x]
  BY DEF BalanceIn, TypeOK
<1>5. after[k] = before[k] - d /\ d <= before[k]
  <2>1. balance[k] \in Nat /\ balance'[k] = balance[k] - n /\ n <= balance[k]
    BY <1>1 DEF TypeOK
  <2>2. /\ before[k] = IF tokenMap[a] = t THEN balance[k] ELSE 0
        /\ after[k] = IF tokenMap[a] = t THEN balance'[k] ELSE 0
    BY <1>1 DEF BalanceIn
  <2> QED BY <1>1, <2>1, <2>2 DEF Share
<1> HIDE DEF k, before, after, d
<1>6. Total(after) = Total(before) - d /\ Total(before) >= d
  BY <1>1, <1>2, <1>3, <1>4, <1>5, TotalLower
<1>7. Total(before) \in Nat
  BY CoverTyped DEF before
<1>8. d <= Total(before)
  BY <1>1, <1>6, <1>7
<1> QED BY <1>6, <1>8 DEF before, after, d

LEMMA MoveIn ==
  ASSUME TypeOK, TypeOK', tokenMap' = tokenMap, NEW t \in Tokens,
         NEW u \in Users, NEW v \in Holders, NEW a \in Assets, NEW n \in Amounts,
         Transfer(u, v, a, n)
  PROVE  Total(BalanceIn(t))' = Total(BalanceIn(t))
<1> DEFINE p == <<u, a>>
           q == <<v, a>>
           before == BalanceIn(t)
           after == BalanceIn(t)'
           d == Share(a, t, n)
<1>1. /\ p \in Accounts /\ q \in Accounts /\ p # q /\ p[2] = a /\ q[2] = a
      /\ IsFiniteSet(Accounts) /\ n \in Nat /\ d \in Nat
  <2>1. p \in Accounts /\ q \in Accounts /\ p # q /\ p[2] = a /\ q[2] = a
    BY DEF Transfer, Accounts, Holders
  <2> QED BY <2>1, FiniteDomains DEF Share, Amounts
<1>2. before \in [Accounts -> Nat]
  BY CoverTyped
<1>3. after \in [Accounts -> Nat]
  BY DEF BalanceIn, TypeOK
<1>4. /\ n <= balance[p] /\ balance'[p] = balance[p] - n /\ balance'[q] = balance[q] + n
      /\ \A r \in Accounts \ {p, q} : balance'[r] = balance[r]
  <2>1. /\ n <= balance[p] /\ balance[q] + n <= MaxAmount /\ MaxAmount \in Nat
        /\ balance \in [Accounts -> 0..MaxAmount]
        /\ balance' = [balance EXCEPT ![p] = @ - n, ![q] = @ + n]
    BY DEF Transfer, TypeOK, PaymentsAssumption
  <2> HIDE DEF p, q, before, after, d
  <2> QED BY <2>1, <1>1, MoveKeepsRange
<1>5. balance[p] \in Nat /\ balance[q] \in Nat
  BY <1>1 DEF TypeOK
<1>6. /\ before[p] = IF tokenMap[a] = t THEN balance[p] ELSE 0
      /\ before[q] = IF tokenMap[a] = t THEN balance[q] ELSE 0
      /\ after[p] = IF tokenMap[a] = t THEN balance'[p] ELSE 0
      /\ after[q] = IF tokenMap[a] = t THEN balance'[q] ELSE 0
  BY <1>1 DEF BalanceIn
<1>7. d = IF tokenMap[a] = t THEN n ELSE 0
  BY DEF Share
<1>8. \A r \in Accounts \ {p, q} : after[r] = before[r]
  BY <1>4 DEF BalanceIn
<1> HIDE DEF p, q, before, after, d
<1>9. d <= before[p] /\ after[p] = before[p] - d /\ after[q] = before[q] + d
  BY <1>1, <1>4, <1>5, <1>6, <1>7
<1>10. Total(after) = Total(before)
  BY <1>1, <1>2, <1>3, <1>8, <1>9, TotalMove
<1> QED BY <1>10 DEF before, after

LEMMA LockedInGrows ==
  ASSUME TypeOK, TypeOK', NEW t \in Tokens, NEW u \in Users, NEW v \in Holders,
         NEW a \in Assets, NEW n \in Amounts, CreateEscrow(u, v, a, n)
  PROVE  Total(LockedIn(t))' = Total(LockedIn(t)) + Share(a, t, n)
<1> DEFINE S == 1..escrowIdCounter
           id == escrowIdCounter + 1
           T == 1..id
           before == LockedIn(t)
           after == LockedIn(t)'
<1>1. /\ id \notin S /\ S \cup {id} = T /\ IsFiniteSet(S) /\ n \in Nat
      /\ escrow \in [S -> EscrowRecord] /\ escrow' \in [T -> EscrowRecord]
      /\ \A i \in S : escrow'[i] = escrow[i]
      /\ escrow'[id].status = "Active" /\ escrow'[id].amount = n /\ escrow'[id].asset = a
      /\ tokenMap' = tokenMap
  <2>1. IsFiniteSet(S)
    BY SumsTyped
  <2> QED BY <2>1 DEF CreateEscrow, NewEscrow, TypeOK, config, Amounts
<1>2. before \in [S -> Nat]
  BY CoverTyped
<1>3. \A i \in T : after[i] = IF tokenMap[escrow'[i].asset] = t /\ escrow'[i].status = "Active"
                              THEN escrow'[i].amount ELSE 0
  BY <1>1 DEF LockedIn, Locked
<1>4. \A i \in S : before[i] = IF tokenMap[escrow[i].asset] = t /\ escrow[i].status = "Active"
                               THEN escrow[i].amount ELSE 0
  BY <1>1 DEF LockedIn, Locked
<1>5. after \in [T -> Nat]
  <2>1. ASSUME NEW i \in T PROVE escrow'[i].amount \in Nat
    <3>1. escrow'[i] \in EscrowRecord
      BY <1>1
    <3> QED BY <3>1 DEF EscrowRecord, Amounts
  <2>2. after = [i \in T |-> after[i]]
    BY <1>1 DEF LockedIn
  <2>3. \A i \in T : after[i] \in Nat
    BY <1>3, <2>1
  <2> HIDE DEF after, T
  <2> QED BY <2>2, <2>3
<1>6. /\ id \in T /\ id \notin S /\ S \subseteq T /\ \A x \in T : x \in S \/ x = id
  BY <1>1
<1>7. (\A i \in S : after[i] = before[i]) /\ after[id] = Share(a, t, n)
  BY <1>1, <1>3, <1>4, <1>6 DEF Share
<1> HIDE DEF S, id, T, before, after
<1>8. Total(after) = Total(before) + after[id]
  BY <1>1, <1>2, <1>5, <1>6, <1>7, TotalExtend
<1> QED BY <1>7, <1>8 DEF before, after

LEMMA LockedInFalls ==
  ASSUME TypeOK, TypeOK', NEW t \in Tokens, NEW id \in DOMAIN escrow, NEW u \in Users,
         NEW to \in Holders, NEW outcome \in {"Released", "Refunded"},
         SettleEscrow(id, u, to, outcome)
  PROVE  Total(LockedIn(t))' = Total(LockedIn(t)) - Share(escrow[id].asset, t, escrow[id].amount)
<1> DEFINE S == 1..escrowIdCounter
           d == Share(escrow[id].asset, t, escrow[id].amount)
           before == LockedIn(t)
           after == LockedIn(t)'
<1>1. /\ escrow \in [S -> EscrowRecord] /\ escrow' \in [S -> EscrowRecord] /\ id \in S
      /\ \A i \in S \ {id} : escrow'[i] = escrow[i]
      /\ escrow[id].status = "Active" /\ escrow'[id].status = outcome
      /\ tokenMap' = tokenMap
  BY DEF SettleEscrow, TypeOK, EscrowRecord, config
<1>2. \A i \in S : escrow[i].amount \in Nat /\ escrow'[i].amount \in Nat
  BY <1>1 DEF EscrowRecord, Amounts
<1>3. before \in [S -> Nat] /\ IsFiniteSet(S)
  BY CoverTyped, SumsTyped
<1>4. \A i \in S : after[i] = IF tokenMap[escrow'[i].asset] = t /\ escrow'[i].status = "Active"
                              THEN escrow'[i].amount ELSE 0
  BY <1>1 DEF LockedIn, Locked
<1>5. \A i \in S : before[i] = IF tokenMap[escrow[i].asset] = t /\ escrow[i].status = "Active"
                               THEN escrow[i].amount ELSE 0
  BY <1>1 DEF LockedIn, Locked
<1>6. after \in [S -> Nat]
  <2>1. after = [i \in S |-> after[i]]
    BY <1>1 DEF LockedIn
  <2>2. \A i \in S : after[i] \in Nat
    BY <1>2, <1>4
  <2> HIDE DEF after, S
  <2> QED BY <2>1, <2>2
<1>7. before[id] = d /\ after[id] = 0 /\ \A i \in S \ {id} : after[i] = before[i]
  BY <1>1, <1>4, <1>5 DEF Share
<1>8. d \in Nat
  BY <1>1, <1>2 DEF Share
<1>9. after[id] = before[id] - d /\ d <= before[id]
  BY <1>7, <1>8
<1> HIDE DEF S, d, before, after
<1>10. id \in S
  BY <1>1
<1>11. Total(after) = Total(before) - d
  BY <1>3, <1>6, <1>7, <1>8, <1>9, <1>10, TotalLower
<1> QED BY <1>11 DEF before, after, d

(* What a transfer of n of asset a's token does to the holding of t. *)
LEMMA HoldingMoves ==
  ASSUME TypeOK, NEW t \in Tokens, NEW a \in Assets, tokenMap[a] \in Tokens,
         NEW from \in Holders, NEW to \in Holders, NEW n \in Amounts,
         TokenTransfer(tokenMap[a], from, to, n)
  PROVE  /\ from # Self /\ to = Self =>
              wallet'[<<Self, t>>] = wallet[<<Self, t>>] + Share(a, t, n)
         /\ from = Self /\ to # Self =>
              wallet'[<<Self, t>>] = wallet[<<Self, t>>] - Share(a, t, n)
         /\ from = Self /\ to = Self => wallet'[<<Self, t>>] = wallet[<<Self, t>>]
<1>1. /\ wallet[<<Self, t>>] \in Nat /\ n \in Nat
  BY CoverTyped DEF Amounts
<1>2. CASE tokenMap[a] = t
  <2>1. Share(a, t, n) = n /\ TokenTransfer(t, from, to, n)
    BY <1>2 DEF Share
  <2>2. ASSUME from # Self, to = Self
        PROVE  wallet'[<<Self, t>>] = wallet[<<Self, t>>] + n
    BY <2>1, <2>2, TransferWallet
  <2>3. ASSUME from = Self, to # Self
        PROVE  wallet'[<<Self, t>>] = wallet[<<Self, t>>] - n
    BY <2>1, <2>3, TransferWallet
  <2>4. from = Self /\ to = Self => wallet'[<<Self, t>>] = wallet[<<Self, t>>]
    BY <1>2, TransferWallet
  <2> QED BY <2>1, <2>2, <2>3, <2>4
<1>3. CASE tokenMap[a] # t
  <2>1. wallet'[<<Self, t>>] = wallet[<<Self, t>>]
    BY <1>3, TransferWallet
  <2> QED BY <1>1, <1>3, <2>1 DEF Share
<1> QED BY <1>2, <1>3

LEMMA CoverStep ==
  ASSUME TypeOK, TypeOK', [Next]_vars, tokenMap' = tokenMap, NEW t \in Tokens, Covered(t)
  PROVE  Covered(t)'
<1> USE DEF Covered
<1>0. /\ Total(BalanceIn(t)) \in Nat /\ Total(LockedIn(t)) \in Nat
      /\ wallet[<<Self, t>>] \in Nat /\ Amounts \subseteq Nat
      /\ \A a \in Assets, n \in Amounts : Share(a, t, n) \in Nat
  BY CoverTyped DEF Amounts, Share
<1>1. ASSUME UNCHANGED <<balance, escrow, wallet>> PROVE Covered(t)'
  BY <1>1 DEF BalanceIn, LockedIn, Locked
<1>2. CASE UNCHANGED vars
  BY <1>1, <1>2 DEF vars
<1>3. CASE Administer
  BY <1>1, <1>3 DEF Administer, Initialize, TransferAdmin, SetToken, SetGlobalCap, SetAssetCap
<1>4. CASE Pay
  <2>1. ASSUME NEW u \in Users, NEW a \in Assets, NEW n \in Amounts, Deposit(u, a, n)
        PROVE  Covered(t)'
    <3>1. /\ u \in Holders /\ Self \in Holders /\ tokenMap[a] \in Tokens
          /\ u # Self /\ <<u, a>> \in Accounts /\ n \in Nat
      BY <2>1, <1>0 DEF Holders, Accounts, Deposit, Registered, TypeOK, PaymentsAssumption
    <3>2. wallet'[<<Self, t>>] = wallet[<<Self, t>>] + Share(a, t, n)
      BY <3>1, <2>1, HoldingMoves DEF Deposit
    <3>3. Total(BalanceIn(t))' = Total(BalanceIn(t)) + Share(a, t, n)
      <4>1. /\ balance'[<<u, a>>] = balance[<<u, a>>] + n
            /\ \A k \in Accounts \ {<<u, a>>} : balance'[k] = balance[k]
        BY <2>1, <3>1 DEF Deposit, TypeOK
      <4> QED BY <3>1, <4>1, CreditIn
    <3>4. Total(LockedIn(t))' = Total(LockedIn(t))
      BY <2>1 DEF Deposit, LockedIn, Locked
    <3> QED BY <1>0, <3>2, <3>3, <3>4
  <2>2. ASSUME NEW u \in Users, NEW a \in Assets, NEW n \in Amounts, Withdraw(u, a, n)
        PROVE  Covered(t)'
    <3>1. /\ u \in Holders /\ Self \in Holders /\ tokenMap[a] \in Tokens /\ u # Self
      BY <2>2 DEF Holders, Withdraw, Registered, TypeOK, PaymentsAssumption
    <3>2. wallet'[<<Self, t>>] = wallet[<<Self, t>>] - Share(a, t, n)
      BY <3>1, <2>2, HoldingMoves DEF Withdraw
    <3>3. Total(BalanceIn(t))' = Total(BalanceIn(t)) - Share(a, t, n)
      BY <3>1, <2>2, DebitIn DEF Withdraw
    <3>4. Total(LockedIn(t))' = Total(LockedIn(t))
      BY <2>2 DEF Withdraw, LockedIn, Locked
    <3> QED BY <1>0, <3>2, <3>3, <3>4
  <2>3. ASSUME NEW u \in Users, NEW v \in Holders, NEW a \in Assets, NEW n \in Amounts,
               Transfer(u, v, a, n)
        PROVE  Covered(t)'
    <3>1. Total(BalanceIn(t))' = Total(BalanceIn(t))
      BY <2>3, MoveIn
    <3>2. Total(LockedIn(t))' = Total(LockedIn(t)) /\ wallet' = wallet
      BY <2>3 DEF Transfer, LockedIn, Locked
    <3> QED BY <3>1, <3>2
  <2>4. ASSUME NEW u \in Users, NEW s \in Tokens, NEW n \in Amounts, SendToContract(u, s, n)
        PROVE  Covered(t)'
    <3>1. u \in Holders /\ Self \in Holders /\ u # Self
      BY DEF Holders, PaymentsAssumption
    <3>2. wallet'[<<Self, t>>] \in {wallet[<<Self, t>>], wallet[<<Self, t>>] + n}
      BY <3>1, <2>4, TransferWallet DEF SendToContract
    <3>3. /\ Total(LockedIn(t))' = Total(LockedIn(t))
          /\ Total(BalanceIn(t))' = Total(BalanceIn(t))
      BY <2>4 DEF SendToContract, LockedIn, Locked, BalanceIn
    <3> QED BY <1>0, <3>2, <3>3
  <2> QED BY <1>4, <2>1, <2>2, <2>3, <2>4 DEF Pay
<1>5. CASE UseEscrow
  <2>1. ASSUME NEW u \in Users, NEW v \in Holders, NEW a \in Assets, NEW n \in Amounts,
               CreateEscrow(u, v, a, n)
        PROVE  Covered(t)'
    <3>1. u \in Holders
      BY DEF Holders
    <3>2. Total(BalanceIn(t))' = Total(BalanceIn(t)) - Share(a, t, n)
      BY <3>1, <2>1, DebitIn DEF CreateEscrow
    <3>3. Total(LockedIn(t))' = Total(LockedIn(t)) + Share(a, t, n)
      BY <2>1, LockedInGrows
    <3>4. wallet' = wallet
      BY <2>1 DEF CreateEscrow
    <3> QED BY <1>0, <3>2, <3>3, <3>4
  <2>2. ASSUME NEW id \in DOMAIN escrow, NEW u \in Users, NEW to \in Holders,
               NEW outcome \in {"Released", "Refunded"}, SettleEscrow(id, u, to, outcome)
        PROVE  Covered(t)'
    <3> DEFINE a == escrow[id].asset
               n == escrow[id].amount
    <3>1. a \in Assets /\ n \in Amounts /\ tokenMap[a] \in Tokens /\ Self \in Holders
      BY <2>2 DEF SettleEscrow, Registered, TypeOK, EscrowRecord, Holders
    <3>2. TokenTransfer(tokenMap[a], Self, to, n)
      BY <2>2 DEF SettleEscrow
    <3>3. Total(LockedIn(t))' = Total(LockedIn(t)) - Share(a, t, n)
      BY <2>2, LockedInFalls
    <3>4. Total(BalanceIn(t))' = Total(BalanceIn(t))
      BY <2>2 DEF SettleEscrow, BalanceIn
    <3> HIDE DEF a, n
    <3>5. \/ wallet'[<<Self, t>>] = wallet[<<Self, t>>] - Share(a, t, n)
          \/ wallet'[<<Self, t>>] = wallet[<<Self, t>>]
      BY <3>1, <3>2, HoldingMoves
    <3> QED BY <1>0, <3>1, <3>3, <3>4, <3>5
  <2>3. \A id \in DOMAIN escrow : escrow[id].receiver \in Holders /\ escrow[id].depositor \in Holders
    BY DEF TypeOK, EscrowRecord, Holders
  <2> QED BY <1>5, <2>1, <2>2, <2>3 DEF UseEscrow, ReleaseEscrow, RefundEscrow
<1> QED BY <1>2, <1>3, <1>4, <1>5 DEF Next

(***************************************************************************)
(* A token that covers the claims registered on it keeps doing so until an  *)
(* admin registers an asset on another token: no order of calls pays one    *)
(* owner out of another's cover.                                            *)
(***************************************************************************)
THEOREM CoverStays == Spec => CoverKept
<1>1. ASSUME TypeOK, TypeOK', [Next]_vars, tokenMap' = tokenMap
      PROVE  \A t \in Tokens : Covered(t) => Covered(t)'
  BY <1>1, CoverStep
<1>2. TypeOK /\ TypeOK' /\ [Next]_vars =>
        [tokenMap' = tokenMap => \A t \in Tokens : Covered(t) => Covered(t)']_vars
  BY <1>1
<1> QED BY <1>2, TypeInit, TypeStep, PTL DEF Spec, CoverKept

-----------------------------------------------------------------------------
(* Payouts: the two kinds of step that let tokens leave *)

LEMMA WithdrawStep ==
  ASSUME TypeOK, NEW u \in Users, NEW a \in Assets, NEW n \in Amounts, Withdraw(u, a, n)
  PROVE  /\ tokenMap[a] \in Tokens /\ u \in Holders /\ u # Self /\ n \in Nat
         /\ balance[<<u, a>>] - balance'[<<u, a>>] = n
         /\ \A k \in Accounts \ {<<u, a>>} : balance'[k] = balance[k]
         /\ \A s \in Tokens \ {tokenMap[a]} : wallet'[<<Self, s>>] = wallet[<<Self, s>>]
         /\ wallet[<<Self, tokenMap[a]>>] - wallet'[<<Self, tokenMap[a]>>] = n
         /\ wallet'[<<u, tokenMap[a]>>] - wallet[<<u, tokenMap[a]>>] = n
<1> DEFINE t == tokenMap[a]
<1>1. /\ t \in Tokens /\ u \in Holders /\ Self \in Holders /\ u # Self /\ n \in Nat
      /\ <<u, a>> \in Accounts /\ <<u, t>> \in Purses /\ <<Self, t>> \in Purses
  BY DEF Withdraw, Registered, TypeOK, Holders, Amounts, Accounts, Purses
<1>2. /\ balance[<<u, a>>] \in Nat
      /\ balance'[<<u, a>>] = balance[<<u, a>>] - n
      /\ \A k \in Accounts \ {<<u, a>>} : balance'[k] = balance[k]
  BY <1>1 DEF Withdraw, TypeOK
<1>3. TokenTransfer(t, Self, u, n)
  BY DEF Withdraw
<1>4. wallet[<<u, t>>] \in Nat /\ wallet[<<Self, t>>] \in Nat
  BY <1>1 DEF TypeOK
<1> HIDE DEF t
<1>5. \A s \in Tokens \ {t} : wallet'[<<Self, s>>] = wallet[<<Self, s>>]
  BY <1>1, <1>3, TransferWallet
<1>6. /\ wallet'[<<Self, t>>] = wallet[<<Self, t>>] - n
      /\ wallet'[<<u, t>>] = wallet[<<u, t>>] + n
  BY <1>1, <1>3, TransferWallet
<1>7. /\ wallet[<<Self, t>>] - wallet'[<<Self, t>>] = n
      /\ wallet'[<<u, t>>] - wallet[<<u, t>>] = n
  BY <1>1, <1>4, <1>6
<1>8. balance[<<u, a>>] - balance'[<<u, a>>] = n
  BY <1>1, <1>2
<1> QED BY <1>1, <1>2, <1>5, <1>7, <1>8 DEF t

(* The escrow's n units of token t are paid to one party, or stay here when *)
(* that party is the contract.                                              *)
Payout(id, to, t, n) ==
  /\ n = escrow[id].amount /\ Locked[id] = n /\ Locked'[id] = 0
  /\ \A s \in Tokens \ {t} : wallet'[<<Self, s>>] = wallet[<<Self, s>>]
  /\ to = Self => wallet'[<<Self, t>>] = wallet[<<Self, t>>]
  /\ to # Self =>
       /\ wallet'[<<Self, t>>] = wallet[<<Self, t>>] - n
       /\ wallet'[<<to, t>>] = wallet[<<to, t>>] + n

LEMMA SettleStep ==
  ASSUME TypeOK, NEW id \in DOMAIN escrow, NEW u \in Users, NEW to \in Holders,
         NEW outcome \in {"Released", "Refunded"}, SettleEscrow(id, u, to, outcome)
  PROVE  /\ escrow[id].status = "Active"
         /\ escrow' = [escrow EXCEPT ![id].status = outcome]
         /\ \E t \in Tokens, n \in Nat : Payout(id, to, t, n)
<1> DEFINE t == tokenMap[escrow[id].asset]
           n == escrow[id].amount
<1>1. /\ escrow[id] \in EscrowRecord /\ escrow[id].status = "Active"
      /\ escrow' = [escrow EXCEPT ![id].status = outcome]
      /\ id \in DOMAIN escrow' /\ escrow'[id].status = outcome
  BY DEF SettleEscrow, TypeOK, EscrowRecord
<1>2. t \in Tokens /\ n \in Amounts /\ n \in Nat /\ Self \in Holders
  BY <1>1 DEF SettleEscrow, Registered, TypeOK, EscrowRecord, Amounts, Holders
<1>3. TokenTransfer(t, Self, to, n)
  BY DEF SettleEscrow
<1>4. Locked[id] = n /\ Locked'[id] = 0
  BY <1>1 DEF Locked
<1> HIDE DEF t, n
<1>5. \A s \in Tokens \ {t} : wallet'[<<Self, s>>] = wallet[<<Self, s>>]
  BY <1>2, <1>3, TransferWallet
<1>6. to = Self => wallet'[<<Self, t>>] = wallet[<<Self, t>>]
  BY <1>2, <1>3, TransferWallet
<1>7. ASSUME to # Self
      PROVE  /\ wallet'[<<Self, t>>] = wallet[<<Self, t>>] - n
             /\ wallet'[<<to, t>>] = wallet[<<to, t>>] + n
  BY <1>2, <1>3, <1>7, TransferWallet
<1>8. n = escrow[id].amount
  BY DEF n
<1>9. Payout(id, to, t, n)
  BY <1>4, <1>5, <1>6, <1>7, <1>8 DEF Payout
<1> QED BY <1>1, <1>2, <1>9

LEMMA HoldingNat == ASSUME TypeOK, NEW t \in Tokens PROVE wallet[<<Self, t>>] \in Nat
BY DEF TypeOK, Purses, Holders

OutflowNow ==
  \A t \in Tokens :
    LET out == wallet[<<Self, t>>] - wallet'[<<Self, t>>] IN
    out > 0 =>
      \/ \E u \in Users, a \in Assets :
           /\ balance[<<u, a>>] - balance'[<<u, a>>] = out
           /\ wallet'[<<u, t>>] - wallet[<<u, t>>] = out
      \/ \E i \in DOMAIN escrow : Locked[i] = out /\ Locked'[i] = 0

LEMMA OutflowStep == ASSUME TypeOK, [Next]_vars PROVE OutflowNow
<1> USE DEF OutflowNow
<1>1. ASSUME \A t \in Tokens : wallet'[<<Self, t>>] >= wallet[<<Self, t>>]
             \/ wallet'[<<Self, t>>] = wallet[<<Self, t>>]
      PROVE  OutflowNow
  <2>1. ASSUME NEW t \in Tokens, NEW out, out = wallet[<<Self, t>>] - wallet'[<<Self, t>>],
               out > 0, wallet'[<<Self, t>>] \in Int
        PROVE  FALSE
    BY <1>1, <2>1, HoldingNat
  <2>2. \A t \in Tokens : wallet'[<<Self, t>>] \in Int
    BY TypeStep DEF TypeOK, Purses, Holders
  <2> QED BY <2>1, <2>2
<1>2. ASSUME wallet' = wallet PROVE OutflowNow
  BY <1>1, <1>2
<1>3. CASE UNCHANGED vars
  BY <1>2, <1>3 DEF vars
<1>4. CASE Administer
  BY <1>2, <1>4 DEF Administer, Initialize, TransferAdmin, SetToken, SetGlobalCap, SetAssetCap
<1>5. CASE Pay
  <2>1. ASSUME NEW u \in Users, NEW t \in Tokens, NEW n \in Amounts,
               TokenTransfer(t, u, Self, n)
        PROVE  OutflowNow
    <3>1. u \in Holders /\ Self \in Holders /\ u # Self /\ n \in Nat
      BY DEF Holders, Amounts, PaymentsAssumption
    <3>2. \A s \in Tokens \ {t} : wallet'[<<Self, s>>] = wallet[<<Self, s>>]
      BY <3>1, <2>1, TransferWallet
    <3>3. wallet'[<<Self, t>>] = wallet[<<Self, t>>] + n
      BY <3>1, <2>1, TransferWallet
    <3>4. wallet'[<<Self, t>>] >= wallet[<<Self, t>>]
      BY <3>1, <3>3, HoldingNat
    <3> QED BY <1>1, <3>2, <3>4
  <2>2. ASSUME NEW u \in Users, NEW a \in Assets, NEW n \in Amounts, Deposit(u, a, n)
        PROVE  OutflowNow
    <3>1. tokenMap[a] \in Tokens
      BY <2>2 DEF Deposit, Registered, TypeOK
    <3> QED BY <3>1, <2>1, <2>2 DEF Deposit
  <2>3. ASSUME NEW u \in Users, NEW a \in Assets, NEW n \in Amounts, Withdraw(u, a, n)
        PROVE  OutflowNow
    <3>1. ASSUME NEW t \in Tokens, wallet[<<Self, t>>] - wallet'[<<Self, t>>] > 0
          PROVE  /\ balance[<<u, a>>] - balance'[<<u, a>>]
                      = wallet[<<Self, t>>] - wallet'[<<Self, t>>]
                 /\ wallet'[<<u, t>>] - wallet[<<u, t>>]
                      = wallet[<<Self, t>>] - wallet'[<<Self, t>>]
      <4>1. t = tokenMap[a]
        <5>1. ASSUME t # tokenMap[a] PROVE FALSE
          <6>1. wallet'[<<Self, t>>] = wallet[<<Self, t>>]
            BY <2>3, <5>1, WithdrawStep
          <6> QED BY <3>1, <6>1, HoldingNat
        <5> QED BY <5>1
      <4>2. /\ wallet[<<Self, t>>] - wallet'[<<Self, t>>] = n
            /\ wallet'[<<u, t>>] - wallet[<<u, t>>] = n
            /\ balance[<<u, a>>] - balance'[<<u, a>>] = n
        BY <2>3, <4>1, WithdrawStep
      <4> QED BY <4>2
    <3> QED BY <3>1
  <2>4. ASSUME NEW u \in Users, NEW v \in Holders, NEW a \in Assets, NEW n \in Amounts,
               Transfer(u, v, a, n)
        PROVE  OutflowNow
    BY <1>2, <2>4 DEF Transfer
  <2>5. ASSUME NEW u \in Users, NEW t \in Tokens, NEW n \in Amounts, SendToContract(u, t, n)
        PROVE  OutflowNow
    BY <2>1, <2>5 DEF SendToContract
  <2> QED BY <1>5, <2>2, <2>3, <2>4, <2>5 DEF Pay
<1>6. CASE UseEscrow
  <2>1. ASSUME NEW u \in Users, NEW v \in Holders, NEW a \in Assets, NEW n \in Amounts,
               CreateEscrow(u, v, a, n)
        PROVE  OutflowNow
    BY <1>2, <2>1 DEF CreateEscrow
  <2>2. ASSUME NEW id \in DOMAIN escrow, NEW u \in Users, NEW to \in Holders,
               NEW outcome \in {"Released", "Refunded"}, SettleEscrow(id, u, to, outcome)
        PROVE  OutflowNow
    <3>0. PICK s \in Tokens, n \in Nat : Payout(id, to, s, n)
      BY <2>2, SettleStep
    <3>1. /\ Locked[id] = n /\ Locked'[id] = 0
          /\ \A t \in Tokens \ {s} : wallet'[<<Self, t>>] = wallet[<<Self, t>>]
          /\ to = Self => wallet'[<<Self, s>>] = wallet[<<Self, s>>]
          /\ to # Self => wallet'[<<Self, s>>] = wallet[<<Self, s>>] - n
      BY <3>0 DEF Payout
    <3>3. ASSUME NEW t \in Tokens, wallet[<<Self, t>>] - wallet'[<<Self, t>>] > 0
          PROVE  wallet[<<Self, t>>] - wallet'[<<Self, t>>] = n
      <4>1. wallet[<<Self, t>>] \in Nat
        BY HoldingNat
      <4>2. ASSUME wallet'[<<Self, t>>] = wallet[<<Self, t>>] PROVE FALSE
        BY <3>3, <4>1, <4>2
      <4>3. t = s /\ to # Self
        BY <3>1, <4>2
      <4> QED BY <3>1, <4>1, <4>3
    <3> QED BY <3>1, <3>3
  <2>3. \A id \in DOMAIN escrow : escrow[id].receiver \in Holders /\ escrow[id].depositor \in Holders
    BY DEF TypeOK, EscrowRecord, Holders
  <2> QED BY <1>6, <2>1, <2>2, <2>3 DEF UseEscrow, ReleaseEscrow, RefundEscrow
<1> QED BY <1>3, <1>4, <1>5, <1>6 DEF Next

(***************************************************************************)
(* No entry point pays tokens out without striking the claim they were      *)
(* paid against out of the books in the same call.                          *)
(***************************************************************************)
THEOREM OutflowsClaimed == Spec => OutflowAccounted
<1>1. TypeOK /\ [Next]_vars => OutflowNow
  BY OutflowStep
<1> QED BY <1>1, TypeInit, TypeStep, PTL DEF Spec, OutflowAccounted, OutflowNow

-----------------------------------------------------------------------------
(* Escrows: what a step does to each *)

Settled(e) == {[e EXCEPT !.status = s] : s \in {"Released", "Refunded"}}

EscrowNow(i) ==
  /\ i \in DOMAIN escrow'
  /\ escrow'[i] # escrow[i] =>
       /\ escrow[i].status = "Active"
       /\ escrow'[i] \in Settled(escrow[i])
       /\ \A j \in DOMAIN escrow \ {i} : escrow'[j] = escrow[j]
       /\ Payee(escrow'[i]) # Self =>
            \E t \in Tokens :
              /\ wallet'[<<Payee(escrow'[i]), t>>]
                   = wallet[<<Payee(escrow'[i]), t>>] + escrow[i].amount
              /\ wallet'[<<Self, t>>] = wallet[<<Self, t>>] - escrow[i].amount

LEMMA EscrowStep ==
  ASSUME TypeOK, [Next]_vars, NEW i \in DOMAIN escrow
  PROVE  EscrowNow(i)
<1>1. ASSUME escrow' = escrow PROVE EscrowNow(i)
  BY <1>1 DEF EscrowNow
<1>2. CASE UNCHANGED vars
  BY <1>1, <1>2 DEF vars
<1>3. CASE Administer
  BY <1>1, <1>3 DEF Administer, Initialize, TransferAdmin, SetToken, SetGlobalCap, SetAssetCap
<1>4. CASE Pay
  BY <1>1, <1>4 DEF Pay, Deposit, Withdraw, Transfer, SendToContract
<1>5. CASE UseEscrow
  <2>1. ASSUME NEW u \in Users, NEW v \in Holders, NEW a \in Assets, NEW n \in Amounts,
               CreateEscrow(u, v, a, n)
        PROVE  EscrowNow(i)
    <3>1. /\ escrow' = [j \in 1..(escrowIdCounter + 1) |->
                          IF j = escrowIdCounter + 1 THEN NewEscrow(u, v, a, n) ELSE escrow[j]]
          /\ escrowIdCounter \in Nat /\ DOMAIN escrow = 1..escrowIdCounter
      BY <2>1 DEF CreateEscrow, TypeOK
    <3>2. i \in DOMAIN escrow' /\ escrow'[i] = escrow[i]
      BY <3>1
    <3> QED BY <3>2 DEF EscrowNow
  <2>2. ASSUME NEW id \in DOMAIN escrow, NEW u \in Users, NEW to \in Holders,
               NEW outcome \in {"Released", "Refunded"}, SettleEscrow(id, u, to, outcome),
               to = IF outcome = "Released" THEN escrow[id].receiver ELSE escrow[id].depositor
        PROVE  EscrowNow(i)
    <3>1. escrow[id].status = "Active" /\ escrow' = [escrow EXCEPT ![id].status = outcome]
      BY <2>2, SettleStep
    <3>2. /\ i \in DOMAIN escrow'
          /\ \A j \in DOMAIN escrow \ {id} : escrow'[j] = escrow[j]
          /\ escrow'[id] = [escrow[id] EXCEPT !.status = outcome]
      BY <3>1
    <3>3. CASE i # id
      BY <3>2, <3>3 DEF EscrowNow
    <3>4. CASE i = id
      <4>1. escrow[id] \in EscrowRecord
        BY DEF TypeOK
      <4>2. Payee(escrow'[id]) = to
        <5>1. /\ escrow'[id].status = outcome
              /\ escrow'[id].receiver = escrow[id].receiver
              /\ escrow'[id].depositor = escrow[id].depositor
          BY <3>2, <4>1 DEF EscrowRecord
        <5> QED BY <5>1, <2>2 DEF Payee
      <4>3. PICK t \in Tokens, n \in Nat : Payout(id, to, t, n)
        BY <2>2, SettleStep
      <4>4. escrow'[id] \in Settled(escrow[id])
        BY <3>2 DEF Settled
      <4> QED BY <3>1, <3>2, <3>4, <4>2, <4>3, <4>4 DEF EscrowNow, Payout
    <3> QED BY <3>3, <3>4
  <2>3. ASSUME NEW id \in DOMAIN escrow
        PROVE  escrow[id].receiver \in Holders /\ escrow[id].depositor \in Holders
    BY DEF TypeOK, EscrowRecord, Holders
  <2>4. ASSUME NEW id \in DOMAIN escrow, NEW u \in Users, ReleaseEscrow(id, u)
        PROVE  EscrowNow(i)
    BY <2>2, <2>3, <2>4 DEF ReleaseEscrow
  <2>5. ASSUME NEW id \in DOMAIN escrow, NEW u \in Users, RefundEscrow(id, u)
        PROVE  EscrowNow(i)
    <3>1. "Refunded" # "Released"
      OBVIOUS
    <3> QED BY <2>2, <2>3, <2>5, <3>1 DEF RefundEscrow
  <2> QED BY <1>5, <2>1, <2>4, <2>5 DEF UseEscrow
<1> QED BY <1>2, <1>3, <1>4, <1>5 DEF Next

(***************************************************************************)
(* An escrow has one outcome, and its money goes once and to the party that *)
(* outcome names, however release and refund calls compete for it.          *)
(***************************************************************************)
THEOREM EscrowsPayOnce == Spec => EscrowPaysOnce
<1>1. TypeOK /\ [Next]_vars => \A i \in DOMAIN escrow : EscrowNow(i)
  BY EscrowStep
<1> QED BY <1>1, TypeInit, TypeStep, PTL DEF Spec, EscrowPaysOnce, EscrowNow, Settled

-----------------------------------------------------------------------------
(* Caps: whoever is debited, by whichever call, is debited within them *)

SpendNow(k) ==
  \A cap \in {globalCap, assetCap[k[2]]} : cap > 0 => balance[k] - balance'[k] <= cap

LEMMA SpendStep ==
  ASSUME TypeOK, [Next]_vars, NEW k \in Accounts
  PROVE  SpendNow(k)
<1>0. /\ k[2] \in Assets /\ balance[k] \in Nat /\ NoCap = 0 /\ VoidCap = -1
      /\ globalCap \in Nat \cup {VoidCap} /\ assetCap[k[2]] \in Nat \cup {VoidCap}
  BY DEF TypeOK, Accounts, NoCap, VoidCap
<1>1. ASSUME NEW d \in Nat, balance'[k] = balance[k] + d PROVE SpendNow(k)
  BY <1>0, <1>1 DEF SpendNow
<1>2. ASSUME balance'[k] = balance[k] PROVE SpendNow(k)
  BY <1>0, <1>2 DEF SpendNow
<1>3. ASSUME NEW n \in Nat, NEW u \in Holders, NEW a \in Assets, k = <<u, a>>,
             CheckCap(a, n), balance'[k] = balance[k] - n
      PROVE  SpendNow(k)
  <2>1. /\ globalCap # 0 => n <= globalCap
        /\ assetCap[k[2]] # 0 => n <= assetCap[k[2]]
    BY <1>0, <1>3 DEF CheckCap
  <2> QED BY <1>0, <1>3, <2>1 DEF SpendNow
<1>4. CASE UNCHANGED vars
  BY <1>2, <1>4 DEF vars
<1>5. CASE Administer
  BY <1>2, <1>5 DEF Administer, Initialize, TransferAdmin, SetToken, SetGlobalCap, SetAssetCap
<1>6. CASE Pay
  <2>1. ASSUME NEW u \in Users, NEW a \in Assets, NEW n \in Amounts, Deposit(u, a, n)
        PROVE  SpendNow(k)
    <3>1. balance'[k] = balance[k] + n \/ balance'[k] = balance[k]
      BY <2>1 DEF Deposit, TypeOK
    <3> QED BY <1>1, <1>2, <3>1 DEF Amounts
  <2>2. ASSUME NEW u \in Users, NEW a \in Assets, NEW n \in Amounts, Withdraw(u, a, n)
        PROVE  SpendNow(k)
    <3>1. CASE k = <<u, a>>
      <4>1. n \in Nat /\ u \in Holders /\ CheckCap(a, n) /\ balance'[k] = balance[k] - n
        BY <2>2, <3>1 DEF Withdraw, TypeOK, Amounts, Holders
      <4> QED BY <1>3, <3>1, <4>1
    <3>2. CASE k # <<u, a>>
      BY <1>2, <2>2, <3>2, WithdrawStep
    <3> QED BY <3>1, <3>2
  <2>3. ASSUME NEW u \in Users, NEW v \in Holders, NEW a \in Assets, NEW n \in Amounts,
               Transfer(u, v, a, n)
        PROVE  SpendNow(k)
    <3> DEFINE p == <<u, a>>
               q == <<v, a>>
    <3>1. p \in Accounts /\ q \in Accounts /\ p # q /\ n \in Nat /\ u \in Holders
      BY <2>3 DEF Transfer, Accounts, Holders, Amounts
    <3>2. /\ n <= balance[p] /\ balance[q] + n <= MaxAmount /\ MaxAmount \in Nat
          /\ balance \in [Accounts -> 0..MaxAmount]
          /\ balance' = [balance EXCEPT ![p] = @ - n, ![q] = @ + n]
      BY <2>3 DEF Transfer, TypeOK, PaymentsAssumption
    <3> HIDE DEF p, q
    <3>3. /\ balance'[p] = balance[p] - n /\ balance'[q] = balance[q] + n
          /\ \A r \in Accounts \ {p, q} : balance'[r] = balance[r]
      BY <3>1, <3>2, MoveKeepsRange
    <3>4. CASE k = p
      <4>1. CheckCap(a, n)
        BY <2>3 DEF Transfer
      <4> QED BY <1>3, <3>1, <3>3, <3>4, <4>1 DEF p
    <3>5. CASE k = q
      BY <1>1, <3>1, <3>3, <3>5
    <3>6. CASE k \notin {p, q}
      BY <1>2, <3>3, <3>6
    <3> QED BY <3>4, <3>5, <3>6
  <2>4. ASSUME NEW u \in Users, NEW t \in Tokens, NEW n \in Amounts, SendToContract(u, t, n)
        PROVE  SpendNow(k)
    BY <1>2, <2>4 DEF SendToContract
  <2> QED BY <1>6, <2>1, <2>2, <2>3, <2>4 DEF Pay
<1>7. CASE UseEscrow
  <2>1. ASSUME NEW u \in Users, NEW v \in Holders, NEW a \in Assets, NEW n \in Amounts,
               CreateEscrow(u, v, a, n)
        PROVE  SpendNow(k)
    <3>1. /\ balance' = [balance EXCEPT ![<<u, a>>] = @ - n] /\ CheckCap(a, n)
          /\ n \in Nat /\ u \in Holders
      BY <2>1 DEF CreateEscrow, Amounts, Holders
    <3>2. CASE k = <<u, a>>
      <4>1. balance'[k] = balance[k] - n
        BY <3>1, <3>2 DEF TypeOK
      <4> QED BY <1>3, <3>1, <3>2, <4>1
    <3>3. CASE k # <<u, a>>
      BY <1>2, <3>1, <3>3 DEF TypeOK
    <3> QED BY <3>2, <3>3
  <2>2. ASSUME balance' = balance PROVE SpendNow(k)
    BY <1>2, <2>2
  <2> QED BY <1>7, <2>1, <2>2 DEF UseEscrow, ReleaseEscrow, RefundEscrow, SettleEscrow
<1> QED BY <1>4, <1>5, <1>6, <1>7 DEF Next

(***************************************************************************)
(* Withdrawals, transfers and escrows alike stay within the caps in force   *)
(* when they are made.                                                      *)
(***************************************************************************)
THEOREM SpendsWithinCaps == Spec => SpendWithinCap
<1>1. TypeOK /\ [Next]_vars => \A k \in Accounts : SpendNow(k)
  BY SpendStep
<1> QED BY <1>1, TypeInit, TypeStep, PTL DEF Spec, SpendWithinCap, SpendNow

-----------------------------------------------------------------------------
(* The properties as MCPayments checks them *)

(***************************************************************************)
(* Tokens leave the contract only against a claim struck out in the same    *)
(* call, and against an escrow once, to the party its outcome names.        *)
(***************************************************************************)
THEOREM PayoutsStruckOut == Spec => PayoutsAccounted
BY OutflowsClaimed, EscrowsPayOnce, PTL DEF PayoutsAccounted

(***************************************************************************)
(* No call takes more than the caps allow from an account, nor any cover    *)
(* from a token.                                                            *)
(***************************************************************************)
THEOREM SpendsBounded == Spec => SpendingBounded
BY SpendsWithinCaps, CoverStays, PTL DEF SpendingBounded
=============================================================================
