------------------------------ MODULE Treasury ------------------------------
(***************************************************************************)
(* The governance treasury: balances per asset, withdrawal requests, the    *)
(* signers who approve them and the two configuration fields that govern    *)
(* them.  It shares its contract, and nothing else but the configuration    *)
(* and the admin, with the proposals of Governance.tla.  Balances are       *)
(* accounting only: no token moves.                                         *)
(***************************************************************************)
EXTENDS Integers, SequencesExt

CONSTANTS
  People,        \* addresses that can authorize a call
  Admin,         \* the stored admin, one of them
  Assets,
  Settings,      \* configurations: [spendBps, threshold]
  MaxAmount,     \* i128::MAX
  MaxRequests    \* u64::MAX, the last request id

Setting == [spendBps : Nat, threshold : Nat]
Amounts == 1..MaxAmount

ASSUME TreasuryAssumption ==
  /\ Admin \in People
  /\ Settings \subseteq Setting /\ Settings # {}
  /\ MaxAmount \in Nat /\ MaxRequests \in Nat

VARIABLES
  config,    \* max_treasury_spend_bps and treasury_multisig_threshold
  treasury,  \* TreasuryBalance(asset)
  signers,   \* TreasurySigners, which add_signer keeps free of repetitions
  request    \* TreasuryRequest(id), in order of their ids

vars == <<config, treasury, signers, request>>

TreasuryRequest ==
  [asset : Assets, amount : Amounts, approvals : Seq(People), executed : BOOLEAN]

TypeOK ==
  /\ config \in Setting
  /\ treasury \in [Assets -> 0..MaxAmount]
  /\ signers \subseteq People
  /\ request \in Seq(TreasuryRequest) /\ Len(request) <= MaxRequests

(* initialize has run. *)
Init ==
  /\ config \in Settings
  /\ treasury = [a \in Assets |-> 0]
  /\ signers = {}
  /\ request = <<>>

-----------------------------------------------------------------------------
SetConfig(c) ==
  /\ c.threshold # 0
  /\ config' = c
  /\ UNCHANGED <<treasury, signers, request>>

(* Both take the signature of the address the caller names as admin. *)
AddSigner(signer) ==
  /\ signers' = signers \cup {signer}
  /\ UNCHANGED <<config, treasury, request>>

RemoveSigner(signer) ==
  /\ signers' = signers \ {signer}
  /\ UNCHANGED <<config, treasury, request>>

Deposit(asset, amount) ==
  /\ treasury[asset] + amount <= MaxAmount
  /\ treasury' = [treasury EXCEPT ![asset] = @ + amount]
  /\ UNCHANGED <<config, signers, request>>

SpendLimit(asset) == (treasury[asset] * config.spendBps) \div 10000

CreateRequest(asset, amount) ==
  /\ amount <= SpendLimit(asset)
  /\ Len(request) < MaxRequests
  /\ request' = Append(request, [asset |-> asset, amount |-> amount,
                                 approvals |-> <<>>, executed |-> FALSE])
  /\ UNCHANGED <<config, treasury, signers>>

(* Mutant: a signer may approve a request again. *)
ApproveAgain(signer, id) ==
  /\ signer \in signers \cup {Admin}
  /\ ~request[id].executed
  /\ Len(request[id].approvals) < Cardinality(People)
  /\ request' = [request EXCEPT ![id].approvals = Append(@, signer)]
  /\ UNCHANGED <<config, treasury, signers>>

ApproveRequest(signer, id) ==
  /\ signer \in signers \cup {Admin}
  /\ ~request[id].executed
  /\ ~Contains(request[id].approvals, signer)
  /\ request' = [request EXCEPT ![id].approvals = Append(@, signer)]
  /\ UNCHANGED <<config, treasury, signers>>

(* Mutant: an executed request may be executed once more. *)
ExecuteTwice(id) ==
  LET r == request[id] IN
  /\ Len(r.approvals) >= config.threshold
  /\ r.amount <= treasury[r.asset]
  /\ treasury' = [treasury EXCEPT ![r.asset] = @ - r.amount]
  /\ request' = [request EXCEPT ![id].executed = TRUE]
  /\ UNCHANGED <<config, signers>>

ExecuteRequest(id) ==
  LET r == request[id] IN
  /\ ~r.executed
  /\ Len(r.approvals) >= config.threshold
  /\ r.amount <= treasury[r.asset]
  /\ treasury' = [treasury EXCEPT ![r.asset] = @ - r.amount]
  /\ request' = [request EXCEPT ![id].executed = TRUE]
  /\ UNCHANGED <<config, signers>>

Next ==
  \/ \E c \in Settings : SetConfig(c)
  \/ \E p \in People : AddSigner(p)
  \/ \E p \in People : RemoveSigner(p)
  \/ \E a \in Assets, n \in Amounts : Deposit(a, n)
  \/ \E a \in Assets, n \in Amounts : CreateRequest(a, n)
  \/ \E p \in People, id \in DOMAIN request : ApproveRequest(p, id)
  \/ \E id \in DOMAIN request : ExecuteRequest(id)

Spec == Init /\ [][Next]_vars

-----------------------------------------------------------------------------
(* Properties *)

Approvers(id) == ToSet(request[id].approvals)
Executes(id) == id \in DOMAIN request /\ ~request[id].executed /\ request'[id].executed

(***************************************************************************)
(* The treasury pays a request only once as many different people as the    *)
(* threshold asks for have approved it: repeating an approval never counts  *)
(* twice.                                                                   *)
(***************************************************************************)
MultisigHonoured ==
  [][\A id \in DOMAIN request :
       Executes(id) => Cardinality(Approvers(id)) >= config.threshold]_vars

(***************************************************************************)
(* Funds leave the treasury only by executing one request, of that asset    *)
(* and amount, not executed before; and an executed request stays executed, *)
(* so that none is ever paid twice.                                         *)
(***************************************************************************)
EveryPaymentRequested ==
  [][/\ \A a \in Assets : treasury'[a] < treasury[a] =>
          \E id \in DOMAIN request :
            /\ Executes(id) /\ request[id].asset = a
            /\ treasury[a] - treasury'[a] = request[id].amount
            /\ \A j \in DOMAIN request \ {id} : request'[j] = request[j]
     /\ \A id \in DOMAIN request : request[id].executed => request'[id] = request[id]]_vars
=============================================================================
