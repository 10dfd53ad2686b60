--------------------------- MODULE ServicesProofs ---------------------------
(***************************************************************************)
(* Theorems about the contracts of Services, for any people, assets,        *)
(* settings, calls and bounds: first about each of those of Oversight and   *)
(* about them side by side, then about fees, gamification, valuation, the   *)
(* asset registry and analyses, and at the end about all.                   *)
(***************************************************************************)
EXTENDS Services, Lists, TotalsProofs, SequenceTheorems

(* Cardinality is the same operator wherever it is taken from.              *)
LEMMA CountsAgree ==
  /\ \A S : Versioned!Cardinality(S) = Cardinality(S)
  /\ \A S : Audited!Cardinality(S) = Cardinality(S)
  /\ \A S : Guarded!Cardinality(S) = Cardinality(S)
  /\ \A S : Versioned!IsFiniteSet(S) <=> IsFiniteSet(S)
  /\ \A s : Versioned!ToSet(s) = ToSet(s)
BY Zenon DEF Cardinality, Versioned!Cardinality, Audited!Cardinality, Guarded!Cardinality,
             IsFiniteSet, Versioned!IsFiniteSet, ToSet, Versioned!ToSet

-----------------------------------------------------------------------------
(* THE TREASURY *)

USE TreasuryAssumption

-----------------------------------------------------------------------------
(* Type correctness *)

(* A request that takes another approval, or is executed, is a request. *)
LEMMA RequestEdited ==
  ASSUME NEW r \in TreasuryRequest, NEW p \in People
  PROVE  /\ [r EXCEPT !.approvals = Append(@, p)] \in TreasuryRequest
         /\ [r EXCEPT !.executed = TRUE] \in TreasuryRequest
<1>1. r.approvals \in Seq(People)
  BY DEF TreasuryRequest
<1>2. Append(r.approvals, p) \in Seq(People)
  BY <1>1
<1> QED BY <1>2 DEF TreasuryRequest

LEMMA TypeInit == Init => TypeOK
<1> SUFFICES ASSUME Init PROVE TypeOK
  OBVIOUS
<1>1. request \in Seq(TreasuryRequest) /\ Len(request) <= MaxRequests
  BY DEF Init
<1> QED BY <1>1 DEF Init, TypeOK

LEMMA TypeStep == TypeOK /\ [Next]_vars => TypeOK'
<1> SUFFICES ASSUME TypeOK, [Next]_vars PROVE TypeOK'
  OBVIOUS
<1>1. CASE UNCHANGED vars
  BY <1>1 DEF vars, TypeOK
<1>2. ASSUME NEW c \in Settings, SetConfig(c) PROVE TypeOK'
  BY <1>2 DEF SetConfig, TypeOK
<1>3. ASSUME NEW p \in People, AddSigner(p) \/ RemoveSigner(p) PROVE TypeOK'
  BY <1>3 DEF AddSigner, RemoveSigner, TypeOK
<1>4. ASSUME NEW a \in Assets, NEW n \in Amounts, Deposit(a, n) PROVE TypeOK'
  BY <1>4 DEF Deposit, TypeOK, Amounts
<1>5. ASSUME NEW a \in Assets, NEW n \in Amounts, CreateRequest(a, n) PROVE TypeOK'
  <2> DEFINE r == [asset |-> a, amount |-> n, approvals |-> <<>>, executed |-> FALSE]
  <2>1. r \in TreasuryRequest
    BY DEF TreasuryRequest
  <2>2. request' = Append(request, r) /\ Len(request) < MaxRequests
    BY <1>5 DEF CreateRequest
  <2> HIDE DEF r
  <2>3. request' \in Seq(TreasuryRequest) /\ Len(request') <= MaxRequests
    BY <2>1, <2>2 DEF TypeOK
  <2> QED BY <1>5, <2>3 DEF CreateRequest, TypeOK
<1>6. ASSUME NEW p \in People, NEW id \in DOMAIN request, ApproveRequest(p, id) PROVE TypeOK'
  <2> DEFINE r == [request[id] EXCEPT !.approvals = Append(@, p)]
  <2>1. r \in TreasuryRequest
    <3>1. request[id] \in TreasuryRequest
      BY DEF TypeOK
    <3> QED BY <3>1, RequestEdited
  <2>2. request' = [request EXCEPT ![id] = r]
    BY <1>6 DEF ApproveRequest
  <2> HIDE DEF r
  <2>3. request' \in Seq(TreasuryRequest) /\ Len(request') <= MaxRequests
    BY <2>1, <2>2 DEF TypeOK
  <2> QED BY <1>6, <2>3 DEF ApproveRequest, TypeOK
<1>7. ASSUME NEW id \in DOMAIN request, ExecuteRequest(id) PROVE TypeOK'
  <2> DEFINE r == [request[id] EXCEPT !.executed = TRUE]
  <2>1. request[id] \in TreasuryRequest /\ r \in TreasuryRequest
    <3>1. request[id] \in TreasuryRequest /\ Admin \in People
      BY DEF TypeOK
    <3> QED BY <3>1, RequestEdited
  <2>2. request' = [request EXCEPT ![id] = r]
    BY <1>7 DEF ExecuteRequest
  <2> HIDE DEF r
  <2>3. request' \in Seq(TreasuryRequest) /\ Len(request') <= MaxRequests
    BY <2>1, <2>2 DEF TypeOK
  <2>4. treasury' \in [Assets -> 0..MaxAmount]
    <3>1. /\ request[id].asset \in Assets /\ request[id].amount \in Nat
          /\ request[id].amount <= treasury[request[id].asset]
          /\ treasury' = [treasury EXCEPT ![request[id].asset] = @ - request[id].amount]
      BY <1>7, <2>1 DEF ExecuteRequest, TreasuryRequest, Amounts
    <3> QED BY <3>1 DEF TypeOK
  <2> QED BY <1>7, <2>3, <2>4 DEF ExecuteRequest, TypeOK
<1> QED BY <1>1, <1>2, <1>3, <1>4, <1>5, <1>6, <1>7 DEF Next

(***************************************************************************)
(* No balance leaves 0..i128::MAX, in particular none is ever overdrawn,    *)
(* however many approved requests compete for it.                           *)
(***************************************************************************)
THEOREM TypeCorrect == Spec => []TypeOK
BY TypeInit, TypeStep, PTL DEF Spec

-----------------------------------------------------------------------------
(* Approvals *)

(***************************************************************************)
(* The code counts a list.  What makes the count one of people is that no   *)
(* list of approvals ever names anybody twice.                              *)
(***************************************************************************)
ApprovalInv ==
  /\ TypeOK
  /\ \A id \in 1..Len(request) : Distinct(request[id].approvals)

LEMMA ApprovalStep == ApprovalInv /\ [Next]_vars => ApprovalInv'
<1> SUFFICES ASSUME ApprovalInv, [Next]_vars
             PROVE  \A id \in 1..Len(request') : Distinct(request'[id].approvals)
  BY TypeStep DEF ApprovalInv
<1>0. /\ request \in Seq(TreasuryRequest) /\ DOMAIN request = 1..Len(request)
      /\ \A id \in 1..Len(request) : Distinct(request[id].approvals)
  BY DEF ApprovalInv, TypeOK
<1>1. CASE request' = request
  BY <1>0, <1>1
<1>2. ASSUME NEW a \in Assets, NEW n \in Amounts, CreateRequest(a, n)
      PROVE  \A id \in 1..Len(request') : Distinct(request'[id].approvals)
  <2>1. PICK r : request' = Append(request, r) /\ r.approvals = <<>>
    BY <1>2 DEF CreateRequest
  <2>2. Distinct(r.approvals)
    BY <2>1 DEF Distinct
  <2> QED BY <1>0, <2>1, <2>2
<1>3. ASSUME NEW p \in People, NEW k \in DOMAIN request, ApproveRequest(p, k)
      PROVE  \A id \in 1..Len(request') : Distinct(request'[id].approvals)
  <2>1. /\ request[k] \in TreasuryRequest /\ k \in 1..Len(request)
        /\ request' = [request EXCEPT ![k] =
                         [request[k] EXCEPT !.approvals = Append(request[k].approvals, p)]]
        /\ ~Contains(request[k].approvals, p)
    BY <1>0, <1>3 DEF ApproveRequest
  <2>2. request'[k].approvals = Append(request[k].approvals, p)
    BY <1>0, <2>1 DEF TreasuryRequest
  <2>3. Distinct(request'[k].approvals)
    <3>1. /\ request[k].approvals \in Seq(People) /\ Distinct(request[k].approvals)
          /\ \A i \in 1..Len(request[k].approvals) : request[k].approvals[i] # p
      BY <1>0, <2>1 DEF TreasuryRequest, Contains
    <3> QED BY <2>2, <3>1, DistinctAppend
  <2>4. Len(request') = Len(request) /\ \A id \in 1..Len(request) \ {k} : request'[id] = request[id]
    BY <1>0, <2>1
  <2> QED BY <1>0, <2>3, <2>4
<1>4. ASSUME NEW k \in DOMAIN request, ExecuteRequest(k)
      PROVE  \A id \in 1..Len(request') : Distinct(request'[id].approvals)
  <2>1. /\ request[k] \in TreasuryRequest
        /\ request' = [request EXCEPT ![k] = [request[k] EXCEPT !.executed = TRUE]]
    BY <1>0, <1>4 DEF ExecuteRequest
  <2>2. /\ Len(request') = Len(request)
        /\ \A id \in 1..Len(request) : request'[id].approvals = request[id].approvals
    BY <1>0, <2>1 DEF TreasuryRequest
  <2> QED BY <1>0, <2>2
<1> QED
  BY <1>1, <1>2, <1>3, <1>4 DEF Next, vars, SetConfig, AddSigner, RemoveSigner, Deposit

(***************************************************************************)
(* Whenever the treasury executes a request, at least as many different     *)
(* people as the threshold in force have approved it, whatever signers came *)
(* and went and however the threshold moved.                                *)
(***************************************************************************)
THEOREM Multisig == Spec => MultisigHonoured
<1> DEFINE Enough == \A id \in DOMAIN request :
                       Executes(id) => Cardinality(Approvers(id)) >= config.threshold
<1>1. Init => ApprovalInv
  BY TypeInit DEF Init, ApprovalInv
<1>2. ApprovalInv /\ [Next]_vars => ApprovalInv'
  BY ApprovalStep
<1>3. ApprovalInv /\ [Next]_vars => [Enough]_vars
  <2> SUFFICES ASSUME ApprovalInv, Next, NEW id \in DOMAIN request, Executes(id)
               PROVE  Cardinality(Approvers(id)) >= config.threshold
    OBVIOUS
  <2>1. Len(request[id].approvals) >= config.threshold
    <3>0. request \in Seq(TreasuryRequest) /\ id \in 1..Len(request)
      BY DEF ApprovalInv, TypeOK
    <3>1. ASSUME NEW a \in Assets, NEW n \in Amounts, CreateRequest(a, n) PROVE FALSE
      BY <3>0, <3>1 DEF CreateRequest, Executes
    <3>2. ASSUME NEW p \in People, NEW k \in DOMAIN request, ApproveRequest(p, k) PROVE FALSE
      BY <3>0, <3>2 DEF ApproveRequest, Executes, TreasuryRequest
    <3>3. ASSUME NEW k \in DOMAIN request, ExecuteRequest(k)
          PROVE  Len(request[id].approvals) >= config.threshold
      <4>1. id = k
        BY <3>0, <3>3 DEF ExecuteRequest, Executes
      <4> QED BY <3>3, <4>1 DEF ExecuteRequest
    <3>4. request' # request
      BY DEF Executes
    <3> QED
      BY <3>1, <3>2, <3>3, <3>4 DEF Next, SetConfig, AddSigner, RemoveSigner, Deposit
  <2>2. request[id].approvals \in Seq(People) /\ Distinct(request[id].approvals)
    <3>1. request[id] \in TreasuryRequest /\ id \in 1..Len(request)
      BY DEF ApprovalInv, TypeOK
    <3> QED BY <3>1 DEF ApprovalInv, TreasuryRequest
  <2>3. Cardinality(Approvers(id)) = Len(request[id].approvals)
    BY <2>2, DistinctCount DEF Approvers, ToSet
  <2> QED BY <2>1, <2>3
<1> QED BY <1>1, <1>2, <1>3, PTL DEF Spec, MultisigHonoured

-----------------------------------------------------------------------------
(* Payments *)

(* What a step may do to the treasury and to the executed requests. *)
PaidNow ==
  /\ \A a \in Assets : treasury'[a] < treasury[a] =>
       \E id \in DOMAIN request :
         /\ Executes(id) /\ request[id].asset = a
         /\ treasury[a] - treasury'[a] = request[id].amount
         /\ \A j \in DOMAIN request \ {id} : request'[j] = request[j]
  /\ \A id \in DOMAIN request : request[id].executed => request'[id] = request[id]

LEMMA PaymentStep ==
  ASSUME TypeOK, Next
  PROVE  PaidNow
<1>0. /\ treasury \in [Assets -> Nat] /\ request \in Seq(TreasuryRequest)
      /\ DOMAIN request = 1..Len(request) /\ Len(request) \in Nat
      /\ \A id \in DOMAIN request : request[id] \in TreasuryRequest
  BY DEF TypeOK
<1>1. ASSUME treasury' = treasury, request' = request PROVE PaidNow
  BY <1>0, <1>1 DEF PaidNow
<1>2. ASSUME NEW a \in Assets, NEW n \in Amounts, Deposit(a, n) PROVE PaidNow
  <2>1. /\ treasury' = [treasury EXCEPT ![a] = @ + n] /\ request' = request /\ n \in Nat
    BY <1>2 DEF Deposit, Amounts
  <2>2. \A b \in Assets : treasury'[b] >= treasury[b] /\ treasury'[b] \in Nat
    BY <1>0, <2>1
  <2>3. \A b \in Assets : ~(treasury'[b] < treasury[b])
    BY <1>0, <2>2
  <2> QED BY <2>1, <2>3 DEF PaidNow
<1>3. ASSUME NEW a \in Assets, NEW n \in Amounts, CreateRequest(a, n) PROVE PaidNow
  <2>1. PICK r : request' = Append(request, r) /\ treasury' = treasury
    BY <1>3 DEF CreateRequest
  <2>2. \A id \in DOMAIN request : request'[id] = request[id]
    BY <1>0, <2>1
  <2>3. \A b \in Assets : ~(treasury'[b] < treasury[b])
    BY <1>0, <2>1
  <2> QED BY <2>2, <2>3 DEF PaidNow
<1>4. ASSUME NEW p \in People, NEW k \in DOMAIN request, ApproveRequest(p, k) PROVE PaidNow
  <2>1. /\ ~request[k].executed /\ treasury' = treasury
        /\ \A id \in DOMAIN request \ {k} : request'[id] = request[id]
    BY <1>0, <1>4 DEF ApproveRequest
  <2>2. \A b \in Assets : ~(treasury'[b] < treasury[b])
    BY <1>0, <2>1
  <2> QED BY <2>1, <2>2 DEF PaidNow
<1>5. ASSUME NEW k \in DOMAIN request, ExecuteRequest(k) PROVE PaidNow
  <2> DEFINE a == request[k].asset
             n == request[k].amount
  <2>1. /\ ~request[k].executed /\ n <= treasury[a]
        /\ treasury' = [treasury EXCEPT ![a] = @ - n]
        /\ \A id \in DOMAIN request \ {k} : request'[id] = request[id]
    BY <1>0, <1>5 DEF ExecuteRequest
  <2>2. a \in Assets /\ n \in Nat
    BY <1>0 DEF TreasuryRequest, Amounts
  <2>3. Executes(k)
    <3>1. request' = [request EXCEPT ![k].executed = TRUE] /\ request[k] \in TreasuryRequest
      BY <1>0, <1>5 DEF ExecuteRequest
    <3>2. request'[k].executed
      BY <1>0, <3>1 DEF TreasuryRequest
    <3> QED BY <2>1, <3>2 DEF Executes
  <2>4. ASSUME NEW b \in Assets, treasury'[b] < treasury[b]
        PROVE  b = a /\ treasury[b] - treasury'[b] = n
    <3>1. ASSUME b # a PROVE FALSE
      BY <1>0, <2>1, <2>4, <3>1
    <3> HIDE DEF a, n
    <3>2. treasury[a] \in Nat /\ treasury'[a] = treasury[a] - n
      BY <1>0, <2>1, <2>2
    <3> QED BY <2>2, <3>1, <3>2
  <2> QED BY <2>1, <2>3, <2>4 DEF PaidNow
<1> QED
  BY <1>1, <1>2, <1>3, <1>4, <1>5 DEF Next, SetConfig, AddSigner, RemoveSigner

(***************************************************************************)
(* Whatever order deposits, requests, approvals and executions come in,     *)
(* funds leave only for one request not executed before, and an executed    *)
(* request is never touched again.                                          *)
(***************************************************************************)
THEOREM PaymentsRequested == Spec => EveryPaymentRequested
<1>1. TypeOK /\ [Next]_vars => [PaidNow]_vars
  BY PaymentStep
<1> QED BY <1>1, TypeInit, TypeStep, PTL DEF Spec, EveryPaymentRequested, PaidNow

-----------------------------------------------------------------------------
(* THE VERSIONS *)

LiveInv == Versioned!TypeOK /\ Versioned!OneLive

LEMMA LiveInit == Versioned!VersioningAssumption /\ Versioned!Init => LiveInv
<1> SUFFICES ASSUME Versioned!VersioningAssumption, Versioned!Init PROVE LiveInv
  OBVIOUS
<1>1. Versioned!TypeOK
  BY DEF Versioned!Init, Versioned!TypeOK, Versioned!Versions, Versioned!VersioningAssumption
<1>2. Versioned!OneLive
  BY DEF Versioned!Init, Versioned!OneLive, Versioned!Versions, Versioned!Contains
<1> QED BY <1>1, <1>2 DEF LiveInv

(***************************************************************************)
(* Another version takes over: it was not frozen, and neither was the       *)
(* current one, which is Active.                                            *)
(***************************************************************************)
LEMMA ActivateLive ==
  ASSUME LiveInv, NEW target \in Versioned!Versions, NEW retired \in {"Superseded", "RolledBack"},
         target # current, version[target].status \in {"Proposed", "Superseded"},
         Versioned!Activate(target, retired), frozen' = frozen
  PROVE  Versioned!OneLive' /\ version' \in Seq(Versioned!VersionMetadata) /\ Len(version') = Len(version)
         /\ current' \in Versioned!Versions
<1>1. /\ version \in Seq(Versioned!VersionMetadata) /\ Len(version) \in Nat /\ current \in 0..Len(version)
      /\ \A n \in Versioned!Versions : version[n] \in Versioned!VersionMetadata
      /\ \A n \in Versioned!Versions : version[n].status = "Active" <=> n = current
      /\ \A n \in Versioned!Versions : version[n].status = "Frozen" <=> Versioned!Contains(frozen, n)
  BY DEF LiveInv, Versioned!TypeOK, Versioned!OneLive, Versioned!Versions
<1>2. \A n \in Versioned!Versions :
        version'[n] = IF n = target THEN [version[n] EXCEPT !.status = "Active"]
                      ELSE IF n = current THEN [version[n] EXCEPT !.status = retired]
                      ELSE version[n]
  BY DEF Versioned!Activate
<1>3. \A n \in Versioned!Versions : version'[n] \in Versioned!VersionMetadata
  BY <1>1, <1>2 DEF Versioned!VersionMetadata
<1>4. version' \in Seq(Versioned!VersionMetadata) /\ Len(version') = Len(version)
  <2>1. version' = [n \in 1..Len(version) |-> version'[n]]
    BY DEF Versioned!Activate, Versioned!Versions
  <2>2. \A n \in 1..Len(version) : version'[n] \in Versioned!VersionMetadata
    BY <1>3 DEF Versioned!Versions
  <2> QED BY <1>1, <2>1, <2>2
<1>5. Versioned!Versions' = Versioned!Versions /\ current' = target
  BY <1>4 DEF Versioned!Versions, Versioned!Activate
<1>6. \A n \in Versioned!Versions :
        version'[n].status = IF n = target THEN "Active"
                             ELSE IF n = current THEN retired ELSE version[n].status
  BY <1>1, <1>2 DEF Versioned!VersionMetadata
<1>7. \A n \in Versioned!Versions : version'[n].status = "Active" <=> n = target
  BY <1>1, <1>6
<1>8. \A n \in Versioned!Versions : version'[n].status = "Frozen" <=> Versioned!Contains(frozen, n)
  BY <1>1, <1>6
<1> QED BY <1>4, <1>5, <1>7, <1>8 DEF Versioned!OneLive, Versioned!Contains

(* An edited proposal keeps its target and its type. *)
LEMMA UpgradeEdited ==
  ASSUME NEW r \in Versioned!UpgradeProposal, NEW p \in People
  PROVE  /\ [r EXCEPT !.approvals = Append(@, p)] \in Versioned!UpgradeProposal
         /\ [r EXCEPT !.executed = TRUE] \in Versioned!UpgradeProposal
         /\ [r EXCEPT !.rejected = TRUE] \in Versioned!UpgradeProposal
         /\ [r EXCEPT !.approvals = Append(@, p)].target = r.target
         /\ [r EXCEPT !.executed = TRUE].target = r.target
         /\ [r EXCEPT !.rejected = TRUE].target = r.target
<1>1. r.approvals \in Seq(People) /\ Append(r.approvals, p) \in Seq(People)
  BY DEF Versioned!UpgradeProposal
<1> QED BY <1>1 DEF Versioned!UpgradeProposal

(* Replacing one proposal by another for the same target keeps all typed.   *)
LEMMA UpgradesKept ==
  ASSUME Versioned!TypeOK, NEW id \in DOMAIN upgrade, NEW r \in Versioned!UpgradeProposal,
         r.target = upgrade[id].target, upgrade' = [upgrade EXCEPT ![id] = r],
         Len(version') = Len(version), Len(version) \in Nat
  PROVE  /\ upgrade' \in Seq(Versioned!UpgradeProposal) /\ Len(upgrade') <= MaxUpgrades
         /\ \A i \in DOMAIN upgrade' : upgrade'[i].target \in Versioned!Versions'
<1>1. upgrade \in Seq(Versioned!UpgradeProposal) /\ DOMAIN upgrade = 1..Len(upgrade) /\ Len(upgrade) \in Nat
  BY DEF Versioned!TypeOK
<1>2. /\ upgrade' \in Seq(Versioned!UpgradeProposal) /\ Len(upgrade') = Len(upgrade)
      /\ DOMAIN upgrade' = DOMAIN upgrade
      /\ \A i \in DOMAIN upgrade : upgrade'[i] = IF i = id THEN r ELSE upgrade[i]
  BY <1>1
<1>3. \A i \in DOMAIN upgrade : upgrade'[i].target = upgrade[i].target
  BY <1>2
<1> QED BY <1>2, <1>3 DEF Versioned!TypeOK, Versioned!Versions

LEMMA LiveStep == Versioned!VersioningAssumption /\ LiveInv /\ [Versioned!Next]_Versioned!vars => LiveInv'
<1> SUFFICES ASSUME Versioned!VersioningAssumption, LiveInv, [Versioned!Next]_Versioned!vars PROVE LiveInv'
  OBVIOUS
<1>0. /\ Versioned!TypeOK /\ Versioned!OneLive /\ Len(version) \in Nat /\ Len(upgrade) \in Nat
      /\ version \in Seq(Versioned!VersionMetadata) /\ upgrade \in Seq(Versioned!UpgradeProposal)
      /\ frozen \in Seq(Versioned!Versions) /\ current \in 0..Len(version)
      /\ DOMAIN upgrade = 1..Len(upgrade)
      /\ \A id \in DOMAIN upgrade : upgrade[id] \in Versioned!UpgradeProposal /\ upgrade[id].target \in Versioned!Versions
  BY DEF LiveInv, Versioned!TypeOK
<1>1. CASE UNCHANGED Versioned!vars
  BY <1>1 DEF LiveInv, Versioned!vars, Versioned!authority, Versioned!TypeOK, Versioned!OneLive, Versioned!Versions
<1>2. ASSUME NEW p \in People, Versioned!AddSigner(p) \/ Versioned!RemoveSigner(p) PROVE LiveInv'
  BY <1>0, <1>2 DEF Versioned!AddSigner, Versioned!RemoveSigner, LiveInv, Versioned!TypeOK, Versioned!OneLive, Versioned!Versions
<1>3. ASSUME NEW n \in 0..(Versioned!Cardinality(People) + 1), Versioned!SetApprovalThreshold(n) PROVE LiveInv'
  <2>1. Versioned!Cardinality(People) \in Nat
    BY FS_CardinalityType, CountsAgree DEF Versioned!VersioningAssumption
  <2> QED BY <1>0, <1>3, <2>1 DEF Versioned!SetApprovalThreshold, LiveInv, Versioned!TypeOK, Versioned!OneLive, Versioned!Versions
<1>4. ASSUME NEW steps \in BOOLEAN, Versioned!AddVersion(steps) PROVE LiveInv'
  <2> DEFINE new == [status |-> "Proposed", steps |-> steps]
  <2>1. /\ version' = Append(version, new) /\ new \in Versioned!VersionMetadata
        /\ UNCHANGED <<Versioned!authority, current, frozen, upgrade>> /\ Len(version) < MaxVersions
    BY <1>4 DEF Versioned!AddVersion, Versioned!VersionMetadata
  <2>2. /\ version' \in Seq(Versioned!VersionMetadata) /\ Len(version') = Len(version) + 1
        /\ version'[Len(version) + 1] = new
        /\ \A n \in Versioned!Versions : version'[n] = version[n]
    BY <1>0, <2>1 DEF Versioned!Versions
  <2>3. Versioned!Versions' = Versioned!Versions \cup {Len(version) + 1} /\ Len(version) + 1 \notin Versioned!Versions
    BY <1>0, <2>2 DEF Versioned!Versions
  <2>4. frozen \in Seq(Versioned!Versions') /\ ~Versioned!Contains(frozen, Len(version) + 1)
    BY <1>0, <2>3 DEF Versioned!Contains
  <2>5. Versioned!TypeOK'
    BY <1>0, <2>1, <2>2, <2>3, <2>4 DEF Versioned!TypeOK, Versioned!authority, Versioned!VersioningAssumption
  <2>6. Versioned!OneLive'
    <3>1. ASSUME NEW n \in Versioned!Versions'
          PROVE  /\ version'[n].status = "Active" <=> n = current'
                 /\ version'[n].status = "Frozen" <=> Versioned!Contains(frozen, n)
      <4>1. CASE n \in Versioned!Versions
        BY <1>0, <2>1, <2>2, <4>1 DEF Versioned!OneLive
      <4>2. CASE n = Len(version) + 1
        BY <1>0, <2>1, <2>2, <2>4, <4>2
      <4> QED BY <2>3, <4>1, <4>2
    <3> QED BY <2>1, <3>1 DEF Versioned!OneLive, Versioned!Contains
  <2> QED BY <2>5, <2>6 DEF LiveInv
<1>5. ASSUME NEW n \in Versioned!Versions, Versioned!ProposeUpgrade(n) PROVE LiveInv'
  <2> DEFINE new == [target |-> n, approvals |-> <<Admin>>, executed |-> FALSE, rejected |-> FALSE]
  <2>1. /\ upgrade' = Append(upgrade, new) /\ Len(upgrade) < MaxUpgrades
        /\ UNCHANGED <<Versioned!authority, current, version, frozen>>
    BY <1>5 DEF Versioned!ProposeUpgrade
  <2>2. n \in 1..MaxVersions /\ <<Admin>> \in Seq(People)
    BY <1>0 DEF Versioned!TypeOK, Versioned!Versions, Versioned!VersioningAssumption
  <2>3. new \in Versioned!UpgradeProposal
    BY <2>2 DEF Versioned!UpgradeProposal
  <2>4. new.target = n
    OBVIOUS
  <2> HIDE DEF new
  <2>5. /\ upgrade' \in Seq(Versioned!UpgradeProposal) /\ Len(upgrade') = Len(upgrade) + 1
        /\ \A i \in DOMAIN upgrade' : upgrade'[i].target \in Versioned!Versions
    BY <1>0, <2>1, <2>3, <2>4
  <2>6. Versioned!TypeOK'
    BY <1>0, <2>1, <2>5 DEF Versioned!TypeOK, Versioned!Versions, Versioned!authority, Versioned!VersioningAssumption
  <2> QED BY <1>0, <2>1, <2>6 DEF LiveInv, Versioned!OneLive, Versioned!Versions
<1>6. ASSUME NEW p \in People, NEW id \in DOMAIN upgrade, Versioned!ApproveUpgrade(p, id) PROVE LiveInv'
  <2>1. /\ upgrade' = [upgrade EXCEPT ![id] = [upgrade[id] EXCEPT !.approvals = Append(@, p)]]
        /\ UNCHANGED <<Versioned!authority, current, version, frozen>>
    BY <1>6 DEF Versioned!ApproveUpgrade
  <2> DEFINE r == [upgrade[id] EXCEPT !.approvals = Append(@, p)]
  <2>2. Admin \in People
    BY DEF Versioned!VersioningAssumption
  <2>3. r \in Versioned!UpgradeProposal /\ r.target = upgrade[id].target
    BY <1>0, <2>2, UpgradeEdited
  <2>4. upgrade' = [upgrade EXCEPT ![id] = r]
    BY <2>1
  <2> HIDE DEF r
  <2>5. /\ upgrade' \in Seq(Versioned!UpgradeProposal) /\ Len(upgrade') <= MaxUpgrades
        /\ \A i \in DOMAIN upgrade' : upgrade'[i].target \in Versioned!Versions'
    BY <1>0, <2>1, <2>3, <2>4, UpgradesKept
  <2>6. Versioned!TypeOK'
    BY <1>0, <2>1, <2>5 DEF Versioned!TypeOK, Versioned!Versions, Versioned!authority
  <2> QED BY <1>0, <2>1, <2>6 DEF LiveInv, Versioned!OneLive, Versioned!Versions
<1>7. ASSUME NEW id \in DOMAIN upgrade, Versioned!RejectUpgrade(id) PROVE LiveInv'
  <2>1. /\ upgrade' = [upgrade EXCEPT ![id] = [upgrade[id] EXCEPT !.rejected = TRUE]]
        /\ UNCHANGED <<Versioned!authority, current, version, frozen>>
    BY <1>7 DEF Versioned!RejectUpgrade
  <2> DEFINE r == [upgrade[id] EXCEPT !.rejected = TRUE]
  <2>2. Admin \in People
    BY DEF Versioned!VersioningAssumption
  <2>3. r \in Versioned!UpgradeProposal /\ r.target = upgrade[id].target
    BY <1>0, <2>2, UpgradeEdited
  <2>4. upgrade' = [upgrade EXCEPT ![id] = r]
    BY <2>1
  <2> HIDE DEF r
  <2>5. /\ upgrade' \in Seq(Versioned!UpgradeProposal) /\ Len(upgrade') <= MaxUpgrades
        /\ \A i \in DOMAIN upgrade' : upgrade'[i].target \in Versioned!Versions'
    BY <1>0, <2>1, <2>3, <2>4, UpgradesKept
  <2>6. Versioned!TypeOK'
    BY <1>0, <2>1, <2>5 DEF Versioned!TypeOK, Versioned!Versions, Versioned!authority
  <2> QED BY <1>0, <2>1, <2>6 DEF LiveInv, Versioned!OneLive, Versioned!Versions
<1>8. ASSUME NEW id \in DOMAIN upgrade, Versioned!ExecuteUpgrade(id) PROVE LiveInv'
  <2>1. /\ upgrade' = [upgrade EXCEPT ![id] = [upgrade[id] EXCEPT !.executed = TRUE]]
        /\ Versioned!Activate(upgrade[id].target, "Superseded") /\ Versioned!Compatible(upgrade[id].target)
        /\ UNCHANGED <<Versioned!authority, frozen>>
    BY <1>8 DEF Versioned!ExecuteUpgrade
  <2>2. /\ Versioned!OneLive' /\ version' \in Seq(Versioned!VersionMetadata) /\ Len(version') = Len(version)
        /\ current' \in Versioned!Versions
    <3>1. upgrade[id].target # current /\ version[upgrade[id].target].status \in {"Proposed", "Superseded"}
      BY <2>1 DEF Versioned!Compatible
    <3> QED BY <1>0, <2>1, <3>1, ActivateLive
  <2> DEFINE r == [upgrade[id] EXCEPT !.executed = TRUE]
  <2>3. Admin \in People
    BY DEF Versioned!VersioningAssumption
  <2>4. r \in Versioned!UpgradeProposal /\ r.target = upgrade[id].target
    BY <1>0, <2>3, UpgradeEdited
  <2>5. upgrade' = [upgrade EXCEPT ![id] = r]
    BY <2>1
  <2> HIDE DEF r
  <2>6. /\ upgrade' \in Seq(Versioned!UpgradeProposal) /\ Len(upgrade') <= MaxUpgrades
        /\ \A i \in DOMAIN upgrade' : upgrade'[i].target \in Versioned!Versions'
    BY <1>0, <2>2, <2>4, <2>5, UpgradesKept
  <2>7. Versioned!TypeOK'
    BY <1>0, <2>1, <2>2, <2>6 DEF Versioned!TypeOK, Versioned!Versions, Versioned!authority
  <2> QED BY <2>2, <2>7 DEF LiveInv
<1>9. ASSUME NEW n \in Versioned!Versions, Versioned!Rollback(n) PROVE LiveInv'
  <2>1. /\ Versioned!Activate(n, "RolledBack") /\ version[n].status = "Superseded" /\ n # current
        /\ UNCHANGED <<Versioned!authority, upgrade, frozen>>
    BY <1>9 DEF Versioned!Rollback
  <2>2. /\ Versioned!OneLive' /\ version' \in Seq(Versioned!VersionMetadata) /\ Len(version') = Len(version)
        /\ current' \in Versioned!Versions
    BY <2>1, ActivateLive
  <2>3. Versioned!TypeOK'
    BY <1>0, <2>1, <2>2 DEF Versioned!TypeOK, Versioned!Versions, Versioned!authority
  <2> QED BY <2>2, <2>3 DEF LiveInv
<1>10. ASSUME NEW n \in Versioned!Versions, Versioned!FreezeVersion(n) PROVE LiveInv'
  <2>1. /\ n # current
        /\ version' = [version EXCEPT ![n].status = "Frozen"] /\ frozen' = Append(frozen, n)
        /\ UNCHANGED <<Versioned!authority, current, upgrade>>
    BY <1>10 DEF Versioned!FreezeVersion
  <2> DEFINE r == [version[n] EXCEPT !.status = "Frozen"]
  <2>2. r \in Versioned!VersionMetadata /\ r.status = "Frozen"
    <3>1. version[n] \in Versioned!VersionMetadata
      BY <1>0 DEF Versioned!Versions
    <3> QED BY <3>1 DEF Versioned!VersionMetadata
  <2>3. version' = [version EXCEPT ![n] = r]
    BY <2>1
  <2> HIDE DEF r
  <2>4. /\ version' \in Seq(Versioned!VersionMetadata) /\ Len(version') = Len(version)
        /\ \A m \in Versioned!Versions : version'[m] = IF m = n THEN r ELSE version[m]
    BY <1>0, <2>2, <2>3 DEF Versioned!Versions
  <2>5. Versioned!Versions' = Versioned!Versions /\ frozen' \in Seq(Versioned!Versions)
    BY <1>0, <2>1, <2>4 DEF Versioned!Versions
  <2>6. \A m \in Versioned!Versions : Versioned!Contains(frozen', m) <=> Versioned!Contains(frozen, m) \/ m = n
    <3> DEFINE k == Len(frozen) + 1
    <3>1. Len(frozen) \in Nat /\ Len(frozen') = k
      BY <1>0, <2>1
    <3>2. frozen'[k] = n /\ \A i \in 1..Len(frozen) : frozen'[i] = frozen[i]
      BY <1>0, <2>1
    <3>3. 1..k = 1..Len(frozen) \cup {k}
      BY <3>1
    <3> HIDE DEF k
    <3> QED BY <3>1, <3>2, <3>3 DEF Versioned!Contains
  <2>7. Versioned!TypeOK'
    BY <1>0, <2>1, <2>4, <2>5 DEF Versioned!TypeOK, Versioned!authority
  <2>8. \A m \in Versioned!Versions : version'[m].status = "Active" <=> m = current'
    BY <1>0, <2>1, <2>2, <2>4 DEF Versioned!OneLive
  <2>9. \A m \in Versioned!Versions : version'[m].status = "Frozen" <=> Versioned!Contains(frozen', m)
    BY <1>0, <2>2, <2>4, <2>6 DEF Versioned!OneLive
  <2> QED
    BY <2>5, <2>7, <2>8, <2>9 DEF LiveInv, Versioned!OneLive, Versioned!Contains
<1> QED
  BY <1>1, <1>2, <1>3, <1>4, <1>5, <1>6, <1>7, <1>8, <1>9, <1>10 DEF Versioned!Next

(***************************************************************************)
(* However upgrades, rollbacks and freezing alternate, exactly the current  *)
(* version is Active and exactly the listed ones are Frozen.  (Versioned!OneLive is   *)
(* inductive given the types: what takes over is neither current nor        *)
(* frozen, and a new number is on no list.)                                 *)
(***************************************************************************)
THEOREM LiveVersion ==
  ASSUME Versioned!VersioningAssumption PROVE Versioned!Spec => []Versioned!OneLive
<1>1. LiveInv => Versioned!OneLive
  BY DEF LiveInv
<1>2. Versioned!Init => LiveInv
  BY LiveInit
<1>3. LiveInv /\ [Versioned!Next]_Versioned!vars => LiveInv'
  BY LiveStep
<1> QED BY <1>1, <1>2, <1>3, PTL DEF Versioned!Spec

-----------------------------------------------------------------------------
(* Sanctioned upgrades *)

(***************************************************************************)
(* execute_upgrade counts a list of approvals.  What makes the count one of *)
(* people is that no list names anybody twice, the admin's own approval,    *)
(* which a proposal starts with, included.                                  *)
(***************************************************************************)
BallotInv ==
  /\ LiveInv
  /\ \A id \in DOMAIN upgrade : Distinct(upgrade[id].approvals)

LEMMA BallotStep ==
  ASSUME Versioned!VersioningAssumption, BallotInv, [Versioned!Next]_Versioned!vars
  PROVE  BallotInv'
<1>0. /\ LiveInv' /\ upgrade \in Seq(Versioned!UpgradeProposal) /\ Len(upgrade) \in Nat
      /\ DOMAIN upgrade = 1..Len(upgrade)
      /\ \A id \in DOMAIN upgrade : /\ upgrade[id] \in Versioned!UpgradeProposal
                                    /\ Distinct(upgrade[id].approvals)
  BY LiveStep DEF BallotInv, LiveInv, Versioned!TypeOK
<1> SUFFICES \A id \in DOMAIN upgrade' : Distinct(upgrade'[id].approvals)
  BY <1>0 DEF BallotInv
<1>1. CASE upgrade' = upgrade
  BY <1>0, <1>1
<1>2. ASSUME NEW n \in Versioned!Versions, Versioned!ProposeUpgrade(n)
      PROVE  \A id \in DOMAIN upgrade' : Distinct(upgrade'[id].approvals)
  <2>1. PICK r : upgrade' = Append(upgrade, r) /\ r.approvals = <<Admin>>
    BY <1>2 DEF Versioned!ProposeUpgrade
  <2>2. Distinct(r.approvals)
    BY <2>1 DEF Distinct
  <2>3. /\ DOMAIN upgrade' = 1..(Len(upgrade) + 1) /\ upgrade'[Len(upgrade) + 1] = r
        /\ \A id \in DOMAIN upgrade : upgrade'[id] = upgrade[id]
    BY <1>0, <2>1
  <2> QED BY <1>0, <2>2, <2>3
<1>3. ASSUME NEW p \in People, NEW k \in DOMAIN upgrade, Versioned!ApproveUpgrade(p, k)
      PROVE  \A id \in DOMAIN upgrade' : Distinct(upgrade'[id].approvals)
  <2>1. /\ upgrade[k].approvals \in Seq(People) /\ Distinct(upgrade[k].approvals)
        /\ \A i \in 1..Len(upgrade[k].approvals) : upgrade[k].approvals[i] # p
    BY <1>0, <1>3 DEF Versioned!ApproveUpgrade, Versioned!UpgradeProposal, Versioned!Contains
  <2>2. /\ DOMAIN upgrade' = DOMAIN upgrade
        /\ upgrade'[k].approvals = Append(upgrade[k].approvals, p)
        /\ \A id \in DOMAIN upgrade \ {k} : upgrade'[id] = upgrade[id]
    BY <1>0, <1>3 DEF Versioned!ApproveUpgrade, Versioned!UpgradeProposal
  <2>3. Distinct(upgrade'[k].approvals)
    BY <2>1, <2>2, DistinctAppend
  <2> QED BY <1>0, <2>2, <2>3
<1>4. ASSUME NEW k \in DOMAIN upgrade, Versioned!ExecuteUpgrade(k) \/ Versioned!RejectUpgrade(k)
      PROVE  \A id \in DOMAIN upgrade' : Distinct(upgrade'[id].approvals)
  <2>1. /\ upgrade[k] \in Versioned!UpgradeProposal
        /\ \/ upgrade' = [upgrade EXCEPT ![k] = [upgrade[k] EXCEPT !.executed = TRUE]]
           \/ upgrade' = [upgrade EXCEPT ![k] = [upgrade[k] EXCEPT !.rejected = TRUE]]
    BY <1>0, <1>4 DEF Versioned!ExecuteUpgrade, Versioned!RejectUpgrade
  <2>2. PICK r \in Versioned!UpgradeProposal :
          upgrade' = [upgrade EXCEPT ![k] = r] /\ r.approvals = upgrade[k].approvals
    BY <2>1 DEF Versioned!UpgradeProposal
  <2>3. /\ DOMAIN upgrade' = DOMAIN upgrade
        /\ \A id \in DOMAIN upgrade : upgrade'[id].approvals = upgrade[id].approvals
    BY <1>0, <2>2
  <2> QED BY <1>0, <2>3
<1> QED
  BY <1>1, <1>2, <1>3, <1>4
  DEF Versioned!Next, Versioned!vars, Versioned!AddSigner, Versioned!RemoveSigner, Versioned!SetApprovalThreshold, Versioned!AddVersion, Versioned!Rollback, Versioned!FreezeVersion

(* How the current version may change in a step. *)
SanctionedNow ==
  current' # current =>
    /\ version[current'].status \in {"Proposed", "Superseded"}
    /\ \/ \E id \in DOMAIN upgrade : Versioned!Sanctioned(id)
       \/ /\ current # 0 /\ version[current'].status = "Superseded"
          /\ version'[current].status = "RolledBack"

LEMMA SanctionedStep ==
  ASSUME BallotInv, Versioned!Next
  PROVE  SanctionedNow
<1>0. /\ upgrade \in Seq(Versioned!UpgradeProposal) /\ DOMAIN upgrade = 1..Len(upgrade)
      /\ version \in Seq(Versioned!VersionMetadata) /\ current \in 0..Len(version) /\ Len(version) \in Nat
      /\ \A id \in DOMAIN upgrade : upgrade[id] \in Versioned!UpgradeProposal
  BY DEF BallotInv, LiveInv, Versioned!TypeOK
<1>1. CASE current' = current
  BY <1>1 DEF SanctionedNow
<1>2. ASSUME NEW k \in DOMAIN upgrade, Versioned!ExecuteUpgrade(k) PROVE SanctionedNow
  <2>1. /\ ~upgrade[k].executed /\ ~upgrade[k].rejected
        /\ Len(upgrade[k].approvals) >= needed
        /\ current' = upgrade[k].target
        /\ version[upgrade[k].target].status \in {"Proposed", "Superseded"}
        /\ upgrade' = [upgrade EXCEPT ![k] = [upgrade[k] EXCEPT !.executed = TRUE]]
    BY <1>2 DEF Versioned!ExecuteUpgrade, Versioned!Compatible, Versioned!Activate
  <2>2. upgrade'[k].executed
    BY <1>0, <2>1 DEF Versioned!UpgradeProposal
  <2>3. upgrade[k].approvals \in Seq(People) /\ Distinct(upgrade[k].approvals)
    BY <1>0 DEF BallotInv, Versioned!UpgradeProposal
  <2>4. Cardinality(ToSet(upgrade[k].approvals)) = Len(upgrade[k].approvals)
    BY <2>3, DistinctCount DEF ToSet
  <2>5. Versioned!Sanctioned(k)
    BY <2>1, <2>2, <2>4, CountsAgree DEF Versioned!Sanctioned
  <2> QED BY <2>1, <2>5 DEF SanctionedNow
<1>3. ASSUME NEW n \in Versioned!Versions, Versioned!Rollback(n) PROVE SanctionedNow
  <2>1. /\ current # 0 /\ version[current].status = "Active" /\ version[n].status = "Superseded"
        /\ current' = n /\ current \in Versioned!Versions /\ n # current
    BY <1>0, <1>3 DEF Versioned!Rollback, Versioned!Activate, Versioned!Versions
  <2>2. version'[current] = [version[current] EXCEPT !.status = "RolledBack"]
    BY <1>3, <2>1 DEF Versioned!Rollback, Versioned!Activate
  <2>3. version'[current].status = "RolledBack"
    BY <1>0, <2>1, <2>2 DEF Versioned!VersionMetadata, Versioned!Versions
  <2> QED BY <2>1, <2>3 DEF SanctionedNow
<1> QED
  BY <1>1, <1>2, <1>3
  DEF Versioned!Next, Versioned!AddSigner, Versioned!RemoveSigner, Versioned!SetApprovalThreshold, Versioned!AddVersion, Versioned!ProposeUpgrade,
      Versioned!ApproveUpgrade, Versioned!RejectUpgrade, Versioned!FreezeVersion

(***************************************************************************)
(* Signers may come and go and the needed may move between the approvals *)
(* of a proposal and its execution, which anybody may call: a version still *)
(* comes into use only on as many people's approval as the needed in     *)
(* force, or by a rollback.                                                 *)
(***************************************************************************)
THEOREM UpgradesApproved ==
  ASSUME Versioned!VersioningAssumption PROVE Versioned!Spec => Versioned!UpgradesSanctioned
<1>1. Versioned!Init => BallotInv
  BY LiveInit DEF Versioned!Init, BallotInv
<1>2. BallotInv /\ [Versioned!Next]_Versioned!vars => BallotInv'
  BY BallotStep
<1>3. BallotInv /\ [Versioned!Next]_Versioned!vars => [SanctionedNow]_Versioned!vars
  BY SanctionedStep
<1> QED BY <1>1, <1>2, <1>3, PTL DEF Versioned!Spec, Versioned!UpgradesSanctioned, SanctionedNow

-----------------------------------------------------------------------------
(* THE AUDIT LOG, as long as nothing is logged before initialize *)

(***************************************************************************)
(* What makes the chain's integrity inductive: the log of a contract that   *)
(* is not initialized is empty and has no head, and only an empty log has   *)
(* none (the next entry would start the chain afresh).                      *)
(***************************************************************************)
HeadStored ==
  /\ ~initialized => nextSeq = 0 /\ firstSeq = 1 /\ head = None
  /\ head = None => nextSeq = 0

ChainInv == Audited!TypeOK /\ HeadStored /\ Audited!ChainIntact

-----------------------------------------------------------------------------
(* Hashing *)

LEMMA NotAbsent ==
  ASSUME Audited!AuditAssumption
  PROVE  /\ None \notin Audited!Payload /\ None \notin Seq(Audited!Payload)
<1>1. Audited!Payload \subseteq [seq : Nat, at : Nat, what : Events]
  BY DEF Audited!AuditAssumption, Audited!Payload, Audited!Seqs
<1>2. None \notin Audited!Payload
  BY <1>1 DEF Audited!AuditAssumption
<1>3. ASSUME NEW s \in Seq(Audited!Payload) PROVE None # s
  <2> DEFINE Wide == [seq : Nat, at : Nat, what : Events]
  <2>1. \A i \in 1..Len(s) : s[i] \in Wide
    BY <1>1
  <2>2. s \in Seq(Wide)
    <3> HIDE DEF Wide
    <3>1. s \in [1..Len(s) -> Wide] /\ Len(s) \in Nat
      BY <2>1
    <3> QED BY <3>1, SeqDef
  <2> QED BY <2>2 DEF Audited!AuditAssumption
<1> QED BY <1>2, <1>3 DEF Audited!AuditAssumption

(* The entries first..nextSeq, all present, hash to a sequence of payloads. *)
LEMMA RecomputedTyped ==
  ASSUME Audited!AuditAssumption, Audited!TypeOK, NEW first \in firstSeq..(nextSeq + 1),
         \A s \in firstSeq..nextSeq : entry[s] # None
  PROVE  Audited!Recomputed(first) \in Seq(Audited!Payload)
<1> DEFINE n == nextSeq + 1 - first
<1>1. /\ n \in Nat /\ first \in Nat /\ first >= 1 /\ nextSeq \in Nat /\ nextSeq <= MaxSeq
      /\ firstSeq \in Nat /\ first >= firstSeq /\ firstSeq >= 1
  BY DEF Audited!TypeOK, Audited!AuditAssumption
<1>2. ASSUME NEW i \in 1..n PROVE entry[first + i - 1] \in Audited!Payload
  <2>1. first + i - 1 \in firstSeq..nextSeq /\ first + i - 1 \in Audited!Seqs
    BY <1>1 DEF Audited!Seqs, Audited!AuditAssumption
  <2> QED BY <2>1 DEF Audited!TypeOK
<1>3. [i \in 1..n |-> entry[first + i - 1]] \in Seq(Audited!Payload)
  BY <1>1, <1>2
<1> QED BY <1>3 DEF Audited!Recomputed

-----------------------------------------------------------------------------
(* Logging: the new head is the hash of the kept entries and the new one *)

LEMMA LogStep ==
  ASSUME Audited!AuditAssumption, ~EarlyCalls, ChainInv, NEW e \in Events, Audited!LogEvent(e)
  PROVE  ChainInv'
<1> DEFINE seq == nextSeq + 1
           payload == [seq |-> seq, at |-> now, what |-> e]
<1>1. /\ initialized /\ seq <= MaxSeq
      /\ entry' = [entry EXCEPT ![seq] = payload]
      /\ nextSeq' = seq /\ firstSeq' = firstSeq /\ now' = now
      /\ initialized' = initialized /\ policy' = policy
      /\ head' = Append(IF seq = 1 \/ head = None THEN <<>> ELSE head, payload)
  BY DEF Audited!LogEvent, Audited!ChainHash, Audited!Origin, Audited!settings
<1>2. /\ nextSeq \in Nat /\ firstSeq \in Nat /\ firstSeq >= 1 /\ firstSeq <= nextSeq + 1
      /\ MaxSeq \in Nat /\ seq \in Audited!Seqs /\ payload \in Audited!Payload
  BY <1>1 DEF ChainInv, Audited!TypeOK, Audited!AuditAssumption, Audited!Seqs, Audited!Payload
<1>3. entry \in [Audited!Seqs -> Audited!Payload \cup {None}]
  BY DEF ChainInv, Audited!TypeOK
<1>4. /\ entry' \in [Audited!Seqs -> Audited!Payload \cup {None}] /\ entry'[seq] = payload
      /\ \A s \in Audited!Seqs : s # seq => entry'[s] = entry[s]
  BY <1>1, <1>2, <1>3
<1> DEFINE prev == IF seq = 1 \/ head = None THEN <<>> ELSE head
           kept == Audited!Recomputed(firstSeq)
<1>5. prev = kept /\ prev \in Seq(Audited!Payload)
  <2>1. kept \in Seq(Audited!Payload)
    BY <1>2, RecomputedTyped DEF ChainInv, Audited!ChainIntact, Audited!FullRecompute
  <2>2. CASE seq = 1 \/ head = None
    <3>1. nextSeq = 0
      BY <2>2, <1>2 DEF ChainInv, HeadStored
    <3>2. Len(kept) = 0
      BY <3>1, <1>2 DEF Audited!Recomputed, ChainInv, Audited!TypeOK
    <3>3. kept = <<>>
      BY <3>2, <2>1
    <3> QED BY <2>2, <2>1, <3>3
  <2>3. CASE ~(seq = 1 \/ head = None)
    BY <2>1, <2>3 DEF ChainInv, Audited!ChainIntact, Audited!FullRecompute
  <2> QED BY <2>2, <2>3
<1>6. head' = Append(kept, payload) /\ head' \in Seq(Audited!Payload)
  BY <1>1, <1>2, <1>5
<1>7. head' = [i \in 1..(seq + 1 - firstSeq) |-> entry'[firstSeq + i - 1]]
  <2> DEFINE n == nextSeq + 1 - firstSeq
  <2>1. n \in Nat /\ seq + 1 - firstSeq = n + 1 /\ firstSeq + (n + 1) - 1 = seq
    BY <1>2
  <2>2. kept = [i \in 1..n |-> entry[firstSeq + i - 1]]
    BY DEF Audited!Recomputed
  <2>3. Append(kept, payload)
          = [i \in 1..(n + 1) |-> IF i = n + 1 THEN payload ELSE kept[i]]
    <3>1. Len(kept) = n
      BY <2>1, <2>2
    <3> QED BY <3>1, <1>5 
  <2>4. ASSUME NEW i \in 1..(n + 1)
        PROVE  (IF i = n + 1 THEN payload ELSE kept[i]) = entry'[firstSeq + i - 1]
    <3>1. CASE i = n + 1
      BY <3>1, <2>1, <1>4
    <3>2. CASE i # n + 1
      <4>1. i \in 1..n /\ firstSeq + i - 1 \in Audited!Seqs /\ firstSeq + i - 1 # seq
        BY <3>2, <2>1, <1>2, <1>1 DEF Audited!Seqs
      <4>2. kept[i] = entry[firstSeq + i - 1]
        BY <4>1, <2>2
      <4> QED BY <3>2, <4>1, <4>2, <1>4
    <3> QED BY <3>1, <3>2
  <2> HIDE DEF kept, payload, n
  <2>5. head' = [i \in 1..(n + 1) |-> entry'[firstSeq + i - 1]]
    BY <1>6, <2>3, <2>4
  <2> QED BY <2>1, <2>5
<1>8. Audited!TypeOK'
  BY <1>1, <1>2, <1>4, <1>6 DEF ChainInv, Audited!TypeOK
<1>9. HeadStored'
  BY <1>1, <1>6, NotAbsent DEF HeadStored
<1>10. Audited!ChainIntact'
  <2>1. ASSUME NEW s \in firstSeq..seq PROVE entry'[s] # None
    <3>1. s \in Audited!Seqs
      BY <1>1, <1>2 DEF Audited!Seqs
    <3>2. CASE s = seq
      BY <3>2, <1>2, <1>4, NotAbsent
    <3>3. CASE s # seq
      <4>1. s \in firstSeq..nextSeq
        BY <3>3, <1>2
      <4> QED BY <3>1, <3>3, <4>1, <1>4 DEF ChainInv, Audited!ChainIntact, Audited!FullRecompute
    <3> QED BY <3>2, <3>3
  <2> QED BY <1>1, <1>7, <2>1 DEF Audited!ChainIntact, Audited!FullRecompute, Audited!Recomputed
<1> QED BY <1>8, <1>9, <1>10 DEF ChainInv

-----------------------------------------------------------------------------
(* Pruning: what is kept is a tail of what was there *)

LEMMA FloorInRange ==
  ASSUME Audited!AuditAssumption, Audited!TypeOK
  PROVE  Audited!CountFloor(Audited!AgeFloor) \in firstSeq..(nextSeq + 1)
<1>1. /\ nextSeq \in Nat /\ firstSeq \in Nat /\ firstSeq <= nextSeq + 1
      /\ policy.max_entries \in Nat
  BY DEF Audited!TypeOK, Audited!AuditAssumption, Audited!RetentionPolicy, Audited!Unbounded
<1>2. Audited!AgeFloor \in firstSeq..(nextSeq + 1)
  <2> DEFINE all == firstSeq..nextSeq
             old == {s \in all : \A r \in firstSeq..s : Audited!Older(r)}
  <2>1. IsFiniteSet(all) /\ Cardinality(all) = nextSeq + 1 - firstSeq
    <3>1. firstSeq \in Int /\ nextSeq \in Int
      BY <1>1
    <3>2. /\ IsFiniteSet(all)
          /\ Cardinality(all) = IF firstSeq > nextSeq THEN 0 ELSE nextSeq - firstSeq + 1
      BY <3>1, FS_Interval
    <3> QED BY <1>1, <3>2
  <2>2. old \subseteq all
    OBVIOUS
  <2> HIDE DEF all, old
  <2>3. IsFiniteSet(old) /\ Cardinality(old) <= Cardinality(all)
    BY <2>1, <2>2, FS_Subset
  <2>4. Cardinality(old) \in Nat
    BY <2>3, FS_CardinalityType
  <2>5. firstSeq + Cardinality(old) \in firstSeq..(nextSeq + 1)
    BY <1>1, <2>1, <2>3, <2>4
  <2> QED BY <1>1, <2>5, CountsAgree DEF Audited!AgeFloor, old, all
<1>3. ASSUME NEW f \in firstSeq..(nextSeq + 1)
      PROVE  Audited!CountFloor(f) \in firstSeq..(nextSeq + 1)
  BY <1>1 DEF Audited!CountFloor
<1> QED BY <1>2, <1>3

LEMMA PruneStep ==
  ASSUME Audited!AuditAssumption, ChainInv, Audited!PruneOld
  PROVE  ChainInv'
<1> DEFINE first == Audited!CountFloor(Audited!AgeFloor)
<1>1. /\ initialized
      /\ entry' = [s \in Audited!Seqs |-> IF s \in firstSeq..(first - 1) THEN None ELSE entry[s]]
      /\ firstSeq' = first /\ nextSeq' = nextSeq /\ now' = now
      /\ initialized' = initialized /\ policy' = policy
      /\ head' = Audited!Recomputed(first)
  BY DEF Audited!PruneOld, Audited!settings
<1>2. first \in firstSeq..(nextSeq + 1)
  BY FloorInRange DEF ChainInv
<1> HIDE DEF first
<1>3. /\ nextSeq \in Nat /\ nextSeq <= MaxSeq /\ firstSeq \in Nat /\ firstSeq >= 1
      /\ first \in Nat /\ first >= firstSeq /\ first <= nextSeq + 1 /\ MaxSeq \in Nat
  BY <1>2 DEF ChainInv, Audited!TypeOK, Audited!AuditAssumption
<1>4. /\ Audited!TypeOK /\ \A s \in firstSeq..nextSeq : entry[s] # None
      /\ entry \in [Audited!Seqs -> Audited!Payload \cup {None}]
  BY DEF ChainInv, Audited!ChainIntact, Audited!FullRecompute, Audited!TypeOK
<1>5. head' \in Seq(Audited!Payload)
  BY <1>1, <1>2, <1>4, RecomputedTyped
<1>6. ASSUME NEW s \in first..nextSeq PROVE s \in Audited!Seqs /\ entry'[s] = entry[s]
  BY <1>1, <1>3 DEF Audited!Seqs
<1>7. Audited!TypeOK'
  BY <1>1, <1>3, <1>4, <1>5 DEF Audited!TypeOK
<1>8. HeadStored'
  BY <1>1, <1>5, NotAbsent DEF HeadStored
<1>9. Audited!ChainIntact'
  <2>1. ASSUME NEW i \in 1..(nextSeq + 1 - first)
        PROVE  entry[first + i - 1] = entry'[first + i - 1]
    <3>1. first + i - 1 \in first..nextSeq
      BY <1>3
    <3> QED BY <1>6, <3>1
  <2>2. head' = [i \in 1..(nextSeq + 1 - first) |-> entry'[first + i - 1]]
    BY <1>1, <2>1 DEF Audited!Recomputed
  <2>3. \A s \in first..nextSeq : entry'[s] # None
    BY <1>3, <1>4, <1>6
  <2> QED BY <1>1, <2>2, <2>3 DEF Audited!ChainIntact, Audited!FullRecompute, Audited!Recomputed
<1> QED BY <1>7, <1>8, <1>9 DEF ChainInv

-----------------------------------------------------------------------------
LEMMA ChainInit == Audited!AuditAssumption /\ Audited!Init => ChainInv
<1> SUFFICES ASSUME Audited!AuditAssumption, Audited!Init PROVE ChainInv
  OBVIOUS
<1>1. Audited!TypeOK
  <2>1. /\ initialized \in BOOLEAN /\ policy \in Policies \cup {Audited!Unbounded}
        /\ entry \in [Audited!Seqs -> Audited!Payload \cup {None}] /\ head \in Seq(Audited!Payload) \cup {None}
    BY DEF Audited!Init
  <2>2. /\ nextSeq \in 0..MaxSeq /\ firstSeq \in 1..(nextSeq + 1)
        /\ now \in 0..MaxTime
    BY DEF Audited!Init, Audited!AuditAssumption
  <2> QED BY <2>1, <2>2 DEF Audited!TypeOK
<1>2. HeadStored /\ Audited!ChainIntact
  BY DEF Audited!Init, HeadStored, Audited!ChainIntact, Audited!FullRecompute
<1> QED BY <1>1, <1>2 DEF ChainInv

LEMMA ChainStep ==
  ASSUME Audited!AuditAssumption, ~EarlyCalls, ChainInv, [Audited!Next]_Audited!vars
  PROVE  ChainInv'
<1>1. CASE UNCHANGED Audited!vars
  BY <1>1 DEF Audited!vars, Audited!settings, ChainInv, Audited!TypeOK, HeadStored, Audited!ChainIntact, Audited!FullRecompute, Audited!Recomputed
<1>2. CASE Audited!Initialize
  BY <1>2 DEF Audited!Initialize, ChainInv, Audited!TypeOK, HeadStored, Audited!ChainIntact, Audited!FullRecompute,
              Audited!AuditAssumption, Audited!Recomputed
<1>3. ASSUME NEW p \in Policies, Audited!SetRetentionPolicy(p) PROVE ChainInv'
  BY <1>3 DEF Audited!SetRetentionPolicy, ChainInv, Audited!TypeOK, HeadStored, Audited!ChainIntact, Audited!FullRecompute,
              Audited!Recomputed
<1>4. ASSUME NEW e \in Events, Audited!LogEvent(e) PROVE ChainInv'
  BY <1>4, LogStep
<1>5. CASE Audited!PruneOld
  BY <1>5, PruneStep
<1>6. CASE Audited!Tick
  BY <1>6 DEF Audited!Tick, Audited!settings, ChainInv, Audited!TypeOK, HeadStored, Audited!ChainIntact, Audited!FullRecompute,
              Audited!Recomputed, Audited!AuditAssumption
<1> QED BY <1>1, <1>2, <1>3, <1>4, <1>5, <1>6 DEF Audited!Next

(***************************************************************************)
(* Nothing that log_event, prune_old and set_retention_policy do in any     *)
(* order breaks the hash chain: the head stored is the one a full           *)
(* recomputation finds, and no entry of the range kept is missing.          *)
(***************************************************************************)
THEOREM ChainVerifies ==
  ASSUME Audited!AuditAssumption, ~EarlyCalls
  PROVE  Audited!Spec => []Audited!ChainIntact
<1>1. Audited!Init => ChainInv
  BY ChainInit
<1>2. ChainInv /\ [Audited!Next]_Audited!vars => ChainInv'
  BY ChainStep
<1>3. ChainInv => Audited!ChainIntact
  BY DEF ChainInv
<1> QED BY <1>1, <1>2, <1>3, PTL DEF Audited!Spec

-----------------------------------------------------------------------------
(* Exact pruning *)

(***************************************************************************)
(* prune_old stops its walk at the first entry that is young enough.  That  *)
(* this leaves no older one behind rests on the order of the times: entries *)
(* are in the order of their ids, and none is from the future.              *)
(***************************************************************************)
InOrder ==
  /\ \A s \in firstSeq..nextSeq : entry[s].at <= now
  /\ \A r, s \in firstSeq..nextSeq : r <= s => entry[r].at <= entry[s].at

OrderInv == ChainInv /\ InOrder

LEMMA Numbers ==
  ASSUME Audited!AuditAssumption, ChainInv
  PROVE  /\ nextSeq \in Nat /\ firstSeq \in Nat /\ firstSeq >= 1 /\ firstSeq <= nextSeq + 1
         /\ now \in Nat /\ MaxSeq \in Nat /\ nextSeq <= MaxSeq
         /\ policy.max_entries \in Nat /\ policy.max_age_seconds \in Nat
         /\ \A s \in firstSeq..nextSeq :
              s \in Audited!Seqs /\ entry[s] # None /\ entry[s] \in Audited!Payload /\ entry[s].at \in Nat
<1>1. /\ nextSeq \in Nat /\ firstSeq \in Nat /\ firstSeq >= 1 /\ firstSeq <= nextSeq + 1
      /\ now \in Nat /\ MaxSeq \in Nat /\ nextSeq <= MaxSeq
  BY DEF ChainInv, Audited!TypeOK, Audited!AuditAssumption
<1>2. policy \in Audited!RetentionPolicy
  BY DEF ChainInv, Audited!TypeOK, Audited!AuditAssumption, Audited!RetentionPolicy, Audited!Unbounded
<1>3. ASSUME NEW s \in firstSeq..nextSeq
      PROVE  s \in Audited!Seqs /\ entry[s] # None /\ entry[s] \in Audited!Payload /\ entry[s].at \in Nat
  <2>1. s \in Audited!Seqs
    BY <1>1 DEF Audited!Seqs
  <2>2. entry[s] # None /\ entry[s] \in Audited!Payload
    BY <2>1 DEF ChainInv, Audited!TypeOK, Audited!ChainIntact, Audited!FullRecompute
  <2> QED BY <2>1, <2>2 DEF Audited!Payload
<1> QED BY <1>1, <1>2, <1>3 DEF Audited!RetentionPolicy

LEMMA OrderStep ==
  ASSUME Audited!AuditAssumption, ~EarlyCalls, OrderInv, [Audited!Next]_Audited!vars
  PROVE  OrderInv'
<1>0. ChainInv /\ ChainInv'
  BY ChainStep DEF OrderInv
<1> SUFFICES InOrder'
  BY <1>0 DEF OrderInv
<1>1. ASSUME entry' = entry, firstSeq' = firstSeq, nextSeq' = nextSeq, now' \in {now, now + 1}
      PROVE  InOrder'
  <2>1. ASSUME NEW s \in firstSeq..nextSeq PROVE entry[s].at <= now'
    BY <1>0, <1>1, Numbers DEF OrderInv, InOrder
  <2> QED BY <1>1, <2>1 DEF OrderInv, InOrder
<1>2. CASE UNCHANGED Audited!vars \/ Audited!Tick \/ \E p \in Policies : Audited!SetRetentionPolicy(p)
  BY <1>1, <1>2 DEF Audited!vars, Audited!settings, Audited!Tick, Audited!SetRetentionPolicy
<1>3. CASE Audited!Initialize
  BY <1>0, <1>1, <1>3 DEF Audited!Initialize, ChainInv, HeadStored
<1>4. ASSUME NEW e \in Events, Audited!LogEvent(e) PROVE InOrder'
  <2> DEFINE seq == nextSeq + 1
  <2>1. /\ entry' = [entry EXCEPT ![seq] = [seq |-> seq, at |-> now, what |-> e]]
        /\ nextSeq' = seq /\ firstSeq' = firstSeq /\ now' = now /\ seq <= MaxSeq
    BY <1>4 DEF Audited!LogEvent, Audited!settings
  <2>2. /\ seq \in Audited!Seqs /\ entry \in [Audited!Seqs -> Audited!Payload \cup {None}] /\ seq \notin firstSeq..nextSeq
        /\ \A s \in firstSeq..seq : s = seq \/ s \in firstSeq..nextSeq
    BY <1>0, <2>1, Numbers DEF Audited!Seqs, ChainInv, Audited!TypeOK
  <2>3. /\ entry'[seq].at = now
        /\ \A s \in firstSeq..nextSeq : entry'[s] = entry[s]
    BY <1>0, <2>1, <2>2, Numbers
  <2>4. /\ now \in Nat
        /\ \A s \in firstSeq..nextSeq : s \in Nat /\ s < seq /\ entry[s].at <= now
    BY <1>0, Numbers DEF OrderInv, InOrder
  <2> HIDE DEF seq
  <2>5. \A s \in firstSeq..seq : entry'[s].at <= now
    BY <2>2, <2>3, <2>4
  <2>6. ASSUME NEW r \in firstSeq..seq, NEW s \in firstSeq..seq, r <= s
        PROVE  entry'[r].at <= entry'[s].at
    <3>1. CASE s = seq
      BY <2>3, <2>5, <3>1
    <3>2. CASE s # seq /\ r # seq
      BY <2>2, <2>3, <2>6, <3>2 DEF OrderInv, InOrder
    <3>3. CASE s # seq /\ r = seq
      <4>1. s < seq /\ s \in Nat /\ seq \in Nat
        BY <1>0, <2>2, <2>4, <3>3, Numbers DEF seq
      <4> QED BY <2>6, <3>3, <4>1
    <3> QED BY <3>1, <3>2, <3>3
  <2> QED BY <2>1, <2>5, <2>6 DEF InOrder
<1>5. CASE Audited!PruneOld
  <2> DEFINE first == Audited!CountFloor(Audited!AgeFloor)
  <2>1. /\ entry' = [s \in Audited!Seqs |-> IF s \in firstSeq..(first - 1) THEN None ELSE entry[s]]
        /\ firstSeq' = first /\ nextSeq' = nextSeq /\ now' = now
    BY <1>5 DEF Audited!PruneOld, Audited!settings
  <2>2. first \in firstSeq..(nextSeq + 1)
    BY <1>0, FloorInRange DEF ChainInv
  <2> HIDE DEF first
  <2>3. ASSUME NEW s \in first..nextSeq PROVE s \in firstSeq..nextSeq /\ entry'[s] = entry[s]
    <3>1. s \in firstSeq..nextSeq /\ s \notin firstSeq..(first - 1)
      BY <1>0, <2>2, Numbers
    <3> QED BY <1>0, <2>1, <3>1, Numbers
  <2> QED BY <2>1, <2>3 DEF OrderInv, InOrder
<1> QED BY <1>2, <1>3, <1>4, <1>5 DEF Audited!Next

(***************************************************************************)
(* The walk of the age limit ends where it should: every entry before its   *)
(* end is too old, and the one at its end, if any, is not.                  *)
(***************************************************************************)
LEMMA WalkEnds ==
  ASSUME Audited!AuditAssumption, ChainInv, policy.max_age_seconds # 0
  PROVE  /\ Audited!AgeFloor \in firstSeq..(nextSeq + 1)
         /\ \A s \in firstSeq..nextSeq : s < Audited!AgeFloor => Audited!Older(s)
         /\ Audited!AgeFloor <= nextSeq => ~Audited!Older(Audited!AgeFloor)
<1> DEFINE all == firstSeq..nextSeq
           old == {s \in all : \A r \in firstSeq..s : Audited!Older(r)}
           c == Cardinality(old)
<1>0. nextSeq \in Int /\ firstSeq \in Int /\ firstSeq <= nextSeq + 1
  BY Numbers
<1>1. /\ IsFiniteSet(all) /\ IsFiniteSet(old) /\ c \in Nat /\ c <= nextSeq + 1 - firstSeq
  <2>1. /\ IsFiniteSet(all)
        /\ Cardinality(all) = IF firstSeq > nextSeq THEN 0 ELSE nextSeq - firstSeq + 1
    BY <1>0, FS_Interval
  <2>2. old \subseteq all
    OBVIOUS
  <2> HIDE DEF all, old
  <2>3. IsFiniteSet(old) /\ Cardinality(old) <= Cardinality(all)
    BY <2>1, <2>2, FS_Subset
  <2>4. c \in Nat
    BY <2>3, FS_CardinalityType
  <2> QED BY <1>0, <2>1, <2>3, <2>4
<1>2. Audited!AgeFloor = firstSeq + c
  BY CountsAgree DEF Audited!AgeFloor
<1> DEFINE upTo == firstSeq..(firstSeq + c - 1)
<1>3. IsFiniteSet(upTo) /\ Cardinality(upTo) = c
  <2>1. firstSeq + c - 1 \in Int
    BY <1>0, <1>1
  <2> HIDE DEF c
  <2>2. /\ IsFiniteSet(firstSeq..(firstSeq + c - 1))
        /\ Cardinality(firstSeq..(firstSeq + c - 1))
             = IF firstSeq > firstSeq + c - 1 THEN 0 ELSE (firstSeq + c - 1) - firstSeq + 1
    BY <1>0, <2>1, FS_Interval
  <2>3. Cardinality(upTo) = c
    BY <1>0, <1>1, <2>2
  <2> QED BY <2>2, <2>3
<1>4. old \subseteq upTo
  <2> SUFFICES ASSUME NEW s \in old PROVE s <= firstSeq + c - 1
    BY <1>0, <1>1
  <2> DEFINE tail == firstSeq..s
  <2>1. s \in Int /\ firstSeq <= s /\ tail \subseteq old
    BY <1>0
  <2>2. Cardinality(tail) = s - firstSeq + 1
    BY <1>0, <2>1, FS_Interval
  <2>3. Cardinality(tail) <= c
    <3> HIDE DEF tail, old
    <3> QED BY <1>1, <2>1, FS_Subset
  <2> HIDE DEF tail, old, c
  <2> QED BY <1>0, <1>1, <2>1, <2>2, <2>3
<1>5. old = upTo
  <2> HIDE DEF old, upTo
  <2> QED BY <1>3, <1>4, FS_Subset DEF c
<1>6. ASSUME NEW s \in firstSeq..nextSeq, s < Audited!AgeFloor PROVE Audited!Older(s)
  <2>1. s \in upTo
    BY <1>0, <1>1, <1>2, <1>6
  <2>2. s \in old
    BY <1>5, <2>1
  <2> QED BY <1>0, <2>2
<1>7. ASSUME Audited!AgeFloor <= nextSeq, Audited!Older(Audited!AgeFloor) PROVE FALSE
  <2>1. Audited!AgeFloor \in all /\ Audited!AgeFloor \notin upTo
    BY <1>0, <1>1, <1>2, <1>7
  <2>2. Audited!AgeFloor \notin old
    BY <1>5, <2>1
  <2>3. PICK r \in firstSeq..Audited!AgeFloor : ~Audited!Older(r)
    BY <2>1, <2>2
  <2>4. r < Audited!AgeFloor /\ r \in firstSeq..nextSeq
    BY <1>0, <1>7, <2>1, <2>3
  <2> QED BY <1>6, <2>3, <2>4
<1> QED BY <1>0, <1>1, <1>2, <1>6, <1>7

(* What the age limit keeps is all that may be kept under it. *)
LEMMA AgeExact ==
  ASSUME Audited!AuditAssumption, OrderInv, policy.max_age_seconds # 0
  PROVE  /\ \A s \in Audited!AgeFloor..nextSeq : entry[s].at >= now - policy.max_age_seconds
         /\ \A s \in firstSeq..nextSeq :
              s < Audited!AgeFloor => entry[s].at < now - policy.max_age_seconds
<1> DEFINE oldest == now - policy.max_age_seconds
<1>0. /\ ChainInv /\ InOrder /\ oldest \in Int
      /\ Audited!AgeFloor \in firstSeq..(nextSeq + 1)
      /\ nextSeq \in Nat /\ firstSeq \in Nat
  BY WalkEnds, Numbers DEF OrderInv
<1>1. ASSUME NEW s \in firstSeq..nextSeq
      PROVE  (Audited!Older(s) <=> entry[s].at < oldest) /\ entry[s].at \in Nat
  BY <1>0, Numbers DEF Audited!Older
<1> HIDE DEF oldest
<1>2. ASSUME NEW s \in Audited!AgeFloor..nextSeq PROVE entry[s].at >= oldest
  <2>1. Audited!AgeFloor <= nextSeq /\ Audited!AgeFloor \in firstSeq..nextSeq /\ s \in firstSeq..nextSeq
        /\ Audited!AgeFloor <= s
    BY <1>0
  <2>2. ~Audited!Older(Audited!AgeFloor)
    BY <1>0, <2>1, WalkEnds
  <2>3. entry[Audited!AgeFloor].at >= oldest
    BY <1>0, <1>1, <2>1, <2>2
  <2>4. entry[Audited!AgeFloor].at <= entry[s].at
    BY <1>0, <2>1 DEF InOrder
  <2> QED BY <1>0, <1>1, <2>1, <2>3, <2>4
<1>3. ASSUME NEW s \in firstSeq..nextSeq, s < Audited!AgeFloor PROVE entry[s].at < oldest
  BY <1>0, <1>1, <1>3, WalkEnds
<1> QED BY <1>2, <1>3 DEF oldest

LEMMA PruneObeys ==
  ASSUME Audited!AuditAssumption, OrderInv, NEW first, first = Audited!CountFloor(Audited!AgeFloor)
  PROVE  /\ first \in firstSeq..(nextSeq + 1) /\ Audited!Obeys(first)
         /\ \A f \in firstSeq..(nextSeq + 1) : Audited!Obeys(f) => f >= first
<1> DEFINE age == Audited!AgeFloor
           m == policy.max_entries
<1>0. /\ ChainInv /\ first \in firstSeq..(nextSeq + 1)
      /\ nextSeq \in Nat /\ firstSeq \in Nat /\ m \in Nat /\ policy.max_age_seconds \in Nat
  BY FloorInRange, Numbers DEF OrderInv, ChainInv
<1>1. age \in firstSeq..(nextSeq + 1)
  <2>1. CASE policy.max_age_seconds = 0
    BY <1>0, <2>1, Numbers DEF Audited!AgeFloor
  <2>2. CASE policy.max_age_seconds # 0
    BY <1>0, <2>2, WalkEnds
  <2> QED BY <2>1, <2>2
<1>2. first = IF m > 0 /\ nextSeq + 1 - age - m > 0 THEN age + (nextSeq + 1 - age - m) ELSE age
  BY DEF Audited!CountFloor
<1>3. first >= age /\ (m > 0 => nextSeq + 1 - first <= m)
  <2> HIDE DEF age, m
  <2> QED BY <1>0, <1>1, <1>2
<1>4. ASSUME policy.max_age_seconds > 0, NEW s \in first..nextSeq
      PROVE  entry[s].at >= now - policy.max_age_seconds
  <2>1. s \in age..nextSeq
    BY <1>0, <1>1, <1>3
  <2> QED BY <1>0, <1>4, <2>1, AgeExact
<1>5. Audited!Obeys(first)
  BY <1>3, <1>4 DEF Audited!Obeys
<1>6. ASSUME NEW f \in firstSeq..(nextSeq + 1), Audited!Obeys(f) PROVE f >= first
  <2>1. m > 0 => nextSeq + 1 - f <= m
    BY <1>6 DEF Audited!Obeys
  <2>2. f >= age
    <3>1. CASE policy.max_age_seconds = 0
      BY <1>0, <1>6, <3>1 DEF Audited!AgeFloor
    <3>2. ASSUME policy.max_age_seconds # 0, f < age PROVE FALSE
      <4>1. f \in f..nextSeq /\ f \in firstSeq..nextSeq
        BY <1>0, <1>1, <1>6, <3>2
      <4>2. entry[f].at >= now - policy.max_age_seconds
        BY <1>0, <1>6, <3>2, <4>1 DEF Audited!Obeys
      <4>3. entry[f].at < now - policy.max_age_seconds
        BY <3>2, <4>1, AgeExact
      <4>4. entry[f].at \in Nat /\ now \in Nat
        BY <1>0, <4>1, Numbers
      <4> QED BY <1>0, <4>2, <4>3, <4>4
    <3> HIDE DEF age
    <3> QED BY <1>0, <1>1, <1>6, <3>1, <3>2
  <2> HIDE DEF age, m
  <2> QED BY <1>0, <1>1, <1>2, <1>6, <2>1, <2>2
<1> QED BY <1>0, <1>5, <1>6

(***************************************************************************)
(* prune_old keeps exactly the longest run of the newest entries that the   *)
(* policy in force allows, and nothing else ever moves the first id.        *)
(***************************************************************************)
THEOREM PrunesExactly ==
  ASSUME Audited!AuditAssumption, ~EarlyCalls
  PROVE  Audited!Spec => Audited!PruneExact
<1> DEFINE Exact ==
      firstSeq' # firstSeq \/ Audited!PruneOld =>
        /\ firstSeq' \in firstSeq..(nextSeq + 1) /\ Audited!Obeys(firstSeq')
        /\ \A f \in firstSeq..(nextSeq + 1) : Audited!Obeys(f) => f >= firstSeq'
<1>1. Audited!Init => OrderInv
  BY ChainInit DEF OrderInv, InOrder, Audited!Init
<1>2. OrderInv /\ [Audited!Next]_Audited!vars => OrderInv'
  BY OrderStep
<1>3. OrderInv /\ [Audited!Next]_Audited!vars => [Exact]_Audited!vars
  <2> SUFFICES ASSUME OrderInv, Audited!Next PROVE Exact
    OBVIOUS
  <2>1. CASE Audited!PruneOld
    BY <2>1, PruneObeys DEF Audited!PruneOld
  <2>2. CASE ~Audited!PruneOld
    <3>1. firstSeq' = firstSeq
      BY <2>2 DEF Audited!Next, Audited!Initialize, Audited!SetRetentionPolicy, Audited!LogEvent, Audited!Tick, OrderInv, ChainInv, HeadStored
    <3> QED BY <2>2, <3>1
  <2> QED BY <2>1, <2>2
<1> QED BY <1>1, <1>2, <1>3, PTL DEF Audited!Spec, Audited!PruneExact

-----------------------------------------------------------------------------
(* THE EMERGENCY CONTROLS *)

(* So is Total. *)
LEMMA TotalsAgree == \A f : Guarded!Total(f) = Total(f)
BY CountsAgree DEF Guarded!Total, Total, Guarded!Units, Units

-----------------------------------------------------------------------------
(* Halting *)

(***************************************************************************)
(* What is owed is still to be done: the breaker is tripped until it is     *)
(* reset, and everything paused until it is unpaused.                       *)
(***************************************************************************)
HaltInv ==
  /\ {paused, safeMode, tripped} \subseteq BOOLEAN
  /\ owed \subseteq {"reset", "unpause"}
  /\ "reset" \in owed => tripped
  /\ "unpause" \in owed => paused

LEMMA HaltInit == Guarded!WatchInit => HaltInv
BY DEF Guarded!WatchInit, Guarded!Init, HaltInv

LEMMA HaltStep == HaltInv /\ [Guarded!WatchNext]_Guarded!watchVars => HaltInv'
<1> SUFFICES ASSUME HaltInv, [Guarded!WatchNext]_Guarded!watchVars PROVE HaltInv'
  OBVIOUS
<1> USE DEF HaltInv, Guarded!people, Guarded!modes, Guarded!rates
<1>1. CASE UNCHANGED Guarded!watchVars
  BY <1>1 DEF Guarded!watchVars, Guarded!vars
<1>2. CASE Guarded!Next /\ Guarded!Owe
  <2> DEFINE undone == owed \ ((IF tripped /\ ~tripped' THEN {"reset"} ELSE {})
                                  \cup (IF paused /\ ~paused' THEN {"unpause"} ELSE {}))
  <2>1. ASSUME NEW change \in Changes, Guarded!ReportPriceChange(change) PROVE HaltInv'
    BY <1>2, <2>1 DEF Guarded!ReportPriceChange, Guarded!Owe
  <2>2. CASE ~\E change \in Changes : Guarded!ReportPriceChange(change)
    <3>1. owed' = undone
      BY <1>2, <2>2 DEF Guarded!Owe
    <3>2. {paused', safeMode', tripped'} \subseteq BOOLEAN
      <4>1. CASE Guarded!Control
        BY <4>1, <2>2 DEF Guarded!Control, Guarded!Pause, Guarded!EnterSafeMode, Guarded!SetGuardian,
             Guarded!TransferAdmin, Guarded!Unpause, Guarded!ResetCircuitBreaker,
             Guarded!ExitSafeMode, Guarded!SetCircuitBreakerThreshold
      <4>2. CASE ~Guarded!Control
        BY <4>2, <1>2 DEF Guarded!Next, Guarded!SetRateLimit, Guarded!CheckRateLimit, Guarded!Tick
      <4> QED BY <4>1, <4>2
    <3>3. owed' \subseteq {"reset", "unpause"}
      BY <3>1
    <3>4. "reset" \in owed' => tripped'
      BY <3>1, <3>2
    <3>5. "unpause" \in owed' => paused'
      BY <3>1, <3>2
    <3> QED BY <3>2, <3>3, <3>4, <3>5
  <2> QED BY <2>1, <2>2
<1> QED BY <1>1, <1>2 DEF Guarded!WatchNext

(***************************************************************************)
(* Reset and unpaused, in whatever order and whatever else is called in     *)
(* between: until both have been done, validate_operation turns down every  *)
(* operation a pause does not let through.  (StaysHalted)                   *)
(***************************************************************************)
THEOREM HaltsHold == Guarded!WatchSpec => []Guarded!StaysHalted
<1>1. HaltInv => Guarded!StaysHalted
  BY DEF HaltInv, Guarded!StaysHalted, Guarded!ValidateOperation
<1> QED BY <1>1, HaltInit, HaltStep, PTL DEF Guarded!WatchSpec

-----------------------------------------------------------------------------
(* Rate limits *)

(* The calls among g from one moment to another. *)
Part(g, from, to) == [t \in Guarded!Moments |-> IF t \in from..to THEN g[t] ELSE 0]
CallsIn(g, from, to) == Total(Part(g, from, to))

LEMMA PartTyped ==
  ASSUME MaxTime \in Nat, NEW g \in [Guarded!Moments -> Nat], NEW a \in Int, NEW b \in Int
  PROVE  /\ IsFiniteSet(Guarded!Moments) /\ Part(g, a, b) \in [Guarded!Moments -> Nat]
         /\ CallsIn(g, a, b) \in Nat
<1>1. IsFiniteSet(Guarded!Moments)
  <2>1. 0 \in Int /\ MaxTime \in Int
    OBVIOUS
  <2> QED BY <2>1, FS_Interval DEF Guarded!Moments
<1>2. Part(g, a, b) \in [Guarded!Moments -> Nat]
  BY DEF Part
<1> QED BY <1>1, <1>2, UnitsFinite DEF CallsIn

(* What two stretches cover between them holds no more than they do. *)
LEMMA SumCover ==
  ASSUME MaxTime \in Nat, NEW g \in [Guarded!Moments -> Nat],
         NEW a \in Int, NEW b \in Int, NEW c \in Int, NEW d \in Int, NEW e \in Int, NEW f \in Int,
         \A t \in Guarded!Moments : t \in a..b => t \in c..d \/ t \in e..f
  PROVE  CallsIn(g, a, b) <= CallsIn(g, c, d) + CallsIn(g, e, f)
<1>1. \A t \in Guarded!Moments :
         Part(g, a, b)[t] <= Part(g, c, d)[t] \/ Part(g, a, b)[t] <= Part(g, e, f)[t]
  BY DEF Part
<1>2. /\ IsFiniteSet(Guarded!Moments)
      /\ Part(g, a, b) \in [Guarded!Moments -> Nat] /\ Part(g, c, d) \in [Guarded!Moments -> Nat]
      /\ Part(g, e, f) \in [Guarded!Moments -> Nat]
  BY PartTyped
<1> QED BY <1>1, <1>2, TotalCover DEF CallsIn

LEMMA SumWithin ==
  ASSUME MaxTime \in Nat, NEW g \in [Guarded!Moments -> Nat],
         NEW a \in Int, NEW b \in Int, NEW c \in Int, NEW d \in Int,
         \A t \in Guarded!Moments : t \in a..b => t \in c..d
  PROVE  CallsIn(g, a, b) <= CallsIn(g, c, d)
<1>1. \A t \in Guarded!Moments : Part(g, a, b)[t] <= Part(g, c, d)[t]
  BY DEF Part
<1>2. /\ IsFiniteSet(Guarded!Moments)
      /\ Part(g, a, b) \in [Guarded!Moments -> Nat] /\ Part(g, c, d) \in [Guarded!Moments -> Nat]
  BY PartTyped
<1> QED BY <1>1, <1>2, TotalMonotone DEF CallsIn

LEMMA SumNone ==
  ASSUME MaxTime \in Nat, NEW g \in [Guarded!Moments -> Nat], NEW a \in Int, NEW b \in Int,
         \A t \in Guarded!Moments : t \in a..b => g[t] = 0
  PROVE  CallsIn(g, a, b) = 0
<1>1. \A t \in Guarded!Moments : Part(g, a, b)[t] = 0
  BY DEF Part
<1> QED BY <1>1, PartTyped, TotalZero DEF CallsIn

(* One more call at moment m. *)
OneMore(g, h, m) ==
  /\ h \in [Guarded!Moments -> Nat]
  /\ h[m] = g[m] + 1 /\ \A t \in Guarded!Moments \ {m} : h[t] = g[t]

LEMMA SumCounts ==
  ASSUME MaxTime \in Nat, NEW g \in [Guarded!Moments -> Nat], NEW m \in Guarded!Moments,
         NEW h, OneMore(g, h, m), NEW a \in Int, NEW b \in Int
  PROVE  /\ h \in [Guarded!Moments -> Nat]
         /\ CallsIn(h, a, b) = IF m \in a..b THEN CallsIn(g, a, b) + 1 ELSE CallsIn(g, a, b)
<1>1. h \in [Guarded!Moments -> Nat]
  BY DEF OneMore
<1>2. /\ IsFiniteSet(Guarded!Moments)
      /\ Part(g, a, b) \in [Guarded!Moments -> Nat] /\ Part(h, a, b) \in [Guarded!Moments -> Nat]
  BY <1>1, PartTyped
<1>3. \A t \in Guarded!Moments \ {m} : Part(h, a, b)[t] = Part(g, a, b)[t]
  BY DEF Part, OneMore
<1>4. ASSUME m \in a..b PROVE CallsIn(h, a, b) = CallsIn(g, a, b) + 1
  <2>1. Part(h, a, b)[m] = Part(g, a, b)[m] + 1
    BY <1>4 DEF Part, OneMore
  <2> QED BY <1>2, <1>3, <2>1, TotalRaise DEF CallsIn
<1>5. ASSUME m \notin a..b PROVE CallsIn(h, a, b) = CallsIn(g, a, b)
  <2>1. Part(h, a, b) = Part(g, a, b)
    BY <1>5 DEF Part, OneMore
  <2> QED BY <2>1 DEF CallsIn
<1> QED BY <1>1, <1>4, <1>5

(***************************************************************************)
(* Windows of w moments, the last of which started at start and has counted *)
(* count calls, have let through the calls g.  A stretch of w moments can   *)
(* reach back into what came before the last window, and the calls there    *)
(* are again at most max: that is why twice max bounds it.                  *)
(***************************************************************************)
Within(g, start, count, max, w) ==
  /\ \A t \in Guarded!Moments : t >= start + w => g[t] = 0
  /\ CallsIn(g, start, MaxTime) <= count /\ CallsIn(g, start, MaxTime) <= max
  /\ \A t \in Guarded!Moments : t + w > start => CallsIn(g, t, start - 1) <= max
  /\ \A t \in Guarded!Moments : CallsIn(g, t, t + w - 1) <= 2 * max

LEMMA WithinNone ==
  ASSUME MaxTime \in Nat, NEW g \in [Guarded!Moments -> Nat], \A t \in Guarded!Moments : g[t] = 0,
         NEW start \in Nat, NEW count \in Nat, NEW max \in Nat, NEW w \in Nat
  PROVE  Within(g, start, count, max, w)
<1>1. CallsIn(g, start, MaxTime) = 0
  BY SumNone
<1>2. ASSUME NEW t \in Guarded!Moments
      PROVE  CallsIn(g, t, start - 1) = 0 /\ CallsIn(g, t, t + w - 1) = 0
  <2>1. t \in Int /\ start - 1 \in Int /\ t + w - 1 \in Int
    BY DEF Guarded!Moments
  <2> QED BY <2>1, SumNone
<1> QED BY <1>1, <1>2 DEF Within

(* What no stretch of w moments exceeds, given the calls since start and before it. *)
LEMMA StretchBounded ==
  ASSUME MaxTime \in Nat, NEW g \in [Guarded!Moments -> Nat],
         NEW start \in Nat, NEW max \in Nat, NEW w \in Nat, NEW t \in Guarded!Moments,
         CallsIn(g, start, MaxTime) <= max, t + w > start => CallsIn(g, t, start - 1) <= max, t + w > start
  PROVE  CallsIn(g, t, t + w - 1) <= 2 * max
<1>1. t \in Int /\ start - 1 \in Int /\ t + w - 1 \in Int /\ MaxTime \in Int /\ start \in Int
  BY DEF Guarded!Moments
<1>2. \A s \in Guarded!Moments : s \in t..(t + w - 1) => s \in t..(start - 1) \/ s \in start..MaxTime
  BY DEF Guarded!Moments
<1>3. CallsIn(g, t, t + w - 1) <= CallsIn(g, t, start - 1) + CallsIn(g, start, MaxTime)
  BY <1>1, <1>2, SumCover
<1>4. /\ CallsIn(g, t, t + w - 1) \in Nat /\ CallsIn(g, t, start - 1) \in Nat
      /\ CallsIn(g, start, MaxTime) \in Nat
  BY <1>1, PartTyped
<1> QED BY <1>3, <1>4

(* A call counted in the window that is open. *)
LEMMA WithinCounts ==
  ASSUME MaxTime \in Nat, NEW g \in [Guarded!Moments -> Nat],
         NEW start \in Nat, NEW count \in Nat, NEW max \in Nat, NEW w \in Nat,
         NEW m \in Guarded!Moments, start <= m, m < start + w, count < max,
         Within(g, start, count, max, w),
         NEW h, OneMore(g, h, m)
  PROVE  Within(h, start, count + 1, max, w)
<1>0. /\ h \in [Guarded!Moments -> Nat] /\ m \in Int /\ MaxTime \in Int /\ start \in Int
      /\ start - 1 \in Int /\ m \in start..MaxTime /\ m \notin (start + w)..MaxTime
  BY DEF Guarded!Moments, OneMore
<1>1. \A t \in Guarded!Moments : t >= start + w => h[t] = 0
  BY <1>0 DEF Within, Guarded!Moments, OneMore
<1>2. CallsIn(h, start, MaxTime) = CallsIn(g, start, MaxTime) + 1 /\ CallsIn(g, start, MaxTime) \in Nat
  BY <1>0, SumCounts, PartTyped
<1>3. CallsIn(h, start, MaxTime) <= count + 1 /\ CallsIn(h, start, MaxTime) <= max
  BY <1>2 DEF Within
<1>4. ASSUME NEW t \in Guarded!Moments, t + w > start PROVE CallsIn(h, t, start - 1) <= max
  <2>1. t \in Int /\ m \notin t..(start - 1)
    BY <1>0 DEF Guarded!Moments
  <2>2. CallsIn(h, t, start - 1) = CallsIn(g, t, start - 1)
    BY <1>0, <2>1, SumCounts
  <2> QED BY <1>4, <2>2 DEF Within
<1>5. ASSUME NEW t \in Guarded!Moments PROVE CallsIn(h, t, t + w - 1) <= 2 * max
  <2>0. t \in Int /\ t + w - 1 \in Int
    BY DEF Guarded!Moments
  <2>1. CASE t + w > start
    BY <1>0, <1>3, <1>4, <2>1, StretchBounded
  <2>2. CASE ~(t + w > start)
    <3>1. m \notin t..(t + w - 1)
      BY <1>0, <2>0, <2>2
    <3>2. CallsIn(h, t, t + w - 1) = CallsIn(g, t, t + w - 1)
      BY <1>0, <2>0, <3>1, SumCounts
    <3> QED BY <3>2 DEF Within
  <2> QED BY <2>1, <2>2
<1> QED BY <1>1, <1>3, <1>4, <1>5 DEF Within

(* A call that opens a new window. *)
LEMMA WithinRenews ==
  ASSUME MaxTime \in Nat, NEW g \in [Guarded!Moments -> Nat],
         NEW start \in Nat, NEW count \in Nat, NEW max \in Nat, NEW w \in Nat, w >= 1, max >= 1,
         NEW m \in Guarded!Moments, m >= start + w,
         Within(g, start, count, max, w),
         NEW h, OneMore(g, h, m)
  PROVE  Within(h, m, 1, max, w)
<1>0. /\ h \in [Guarded!Moments -> Nat] /\ m \in Nat /\ m \in Int /\ MaxTime \in Int /\ start \in Int
      /\ m - 1 \in Int /\ m \in m..MaxTime
  BY DEF Guarded!Moments, OneMore
<1>1. \A t \in Guarded!Moments : t >= m + w => h[t] = 0
  BY <1>0 DEF Within, Guarded!Moments, OneMore
<1>2. CallsIn(g, m, MaxTime) = 0
  <2>1. \A t \in Guarded!Moments : t \in m..MaxTime => g[t] = 0
    BY <1>0 DEF Within, Guarded!Moments
  <2> QED BY <1>0, <2>1, SumNone
<1>3. CallsIn(h, m, MaxTime) = 1
  BY <1>0, <1>2, SumCounts
<1>4. ASSUME NEW t \in Guarded!Moments, t + w > m PROVE CallsIn(h, t, m - 1) <= max
  <2>1. t \in Int /\ m \notin t..(m - 1) /\ t >= start
    BY <1>0, <1>4 DEF Guarded!Moments
  <2>2. CallsIn(h, t, m - 1) = CallsIn(g, t, m - 1)
    BY <1>0, <2>1, SumCounts
  <2>3. \A s \in Guarded!Moments : s \in t..(m - 1) => s \in start..MaxTime
    BY <1>0, <2>1 DEF Guarded!Moments
  <2>4. CallsIn(g, t, m - 1) <= CallsIn(g, start, MaxTime)
    BY <1>0, <2>1, <2>3, SumWithin
  <2>5. CallsIn(g, t, m - 1) \in Nat /\ CallsIn(g, start, MaxTime) \in Nat
    BY <1>0, <2>1, PartTyped
  <2> QED BY <2>2, <2>4, <2>5 DEF Within
<1>5. ASSUME NEW t \in Guarded!Moments PROVE CallsIn(h, t, t + w - 1) <= 2 * max
  <2>0. t \in Int /\ t + w - 1 \in Int
    BY DEF Guarded!Moments
  <2>1. CASE t + w > m
    <3>1. CallsIn(h, m, MaxTime) <= max
      BY <1>3
    <3> QED BY <1>0, <1>4, <2>1, <3>1, StretchBounded
  <2>2. CASE ~(t + w > m)
    <3>1. m \notin t..(t + w - 1)
      BY <1>0, <2>0, <2>2
    <3>2. CallsIn(h, t, t + w - 1) = CallsIn(g, t, t + w - 1)
      BY <1>0, <2>0, <3>1, SumCounts
    <3> QED BY <3>2 DEF Within
  <2> QED BY <2>1, <2>2
<1>6. CallsIn(h, m, MaxTime) <= 1 /\ CallsIn(h, m, MaxTime) <= max
  BY <1>3
<1> QED BY <1>1, <1>4, <1>5, <1>6 DEF Within

-----------------------------------------------------------------------------

LEMMA EditedControls ==
  ASSUME Guarded!EmergencyAssumption, Guarded!TypeOK, NEW o \in Operations, Guarded!CheckRateLimit(o)
  PROVE  /\ limit[o] \in Limits /\ limit[o].max_calls \in Nat /\ limit[o].window_seconds \in Nat
         /\ now \in Nat /\ counter[o].count \in Nat /\ counter[o].window_start \in Nat
         /\ Guarded!Window(o) \in Guarded!RateLimitCounter
         /\ counter' = [counter EXCEPT ![o] = [count |-> Guarded!Window(o).count + 1,
                                               window_start |-> Guarded!Window(o).window_start]]
<1>1. limit[o] \in Limits
  BY DEF Guarded!TypeOK, Guarded!CheckRateLimit
<1>2. limit[o].max_calls \in Nat /\ limit[o].window_seconds \in Nat
  BY <1>1 DEF Guarded!EmergencyAssumption, Guarded!RateLimitConfig
<1>3. now \in Nat /\ counter[o] \in Guarded!RateLimitCounter
  BY DEF Guarded!TypeOK, Guarded!EmergencyAssumption
<1>4. Guarded!Window(o) \in Guarded!RateLimitCounter
  BY <1>3 DEF Guarded!Window, Guarded!RateLimitCounter
<1>5. [Guarded!Window(o) EXCEPT !.count = @ + 1]
        = [count |-> Guarded!Window(o).count + 1, window_start |-> Guarded!Window(o).window_start]
  BY <1>4 DEF Guarded!RateLimitCounter
<1> QED BY <1>1, <1>2, <1>3, <1>4, <1>5 DEF Guarded!CheckRateLimit, Guarded!RateLimitCounter

LEMMA ControlTypeInit ==
  ASSUME Guarded!EmergencyAssumption, Guarded!Init PROVE Guarded!TypeOK
<1>1. counter \in [Operations -> Guarded!RateLimitCounter]
  BY DEF Guarded!Init, Guarded!RateLimitCounter
<1>2. threshold \in 1..Guarded!BpsDenom
  BY DEF Guarded!Init, Guarded!DefaultThreshold, Guarded!BpsDenom
<1>3. now \in 0..MaxTime
  BY DEF Guarded!Init, Guarded!EmergencyAssumption
<1>4. {paused, safeMode, tripped} \subseteq BOOLEAN
  BY DEF Guarded!Init
<1> QED BY <1>1, <1>2, <1>3, <1>4 DEF Guarded!Init, Guarded!TypeOK, Guarded!EmergencyAssumption

LEMMA ControlTypeStep ==
  ASSUME Guarded!EmergencyAssumption, Guarded!TypeOK, [Guarded!Next]_Guarded!vars
  PROVE  Guarded!TypeOK'
<1> USE DEF Guarded!TypeOK, Guarded!people, Guarded!modes, Guarded!rates
<1>1. CASE UNCHANGED Guarded!vars
  BY <1>1 DEF Guarded!vars
<1>2. CASE Guarded!Control
  <2>1. ASSUME NEW p \in People,
               Guarded!Pause(p) \/ Guarded!EnterSafeMode(p) \/ Guarded!SetGuardian(p)
                 \/ Guarded!TransferAdmin(p)
        PROVE  Guarded!TypeOK'
    BY <2>1 DEF Guarded!Pause, Guarded!EnterSafeMode, Guarded!SetGuardian, Guarded!TransferAdmin
  <2>2. CASE Guarded!Unpause \/ Guarded!ResetCircuitBreaker \/ Guarded!ExitSafeMode
    BY <2>2 DEF Guarded!Unpause, Guarded!ResetCircuitBreaker, Guarded!ExitSafeMode
  <2>3. ASSUME NEW change \in Changes, Guarded!ReportPriceChange(change) PROVE Guarded!TypeOK'
    BY <2>3 DEF Guarded!ReportPriceChange
  <2>4. ASSUME NEW bps \in Thresholds, Guarded!SetCircuitBreakerThreshold(bps)
        PROVE  Guarded!TypeOK'
    <3>1. bps \in Int
      BY DEF Guarded!EmergencyAssumption
    <3> QED BY <2>4, <3>1 DEF Guarded!SetCircuitBreakerThreshold, Guarded!BpsDenom
  <2> QED BY <1>2, <2>1, <2>2, <2>3, <2>4 DEF Guarded!Control
<1>3. ASSUME NEW o \in Operations, NEW l \in Limits, Guarded!SetRateLimit(o, l)
      PROVE  Guarded!TypeOK'
  BY <1>3 DEF Guarded!SetRateLimit
<1>4. ASSUME NEW o \in Operations, Guarded!CheckRateLimit(o) PROVE Guarded!TypeOK'
  <2>1. [count |-> Guarded!Window(o).count + 1, window_start |-> Guarded!Window(o).window_start]
          \in Guarded!RateLimitCounter
    BY <1>4, EditedControls DEF Guarded!RateLimitCounter
  <2>2. counter' \in [Operations -> Guarded!RateLimitCounter]
    BY <1>4, <2>1, EditedControls
  <2> QED BY <1>4, <2>2 DEF Guarded!CheckRateLimit
<1>5. CASE Guarded!Tick
  BY <1>5 DEF Guarded!Tick, Guarded!EmergencyAssumption
<1> QED BY <1>1, <1>2, <1>3, <1>4, <1>5 DEF Guarded!Next
(***************************************************************************)
(* The windows of every operation that has a limit.  Nothing is known of    *)
(* the calls of one that has none: setting a limit starts the count anew.   *)
(***************************************************************************)
RateInv ==
  /\ Guarded!TypeOK
  /\ granted \in [Operations -> [Guarded!Moments -> Nat]]
  /\ \A o \in Operations :
       /\ counter[o].window_start <= now
       /\ limit[o] # None =>
            /\ limit[o].window_seconds >= 1
            /\ Within(granted[o], counter[o].window_start, counter[o].count,
                      limit[o].max_calls, limit[o].window_seconds)

LEMMA RateInit ==
  ASSUME Guarded!EmergencyAssumption, Guarded!WatchInit PROVE RateInv
<1>1. Guarded!TypeOK
  BY ControlTypeInit DEF Guarded!WatchInit
<1> QED BY <1>1 DEF Guarded!WatchInit, Guarded!Init, RateInv

(* A step that leaves the windows of o and its limit alone. *)
LEMMA RateCarries ==
  ASSUME RateInv, NEW o \in Operations, Guarded!TypeOK', now' \in {now, now + 1},
         limit'[o] = limit[o], counter'[o] = counter[o], granted'[o] = granted[o]
  PROVE  /\ counter'[o].window_start <= now'
         /\ limit'[o] # None =>
              /\ limit'[o].window_seconds >= 1
              /\ Within(granted'[o], counter'[o].window_start, counter'[o].count,
                        limit'[o].max_calls, limit'[o].window_seconds)
<1>1. counter[o].window_start \in Nat /\ now \in Int
  BY DEF RateInv, Guarded!TypeOK, Guarded!RateLimitCounter
<1> QED BY <1>1 DEF RateInv

LEMMA RateStep ==
  ASSUME Guarded!EmergencyAssumption, RateInv, [Guarded!WatchNext]_Guarded!watchVars
  PROVE  RateInv'
<1>0. Guarded!TypeOK' /\ MaxTime \in Nat /\ now \in Guarded!Moments
  <2>1. [Guarded!Next]_Guarded!vars
    BY DEF Guarded!WatchNext, Guarded!watchVars
  <2> QED BY <2>1, ControlTypeStep DEF RateInv, Guarded!EmergencyAssumption, Guarded!TypeOK,
             Guarded!Moments
<1> DEFINE Same(o) == limit'[o] = limit[o] /\ counter'[o] = counter[o] /\ granted'[o] = granted[o]
           Held(o) == /\ counter'[o].window_start <= now'
                      /\ limit'[o] # None =>
                           /\ limit'[o].window_seconds >= 1
                           /\ Within(granted'[o], counter'[o].window_start, counter'[o].count,
                                     limit'[o].max_calls, limit'[o].window_seconds)
<1>1. ASSUME now' \in {now, now + 1}, NEW o \in Operations, Same(o) PROVE Held(o)
  BY <1>0, <1>1, RateCarries
<1> SUFFICES /\ granted' \in [Operations -> [Guarded!Moments -> Nat]]
             /\ \A o \in Operations : Held(o)
  BY <1>0 DEF RateInv
<1> HIDE DEF Held
<1>2. CASE UNCHANGED Guarded!watchVars
  BY <1>1, <1>2 DEF RateInv, Guarded!watchVars, Guarded!vars, Guarded!rates
<1>3. ASSUME Guarded!Next, Guarded!Grant,
             now' \in {now, now + 1}, limit' = limit, counter' = counter
      PROVE  /\ granted' \in [Operations -> [Guarded!Moments -> Nat]]
             /\ \A o \in Operations : Held(o)
  <2>1. \A o \in Operations : granted'[o] = granted[o]
    BY <1>3 DEF Guarded!Grant
  <2>2. granted' \in [Operations -> [Guarded!Moments -> Nat]]
    BY <1>3 DEF Guarded!Grant, RateInv
  <2> QED BY <1>1, <1>3, <2>1, <2>2
<1>4. ASSUME NEW o \in Operations, NEW l \in Limits, Guarded!SetRateLimit(o, l), Guarded!Grant
      PROVE  /\ granted' \in [Operations -> [Guarded!Moments -> Nat]]
             /\ \A p \in Operations : Held(p)
  <2>1. /\ now' = now /\ counter' = counter /\ limit' = [limit EXCEPT ![o] = l]
        /\ l.max_calls # 0 /\ l.window_seconds # 0
        /\ l.max_calls \in Nat /\ l.window_seconds \in Nat
    BY <1>4 DEF Guarded!SetRateLimit, Guarded!EmergencyAssumption, Guarded!RateLimitConfig
  <2>2. limit'[o] = l /\ \A p \in Operations \ {o} : limit'[p] = limit[p]
    BY <2>1 DEF RateInv, Guarded!TypeOK
  <2>3. \A p \in Operations : granted'[p] = IF limit'[p] # limit[p]
                                            THEN [t \in Guarded!Moments |-> 0] ELSE granted[p]
    BY <1>4, <2>1 DEF Guarded!Grant
  <2>4. granted' \in [Operations -> [Guarded!Moments -> Nat]]
    <3>1. granted' = [p \in Operations |-> granted'[p]]
      BY <1>4 DEF Guarded!Grant
    <3>2. \A p \in Operations : granted'[p] \in [Guarded!Moments -> Nat]
      BY <2>3 DEF RateInv
    <3> QED BY <3>1, <3>2
  <2>5. ASSUME NEW p \in Operations, Same(p) PROVE Held(p)
    BY <1>1, <2>1, <2>5
  <2>6. CASE limit'[o] # limit[o]
    <3>1. counter'[o] = counter[o] /\ counter[o].count \in Nat /\ counter[o].window_start \in Nat
      BY <2>1 DEF RateInv, Guarded!TypeOK, Guarded!RateLimitCounter
    <3>2. granted'[o] \in [Guarded!Moments -> Nat] /\ \A t \in Guarded!Moments : granted'[o][t] = 0
      BY <2>3, <2>6
    <3>3. Within(granted'[o], counter[o].window_start, counter[o].count, l.max_calls,
                 l.window_seconds)
      BY <1>0, <2>1, <3>1, <3>2, WithinNone
    <3>4. l.window_seconds >= 1 /\ counter[o].window_start <= now'
      BY <2>1 DEF RateInv
    <3>5. Held(o)
      BY <2>2, <3>1, <3>3, <3>4 DEF Held
    <3> QED BY <2>1, <2>2, <2>3, <2>4, <2>5, <3>5
  <2>7. CASE limit'[o] = limit[o]
    BY <2>1, <2>2, <2>3, <2>4, <2>5, <2>7
  <2> QED BY <2>6, <2>7
<1>5. ASSUME NEW o \in Operations, Guarded!CheckRateLimit(o), Guarded!Grant
      PROVE  /\ granted' \in [Operations -> [Guarded!Moments -> Nat]]
             /\ \A p \in Operations : Held(p)
  <2> DEFINE c == counter[o]
             w == limit[o].window_seconds
             max == limit[o].max_calls
             g == granted[o]
  <2>1. /\ now' = now /\ limit' = limit /\ limit[o] # None
        /\ Guarded!Window(o).count < max
    BY <1>5 DEF Guarded!CheckRateLimit
  <2>2. /\ max \in Nat /\ w \in Nat /\ now \in Nat /\ c.count \in Nat /\ c.window_start \in Nat
        /\ Guarded!Window(o).count \in Nat
        /\ counter' = [counter EXCEPT ![o] = [count |-> Guarded!Window(o).count + 1,
                                              window_start |-> Guarded!Window(o).window_start]]
    BY <1>5, EditedControls DEF RateInv, Guarded!RateLimitCounter
  <2>3. /\ counter'[o].count = Guarded!Window(o).count + 1
        /\ counter'[o].window_start = Guarded!Window(o).window_start
        /\ \A p \in Operations \ {o} : counter'[p] = counter[p]
    BY <2>2 DEF RateInv, Guarded!TypeOK
  <2>4. w >= 1 /\ c.window_start <= now /\ Within(g, c.window_start, c.count, max, w)
    BY <2>1 DEF RateInv
  <2>5. counter'[o] # counter[o]
    <3>1. CASE now >= c.window_start + w
      <4>1. counter'[o].window_start = now
        BY <2>3, <3>1 DEF Guarded!Window
      <4> QED BY <2>2, <2>4, <3>1, <4>1
    <3>2. CASE ~(now >= c.window_start + w)
      <4>1. counter'[o].count = c.count + 1
        BY <2>3, <3>2 DEF Guarded!Window
      <4> QED BY <2>2, <4>1
    <3> QED BY <3>1, <3>2
  <2>6. /\ granted'[o] = [g EXCEPT ![now] = @ + 1]
        /\ \A p \in Operations \ {o} : granted'[p] = granted[p]
    BY <1>5, <2>1, <2>3, <2>5 DEF Guarded!Grant
  <2>7. g \in [Guarded!Moments -> Nat]
    BY DEF RateInv
  <2>8. OneMore(g, granted'[o], now)
    BY <1>0, <2>6, <2>7 DEF OneMore
  <2>9. granted' \in [Operations -> [Guarded!Moments -> Nat]]
    <3>1. granted' = [p \in Operations |-> granted'[p]]
      BY <1>5 DEF Guarded!Grant
    <3>2. \A p \in Operations : granted'[p] \in [Guarded!Moments -> Nat]
      BY <2>6, <2>8 DEF RateInv, OneMore
    <3> QED BY <3>1, <3>2
  <2>10. Within(granted'[o], counter'[o].window_start, counter'[o].count, max, w)
    <3>1. CASE now >= c.window_start + w
      <4>1. counter'[o].window_start = now /\ counter'[o].count = 1 /\ max >= 1
        BY <2>1, <2>2, <2>3, <3>1 DEF Guarded!Window
      <4> HIDE DEF c, w, max, g
      <4> QED BY <1>0, <2>2, <2>4, <2>7, <2>8, <3>1, <4>1, WithinRenews
    <3>2. CASE ~(now >= c.window_start + w)
      <4>1. /\ counter'[o].window_start = c.window_start /\ counter'[o].count = c.count + 1
            /\ c.count < max /\ now < c.window_start + w
        BY <2>1, <2>2, <2>3, <3>2 DEF Guarded!Window
      <4> HIDE DEF c, w, max, g
      <4>2. Within(granted'[o], c.window_start, c.count + 1, max, w)
        BY <1>0, <2>2, <2>4, <2>7, <2>8, <4>1, WithinCounts
      <4> QED BY <4>1, <4>2
    <3> QED BY <3>1, <3>2
  <2>11. counter'[o].window_start <= now'
    BY <2>1, <2>2, <2>3, <2>4 DEF Guarded!Window
  <2>12. Held(o)
    BY <2>1, <2>4, <2>10, <2>11 DEF Held
  <2>13. ASSUME NEW p \in Operations \ {o} PROVE Held(p)
    BY <1>1, <2>1, <2>3, <2>6
  <2> QED BY <2>9, <2>12, <2>13
<1>6. CASE Guarded!Control /\ Guarded!Grant
  <2>1. now' = now /\ limit' = limit /\ counter' = counter
    BY <1>6 DEF Guarded!Control, Guarded!Pause, Guarded!EnterSafeMode, Guarded!SetGuardian,
             Guarded!TransferAdmin, Guarded!Unpause, Guarded!ResetCircuitBreaker,
             Guarded!ExitSafeMode, Guarded!SetCircuitBreakerThreshold, Guarded!ReportPriceChange,
             Guarded!rates
  <2> QED BY <1>3, <1>6, <2>1 DEF Guarded!Next
<1>7. CASE Guarded!Tick /\ Guarded!Grant
  <2>1. now' = now + 1 /\ limit' = limit /\ counter' = counter
    BY <1>7 DEF Guarded!Tick, Guarded!rates
  <2> QED BY <1>3, <1>7, <2>1 DEF Guarded!Next
<1> QED BY <1>2, <1>4, <1>5, <1>6, <1>7 DEF Guarded!WatchNext, Guarded!Next

(***************************************************************************)
(* Whatever calls come and however limits are changed: since a limit was    *)
(* set, no window allows more calls than it says, and no stretch as long as *)
(* a window more than twice as many.  (RateHeld)                            *)
(***************************************************************************)
LEMMA RateMeets ==
  ASSUME Guarded!EmergencyAssumption, RateInv PROVE Guarded!RateHeld
<1> SUFFICES ASSUME NEW o \in Operations, limit[o] # None
             PROVE  /\ Guarded!Calls(o, counter[o].window_start, now) <= limit[o].max_calls
                    /\ \A t \in Guarded!Moments :
                         Guarded!Calls(o, t, t + limit[o].window_seconds - 1)
                           <= 2 * limit[o].max_calls
  BY DEF Guarded!RateHeld
<1> DEFINE g == granted[o]
           start == counter[o].window_start
<1>1. \A a, b : Guarded!Calls(o, a, b) = CallsIn(g, a, b)
  BY TotalsAgree DEF Guarded!Calls, CallsIn, Part
<1>2. /\ MaxTime \in Nat /\ now \in 0..MaxTime /\ g \in [Guarded!Moments -> Nat] /\ start \in Nat
      /\ limit[o].max_calls \in Nat
      /\ CallsIn(g, start, MaxTime) <= limit[o].max_calls
      /\ \A t \in Guarded!Moments :
           CallsIn(g, t, t + limit[o].window_seconds - 1) <= 2 * limit[o].max_calls
  BY DEF RateInv, Within, Guarded!TypeOK, Guarded!RateLimitCounter, Guarded!EmergencyAssumption,
         Guarded!RateLimitConfig
<1> HIDE DEF g, start
<1>3. start \in Int /\ now \in Int /\ MaxTime \in Int
      /\ \A t \in Guarded!Moments : t \in start..now => t \in start..MaxTime
  BY <1>2 DEF Guarded!Moments
<1>4. /\ CallsIn(g, start, now) <= CallsIn(g, start, MaxTime)
      /\ CallsIn(g, start, now) \in Nat /\ CallsIn(g, start, MaxTime) \in Nat
  BY <1>2, <1>3, SumWithin, PartTyped
<1>5. CallsIn(g, start, now) <= limit[o].max_calls
  BY <1>2, <1>4
<1> QED BY <1>1, <1>2, <1>5 DEF start

THEOREM RatesHold ==
  ASSUME Guarded!EmergencyAssumption PROVE Guarded!WatchSpec => []Guarded!RateHeld
BY RateInit, RateStep, RateMeets, PTL DEF Guarded!WatchSpec

-----------------------------------------------------------------------------
(* ALL SIDE BY SIDE *)

(* The clock advances or stands still; only a call of the log or of the     *)
(* controls moves it, and both would.                                       *)
LEMMA ClockMoves ==
  /\ Guarded!Next => UNCHANGED now \/ (now < MaxTime /\ now' = now + 1)
  /\ Audited!Next => UNCHANGED now \/ (now < MaxTime /\ now' = now + 1)
<1>1. ASSUME Guarded!Next PROVE UNCHANGED now \/ (now < MaxTime /\ now' = now + 1)
  <2>1. CASE Guarded!Control
    BY <2>1 DEF Guarded!Control, Guarded!Pause, Guarded!EnterSafeMode, Guarded!SetGuardian,
             Guarded!TransferAdmin, Guarded!Unpause, Guarded!ResetCircuitBreaker,
             Guarded!ExitSafeMode, Guarded!SetCircuitBreakerThreshold, Guarded!ReportPriceChange
  <2>2. CASE ~Guarded!Control
    BY <1>1, <2>2 DEF Guarded!Next, Guarded!SetRateLimit, Guarded!CheckRateLimit, Guarded!Tick
  <2> QED BY <2>1, <2>2
<1>2. ASSUME Audited!Next PROVE UNCHANGED now \/ (now < MaxTime /\ now' = now + 1)
  BY <1>2 DEF Audited!Next, Audited!Initialize, Audited!SetRetentionPolicy, Audited!LogEvent,
              Audited!PruneOld, Audited!Tick
<1> QED BY <1>1, <1>2

(* A step of the whole is, for each contract, one of its own or none.       *)
LEMMA StepOfEach ==
  ASSUME [OversightNext]_oversightVars
  PROVE  [Next]_vars /\ [Versioned!Next]_Versioned!vars /\ [Audited!Next]_Audited!vars
<1> USE DEF oversightVars, payouts, versions, log, controls
<1>1. [Next]_vars
  BY DEF OversightNext, PayOut, Upgrade, Log, Protect, vars
<1>2. [Versioned!Next]_Versioned!vars
  BY DEF OversightNext, PayOut, Upgrade, Log, Protect, Versioned!vars, Versioned!authority
<1>3. [Audited!Next]_Audited!vars
  <2>1. CASE Protect
    <3>1. UNCHANGED now \/ (now < MaxTime /\ now' = now + 1)
      BY <2>1, ClockMoves DEF Protect, Guarded!WatchNext
    <3> QED BY <2>1, <3>1 DEF Protect, Audited!Next, Audited!Tick, Audited!vars, Audited!settings
  <2>2. CASE ~Protect
    BY <2>2 DEF OversightNext, PayOut, Upgrade, Log, Audited!vars, Audited!settings
  <2> QED BY <2>1, <2>2
<1> QED BY <1>1, <1>2, <1>3

LEMMA StepOfControls ==
  ASSUME RateInv, HaltInv, [OversightNext]_oversightVars
  PROVE  [Guarded!WatchNext]_Guarded!watchVars
<1> USE DEF oversightVars, payouts, versions, log, controls
<1>1. CASE Log /\ ~UNCHANGED now
  <2>1. now < MaxTime /\ now' = now + 1 /\ UNCHANGED controls
    BY <1>1, ClockMoves DEF Log
  <2>2. Guarded!Tick
    BY <2>1 DEF Guarded!Tick, Guarded!people, Guarded!modes, Guarded!rates
  <2>3. Guarded!Grant
    <3>1. granted = [o \in Operations |-> granted[o]]
      BY DEF RateInv
    <3> QED BY <2>1, <3>1 DEF Guarded!Grant
  <2>4. now' # now
    BY <2>1 DEF RateInv, Guarded!TypeOK
  <2>5. \A change \in Changes : ~Guarded!ReportPriceChange(change)
    BY <2>4 DEF Guarded!ReportPriceChange
  <2>6. Guarded!Owe
    <3>1. owed = owed \ ({} \cup {})
      OBVIOUS
    <3> QED BY <2>1, <2>5, <3>1 DEF Guarded!Owe
  <2> QED BY <2>2, <2>3, <2>6 DEF Guarded!WatchNext, Guarded!Next
<1>2. CASE ~(Log /\ ~UNCHANGED now)
  BY <1>2 DEF OversightNext, PayOut, Upgrade, Log, Protect, Guarded!watchVars, Guarded!vars,
              Guarded!people, Guarded!modes, Guarded!rates
<1> QED BY <1>1, <1>2

(***************************************************************************)
(* What the controls rest on, while other contracts move the clock.         *)
(***************************************************************************)
LEMMA ControlsKept == OversightSpec => [](RateInv /\ HaltInv)
<1> USE OversightAssumption
<1>1. OversightInit => RateInv /\ HaltInv
  BY RateInit, HaltInit DEF OversightInit
<1>2. RateInv /\ HaltInv /\ [OversightNext]_oversightVars => (RateInv /\ HaltInv)'
  BY StepOfControls, RateStep, HaltStep
<1> QED BY <1>1, <1>2, PTL DEF OversightSpec

(***************************************************************************)
(* The contracts side by side are each of them: the treasury, the versions, *)
(* the log and the watched controls.  Whatever is proved of one holds here. *)
(***************************************************************************)
THEOREM EachRuns ==
  OversightSpec => Spec /\ Versioned!Spec /\ Audited!Spec /\ Guarded!WatchSpec
<1>1. OversightInit => Init /\ Versioned!Init /\ Audited!Init /\ Guarded!WatchInit
  BY DEF OversightInit
<1>2. [OversightNext]_oversightVars =>
        [Next]_vars /\ [Versioned!Next]_Versioned!vars /\ [Audited!Next]_Audited!vars
  BY StepOfEach
<1>3. RateInv /\ HaltInv /\ [OversightNext]_oversightVars => [Guarded!WatchNext]_Guarded!watchVars
  BY StepOfControls
<1> QED
  BY <1>1, <1>2, <1>3, ControlsKept, PTL
  DEF OversightSpec, Spec, Versioned!Spec, Audited!Spec, Guarded!WatchSpec

(* Every contract keeps its types, the versions their statuses.  (OversightTyped) *)
THEOREM AllTyped == ASSUME ~EarlyCalls PROVE OversightSpec => []OversightTyped
<1>1. OversightSpec => []TypeOK
  BY EachRuns, TypeCorrect, PTL
<1>2. OversightSpec => []LiveInv
  <2>1. Versioned!Init => LiveInv
    BY LiveInit, OversightAssumption
  <2>2. LiveInv /\ [Versioned!Next]_Versioned!vars => LiveInv'
    BY LiveStep, OversightAssumption
  <2> QED BY <2>1, <2>2, EachRuns, PTL DEF Versioned!Spec
<1>3. OversightSpec => []ChainInv
  <2>1. Audited!Init => ChainInv
    BY ChainInit, OversightAssumption
  <2>2. ChainInv /\ [Audited!Next]_Audited!vars => ChainInv'
    BY ChainStep, OversightAssumption
  <2> QED BY <2>1, <2>2, EachRuns, PTL DEF Audited!Spec
<1>4. TypeOK /\ LiveInv /\ ChainInv /\ RateInv => OversightTyped
  BY DEF LiveInv, ChainInv, RateInv, OversightTyped
<1> QED BY <1>1, <1>2, <1>3, <1>4, ControlsKept, PTL

(***************************************************************************)
(* A new version is in force only on enough approvals or as a rollback of   *)
(* the one in force; a request is paid once, for what it asks.  (Sanctioned) *)
(***************************************************************************)
THEOREM AllSanctioned == OversightSpec => Sanctioned
<1>1. Versioned!Spec => Versioned!UpgradesSanctioned
  BY UpgradesApproved, OversightAssumption
<1> QED BY <1>1, EachRuns, PaymentsRequested, PTL DEF Sanctioned

(* A request is executed only on the signatures asked for.  (MultisigHonoured) *)
THEOREM SignaturesCounted == OversightSpec => MultisigHonoured
BY EachRuns, Multisig, PTL

(* The stored head is the one recomputed from the log.  (ChainIntact) *)
THEOREM LogVerifies == ASSUME ~EarlyCalls PROVE OversightSpec => []ChainIntact
<1>1. Audited!Spec => []Audited!ChainIntact
  BY ChainVerifies, OversightAssumption
<1> QED BY <1>1, EachRuns, PTL DEF ChainIntact

(* Pruning cuts what the policy forbids and no more.  (PruneExact) *)
THEOREM LogPruned == ASSUME ~EarlyCalls PROVE OversightSpec => PruneExact
<1>1. Audited!Spec => Audited!PruneExact
  BY PrunesExactly, OversightAssumption
<1> QED BY <1>1, EachRuns, PTL DEF PruneExact

(* A limit holds in every window, twice it in every stretch.  (RateHeld) *)
THEOREM RatesKept == OversightSpec => []RateHeld
<1>1. Guarded!WatchSpec => []Guarded!RateHeld
  BY RatesHold, OversightAssumption
<1> QED BY <1>1, EachRuns, PTL DEF RateHeld

(* A trip halts until it is reset and the pause lifted.  (StaysHalted) *)
THEOREM HaltKept == OversightSpec => []StaysHalted
BY HaltsHold, EachRuns, PTL DEF StaysHalted

HIDE TreasuryAssumption

-----------------------------------------------------------------------------
(* FEES *)

LEMMA FeesAssumed == Charged!FeesAssumption
BY ServicesAssumption

LEMMA OperatorsAlike ==
  /\ \A S : Charged!Cardinality(S) = Cardinality(S)
  /\ \A S : Charged!IsFiniteSet(S) <=> IsFiniteSet(S)
  /\ \A P, k : Charged!Kth(P, k) = Kth(P, k)
<1>1. \A S : Charged!Cardinality(S) = Cardinality(S)
  BY Zenon DEF Cardinality, Charged!Cardinality, IsFiniteSet, Charged!IsFiniteSet
<1>2. \A S : Charged!IsFiniteSet(S) <=> IsFiniteSet(S)
  BY Zenon DEF IsFiniteSet, Charged!IsFiniteSet
<1> QED BY <1>1, <1>2 DEF Charged!Kth, Kth

LEMMA FeesSumsAlike == \A f, S : Charged!SumFunctionOnSet(f, S) = Summed(f, S)
BY DEF Charged!SumFunctionOnSet, Charged!FoldFunctionOnSet, Charged!MapThenFoldSet, Summed

LEMMA FeesSumAlike == \A f : Charged!SumFunction(f) = Summed(f, DOMAIN f)
BY FeesSumsAlike DEF Charged!SumFunction

-----------------------------------------------------------------------------
(* Selecting from a sequence *)

(* The k-th of a set of indices is one of them. *)
LEMMA KthInside ==
  ASSUME NEW n \in Nat, NEW P \in SUBSET (1..n)
  PROVE  /\ IsFiniteSet(P) /\ Cardinality(P) \in Nat
         /\ \A k \in 1..Cardinality(P) : Kth(P, k) \in P
<1> DEFINE Upto(m) == {j \in P : j <= m}
<1>0. \A j \in P : j \in Nat /\ j >= 1 /\ j <= n
  OBVIOUS
<1>1. IsFiniteSet(1..n) /\ IsFiniteSet(P) /\ Cardinality(P) \in Nat
  <2>1. 1 \in Int /\ n \in Int
    OBVIOUS
  <2>2. IsFiniteSet(1..n)
    BY <2>1, FS_Interval
  <2> QED BY <2>2, FS_Subset, FS_CardinalityType
<1>2. ASSUME NEW i \in Nat PROVE IsFiniteSet(Upto(i)) /\ Cardinality(Upto(i)) \in Nat
  BY <1>1, FS_Subset, FS_CardinalityType
<1>3. SUFFICES ASSUME NEW k \in 1..Cardinality(P) PROVE Kth(P, k) \in P
  BY <1>1
<1> DEFINE T == {t \in Nat : Cardinality(Upto(t)) >= k}
<1>4. n \in T
  <2>1. Upto(n) = P
    BY <1>0
  <2>2. Cardinality(Upto(n)) = Cardinality(P)
    BY <2>1
  <2> QED BY <1>1, <2>2
<1>5. PICK i \in T : \A j \in T : i <= j
  <2>1. T \in SUBSET Nat /\ T # {}
    BY <1>4
  <2> HIDE DEF T
  <2> QED BY <2>1, LeastNat
<1>6. i \in Nat /\ Cardinality(Upto(i)) >= k /\ k \in Nat /\ k >= 1
  BY <1>1, <1>5
<1>7. i # 0
  <2>1. Upto(0) = {}
    <3>1. ASSUME NEW j \in P PROVE ~(j <= 0)
      BY <1>0
    <3> QED BY <3>1
  <2>2. Cardinality(Upto(0)) = 0
    BY <2>1, FS_EmptySet
  <2> QED BY <1>6, <2>2
<1>8. i - 1 \in Nat /\ ~(Cardinality(Upto(i - 1)) >= k)
  <2>1. i - 1 \in Nat /\ ~(i <= i - 1)
    BY <1>6, <1>7
  <2>2. i - 1 \notin T
    <3> HIDE DEF T
    <3> QED BY <1>5, <2>1
  <2> QED BY <2>1, <2>2
<1>9. i \in P
  <2>1. ASSUME i \notin P PROVE Upto(i) = Upto(i - 1)
    <3>1. ASSUME NEW j \in P PROVE j <= i <=> j <= i - 1
      <4>1. j # i /\ j \in Nat
        BY <1>0, <2>1
      <4> QED BY <1>6, <4>1
    <3> QED BY <3>1
  <2> HIDE DEF Upto
  <2> QED BY <1>6, <1>8, <2>1
<1>10. Cardinality(Upto(i)) = k
  <2>1. Upto(i) = Upto(i - 1) \cup {i} /\ i \notin Upto(i - 1)
    <3>1. ASSUME NEW j \in P PROVE j <= i <=> (j <= i - 1 \/ j = i)
      <4>1. j \in Nat
        BY <1>0
      <4> QED BY <1>6, <4>1
    <3>2. ~(i <= i - 1)
      BY <1>6
    <3> QED BY <1>9, <3>1, <3>2
  <2>2. Cardinality(Upto(i)) = Cardinality(Upto(i - 1)) + 1
    <3> HIDE DEF Upto
    <3> QED BY <1>2, <1>8, <2>1, FS_AddElement
  <2>3. Cardinality(Upto(i - 1)) \in Nat
    BY <1>2, <1>8
  <2> HIDE DEF Upto
  <2> QED BY <1>6, <1>8, <2>2, <2>3
<1> QED BY <1>9, <1>10 DEF Kth

LEMMA Selected ==
  ASSUME NEW S, NEW s \in Seq(S), NEW P \in SUBSET (DOMAIN s)
  PROVE  /\ IsFiniteSet(P) /\ Cardinality(P) \in Nat
         /\ [k \in 1..Cardinality(P) |-> s[Kth(P, k)]] \in Seq(S)
         /\ \A k \in 1..Cardinality(P) : Kth(P, k) \in P
<1>1. DOMAIN s = 1..Len(s) /\ Len(s) \in Nat /\ \A i \in 1..Len(s) : s[i] \in S
  BY LenProperties, ElementOfSeq
<1>2. /\ IsFiniteSet(P) /\ Cardinality(P) \in Nat
      /\ \A k \in 1..Cardinality(P) : Kth(P, k) \in P
  BY <1>1, KthInside
<1>3. [k \in 1..Cardinality(P) |-> s[Kth(P, k)]] \in [1..Cardinality(P) -> S]
  BY <1>1, <1>2
<1> QED BY <1>2, <1>3, SeqDef

(* The smallest and the largest of some indices. *)
LEMMA EndInside ==
  ASSUME NEW n \in Nat, NEW P \in SUBSET (1..n), P # {}
  PROVE  Charged!Min(P) \in P /\ Charged!Max(P) \in P
<1>1. PICK m \in P : \A i \in P : m <= i
  BY LeastNat
<1>2. Charged!Min(P) \in P
  BY <1>1 DEF Charged!Min
<1> DEFINE R == {n - y : y \in P}
<1>3. R \in SUBSET Nat /\ R # {}
  OBVIOUS
<1>4. PICK r \in R : \A i \in R : r <= i
  <2> HIDE DEF R
  <2> QED BY <1>3, LeastNat
<1>5. PICK x \in P : r = n - x
  BY DEF R
<1>6. \A y \in P : x >= y
  <2> SUFFICES ASSUME NEW y \in P PROVE x >= y
    OBVIOUS
  <2>1. n - y \in R
    BY DEF R
  <2>2. n - x <= n - y
    BY <1>4, <1>5, <2>1
  <2> QED BY <2>2
<1>7. Charged!Max(P) \in P
  BY <1>6 DEF Charged!Max
<1> QED BY <1>2, <1>7

LEMMA EndOfTwo ==
  ASSUME NEW a \in Int, NEW b \in Int
  PROVE  /\ Charged!Min({a, b}) = (IF a <= b THEN a ELSE b) /\ Charged!Min({a, b}) \in Int
         /\ Charged!Max({a, b}) = (IF a >= b THEN a ELSE b) /\ Charged!Max({a, b}) \in Int
<1>1. Charged!Min({a, b}) = (IF a <= b THEN a ELSE b)
  BY DEF Charged!Min
<1>2. Charged!Max({a, b}) = (IF a >= b THEN a ELSE b)
  BY DEF Charged!Max
<1> QED BY <1>1, <1>2

-----------------------------------------------------------------------------
(* What is charged *)

(* What is charged is a number. *)
LEMMA FeeTyped ==
  ASSUME Charged!TypeOK, NEW id \in FeeIds, Charged!Chargeable(id), NEW base \in Int
  PROVE  Charged!Gross(id, base) \in Int /\ feeStructure[id].category \in Charged!FeeCategory
<1> DEFINE fs == feeStructure[id]
           tiers == fs.tiered_entries
           reached == {i \in DOMAIN tiers : base >= tiers[i].threshold}
           raw == Charged!RawFee(fs, base)
<1>1. fs \in Charged!FeeStructure
  BY DEF Charged!TypeOK, Charged!Chargeable
<1>2. /\ fs.fee_type \in {"Flat", "Percentage", "Tiered"} /\ fs.amount_bps \in Int
      /\ fs.category \in Charged!FeeCategory /\ fs.fee_cap \in Int \cup {None}
      /\ tiers \in Seq([threshold : Int, fee_bps : Int])
  BY <1>1 DEF Charged!FeeStructure
<1>3. \A a \in Int : Charged!Quotient(a, Charged!BpsDenom) \in Int
  BY DEF Charged!Quotient, Charged!BpsDenom
<1>4. Charged!TieredFee(tiers, base) \in Int
  <2>1. /\ DOMAIN tiers = 1..Len(tiers) /\ Len(tiers) \in Nat
        /\ \A i \in DOMAIN tiers : tiers[i].fee_bps \in Int
    <3> DEFINE Entry == [threshold : Int, fee_bps : Int]
    <3>1. tiers \in Seq(Entry)
      BY <1>2
    <3> HIDE DEF tiers, Entry
    <3>2. /\ DOMAIN tiers = 1..Len(tiers) /\ Len(tiers) \in Nat
          /\ \A i \in DOMAIN tiers : tiers[i] \in Entry
      BY <3>1, LenProperties, ElementOfSeq
    <3> QED BY <3>2 DEF Entry
  <2>2. CASE reached = {}
    BY <2>2 DEF Charged!TieredFee
  <2>3. CASE reached # {}
    <3>1. Charged!Max(reached) \in reached
      <4>1. reached \in SUBSET (1..Len(tiers))
        BY <2>1
      <4> HIDE DEF reached
      <4> QED BY <2>1, <2>3, <4>1, EndInside
    <3>2. tiers[Charged!Max(reached)].fee_bps \in Int
      BY <2>1, <3>1
    <3>3. base * tiers[Charged!Max(reached)].fee_bps \in Int
      BY <3>2
    <3> QED BY <1>3, <2>3, <3>3 DEF Charged!TieredFee
  <2> QED BY <2>2, <2>3
<1>5. raw \in Int
  <2>1. base * fs.amount_bps \in Int
    BY <1>2
  <2> QED BY <1>2, <1>3, <1>4, <2>1 DEF Charged!RawFee
<1> HIDE DEF raw
<1>6. Charged!ClampFee(raw, base) \in Int
  <2>0. 0 \in Int
    OBVIOUS
  <2>1. Charged!Max({raw, 0}) \in Int
    BY <1>5, <2>0, EndOfTwo, Zenon
  <2> QED BY <2>1, EndOfTwo DEF Charged!ClampFee
<1>7. Charged!Gross(id, base) = Charged!ApplyFeeCap(Charged!ClampFee(raw, base), fs.fee_cap)
  BY DEF Charged!Gross, raw
<1> QED BY <1>2, <1>6, <1>7 DEF Charged!ApplyFeeCap

Grants == [discount_bps : 0..Charged!BpsDenom, waived : BOOLEAN]

LEMMA WaiversListed ==
  ASSUME Charged!TypeOK
  PROVE  /\ waivers \in Seq(Charged!FeeWaiver) /\ Len(waivers) \in Nat
         /\ DOMAIN waivers = 1..Len(waivers)
         /\ \A i \in DOMAIN waivers : waivers[i] \in Charged!FeeWaiver
BY LenProperties, ElementOfSeq DEF Charged!TypeOK

LEMMA GrantTyped ==
  ASSUME Charged!TypeOK, NEW P \in SUBSET (DOMAIN waivers)
  PROVE  Charged!Granted(P) \in Grants
<1>1. CASE P = {}
  BY <1>1 DEF Charged!Granted, Grants, Charged!BpsDenom
<1>2. CASE P # {}
  <2>1. Charged!Min(P) \in P
    BY <1>2, WaiversListed, EndInside
  <2>2. waivers[Charged!Min(P)] \in Charged!FeeWaiver
    BY <2>1, WaiversListed
  <2> QED BY <1>2, <2>2 DEF Charged!Granted, Grants, Charged!FeeWaiver
<1> QED BY <1>1, <1>2

LEMMA DiscountTyped ==
  ASSUME NEW fee \in Int, NEW w \in Grants
  PROVE  Charged!ApplyDiscount(fee, w) \in Int
<1>0. w.discount_bps \in 0..Charged!BpsDenom /\ w.waived \in BOOLEAN
  BY DEF Grants
<1>1. w.discount_bps \in Int
  <2>1. \A n : n \in 0..Charged!BpsDenom => n \in Int
    BY DEF Charged!BpsDenom
  <2> QED BY <1>0, <2>1
<1>2. fee * (Charged!BpsDenom - w.discount_bps) \in Int
  BY <1>1 DEF Charged!BpsDenom
<1>3. Charged!Quotient(fee * (Charged!BpsDenom - w.discount_bps), Charged!BpsDenom) \in Int
  BY <1>2 DEF Charged!Quotient, Charged!BpsDenom
<1> DEFINE less == Charged!Quotient(fee * (Charged!BpsDenom - w.discount_bps), Charged!BpsDenom)
<1>4. Charged!Max({less, 0}) \in Int
  <2> HIDE DEF less
  <2>1. less \in Int /\ 0 \in Int
    BY <1>3 DEF less
  <2> QED BY <2>1, EndOfTwo, Zenon
<1> QED BY <1>0, <1>1, <1>4 DEF Charged!ApplyDiscount

(* What collect_fee charges, and the record it keeps. *)
LEMMA ChargeTyped ==
  ASSUME Charged!TypeOK, NEW p \in People, NEW id \in FeeIds, NEW f \in Portfolios,
         NEW base \in Int, Charged!Chargeable(id)
  PROVE  /\ Charged!ResolveForCollect(p, f) \in Grants
         /\ Charged!ApplyDiscount(Charged!Gross(id, base), Charged!ResolveForCollect(p, f)) \in Int
         /\ feeStructure[id].category \in Charged!FeeCategory
<1>1. Charged!ResolveForCollect(p, f) \in Grants
  BY GrantTyped DEF Charged!ResolveForCollect
<1> QED BY <1>1, FeeTyped, DiscountTyped

LEMMA HistoryListed ==
  ASSUME Charged!TypeOK
  PROVE  /\ feeHistory \in Seq(Charged!FeeRecord) /\ Len(feeHistory) \in Nat
         /\ DOMAIN feeHistory = 1..Len(feeHistory)
         /\ \A i \in DOMAIN feeHistory : feeHistory[i] \in Charged!FeeRecord
BY LenProperties, ElementOfSeq DEF Charged!TypeOK

(* The record is the last of the history that is kept, full or not. *)
LEMMA RecordRemembered ==
  ASSUME Charged!TypeOK, NEW r \in Charged!FeeRecord
  PROVE  LET h == Charged!Remembered(r)
         IN  /\ h \in Seq(Charged!FeeRecord) /\ Len(h) <= MaxHistory /\ Charged!Last(h) = r
             /\ Len(h) < MaxHistory => Len(feeHistory) < MaxHistory /\ h = Append(feeHistory, r)
<1> DEFINE h == Charged!Remembered(r)
           rest == IF Len(feeHistory) >= MaxHistory THEN Tail(feeHistory) ELSE feeHistory
<1>1. /\ feeHistory \in Seq(Charged!FeeRecord) /\ Len(feeHistory) \in Nat
      /\ Len(feeHistory) <= MaxHistory /\ MaxHistory \in Nat /\ MaxHistory > 0
  BY HistoryListed, FeesAssumed DEF Charged!TypeOK, Charged!FeesAssumption
<1>2. /\ rest \in Seq(Charged!FeeRecord)
      /\ Len(rest) = IF Len(feeHistory) >= MaxHistory THEN Len(feeHistory) - 1 ELSE Len(feeHistory)
  <2>1. CASE Len(feeHistory) >= MaxHistory
    <3>1. feeHistory # <<>>
      BY <1>1, <2>1, EmptySeq
    <3> QED BY <1>1, <2>1, <3>1, HeadTailProperties
  <2>2. CASE ~(Len(feeHistory) >= MaxHistory)
    BY <1>1, <2>2
  <2> QED BY <2>1, <2>2
<1>3. h = Append(rest, r)
  BY DEF Charged!Remembered
<1> HIDE DEF h, rest
<1>4. h \in Seq(Charged!FeeRecord) /\ Len(h) = Len(rest) + 1 /\ h[Len(rest) + 1] = r
  BY <1>2, <1>3, AppendProperties
<1>5. Len(h) <= MaxHistory
  BY <1>1, <1>2, <1>4
<1>6. Charged!Last(h) = r
  BY <1>4 DEF Charged!Last
<1>7. Len(h) < MaxHistory => Len(feeHistory) < MaxHistory /\ h = Append(feeHistory, r)
  <2> SUFFICES ASSUME Len(h) < MaxHistory PROVE Len(feeHistory) < MaxHistory /\ h = Append(feeHistory, r)
    OBVIOUS
  <2>1. ~(Len(feeHistory) >= MaxHistory)
    BY <1>1, <1>2, <1>4
  <2>2. rest = feeHistory
    BY <2>1 DEF rest
  <2> QED BY <1>1, <1>3, <2>1, <2>2
<1>8. h \in Seq(Charged!FeeRecord) /\ Len(h) <= MaxHistory /\ Charged!Last(h) = r
  BY <1>4, <1>5, <1>6
<1> QED BY <1>7, <1>8 DEF h

-----------------------------------------------------------------------------
(* The ledger *)

FeesAt(h, S) == Summed([i \in DOMAIN h |-> h[i].fee_amount], S)
InCategory(h, c) == {i \in DOMAIN h : h[i].category = c}
OfPortfolio(h, f) == {i \in DOMAIN h : h[i].portfolio_id = f}

LedgerTrue ==
  /\ totalCollected = Summed(categoryTotal, Charged!FeeCategory)
  /\ totalCollected = Summed(portfolioTotal, Portfolios)
  /\ Len(feeHistory) < MaxHistory =>
       /\ FeesAt(feeHistory, DOMAIN feeHistory) = totalCollected
       /\ \A c \in Charged!FeeCategory : FeesAt(feeHistory, InCategory(feeHistory, c)) = categoryTotal[c]
       /\ \A f \in Portfolios : FeesAt(feeHistory, OfPortfolio(feeHistory, f)) = portfolioTotal[f]

FeesInv == Charged!TypeOK /\ LedgerTrue

LEMMA SixCategories ==
  IsFiniteSet(Charged!FeeCategory) /\ IsFiniteSet(Portfolios)
<1>1. \A x, S : IsFiniteSet(S) => IsFiniteSet(S \cup {x})
  BY FS_AddElement
<1>2. IsFiniteSet({})
  BY FS_EmptySet
<1>3. Charged!FeeCategory =
        ((((({} \cup {"Rebalancing"}) \cup {"Yield"}) \cup {"Management"}) \cup {"Trading"})
         \cup {"Protocol"}) \cup {"Custom"}
  BY DEF Charged!FeeCategory
<1>4. IsFiniteSet(Charged!FeeCategory)
  BY <1>1, <1>2, <1>3, Zenon
<1>5. IsFiniteSet(Portfolios)
  BY FeesAssumed, OperatorsAlike DEF Charged!FeesAssumption
<1> QED BY <1>4, <1>5

(* One more record adds its fee to the sums it belongs to, and to no other. *)
LEMMA FeeAdded ==
  ASSUME NEW h \in Seq(Charged!FeeRecord), NEW r \in Charged!FeeRecord
  PROVE  /\ DOMAIN h = 1..Len(h) /\ Len(h) \in Nat
         /\ DOMAIN Append(h, r) = DOMAIN h \cup {Len(h) + 1} /\ Len(Append(h, r)) = Len(h) + 1
         /\ \A c : InCategory(Append(h, r), c) =
              IF r.category = c THEN InCategory(h, c) \cup {Len(h) + 1} ELSE InCategory(h, c)
         /\ \A f : OfPortfolio(Append(h, r), f) =
              IF r.portfolio_id = f THEN OfPortfolio(h, f) \cup {Len(h) + 1} ELSE OfPortfolio(h, f)
         /\ \A S \in SUBSET (DOMAIN h) :
              /\ FeesAt(Append(h, r), S) = FeesAt(h, S)
              /\ FeesAt(Append(h, r), S \cup {Len(h) + 1}) = FeesAt(h, S) + r.fee_amount
<1> DEFINE g == Append(h, r)
           n == Len(h)
           F == [i \in DOMAIN h |-> h[i].fee_amount]
           G == [i \in DOMAIN g |-> g[i].fee_amount]
<1>1. n \in Nat /\ DOMAIN h = 1..n /\ \A i \in DOMAIN h : h[i] \in Charged!FeeRecord
  BY LenProperties, ElementOfSeq
<1>2. /\ Len(g) = n + 1 /\ DOMAIN g = 1..(n + 1) /\ g[n + 1] = r
      /\ \A i \in 1..n : g[i] = h[i]
  BY AppendProperties, LenProperties
<1> HIDE DEF g, n
<1>3. DOMAIN g = DOMAIN h \cup {n + 1} /\ n + 1 \notin DOMAIN h
  BY <1>1, <1>2
<1>4. \A c : InCategory(g, c) = IF r.category = c THEN InCategory(h, c) \cup {n + 1} ELSE InCategory(h, c)
  BY <1>1, <1>2, <1>3 DEF InCategory
<1>5. \A f : OfPortfolio(g, f) = IF r.portfolio_id = f THEN OfPortfolio(h, f) \cup {n + 1} ELSE OfPortfolio(h, f)
  BY <1>1, <1>2, <1>3 DEF OfPortfolio
<1>6. /\ \A i \in DOMAIN h : F[i] \in Int /\ G[i] = F[i]
      /\ G[n + 1] = r.fee_amount /\ r.fee_amount \in Int
  BY <1>1, <1>2, <1>3 DEF Charged!FeeRecord
<1>7. ASSUME NEW S \in SUBSET (DOMAIN h)
      PROVE  FeesAt(g, S) = FeesAt(h, S) /\ FeesAt(g, S \cup {n + 1}) = FeesAt(h, S) + r.fee_amount
  <2>1. IsFiniteSet(S)
    BY <1>1, KthInside
  <2>2. n + 1 \notin S /\ \A i \in S : F[i] \in Int /\ G[i] = F[i]
    BY <1>3, <1>6
  <2> HIDE DEF F, G
  <2>3. Summed(G, S) = Summed(F, S)
    BY <2>1, <2>2, SummedSame
  <2>4. \A i \in S \cup {n + 1} : G[i] \in Int
    BY <1>6, <2>2
  <2>5. Summed(G, S \cup {n + 1}) = Summed(G, S) + G[n + 1]
    BY <2>1, <2>2, <2>4, SummedMore
  <2> QED BY <1>6, <2>3, <2>5 DEF FeesAt, F, G
<1> QED BY <1>1, <1>2, <1>3, <1>4, <1>5, <1>7 DEF g, n

(* A running total with something added to one of its parts. *)
Raised(S, t, a, d, u) ==
  /\ IsFiniteSet(S) /\ t \in [S -> Int] /\ a \in S /\ d \in Int
  /\ u = [t EXCEPT ![a] = @ + d]

LEMMA PartRaised ==
  ASSUME NEW S, NEW t, NEW a, NEW d, NEW u, Raised(S, t, a, d, u)
  PROVE  u \in [S -> Int] /\ Summed(u, S) = Summed(t, S) + d
<1>1. u \in [S -> Int] /\ u[a] = t[a] + d /\ \A x \in S \ {a} : u[x] = t[x]
  BY DEF Raised
<1>2. \A x \in S : t[x] \in Int
  BY DEF Raised
<1>3. IsFiniteSet(S) /\ a \in S /\ d \in Int
  BY DEF Raised
<1>4. Summed(u, S) = Summed(t, S) + d
  BY <1>1, <1>2, <1>3, SummedShift
<1> QED BY <1>1, <1>4

LEMMA FeeCollected ==
  ASSUME FeesInv, NEW p \in People, NEW id \in FeeIds, NEW f \in Portfolios, NEW base \in Bases,
         Charged!CollectFee(p, id, f, base)
  PROVE  FeesInv'
<1> DEFINE w == Charged!ResolveForCollect(p, f)
           fee == Charged!ApplyDiscount(Charged!Gross(id, base), w)
           cat == feeStructure[id].category
           r == [fee_id |-> id, category |-> cat, portfolio_id |-> f, base_amount |-> base,
                 fee_amount |-> fee, discount_bps |-> w.discount_bps, waived |-> w.waived]
<1>1. base \in Int /\ Charged!Chargeable(id) /\ Charged!TypeOK
  BY FeesAssumed DEF Charged!FeesAssumption, Charged!CollectFee, FeesInv
<1>2. w \in Grants /\ fee \in Int /\ cat \in Charged!FeeCategory
  BY <1>1, ChargeTyped
<1>3. /\ feeHistory' = Charged!Remembered(r)
      /\ totalCollected' = totalCollected + fee
      /\ categoryTotal' = [categoryTotal EXCEPT ![cat] = @ + fee]
      /\ portfolioTotal' = [portfolioTotal EXCEPT ![f] = @ + fee]
      /\ UNCHANGED <<day, Charged!settings>>
  BY DEF Charged!CollectFee
<1> HIDE DEF w, fee, cat
<1>4. r \in Charged!FeeRecord
  BY <1>1, <1>2 DEF Charged!FeeRecord, Grants
<1>5. r.fee_amount = fee /\ r.category = cat /\ r.portfolio_id = f
  OBVIOUS
<1> HIDE DEF r
<1>6. /\ feeHistory' \in Seq(Charged!FeeRecord) /\ Len(feeHistory') <= MaxHistory
      /\ Len(feeHistory') < MaxHistory =>
           Len(feeHistory) < MaxHistory /\ feeHistory' = Append(feeHistory, r)
  BY <1>1, <1>3, <1>4, RecordRemembered
<1>7. /\ totalCollected \in Int /\ categoryTotal \in [Charged!FeeCategory -> Int]
      /\ portfolioTotal \in [Portfolios -> Int] /\ feeHistory \in Seq(Charged!FeeRecord)
  BY <1>1 DEF Charged!TypeOK
<1>8. /\ categoryTotal' \in [Charged!FeeCategory -> Int] /\ portfolioTotal' \in [Portfolios -> Int]
      /\ Summed(categoryTotal', Charged!FeeCategory) = Summed(categoryTotal, Charged!FeeCategory) + fee
      /\ Summed(portfolioTotal', Portfolios) = Summed(portfolioTotal, Portfolios) + fee
  <2>1. IsFiniteSet(Charged!FeeCategory) /\ IsFiniteSet(Portfolios)
    BY SixCategories
  <2>2. Raised(Charged!FeeCategory, categoryTotal, cat, fee, categoryTotal')
    BY <1>2, <1>3, <1>7, <2>1 DEF Raised
  <2>3. Raised(Portfolios, portfolioTotal, f, fee, portfolioTotal')
    BY <1>2, <1>3, <1>7, <2>1 DEF Raised
  <2> QED BY <2>2, <2>3, PartRaised
<1>9. totalCollected' \in Int
  BY <1>2, <1>3, <1>7
<1>10. Charged!TypeOK'
  BY <1>1, <1>3, <1>6, <1>8, <1>9 DEF Charged!TypeOK, Charged!settings
<1>11. LedgerTrue'
  <2>1. /\ totalCollected' = Summed(categoryTotal', Charged!FeeCategory)
        /\ totalCollected' = Summed(portfolioTotal', Portfolios)
    BY <1>3, <1>8 DEF FeesInv, LedgerTrue
  <2>2. ASSUME Len(feeHistory') < MaxHistory
        PROVE  /\ FeesAt(feeHistory', DOMAIN feeHistory') = totalCollected'
               /\ \A c \in Charged!FeeCategory : FeesAt(feeHistory', InCategory(feeHistory', c)) = categoryTotal'[c]
               /\ \A g \in Portfolios : FeesAt(feeHistory', OfPortfolio(feeHistory', g)) = portfolioTotal'[g]
    <3> DEFINE h == feeHistory
               n == Len(h) + 1
    <3>1. feeHistory' = Append(h, r)
      BY <1>6, <2>2
    <3>2. /\ FeesAt(h, DOMAIN h) = totalCollected
          /\ \A c \in Charged!FeeCategory : FeesAt(h, InCategory(h, c)) = categoryTotal[c]
          /\ \A g \in Portfolios : FeesAt(h, OfPortfolio(h, g)) = portfolioTotal[g]
      BY <1>6, <2>2 DEF FeesInv, LedgerTrue
    <3>3. /\ DOMAIN Append(h, r) = DOMAIN h \cup {n}
          /\ \A c : InCategory(Append(h, r), c) =
               IF r.category = c THEN InCategory(h, c) \cup {n} ELSE InCategory(h, c)
          /\ \A g : OfPortfolio(Append(h, r), g) =
               IF r.portfolio_id = g THEN OfPortfolio(h, g) \cup {n} ELSE OfPortfolio(h, g)
          /\ \A S \in SUBSET (DOMAIN h) :
               /\ FeesAt(Append(h, r), S) = FeesAt(h, S)
               /\ FeesAt(Append(h, r), S \cup {n}) = FeesAt(h, S) + fee
      BY <1>4, <1>5, <1>7, FeeAdded
    <3>4. /\ \A c : InCategory(h, c) \in SUBSET (DOMAIN h)
          /\ \A g : OfPortfolio(h, g) \in SUBSET (DOMAIN h)
          /\ DOMAIN h \in SUBSET (DOMAIN h)
      BY DEF InCategory, OfPortfolio
    <3> HIDE DEF h, n
    <3>5. FeesAt(Append(h, r), DOMAIN Append(h, r)) = totalCollected'
      BY <1>3, <3>2, <3>3, <3>4
    <3>6. ASSUME NEW c \in Charged!FeeCategory
          PROVE  FeesAt(Append(h, r), InCategory(Append(h, r), c)) = categoryTotal'[c]
      <4>1. categoryTotal'[c] = IF c = cat THEN categoryTotal[c] + fee ELSE categoryTotal[c]
        BY <1>2, <1>3, <1>7
      <4>2. InCategory(Append(h, r), c) = IF c = cat THEN InCategory(h, c) \cup {n} ELSE InCategory(h, c)
        BY <1>5, <3>3
      <4> QED BY <3>2, <3>3, <3>4, <4>1, <4>2
    <3>7. ASSUME NEW g \in Portfolios
          PROVE  FeesAt(Append(h, r), OfPortfolio(Append(h, r), g)) = portfolioTotal'[g]
      <4>1. portfolioTotal'[g] = IF g = f THEN portfolioTotal[g] + fee ELSE portfolioTotal[g]
        BY <1>3, <1>7
      <4>2. OfPortfolio(Append(h, r), g) = IF g = f THEN OfPortfolio(h, g) \cup {n} ELSE OfPortfolio(h, g)
        BY <1>5, <3>3
      <4> QED BY <3>2, <3>3, <3>4, <4>1, <4>2
    <3> QED BY <3>1, <3>5, <3>6, <3>7
  <2> QED BY <2>1, <2>2 DEF LedgerTrue
<1> QED BY <1>10, <1>11 DEF FeesInv

LEMMA FeesBegin == Charged!Init => FeesInv
<1> SUFFICES ASSUME Charged!Init PROVE FeesInv
  OBVIOUS
<1>1. Charged!TypeOK
  BY FeesAssumed, EmptySeq DEF Charged!Init, Charged!TypeOK, Charged!FeesAssumption
<1>2. IsFiniteSet(Charged!FeeCategory) /\ IsFiniteSet(Portfolios) /\ IsFiniteSet({})
  BY SixCategories, FS_EmptySet
<1>3. /\ feeHistory = <<>> /\ totalCollected = 0 /\ DOMAIN feeHistory = {}
      /\ \A c \in Charged!FeeCategory : categoryTotal[c] = 0
      /\ \A f \in Portfolios : portfolioTotal[f] = 0
  BY DEF Charged!Init
<1>4. Summed(categoryTotal, Charged!FeeCategory) = 0 /\ Summed(portfolioTotal, Portfolios) = 0
  BY <1>2, <1>3, SummedZero
<1>5. FeesAt(feeHistory, {}) = 0
  <2>1. \A f : Summed(f, {}) = 0
    BY <1>2, SummedZero
  <2> QED BY <2>1 DEF FeesAt
<1>6. \A c : InCategory(feeHistory, c) = {} /\ OfPortfolio(feeHistory, c) = {}
  BY <1>3 DEF InCategory, OfPortfolio
<1>7. LedgerTrue
  BY <1>3, <1>4, <1>5, <1>6 DEF LedgerTrue
<1> QED BY <1>1, <1>7 DEF FeesInv

LEMMA LedgerKept ==
  ASSUME FeesInv, UNCHANGED Charged!ledger, Charged!TypeOK'
  PROVE  FeesInv'
<1>1. LedgerTrue'
  BY DEF FeesInv, LedgerTrue, Charged!ledger
<1> QED BY <1>1 DEF FeesInv

LEMMA StructureKept ==
  ASSUME FeesInv, NEW id \in FeeIds, NEW fs \in Charged!FeeStructure,
         feeStructure' = [feeStructure EXCEPT ![id] = fs],
         UNCHANGED <<day, feeAdmin, portfolioFee, waivers, recipients, Charged!ledger>>
  PROVE  FeesInv'
<1>1. feeStructure' \in [FeeIds -> Charged!FeeStructure \cup {None}]
  BY DEF FeesInv, Charged!TypeOK
<1>2. Charged!TypeOK'
  BY <1>1 DEF FeesInv, Charged!TypeOK, Charged!ledger
<1> QED BY <1>2, LedgerKept DEF Charged!ledger

LEMMA SettingsKept ==
  ASSUME FeesInv, UNCHANGED <<day, Charged!ledger>>,
         feeAdmin' \in People, feeStructure' \in [FeeIds -> Charged!FeeStructure \cup {None}],
         portfolioFee' \in [Portfolios -> FeeIds \cup {None}],
         waivers' \in Seq(Charged!FeeWaiver),
         recipients' \in Seq(Charged!RevenueRecipient), Len(recipients') <= MaxRecipients
  PROVE  FeesInv'
<1>1. Charged!TypeOK'
  BY DEF FeesInv, Charged!TypeOK, Charged!ledger
<1> QED BY <1>1, LedgerKept

LEMMA WaiverSet ==
  ASSUME FeesInv, NEW p \in People, NEW w, w.discount_bps \in 0..Charged!BpsDenom => w \in Charged!FeeWaiver,
         Charged!SetFeeWaiver(p, w)
  PROVE  FeesInv'
<1> DEFINE same == {i \in DOMAIN waivers : Charged!SameTarget(waivers[i], w)}
<1>1. w \in Charged!FeeWaiver
  BY DEF Charged!SetFeeWaiver
<1>2. Charged!TypeOK
  BY DEF FeesInv
<1>3. /\ waivers \in Seq(Charged!FeeWaiver) /\ Len(waivers) \in Nat /\ DOMAIN waivers = 1..Len(waivers)
      /\ \A i \in DOMAIN waivers : waivers[i] \in Charged!FeeWaiver
  BY <1>2, WaiversListed
<1>4. waivers' \in Seq(Charged!FeeWaiver)
  <2>1. CASE same = {}
    <3>1. waivers' = Append(waivers, w)
      BY <2>1 DEF Charged!SetFeeWaiver
    <3> QED BY <1>1, <1>3, <3>1, AppendProperties
  <2>2. CASE same # {}
    <3>1. Charged!Min(same) \in same
      <4>1. same \in SUBSET (1..Len(waivers))
        BY <1>3
      <4> HIDE DEF same
      <4> QED BY <1>3, <2>2, <4>1, EndInside
    <3>2. waivers' = [waivers EXCEPT ![Charged!Min(same)] = w]
      BY <2>2 DEF Charged!SetFeeWaiver
    <3>3. waivers' \in [1..Len(waivers) -> Charged!FeeWaiver]
      <4> DEFINE m == Charged!Min(same)
      <4>1. m \in DOMAIN waivers
        BY <3>1
      <4> HIDE DEF m
      <4> QED BY <1>1, <1>3, <3>2, <4>1 DEF m
    <3> QED BY <1>3, <3>3, SeqDef
  <2> QED BY <2>1, <2>2
<1>5. UNCHANGED <<day, feeAdmin, feeStructure, portfolioFee, recipients, Charged!ledger>>
  BY DEF Charged!SetFeeWaiver
<1> QED BY <1>4, <1>5, SettingsKept DEF FeesInv, Charged!TypeOK

LEMMA WaiverRemoved ==
  ASSUME FeesInv, NEW p \in People, NEW a, NEW f, Charged!RemoveFeeWaiver(p, a, f)
  PROVE  FeesInv'
<1> DEFINE kept == {i \in DOMAIN waivers :
                      ~Charged!SameTarget(waivers[i], [address |-> a, portfolio |-> f])}
<1>1. waivers \in Seq(Charged!FeeWaiver)
  BY DEF FeesInv, Charged!TypeOK
<1>2. waivers' = [k \in 1..Cardinality(kept) |-> waivers[Kth(kept, k)]]
  BY OperatorsAlike DEF Charged!RemoveFeeWaiver, Charged!Kept
<1>3. waivers' \in Seq(Charged!FeeWaiver)
  <2>1. kept \in SUBSET (DOMAIN waivers)
    OBVIOUS
  <2> HIDE DEF kept
  <2> QED BY <1>1, <1>2, <2>1, Selected
<1>5. UNCHANGED <<day, feeAdmin, feeStructure, portfolioFee, recipients, Charged!ledger>>
  BY DEF Charged!RemoveFeeWaiver
<1> QED BY <1>3, <1>5, SettingsKept DEF FeesInv, Charged!TypeOK

LEMMA FeesStep ==
  ASSUME FeesInv, [Charged!Next]_(Charged!vars)
  PROVE  FeesInv'
<1> USE FeesAssumed DEF Charged!FeesAssumption
<1>1. CASE UNCHANGED Charged!vars
  BY <1>1, SettingsKept DEF Charged!vars, Charged!settings, FeesInv, Charged!TypeOK
<1>2. CASE Charged!Tick
  <2>1. Charged!TypeOK'
    BY <1>2 DEF Charged!Tick, Charged!settings, Charged!ledger, FeesInv, Charged!TypeOK
  <2> QED BY <1>2, <2>1, LedgerKept DEF Charged!Tick
<1>3. ASSUME NEW p \in People, NEW q \in People, Charged!TransferAdmin(p, q)
      PROVE  FeesInv'
  BY <1>3, SettingsKept DEF Charged!TransferAdmin, FeesInv, Charged!TypeOK
<1>4. ASSUME NEW p \in People, NEW rs \in Recipients, Charged!SetRevenueRecipients(p, rs)
      PROVE  FeesInv'
  BY <1>4, SettingsKept DEF Charged!SetRevenueRecipients, FeesInv, Charged!TypeOK
<1>5. ASSUME NEW p \in People, NEW a \in People \cup {None}, NEW f \in Portfolios \cup {None},
             Charged!RemoveFeeWaiver(p, a, f)
      PROVE  FeesInv'
  BY <1>5, WaiverRemoved
<1>6. ASSUME NEW p \in People, NEW a \in People \cup {None}, NEW f \in Portfolios \cup {None},
             NEW t \in WaiverTerms,
             Charged!SetFeeWaiver(p, [address |-> a, portfolio |-> f, discount_bps |-> t.discount_bps,
                                      waived |-> t.waived, expires_at |-> t.expires_at])
      PROVE  FeesInv'
  <2> DEFINE w == [address |-> a, portfolio |-> f, discount_bps |-> t.discount_bps,
                   waived |-> t.waived, expires_at |-> t.expires_at]
  <2>1. t.waived \in BOOLEAN /\ t.expires_at \in Nat
    BY <1>6
  <2>2. w.discount_bps \in 0..Charged!BpsDenom => w \in Charged!FeeWaiver
    BY <1>6, <2>1 DEF Charged!FeeWaiver
  <2> HIDE DEF w
  <2> QED BY <1>6, <2>2, WaiverSet DEF w
<1>7. ASSUME NEW p \in People, NEW f \in Portfolios, Charged!RemovePortfolioFee(p, f)
      PROVE  FeesInv'
  BY <1>7, SettingsKept DEF Charged!RemovePortfolioFee, FeesInv, Charged!TypeOK
<1>8. ASSUME NEW p \in People, NEW id \in FeeIds, NEW fs \in Structures, Charged!SetFeeStructure(p, id, fs)
      PROVE  FeesInv'
  BY <1>8, StructureKept DEF Charged!SetFeeStructure
<1>9. ASSUME NEW p \in People, NEW id \in FeeIds, NEW active \in BOOLEAN, Charged!SetFeeActive(p, id, active)
      PROVE  FeesInv'
  <2> DEFINE fs == [feeStructure[id] EXCEPT !.active = active]
  <2>1. feeStructure[id] \in Charged!FeeStructure
    BY <1>9 DEF Charged!SetFeeActive, FeesInv, Charged!TypeOK
  <2>2. fs \in Charged!FeeStructure
    BY <2>1 DEF Charged!FeeStructure
  <2>3. feeStructure' = [feeStructure EXCEPT ![id] = fs]
    BY <1>9 DEF Charged!SetFeeActive
  <2> HIDE DEF fs
  <2> QED BY <1>9, <2>2, <2>3, StructureKept DEF Charged!SetFeeActive
<1>10. ASSUME NEW p \in People, NEW id \in FeeIds, NEW cap \in Caps, Charged!SetFeeCap(p, id, cap)
       PROVE  FeesInv'
  <2> DEFINE fs == [feeStructure[id] EXCEPT !.fee_cap = cap]
  <2>1. feeStructure[id] \in Charged!FeeStructure
    BY <1>10 DEF Charged!SetFeeCap, FeesInv, Charged!TypeOK
  <2>2. fs \in Charged!FeeStructure
    BY <2>1 DEF Charged!FeeStructure
  <2>3. feeStructure' = [feeStructure EXCEPT ![id] = fs]
    BY <1>10 DEF Charged!SetFeeCap
  <2> HIDE DEF fs
  <2> QED BY <1>10, <2>2, <2>3, StructureKept DEF Charged!SetFeeCap
<1>11. ASSUME NEW p \in People, NEW id \in FeeIds, NEW f \in Portfolios, Charged!SetPortfolioFee(p, f, id)
       PROVE  FeesInv'
  BY <1>11, SettingsKept DEF Charged!SetPortfolioFee, FeesInv, Charged!TypeOK
<1>12. ASSUME NEW p \in People, NEW id \in FeeIds, NEW f \in Portfolios, NEW base \in Bases,
              Charged!CollectFee(p, id, f, base)
       PROVE  FeesInv'
  BY <1>12, FeeCollected
<1> QED BY <1>1, <1>2, <1>3, <1>4, <1>5, <1>6, <1>7, <1>8, <1>9, <1>10, <1>11, <1>12
    DEF Charged!Next

(* A summary and the portfolio reports of a whole history tell the totals. *)
LEMMA ReportsAgree ==
  ASSUME FeesInv, Len(feeHistory) < MaxHistory
  PROVE  /\ Charged!FeeSummary(feeHistory).total_collected = totalCollected
         /\ Charged!FeeSummary(feeHistory).by_category =
              Charged!Restrict(categoryTotal, {c \in Charged!FeeCategory : categoryTotal[c] > 0})
         /\ \A f \in Portfolios :
              Charged!PortfolioReport(f, feeHistory).total_fees = portfolioTotal[f]
<1> DEFINE h == feeHistory
           all == DOMAIN h
           sum == [c \in Charged!FeeCategory |->
                     Charged!Collected(h, {i \in all : h[i].category = c})]
<1>1. /\ FeesAt(h, DOMAIN h) = totalCollected
      /\ \A c \in Charged!FeeCategory : FeesAt(h, InCategory(h, c)) = categoryTotal[c]
      /\ \A f \in Portfolios : FeesAt(h, OfPortfolio(h, f)) = portfolioTotal[f]
  BY DEF FeesInv, LedgerTrue
<1>2. \A S : Charged!Collected(h, S) = FeesAt(h, S)
  BY FeesSumsAlike DEF Charged!Collected, FeesAt
<1>3. Charged!FeeSummary(h).total_collected = totalCollected
  BY <1>1, <1>2 DEF Charged!FeeSummary
<1>4. categoryTotal \in [Charged!FeeCategory -> Int]
  BY DEF FeesInv, Charged!TypeOK
<1>5. sum = categoryTotal
  <2>1. \A c \in Charged!FeeCategory : sum[c] = categoryTotal[c]
    BY <1>1, <1>2 DEF InCategory
  <2> QED BY <1>4, <2>1
<1>6. Charged!ByCategory(h, all) =
        Charged!Restrict(sum, {c \in Charged!FeeCategory : sum[c] > 0})
  BY DEF Charged!ByCategory
<1>7. Charged!FeeSummary(h).by_category = Charged!ByCategory(h, all)
  BY DEF Charged!FeeSummary
<1>8. ASSUME NEW f \in Portfolios
      PROVE  Charged!PortfolioReport(f, h).total_fees = portfolioTotal[f]
  BY <1>1, <1>2 DEF Charged!PortfolioReport, OfPortfolio
<1> HIDE DEF sum
<1> QED BY <1>3, <1>5, <1>6, <1>7, <1>8

(* What is distributed of an amount adds up to it. *)
LEMMA WholeShared ==
  ASSUME Charged!TypeOK, NEW amount \in Int, Charged!Distributed(amount) # <<>>
  PROVE  Charged!SumFunction(Charged!Distributed(amount)) = amount
<1> DEFINE n == Len(recipients)
           share == [i \in DOMAIN recipients |-> recipients[i].share]
           shares == Charged!SumFunction(share)
           parts == [i \in DOMAIN recipients |-> (recipients[i].share * amount) \div shares]
           rest == amount - Charged!SumFunction(parts)
           whole == [parts EXCEPT ![1] = @ + amount - Charged!SumFunction(parts)]
<1>1. Charged!Distributed(amount) = whole /\ shares # 0
  BY DEF Charged!Distributed
<1>2. /\ DOMAIN recipients = 1..n /\ n \in Nat
      /\ \A i \in 1..n : recipients[i].share \in Nat
  <2>1. recipients \in Seq(Charged!RevenueRecipient)
    BY DEF Charged!TypeOK
  <2>2. /\ DOMAIN recipients = 1..n /\ n \in Nat
        /\ \A i \in 1..n : recipients[i] \in Charged!RevenueRecipient
    BY <2>1, LenProperties, ElementOfSeq
  <2> QED BY <2>2 DEF Charged!RevenueRecipient
<1>3. IsFiniteSet(1..n) /\ IsFiniteSet({})
  <2>1. 1 \in Int /\ n \in Int
    BY <1>2
  <2> QED BY <2>1, FS_Interval, FS_EmptySet
<1>4. DOMAIN share = 1..n /\ \A i \in 1..n : share[i] \in Nat
  BY <1>2
<1>5. shares = Summed(share, 1..n)
  BY <1>4, FeesSumAlike
<1>6. shares \in Nat
  <2> HIDE DEF share, shares
  <2> QED BY <1>3, <1>4, <1>5, SummedNat
<1>7. 1 \in 1..n
  <2>1. \A f : Summed(f, {}) = 0
    BY <1>3, SummedZero
  <2>2. 1..n # {}
    BY <1>1, <1>5, <2>1
  <2> QED BY <1>2, <2>2
<1> HIDE DEF share, shares
<1>8. DOMAIN parts = 1..n /\ \A i \in 1..n : parts[i] \in Int
  <2>1. DOMAIN parts = 1..n
    BY <1>2
  <2>2. ASSUME NEW i \in 1..n PROVE parts[i] \in Int
    <3>1. recipients[i].share * amount \in Int
      BY <1>2
    <3>2. parts[i] = (recipients[i].share * amount) \div shares
      BY <1>2
    <3> QED BY <1>1, <1>6, <3>1, <3>2
  <2> QED BY <2>1, <2>2
<1> HIDE DEF parts
<1>9. Charged!SumFunction(parts) = Summed(parts, 1..n) /\ Summed(parts, 1..n) \in Int
  BY <1>3, <1>8, FeesSumAlike, SummedIsInt
<1>10. /\ DOMAIN whole = 1..n /\ whole[1] = parts[1] + rest
       /\ \A i \in (1..n) \ {1} : whole[i] = parts[i]
  BY <1>7, <1>8, <1>9
<1>11. rest \in Int /\ Summed(parts, 1..n) + rest = amount
  BY <1>9
<1> HIDE DEF whole, rest
<1>12. Summed(whole, 1..n) = Summed(parts, 1..n) + rest
  BY <1>3, <1>7, <1>8, <1>10, <1>11, SummedShift
<1>13. Charged!SumFunction(whole) = Summed(whole, 1..n)
  BY <1>10, FeesSumAlike
<1> QED BY <1>1, <1>11, <1>12, <1>13

LEMMA FeesAreAccounted == FeesInv => Charged!FeesAccounted
<1> SUFFICES ASSUME FeesInv PROVE Charged!FeesAccounted
  OBVIOUS
<1>1. Charged!TypeOK
  BY DEF FeesInv
<1>2. /\ DOMAIN categoryTotal = Charged!FeeCategory /\ DOMAIN portfolioTotal = Portfolios
      /\ totalCollected = Summed(categoryTotal, Charged!FeeCategory)
      /\ totalCollected = Summed(portfolioTotal, Portfolios)
  BY DEF FeesInv, LedgerTrue, Charged!TypeOK
<1>3. totalCollected = Charged!SumFunction(categoryTotal) /\ totalCollected = Charged!SumFunction(portfolioTotal)
  BY <1>2, FeesSumAlike
<1>4. ASSUME NEW i \in DOMAIN feeHistory, Charged!Distributed(feeHistory[i].fee_amount) # <<>>
      PROVE  Charged!SumFunction(Charged!Distributed(feeHistory[i].fee_amount)) = feeHistory[i].fee_amount
  <2>1. feeHistory[i] \in Charged!FeeRecord
    BY <1>1, HistoryListed
  <2>2. feeHistory[i].fee_amount \in Int
    BY <2>1 DEF Charged!FeeRecord
  <2> QED BY <1>1, <1>4, <2>2, WholeShared
<1> QED BY <1>3, <1>4, ReportsAgree DEF Charged!FeesAccounted

(* What is quoted is what is charged and recorded. *)
LEMMA QuoteCharged ==
  ASSUME Charged!TypeOK, NEW p \in People, NEW id \in FeeIds, NEW f \in Portfolios, NEW base \in Bases,
         Charged!CollectFee(p, id, f, base), portfolioFee[f] \in {None, id},
         \A i \in DOMAIN waivers : Charged!WaiverActive(waivers[i]) => waivers[i].address # p
  PROVE  Charged!Last(feeHistory').fee_amount = Charged!EstimateFee(id, f, base)
<1> DEFINE w == Charged!ResolveForCollect(p, f)
           fee == Charged!ApplyDiscount(Charged!Gross(id, base), w)
           cat == feeStructure[id].category
           r == [fee_id |-> id, category |-> cat, portfolio_id |-> f, base_amount |-> base,
                 fee_amount |-> fee, discount_bps |-> w.discount_bps, waived |-> w.waived]
<1>1. base \in Int /\ Charged!Chargeable(id)
  BY FeesAssumed DEF Charged!FeesAssumption, Charged!CollectFee
<1>2. w \in Grants /\ fee \in Int /\ cat \in Charged!FeeCategory
  BY <1>1, ChargeTyped
<1>3. feeHistory' = Charged!Remembered(r)
  BY DEF Charged!CollectFee
<1>4. w = Charged!ResolveForPortfolio(f)
  <2>1. {i \in DOMAIN waivers : Charged!WaiverActive(waivers[i])
                                /\ (waivers[i].address = p \/ waivers[i].portfolio = f)}
        = {i \in DOMAIN waivers : Charged!WaiverActive(waivers[i]) /\ waivers[i].portfolio = f}
    OBVIOUS
  <2> QED BY <2>1 DEF Charged!ResolveForCollect, Charged!ResolveForPortfolio
<1>5. Charged!QuotedId(id, f) = id
  BY DEF Charged!QuotedId
<1>6. fee = Charged!EstimateFee(id, f, base)
  BY <1>4, <1>5 DEF Charged!EstimateFee
<1> HIDE DEF w, fee, cat
<1>7. r \in Charged!FeeRecord /\ r.fee_amount = fee
  BY <1>1, <1>2 DEF Charged!FeeRecord, Grants
<1> HIDE DEF r
<1>8. Charged!Last(Charged!Remembered(r)) = r
  BY <1>7, RecordRemembered
<1> QED BY <1>3, <1>6, <1>7, <1>8

-----------------------------------------------------------------------------
(* GAMIFICATION *)

LEMMA GameAssumed == Rewarded!GamificationAssumption
BY ServicesAssumption

LEMMA GameOperatorsAlike ==
  /\ \A P, k : Rewarded!Kth(P, k) = Kth(P, k)
  /\ \A S : Rewarded!Cardinality(S) = Cardinality(S)
  /\ \A s : Rewarded!ToSet(s) = {s[i] : i \in DOMAIN s}
  /\ \A S : Rewarded!Min(S) = Charged!Min(S) /\ Rewarded!Max(S) = Charged!Max(S)
<1>1. \A S : Rewarded!Cardinality(S) = Cardinality(S)
  BY Zenon DEF Cardinality, Rewarded!Cardinality, IsFiniteSet, Rewarded!IsFiniteSet
<1> QED BY <1>1 DEF Rewarded!Kth, Kth, Rewarded!ToSet, Rewarded!Min, Rewarded!Max, Charged!Min, Charged!Max

Lower(a, b) == IF a <= b THEN a ELSE b
Higher(a, b) == IF a >= b THEN a ELSE b

LEMMA GameEnds ==
  ASSUME NEW a \in Int, NEW b \in Int
  PROVE  Rewarded!Min({a, b}) = Lower(a, b) /\ Rewarded!Max({a, b}) = Higher(a, b)
BY EndOfTwo, GameOperatorsAlike DEF Lower, Higher

LEMMA Capped ==
  ASSUME NEW n \in Nat, NEW m \in Nat
  PROVE  Rewarded!Min({n, m}) \in 0..m
<1>1. n \in Int /\ m \in Int
  OBVIOUS
<1>2. Rewarded!Min({n, m}) = Lower(n, m)
  BY <1>1, GameEnds
<1> QED BY <1>2 DEF Lower

(* A score is between 0 and 100, and a tier goes with it. *)
LEMMA ScoreTyped ==
  ASSUME NEW s \in Rewarded!Stats
  PROVE  Rewarded!TotalScore(s) \in 0..100 /\ Rewarded!TierOf(Rewarded!TotalScore(s)) \in Rewarded!Tier
<1>1. /\ s.successful_trades \in Nat /\ s.best_roi_bps \in Int /\ s.best_streak \in Nat
      /\ s.modules_completed \in Nat /\ s.total_modules \in Nat /\ s.community_actions \in Nat
  BY DEF Rewarded!Stats
<1>2. Rewarded!TradeScore(s.successful_trades) \in 0..30
  <2>1. 2 * s.successful_trades \in Nat /\ 30 \in Nat
    BY <1>1
  <2> QED BY <2>1, Capped DEF Rewarded!TradeScore
<1>3. Rewarded!RoiScore(s.best_roi_bps) \in 0..30
  <2>1. CASE s.best_roi_bps <= 0
    BY <2>1 DEF Rewarded!RoiScore
  <2>2. CASE ~(s.best_roi_bps <= 0)
    <3> DEFINE part == (s.best_roi_bps * 30) \div 10000
    <3>1. part \in Nat /\ 30 \in Nat
      BY <1>1, <2>2
    <3>2. Rewarded!RoiScore(s.best_roi_bps) = Rewarded!Min({part, 30})
      BY <2>2 DEF Rewarded!RoiScore
    <3> HIDE DEF part
    <3> QED BY <3>1, <3>2, Capped
  <2> QED BY <2>1, <2>2
<1>4. Rewarded!StreakScore(s.best_streak) \in 0..15
  <2>1. 3 * s.best_streak \in Nat /\ 15 \in Nat
    BY <1>1
  <2> QED BY <2>1, Capped DEF Rewarded!StreakScore
<1>5. Rewarded!LearnScore(s.modules_completed, s.total_modules) \in 0..15
  <2>1. CASE s.total_modules = 0
    BY <2>1 DEF Rewarded!LearnScore
  <2>2. CASE s.total_modules # 0
    <3> DEFINE part == (s.modules_completed * 15) \div s.total_modules
    <3>1. part \in Nat /\ 15 \in Nat
      <4>1. s.modules_completed * 15 \in Nat
        BY <1>1
      <4>2. \A m, n \in Nat : n # 0 => m \div n \in Nat
        OBVIOUS
      <4> QED BY <1>1, <2>2, <4>1, <4>2
    <3>2. Rewarded!LearnScore(s.modules_completed, s.total_modules) = Rewarded!Min({part, 15})
      BY <2>2 DEF Rewarded!LearnScore
    <3> HIDE DEF part
    <3> QED BY <3>1, <3>2, Capped
  <2> QED BY <2>1, <2>2
<1>6. Rewarded!CommunityScore(s.community_actions) \in 0..10
  <2>1. 2 * s.community_actions \in Nat /\ 10 \in Nat
    BY <1>1
  <2> QED BY <2>1, Capped DEF Rewarded!CommunityScore
<1>7. Rewarded!TotalScore(s) \in 0..100
  BY <1>2, <1>3, <1>4, <1>5, <1>6 DEF Rewarded!TotalScore
<1>8. \A n \in 0..100 : Rewarded!TierOf(n) \in Rewarded!Tier
  BY DEF Rewarded!TierOf, Rewarded!Tier
<1> QED BY <1>7, <1>8

(* Statistics with another number in them are statistics. *)
LEMMA StatsEdited ==
  ASSUME NEW s \in Rewarded!Stats, NEW n \in Nat, NEW k \in 0..100, NEW t \in Rewarded!Tier
  PROVE  /\ [s EXCEPT !.modules_completed = n] \in Rewarded!Stats
         /\ [s EXCEPT !.community_actions = n] \in Rewarded!Stats
         /\ [s EXCEPT !.challenges_won = n] \in Rewarded!Stats
         /\ [s EXCEPT !.total_score = k, !.tier = t] \in Rewarded!Stats
         /\ [s EXCEPT !.total_score = k, !.tier = t].total_score = k
BY DEF Rewarded!Stats

LEMMA TradeCounted ==
  ASSUME NEW s \in Rewarded!Stats, NEW trade \in Rewarded!Trades
  PROVE  Rewarded!Traded(s, trade) \in Rewarded!Stats
<1>1. /\ s.trade_count \in Nat /\ s.successful_trades \in Nat /\ s.current_streak \in Nat
      /\ s.best_streak \in Nat /\ s.best_roi_bps \in Int
  BY DEF Rewarded!Stats
<1>2. trade.roi_bps \in Int
  BY DEF Rewarded!Trades
<1> DEFINE streak == IF trade.successful THEN s.current_streak + 1 ELSE 0
           more == s.successful_trades + (IF trade.successful THEN 1 ELSE 0)
           longest == Rewarded!Max({s.best_streak, streak})
           best == Rewarded!Max({s.best_roi_bps, trade.roi_bps})
<1>3. streak \in Nat /\ more \in Nat /\ s.trade_count + 1 \in Nat
  BY <1>1
<1>4. longest \in Nat
  <2> HIDE DEF streak
  <2>1. streak \in Int /\ s.best_streak \in Int
    BY <1>1, <1>3
  <2> QED BY <1>1, <1>3, <2>1, GameEnds DEF Higher
<1>5. best \in Int
  BY <1>1, <1>2, GameEnds DEF Higher
<1>6. Rewarded!Traded(s, trade) =
        [s EXCEPT !.trade_count = s.trade_count + 1, !.successful_trades = more,
                  !.current_streak = streak, !.best_streak = longest, !.best_roi_bps = best]
  BY DEF Rewarded!Traded
<1> HIDE DEF streak, more, longest, best
<1> QED BY <1>3, <1>4, <1>5, <1>6 DEF Rewarded!Stats

(* Who has statistics keeps some; the next in the list of players has some. *)
NoneLeaves == \A v \in People : stats[v] # None => stats'[v] # None

Joined ==
  /\ NoneLeaves
  /\ players' = players \/ \E u \in People : /\ ~Rewarded!Contains(players, u)
                                           /\ players' = Append(players, u) /\ stats'[u] # None

(* A player whose statistics change keeps them in step with its score. *)
LEMMA Rescored ==
  ASSUME Rewarded!TypeOK, NEW u \in People, NEW s \in Rewarded!Stats, Rewarded!Rescore(u, s)
  PROVE  /\ stats' \in [People -> Rewarded!Stats \cup {None}] /\ score' \in [People -> 0..100]
         /\ \A v \in People : score'[v] = IF stats'[v] = None THEN 0 ELSE stats'[v].total_score
         /\ NoneLeaves
<1> DEFINE k == Rewarded!TotalScore(s)
           r == [s EXCEPT !.total_score = k, !.tier = Rewarded!TierOf(k)]
<1>1. k \in 0..100 /\ r \in Rewarded!Stats /\ r.total_score = k
  BY ScoreTyped, StatsEdited
<1>2. stats' = [stats EXCEPT ![u] = r] /\ score' = [score EXCEPT ![u] = k]
  BY DEF Rewarded!Rescore
<1>3. /\ stats \in [People -> Rewarded!Stats \cup {None}] /\ score \in [People -> 0..100]
      /\ \A v \in People : score[v] = IF stats[v] = None THEN 0 ELSE stats[v].total_score
  BY DEF Rewarded!TypeOK
<1>4. None \notin Rewarded!Stats
  BY GameAssumed DEF Rewarded!GamificationAssumption
<1> HIDE DEF k, r
<1>5. NoneLeaves
  BY <1>1, <1>2, <1>3, <1>4 DEF NoneLeaves
<1> QED BY <1>1, <1>2, <1>3, <1>4, <1>5

(* The statistics after a batch of trades. *)
LEMMA BatchCounted ==
  ASSUME NEW s \in Rewarded!Stats, NEW trades \in Seq(Rewarded!Trades)
  PROVE  Rewarded!TradedAll(s, trades) \in Rewarded!Stats
<1> DEFINE n == Len(trades)
           Body(f) == [i \in 0..n |-> IF i = 0 THEN s ELSE Rewarded!Traded(f[i - 1], trades[i])]
           step == [p \in (1..n) \X Rewarded!Stats |-> Rewarded!Traded(p[2], trades[p[1]])]
           after == CHOOSE f : f = Body(f)
<1>1. n \in Nat /\ \A i \in 1..n : trades[i] \in Rewarded!Trades
  OBVIOUS
<1>2. step \in [(1..n) \X Rewarded!Stats -> Rewarded!Stats]
  BY <1>1, TradeCounted
<1>3. PICK g : Runs(g, n, Rewarded!Stats, s, step)
  <2> HIDE DEF step, n
  <2> QED BY <1>1, <1>2, Iterates
<1>4. g = Body(g)
  <2>1. g \in [0..n -> Rewarded!Stats] /\ g[0] = s /\ \A i \in 1..n : g[i] = step[<<i, g[i - 1]>>]
    BY <1>3 DEF Runs
  <2>2. ASSUME NEW i \in 1..n PROVE g[i] = Rewarded!Traded(g[i - 1], trades[i])
    <3>1. <<i, g[i - 1]>> \in (1..n) \X Rewarded!Stats
      <4>1. i - 1 \in 0..n
        BY <1>1
      <4> HIDE DEF n
      <4> QED BY <2>1, <4>1
    <3> QED BY <2>1, <3>1
  <2>3. \A i \in 0..n : g[i] = Body(g)[i]
    BY <1>1, <2>1, <2>2
  <2>4. g = [i \in 0..n |-> g[i]]
    BY <2>1
  <2> HIDE DEF n
  <2> QED BY <2>3, <2>4
<1>5. Rewarded!TradedAll(s, trades) = after[n]
  BY DEF Rewarded!TradedAll
<1>6. after = Body(after)
  <2> HIDE DEF Body
  <2> QED BY <1>4, Zenon
<1> HIDE DEF after
<1>7. after[0] = s /\ \A i \in 1..n : after[i] = Rewarded!Traded(after[i - 1], trades[i])
  <2> DEFINE E(i) == IF i = 0 THEN s ELSE Rewarded!Traded(after[i - 1], trades[i])
  <2>1. after = [i \in 0..n |-> E(i)]
    BY <1>6
  <2> HIDE DEF E, n
  <2>2. \A i \in 0..n : after[i] = E(i)
    BY <2>1
  <2> USE DEF E
  <2>3. after[0] = s
    BY <1>1, <2>2
  <2>4. ASSUME NEW i \in 1..n PROVE after[i] = Rewarded!Traded(after[i - 1], trades[i])
    <3>1. i \in 0..n /\ i # 0
      BY <1>1
    <3> QED BY <2>2, <3>1
  <2> QED BY <2>3, <2>4
<1> DEFINE S == {i \in 0..n : after[i] \in Rewarded!Stats}
<1>8. 0 \in S
  BY <1>1, <1>7
<1>9. ASSUME NEW i \in 0..n, i < n, i \in S PROVE i + 1 \in S
  <2>1. i + 1 \in 1..n /\ i + 1 \in 0..n /\ i + 1 - 1 = i
    BY <1>1, <1>9
  <2>2. after[i + 1] = Rewarded!Traded(after[i], trades[i + 1])
    BY <1>7, <2>1
  <2>3. trades[i + 1] \in Rewarded!Trades
    BY <1>1, <2>1
  <2> HIDE DEF n
  <2> QED BY <1>9, <2>1, <2>2, <2>3, TradeCounted
<1>10. 0..n \subseteq S
  <2> HIDE DEF S, n
  <2> QED BY <1>1, <1>8, <1>9, CountUp
<1> QED BY <1>1, <1>5, <1>10

-----------------------------------------------------------------------------
(* Payments *)

Purses == [pool : Int, had : Int]

(* A purse after payments from another: what left the pool is what is had,  *)
(* and nothing is had of a pool that does not hold it.                      *)
PaidFrom(before, after) ==
  /\ after \in Purses
  /\ after.had - before.had = before.pool - after.pool
  /\ after.had >= before.had
  /\ after.had # before.had => after.pool >= 0

LEMMA PaidOnce ==
  ASSUME NEW p \in Purses, NEW q, PaidFrom(p, q), NEW reward \in Int
  PROVE  PaidFrom(p, Rewarded!Paid(q, reward))
<1>1. p.pool \in Int /\ p.had \in Int /\ q.pool \in Int /\ q.had \in Int
  BY DEF PaidFrom, Purses
<1>2. CASE reward > 0 /\ q.pool >= reward
  <2> DEFINE r == [pool |-> q.pool - reward, had |-> q.had + reward]
  <2>1. Rewarded!Paid(q, reward) = r
    BY <1>2 DEF Rewarded!Paid
  <2>2. r \in Purses /\ r.pool = q.pool - reward /\ r.had = q.had + reward
    BY <1>1 DEF Purses
  <2> HIDE DEF r
  <2>3. r.had - p.had = p.pool - r.pool /\ r.had >= p.had /\ r.pool >= 0
    BY <1>1, <1>2, <2>2 DEF PaidFrom
  <2> QED BY <2>1, <2>2, <2>3 DEF PaidFrom
<1>3. CASE ~(reward > 0 /\ q.pool >= reward)
  BY <1>3 DEF Rewarded!Paid
<1> QED BY <1>2, <1>3

LEMMA PaidNone ==
  ASSUME NEW p \in Purses PROVE PaidFrom(p, p)
BY DEF PaidFrom, Purses

LEMMA PaidInTurn ==
  ASSUME NEW p \in Purses, NEW ids, Len(ids) \in Nat,
         \A id : Rewarded!BadgeReward(id) \in Int
  PROVE  /\ PaidFrom(p, Rewarded!PaidAll(p, ids))
         /\ Len(ids) = 0 => Rewarded!PaidAll(p, ids) = p
<1> DEFINE n == Len(ids)
           Worth(i) == Rewarded!BadgeReward(ids[i])
           Body(f) == [i \in 0..n |-> IF i = 0 THEN p ELSE Rewarded!Paid(f[i - 1], Worth(i))]
           step == [x \in (1..n) \X Purses |-> Rewarded!Paid(x[2], Worth(x[1]))]
           after == CHOOSE f : f = Body(f)
<1>1. n \in Nat /\ \A i \in 1..n : Worth(i) \in Int
  OBVIOUS
<1>2. \A q \in Purses, reward \in Int : Rewarded!Paid(q, reward) \in Purses
  BY PaidOnce, PaidNone DEF PaidFrom
<1>5. Rewarded!PaidAll(p, ids) = after[n]
  BY DEF Rewarded!PaidAll
<1> HIDE DEF Worth
<1>21. step \in [(1..n) \X Purses -> Purses]
  BY <1>1, <1>2
<1>3. PICK g : Runs(g, n, Purses, p, step)
  <2> HIDE DEF step, n
  <2> QED BY <1>1, <1>21, Iterates
<1>4. g = Body(g)
  <2>1. g \in [0..n -> Purses] /\ g[0] = p /\ \A i \in 1..n : g[i] = step[<<i, g[i - 1]>>]
    BY <1>3 DEF Runs
  <2>2. ASSUME NEW i \in 1..n PROVE g[i] = Rewarded!Paid(g[i - 1], Worth(i))
    <3>1. <<i, g[i - 1]>> \in (1..n) \X Purses
      <4>1. i - 1 \in 0..n
        BY <1>1
      <4> HIDE DEF n
      <4> QED BY <2>1, <4>1
    <3> QED BY <2>1, <3>1
  <2>3. \A i \in 0..n : g[i] = Body(g)[i]
    BY <1>1, <2>1, <2>2
  <2>4. g = [i \in 0..n |-> g[i]]
    BY <2>1
  <2> HIDE DEF n
  <2> QED BY <2>3, <2>4
<1>6. after = Body(after)
  <2> HIDE DEF Body
  <2> QED BY <1>4, Zenon
<1> HIDE DEF after
<1>7. after[0] = p /\ \A i \in 1..n : after[i] = Rewarded!Paid(after[i - 1], Worth(i))
  <2> DEFINE E(i) == IF i = 0 THEN p ELSE Rewarded!Paid(after[i - 1], Worth(i))
  <2>1. after = [i \in 0..n |-> E(i)]
    BY <1>6
  <2> HIDE DEF E, n
  <2>2. \A i \in 0..n : after[i] = E(i)
    BY <2>1
  <2> USE DEF E
  <2>3. after[0] = p
    BY <1>1, <2>2
  <2>4. ASSUME NEW i \in 1..n PROVE after[i] = Rewarded!Paid(after[i - 1], Worth(i))
    <3>1. i \in 0..n /\ i # 0
      BY <1>1
    <3> QED BY <2>2, <3>1
  <2> QED BY <2>3, <2>4
<1> DEFINE S == {i \in 0..n : PaidFrom(p, after[i])}
<1>8. 0 \in S
  BY <1>1, <1>7, PaidNone
<1>9. ASSUME NEW i \in 0..n, i < n, i \in S PROVE i + 1 \in S
  <2>1. i + 1 \in 1..n /\ i + 1 \in 0..n /\ i + 1 - 1 = i
    BY <1>1, <1>9
  <2>2. after[i + 1] = Rewarded!Paid(after[i], Worth(i + 1))
    BY <1>7, <2>1
  <2>3. Worth(i + 1) \in Int
    BY <1>1, <2>1
  <2> HIDE DEF n
  <2> QED BY <1>9, <2>1, <2>2, <2>3, PaidOnce
<1>10. 0..n \subseteq S
  <2> HIDE DEF S, n
  <2> QED BY <1>1, <1>8, <1>9, CountUp
<1> QED BY <1>1, <1>5, <1>7, <1>10

-----------------------------------------------------------------------------
(* Badges *)

Priced(f) == \A id \in DOMAIN f : f[id] \in Int

LEMMA DefaultsPriced == Priced(Rewarded!DefaultBadgeDefs)
BY DEF Priced, Rewarded!DefaultBadgeDefs, Rewarded!DefaultBadges

(* Badges that are issued are badges, and the user had none of them. *)
LEMMA BadgesNew ==
  ASSUME NEW u
  PROVE  /\ Rewarded!NewBadges(u) \in Seq(Rewarded!Badge) /\ Len(Rewarded!NewBadges(u)) \in Nat
         /\ \A i \in 1..Len(Rewarded!NewBadges(u)) :
              ~Rewarded!Contains(badges[u], Rewarded!NewBadges(u)[i])
<1> DEFINE order == Rewarded!BadgeOrder
           P == {i \in DOMAIN order : Rewarded!Due(stats[u], order[i])
                                      /\ ~Rewarded!Contains(badges[u], order[i])}
           new == [k \in 1..Cardinality(P) |-> order[Kth(P, k)]]
<1>1. Rewarded!NewBadges(u) = new
  BY GameOperatorsAlike DEF Rewarded!NewBadges, Rewarded!Kept
<1>2. order \in Seq(Rewarded!Badge)
  BY DEF Rewarded!BadgeOrder, Rewarded!Badge, Rewarded!DefaultBadges
<1>3. P \in SUBSET (DOMAIN order) /\ \A i \in P : ~Rewarded!Contains(badges[u], order[i])
  OBVIOUS
<1> HIDE DEF order, P
<1>4. /\ Cardinality(P) \in Nat /\ new \in Seq(Rewarded!Badge)
      /\ \A k \in 1..Cardinality(P) : Kth(P, k) \in P
  BY <1>2, <1>3, Selected
<1>5. Len(new) = Cardinality(P) /\ \A k \in 1..Cardinality(P) : new[k] = order[Kth(P, k)]
  BY <1>4, LenProperties
<1> HIDE DEF new
<1> QED BY <1>1, <1>3, <1>4, <1>5

PlayersTyped ==
  /\ players \in Seq(People)
  /\ stats \in [People -> Rewarded!Stats \cup {None}] /\ score \in [People -> 0..100]
  /\ \A v \in People : score[v] = IF stats[v] = None THEN 0 ELSE stats[v].total_score
BadgesTyped == badges \in [People -> Seq(Rewarded!Badge)] /\ Priced(badgeReward)
EntryType == [current_value : Int, completed : BOOLEAN]
ChallengesTyped ==
  /\ challenge \in [ChallengeIds -> [terms : Challenges, active : BOOLEAN] \cup {None}]
  /\ challengeIds \in Seq(ChallengeIds)
EntriesTyped == challengeEntry \in [ChallengeIds -> [People -> EntryType \cup {None}]]
PaymentsTyped == rewardPool \in Int /\ rewardsPaid \in [People -> Int]

(* The types of the game, part by part. *)
LEMMA GameParts ==
  Rewarded!TypeOK <=>
    /\ day \in Nat /\ gameAdmin \in People \cup {None} /\ totalModules \in Nat
    /\ PlayersTyped /\ BadgesTyped /\ ChallengesTyped /\ EntriesTyped /\ PaymentsTyped
BY DEF Rewarded!TypeOK, PlayersTyped, BadgesTyped, ChallengesTyped, EntriesTyped, EntryType,
       PaymentsTyped, Priced

LEMMA GamePartsNext ==
  /\ day' \in Nat /\ gameAdmin' \in People \cup {None} /\ totalModules' \in Nat
  /\ PlayersTyped' /\ BadgesTyped' /\ ChallengesTyped' /\ EntriesTyped' /\ PaymentsTyped'
  => Rewarded!TypeOK'
BY DEF Rewarded!TypeOK, PlayersTyped, BadgesTyped, ChallengesTyped, EntriesTyped, EntryType,
       PaymentsTyped, Priced

LEMMA GameBegin == Rewarded!Init => Rewarded!TypeOK
<1> SUFFICES ASSUME Rewarded!Init PROVE Rewarded!TypeOK
  OBVIOUS
<1> USE GameAssumed DEF Rewarded!GamificationAssumption
<1>1. PlayersTyped
  BY DEF Rewarded!Init, PlayersTyped
<1>2. BadgesTyped
  BY DEF Rewarded!Init, BadgesTyped, Priced
<1>3. ChallengesTyped /\ EntriesTyped /\ PaymentsTyped
  BY DEF Rewarded!Init, ChallengesTyped, EntriesTyped, PaymentsTyped
<1> QED BY <1>1, <1>2, <1>3, GameParts DEF Rewarded!Init

(* A payment to a user changes what it has had by what leaves the pool. *)
LEMMA PayMoves ==
  ASSUME Rewarded!TypeOK, NEW u \in People, NEW q, PaidFrom(Rewarded!Purse(u), q), Rewarded!Pay(u, q)
  PROVE  /\ PaymentsTyped'
         /\ \A v \in People : rewardsPaid'[v] # rewardsPaid[v] =>
              /\ v = u /\ q # Rewarded!Purse(u)
              /\ rewardsPaid'[v] - rewardsPaid[v] = rewardPool - rewardPool'
              /\ rewardPool' \in 0..rewardPool
<1>1. rewardPool \in Int /\ rewardsPaid \in [People -> Int]
  BY DEF Rewarded!TypeOK
<1>2. Rewarded!Purse(u).pool = rewardPool /\ Rewarded!Purse(u).had = rewardsPaid[u]
  BY DEF Rewarded!Purse
<1>3. rewardPool' = q.pool /\ rewardsPaid' = [rewardsPaid EXCEPT ![u] = q.had]
  BY DEF Rewarded!Pay
<1>4. /\ q.pool \in Int /\ q.had \in Int
      /\ q.had - rewardsPaid[u] = rewardPool - q.pool
      /\ q.had >= rewardsPaid[u]
      /\ q.had # rewardsPaid[u] => q.pool >= 0
  BY <1>2 DEF PaidFrom, Purses
<1>5. PaymentsTyped'
  BY <1>1, <1>3, <1>4 DEF PaymentsTyped
<1>6. ASSUME NEW v \in People, rewardsPaid'[v] # rewardsPaid[v]
      PROVE  /\ v = u /\ q # Rewarded!Purse(u)
             /\ rewardsPaid'[v] - rewardsPaid[v] = rewardPool - rewardPool'
             /\ rewardPool' \in 0..rewardPool
  <2>1. v = u /\ rewardsPaid'[v] = q.had
    BY <1>1, <1>3, <1>6
  <2>2. q.had # rewardsPaid[u]
    BY <1>6, <2>1
  <2> QED BY <1>1, <1>2, <1>3, <1>4, <2>1, <2>2
<1> QED BY <1>5, <1>6

LEMMA PurseTyped ==
  ASSUME Rewarded!TypeOK, NEW u \in People
  PROVE  Rewarded!Purse(u) \in Purses /\ PaidFrom(Rewarded!Purse(u), Rewarded!Purse(u))
<1>1. Rewarded!Purse(u) \in Purses
  BY DEF Rewarded!TypeOK, Rewarded!Purse, Purses
<1> QED BY <1>1, PaidNone

(* What a step of the game promises: its types, and that rewards are earned. *)
Earned(u) ==
  rewardsPaid'[u] # rewardsPaid[u] =>
    /\ rewardsPaid'[u] - rewardsPaid[u] = rewardPool - rewardPool'
    /\ rewardPool' \in 0..rewardPool
    /\ \/ Rewarded!ToSet(badges'[u]) # Rewarded!ToSet(badges[u])
       \/ \E c \in ChallengeIds :
            challengeEntry[c][u] # None /\ ~challengeEntry[c][u].completed
            /\ challengeEntry'[c][u].completed
       \/ Rewarded!DistributeTierReward(u)

GameSound == Rewarded!TypeOK' /\ \A u \in People : Earned(u)

(* A step that pays nothing. *)
LEMMA NothingPaid ==
  ASSUME Rewarded!TypeOK', UNCHANGED rewardsPaid PROVE GameSound
BY DEF GameSound, Earned

(* More badges, none of which the user had. *)
LEMMA BadgesAdded ==
  ASSUME NEW s \in Seq(Rewarded!Badge), NEW new \in Seq(Rewarded!Badge), Len(new) # 0,
         \A i \in 1..Len(new) : ~Rewarded!Contains(s, new[i])
  PROVE  Rewarded!ToSet(s \o new) # Rewarded!ToSet(s)
<1>1. /\ Len(s) \in Nat /\ Len(new) \in Nat /\ s \o new \in Seq(Rewarded!Badge)
      /\ Len(s \o new) = Len(s) + Len(new)
      /\ DOMAIN s = 1..Len(s) /\ DOMAIN (s \o new) = 1..Len(s \o new)
  BY ConcatProperties, LenProperties
<1>2. (s \o new)[Len(s) + 1] = new[1]
  BY <1>1, ConcatProperties
<1>3. Len(s) + 1 \in DOMAIN (s \o new)
  BY <1>1
<1>4. new[1] \in Rewarded!ToSet(s \o new)
  BY <1>2, <1>3, GameOperatorsAlike
<1>5. ~Rewarded!Contains(s, new[1])
  BY <1>1
<1>6. new[1] \notin Rewarded!ToSet(s)
  BY <1>1, <1>5, GameOperatorsAlike DEF Rewarded!Contains
<1> QED BY <1>4, <1>6

LEMMA StatsCounted ==
  ASSUME NEW s \in Rewarded!Stats
  PROVE  /\ s.modules_completed + 1 \in Nat /\ s.total_modules \in Nat
         /\ s.community_actions + 1 \in Nat /\ s.challenges_won + 1 \in Nat
BY DEF Rewarded!Stats

(* A step that changes at most players, their statistics and scores. *)
LEMMA OnlyPlayed ==
  ASSUME Rewarded!TypeOK, PlayersTyped',
         UNCHANGED <<day, gameAdmin, totalModules, badges, badgeReward, Rewarded!campaigns,
                     Rewarded!rewards>>
  PROVE  GameSound
<1>1. BadgesTyped' /\ ChallengesTyped' /\ EntriesTyped' /\ PaymentsTyped'
  BY GameParts DEF BadgesTyped, ChallengesTyped, EntriesTyped, PaymentsTyped, Priced,
                   Rewarded!campaigns, Rewarded!rewards
<1>2. Rewarded!TypeOK'
  BY <1>1, GameParts, GamePartsNext
<1>3. UNCHANGED rewardsPaid
  BY DEF Rewarded!rewards
<1> QED BY <1>2, <1>3, NothingPaid

LEMMA PlayerStep ==
  ASSUME Rewarded!TypeOK, Rewarded!Play PROVE GameSound /\ Joined
<1> USE GameAssumed DEF Rewarded!GamificationAssumption
<1>0. /\ Users \subseteq People /\ players \in Seq(People)
      /\ stats \in [People -> Rewarded!Stats \cup {None}] /\ score \in [People -> 0..100]
      /\ \A v \in People : score[v] = IF stats[v] = None THEN 0 ELSE stats[v].total_score
      /\ totalModules \in Nat /\ None \notin Rewarded!Stats
  BY DEF Rewarded!TypeOK
<1>1. ASSUME NEW u \in Users, Rewarded!RegisterUser(u) PROVE GameSound /\ Joined
  <2> DEFINE s == [trade_count |-> 0, successful_trades |-> 0, best_roi_bps |-> 0, current_streak |-> 0,
                   best_streak |-> 0, modules_completed |-> 0, total_modules |-> totalModules,
                   community_actions |-> 0, challenges_won |-> 0, tier |-> "Bronze", total_score |-> 0]
  <2>1. s \in Rewarded!Stats /\ s.total_score = 0
    BY <1>0 DEF Rewarded!Stats, Rewarded!Tier
  <2>2. /\ stats[u] = None /\ stats' = [stats EXCEPT ![u] = s] /\ score' = score
        /\ \/ players' = players
           \/ ~Rewarded!Contains(players, u) /\ players' = Append(players, u)
    BY <1>1 DEF Rewarded!RegisterUser
  <2> HIDE DEF s
  <2>3. players' \in Seq(People)
    BY <1>0, <2>2, AppendProperties
  <2>4. stats' \in [People -> Rewarded!Stats \cup {None}]
    BY <1>0, <2>1, <2>2
  <2>5. \A v \in People : score'[v] = IF stats'[v] = None THEN 0 ELSE stats'[v].total_score
    BY <1>0, <2>1, <2>2
  <2>6. PlayersTyped'
    BY <1>0, <2>2, <2>3, <2>4, <2>5 DEF PlayersTyped
  <2>7. Joined
    BY <1>0, <2>1, <2>2 DEF Joined, NoneLeaves
  <2> QED BY <1>1, <2>6, <2>7, OnlyPlayed DEF Rewarded!RegisterUser
<1>2. ASSUME NEW u \in Users, NEW s \in Rewarded!Stats, Rewarded!Rescore(u, s),
             UNCHANGED <<players, day, gameAdmin, totalModules, badges, badgeReward, Rewarded!campaigns,
                         Rewarded!rewards>>
      PROVE  GameSound /\ Joined
  <2>1. PlayersTyped'
    BY <1>0, <1>2, Rescored DEF PlayersTyped
  <2>2. Joined
    BY <1>0, <1>2, Rescored DEF Joined
  <2> QED BY <1>2, <2>1, <2>2, OnlyPlayed
<1>3. ASSUME NEW u \in Users, stats[u] # None PROVE stats[u] \in Rewarded!Stats
  BY <1>0, <1>3
<1>4. ASSUME NEW trades \in Batches PROVE trades \in Seq(Rewarded!Trades) /\ trades[1] \in Rewarded!Trades
  <2>1. trades \in Seq(Rewarded!Trades) /\ trades # <<>>
    BY <1>4
  <2>2. Len(trades) \in Nat /\ Len(trades) # 0
    BY <2>1, EmptySeq, LenProperties
  <2> QED BY <2>1, <2>2, ElementOfSeq
<1>5. ASSUME NEW u \in Users, NEW trades \in Batches, Rewarded!RecordTrade(u, trades[1]) PROVE GameSound /\ Joined
  <2>1. Rewarded!Traded(stats[u], trades[1]) \in Rewarded!Stats
    BY <1>3, <1>4, <1>5, TradeCounted DEF Rewarded!RecordTrade
  <2> QED BY <1>2, <1>5, <2>1 DEF Rewarded!RecordTrade
<1>6. ASSUME NEW u \in Users, NEW trades \in Batches, Rewarded!RecordTradesBatch(u, trades) PROVE GameSound /\ Joined
  <2>1. Rewarded!TradedAll(stats[u], trades) \in Rewarded!Stats
    BY <1>3, <1>4, <1>6, BatchCounted DEF Rewarded!RecordTradesBatch
  <2> QED BY <1>2, <1>6, <2>1 DEF Rewarded!RecordTradesBatch
<1>7. ASSUME NEW u \in Users, Rewarded!CompleteLearningModule(u) PROVE GameSound /\ Joined
  <2> DEFINE n == Rewarded!Min({stats[u].modules_completed + 1, stats[u].total_modules})
  <2>1. stats[u] \in Rewarded!Stats
    BY <1>3, <1>7 DEF Rewarded!CompleteLearningModule
  <2>2. n \in Nat
    <3>1. stats[u].modules_completed + 1 \in Nat /\ stats[u].total_modules \in Nat
      BY <2>1, StatsCounted
    <3>2. n \in 0..stats[u].total_modules
      BY <3>1, Capped
    <3> HIDE DEF n
    <3> QED BY <3>1, <3>2
  <2>3. Rewarded!Rescore(u, [stats[u] EXCEPT !.modules_completed = n])
    BY <1>7 DEF Rewarded!CompleteLearningModule
  <2>4. [stats[u] EXCEPT !.modules_completed = n] \in Rewarded!Stats
    <3> HIDE DEF n
    <3> QED BY <2>1, <2>2 DEF Rewarded!Stats
  <2> HIDE DEF n
  <2> QED BY <1>2, <1>7, <2>3, <2>4 DEF Rewarded!CompleteLearningModule
<1>8. ASSUME NEW u \in Users, Rewarded!RecordCommunityAction(u) PROVE GameSound /\ Joined
  <2> DEFINE n == stats[u].community_actions + 1
             r == [stats[u] EXCEPT !.community_actions = n]
  <2>1. stats[u] \in Rewarded!Stats
    BY <1>3, <1>8 DEF Rewarded!RecordCommunityAction
  <2>2. r \in Rewarded!Stats
    <3>1. n \in Nat
      BY <2>1, StatsCounted
    <3> HIDE DEF n
    <3> QED BY <2>1, <3>1 DEF Rewarded!Stats
  <2>3. Rewarded!Rescore(u, r)
    BY <1>8 DEF Rewarded!RecordCommunityAction
  <2> HIDE DEF r
  <2> QED BY <1>2, <1>8, <2>2, <2>3 DEF Rewarded!RecordCommunityAction
<1> QED BY <1>1, <1>5, <1>6, <1>7, <1>8 DEF Rewarded!Play

(* A step that pays a user and changes its badges. *)
LEMMA OnlyPaid ==
  ASSUME Rewarded!TypeOK, NEW u \in People, NEW q,
         PaidFrom(Rewarded!Purse(u), q), Rewarded!Pay(u, q), BadgesTyped',
         q # Rewarded!Purse(u) =>
           Rewarded!ToSet(badges'[u]) # Rewarded!ToSet(badges[u]) \/ Rewarded!DistributeTierReward(u),
         UNCHANGED <<day, gameAdmin, totalModules, Rewarded!playing, Rewarded!campaigns>>
  PROVE  GameSound
<1>1. /\ PaymentsTyped'
      /\ \A v \in People : rewardsPaid'[v] # rewardsPaid[v] =>
           /\ v = u /\ q # Rewarded!Purse(u)
           /\ rewardsPaid'[v] - rewardsPaid[v] = rewardPool - rewardPool'
           /\ rewardPool' \in 0..rewardPool
  BY PayMoves
<1>2. PlayersTyped' /\ ChallengesTyped' /\ EntriesTyped'
  BY GameParts DEF PlayersTyped, ChallengesTyped, EntriesTyped, Rewarded!playing, Rewarded!campaigns
<1>3. Rewarded!TypeOK'
  BY <1>1, <1>2, GameParts, GamePartsNext
<1>4. ASSUME NEW v \in People PROVE Earned(v)
  BY <1>1 DEF Earned
<1> QED BY <1>3, <1>4 DEF GameSound

LEMMA BadgeReward ==
  ASSUME Rewarded!TypeOK PROVE \A id : Rewarded!BadgeReward(id) \in Int
BY DEF Rewarded!TypeOK, Rewarded!BadgeReward

LEMMA BadgesIssued ==
  ASSUME Rewarded!TypeOK, NEW u \in Users, Rewarded!CheckAndIssueBadges(u) PROVE GameSound
<1> DEFINE new == Rewarded!NewBadges(u)
           q == Rewarded!PaidAll(Rewarded!Purse(u), new)
<1>0. u \in People /\ badges \in [People -> Seq(Rewarded!Badge)]
  BY GameAssumed DEF Rewarded!GamificationAssumption, Rewarded!TypeOK
<1>1. /\ new \in Seq(Rewarded!Badge) /\ Len(new) \in Nat
      /\ \A i \in 1..Len(new) : ~Rewarded!Contains(badges[u], new[i])
  BY BadgesNew
<1>2. /\ badges' = [badges EXCEPT ![u] = badges[u] \o new]
      /\ Rewarded!Pay(u, q)
      /\ UNCHANGED <<day, gameAdmin, totalModules, Rewarded!playing, badgeReward, Rewarded!campaigns>>
  BY DEF Rewarded!CheckAndIssueBadges
<1> HIDE DEF new
<1>3. PaidFrom(Rewarded!Purse(u), q) /\ (Len(new) = 0 => q = Rewarded!Purse(u))
  BY <1>0, <1>1, PurseTyped, BadgeReward, PaidInTurn
<1> HIDE DEF q
<1>4. badges[u] \in Seq(Rewarded!Badge) /\ badges[u] \o new \in Seq(Rewarded!Badge)
  BY <1>0, <1>1, ConcatProperties
<1>5. badges' \in [People -> Seq(Rewarded!Badge)] /\ badges'[u] = badges[u] \o new
  BY <1>0, <1>2, <1>4
<1>6. BadgesTyped'
  BY <1>2, <1>5, GameParts DEF BadgesTyped, Priced
<1>7. Len(new) # 0 => Rewarded!ToSet(badges'[u]) # Rewarded!ToSet(badges[u])
  BY <1>1, <1>4, <1>5, BadgesAdded
<1> QED BY <1>0, <1>2, <1>3, <1>6, <1>7, OnlyPaid

LEMMA BadgeGranted ==
  ASSUME Rewarded!TypeOK, NEW p, NEW u \in Users, NEW id \in BadgeIds, Rewarded!IssueBadge(p, u, id)
  PROVE  GameSound
<1> DEFINE q == Rewarded!Paid(Rewarded!Purse(u), Rewarded!BadgeReward(id))
<1>0. u \in People /\ badges \in [People -> Seq(Rewarded!Badge)] /\ id \in Rewarded!Badge
  BY GameAssumed DEF Rewarded!GamificationAssumption, Rewarded!TypeOK, Rewarded!Badge
<1>2. /\ badges' = [badges EXCEPT ![u] = Append(badges[u], id)]
      /\ Rewarded!Pay(u, q) /\ ~Rewarded!Contains(badges[u], id)
      /\ UNCHANGED <<day, gameAdmin, totalModules, Rewarded!playing, badgeReward, Rewarded!campaigns>>
  BY DEF Rewarded!IssueBadge
<1>3. PaidFrom(Rewarded!Purse(u), q)
  BY <1>0, PurseTyped, BadgeReward, PaidOnce
<1> HIDE DEF q
<1>4. /\ badges[u] \in Seq(Rewarded!Badge) /\ <<id>> \in Seq(Rewarded!Badge)
      /\ Append(badges[u], id) = badges[u] \o <<id>>
      /\ Append(badges[u], id) \in Seq(Rewarded!Badge)
  <2>1. badges[u] \in Seq(Rewarded!Badge)
    BY <1>0
  <2> QED BY <1>0, <2>1, AppendProperties, AppendIsConcat
<1>5. badges' \in [People -> Seq(Rewarded!Badge)] /\ badges'[u] = badges[u] \o <<id>>
  BY <1>0, <1>2, <1>4
<1>6. BadgesTyped'
  BY <1>2, <1>5, GameParts DEF BadgesTyped, Priced
<1>7. Rewarded!ToSet(badges'[u]) # Rewarded!ToSet(badges[u])
  <2>1. Len(<<id>>) # 0 /\ \A i \in 1..Len(<<id>>) : ~Rewarded!Contains(badges[u], <<id>>[i])
    BY <1>2
  <2> QED BY <1>4, <1>5, <2>1, BadgesAdded
<1> QED BY <1>0, <1>2, <1>3, <1>6, <1>7, OnlyPaid

LEMMA TierRewarded ==
  ASSUME Rewarded!TypeOK, NEW u \in Users, Rewarded!DistributeTierReward(u) PROVE GameSound
<1> DEFINE amount == Rewarded!TierReward[stats[u].tier]
           q == Rewarded!Paid(Rewarded!Purse(u), amount)
<1>0. u \in People
  BY GameAssumed DEF Rewarded!GamificationAssumption
<1>1. stats[u] \in Rewarded!Stats
  BY <1>0 DEF Rewarded!TypeOK, Rewarded!DistributeTierReward
<1>2. amount \in Int
  <2>1. stats[u].tier \in Rewarded!Tier
    BY <1>1 DEF Rewarded!Stats
  <2> QED BY <2>1 DEF Rewarded!TierReward, Rewarded!Tier
<1>3. Rewarded!Pay(u, q)
  BY DEF Rewarded!DistributeTierReward
<1> HIDE DEF amount
<1>4. PaidFrom(Rewarded!Purse(u), q)
  BY <1>0, <1>2, PurseTyped, PaidOnce
<1> HIDE DEF q
<1>5. UNCHANGED <<day, gameAdmin, totalModules, Rewarded!playing, badges, badgeReward, Rewarded!campaigns>>
  BY DEF Rewarded!DistributeTierReward
<1>6. BadgesTyped'
  BY <1>5, GameParts DEF BadgesTyped, Priced
<1> QED BY <1>0, <1>3, <1>4, <1>5, <1>6, OnlyPaid

LEMMA ChallengeJoined ==
  ASSUME Rewarded!TypeOK, NEW u \in Users, NEW c \in ChallengeIds, Rewarded!JoinChallenge(u, c)
  PROVE  GameSound
<1>0. u \in People
  BY GameAssumed DEF Rewarded!GamificationAssumption
<1>1. EntriesTyped'
  <2> DEFINE e == [current_value |-> 0, completed |-> FALSE]
  <2>1. e \in EntryType
    BY DEF EntryType
  <2>2. challengeEntry' = [challengeEntry EXCEPT ![c][u] = e]
    BY DEF Rewarded!JoinChallenge
  <2> HIDE DEF e
  <2> QED BY <1>0, <2>1, <2>2, GameParts DEF EntriesTyped
<1>2. UNCHANGED <<day, gameAdmin, totalModules, Rewarded!playing, badges, badgeReward, challenge,
                  challengeIds, Rewarded!rewards>>
  BY DEF Rewarded!JoinChallenge
<1>3. PlayersTyped' /\ BadgesTyped' /\ ChallengesTyped' /\ PaymentsTyped'
  BY <1>2, GameParts DEF PlayersTyped, BadgesTyped, ChallengesTyped, PaymentsTyped, Priced,
                         Rewarded!playing, Rewarded!rewards
<1>4. Rewarded!TypeOK'
  BY <1>1, <1>2, <1>3, GameParts, GamePartsNext
<1> QED BY <1>2, <1>4, NothingPaid DEF Rewarded!rewards

LEMMA ProgressMade ==
  ASSUME Rewarded!TypeOK, NEW u \in Users, NEW c \in ChallengeIds, NEW n \in Increments,
         Rewarded!UpdateChallengeProgress(u, c, n)
  PROVE  GameSound /\ Joined
<1> DEFINE item == challengeEntry[c][u]
           terms == challenge[c].terms
           value == item.current_value + n
           won == value >= terms.target_value /\ ~item.completed
           e == [current_value |-> value, completed |-> item.completed \/ won]
           s == [stats[u] EXCEPT !.challenges_won = @ + 1]
           q == Rewarded!Paid(Rewarded!Purse(u), terms.reward_amount)
<1>0. u \in People /\ n \in Int
  BY GameAssumed DEF Rewarded!GamificationAssumption
<1>1. item \in EntryType /\ item # None /\ terms.reward_amount \in Int
  <2>1. challenge[c] \in [terms : Challenges, active : BOOLEAN] /\ item # None
    BY DEF Rewarded!TypeOK, Rewarded!UpdateChallengeProgress
  <2>2. terms \in Challenges
    BY <2>1
  <2>3. terms.reward_amount \in Int
    BY <2>2, GameAssumed DEF Rewarded!GamificationAssumption
  <2> QED BY <1>0, <2>1, <2>3, GameParts DEF EntriesTyped
<1>2. /\ challengeEntry' = [challengeEntry EXCEPT ![c][u] = e]
      /\ IF won THEN stats[u] # None /\ Rewarded!Pay(u, q) /\ Rewarded!Rescore(u, s)
         ELSE UNCHANGED <<stats, score, Rewarded!rewards>>
      /\ UNCHANGED <<day, gameAdmin, totalModules, players, badges, badgeReward, challenge, challengeIds>>
  BY DEF Rewarded!UpdateChallengeProgress
<1>3. value \in Int
  BY <1>0, <1>1 DEF EntryType
<1>4. e \in EntryType /\ (won => e.completed)
  <2>1. item.completed \in BOOLEAN
    BY <1>1 DEF EntryType
  <2>2. (item.completed \/ won) \in BOOLEAN
    OBVIOUS
  <2> HIDE DEF value, won, item
  <2> QED BY <1>3, <2>2 DEF EntryType
<1>5. won => ~item.completed
  OBVIOUS
<1> HIDE DEF item, terms, value, won, e, s, q
<1>6. EntriesTyped' /\ challengeEntry'[c][u] = e
  BY <1>0, <1>2, <1>4, GameParts DEF EntriesTyped
<1>7. BadgesTyped' /\ ChallengesTyped' /\ players' \in Seq(People)
  BY <1>2, GameParts DEF PlayersTyped, BadgesTyped, ChallengesTyped, Priced
<1>8. CASE ~won
  <2>1. UNCHANGED <<stats, score, players, rewardPool, rewardsPaid>>
    BY <1>2, <1>8 DEF Rewarded!rewards
  <2>2. PlayersTyped' /\ PaymentsTyped'
    BY <2>1, GameParts DEF PlayersTyped, PaymentsTyped
  <2>3. Rewarded!TypeOK'
    BY <1>2, <1>6, <1>7, <2>2, GameParts, GamePartsNext
  <2>4. Joined
    BY <2>1 DEF Joined, NoneLeaves
  <2> QED BY <2>1, <2>3, <2>4, NothingPaid
<1>9. CASE won
  <2>1. stats[u] \in Rewarded!Stats
    BY <1>0, <1>2, <1>9 DEF Rewarded!TypeOK
  <2>2. s \in Rewarded!Stats
    <3> DEFINE m == stats[u].challenges_won + 1
    <3>1. m \in Nat
      BY <2>1, StatsCounted
    <3>2. s = [stats[u] EXCEPT !.challenges_won = m]
      BY DEF s
    <3> HIDE DEF m
    <3> QED BY <2>1, <3>1, <3>2 DEF Rewarded!Stats
  <2>3. PlayersTyped'
    BY <1>0, <1>2, <1>7, <1>9, <2>2, Rescored DEF PlayersTyped
  <2>4. PaidFrom(Rewarded!Purse(u), q)
    BY <1>0, <1>1, PurseTyped, PaidOnce DEF q
  <2>5. /\ PaymentsTyped'
        /\ \A v \in People : rewardsPaid'[v] # rewardsPaid[v] =>
             /\ v = u
             /\ rewardsPaid'[v] - rewardsPaid[v] = rewardPool - rewardPool'
             /\ rewardPool' \in 0..rewardPool
    BY <1>0, <1>2, <1>9, <2>4, PayMoves
  <2>6. Rewarded!TypeOK'
    BY <1>2, <1>6, <1>7, <2>3, <2>5, GameParts, GamePartsNext
  <2>7. challengeEntry[c][u] # None /\ ~challengeEntry[c][u].completed /\ challengeEntry'[c][u].completed
    BY <1>1, <1>4, <1>5, <1>6, <1>9 DEF item
  <2>8. ASSUME NEW v \in People PROVE Earned(v)
    BY <2>5, <2>7 DEF Earned
  <2>9. Joined
    BY <1>0, <1>2, <1>9, <2>2, Rescored DEF Joined
  <2> QED BY <2>6, <2>8, <2>9 DEF GameSound
<1> QED BY <1>8, <1>9

LEMMA RewardStep ==
  ASSUME Rewarded!TypeOK, Rewarded!Reward PROVE GameSound
BY BadgesIssued, TierRewarded, ChallengeJoined, ProgressMade DEF Rewarded!Reward

LEMMA AdministerStep ==
  ASSUME Rewarded!TypeOK, Rewarded!Administer PROVE GameSound
<1>1. ASSUME NEW p \in People, NEW id \in BadgeIds, NEW reward \in Rewards,
             Rewarded!UpdateBadgeDefinition(p, id, reward)
      PROVE  GameSound
  <2>1. badgeReward' = [badgeReward EXCEPT ![id] = reward] /\ id \in DOMAIN badgeReward
        /\ UNCHANGED <<day, gameAdmin, totalModules, Rewarded!playing, badges, Rewarded!campaigns,
                       Rewarded!rewards>>
    BY <1>1 DEF Rewarded!UpdateBadgeDefinition
  <2>2. reward \in Int
    BY GameAssumed DEF Rewarded!GamificationAssumption
  <2>3. BadgesTyped'
    BY <2>1, <2>2, GameParts DEF BadgesTyped, Priced
  <2>4. PlayersTyped' /\ ChallengesTyped' /\ EntriesTyped' /\ PaymentsTyped'
    BY <2>1, GameParts DEF PlayersTyped, ChallengesTyped, EntriesTyped, PaymentsTyped,
                           Rewarded!playing, Rewarded!campaigns, Rewarded!rewards
  <2>5. Rewarded!TypeOK'
    BY <2>1, <2>3, <2>4, GameParts, GamePartsNext
  <2> QED BY <2>1, <2>5, NothingPaid DEF Rewarded!rewards
<1>2. ASSUME ChallengesTyped',
             UNCHANGED <<day, gameAdmin, totalModules, Rewarded!playing, badges, badgeReward,
                         challengeEntry, Rewarded!rewards>>
      PROVE  GameSound
  <2>1. PlayersTyped' /\ BadgesTyped' /\ EntriesTyped' /\ PaymentsTyped'
    BY <1>2, GameParts DEF PlayersTyped, BadgesTyped, Priced, EntriesTyped, PaymentsTyped,
                           Rewarded!playing, Rewarded!rewards
  <2>2. Rewarded!TypeOK'
    BY <1>2, <2>1, GameParts, GamePartsNext
  <2> QED BY <1>2, <2>2, NothingPaid DEF Rewarded!rewards
<1>3. ASSUME NEW p \in People, NEW c \in ChallengeIds, NEW terms \in Challenges,
             Rewarded!CreateChallenge(p, c, terms)
      PROVE  GameSound
  <2>1. ChallengesTyped'
    BY <1>3, GameParts DEF Rewarded!CreateChallenge, ChallengesTyped
  <2> QED BY <1>2, <1>3, <2>1 DEF Rewarded!CreateChallenge
<1>4. ASSUME NEW p \in People, NEW c \in ChallengeIds, Rewarded!EndChallenge(p, c)
      PROVE  GameSound
  <2>1. ChallengesTyped'
    BY <1>4, GameParts DEF Rewarded!EndChallenge, ChallengesTyped
  <2> QED BY <1>2, <1>4, <2>1 DEF Rewarded!EndChallenge
<1>5. ASSUME NEW p \in People, NEW amount \in Funds, Rewarded!FundRewardPool(p, amount)
      PROVE  GameSound
  <2>1. rewardPool' \in Int
    BY <1>5, GameAssumed DEF Rewarded!FundRewardPool, Rewarded!GamificationAssumption, Rewarded!TypeOK
  <2>2. PaymentsTyped'
    BY <1>5, <2>1, GameParts DEF Rewarded!FundRewardPool, PaymentsTyped
  <2>3. PlayersTyped' /\ BadgesTyped' /\ ChallengesTyped' /\ EntriesTyped'
    BY <1>5, GameParts DEF PlayersTyped, BadgesTyped, Priced, ChallengesTyped, EntriesTyped,
                           Rewarded!playing, Rewarded!campaigns, Rewarded!FundRewardPool
  <2>4. Rewarded!TypeOK'
    BY <1>5, <2>2, <2>3, GameParts, GamePartsNext DEF Rewarded!FundRewardPool
  <2> QED BY <1>5, <2>4, NothingPaid DEF Rewarded!FundRewardPool
<1>6. ASSUME NEW p \in People, NEW r \in People, Rewarded!TransferAdmin(p, r)
      PROVE  GameSound
  <2>1. PlayersTyped' /\ BadgesTyped' /\ ChallengesTyped' /\ EntriesTyped' /\ PaymentsTyped'
    BY <1>6, GameParts DEF PlayersTyped, BadgesTyped, Priced, ChallengesTyped, EntriesTyped, PaymentsTyped,
                           Rewarded!playing, Rewarded!campaigns, Rewarded!rewards, Rewarded!TransferAdmin
  <2>2. Rewarded!TypeOK'
    BY <1>6, <2>1, GameParts, GamePartsNext DEF Rewarded!TransferAdmin
  <2> QED BY <1>6, <2>2, NothingPaid DEF Rewarded!TransferAdmin, Rewarded!rewards
<1>7. ASSUME NEW p \in People, NEW u \in Users, NEW id \in BadgeIds, Rewarded!IssueBadge(p, u, id)
      PROVE  GameSound
  BY <1>7, BadgeGranted
<1> QED BY <1>1, <1>3, <1>4, <1>5, <1>6, <1>7 DEF Rewarded!Administer

LEMMA GameStep ==
  ASSUME Rewarded!TypeOK, [Rewarded!Next]_(Rewarded!vars) PROVE GameSound
<1>1. CASE UNCHANGED Rewarded!vars
  <2>1. PlayersTyped' /\ BadgesTyped' /\ ChallengesTyped' /\ EntriesTyped' /\ PaymentsTyped'
    BY <1>1, GameParts DEF PlayersTyped, BadgesTyped, Priced, ChallengesTyped, EntriesTyped, PaymentsTyped,
                           Rewarded!vars, Rewarded!playing, Rewarded!campaigns, Rewarded!rewards
  <2>2. Rewarded!TypeOK'
    BY <1>1, <2>1, GameParts, GamePartsNext DEF Rewarded!vars
  <2> QED BY <1>1, <2>2, NothingPaid DEF Rewarded!vars, Rewarded!rewards
<1>2. CASE Rewarded!Tick
  <2>1. PlayersTyped' /\ BadgesTyped' /\ ChallengesTyped' /\ EntriesTyped' /\ PaymentsTyped'
    BY <1>2, GameParts DEF PlayersTyped, BadgesTyped, Priced, ChallengesTyped, EntriesTyped, PaymentsTyped,
                           Rewarded!Tick, Rewarded!playing, Rewarded!campaigns, Rewarded!rewards
  <2>2. day' \in Nat
    BY <1>2 DEF Rewarded!Tick, Rewarded!TypeOK
  <2>3. Rewarded!TypeOK'
    BY <1>2, <2>1, <2>2, GameParts, GamePartsNext DEF Rewarded!Tick
  <2> QED BY <1>2, <2>3, NothingPaid DEF Rewarded!Tick, Rewarded!rewards
<1>3. CASE Rewarded!Setup
  <2>1. PICK p \in People, n \in Modules : Rewarded!Initialize(p, n)
    BY <1>3 DEF Rewarded!Setup
  <2>2. n \in Nat /\ InitialPool \in Int
    BY GameAssumed DEF Rewarded!GamificationAssumption
  <2>3. PlayersTyped' /\ ChallengesTyped' /\ EntriesTyped'
    BY <2>1, GameParts DEF PlayersTyped, ChallengesTyped, EntriesTyped, Rewarded!playing, Rewarded!campaigns,
                           Rewarded!Initialize
  <2>4. BadgesTyped' /\ PaymentsTyped'
    BY <2>1, <2>2, GameParts, DefaultsPriced DEF BadgesTyped, PaymentsTyped, Rewarded!Initialize
  <2>5. Rewarded!TypeOK'
    BY <2>1, <2>2, <2>3, <2>4, GameParts, GamePartsNext DEF Rewarded!Initialize
  <2> QED BY <2>1, <2>5, NothingPaid DEF Rewarded!Initialize
<1> QED BY <1>1, <1>2, <1>3, PlayerStep, RewardStep, AdministerStep DEF Rewarded!Next

(* Nobody leaves the list of players, and who joins it has statistics. *)
LEMMA PlayersJoin ==
  ASSUME Rewarded!TypeOK, [Rewarded!Next]_(Rewarded!vars) PROVE Joined
<1>1. UNCHANGED Rewarded!playing => Joined
  BY DEF Rewarded!playing, Joined, NoneLeaves
<1>2. CASE UNCHANGED Rewarded!vars \/ Rewarded!Tick \/ Rewarded!Setup
  BY <1>1, <1>2 DEF Rewarded!vars, Rewarded!Tick, Rewarded!Setup, Rewarded!Initialize
<1>3. CASE Rewarded!Play
  BY <1>3, PlayerStep
<1>4. CASE Rewarded!Reward
  BY <1>1, <1>4, ProgressMade
  DEF Rewarded!Reward, Rewarded!CheckAndIssueBadges, Rewarded!DistributeTierReward, Rewarded!JoinChallenge
<1>5. CASE Rewarded!Administer
  BY <1>1, <1>5
  DEF Rewarded!Administer, Rewarded!IssueBadge, Rewarded!UpdateBadgeDefinition, Rewarded!CreateChallenge,
      Rewarded!EndChallenge, Rewarded!FundRewardPool, Rewarded!TransferAdmin
<1> QED BY <1>2, <1>3, <1>4, <1>5 DEF Rewarded!Next

(* Each player is listed once, and has statistics. *)
PlayersListed ==
  /\ \A i \in 1..Len(players) : stats[players[i]] # None
  /\ Distinct(players)

LEMMA PlayersStay ==
  ASSUME Rewarded!TypeOK, PlayersListed, [Rewarded!Next]_(Rewarded!vars) PROVE PlayersListed'
<1>1. /\ players \in Seq(People) /\ Len(players) \in Nat
      /\ \A i \in 1..Len(players) : players[i] \in People
  BY ElementOfSeq, LenProperties DEF Rewarded!TypeOK
<1>2. NoneLeaves
  BY PlayersJoin DEF Joined
<1>3. \A i \in 1..Len(players) : stats'[players[i]] # None
  BY <1>1, <1>2 DEF PlayersListed, NoneLeaves
<1>4. CASE players' = players
  BY <1>3, <1>4 DEF PlayersListed
<1>5. ASSUME NEW u \in People, ~Rewarded!Contains(players, u), players' = Append(players, u),
             stats'[u] # None
      PROVE  PlayersListed'
  <2> DEFINE n == Len(players)
  <2>1. /\ Len(players') = n + 1 /\ players'[n + 1] = u
        /\ \A i \in 1..n : players'[i] = players[i] /\ players[i] # u
    BY <1>1, <1>5, AppendProperties DEF Rewarded!Contains
  <2>2. \A i \in 1..(n + 1) : i \in 1..n \/ i = n + 1
    BY <1>1
  <2> HIDE DEF n
  <2>3. ASSUME NEW i \in 1..(n + 1) PROVE stats'[players'[i]] # None
    BY <1>3, <1>5, <2>1, <2>2 DEF n
  <2>4. Distinct(players')
    <3>1. Distinct(players) /\ \A i \in 1..Len(players) : players[i] # u
      BY <2>1 DEF PlayersListed, n
    <3> QED BY <1>1, <1>5, <3>1, DistinctAppend
  <2> QED BY <2>1, <2>3, <2>4 DEF PlayersListed
<1> QED BY <1>4, <1>5, PlayersJoin DEF Joined

-----------------------------------------------------------------------------
(* The leaderboard *)

(* An element is put between those before k and those from there on. *)
LEMMA PutBetween ==
  ASSUME NEW S, NEW s \in Seq(S), NEW e \in S, NEW k \in 1..(Len(s) + 1)
  PROVE  LET t == Rewarded!InsertAt(s, k, e) IN
         /\ t \in Seq(S) /\ Len(t) = Len(s) + 1
         /\ \A i \in 1..(Len(s) + 1) :
              t[i] = IF i < k THEN s[i] ELSE IF i = k THEN e ELSE s[i - 1]
<1> DEFINE n == Len(s)
           lead == SubSeq(s, 1, k - 1)
           tail == SubSeq(s, k, n)
           front == lead \o <<e>>
           t == front \o tail
<1>1. n \in Nat /\ \A i \in 1..n : s[i] \in S
  BY LenProperties, ElementOfSeq
<1> HIDE DEF n
<1>2. k \in Nat /\ 1 <= k /\ k <= n + 1
  BY <1>1 DEF n
<1>3. lead \in Seq(S) /\ Len(lead) = k - 1 /\ \A i \in 1..(k - 1) : lead[i] = s[i]
  <2>1. \A i \in 1..(k - 1) : s[i] \in S
    BY <1>1, <1>2
  <2>2. /\ lead \in Seq(S) /\ Len(lead) = IF 1 <= k - 1 THEN k - 1 - 1 + 1 ELSE 0
        /\ \A i \in 1..(k - 1 - 1 + 1) : lead[i] = s[1 + i - 1]
    BY <1>2, <2>1, SubSeqProperties
  <2> HIDE DEF lead
  <2> QED BY <1>2, <2>2
<1>4. tail \in Seq(S) /\ Len(tail) = n - k + 1 /\ \A i \in 1..(n - k + 1) : tail[i] = s[k + i - 1]
  <2>1. \A i \in k..n : s[i] \in S
    BY <1>1, <1>2
  <2>2. /\ tail \in Seq(S) /\ Len(tail) = IF k <= n THEN n - k + 1 ELSE 0
        /\ \A i \in 1..(n - k + 1) : tail[i] = s[k + i - 1]
    BY <1>1, <1>2, <2>1, SubSeqProperties
  <2> HIDE DEF tail
  <2> QED BY <1>1, <1>2, <2>2
<1> HIDE DEF lead, tail
<1>5. <<e>> \in Seq(S) /\ Len(<<e>>) = 1 /\ <<e>>[1] = e
  OBVIOUS
<1>6. /\ front \in Seq(S) /\ Len(front) = k
      /\ \A i \in 1..k : front[i] = IF i <= k - 1 THEN lead[i] ELSE <<e>>[i - (k - 1)]
  BY <1>2, <1>3, <1>5, ConcatProperties
<1> HIDE DEF front
<1>7. /\ t \in Seq(S) /\ Len(t) = n + 1
      /\ \A i \in 1..(n + 1) : t[i] = IF i <= k THEN front[i] ELSE tail[i - k]
  <2>1. Len(front) + Len(tail) = n + 1
    BY <1>1, <1>2, <1>4, <1>6
  <2>2. /\ t \in Seq(S) /\ Len(t) = Len(front) + Len(tail)
        /\ \A i \in 1..(Len(front) + Len(tail)) :
             t[i] = IF i <= Len(front) THEN front[i] ELSE tail[i - Len(front)]
    BY <1>4, <1>6, ConcatProperties
  <2> HIDE DEF t
  <2> QED BY <1>6, <2>1, <2>2
<1>8. Rewarded!InsertAt(s, k, e) = t
  BY DEF Rewarded!InsertAt, lead, tail, front, n
<1> HIDE DEF t
<1>9. ASSUME NEW i \in 1..(n + 1)
      PROVE  t[i] = IF i < k THEN s[i] ELSE IF i = k THEN e ELSE s[i - 1]
  <2>1. CASE i < k
    <3>1. i \in 1..k /\ i <= k /\ i <= k - 1 /\ i \in 1..(k - 1)
      BY <1>2, <2>1
    <3> QED BY <1>3, <1>6, <1>7, <2>1, <3>1
  <2>2. CASE i = k
    <3>1. i \in 1..k /\ i <= k /\ ~(i <= k - 1) /\ i - (k - 1) = 1
      BY <1>2, <2>2
    <3> QED BY <1>5, <1>6, <1>7, <2>2, <3>1
  <2>3. CASE i > k
    <3>1. ~(i <= k) /\ i - k \in 1..(n - k + 1) /\ k + (i - k) - 1 = i - 1 /\ ~(i < k) /\ i # k
      BY <1>1, <1>2, <2>3
    <3> QED BY <1>4, <1>7, <3>1
  <2> QED BY <1>2, <2>1, <2>2, <2>3
<1> QED BY <1>7, <1>8, <1>9 DEF n

(* Who of the first n is ahead of the k-th: those with a larger key, or the *)
(* same and an earlier turn.                                                *)
Ahead(key, n, k) == {j \in 1..n : key[j] > key[k] \/ (key[j] = key[k] /\ j < k)}
Place(key, n, k) == Cardinality(Ahead(key, n, k)) + 1

LEMMA IndicesCounted ==
  ASSUME NEW n \in Nat, NEW P \in SUBSET (1..n)
  PROVE  IsFiniteSet(P) /\ Cardinality(P) \in 0..n
<1>1. 1 \in Int /\ n \in Int
  OBVIOUS
<1>2. IsFiniteSet(1..n) /\ Cardinality(1..n) = n
  <2>1. IsFiniteSet(1..n) /\ Cardinality(1..n) = IF 1 > n THEN 0 ELSE n - 1 + 1
    BY <1>1, FS_Interval
  <2> QED BY <2>1
<1>3. IsFiniteSet(P) /\ Cardinality(P) <= Cardinality(1..n)
  BY <1>2, FS_Subset
<1>4. Cardinality(P) \in Nat
  BY <1>3, FS_CardinalityType
<1> QED BY <1>2, <1>3, <1>4

(* Who is behind another has a later place. *)
LEMMA PlacesDiffer ==
  ASSUME NEW n \in Nat, NEW key, \A i \in 1..n : key[i] \in Int,
         NEW k \in 1..n, NEW l \in 1..n, k # l
  PROVE  Place(key, n, k) # Place(key, n, l)
<1>1. ASSUME NEW a \in 1..n, NEW b \in 1..n, a \in Ahead(key, n, b)
      PROVE  Place(key, n, a) # Place(key, n, b)
  <2>1. Ahead(key, n, a) \cup {a} \subseteq Ahead(key, n, b)
    BY <1>1 DEF Ahead
  <2>2. a \notin Ahead(key, n, a)
    BY DEF Ahead
  <2>3. Ahead(key, n, a) \in SUBSET (1..n) /\ Ahead(key, n, b) \in SUBSET (1..n)
    BY DEF Ahead
  <2>4. /\ IsFiniteSet(Ahead(key, n, a)) /\ Cardinality(Ahead(key, n, a)) \in Nat
        /\ IsFiniteSet(Ahead(key, n, b)) /\ Cardinality(Ahead(key, n, b)) \in Nat
    BY <2>3, IndicesCounted
  <2>5. Cardinality(Ahead(key, n, a) \cup {a}) = Cardinality(Ahead(key, n, a)) + 1
    BY <2>2, <2>4, FS_AddElement
  <2>6. Cardinality(Ahead(key, n, a) \cup {a}) <= Cardinality(Ahead(key, n, b))
    BY <2>1, <2>4, FS_Subset
  <2> QED BY <2>4, <2>5, <2>6 DEF Place
<1>2. k \in Ahead(key, n, l) \/ l \in Ahead(key, n, k)
  BY DEF Ahead
<1> QED BY <1>1, <1>2

LEMMA PlaceInside ==
  ASSUME NEW n \in Nat, NEW key, \A i \in 1..n : key[i] \in Int, NEW k \in 1..n
  PROVE  /\ Place(key, n, k) \in 1..n /\ k \notin Ahead(key, n, k)
         /\ IsFiniteSet(Ahead(key, n, k)) /\ Cardinality(Ahead(key, n, k)) \in 0..n
<1>1. Ahead(key, n, k) \in SUBSET (1..n) /\ k \notin Ahead(key, n, k)
  BY DEF Ahead
<1>2. IsFiniteSet(Ahead(key, n, k)) /\ Cardinality(Ahead(key, n, k)) \in 0..n
  BY <1>1, IndicesCounted
<1>3. Cardinality(Ahead(key, n, k) \cup {k}) = Cardinality(Ahead(key, n, k)) + 1
  BY <1>1, <1>2, FS_AddElement
<1>4. Cardinality(Ahead(key, n, k) \cup {k}) \in 0..n
  <2>1. Ahead(key, n, k) \cup {k} \in SUBSET (1..n)
    BY <1>1
  <2> QED BY <2>1, IndicesCounted
<1> QED BY <1>1, <1>2, <1>3, <1>4 DEF Place

(* One more: those with a smaller key make place. *)
LEMMA PlacesMove ==
  ASSUME NEW n \in Nat, NEW key, \A i \in 1..(n + 1) : key[i] \in Int
  PROVE  /\ Place(key, n + 1, n + 1) \in 1..(n + 1)
         /\ \A k \in 1..n :
              /\ Place(key, n, k) \in 1..n
              /\ key[k] >= key[n + 1] =>
                   /\ Place(key, n + 1, k) = Place(key, n, k)
                   /\ Place(key, n, k) < Place(key, n + 1, n + 1)
              /\ key[k] < key[n + 1] =>
                   /\ Place(key, n + 1, k) = Place(key, n, k) + 1
                   /\ Place(key, n, k) >= Place(key, n + 1, n + 1)
<1> DEFINE Over == Ahead(key, n + 1, n + 1)
<1>1. n + 1 \notin Over /\ \A j \in 1..n : j \in Over <=> key[j] >= key[n + 1]
  BY DEF Ahead
<1>2. Over \in SUBSET (1..n)
  BY DEF Ahead
<1>3. IsFiniteSet(Over) /\ Cardinality(Over) \in 0..n
  BY <1>2, IndicesCounted
<1>4. ASSUME NEW k \in 1..n
      PROVE  /\ Place(key, n, k) \in 1..n /\ k \notin Ahead(key, n, k)
             /\ IsFiniteSet(Ahead(key, n, k)) /\ Cardinality(Ahead(key, n, k)) \in 0..n
  <2>1. \A i \in 1..n : key[i] \in Int
    OBVIOUS
  <2> QED BY <2>1, PlaceInside
<1>6. ASSUME NEW k \in 1..n, key[k] >= key[n + 1]
      PROVE  Place(key, n + 1, k) = Place(key, n, k) /\ Place(key, n, k) < Place(key, n + 1, n + 1)
  <2>1. Ahead(key, n + 1, k) = Ahead(key, n, k)
    BY <1>6 DEF Ahead
  <2>2. Ahead(key, n, k) \cup {k} \subseteq Over
    BY <1>6 DEF Ahead
  <2>3. Cardinality(Ahead(key, n, k) \cup {k}) <= Cardinality(Over)
    BY <1>3, <2>2, FS_Subset
  <2>4. Cardinality(Ahead(key, n, k) \cup {k}) = Cardinality(Ahead(key, n, k)) + 1
    BY <1>4, FS_AddElement
  <2>5. Cardinality(Ahead(key, n, k)) \in 0..n
    BY <1>4
  <2> HIDE DEF Over
  <2>6. Place(key, n + 1, n + 1) = Cardinality(Over) + 1
    BY DEF Place, Over
  <2>7. Place(key, n + 1, k) = Place(key, n, k) /\ Place(key, n, k) = Cardinality(Ahead(key, n, k)) + 1
    BY <2>1 DEF Place
  <2> QED BY <1>3, <2>3, <2>4, <2>5, <2>6, <2>7
<1>7. ASSUME NEW k \in 1..n, key[k] < key[n + 1]
      PROVE  Place(key, n + 1, k) = Place(key, n, k) + 1 /\ Place(key, n, k) >= Place(key, n + 1, n + 1)
  <2>1. Ahead(key, n + 1, k) = Ahead(key, n, k) \cup {n + 1} /\ n + 1 \notin Ahead(key, n, k)
    <3>1. \A j \in 1..(n + 1) : j \in 1..n \/ j = n + 1
      OBVIOUS
    <3>2. n + 1 \in 1..(n + 1) /\ n + 1 \notin 1..n /\ 1..n \subseteq 1..(n + 1)
      OBVIOUS
    <3> QED BY <1>7, <3>1, <3>2 DEF Ahead
  <2>2. Over \subseteq Ahead(key, n, k)
    BY <1>1, <1>2, <1>7 DEF Ahead
  <2>3. Cardinality(Over) <= Cardinality(Ahead(key, n, k))
    BY <1>4, <2>2, FS_Subset
  <2>4. Cardinality(Ahead(key, n + 1, k)) = Cardinality(Ahead(key, n, k)) + 1
    BY <1>4, <2>1, FS_AddElement
  <2>5. Cardinality(Ahead(key, n, k)) \in 0..n
    BY <1>4
  <2> HIDE DEF Over
  <2>6. Place(key, n + 1, n + 1) = Cardinality(Over) + 1
    BY DEF Place, Over
  <2> QED BY <1>3, <2>3, <2>4, <2>5, <2>6 DEF Place
<1>8. Place(key, n + 1, n + 1) \in 1..(n + 1)
  <2> HIDE DEF Over
  <2>1. Place(key, n + 1, n + 1) = Cardinality(Over) + 1
    BY DEF Place, Over
  <2> QED BY <1>3, <2>1
<1> QED BY <1>4, <1>6, <1>7, <1>8

-----------------------------------------------------------------------------
(* The keys of the players, in the order in which they registered. *)
Keys(metric) == [k \in 1..Len(players) |-> Rewarded!SortKey(players[k], metric)]

LEMMA KeysTyped ==
  ASSUME Rewarded!TypeOK, PlayersListed, NEW metric \in Rewarded!Metric
  PROVE  /\ players \in Seq(People) /\ Len(players) \in Nat /\ DOMAIN players = 1..Len(players)
         /\ \A k \in 1..Len(players) :
              /\ players[k] \in People
              /\ Keys(metric)[k] = Rewarded!SortKey(players[k], metric) /\ Keys(metric)[k] \in Int
<1>1. players \in Seq(People) /\ stats \in [People -> Rewarded!Stats \cup {None}]
  BY DEF Rewarded!TypeOK
<1>2. /\ Len(players) \in Nat /\ DOMAIN players = 1..Len(players)
      /\ \A k \in 1..Len(players) : players[k] \in People
  BY <1>1, ElementOfSeq, LenProperties
<1>3. ASSUME NEW k \in 1..Len(players) PROVE Rewarded!SortKey(players[k], metric) \in Int
  <2>1. stats[players[k]] \in Rewarded!Stats
    BY <1>1, <1>2 DEF PlayersListed
  <2>2. ASSUME NEW s \in Rewarded!Stats
        PROVE  /\ s.total_score \in Int /\ s.successful_trades \in Int
               /\ s.best_roi_bps \in Int /\ s.best_streak \in Int
    <3>1. /\ s.total_score \in 0..100 /\ s.successful_trades \in Nat
          /\ s.best_roi_bps \in Int /\ s.best_streak \in Nat
      BY DEF Rewarded!Stats
    <3>2. 0..100 \subseteq Int /\ Nat \subseteq Int
      OBVIOUS
    <3> QED BY <3>1, <3>2, Zenon
  <2> QED BY <2>1, <2>2 DEF Rewarded!SortKey, Rewarded!Metric
<1> QED BY <1>1, <1>2, <1>3 DEF Keys

(* A board of the first n players, each in its place. *)
OnBoard(b, key, n) ==
  /\ b \in Seq(People) /\ Len(b) = n
  /\ \A i \in 1..n : \E k \in 1..n : b[i] = players[k] /\ Place(key, n, k) = i

(* Where a player is put in. *)
LEMMA InsertedAt ==
  ASSUME NEW b \in Seq(People), NEW u \in People, NEW metric, NEW P,
         P = {i \in 1..Len(b) : Rewarded!SortKey(b[i], metric) >= Rewarded!SortKey(u, metric)}
  PROVE  /\ Cardinality(P) + 1 \in 1..(Len(b) + 1)
         /\ Rewarded!Inserted(b, u, metric) = Rewarded!InsertAt(b, Cardinality(P) + 1, u)
         /\ Rewarded!Inserted(b, u, metric) \in Seq(People)
<1>1. Len(b) \in Nat /\ DOMAIN b = 1..Len(b)
  BY LenProperties
<1>2. Rewarded!Inserted(b, u, metric) = Rewarded!InsertAt(b, Cardinality(P) + 1, u)
  BY <1>1, GameOperatorsAlike DEF Rewarded!Inserted, Rewarded!InList
<1>3. Cardinality(P) + 1 \in 1..(Len(b) + 1)
  <2>1. P \in SUBSET (1..Len(b))
    OBVIOUS
  <2>2. Cardinality(P) \in 0..Len(b)
    BY <1>1, <2>1, IndicesCounted
  <2> QED BY <1>1, <2>2
<1>4. Rewarded!InsertAt(b, Cardinality(P) + 1, u) \in Seq(People)
  BY <1>3, PutBetween
<1> QED BY <1>2, <1>3, <1>4

LEMMA BoardGrows ==
  ASSUME Rewarded!TypeOK, PlayersListed, NEW metric \in Rewarded!Metric,
         NEW n \in Nat, n + 1 \in 1..Len(players), NEW b, OnBoard(b, Keys(metric), n)
  PROVE  OnBoard(Rewarded!Inserted(b, players[n + 1], metric), Keys(metric), n + 1)
<1> DEFINE key == Keys(metric)
           u == players[n + 1]
           at == Place(key, n + 1, n + 1)
           P == {i \in 1..Len(b) : Rewarded!SortKey(b[i], metric) >= Rewarded!SortKey(u, metric)}
           t == Rewarded!Inserted(b, u, metric)
<1>1. /\ \A k \in 1..(n + 1) : k \in 1..Len(players)
      /\ \A k \in 1..(n + 1) : key[k] = Rewarded!SortKey(players[k], metric) /\ key[k] \in Int
      /\ u \in People /\ n + 1 \in 1..(n + 1) /\ 1..n \subseteq 1..(n + 1)
  BY KeysTyped
<1>0. key[n + 1] = Rewarded!SortKey(u, metric)
  BY <1>1
<1>2. b \in Seq(People) /\ Len(b) = n /\ \A i \in 1..n : \E k \in 1..n : b[i] = players[k] /\ Place(key, n, k) = i
  BY DEF OnBoard
<1>3. /\ at \in 1..(n + 1)
      /\ \A k \in 1..n :
           /\ Place(key, n, k) \in 1..n
           /\ key[k] >= key[n + 1] => Place(key, n + 1, k) = Place(key, n, k) /\ Place(key, n, k) < at
           /\ key[k] < key[n + 1] => Place(key, n + 1, k) = Place(key, n, k) + 1 /\ Place(key, n, k) >= at
  <2> HIDE DEF key
  <2> QED BY <1>1, PlacesMove
<1>4. \A k \in 1..n : key[k] \in Int /\ key[n + 1] \in Int /\ (key[k] >= key[n + 1] \/ key[k] < key[n + 1])
  BY <1>1
<1> HIDE DEF key, at, u
<1>5. P = 1..(at - 1)
  <2>1. ASSUME NEW i \in 1..n PROVE i \in P <=> i < at
    <3>1. PICK k \in 1..n : b[i] = players[k] /\ Place(key, n, k) = i
      BY <1>2
    <3>2. i \in P <=> key[k] >= key[n + 1]
      <4>1. Rewarded!SortKey(b[i], metric) = key[k]
        BY <1>1, <3>1
      <4> QED BY <1>0, <1>2, <4>1
    <3>3. key[k] >= key[n + 1] <=> i < at
      <4>1. i \in Nat /\ at \in Nat
        BY <1>3
      <4> QED BY <1>3, <1>4, <3>1, <4>1
    <3> QED BY <3>2, <3>3
  <2>2. P \subseteq 1..n
    BY <1>2
  <2>3. at \in Nat /\ at <= n + 1
    BY <1>3
  <2>4. 1..(at - 1) \subseteq 1..n /\ \A i \in 1..n : i \in 1..(at - 1) <=> i < at
    BY <2>3
  <2> HIDE DEF P
  <2> QED BY <2>1, <2>2, <2>4
<1>6. Cardinality(P) + 1 = at
  <2>1. at \in Nat /\ at >= 1 /\ 1 \in Int /\ at - 1 \in Int
    BY <1>3
  <2>2. Cardinality(1..(at - 1)) = IF 1 > at - 1 THEN 0 ELSE at - 1 - 1 + 1
    BY <2>1, FS_Interval
  <2> HIDE DEF P
  <2> QED BY <1>5, <2>1, <2>2
<1>7. t = Rewarded!InsertAt(b, at, u) /\ t \in Seq(People)
  <2>1. t = Rewarded!InsertAt(b, Cardinality(P) + 1, u) /\ t \in Seq(People)
    BY <1>1, <1>2, InsertedAt
  <2> HIDE DEF P, t, u
  <2> QED BY <1>6, <2>1
<1> HIDE DEF P, t, u
<1>8. /\ Len(t) = n + 1
      /\ \A i \in 1..(n + 1) : t[i] = IF i < at THEN b[i] ELSE IF i = at THEN u ELSE b[i - 1]
  <2>1. at \in 1..(Len(b) + 1)
    BY <1>2, <1>3
  <2>2. LET r == Rewarded!InsertAt(b, at, u) IN
        /\ Len(r) = Len(b) + 1
        /\ \A i \in 1..(Len(b) + 1) : r[i] = IF i < at THEN b[i] ELSE IF i = at THEN u ELSE b[i - 1]
    <3>1. b \in Seq(People) /\ u \in People
      BY <1>1, <1>2
    <3> QED BY <2>1, <3>1, PutBetween
  <2> QED BY <1>2, <1>7, <2>2
<1>9. ASSUME NEW i \in 1..(n + 1)
      PROVE  \E k \in 1..(n + 1) : t[i] = players[k] /\ Place(key, n + 1, k) = i
  <2>0. i \in Nat /\ at \in Nat /\ at >= 1 /\ at <= n + 1 /\ i <= n + 1 /\ i >= 1
    BY <1>3
  <2>1. CASE i = at
    BY <1>1, <1>8, <2>0, <2>1 DEF u, at
  <2>2. CASE i < at
    <3>1. i \in 1..n /\ t[i] = b[i]
      BY <1>8, <2>0, <2>2
    <3>2. PICK k \in 1..n : b[i] = players[k] /\ Place(key, n, k) = i
      BY <1>2, <3>1
    <3>3. ~(key[k] < key[n + 1])
      BY <1>3, <2>0, <2>2, <3>2
    <3>4. Place(key, n + 1, k) = i
      BY <1>3, <1>4, <3>2, <3>3
    <3> QED BY <1>1, <3>1, <3>2, <3>4
  <2>3. CASE i > at
    <3>1. i - 1 \in 1..n /\ t[i] = b[i - 1] /\ i - 1 >= at
      BY <1>8, <2>0, <2>3
    <3>2. PICK k \in 1..n : b[i - 1] = players[k] /\ Place(key, n, k) = i - 1
      BY <1>2, <3>1
    <3>3. ~(key[k] >= key[n + 1])
      BY <1>3, <2>0, <2>3, <3>1, <3>2
    <3>4. Place(key, n + 1, k) = i
      BY <1>3, <1>4, <2>0, <3>2, <3>3
    <3> QED BY <1>1, <3>1, <3>2, <3>4
  <2> QED BY <2>0, <2>1, <2>2, <2>3
<1> QED BY <1>7, <1>8, <1>9 DEF OnBoard, key, t, u

(* The board that build_leaderboard sorts has each player in its place. *)
LEMMA BoardSorted ==
  ASSUME Rewarded!TypeOK, PlayersListed, NEW metric \in Rewarded!Metric
  PROVE  OnBoard(Rewarded!Sorted(metric), Keys(metric), Len(players))
<1> DEFINE n == Len(players)
           Body(f) == [i \in 0..n |->
                         IF i = 0 THEN <<>> ELSE Rewarded!Inserted(f[i - 1], players[i], metric)]
           step == [p \in (1..n) \X Seq(People) |-> Rewarded!Inserted(p[2], players[p[1]], metric)]
           after == CHOOSE f : f = Body(f)
<1>1. n \in Nat /\ \A i \in 1..n : players[i] \in People
  BY KeysTyped
<1>2. step \in [(1..n) \X Seq(People) -> Seq(People)]
  <2>1. \A b \in Seq(People), u \in People : Rewarded!Inserted(b, u, metric) \in Seq(People)
    BY InsertedAt
  <2> HIDE DEF n
  <2> QED BY <1>1, <2>1
<1>3. PICK g : Runs(g, n, Seq(People), <<>>, step)
  <2>1. <<>> \in Seq(People)
    OBVIOUS
  <2> HIDE DEF step, n
  <2> QED BY <1>1, <1>2, <2>1, Iterates
<1>4. g = Body(g)
  <2>1. /\ g \in [0..n -> Seq(People)] /\ g[0] = <<>>
        /\ \A i \in 1..n : g[i] = step[<<i, g[i - 1]>>]
    BY <1>3 DEF Runs
  <2>2. ASSUME NEW i \in 1..n PROVE g[i] = Rewarded!Inserted(g[i - 1], players[i], metric)
    <3>1. <<i, g[i - 1]>> \in (1..n) \X Seq(People)
      <4>1. i - 1 \in 0..n
        BY <1>1
      <4> HIDE DEF n
      <4> QED BY <2>1, <4>1
    <3> QED BY <2>1, <3>1
  <2>3. \A i \in 0..n : g[i] = Body(g)[i]
    BY <1>1, <2>1, <2>2
  <2>4. g = [i \in 0..n |-> g[i]]
    BY <2>1
  <2> HIDE DEF n
  <2> QED BY <2>3, <2>4
<1>5. Rewarded!Sorted(metric) = after[n]
  BY DEF Rewarded!Sorted
<1>6. after = Body(after)
  <2> HIDE DEF Body
  <2> QED BY <1>4, Zenon
<1> HIDE DEF after
<1>7. after[0] = <<>> /\ \A i \in 1..n : after[i] = Rewarded!Inserted(after[i - 1], players[i], metric)
  <2> DEFINE E(i) == IF i = 0 THEN <<>> ELSE Rewarded!Inserted(after[i - 1], players[i], metric)
  <2>1. after = [i \in 0..n |-> E(i)]
    BY <1>6
  <2> HIDE DEF E, n
  <2>2. \A i \in 0..n : after[i] = E(i)
    BY <2>1
  <2> USE DEF E
  <2>3. after[0] = <<>>
    BY <1>1, <2>2
  <2>4. ASSUME NEW i \in 1..n PROVE after[i] = Rewarded!Inserted(after[i - 1], players[i], metric)
    <3>1. i \in 0..n /\ i # 0
      BY <1>1
    <3> QED BY <2>2, <3>1
  <2> QED BY <2>3, <2>4
<1> DEFINE S == {i \in 0..n : OnBoard(after[i], Keys(metric), i)}
<1>8. 0 \in S
  <2>1. <<>> \in Seq(People) /\ Len(<<>>) = 0 /\ 1..0 = {}
    OBVIOUS
  <2>2. OnBoard(<<>>, Keys(metric), 0)
    BY <2>1 DEF OnBoard
  <2> QED BY <1>1, <1>7, <2>2
<1>9. ASSUME NEW i \in 0..n, i < n, i \in S PROVE i + 1 \in S
  <2>1. i + 1 \in 1..n /\ i + 1 \in 0..n /\ i + 1 - 1 = i /\ i \in Nat
    BY <1>1, <1>9
  <2>2. after[i + 1] = Rewarded!Inserted(after[i], players[i + 1], metric)
    BY <1>7, <2>1
  <2>3. OnBoard(after[i], Keys(metric), i)
    BY <1>9
  <2>4. OnBoard(Rewarded!Inserted(after[i], players[i + 1], metric), Keys(metric), i + 1)
    BY <2>1, <2>3, BoardGrows
  <2> QED BY <2>1, <2>2, <2>4
<1>10. 0..n \subseteq S
  <2> HIDE DEF S, n
  <2> QED BY <1>1, <1>8, <1>9, CountUp
<1> QED BY <1>1, <1>5, <1>10

-----------------------------------------------------------------------------
(* Ranks *)

(* The rank that RanksRight speaks of. *)
Turn(v) == Rewarded!SelectInSeq(players, LAMBDA x : x = v)
Better(v, u, metric) ==
  \/ Rewarded!SortKey(v, metric) > Rewarded!SortKey(u, metric)
  \/ Rewarded!SortKey(v, metric) = Rewarded!SortKey(u, metric) /\ Turn(v) < Turn(u)
Rank(u, metric) == 1 + Rewarded!Cardinality({v \in Rewarded!ToSet(players) : Better(v, u, metric)})

LEMMA TurnsTaken ==
  ASSUME Rewarded!TypeOK, PlayersListed, NEW k \in 1..Len(players)
  PROVE  Turn(players[k]) = k
<1> DEFINE I == {i \in 1..Len(players) : players[i] = players[k]}
<1>1. I = {k}
  BY DEF PlayersListed, Distinct
<1>2. k \in Int
  OBVIOUS
<1>3. Rewarded!Min({k}) = k
  BY <1>2 DEF Rewarded!Min
<1>4. Turn(players[k]) = IF I # {} THEN Rewarded!Min(I) ELSE 0
  BY DEF Turn, Rewarded!SelectInSeq
<1> HIDE DEF I
<1> QED BY <1>1, <1>3, <1>4

LEMMA RankIsPlace ==
  ASSUME Rewarded!TypeOK, PlayersListed, NEW metric \in Rewarded!Metric, NEW k \in 1..Len(players)
  PROVE  Rank(players[k], metric) = Place(Keys(metric), Len(players), k)
<1> DEFINE n == Len(players)
           T == Ahead(Keys(metric), n, k)
           S == {v \in Rewarded!ToSet(players) : Better(v, players[k], metric)}
           name == [j \in T |-> players[j]]
<1>1. /\ n \in Nat /\ Rewarded!ToSet(players) = {players[i] : i \in 1..n}
      /\ \A j \in 1..n : Keys(metric)[j] = Rewarded!SortKey(players[j], metric) /\ Keys(metric)[j] \in Int
  BY KeysTyped, GameOperatorsAlike
<1>2. ASSUME NEW j \in 1..n PROVE j \in T <=> Better(players[j], players[k], metric)
  BY <1>1, TurnsTaken DEF Ahead, Better
<1>3. T \in SUBSET (1..n)
  BY DEF Ahead
<1>4. IsFiniteSet(T) /\ Cardinality(T) \in 0..n
  <2> HIDE DEF T
  <2> QED BY <1>1, <1>3, IndicesCounted
<1>5. name \in [T -> S]
  <2>1. ASSUME NEW j \in T PROVE players[j] \in S
    BY <1>1, <1>2, <1>3
  <2> HIDE DEF T, S
  <2> QED BY <2>1
<1>6. \A i \in T, j \in T : name[i] = name[j] => i = j
  BY <1>3 DEF PlayersListed, Distinct
<1>7. \A x \in S : \E j \in T : name[j] = x
  <2> SUFFICES ASSUME NEW x \in S PROVE \E j \in T : name[j] = x
    OBVIOUS
  <2>1. PICK j \in 1..n : x = players[j]
    BY <1>1
  <2>2. j \in T
    BY <1>2, <2>1
  <2> QED BY <2>1, <2>2
<1>8. Cardinality(S) = Cardinality(T)
  <2> HIDE DEF T, S, name
  <2> QED BY <1>4, <1>5, <1>6, <1>7, SameCount
<1>9. Rank(players[k], metric) = 1 + Cardinality(S)
  BY GameOperatorsAlike DEF Rank
<1> HIDE DEF S, T
<1> QED BY <1>4, <1>8, <1>9 DEF Place, T

(* On the sorted board each player is at its rank. *)
LEMMA BoardRanked ==
  ASSUME Rewarded!TypeOK, PlayersListed, NEW metric \in Rewarded!Metric
  PROVE  LET b == Rewarded!Sorted(metric)
             n == Len(players)
         IN  /\ Len(b) = n /\ n \in Nat
             /\ \A u \in Rewarded!ToSet(players) : Rank(u, metric) \in 1..n /\ b[Rank(u, metric)] = u
             /\ \A i \in 1..n : b[i] \in Rewarded!ToSet(players) /\ Rank(b[i], metric) = i
<1> DEFINE b == Rewarded!Sorted(metric)
           n == Len(players)
           key == Keys(metric)
<1>1. /\ n \in Nat /\ Rewarded!ToSet(players) = {players[i] : i \in 1..n}
      /\ \A k \in 1..n : key[k] \in Int
  BY KeysTyped, GameOperatorsAlike
<1>2. /\ Len(b) = n
      /\ \A i \in 1..n : \E k \in 1..n : b[i] = players[k] /\ Place(key, n, k) = i
  BY BoardSorted DEF OnBoard
<1>3. \A k \in 1..n : Rank(players[k], metric) = Place(key, n, k)
  BY RankIsPlace
<1> HIDE DEF b, n, key
<1>4. \A k \in 1..n : Place(key, n, k) \in 1..n
  BY <1>1, PlaceInside
<1>5. ASSUME NEW u \in Rewarded!ToSet(players)
      PROVE  Rank(u, metric) \in 1..n /\ b[Rank(u, metric)] = u
  <2>1. PICK k \in 1..n : u = players[k]
    BY <1>1
  <2>2. Place(key, n, k) \in 1..n /\ Rank(u, metric) = Place(key, n, k)
    BY <1>3, <1>4, <2>1
  <2>3. PICK l \in 1..n : b[Place(key, n, k)] = players[l] /\ Place(key, n, l) = Place(key, n, k)
    BY <1>2, <2>2
  <2>4. l = k
    BY <1>1, <2>3, PlacesDiffer
  <2> QED BY <2>1, <2>2, <2>3, <2>4
<1>6. ASSUME NEW i \in 1..n
      PROVE  b[i] \in Rewarded!ToSet(players) /\ Rank(b[i], metric) = i
  BY <1>1, <1>2, <1>3
<1> QED BY <1>1, <1>2, <1>5, <1>6 DEF b, n

(* What a page shows: how many players, and which is the last. *)
Size(count) == Lower(count, MaxReturn)
LastShown(offset, count) == Lower(offset + Size(count), Len(players))

LEMMA PageShown ==
  ASSUME Rewarded!TypeOK, PlayersListed, NEW metric \in Rewarded!Metric,
         NEW offset \in 0..Len(players), NEW count \in Nat
  PROVE  LET page == Rewarded!Leaderboard(metric, offset, count)
             last == LastShown(offset, count)
         IN  /\ Size(count) \in Nat /\ Rewarded!Min({count, MaxReturn}) = Size(count)
             /\ last \in offset..Len(players)
             /\ last <= offset + Size(count) /\ (last = Len(players) \/ last = offset + Size(count))
             /\ DOMAIN page = 1..(last - offset) /\ Len(page) = last - offset
             /\ \A i \in 1..(last - offset) :
                  page[i] = [rank |-> offset + i, user |-> Rewarded!Sorted(metric)[offset + i]]
<1> DEFINE n == Len(players)
           b == Rewarded!Sorted(metric)
           size == Size(count)
           last == LastShown(offset, count)
           page == [i \in 1..(last - offset) |-> [rank |-> offset + i, user |-> b[offset + i]]]
<1>1. n \in Nat /\ Len(b) = n
  BY BoardRanked
<1>2. MaxReturn \in Nat
  <2>1. MaxReturn \in 0..500
    BY GameAssumed DEF Rewarded!GamificationAssumption
  <2> QED BY <2>1
<1>3. /\ size \in Nat /\ last \in offset..n /\ last <= offset + size
      /\ last = n \/ last = offset + size
  BY <1>1, <1>2 DEF Lower, Size, LastShown
<1>4. Rewarded!Min({count, MaxReturn}) = size
  BY <1>2, GameEnds DEF Size
<1>5. Rewarded!Min({offset, n}) = offset
  <2>1. offset \in Int /\ n \in Int /\ offset <= n
    BY <1>1 DEF n
  <2>2. Rewarded!Min({offset, n}) = Lower(offset, n)
    BY <2>1, GameEnds
  <2> QED BY <2>1, <2>2 DEF Lower
<1>6. Rewarded!Min({offset + size, n}) = last
  <2> HIDE DEF size
  <2>1. offset + size \in Int /\ n \in Int
    BY <1>1, <1>3
  <2>2. Rewarded!Min({offset + size, n}) = Lower(offset + size, n)
    BY <2>1, GameEnds
  <2> QED BY <2>2 DEF LastShown, size
<1> HIDE DEF b, n, size, last
<1>7. Rewarded!Leaderboard(metric, offset, count) = page
  BY <1>1, <1>4, <1>5, <1>6 DEF Rewarded!Leaderboard, b
<1>8. /\ DOMAIN page = 1..(last - offset) /\ Len(page) = last - offset
      /\ \A i \in 1..(last - offset) : page[i] = [rank |-> offset + i, user |-> b[offset + i]]
  <2>1. last - offset \in Nat
    BY <1>1, <1>3
  <2> QED BY <2>1
<1> HIDE DEF page
<1> QED BY <1>3, <1>4, <1>7, <1>8 DEF b, n, size, last

LEMMA PagesRight ==
  ASSUME Rewarded!TypeOK, PlayersListed, NEW metric \in Rewarded!Metric,
         NEW offset \in 0..Len(players), NEW count \in Nat
  PROVE  {[rank |-> Rank(u, metric), user |-> u] :
            u \in {v \in Rewarded!ToSet(players) :
                     Rank(v, metric) \in (offset + 1)..(offset + Rewarded!Min({count, MaxReturn}))}}
         = Rewarded!ToSet(Rewarded!Leaderboard(metric, offset, count))
<1> DEFINE b == Rewarded!Sorted(metric)
           n == Len(players)
           size == Size(count)
           last == LastShown(offset, count)
           Row(i) == [rank |-> offset + i, user |-> b[offset + i]]
           page == Rewarded!Leaderboard(metric, offset, count)
           Shown == {v \in Rewarded!ToSet(players) : Rank(v, metric) \in (offset + 1)..(offset + size)}
           Rows == {[rank |-> Rank(u, metric), user |-> u] : u \in Shown}
<1>1. /\ size \in Nat /\ last \in offset..n
      /\ Rewarded!Min({count, MaxReturn}) = size
      /\ last <= offset + size /\ (last = n \/ last = offset + size)
      /\ DOMAIN page = 1..(last - offset)
      /\ \A i \in 1..(last - offset) : page[i] = Row(i)
  BY PageShown
<1>2. /\ n \in Nat
      /\ \A u \in Rewarded!ToSet(players) : Rank(u, metric) \in 1..n /\ b[Rank(u, metric)] = u
      /\ \A i \in 1..n : b[i] \in Rewarded!ToSet(players) /\ Rank(b[i], metric) = i
  BY BoardRanked
<1>3. Rewarded!ToSet(page) = {page[i] : i \in 1..(last - offset)}
  <2> HIDE DEF page, Row, last
  <2> QED BY <1>1, GameOperatorsAlike
<1> HIDE DEF b, n, size, last, page
<1>5. ASSUME NEW u \in Shown
      PROVE  \E i \in 1..(last - offset) : [rank |-> Rank(u, metric), user |-> u] = page[i]
  <2> DEFINE r == Rank(u, metric)
  <2>1. r \in 1..n /\ b[r] = u /\ r \in (offset + 1)..(offset + size)
    BY <1>2
  <2> HIDE DEF r
  <2>2. r - offset \in 1..(last - offset) /\ offset + (r - offset) = r
    BY <1>1, <1>2, <2>1
  <2>3. Row(r - offset) = [rank |-> r, user |-> u]
    BY <2>1, <2>2
  <2> HIDE DEF Row
  <2>4. page[r - offset] = [rank |-> r, user |-> u]
    BY <1>1, <2>2, <2>3
  <2> QED BY <2>2, <2>4 DEF r
<1>6. ASSUME NEW i \in 1..(last - offset) PROVE page[i] \in Rows
  <2> DEFINE u == b[offset + i]
  <2>1. offset + i \in 1..n /\ offset + i \in (offset + 1)..(offset + size)
    BY <1>1, <1>2
  <2>2. u \in Shown /\ Rank(u, metric) = offset + i
    BY <1>2, <2>1
  <2>3. page[i] = [rank |-> Rank(u, metric), user |-> u]
    BY <1>1, <2>2
  <2> HIDE DEF u, Shown
  <2> QED BY <2>2, <2>3
<1>7. Rows = {page[i] : i \in 1..(last - offset)}
  <2> HIDE DEF Shown
  <2> QED BY <1>5, <1>6
<1> QED BY <1>1, <1>3, <1>7 DEF page

LEMMA RankTold ==
  ASSUME Rewarded!TypeOK, PlayersListed, NEW metric \in Rewarded!Metric,
         NEW u \in Rewarded!ToSet(players)
  PROVE  Rewarded!UserRank(u, metric) = IF Rank(u, metric) <= MaxReturn THEN Rank(u, metric) ELSE None
<1> DEFINE b == Rewarded!Sorted(metric)
           n == Len(players)
           r == Rank(u, metric)
           last == LastShown(0, 500)
           page == Rewarded!Leaderboard(metric, 0, 500)
           I == {k \in 1..Len(page) : page[k].user = u}
           i == IF I # {} THEN Rewarded!Min(I) ELSE 0
<1>0. MaxReturn \in 0..500 /\ Size(500) = MaxReturn
  <2>1. MaxReturn \in 0..500
    BY GameAssumed DEF Rewarded!GamificationAssumption
  <2> QED BY <2>1 DEF Size, Lower
<1>1. /\ n \in Nat /\ r \in 1..n /\ b[r] = u
      /\ \A k \in 1..n : Rank(b[k], metric) = k
  BY BoardRanked
<1>2. /\ last \in 0..n /\ last <= 0 + Size(500) /\ (last = n \/ last = 0 + Size(500))
      /\ Len(page) = last - 0
      /\ \A k \in 1..(last - 0) : page[k] = [rank |-> 0 + k, user |-> b[0 + k]]
  <2> DEFINE offset == 0
             count == 500
  <2>1. offset \in 0..n /\ count \in Nat
    BY <1>1
  <2> HIDE DEF offset, count
  <2>2. /\ LastShown(offset, count) \in offset..n /\ LastShown(offset, count) <= offset + Size(count)
        /\ LastShown(offset, count) = n \/ LastShown(offset, count) = offset + Size(count)
        /\ Len(Rewarded!Leaderboard(metric, offset, count)) = LastShown(offset, count) - offset
        /\ \A k \in 1..(LastShown(offset, count) - offset) :
             Rewarded!Leaderboard(metric, offset, count)[k] = [rank |-> offset + k, user |-> b[offset + k]]
    BY <2>1, PageShown
  <2> QED BY <2>2, Zenon DEF offset, count
<1>3. Rewarded!UserRank(u, metric) = IF i = 0 THEN None ELSE page[i].rank
  BY DEF Rewarded!UserRank, Rewarded!SelectInSeq
<1> HIDE DEF b, n, r, last, page
<1>4. /\ last \in 0..n /\ last <= MaxReturn /\ (last = n \/ last = MaxReturn)
      /\ Len(page) = last
      /\ \A k \in 1..last : page[k].user = b[k] /\ page[k].rank = k
  <2>1. last \in Nat /\ 0 + MaxReturn = MaxReturn /\ last - 0 = last /\ \A k \in 1..last : 0 + k = k
    BY <1>0, <1>1, <1>2
  <2> QED BY <1>0, <1>2, <2>1
<1>5. I = {k \in 1..last : k = r}
  <2>1. \A k \in 1..last : page[k].user = u <=> k = r
    BY <1>1, <1>4 DEF r
  <2> QED BY <1>4, <2>1
<1> HIDE DEF I
<1>6. CASE r <= MaxReturn
  <2>1. r \in 1..last /\ r # 0 /\ r \in Int
    BY <1>0, <1>1, <1>4, <1>6
  <2>2. I = {r}
    BY <1>5, <2>1
  <2>3. Rewarded!Min({r}) = r
    BY <2>1 DEF Rewarded!Min
  <2>4. i = r
    BY <2>2, <2>3
  <2> HIDE DEF i
  <2> QED BY <1>3, <1>4, <1>6, <2>1, <2>4 DEF r
<1>7. CASE ~(r <= MaxReturn)
  <2>1. r \notin 1..last
    BY <1>0, <1>1, <1>4, <1>7
  <2>2. I = {}
    BY <1>5, <2>1
  <2>3. i = 0
    BY <2>2
  <2> HIDE DEF i
  <2> QED BY <1>3, <1>7, <2>3 DEF r
<1> QED BY <1>6, <1>7

LEMMA RanksFollow ==
  ASSUME Rewarded!TypeOK, PlayersListed PROVE RanksRight
<1>1. ASSUME NEW metric \in Rewarded!Metric, NEW offset \in 0..Len(players), NEW count \in 0..Len(players)
      PROVE  {[rank |-> Rank(u, metric), user |-> u] :
                u \in {v \in Rewarded!ToSet(players) :
                         Rank(v, metric) \in (offset + 1)..(offset + Rewarded!Min({count, MaxReturn}))}}
             = Rewarded!ToSet(Rewarded!Leaderboard(metric, offset, count))
  <2>1. count \in Nat
    OBVIOUS
  <2> QED BY <2>1, PagesRight, Zenon
<1>2. ASSUME NEW metric \in Rewarded!Metric, NEW u \in Rewarded!ToSet(players)
      PROVE  Rewarded!UserRank(u, metric) = IF Rank(u, metric) <= MaxReturn THEN Rank(u, metric) ELSE None
  BY RankTold
<1> QED BY <1>1, <1>2, Zenon DEF RanksRight, Rewarded!RanksRight, Rank, Better, Turn


-----------------------------------------------------------------------------
(* VALUATION *)

LEMMA ValuationAssumed == Valued!ValuationAssumption
BY ServicesAssumption

(* Dividing towards zero gives a whole number. *)
LEMMA MulDivTyped ==
  ASSUME NEW a \in Int, NEW b \in Int, NEW d \in Int, d # 0
  PROVE  Valued!MulDiv(a, b, d) \in Int
<1>1. ASSUME NEW x \in Int PROVE Valued!Abs(x) \in Nat /\ (x # 0 => Valued!Abs(x) # 0)
  <2>1. -x \in Int
    OBVIOUS
  <2>2. Valued!Max({x, -x}) = IF x >= -x THEN x ELSE -x
    BY <2>1 DEF Valued!Max
  <2> QED BY <2>1, <2>2 DEF Valued!Abs
<1> DEFINE q == (Valued!Abs(a) * Valued!Abs(b)) \div Valued!Abs(d)
<1>2. q \in Int
  <2>1. Valued!Abs(a) * Valued!Abs(b) \in Int
    BY <1>1
  <2>2. \A m \in Int, n \in Nat : n # 0 => m \div n \in Int
    OBVIOUS
  <2> QED BY <1>1, <2>1, <2>2
<1>3. Valued!MulDiv(a, b, d) = q \/ Valued!MulDiv(a, b, d) = -q
  BY DEF Valued!MulDiv
<1> HIDE DEF q
<1> QED BY <1>2, <1>3

LEMMA ValuedSumsAlike == \A f : Valued!SumFunction(f) = Summed(f, DOMAIN f)
BY DEF Valued!SumFunction, Valued!SumFunctionOnSet, Valued!FoldFunctionOnSet, Valued!MapThenFoldSet,
       Summed

LEMMA WorthTyped ==
  ASSUME Valued!TypeOK, NEW f \in Portfolios
  PROVE  /\ Valued!PortfolioValue(f) \in Int /\ Valued!TotalCostBasis(f) \in Int
         /\ assets[f] \in Seq(Valued!PortfolioAsset) /\ Len(assets[f]) \in Nat
         /\ DOMAIN assets[f] = 1..Len(assets[f])
<1> DEFINE s == assets[f]
           n == Len(s)
           worths == [i \in DOMAIN s |-> Valued!MarketValue(s[i])]
           costs == [i \in DOMAIN s |-> s[i].quantity * s[i].cost_basis]
<1>1. s \in Seq(Valued!PortfolioAsset)
  BY DEF Valued!TypeOK
<1> HIDE DEF s
<1>2. n \in Nat /\ DOMAIN s = 1..n /\ \A i \in 1..n : s[i] \in Valued!PortfolioAsset
  BY <1>1, LenProperties, ElementOfSeq
<1>3. IsFiniteSet(1..n)
  <2>1. 1 \in Int /\ n \in Int
    BY <1>2
  <2> QED BY <2>1, FS_Interval
<1>4. ASSUME NEW i \in 1..n PROVE worths[i] \in Int /\ costs[i] \in Int
  <2>1. s[i].quantity \in Int /\ s[i].current_price \in Int /\ s[i].cost_basis \in Int
    BY <1>2 DEF Valued!PortfolioAsset
  <2> QED BY <1>2, <2>1 DEF Valued!MarketValue
<1>5. Valued!PortfolioValue(f) = Valued!SumFunction(worths) /\ Valued!TotalCostBasis(f) = Valued!SumFunction(costs)
  BY DEF Valued!PortfolioValue, Valued!TotalCostBasis, s
<1>6. DOMAIN worths = 1..n /\ DOMAIN costs = 1..n
  BY <1>2
<1> HIDE DEF worths, costs
<1>7. Summed(worths, 1..n) \in Int /\ Summed(costs, 1..n) \in Int
  BY <1>3, <1>4, SummedIsInt
<1> QED BY <1>1, <1>2, <1>5, <1>6, <1>7, ValuedSumsAlike DEF s

LEMMA ValuesBegin == Valued!Init => Valued!TypeOK
<1>1. (4 * Scale) \div 100 \in Int
  BY ValuationAssumed DEF Valued!ValuationAssumption
<1> QED BY <1>1 DEF Valued!Init, Valued!TypeOK

LEMMA ValuesStep ==
  ASSUME Valued!TypeOK, [Valued!Next]_(Valued!vars)
  PROVE  Valued!TypeOK'
<1> USE ValuationAssumed DEF Valued!ValuationAssumption
<1>1. CASE UNCHANGED Valued!vars
  BY <1>1 DEF Valued!vars, Valued!TypeOK
<1>2. ASSUME NEW f \in Portfolios, NEW t \in Seq(Valued!PortfolioAsset),
             assets' = [assets EXCEPT ![f] = t],
             UNCHANGED <<initialInvestment, snapshots, valuationHistory, riskFreeRate, periodsPerYear>>
      PROVE  Valued!TypeOK'
  BY <1>2 DEF Valued!TypeOK
<1>3. ASSUME NEW f \in Portfolios, NEW a
      PROVE  /\ Valued!PlaceOf(f, a) = 0 \/ Valued!PlaceOf(f, a) \in 1..Len(assets[f])
  <2> DEFINE I == {i \in 1..Len(assets[f]) : assets[f][i].asset = a}
  <2>1. CASE I = {}
    BY <2>1 DEF Valued!PlaceOf, Valued!SelectInSeq
  <2>2. CASE I # {}
    <3>1. Charged!Min(I) \in I
      <4>1. I \in SUBSET (1..Len(assets[f])) /\ Len(assets[f]) \in Nat
        BY WorthTyped
      <4> HIDE DEF I
      <4> QED BY <2>2, <4>1, EndInside
    <3>2. Valued!Min(I) = Charged!Min(I)
      BY DEF Valued!Min, Charged!Min
    <3>3. Valued!PlaceOf(f, a) = Valued!Min(I)
      BY <2>2 DEF Valued!PlaceOf, Valued!SelectInSeq
    <3> QED BY <3>1, <3>2, <3>3
  <2> QED BY <2>1, <2>2
<1>4. ASSUME NEW f \in Portfolios, NEW a \in Valued!PortfolioAsset, Valued!SetAsset(f, a)
      PROVE  Valued!TypeOK'
  <2> DEFINE s == assets[f]
             i == Valued!PlaceOf(f, a.asset)
  <2>1. s \in Seq(Valued!PortfolioAsset) /\ (i = 0 \/ i \in 1..Len(s))
    BY <1>3, WorthTyped
  <2>2. CASE i = 0
    <3>1. assets' = [assets EXCEPT ![f] = Append(s, a)]
      BY <1>4, <2>2 DEF Valued!SetAsset
    <3>2. Append(s, a) \in Seq(Valued!PortfolioAsset)
      BY <2>1, AppendProperties
    <3> HIDE DEF s, i
    <3> QED BY <1>2, <1>4, <3>1, <3>2 DEF Valued!SetAsset
  <2>3. CASE i # 0
    <3>1. assets' = [assets EXCEPT ![f] = [s EXCEPT ![i] = a]]
      BY <1>4, <2>3 DEF Valued!SetAsset, Valued!ReplaceAt
    <3>2. [s EXCEPT ![i] = a] \in Seq(Valued!PortfolioAsset)
      <4> HIDE DEF s, i
      <4>1. s \in [1..Len(s) -> Valued!PortfolioAsset] /\ Len(s) \in Nat
        BY <2>1, LenProperties, ElementOfSeq
      <4>2. [s EXCEPT ![i] = a] \in [1..Len(s) -> Valued!PortfolioAsset]
        BY <4>1
      <4> QED BY <4>1, <4>2, SeqDef
    <3> HIDE DEF s, i
    <3> QED BY <1>2, <1>4, <3>1, <3>2 DEF Valued!SetAsset
  <2> QED BY <2>2, <2>3
<1>5. ASSUME NEW f \in Portfolios, NEW a \in Symbols, Valued!RemoveAsset(f, a)
      PROVE  Valued!TypeOK'
  <2> DEFINE s == assets[f]
             i == Valued!PlaceOf(f, a)
             t == SubSeq(s, 1, i - 1) \o SubSeq(s, i + 1, Len(s))
  <2>1. s \in Seq(Valued!PortfolioAsset) /\ i \in 1..Len(s) /\ Len(s) \in Nat
    BY <1>3, <1>5, WorthTyped DEF Valued!RemoveAsset
  <2>2. assets' = [assets EXCEPT ![f] = t]
    BY <1>5 DEF Valued!RemoveAsset, Valued!RemoveAt
  <2>3. t \in Seq(Valued!PortfolioAsset)
    <3> HIDE DEF s, i
    <3>1. /\ SubSeq(s, 1, i - 1) \in Seq(Valued!PortfolioAsset)
          /\ SubSeq(s, i + 1, Len(s)) \in Seq(Valued!PortfolioAsset)
      BY <2>1
    <3> QED BY <3>1, ConcatProperties
  <2> HIDE DEF t
  <2> QED BY <1>2, <1>5, <2>2, <2>3 DEF Valued!RemoveAsset
<1>6. ASSUME NEW f \in Portfolios, Valued!TakeSnapshot(f) PROVE Valued!TypeOK'
  <2> DEFINE value == Valued!PortfolioValue(f)
             cost == Valued!TotalCostBasis(f)
             gain == IF cost > 0 THEN value - cost ELSE 0
             share == IF cost > 0 THEN Valued!FpDiv(gain, cost) ELSE 0
             snap == [total_value |-> value, total_cost_basis |-> cost, asset_count |-> Len(assets[f])]
             item == [total_value |-> value, absolute_return |-> gain, percentage_return |-> share]
  <2>1. /\ snapshots' = [snapshots EXCEPT ![f] = Append(snapshots[f], snap)]
        /\ valuationHistory' = [valuationHistory EXCEPT ![f] = Append(valuationHistory[f], item)]
        /\ UNCHANGED <<assets, initialInvestment, riskFreeRate, periodsPerYear>>
    BY <1>6 DEF Valued!TakeSnapshot
  <2>2. value \in Int /\ cost \in Int /\ Len(assets[f]) \in Nat
    BY WorthTyped
  <2> HIDE DEF value, cost
  <2>3. gain \in Int
    BY <2>2
  <2>4. share \in Int
    <3> HIDE DEF gain
    <3>1. CASE cost > 0
      <4>1. Valued!FpDiv(gain, cost) \in Int
        <5>1. cost # 0 /\ Scale \in Int
          BY <2>2, <3>1
        <5> QED BY <2>2, <2>3, <5>1, MulDivTyped DEF Valued!FpDiv
      <4> QED BY <3>1, <4>1
    <3>2. CASE ~(cost > 0)
      BY <3>2
    <3> QED BY <3>1, <3>2
  <2> HIDE DEF gain, share
  <2>5. snap \in Valued!PortfolioSnapshot /\ item \in Valued!ValuationHistoryEntry
    BY <2>2, <2>3, <2>4 DEF Valued!PortfolioSnapshot, Valued!ValuationHistoryEntry
  <2> HIDE DEF snap, item
  <2>6. /\ snapshots[f] \in Seq(Valued!PortfolioSnapshot)
        /\ valuationHistory[f] \in Seq(Valued!ValuationHistoryEntry)
    BY DEF Valued!TypeOK
  <2>7. /\ Append(snapshots[f], snap) \in Seq(Valued!PortfolioSnapshot)
        /\ Append(valuationHistory[f], item) \in Seq(Valued!ValuationHistoryEntry)
    BY <2>5, <2>6, AppendProperties
  <2> QED BY <2>1, <2>7 DEF Valued!TypeOK
<1>7. ASSUME NEW f \in Portfolios, NEW n \in Investments, Valued!SetInitialInvestment(f, n)
      PROVE  Valued!TypeOK'
  BY <1>7 DEF Valued!SetInitialInvestment, Valued!TypeOK
<1>8. ASSUME NEW r \in Rates, Valued!SetRiskFreeRate(r) PROVE Valued!TypeOK'
  BY <1>8 DEF Valued!SetRiskFreeRate, Valued!TypeOK
<1>9. ASSUME NEW n \in Periods, Valued!SetAnnualizationPeriod(n) PROVE Valued!TypeOK'
  BY <1>9 DEF Valued!SetAnnualizationPeriod, Valued!TypeOK
<1>10. ASSUME NEW a \in Symbols, NEW q \in Quantities, NEW x \in MarketPrices, NEW c \in Costs
       PROVE  [asset |-> a, quantity |-> q, current_price |-> x, cost_basis |-> c] \in Valued!PortfolioAsset
  BY DEF Valued!PortfolioAsset
<1> QED BY <1>1, <1>4, <1>5, <1>6, <1>7, <1>8, <1>9, <1>10 DEF Valued!Next

-----------------------------------------------------------------------------
(* THE ASSET REGISTRY *)

LEMMA AssetsAssumed == Registered!AssetsAssumption
BY ServicesAssumption

(* The entries of a portfolio and its list hold the same assets. *)
Matches(e, l) ==
  /\ e \in [Symbols -> Registered!Asset \cup {None}]
  /\ l \in Seq(Registered!Asset)
  /\ \A i \in 1..Len(l) : e[l[i].symbol] = l[i]
  /\ \A i, j \in 1..Len(l) : l[i].symbol = l[j].symbol => i = j
  /\ \A s \in Symbols : e[s] # None => \E i \in 1..Len(l) : l[i].symbol = s

LEMMA MatchBasics ==
  ASSUME NEW e, NEW l, Matches(e, l)
  PROVE  /\ Len(l) \in Nat /\ DOMAIN l = 1..Len(l)
         /\ \A i \in 1..Len(l) : l[i] \in Registered!Asset /\ l[i].symbol \in Symbols
         /\ None \notin Registered!Asset
<1>1. Len(l) \in Nat /\ DOMAIN l = 1..Len(l) /\ \A i \in 1..Len(l) : l[i] \in Registered!Asset
  BY LenProperties, ElementOfSeq DEF Matches
<1>2. None \notin Registered!Asset
  BY AssetsAssumed DEF Registered!AssetsAssumption
<1> QED BY <1>1, <1>2 DEF Registered!Asset

LEMMA MatchAdded ==
  ASSUME NEW e, NEW l, Matches(e, l), NEW a \in Registered!Asset, e[a.symbol] = None
  PROVE  Matches([e EXCEPT ![a.symbol] = a], Append(l, a))
<1> DEFINE d == [e EXCEPT ![a.symbol] = a]
           m == Append(l, a)
           n == Len(l)
<1>1. /\ n \in Nat /\ None \notin Registered!Asset
      /\ \A i \in 1..n : l[i] \in Registered!Asset /\ l[i].symbol \in Symbols
  BY MatchBasics
<1>2. e \in [Symbols -> Registered!Asset \cup {None}] /\ l \in Seq(Registered!Asset) /\ a.symbol \in Symbols
  BY DEF Matches, Registered!Asset
<1>3. /\ m \in Seq(Registered!Asset) /\ Len(m) = n + 1 /\ m[n + 1] = a
      /\ \A i \in 1..n : m[i] = l[i]
  BY <1>2, AppendProperties
<1>4. d \in [Symbols -> Registered!Asset \cup {None}] /\ d[a.symbol] = a
      /\ \A s \in Symbols : s # a.symbol => d[s] = e[s]
  BY <1>2
<1> HIDE DEF d, m, n
<1>5. \A i \in 1..(n + 1) : i \in 1..n \/ i = n + 1
  BY <1>1
<1>6. \A i \in 1..n : e[l[i].symbol] = l[i] /\ l[i].symbol # a.symbol
  BY <1>1 DEF Matches, n
<1>7. \A i \in 1..(n + 1) : d[m[i].symbol] = m[i]
  BY <1>1, <1>3, <1>4, <1>5, <1>6
<1>8. \A i, j \in 1..(n + 1) : m[i].symbol = m[j].symbol => i = j
  BY <1>1, <1>3, <1>5, <1>6 DEF Matches, n
<1>9. ASSUME NEW s \in Symbols, d[s] # None PROVE \E i \in 1..(n + 1) : m[i].symbol = s
  <2>1. CASE s = a.symbol
    BY <1>1, <1>3, <2>1
  <2>2. CASE s # a.symbol
    <3>1. PICK i \in 1..n : l[i].symbol = s
      BY <1>4, <1>9, <2>2 DEF Matches, n
    <3>2. i \in 1..(n + 1) /\ m[i].symbol = s
      BY <1>1, <1>3, <3>1
    <3> QED BY <3>2
  <2> QED BY <2>1, <2>2
<1>10. Matches(d, m)
  BY <1>3, <1>4, <1>7, <1>8, <1>9 DEF Matches
<1> QED BY <1>10 DEF d, m

LEMMA MatchReplaced ==
  ASSUME NEW e, NEW l, Matches(e, l), NEW i \in 1..Len(l), NEW a \in Registered!Asset,
         l[i].symbol = a.symbol
  PROVE  Matches([e EXCEPT ![a.symbol] = a], [l EXCEPT ![i] = a])
<1> DEFINE d == [e EXCEPT ![a.symbol] = a]
           m == [l EXCEPT ![i] = a]
           n == Len(l)
<1>1. /\ n \in Nat /\ None \notin Registered!Asset /\ DOMAIN l = 1..n
      /\ \A j \in 1..n : l[j] \in Registered!Asset /\ l[j].symbol \in Symbols
  BY MatchBasics
<1>2. e \in [Symbols -> Registered!Asset \cup {None}] /\ l \in Seq(Registered!Asset) /\ a.symbol \in Symbols
  BY DEF Matches, Registered!Asset
<1>3. m \in [1..n -> Registered!Asset] /\ m[i] = a /\ \A j \in 1..n : j # i => m[j] = l[j]
  BY <1>1, <1>2
<1>4. d \in [Symbols -> Registered!Asset \cup {None}] /\ d[a.symbol] = a
      /\ \A s \in Symbols : s # a.symbol => d[s] = e[s]
  BY <1>2
<1>5. m \in Seq(Registered!Asset) /\ Len(m) = n
  BY <1>1, <1>3, SeqDef, LenProperties
<1> HIDE DEF d, m
<1>6. \A j \in 1..n : m[j].symbol = l[j].symbol
  BY <1>3
<1>7. \A j \in 1..n : d[m[j].symbol] = m[j]
  <2> SUFFICES ASSUME NEW j \in 1..n PROVE d[m[j].symbol] = m[j]
    OBVIOUS
  <2>1. CASE j = i
    BY <1>3, <1>4, <2>1
  <2>2. CASE j # i
    <3>1. l[j].symbol # a.symbol /\ e[l[j].symbol] = l[j]
      BY <2>2 DEF Matches
    <3> QED BY <1>1, <1>3, <1>4, <2>2, <3>1
  <2> QED BY <2>1, <2>2
<1>8. \A j, k \in 1..n : m[j].symbol = m[k].symbol => j = k
  BY <1>6 DEF Matches
<1>9. \A s \in Symbols : d[s] # None => \E j \in 1..n : m[j].symbol = s
  BY <1>3, <1>4, <1>6 DEF Matches
<1>10. Matches(d, m)
  BY <1>4, <1>5, <1>7, <1>8, <1>9 DEF Matches
<1> QED BY <1>10 DEF d, m

LEMMA MatchRemoved ==
  ASSUME NEW e, NEW l, Matches(e, l), NEW i \in 1..Len(l)
  PROVE  /\ Matches([e EXCEPT ![l[i].symbol] = None], Registered!RemoveAt(l, i))
         /\ Len(Registered!RemoveAt(l, i)) = Len(l) - 1
<1> DEFINE s0 == l[i].symbol
           d == [e EXCEPT ![s0] = None]
           m == Registered!RemoveAt(l, i)
           n == Len(l)
<1>1. /\ n \in Nat /\ None \notin Registered!Asset /\ DOMAIN l = 1..n /\ i \in Int
      /\ \A j \in 1..n : l[j] \in Registered!Asset /\ l[j].symbol \in Symbols
  BY MatchBasics
<1>2. e \in [Symbols -> Registered!Asset \cup {None}] /\ l \in Seq(Registered!Asset)
  BY DEF Matches
<1>3. /\ m \in Seq(Registered!Asset) /\ Len(m) = n - 1
      /\ \A j \in 1..(n - 1) : m[j] = IF j < i THEN l[j] ELSE l[j + 1]
  <2> DEFINE x == SubSeq(l, 1, i - 1)
             y == SubSeq(l, i + 1, n)
  <2>1. m = x \o y
    BY DEF Registered!RemoveAt
  <2>2. /\ x \in Seq(Registered!Asset) /\ Len(x) = i - 1 /\ \A j \in 1..(i - 1) : x[j] = l[j]
        /\ y \in Seq(Registered!Asset) /\ Len(y) = n - i /\ \A j \in 1..(n - i) : y[j] = l[i + j]
    <3>1. x \in Seq(Registered!Asset) /\ y \in Seq(Registered!Asset)
      BY <1>1, <1>2
    <3>2. Len(x) = i - 1 /\ \A j \in 1..(i - 1) : x[j] = l[j]
      BY <1>1, <1>2
    <3>3. Len(y) = n - i
      <4>1. i + 1 \in Int /\ n \in Int /\ \A j \in (i + 1)..n : l[j] \in Registered!Asset
        BY <1>1
      <4>2. Len(y) = IF i + 1 <= n THEN n - (i + 1) + 1 ELSE 0
        <5> HIDE DEF n
        <5> QED BY <4>1, SubSeqProperties
      <4>3. i \in 1..n
        OBVIOUS
      <4> HIDE DEF y, n
      <4> QED BY <1>1, <4>2, <4>3
    <3>4. \A j \in 1..(n - i) : y[j] = l[i + j]
      BY <1>1, <1>2
    <3> QED BY <3>1, <3>2, <3>3, <3>4
  <2> HIDE DEF x, y, m
  <2>3. /\ m \in Seq(Registered!Asset) /\ Len(m) = (i - 1) + (n - i)
        /\ \A j \in 1..((i - 1) + (n - i)) : m[j] = IF j <= i - 1 THEN x[j] ELSE y[j - (i - 1)]
    <3>1. x \in Seq(Registered!Asset) /\ y \in Seq(Registered!Asset) /\ Len(x) = i - 1 /\ Len(y) = n - i
      BY <2>2
    <3>2. /\ m \in Seq(Registered!Asset) /\ Len(m) = Len(x) + Len(y)
          /\ \A j \in 1..(Len(x) + Len(y)) : m[j] = IF j <= Len(x) THEN x[j] ELSE y[j - Len(x)]
      BY <2>1, <3>1, ConcatProperties
    <3> QED BY <3>1, <3>2
  <2>4. (i - 1) + (n - i) = n - 1
    BY <1>1
  <2>5. ASSUME NEW j \in 1..(n - 1) PROVE m[j] = IF j < i THEN l[j] ELSE l[j + 1]
    <3>1. CASE j < i
      <4>1. j <= i - 1 /\ j \in 1..(i - 1)
        BY <1>1, <3>1
      <4> QED BY <2>2, <2>3, <2>4, <3>1, <4>1
    <3>2. CASE ~(j < i)
      <4>1. ~(j <= i - 1) /\ j - (i - 1) \in 1..(n - i) /\ i + (j - (i - 1)) = j + 1
        BY <1>1, <3>2
      <4> QED BY <2>2, <2>3, <2>4, <3>2, <4>1
    <3> QED BY <3>1, <3>2
  <2> QED BY <2>3, <2>4, <2>5
<1>4. s0 \in Symbols /\ \A j \in 1..n : e[l[j].symbol] = l[j] /\ (l[j].symbol = s0 => j = i)
  BY <1>1 DEF Matches
<1>5. d \in [Symbols -> Registered!Asset \cup {None}] /\ d[s0] = None
      /\ \A s \in Symbols : s # s0 => d[s] = e[s]
  BY <1>2, <1>4
<1> HIDE DEF d, m, s0
(* What is at a place was at the same place or the next, and not removed. *)
<1> DEFINE Was(j) == IF j < i THEN j ELSE j + 1
<1>6. \A j \in 1..(n - 1) : Was(j) \in 1..n /\ Was(j) # i /\ m[j] = l[Was(j)]
  BY <1>1, <1>3
<1>7. \A j, k \in 1..(n - 1) : Was(j) = Was(k) => j = k
  BY <1>1
<1>8. \A k \in 1..n : k # i => \E j \in 1..(n - 1) : Was(j) = k
  <2> SUFFICES ASSUME NEW k \in 1..n, k # i PROVE \E j \in 1..(n - 1) : Was(j) = k
    OBVIOUS
  <2>1. CASE k < i
    <3>1. k \in 1..(n - 1) /\ Was(k) = k
      BY <1>1, <2>1
    <3> QED BY <3>1
  <2>2. CASE ~(k < i)
    <3>1. k - 1 \in 1..(n - 1) /\ Was(k - 1) = k
      BY <1>1, <2>2
    <3> QED BY <3>1
  <2> QED BY <2>1, <2>2
<1> HIDE DEF Was
<1>9. \A j \in 1..(n - 1) : d[m[j].symbol] = m[j]
  BY <1>1, <1>4, <1>5, <1>6
<1>10. \A j, k \in 1..(n - 1) : m[j].symbol = m[k].symbol => j = k
  <2> SUFFICES ASSUME NEW j \in 1..(n - 1), NEW k \in 1..(n - 1), m[j].symbol = m[k].symbol PROVE j = k
    OBVIOUS
  <2>1. Was(j) \in 1..n /\ Was(k) \in 1..n /\ l[Was(j)].symbol = l[Was(k)].symbol
    BY <1>6
  <2>2. Was(j) = Was(k)
    BY <2>1 DEF Matches
  <2> QED BY <1>7, <2>2
<1>11. ASSUME NEW s \in Symbols, d[s] # None PROVE \E j \in 1..(n - 1) : m[j].symbol = s
  <2>1. s # s0 /\ e[s] # None
    BY <1>5, <1>11
  <2>2. PICK k \in 1..n : l[k].symbol = s
    BY <2>1 DEF Matches
  <2>3. k # i
    BY <2>1, <2>2 DEF s0
  <2>4. PICK j \in 1..(n - 1) : Was(j) = k
    BY <1>8, <2>3
  <2> QED BY <1>6, <2>2, <2>4
<1>12. Matches(d, m)
  BY <1>3, <1>5, <1>9, <1>10, <1>11 DEF Matches
<1> QED BY <1>3, <1>12 DEF d, m, s0
LEMMA RegistryOperatorsAlike ==
  /\ \A S : Registered!Cardinality(S) = Cardinality(S)
  /\ \A f : Registered!SumFunction(f) = Summed(f, DOMAIN f)
<1>1. \A S : Registered!Cardinality(S) = Cardinality(S)
  BY Zenon DEF Cardinality, Registered!Cardinality, IsFiniteSet, Registered!IsFiniteSet
<1>2. \A f : Registered!SumFunction(f) = Summed(f, DOMAIN f)
  BY DEF Registered!SumFunction, Registered!SumFunctionOnSet, Registered!FoldFunctionOnSet,
         Registered!MapThenFoldSet, Summed
<1> QED BY <1>1, <1>2

(* A held asset has a place in the list. *)
LEMMA PlaceFound ==
  ASSUME NEW e, NEW l, Matches(e, l), NEW s \in Symbols, e[s] # None
  PROVE  /\ Registered!PlaceOf(l, s) \in 1..Len(l) /\ Registered!PlaceOf(l, s) # 0
         /\ l[Registered!PlaceOf(l, s)] = e[s] /\ e[s].symbol = s
<1> DEFINE P == {i \in 1..Len(l) : l[i].symbol = s}
<1>1. Len(l) \in Nat
  BY MatchBasics
<1>2. P \in SUBSET Nat /\ P # {}
  BY <1>1 DEF Matches
<1>3. Registered!PlaceOf(l, s) = Registered!Min(P)
  BY <1>2 DEF Registered!PlaceOf, Registered!SelectInSeq
<1>4. Registered!Min(P) \in P
  <2> HIDE DEF P
  <2>1. PICK m \in P : \A i \in P : m <= i
    BY <1>2, LeastNat
  <2> QED BY <2>1 DEF Registered!Min
<1>5. Registered!PlaceOf(l, s) \in P
  BY <1>3, <1>4
<1> HIDE DEF Registered!PlaceOf
<1> QED BY <1>1, <1>5 DEF Matches

Enlisted(f) ==
  IF portfolioAssets[f] = None THEN \A i \in 1..Len(registered) : registered[i] # f
  ELSE \E i \in 1..Len(registered) : registered[i] = f

Once == \A i, j \in 1..Len(registered) : registered[i] = registered[j] => i = j

AssetsInv ==
  /\ Registered!TypeOK
  /\ \A f \in Portfolios : Matches(assetEntry[f], Registered!Listed(f))
  /\ \A f \in Portfolios : Enlisted(f)
  /\ Once

LEMMA NothingMatches == Matches([s \in Symbols |-> None], <<>>)
BY DEF Matches

LEMMA ListNotNone ==
  ASSUME NEW l \in Seq(Registered!Asset)
  PROVE  l # None
BY AssetsAssumed DEF Registered!AssetsAssumption

LEMMA AssetsBegin == Registered!Init => AssetsInv
<1> SUFFICES ASSUME Registered!Init PROVE AssetsInv
  OBVIOUS
<1> USE DEF Registered!Init
<1>1. Registered!TypeOK
  BY DEF Registered!TypeOK
<1>2. \A f \in Portfolios : Matches(assetEntry[f], Registered!Listed(f))
  BY NothingMatches DEF Registered!Listed
<1>3. Once /\ \A f \in Portfolios : Enlisted(f)
  BY DEF Once, Enlisted
<1> QED BY <1>1, <1>2, <1>3 DEF AssetsInv

(* f is registered by the step if it was not, and no other. *)
Enlists(f) ==
  /\ registered' \in Seq(Portfolios) /\ Once'
  /\ \A g \in Portfolios : g # f => (\A i \in 1..Len(registered) : registered[i] # g)
                                     <=> (\A i \in 1..Len(registered') : registered'[i] # g)
  /\ \E i \in 1..Len(registered') : registered'[i] = f

(* One portfolio is given new entries and a list that matches them. *)
LEMMA PortfolioEdited ==
  ASSUME AssetsInv, NEW f \in Portfolios, NEW e, NEW l, Matches(e, l), Len(l) <= MaxAssets,
         assetEntry' = [assetEntry EXCEPT ![f] = e],
         portfolioAssets' = [portfolioAssets EXCEPT ![f] = l],
         registryAdmin' = registryAdmin, assetPrice' = assetPrice,
         Enlists(f)
  PROVE  AssetsInv'
<1>1. /\ e \in [Symbols -> Registered!Asset \cup {None}] /\ l \in Seq(Registered!Asset) /\ l # None
  BY ListNotNone DEF Matches
<1>2. Registered!TypeOK
  BY DEF AssetsInv
<1>3. /\ assetEntry'[f] = e /\ portfolioAssets'[f] = l
      /\ \A g \in Portfolios : g # f => assetEntry'[g] = assetEntry[g] /\ portfolioAssets'[g] = portfolioAssets[g]
  BY <1>2 DEF Registered!TypeOK
<1>4. Registered!TypeOK'
  <2>1. assetEntry' \in [Portfolios -> [Symbols -> Registered!Asset \cup {None}]]
    BY <1>1, <1>2 DEF Registered!TypeOK
  <2>2. portfolioAssets' \in [Portfolios -> Seq(Registered!Asset) \cup {None}]
    BY <1>1, <1>2 DEF Registered!TypeOK
  <2>3. \A g \in Portfolios : portfolioAssets'[g] # None => Len(portfolioAssets'[g]) <= MaxAssets
    BY <1>2, <1>3 DEF Registered!TypeOK
  <2>4. registryAdmin' \in People \cup {None} /\ assetPrice' \in [Symbols -> Prices \cup {None}]
    BY <1>2 DEF Registered!TypeOK
  <2> QED BY <2>1, <2>2, <2>3, <2>4 DEF Registered!TypeOK, Enlists
<1>5. ASSUME NEW g \in Portfolios PROVE Matches(assetEntry'[g], Registered!Listed(g)')
  <2>1. CASE g = f
    BY <1>1, <1>3, <2>1 DEF Registered!Listed
  <2>2. CASE g # f
    <3>1. Registered!Listed(g)' = Registered!Listed(g)
      BY <1>3, <2>2 DEF Registered!Listed
    <3> QED BY <1>3, <2>2, <3>1 DEF AssetsInv
  <2> QED BY <2>1, <2>2
<1>6. ASSUME NEW g \in Portfolios PROVE Enlisted(g)'
  <2>1. CASE g = f
    BY <1>1, <1>3, <2>1 DEF Enlisted, Enlists
  <2>2. CASE g # f
    <3>1. Enlisted(g)
      BY DEF AssetsInv
    <3> QED BY <1>3, <2>2, <3>1 DEF Enlisted, Enlists
  <2> QED BY <2>1, <2>2
<1> QED BY <1>4, <1>5, <1>6 DEF AssetsInv, Enlists

LEMMA AssetAdded ==
  ASSUME AssetsInv, NEW p \in People, NEW f \in Portfolios, NEW a \in Registered!Asset,
         Registered!AddAsset(p, f, a)
  PROVE  AssetsInv'
<1> DEFINE e == [assetEntry[f] EXCEPT ![a.symbol] = a]
           l == Append(Registered!Listed(f), a)
<1>1. Registered!TypeOK /\ Matches(assetEntry[f], Registered!Listed(f)) /\ Enlisted(f) /\ Once
  BY DEF AssetsInv
<1>2. /\ assetEntry[f][a.symbol] = None /\ Len(Registered!Listed(f)) < MaxAssets
      /\ assetEntry' = [assetEntry EXCEPT ![f] = e]
      /\ portfolioAssets' = [portfolioAssets EXCEPT ![f] = l]
      /\ registered' = (IF Registered!Contains(registered, f) THEN registered ELSE Append(registered, f))
      /\ registryAdmin' = registryAdmin /\ assetPrice' = assetPrice
  BY DEF Registered!AddAsset
<1>3. Matches(e, l)
  BY <1>1, <1>2, MatchAdded
<1>4. Len(l) <= MaxAssets
  <2>1. Len(Registered!Listed(f)) \in Nat /\ Registered!Listed(f) \in Seq(Registered!Asset) /\ MaxAssets \in Nat
    BY <1>1, MatchBasics, AssetsAssumed DEF Matches, Registered!AssetsAssumption
  <2>2. Len(l) = Len(Registered!Listed(f)) + 1
    BY <2>1, AppendProperties
  <2> QED BY <1>2, <2>1, <2>2
<1>5. registered \in Seq(Portfolios) /\ Len(registered) \in Nat
  BY <1>1, LenProperties DEF Registered!TypeOK
<1>6. Enlists(f)
  <2>1. CASE Registered!Contains(registered, f)
    BY <1>1, <1>2, <1>5, <2>1 DEF Registered!Contains, Once, Enlists
  <2>2. CASE ~Registered!Contains(registered, f)
    <3> DEFINE n == Len(registered)
    <3>1. /\ registered' \in Seq(Portfolios) /\ Len(registered') = n + 1 /\ registered'[n + 1] = f
          /\ \A i \in 1..n : registered'[i] = registered[i]
      BY <1>2, <1>5, <2>2, AppendProperties
    <3>2. \A i \in 1..n : registered[i] # f
      BY <2>2 DEF Registered!Contains
    <3>3. n \in Nat /\ \A i \in 1..(n + 1) : i \in 1..n \/ i = n + 1
      BY <1>5
    <3>4. n + 1 \in 1..(n + 1) /\ \A i \in 1..n : i \in 1..(n + 1)
      BY <3>3
    <3>5. \A i, j \in 1..n : registered[i] = registered[j] => i = j
      BY <1>1 DEF Once
    <3>6. \A i, j \in 1..(n + 1) : registered'[i] = registered'[j] => i = j
      <4> HIDE DEF n
      <4> QED BY <3>1, <3>2, <3>3, <3>5
    <3>7. Once'
      BY <3>1, <3>6 DEF Once
    <3> HIDE DEF n
    <3>8. \A g \in Portfolios : g # f => (\A i \in 1..n : registered[i] # g)
                                         <=> (\A i \in 1..(n + 1) : registered'[i] # g)
      BY <3>1, <3>3, <3>4
    <3> QED BY <3>1, <3>4, <3>7, <3>8 DEF n, Enlists
  <2> QED BY <2>1, <2>2
<1> HIDE DEF e, l
<1> QED BY <1>2, <1>3, <1>4, <1>6, PortfolioEdited

(* A portfolio that holds something is registered already. *)
LEMMA HeldEnlisted ==
  ASSUME AssetsInv, NEW f \in Portfolios, NEW s \in Symbols, assetEntry[f][s] # None,
         registered' = registered
  PROVE  /\ Enlists(f)
         /\ Registered!Listed(f) = portfolioAssets[f] /\ Len(Registered!Listed(f)) <= MaxAssets
<1>1. Registered!TypeOK /\ Matches(assetEntry[f], Registered!Listed(f)) /\ Enlisted(f) /\ Once
  BY DEF AssetsInv
<1>2. portfolioAssets[f] # None
  <2> SUFFICES ASSUME portfolioAssets[f] = None PROVE FALSE
    OBVIOUS
  <2>1. Registered!Listed(f) = <<>>
    BY DEF Registered!Listed
  <2>2. Matches(assetEntry[f], <<>>)
    BY <1>1, <2>1
  <2> QED BY <2>2 DEF Matches
<1>3. Registered!Listed(f) = portfolioAssets[f] /\ Len(Registered!Listed(f)) <= MaxAssets
  BY <1>1, <1>2 DEF Registered!Listed, Registered!TypeOK
<1> QED BY <1>1, <1>2, <1>3 DEF Enlists, Once, Enlisted, Registered!TypeOK

LEMMA AssetRemoved ==
  ASSUME AssetsInv, NEW p \in People, NEW f \in Portfolios, NEW s \in Symbols,
         Registered!RemoveAsset(p, f, s)
  PROVE  AssetsInv'
<1> DEFINE l == Registered!Listed(f)
           i == Registered!PlaceOf(l, s)
           e == [assetEntry[f] EXCEPT ![s] = None]
           m == Registered!RemoveAt(l, i)
<1>1. Registered!TypeOK /\ Matches(assetEntry[f], l)
  BY DEF AssetsInv
<1>2. assetEntry[f][s] # None
  BY DEF Registered!RemoveAsset
<1>3. i \in 1..Len(l) /\ i # 0 /\ l[i].symbol = s
  <2> HIDE DEF l
  <2> QED BY <1>1, <1>2, PlaceFound
<1>4. /\ assetEntry' = [assetEntry EXCEPT ![f] = e]
      /\ portfolioAssets' = [portfolioAssets EXCEPT ![f] = IF i = 0 THEN l ELSE m]
      /\ registryAdmin' = registryAdmin /\ assetPrice' = assetPrice /\ registered' = registered
  BY DEF Registered!RemoveAsset
<1> HIDE DEF l, i
<1>5. Matches(e, m)
  BY <1>1, <1>3, MatchRemoved
<1>6. Len(m) <= Len(l) /\ Len(l) <= MaxAssets
  <2>1. Len(l) \in Nat /\ Len(l) <= MaxAssets
    BY <1>1, <1>2, <1>4, MatchBasics, HeldEnlisted DEF l
  <2>2. Len(m) = Len(l) - 1
    BY <1>1, <1>3, MatchRemoved
  <2> QED BY <2>1, <2>2
<1>7. Len(m) <= MaxAssets
  <2>1. Len(m) \in Nat /\ Len(l) \in Nat /\ MaxAssets \in Nat
    BY <1>1, <1>5, MatchBasics, AssetsAssumed DEF Registered!AssetsAssumption
  <2> QED BY <1>6, <2>1
<1>8. portfolioAssets' = [portfolioAssets EXCEPT ![f] = m]
  BY <1>3, <1>4
<1>9. Enlists(f)
  BY <1>2, <1>4, HeldEnlisted
<1> HIDE DEF e, m
<1> QED BY <1>4, <1>5, <1>7, <1>8, <1>9, PortfolioEdited

LEMMA AssetStored ==
  ASSUME AssetsInv, NEW f \in Portfolios, NEW a \in Registered!Asset, assetEntry[f][a.symbol] # None,
         Registered!Store(f, a)
  PROVE  AssetsInv'
<1> DEFINE l == Registered!Listed(f)
           i == Registered!PlaceOf(l, a.symbol)
           e == [assetEntry[f] EXCEPT ![a.symbol] = a]
           m == [l EXCEPT ![i] = a]
<1>1. Registered!TypeOK /\ Matches(assetEntry[f], l) /\ a.symbol \in Symbols
  BY DEF AssetsInv, Registered!Asset
<1>2. i \in 1..Len(l) /\ i # 0 /\ l[i].symbol = a.symbol
  <2> HIDE DEF l
  <2> QED BY <1>1, PlaceFound
<1>3. /\ assetEntry' = [assetEntry EXCEPT ![f] = e]
      /\ portfolioAssets' = [portfolioAssets EXCEPT ![f] = IF i = 0 THEN l ELSE m]
      /\ registryAdmin' = registryAdmin /\ assetPrice' = assetPrice /\ registered' = registered
  BY DEF Registered!Store, Registered!ReplaceAt
<1> HIDE DEF l, i
<1>4. Matches(e, m)
  BY <1>1, <1>2, MatchReplaced
<1>5. Len(m) <= MaxAssets
  <2>1. Len(l) <= MaxAssets /\ l \in Seq(Registered!Asset)
    BY <1>1, <1>3, HeldEnlisted DEF l, Matches
  <2>2. Len(m) = Len(l)
    BY <1>2, <2>1, ExceptSeq
  <2> QED BY <2>1, <2>2
<1>6. portfolioAssets' = [portfolioAssets EXCEPT ![f] = m]
  BY <1>2, <1>3
<1>7. Enlists(f)
  BY <1>1, <1>3, HeldEnlisted
<1> HIDE DEF e, m
<1> QED BY <1>3, <1>4, <1>5, <1>6, <1>7, PortfolioEdited

LEMMA AssetsStep == AssetsInv /\ [Registered!Next]_(Registered!vars) => AssetsInv'
<1> SUFFICES ASSUME AssetsInv, [Registered!Next]_(Registered!vars) PROVE AssetsInv'
  OBVIOUS
<1>0. Registered!TypeOK /\ None \notin Registered!Asset /\ Decimals \cup Balances \cup Prices \subseteq Int
  BY AssetsAssumed DEF AssetsInv, Registered!AssetsAssumption
<1>1. ASSUME UNCHANGED <<assetEntry, portfolioAssets, registered>>,
             registryAdmin' \in People \cup {None}, assetPrice' \in [Symbols -> Prices \cup {None}]
      PROVE  AssetsInv'
  <2>1. Registered!TypeOK'
    BY <1>0, <1>1 DEF Registered!TypeOK
  <2>2. Once' /\ \A f \in Portfolios : Enlisted(f)' /\ Registered!Listed(f)' = Registered!Listed(f)
    BY <1>1 DEF AssetsInv, Once, Enlisted, Registered!Listed
  <2> QED BY <1>1, <2>1, <2>2 DEF AssetsInv
<1>2. CASE UNCHANGED Registered!vars
  BY <1>0, <1>1, <1>2 DEF Registered!vars, Registered!TypeOK
<1>3. CASE Registered!Next
  <2>1. PICK p \in People :
          \/ Registered!Initialize(p)
          \/ \E s \in Symbols, x \in Prices : Registered!SetAssetPrice(p, s, x)
          \/ \E f \in Portfolios, s \in Symbols :
               \/ \E m \in Metadata, d \in Decimals, b \in Balances, act \in BOOLEAN :
                    Registered!AddAsset(p, f, [symbol |-> s, metadata |-> m, decimals |-> d, balance |-> b,
                                    is_active |-> act])
               \/ Registered!RemoveAsset(p, f, s)
               \/ \E b \in Balances : Registered!UpdateAssetBalance(p, f, s, b)
               \/ \E m \in Metadata, d \in Decimals : Registered!UpdateAssetMetadata(p, f, s, m, d)
    BY <1>3 DEF Registered!Next
  <2>2. CASE Registered!Initialize(p)
    BY <1>0, <1>1, <2>2 DEF Registered!Initialize, Registered!TypeOK
  <2>3. ASSUME NEW s \in Symbols, NEW x \in Prices, Registered!SetAssetPrice(p, s, x) PROVE AssetsInv'
    BY <1>0, <1>1, <2>3 DEF Registered!SetAssetPrice, Registered!TypeOK
  <2>4. ASSUME NEW f \in Portfolios, NEW s \in Symbols, NEW m \in Metadata, NEW d \in Decimals,
               NEW b \in Balances, NEW act \in BOOLEAN,
               Registered!AddAsset(p, f, [symbol |-> s, metadata |-> m, decimals |-> d, balance |-> b,
                                    is_active |-> act])
        PROVE  AssetsInv'
    <3> DEFINE a == [symbol |-> s, metadata |-> m, decimals |-> d, balance |-> b, is_active |-> act]
    <3>1. a \in Registered!Asset
      BY <1>0 DEF Registered!Asset
    <3> HIDE DEF a
    <3>2. Registered!AddAsset(p, f, a)
      BY <2>4 DEF a
    <3> QED BY <3>1, <3>2, AssetAdded
  <2>5. ASSUME NEW f \in Portfolios, NEW s \in Symbols, Registered!RemoveAsset(p, f, s) PROVE AssetsInv'
    BY <2>5, AssetRemoved
  <2>6. ASSUME NEW f \in Portfolios, NEW s \in Symbols, assetEntry[f][s] # None
        PROVE  assetEntry[f][s] \in Registered!Asset /\ assetEntry[f][s].symbol = s
    <3>1. assetEntry[f][s] \in Registered!Asset
      BY <1>0, <2>6 DEF Registered!TypeOK
    <3>2. Matches(assetEntry[f], Registered!Listed(f))
      BY DEF AssetsInv
    <3> QED BY <2>6, <3>1, <3>2, PlaceFound
  <2>7. ASSUME NEW f \in Portfolios, NEW s \in Symbols, NEW b \in Balances,
               Registered!UpdateAssetBalance(p, f, s, b)
        PROVE  AssetsInv'
    <3> DEFINE a == [assetEntry[f][s] EXCEPT !.balance = b]
    <3>1. assetEntry[f][s] # None /\ Registered!Store(f, a)
      BY <2>7 DEF Registered!UpdateAssetBalance
    <3>2. a \in Registered!Asset /\ a.symbol = s
      BY <1>0, <2>6, <3>1 DEF Registered!Asset
    <3> HIDE DEF a
    <3> QED BY <3>1, <3>2, AssetStored
  <2>8. ASSUME NEW f \in Portfolios, NEW s \in Symbols, NEW m \in Metadata, NEW d \in Decimals,
               Registered!UpdateAssetMetadata(p, f, s, m, d)
        PROVE  AssetsInv'
    <3> DEFINE a == [assetEntry[f][s] EXCEPT !.metadata = m, !.decimals = d]
    <3>1. assetEntry[f][s] # None /\ Registered!Store(f, a)
      BY <2>8 DEF Registered!UpdateAssetMetadata
    <3>2. assetEntry[f][s] \in Registered!Asset /\ assetEntry[f][s].symbol = s /\ d \in Int
      BY <1>0, <2>6, <3>1
    <3>3. a \in Registered!Asset
      <4>1. [assetEntry[f][s] EXCEPT !.metadata = m] \in Registered!Asset
        BY <3>2 DEF Registered!Asset
      <4>2. [[assetEntry[f][s] EXCEPT !.metadata = m] EXCEPT !.decimals = d] \in Registered!Asset
        BY <3>2, <4>1 DEF Registered!Asset
      <4>3. a = [[assetEntry[f][s] EXCEPT !.metadata = m] EXCEPT !.decimals = d]
        OBVIOUS
      <4> QED BY <4>2, <4>3
    <3>4. a.symbol = s
      BY <3>2 DEF Registered!Asset
    <3> HIDE DEF a
    <3> QED BY <3>1, <3>3, <3>4, AssetStored
  <2> QED BY <2>1, <2>2, <2>3, <2>4, <2>5, <2>7, <2>8
<1> QED BY <1>2, <1>3

(* What the entries hold is what the list does: as many, and as many of them *)
(* active. *)
LEMMA HeldCounted ==
  ASSUME NEW e, NEW l, Matches(e, l), NEW held, held = {s \in Symbols : e[s] # None}
  PROVE  /\ IsFiniteSet(held) /\ Cardinality(held) = Len(l)
         /\ [i \in 1..Len(l) |-> l[i].symbol] \in Injection(1..Len(l), held)
         /\ IsFiniteSet(1..Len(l))
<1> DEFINE n == Len(l)
           R == 1..n
           name == [i \in 1..n |-> l[i].symbol]
<1>1. /\ n \in Nat /\ None \notin Registered!Asset
      /\ \A i \in 1..n : l[i] \in Registered!Asset /\ l[i].symbol \in Symbols
  BY MatchBasics
<1>2. IsFiniteSet(R) /\ Cardinality(R) = n
  <2>1. 1 \in Int /\ n \in Int
    BY <1>1
  <2> HIDE DEF n
  <2> QED BY <1>1, <2>1, FS_Interval
<1>3. /\ name \in [R -> held] /\ \A i, j \in R : name[i] = name[j] => i = j
      /\ \A s \in held : \E i \in R : name[i] = s
  <2>1. \A i \in 1..n : l[i].symbol \in held
    BY <1>1 DEF Matches
  <2> QED BY <2>1 DEF Matches
<1>4. IsFiniteSet(held) /\ Cardinality(held) = Cardinality(R) /\ name \in Injection(R, held)
  <2> HIDE DEF name, R
  <2> QED BY <1>2, <1>3, SameCount
<1> QED BY <1>2, <1>4

LEMMA ActiveCounted ==
  ASSUME NEW e, NEW l, Matches(e, l),
         NEW active, active = {s \in Symbols : e[s] # None /\ e[s].is_active},
         NEW marked, marked = {i \in DOMAIN l : l[i].is_active}
  PROVE  IsFiniteSet(marked) /\ Cardinality(active) = Cardinality(marked)
<1> DEFINE nick == [i \in marked |-> l[i].symbol]
<1>1. /\ Len(l) \in Nat /\ DOMAIN l = 1..Len(l) /\ None \notin Registered!Asset
      /\ \A i \in 1..Len(l) : l[i] \in Registered!Asset /\ l[i].symbol \in Symbols
  BY MatchBasics
<1>2. IsFiniteSet(marked)
  <2>1. 1 \in Int /\ Len(l) \in Int
    BY <1>1
  <2>2. IsFiniteSet(1..Len(l)) /\ marked \subseteq 1..Len(l)
    BY <1>1, <2>1, FS_Interval
  <2> QED BY <2>2, FS_Subset
<1>3. \A i \in marked : i \in 1..Len(l) /\ e[l[i].symbol] = l[i] /\ l[i].is_active
  BY <1>1 DEF Matches
<1>4. nick \in [marked -> active]
  BY <1>1, <1>3
<1>5. \A i, j \in marked : nick[i] = nick[j] => i = j
  BY <1>3 DEF Matches
<1>6. ASSUME NEW s \in active PROVE \E i \in marked : nick[i] = s
  <2>1. PICK i \in 1..Len(l) : l[i].symbol = s
    BY DEF Matches
  <2>2. i \in marked
    BY <1>1, <2>1 DEF Matches
  <2> QED BY <2>1, <2>2
<1> HIDE DEF nick
<1> QED BY <1>2, <1>4, <1>5, <1>6, SameCount

(* And they are worth as much. *)
LEMMA HeldWorth ==
  ASSUME AssetsInv, NEW f \in Portfolios, NEW held, NEW priced,
         held = {s \in Symbols : assetEntry[f][s] # None},
         priced = {s \in held : Registered!AssetValue(f, s) # None}
  PROVE  /\ Summed([s \in priced |-> Registered!AssetValue(f, s)], priced) = Registered!PortfolioValue(f)
         /\ Registered!PortfolioValue(f) \in Int
<1> DEFINE e == assetEntry[f]
           l == Registered!Listed(f)
           n == Len(l)
           w == [i \in DOMAIN l |-> Registered!Worth(l[i])]
           g == [s \in held |-> IF assetPrice[s] = None THEN 0 ELSE e[s].balance * assetPrice[s]]
           h == [s \in priced |-> Registered!AssetValue(f, s)]
           name == [i \in 1..n |-> l[i].symbol]
           self == [s \in priced |-> s]
<1>1. Registered!TypeOK /\ Matches(e, l) /\ None \notin Int /\ Prices \subseteq Int
  BY AssetsAssumed DEF AssetsInv, Registered!AssetsAssumption
<1>2. /\ n \in Nat /\ DOMAIN l = 1..n /\ None \notin Registered!Asset
      /\ \A i \in 1..n : l[i] \in Registered!Asset /\ l[i].symbol \in Symbols /\ e[l[i].symbol] = l[i]
  <2> HIDE DEF e, l
  <2>1. Matches(e, l)
    BY <1>1
  <2>2. \A i \in 1..n : e[l[i].symbol] = l[i]
    BY <2>1 DEF Matches
  <2> QED BY <2>1, <2>2, MatchBasics
<1>3. IsFiniteSet(held) /\ name \in Injection(1..n, held)
  <2>1. Matches(e, l) /\ held = {s \in Symbols : e[s] # None}
    BY <1>1
  <2> HIDE DEF e, l
  <2> QED BY <2>1, HeldCounted
<1>4. \A s \in Symbols : assetPrice[s] # None => assetPrice[s] \in Int
  BY <1>1 DEF Registered!TypeOK
<1>5. ASSUME NEW s \in held PROVE e[s] \in Registered!Asset /\ e[s].balance \in Int /\ g[s] \in Int
  <2>1. e[s] \in Registered!Asset
    BY <1>1 DEF Registered!TypeOK
  <2>2. e[s].balance \in Int
    BY <2>1 DEF Registered!Asset
  <2> QED BY <1>4, <2>1, <2>2
<1>6. ASSUME NEW s \in held
      PROVE  /\ s \in priced <=> assetPrice[s] # None
             /\ s \in priced => h[s] = g[s]
             /\ s \notin priced => g[s] = 0
  <2>1. Registered!AssetValue(f, s) = IF assetPrice[s] = None THEN None ELSE e[s].balance * assetPrice[s]
    BY DEF Registered!AssetValue
  <2>2. assetPrice[s] # None => e[s].balance * assetPrice[s] \in Int
    BY <1>4, <1>5
  <2> QED BY <1>1, <2>1, <2>2
<1>7. ASSUME NEW i \in 1..n PROVE w[i] \in Int /\ name[i] \in held /\ g[name[i]] = w[i]
  <2>1. name[i] \in held
    BY <1>3 DEF Injection
  <2>2. w[i] = IF assetPrice[l[i].symbol] = None THEN 0 ELSE l[i].balance * assetPrice[l[i].symbol]
    BY <1>2 DEF Registered!Worth
  <2>3. g[name[i]] = w[i]
    BY <1>2, <2>1, <2>2
  <2> QED BY <1>5, <2>1, <2>3
<1>8. IsFiniteSet(1..n)
  <2>1. 1 \in Int /\ n \in Int
    BY <1>2
  <2> QED BY <2>1, FS_Interval
<1>9. Summed(g, held) = Summed(w, 1..n)
  <2>1. \A s \in held : (\A i \in 1..n : name[i] # s) => g[s] = 0
    <3>1. \A s \in held : \E i \in 1..n : name[i] = s
      BY <1>1 DEF Matches
    <3> QED BY <3>1
  <2> DEFINE R == 1..n
  <2>2. /\ IsFiniteSet(R) /\ name \in Injection(R, held)
        /\ \A i \in R : w[i] \in Int /\ g[name[i]] = w[i]
        /\ \A s \in held : (\A i \in R : name[i] # s) => g[s] = 0
    BY <1>3, <1>7, <1>8, <2>1
  <2>3. IsFiniteSet(held) /\ \A s \in held : g[s] \in Int
    BY <1>3, <1>5
  <2>4. Summed(g, held) = Summed(w, R)
    <3> HIDE DEF g, w, name, R
    <3> QED BY <2>2, <2>3, SummedRelabel
  <2> QED BY <2>4
<1>10. Summed(g, held) = Summed(h, priced)
  <2>1. priced \subseteq held
    OBVIOUS
  <2>2. IsFiniteSet(priced)
    BY <1>3, <2>1, FS_Subset
  <2>3. self \in Injection(priced, held)
    <3>1. self \in [priced -> held] /\ \A s, t \in priced : self[s] = self[t] => s = t
      BY <2>1
    <3> HIDE DEF self
    <3> QED BY <3>1, Fun_IsInj
  <2>4. \A s \in priced : h[s] \in Int /\ g[self[s]] = h[s]
    BY <1>5, <1>6, <2>1
  <2>5. \A s \in held : (\A t \in priced : self[t] # s) => g[s] = 0
    <3> SUFFICES ASSUME NEW s \in held, \A t \in priced : self[t] # s PROVE g[s] = 0
      OBVIOUS
    <3>1. s \notin priced
      OBVIOUS
    <3> HIDE DEF g
    <3> QED BY <1>6, <3>1
  <2> HIDE DEF g, h, self
  <2> QED BY <1>3, <1>5, <2>2, <2>3, <2>4, <2>5, SummedRelabel
<1>11. Registered!PortfolioValue(f) = Summed(w, 1..n)
  <2>1. Registered!PortfolioValue(f) = Registered!SumFunction(w)
    BY DEF Registered!PortfolioValue
  <2>2. DOMAIN w = 1..n
    BY <1>2
  <2> HIDE DEF w
  <2> QED BY <2>1, <2>2, RegistryOperatorsAlike
<1>12. Summed(w, 1..n) \in Int
  <2> HIDE DEF w
  <2> QED BY <1>7, <1>8, SummedIsInt
<1> QED BY <1>9, <1>10, <1>11, <1>12

LEMMA SummariesTrue == AssetsInv => Registered!SummaryTrue
<1> SUFFICES ASSUME AssetsInv, NEW f \in Portfolios
             PROVE  LET held == {s \in Symbols : assetEntry[f][s] # None}
                        priced == {s \in held : Registered!AssetValue(f, s) # None}
                    IN  IF Registered!Summary(f) = None
                        THEN held = {} /\ ~Registered!Contains(registered, f)
                        ELSE /\ Registered!Summary(f).asset_count = Registered!Cardinality(held)
                             /\ Registered!Summary(f).active_asset_count =
                                  Registered!Cardinality({s \in held : assetEntry[f][s].is_active})
                             /\ Registered!Summary(f).total_value =
                                  Registered!SumFunction([s \in priced |-> Registered!AssetValue(f, s)])
                             /\ Registered!Cardinality({i \in DOMAIN registered : registered[i] = f}) = 1
  BY DEF Registered!SummaryTrue
<1> DEFINE e == assetEntry[f]
           l == Registered!Listed(f)
           held == {s \in Symbols : assetEntry[f][s] # None}
           priced == {s \in held : Registered!AssetValue(f, s) # None}
           active == {s \in held : assetEntry[f][s].is_active}
           summary == [asset_count |-> Len(l), total_value |-> Registered!PortfolioValue(f),
                       active_asset_count |-> Registered!InList(l, LAMBDA a : a.is_active)]
<1>1. Registered!TypeOK /\ Matches(e, l) /\ Enlisted(f) /\ Once
  BY DEF AssetsInv
<1>2. Len(l) \in Nat /\ l \in Seq(Registered!Asset) /\ DOMAIN l = 1..Len(l)
  <2> HIDE DEF e, l
  <2> QED BY <1>1, MatchBasics DEF Matches
<1>3. CASE portfolioAssets[f] = None
  <2>1. Registered!Summary(f) = None
    BY <1>3 DEF Registered!Summary
  <2>2. l = <<>>
    BY <1>3 DEF Registered!Listed
  <2>3. held = {}
    BY <1>1, <2>2 DEF Matches
  <2>4. ~Registered!Contains(registered, f)
    BY <1>1, <1>3 DEF Enlisted, Registered!Contains
  <2> QED BY <2>1, <2>3, <2>4
<1>4. CASE portfolioAssets[f] # None
  <2>1. Registered!Summary(f) = summary
    BY <1>4 DEF Registered!Summary
  <2>2. Registered!InList(l, LAMBDA a : a.is_active) = Cardinality({i \in DOMAIN l : l[i].is_active})
    BY RegistryOperatorsAlike DEF Registered!InList
  <2>3. Cardinality(held) = Len(l) /\ Cardinality(active) = Cardinality({i \in DOMAIN l : l[i].is_active})
    <3> DEFINE marked == {i \in DOMAIN l : l[i].is_active}
    <3>1. /\ held = {s \in Symbols : e[s] # None}
          /\ active = {s \in Symbols : e[s] # None /\ e[s].is_active}
      OBVIOUS
    <3> HIDE DEF e, l
    <3>2. Matches(e, l)
      BY <1>1
    <3>3. marked = {i \in DOMAIN l : l[i].is_active}
      OBVIOUS
    <3> HIDE DEF held, active, marked
    <3>4. Cardinality(held) = Len(l)
      BY <3>1, <3>2, HeldCounted
    <3>5. Cardinality(active) = Cardinality(marked)
      BY <3>1, <3>2, <3>3, ActiveCounted
    <3> QED BY <3>4, <3>5 DEF marked
  <2>4. /\ Summed([s \in priced |-> Registered!AssetValue(f, s)], priced) = Registered!PortfolioValue(f)
        /\ Registered!PortfolioValue(f) \in Int
    BY HeldWorth
  <2>5. Cardinality({i \in DOMAIN l : l[i].is_active}) \in Nat
    <3>1. IsFiniteSet(1..Len(l))
      <4>1. 1 \in Int /\ Len(l) \in Int
        BY <1>2
      <4> QED BY <4>1, FS_Interval
    <3>2. IsFiniteSet({i \in DOMAIN l : l[i].is_active})
      BY <1>2, <3>1, FS_Subset
    <3> QED BY <3>2, FS_CardinalityType
  <2>6. Registered!Summary(f) # None
    <3>1. summary \in Registered!PortfolioSummary
      BY <1>2, <2>2, <2>4, <2>5 DEF Registered!PortfolioSummary
    <3> QED BY <2>1, <3>1, AssetsAssumed DEF Registered!AssetsAssumption
  <2>7. Registered!Cardinality({i \in DOMAIN registered : registered[i] = f}) = 1
    <3>1. registered \in Seq(Portfolios) /\ DOMAIN registered = 1..Len(registered)
      BY <1>1, LenProperties DEF Registered!TypeOK
    <3>2. PICK j \in 1..Len(registered) : registered[j] = f
      BY <1>1, <1>4 DEF Enlisted
    <3>3. {i \in DOMAIN registered : registered[i] = f} = {j}
      BY <1>1, <3>1, <3>2 DEF Once
    <3> QED BY <3>3, FS_Singleton, RegistryOperatorsAlike
  <2>8. /\ summary.asset_count = Registered!Cardinality(held)
        /\ summary.active_asset_count = Registered!Cardinality(active)
        /\ summary.total_value = Registered!SumFunction([s \in priced |-> Registered!AssetValue(f, s)])
    <3>1. DOMAIN [s \in priced |-> Registered!AssetValue(f, s)] = priced
      OBVIOUS
    <3>2. Registered!SumFunction([s \in priced |-> Registered!AssetValue(f, s)]) = Registered!PortfolioValue(f)
      <4> DEFINE h == [s \in priced |-> Registered!AssetValue(f, s)]
      <4> HIDE DEF h, priced
      <4> QED BY <2>4, <3>1, RegistryOperatorsAlike DEF h
    <3> HIDE DEF held, priced, active
    <3> QED BY <2>2, <2>3, <3>2, RegistryOperatorsAlike
  <2> HIDE DEF summary
  <2> QED BY <2>1, <2>6, <2>7, <2>8
<1> QED BY <1>3, <1>4

-----------------------------------------------------------------------------
(* ANALYSES *)

LEMMA AnalysisAssumed == Advised!AnalysisAssumption
BY ServicesAssumption

LEMMA AdviceOperatorsAlike ==
  /\ \A S : Advised!Cardinality(S) = Cardinality(S)
  /\ \A S : Advised!IsFiniteSet(S) <=> IsFiniteSet(S)
  /\ \A P, k : Advised!Kth(P, k) = Kth(P, k)
<1>1. \A S : Advised!Cardinality(S) = Cardinality(S)
  BY Zenon DEF Cardinality, Advised!Cardinality, IsFiniteSet, Advised!IsFiniteSet
<1>2. \A S : Advised!IsFiniteSet(S) <=> IsFiniteSet(S)
  BY Zenon DEF IsFiniteSet, Advised!IsFiniteSet
<1> QED BY <1>1, <1>2 DEF Advised!Kth, Kth

(* A finite set of numbers has a largest element. *)
LEMMA LargestNat ==
  ASSUME NEW S \in SUBSET Nat, IsFiniteSet(S), S # {}
  PROVE  Advised!Max(S) \in S /\ \A x \in S : x <= Advised!Max(S)
<1>1. PICK m \in Nat : \A x \in S : x <= m
  BY FiniteBounded
<1> DEFINE R == {m - y : y \in S}
<1>2. R \in SUBSET Nat /\ R # {}
  <2>1. \A y \in S : m - y \in Nat
    BY <1>1
  <2>2. R \subseteq Nat
    BY <2>1, Zenon
  <2>3. R # {}
    BY Zenon
  <2> QED BY <2>2, <2>3
<1>3. PICK r \in R : \A i \in R : r <= i
  <2> HIDE DEF R
  <2> QED BY <1>2, LeastNat
<1>4. PICK x \in S : r = m - x
  BY DEF R
<1>5. \A y \in S : x >= y
  <2> SUFFICES ASSUME NEW y \in S PROVE x >= y
    OBVIOUS
  <2>1. m - y \in R
    BY DEF R
  <2>2. m - x <= m - y
    BY <1>3, <1>4, <2>1
  <2> QED BY <2>2
<1>6. Advised!Max(S) \in S /\ \A y \in S : Advised!Max(S) >= y
  BY <1>5 DEF Advised!Max
<1>7. \A y \in S : y \in Nat
  OBVIOUS
<1> HIDE DEF Advised!Max
<1> QED BY <1>6, <1>7

Slowest == Advised!Max({0} \cup (Latencies \ {None}))

LEMMA SlowestTyped ==
  /\ Slowest \in Nat
  /\ \A x \in {0} \cup (Latencies \ {None}) : x \in Nat /\ x <= Slowest
<1> DEFINE S == {0} \cup (Latencies \ {None})
<1>1. S \in SUBSET Nat
  BY AnalysisAssumed DEF Advised!AnalysisAssumption
<1>2. IsFiniteSet(S)
  <2>1. IsFiniteSet(Latencies)
    BY AnalysisAssumed, AdviceOperatorsAlike DEF Advised!AnalysisAssumption
  <2>2. IsFiniteSet(Latencies \ {None})
    BY <2>1, FS_RemoveElement
  <2>3. IsFiniteSet((Latencies \ {None}) \cup {0})
    BY <2>2, FS_AddElement
  <2>4. S = (Latencies \ {None}) \cup {0}
    OBVIOUS
  <2> QED BY <2>3, <2>4
<1>3. 0 \in S
  OBVIOUS
<1>4. Slowest \in S /\ \A x \in S : x <= Slowest
  <2>1. Slowest = Advised!Max(S)
    BY DEF Slowest
  <2> HIDE DEF S
  <2> QED BY <1>1, <1>2, <1>3, <2>1, LargestNat
<1> QED BY <1>1, <1>4

(* A mean of whole numbers, rounded down, is no larger than they are. *)
LEMMA MeanBounded ==
  ASSUME NEW a \in Nat, NEW x \in Nat, NEW m \in Nat, a <= m, x <= m, NEW n \in Nat, n > 1
  PROVE  (a * (n - 1) + x) \div n \in Nat /\ (a * (n - 1) + x) \div n <= m
<1>1. \A k \in Nat : \A i, j \in Nat : i <= j => i * k <= j * k
  OBVIOUS
<1>2. a * (n - 1) <= m * (n - 1)
  BY <1>1
<1>3. a * (n - 1) + x <= m * n /\ a * (n - 1) + x \in Nat
  <2>1. m * (n - 1) + m = m * n
    OBVIOUS
  <2> QED BY <1>2, <2>1
<1> DEFINE s == a * (n - 1) + x
           q == s \div n
<1>4. q \in Nat /\ q * n <= s
  <2>1. s \in Nat
    BY <1>3
  <2> HIDE DEF s
  <2> QED BY <2>1
<1>5. q * n <= m * n
  BY <1>3, <1>4
<1>6. q <= m
  <2> SUFFICES ASSUME q >= m + 1 PROVE FALSE
    BY <1>4
  <2> HIDE DEF q
  <2>1. (m + 1) * n <= q * n
    BY <1>1, <1>4
  <2>2. (m + 1) * n = m * n + n
    OBVIOUS
  <2> QED BY <1>4, <1>5, <2>1, <2>2
<1> QED BY <1>4, <1>6

EventIds == {history[i].id : i \in DOMAIN history}
Ended(s) == {id \in DOMAIN analyses : analyses[id].status = s}
Answered(a) == {id \in DOMAIN recommendations : recommendations[id].accepted = a}

(* The parts of AnalysesAccounted. *)
NumbersUsed == DOMAIN analyses \cup DOMAIN recommendations \cup EventIds = 1..nextId
NumbersCounted ==
  /\ analysisMetrics.total + analysisMetrics.successful + Len(history) = nextId
  /\ analysisMetrics.total = Cardinality(DOMAIN analyses)
  /\ analysisMetrics.successful = Cardinality(DOMAIN recommendations)
EndsCounted ==
  /\ Cardinality(Ended("Completed")) <= analysisMetrics.successful
  /\ Cardinality(Ended("Failed")) <= analysisMetrics.failed
  /\ Cardinality(Ended("TimedOut")) <= analysisMetrics.timed_out
AnswersCounted ==
  /\ Cardinality(Answered(TRUE)) <= analysisMetrics.accepted
  /\ Cardinality(Answered(FALSE)) <= analysisMetrics.rejected
AnalysesKnown == \A id \in DOMAIN recommendations : recommendations[id].analysis \in DOMAIN analyses
MeanHeld == analysisMetrics.average_latency_ms <= Slowest

Accounts == NumbersUsed /\ NumbersCounted /\ EndsCounted /\ AnswersCounted /\ AnalysesKnown /\ MeanHeld

AdviceInv == Advised!TypeOK /\ Accounts

LEMMA AccountsAgree == Accounts => Advised!AnalysesAccounted
BY AdviceOperatorsAlike
   DEF Accounts, NumbersUsed, NumbersCounted, EndsCounted, AnswersCounted, AnalysesKnown, MeanHeld,
       EventIds, Ended, Answered, Slowest, Advised!AnalysesAccounted

LEMMA Metrics ==
  ASSUME Advised!TypeOK
  PROVE  /\ analysisMetrics.total \in Nat /\ analysisMetrics.successful \in Nat
         /\ analysisMetrics.failed \in Nat /\ analysisMetrics.timed_out \in Nat
         /\ analysisMetrics.average_latency_ms \in Nat
         /\ analysisMetrics.accepted \in Nat /\ analysisMetrics.rejected \in Nat
         /\ nextId \in Nat /\ nextId <= MaxId /\ MaxId \in Nat
BY AnalysisAssumed DEF Advised!TypeOK, Advised!AnalysisMetrics, Advised!AnalysisAssumption

LEMMA IdsFinite ==
  /\ IsFiniteSet(Advised!Ids)
  /\ \A S : S \subseteq Advised!Ids => IsFiniteSet(S) /\ Cardinality(S) \in Nat
<1>1. IsFiniteSet(Advised!Ids)
  <2>1. 1 \in Int /\ MaxId \in Int
    BY AnalysisAssumed DEF Advised!AnalysisAssumption
  <2> QED BY <2>1, FS_Interval DEF Advised!Ids
<1> QED BY <1>1, FS_Subset, FS_CardinalityType

(* At most one more, or no more. *)
LEMMA OneMoreId ==
  ASSUME NEW S \in SUBSET Advised!Ids, NEW T, NEW x, T \subseteq S \cup {x}
  PROVE  Cardinality(T) <= Cardinality(S) + 1
<1>1. IsFiniteSet(S) /\ Cardinality(S) \in Nat
  BY IdsFinite
<1>2. /\ IsFiniteSet(S \cup {x})
      /\ Cardinality(S \cup {x}) = IF x \in S THEN Cardinality(S) ELSE Cardinality(S) + 1
  BY <1>1, FS_AddElement
<1>3. Cardinality(T) <= Cardinality(S \cup {x})
  BY <1>2, FS_Subset
<1>4. Cardinality(T) \in Nat
  BY <1>2, FS_Subset, FS_CardinalityType
<1> QED BY <1>1, <1>2, <1>3, <1>4

LEMMA NoMoreIds ==
  ASSUME NEW S \in SUBSET Advised!Ids, NEW T \in SUBSET S
  PROVE  Cardinality(T) <= Cardinality(S)
BY IdsFinite, FS_Subset

LEMMA AdviceBegin == Advised!Init => AdviceInv
<1> SUFFICES ASSUME Advised!Init PROVE AdviceInv
  OBVIOUS
<1>1. /\ triggers = <<>> /\ analyses = <<>> /\ recommendations = <<>> /\ listeners = <<>> /\ history = <<>>
      /\ analysisMetrics = [total |-> 0, successful |-> 0, failed |-> 0, timed_out |-> 0,
                            average_latency_ms |-> 0, accepted |-> 0, rejected |-> 0]
      /\ nextId = 0
  BY DEF Advised!Init, Advised!Zero
<1>2. Advised!TypeOK
  <2>1. MaxId \in Nat
    BY AnalysisAssumed DEF Advised!AnalysisAssumption
  <2>2. analysisMetrics \in Advised!AnalysisMetrics
    BY <1>1 DEF Advised!AnalysisMetrics
  <2> QED BY <1>1, <2>1, <2>2 DEF Advised!TypeOK
<1>3. EventIds = {} /\ (\A s : Ended(s) = {}) /\ (\A a : Answered(a) = {})
  BY <1>1 DEF EventIds, Ended, Answered
<1>4. Cardinality({}) = 0
  BY FS_EmptySet
<1>5. NumbersUsed
  BY <1>1, <1>3 DEF NumbersUsed
<1>6. NumbersCounted
  BY <1>1, <1>4 DEF NumbersCounted
<1>7. EndsCounted /\ AnswersCounted
  <2>1. (\A s : Cardinality(Ended(s)) = 0) /\ (\A a : Cardinality(Answered(a)) = 0)
    BY <1>3, <1>4
  <2>2. /\ Cardinality(Ended("Completed")) = 0 /\ Cardinality(Ended("Failed")) = 0
        /\ Cardinality(Ended("TimedOut")) = 0
        /\ Cardinality(Answered(TRUE)) = 0 /\ Cardinality(Answered(FALSE)) = 0
    BY <2>1, Zenon
  <2>3. /\ analysisMetrics.successful = 0 /\ analysisMetrics.failed = 0 /\ analysisMetrics.timed_out = 0
        /\ analysisMetrics.accepted = 0 /\ analysisMetrics.rejected = 0
    BY <1>1
  <2>4. \A x, y : x = 0 /\ y = 0 => x <= y
    OBVIOUS
  <2>5. EndsCounted
    BY <2>2, <2>3 DEF EndsCounted
  <2>6. AnswersCounted
    BY <2>2, <2>3, <2>4, Zenon DEF AnswersCounted
  <2> QED BY <2>5, <2>6
<1>8. AnalysesKnown /\ MeanHeld
  BY <1>1, SlowestTyped DEF AnalysesKnown, MeanHeld
<1> QED BY <1>2, <1>5, <1>6, <1>7, <1>8 DEF AdviceInv, Accounts

(* Triggers and listeners are counted nowhere. *)
LEMMA AccountsKept ==
  ASSUME Accounts, UNCHANGED <<analyses, recommendations, analysisMetrics, nextId, history>>
  PROVE  Accounts'
BY DEF Accounts, NumbersUsed, NumbersCounted, EndsCounted, AnswersCounted, AnalysesKnown, MeanHeld,
       EventIds, Ended, Answered

LEMMA TriggersEdited ==
  ASSUME AdviceInv, NEW key \in TriggerKeys,
         \/ \E t \in Triggers : Advised!AddTrigger(key, t)
         \/ \E p \in People : Advised!RemoveTrigger(key, p)
  PROVE  AdviceInv'
<1>0. UNCHANGED <<analyses, recommendations, analysisMetrics, nextId, history, listeners>>
  BY DEF Advised!AddTrigger, Advised!RemoveTrigger
<1>1. triggers' \in [DOMAIN triggers' -> Triggers] /\ DOMAIN triggers' \subseteq TriggerKeys
  <2>0. triggers \in [DOMAIN triggers -> Triggers] /\ DOMAIN triggers \subseteq TriggerKeys
    BY DEF AdviceInv, Advised!TypeOK
  <2>1. ASSUME NEW t \in Triggers, Advised!AddTrigger(key, t)
        PROVE  triggers' \in [DOMAIN triggers' -> Triggers] /\ DOMAIN triggers' \subseteq TriggerKeys
    <3>1. triggers' = [k \in DOMAIN triggers \cup {key} |-> IF k = key THEN t ELSE triggers[k]]
      BY <2>1 DEF Advised!AddTrigger, Advised!Put
    <3> QED BY <2>0, <3>1
  <2>2. ASSUME NEW p \in People, Advised!RemoveTrigger(key, p)
        PROVE  triggers' \in [DOMAIN triggers' -> Triggers] /\ DOMAIN triggers' \subseteq TriggerKeys
    <3>1. triggers' = [k \in DOMAIN triggers \ {key} |-> triggers[k]]
      BY <2>2 DEF Advised!RemoveTrigger, Advised!Restrict
    <3> QED BY <2>0, <3>1
  <2> QED BY <2>1, <2>2
<1>2. Accounts'
  BY <1>0, AccountsKept DEF AdviceInv
<1> QED BY <1>0, <1>1, <1>2 DEF AdviceInv, Advised!TypeOK

LEMMA ListenersEdited ==
  ASSUME AdviceInv, NEW s \in People,
         \/ \E events \in SUBSET EventTypes : Advised!Subscribe(s, events)
         \/ Advised!Unsubscribe(s)
  PROVE  AdviceInv'
<1>0. listeners \in Seq(Advised!Subscription)
  BY DEF AdviceInv, Advised!TypeOK
<1>1. UNCHANGED <<triggers, analyses, recommendations, analysisMetrics, nextId, history>>
  BY DEF Advised!Subscribe, Advised!Unsubscribe
<1>2. listeners' \in Seq(Advised!Subscription)
  <2>1. ASSUME NEW events \in SUBSET EventTypes, Advised!Subscribe(s, events)
        PROVE  listeners' \in Seq(Advised!Subscription)
    <3>1. [subscriber |-> s, events |-> events, is_active |-> TRUE] \in Advised!Subscription
      BY DEF Advised!Subscription
    <3> QED BY <1>0, <2>1, <3>1, AppendProperties DEF Advised!Subscribe
  <2>2. CASE Advised!Unsubscribe(s)
    <3> DEFINE n == Len(listeners)
    <3>1. n \in Nat /\ DOMAIN listeners = 1..n /\ \A i \in 1..n : listeners[i] \in Advised!Subscription
      BY <1>0, LenProperties, ElementOfSeq
    <3>2. listeners' = [i \in 1..n |-> [listeners[i] EXCEPT
                                          !.is_active = listeners[i].is_active /\ i \notin Advised!Listening(s)]]
      BY <2>2, <3>1 DEF Advised!Unsubscribe
    <3> HIDE DEF n
    <3>3. ASSUME NEW i \in 1..n
          PROVE  [listeners[i] EXCEPT !.is_active = listeners[i].is_active /\ i \notin Advised!Listening(s)]
                   \in Advised!Subscription
      <4>1. \A r \in Advised!Subscription, b \in BOOLEAN : [r EXCEPT !.is_active = b] \in Advised!Subscription
        BY DEF Advised!Subscription
      <4>2. (listeners[i].is_active /\ i \notin Advised!Listening(s)) \in BOOLEAN
        OBVIOUS
      <4> QED BY <3>1, <4>1, <4>2
    <3>4. listeners' \in [1..n -> Advised!Subscription]
      BY <3>2, <3>3
    <3> QED BY <3>1, <3>4, SeqDef
  <2> QED BY <2>1, <2>2
<1>3. Accounts'
  BY <1>1, AccountsKept DEF AdviceInv
<1> QED BY <1>1, <1>2, <1>3 DEF AdviceInv, Advised!TypeOK

LEMMA EventEmitted ==
  ASSUME AdviceInv, NEW type \in EventTypes, Advised!EmitEvent(type)
  PROVE  AdviceInv'
<1> DEFINE n == Len(history)
           e == [id |-> nextId + 1, type |-> type]
<1>0. /\ nextId < MaxId /\ nextId' = nextId + 1 /\ history' = Append(history, e)
      /\ UNCHANGED <<triggers, analyses, recommendations, analysisMetrics, listeners>>
  BY DEF Advised!EmitEvent
<1>1. Advised!TypeOK /\ Accounts /\ nextId \in Nat /\ MaxId \in Nat
  BY Metrics DEF AdviceInv
<1>2. e \in Advised!Event
  BY <1>0, <1>1 DEF Advised!Event, Advised!Ids
<1>3. /\ history \in Seq(Advised!Event) /\ n \in Nat /\ DOMAIN history = 1..n
  BY <1>1, LenProperties DEF Advised!TypeOK
<1>4. /\ history' \in Seq(Advised!Event) /\ Len(history') = n + 1 /\ history'[n + 1] = e
      /\ \A i \in 1..n : history'[i] = history[i]
  BY <1>0, <1>2, <1>3, AppendProperties
<1>5. EventIds' = EventIds \cup {nextId + 1}
  <2>1. DOMAIN history' = 1..(n + 1) /\ \A i : i \in 1..(n + 1) <=> i \in 1..n \/ i = n + 1
    BY <1>3, <1>4, LenProperties
  <2>2. EventIds' = {history'[i].id : i \in 1..(n + 1)} /\ EventIds = {history[i].id : i \in 1..n}
    BY <1>3, <2>1 DEF EventIds
  <2>3. e.id = nextId + 1
    OBVIOUS
  <2> HIDE DEF n, e
  <2> QED BY <1>4, <2>1, <2>2, <2>3
<1>6. Advised!TypeOK'
  BY <1>0, <1>1, <1>4 DEF Advised!TypeOK
<1>7. NumbersUsed'
  <2>1. \A i : i \in 1..(nextId + 1) <=> i \in 1..nextId \/ i = nextId + 1
    BY <1>1
  <2> QED BY <1>0, <1>1, <1>5, <2>1 DEF Accounts, NumbersUsed
<1>8. NumbersCounted'
  BY <1>0, <1>1, <1>3, <1>4, Metrics DEF Accounts, NumbersCounted
<1>9. EndsCounted' /\ AnswersCounted' /\ AnalysesKnown' /\ MeanHeld'
  BY <1>0, <1>1 DEF Accounts, EndsCounted, AnswersCounted, AnalysesKnown, MeanHeld, Ended, Answered
<1> QED BY <1>6, <1>7, <1>8, <1>9 DEF AdviceInv, Accounts

LEMMA AnalysesStarted ==
  ASSUME AdviceInv, NEW type, NEW value, Advised!ProcessEvent(type, value)
  PROVE  AdviceInv'
<1> DEFINE P == {k \in DOMAIN triggers : triggers[k].is_active /\ Advised!Evaluate(triggers[k], type, value)}
           n == Cardinality(P)
           D == DOMAIN analyses
           N == (nextId + 1)..(nextId + n)
           new(id) == [trigger |-> Kth(P, id - nextId), status |-> "Pending", latency_ms |-> 0,
                       output |-> None]
<1>0. Advised!TypeOK /\ Accounts /\ nextId \in Nat /\ MaxId \in Nat /\ analysisMetrics.total \in Nat
  BY Metrics DEF AdviceInv
<1>1. P \in SUBSET TriggerKeys /\ n \in Nat /\ \A k \in 1..n : Kth(P, k) \in TriggerKeys
  <2> DEFINE K == Cardinality(TriggerKeys)
  <2>1. TriggerKeys = 1..K /\ K \in Nat
    BY AnalysisAssumed, AdviceOperatorsAlike, FS_CardinalityType DEF Advised!AnalysisAssumption
  <2>2. P \in SUBSET (1..K)
    BY <1>0, <2>1 DEF Advised!TypeOK
  <2> HIDE DEF P, K
  <2>3. Cardinality(P) \in Nat /\ \A k \in 1..Cardinality(P) : Kth(P, k) \in P
    BY <2>1, <2>2, KthInside
  <2> QED BY <2>1, <2>2, <2>3
<1>2. /\ nextId' = nextId + n /\ nextId + n <= MaxId
      /\ analyses' = [id \in D \cup N |-> IF id <= nextId THEN analyses[id] ELSE new(id)]
      /\ analysisMetrics' = [analysisMetrics EXCEPT !.total = analysisMetrics.total + n]
      /\ UNCHANGED <<triggers, recommendations, listeners, history>>
  <2>1. /\ nextId' = nextId + n /\ nextId + n <= MaxId
        /\ analysisMetrics' = [analysisMetrics EXCEPT !.total = analysisMetrics.total + n]
        /\ UNCHANGED <<triggers, recommendations, listeners, history>>
    BY AdviceOperatorsAlike DEF Advised!ProcessEvent
  <2>2. analyses' = [id \in D \cup N |-> IF id <= nextId THEN analyses[id] ELSE new(id)]
    BY <2>1, AdviceOperatorsAlike DEF Advised!ProcessEvent
  <2> QED BY <2>1, <2>2
<1> HIDE DEF P, n
<1>3. D \subseteq 1..nextId /\ D \subseteq Advised!Ids /\ analyses \in [D -> Advised!AnalysisResult]
  BY <1>0 DEF Accounts, NumbersUsed, Advised!TypeOK
<1>4. /\ \A id \in N : id \in Nat /\ ~(id <= nextId) /\ id - nextId \in 1..n /\ id \in Advised!Ids
      /\ \A id \in D : id \in Nat /\ id <= nextId /\ id \notin N
  BY <1>0, <1>1, <1>2, <1>3 DEF Advised!Ids
<1>5. \A id \in N : new(id) \in Advised!AnalysisResult
  BY <1>1, <1>4 DEF Advised!AnalysisResult, Advised!Statuses
<1> HIDE DEF D, N, new
<1>6. /\ DOMAIN analyses' = D \cup N
      /\ \A id \in D : analyses'[id] = analyses[id]
      /\ \A id \in N : analyses'[id] = new(id)
  BY <1>2, <1>4
<1>7. analyses' \in [DOMAIN analyses' -> Advised!AnalysisResult] /\ DOMAIN analyses' \subseteq Advised!Ids
  BY <1>2, <1>3, <1>4, <1>5, <1>6
<1>8. /\ analysisMetrics' \in Advised!AnalysisMetrics
      /\ analysisMetrics'.total = analysisMetrics.total + n
      /\ analysisMetrics'.successful = analysisMetrics.successful
      /\ analysisMetrics'.failed = analysisMetrics.failed
      /\ analysisMetrics'.timed_out = analysisMetrics.timed_out
      /\ analysisMetrics'.accepted = analysisMetrics.accepted
      /\ analysisMetrics'.rejected = analysisMetrics.rejected
      /\ analysisMetrics'.average_latency_ms = analysisMetrics.average_latency_ms
  <2>1. analysisMetrics \in Advised!AnalysisMetrics /\ analysisMetrics.total + n \in Nat
    BY <1>0, <1>1 DEF Advised!TypeOK
  <2> QED BY <1>2, <2>1 DEF Advised!AnalysisMetrics
<1>9. Advised!TypeOK'
  <2>1. nextId' \in 0..MaxId
    BY <1>0, <1>1, <1>2
  <2> QED BY <1>0, <1>2, <1>7, <1>8, <2>1 DEF Advised!TypeOK
<1>10. Cardinality(D \cup N) = Cardinality(D) + n
  <2>1. IsFiniteSet(D) /\ Cardinality(D) \in Nat
    BY <1>3, IdsFinite
  <2>2. IsFiniteSet(N) /\ Cardinality(N) = n
    <3> DEFINE lo == nextId + 1
               hi == nextId + n
    <3>1. lo \in Int /\ hi \in Int
      BY <1>0, <1>1
    <3>2. (IF lo > hi THEN 0 ELSE hi - lo + 1) = n
      BY <1>0, <1>1
    <3>3. N = lo..hi
      BY DEF N
    <3> HIDE DEF lo, hi
    <3> QED BY <3>1, <3>2, <3>3, FS_Interval
  <2>3. D \cap N = {}
    BY <1>4
  <2>4. Cardinality(D \cap N) = 0
    BY <2>3, FS_EmptySet
  <2>5. Cardinality(D \cup N) = Cardinality(D) + Cardinality(N) - Cardinality(D \cap N)
    BY <2>1, <2>2, FS_Union
  <2> QED BY <1>1, <2>1, <2>2, <2>4, <2>5
<1>11. NumbersUsed'
  <2>1. \A i : i \in 1..(nextId + n) <=> i \in 1..nextId \/ i \in N
    BY <1>0, <1>1 DEF N
  <2>2. D \cup DOMAIN recommendations \cup EventIds = 1..nextId
    BY <1>0 DEF Accounts, NumbersUsed, D
  <2>3. EventIds' = EventIds /\ DOMAIN recommendations' = DOMAIN recommendations /\ nextId' = nextId + n
    BY <1>2 DEF EventIds
  <2>4. (D \cup N) \cup DOMAIN recommendations \cup EventIds = 1..(nextId + n)
    BY <2>1, <2>2
  <2> QED BY <1>6, <2>3, <2>4 DEF NumbersUsed
<1>12. NumbersCounted'
  <2>1. /\ analysisMetrics.total + analysisMetrics.successful + Len(history) = nextId
        /\ analysisMetrics.total = Cardinality(D)
        /\ analysisMetrics.successful = Cardinality(DOMAIN recommendations)
    BY <1>0 DEF Accounts, NumbersCounted, D
  <2>2. Len(history') = Len(history) /\ Len(history) \in Nat /\ DOMAIN recommendations' = DOMAIN recommendations
    BY <1>0, <1>2, LenProperties DEF Advised!TypeOK
  <2>3. analysisMetrics'.total + analysisMetrics'.successful + Len(history') = nextId'
    BY <1>0, <1>1, <1>2, <1>8, <2>1, <2>2, Metrics
  <2>4. analysisMetrics'.total = Cardinality(DOMAIN analyses')
    BY <1>6, <1>8, <1>10, <2>1
  <2> QED BY <1>8, <2>1, <2>2, <2>3, <2>4 DEF NumbersCounted
<1>13. EndsCounted'
  <2>1. ASSUME NEW s, s # "Pending" PROVE Ended(s)' = Ended(s)
    <3>1. \A id \in N : analyses'[id].status = "Pending"
      BY <1>6 DEF new
    <3> QED BY <1>6, <2>1, <3>1 DEF Ended, D
  <2>2. Ended("Completed")' = Ended("Completed") /\ Ended("Failed")' = Ended("Failed")
        /\ Ended("TimedOut")' = Ended("TimedOut")
    BY <2>1
  <2> QED BY <1>0, <1>8, <2>2 DEF Accounts, EndsCounted
<1>14. AnswersCounted'
  <2>1. \A a : Answered(a)' = Answered(a)
    BY <1>2 DEF Answered
  <2>2. Answered(TRUE)' = Answered(TRUE) /\ Answered(FALSE)' = Answered(FALSE)
    BY <2>1, Zenon
  <2> QED BY <1>0, <1>8, <2>2, Zenon DEF Accounts, AnswersCounted
<1>15. AnalysesKnown' /\ MeanHeld'
  BY <1>0, <1>2, <1>6, <1>8 DEF Accounts, AnalysesKnown, MeanHeld, D
<1> QED BY <1>9, <1>11, <1>12, <1>13, <1>14, <1>15 DEF AdviceInv, Accounts

(* What a report adds to the metrics. *)
LEMMA ReportCounted ==
  ASSUME NEW m \in Advised!AnalysisMetrics, m.average_latency_ms <= Slowest,
         NEW x \in {0} \cup (Latencies \ {None}), NEW s \in Advised!Statuses,
         NEW r, r = Advised!Counted(m, Advised!Meant(s), x)
  PROVE  /\ r \in Advised!AnalysisMetrics
         /\ r.total = m.total /\ r.accepted = m.accepted /\ r.rejected = m.rejected
         /\ r.successful = m.successful + (IF s = "Completed" THEN 1 ELSE 0)
         /\ r.failed = m.failed + (IF s = "Failed" THEN 1 ELSE 0)
         /\ r.timed_out = m.timed_out + (IF s = "TimedOut" THEN 1 ELSE 0)
         /\ r.average_latency_ms <= Slowest
<1> DEFINE n == m.successful + 1
           avg == IF x = 0 THEN m.average_latency_ms
                  ELSE IF n > 1 THEN (m.average_latency_ms * (n - 1) + x) \div n ELSE x
           Claim == /\ r \in Advised!AnalysisMetrics
                    /\ r.total = m.total /\ r.accepted = m.accepted /\ r.rejected = m.rejected
                    /\ r.successful = m.successful + (IF s = "Completed" THEN 1 ELSE 0)
                    /\ r.failed = m.failed + (IF s = "Failed" THEN 1 ELSE 0)
                    /\ r.timed_out = m.timed_out + (IF s = "TimedOut" THEN 1 ELSE 0)
                    /\ r.average_latency_ms <= Slowest
<1>1. /\ m.total \in Nat /\ m.successful \in Nat /\ m.failed \in Nat /\ m.timed_out \in Nat
      /\ m.average_latency_ms \in Nat /\ m.accepted \in Nat /\ m.rejected \in Nat
  BY DEF Advised!AnalysisMetrics
<1>2. x \in Nat /\ x <= Slowest /\ Slowest \in Nat
  BY SlowestTyped
<1>3. avg \in Nat /\ avg <= Slowest
  <2>1. n \in Nat
    BY <1>1
  <2>2. ASSUME n > 1
        PROVE  /\ (m.average_latency_ms * (n - 1) + x) \div n \in Nat
               /\ (m.average_latency_ms * (n - 1) + x) \div n <= Slowest
    <3> HIDE DEF n
    <3> QED BY <1>1, <1>2, <2>1, <2>2, MeanBounded
  <2> HIDE DEF n
  <2> QED BY <1>1, <1>2, <2>2
<1> HIDE DEF avg
<1>4. CASE s = "Completed"
  <2>1. r = [m EXCEPT !.successful = m.successful + 1, !.average_latency_ms = avg]
    BY <1>4 DEF Advised!Counted, Advised!Meant, Advised!Completed, avg
  <2>2. /\ [m EXCEPT !.successful = m.successful + 1] \in Advised!AnalysisMetrics
        /\ r = [[m EXCEPT !.successful = m.successful + 1] EXCEPT !.average_latency_ms = avg]
    BY <1>1, <2>1 DEF Advised!AnalysisMetrics
  <2>3. r \in Advised!AnalysisMetrics
    BY <1>3, <2>2 DEF Advised!AnalysisMetrics
  <2>4. /\ r.total = m.total /\ r.accepted = m.accepted /\ r.rejected = m.rejected
        /\ r.successful = m.successful + 1 /\ r.failed = m.failed /\ r.timed_out = m.timed_out
        /\ r.average_latency_ms = avg
    BY <2>1 DEF Advised!AnalysisMetrics
  <2> QED BY <1>1, <1>3, <1>4, <2>3, <2>4
<1>5. CASE s = "Failed"
  <2>1. r = [m EXCEPT !.failed = m.failed + 1]
    BY <1>5 DEF Advised!Counted, Advised!Meant
  <2>2. r \in Advised!AnalysisMetrics
    BY <1>1, <2>1 DEF Advised!AnalysisMetrics
  <2> QED BY <1>1, <1>5, <2>1, <2>2 DEF Advised!AnalysisMetrics
<1>6. CASE s = "TimedOut"
  <2>1. r = [m EXCEPT !.timed_out = m.timed_out + 1]
    BY <1>6 DEF Advised!Counted, Advised!Meant
  <2>2. r \in Advised!AnalysisMetrics
    BY <1>1, <2>1 DEF Advised!AnalysisMetrics
  <2> QED BY <1>1, <1>6, <2>1, <2>2 DEF Advised!AnalysisMetrics
<1>7. CASE s \notin {"Completed", "Failed", "TimedOut"}
  <2>1. r = m
    BY <1>7 DEF Advised!Counted, Advised!Meant
  <2> QED BY <1>1, <1>7, <2>1
<1> QED BY <1>4, <1>5, <1>6, <1>7

(* One analysis is given a status: no more end in another way. *)
LEMMA StatusSet ==
  ASSUME AdviceInv, NEW id \in DOMAIN analyses, NEW a \in Advised!AnalysisResult,
         analyses' = [analyses EXCEPT ![id] = a]
  PROVE  /\ analyses' \in [DOMAIN analyses' -> Advised!AnalysisResult] /\ DOMAIN analyses' = DOMAIN analyses
         /\ \A s : Cardinality(Ended(s)') <= Cardinality(Ended(s)) + (IF a.status = s THEN 1 ELSE 0)
         /\ \A s : Cardinality(Ended(s)) \in Nat /\ Cardinality(Ended(s)') \in Nat
<1>1. analyses \in [DOMAIN analyses -> Advised!AnalysisResult] /\ DOMAIN analyses \subseteq Advised!Ids
  BY DEF AdviceInv, Advised!TypeOK
<1>2. /\ analyses' \in [DOMAIN analyses' -> Advised!AnalysisResult] /\ DOMAIN analyses' = DOMAIN analyses
      /\ analyses'[id] = a /\ \A k \in DOMAIN analyses : k # id => analyses'[k] = analyses[k]
  BY <1>1
<1>3. ASSUME NEW s
      PROVE  /\ Cardinality(Ended(s)') <= Cardinality(Ended(s)) + (IF a.status = s THEN 1 ELSE 0)
             /\ Cardinality(Ended(s)) \in Nat /\ Cardinality(Ended(s)') \in Nat
  <2>1. Ended(s) \in SUBSET Advised!Ids /\ Ended(s)' \in SUBSET Advised!Ids
    BY <1>1, <1>2 DEF Ended
  <2>2. Cardinality(Ended(s)) \in Nat /\ Cardinality(Ended(s)') \in Nat
    BY <2>1, IdsFinite
  <2>3. CASE a.status = s
    <3>1. Ended(s)' \subseteq Ended(s) \cup {id}
      BY <1>2 DEF Ended
    <3>2. Cardinality(Ended(s)') <= Cardinality(Ended(s)) + 1
      BY <2>1, <3>1, OneMoreId
    <3> QED BY <2>2, <2>3, <3>2
  <2>4. CASE a.status # s
    <3>1. Ended(s)' \in SUBSET Ended(s)
      BY <1>2, <2>4 DEF Ended
    <3>2. Cardinality(Ended(s)') <= Cardinality(Ended(s))
      BY <2>1, <3>1, NoMoreIds
    <3> QED BY <2>2, <2>4, <3>2
  <2> QED BY <2>2, <2>3, <2>4
<1> QED BY <1>2, <1>3

(* A success makes a recommendation under the next number. *)
LEMMA RecommendationMade ==
  ASSUME AdviceInv, NEW id \in DOMAIN analyses, NEW output, nextId' = nextId + 1, nextId' <= MaxId,
         DOMAIN analyses' = DOMAIN analyses, history' = history,
         recommendations' = Advised!Put(recommendations, nextId', Advised!Recommended(id, output))
  PROVE  /\ recommendations' \in [DOMAIN recommendations' -> Advised!Recommendation]
         /\ DOMAIN recommendations' \subseteq Advised!Ids
         /\ Cardinality(DOMAIN recommendations') = Cardinality(DOMAIN recommendations) + 1
         /\ NumbersUsed' /\ AnalysesKnown'
         /\ \A a \in BOOLEAN : Answered(a)' = Answered(a)
<1> DEFINE D == DOMAIN recommendations
           k == nextId + 1
           new == Advised!Recommended(id, output)
<1>1. /\ Advised!TypeOK /\ Accounts /\ nextId \in Nat /\ MaxId \in Nat
      /\ None \notin BOOLEAN
  BY Metrics, AnalysisAssumed DEF AdviceInv, Advised!AnalysisAssumption
<1>2. recommendations \in [D -> Advised!Recommendation] /\ D \subseteq 1..nextId /\ D \subseteq Advised!Ids
  BY <1>1 DEF Advised!TypeOK, Accounts, NumbersUsed
<1>3. k \notin D /\ k \in Advised!Ids
  BY <1>1, <1>2 DEF Advised!Ids
<1>4. id \in Advised!Ids /\ new \in Advised!Recommendation /\ new.accepted = None /\ new.analysis = id
  <2>1. id \in Advised!Ids
    BY <1>1 DEF Advised!TypeOK
  <2>2. (IF output # None /\ output \in 0..4 THEN output ELSE 5) \in 0..5
    BY SMT
  <2> QED BY <2>1, <2>2 DEF Advised!Recommended, Advised!Recommendation
<1> HIDE DEF D, new
<1>5. /\ DOMAIN recommendations' = D \cup {k} /\ recommendations'[k] = new
      /\ \A i \in D : recommendations'[i] = recommendations[i]
      /\ recommendations' \in [D \cup {k} -> Advised!Recommendation]
  <2>1. recommendations' = [i \in D \cup {k} |-> IF i = k THEN new ELSE recommendations[i]]
    BY DEF Advised!Put, D, new
  <2> HIDE DEF k
  <2> QED BY <1>2, <1>3, <1>4, <2>1
<1>6. Cardinality(D \cup {k}) = Cardinality(D) + 1
  <2>1. IsFiniteSet(D)
    BY <1>2, IdsFinite
  <2> HIDE DEF k
  <2> QED BY <1>3, <2>1, FS_AddElement
<1>7. NumbersUsed'
  <2>1. DOMAIN analyses \cup D \cup EventIds = 1..nextId /\ EventIds' = EventIds
    BY <1>1 DEF Accounts, NumbersUsed, EventIds, D
  <2>2. 1..(nextId + 1) = (1..nextId) \cup {k}
    BY <1>1
  <2> HIDE DEF k
  <2> QED BY <1>5, <2>1, <2>2 DEF NumbersUsed
<1>8. AnalysesKnown'
  <2>1. \A i \in D : recommendations[i].analysis \in DOMAIN analyses
    BY <1>1 DEF Accounts, AnalysesKnown, D
  <2> HIDE DEF k
  <2> QED BY <1>4, <1>5, <2>1 DEF AnalysesKnown
<1>9. ASSUME NEW a \in BOOLEAN PROVE Answered(a)' = Answered(a)
  <2> HIDE DEF k
  <2>1. ~(recommendations'[k].accepted = a)
    <3>1. recommendations'[k].accepted = None
      BY <1>4, <1>5
    <3> QED BY <1>1, <3>1, Zenon
  <2>2. \A i \in D : recommendations'[i].accepted = recommendations[i].accepted
    BY <1>5
  <2>3. /\ Answered(a)' = {i \in D \cup {k} : recommendations'[i].accepted = a}
        /\ Answered(a) = {i \in D : recommendations[i].accepted = a}
    BY <1>5, Zenon DEF Answered, D
  <2>4. {i \in D \cup {k} : recommendations'[i].accepted = a} = {i \in D : recommendations[i].accepted = a}
    BY <1>3, <2>1, <2>2, Zenon
  <2> QED BY <2>3, <2>4
<1> HIDE DEF k
<1>10. /\ recommendations' \in [DOMAIN recommendations' -> Advised!Recommendation]
       /\ DOMAIN recommendations' \subseteq Advised!Ids
  BY <1>2, <1>3, <1>5
<1> QED BY <1>5, <1>6, <1>7, <1>8, <1>9, <1>10 DEF D

LEMMA StatusUpdated ==
  ASSUME AdviceInv, NEW id, NEW s \in Advised!Statuses, NEW latency \in Latencies, NEW output \in Outputs,
         Advised!UpdateAnalysisStatus(id, s, latency, output)
  PROVE  AdviceInv'
<1> DEFINE x == IF latency = None THEN analyses[id].latency_ms ELSE latency
           y == IF output = None THEN analyses[id].output ELSE output
           a == [analyses[id] EXCEPT !.status = s, !.latency_ms = x, !.output = y]
           completed == Advised!Meant(s) = "Completed"
           m == analysisMetrics
<1>0. Advised!TypeOK /\ Accounts /\ nextId \in Nat /\ MaxId \in Nat
  BY Metrics DEF AdviceInv
<1>1. /\ id \in DOMAIN analyses
      /\ nextId' = nextId + (IF completed THEN 1 ELSE 0) /\ nextId' <= MaxId
      /\ analyses' = [analyses EXCEPT ![id] = a]
      /\ analysisMetrics' = Advised!Counted(m, Advised!Meant(s), a.latency_ms)
      /\ recommendations' = (IF completed
                             THEN Advised!Put(recommendations, nextId', Advised!Recommended(id, a.output))
                             ELSE recommendations)
      /\ UNCHANGED <<triggers, listeners, history>>
  BY DEF Advised!UpdateAnalysisStatus
<1>2. completed <=> s = "Completed"
  BY DEF Advised!Meant
<1>3. /\ a \in Advised!AnalysisResult /\ x \in {0} \cup (Latencies \ {None})
      /\ a.latency_ms = x /\ a.status = s
  <2> DEFINE r == [analyses[id] EXCEPT !.status = s]
             t == [r EXCEPT !.latency_ms = x]
  <2>1. analyses[id] \in Advised!AnalysisResult
    BY <1>0, <1>1 DEF Advised!TypeOK
  <2>2. x \in {0} \cup (Latencies \ {None}) /\ y \in Outputs \cup {None}
    BY <2>1 DEF Advised!AnalysisResult
  <2> HIDE DEF x, y
  <2>3. r \in Advised!AnalysisResult /\ r.status = s
    BY <2>1 DEF Advised!AnalysisResult
  <2>4. a = [t EXCEPT !.output = y]
    OBVIOUS
  <2>5. t \in Advised!AnalysisResult /\ t.status = s /\ t.latency_ms = x
    <3> HIDE DEF r
    <3> QED BY <2>2, <2>3 DEF Advised!AnalysisResult
  <2> HIDE DEF t, r, a
  <2> QED BY <2>2, <2>4, <2>5 DEF Advised!AnalysisResult
<1> HIDE DEF x, y, completed
<1> HIDE DEF a
<1>5. /\ analysisMetrics' \in Advised!AnalysisMetrics
      /\ analysisMetrics'.total = m.total
      /\ analysisMetrics'.accepted = m.accepted /\ analysisMetrics'.rejected = m.rejected
      /\ analysisMetrics'.successful = m.successful + (IF s = "Completed" THEN 1 ELSE 0)
      /\ analysisMetrics'.failed = m.failed + (IF s = "Failed" THEN 1 ELSE 0)
      /\ analysisMetrics'.timed_out = m.timed_out + (IF s = "TimedOut" THEN 1 ELSE 0)
      /\ analysisMetrics'.average_latency_ms <= Slowest
  <2>1. m \in Advised!AnalysisMetrics /\ m.average_latency_ms <= Slowest
    BY <1>0 DEF Advised!TypeOK, Accounts, MeanHeld
  <2>2. analysisMetrics' = Advised!Counted(m, Advised!Meant(s), x)
    BY <1>1, <1>3
  <2> QED BY <1>3, <2>1, <2>2, ReportCounted
<1>6. /\ analyses' \in [DOMAIN analyses' -> Advised!AnalysisResult] /\ DOMAIN analyses' = DOMAIN analyses
      /\ \A t : Cardinality(Ended(t)') <= Cardinality(Ended(t)) + (IF s = t THEN 1 ELSE 0)
      /\ \A t : Cardinality(Ended(t)) \in Nat /\ Cardinality(Ended(t)') \in Nat
  BY <1>1, <1>3, StatusSet
<1>7. EndsCounted'
  <2>1. ASSUME NEW t, NEW c \in Nat, NEW d, d = c + (IF s = t THEN 1 ELSE 0), Cardinality(Ended(t)) <= c
        PROVE  Cardinality(Ended(t)') <= d
    <3> DEFINE i == Cardinality(Ended(t))
               j == Cardinality(Ended(t)')
    <3>1. i \in Nat /\ j \in Nat /\ j <= i + (IF s = t THEN 1 ELSE 0) /\ i <= c
      BY <1>6, <2>1
    <3> HIDE DEF i, j
    <3>2. j <= d
      BY <2>1, <3>1
    <3> QED BY <3>2 DEF j
  <2>2. m.successful \in Nat /\ m.failed \in Nat /\ m.timed_out \in Nat
    BY <1>0, Metrics
  <2>3. /\ Cardinality(Ended("Completed")) <= m.successful /\ Cardinality(Ended("Failed")) <= m.failed
        /\ Cardinality(Ended("TimedOut")) <= m.timed_out
    BY <1>0 DEF Accounts, EndsCounted
  <2>4. Cardinality(Ended("Completed")') <= analysisMetrics'.successful
    BY <1>5, <2>1, <2>2, <2>3
  <2>5. Cardinality(Ended("Failed")') <= analysisMetrics'.failed
    BY <1>5, <2>1, <2>2, <2>3
  <2>6. Cardinality(Ended("TimedOut")') <= analysisMetrics'.timed_out
    BY <1>5, <2>1, <2>2, <2>3
  <2> QED BY <2>4, <2>5, <2>6 DEF EndsCounted
<1>8. MeanHeld'
  BY <1>5 DEF MeanHeld, Slowest
<1>9. /\ recommendations' \in [DOMAIN recommendations' -> Advised!Recommendation]
      /\ DOMAIN recommendations' \subseteq Advised!Ids
      /\ Cardinality(DOMAIN recommendations') = Cardinality(DOMAIN recommendations) + (IF completed THEN 1 ELSE 0)
      /\ NumbersUsed' /\ AnalysesKnown'
      /\ \A b \in BOOLEAN : Answered(b)' = Answered(b)
  <2>1. CASE completed
    <3>1. /\ recommendations' = Advised!Put(recommendations, nextId', Advised!Recommended(id, a.output))
          /\ nextId' = nextId + 1 /\ nextId' <= MaxId /\ history' = history
          /\ DOMAIN analyses' = DOMAIN analyses /\ id \in DOMAIN analyses
      BY <1>1, <1>6, <2>1
    <3>2. /\ recommendations' \in [DOMAIN recommendations' -> Advised!Recommendation]
          /\ DOMAIN recommendations' \subseteq Advised!Ids
          /\ Cardinality(DOMAIN recommendations') = Cardinality(DOMAIN recommendations) + 1
          /\ NumbersUsed' /\ AnalysesKnown'
          /\ \A b \in BOOLEAN : Answered(b)' = Answered(b)
      BY <3>1, RecommendationMade
    <3> QED BY <2>1, <3>2
  <2>2. CASE ~completed
    <3>1. recommendations' = recommendations /\ nextId' = nextId /\ history' = history
      BY <1>0, <1>1, <2>2
    <3>2. Cardinality(DOMAIN recommendations) \in Nat
      BY <1>0, IdsFinite DEF Advised!TypeOK
    <3>3. NumbersUsed' /\ AnalysesKnown'
      BY <1>0, <1>6, <3>1 DEF Accounts, NumbersUsed, AnalysesKnown, EventIds
    <3>4. \A b \in BOOLEAN : Answered(b)' = Answered(b)
      BY <3>1, Zenon DEF Answered
    <3> QED BY <1>0, <2>2, <3>1, <3>2, <3>3, <3>4 DEF Advised!TypeOK
  <2> QED BY <2>1, <2>2
<1>10. NumbersCounted'
  <2>1. /\ m.total + m.successful + Len(history) = nextId
        /\ m.total = Cardinality(DOMAIN analyses) /\ m.successful = Cardinality(DOMAIN recommendations)
    BY <1>0 DEF Accounts, NumbersCounted
  <2>2. Len(history') = Len(history) /\ Len(history) \in Nat /\ m.total \in Nat /\ m.successful \in Nat
    BY <1>0, <1>1, LenProperties, Metrics DEF Advised!TypeOK
  <2>3. analysisMetrics'.successful = m.successful + (IF completed THEN 1 ELSE 0)
    BY <1>2, <1>5
  <2>4. analysisMetrics'.total = Cardinality(DOMAIN analyses')
    BY <1>5, <1>6, <2>1
  <2>5. analysisMetrics'.successful = Cardinality(DOMAIN recommendations')
    BY <1>9, <2>1, <2>3
  <2>6. analysisMetrics'.total + analysisMetrics'.successful + Len(history') = nextId'
    BY <1>1, <1>5, <2>1, <2>2, <2>3
  <2> QED BY <2>4, <2>5, <2>6 DEF NumbersCounted
<1>11. AnswersCounted'
  <2>1. Answered(TRUE)' = Answered(TRUE) /\ Answered(FALSE)' = Answered(FALSE)
    BY <1>9, Zenon
  <2> QED BY <1>0, <1>5, <2>1, Zenon DEF Accounts, AnswersCounted
<1>12. Advised!TypeOK'
  <2>1. nextId' \in 0..MaxId
    BY <1>0, <1>1
  <2> QED BY <1>0, <1>1, <1>5, <1>6, <1>9, <2>1 DEF Advised!TypeOK
<1> QED BY <1>7, <1>8, <1>9, <1>10, <1>11, <1>12 DEF AdviceInv, Accounts

LEMMA TimeoutProcessed ==
  ASSUME AdviceInv, NEW id, Advised!ProcessTimeout(id)
  PROVE  AdviceInv'
<1> DEFINE a == [analyses[id] EXCEPT !.status = "TimedOut"]
           m == analysisMetrics
<1>0. Advised!TypeOK /\ Accounts /\ m \in Advised!AnalysisMetrics /\ m.timed_out \in Nat
  BY Metrics DEF AdviceInv, Advised!TypeOK
<1>1. /\ id \in DOMAIN analyses /\ analyses' = [analyses EXCEPT ![id] = a]
      /\ analysisMetrics' = [m EXCEPT !.timed_out = m.timed_out + 1]
      /\ UNCHANGED <<triggers, recommendations, nextId, listeners, history>>
  BY DEF Advised!ProcessTimeout
<1>2. a \in Advised!AnalysisResult /\ a.status = "TimedOut"
  <2>1. analyses[id] \in Advised!AnalysisResult
    BY <1>0, <1>1 DEF Advised!TypeOK
  <2> QED BY <2>1 DEF Advised!AnalysisResult, Advised!Statuses
<1> HIDE DEF a
<1>3. /\ analysisMetrics' \in Advised!AnalysisMetrics
      /\ analysisMetrics'.total = m.total /\ analysisMetrics'.successful = m.successful
      /\ analysisMetrics'.failed = m.failed /\ analysisMetrics'.timed_out = m.timed_out + 1
      /\ analysisMetrics'.accepted = m.accepted /\ analysisMetrics'.rejected = m.rejected
      /\ analysisMetrics'.average_latency_ms = m.average_latency_ms
  BY <1>0, <1>1 DEF Advised!AnalysisMetrics
<1>4. /\ analyses' \in [DOMAIN analyses' -> Advised!AnalysisResult] /\ DOMAIN analyses' = DOMAIN analyses
      /\ \A t : Cardinality(Ended(t)') <= Cardinality(Ended(t)) + (IF "TimedOut" = t THEN 1 ELSE 0)
      /\ \A t : Cardinality(Ended(t)) \in Nat /\ Cardinality(Ended(t)') \in Nat
  BY <1>1, <1>2, StatusSet
<1>5. EndsCounted'
  <2>1. /\ Cardinality(Ended("Completed")) <= m.successful /\ Cardinality(Ended("Failed")) <= m.failed
        /\ Cardinality(Ended("TimedOut")) <= m.timed_out
    BY <1>0 DEF Accounts, EndsCounted
  <2>2. m.successful \in Nat /\ m.failed \in Nat
    BY <1>0, Metrics
  <2>3. \A i, j \in Nat, c \in Nat : (j <= i + 0 /\ i <= c => j <= c) /\ (j <= i + 1 /\ i <= c => j <= c + 1)
    OBVIOUS
  <2>4. Cardinality(Ended("Completed")') <= m.successful
    BY <1>4, <2>1, <2>2, <2>3
  <2>5. Cardinality(Ended("Failed")') <= m.failed
    BY <1>4, <2>1, <2>2, <2>3
  <2>6. Cardinality(Ended("TimedOut")') <= m.timed_out + 1
    BY <1>0, <1>4, <2>1, <2>3
  <2> QED BY <1>3, <2>4, <2>5, <2>6 DEF EndsCounted
<1>6. NumbersUsed' /\ NumbersCounted' /\ AnalysesKnown' /\ MeanHeld'
  BY <1>0, <1>1, <1>3, <1>4 DEF Accounts, NumbersUsed, NumbersCounted, AnalysesKnown, MeanHeld, EventIds
<1>7. AnswersCounted'
  <2>1. \A b : Answered(b)' = Answered(b)
    BY <1>1, Zenon DEF Answered
  <2>2. Answered(TRUE)' = Answered(TRUE) /\ Answered(FALSE)' = Answered(FALSE)
    BY <2>1, Zenon
  <2> QED BY <1>0, <1>3, <2>2, Zenon DEF Accounts, AnswersCounted
<1>8. Advised!TypeOK'
  BY <1>0, <1>1, <1>3, <1>4 DEF Advised!TypeOK
<1> QED BY <1>5, <1>6, <1>7, <1>8 DEF AdviceInv, Accounts

LEMMA FeedbackGiven ==
  ASSUME AdviceInv, NEW id, NEW accepted \in BOOLEAN, Advised!ProcessRecommendationFeedback(id, accepted)
  PROVE  AdviceInv'
<1> DEFINE r == [recommendations[id] EXCEPT !.accepted = accepted]
           m == analysisMetrics
           yes == IF accepted THEN 1 ELSE 0
           no == IF accepted THEN 0 ELSE 1
<1>0. /\ Advised!TypeOK /\ Accounts /\ m \in Advised!AnalysisMetrics
      /\ m.accepted \in Nat /\ m.rejected \in Nat
  BY Metrics DEF AdviceInv, Advised!TypeOK
<1>1. /\ id \in DOMAIN recommendations /\ recommendations' = [recommendations EXCEPT ![id] = r]
      /\ analysisMetrics' = [m EXCEPT !.accepted = m.accepted + yes, !.rejected = m.rejected + no]
      /\ UNCHANGED <<triggers, analyses, nextId, listeners, history>>
  BY DEF Advised!ProcessRecommendationFeedback
<1>2. yes \in Nat /\ no \in Nat
  OBVIOUS
<1>3. /\ recommendations \in [DOMAIN recommendations -> Advised!Recommendation]
      /\ DOMAIN recommendations \subseteq Advised!Ids
  BY <1>0 DEF Advised!TypeOK
<1>4. /\ r \in Advised!Recommendation /\ r.analysis = recommendations[id].analysis
      /\ r.accepted = accepted
  <2>1. recommendations[id] \in Advised!Recommendation
    BY <1>1, <1>3
  <2> QED BY <2>1 DEF Advised!Recommendation
<1> HIDE DEF r
<1>5. /\ recommendations' \in [DOMAIN recommendations' -> Advised!Recommendation]
      /\ DOMAIN recommendations' = DOMAIN recommendations /\ recommendations'[id] = r
      /\ \A k \in DOMAIN recommendations : k # id => recommendations'[k] = recommendations[k]
  BY <1>1, <1>3, <1>4
<1>6. /\ analysisMetrics' \in Advised!AnalysisMetrics
      /\ analysisMetrics'.total = m.total /\ analysisMetrics'.successful = m.successful
      /\ analysisMetrics'.failed = m.failed /\ analysisMetrics'.timed_out = m.timed_out
      /\ analysisMetrics'.accepted = m.accepted + yes /\ analysisMetrics'.rejected = m.rejected + no
      /\ analysisMetrics'.average_latency_ms = m.average_latency_ms
  <2> HIDE DEF yes, no, m
  <2> DEFINE q == [m EXCEPT !.accepted = m.accepted + yes]
  <2>1. /\ q \in Advised!AnalysisMetrics /\ q.total = m.total /\ q.successful = m.successful
        /\ q.failed = m.failed /\ q.timed_out = m.timed_out /\ q.accepted = m.accepted + yes
        /\ q.rejected = m.rejected /\ q.average_latency_ms = m.average_latency_ms
    BY <1>0, <1>2 DEF Advised!AnalysisMetrics
  <2>2. analysisMetrics' = [q EXCEPT !.rejected = m.rejected + no]
    BY <1>1
  <2>3. m.rejected + no \in Nat
    BY <1>0, <1>2
  <2> HIDE DEF q
  <2> QED BY <2>1, <2>2, <2>3 DEF Advised!AnalysisMetrics
<1> HIDE DEF yes, no
<1>7. \A b \in BOOLEAN :
        /\ Cardinality(Answered(b)) \in Nat /\ Cardinality(Answered(b)') \in Nat
        /\ accepted = b => Cardinality(Answered(b)') <= Cardinality(Answered(b)) + 1
        /\ accepted # b => Cardinality(Answered(b)') <= Cardinality(Answered(b))
  <2> SUFFICES ASSUME NEW b \in BOOLEAN
               PROVE  /\ Cardinality(Answered(b)) \in Nat /\ Cardinality(Answered(b)') \in Nat
                      /\ accepted = b => Cardinality(Answered(b)') <= Cardinality(Answered(b)) + 1
                      /\ accepted # b => Cardinality(Answered(b)') <= Cardinality(Answered(b))
    OBVIOUS
  <2>1. Answered(b) \in SUBSET Advised!Ids /\ Answered(b)' \in SUBSET Advised!Ids
    BY <1>3, <1>5 DEF Answered
  <2>2. \A k \in Answered(b)' : k \in DOMAIN recommendations /\ (k # id => k \in Answered(b))
    BY <1>5, Zenon DEF Answered
  <2>3. ASSUME accepted # b PROVE id \notin Answered(b)'
    BY <1>4, <1>5, <2>3, Zenon DEF Answered
  <2>4. Answered(b)' \subseteq Answered(b) \cup {id} /\ (accepted # b => Answered(b)' \in SUBSET Answered(b))
    BY <2>2, <2>3, Zenon
  <2>5. Cardinality(Answered(b)) \in Nat /\ Cardinality(Answered(b)') \in Nat
    BY <2>1, IdsFinite
  <2>6. Cardinality(Answered(b)') <= Cardinality(Answered(b)) + 1
    BY <2>1, <2>4, OneMoreId
  <2>7. accepted # b => Cardinality(Answered(b)') <= Cardinality(Answered(b))
    BY <2>1, <2>4, NoMoreIds
  <2> QED BY <2>5, <2>6, <2>7, Zenon
<1>8. AnswersCounted'
  <2>1. \A i, j \in Nat, c \in Nat : (j <= i /\ i <= c => j <= c + 0) /\ (j <= i + 1 /\ i <= c => j <= c + 1)
    OBVIOUS
  <2>2. ASSUME NEW b \in BOOLEAN, NEW c \in Nat, NEW d \in Nat, d = IF accepted = b THEN 1 ELSE 0,
               Cardinality(Answered(b)) <= c
        PROVE  Cardinality(Answered(b)') <= c + d
    BY <1>7, <2>1, <2>2, Zenon
  <2>3. Cardinality(Answered(TRUE)) <= m.accepted /\ Cardinality(Answered(FALSE)) <= m.rejected
    BY <1>0, Zenon DEF Accounts, AnswersCounted
  <2>4. yes = (IF accepted = TRUE THEN 1 ELSE 0) /\ no = (IF accepted = FALSE THEN 1 ELSE 0)
    BY Zenon DEF yes, no
  <2>5. Cardinality(Answered(TRUE)') <= m.accepted + yes
    BY <1>0, <1>2, <2>2, <2>3, <2>4, Zenon
  <2>6. Cardinality(Answered(FALSE)') <= m.rejected + no
    BY <1>0, <1>2, <2>2, <2>3, <2>4, Zenon
  <2> QED BY <1>6, <2>5, <2>6, Zenon DEF AnswersCounted
<1>9. AnalysesKnown'
  BY <1>0, <1>1, <1>4, <1>5 DEF Accounts, AnalysesKnown
<1>10. NumbersUsed' /\ NumbersCounted' /\ EndsCounted' /\ MeanHeld'
  <2>1. \A t : Ended(t)' = Ended(t)
    BY <1>1 DEF Ended
  <2>2. EndsCounted'
    BY <1>0, <1>6, <2>1 DEF Accounts, EndsCounted
  <2>3. NumbersUsed' /\ NumbersCounted' /\ MeanHeld'
    BY <1>0, <1>1, <1>5, <1>6 DEF Accounts, NumbersUsed, NumbersCounted, MeanHeld, EventIds
  <2> QED BY <2>2, <2>3
<1>11. Advised!TypeOK'
  BY <1>0, <1>1, <1>5, <1>6 DEF Advised!TypeOK
<1> QED BY <1>8, <1>9, <1>10, <1>11 DEF AdviceInv, Accounts

LEMMA AdviceStep == AdviceInv /\ [Advised!Next]_(Advised!vars) => AdviceInv'
<1> SUFFICES ASSUME AdviceInv, [Advised!Next]_(Advised!vars) PROVE AdviceInv'
  OBVIOUS
<1>1. CASE UNCHANGED Advised!vars
  <2>1. Advised!TypeOK'
    BY <1>1 DEF AdviceInv, Advised!TypeOK, Advised!vars
  <2>2. Accounts'
    BY <1>1, AccountsKept DEF AdviceInv, Advised!vars
  <2> QED BY <2>1, <2>2 DEF AdviceInv
<1>2. CASE Advised!Next
  <2>1. \/ \E key \in TriggerKeys : \/ \E t \in Triggers : Advised!AddTrigger(key, t)
                                    \/ \E p \in People : Advised!RemoveTrigger(key, p)
        \/ \E type \in EventTypes : \/ Advised!EmitEvent(type)
                                    \/ \E v \in Values : Advised!ProcessEvent(type, v)
        \/ \E id \in Advised!Ids : \/ Advised!Report(id)
                                   \/ \E accepted \in BOOLEAN :
                                        Advised!ProcessRecommendationFeedback(id, accepted)
        \/ \E s \in People : \/ \E events \in SUBSET EventTypes : Advised!Subscribe(s, events)
                             \/ Advised!Unsubscribe(s)
    BY <1>2 DEF Advised!Next
  <2>2. ASSUME NEW id, Advised!Report(id) PROVE AdviceInv'
    <3>1. CASE Advised!ProcessTimeout(id)
      BY <3>1, TimeoutProcessed
    <3>2. CASE \E s \in Advised!Statuses, l \in Latencies, o \in Outputs :
                 Advised!UpdateAnalysisStatus(id, s, l, o)
      BY <3>2, StatusUpdated
    <3> QED BY <2>2, <3>1, <3>2 DEF Advised!Report
  <2> QED BY <2>1, <2>2, TriggersEdited, EventEmitted, AnalysesStarted, FeedbackGiven, ListenersEdited
<1> QED BY <1>1, <1>2

-----------------------------------------------------------------------------
(* ALL SIDE BY SIDE *)

(* The time of fees and challenges moves a day at a time. *)
DayMoves == UNCHANGED day \/ (day < MaxDay /\ day' = day + 1)

LEMMA FeesTakeTime == Charged!Next => DayMoves
<1>1. \A p \in People, q \in People : Charged!TransferAdmin(p, q) => UNCHANGED day
  BY DEF Charged!TransferAdmin
<1>2. \A p \in People, rs \in Recipients : Charged!SetRevenueRecipients(p, rs) => UNCHANGED day
  BY DEF Charged!SetRevenueRecipients
<1>3. \A p, a, f : Charged!RemoveFeeWaiver(p, a, f) => UNCHANGED day
  BY DEF Charged!RemoveFeeWaiver
<1>4. \A p, w : Charged!SetFeeWaiver(p, w) => UNCHANGED day
  BY DEF Charged!SetFeeWaiver
<1>5. \A p, f : Charged!RemovePortfolioFee(p, f) => UNCHANGED day
  BY DEF Charged!RemovePortfolioFee
<1>6. \A p, id, fs : Charged!SetFeeStructure(p, id, fs) => UNCHANGED day
  BY DEF Charged!SetFeeStructure
<1>7. \A p, id, active : Charged!SetFeeActive(p, id, active) => UNCHANGED day
  BY DEF Charged!SetFeeActive
<1>8. \A p, id, cap : Charged!SetFeeCap(p, id, cap) => UNCHANGED day
  BY DEF Charged!SetFeeCap
<1>9. \A p, id, f : Charged!SetPortfolioFee(p, f, id) => UNCHANGED day
  BY DEF Charged!SetPortfolioFee
<1>10. \A p, id, f, base : Charged!CollectFee(p, id, f, base) => UNCHANGED day
  BY DEF Charged!CollectFee
<1> QED BY <1>1, <1>2, <1>3, <1>4, <1>5, <1>6, <1>7, <1>8, <1>9, <1>10 DEF DayMoves, Charged!Next, Charged!Tick

LEMMA GameTakesTime == Rewarded!Next => DayMoves
<1>1. Rewarded!Tick \/ Rewarded!Setup => DayMoves
  BY DEF DayMoves, Rewarded!Tick, Rewarded!Setup, Rewarded!Initialize
<1>2. Rewarded!Play => DayMoves
  BY DEF DayMoves, Rewarded!Play, Rewarded!RegisterUser, Rewarded!RecordTrade, Rewarded!RecordTradesBatch,
         Rewarded!CompleteLearningModule, Rewarded!RecordCommunityAction
<1>3. Rewarded!Reward => DayMoves
  BY DEF DayMoves, Rewarded!Reward, Rewarded!CheckAndIssueBadges, Rewarded!DistributeTierReward,
         Rewarded!JoinChallenge, Rewarded!UpdateChallengeProgress
<1>4. Rewarded!Administer => DayMoves
  BY DEF DayMoves, Rewarded!Administer, Rewarded!IssueBadge, Rewarded!UpdateBadgeDefinition,
         Rewarded!CreateChallenge, Rewarded!EndChallenge, Rewarded!FundRewardPool, Rewarded!TransferAdmin
<1> QED BY <1>1, <1>2, <1>3, <1>4 DEF Rewarded!Next

(* A step of the whole is, for each contract, one of its own or none. *)
LEMMA StepOfServices ==
  ASSUME [ServicesNext]_servicesVars
  PROVE  /\ [OversightNext]_oversightVars /\ [Advised!Next]_(Advised!vars)
         /\ [Registered!Next]_(Registered!vars) /\ [Charged!Next]_(Charged!vars)
         /\ [Rewarded!Next]_(Rewarded!vars) /\ [Valued!Next]_(Valued!vars)
<1> USE DEF servicesVars, advice, registry, charges, game, values
<1>1. [OversightNext]_oversightVars
  BY DEF ServicesNext, Oversee, Advise, Register, Charge, PlayGame, Value
<1>2. [Advised!Next]_(Advised!vars)
  BY DEF ServicesNext, Oversee, Advise, Register, Charge, PlayGame, Value, Advised!vars
<1>3. [Registered!Next]_(Registered!vars)
  BY DEF ServicesNext, Oversee, Advise, Register, Charge, PlayGame, Value, Registered!vars
<1>4. [Valued!Next]_(Valued!vars)
  BY DEF ServicesNext, Oversee, Advise, Register, Charge, PlayGame, Value, Valued!vars
<1>5. [Charged!Next]_(Charged!vars)
  <2>1. CASE PlayGame
    <3>1. DayMoves /\ UNCHANGED charges
      BY <2>1, GameTakesTime DEF PlayGame
    <3>2. CASE UNCHANGED day
      BY <3>1, <3>2 DEF Charged!vars, Charged!settings, Charged!ledger
    <3>3. CASE ~UNCHANGED day
      <4>1. Charged!Tick
        BY <3>1, <3>3 DEF DayMoves, Charged!Tick, Charged!settings, Charged!ledger
      <4> QED BY <4>1 DEF Charged!Next
    <3> QED BY <3>2, <3>3
  <2>2. CASE ~PlayGame
    BY <2>2 DEF ServicesNext, Oversee, Advise, Register, Charge, Value,
                Charged!vars, Charged!settings, Charged!ledger
  <2> QED BY <2>1, <2>2
<1>6. [Rewarded!Next]_(Rewarded!vars)
  <2>1. CASE Charge
    <3>1. DayMoves /\ UNCHANGED game
      BY <2>1, FeesTakeTime DEF Charge
    <3>2. CASE UNCHANGED day
      BY <3>1, <3>2 DEF Rewarded!vars, Rewarded!playing, Rewarded!campaigns, Rewarded!rewards
    <3>3. CASE ~UNCHANGED day
      <4>1. Rewarded!Tick
        BY <3>1, <3>3 DEF DayMoves, Rewarded!Tick, Rewarded!playing, Rewarded!campaigns, Rewarded!rewards
      <4> QED BY <4>1 DEF Rewarded!Next
    <3> QED BY <3>2, <3>3
  <2>2. CASE ~Charge
    BY <2>2 DEF ServicesNext, Oversee, Advise, Register, PlayGame, Value,
                Rewarded!vars, Rewarded!playing, Rewarded!campaigns, Rewarded!rewards
  <2> QED BY <2>1, <2>2
<1> QED BY <1>1, <1>2, <1>3, <1>4, <1>5, <1>6

(***************************************************************************)
(* The contracts side by side are each of them, the days of fees and        *)
(* challenges passing for both.  What is proved of one holds here.          *)
(***************************************************************************)
THEOREM ServicesRun ==
  ServicesSpec => /\ OversightSpec /\ Advised!Spec /\ Registered!Spec
                  /\ Charged!Spec /\ Rewarded!Spec /\ Valued!Spec
<1>1. ServicesInit => /\ OversightInit /\ Advised!Init /\ Registered!Init
                      /\ Charged!Init /\ Rewarded!Init /\ Valued!Init
  BY DEF ServicesInit
<1>2. [ServicesNext]_servicesVars =>
        /\ [OversightNext]_oversightVars /\ [Advised!Next]_(Advised!vars)
        /\ [Registered!Next]_(Registered!vars) /\ [Charged!Next]_(Charged!vars)
        /\ [Rewarded!Next]_(Rewarded!vars) /\ [Valued!Next]_(Valued!vars)
  BY StepOfServices
<1> QED
  BY <1>1, <1>2, PTL
  DEF ServicesSpec, OversightSpec, Advised!Spec, Registered!Spec, Charged!Spec, Rewarded!Spec, Valued!Spec

(***************************************************************************)
(* The analyses and the numbers they are given, the two copies of the       *)
(* assets, the fees and their totals agree, and the game and the values     *)
(* keep their types, whatever calls are made.  (RecordsAgree)               *)
(***************************************************************************)
THEOREM AllRecordsAgree == ServicesSpec => []RecordsAgree
<1>1. Advised!Spec => []AdviceInv
  BY AdviceBegin, AdviceStep, PTL DEF Advised!Spec
<1>2. Registered!Spec => []AssetsInv
  BY AssetsBegin, AssetsStep, PTL DEF Registered!Spec
<1>3. Charged!Spec => []FeesInv
  BY FeesBegin, FeesStep, PTL DEF Charged!Spec
<1>4. Rewarded!Spec => []Rewarded!TypeOK
  <2>1. Rewarded!TypeOK /\ [Rewarded!Next]_(Rewarded!vars) => Rewarded!TypeOK'
    BY GameStep DEF GameSound
  <2> QED BY <2>1, GameBegin, PTL DEF Rewarded!Spec
<1>5. Valued!Spec => []Valued!TypeOK
  BY ValuesBegin, ValuesStep, PTL DEF Valued!Spec
<1>6. AdviceInv /\ AssetsInv /\ FeesInv /\ Rewarded!TypeOK /\ Valued!TypeOK => RecordsAgree
  BY AccountsAgree, SummariesTrue, FeesAreAccounted DEF AdviceInv, AssetsInv, FeesInv, RecordsAgree
<1> QED BY <1>1, <1>2, <1>3, <1>4, <1>5, <1>6, ServicesRun, PTL

(***************************************************************************)
(* A caller without a waiver of its own is charged what estimate_fee        *)
(* quotes.  (QuoteHonoured)                                                 *)
(***************************************************************************)
THEOREM QuotesHonoured == ServicesSpec => QuoteHonoured
<1> DEFINE Quoted ==
      Charged!ledger' # Charged!ledger =>
        \A p \in People, id \in FeeIds, f \in Portfolios, base \in Bases :
          /\ Charged!CollectFee(p, id, f, base)
          /\ portfolioFee[f] \in {None, id}
          /\ \A i \in DOMAIN waivers : Charged!WaiverActive(waivers[i]) => waivers[i].address # p
          => Charged!Last(feeHistory').fee_amount = Charged!EstimateFee(id, f, base)
<1>1. Charged!Spec => []FeesInv
  BY FeesBegin, FeesStep, PTL DEF Charged!Spec
<1>2. FeesInv => Quoted
  BY QuoteCharged DEF FeesInv
<1>3. Charged!Spec => [][Quoted]_(Charged!vars)
  <2> HIDE DEF Quoted
  <2> QED BY <1>1, <1>2, PTL
<1>4. [][Quoted]_(Charged!vars) <=> QuoteHonoured
  BY DEF QuoteHonoured, Charged!QuoteHonoured
<1> QED BY <1>3, <1>4, ServicesRun, PTL

(***************************************************************************)
(* What a user is paid left the pool in the same call, which held it, for   *)
(* a new badge, a challenge completed or its tier.  (RewardsEarned)         *)
(***************************************************************************)
THEOREM RewardsAreEarned == ServicesSpec => RewardsEarned
<1> DEFINE AllEarned == \A u \in People : Earned(u)
<1>1. Rewarded!Spec => []Rewarded!TypeOK
  <2>1. Rewarded!TypeOK /\ [Rewarded!Next]_(Rewarded!vars) => Rewarded!TypeOK'
    BY GameStep DEF GameSound
  <2> QED BY <2>1, GameBegin, PTL DEF Rewarded!Spec
<1>2. Rewarded!TypeOK /\ [Rewarded!Next]_(Rewarded!vars) => AllEarned
  BY GameStep DEF GameSound
<1>3. Rewarded!Spec => [][AllEarned]_(Rewarded!vars)
  <2> HIDE DEF AllEarned
  <2> QED BY <1>1, <1>2, PTL DEF Rewarded!Spec
<1>4. [][AllEarned]_(Rewarded!vars) <=> RewardsEarned
  BY DEF Earned, RewardsEarned, Rewarded!RewardsEarned
<1> QED BY <1>3, <1>4, ServicesRun, PTL

(***************************************************************************)
(* Whatever page of the leaderboard is asked for, by whatever metric, it    *)
(* shows the players whose ranks it covers, each in its place, and          *)
(* get_user_rank tells the same: the players are listed once each and the   *)
(* insertion sort puts everyone behind those with a better key or the same  *)
(* and an earlier turn.  (RanksRight)                                       *)
(***************************************************************************)
THEOREM RanksAreRight == ServicesSpec => []RanksRight
<1>1. Rewarded!Init => Rewarded!TypeOK /\ PlayersListed
  <2>1. Rewarded!Init => PlayersListed
    BY DEF Rewarded!Init, PlayersListed, Distinct
  <2> QED BY <2>1, GameBegin
<1>2. Rewarded!TypeOK /\ PlayersListed /\ [Rewarded!Next]_(Rewarded!vars) => (Rewarded!TypeOK /\ PlayersListed)'
  BY GameStep, PlayersStay DEF GameSound
<1>3. Rewarded!TypeOK /\ PlayersListed => RanksRight
  BY RanksFollow
<1> QED BY <1>1, <1>2, <1>3, ServicesRun, PTL DEF Rewarded!Spec
=============================================================================
