----------------------------- MODULE Versioning -----------------------------
(***************************************************************************)
(* Contract versions: registration, upgrade proposals that signers approve, *)
(* migration to a version, rollback to one that was replaced, and freezing. *)
(* Feature flags and the audit trail are left out: no transition reads them.*)
(***************************************************************************)
EXTENDS Integers, ListOps

CONSTANTS
  People,        \* addresses that may be made signers
  Admin,         \* the address initialize stores, which no call replaces
  MaxVersions,   \* bounds the registered versions
  MaxUpgrades    \* bounds the upgrade proposals

VersioningAssumption ==
  Admin \in People /\ IsFiniteSet(People) /\ MaxVersions \in Nat /\ MaxUpgrades \in Nat

VARIABLES
  signers,     \* Signers, which add_signer keeps free of repetitions
  threshold,   \* ApprovalThreshold
  current,     \* CurrentVersion, 0 before the first upgrade
  version,     \* VersionMetadata(n), in order of the numbers
  upgrade,     \* Proposal(id), in order of the ids
  frozen       \* FrozenVersions, in the order they were frozen

authority == <<signers, threshold>>
vars == <<authority, current, version, upgrade, frozen>>

Versions == 1..Len(version)

VersionMetadata ==
  [status : {"Proposed", "Active", "Superseded", "Frozen", "RolledBack"}, steps : BOOLEAN]

UpgradeProposal ==
  [target : 1..MaxVersions, approvals : Seq(People), executed : BOOLEAN, rejected : BOOLEAN]

TypeOK ==
  /\ signers \subseteq People /\ threshold \in Nat \ {0}
  /\ version \in Seq(VersionMetadata) /\ Len(version) <= MaxVersions
  /\ current \in 0..Len(version)
  /\ upgrade \in Seq(UpgradeProposal) /\ Len(upgrade) <= MaxUpgrades
  /\ \A id \in DOMAIN upgrade : upgrade[id].target \in Versions
  /\ frozen \in Seq(Versions)

(* initialize has run: before it no other call succeeds. *)
Init ==
  /\ signers = {} /\ threshold = 1
  /\ current = 0 /\ version = <<>>
  /\ upgrade = <<>>
  /\ frozen = <<>>

-----------------------------------------------------------------------------
(* Authority *)

AddSigner(p) ==
  /\ signers' = signers \cup {p}
  /\ UNCHANGED <<threshold, current, version, upgrade, frozen>>

(* The threshold is not looked at, nor the approvals p has given. *)
RemoveSigner(p) ==
  /\ signers' = signers \ {p}
  /\ UNCHANGED <<threshold, current, version, upgrade, frozen>>

(* Mutant: a threshold of nobody is accepted.                               *)
SetThresholdToZero(n) ==
  /\ n <= Cardinality(signers) + 1
  /\ threshold' = n
  /\ UNCHANGED <<signers, current, version, upgrade, frozen>>

SetApprovalThreshold(n) ==
  /\ n # 0 /\ n <= Cardinality(signers) + 1
  /\ threshold' = n
  /\ UNCHANGED <<signers, current, version, upgrade, frozen>>

-----------------------------------------------------------------------------
(* Versions and upgrades *)

(* steps: whether any migration steps are listed. *)
AddVersion(steps) ==
  /\ Len(version) < MaxVersions
  /\ version' = Append(version, [status |-> "Proposed", steps |-> steps])
  /\ UNCHANGED <<authority, current, upgrade, frozen>>

ProposeUpgrade(target) ==
  /\ Len(upgrade) < MaxUpgrades
  /\ upgrade' = Append(upgrade, [target |-> target, approvals |-> <<Admin>>,
                                 executed |-> FALSE, rejected |-> FALSE])
  /\ UNCHANGED <<authority, current, version, frozen>>

ApproveUpgrade(p, id) ==
  /\ p \in signers \cup {Admin}
  /\ ~upgrade[id].executed /\ ~upgrade[id].rejected
  /\ ~Contains(upgrade[id].approvals, p)
  /\ upgrade' = [upgrade EXCEPT ![id].approvals = Append(@, p)]
  /\ UNCHANGED <<authority, current, version, frozen>>

(* check_compatibility of an upgrade from the current version. *)
Compatible(target) ==
  /\ target # current
  /\ \/ version[target].status = "Proposed"
     \/ version[target].status = "Superseded" /\ current # 0
  /\ version[target].steps

(* One version takes over from the current one, which is left as retired. *)
Activate(target, retired) ==
  /\ version' = [n \in Versions |->
                   IF n = target THEN [version[n] EXCEPT !.status = "Active"]
                   ELSE IF n = current THEN [version[n] EXCEPT !.status = retired]
                   ELSE version[n]]
  /\ current' = target

(* Anybody may call it. *)
ExecuteUpgrade(id) ==
  /\ ~upgrade[id].executed /\ ~upgrade[id].rejected
  /\ Len(upgrade[id].approvals) >= threshold
  /\ Compatible(upgrade[id].target)
  /\ Activate(upgrade[id].target, "Superseded")
  /\ upgrade' = [upgrade EXCEPT ![id].executed = TRUE]
  /\ UNCHANGED <<authority, frozen>>

RejectUpgrade(id) ==
  /\ ~upgrade[id].executed
  /\ upgrade' = [upgrade EXCEPT ![id].rejected = TRUE]
  /\ UNCHANGED <<authority, current, version, frozen>>

Rollback(target) ==
  /\ current # 0
  /\ version[current].status = "Active" /\ version[target].status = "Superseded"
  /\ Activate(target, "RolledBack")
  /\ UNCHANGED <<authority, upgrade, frozen>>

FreezeVersion(n) ==
  /\ n # current
  /\ version[n].status # "Frozen"
  /\ version' = [version EXCEPT ![n].status = "Frozen"]
  /\ frozen' = Append(frozen, n)
  /\ UNCHANGED <<authority, current, upgrade>>

Next ==
  \/ \E p \in People : AddSigner(p)
  \/ \E p \in People : RemoveSigner(p)
  \/ \E n \in 0..(Cardinality(People) + 1) : SetApprovalThreshold(n)
  \/ \E steps \in BOOLEAN : AddVersion(steps)
  \/ \E n \in Versions : ProposeUpgrade(n)
  \/ \E p \in People, id \in DOMAIN upgrade : ApproveUpgrade(p, id)
  \/ \E id \in DOMAIN upgrade : ExecuteUpgrade(id)
  \/ \E id \in DOMAIN upgrade : RejectUpgrade(id)
  \/ \E n \in Versions : Rollback(n)
  \/ \E n \in Versions : FreezeVersion(n)

Spec == Init /\ [][Next]_vars

-----------------------------------------------------------------------------
(* Properties *)

(***************************************************************************)
(* The pointer to the current version and the statuses, written by three    *)
(* calls, name the same version: once there is a current one it is the only *)
(* Active one, and before that none is.  What has been frozen is on the     *)
(* list of frozen versions, and nothing else is.                            *)
(***************************************************************************)
OneLive ==
  /\ \A n \in Versions : version[n].status = "Active" <=> n = current
  /\ \A n \in Versions : version[n].status = "Frozen" <=> Contains(frozen, n)

(***************************************************************************)
(* A version comes into use by a proposal for it that was neither used nor  *)
(* rejected and that as many different people as the threshold asks for     *)
(* have approved, or by a rollback to a version that had been in use and    *)
(* that retires the one it replaces; never one frozen or rolled back.       *)
(***************************************************************************)
Sanctioned(id) ==
  /\ upgrade[id].target = current'
  /\ ~upgrade[id].executed /\ ~upgrade[id].rejected /\ upgrade'[id].executed
  /\ Cardinality(ToSet(upgrade[id].approvals)) >= threshold

UpgradesSanctioned ==
  [][current' # current =>
       /\ version[current'].status \in {"Proposed", "Superseded"}
       /\ \/ \E id \in DOMAIN upgrade : Sanctioned(id)
          \/ /\ current # 0 /\ version[current'].status = "Superseded"
             /\ version'[current].status = "RolledBack"]_vars
=============================================================================
