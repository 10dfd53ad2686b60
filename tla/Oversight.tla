------------------------------ MODULE Oversight ------------------------------
(***************************************************************************)
(* The contracts that decide, record and halt, side by side on one ledger:  *)
(* the treasury (whose names this module takes over), the versions, the     *)
(* audit log and the emergency controls.  They share its clock.             *)
(***************************************************************************)
EXTENDS Treasury

CONSTANTS
  MaxVersions, MaxUpgrades,
  Events, Policies, EarlyCalls, MaxSeq,
  Changes, Thresholds, Operations, Limits,
  MaxTime, None

VARIABLES
  now,
  approvers, needed, current, version, upgrade, frozen,
  initialized, policy, nextSeq, firstSeq, entry, head,
  admin, guardian, paused, safeMode, tripped, threshold, limit, counter, granted, owed

payouts == <<config, treasury, signers, request>>
versions == <<approvers, needed, current, version, upgrade, frozen>>
log == <<initialized, policy, nextSeq, firstSeq, entry, head>>
controls == <<admin, guardian, paused, safeMode, tripped, threshold, limit, counter, granted, owed>>
oversightVars == <<now, payouts, versions, log, controls>>

Versioned == INSTANCE Versioning WITH signers <- approvers, threshold <- needed
Audited == INSTANCE Audit
Guarded == INSTANCE Watch

ASSUME OversightAssumption ==
  Versioned!VersioningAssumption /\ Audited!AuditAssumption /\ Guarded!EmergencyAssumption

OversightInit == Init /\ Versioned!Init /\ Audited!Init /\ Guarded!WatchInit

PayOut == Next /\ UNCHANGED <<now, versions, log, controls>>
Upgrade == Versioned!Next /\ UNCHANGED <<now, payouts, log, controls>>
Log == Audited!Next /\ UNCHANGED <<payouts, versions, controls>>
Protect == Guarded!WatchNext /\ UNCHANGED <<payouts, versions, log>>

OversightNext == PayOut \/ Upgrade \/ Log \/ Protect

OversightSpec == OversightInit /\ [][OversightNext]_oversightVars

-----------------------------------------------------------------------------
(* Properties *)

(* Each contract keeps its types, and the versions their statuses in step   *)
(* with the pointer and the frozen list (OneLive).                          *)
OversightTyped ==
  /\ TypeOK /\ Versioned!TypeOK /\ Audited!TypeOK /\ Guarded!TypeOK
  /\ Versioned!OneLive

(***************************************************************************)
(* What several people must agree to happens only when they have: an        *)
(* upgrade (UpgradesSanctioned), a payment of the treasury, each request    *)
(* once (EveryPaymentRequested).                                            *)
(***************************************************************************)
Sanctioned == Versioned!UpgradesSanctioned /\ EveryPaymentRequested

(* What Audit and Watch say of the log and of the controls. *)
ChainIntact == Audited!ChainIntact
PruneExact == Audited!PruneExact
RateHeld == Guarded!RateHeld
StaysHalted == Guarded!StaysHalted
=============================================================================
