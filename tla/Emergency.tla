------------------------------ MODULE Emergency ------------------------------
(***************************************************************************)
(* The emergency controls other contracts ask before they act: pause, safe  *)
(* mode and circuit breaker, and rate limits counted in windows.  The       *)
(* settings that are only stored and read back (fee, trade size, lock       *)
(* period, notifiers) and the incident log are left out.                    *)
(***************************************************************************)
EXTENDS Integers

CONSTANTS
  People,       \* addresses that may be admin or guardian
  Admin,        \* the address initialize stores
  Changes,      \* price changes reported, in basis points
  Thresholds,   \* breaker thresholds the admin chooses
  Operations,   \* operations with a rate limit
  Limits,       \* limits the admin chooses
  MaxTime,      \* bounds the ledger timestamp
  None

DefaultThreshold == 2000
BpsDenom == 10000
RateLimitConfig == [max_calls : Nat, window_seconds : Nat]

EmergencyAssumption ==
  /\ Admin \in People /\ None \notin People
  /\ Changes \subseteq Int /\ Thresholds \subseteq Int
  /\ Limits \subseteq RateLimitConfig /\ None \notin Limits
  /\ MaxTime \in Nat

VARIABLES
  admin,      \* ADMIN
  guardian,   \* GUARDIAN, or None
  paused,     \* PAUSED
  safeMode,   \* SAFE_MODE
  tripped,    \* CIRCUIT_TRIP
  threshold,  \* CIRCUIT_THRESH
  limit,      \* the entry of RATE_LIMITS for an operation, or None
  counter,    \* (RATE_COUNTERS, operation)
  now         \* the ledger timestamp

people == <<admin, guardian>>
modes == <<paused, safeMode, tripped, threshold>>
rates == <<limit, counter>>
vars == <<people, modes, rates, now>>

RateLimitCounter == [count : Nat, window_start : Nat]

TypeOK ==
  /\ admin \in People /\ guardian \in People \cup {None}
  /\ {paused, safeMode, tripped} \subseteq BOOLEAN /\ threshold \in 1..BpsDenom
  /\ limit \in [Operations -> Limits \cup {None}]
  /\ counter \in [Operations -> RateLimitCounter]
  /\ now \in 0..MaxTime

(* initialize has run. *)
Init ==
  /\ admin = Admin /\ guardian = None
  /\ paused = FALSE /\ safeMode = FALSE /\ tripped = FALSE
  /\ threshold = DefaultThreshold
  /\ limit = [o \in Operations |-> None]
  /\ counter = [o \in Operations |-> [count |-> 0, window_start |-> 0]]
  /\ now = 0

-----------------------------------------------------------------------------
(* Modes *)

Pause(caller) ==
  /\ caller \in {admin, guardian}
  /\ ~paused
  /\ paused' = TRUE
  /\ UNCHANGED <<people, safeMode, tripped, threshold, rates, now>>

Unpause ==
  /\ paused
  /\ paused' = FALSE
  /\ UNCHANGED <<people, safeMode, tripped, threshold, rates, now>>

(* Mutant: a trip is a pause and nothing else.                              *)
TripPausing(change) ==
  /\ (IF change < 0 THEN -change ELSE change) >= threshold
  /\ paused' = TRUE
  /\ UNCHANGED <<people, safeMode, tripped, threshold, rates, now>>

(* A report beyond the threshold; any other changes nothing. *)
ReportPriceChange(change) ==
  /\ (IF change < 0 THEN -change ELSE change) >= threshold
  /\ tripped' = TRUE /\ paused' = TRUE
  /\ UNCHANGED <<people, safeMode, threshold, rates, now>>

ResetCircuitBreaker ==
  /\ tripped
  /\ tripped' = FALSE
  /\ UNCHANGED <<people, paused, safeMode, threshold, rates, now>>

SetCircuitBreakerThreshold(bps) ==
  /\ bps > 0 /\ bps <= BpsDenom
  /\ threshold' = bps
  /\ UNCHANGED <<people, paused, safeMode, tripped, rates, now>>

EnterSafeMode(caller) ==
  /\ caller \in {admin, guardian}
  /\ ~safeMode
  /\ safeMode' = TRUE
  /\ UNCHANGED <<people, paused, tripped, threshold, rates, now>>

ExitSafeMode ==
  /\ safeMode
  /\ safeMode' = FALSE
  /\ UNCHANGED <<people, paused, tripped, threshold, rates, now>>

(* validate_operation: what it answers; it stores nothing but an incident.  *)
ValidateOperation(allowDuringPause, allowDuringSafeMode) ==
  /\ paused => allowDuringPause
  /\ safeMode => allowDuringSafeMode
  /\ tripped => allowDuringPause

SetGuardian(p) ==
  /\ guardian' = p
  /\ UNCHANGED <<admin, modes, rates, now>>

TransferAdmin(p) ==
  /\ admin' = p
  /\ UNCHANGED <<guardian, modes, rates, now>>

-----------------------------------------------------------------------------
(* Rate limits *)

SetRateLimit(o, l) ==
  /\ l.max_calls # 0 /\ l.window_seconds # 0
  /\ limit' = [limit EXCEPT ![o] = l]
  /\ UNCHANGED <<people, modes, counter, now>>

(* Mutant: a window that is over starts afresh where it ended.              *)
WindowContinued(o) ==
  LET c == counter[o] w == limit[o].window_seconds IN
  IF now >= c.window_start + w THEN [count |-> 0, window_start |-> c.window_start + w] ELSE c

(* The counter of o as the call finds it: a window that is over is replaced *)
(* by one that starts now.                                                  *)
Window(o) ==
  LET c == counter[o] IN
  IF now >= c.window_start + limit[o].window_seconds
  THEN [count |-> 0, window_start |-> now]
  ELSE c

(* check_rate_limit, where it counts a call and allows it.  A call it turns *)
(* down, or one without a limit, leaves the counter as it was.              *)
CheckRateLimit(o) ==
  /\ limit[o] # None
  /\ Window(o).count < limit[o].max_calls
  /\ counter' = [counter EXCEPT ![o] = [Window(o) EXCEPT !.count = @ + 1]]
  /\ UNCHANGED <<people, modes, limit, now>>

-----------------------------------------------------------------------------
Tick ==
  /\ now < MaxTime
  /\ now' = now + 1
  /\ UNCHANGED <<people, modes, rates>>

Control ==
  \/ \E p \in People : Pause(p) \/ EnterSafeMode(p) \/ SetGuardian(p) \/ TransferAdmin(p)
  \/ Unpause \/ ResetCircuitBreaker \/ ExitSafeMode
  \/ \E change \in Changes : ReportPriceChange(change)
  \/ \E bps \in Thresholds : SetCircuitBreakerThreshold(bps)

Next ==
  \/ Control
  \/ \E o \in Operations, l \in Limits : SetRateLimit(o, l)
  \/ \E o \in Operations : CheckRateLimit(o)
  \/ Tick

Spec == Init /\ [][Next]_vars
=============================================================================
