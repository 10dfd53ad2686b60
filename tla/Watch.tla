-------------------------------- MODULE Watch --------------------------------
(***************************************************************************)
(* The emergency controls with two history variables beside them, which no  *)
(* call reads: the calls a rate limit has let through, and what the admin   *)
(* owes a circuit breaker that has tripped.                                 *)
(***************************************************************************)
EXTENDS Emergency, Totals

VARIABLES
  granted,  \* per operation, the calls allowed at each moment under its limit
  owed      \* what is to be done before a trip is dealt with

watchVars == <<vars, granted, owed>>

Moments == 0..MaxTime

WatchInit ==
  /\ Init
  /\ granted = [o \in Operations |-> [t \in Moments |-> 0]]
  /\ owed = {}

(* A limit that is set to something else is watched anew.                   *)
Grant ==
  granted' = [o \in Operations |->
    IF limit'[o] # limit[o] THEN [t \in Moments |-> 0]
    ELSE IF counter'[o] # counter[o] THEN [granted[o] EXCEPT ![now] = @ + 1]
    ELSE granted[o]]

Owe ==
  owed' = IF \E change \in Changes : ReportPriceChange(change) THEN {"reset", "unpause"}
          ELSE owed \ ((IF tripped /\ ~tripped' THEN {"reset"} ELSE {})
                         \cup (IF paused /\ ~paused' THEN {"unpause"} ELSE {}))

WatchNext == Next /\ Grant /\ Owe

WatchSpec == WatchInit /\ [][WatchNext]_watchVars

-----------------------------------------------------------------------------
(* Properties *)

(* The calls of an operation allowed from one moment to another.            *)
Calls(o, from, to) == Total([t \in Moments |-> IF t \in from..to THEN granted[o][t] ELSE 0])

(***************************************************************************)
(* check_rate_limit: since a limit was set, no window allowed more calls    *)
(* than the limit, and no period as long as a window, wherever it starts,   *)
(* more than twice as many.                                                 *)
(***************************************************************************)
RateHeld ==
  \A o \in Operations : limit[o] # None =>
    /\ Calls(o, counter[o].window_start, now) <= limit[o].max_calls
    /\ \A t \in Moments :
         Calls(o, t, t + limit[o].window_seconds - 1) <= 2 * limit[o].max_calls

(***************************************************************************)
(* After the breaker trips, an operation that is not let through a pause    *)
(* is turned down until the admin has both reset the breaker and unpaused.  *)
(***************************************************************************)
StaysHalted == owed # {} => \A safe \in BOOLEAN : ~ValidateOperation(FALSE, safe)
=============================================================================
