--------------------------- MODULE CircuitBreaker ---------------------------
(***************************************************************************)
(* The circuit breaker of the transfer pipeline (src/src/circuit-breaker.ts)*)
(* as operators on its record of fields.  The breaker is an in-memory      *)
(* object: it has no thread of its own and changes only when the ledger    *)
(* calls it, so it is a value of the Ledger module's state.                *)
(*                                                                         *)
(* The clock is abstracted to what canExecute reads of it: "cooled" says   *)
(* whether Date.now() - lastFailureTime has reached the timeout.           *)
(***************************************************************************)
EXTENDS Naturals

CONSTANTS FailureThreshold,  \* cfg.failureThreshold, 5 in the code
          SuccessThreshold   \* cfg.successThreshold, 3 in the code

ASSUME ThresholdAssumption ==
    /\ FailureThreshold \in Nat \ {0}
    /\ SuccessThreshold \in Nat \ {0}

CircuitState == {"closed", "open", "half_open"}

Breaker == [state        : CircuitState,
            failureCount : Nat,
            successCount : Nat,
            cooled       : BOOLEAN]

\* The fields as the constructor sets them: lastFailureTime = 0 is long ago.
FreshBreaker == [state |-> "closed", failureCount |-> 0,
                 successCount |-> 0, cooled |-> TRUE]

\* canExecute answers E002: open, and the timeout has not elapsed.
Refuses(b) == b.state = "open" /\ ~b.cooled

\* Mutation: half-open keeps the successes of an earlier half-open period.
AdmittedKeepsCount(b) ==
    [state        |-> IF b.state = "open" THEN "half_open" ELSE b.state,
     failureCount |-> b.failureCount,
     successCount |-> b.successCount,
     cooled       |-> b.cooled]

\* The fields canExecute leaves behind when it does not refuse.
Admitted(b) ==
    [state        |-> IF b.state = "open" THEN "half_open" ELSE b.state,
     failureCount |-> b.failureCount,
     successCount |-> IF b.state = "open" THEN 0 ELSE b.successCount,
     cooled       |-> b.cooled]

\* The success that completes a half-open period.
Recovers(b) == b.state = "half_open" /\ b.successCount + 1 >= SuccessThreshold

RecordSuccess(b) ==
    [state        |-> IF Recovers(b) THEN "closed" ELSE b.state,
     failureCount |-> 0,
     successCount |-> IF Recovers(b) THEN 0
                      ELSE IF b.state = "half_open" THEN b.successCount + 1
                      ELSE b.successCount,
     cooled       |-> b.cooled]

\* Mutation: one failure too many.
TripsLate(b) == b.state = "half_open" \/ b.failureCount + 1 > FailureThreshold

\* The failure that opens the breaker.
Trips(b) == b.state = "half_open" \/ b.failureCount + 1 >= FailureThreshold

RecordFailure(b) ==
    [state        |-> IF Trips(b) THEN "open" ELSE b.state,
     failureCount |-> b.failureCount + 1,
     successCount |-> b.successCount,
     cooled       |-> FALSE]

\* The timeout since the last recorded failure elapses.
Cooled(b) ==
    [state        |-> b.state,
     failureCount |-> b.failureCount,
     successCount |-> b.successCount,
     cooled       |-> TRUE]
=============================================================================
