--------------------------- MODULE CircuitBreaker ---------------------------
(***************************************************************************)
(* CampayCircuitBreakerService.wrap, around the Campay calls that one      *)
(* process has in flight at a time.  The code is synchronous up to the     *)
(* await of the call, and again from its outcome on; those are the steps.  *)
(* Any error of the call counts, a refusal by Campay as much as an outage. *)
(***************************************************************************)
EXTENDS Naturals, FiniteSets

CONSTANTS
    Calls,       \* wrapped calls in flight at a time
    Threshold,   \* THRESHOLD_FAILURES
    MaxFailures  \* cap on consecutiveFailures (model bound)

ASSUME ThresholdAssumption == Threshold \in Nat \ {0}
ASSUME CapAssumption == MaxFailures \in Nat /\ MaxFailures >= Threshold

VARIABLES
    state,     \* CircuitState
    failures,  \* consecutiveFailures
    cooled,    \* have OPEN_DURATION_MS gone by since openedAt?
    call       \* "idle", "trial" when let through in HALF_OPEN, else "through"

circuitVars == <<state, failures, cooled, call>>

CircuitTypeOK ==
    /\ state \in {"CLOSED", "OPEN", "HALF_OPEN"}
    /\ failures \in 0..MaxFailures
    /\ cooled \in BOOLEAN
    /\ call \in [Calls -> {"idle", "trial", "through"}]

CircuitInit ==
    /\ state = "CLOSED"
    /\ failures = 0
    /\ cooled = FALSE
    /\ call = [c \in Calls |-> "idle"]

(* Mutant: an open circuit never probes. *)
Wrap_NoProbe(c) ==
    /\ call[c] = "idle"
    /\ state # "OPEN"
    /\ call' = [call EXCEPT ![c] = IF state = "CLOSED" THEN "through" ELSE "trial"]
    /\ UNCHANGED <<state, failures, cooled>>

(* wrap up to the await.  A call rejected while OPEN changes nothing. *)
Wrap(c) ==
    /\ call[c] = "idle"
    /\ state = "OPEN" => cooled
    /\ state' = (IF state = "OPEN" THEN "HALF_OPEN" ELSE state)
    /\ call' = [call EXCEPT ![c] = IF state = "CLOSED" THEN "through" ELSE "trial"]
    /\ UNCHANGED <<failures, cooled>>

(* onSuccess. *)
OnSuccess(c) ==
    /\ call[c] # "idle"
    /\ call' = [call EXCEPT ![c] = "idle"]
    /\ state' = "CLOSED" /\ failures' = 0 /\ cooled' = FALSE

Opens == state' = "OPEN" /\ cooled' = FALSE

(* Mutant: the comparison with the threshold is strict. *)
OnFailure_OffByOne(c) ==
    /\ call[c] # "idle"
    /\ call' = [call EXCEPT ![c] = "idle"]
    /\ IF state = "HALF_OPEN"
       THEN Opens /\ UNCHANGED failures
       ELSE /\ failures' = (IF failures < MaxFailures THEN failures + 1 ELSE failures)
            /\ IF failures' > Threshold THEN Opens ELSE UNCHANGED <<state, cooled>>

(* onFailure. *)
OnFailure(c) ==
    /\ call[c] # "idle"
    /\ call' = [call EXCEPT ![c] = "idle"]
    /\ IF state = "HALF_OPEN"
       THEN Opens /\ UNCHANGED failures
       ELSE /\ failures' = (IF failures < MaxFailures THEN failures + 1 ELSE failures)
            /\ IF failures' >= Threshold THEN Opens ELSE UNCHANGED <<state, cooled>>

CoolDown ==
    /\ state = "OPEN" /\ ~cooled
    /\ cooled' = TRUE
    /\ UNCHANGED <<state, failures, call>>

Failure == \E c \in Calls : OnFailure(c)

CircuitNext == (\E c \in Calls : Wrap(c) \/ OnSuccess(c)) \/ Failure \/ CoolDown

CircuitSpec == CircuitInit /\ [][CircuitNext]_circuitVars

(* Crons and consumers keep calling, a call ends one way or the other, and *)
(* time passes.                                                            *)
CircuitFairness ==
    /\ \A c \in Calls : WF_circuitVars(Wrap(c)) /\ WF_circuitVars(OnSuccess(c) \/ OnFailure(c))
    /\ WF_circuitVars(CoolDown)

CircuitFairSpec == CircuitSpec /\ CircuitFairness

-----------------------------------------------------------------------------
(* The circuit is CLOSED exactly while fewer than THRESHOLD_FAILURES calls *)
(* have failed since the last success, whichever order the answers of      *)
(* concurrent calls come in.                                               *)
ClosedBelowThreshold == state = "CLOSED" <=> failures < Threshold

(* Once calls no longer fail, the circuit closes and stays closed. *)
ClosesOnRecovery == []<><<Failure>>_circuitVars \/ <>[](state = "CLOSED")
=============================================================================
