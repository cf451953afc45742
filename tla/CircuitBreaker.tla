--------------------------- MODULE CircuitBreaker ---------------------------
(***************************************************************************)
(* One provider's circuit breaker (core/services/circuit-breaker.ts) with  *)
(* the calls that run through execute().  A JavaScript handler runs to its *)
(* next await, so a call is two atomic steps: the admission check up to    *)
(* `await fn()`, and the settlement (catch and finally) once fn resolves.  *)
(* Calls overlap: the LLM queue admits several at once and streaming calls *)
(* bypass it.  Time is abstracted to `cooled`: whether the configured      *)
(* timeout has passed since lastFailureTime.                               *)
(***************************************************************************)
EXTENDS Naturals, FiniteSets

CONSTANTS
  Calls,             \* concurrent callers of execute()
  FailureThreshold,  \* config.failureThreshold
  SuccessThreshold,  \* config.successThreshold
  MaxFailures        \* cap of the unbounded failureCount

ASSUME ThresholdAssumption ==
  /\ FailureThreshold \in Nat \ {0}
  /\ SuccessThreshold \in Nat \ {0}
  /\ MaxFailures \in Nat
  /\ MaxFailures >= FailureThreshold

VARIABLES
  state,         \* "CLOSED", "OPEN" or "HALF_OPEN"
  failureCount,
  successCount,
  isProbing,     \* the single-probe gate
  cooled,        \* Date.now() - lastFailureTime >= timeout
  call           \* per caller: "idle", "plain", "probe" or "orphan"

vars == <<state, failureCount, successCount, isProbing, cooled, call>>

TypeOK ==
  /\ state \in {"CLOSED", "OPEN", "HALF_OPEN"}
  /\ failureCount \in 0..MaxFailures
  /\ successCount \in 0..SuccessThreshold
  /\ isProbing \in BOOLEAN
  /\ cooled \in BOOLEAN
  /\ call \in [Calls -> {"idle", "plain", "probe", "orphan"}]

Init ==
  /\ state = "CLOSED"
  /\ failureCount = 0
  /\ successCount = 0
  /\ isProbing = FALSE
  /\ cooled = FALSE
  /\ call = [c \in Calls |-> "idle"]

-----------------------------------------------------------------------------

\* getStatus would turn the OPEN breaker HALF_OPEN.
Expired == state = "OPEN" /\ cooled

Cool ==
  /\ state = "OPEN"
  /\ ~cooled
  /\ cooled' = TRUE
  /\ UNCHANGED <<state, failureCount, successCount, isProbing, call>>

\* getStatus alone (the health route, the embedding retry timer), or a call
\* whose check expires the timeout and is then rejected at the probe gate.
GetStatus ==
  /\ Expired
  /\ state' = "HALF_OPEN"
  /\ successCount' = 0
  /\ UNCHANGED <<failureCount, isProbing, cooled, call>>

ExecuteClosed(c) ==
  /\ call[c] = "idle"
  /\ state = "CLOSED"
  /\ call' = [call EXCEPT ![c] = "plain"]
  /\ UNCHANGED <<state, failureCount, successCount, isProbing, cooled>>

MutExecuteProbe(c) ==
  /\ call[c] = "idle"
  /\ state = "HALF_OPEN" \/ Expired
  /\ state' = "HALF_OPEN"
  /\ successCount' = IF Expired THEN 0 ELSE successCount
  /\ isProbing' = TRUE
  /\ call' = [call EXCEPT ![c] = "probe"]
  /\ UNCHANGED <<failureCount, cooled>>

\* The call takes the probe; its own check may be what expires the timeout.
ExecuteProbe(c) ==
  /\ call[c] = "idle"
  /\ state = "HALF_OPEN" \/ Expired
  /\ ~isProbing
  /\ state' = "HALF_OPEN"
  /\ successCount' = IF Expired THEN 0 ELSE successCount
  /\ isProbing' = TRUE
  /\ call' = [call EXCEPT ![c] = "probe"]
  /\ UNCHANGED <<failureCount, cooled>>

MutSettle(c) ==
  /\ call' = [call EXCEPT ![c] = "idle"]
  /\ isProbing' = IF call[c] = "probe" /\ state = "HALF_OPEN" THEN FALSE ELSE isProbing

\* The finally block: the gate is cleared iff this call took the probe.
Settle(c) ==
  /\ call' = [call EXCEPT ![c] = "idle"]
  /\ isProbing' = IF call[c] = "probe" THEN FALSE ELSE isProbing

\* fn resolved, or rejected with the bypassCircuitBreaker marker: onSuccess.
\* The result is applied in whatever state the breaker is in by now.
OnSuccess(c) ==
  /\ call[c] \in {"plain", "probe"}
  /\ Settle(c)
  /\ \/ /\ state = "HALF_OPEN"
        /\ successCount + 1 >= SuccessThreshold
        /\ state' = "CLOSED"
        /\ failureCount' = 0
        /\ successCount' = 0
     \/ /\ state = "HALF_OPEN"
        /\ successCount + 1 < SuccessThreshold
        /\ successCount' = successCount + 1
        /\ UNCHANGED <<state, failureCount>>
     \/ /\ state = "CLOSED"
        /\ failureCount' = 0
        /\ successCount' = 0
        /\ UNCHANGED state
     \/ state = "OPEN" /\ UNCHANGED <<state, failureCount, successCount>>
  /\ UNCHANGED cooled

MutOpens == state = "CLOSED" /\ failureCount >= FailureThreshold

Opens ==
  \/ state = "HALF_OPEN"
  \/ state = "CLOSED" /\ failureCount + 1 >= FailureThreshold

\* fn rejected: onFailure, which restarts the timeout in every state.
OnFailure(c) ==
  /\ call[c] \in {"plain", "probe"}
  /\ Settle(c)
  /\ failureCount' = IF failureCount < MaxFailures THEN failureCount + 1 ELSE failureCount
  /\ cooled' = FALSE
  /\ \/ Opens /\ state' = "OPEN" /\ successCount' = 0
     \/ ~Opens /\ UNCHANGED <<state, successCount>>

\* invalidateProviderBreaker: the next call creates a new breaker; calls in
\* flight keep the one they closed over.
Invalidate ==
  /\ state' = "CLOSED"
  /\ failureCount' = 0
  /\ successCount' = 0
  /\ isProbing' = FALSE
  /\ cooled' = FALSE
  /\ call' = [c \in Calls |-> IF call[c] = "idle" THEN "idle" ELSE "orphan"]

\* A call of a dropped breaker settles: nothing of the current one changes.
SettleOrphan(c) ==
  /\ call[c] = "orphan"
  /\ call' = [call EXCEPT ![c] = "idle"]
  /\ UNCHANGED <<state, failureCount, successCount, isProbing, cooled>>

Next ==
  \/ Cool
  \/ GetStatus
  \/ Invalidate
  \/ \E c \in Calls :
       \/ ExecuteClosed(c)
       \/ ExecuteProbe(c)
       \/ OnSuccess(c)
       \/ OnFailure(c)
       \/ SettleOrphan(c)

Spec == Init /\ [][Next]_vars

\* Every fn settles (the queue's timeout aborts queued calls, undici's headers
\* timeout and boundedErrorDetail bound streaming ones), the clock advances,
\* and callers keep calling.
Fairness ==
  /\ WF_vars(Cool)
  /\ WF_vars(\E c \in Calls : ExecuteProbe(c))
  /\ \A c \in Calls : WF_vars(OnSuccess(c) \/ OnFailure(c))

FairSpec == Spec /\ Fairness

-----------------------------------------------------------------------------

\* The gate is up exactly while one call of this breaker holds the probe: it
\* is never left up by a probe that settles after another result has already
\* flipped the breaker, and a second probe never passes it.
SingleProbe ==
  /\ isProbing <=> \E c \in Calls : call[c] = "probe"
  /\ \A c, d \in Calls : call[c] = "probe" /\ call[d] = "probe" => c = d

\* The counters agree with the state in every interleaving of late results:
\* CLOSED exactly while fewer than failureThreshold failures are counted, and
\* a success streak exists only in HALF_OPEN and below successThreshold.
CountersAgree ==
  /\ state = "CLOSED" <=> failureCount < FailureThreshold
  /\ successCount > 0 => state = "HALF_OPEN" /\ successCount < SuccessThreshold

\* Once the provider stops failing and its configuration stops changing, the
\* breaker closes for good: no order of late results and probes wedges it.
Recovers ==
  (/\ <>[][\A c \in Calls : ~OnFailure(c)]_vars
   /\ <>[][~Invalidate]_vars) => <>[](state = "CLOSED")

=============================================================================
