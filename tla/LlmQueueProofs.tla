--------------------------- MODULE LlmQueueProofs ---------------------------
(***************************************************************************)
(* Proofs about CircuitBreaker, for any set of callers and any thresholds, *)
(* and about the queue in front of it.  The breaker's invariants need no   *)
(* strengthening: the counters and the gate are each inductive once the    *)
(* types are known.  The queue never shows its breaker a step the breaker's*)
(* own specification does not allow, so what is proved of the breaker alone*)
(* holds behind the queue, for any number of jobs and any limits.  The     *)
(* queue itself loses no job: p-limit's step (Resume) keeps queue, status  *)
(* and slots together, and each action is one Resume or touches none.      *)
(***************************************************************************)
EXTENDS LlmQueue, FiniteSetTheorems, SequenceTheorems, TLAPS

\* The part of TypeOK that is arithmetic, and the part that is not.
CounterTypes ==
  /\ state \in {"CLOSED", "OPEN", "HALF_OPEN"}
  /\ failureCount \in 0..MaxFailures
  /\ successCount \in 0..SuccessThreshold

FlagTypes ==
  /\ isProbing \in BOOLEAN
  /\ cooled \in BOOLEAN
  /\ call \in [Calls -> {"idle", "plain", "probe", "orphan"}]

LEMMA TypeSplit == TypeOK <=> CounterTypes /\ FlagTypes
  BY DEF TypeOK, CounterTypes, FlagTypes

LEMMA CounterTypesStep == CounterTypes /\ [Next]_vars => CounterTypes'
<1> SUFFICES ASSUME CounterTypes, [Next]_vars PROVE CounterTypes'
  OBVIOUS
<1> USE ThresholdAssumption DEF CounterTypes
<1>1. CASE Cool
  BY <1>1 DEF Cool
<1>2. CASE GetStatus
  BY <1>2 DEF GetStatus
<1>3. CASE Invalidate
  BY <1>3, SMT DEF Invalidate
<1>4. ASSUME NEW c \in Calls, ExecuteClosed(c) PROVE CounterTypes'
  BY <1>4 DEF ExecuteClosed
<1>5. ASSUME NEW c \in Calls, ExecuteProbe(c) PROVE CounterTypes'
  BY <1>5 DEF ExecuteProbe
<1>6. ASSUME NEW c \in Calls, OnSuccess(c) PROVE CounterTypes'
  <2>1. \/ UNCHANGED <<state, failureCount, successCount>>
        \/ state' \in {state, "CLOSED"} /\ failureCount' = 0 /\ successCount' = 0
        \/ /\ UNCHANGED <<state, failureCount>>
           /\ successCount + 1 < SuccessThreshold
           /\ successCount' = successCount + 1
    BY <1>6, Zenon DEF OnSuccess
  <2> QED
    BY <2>1
<1>7. ASSUME NEW c \in Calls, OnFailure(c) PROVE CounterTypes'
  <2>1. /\ failureCount' = IF failureCount < MaxFailures THEN failureCount + 1 ELSE failureCount
        /\ \/ state' = "OPEN" /\ successCount' = 0
           \/ UNCHANGED <<state, successCount>>
    BY <1>7, Zenon DEF OnFailure
  <2> QED
    BY <2>1
<1>8. ASSUME NEW c \in Calls, SettleOrphan(c) PROVE CounterTypes'
  BY <1>8 DEF SettleOrphan
<1>9. CASE UNCHANGED vars
  BY <1>9 DEF vars
<1> QED
  BY <1>1, <1>2, <1>3, <1>4, <1>5, <1>6, <1>7, <1>8, <1>9 DEF Next

LEMMA FlagTypesStep == FlagTypes /\ [Next]_vars => FlagTypes'
<1> SUFFICES ASSUME FlagTypes, [Next]_vars PROVE FlagTypes'
  OBVIOUS
<1> USE DEF FlagTypes
<1>1. isProbing' \in BOOLEAN
  BY Zenon DEF Next, vars, Cool, GetStatus, Invalidate, ExecuteClosed, ExecuteProbe,
               OnSuccess, OnFailure, Settle, SettleOrphan
<1>2. cooled' \in BOOLEAN
  BY Zenon DEF Next, vars, Cool, GetStatus, Invalidate, ExecuteClosed, ExecuteProbe,
               OnSuccess, OnFailure, SettleOrphan
<1>3. call' \in [Calls -> {"idle", "plain", "probe", "orphan"}]
  <2>1. \/ call' = call
        \/ call' = [c \in Calls |-> IF call[c] = "idle" THEN "idle" ELSE "orphan"]
        \/ \E c \in Calls : \E v \in {"idle", "plain", "probe"} :
             call' = [call EXCEPT ![c] = v]
    BY Zenon DEF Next, vars, Cool, GetStatus, Invalidate, ExecuteClosed, ExecuteProbe,
                 OnSuccess, OnFailure, Settle, SettleOrphan
  <2> QED
    BY <2>1, SMT
<1> QED
  BY <1>1, <1>2, <1>3

\* Every reachable state is well typed.
THEOREM TypeCorrect == Spec => []TypeOK
<1>1. Init => CounterTypes /\ FlagTypes
  <2>1. Init => CounterTypes
    BY ThresholdAssumption DEF Init, CounterTypes
  <2>2. Init => isProbing \in BOOLEAN /\ cooled \in BOOLEAN
    BY Zenon DEF Init
  <2>3. Init => call \in [Calls -> {"idle", "plain", "probe", "orphan"}]
    BY SMT DEF Init
  <2> QED
    BY <2>1, <2>2, <2>3 DEF FlagTypes
<1>2. CounterTypes /\ FlagTypes /\ [Next]_vars => (CounterTypes /\ FlagTypes)'
  BY CounterTypesStep, FlagTypesStep
<1> QED
  BY <1>1, <1>2, TypeSplit, PTL DEF Spec

-----------------------------------------------------------------------------

\* No order of late results makes the counters disagree with the state: the
\* breaker is CLOSED exactly while fewer than FailureThreshold failures count.
THEOREM CountersCorrect == Spec => []CountersAgree
<1> USE ThresholdAssumption DEF CounterTypes, CountersAgree
<1>1. Init => CountersAgree
  BY DEF Init
<1>2. CounterTypes /\ CountersAgree /\ [Next]_vars => CountersAgree'
  <2> SUFFICES ASSUME CounterTypes, CountersAgree, [Next]_vars PROVE CountersAgree'
    OBVIOUS
  <2>1. CASE Cool
    BY <2>1 DEF Cool
  <2>2. CASE GetStatus
    BY <2>2, SMT DEF GetStatus, Expired
  <2>3. CASE Invalidate
    BY <2>3, SMT DEF Invalidate
  <2>4. ASSUME NEW c \in Calls, ExecuteClosed(c) PROVE CountersAgree'
    BY <2>4 DEF ExecuteClosed
  <2>5. ASSUME NEW c \in Calls, ExecuteProbe(c) PROVE CountersAgree'
    <3>1. /\ state # "CLOSED"
          /\ state' = "HALF_OPEN"
          /\ successCount' = 0 \/ (state = "HALF_OPEN" /\ successCount' = successCount)
          /\ failureCount' = failureCount
      BY <2>5, Zenon DEF ExecuteProbe, Expired
    <3> QED
      BY <3>1
  <2>6. ASSUME NEW c \in Calls, OnSuccess(c) PROVE CountersAgree'
    <3>1. \/ UNCHANGED <<state, failureCount, successCount>>
          \/ state' = "CLOSED" /\ failureCount' = 0 /\ successCount' = 0
          \/ /\ state = "HALF_OPEN"
             /\ UNCHANGED <<state, failureCount>>
             /\ successCount + 1 < SuccessThreshold
             /\ successCount' = successCount + 1
      BY <2>6, Zenon DEF OnSuccess
    <3> QED
      BY <3>1
  <2>7. ASSUME NEW c \in Calls, OnFailure(c) PROVE CountersAgree'
    <3>1. /\ failureCount' = IF failureCount < MaxFailures THEN failureCount + 1 ELSE failureCount
          /\ \/ Opens /\ state' = "OPEN" /\ successCount' = 0
             \/ ~Opens /\ UNCHANGED <<state, successCount>>
      BY <2>7, Zenon DEF OnFailure
    <3> QED
      BY <3>1 DEF Opens
  <2>8. ASSUME NEW c \in Calls, SettleOrphan(c) PROVE CountersAgree'
    BY <2>8 DEF SettleOrphan
  <2>9. CASE UNCHANGED vars
    BY <2>9 DEF vars
  <2> QED
    BY <2>1, <2>2, <2>3, <2>4, <2>5, <2>6, <2>7, <2>8, <2>9 DEF Next
<1>3. Spec => []CounterTypes
  BY TypeCorrect, TypeSplit, PTL
<1> QED
  BY <1>1, <1>2, <1>3, PTL DEF Spec

-----------------------------------------------------------------------------

\* At most one call holds the probe and the gate is up exactly while it does,
\* whatever other results settle meanwhile.
THEOREM ProbeExclusive == Spec => []SingleProbe
<1>1. Init => SingleProbe
  BY Zenon DEF Init, SingleProbe
<1>2. FlagTypes /\ SingleProbe /\ [Next]_vars => SingleProbe'
  <2> SUFFICES ASSUME FlagTypes, SingleProbe, [Next]_vars PROVE SingleProbe'
    OBVIOUS
  <2> USE DEF FlagTypes, SingleProbe
  <2>1. CASE UNCHANGED <<isProbing, call>>
    BY <2>1, Zenon
  <2>2. CASE Invalidate
    BY <2>2, Zenon DEF Invalidate
  <2>3. ASSUME NEW c \in Calls, ExecuteClosed(c) PROVE SingleProbe'
    <3>1. \A d \in Calls : call'[d] = "probe" <=> call[d] = "probe"
      BY <2>3 DEF ExecuteClosed
    <3>2. isProbing' = isProbing
      BY <2>3, Zenon DEF ExecuteClosed
    <3> QED
      BY <3>1, <3>2, Zenon
  <2>4. ASSUME NEW c \in Calls, ExecuteProbe(c) PROVE SingleProbe'
    <3>1. ~isProbing /\ isProbing'
      BY <2>4, Zenon DEF ExecuteProbe
    <3>2. \A d \in Calls : call[d] # "probe"
      BY <3>1, Zenon
    <3>3. \A d \in Calls : call'[d] = "probe" <=> d = c
      BY <2>4, <3>2 DEF ExecuteProbe
    <3> QED
      BY <3>1, <3>3, Zenon
  <2>5. ASSUME NEW c \in Calls, Settle(c), call[c] \in {"plain", "probe"} PROVE SingleProbe'
    <3>1. \A d \in Calls : call'[d] = "probe" <=> call[d] = "probe" /\ d # c
      BY <2>5 DEF Settle
    <3>2. CASE call[c] = "probe"
      <4>1. ~isProbing'
        BY <2>5, <3>2, Zenon DEF Settle
      <4>2. \A d \in Calls : call'[d] # "probe"
        BY <3>1, <3>2, Zenon
      <4> QED
        BY <4>1, <4>2, Zenon
    <3>3. CASE call[c] = "plain"
      <4>1. isProbing' = isProbing
        BY <2>5, <3>3, Zenon DEF Settle
      <4>2. \A d \in Calls : call'[d] = "probe" <=> call[d] = "probe"
        BY <3>1, <3>3
      <4> QED
        BY <4>1, <4>2, Zenon
    <3> QED
      BY <2>5, <3>2, <3>3
  <2>6. ASSUME NEW c \in Calls, SettleOrphan(c) PROVE SingleProbe'
    <3>1. \A d \in Calls : call'[d] = "probe" <=> call[d] = "probe"
      BY <2>6 DEF SettleOrphan
    <3>2. isProbing' = isProbing
      BY <2>6, Zenon DEF SettleOrphan
    <3> QED
      BY <3>1, <3>2, Zenon
  <2> QED
    BY <2>1, <2>2, <2>3, <2>4, <2>5, <2>6, Zenon
       DEF Next, vars, Cool, GetStatus, OnSuccess, OnFailure
<1>3. Spec => []FlagTypes
  BY TypeCorrect, TypeSplit, PTL
<1> QED
  BY <1>1, <1>2, <1>3, PTL DEF Spec

-----------------------------------------------------------------------------
(* The queue                                                               *)

LEMMA InitBreaker == LlmInit => Init
  BY DEF LlmInit

LEMMA StepBreaker == [LlmNext]_llmVars => [Next]_vars
<1> SUFFICES ASSUME [LlmNext]_llmVars PROVE [Next]_vars
  OBVIOUS
<1> USE QueueAssumption
<1>1. CASE Cool \/ GetStatus \/ Invalidate
  BY <1>1 DEF Next
<1>2. ASSUME NEW j \in Jobs, Enqueue(j) PROVE UNCHANGED vars
  BY <1>2 DEF Enqueue, vars
<1>3. ASSUME NEW j \in Jobs, Begin(j) PROVE [Next]_vars
  BY <1>3 DEF Begin, Next, vars
<1>4. ASSUME NEW j \in Jobs, Refuse(j) PROVE [Next]_vars
  BY <1>4 DEF Refuse, Next, vars
<1>5. ASSUME NEW j \in Jobs, Finish(j) PROVE [Next]_vars
  BY <1>5 DEF Finish, Next, vars
<1>6. ASSUME NEW j \in Jobs, Timeout(j) PROVE UNCHANGED vars
  BY <1>6 DEF Timeout, vars
<1>7. ASSUME NEW j \in Jobs, SettleLate(j) PROVE Next
  BY <1>7 DEF SettleLate, Next
<1>8. ASSUME NEW c \in Streams, Stream(c) PROVE Next
  BY <1>8 DEF Stream, Streams, Next
<1>9. ASSUME NEW n \in Limits, SetConcurrency(n) PROVE UNCHANGED vars
  BY <1>9 DEF SetConcurrency, vars
<1>10. ASSUME NEW n \in Depths, SetMaxQueueDepth(n) PROVE UNCHANGED vars
  BY <1>10 DEF SetMaxQueueDepth, vars
<1>11. CASE UNCHANGED llmVars
  BY <1>11 DEF llmVars, vars
<1> QED
  BY <1>1, <1>2, <1>3, <1>4, <1>5, <1>6, <1>7, <1>8, <1>9, <1>10, <1>11 DEF LlmNext

\* Behind the queue the breaker is still the breaker: no timeout, refusal, late
\* settlement or change of a limit (llm-queue.ts enqueue, setConcurrency) shows
\* it anything circuit-breaker.ts does not expect.
THEOREM QueueImplementsBreaker == LlmSpec => ImplementsBreaker
  BY InitBreaker, StepBreaker, PTL DEF LlmSpec, Spec, ImplementsBreaker

\* Its gate admits one probe at a time, and its counters agree with its state.
THEOREM QueueKeepsProbe == LlmSpec => []SingleProbe
  BY QueueImplementsBreaker, ProbeExclusive, PTL DEF ImplementsBreaker

THEOREM QueueKeepsCounters == LlmSpec => []CountersAgree
  BY QueueImplementsBreaker, CountersCorrect, PTL DEF ImplementsBreaker

-----------------------------------------------------------------------------

ActiveIn(status) == {j \in Jobs : status[j] \in {"granted", "running"}}

\* A queue and the status of the jobs that belong together.
Proper(q, status) ==
  /\ q \in Seq(Jobs)
  /\ status \in [Jobs -> {"none", "waiting", "granted", "running"}]
  /\ IsInjective(q)
  /\ ToSet(q) = {j \in Jobs : status[j] = "waiting"}

LEMMA JobsFinite == IsFiniteSet(Jobs)
  BY QueueAssumption, FS_Union DEF Jobs

LEMMA ActiveFinite ==
  ASSUME NEW status
  PROVE  /\ IsFiniteSet(ActiveIn(status))
         /\ Cardinality(ActiveIn(status)) \in Nat
         /\ Cardinality(ActiveIn(status)) <= Cardinality(Jobs)
<1>1. ActiveIn(status) \in SUBSET Jobs
  BY DEF ActiveIn
<1> QED
  BY <1>1, JobsFinite, FS_Subset, FS_CardinalityType

\* The first k of a queue without repetitions are k jobs.
LEMMA PrefixCount ==
  ASSUME NEW q \in Seq(Jobs), IsInjective(q), NEW k \in 0..Len(q)
  PROVE  Cardinality(ToSet(SubSeq(q, 1, k))) = k
<1> DEFINE p == SubSeq(q, 1, k)
<1>1. k \in Nat /\ Len(q) \in Nat /\ DOMAIN q = 1..Len(q)
  OBVIOUS
<1>2. p \in Seq(Jobs) /\ Len(p) = k /\ DOMAIN p = 1..k /\ \A i \in 1..k : p[i] = q[i]
  BY <1>1
<1> HIDE DEF p
<1>3. p \in [1..k -> ToSet(p)]
  BY <1>2 DEF ToSet
<1>4. IsInjective(p)
  BY <1>1, <1>2 DEF IsInjective
<1>5. \A t \in ToSet(p) : \E i \in 1..k : p[i] = t
  BY <1>2 DEF ToSet
<1>6. p \in Bijection(1..k, ToSet(p))
  BY <1>3, <1>4, <1>5 DEF Bijection, Injection, Surjection
<1>7. ExistsBijection(1..k, ToSet(p))
  BY <1>6 DEF ExistsBijection
<1> QED
  BY <1>1, <1>7, FS_CountingElements DEF p

\* What is left of a queue after its first k.
LEMMA Suffix ==
  ASSUME NEW q \in Seq(Jobs), NEW k \in 0..Len(q), NEW rest, rest = SubSeq(q, k + 1, Len(q))
  PROVE  /\ rest \in Seq(Jobs)
         /\ Len(rest) = Len(q) - k
         /\ DOMAIN rest = 1..(Len(q) - k)
         /\ \A i \in 1..(Len(q) - k) : rest[i] = q[k + i]
<1>1. Len(q) \in Nat /\ k \in Nat /\ k <= Len(q)
  OBVIOUS
<1>2. \A i \in (k + 1)..Len(q) : q[i] \in Jobs
  BY <1>1
<1>3. /\ rest \in Seq(Jobs)
      /\ Len(rest) = IF k + 1 <= Len(q) THEN Len(q) - (k + 1) + 1 ELSE 0
      /\ \A i \in 1..(Len(q) - (k + 1) + 1) : rest[i] = q[(k + 1) + i - 1]
  BY <1>1, <1>2, SubSeqProperties
<1>4. Len(rest) = Len(q) - k
  BY <1>1, <1>3
<1>5. DOMAIN rest = 1..(Len(q) - k)
  BY <1>3, <1>4, LenProperties
<1>6. ASSUME NEW i \in 1..(Len(q) - k) PROVE rest[i] = q[k + i]
  <2>1. (k + 1) + i - 1 = k + i /\ Len(q) - (k + 1) + 1 = Len(q) - k
    BY <1>1
  <2> QED
    BY <1>3, <2>1
<1> QED
  BY <1>3, <1>4, <1>5, <1>6

\* Handing out slots keeps queue and status together, keeps the number of jobs
\* that wait or hold a slot, and leaves no job waiting beside a free slot.
LEMMA ResumeKeeps ==
  ASSUME NEW q, NEW status, NEW n \in Int, Proper(q, status), Resume(q, status, n)
  PROVE  /\ Proper(waiting', job')
         /\ Len(waiting') + Cardinality(ActiveIn(job')) = Len(q) + Cardinality(ActiveIn(status))
         /\ waiting' # <<>> => Cardinality(ActiveIn(job')) >= n
<1> DEFINE active == Cardinality(ActiveIn(status))
           k == IF active >= n THEN 0 ELSE IF n - active < Len(q) THEN n - active ELSE Len(q)
           first == ToSet(SubSeq(q, 1, k))
           rest == SubSeq(q, k + 1, Len(q))
<1>1. q \in Seq(Jobs) /\ Len(q) \in Nat /\ IsInjective(q) /\ DOMAIN q = 1..Len(q)
  BY DEF Proper
<1>2. active \in Nat
  BY ActiveFinite
<1>3. k \in 0..Len(q) /\ k \in Nat
  BY <1>1, <1>2
<1>4. waiting' = rest /\ job' = [j \in Jobs |-> IF j \in first THEN "granted" ELSE status[j]]
  BY DEF Resume, ActiveIn
<1> HIDE DEF k
<1>5. /\ rest \in Seq(Jobs)
      /\ Len(rest) = Len(q) - k
      /\ DOMAIN rest = 1..(Len(q) - k)
      /\ \A i \in 1..(Len(q) - k) : rest[i] = q[k + i]
  BY <1>1, <1>3, Suffix
<1> HIDE DEF rest
<1>6. first = {q[i] : i \in 1..k}
  <2>1. DOMAIN SubSeq(q, 1, k) = 1..k /\ \A i \in 1..k : SubSeq(q, 1, k)[i] = q[i]
    BY <1>1, <1>3
  <2> QED
    BY <2>1 DEF ToSet
<1>7. ToSet(rest) = {q[i] : i \in (k + 1)..Len(q)}
  <2>1. \A i \in 1..(Len(q) - k) : k + i \in (k + 1)..Len(q)
    BY <1>1, <1>3
  <2>2. \A i \in (k + 1)..Len(q) : i - k \in 1..(Len(q) - k) /\ k + (i - k) = i
    BY <1>1, <1>3
  <2> QED
    BY <1>5, <2>1, <2>2 DEF ToSet
<1>8. ToSet(q) = first \cup ToSet(rest)
  <2>1. 1..Len(q) = 1..k \cup (k + 1)..Len(q)
    BY <1>1, <1>3
  <2> QED
    BY <1>1, <1>6, <1>7, <2>1 DEF ToSet
<1>9. first \cap ToSet(rest) = {}
  BY <1>1, <1>3, <1>6, <1>7 DEF IsInjective
<1>10. first \subseteq {j \in Jobs : status[j] = "waiting"}
  BY <1>8 DEF Proper
<1>11. Proper(waiting', job')
  <2>1. IsInjective(rest)
    <3>1. \A i \in 1..(Len(q) - k) : k + i \in 1..Len(q)
      BY <1>1, <1>3
    <3>2. ASSUME NEW a \in 1..(Len(q) - k), NEW b \in 1..(Len(q) - k), rest[a] = rest[b]
          PROVE  a = b
      <4>1. q[k + a] = q[k + b]
        BY <1>5, <3>2
      <4>2. k + a = k + b
        BY <1>1, <3>1, <4>1 DEF IsInjective
      <4> QED
        BY <1>3, <4>2
    <3> QED
      BY <1>5, <3>2 DEF IsInjective
  <2>2. job' \in [Jobs -> {"none", "waiting", "granted", "running"}]
    BY <1>4 DEF Proper
  <2>3. ToSet(rest) = {j \in Jobs : job'[j] = "waiting"}
    BY <1>4, <1>8, <1>9, <1>10 DEF Proper
  <2> QED
    BY <1>4, <1>5, <2>1, <2>2, <2>3 DEF Proper
<1>12. Cardinality(ActiveIn(job')) = active + k
  <2>1. ActiveIn(job') = ActiveIn(status) \cup first
    BY <1>4, <1>10 DEF ActiveIn
  <2>2. ActiveIn(status) \cap first = {}
    BY <1>10 DEF ActiveIn
  <2>3. IsFiniteSet(first) /\ Cardinality(first) = k
    <3>1. first \in SUBSET Jobs
      BY <1>10
    <3> QED
      BY <1>1, <1>3, <3>1, JobsFinite, FS_Subset, PrefixCount
  <2>4. Cardinality(ActiveIn(job')) = active + k - Cardinality({})
    BY <2>1, <2>2, <2>3, ActiveFinite, FS_Union
  <2> QED
    BY <1>2, <1>3, <2>4, FS_EmptySet
<1>13. Len(waiting') + Cardinality(ActiveIn(job')) = Len(q) + active
  BY <1>1, <1>2, <1>3, <1>4, <1>5, <1>12
<1>14. waiting' # <<>> => active + k >= n
  <2>1. k = Len(q) => rest = <<>>
    BY <1>1, <1>5
  <2> QED
    BY <1>1, <1>2, <1>4, <2>1 DEF k
<1> QED
  BY <1>11, <1>12, <1>13, <1>14

-----------------------------------------------------------------------------

\* The types of the limits and what is accounted for: inductive as it stands.
LimitTypes ==
  /\ limit \in {AtLeastOne(n) : n \in Limits}
  /\ depth \in {AtLeastOne(n) : n \in Depths}

QueueInv ==
  /\ Proper(waiting, job)
  /\ LimitTypes
  /\ unsettled = Len(waiting) + Cardinality(ActiveIn(job))
  /\ waiting # <<>> => Cardinality(ActiveIn(job)) >= limit

LEMMA LimitIsInt == LimitTypes => limit \in Int
  BY QueueAssumption DEF LimitTypes, AtLeastOne

LEMMA InitQueue == LlmInit => QueueInv
<1> SUFFICES ASSUME LlmInit PROVE QueueInv
  OBVIOUS
<1>1. waiting = <<>> /\ job = [j \in Jobs |-> "none"] /\ unsettled = 0
  BY DEF LlmInit
<1>2. ActiveIn(job) = {}
  BY <1>1 DEF ActiveIn
<1>3. Proper(waiting, job)
  <2>1. waiting \in Seq(Jobs) /\ DOMAIN waiting = {}
    BY <1>1
  <2> QED
    BY <1>1, <2>1 DEF Proper, IsInjective, ToSet
<1> QED
  BY <1>1, <1>2, <1>3, FS_EmptySet DEF LlmInit, QueueInv, LimitTypes

\* A new job joins the queue and is given a slot if one is free.
LEMMA EnqueueKeeps ==
  ASSUME QueueInv, NEW j \in Jobs, Enqueue(j)
  PROVE  QueueInv'
<1> DEFINE q == Append(waiting, j)
           status == [job EXCEPT ![j] = "waiting"]
<1>1. /\ waiting \in Seq(Jobs) /\ Len(waiting) \in Nat /\ DOMAIN waiting = 1..Len(waiting)
      /\ job \in [Jobs -> {"none", "waiting", "granted", "running"}]
      /\ IsInjective(waiting)
      /\ ToSet(waiting) = {i \in Jobs : job[i] = "waiting"}
  BY DEF QueueInv, Proper
<1>2. job[j] = "none" /\ Resume(q, status, limit) /\ unsettled' = unsettled + 1
      /\ limit' = limit /\ depth' = depth
  BY DEF Enqueue
<1>3. /\ q \in Seq(Jobs) /\ Len(q) = Len(waiting) + 1 /\ DOMAIN q = 1..(Len(waiting) + 1)
      /\ \A i \in 1..Len(waiting) : q[i] = waiting[i]
      /\ q[Len(waiting) + 1] = j
  BY <1>1
<1> HIDE DEF q
<1>4. \A i \in 1..Len(waiting) : waiting[i] # j
  BY <1>1, <1>2 DEF ToSet
<1>5. IsInjective(q)
  BY <1>1, <1>3, <1>4 DEF IsInjective
<1>6. ToSet(q) = ToSet(waiting) \cup {j}
  BY <1>1, <1>3 DEF ToSet
<1>7. Proper(q, status)
  BY <1>1, <1>2, <1>3, <1>5, <1>6 DEF Proper
<1>8. ActiveIn(status) = ActiveIn(job)
  BY <1>1, <1>2 DEF ActiveIn
<1>9. limit \in Int
  BY LimitIsInt DEF QueueInv
<1>10. /\ Proper(waiting', job')
       /\ Len(waiting') + Cardinality(ActiveIn(job')) = Len(q) + Cardinality(ActiveIn(status))
       /\ waiting' # <<>> => Cardinality(ActiveIn(job')) >= limit
  BY <1>2, <1>7, <1>9, ResumeKeeps
<1>11. unsettled' = Len(waiting') + Cardinality(ActiveIn(job'))
  <2>1. unsettled = Len(waiting) + Cardinality(ActiveIn(job)) /\ Cardinality(ActiveIn(job)) \in Nat
    BY ActiveFinite DEF QueueInv
  <2> QED
    BY <1>1, <1>2, <1>3, <1>8, <1>10, <2>1
<1> QED
  BY <1>2, <1>10, <1>11 DEF QueueInv, LimitTypes

\* A job gives its slot back, and the slot goes to the next one.
LEMMA ReleaseKeeps ==
  ASSUME QueueInv, NEW j \in Jobs, job[j] \in {"granted", "running"}, Release(j)
  PROVE  QueueInv'
<1> DEFINE status == [job EXCEPT ![j] = "none"]
<1>1. Resume(waiting, status, limit) /\ unsettled' = unsettled - 1 /\ limit' = limit /\ depth' = depth
  BY DEF Release
<1>2. Proper(waiting, job) /\ Len(waiting) \in Nat
  BY DEF QueueInv, Proper
<1>3. Proper(waiting, status)
  BY <1>2 DEF Proper
<1>4. Cardinality(ActiveIn(status)) = Cardinality(ActiveIn(job)) - 1
  <2>1. ActiveIn(status) = ActiveIn(job) \ {j} /\ j \in ActiveIn(job)
    BY <1>2 DEF ActiveIn, Proper
  <2> QED
    BY <2>1, ActiveFinite, FS_RemoveElement
<1>5. limit \in Int
  BY LimitIsInt DEF QueueInv
<1>6. /\ Proper(waiting', job')
      /\ Len(waiting') + Cardinality(ActiveIn(job')) = Len(waiting) + Cardinality(ActiveIn(status))
      /\ waiting' # <<>> => Cardinality(ActiveIn(job')) >= limit
  BY <1>1, <1>3, <1>5, ResumeKeeps
<1>7. unsettled' = Len(waiting') + Cardinality(ActiveIn(job'))
  <2>1. unsettled = Len(waiting) + Cardinality(ActiveIn(job)) /\ Cardinality(ActiveIn(job)) \in Nat
    BY ActiveFinite DEF QueueInv
  <2> QED
    BY <1>1, <1>2, <1>4, <1>6, <2>1
<1> QED
  BY <1>1, <1>6, <1>7 DEF QueueInv, LimitTypes

\* A granted job that starts keeps its slot.
LEMMA StartKeeps ==
  ASSUME QueueInv, NEW j \in Jobs, job[j] = "granted", Start(j)
  PROVE  QueueInv'
<1>1. job' = [job EXCEPT ![j] = "running"] /\ UNCHANGED <<waiting, limit, depth, unsettled>>
  BY DEF Start
<1>2. Proper(waiting, job)
  BY DEF QueueInv
<1>3. Proper(waiting', job')
  BY <1>1, <1>2 DEF Proper
<1>4. ActiveIn(job') = ActiveIn(job)
  BY <1>1, <1>2 DEF ActiveIn, Proper
<1> QED
  BY <1>1, <1>3, <1>4 DEF QueueInv, LimitTypes

\* A new limit takes no slot from a running job and leaves none idle.
LEMMA SetConcurrencyKeeps ==
  ASSUME QueueInv, NEW n \in Limits, SetConcurrency(n)
  PROVE  QueueInv'
<1>1. /\ limit' = AtLeastOne(n)
      /\ Resume(waiting, job, AtLeastOne(n))
      /\ depth' = depth /\ unsettled' = unsettled
  BY DEF SetConcurrency
<1>2. Proper(waiting, job) /\ AtLeastOne(n) \in Int
  BY QueueAssumption DEF QueueInv, AtLeastOne
<1>3. /\ Proper(waiting', job')
      /\ Len(waiting') + Cardinality(ActiveIn(job')) = Len(waiting) + Cardinality(ActiveIn(job))
      /\ waiting' # <<>> => Cardinality(ActiveIn(job')) >= AtLeastOne(n)
  BY <1>1, <1>2, ResumeKeeps
<1> QED
  BY <1>1, <1>3 DEF QueueInv, LimitTypes

LEMMA StepQueue == QueueInv /\ [LlmNext]_llmVars => QueueInv'
<1> SUFFICES ASSUME QueueInv, [LlmNext]_llmVars PROVE QueueInv'
  OBVIOUS
<1>1. ASSUME UNCHANGED queueVars PROVE QueueInv'
  BY <1>1 DEF queueVars, QueueInv, Proper, LimitTypes
<1>2. ASSUME NEW j \in Jobs, Enqueue(j) PROVE QueueInv'
  BY <1>2, EnqueueKeeps
<1>3. ASSUME NEW j \in Jobs, Begin(j) PROVE QueueInv'
  BY <1>3, StartKeeps DEF Begin
<1>4. ASSUME NEW j \in Jobs, Refuse(j) \/ Finish(j) \/ Timeout(j) PROVE QueueInv'
  BY <1>4, ReleaseKeeps DEF Refuse, Finish, Timeout
<1>5. ASSUME NEW j \in Jobs, SettleLate(j) PROVE QueueInv'
  BY <1>1, <1>5 DEF SettleLate
<1>6. ASSUME NEW c \in Streams, Stream(c) PROVE QueueInv'
  BY <1>1, <1>6 DEF Stream
<1>7. ASSUME NEW n \in Limits, SetConcurrency(n) PROVE QueueInv'
  BY <1>7, SetConcurrencyKeeps
<1>8. ASSUME NEW n \in Depths, SetMaxQueueDepth(n) PROVE QueueInv'
  BY <1>8 DEF SetMaxQueueDepth, QueueInv, Proper, LimitTypes
<1>9. CASE UNCHANGED llmVars
  BY <1>1, <1>9 DEF llmVars, queueVars
<1> QED
  BY <1>1, <1>2, <1>3, <1>4, <1>5, <1>6, <1>7, <1>8, <1>9 DEF LlmNext

LEMMA QueueInvHolds == LlmSpec => []QueueInv
  BY InitQueue, StepQueue, PTL DEF LlmSpec

LEMMA QueueInvTypes == QueueInv /\ TypeOK => LlmTypeOK
<1> SUFFICES ASSUME QueueInv, TypeOK PROVE LlmTypeOK
  OBVIOUS
<1>1. waiting \in Seq(Jobs) /\ Len(waiting) \in Nat /\ IsInjective(waiting)
  BY DEF QueueInv, Proper
<1>2. SubSeq(waiting, 1, Len(waiting)) = waiting
  BY <1>1, SubSeqFull
<1>3. Cardinality(ToSet(waiting)) = Len(waiting)
  <2>1. Len(waiting) \in 0..Len(waiting)
    BY <1>1
  <2> QED
    BY <1>1, <1>2, <2>1, PrefixCount
<1>4. ToSet(waiting) \cup ActiveIn(job) \in SUBSET Jobs /\ ToSet(waiting) \cap ActiveIn(job) = {}
  BY DEF QueueInv, Proper, ActiveIn
<1>5. IsFiniteSet(ToSet(waiting))
  BY <1>4, JobsFinite, FS_Subset
<1>6. Cardinality(ToSet(waiting) \cup ActiveIn(job)) <= Cardinality(Jobs)
  BY <1>4, JobsFinite, FS_Subset
<1>7. Cardinality(ToSet(waiting) \cup ActiveIn(job)) = Len(waiting) + Cardinality(ActiveIn(job)) - 0
  BY <1>3, <1>4, <1>5, ActiveFinite, FS_Union, FS_EmptySet
<1>8. unsettled \in 0..Cardinality(Jobs)
  BY <1>1, <1>6, <1>7, ActiveFinite, JobsFinite, FS_CardinalityType DEF QueueInv
<1> QED
  BY <1>8 DEF QueueInv, Proper, LimitTypes, LlmTypeOK

\* The queue's state and the breaker's keep their types (llm-queue.ts).
THEOREM QueueTypeCorrect == LlmSpec => []LlmTypeOK
<1>1. LlmSpec => []TypeOK
  BY QueueImplementsBreaker, TypeCorrect, PTL DEF ImplementsBreaker
<1> QED
  BY <1>1, QueueInvHolds, QueueInvTypes, PTL

\* enqueue, the timer's race and setConcurrency of llm-queue.ts: no job is lost,
\* doubled or left waiting beside a free slot.
THEOREM NothingLost == LlmSpec => []Accounted
<1>1. QueueInv => Accounted
  BY DEF QueueInv, Proper, Accounted, Active, ActiveIn
<1> QED
  BY <1>1, QueueInvHolds, PTL

=============================================================================
