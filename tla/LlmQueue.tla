----------------------------- MODULE LlmQueue -----------------------------
(***************************************************************************)
(* The LLM request queue of one pod (domains/llm/services/llm-queue.ts)    *)
(* composed with one provider's circuit breaker: queued calls run          *)
(* `enqueue(signal => breaker.execute(fn))`, streams and inline            *)
(* completions call execute() past the queue, and calls to other providers *)
(* take slots of the same queue.  p-limit is external: a FIFO of pending   *)
(* jobs, a slot taken when a job is dequeued, released when it settles.    *)
(***************************************************************************)
EXTENDS CircuitBreaker, Sequences, SequencesExt

CONSTANTS
  Queued,      \* callers of this provider that go through the queue
  Others,      \* callers of other providers, through the same queue
  Limits,      \* values an administrator saves for llm_concurrency
  Depths       \* values an administrator saves for llm_max_queue_depth

ASSUME QueueAssumption ==
  /\ Queued \subseteq Calls
  /\ Others \cap Calls = {}
  /\ IsFiniteSet(Queued) /\ IsFiniteSet(Others)
  /\ Limits \subseteq Int /\ Limits # {}
  /\ Depths \subseteq Int /\ Depths # {}

Jobs == Queued \cup Others
Streams == Calls \ Queued

VARIABLES
  waiting,     \* p-limit's queue
  job,         \* per job: "none", "waiting", "granted" or "running"
  limit,       \* _limiter.concurrency
  depth,       \* _maxQueueDepth
  unsettled    \* accepted - _totalProcessed - _totalTimedOut

queueVars == <<waiting, job, limit, depth, unsettled>>
llmVars == <<vars, queueVars>>

\* setConcurrency and setMaxQueueDepth clamp what they are given.
MutAtLeastOne(n) == n
AtLeastOne(n) == IF n < 1 THEN 1 ELSE n

Active == {j \in Jobs : job[j] \in {"granted", "running"}}

LlmTypeOK ==
  /\ TypeOK
  /\ waiting \in Seq(Jobs)
  /\ job \in [Jobs -> {"none", "waiting", "granted", "running"}]
  /\ limit \in {AtLeastOne(n) : n \in Limits}
  /\ depth \in {AtLeastOne(n) : n \in Depths}
  /\ unsettled \in 0..Cardinality(Jobs)

LlmInit ==
  /\ Init
  /\ waiting = <<>>
  /\ job = [j \in Jobs |-> "none"]
  /\ limit \in {AtLeastOne(n) : n \in Limits}
  /\ depth \in {AtLeastOne(n) : n \in Depths}
  /\ unsettled = 0

-----------------------------------------------------------------------------

\* p-limit hands slots to the head of the queue while fewer than n jobs are
\* active: q is the queue and status the jobs before.
Resume(q, status, n) ==
  LET active == Cardinality({j \in Jobs : status[j] \in {"granted", "running"}})
      k == IF active >= n THEN 0 ELSE IF n - active < Len(q) THEN n - active ELSE Len(q)
  IN  /\ waiting' = SubSeq(q, k + 1, Len(q))
      /\ job' = [j \in Jobs |-> IF j \in ToSet(SubSeq(q, 1, k)) THEN "granted" ELSE status[j]]

\* enqueue below the depth limit; above it the call fails with QueueFullError
\* and nothing but _totalRejected changes.
Enqueue(j) ==
  /\ job[j] = "none"
  /\ j \in Calls => call[j] = "idle"
  /\ Len(waiting) < depth
  /\ Resume(Append(waiting, j), [job EXCEPT ![j] = "waiting"], limit)
  /\ unsettled' = unsettled + 1
  /\ UNCHANGED <<vars, limit, depth>>

\* The race of a job settles: the slot goes to the next pending job.
Release(j) ==
  /\ Resume(waiting, [job EXCEPT ![j] = "none"], limit)
  /\ unsettled' = unsettled - 1
  /\ UNCHANGED <<limit, depth>>

Start(j) ==
  /\ job' = [job EXCEPT ![j] = "running"]
  /\ UNCHANGED <<waiting, limit, depth, unsettled>>

\* The job's function runs: its timer starts and the breaker admits the call.
Begin(j) ==
  /\ job[j] = "granted"
  /\ \/ j \in Queued /\ (ExecuteClosed(j) \/ ExecuteProbe(j))
     \/ j \in Others /\ UNCHANGED vars
  /\ Start(j)

\* The breaker answers the job's call with CircuitBreakerOpenError; the check
\* may be what expires the timeout while an older probe holds the gate.
Refuse(j) ==
  /\ job[j] = "granted"
  /\ j \in Queued
  /\ \/ state = "OPEN" /\ ~cooled /\ UNCHANGED vars
     \/ state = "HALF_OPEN" /\ isProbing /\ UNCHANGED vars
     \/ isProbing /\ GetStatus
  /\ Release(j)

\* fn settles before the timer.
Finish(j) ==
  /\ job[j] = "running"
  /\ \/ j \in Queued /\ (OnSuccess(j) \/ OnFailure(j) \/ SettleOrphan(j))
     \/ j \in Others /\ UNCHANGED vars
  /\ Release(j)

MutTimeout(j) ==
  /\ job[j] = "running"
  /\ Release(j)
  /\ call' = IF j \in Calls THEN [call EXCEPT ![j] = "idle"] ELSE call
  /\ UNCHANGED <<state, failureCount, successCount, isProbing, cooled>>

\* The timer fires first: the caller gets LlmTimeoutError and the slot is
\* free, while the aborted call of the breaker is still to settle.
Timeout(j) ==
  /\ job[j] = "running"
  /\ Release(j)
  /\ UNCHANGED vars

\* The aborted fn settles after its slot was given away: as a failure, or as a
\* success when the abort hits the body of a 400 that bypasses the breaker.
SettleLate(j) ==
  /\ j \in Queued
  /\ job[j] \notin {"granted", "running"}
  /\ OnSuccess(j) \/ OnFailure(j) \/ SettleOrphan(j)
  /\ UNCHANGED queueVars

\* streamChat and the inline completions: through the breaker alone.
Stream(c) ==
  /\ c \in Streams
  /\ \/ ExecuteClosed(c)
     \/ ExecuteProbe(c)
     \/ OnSuccess(c)
     \/ OnFailure(c)
     \/ SettleOrphan(c)
  /\ UNCHANGED queueVars

\* #404: a new pLimit(n) would start with an empty queue of its own.
MutSetConcurrency(n) ==
  /\ limit' = AtLeastOne(n)
  /\ waiting' = <<>>
  /\ job' = [j \in Jobs |-> IF job[j] = "waiting" THEN "none" ELSE job[j]]
  /\ UNCHANGED <<vars, depth, unsettled>>

\* setConcurrency on the live limiter: jobs that run keep their slots, a
\* higher limit drains pending ones.
SetConcurrency(n) ==
  /\ limit' = AtLeastOne(n)
  /\ Resume(waiting, job, AtLeastOne(n))
  /\ UNCHANGED <<vars, depth, unsettled>>

SetMaxQueueDepth(n) ==
  /\ depth' = AtLeastOne(n)
  /\ UNCHANGED <<vars, waiting, job, limit, unsettled>>

LlmNext ==
  \/ (Cool \/ GetStatus \/ Invalidate) /\ UNCHANGED queueVars
  \/ \E j \in Jobs :
       \/ Enqueue(j)
       \/ Begin(j)
       \/ Refuse(j)
       \/ Finish(j)
       \/ Timeout(j)
       \/ SettleLate(j)
  \/ \E c \in Streams : Stream(c)
  \/ \E n \in Limits : SetConcurrency(n)
  \/ \E n \in Depths : SetMaxQueueDepth(n)

LlmSpec == LlmInit /\ [][LlmNext]_llmVars

\* The clock advances, microtasks run, the timer bounds every running job, an
\* aborted or streaming request settles, and queued callers keep calling.
LlmFairness ==
  /\ WF_llmVars(Cool /\ UNCHANGED queueVars)
  /\ \A j \in Jobs :
       /\ WF_llmVars(Enqueue(j))
       /\ WF_llmVars(Begin(j) \/ Refuse(j))
       /\ WF_llmVars(Finish(j) \/ Timeout(j))
       /\ WF_llmVars(SettleLate(j))
  /\ \A c \in Streams :
       WF_llmVars((OnSuccess(c) \/ OnFailure(c) \/ SettleOrphan(c)) /\ UNCHANGED queueVars)

FairLlmSpec == LlmSpec /\ LlmFairness

-----------------------------------------------------------------------------

\* The queue neither loses nor doubles a job across timeouts, refusals and
\* changes of the limit: what was accepted and is not yet counted as processed
\* or timed out is pending or holds a slot, each exactly once; and no slot stays
\* idle while a job waits for one, whatever the limit was meanwhile.
Accounted ==
  /\ unsettled = Len(waiting) + Cardinality(Active)
  /\ IsInjective(waiting)
  /\ ToSet(waiting) = {j \in Jobs : job[j] = "waiting"}
  /\ waiting # <<>> => Cardinality(Active) >= limit

\* Composed with queue, timeouts, refusals and streams, the breaker sees only
\* what its own specification allows: a call that lost its slot still settles
\* in the breaker exactly once.
ImplementsBreaker == Spec

\* Every pending job gets its slot: running jobs end by their timer at the
\* latest, and no saved limit stops the queue.
Drains == \A j \in Jobs : job[j] = "waiting" ~> job[j] # "waiting"

=============================================================================
