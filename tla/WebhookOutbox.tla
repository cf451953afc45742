--------------------------- MODULE WebhookOutbox ---------------------------
(***************************************************************************)
(* The webhook outbox: pollers on several pods claim rows and enqueue one  *)
(* delivery job per claim (core/services/webhook-outbox-poller.ts), and    *)
(* workers run the jobs (core/services/webhook-delivery.ts).  The row is   *)
(* claimed in one transaction, but every later step is a call of its own:  *)
(* the enqueue, the sweep's look at the job and its reset, the attempt's   *)
(* POST, its record, the row's next status and the end of the job.  A pod  *)
(* can die between any two of them, and BullMQ reruns a job whose worker   *)
(* has lost its lock.  Back-off times are left out: a pending row is due.  *)
(***************************************************************************)
EXTENDS Naturals, FiniteSets

CONSTANTS
  Pods,
  Events,       \* webhook_outbox rows
  NoJob,
  MaxAttempts,  \* cfg.maxAttempts
  MaxClaims,    \* bound: claims of one row, more than a behaviour needs
  MaxFaults     \* bound: crashes, lost locks and failed calls

ASSUME BoundAssumption ==
  MaxAttempts \in Nat \ {0} /\ MaxClaims \in Nat \ {0} /\ MaxFaults \in Nat

\* Every claim mints a fresh job id.
Jobs == Events \X (1..MaxClaims)
ASSUME NoJobAssumption == NoJob \notin Jobs

VARIABLES
  status,    \* webhook_outbox.status
  jobOf,     \* webhook_outbox.bullmq_job_id
  claims,
  ledger,    \* rows of webhook_deliveries
  toAdd,     \* jobs a poller has claimed and not yet enqueued
  orphan,    \* the job a sweep found missing or finished
  job,       \* the job's state in BullMQ
  holder,    \* the pod that holds the job's lock
  stalled,   \* unfinished jobs that BullMQ has already rerun once
  run,       \* each worker's runs of deliverOne
  faults

database == <<status, jobOf, claims, ledger>>
pollers == <<toAdd, orphan>>
queue == <<job, holder, stalled>>
vars == <<database, pollers, queue, run, faults>>

NoRun == [at |-> "none", n |-> 0, res |-> "none"]
Results == {"ok", "retry", "permanent"}

TypeOK ==
  /\ status \in [Events -> {"pending", "dispatched", "done", "dead"}]
  /\ jobOf \in [Events -> Jobs \cup {NoJob}]
  /\ claims \in [Events -> 0..MaxClaims]
  /\ ledger \in [Events -> Nat]
  /\ toAdd \in [Pods -> SUBSET Jobs]
  /\ orphan \in [Pods -> Jobs \cup {NoJob}]
  /\ job \in [Jobs -> {"absent", "waiting", "active", "finished"}]
  /\ holder \in [Jobs -> SUBSET Pods]
  /\ stalled \subseteq Jobs
  /\ run \in [Pods -> [Jobs -> [at : {"none", "post", "record", "settle", "return"},
                                n : Nat,
                                res : Results \cup {"none"}]]]
  /\ faults \in 0..MaxFaults

Init ==
  /\ status = [e \in Events |-> "pending"]
  /\ jobOf = [e \in Events |-> NoJob]
  /\ claims = [e \in Events |-> 0]
  /\ ledger = [e \in Events |-> 0]
  /\ toAdd = [p \in Pods |-> {}]
  /\ orphan = [p \in Pods |-> NoJob]
  /\ job = [j \in Jobs |-> "absent"]
  /\ holder = [j \in Jobs |-> {}]
  /\ stalled = {}
  /\ run = [p \in Pods |-> [j \in Jobs |-> NoRun]]
  /\ faults = 0

-----------------------------------------------------------------------------
(* The poller.  pollingInProgress keeps a pod to one cycle at a time: a    *)
(* sweep, a claim, then the enqueues.                                      *)

Polling(p) == toAdd[p] # {} \/ orphan[p] # NoJob

MutNextJob(e) == <<e, claims[e]>>

NextJob(e) == <<e, claims[e] + 1>>

MutClaim(p, E) ==
  /\ ~Polling(p)
  /\ \A e \in E : status[e] \in {"pending", "dispatched"} /\ claims[e] < MaxClaims
  /\ status' = [e \in Events |-> IF e \in E THEN "dispatched" ELSE status[e]]
  /\ jobOf' = [e \in Events |-> IF e \in E THEN NextJob(e) ELSE jobOf[e]]
  /\ claims' = [e \in Events |-> IF e \in E THEN claims[e] + 1 ELSE claims[e]]
  /\ toAdd' = [toAdd EXCEPT ![p] = {NextJob(e) : e \in E}]
  /\ UNCHANGED <<ledger, orphan, queue, run, faults>>

\* The claim transaction takes a batch of pending rows nobody has locked.
Claim(p, E) ==
  /\ ~Polling(p)
  /\ \A e \in E : status[e] = "pending" /\ claims[e] < MaxClaims
  /\ status' = [e \in Events |-> IF e \in E THEN "dispatched" ELSE status[e]]
  /\ jobOf' = [e \in Events |-> IF e \in E THEN NextJob(e) ELSE jobOf[e]]
  /\ claims' = [e \in Events |-> IF e \in E THEN claims[e] + 1 ELSE claims[e]]
  /\ toAdd' = [toAdd EXCEPT ![p] = {NextJob(e) : e \in E}]
  /\ UNCHANGED <<ledger, orphan, queue, run, faults>>

Enqueue(p, j) ==
  /\ j \in toAdd[p]
  /\ toAdd' = [toAdd EXCEPT ![p] = @ \ {j}]
  /\ job' = [job EXCEPT ![j] = "waiting"]
  /\ UNCHANGED <<database, orphan, holder, stalled, run, faults>>

\* queue.add is rejected: logged, and left to the sweep.
EnqueueFails(p, j) ==
  /\ j \in toAdd[p]
  /\ faults < MaxFaults
  /\ toAdd' = [toAdd EXCEPT ![p] = @ \ {j}]
  /\ faults' = faults + 1
  /\ UNCHANGED <<database, orphan, queue, run>>

MutOrphaned(j) == job[j] = "absent"

Orphaned(j) == job[j] \in {"absent", "finished"}

\* recoverStuckDispatches reads a stuck row and looks its job up.  A row gets
\* stuck only after the stale threshold, by which time a live poller has long
\* enqueued what it claimed.
SweepFinds(p, e) ==
  /\ ~Polling(p)
  /\ status[e] = "dispatched"
  /\ Orphaned(jobOf[e])
  /\ \A q \in Pods : jobOf[e] \notin toAdd[q]
  /\ orphan' = [orphan EXCEPT ![p] = jobOf[e]]
  /\ UNCHANGED <<database, toAdd, queue, run, faults>>

MutSweepResets(p) ==
  LET e == orphan[p][1] IN
  /\ orphan[p] # NoJob
  /\ status[e] = "dispatched"
  /\ status' = [status EXCEPT ![e] = "pending"]
  /\ jobOf' = [jobOf EXCEPT ![e] = NoJob]
  /\ orphan' = [orphan EXCEPT ![p] = NoJob]
  /\ UNCHANGED <<claims, ledger, toAdd, queue, run, faults>>

\* ... and resets the row, unless it has moved on since.
SweepResets(p) ==
  LET e == orphan[p][1] IN
  /\ orphan[p] # NoJob
  /\ IF status[e] = "dispatched" /\ jobOf[e] = orphan[p]
     THEN /\ status' = [status EXCEPT ![e] = "pending"]
          /\ jobOf' = [jobOf EXCEPT ![e] = NoJob]
     ELSE UNCHANGED <<status, jobOf>>
  /\ orphan' = [orphan EXCEPT ![p] = NoJob]
  /\ UNCHANGED <<claims, ledger, toAdd, queue, run, faults>>

-----------------------------------------------------------------------------
(* The worker                                                              *)

At(p, j, point) == run[p][j].at = point
Goto(p, j, point) == run' = [run EXCEPT ![p][j].at = point]

\* BullMQ records the end of a job for the worker that holds its lock only.
EndRun(p, j) ==
  /\ run' = [run EXCEPT ![p][j] = NoRun]
  /\ IF p \in holder[j]
     THEN /\ job' = [job EXCEPT ![j] = "finished"]
          /\ holder' = [holder EXCEPT ![j] = {}]
          /\ stalled' = stalled \ {j}
     ELSE UNCHANGED queue

\* deliverOne counts the recorded attempts; the row's status is not read.
StartRun(p, j) ==
  /\ job[j] = "waiting"
  /\ At(p, j, "none")
  /\ job' = [job EXCEPT ![j] = "active"]
  /\ holder' = [holder EXCEPT ![j] = {p}]
  /\ run' = [run EXCEPT ![p][j] = [at |-> "post", n |-> ledger[j[1]] + 1, res |-> "none"]]
  /\ UNCHANGED <<database, pollers, stalled, faults>>

\* A 2xx, a retryable failure (5xx, 408, 429, timeout, blocked address) or a
\* permanent one (other 4xx, no active subscription, unreadable secret).
Post(p, j) ==
  /\ At(p, j, "post")
  /\ \E res \in Results :
       run' = [run EXCEPT ![p][j].at = "record", ![p][j].res = res]
  /\ UNCHANGED <<database, pollers, queue, faults>>

RecordDelivery(p, j) ==
  /\ At(p, j, "record")
  /\ ledger' = [ledger EXCEPT ![j[1]] = @ + 1]
  /\ Goto(p, j, "settle")
  /\ UNCHANGED <<status, jobOf, claims, pollers, queue, faults>>

MutRetries(r) == r.res = "retry" /\ r.n + 1 < MaxAttempts

Retries(r) == r.res = "retry" /\ r.n < MaxAttempts

\* markOutboxDone, markOutboxDead or reschedulePending, by row id alone.
SettleRow(p, j) ==
  LET e == j[1]
      r == run[p][j]
  IN
  /\ At(p, j, "settle")
  /\ status' = [status EXCEPT ![e] = IF r.res = "ok" THEN "done"
                                     ELSE IF Retries(r) THEN "pending" ELSE "dead"]
  /\ jobOf' = [jobOf EXCEPT ![e] = IF Retries(r) THEN NoJob ELSE @]
  /\ Goto(p, j, "return")
  /\ UNCHANGED <<claims, ledger, pollers, queue, faults>>

Return(p, j) ==
  /\ At(p, j, "return")
  /\ EndRun(p, j)
  /\ UNCHANGED <<database, pollers, faults>>

\* A database call throws: the job fails, and BullMQ does not retry it.
RunThrows(p, j) ==
  /\ run[p][j].at \in {"post", "record", "settle"}
  /\ faults < MaxFaults
  /\ faults' = faults + 1
  /\ EndRun(p, j)
  /\ UNCHANGED <<database, pollers>>

-----------------------------------------------------------------------------
(* Faults                                                                  *)

Crash(p) ==
  /\ faults < MaxFaults
  /\ faults' = faults + 1
  /\ toAdd' = [toAdd EXCEPT ![p] = {}]
  /\ orphan' = [orphan EXCEPT ![p] = NoJob]
  /\ run' = [run EXCEPT ![p] = [j \in Jobs |-> NoRun]]
  /\ UNCHANGED <<database, queue>>

\* BullMQ reruns a job whose lock was not renewed, and fails it the second
\* time (maxStalledCount).
Stall(j) ==
  /\ job[j] = "active"
  /\ job' = [job EXCEPT ![j] = IF j \in stalled THEN "finished" ELSE "waiting"]
  /\ holder' = [holder EXCEPT ![j] = {}]
  /\ stalled' = IF j \in stalled THEN stalled \ {j} ELSE stalled \cup {j}

\* The worker has died ...
StallDead(j) ==
  /\ Stall(j)
  /\ \A p \in holder[j] : At(p, j, "none")
  /\ UNCHANGED <<database, pollers, run, faults>>

\* ... or lives on, cut off from Redis for longer than the lock lasts.
StallLive(j) ==
  /\ Stall(j)
  /\ \E p \in holder[j] : ~At(p, j, "none")
  /\ faults < MaxFaults
  /\ faults' = faults + 1
  /\ UNCHANGED <<database, pollers, run>>

-----------------------------------------------------------------------------

PollerStep(p) ==
  \/ \E E \in (SUBSET Events) \ {{}} : Claim(p, E)
  \/ \E j \in Jobs : Enqueue(p, j)
  \/ \E e \in Events : SweepFinds(p, e)
  \/ SweepResets(p)

WorkerStep(p) ==
  \E j \in Jobs :
    StartRun(p, j) \/ Post(p, j) \/ RecordDelivery(p, j) \/ SettleRow(p, j) \/ Return(p, j)

Progress == (\E p \in Pods : PollerStep(p) \/ WorkerStep(p)) \/ \E j \in Jobs : StallDead(j)

Fault ==
  \/ \E p \in Pods : Crash(p) \/ \E j \in Jobs : EnqueueFails(p, j) \/ RunThrows(p, j)
  \/ \E j \in Jobs : StallLive(j)

Next == Progress \/ Fault

Spec == Init /\ [][Next]_vars

\* The interval timer, the BullMQ worker loop and its stall check go on while
\* there is something for them to do.
FairSpec == Spec /\ WF_vars(Progress)

-----------------------------------------------------------------------------

\* No event is forgotten: whatever is lost or fails, every row ends up done
\* or dead, and stays there once the last run of one of its jobs is over.
Settles == \A e \in Events : <>[](status[e] \in {"done", "dead"})

Delivering(p, j) == run[p][j].at \in {"post", "record", "settle"}

\* Without faults no two runs deliver the same row, however many pods poll,
\* sweep and work at once.
NoDoubleDelivery ==
  faults = 0 =>
    \A p, q \in Pods, j, k \in Jobs :
      Delivering(p, j) /\ Delivering(q, k) /\ j[1] = k[1] => p = q /\ j = k

\* dead means a permanent failure, or that the attempts were really made and
\* recorded, also when jobs of the row were lost, rerun or interleaved.
DeadIsExhausted ==
  [][\A e \in Events : status[e] # "dead" /\ status'[e] = "dead" =>
       \/ ledger[e] >= MaxAttempts
       \/ \E p \in Pods, j \in Jobs : j[1] = e /\ At(p, j, "settle") /\ run[p][j].res = "permanent"]_vars

\* The sweep never takes a row from a job that BullMQ will run or is running.
SweepSparesLive ==
  [][\A p \in Pods : orphan[p] # NoJob /\ orphan'[p] = NoJob /\ status' # status
       => Orphaned(jobOf[orphan[p][1]])]_vars

=============================================================================
