------------------------- MODULE WebhookOutboxProofs -------------------------
(***************************************************************************)
(* Proofs about the webhook outbox, for any numbers of pods, rows, claims, *)
(* attempts and faults.  A job id is minted once and enqueued by the pod   *)
(* that minted it, so what a sweep found missing or finished stays so; an  *)
(* attempt's number never exceeds the attempts on record by more than the  *)
(* one under way.                                                          *)
(***************************************************************************)
EXTENDS WebhookOutbox, TLAPS

LEMMA JobParts ==
  ASSUME NEW j \in Jobs
  PROVE  j = <<j[1], j[2]>> /\ j[1] \in Events /\ j[2] \in 1..MaxClaims
  BY DEF Jobs

LEMMA NextJobParts ==
  ASSUME TypeOK, NEW e \in Events, claims[e] < MaxClaims
  PROVE  /\ NextJob(e) \in Jobs /\ NextJob(e) # NoJob
         /\ NextJob(e)[1] = e /\ NextJob(e)[2] = claims[e] + 1
<1> USE BoundAssumption, NoJobAssumption
<1>1. claims[e] \in Nat /\ claims[e] + 1 \in 1..MaxClaims
  BY DEF TypeOK
<1> QED
  BY <1>1 DEF NextJob, Jobs

Points == {"none", "post", "record", "settle", "return"}
Runs == [at : Points, n : Nat, res : Results \cup {"none"}]

LEMMA RunsType == TypeOK => run \in [Pods -> [Jobs -> Runs]]
  BY DEF TypeOK, Runs, Points

LEMMA NoRunType == NoRun \in Runs
  BY DEF NoRun, Runs, Points

\* What a step of a run does to that run, and to no other.
LEMMA RunType ==
  ASSUME TypeOK, NEW p \in Pods, NEW j \in Jobs, NEW r \in Runs,
         run' = [run EXCEPT ![p][j] = r]
  PROVE  /\ run' \in [Pods -> [Jobs -> Runs]]
         /\ run'[p][j] = r
         /\ \A q \in Pods, k \in Jobs : <<q, k>> # <<p, j>> => run'[q][k] = run[q][k]
<1>1. run \in [Pods -> [Jobs -> Runs]]
  BY RunsType
<1> QED
  BY <1>1

LEMMA GotoType ==
  ASSUME TypeOK, NEW p \in Pods, NEW j \in Jobs, NEW point \in Points, Goto(p, j, point)
  PROVE  /\ run' \in [Pods -> [Jobs -> Runs]]
         /\ run'[p][j] = [run[p][j] EXCEPT !.at = point]
         /\ \A q \in Pods, k \in Jobs : <<q, k>> # <<p, j>> => run'[q][k] = run[q][k]
<1>1. run \in [Pods -> [Jobs -> Runs]]
  BY RunsType
<1>2. run[p][j] \in Runs
  BY <1>1
<1>3. [run[p][j] EXCEPT !.at = point] \in Runs
  BY <1>2 DEF Runs
<1>4. run' = [run EXCEPT ![p][j] = [run[p][j] EXCEPT !.at = point]]
  BY <1>1 DEF Goto
<1> QED
  BY <1>3, <1>4, RunsType

LEMMA PostType ==
  ASSUME TypeOK, NEW p \in Pods, NEW j \in Jobs, Post(p, j)
  PROVE  \E r \in Runs : /\ run' = [run EXCEPT ![p][j] = r]
                         /\ r.at = "record" /\ r.n = run[p][j].n /\ r.res \in Results
<1>1. run \in [Pods -> [Jobs -> Runs]]
  BY RunsType
<1>2. PICK res \in Results : run' = [run EXCEPT ![p][j].at = "record", ![p][j].res = res]
  BY DEF Post
<1>3. run[p][j] \in Runs
  BY <1>1
<1> DEFINE r == [run[p][j] EXCEPT !.at = "record", !.res = res]
<1>4. r \in Runs /\ r.at = "record" /\ r.n = run[p][j].n /\ r.res \in Results
  BY <1>3 DEF Runs, Points
<1>5. run' = [run EXCEPT ![p][j] = r]
  BY <1>1, <1>2
<1> QED
  BY <1>4, <1>5

LEMMA EndRunType ==
  ASSUME TypeOK, NEW p \in Pods, NEW j \in Jobs, EndRun(p, j)
  PROVE  /\ run' \in [Pods -> [Jobs -> Runs]]
         /\ run'[p][j] = NoRun
         /\ \A q \in Pods, k \in Jobs : <<q, k>> # <<p, j>> => run'[q][k] = run[q][k]
         /\ job' \in [Jobs -> {"absent", "waiting", "active", "finished"}]
         /\ holder' \in [Jobs -> SUBSET Pods]
         /\ stalled' \subseteq Jobs
<1>1. run' = [run EXCEPT ![p][j] = NoRun]
  BY DEF EndRun
<1>2. /\ job \in [Jobs -> {"absent", "waiting", "active", "finished"}]
      /\ holder \in [Jobs -> SUBSET Pods]
      /\ stalled \subseteq Jobs
  BY DEF TypeOK
<1>3. \/ /\ job' = [job EXCEPT ![j] = "finished"]
         /\ holder' = [holder EXCEPT ![j] = {}]
         /\ stalled' = stalled \ {j}
      \/ job' = job /\ holder' = holder /\ stalled' = stalled
  BY DEF EndRun, queue
<1>4. /\ job' \in [Jobs -> {"absent", "waiting", "active", "finished"}]
      /\ holder' \in [Jobs -> SUBSET Pods]
      /\ stalled' \subseteq Jobs
  BY <1>2, <1>3
<1>5. /\ run' \in [Pods -> [Jobs -> Runs]]
      /\ run'[p][j] = NoRun
      /\ \A q \in Pods, k \in Jobs : <<q, k>> # <<p, j>> => run'[q][k] = run[q][k]
  BY <1>1, RunsType, NoRunType
<1> QED
  BY <1>4, <1>5

LEMMA StallType ==
  ASSUME TypeOK, NEW j \in Jobs, Stall(j)
  PROVE  /\ job' \in [Jobs -> {"absent", "waiting", "active", "finished"}]
         /\ holder' \in [Jobs -> SUBSET Pods]
         /\ stalled' \subseteq Jobs
  BY DEF Stall, TypeOK

LEMMA InitTypeOK == Init => TypeOK
  BY BoundAssumption DEF Init, TypeOK, NoRun

LEMMA TypeStep == TypeOK /\ [Next]_vars => TypeOK'
<1> SUFFICES ASSUME TypeOK, [Next]_vars PROVE TypeOK'
  OBVIOUS
<1> USE BoundAssumption
<1>0. TypeOK' <=>
        /\ status' \in [Events -> {"pending", "dispatched", "done", "dead"}]
        /\ jobOf' \in [Events -> Jobs \cup {NoJob}]
        /\ claims' \in [Events -> 0..MaxClaims]
        /\ ledger' \in [Events -> Nat]
        /\ toAdd' \in [Pods -> SUBSET Jobs]
        /\ orphan' \in [Pods -> Jobs \cup {NoJob}]
        /\ job' \in [Jobs -> {"absent", "waiting", "active", "finished"}]
        /\ holder' \in [Jobs -> SUBSET Pods]
        /\ stalled' \subseteq Jobs
        /\ run' \in [Pods -> [Jobs -> Runs]]
        /\ faults' \in 0..MaxFaults
  BY DEF TypeOK, Runs, Points
<1>1. ASSUME NEW p \in Pods, NEW E \in SUBSET Events, Claim(p, E) PROVE TypeOK'
  <2>1. \A e \in E : NextJob(e) \in Jobs /\ claims[e] + 1 \in 0..MaxClaims
    BY <1>1, NextJobParts DEF Claim, TypeOK
  <2> QED
    BY <1>1, <2>1 DEF Claim, TypeOK, queue
<1>2. ASSUME NEW p \in Pods, NEW j \in Jobs, Enqueue(p, j) PROVE TypeOK'
  BY <1>2 DEF Enqueue, TypeOK, database
<1>3. ASSUME NEW p \in Pods, NEW e \in Events, SweepFinds(p, e) PROVE TypeOK'
  BY <1>3 DEF SweepFinds, TypeOK, database, queue
<1>4. ASSUME NEW p \in Pods, SweepResets(p) PROVE TypeOK'
  BY <1>4 DEF SweepResets, TypeOK, queue
<1>5. ASSUME NEW p \in Pods, NEW j \in Jobs, StartRun(p, j) PROVE TypeOK'
  <2> DEFINE r == [at |-> "post", n |-> ledger[j[1]] + 1, res |-> "none"]
  <2>1. r \in Runs
    BY JobParts DEF TypeOK, Runs, Points
  <2>2. run' = [run EXCEPT ![p][j] = r]
    BY <1>5 DEF StartRun
  <2> HIDE DEF r
  <2>3. run' \in [Pods -> [Jobs -> Runs]]
    BY <2>1, <2>2, RunType
  <2> QED
    BY <1>0, <1>5, <2>3 DEF StartRun, TypeOK, database, pollers
<1>6. ASSUME NEW p \in Pods, NEW j \in Jobs, Post(p, j) PROVE TypeOK'
  <2> PICK r \in Runs : run' = [run EXCEPT ![p][j] = r]
    BY <1>6, PostType
  <2>1. run' \in [Pods -> [Jobs -> Runs]]
    BY RunType
  <2> QED
    BY <1>0, <1>6, <2>1 DEF Post, TypeOK, database, pollers, queue
<1>7. ASSUME NEW p \in Pods, NEW j \in Jobs, RecordDelivery(p, j) PROVE TypeOK'
  <2>1. run' \in [Pods -> [Jobs -> Runs]]
    BY <1>7, GotoType DEF RecordDelivery, Points
  <2> QED
    BY <1>0, <1>7, <2>1, JobParts DEF RecordDelivery, TypeOK, pollers, queue
<1>8. ASSUME NEW p \in Pods, NEW j \in Jobs, SettleRow(p, j) PROVE TypeOK'
  <2>1. run' \in [Pods -> [Jobs -> Runs]]
    BY <1>8, GotoType DEF SettleRow, Points
  <2> QED
    BY <1>0, <1>8, <2>1, JobParts DEF SettleRow, TypeOK, pollers, queue
<1>9. ASSUME NEW p \in Pods, NEW j \in Jobs, Return(p, j) PROVE TypeOK'
  BY <1>0, <1>9, EndRunType DEF Return, TypeOK, database, pollers
<1>10. ASSUME NEW p \in Pods, NEW j \in Jobs, RunThrows(p, j) PROVE TypeOK'
  BY <1>0, <1>10, EndRunType DEF RunThrows, TypeOK, database, pollers
<1>11. ASSUME NEW p \in Pods, NEW j \in Jobs, EnqueueFails(p, j) PROVE TypeOK'
  BY <1>11 DEF EnqueueFails, TypeOK, database, queue
<1>12. ASSUME NEW p \in Pods, Crash(p) PROVE TypeOK'
  BY <1>12 DEF Crash, TypeOK, NoRun, database, queue
<1>13. ASSUME NEW j \in Jobs, StallDead(j) PROVE TypeOK'
  BY <1>13, StallType DEF StallDead, TypeOK, database, pollers
<1>14. ASSUME NEW j \in Jobs, StallLive(j) PROVE TypeOK'
  BY <1>14, StallType DEF StallLive, TypeOK, database, pollers
<1>15. CASE UNCHANGED vars
  BY <1>15 DEF TypeOK, vars, database, pollers, queue
<1> QED
  BY <1>1, <1>2, <1>3, <1>4, <1>5, <1>6, <1>7, <1>8, <1>9, <1>10, <1>11, <1>12, <1>13, <1>14, <1>15
     DEF Next, Progress, Fault, PollerStep, WorkerStep

\* Rows, job ids, the queue and every run keep their kind, for any numbers of
\* pods and rows, whatever fails.
THEOREM OutboxTypes == Spec => []TypeOK
<1>1. Init => TypeOK
  BY InitTypeOK
<1>2. TypeOK /\ [Next]_vars => TypeOK'
  BY TypeStep
<1> QED
  BY <1>1, <1>2, PTL DEF Spec

-----------------------------------------------------------------------------
(* Where a job can be                                                      *)

\* A job id is minted by a claim: before that nobody knows it.
Minted(j) == j[2] <= claims[j[1]]

KnownIsMinted ==
  /\ \A e \in Events : jobOf[e] # NoJob => jobOf[e][1] = e /\ Minted(jobOf[e])
  /\ \A p \in Pods : \A j \in toAdd[p] : Minted(j)
  /\ \A p \in Pods : orphan[p] # NoJob => Minted(orphan[p])
  /\ \A j \in Jobs : job[j] # "absent" => Minted(j)

\* It waits for its enqueue at one pod only, and BullMQ has not seen it yet.
AddedOnce ==
  \A p \in Pods : \A j \in toAdd[p] :
    /\ job[j] = "absent"
    /\ \A q \in Pods : j \in toAdd[q] => q = p

HeldIsActive == \A j \in Jobs : holder[j] # {} => job[j] = "active"

\* What a sweep found missing or finished has not come back.
OrphanStaysGone ==
  \A p \in Pods : orphan[p] # NoJob =>
    /\ Orphaned(orphan[p])
    /\ \A q \in Pods : orphan[p] \notin toAdd[q]

QueueInv == KnownIsMinted /\ AddedOnce /\ HeldIsActive /\ OrphanStaysGone

\* The number of an attempt is at most one ahead of the attempts on record,
\* and not ahead once its own is recorded.
Counted(p, j) ==
  /\ run[p][j].at \in {"post", "record"} => run[p][j].n <= ledger[j[1]] + 1
  /\ At(p, j, "settle") => run[p][j].n <= ledger[j[1]]
  /\ run[p][j].at \in {"record", "settle"} => run[p][j].res \in Results

AttemptsCounted == \A p \in Pods, j \in Jobs : Counted(p, j)

\* A job that will deliver its row, or is doing so.
Undone(j) ==
  \/ \E p \in Pods : j \in toAdd[p]
  \/ job[j] = "waiting"
  \/ \E p \in Pods : Delivering(p, j)

\* Without faults a row is dispatched exactly while the job it names is
\* undone, no other job of it is, and only the holder of a job runs it.
Dispatched ==
  /\ \A e \in Events : status[e] = "dispatched" => jobOf[e] # NoJob /\ Undone(jobOf[e])
  /\ \A j \in Jobs : Undone(j) => status[j[1]] = "dispatched" /\ jobOf[j[1]] = j

HolderRuns ==
  \A j \in Jobs :
    /\ \A p \in Pods : ~At(p, j, "none") => job[j] = "active" /\ holder[j] = {p}
    /\ job[j] = "active" => \E p \in Pods : ~At(p, j, "none")

NoOrphans == \A p \in Pods : orphan[p] = NoJob

Calm == faults = 0 => NoOrphans /\ Dispatched /\ HolderRuns

\* Only a job under way is ended.
LEMMA EndRunQueue ==
  ASSUME TypeOK, HeldIsActive, NEW p \in Pods, NEW j \in Jobs, EndRun(p, j)
  PROVE  /\ \A k \in Jobs : \/ job'[k] = job[k] /\ holder'[k] = holder[k]
                            \/ job[k] = "active" /\ job'[k] = "finished" /\ holder'[k] = {}
         /\ p \notin holder'[j]
<1>1. job \in [Jobs -> {"absent", "waiting", "active", "finished"}] /\ holder \in [Jobs -> SUBSET Pods]
  BY DEF TypeOK
<1>2. CASE p \in holder[j]
  <2>1. job' = [job EXCEPT ![j] = "finished"] /\ holder' = [holder EXCEPT ![j] = {}]
    BY <1>2 DEF EndRun
  <2>2. job[j] = "active"
    BY <1>2 DEF HeldIsActive
  <2>3. job'[j] = "finished" /\ holder'[j] = {}
    BY <1>1, <2>1
  <2>4. \A k \in Jobs \ {j} : job'[k] = job[k] /\ holder'[k] = holder[k]
    BY <1>1, <2>1
  <2> QED
    BY <2>2, <2>3, <2>4
<1>3. CASE p \notin holder[j]
  <2>1. job' = job /\ holder' = holder
    BY <1>3 DEF EndRun, queue
  <2> QED
    BY <1>3, <2>1
<1> QED
  BY <1>2, <1>3

LEMMA QueueInit == Init => QueueInv /\ AttemptsCounted
  BY NoJobAssumption DEF Init, QueueInv, KnownIsMinted, AddedOnce, HeldIsActive, OrphanStaysGone,
     AttemptsCounted, Counted, At, NoRun

LEMMA KnownStep ==
  ASSUME TypeOK, QueueInv, [Next]_vars
  PROVE  KnownIsMinted'
<1> USE NoJobAssumption DEF QueueInv, Minted
<1>1. ASSUME NEW p \in Pods, NEW E \in SUBSET Events, Claim(p, E) PROVE KnownIsMinted'
  <2>1. \A e \in E : /\ NextJob(e) \in Jobs /\ NextJob(e)[1] = e
                     /\ NextJob(e)[2] = claims[e] + 1 /\ claims[e] \in Nat
    BY <1>1, NextJobParts DEF Claim, TypeOK
  <2>2. \A e \in Events : claims'[e] \in Nat /\ claims[e] \in Nat /\ claims'[e] >= claims[e]
    BY <1>1 DEF Claim, TypeOK
  <2>3. \A j \in Jobs : Minted(j) => Minted(j)'
    <3> SUFFICES ASSUME NEW j \in Jobs, j[2] <= claims[j[1]] PROVE j[2] <= claims'[j[1]]
      OBVIOUS
    <3> QED
      BY <2>2, JobParts
  <2>4. \A e \in E : jobOf'[e] = NextJob(e) /\ NextJob(e)[2] <= claims'[e]
    BY <1>1, <2>1 DEF Claim, TypeOK
  <2>5. \A e \in Events \ E : jobOf'[e] = jobOf[e]
    BY <1>1 DEF Claim, TypeOK
  <2>6. ASSUME NEW e \in Events, jobOf'[e] # NoJob
        PROVE  jobOf'[e][1] = e /\ jobOf'[e][2] <= claims'[jobOf'[e][1]]
    <3>1. CASE e \in E
      BY <2>1, <2>4, <3>1
    <3>2. CASE e \notin E
      <4>1. jobOf'[e] = jobOf[e] /\ jobOf[e] \in Jobs
        BY <2>5, <2>6, <3>2 DEF TypeOK
      <4> QED
        BY <2>3, <2>6, <4>1 DEF KnownIsMinted
    <3> QED
      BY <3>1, <3>2
  <2>7. ASSUME NEW q \in Pods, NEW j \in toAdd'[q]
        PROVE  j[2] <= claims'[j[1]]
    <3>1. CASE q = p
      <4>1. PICK e \in E : j = NextJob(e)
        BY <1>1, <3>1 DEF Claim, TypeOK
      <4> QED
        BY <2>1, <2>4, <4>1
    <3>2. CASE q # p
      <4>1. j \in toAdd[q] /\ j \in Jobs
        BY <1>1, <3>2 DEF Claim, TypeOK
      <4> QED
        BY <2>3, <4>1 DEF KnownIsMinted
    <3> QED
      BY <3>1, <3>2
  <2>8. orphan' = orphan /\ job' = job
    BY <1>1 DEF Claim, queue
  <2>9. /\ \A q \in Pods : orphan'[q] # NoJob => Minted(orphan[q])'
        /\ \A j \in Jobs : job'[j] # "absent" => Minted(j)'
    BY <2>3, <2>8 DEF KnownIsMinted, TypeOK
  <2> QED
    BY <2>6, <2>7, <2>8, <2>9 DEF KnownIsMinted
<1>2. ASSUME NEW p \in Pods, NEW j \in Jobs, Enqueue(p, j) PROVE KnownIsMinted'
  BY <1>2 DEF Enqueue, KnownIsMinted, TypeOK, database

<1>3. ASSUME NEW p \in Pods, NEW e \in Events, SweepFinds(p, e) PROVE KnownIsMinted'
  BY <1>3 DEF SweepFinds, KnownIsMinted, TypeOK, database, queue

<1>4. ASSUME NEW p \in Pods, SweepResets(p) PROVE KnownIsMinted'
  BY <1>4 DEF SweepResets, KnownIsMinted, TypeOK, queue

<1>5. ASSUME NEW p \in Pods, NEW j \in Jobs, StartRun(p, j) PROVE KnownIsMinted'
  BY <1>5 DEF StartRun, KnownIsMinted, TypeOK, database, pollers

<1>6. ASSUME NEW p \in Pods, NEW j \in Jobs, Post(p, j) PROVE KnownIsMinted'
  BY <1>6 DEF Post, KnownIsMinted, database, pollers, queue

<1>7. ASSUME NEW p \in Pods, NEW j \in Jobs, RecordDelivery(p, j) PROVE KnownIsMinted'
  BY <1>7 DEF RecordDelivery, KnownIsMinted, pollers, queue

<1>8. ASSUME NEW p \in Pods, NEW j \in Jobs, SettleRow(p, j) PROVE KnownIsMinted'
  BY <1>8 DEF SettleRow, KnownIsMinted, TypeOK, pollers, queue

<1>9. ASSUME NEW p \in Pods, NEW j \in Jobs, Return(p, j) PROVE KnownIsMinted'
  <2>1. \A k \in Jobs : job'[k] # "absent" => job[k] # "absent"
    BY <1>9, EndRunQueue DEF Return, QueueInv
  <2> QED
    BY <1>9, <2>1 DEF Return, KnownIsMinted, TypeOK, database, pollers

<1>10. ASSUME NEW p \in Pods, NEW j \in Jobs, RunThrows(p, j) PROVE KnownIsMinted'
  <2>1. \A k \in Jobs : job'[k] # "absent" => job[k] # "absent"
    BY <1>10, EndRunQueue DEF RunThrows, QueueInv
  <2> QED
    BY <1>10, <2>1 DEF RunThrows, KnownIsMinted, TypeOK, database, pollers

<1>11. ASSUME NEW p \in Pods, NEW j \in Jobs, EnqueueFails(p, j) PROVE KnownIsMinted'
  BY <1>11 DEF EnqueueFails, KnownIsMinted, TypeOK, database, queue

<1>12. ASSUME NEW p \in Pods, Crash(p) PROVE KnownIsMinted'
  BY <1>12 DEF Crash, KnownIsMinted, TypeOK, database, queue

<1>13. ASSUME NEW j \in Jobs, StallDead(j) PROVE KnownIsMinted'
  BY <1>13 DEF StallDead, Stall, KnownIsMinted, TypeOK, database, pollers

<1>14. ASSUME NEW j \in Jobs, StallLive(j) PROVE KnownIsMinted'
  BY <1>14 DEF StallLive, Stall, KnownIsMinted, TypeOK, database, pollers

<1>15. CASE UNCHANGED vars
  BY <1>15 DEF vars, KnownIsMinted, database, pollers, queue

<1> QED
  BY <1>1, <1>2, <1>3, <1>4, <1>5, <1>6, <1>7, <1>8, <1>9, <1>10, <1>11, <1>12, <1>13, <1>14,
     <1>15 DEF Next, Progress, Fault, PollerStep, WorkerStep

LEMMA QueueStep ==
  ASSUME TypeOK, QueueInv, [Next]_vars
  PROVE  QueueInv'
<1>0. KnownIsMinted'
  BY KnownStep
<1> SUFFICES (AddedOnce /\ HeldIsActive /\ OrphanStaysGone)'
  BY <1>0 DEF QueueInv
<1>1. ASSUME NEW p \in Pods, NEW E \in SUBSET Events, Claim(p, E) PROVE (AddedOnce /\ HeldIsActive /\ OrphanStaysGone)'
  <2>1. \A e \in E : /\ NextJob(e) \in Jobs /\ ~Minted(NextJob(e)) /\ NextJob(e)[1] = e
    BY <1>1, NextJobParts DEF Claim, TypeOK, Minted
  <2>2. \A e \in E : /\ job[NextJob(e)] = "absent"
                     /\ \A q \in Pods : orphan[q] # NextJob(e) /\ NextJob(e) \notin toAdd[q]
    BY <2>1, NoJobAssumption DEF KnownIsMinted, QueueInv
  <2>3. \A q \in Pods : toAdd'[q] = IF q = p THEN {NextJob(e) : e \in E} ELSE toAdd[q]
    BY <1>1 DEF Claim, TypeOK
  <2>4. job' = job /\ holder' = holder /\ orphan' = orphan
    BY <1>1 DEF Claim, queue
  <2>5. AddedOnce'
    <3> SUFFICES ASSUME NEW q \in Pods, NEW j \in toAdd'[q]
                 PROVE  job[j] = "absent" /\ \A u \in Pods : j \in toAdd'[u] => u = q
      BY <2>4 DEF AddedOnce
    <3>1. CASE j \in {NextJob(e) : e \in E}
      BY <2>2, <2>3, <3>1
    <3>2. CASE j \notin {NextJob(e) : e \in E}
      BY <2>3, <3>2 DEF AddedOnce, QueueInv
    <3> QED
      BY <3>1, <3>2
  <2>6. OrphanStaysGone'
    <3> SUFFICES ASSUME NEW q \in Pods, orphan[q] # NoJob
                 PROVE  Orphaned(orphan[q]) /\ \A u \in Pods : orphan[q] \notin toAdd'[u]
      BY <2>4 DEF OrphanStaysGone, Orphaned
    <3>1. \A e \in E : orphan[q] # NextJob(e)
      BY <2>2
    <3>2. orphan[q] \notin toAdd'[p]
      BY <2>3, <3>1
    <3>3. \A u \in Pods \ {p} : orphan[q] \notin toAdd'[u]
      BY <2>3 DEF OrphanStaysGone, QueueInv
    <3> QED
      BY <3>2, <3>3 DEF OrphanStaysGone, QueueInv
  <2> QED
    BY <2>4, <2>5, <2>6 DEF HeldIsActive, QueueInv

<1>2. ASSUME NEW p \in Pods, NEW j \in Jobs, Enqueue(p, j) PROVE (AddedOnce /\ HeldIsActive /\ OrphanStaysGone)'
  <2>1. AddedOnce'
    BY <1>2 DEF Enqueue, AddedOnce, QueueInv, TypeOK, database
  <2>2. HeldIsActive'
    BY <1>2 DEF Enqueue, AddedOnce, HeldIsActive, QueueInv, TypeOK, database
  <2>3. OrphanStaysGone'
    BY <1>2 DEF Enqueue, OrphanStaysGone, AddedOnce, QueueInv, Orphaned, TypeOK, database
  <2> QED
    BY <2>1, <2>2, <2>3

<1>3. ASSUME NEW p \in Pods, NEW e \in Events, SweepFinds(p, e) PROVE (AddedOnce /\ HeldIsActive /\ OrphanStaysGone)'
  <2>1. AddedOnce'
    BY <1>3 DEF SweepFinds, AddedOnce, QueueInv, TypeOK, database, queue
  <2>2. HeldIsActive'
    BY <1>3 DEF SweepFinds, AddedOnce, HeldIsActive, QueueInv, TypeOK, database, queue
  <2>3. OrphanStaysGone'
    BY <1>3 DEF SweepFinds, OrphanStaysGone, AddedOnce, QueueInv, Orphaned, TypeOK, database, queue
  <2> QED
    BY <2>1, <2>2, <2>3

<1>4. ASSUME NEW p \in Pods, SweepResets(p) PROVE (AddedOnce /\ HeldIsActive /\ OrphanStaysGone)'
  <2>1. AddedOnce'
    BY <1>4 DEF SweepResets, AddedOnce, QueueInv, TypeOK, queue
  <2>2. HeldIsActive'
    BY <1>4 DEF SweepResets, AddedOnce, HeldIsActive, QueueInv, TypeOK, queue
  <2>3. OrphanStaysGone'
    BY <1>4 DEF SweepResets, OrphanStaysGone, AddedOnce, QueueInv, Orphaned, TypeOK, queue
  <2> QED
    BY <2>1, <2>2, <2>3

<1>5. ASSUME NEW p \in Pods, NEW j \in Jobs, StartRun(p, j) PROVE (AddedOnce /\ HeldIsActive /\ OrphanStaysGone)'
  <2>1. AddedOnce'
    BY <1>5 DEF StartRun, AddedOnce, QueueInv, TypeOK, database, pollers
  <2>2. HeldIsActive'
    BY <1>5 DEF StartRun, AddedOnce, HeldIsActive, QueueInv, TypeOK, database, pollers
  <2>3. OrphanStaysGone'
    BY <1>5 DEF StartRun, OrphanStaysGone, AddedOnce, QueueInv, Orphaned, TypeOK, database, pollers
  <2> QED
    BY <2>1, <2>2, <2>3

<1>6. ASSUME NEW p \in Pods, NEW j \in Jobs, Post(p, j) PROVE (AddedOnce /\ HeldIsActive /\ OrphanStaysGone)'
  BY <1>6 DEF Post, QueueInv, AddedOnce, HeldIsActive, OrphanStaysGone, Orphaned, database, pollers, queue

<1>7. ASSUME NEW p \in Pods, NEW j \in Jobs, RecordDelivery(p, j) PROVE (AddedOnce /\ HeldIsActive /\ OrphanStaysGone)'
  BY <1>7 DEF RecordDelivery, QueueInv, AddedOnce, HeldIsActive, OrphanStaysGone, Orphaned, pollers, queue

<1>8. ASSUME NEW p \in Pods, NEW j \in Jobs, SettleRow(p, j) PROVE (AddedOnce /\ HeldIsActive /\ OrphanStaysGone)'
  BY <1>8 DEF SettleRow, QueueInv, AddedOnce, HeldIsActive, OrphanStaysGone, Orphaned, pollers, queue

<1>9. ASSUME NEW p \in Pods, NEW j \in Jobs, Return(p, j) PROVE (AddedOnce /\ HeldIsActive /\ OrphanStaysGone)'
  <2>1. \A k \in Jobs : \/ job'[k] = job[k] /\ holder'[k] = holder[k]
                        \/ job[k] = "active" /\ job'[k] = "finished" /\ holder'[k] = {}
    BY <1>9, EndRunQueue DEF Return, QueueInv
  <2>2. toAdd' = toAdd /\ orphan' = orphan
    BY <1>9 DEF Return, pollers
  <2>3. AddedOnce'
    BY <2>1, <2>2 DEF AddedOnce, QueueInv, TypeOK
  <2>4. HeldIsActive'
    BY <2>1 DEF HeldIsActive, QueueInv
  <2>5. OrphanStaysGone'
    BY <2>1, <2>2 DEF OrphanStaysGone, QueueInv, Orphaned, TypeOK
  <2> QED
    BY <2>3, <2>4, <2>5

<1>10. ASSUME NEW p \in Pods, NEW j \in Jobs, RunThrows(p, j) PROVE (AddedOnce /\ HeldIsActive /\ OrphanStaysGone)'
  <2>1. \A k \in Jobs : \/ job'[k] = job[k] /\ holder'[k] = holder[k]
                        \/ job[k] = "active" /\ job'[k] = "finished" /\ holder'[k] = {}
    BY <1>10, EndRunQueue DEF RunThrows, QueueInv
  <2>2. toAdd' = toAdd /\ orphan' = orphan
    BY <1>10 DEF RunThrows, pollers
  <2>3. AddedOnce'
    BY <2>1, <2>2 DEF AddedOnce, QueueInv, TypeOK
  <2>4. HeldIsActive'
    BY <2>1 DEF HeldIsActive, QueueInv
  <2>5. OrphanStaysGone'
    BY <2>1, <2>2 DEF OrphanStaysGone, QueueInv, Orphaned, TypeOK
  <2> QED
    BY <2>3, <2>4, <2>5

<1>11. ASSUME NEW p \in Pods, NEW j \in Jobs, EnqueueFails(p, j) PROVE (AddedOnce /\ HeldIsActive /\ OrphanStaysGone)'
  <2>1. AddedOnce'
    BY <1>11 DEF EnqueueFails, AddedOnce, QueueInv, TypeOK, database, queue
  <2>2. HeldIsActive'
    BY <1>11 DEF EnqueueFails, AddedOnce, HeldIsActive, QueueInv, TypeOK, database, queue
  <2>3. OrphanStaysGone'
    BY <1>11 DEF EnqueueFails, OrphanStaysGone, AddedOnce, QueueInv, Orphaned, TypeOK, database, queue
  <2> QED
    BY <2>1, <2>2, <2>3

<1>12. ASSUME NEW p \in Pods, Crash(p) PROVE (AddedOnce /\ HeldIsActive /\ OrphanStaysGone)'
  <2>1. AddedOnce'
    BY <1>12 DEF Crash, AddedOnce, QueueInv, TypeOK, database, queue
  <2>2. HeldIsActive'
    BY <1>12 DEF Crash, AddedOnce, HeldIsActive, QueueInv, TypeOK, database, queue
  <2>3. OrphanStaysGone'
    BY <1>12 DEF Crash, OrphanStaysGone, AddedOnce, QueueInv, Orphaned, TypeOK, database, queue
  <2> QED
    BY <2>1, <2>2, <2>3

<1>13. ASSUME NEW j \in Jobs, StallDead(j) PROVE (AddedOnce /\ HeldIsActive /\ OrphanStaysGone)'
  <2>1. AddedOnce'
    BY <1>13 DEF StallDead, AddedOnce, QueueInv, TypeOK, Stall, database, pollers
  <2>2. HeldIsActive'
    BY <1>13 DEF StallDead, AddedOnce, HeldIsActive, QueueInv, TypeOK, Stall, database, pollers
  <2>3. OrphanStaysGone'
    BY <1>13 DEF StallDead, OrphanStaysGone, AddedOnce, QueueInv, Orphaned, TypeOK, Stall, database, pollers
  <2> QED
    BY <2>1, <2>2, <2>3

<1>14. ASSUME NEW j \in Jobs, StallLive(j) PROVE (AddedOnce /\ HeldIsActive /\ OrphanStaysGone)'
  <2>1. AddedOnce'
    BY <1>14 DEF StallLive, AddedOnce, QueueInv, TypeOK, Stall, database, pollers
  <2>2. HeldIsActive'
    BY <1>14 DEF StallLive, AddedOnce, HeldIsActive, QueueInv, TypeOK, Stall, database, pollers
  <2>3. OrphanStaysGone'
    BY <1>14 DEF StallLive, OrphanStaysGone, AddedOnce, QueueInv, Orphaned, TypeOK, Stall, database, pollers
  <2> QED
    BY <2>1, <2>2, <2>3

<1>15. CASE UNCHANGED vars
  BY <1>15 DEF vars, QueueInv, AddedOnce, HeldIsActive, OrphanStaysGone, Orphaned, database, pollers, queue

<1> QED
  BY <1>1, <1>2, <1>3, <1>4, <1>5, <1>6, <1>7, <1>8, <1>9, <1>10, <1>11, <1>12, <1>13, <1>14,
     <1>15 DEF Next, Progress, Fault, PollerStep, WorkerStep

LEMMA AttemptsStep ==
  ASSUME TypeOK, AttemptsCounted, [Next]_vars
  PROVE  AttemptsCounted'
<1>1. ASSUME NEW p \in Pods, NEW E \in SUBSET Events, Claim(p, E) PROVE AttemptsCounted'
  BY <1>1 DEF Claim, AttemptsCounted, Counted, At, queue
<1>2. ASSUME NEW p \in Pods, NEW j \in Jobs, Enqueue(p, j) PROVE AttemptsCounted'
  BY <1>2 DEF Enqueue, AttemptsCounted, Counted, At, database
<1>3. ASSUME NEW p \in Pods, NEW e \in Events, SweepFinds(p, e) PROVE AttemptsCounted'
  BY <1>3 DEF SweepFinds, AttemptsCounted, Counted, At, database, queue
<1>4. ASSUME NEW p \in Pods, SweepResets(p) PROVE AttemptsCounted'
  BY <1>4 DEF SweepResets, AttemptsCounted, Counted, At, queue
<1>5. ASSUME NEW p \in Pods, NEW j \in Jobs, StartRun(p, j) PROVE AttemptsCounted'
  <2> DEFINE r == [at |-> "post", n |-> ledger[j[1]] + 1, res |-> "none"]
  <2>1. /\ r \in Runs
        /\ run' = [run EXCEPT ![p][j] = r]
        /\ r.at = "post" /\ r.n <= ledger[j[1]] + 1
    BY <1>5, JobParts DEF StartRun, TypeOK, Runs, Points
  <2>2. ledger' = ledger
    BY <1>5 DEF StartRun, database
  <2> HIDE DEF r
  <2>3. /\ run'[p][j] = r
        /\ \A q \in Pods, k \in Jobs : <<q, k>> # <<p, j>> => run'[q][k] = run[q][k]
    BY <2>1, RunsType
  <2>4. Counted(p, j)'
    BY <2>1, <2>2, <2>3 DEF Counted, At
  <2>5. ASSUME NEW q \in Pods, NEW k \in Jobs, <<q, k>> # <<p, j>>
        PROVE  Counted(q, k)'
    BY <2>2, <2>3, <2>5 DEF AttemptsCounted, Counted, At
  <2> QED
    BY <2>4, <2>5 DEF AttemptsCounted
<1>6. ASSUME NEW p \in Pods, NEW j \in Jobs, Post(p, j) PROVE AttemptsCounted'
  <2>1. PICK r \in Runs : /\ run' = [run EXCEPT ![p][j] = r]
                          /\ r.at = "record" /\ r.n = run[p][j].n /\ r.res \in Results
    BY <1>6, PostType
  <2>3. /\ run'[p][j] = r
        /\ \A q \in Pods, k \in Jobs : <<q, k>> # <<p, j>> => run'[q][k] = run[q][k]
    <3>1. r \in Runs /\ run' = [run EXCEPT ![p][j] = r]
      BY <2>1
    <3> QED
      BY <3>1, RunsType
  <2>4. ledger' = ledger /\ run[p][j].at = "post"
    BY <1>6 DEF Post, database, At
  <2>5. Counted(p, j)'
    BY <2>1, <2>3, <2>4 DEF AttemptsCounted, Counted, At
  <2>6. ASSUME NEW q \in Pods, NEW k \in Jobs, <<q, k>> # <<p, j>>
        PROVE  Counted(q, k)'
    BY <2>3, <2>4, <2>6 DEF AttemptsCounted, Counted, At
  <2> QED
    BY <2>5, <2>6 DEF AttemptsCounted
<1>7. ASSUME NEW p \in Pods, NEW j \in Jobs, RecordDelivery(p, j) PROVE AttemptsCounted'
  <2>1. /\ run'[p][j] = [run[p][j] EXCEPT !.at = "settle"]
        /\ \A q \in Pods, k \in Jobs : <<q, k>> # <<p, j>> => run'[q][k] = run[q][k]
    BY <1>7, GotoType DEF RecordDelivery, Points
  <2>2. /\ \A e \in Events : ledger[e] \in Nat /\ ledger'[e] \in Nat /\ ledger'[e] >= ledger[e]
        /\ ledger'[j[1]] = ledger[j[1]] + 1
    BY <1>7, JobParts DEF RecordDelivery, TypeOK
  <2>3. \A q \in Pods, k \in Jobs : run[q][k].n \in Nat
    BY RunsType DEF Runs
  <2>4. run[p][j].at = "record" /\ run[p][j].res \in Results
    BY <1>7 DEF RecordDelivery, AttemptsCounted, Counted, At
  <2>5. Counted(p, j)'
    <3>1. run'[p][j].at = "settle" /\ run'[p][j].n = run[p][j].n /\ run'[p][j].res = run[p][j].res
      BY <2>1, RunsType DEF Runs
    <3> QED
      BY <2>2, <2>3, <2>4, <3>1, JobParts DEF AttemptsCounted, Counted, At
  <2>6. ASSUME NEW q \in Pods, NEW k \in Jobs, <<q, k>> # <<p, j>>
        PROVE  Counted(q, k)'
    BY <2>1, <2>2, <2>3, <2>6, JobParts DEF AttemptsCounted, Counted, At
  <2> QED
    BY <2>5, <2>6 DEF AttemptsCounted
<1>8. ASSUME NEW p \in Pods, NEW j \in Jobs, SettleRow(p, j) PROVE AttemptsCounted'
  <2>1. /\ run'[p][j] = [run[p][j] EXCEPT !.at = "return"]
        /\ \A q \in Pods, k \in Jobs : <<q, k>> # <<p, j>> => run'[q][k] = run[q][k]
    BY <1>8, GotoType DEF SettleRow, Points
  <2>2. run'[p][j].at = "return" /\ ledger' = ledger
    BY <1>8, <2>1, RunsType DEF SettleRow, Runs
  <2>3. Counted(p, j)'
    BY <2>2 DEF Counted, At
  <2>4. ASSUME NEW q \in Pods, NEW k \in Jobs, <<q, k>> # <<p, j>>
        PROVE  Counted(q, k)'
    BY <2>1, <2>2, <2>4 DEF AttemptsCounted, Counted, At
  <2> QED
    BY <2>3, <2>4 DEF AttemptsCounted
<1>9. ASSUME NEW p \in Pods, NEW j \in Jobs, Return(p, j) PROVE AttemptsCounted'
  <2>1. /\ run'[p][j] = NoRun /\ ledger' = ledger
        /\ \A q \in Pods, k \in Jobs : <<q, k>> # <<p, j>> => run'[q][k] = run[q][k]
    BY <1>9, EndRunType DEF Return, database
  <2> QED
    BY <2>1 DEF AttemptsCounted, Counted, At, NoRun
<1>10. ASSUME NEW p \in Pods, NEW j \in Jobs, RunThrows(p, j) PROVE AttemptsCounted'
  <2>1. /\ run'[p][j] = NoRun /\ ledger' = ledger
        /\ \A q \in Pods, k \in Jobs : <<q, k>> # <<p, j>> => run'[q][k] = run[q][k]
    BY <1>10, EndRunType DEF RunThrows, database
  <2> QED
    BY <2>1 DEF AttemptsCounted, Counted, At, NoRun
<1>11. ASSUME NEW p \in Pods, NEW j \in Jobs, EnqueueFails(p, j) PROVE AttemptsCounted'
  BY <1>11 DEF EnqueueFails, AttemptsCounted, Counted, At, database, queue
<1>12. ASSUME NEW p \in Pods, Crash(p) PROVE AttemptsCounted'
  BY <1>12 DEF Crash, AttemptsCounted, Counted, At, NoRun, TypeOK, database
<1>13. ASSUME NEW j \in Jobs, StallDead(j) PROVE AttemptsCounted'
  BY <1>13 DEF StallDead, AttemptsCounted, Counted, At, database, pollers
<1>14. ASSUME NEW j \in Jobs, StallLive(j) PROVE AttemptsCounted'
  BY <1>14 DEF StallLive, AttemptsCounted, Counted, At, database, pollers
<1>15. CASE UNCHANGED vars
  BY <1>15 DEF vars, AttemptsCounted, Counted, At, database
<1> QED
  BY <1>1, <1>2, <1>3, <1>4, <1>5, <1>6, <1>7, <1>8, <1>9, <1>10, <1>11, <1>12, <1>13, <1>14,
     <1>15 DEF Next, Progress, Fault, PollerStep, WorkerStep

-----------------------------------------------------------------------------
(* Without faults                                                          *)

LEMMA CalmInit == Init => Calm
  BY DEF Init, Calm, NoOrphans, Dispatched, HolderRuns, Undone, Delivering, At, NoRun

LEMMA DispatchedKept ==
  ASSUME TypeOK, Dispatched, status' = status, jobOf' = jobOf,
         \A k \in Jobs : Undone(k)' <=> Undone(k)
  PROVE  Dispatched'
<1>1. \A e \in Events : jobOf[e] # NoJob => jobOf[e] \in Jobs
  BY DEF TypeOK
<1>2. ASSUME NEW e \in Events, status[e] = "dispatched"
      PROVE  jobOf[e] # NoJob /\ Undone(jobOf[e])'
  <2>1. jobOf[e] # NoJob /\ jobOf[e] \in Jobs /\ Undone(jobOf[e])
    BY <1>1, <1>2 DEF Dispatched
  <2> QED
    BY <2>1
<1>3. \A j \in Jobs : Undone(j)' => status[j[1]] = "dispatched" /\ jobOf[j[1]] = j
  BY DEF Dispatched
<1> QED
  BY <1>2, <1>3 DEF Dispatched

\* A run that goes on is under way before and after.
LEMMA RunGoesOn ==
  ASSUME TypeOK, NoOrphans, Dispatched, HolderRuns,
         status' = status, jobOf' = jobOf, UNCHANGED <<pollers, queue>>,
         NEW p \in Pods, NEW j \in Jobs, Delivering(p, j), Delivering(p, j)',
         \A q \in Pods, k \in Jobs : <<q, k>> # <<p, j>> => run'[q][k] = run[q][k]
  PROVE  (NoOrphans /\ Dispatched /\ HolderRuns)'
<1>1. toAdd' = toAdd /\ orphan' = orphan /\ job' = job /\ holder' = holder
  BY DEF pollers, queue
<1>2. \A q \in Pods, k \in Jobs : (Delivering(q, k)' <=> Delivering(q, k)) /\ (At(q, k, "none")' <=> At(q, k, "none"))
  BY DEF Delivering, At
<1>3. \A k \in Jobs : Undone(k)' <=> Undone(k)
  BY <1>1, <1>2 DEF Undone
<1>4. Dispatched'
  BY <1>3, DispatchedKept
<1>5. HolderRuns'
  BY <1>1, <1>2 DEF HolderRuns
<1>6. NoOrphans'
  BY <1>1 DEF NoOrphans
<1> QED
  BY <1>4, <1>5, <1>6

LEMMA CalmStep ==
  ASSUME TypeOK, QueueInv, Calm, [Next]_vars
  PROVE  Calm'
<1> SUFFICES ASSUME faults' = 0
             PROVE  (NoOrphans /\ Dispatched /\ HolderRuns)'
  BY DEF Calm
<1>a. faults \in Nat
  BY BoundAssumption DEF TypeOK
<1>b. faults = 0 => NoOrphans /\ Dispatched /\ HolderRuns
  BY DEF Calm
<1>1. ASSUME NEW p \in Pods, NEW E \in SUBSET Events, Claim(p, E) PROVE (NoOrphans /\ Dispatched /\ HolderRuns)'
  <2>1. NoOrphans /\ Dispatched /\ HolderRuns
    BY <1>1, <1>b DEF Claim
  <2>2. \A e \in E : /\ NextJob(e) \in Jobs /\ NextJob(e) # NoJob
                     /\ NextJob(e)[1] = e /\ status[e] = "pending"
    BY <1>1, NextJobParts DEF Claim
  <2> DEFINE new == {NextJob(e) : e \in E}
  <2>3. /\ toAdd' = [toAdd EXCEPT ![p] = new]
        /\ toAdd[p] = {}
        /\ orphan' = orphan /\ job' = job /\ holder' = holder /\ run' = run
    BY <1>1 DEF Claim, Polling, queue
  <2>4. \A e \in Events : /\ status'[e] = IF e \in E THEN "dispatched" ELSE status[e]
                          /\ jobOf'[e] = IF e \in E THEN NextJob(e) ELSE jobOf[e]
    BY <1>1 DEF Claim
  <2>5. toAdd \in [Pods -> SUBSET Jobs]
    BY DEF TypeOK
  <2> HIDE DEF new
  <2>6. \A k \in Jobs : Undone(k)' <=> Undone(k) \/ k \in new
    BY <2>3, <2>5 DEF Undone, Delivering
  <2>7. \A k \in Jobs : Undone(k) => k[1] \notin E
    BY <2>1, <2>2 DEF Dispatched
  <2>8. ASSUME NEW e \in Events, status'[e] = "dispatched"
        PROVE  jobOf'[e] # NoJob /\ Undone(jobOf[e])'
    <3>1. CASE e \in E
      <4>1. jobOf'[e] = NextJob(e) /\ NextJob(e) \in new
        BY <2>4, <3>1 DEF new
      <4> QED
        BY <2>2, <2>6, <3>1, <4>1
    <3>2. CASE e \notin E
      <4>1. jobOf'[e] = jobOf[e] /\ jobOf[e] # NoJob /\ Undone(jobOf[e])
        BY <2>1, <2>4, <2>8, <3>2 DEF Dispatched
      <4> QED
        BY <2>6, <4>1 DEF TypeOK
    <3> QED
      BY <3>1, <3>2
  <2>9. ASSUME NEW k \in Jobs, Undone(k)'
        PROVE  status'[k[1]] = "dispatched" /\ jobOf'[k[1]] = k
    <3>1. CASE k \in new
      <4>1. PICK e \in E : k = NextJob(e)
        BY <3>1 DEF new
      <4> QED
        BY <2>2, <2>4, <4>1
    <3>2. CASE k \notin new
      <4>1. Undone(k)
        BY <2>6, <2>9, <3>2
      <4> QED
        BY <2>1, <2>4, <2>7, <4>1, JobParts DEF Dispatched
    <3> QED
      BY <3>1, <3>2
  <2>10. Dispatched'
    BY <2>8, <2>9 DEF Dispatched
  <2> QED
    BY <2>1, <2>3, <2>10 DEF NoOrphans, HolderRuns, At
<1>2. ASSUME NEW p \in Pods, NEW j \in Jobs, Enqueue(p, j) PROVE (NoOrphans /\ Dispatched /\ HolderRuns)'
  <2>1. NoOrphans /\ Dispatched /\ HolderRuns
    BY <1>2, <1>b DEF Enqueue
  <2>2. /\ j \in toAdd[p] /\ toAdd' = [toAdd EXCEPT ![p] = toAdd[p] \ {j}]
        /\ job' = [job EXCEPT ![j] = "waiting"]
        /\ status' = status /\ jobOf' = jobOf /\ orphan' = orphan /\ holder' = holder /\ run' = run
    BY <1>2 DEF Enqueue, database
  <2>3. job \in [Jobs -> {"absent", "waiting", "active", "finished"}] /\ toAdd \in [Pods -> SUBSET Jobs]
    BY DEF TypeOK
  <2>4. job[j] = "absent"
    BY <2>2 DEF QueueInv, AddedOnce
  <2>5. \A k \in Jobs \ {j} : Undone(k)' <=> Undone(k)
    BY <2>2, <2>3 DEF Undone, Delivering
  <2>6. Undone(j)' /\ Undone(j)
    BY <2>2, <2>3 DEF Undone
  <2>7. Dispatched'
    BY <2>1, <2>2, <2>5, <2>6, DispatchedKept
  <2> QED
    BY <2>1, <2>2, <2>3, <2>4, <2>7 DEF NoOrphans, HolderRuns, At
<1>3. ASSUME NEW p \in Pods, NEW e \in Events, SweepFinds(p, e) PROVE (NoOrphans /\ Dispatched /\ HolderRuns)'
  <2>1. NoOrphans /\ Dispatched /\ HolderRuns
    BY <1>3, <1>b DEF SweepFinds
  <2>2. jobOf[e] \in Jobs /\ Undone(jobOf[e])
    BY <1>3, <2>1 DEF SweepFinds, Dispatched, TypeOK
  <2>3. job[jobOf[e]] = "waiting" \/ \E q \in Pods : ~At(q, jobOf[e], "none")
    BY <1>3, <2>2 DEF SweepFinds, Undone, Delivering, At
  <2>4. job[jobOf[e]] \in {"waiting", "active"}
    BY <2>1, <2>2, <2>3 DEF HolderRuns
  <2> QED
    BY <1>3, <2>4 DEF SweepFinds, Orphaned
<1>4. ASSUME NEW p \in Pods, SweepResets(p) PROVE (NoOrphans /\ Dispatched /\ HolderRuns)'
  <2>1. faults = 0
    BY <1>4 DEF SweepResets
  <2> QED
    BY <1>4, <2>1, <1>b DEF SweepResets, NoOrphans
<1>5. ASSUME NEW p \in Pods, NEW j \in Jobs, StartRun(p, j) PROVE (NoOrphans /\ Dispatched /\ HolderRuns)'
  <2>1. NoOrphans /\ Dispatched /\ HolderRuns
    BY <1>5, <1>b DEF StartRun
  <2> DEFINE r == [at |-> "post", n |-> ledger[j[1]] + 1, res |-> "none"]
  <2>2. /\ r \in Runs
        /\ run' = [run EXCEPT ![p][j] = r]
        /\ r.at = "post"
    BY <1>5, JobParts DEF StartRun, TypeOK, Runs, Points
  <2> HIDE DEF r
  <2>3. /\ run'[p][j] = r
        /\ \A q \in Pods, k \in Jobs : <<q, k>> # <<p, j>> => run'[q][k] = run[q][k]
    <3>1. r \in Runs /\ run' = [run EXCEPT ![p][j] = r]
      BY <2>2
    <3> QED
      BY <3>1, RunsType
  <2>4. /\ job[j] = "waiting" /\ job' = [job EXCEPT ![j] = "active"]
        /\ holder' = [holder EXCEPT ![j] = {p}]
        /\ status' = status /\ jobOf' = jobOf /\ orphan' = orphan /\ toAdd' = toAdd
    BY <1>5 DEF StartRun, database, pollers
  <2>5. job \in [Jobs -> {"absent", "waiting", "active", "finished"}] /\ holder \in [Jobs -> SUBSET Pods]
    BY DEF TypeOK
  <2>6. \A k \in Jobs \ {j} : Undone(k)' <=> Undone(k)
    BY <2>3, <2>4, <2>5 DEF Undone, Delivering
  <2>7. Undone(j)' /\ Undone(j)
    BY <2>2, <2>3, <2>4 DEF Undone, Delivering
  <2>8. Dispatched'
    BY <2>1, <2>4, <2>6, <2>7, DispatchedKept
  <2>9. /\ job'[j] = "active" /\ holder'[j] = {p} /\ ~At(p, j, "none")'
        /\ \A q \in Pods : ~At(q, j, "none")' => q = p
    BY <2>1, <2>2, <2>3, <2>4, <2>5 DEF HolderRuns, At
  <2>10. \A k \in Jobs \ {j} : /\ job'[k] = job[k] /\ holder'[k] = holder[k]
                               /\ \A q \in Pods : At(q, k, "none")' <=> At(q, k, "none")
    BY <2>3, <2>4, <2>5 DEF At
  <2> QED
    BY <2>1, <2>4, <2>8, <2>9, <2>10 DEF NoOrphans, HolderRuns
<1>6. ASSUME NEW p \in Pods, NEW j \in Jobs, Post(p, j) PROVE (NoOrphans /\ Dispatched /\ HolderRuns)'
  <2>1. NoOrphans /\ Dispatched /\ HolderRuns
    BY <1>6, <1>b DEF Post
  <2>2. PICK r \in Runs : /\ run' = [run EXCEPT ![p][j] = r]
                          /\ r.at = "record" /\ r.n = run[p][j].n /\ r.res \in Results
    BY <1>6, PostType
  <2>3. r \in Runs /\ run' = [run EXCEPT ![p][j] = r]
    BY <2>2
  <2>4. /\ run'[p][j] = r
        /\ \A q \in Pods, k \in Jobs : <<q, k>> # <<p, j>> => run'[q][k] = run[q][k]
    BY <2>3, RunsType
  <2>5. Delivering(p, j) /\ Delivering(p, j)'
    BY <1>6, <2>2, <2>4 DEF Post, Delivering, At
  <2>6. status' = status /\ jobOf' = jobOf /\ UNCHANGED <<pollers, queue>>
    BY <1>6 DEF Post, database
  <2> QED
    BY <2>1, <2>4, <2>5, <2>6, RunGoesOn
<1>7. ASSUME NEW p \in Pods, NEW j \in Jobs, RecordDelivery(p, j) PROVE (NoOrphans /\ Dispatched /\ HolderRuns)'
  <2>1. NoOrphans /\ Dispatched /\ HolderRuns
    BY <1>7, <1>b DEF RecordDelivery
  <2>2. /\ run'[p][j] = [run[p][j] EXCEPT !.at = "settle"]
        /\ \A q \in Pods, k \in Jobs : <<q, k>> # <<p, j>> => run'[q][k] = run[q][k]
    BY <1>7, GotoType DEF RecordDelivery, Points
  <2>3. Delivering(p, j) /\ Delivering(p, j)'
    BY <1>7, <2>2, RunsType DEF RecordDelivery, Delivering, At, Runs
  <2>4. status' = status /\ jobOf' = jobOf /\ UNCHANGED <<pollers, queue>>
    BY <1>7 DEF RecordDelivery
  <2> QED
    BY <2>1, <2>2, <2>3, <2>4, RunGoesOn
<1>8. ASSUME NEW p \in Pods, NEW j \in Jobs, SettleRow(p, j) PROVE (NoOrphans /\ Dispatched /\ HolderRuns)'
  <2>1. NoOrphans /\ Dispatched /\ HolderRuns
    BY <1>8, <1>b DEF SettleRow
  <2>2. /\ run'[p][j] = [run[p][j] EXCEPT !.at = "return"]
        /\ \A q \in Pods, k \in Jobs : <<q, k>> # <<p, j>> => run'[q][k] = run[q][k]
    BY <1>8, GotoType DEF SettleRow, Points
  <2>3. run'[p][j].at = "return" /\ run[p][j].at = "settle"
    BY <1>8, <2>2, RunsType DEF SettleRow, At, Runs
  <2>4. /\ toAdd' = toAdd /\ orphan' = orphan /\ job' = job /\ holder' = holder
        /\ status'[j[1]] # "dispatched"
        /\ \A e \in Events \ {j[1]} : status'[e] = status[e] /\ jobOf'[e] = jobOf[e]
    BY <1>8, JobParts DEF SettleRow, pollers, queue, TypeOK
  <2>5. \A q \in Pods, k \in Jobs : At(q, k, "none")' <=> At(q, k, "none")
    BY <2>2, <2>3 DEF At
  <2>6. \A k \in Jobs \ {j} : Undone(k)' <=> Undone(k)
    BY <2>2, <2>4 DEF Undone, Delivering
  <2>7. Undone(j) /\ jobOf[j[1]] = j
    BY <2>1, <2>3 DEF Undone, Delivering, Dispatched
  <2>8. job[j] = "active" /\ \A q \in Pods : ~At(q, j, "none") => q = p
    BY <2>1, <2>3 DEF HolderRuns, At
  <2>9. ~Undone(j)'
    BY <2>2, <2>3, <2>4, <2>8 DEF Undone, Delivering, At, QueueInv, AddedOnce
  <2>10. ASSUME NEW e \in Events, status'[e] = "dispatched"
         PROVE  jobOf'[e] # NoJob /\ Undone(jobOf[e])'
    <3>1. e # j[1] /\ jobOf'[e] = jobOf[e] /\ status[e] = "dispatched"
      BY <2>4, <2>10
    <3>2. jobOf[e] # NoJob /\ jobOf[e] \in Jobs /\ Undone(jobOf[e])
      BY <2>1, <3>1 DEF Dispatched, TypeOK
    <3>3. jobOf[e] # j
      BY <2>1, <3>1, <3>2 DEF Dispatched, QueueInv, KnownIsMinted
    <3> QED
      BY <2>6, <3>1, <3>2, <3>3
  <2>11. ASSUME NEW k \in Jobs, Undone(k)'
         PROVE  status'[k[1]] = "dispatched" /\ jobOf'[k[1]] = k
    <3>1. k # j /\ Undone(k)
      BY <2>6, <2>9, <2>11
    <3>2. status[k[1]] = "dispatched" /\ jobOf[k[1]] = k
      BY <2>1, <3>1 DEF Dispatched
    <3>3. k[1] # j[1] /\ k[1] \in Events
      BY <2>7, <3>1, <3>2, JobParts
    <3> QED
      BY <2>4, <3>2, <3>3
  <2>12. Dispatched'
    BY <2>10, <2>11 DEF Dispatched
  <2>13. HolderRuns'
    BY <2>1, <2>4, <2>5 DEF HolderRuns
  <2> QED
    BY <2>1, <2>4, <2>12, <2>13 DEF NoOrphans
<1>9. ASSUME NEW p \in Pods, NEW j \in Jobs, Return(p, j) PROVE (NoOrphans /\ Dispatched /\ HolderRuns)'
  <2>1. NoOrphans /\ Dispatched /\ HolderRuns
    BY <1>9, <1>b DEF Return
  <2>2. /\ run'[p][j] = NoRun
        /\ \A q \in Pods, k \in Jobs : <<q, k>> # <<p, j>> => run'[q][k] = run[q][k]
    BY <1>9, EndRunType DEF Return
  <2>3. run[p][j].at = "return"
    BY <1>9 DEF Return, At
  <2>4. /\ job[j] = "active" /\ holder[j] = {p}
        /\ \A q \in Pods : ~At(q, j, "none") => q = p
    BY <2>1, <2>3 DEF HolderRuns, At
  <2>5. job' = [job EXCEPT ![j] = "finished"] /\ holder' = [holder EXCEPT ![j] = {}]
    BY <1>9, <2>4 DEF Return, EndRun
  <2>6. job \in [Jobs -> {"absent", "waiting", "active", "finished"}] /\ holder \in [Jobs -> SUBSET Pods]
    BY DEF TypeOK
  <2>7. status' = status /\ jobOf' = jobOf /\ toAdd' = toAdd /\ orphan' = orphan
    BY <1>9 DEF Return, database, pollers
  <2>8. \A k \in Jobs \ {j} : /\ job'[k] = job[k] /\ holder'[k] = holder[k]
                              /\ \A q \in Pods : run'[q][k] = run[q][k]
    BY <2>2, <2>5, <2>6
  <2>9. job'[j] = "finished" /\ \A q \in Pods : At(q, j, "none")'
    BY <2>2, <2>4, <2>5, <2>6 DEF At, NoRun
  <2>10. \A k \in Jobs \ {j} : Undone(k)' <=> Undone(k)
    BY <2>7, <2>8 DEF Undone, Delivering
  <2>11. ~Undone(j)
    BY <2>3, <2>4 DEF Undone, Delivering, At, QueueInv, AddedOnce
  <2>12. ~Undone(j)'
    BY <2>4, <2>7, <2>9 DEF Undone, Delivering, At, QueueInv, AddedOnce
  <2>13. Dispatched'
    BY <2>1, <2>7, <2>10, <2>11, <2>12, DispatchedKept
  <2>14. HolderRuns'
    BY <2>1, <2>8, <2>9 DEF HolderRuns, At
  <2> QED
    BY <2>1, <2>7, <2>13, <2>14 DEF NoOrphans
<1>10. ASSUME NEW p \in Pods, NEW j \in Jobs, RunThrows(p, j) PROVE (NoOrphans /\ Dispatched /\ HolderRuns)'
  BY <1>10, <1>a DEF RunThrows
<1>11. ASSUME NEW p \in Pods, NEW j \in Jobs, EnqueueFails(p, j) PROVE (NoOrphans /\ Dispatched /\ HolderRuns)'
  BY <1>11, <1>a DEF EnqueueFails
<1>12. ASSUME NEW p \in Pods, Crash(p) PROVE (NoOrphans /\ Dispatched /\ HolderRuns)'
  BY <1>12, <1>a DEF Crash
<1>13. ASSUME NEW j \in Jobs, StallDead(j) PROVE (NoOrphans /\ Dispatched /\ HolderRuns)'
  <2>1. NoOrphans /\ Dispatched /\ HolderRuns
    BY <1>13, <1>b DEF StallDead
  <2>2. PICK q \in Pods : ~At(q, j, "none") /\ holder[j] = {q}
    BY <1>13, <2>1 DEF StallDead, Stall, HolderRuns
  <2> QED
    BY <1>13, <2>2 DEF StallDead
<1>14. ASSUME NEW j \in Jobs, StallLive(j) PROVE (NoOrphans /\ Dispatched /\ HolderRuns)'
  BY <1>14, <1>a DEF StallLive
<1>15. CASE UNCHANGED vars
  <2>1. NoOrphans /\ Dispatched /\ HolderRuns
    BY <1>15, <1>b DEF vars
  <2>2. \A k \in Jobs : Undone(k)' <=> Undone(k)
    BY <1>15 DEF vars, pollers, queue, Undone, Delivering
  <2>3. Dispatched'
    BY <1>15, <2>1, <2>2, DispatchedKept DEF vars, database
  <2> QED
    BY <1>15, <2>1, <2>3 DEF vars, pollers, queue, NoOrphans, HolderRuns, At
<1> QED
  BY <1>1, <1>2, <1>3, <1>4, <1>5, <1>6, <1>7, <1>8, <1>9, <1>10, <1>11, <1>12, <1>13, <1>14,
     <1>15 DEF Next, Progress, Fault, PollerStep, WorkerStep

-----------------------------------------------------------------------------
(* Theorems                                                                *)

OutboxInv == TypeOK /\ QueueInv /\ AttemptsCounted /\ Calm

THEOREM OutboxInvHolds == Spec => []OutboxInv
<1>1. Init => OutboxInv
  BY InitTypeOK, QueueInit, CalmInit DEF OutboxInv
<1>2. OutboxInv /\ [Next]_vars => OutboxInv'
  BY TypeStep, QueueStep, AttemptsStep, CalmStep DEF OutboxInv
<1> QED
  BY <1>1, <1>2, PTL DEF Spec

\* Without faults no two runs deliver the same row at once, however many pods
\* poll, sweep and work: the row names one undone job, and only the pod that
\* holds its lock runs it (pollOnceInternal's claim, runWorkerJob).
THEOREM DeliveredOnce == Spec => []NoDoubleDelivery
<1>1. OutboxInv => NoDoubleDelivery
  <2> SUFFICES ASSUME OutboxInv, faults = 0, NEW p \in Pods, NEW q \in Pods, NEW j \in Jobs, NEW k \in Jobs,
                      Delivering(p, j), Delivering(q, k), j[1] = k[1]
               PROVE  p = q /\ j = k
    BY DEF NoDoubleDelivery
  <2>1. Dispatched /\ HolderRuns
    BY DEF OutboxInv, Calm
  <2>2. j = k
    BY <2>1 DEF Dispatched, Undone
  <2>3. holder[j] = {p} /\ holder[k] = {q}
    BY <2>1 DEF HolderRuns, Delivering, At
  <2> QED
    BY <2>2, <2>3
<1> QED
  BY <1>1, OutboxInvHolds, PTL

\* The steps that move a row.
LEMMA StatusStep ==
  ASSUME [Next]_vars, status' # status
  PROVE  \/ \E p \in Pods : \E E \in SUBSET Events : Claim(p, E)
         \/ \E p \in Pods : SweepResets(p)
         \/ \E p \in Pods, j \in Jobs : SettleRow(p, j)
<1>1. Next
  BY DEF vars, database
<1>2. ASSUME NEW p \in Pods, PollerStep(p)
      PROVE  SweepResets(p) \/ \E E \in SUBSET Events : Claim(p, E)
  BY <1>2 DEF PollerStep, Enqueue, SweepFinds, database
<1>3. ASSUME NEW p \in Pods, WorkerStep(p)
      PROVE  \E j \in Jobs : SettleRow(p, j)
  BY <1>3 DEF WorkerStep, StartRun, Post, RecordDelivery, Return, database
<1>4. ~Fault
  BY DEF Fault, Crash, EnqueueFails, RunThrows, StallLive, database
<1>5. ASSUME NEW j \in Jobs PROVE ~StallDead(j)
  BY DEF StallDead, database
<1> QED
  BY <1>1, <1>2, <1>3, <1>4, <1>5 DEF Next, Progress

\* The sweep never takes a row from a job BullMQ will run or is running: the
\* job it found missing or finished is still so when the row is reset, or the
\* row has moved on and is left alone (recoverStuckDispatches).
THEOREM SweepSpares == Spec => SweepSparesLive
<1>1. OutboxInv /\ [Next]_vars =>
        \A p \in Pods : orphan[p] # NoJob /\ orphan'[p] = NoJob /\ status' # status
          => Orphaned(jobOf[orphan[p][1]])
  <2> SUFFICES ASSUME OutboxInv, [Next]_vars, NEW p \in Pods,
                      orphan[p] # NoJob, orphan'[p] = NoJob, status' # status
               PROVE  Orphaned(jobOf[orphan[p][1]])
    OBVIOUS
  <2>1. SweepResets(p)
    <3>1. ASSUME NEW q \in Pods, NEW E \in SUBSET Events, Claim(q, E) PROVE FALSE
      BY <3>1 DEF Claim
    <3>2. ASSUME NEW q \in Pods, SweepResets(q) PROVE q = p
      BY <3>2 DEF SweepResets, OutboxInv, TypeOK
    <3>3. ASSUME NEW q \in Pods, NEW j \in Jobs, SettleRow(q, j) PROVE FALSE
      BY <3>3 DEF SettleRow, pollers
    <3> QED
      BY <3>1, <3>2, <3>3, StatusStep
  <2>2. jobOf[orphan[p][1]] = orphan[p]
    BY <2>1 DEF SweepResets
  <2> QED
    BY <2>2 DEF OutboxInv, QueueInv, OrphanStaysGone
<1> QED
  BY <1>1, OutboxInvHolds, PTL DEF Spec, SweepSparesLive

\* A row becomes dead for a permanent failure, or after MaxAttempts attempts
\* that are really on record, also when its jobs were lost, rerun or
\* interleaved (finishRetryable compares the attempt's own number).
THEOREM GivenUpLate == Spec => DeadIsExhausted
<1>1. OutboxInv /\ [Next]_vars =>
        \A e \in Events : status[e] # "dead" /\ status'[e] = "dead" =>
          \/ ledger[e] >= MaxAttempts
          \/ \E p \in Pods, j \in Jobs : j[1] = e /\ At(p, j, "settle") /\ run[p][j].res = "permanent"
  <2> SUFFICES ASSUME OutboxInv, [Next]_vars, NEW e \in Events,
                      status[e] # "dead", status'[e] = "dead"
               PROVE  \/ ledger[e] >= MaxAttempts
                      \/ \E p \in Pods, j \in Jobs : j[1] = e /\ At(p, j, "settle") /\ run[p][j].res = "permanent"
    OBVIOUS
  <2>1. PICK p \in Pods, j \in Jobs : SettleRow(p, j)
    <3>1. ASSUME NEW q \in Pods, NEW E \in SUBSET Events, Claim(q, E) PROVE FALSE
      BY <3>1 DEF Claim
    <3>2. ASSUME NEW q \in Pods, SweepResets(q) PROVE FALSE
      BY <3>2 DEF SweepResets, OutboxInv, TypeOK
    <3> QED
      BY <3>1, <3>2, StatusStep
  <2>2. /\ e = j[1] /\ At(p, j, "settle")
        /\ run[p][j].res # "ok" /\ ~Retries(run[p][j])
    BY <2>1, JobParts DEF SettleRow, OutboxInv, TypeOK
  <2>3. /\ run[p][j].res \in Results /\ run[p][j].n <= ledger[e] /\ run[p][j].n \in Nat /\ ledger[e] \in Nat
    BY <2>2, RunsType DEF OutboxInv, AttemptsCounted, Counted, At, Runs, TypeOK
  <2>4. run[p][j].res = "permanent" \/ run[p][j].n >= MaxAttempts
    BY <2>2, <2>3, BoundAssumption DEF Retries, Results
  <2> QED
    BY <2>2, <2>3, <2>4, BoundAssumption
<1> QED
  BY <1>1, OutboxInvHolds, PTL DEF Spec, DeadIsExhausted
=============================================================================
