----------------------------- MODULE PageCache -----------------------------
(***************************************************************************)
(* The page read cache in Redis and the delivery of its invalidations.     *)
(* Readers fill an entry only if no invalidation moved the generation      *)
(* since they looked (redis-cache.ts).  A trigger queues every changed     *)
(* page in its writer's transaction, and a publisher takes queue rows off  *)
(* only after it moved the generation (page-write-invalidation.ts).  A     *)
(* page's content is the number of its committed changes.                  *)
(***************************************************************************)
EXTENDS Naturals, FiniteSets

CONSTANTS
  Users, Pages, Writers, Readers, Publishers,
  NoUser, NoEntry,
  MaxWrites,  \* bound: committed changes of one page
  MaxBumps,   \* bound: invalidations of one user by a route
  MaxAborts   \* bound: transactions that fail

ASSUME CacheAssumption ==
  /\ NoUser \notin Users
  /\ MaxWrites \in Nat /\ MaxBumps \in Nat /\ MaxAborts \in Nat

VARIABLES
  content,    \* the committed pages
  touched,    \* pages an open transaction changed: it locks their queue rows
  queue,      \* page_cache_invalidation_queue
  stage,      \* a publisher's transaction
  claimed,    \* the queue rows it locked
  generation, \* the namespace's generation
  userGeneration,
  entry,      \* each user's cache entry
  reader,     \* a request that missed and is computing its answer
  aborts,
  fence       \* history: what was committed when each user's fence last moved

vars == <<content, touched, queue, stage, claimed, generation, userGeneration, entry, reader, aborts, fence>>

Contents == [Pages -> 0..MaxWrites]
Stages == {"idle", "locked", "selected", "bumped", "scanned"}
Idle == [user |-> NoUser]

\* The pair that GET_WITH_GENERATION_SCRIPT returns.
Generation(u) == <<generation, userGeneration[u]>>

Init ==
  /\ content = [p \in Pages |-> 0]
  /\ touched = [w \in Writers |-> {}]
  /\ queue = {}
  /\ stage = [d \in Publishers |-> "idle"]
  /\ claimed = [d \in Publishers |-> {}]
  /\ generation = 0
  /\ userGeneration = [u \in Users |-> 0]
  /\ entry = [u \in Users |-> NoEntry]
  /\ reader = [r \in Readers |-> Idle]
  /\ aborts = 0
  /\ fence = [u \in Users |-> [p \in Pages |-> 0]]

-----------------------------------------------------------------------------
(* Writers: any transaction that changes what a page list shows.           *)

Fail == aborts < MaxAborts /\ aborts' = aborts + 1

Unclaimed(p) == \A d \in Publishers : p \notin claimed[d]
Untouched(p) == \A w \in Writers : p \notin touched[w]

\* DO NOTHING instead of the no-op update: an existing row is not locked.
MutTouch(w, p) ==
  /\ Untouched(p) /\ content[p] < MaxWrites
  /\ p \in queue \/ Unclaimed(p)
  /\ touched' = [touched EXCEPT ![w] = @ \cup {p}]
  /\ UNCHANGED <<content, queue, stage, claimed, generation, userGeneration, entry, reader, aborts, fence>>

\* The trigger's upsert waits for whoever has the queue row, and keeps it.
Touch(w, p) ==
  /\ Untouched(p) /\ content[p] < MaxWrites
  /\ Unclaimed(p)
  /\ touched' = [touched EXCEPT ![w] = @ \cup {p}]
  /\ UNCHANGED <<content, queue, stage, claimed, generation, userGeneration, entry, reader, aborts, fence>>

Commit(w) ==
  /\ touched[w] # {}
  /\ content' = [p \in Pages |-> IF p \in touched[w] THEN content[p] + 1 ELSE content[p]]
  /\ queue' = queue \cup touched[w]
  /\ touched' = [touched EXCEPT ![w] = {}]
  /\ UNCHANGED <<stage, claimed, generation, userGeneration, entry, reader, aborts, fence>>

\* An error, a crash, or PostgreSQL breaking a deadlock.
Rollback(w) ==
  /\ touched[w] # {} /\ Fail
  /\ touched' = [touched EXCEPT ![w] = {}]
  /\ UNCHANGED <<content, queue, stage, claimed, generation, userGeneration, entry, reader, fence>>

-----------------------------------------------------------------------------
(* flushPageWriteInvalidations.                                            *)

Enter(d, s) == stage' = [stage EXCEPT ![d] = s]

\* A worker that does not poll again after a round that failed.
MutTakeLock(d) ==
  /\ \A e \in Publishers : stage[e] = "idle"
  /\ aborts = 0
  /\ Enter(d, "locked")
  /\ UNCHANGED <<content, touched, queue, claimed, generation, userGeneration, entry, reader, aborts, fence>>

TakeLock(d) ==
  /\ \A e \in Publishers : stage[e] = "idle"
  /\ Enter(d, "locked")
  /\ UNCHANGED <<content, touched, queue, claimed, generation, userGeneration, entry, reader, aborts, fence>>

\* A batch of the committed rows; SELECT ... FOR UPDATE waits for writers.
Select(d) ==
  /\ stage[d] = "locked"
  /\ \E batch \in SUBSET queue \ {{}} :
       /\ \A p \in batch : Untouched(p)
       /\ claimed' = [claimed EXCEPT ![d] = batch]
  /\ Enter(d, "selected")
  /\ UNCHANGED <<content, touched, queue, generation, userGeneration, entry, reader, aborts, fence>>

\* Nothing to deliver.
SelectNone(d) ==
  /\ stage[d] = "locked" /\ queue = {}
  /\ Enter(d, "idle")
  /\ UNCHANGED <<content, touched, queue, claimed, generation, userGeneration, entry, reader, aborts, fence>>

MoveGlobal == generation' = generation + 1 /\ fence' = [u \in Users |-> content]

BumpAll(d) ==
  /\ stage[d] = "selected"
  /\ MoveGlobal
  /\ Enter(d, "bumped")
  /\ UNCHANGED <<content, touched, queue, claimed, userGeneration, entry, reader, aborts>>

\* The cursor walk: it may miss what is stored while it goes.
ScanAll(d) ==
  /\ stage[d] = "bumped"
  /\ \E gone \in SUBSET Users :
       entry' = [u \in Users |-> IF u \in gone THEN NoEntry ELSE entry[u]]
  /\ Enter(d, "scanned")
  /\ UNCHANGED <<content, touched, queue, claimed, generation, userGeneration, reader, aborts, fence>>

\* A publisher that keeps its batch for the next round.
MutDeliver(d) ==
  /\ stage[d] = "scanned"
  /\ queue' = queue \ claimed[d]
  /\ Enter(d, "idle")
  /\ UNCHANGED <<content, touched, claimed, generation, userGeneration, entry, reader, aborts, fence>>

\* DELETE of the selected rows, and COMMIT.
Deliver(d) ==
  /\ stage[d] = "scanned"
  /\ queue' = queue \ claimed[d]
  /\ claimed' = [claimed EXCEPT ![d] = {}]
  /\ Enter(d, "idle")
  /\ UNCHANGED <<content, touched, generation, userGeneration, entry, reader, aborts, fence>>

\* A process that dies, Redis unavailable or the deadline: ROLLBACK.
Abort(d) ==
  /\ stage[d] # "idle" /\ Fail
  /\ claimed' = [claimed EXCEPT ![d] = {}]
  /\ Enter(d, "idle")
  /\ UNCHANGED <<content, touched, queue, generation, userGeneration, entry, reader, fence>>

-----------------------------------------------------------------------------
(* Routes that invalidate one user's entries, without the queue.           *)

Invalidate(u) ==
  /\ userGeneration[u] < MaxBumps
  /\ userGeneration' = [userGeneration EXCEPT ![u] = @ + 1]
  /\ fence' = [fence EXCEPT ![u] = content]
  /\ UNCHANGED <<content, touched, queue, stage, claimed, generation, entry, reader, aborts>>

\* The deletion after it, a time to live that ends, or a scan of another pod.
Remove(u) ==
  /\ entry[u] # NoEntry
  /\ entry' = [entry EXCEPT ![u] = NoEntry]
  /\ UNCHANGED <<content, touched, queue, stage, claimed, generation, userGeneration, reader, aborts, fence>>

(* Readers. *)

\* An entry of another generation is a miss.
Servable(u) == entry[u] # NoEntry /\ entry[u].generation = Generation(u)

\* getWithGeneration misses; what is read later is filled into seen.
Miss(r, u) ==
  /\ reader[r] = Idle /\ ~Servable(u)
  /\ reader' = [reader EXCEPT ![r] =
       [user |-> u, generation |-> Generation(u), unread |-> Pages, seen |-> [p \in Pages |-> 0]]]
  /\ UNCHANGED <<content, touched, queue, stage, claimed, generation, userGeneration, entry, aborts, fence>>

\* The queries of a handler, each with a snapshot of its own.
ReadPage(r, p) ==
  /\ reader[r] # Idle /\ p \in reader[r].unread
  /\ reader' = [reader EXCEPT ![r] =
       [reader[r] EXCEPT !.unread = reader[r].unread \ {p},
                         !.seen = [reader[r].seen EXCEPT ![p] = content[p]]]]
  /\ UNCHANGED <<content, touched, queue, stage, claimed, generation, userGeneration, entry, aborts, fence>>

Computed(r) == reader[r] # Idle /\ reader[r].unread = {}

\* A plain SETEX under the generation of the moment.
MutSetIfCurrent(r) ==
  /\ Computed(r)
  /\ LET u == reader[r].user IN
     entry' = [entry EXCEPT ![u] = [generation |-> Generation(u), seen |-> reader[r].seen]]
  /\ reader' = [reader EXCEPT ![r] = Idle]
  /\ UNCHANGED <<content, touched, queue, stage, claimed, generation, userGeneration, aborts, fence>>

SetIfCurrent(r) ==
  /\ Computed(r)
  /\ LET u == reader[r].user IN
     /\ reader[r].generation = Generation(u)
     /\ entry' = [entry EXCEPT ![u] = [generation |-> reader[r].generation, seen |-> reader[r].seen]]
  /\ reader' = [reader EXCEPT ![r] = Idle]
  /\ UNCHANGED <<content, touched, queue, stage, claimed, generation, userGeneration, aborts, fence>>

\* A fill that is refused, an unknown generation, an error or a crash.
Forget(r) ==
  /\ reader[r] # Idle
  /\ reader' = [reader EXCEPT ![r] = Idle]
  /\ UNCHANGED <<content, touched, queue, stage, claimed, generation, userGeneration, entry, aborts, fence>>

-----------------------------------------------------------------------------
Delivery(d) == TakeLock(d) \/ Select(d) \/ SelectNone(d) \/ BumpAll(d) \/ ScanAll(d) \/ Deliver(d)

Next ==
  \/ \E w \in Writers : (\E p \in Pages : Touch(w, p)) \/ Commit(w) \/ Rollback(w)
  \/ \E d \in Publishers : Delivery(d) \/ Abort(d)
  \/ \E u \in Users : Invalidate(u) \/ Remove(u)
  \/ \E r \in Readers :
       \/ \E u \in Users : Miss(r, u)
       \/ \E p \in Pages : ReadPage(r, p)
       \/ SetIfCurrent(r) \/ Forget(r)

Spec == Init /\ [][Next]_vars

\* The outbox worker polls, in every pod, and transactions end.
Fairness ==
  /\ WF_vars(\E d \in Publishers : Delivery(d))
  /\ \A w \in Writers : WF_vars(Commit(w))

FairSpec == Spec /\ Fairness

-----------------------------------------------------------------------------
Entries == [generation : Nat \X Nat, seen : Contents]
Readings == [user : Users, generation : Nat \X Nat, unread : SUBSET Pages, seen : Contents]

TypeOK ==
  /\ content \in Contents
  /\ touched \in [Writers -> SUBSET Pages]
  /\ queue \subseteq Pages
  /\ stage \in [Publishers -> Stages]
  /\ claimed \in [Publishers -> SUBSET queue]
  /\ generation \in Nat
  /\ userGeneration \in [Users -> Nat]
  /\ entry \in [Users -> Entries \cup {NoEntry}]
  /\ reader \in [Readers -> Readings \cup {Idle}]
  /\ aborts \in Nat
  /\ fence \in [Users -> Contents]

\* An entry that can be served shows everything that was committed when its
\* generation last moved, however late its fill was stored and whatever scan
\* missed it (the receipts of getWithGeneration and setIfCurrent).
FenceHolds ==
  \A u \in Users, p \in Pages : Servable(u) => entry[u].seen[p] >= fence[u][p]

\* A page that is no longer queued is current in every entry that can be
\* served: no change slips between a publisher's scan and the deletion of the
\* queue row (flushPageWriteInvalidations and the trigger of migration 120).
PublishedIsFresh ==
  \A u \in Users, p \in Pages :
    Servable(u) /\ p \notin queue => entry[u].seen[p] = content[p]

\* Every committed change is delivered, once writers and failures stop.
EverythingDelivered == <>[](queue = {})
=============================================================================
