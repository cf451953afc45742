-------------------------- MODULE PageCacheProofs --------------------------
(***************************************************************************)
(* No stale page is served once its change was published.  The argument:   *)
(* the fence of a user never runs ahead of the content (Fences); it equals *)
(* the content of every page that is off the queue, because a publisher    *)
(* moves it while it holds the queue rows, which no writer then touches    *)
(* (Locks); and a fill that is still valid was read after the fence last   *)
(* moved (Fills).                                                          *)
(***************************************************************************)
EXTENDS PageCache, TLAPS

TouchesApart ==
  \A v, w \in Writers, p \in Pages : p \in touched[v] /\ p \in touched[w] => v = w

TouchesBelow ==
  \A w \in Writers, p \in Pages : p \in touched[w] => content[p] < MaxWrites

OneDelivery ==
  \A d, e \in Publishers : stage[d] # "idle" /\ stage[e] # "idle" => d = e

IdleClaimsNothing ==
  \A d \in Publishers : stage[d] \in {"idle", "locked"} => claimed[d] = {}

ClaimsUntouched ==
  \A d \in Publishers, w \in Writers : claimed[d] \cap touched[w] = {}

Locks == TouchesApart /\ TouchesBelow /\ OneDelivery /\ IdleClaimsNothing /\ ClaimsUntouched

FenceBehind == \A u \in Users, p \in Pages : fence[u][p] <= content[p]

BumpedIsFenced ==
  \A d \in Publishers, u \in Users, p \in Pages :
    stage[d] \in {"bumped", "scanned"} /\ p \in claimed[d] => fence[u][p] = content[p]

UnqueuedIsFenced ==
  \A u \in Users, p \in Pages : p \notin queue => fence[u][p] = content[p]

Fences == FenceBehind /\ BumpedIsFenced /\ UnqueuedIsFenced

\* A receipt that was handed out earlier, or is current.
Issued(g, u) == g[1] <= generation /\ g[2] <= userGeneration[u]

EntryFits(u) ==
  entry[u] # NoEntry =>
    /\ Issued(entry[u].generation, u)
    /\ \A p \in Pages : entry[u].seen[p] <= content[p]
    /\ entry[u].generation = Generation(u) =>
         \A p \in Pages : entry[u].seen[p] >= fence[u][p]

ReaderFits(r) ==
  reader[r] # Idle =>
    /\ Issued(reader[r].generation, reader[r].user)
    /\ \A p \in Pages : reader[r].seen[p] <= content[p]
    /\ reader[r].generation = Generation(reader[r].user) =>
         \A p \in Pages \ reader[r].unread : reader[r].seen[p] >= fence[reader[r].user][p]

Fills == (\A u \in Users : EntryFits(u)) /\ (\A r \in Readers : ReaderFits(r))

IInv == TypeOK /\ Locks /\ Fences /\ Fills

LEMMA InitInv == Init => IInv
<1> SUFFICES ASSUME Init PROVE IInv
  OBVIOUS
<1>1. TypeOK
  BY CacheAssumption DEF Init, TypeOK, Contents, Stages
<1>2. Locks
  BY DEF Init, Locks, TouchesApart, TouchesBelow, OneDelivery, IdleClaimsNothing, ClaimsUntouched
<1>3. Fences
  BY DEF Init, Fences, FenceBehind, BumpedIsFenced, UnqueuedIsFenced
<1>4. Fills
  BY DEF Init, Fills, EntryFits, ReaderFits
<1> QED
  BY <1>1, <1>2, <1>3, <1>4 DEF IInv

-----------------------------------------------------------------------------
(* Writers. *)

\* The cache part is untouched by a step that only lets the content grow.
LEMMA FillsKept ==
  ASSUME IInv, TypeOK', \A p \in Pages : content[p] <= content'[p],
         UNCHANGED <<generation, userGeneration, entry, reader, fence>>
  PROVE  Fills'
<1>1. ASSUME NEW u \in Users PROVE EntryFits(u)'
  <2>1. CASE entry[u] = NoEntry
    BY <2>1 DEF EntryFits
  <2>2. CASE entry[u] # NoEntry
    <3>1. entry[u] \in Entries
      BY <2>2 DEF IInv, TypeOK
    <3>2. EntryFits(u)
      BY DEF IInv, Fills
    <3> QED
      BY <2>2, <3>1, <3>2 DEF IInv, TypeOK, EntryFits, Issued, Generation, Entries, Contents
  <2> QED
    BY <2>1, <2>2
<1>2. ASSUME NEW r \in Readers PROVE ReaderFits(r)'
  <2>1. CASE reader[r] = Idle
    BY <2>1 DEF ReaderFits, Idle
  <2>2. CASE reader[r] # Idle
    <3>1. reader[r] \in Readings
      BY <2>2 DEF IInv, TypeOK
    <3>2. ReaderFits(r)
      BY DEF IInv, Fills
    <3> QED
      BY <2>2, <3>1, <3>2 DEF IInv, TypeOK, ReaderFits, Issued, Generation, Readings, Contents, Idle
  <2> QED
    BY <2>1, <2>2
<1> QED
  BY <1>1, <1>2 DEF Fills

LEMMA TouchInv ==
  ASSUME NEW w \in Writers, NEW p \in Pages, IInv, Touch(w, p)
  PROVE  IInv'
<1>1. TypeOK'
  BY DEF IInv, TypeOK, Touch
<1>2. Locks'
  <2>1. TouchesApart' /\ TouchesBelow'
    BY DEF IInv, TypeOK, Locks, TouchesApart, TouchesBelow, Touch, Untouched
  <2>2. OneDelivery' /\ IdleClaimsNothing'
    BY DEF IInv, Locks, OneDelivery, IdleClaimsNothing, Touch
  <2>3. ClaimsUntouched'
    BY DEF IInv, TypeOK, Locks, ClaimsUntouched, Touch, Unclaimed
  <2> QED
    BY <2>1, <2>2, <2>3 DEF Locks
<1>3. Fences'
  BY DEF IInv, Fences, FenceBehind, BumpedIsFenced, UnqueuedIsFenced, Touch
<1>4. Fills'
  <2>1. \A q \in Pages : content[q] <= content'[q]
    BY CacheAssumption DEF IInv, TypeOK, Contents, Touch
  <2> QED
    BY <1>1, <2>1, FillsKept DEF Touch
<1> QED
  BY <1>1, <1>2, <1>3, <1>4 DEF IInv

LEMMA CommitInv ==
  ASSUME NEW w \in Writers, IInv, Commit(w)
  PROVE  IInv'
<1> USE CacheAssumption
<1>1. \A p \in Pages : /\ content[p] \in Nat
                       /\ content'[p] = IF p \in touched[w] THEN content[p] + 1 ELSE content[p]
  BY DEF IInv, TypeOK, Contents, Commit
<1>2. TypeOK'
  <2>1. content' \in Contents
    BY DEF IInv, TypeOK, Locks, TouchesBelow, Contents, Commit
  <2>2. claimed' \in [Publishers -> SUBSET queue']
    BY DEF IInv, TypeOK, Commit
  <2> QED
    BY <2>1, <2>2 DEF IInv, TypeOK, Commit
<1>3. Locks'
  <2>1. TouchesApart' /\ TouchesBelow'
    BY <1>1 DEF IInv, TypeOK, Locks, TouchesApart, TouchesBelow, Commit
  <2>2. OneDelivery' /\ IdleClaimsNothing'
    BY DEF IInv, Locks, OneDelivery, IdleClaimsNothing, Commit
  <2>3. ClaimsUntouched'
    BY DEF IInv, TypeOK, Locks, ClaimsUntouched, Commit
  <2> QED
    BY <2>1, <2>2, <2>3 DEF Locks
<1>4. Fences'
  <2>1. FenceBehind'
    BY <1>1 DEF IInv, TypeOK, Contents, Fences, FenceBehind, Commit
  <2>2. BumpedIsFenced'
    BY <1>1 DEF IInv, Fences, BumpedIsFenced, Locks, ClaimsUntouched, Commit
  <2>3. UnqueuedIsFenced'
    BY <1>1 DEF IInv, Fences, UnqueuedIsFenced, Commit
  <2> QED
    BY <2>1, <2>2, <2>3 DEF Fences
<1>5. Fills'
  <2>1. \A q \in Pages : content[q] <= content'[q]
    BY <1>1
  <2> QED
    BY <1>2, <2>1, FillsKept DEF Commit
<1> QED
  BY <1>2, <1>3, <1>4, <1>5 DEF IInv

LEMMA RollbackInv ==
  ASSUME NEW w \in Writers, IInv, Rollback(w)
  PROVE  IInv'
<1>1. TypeOK'
  BY DEF IInv, TypeOK, Rollback, Fail
<1>2. Locks'
  <2>1. TouchesApart' /\ TouchesBelow'
    BY DEF IInv, TypeOK, Locks, TouchesApart, TouchesBelow, Rollback
  <2>2. OneDelivery' /\ IdleClaimsNothing'
    BY DEF IInv, Locks, OneDelivery, IdleClaimsNothing, Rollback
  <2>3. ClaimsUntouched'
    BY DEF IInv, TypeOK, Locks, ClaimsUntouched, Rollback
  <2> QED
    BY <2>1, <2>2, <2>3 DEF Locks
<1>3. Fences'
  BY DEF IInv, Fences, FenceBehind, BumpedIsFenced, UnqueuedIsFenced, Rollback
<1>4. Fills'
  <2>1. \A q \in Pages : content[q] <= content'[q]
    BY CacheAssumption DEF IInv, TypeOK, Contents, Rollback
  <2> QED
    BY <1>1, <2>1, FillsKept DEF Rollback
<1> QED
  BY <1>1, <1>2, <1>3, <1>4 DEF IInv

-----------------------------------------------------------------------------
(* The publisher. *)

\* What the steps of a publisher's transaction that leave the cache alone keep.
LEMMA QuietFills ==
  ASSUME IInv, TypeOK', UNCHANGED <<content, generation, userGeneration, entry, reader, fence>>
  PROVE  Fills'
<1>1. \A p \in Pages : content[p] <= content'[p]
  BY CacheAssumption DEF IInv, TypeOK, Contents
<1> QED
  BY <1>1, FillsKept

LEMMA TakeLockInv ==
  ASSUME NEW d \in Publishers, IInv, TakeLock(d)
  PROVE  IInv'
<1>1. TypeOK'
  BY DEF IInv, TypeOK, Stages, TakeLock, Enter
<1>2. Locks'
  <2>1. TouchesApart' /\ TouchesBelow'
    BY DEF IInv, Locks, TouchesApart, TouchesBelow, TakeLock
  <2>2. OneDelivery' /\ IdleClaimsNothing'
    BY DEF IInv, TypeOK, Locks, OneDelivery, IdleClaimsNothing, TakeLock, Enter
  <2>3. ClaimsUntouched'
    BY DEF IInv, Locks, ClaimsUntouched, TakeLock
  <2> QED
    BY <2>1, <2>2, <2>3 DEF Locks
<1>3. Fences'
  BY DEF IInv, TypeOK, Fences, FenceBehind, BumpedIsFenced, UnqueuedIsFenced, TakeLock, Enter
<1>4. Fills'
  BY <1>1, QuietFills DEF TakeLock
<1> QED
  BY <1>1, <1>2, <1>3, <1>4 DEF IInv

LEMMA SelectInv ==
  ASSUME NEW d \in Publishers, IInv, Select(d)
  PROVE  IInv'
<1>1. PICK batch \in SUBSET queue :
        /\ \A p \in batch : Untouched(p)
        /\ claimed' = [claimed EXCEPT ![d] = batch]
  BY DEF Select
<1>2. TypeOK'
  BY <1>1 DEF IInv, TypeOK, Stages, Select, Enter
<1>3. Locks'
  <2>1. TouchesApart' /\ TouchesBelow'
    BY DEF IInv, Locks, TouchesApart, TouchesBelow, Select
  <2>2. OneDelivery' /\ IdleClaimsNothing'
    BY <1>1 DEF IInv, TypeOK, Locks, OneDelivery, IdleClaimsNothing, Select, Enter
  <2>3. ClaimsUntouched'
    BY <1>1 DEF IInv, TypeOK, Locks, ClaimsUntouched, Select, Untouched
  <2> QED
    BY <2>1, <2>2, <2>3 DEF Locks
<1>4. Fences'
  <2>1. BumpedIsFenced'
    BY <1>1 DEF IInv, TypeOK, Fences, BumpedIsFenced, Select, Enter
  <2> QED
    BY <2>1 DEF IInv, Fences, FenceBehind, UnqueuedIsFenced, Select
<1>5. Fills'
  BY <1>2, QuietFills DEF Select
<1> QED
  BY <1>2, <1>3, <1>4, <1>5 DEF IInv

\* Ending a transaction, with its rows or without them.
LEMMA EndInv ==
  ASSUME NEW d \in Publishers, IInv, SelectNone(d) \/ Abort(d) \/ Deliver(d)
  PROVE  IInv'
<1>1. \A e \in Publishers : e # d => claimed'[e] = claimed[e] /\ stage'[e] = stage[e]
  BY DEF IInv, TypeOK, SelectNone, Abort, Deliver, Enter
<1>2. stage'[d] = "idle" /\ claimed'[d] = {}
  BY DEF IInv, TypeOK, Locks, IdleClaimsNothing, SelectNone, Abort, Deliver, Enter
<1>3. \A e \in Publishers : e # d => claimed[e] = {}
  BY DEF IInv, TypeOK, Stages, Locks, OneDelivery, IdleClaimsNothing, SelectNone, Abort, Deliver
<1>4. TypeOK'
  <2>1. claimed' \in [Publishers -> SUBSET queue']
    BY <1>1, <1>2, <1>3 DEF IInv, TypeOK, SelectNone, Abort, Deliver
  <2> QED
    BY <2>1 DEF IInv, TypeOK, Stages, SelectNone, Abort, Deliver, Enter, Fail
<1>5. Locks'
  <2>1. TouchesApart' /\ TouchesBelow'
    BY DEF IInv, Locks, TouchesApart, TouchesBelow, SelectNone, Abort, Deliver
  <2>2. OneDelivery' /\ IdleClaimsNothing'
    BY <1>1, <1>2 DEF IInv, Locks, OneDelivery, IdleClaimsNothing
  <2>3. ClaimsUntouched'
    BY <1>1, <1>2, <1>3 DEF ClaimsUntouched
  <2> QED
    BY <2>1, <2>2, <2>3 DEF Locks
<1>6. Fences'
  <2>1. FenceBehind'
    BY DEF IInv, Fences, FenceBehind, SelectNone, Abort, Deliver
  <2>2. BumpedIsFenced'
    BY <1>1, <1>2, <1>3 DEF BumpedIsFenced
  <2>3. UnqueuedIsFenced'
    BY DEF IInv, Fences, BumpedIsFenced, UnqueuedIsFenced, SelectNone, Abort, Deliver
  <2> QED
    BY <2>1, <2>2, <2>3 DEF Fences
<1>7. Fills'
  BY <1>4, QuietFills DEF SelectNone, Abort, Deliver
<1> QED
  BY <1>4, <1>5, <1>6, <1>7 DEF IInv

\* Moving a generation voids every receipt handed out for these users.
LEMMA BumpAllInv ==
  ASSUME NEW d \in Publishers, IInv, BumpAll(d)
  PROVE  IInv'
<1>1. TypeOK'
  BY DEF IInv, TypeOK, Stages, BumpAll, MoveGlobal, Enter
<1>2. Locks'
  <2>1. TouchesApart' /\ TouchesBelow' /\ ClaimsUntouched'
    BY DEF IInv, Locks, TouchesApart, TouchesBelow, ClaimsUntouched, BumpAll
  <2>2. OneDelivery' /\ IdleClaimsNothing'
    BY DEF IInv, TypeOK, Locks, OneDelivery, IdleClaimsNothing, BumpAll, Enter
  <2> QED
    BY <2>1, <2>2 DEF Locks
<1>3. Fences'
  BY CacheAssumption DEF IInv, TypeOK, Contents, Fences, FenceBehind, BumpedIsFenced, UnqueuedIsFenced, BumpAll, MoveGlobal
<1>4. ASSUME NEW u \in Users PROVE EntryFits(u)'
  <2>1. CASE entry[u] = NoEntry
    BY <2>1 DEF EntryFits, BumpAll
  <2>2. CASE entry[u] # NoEntry
    <3>1. entry[u] \in Entries /\ EntryFits(u)
      BY <2>2 DEF IInv, TypeOK, Fills
    <3> QED
      BY <2>2, <3>1 DEF IInv, TypeOK, EntryFits, Issued, Generation, Entries, BumpAll, MoveGlobal
  <2> QED
    BY <2>1, <2>2
<1>5. ASSUME NEW r \in Readers PROVE ReaderFits(r)'
  <2>1. CASE reader[r] = Idle
    BY <2>1 DEF ReaderFits, Idle, BumpAll
  <2>2. CASE reader[r] # Idle
    <3>1. reader[r] \in Readings /\ ReaderFits(r)
      BY <2>2 DEF IInv, TypeOK, Fills
    <3> QED
      BY <2>2, <3>1 DEF IInv, TypeOK, ReaderFits, Issued, Generation, Readings, Idle, BumpAll, MoveGlobal
  <2> QED
    BY <2>1, <2>2
<1> QED
  BY <1>1, <1>2, <1>3, <1>4, <1>5 DEF IInv, Fills

-----------------------------------------------------------------------------
(* The cache.  What concerns transactions and pages stays as it is.        *)

LEMMA TransactionsKept ==
  ASSUME IInv, UNCHANGED <<content, touched, queue, stage, claimed>>
  PROVE  Locks'
  BY DEF IInv, Locks, TouchesApart, TouchesBelow, OneDelivery, IdleClaimsNothing, ClaimsUntouched

LEMMA FencesKept ==
  ASSUME IInv, UNCHANGED <<content, queue, stage, claimed, fence>>
  PROVE  Fences'
  BY DEF IInv, Fences, FenceBehind, BumpedIsFenced, UnqueuedIsFenced

LEMMA EntriesKept ==
  ASSUME IInv, NEW u \in Users,
         entry'[u] \in {entry[u], NoEntry},
         UNCHANGED <<content, generation, userGeneration, fence>>
  PROVE  EntryFits(u)'
<1>1. CASE entry'[u] = NoEntry
  BY <1>1 DEF EntryFits
<1>2. CASE entry'[u] = entry[u]
  BY <1>2 DEF IInv, Fills, EntryFits, Issued, Generation
<1> QED
  BY <1>1, <1>2

LEMMA ReadersKept ==
  ASSUME IInv, NEW r \in Readers,
         reader'[r] \in {reader[r], Idle},
         UNCHANGED <<content, generation, userGeneration, fence>>
  PROVE  ReaderFits(r)'
<1>1. CASE reader'[r] = Idle
  BY <1>1 DEF ReaderFits, Idle
<1>2. CASE reader'[r] = reader[r]
  BY <1>2 DEF IInv, Fills, ReaderFits, Issued, Generation, Idle
<1> QED
  BY <1>1, <1>2

LEMMA ScanAllInv ==
  ASSUME NEW d \in Publishers, IInv, ScanAll(d)
  PROVE  IInv'
<1>1. PICK gone \in SUBSET Users :
        entry' = [u \in Users |-> IF u \in gone THEN NoEntry ELSE entry[u]]
  BY DEF ScanAll
<1>2. TypeOK'
  BY <1>1 DEF IInv, TypeOK, Stages, ScanAll, Enter
<1>3. Locks'
  <2>1. TouchesApart' /\ TouchesBelow' /\ ClaimsUntouched'
    BY DEF IInv, Locks, TouchesApart, TouchesBelow, ClaimsUntouched, ScanAll
  <2>2. OneDelivery' /\ IdleClaimsNothing'
    BY DEF IInv, TypeOK, Locks, OneDelivery, IdleClaimsNothing, ScanAll, Enter
  <2> QED
    BY <2>1, <2>2 DEF Locks
<1>4. Fences'
  <2>1. BumpedIsFenced'
    BY DEF IInv, TypeOK, Fences, BumpedIsFenced, ScanAll, Enter
  <2> QED
    BY <2>1 DEF IInv, Fences, FenceBehind, UnqueuedIsFenced, ScanAll
<1>5. \A u \in Users : EntryFits(u)'
  BY <1>1, EntriesKept DEF ScanAll
<1>6. \A r \in Readers : ReaderFits(r)'
  BY ReadersKept DEF ScanAll
<1> QED
  BY <1>2, <1>3, <1>4, <1>5, <1>6 DEF IInv, Fills

LEMMA InvalidateInv ==
  ASSUME NEW v \in Users, IInv, Invalidate(v)
  PROVE  IInv'
<1>1. TypeOK'
  BY DEF IInv, TypeOK, Invalidate
<1>2. Locks'
  BY TransactionsKept DEF Invalidate
<1>3. Fences'
  BY CacheAssumption DEF IInv, TypeOK, Contents, Fences, FenceBehind, BumpedIsFenced, UnqueuedIsFenced, Invalidate
<1>4. ASSUME NEW u \in Users PROVE EntryFits(u)'
  <2>1. CASE entry[u] = NoEntry
    BY <2>1 DEF EntryFits, Invalidate
  <2>2. CASE entry[u] # NoEntry
    <3>1. entry[u] \in Entries /\ EntryFits(u)
      BY <2>2 DEF IInv, TypeOK, Fills
    <3> QED
      BY <2>2, <3>1 DEF IInv, TypeOK, EntryFits, Issued, Generation, Entries, Invalidate
  <2> QED
    BY <2>1, <2>2
<1>5. ASSUME NEW r \in Readers PROVE ReaderFits(r)'
  <2>1. CASE reader[r] = Idle
    BY <2>1 DEF ReaderFits, Idle, Invalidate
  <2>2. CASE reader[r] # Idle
    <3>1. reader[r] \in Readings /\ ReaderFits(r)
      BY <2>2 DEF IInv, TypeOK, Fills
    <3> QED
      BY <2>2, <3>1 DEF IInv, TypeOK, ReaderFits, Issued, Generation, Readings, Idle, Invalidate
  <2> QED
    BY <2>1, <2>2
<1> QED
  BY <1>1, <1>2, <1>3, <1>4, <1>5 DEF IInv, Fills

LEMMA RemoveInv ==
  ASSUME NEW v \in Users, IInv, Remove(v)
  PROVE  IInv'
<1>1. TypeOK'
  BY DEF IInv, TypeOK, Remove
<1>2. \A u \in Users : EntryFits(u)'
  BY EntriesKept DEF IInv, TypeOK, Remove
<1>3. \A r \in Readers : ReaderFits(r)'
  BY ReadersKept DEF Remove
<1>4. Locks' /\ Fences'
  BY TransactionsKept, FencesKept DEF Remove
<1> QED
  BY <1>1, <1>2, <1>3, <1>4 DEF IInv, Fills

LEMMA MissInv ==
  ASSUME NEW q \in Readers, NEW u \in Users, IInv, Miss(q, u)
  PROVE  IInv'
<1> DEFINE new == [user |-> u, generation |-> Generation(u), unread |-> Pages, seen |-> [p \in Pages |-> 0]]
<1>1. new \in Readings
  BY CacheAssumption DEF IInv, TypeOK, Readings, Generation, Contents
<1>2. TypeOK'
  BY <1>1 DEF IInv, TypeOK, Miss
<1>3. \A v \in Users : EntryFits(v)'
  BY EntriesKept DEF Miss
<1>4. ASSUME NEW r \in Readers PROVE ReaderFits(r)'
  <2>1. CASE r = q
    <3>1. reader'[r] = new
      BY <2>1 DEF IInv, TypeOK, Miss
    <3>2. Issued(Generation(u), u)' /\ \A p \in Pages : 0 <= content'[p]
      BY DEF IInv, TypeOK, Contents, Issued, Generation, Miss
    <3> QED
      BY <3>1, <3>2 DEF ReaderFits, Issued, Generation, Miss
  <2>2. CASE r # q
    BY <2>2, ReadersKept DEF IInv, TypeOK, Miss
  <2> QED
    BY <2>1, <2>2
<1>5. Locks' /\ Fences'
  BY TransactionsKept, FencesKept DEF Miss
<1> QED
  BY <1>2, <1>3, <1>4, <1>5 DEF IInv, Fills

LEMMA ReadPageInv ==
  ASSUME NEW q \in Readers, NEW p \in Pages, IInv, ReadPage(q, p)
  PROVE  IInv'
<1> DEFINE seen == [reader[q].seen EXCEPT ![p] = content[p]]
           new == [reader[q] EXCEPT !.unread = reader[q].unread \ {p}, !.seen = seen]
<1>1. reader[q] \in Readings /\ ReaderFits(q) /\ reader[q] # Idle
  BY DEF IInv, TypeOK, Fills, ReadPage
<1>2. reader' = [reader EXCEPT ![q] = new]
  BY DEF ReadPage
<1>3. /\ new \in Readings
      /\ new.user = reader[q].user /\ new.generation = reader[q].generation
      /\ new.unread = reader[q].unread \ {p} /\ new.seen = seen
  BY <1>1 DEF IInv, TypeOK, Readings, Contents
<1>4. TypeOK'
  BY <1>2, <1>3 DEF IInv, TypeOK, ReadPage
<1>5. \A v \in Users : EntryFits(v)'
  BY EntriesKept DEF ReadPage
<1>6. ASSUME NEW r \in Readers PROVE ReaderFits(r)'
  <2>1. CASE r = q
    <3>1. reader'[r] = new
      BY <1>2, <2>1 DEF IInv, TypeOK
    <3>2. UNCHANGED <<content, generation, userGeneration, fence>>
      BY DEF ReadPage
    <3>3. Issued(reader[q].generation, reader[q].user)
      BY <1>1 DEF ReaderFits
    <3>4. \A x \in Pages : seen[x] <= content[x]
      BY <1>1, CacheAssumption DEF IInv, TypeOK, Contents, Readings, ReaderFits
    <3>5. reader[q].generation = Generation(reader[q].user) =>
            \A x \in Pages \ (reader[q].unread \ {p}) : seen[x] >= fence[reader[q].user][x]
      BY <1>1 DEF Contents, Readings, ReaderFits, IInv, TypeOK, Fences, FenceBehind
    <3> HIDE DEF new, seen
    <3> QED
      BY <1>3, <3>1, <3>2, <3>3, <3>4, <3>5 DEF ReaderFits, Issued, Generation
  <2>2. CASE r # q
    BY <1>2, <2>2, ReadersKept DEF IInv, TypeOK, ReadPage
  <2> QED
    BY <2>1, <2>2
<1>7. Locks' /\ Fences'
  BY TransactionsKept, FencesKept DEF ReadPage
<1> QED
  BY <1>4, <1>5, <1>6, <1>7 DEF IInv, Fills

LEMMA SetIfCurrentInv ==
  ASSUME NEW q \in Readers, IInv, SetIfCurrent(q)
  PROVE  IInv'
<1> DEFINE u == reader[q].user
           new == [generation |-> reader[q].generation, seen |-> reader[q].seen]
<1>1. /\ reader[q] \in Readings /\ ReaderFits(q)
      /\ reader[q] # Idle /\ reader[q].unread = {}
      /\ reader[q].generation = Generation(u)
      /\ entry' = [entry EXCEPT ![u] = new]
  BY DEF IInv, TypeOK, Fills, SetIfCurrent, Computed
<1>2. new \in Entries /\ u \in Users
  BY <1>1 DEF Readings, Entries
<1>3. TypeOK'
  BY <1>1, <1>2 DEF IInv, TypeOK, SetIfCurrent
<1>4. ASSUME NEW v \in Users PROVE EntryFits(v)'
  <2>1. CASE v = u
    <3>1. entry'[v] = new
      BY <1>1, <1>2, <2>1 DEF IInv, TypeOK
    <3> QED
      BY <1>1, <2>1, <3>1 DEF ReaderFits, EntryFits, Issued, Generation, SetIfCurrent
  <2>2. CASE v # u
    BY <1>1, <2>2, EntriesKept DEF IInv, TypeOK, SetIfCurrent
  <2> QED
    BY <2>1, <2>2
<1>5. \A r \in Readers : ReaderFits(r)'
  BY ReadersKept DEF IInv, TypeOK, SetIfCurrent
<1>6. Locks' /\ Fences'
  BY TransactionsKept, FencesKept DEF SetIfCurrent
<1> QED
  BY <1>3, <1>4, <1>5, <1>6 DEF IInv, Fills

LEMMA ForgetInv ==
  ASSUME NEW q \in Readers, IInv, Forget(q)
  PROVE  IInv'
<1>1. TypeOK'
  BY DEF IInv, TypeOK, Forget
<1>2. \A u \in Users : EntryFits(u)'
  BY EntriesKept DEF Forget
<1>3. \A r \in Readers : ReaderFits(r)'
  BY ReadersKept DEF IInv, TypeOK, Forget
<1>4. Locks' /\ Fences'
  BY TransactionsKept, FencesKept DEF Forget
<1> QED
  BY <1>1, <1>2, <1>3, <1>4 DEF IInv, Fills

-----------------------------------------------------------------------------
LEMMA StepInv == IInv /\ [Next]_vars => IInv'
<1> SUFFICES ASSUME IInv, [Next]_vars PROVE IInv'
  OBVIOUS
<1>1. ASSUME NEW w \in Writers, (\E p \in Pages : Touch(w, p)) \/ Commit(w) \/ Rollback(w)
      PROVE  IInv'
  BY <1>1, TouchInv, CommitInv, RollbackInv
<1>2. ASSUME NEW d \in Publishers, Delivery(d) \/ Abort(d)
      PROVE  IInv'
  BY <1>2, TakeLockInv, SelectInv, BumpAllInv, ScanAllInv, EndInv DEF Delivery
<1>3. ASSUME NEW u \in Users, Invalidate(u) \/ Remove(u)
      PROVE  IInv'
  BY <1>3, InvalidateInv, RemoveInv
<1>4. ASSUME NEW r \in Readers,
             \/ \E u \in Users : Miss(r, u)
             \/ \E p \in Pages : ReadPage(r, p)
             \/ SetIfCurrent(r) \/ Forget(r)
      PROVE  IInv'
  BY <1>4, MissInv, ReadPageInv, SetIfCurrentInv, ForgetInv
<1>5. CASE UNCHANGED vars
  <2>1. TypeOK'
    BY <1>5 DEF IInv, TypeOK, vars
  <2>2. Locks' /\ Fences'
    BY <1>5, TransactionsKept, FencesKept DEF vars
  <2>3. Fills'
    BY <1>5, <2>1, QuietFills DEF vars
  <2> QED
    BY <2>1, <2>2, <2>3 DEF IInv
<1> QED
  BY <1>1, <1>2, <1>3, <1>4, <1>5 DEF Next

\* The cache, the queue and every transaction keep their types, for any number
\* of users, pages, writers, readers and publishers.
THEOREM TypeCorrect == Spec => []TypeOK
<1>1. IInv => TypeOK
  BY DEF IInv
<1> QED
  BY InitInv, StepInv, <1>1, PTL DEF Spec

\* A servable entry shows whatever was committed when its generation last
\* moved, for any number of concurrent fills, writers and publishers.
THEOREM FenceCorrect == Spec => []FenceHolds
<1>1. IInv => FenceHolds
  BY DEF IInv, Fills, EntryFits, FenceHolds, Servable
<1> QED
  BY InitInv, StepInv, <1>1, PTL DEF Spec

\* No change slips between a publisher's scan and the deletion of its queue
\* row, for any number of writers, publishers and readers.
THEOREM PublishedCorrect == Spec => []PublishedIsFresh
<1>1. IInv => PublishedIsFresh
  <2> SUFFICES ASSUME IInv, NEW u \in Users, NEW p \in Pages, Servable(u), p \notin queue
               PROVE  entry[u].seen[p] = content[p]
    BY DEF PublishedIsFresh
  <2>1. entry[u] \in Entries /\ EntryFits(u)
    BY DEF IInv, TypeOK, Fills, Servable
  <2>2. entry[u].seen[p] <= content[p] /\ entry[u].seen[p] >= fence[u][p]
    BY <2>1 DEF EntryFits, Servable
  <2>3. fence[u][p] = content[p]
    BY DEF IInv, Fences, UnqueuedIsFenced
  <2>4. entry[u].seen[p] \in Nat /\ content[p] \in Nat
    BY <2>1, CacheAssumption DEF IInv, TypeOK, Entries, Contents
  <2> QED
    BY <2>2, <2>3, <2>4
<1> QED
  BY InitInv, StepInv, <1>1, PTL DEF Spec
=============================================================================
