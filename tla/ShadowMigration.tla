-------------------------- MODULE ShadowMigration --------------------------
(***************************************************************************)
(* The vectors behind search, and their migration to another model         *)
(* (domains/llm/services: embedPage of embedding-service.ts and all of     *)
(* shadow-migration-service.ts).  Runs of embedPage, the backfill job and  *)
(* the administrators' requests share one database: page_embeddings, the   *)
(* dirty flags, the state row in admin_settings and the column that is     *)
(* added for the new model.  A text stands for a page's title and body, a  *)
(* model for a pair of provider and model, a page for its chunks.          *)
(* Migration DDL holds ACCESS EXCLUSIVE, every write of page_embeddings a  *)
(* lock that conflicts with it until its COMMIT.                           *)
(***************************************************************************)
EXTENDS Naturals, FiniteSets

CONSTANTS
  Pages,
  Texts,
  Short,       \* texts below the embeddability floor
  Models,
  NoModel,
  Embedders,   \* runs of embedPage: scans that overlap, and the page routes
  Admins,      \* requests to the migration routes
  MaxImages,   \* bound of image_analysis_revision
  MaxEpochs,   \* bound of the starts and swaps; a revert may follow the last
  Hazards      \* races that are let in, of {"settle", "overtake", "reuse", "probe", "gate", "flip"}

ASSUME ShadowAssumption ==
  /\ Short \subseteq Texts
  /\ NoModel \notin Models
  /\ MaxImages \in Nat
  /\ MaxEpochs \in Nat
  /\ "no" \notin Admins

VARIABLES
  body,        \* pages.title and body_html
  images,      \* pages.image_analysis_revision
  dirty,       \* pages.embedding_dirty
  rows,        \* page_embeddings of a page, or NoRows
  column,      \* the extra vector column: "none", "next" or "prev"
  indexed,     \* the indexes on embedding_next exist
  mig,         \* the migration's state row
  assigned,    \* the model of the embedding use case
  epochs,      \* stamps handed out (startedAt, swappedAt, revertedAt)
  ddl,         \* the request that holds ACCESS EXCLUSIVE between steps, or "no"
  embed,       \* per run of embedPage: its local state
  fill,        \* the backfill job
  admin        \* per request: its local state

vars == <<body, images, dirty, rows, column, indexed, mig, assigned, epochs, ddl,
          embed, fill, admin>>
pageVars == <<body, images, dirty, rows>>
schemaVars == <<column, indexed, mig, assigned, epochs, ddl>>

NoRows == [text |-> "none", images |-> 0, live |-> NoModel, extra |-> NoModel, skewed |-> FALSE]
NoMigration == [status |-> "none", start |-> 0, stamp |-> 0, model |-> NoModel, prev |-> NoModel]
NoEmbed == [at |-> "idle"]
NoFill == [at |-> "none"]
NoRequest == [at |-> "idle"]

\* shadowStateFingerprint: a row's status and stamps.
Fingerprint(m) == <<m.status, m.stamp>>

Rows == [text : Texts, images : 0..MaxImages, live : Models,
         extra : Models \cup {NoModel}, skewed : BOOLEAN]  \* extra is of another text
Fingerprints == {"none", "active", "swapped", "aborting"} \X (0..(MaxEpochs + 1))
Migrations ==
  [status : {"none", "active", "swapped", "aborting"},
   start : 0..(MaxEpochs + 1),   \* startedAt
   stamp : 0..(MaxEpochs + 1),   \* the latest of startedAt, swappedAt and revertedAt
   model : Models \cup {NoModel}, prev : Models \cup {NoModel}]

\* What a run of embedPage, the job and a request hold at each of their stages.
Planned == [at : {"planned"}, page : Pages, text : Texts, images : 0..MaxImages]
Bound ==
  [at : {"bound"}, page : Pages, text : Texts, images : 0..MaxImages, epoch : Fingerprints]
Generated ==
  [at : {"generated"}, page : Pages, text : Texts, images : 0..MaxImages,
   epoch : Fingerprints, live : Models]
Complete ==
  [at : {"ready", "locked", "conflict"}, page : Pages, text : Texts, images : 0..MaxImages,
   epoch : Fingerprints, live : Models, extra : Models \cup {NoModel}]
Runs == {NoEmbed} \cup Planned \cup Bound \cup Generated \cup Complete

Filling == [at : {"running"}, model : Models, failed : SUBSET Pages]
Holding ==
  [at : {"have"}, model : Models, failed : SUBSET Pages, page : Pages, text : Texts,
   extra : Models]
Jobs == {NoFill} \cup [at : {"queued"}] \cup Filling \cup Holding

Starting == [at : {"starting"}, model : Models]
Waiting == [at : {"enqueuing", "aborting", "reverting", "cleaning"}]
Swapping == [at : {"swapping"}, prev : Models, start : 0..(MaxEpochs + 1)]
SwapLocked == [at : {"swaplocked"}, prev : Models, state : Migrations]
Flipping == [at : {"flipping"}, state : Migrations]
Requests ==
  {NoRequest} \cup Starting \cup Waiting \cup Swapping \cup SwapLocked \cup Flipping

TypeOK ==
  /\ body \in [Pages -> Texts]
  /\ images \in [Pages -> 0..MaxImages]
  /\ dirty \in [Pages -> BOOLEAN]
  /\ rows \in [Pages -> Rows \cup {NoRows}]
  /\ column \in {"none", "next", "prev"}
  /\ indexed \in BOOLEAN
  /\ mig \in Migrations
  /\ assigned \in Models
  /\ epochs \in 0..(MaxEpochs + 1)
  /\ ddl \in Admins \cup {"no"}
  /\ embed \in [Embedders -> Runs]
  /\ fill \in Jobs
  /\ admin \in [Admins -> Requests]

Init ==
  /\ body \in [Pages -> Texts]
  /\ images = [p \in Pages |-> 0]
  /\ dirty = [p \in Pages |-> TRUE]
  /\ rows = [p \in Pages |-> NoRows]
  /\ column = "none"
  /\ indexed = FALSE
  /\ mig = NoMigration
  /\ assigned \in Models
  /\ epochs = 0
  /\ ddl = "no"
  /\ embed = [e \in Embedders |-> NoEmbed]
  /\ fill = NoFill
  /\ admin = [a \in Admins |-> NoRequest]

-----------------------------------------------------------------------------
(* Writers of pages *)

\* A write of the body or title raises the dirty flag in the same statement.
Edit(p) ==
  /\ ddl = "no"
  /\ \E t \in Texts \ {body[p]} : body' = [body EXCEPT ![p] = t]
  /\ dirty' = [dirty EXCEPT ![p] = TRUE]
  /\ UNCHANGED <<images, rows, schemaVars, embed, fill, admin>>

\* An image analysis commits: D6.3, revision and flag in one statement.
Analyse(p) ==
  /\ ddl = "no"
  /\ images[p] < MaxImages
  /\ images' = [images EXCEPT ![p] = @ + 1]
  /\ dirty' = [dirty EXCEPT ![p] = TRUE]
  /\ UNCHANGED <<body, rows, schemaVars, embed, fill, admin>>

-----------------------------------------------------------------------------
(* embedPage *)

\* The caller reads the page (the scan's batch, or a page route), and later
\* planDerivedChunks its analyses and their revision.  What happens to the page
\* between the two reads has the effect it would have after, or before, both.
Select(e, p) ==
  /\ embed[e].at = "idle"
  /\ ddl = "no"
  /\ embed' = [embed EXCEPT ![e] =
       [at |-> "planned", page |-> p, text |-> body[p], images |-> images[p]]]
  /\ UNCHANGED <<pageVars, schemaVars, fill, admin>>

\* The texts a settled page may hold by now.
Settleable(t) == IF "settle" \in Hazards THEN Texts ELSE {t}

\* Below the floor: the flag is cleared under the image guard alone, whatever
\* was written to the page since it was selected; its old rows stay.
Settle(e) ==
  LET j == embed[e]
  IN  /\ j.at = "planned"
      /\ j.text \in Short
      /\ ddl = "no"
      /\ body[j.page] \in Settleable(j.text)
      /\ dirty' = [dirty EXCEPT ![j.page] = images[j.page] # j.images /\ @]
      /\ embed' = [embed EXCEPT ![e] = NoEmbed]
      /\ UNCHANGED <<body, images, rows, schemaVars, fill, admin>>

\* The epoch snapshot, before the model is resolved; a short page goes on when
\* its analyses carry it over the floor.
Snapshot(e) ==
  LET j == embed[e]
  IN  /\ j.at = "planned"
      /\ j.text \in Short => j.images > 0
      /\ embed' = [embed EXCEPT ![e] =
           [at |-> "bound", page |-> j.page, text |-> j.text, images |-> j.images,
            epoch |-> Fingerprint(mig)]]
      /\ UNCHANGED <<pageVars, schemaVars, fill, admin>>

\* resolveUsecase, and phase 1: the vectors of the live model.
Generate(e) ==
  LET j == embed[e]
  IN  /\ j.at = "bound"
      /\ embed' = [embed EXCEPT ![e] =
           [at |-> "generated", page |-> j.page, text |-> j.text, images |-> j.images,
            epoch |-> j.epoch, live |-> assigned]]
      /\ UNCHANGED <<pageVars, schemaVars, fill, admin>>

\* The dual write: getActiveShadowTarget reads the state row again; a shadow
\* failure leaves NULL.
DualWrite(e) ==
  LET j == embed[e]
  IN  /\ j.at = "generated"
      /\ \E v \in {NoModel} \cup {m \in {mig.model} : j.epoch[1] = "active" /\ mig.status = "active"} :
           embed' = [embed EXCEPT ![e] =
             [at |-> "ready", page |-> j.page, text |-> j.text, images |-> j.images,
              epoch |-> j.epoch, live |-> j.live, extra |-> v]]
      /\ UNCHANGED <<pageVars, schemaVars, fill, admin>>

\* A provider error, a lost connection or a restart: nothing is written.
Fail(e) ==
  /\ embed[e].at # "idle"
  /\ embed' = [embed EXCEPT ![e] = NoEmbed]
  /\ UNCHANGED <<pageVars, schemaVars, fill, admin>>

\* Every batch exceeded the context length: old rows stay, the flag is raised.
AllSkipped(e) ==
  /\ embed[e].at = "bound"
  /\ ddl = "no"
  /\ dirty' = [dirty EXCEPT ![embed[e].page] = TRUE]
  /\ embed' = [embed EXCEPT ![e] = NoEmbed]
  /\ UNCHANGED <<body, images, rows, schemaVars, fill, admin>>

MutRecheck(e) ==
  LET j == embed[e]
  IN  /\ j.at = "ready"
      /\ ddl = "no"
      /\ embed' = [embed EXCEPT ![e].at = "locked"]
      /\ UNCHANGED <<pageVars, schemaVars, fill, admin>>

\* BEGIN; DELETE, which waits for migration DDL; the epoch is read again.
Recheck(e) ==
  LET j == embed[e]
  IN  /\ j.at = "ready"
      /\ ddl = "no"
      /\ Fingerprint(mig) = j.epoch
      /\ embed' = [embed EXCEPT ![e].at = "locked"]
      /\ UNCHANGED <<pageVars, schemaVars, fill, admin>>

\* The epoch moved: ROLLBACK, and the page is queued again.
Requeue(e) ==
  LET j == embed[e]
  IN  /\ j.at = "ready"
      /\ ddl = "no"
      /\ Fingerprint(mig) # j.epoch
      /\ dirty' = [dirty EXCEPT ![j.page] = TRUE]
      /\ embed' = [embed EXCEPT ![e] = NoEmbed]
      /\ UNCHANGED <<body, images, rows, schemaVars, fill, admin>>

\* The analyses the rows may hold that a run replaces.
Replaceable(i) == IF "overtake" \in Hazards THEN 0..MaxImages ELSE 0..i

MutPublish(e) ==
  LET j == embed[e]
  IN  /\ j.at = "locked"
      /\ rows[j.page].images \in Replaceable(j.images)
      /\ rows' = [rows EXCEPT ![j.page] =
           [text |-> j.text, images |-> j.images, live |-> j.live, extra |-> j.extra,
            skewed |-> FALSE]]
      /\ dirty' = [dirty EXCEPT ![j.page] = images[j.page] # j.images /\ @]
      /\ embed' = [x \in Embedders |->
           IF x = e THEN NoEmbed
           ELSE IF embed[x].at = "locked" /\ embed[x].page = j.page
             THEN [embed[x] EXCEPT !.at = "conflict"] ELSE embed[x]]
      /\ UNCHANGED <<body, images, schemaVars, fill, admin>>

\* The source row is locked and still holds the text: the new rows replace the
\* old and COMMIT; that they may hold later analyses is not looked at.  Another
\* run between its DELETE and its INSERT on the page did not see these rows,
\* and will break their unique index.
Publish(e) ==
  LET j == embed[e]
  IN  /\ j.at = "locked"
      /\ rows[j.page].images \in Replaceable(j.images)
      /\ body[j.page] = j.text
      /\ rows' = [rows EXCEPT ![j.page] =
           [text |-> j.text, images |-> j.images, live |-> j.live, extra |-> j.extra,
            skewed |-> FALSE]]
      /\ dirty' = [dirty EXCEPT ![j.page] = images[j.page] # j.images /\ @]
      /\ embed' = [x \in Embedders |->
           IF x = e THEN NoEmbed
           ELSE IF embed[x].at = "locked" /\ embed[x].page = j.page
             THEN [embed[x] EXCEPT !.at = "conflict"] ELSE embed[x]]
      /\ UNCHANGED <<body, images, schemaVars, fill, admin>>

\* The text changed: ROLLBACK, and the page stays as it is.
Discard(e) ==
  /\ embed[e].at = "locked"
  /\ body[embed[e].page] # embed[e].text
  /\ embed' = [embed EXCEPT ![e] = NoEmbed]
  /\ UNCHANGED <<pageVars, schemaVars, fill, admin>>

-----------------------------------------------------------------------------
(* The backfill job: shadow-reembed, concurrency 1 *)

Stragglers == {p \in Pages : rows[p] # NoRows /\ rows[p].extra = NoModel}

\* runShadowBackfillJob reads the state row and its provider.
Fill ==
  /\ fill.at = "queued"
  /\ fill' = IF mig.status = "active"
             THEN [at |-> "running", model |-> mig.model, failed |-> {}] ELSE NoFill
  /\ UNCHANGED <<pageVars, schemaVars, embed, admin>>

\* The state row is read again, then the page's rows; their vectors come from
\* the provider the job began with.
FillPage(p) ==
  /\ fill.at = "running"
  /\ ddl = "no"
  /\ mig.status = "active"
  /\ p \in Stragglers \ fill.failed
  /\ fill' = [at |-> "have", model |-> fill.model, failed |-> fill.failed, page |-> p,
              text |-> rows[p].text, extra |-> fill.model]
  /\ UNCHANGED <<pageVars, schemaVars, embed, admin>>

\* The rows a page has after its vectors of a text were written to them.
Stamped(r, t, m) == [r EXCEPT !.extra = m, !.skewed = r.text # t]

MutFillWrite ==
  /\ fill.at = "have"
  /\ ddl = "no"
  /\ column = "next"
  /\ rows' = IF fill.page \in Stragglers
             THEN [rows EXCEPT ![fill.page] = Stamped(@, fill.text, fill.extra)] ELSE rows
  /\ fill' = [at |-> "running", model |-> fill.model, failed |-> fill.failed]
  /\ UNCHANGED <<body, images, dirty, schemaVars, embed, admin>>

\* Only rows that are still NULL and still carry the text are stamped.
FillWrite ==
  /\ fill.at = "have"
  /\ ddl = "no"
  /\ column = "next"
  /\ rows' = IF fill.page \in Stragglers /\ rows[fill.page].text = fill.text
             THEN [rows EXCEPT ![fill.page] = Stamped(@, fill.text, fill.extra)] ELSE rows
  /\ fill' = [at |-> "running", model |-> fill.model, failed |-> fill.failed]
  /\ UNCHANGED <<body, images, dirty, schemaVars, embed, admin>>

\* A provider error, or the column is gone: the page is left a straggler.
FillFails ==
  /\ fill.at = "have"
  /\ fill' = [at |-> "running", model |-> fill.model, failed |-> fill.failed \cup {fill.page}]
  /\ UNCHANGED <<pageVars, schemaVars, embed, admin>>

\* The migration ended, or no page is left to try: the indexes are built once
\* nothing is NULL, while the column is there.
FillEnd ==
  /\ fill.at = "running"
  /\ ddl = "no"
  /\ mig.status # "active" \/ Stragglers \subseteq fill.failed
  /\ indexed' = (indexed \/ (column = "next" /\ Stragglers = {}))
  /\ fill' = NoFill
  /\ UNCHANGED <<pageVars, column, mig, assigned, epochs, ddl, embed, admin>>

FillCrash ==
  /\ fill.at \in {"running", "have"}
  /\ fill' = NoFill
  /\ UNCHANGED <<pageVars, schemaVars, embed, admin>>

-----------------------------------------------------------------------------
(* The administrators' requests *)

Become(a, r) == admin' = [admin EXCEPT ![a] = r]

\* LOCK TABLE ... ACCESS EXCLUSIVE is granted.
Exclusive == ddl = "no" /\ \A e \in Embedders : embed[e].at \notin {"locked", "conflict"}

\* startShadowMigration up to the probe of the pair.
StartProbe(a) ==
  /\ admin[a].at = "idle"
  /\ mig.status = "none"
  /\ fill.at = "none"
  /\ \E m \in Models : Become(a, [at |-> "starting", model |-> m])
  /\ UNCHANGED <<pageVars, schemaVars, embed, fill>>

\* The jobs a start may overlook: the job is checked before the probe only.
Overlooked == IF "probe" \in Hazards THEN {"none", "queued", "running", "have"}
              ELSE {"none", "queued"}

\* Lock first, re-verify second: the columns, which ADD COLUMN requires to be
\* absent, and the state row in one COMMIT.
StartCommit(a) ==
  /\ admin[a].at = "starting"
  /\ Exclusive
  /\ mig.status = "none"
  /\ column = "none"
  /\ fill.at \in Overlooked
  /\ epochs < MaxEpochs
  /\ column' = "next"
  /\ epochs' = epochs + 1
  /\ mig' = [status |-> "active", start |-> epochs + 1, stamp |-> epochs + 1,
              model |-> admin[a].model, prev |-> NoModel]
  /\ Become(a, [at |-> "enqueuing"])
  /\ UNCHANGED <<pageVars, indexed, assigned, ddl, embed, fill>>

\* rerunShadowBackfill: the state and the job are read, then it is enqueued.
Rerun(a) ==
  /\ admin[a].at = "idle"
  /\ mig.status = "active"
  /\ fill.at = "none"
  /\ Become(a, [at |-> "enqueuing"])
  /\ UNCHANGED <<pageVars, schemaVars, embed, fill>>

\* enqueueJob under the fixed id is ignored while that job is alive.
Enqueue(a) ==
  /\ admin[a].at = "enqueuing"
  /\ fill' = IF fill.at = "none" THEN [at |-> "queued"] ELSE fill
  /\ Become(a, NoRequest)
  /\ UNCHANGED <<pageVars, schemaVars, embed>>

\* performShadowSwap up to the lock: the gate, and the previous assignment.  The
\* code does not keep startedAt: it is here for SameMigration.
SwapGate(a) ==
  /\ admin[a].at = "idle"
  /\ ddl = "no"
  /\ mig.status = "active"
  /\ Stragglers = {}
  /\ indexed
  /\ Become(a, [at |-> "swapping", prev |-> assigned, start |-> mig.start])
  /\ UNCHANGED <<pageVars, schemaVars, embed, fill>>

\* The migration under the lock is the one whose gate was read: with hazard
\* "gate" the wait for the lock may outlive a swap, a cleanup and a new start.
SameMigration(a) == "gate" \in Hazards \/ admin[a].start = mig.start

MutSwapLock(a) ==
  /\ admin[a].at = "swapping"
  /\ SameMigration(a)
  /\ Exclusive
  /\ mig.status = "active"
  /\ ddl' = a
  /\ Become(a, [at |-> "swaplocked", prev |-> admin[a].prev, state |-> mig])
  /\ UNCHANGED <<pageVars, column, indexed, mig, assigned, epochs, embed, fill>>

\* Under the lock: the state is read and no straggler appeared.
SwapLock(a) ==
  /\ admin[a].at = "swapping"
  /\ SameMigration(a)
  /\ Exclusive
  /\ mig.status = "active"
  /\ Stragglers = {}
  /\ ddl' = a
  /\ Become(a, [at |-> "swaplocked", prev |-> admin[a].prev, state |-> mig])
  /\ UNCHANGED <<pageVars, column, indexed, mig, assigned, epochs, embed, fill>>

\* The renames: embedding becomes the extra column and the extra one live.
Exchanged(r) == [r EXCEPT !.live = r.extra, !.extra = r.live]

\* COMMIT of the swap.  The state row is written over what an abort may have
\* put there after the read: the row is not locked by the table lock.
SwapSave(a) ==
  LET s == admin[a].state
  IN  /\ admin[a].at = "swaplocked"
      /\ epochs < MaxEpochs
      /\ rows' = [p \in Pages |-> IF rows[p] = NoRows THEN NoRows ELSE Exchanged(rows[p])]
      /\ column' = "prev"
      /\ assigned' = s.model
      /\ epochs' = epochs + 1
      /\ mig' = [s EXCEPT !.status = "swapped", !.stamp = epochs + 1, !.prev = admin[a].prev]
      /\ ddl' = "no"
      /\ Become(a, NoRequest)
      /\ UNCHANGED <<body, images, dirty, indexed, embed, fill>>

\* rollbackShadowMigration reads the state and takes one of its routes.
Rollback(a) ==
  /\ admin[a].at = "idle"
  /\ \/ mig.status = "active" /\ Become(a, [at |-> "flipping", state |-> mig])
     \/ mig.status = "aborting" /\ Become(a, [at |-> "aborting"])
     \/ mig.status = "swapped" /\ Become(a, [at |-> "reverting"])
  /\ UNCHANGED <<pageVars, schemaVars, embed, fill>>

\* The row the abort read is still the one it writes over: with hazard "flip"
\* a swap and its revert, or a whole migration, may lie in between.
Unmoved(a) == "flip" \in Hazards \/ mig.status # "active" \/ admin[a].state = mig

MutAbortFlip(a) ==
  /\ admin[a].at = "flipping"
  /\ Unmoved(a)
  /\ mig.status # "none"
  /\ mig' = [admin[a].state EXCEPT !.status = "aborting"]
  /\ Become(a, [at |-> "aborting"])
  /\ UNCHANGED <<pageVars, column, indexed, assigned, epochs, ddl, embed, fill>>

\* The compare-and-set looks at the status alone and writes back the row that
\* was read.
AbortFlip(a) ==
  /\ admin[a].at = "flipping"
  /\ Unmoved(a)
  /\ mig.status = "active"
  /\ mig' = [admin[a].state EXCEPT !.status = "aborting"]
  /\ Become(a, [at |-> "aborting"])
  /\ UNCHANGED <<pageVars, column, indexed, assigned, epochs, ddl, embed, fill>>

\* Another abort flipped the row first: this one goes on to the drops.
AbortFollow(a) ==
  /\ admin[a].at = "flipping"
  /\ mig.status = "aborting"
  /\ Become(a, [at |-> "aborting"])
  /\ UNCHANGED <<pageVars, schemaVars, embed, fill>>

\* The runs that hold vectors and whose snapshot found no migration.
Unstamped == {e \in Embedders : embed[e].at \in {"generated", "ready"}
                                /\ embed[e].epoch = Fingerprint(NoMigration)}

\* Those that would see "none" again although a swap lies in between.
Outlived ==
  IF "reuse" \in Hazards \/ mig.status = "none" \/ (mig.start = mig.stamp /\ mig.stamp = epochs)
  THEN {} ELSE Unstamped

\* DROP COLUMN IF EXISTS of the extra column, under the name given.
Without(name) ==
  IF column # name THEN rows
  ELSE [p \in Pages |-> IF rows[p] = NoRows THEN NoRows
                        ELSE [rows[p] EXCEPT !.extra = NoModel, !.skewed = FALSE]]

\* The drops, guarded by the state read under the lock.  Without hazard
\* "reuse" no run of embedPage outlives a migration that was swapped.
AbortDrop(a) ==
  /\ admin[a].at = "aborting"
  /\ Exclusive
  /\ mig.status \in {"aborting", "none"}
  /\ Outlived = {}
  /\ rows' = Without("next")
  /\ column' = IF column = "next" THEN "none" ELSE column
  /\ indexed' = FALSE
  /\ mig' = NoMigration
  /\ Become(a, NoRequest)
  /\ UNCHANGED <<body, images, dirty, assigned, epochs, ddl, embed, fill>>

\* Pages whose rows are left without a live vector are dirtied again and the
\* rows deleted.
Requeued(next) == [p \in Pages |-> dirty[p] \/ (next[p] # NoRows /\ next[p].live = NoModel)]
Kept(next) == [p \in Pages |-> IF next[p].live = NoModel THEN NoRows ELSE next[p]]

\* The revert: renames back, the previous assignment, a new stamp.
Revert(a) ==
  LET next == [p \in Pages |-> IF rows[p] = NoRows THEN NoRows ELSE Exchanged(rows[p])]
  IN  /\ admin[a].at = "reverting"
      /\ Exclusive
      /\ mig.status = "swapped"
      /\ column = "prev"
      /\ epochs <= MaxEpochs
      /\ rows' = Kept(next)
      /\ dirty' = Requeued(next)
      /\ column' = "next"
      /\ assigned' = mig.prev
      /\ epochs' = epochs + 1
      /\ mig' = [mig EXCEPT !.status = "active", !.stamp = epochs + 1, !.prev = NoModel]
      /\ Become(a, NoRequest)
      /\ UNCHANGED <<body, images, indexed, ddl, embed, fill>>

\* cleanupShadowMigration reads the state.
CleanupRead(a) ==
  /\ admin[a].at = "idle"
  /\ mig.status = "swapped"
  /\ Become(a, [at |-> "cleaning"])
  /\ UNCHANGED <<pageVars, schemaVars, embed, fill>>

\* The new model is kept: previous columns and state row are dropped, and rows
\* without a live vector are requeued.
Cleanup(a) ==
  /\ admin[a].at = "cleaning"
  /\ Exclusive
  /\ mig.status = "swapped"
  /\ Outlived = {}
  /\ rows' = Kept(Without("prev"))
  /\ dirty' = Requeued(Without("prev"))
  /\ column' = IF column = "prev" THEN "none" ELSE column
  /\ indexed' = FALSE
  /\ mig' = NoMigration
  /\ Become(a, NoRequest)
  /\ UNCHANGED <<body, images, assigned, epochs, ddl, embed, fill>>

\* A request is refused under its lock, gives up on it, or dies.
GiveUp(a) ==
  /\ admin[a].at # "idle"
  /\ ddl' = IF ddl = a THEN "no" ELSE ddl
  /\ Become(a, NoRequest)
  /\ UNCHANGED <<pageVars, column, indexed, mig, assigned, epochs, embed, fill>>

-----------------------------------------------------------------------------

Next ==
  \/ \E p \in Pages : Edit(p) \/ Analyse(p)
  \/ \E e \in Embedders :
       \/ \E p \in Pages : Select(e, p)
       \/ Settle(e) \/ Snapshot(e) \/ Generate(e) \/ DualWrite(e)
       \/ Fail(e) \/ AllSkipped(e)
       \/ Recheck(e) \/ Requeue(e) \/ Publish(e) \/ Discard(e)
  \/ Fill \/ (\E p \in Pages : FillPage(p)) \/ FillWrite \/ FillFails \/ FillEnd \/ FillCrash
  \/ \E a \in Admins :
       \/ StartProbe(a) \/ StartCommit(a) \/ Rerun(a) \/ Enqueue(a)
       \/ SwapGate(a) \/ SwapLock(a) \/ SwapSave(a)
       \/ Rollback(a) \/ AbortFlip(a) \/ AbortFollow(a) \/ AbortDrop(a) \/ Revert(a)
       \/ CleanupRead(a) \/ Cleanup(a) \/ GiveUp(a)

Spec == Init /\ [][Next]_vars

-----------------------------------------------------------------------------

\* Search compares like with like: every live vector was made by the model the
\* queries resolve, through swaps, reverts, crashes and embeds in flight.
OneSpace == \A p \in Pages : rows[p] # NoRows => rows[p].live = assigned

\* The extra column never mixes models or texts: while a migration can still
\* swap it holds its model's vectors of the text beside them, and after the
\* swap those a revert goes back to.
ExtraSpace ==
  \A p \in Pages : rows[p].extra # NoModel =>
    /\ ~rows[p].skewed
    /\ mig.status = "active" => rows[p].extra = mig.model
    /\ mig.status = "swapped" => rows[p].extra = mig.prev

\* No page drops out of the index unnoticed: a page that is not marked dirty
\* and has something to embed is embedded as it is now.
CleanIsCurrent ==
  \A p \in Pages : ~dirty[p] /\ body[p] \notin Short =>
    rows[p].text = body[p] /\ rows[p].images = images[p]

\* The schema is the one the state row speaks of, so that no state strands a
\* column, no retried abort erases a swap, and the INSERT of an embed that
\* passed its recheck names columns that exist.
SchemaMatches ==
  /\ column = CASE mig.status = "none" -> "none"
                [] mig.status \in {"active", "aborting"} -> "next"
                [] mig.status = "swapped" -> "prev"
  /\ \A e \in Embedders : embed[e].at = "locked" /\ embed[e].epoch[1] = "active" => column = "next"

=============================================================================
