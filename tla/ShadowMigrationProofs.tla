----------------------- MODULE ShadowMigrationProofs -----------------------
(***************************************************************************)
(* What the runs of ShadowMigration check, proved for all constants:       *)
(* SchemaMatches and TypeOK whatever the hazards, CleanIsCurrent without   *)
(* "settle" and "overtake", OneSpace and ExtraSpace without the four that  *)
(* break them.                                                             *)
(***************************************************************************)
EXTENDS ShadowMigration, TLAPS

-----------------------------------------------------------------------------
(* The inductive invariants *)

\* The state row names the models that its status speaks of.
MigShape ==
  /\ mig.status = "none" => mig = NoMigration
  /\ mig.status # "none" => mig.model \in Models
  /\ mig.status = "swapped" => mig.prev \in Models

\* A request writes back only a row that it read as active.
ReadActive ==
  \A a \in Admins :
    admin[a].at \in {"swaplocked", "flipping"} =>
      admin[a].state.status = "active" /\ admin[a].state.model \in Models

\* ACCESS EXCLUSIVE between steps is the swap's, and no embed writes meanwhile.
LockHeld ==
  /\ \A a \in Admins : admin[a].at = "swaplocked" <=> ddl = a
  /\ ddl # "no" => \A e \in Embedders : embed[e].at \notin {"locked", "conflict"}

\* No straggler appears while the swap renames.
AllCovered == ddl # "no" => Stragglers = {}

SchemaInv == TypeOK /\ MigShape /\ ReadActive /\ LockHeld /\ AllCovered /\ SchemaMatches

\* No run holds analyses the page does not have yet.
RunsBehind ==
  \A e \in Embedders : embed[e].at # "idle" => embed[e].images <= images[embed[e].page]

\* The epoch of a run was handed out, and no abort will bring it back.
EpochPast(j, m, n) ==
  j.at \in {"bound", "generated", "ready"} =>
    /\ j.epoch[2] <= n
    /\ j.epoch[1] = "aborting" /\ m.status = "active" => j.epoch[2] < m.stamp

\* The migration m, if there is one, has not changed the assignment.
Untouched(m, n) == m.status = "none" \/ (m.start = m.stamp /\ m.stamp = n)

\* A run that would pass its recheck, or that would pass it if the migration
\* were aborted now, has vectors of the assigned model.
LiveCurrent(j, m, who, n) ==
  /\ j.at \in {"generated", "ready"} =>
       /\ j.epoch = Fingerprint(m) => j.live = who
       /\ j.epoch = Fingerprint(NoMigration) /\ Untouched(m, n) => j.live = who
  /\ j.at = "locked" => j.live = who

\* Its vectors for the extra column are those of the migration's model.
ExtraCurrent(j, m) ==
  /\ j.at \in {"ready", "locked"} /\ j.epoch[1] # "active" => j.extra = NoModel
  /\ j.at = "ready" /\ j.epoch = Fingerprint(m) => j.extra \in {NoModel, m.model}
  /\ j.at = "locked" =>
       /\ m.status = "active" => j.extra \in {NoModel, m.model}
       /\ m.status \in {"swapped", "none"} => j.extra = NoModel

RunOK(j, m, who, n) ==
  EpochPast(j, m, n) /\ LiveCurrent(j, m, who, n) /\ ExtraCurrent(j, m)

RowOK(r, m, who) ==
  /\ r # NoRows => r.live = who
  /\ ~r.skewed
  /\ r.extra # NoModel =>
       /\ m.status # "none"
       /\ m.status = "active" => r.extra = m.model
       /\ m.status = "swapped" => r.extra = m.prev

\* The backfill embeds with the migration's model.
JobOK(f, m) ==
  /\ f.at \in {"running", "have"} /\ m.status # "none" => f.model = m.model
  /\ f.at = "have" => f.extra = f.model

\* A swap at the gate remembers the assignment that it will replace, and one
\* under the lock the row that is there, flipped or not.
SwapOK(q, m, who, n) ==
  /\ q.at = "swapping" =>
       /\ q.start <= n
       /\ m.status # "none" /\ q.start = m.start =>
            q.prev = IF m.status = "swapped" THEN m.prev ELSE who
  /\ q.at = "swaplocked" =>
       /\ q.prev = who
       /\ m = q.state \/ m = [q.state EXCEPT !.status = "aborting"]

\* What a swap has installed, and that stamps are handed out in order.
MigOK(m, who, n) ==
  /\ m.status = "swapped" => who = m.model
  /\ m.start <= m.stamp
  /\ m.stamp <= n

\* Under the lock every row is ready to become live.
AllReady ==
  \A a \in Admins : admin[a].at = "swaplocked" =>
    \A p \in Pages : rows[p] # NoRows => rows[p].extra = admin[a].state.model

SpaceInv ==
  /\ MigOK(mig, assigned, epochs)
  /\ \A e \in Embedders : RunOK(embed[e], mig, assigned, epochs)
  /\ \A p \in Pages : RowOK(rows[p], mig, assigned)
  /\ JobOK(fill, mig)
  /\ \A a \in Admins : SwapOK(admin[a], mig, assigned, epochs)
  /\ AllReady

-----------------------------------------------------------------------------
(* Typing *)

\* What a run, the job and a request hold at each of their stages.
LEMMA RunStages ==
  ASSUME NEW j \in Runs
  PROVE  /\ j = NoEmbed \/ j \in Planned \/ j \in Bound \/ j \in Generated \/ j \in Complete
         /\ j.at \in {"idle", "planned", "bound", "generated", "ready", "locked", "conflict"}
         /\ j.at = "idle" => j = NoEmbed
         /\ j.at # "idle" => j.page \in Pages /\ j.text \in Texts /\ j.images \in 0..MaxImages
         /\ j.at \in {"bound", "generated", "ready", "locked", "conflict"} =>
              j.epoch \in Fingerprints
         /\ j.at \in {"generated", "ready", "locked", "conflict"} => j.live \in Models
         /\ j.at \in {"ready", "locked", "conflict"} =>
              j \in Complete /\ j.extra \in Models \cup {NoModel}
  BY DEF Runs, NoEmbed, Planned, Bound, Generated, Complete

LEMMA JobStages ==
  ASSUME NEW f \in Jobs
  PROVE  /\ f.at = "running" => f \in Filling /\ f.model \in Models /\ f.failed \subseteq Pages
         /\ f.at = "have" =>
              /\ f \in Holding
              /\ f.model \in Models
              /\ f.failed \subseteq Pages
              /\ f.page \in Pages
              /\ f.text \in Texts
              /\ f.extra \in Models
  BY DEF Jobs, NoFill, Filling, Holding

LEMMA RequestStages ==
  ASSUME NEW q \in Requests
  PROVE  /\ q.at = "starting" => q.model \in Models
         /\ q.at = "swapping" => q.prev \in Models /\ q.start \in 0..(MaxEpochs + 1)
         /\ q.at = "swaplocked" => q.prev \in Models /\ q.state \in Migrations
         /\ q.at = "flipping" => q.state \in Migrations
  BY DEF Requests, NoRequest, Starting, Waiting, Swapping, SwapLocked, Flipping

LEMMA FingerprintTyped ==
  ASSUME NEW m \in Migrations
  PROVE  Fingerprint(m) \in Fingerprints
  BY DEF Migrations, Fingerprint, Fingerprints

\* The records that the steps build.
LEMMA NewRuns ==
  ASSUME NEW p \in Pages, NEW t \in Texts, NEW i \in 0..MaxImages, NEW f \in Fingerprints,
         NEW l \in Models, NEW x \in Models \cup {NoModel}
  PROVE  /\ NoEmbed \in Runs
         /\ [at |-> "planned", page |-> p, text |-> t, images |-> i] \in Runs
         /\ [at |-> "bound", page |-> p, text |-> t, images |-> i, epoch |-> f] \in Runs
         /\ [at |-> "generated", page |-> p, text |-> t, images |-> i, epoch |-> f,
             live |-> l] \in Runs
         /\ [at |-> "ready", page |-> p, text |-> t, images |-> i, epoch |-> f,
             live |-> l, extra |-> x] \in Runs
  BY DEF Runs, NoEmbed, Planned, Bound, Generated, Complete

LEMMA CompleteMoves ==
  ASSUME NEW j \in Complete
  PROVE  /\ [j EXCEPT !.at = "locked"] \in Runs
         /\ [j EXCEPT !.at = "conflict"] \in Runs
         /\ [text |-> j.text, images |-> j.images, live |-> j.live, extra |-> j.extra,
             skewed |-> FALSE] \in Rows
  BY DEF Runs, Complete, Rows

LEMMA NoEmbedTyped == NoEmbed \in Runs
  BY DEF Runs

LEMMA NoRequestTyped == NoRequest \in Requests
  BY DEF Requests

LEMMA NoFillTyped == NoFill \in Jobs
  BY DEF Jobs

\* No migration is a row, and no rows are none of a page's rows.
LEMMA Nothing ==
  /\ NoMigration \in Migrations
  /\ NoRows \notin Rows
  /\ NoRows.live = NoModel /\ NoRows.extra = NoModel /\ NoRows.skewed = FALSE
  BY ShadowAssumption DEF NoMigration, Migrations, NoRows, Rows

\* What the swaps and drops make of a page's rows.
LEMMA RowsMade ==
  ASSUME NEW r \in Rows
  PROVE  /\ r.extra # NoModel => Exchanged(r) \in Rows
         /\ Exchanged(r).live = r.extra /\ Exchanged(r).extra = r.live
         /\ Exchanged(r).text = r.text /\ Exchanged(r).images = r.images
         /\ Exchanged(r).skewed = r.skewed
         /\ Exchanged(r) # NoRows
  <1>1. /\ r.text \in Texts /\ r.images \in 0..MaxImages /\ r.live \in Models
        /\ r.extra \in Models \cup {NoModel} /\ r.skewed \in BOOLEAN
    BY DEF Rows
  <1>2. /\ Exchanged(r).live = r.extra /\ Exchanged(r).extra = r.live
        /\ Exchanged(r).text = r.text /\ Exchanged(r).images = r.images
        /\ Exchanged(r).skewed = r.skewed
        /\ r.extra # NoModel => Exchanged(r) \in Rows
    BY <1>1 DEF Exchanged, Rows
  <1>3. Exchanged(r) # NoRows
    <2>1. Exchanged(r).extra # NoModel
      BY <1>1, <1>2, ShadowAssumption
    <2> QED  BY <2>1, Nothing
  <1> QED  BY <1>2, <1>3

\* What the backfill makes of them.
LEMMA StampedRow ==
  ASSUME NEW r \in Rows, NEW t \in Texts, NEW m \in Models
  PROVE  /\ Stamped(r, t, m) \in Rows
         /\ Stamped(r, t, m).extra = m
         /\ Stamped(r, t, m).live = r.live
         /\ Stamped(r, t, m).text = r.text
         /\ Stamped(r, t, m).images = r.images
         /\ Stamped(r, t, m).skewed <=> r.text # t
  <1>1. /\ r.text \in Texts /\ r.images \in 0..MaxImages /\ r.live \in Models
        /\ r.extra \in Models \cup {NoModel} /\ r.skewed \in BOOLEAN
    BY DEF Rows
  <1> QED  BY <1>1 DEF Stamped, Rows

\* DROP COLUMN leaves a page its other vectors.
LEMMA RowsLeft ==
  ASSUME NEW p \in Pages, rows \in [Pages -> Rows \cup {NoRows}], NEW name
  PROVE  /\ Without(name)[p] \in Rows \cup {NoRows}
         /\ Without(name)[p] = NoRows <=> rows[p] = NoRows
         /\ Without(name)[p].text = rows[p].text /\ Without(name)[p].images = rows[p].images
         /\ Without(name)[p].live = rows[p].live
         /\ column = name =>
              Without(name)[p].extra = NoModel /\ Without(name)[p].skewed = FALSE
         /\ column # name => Without(name)[p] = rows[p]
  <1>1. CASE column # name
    BY <1>1, Nothing DEF Without
  <1>2. CASE column = name /\ rows[p] = NoRows
    BY <1>2, Nothing DEF Without
  <1>3. CASE column = name /\ rows[p] # NoRows
    <2>1. /\ rows[p] \in Rows
          /\ Without(name)[p] = [rows[p] EXCEPT !.extra = NoModel, !.skewed = FALSE]
      BY <1>3 DEF Without
    <2>2. /\ Without(name)[p] \in Rows
          /\ Without(name)[p].extra = NoModel /\ Without(name)[p].skewed = FALSE
          /\ Without(name)[p].text = rows[p].text /\ Without(name)[p].images = rows[p].images
          /\ Without(name)[p].live = rows[p].live
      BY <2>1 DEF Rows
    <2> QED  BY <1>3, <2>2, Nothing
  <1> QED  BY <1>1, <1>2, <1>3

-----------------------------------------------------------------------------
(* Type correctness of the steps that leave the schema alone *)

\* A step that changes one run, and flags at most.
LEMMA RunTyped ==
  ASSUME TypeOK, NEW e \in Embedders, NEW r \in Runs, embed' = [embed EXCEPT ![e] = r],
         dirty' \in [Pages -> BOOLEAN], UNCHANGED <<body, images, rows, schemaVars, fill, admin>>
  PROVE  TypeOK'
  BY DEF TypeOK, schemaVars

LEMMA PageTypes ==
  ASSUME TypeOK, NEW p \in Pages, Edit(p) \/ Analyse(p)
  PROVE  TypeOK'
  <1>1. CASE Edit(p)
    BY <1>1 DEF TypeOK, Edit, schemaVars
  <1>2. CASE Analyse(p)
    <2>1. images' \in [Pages -> 0..MaxImages]
      BY <1>2, ShadowAssumption DEF TypeOK, Analyse
    <2>2. dirty' \in [Pages -> BOOLEAN]
      BY <1>2 DEF TypeOK, Analyse
    <2> QED  BY <1>2, <2>1, <2>2 DEF TypeOK, Analyse, schemaVars
  <1> QED  BY <1>1, <1>2

\* The steps of a run that leave the rows alone.
Quietly(e) ==
  \/ \E p \in Pages : Select(e, p)
  \/ Settle(e) \/ Snapshot(e) \/ Generate(e) \/ DualWrite(e)
  \/ Fail(e) \/ AllSkipped(e) \/ Recheck(e) \/ Requeue(e) \/ Discard(e)

LEMMA RunTypes ==
  ASSUME TypeOK, MigShape, NEW e \in Embedders, Quietly(e)
  PROVE  TypeOK' /\ UNCHANGED <<rows, schemaVars, fill, admin>>
  <1> DEFINE j == embed[e]
  <1>0. j \in Runs /\ dirty \in [Pages -> BOOLEAN] /\ mig \in Migrations /\ assigned \in Models
    BY DEF TypeOK
  <1>r. /\ j.at # "idle" => j.page \in Pages /\ j.text \in Texts /\ j.images \in 0..MaxImages
        /\ j.at \in {"bound", "generated", "ready", "locked", "conflict"} =>
             j.epoch \in Fingerprints
        /\ j.at \in {"generated", "ready", "locked", "conflict"} => j.live \in Models
        /\ j.at \in {"ready", "locked", "conflict"} => j \in Complete
    BY <1>0, RunStages
  <1>1. ASSUME NEW p \in Pages, Select(e, p)
        PROVE  TypeOK' /\ UNCHANGED <<rows, schemaVars, fill, admin>>
    <2> DEFINE r == [at |-> "planned", page |-> p, text |-> body[p], images |-> images[p]]
    <2>1. body[p] \in Texts /\ images[p] \in 0..MaxImages
      BY DEF TypeOK
    <2>2. r \in Runs
      BY <2>1 DEF Runs, Planned
    <2>3. embed' = [embed EXCEPT ![e] = r]
          /\ UNCHANGED <<body, images, dirty, rows, schemaVars, fill, admin>>
      BY <1>1 DEF Select, pageVars
    <2>4. dirty' \in [Pages -> BOOLEAN]
      BY <1>0, <2>3
    <2> HIDE DEF r
    <2> QED  BY <2>2, <2>3, <2>4, RunTyped
  <1>2. CASE Settle(e) \/ Requeue(e) \/ AllSkipped(e)
    <2>1. /\ embed' = [embed EXCEPT ![e] = NoEmbed]
          /\ UNCHANGED <<body, images, rows, schemaVars, fill, admin>>
      BY <1>2 DEF Settle, Requeue, AllSkipped
    <2>2. j.page \in Pages
      BY <1>2, <1>r DEF Settle, Requeue, AllSkipped
    <2>3. dirty' \in [Pages -> BOOLEAN]
      BY <1>0, <1>2, <2>2 DEF Settle, Requeue, AllSkipped
    <2> QED  BY <2>1, <2>3, NoEmbedTyped, RunTyped
  <1>3. CASE Snapshot(e)
    <2> DEFINE r == [at |-> "bound", page |-> j.page, text |-> j.text, images |-> j.images,
                     epoch |-> Fingerprint(mig)]
    <2>1. r \in Runs
      BY <1>0, <1>3, <1>r, FingerprintTyped DEF Snapshot, Runs, Bound
    <2>2. embed' = [embed EXCEPT ![e] = r]
          /\ UNCHANGED <<body, images, dirty, rows, schemaVars, fill, admin>>
      BY <1>3 DEF Snapshot, pageVars
    <2>3. dirty' \in [Pages -> BOOLEAN]
      BY <1>0, <2>2
    <2> HIDE DEF r
    <2> QED  BY <2>1, <2>2, <2>3, RunTyped
  <1>4. CASE Generate(e)
    <2> DEFINE r == [at |-> "generated", page |-> j.page, text |-> j.text,
                     images |-> j.images, epoch |-> j.epoch, live |-> assigned]
    <2>1. r \in Runs
      BY <1>0, <1>4, <1>r DEF Generate, Runs, Generated
    <2>2. embed' = [embed EXCEPT ![e] = r]
          /\ UNCHANGED <<body, images, dirty, rows, schemaVars, fill, admin>>
      BY <1>4 DEF Generate, pageVars
    <2>3. dirty' \in [Pages -> BOOLEAN]
      BY <1>0, <2>2
    <2> HIDE DEF r
    <2> QED  BY <2>1, <2>2, <2>3, RunTyped
  <1>5. CASE DualWrite(e)
    <2>1. PICK v \in {NoModel} \cup {m \in {mig.model} : j.epoch[1] = "active" /\ mig.status = "active"} :
            embed' = [embed EXCEPT ![e] =
              [at |-> "ready", page |-> j.page, text |-> j.text, images |-> j.images,
               epoch |-> j.epoch, live |-> j.live, extra |-> v]]
      BY <1>5 DEF DualWrite
    <2> DEFINE r == [at |-> "ready", page |-> j.page, text |-> j.text, images |-> j.images,
                     epoch |-> j.epoch, live |-> j.live, extra |-> v]
    <2>2. v \in Models \cup {NoModel}
      BY <2>1 DEF MigShape
    <2>3. r \in Runs
      BY <1>5, <1>r, <2>2 DEF DualWrite, Runs, Complete
    <2>4. embed' = [embed EXCEPT ![e] = r]
          /\ UNCHANGED <<body, images, dirty, rows, schemaVars, fill, admin>>
      BY <1>5, <2>1 DEF DualWrite, pageVars
    <2>5. dirty' \in [Pages -> BOOLEAN]
      BY <1>0, <2>4
    <2> HIDE DEF r
    <2> QED  BY <2>3, <2>4, <2>5, RunTyped
  <1>6. CASE Fail(e) \/ Discard(e)
    <2>1. embed' = [embed EXCEPT ![e] = NoEmbed]
          /\ UNCHANGED <<body, images, dirty, rows, schemaVars, fill, admin>>
      BY <1>6 DEF Fail, Discard, pageVars
    <2>2. dirty' \in [Pages -> BOOLEAN]
      BY <1>0, <2>1
    <2> QED  BY <2>1, <2>2, NoEmbedTyped, RunTyped
  <1>7. CASE Recheck(e)
    <2> DEFINE r == [embed[e] EXCEPT !.at = "locked"]
    <2>1. r \in Runs
      BY <1>7, <1>r, CompleteMoves DEF Recheck
    <2>2. embed' = [embed EXCEPT ![e] = r]
          /\ UNCHANGED <<body, images, dirty, rows, schemaVars, fill, admin>>
      BY <1>7 DEF Recheck, pageVars
    <2>3. dirty' \in [Pages -> BOOLEAN]
      BY <1>0, <2>2
    <2> HIDE DEF r
    <2> QED  BY <2>1, <2>2, <2>3, RunTyped
  <1> QED  BY <1>1, <1>2, <1>3, <1>4, <1>5, <1>6, <1>7 DEF Quietly

LEMMA PublishTypes ==
  ASSUME TypeOK, NEW e \in Embedders, Publish(e)
  PROVE  TypeOK'
  <1> DEFINE j == embed[e]
             r == [text |-> j.text, images |-> j.images, live |-> j.live, extra |-> j.extra,
                   skewed |-> FALSE]
  <1>1. j \in Complete /\ j.page \in Pages
    BY RunStages DEF TypeOK, Publish
  <1>2. r \in Rows
    BY <1>1, CompleteMoves
  <1>3. rows' = [rows EXCEPT ![j.page] = r]
    BY DEF Publish
  <1>4. rows' \in [Pages -> Rows \cup {NoRows}]
    <2> HIDE DEF r
    <2> QED  BY <1>1, <1>2, <1>3 DEF TypeOK
  <1>5. dirty' \in [Pages -> BOOLEAN]
    BY <1>1 DEF TypeOK, Publish
  <1>6. embed' \in [Embedders -> Runs]
    <2>1. ASSUME NEW x \in Embedders
          PROVE  embed[x] \in Runs /\ (embed[x].at = "locked" => [embed[x] EXCEPT !.at = "conflict"] \in Runs)
      BY RunStages, CompleteMoves DEF TypeOK
    <2> QED  BY <2>1, NoEmbedTyped DEF Publish
  <1> QED  BY <1>4, <1>5, <1>6 DEF TypeOK, Publish, schemaVars

LEMMA FillTypes ==
  ASSUME TypeOK, MigShape,
         Fill \/ (\E p \in Pages : FillPage(p)) \/ FillWrite \/ FillFails \/ FillEnd \/ FillCrash
  PROVE  TypeOK'
  <1>0. fill \in Jobs /\ rows \in [Pages -> Rows \cup {NoRows}]
    BY DEF TypeOK
  <1>f. /\ fill.at = "running" => fill.model \in Models /\ fill.failed \subseteq Pages
        /\ fill.at = "have" =>
             /\ fill.model \in Models
             /\ fill.failed \subseteq Pages
             /\ fill.page \in Pages
             /\ fill.text \in Texts
             /\ fill.extra \in Models
    BY <1>0, JobStages
  <1>j. ASSUME fill' \in Jobs, rows' \in [Pages -> Rows \cup {NoRows}], indexed' \in BOOLEAN,
               UNCHANGED <<body, images, dirty, column, mig, assigned, epochs, ddl, embed, admin>>
        PROVE  TypeOK'
    BY <1>j DEF TypeOK
  <1>1. CASE Fill
    <2>1. fill' \in Jobs
      BY <1>1 DEF Fill, Jobs, Filling, MigShape
    <2> QED  BY <1>0, <1>1, <1>j, <2>1 DEF Fill, pageVars, schemaVars, TypeOK
  <1>2. ASSUME NEW p \in Pages, FillPage(p)
        PROVE  TypeOK'
    <2>1. rows[p] \in Rows
      BY <1>0, <1>2 DEF FillPage, Stragglers
    <2>2. rows[p].text \in Texts
      BY <2>1 DEF Rows
    <2>3. fill' \in Jobs
      BY <1>2, <1>f, <2>2 DEF FillPage, Jobs, Holding
    <2> QED  BY <1>0, <1>2, <1>j, <2>3 DEF FillPage, pageVars, schemaVars, TypeOK
  <1>3. CASE FillWrite
    <2>1. fill' \in Jobs
      BY <1>3, <1>f DEF FillWrite, Jobs, Filling
    <2>2. CASE fill.page \in Stragglers /\ rows[fill.page].text = fill.text
      <3>1. rows[fill.page] \in Rows
        BY <1>0, <2>2 DEF Stragglers
      <3>2. Stamped(rows[fill.page], fill.text, fill.extra) \in Rows
        BY <1>3, <1>f, <3>1, StampedRow DEF FillWrite
      <3>3. rows' = [rows EXCEPT ![fill.page] = Stamped(rows[fill.page], fill.text, fill.extra)]
        BY <1>3, <2>2 DEF FillWrite
      <3>4. rows' \in [Pages -> Rows \cup {NoRows}]
        BY <1>0, <3>2, <3>3
      <3> QED  BY <1>3, <1>j, <2>1, <3>4 DEF FillWrite, schemaVars, TypeOK
    <2>3. CASE ~(fill.page \in Stragglers /\ rows[fill.page].text = fill.text)
      <3>1. rows' = rows
        BY <1>3, <2>3 DEF FillWrite
      <3> QED  BY <1>0, <1>3, <1>j, <2>1, <3>1 DEF FillWrite, schemaVars, TypeOK
    <2> QED  BY <2>2, <2>3
  <1>4. CASE FillFails
    <2>1. fill' \in Jobs
      BY <1>4, <1>f DEF FillFails, Jobs, Filling
    <2> QED  BY <1>0, <1>4, <1>j, <2>1 DEF FillFails, pageVars, schemaVars, TypeOK
  <1>5. CASE FillEnd
    <2>1. fill' \in Jobs /\ indexed' \in BOOLEAN
      BY <1>5, NoFillTyped DEF FillEnd, TypeOK
    <2> QED  BY <1>0, <1>5, <1>j, <2>1 DEF FillEnd, pageVars
  <1>6. CASE FillCrash
    <2>1. fill' \in Jobs
      BY <1>6, NoFillTyped DEF FillCrash
    <2> QED  BY <1>0, <1>6, <1>j, <2>1 DEF FillCrash, pageVars, schemaVars, TypeOK
  <1> QED  BY <1>1, <1>2, <1>3, <1>4, <1>5, <1>6

-----------------------------------------------------------------------------
(* The state row, the lock and the columns *)

\* Steps of the runs and of the job: they touch neither the schema nor the
\* requests, and the rows only while no swap holds the lock.
LEMMA SchemaFrame ==
  ASSUME SchemaInv, TypeOK', UNCHANGED <<column, mig, ddl, admin>>,
         ddl = "no" \/ UNCHANGED rows,
         \A e \in Embedders : embed'[e].at \in {"locked", "conflict"} =>
           /\ ddl = "no"
           /\ embed'[e].at = "locked" /\ embed'[e].epoch[1] = "active" => column = "next"
  PROVE  SchemaInv'
  <1>1. MigShape'
    BY DEF SchemaInv, MigShape
  <1>2. ReadActive'
    BY DEF SchemaInv, ReadActive
  <1>3. LockHeld'
    BY DEF SchemaInv, LockHeld
  <1>4. AllCovered'
    BY DEF SchemaInv, AllCovered, Stragglers
  <1>5. SchemaMatches'
    BY DEF SchemaInv, SchemaMatches
  <1> QED  BY <1>1, <1>2, <1>3, <1>4, <1>5 DEF SchemaInv

\* While a run writes, no swap holds the lock; a run with an epoch of an active
\* migration has the column it writes.
LEMMA WritersFree ==
  ASSUME SchemaInv, NEW e \in Embedders, embed[e].at \in {"locked", "conflict"}
  PROVE  /\ ddl = "no"
         /\ embed[e].at = "locked" /\ embed[e].epoch[1] = "active" => column = "next"
  BY DEF SchemaInv, LockHeld, SchemaMatches

LEMMA PageSchema ==
  ASSUME SchemaInv, NEW p \in Pages, Edit(p) \/ Analyse(p)
  PROVE  SchemaInv'
  <1>1. UNCHANGED <<rows, column, mig, ddl, admin, embed>>
    BY DEF Edit, Analyse, schemaVars
  <1>2. TypeOK'
    BY PageTypes DEF SchemaInv
  <1> QED  BY <1>1, <1>2, SchemaFrame, WritersFree

LEMMA RunSchema ==
  ASSUME SchemaInv, NEW e \in Embedders, Quietly(e)
  PROVE  SchemaInv'
  <1>1. TypeOK' /\ UNCHANGED <<rows, schemaVars, fill, admin>>
    BY RunTypes DEF SchemaInv
  <1>2. UNCHANGED <<rows, column, mig, ddl, admin>>
    BY <1>1 DEF schemaVars
  <1>3. \A x \in Embedders \ {e} : embed'[x] = embed[x]
    BY DEF SchemaInv, TypeOK, Quietly, Select, Settle, Snapshot, Generate, DualWrite, Fail,
           AllSkipped, Recheck, Requeue, Discard
  <1>4. CASE Recheck(e)
    <2>1. embed[e] \in Complete /\ embed' = [embed EXCEPT ![e].at = "locked"]
      BY <1>4, RunStages DEF SchemaInv, TypeOK, Recheck
    <2>2. embed'[e].epoch = embed[e].epoch
      BY <2>1 DEF SchemaInv, TypeOK, Complete
    <2>3. ddl = "no" /\ (embed[e].epoch[1] = "active" => column = "next")
      BY <1>4 DEF SchemaInv, SchemaMatches, Recheck, Fingerprint
    <2> QED  BY <1>1, <1>2, <1>3, <2>2, <2>3, SchemaFrame, WritersFree
  <1>5. CASE ~Recheck(e)
    <2>1. embed'[e].at \notin {"locked", "conflict"}
      BY <1>5 DEF SchemaInv, TypeOK, Quietly, Select, Settle, Snapshot, Generate, DualWrite,
                  Fail, AllSkipped, Requeue, Discard, NoEmbed
    <2> QED  BY <1>1, <1>2, <1>3, <2>1, SchemaFrame, WritersFree
  <1> QED  BY <1>4, <1>5

\* What a publish does to the other runs.
LEMMA PublishRuns ==
  ASSUME TypeOK, NEW e \in Embedders, Publish(e), NEW x \in Embedders
  PROVE  \/ embed'[x] = embed[x] /\ x # e
         \/ embed'[x] = NoEmbed /\ x = e
         \/ embed[x].at = "locked" /\ embed'[x] = [embed[x] EXCEPT !.at = "conflict"]
            /\ embed'[x].at = "conflict" /\ embed[x] \in Complete
  <1>1. embed[x].at = "locked" => embed[x] \in Complete
    BY RunStages DEF TypeOK
  <1>2. embed[x] \in Complete => [embed[x] EXCEPT !.at = "conflict"].at = "conflict"
    BY DEF Complete
  <1> QED  BY <1>1, <1>2 DEF Publish

LEMMA PublishSchema ==
  ASSUME SchemaInv, NEW e \in Embedders, Publish(e)
  PROVE  SchemaInv'
  <1>1. TypeOK' /\ TypeOK
    BY PublishTypes DEF SchemaInv
  <1>2. UNCHANGED <<column, mig, ddl, admin>>
    BY DEF Publish, schemaVars
  <1>3. ddl = "no"
    BY WritersFree DEF Publish
  <1>4. ASSUME NEW x \in Embedders, embed'[x].at = "locked"
        PROVE  embed'[x] = embed[x]
    <2>1. \/ embed'[x] = embed[x]
          \/ embed'[x] = NoEmbed
          \/ embed'[x].at = "conflict"
      BY <1>1, PublishRuns
    <2> QED  BY <1>4, <2>1 DEF NoEmbed
  <1> QED  BY <1>1, <1>2, <1>3, <1>4, SchemaFrame, WritersFree

LEMMA FillSchema ==
  ASSUME SchemaInv,
         Fill \/ (\E p \in Pages : FillPage(p)) \/ FillWrite \/ FillFails \/ FillEnd \/ FillCrash
  PROVE  SchemaInv'
  <1>1. TypeOK'
    BY FillTypes DEF SchemaInv
  <1>2. UNCHANGED <<column, mig, ddl, admin, embed>> /\ (ddl = "no" \/ UNCHANGED rows)
    BY DEF Fill, FillPage, FillWrite, FillFails, FillEnd, FillCrash, schemaVars, pageVars
  <1> QED  BY <1>1, <1>2, SchemaFrame, WritersFree

\* The requests' steps that change the request alone, or the job's queue.
Asking(a) ==
  StartProbe(a) \/ Rerun(a) \/ Enqueue(a) \/ SwapGate(a) \/ Rollback(a) \/ AbortFollow(a)
    \/ CleanupRead(a)

LEMMA AskingSchema ==
  ASSUME SchemaInv, NEW a \in Admins, Asking(a)
  PROVE  SchemaInv' /\ UNCHANGED <<pageVars, schemaVars, embed>>
  <1>1. UNCHANGED <<pageVars, schemaVars, embed>>
    BY DEF Asking, StartProbe, Rerun, Enqueue, SwapGate, Rollback, AbortFollow, CleanupRead
  <1>2. mig \in Migrations /\ assigned \in Models /\ fill \in Jobs
    BY DEF SchemaInv, TypeOK
  <1>3. fill' \in Jobs
    BY <1>2 DEF Asking, StartProbe, Rerun, Enqueue, SwapGate, Rollback, AbortFollow, CleanupRead,
                Jobs
  <1>4. PICK q \in Requests : /\ admin' = [admin EXCEPT ![a] = q]
                              /\ q.at # "swaplocked"
                              /\ q.at = "flipping" => q.state = mig /\ mig.status = "active"
    <2>1. CASE Rollback(a) /\ mig.status = "active"
      <3>1. [at |-> "flipping", state |-> mig] \in Requests
        BY <1>2 DEF Requests, Flipping
      <3> QED  BY <2>1, <3>1 DEF Rollback, Become
    <2>2. CASE StartProbe(a)
      BY <2>2 DEF StartProbe, Become, Requests, Starting
    <2>3. CASE SwapGate(a)
      <3>1. [at |-> "swapping", prev |-> assigned, start |-> mig.start] \in Requests
        BY <1>2 DEF Requests, Swapping, Migrations
      <3> QED  BY <2>3, <3>1 DEF SwapGate, Become
    <2>4. CASE Rerun(a) \/ AbortFollow(a) \/ CleanupRead(a) \/ (Rollback(a) /\ mig.status # "active")
      BY <2>4 DEF Rerun, Rollback, AbortFollow, CleanupRead, Become, Requests, Waiting
    <2>5. CASE Enqueue(a)
      <3>1. admin' = [admin EXCEPT ![a] = NoRequest] /\ NoRequest.at = "idle"
        BY <2>5 DEF Enqueue, Become, NoRequest
      <3> QED  BY <3>1, NoRequestTyped
    <2> QED  BY <2>1, <2>2, <2>3, <2>4, <2>5 DEF Asking
  <1>5. admin[a].at # "swaplocked"
    BY DEF Asking, StartProbe, Rerun, Enqueue, SwapGate, Rollback, AbortFollow, CleanupRead
  <1>6. TypeOK'
    BY <1>1, <1>3, <1>4 DEF SchemaInv, TypeOK, pageVars, schemaVars
  <1>7. \A b \in Admins : admin'[b] = IF b = a THEN q ELSE admin[b]
    BY <1>4 DEF SchemaInv, TypeOK
  <1>8. MigShape' /\ SchemaMatches' /\ AllCovered'
    BY <1>1 DEF SchemaInv, MigShape, SchemaMatches, AllCovered, Stragglers, pageVars, schemaVars
  <1>9. LockHeld'
    BY <1>1, <1>4, <1>5, <1>7 DEF SchemaInv, LockHeld, schemaVars
  <1>10. ReadActive'
    BY <1>4, <1>7 DEF SchemaInv, ReadActive, MigShape
  <1> QED  BY <1>1, <1>6, <1>8, <1>9, <1>10 DEF SchemaInv

\* A step that rewrites the schema under a lock it takes and lets go: no run is
\* writing and no swap is under way, so the row and the columns are all.
LEMMA DdlFrame ==
  ASSUME SchemaInv, NEW a \in Admins, Exclusive, UNCHANGED <<ddl, embed>>, NEW q \in Requests,
         q.at \notin {"swaplocked", "flipping"}, admin' = [admin EXCEPT ![a] = q],
         TypeOK', MigShape',
         column' = CASE mig'.status = "none" -> "none"
                     [] mig'.status \in {"active", "aborting"} -> "next"
                     [] mig'.status = "swapped" -> "prev"
  PROVE  SchemaInv'
  <1>1. \A b \in Admins : admin[b].at # "swaplocked"
    BY ShadowAssumption DEF SchemaInv, LockHeld, Exclusive
  <1>2. \A b \in Admins : admin'[b] = IF b = a THEN q ELSE admin[b]
    BY DEF SchemaInv, TypeOK
  <1>3. LockHeld' /\ AllCovered'
    BY <1>1, <1>2, ShadowAssumption DEF LockHeld, AllCovered, Exclusive
  <1>4. ReadActive'
    BY <1>2 DEF SchemaInv, ReadActive
  <1>5. SchemaMatches'
    BY DEF SchemaMatches, Exclusive
  <1> QED  BY <1>3, <1>4, <1>5 DEF SchemaInv

LEMMA WaitingTyped ==
  /\ [at |-> "enqueuing"] \in Requests
  /\ [at |-> "aborting"] \in Requests
  BY DEF Requests, Waiting

LEMMA StartSchema ==
  ASSUME SchemaInv, NEW a \in Admins, StartCommit(a)
  PROVE  SchemaInv'
  <1>1. admin[a].model \in Models
    BY RequestStages DEF SchemaInv, TypeOK, StartCommit
  <1>2. epochs + 1 \in 0..(MaxEpochs + 1) /\ epochs' = epochs + 1
    BY ShadowAssumption DEF SchemaInv, TypeOK, StartCommit
  <1>3. mig' = [status |-> "active", start |-> epochs + 1, stamp |-> epochs + 1,
                model |-> admin[a].model, prev |-> NoModel]
    BY DEF StartCommit
  <1>4. mig' \in Migrations /\ MigShape'
    BY <1>1, <1>2, <1>3 DEF Migrations, MigShape
  <1>5. TypeOK'
    BY <1>2, <1>4, WaitingTyped DEF SchemaInv, TypeOK, StartCommit, Become, pageVars
  <1>6. mig'.status = "active"
    BY <1>3
  <1> DEFINE q == [at |-> "enqueuing"]
  <1>7. q \in Requests /\ q.at \notin {"swaplocked", "flipping"}
    BY WaitingTyped
  <1>8. admin' = [admin EXCEPT ![a] = q]
    BY DEF StartCommit, Become
  <1> HIDE DEF q
  <1> QED  BY <1>4, <1>5, <1>6, <1>7, <1>8, DdlFrame DEF StartCommit

\* What rows a drop or a revert leaves, and whose pages it queues again.
LEMMA KeptTyped ==
  ASSUME TypeOK, NEW next, \A p \in Pages : next[p] = NoRows \/ next[p].live # NoModel => next[p] \in Rows \cup {NoRows}
  PROVE  /\ Kept(next) \in [Pages -> Rows \cup {NoRows}]
         /\ Requeued(next) \in [Pages -> BOOLEAN]
  BY DEF TypeOK, Kept, Requeued

LEMMA DropSchema ==
  ASSUME SchemaInv, NEW a \in Admins, AbortDrop(a) \/ Cleanup(a)
  PROVE  SchemaInv'
  <1>0. rows \in [Pages -> Rows \cup {NoRows}] /\ TypeOK
    BY DEF SchemaInv, TypeOK
  <1>1. \A name : Without(name) \in [Pages -> Rows \cup {NoRows}]
    BY <1>0, RowsLeft DEF Without
  <1>2. rows' \in [Pages -> Rows \cup {NoRows}] /\ dirty' \in [Pages -> BOOLEAN]
    <2>1. CASE AbortDrop(a)
      BY <1>1, <2>1 DEF SchemaInv, TypeOK, AbortDrop
    <2>2. CASE Cleanup(a)
      BY <1>0, <1>1, <2>2, KeptTyped DEF Cleanup
    <2> QED  BY <2>1, <2>2
  <1>3. column' = "none"
    BY DEF SchemaInv, SchemaMatches, AbortDrop, Cleanup
  <1>4. mig' = NoMigration /\ admin' = [admin EXCEPT ![a] = NoRequest]
    BY DEF AbortDrop, Cleanup, Become
  <1>5. TypeOK'
    BY <1>2, <1>3, <1>4, Nothing, NoRequestTyped DEF SchemaInv, TypeOK, AbortDrop, Cleanup
  <1>6. MigShape'
    BY <1>4 DEF MigShape, NoMigration
  <1> QED
    BY <1>3, <1>4, <1>5, <1>6, DdlFrame, NoRequestTyped
    DEF AbortDrop, Cleanup, NoRequest, NoMigration

\* The rows after the renames.
Renamed == [p \in Pages |-> IF rows[p] = NoRows THEN NoRows ELSE Exchanged(rows[p])]

LEMMA RevertSchema ==
  ASSUME SchemaInv, NEW a \in Admins, Revert(a)
  PROVE  SchemaInv'
  <1>0. rows \in [Pages -> Rows \cup {NoRows}] /\ TypeOK /\ mig \in Migrations
    BY DEF SchemaInv, TypeOK
  <1>1. rows' = Kept(Renamed) /\ dirty' = Requeued(Renamed)
    BY DEF Revert, Renamed
  <1>2. ASSUME NEW p \in Pages
        PROVE  Renamed[p] = NoRows \/ Renamed[p].live # NoModel => Renamed[p] \in Rows \cup {NoRows}
    BY <1>0, RowsMade DEF Renamed
  <1>3. rows' \in [Pages -> Rows \cup {NoRows}] /\ dirty' \in [Pages -> BOOLEAN]
    BY <1>0, <1>1, <1>2, KeptTyped
  <1>4. epochs + 1 \in 0..(MaxEpochs + 1) /\ epochs' = epochs + 1
    BY ShadowAssumption DEF SchemaInv, TypeOK, Revert
  <1>5. /\ mig' = [mig EXCEPT !.status = "active", !.stamp = epochs + 1, !.prev = NoModel]
        /\ mig.model \in Models /\ mig.prev \in Models
    BY DEF Revert, SchemaInv, MigShape
  <1>6. mig' \in Migrations /\ mig'.status = "active" /\ mig'.model \in Models
    BY <1>0, <1>4, <1>5 DEF Migrations
  <1>7. MigShape'
    BY <1>6 DEF MigShape
  <1>8. TypeOK'
    BY <1>3, <1>4, <1>5, <1>6, NoRequestTyped DEF SchemaInv, TypeOK, Revert, Become
  <1> QED
    BY <1>6, <1>7, <1>8, DdlFrame, NoRequestTyped DEF Revert, Become, NoRequest

LEMMA SwapLockSchema ==
  ASSUME SchemaInv, NEW a \in Admins, SwapLock(a)
  PROVE  SchemaInv'
  <1> DEFINE q == [at |-> "swaplocked", prev |-> admin[a].prev, state |-> mig]
  <1>1. q \in Requests
    BY RequestStages DEF SchemaInv, TypeOK, SwapLock, Requests, SwapLocked
  <1>2. admin' = [admin EXCEPT ![a] = q] /\ q.at = "swaplocked" /\ q.state = mig
    BY DEF SwapLock, Become
  <1> HIDE DEF q
  <1>3. \A b \in Admins : admin'[b] = IF b = a THEN q ELSE admin[b]
    BY <1>2 DEF SchemaInv, TypeOK
  <1>4. TypeOK'
    BY <1>1, <1>2 DEF SchemaInv, TypeOK, SwapLock, pageVars
  <1>5. \A b \in Admins : admin[b].at # "swaplocked"
    BY ShadowAssumption DEF SchemaInv, LockHeld, SwapLock, Exclusive
  <1>6. LockHeld'
    BY <1>2, <1>3, <1>5 DEF LockHeld, SwapLock, Exclusive
  <1>7. ReadActive'
    BY <1>2, <1>3 DEF SchemaInv, ReadActive, MigShape, SwapLock
  <1>8. MigShape' /\ AllCovered' /\ SchemaMatches'
    BY DEF SchemaInv, MigShape, AllCovered, SchemaMatches, Stragglers, SwapLock, pageVars
  <1> QED  BY <1>4, <1>6, <1>7, <1>8 DEF SchemaInv

LEMMA SwapSaveSchema ==
  ASSUME SchemaInv, NEW a \in Admins, SwapSave(a)
  PROVE  SchemaInv'
  <1> DEFINE s == admin[a].state
  <1>0. rows \in [Pages -> Rows \cup {NoRows}] /\ admin \in [Admins -> Requests]
    BY DEF SchemaInv, TypeOK
  <1>1. ddl = a /\ Stragglers = {} /\ \A e \in Embedders : embed[e].at \notin {"locked", "conflict"}
    BY ShadowAssumption DEF SchemaInv, LockHeld, AllCovered, SwapSave
  <1>2. s \in Migrations /\ s.model \in Models /\ admin[a].prev \in Models
    BY <1>0, RequestStages DEF SchemaInv, ReadActive, SwapSave
  <1>3. epochs + 1 \in 0..(MaxEpochs + 1) /\ epochs' = epochs + 1
    BY ShadowAssumption DEF SchemaInv, TypeOK, SwapSave
  <1>4. mig' = [s EXCEPT !.status = "swapped", !.stamp = epochs + 1, !.prev = admin[a].prev]
    BY DEF SwapSave
  <1>5. /\ mig' \in Migrations
        /\ mig'.status = "swapped" /\ mig'.model \in Models /\ mig'.prev \in Models
    BY <1>2, <1>3, <1>4 DEF Migrations
  <1>6. rows' \in [Pages -> Rows \cup {NoRows}]
    <2>1. ASSUME NEW p \in Pages, rows[p] # NoRows
          PROVE  Exchanged(rows[p]) \in Rows
      BY <1>0, <1>1, <2>1, RowsMade DEF Stragglers
    <2> QED  BY <2>1 DEF SwapSave
  <1>7. admin' = [admin EXCEPT ![a] = NoRequest]
    BY DEF SwapSave, Become
  <1>8. TypeOK'
    BY <1>2, <1>3, <1>5, <1>6, <1>7, NoRequestTyped DEF SchemaInv, TypeOK, SwapSave
  <1>9. \A b \in Admins : admin'[b] = IF b = a THEN NoRequest ELSE admin[b]
    BY <1>0, <1>7
  <1>10. LockHeld' /\ AllCovered'
    BY <1>1, <1>9, ShadowAssumption DEF SchemaInv, LockHeld, AllCovered, SwapSave, NoRequest
  <1>11. ReadActive'
    BY <1>9 DEF SchemaInv, ReadActive, NoRequest
  <1>12. MigShape'
    BY <1>5 DEF MigShape
  <1>13. SchemaMatches'
    BY <1>1, <1>5 DEF SchemaMatches, SwapSave
  <1> QED  BY <1>8, <1>10, <1>11, <1>12, <1>13 DEF SchemaInv

LEMMA FlipSchema ==
  ASSUME SchemaInv, NEW a \in Admins, AbortFlip(a)
  PROVE  SchemaInv'
  <1> DEFINE s == admin[a].state
  <1>0. admin \in [Admins -> Requests]
    BY DEF SchemaInv, TypeOK
  <1>1. s \in Migrations /\ s.model \in Models
    BY <1>0, RequestStages DEF SchemaInv, ReadActive, AbortFlip
  <1>2. mig' = [s EXCEPT !.status = "aborting"]
    BY DEF AbortFlip
  <1>3. mig' \in Migrations /\ mig'.status = "aborting" /\ mig'.model \in Models
    BY <1>1, <1>2 DEF Migrations
  <1>4. admin' = [admin EXCEPT ![a] = [at |-> "aborting"]]
    BY DEF AbortFlip, Become
  <1>5. \A b \in Admins : admin'[b] = IF b = a THEN [at |-> "aborting"] ELSE admin[b]
    BY <1>0, <1>4
  <1>6. TypeOK'
    BY <1>3, <1>4, WaitingTyped DEF SchemaInv, TypeOK, AbortFlip, pageVars
  <1>7. LockHeld' /\ AllCovered' /\ ReadActive'
    BY <1>5 DEF SchemaInv, LockHeld, AllCovered, ReadActive, Stragglers, AbortFlip, pageVars
  <1>8. MigShape'
    BY <1>3 DEF MigShape
  <1>9. SchemaMatches'
    BY <1>3 DEF SchemaInv, SchemaMatches, AbortFlip
  <1> QED  BY <1>6, <1>7, <1>8, <1>9 DEF SchemaInv

LEMMA GiveUpSchema ==
  ASSUME SchemaInv, NEW a \in Admins, GiveUp(a)
  PROVE  SchemaInv'
  <1>1. \A b \in Admins : admin'[b] = IF b = a THEN NoRequest ELSE admin[b]
    BY DEF SchemaInv, TypeOK, GiveUp, Become
  <1>2. TypeOK'
    BY NoRequestTyped DEF SchemaInv, TypeOK, GiveUp, Become, pageVars
  <1>3. LockHeld' /\ AllCovered' /\ ReadActive'
    BY <1>1, ShadowAssumption
    DEF SchemaInv, LockHeld, AllCovered, ReadActive, Stragglers, GiveUp, NoRequest, pageVars
  <1>4. MigShape' /\ SchemaMatches'
    BY DEF SchemaInv, MigShape, SchemaMatches, GiveUp
  <1> QED  BY <1>2, <1>3, <1>4 DEF SchemaInv

LEMMA SchemaInit ==
  ASSUME Init
  PROVE  SchemaInv
  <1>1. TypeOK
    <2>1. 0 \in 0..MaxImages /\ 0 \in 0..(MaxEpochs + 1)
      BY ShadowAssumption
    <2>2. /\ body \in [Pages -> Texts]
          /\ images \in [Pages -> 0..MaxImages]
          /\ dirty \in [Pages -> BOOLEAN]
          /\ rows \in [Pages -> Rows \cup {NoRows}]
          /\ embed \in [Embedders -> Runs]
          /\ admin \in [Admins -> Requests]
      BY <2>1, NoEmbedTyped, NoRequestTyped DEF Init
    <2>3. mig \in Migrations /\ fill \in Jobs
      BY Nothing, NoFillTyped DEF Init
    <2> QED  BY <2>1, <2>2, <2>3 DEF Init, TypeOK
  <1>2. MigShape /\ AllCovered /\ SchemaMatches
    BY DEF Init, MigShape, AllCovered, SchemaMatches, NoMigration, NoEmbed
  <1>3. ReadActive /\ LockHeld
    BY ShadowAssumption DEF Init, ReadActive, LockHeld, NoRequest
  <1> QED  BY <1>1, <1>2, <1>3 DEF SchemaInv

LEMMA SchemaStep ==
  ASSUME SchemaInv, [Next]_vars
  PROVE  SchemaInv'
  <1>1. ASSUME NEW p \in Pages, Edit(p) \/ Analyse(p)
        PROVE  SchemaInv'
    BY <1>1, PageSchema
  <1>2. ASSUME NEW e \in Embedders, Quietly(e) \/ Publish(e)
        PROVE  SchemaInv'
    BY <1>2, RunSchema, PublishSchema
  <1>3. CASE Fill \/ (\E p \in Pages : FillPage(p)) \/ FillWrite \/ FillFails \/ FillEnd \/ FillCrash
    BY <1>3, FillSchema
  <1>4. ASSUME NEW a \in Admins,
               \/ Asking(a) \/ StartCommit(a) \/ SwapLock(a) \/ SwapSave(a) \/ AbortFlip(a)
               \/ AbortDrop(a) \/ Cleanup(a) \/ Revert(a) \/ GiveUp(a)
        PROVE  SchemaInv'
    BY <1>4, AskingSchema, StartSchema, SwapLockSchema, SwapSaveSchema, FlipSchema, DropSchema,
       RevertSchema, GiveUpSchema
  <1>5. CASE UNCHANGED vars
    BY <1>5 DEF vars, SchemaInv, TypeOK, MigShape, ReadActive, LockHeld, AllCovered, Stragglers,
                SchemaMatches
  <1> QED  BY <1>1, <1>2, <1>3, <1>4, <1>5 DEF Next, Quietly, Asking

\* SchemaInv holds whatever the hazards let in.
THEOREM SchemaInvHolds == Spec => []SchemaInv
  BY SchemaInit, SchemaStep, PTL DEF Spec

\* The state row, the lock and what the actors hold keep their types: a swap
\* never makes a missing vector live, nor takes its model from an empty row.
THEOREM ShadowTypes == Spec => []TypeOK
  <1>1. SchemaInv => TypeOK
    BY DEF SchemaInv
  <1> QED  BY <1>1, SchemaInvHolds, PTL

\* The columns are those the state row speaks of, whatever the hazards: no abort
\* erases a swap and no write of an embed names a column that is gone.
THEOREM SchemaAgrees == Spec => []SchemaMatches
  <1>1. SchemaInv => SchemaMatches
    BY DEF SchemaInv
  <1> QED  BY <1>1, SchemaInvHolds, PTL

-----------------------------------------------------------------------------
(* A clean page is current *)

CleanInv == SchemaInv /\ RunsBehind /\ CleanIsCurrent

\* The runs' analyses stay behind their pages'.
LEMMA RunsBehindStep ==
  ASSUME SchemaInv, RunsBehind, [Next]_vars
  PROVE  RunsBehind'
  <1>0. embed \in [Embedders -> Runs] /\ images \in [Pages -> 0..MaxImages]
    BY DEF SchemaInv, TypeOK
  <1>1. \A p \in Pages : images[p] \in Nat /\ images'[p] \in Nat /\ images[p] <= images'[p]
    <2>1. CASE UNCHANGED images
      BY <1>0, <2>1, ShadowAssumption
    <2>2. ASSUME NEW p \in Pages, Analyse(p)
          PROVE  \A x \in Pages : images[x] \in Nat /\ images'[x] \in Nat /\ images[x] <= images'[x]
      BY <1>0, <2>2, ShadowAssumption DEF Analyse
    <2> QED
      BY <2>1, <2>2
      DEF Next, vars, pageVars, Edit, Select, Settle, Snapshot, Generate, DualWrite, Fail, AllSkipped,
          Recheck, Requeue, Publish, Discard, Fill, FillPage, FillWrite, FillFails, FillEnd,
          FillCrash, StartProbe, StartCommit, Rerun, Enqueue, SwapGate, SwapLock, SwapSave,
          Rollback, AbortFlip, AbortFollow, AbortDrop, Revert, CleanupRead, Cleanup, GiveUp
  <1>2. ASSUME NEW e \in Embedders, embed'[e].at # "idle"
        PROVE  \/ /\ embed[e].at # "idle"
                  /\ embed'[e].page = embed[e].page
                  /\ embed'[e].images = embed[e].images
               \/ embed'[e].page \in Pages /\ embed'[e].images = images[embed'[e].page]
    <2>1. ASSUME NEW x \in Embedders, NEW p \in Pages, Select(x, p)
          PROVE  \/ embed'[e] = embed[e]
                 \/ embed'[e].page \in Pages /\ embed'[e].images = images[embed'[e].page]
      BY <1>0, <2>1 DEF Select
    <2>2. ASSUME NEW x \in Embedders,
                 Settle(x) \/ Fail(x) \/ AllSkipped(x) \/ Requeue(x) \/ Discard(x)
          PROVE  embed'[e] = embed[e]
      BY <1>0, <1>2, <2>2 DEF Settle, Fail, AllSkipped, Requeue, Discard, NoEmbed
    <2>3. ASSUME NEW x \in Embedders, Snapshot(x) \/ Generate(x) \/ DualWrite(x)
          PROVE  \/ embed'[e] = embed[e]
                 \/ /\ embed[e].at # "idle"
                    /\ embed'[e].page = embed[e].page
                    /\ embed'[e].images = embed[e].images
      BY <1>0, <2>3 DEF Snapshot, Generate, DualWrite
    <2>4. ASSUME NEW x \in Embedders, Recheck(x)
          PROVE  \/ embed'[e] = embed[e]
                 \/ /\ embed[e].at # "idle"
                    /\ embed'[e].page = embed[e].page
                    /\ embed'[e].images = embed[e].images
      <3>1. embed[x] \in Complete /\ embed' = [embed EXCEPT ![x].at = "locked"]
        BY <1>0, <2>4, RunStages DEF Recheck
      <3>2. CASE x = e
        BY <1>0, <2>4, <3>1, <3>2 DEF Recheck, Complete
      <3> QED  BY <1>0, <3>1, <3>2
    <2>5. ASSUME NEW x \in Embedders, Publish(x)
          PROVE  \/ embed'[e] = embed[e]
                 \/ /\ embed[e].at # "idle"
                    /\ embed'[e].page = embed[e].page
                    /\ embed'[e].images = embed[e].images
      <3>1. \/ embed'[e] = embed[e] \/ embed'[e] = NoEmbed
            \/ /\ embed[e].at = "locked"
               /\ embed[e] \in Complete
               /\ embed'[e] = [embed[e] EXCEPT !.at = "conflict"]
        BY <2>5, PublishRuns DEF SchemaInv
      <3> QED  BY <1>2, <3>1 DEF Complete, NoEmbed
    <2>6. CASE UNCHANGED embed
      BY <1>2, <2>6
    <2> QED
      BY <1>2, <2>1, <2>2, <2>3, <2>4, <2>5, <2>6
      DEF Next, vars, Edit, Analyse, Fill, FillPage, FillWrite, FillFails, FillEnd,
          FillCrash, StartProbe, StartCommit, Rerun, Enqueue, SwapGate, SwapLock, SwapSave,
          Rollback, AbortFlip, AbortFollow, AbortDrop, Revert, CleanupRead, Cleanup, GiveUp
  <1>3. ASSUME NEW e \in Embedders, embed'[e].at # "idle"
        PROVE  embed'[e].images <= images'[embed'[e].page]
    <2>1. CASE embed'[e].page \in Pages /\ embed'[e].images = images[embed'[e].page]
      BY <1>1, <2>1
    <2>2. CASE /\ embed[e].at # "idle"
               /\ embed'[e].page = embed[e].page
               /\ embed'[e].images = embed[e].images
      <3>1. embed[e].page \in Pages /\ embed[e].images \in 0..MaxImages
        BY <1>0, <2>2, RunStages
      <3>2. embed[e].images <= images[embed[e].page]
        BY <2>2 DEF RunsBehind
      <3>3. images[embed[e].page] <= images'[embed[e].page]
        BY <1>1, <3>1
      <3> QED  BY <1>1, <2>2, <3>1, <3>2, <3>3, ShadowAssumption
    <2> QED  BY <1>2, <1>3, <2>1, <2>2
  <1> QED  BY <1>3 DEF RunsBehind

\* A page stays current as long as nothing of what CleanIsCurrent looks at
\* changes, or it is marked dirty.
CurrentPage(p) ==
  ~dirty[p] /\ body[p] \notin Short => rows[p].text = body[p] /\ rows[p].images = images[p]

LEMMA CleanStep ==
  ASSUME CleanInv, [Next]_vars, Hazards \cap {"settle", "overtake"} = {}, NEW p \in Pages
  PROVE  CurrentPage(p)'
  <1>0. /\ CurrentPage(p) /\ embed \in [Embedders -> Runs] /\ dirty \in [Pages -> BOOLEAN]
        /\ body \in [Pages -> Texts] /\ images \in [Pages -> 0..MaxImages]
        /\ rows \in [Pages -> Rows \cup {NoRows}]
    BY DEF CleanInv, SchemaInv, TypeOK, CleanIsCurrent, CurrentPage
  <1>k. ASSUME UNCHANGED <<body, images>>, dirty[p] => dirty'[p],
               dirty'[p] \/ (rows'[p].text = rows[p].text /\ rows'[p].images = rows[p].images)
        PROVE  CurrentPage(p)'
    BY <1>0, <1>k DEF CurrentPage
  <1>1. ASSUME NEW x \in Pages, Edit(x)
        PROVE  CurrentPage(p)'
    BY <1>0, <1>1 DEF Edit, CurrentPage
  <1>2. ASSUME NEW x \in Pages, Analyse(x)
        PROVE  CurrentPage(p)'
    BY <1>0, <1>2 DEF Analyse, CurrentPage
  <1>3. ASSUME NEW e \in Embedders, Settle(e)
        PROVE  CurrentPage(p)'
    <2>1. /\ embed[e].page \in Pages
          /\ body[embed[e].page] \in Short
          /\ dirty' = [dirty EXCEPT ![embed[e].page] =
               images[embed[e].page] # embed[e].images /\ dirty[embed[e].page]]
          /\ UNCHANGED <<body, images, rows>>
      BY <1>0, <1>3, RunStages DEF Settle, Settleable
    <2>2. CASE p = embed[e].page
      BY <2>1, <2>2 DEF CurrentPage
    <2>3. CASE p # embed[e].page
      <3>1. dirty'[p] = dirty[p]
        BY <1>0, <2>1, <2>3
      <3> QED  BY <1>0, <2>1, <3>1 DEF CurrentPage
    <2> QED  BY <2>2, <2>3
  <1>4. ASSUME NEW e \in Embedders, AllSkipped(e) \/ Requeue(e)
        PROVE  CurrentPage(p)'
    <2>1. /\ embed[e].page \in Pages
          /\ dirty' = [dirty EXCEPT ![embed[e].page] = TRUE]
          /\ UNCHANGED <<body, images, rows>>
      BY <1>0, <1>4, RunStages DEF AllSkipped, Requeue
    <2> QED  BY <1>0, <1>k, <2>1
  <1>5. ASSUME NEW e \in Embedders, Publish(e)
        PROVE  CurrentPage(p)'
    <2> DEFINE j == embed[e]
    <2>1. /\ j.page \in Pages /\ j.images \in 0..MaxImages
          /\ j.images <= images[j.page]
      BY <1>0, <1>5, RunStages DEF Publish, CleanInv, RunsBehind
    <2>2. /\ rows[j.page].images \in 0..j.images
          /\ body[j.page] = j.text
          /\ dirty' = [dirty EXCEPT ![j.page] = images[j.page] # j.images /\ dirty[j.page]]
          /\ UNCHANGED <<body, images>>
      BY <1>5 DEF Publish, Replaceable
    <2>3. rows' = [rows EXCEPT ![j.page] =
            [text |-> j.text, images |-> j.images, live |-> j.live, extra |-> j.extra,
             skewed |-> FALSE]]
      BY <1>5 DEF Publish
    <2>4. CASE p # j.page
      <3>1. rows'[p] = rows[p] /\ dirty'[p] = dirty[p]
        BY <1>0, <2>2, <2>3, <2>4
      <3> QED  BY <1>k, <2>2, <3>1
    <2>5. CASE p = j.page
      <3>1. rows'[p].text = body[p] /\ rows'[p].images = j.images
        BY <1>0, <2>2, <2>3, <2>5
      <3>2. ASSUME ~dirty'[p], body[p] \notin Short
            PROVE  j.images = images[p]
        <4>1. CASE images[p] # j.images
          <5>1. ~dirty[p]
            BY <1>0, <2>2, <2>5, <3>2, <4>1
          <5>2. rows[p].images = images[p]
            BY <1>0, <3>2, <5>1 DEF CurrentPage
          <5> QED  BY <1>0, <2>1, <2>2, <2>5, <5>2, ShadowAssumption
        <4> QED  BY <4>1
      <3> QED  BY <2>2, <3>1, <3>2 DEF CurrentPage
    <2> QED  BY <2>4, <2>5
  <1>6. CASE FillWrite
    <2>1. /\ UNCHANGED <<body, images, dirty>>
          /\ fill.page \in Pages /\ fill.text \in Texts /\ fill.extra \in Models
      BY <1>6, JobStages DEF FillWrite, CleanInv, SchemaInv, TypeOK
    <2>2. CASE fill.page \in Stragglers /\ rows[fill.page].text = fill.text
      <3>1. rows[fill.page] \in Rows
        BY <1>0, <2>2 DEF Stragglers
      <3>2. rows' = [rows EXCEPT ![fill.page] = Stamped(rows[fill.page], fill.text, fill.extra)]
        BY <1>6, <2>2 DEF FillWrite
      <3>3. rows'[p].text = rows[p].text /\ rows'[p].images = rows[p].images
        BY <1>0, <2>1, <3>1, <3>2, StampedRow
      <3> QED  BY <1>k, <2>1, <3>3
    <2>3. CASE UNCHANGED rows
      BY <1>k, <2>1, <2>3
    <2> QED  BY <1>6, <2>2, <2>3 DEF FillWrite
  <1>7. ASSUME NEW a \in Admins, SwapSave(a)
        PROVE  CurrentPage(p)'
    <2>1. rows'[p].text = rows[p].text /\ rows'[p].images = rows[p].images
      BY <1>0, <1>7, RowsMade DEF SwapSave
    <2> QED  BY <1>7, <1>k, <2>1 DEF SwapSave
  <1>8. ASSUME NEW a \in Admins, AbortDrop(a)
        PROVE  CurrentPage(p)'
    <2>1. rows'[p].text = rows[p].text /\ rows'[p].images = rows[p].images
      BY <1>0, <1>8, RowsLeft DEF AbortDrop
    <2> QED  BY <1>8, <1>k, <2>1 DEF AbortDrop
  <1>9. ASSUME NEW next, rows' = Kept(next), dirty' = Requeued(next), UNCHANGED <<body, images>>,
               next[p] = NoRows <=> rows[p] = NoRows,
               next[p].text = rows[p].text /\ next[p].images = rows[p].images
        PROVE  CurrentPage(p)'
    <2>1. dirty'[p] = (dirty[p] \/ (next[p] # NoRows /\ next[p].live = NoModel))
      BY <1>9 DEF Requeued
    <2>2. rows'[p] = IF next[p].live = NoModel THEN NoRows ELSE next[p]
      BY <1>9 DEF Kept
    <2>3. dirty'[p] \/ rows'[p] = next[p]
      BY <2>1, <2>2
    <2> QED  BY <1>9, <1>k, <2>1, <2>3
  <1>10. ASSUME NEW a \in Admins, Cleanup(a)
         PROVE  CurrentPage(p)'
    <2>1. /\ rows' = Kept(Without("prev")) /\ dirty' = Requeued(Without("prev"))
          /\ UNCHANGED <<body, images>>
      BY <1>10 DEF Cleanup
    <2>2. /\ Without("prev")[p] = NoRows <=> rows[p] = NoRows
          /\ Without("prev")[p].text = rows[p].text
          /\ Without("prev")[p].images = rows[p].images
      BY <1>0, RowsLeft
    <2> QED  BY <1>9, <2>1, <2>2
  <1>11. ASSUME NEW a \in Admins, Revert(a)
         PROVE  CurrentPage(p)'
    <2>1. /\ rows' = Kept(Renamed) /\ dirty' = Requeued(Renamed) /\ UNCHANGED <<body, images>>
      BY <1>11 DEF Revert, Renamed
    <2>2. /\ Renamed[p] = NoRows <=> rows[p] = NoRows
          /\ Renamed[p].text = rows[p].text /\ Renamed[p].images = rows[p].images
      BY <1>0, RowsMade DEF Renamed
    <2> QED  BY <1>9, <2>1, <2>2
  <1>12. CASE UNCHANGED pageVars
    BY <1>0, <1>12 DEF CurrentPage, pageVars
  <1> QED
    BY <1>1, <1>2, <1>3, <1>4, <1>5, <1>6, <1>7, <1>8, <1>10, <1>11, <1>12
    DEF Next, vars, pageVars, Select, Snapshot, Generate, DualWrite, Fail, Recheck, Discard, Fill,
        FillPage, FillFails, FillEnd, FillCrash, StartProbe, StartCommit, Rerun, Enqueue, SwapGate,
        SwapLock, Rollback, AbortFlip, AbortFollow, CleanupRead, GiveUp

LEMMA CleanInit ==
  ASSUME Init
  PROVE  CleanInv
  BY SchemaInit DEF Init, CleanInv, RunsBehind, CleanIsCurrent, NoEmbed

\* Without the two races that the README describes, no page drops out of the
\* index: the run that clears a flag has stored the text and the analyses the
\* flag stood for, through swaps, failed shadow embeddings, drops and crashes.
THEOREM CleanHolds ==
  ASSUME Hazards \cap {"settle", "overtake"} = {}
  PROVE  Spec => []CleanIsCurrent
  <1>1. ASSUME CleanInv, [Next]_vars
        PROVE  CleanInv'
    <2>1. CleanIsCurrent'
      BY <1>1, CleanStep DEF CleanIsCurrent, CurrentPage
    <2> QED  BY <1>1, <2>1, SchemaStep, RunsBehindStep DEF CleanInv
  <1>2. CleanInv => CleanIsCurrent
    BY DEF CleanInv
  <1> QED  BY <1>1, <1>2, CleanInit, PTL DEF Spec

-----------------------------------------------------------------------------
(* One space of vectors: how runs, rows, the job and the swaps see a change of
   the migration *)

\* The races that are kept out: with any of them the theorem is false.
OrderedMigrations == Hazards \cap {"reuse", "probe", "gate", "flip"} = {}

LEMMA FingerprintIs ==
  ASSUME NEW f \in Fingerprints, NEW m \in Migrations
  PROVE  /\ f = Fingerprint(m) <=> f[1] = m.status /\ f[2] = m.stamp
         /\ f = Fingerprint(NoMigration) <=> f[1] = "none" /\ f[2] = 0
         /\ f[2] \in Nat /\ m.stamp \in Nat /\ m.start \in Nat
  BY ShadowAssumption DEF Fingerprints, Fingerprint, NoMigration, Migrations

\* A run before its snapshot, after a conflict or without work owes nothing.
LEMMA RunIdle ==
  ASSUME NEW j, j.at \in {"idle", "planned", "conflict"}, NEW m, NEW who, NEW n
  PROVE  RunOK(j, m, who, n)
  BY DEF RunOK, EpochPast, LiveCurrent, ExtraCurrent

\* Start, swap and revert hand out a stamp that no run has, and change the
\* assignment only together with what makes the migration touched.
LEMMA RunNewStamp ==
  ASSUME NEW j \in Runs, NEW m \in Migrations, NEW m2 \in Migrations, NEW who, NEW who2,
         NEW n \in Nat, m.status = "none" => m = NoMigration,
         RunOK(j, m, who, n), j.at # "locked", m2.stamp = n + 1, m2.status # "none",
         (m.status = "none" /\ who2 = who) \/ m2.start <= n
  PROVE  RunOK(j, m2, who2, n + 1)
  <1>1. CASE j.at \in {"bound", "generated", "ready"}
    <2>1. j.epoch \in Fingerprints
      BY <1>1, RunStages
    <2>2. j.epoch[2] <= n /\ j.epoch[2] \in Nat /\ m2.start \in Nat
      BY <1>1, <2>1, FingerprintIs DEF RunOK, EpochPast
    <2>3. EpochPast(j, m2, n + 1)
      BY <2>2 DEF EpochPast
    <2>4. j.epoch # Fingerprint(m2)
      BY <2>1, <2>2, FingerprintIs
    <2>5. Untouched(m2, n + 1) => m.status = "none" /\ who2 = who
      BY <2>2 DEF Untouched
    <2>6. LiveCurrent(j, m2, who2, n + 1)
      BY <2>4, <2>5 DEF RunOK, LiveCurrent, Untouched
    <2>7. ExtraCurrent(j, m2)
      BY <2>4 DEF RunOK, ExtraCurrent
    <2> QED  BY <2>3, <2>6, <2>7 DEF RunOK
  <1>2. CASE j.at \in {"idle", "planned", "conflict"}
    BY <1>2, RunIdle
  <1> QED  BY <1>1, <1>2, RunStages

\* An abort flips the row to a fingerprint that no run has.
LEMMA RunFlip ==
  ASSUME NEW j \in Runs, NEW m \in Migrations, NEW who, NEW n \in Nat,
         RunOK(j, m, who, n), m.status = "active"
  PROVE  RunOK(j, [m EXCEPT !.status = "aborting"], who, n)
  <1> DEFINE m2 == [m EXCEPT !.status = "aborting"]
  <1>1. /\ m2 \in Migrations /\ m2.status = "aborting" /\ m2.start = m.start
        /\ m2.stamp = m.stamp /\ m2.model = m.model
    BY DEF Migrations
  <1> HIDE DEF m2
  <1>2. CASE j.at \in {"bound", "generated", "ready", "locked"}
    <2>1. j.epoch \in Fingerprints
      BY <1>2, RunStages
    <2>2. j.at # "locked" => j.epoch # Fingerprint(m2)
      <3>1. j.at # "locked" /\ j.epoch[1] = "aborting" => j.epoch[2] < m.stamp
        BY <1>2 DEF RunOK, EpochPast
      <3> QED  BY <1>1, <2>1, <3>1, FingerprintIs
    <2>3. EpochPast(j, m2, n)
      BY <1>1 DEF RunOK, EpochPast
    <2>4. Untouched(m2, n) => Untouched(m, n)
      BY <1>1 DEF Untouched
    <2>5. LiveCurrent(j, m2, who, n)
      BY <2>2, <2>4 DEF RunOK, LiveCurrent
    <2>6. ExtraCurrent(j, m2)
      BY <1>1, <2>2 DEF RunOK, ExtraCurrent
    <2> QED  BY <2>3, <2>5, <2>6 DEF RunOK, m2
  <1>3. CASE j.at \in {"idle", "planned", "conflict"}
    BY <1>3, RunIdle
  <1> QED  BY <1>2, <1>3, RunStages

\* The end of a migration: runs with the fingerprint of "no migration" have
\* vectors of the assigned model, if it was not touched or no such run is left.
LEMMA RunDrop ==
  ASSUME NEW j \in Runs, NEW m \in Migrations, NEW who, NEW n \in Nat,
         RunOK(j, m, who, n), j.at # "locked",
         \/ Untouched(m, n)
         \/ j.at \in {"generated", "ready"} => j.epoch # Fingerprint(NoMigration)
  PROVE  RunOK(j, NoMigration, who, n)
  <1>1. CASE j.at \in {"bound", "generated", "ready"}
    <2>1. j.epoch \in Fingerprints
      BY <1>1, RunStages
    <2>2. EpochPast(j, NoMigration, n)
      BY DEF RunOK, EpochPast, NoMigration
    <2>3. LiveCurrent(j, NoMigration, who, n)
      BY <1>1 DEF RunOK, LiveCurrent
    <2>4. ExtraCurrent(j, NoMigration)
      <3>1. j.at = "ready" /\ j.epoch = Fingerprint(NoMigration) => j.extra = NoModel
        BY DEF RunOK, ExtraCurrent, Fingerprint, NoMigration
      <3>2. j.at = "ready" /\ j.epoch[1] # "active" => j.extra = NoModel
        BY DEF RunOK, ExtraCurrent
      <3> QED  BY <1>1, <3>1, <3>2 DEF ExtraCurrent
    <2> QED  BY <2>2, <2>3, <2>4 DEF RunOK
  <1>2. CASE j.at \in {"idle", "planned", "conflict"}
    BY <1>2, RunIdle
  <1> QED  BY <1>1, <1>2, RunStages

-----------------------------------------------------------------------------
(* One space of vectors: the steps *)

\* What the steps below take from the typing.
LEMMA SpaceTypes ==
  ASSUME SchemaInv
  PROVE  /\ TypeOK /\ mig \in Migrations /\ assigned \in Models /\ epochs \in Nat
         /\ rows \in [Pages -> Rows \cup {NoRows}]
         /\ embed \in [Embedders -> Runs]
         /\ admin \in [Admins -> Requests]
         /\ fill \in Jobs
         /\ mig.start \in Nat /\ mig.stamp \in Nat
         /\ mig.status = "none" => mig = NoMigration
  BY ShadowAssumption DEF SchemaInv, TypeOK, MigShape, Migrations

\* A step that changes one run, or none.
LEMMA RunFrame ==
  ASSUME SchemaInv, SpaceInv, UNCHANGED <<rows, schemaVars, fill, admin>>, NEW e \in Embedders,
         \A x \in Embedders \ {e} : embed'[x] = embed[x],
         RunOK(embed'[e], mig, assigned, epochs)
  PROVE  SpaceInv'
  BY DEF SpaceInv, schemaVars, AllReady

LEMMA RunSpace ==
  ASSUME SchemaInv, SpaceInv, NEW e \in Embedders, Quietly(e)
  PROVE  SpaceInv'
  <1> DEFINE j == embed[e]
  <1>t. /\ embed \in [Embedders -> Runs] /\ j \in Runs /\ mig \in Migrations
        /\ epochs \in Nat /\ TypeOK
    BY SpaceTypes
  <1>0. UNCHANGED <<rows, schemaVars, fill, admin>>
    BY RunTypes DEF SchemaInv
  <1>1. \A x \in Embedders \ {e} : embed'[x] = embed[x]
    BY <1>t DEF Quietly, Select, Settle, Snapshot, Generate, DualWrite, Fail, AllSkipped, Recheck,
                Requeue, Discard
  <1>ok. RunOK(j, mig, assigned, epochs) /\ mig.stamp <= epochs
    BY DEF SpaceInv, MigOK
  <1>2. CASE \/ \E p \in Pages : Select(e, p)
             \/ Settle(e) \/ Fail(e) \/ AllSkipped(e) \/ Requeue(e) \/ Discard(e)
    <2>1. embed'[e].at \in {"idle", "planned"}
      BY <1>t, <1>2 DEF Select, Settle, Fail, AllSkipped, Requeue, Discard, NoEmbed
    <2> QED  BY <1>0, <1>1, <2>1, RunIdle, RunFrame
  <1>3. CASE Snapshot(e)
    <2>1. embed'[e].at = "bound" /\ embed'[e].epoch = Fingerprint(mig)
      BY <1>t, <1>3 DEF Snapshot
    <2>2. embed'[e].epoch[1] = mig.status /\ embed'[e].epoch[2] = mig.stamp
      BY <2>1 DEF Fingerprint
    <2>3. RunOK(embed'[e], mig, assigned, epochs)
      BY <1>ok, <2>1, <2>2 DEF RunOK, EpochPast, LiveCurrent, ExtraCurrent
    <2> QED  BY <1>0, <1>1, <2>3, RunFrame
  <1>4. CASE Generate(e)
    <2>1. /\ j.at = "bound" /\ embed'[e].at = "generated" /\ embed'[e].epoch = j.epoch
          /\ embed'[e].live = assigned
      BY <1>t, <1>4 DEF Generate
    <2>2. RunOK(embed'[e], mig, assigned, epochs)
      BY <1>ok, <2>1 DEF RunOK, EpochPast, LiveCurrent, ExtraCurrent
    <2> QED  BY <1>0, <1>1, <2>2, RunFrame
  <1>5. CASE DualWrite(e)
    <2>1. /\ j.at = "generated" /\ embed'[e].at = "ready" /\ embed'[e].epoch = j.epoch
          /\ embed'[e].live = j.live
          /\ \/ embed'[e].extra = NoModel
             \/ embed'[e].extra = mig.model /\ j.epoch[1] = "active"
      BY <1>t, <1>5 DEF DualWrite
    <2>2. RunOK(embed'[e], mig, assigned, epochs)
      BY <1>ok, <2>1 DEF RunOK, EpochPast, LiveCurrent, ExtraCurrent
    <2> QED  BY <1>0, <1>1, <2>2, RunFrame
  <1>6. CASE Recheck(e)
    <2>1. j.at = "ready" /\ j \in Complete /\ j.epoch = Fingerprint(mig) /\ j.epoch[1] = mig.status
      BY <1>t, <1>6, RunStages DEF Recheck, Fingerprint
    <2>2. embed'[e] = [j EXCEPT !.at = "locked"]
      BY <1>t, <1>6 DEF Recheck
    <2>3. /\ embed'[e].at = "locked" /\ embed'[e].epoch = j.epoch /\ embed'[e].live = j.live
          /\ embed'[e].extra = j.extra
      BY <2>1, <2>2 DEF Complete
    <2>4. RunOK(embed'[e], mig, assigned, epochs)
      BY <1>ok, <2>1, <2>3 DEF RunOK, EpochPast, LiveCurrent, ExtraCurrent
    <2> QED  BY <1>0, <1>1, <2>4, RunFrame
  <1> QED  BY <1>2, <1>3, <1>4, <1>5, <1>6 DEF Quietly

\* While nobody holds the lock between steps, AllReady says nothing.
LEMMA NoSwapUnderWay ==
  ASSUME SchemaInv, ddl = "no"
  PROVE  \A a \in Admins : admin[a].at # "swaplocked"
  BY ShadowAssumption DEF SchemaInv, LockHeld

LEMMA PublishSpace ==
  ASSUME SchemaInv, SpaceInv, NEW e \in Embedders, Publish(e)
  PROVE  SpaceInv'
  <1> DEFINE j == embed[e]
             r == [text |-> j.text, images |-> j.images, live |-> j.live, extra |-> j.extra,
                   skewed |-> FALSE]
  <1>t. /\ rows \in [Pages -> Rows \cup {NoRows}] /\ embed \in [Embedders -> Runs] /\ TypeOK
        /\ mig \in Migrations
    BY SpaceTypes
  <1>1. UNCHANGED <<mig, assigned, epochs, fill, admin, ddl>>
    BY DEF Publish, schemaVars
  <1>2. ddl = "no"
    BY WritersFree DEF Publish
  <1>3. RunOK(j, mig, assigned, epochs) /\ j.at = "locked"
    BY DEF SpaceInv, Publish
  <1>4. j.live = assigned
    BY <1>3 DEF RunOK, LiveCurrent
  <1>5. r.extra # NoModel => mig.status \notin {"none", "swapped"} /\ (mig.status = "active" => r.extra = mig.model)
    BY <1>3 DEF RunOK, ExtraCurrent
  <1>6. RowOK(r, mig, assigned)
    BY <1>4, <1>5 DEF RowOK
  <1>7. rows' = [rows EXCEPT ![j.page] = r]
    BY DEF Publish
  <1> HIDE DEF r
  <1>8. \A p \in Pages : RowOK(rows'[p], mig, assigned)
    BY <1>t, <1>6, <1>7 DEF SpaceInv
  <1>9. ASSUME NEW x \in Embedders
        PROVE  RunOK(embed'[x], mig, assigned, epochs)
    <2>1. \/ embed'[x] = embed[x]
          \/ embed'[x] = NoEmbed
          \/ embed'[x].at = "conflict"
      BY <1>t, PublishRuns
    <2>2. NoEmbed.at = "idle"
      BY DEF NoEmbed
    <2> QED  BY <2>1, <2>2, RunIdle DEF SpaceInv
  <1>10. AllReady'
    BY <1>1, <1>2, NoSwapUnderWay DEF AllReady
  <1> QED  BY <1>1, <1>8, <1>9, <1>10 DEF SpaceInv

LEMMA FillSpace ==
  ASSUME SchemaInv, SpaceInv,
         Fill \/ (\E p \in Pages : FillPage(p)) \/ FillWrite \/ FillFails \/ FillEnd \/ FillCrash
  PROVE  SpaceInv'
  <1>t. rows \in [Pages -> Rows \cup {NoRows}] /\ fill \in Jobs
    BY SpaceTypes
  <1>1. UNCHANGED <<mig, assigned, epochs, admin, embed, ddl>>
    BY DEF Fill, FillPage, FillWrite, FillFails, FillEnd, FillCrash, schemaVars
  <1>2. JobOK(fill', mig)
    BY DEF SpaceInv, JobOK, Fill, FillPage, FillWrite, FillFails, FillEnd, FillCrash, NoFill
  <1>3. CASE UNCHANGED rows
    BY <1>1, <1>2, <1>3 DEF SpaceInv, AllReady
  <1>4. CASE FillWrite /\ fill.page \in Stragglers /\ rows[fill.page].text = fill.text
    <2> DEFINE p == fill.page
               r == Stamped(rows[p], fill.text, fill.extra)
    <2>1. p \in Pages /\ fill.text \in Texts /\ fill.extra \in Models
      BY <1>t, <1>4, JobStages DEF FillWrite
    <2>2. rows[p] \in Rows
      BY <1>t, <1>4 DEF Stragglers
    <2>3. r \in Rows /\ r.extra = fill.extra /\ r.live = rows[p].live
      BY <2>1, <2>2, StampedRow
    <2>s. ~r.skewed
      BY <1>4, <2>1, <2>2, StampedRow
    <2>4. mig.status \in {"active", "aborting"}
      BY <1>4, SpaceTypes DEF FillWrite, SchemaInv, SchemaMatches, Migrations
    <2>5. fill.extra = mig.model
      BY <1>4, <2>4 DEF SpaceInv, JobOK, FillWrite
    <2>6. rows[p].live = assigned
      BY <2>1, <2>2, Nothing DEF SpaceInv, RowOK
    <2>7. RowOK(r, mig, assigned)
      BY <2>3, <2>s, <2>4, <2>5, <2>6 DEF RowOK
    <2>8. rows' = [rows EXCEPT ![p] = r]
      BY <1>4 DEF FillWrite
    <2> HIDE DEF r
    <2>9. \A x \in Pages : RowOK(rows'[x], mig, assigned)
      BY <1>t, <2>7, <2>8 DEF SpaceInv
    <2>10. AllReady'
      BY <1>1, <1>4, NoSwapUnderWay DEF AllReady, FillWrite
    <2> QED  BY <1>1, <1>2, <2>9, <2>10 DEF SpaceInv
  <1> QED
    BY <1>3, <1>4 DEF Fill, FillPage, FillWrite, FillFails, FillEnd, FillCrash, pageVars

\* A step that changes one request, or none, and leaves runs and rows alone.
LEMMA RequestFrame ==
  ASSUME SchemaInv, SpaceInv, UNCHANGED <<pageVars, mig, assigned, epochs, embed>>,
         NEW a \in Admins, \A b \in Admins \ {a} : admin'[b] = admin[b],
         JobOK(fill', mig), SwapOK(admin'[a], mig, assigned, epochs),
         admin'[a].at = "swaplocked" =>
           \A p \in Pages : rows[p] # NoRows => rows[p].extra = admin'[a].state.model
  PROVE  SpaceInv'
  <1>1. \A b \in Admins : SwapOK(admin'[b], mig, assigned, epochs)
    BY DEF SpaceInv
  <1>2. AllReady'
    BY DEF SpaceInv, AllReady, pageVars
  <1> QED  BY <1>1, <1>2 DEF SpaceInv, pageVars

LEMMA SwapIdle ==
  ASSUME NEW q, q.at \notin {"swapping", "swaplocked"}, NEW m, NEW who, NEW n
  PROVE  SwapOK(q, m, who, n)
  BY DEF SwapOK

LEMMA AskingSpace ==
  ASSUME SchemaInv, SpaceInv, NEW a \in Admins, Asking(a) \/ GiveUp(a)
  PROVE  SpaceInv'
  <1>t. admin \in [Admins -> Requests] /\ mig.start \in Nat /\ mig.stamp \in Nat /\ epochs \in Nat
    BY SpaceTypes
  <1>1. UNCHANGED <<pageVars, mig, assigned, epochs, embed>>
    BY DEF Asking, GiveUp, StartProbe, Rerun, Enqueue, SwapGate, Rollback, AbortFollow,
           CleanupRead, schemaVars
  <1>2. \A b \in Admins \ {a} : admin'[b] = admin[b]
    BY <1>t DEF Asking, GiveUp, StartProbe, Rerun, Enqueue, SwapGate, Rollback, AbortFollow,
                CleanupRead, Become
  <1>3. JobOK(fill', mig)
    BY DEF SpaceInv, JobOK, Asking, GiveUp, StartProbe, Rerun, Enqueue, SwapGate, Rollback,
           AbortFollow, CleanupRead
  <1>4. CASE SwapGate(a)
    <2>1. /\ admin'[a].at = "swapping" /\ admin'[a].prev = assigned /\ admin'[a].start = mig.start
          /\ mig.status = "active"
      BY <1>t, <1>4 DEF SwapGate, Become
    <2>2. mig.start <= epochs
      BY <1>t DEF SpaceInv, MigOK
    <2>3. SwapOK(admin'[a], mig, assigned, epochs)
      BY <2>1, <2>2 DEF SwapOK
    <2> QED  BY <1>1, <1>2, <1>3, <2>1, <2>3, RequestFrame
  <1>5. CASE ~SwapGate(a)
    <2>1. admin'[a].at \notin {"swapping", "swaplocked"}
      BY <1>t, <1>5 DEF Asking, GiveUp, StartProbe, Rerun, Enqueue, Rollback, AbortFollow,
                        CleanupRead, Become, NoRequest
    <2> QED  BY <1>1, <1>2, <1>3, <2>1, SwapIdle, RequestFrame
  <1> QED  BY <1>4, <1>5

LEMMA SwapLockSpace ==
  ASSUME SchemaInv, SpaceInv, OrderedMigrations, NEW a \in Admins, SwapLock(a)
  PROVE  SpaceInv'
  <1>t. admin \in [Admins -> Requests]
    BY SpaceTypes
  <1>1. UNCHANGED <<pageVars, mig, assigned, epochs, embed, fill>>
    BY DEF SwapLock
  <1>2. /\ admin'[a].at = "swaplocked" /\ admin'[a].prev = admin[a].prev /\ admin'[a].state = mig
        /\ mig.status = "active" /\ admin[a].at = "swapping" /\ Stragglers = {}
        /\ \A b \in Admins \ {a} : admin'[b] = admin[b]
    BY <1>t DEF SwapLock, Become
  <1>3. admin[a].start = mig.start
    BY DEF OrderedMigrations, SwapLock, SameMigration
  <1>4. admin[a].prev = assigned
    BY <1>2, <1>3 DEF SpaceInv, SwapOK
  <1>5. SwapOK(admin'[a], mig, assigned, epochs)
    BY <1>2, <1>4 DEF SwapOK
  <1>6. \A p \in Pages : rows[p] # NoRows => rows[p].extra = mig.model
    BY <1>2 DEF SpaceInv, RowOK, Stragglers
  <1>7. JobOK(fill', mig)
    BY <1>1 DEF SpaceInv
  <1> QED  BY <1>1, <1>2, <1>5, <1>6, <1>7, RequestFrame

\* Steps under a lock that is taken and let go within the step.
LEMMA DdlSpace ==
  ASSUME SchemaInv, SpaceInv, Exclusive, NEW a \in Admins, NEW q,
         admin' = [admin EXCEPT ![a] = q], q.at \notin {"swapping", "swaplocked"},
         UNCHANGED <<embed, fill>>,
         MigOK(mig', assigned', epochs'),
         \A e \in Embedders : RunOK(embed[e], mig', assigned', epochs'),
         \A p \in Pages : RowOK(rows'[p], mig', assigned'),
         JobOK(fill, mig'),
         \A b \in Admins : admin[b].at = "swapping" => SwapOK(admin[b], mig', assigned', epochs')
  PROVE  SpaceInv'
  <1>1. \A b \in Admins : admin'[b] = IF b = a THEN q ELSE admin[b]
    BY SpaceTypes
  <1>2. \A b \in Admins : admin[b].at # "swaplocked"
    BY NoSwapUnderWay DEF Exclusive
  <1>3. \A b \in Admins : SwapOK(admin'[b], mig', assigned', epochs')
    BY <1>1, <1>2, SwapIdle
  <1>4. AllReady'
    BY <1>1, <1>2 DEF AllReady
  <1> QED  BY <1>3, <1>4 DEF SpaceInv

LEMMA StartSpace ==
  ASSUME SchemaInv, SpaceInv, OrderedMigrations, NEW a \in Admins, StartCommit(a)
  PROVE  SpaceInv'
  <1>t. /\ mig \in Migrations /\ epochs \in Nat /\ embed \in [Embedders -> Runs]
        /\ mig = NoMigration /\ mig.status = "none"
    BY SpaceTypes DEF StartCommit
  <1>1. /\ mig'.status = "active" /\ mig'.start = epochs + 1 /\ mig'.stamp = epochs + 1
        /\ mig'.model = admin[a].model /\ epochs' = epochs + 1 /\ mig' \in Migrations
        /\ UNCHANGED <<rows, assigned, embed, fill>>
    BY StartSchema, SpaceTypes DEF StartCommit, pageVars, SchemaInv, TypeOK
  <1>2. MigOK(mig', assigned', epochs')
    BY <1>t, <1>1 DEF MigOK
  <1>3. ASSUME NEW e \in Embedders
        PROVE  RunOK(embed[e], mig', assigned', epochs')
    <2>1. embed[e].at # "locked" /\ embed[e] \in Runs /\ RunOK(embed[e], mig, assigned, epochs)
      BY <1>t DEF StartCommit, Exclusive, SpaceInv
    <2> QED  BY <1>t, <1>1, <2>1, RunNewStamp
  <1>4. \A p \in Pages : RowOK(rows'[p], mig', assigned')
    BY <1>t, <1>1 DEF SpaceInv, RowOK
  <1>5. JobOK(fill, mig')
    BY DEF JobOK, OrderedMigrations, StartCommit, Overlooked
  <1>6. \A b \in Admins : admin[b].at = "swapping" => SwapOK(admin[b], mig', assigned', epochs')
    <2>1. \A b \in Admins : admin[b].at = "swapping" => admin[b].start \in Nat /\ admin[b].start <= epochs
      BY SpaceTypes, RequestStages DEF SpaceInv, SwapOK
    <2> QED  BY <1>t, <1>1, <2>1 DEF SwapOK
  <1>7. [at |-> "enqueuing"].at \notin {"swapping", "swaplocked"}
    OBVIOUS
  <1>8. Exclusive /\ admin' = [admin EXCEPT ![a] = [at |-> "enqueuing"]]
    BY DEF StartCommit, Become
  <1> DEFINE q == [at |-> "enqueuing"]
  <1>9. admin' = [admin EXCEPT ![a] = q] /\ q.at \notin {"swapping", "swaplocked"}
    BY <1>7, <1>8
  <1> HIDE DEF q
  <1> QED  BY <1>1, <1>2, <1>3, <1>4, <1>5, <1>6, <1>8, <1>9, DdlSpace

LEMMA FlipSpace ==
  ASSUME SchemaInv, SpaceInv, OrderedMigrations, NEW a \in Admins, AbortFlip(a)
  PROVE  SpaceInv'
  <1>t. /\ mig \in Migrations /\ epochs \in Nat /\ embed \in [Embedders -> Runs]
        /\ admin \in [Admins -> Requests]
    BY SpaceTypes
  <1>1. admin[a].state = mig /\ mig.status = "active"
    BY DEF OrderedMigrations, AbortFlip, Unmoved
  <1>2. mig' = [mig EXCEPT !.status = "aborting"] /\ UNCHANGED <<rows, assigned, epochs, embed, fill>>
    BY <1>1 DEF AbortFlip, pageVars
  <1>3. /\ mig'.status = "aborting" /\ mig'.start = mig.start /\ mig'.stamp = mig.stamp
        /\ mig'.model = mig.model
    BY <1>t, <1>2 DEF Migrations
  <1>4. \A b \in Admins : admin'[b] = IF b = a THEN [at |-> "aborting"] ELSE admin[b]
    BY <1>t DEF AbortFlip, Become
  <1>5. MigOK(mig', assigned', epochs') /\ JobOK(fill', mig')
    BY <1>1, <1>2, <1>3 DEF SpaceInv, MigOK, JobOK
  <1>6. \A e \in Embedders : RunOK(embed'[e], mig', assigned', epochs')
    BY <1>t, <1>1, <1>2, RunFlip DEF SpaceInv
  <1>7. \A p \in Pages : RowOK(rows'[p], mig', assigned')
    BY <1>1, <1>2, <1>3 DEF SpaceInv, RowOK
  <1>8. ASSUME NEW b \in Admins
        PROVE  SwapOK(admin'[b], mig', assigned', epochs')
    <2>1. CASE b = a
      BY <1>4, <2>1, SwapIdle
    <2>2. CASE b # a /\ admin[b].at = "swapping"
      BY <1>1, <1>2, <1>3, <1>4, <2>2 DEF SpaceInv, SwapOK
    <2>3. CASE b # a /\ admin[b].at = "swaplocked"
      <3>1. admin[b].prev = assigned /\ (mig = admin[b].state \/ mig = [admin[b].state EXCEPT !.status = "aborting"])
        BY <2>3 DEF SpaceInv, SwapOK
      <3>2. admin[b].state \in Migrations
        BY <1>t, <2>3, RequestStages
      <3>3. mig = admin[b].state
        BY <1>1, <3>1, <3>2 DEF Migrations
      <3> QED  BY <1>2, <1>4, <2>3, <3>1, <3>3 DEF SwapOK
    <2>4. CASE b # a /\ admin[b].at \notin {"swapping", "swaplocked"}
      BY <1>4, <2>4, SwapIdle
    <2> QED  BY <2>1, <2>2, <2>3, <2>4
  <1>9. AllReady'
    BY <1>2, <1>4 DEF SpaceInv, AllReady
  <1> QED  BY <1>5, <1>6, <1>7, <1>8, <1>9 DEF SpaceInv

LEMMA DropSpace ==
  ASSUME SchemaInv, SpaceInv, OrderedMigrations, NEW a \in Admins, AbortDrop(a) \/ Cleanup(a)
  PROVE  SpaceInv'
  <1>t. /\ mig \in Migrations /\ epochs \in Nat /\ embed \in [Embedders -> Runs]
        /\ rows \in [Pages -> Rows \cup {NoRows}] /\ TypeOK
        /\ mig.status = "none" => mig = NoMigration
    BY SpaceTypes
  <1>1. mig' = NoMigration /\ UNCHANGED <<assigned, epochs, embed, fill>> /\ Exclusive
    BY DEF AbortDrop, Cleanup
  <1>2. NoMigration.status = "none" /\ NoMigration.start = 0 /\ NoMigration.stamp = 0
    BY DEF NoMigration
  <1>3. MigOK(mig', assigned', epochs') /\ JobOK(fill, mig')
    BY <1>t, <1>1, <1>2 DEF MigOK, SpaceInv, JobOK
  <1>4. ASSUME NEW e \in Embedders
        PROVE  RunOK(embed[e], mig', assigned', epochs')
    <2>1. embed[e].at # "locked" /\ embed[e] \in Runs /\ RunOK(embed[e], mig, assigned, epochs)
      BY <1>t, <1>1 DEF Exclusive, SpaceInv
    <2>2. Outlived = {}
      BY DEF AbortDrop, Cleanup
    <2>3. \/ Untouched(mig, epochs)
          \/ embed[e].at \in {"generated", "ready"} => embed[e].epoch # Fingerprint(NoMigration)
      BY <2>2 DEF Outlived, OrderedMigrations, Untouched, Unstamped
    <2> QED  BY <1>t, <1>1, <2>1, <2>3, RunDrop
  <1>5. ASSUME NEW p \in Pages
        PROVE  RowOK(rows'[p], mig', assigned')
    <2>1. RowOK(rows[p], mig, assigned)
      BY DEF SpaceInv
    <2>2. CASE AbortDrop(a)
      <3>1. rows'[p] = Without("next")[p]
        BY <2>2 DEF AbortDrop
      <3>2. rows'[p].live = rows[p].live /\ (rows'[p] = NoRows <=> rows[p] = NoRows)
        BY <1>t, <3>1, RowsLeft
      <3>3. rows'[p].extra = NoModel /\ ~rows'[p].skewed
        <4>1. CASE column = "next"
          <5>1. Without("next")[p].extra = NoModel /\ Without("next")[p].skewed = FALSE
            BY <1>t, <4>1, RowsLeft
          <5> QED  BY <3>1, <5>1
        <4>2. CASE column # "next"
          <5>1. mig.status = "none"
            BY <2>2, <4>2 DEF AbortDrop, SchemaInv, SchemaMatches
          <5>2. rows'[p] = rows[p]
            BY <1>t, <3>1, <4>2, RowsLeft
          <5> QED  BY <2>1, <5>1, <5>2 DEF RowOK
        <4> QED  BY <4>1, <4>2
      <3> QED  BY <1>1, <2>1, <3>2, <3>3 DEF RowOK
    <2>3. CASE Cleanup(a)
      <3>1. column = "prev"
        BY <2>3 DEF Cleanup, SchemaInv, SchemaMatches
      <3>2. rows'[p] = NoRows \/ rows'[p] = Without("prev")[p]
        BY <2>3 DEF Cleanup, Kept
      <3>3. /\ Without("prev")[p].live = rows[p].live /\ Without("prev")[p].extra = NoModel
            /\ Without("prev")[p].skewed = FALSE
            /\ Without("prev")[p] = NoRows <=> rows[p] = NoRows
        BY <1>t, <3>1, RowsLeft
      <3> QED  BY <1>1, <2>1, <3>2, <3>3, Nothing DEF RowOK
    <2> QED  BY <2>2, <2>3
  <1>6. \A b \in Admins : admin[b].at = "swapping" => SwapOK(admin[b], mig', assigned', epochs')
    BY <1>1, <1>2 DEF SpaceInv, SwapOK
  <1>7. admin' = [admin EXCEPT ![a] = NoRequest] /\ NoRequest.at \notin {"swapping", "swaplocked"}
    BY DEF AbortDrop, Cleanup, Become, NoRequest
  <1> QED  BY <1>1, <1>3, <1>4, <1>5, <1>6, <1>7, DdlSpace

LEMMA RevertSpace ==
  ASSUME SchemaInv, SpaceInv, NEW a \in Admins, Revert(a)
  PROVE  SpaceInv'
  <1>t. /\ mig \in Migrations /\ epochs \in Nat /\ embed \in [Embedders -> Runs]
        /\ rows \in [Pages -> Rows \cup {NoRows}]
        /\ mig.start \in Nat /\ mig.stamp \in Nat
    BY SpaceTypes
  <1>1. /\ mig.status = "swapped" /\ assigned' = mig.prev /\ epochs' = epochs + 1 /\ Exclusive
        /\ UNCHANGED <<embed, fill>>
        /\ mig' = [mig EXCEPT !.status = "active", !.stamp = epochs + 1, !.prev = NoModel]
    BY DEF Revert
  <1>2. /\ mig'.status = "active" /\ mig'.start = mig.start /\ mig'.stamp = epochs + 1
        /\ mig'.model = mig.model
    BY <1>t, <1>1 DEF Migrations
  <1>3. assigned = mig.model /\ mig.start <= epochs /\ mig' \in Migrations
    BY <1>t, <1>1, RevertSchema DEF SpaceInv, MigOK, SchemaInv, TypeOK
  <1>4. MigOK(mig', assigned', epochs') /\ JobOK(fill, mig')
    BY <1>t, <1>1, <1>2, <1>3 DEF MigOK, SpaceInv, JobOK
  <1>5. ASSUME NEW e \in Embedders
        PROVE  RunOK(embed[e], mig', assigned', epochs')
    <2>1. embed[e].at # "locked" /\ embed[e] \in Runs /\ RunOK(embed[e], mig, assigned, epochs)
      BY <1>t, <1>1 DEF Exclusive, SpaceInv
    <2> QED  BY <1>t, <1>1, <1>2, <1>3, <2>1, RunNewStamp
  <1>6. ASSUME NEW p \in Pages
        PROVE  RowOK(rows'[p], mig', assigned')
    <2>1. RowOK(rows[p], mig, assigned)
      BY DEF SpaceInv
    <2>2. rows'[p] = IF Renamed[p].live = NoModel THEN NoRows ELSE Renamed[p]
      BY DEF Revert, Renamed, Kept
    <2>3. CASE rows[p] = NoRows \/ Renamed[p].live = NoModel
      <3>1. rows'[p] = NoRows
        BY <2>2, <2>3 DEF Renamed
      <3> QED  BY <3>1, Nothing DEF RowOK
    <2>4. CASE rows[p] # NoRows /\ Renamed[p].live # NoModel
      <3>1. rows[p] \in Rows /\ rows'[p] = Exchanged(rows[p])
        BY <1>t, <2>2, <2>4 DEF Renamed
      <3>2. /\ rows'[p].live = rows[p].extra /\ rows'[p].extra = rows[p].live
            /\ rows'[p].skewed = rows[p].skewed /\ rows[p].extra # NoModel
        BY <2>4, <3>1, RowsMade DEF Renamed
      <3>3. rows'[p].live = mig.prev /\ rows'[p].extra = mig.model /\ ~rows'[p].skewed
        BY <1>1, <1>3, <2>1, <2>4, <3>2 DEF RowOK
      <3> QED  BY <1>1, <1>2, <3>3 DEF RowOK
    <2> QED  BY <2>3, <2>4
  <1>7. \A b \in Admins : admin[b].at = "swapping" => SwapOK(admin[b], mig', assigned', epochs')
    <2>1. \A b \in Admins : admin[b].at = "swapping" => admin[b].start \in Nat /\ admin[b].start <= epochs
      BY SpaceTypes, RequestStages DEF SpaceInv, SwapOK
    <2> QED  BY <1>t, <1>1, <1>2, <2>1 DEF SpaceInv, SwapOK
  <1>8. admin' = [admin EXCEPT ![a] = NoRequest] /\ NoRequest.at \notin {"swapping", "swaplocked"}
    BY DEF Revert, Become, NoRequest
  <1> QED  BY <1>1, <1>4, <1>5, <1>6, <1>7, <1>8, DdlSpace

LEMMA SwapSaveSpace ==
  ASSUME SchemaInv, SpaceInv, NEW a \in Admins, SwapSave(a)
  PROVE  SpaceInv'
  <1> DEFINE s == admin[a].state
  <1>t. /\ mig \in Migrations /\ epochs \in Nat /\ embed \in [Embedders -> Runs]
        /\ rows \in [Pages -> Rows \cup {NoRows}] /\ admin \in [Admins -> Requests]
        /\ mig.start \in Nat /\ mig.stamp \in Nat
    BY SpaceTypes
  <1>s. s \in Migrations /\ s.status = "active" /\ s.model \in Models
    BY <1>t, RequestStages DEF SwapSave, SchemaInv, ReadActive
  <1>1. /\ assigned' = s.model /\ epochs' = epochs + 1 /\ UNCHANGED <<embed, fill>> /\ ddl = a
        /\ mig' = [s EXCEPT !.status = "swapped", !.stamp = epochs + 1, !.prev = admin[a].prev]
    BY DEF SwapSave, SchemaInv, LockHeld
  <1>2. admin[a].prev = assigned /\ (mig = s \/ mig = [s EXCEPT !.status = "aborting"])
    BY DEF SwapSave, SpaceInv, SwapOK
  <1>3. /\ mig.status \in {"active", "aborting"} /\ mig.start = s.start /\ mig.model = s.model
    BY <1>s, <1>2 DEF Migrations
  <1>4. /\ mig'.status = "swapped" /\ mig'.start = mig.start /\ mig'.stamp = epochs + 1
        /\ mig'.model = mig.model /\ mig'.prev = assigned
    BY <1>s, <1>1, <1>2, <1>3 DEF Migrations
  <1>5. mig.start <= epochs /\ mig' \in Migrations
    BY <1>t, SwapSaveSchema DEF SpaceInv, MigOK, SchemaInv, TypeOK
  <1>6. MigOK(mig', assigned', epochs') /\ JobOK(fill', mig')
    BY <1>t, <1>1, <1>3, <1>4, <1>5 DEF MigOK, SpaceInv, JobOK
  <1>7. ASSUME NEW e \in Embedders
        PROVE  RunOK(embed'[e], mig', assigned', epochs')
    <2>1. embed[e].at # "locked" /\ embed[e] \in Runs /\ RunOK(embed[e], mig, assigned, epochs)
      BY <1>t, <1>1, ShadowAssumption DEF SchemaInv, LockHeld, SpaceInv
    <2> QED  BY <1>t, <1>1, <1>3, <1>4, <1>5, <2>1, RunNewStamp
  <1>8. ASSUME NEW p \in Pages
        PROVE  RowOK(rows'[p], mig', assigned')
    <2>1. RowOK(rows[p], mig, assigned)
      BY DEF SpaceInv
    <2>2. CASE rows[p] = NoRows
      <3>1. rows'[p] = NoRows
        BY <2>2 DEF SwapSave
      <3> QED  BY <3>1, Nothing DEF RowOK
    <2>3. CASE rows[p] # NoRows
      <3>1. rows[p] \in Rows /\ rows'[p] = Exchanged(rows[p]) /\ rows[p].extra = s.model
        BY <1>t, <2>3 DEF SwapSave, SpaceInv, AllReady
      <3>2. /\ rows'[p].live = s.model /\ rows'[p].extra = assigned /\ ~rows'[p].skewed
        BY <2>1, <2>3, <3>1, RowsMade DEF RowOK
      <3> QED  BY <1>1, <1>4, <3>2 DEF RowOK
    <2> QED  BY <2>2, <2>3
  <1>9. \A b \in Admins : admin'[b] = IF b = a THEN NoRequest ELSE admin[b]
    BY <1>t DEF SwapSave, Become
  <1>10. ASSUME NEW b \in Admins
         PROVE  SwapOK(admin'[b], mig', assigned', epochs') /\ admin'[b].at # "swaplocked"
    <2>1. CASE b = a
      BY <1>9, <2>1, SwapIdle DEF NoRequest
    <2>2. CASE b # a
      <3>1. admin'[b] = admin[b] /\ admin[b].at # "swaplocked"
        BY <1>1, <1>9, <2>2 DEF SchemaInv, LockHeld
      <3>2. CASE admin[b].at = "swapping"
        <4>1. admin[b].start \in Nat /\ admin[b].start <= epochs
          BY <1>t, <3>2, RequestStages DEF SpaceInv, SwapOK
        <4>2. admin[b].start = mig.start => admin[b].prev = assigned
          BY <1>3, <3>2 DEF SpaceInv, SwapOK
        <4> QED  BY <1>t, <1>1, <1>4, <3>1, <3>2, <4>1, <4>2 DEF SwapOK
      <3> QED  BY <3>1, <3>2, SwapIdle
    <2> QED  BY <2>1, <2>2
  <1>11. AllReady'
    BY <1>10 DEF AllReady
  <1> QED  BY <1>6, <1>7, <1>8, <1>10, <1>11 DEF SpaceInv

LEMMA SpaceInit ==
  ASSUME Init
  PROVE  SpaceInv
  <1>1. MigOK(mig, assigned, epochs) /\ JobOK(fill, mig) /\ AllReady
    BY DEF Init, MigOK, JobOK, AllReady, NoMigration, NoFill, NoRequest
  <1>2. \A e \in Embedders : RunOK(embed[e], mig, assigned, epochs)
    BY RunIdle DEF Init, NoEmbed
  <1>3. \A p \in Pages : RowOK(rows[p], mig, assigned)
    BY Nothing DEF Init, RowOK
  <1>4. \A a \in Admins : SwapOK(admin[a], mig, assigned, epochs)
    BY SwapIdle DEF Init, NoRequest
  <1> QED  BY <1>1, <1>2, <1>3, <1>4 DEF SpaceInv

LEMMA SpaceStep ==
  ASSUME SchemaInv, SpaceInv, [Next]_vars, OrderedMigrations
  PROVE  SpaceInv'
  <1>1. CASE UNCHANGED <<rows, schemaVars, embed, fill, admin>>
    BY <1>1 DEF SpaceInv, AllReady, schemaVars
  <1>2. ASSUME NEW e \in Embedders, Quietly(e) \/ Publish(e)
        PROVE  SpaceInv'
    BY <1>2, RunSpace, PublishSpace
  <1>3. CASE Fill \/ (\E p \in Pages : FillPage(p)) \/ FillWrite \/ FillFails \/ FillEnd \/ FillCrash
    BY <1>3, FillSpace
  <1>4. ASSUME NEW a \in Admins,
               \/ Asking(a) \/ StartCommit(a) \/ SwapLock(a) \/ SwapSave(a) \/ AbortFlip(a)
               \/ AbortDrop(a) \/ Cleanup(a) \/ Revert(a) \/ GiveUp(a)
        PROVE  SpaceInv'
    BY <1>4, AskingSpace, StartSpace, SwapLockSpace, SwapSaveSpace, FlipSpace, DropSpace,
       RevertSpace
  <1>5. ASSUME NEW p \in Pages, Edit(p) \/ Analyse(p)
        PROVE  SpaceInv'
    BY <1>1, <1>5 DEF Edit, Analyse
  <1>6. CASE UNCHANGED vars
    BY <1>1, <1>6 DEF vars, schemaVars
  <1> QED  BY <1>2, <1>3, <1>4, <1>5, <1>6 DEF Next, Quietly, Asking

\* SpaceInv and SchemaInv are inductive once migrations do not overlap with what
\* is left of an earlier one.
THEOREM SpaceInvHolds ==
  ASSUME OrderedMigrations
  PROVE  Spec => [](SchemaInv /\ SpaceInv)
  <1>1. SchemaInv /\ SpaceInv /\ [Next]_vars => (SchemaInv /\ SpaceInv)'
    BY SchemaStep, SpaceStep
  <1>2. Init => SchemaInv /\ SpaceInv
    BY SchemaInit, SpaceInit
  <1> QED  BY <1>1, <1>2, PTL DEF Spec

\* Search compares like with like: with any number of runs of embedPage,
\* requests, swaps, reverts and crashes no live vector is of another model than
\* the one that embeds the queries, unless one of the four races is lost.
THEOREM OneSpaceHolds ==
  ASSUME OrderedMigrations
  PROVE  Spec => []OneSpace
  <1>1. SpaceInv => OneSpace
    BY DEF SpaceInv, RowOK, OneSpace
  <1> QED  BY <1>1, SpaceInvHolds, PTL

\* The extra column holds the migration's model before the swap and the previous
\* one after it, beside the text it was made of, under the same condition.
THEOREM ExtraSpaceHolds ==
  ASSUME OrderedMigrations
  PROVE  Spec => []ExtraSpace
  <1>1. SpaceInv => ExtraSpace
    BY DEF SpaceInv, RowOK, ExtraSpace
  <1> QED  BY <1>1, SpaceInvHolds, PTL

=============================================================================
