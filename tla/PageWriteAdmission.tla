------------------------- MODULE PageWriteAdmission -------------------------
(***************************************************************************)
(* Admission of protected page writes (core/services/                      *)
(* page-write-admission.ts) by several server processes ("runtimes") over  *)
(* one PostgreSQL database.  A write with I/O outside the database first   *)
(* commits a pending intent, then runs its local (file) or remote          *)
(* (Confluence) phases, then settles.  A process can die between any two   *)
(* steps, a COMMIT can land while its acknowledgement is lost, and a       *)
(* dispatched HTTP request can land after its caller has given up or died. *)
(*                                                                         *)
(* A database transaction is one action: all of them lock the runtime row, *)
(* then the page lifecycle keys in ascending order, then rows.  The one    *)
(* transaction left open between two actions is the caller-owned           *)
(* reservation ("inserting").  A revision (content, lifecycle, deletion    *)
(* tombstone) is compared for equality only, so the model keeps who is out *)
(* of date: `drift`, the pending intents whose recorded revisions are no   *)
(* longer the pages', and `stale`, those whose owner's in-memory token is  *)
(* no longer the row's.                                                    *)
(***************************************************************************)
EXTENDS Naturals, FiniteSets

CONSTANTS
  Runtimes,   \* process epochs; a restarted server is another runtime
  NoRuntime,
  Intents,    \* intent ids: a fresh UUID per reservation
  Pages,
  Modes       \* the intent policies in use

\* The recovery modes of INTENT_POLICIES.  "prepare" is baseline.prepare, a
\* local intent with stricter completion; "reference" is a terminal-only
\* intent that targets an unchanged hierarchy parent.
LocalModes == {"local", "prepare"}
TerminalModes == {"terminal", "reference"}
RemoteModes == TerminalModes \cup {"conditional"}

ASSUME ModeAssumption == Modes \subseteq LocalModes \cup RemoteModes
ASSUME OwnerAssumption == NoRuntime \notin Runtimes

VARIABLES
  \* the database
  row,        \* page_write_intents: status, owner, mode, pages and marks
  epoch,      \* page_writer_runtimes: "active", "quiesced" or "fenced"
  admitted,   \* unreleased page_runtime_admissions, <<runtime, page>>
  frozen,     \* pages with a baseline_id
  prepared,   \* pages whose prepared or published baseline is their content
  drift,
  \* the processes' memory
  up,         \* live processes
  accepting,  \* processAcceptingEffects
  eff,        \* localIntentEffects and localIntentFailedRemotePhases
  op,         \* the operation each process has in flight on each intent
  stale,
  recFailed,  \* localRecoveries entries "failed", <<runtime, intent>>
  localAdm,   \* localAdmissions, <<runtime, page>>
  \* the outside world
  wire,       \* the last remote request of each intent
  upstream,   \* what the remote system shows for each intent
  disk        \* what the file store shows for each intent

database == <<row, epoch, admitted, frozen, prepared, drift>>
memory == <<up, accepting, eff, op, stale, recFailed, localAdm>>
world == <<wire, upstream, disk>>
vars == <<database, memory, world>>

Marks == {"started", "remote", "done", "claimed"}
Settled == {"completed", "cancelled", "applied", "not_applied"}
Phases == {"local", "remote", "final", "repair"}
At(a, ph) == [at |-> a, ph |-> ph]
Idle == At("idle", "none")

Rows ==
  [status : {"none", "inserting", "aborted", "pending"} \cup Settled,
   owner : Runtimes \cup {NoRuntime},
   mode : Modes \cup {"none"},
   pages : SUBSET Pages,
   marks : SUBSET Marks]

Effects == {"none", "uncommitted", "reserved", "running", "succeeded",
            "failed", "failed_remote"}

Operations ==
  [at : {"idle", "mark", "io", "sent", "finish", "discovered", "verify", "reverify"},
   ph : Phases \cup {"none"}]

TypeDatabase ==
  /\ row \in [Intents -> Rows]
  /\ epoch \in [Runtimes -> {"active", "quiesced", "fenced"}]
  /\ admitted \subseteq Runtimes \X Pages
  /\ frozen \subseteq Pages
  /\ prepared \subseteq Pages
  /\ drift \subseteq Intents

TypeMemory ==
  /\ up \subseteq Runtimes
  /\ accepting \subseteq Runtimes
  /\ eff \in [Runtimes -> [Intents -> Effects]]
  /\ op \in [Runtimes -> [Intents -> Operations]]
  /\ stale \subseteq Intents
  /\ recFailed \subseteq Runtimes \X Intents
  /\ localAdm \subseteq Runtimes \X Pages

TypeWorld ==
  /\ wire \in [Intents -> {"none", "flying", "landed", "acked", "rejected"}]
  /\ upstream \in [Intents -> {"before", "ours", "theirs"}]
  /\ disk \in [Intents -> {"before", "partial", "intended"}]

TypeOK == TypeDatabase /\ TypeMemory /\ TypeWorld

Init ==
  /\ row = [i \in Intents |-> [status |-> "none", owner |-> NoRuntime,
                               mode |-> "none", pages |-> {}, marks |-> {}]]
  /\ epoch = [r \in Runtimes |-> "active"]
  /\ admitted = {} /\ frozen = {} /\ prepared = {} /\ drift = {}
  /\ up = Runtimes
  /\ accepting = Runtimes
  /\ eff = [r \in Runtimes |-> [i \in Intents |-> "none"]]
  /\ op = [r \in Runtimes |-> [i \in Intents |-> Idle]]
  /\ stale = {} /\ recFailed = {} /\ localAdm = {}
  /\ wire = [i \in Intents |-> "none"]
  /\ upstream = [i \in Intents |-> "before"]
  /\ disk = [i \in Intents |-> "before"]

-----------------------------------------------------------------------------
(* Locks and checks shared by the transactions                             *)

Pending == {i \in Intents : row[i].status = "pending"}
Holding == {i \in Intents : row[i].status \in {"inserting", "pending"}}
Touching(P) == {i \in Pending : row[i].pages \cap P # {}}

\* No open caller-owned transaction holds these pages' lifecycle locks.
Unlocked(P) ==
  \A i \in Intents : row[i].status = "inserting" => row[i].pages \cap P = {}

\* assertRuntimeActive, by a live process.
Active(r) == r \in up /\ epoch[r] = "active"

\* A new decision: the local gate of beginLocalOperation(false) as well.
Admitting(r) == Active(r) /\ r \in accepting

\* assertIntentTargetState, assertExpectedRevisions, assertNoCompetingIntent.
HoldsPages(i) ==
  /\ i \in Pending
  /\ Unlocked(row[i].pages)
  /\ row[i].mode = "reference" \/ row[i].pages \cap frozen = {}
  /\ i \notin drift
  /\ Touching(row[i].pages) = {i}

\* lockPageWrites with an intent token held by process r.
LockWithIntent(r, i) ==
  /\ Active(r)
  /\ HoldsPages(i)
  /\ row[i].owner = r
  /\ i \notin stale

MutLockPageWrites(P) ==
  /\ Unlocked(P)
  /\ P \cap frozen = {}
  /\ \A i \in Touching(P) : row[i].marks # {}

\* lockPageWrites without an intent.
LockPageWrites(P) ==
  /\ Unlocked(P)
  /\ P \cap frozen = {}
  /\ Touching(P) = {}

\* A protected change of pages P committed on behalf of intents Own.
Edit(P, Own) ==
  /\ drift' = (drift \cup Touching(P)) \ Own
  /\ prepared' = prepared \ P

MutNoStart(i) == "claimed" \notin row[i].marks

\* No effect or recovery of this intent has begun, by the durable row.
NoStart(i) == row[i].marks \cap {"started", "claimed"} = {}

SetEff(r, i, s) == eff' = [eff EXCEPT ![r][i] = s]
SetOp(r, i, o) == op' = [op EXCEPT ![r][i] = o]
SetStatus(i, s) == row' = [row EXCEPT ![i].status = s]

-----------------------------------------------------------------------------
(* Reservations                                                            *)

MutReservable(r, m, P) ==
  /\ Admitting(r)
  /\ Unlocked(P)
  /\ m \in {"reference", "prepare"} => Cardinality(P) = 1
  /\ m # "reference" => P \cap frozen = {}

\* The transaction of reservePageWriteIntentOnClient finds the pages free.
Reservable(r, m, P) ==
  /\ Admitting(r)
  /\ Unlocked(P)
  /\ Touching(P) = {}
  /\ m \in {"reference", "prepare"} => Cardinality(P) = 1
  /\ m # "reference" => P \cap frozen = {}
  /\ m = "prepare" => \A a \in admitted : a[2] \notin P

NewRow(r, m, P, s) ==
  [status |-> s, owner |-> r, mode |-> m, pages |-> P, marks |-> {}]

\* The token is lost with a lost COMMIT acknowledgement: the row stays.
Reserve(r, i, m, P) ==
  /\ row[i].status = "none"
  /\ m # "prepare"
  /\ Reservable(r, m, P)
  /\ row' = [row EXCEPT ![i] = NewRow(r, m, P, "pending")]
  /\ SetEff(r, i, "reserved") \/ UNCHANGED eff
  /\ UNCHANGED <<epoch, admitted, frozen, prepared, drift, up, accepting, op,
                 stale, recFailed, localAdm, world>>

\* Its local operation ends before the caller's transaction does; until then
\* the runtime row stays SHARE-locked and the pages locked.
ReserveInTransaction(r, i, m, P) ==
  /\ row[i].status = "none"
  /\ Reservable(r, m, P)
  /\ row' = [row EXCEPT ![i] = NewRow(r, m, P, "inserting")]
  /\ SetEff(r, i, "uncommitted")
  /\ UNCHANGED <<epoch, admitted, frozen, prepared, drift, up, accepting, op,
                 stale, recFailed, localAdm, world>>

EndCallerTransaction(i) ==
  /\ row[i].status = "inserting"
  /\ SetStatus(i, "pending") \/ SetStatus(i, "aborted")
  /\ UNCHANGED <<epoch, admitted, frozen, prepared, drift, memory, world>>

\* cancelPageWriteIntentBeforeEffect; the acknowledgement may be lost.
CancelBeforeEffect(r, i) ==
  /\ op[r][i] = Idle
  /\ eff[r][i] \in {"reserved", "uncommitted"}
  /\ LockWithIntent(r, i)
  /\ NoStart(i)
  /\ SetStatus(i, "cancelled")
  /\ SetEff(r, i, "none") \/ UNCHANGED eff
  /\ UNCHANGED <<epoch, admitted, frozen, prepared, drift, up, accepting, op,
                 stale, recFailed, localAdm, world>>

-----------------------------------------------------------------------------
(* Effects                                                                 *)

\* The phases the callers declare for intents of a mode.
PhasesOf(m) ==
  CASE m \in LocalModes -> {"local"}
    [] m = "conditional" -> {"final"}
    [] m = "reference" -> {"final"}
    [] OTHER -> {"local", "remote", "final"}

IsRemote(ph) == ph \in {"remote", "final"}

MutRunEffect(r, i, ph) ==
  /\ r \in up
  /\ op[r][i] = Idle
  /\ eff[r][i] \in {"reserved", "uncommitted", "succeeded", "failed", "failed_remote"}
  /\ row[i].status \notin {"inserting", "aborted"}
  /\ ph \in PhasesOf(row[i].mode)
  /\ eff[r][i] = "succeeded" \/ r \in accepting
  /\ SetEff(r, i, "running")
  /\ SetOp(r, i, At("mark", ph))
  /\ UNCHANGED <<database, up, accepting, stale, recFailed, localAdm, world>>

\* runPageWriteIntentEffect up to its first await.  A failed remote phase is
\* never reissued by the runtime that saw it fail.
RunEffect(r, i, ph) ==
  /\ r \in up
  /\ op[r][i] = Idle
  /\ eff[r][i] \in {"reserved", "uncommitted", "succeeded", "failed"}
  /\ row[i].status \notin {"inserting", "aborted"}
  /\ ph \in PhasesOf(row[i].mode)
  /\ eff[r][i] = "succeeded" \/ r \in accepting
  /\ SetEff(r, i, "running")
  /\ SetOp(r, i, At("mark", ph))
  /\ UNCHANGED <<database, up, accepting, stale, recFailed, localAdm, world>>

MutFailedEff(ph) == IF IsRemote(ph) THEN "unknown" ELSE "failed"

FailedEff(ph) == IF IsRemote(ph) THEN "failed_remote" ELSE "failed"

\* The catch block; a repair fails its whole reconciliation.
FailEffect(r, i) ==
  LET ph == op[r][i].ph IN
  /\ SetEff(r, i, FailedEff(ph))
  /\ SetOp(r, i, Idle)
  /\ recFailed' = IF ph = "repair" THEN recFailed \cup {<<r, i>>} ELSE recFailed

\* A refused marker, an I/O error, a timeout: at any await of the effect.
EffectFails(r, i) ==
  /\ op[r][i].at \in {"mark", "io", "sent", "finish"}
  /\ FailEffect(r, i)
  /\ UNCHANGED <<database, up, accepting, stale, localAdm, world>>

MarkStarted(r, i) ==
  LET ph == op[r][i].ph IN
  /\ op[r][i].at = "mark"
  /\ LockWithIntent(r, i)
  /\ ~(IsRemote(ph) /\ "done" \in row[i].marks)
  /\ row' = [row EXCEPT ![i].marks =
               @ \cup (IF IsRemote(ph) THEN {"started", "remote"} ELSE {"started"})]
  /\ \/ /\ SetOp(r, i, At("io", ph))
        /\ UNCHANGED <<eff, recFailed>>
     \/ FailEffect(r, i)            \* the COMMIT's acknowledgement is lost
  /\ UNCHANGED <<epoch, admitted, frozen, prepared, drift, up, accepting,
                 stale, localAdm, world>>

\* The remote callback sends its request ...
Dispatch(r, i) ==
  /\ op[r][i].at = "io"
  /\ IsRemote(op[r][i].ph)
  /\ SetOp(r, i, At("sent", op[r][i].ph))
  /\ wire' = [wire EXCEPT ![i] = "flying"]
  /\ UNCHANGED <<database, up, accepting, eff, stale, recFailed, localAdm, upstream, disk>>

\* ... which lands, now or long after its caller gave up or died.  A
\* conditional update carries the version it replaces.
Land(i) ==
  /\ wire[i] = "flying"
  /\ IF row[i].mode = "conditional" /\ upstream[i] = "theirs"
     THEN /\ wire' = [wire EXCEPT ![i] = "rejected"]
          /\ UNCHANGED upstream
     ELSE /\ wire' = [wire EXCEPT ![i] = "landed"]
          /\ upstream' = [upstream EXCEPT ![i] = "ours"]
  /\ UNCHANGED <<database, memory, disk>>

\* Somebody else saves the next version of the remote page first.
ForeignEdit(i) ==
  /\ row[i].mode = "conditional"
  /\ upstream[i] = "before"
  /\ upstream' = [upstream EXCEPT ![i] = "theirs"]
  /\ UNCHANGED <<database, memory, wire, disk>>

Respond(r, i) ==
  /\ op[r][i].at = "sent"
  /\ wire[i] = "landed"
  /\ wire' = [wire EXCEPT ![i] = "acked"]
  /\ SetOp(r, i, At("finish", op[r][i].ph))
  /\ UNCHANGED <<database, up, accepting, eff, stale, recFailed, localAdm, upstream, disk>>

\* A local phase writes its files; a repair may also remove partial bytes.
WriteFiles(r, i) ==
  /\ op[r][i].at = "io"
  /\ row[i].mode \in LocalModes
  /\ \E d \in {"before", "partial", "intended"} :
       /\ disk[i] = "before" => d = "partial"
       /\ disk[i] = "partial" => d = "intended" \/ (op[r][i].ph = "repair" /\ d = "before")
       /\ disk[i] = "intended" => d = "intended"
       /\ disk' = [disk EXCEPT ![i] = d]
  /\ UNCHANGED <<database, memory, wire, upstream>>

LocalPhaseReturns(r, i) ==
  /\ op[r][i].at = "io"
  /\ ~IsRemote(op[r][i].ph)
  /\ op[r][i].ph = "local" /\ row[i].mode \in LocalModes => disk[i] = "intended"
  /\ SetOp(r, i, At("finish", op[r][i].ph))
  /\ UNCHANGED <<database, up, accepting, eff, stale, recFailed, localAdm, world>>

MarkFinished(r, i) ==
  LET ph == op[r][i].ph IN
  /\ op[r][i].at = "finish"
  /\ LockWithIntent(r, i)
  /\ row' = [row EXCEPT ![i].marks = @ \cup (IF ph = "final" THEN {"done"} ELSE {})]
  /\ \/ /\ SetEff(r, i, "succeeded")
        /\ SetOp(r, i, IF ph = "repair" THEN At("reverify", "none") ELSE Idle)
        /\ UNCHANGED recFailed
     \/ FailEffect(r, i)            \* the COMMIT's acknowledgement is lost
  /\ UNCHANGED <<epoch, admitted, frozen, prepared, drift, up, accepting,
                 stale, localAdm, world>>

-----------------------------------------------------------------------------
(* Settlement by the owner                                                 *)

\* The final SQL of an intent: it may change its pages, except that a
\* preparation records a baseline of them and a reference leaves its parent.
Publish(i) ==
  \/ row[i].mode \notin {"prepare", "reference"} /\ Edit(row[i].pages, {i})
  \/ row[i].mode # "prepare" /\ UNCHANGED <<drift, prepared>>
  \/ /\ row[i].mode = "prepare"
     /\ prepared' = prepared \cup row[i].pages
     /\ UNCHANGED drift

\* The effects the row demands have succeeded here and are durably complete.
EffectTerminal(r, i) ==
  /\ eff[r][i] \notin {"none", "running", "failed", "failed_remote"}
  /\ row[i].mode = "local" \/ eff[r][i] = "succeeded"
  /\ row[i].mode \in LocalModes \/ "done" \in row[i].marks

\* completePageWriteIntent.  When the COMMIT's acknowledgement and the re-read
\* of the row are both lost, local ownership is kept.
Complete(r, i) ==
  /\ op[r][i] = Idle
  /\ EffectTerminal(r, i)
  /\ LockWithIntent(r, i)
  /\ SetStatus(i, "completed")
  /\ Publish(i)
  /\ SetEff(r, i, "none") \/ UNCHANGED eff
  /\ UNCHANGED <<epoch, admitted, frozen, up, accepting, op, stale, recFailed,
                 localAdm, world>>

\* A completion called again is refused, and its re-read releases ownership.
CompleteRereads(r, i) ==
  /\ op[r][i] = Idle
  /\ eff[r][i] # "none"
  /\ row[i].status = "completed"
  /\ row[i].owner = r
  /\ SetEff(r, i, "none")
  /\ UNCHANGED <<database, up, accepting, op, stale, recFailed, localAdm, world>>

\* advancePageWriteIntent: an intermediate SQL step that records the pages'
\* new revisions and tombstones in the row; the token follows the COMMIT's
\* acknowledgement, which may be lost.
Advance(r, i) ==
  /\ op[r][i] = Idle \/ (op[r][i].at = "io" /\ ~IsRemote(op[r][i].ph))
  /\ eff[r][i] \in {"reserved", "uncommitted", "succeeded", "running"}
  /\ LockWithIntent(r, i)
  /\ row' = [row EXCEPT ![i].marks = @ \cup {"started"}]
  /\ \/ row[i].mode \notin {"prepare", "reference"} /\ Edit(row[i].pages, {i})
     \/ UNCHANGED <<drift, prepared>>
  /\ UNCHANGED stale \/ stale' = stale \cup {i}
  /\ UNCHANGED <<epoch, admitted, frozen, up, accepting, eff, op, recFailed,
                 localAdm, world>>

-----------------------------------------------------------------------------
(* SQL-only writes, writable rooms, freeze and thaw                        *)

\* withPageWriteTransaction without a token: the mutation commits with the check.
WritePage(r, p) ==
  /\ Admitting(r)
  /\ LockPageWrites({p})
  /\ Edit({p}, {})
  /\ UNCHANGED <<row, epoch, admitted, frozen, memory, world>>

\* ... with a room's admission, also while the process is quiescing.
WriteRoom(r, p) ==
  /\ Active(r)
  /\ <<r, p>> \in localAdm \cap admitted
  /\ LockPageWrites({p})
  /\ Edit({p}, {})
  /\ UNCHANGED <<row, epoch, admitted, frozen, memory, world>>

AdmitRuntime(r, p) ==
  /\ Admitting(r)
  /\ <<r, p>> \notin admitted
  /\ LockPageWrites({p})
  /\ admitted' = admitted \cup {<<r, p>>}
  /\ UNCHANGED localAdm \/ localAdm' = localAdm \cup {<<r, p>>}
  /\ UNCHANGED <<row, epoch, frozen, prepared, drift, up, accepting, eff, op,
                 stale, recFailed, world>>

\* releasePageRuntime; it is repeated until the release is confirmed.
ReleaseRuntime(r, p) ==
  /\ Active(r)
  /\ <<r, p>> \in localAdm
  /\ Unlocked({p})
  /\ admitted' = admitted \ {<<r, p>>}
  /\ UNCHANGED localAdm \/ localAdm' = localAdm \ {<<r, p>>}
  /\ UNCHANGED <<row, epoch, frozen, prepared, drift, up, accepting, eff, op,
                 stale, recFailed, world>>

MutAssertPageFreezeIdle(p) ==
  \A i \in Touching({p}) : row[i].mode = "reference"

AssertPageFreezeIdle(p) ==
  /\ Touching({p}) = {}
  /\ \A r \in Runtimes : <<r, p>> \notin admitted

\* publishFreezeLocked, in the page-baseline service.
Freeze(r, p) ==
  /\ Admitting(r)
  /\ Unlocked({p})
  /\ p \notin frozen
  /\ AssertPageFreezeIdle(p)
  /\ p \in prepared
  /\ frozen' = frozen \cup {p}
  /\ drift' = drift \cup Touching({p})
  /\ UNCHANGED <<row, epoch, admitted, prepared, memory, world>>

\* unfreezePage: no check of the intents on the page.
Unfreeze(r, p) ==
  /\ Admitting(r)
  /\ Unlocked({p})
  /\ p \in frozen
  /\ frozen' = frozen \ {p}
  /\ Edit({p}, {})
  /\ UNCHANGED <<row, epoch, admitted, memory, world>>

-----------------------------------------------------------------------------
(* Retiring a process                                                      *)

\* quiescePageWriterRuntime, once the request is recorded.
CloseGate(r) ==
  /\ r \in up
  /\ accepting' = accepting \ {r}
  /\ UNCHANGED <<database, up, eff, op, stale, recFailed, localAdm, world>>

MutLocalRuntimeDrained(r) ==
  /\ \A p \in Pages : <<r, p>> \notin localAdm
  /\ \A i \in Intents : op[r][i].at \notin {"discovered", "verify", "reverify"}

\* localRuntimeDrained: a reconciliation is one long local operation.
LocalRuntimeDrained(r) ==
  /\ \A p \in Pages : <<r, p>> \notin localAdm
  /\ \A i \in Intents : /\ eff[r][i] \notin {"running", "succeeded"}
                        /\ op[r][i].at \notin {"discovered", "verify", "reverify"}

\* The UPDATE lock on the runtime row waits for its open transactions, and
\* lockPageLifecycle for those on the pages.
ExclusiveEpoch(r) ==
  \A i \in Intents : row[i].status = "inserting" =>
    /\ row[i].owner # r
    /\ \A j \in Pending : row[j].owner = r => row[i].pages \cap row[j].pages = {}

CancelNoStart(r) ==
  row' = [i \in Intents |->
            IF i \in Pending /\ row[i].owner = r /\ NoStart(i)
            THEN [row[i] EXCEPT !.status = "cancelled"] ELSE row[i]]

NoAdmissions(r) == \A p \in Pages : <<r, p>> \notin admitted

\* The drained process acknowledges.  Nothing can begin between the drain and
\* this transaction: the gate is closed and no successful phase is left.
Acknowledge(r) ==
  /\ r \in up \ accepting
  /\ LocalRuntimeDrained(r)
  /\ epoch[r] # "fenced"
  /\ ExclusiveEpoch(r)
  /\ NoAdmissions(r)
  /\ CancelNoStart(r)
  /\ epoch' = [epoch EXCEPT ![r] = "quiesced"]
  /\ UNCHANGED <<admitted, frozen, prepared, drift, memory, world>>

\* fencePageWriterRuntime by owner_ack.
FenceAcknowledged(r) ==
  /\ epoch[r] = "quiesced"
  /\ ExclusiveEpoch(r)
  /\ NoAdmissions(r)
  /\ epoch' = [epoch EXCEPT ![r] = "fenced"]
  /\ UNCHANGED <<row, admitted, frozen, prepared, drift, memory, world>>

\* durable_no_started_effects, whether or not the process lives, or
\* verified_local_termination.
FenceEvidence(r) ==
  r \notin up \/ \A i \in Pending : row[i].owner = r => NoStart(i)

FenceUnacknowledged(r) ==
  /\ FenceEvidence(r)
  /\ ExclusiveEpoch(r)
  /\ CancelNoStart(r)
  /\ admitted' = {a \in admitted : a[1] # r}
  /\ epoch' = [epoch EXCEPT ![r] = "fenced"]
  /\ UNCHANGED <<frozen, prepared, drift, memory, world>>

\* The process dies: its memory is gone and its open transactions roll back.
Crash(r) ==
  /\ r \in up
  /\ up' = up \ {r}
  /\ accepting' = accepting \ {r}
  /\ eff' = [eff EXCEPT ![r] = [i \in Intents |-> "none"]]
  /\ op' = [op EXCEPT ![r] = [i \in Intents |-> Idle]]
  /\ recFailed' = {x \in recFailed : x[1] # r}
  /\ localAdm' = {a \in localAdm : a[1] # r}
  /\ row' = [i \in Intents |->
               IF row[i].status = "inserting" /\ row[i].owner = r
               THEN [row[i] EXCEPT !.status = "aborted"] ELSE row[i]]
  /\ UNCHANGED <<epoch, admitted, frozen, prepared, drift, stale, world>>

-----------------------------------------------------------------------------
(* reconcilePageWriteIntent                                                *)

Unrecoverable(i) ==
  row[i].mode \in TerminalModes /\ "remote" \in row[i].marks /\ "done" \notin row[i].marks

\* The unlocked read that starts a reconciliation.
Discover(r, i) ==
  /\ r \in up \cap accepting
  /\ op[r][i] = Idle
  /\ i \in Pending
  /\ ~Unrecoverable(i)
  /\ SetOp(r, i, At("discovered", "none"))
  /\ UNCHANGED <<database, up, accepting, eff, stale, recFailed, localAdm, world>>

\* The catch block of a reconciliation, before or after its claim.
FailRecovery(r, i, claimed) ==
  /\ SetOp(r, i, Idle)
  /\ eff' = IF claimed /\ eff[r][i] # "none"
            THEN [eff EXCEPT ![r][i] = "failed"] ELSE eff
  /\ recFailed' = IF claimed THEN recFailed \cup {<<r, i>>} ELSE recFailed

RecoveryFails(r, i) ==
  /\ op[r][i].at \in {"discovered", "verify", "reverify"}
  /\ FailRecovery(r, i, op[r][i].at # "discovered")
  /\ UNCHANGED <<database, up, accepting, stale, localAdm, world>>

MutMayClaim(r, i) == row[i].owner \in Runtimes

\* The original epoch is fenced, or this process retries its own claim.
MayClaim(r, i) ==
  \/ epoch[row[i].owner] = "fenced"
  \/ row[i].owner = r /\ <<r, i>> \in recFailed

\* The claim transaction transfers ownership durably before any verification;
\* tokens read earlier by other processes no longer match the row.
Claim(r, i) ==
  /\ op[r][i].at = "discovered"
  /\ Active(r)
  /\ HoldsPages(i)
  /\ MayClaim(r, i)
  /\ row' = [row EXCEPT ![i].owner = r, ![i].marks = @ \cup {"claimed"}]
  /\ stale' = stale \ {i}
  /\ \E acked \in BOOLEAN :
       /\ op' = [q \in Runtimes |-> [op[q] EXCEPT ![i] =
                   CASE q = r -> IF acked THEN At("verify", "none") ELSE Idle
                     [] q # r /\ @.at = "discovered" -> Idle
                     [] OTHER -> @]]
       /\ IF acked
          THEN UNCHANGED <<eff, recFailed>>
          ELSE /\ eff' = IF eff[r][i] = "none" THEN eff
                         ELSE [eff EXCEPT ![r][i] = "failed"]
               /\ recFailed' = recFailed \cup {<<r, i>>}
  /\ UNCHANGED <<epoch, admitted, frozen, prepared, drift, up, accepting, localAdm, world>>

MutVerdict(i) ==
  CASE row[i].mode \in LocalModes ->
         (CASE disk[i] = "intended" -> "applied"
            [] disk[i] = "before" -> "not_applied"
            [] OTHER -> "repair")
    [] row[i].mode = "conditional" ->
         IF upstream[i] = "ours" THEN "applied" ELSE "not_applied"
    [] OTHER ->
         IF "remote" \notin row[i].marks THEN "not_applied"
         ELSE IF "done" \in row[i].marks THEN "applied" ELSE "unknown"

\* What the registered verifier of the kind can prove.  A conditional update
\* whose version is still the current one may yet land; a terminal-only one
\* is known by its durable response alone.
Verdict(i) ==
  CASE row[i].mode \in LocalModes ->
         (CASE disk[i] = "intended" -> "applied"
            [] disk[i] = "before" -> "not_applied"
            [] OTHER -> "repair")
    [] row[i].mode = "conditional" ->
         (CASE upstream[i] = "ours" -> "applied"
            [] upstream[i] = "theirs" -> "not_applied"
            [] OTHER -> "unknown")
    [] OTHER ->
         IF "remote" \notin row[i].marks THEN "not_applied"
         ELSE IF "done" \in row[i].marks THEN "applied" ELSE "unknown"

Verifying(r, i) ==
  /\ op[r][i].at \in {"verify", "reverify"}
  /\ Active(r)
  /\ HoldsPages(i)
  /\ row[i].owner = r

\* verifyAndSettle with a verdict; an applied effect is published in the same
\* transaction.
SettleRecovered(r, i) ==
  /\ Verifying(r, i)
  /\ Verdict(i) \in {"applied", "not_applied"}
  /\ SetStatus(i, Verdict(i))
  /\ IF Verdict(i) = "applied" THEN Publish(i) ELSE UNCHANGED <<drift, prepared>>
  /\ \/ /\ SetEff(r, i, "none")
        /\ SetOp(r, i, Idle)
        /\ recFailed' = recFailed \ {<<r, i>>}
     \/ FailRecovery(r, i, TRUE)    \* the COMMIT's acknowledgement is lost
  /\ UNCHANGED <<epoch, admitted, frozen, up, accepting, stale, localAdm, world>>

\* Partial local state: the repair runs as a local effect of its own.
StartRepair(r, i) ==
  /\ op[r][i].at = "verify"
  /\ Verifying(r, i)
  /\ Verdict(i) = "repair"
  /\ SetEff(r, i, "running")
  /\ SetOp(r, i, At("mark", "repair"))
  /\ UNCHANGED <<database, up, accepting, stale, recFailed, localAdm, world>>

-----------------------------------------------------------------------------

OwnerStep(r, i) ==
  \/ \E m \in Modes, P \in (SUBSET Pages) \ {{}} :
       Reserve(r, i, m, P) \/ ReserveInTransaction(r, i, m, P)
  \/ CancelBeforeEffect(r, i)
  \/ \E ph \in Phases : RunEffect(r, i, ph)
  \/ MarkStarted(r, i) \/ Dispatch(r, i) \/ Respond(r, i)
  \/ WriteFiles(r, i) \/ LocalPhaseReturns(r, i) \/ MarkFinished(r, i)
  \/ EffectFails(r, i)
  \/ Advance(r, i) \/ Complete(r, i) \/ CompleteRereads(r, i)

RecoveryStep(r, i) ==
  \/ Discover(r, i) \/ Claim(r, i) \/ SettleRecovered(r, i) \/ StartRepair(r, i)
  \/ RecoveryFails(r, i)

PageStep(r, p) ==
  \/ WritePage(r, p) \/ WriteRoom(r, p)
  \/ AdmitRuntime(r, p) \/ ReleaseRuntime(r, p)
  \/ Freeze(r, p) \/ Unfreeze(r, p)

RetireStep(r) ==
  \/ CloseGate(r) \/ Acknowledge(r)
  \/ FenceAcknowledged(r) \/ FenceUnacknowledged(r)
  \/ Crash(r)

WorldStep(i) == EndCallerTransaction(i) \/ Land(i) \/ ForeignEdit(i)

Next ==
  \/ \E r \in Runtimes, i \in Intents : OwnerStep(r, i) \/ RecoveryStep(r, i)
  \/ \E r \in Runtimes, p \in Pages : PageStep(r, p)
  \/ \E r \in Runtimes : RetireStep(r)
  \/ \E i \in Intents : WorldStep(i)

Spec == Init /\ [][Next]_vars

-----------------------------------------------------------------------------
(* Properties                                                              *)

\* What each unsettled write holds, and which of them were overtaken.
HeldPages == [i \in Intents |-> IF i \in Holding THEN row[i].pages ELSE {}]
References == {i \in Holding : row[i].mode = "reference"}
Overtaken == drift \cap Holding

\* The protocol implements the ownership of pages it is for.
Ownership == INSTANCE PageOwnership WITH
  claim <- HeldPages,
  reference <- References,
  rooms <- admitted,
  overtaken <- Overtaken

\* Reservations, completions, fences, crashes and recoveries change who owns
\* a page only as PageOwnership allows.
ImplementsOwnership == Ownership!Spec

\* Two unsettled intents never cover the same page, reservations still inside
\* their caller's transaction included.
ExclusiveHold ==
  \A i, j \in Holding : i # j => row[i].pages \cap row[j].pages = {}

\* A frozen page is the baseline that was inspected and has no writer: no
\* writable room, and no unsettled intent but references to it as a parent.
FrozenIsBaseline ==
  \A p \in frozen :
    /\ p \in prepared
    /\ \A r \in Runtimes : <<r, p>> \notin admitted
    /\ \A i \in Holding : p \in row[i].pages => row[i].mode = "reference"

\* An intent that is neither settled nor a parent reference can still be
\* settled: nobody else changed its pages, so its revisions are current.
RevisionsCurrent ==
  \A i \in Pending : row[i].mode # "reference" => i \notin drift

InEffect(r, i) == op[r][i].at \in {"io", "sent", "finish"}

\* A cancelled intent ("no_io_began") had no effect and is having none.
CancelledHadNoEffect ==
  \A i \in Intents : row[i].status = "cancelled" =>
    /\ wire[i] = "none"
    /\ disk[i] = "before"
    /\ \A r \in Runtimes : ~InEffect(r, i)

\* A verdict stays true, whatever is still on the wire: an applied effect is
\* in force, and one reconciled as not applied never comes into force.
VerdictHolds ==
  \A i \in Intents :
    /\ row[i].status \in {"completed", "applied"} /\ row[i].mode \in RemoteModes
         => upstream[i] = "ours"
    /\ row[i].status = "completed" => disk[i] # "partial"
    /\ row[i].status = "applied" /\ row[i].mode \in LocalModes => disk[i] = "intended"
    /\ row[i].status = "not_applied" =>
         /\ upstream[i] # "ours"
         /\ wire[i] = "flying" => upstream[i] = "theirs"
         /\ disk[i] = "before"

\* A process whose epoch is quiesced or fenced performs no I/O, so recovery
\* never overlaps the original writer.
RetiredIsSilent ==
  \A r \in Runtimes, i \in Intents : InEffect(r, i) => Active(r) /\ row[i].owner = r

\* No remote request is sent while the outcome of an earlier one of the same
\* intent is unknown to the sender.
NoBlindReissue ==
  [][\A i \in Intents : wire'[i] = "flying" /\ wire[i] # "flying"
       => wire[i] \in {"none", "acked"}]_vars

\* A remote success that was durably acknowledged can still be settled: its
\* known result is recovered.
AcknowledgedIsRecoverable ==
  \A i \in Pending : "done" \in row[i].marks => i \notin drift

=============================================================================
