---------------------------- MODULE CollabRooms ----------------------------
(* Collaborative editing of one page: the rooms that the backend processes  *)
(* (pods) keep in memory, the durable collab_room admission that makes a    *)
(* room an owner of edits, the debounced snapshot into PostgreSQL, and the  *)
(* correlated round of state dumps that lets a Save or a join read the      *)
(* state of every owner (collab-room-service.ts, collab-persistence.ts).    *)
(*                                                                          *)
(* A Yjs document is the set of what it contains: edits, authored bodies,   *)
(* and the seeds that identify each conversion of HTML into a document.     *)
(* Merging is union, so a document that merges two conversions of the same  *)
(* text, and shows it twice, holds two seeds. Seed 0 is the conversion a    *)
(* read-only room makes for itself and must never store.                    *)
EXTENDS Naturals, FiniteSets

CONSTANTS
    Pods,          \* backend processes
    Writers,       \* editors' connections; each makes at most one edit
    Readers,       \* read-only connections
    Authors,       \* whole-body writes outside collaboration
    MaxAdmissions, \* bound on the admissions issued
    MaxTries,      \* OWNER_CORRELATION_ATTEMPTS
    MaxWrites,     \* bound on the Saves and whole-body writes
    MaxFaults,     \* bound on failed transactions and crashes
    Hazards        \* the unprotected orders that may happen

ASSUME BoundsAssumption ==
    /\ MaxAdmissions \in Nat /\ MaxWrites \in Nat /\ MaxFaults \in Nat
    /\ MaxTries \in Nat \ {0}
ASSUME PodsAssumption == IsFiniteSet(Pods)
ASSUME HazardsAssumption == Hazards \subseteq {"window", "linger", "retained", "unconfirmed"}

VARIABLES
    home,     \* the pod each connection reaches
    store,    \* PostgreSQL: the page's BYTEA document ({} = no row) and body;
              \* late: what of the document the Save that wrote the body did
              \* not have to include
    held,     \* unreleased collab_room admissions
    issued,   \* admissions issued so far
    seeds,    \* conversions of HTML made so far
    room,     \* each pod's room of the page
    op,       \* the operation at the head of each pod's ownership queue
    asked,    \* pods with a retirement queued behind it
    frame,    \* for each writer, the admission its frame in flight captured
    socket,   \* the life of each connection
    bus,      \* sync messages in Redis
    owed,     \* edits and bodies accepted and not replaced since
    under,    \* the admission each edit was accepted under
    snap,     \* the last snapshot of a Save: its number, what it had to
              \* include and what it read
    pending,  \* Saves with a snapshot that have not written the body yet
    deleting, \* an authored body is committed, its BYTEA not yet deleted
    writes, faults

vars == <<home, store, held, issued, seeds, room, op, asked, frame, socket, bus,
          owed, under, snap, pending, deleting, writes, faults>>

Sockets == Writers \cup Readers
Admissions == 1..MaxAdmissions
Seeds == 0..MaxAdmissions
Docs == SUBSET (Seeds \cup Writers \cup Authors)
Text(doc) == doc \ Seeds

\* What makes an edit, a body and a seed apart in a document.
ASSUME NamesAssumption ==
    Seeds \cap (Writers \cup Authors) = {} /\ Writers \cap Authors = {}

Closed == [open |-> FALSE, doc |-> {}, adm |-> 0, persistable |-> FALSE,
           armed |-> FALSE, live |-> {}, writers |-> {}]
Idle == [kind |-> "idle", step |-> "none", conns |-> {}, acquired |-> 0,
         owners |-> {}, waiting |-> {}, dumps |-> {}, tries |-> 0, must |-> {}]

Rooms == [open : BOOLEAN, doc : Docs, adm : 0..MaxAdmissions,
          persistable : BOOLEAN, armed : BOOLEAN,
          live : SUBSET Sockets, writers : SUBSET Writers]
Dumps == [adm : Admissions, doc : Docs]
Operations ==
    [kind : {"idle", "join", "commit", "retire", "drop", "close"},
     step : {"none", "check", "admit", "init", "owners", "wait", "attach",
             "flush", "release"},
     conns : SUBSET Sockets, acquired : 0..MaxAdmissions,
     owners : SUBSET Admissions, waiting : SUBSET Admissions,
     dumps : SUBSET Dumps, tries : 0..MaxTries,
     must : SUBSET (Writers \cup Authors)]

Saves == [pod : Pods, nr : Nat, must : SUBSET (Writers \cup Authors),
          body : SUBSET (Writers \cup Authors)]

TypeOK ==
    /\ home \in [Sockets -> Pods]
    /\ store \in [doc : Docs, body : SUBSET (Writers \cup Authors),
                 late : SUBSET (Writers \cup Authors)]
    /\ held \subseteq Admissions
    /\ issued \in 0..MaxAdmissions /\ seeds \in 0..MaxAdmissions
    /\ room \in [Pods -> Rooms]
    /\ op \in [Pods -> Operations]
    /\ \A p \in Pods : op[p].waiting \subseteq op[p].owners
    /\ asked \subseteq Pods
    /\ frame \in [Writers -> 0..MaxAdmissions]
    /\ socket \in [Sockets -> {"new", "joining", "joined", "gone"}]
    /\ bus \subseteq [to : Pods, adm : Admissions, edit : Writers]
    /\ owed \subseteq Writers \cup Authors
    /\ under \in [Writers -> 0..MaxAdmissions]
    /\ snap \in [nr : Nat, must : SUBSET (Writers \cup Authors), got : Docs]
    /\ pending \subseteq Saves
    /\ deleting \in BOOLEAN
    /\ writes \in 0..MaxWrites /\ faults \in 0..MaxFaults

Init ==
    /\ home \in [Sockets -> Pods]
    /\ store = [doc |-> {}, body |-> {}, late |-> {}]
    /\ held = {} /\ issued = 0 /\ seeds = 0
    /\ room = [p \in Pods |-> Closed]
    /\ op = [p \in Pods |-> Idle]
    /\ asked = {}
    /\ frame = [w \in Writers |-> 0]
    /\ socket = [c \in Sockets |-> "new"]
    /\ bus = {}
    /\ owed = {}
    /\ under = [w \in Writers |-> 0]
    /\ snap = [nr |-> 0, must |-> {}, got |-> {}]
    /\ pending = {}
    /\ deleting = FALSE
    /\ writes = 0 /\ faults = 0

----------------------------------------------------------------------------
(* Rooms.                                                                   *)

\* A document loaded from PostgreSQL: the stored one, else the HTML under a
\* provisional identity.
Loaded == [Closed EXCEPT !.open = TRUE,
             !.doc = IF store.doc # {} THEN store.doc ELSE {0} \cup store.body]

\* getOrCreateRoom: an empty room without an admission is rebuilt, because an
\* ordinary write may have replaced the body since its last flush.
Opened(p) ==
    IF room[p].open /\ (room[p].live # {} \/ room[p].adm # 0)
    THEN room[p] ELSE Loaded

\* adoptPersistedDocument: a room that holds the canonical seed merges; a
\* provisional one takes the document over and turns its readers away.
Adopted(r, doc) ==
    IF 0 \in r.doc THEN [r EXCEPT !.doc = doc, !.live = {}, !.writers = {}]
    ELSE [r EXCEPT !.doc = r.doc \cup doc]

\* The connections that Adopted turns away.
Away(r) == IF 0 \in r.doc THEN r.live ELSE {}

\* What an update adds to the document arms the debounced write.
Armed(r, old) ==
    [r EXCEPT !.armed = r.armed \/ (r.persistable /\ r.doc # old)]

Edited(r, w) == Armed([r EXCEPT !.doc = r.doc \cup {w}], r.doc)

\* The room takes an admission and may store its document.
Owning(r, a) == [r EXCEPT !.adm = a, !.persistable = TRUE]

Gone(cs) == [c \in Sockets |-> IF c \in cs THEN "gone" ELSE socket[c]]

\* The owners p must hear from.
MutOthers(p) ==
    {a \in held : \E q \in Pods \ {p} : room[q].open /\ room[q].adm = a}

Others(p) == held \ {room[p].adm}

\* Without "window", no room is opened between the two transactions of a
\* whole-body write.
Undisturbed == deleting => "window" \in Hazards

\* The operation of p ends, or goes on to a step; a new one begins with one.
Done(p) == op' = [op EXCEPT ![p] = Idle]

Goto(p, s) == op' = [op EXCEPT ![p] = [op[p] EXCEPT !.step = s]]

Start(k, s) == [Idle EXCEPT !.kind = k, !.step = s]

Fault == faults < MaxFaults /\ faults' = faults + 1

----------------------------------------------------------------------------
(* Joining: attachSocket, inside the ownership queue.                       *)

\* A writer needs an admission; a reader the owners' state, if there are any.
First(c, r) ==
    IF c \in Writers THEN IF r.adm # 0 THEN "check" ELSE "admit"
    ELSE IF held # {} THEN "owners" ELSE "attach"

StartJoin(c) ==
    LET p == home[c]
        r == Opened(p)
    IN /\ op[p].kind = "idle" /\ socket[c] = "new" /\ Undisturbed
       /\ room' = [room EXCEPT ![p] = r]
       /\ op' = [op EXCEPT ![p] = [Start("join", First(c, r)) EXCEPT !.conns = {c}]]
       /\ socket' = [socket EXCEPT ![c] = "joining"]
       /\ UNCHANGED <<home, store, held, issued, seeds, asked, frame, bus,
                      owed, under, snap, pending, deleting, writes, faults>>

\* ensureWritableAdmission with an admission in hand: it must still be good.
Check(p) ==
    /\ op[p].step = "check"
    /\ IF room[p].adm \in held
       THEN Goto(p, "owners") /\ UNCHANGED socket
       ELSE Done(p) /\ socket' = Gone(op[p].conns)
    /\ UNCHANGED <<home, store, held, issued, seeds, room, asked, frame, bus,
                   owed, under, snap, pending, deleting, writes, faults>>

\* admitPageRuntime. A room with the canonical seed takes the admission at
\* once; a provisional one first loads or creates the stored document.
Admit(p) ==
    /\ op[p].step = "admit" /\ issued < MaxAdmissions
    /\ issued' = issued + 1
    /\ held' = held \cup {issued + 1}
    /\ IF 0 \in room[p].doc
       THEN /\ op' = [op EXCEPT ![p] = [op[p] EXCEPT !.step = "init",
                                                     !.acquired = issued + 1]]
            /\ UNCHANGED room
       ELSE /\ Goto(p, "owners")
            /\ room' = [room EXCEPT ![p] = Owning(room[p], issued + 1)]
    /\ UNCHANGED <<home, store, seeds, asked, frame, socket, bus, owed, under,
                   snap, pending, deleting, writes, faults>>

\* loadOrInitCollabDoc, in the database: the first writer converts the body,
\* later ones find its document.
MutStored == {seeds + 1} \cup store.body

Stored == IF store.doc = {} THEN {seeds + 1} \cup store.body ELSE store.doc

Convert ==
    /\ store' = [store EXCEPT !.doc = Stored]
    /\ seeds' = IF seeds + 1 \in Stored THEN seeds + 1 ELSE seeds

\* The room adopts it and takes the admission.
InitDoc(p) ==
    /\ op[p].step = "init"
    /\ Convert
    /\ room' = [room EXCEPT ![p] = Owning(Adopted(room[p], Stored),
                                          op[p].acquired)]
    /\ socket' = Gone(Away(room[p]))
    /\ Goto(p, "owners")
    /\ UNCHANGED <<home, held, issued, asked, frame, bus, owed, under, snap,
                   pending, deleting, writes, faults>>

\* The load fails, before its COMMIT or after it: the admission is released
\* again, or retained when its release fails too. "retained" lets the room
\* keep it, which does not make the room persistable.
InitFails(p) ==
    /\ op[p].step = "init" /\ Fault
    /\ Convert \/ UNCHANGED <<store, seeds>>
    /\ \E kept \in {0} \cup {op[p].acquired : h \in {"retained"} \cap Hazards} :
         /\ held' = held \ ({op[p].acquired} \ {kept})
         /\ room' = [room EXCEPT ![p].adm = kept]
    /\ Done(p) /\ socket' = Gone(op[p].conns)
    /\ UNCHANGED <<home, issued, asked, frame, bus, owed, under, snap,
                   pending, deleting, writes>>

Attach(p) ==
    /\ op[p].step = "attach"
    /\ room' = [room EXCEPT ![p] = [room[p] EXCEPT
                  !.live = room[p].live \cup op[p].conns,
                  !.writers = room[p].writers \cup (op[p].conns \cap Writers)]]
    /\ socket' = [c \in Sockets |->
                    IF c \in op[p].conns THEN "joined" ELSE socket[c]]
    /\ Done(p)
    /\ UNCHANGED <<home, store, held, issued, seeds, asked, frame, bus, owed,
                   under, snap, pending, deleting, writes, faults>>

----------------------------------------------------------------------------
(* The correlated round of a join or a Save: withFreshRoomState.            *)

\* Read the owners and merge the stored document, in one transaction. A
\* writer's join shows its room's admission, a Save its own request.
Owners(p) ==
    LET r == Adopted(room[p], store.doc)
    IN /\ op[p].step = "owners" /\ held # {} /\ store.doc # {}
       /\ op[p].kind = "join" /\ op[p].conns \subseteq Writers
            => room[p].adm \in held
       /\ room' = [room EXCEPT ![p] = r]
       /\ socket' = Gone(Away(room[p]))
       /\ op' = [op EXCEPT ![p] = [op[p] EXCEPT
                   !.step = "wait", !.owners = held, !.waiting = Others(p),
                   !.dumps = {}, !.tries = op[p].tries + 1]]
       /\ UNCHANGED <<home, store, held, issued, seeds, asked, frame, bus,
                      owed, under, snap, pending, deleting, writes, faults>>

\* Pod q answers a state_dump_request that names its admission.
ReplyDump(p, q) ==
    LET a == room[q].adm
        r == Adopted(room[q], store.doc)
    IN /\ op[p].step = "wait" /\ a \in op[p].waiting
       /\ room[q].open /\ a \in held /\ store.doc # {}
       /\ \A d \in op[p].dumps : d.adm # a
       /\ room' = [room EXCEPT ![q] = r]
       /\ socket' = Gone(Away(room[q]))
       /\ op' = [op EXCEPT ![p] = [op[p] EXCEPT
                   !.dumps = op[p].dumps \cup {[adm |-> a, doc |-> r.doc]}]]
       /\ UNCHANGED <<home, store, held, issued, seeds, asked, frame, bus,
                      owed, under, snap, pending, deleting, writes, faults>>

\* Pod p applies a dump whose admission is still held.
TakeDump(p) ==
    \E d \in op[p].dumps :
      /\ op[p].step = "wait" /\ d.adm \in op[p].waiting \cap held
      /\ room' = [room EXCEPT ![p] = Armed(Adopted(room[p], d.doc), room[p].doc)]
      /\ socket' = Gone(Away(room[p]))
      /\ op' = [op EXCEPT ![p] = [op[p] EXCEPT
                  !.waiting = op[p].waiting \ {d.adm}]]
      /\ UNCHANGED <<home, store, held, issued, seeds, asked, frame, bus,
                     owed, under, snap, pending, deleting, writes, faults>>

\* Where the operation goes once its state is confirmed. A Save leaves the
\* ownership queue with its snapshot; its request still has to write the body.
Confirmed(p, doc) ==
    IF op[p].kind = "join"
    THEN Goto(p, "attach") /\ UNCHANGED <<snap, pending>>
    ELSE /\ Done(p)
         /\ snap' = [nr |-> snap.nr + 1, must |-> op[p].must, got |-> doc]
         /\ pending' = pending \cup
                {[pod |-> p, nr |-> snap.nr + 1, must |-> op[p].must,
                  body |-> Text(doc)]}

\* The finally block of a Save: a room it alone needed goes.
Kept(p, r) ==
    IF op[p].kind = "commit" /\ r.live = {} /\ r.adm = 0 THEN Closed ELSE r

\* The round ends: the snapshot is taken, or the round starts over.
Conclude(p) ==
    LET r == Adopted(room[p], store.doc)
    IN /\ room' = [room EXCEPT ![p] = Kept(p, r)]
       /\ socket' = Gone(Away(room[p]))
       /\ Confirmed(p, r.doc)

Again(p) ==
    /\ Goto(p, "owners")
    /\ UNCHANGED <<room, socket, snap, pending>>

Answered(p) ==
    /\ op[p].step = "wait" /\ op[p].waiting = {}
    /\ held # {} /\ store.doc # {}
    /\ UNCHANGED <<home, store, held, issued, seeds, asked, frame, bus, owed,
                   under, deleting, writes, faults>>

MutRetry(p) ==
    Answered(p) /\ IF held = op[p].owners THEN Conclude(p) ELSE Again(p)

\* Every owner has answered: read the owners again. The same ones: the
\* snapshot is taken; others: the round starts over, a bounded number of times.
Settle(p) ==
    /\ Answered(p)
    /\ IF held = op[p].owners THEN Conclude(p)
       ELSE op[p].tries < MaxTries /\ Again(p)

\* The round times out, loses its transport or fails in PostgreSQL. A joining
\* writer gives back the admission nobody else uses.
RoundFails(p) ==
    LET retires == op[p].kind = "join" /\ room[p].adm # 0 /\ room[p].writers = {}
                   /\ op[p].conns \subseteq Writers
    IN /\ op[p].step \in {"owners", "wait"}
       /\ op' = [op EXCEPT ![p] = IF retires
                   THEN Start("retire", "flush") ELSE Idle]
       /\ room' = [room EXCEPT ![p] = Kept(p, room[p])]
       /\ socket' = Gone(op[p].conns)
       /\ UNCHANGED <<home, store, held, issued, seeds, asked, frame, bus,
                      owed, under, snap, pending, deleting, writes, faults>>

\* prepareCommitSnapshot: a Save reads the state of every owner.
StartCommit(p) ==
    /\ op[p].kind = "idle" /\ writes < MaxWrites /\ Undisturbed
    /\ writes' = writes + 1
    /\ room' = [room EXCEPT ![p] = Opened(p)]
    /\ op' = [op EXCEPT ![p] = [Start("commit", "owners") EXCEPT !.must = owed]]
    /\ UNCHANGED <<home, store, held, issued, seeds, asked, frame, socket,
                   bus, owed, under, snap, pending, deleting, faults>>

\* The rest of the Save, outside the ownership queue and under its request's
\* admission alone: one transaction writes the body of the snapshot, whatever
\* has been accepted, stored and released since. It leaves the BYTEA alone.
SaveBody(s) ==
    /\ pending' = pending \ {s}
    /\ store' = [store EXCEPT !.body = s.body, !.late = Text(store.doc) \ s.must]
    /\ UNCHANGED <<home, held, issued, seeds, room, op, asked, frame, socket,
                   bus, owed, under, snap, deleting, writes, faults>>

\* The snapshot lacks what the client asked for, the user may not edit any
\* more, or the transaction fails: nothing is written.
SaveFails(s) ==
    /\ pending' = pending \ {s}
    /\ UNCHANGED <<home, store, held, issued, seeds, room, op, asked, frame,
                   socket, bus, owed, under, snap, deleting, writes, faults>>

----------------------------------------------------------------------------
(* Edits.                                                                   *)

\* A frame arrives; the room's admission is read before the transaction.
Receive(w) ==
    LET r == room[home[w]]
    IN /\ frame[w] = 0 /\ under[w] = 0 /\ w \in r.writers /\ r.adm # 0
       /\ frame' = [frame EXCEPT ![w] = r.adm]
       /\ UNCHANGED <<home, store, held, issued, seeds, room, op, asked,
                      socket, bus, owed, under, snap, pending, deleting,
                      writes, faults>>

Accept(w) ==
    LET p == home[w]
    IN /\ room' = [room EXCEPT ![p] = Edited(room[p], w)]
       /\ bus' = bus \cup {[to |-> q, adm |-> frame[w], edit |-> w]
                             : q \in Pods \ {p}}
       /\ owed' = owed \cup {w}
       /\ under' = [under EXCEPT ![w] = frame[w]]
       /\ frame' = [frame EXCEPT ![w] = 0]

MutApply(w) ==
    /\ frame[w] \in held /\ room[home[w]].open
    /\ Accept(w)
    /\ UNCHANGED <<home, store, held, issued, seeds, op, asked, socket, snap,
                   pending, deleting, writes, faults>>

\* Under the lifecycle lock, with the captured admission still held, the
\* connection must still be a writer of the room that holds it.
Apply(w) ==
    /\ frame[w] \in held
    /\ w \in room[home[w]].writers /\ room[home[w]].adm = frame[w]
    /\ Accept(w)
    /\ UNCHANGED <<home, store, held, issued, seeds, op, asked, socket, snap,
                   pending, deleting, writes, faults>>

\* Anything else drops the frame; an admission that is gone, or a transaction
\* that fails, also makes the connection read-only.
Drop(w) ==
    /\ frame[w] # 0
    /\ \/ /\ frame[w] \in held
          /\ ~(w \in room[home[w]].writers /\ room[home[w]].adm = frame[w])
          /\ UNCHANGED <<room, faults>>
       \/ /\ \/ frame[w] \notin held /\ UNCHANGED faults
             \/ Fault
          /\ room' = [room EXCEPT ![home[w]].writers =
                        room[home[w]].writers \ {w}]
    /\ frame' = [frame EXCEPT ![w] = 0]
    /\ UNCHANGED <<home, store, held, issued, seeds, op, asked, socket, bus,
                   owed, under, snap, pending, deleting, writes>>

\* validateAndApplyPeerUpdate: a peer's edit, under the peer's admission.
Merge(m) ==
    LET q == m.to
        seeded == IF 0 \in room[q].doc THEN Adopted(room[q], store.doc) ELSE room[q]
    IN /\ bus' = bus \ {m}
       /\ IF room[q].open /\ m.adm \in held
             /\ (0 \in room[q].doc => store.doc # {})
          THEN /\ room' = [room EXCEPT ![q] = Edited(seeded, m.edit)]
               /\ socket' = Gone(Away(room[q]))
          ELSE UNCHANGED <<room, socket>>
       /\ UNCHANGED <<home, store, held, issued, seeds, op, asked, frame,
                      owed, under, snap, pending, deleting, writes, faults>>

----------------------------------------------------------------------------
(* Persistence and retirement.                                              *)

\* persistAndSnapshot: merge what peers have stored, then write the document
\* and the body together.
Persisted(p) ==
    LET doc == room[p].doc \cup store.doc
    IN /\ room' = [room EXCEPT ![p] = [room[p] EXCEPT !.doc = doc,
                                                     !.armed = FALSE]]
       /\ store' = [doc |-> doc, body |-> Text(doc), late |-> {}]

\* The debounced write.
Persist(p) ==
    /\ room[p].armed /\ room[p].adm \in held
    /\ Persisted(p)
    /\ UNCHANGED <<home, held, issued, seeds, op, asked, frame, socket, bus,
                   owed, under, snap, pending, deleting, writes, faults>>

\* A connection closes, or loses its permission to edit, at once; the
\* retirement it asks for waits in the ownership queue.
Leave(c) ==
    LET p == home[c]
    IN /\ c \in room[p].live
       /\ room' = [room EXCEPT ![p] = [room[p] EXCEPT
                     !.live = room[p].live \ {c},
                     !.writers = room[p].writers \ {c}]]
       /\ socket' = [socket EXCEPT ![c] = "gone"]
       /\ asked' = asked \cup {p}
       /\ UNCHANGED <<home, store, held, issued, seeds, op, frame, bus, owed,
                      under, snap, pending, deleting, writes, faults>>

Demote(w) ==
    LET p == home[w]
    IN /\ w \in room[p].writers
       /\ room' = [room EXCEPT ![p].writers = room[p].writers \ {w}]
       /\ asked' = asked \cup {p}
       /\ UNCHANGED <<home, store, held, issued, seeds, op, frame, socket,
                      bus, owed, under, snap, pending, deleting, writes,
                      faults>>

\* releaseAdmissionIfNoWriters begins.
StartRetire(p) ==
    /\ op[p].kind = "idle" /\ p \in asked
    /\ asked' = asked \ {p}
    /\ IF room[p].open /\ room[p].adm # 0 /\ room[p].writers = {}
       THEN op' = [op EXCEPT ![p] = Start("retire", "flush")]
       ELSE UNCHANGED op
    /\ UNCHANGED <<home, store, held, issued, seeds, room, frame, socket, bus,
                   owed, under, snap, pending, deleting, writes, faults>>

\* The empty room's grace period ends: retire it, then drop it.
StartDrop(p) ==
    /\ op[p].kind = "idle" /\ room[p].open /\ room[p].live = {}
    /\ IF room[p].adm = 0
       THEN room' = [room EXCEPT ![p] = Closed] /\ UNCHANGED op
       ELSE op' = [op EXCEPT ![p] = Start("drop", "flush")] /\ UNCHANGED room
    /\ UNCHANGED <<home, store, held, issued, seeds, asked, frame, socket,
                   bus, owed, under, snap, pending, deleting, writes, faults>>

\* Shutdown, or the feature switched off: every connection is closed first.
StartClose(p) ==
    /\ op[p].kind = "idle" /\ room[p].open
    /\ socket' = Gone(room[p].live)
    /\ IF room[p].adm = 0
       THEN room' = [room EXCEPT ![p] = Closed] /\ UNCHANGED op
       ELSE /\ room' = [room EXCEPT ![p] = [room[p] EXCEPT !.live = {},
                                                           !.writers = {}]]
            /\ op' = [op EXCEPT ![p] = Start("close", "flush")]
    /\ UNCHANGED <<home, store, held, issued, seeds, asked, frame, bus, owed,
                   under, snap, pending, deleting, writes, faults>>

\* flushCollabPersist: a room that is not persistable has nothing to flush.
Flush(p) ==
    /\ op[p].step = "flush"
    /\ IF room[p].persistable
       THEN room[p].adm \in held /\ Persisted(p)
       ELSE UNCHANGED <<room, store>>
    /\ Goto(p, "release")
    /\ UNCHANGED <<home, held, issued, seeds, asked, frame, socket, bus, owed,
                   under, snap, pending, deleting, writes, faults>>

\* What is left of the room when its retirement ends with admission a in it:
\* a closing one goes whatever happened, an empty one once it owns nothing.
Ended(p, a) ==
    IF op[p].kind = "close" \/ (op[p].kind = "drop" /\ room[p].live = {} /\ a = 0)
    THEN Closed
    ELSE [room[p] EXCEPT !.adm = a,
                         !.persistable = room[p].persistable /\ a # 0,
                         !.armed = room[p].armed /\ a # 0]

\* The flush fails: the admission is retained.
FlushFails(p) ==
    /\ op[p].step = "flush" /\ room[p].persistable
    /\ \/ room[p].adm \notin held /\ UNCHANGED faults
       \/ Fault
    /\ room' = [room EXCEPT ![p] = Ended(p, room[p].adm)]
    /\ Done(p)
    /\ UNCHANGED <<home, store, held, issued, seeds, asked, frame, socket,
                   bus, owed, under, snap, pending, deleting, writes>>

Release(p) ==
    /\ op[p].step = "release"
    /\ held' = held \ {room[p].adm}
    /\ room' = [room EXCEPT ![p] = Ended(p, 0)]
    /\ Done(p)
    /\ UNCHANGED <<home, store, issued, seeds, asked, frame, socket, bus,
                   owed, under, snap, pending, deleting, writes, faults>>

\* The release fails; or, with "unconfirmed", it writes and neither the COMMIT
\* nor the read that should confirm it is answered: the room keeps a released
\* admission.
ReleaseFails(p) ==
    /\ op[p].step = "release" /\ Fault
    /\ held' \in {held} \cup {held \ {room[p].adm} : h \in {"unconfirmed"} \cap Hazards}
    /\ room' = [room EXCEPT ![p] = Ended(p, room[p].adm)]
    /\ Done(p)
    /\ UNCHANGED <<home, store, issued, seeds, asked, frame, socket, bus,
                   owed, under, snap, pending, deleting, writes>>

\* The process dies with its rooms; its admissions stay.
Crash(p) ==
    /\ room[p].open /\ Fault
    /\ room' = [room EXCEPT ![p] = Closed]
    /\ socket' = Gone({c \in Sockets : home[c] = p /\ socket[c] # "new"})
    /\ frame' = [w \in Writers |-> IF home[w] = p THEN 0 ELSE frame[w]]
    /\ asked' = asked \ {p}
    /\ pending' = {s \in pending : s.pod # p}
    /\ Done(p)
    /\ UNCHANGED <<home, store, held, issued, seeds, bus, owed, under, snap,
                   deleting, writes>>

----------------------------------------------------------------------------
(* A body authored outside collaboration: refused while a room or a Save    *)
(* holds an admission, it replaces the body in one transaction and deletes  *)
(* the BYTEA in another. "window" lets rooms act between the two; "linger"  *)
(* lets a room without an admission be kept open across both by a reader.   *)

Author(u) ==
    /\ writes < MaxWrites /\ ~deleting
    /\ held = {} /\ pending = {} /\ \A p \in Pods : op[p].kind # "commit"
    /\ "window" \notin Hazards => \A p \in Pods : op[p].step # "admit"
    /\ "linger" \notin Hazards =>
         \A p \in Pods : room[p].live = {} /\ op[p].conns \cap Readers = {}
    /\ store' = [store EXCEPT !.body = {u}, !.late = {}]
    /\ owed' = {u}
    /\ deleting' = TRUE
    /\ writes' = writes + 1
    /\ UNCHANGED <<home, held, issued, seeds, room, op, asked, frame, socket,
                   bus, under, snap, pending, faults>>

\* invalidateCollabDocAfterBodyWrite.
Delete ==
    /\ deleting
    /\ deleting' = FALSE
    /\ store' = [store EXCEPT !.doc = {}]
    /\ UNCHANGED <<home, held, issued, seeds, room, op, asked, frame, socket,
                   bus, owed, under, snap, pending, writes, faults>>

----------------------------------------------------------------------------

Next ==
    \/ \E c \in Sockets : StartJoin(c) \/ Leave(c)
    \/ \E w \in Writers : Receive(w) \/ Apply(w) \/ Drop(w) \/ Demote(w)
    \/ \E m \in bus : Merge(m)
    \/ \E s \in pending : SaveBody(s) \/ SaveFails(s)
    \/ \E u \in Authors : Author(u)
    \/ Delete
    \/ \E p, q \in Pods : ReplyDump(p, q)
    \/ \E p \in Pods :
         \/ Check(p) \/ Admit(p) \/ InitDoc(p) \/ InitFails(p) \/ Attach(p)
         \/ Owners(p) \/ TakeDump(p) \/ Settle(p) \/ RoundFails(p)
         \/ StartCommit(p) \/ Persist(p) \/ StartRetire(p) \/ StartDrop(p)
         \/ StartClose(p) \/ Flush(p) \/ FlushFails(p) \/ Release(p)
         \/ ReleaseFails(p) \/ Crash(p)

Spec == Init /\ [][Next]_vars

----------------------------------------------------------------------------
(* Properties.                                                              *)

\* What the next room of the page loads.
Current == IF store.doc = {} \/ deleting THEN store.body ELSE store.doc

\* Nothing that was accepted is lost: an edit whose admission is no longer
\* held, and an authored body, are in what the next room loads until an
\* authored body replaces them. A clean release must therefore follow a flush
\* that saw every accepted edit, and no flush may bring back a document older
\* than an authored body. The body that readers see has them too, except those
\* the Save that wrote it did not have to include: a Save may publish a body
\* older than the document, but nothing accepted before the Save began may be
\* missing in it.
Survives ==
    \A x \in owed : \/ x \in Writers /\ under[x] \in held
                    \/ x \in Current /\ x \in store.body \cup store.late

\* A Save holds every edit any pod had accepted when the Save began, whether
\* its owner still has it in memory or has stored it and left.
CommitSeesAll == snap.must \subseteq snap.got

\* No document merges two conversions of the same text, which would show it
\* twice: not in memory, not stored, not in a Save.
OneSeed ==
    \A doc \in {store.doc, snap.got} \cup {room[p].doc : p \in Pods} :
      Cardinality(doc \cap Seeds) <= 1
============================================================================
