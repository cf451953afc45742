-------------------------- MODULE CollabRoomsProofs --------------------------
(***************************************************************************)
(* Proofs about CollabRooms, for any numbers of pods, connections, authors,*)
(* admissions, attempts, writes and faults: its types with the four orders *)
(* that the code leaves open, and without them that no accepted edit is    *)
(* lost, that a Save has every edit accepted before it, and that no        *)
(* document merges two conversions.                                        *)
(***************************************************************************)
EXTENDS CollabRooms, FiniteSetTheorems, TLAPS

-----------------------------------------------------------------------------
(* Types *)

Kinds == {"idle", "join", "commit", "retire", "drop", "close"}
Steps == {"none", "check", "admit", "init", "owners", "wait", "attach", "flush", "release"}

Typed(o) == o \in Operations /\ o.waiting \subseteq o.owners

\* A conversion takes one of the admissions that were issued for it.
Initing == {p \in Pods : op[p].step = "init"}
SeedBudget == seeds + Cardinality(Initing) <= issued

\* An operation that will read the owners has an attempt left.
TriesLeft ==
  \A p \in Pods : op[p].step \in {"check", "admit", "init", "owners"} => op[p].tries < MaxTries

TypeInv == TypeOK /\ SeedBudget /\ TriesLeft

LEMMA ClosedTyped == Closed \in Rooms /\ {0} \in Docs
  BY BoundsAssumption DEF Closed, Rooms, Docs, Seeds

LEMMA IdleTyped == Typed(Idle) /\ Idle.step = "none" /\ Idle.kind = "idle" /\ Idle.tries = 0
  BY BoundsAssumption DEF Idle, Typed, Operations

LEMMA LoadedTyped ==
  ASSUME TypeOK
  PROVE  Loaded \in Rooms
  <1>1. store.doc \in Docs /\ {0} \cup store.body \in Docs
    BY ClosedTyped DEF TypeOK, Docs
  <1> QED  BY <1>1, ClosedTyped DEF Loaded, Rooms

LEMMA OpenedTyped ==
  ASSUME TypeOK, NEW p \in Pods
  PROVE  Opened(p) \in Rooms
  BY LoadedTyped DEF Opened, TypeOK

LEMMA AdoptedTyped ==
  ASSUME NEW r \in Rooms, NEW d \in Docs
  PROVE  Adopted(r, d) \in Rooms
  BY DEF Adopted, Rooms, Docs

LEMMA EditedTyped ==
  ASSUME NEW r \in Rooms, NEW w \in Writers
  PROVE  Edited(r, w) \in Rooms
  BY DEF Edited, Armed, Rooms, Docs

LEMMA ArmedTyped ==
  ASSUME NEW r \in Rooms, NEW d \in Docs
  PROVE  Armed(r, d) \in Rooms
  BY DEF Armed, Rooms

LEMMA OwningTyped ==
  ASSUME NEW r \in Rooms, NEW a \in 0..MaxAdmissions
  PROVE  Owning(r, a) \in Rooms
  BY DEF Owning, Rooms

LEMMA EndedTyped ==
  ASSUME TypeOK, NEW p \in Pods, NEW a \in 0..MaxAdmissions
  PROVE  Ended(p, a) \in Rooms
  <1>1. room[p] \in Rooms
    BY DEF TypeOK
  <1> QED  BY <1>1, ClosedTyped DEF Ended, Rooms

LEMMA GoneTyped ==
  ASSUME TypeOK, NEW cs
  PROVE  Gone(cs) \in [Sockets -> {"new", "joining", "joined", "gone"}]
  BY DEF TypeOK, Gone

\* Less is live in a room.
LEMMA LessTyped ==
  ASSUME NEW r \in Rooms, NEW l \in SUBSET Sockets, NEW ws \in SUBSET Writers
  PROVE  /\ [r EXCEPT !.live = l, !.writers = ws] \in Rooms
         /\ [r EXCEPT !.writers = ws] \in Rooms
  BY DEF Rooms

-----------------------------------------------------------------------------
(* What a step does to one pod's room and operation *)

LEMMA RoomAt ==
  ASSUME TypeOK, NEW p \in Pods, NEW r \in Rooms, room' = [room EXCEPT ![p] = r]
  PROVE  /\ room' \in [Pods -> Rooms]
         /\ room'[p] = r
         /\ \A q \in Pods \ {p} : room'[q] = room[q]
  BY DEF TypeOK

OpTypes == op \in [Pods -> Operations] /\ \A p \in Pods : op[p].waiting \subseteq op[p].owners

LEMMA OpOf ==
  ASSUME TypeOK, NEW p \in Pods
  PROVE  Typed(op[p]) /\ room[p] \in Rooms /\ OpTypes
  BY DEF TypeOK, Typed, OpTypes

LEMMA OpAt ==
  ASSUME TypeOK, NEW p \in Pods, NEW o, Typed(o), op' = [op EXCEPT ![p] = o]
  PROVE  /\ OpTypes'
         /\ op'[p] = o
         /\ \A q \in Pods \ {p} : op'[q] = op[q]
  BY DEF TypeOK, Typed, OpTypes

LEMMA StartIs ==
  ASSUME NEW k \in Kinds, NEW s \in Steps
  PROVE  /\ Typed(Start(k, s))
         /\ Start(k, s).kind = k /\ Start(k, s).step = s /\ Start(k, s).conns = {}
         /\ Start(k, s).dumps = {} /\ Start(k, s).tries = 0 /\ Start(k, s).must = {}
  <1>1. Idle \in Operations /\ Idle.waiting \subseteq Idle.owners
    BY IdleTyped DEF Typed
  <1>2. Idle.conns = {} /\ Idle.dumps = {} /\ Idle.tries = 0 /\ Idle.must = {}
    BY DEF Idle
  <1> QED  BY <1>1, <1>2 DEF Start, Typed, Operations, Kinds, Steps

LEMMA StartAt ==
  ASSUME TypeOK, NEW p \in Pods, NEW k \in Kinds, NEW s \in Steps,
         op' = [op EXCEPT ![p] = Start(k, s)]
  PROVE  /\ OpTypes'
         /\ op'[p].kind = k /\ op'[p].step = s /\ op'[p].conns = {}
         /\ op'[p].dumps = {} /\ op'[p].tries = 0 /\ op'[p].must = {}
         /\ \A q \in Pods \ {p} : op'[q] = op[q]
  <1> DEFINE o == Start(k, s)
  <1>1. op' = [op EXCEPT ![p] = o] /\ Typed(o)
    BY StartIs
  <1>2. /\ o.kind = k /\ o.step = s /\ o.conns = {} /\ o.dumps = {} /\ o.tries = 0 /\ o.must = {}
    BY StartIs
  <1> HIDE DEF o
  <1>3. OpTypes' /\ op'[p] = o /\ \A q \in Pods \ {p} : op'[q] = op[q]
    BY <1>1, OpAt, Zenon
  <1> QED  BY <1>1, <1>2, <1>3

LEMMA JoinAt ==
  ASSUME TypeOK, NEW p \in Pods, NEW s \in Steps, NEW cs \in SUBSET Sockets,
         op' = [op EXCEPT ![p] = [Start("join", s) EXCEPT !.conns = cs]]
  PROVE  /\ OpTypes'
         /\ op'[p].kind = "join" /\ op'[p].step = s /\ op'[p].conns = cs
         /\ op'[p].dumps = {} /\ op'[p].tries = 0 /\ op'[p].must = {}
         /\ \A q \in Pods \ {p} : op'[q] = op[q]
  <1> DEFINE o == [Start("join", s) EXCEPT !.conns = cs]
  <1>1. /\ Typed(o) /\ o.kind = "join" /\ o.step = s /\ o.conns = cs
        /\ o.dumps = {} /\ o.tries = 0 /\ o.must = {}
    BY StartIs DEF Typed, Operations, Kinds
  <1>2. op' = [op EXCEPT ![p] = o]
    OBVIOUS
  <1> HIDE DEF o
  <1>3. OpTypes' /\ op'[p] = o /\ \A q \in Pods \ {p} : op'[q] = op[q]
    BY <1>1, <1>2, OpAt, Zenon
  <1> QED  BY <1>1, <1>2, <1>3

LEMMA SaveAt ==
  ASSUME TypeOK, NEW p \in Pods, NEW m \in SUBSET (Writers \cup Authors),
         op' = [op EXCEPT ![p] = [Start("commit", "owners") EXCEPT !.must = m]]
  PROVE  /\ OpTypes'
         /\ op'[p].kind = "commit" /\ op'[p].step = "owners" /\ op'[p].conns = {}
         /\ op'[p].dumps = {} /\ op'[p].tries = 0 /\ op'[p].must = m
         /\ \A q \in Pods \ {p} : op'[q] = op[q]
  <1> DEFINE o == [Start("commit", "owners") EXCEPT !.must = m]
  <1>1. /\ Typed(o) /\ o.kind = "commit" /\ o.step = "owners" /\ o.conns = {}
        /\ o.dumps = {} /\ o.tries = 0 /\ o.must = m
    <2> DEFINE b == Start("commit", "owners")
    <2>1. /\ b \in Operations /\ b.waiting \subseteq b.owners
          /\ b.kind = "commit" /\ b.step = "owners" /\ b.conns = {} /\ b.dumps = {} /\ b.tries = 0
      BY StartIs DEF Typed, Kinds, Steps
    <2> HIDE DEF b
    <2>2. Typed([b EXCEPT !.must = m])
      BY <2>1 DEF Typed, Operations
    <2>3. o = [b EXCEPT !.must = m]
      BY DEF b
    <2> QED  BY <2>1, <2>2, <2>3 DEF Operations
  <1>2. op' = [op EXCEPT ![p] = o]
    OBVIOUS
  <1> HIDE DEF o
  <1>3. OpTypes' /\ op'[p] = o /\ \A q \in Pods \ {p} : op'[q] = op[q]
    BY <1>1, <1>2, OpAt, Zenon
  <1> QED  BY <1>1, <1>2, <1>3

LEMMA DoneAt ==
  ASSUME TypeOK, NEW p \in Pods, Done(p)
  PROVE  /\ OpTypes'
         /\ op'[p] = Idle
         /\ \A q \in Pods \ {p} : op'[q] = op[q]
  BY IdleTyped, OpAt DEF Done

\* Nothing but the step.
Onward(o, n, s) ==
  /\ n.step = s /\ n.kind = o.kind /\ n.conns = o.conns /\ n.acquired = o.acquired
  /\ n.owners = o.owners /\ n.waiting = o.waiting /\ n.dumps = o.dumps
  /\ n.tries = o.tries /\ n.must = o.must

LEMMA GotoAt ==
  ASSUME TypeOK, NEW p \in Pods, NEW s \in Steps, Goto(p, s)
  PROVE  /\ OpTypes'
         /\ Onward(op[p], op'[p], s)
         /\ \A q \in Pods \ {p} : op'[q] = op[q]
  <1> DEFINE o == [op[p] EXCEPT !.step = s]
  <1>1. Typed(o) /\ Onward(op[p], o, s)
    BY OpOf DEF Typed, Operations, Steps, Onward
  <1>2. op' = [op EXCEPT ![p] = o]
    BY DEF Goto
  <1> HIDE DEF o
  <1>3. OpTypes' /\ op'[p] = o /\ \A q \in Pods \ {p} : op'[q] = op[q]
    BY <1>1, <1>2, OpAt, Zenon
  <1> QED  BY <1>1, <1>2, <1>3

LEMMA AdmitAt ==
  ASSUME TypeOK, NEW p \in Pods, NEW a \in Admissions,
         op' = [op EXCEPT ![p] = [op[p] EXCEPT !.step = "init", !.acquired = a]]
  PROVE  /\ OpTypes'
         /\ op'[p].step = "init" /\ op'[p].acquired = a /\ op'[p].kind = op[p].kind
         /\ op'[p].conns = op[p].conns /\ op'[p].dumps = op[p].dumps
         /\ op'[p].tries = op[p].tries /\ op'[p].must = op[p].must
         /\ \A q \in Pods \ {p} : op'[q] = op[q]
  <1> DEFINE o == [op[p] EXCEPT !.step = "init", !.acquired = a]
  <1>1. /\ Typed(o) /\ o.step = "init" /\ o.acquired = a /\ o.kind = op[p].kind
        /\ o.conns = op[p].conns /\ o.dumps = op[p].dumps
        /\ o.tries = op[p].tries /\ o.must = op[p].must
    <2>1. a \in 0..MaxAdmissions
      BY BoundsAssumption DEF Admissions
    <2> QED  BY <2>1, OpOf DEF Typed, Operations
  <1>2. op' = [op EXCEPT ![p] = o]
    OBVIOUS
  <1> HIDE DEF o
  <1>3. OpTypes' /\ op'[p] = o /\ \A q \in Pods \ {p} : op'[q] = op[q]
    BY <1>1, <1>2, OpAt, Zenon
  <1> QED  BY <1>1, <1>2, <1>3

\* The budget of conversions is kept by every step that makes none.
LEMMA BudgetKept ==
  ASSUME TypeOK, SeedBudget, seeds' = seeds, issued' = issued,
         \A p \in Pods : op'[p].step = "init" => op[p].step = "init"
  PROVE  SeedBudget'
  <1>1. Initing' \subseteq Initing /\ IsFiniteSet(Initing)
    BY PodsAssumption, FS_Subset DEF Initing
  <1>2. IsFiniteSet(Initing') /\ Cardinality(Initing') <= Cardinality(Initing)
    BY <1>1, FS_Subset
  <1>3. Cardinality(Initing) \in Nat /\ Cardinality(Initing') \in Nat
    BY <1>1, <1>2, FS_CardinalityType
  <1> QED  BY <1>2, <1>3 DEF SeedBudget, TypeOK

\* ... and by a conversion, which uses one of the admissions up.
LEMMA BudgetUsed ==
  ASSUME TypeOK, SeedBudget, NEW p \in Pods, op[p].step = "init", op'[p].step # "init",
         \A q \in Pods \ {p} : op'[q] = op[q],
         seeds' \in {seeds, seeds + 1}, issued' = issued
  PROVE  SeedBudget' /\ seeds < MaxAdmissions
  <1>1. Initing' = Initing \ {p} /\ p \in Initing /\ IsFiniteSet(Initing)
    BY PodsAssumption, FS_Subset DEF Initing
  <1>2. Cardinality(Initing') = Cardinality(Initing) - 1
    BY <1>1, FS_RemoveElement
  <1>3. Cardinality(Initing) \in Nat /\ Cardinality(Initing) # 0
    BY <1>1, FS_CardinalityType, FS_EmptySet
  <1> QED  BY <1>2, <1>3, BoundsAssumption DEF SeedBudget, TypeOK

LEMMA OwnersAt ==
  ASSUME TypeOK, NEW p \in Pods, op[p].tries < MaxTries, Owners(p)
  PROVE  /\ OpTypes'
         /\ op'[p].step = "wait" /\ op'[p].kind = op[p].kind /\ op'[p].conns = op[p].conns
         /\ op'[p].owners = held /\ op'[p].waiting = Others(p) /\ op'[p].dumps = {}
         /\ op'[p].must = op[p].must
         /\ \A q \in Pods \ {p} : op'[q] = op[q]
  <1> DEFINE o == [op[p] EXCEPT !.step = "wait", !.owners = held, !.waiting = Others(p),
                                !.dumps = {}, !.tries = op[p].tries + 1]
  <1>1. /\ Typed(o) /\ o.step = "wait" /\ o.kind = op[p].kind /\ o.conns = op[p].conns
        /\ o.owners = held /\ o.waiting = Others(p) /\ o.dumps = {} /\ o.must = op[p].must
    <2>1. held \subseteq Admissions /\ Others(p) \subseteq held /\ op[p].tries + 1 \in 0..MaxTries
      BY OpOf, BoundsAssumption DEF TypeOK, Others, Typed, Operations
    <2> QED  BY <2>1, OpOf DEF Typed, Operations
  <1>2. op' = [op EXCEPT ![p] = o]
    BY DEF Owners
  <1> HIDE DEF o
  <1> QED  BY <1>1, <1>2, OpAt

\* One dump more, or one owner less to wait for.
LEMMA DumpsAt ==
  ASSUME TypeOK, NEW p \in Pods, NEW D \in SUBSET Dumps, op' = [op EXCEPT ![p] = [op[p] EXCEPT !.dumps = D]]
  PROVE  /\ OpTypes'
         /\ op'[p].step = op[p].step /\ op'[p].kind = op[p].kind /\ op'[p].conns = op[p].conns
         /\ op'[p].owners = op[p].owners /\ op'[p].waiting = op[p].waiting /\ op'[p].dumps = D
         /\ op'[p].must = op[p].must /\ op'[p].tries = op[p].tries
         /\ \A q \in Pods \ {p} : op'[q] = op[q]
  <1> DEFINE o == [op[p] EXCEPT !.dumps = D]
  <1>1. /\ Typed(o) /\ o.step = op[p].step /\ o.kind = op[p].kind /\ o.conns = op[p].conns
        /\ o.owners = op[p].owners /\ o.waiting = op[p].waiting /\ o.dumps = D
        /\ o.must = op[p].must /\ o.tries = op[p].tries
    BY OpOf DEF Typed, Operations
  <1>2. op' = [op EXCEPT ![p] = o]
    OBVIOUS
  <1> HIDE DEF o
  <1> QED  BY <1>1, <1>2, OpAt

LEMMA WaitingAt ==
  ASSUME TypeOK, NEW p \in Pods, NEW W \in SUBSET op[p].waiting,
         op' = [op EXCEPT ![p] = [op[p] EXCEPT !.waiting = W]]
  PROVE  /\ OpTypes'
         /\ op'[p].step = op[p].step /\ op'[p].kind = op[p].kind /\ op'[p].conns = op[p].conns
         /\ op'[p].owners = op[p].owners /\ op'[p].waiting = W /\ op'[p].dumps = op[p].dumps
         /\ op'[p].must = op[p].must /\ op'[p].tries = op[p].tries
         /\ \A q \in Pods \ {p} : op'[q] = op[q]
  <1> DEFINE o == [op[p] EXCEPT !.waiting = W]
  <1>1. /\ Typed(o) /\ o.step = op[p].step /\ o.kind = op[p].kind /\ o.conns = op[p].conns
        /\ o.owners = op[p].owners /\ o.waiting = W /\ o.dumps = op[p].dumps
        /\ o.must = op[p].must /\ o.tries = op[p].tries
    BY OpOf DEF Typed, Operations
  <1>2. op' = [op EXCEPT ![p] = o]
    OBVIOUS
  <1> HIDE DEF o
  <1> QED  BY <1>1, <1>2, OpAt

-----------------------------------------------------------------------------
(* Type correctness, one lemma per action *)

Lives == {"new", "joining", "joined", "gone"}

RestTypes ==
  /\ home \in [Sockets -> Pods]
  /\ store \in [doc : Docs, body : SUBSET (Writers \cup Authors), late : SUBSET (Writers \cup Authors)]
  /\ held \subseteq Admissions
  /\ issued \in 0..MaxAdmissions /\ seeds \in 0..MaxAdmissions
  /\ asked \subseteq Pods
  /\ frame \in [Writers -> 0..MaxAdmissions]
  /\ bus \subseteq [to : Pods, adm : Admissions, edit : Writers]
  /\ owed \subseteq Writers \cup Authors
  /\ under \in [Writers -> 0..MaxAdmissions]
  /\ snap \in [nr : Nat, must : SUBSET (Writers \cup Authors), got : Docs]
  /\ pending \subseteq Saves
  /\ deleting \in BOOLEAN
  /\ writes \in 0..MaxWrites /\ faults \in 0..MaxFaults

LEMMA TypeParts ==
  ASSUME RestTypes', OpTypes', room' \in [Pods -> Rooms], socket' \in [Sockets -> Lives]
  PROVE  TypeOK'
  BY DEF TypeOK, RestTypes, OpTypes, Lives

\* A step of the operation of p that does not acquire or convert.
LEMMA StepTyped ==
  ASSUME TypeInv, NEW p \in Pods, RestTypes', OpTypes',
         room' \in [Pods -> Rooms], socket' \in [Sockets -> Lives],
         seeds' = seeds, issued' = issued,
         \A q \in Pods \ {p} : op'[q] = op[q],
         op'[p].step # "init",
         op'[p].step \in {"check", "admit", "owners"} => op'[p].tries < MaxTries
  PROVE  TypeInv'
  <1>1. TypeOK'
    BY TypeParts
  <1>2. SeedBudget'
    <2>1. \A q \in Pods : op'[q].step = "init" => op[q].step = "init"
      OBVIOUS
    <2> QED  BY <2>1, BudgetKept DEF TypeInv
  <1>3. TriesLeft'
    BY DEF TypeInv, TriesLeft
  <1> QED  BY <1>1, <1>2, <1>3 DEF TypeInv

\* A step outside the operations.
LEMMA AsideTyped ==
  ASSUME TypeInv, RestTypes', room' \in [Pods -> Rooms], socket' \in [Sockets -> Lives],
         op' = op, seeds' = seeds, issued' = issued
  PROVE  TypeInv'
  <1>1. TypeOK'
    <2>1. OpTypes'
      BY DEF TypeInv, TypeOK, OpTypes
    <2> QED  BY <2>1, TypeParts
  <1>2. SeedBudget'
    BY BudgetKept DEF TypeInv
  <1>3. TriesLeft'
    BY DEF TypeInv, TriesLeft
  <1> QED  BY <1>1, <1>2, <1>3 DEF TypeInv

LEMMA StartJoinTyped ==
  ASSUME TypeInv, NEW c \in Sockets, StartJoin(c)
  PROVE  TypeInv'
  <1> DEFINE p == home[c]
             s == First(c, Opened(p))
  <1>0. TypeOK /\ p \in Pods
    BY DEF TypeInv, TypeOK
  <1>1. s \in Steps /\ s # "init"
    BY DEF First, Steps
  <1>2. op' = [op EXCEPT ![p] = [Start("join", s) EXCEPT !.conns = {c}]]
    BY DEF StartJoin
  <1>3. room' = [room EXCEPT ![p] = Opened(p)] /\ socket' = [socket EXCEPT ![c] = "joining"]
    BY DEF StartJoin
  <1>4. RestTypes' /\ seeds' = seeds /\ issued' = issued
    BY <1>0 DEF StartJoin, TypeOK, RestTypes
  <1>5. socket' \in [Sockets -> Lives]
    BY <1>0, <1>3 DEF TypeOK, Lives
  <1> DEFINE cs == {c}
  <1>8. cs \in SUBSET Sockets /\ op' = [op EXCEPT ![p] = [Start("join", s) EXCEPT !.conns = cs]]
    BY <1>2
  <1> HIDE DEF p, s, cs
  <1>6. room' \in [Pods -> Rooms]
    BY <1>0, <1>3, OpenedTyped, RoomAt
  <1>7. OpTypes' /\ op'[p].step = s /\ op'[p].tries = 0 /\ \A q \in Pods \ {p} : op'[q] = op[q]
    BY <1>0, <1>1, <1>8, JoinAt
  <1> QED  BY <1>0, <1>1, <1>4, <1>5, <1>6, <1>7, StepTyped, BoundsAssumption

LEMMA CheckTyped ==
  ASSUME TypeInv, NEW p \in Pods, Check(p)
  PROVE  TypeInv'
  <1>0. TypeOK /\ op[p].tries < MaxTries
    BY DEF TypeInv, TriesLeft, Check
  <1>1. RestTypes' /\ seeds' = seeds /\ issued' = issued /\ room' \in [Pods -> Rooms]
    BY <1>0 DEF Check, TypeOK, RestTypes
  <1>2. socket' \in [Sockets -> Lives]
    BY <1>0, GoneTyped DEF Check, TypeOK, Lives
  <1>3. Goto(p, "owners") \/ Done(p)
    BY DEF Check
  <1>4. /\ OpTypes' /\ op'[p].step # "init" /\ \A q \in Pods \ {p} : op'[q] = op[q]
        /\ op'[p].tries < MaxTries
    BY <1>0, <1>3, GotoAt, DoneAt, IdleTyped, BoundsAssumption DEF Onward, Steps
  <1> QED  BY <1>1, <1>2, <1>4, StepTyped

LEMMA AdmitTyped ==
  ASSUME TypeInv, NEW p \in Pods, Admit(p)
  PROVE  TypeInv'
  <1>0. TypeOK /\ op[p].tries < MaxTries /\ op[p].step = "admit"
    BY DEF TypeInv, TriesLeft, Admit
  <1>1. issued + 1 \in Admissions /\ issued + 1 \in 0..MaxAdmissions
    BY <1>0, BoundsAssumption DEF Admit, TypeOK, Admissions
  <1>2. RestTypes' /\ seeds' = seeds /\ issued' = issued + 1 /\ socket' \in [Sockets -> Lives]
    BY <1>0, <1>1 DEF Admit, TypeOK, RestTypes, Lives
  <1>3. room' \in [Pods -> Rooms]
    <2>1. Owning(room[p], issued + 1) \in Rooms /\ room \in [Pods -> Rooms]
      BY <1>0, <1>1, OpOf, OwningTyped DEF TypeOK
    <2> QED  BY <2>1 DEF Admit
  <1>4. OpTypes' /\ op'[p].tries = op[p].tries /\ \A q \in Pods \ {p} : op'[q] = op[q]
    <2>1. CASE op' = [op EXCEPT ![p] = [op[p] EXCEPT !.step = "init", !.acquired = issued + 1]]
      BY <1>0, <1>1, <2>1, AdmitAt
    <2>2. CASE Goto(p, "owners")
      BY <1>0, <2>2, GotoAt DEF Onward, Steps
    <2> QED  BY <2>1, <2>2 DEF Admit
  <1>5. TypeOK'
    BY <1>2, <1>3, <1>4, TypeParts
  <1>6. TriesLeft'
    BY <1>0, <1>4 DEF TypeInv, TriesLeft
  <1>7. SeedBudget'
    <2>1. Initing' \subseteq Initing \cup {p} /\ IsFiniteSet(Initing)
      BY <1>4, PodsAssumption, FS_Subset DEF Initing
    <2>2. IsFiniteSet(Initing \cup {p}) /\ Cardinality(Initing \cup {p}) <= Cardinality(Initing) + 1
      BY <2>1, FS_AddElement, FS_CardinalityType
    <2>3. IsFiniteSet(Initing') /\ Cardinality(Initing') <= Cardinality(Initing \cup {p})
      BY <2>1, <2>2, FS_Subset
    <2>4. /\ Cardinality(Initing) \in Nat /\ Cardinality(Initing') \in Nat
          /\ Cardinality(Initing \cup {p}) \in Nat
      BY <2>1, <2>2, <2>3, FS_CardinalityType
    <2> QED  BY <1>0, <1>2, <2>2, <2>3, <2>4 DEF TypeInv, SeedBudget, TypeOK
  <1> QED  BY <1>5, <1>6, <1>7 DEF TypeInv

LEMMA StoredTyped ==
  ASSUME TypeOK, seeds < MaxAdmissions
  PROVE  Stored \in Docs
  <1>1. store.doc \in Docs /\ store.body \subseteq Writers \cup Authors
    BY DEF TypeOK
  <1>2. seeds + 1 \in Seeds
    BY BoundsAssumption DEF TypeOK, Seeds
  <1>3. {seeds + 1} \cup store.body \in Docs
    BY <1>1, <1>2 DEF Docs
  <1>4. Stored = store.doc \/ Stored = {seeds + 1} \cup store.body
    BY DEF Stored
  <1> QED  BY <1>1, <1>3, <1>4

LEMMA InitDocTyped ==
  ASSUME TypeInv, NEW p \in Pods, InitDoc(p)
  PROVE  TypeInv'
  <1>0. TypeOK /\ op[p].tries < MaxTries /\ op[p].step = "init"
    BY DEF TypeInv, TriesLeft, InitDoc
  <1>1. OpTypes' /\ op'[p].step = "owners" /\ op'[p].tries = op[p].tries /\ \A q \in Pods \ {p} : op'[q] = op[q]
    <2>1. Goto(p, "owners")
      BY DEF InitDoc, Goto
    <2> QED  BY <1>0, <2>1, GotoAt DEF Onward, Steps
  <1>2. SeedBudget' /\ seeds < MaxAdmissions
    <2>1. seeds' \in {seeds, seeds + 1} /\ issued' = issued
      BY DEF InitDoc, Convert
    <2> QED  BY <1>0, <1>1, <2>1, BudgetUsed DEF TypeInv
  <1>3. Stored \in Docs
    BY <1>0, <1>2, StoredTyped
  <1>4. RestTypes'
    <2>1. seeds' \in 0..MaxAdmissions
      BY <1>0, <1>2, BoundsAssumption DEF InitDoc, Convert, TypeOK
    <2>2. store' \in [doc : Docs, body : SUBSET (Writers \cup Authors), late : SUBSET (Writers \cup Authors)]
      BY <1>0, <1>3 DEF InitDoc, Convert, TypeOK
    <2> QED  BY <1>0, <2>1, <2>2 DEF InitDoc, TypeOK, RestTypes
  <1>5. room' \in [Pods -> Rooms]
    <2>1. room[p] \in Rooms /\ op[p].acquired \in 0..MaxAdmissions
      BY <1>0, OpOf DEF Typed, Operations
    <2>2. Adopted(room[p], Stored) \in Rooms
      BY <1>3, <2>1, AdoptedTyped
    <2>3. Owning(Adopted(room[p], Stored), op[p].acquired) \in Rooms
      BY <2>1, <2>2, OwningTyped
    <2> QED  BY <1>0, <2>3 DEF InitDoc, TypeOK
  <1>6. socket' \in [Sockets -> Lives]
    BY <1>0, GoneTyped DEF InitDoc, Lives
  <1>7. TypeOK' /\ TriesLeft'
    BY <1>0, <1>1, <1>4, <1>5, <1>6, TypeParts DEF TypeInv, TriesLeft
  <1> QED  BY <1>2, <1>7 DEF TypeInv

LEMMA InitFailsTyped ==
  ASSUME TypeInv, NEW p \in Pods, InitFails(p)
  PROVE  TypeInv'
  <1>0. TypeOK /\ op[p].step = "init" /\ Done(p)
    BY DEF TypeInv, InitFails
  <1>1. OpTypes' /\ op'[p] = Idle /\ \A q \in Pods \ {p} : op'[q] = op[q]
    BY <1>0, DoneAt
  <1>2. SeedBudget' /\ seeds < MaxAdmissions
    <2>1. seeds' \in {seeds, seeds + 1} /\ issued' = issued
      BY DEF InitFails, Convert
    <2> QED  BY <1>0, <1>1, <2>1, BudgetUsed, IdleTyped DEF TypeInv
  <1>3. Stored \in Docs
    BY <1>0, <1>2, StoredTyped
  <1>4. RestTypes'
    <2>1. seeds' \in 0..MaxAdmissions
      BY <1>0, <1>2, BoundsAssumption DEF InitFails, Convert, TypeOK
    <2>2. store' \in [doc : Docs, body : SUBSET (Writers \cup Authors), late : SUBSET (Writers \cup Authors)]
      BY <1>0, <1>3 DEF InitFails, Convert, TypeOK
    <2>3. faults' \in 0..MaxFaults
      BY <1>0, BoundsAssumption DEF InitFails, Fault, TypeOK
    <2> QED  BY <1>0, <2>1, <2>2, <2>3 DEF InitFails, TypeOK, RestTypes
  <1>5. room' \in [Pods -> Rooms]
    <2>1. room[p] \in Rooms /\ op[p].acquired \in 0..MaxAdmissions
      BY <1>0, OpOf DEF Typed, Operations
    <2>2. PICK a \in 0..MaxAdmissions : room' = [room EXCEPT ![p].adm = a]
      <3>1. PICK kept \in {0} \cup {op[p].acquired : h \in {"retained"} \cap Hazards} :
              room' = [room EXCEPT ![p].adm = kept]
        BY DEF InitFails
      <3>2. kept \in 0..MaxAdmissions
        BY <2>1, <3>1, BoundsAssumption
      <3> QED  BY <3>1, <3>2
    <2>3. [room[p] EXCEPT !.adm = a] \in Rooms
      BY <2>1 DEF Rooms
    <2> QED  BY <1>0, <2>2, <2>3 DEF TypeOK
  <1>6. socket' \in [Sockets -> Lives]
    BY <1>0, GoneTyped DEF InitFails, Lives
  <1>7. TypeOK' /\ TriesLeft'
    BY <1>0, <1>1, <1>4, <1>5, <1>6, TypeParts, IdleTyped DEF TypeInv, TriesLeft
  <1> QED  BY <1>2, <1>7 DEF TypeInv

\* A step that ends its operation.
LEMMA DoneTyped ==
  ASSUME TypeInv, NEW p \in Pods, Done(p), RestTypes',
         room' \in [Pods -> Rooms], socket' \in [Sockets -> Lives],
         seeds' = seeds, issued' = issued
  PROVE  TypeInv'
  BY DoneAt, IdleTyped, StepTyped DEF TypeInv

LEMMA AttachTyped ==
  ASSUME TypeInv, NEW p \in Pods, Attach(p)
  PROVE  TypeInv'
  <1>0. TypeOK
    BY DEF TypeInv
  <1>1. RestTypes' /\ seeds' = seeds /\ issued' = issued
    BY <1>0 DEF Attach, TypeOK, RestTypes
  <1>2. socket' \in [Sockets -> Lives]
    BY <1>0 DEF Attach, TypeOK, Lives
  <1>3. room' \in [Pods -> Rooms]
    <2>1. room[p] \in Rooms /\ op[p].conns \subseteq Sockets /\ room \in [Pods -> Rooms]
      BY <1>0, OpOf DEF Typed, Operations, TypeOK
    <2>2. /\ room[p].live \cup op[p].conns \in SUBSET Sockets
          /\ room[p].writers \cup (op[p].conns \cap Writers) \in SUBSET Writers
      BY <2>1 DEF Rooms
    <2>3. [room[p] EXCEPT !.live = room[p].live \cup op[p].conns,
                          !.writers = room[p].writers \cup (op[p].conns \cap Writers)] \in Rooms
      BY <2>1, <2>2, LessTyped
    <2> QED  BY <2>1, <2>3 DEF Attach
  <1>4. Done(p)
    BY DEF Attach
  <1> QED  BY <1>1, <1>2, <1>3, <1>4, DoneTyped

\* A step that has a room adopt a document.
LEMMA AdoptsTyped ==
  ASSUME TypeOK, NEW q \in Pods, NEW d \in Docs,
         room' = [room EXCEPT ![q] = Adopted(room[q], d)], socket' = Gone(Away(room[q]))
  PROVE  room' \in [Pods -> Rooms] /\ socket' \in [Sockets -> Lives]
  <1>1. Adopted(room[q], d) \in Rooms
    BY OpOf, AdoptedTyped
  <1> QED  BY <1>1, GoneTyped DEF TypeOK, Lives

LEMMA OwnersTyped ==
  ASSUME TypeInv, NEW p \in Pods, Owners(p)
  PROVE  TypeInv'
  <1>0. TypeOK /\ op[p].tries < MaxTries
    BY DEF TypeInv, TriesLeft, Owners
  <1>1. RestTypes' /\ seeds' = seeds /\ issued' = issued
    BY <1>0 DEF Owners, TypeOK, RestTypes
  <1>2. room' \in [Pods -> Rooms] /\ socket' \in [Sockets -> Lives]
    BY <1>0, AdoptsTyped DEF Owners, TypeOK
  <1>3. OpTypes' /\ op'[p].step = "wait" /\ \A q \in Pods \ {p} : op'[q] = op[q]
    BY <1>0, OwnersAt
  <1> QED  BY <1>1, <1>2, <1>3, StepTyped

LEMMA ReplyDumpTyped ==
  ASSUME TypeInv, NEW p \in Pods, NEW q \in Pods, ReplyDump(p, q)
  PROVE  TypeInv'
  <1> DEFINE r == Adopted(room[q], store.doc)
             D == op[p].dumps \cup {[adm |-> room[q].adm, doc |-> r.doc]}
  <1>0. TypeOK /\ op[p].step = "wait" /\ store.doc \in Docs
    BY DEF TypeInv, ReplyDump, TypeOK
  <1>1. RestTypes' /\ seeds' = seeds /\ issued' = issued
    BY <1>0 DEF ReplyDump, TypeOK, RestTypes
  <1>2. room' \in [Pods -> Rooms] /\ socket' \in [Sockets -> Lives]
    BY <1>0, AdoptsTyped DEF ReplyDump
  <1>3. D \in SUBSET Dumps
    <2>1. room[q].adm \in Admissions
      BY <1>0 DEF ReplyDump, TypeOK
    <2>2. r \in Rooms
      BY <1>0, OpOf, AdoptedTyped
    <2>3. r.doc \in Docs /\ op[p].dumps \in SUBSET Dumps
      BY <1>0, <2>2, OpOf DEF Rooms, Typed, Operations
    <2>4. [adm |-> room[q].adm, doc |-> r.doc] \in Dumps
      BY <2>1, <2>3 DEF Dumps
    <2> QED  BY <2>3, <2>4
  <1>4. op' = [op EXCEPT ![p] = [op[p] EXCEPT !.dumps = D]]
    BY DEF ReplyDump
  <1> HIDE DEF D
  <1>5. OpTypes' /\ op'[p].step = "wait" /\ \A k \in Pods \ {p} : op'[k] = op[k]
    BY <1>0, <1>3, <1>4, DumpsAt
  <1> QED  BY <1>1, <1>2, <1>5, StepTyped

LEMMA TakeDumpTyped ==
  ASSUME TypeInv, NEW p \in Pods, TakeDump(p)
  PROVE  TypeInv'
  <1>0. TypeOK /\ op[p].step = "wait" /\ op[p].dumps \subseteq Dumps
    BY OpOf DEF TypeInv, TakeDump, Typed, Operations
  <1>1. RestTypes' /\ seeds' = seeds /\ issued' = issued
    BY <1>0 DEF TakeDump, TypeOK, RestTypes
  <1>2. PICK d \in Dumps : /\ room' = [room EXCEPT ![p] = Armed(Adopted(room[p], d.doc), room[p].doc)]
                           /\ socket' = Gone(Away(room[p]))
                           /\ op' = [op EXCEPT ![p] = [op[p] EXCEPT !.waiting = op[p].waiting \ {d.adm}]]
    BY <1>0 DEF TakeDump
  <1>3. d.doc \in Docs
    BY DEF Dumps
  <1>4. room' \in [Pods -> Rooms] /\ socket' \in [Sockets -> Lives]
    <2> DEFINE r == Armed(Adopted(room[p], d.doc), room[p].doc)
    <2>1. room[p] \in Rooms /\ room[p].doc \in Docs
      BY <1>0, OpOf DEF Rooms
    <2>2. r \in Rooms
      BY <1>3, <2>1, AdoptedTyped, ArmedTyped
    <2>3. room' = [room EXCEPT ![p] = r]
      BY <1>2
    <2> HIDE DEF r
    <2> QED  BY <1>0, <1>2, <2>2, <2>3, GoneTyped DEF TypeOK, Lives
  <1> DEFINE W == op[p].waiting \ {d.adm}
  <1>5. W \in SUBSET op[p].waiting /\ op' = [op EXCEPT ![p] = [op[p] EXCEPT !.waiting = W]]
    BY <1>2
  <1> HIDE DEF W
  <1>6. OpTypes' /\ op'[p].step = "wait" /\ \A k \in Pods \ {p} : op'[k] = op[k]
    BY <1>0, <1>5, WaitingAt
  <1> QED  BY <1>1, <1>4, <1>6, StepTyped

LEMMA SettleTyped ==
  ASSUME TypeInv, NEW p \in Pods, Settle(p)
  PROVE  TypeInv'
  <1> DEFINE r == Adopted(room[p], store.doc)
  <1>0. TypeOK /\ r \in Rooms /\ store.doc \in Docs
    BY OpOf, AdoptedTyped DEF TypeInv, TypeOK
  <1>1. \/ held = op[p].owners /\ Conclude(p)
        \/ op[p].tries < MaxTries /\ Again(p)
    BY DEF Settle
  <1>2. /\ UNCHANGED <<home, store, held, issued, seeds, asked, frame, bus, owed, under, deleting, writes, faults>>
    BY DEF Settle, Answered
  <1>3. RestTypes' /\ seeds' = seeds /\ issued' = issued
    <2>1. r.doc \in Docs /\ op[p].must \in SUBSET (Writers \cup Authors)
      BY <1>0, OpOf DEF Rooms, Typed, Operations
    <2>2. Text(r.doc) \in SUBSET (Writers \cup Authors)
      BY <2>1 DEF Text, Docs
    <2>3. snap \in [nr : Nat, must : SUBSET (Writers \cup Authors), got : Docs] /\ pending \subseteq Saves
      BY <1>0 DEF TypeOK
    <2> HIDE DEF r
    <2>4. [pod |-> p, nr |-> snap.nr + 1, must |-> op[p].must, body |-> Text(r.doc)] \in Saves
      BY <2>1, <2>2, <2>3 DEF Saves
    <2>5. \/ snap' = snap /\ pending' = pending
          \/ /\ snap' = [nr |-> snap.nr + 1, must |-> op[p].must, got |-> r.doc]
             /\ pending' = pending \cup
                  {[pod |-> p, nr |-> snap.nr + 1, must |-> op[p].must, body |-> Text(r.doc)]}
      BY <1>1 DEF Conclude, Confirmed, Again, r
    <2>6. /\ snap' \in [nr : Nat, must : SUBSET (Writers \cup Authors), got : Docs]
          /\ pending' \subseteq Saves
      BY <2>1, <2>3, <2>4, <2>5
    <2> QED  BY <1>0, <1>2, <2>6 DEF TypeOK, RestTypes
  <1>4. room' \in [Pods -> Rooms] /\ socket' \in [Sockets -> Lives]
    <2>1. Kept(p, r) \in Rooms /\ room \in [Pods -> Rooms]
      BY <1>0, ClosedTyped DEF Kept, TypeOK
    <2> QED  BY <1>0, <1>1, <2>1, GoneTyped DEF Conclude, Again, TypeOK, Lives
  <1>5. \/ Goto(p, "attach") \/ Done(p)
        \/ op[p].tries < MaxTries /\ Goto(p, "owners")
    BY <1>1 DEF Conclude, Confirmed, Again
  <1>6. /\ OpTypes' /\ op'[p].step # "init" /\ \A q \in Pods \ {p} : op'[q] = op[q]
        /\ op'[p].step \in {"check", "admit", "owners"} => op'[p].tries < MaxTries
    <2>1. CASE Goto(p, "attach")
      BY <1>0, <2>1, GotoAt DEF Onward, Steps
    <2>2. CASE Done(p)
      BY <1>0, <2>2, DoneAt, IdleTyped
    <2>3. CASE op[p].tries < MaxTries /\ Goto(p, "owners")
      BY <1>0, <2>3, GotoAt DEF Onward, Steps
    <2> QED  BY <1>5, <2>1, <2>2, <2>3
  <1> QED  BY <1>3, <1>4, <1>6, StepTyped

LEMMA RoundFailsTyped ==
  ASSUME TypeInv, NEW p \in Pods, RoundFails(p)
  PROVE  TypeInv'
  <1>0. TypeOK
    BY DEF TypeInv
  <1>1. RestTypes' /\ seeds' = seeds /\ issued' = issued
    BY <1>0 DEF RoundFails, TypeOK, RestTypes
  <1>2. room' \in [Pods -> Rooms] /\ socket' \in [Sockets -> Lives]
    <2>1. Kept(p, room[p]) \in Rooms /\ room \in [Pods -> Rooms]
      BY <1>0, ClosedTyped, OpOf DEF Kept, TypeOK
    <2> QED  BY <1>0, <2>1, GoneTyped DEF RoundFails, Lives
  <1>3. op' = [op EXCEPT ![p] = Start("retire", "flush")] \/ Done(p)
    BY DEF RoundFails, Done
  <1>4. OpTypes' /\ op'[p].step \in {"flush", "none"} /\ \A q \in Pods \ {p} : op'[q] = op[q]
    BY <1>0, <1>3, StartAt, DoneAt, IdleTyped DEF Kinds, Steps
  <1> QED  BY <1>1, <1>2, <1>4, StepTyped

LEMMA StartCommitTyped ==
  ASSUME TypeInv, NEW p \in Pods, StartCommit(p)
  PROVE  TypeInv'
  <1>0. TypeOK /\ owed \in SUBSET (Writers \cup Authors)
    BY DEF TypeInv, TypeOK
  <1>1. RestTypes' /\ seeds' = seeds /\ issued' = issued /\ socket' \in [Sockets -> Lives]
    BY <1>0, BoundsAssumption DEF StartCommit, TypeOK, RestTypes, Lives
  <1>2. room' \in [Pods -> Rooms]
    <2>1. Opened(p) \in Rooms /\ room \in [Pods -> Rooms]
      BY <1>0, OpenedTyped DEF TypeOK
    <2> QED  BY <2>1 DEF StartCommit
  <1>3. op' = [op EXCEPT ![p] = [Start("commit", "owners") EXCEPT !.must = owed]]
    BY DEF StartCommit
  <1>4. OpTypes' /\ op'[p].step = "owners" /\ op'[p].tries = 0 /\ \A q \in Pods \ {p} : op'[q] = op[q]
    BY <1>0, <1>3, SaveAt
  <1> QED  BY <1>1, <1>2, <1>4, StepTyped, BoundsAssumption

LEMMA ReceiveTyped ==
  ASSUME TypeInv, NEW w \in Writers, Receive(w)
  PROVE  TypeInv'
  <1>0. TypeOK /\ home[w] \in Pods
    BY DEF TypeInv, TypeOK, Sockets
  <1>1. room[home[w]].adm \in 0..MaxAdmissions
    BY <1>0, OpOf DEF Rooms
  <1>2. /\ RestTypes' /\ seeds' = seeds /\ issued' = issued /\ op' = op
        /\ room' \in [Pods -> Rooms] /\ socket' \in [Sockets -> Lives]
    BY <1>0, <1>1 DEF Receive, TypeOK, RestTypes, Lives
  <1> QED  BY <1>2, AsideTyped

LEMMA ApplyTyped ==
  ASSUME TypeInv, NEW w \in Writers, Apply(w)
  PROVE  TypeInv'
  <1> DEFINE p == home[w]
  <1>0. TypeOK /\ p \in Pods /\ Accept(w) /\ frame[w] \in held
    BY DEF TypeInv, TypeOK, Sockets, Apply
  <1>1. Edited(room[p], w) \in Rooms /\ room \in [Pods -> Rooms]
    BY <1>0, OpOf, EditedTyped DEF TypeOK
  <1>2. room' \in [Pods -> Rooms] /\ socket' \in [Sockets -> Lives]
    BY <1>0, <1>1 DEF Apply, Accept, TypeOK, Lives
  <1>3. RestTypes'
    <2>1. frame[w] \in Admissions /\ 0 \in 0..MaxAdmissions /\ frame[w] \in 0..MaxAdmissions
      BY <1>0, BoundsAssumption DEF TypeOK, Admissions
    <2>2. bus' \subseteq [to : Pods, adm : Admissions, edit : Writers]
      BY <1>0, <2>1 DEF Accept, TypeOK
    <2>3. /\ owed' \subseteq Writers \cup Authors
          /\ under' \in [Writers -> 0..MaxAdmissions]
          /\ frame' \in [Writers -> 0..MaxAdmissions]
      BY <1>0, <2>1 DEF Accept, TypeOK
    <2> QED  BY <1>0, <2>2, <2>3 DEF Apply, TypeOK, RestTypes
  <1>4. seeds' = seeds /\ issued' = issued /\ op' = op
    BY DEF Apply
  <1> QED  BY <1>2, <1>3, <1>4, AsideTyped

LEMMA DropTyped ==
  ASSUME TypeInv, NEW w \in Writers, Drop(w)
  PROVE  TypeInv'
  <1> DEFINE p == home[w]
  <1>0. TypeOK /\ p \in Pods
    BY DEF TypeInv, TypeOK, Sockets
  <1>1. room' \in [Pods -> Rooms]
    <2>1. [room[p] EXCEPT !.writers = room[p].writers \ {w}] \in Rooms
      BY <1>0, OpOf DEF Rooms
    <2>2. room' = room \/ room' = [room EXCEPT ![p] = [room[p] EXCEPT !.writers = room[p].writers \ {w}]]
      BY <1>0 DEF Drop, TypeOK
    <2> QED  BY <1>0, <2>1, <2>2 DEF TypeOK
  <1>2. faults' \in 0..MaxFaults
    BY <1>0, BoundsAssumption DEF Drop, Fault, TypeOK
  <1>3. RestTypes' /\ socket' \in [Sockets -> Lives] /\ seeds' = seeds /\ issued' = issued /\ op' = op
    BY <1>0, <1>2, BoundsAssumption DEF Drop, TypeOK, RestTypes, Lives
  <1> QED  BY <1>1, <1>3, AsideTyped

LEMMA MergeTyped ==
  ASSUME TypeInv, NEW m \in bus, Merge(m)
  PROVE  TypeInv'
  <1> DEFINE q == m.to
             seeded == IF 0 \in room[q].doc THEN Adopted(room[q], store.doc) ELSE room[q]
  <1>0. TypeOK /\ q \in Pods /\ m.edit \in Writers /\ store.doc \in Docs
    BY DEF TypeInv, TypeOK
  <1>1. seeded \in Rooms
    BY <1>0, OpOf, AdoptedTyped
  <1>2. Edited(seeded, m.edit) \in Rooms
    BY <1>0, <1>1, EditedTyped
  <1>3. room' = room \/ room' = [room EXCEPT ![q] = Edited(seeded, m.edit)]
    BY DEF Merge
  <1> HIDE DEF seeded
  <1>4. room' \in [Pods -> Rooms]
    BY <1>0, <1>2, <1>3 DEF TypeOK
  <1>5. socket' \in [Sockets -> Lives]
    BY <1>0, GoneTyped DEF Merge, TypeOK, Lives
  <1>6. RestTypes' /\ seeds' = seeds /\ issued' = issued /\ op' = op
    BY <1>0 DEF Merge, TypeOK, RestTypes
  <1> QED  BY <1>4, <1>5, <1>6, AsideTyped

\* What is written is a document and its text.
LEMMA PersistedTyped ==
  ASSUME TypeOK, NEW p \in Pods, Persisted(p)
  PROVE  /\ room' \in [Pods -> Rooms]
         /\ store' \in [doc : Docs, body : SUBSET (Writers \cup Authors), late : SUBSET (Writers \cup Authors)]
  <1> DEFINE doc == room[p].doc \cup store.doc
             r == [room[p] EXCEPT !.doc = doc, !.armed = FALSE]
  <1>1. room[p] \in Rooms /\ store.doc \in Docs
    BY OpOf DEF TypeOK
  <1>2. doc \in Docs /\ Text(doc) \in SUBSET (Writers \cup Authors)
    BY <1>1 DEF Rooms, Docs, Text
  <1>3. r \in Rooms
    BY <1>1, <1>2 DEF Rooms
  <1>4. room' = [room EXCEPT ![p] = r] /\ store' = [doc |-> doc, body |-> Text(doc), late |-> {}]
    BY DEF Persisted
  <1> HIDE DEF r, doc
  <1> QED  BY <1>2, <1>3, <1>4 DEF TypeOK

LEMMA PersistTyped ==
  ASSUME TypeInv, NEW p \in Pods, Persist(p)
  PROVE  TypeInv'
  <1>0. TypeOK
    BY DEF TypeInv
  <1>1. /\ room' \in [Pods -> Rooms]
        /\ store' \in [doc : Docs, body : SUBSET (Writers \cup Authors), late : SUBSET (Writers \cup Authors)]
    BY <1>0, PersistedTyped DEF Persist
  <1>2. RestTypes' /\ socket' \in [Sockets -> Lives] /\ seeds' = seeds /\ issued' = issued /\ op' = op
    BY <1>0, <1>1 DEF Persist, TypeOK, RestTypes, Lives
  <1> QED  BY <1>1, <1>2, AsideTyped

LEMMA LeaveTyped ==
  ASSUME TypeInv, NEW c \in Sockets, Leave(c)
  PROVE  TypeInv'
  <1> DEFINE p == home[c]
             r == [room[p] EXCEPT !.live = room[p].live \ {c}, !.writers = room[p].writers \ {c}]
  <1>0. TypeOK /\ p \in Pods
    BY DEF TypeInv, TypeOK
  <1>1. r \in Rooms
    <2>1. room[p] \in Rooms
      BY <1>0, OpOf
    <2>2. room[p].live \ {c} \in SUBSET Sockets /\ room[p].writers \ {c} \in SUBSET Writers
      BY <2>1 DEF Rooms
    <2> QED  BY <2>1, <2>2, LessTyped
  <1>2. room' = [room EXCEPT ![p] = r]
    BY DEF Leave
  <1>3. /\ RestTypes' /\ socket' \in [Sockets -> Lives]
        /\ seeds' = seeds /\ issued' = issued /\ op' = op
    BY <1>0 DEF Leave, TypeOK, RestTypes, Lives
  <1> HIDE DEF r
  <1>4. room' \in [Pods -> Rooms]
    BY <1>0, <1>1, <1>2 DEF TypeOK
  <1> QED  BY <1>3, <1>4, AsideTyped

LEMMA DemoteTyped ==
  ASSUME TypeInv, NEW w \in Writers, Demote(w)
  PROVE  TypeInv'
  <1> DEFINE p == home[w]
  <1>0. TypeOK /\ p \in Pods
    BY DEF TypeInv, TypeOK, Sockets
  <1>1. [room[p] EXCEPT !.writers = room[p].writers \ {w}] \in Rooms
    BY <1>0, OpOf DEF Rooms
  <1>2. room' \in [Pods -> Rooms]
    BY <1>0, <1>1 DEF Demote, TypeOK
  <1>3. /\ RestTypes' /\ socket' \in [Sockets -> Lives]
        /\ seeds' = seeds /\ issued' = issued /\ op' = op
    BY <1>0 DEF Demote, TypeOK, RestTypes, Lives
  <1> QED  BY <1>2, <1>3, AsideTyped

LEMMA StartRetireTyped ==
  ASSUME TypeInv, NEW p \in Pods, StartRetire(p)
  PROVE  TypeInv'
  <1>0. TypeOK
    BY DEF TypeInv
  <1>1. /\ RestTypes' /\ room' \in [Pods -> Rooms] /\ socket' \in [Sockets -> Lives]
        /\ seeds' = seeds /\ issued' = issued
    BY <1>0 DEF StartRetire, TypeOK, RestTypes, Lives
  <1>2. CASE op' = op
    BY <1>1, <1>2, AsideTyped
  <1>3. CASE op' = [op EXCEPT ![p] = Start("retire", "flush")]
    <2>1. OpTypes' /\ op'[p].step = "flush" /\ \A q \in Pods \ {p} : op'[q] = op[q]
      BY <1>0, <1>3, StartAt DEF Kinds, Steps
    <2> QED  BY <1>1, <2>1, StepTyped
  <1> QED  BY <1>2, <1>3 DEF StartRetire

\* A room that is emptied or closed.
LEMMA ShutTyped ==
  ASSUME TypeOK, NEW p \in Pods,
         \/ UNCHANGED room
         \/ room' = [room EXCEPT ![p] = Closed]
         \/ room' = [room EXCEPT ![p] = [room[p] EXCEPT !.live = {}, !.writers = {}]]
  PROVE  room' \in [Pods -> Rooms]
  <1>1. room \in [Pods -> Rooms] /\ Closed \in Rooms
    BY ClosedTyped DEF TypeOK
  <1>2. [room[p] EXCEPT !.live = {}, !.writers = {}] \in Rooms
    BY <1>1, LessTyped
  <1> QED  BY <1>1, <1>2

LEMMA StartDropTyped ==
  ASSUME TypeInv, NEW p \in Pods, StartDrop(p)
  PROVE  TypeInv'
  <1>0. TypeOK
    BY DEF TypeInv
  <1>1. /\ RestTypes' /\ socket' \in [Sockets -> Lives]
        /\ seeds' = seeds /\ issued' = issued
    BY <1>0 DEF StartDrop, TypeOK, RestTypes, Lives
  <1>2. room' \in [Pods -> Rooms]
    BY <1>0, ShutTyped DEF StartDrop
  <1>3. CASE op' = op
    BY <1>1, <1>2, <1>3, AsideTyped
  <1>4. CASE op' = [op EXCEPT ![p] = Start("drop", "flush")]
    <2>1. OpTypes' /\ op'[p].step = "flush" /\ \A q \in Pods \ {p} : op'[q] = op[q]
      BY <1>0, <1>4, StartAt DEF Kinds, Steps
    <2> QED  BY <1>1, <1>2, <2>1, StepTyped
  <1> QED  BY <1>3, <1>4 DEF StartDrop

LEMMA StartCloseTyped ==
  ASSUME TypeInv, NEW p \in Pods, StartClose(p)
  PROVE  TypeInv'
  <1>0. TypeOK
    BY DEF TypeInv
  <1>1. RestTypes' /\ seeds' = seeds /\ issued' = issued
    BY <1>0 DEF StartClose, TypeOK, RestTypes
  <1>2. socket' \in [Sockets -> Lives]
    BY <1>0, GoneTyped DEF StartClose, Lives
  <1>3. room' \in [Pods -> Rooms]
    BY <1>0, ShutTyped DEF StartClose
  <1>4. CASE op' = op
    BY <1>1, <1>2, <1>3, <1>4, AsideTyped
  <1>5. CASE op' = [op EXCEPT ![p] = Start("close", "flush")]
    <2>1. OpTypes' /\ op'[p].step = "flush" /\ \A q \in Pods \ {p} : op'[q] = op[q]
      BY <1>0, <1>5, StartAt DEF Kinds, Steps
    <2> QED  BY <1>1, <1>2, <1>3, <2>1, StepTyped
  <1> QED  BY <1>4, <1>5 DEF StartClose

LEMMA FlushTyped ==
  ASSUME TypeInv, NEW p \in Pods, Flush(p)
  PROVE  TypeInv'
  <1>0. TypeOK
    BY DEF TypeInv
  <1>1. /\ room' \in [Pods -> Rooms]
        /\ store' \in [doc : Docs, body : SUBSET (Writers \cup Authors), late : SUBSET (Writers \cup Authors)]
    BY <1>0, PersistedTyped DEF Flush, TypeOK
  <1>2. RestTypes' /\ socket' \in [Sockets -> Lives] /\ seeds' = seeds /\ issued' = issued
    BY <1>0, <1>1 DEF Flush, TypeOK, RestTypes, Lives
  <1>3. Goto(p, "release")
    BY DEF Flush
  <1>4. OpTypes' /\ op'[p].step = "release" /\ \A q \in Pods \ {p} : op'[q] = op[q]
    BY <1>0, <1>3, GotoAt DEF Onward, Steps
  <1> QED  BY <1>1, <1>2, <1>4, StepTyped

\* A retirement ends.
LEMMA EndsTyped ==
  ASSUME TypeOK, NEW p \in Pods, NEW a \in 0..MaxAdmissions, room' = [room EXCEPT ![p] = Ended(p, a)]
  PROVE  room' \in [Pods -> Rooms]
  BY EndedTyped DEF TypeOK

LEMMA FlushFailsTyped ==
  ASSUME TypeInv, NEW p \in Pods, FlushFails(p)
  PROVE  TypeInv'
  <1>0. TypeOK /\ room[p].adm \in 0..MaxAdmissions
    BY OpOf DEF TypeInv, Rooms
  <1>1. faults' \in 0..MaxFaults
    BY <1>0, BoundsAssumption DEF FlushFails, Fault, TypeOK
  <1>2. RestTypes' /\ socket' \in [Sockets -> Lives] /\ seeds' = seeds /\ issued' = issued
    BY <1>0, <1>1 DEF FlushFails, TypeOK, RestTypes, Lives
  <1>3. room' \in [Pods -> Rooms]
    BY <1>0, EndsTyped DEF FlushFails
  <1>4. Done(p)
    BY DEF FlushFails
  <1> QED  BY <1>2, <1>3, <1>4, DoneTyped

LEMMA ReleaseTyped ==
  ASSUME TypeInv, NEW p \in Pods, Release(p)
  PROVE  TypeInv'
  <1>0. TypeOK /\ 0 \in 0..MaxAdmissions
    BY BoundsAssumption DEF TypeInv
  <1>1. RestTypes' /\ socket' \in [Sockets -> Lives] /\ seeds' = seeds /\ issued' = issued
    BY <1>0 DEF Release, TypeOK, RestTypes, Lives
  <1>2. room' \in [Pods -> Rooms]
    BY <1>0, EndsTyped DEF Release
  <1>3. Done(p)
    BY DEF Release
  <1> QED  BY <1>1, <1>2, <1>3, DoneTyped

LEMMA ReleaseFailsTyped ==
  ASSUME TypeInv, NEW p \in Pods, ReleaseFails(p)
  PROVE  TypeInv'
  <1>0. TypeOK /\ room[p].adm \in 0..MaxAdmissions
    BY OpOf DEF TypeInv, Rooms
  <1>1. faults' \in 0..MaxFaults
    BY <1>0, BoundsAssumption DEF ReleaseFails, Fault, TypeOK
  <1>2. held' \subseteq held
    BY DEF ReleaseFails
  <1>3. RestTypes' /\ socket' \in [Sockets -> Lives] /\ seeds' = seeds /\ issued' = issued
    BY <1>0, <1>1, <1>2 DEF ReleaseFails, TypeOK, RestTypes, Lives
  <1>4. room' \in [Pods -> Rooms]
    BY <1>0, EndsTyped DEF ReleaseFails
  <1>5. Done(p)
    BY DEF ReleaseFails
  <1> QED  BY <1>3, <1>4, <1>5, DoneTyped

LEMMA CrashTyped ==
  ASSUME TypeInv, NEW p \in Pods, Crash(p)
  PROVE  TypeInv'
  <1>0. TypeOK
    BY DEF TypeInv
  <1>1. faults' \in 0..MaxFaults
    BY <1>0, BoundsAssumption DEF Crash, Fault, TypeOK
  <1>2. frame' \in [Writers -> 0..MaxAdmissions]
    BY <1>0, BoundsAssumption DEF Crash, TypeOK
  <1>3. RestTypes' /\ seeds' = seeds /\ issued' = issued
    BY <1>0, <1>1, <1>2 DEF Crash, TypeOK, RestTypes
  <1>4. socket' \in [Sockets -> Lives]
    BY <1>0, GoneTyped DEF Crash, Lives
  <1>5. room' \in [Pods -> Rooms]
    BY <1>0, ShutTyped DEF Crash
  <1>6. Done(p)
    BY DEF Crash
  <1> QED  BY <1>3, <1>4, <1>5, <1>6, DoneTyped

LEMMA AuthorTyped ==
  ASSUME TypeInv, NEW u \in Authors, Author(u)
  PROVE  TypeInv'
  <1>0. TypeOK
    BY DEF TypeInv
  <1>1. store' \in [doc : Docs, body : SUBSET (Writers \cup Authors), late : SUBSET (Writers \cup Authors)]
    BY <1>0 DEF Author, TypeOK
  <1>2. writes' \in 0..MaxWrites
    BY <1>0, BoundsAssumption DEF Author, TypeOK
  <1>3. /\ RestTypes' /\ room' \in [Pods -> Rooms] /\ socket' \in [Sockets -> Lives]
        /\ seeds' = seeds /\ issued' = issued /\ op' = op
    BY <1>0, <1>1, <1>2 DEF Author, TypeOK, RestTypes, Lives
  <1> QED  BY <1>3, AsideTyped

LEMMA DeleteTyped ==
  ASSUME TypeInv, Delete
  PROVE  TypeInv'
  <1>0. TypeOK
    BY DEF TypeInv
  <1>1. store' \in [doc : Docs, body : SUBSET (Writers \cup Authors), late : SUBSET (Writers \cup Authors)]
    BY <1>0, ClosedTyped DEF Delete, TypeOK, Docs
  <1>2. /\ RestTypes' /\ room' \in [Pods -> Rooms] /\ socket' \in [Sockets -> Lives]
        /\ seeds' = seeds /\ issued' = issued /\ op' = op
    BY <1>0, <1>1 DEF Delete, TypeOK, RestTypes, Lives
  <1> QED  BY <1>2, AsideTyped

LEMMA SaveEndsTyped ==
  ASSUME TypeInv, NEW s \in pending, SaveBody(s) \/ SaveFails(s)
  PROVE  TypeInv'
  <1>0. TypeOK /\ s \in Saves
    BY DEF TypeInv, TypeOK
  <1>1. store' \in [doc : Docs, body : SUBSET (Writers \cup Authors), late : SUBSET (Writers \cup Authors)]
    <2>1. s.body \in SUBSET (Writers \cup Authors) /\ Text(store.doc) \in SUBSET (Writers \cup Authors)
      BY <1>0 DEF Saves, TypeOK, Text, Docs
    <2>2. Text(store.doc) \ s.must \in SUBSET (Writers \cup Authors)
      BY <2>1
    <2>3. \/ store' = store
          \/ store' = [store EXCEPT !.body = s.body, !.late = Text(store.doc) \ s.must]
      BY DEF SaveBody, SaveFails
    <2> QED  BY <1>0, <2>1, <2>2, <2>3 DEF TypeOK
  <1>2. /\ RestTypes' /\ room' \in [Pods -> Rooms] /\ socket' \in [Sockets -> Lives]
        /\ seeds' = seeds /\ issued' = issued /\ op' = op
    BY <1>0, <1>1 DEF SaveBody, SaveFails, TypeOK, RestTypes, Lives
  <1> QED  BY <1>2, AsideTyped

LEMMA InitTyped ==
  ASSUME Init
  PROVE  TypeInv
  <1>1. TypeOK
    <2>1. room \in [Pods -> Rooms]
      BY ClosedTyped DEF Init
    <2>2. op \in [Pods -> Operations] /\ \A p \in Pods : op[p].waiting \subseteq op[p].owners
      BY IdleTyped DEF Init, Typed
    <2>3. 0 \in 0..MaxAdmissions /\ 0 \in 0..MaxWrites /\ 0 \in 0..MaxFaults /\ {} \in Docs /\ 0 \in Nat
      BY BoundsAssumption DEF Docs
    <2> QED  BY <2>1, <2>2, <2>3 DEF Init, TypeOK
  <1>2. TriesLeft
    BY IdleTyped DEF Init, TriesLeft
  <1>3. SeedBudget
    <2>1. Initing = {}
      BY IdleTyped DEF Init, Initing
    <2> QED  BY <2>1, FS_EmptySet DEF Init, SeedBudget
  <1> QED  BY <1>1, <1>2, <1>3 DEF TypeInv

LEMMA NextTyped ==
  ASSUME TypeInv, [Next]_vars
  PROVE  TypeInv'
  <1>1. CASE \E c \in Sockets : StartJoin(c) \/ Leave(c)
    BY <1>1, StartJoinTyped, LeaveTyped
  <1>2. CASE \E w \in Writers : Receive(w) \/ Apply(w) \/ Drop(w) \/ Demote(w)
    BY <1>2, ReceiveTyped, ApplyTyped, DropTyped, DemoteTyped
  <1>3. CASE \E m \in bus : Merge(m)
    BY <1>3, MergeTyped
  <1>4. CASE (\E u \in Authors : Author(u)) \/ Delete
    BY <1>4, AuthorTyped, DeleteTyped
  <1>5. CASE \E p, q \in Pods : ReplyDump(p, q)
    BY <1>5, ReplyDumpTyped
  <1>6. CASE \E p \in Pods : Check(p) \/ Admit(p) \/ InitDoc(p) \/ InitFails(p) \/ Attach(p)
    BY <1>6, CheckTyped, AdmitTyped, InitDocTyped, InitFailsTyped, AttachTyped
  <1>7. CASE \E p \in Pods : Owners(p) \/ TakeDump(p) \/ Settle(p) \/ RoundFails(p) \/ StartCommit(p)
    BY <1>7, OwnersTyped, TakeDumpTyped, SettleTyped, RoundFailsTyped, StartCommitTyped
  <1>8. CASE \E p \in Pods : Persist(p) \/ StartRetire(p) \/ StartDrop(p) \/ StartClose(p)
    BY <1>8, PersistTyped, StartRetireTyped, StartDropTyped, StartCloseTyped
  <1>9. CASE \E p \in Pods : Flush(p) \/ FlushFails(p) \/ Release(p) \/ ReleaseFails(p) \/ Crash(p)
    BY <1>9, FlushTyped, FlushFailsTyped, ReleaseTyped, ReleaseFailsTyped, CrashTyped
  <1>10. CASE \E s \in pending : SaveBody(s) \/ SaveFails(s)
    BY <1>10, SaveEndsTyped
  <1>11. CASE UNCHANGED vars
    <2>1. /\ RestTypes' /\ room' \in [Pods -> Rooms] /\ socket' \in [Sockets -> Lives]
          /\ seeds' = seeds /\ issued' = issued /\ op' = op
      BY <1>11 DEF vars, TypeInv, TypeOK, RestTypes, Lives
    <2> QED  BY <2>1, AsideTyped
  <1> QED  BY <1>1, <1>2, <1>3, <1>4, <1>5, <1>6, <1>7, <1>8, <1>9, <1>10, <1>11 DEF Next

LEMMA TypeInvHolds == Spec => []TypeInv
  BY InitTyped, NextTyped, PTL DEF Spec

\* Every variable keeps its type, whichever of the four orders that the code
\* leaves open may happen. That the conversions never run out of seeds, and
\* the rounds of attempts, is part of it: each conversion uses up one of the
\* admissions issued for it (SeedBudget).
THEOREM RoomTypes == Spec => []TypeOK
  BY TypeInvHolds, PTL DEF TypeInv

-----------------------------------------------------------------------------
(* What the operators on rooms return *)

LEMMA ClosedIs ==
  /\ ~Closed.open /\ Closed.doc = {} /\ Closed.adm = 0 /\ ~Closed.persistable
  /\ ~Closed.armed /\ Closed.live = {} /\ Closed.writers = {}
  BY DEF Closed

LEMMA LoadedIs ==
  /\ Loaded.open /\ Loaded.adm = 0 /\ ~Loaded.persistable /\ ~Loaded.armed
  /\ Loaded.live = {} /\ Loaded.writers = {}
  /\ Loaded.doc = IF store.doc # {} THEN store.doc ELSE {0} \cup store.body
  BY DEF Loaded, Closed

LEMMA OpenedIs ==
  ASSUME TypeOK, NEW p \in Pods
  PROVE  /\ Opened(p).open
         /\ \/ Opened(p) = room[p] /\ room[p].open /\ (room[p].live # {} \/ room[p].adm # 0)
            \/ Opened(p) = Loaded /\ ~(room[p].open /\ (room[p].live # {} \/ room[p].adm # 0))
  BY LoadedIs DEF Opened

LEMMA AdoptedIs ==
  ASSUME NEW r \in Rooms, NEW d
  PROVE  /\ Adopted(r, d).open = r.open /\ Adopted(r, d).adm = r.adm
         /\ Adopted(r, d).persistable = r.persistable /\ Adopted(r, d).armed = r.armed
         /\ 0 \in r.doc => /\ Adopted(r, d).doc = d
                           /\ Adopted(r, d).live = {} /\ Adopted(r, d).writers = {}
         /\ 0 \notin r.doc => /\ Adopted(r, d).doc = r.doc \cup d
                              /\ Adopted(r, d).live = r.live /\ Adopted(r, d).writers = r.writers
  BY DEF Adopted, Rooms

LEMMA EditedIs ==
  ASSUME NEW r \in Rooms, NEW w
  PROVE  /\ Edited(r, w).open = r.open /\ Edited(r, w).adm = r.adm
         /\ Edited(r, w).persistable = r.persistable /\ Edited(r, w).doc = r.doc \cup {w}
         /\ Edited(r, w).live = r.live /\ Edited(r, w).writers = r.writers
  BY DEF Edited, Armed, Rooms

\* Arming the debounced write changes nothing else of a room that has adopted
\* a document.
LEMMA ArmedLike ==
  ASSUME NEW r \in Rooms, NEW d, NEW e
  PROVE  LET a == Adopted(r, d) IN
         /\ Armed(a, e).open = a.open /\ Armed(a, e).adm = a.adm
         /\ Armed(a, e).persistable = a.persistable /\ Armed(a, e).doc = a.doc
         /\ Armed(a, e).live = a.live /\ Armed(a, e).writers = a.writers
  BY DEF Armed, Adopted, Rooms

LEMMA OwningIs ==
  ASSUME NEW r \in Rooms, NEW a
  PROVE  /\ Owning(r, a).open = r.open /\ Owning(r, a).adm = a /\ Owning(r, a).persistable
         /\ Owning(r, a).doc = r.doc /\ Owning(r, a).live = r.live /\ Owning(r, a).writers = r.writers
  BY DEF Owning, Rooms

LEMMA EndedIs ==
  ASSUME TypeOK, NEW p \in Pods, NEW a
  PROVE  \/ /\ Ended(p, a) = Closed
            /\ op[p].kind = "close" \/ (op[p].kind = "drop" /\ room[p].live = {} /\ a = 0)
         \/ /\ Ended(p, a).open = room[p].open /\ Ended(p, a).adm = a
            /\ Ended(p, a).persistable <=> room[p].persistable /\ a # 0
            /\ Ended(p, a).doc = room[p].doc
            /\ Ended(p, a).live = room[p].live /\ Ended(p, a).writers = room[p].writers
  <1> DEFINE c == op[p].kind = "close" \/ (op[p].kind = "drop" /\ room[p].live = {} /\ a = 0)
             r == [room[p] EXCEPT !.adm = a, !.persistable = room[p].persistable /\ a # 0,
                                  !.armed = room[p].armed /\ a # 0]
  <1>1. /\ r.open = room[p].open /\ r.adm = a /\ (r.persistable <=> room[p].persistable /\ a # 0)
        /\ r.doc = room[p].doc /\ r.live = room[p].live /\ r.writers = room[p].writers
    BY OpOf DEF Rooms
  <1>2. Ended(p, a) = IF c THEN Closed ELSE r
    BY DEF Ended
  <1> HIDE DEF r
  <1>3. CASE c
    <2>1. Ended(p, a) = Closed
      BY <1>2, <1>3
    <2> QED  BY <1>3, <2>1
  <1>4. CASE ~c
    <2>1. Ended(p, a) = r
      BY <1>2, <1>4
    <2> QED  BY <1>1, <2>1
  <1> QED  BY <1>3, <1>4

LEMMA KeptIs ==
  ASSUME NEW p \in Pods, NEW r
  PROVE  \/ Kept(p, r) = r
         \/ Kept(p, r) = Closed /\ op[p].kind = "commit" /\ r.live = {} /\ r.adm = 0
  BY DEF Kept

\* Names in a document are no seeds.
LEMMA NoSeed == 0 \in Seeds /\ \A x \in Writers \cup Authors : x \notin Seeds
  BY BoundsAssumption, NamesAssumption DEF Seeds

-----------------------------------------------------------------------------
(* Admissions: what a room and its operation may look like when none of the *)
(* four orders happens                                                      *)

\* A room that holds an admission may store its document, and the document
\* has the stored identity.
RoomShape(r, h) ==
  /\ ~r.open => r = Closed
  /\ r.writers \subseteq r.live
  /\ r.adm # 0 => r.adm \in h /\ r.persistable /\ 0 \notin r.doc

\* A writer joins a room without an admission only until it has one.
JoinShape(o, r) ==
  /\ o.step \in {"check", "admit", "init", "owners", "wait", "attach"}
  /\ o.step \in {"check", "admit", "init"} => o.conns \subseteq Writers
  /\ o.conns \subseteq Writers => (r.adm = 0 <=> o.step \in {"admit", "init"})

OpShape(o, r, h) ==
  /\ o.kind = "idle" => o = Idle
  /\ o.kind # "idle" => r.open
  /\ o.kind = "join" => JoinShape(o, r)
  /\ o.kind = "commit" => o.step \in {"owners", "wait"}
  /\ o.kind \in {"retire", "drop", "close"} =>
       o.step \in {"flush", "release"} /\ r.adm # 0 /\ r.writers = {}
  /\ o.step = "init" => o.acquired \in h /\ o.acquired # 0
  /\ o.step = "wait" => 0 \notin r.doc
  /\ \A u \in o.dumps : 0 \notin u.doc

Shape(p) == RoomShape(room[p], held) /\ OpShape(op[p], room[p], held)

\* The admission that a pod has or is about to have: no two have the same.
Takes(p) == IF op[p].step = "init" THEN op[p].acquired ELSE room[p].adm

Exclusive == \A p, q \in Pods : p # q /\ Takes(p) # 0 => Takes(p) # Takes(q)

AdmInv ==
  /\ held \subseteq 1..issued
  /\ 0 \notin store.doc
  /\ \A p \in Pods : Shape(p)
  /\ Exclusive

LEMMA IdleShape ==
  ASSUME NEW r, NEW h
  PROVE  OpShape(Idle, r, h)
  BY DEF OpShape, Idle

LEMMA ClosedShape ==
  ASSUME NEW h
  PROVE  RoomShape(Closed, h)
  BY ClosedIs DEF RoomShape

LEMMA ShapeAt ==
  ASSUME TypeOK, AdmInv, NEW p \in Pods
  PROVE  /\ RoomShape(room[p], held) /\ OpShape(op[p], room[p], held)
         /\ room[p] \in Rooms /\ Typed(op[p])
         /\ held \subseteq 1..issued /\ 0 \notin held /\ 0 \notin store.doc
         /\ op[p].kind \in Kinds
  BY OpOf DEF AdmInv, Shape, TypeOK, Typed, Operations, Kinds

\* What the step says of the kind.
LEMMA KindOf ==
  ASSUME NEW o, NEW r, NEW h, OpShape(o, r, h), o.kind \in Kinds
  PROVE  /\ o.step \in {"check", "admit", "init", "attach"} => o.kind = "join" /\ r.open
         /\ o.step \in {"owners", "wait"} => o.kind \in {"join", "commit"} /\ r.open
         /\ o.step \in {"flush", "release"} =>
              o.kind \in {"retire", "drop", "close"} /\ r.open /\ r.adm # 0 /\ r.writers = {}
         /\ o.step \in {"check", "admit", "init"} => o.conns \subseteq Writers
         /\ o.step \in {"admit", "init"} => r.adm = 0
         /\ o.step = "init" => o.acquired \in h /\ o.acquired # 0
  <1>1. o.kind = "idle" => o.step = "none"
    BY IdleTyped DEF OpShape
  <1> QED  BY <1>1 DEF OpShape, JoinShape, Kinds

LEMMA TakesIs ==
  ASSUME TypeOK, AdmInv, NEW p \in Pods
  PROVE  /\ Takes(p) # 0 => Takes(p) \in held
         /\ room[p].adm # 0 => Takes(p) = room[p].adm
         /\ op[p].step = "init" => Takes(p) = op[p].acquired
  <1>1. op[p].step = "init" => room[p].adm = 0 /\ op[p].acquired \in held
    BY ShapeAt, KindOf
  <1> QED  BY <1>1, ShapeAt DEF Takes, RoomShape

\* One pod acts, and the admissions of the others stay.
LEMMA ActsAdm ==
  ASSUME TypeOK, AdmInv, NEW p \in Pods,
         \A q \in Pods \ {p} : room'[q] = room[q] /\ op'[q] = op[q],
         held \ {Takes(p)} \subseteq held', held' \subseteq 1..issued', 0 \notin store'.doc,
         RoomShape(room'[p], held'), OpShape(op'[p], room'[p], held'),
         Takes(p)' \in {0, Takes(p), issued + 1}
  PROVE  AdmInv'
  <1>1. \A q \in Pods \ {p} : Takes(q)' = Takes(q)
    BY DEF Takes
  <1>2. \A q \in Pods \ {p} : Takes(q) # 0 => Takes(q) \in held' /\ Takes(q) # Takes(p) /\ Takes(q) # issued + 1
    <2> SUFFICES ASSUME NEW q \in Pods \ {p}, Takes(q) # 0
                 PROVE  Takes(q) \in held' /\ Takes(q) # Takes(p) /\ Takes(q) # issued + 1
      OBVIOUS
    <2>1. Takes(q) \in held
      BY TakesIs
    <2>2. Takes(q) # Takes(p)
      BY DEF AdmInv, Exclusive
    <2>3. held \subseteq 1..issued /\ issued \in Nat
      BY DEF AdmInv, TypeOK
    <2> QED  BY <2>1, <2>2, <2>3
  <1>3. \A q \in Pods \ {p} : Shape(q)'
    <2> SUFFICES ASSUME NEW q \in Pods \ {p}
                 PROVE  RoomShape(room[q], held') /\ OpShape(op[q], room[q], held')
      BY DEF Shape
    <2>1. RoomShape(room[q], held) /\ OpShape(op[q], room[q], held)
      BY ShapeAt
    <2>2. room[q].adm # 0 => room[q].adm \in held'
      BY <1>2, TakesIs
    <2>3. op[q].step = "init" => op[q].acquired \in held'
      BY <1>2, <2>1, TakesIs DEF OpShape
    <2>4. RoomShape(room[q], held')
      BY <2>1, <2>2 DEF RoomShape
    <2>5. OpShape(op[q], room[q], held')
      BY <2>1, <2>3 DEF OpShape
    <2> QED  BY <2>4, <2>5
  <1>4. Exclusive'
    <2> SUFFICES ASSUME NEW k \in Pods, NEW q \in Pods, k # q, Takes(k)' # 0
                 PROVE  Takes(k)' # Takes(q)'
      BY DEF Exclusive
    <2>1. CASE k # p /\ q # p
      BY <1>1, <2>1 DEF AdmInv, Exclusive
    <2>2. CASE k = p
      BY <1>1, <1>2, <2>2
    <2>3. CASE q = p
      BY <1>1, <1>2, <2>3
    <2> QED  BY <2>1, <2>2, <2>3
  <1>5. Shape(p)'
    BY DEF Shape
  <1> QED  BY <1>3, <1>4, <1>5 DEF AdmInv

\* ... and it takes none and gives none back.
LEMMA StepsAdm ==
  ASSUME TypeOK, AdmInv, NEW p \in Pods,
         \A q \in Pods \ {p} : room'[q] = room[q] /\ op'[q] = op[q],
         held' = held, issued' = issued, 0 \notin store'.doc,
         RoomShape(room'[p], held), OpShape(op'[p], room'[p], held),
         op'[p].step # "init", room'[p].adm \in {0, room[p].adm, Takes(p)}
  PROVE  AdmInv'
  <1>1. held \ {Takes(p)} \subseteq held' /\ held' \subseteq 1..issued'
    BY ShapeAt
  <1>2. Takes(p)' \in {0, Takes(p), issued + 1}
    BY TakesIs DEF Takes
  <1> QED  BY <1>1, <1>2, ActsAdm

\* ... its operation ends.
LEMMA EndsAdm ==
  ASSUME TypeOK, AdmInv, NEW p \in Pods,
         \A q \in Pods \ {p} : room'[q] = room[q] /\ op'[q] = op[q],
         op'[p] = Idle, held' = held, issued' = issued, 0 \notin store'.doc,
         RoomShape(room'[p], held), room'[p].adm \in {0, room[p].adm}
  PROVE  AdmInv'
  <1>1. OpShape(op'[p], room'[p], held) /\ op'[p].step # "init"
    BY IdleShape, IdleTyped
  <1> QED  BY <1>1, StepsAdm

\* A room that changes behind its operation's back: connections leave, its
\* document grows or becomes the stored one.
Milder(r, s) ==
  /\ s.open = r.open /\ s.adm = r.adm /\ s.persistable = r.persistable
  /\ s.writers \subseteq s.live /\ s.writers \subseteq r.writers
  /\ 0 \notin r.doc => 0 \notin s.doc

LEMMA MilderShape ==
  ASSUME NEW r, NEW s, NEW o, NEW h, Milder(r, s), r.open, RoomShape(r, h), OpShape(o, r, h)
  PROVE  RoomShape(s, h) /\ OpShape(o, s, h)
  BY DEF Milder, RoomShape, OpShape, JoinShape

LEMMA MildAdm ==
  ASSUME TypeOK, AdmInv, NEW p \in Pods, NEW r,
         room' = [room EXCEPT ![p] = r], Milder(room[p], r), room[p].open,
         op' = op, held' = held, issued' = issued, 0 \notin store'.doc
  PROVE  AdmInv'
  <1>1. room'[p] = r /\ \A q \in Pods \ {p} : room'[q] = room[q] /\ op'[q] = op[q]
    BY DEF TypeOK
  <1>2. RoomShape(r, held) /\ OpShape(op[p], r, held)
    BY ShapeAt, MilderShape
  <1>3. Takes(p)' = Takes(p)
    BY <1>1 DEF Takes, Milder
  <1> QED  BY <1>1, <1>2, <1>3, ShapeAt, ActsAdm

\* A room that adopts a stored document.
LEMMA AdoptsMild ==
  ASSUME NEW r \in Rooms, NEW d, 0 \notin d, r.writers \subseteq r.live
  PROVE  Milder(r, Adopted(r, d)) /\ 0 \notin Adopted(r, d).doc
  BY AdoptedIs DEF Milder

\* The same, with the debounced write armed.
LEMMA TakesMild ==
  ASSUME NEW r \in Rooms, NEW d, 0 \notin d, r.writers \subseteq r.live
  PROVE  /\ Milder(r, Armed(Adopted(r, d), r.doc))
         /\ 0 \notin Armed(Adopted(r, d), r.doc).doc
  <1> DEFINE a == Adopted(r, d)
  <1>1. Milder(r, a) /\ 0 \notin a.doc
    BY AdoptsMild
  <1>2. /\ Armed(a, r.doc).open = a.open /\ Armed(a, r.doc).adm = a.adm
        /\ Armed(a, r.doc).persistable = a.persistable /\ Armed(a, r.doc).doc = a.doc
        /\ Armed(a, r.doc).live = a.live /\ Armed(a, r.doc).writers = a.writers
    BY ArmedLike
  <1> QED  BY <1>1, <1>2 DEF Milder

LEMMA StartJoinAdm ==
  ASSUME TypeOK, AdmInv, NEW c \in Sockets, StartJoin(c)
  PROVE  AdmInv'
  <1> DEFINE p == home[c]
             r == Opened(p)
             s == First(c, r)
             cs == {c}
  <1>1. /\ p \in Pods /\ s \in Steps /\ s # "init" /\ cs \in SUBSET Sockets
        /\ op' = [op EXCEPT ![p] = [Start("join", s) EXCEPT !.conns = cs]]
        /\ room' = [room EXCEPT ![p] = r]
        /\ held' = held /\ issued' = issued /\ store' = store
    BY DEF TypeOK, StartJoin, First, Steps
  <1>2. /\ r.open /\ RoomShape(r, held) /\ r.adm \in {0, room[p].adm}
    BY <1>1, OpenedIs, LoadedIs, ShapeAt DEF RoomShape
  <1>3. \/ c \in Writers /\ s = "check" /\ r.adm # 0
        \/ c \in Writers /\ s = "admit" /\ r.adm = 0
        \/ c \notin Writers /\ s \in {"owners", "attach"}
    BY DEF First
  <1>a. p \in Pods /\ s \in Steps /\ cs \in SUBSET Sockets
    BY <1>1
  <1>b. op' = [op EXCEPT ![p] = [Start("join", s) EXCEPT !.conns = cs]]
    BY <1>1
  <1> HIDE DEF p, r, s, cs
  <1>4. /\ OpTypes'
        /\ op'[p].kind = "join" /\ op'[p].step = s /\ op'[p].conns = cs
        /\ op'[p].dumps = {} /\ op'[p].tries = 0 /\ op'[p].must = {}
        /\ \A q \in Pods \ {p} : op'[q] = op[q]
    BY <1>a, <1>b, JoinAt, Zenon
  <1>5. room'[p] = r /\ \A q \in Pods \ {p} : room'[q] = room[q]
    BY <1>1 DEF TypeOK
  <1>6. cs \subseteq Writers <=> c \in Writers
    BY DEF cs
  <1>7. OpShape(op'[p], r, held)
    BY <1>2, <1>3, <1>4, <1>6 DEF OpShape, JoinShape
  <1>8. 0 \notin store'.doc
    BY <1>1, ShapeAt
  <1> QED  BY <1>1, <1>2, <1>4, <1>5, <1>7, <1>8, StepsAdm

\* An operation that goes on in its room.
LEMMA GoesAdm ==
  ASSUME TypeOK, AdmInv, NEW p \in Pods, NEW s \in {"owners", "attach"}, Goto(p, s),
         room' = room, held' = held, issued' = issued, store' = store,
         op[p].step \in {"check", "owners", "wait"}, s = "attach" => op[p].kind = "join"
  PROVE  AdmInv'
  <1>1. Onward(op[p], op'[p], s) /\ \A q \in Pods \ {p} : op'[q] = op[q]
    BY GotoAt DEF Steps
  <1>2. OpShape(op[p], room[p], held) /\ RoomShape(room[p], held) /\ op[p].kind \in Kinds /\ 0 \notin store.doc
    BY ShapeAt
  <1>3. op[p].kind \in {"join", "commit"} /\ (op[p].kind = "commit" => op[p].step \in {"owners", "wait"})
    BY <1>2, KindOf DEF OpShape
  <1>4. OpShape(op'[p], room[p], held)
    BY <1>1, <1>2, <1>3 DEF Onward, OpShape, JoinShape
  <1>5. op'[p].step # "init"
    BY <1>1 DEF Onward
  <1> QED  BY <1>1, <1>2, <1>4, <1>5, StepsAdm

LEMMA CheckAdm ==
  ASSUME TypeOK, AdmInv, NEW p \in Pods, Check(p)
  PROVE  AdmInv'
  <1>1. /\ room' = room /\ held' = held /\ issued' = issued /\ store' = store
        /\ op[p].step = "check" /\ (Goto(p, "owners") \/ Done(p))
    BY DEF Check
  <1>2. CASE Goto(p, "owners")
    BY <1>1, <1>2, GoesAdm
  <1>3. CASE Done(p)
    BY <1>1, <1>3, DoneAt, EndsAdm, ShapeAt
  <1> QED  BY <1>1, <1>2, <1>3

LEMMA AdmitAdm ==
  ASSUME TypeOK, AdmInv, NEW p \in Pods, Admit(p)
  PROVE  AdmInv'
  <1> DEFINE a == issued + 1
  <1>1. /\ RoomShape(room[p], held) /\ OpShape(op[p], room[p], held) /\ room[p] \in Rooms
        /\ held \subseteq 1..issued /\ 0 \notin store.doc /\ op[p].kind \in Kinds
    BY ShapeAt
  <1>2. op[p].step = "admit" /\ op[p].kind = "join" /\ op[p].conns \subseteq Writers /\ room[p].adm = 0 /\ room[p].open
    BY <1>1, KindOf DEF Admit
  <1>3. a \in Admissions /\ a # 0
    BY BoundsAssumption DEF Admit, TypeOK, Admissions
  <1>4. issued' = a /\ held' = held \cup {a} /\ held' \subseteq 1..issued' /\ 0 \notin store'.doc
    BY <1>1 DEF Admit, TypeOK
  <1>5. CASE 0 \in room[p].doc
    <2>1. room' = room /\ op' = [op EXCEPT ![p] = [op[p] EXCEPT !.step = "init", !.acquired = a]]
      BY <1>5 DEF Admit
    <2> HIDE DEF a
    <2>2. /\ op'[p].step = "init" /\ op'[p].acquired = a /\ op'[p].kind = "join"
          /\ op'[p].conns = op[p].conns /\ op'[p].dumps = op[p].dumps
          /\ \A q \in Pods \ {p} : op'[q] = op[q]
      BY <1>2, <1>3, <2>1, AdmitAt
    <2>3. OpShape(op'[p], room[p], held') /\ RoomShape(room[p], held')
      BY <1>1, <1>2, <1>3, <1>4, <2>2 DEF OpShape, JoinShape, RoomShape
    <2>4. Takes(p)' = a
      BY <2>2 DEF Takes
    <2> QED  BY <1>4, <2>1, <2>2, <2>3, <2>4, ActsAdm DEF a
  <1>6. CASE 0 \notin room[p].doc
    <2>1. room' = [room EXCEPT ![p] = Owning(room[p], a)] /\ Goto(p, "owners")
      BY <1>6 DEF Admit
    <2> DEFINE r == Owning(room[p], a)
    <2>2. /\ r.open /\ r.adm = a /\ r.persistable /\ r.doc = room[p].doc
          /\ r.live = room[p].live /\ r.writers = room[p].writers
      BY <1>1, <1>2, OwningIs
    <2> HIDE DEF a, r
    <2>3. room'[p] = r /\ \A q \in Pods \ {p} : room'[q] = room[q]
      BY <2>1 DEF TypeOK, r
    <2>4. Onward(op[p], op'[p], "owners") /\ \A q \in Pods \ {p} : op'[q] = op[q]
      BY <2>1, GotoAt DEF Steps
    <2>5. OpShape(op'[p], r, held') /\ RoomShape(r, held')
      BY <1>1, <1>2, <1>3, <1>4, <1>6, <2>2, <2>4 DEF OpShape, JoinShape, RoomShape, Onward
    <2>6. Takes(p)' = a
      BY <2>2, <2>3, <2>4 DEF Takes, Onward
    <2> QED  BY <1>4, <2>3, <2>4, <2>5, <2>6, ActsAdm DEF a
  <1> QED  BY <1>5, <1>6

\* The stored document never has the identity of a reader's own conversion.
LEMMA StoredReal ==
  ASSUME TypeOK, 0 \notin store.doc
  PROVE  0 \notin Stored
  BY NoSeed DEF Stored, TypeOK

LEMMA InitDocAdm ==
  ASSUME TypeOK, AdmInv, NEW p \in Pods, InitDoc(p)
  PROVE  AdmInv'
  <1> DEFINE s == Adopted(room[p], Stored)
             a == op[p].acquired
             r == Owning(s, a)
  <1>1. /\ RoomShape(room[p], held) /\ OpShape(op[p], room[p], held) /\ room[p] \in Rooms
        /\ held \subseteq 1..issued /\ 0 \notin store.doc /\ op[p].kind \in Kinds
    BY ShapeAt
  <1>2. /\ op[p].step = "init" /\ op[p].kind = "join" /\ op[p].conns \subseteq Writers
        /\ room[p].open /\ a \in held /\ a # 0
    BY <1>1, KindOf DEF InitDoc
  <1>3. 0 \notin Stored
    BY <1>1, StoredReal
  <1>4. Milder(room[p], s) /\ 0 \notin s.doc
    BY <1>1, <1>3, AdoptsMild DEF RoomShape
  <1>5. r.open /\ r.adm = a /\ r.persistable /\ 0 \notin r.doc /\ r.writers \subseteq r.live
    <2>1. /\ r = [s EXCEPT !.adm = a, !.persistable = TRUE]
          /\ s.open /\ 0 \notin s.doc /\ s.writers \subseteq s.live
      BY <1>2, <1>4 DEF Milder, Owning
    <2>2. s = [room[p] EXCEPT !.doc = Stored, !.live = {}, !.writers = {}] \/ s = [room[p] EXCEPT !.doc = room[p].doc \cup Stored]
      BY DEF Adopted
    <2> HIDE DEF s, r
    <2>3. r.open = s.open /\ r.adm = a /\ r.persistable /\ r.doc = s.doc /\ r.writers = s.writers /\ r.live = s.live
      BY <1>1, <2>1, <2>2 DEF Rooms
    <2> QED  BY <2>1, <2>3
  <1>6. /\ room' = [room EXCEPT ![p] = r] /\ Goto(p, "owners")
        /\ held' = held /\ issued' = issued /\ store'.doc = Stored
    BY DEF InitDoc, Convert, TypeOK
  <1> HIDE DEF r
  <1>7. room'[p] = r /\ \A q \in Pods \ {p} : room'[q] = room[q]
    BY <1>6 DEF TypeOK
  <1>8. Onward(op[p], op'[p], "owners") /\ \A q \in Pods \ {p} : op'[q] = op[q]
    BY <1>6, GotoAt DEF Steps
  <1>9. OpShape(op'[p], r, held) /\ RoomShape(r, held)
    BY <1>1, <1>2, <1>5, <1>8 DEF OpShape, JoinShape, RoomShape, Onward
  <1>10. Takes(p) = a
    BY <1>2, TakesIs
  <1>11. op'[p].step # "init"
    BY <1>8 DEF Onward
  <1> QED  BY <1>3, <1>5, <1>6, <1>7, <1>8, <1>9, <1>10, <1>11, StepsAdm

LEMMA InitFailsAdm ==
  ASSUME TypeOK, AdmInv, Hazards = {}, NEW p \in Pods, InitFails(p)
  PROVE  AdmInv'
  <1>1. /\ RoomShape(room[p], held) /\ OpShape(op[p], room[p], held) /\ room[p] \in Rooms
        /\ held \subseteq 1..issued /\ 0 \notin store.doc /\ op[p].kind \in Kinds
    BY ShapeAt
  <1>2. op[p].step = "init" /\ room[p].open /\ room[p].adm = 0 /\ op[p].acquired # 0
    BY <1>1, KindOf DEF InitFails
  <1>3. held' = held \ {op[p].acquired} /\ room' = [room EXCEPT ![p].adm = 0]
    BY <1>2 DEF InitFails
  <1>4. Done(p) /\ issued' = issued
    BY DEF InitFails
  <1>5. 0 \notin store'.doc
    BY <1>1, StoredReal DEF InitFails, Convert, TypeOK
  <1>6. op'[p] = Idle /\ \A q \in Pods \ {p} : op'[q] = op[q]
    BY <1>4, DoneAt
  <1>7. room'[p] = room[p] /\ \A q \in Pods \ {p} : room'[q] = room[q]
    BY <1>1, <1>2, <1>3 DEF TypeOK, Rooms
  <1>8. RoomShape(room'[p], held') /\ OpShape(op'[p], room'[p], held')
    BY <1>1, <1>2, <1>6, <1>7, IdleShape DEF RoomShape
  <1>9. Takes(p) = op[p].acquired /\ Takes(p)' = 0
    BY <1>2, <1>6, <1>7, IdleTyped DEF Takes
  <1>10. held \ {Takes(p)} \subseteq held' /\ held' \subseteq 1..issued'
    BY <1>1, <1>3, <1>4, <1>9
  <1> QED  BY <1>5, <1>6, <1>7, <1>8, <1>9, <1>10, ActsAdm

LEMMA AttachAdm ==
  ASSUME TypeOK, AdmInv, NEW p \in Pods, Attach(p)
  PROVE  AdmInv'
  <1> DEFINE r == [room[p] EXCEPT !.live = room[p].live \cup op[p].conns,
                                  !.writers = room[p].writers \cup (op[p].conns \cap Writers)]
  <1>1. /\ RoomShape(room[p], held) /\ OpShape(op[p], room[p], held) /\ room[p] \in Rooms
        /\ 0 \notin store.doc /\ op[p].kind \in Kinds
    BY ShapeAt
  <1>2. room[p].open
    BY <1>1, KindOf DEF Attach
  <1>3. /\ r.open /\ r.adm = room[p].adm /\ r.persistable = room[p].persistable /\ r.doc = room[p].doc
        /\ r.live = room[p].live \cup op[p].conns
        /\ r.writers = room[p].writers \cup (op[p].conns \cap Writers)
    BY <1>1, <1>2 DEF Rooms
  <1>4. RoomShape(r, held)
    BY <1>1, <1>3 DEF RoomShape
  <1>5. room' = [room EXCEPT ![p] = r] /\ Done(p) /\ held' = held /\ issued' = issued /\ store' = store
    BY DEF Attach
  <1> HIDE DEF r
  <1>6. room'[p] = r /\ \A q \in Pods \ {p} : room'[q] = room[q]
    BY <1>5 DEF TypeOK
  <1>7. op'[p] = Idle /\ \A q \in Pods \ {p} : op'[q] = op[q]
    BY <1>5, DoneAt
  <1> QED  BY <1>1, <1>3, <1>4, <1>5, <1>6, <1>7, EndsAdm

LEMMA OwnersAdm ==
  ASSUME TypeOK, AdmInv, NEW p \in Pods, op[p].tries < MaxTries, Owners(p)
  PROVE  AdmInv'
  <1> DEFINE r == Adopted(room[p], store.doc)
  <1>1. /\ RoomShape(room[p], held) /\ OpShape(op[p], room[p], held) /\ room[p] \in Rooms
        /\ 0 \notin store.doc /\ op[p].kind \in Kinds
    BY ShapeAt
  <1>2. /\ op[p].step = "owners" /\ op[p].kind \in {"join", "commit"} /\ room[p].open
    BY <1>1, KindOf DEF Owners
  <1>3. Milder(room[p], r) /\ 0 \notin r.doc
    BY <1>1, AdoptsMild DEF RoomShape
  <1>4. RoomShape(r, held) /\ OpShape(op[p], r, held)
    BY <1>1, <1>2, <1>3, MilderShape
  <1>5. room' = [room EXCEPT ![p] = r] /\ held' = held /\ issued' = issued /\ store' = store
    BY DEF Owners
  <1>6. /\ op'[p].step = "wait" /\ op'[p].kind = op[p].kind /\ op'[p].conns = op[p].conns
        /\ op'[p].dumps = {} /\ \A q \in Pods \ {p} : op'[q] = op[q]
    BY OwnersAt
  <1> HIDE DEF r
  <1>7. room'[p] = r /\ \A q \in Pods \ {p} : room'[q] = room[q]
    BY <1>5 DEF TypeOK
  <1>8. OpShape(op'[p], r, held)
    BY <1>2, <1>3, <1>4, <1>6 DEF OpShape, JoinShape
  <1>9. room'[p].adm = room[p].adm /\ op'[p].step # "init"
    BY <1>3, <1>6, <1>7 DEF Milder
  <1> QED  BY <1>1, <1>4, <1>5, <1>6, <1>7, <1>8, <1>9, StepsAdm

\* A dump more or an owner less in the operation leaves its shape.
LEMMA DumpsShape ==
  ASSUME NEW o, NEW n, NEW r, NEW h, OpShape(o, r, h), o.step = "wait",
         n.step = o.step, n.kind = o.kind, o.kind # "idle", n.conns = o.conns,
         \A u \in n.dumps : 0 \notin u.doc
  PROVE  OpShape(n, r, h)
  BY DEF OpShape, JoinShape

LEMMA ReplyDumpAdm ==
  ASSUME TypeOK, AdmInv, NEW p \in Pods, NEW q \in Pods, ReplyDump(p, q)
  PROVE  AdmInv'
  <1> DEFINE r == Adopted(room[q], store.doc)
             D == op[p].dumps \cup {[adm |-> room[q].adm, doc |-> r.doc]}
  <1>1. /\ RoomShape(room[p], held) /\ OpShape(op[p], room[p], held) /\ Typed(op[p])
        /\ 0 \notin store.doc /\ op[p].kind \in Kinds
    BY ShapeAt
  <1>2. RoomShape(room[q], held) /\ OpShape(op[q], room[q], held) /\ room[q] \in Rooms
    BY ShapeAt
  <1>3. op[p].step = "wait" /\ op[p].kind # "idle" /\ room[q].open
    BY <1>1, KindOf DEF ReplyDump
  <1>4. Milder(room[q], r) /\ 0 \notin r.doc
    BY <1>1, <1>2, AdoptsMild DEF RoomShape
  <1>5. RoomShape(r, held) /\ OpShape(op[q], r, held)
    BY <1>2, <1>3, <1>4, MilderShape
  <1>6. D \in SUBSET Dumps
    <2>1. room[q].adm \in Admissions /\ store.doc \in Docs
      BY DEF ReplyDump, TypeOK
    <2>2. r \in Rooms
      BY <1>2, <2>1, AdoptedTyped
    <2>3. [adm |-> room[q].adm, doc |-> r.doc] \in Dumps
      BY <2>1, <2>2 DEF Dumps, Rooms
    <2> QED  BY <1>1, <2>3 DEF Typed, Operations
  <1>7. \A u \in D : 0 \notin u.doc
    BY <1>1, <1>4 DEF OpShape
  <1>8. room' = [room EXCEPT ![q] = r] /\ held' = held /\ issued' = issued /\ store' = store
    BY DEF ReplyDump
  <1>9. op' = [op EXCEPT ![p] = [op[p] EXCEPT !.dumps = D]]
    BY DEF ReplyDump
  <1> HIDE DEF r, D
  <1>10. /\ op'[p].step = op[p].step /\ op'[p].kind = op[p].kind /\ op'[p].conns = op[p].conns
         /\ op'[p].dumps = D /\ \A k \in Pods \ {p} : op'[k] = op[k]
    BY <1>6, <1>9, DumpsAt
  <1>11. room'[q] = r /\ \A k \in Pods \ {q} : room'[k] = room[k]
    BY <1>8 DEF TypeOK
  <1>12. \A k \in Pods : RoomShape(room'[k], held) /\ OpShape(op[k], room'[k], held)
    BY <1>5, <1>11, ShapeAt
  <1>13. OpShape(op'[p], room'[p], held)
    BY <1>3, <1>7, <1>10, <1>12, DumpsShape
  <1>14. \A k \in Pods : Shape(k)'
    BY <1>8, <1>10, <1>12, <1>13 DEF Shape
  <1>15. \A k \in Pods : Takes(k)' = Takes(k)
    BY <1>3, <1>4, <1>10, <1>11 DEF Takes, Milder
  <1> QED  BY <1>1, <1>8, <1>14, <1>15 DEF AdmInv, Exclusive

LEMMA TakeDumpAdm ==
  ASSUME TypeOK, AdmInv, NEW p \in Pods, TakeDump(p)
  PROVE  AdmInv'
  <1>1. /\ RoomShape(room[p], held) /\ OpShape(op[p], room[p], held) /\ Typed(op[p])
        /\ room[p] \in Rooms /\ 0 \notin store.doc /\ op[p].kind \in Kinds
    BY ShapeAt
  <1>2. PICK d \in op[p].dumps :
          /\ op[p].step = "wait"
          /\ room' = [room EXCEPT ![p] = Armed(Adopted(room[p], d.doc), room[p].doc)]
          /\ op' = [op EXCEPT ![p] = [op[p] EXCEPT !.waiting = op[p].waiting \ {d.adm}]]
          /\ held' = held /\ issued' = issued /\ store' = store
    BY DEF TakeDump
  <1> DEFINE r == Armed(Adopted(room[p], d.doc), room[p].doc)
             W == op[p].waiting \ {d.adm}
  <1>3. op[p].kind # "idle" /\ room[p].open
    BY <1>1, <1>2, KindOf
  <1>4. Milder(room[p], r) /\ 0 \notin r.doc
    BY <1>1, TakesMild DEF RoomShape, OpShape
  <1>5. RoomShape(r, held) /\ OpShape(op[p], r, held)
    BY <1>1, <1>3, <1>4, MilderShape
  <1>6. room' = [room EXCEPT ![p] = r] /\ W \in SUBSET op[p].waiting
    BY <1>2
  <1>7. op' = [op EXCEPT ![p] = [op[p] EXCEPT !.waiting = W]]
    BY <1>2
  <1> HIDE DEF r, W
  <1>8. /\ op'[p].step = op[p].step /\ op'[p].kind = op[p].kind /\ op'[p].conns = op[p].conns
        /\ op'[p].dumps = op[p].dumps /\ \A k \in Pods \ {p} : op'[k] = op[k]
    BY <1>6, <1>7, WaitingAt
  <1>9. room'[p] = r /\ \A k \in Pods \ {p} : room'[k] = room[k]
    BY <1>6 DEF TypeOK
  <1>10. \A u \in op'[p].dumps : 0 \notin u.doc
    BY <1>1, <1>8 DEF OpShape
  <1>11. OpShape(op'[p], r, held)
    BY <1>2, <1>3, <1>5, <1>8, <1>10, DumpsShape
  <1>12. r.adm = room[p].adm
    BY <1>4 DEF Milder
  <1> QED  BY <1>1, <1>2, <1>5, <1>8, <1>9, <1>11, <1>12, StepsAdm

LEMMA SettleAdm ==
  ASSUME TypeOK, AdmInv, NEW p \in Pods, Settle(p)
  PROVE  AdmInv'
  <1> DEFINE r == Adopted(room[p], store.doc)
             k == Kept(p, r)
  <1>1. /\ RoomShape(room[p], held) /\ OpShape(op[p], room[p], held)
        /\ room[p] \in Rooms /\ 0 \notin store.doc /\ op[p].kind \in Kinds
    BY ShapeAt
  <1>2. /\ op[p].step = "wait" /\ held' = held /\ issued' = issued /\ store' = store
    BY DEF Settle, Answered
  <1>3. op[p].kind \in {"join", "commit"} /\ room[p].open
    BY <1>1, <1>2, KindOf
  <1>4. CASE Again(p)
    <2>1. room' = room /\ Goto(p, "owners")
      BY <1>4 DEF Again
    <2> QED  BY <1>2, <2>1, GoesAdm
  <1>5. CASE Conclude(p)
    <2>1. Milder(room[p], r)
      BY <1>1, AdoptsMild DEF RoomShape
    <2>2. RoomShape(r, held) /\ OpShape(op[p], r, held) /\ r.adm = room[p].adm
      BY <1>1, <1>3, <2>1, MilderShape DEF Milder
    <2>3. k = r \/ (k = Closed /\ op[p].kind = "commit")
      BY KeptIs
    <2>4. room' = [room EXCEPT ![p] = k]
      BY <1>5 DEF Conclude
    <2> HIDE DEF r, k
    <2>5. room'[p] = k /\ \A q \in Pods \ {p} : room'[q] = room[q]
      BY <2>4 DEF TypeOK
    <2>6. RoomShape(k, held) /\ k.adm \in {0, room[p].adm}
      BY <2>2, <2>3, ClosedShape, ClosedIs
    <2>7. CASE op[p].kind = "join"
      <3>1. Goto(p, "attach")
        BY <1>5, <2>7 DEF Conclude, Confirmed
      <3>2. Onward(op[p], op'[p], "attach") /\ \A q \in Pods \ {p} : op'[q] = op[q]
        BY <3>1, GotoAt DEF Steps
      <3>3. k = r
        BY <2>3, <2>7
      <3>4. OpShape(op'[p], r, held) /\ op'[p].step # "init"
        BY <1>2, <2>2, <2>7, <3>2 DEF OpShape, JoinShape, Onward
      <3> QED  BY <1>1, <1>2, <2>5, <2>6, <3>2, <3>3, <3>4, StepsAdm
    <2>8. CASE op[p].kind # "join"
      <3>1. Done(p)
        BY <1>5, <2>8 DEF Conclude, Confirmed
      <3> QED  BY <1>1, <1>2, <2>5, <2>6, <3>1, DoneAt, EndsAdm
    <2> QED  BY <2>7, <2>8
  <1> QED  BY <1>4, <1>5 DEF Settle

\* A retirement that begins.
LEMMA RetiresAdm ==
  ASSUME TypeOK, AdmInv, NEW p \in Pods, NEW k \in {"retire", "drop", "close"}, NEW r,
         op' = [op EXCEPT ![p] = Start(k, "flush")], room' = [room EXCEPT ![p] = r],
         RoomShape(r, held), r.adm # 0, r.adm = room[p].adm, r.writers = {},
         held' = held, issued' = issued, store' = store
  PROVE  AdmInv'
  <1>1. /\ op'[p].kind = k /\ op'[p].step = "flush" /\ op'[p].dumps = {}
        /\ \A q \in Pods \ {p} : op'[q] = op[q]
    BY StartAt DEF Kinds, Steps
  <1>2. room'[p] = r /\ \A q \in Pods \ {p} : room'[q] = room[q]
    BY DEF TypeOK
  <1>3. OpShape(op'[p], r, held)
    BY <1>1, ClosedIs DEF OpShape, RoomShape
  <1> QED  BY <1>1, <1>2, <1>3, ShapeAt, StepsAdm

LEMMA RoundFailsAdm ==
  ASSUME TypeOK, AdmInv, NEW p \in Pods, RoundFails(p)
  PROVE  AdmInv'
  <1>1. /\ RoomShape(room[p], held) /\ 0 \notin store.doc
    BY ShapeAt
  <1>2. /\ held' = held /\ issued' = issued /\ store' = store
        /\ room' = [room EXCEPT ![p] = Kept(p, room[p])]
    BY DEF RoundFails
  <1>3. CASE op' = [op EXCEPT ![p] = Start("retire", "flush")] /\ op[p].kind = "join"
             /\ room[p].adm # 0 /\ room[p].writers = {}
    <2>1. Kept(p, room[p]) = room[p]
      BY <1>3, KeptIs
    <2> QED  BY <1>1, <1>2, <1>3, <2>1, RetiresAdm
  <1>4. CASE Done(p)
    <2> DEFINE k == Kept(p, room[p])
    <2>1. RoomShape(k, held) /\ k.adm \in {0, room[p].adm}
      BY <1>1, KeptIs, ClosedShape, ClosedIs
    <2>2. room'[p] = k /\ \A q \in Pods \ {p} : room'[q] = room[q]
      BY <1>2 DEF TypeOK
    <2> HIDE DEF k
    <2> QED  BY <1>1, <1>2, <1>4, <2>1, <2>2, DoneAt, EndsAdm
  <1> QED  BY <1>3, <1>4 DEF RoundFails, Done

LEMMA StartCommitAdm ==
  ASSUME TypeOK, AdmInv, NEW p \in Pods, StartCommit(p)
  PROVE  AdmInv'
  <1> DEFINE r == Opened(p)
  <1>1. /\ RoomShape(room[p], held) /\ 0 \notin store.doc /\ owed \in SUBSET (Writers \cup Authors)
    BY ShapeAt DEF TypeOK
  <1>2. /\ r.open /\ RoomShape(r, held) /\ r.adm \in {0, room[p].adm}
    BY <1>1, OpenedIs, LoadedIs DEF RoomShape
  <1>3. /\ held' = held /\ issued' = issued /\ store' = store /\ room' = [room EXCEPT ![p] = r]
        /\ op' = [op EXCEPT ![p] = [Start("commit", "owners") EXCEPT !.must = owed]]
    BY DEF StartCommit
  <1> HIDE DEF r
  <1>4. room'[p] = r /\ \A q \in Pods \ {p} : room'[q] = room[q]
    BY <1>3 DEF TypeOK
  <1>5. /\ op'[p].kind = "commit" /\ op'[p].step = "owners" /\ op'[p].dumps = {}
        /\ \A q \in Pods \ {p} : op'[q] = op[q]
    BY <1>1, <1>3, SaveAt
  <1>6. OpShape(op'[p], r, held)
    BY <1>2, <1>5 DEF OpShape
  <1> QED  BY <1>1, <1>2, <1>3, <1>4, <1>5, <1>6, StepsAdm

\* A step outside the rooms.
LEMMA AsideAdm ==
  ASSUME AdmInv, room' = room, op' = op, held' = held, issued' = issued, 0 \notin store'.doc
  PROVE  AdmInv'
  BY DEF AdmInv, Shape, Exclusive, Takes

LEMMA ApplyAdm ==
  ASSUME TypeOK, AdmInv, NEW w \in Writers, Apply(w)
  PROVE  AdmInv'
  <1> DEFINE p == home[w]
             r == Edited(room[p], w)
  <1>1. p \in Pods
    BY DEF TypeOK, Sockets
  <1>2. RoomShape(room[p], held) /\ room[p] \in Rooms /\ 0 \notin store.doc
    BY <1>1, ShapeAt
  <1>3. /\ w \in room[p].writers /\ room' = [room EXCEPT ![p] = r]
        /\ op' = op /\ held' = held /\ issued' = issued /\ store' = store
    BY DEF Apply, Accept
  <1>4. room[p].open
    BY <1>2, <1>3, ClosedIs DEF RoomShape
  <1>5. Milder(room[p], r)
    <2>1. w # 0
      BY NoSeed
    <2> QED  BY <1>2, <2>1, EditedIs DEF Milder, RoomShape
  <1> HIDE DEF p, r
  <1> QED  BY <1>1, <1>2, <1>3, <1>4, <1>5, MildAdm

LEMMA DropAdm ==
  ASSUME TypeOK, AdmInv, NEW w \in Writers, Drop(w)
  PROVE  AdmInv'
  <1> DEFINE p == home[w]
             r == [room[p] EXCEPT !.writers = room[p].writers \ {w}]
  <1>1. p \in Pods
    BY DEF TypeOK, Sockets
  <1>2. RoomShape(room[p], held) /\ room[p] \in Rooms /\ 0 \notin store.doc
    BY <1>1, ShapeAt
  <1>3. /\ room' = room \/ room' = [room EXCEPT ![p] = r]
        /\ op' = op /\ held' = held /\ issued' = issued /\ store' = store
    BY DEF Drop
  <1>4. Milder(room[p], r)
    BY <1>2 DEF Milder, RoomShape, Rooms
  <1>5. CASE room[p].open /\ room' = [room EXCEPT ![p] = r]
    <2> HIDE DEF p, r
    <2> QED  BY <1>1, <1>2, <1>3, <1>4, <1>5, MildAdm
  <1>6. CASE ~room[p].open \/ room' = room
    <2>1. room' = room
      <3>1. CASE ~room[p].open
        <4>1. room[p] = Closed /\ r = Closed
          BY <1>2, <3>1 DEF RoomShape, Closed
        <4> HIDE DEF p, r
        <4>2. [room EXCEPT ![p] = r] = room
          BY <1>1, <4>1 DEF TypeOK
        <4> QED  BY <1>3, <4>2
      <3> QED  BY <1>6, <3>1
    <2> QED  BY <1>2, <1>3, <2>1, AsideAdm
  <1> QED  BY <1>3, <1>5, <1>6

LEMMA MergeAdm ==
  ASSUME TypeOK, AdmInv, NEW m \in bus, Merge(m)
  PROVE  AdmInv'
  <1> DEFINE q == m.to
             w == m.edit
             s == IF 0 \in room[q].doc THEN Adopted(room[q], store.doc) ELSE room[q]
             r == Edited(s, w)
  <1>1. q \in Pods /\ w \in Writers /\ store.doc \in Docs
    BY DEF TypeOK
  <1>2. RoomShape(room[q], held) /\ room[q] \in Rooms /\ 0 \notin store.doc
    BY <1>1, ShapeAt
  <1>3. op' = op /\ held' = held /\ issued' = issued /\ store' = store
    BY DEF Merge
  <1>4. room' = room \/ (room[q].open /\ room' = [room EXCEPT ![q] = r])
    BY DEF Merge
  <1>5. s \in Rooms /\ Milder(room[q], s)
    <2>1. CASE 0 \in room[q].doc
      BY <1>1, <1>2, <2>1, AdoptedTyped, AdoptsMild DEF RoomShape
    <2>2. CASE 0 \notin room[q].doc
      BY <1>2, <2>2 DEF RoomShape, Milder
    <2> QED  BY <2>1, <2>2
  <1> HIDE DEF s
  <1>6. Milder(room[q], r)
    <2>1. w # 0
      BY <1>1, NoSeed
    <2> QED  BY <1>5, <2>1, EditedIs DEF Milder
  <1>7. CASE room' = room
    BY <1>2, <1>3, <1>7, AsideAdm
  <1>8. CASE room[q].open /\ room' = [room EXCEPT ![q] = r]
    <2> HIDE DEF q, r
    <2> QED  BY <1>1, <1>2, <1>3, <1>6, <1>8, MildAdm
  <1> QED  BY <1>4, <1>7, <1>8

\* What a flush or the debounced write leaves in memory and in the database.
LEMMA PersistedIs ==
  ASSUME TypeOK, NEW p \in Pods, Persisted(p)
  PROVE  /\ room'[p].open = room[p].open /\ room'[p].adm = room[p].adm
         /\ room'[p].persistable = room[p].persistable
         /\ room'[p].doc = room[p].doc \cup store.doc
         /\ room'[p].live = room[p].live /\ room'[p].writers = room[p].writers
         /\ \A q \in Pods \ {p} : room'[q] = room[q]
         /\ store'.doc = room[p].doc \cup store.doc
         /\ store'.body = Text(store'.doc)
  BY DEF Persisted, TypeOK, Rooms

LEMMA PersistAdm ==
  ASSUME TypeOK, AdmInv, NEW p \in Pods, Persist(p)
  PROVE  AdmInv'
  <1>1. /\ RoomShape(room[p], held) /\ OpShape(op[p], room[p], held)
        /\ 0 \notin store.doc /\ 0 \notin held
    BY ShapeAt
  <1>2. /\ room[p].adm \in held /\ Persisted(p) /\ op' = op /\ held' = held /\ issued' = issued
    BY DEF Persist
  <1>3. room[p].open /\ 0 \notin room[p].doc
    BY <1>1, <1>2, ClosedIs DEF RoomShape
  <1>4. Milder(room[p], room'[p]) /\ 0 \notin store'.doc
    BY <1>1, <1>2, <1>3, PersistedIs DEF Milder, RoomShape
  <1>5. RoomShape(room'[p], held) /\ OpShape(op[p], room'[p], held)
    BY <1>1, <1>3, <1>4, MilderShape
  <1>6. Takes(p)' = Takes(p)
    BY <1>2, <1>4 DEF Takes, Milder
  <1>7. \A q \in Pods \ {p} : room'[q] = room[q] /\ op'[q] = op[q]
    BY <1>2, PersistedIs
  <1> QED  BY <1>2, <1>4, <1>5, <1>6, <1>7, ShapeAt, ActsAdm

LEMMA LeaveAdm ==
  ASSUME TypeOK, AdmInv, NEW c \in Sockets, Leave(c)
  PROVE  AdmInv'
  <1> DEFINE p == home[c]
             r == [room[p] EXCEPT !.live = room[p].live \ {c}, !.writers = room[p].writers \ {c}]
  <1>1. p \in Pods
    BY DEF TypeOK
  <1>2. RoomShape(room[p], held) /\ room[p] \in Rooms /\ 0 \notin store.doc
    BY <1>1, ShapeAt
  <1>3. /\ c \in room[p].live /\ room' = [room EXCEPT ![p] = r]
        /\ op' = op /\ held' = held /\ issued' = issued /\ store' = store
    BY DEF Leave
  <1>4. room[p].open
    BY <1>2, <1>3, ClosedIs DEF RoomShape
  <1>5. Milder(room[p], r)
    BY <1>2 DEF Milder, RoomShape, Rooms
  <1> HIDE DEF p, r
  <1> QED  BY <1>1, <1>2, <1>3, <1>4, <1>5, MildAdm

LEMMA DemoteAdm ==
  ASSUME TypeOK, AdmInv, NEW w \in Writers, Demote(w)
  PROVE  AdmInv'
  <1> DEFINE p == home[w]
             r == [room[p] EXCEPT !.writers = room[p].writers \ {w}]
  <1>1. p \in Pods
    BY DEF TypeOK, Sockets
  <1>2. RoomShape(room[p], held) /\ room[p] \in Rooms /\ 0 \notin store.doc
    BY <1>1, ShapeAt
  <1>3. /\ w \in room[p].writers /\ room' = [room EXCEPT ![p] = r]
        /\ op' = op /\ held' = held /\ issued' = issued /\ store' = store
    BY DEF Demote
  <1>4. room[p].open
    BY <1>2, <1>3, ClosedIs DEF RoomShape
  <1>5. Milder(room[p], r)
    BY <1>2 DEF Milder, RoomShape, Rooms
  <1> HIDE DEF p, r
  <1> QED  BY <1>1, <1>2, <1>3, <1>4, <1>5, MildAdm

LEMMA StartRetireAdm ==
  ASSUME TypeOK, AdmInv, NEW p \in Pods, StartRetire(p)
  PROVE  AdmInv'
  <1>1. /\ RoomShape(room[p], held) /\ 0 \notin store.doc
        /\ room' = room /\ held' = held /\ issued' = issued /\ store' = store
    BY ShapeAt DEF StartRetire
  <1>2. CASE op' = op
    BY <1>1, <1>2, AsideAdm
  <1>3. CASE /\ room[p].adm # 0 /\ room[p].writers = {}
             /\ op' = [op EXCEPT ![p] = Start("retire", "flush")]
    <2>1. room' = [room EXCEPT ![p] = room[p]]
      BY <1>1 DEF TypeOK
    <2> QED  BY <1>1, <1>3, <2>1, RetiresAdm
  <1> QED  BY <1>2, <1>3 DEF StartRetire

\* A room that owns nothing is closed between operations.
LEMMA ShutAdm ==
  ASSUME TypeOK, AdmInv, NEW p \in Pods, op[p].kind = "idle", op' = op,
         room' = [room EXCEPT ![p] = Closed], held' = held, issued' = issued, store' = store
  PROVE  AdmInv'
  <1>1. op'[p] = Idle
    BY ShapeAt DEF OpShape
  <1>2. room'[p] = Closed /\ \A q \in Pods \ {p} : room'[q] = room[q] /\ op'[q] = op[q]
    BY DEF TypeOK
  <1> QED  BY <1>1, <1>2, ShapeAt, ClosedShape, ClosedIs, EndsAdm

LEMMA StartDropAdm ==
  ASSUME TypeOK, AdmInv, NEW p \in Pods, StartDrop(p)
  PROVE  AdmInv'
  <1>1. /\ RoomShape(room[p], held) /\ room[p] \in Rooms /\ op[p].kind = "idle" /\ room[p].live = {}
        /\ held' = held /\ issued' = issued /\ store' = store
    BY ShapeAt DEF StartDrop
  <1>2. CASE room[p].adm = 0
    BY <1>1, <1>2, ShutAdm DEF StartDrop
  <1>3. CASE room[p].adm # 0
    <2>1. room' = [room EXCEPT ![p] = room[p]] /\ room[p].writers = {}
      BY <1>1, <1>3 DEF TypeOK, StartDrop, RoomShape
    <2>2. op' = [op EXCEPT ![p] = Start("drop", "flush")]
      BY <1>3 DEF StartDrop
    <2> QED  BY <1>1, <1>3, <2>1, <2>2, RetiresAdm
  <1> QED  BY <1>2, <1>3

LEMMA StartCloseAdm ==
  ASSUME TypeOK, AdmInv, NEW p \in Pods, StartClose(p)
  PROVE  AdmInv'
  <1>1. /\ RoomShape(room[p], held) /\ room[p] \in Rooms /\ op[p].kind = "idle" /\ room[p].open
        /\ held' = held /\ issued' = issued /\ store' = store
    BY ShapeAt DEF StartClose
  <1>2. CASE room[p].adm = 0
    BY <1>1, <1>2, ShutAdm DEF StartClose
  <1>3. CASE room[p].adm # 0
    <2> DEFINE r == [room[p] EXCEPT !.live = {}, !.writers = {}]
    <2>1. /\ r.open /\ r.adm = room[p].adm /\ r.persistable = room[p].persistable
          /\ r.doc = room[p].doc /\ r.live = {} /\ r.writers = {}
      BY <1>1 DEF Rooms
    <2>2. RoomShape(r, held)
      BY <1>1, <2>1 DEF RoomShape
    <2>3. room' = [room EXCEPT ![p] = r] /\ op' = [op EXCEPT ![p] = Start("close", "flush")]
      BY <1>3 DEF StartClose
    <2> HIDE DEF r
    <2> QED  BY <1>1, <1>3, <2>1, <2>2, <2>3, RetiresAdm
  <1> QED  BY <1>2, <1>3

LEMMA FlushAdm ==
  ASSUME TypeOK, AdmInv, NEW p \in Pods, Flush(p)
  PROVE  AdmInv'
  <1>1. /\ RoomShape(room[p], held) /\ OpShape(op[p], room[p], held)
        /\ 0 \notin store.doc /\ op[p].kind \in Kinds
    BY ShapeAt
  <1>2. /\ op[p].step = "flush" /\ op[p].kind \in {"retire", "drop", "close"}
        /\ room[p].open /\ room[p].adm # 0 /\ room[p].writers = {}
    BY <1>1, KindOf DEF Flush
  <1>3. Persisted(p) /\ Goto(p, "release") /\ held' = held /\ issued' = issued
    BY <1>1, <1>2 DEF Flush, RoomShape
  <1>4. Milder(room[p], room'[p]) /\ 0 \notin store'.doc
    BY <1>1, <1>2, <1>3, PersistedIs DEF Milder, RoomShape
  <1>5. RoomShape(room'[p], held) /\ OpShape(op[p], room'[p], held)
    BY <1>1, <1>2, <1>4, MilderShape
  <1>6. Onward(op[p], op'[p], "release") /\ \A q \in Pods \ {p} : op'[q] = op[q]
    BY <1>3, GotoAt DEF Steps
  <1>7. OpShape(op'[p], room'[p], held) /\ op'[p].step # "init"
    BY <1>2, <1>5, <1>6 DEF OpShape, JoinShape, Onward
  <1>8. room'[p].adm = room[p].adm /\ \A q \in Pods \ {p} : room'[q] = room[q]
    BY <1>3, PersistedIs
  <1> QED  BY <1>3, <1>4, <1>5, <1>6, <1>7, <1>8, StepsAdm

\* A retirement ends: the room keeps the admission or does not.
LEMMA EndedShape ==
  ASSUME TypeOK, AdmInv, NEW p \in Pods, op[p].step \in {"flush", "release"},
         NEW a \in {0, room[p].adm}, NEW h, a # 0 => a \in h
  PROVE  RoomShape(Ended(p, a), h) /\ Ended(p, a).adm \in {0, a}
  <1>1. /\ RoomShape(room[p], held) /\ OpShape(op[p], room[p], held) /\ op[p].kind \in Kinds
    BY ShapeAt
  <1>2. room[p].open
    BY <1>1, KindOf
  <1> QED  BY <1>1, <1>2, EndedIs, ClosedShape, ClosedIs DEF RoomShape

LEMMA FlushFailsAdm ==
  ASSUME TypeOK, AdmInv, NEW p \in Pods, FlushFails(p)
  PROVE  AdmInv'
  <1> DEFINE a == room[p].adm
             r == Ended(p, a)
  <1>1. /\ op[p].step = "flush" /\ room' = [room EXCEPT ![p] = r] /\ Done(p)
        /\ held' = held /\ issued' = issued /\ store' = store
    BY DEF FlushFails
  <1>2. a # 0 => a \in held
    BY ShapeAt DEF RoomShape
  <1>3. RoomShape(r, held) /\ r.adm \in {0, a}
    BY <1>1, <1>2, EndedShape
  <1> HIDE DEF r
  <1>4. room'[p] = r /\ \A q \in Pods \ {p} : room'[q] = room[q]
    BY <1>1 DEF TypeOK
  <1> QED  BY <1>1, <1>3, <1>4, DoneAt, ShapeAt, EndsAdm

LEMMA ReleaseAdm ==
  ASSUME TypeOK, AdmInv, NEW p \in Pods, Release(p)
  PROVE  AdmInv'
  <1> DEFINE a == room[p].adm
             r == Ended(p, 0)
  <1>1. /\ op[p].step = "release" /\ room' = [room EXCEPT ![p] = r] /\ Done(p)
        /\ held' = held \ {a} /\ issued' = issued /\ store' = store
    BY DEF Release
  <1>2. RoomShape(r, held') /\ r.adm = 0
    BY <1>1, EndedShape
  <1> HIDE DEF r
  <1>3. room'[p] = r /\ \A q \in Pods \ {p} : room'[q] = room[q]
    BY <1>1 DEF TypeOK
  <1>4. op'[p] = Idle /\ \A q \in Pods \ {p} : op'[q] = op[q]
    BY <1>1, DoneAt
  <1>5. Takes(p)' = 0
    BY <1>2, <1>3, <1>4, IdleTyped DEF Takes
  <1>6. held \ {Takes(p)} \subseteq held' /\ held' \subseteq 1..issued'
    <2>1. held \subseteq 1..issued
      BY ShapeAt
    <2>2. a # 0 /\ Takes(p) = a
      BY <1>1, ShapeAt, KindOf, TakesIs
    <2> QED  BY <1>1, <2>1, <2>2
  <1>7. RoomShape(room'[p], held') /\ OpShape(op'[p], room'[p], held') /\ 0 \notin store'.doc
    BY <1>1, <1>2, <1>3, <1>4, IdleShape, ShapeAt
  <1> QED  BY <1>3, <1>4, <1>5, <1>6, <1>7, ActsAdm

LEMMA ReleaseFailsAdm ==
  ASSUME TypeOK, AdmInv, Hazards = {}, NEW p \in Pods, ReleaseFails(p)
  PROVE  AdmInv'
  <1> DEFINE a == room[p].adm
             r == Ended(p, a)
  <1>1. /\ op[p].step = "release" /\ room' = [room EXCEPT ![p] = r] /\ Done(p)
        /\ held' = held /\ issued' = issued /\ store' = store
    BY DEF ReleaseFails
  <1>2. a # 0 => a \in held
    BY ShapeAt DEF RoomShape
  <1>3. RoomShape(r, held) /\ r.adm \in {0, a}
    BY <1>1, <1>2, EndedShape
  <1> HIDE DEF r
  <1>4. room'[p] = r /\ \A q \in Pods \ {p} : room'[q] = room[q]
    BY <1>1 DEF TypeOK
  <1> QED  BY <1>1, <1>3, <1>4, DoneAt, ShapeAt, EndsAdm

LEMMA CrashAdm ==
  ASSUME TypeOK, AdmInv, NEW p \in Pods, Crash(p)
  PROVE  AdmInv'
  <1>1. /\ room' = [room EXCEPT ![p] = Closed] /\ Done(p)
        /\ held' = held /\ issued' = issued /\ store' = store
    BY DEF Crash
  <1>2. room'[p] = Closed /\ \A q \in Pods \ {p} : room'[q] = room[q]
    BY <1>1 DEF TypeOK
  <1> QED  BY <1>1, <1>2, DoneAt, ShapeAt, ClosedShape, ClosedIs, EndsAdm

LEMMA InitAdm ==
  ASSUME Init
  PROVE  AdmInv
  <1>1. \A p \in Pods : Shape(p) /\ Takes(p) = 0
    BY ClosedShape, IdleShape, ClosedIs, IdleTyped DEF Init, Shape, Takes
  <1> QED  BY <1>1 DEF Init, AdmInv, Exclusive

LEMMA NextAdm ==
  ASSUME TypeInv, AdmInv, Hazards = {}, [Next]_vars
  PROVE  AdmInv'
  <1>0. TypeOK
    BY DEF TypeInv
  <1>1. CASE \E c \in Sockets : StartJoin(c) \/ Leave(c)
    BY <1>0, <1>1, StartJoinAdm, LeaveAdm
  <1>2. CASE \E w \in Writers : Receive(w) \/ Apply(w) \/ Drop(w) \/ Demote(w)
    <2>1. CASE \E w \in Writers : Receive(w)
      BY <1>0, <2>1, ShapeAt, AsideAdm DEF Receive, AdmInv
    <2> QED  BY <1>0, <1>2, <2>1, ApplyAdm, DropAdm, DemoteAdm
  <1>3. CASE \E m \in bus : Merge(m)
    BY <1>0, <1>3, MergeAdm
  <1>4. CASE (\E u \in Authors : Author(u)) \/ Delete
    <2>1. room' = room /\ op' = op /\ held' = held /\ issued' = issued /\ 0 \notin store'.doc
      BY <1>0, <1>4 DEF Author, Delete, TypeOK, AdmInv
    <2> QED  BY <2>1, AsideAdm
  <1>5. CASE \E p, q \in Pods : ReplyDump(p, q)
    BY <1>0, <1>5, ReplyDumpAdm
  <1>6. CASE \E p \in Pods : Check(p) \/ Admit(p) \/ InitDoc(p) \/ InitFails(p) \/ Attach(p)
    BY <1>0, <1>6, CheckAdm, AdmitAdm, InitDocAdm, InitFailsAdm, AttachAdm
  <1>7. CASE \E p \in Pods : Owners(p) \/ TakeDump(p) \/ Settle(p) \/ RoundFails(p) \/ StartCommit(p)
    <2>1. CASE \E p \in Pods : Owners(p)
      BY <1>0, <2>1, OwnersAdm DEF TypeInv, TriesLeft, Owners
    <2> QED  BY <1>0, <1>7, <2>1, TakeDumpAdm, SettleAdm, RoundFailsAdm, StartCommitAdm
  <1>8. CASE \E p \in Pods : Persist(p) \/ StartRetire(p) \/ StartDrop(p) \/ StartClose(p)
    BY <1>0, <1>8, PersistAdm, StartRetireAdm, StartDropAdm, StartCloseAdm
  <1>9. CASE \E p \in Pods : Flush(p) \/ FlushFails(p) \/ Release(p) \/ ReleaseFails(p) \/ Crash(p)
    BY <1>0, <1>9, FlushAdm, FlushFailsAdm, ReleaseAdm, ReleaseFailsAdm, CrashAdm
  <1>10. CASE \E s \in pending : SaveBody(s) \/ SaveFails(s)
    <2>1. room' = room /\ op' = op /\ held' = held /\ issued' = issued /\ 0 \notin store'.doc
      BY <1>0, <1>10 DEF SaveBody, SaveFails, TypeOK, AdmInv
    <2> QED  BY <2>1, AsideAdm
  <1>11. CASE UNCHANGED vars
    BY <1>11, AsideAdm DEF vars, AdmInv
  <1> QED  BY <1>1, <1>2, <1>3, <1>4, <1>5, <1>6, <1>7, <1>8, <1>9, <1>10, <1>11 DEF Next

\* While an authored body waits for its BYTEA to be deleted, nobody edits and
\* no Save has a body to write.
Quiet ==
  deleting => held = {} /\ pending = {} /\ \A p \in Pods : op[p] = Idle /\ room[p].live = {}

LEMMA AuthorQuiet ==
  ASSUME TypeOK, AdmInv, Hazards = {}, NEW u \in Authors, Author(u)
  PROVE  Quiet'
  <1>1. /\ held = {} /\ held' = held /\ pending = {} /\ pending' = pending /\ op' = op /\ room' = room
        /\ \A p \in Pods : /\ op[p].kind # "commit" /\ op[p].step # "admit"
                           /\ room[p].live = {} /\ op[p].conns \cap Readers = {}
    BY DEF Author
  <1>2. ASSUME NEW p \in Pods
        PROVE  op[p] = Idle
    <2>1. /\ RoomShape(room[p], held) /\ OpShape(op[p], room[p], held)
          /\ op[p].kind \in Kinds /\ op[p].conns \subseteq Sockets
      BY ShapeAt DEF Typed, Operations
    <2>2. room[p].adm = 0 /\ op[p].step # "init"
      BY <1>1, <2>1 DEF RoomShape, OpShape
    <2>3. op[p].conns \subseteq Writers
      BY <1>1, <2>1 DEF Sockets
    <2>4. op[p].kind # "join"
      BY <1>1, <2>1, <2>2, <2>3 DEF OpShape, JoinShape
    <2> QED  BY <1>1, <2>1, <2>2, <2>4 DEF OpShape, Kinds
  <1> QED  BY <1>1, <1>2 DEF Quiet

\* What may happen meanwhile.
LEMMA QuietStep ==
  ASSUME TypeOK, AdmInv, Quiet, Hazards = {}, deleting, Next
  PROVE  \/ Delete
         \/ /\ held' = held /\ op' = op /\ pending' \subseteq pending
            /\ \A p \in Pods : room'[p].live = {}
  <1>0. /\ held = {} /\ pending = {}
        /\ \A p \in Pods : /\ op[p].kind = "idle" /\ op[p].step = "none"
                           /\ room[p].live = {} /\ room[p].writers = {} /\ room[p].adm = 0
    <2>1. held = {} /\ pending = {} /\ \A p \in Pods : op[p] = Idle /\ room[p].live = {}
      BY DEF Quiet
    <2>2. \A p \in Pods : room[p].writers = {} /\ room[p].adm = 0
      BY <2>1, ShapeAt DEF RoomShape
    <2> QED  BY <2>1, <2>2, IdleTyped
  <1>1. CASE \E c \in Sockets : StartJoin(c) \/ Leave(c)
    <2>1. ASSUME NEW c \in Sockets
          PROVE  ~StartJoin(c) /\ ~Leave(c)
      <3>1. home[c] \in Pods
        BY DEF TypeOK
      <3> QED  BY <1>0, <3>1 DEF StartJoin, Leave, Undisturbed
    <2> QED  BY <1>1, <2>1
  <1>2. CASE \E w \in Writers : Receive(w) \/ Apply(w) \/ Drop(w) \/ Demote(w)
    <2>1. PICK w \in Writers : Receive(w) \/ Apply(w) \/ Drop(w) \/ Demote(w)
      BY <1>2
    <2>2. home[w] \in Pods
      BY DEF TypeOK, Sockets
    <2>3. ~Receive(w) /\ ~Apply(w) /\ ~Demote(w)
      BY <1>0, <2>2 DEF Receive, Apply, Demote
    <2>4. /\ held' = held /\ op' = op /\ pending' = pending
          /\ room' = room \/ room' = [room EXCEPT ![home[w]].writers = room[home[w]].writers \ {w}]
      BY <2>1, <2>3 DEF Drop
    <2> DEFINE h == home[w]
               r == [room[h] EXCEPT !.writers = room[h].writers \ {w}]
    <2>5. r.live = {} /\ (room' = room \/ room' = [room EXCEPT ![h] = r])
      BY <1>0, <2>2, <2>4 DEF TypeOK, Rooms
    <2>6. h \in Pods
      BY <2>2
    <2> HIDE DEF h, r
    <2>7. \A p \in Pods : room'[p].live = {}
      BY <1>0, <2>5, <2>6 DEF TypeOK
    <2> QED  BY <2>4, <2>7
  <1>3. CASE \E m \in bus : Merge(m)
    BY <1>0, <1>3 DEF Merge
  <1>4. CASE (\E u \in Authors : Author(u)) \/ Delete
    BY <1>4 DEF Author
  <1>5. CASE \E p, q \in Pods : ReplyDump(p, q)
    BY <1>0, <1>5 DEF ReplyDump
  <1>6. CASE \E p \in Pods : Check(p) \/ Admit(p) \/ InitDoc(p) \/ InitFails(p) \/ Attach(p)
    BY <1>0, <1>6 DEF Check, Admit, InitDoc, InitFails, Attach
  <1>7. CASE \E p \in Pods : Owners(p) \/ TakeDump(p) \/ Settle(p) \/ RoundFails(p) \/ StartCommit(p)
    BY <1>0, <1>7 DEF Owners, TakeDump, Settle, Answered, RoundFails, StartCommit, Undisturbed
  <1>8. CASE \E p \in Pods : Persist(p) \/ StartRetire(p) \/ StartDrop(p) \/ StartClose(p)
    <2>1. PICK p \in Pods : Persist(p) \/ StartRetire(p) \/ StartDrop(p) \/ StartClose(p)
      BY <1>8
    <2>2. ~Persist(p)
      BY <1>0 DEF Persist
    <2>3. held' = held /\ op' = op /\ pending' = pending /\ (room' = room \/ room' = [room EXCEPT ![p] = Closed])
      BY <1>0, <2>1, <2>2 DEF StartRetire, StartDrop, StartClose
    <2>4. \A q \in Pods : room'[q].live = {}
      BY <1>0, <2>3, ClosedIs DEF TypeOK
    <2> QED  BY <2>3, <2>4
  <1>9. CASE \E p \in Pods : Flush(p) \/ FlushFails(p) \/ Release(p) \/ ReleaseFails(p)
    BY <1>0, <1>9 DEF Flush, FlushFails, Release, ReleaseFails
  <1>10. CASE \E p \in Pods : Crash(p)
    <2>1. PICK p \in Pods : Crash(p)
      BY <1>10
    <2>2. held' = held /\ pending' \subseteq pending /\ room' = [room EXCEPT ![p] = Closed] /\ Done(p)
      BY <2>1 DEF Crash
    <2>3. op' = op
      BY <2>2 DEF Done, Quiet, TypeOK
    <2>4. \A q \in Pods : room'[q].live = {}
      BY <1>0, <2>2, ClosedIs DEF TypeOK
    <2> QED  BY <2>2, <2>3, <2>4
  <1>11. CASE \E s \in pending : SaveBody(s) \/ SaveFails(s)
    BY <1>0, <1>11
  <1> QED  BY <1>1, <1>2, <1>3, <1>4, <1>5, <1>6, <1>7, <1>8, <1>9, <1>10, <1>11 DEF Next

\* Only an authored body sets the flag.
LEMMA DeletingBy ==
  ASSUME ~deleting, TypeOK, Next, deleting'
  PROVE  \E u \in Authors : Author(u)
  <1>1. CASE \E c \in Sockets : StartJoin(c) \/ Leave(c)
    BY <1>1 DEF StartJoin, Leave
  <1>2. CASE \E w \in Writers : Receive(w) \/ Apply(w) \/ Drop(w) \/ Demote(w)
    BY <1>2 DEF Receive, Apply, Drop, Demote
  <1>3. CASE (\E m \in bus : Merge(m)) \/ Delete \/ (\E p, q \in Pods : ReplyDump(p, q))
    BY <1>3 DEF Merge, Delete, ReplyDump
  <1>4. CASE \E p \in Pods : Check(p) \/ Admit(p) \/ InitDoc(p) \/ InitFails(p) \/ Attach(p)
    BY <1>4 DEF Check, Admit, InitDoc, InitFails, Attach
  <1>5. CASE \E p \in Pods : Owners(p) \/ TakeDump(p) \/ Settle(p) \/ RoundFails(p) \/ StartCommit(p)
    BY <1>5 DEF Owners, TakeDump, Settle, Answered, RoundFails, StartCommit
  <1>6. CASE \E p \in Pods : Persist(p) \/ StartRetire(p) \/ StartDrop(p) \/ StartClose(p)
    BY <1>6 DEF Persist, StartRetire, StartDrop, StartClose
  <1>7. CASE \E p \in Pods : Flush(p) \/ FlushFails(p) \/ Release(p) \/ ReleaseFails(p) \/ Crash(p)
    BY <1>7 DEF Flush, FlushFails, Release, ReleaseFails, Crash
  <1>8. CASE \E s \in pending : SaveBody(s) \/ SaveFails(s)
    BY <1>8 DEF SaveBody, SaveFails
  <1> QED  BY <1>1, <1>2, <1>3, <1>4, <1>5, <1>6, <1>7, <1>8 DEF Next

LEMMA NextQuiet ==
  ASSUME TypeOK, AdmInv, Quiet, Hazards = {}, [Next]_vars
  PROVE  Quiet'
  <1>1. CASE UNCHANGED vars
    BY <1>1 DEF vars, Quiet
  <1>2. CASE Next /\ deleting
    BY <1>2, QuietStep DEF Quiet, Delete
  <1>3. CASE Next /\ ~deleting
    BY <1>3, DeletingBy, AuthorQuiet DEF Quiet
  <1> QED  BY <1>1, <1>2, <1>3

-----------------------------------------------------------------------------
(* Documents: one identity in each, the stored one where a room is in use   *)

One(doc) == \E s \in Seeds : doc \cap Seeds = {s}

StoreInv == store.doc # {} => One(store.doc)

\* A room that is not rebuilt when it is next opened.
InUse(o, r) == r.open /\ (r.live # {} \/ r.adm # 0 \/ o.kind # "idle")

SameSeed(doc, d) == d # {} /\ doc \cap Seeds = d \cap Seeds

RoomDoc(o, r, d) ==
  /\ r.open => One(r.doc)
  /\ InUse(o, r) => 0 \in r.doc \/ SameSeed(r.doc, d)
  /\ \A u \in o.dumps : SameSeed(u.doc, d)

DocsInv ==
  /\ StoreInv
  /\ \A p \in Pods : RoomDoc(op[p], room[p], store.doc)
  /\ snap.got \cap Seeds = {} \/ One(snap.got)

Still(p) == room'[p] = room[p] /\ op'[p] = op[p]

\* What most steps do to the room and the operation of the pod that acts: the
\* room is closed, or its document grows within its identity and its admission
\* is kept or given up; the operation neither acquires nor flushes nor waits.
RoomCalm(p) ==
  \/ room'[p] = Closed /\ op'[p] = Idle
  \/ /\ room'[p].open = room[p].open
     /\ room'[p].adm \in {0, room[p].adm}
     /\ room[p].doc \subseteq room'[p].doc
     /\ room'[p].doc \cap Seeds = room[p].doc \cap Seeds
     /\ InUse(op'[p], room'[p]) => InUse(op[p], room[p])

OpCalm(p) ==
  /\ op'[p].dumps \subseteq op[p].dumps
  /\ op'[p].kind = "commit" => op[p].kind = "commit" /\ op'[p].must = op[p].must
  /\ op'[p].step \in {"init", "wait", "release"} => op'[p] = op[p]

Calm == \A p \in Pods : Still(p) \/ (RoomCalm(p) /\ OpCalm(p))

LEMMA StillCalm ==
  ASSUME NEW p \in Pods, op'[p] = op[p]
  PROVE  OpCalm(p)
  BY DEF OpCalm

LEMMA IdleCalm ==
  ASSUME NEW p \in Pods, op'[p] = Idle
  PROVE  OpCalm(p)
  BY DEF OpCalm, Idle

LEMMA StartCalm ==
  ASSUME TypeOK, NEW p \in Pods, NEW k \in {"retire", "drop", "close"},
         op' = [op EXCEPT ![p] = Start(k, "flush")]
  PROVE  OpCalm(p) /\ \A q \in Pods \ {p} : op'[q] = op[q]
  <1>1. /\ op'[p].kind = k /\ op'[p].step = "flush" /\ op'[p].dumps = {}
        /\ \A q \in Pods \ {p} : op'[q] = op[q]
    BY StartAt DEF Kinds, Steps
  <1> QED  BY <1>1 DEF OpCalm

LEMMA GoCalm ==
  ASSUME TypeOK, NEW p \in Pods, NEW s \in {"owners", "attach"}, Goto(p, s)
  PROVE  OpCalm(p) /\ op'[p].kind = op[p].kind /\ \A q \in Pods \ {p} : op'[q] = op[q]
  <1>1. Onward(op[p], op'[p], s) /\ \A q \in Pods \ {p} : op'[q] = op[q]
    BY GotoAt DEF Steps
  <1> QED  BY <1>1 DEF Onward, OpCalm

\* A pod whose operation is under way uses its room.
LEMMA BusyUse ==
  ASSUME TypeOK, AdmInv, NEW p \in Pods, op[p].step # "none"
  PROVE  InUse(op[p], room[p])
  BY ShapeAt, IdleTyped DEF InUse, OpShape

\* A room with an admission, or whose operation waits, does not hold the
\* identity of a reader.
LEMMA RealDoc ==
  ASSUME TypeOK, AdmInv, DocsInv, NEW p \in Pods, room[p].adm # 0 \/ op[p].step = "wait"
  PROVE  0 \notin room[p].doc /\ SameSeed(room[p].doc, store.doc) /\ room[p].open
  <1>1. RoomShape(room[p], held) /\ OpShape(op[p], room[p], held) /\ op[p].kind \in Kinds
    BY ShapeAt
  <1>2. 0 \notin room[p].doc
    BY <1>1 DEF RoomShape, OpShape
  <1>3. InUse(op[p], room[p])
    <2>1. CASE room[p].adm # 0
      BY <1>1, <2>1, ClosedIs DEF RoomShape, InUse
    <2>2. CASE op[p].step = "wait"
      BY <2>2, BusyUse
    <2> QED  BY <2>1, <2>2
  <1> QED  BY <1>2, <1>3 DEF DocsInv, RoomDoc, InUse

\* Adopting a document of the same identity.
LEMMA AdoptsSame ==
  ASSUME NEW r \in Rooms, NEW d, NEW e, SameSeed(d, e), One(e),
         0 \in r.doc \/ SameSeed(r.doc, e)
  PROVE  SameSeed(Adopted(r, d).doc, e) /\ One(Adopted(r, d).doc)
  BY AdoptedIs DEF SameSeed, One

LEMMA CheckCalm ==
  ASSUME TypeOK, AdmInv, NEW p \in Pods, Check(p)
  PROVE  Calm
  <1>1. room' = room /\ op[p].step = "check" /\ (Goto(p, "owners") \/ Done(p))
    BY DEF Check
  <1>2. OpCalm(p) /\ \A q \in Pods \ {p} : op'[q] = op[q]
    BY <1>1, GoCalm, DoneAt, IdleCalm
  <1>3. InUse(op[p], room[p])
    BY <1>1, BusyUse
  <1> QED  BY <1>1, <1>2, <1>3 DEF Calm, RoomCalm, Still

LEMMA InitFailsCalm ==
  ASSUME TypeOK, AdmInv, Hazards = {}, NEW p \in Pods, InitFails(p)
  PROVE  Calm
  <1>1. op[p].step = "init" /\ Done(p) /\ room' = [room EXCEPT ![p].adm = 0]
    BY DEF InitFails
  <1>2. room[p] \in Rooms /\ room[p].adm = 0
    BY <1>1, ShapeAt, KindOf
  <1>3. room' = room
    BY <1>1, <1>2 DEF TypeOK, Rooms
  <1>4. OpCalm(p) /\ \A q \in Pods \ {p} : op'[q] = op[q]
    BY <1>1, DoneAt, IdleCalm
  <1>5. InUse(op[p], room[p])
    BY <1>1, BusyUse
  <1> QED  BY <1>2, <1>3, <1>4, <1>5 DEF Calm, RoomCalm, Still

LEMMA AttachCalm ==
  ASSUME TypeOK, AdmInv, NEW p \in Pods, Attach(p)
  PROVE  Calm
  <1> DEFINE r == [room[p] EXCEPT !.live = room[p].live \cup op[p].conns,
                                  !.writers = room[p].writers \cup (op[p].conns \cap Writers)]
  <1>1. op[p].step = "attach" /\ Done(p) /\ room' = [room EXCEPT ![p] = r]
    BY DEF Attach
  <1>2. r.open = room[p].open /\ r.adm = room[p].adm /\ r.doc = room[p].doc
    BY OpOf DEF Rooms
  <1> HIDE DEF r
  <1>3. room'[p] = r /\ \A q \in Pods \ {p} : room'[q] = room[q]
    BY <1>1 DEF TypeOK
  <1>4. OpCalm(p) /\ \A q \in Pods \ {p} : op'[q] = op[q]
    BY <1>1, DoneAt, IdleCalm
  <1>5. InUse(op[p], room[p])
    BY <1>1, BusyUse
  <1> QED  BY <1>2, <1>3, <1>4, <1>5 DEF Calm, RoomCalm, Still

LEMMA SettleCalm ==
  ASSUME TypeOK, AdmInv, DocsInv, NEW p \in Pods, Settle(p)
  PROVE  Calm
  <1> DEFINE r == Adopted(room[p], store.doc)
             k == Kept(p, r)
  <1>1. op[p].step = "wait" /\ (Again(p) \/ Conclude(p))
    BY DEF Settle, Answered
  <1>2. /\ room[p] \in Rooms /\ 0 \notin room[p].doc /\ SameSeed(room[p].doc, store.doc)
        /\ InUse(op[p], room[p])
    BY <1>1, OpOf, RealDoc, BusyUse
  <1>3. CASE Again(p)
    <2>1. room' = room /\ Goto(p, "owners")
      BY <1>3 DEF Again
    <2> QED  BY <1>2, <2>1, GoCalm DEF Calm, RoomCalm, Still
  <1>4. CASE Conclude(p)
    <2>1. /\ r.open = room[p].open /\ r.adm = room[p].adm /\ r.doc = room[p].doc \cup store.doc
      BY <1>2, AdoptedIs
    <2>2. r.doc \cap Seeds = room[p].doc \cap Seeds
      BY <1>2, <2>1 DEF SameSeed
    <2>3. k = r \/ (k = Closed /\ op[p].kind = "commit")
      BY KeptIs
    <2>4. room' = [room EXCEPT ![p] = k]
      BY <1>4 DEF Conclude
    <2>5. \/ op[p].kind = "join" /\ Goto(p, "attach")
          \/ op[p].kind # "join" /\ Done(p)
      BY <1>4 DEF Conclude, Confirmed
    <2> HIDE DEF r, k
    <2>6. room'[p] = k /\ \A q \in Pods \ {p} : room'[q] = room[q]
      BY <2>4 DEF TypeOK
    <2>7. OpCalm(p) /\ \A q \in Pods \ {p} : op'[q] = op[q]
      BY <2>5, GoCalm, DoneAt, IdleCalm
    <2>8. op[p].kind # "join" => op'[p] = Idle
      BY <2>5, DoneAt
    <2>9. RoomCalm(p)
      <3>1. CASE k = r
        BY <1>2, <2>1, <2>2, <2>6, <3>1 DEF RoomCalm
      <3>2. CASE k = Closed /\ op[p].kind = "commit"
        BY <2>6, <2>8, <3>2 DEF RoomCalm
      <3> QED  BY <2>3, <3>1, <3>2
    <2> QED  BY <2>6, <2>7, <2>9 DEF Calm, Still
  <1> QED  BY <1>1, <1>3, <1>4

LEMMA RoundFailsCalm ==
  ASSUME TypeOK, AdmInv, NEW p \in Pods, RoundFails(p)
  PROVE  Calm
  <1> DEFINE k == Kept(p, room[p])
  <1>1. /\ op[p].step \in {"owners", "wait"} /\ room' = [room EXCEPT ![p] = k]
        /\ \/ op[p].kind = "join" /\ op' = [op EXCEPT ![p] = Start("retire", "flush")]
           \/ Done(p)
    BY DEF RoundFails, Done
  <1>2. k = room[p] \/ (k = Closed /\ op[p].kind = "commit")
    BY KeptIs
  <1> HIDE DEF k
  <1>3. room'[p] = k /\ \A q \in Pods \ {p} : room'[q] = room[q]
    BY <1>1 DEF TypeOK
  <1>4. OpCalm(p) /\ \A q \in Pods \ {p} : op'[q] = op[q]
    BY <1>1, StartCalm, DoneAt, IdleCalm
  <1>5. op[p].kind = "commit" => op'[p] = Idle
    BY <1>1, DoneAt
  <1>6. InUse(op[p], room[p])
    BY <1>1, BusyUse
  <1>7. RoomCalm(p)
    BY <1>2, <1>3, <1>5, <1>6 DEF RoomCalm
  <1> QED  BY <1>3, <1>4, <1>7 DEF Calm, Still

\* The room changes behind its operation's back.
LEMMA MildCalm ==
  ASSUME TypeOK, NEW p \in Pods, NEW r, room' = [room EXCEPT ![p] = r], op' = op,
         r.open = room[p].open, r.adm = room[p].adm, room[p].doc \subseteq r.doc,
         r.doc \cap Seeds = room[p].doc \cap Seeds, r.live \subseteq room[p].live
  PROVE  Calm
  <1>1. room'[p] = r /\ \A q \in Pods \ {p} : room'[q] = room[q]
    BY DEF TypeOK
  <1>2. InUse(op'[p], room'[p]) => InUse(op[p], room[p])
    BY <1>1 DEF InUse
  <1>3. RoomCalm(p) /\ OpCalm(p)
    BY <1>1, <1>2, StillCalm DEF RoomCalm
  <1> QED  BY <1>1, <1>3 DEF Calm, Still

LEMMA ApplyCalm ==
  ASSUME TypeOK, NEW w \in Writers, Apply(w)
  PROVE  Calm
  <1> DEFINE p == home[w]
             r == Edited(room[p], w)
  <1>1. p \in Pods /\ room' = [room EXCEPT ![p] = r] /\ op' = op
    BY DEF TypeOK, Sockets, Apply, Accept
  <1>2. /\ r.open = room[p].open /\ r.adm = room[p].adm /\ r.doc = room[p].doc \cup {w}
        /\ r.live = room[p].live
    BY <1>1, OpOf, EditedIs
  <1>3. r.doc \cap Seeds = room[p].doc \cap Seeds
    BY <1>2, NoSeed
  <1> HIDE DEF p, r
  <1> QED  BY <1>1, <1>2, <1>3, MildCalm

LEMMA DropCalm ==
  ASSUME TypeOK, NEW w \in Writers, Drop(w)
  PROVE  Calm
  <1> DEFINE p == home[w]
             r == [room[p] EXCEPT !.writers = room[p].writers \ {w}]
  <1>1. p \in Pods /\ room[p] \in Rooms
    BY OpOf DEF TypeOK, Sockets
  <1>2. op' = op /\ (room' = room \/ room' = [room EXCEPT ![p] = r])
    BY DEF Drop
  <1>3. room' = room => room' = [room EXCEPT ![p] = room[p]]
    BY <1>1 DEF TypeOK
  <1>4. r.open = room[p].open /\ r.adm = room[p].adm /\ r.doc = room[p].doc /\ r.live = room[p].live
    BY <1>1 DEF Rooms
  <1> HIDE DEF p, r
  <1> QED  BY <1>1, <1>2, <1>3, <1>4, MildCalm

LEMMA LeaveCalm ==
  ASSUME TypeOK, NEW c \in Sockets, Leave(c)
  PROVE  Calm
  <1> DEFINE p == home[c]
             r == [room[p] EXCEPT !.live = room[p].live \ {c}, !.writers = room[p].writers \ {c}]
  <1>1. p \in Pods /\ room[p] \in Rooms /\ op' = op /\ room' = [room EXCEPT ![p] = r]
    BY OpOf DEF TypeOK, Leave
  <1>2. /\ r.open = room[p].open /\ r.adm = room[p].adm /\ r.doc = room[p].doc
        /\ r.live \subseteq room[p].live
    BY <1>1 DEF Rooms
  <1> HIDE DEF p, r
  <1> QED  BY <1>1, <1>2, MildCalm

LEMMA DemoteCalm ==
  ASSUME TypeOK, NEW w \in Writers, Demote(w)
  PROVE  Calm
  <1> DEFINE p == home[w]
             r == [room[p] EXCEPT !.writers = room[p].writers \ {w}]
  <1>1. p \in Pods /\ room[p] \in Rooms /\ op' = op /\ room' = [room EXCEPT ![p] = r]
    BY OpOf DEF TypeOK, Sockets, Demote
  <1>2. r.open = room[p].open /\ r.adm = room[p].adm /\ r.doc = room[p].doc /\ r.live = room[p].live
    BY <1>1 DEF Rooms
  <1> HIDE DEF p, r
  <1> QED  BY <1>1, <1>2, MildCalm

LEMMA PersistCalm ==
  ASSUME TypeOK, AdmInv, DocsInv, NEW p \in Pods, Persist(p)
  PROVE  Calm /\ SameSeed(store'.doc, store.doc) /\ store.doc \subseteq store'.doc
              /\ store'.body = Text(store'.doc)
  <1>1. Persisted(p) /\ op' = op /\ room[p].adm # 0
    BY ShapeAt DEF Persist
  <1>2. SameSeed(room[p].doc, store.doc)
    BY <1>1, RealDoc
  <1>3. /\ room'[p].open = room[p].open /\ room'[p].adm = room[p].adm
        /\ room'[p].doc = room[p].doc \cup store.doc /\ room'[p].live = room[p].live
        /\ \A q \in Pods \ {p} : room'[q] = room[q]
        /\ store'.doc = room[p].doc \cup store.doc /\ store'.body = Text(store'.doc)
    BY <1>1, PersistedIs
  <1>4. store'.doc \cap Seeds = store.doc \cap Seeds /\ room'[p].doc \cap Seeds = room[p].doc \cap Seeds
    BY <1>2, <1>3 DEF SameSeed
  <1>5. RoomCalm(p) /\ OpCalm(p)
    BY <1>1, <1>3, <1>4, StillCalm DEF RoomCalm, InUse
  <1> QED  BY <1>1, <1>2, <1>3, <1>4, <1>5 DEF Calm, Still, SameSeed

LEMMA StartRetireCalm ==
  ASSUME TypeOK, AdmInv, NEW p \in Pods, StartRetire(p)
  PROVE  Calm
  <1>1. room' = room
    BY DEF StartRetire
  <1>2. CASE op' = op
    BY <1>1, <1>2 DEF Calm, Still
  <1>3. CASE room[p].open /\ room[p].adm # 0 /\ op' = [op EXCEPT ![p] = Start("retire", "flush")]
    <2>1. OpCalm(p) /\ \A q \in Pods \ {p} : op'[q] = op[q]
      BY <1>3, StartCalm
    <2>2. RoomCalm(p)
      BY <1>1, <1>3 DEF RoomCalm, InUse
    <2> QED  BY <1>1, <2>1, <2>2 DEF Calm, Still
  <1> QED  BY <1>2, <1>3 DEF StartRetire

\* Between operations, a room that owns nothing is closed, or one that owns an
\* admission begins its retirement.
LEMMA ShutCalm ==
  ASSUME TypeOK, AdmInv, NEW p \in Pods, op[p].kind = "idle",
         \/ op' = op /\ room' = [room EXCEPT ![p] = Closed]
         \/ /\ room[p].adm # 0 /\ room[p].open
            /\ \E k \in {"drop", "close"} : op' = [op EXCEPT ![p] = Start(k, "flush")]
            /\ \/ room' = room
               \/ room' = [room EXCEPT ![p] = [room[p] EXCEPT !.live = {}, !.writers = {}]]
  PROVE  Calm
  <1>1. room[p] \in Rooms /\ op[p] = Idle
    BY ShapeAt DEF OpShape
  <1>2. CASE op' = op /\ room' = [room EXCEPT ![p] = Closed]
    <2>1. room'[p] = Closed /\ op'[p] = Idle /\ \A q \in Pods \ {p} : room'[q] = room[q]
      BY <1>1, <1>2 DEF TypeOK
    <2>2. OpCalm(p)
      BY <1>2, StillCalm
    <2> QED  BY <1>2, <2>1, <2>2 DEF Calm, Still, RoomCalm
  <1>3. CASE /\ room[p].adm # 0 /\ room[p].open
             /\ \E k \in {"drop", "close"} : op' = [op EXCEPT ![p] = Start(k, "flush")]
             /\ \/ room' = room
                \/ room' = [room EXCEPT ![p] = [room[p] EXCEPT !.live = {}, !.writers = {}]]
    <2>1. OpCalm(p) /\ \A q \in Pods \ {p} : op'[q] = op[q]
      BY <1>3, StartCalm
    <2>2. /\ room'[p].open = room[p].open /\ room'[p].adm = room[p].adm /\ room'[p].doc = room[p].doc
          /\ \A q \in Pods \ {p} : room'[q] = room[q]
      <3> DEFINE r == [room[p] EXCEPT !.live = {}, !.writers = {}]
      <3>1. r.open = room[p].open /\ r.adm = room[p].adm /\ r.doc = room[p].doc
        BY <1>1 DEF Rooms
      <3>2. room' = room \/ room' = [room EXCEPT ![p] = r]
        BY <1>3
      <3> HIDE DEF r
      <3> QED  BY <3>1, <3>2 DEF TypeOK
    <2>3. RoomCalm(p)
      BY <1>3, <2>2 DEF RoomCalm, InUse
    <2> QED  BY <2>1, <2>2, <2>3 DEF Calm, Still
  <1> QED  BY <1>2, <1>3

LEMMA StartDropCalm ==
  ASSUME TypeOK, AdmInv, NEW p \in Pods, StartDrop(p)
  PROVE  Calm
  BY ShutCalm DEF StartDrop

LEMMA StartCloseCalm ==
  ASSUME TypeOK, AdmInv, NEW p \in Pods, StartClose(p)
  PROVE  Calm
  BY ShutCalm DEF StartClose

\* A retirement ends.
LEMMA EndCalm ==
  ASSUME TypeOK, AdmInv, NEW p \in Pods, op[p].step \in {"flush", "release"}, Done(p),
         NEW a \in {0, room[p].adm}, room' = [room EXCEPT ![p] = Ended(p, a)]
  PROVE  Calm
  <1> DEFINE r == Ended(p, a)
  <1>1. \/ r = Closed
        \/ r.open = room[p].open /\ r.adm = a /\ r.doc = room[p].doc
    BY EndedIs
  <1>2. room' = [room EXCEPT ![p] = r]
    OBVIOUS
  <1> HIDE DEF r
  <1>3. room'[p] = r /\ \A q \in Pods \ {p} : room'[q] = room[q]
    BY <1>2 DEF TypeOK
  <1>4. op'[p] = Idle /\ OpCalm(p) /\ \A q \in Pods \ {p} : op'[q] = op[q]
    BY DoneAt, IdleCalm
  <1>5. InUse(op[p], room[p])
    BY BusyUse
  <1>6. RoomCalm(p)
    BY <1>1, <1>3, <1>4, <1>5 DEF RoomCalm
  <1> QED  BY <1>3, <1>4, <1>6 DEF Calm, Still

LEMMA EndsCalm ==
  ASSUME TypeOK, AdmInv, NEW p \in Pods, FlushFails(p) \/ Release(p) \/ ReleaseFails(p)
  PROVE  Calm
  BY EndCalm DEF FlushFails, Release, ReleaseFails

LEMMA CrashCalm ==
  ASSUME TypeOK, NEW p \in Pods, Crash(p)
  PROVE  Calm
  <1>1. room' = [room EXCEPT ![p] = Closed] /\ Done(p)
    BY DEF Crash
  <1>2. room'[p] = Closed /\ \A q \in Pods \ {p} : room'[q] = room[q]
    BY <1>1 DEF TypeOK
  <1>3. op'[p] = Idle /\ OpCalm(p) /\ \A q \in Pods \ {p} : op'[q] = op[q]
    BY <1>1, DoneAt, IdleCalm
  <1> QED  BY <1>2, <1>3 DEF Calm, Still, RoomCalm

LEMMA AsideCalm ==
  ASSUME room' = room, op' = op
  PROVE  Calm
  BY DEF Calm, Still

LEMMA CalmOf ==
  ASSUME Calm, NEW p \in Pods
  PROVE  RoomCalm(p) /\ OpCalm(p)
  <1>1. CASE Still(p)
    BY <1>1 DEF Still, RoomCalm, OpCalm
  <1> QED  BY <1>1 DEF Calm

-----------------------------------------------------------------------------
(* The document invariant, step by step *)

\* The stored document keeps its identity.
Fits(d, e) == d # {} => SameSeed(e, d) /\ e # {}

LEMMA FitsDoc ==
  ASSUME NEW o, NEW r, NEW d, NEW e, RoomDoc(o, r, d), Fits(d, e)
  PROVE  RoomDoc(o, r, e)
  BY DEF RoomDoc, Fits, SameSeed

\* Pods that act keep what RoomDoc says of them.
LEMMA ActsDocs ==
  ASSUME TypeOK, DocsInv, Fits(store.doc, store'.doc), StoreInv',
         \A p \in Pods : Still(p) \/ RoomDoc(op'[p], room'[p], store'.doc),
         snap' = snap
  PROVE  DocsInv'
  <1>1. \A p \in Pods : RoomDoc(op'[p], room'[p], store'.doc)
    BY FitsDoc DEF DocsInv, Still
  <1> QED  BY <1>1 DEF DocsInv

LEMMA CalmDoc ==
  ASSUME TypeOK, DocsInv, NEW p \in Pods, RoomCalm(p), OpCalm(p)
  PROVE  RoomDoc(op'[p], room'[p], store.doc)
  <1>1. RoomDoc(op[p], room[p], store.doc)
    BY DEF DocsInv
  <1>2. \A u \in op'[p].dumps : SameSeed(u.doc, store.doc)
    BY <1>1 DEF RoomDoc, OpCalm
  <1>3. CASE room'[p] = Closed /\ op'[p] = Idle
    BY <1>2, <1>3, ClosedIs DEF RoomDoc, InUse
  <1>4. CASE /\ room'[p].open = room[p].open
             /\ room[p].doc \subseteq room'[p].doc
             /\ room'[p].doc \cap Seeds = room[p].doc \cap Seeds
             /\ InUse(op'[p], room'[p]) => InUse(op[p], room[p])
    <2>1. room'[p].open => One(room'[p].doc)
      BY <1>1, <1>4 DEF RoomDoc, One
    <2>2. InUse(op'[p], room'[p]) => 0 \in room'[p].doc \/ SameSeed(room'[p].doc, store.doc)
      BY <1>1, <1>4 DEF RoomDoc, SameSeed
    <2> QED  BY <1>2, <2>1, <2>2 DEF RoomDoc
  <1> QED  BY <1>3, <1>4 DEF RoomCalm

LEMMA CalmDocs ==
  ASSUME TypeOK, DocsInv, Calm, Fits(store.doc, store'.doc), StoreInv',
         snap'.got \cap Seeds = {} \/ One(snap'.got)
  PROVE  DocsInv'
  <1>1. \A p \in Pods : RoomDoc(op'[p], room'[p], store'.doc)
    BY CalmOf, CalmDoc, FitsDoc
  <1> QED  BY <1>1 DEF DocsInv

\* A calm step that leaves the database and the last Save alone.
LEMMA RestDocs ==
  ASSUME TypeOK, DocsInv, Calm, store' = store, deleting' = deleting, snap' = snap
  PROVE  DocsInv'
  <1>1. Fits(store.doc, store'.doc) /\ StoreInv' /\ (snap'.got \cap Seeds = {} \/ One(snap'.got))
    BY DEF Fits, SameSeed, DocsInv, StoreInv
  <1> QED  BY <1>1, CalmDocs

LEMMA OpenedDoc ==
  ASSUME TypeOK, DocsInv, NEW p \in Pods
  PROVE  /\ One(Opened(p).doc)
         /\ 0 \in Opened(p).doc \/ SameSeed(Opened(p).doc, store.doc)
  <1>1. RoomDoc(op[p], room[p], store.doc)
    BY DEF DocsInv
  <1>2. CASE Opened(p) = room[p] /\ room[p].open /\ (room[p].live # {} \/ room[p].adm # 0)
    BY <1>1, <1>2 DEF RoomDoc, InUse
  <1>3. CASE Opened(p) = Loaded
    <2>1. CASE store.doc # {}
      <3>1. Opened(p).doc = store.doc /\ One(store.doc)
        BY <1>3, <2>1, LoadedIs DEF DocsInv, StoreInv
      <3> QED  BY <2>1, <3>1 DEF SameSeed
    <2>2. CASE store.doc = {}
      <3>1. Opened(p).doc = {0} \cup store.body
        BY <1>3, <2>2, LoadedIs
      <3>2. store.body \subseteq Writers \cup Authors
        BY DEF TypeOK
      <3>3. ({0} \cup store.body) \cap Seeds = {0} /\ 0 \in Seeds
        BY <3>2, NoSeed
      <3> QED  BY <3>1, <3>3 DEF One
    <2> QED  BY <2>1, <2>2
  <1> QED  BY <1>2, <1>3, OpenedIs

LEMMA StartJoinDocs ==
  ASSUME TypeOK, DocsInv, NEW c \in Sockets, StartJoin(c)
  PROVE  DocsInv'
  <1> DEFINE p == home[c]
             s == First(c, Opened(p))
             cs == {c}
  <1>1. p \in Pods /\ s \in Steps /\ cs \in SUBSET Sockets
    BY DEF TypeOK, First, Steps
  <1>2. op' = [op EXCEPT ![p] = [Start("join", s) EXCEPT !.conns = cs]]
    BY DEF StartJoin
  <1>3. /\ room' = [room EXCEPT ![p] = Opened(p)]
        /\ store' = store /\ snap' = snap /\ deleting' = deleting
    BY DEF StartJoin
  <1> HIDE DEF p, s, cs
  <1>4. /\ OpTypes'
        /\ op'[p].kind = "join" /\ op'[p].step = s /\ op'[p].conns = cs
        /\ op'[p].dumps = {} /\ op'[p].tries = 0 /\ op'[p].must = {}
        /\ \A q \in Pods \ {p} : op'[q] = op[q]
    BY <1>1, <1>2, JoinAt, Zenon
  <1>5. room'[p] = Opened(p) /\ \A q \in Pods \ {p} : room'[q] = room[q]
    BY <1>1, <1>3 DEF TypeOK
  <1>6. RoomDoc(op'[p], room'[p], store'.doc)
    BY <1>1, <1>3, <1>4, <1>5, OpenedDoc DEF RoomDoc
  <1>7. Fits(store.doc, store'.doc) /\ StoreInv'
    BY <1>3 DEF Fits, SameSeed, DocsInv, StoreInv
  <1> QED  BY <1>3, <1>4, <1>5, <1>6, <1>7, ActsDocs DEF Still

LEMMA StartCommitDocs ==
  ASSUME TypeOK, DocsInv, NEW p \in Pods, StartCommit(p)
  PROVE  DocsInv'
  <1>1. /\ op' = [op EXCEPT ![p] = [Start("commit", "owners") EXCEPT !.must = owed]]
        /\ owed \in SUBSET (Writers \cup Authors)
    BY DEF StartCommit, TypeOK
  <1>2. /\ room' = [room EXCEPT ![p] = Opened(p)]
        /\ store' = store /\ snap' = snap /\ deleting' = deleting
    BY DEF StartCommit
  <1>3. op'[p].dumps = {} /\ \A q \in Pods \ {p} : op'[q] = op[q]
    BY <1>1, SaveAt
  <1>4. room'[p] = Opened(p) /\ \A q \in Pods \ {p} : room'[q] = room[q]
    BY <1>2 DEF TypeOK
  <1>5. RoomDoc(op'[p], room'[p], store'.doc)
    BY <1>2, <1>3, <1>4, OpenedDoc DEF RoomDoc
  <1>6. Fits(store.doc, store'.doc) /\ StoreInv'
    BY <1>2 DEF Fits, SameSeed, DocsInv, StoreInv
  <1> QED  BY <1>2, <1>3, <1>4, <1>5, <1>6, ActsDocs DEF Still

LEMMA AdmitDocs ==
  ASSUME TypeOK, AdmInv, DocsInv, NEW p \in Pods, Admit(p)
  PROVE  DocsInv'
  <1> DEFINE a == issued + 1
             r == Owning(room[p], a)
  <1>1. a \in Admissions
    BY BoundsAssumption DEF Admit, TypeOK, Admissions
  <1>2. \/ room' = room /\ op' = [op EXCEPT ![p] = [op[p] EXCEPT !.step = "init", !.acquired = a]]
        \/ room' = [room EXCEPT ![p] = r] /\ Goto(p, "owners")
    BY DEF Admit
  <1>3. r.open = room[p].open /\ r.doc = room[p].doc
    BY OpOf, OwningIs
  <1>4. InUse(op[p], room[p])
    BY BusyUse DEF Admit
  <1> HIDE DEF a, r
  <1>5. op'[p].dumps = op[p].dumps /\ \A q \in Pods \ {p} : op'[q] = op[q]
    BY <1>1, <1>2, AdmitAt, GotoAt DEF Onward, Steps
  <1>6. /\ room'[p].open = room[p].open /\ room'[p].doc = room[p].doc
        /\ \A q \in Pods \ {p} : room'[q] = room[q]
    BY <1>2, <1>3 DEF TypeOK
  <1>7. store' = store /\ snap' = snap /\ deleting' = deleting
    BY DEF Admit
  <1>8. RoomDoc(op'[p], room'[p], store'.doc)
    <2>1. RoomDoc(op[p], room[p], store.doc)
      BY DEF DocsInv
    <2> QED  BY <1>4, <1>5, <1>6, <1>7, <2>1 DEF RoomDoc
  <1>9. Fits(store.doc, store'.doc) /\ StoreInv'
    BY <1>7 DEF Fits, SameSeed, DocsInv, StoreInv
  <1> QED  BY <1>5, <1>6, <1>7, <1>8, <1>9, ActsDocs DEF Still

\* A conversion finds a seed that is left.
LEMMA SeedLeft ==
  ASSUME TypeInv, NEW p \in Pods, op[p].step = "init"
  PROVE  seeds + 1 \in Seeds
  <1>1. p \in Initing /\ IsFiniteSet(Initing)
    BY PodsAssumption, FS_Subset DEF Initing
  <1>2. Cardinality(Initing) \in Nat /\ Cardinality(Initing) # 0
    BY <1>1, FS_CardinalityType, FS_EmptySet
  <1>3. seeds \in Nat /\ issued \in 0..MaxAdmissions
    BY BoundsAssumption DEF TypeInv, TypeOK
  <1> QED  BY <1>2, <1>3, BoundsAssumption DEF TypeInv, SeedBudget, Seeds

\* The conversion of the body stands for the same text.
LEMMA ConvertDocs ==
  ASSUME TypeInv, DocsInv, NEW p \in Pods, op[p].step = "init", Convert, deleting' = deleting
  PROVE  /\ store'.doc = Stored /\ One(Stored) /\ Stored # {}
         /\ Fits(store.doc, Stored) /\ StoreInv' /\ store'.body = store.body
         /\ store.doc = {} => Text(store'.doc) = store.body
  <1>1. store'.doc = Stored /\ store'.body = store.body
    BY DEF Convert, TypeInv, TypeOK
  <1>2. CASE store.doc # {}
    <2>1. Stored = store.doc
      BY <1>2 DEF Stored
    <2> QED  BY <1>1, <1>2, <2>1 DEF Fits, SameSeed, DocsInv, StoreInv
  <1>3. CASE store.doc = {}
    <2>1. Stored = {seeds + 1} \cup store.body
      BY <1>3 DEF Stored
    <2>2. store.body \subseteq Writers \cup Authors /\ seeds + 1 \in Seeds
      BY SeedLeft DEF TypeInv, TypeOK
    <2>3. Stored \cap Seeds = {seeds + 1} /\ Text(Stored) = store.body
      BY <2>1, <2>2, NoSeed DEF Text
    <2>4. One(Stored) /\ Stored # {}
      BY <2>2, <2>3 DEF One
    <2> QED  BY <1>1, <1>3, <2>3, <2>4 DEF Fits, StoreInv
  <1> QED  BY <1>2, <1>3

LEMMA InitDocDocs ==
  ASSUME TypeInv, AdmInv, DocsInv, NEW p \in Pods, InitDoc(p)
  PROVE  DocsInv'
  <1> DEFINE s == Adopted(room[p], Stored)
             r == Owning(s, op[p].acquired)
  <1>0. TypeOK
    BY DEF TypeInv
  <1>1. /\ op[p].step = "init" /\ Convert /\ snap' = snap /\ deleting' = deleting
        /\ room' = [room EXCEPT ![p] = r] /\ Goto(p, "owners")
    BY DEF InitDoc
  <1>2. /\ store'.doc = Stored /\ One(Stored) /\ Stored # {}
        /\ Fits(store.doc, Stored) /\ StoreInv'
    BY <1>1, ConvertDocs
  <1>3. RoomDoc(op[p], room[p], Stored)
    BY <1>2, FitsDoc DEF DocsInv
  <1>4. SameSeed(s.doc, Stored) /\ One(s.doc)
    <2>1. 0 \in room[p].doc \/ SameSeed(room[p].doc, Stored)
      BY <1>0, <1>1, <1>3, BusyUse DEF RoomDoc
    <2>2. SameSeed(Stored, Stored) /\ room[p] \in Rooms
      BY <1>0, <1>2, OpOf DEF SameSeed
    <2> QED  BY <1>2, <2>1, <2>2, AdoptsSame
  <1>5. r.doc = s.doc
    <2>1. Stored \in Docs /\ room[p] \in Rooms
      <3>1. seeds + 1 \in Seeds /\ store.doc \in Docs /\ store.body \subseteq Writers \cup Authors
        BY <1>0, <1>1, SeedLeft DEF TypeOK
      <3>2. {seeds + 1} \cup store.body \in Docs
        BY <3>1 DEF Docs
      <3>3. Stored = store.doc \/ Stored = {seeds + 1} \cup store.body
        BY DEF Stored
      <3> QED  BY <1>0, <3>1, <3>2, <3>3, OpOf
    <2>2. s \in Rooms
      BY <2>1, AdoptedTyped
    <2> HIDE DEF s
    <2> QED  BY <2>2, OwningIs
  <1> HIDE DEF r, s
  <1>6. room'[p] = r /\ \A q \in Pods \ {p} : room'[q] = room[q]
    BY <1>0, <1>1 DEF TypeOK
  <1>7. op'[p].dumps = op[p].dumps /\ \A q \in Pods \ {p} : op'[q] = op[q]
    BY <1>0, <1>1, GotoAt DEF Onward, Steps
  <1>8. RoomDoc(op'[p], room'[p], store'.doc)
    BY <1>2, <1>3, <1>4, <1>5, <1>6, <1>7 DEF RoomDoc
  <1> QED  BY <1>0, <1>1, <1>2, <1>6, <1>7, <1>8, ActsDocs DEF Still

LEMMA OwnersDocs ==
  ASSUME TypeOK, AdmInv, DocsInv, NEW p \in Pods, op[p].tries < MaxTries, Owners(p)
  PROVE  DocsInv'
  <1> DEFINE r == Adopted(room[p], store.doc)
  <1>1. /\ op[p].step = "owners" /\ store.doc # {}
        /\ store' = store /\ snap' = snap /\ deleting' = deleting /\ room' = [room EXCEPT ![p] = r]
    BY DEF Owners
  <1>2. SameSeed(r.doc, store.doc) /\ One(r.doc)
    <2>1. 0 \in room[p].doc \/ SameSeed(room[p].doc, store.doc)
      BY <1>1, BusyUse DEF DocsInv, RoomDoc
    <2>2. SameSeed(store.doc, store.doc) /\ One(store.doc) /\ room[p] \in Rooms
      BY <1>1, OpOf DEF SameSeed, DocsInv, StoreInv
    <2> QED  BY <2>1, <2>2, AdoptsSame
  <1> HIDE DEF r
  <1>3. room'[p] = r /\ \A q \in Pods \ {p} : room'[q] = room[q]
    BY <1>1 DEF TypeOK
  <1>4. op'[p].dumps = {} /\ \A q \in Pods \ {p} : op'[q] = op[q]
    BY OwnersAt
  <1>5. RoomDoc(op'[p], room'[p], store'.doc)
    BY <1>1, <1>2, <1>3, <1>4 DEF RoomDoc
  <1>6. Fits(store.doc, store'.doc) /\ StoreInv'
    BY <1>1 DEF Fits, SameSeed, DocsInv, StoreInv
  <1> QED  BY <1>1, <1>3, <1>4, <1>5, <1>6, ActsDocs DEF Still

\* A room that owns edits or waits for them adopts a document of its identity.
LEMMA RealAdopts ==
  ASSUME TypeOK, AdmInv, DocsInv, NEW p \in Pods, room[p].adm # 0 \/ op[p].step = "wait",
         NEW d, SameSeed(d, store.doc)
  PROVE  /\ Adopted(room[p], d).doc = room[p].doc \cup d
         /\ Adopted(room[p], d).doc \cap Seeds = room[p].doc \cap Seeds
         /\ SameSeed(Adopted(room[p], d).doc, store.doc)
         /\ Adopted(room[p], d).open = room[p].open /\ Adopted(room[p], d).adm = room[p].adm
         /\ Adopted(room[p], d).live = room[p].live
  <1>1. 0 \notin room[p].doc /\ SameSeed(room[p].doc, store.doc) /\ room[p] \in Rooms
    BY RealDoc, OpOf
  <1> QED  BY <1>1, AdoptedIs DEF SameSeed

LEMMA ReplyDumpDocs ==
  ASSUME TypeOK, AdmInv, DocsInv, NEW p \in Pods, NEW q \in Pods, ReplyDump(p, q)
  PROVE  DocsInv'
  <1> DEFINE r == Adopted(room[q], store.doc)
             D == op[p].dumps \cup {[adm |-> room[q].adm, doc |-> r.doc]}
  <1>1. /\ op[p].step = "wait" /\ room[q].adm \in held /\ store.doc # {}
        /\ store' = store /\ snap' = snap /\ deleting' = deleting /\ room' = [room EXCEPT ![q] = r]
    BY DEF ReplyDump
  <1>2. room[q].adm # 0 /\ SameSeed(store.doc, store.doc)
    BY <1>1, ShapeAt DEF SameSeed
  <1>3. /\ r.doc \cap Seeds = room[q].doc \cap Seeds /\ SameSeed(r.doc, store.doc)
        /\ r.open = room[q].open /\ r.adm = room[q].adm /\ r.live = room[q].live
    BY <1>2, RealAdopts
  <1>4. D \in SUBSET Dumps
    <2>1. room[q].adm \in Admissions /\ store.doc \in Docs
      BY <1>1 DEF TypeOK
    <2>2. r \in Rooms
      BY <2>1, OpOf, AdoptedTyped
    <2>3. [adm |-> room[q].adm, doc |-> r.doc] \in Dumps
      BY <2>1, <2>2 DEF Dumps, Rooms
    <2> QED  BY <2>3, OpOf DEF Typed, Operations
  <1>5. \A u \in D : SameSeed(u.doc, store.doc)
    BY <1>3 DEF DocsInv, RoomDoc
  <1>6. op' = [op EXCEPT ![p] = [op[p] EXCEPT !.dumps = D]]
    BY DEF ReplyDump
  <1> HIDE DEF r, D
  <1>7. /\ op'[p].kind = op[p].kind /\ op'[p].dumps = D /\ \A k \in Pods \ {p} : op'[k] = op[k]
    BY <1>4, <1>6, DumpsAt
  <1>8. room'[q] = r /\ \A k \in Pods \ {q} : room'[k] = room[k]
    BY <1>1 DEF TypeOK
  <1>9. ASSUME NEW k \in Pods
        PROVE  RoomDoc(op'[k], room'[k], store.doc)
    <2>1. RoomDoc(op[k], room[k], store.doc)
      BY DEF DocsInv
    <2>2. \A u \in op'[k].dumps : SameSeed(u.doc, store.doc)
      BY <1>5, <1>7, <2>1 DEF RoomDoc
    <2>3. InUse(op'[k], room'[k]) <=> InUse(op[k], room[k])
      BY <1>3, <1>7, <1>8 DEF InUse
    <2>4. room'[k].open = room[k].open /\ room'[k].doc \cap Seeds = room[k].doc \cap Seeds
      BY <1>3, <1>8
    <2>5. room'[k].open => One(room'[k].doc)
      BY <2>1, <2>4 DEF RoomDoc, One
    <2>6. 0 \in room[k].doc <=> 0 \in room'[k].doc
      BY <2>4, NoSeed
    <2> QED  BY <2>1, <2>2, <2>3, <2>4, <2>5, <2>6 DEF RoomDoc, SameSeed
  <1>10. Fits(store.doc, store'.doc) /\ StoreInv'
    BY <1>1 DEF Fits, SameSeed, DocsInv, StoreInv
  <1> QED  BY <1>1, <1>9, <1>10, ActsDocs

LEMMA TakeDumpDocs ==
  ASSUME TypeOK, AdmInv, DocsInv, NEW p \in Pods, TakeDump(p)
  PROVE  DocsInv'
  <1>1. PICK d \in op[p].dumps :
          /\ op[p].step = "wait"
          /\ room' = [room EXCEPT ![p] = Armed(Adopted(room[p], d.doc), room[p].doc)]
          /\ op' = [op EXCEPT ![p] = [op[p] EXCEPT !.waiting = op[p].waiting \ {d.adm}]]
          /\ store' = store /\ snap' = snap /\ deleting' = deleting
    BY DEF TakeDump
  <1> DEFINE a == Adopted(room[p], d.doc)
             r == Armed(a, room[p].doc)
             W == op[p].waiting \ {d.adm}
  <1>2. RoomDoc(op[p], room[p], store.doc) /\ SameSeed(d.doc, store.doc)
    BY DEF DocsInv, RoomDoc
  <1>3. SameSeed(r.doc, store.doc) /\ r.doc \cap Seeds = room[p].doc \cap Seeds /\ r.open = room[p].open
    <2>1. SameSeed(a.doc, store.doc) /\ a.doc \cap Seeds = room[p].doc \cap Seeds /\ a.open = room[p].open
      BY <1>1, <1>2, RealAdopts
    <2>2. r.doc = a.doc /\ r.open = a.open
      BY OpOf, ArmedLike
    <2> QED  BY <2>1, <2>2
  <1>4. room' = [room EXCEPT ![p] = r] /\ W \in SUBSET op[p].waiting
    BY <1>1
  <1>5. op' = [op EXCEPT ![p] = [op[p] EXCEPT !.waiting = W]]
    BY <1>1
  <1> HIDE DEF a, r, W
  <1>6. op'[p].dumps = op[p].dumps /\ \A k \in Pods \ {p} : op'[k] = op[k]
    BY <1>4, <1>5, WaitingAt
  <1>7. room'[p] = r /\ \A k \in Pods \ {p} : room'[k] = room[k]
    BY <1>4 DEF TypeOK
  <1>8. RoomDoc(op'[p], room'[p], store'.doc)
    <2>1. r.open => One(r.doc)
      BY <1>2, <1>3 DEF RoomDoc, One
    <2> QED  BY <1>1, <1>2, <1>3, <1>6, <1>7, <2>1 DEF RoomDoc
  <1>9. Fits(store.doc, store'.doc) /\ StoreInv'
    BY <1>1 DEF Fits, SameSeed, DocsInv, StoreInv
  <1> QED  BY <1>1, <1>6, <1>7, <1>8, <1>9, ActsDocs DEF Still

LEMMA MergeDocs ==
  ASSUME TypeOK, DocsInv, NEW m \in bus, Merge(m)
  PROVE  DocsInv'
  <1> DEFINE q == m.to
             w == m.edit
             s == IF 0 \in room[q].doc THEN Adopted(room[q], store.doc) ELSE room[q]
             r == Edited(s, w)
  <1>1. q \in Pods /\ w \in Writers /\ store.doc \in Docs /\ room[q] \in Rooms
    BY OpOf DEF TypeOK
  <1>2. op' = op /\ store' = store /\ snap' = snap /\ deleting' = deleting
    BY DEF Merge
  <1>3. \/ room' = room
        \/ /\ 0 \in room[q].doc => store.doc # {}
           /\ room' = [room EXCEPT ![q] = r]
    BY DEF Merge
  <1>4. CASE room' = room
    BY <1>2, <1>4, AsideCalm, RestDocs
  <1>5. CASE 0 \notin room[q].doc /\ room' = [room EXCEPT ![q] = r]
    <2>1. /\ r.open = room[q].open /\ r.adm = room[q].adm /\ r.doc = room[q].doc \cup {w}
          /\ r.live = room[q].live
      BY <1>1, <1>5, EditedIs
    <2>2. r.doc \cap Seeds = room[q].doc \cap Seeds
      BY <1>1, <2>1, NoSeed
    <2>3. room' = [room EXCEPT ![q] = r] /\ q \in Pods
      BY <1>1, <1>5
    <2> HIDE DEF q, r
    <2> QED  BY <1>2, <2>1, <2>2, <2>3, MildCalm, RestDocs
  <1>6. CASE 0 \in room[q].doc /\ store.doc # {} /\ room' = [room EXCEPT ![q] = r]
    <2>1. s = Adopted(room[q], store.doc) /\ s \in Rooms
      BY <1>1, <1>6, AdoptedTyped
    <2>2. SameSeed(s.doc, store.doc) /\ One(s.doc)
      <3>1. SameSeed(store.doc, store.doc) /\ One(store.doc)
        BY <1>6 DEF SameSeed, DocsInv, StoreInv
      <3> QED  BY <1>1, <1>6, <2>1, <3>1, AdoptsSame
    <2> HIDE DEF s
    <2>3. r.doc = s.doc \cup {w}
      BY <2>1, EditedIs
    <2>4. r.doc \cap Seeds = s.doc \cap Seeds
      BY <1>1, <2>3, NoSeed
    <2>5. SameSeed(r.doc, store.doc) /\ One(r.doc)
      BY <2>2, <2>4 DEF SameSeed, One
    <2> HIDE DEF r
    <2>6. room'[q] = r /\ \A k \in Pods \ {q} : room'[k] = room[k]
      BY <1>1, <1>6 DEF TypeOK
    <2>7. RoomDoc(op'[q], room'[q], store'.doc)
      <3>1. RoomDoc(op[q], room[q], store.doc)
        BY <1>1 DEF DocsInv
      <3> QED  BY <1>2, <2>5, <2>6, <3>1 DEF RoomDoc
    <2>8. Fits(store.doc, store'.doc) /\ StoreInv'
      BY <1>2 DEF Fits, SameSeed, DocsInv, StoreInv
    <2> QED  BY <1>2, <2>6, <2>7, <2>8, ActsDocs DEF Still
  <1> QED  BY <1>3, <1>4, <1>5, <1>6

LEMMA SettleDocs ==
  ASSUME TypeOK, AdmInv, DocsInv, NEW p \in Pods, Settle(p)
  PROVE  DocsInv'
  <1> DEFINE r == Adopted(room[p], store.doc)
  <1>1. op[p].step = "wait" /\ store.doc # {} /\ store' = store /\ deleting' = deleting
    BY DEF Settle, Answered
  <1>2. snap' = snap \/ snap'.got = r.doc
    BY DEF Settle, Conclude, Confirmed, Again
  <1>3. One(r.doc)
    <2>1. SameSeed(store.doc, store.doc) /\ One(store.doc)
      BY <1>1 DEF SameSeed, DocsInv, StoreInv
    <2>2. SameSeed(r.doc, store.doc)
      BY <1>1, <2>1, RealAdopts
    <2> QED  BY <2>1, <2>2 DEF SameSeed, One
  <1>4. Calm
    BY SettleCalm
  <1>5. snap'.got \cap Seeds = {} \/ One(snap'.got)
    BY <1>2, <1>3 DEF DocsInv
  <1>6. Fits(store.doc, store'.doc) /\ StoreInv'
    BY <1>1 DEF Fits, SameSeed, DocsInv, StoreInv
  <1> QED  BY <1>4, <1>5, <1>6, CalmDocs

LEMMA InitFailsDocs ==
  ASSUME TypeInv, AdmInv, DocsInv, Hazards = {}, NEW p \in Pods, InitFails(p)
  PROVE  DocsInv'
  <1>0. TypeOK
    BY DEF TypeInv
  <1>1. /\ op[p].step = "init" /\ snap' = snap /\ deleting' = deleting
        /\ Convert \/ store' = store
    BY DEF InitFails
  <1>2. Calm
    BY <1>0, InitFailsCalm
  <1>3. CASE Convert
    BY <1>0, <1>1, <1>2, <1>3, ConvertDocs, CalmDocs DEF DocsInv
  <1>4. CASE store' = store
    BY <1>0, <1>1, <1>2, <1>4, RestDocs
  <1> QED  BY <1>1, <1>3, <1>4

\* A document that grows within its identity.
LEMMA GrowsStore ==
  ASSUME DocsInv, SameSeed(store'.doc, store.doc), store.doc \subseteq store'.doc
  PROVE  Fits(store.doc, store'.doc) /\ StoreInv'
  BY DEF SameSeed, Fits, DocsInv, StoreInv, One

LEMMA PersistDocs ==
  ASSUME TypeOK, AdmInv, DocsInv, NEW p \in Pods, Persist(p)
  PROVE  DocsInv'
  <1>1. snap' = snap
    BY DEF Persist
  <1> QED  BY <1>1, PersistCalm, GrowsStore, CalmDocs DEF DocsInv

\* What a flush leaves.
LEMMA FlushIs ==
  ASSUME TypeOK, AdmInv, DocsInv, NEW p \in Pods, Flush(p)
  PROVE  /\ SameSeed(store'.doc, store.doc) /\ store.doc \subseteq store'.doc
         /\ room[p].doc \subseteq store'.doc /\ store'.body = Text(store'.doc)
         /\ RoomCalm(p) /\ room'[p].adm = room[p].adm /\ room[p].adm # 0
         /\ room[p].doc \subseteq room'[p].doc
         /\ Onward(op[p], op'[p], "release") /\ \A q \in Pods \ {p} : Still(q)
         /\ op[p].kind \in {"retire", "drop", "close"}
  <1>1. op[p].step = "flush" /\ Goto(p, "release")
    BY DEF Flush
  <1>2. /\ RoomShape(room[p], held) /\ room[p].adm # 0 /\ op[p].kind \in {"retire", "drop", "close"}
    BY <1>1, ShapeAt, KindOf
  <1>3. Persisted(p) /\ SameSeed(room[p].doc, store.doc)
    BY <1>2, RealDoc DEF Flush, RoomShape
  <1>4. /\ room'[p].open = room[p].open /\ room'[p].adm = room[p].adm
        /\ room'[p].doc = room[p].doc \cup store.doc
        /\ \A q \in Pods \ {p} : room'[q] = room[q]
        /\ store'.doc = room[p].doc \cup store.doc /\ store'.body = Text(store'.doc)
    BY <1>3, PersistedIs
  <1>5. store'.doc \cap Seeds = store.doc \cap Seeds /\ room'[p].doc \cap Seeds = room[p].doc \cap Seeds
    BY <1>3, <1>4 DEF SameSeed
  <1>6. InUse(op[p], room[p])
    BY <1>1, BusyUse
  <1>7. RoomCalm(p)
    BY <1>4, <1>5, <1>6 DEF RoomCalm
  <1>8. Onward(op[p], op'[p], "release") /\ \A q \in Pods \ {p} : op'[q] = op[q]
    BY <1>1, GotoAt DEF Steps
  <1> QED  BY <1>2, <1>3, <1>4, <1>5, <1>7, <1>8 DEF SameSeed, Still

LEMMA FlushDocs ==
  ASSUME TypeOK, AdmInv, DocsInv, NEW p \in Pods, Flush(p)
  PROVE  DocsInv'
  <1>1. snap' = snap
    BY DEF Flush
  <1>2. Fits(store.doc, store'.doc) /\ StoreInv'
    BY FlushIs, GrowsStore
  <1>3. op'[p].dumps = op[p].dumps /\ RoomCalm(p) /\ \A q \in Pods \ {p} : Still(q)
    BY FlushIs DEF Onward
  <1>4. RoomDoc(op'[p], room'[p], store.doc)
    <2>1. RoomDoc(op[p], room[p], store.doc)
      BY DEF DocsInv
    <2>2. CASE room'[p] = Closed
      BY <1>3, <2>1, <2>2, ClosedIs DEF RoomDoc, InUse
    <2>3. CASE /\ room'[p].open = room[p].open
               /\ room[p].doc \subseteq room'[p].doc
               /\ room'[p].doc \cap Seeds = room[p].doc \cap Seeds
               /\ InUse(op'[p], room'[p]) => InUse(op[p], room[p])
      <3>1. room'[p].open => One(room'[p].doc)
        BY <2>1, <2>3 DEF RoomDoc, One
      <3>2. InUse(op'[p], room'[p]) => 0 \in room'[p].doc \/ SameSeed(room'[p].doc, store.doc)
        BY <2>1, <2>3 DEF RoomDoc, SameSeed
      <3> QED  BY <1>3, <2>1, <3>1, <3>2 DEF RoomDoc
    <2> QED  BY <1>3, <2>2, <2>3 DEF RoomCalm
  <1>5. RoomDoc(op'[p], room'[p], store'.doc)
    BY <1>2, <1>4, FitsDoc
  <1> QED  BY <1>1, <1>2, <1>3, <1>5, ActsDocs

LEMMA AuthorDocs ==
  ASSUME TypeOK, DocsInv, NEW u \in Authors, Author(u)
  PROVE  DocsInv'
  <1>1. /\ room' = room /\ op' = op /\ snap' = snap /\ deleting' /\ store'.doc = store.doc
    BY DEF Author, TypeOK
  <1>2. Fits(store.doc, store'.doc) /\ StoreInv'
    BY <1>1 DEF Fits, SameSeed, DocsInv, StoreInv
  <1> QED  BY <1>1, <1>2, AsideCalm, CalmDocs DEF DocsInv

LEMMA DeleteDocs ==
  ASSUME TypeOK, Quiet, AdmInv, DocsInv, Delete
  PROVE  DocsInv'
  <1>1. /\ room' = room /\ op' = op /\ snap' = snap /\ deleting /\ store'.doc = {}
    BY DEF Delete, TypeOK
  <1>2. ASSUME NEW p \in Pods
        PROVE  RoomDoc(op[p], room[p], {})
    <2>1. op[p] = Idle /\ room[p].live = {} /\ room[p].adm = 0
      BY <1>1, ShapeAt DEF Quiet, RoomShape
    <2>2. RoomDoc(op[p], room[p], store.doc)
      BY DEF DocsInv
    <2>3. op[p].dumps = {}
      BY <2>1 DEF Idle
    <2> QED  BY <2>1, <2>2, <2>3, IdleTyped DEF RoomDoc, InUse
  <1> QED  BY <1>1, <1>2 DEF DocsInv, StoreInv

\* A Save writes a body, not a document.
LEMMA SaveEndsDocs ==
  ASSUME TypeOK, DocsInv, NEW s \in pending, SaveBody(s) \/ SaveFails(s)
  PROVE  DocsInv'
  <1>1. /\ room' = room /\ op' = op /\ snap' = snap /\ store'.doc = store.doc
    BY DEF SaveBody, SaveFails, TypeOK
  <1>2. Fits(store.doc, store'.doc) /\ StoreInv'
    BY <1>1 DEF Fits, SameSeed, DocsInv, StoreInv
  <1> QED  BY <1>1, <1>2, AsideCalm, CalmDocs DEF DocsInv

LEMMA InitDocs ==
  ASSUME Init
  PROVE  DocsInv
  <1>1. \A p \in Pods : RoomDoc(op[p], room[p], store.doc)
    BY ClosedIs DEF Init, RoomDoc, InUse, Idle
  <1> QED  BY <1>1 DEF Init, DocsInv, StoreInv

LEMMA NextDocs ==
  ASSUME TypeInv, AdmInv, Quiet, DocsInv, Hazards = {}, [Next]_vars
  PROVE  DocsInv'
  <1>0. TypeOK
    BY DEF TypeInv
  <1>1. CASE \E c \in Sockets : StartJoin(c) \/ Leave(c)
    <2>1. CASE \E c \in Sockets : Leave(c)
      BY <1>0, <2>1, LeaveCalm, RestDocs DEF Leave
    <2> QED  BY <1>0, <1>1, <2>1, StartJoinDocs
  <1>2. CASE \E w \in Writers : Receive(w) \/ Apply(w) \/ Drop(w) \/ Demote(w)
    <2>1. PICK w \in Writers : Receive(w) \/ Apply(w) \/ Drop(w) \/ Demote(w)
      BY <1>2
    <2>2. Calm
      BY <1>0, <2>1, ApplyCalm, DropCalm, DemoteCalm, AsideCalm DEF Receive
    <2>3. store' = store /\ snap' = snap /\ deleting' = deleting
      BY <2>1 DEF Receive, Apply, Drop, Demote
    <2> QED  BY <1>0, <2>2, <2>3, RestDocs
  <1>3. CASE \E m \in bus : Merge(m)
    BY <1>0, <1>3, MergeDocs
  <1>4. CASE (\E u \in Authors : Author(u)) \/ Delete
    BY <1>0, <1>4, AuthorDocs, DeleteDocs
  <1>5. CASE \E p, q \in Pods : ReplyDump(p, q)
    BY <1>0, <1>5, ReplyDumpDocs
  <1>6. CASE \E p \in Pods : Check(p) \/ Admit(p) \/ InitDoc(p) \/ InitFails(p) \/ Attach(p)
    <2>1. CASE \E p \in Pods : Check(p) \/ Attach(p)
      <3>1. PICK p \in Pods : Check(p) \/ Attach(p)
        BY <2>1
      <3>2. store' = store /\ snap' = snap /\ deleting' = deleting
        BY <3>1 DEF Check, Attach
      <3> QED  BY <1>0, <3>1, <3>2, CheckCalm, AttachCalm, RestDocs
    <2> QED  BY <1>0, <1>6, <2>1, AdmitDocs, InitDocDocs, InitFailsDocs
  <1>7. CASE \E p \in Pods : Owners(p) \/ TakeDump(p) \/ Settle(p) \/ RoundFails(p) \/ StartCommit(p)
    <2>1. CASE \E p \in Pods : RoundFails(p)
      BY <1>0, <2>1, RoundFailsCalm, RestDocs DEF RoundFails
    <2>2. CASE \E p \in Pods : Owners(p)
      BY <1>0, <2>2, OwnersDocs DEF TypeInv, TriesLeft, Owners
    <2> QED  BY <1>0, <1>7, <2>1, <2>2, TakeDumpDocs, SettleDocs, StartCommitDocs
  <1>8. CASE \E p \in Pods : Persist(p) \/ StartRetire(p) \/ StartDrop(p) \/ StartClose(p)
    <2>1. CASE \E p \in Pods : StartRetire(p) \/ StartDrop(p) \/ StartClose(p)
      <3>1. PICK p \in Pods : StartRetire(p) \/ StartDrop(p) \/ StartClose(p)
        BY <2>1
      <3>2. store' = store /\ snap' = snap /\ deleting' = deleting
        BY <3>1 DEF StartRetire, StartDrop, StartClose
      <3> QED  BY <1>0, <3>1, <3>2, StartRetireCalm, StartDropCalm, StartCloseCalm, RestDocs
    <2> QED  BY <1>0, <1>8, <2>1, PersistDocs
  <1>9. CASE \E p \in Pods : Flush(p) \/ FlushFails(p) \/ Release(p) \/ ReleaseFails(p) \/ Crash(p)
    <2>1. CASE \E p \in Pods : FlushFails(p) \/ Release(p) \/ ReleaseFails(p) \/ Crash(p)
      <3>1. PICK p \in Pods : FlushFails(p) \/ Release(p) \/ ReleaseFails(p) \/ Crash(p)
        BY <2>1
      <3>2. store' = store /\ snap' = snap /\ deleting' = deleting
        BY <3>1 DEF FlushFails, Release, ReleaseFails, Crash
      <3> QED  BY <1>0, <3>1, <3>2, EndsCalm, CrashCalm, RestDocs
    <2> QED  BY <1>0, <1>9, <2>1, FlushDocs
  <1>10. CASE \E s \in pending : SaveBody(s) \/ SaveFails(s)
    BY <1>0, <1>10, SaveEndsDocs
  <1>11. CASE UNCHANGED vars
    BY <1>0, <1>11, AsideCalm, RestDocs DEF vars
  <1> QED  BY <1>1, <1>2, <1>3, <1>4, <1>5, <1>6, <1>7, <1>8, <1>9, <1>10, <1>11 DEF Next

LEMMA OneIs ==
  ASSUME NEW doc, doc \cap Seeds = {} \/ One(doc)
  PROVE  Cardinality(doc \cap Seeds) <= 1
  <1>1. CASE doc \cap Seeds = {}
    BY <1>1, FS_EmptySet
  <1>2. CASE One(doc)
    <2>1. PICK s \in Seeds : doc \cap Seeds = {s}
      BY <1>2 DEF One
    <2> QED  BY <2>1, FS_Singleton
  <1> QED  BY <1>1, <1>2

LEMMA DocsSeed ==
  ASSUME AdmInv, DocsInv
  PROVE  OneSeed
  <1>1. store.doc \cap Seeds = {} \/ One(store.doc)
    BY DEF DocsInv, StoreInv
  <1>2. \A p \in Pods : room[p].doc \cap Seeds = {} \/ One(room[p].doc)
    BY ClosedIs DEF DocsInv, RoomDoc, AdmInv, Shape, RoomShape
  <1>3. snap.got \cap Seeds = {} \/ One(snap.got)
    BY DEF DocsInv
  <1> QED  BY <1>1, <1>2, <1>3, OneIs DEF OneSeed

-----------------------------------------------------------------------------
(* Edits: each is in the room of its admission, or stored                   *)

\* What every step does that neither takes an admission nor flushes: a room
\* keeps or loses its admission, and keeps what is in it while it has one or
\* its operation waits.
RoomGrows(p) ==
  /\ room'[p].adm # 0 => room'[p].adm = room[p].adm
  /\ room'[p].adm # 0 \/ (op'[p].step = "wait" /\ op[p].step = "wait") =>
       room[p].doc \subseteq room'[p].doc

OpLater(p) ==
  op'[p].step \in {"init", "release"} =>
    op[p].step = op'[p].step /\ op[p].acquired = op'[p].acquired

Grows == \A p \in Pods : RoomGrows(p) /\ OpLater(p)

LEMMA CalmGrows ==
  ASSUME Calm
  PROVE  Grows
  <1> SUFFICES ASSUME NEW p \in Pods
               PROVE  RoomGrows(p) /\ OpLater(p)
    BY DEF Grows
  <1>1. RoomCalm(p) /\ OpCalm(p)
    BY CalmOf
  <1>2. OpLater(p)
    BY <1>1 DEF OpCalm, OpLater
  <1>3. CASE room'[p] = Closed /\ op'[p] = Idle
    BY <1>2, <1>3, ClosedIs, IdleTyped DEF RoomGrows
  <1>4. CASE room'[p].adm \in {0, room[p].adm} /\ room[p].doc \subseteq room'[p].doc
    BY <1>2, <1>4 DEF RoomGrows
  <1> QED  BY <1>1, <1>3, <1>4 DEF RoomCalm

\* One pod acts on its room or its operation.
LEMMA OneGrows ==
  ASSUME NEW p \in Pods, RoomGrows(p), OpLater(p), \A q \in Pods \ {p} : Still(q)
  PROVE  Grows
  BY DEF Grows, Still, RoomGrows, OpLater

LEMMA StartJoinGrows ==
  ASSUME TypeOK, NEW c \in Sockets, StartJoin(c)
  PROVE  /\ Grows /\ \A p \in Pods : op'[p].kind = "commit" => op'[p] = op[p]
         /\ op[home[c]].kind = "idle"
  <1> DEFINE p == home[c]
             s == First(c, Opened(p))
             cs == {c}
  <1>1. p \in Pods /\ s \in {"check", "admit", "owners", "attach"} /\ cs \in SUBSET Sockets
    BY DEF TypeOK, First
  <1>2. op' = [op EXCEPT ![p] = [Start("join", s) EXCEPT !.conns = cs]] /\ op[p].kind = "idle"
    BY DEF StartJoin
  <1>3. room' = [room EXCEPT ![p] = Opened(p)]
    BY DEF StartJoin
  <1> HIDE DEF p, s, cs
  <1>a. s \in Steps
    BY <1>1 DEF Steps
  <1>4. /\ OpTypes'
        /\ op'[p].kind = "join" /\ op'[p].step = s /\ op'[p].conns = cs
        /\ op'[p].dumps = {} /\ op'[p].tries = 0 /\ op'[p].must = {}
        /\ \A q \in Pods \ {p} : op'[q] = op[q]
    BY <1>1, <1>2, <1>a, JoinAt, Zenon
  <1>5. room'[p] = Opened(p) /\ \A q \in Pods \ {p} : room'[q] = room[q]
    BY <1>1, <1>3 DEF TypeOK
  <1>6. RoomGrows(p) /\ OpLater(p)
    <2>1. op'[p].step \notin {"init", "release", "wait"}
      BY <1>1, <1>4
    <2>2. Opened(p) = room[p] \/ Opened(p).adm = 0
      BY <1>1, OpenedIs, LoadedIs
    <2> QED  BY <1>5, <2>1, <2>2 DEF RoomGrows, OpLater
  <1>7. Grows
    BY <1>1, <1>4, <1>5, <1>6, OneGrows DEF Still
  <1> QED  BY <1>2, <1>4, <1>7 DEF p

LEMMA StartCommitGrows ==
  ASSUME TypeOK, NEW p \in Pods, StartCommit(p)
  PROVE  /\ Grows /\ op'[p].kind = "commit" /\ op'[p].step = "owners" /\ op'[p].must = owed
         /\ \A q \in Pods \ {p} : op'[q] = op[q]
  <1>1. /\ op' = [op EXCEPT ![p] = [Start("commit", "owners") EXCEPT !.must = owed]]
        /\ owed \in SUBSET (Writers \cup Authors)
    BY DEF StartCommit, TypeOK
  <1>2. room' = [room EXCEPT ![p] = Opened(p)]
    BY DEF StartCommit
  <1>3. /\ op'[p].kind = "commit" /\ op'[p].step = "owners" /\ op'[p].must = owed
        /\ \A q \in Pods \ {p} : op'[q] = op[q]
    BY <1>1, SaveAt
  <1>4. room'[p] = Opened(p) /\ \A q \in Pods \ {p} : room'[q] = room[q]
    BY <1>2 DEF TypeOK
  <1>5. RoomGrows(p) /\ OpLater(p)
    <2>1. Opened(p) = room[p] \/ Opened(p).adm = 0
      BY OpenedIs, LoadedIs
    <2> QED  BY <1>3, <1>4, <2>1 DEF RoomGrows, OpLater
  <1> QED  BY <1>3, <1>4, <1>5, OneGrows DEF Still

LEMMA OwnersGrows ==
  ASSUME TypeOK, AdmInv, DocsInv, NEW p \in Pods, op[p].tries < MaxTries, Owners(p)
  PROVE  /\ Grows /\ store.doc \subseteq room'[p].doc
         /\ room[p].adm # 0 => room[p].doc \subseteq room'[p].doc
         /\ \A q \in Pods \ {p} : Still(q)
  <1> DEFINE r == Adopted(room[p], store.doc)
  <1>1. op[p].step = "owners" /\ store.doc # {} /\ room' = [room EXCEPT ![p] = r]
    BY DEF Owners
  <1>2. r.adm = room[p].adm /\ store.doc \subseteq r.doc
    BY OpOf, AdoptedIs
  <1>3. room[p].adm # 0 => room[p].doc \subseteq r.doc
    <2>1. SameSeed(store.doc, store.doc)
      BY <1>1 DEF SameSeed
    <2> QED  BY <2>1, RealAdopts
  <1> HIDE DEF r
  <1>4. room'[p] = r /\ \A q \in Pods \ {p} : room'[q] = room[q]
    BY <1>1 DEF TypeOK
  <1>5. op'[p].step = "wait" /\ \A q \in Pods \ {p} : op'[q] = op[q]
    BY OwnersAt
  <1>6. RoomGrows(p) /\ OpLater(p)
    BY <1>1, <1>2, <1>3, <1>4, <1>5 DEF RoomGrows, OpLater
  <1> QED  BY <1>2, <1>3, <1>4, <1>5, <1>6, OneGrows DEF Still

LEMMA ReplyDumpGrows ==
  ASSUME TypeOK, AdmInv, DocsInv, NEW p \in Pods, NEW q \in Pods, ReplyDump(p, q)
  PROVE  /\ Grows
         /\ op'[p].step = op[p].step /\ op'[p].kind = op[p].kind /\ op'[p].must = op[p].must
         /\ op'[p].owners = op[p].owners /\ op'[p].waiting = op[p].waiting
         /\ op'[p].dumps = op[p].dumps \cup {[adm |-> room[q].adm, doc |-> room'[q].doc]}
         /\ room[q].adm # 0 /\ room[q].doc \subseteq room'[q].doc
         /\ \A k \in Pods \ {p} : op'[k] = op[k]
  <1> DEFINE r == Adopted(room[q], store.doc)
             D == op[p].dumps \cup {[adm |-> room[q].adm, doc |-> r.doc]}
  <1>1. /\ op[p].step = "wait" /\ room[q].adm \in held /\ store.doc # {}
        /\ room' = [room EXCEPT ![q] = r]
    BY DEF ReplyDump
  <1>2. room[q].adm # 0 /\ SameSeed(store.doc, store.doc)
    BY <1>1, ShapeAt DEF SameSeed
  <1>3. r.adm = room[q].adm /\ room[q].doc \subseteq r.doc
    BY <1>2, RealAdopts
  <1>4. D \in SUBSET Dumps
    <2>1. room[q].adm \in Admissions /\ store.doc \in Docs
      BY <1>1 DEF TypeOK
    <2>2. r \in Rooms
      BY <2>1, OpOf, AdoptedTyped
    <2>3. [adm |-> room[q].adm, doc |-> r.doc] \in Dumps
      BY <2>1, <2>2 DEF Dumps, Rooms
    <2> QED  BY <2>3, OpOf DEF Typed, Operations
  <1>5. op' = [op EXCEPT ![p] = [op[p] EXCEPT !.dumps = D]]
    BY DEF ReplyDump
  <1>6. D = op[p].dumps \cup {[adm |-> room[q].adm, doc |-> r.doc]}
    OBVIOUS
  <1> HIDE DEF r, D
  <1>7. /\ op'[p].step = op[p].step /\ op'[p].kind = op[p].kind /\ op'[p].must = op[p].must
        /\ op'[p].owners = op[p].owners /\ op'[p].waiting = op[p].waiting /\ op'[p].dumps = D
        /\ \A k \in Pods \ {p} : op'[k] = op[k]
    BY <1>4, <1>5, DumpsAt
  <1>8. room'[q] = r /\ \A k \in Pods \ {q} : room'[k] = room[k]
    BY <1>1 DEF TypeOK
  <1>9. Grows
    <2> SUFFICES ASSUME NEW k \in Pods
                 PROVE  RoomGrows(k) /\ OpLater(k)
      BY DEF Grows
    <2>1. RoomGrows(k)
      BY <1>3, <1>8 DEF RoomGrows
    <2>2. OpLater(k)
      BY <1>1, <1>7 DEF OpLater
    <2> QED  BY <2>1, <2>2
  <1> QED  BY <1>2, <1>3, <1>6, <1>7, <1>8, <1>9

LEMMA TakeDumpGrows ==
  ASSUME TypeOK, AdmInv, DocsInv, NEW p \in Pods, TakeDump(p)
  PROVE  /\ Grows /\ room[p].doc \subseteq room'[p].doc
         /\ op'[p].step = op[p].step /\ op'[p].kind = op[p].kind /\ op'[p].must = op[p].must
         /\ op'[p].owners = op[p].owners /\ op'[p].dumps = op[p].dumps
         /\ \E d \in op[p].dumps : /\ op'[p].waiting = op[p].waiting \ {d.adm}
                                   /\ d.doc \subseteq room'[p].doc
                                   /\ d.adm \in held
         /\ \A k \in Pods \ {p} : op'[k] = op[k]
  <1>1. PICK d \in op[p].dumps :
          /\ op[p].step = "wait" /\ d.adm \in held
          /\ room' = [room EXCEPT ![p] = Armed(Adopted(room[p], d.doc), room[p].doc)]
          /\ op' = [op EXCEPT ![p] = [op[p] EXCEPT !.waiting = op[p].waiting \ {d.adm}]]
    BY DEF TakeDump
  <1> DEFINE a == Adopted(room[p], d.doc)
             r == Armed(a, room[p].doc)
             W == op[p].waiting \ {d.adm}
  <1>2. SameSeed(d.doc, store.doc)
    BY DEF DocsInv, RoomDoc
  <1>3. r.doc = room[p].doc \cup d.doc /\ r.adm = room[p].adm
    <2>1. a.doc = room[p].doc \cup d.doc /\ a.adm = room[p].adm
      BY <1>1, <1>2, RealAdopts
    <2>2. r.doc = a.doc /\ r.adm = a.adm
      BY OpOf, ArmedLike
    <2> QED  BY <2>1, <2>2
  <1>4. room' = [room EXCEPT ![p] = r] /\ W \in SUBSET op[p].waiting /\ W = op[p].waiting \ {d.adm}
    BY <1>1
  <1>5. op' = [op EXCEPT ![p] = [op[p] EXCEPT !.waiting = W]]
    BY <1>1
  <1> HIDE DEF a, r, W
  <1>6. /\ op'[p].step = op[p].step /\ op'[p].kind = op[p].kind /\ op'[p].must = op[p].must
        /\ op'[p].owners = op[p].owners /\ op'[p].dumps = op[p].dumps /\ op'[p].waiting = W
        /\ \A k \in Pods \ {p} : op'[k] = op[k]
    BY <1>4, <1>5, WaitingAt
  <1>7. room'[p] = r /\ \A k \in Pods \ {p} : room'[k] = room[k]
    BY <1>4 DEF TypeOK
  <1>8. RoomGrows(p) /\ OpLater(p)
    BY <1>1, <1>3, <1>6, <1>7 DEF RoomGrows, OpLater
  <1>9. Grows
    BY <1>6, <1>7, <1>8, OneGrows DEF Still
  <1> QED  BY <1>1, <1>3, <1>4, <1>6, <1>7, <1>9

LEMMA MergeGrows ==
  ASSUME TypeOK, AdmInv, DocsInv, NEW m \in bus, Merge(m)
  PROVE  Grows /\ op' = op
  <1> DEFINE q == m.to
             w == m.edit
             s == IF 0 \in room[q].doc THEN Adopted(room[q], store.doc) ELSE room[q]
             r == Edited(s, w)
  <1>1. q \in Pods /\ store.doc \in Docs /\ room[q] \in Rooms
    BY OpOf DEF TypeOK
  <1>2. op' = op /\ (room' = room \/ room' = [room EXCEPT ![q] = r])
    BY DEF Merge
  <1>3. CASE room' = room
    BY <1>2, <1>3, AsideCalm, CalmGrows
  <1>4. CASE room' = [room EXCEPT ![q] = r]
    <2>1. s \in Rooms /\ s.adm = room[q].adm
      BY <1>1, AdoptedTyped, AdoptedIs
    <2>2. 0 \notin room[q].doc => s.doc = room[q].doc
      OBVIOUS
    <2> HIDE DEF s
    <2>3. r.adm = room[q].adm /\ r.doc = s.doc \cup {w}
      BY <2>1, EditedIs
    <2> HIDE DEF r
    <2>4. room'[q] = r /\ \A k \in Pods \ {q} : room'[k] = room[k]
      BY <1>1, <1>4 DEF TypeOK
    <2>5. room[q].adm # 0 \/ op[q].step = "wait" => 0 \notin room[q].doc
      BY <1>1, RealDoc
    <2>6. RoomGrows(q) /\ OpLater(q)
      BY <1>2, <2>2, <2>3, <2>4, <2>5 DEF RoomGrows, OpLater
    <2> HIDE DEF q
    <2> QED  BY <1>1, <1>2, <2>4, <2>6, OneGrows DEF Still
  <1> QED  BY <1>2, <1>3, <1>4

\* An edit that was accepted has the admission it was accepted under; one in
\* flight was not.
Accepted ==
  \A w \in Writers :
    /\ w \in owed => under[w] # 0
    /\ frame[w] # 0 => under[w] = 0
    /\ under[w] <= issued

\* A room has the edits of its admission, and has stored them by the time it
\* gives the admission back.
RoomEdits(p) ==
  \A w \in Writers :
    /\ under[w] # 0 /\ under[w] = room[p].adm => w \in room[p].doc
    /\ op[p].step = "init" => under[w] # op[p].acquired
    /\ op[p].step = "release" /\ w \in owed /\ under[w] = room[p].adm => w \in store.doc

\* Under an admission still held, or in what the next room loads.
Stays == \A x \in owed : (x \in Writers /\ under[x] \in held) \/ x \in Current

EditsInv == Accepted /\ (\A p \in Pods : RoomEdits(p)) /\ Stays

\* The bodies of Saves. While a Save has yet to write its body there is a
\* stored document; the body has everything accepted before the Save began;
\* and the page's body has all the document has, but for what the Save that
\* wrote it did not have to include.
SavedInv ==
  /\ pending # {} => store.doc # {}
  /\ \A s \in pending : s.must \subseteq s.body
  /\ ~deleting => Text(store.doc) \subseteq store.body \cup store.late

LEMMA GrowsEdits ==
  ASSUME TypeOK, EditsInv, NEW p \in Pods, RoomGrows(p), OpLater(p),
         under' = under, owed' = owed, store.doc \subseteq store'.doc
  PROVE  RoomEdits(p)'
  <1> SUFFICES ASSUME NEW w \in Writers
               PROVE  /\ under[w] # 0 /\ under[w] = room'[p].adm => w \in room'[p].doc
                      /\ op'[p].step = "init" => under[w] # op'[p].acquired
                      /\ op'[p].step = "release" /\ w \in owed /\ under[w] = room'[p].adm => w \in store'.doc
    BY DEF RoomEdits
  <1>1. /\ under[w] # 0 /\ under[w] = room[p].adm => w \in room[p].doc
        /\ op[p].step = "init" => under[w] # op[p].acquired
        /\ op[p].step = "release" /\ w \in owed /\ under[w] = room[p].adm => w \in store.doc
        /\ w \in owed => under[w] # 0
    BY DEF EditsInv, RoomEdits, Accepted
  <1>2. under[w] # 0 /\ under[w] = room'[p].adm => w \in room'[p].doc
    BY <1>1 DEF RoomGrows
  <1>3. op'[p].step = "init" => under[w] # op'[p].acquired
    BY <1>1 DEF OpLater
  <1>4. op'[p].step = "release" /\ w \in owed /\ under[w] = room'[p].adm => w \in store'.doc
    BY <1>1 DEF OpLater, RoomGrows
  <1> QED  BY <1>2, <1>3, <1>4

LEMMA RestEdits ==
  ASSUME TypeOK, EditsInv, Grows, under' = under, owed' = owed, issued' = issued,
         \A w \in Writers : frame'[w] \in {0, frame[w]},
         store.doc \subseteq store'.doc, Current \subseteq Current',
         \A w \in Writers : w \in owed /\ under[w] \in held \ held' => w \in Current'
  PROVE  EditsInv'
  <1>1. \A p \in Pods : RoomEdits(p)'
    BY GrowsEdits DEF Grows
  <1>2. Accepted'
    BY DEF EditsInv, Accepted
  <1>3. Stays'
    BY DEF EditsInv, Stays
  <1> QED  BY <1>1, <1>2, <1>3 DEF EditsInv

\* Nobody has an operation or stores while an authored body waits.
LEMMA BusyAwake ==
  ASSUME Quiet, NEW p \in Pods, op[p].step # "none"
  PROVE  ~deleting
  BY IdleTyped DEF Quiet

LEMMA AwakeIs ==
  ASSUME TypeOK, AdmInv, Quiet, NEW p \in Pods, room[p].adm # 0
  PROVE  ~deleting
  BY ShapeAt DEF Quiet, RoomShape

\* A step that leaves the edits, the admissions and the database alone.
LEMMA AloneEdits ==
  ASSUME TypeOK, EditsInv, Grows, under' = under, owed' = owed, issued' = issued,
         \A w \in Writers : frame'[w] \in {0, frame[w]}, held' = held,
         store' = store, deleting' = deleting
  PROVE  EditsInv'
  BY RestEdits DEF Current

LEMMA AdmitEdits ==
  ASSUME TypeOK, AdmInv, EditsInv, NEW p \in Pods, Admit(p)
  PROVE  EditsInv'
  <1> DEFINE a == issued + 1
             r == Owning(room[p], a)
  <1>1. a \in Admissions
    BY BoundsAssumption DEF Admit, TypeOK, Admissions
  <1>2. /\ op[p].step = "admit" /\ issued' = a /\ held' = held \cup {a}
        /\ under' = under /\ owed' = owed /\ frame' = frame /\ store' = store /\ deleting' = deleting
        /\ \/ room' = room /\ op' = [op EXCEPT ![p] = [op[p] EXCEPT !.step = "init", !.acquired = a]]
           \/ room' = [room EXCEPT ![p] = r] /\ Goto(p, "owners")
    BY DEF Admit
  <1>3. r.adm = a /\ room[p].adm = 0
    BY <1>2, OpOf, OwningIs, ShapeAt, KindOf
  <1>4. \A w \in Writers : under[w] # a /\ under[w] <= a
    BY DEF EditsInv, Accepted, TypeOK
  <1> HIDE DEF a, r
  <1>5. /\ op'[p].step = "init" => op'[p].acquired = a
        /\ op'[p].step # "release"
        /\ \A q \in Pods \ {p} : op'[q] = op[q]
    BY <1>1, <1>2, AdmitAt, GotoAt DEF Onward, Steps
  <1>6. room'[p].adm \in {0, a} /\ \A q \in Pods \ {p} : room'[q] = room[q]
    BY <1>2, <1>3 DEF TypeOK
  <1>7. \A q \in Pods : RoomEdits(q)'
    <2>1. RoomEdits(p)'
      BY <1>2, <1>4, <1>5, <1>6 DEF RoomEdits
    <2>2. \A q \in Pods \ {p} : RoomEdits(q)'
      BY <1>2, <1>5, <1>6 DEF EditsInv, RoomEdits
    <2> QED  BY <2>1, <2>2
  <1>8. Accepted'
    BY <1>2, <1>4 DEF EditsInv, Accepted
  <1>9. Stays'
    BY <1>2 DEF EditsInv, Stays, Current
  <1> QED  BY <1>7, <1>8, <1>9 DEF EditsInv

\* A conversion has the text of the body in it.
LEMMA ConvertKeeps ==
  ASSUME TypeOK, Convert, ~deleting, deleting' = deleting
  PROVE  store.doc \subseteq store'.doc /\ Current \subseteq Current'
  <1>1. store'.doc = Stored /\ store'.body = store.body
    BY DEF Convert, TypeOK
  <1>2. CASE store.doc = {}
    BY <1>1, <1>2 DEF Stored, Current
  <1>3. CASE store.doc # {}
    BY <1>1, <1>3 DEF Stored, Current
  <1> QED  BY <1>2, <1>3

LEMMA InitDocEdits ==
  ASSUME TypeInv, AdmInv, Quiet, DocsInv, EditsInv, NEW p \in Pods, InitDoc(p)
  PROVE  EditsInv'
  <1> DEFINE s == Adopted(room[p], Stored)
             a == op[p].acquired
             r == Owning(s, a)
  <1>0. TypeOK
    BY DEF TypeInv
  <1>1. /\ op[p].step = "init" /\ Convert /\ Goto(p, "owners") /\ deleting' = deleting
        /\ room' = [room EXCEPT ![p] = r] /\ held' = held /\ issued' = issued
        /\ under' = under /\ owed' = owed /\ frame' = frame
    BY DEF InitDoc
  <1>2. store.doc \subseteq store'.doc /\ Current \subseteq Current'
    BY <1>0, <1>1, BusyAwake, ConvertKeeps
  <1>3. r.adm = a /\ a # 0
    <2>1. a # 0
      BY <1>0, <1>1, ShapeAt, KindOf
    <2>2. s = [room[p] EXCEPT !.doc = Stored, !.live = {}, !.writers = {}] \/ s = [room[p] EXCEPT !.doc = room[p].doc \cup Stored]
      BY DEF Adopted
    <2>3. room[p] \in Rooms
      BY <1>0, OpOf
    <2>4. r.adm = a
      BY <2>2, <2>3 DEF Owning, Rooms
    <2> QED  BY <2>1, <2>4
  <1>4. \A w \in Writers : under[w] # a
    BY <1>1 DEF EditsInv, RoomEdits
  <1> HIDE DEF r, s, a
  <1>5. room'[p] = r /\ \A q \in Pods \ {p} : room'[q] = room[q]
    BY <1>0, <1>1 DEF TypeOK
  <1>6. op'[p].step = "owners" /\ \A q \in Pods \ {p} : op'[q] = op[q]
    BY <1>0, <1>1, GotoAt DEF Onward, Steps
  <1>7. \A q \in Pods : RoomEdits(q)'
    <2>1. RoomEdits(p)'
      BY <1>1, <1>3, <1>4, <1>5, <1>6 DEF RoomEdits
    <2>2. \A q \in Pods \ {p} : RoomEdits(q)'
      BY <1>1, <1>2, <1>5, <1>6 DEF EditsInv, RoomEdits
    <2> QED  BY <2>1, <2>2
  <1>8. Accepted' /\ Stays'
    BY <1>1, <1>2 DEF EditsInv, Accepted, Stays
  <1> QED  BY <1>7, <1>8 DEF EditsInv

LEMMA InitFailsEdits ==
  ASSUME TypeInv, AdmInv, Quiet, DocsInv, EditsInv, Hazards = {}, NEW p \in Pods, InitFails(p)
  PROVE  EditsInv'
  <1>0. TypeOK
    BY DEF TypeInv
  <1>1. /\ op[p].step = "init" /\ held' = held \ {op[p].acquired} /\ deleting' = deleting
        /\ Convert \/ store' = store
        /\ under' = under /\ owed' = owed /\ frame' = frame /\ issued' = issued
    <2>1. op[p].step = "init" /\ op[p].acquired # 0
      BY <1>0, ShapeAt, KindOf DEF InitFails
    <2>2. held' = held \ {op[p].acquired}
      BY <2>1 DEF InitFails
    <2> QED  BY <2>1, <2>2 DEF InitFails
  <1>2. Grows
    BY <1>0, InitFailsCalm, CalmGrows
  <1>3. store.doc \subseteq store'.doc /\ Current \subseteq Current'
    BY <1>0, <1>1, BusyAwake, ConvertKeeps DEF Current
  <1>4. \A w \in Writers : under[w] # op[p].acquired
    BY <1>1 DEF EditsInv, RoomEdits
  <1> QED  BY <1>0, <1>1, <1>2, <1>3, <1>4, RestEdits

\* The next room loads what a document that grows has.
LEMMA CurrentGrows ==
  ASSUME ~deleting, deleting' = deleting, store.doc \subseteq store'.doc, SameSeed(store'.doc, store.doc)
  PROVE  Current \subseteq Current'
  BY DEF Current, SameSeed

LEMMA PersistEdits ==
  ASSUME TypeOK, AdmInv, Quiet, DocsInv, EditsInv, NEW p \in Pods, Persist(p)
  PROVE  EditsInv'
  <1>1. /\ held' = held /\ under' = under /\ owed' = owed /\ frame' = frame /\ issued' = issued
        /\ room[p].adm # 0 /\ deleting' = deleting
    BY ShapeAt DEF Persist
  <1>2. store.doc \subseteq store'.doc /\ Current \subseteq Current'
    BY <1>1, AwakeIs, PersistCalm, CurrentGrows
  <1>3. Grows
    BY PersistCalm, CalmGrows
  <1> QED  BY <1>1, <1>2, <1>3, RestEdits

LEMMA FlushEdits ==
  ASSUME TypeOK, AdmInv, Quiet, DocsInv, EditsInv, NEW p \in Pods, Flush(p)
  PROVE  EditsInv'
  <1>1. /\ held' = held /\ under' = under /\ owed' = owed /\ frame' = frame /\ issued' = issued
        /\ deleting' = deleting
    BY DEF Flush
  <1>2. /\ SameSeed(store'.doc, store.doc) /\ store.doc \subseteq store'.doc
        /\ room[p].doc \subseteq store'.doc /\ store'.body = Text(store'.doc)
        /\ room'[p].adm = room[p].adm /\ room[p].adm # 0 /\ room[p].doc \subseteq room'[p].doc
        /\ Onward(op[p], op'[p], "release") /\ \A q \in Pods \ {p} : Still(q)
    BY FlushIs
  <1>3. Current \subseteq Current'
    BY <1>1, <1>2, AwakeIs, CurrentGrows
  <1>4. RoomEdits(p)'
    <2> SUFFICES ASSUME NEW w \in Writers
                 PROVE  /\ under[w] # 0 /\ under[w] = room[p].adm => w \in room'[p].doc
                        /\ under[w] = room[p].adm => w \in store'.doc
      BY <1>1, <1>2 DEF RoomEdits, Onward
    <2>1. under[w] = room[p].adm => w \in room[p].doc
      BY <1>2 DEF EditsInv, RoomEdits
    <2> QED  BY <1>2, <2>1
  <1>5. \A q \in Pods \ {p} : RoomEdits(q)'
    BY <1>1, <1>2 DEF EditsInv, RoomEdits, Still
  <1>6. Accepted' /\ Stays'
    BY <1>1, <1>3 DEF EditsInv, Accepted, Stays
  <1> QED  BY <1>4, <1>5, <1>6 DEF EditsInv

LEMMA ReleaseEdits ==
  ASSUME TypeOK, AdmInv, Quiet, EditsInv, NEW p \in Pods, Release(p)
  PROVE  EditsInv'
  <1>1. /\ op[p].step = "release" /\ held' = held \ {room[p].adm} /\ store' = store
        /\ under' = under /\ owed' = owed /\ frame' = frame /\ issued' = issued
        /\ deleting' = deleting
    BY DEF Release
  <1>2. Grows
    BY EndsCalm, CalmGrows
  <1>3. \A w \in Writers : w \in owed /\ under[w] = room[p].adm => w \in Current
    BY <1>1, BusyAwake DEF EditsInv, RoomEdits, Current
  <1>4. Current' = Current
    BY <1>1 DEF Current
  <1> QED  BY <1>1, <1>2, <1>3, <1>4, RestEdits

LEMMA ReceiveEdits ==
  ASSUME TypeOK, EditsInv, NEW w \in Writers, Receive(w)
  PROVE  EditsInv'
  <1>1. /\ under[w] = 0 /\ room' = room /\ op' = op /\ held' = held /\ store' = store
        /\ under' = under /\ owed' = owed /\ issued' = issued
        /\ frame' = [frame EXCEPT ![w] = room[home[w]].adm] /\ deleting' = deleting
    BY DEF Receive
  <1>2. Accepted'
    BY <1>1 DEF EditsInv, Accepted, TypeOK
  <1> QED  BY <1>1, <1>2 DEF EditsInv, RoomEdits, Stays, Current

\* An edit is accepted in the one room that holds its admission.
LEMMA ApplyIn ==
  ASSUME TypeOK, AdmInv, EditsInv, NEW w \in Writers, NEW p \in Pods, p = home[w],
         NEW a \in held, a = frame[w], Apply(w)
  PROVE  EditsInv'
  <1>1. /\ p \in Pods /\ a \in held /\ w \in room[p].writers /\ room[p].adm = a
        /\ op' = op /\ held' = held /\ issued' = issued /\ store' = store
        /\ owed' = owed \cup {w} /\ under' = [under EXCEPT ![w] = a] /\ frame' = [frame EXCEPT ![w] = 0]
        /\ room' = [room EXCEPT ![p] = Edited(room[p], w)] /\ deleting' = deleting
    BY DEF TypeOK, Sockets, Apply, Accept
  <1> DEFINE r == Edited(room[p], w)
  <1>2. r.adm = a /\ r.doc = room[p].doc \cup {w}
    BY <1>1, OpOf, EditedIs
  <1>3. a # 0 /\ a <= issued /\ Takes(p) = a
    BY <1>1, ShapeAt, TakesIs
  <1>4. op[p].step # "release" /\ op[p].step # "init"
    BY <1>1, <1>3, ShapeAt, KindOf
  <1>5. \A q \in Pods \ {p} : /\ room[q].adm # a
                              /\ op[q].step = "init" => op[q].acquired # a
    <2> SUFFICES ASSUME NEW q \in Pods \ {p}
                 PROVE  room[q].adm # a /\ (op[q].step = "init" => op[q].acquired # a)
      OBVIOUS
    <2>1. Takes(q) # a
      BY <1>1, <1>3 DEF AdmInv, Exclusive
    <2> QED  BY <1>3, <2>1, TakesIs
  <1>6. /\ under'[w] = a /\ frame'[w] = 0
        /\ \A x \in Writers \ {w} : under'[x] = under[x] /\ frame'[x] = frame[x]
    BY <1>1 DEF TypeOK
  <1> HIDE DEF r
  <1>7. room'[p] = r /\ \A q \in Pods \ {p} : room'[q] = room[q]
    BY <1>1 DEF TypeOK, r
  <1>8. RoomEdits(p)'
    <2>1. \A x \in Writers : under'[x] # 0 /\ under'[x] = a => x \in r.doc
      <3> SUFFICES ASSUME NEW x \in Writers, under'[x] # 0, under'[x] = a
                   PROVE  x \in r.doc
        OBVIOUS
      <3>1. CASE x = w
        BY <1>2, <3>1
      <3>2. CASE x # w
        BY <1>1, <1>2, <1>6, <3>2 DEF EditsInv, RoomEdits
      <3> QED  BY <3>1, <3>2
    <2>2. op'[p].step # "release" /\ op'[p].step # "init" /\ room'[p].adm = a /\ room'[p].doc = r.doc
      BY <1>1, <1>2, <1>4, <1>7
    <2> QED  BY <2>1, <2>2 DEF RoomEdits
  <1>9. ASSUME NEW q \in Pods \ {p}
        PROVE  RoomEdits(q)'
    <2> SUFFICES ASSUME NEW x \in Writers
                 PROVE  /\ under'[x] # 0 /\ under'[x] = room[q].adm => x \in room[q].doc
                        /\ op[q].step = "init" => under'[x] # op[q].acquired
                        /\ op[q].step = "release" /\ x \in owed' /\ under'[x] = room[q].adm => x \in store.doc
      BY <1>1, <1>7 DEF RoomEdits
    <2>1. CASE x = w
      BY <1>5, <1>6, <2>1
    <2>2. CASE x # w
      BY <1>1, <1>6, <2>2 DEF EditsInv, RoomEdits
    <2> QED  BY <2>1, <2>2
  <1>10. Accepted'
    BY <1>1, <1>3, <1>6 DEF EditsInv, Accepted
  <1>11. Stays'
    <2> SUFFICES ASSUME NEW x \in owed'
                 PROVE  (x \in Writers /\ under'[x] \in held) \/ x \in Current
      BY <1>1 DEF Stays, Current
    <2>1. CASE x = w
      BY <1>1, <1>6, <2>1
    <2>2. CASE x # w
      BY <1>1, <1>6, <2>2 DEF EditsInv, Stays
    <2> QED  BY <2>1, <2>2
  <1>12. \A q \in Pods : RoomEdits(q)'
    BY <1>8, <1>9
  <1> QED  BY <1>10, <1>11, <1>12 DEF EditsInv

LEMMA ApplyEdits ==
  ASSUME TypeOK, AdmInv, EditsInv, NEW w \in Writers, Apply(w)
  PROVE  EditsInv'
  <1>1. home[w] \in Pods /\ frame[w] \in held
    BY DEF TypeOK, Sockets, Apply
  <1> QED  BY <1>1, ApplyIn

LEMMA AuthorEdits ==
  ASSUME TypeOK, EditsInv, NEW u \in Authors, Author(u)
  PROVE  EditsInv'
  <1>1. /\ room' = room /\ op' = op /\ under' = under /\ frame' = frame /\ issued' = issued
        /\ owed' = {u} /\ store'.body = {u} /\ deleting'
    BY DEF Author, TypeOK
  <1>2. \A w \in Writers : w \notin owed'
    BY <1>1, NamesAssumption
  <1>3. Accepted' /\ \A p \in Pods : RoomEdits(p)'
    BY <1>1, <1>2 DEF EditsInv, Accepted, RoomEdits
  <1>4. Stays'
    BY <1>1 DEF Stays, Current
  <1> QED  BY <1>3, <1>4 DEF EditsInv

LEMMA DeleteEdits ==
  ASSUME TypeOK, Quiet, EditsInv, Delete
  PROVE  EditsInv'
  <1>1. /\ room' = room /\ op' = op /\ under' = under /\ frame' = frame /\ issued' = issued
        /\ owed' = owed /\ held' = held /\ store'.body = store.body /\ store'.doc = {} /\ deleting
    BY DEF Delete, TypeOK
  <1>2. \A p \in Pods : op[p].step = "none"
    BY <1>1, IdleTyped DEF Quiet
  <1>3. \A p \in Pods : RoomEdits(p)'
    BY <1>1, <1>2 DEF EditsInv, RoomEdits
  <1>4. Accepted' /\ Stays'
    BY <1>1 DEF EditsInv, Accepted, Stays, Current
  <1> QED  BY <1>3, <1>4 DEF EditsInv

\* The next room loads the document, whatever a Save writes into the body.
LEMMA SaveEndsEdits ==
  ASSUME TypeOK, Quiet, EditsInv, SavedInv, NEW s \in pending, SaveBody(s) \/ SaveFails(s)
  PROVE  EditsInv'
  <1>1. /\ room' = room /\ op' = op /\ under' = under /\ frame' = frame /\ issued' = issued
        /\ owed' = owed /\ held' = held /\ store'.doc = store.doc /\ deleting' = deleting
    BY DEF SaveBody, SaveFails, TypeOK
  <1>2. ~deleting /\ store.doc # {}
    BY DEF Quiet, SavedInv
  <1>3. Current' = Current
    BY <1>1, <1>2 DEF Current
  <1> QED  BY <1>1, <1>3, AsideCalm, CalmGrows, RestEdits

LEMMA InitEdits ==
  ASSUME Init
  PROVE  EditsInv
  BY IdleTyped DEF Init, EditsInv, Accepted, RoomEdits, Stays

LEMMA NextEdits ==
  ASSUME TypeInv, AdmInv, Quiet, DocsInv, EditsInv, SavedInv, Hazards = {}, [Next]_vars
  PROVE  EditsInv'
  <1>0. TypeOK
    BY DEF TypeInv
  <1>1. CASE \E c \in Sockets : StartJoin(c) \/ Leave(c)
    <2>1. PICK c \in Sockets : StartJoin(c) \/ Leave(c)
      BY <1>1
    <2>2. Grows
      BY <1>0, <2>1, StartJoinGrows, LeaveCalm, CalmGrows
    <2>3. /\ under' = under /\ owed' = owed /\ issued' = issued /\ frame' = frame
          /\ held' = held /\ store' = store /\ deleting' = deleting
      BY <2>1 DEF StartJoin, Leave
    <2> QED  BY <1>0, <2>2, <2>3, AloneEdits
  <1>2. CASE \E w \in Writers : Receive(w) \/ Apply(w) \/ Drop(w) \/ Demote(w)
    <2>1. CASE \E w \in Writers : Drop(w) \/ Demote(w)
      <3>1. PICK w \in Writers : Drop(w) \/ Demote(w)
        BY <2>1
      <3>2. Grows
        BY <1>0, <3>1, DropCalm, DemoteCalm, CalmGrows
      <3>3. /\ under' = under /\ owed' = owed /\ issued' = issued
            /\ held' = held /\ store' = store /\ deleting' = deleting
        BY <3>1 DEF Drop, Demote
      <3>4. \A x \in Writers : frame'[x] \in {0, frame[x]}
        BY <1>0, <3>1 DEF Drop, Demote, TypeOK
      <3> QED  BY <1>0, <3>2, <3>3, <3>4, AloneEdits
    <2> QED  BY <1>0, <1>2, <2>1, ReceiveEdits, ApplyEdits
  <1>3. CASE \E m \in bus : Merge(m)
    <2>1. PICK m \in bus : Merge(m)
      BY <1>3
    <2>2. Grows
      BY <1>0, <2>1, MergeGrows
    <2>3. /\ under' = under /\ owed' = owed /\ issued' = issued /\ frame' = frame
          /\ held' = held /\ store' = store /\ deleting' = deleting
      BY <2>1 DEF Merge
    <2> QED  BY <1>0, <2>2, <2>3, AloneEdits
  <1>4. CASE (\E u \in Authors : Author(u)) \/ Delete
    BY <1>0, <1>4, AuthorEdits, DeleteEdits
  <1>5. CASE \E p, q \in Pods : ReplyDump(p, q)
    <2>1. PICK p \in Pods, q \in Pods : ReplyDump(p, q)
      BY <1>5
    <2>2. Grows
      BY <1>0, <2>1, ReplyDumpGrows
    <2>3. /\ under' = under /\ owed' = owed /\ issued' = issued /\ frame' = frame
          /\ held' = held /\ store' = store /\ deleting' = deleting
      BY <2>1 DEF ReplyDump
    <2> QED  BY <1>0, <2>2, <2>3, AloneEdits
  <1>6. CASE \E p \in Pods : Check(p) \/ Admit(p) \/ InitDoc(p) \/ InitFails(p) \/ Attach(p)
    <2>1. CASE \E p \in Pods : Check(p) \/ Attach(p)
      <3>1. PICK p \in Pods : Check(p) \/ Attach(p)
        BY <2>1
      <3>2. Grows
        BY <1>0, <3>1, CheckCalm, AttachCalm, CalmGrows
      <3>3. /\ under' = under /\ owed' = owed /\ issued' = issued /\ frame' = frame
            /\ held' = held /\ store' = store /\ deleting' = deleting
        BY <3>1 DEF Check, Attach
      <3> QED  BY <1>0, <3>2, <3>3, AloneEdits
    <2> QED  BY <1>0, <1>6, <2>1, AdmitEdits, InitDocEdits, InitFailsEdits
  <1>7. CASE \E p \in Pods : Owners(p) \/ TakeDump(p) \/ Settle(p) \/ RoundFails(p) \/ StartCommit(p)
    <2>1. PICK p \in Pods : Owners(p) \/ TakeDump(p) \/ Settle(p) \/ RoundFails(p) \/ StartCommit(p)
      BY <1>7
    <2>2. Grows
      <3>1. CASE Owners(p)
        BY <1>0, <3>1, OwnersGrows DEF TypeInv, TriesLeft, Owners
      <3>2. CASE TakeDump(p) \/ StartCommit(p)
        BY <1>0, <3>2, TakeDumpGrows, StartCommitGrows
      <3>3. CASE Settle(p) \/ RoundFails(p)
        BY <1>0, <3>3, SettleCalm, RoundFailsCalm, CalmGrows
      <3> QED  BY <2>1, <3>1, <3>2, <3>3
    <2>3. /\ under' = under /\ owed' = owed /\ issued' = issued /\ frame' = frame
          /\ held' = held /\ store' = store /\ deleting' = deleting
      BY <2>1 DEF Owners, TakeDump, Settle, Answered, RoundFails, StartCommit
    <2> QED  BY <1>0, <2>2, <2>3, AloneEdits
  <1>8. CASE \E p \in Pods : Persist(p) \/ StartRetire(p) \/ StartDrop(p) \/ StartClose(p)
    <2>1. CASE \E p \in Pods : StartRetire(p) \/ StartDrop(p) \/ StartClose(p)
      <3>1. PICK p \in Pods : StartRetire(p) \/ StartDrop(p) \/ StartClose(p)
        BY <2>1
      <3>2. Grows
        BY <1>0, <3>1, StartRetireCalm, StartDropCalm, StartCloseCalm, CalmGrows
      <3>3. /\ under' = under /\ owed' = owed /\ issued' = issued /\ frame' = frame
            /\ held' = held /\ store' = store /\ deleting' = deleting
        BY <3>1 DEF StartRetire, StartDrop, StartClose
      <3> QED  BY <1>0, <3>2, <3>3, AloneEdits
    <2> QED  BY <1>0, <1>8, <2>1, PersistEdits
  <1>9. CASE \E p \in Pods : Flush(p) \/ FlushFails(p) \/ Release(p) \/ ReleaseFails(p) \/ Crash(p)
    <2>1. CASE \E p \in Pods : FlushFails(p) \/ ReleaseFails(p) \/ Crash(p)
      <3>1. PICK p \in Pods : FlushFails(p) \/ ReleaseFails(p) \/ Crash(p)
        BY <2>1
      <3>2. Grows
        BY <1>0, <3>1, EndsCalm, CrashCalm, CalmGrows
      <3>3. /\ under' = under /\ owed' = owed /\ issued' = issued
            /\ held' = held /\ store' = store /\ deleting' = deleting
        BY <3>1 DEF FlushFails, ReleaseFails, Crash
      <3>4. \A x \in Writers : frame'[x] \in {0, frame[x]}
        BY <1>0, <3>1 DEF FlushFails, ReleaseFails, Crash, TypeOK
      <3> QED  BY <1>0, <3>2, <3>3, <3>4, AloneEdits
    <2> QED  BY <1>0, <1>9, <2>1, FlushEdits, ReleaseEdits
  <1>10. CASE \E s \in pending : SaveBody(s) \/ SaveFails(s)
    BY <1>0, <1>10, SaveEndsEdits
  <1>11. CASE UNCHANGED vars
    BY <1>0, <1>11, AsideCalm, CalmGrows, AloneEdits DEF vars
  <1> QED  BY <1>1, <1>2, <1>3, <1>4, <1>5, <1>6, <1>7, <1>8, <1>9, <1>10, <1>11 DEF Next

-----------------------------------------------------------------------------
(* Saves: what a round still waits for                                      *)

\* What is in the room already, or in the memory of an owner that has not been
\* heard, or whose dump has it.
Coming(o, w, u, h) ==
  /\ w \in Writers /\ u \in o.owners
  /\ u \in o.waiting \/ u \notin h
  /\ \A d \in o.dumps : d.adm = u => w \in d.doc

RoundOf(p) ==
  op[p].kind = "commit" =>
    /\ op[p].must \subseteq owed
    /\ op[p].step = "wait" =>
         /\ op[p].owners \subseteq 1..issued
         /\ \A x \in op[p].must :
              x \in room[p].doc \/ Coming(op[p], x, under[x], held)

SavesInv == (\A p \in Pods : RoundOf(p)) /\ CommitSeesAll

\* Edits that have been accepted stay under their admission, and admissions
\* are given back or are new.
Onwards ==
  /\ owed \subseteq owed'
  /\ \A w \in Writers : w \in owed => under'[w] = under[w]
  /\ held' \cap (1..issued) \subseteq held
  /\ issued <= issued' /\ issued' \in Nat

\* A round goes on: its room grows, and what it knows stays.
LEMMA RoundGrows ==
  ASSUME TypeOK, NEW p \in Pods, RoundOf(p), RoomGrows(p), Onwards,
         op'[p].kind = "commit" =>
           /\ op[p].kind = "commit" /\ op'[p].must = op[p].must
           /\ op'[p].step = "wait" => op'[p] = op[p]
  PROVE  RoundOf(p)'
  <1> SUFFICES ASSUME op'[p].kind = "commit"
               PROVE  /\ op'[p].must \subseteq owed'
                      /\ op'[p].step = "wait" =>
                           /\ op'[p].owners \subseteq 1..issued'
                           /\ \A x \in op'[p].must :
                                x \in room'[p].doc \/ Coming(op'[p], x, under'[x], held')
    BY DEF RoundOf
  <1>1. op[p].must \subseteq owed /\ op'[p].must = op[p].must
    BY DEF RoundOf
  <1>2. op'[p].must \subseteq owed'
    BY <1>1 DEF Onwards
  <1>3. ASSUME op'[p].step = "wait"
        PROVE  /\ op'[p].owners \subseteq 1..issued'
               /\ \A x \in op'[p].must :
                    x \in room'[p].doc \/ Coming(op'[p], x, under'[x], held')
    <2>1. op'[p] = op[p] /\ room[p].doc \subseteq room'[p].doc /\ op[p].owners \subseteq 1..issued
      BY <1>3 DEF RoomGrows, RoundOf
    <2>2. op[p].owners \subseteq 1..issued'
      BY <2>1 DEF Onwards, TypeOK
    <2> SUFFICES ASSUME NEW x \in op[p].must, x \notin room[p].doc
                 PROVE  Coming(op[p], x, under'[x], held')
      BY <2>1, <2>2
    <2>3. Coming(op[p], x, under[x], held)
      BY <1>3, <2>1 DEF RoundOf
    <2>4. under'[x] = under[x]
      BY <1>1, <2>3 DEF Coming, Onwards
    <2>5. under[x] \notin held => under[x] \notin held'
      BY <2>1, <2>3 DEF Coming, Onwards
    <2> QED  BY <2>3, <2>4, <2>5 DEF Coming
  <1> QED  BY <1>2, <1>3


LEMMA SameOnwards ==
  ASSUME TypeOK, owed' = owed, under' = under, issued' = issued, held' \subseteq held
  PROVE  Onwards
  BY DEF TypeOK, Onwards

\* A step that neither starts a round nor moves one on.
LEMMA RestSaves ==
  ASSUME TypeOK, SavesInv, Calm, Onwards, snap' = snap
  PROVE  SavesInv'
  <1>1. ASSUME NEW p \in Pods
        PROVE  RoundOf(p)'
    <2>1. RoomGrows(p)
      BY CalmGrows DEF Grows
    <2>2. OpCalm(p) /\ RoundOf(p)
      BY CalmOf DEF SavesInv
    <2> QED  BY <2>1, <2>2, RoundGrows DEF OpCalm
  <1> QED  BY <1>1 DEF SavesInv, CommitSeesAll

LEMMA AloneSaves ==
  ASSUME TypeOK, SavesInv, Calm, snap' = snap,
         owed' = owed, under' = under, issued' = issued, held' \subseteq held
  PROVE  SavesInv'
  BY SameOnwards, RestSaves

\* A step of a pod that is not saving.
LEMMA OtherSaves ==
  ASSUME TypeOK, SavesInv, NEW p \in Pods, op'[p].kind # "commit",
         \A q \in Pods \ {p} : Still(q), Onwards, snap' = snap
  PROVE  SavesInv'
  <1>1. RoundOf(p)'
    BY DEF RoundOf
  <1>2. ASSUME NEW q \in Pods \ {p}
        PROVE  RoundOf(q)'
    <2>1. RoomGrows(q) /\ op'[q] = op[q]
      BY <1>2 DEF Still, RoomGrows
    <2> QED  BY <2>1, RoundGrows DEF SavesInv
  <1> QED  BY <1>1, <1>2 DEF SavesInv, CommitSeesAll

LEMMA StartJoinSaves ==
  ASSUME TypeOK, SavesInv, NEW c \in Sockets, StartJoin(c)
  PROVE  SavesInv'
  <1>1. Grows /\ \A p \in Pods : op'[p].kind = "commit" => op'[p] = op[p]
    BY StartJoinGrows
  <1>2. /\ owed' = owed /\ under' = under /\ issued' = issued /\ held' = held /\ snap' = snap
    BY DEF StartJoin
  <1>3. Onwards
    BY <1>2, SameOnwards
  <1>4. \A p \in Pods : RoundOf(p)'
    BY <1>1, <1>3, RoundGrows DEF SavesInv, Grows
  <1> QED  BY <1>2, <1>4 DEF SavesInv, CommitSeesAll

LEMMA MergeSaves ==
  ASSUME TypeOK, AdmInv, DocsInv, SavesInv, NEW m \in bus, Merge(m)
  PROVE  SavesInv'
  <1>1. Grows /\ op' = op
    BY MergeGrows
  <1>2. /\ owed' = owed /\ under' = under /\ issued' = issued /\ held' = held /\ snap' = snap
    BY DEF Merge
  <1>3. Onwards
    BY <1>2, SameOnwards
  <1>4. \A p \in Pods : RoundOf(p)'
    BY <1>1, <1>3, RoundGrows DEF SavesInv, Grows
  <1> QED  BY <1>2, <1>4 DEF SavesInv, CommitSeesAll

LEMMA AdmitSaves ==
  ASSUME TypeOK, AdmInv, SavesInv, NEW p \in Pods, Admit(p)
  PROVE  SavesInv'
  <1> DEFINE a == issued + 1
             r == Owning(room[p], a)
  <1>1. a \in Admissions
    BY BoundsAssumption DEF Admit, TypeOK, Admissions
  <1>2. /\ op[p].step = "admit" /\ issued' = a /\ held' = held \cup {a}
        /\ under' = under /\ owed' = owed /\ snap' = snap
        /\ \/ room' = room /\ op' = [op EXCEPT ![p] = [op[p] EXCEPT !.step = "init", !.acquired = a]]
           \/ room' = [room EXCEPT ![p] = r] /\ Goto(p, "owners")
    BY DEF Admit
  <1>3. op[p].kind = "join"
    BY <1>2, ShapeAt, KindOf
  <1>4. issued < a /\ a \in Nat
    BY DEF TypeOK
  <1> HIDE DEF a, r
  <1>5. op'[p].kind # "commit" /\ \A q \in Pods \ {p} : op'[q] = op[q]
    BY <1>1, <1>2, <1>3, AdmitAt, GotoAt DEF Onward, Steps
  <1>6. \A q \in Pods \ {p} : room'[q] = room[q]
    BY <1>2 DEF TypeOK
  <1>7. Onwards
    BY <1>2, <1>4 DEF Onwards, TypeOK
  <1> QED  BY <1>2, <1>5, <1>6, <1>7, OtherSaves DEF Still

LEMMA InitDocSaves ==
  ASSUME TypeOK, AdmInv, SavesInv, NEW p \in Pods, InitDoc(p)
  PROVE  SavesInv'
  <1> DEFINE r == Owning(Adopted(room[p], Stored), op[p].acquired)
  <1>1. /\ op[p].step = "init" /\ Goto(p, "owners") /\ room' = [room EXCEPT ![p] = r]
        /\ held' = held /\ issued' = issued /\ under' = under /\ owed' = owed /\ snap' = snap
    BY DEF InitDoc
  <1>2. op[p].kind = "join"
    BY <1>1, ShapeAt, KindOf
  <1> HIDE DEF r
  <1>3. op'[p].kind # "commit" /\ \A q \in Pods \ {p} : op'[q] = op[q]
    BY <1>1, <1>2, GotoAt DEF Onward, Steps
  <1>4. \A q \in Pods \ {p} : room'[q] = room[q]
    BY <1>1 DEF TypeOK
  <1> QED  BY <1>1, <1>3, <1>4, SameOnwards, OtherSaves DEF Still

LEMMA FlushSaves ==
  ASSUME TypeOK, AdmInv, DocsInv, SavesInv, NEW p \in Pods, Flush(p)
  PROVE  SavesInv'
  <1>1. /\ held' = held /\ issued' = issued /\ under' = under /\ owed' = owed /\ snap' = snap
    BY DEF Flush
  <1>2. op'[p].kind # "commit" /\ \A q \in Pods \ {p} : Still(q)
    BY FlushIs DEF Onward
  <1> QED  BY <1>1, <1>2, SameOnwards, OtherSaves

\* An edit is accepted once.
LEMMA ApplySaves ==
  ASSUME TypeOK, AdmInv, EditsInv, SavesInv, NEW w \in Writers, Apply(w)
  PROVE  SavesInv'
  <1>1. /\ frame[w] \in held /\ held' = held /\ issued' = issued /\ snap' = snap
        /\ owed' = owed \cup {w} /\ under' = [under EXCEPT ![w] = frame[w]]
    BY DEF Apply, Accept
  <1>2. w \notin owed
    <2>1. held \subseteq 1..issued
      BY DEF AdmInv
    <2>2. frame[w] # 0
      BY <1>1, <2>1 DEF TypeOK
    <2> QED  BY <2>2 DEF EditsInv, Accepted
  <1>3. Onwards
    BY <1>1, <1>2 DEF Onwards, TypeOK
  <1> QED  BY <1>1, <1>3, ApplyCalm, RestSaves

\* No authored body while a Save runs.
LEMMA AuthorSaves ==
  ASSUME TypeOK, SavesInv, NEW u \in Authors, Author(u)
  PROVE  SavesInv'
  <1>1. (\A p \in Pods : op[p].kind # "commit") /\ op' = op /\ snap' = snap
    BY DEF Author
  <1>2. \A p \in Pods : RoundOf(p)'
    BY <1>1 DEF RoundOf
  <1> QED  BY <1>1, <1>2 DEF SavesInv, CommitSeesAll

-----------------------------------------------------------------------------
(* Saves: the steps of a round                                              *)

LEMMA StartCommitSaves ==
  ASSUME TypeOK, SavesInv, NEW p \in Pods, StartCommit(p)
  PROVE  SavesInv'
  <1>1. /\ Grows /\ op'[p].kind = "commit" /\ op'[p].step = "owners" /\ op'[p].must = owed
        /\ \A q \in Pods \ {p} : op'[q] = op[q]
    BY StartCommitGrows
  <1>2. /\ owed' = owed /\ under' = under /\ issued' = issued /\ held' = held /\ snap' = snap
    BY DEF StartCommit
  <1>3. RoundOf(p)'
    BY <1>1, <1>2 DEF RoundOf
  <1>4. Onwards
    BY <1>2, SameOnwards
  <1>5. \A q \in Pods \ {p} : RoundOf(q)'
    BY <1>1, <1>4, RoundGrows DEF SavesInv, Grows
  <1> QED  BY <1>2, <1>3, <1>5 DEF SavesInv, CommitSeesAll

\* Every edit accepted so far is in the room, or under an admission the round
\* must hear from.
LEMMA OwnersSaves ==
  ASSUME TypeOK, AdmInv, Quiet, DocsInv, EditsInv, SavesInv, NEW p \in Pods,
         op[p].tries < MaxTries, Owners(p)
  PROVE  SavesInv'
  <1>1. /\ store.doc \subseteq room'[p].doc
        /\ room[p].adm # 0 => room[p].doc \subseteq room'[p].doc
        /\ \A q \in Pods \ {p} : Still(q)
    BY OwnersGrows
  <1>2. /\ op'[p].kind = op[p].kind /\ op'[p].owners = held /\ op'[p].dumps = {}
        /\ op'[p].waiting = held \ {room[p].adm} /\ op'[p].must = op[p].must
    BY OwnersAt DEF Others
  <1>3. /\ owed' = owed /\ under' = under /\ issued' = issued /\ held' = held /\ snap' = snap
        /\ op[p].step = "owners" /\ store.doc # {}
    BY DEF Owners
  <1>4. held \subseteq 1..issued /\ 0 \notin held
    BY ShapeAt
  <1>5. Current \subseteq room'[p].doc
    <2>1. ~deleting
      BY <1>3, BusyAwake
    <2> QED  BY <1>1, <1>3, <2>1 DEF Current
  <1>6. ASSUME op[p].kind = "commit", NEW x \in op[p].must, x \notin room'[p].doc
        PROVE  Coming(op'[p], x, under'[x], held')
    <2>1. x \in Writers /\ under[x] \in held
      BY <1>5, <1>6 DEF SavesInv, RoundOf, EditsInv, Stays
    <2>2. under[x] # room[p].adm
      <3> SUFFICES ASSUME under[x] = room[p].adm
                   PROVE  FALSE
        OBVIOUS
      <3>1. under[x] # 0
        BY <1>4, <2>1
      <3>2. x \in room[p].doc
        BY <2>1, <3>1 DEF EditsInv, RoomEdits
      <3> QED  BY <1>1, <1>6, <3>1, <3>2
    <2> QED  BY <1>2, <1>3, <2>1, <2>2 DEF Coming
  <1>7. RoundOf(p)'
    <2>1. op[p].kind = "commit" => op[p].must \subseteq owed
      BY DEF SavesInv, RoundOf
    <2> QED  BY <1>2, <1>3, <1>4, <1>6, <2>1 DEF RoundOf
  <1>8. Onwards
    BY <1>3, SameOnwards
  <1>9. \A q \in Pods \ {p} : RoundOf(q)'
    <2> SUFFICES ASSUME NEW q \in Pods \ {p}
                 PROVE  RoundOf(q)'
      OBVIOUS
    <2>1. RoomGrows(q) /\ op'[q] = op[q]
      BY <1>1 DEF Still, RoomGrows
    <2> QED  BY <1>8, <2>1, RoundGrows DEF SavesInv
  <1> QED  BY <1>3, <1>7, <1>9 DEF SavesInv, CommitSeesAll

\* A dump has every edit of the admission it answers for.
LEMMA ReplyDumpSaves ==
  ASSUME TypeOK, AdmInv, DocsInv, EditsInv, SavesInv, NEW p \in Pods, NEW q \in Pods, ReplyDump(p, q)
  PROVE  SavesInv'
  <1>1. /\ Grows /\ op'[p].step = op[p].step /\ op'[p].kind = op[p].kind /\ op'[p].must = op[p].must
        /\ op'[p].owners = op[p].owners /\ op'[p].waiting = op[p].waiting
        /\ op'[p].dumps = op[p].dumps \cup {[adm |-> room[q].adm, doc |-> room'[q].doc]}
        /\ room[q].adm # 0 /\ room[q].doc \subseteq room'[q].doc
        /\ \A k \in Pods \ {p} : op'[k] = op[k]
    BY ReplyDumpGrows
  <1>2. /\ owed' = owed /\ under' = under /\ issued' = issued /\ held' = held /\ snap' = snap
        /\ op[p].step = "wait"
    BY DEF ReplyDump
  <1>3. room[p].doc \subseteq room'[p].doc
    BY <1>1, <1>2 DEF Grows, RoomGrows
  <1>4. ASSUME op[p].kind = "commit", NEW x \in op[p].must, x \notin room'[p].doc
        PROVE  Coming(op'[p], x, under'[x], held')
    <2>1. Coming(op[p], x, under[x], held)
      BY <1>2, <1>3, <1>4 DEF SavesInv, RoundOf
    <2>2. under[x] = room[q].adm => x \in room'[q].doc
      BY <1>1, <2>1 DEF Coming, EditsInv, RoomEdits
    <2>3. ASSUME NEW d \in op'[p].dumps, d.adm = under[x]
          PROVE  x \in d.doc
      BY <1>1, <2>1, <2>2, <2>3 DEF Coming
    <2> QED  BY <1>1, <1>2, <2>1, <2>3 DEF Coming
  <1>5. RoundOf(p)'
    <2>1. op[p].kind = "commit" => op[p].must \subseteq owed /\ op[p].owners \subseteq 1..issued
      BY <1>2 DEF SavesInv, RoundOf
    <2> QED  BY <1>1, <1>2, <1>4, <2>1 DEF RoundOf
  <1>6. Onwards
    BY <1>2, SameOnwards
  <1>7. \A k \in Pods \ {p} : RoundOf(k)'
    BY <1>1, <1>6, RoundGrows DEF SavesInv, Grows
  <1> QED  BY <1>2, <1>5, <1>7 DEF SavesInv, CommitSeesAll

LEMMA TakeDumpSaves ==
  ASSUME TypeOK, AdmInv, DocsInv, SavesInv, NEW p \in Pods, TakeDump(p)
  PROVE  SavesInv'
  <1>1. /\ Grows /\ room[p].doc \subseteq room'[p].doc
        /\ op'[p].step = op[p].step /\ op'[p].kind = op[p].kind /\ op'[p].must = op[p].must
        /\ op'[p].owners = op[p].owners /\ op'[p].dumps = op[p].dumps
        /\ \A k \in Pods \ {p} : op'[k] = op[k]
    BY TakeDumpGrows
  <1>2. PICK d \in op[p].dumps : op'[p].waiting = op[p].waiting \ {d.adm} /\ d.doc \subseteq room'[p].doc
    BY TakeDumpGrows
  <1>3. /\ owed' = owed /\ under' = under /\ issued' = issued /\ held' = held /\ snap' = snap
        /\ op[p].step = "wait"
    BY DEF TakeDump
  <1>4. ASSUME op[p].kind = "commit", NEW x \in op[p].must, x \notin room'[p].doc
        PROVE  Coming(op'[p], x, under'[x], held')
    <2>1. Coming(op[p], x, under[x], held)
      BY <1>1, <1>3, <1>4 DEF SavesInv, RoundOf
    <2>2. under[x] # d.adm
      BY <1>2, <1>4, <2>1 DEF Coming
    <2> QED  BY <1>1, <1>2, <1>3, <2>1, <2>2 DEF Coming
  <1>5. RoundOf(p)'
    <2>1. op[p].kind = "commit" => op[p].must \subseteq owed /\ op[p].owners \subseteq 1..issued
      BY <1>3 DEF SavesInv, RoundOf
    <2> QED  BY <1>1, <1>3, <1>4, <2>1 DEF RoundOf
  <1>6. Onwards
    BY <1>3, SameOnwards
  <1>7. \A k \in Pods \ {p} : RoundOf(k)'
    BY <1>1, <1>6, RoundGrows DEF SavesInv, Grows
  <1> QED  BY <1>3, <1>5, <1>7 DEF SavesInv, CommitSeesAll

\* The owners that held admissions when the round began are the ones that hold
\* them now, and each has been heard.
LEMMA SettleSaves ==
  ASSUME TypeOK, AdmInv, DocsInv, SavesInv, NEW p \in Pods, Settle(p)
  PROVE  SavesInv'
  <1> DEFINE r == Adopted(room[p], store.doc)
  <1>1. /\ op[p].step = "wait" /\ op[p].waiting = {} /\ store.doc # {}
        /\ owed' = owed /\ under' = under /\ issued' = issued /\ held' = held
    BY DEF Settle, Answered
  <1>2. snap' = snap \/ (/\ op[p].kind # "join" /\ held = op[p].owners
                         /\ snap' = [nr |-> snap.nr + 1, must |-> op[p].must, got |-> r.doc])
    BY DEF Settle, Conclude, Confirmed, Again
  <1>3. r.doc = room[p].doc \cup store.doc
    <2>1. SameSeed(store.doc, store.doc)
      BY <1>1 DEF SameSeed
    <2> QED  BY <1>1, <2>1, RealAdopts
  <1> HIDE DEF r
  <1>4. ASSUME op[p].kind # "join", held = op[p].owners
        PROVE  op[p].must \subseteq room[p].doc
    <2>1. op[p].kind = "commit"
      BY <1>1, <1>4, ShapeAt, KindOf
    <2> SUFFICES ASSUME NEW x \in op[p].must, x \notin room[p].doc
                 PROVE  FALSE
      OBVIOUS
    <2>2. Coming(op[p], x, under[x], held)
      BY <1>1, <2>1 DEF SavesInv, RoundOf
    <2> QED  BY <1>1, <1>4, <2>2 DEF Coming
  <1>5. CommitSeesAll'
    BY <1>2, <1>3, <1>4 DEF SavesInv, CommitSeesAll
  <1>6. Onwards
    BY <1>1, SameOnwards
  <1>7. ASSUME NEW q \in Pods
        PROVE  RoundOf(q)'
    <2>1. RoomGrows(q)
      BY SettleCalm, CalmGrows DEF Grows
    <2>2. OpCalm(q) /\ RoundOf(q)
      BY SettleCalm, CalmOf DEF SavesInv
    <2> QED  BY <1>6, <2>1, <2>2, RoundGrows DEF OpCalm
  <1> QED  BY <1>5, <1>7 DEF SavesInv

LEMMA InitSaves ==
  ASSUME Init
  PROVE  SavesInv
  BY IdleTyped DEF Init, SavesInv, RoundOf, CommitSeesAll

LEMMA NextSaves ==
  ASSUME TypeInv, AdmInv, Quiet, DocsInv, EditsInv, SavesInv, Hazards = {}, [Next]_vars
  PROVE  SavesInv'
  <1>0. TypeOK
    BY DEF TypeInv
  <1>1. CASE \E c \in Sockets : StartJoin(c) \/ Leave(c)
    <2>1. CASE \E c \in Sockets : Leave(c)
      <3>1. PICK c \in Sockets : Leave(c)
        BY <2>1
      <3>2. /\ owed' = owed /\ under' = under /\ issued' = issued /\ held' = held /\ snap' = snap
        BY <3>1 DEF Leave
      <3> QED  BY <1>0, <3>1, <3>2, LeaveCalm, AloneSaves
    <2> QED  BY <1>0, <1>1, <2>1, StartJoinSaves
  <1>2. CASE \E w \in Writers : Receive(w) \/ Apply(w) \/ Drop(w) \/ Demote(w)
    <2>1. CASE \E w \in Writers : Receive(w) \/ Drop(w) \/ Demote(w)
      <3>1. PICK w \in Writers : Receive(w) \/ Drop(w) \/ Demote(w)
        BY <2>1
      <3>2. /\ owed' = owed /\ under' = under /\ issued' = issued /\ held' = held /\ snap' = snap
        BY <3>1 DEF Receive, Drop, Demote
      <3>3. Receive(w) => Calm
        BY AsideCalm DEF Receive
      <3>4. Calm
        BY <1>0, <3>1, <3>3, DropCalm, DemoteCalm
      <3> QED  BY <1>0, <3>2, <3>4, AloneSaves
    <2> QED  BY <1>0, <1>2, <2>1, ApplySaves
  <1>3. CASE \E m \in bus : Merge(m)
    BY <1>0, <1>3, MergeSaves
  <1>4. CASE \E u \in Authors : Author(u)
    BY <1>0, <1>4, AuthorSaves
  <1>5. CASE Delete \/ (\E s \in pending : SaveBody(s) \/ SaveFails(s)) \/ UNCHANGED vars
    <2>1. /\ room' = room /\ op' = op
          /\ owed' = owed /\ under' = under /\ issued' = issued /\ held' = held /\ snap' = snap
      BY <1>5 DEF Delete, SaveBody, SaveFails, vars
    <2> QED  BY <1>0, <2>1, AsideCalm, AloneSaves
  <1>6. CASE \E p, q \in Pods : ReplyDump(p, q)
    BY <1>0, <1>6, ReplyDumpSaves
  <1>7. CASE \E p \in Pods : Check(p) \/ Admit(p) \/ InitDoc(p) \/ InitFails(p) \/ Attach(p)
    <2>1. CASE \E p \in Pods : Check(p) \/ InitFails(p) \/ Attach(p)
      <3>1. PICK p \in Pods : Check(p) \/ InitFails(p) \/ Attach(p)
        BY <2>1
      <3>2. /\ owed' = owed /\ under' = under /\ issued' = issued /\ held' \subseteq held /\ snap' = snap
        BY <3>1 DEF Check, InitFails, Attach
      <3>3. Calm
        BY <1>0, <3>1, CheckCalm, InitFailsCalm, AttachCalm
      <3> QED  BY <1>0, <3>2, <3>3, AloneSaves
    <2> QED  BY <1>0, <1>7, <2>1, AdmitSaves, InitDocSaves
  <1>8. CASE \E p \in Pods : Owners(p) \/ TakeDump(p) \/ Settle(p) \/ StartCommit(p)
    <2>1. PICK p \in Pods : Owners(p) \/ TakeDump(p) \/ Settle(p) \/ StartCommit(p)
      BY <1>8
    <2>2. CASE Owners(p)
      BY <1>0, <2>2, OwnersSaves DEF TypeInv, TriesLeft, Owners
    <2> QED  BY <1>0, <2>1, <2>2, TakeDumpSaves, SettleSaves, StartCommitSaves
  <1>9. CASE \E p \in Pods : Flush(p)
    BY <1>0, <1>9, FlushSaves
  <1>10. CASE \E p \in Pods : \/ RoundFails(p) \/ Persist(p) \/ StartRetire(p) \/ StartDrop(p) \/ StartClose(p)
                              \/ FlushFails(p) \/ Release(p) \/ ReleaseFails(p) \/ Crash(p)
    <2>1. PICK p \in Pods : \/ RoundFails(p) \/ Persist(p) \/ StartRetire(p) \/ StartDrop(p) \/ StartClose(p)
                            \/ FlushFails(p) \/ Release(p) \/ ReleaseFails(p) \/ Crash(p)
      BY <1>10
    <2>2. /\ owed' = owed /\ under' = under /\ issued' = issued /\ held' \subseteq held /\ snap' = snap
      <3>1. CASE RoundFails(p) \/ Persist(p) \/ StartRetire(p) \/ StartDrop(p) \/ StartClose(p)
        BY <3>1 DEF RoundFails, Persist, StartRetire, StartDrop, StartClose
      <3>2. CASE FlushFails(p) \/ Release(p) \/ ReleaseFails(p) \/ Crash(p)
        BY <3>2 DEF FlushFails, Release, ReleaseFails, Crash
      <3> QED  BY <2>1, <3>1, <3>2
    <2>3. Calm
      <3>1. CASE RoundFails(p) \/ Persist(p) \/ StartRetire(p) \/ StartDrop(p) \/ StartClose(p)
        BY <1>0, <3>1, RoundFailsCalm, PersistCalm, StartRetireCalm, StartDropCalm, StartCloseCalm
      <3>2. CASE FlushFails(p) \/ Release(p) \/ ReleaseFails(p) \/ Crash(p)
        BY <1>0, <3>2, EndsCalm, CrashCalm
      <3> QED  BY <2>1, <3>1, <3>2
    <2> QED  BY <1>0, <2>2, <2>3, AloneSaves
  <1> QED  BY <1>1, <1>2, <1>3, <1>4, <1>5, <1>6, <1>7, <1>8, <1>9, <1>10 DEF Next

-----------------------------------------------------------------------------
(* The body: what a Save writes into it, and what a flush does              *)

\* A step that leaves the database alone, and takes no snapshot.
LEMMA AloneSaved ==
  ASSUME SavedInv, store' = store, deleting' = deleting, pending' \subseteq pending
  PROVE  SavedInv'
  BY DEF SavedInv, Text

LEMMA ConvertSaved ==
  ASSUME TypeInv, DocsInv, SavedInv, NEW p \in Pods, op[p].step = "init", Convert,
         deleting' = deleting, pending' = pending
  PROVE  SavedInv'
  <1>1. store'.doc = Stored /\ store'.body = store.body /\ store'.late = store.late
    BY DEF Convert, TypeInv, TypeOK
  <1>2. Stored # {} /\ (store.doc = {} => Text(Stored) = store.body)
    BY <1>1, ConvertDocs
  <1>3. store.doc # {} => Stored = store.doc
    BY DEF Stored
  <1> QED  BY <1>1, <1>2, <1>3 DEF SavedInv, Text

\* A flush writes the document and its text together.
LEMMA StoredSaved ==
  ASSUME SavedInv, store.doc \subseteq store'.doc, store'.body = Text(store'.doc), pending' = pending
  PROVE  SavedInv'
  BY DEF SavedInv

LEMMA AuthorSaved ==
  ASSUME NEW u \in Authors, Author(u)
  PROVE  SavedInv'
  BY DEF Author, SavedInv

LEMMA DeleteSaved ==
  ASSUME TypeOK, Quiet, Delete
  PROVE  SavedInv'
  <1>1. pending' = {} /\ store'.doc = {}
    BY DEF Delete, Quiet, TypeOK
  <1> QED  BY <1>1 DEF SavedInv, Text

\* A Save that writes has what it had to include, and leaves the rest late.
LEMMA SaveEndsSaved ==
  ASSUME TypeOK, SavedInv, NEW s \in pending, SaveBody(s) \/ SaveFails(s)
  PROVE  SavedInv'
  <1>1. CASE SaveFails(s)
    BY <1>1, AloneSaved DEF SaveFails
  <1>2. CASE SaveBody(s)
    <2>1. /\ store'.doc = store.doc /\ store'.body = s.body
          /\ store'.late = Text(store.doc) \ s.must
          /\ pending' = pending \ {s}
      BY <1>2 DEF SaveBody, TypeOK
    <2>2. s.must \subseteq s.body
      BY DEF SavedInv
    <2>3. Text(store'.doc) \subseteq store'.body \cup store'.late
      BY <2>1, <2>2 DEF Text
    <2> QED  BY <2>1, <2>3 DEF SavedInv
  <1> QED  BY <1>1, <1>2

\* A new snapshot has what its Save had to include: what the Save will write
\* is its text.
LEMMA SettleSaved ==
  ASSUME TypeOK, SavedInv, SavesInv', NEW p \in Pods, Settle(p)
  PROVE  SavedInv'
  <1> DEFINE r == Adopted(room[p], store.doc)
             n == [pod |-> p, nr |-> snap.nr + 1, must |-> op[p].must, body |-> Text(r.doc)]
  <1>1. store' = store /\ deleting' = deleting /\ store.doc # {}
    BY DEF Settle, Answered
  <1>2. \/ pending' = pending
        \/ /\ pending' = pending \cup {n}
           /\ snap' = [nr |-> snap.nr + 1, must |-> op[p].must, got |-> r.doc]
    BY DEF Settle, Conclude, Confirmed, Again
  <1>3. CASE pending' = pending
    BY <1>1, <1>3, AloneSaved
  <1>4. CASE /\ pending' = pending \cup {n}
             /\ snap' = [nr |-> snap.nr + 1, must |-> op[p].must, got |-> r.doc]
    <2>1. op[p].must \subseteq r.doc
      BY <1>4 DEF SavesInv, CommitSeesAll
    <2>2. op[p].must \subseteq Writers \cup Authors
      BY OpOf DEF Typed, Operations
    <2>3. n.must = op[p].must /\ n.body = Text(r.doc)
      OBVIOUS
    <2>4. n.must \subseteq n.body
      BY <2>1, <2>2, <2>3, NoSeed DEF Text
    <2> HIDE DEF n, r
    <2> QED  BY <1>1, <1>4, <2>4 DEF SavedInv, Text
  <1> QED  BY <1>2, <1>3, <1>4

LEMMA InitSaved ==
  ASSUME Init
  PROVE  SavedInv
  BY DEF Init, SavedInv, Text

LEMMA NextSaved ==
  ASSUME TypeInv, AdmInv, Quiet, DocsInv, SavesInv', SavedInv, [Next]_vars
  PROVE  SavedInv'
  <1>0. TypeOK
    BY DEF TypeInv
  <1>1. CASE \E c \in Sockets : StartJoin(c) \/ Leave(c)
    BY <1>1, AloneSaved DEF StartJoin, Leave
  <1>2. CASE \E w \in Writers : Receive(w) \/ Apply(w) \/ Drop(w) \/ Demote(w)
    BY <1>2, AloneSaved DEF Receive, Apply, Drop, Demote
  <1>3. CASE (\E m \in bus : Merge(m)) \/ (\E p, q \in Pods : ReplyDump(p, q))
    BY <1>3, AloneSaved DEF Merge, ReplyDump
  <1>4. CASE \E s \in pending : SaveBody(s) \/ SaveFails(s)
    BY <1>0, <1>4, SaveEndsSaved
  <1>5. CASE (\E u \in Authors : Author(u)) \/ Delete
    BY <1>0, <1>5, AuthorSaved, DeleteSaved
  <1>6. CASE \E p \in Pods : Check(p) \/ Admit(p) \/ InitDoc(p) \/ InitFails(p) \/ Attach(p)
    <2>1. PICK p \in Pods : Check(p) \/ Admit(p) \/ InitDoc(p) \/ InitFails(p) \/ Attach(p)
      BY <1>6
    <2>2. CASE Check(p) \/ Admit(p) \/ Attach(p)
      BY <2>2, AloneSaved DEF Check, Admit, Attach
    <2>3. CASE InitDoc(p)
      BY <2>3, ConvertSaved DEF InitDoc
    <2>4. CASE InitFails(p)
      <3>1. /\ op[p].step = "init" /\ deleting' = deleting /\ pending' = pending
            /\ Convert \/ store' = store
        BY <2>4 DEF InitFails
      <3> QED  BY <3>1, ConvertSaved, AloneSaved
    <2> QED  BY <2>1, <2>2, <2>3, <2>4
  <1>7. CASE \E p \in Pods : Owners(p) \/ TakeDump(p) \/ Settle(p) \/ RoundFails(p) \/ StartCommit(p)
    <2>1. PICK p \in Pods : Owners(p) \/ TakeDump(p) \/ Settle(p) \/ RoundFails(p) \/ StartCommit(p)
      BY <1>7
    <2>2. CASE Owners(p) \/ TakeDump(p) \/ RoundFails(p) \/ StartCommit(p)
      BY <2>2, AloneSaved DEF Owners, TakeDump, RoundFails, StartCommit
    <2> QED  BY <1>0, <2>1, <2>2, SettleSaved
  <1>8. CASE \E p \in Pods : Persist(p) \/ StartRetire(p) \/ StartDrop(p) \/ StartClose(p)
    <2>1. PICK p \in Pods : Persist(p) \/ StartRetire(p) \/ StartDrop(p) \/ StartClose(p)
      BY <1>8
    <2>2. CASE StartRetire(p) \/ StartDrop(p) \/ StartClose(p)
      BY <2>2, AloneSaved DEF StartRetire, StartDrop, StartClose
    <2>3. CASE Persist(p)
      <3>1. pending' = pending
        BY <2>3 DEF Persist
      <3> QED  BY <1>0, <2>3, <3>1, PersistCalm, StoredSaved
    <2> QED  BY <2>1, <2>2, <2>3
  <1>9. CASE \E p \in Pods : Flush(p) \/ FlushFails(p) \/ Release(p) \/ ReleaseFails(p) \/ Crash(p)
    <2>1. PICK p \in Pods : Flush(p) \/ FlushFails(p) \/ Release(p) \/ ReleaseFails(p) \/ Crash(p)
      BY <1>9
    <2>2. CASE FlushFails(p) \/ Release(p) \/ ReleaseFails(p) \/ Crash(p)
      BY <2>2, AloneSaved DEF FlushFails, Release, ReleaseFails, Crash
    <2>3. CASE Flush(p)
      <3>1. pending' = pending
        BY <2>3 DEF Flush
      <3> QED  BY <1>0, <2>3, <3>1, FlushIs, StoredSaved
    <2> QED  BY <2>1, <2>2, <2>3
  <1>10. CASE UNCHANGED vars
    BY <1>10, AloneSaved DEF vars
  <1> QED  BY <1>1, <1>2, <1>3, <1>4, <1>5, <1>6, <1>7, <1>8, <1>9, <1>10 DEF Next

-----------------------------------------------------------------------------
(* What the rooms promise, while none of the four open orders happens       *)

RoomInv == TypeInv /\ AdmInv /\ Quiet /\ DocsInv /\ EditsInv /\ SavesInv /\ SavedInv

\* The inductive invariant, each layer resting on those before it: who has an
\* admission (AdmInv), that nobody acts while an authored body waits for its
\* second transaction (Quiet), whose identity each document has (DocsInv),
\* where each edit is (EditsInv), what a round still waits for (SavesInv), and
\* what a Save will write, or has written, into the body (SavedInv).
THEOREM RoomInvHolds ==
  ASSUME Hazards = {}
  PROVE  Spec => []RoomInv
  <1>1. ASSUME Init
        PROVE  RoomInv
    <2>1. Quiet
      BY <1>1 DEF Init, Quiet
    <2> QED  BY <1>1, <2>1, InitTyped, InitAdm, InitDocs, InitEdits, InitSaves, InitSaved DEF RoomInv
  <1>2. ASSUME RoomInv, [Next]_vars
        PROVE  RoomInv'
    <2>1. TypeInv /\ TypeOK /\ AdmInv /\ Quiet /\ DocsInv /\ EditsInv /\ SavesInv /\ SavedInv
      BY <1>2 DEF RoomInv, TypeInv
    <2>2. TypeInv' /\ AdmInv'
      BY <1>2, <2>1, NextTyped, NextAdm
    <2>3. Quiet' /\ DocsInv'
      BY <1>2, <2>1, NextQuiet, NextDocs
    <2>4. EditsInv' /\ SavesInv'
      BY <1>2, <2>1, NextEdits, NextSaves
    <2>5. SavedInv'
      BY <1>2, <2>1, <2>4, NextSaved
    <2> QED  BY <2>2, <2>3, <2>4, <2>5 DEF RoomInv
  <1> QED  BY <1>1, <1>2, PTL DEF Spec

\* Nothing accepted is lost, for any numbers of pods, connections and Saves: an
\* edit is in the room that holds its admission (RoomEdits) and, from a flush
\* on, in the stored document, and only then is the admission released; an
\* admission that a crash leaves behind stays held. The body has what the
\* document has, but for what the Save that wrote it last, from its earlier
\* snapshot, did not have to include (SavedInv).
THEOREM RoomsSurvive ==
  ASSUME Hazards = {}
  PROVE  Spec => []Survives
  <1>1. ASSUME RoomInv
        PROVE  Survives
    <2> SUFFICES ASSUME NEW x \in owed
                 PROVE  \/ x \in Writers /\ under[x] \in held
                        \/ x \in Current /\ x \in store.body \cup store.late
      BY DEF Survives
    <2>1. CASE x \in Writers /\ under[x] \in held
      BY <2>1
    <2>2. CASE x \in Current
      <3>1. CASE store.doc = {} \/ deleting
        BY <2>2, <3>1 DEF Current
      <3>2. CASE store.doc # {} /\ ~deleting
        <4>1. x \in store.doc /\ x \notin Seeds
          BY <1>1, <2>2, <3>2, NoSeed DEF Current, RoomInv, TypeInv, TypeOK
        <4> QED  BY <1>1, <2>2, <3>2, <4>1 DEF RoomInv, SavedInv, Text
      <3> QED  BY <3>1, <3>2
    <2> QED  BY <1>1, <2>1, <2>2 DEF RoomInv, EditsInv, Stays
  <1> QED  BY <1>1, RoomInvHolds, PTL

\* A Save holds every edit accepted before it began, on whichever pod: an edit
\* that its round has not merged is under an admission the round still has to
\* hear from, or one that is no longer held, and then the owners differ and
\* the round starts over (SavesInv).
THEOREM SavesSeeAll ==
  ASSUME Hazards = {}
  PROVE  Spec => []CommitSeesAll
  <1>1. RoomInv => CommitSeesAll
    BY DEF RoomInv, SavesInv
  <1> QED  BY <1>1, RoomInvHolds, PTL

\* No document merges two conversions of the same text: a room in use has the
\* stored document's seed, or the one of a reader, which the next document
\* replaces instead of merging (DocsInv).
THEOREM RoomsOneSeed ==
  ASSUME Hazards = {}
  PROVE  Spec => []OneSeed
  <1>1. RoomInv => OneSeed
    BY DocsSeed DEF RoomInv
  <1> QED  BY <1>1, RoomInvHolds, PTL

=============================================================================
