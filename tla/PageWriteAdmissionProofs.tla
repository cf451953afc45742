----------------------- MODULE PageWriteAdmissionProofs -----------------------
(***************************************************************************)
(* Proofs about PageWriteAdmission, for any numbers of processes, intents  *)
(* and pages and any policies: its types, that it implements PageOwnership *)
(* and so keeps the rules of that specification, which are inductive, and  *)
(* what it promises about effects.                                         *)
(***************************************************************************)
EXTENDS PageWriteAdmission, TLAPS

LEMMA StatusType ==
  ASSUME row \in [Intents -> Rows], NEW i \in Intents,
         NEW s \in {"none", "inserting", "aborted", "pending"} \cup Settled,
         SetStatus(i, s)
  PROVE  row' \in [Intents -> Rows]
  BY DEF Rows, SetStatus

LEMMA MarksType ==
  ASSUME row \in [Intents -> Rows], NEW i \in Intents, NEW M \in SUBSET Marks,
         row' = [row EXCEPT ![i].marks = @ \cup M]
  PROVE  row' \in [Intents -> Rows]
  BY DEF Rows

LEMMA EffType ==
  ASSUME eff \in [Runtimes -> [Intents -> Effects]],
         NEW r \in Runtimes, NEW i \in Intents, NEW s \in Effects, SetEff(r, i, s)
  PROVE  eff' \in [Runtimes -> [Intents -> Effects]]
  BY DEF SetEff

LEMMA OpType ==
  ASSUME op \in [Runtimes -> [Intents -> Operations]],
         NEW r \in Runtimes, NEW i \in Intents, NEW o \in Operations, SetOp(r, i, o)
  PROVE  op' \in [Runtimes -> [Intents -> Operations]]
  BY DEF SetOp

LEMMA NewRowType ==
  ASSUME NEW r \in Runtimes, NEW m \in Modes, NEW P \in SUBSET Pages,
         NEW s \in {"none", "inserting", "aborted", "pending"} \cup Settled
  PROVE  NewRow(r, m, P, s) \in Rows
  BY DEF NewRow, Rows

LEMMA CancelType ==
  ASSUME row \in [Intents -> Rows], NEW r \in Runtimes, CancelNoStart(r)
  PROVE  row' \in [Intents -> Rows]
  BY DEF Rows, CancelNoStart, Settled

LEMMA IdleType == Idle \in Operations
  BY DEF Idle, At, Operations

LEMMA AtType ==
  ASSUME NEW a \in {"idle", "mark", "io", "sent", "finish", "discovered", "verify", "reverify"},
         NEW ph \in Phases \cup {"none"}
  PROVE  At(a, ph) \in Operations
  BY DEF At, Operations

LEMMA ReserveType ==
  ASSUME NEW r \in Runtimes, NEW i \in Intents, NEW m \in Modes, NEW P \in SUBSET Pages, TypeOK, Reserve(r, i, m, P)
  PROVE  TypeOK'
<1>1. row' \in [Intents -> Rows]
  BY NewRowType DEF Reserve, TypeOK, TypeDatabase, TypeMemory
<1>2. eff' \in [Runtimes -> [Intents -> Effects]]
  BY EffType DEF Reserve, Effects, TypeOK, TypeDatabase, TypeMemory
<1> QED
  BY <1>1, <1>2 DEF Reserve, TypeOK, TypeDatabase, TypeMemory, TypeWorld, world

LEMMA ReserveInTransactionType ==
  ASSUME NEW r \in Runtimes, NEW i \in Intents, NEW m \in Modes, NEW P \in SUBSET Pages, TypeOK, ReserveInTransaction(r, i, m, P)
  PROVE  TypeOK'
<1>1. row' \in [Intents -> Rows]
  BY NewRowType DEF ReserveInTransaction, TypeOK, TypeDatabase, TypeMemory
<1>2. eff' \in [Runtimes -> [Intents -> Effects]]
  BY EffType DEF ReserveInTransaction, Effects, TypeOK, TypeDatabase, TypeMemory
<1> QED
  BY <1>1, <1>2 DEF ReserveInTransaction, TypeOK, TypeDatabase, TypeMemory, TypeWorld, world

LEMMA EndCallerTransactionType ==
  ASSUME NEW i \in Intents, TypeOK, EndCallerTransaction(i)
  PROVE  TypeOK'
<1>1. row' \in [Intents -> Rows]
  BY StatusType DEF EndCallerTransaction, TypeOK, TypeDatabase, TypeMemory
<1> QED
  BY <1>1 DEF EndCallerTransaction, TypeOK, TypeDatabase, TypeMemory, TypeWorld, world, memory

LEMMA CancelBeforeEffectType ==
  ASSUME NEW r \in Runtimes, NEW i \in Intents, TypeOK, CancelBeforeEffect(r, i)
  PROVE  TypeOK'
<1>1. row' \in [Intents -> Rows]
  BY StatusType DEF CancelBeforeEffect, Settled, TypeOK, TypeDatabase, TypeMemory
<1>2. eff' \in [Runtimes -> [Intents -> Effects]]
  BY EffType DEF CancelBeforeEffect, Effects, TypeOK, TypeDatabase, TypeMemory
<1> QED
  BY <1>1, <1>2 DEF CancelBeforeEffect, TypeOK, TypeDatabase, TypeMemory, TypeWorld, world

LEMMA RunEffectType ==
  ASSUME NEW r \in Runtimes, NEW i \in Intents, NEW ph \in Phases, TypeOK, RunEffect(r, i, ph)
  PROVE  TypeOK'
<1>1. eff' \in [Runtimes -> [Intents -> Effects]]
  BY EffType DEF RunEffect, Effects, TypeOK, TypeDatabase, TypeMemory
<1>2. op' \in [Runtimes -> [Intents -> Operations]]
  BY OpType, AtType DEF RunEffect, TypeOK, TypeDatabase, TypeMemory
<1> QED
  BY <1>1, <1>2 DEF RunEffect, TypeOK, TypeDatabase, TypeMemory, TypeWorld, world, database

LEMMA FailEffectType ==
  ASSUME NEW r \in Runtimes, NEW i \in Intents, TypeMemory, FailEffect(r, i)
  PROVE  /\ eff' \in [Runtimes -> [Intents -> Effects]]
         /\ op' \in [Runtimes -> [Intents -> Operations]]
         /\ recFailed' \subseteq Runtimes \X Intents
<1>1. eff' \in [Runtimes -> [Intents -> Effects]]
  BY EffType DEF FailEffect, FailedEff, Effects, TypeMemory
<1>2. op' \in [Runtimes -> [Intents -> Operations]]
  BY OpType, IdleType DEF FailEffect, TypeMemory
<1>3. recFailed' \subseteq Runtimes \X Intents
  BY DEF FailEffect, TypeMemory
<1> QED
  BY <1>1, <1>2, <1>3

LEMMA EffectFailsType ==
  ASSUME NEW r \in Runtimes, NEW i \in Intents, TypeOK, EffectFails(r, i)
  PROVE  TypeOK'
<1>1. eff' \in [Runtimes -> [Intents -> Effects]]
  BY FailEffectType DEF EffectFails, TypeOK, TypeDatabase, TypeMemory
<1>2. op' \in [Runtimes -> [Intents -> Operations]]
  BY FailEffectType DEF EffectFails, TypeOK, TypeDatabase, TypeMemory
<1>3. recFailed' \subseteq Runtimes \X Intents
  BY FailEffectType DEF EffectFails, TypeOK, TypeDatabase, TypeMemory
<1> QED
  BY <1>1, <1>2, <1>3 DEF EffectFails, TypeOK, TypeDatabase, TypeMemory, TypeWorld, world, database

LEMMA MarkStartedType ==
  ASSUME NEW r \in Runtimes, NEW i \in Intents, TypeOK, MarkStarted(r, i)
  PROVE  TypeOK'
<1>1. op[r][i].ph \in Phases \cup {"none"}
  BY DEF Operations, TypeOK, TypeDatabase, TypeMemory
<1>2. row' \in [Intents -> Rows]
  <2> DEFINE M == IF IsRemote(op[r][i].ph) THEN {"started", "remote"} ELSE {"started"}
  <2>1. M \in SUBSET Marks
    BY DEF Marks
  <2>2. row' = [row EXCEPT ![i].marks = @ \cup M]
    BY DEF MarkStarted
  <2> HIDE DEF M
  <2> QED
    BY <2>1, <2>2, MarksType DEF TypeOK, TypeDatabase
<1>3. eff' \in [Runtimes -> [Intents -> Effects]]
  BY EffType, FailEffectType DEF MarkStarted, Effects, TypeOK, TypeDatabase, TypeMemory
<1>4. op' \in [Runtimes -> [Intents -> Operations]]
  BY <1>1, OpType, AtType, IdleType, FailEffectType DEF MarkStarted, TypeOK, TypeDatabase, TypeMemory
<1>5. recFailed' \subseteq Runtimes \X Intents
  BY FailEffectType DEF MarkStarted, TypeOK, TypeDatabase, TypeMemory
<1> QED
  BY <1>1, <1>2, <1>3, <1>4, <1>5 DEF MarkStarted, TypeOK, TypeDatabase, TypeMemory, TypeWorld, world

LEMMA MarkFinishedType ==
  ASSUME NEW r \in Runtimes, NEW i \in Intents, TypeOK, MarkFinished(r, i)
  PROVE  TypeOK'
<1>1. op[r][i].ph \in Phases \cup {"none"}
  BY DEF Operations, TypeOK, TypeDatabase, TypeMemory
<1>2. row' \in [Intents -> Rows]
  <2> DEFINE M == IF op[r][i].ph = "final" THEN {"done"} ELSE {}
  <2>1. M \in SUBSET Marks
    BY DEF Marks
  <2>2. row' = [row EXCEPT ![i].marks = @ \cup M]
    BY DEF MarkFinished
  <2> HIDE DEF M
  <2> QED
    BY <2>1, <2>2, MarksType DEF TypeOK, TypeDatabase
<1>3. eff' \in [Runtimes -> [Intents -> Effects]]
  BY EffType, FailEffectType DEF MarkFinished, Effects, TypeOK, TypeDatabase, TypeMemory
<1>4. op' \in [Runtimes -> [Intents -> Operations]]
  BY <1>1, OpType, AtType, IdleType, FailEffectType DEF MarkFinished, TypeOK, TypeDatabase, TypeMemory
<1>5. recFailed' \subseteq Runtimes \X Intents
  BY FailEffectType DEF MarkFinished, TypeOK, TypeDatabase, TypeMemory
<1> QED
  BY <1>1, <1>2, <1>3, <1>4, <1>5 DEF MarkFinished, TypeOK, TypeDatabase, TypeMemory, TypeWorld, world

LEMMA DispatchType ==
  ASSUME NEW r \in Runtimes, NEW i \in Intents, TypeOK, Dispatch(r, i)
  PROVE  TypeOK'
<1>1. op[r][i].ph \in Phases \cup {"none"}
  BY DEF Operations, TypeOK, TypeDatabase, TypeMemory
<1>2. op' \in [Runtimes -> [Intents -> Operations]]
  BY <1>1, OpType, AtType DEF Dispatch, TypeOK, TypeDatabase, TypeMemory
<1> QED
  BY <1>1, <1>2 DEF Dispatch, TypeOK, TypeDatabase, TypeMemory, TypeWorld, database

LEMMA LandType ==
  ASSUME NEW i \in Intents, TypeOK, Land(i)
  PROVE  TypeOK'
<1> QED
  BY DEF Land, TypeOK, TypeDatabase, TypeMemory, TypeWorld, database, memory

LEMMA ForeignEditType ==
  ASSUME NEW i \in Intents, TypeOK, ForeignEdit(i)
  PROVE  TypeOK'
<1> QED
  BY DEF ForeignEdit, TypeOK, TypeDatabase, TypeMemory, TypeWorld, database, memory

LEMMA RespondType ==
  ASSUME NEW r \in Runtimes, NEW i \in Intents, TypeOK, Respond(r, i)
  PROVE  TypeOK'
<1>1. op[r][i].ph \in Phases \cup {"none"}
  BY DEF Operations, TypeOK, TypeDatabase, TypeMemory
<1>2. op' \in [Runtimes -> [Intents -> Operations]]
  BY <1>1, OpType, AtType DEF Respond, TypeOK, TypeDatabase, TypeMemory
<1> QED
  BY <1>1, <1>2 DEF Respond, TypeOK, TypeDatabase, TypeMemory, TypeWorld, database

LEMMA WriteFilesType ==
  ASSUME NEW r \in Runtimes, NEW i \in Intents, TypeOK, WriteFiles(r, i)
  PROVE  TypeOK'
<1> QED
  BY DEF WriteFiles, TypeOK, TypeDatabase, TypeMemory, TypeWorld, database, memory

LEMMA LocalPhaseReturnsType ==
  ASSUME NEW r \in Runtimes, NEW i \in Intents, TypeOK, LocalPhaseReturns(r, i)
  PROVE  TypeOK'
<1>1. op[r][i].ph \in Phases \cup {"none"}
  BY DEF Operations, TypeOK, TypeDatabase, TypeMemory
<1>2. op' \in [Runtimes -> [Intents -> Operations]]
  BY <1>1, OpType, AtType DEF LocalPhaseReturns, TypeOK, TypeDatabase, TypeMemory
<1> QED
  BY <1>1, <1>2 DEF LocalPhaseReturns, TypeOK, TypeDatabase, TypeMemory, TypeWorld, database, world

LEMMA PublishType ==
  ASSUME NEW i \in Intents, TypeDatabase, Publish(i)
  PROVE  drift' \subseteq Intents /\ prepared' \subseteq Pages
  BY DEF Publish, Edit, Touching, Pending, TypeDatabase, Rows

LEMMA CompleteType ==
  ASSUME NEW r \in Runtimes, NEW i \in Intents, TypeOK, Complete(r, i)
  PROVE  TypeOK'
<1>1. row' \in [Intents -> Rows]
  BY StatusType DEF Complete, Settled, TypeOK, TypeDatabase, TypeMemory
<1>2. eff' \in [Runtimes -> [Intents -> Effects]]
  BY EffType DEF Complete, Effects, TypeOK, TypeDatabase, TypeMemory
<1>3. drift' \subseteq Intents /\ prepared' \subseteq Pages
  BY PublishType DEF Complete, TypeOK, TypeDatabase, TypeMemory
<1> QED
  BY <1>1, <1>2, <1>3 DEF Complete, TypeOK, TypeDatabase, TypeMemory, TypeWorld, world

LEMMA CompleteRereadsType ==
  ASSUME NEW r \in Runtimes, NEW i \in Intents, TypeOK, CompleteRereads(r, i)
  PROVE  TypeOK'
<1>1. eff' \in [Runtimes -> [Intents -> Effects]]
  BY EffType DEF CompleteRereads, Effects, TypeOK, TypeDatabase, TypeMemory
<1> QED
  BY <1>1 DEF CompleteRereads, TypeOK, TypeDatabase, TypeMemory, TypeWorld, world, database

LEMMA AdvanceType ==
  ASSUME NEW r \in Runtimes, NEW i \in Intents, TypeOK, Advance(r, i)
  PROVE  TypeOK'
<1>1. row' \in [Intents -> Rows]
  <2> DEFINE M == {"started"}
  <2>1. M \in SUBSET Marks
    BY DEF Marks
  <2>2. row' = [row EXCEPT ![i].marks = @ \cup M]
    BY DEF Advance
  <2> HIDE DEF M
  <2> QED
    BY <2>1, <2>2, MarksType DEF TypeOK, TypeDatabase
<1>2. drift' \subseteq Intents /\ prepared' \subseteq Pages
  BY DEF Advance, Edit, Touching, Pending, Rows, TypeOK, TypeDatabase, TypeMemory
<1> QED
  BY <1>1, <1>2 DEF Advance, TypeOK, TypeDatabase, TypeMemory, TypeWorld, world

LEMMA WritePageType ==
  ASSUME NEW r \in Runtimes, NEW p \in Pages, TypeOK, WritePage(r, p)
  PROVE  TypeOK'
<1> QED
  BY DEF WritePage, TypeOK, TypeDatabase, TypeMemory, TypeWorld, Edit, Touching, Pending, memory, world

LEMMA WriteRoomType ==
  ASSUME NEW r \in Runtimes, NEW p \in Pages, TypeOK, WriteRoom(r, p)
  PROVE  TypeOK'
<1> QED
  BY DEF WriteRoom, TypeOK, TypeDatabase, TypeMemory, TypeWorld, Edit, Touching, Pending, memory, world

LEMMA AdmitRuntimeType ==
  ASSUME NEW r \in Runtimes, NEW p \in Pages, TypeOK, AdmitRuntime(r, p)
  PROVE  TypeOK'
<1> QED
  BY DEF AdmitRuntime, TypeOK, TypeDatabase, TypeMemory, TypeWorld, world

LEMMA ReleaseRuntimeType ==
  ASSUME NEW r \in Runtimes, NEW p \in Pages, TypeOK, ReleaseRuntime(r, p)
  PROVE  TypeOK'
<1> QED
  BY DEF ReleaseRuntime, TypeOK, TypeDatabase, TypeMemory, TypeWorld, world

LEMMA FreezeType ==
  ASSUME NEW r \in Runtimes, NEW p \in Pages, TypeOK, Freeze(r, p)
  PROVE  TypeOK'
<1> QED
  BY DEF Freeze, TypeOK, TypeDatabase, TypeMemory, TypeWorld, Edit, Touching, Pending, memory, world

LEMMA UnfreezeType ==
  ASSUME NEW r \in Runtimes, NEW p \in Pages, TypeOK, Unfreeze(r, p)
  PROVE  TypeOK'
<1> QED
  BY DEF Unfreeze, TypeOK, TypeDatabase, TypeMemory, TypeWorld, Edit, Touching, Pending, memory, world

LEMMA CloseGateType ==
  ASSUME NEW r \in Runtimes, TypeOK, CloseGate(r)
  PROVE  TypeOK'
<1> QED
  BY DEF CloseGate, TypeOK, TypeDatabase, TypeMemory, TypeWorld, database, world

LEMMA AcknowledgeType ==
  ASSUME NEW r \in Runtimes, TypeOK, Acknowledge(r)
  PROVE  TypeOK'
<1>1. row' \in [Intents -> Rows]
  BY CancelType DEF Acknowledge, TypeOK, TypeDatabase, TypeMemory
<1> QED
  BY <1>1 DEF Acknowledge, TypeOK, TypeDatabase, TypeMemory, TypeWorld, memory, world

LEMMA FenceAcknowledgedType ==
  ASSUME NEW r \in Runtimes, TypeOK, FenceAcknowledged(r)
  PROVE  TypeOK'
<1> QED
  BY DEF FenceAcknowledged, TypeOK, TypeDatabase, TypeMemory, TypeWorld, memory, world

LEMMA FenceUnacknowledgedType ==
  ASSUME NEW r \in Runtimes, TypeOK, FenceUnacknowledged(r)
  PROVE  TypeOK'
<1>1. row' \in [Intents -> Rows]
  BY CancelType DEF FenceUnacknowledged, TypeOK, TypeDatabase, TypeMemory
<1> QED
  BY <1>1 DEF FenceUnacknowledged, TypeOK, TypeDatabase, TypeMemory, TypeWorld, memory, world

LEMMA CrashType ==
  ASSUME NEW r \in Runtimes, TypeOK, Crash(r)
  PROVE  TypeOK'
<1>1. row' \in [Intents -> Rows]
  <2>1. row \in [Intents -> Rows]
    BY DEF TypeOK, TypeDatabase
  <2>2. \A i \in Intents : [row[i] EXCEPT !.status = "aborted"] \in Rows
    BY <2>1 DEF Rows
  <2> QED
    BY <2>1, <2>2 DEF Crash
<1>2. eff' \in [Runtimes -> [Intents -> Effects]]
  BY DEF Crash, Effects, TypeOK, TypeDatabase, TypeMemory
<1>3. op' \in [Runtimes -> [Intents -> Operations]]
  BY IdleType DEF Crash, TypeOK, TypeDatabase, TypeMemory
<1> QED
  BY <1>1, <1>2, <1>3 DEF Crash, TypeOK, TypeDatabase, TypeMemory, TypeWorld, world

LEMMA DiscoverType ==
  ASSUME NEW r \in Runtimes, NEW i \in Intents, TypeOK, Discover(r, i)
  PROVE  TypeOK'
<1>1. op' \in [Runtimes -> [Intents -> Operations]]
  BY OpType, AtType DEF Discover, TypeOK, TypeDatabase, TypeMemory
<1> QED
  BY <1>1 DEF Discover, TypeOK, TypeDatabase, TypeMemory, TypeWorld, database, world

LEMMA FailRecoveryType ==
  ASSUME NEW r \in Runtimes, NEW i \in Intents, NEW c \in BOOLEAN, TypeMemory,
         FailRecovery(r, i, c)
  PROVE  /\ eff' \in [Runtimes -> [Intents -> Effects]]
         /\ op' \in [Runtimes -> [Intents -> Operations]]
         /\ recFailed' \subseteq Runtimes \X Intents
<1>1. eff' \in [Runtimes -> [Intents -> Effects]]
  BY DEF FailRecovery, Effects, TypeMemory
<1>2. op' \in [Runtimes -> [Intents -> Operations]]
  BY OpType, IdleType DEF FailRecovery, TypeMemory
<1>3. recFailed' \subseteq Runtimes \X Intents
  BY DEF FailRecovery, TypeMemory
<1> QED
  BY <1>1, <1>2, <1>3

LEMMA RecoveryFailsType ==
  ASSUME NEW r \in Runtimes, NEW i \in Intents, TypeOK, RecoveryFails(r, i)
  PROVE  TypeOK'
<1>1. eff' \in [Runtimes -> [Intents -> Effects]]
  BY FailRecoveryType DEF RecoveryFails, TypeOK, TypeDatabase, TypeMemory
<1>2. op' \in [Runtimes -> [Intents -> Operations]]
  BY FailRecoveryType DEF RecoveryFails, TypeOK, TypeDatabase, TypeMemory
<1>3. recFailed' \subseteq Runtimes \X Intents
  BY FailRecoveryType DEF RecoveryFails, TypeOK, TypeDatabase, TypeMemory
<1> QED
  BY <1>1, <1>2, <1>3 DEF RecoveryFails, TypeOK, TypeDatabase, TypeMemory, TypeWorld, world, database

LEMMA ClaimType ==
  ASSUME NEW r \in Runtimes, NEW i \in Intents, TypeOK, Claim(r, i)
  PROVE  TypeOK'
<1>1. row' \in [Intents -> Rows]
  <2>1. row \in [Intents -> Rows]
    BY DEF TypeOK, TypeDatabase
  <2>2. row' = [row EXCEPT ![i].owner = r, ![i].marks = @ \cup {"claimed"}]
    BY DEF Claim
  <2>3. [row[i] EXCEPT !.owner = r, !.marks = @ \cup {"claimed"}] \in Rows
    BY <2>1 DEF Rows, Marks
  <2> QED
    BY <2>1, <2>2, <2>3
<1>2. eff' \in [Runtimes -> [Intents -> Effects]]
  <2>1. eff' \in {eff, [eff EXCEPT ![r][i] = "failed"]}
    BY DEF Claim
  <2>2. eff \in [Runtimes -> [Intents -> Effects]]
    BY DEF TypeOK, TypeMemory
  <2> QED
    BY <2>1, <2>2 DEF Effects
<1>3. op' \in [Runtimes -> [Intents -> Operations]]
  BY IdleType, AtType DEF Claim, TypeOK, TypeDatabase, TypeMemory
<1>4. recFailed' \subseteq Runtimes \X Intents
  BY DEF Claim, TypeOK, TypeDatabase, TypeMemory
<1> QED
  BY <1>1, <1>2, <1>3, <1>4 DEF Claim, TypeOK, TypeDatabase, TypeMemory, TypeWorld, world

LEMMA SettleRecoveredType ==
  ASSUME NEW r \in Runtimes, NEW i \in Intents, TypeOK, SettleRecovered(r, i)
  PROVE  TypeOK'
<1>1. row' \in [Intents -> Rows]
  BY StatusType DEF SettleRecovered, Settled, TypeOK, TypeDatabase, TypeMemory
<1>2. eff' \in [Runtimes -> [Intents -> Effects]]
  BY EffType, FailRecoveryType DEF SettleRecovered, Effects, TypeOK, TypeDatabase, TypeMemory
<1>3. op' \in [Runtimes -> [Intents -> Operations]]
  BY OpType, IdleType, FailRecoveryType DEF SettleRecovered, TypeOK, TypeDatabase, TypeMemory
<1>4. recFailed' \subseteq Runtimes \X Intents
  BY FailRecoveryType DEF SettleRecovered, TypeOK, TypeDatabase, TypeMemory
<1>5. drift' \subseteq Intents /\ prepared' \subseteq Pages
  BY PublishType DEF SettleRecovered, TypeOK, TypeDatabase, TypeMemory
<1> QED
  BY <1>1, <1>2, <1>3, <1>4, <1>5 DEF SettleRecovered, TypeOK, TypeDatabase, TypeMemory, TypeWorld, world

LEMMA StartRepairType ==
  ASSUME NEW r \in Runtimes, NEW i \in Intents, TypeOK, StartRepair(r, i)
  PROVE  TypeOK'
<1>1. eff' \in [Runtimes -> [Intents -> Effects]]
  BY EffType DEF StartRepair, Effects, TypeOK, TypeDatabase, TypeMemory
<1>2. op' \in [Runtimes -> [Intents -> Operations]]
  BY OpType, AtType DEF StartRepair, Phases, TypeOK, TypeDatabase, TypeMemory
<1> QED
  BY <1>1, <1>2 DEF StartRepair, TypeOK, TypeDatabase, TypeMemory, TypeWorld, world, database

LEMMA NextType ==
  ASSUME TypeOK, [Next]_vars
  PROVE  TypeOK'
<1>1. ASSUME NEW r \in Runtimes, NEW i \in Intents, OwnerStep(r, i)
      PROVE  TypeOK'
  BY <1>1, ReserveType, ReserveInTransactionType, CancelBeforeEffectType, RunEffectType,
     MarkStartedType, DispatchType, RespondType, WriteFilesType, LocalPhaseReturnsType,
     MarkFinishedType, EffectFailsType, AdvanceType, CompleteType, CompleteRereadsType
     DEF OwnerStep
<1>2. ASSUME NEW r \in Runtimes, NEW i \in Intents, RecoveryStep(r, i)
      PROVE  TypeOK'
  BY <1>2, DiscoverType, ClaimType, SettleRecoveredType, StartRepairType, RecoveryFailsType
     DEF RecoveryStep
<1>3. ASSUME NEW r \in Runtimes, NEW p \in Pages, PageStep(r, p)
      PROVE  TypeOK'
  BY <1>3, WritePageType, WriteRoomType, AdmitRuntimeType, ReleaseRuntimeType, FreezeType,
     UnfreezeType DEF PageStep
<1>4. ASSUME NEW r \in Runtimes, RetireStep(r)
      PROVE  TypeOK'
  BY <1>4, CloseGateType, AcknowledgeType, FenceAcknowledgedType, FenceUnacknowledgedType,
     CrashType DEF RetireStep
<1>5. ASSUME NEW i \in Intents, WorldStep(i)
      PROVE  TypeOK'
  BY <1>5, EndCallerTransactionType, LandType, ForeignEditType DEF WorldStep
<1>6. CASE UNCHANGED vars
  BY <1>6 DEF vars, database, memory, world, TypeOK, TypeDatabase, TypeMemory, TypeWorld
<1> QED
  BY <1>1, <1>2, <1>3, <1>4, <1>5, <1>6 DEF Next

\* The durable rows, the processes' memory and the outside world keep their
\* shape under every transaction, failure and crash of write admission.
THEOREM TypeCorrect == Spec => []TypeOK
<1>1. Init => TypeOK
  BY IdleType DEF Init, TypeOK, TypeDatabase, TypeMemory, TypeWorld, Rows, Effects
<1>2. TypeOK /\ [Next]_vars => TypeOK'
  BY NextType
<1> QED
  BY <1>1, <1>2, PTL DEF Spec

-----------------------------------------------------------------------------
(***************************************************************************)
(* Write admission implements PageOwnership, step by step, and inherits    *)
(* its invariants.  The refinement map reads the durable rows only: what a *)
(* process remembers, and what is still on the wire, own nothing.          *)
(***************************************************************************)

\* Only an intent that was pending once can be out of date.
DriftSeen == \A i \in drift : row[i].status # "none"

\* The rows' claims, but for those of S, are as they were.
KeepsBut(S) ==
  /\ \A i \in Intents \ S : /\ row'[i].status = row[i].status \/ {row'[i].status, row[i].status} = {"inserting", "pending"}
                            /\ row'[i].pages = row[i].pages
                            /\ row'[i].mode = row[i].mode
  /\ \A i \in S : row'[i].status \notin {"inserting", "pending"}
  /\ drift' = drift

LEMMA DropHolds ==
  ASSUME TypeOK, TypeOK', NEW S \in SUBSET Intents, KeepsBut(S)
  PROVE  /\ HeldPages' = [i \in Intents |-> IF i \in S THEN {} ELSE HeldPages[i]]
         /\ References' = References \ S
         /\ Overtaken' = Overtaken \ S
<1>1. \A i \in Intents : i \in Holding' <=> i \in Holding \ S
  BY DEF KeepsBut, Holding
<1>2. HeldPages' = [i \in Intents |-> IF i \in S THEN {} ELSE HeldPages[i]]
  BY <1>1 DEF KeepsBut, HeldPages
<1>3. References' = References \ S
  BY <1>1 DEF KeepsBut, References, Holding
<1>4. Overtaken' = Overtaken \ S
  BY <1>1 DEF KeepsBut, Overtaken, Holding
<1> QED
  BY <1>2, <1>3, <1>4

LEMMA KeepHolds ==
  ASSUME TypeOK, TypeOK', KeepsBut({})
  PROVE  UNCHANGED <<HeldPages, References, Overtaken>>
<1>1. /\ HeldPages' = [i \in Intents |-> IF i \in {} THEN {} ELSE HeldPages[i]]
      /\ References' = References \ {}
      /\ Overtaken' = Overtaken \ {}
  BY DropHolds
<1>2. HeldPages' = HeldPages
  BY <1>1 DEF HeldPages
<1> QED
  BY <1>1, <1>2

\* A reservation adds one claim.
LEMMA AddHold ==
  ASSUME TypeOK, DriftSeen, NEW r \in Runtimes, NEW i \in Intents, NEW m \in Modes,
         NEW P \in SUBSET Pages, NEW s \in {"inserting", "pending"},
         row[i].status = "none", row' = [row EXCEPT ![i] = NewRow(r, m, P, s)], drift' = drift
  PROVE  /\ HeldPages' = [HeldPages EXCEPT ![i] = P]
         /\ References' = IF m = "reference" THEN References \cup {i} ELSE References
         /\ Overtaken' = Overtaken
<1>1. /\ row'[i].status \in {"inserting", "pending"}
      /\ row'[i].pages = P
      /\ row'[i].mode = m
      /\ \A j \in Intents : j # i => row'[j] = row[j]
  BY DEF TypeOK, TypeDatabase, NewRow
<1>2. Holding' = Holding \cup {i}
  BY <1>1 DEF Holding
<1>3. i \notin Holding /\ i \notin drift
  BY DEF Holding, DriftSeen
<1>4. HeldPages' = [HeldPages EXCEPT ![i] = P]
  <2>1. \A j \in Intents : HeldPages'[j] = IF j = i THEN P ELSE HeldPages[j]
    BY <1>1, <1>2 DEF HeldPages
  <2>2. /\ HeldPages = [j \in Intents |-> HeldPages[j]]
        /\ HeldPages' = [j \in Intents |-> HeldPages'[j]]
    BY DEF HeldPages
  <2> QED
    BY <2>1, <2>2
<1>5. References' = IF m = "reference" THEN References \cup {i} ELSE References
  BY <1>1, <1>2, <1>3 DEF References
<1>6. Overtaken' = Overtaken
  BY <1>2, <1>3 DEF Overtaken
<1> QED
  BY <1>4, <1>5, <1>6

\* Pages no transaction and no pending intent holds are unclaimed.
LEMMA FreePages ==
  ASSUME TypeOK, NEW P \in SUBSET Pages, Unlocked(P), Touching(P) = {}
  PROVE  \A p \in P : Ownership!Unclaimed(p)
  BY DEF Unlocked, Touching, Pending, Holding, HeldPages, Ownership!Unclaimed

-----------------------------------------------------------------------------
(* Every action is an ownership step or leaves ownership alone             *)

OwnershipStep == Ownership!Next \/ UNCHANGED Ownership!vars

LEMMA Stutter ==
  ASSUME TypeOK, TypeOK', KeepsBut({}), UNCHANGED <<admitted, frozen, prepared>>
  PROVE  OwnershipStep
  BY KeepHolds DEF OwnershipStep, Ownership!vars

LEMMA ReserveRefines ==
  ASSUME TypeOK, DriftSeen, NEW r \in Runtimes, NEW i \in Intents, NEW m \in Modes,
         NEW P \in SUBSET Pages, NEW s \in {"inserting", "pending"},
         row[i].status = "none", Reservable(r, m, P),
         row' = [row EXCEPT ![i] = NewRow(r, m, P, s)],
         UNCHANGED <<admitted, frozen, prepared, drift>>
  PROVE  Ownership!Take(i, P)
<1>1. /\ HeldPages' = [HeldPages EXCEPT ![i] = P]
      /\ References' = IF m = "reference" THEN References \cup {i} ELSE References
      /\ Overtaken' = Overtaken
  BY AddHold
<1>2. HeldPages[i] = {}
  BY DEF HeldPages, Holding
<1>3. \A p \in P : Ownership!Unclaimed(p)
  BY FreePages DEF Reservable
<1>4. m = "reference" \/ P \cap frozen = {}
  BY DEF Reservable
<1> QED
  BY <1>1, <1>2, <1>3, <1>4 DEF Ownership!Take

\* What a transaction that holds an intent's pages knows of its claim.
LEMMA HeldByIntent ==
  ASSUME TypeOK, NEW i \in Intents, HoldsPages(i)
  PROVE  /\ HeldPages[i] = row[i].pages
         /\ i \notin Overtaken
         /\ i \in References <=> row[i].mode = "reference"
         /\ i \notin References => HeldPages[i] \cap frozen = {}
         /\ Edit(row[i].pages, {i}) => drift' = drift /\ prepared' = prepared \ HeldPages[i]
<1>1. i \in Holding /\ i \in Pending /\ i \notin drift
  BY DEF HoldsPages, Holding, Pending
<1>2. HeldPages[i] = row[i].pages
  BY <1>1 DEF HeldPages
<1>3. Edit(row[i].pages, {i}) => drift' = drift /\ prepared' = prepared \ HeldPages[i]
  BY <1>1, <1>2 DEF HoldsPages, Edit
<1> QED
  BY <1>1, <1>2, <1>3 DEF HoldsPages, References, Overtaken

LEMMA SettleRefines ==
  ASSUME TypeOK, TypeOK', NEW i \in Intents, HoldsPages(i), NEW s \in Settled, SetStatus(i, s),
         Publish(i) \/ UNCHANGED <<drift, prepared>>, UNCHANGED <<admitted, frozen>>
  PROVE  Ownership!Settle(i)
<1>1. /\ drift' = drift
      /\ \/ prepared' = prepared
         \/ /\ i \notin References /\ HeldPages[i] \cap frozen = {}
            /\ prepared' \in {prepared \ HeldPages[i], prepared \cup HeldPages[i]}
  BY HeldByIntent DEF Publish
<1>2. KeepsBut({i})
  BY <1>1 DEF KeepsBut, SetStatus, Settled, TypeOK, TypeDatabase, Rows
<1>3. /\ HeldPages' = [j \in Intents |-> IF j \in {i} THEN {} ELSE HeldPages[j]]
      /\ References' = References \ {i}
      /\ Overtaken' = Overtaken \ {i}
  BY <1>2, DropHolds
<1>4. HeldPages' = [HeldPages EXCEPT ![i] = {}]
  BY <1>3 DEF HeldPages
<1>5. i \notin Overtaken /\ Overtaken' = Overtaken
  BY <1>3, HeldByIntent
<1> QED
  BY <1>1, <1>3, <1>4, <1>5 DEF Ownership!Settle

LEMMA AbandonRefines ==
  ASSUME TypeOK, TypeOK', NEW S \in SUBSET Intents, KeepsBut(S), NEW R \in SUBSET admitted,
         admitted' = admitted \ R, UNCHANGED <<frozen, prepared>>
  PROVE  Ownership!Abandon(S, R)
<1>1. /\ HeldPages' = [j \in Intents |-> IF j \in S THEN {} ELSE HeldPages[j]]
      /\ References' = References \ S
      /\ Overtaken' = Overtaken \ S
  BY DropHolds
<1> QED
  BY <1>1 DEF Ownership!Abandon

LEMMA OwnerRefines ==
  ASSUME TypeOK, TypeOK', DriftSeen, NEW r \in Runtimes, NEW i \in Intents, OwnerStep(r, i)
  PROVE  OwnershipStep
<1>1. ASSUME NEW m \in Modes, NEW P \in SUBSET Pages,
             Reserve(r, i, m, P) \/ ReserveInTransaction(r, i, m, P)
      PROVE  OwnershipStep
  <2>1. \E s \in {"inserting", "pending"} : row' = [row EXCEPT ![i] = NewRow(r, m, P, s)]
    BY <1>1 DEF Reserve, ReserveInTransaction
  <2>2. /\ row[i].status = "none" /\ Reservable(r, m, P)
        /\ UNCHANGED <<admitted, frozen, prepared, drift>>
    BY <1>1 DEF Reserve, ReserveInTransaction
  <2>3. Ownership!Take(i, P)
    BY <2>1, <2>2, ReserveRefines
  <2> QED
    BY <2>3 DEF OwnershipStep, Ownership!Next
<1>2. CASE CancelBeforeEffect(r, i)
  <2>1. Ownership!Settle(i)
    BY <1>2, SettleRefines DEF CancelBeforeEffect, LockWithIntent, Settled
  <2> QED
    BY <2>1 DEF OwnershipStep, Ownership!Next
<1>3. CASE Complete(r, i)
  <2>1. Ownership!Settle(i)
    BY <1>3, SettleRefines DEF Complete, LockWithIntent, Settled
  <2> QED
    BY <2>1 DEF OwnershipStep, Ownership!Next
<1>4. CASE MarkStarted(r, i) \/ MarkFinished(r, i)
  <2>1. KeepsBut({}) /\ UNCHANGED <<admitted, frozen, prepared>>
    BY <1>4 DEF MarkStarted, MarkFinished, KeepsBut, TypeOK, TypeDatabase, Rows
  <2> QED
    BY <2>1, Stutter
<1>5. CASE Advance(r, i)
  <2>1. KeepsBut({})
    <3>1. drift' = drift
      BY <1>5, HeldByIntent DEF Advance, LockWithIntent
    <3> QED
      BY <1>5, <3>1 DEF Advance, KeepsBut, TypeOK, TypeDatabase, Rows
  <2>2. UNCHANGED <<HeldPages, References, Overtaken>>
    BY <2>1, KeepHolds
  <2>3. \/ prepared' = prepared
        \/ i \notin References /\ HeldPages[i] \cap frozen = {} /\ prepared' = prepared \ HeldPages[i]
    BY <1>5, HeldByIntent DEF Advance, LockWithIntent
  <2>4. UNCHANGED Ownership!vars \/ Ownership!Change(i)
    BY <1>5, <2>2, <2>3 DEF Advance, Ownership!vars, Ownership!Change
  <2> QED
    BY <2>4 DEF OwnershipStep, Ownership!Next
<1>6. CASE UNCHANGED database
  BY <1>6, Stutter DEF database, KeepsBut
<1> QED
  BY <1>1, <1>2, <1>3, <1>4, <1>5, <1>6
     DEF OwnerStep, RunEffect, Dispatch, Respond, WriteFiles, LocalPhaseReturns, EffectFails,
         CompleteRereads, database

LEMMA RecoveryRefines ==
  ASSUME TypeOK, TypeOK', NEW r \in Runtimes, NEW i \in Intents, RecoveryStep(r, i)
  PROVE  OwnershipStep
<1>1. CASE Claim(r, i)
  <2>1. KeepsBut({}) /\ UNCHANGED <<admitted, frozen, prepared>>
    BY <1>1 DEF Claim, KeepsBut, TypeOK, TypeDatabase, Rows
  <2> QED
    BY <2>1, Stutter
<1>2. CASE SettleRecovered(r, i)
  <2>1. Ownership!Settle(i)
    BY <1>2, SettleRefines DEF SettleRecovered, Verifying, Settled
  <2> QED
    BY <2>1 DEF OwnershipStep, Ownership!Next
<1>3. CASE UNCHANGED database
  BY <1>3, Stutter DEF database, KeepsBut
<1> QED
  BY <1>1, <1>2, <1>3 DEF RecoveryStep, Discover, StartRepair, RecoveryFails, database

LEMMA PageRefines ==
  ASSUME TypeOK, TypeOK', NEW r \in Runtimes, NEW p \in Pages, PageStep(r, p)
  PROVE  OwnershipStep
<1>1. CASE WritePage(r, p) \/ WriteRoom(r, p)
  <2>1. /\ LockPageWrites({p}) /\ Edit({p}, {})
        /\ UNCHANGED <<row, admitted, frozen>>
    BY <1>1 DEF WritePage, WriteRoom
  <2>2. drift' = drift /\ prepared' = prepared \ {p} /\ p \notin frozen
    BY <2>1 DEF LockPageWrites, Edit
  <2>3. KeepsBut({})
    BY <2>1, <2>2 DEF KeepsBut
  <2>4. Ownership!Write(p)
    BY <2>1, <2>2, <2>3, KeepHolds, FreePages DEF LockPageWrites, Ownership!Write
  <2> QED
    BY <2>4 DEF OwnershipStep, Ownership!Next
<1>2. CASE AdmitRuntime(r, p)
  <2>1. KeepsBut({})
    BY <1>2 DEF AdmitRuntime, KeepsBut
  <2>2. Ownership!Enter(r, p)
    BY <1>2, <2>1, KeepHolds, FreePages DEF AdmitRuntime, LockPageWrites, Ownership!Enter
  <2> QED
    BY <2>2 DEF OwnershipStep, Ownership!Next
<1>3. CASE ReleaseRuntime(r, p)
  <2>1. KeepsBut({}) /\ UNCHANGED <<frozen, prepared>>
    BY <1>3 DEF ReleaseRuntime, KeepsBut
  <2>2. admitted' = admitted \ (admitted \cap {<<r, p>>})
    BY <1>3 DEF ReleaseRuntime
  <2>3. Ownership!Abandon({}, admitted \cap {<<r, p>>})
    BY <2>1, <2>2, AbandonRefines
  <2> QED
    BY <2>3 DEF OwnershipStep, Ownership!Next
<1>4. CASE Freeze(r, p)
  <2>1. /\ drift' = drift /\ frozen' = frozen \cup {p}
        /\ UNCHANGED <<row, admitted, prepared>>
    BY <1>4 DEF Freeze, AssertPageFreezeIdle
  <2>2. KeepsBut({})
    BY <2>1 DEF KeepsBut
  <2>3. Ownership!Unclaimed(p) /\ Ownership!NoRoom(p) /\ p \in prepared
    BY <1>4, FreePages DEF Freeze, AssertPageFreezeIdle, Ownership!NoRoom
  <2>4. Ownership!Freeze(p)
    BY <2>1, <2>2, <2>3, KeepHolds DEF Ownership!Freeze
  <2> QED
    BY <2>4 DEF OwnershipStep, Ownership!Next
<1>5. CASE Unfreeze(r, p)
  <2>1. /\ p \in frozen /\ Unlocked({p})
        /\ frozen' = frozen \ {p} /\ prepared' = prepared \ {p}
        /\ drift' = drift \cup Touching({p})
        /\ UNCHANGED <<row, admitted>>
    BY <1>5 DEF Unfreeze, Edit
  <2>2. UNCHANGED <<HeldPages, References>>
    BY <2>1 DEF HeldPages, References, Holding
  <2>3. Touching({p}) = {i \in Intents : p \in HeldPages[i]}
    BY <2>1 DEF Unlocked, Touching, Pending, Holding, HeldPages
  <2>4. Overtaken' = Overtaken \cup {i \in Intents : p \in HeldPages[i]}
    BY <2>1, <2>3 DEF Overtaken, Holding, HeldPages
  <2>5. Ownership!Thaw(p)
    BY <2>1, <2>2, <2>4 DEF Ownership!Thaw
  <2> QED
    BY <2>5 DEF OwnershipStep, Ownership!Next
<1> QED
  BY <1>1, <1>2, <1>3, <1>4, <1>5 DEF PageStep

LEMMA CancelKeeps ==
  ASSUME TypeOK, NEW r \in Runtimes, CancelNoStart(r), drift' = drift
  PROVE  \E S \in SUBSET Intents : KeepsBut(S)
<1> DEFINE S == {i \in Pending : row[i].owner = r /\ NoStart(i)}
<1>1. \A i \in Intents : i \notin S => row'[i] = row[i]
  BY DEF CancelNoStart
<1>2. \A i \in S : row'[i].status = "cancelled"
  BY DEF CancelNoStart, Pending, TypeOK, TypeDatabase, Rows
<1>3. KeepsBut(S)
  BY <1>1, <1>2 DEF KeepsBut, Pending
<1> QED
  BY <1>3 DEF Pending

LEMMA RetireRefines ==
  ASSUME TypeOK, TypeOK', NEW r \in Runtimes, RetireStep(r)
  PROVE  OwnershipStep
<1>1. CASE Acknowledge(r) \/ FenceUnacknowledged(r)
  <2>1. /\ CancelNoStart(r) /\ UNCHANGED <<frozen, prepared, drift>>
        /\ \E R \in SUBSET admitted : admitted' = admitted \ R
    <3>1. Acknowledge(r) => admitted' = admitted \ {}
      BY DEF Acknowledge
    <3>2. FenceUnacknowledged(r) => admitted' = admitted \ {a \in admitted : a[1] = r}
      BY DEF FenceUnacknowledged
    <3> QED
      BY <1>1, <3>1, <3>2 DEF Acknowledge, FenceUnacknowledged
  <2>2. PICK S \in SUBSET Intents, R \in SUBSET admitted : Ownership!Abandon(S, R)
    BY <2>1, CancelKeeps, AbandonRefines
  <2> QED
    BY <2>2 DEF OwnershipStep, Ownership!Next
<1>2. CASE Crash(r)
  <2> DEFINE S == {i \in Intents : row[i].status = "inserting" /\ row[i].owner = r}
  <2>1. KeepsBut(S)
    BY <1>2 DEF Crash, KeepsBut, TypeOK, TypeDatabase, Rows
  <2>2. admitted' = admitted \ {} /\ UNCHANGED <<frozen, prepared>>
    BY <1>2 DEF Crash
  <2>3. Ownership!Abandon(S, {})
    BY <2>1, <2>2, AbandonRefines
  <2> QED
    BY <2>3 DEF OwnershipStep, Ownership!Next
<1>3. CASE CloseGate(r) \/ FenceAcknowledged(r)
  BY <1>3, Stutter DEF CloseGate, FenceAcknowledged, database, KeepsBut
<1> QED
  BY <1>1, <1>2, <1>3 DEF RetireStep

LEMMA WorldRefines ==
  ASSUME TypeOK, TypeOK', NEW i \in Intents, WorldStep(i)
  PROVE  OwnershipStep
<1>1. CASE EndCallerTransaction(i)
  <2>1. /\ row[i].status = "inserting"
        /\ UNCHANGED <<admitted, frozen, prepared, drift>>
        /\ SetStatus(i, "pending") \/ SetStatus(i, "aborted")
    BY <1>1 DEF EndCallerTransaction
  <2>2. CASE SetStatus(i, "pending")
    BY <2>1, <2>2, Stutter DEF SetStatus, KeepsBut, TypeOK, TypeDatabase, Rows
  <2>3. CASE SetStatus(i, "aborted")
    <3>1. KeepsBut({i})
      BY <2>1, <2>3 DEF SetStatus, KeepsBut, TypeOK, TypeDatabase, Rows
    <3>2. Ownership!Abandon({i}, {})
      BY <2>1, <3>1, AbandonRefines
    <3> QED
      BY <3>2 DEF OwnershipStep, Ownership!Next
  <2> QED
    BY <2>1, <2>2, <2>3
<1>2. CASE Land(i) \/ ForeignEdit(i)
  BY <1>2, Stutter DEF Land, ForeignEdit, database, KeepsBut
<1> QED
  BY <1>1, <1>2 DEF WorldStep

\* A step that keeps the rows in use, and outdates pending intents only.
LEMMA SeenStep ==
  ASSUME DriftSeen, drift' \subseteq drift \cup Pending,
         \A i \in Intents : row[i].status # "none" => row'[i].status # "none", TypeOK
  PROVE  DriftSeen'
  BY DEF DriftSeen, Pending, TypeOK, TypeDatabase

LEMMA DriftSeenStep ==
  ASSUME TypeOK, DriftSeen, [Next]_vars
  PROVE  DriftSeen'
<1>1. ASSUME NEW i \in Intents, NEW s \in Settled \cup {"pending", "aborted"}, SetStatus(i, s)
      PROVE  \A j \in Intents : row[j].status # "none" => row'[j].status # "none"
  BY <1>1 DEF SetStatus, Settled, TypeOK, TypeDatabase, Rows
<1>2. ASSUME NEW i \in Intents, Publish(i)
      PROVE  drift' \subseteq drift \cup Pending
  BY <1>2 DEF Publish, Edit, Touching
<1>3. ASSUME NEW r \in Runtimes, NEW i \in Intents, OwnerStep(r, i)
      PROVE  DriftSeen'
  <2>1. ASSUME NEW m \in Modes, NEW P \in SUBSET Pages,
               Reserve(r, i, m, P) \/ ReserveInTransaction(r, i, m, P)
        PROVE  DriftSeen'
    BY <2>1, SeenStep DEF Reserve, ReserveInTransaction, NewRow, TypeOK, TypeDatabase, Rows
  <2>2. CASE CancelBeforeEffect(r, i) \/ Complete(r, i)
    BY <1>1, <1>2, <2>2, SeenStep DEF CancelBeforeEffect, Complete, Settled
  <2>3. CASE MarkStarted(r, i) \/ MarkFinished(r, i) \/ Advance(r, i)
    <3>1. \A j \in Intents : row'[j].status = row[j].status
      BY <2>3 DEF MarkStarted, MarkFinished, Advance, TypeOK, TypeDatabase, Rows
    <3>2. drift' \subseteq drift \cup Pending
      BY <2>3 DEF MarkStarted, MarkFinished, Advance, Edit, Touching
    <3> QED
      BY <3>1, <3>2, SeenStep
  <2>4. CASE UNCHANGED database
    BY <2>4 DEF database, DriftSeen
  <2> QED
    BY <1>3, <2>1, <2>2, <2>3, <2>4
       DEF OwnerStep, RunEffect, Dispatch, Respond, WriteFiles, LocalPhaseReturns, EffectFails,
           CompleteRereads, database
<1>4. ASSUME NEW r \in Runtimes, NEW i \in Intents, RecoveryStep(r, i)
      PROVE  DriftSeen'
  <2>1. CASE Claim(r, i)
    <3>1. (\A j \in Intents : row'[j].status = row[j].status) /\ drift' = drift
      BY <2>1 DEF Claim, TypeOK, TypeDatabase, Rows
    <3> QED
      BY <3>1, SeenStep
  <2>2. CASE SettleRecovered(r, i)
    <3>1. drift' \subseteq drift \cup Pending
      BY <2>2, <1>2 DEF SettleRecovered
    <3> QED
      BY <3>1, <1>1, <2>2, SeenStep DEF SettleRecovered, Settled
  <2>3. CASE UNCHANGED database
    BY <2>3 DEF database, DriftSeen
  <2> QED
    BY <1>4, <2>1, <2>2, <2>3 DEF RecoveryStep, Discover, StartRepair, RecoveryFails, database
<1>5. ASSUME NEW r \in Runtimes, NEW p \in Pages, PageStep(r, p)
      PROVE  DriftSeen'
  <2>1. row' = row /\ drift' \subseteq drift \cup Pending
    BY <1>5 DEF PageStep, WritePage, WriteRoom, AdmitRuntime, ReleaseRuntime, Freeze, Unfreeze,
                Edit, Touching
  <2> QED
    BY <2>1, SeenStep
<1>6. ASSUME NEW r \in Runtimes, RetireStep(r)
      PROVE  DriftSeen'
  <2>1. drift' = drift /\ \A j \in Intents : row[j].status # "none" => row'[j].status # "none"
    BY <1>6 DEF RetireStep, CloseGate, Acknowledge, FenceAcknowledged, FenceUnacknowledged, Crash,
                CancelNoStart, database, TypeOK, TypeDatabase, Rows
  <2> QED
    BY <2>1, SeenStep
<1>7. ASSUME NEW i \in Intents, WorldStep(i)
      PROVE  DriftSeen'
  <2>1. drift' = drift /\ \A j \in Intents : row[j].status # "none" => row'[j].status # "none"
    BY <1>7, <1>1 DEF WorldStep, EndCallerTransaction, Land, ForeignEdit, database
  <2> QED
    BY <2>1, SeenStep
<1>8. CASE UNCHANGED vars
  BY <1>8 DEF vars, database, DriftSeen
<1> QED
  BY <1>3, <1>4, <1>5, <1>6, <1>7, <1>8 DEF Next

LEMMA StepRefines ==
  ASSUME TypeOK, TypeOK', DriftSeen, [Next]_vars
  PROVE  [Ownership!Next]_Ownership!vars
<1>1. CASE UNCHANGED vars
  BY <1>1, Stutter DEF vars, database, KeepsBut, OwnershipStep
<1> QED
  BY <1>1, OwnerRefines, RecoveryRefines, PageRefines, RetireRefines, WorldRefines
     DEF Next, OwnershipStep

-----------------------------------------------------------------------------

\* Whatever processes, crashes, lost acknowledgements and recoveries do, the
\* pages change hands as PageOwnership allows.
THEOREM Refines == Spec => ImplementsOwnership
<1>1. Init => Ownership!Init /\ DriftSeen
  <2>1. Init => Holding = {}
    BY DEF Init, Holding
  <2> QED
    BY <2>1 DEF Init, Ownership!Init, HeldPages, References, Overtaken, DriftSeen
<1>2. TypeOK /\ DriftSeen /\ [Next]_vars => DriftSeen'
  BY DriftSeenStep
<1>3. TypeOK /\ TypeOK' /\ DriftSeen /\ [Next]_vars => [Ownership!Next]_Ownership!vars
  BY StepRefines
<1> QED
  BY <1>1, <1>2, <1>3, TypeCorrect, PTL DEF Spec, ImplementsOwnership, Ownership!Spec

-----------------------------------------------------------------------------
(* The ownership rules are inductive, over any variables that obey them.     *)

LEMMA RulesInit == Ownership!Init => Ownership!Inv
  BY DEF Ownership!Init, Ownership!Inv, Ownership!TypeOK, Ownership!Exclusive,
     Ownership!FrozenIdle, Ownership!OvertakenAreReferences

LEMMA RulesTake ==
  ASSUME NEW i \in Intents, NEW P \in SUBSET Pages, Ownership!Inv, Ownership!Take(i, P)
  PROVE  Ownership!Inv'
<1>1. Ownership!TypeOK'
  BY DEF Ownership!Inv, Ownership!TypeOK, Ownership!Take
<1>2. Ownership!Exclusive'
  BY DEF Ownership!Inv, Ownership!TypeOK, Ownership!Exclusive, Ownership!Take,
     Ownership!Unclaimed
<1>3. Ownership!FrozenIdle'
  BY DEF Ownership!Inv, Ownership!TypeOK, Ownership!FrozenIdle, Ownership!Take, Ownership!NoRoom
<1>4. Ownership!OvertakenAreReferences'
  BY DEF Ownership!Inv, Ownership!OvertakenAreReferences, Ownership!Take
<1> QED
  BY <1>1, <1>2, <1>3, <1>4 DEF Ownership!Inv

LEMMA RulesChange ==
  ASSUME NEW i \in Intents, Ownership!Inv, Ownership!Change(i)
  PROVE  Ownership!Inv'
<1>1. Ownership!TypeOK'
  BY DEF Ownership!Inv, Ownership!TypeOK, Ownership!Change
<1>2. Ownership!Exclusive' /\ Ownership!OvertakenAreReferences'
  BY DEF Ownership!Inv, Ownership!Exclusive, Ownership!OvertakenAreReferences, Ownership!Change
<1>3. Ownership!FrozenIdle'
  BY DEF Ownership!Inv, Ownership!FrozenIdle, Ownership!Change, Ownership!NoRoom
<1> QED
  BY <1>1, <1>2, <1>3 DEF Ownership!Inv

LEMMA RulesSettle ==
  ASSUME NEW i \in Intents, Ownership!Inv, Ownership!Settle(i)
  PROVE  Ownership!Inv'
<1>1. Ownership!TypeOK'
  BY DEF Ownership!Inv, Ownership!TypeOK, Ownership!Settle
<1>2. Ownership!Exclusive'
  BY DEF Ownership!Inv, Ownership!TypeOK, Ownership!Exclusive, Ownership!Settle
<1>3. Ownership!OvertakenAreReferences'
  BY DEF Ownership!Inv, Ownership!OvertakenAreReferences, Ownership!Settle
<1>4. Ownership!FrozenIdle'
  <2> SUFFICES ASSUME NEW p \in frozen
               PROVE  /\ p \in prepared'
                      /\ Ownership!NoRoom(p)'
                      /\ \A j \in Intents : p \in HeldPages'[j] => j \in References'
    BY DEF Ownership!Settle, Ownership!FrozenIdle
  <2>1. p \in prepared'
    BY DEF Ownership!Inv, Ownership!FrozenIdle, Ownership!Settle
  <2>2. Ownership!NoRoom(p)'
    BY DEF Ownership!Inv, Ownership!FrozenIdle, Ownership!Settle, Ownership!NoRoom
  <2>3. \A j \in Intents : p \in HeldPages'[j] => j \in References'
    BY DEF Ownership!Inv, Ownership!TypeOK, Ownership!FrozenIdle, Ownership!Settle
  <2> QED
    BY <2>1, <2>2, <2>3
<1> QED
  BY <1>1, <1>2, <1>3, <1>4 DEF Ownership!Inv

LEMMA RulesAbandon ==
  ASSUME NEW S \in SUBSET Intents, NEW R \in SUBSET admitted, Ownership!Inv, Ownership!Abandon(S, R)
  PROVE  Ownership!Inv'
<1>1. Ownership!TypeOK'
  BY DEF Ownership!Inv, Ownership!TypeOK, Ownership!Abandon
<1>2. Ownership!Exclusive' /\ Ownership!OvertakenAreReferences'
  BY DEF Ownership!Inv, Ownership!Exclusive, Ownership!OvertakenAreReferences, Ownership!Abandon
<1>3. Ownership!FrozenIdle'
  BY DEF Ownership!Inv, Ownership!FrozenIdle, Ownership!Abandon, Ownership!NoRoom
<1> QED
  BY <1>1, <1>2, <1>3 DEF Ownership!Inv

LEMMA RulesPage ==
  ASSUME NEW p \in Pages, Ownership!Inv,
         Ownership!Write(p) \/ Ownership!Freeze(p) \/ Ownership!Thaw(p)
         \/ \E r \in Runtimes : Ownership!Enter(r, p)
  PROVE  Ownership!Inv'
<1>1. CASE Ownership!Write(p)
  BY <1>1 DEF Ownership!Inv, Ownership!TypeOK, Ownership!Exclusive, Ownership!FrozenIdle,
     Ownership!OvertakenAreReferences, Ownership!Write, Ownership!NoRoom
<1>2. CASE Ownership!Freeze(p)
  BY <1>2 DEF Ownership!Inv, Ownership!TypeOK, Ownership!Exclusive, Ownership!FrozenIdle,
     Ownership!OvertakenAreReferences, Ownership!Freeze,
              Ownership!Unclaimed, Ownership!NoRoom
<1>3. CASE Ownership!Thaw(p)
  BY <1>3 DEF Ownership!Inv, Ownership!TypeOK, Ownership!Exclusive, Ownership!FrozenIdle,
     Ownership!OvertakenAreReferences, Ownership!Thaw, Ownership!NoRoom
<1>4. ASSUME NEW r \in Runtimes, Ownership!Enter(r, p)
      PROVE  Ownership!Inv'
  BY <1>4 DEF Ownership!Inv, Ownership!TypeOK, Ownership!Exclusive, Ownership!FrozenIdle,
     Ownership!OvertakenAreReferences, Ownership!Enter, Ownership!NoRoom
<1> QED
  BY <1>1, <1>2, <1>3, <1>4

LEMMA RulesNext == Ownership!Inv /\ [Ownership!Next]_Ownership!vars => Ownership!Inv'
<1> SUFFICES ASSUME Ownership!Inv, [Ownership!Next]_Ownership!vars
             PROVE  Ownership!Inv'
  OBVIOUS
<1>1. CASE UNCHANGED Ownership!vars
  BY <1>1 DEF Ownership!vars, Ownership!Inv, Ownership!TypeOK, Ownership!Exclusive,
     Ownership!FrozenIdle, Ownership!OvertakenAreReferences, Ownership!NoRoom
<1>2. CASE Ownership!Next
  BY <1>2, RulesTake, RulesChange, RulesSettle, RulesAbandon, RulesPage DEF Ownership!Next
<1> QED
  BY <1>1, <1>2

\* Under the ownership rules every claim is exclusive, a frozen page is its
\* baseline without a writer, and only references are overtaken by a thaw.
THEOREM OwnershipInv == Ownership!Spec => []Ownership!Inv
  BY RulesInit, RulesNext, PTL DEF Ownership!Spec

\* So they hold of the durable rows.
LEMMA OwnershipHolds == Spec => []Ownership!Inv
  BY OwnershipInv, Refines, PTL DEF ImplementsOwnership

\* Two writes never hold the same page, for any number of processes, pages
\* and writes.
THEOREM HoldsExclude == Spec => []ExclusiveHold
<1>1. Ownership!Inv => ExclusiveHold
  BY DEF Ownership!Inv, Ownership!Exclusive, HeldPages, ExclusiveHold, Holding
<1> QED
  BY <1>1, OwnershipHolds, PTL

\* A freeze is never published over a writer, and nothing the protocol
\* admits changes a frozen page.
THEOREM FreezeHolds == Spec => []FrozenIsBaseline
<1>1. Ownership!Inv => FrozenIsBaseline
  BY DEF Ownership!Inv, Ownership!FrozenIdle, Ownership!NoRoom, HeldPages, References, FrozenIsBaseline, Holding
<1> QED
  BY <1>1, OwnershipHolds, PTL

\* No pending write that may change its pages is ever out of date with them.
THEOREM RevisionsHold == Spec => []RevisionsCurrent
<1>1. Ownership!Inv => RevisionsCurrent
  BY DEF Ownership!Inv, Ownership!OvertakenAreReferences, Overtaken, References, RevisionsCurrent,
         Pending, Holding
<1> QED
  BY <1>1, OwnershipHolds, PTL

-----------------------------------------------------------------------------
(***************************************************************************)
(* What write admission promises about effects, for any numbers of         *)
(* processes, intents and pages and any policies: recovery never overlaps  *)
(* the original writer, a cancelled intent had no effect, a verdict stays  *)
(* true, and no remote request is reissued blindly.                        *)
(*                                                                         *)
(* Intents meet in pages only, and no part of the invariant is about       *)
(* pages: it is stated and proved for one intent at a time.                *)
(***************************************************************************)

\* Process r has an effect of intent i under way, in memory at least.
Doing(r, i) == op[r][i].at \in {"mark", "io", "sent", "finish"}

\* An intent that was never reserved has left no trace.
Unborn(i) ==
  row[i].status = "none" =>
    /\ row[i].marks = {}
    /\ row[i].mode = "none"
    /\ \A r \in Runtimes : eff[r][i] = "none" /\ op[r][i] = Idle /\ <<r, i>> \notin recFailed

\* An effect under way belongs to a live process, which counts it as running.
Live(i) ==
  \A r \in Runtimes : Doing(r, i) =>
    /\ r \in up
    /\ eff[r][i] = "running"
    /\ op[r][i].ph \in Phases
    /\ IsRemote(op[r][i].ph) => row[i].mode \notin LocalModes
    /\ op[r][i].at = "sent" => IsRemote(op[r][i].ph)

\* I/O is done by the owner, in its epoch, behind the durable start marker.
Owned(i) ==
  \A r \in Runtimes : InEffect(r, i) =>
    /\ epoch[r] = "active"
    /\ row[i].owner = r
    /\ row[i].status = "pending"
    /\ "started" \in row[i].marks
    /\ IsRemote(op[r][i].ph) => "remote" \in row[i].marks

\* Only a claimed intent is verified or repaired.
ClaimedFirst(i) ==
  \A r \in Runtimes :
    \/ op[r][i].at \in {"verify", "reverify"}
    \/ Doing(r, i) /\ op[r][i].ph = "repair"
    \/ <<r, i>> \in recFailed
    => "claimed" \in row[i].marks

\* A process that remembers an intent owns it or is fenced; a remote intent is
\* remembered by its original owner only.
OneWriter(i) ==
  \A r \in Runtimes : eff[r][i] # "none" =>
    \/ epoch[r] = "fenced"
    \/ row[i].owner = r /\ ("claimed" \notin row[i].marks \/ row[i].mode \in LocalModes)

Control(i) == Unborn(i) /\ Live(i) /\ Owned(i) /\ ClaimedFirst(i) /\ OneWriter(i)

\* The world shows only what the durable marks announced.
Announced(i) ==
  /\ "started" \notin row[i].marks => disk[i] = "before" /\ "remote" \notin row[i].marks
  /\ "remote" \notin row[i].marks => wire[i] = "none"
  /\ row[i].mode \in LocalModes => wire[i] = "none"
  /\ row[i].mode \notin LocalModes => disk[i] = "before"
  /\ row[i].status = "cancelled" => "started" \notin row[i].marks

\* The remote page shows our version exactly when a request has landed, and an
\* answer or a durable result means that it shows it.
Remote(i) ==
  /\ wire[i] = "none" => upstream[i] # "ours"
  /\ wire[i] \in {"landed", "acked"} => upstream[i] = "ours"
  /\ "done" \in row[i].marks => upstream[i] = "ours"
  /\ upstream[i] = "theirs" => row[i].mode = "conditional"
  /\ \A r \in Runtimes :
       op[r][i].at = "finish" /\ IsRemote(op[r][i].ph) => upstream[i] = "ours"

\* What a process believes of its files is so, as long as it may write them.
Files(i) ==
  \A r \in Runtimes :
    /\ eff[r][i] \in {"reserved", "uncommitted"} => disk[i] = "before" \/ epoch[r] = "fenced"
    /\ row[i].mode \in LocalModes =>
         /\ op[r][i].at = "finish" /\ op[r][i].ph # "repair" => disk[i] = "intended"
         /\ eff[r][i] = "succeeded" /\ op[r][i].at \notin {"verify", "reverify"}
              => disk[i] = "intended"

\* While the outcome of a request is unknown, no process may send another.
Answered(i) ==
  wire[i] \in {"flying", "landed", "rejected"} =>
    \A r \in Runtimes :
      \/ eff[r][i] \in {"none", "failed_remote"}
      \/ op[r][i].at = "sent"
      \/ epoch[r] = "fenced"

\* VerdictHolds of one intent.
VerdictOf(i) ==
  /\ row[i].status \in {"completed", "applied"} /\ row[i].mode \in RemoteModes
       => upstream[i] = "ours"
  /\ row[i].status = "completed" => disk[i] # "partial"
  /\ row[i].status = "applied" /\ row[i].mode \in LocalModes => disk[i] = "intended"
  /\ row[i].status = "not_applied" =>
       /\ upstream[i] # "ours"
       /\ wire[i] = "flying" => upstream[i] = "theirs"
       /\ disk[i] = "before"

World(i) == Announced(i) /\ Remote(i) /\ Files(i) /\ Answered(i) /\ VerdictOf(i)

IntentInv(i) == Control(i) /\ World(i)

SafetyInv == TypeOK /\ \A i \in Intents : IntentInv(i)

-----------------------------------------------------------------------------

\* Nothing that the invariant of intent k speaks of has changed.
SameMemory(k) ==
  \A q \in Runtimes :
    /\ op'[q][k] = op[q][k]
    /\ eff'[q][k] = eff[q][k]
    /\ <<q, k>> \in recFailed' <=> <<q, k>> \in recFailed

SameWorld(k) == wire'[k] = wire[k] /\ upstream'[k] = upstream[k] /\ disk'[k] = disk[k]

Same(k) == row'[k] = row[k] /\ SameMemory(k) /\ SameWorld(k)

SameEpochs == up' = up /\ epoch' = epoch

LEMMA SameControl ==
  ASSUME NEW k \in Intents, SameEpochs, row'[k] = row[k], SameMemory(k), Control(k)
  PROVE  Control(k)'
<1>1. Unborn(k)'
  BY DEF SameMemory, Control, Unborn
<1>2. Live(k)'
  BY DEF SameEpochs, SameMemory, Control, Live, Doing
<1>3. Owned(k)' /\ ClaimedFirst(k)'
  BY DEF SameEpochs, SameMemory, Control, Owned, ClaimedFirst, Doing, InEffect
<1>4. OneWriter(k)'
  BY DEF SameEpochs, SameMemory, Control, OneWriter
<1> QED
  BY <1>1, <1>2, <1>3, <1>4 DEF Control

LEMMA SameKeeps ==
  ASSUME NEW k \in Intents, SameEpochs, Same(k), IntentInv(k)
  PROVE  IntentInv(k)'
<1>1. Control(k)'
  BY SameControl DEF Same, IntentInv
<1>2. Announced(k)' /\ Remote(k)' /\ VerdictOf(k)'
  BY DEF Same, SameMemory, SameWorld, IntentInv, World, Announced, Remote, VerdictOf
<1>3. Files(k)' /\ Answered(k)'
  BY DEF Same, SameMemory, SameWorld, SameEpochs, IntentInv, World, Files, Answered
<1> QED
  BY <1>1, <1>2, <1>3 DEF IntentInv, World

LEMMA OpAt ==
  ASSUME TypeMemory, NEW r \in Runtimes, NEW i \in Intents, NEW o, SetOp(r, i, o)
  PROVE  \A q \in Runtimes, k \in Intents : op'[q][k] = IF q = r /\ k = i THEN o ELSE op[q][k]
  BY DEF SetOp, TypeMemory

LEMMA EffAt ==
  ASSUME TypeMemory, NEW r \in Runtimes, NEW i \in Intents, NEW s, SetEff(r, i, s)
  PROVE  \A q \in Runtimes, k \in Intents : eff'[q][k] = IF q = r /\ k = i THEN s ELSE eff[q][k]
  BY DEF SetEff, TypeMemory

LEMMA StatusAt ==
  ASSUME TypeDatabase, NEW i \in Intents, NEW s, SetStatus(i, s)
  PROVE  /\ \A k \in Intents : k # i => row'[k] = row[k]
         /\ row'[i].status = s
         /\ row'[i].owner = row[i].owner /\ row'[i].mode = row[i].mode
         /\ row'[i].marks = row[i].marks
  BY DEF SetStatus, TypeDatabase, Rows

LEMMA MarksAt ==
  ASSUME TypeDatabase, NEW i \in Intents, NEW M, row' = [row EXCEPT ![i].marks = @ \cup M]
  PROVE  /\ \A k \in Intents : k # i => row'[k] = row[k]
         /\ row'[i].status = row[i].status
         /\ row'[i].owner = row[i].owner /\ row'[i].mode = row[i].mode
         /\ row'[i].marks = row[i].marks \cup M
  BY DEF TypeDatabase, Rows

\* An intent about to be reserved is unknown to every process and to the world.
LEMMA UnbornFacts ==
  ASSUME SafetyInv, NEW i \in Intents, row[i].status = "none"
  PROVE  /\ \A q \in Runtimes : eff[q][i] = "none" /\ op[q][i].at = "idle" /\ <<q, i>> \notin recFailed
         /\ wire[i] = "none" /\ upstream[i] = "before" /\ disk[i] = "before"
<1>1. /\ row[i].marks = {} /\ row[i].mode = "none"
      /\ \A q \in Runtimes : eff[q][i] = "none" /\ op[q][i] = Idle /\ <<q, i>> \notin recFailed
  BY DEF SafetyInv, IntentInv, Control, Unborn
<1>2. wire[i] = "none" /\ disk[i] = "before"
  BY <1>1 DEF SafetyInv, IntentInv, World, Announced
<1>3. upstream[i] \notin {"ours", "theirs"}
  BY <1>1, <1>2 DEF SafetyInv, IntentInv, World, Remote
<1> QED
  BY <1>1, <1>2, <1>3 DEF SafetyInv, TypeOK, TypeWorld, Idle, At

-----------------------------------------------------------------------------
(* One lemma per action.  Reservations and cancellations: an intent that was  *)
(* never reserved has no trace, and one that is cancelled never started.     *)

LEMMA ReserveSafe ==
  ASSUME SafetyInv, NEW r \in Runtimes, NEW i \in Intents, NEW m \in Modes, NEW P \in
         SUBSET Pages, Reserve(r, i, m, P)
  PROVE  \A k \in Intents : IntentInv(k)'
<1>1. /\ SameEpochs /\ op' = op /\ recFailed' = recFailed
      /\ wire' = wire /\ upstream' = upstream /\ disk' = disk
  BY DEF Reserve, SameEpochs, world
<1>2. row' = [row EXCEPT ![i] = NewRow(r, m, P, "pending")]
  BY DEF Reserve
<1>3. /\ \A k \in Intents : k # i => row'[k] = row[k]
      /\ row'[i].status = "pending" /\ row'[i].owner = r /\ row'[i].mode = m /\ row'[i].marks = {}
  BY <1>2 DEF NewRow, SafetyInv, TypeOK, TypeDatabase
<1>4. \/ \A q \in Runtimes, k \in Intents :
           eff'[q][k] = IF q = r /\ k = i THEN "reserved" ELSE eff[q][k]
      \/ eff' = eff
  BY EffAt DEF Reserve, SafetyInv, TypeOK
<1>5. /\ \A q \in Runtimes : eff[q][i] = "none" /\ op[q][i].at = "idle" /\ <<q, i>> \notin recFailed
      /\ wire[i] = "none" /\ upstream[i] = "before" /\ disk[i] = "before"
  BY UnbornFacts DEF Reserve
<1>6. ASSUME NEW k \in Intents, k # i PROVE IntentInv(k)'
  BY <1>1, <1>2, <1>4, <1>5, <1>6, SameKeeps DEF Same, SameMemory, SameWorld, SafetyInv
<1>7. Unborn(i)'
  BY <1>3 DEF Unborn
<1>8. Live(i)'
  BY <1>1, <1>2, <1>3, <1>4, <1>5 DEF Reserve, SafetyInv, IntentInv, Control, Live,
     SameEpochs, Doing
<1>9. Owned(i)'
  BY <1>1, <1>2 DEF Reserve, SafetyInv, IntentInv, Control, Owned, InEffect
<1>10. ClaimedFirst(i)'
  BY <1>1, <1>2, <1>5 DEF ClaimedFirst, Doing
<1>11. OneWriter(i)'
  <2>1. ASSUME NEW q \in Runtimes, eff'[q][i] # "none"
        PROVE  q = r
    BY <1>4, <1>5, <2>1
  <2> QED
    BY <1>3, <2>1 DEF OneWriter
<1>12. Announced(i)'
  BY <1>1, <1>3, <1>5 DEF Announced
<1>13. VerdictOf(i)'
  BY <1>3 DEF VerdictOf
<1>14. Remote(i)'
  BY <1>1, <1>3, <1>5 DEF SafetyInv, IntentInv, World, Remote
<1>15. Files(i)'
  BY <1>1, <1>2, <1>3, <1>4, <1>5 DEF Reserve, SafetyInv, IntentInv, World, Files
<1>16. Answered(i)'
  BY <1>1, <1>5 DEF Answered
<1> QED
  BY <1>6, <1>7, <1>8, <1>9, <1>10, <1>11, <1>12, <1>13, <1>14, <1>15, <1>16 DEF
     IntentInv, Control, World

LEMMA ReserveInTransactionSafe ==
  ASSUME SafetyInv, NEW r \in Runtimes, NEW i \in Intents, NEW m \in Modes, NEW P \in
         SUBSET Pages, ReserveInTransaction(r, i, m, P)
  PROVE  \A k \in Intents : IntentInv(k)'
<1>1. /\ SameEpochs /\ op' = op /\ recFailed' = recFailed
      /\ wire' = wire /\ upstream' = upstream /\ disk' = disk
  BY DEF ReserveInTransaction, SameEpochs, world
<1>2. row' = [row EXCEPT ![i] = NewRow(r, m, P, "inserting")]
  BY DEF ReserveInTransaction
<1>3. /\ \A k \in Intents : k # i => row'[k] = row[k]
      /\ row'[i].status = "inserting" /\ row'[i].owner = r /\ row'[i].mode = m /\ row'[i].marks = {}
  BY <1>2 DEF NewRow, SafetyInv, TypeOK, TypeDatabase
<1>4. \A q \in Runtimes, k \in Intents :
        eff'[q][k] = IF q = r /\ k = i THEN "uncommitted" ELSE eff[q][k]
  BY EffAt DEF ReserveInTransaction, SafetyInv, TypeOK
<1>5. /\ \A q \in Runtimes : eff[q][i] = "none" /\ op[q][i].at = "idle" /\ <<q, i>> \notin recFailed
      /\ wire[i] = "none" /\ upstream[i] = "before" /\ disk[i] = "before"
  BY UnbornFacts DEF ReserveInTransaction
<1>6. ASSUME NEW k \in Intents, k # i PROVE IntentInv(k)'
  BY <1>1, <1>2, <1>4, <1>5, <1>6, SameKeeps DEF Same, SameMemory, SameWorld, SafetyInv
<1>7. Unborn(i)'
  BY <1>3 DEF Unborn
<1>8. Live(i)'
  BY <1>1, <1>2, <1>3, <1>4, <1>5 DEF ReserveInTransaction, SafetyInv, IntentInv,
     Control, Live, SameEpochs, Doing
<1>9. Owned(i)'
  BY <1>1, <1>2 DEF ReserveInTransaction, SafetyInv, IntentInv, Control, Owned, InEffect
<1>10. ClaimedFirst(i)'
  BY <1>1, <1>2, <1>5 DEF ClaimedFirst, Doing
<1>11. OneWriter(i)'
  <2>1. ASSUME NEW q \in Runtimes, eff'[q][i] # "none"
        PROVE  q = r
    BY <1>4, <1>5, <2>1
  <2> QED
    BY <1>3, <2>1 DEF OneWriter
<1>12. Announced(i)'
  BY <1>1, <1>3, <1>5 DEF Announced
<1>13. VerdictOf(i)'
  BY <1>3 DEF VerdictOf
<1>14. Remote(i)'
  BY <1>1, <1>3, <1>5 DEF SafetyInv, IntentInv, World, Remote
<1>15. Files(i)'
  BY <1>1, <1>2, <1>3, <1>4, <1>5 DEF ReserveInTransaction, SafetyInv, IntentInv, World,
     Files
<1>16. Answered(i)'
  BY <1>1, <1>5 DEF Answered
<1> QED
  BY <1>6, <1>7, <1>8, <1>9, <1>10, <1>11, <1>12, <1>13, <1>14, <1>15, <1>16 DEF
     IntentInv, Control, World

LEMMA EndCallerTransactionSafe ==
  ASSUME SafetyInv, NEW i \in Intents, EndCallerTransaction(i)
  PROVE  \A k \in Intents : IntentInv(k)'
<1>1. /\ SameEpochs /\ op' = op /\ eff' = eff /\ recFailed' = recFailed
      /\ wire' = wire /\ upstream' = upstream /\ disk' = disk
  BY DEF EndCallerTransaction, SameEpochs, memory, world
<1>2. /\ \A k \in Intents : k # i => row'[k] = row[k]
      /\ row'[i].status = "pending" \/ row'[i].status = "aborted"
      /\ row'[i].owner = row[i].owner /\ row'[i].mode = row[i].mode /\ row'[i].marks = row[i].marks
  BY StatusAt DEF EndCallerTransaction, SafetyInv, TypeOK
<1>3. ASSUME NEW k \in Intents, k # i PROVE IntentInv(k)'
  BY <1>1, <1>2, <1>3, SameKeeps DEF Same, SameMemory, SameWorld, SafetyInv
<1>4. Control(i)'
  BY <1>1, <1>2 DEF EndCallerTransaction, SafetyInv, IntentInv, Control, Unborn, Live,
     Owned, ClaimedFirst, OneWriter, Doing, InEffect, SameEpochs
<1>5. Announced(i)'
  BY <1>1, <1>2 DEF SafetyInv, IntentInv, World, Announced
<1>6. VerdictOf(i)'
  BY <1>2 DEF VerdictOf
<1>7. Remote(i)'
  BY <1>1, <1>2 DEF SafetyInv, IntentInv, World, Remote
<1>8. Files(i)'
  BY <1>1, <1>2 DEF EndCallerTransaction, SafetyInv, IntentInv, World, Files
<1>9. Answered(i)'
  BY <1>1 DEF EndCallerTransaction, SafetyInv, IntentInv, World, Answered
<1> QED
  BY <1>3, <1>4, <1>5, <1>6, <1>7, <1>8, <1>9 DEF IntentInv, World

LEMMA CancelBeforeEffectSafe ==
  ASSUME SafetyInv, NEW r \in Runtimes, NEW i \in Intents, CancelBeforeEffect(r, i)
  PROVE  \A k \in Intents : IntentInv(k)'
<1>1. /\ SameEpochs /\ op' = op /\ recFailed' = recFailed
      /\ wire' = wire /\ upstream' = upstream /\ disk' = disk
  BY DEF CancelBeforeEffect, SameEpochs, world
<1>2. /\ \A k \in Intents : k # i => row'[k] = row[k]
      /\ row'[i].status = "cancelled"
      /\ row'[i].owner = row[i].owner /\ row'[i].mode = row[i].mode /\ row'[i].marks = row[i].marks
  BY StatusAt DEF CancelBeforeEffect, SafetyInv, TypeOK
<1>3. \/ \A q \in Runtimes, k \in Intents :
           eff'[q][k] = IF q = r /\ k = i THEN "none" ELSE eff[q][k]
      \/ eff' = eff
  BY EffAt DEF CancelBeforeEffect, SafetyInv, TypeOK
<1>4. ASSUME NEW k \in Intents, k # i PROVE IntentInv(k)'
  BY <1>1, <1>2, <1>3, <1>4, SameKeeps DEF Same, SameMemory, SameWorld, SafetyInv
<1>5. Control(i)'
  BY <1>1, <1>2, <1>3 DEF CancelBeforeEffect, SafetyInv, IntentInv, Control, Unborn,
     Live, Owned, ClaimedFirst, OneWriter, Doing, InEffect, NoStart
<1>6. Announced(i)'
  BY <1>1, <1>2 DEF CancelBeforeEffect, SafetyInv, IntentInv, World, Announced, NoStart
<1>7. VerdictOf(i)'
  BY <1>2 DEF VerdictOf
<1>8. Remote(i)'
  BY <1>1, <1>2 DEF SafetyInv, IntentInv, World, Remote
<1>9. Files(i)'
  BY <1>1, <1>2, <1>3 DEF CancelBeforeEffect, SafetyInv, IntentInv, World, Files
<1>10. Answered(i)'
  BY <1>1, <1>3 DEF CancelBeforeEffect, SafetyInv, IntentInv, World, Answered
<1> QED
  BY <1>4, <1>5, <1>6, <1>7, <1>8, <1>9, <1>10 DEF IntentInv, World

-----------------------------------------------------------------------------
(* Effects, their failures, and what requests and files do to the world.     *)

LEMMA RunEffectSafe ==
  ASSUME SafetyInv, NEW r \in Runtimes, NEW i \in Intents, NEW ph \in Phases,
         RunEffect(r, i, ph)
  PROVE  \A k \in Intents : IntentInv(k)'
<1>1. /\ SameEpochs /\ row' = row /\ wire' = wire
      /\ upstream' = upstream /\ disk' = disk /\ recFailed' = recFailed
  BY DEF RunEffect, SameEpochs, database, world
<1>2. \A q \in Runtimes, k \in Intents :
        op'[q][k] = IF q = r /\ k = i THEN At("mark", ph) ELSE op[q][k]
  BY OpAt DEF RunEffect, SafetyInv, TypeOK
<1>3. \A q \in Runtimes, k \in Intents :
        eff'[q][k] = IF q = r /\ k = i THEN "running" ELSE eff[q][k]
  BY EffAt DEF RunEffect, SafetyInv, TypeOK
<1>4. ASSUME NEW k \in Intents, k # i PROVE IntentInv(k)'
  BY <1>1, <1>2, <1>3, <1>4, SameKeeps DEF Same, SameMemory, SameWorld, SafetyInv
<1>5. Control(i)'
  BY <1>1, <1>2, <1>3 DEF RunEffect, SafetyInv, IntentInv, Control, Unborn, Live, Owned,
     ClaimedFirst, OneWriter, Doing, InEffect, At, PhasesOf, IsRemote, LocalModes,
     SameEpochs
<1>6. Announced(i)'
  BY <1>1 DEF SafetyInv, IntentInv, World, Announced
<1>7. VerdictOf(i)'
  BY <1>1 DEF SafetyInv, IntentInv, World, VerdictOf
<1>8. Remote(i)'
  BY <1>1, <1>2, <1>3 DEF SafetyInv, IntentInv, World, Remote, At
<1>9. Files(i)'
  BY <1>1, <1>2, <1>3 DEF RunEffect, SafetyInv, IntentInv, World, Files, SameEpochs, At
<1>10. Answered(i)'
  BY <1>1, <1>2, <1>3 DEF RunEffect, SafetyInv, IntentInv, World, Answered, SameEpochs,
     At, Idle
<1> QED
  BY <1>4, <1>5, <1>6, <1>7, <1>8, <1>9, <1>10 DEF IntentInv, World

LEMMA EffectFailsSafe ==
  ASSUME SafetyInv, NEW r \in Runtimes, NEW i \in Intents, EffectFails(r, i)
  PROVE  \A k \in Intents : IntentInv(k)'
<1>1. SameEpochs /\ row' = row /\ wire' = wire /\ upstream' = upstream /\ disk' = disk
  BY DEF EffectFails, SameEpochs, database, world
<1>2. \A q \in Runtimes, k \in Intents :
        op'[q][k] = IF q = r /\ k = i THEN Idle ELSE op[q][k]
  BY OpAt DEF EffectFails, FailEffect, SafetyInv, TypeOK
<1>3. \A q \in Runtimes, k \in Intents :
        eff'[q][k] = IF q = r /\ k = i THEN FailedEff(op[r][i].ph) ELSE eff[q][k]
  BY EffAt DEF EffectFails, FailEffect, SafetyInv, TypeOK
<1>4. \A q \in Runtimes, k \in Intents :
        <<q, k>> \in recFailed' <=> <<q, k>> \in recFailed \/ (q = r /\ k = i /\ op[r][i].ph = "repair")
  BY DEF EffectFails, FailEffect
<1>5. ASSUME NEW k \in Intents, k # i PROVE IntentInv(k)'
  BY <1>1, <1>2, <1>3, <1>4, <1>5, SameKeeps DEF Same, SameMemory, SameWorld, SafetyInv
<1>6. Control(i)'
  BY <1>1, <1>2, <1>3, <1>4 DEF EffectFails, SafetyInv, IntentInv, Control, Unborn,
     Live, Owned, ClaimedFirst, OneWriter, Doing, InEffect, At, Idle, SameEpochs
<1>7. Announced(i)'
  BY <1>1, <1>2, <1>3, <1>4 DEF EffectFails, SafetyInv, IntentInv, World, Announced
<1>8. VerdictOf(i)'
  BY <1>1, <1>2, <1>3, <1>4 DEF EffectFails, SafetyInv, IntentInv, World, VerdictOf
<1>9. Remote(i)'
  BY <1>1, <1>2, <1>3, <1>4 DEF EffectFails, SafetyInv, IntentInv, World, Remote, At, Idle
<1>10. Files(i)'
  BY <1>1, <1>2, <1>3, <1>4 DEF EffectFails, SafetyInv, IntentInv, World, Files,
     SameEpochs, At, Idle, FailedEff
<1>11. Answered(i)'
  BY <1>1, <1>2, <1>3, <1>4 DEF EffectFails, SafetyInv, IntentInv, World, Answered,
     SameEpochs, FailedEff, Control, Live, Doing
<1> QED
  BY <1>5, <1>6, <1>7, <1>8, <1>9, <1>10, <1>11 DEF IntentInv, World

LEMMA DispatchSafe ==
  ASSUME SafetyInv, NEW r \in Runtimes, NEW i \in Intents, Dispatch(r, i)
  PROVE  \A k \in Intents : IntentInv(k)'
<1>1. /\ SameEpochs /\ row' = row /\ upstream' = upstream
      /\ disk' = disk /\ recFailed' = recFailed /\ eff' = eff
  BY DEF Dispatch, SameEpochs, database
<1>2. \A q \in Runtimes, k \in Intents :
        op'[q][k] = IF q = r /\ k = i THEN At("sent", op[r][i].ph) ELSE op[q][k]
  BY OpAt DEF Dispatch, SafetyInv, TypeOK
<1>3. \A k \in Intents : wire'[k] = IF k = i THEN "flying" ELSE wire[k]
  BY DEF Dispatch, SafetyInv, TypeOK, TypeWorld
<1>4. ASSUME NEW k \in Intents, k # i PROVE IntentInv(k)'
  BY <1>1, <1>2, <1>3, <1>4, SameKeeps DEF Same, SameMemory, SameWorld, SafetyInv
<1>5. Control(i)'
  BY <1>1, <1>2, <1>3 DEF Dispatch, SafetyInv, IntentInv, Control, Unborn, Live, Owned,
     ClaimedFirst, OneWriter, Doing, InEffect, At, SameEpochs
<1>6. Announced(i)'
  BY <1>1, <1>2, <1>3 DEF Dispatch, SafetyInv, IntentInv, World, Announced, Control,
     Live, Owned, Doing, InEffect
<1>7. VerdictOf(i)'
  BY <1>1, <1>2, <1>3 DEF Dispatch, SafetyInv, IntentInv, VerdictOf, Control, Owned,
     InEffect
<1>8. Remote(i)'
  BY <1>1, <1>2, <1>3 DEF Dispatch, SafetyInv, IntentInv, World, Remote, At
<1>9. Files(i)'
  BY <1>1, <1>2, <1>3 DEF Dispatch, SafetyInv, IntentInv, World, Files, SameEpochs, At
<1>10. Answered(i)'
  BY <1>1, <1>2, <1>3 DEF Dispatch, SafetyInv, IntentInv, Answered, SameEpochs, At,
     Control, Owned, OneWriter, InEffect
<1> QED
  BY <1>4, <1>5, <1>6, <1>7, <1>8, <1>9, <1>10 DEF IntentInv, World

LEMMA LandSafe ==
  ASSUME SafetyInv, NEW i \in Intents, Land(i)
  PROVE  \A k \in Intents : IntentInv(k)'
<1>1. /\ SameEpochs /\ row' = row /\ disk' = disk
      /\ recFailed' = recFailed /\ eff' = eff /\ op' = op
  BY DEF Land, SameEpochs, database, memory
<1>2. \A k \in Intents : k # i => wire'[k] = wire[k] /\ upstream'[k] = upstream[k]
  BY DEF Land, SafetyInv, TypeOK, TypeWorld
<1>3. /\ wire[i] = "flying"
      /\ \/ /\ row[i].mode = "conditional" /\ upstream[i] = "theirs"
            /\ wire'[i] = "rejected" /\ upstream'[i] = upstream[i]
         \/ /\ ~(row[i].mode = "conditional" /\ upstream[i] = "theirs")
            /\ wire'[i] = "landed" /\ upstream'[i] = "ours"
  BY DEF Land, SafetyInv, TypeOK, TypeWorld
<1>4. ASSUME NEW k \in Intents, k # i PROVE IntentInv(k)'
  BY <1>1, <1>2, <1>4, SameKeeps DEF Same, SameMemory, SameWorld, SafetyInv
<1>5. Control(i)'
  BY <1>1, <1>2, <1>3 DEF Land, SafetyInv, IntentInv, Control, Unborn, Live, Owned,
     ClaimedFirst, OneWriter, Doing, InEffect, SameEpochs
<1>6. Announced(i)'
  BY <1>1, <1>3 DEF SafetyInv, IntentInv, World, Announced
<1>7. Remote(i)'
  BY <1>1, <1>3 DEF SafetyInv, IntentInv, World, Remote
<1>8. Files(i)'
  BY <1>1 DEF SafetyInv, IntentInv, World, Files, SameEpochs
<1>9. Answered(i)'
  BY <1>1, <1>3 DEF SafetyInv, IntentInv, World, Answered, SameEpochs
<1>10. VerdictOf(i)'
  BY <1>1, <1>3 DEF SafetyInv, IntentInv, World, VerdictOf, Remote
<1> QED
  BY <1>4, <1>5, <1>6, <1>7, <1>8, <1>9, <1>10 DEF IntentInv, World

LEMMA ForeignEditSafe ==
  ASSUME SafetyInv, NEW i \in Intents, ForeignEdit(i)
  PROVE  \A k \in Intents : IntentInv(k)'
<1>1. /\ SameEpochs /\ row' = row /\ disk' = disk /\ recFailed' = recFailed
      /\ eff' = eff /\ op' = op /\ wire' = wire
  BY DEF ForeignEdit, SameEpochs, database, memory
<1>2. \A k \in Intents : upstream'[k] = IF k = i THEN "theirs" ELSE upstream[k]
  BY DEF ForeignEdit, SafetyInv, TypeOK, TypeWorld
<1>3. ASSUME NEW k \in Intents, k # i PROVE IntentInv(k)'
  BY <1>1, <1>2, <1>3, SameKeeps DEF Same, SameMemory, SameWorld, SafetyInv
<1>4. Control(i)'
  BY <1>1, <1>2 DEF ForeignEdit, SafetyInv, IntentInv, Control, Unborn, Live, Owned,
     ClaimedFirst, OneWriter, Doing, InEffect, SameEpochs
<1>5. Announced(i)'
  BY <1>1 DEF SafetyInv, IntentInv, World, Announced
<1>6. VerdictOf(i)'
  BY <1>1 DEF ForeignEdit, SafetyInv, IntentInv, World, VerdictOf
<1>7. Remote(i)'
  BY <1>1 DEF ForeignEdit, SafetyInv, IntentInv, World, Remote
<1>8. Files(i)'
  BY <1>1 DEF SafetyInv, IntentInv, World, Files, SameEpochs
<1>9. Answered(i)'
  BY <1>1 DEF SafetyInv, IntentInv, World, Answered, SameEpochs
<1> QED
  BY <1>3, <1>4, <1>5, <1>6, <1>7, <1>8, <1>9 DEF IntentInv, World

LEMMA RespondSafe ==
  ASSUME SafetyInv, NEW r \in Runtimes, NEW i \in Intents, Respond(r, i)
  PROVE  \A k \in Intents : IntentInv(k)'
<1>1. /\ SameEpochs /\ row' = row /\ upstream' = upstream
      /\ disk' = disk /\ recFailed' = recFailed /\ eff' = eff
  BY DEF Respond, SameEpochs, database
<1>2. \A q \in Runtimes, k \in Intents :
        op'[q][k] = IF q = r /\ k = i THEN At("finish", op[r][i].ph) ELSE op[q][k]
  BY OpAt DEF Respond, SafetyInv, TypeOK
<1>3. \A k \in Intents : wire'[k] = IF k = i THEN "acked" ELSE wire[k]
  BY DEF Respond, SafetyInv, TypeOK, TypeWorld
<1>4. ASSUME NEW k \in Intents, k # i PROVE IntentInv(k)'
  BY <1>1, <1>2, <1>3, <1>4, SameKeeps DEF Same, SameMemory, SameWorld, SafetyInv
<1>5. Control(i)'
  BY <1>1, <1>2, <1>3 DEF Respond, SafetyInv, IntentInv, Control, Unborn, Live, Owned,
     ClaimedFirst, OneWriter, Doing, InEffect, At, SameEpochs
<1>6. Announced(i)'
  BY <1>1 DEF Respond, SafetyInv, IntentInv, World, Announced
<1>7. VerdictOf(i)'
  BY <1>1, <1>3 DEF SafetyInv, IntentInv, World, VerdictOf
<1>8. Remote(i)'
  BY DEF Respond, SafetyInv, IntentInv, World, Remote
<1>9. Answered(i)'
  BY <1>3 DEF Answered
<1>10. Files(i)'
  BY <1>1, <1>2, <1>3 DEF Respond, SafetyInv, IntentInv, World, Files, SameEpochs,
     Control, Live, Doing
<1> QED
  BY <1>4, <1>5, <1>6, <1>7, <1>8, <1>9, <1>10 DEF IntentInv, World

LEMMA WriteFilesSafe ==
  ASSUME SafetyInv, NEW r \in Runtimes, NEW i \in Intents, WriteFiles(r, i)
  PROVE  \A k \in Intents : IntentInv(k)'
<1>1. /\ SameEpochs /\ row' = row /\ upstream' = upstream /\ wire' = wire
      /\ recFailed' = recFailed /\ eff' = eff /\ op' = op
  BY DEF WriteFiles, SameEpochs, database, memory
<1>2. /\ \A k \in Intents : k # i => disk'[k] = disk[k]
      /\ disk[i] = "intended" => disk'[i] = "intended"
  BY DEF WriteFiles
<1>3. ASSUME NEW k \in Intents, k # i PROVE IntentInv(k)'
  BY <1>1, <1>2, <1>3, SameKeeps DEF Same, SameMemory, SameWorld, SafetyInv
<1>4. Control(i)'
  BY <1>1, <1>2 DEF WriteFiles, SafetyInv, IntentInv, Control, Unborn, Live, Owned,
     ClaimedFirst, OneWriter, Doing, InEffect, SameEpochs
<1>5. Announced(i)'
  BY <1>1, <1>2 DEF WriteFiles, SafetyInv, IntentInv, World, Announced, Control, Owned,
     InEffect
<1>6. VerdictOf(i)'
  BY <1>1, <1>2 DEF WriteFiles, SafetyInv, IntentInv, VerdictOf, Control, Owned, InEffect
<1>7. Remote(i)'
  BY <1>1, <1>2 DEF SafetyInv, IntentInv, World, Remote
<1>8. Files(i)'
  BY <1>1, <1>2 DEF WriteFiles, SafetyInv, IntentInv, World, Files, SameEpochs, Control,
     Live, Owned, OneWriter, Doing, InEffect
<1>9. Answered(i)'
  BY <1>1, <1>2 DEF WriteFiles, SafetyInv, IntentInv, World, Answered, SameEpochs
<1> QED
  BY <1>3, <1>4, <1>5, <1>6, <1>7, <1>8, <1>9 DEF IntentInv, World

LEMMA LocalPhaseReturnsSafe ==
  ASSUME SafetyInv, NEW r \in Runtimes, NEW i \in Intents, LocalPhaseReturns(r, i)
  PROVE  \A k \in Intents : IntentInv(k)'
<1>1. /\ SameEpochs /\ row' = row /\ upstream' = upstream /\ wire' = wire
      /\ disk' = disk /\ recFailed' = recFailed /\ eff' = eff
  BY DEF LocalPhaseReturns, SameEpochs, database, world
<1>2. \A q \in Runtimes, k \in Intents :
        op'[q][k] = IF q = r /\ k = i THEN At("finish", op[r][i].ph) ELSE op[q][k]
  BY OpAt DEF LocalPhaseReturns, SafetyInv, TypeOK
<1>3. ASSUME NEW k \in Intents, k # i PROVE IntentInv(k)'
  BY <1>1, <1>2, <1>3, SameKeeps DEF Same, SameMemory, SameWorld, SafetyInv
<1>4. Control(i)'
  BY <1>1, <1>2 DEF LocalPhaseReturns, SafetyInv, IntentInv, Control, Unborn, Live,
     Owned, ClaimedFirst, OneWriter, Doing, InEffect, At, SameEpochs
<1>5. Announced(i)'
  BY <1>1 DEF SafetyInv, IntentInv, World, Announced
<1>6. VerdictOf(i)'
  BY <1>1 DEF SafetyInv, IntentInv, World, VerdictOf
<1>7. Remote(i)'
  BY <1>1, <1>2 DEF LocalPhaseReturns, SafetyInv, IntentInv, World, Remote, At
<1>8. Answered(i)'
  BY <1>1, <1>2 DEF LocalPhaseReturns, SafetyInv, IntentInv, World, Answered, SameEpochs
<1>9. Files(i)'
  BY <1>1, <1>2 DEF LocalPhaseReturns, SafetyInv, IntentInv, World, Files, SameEpochs,
     At, Control, Live, Doing, IsRemote, Phases
<1> QED
  BY <1>3, <1>4, <1>5, <1>6, <1>7, <1>8, <1>9 DEF IntentInv, World

-----------------------------------------------------------------------------
(* Durable marks.  A COMMIT whose acknowledgement is lost fails the effect.   *)

LEMMA MarkStartedAckedSafe ==
  ASSUME SafetyInv, NEW r \in Runtimes, NEW i \in Intents, MarkStarted(r, i), SetOp(r,
         i, At("io", op[r][i].ph)), UNCHANGED <<eff, recFailed>>
  PROVE  \A k \in Intents : IntentInv(k)'
<1>1. SameEpochs /\ wire' = wire /\ upstream' = upstream /\ disk' = disk
  BY DEF MarkStarted, SameEpochs, world
<1>2. /\ \A k \in Intents : k # i => row'[k] = row[k]
      /\ row'[i].status = row[i].status /\ row'[i].owner = row[i].owner /\ row'[i].mode = row[i].mode
      /\ row'[i].marks = row[i].marks \cup (IF IsRemote(op[r][i].ph) THEN {"started", "remote"} ELSE {"started"})
  BY MarksAt DEF MarkStarted, SafetyInv, TypeOK
<1>3. eff' = eff /\ recFailed' = recFailed
  OBVIOUS
<1>4. \A q \in Runtimes, k \in Intents :
        op'[q][k] = IF q = r /\ k = i THEN At("io", op[r][i].ph) ELSE op[q][k]
  BY OpAt DEF SafetyInv, TypeOK
<1>5. ASSUME NEW k \in Intents, k # i PROVE IntentInv(k)'
  BY <1>1, <1>2, <1>4, <1>5, SameKeeps DEF Same, SameMemory, SameWorld, SafetyInv
<1>6. Unborn(i)'
  BY <1>1, <1>2, <1>3, <1>4 DEF MarkStarted, Unborn, LockWithIntent, HoldsPages, Pending
<1>7. Live(i)'
  BY <1>1, <1>2, <1>3, <1>4 DEF MarkStarted, SafetyInv, IntentInv, Control, Live, Doing, At
<1>8. Owned(i)'
  BY <1>1, <1>2, <1>3, <1>4 DEF MarkStarted, SafetyInv, IntentInv, Control, Owned,
     InEffect, At, LockWithIntent, HoldsPages, Pending, Active
<1>9. ClaimedFirst(i)'
  BY <1>1, <1>2, <1>3, <1>4 DEF MarkStarted, SafetyInv, IntentInv, Control,
     ClaimedFirst, Doing, At
<1>10. OneWriter(i)'
  BY <1>1, <1>2, <1>3, <1>4 DEF MarkStarted, SafetyInv, IntentInv, Control, OneWriter
<1>11. Announced(i)'
  BY <1>1, <1>2, <1>3, <1>4 DEF MarkStarted, SafetyInv, IntentInv, World, Announced,
     LockWithIntent, HoldsPages, Pending
<1>12. Remote(i)'
  BY <1>1, <1>2, <1>3, <1>4 DEF MarkStarted, SafetyInv, IntentInv, World, Remote, At
<1>13. Files(i)'
  BY <1>1, <1>2, <1>3, <1>4 DEF MarkStarted, SafetyInv, IntentInv, World, Files,
     SameEpochs, At
<1>14. Answered(i)'
  BY <1>1, <1>2, <1>3, <1>4 DEF MarkStarted, SafetyInv, IntentInv, World, Answered,
     SameEpochs
<1>15. VerdictOf(i)'
  BY <1>1, <1>2, <1>3, <1>4 DEF MarkStarted, SafetyInv, IntentInv, World, VerdictOf
<1> QED
  BY <1>5, <1>6, <1>7, <1>8, <1>9, <1>10, <1>11, <1>12, <1>13, <1>14, <1>15 DEF
     IntentInv, Control, World

LEMMA MarkStartedLostSafe ==
  ASSUME SafetyInv, NEW r \in Runtimes, NEW i \in Intents, MarkStarted(r, i),
         FailEffect(r, i)
  PROVE  \A k \in Intents : IntentInv(k)'
<1>1. SameEpochs /\ wire' = wire /\ upstream' = upstream /\ disk' = disk
  BY DEF MarkStarted, SameEpochs, world
<1>2. /\ \A k \in Intents : k # i => row'[k] = row[k]
      /\ row'[i].status = row[i].status /\ row'[i].owner = row[i].owner /\ row'[i].mode = row[i].mode
      /\ row'[i].marks = row[i].marks \cup (IF IsRemote(op[r][i].ph) THEN {"started", "remote"} ELSE {"started"})
  BY MarksAt DEF MarkStarted, SafetyInv, TypeOK
<1>3. \A q \in Runtimes, k \in Intents :
        op'[q][k] = IF q = r /\ k = i THEN Idle ELSE op[q][k]
  BY OpAt DEF FailEffect, SafetyInv, TypeOK
<1>4. \A q \in Runtimes, k \in Intents :
        eff'[q][k] = IF q = r /\ k = i THEN FailedEff(op[r][i].ph) ELSE eff[q][k]
  BY EffAt DEF FailEffect, SafetyInv, TypeOK
<1>5. \A q \in Runtimes, k \in Intents :
        <<q, k>> \in recFailed' <=> <<q, k>> \in recFailed \/ (q = r /\ k = i /\ op[r][i].ph = "repair")
  BY DEF FailEffect
<1>6. ASSUME NEW k \in Intents, k # i PROVE IntentInv(k)'
  BY <1>1, <1>2, <1>3, <1>4, <1>5, <1>6, SameKeeps DEF Same, SameMemory, SameWorld,
     SafetyInv
<1>7. Unborn(i)'
  BY <1>1, <1>2, <1>3, <1>4, <1>5 DEF MarkStarted, SafetyInv, Unborn, LockWithIntent,
     HoldsPages, Pending
<1>8. Live(i)'
  BY <1>1, <1>2, <1>3, <1>4, <1>5 DEF MarkStarted, SafetyInv, IntentInv, Control, Live,
     Doing, At, Idle
<1>9. Owned(i)'
  BY <1>1, <1>2, <1>3, <1>4, <1>5 DEF MarkStarted, SafetyInv, IntentInv, Control, Owned,
     InEffect, At, Idle
<1>10. ClaimedFirst(i)'
  BY <1>1, <1>2, <1>3, <1>4, <1>5 DEF MarkStarted, SafetyInv, IntentInv, Control,
     ClaimedFirst, Doing, At, Idle
<1>11. OneWriter(i)'
  BY <1>1, <1>2, <1>3, <1>4, <1>5 DEF MarkStarted, SafetyInv, IntentInv, Control,
     OneWriter, Live, Doing
<1>12. Announced(i)'
  BY <1>1, <1>2, <1>3, <1>4, <1>5 DEF MarkStarted, SafetyInv, IntentInv, World,
     Announced, At, Idle, LockWithIntent, HoldsPages, Pending
<1>13. Remote(i)'
  BY <1>1, <1>2, <1>3, <1>4, <1>5 DEF MarkStarted, SafetyInv, IntentInv, World, Remote,
     At, Idle
<1>14. Files(i)'
  BY <1>1, <1>2, <1>3, <1>4, <1>5 DEF MarkStarted, SafetyInv, IntentInv, World, Files,
     SameEpochs, At, Idle, FailedEff
<1>15. Answered(i)'
  BY <1>1, <1>2, <1>3, <1>4, <1>5 DEF MarkStarted, SafetyInv, IntentInv, World,
     Answered, SameEpochs, At, Idle, Control, Live, Doing
<1>16. VerdictOf(i)'
  BY <1>1, <1>2, <1>3, <1>4, <1>5 DEF MarkStarted, SafetyInv, IntentInv, World,
     VerdictOf, At, Idle
<1> QED
  BY <1>6, <1>7, <1>8, <1>9, <1>10, <1>11, <1>12, <1>13, <1>14, <1>15, <1>16 DEF
     IntentInv, Control, World

LEMMA MarkFinishedAckedSafe ==
  ASSUME SafetyInv, NEW r \in Runtimes, NEW i \in Intents, MarkFinished(r, i), SetEff(r,
         i, "succeeded"),
         SetOp(r, i, IF op[r][i].ph = "repair" THEN At("reverify", "none") ELSE Idle), UNCHANGED recFailed
  PROVE  \A k \in Intents : IntentInv(k)'
<1>1. SameEpochs /\ wire' = wire /\ upstream' = upstream /\ disk' = disk
  BY DEF MarkFinished, SameEpochs, world
<1>2. /\ \A k \in Intents : k # i => row'[k] = row[k]
      /\ row'[i].status = row[i].status /\ row'[i].owner = row[i].owner /\ row'[i].mode = row[i].mode
      /\ row'[i].marks = row[i].marks \cup (IF op[r][i].ph = "final" THEN {"done"} ELSE {})
  BY MarksAt DEF MarkFinished, SafetyInv, TypeOK
<1>3. recFailed' = recFailed
  OBVIOUS
<1>4. \A q \in Runtimes, k \in Intents :
        eff'[q][k] = IF q = r /\ k = i THEN "succeeded" ELSE eff[q][k]
  BY EffAt DEF SafetyInv, TypeOK
<1>5. \A q \in Runtimes, k \in Intents :
        op'[q][k] = IF q = r /\ k = i THEN (IF op[r][i].ph = "repair" THEN At("reverify", "none") ELSE Idle) ELSE op[q][k]
  BY OpAt DEF SafetyInv, TypeOK
<1>6. ASSUME NEW k \in Intents, k # i PROVE IntentInv(k)'
  BY <1>1, <1>2, <1>4, <1>5, <1>6, SameKeeps DEF Same, SameMemory, SameWorld, SafetyInv
<1>7. Unborn(i)'
  BY <1>1, <1>2, <1>3, <1>4, <1>5 DEF MarkFinished, Unborn, LockWithIntent, HoldsPages,
     Pending
<1>8. Live(i)'
  BY <1>1, <1>2, <1>3, <1>4, <1>5 DEF MarkFinished, SafetyInv, IntentInv, Control, Live,
     Doing, At, Idle
<1>9. Owned(i)'
  BY <1>1, <1>2, <1>3, <1>4, <1>5 DEF MarkFinished, SafetyInv, IntentInv, Control,
     Owned, InEffect, At, Idle
<1>10. ClaimedFirst(i)'
  BY <1>1, <1>2, <1>3, <1>4, <1>5 DEF MarkFinished, SafetyInv, IntentInv, Control,
     ClaimedFirst, Doing, At, Idle
<1>11. OneWriter(i)'
  BY <1>1, <1>2, <1>3, <1>4, <1>5 DEF MarkFinished, SafetyInv, IntentInv, Control,
     OneWriter, Live, Doing
<1>12. Announced(i)'
  BY <1>1, <1>2, <1>3, <1>4, <1>5 DEF MarkFinished, SafetyInv, IntentInv, World,
     Announced, At, Idle
<1>13. Remote(i)'
  BY <1>1, <1>2, <1>3, <1>4, <1>5 DEF MarkFinished, SafetyInv, IntentInv, World, Remote,
     At, Idle, IsRemote
<1>14. Files(i)'
  BY <1>1, <1>2, <1>3, <1>4, <1>5 DEF MarkFinished, SafetyInv, IntentInv, World, Files,
     SameEpochs, At, Idle
<1>15. Answered(i)'
  BY <1>1, <1>2, <1>3, <1>4, <1>5 DEF MarkFinished, SafetyInv, IntentInv, World,
     Answered, SameEpochs, At, Idle, Control, Live, Doing
<1>16. VerdictOf(i)'
  BY <1>1, <1>2, <1>3, <1>4, <1>5 DEF MarkFinished, SafetyInv, IntentInv, World,
     VerdictOf, At, Idle
<1> QED
  BY <1>6, <1>7, <1>8, <1>9, <1>10, <1>11, <1>12, <1>13, <1>14, <1>15, <1>16 DEF
     IntentInv, Control, World

LEMMA MarkFinishedLostSafe ==
  ASSUME SafetyInv, NEW r \in Runtimes, NEW i \in Intents, MarkFinished(r, i),
         FailEffect(r, i)
  PROVE  \A k \in Intents : IntentInv(k)'
<1>1. SameEpochs /\ wire' = wire /\ upstream' = upstream /\ disk' = disk
  BY DEF MarkFinished, SameEpochs, world
<1>2. /\ \A k \in Intents : k # i => row'[k] = row[k]
      /\ row'[i].status = row[i].status /\ row'[i].owner = row[i].owner /\ row'[i].mode = row[i].mode
      /\ row'[i].marks = row[i].marks \cup (IF op[r][i].ph = "final" THEN {"done"} ELSE {})
  BY MarksAt DEF MarkFinished, SafetyInv, TypeOK
<1>3. \A q \in Runtimes, k \in Intents :
        op'[q][k] = IF q = r /\ k = i THEN Idle ELSE op[q][k]
  BY OpAt DEF FailEffect, SafetyInv, TypeOK
<1>4. \A q \in Runtimes, k \in Intents :
        eff'[q][k] = IF q = r /\ k = i THEN FailedEff(op[r][i].ph) ELSE eff[q][k]
  BY EffAt DEF FailEffect, SafetyInv, TypeOK
<1>5. \A q \in Runtimes, k \in Intents :
        <<q, k>> \in recFailed' <=> <<q, k>> \in recFailed \/ (q = r /\ k = i /\ op[r][i].ph = "repair")
  BY DEF FailEffect
<1>6. ASSUME NEW k \in Intents, k # i PROVE IntentInv(k)'
  BY <1>1, <1>2, <1>3, <1>4, <1>5, <1>6, SameKeeps DEF Same, SameMemory, SameWorld,
     SafetyInv
<1>7. Unborn(i)'
  BY <1>1, <1>2, <1>3, <1>4, <1>5 DEF MarkFinished, SafetyInv, Unborn, LockWithIntent,
     HoldsPages, Pending
<1>8. Live(i)'
  BY <1>1, <1>2, <1>3, <1>4, <1>5 DEF MarkFinished, SafetyInv, IntentInv, Control, Live,
     Doing, At, Idle
<1>9. Owned(i)'
  BY <1>1, <1>2, <1>3, <1>4, <1>5 DEF MarkFinished, SafetyInv, IntentInv, Control,
     Owned, InEffect, At, Idle
<1>10. ClaimedFirst(i)'
  BY <1>1, <1>2, <1>3, <1>4, <1>5 DEF MarkFinished, SafetyInv, IntentInv, Control,
     ClaimedFirst, Doing, At, Idle
<1>11. OneWriter(i)'
  BY <1>1, <1>2, <1>3, <1>4, <1>5 DEF MarkFinished, SafetyInv, IntentInv, Control,
     OneWriter, Live, Doing
<1>12. Announced(i)'
  BY <1>1, <1>2, <1>3, <1>4, <1>5 DEF MarkFinished, SafetyInv, IntentInv, World,
     Announced, At, Idle, FailedEff
<1>13. Remote(i)'
  BY <1>1, <1>2, <1>3, <1>4, <1>5 DEF MarkFinished, SafetyInv, IntentInv, World, Remote,
     At, Idle, FailedEff, IsRemote
<1>14. Files(i)'
  BY <1>1, <1>2, <1>3, <1>4, <1>5 DEF MarkFinished, SafetyInv, IntentInv, World, Files,
     SameEpochs, At, Idle, FailedEff
<1>15. Answered(i)'
  BY <1>1, <1>2, <1>3, <1>4, <1>5 DEF MarkFinished, SafetyInv, IntentInv, World,
     Answered, SameEpochs, At, Idle, FailedEff, Control, Live, Doing
<1>16. VerdictOf(i)'
  BY <1>1, <1>2, <1>3, <1>4, <1>5 DEF MarkFinished, SafetyInv, IntentInv, World,
     VerdictOf, At, Idle, FailedEff
<1> QED
  BY <1>6, <1>7, <1>8, <1>9, <1>10, <1>11, <1>12, <1>13, <1>14, <1>15, <1>16 DEF
     IntentInv, Control, World

-----------------------------------------------------------------------------
(* Settlement by the owner.                                                  *)

LEMMA CompleteSafe ==
  ASSUME SafetyInv, NEW r \in Runtimes, NEW i \in Intents, Complete(r, i)
  PROVE  \A k \in Intents : IntentInv(k)'
<1>1. /\ SameEpochs /\ op' = op /\ recFailed' = recFailed
      /\ wire' = wire /\ upstream' = upstream /\ disk' = disk
  BY DEF Complete, SameEpochs, world
<1>2. /\ \A k \in Intents : k # i => row'[k] = row[k]
      /\ row'[i].status = "completed"
      /\ row'[i].owner = row[i].owner /\ row'[i].mode = row[i].mode /\ row'[i].marks = row[i].marks
  BY StatusAt DEF Complete, SafetyInv, TypeOK
<1>3. \/ \A q \in Runtimes, k \in Intents :
           eff'[q][k] = IF q = r /\ k = i THEN "none" ELSE eff[q][k]
      \/ eff' = eff
  BY EffAt DEF Complete, SafetyInv, TypeOK
<1>4. row[i].owner = r /\ row[i].status = "pending" /\ epoch[r] = "active" /\ op[r][i].at = "idle"
  BY DEF Complete, LockWithIntent, HoldsPages, Pending, Active, Idle, At
<1>5. row[i].mode \in RemoteModes => upstream[i] = "ours"
  BY DEF Complete, EffectTerminal, SafetyInv, IntentInv, World, Remote, LocalModes,
     RemoteModes, TerminalModes
<1>6. disk[i] # "partial"
  BY <1>4 DEF Complete, EffectTerminal, SafetyInv, IntentInv, World, Files, Announced,
     TypeOK, TypeMemory, Effects
<1>7. ASSUME NEW k \in Intents, k # i PROVE IntentInv(k)'
  BY <1>1, <1>2, <1>3, <1>5, <1>7, SameKeeps DEF Same, SameMemory, SameWorld, SafetyInv
<1>8. Unborn(i)'
  BY <1>1, <1>2 DEF Unborn
<1>9. Live(i)'
  BY <1>1, <1>2, <1>3, <1>4 DEF Complete, SafetyInv, IntentInv, Control, Live, Doing
<1>10. Owned(i)'
  BY <1>1, <1>2, <1>3, <1>4 DEF SafetyInv, IntentInv, Control, Owned, InEffect
<1>11. ClaimedFirst(i)'
  BY <1>1, <1>2, <1>3 DEF SafetyInv, IntentInv, Control, ClaimedFirst, Doing
<1>12. OneWriter(i)'
  BY <1>1, <1>2, <1>3 DEF Complete, SafetyInv, IntentInv, Control, OneWriter
<1>13. Announced(i)'
  BY <1>1, <1>2 DEF SafetyInv, IntentInv, World, Announced
<1>14. Remote(i)'
  BY <1>1, <1>2 DEF SafetyInv, IntentInv, World, Remote
<1>15. Files(i)'
  BY <1>1, <1>2, <1>3 DEF Complete, SafetyInv, IntentInv, World, Files
<1>16. Answered(i)'
  BY <1>1, <1>3 DEF Complete, SafetyInv, IntentInv, World, Answered
<1>17. VerdictOf(i)'
  BY <1>1, <1>2, <1>5, <1>6 DEF VerdictOf
<1> QED
  BY <1>7, <1>8, <1>9, <1>10, <1>11, <1>12, <1>13, <1>14, <1>15, <1>16, <1>17 DEF
     IntentInv, Control, World

LEMMA CompleteRereadsSafe ==
  ASSUME SafetyInv, NEW r \in Runtimes, NEW i \in Intents, CompleteRereads(r, i)
  PROVE  \A k \in Intents : IntentInv(k)'
<1>1. /\ SameEpochs /\ row' = row /\ op' = op /\ recFailed' = recFailed
      /\ wire' = wire /\ upstream' = upstream /\ disk' = disk
  BY DEF CompleteRereads, SameEpochs, database, world
<1>2. \A q \in Runtimes, k \in Intents :
        eff'[q][k] = IF q = r /\ k = i THEN "none" ELSE eff[q][k]
  BY EffAt DEF CompleteRereads, SafetyInv, TypeOK
<1>3. ASSUME NEW k \in Intents, k # i PROVE IntentInv(k)'
  BY <1>1, <1>2, <1>3, SameKeeps DEF Same, SameMemory, SameWorld, SafetyInv
<1>4. Unborn(i)'
  BY <1>1 DEF CompleteRereads, Unborn
<1>5. Live(i)'
  BY <1>1, <1>2 DEF CompleteRereads, SafetyInv, IntentInv, Control, Live, Doing, Idle, At
<1>6. Owned(i)'
  BY DEF CompleteRereads, SafetyInv, IntentInv, Control, Owned, InEffect
<1>7. ClaimedFirst(i)'
  BY <1>1 DEF SafetyInv, IntentInv, Control, ClaimedFirst, Doing
<1>8. OneWriter(i)'
  BY <1>1, <1>2 DEF SafetyInv, IntentInv, Control, OneWriter, SameEpochs
<1>9. Announced(i)'
  BY <1>1 DEF SafetyInv, IntentInv, World, Announced
<1>10. Remote(i)'
  BY <1>1 DEF SafetyInv, IntentInv, World, Remote
<1>11. Files(i)'
  BY <1>1, <1>2 DEF SafetyInv, IntentInv, World, Files, SameEpochs
<1>12. Answered(i)'
  BY <1>1, <1>2 DEF SafetyInv, IntentInv, World, Answered, SameEpochs
<1>13. VerdictOf(i)'
  BY <1>1 DEF SafetyInv, IntentInv, World, VerdictOf
<1> QED
  BY <1>3, <1>4, <1>5, <1>6, <1>7, <1>8, <1>9, <1>10, <1>11, <1>12, <1>13 DEF IntentInv,
     Control, World

LEMMA AdvanceSafe ==
  ASSUME SafetyInv, NEW r \in Runtimes, NEW i \in Intents, Advance(r, i)
  PROVE  \A k \in Intents : IntentInv(k)'
<1>1. /\ SameEpochs /\ op' = op /\ eff' = eff /\ recFailed' = recFailed
      /\ wire' = wire /\ upstream' = upstream /\ disk' = disk
  BY DEF Advance, SameEpochs, world
<1>2. /\ \A k \in Intents : k # i => row'[k] = row[k]
      /\ row'[i].status = row[i].status /\ row'[i].owner = row[i].owner
      /\ row'[i].mode = row[i].mode /\ row'[i].marks = row[i].marks \cup {"started"}
  BY MarksAt DEF Advance, SafetyInv, TypeOK
<1>3. row[i].status = "pending"
  BY DEF Advance, LockWithIntent, HoldsPages, Pending
<1>4. ASSUME NEW k \in Intents, k # i PROVE IntentInv(k)'
  BY <1>1, <1>2, <1>4, SameKeeps DEF Same, SameMemory, SameWorld, SafetyInv
<1>5. Unborn(i)'
  BY <1>2, <1>3 DEF Unborn
<1>6. Live(i)'
  BY DEF Advance, SafetyInv, IntentInv, Control, Live, Doing
<1>7. Owned(i)'
  BY DEF Advance, SafetyInv, IntentInv, Control, Owned, InEffect
<1>8. ClaimedFirst(i)'
  BY <1>1, <1>2 DEF SafetyInv, IntentInv, Control, ClaimedFirst, Doing
<1>9. OneWriter(i)'
  BY DEF Advance, SafetyInv, IntentInv, Control, OneWriter
<1>10. Announced(i)'
  BY <1>1, <1>2, <1>3 DEF SafetyInv, IntentInv, World, Announced
<1>11. Remote(i)'
  BY <1>1, <1>2 DEF SafetyInv, IntentInv, World, Remote
<1>12. Files(i)'
  BY <1>1 DEF Advance, SafetyInv, IntentInv, World, Files
<1>13. Answered(i)'
  BY <1>1 DEF Advance, SafetyInv, IntentInv, World, Answered
<1>14. VerdictOf(i)'
  BY <1>2, <1>3 DEF VerdictOf
<1> QED
  BY <1>4, <1>5, <1>6, <1>7, <1>8, <1>9, <1>10, <1>11, <1>12, <1>13, <1>14 DEF
     IntentInv, Control, World

-----------------------------------------------------------------------------
(* Reconciliation.                                                           *)

LEMMA DiscoverSafe ==
  ASSUME SafetyInv, NEW r \in Runtimes, NEW i \in Intents, Discover(r, i)
  PROVE  \A k \in Intents : IntentInv(k)'
<1>1. /\ SameEpochs /\ row' = row /\ eff' = eff /\ recFailed' = recFailed
      /\ wire' = wire /\ upstream' = upstream /\ disk' = disk
  BY DEF Discover, SameEpochs, database, world
<1>2. \A q \in Runtimes, k \in Intents :
        op'[q][k] = IF q = r /\ k = i THEN At("discovered", "none") ELSE op[q][k]
  BY OpAt DEF Discover, SafetyInv, TypeOK
<1>3. op[r][i].at = "idle" /\ row[i].status = "pending"
  BY DEF Discover, Idle, At, Pending
<1>4. ASSUME NEW k \in Intents, k # i PROVE IntentInv(k)'
  BY <1>1, <1>2, <1>4, SameKeeps DEF Same, SameMemory, SameWorld, SafetyInv
<1>5. Unborn(i)'
  BY <1>1, <1>3 DEF Unborn
<1>6. Live(i)'
  BY <1>1, <1>2 DEF Discover, SafetyInv, IntentInv, Control, Live, Doing, At
<1>7. Owned(i)'
  BY <1>1, <1>2 DEF SafetyInv, IntentInv, Control, Owned, SameEpochs, InEffect, At
<1>8. ClaimedFirst(i)'
  BY <1>1, <1>2 DEF SafetyInv, IntentInv, Control, ClaimedFirst, Doing, At
<1>9. OneWriter(i)'
  BY <1>1 DEF SafetyInv, IntentInv, Control, OneWriter, SameEpochs
<1>10. Announced(i)'
  BY <1>1 DEF SafetyInv, IntentInv, World, Announced
<1>11. Remote(i)'
  BY <1>1, <1>2 DEF SafetyInv, IntentInv, World, Remote, At
<1>12. Files(i)'
  BY <1>1, <1>2, <1>3 DEF SafetyInv, IntentInv, World, Files, SameEpochs, At
<1>13. Answered(i)'
  BY <1>1, <1>2, <1>3 DEF SafetyInv, IntentInv, World, Answered, SameEpochs
<1>14. VerdictOf(i)'
  BY <1>1, <1>3 DEF VerdictOf
<1> QED
  BY <1>4, <1>5, <1>6, <1>7, <1>8, <1>9, <1>10, <1>11, <1>12, <1>13, <1>14 DEF
     IntentInv, Control, World

LEMMA RecoveryFailsSafe ==
  ASSUME SafetyInv, NEW r \in Runtimes, NEW i \in Intents, RecoveryFails(r, i)
  PROVE  \A k \in Intents : IntentInv(k)'
<1>1. SameEpochs /\ row' = row /\ wire' = wire /\ upstream' = upstream /\ disk' = disk
  BY DEF RecoveryFails, SameEpochs, database, world
<1>2. \A q \in Runtimes, k \in Intents :
        op'[q][k] = IF q = r /\ k = i THEN Idle ELSE op[q][k]
  BY OpAt DEF RecoveryFails, FailRecovery, SafetyInv, TypeOK
<1>3. \A q \in Runtimes, k \in Intents : eff'[q][k] =
        IF q = r /\ k = i /\ op[r][i].at # "discovered" /\ eff[r][i] # "none" THEN "failed" ELSE eff[q][k]
  BY DEF RecoveryFails, FailRecovery, SafetyInv, TypeOK, TypeMemory
<1>4. \A q \in Runtimes, k \in Intents :
        <<q, k>> \in recFailed' <=> <<q, k>> \in recFailed \/ (q = r /\ k = i /\ op[r][i].at # "discovered")
  BY DEF RecoveryFails, FailRecovery, TypeOK
<1>5. op[r][i].at \in {"discovered", "verify", "reverify"}
  BY DEF RecoveryFails
<1>6. op[r][i].at \in {"verify", "reverify"} /\ eff[r][i] # "none" =>
        epoch[r] = "fenced" \/ row[i].mode \in LocalModes
  BY DEF SafetyInv, IntentInv, Control, OneWriter, ClaimedFirst
<1>7. ASSUME NEW k \in Intents, k # i PROVE IntentInv(k)'
  BY <1>1, <1>2, <1>3, <1>4, <1>6, <1>7, SameKeeps DEF Same, SameMemory, SameWorld,
     SafetyInv
<1>8. Unborn(i)'
  BY <1>1, <1>2, <1>3, <1>4, <1>5 DEF SafetyInv, IntentInv, Control, Unborn, At, Idle
<1>9. Live(i)'
  BY <1>1, <1>2, <1>3, <1>4, <1>5 DEF RecoveryFails, SafetyInv, IntentInv, Control,
     Live, Doing, At, Idle
<1>10. Owned(i)'
  BY <1>1, <1>2, <1>3, <1>4, <1>5 DEF SafetyInv, IntentInv, Control, Owned, SameEpochs,
     InEffect, At, Idle
<1>11. ClaimedFirst(i)'
  BY <1>1, <1>2, <1>3, <1>4, <1>5 DEF SafetyInv, IntentInv, Control, ClaimedFirst,
     Doing, At, Idle
<1>12. OneWriter(i)'
  BY <1>1, <1>2, <1>3 DEF SafetyInv, IntentInv, Control, OneWriter, SameEpochs, At
<1>13. Announced(i)'
  BY <1>1, <1>2 DEF SafetyInv, IntentInv, World, Announced, At
<1>14. Remote(i)'
  BY <1>1, <1>2, <1>3 DEF SafetyInv, IntentInv, World, Remote, At, Idle
<1>15. VerdictOf(i)'
  BY <1>1, <1>2 DEF SafetyInv, IntentInv, World, VerdictOf, At
<1>16. Files(i)'
  BY <1>1, <1>2, <1>3, <1>4 DEF SafetyInv, IntentInv, World, Files, SameEpochs, At, Idle
<1>17. Answered(i)'
  BY <1>1, <1>2, <1>3, <1>5, <1>6 DEF SafetyInv, IntentInv, World, Answered, Announced,
     SameEpochs
<1> QED
  BY <1>7, <1>8, <1>9, <1>10, <1>11, <1>12, <1>13, <1>14, <1>15, <1>16, <1>17 DEF
     IntentInv, Control, World

LEMMA SettleRecoveredAckedSafe ==
  ASSUME SafetyInv, NEW r \in Runtimes, NEW i \in Intents, SettleRecovered(r, i),
         SetEff(r, i, "none"), SetOp(r, i, Idle),
         recFailed' = recFailed \ {<<r, i>>}
  PROVE  \A k \in Intents : IntentInv(k)'
<1>1. SameEpochs /\ wire' = wire /\ upstream' = upstream /\ disk' = disk
  BY DEF SettleRecovered, SameEpochs, world
<1>2. /\ \A k \in Intents : k # i => row'[k] = row[k]
      /\ row'[i].status = Verdict(i) /\ row'[i].owner = row[i].owner
      /\ row'[i].mode = row[i].mode /\ row'[i].marks = row[i].marks
  BY StatusAt DEF SettleRecovered, SafetyInv, TypeOK
<1>3. /\ row[i].owner = r /\ row[i].status = "pending" /\ op[r][i].at \in {"verify", "reverify"}
      /\ Verdict(i) \in {"applied", "not_applied"}
  BY DEF SettleRecovered, Verifying, HoldsPages, Pending
<1>4. \A q \in Runtimes, k \in Intents :
        eff'[q][k] = IF q = r /\ k = i THEN "none" ELSE eff[q][k]
  BY EffAt DEF SafetyInv, TypeOK
<1>5. \A q \in Runtimes, k \in Intents :
        op'[q][k] = IF q = r /\ k = i THEN Idle ELSE op[q][k]
  BY OpAt DEF SafetyInv, TypeOK
<1>6. \A q \in Runtimes, k \in Intents :
        <<q, k>> \in recFailed' <=> <<q, k>> \in recFailed /\ ~(q = r /\ k = i)
  OBVIOUS
<1>7. ASSUME NEW k \in Intents, k # i PROVE IntentInv(k)'
  BY <1>1, <1>2, <1>4, <1>5, <1>7, SameKeeps DEF Same, SameMemory, SameWorld, SafetyInv
<1>8. Unborn(i)'
  BY <1>1, <1>2, <1>3 DEF Unborn, At
<1>9. Live(i)'
  BY <1>1, <1>2, <1>3, <1>4, <1>5 DEF SettleRecovered, SafetyInv, IntentInv, Control,
     Live, Doing, At, Idle
<1>10. Owned(i)'
  BY <1>1, <1>2, <1>3, <1>4, <1>5 DEF SafetyInv, IntentInv, Control, Owned, InEffect,
     At, Idle
<1>11. ClaimedFirst(i)'
  BY <1>1, <1>2, <1>3, <1>4, <1>5 DEF SafetyInv, IntentInv, Control, ClaimedFirst, Doing, At
<1>12. OneWriter(i)'
  BY <1>1, <1>2, <1>3, <1>4 DEF SettleRecovered, SafetyInv, IntentInv, Control,
     OneWriter, At
<1>13. Announced(i)'
  BY <1>1, <1>2, <1>3 DEF SafetyInv, IntentInv, World, Announced, At
<1>14. Remote(i)'
  BY <1>1, <1>2, <1>3, <1>5 DEF SafetyInv, IntentInv, World, Remote, At, Idle
<1>15. Files(i)'
  BY <1>1, <1>2, <1>3, <1>4, <1>5 DEF SettleRecovered, SafetyInv, IntentInv, World,
     Files, At, Idle
<1>16. Answered(i)'
  BY <1>1, <1>2, <1>3, <1>4, <1>5 DEF SettleRecovered, SafetyInv, IntentInv, World,
     Answered, At
<1>17. VerdictOf(i)'
  BY <1>1, <1>2, <1>3, <1>4, <1>5, <1>6 DEF SettleRecovered, SafetyInv, IntentInv,
     World, VerdictOf, Verdict, Announced, Remote, LocalModes, TerminalModes,
     RemoteModes
<1> QED
  BY <1>7, <1>8, <1>9, <1>10, <1>11, <1>12, <1>13, <1>14, <1>15, <1>16, <1>17 DEF
     IntentInv, Control, World

LEMMA SettleRecoveredLostSafe ==
  ASSUME SafetyInv, NEW r \in Runtimes, NEW i \in Intents, SettleRecovered(r, i),
         FailRecovery(r, i, TRUE)
  PROVE  \A k \in Intents : IntentInv(k)'
<1>1. SameEpochs /\ wire' = wire /\ upstream' = upstream /\ disk' = disk
  BY DEF SettleRecovered, SameEpochs, world
<1>2. /\ \A k \in Intents : k # i => row'[k] = row[k]
      /\ row'[i].status = Verdict(i) /\ row'[i].owner = row[i].owner
      /\ row'[i].mode = row[i].mode /\ row'[i].marks = row[i].marks
  BY StatusAt DEF SettleRecovered, SafetyInv, TypeOK
<1>3. /\ row[i].owner = r /\ row[i].status = "pending" /\ op[r][i].at \in {"verify", "reverify"}
      /\ Verdict(i) \in {"applied", "not_applied"}
  BY DEF SettleRecovered, Verifying, HoldsPages, Pending
<1>4. \A q \in Runtimes, k \in Intents :
        op'[q][k] = IF q = r /\ k = i THEN Idle ELSE op[q][k]
  BY OpAt DEF FailRecovery, SafetyInv, TypeOK
<1>5. \A q \in Runtimes, k \in Intents : eff'[q][k] =
        IF q = r /\ k = i /\ TRUE /\ eff[r][i] # "none" THEN "failed" ELSE eff[q][k]
  BY DEF FailRecovery, SafetyInv, TypeOK, TypeMemory
<1>6. \A q \in Runtimes, k \in Intents :
        <<q, k>> \in recFailed' <=> <<q, k>> \in recFailed \/ (q = r /\ k = i /\ TRUE)
  BY DEF FailRecovery, TypeOK
<1>7. op[r][i].at \in {"verify", "reverify"} /\ eff[r][i] # "none" =>
        epoch[r] = "fenced" \/ row[i].mode \in LocalModes
  BY DEF SafetyInv, IntentInv, Control, OneWriter, ClaimedFirst
<1>8. ASSUME NEW k \in Intents, k # i PROVE IntentInv(k)'
  BY <1>1, <1>2, <1>3, <1>4, <1>5, <1>6, <1>7, <1>8, SameKeeps DEF Same, SameMemory,
     SameWorld, SafetyInv
<1>9. Unborn(i)'
  BY <1>1, <1>2, <1>3, <1>4 DEF Unborn, At
<1>10. Live(i)'
  BY <1>1, <1>2, <1>3, <1>4, <1>5, <1>6 DEF SettleRecovered, SafetyInv, IntentInv,
     Control, Live, Doing, At, Idle
<1>11. Owned(i)'
  BY <1>1, <1>2, <1>3, <1>4, <1>5, <1>6 DEF SafetyInv, IntentInv, Control, Owned,
     InEffect, At, Idle
<1>12. ClaimedFirst(i)'
  BY <1>1, <1>2, <1>3, <1>4, <1>5, <1>6 DEF SafetyInv, IntentInv, Control, ClaimedFirst,
     Doing, At
<1>13. OneWriter(i)'
  BY <1>1, <1>2, <1>3, <1>4, <1>5 DEF SettleRecovered, SafetyInv, IntentInv, Control,
     OneWriter, At
<1>14. Announced(i)'
  BY <1>1, <1>2, <1>3 DEF SafetyInv, IntentInv, World, Announced, At
<1>15. Remote(i)'
  BY <1>1, <1>2, <1>3, <1>4 DEF SafetyInv, IntentInv, World, Remote, At, Idle
<1>16. Files(i)'
  BY <1>1, <1>2, <1>3, <1>4, <1>5 DEF SettleRecovered, SafetyInv, IntentInv, World,
     Files, At, Idle
<1>17. Answered(i)'
  BY <1>1, <1>2, <1>3, <1>4, <1>5, <1>7 DEF SafetyInv, IntentInv, World, Answered,
     Announced, SameEpochs
<1>18. VerdictOf(i)'
  BY <1>1, <1>2, <1>3, <1>4, <1>5, <1>6, <1>7 DEF SettleRecovered, SafetyInv, IntentInv,
     World, VerdictOf, Verdict, Announced, Remote, LocalModes, TerminalModes,
     RemoteModes
<1> QED
  BY <1>8, <1>9, <1>10, <1>11, <1>12, <1>13, <1>14, <1>15, <1>16, <1>17, <1>18 DEF
     IntentInv, Control, World

LEMMA StartRepairSafe ==
  ASSUME SafetyInv, NEW r \in Runtimes, NEW i \in Intents, StartRepair(r, i)
  PROVE  \A k \in Intents : IntentInv(k)'
<1>1. /\ SameEpochs /\ row' = row /\ recFailed' = recFailed
      /\ wire' = wire /\ upstream' = upstream /\ disk' = disk
  BY DEF StartRepair, SameEpochs, database, world
<1>2. \A q \in Runtimes, k \in Intents :
        eff'[q][k] = IF q = r /\ k = i THEN "running" ELSE eff[q][k]
  BY EffAt DEF StartRepair, SafetyInv, TypeOK
<1>3. \A q \in Runtimes, k \in Intents :
        op'[q][k] = IF q = r /\ k = i THEN At("mark", "repair") ELSE op[q][k]
  BY OpAt DEF StartRepair, SafetyInv, TypeOK
<1>4. /\ r \in up /\ row[i].owner = r /\ row[i].status = "pending" /\ op[r][i].at = "verify"
      /\ row[i].mode \in LocalModes
  BY DEF StartRepair, Verifying, Active, HoldsPages, Pending, Verdict
<1>5. ASSUME NEW k \in Intents, k # i PROVE IntentInv(k)'
  BY <1>1, <1>2, <1>3, <1>5, SameKeeps DEF Same, SameMemory, SameWorld, SafetyInv
<1>6. Unborn(i)'
  BY <1>1, <1>2, <1>3, <1>4 DEF Unborn, IsRemote, Phases
<1>7. Live(i)'
  BY <1>1, <1>2, <1>3, <1>4 DEF StartRepair, SafetyInv, IntentInv, Control, Live, Doing,
     At, IsRemote, Phases
<1>8. Owned(i)'
  BY <1>1, <1>2, <1>3, <1>4 DEF SafetyInv, IntentInv, Control, Owned, InEffect, At, Phases
<1>9. ClaimedFirst(i)'
  BY <1>1, <1>2, <1>3, <1>4 DEF SafetyInv, IntentInv, Control, ClaimedFirst, Doing,
     IsRemote, Phases
<1>10. OneWriter(i)'
  BY <1>1, <1>2, <1>3, <1>4 DEF SafetyInv, IntentInv, Control, OneWriter, SameEpochs,
     IsRemote, Phases
<1>11. Announced(i)'
  BY <1>1 DEF SafetyInv, IntentInv, World, Announced
<1>12. Remote(i)'
  BY <1>1, <1>3 DEF SafetyInv, IntentInv, World, Remote, At
<1>13. Files(i)'
  BY <1>1, <1>2, <1>3 DEF SafetyInv, IntentInv, World, Files, SameEpochs, At
<1>14. Answered(i)'
  BY <1>1, <1>2, <1>4 DEF SafetyInv, IntentInv, World, Answered, Announced
<1>15. VerdictOf(i)'
  BY <1>1, <1>4 DEF VerdictOf
<1> QED
  BY <1>5, <1>6, <1>7, <1>8, <1>9, <1>10, <1>11, <1>12, <1>13, <1>14, <1>15 DEF
     IntentInv, Control, World

\* A claim: its owner is fenced, or this process lost its own earlier claim, so
\* no effect of the intent is under way.
LEMMA ClaimSafe ==
  ASSUME SafetyInv, NEW r \in Runtimes, NEW i \in Intents, Claim(r, i)
  PROVE  \A k \in Intents : IntentInv(k)'
<1>1. /\ SameEpochs /\ wire' = wire /\ upstream' = upstream /\ disk' = disk
      /\ op[r][i].at = "discovered" /\ r \in up /\ epoch[r] = "active" /\ row[i].status = "pending"
      /\ MayClaim(r, i)
  BY DEF Claim, SameEpochs, world, Active, HoldsPages, Pending
<1>2. /\ \A k \in Intents : k # i => row'[k] = row[k]
      /\ row'[i].status = row[i].status /\ row'[i].owner = r /\ row'[i].mode = row[i].mode
      /\ row'[i].marks = row[i].marks \cup {"claimed"}
  BY DEF Claim, SafetyInv, TypeOK, TypeDatabase
<1>3. /\ \A q \in Runtimes, k \in Intents : k # i => op'[q][k] = op[q][k]
      /\ op'[r][i].at \in {"idle", "verify"}
      /\ \A q \in Runtimes : q # r =>
           op'[q][i] = op[q][i] \/ (op[q][i].at = "discovered" /\ op'[q][i].at = "idle")
  BY DEF Claim, SafetyInv, TypeOK, TypeMemory, At, Idle
<1>4. /\ \A q \in Runtimes, k \in Intents : ~(q = r /\ k = i) =>
           eff'[q][k] = eff[q][k] /\ (<<q, k>> \in recFailed' <=> <<q, k>> \in recFailed)
      /\ \/ op'[r][i].at = "verify" /\ eff'[r][i] = eff[r][i]
         \/ eff'[r][i] = "none" /\ eff[r][i] = "none"
         \/ eff'[r][i] = "failed" /\ eff[r][i] # "none"
  BY DEF Claim, SafetyInv, TypeOK, TypeMemory, At
<1>5. ASSUME NEW k \in Intents, k # i PROVE IntentInv(k)'
  BY <1>1, <1>2, <1>3, <1>4, <1>5, SameKeeps DEF Same, SameMemory, SameWorld, SafetyInv
<1>6. \A q \in Runtimes : ~InEffect(q, i)
  BY <1>1 DEF SafetyInv, IntentInv, Control, Owned, MayClaim, InEffect
<1>7. \A q \in Runtimes : eff[q][i] # "none" =>
        epoch[q] = "fenced" \/ (q = r /\ row[i].mode \in LocalModes)
  BY <1>1 DEF SafetyInv, IntentInv, Control, OneWriter, ClaimedFirst, MayClaim
<1>8. Unborn(i)'
  BY <1>1, <1>2 DEF Unborn
<1>9. Live(i)'
  <2> SUFFICES ASSUME NEW q \in Runtimes, Doing(q, i)'
               PROVE  /\ q \in up /\ eff'[q][i] = "running" /\ op'[q][i].ph \in Phases
                      /\ IsRemote(op'[q][i].ph) => row[i].mode \notin LocalModes
                      /\ op'[q][i].at = "sent" => IsRemote(op'[q][i].ph)
    BY <1>1, <1>2 DEF Live, SameEpochs
  <2>1. q # r /\ op'[q][i] = op[q][i] /\ eff'[q][i] = eff[q][i]
    BY <1>3, <1>4 DEF Doing
  <2> QED
    BY <2>1 DEF Doing, SafetyInv, IntentInv, Control, Live
<1>10. Owned(i)' /\ ClaimedFirst(i)'
  BY <1>2, <1>3, <1>6 DEF Owned, ClaimedFirst, InEffect
<1>11. OneWriter(i)'
  <2> SUFFICES ASSUME NEW q \in Runtimes, eff'[q][i] # "none"
               PROVE  \/ epoch[q] = "fenced"
                      \/ row'[i].owner = q /\ row'[i].mode \in LocalModes
    BY <1>1 DEF OneWriter, SameEpochs
  <2>1. eff[q][i] # "none"
    BY <1>4
  <2> QED
    BY <1>2, <1>7, <2>1
<1>12. Announced(i)' /\ VerdictOf(i)'
  BY <1>1, <1>2 DEF SafetyInv, IntentInv, World, Announced, VerdictOf
<1>13. Remote(i)'
  BY <1>1, <1>2, <1>3 DEF SafetyInv, IntentInv, World, Remote
<1>14. Files(i)'
  <2>1. ASSUME NEW q \in Runtimes, q # r
        PROVE  /\ eff'[q][i] = eff[q][i]
               /\ op'[q][i].at = "finish" => op'[q][i] = op[q][i]
               /\ op'[q][i].at \notin {"verify", "reverify"} => op[q][i].at \notin {"verify", "reverify"}
    BY <1>3, <1>4, <2>1
  <2>2. /\ eff'[r][i] = eff[r][i] \/ eff'[r][i] \in {"none", "failed"}
        /\ op'[r][i].at \in {"verify", "reverify"} \/ eff'[r][i] \in {"none", "failed"}
        /\ op'[r][i].at # "finish"
    BY <1>3, <1>4
  <2> QED
    BY <1>1, <1>2, <2>1, <2>2 DEF SafetyInv, IntentInv, World, Files, SameEpochs
<1>15. Answered(i)'
  <2> SUFFICES ASSUME NEW q \in Runtimes, wire[i] \in {"flying", "landed", "rejected"}
               PROVE  \/ eff'[q][i] \in {"none", "failed_remote"}
                      \/ op'[q][i].at = "sent"
                      \/ epoch[q] = "fenced"
    BY <1>1 DEF Answered, SameEpochs
  <2>1. row[i].mode \notin LocalModes
    BY DEF SafetyInv, IntentInv, World, Announced
  <2>2. CASE q = r
    BY <1>1, <1>4, <1>7, <2>1, <2>2
  <2>3. CASE q # r
    <3>1. eff[q][i] \in {"none", "failed_remote"} \/ op[q][i].at = "sent" \/ epoch[q] = "fenced"
      BY DEF SafetyInv, IntentInv, World, Answered
    <3>2. eff'[q][i] = eff[q][i] /\ (op[q][i].at = "sent" => op'[q][i].at = "sent")
      BY <1>3, <1>4, <2>3
    <3> QED
      BY <3>1, <3>2
  <2> QED
    BY <2>2, <2>3
<1> QED
  BY <1>5, <1>8, <1>9, <1>10, <1>11, <1>12, <1>13, <1>14, <1>15 DEF IntentInv, Control,
     World

-----------------------------------------------------------------------------
(* Steps that change no intent's effects; drains, fences and crashes.        *)

LEMMA PageStepSafe ==
  ASSUME SafetyInv, NEW r \in Runtimes, NEW p \in Pages, PageStep(r, p)
  PROVE  \A k \in Intents : IntentInv(k)'
<1>1. /\ SameEpochs /\ row' = row /\ op' = op /\ eff' = eff /\ recFailed' = recFailed
      /\ wire' = wire /\ upstream' = upstream /\ disk' = disk
  BY DEF PageStep, WritePage, WriteRoom, AdmitRuntime, ReleaseRuntime, Freeze, Unfreeze,
     memory, world, SameEpochs
<1> QED
  BY <1>1, SameKeeps DEF Same, SameMemory, SameWorld, SafetyInv

LEMMA CloseGateSafe ==
  ASSUME SafetyInv, NEW r \in Runtimes, CloseGate(r)
  PROVE  \A k \in Intents : IntentInv(k)'
<1>1. /\ SameEpochs /\ row' = row /\ op' = op /\ eff' = eff /\ recFailed' = recFailed
      /\ wire' = wire /\ upstream' = upstream /\ disk' = disk
  BY DEF CloseGate, database, world, SameEpochs
<1> QED
  BY <1>1, SameKeeps DEF Same, SameMemory, SameWorld, SafetyInv

LEMMA AcknowledgeSafe ==
  ASSUME SafetyInv, NEW r \in Runtimes, Acknowledge(r)
  PROVE  \A k \in Intents : IntentInv(k)'
<1>1. /\ up' = up /\ op' = op /\ eff' = eff /\ recFailed' = recFailed
      /\ wire' = wire /\ upstream' = upstream /\ disk' = disk
  BY DEF Acknowledge, memory, world
<1>2. \A q \in Runtimes : epoch'[q] = IF q = r THEN "quiesced" ELSE epoch[q]
  BY DEF Acknowledge, SafetyInv, TypeOK, TypeDatabase
<1>3. \A k \in Intents :
        \/ row'[k] = row[k]
        \/ /\ row[k].status = "pending" /\ row'[k].status = "cancelled" /\ NoStart(k)
           /\ row'[k].owner = row[k].owner /\ row'[k].mode = row[k].mode /\ row'[k].marks = row[k].marks
  BY DEF Acknowledge, CancelNoStart, Pending
<1>4. epoch[r] # "fenced" /\ \A k \in Intents : eff[r][k] # "running"
  BY DEF Acknowledge, LocalRuntimeDrained
<1> TAKE k \in Intents
<1>5. Unborn(k)'
  BY <1>1, <1>3 DEF SafetyInv, IntentInv, Control, Unborn
<1>6. Live(k)'
  BY <1>1, <1>3 DEF SafetyInv, IntentInv, Control, Live, Doing
<1>7. Owned(k)'
  BY <1>1, <1>2, <1>3, <1>4 DEF SafetyInv, IntentInv, Control, Owned, InEffect, Live,
     Doing, NoStart
<1>8. ClaimedFirst(k)'
  BY <1>1, <1>3 DEF SafetyInv, IntentInv, Control, ClaimedFirst, Doing
<1>9. OneWriter(k)'
  BY <1>1, <1>2, <1>3, <1>4 DEF SafetyInv, IntentInv, Control, OneWriter
<1>10. Announced(k)' /\ VerdictOf(k)'
  BY <1>1, <1>2, <1>3 DEF SafetyInv, IntentInv, World, Announced, VerdictOf, NoStart
<1>11. Remote(k)'
  BY <1>1, <1>3 DEF SafetyInv, IntentInv, World, Remote
<1>12. Files(k)'
  BY <1>1, <1>2, <1>3, <1>4 DEF SafetyInv, IntentInv, World, Files
<1>13. Answered(k)'
  BY <1>1, <1>2, <1>4 DEF SafetyInv, IntentInv, World, Answered
<1> QED
  BY <1>5, <1>6, <1>7, <1>8, <1>9, <1>10, <1>11, <1>12, <1>13 DEF IntentInv, Control, World

LEMMA FenceAcknowledgedSafe ==
  ASSUME SafetyInv, NEW r \in Runtimes, FenceAcknowledged(r)
  PROVE  \A k \in Intents : IntentInv(k)'
<1>1. /\ up' = up /\ op' = op /\ eff' = eff /\ recFailed' = recFailed
      /\ wire' = wire /\ upstream' = upstream /\ disk' = disk
  BY DEF FenceAcknowledged, memory, world
<1>2. \A q \in Runtimes : epoch'[q] = IF q = r THEN "fenced" ELSE epoch[q]
  BY DEF FenceAcknowledged, SafetyInv, TypeOK, TypeDatabase
<1>3. row' = row /\ epoch[r] = "quiesced"
  BY DEF FenceAcknowledged
<1> TAKE k \in Intents
<1>4. Unborn(k)'
  BY <1>1, <1>3 DEF SafetyInv, IntentInv, Control, Unborn
<1>5. Live(k)'
  BY <1>1, <1>3 DEF SafetyInv, IntentInv, Control, Live, Doing
<1>6. Owned(k)'
  BY <1>1, <1>2, <1>3 DEF SafetyInv, IntentInv, Control, Owned, InEffect
<1>7. ClaimedFirst(k)'
  BY <1>1, <1>3 DEF SafetyInv, IntentInv, Control, ClaimedFirst, Doing
<1>8. OneWriter(k)'
  BY <1>1, <1>2, <1>3 DEF SafetyInv, IntentInv, Control, OneWriter
<1>9. Announced(k)' /\ VerdictOf(k)'
  BY <1>1, <1>3 DEF SafetyInv, IntentInv, World, Announced, VerdictOf
<1>10. Remote(k)'
  BY <1>1, <1>3 DEF SafetyInv, IntentInv, World, Remote
<1>11. Files(k)'
  BY <1>1, <1>2, <1>3 DEF SafetyInv, IntentInv, World, Files
<1>12. Answered(k)'
  BY <1>1, <1>2 DEF SafetyInv, IntentInv, World, Answered
<1> QED
  BY <1>4, <1>5, <1>6, <1>7, <1>8, <1>9, <1>10, <1>11, <1>12 DEF IntentInv, Control, World

LEMMA FenceUnacknowledgedSafe ==
  ASSUME SafetyInv, NEW r \in Runtimes, FenceUnacknowledged(r)
  PROVE  \A k \in Intents : IntentInv(k)'
<1>1. /\ up' = up /\ op' = op /\ eff' = eff /\ recFailed' = recFailed
      /\ wire' = wire /\ upstream' = upstream /\ disk' = disk
  BY DEF FenceUnacknowledged, memory, world
<1>2. \A q \in Runtimes : epoch'[q] = IF q = r THEN "fenced" ELSE epoch[q]
  BY DEF FenceUnacknowledged, SafetyInv, TypeOK, TypeDatabase
<1>3. \A k \in Intents :
        \/ row'[k] = row[k]
        \/ /\ row[k].status = "pending" /\ row'[k].status = "cancelled" /\ NoStart(k)
           /\ row'[k].owner = row[k].owner /\ row'[k].mode = row[k].mode /\ row'[k].marks = row[k].marks
  BY DEF FenceUnacknowledged, CancelNoStart, Pending
<1>4. \A k \in Intents : ~InEffect(r, k)
  BY DEF FenceUnacknowledged, FenceEvidence, NoStart, Pending, InEffect, SafetyInv,
     IntentInv, Control, Live, Owned, Doing
<1> TAKE k \in Intents
<1>5. Unborn(k)'
  BY <1>1, <1>3 DEF SafetyInv, IntentInv, Control, Unborn
<1>6. Live(k)'
  BY <1>1, <1>3 DEF SafetyInv, IntentInv, Control, Live, Doing
<1>7. Owned(k)'
  BY <1>1, <1>2, <1>3, <1>4 DEF SafetyInv, IntentInv, Control, Owned, InEffect, NoStart
<1>8. ClaimedFirst(k)'
  BY <1>1, <1>3 DEF SafetyInv, IntentInv, Control, ClaimedFirst, Doing
<1>9. OneWriter(k)'
  BY <1>1, <1>2, <1>3 DEF SafetyInv, IntentInv, Control, OneWriter
<1>10. Announced(k)' /\ VerdictOf(k)'
  BY <1>1, <1>2, <1>3 DEF SafetyInv, IntentInv, World, Announced, VerdictOf, NoStart
<1>11. Remote(k)'
  BY <1>1, <1>3 DEF SafetyInv, IntentInv, World, Remote
<1>12. Files(k)'
  BY <1>1, <1>2, <1>3 DEF SafetyInv, IntentInv, World, Files
<1>13. Answered(k)'
  BY <1>1, <1>2 DEF SafetyInv, IntentInv, World, Answered
<1> QED
  BY <1>5, <1>6, <1>7, <1>8, <1>9, <1>10, <1>11, <1>12, <1>13 DEF IntentInv, Control, World

LEMMA CrashSafe ==
  ASSUME SafetyInv, NEW r \in Runtimes, Crash(r)
  PROVE  \A k \in Intents : IntentInv(k)'
<1>1. /\ up' = up \ {r} /\ epoch' = epoch
      /\ wire' = wire /\ upstream' = upstream /\ disk' = disk
  BY DEF Crash, world
<1>2. \A k \in Intents :
        \/ row'[k] = row[k]
        \/ /\ row[k].status = "inserting" /\ row'[k].status = "aborted"
           /\ row'[k].owner = row[k].owner /\ row'[k].mode = row[k].mode /\ row'[k].marks = row[k].marks
  BY DEF Crash
<1>3. \A q \in Runtimes, k \in Intents :
        /\ eff'[q][k] = IF q = r THEN "none" ELSE eff[q][k]
        /\ op'[q][k] = IF q = r THEN Idle ELSE op[q][k]
        /\ <<q, k>> \in recFailed' <=> q # r /\ <<q, k>> \in recFailed
  BY DEF Crash, SafetyInv, TypeOK, TypeMemory
<1>4. \A k \in Intents : op'[r][k] = Idle /\ eff'[r][k] = "none"
  BY <1>3
<1>5. \A k \in Intents : op'[r][k].at = "idle"
  BY <1>4 DEF Idle, At
<1>6. \A q \in Runtimes, k \in Intents :
        q # r => op'[q][k] = op[q][k] /\ eff'[q][k] = eff[q][k]
  BY <1>3
<1> TAKE k \in Intents
<1>7. Unborn(k)'
  BY <1>1, <1>2, <1>3 DEF SafetyInv, IntentInv, Control, Unborn
<1>8. Live(k)'
  BY <1>1, <1>2, <1>3, <1>4, <1>5, <1>6 DEF SafetyInv, IntentInv, Control, Live, Doing
<1>9. Owned(k)'
  BY <1>1, <1>2, <1>3, <1>4, <1>5, <1>6 DEF SafetyInv, IntentInv, Control, Owned, InEffect
<1>10. ClaimedFirst(k)'
  BY <1>1, <1>2, <1>3, <1>4, <1>5 DEF SafetyInv, IntentInv, Control, ClaimedFirst, Doing
<1>11. OneWriter(k)'
  BY <1>1, <1>2, <1>3, <1>4, <1>6 DEF SafetyInv, IntentInv, Control, OneWriter
<1>12. Announced(k)' /\ VerdictOf(k)'
  BY <1>1, <1>2, <1>3, <1>4 DEF SafetyInv, IntentInv, World, Announced, VerdictOf
<1>13. Remote(k)'
  BY <1>1, <1>2, <1>3, <1>5, <1>6 DEF SafetyInv, IntentInv, World, Remote
<1>14. Files(k)'
  BY <1>1, <1>2, <1>3, <1>4, <1>5, <1>6 DEF SafetyInv, IntentInv, World, Files
<1>15. Answered(k)'
  BY <1>1, <1>2, <1>3, <1>4, <1>6 DEF SafetyInv, IntentInv, World, Answered
<1> QED
  BY <1>7, <1>8, <1>9, <1>10, <1>11, <1>12, <1>13, <1>14, <1>15 DEF IntentInv, Control,
     World

LEMMA MarkStartedSafe ==
  ASSUME SafetyInv, NEW r \in Runtimes, NEW i \in Intents, MarkStarted(r, i)
  PROVE  \A k \in Intents : IntentInv(k)'
  BY MarkStartedAckedSafe, MarkStartedLostSafe DEF MarkStarted

LEMMA MarkFinishedSafe ==
  ASSUME SafetyInv, NEW r \in Runtimes, NEW i \in Intents, MarkFinished(r, i)
  PROVE  \A k \in Intents : IntentInv(k)'
  BY MarkFinishedAckedSafe, MarkFinishedLostSafe DEF MarkFinished

LEMMA SettleRecoveredSafe ==
  ASSUME SafetyInv, NEW r \in Runtimes, NEW i \in Intents, SettleRecovered(r, i)
  PROVE  \A k \in Intents : IntentInv(k)'
  BY SettleRecoveredAckedSafe, SettleRecoveredLostSafe DEF SettleRecovered

-----------------------------------------------------------------------------

LEMMA SafetyInit == Init => SafetyInv
<1> SUFFICES ASSUME Init PROVE SafetyInv
  OBVIOUS
<1>1. TypeOK
  BY IdleType DEF Init, TypeOK, TypeDatabase, TypeMemory, TypeWorld, Rows, Effects
<1>2. ASSUME NEW i \in Intents PROVE Control(i) /\ World(i)
  BY <1>2 DEF Init, Control, Unborn, Live, Owned, ClaimedFirst, OneWriter, Doing,
     InEffect, Idle, At,
     World, Announced, Remote, Files, Answered, VerdictOf
<1> QED
  BY <1>1, <1>2 DEF SafetyInv, IntentInv

LEMMA OwnerSafe ==
  ASSUME SafetyInv, NEW r \in Runtimes, NEW i \in Intents, OwnerStep(r, i)
  PROVE  \A k \in Intents : IntentInv(k)'
<1>1. CASE \E m \in Modes, P \in SUBSET Pages : Reserve(r, i, m, P) \/ ReserveInTransaction(r, i, m, P)
  BY <1>1, ReserveSafe, ReserveInTransactionSafe
<1>2. CASE CancelBeforeEffect(r, i)
  BY <1>2, CancelBeforeEffectSafe
<1>3. CASE \E ph \in Phases : RunEffect(r, i, ph)
  BY <1>3, RunEffectSafe
<1>4. CASE MarkStarted(r, i) \/ Dispatch(r, i) \/ Respond(r, i)
  BY <1>4, MarkStartedSafe, DispatchSafe, RespondSafe
<1>5. CASE WriteFiles(r, i) \/ LocalPhaseReturns(r, i) \/ MarkFinished(r, i)
  BY <1>5, WriteFilesSafe, LocalPhaseReturnsSafe, MarkFinishedSafe
<1>6. CASE EffectFails(r, i)
  BY <1>6, EffectFailsSafe
<1>7. CASE Advance(r, i) \/ Complete(r, i) \/ CompleteRereads(r, i)
  BY <1>7, AdvanceSafe, CompleteSafe, CompleteRereadsSafe
<1> QED
  BY <1>1, <1>2, <1>3, <1>4, <1>5, <1>6, <1>7 DEF OwnerStep

LEMMA SafetyStep == SafetyInv /\ [Next]_vars => SafetyInv'
<1> SUFFICES ASSUME SafetyInv, [Next]_vars PROVE SafetyInv'
  OBVIOUS
<1>1. TypeOK'
  BY NextType DEF SafetyInv
<1>2. ASSUME NEW r \in Runtimes, NEW i \in Intents, OwnerStep(r, i) PROVE \A k \in Intents : IntentInv(k)'
  BY <1>2, OwnerSafe
<1>3. ASSUME NEW r \in Runtimes, NEW i \in Intents, RecoveryStep(r, i) PROVE \A k \in Intents : IntentInv(k)'
  BY <1>3, DiscoverSafe, ClaimSafe, SettleRecoveredSafe, StartRepairSafe,
     RecoveryFailsSafe DEF RecoveryStep
<1>4. ASSUME NEW r \in Runtimes, NEW p \in Pages, PageStep(r, p) PROVE \A k \in Intents : IntentInv(k)'
  BY <1>4, PageStepSafe
<1>5. ASSUME NEW r \in Runtimes, RetireStep(r) PROVE \A k \in Intents : IntentInv(k)'
  BY <1>5, CloseGateSafe, AcknowledgeSafe, FenceAcknowledgedSafe,
     FenceUnacknowledgedSafe, CrashSafe DEF RetireStep
<1>6. ASSUME NEW i \in Intents, WorldStep(i) PROVE \A k \in Intents : IntentInv(k)'
  BY <1>6, EndCallerTransactionSafe, LandSafe, ForeignEditSafe DEF WorldStep
<1>7. CASE UNCHANGED vars
  <2>1. /\ SameEpochs /\ row' = row /\ op' = op /\ eff' = eff /\ recFailed' = recFailed
        /\ wire' = wire /\ upstream' = upstream /\ disk' = disk
    BY <1>7 DEF vars, database, memory, world, SameEpochs
  <2> QED
    BY <2>1, <1>1, SameKeeps DEF Same, SameMemory, SameWorld, SafetyInv
<1> QED
  BY <1>1, <1>2, <1>3, <1>4, <1>5, <1>6, <1>7 DEF Next, SafetyInv

LEMMA SafetyAlways == Spec => []SafetyInv
  BY SafetyInit, SafetyStep, PTL DEF Spec

\* A process whose epoch is quiesced or fenced performs no I/O: the fence of
\* fencePageWriterRuntime and the drain before its acknowledgement keep a
\* recovery from overlapping the original writer.
THEOREM RetiredStaysSilent == Spec => []RetiredIsSilent
<1>1. SafetyInv => RetiredIsSilent
  BY DEF SafetyInv, IntentInv, Control, Live, Owned, RetiredIsSilent, Active, Doing,
     InEffect
<1> QED
  BY <1>1, SafetyAlways, PTL

\* An intent cancelled because "no_io_began" (by its owner, by quiescence or by
\* a fence) left no trace outside the database and leaves none later.
THEOREM CancelledIsClean == Spec => []CancelledHadNoEffect
<1>1. SafetyInv => CancelledHadNoEffect
  BY DEF SafetyInv, IntentInv, Control, Owned, World, Announced, CancelledHadNoEffect
<1> QED
  BY <1>1, SafetyAlways, PTL

\* The verdict of completePageWriteIntent or verifyAndSettle on an effect is
\* true and stays true, whatever request is still on the wire.
THEOREM VerdictsHold == Spec => []VerdictHolds
<1>1. SafetyInv => VerdictHolds
  BY DEF SafetyInv, IntentInv, World, VerdictOf, VerdictHolds
<1> QED
  BY <1>1, SafetyAlways, PTL

\* No remote request is sent while the outcome of an earlier one of the same
\* intent is unknown (localIntentFailedRemotePhases, the durable marks and the
\* claim together).
THEOREM NeverBlindlyReissued == Spec => NoBlindReissue
<1> DEFINE Step == \A i \in Intents : wire'[i] = "flying" /\ wire[i] # "flying" => wire[i] \in {"none", "acked"}
<1>1. ASSUME SafetyInv, Next PROVE Step
  <2>1. ASSUME NEW r \in Runtimes, NEW k \in Intents, Dispatch(r, k) PROVE Step
    <3>1. wire[k] \in {"none", "flying", "acked"}
      BY <2>1, <1>1 DEF Dispatch, SafetyInv, IntentInv, Control, Live, Owned, World,
         Answered, Doing,
         InEffect, TypeOK, TypeWorld
    <3>2. \A i \in Intents : i # k => wire'[i] = wire[i]
      BY <2>1 DEF Dispatch
    <3> QED
      BY <3>1, <3>2
  <2>2. ASSUME NEW i \in Intents, Land(i) PROVE Step
    BY <2>2, <1>1 DEF Land, SafetyInv, TypeOK, TypeWorld
  <2>3. ASSUME NEW r \in Runtimes, NEW i \in Intents, Respond(r, i) PROVE Step
    BY <2>3 DEF Respond
  <2>4. CASE wire' = wire
    BY <2>4
  <2>5. ASSUME NEW r \in Runtimes, NEW i \in Intents, OwnerStep(r, i) PROVE Step
    BY <2>5, <2>1, <2>3, <2>4 DEF OwnerStep, Reserve, ReserveInTransaction,
       CancelBeforeEffect, RunEffect,
       MarkStarted, WriteFiles, LocalPhaseReturns, MarkFinished, EffectFails, Advance, Complete,
       CompleteRereads, world
  <2>6. ASSUME NEW r \in Runtimes, NEW i \in Intents, RecoveryStep(r, i) PROVE Step
    BY <2>6, <2>4 DEF RecoveryStep, Discover, Claim, SettleRecovered, StartRepair,
       RecoveryFails, world
  <2>7. ASSUME NEW r \in Runtimes, NEW p \in Pages, PageStep(r, p) PROVE Step
    BY <2>7 DEF PageStep, WritePage, WriteRoom, AdmitRuntime, ReleaseRuntime, Freeze,
       Unfreeze, world
  <2>8. ASSUME NEW r \in Runtimes, RetireStep(r) PROVE Step
    BY <2>8 DEF RetireStep, CloseGate, Acknowledge, FenceAcknowledged,
       FenceUnacknowledged, Crash, world
  <2>9. ASSUME NEW i \in Intents, WorldStep(i) PROVE Step
    BY <2>9, <2>2 DEF WorldStep, EndCallerTransaction, ForeignEdit, world
  <2> QED
    BY <1>1, <2>5, <2>6, <2>7, <2>8, <2>9 DEF Next
<1>2. SafetyInv /\ [Next]_vars => [Step]_vars
  BY <1>1
<1> QED
  BY <1>2, SafetyAlways, PTL DEF Spec, NoBlindReissue

=============================================================================
