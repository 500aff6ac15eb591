-------------------------- MODULE LiveOrdersProofs --------------------------
(***************************************************************************)
(* Proofs about LiveOrders for every value of its constants.               *)
(***************************************************************************)
EXTENDS LiveOrdersInv, TLAPS

USE ConstantsOK DEF Tasks, Reconcilers

-----------------------------------------------------------------------------
(* Type correctness *)

\* Initially every variable has its type.
LEMMA InitTypeOK == Init => TypeOK
  BY DEF Init, TypeOK, SettingsOK, TasksOK, DurableOK, RecsOK, EnvOK,
         Statuses, BrokerStates, Answers, Kinds, Never

\* What an action leaves alone keeps its type.
LEMMA Frame ==
  /\ SettingsOK /\ UNCHANGED settings => SettingsOK'
  /\ TasksOK /\ UNCHANGED tasks => TasksOK'
  /\ DurableOK /\ UNCHANGED durable => DurableOK'
  /\ RecsOK /\ UNCHANGED recs => RecsOK'
  /\ EnvOK /\ UNCHANGED env => EnvOK'
  BY DEF SettingsOK, TasksOK, DurableOK, RecsOK, EnvOK,
         settings, tasks, durable, recs, env

\* The end of a handler keeps the types of the task variables.
LEMMA FinishOK ==
  ASSUME TasksOK, NEW t \in Tasks, Finish(t)
  PROVE  TasksOK'
  BY DEF TasksOK, Finish

\* AutoTradeActivityService.record keeps the type of the activity.
LEMMA RecordedOK ==
  ASSUME DurableOK, NEW sym, NEW kinds, NEW at \in Int
  PROVE  Recorded(sym, kinds, at) \in [Symbols -> [Kinds -> Int]]
  BY DEF DurableOK, Recorded

\* A journal write keeps the types of the durable state.
LEMMA StatusOK ==
  ASSUME DurableOK, NEW i, NEW s \in Statuses, Write(i, s),
         UNCHANGED <<meta, created, keys>>,
         UNCHANGED hasId \/ hasId' = [hasId EXCEPT ![i] = TRUE],
         activity' \in [Symbols -> [Kinds -> Int]]
  PROVE  DurableOK'
  BY DEF DurableOK, Write

\* So do journal.create and the reservation of the key.
LEMMA CreateOK ==
  ASSUME TypeOK, NEW t \in Tasks, NEW i \in Intents, NEW s \in Statuses,
         req[t] \in Requests, CreateRecord(t, i, s),
         keys' = keys \/ RememberKey(req[t])
  PROVE  DurableOK'
  BY DEF TypeOK, DurableOK, EnvOK, CreateRecord, RememberKey, Write, RequestType

\* A handler that ends with an answer keeps the types.
LEMMA ToldOK ==
  ASSUME told \in [Intents -> Answers], NEW i, NEW a \in Answers,
         told' = [told EXCEPT ![i] = a]
  PROVE  told' \in [Intents -> Answers]
  OBVIOUS

\* Every step of an order task preserves the types.
LEMMA TypeTask ==
  ASSUME TypeOK, NEW t \in Tasks, TaskStep(t)
  PROVE  TypeOK'
<1> USE Frame, FinishOK, StatusOK, ToldOK DEF TypeOK, FinishWith, Statuses, Answers
<1> DurableOK => activity \in [Symbols -> [Kinds -> Int]]
  BY DEF DurableOK
<1> EnvOK => now \in Int
  BY DEF EnvOK
<1>1. CASE Enter(t)
  BY <1>1 DEF Enter, TasksOK, Goto, LockedPcs
<1>2. CASE RefuseDuplicate(t)
  BY <1>2 DEF RefuseDuplicate
<1>3. CASE SnapshotFails(t)
  BY <1>3 DEF SnapshotFails
<1>4. CASE SymbolBlocked(t)
  BY <1>4 DEF SymbolBlocked
<1>5. CASE PreflightRefused(t)
  BY <1>5 DEF PreflightRefused
<1>6. CASE PreflightRaises(t)
  BY <1>6 DEF PreflightRaises
<1>7. CASE GatesClosed(t)
  BY <1>7 DEF GatesClosed
<1>8. CASE BeginSubmit(t)
  BY <1>8 DEF BeginSubmit, TasksOK, Goto, LockedPcs, durable
<1>9. CASE Send(t)
  BY <1>9 DEF Send, TasksOK, Goto, BrokerStates, LockedPcs
<1>10. CASE NotSent(t)
  BY <1>10 DEF NotSent
<1>11. CASE Accepted(t)
  BY <1>11, RecordedOK DEF Accepted
<1>12. CASE AcceptedWithoutId(t)
  BY <1>12 DEF AcceptedWithoutId
<1>13. CASE Refused(t)
  BY <1>13 DEF Refused
<1>14. CASE AmbiguousToss(t)
  BY <1>14 DEF AmbiguousToss
<1>15. CASE AmbiguousUpbit(t)
  BY <1>15 DEF AmbiguousUpbit, TasksOK, Goto, LockedPcs, durable
<1>16. CASE SubmitRaises(t)
  BY <1>16 DEF SubmitRaises
<1>17. CASE RecoverMisses(t)
  BY <1>17 DEF RecoverMisses, TasksOK
<1>18. CASE RecoverLooksUp(t)
  BY <1>18 DEF RecoverLooksUp, TasksOK, Goto, LockedPcs
<1>19. CASE RecoverGivesUp(t)
  BY <1>19 DEF RecoverGivesUp
<1>20. CASE RecoverSubmitted(t)
  BY <1>20, RecordedOK DEF RecoverSubmitted
<1>21. CASE RecoverConfirmed(t)
  BY <1>21 DEF RecoverConfirmed
<1>22. ASSUME NEW i \in Intents, RiskBlocks(t, i)
      PROVE  TypeOK'
  BY <1>22, CreateOK DEF RiskBlocks, TasksOK
<1>23. ASSUME NEW i \in Intents, RiskAllows(t, i)
      PROVE  TypeOK'
  BY <1>23, CreateOK DEF RiskAllows, TasksOK, Goto, LockedPcs
<1> QED
  BY <1>1, <1>2, <1>3, <1>4, <1>5, <1>6, <1>7, <1>8, <1>9, <1>10, <1>11, <1>12, <1>13, <1>14, <1>15, <1>16, <1>17, <1>18, <1>19, <1>20, <1>21, <1>22, <1>23 DEF TaskStep

\* Starting a batch keeps the types of the reconcilers.
LEMMA BatchOK ==
  ASSUME RecsOK, NEW r \in Reconcilers, NEW batch \in SUBSET Intents,
         StartBatch(r, batch)
  PROVE  RecsOK'
  BY DEF RecsOK, StartBatch

\* Moving to the next record does.
LEMMA DoneOK ==
  ASSUME RecsOK, NEW r \in Reconcilers, NEW i \in Intents, DoneWith(r, i)
  PROVE  RecsOK'
  BY DEF RecsOK, DoneWith

\* A broker answer in a reconciler's hands belongs to a record.
LEMMA AnswerOK ==
  ASSUME NEW r \in Reconcilers, ReconcilerInv(r), rpc[r] \in {"asked", "searched"}
  PROVE  rcur[r] \in Intents
  BY DEF ReconcilerInv

\* What _save writes is a journal status.
LEMMA SavedStatus ==
  ASSUME NEW i, NEW s
  PROVE  JournalStatus(i, s) \in {"CONFIRMED", "REJECTED", "UNKNOWN", "SUBMITTED"}
  BY DEF JournalStatus

\* Every step of a reconciler preserves the types.
LEMMA TypeReconciler ==
  ASSUME TypeOK, NEW r \in Reconcilers, ReconcilerInv(r), ReconcilerStep(r)
  PROVE  TypeOK'
<1> USE Frame, StatusOK, RecordedOK, BatchOK, DoneOK, SavedStatus DEF TypeOK, Statuses
<1> DurableOK => activity \in [Symbols -> [Kinds -> Int]]
  BY DEF DurableOK
<1> DurableOK => \A i \in Intents : created[i] \in Int
  BY DEF DurableOK
<1>1. CASE ReconcileAll(r)
  BY <1>1 DEF ReconcileAll, Unresolved
<1>2. ASSUME NEW i \in Intents, ReconcileOne(r, i)
      PROVE  TypeOK'
  BY <1>2 DEF ReconcileOne
<1>3. ASSUME NEW i \in Intents, AskBroker(r, i)
      PROVE  TypeOK'
  BY <1>3 DEF AskBroker, RecsOK
<1>4. ASSUME NEW i \in Intents, LookupFails(r, i)
      PROVE  TypeOK'
  BY <1>4 DEF LookupFails
<1>5. CASE BatchRaises(r)
  BY <1>5 DEF BatchRaises, RecsOK
<1>6. CASE SearchFound(r)
  BY <1>6, AnswerOK DEF SearchFound, RecsOK
<1>7. CASE Save(r)
  BY <1>7, AnswerOK DEF Save
<1> QED
  BY <1>1, <1>2, <1>3, <1>4, <1>5, <1>6, <1>7 DEF ReconcilerStep

\* A dead process keeps the types of what it leaves behind.
LEMMA DieOK ==
  ASSUME TypeOK, Die
  PROVE  /\ SettingsOK' /\ TasksOK' /\ RecsOK' /\ EnvOK'
         /\ broker' = broker /\ told' = told
  BY Frame DEF Die, TypeOK, TasksOK, RecsOK, EnvOK

\* Settings, startup, crashes, brokers and the clock preserve the types.
LEMMA TypeRest ==
  ASSUME TypeOK,
         \/ SettingsStep
         \/ \E i \in Intents : BrokerActs(i)
         \/ ProcessStep
         \/ Tick
         \/ UNCHANGED vars
  PROVE  TypeOK'
<1> USE Frame, StatusOK, BatchOK, DieOK, SavedStatus DEF TypeOK, Statuses
<1> DurableOK => activity \in [Symbols -> [Kinds -> Int]]
  BY DEF DurableOK
<1>1. CASE SettingsStep
  BY <1>1 DEF SettingsStep, SetMode, SetKill, SettingsUnreadable, SettingsOK
<1>2. CASE \E i \in Intents : BrokerActs(i)
  BY <1>2 DEF BrokerActs, BrokerAccepts, BrokerRefuses, BrokerCloses,
              BrokerRejects, BrokerAmends, BrokerStep, BrokerStates
<1>3. CASE BootClean \/ BootRecovers \/ BootDone
  BY <1>3 DEF BootClean, BootRecovers, BootDone, EnvOK, Unresolved
<1>4. CASE Crash
  BY <1>4 DEF Crash
<1>5. ASSUME NEW t \in Tasks, NEW i \in Intents, CrashBetweenWrites(t, i)
      PROVE  TypeOK'
  BY <1>5, CreateOK DEF CrashBetweenWrites, TasksOK
<1>6. ASSUME NEW r \in Reconcilers, CrashInSave(r)
      PROVE  TypeOK'
  BY <1>6 DEF CrashInSave
<1>7. CASE Tick
  BY <1>7 DEF Tick, EnvOK
<1>8. CASE UNCHANGED vars
  BY <1>8 DEF vars
<1> QED
  BY <1>1, <1>2, <1>3, <1>4, <1>5, <1>6, <1>7, <1>8 DEF ProcessStep

\* So does the arrival of a request.
LEMMA TypeArrive ==
  ASSUME TypeOK, NEW t \in Tasks, NEW q \in Requests, Arrive(t, q)
  PROVE  TypeOK'
  BY Frame DEF TypeOK, Arrive, TasksOK, Goto, LockedPcs

-----------------------------------------------------------------------------
(* The inductive invariant *)

\* The invariant holds initially.
LEMMA InitIInv == Init => IInv
  BY InitTypeOK DEF Init, IInv, PhaseInv, TaskInv, RecordInv, PairInv,
     ReconcilerInv, Live, Idle, LockedPcs, OwnPcs

\* What the invariant says of a live order: it is unresolved in the journal.
LEMMA LiveIsUnresolved ==
  ASSUME IInv, NEW i \in Intents, Live(i)
  PROVE  i \in Unresolved
  BY DEF IInv, RecordInv, TypeOK, DurableOK, Statuses, Live, Idle, Over, Gone,
         Unresolved, UnresolvedStatuses

\* Only one task is inside.
LEMMA Alone ==
  ASSUME IInv, NEW t \in Tasks, NEW u \in Tasks, u # t,
         pc[t] \in LockedPcs \/ lock = Nobody
  PROVE  pc[u] \notin LockedPcs
  BY DEF IInv, TaskInv

\* When it leaves, no task is.
LEMMA Leaving ==
  ASSUME IInv, NEW t \in Tasks, Finish(t),
         pc[t] \in LockedPcs \/ lock = Nobody
  PROVE  \A u \in Tasks : TaskInv(u)'
<1>1. ASSUME NEW u \in Tasks
      PROVE  (pc[u] \notin LockedPcs)'
  BY <1>1, Alone DEF Finish, IInv, TypeOK, TasksOK, LockedPcs
<1>2. ASSUME NEW u \in Tasks
      PROVE  TaskInv(u)'
  BY <1>1, <1>2 DEF TaskInv, LockedPcs, OwnPcs
<1> QED
  BY <1>2

\* A request that arrives waits for the lock and disturbs nothing.
LEMMA ArrivePreserves ==
  ASSUME IInv, NEW t \in Tasks, NEW q \in Requests, Arrive(t, q)
  PROVE  IInv'
<1> USE DEF Arrive, Goto, settings, durable, recs, env
<1>1. TypeOK'
  BY TypeArrive DEF IInv
<1>2. PhaseInv'
  BY DEF IInv, PhaseInv, TypeOK, TasksOK
<1>3. ASSUME NEW u \in Tasks
      PROVE  TaskInv(u)'
  BY <1>3 DEF IInv, TaskInv, TypeOK, TasksOK, LockedPcs, OwnPcs, DuplicateKey,
     NoRival, Live, Idle, Over
<1>4. \A i \in Intents : RecordInv(i)'
  BY DEF IInv, RecordInv, Idle
<1>5. \A i, j \in Intents : PairInv(i, j)'
  BY DEF IInv, PairInv, Live, Idle, Over
<1>6. \A r \in Reconcilers : ReconcilerInv(r)'
  BY DEF IInv, ReconcilerInv
<1> QED
  BY <1>1, <1>2, <1>3, <1>4, <1>5, <1>6 DEF IInv

\* A handler ends without writing a record.
LEMMA Quits ==
  ASSUME IInv, TypeOK', NEW t \in Tasks, Finish(t),
         pc[t] \in LockedPcs \/ lock = Nobody,
         UNCHANGED <<settings, durable, broker, recs, env>>,
         \/ UNCHANGED told
         \/ /\ pc[t] \in OwnPcs
            /\ \E a \in {"unknown", "error"} : told' = [told EXCEPT ![cur[t]] = a]
  PROVE  IInv'
<1> USE DEF settings, durable, recs, env
<1>1. PhaseInv'
  BY DEF IInv, PhaseInv, Finish, TypeOK, TasksOK
<1>2. \A u \in Tasks : TaskInv(u)'
  BY Leaving
<1>3. \A i \in Intents : RecordInv(i)'
  BY DEF IInv, TaskInv, RecordInv, Idle, TypeOK
<1>4. \A i, j \in Intents : PairInv(i, j)'
  BY DEF IInv, PairInv, Live, Idle, Over
<1>5. \A r \in Reconcilers : ReconcilerInv(r)'
  BY DEF IInv, ReconcilerInv
<1> QED
  BY <1>1, <1>2, <1>3, <1>4, <1>5 DEF IInv

\* A handler ends, writes `s` on its record and answers `a`.
LEMMA Settles ==
  ASSUME IInv, TypeOK', NEW t \in Tasks, pc[t] \in OwnPcs,
         NEW s \in {"REJECTED", "SUBMITTED", "UNKNOWN", "CONFIRMED"},
         NEW a \in {"refused", "submitted", "recovered", "unknown"},
         FinishWith(t, a), Write(cur[t], s),
         UNCHANGED <<settings, meta, keys, created, broker, recs, env>>,
         IF s = "REJECTED" THEN broker[cur[t]] \in {"none", "refused"}
                           ELSE broker[cur[t]] # "none",
         s = "CONFIRMED" => broker[cur[t]] = "closed",
         a = "refused" => s = "REJECTED",
         a \in {"submitted", "recovered"} => broker[cur[t]] \in Found
  PROVE  IInv'
<1> DEFINE i == cur[t]
<1> USE DEF settings, recs, env
<1>0. /\ i \in Intents /\ meta[i] = req[t] /\ status[i] # "none"
      /\ req[t].source = "manual" => req[t].key \in keys
  BY DEF IInv, TaskInv
<1>1. PhaseInv'
  BY DEF IInv, PhaseInv, FinishWith, Finish, TypeOK, TasksOK
<1>2. \A u \in Tasks : TaskInv(u)'
  BY Leaving DEF FinishWith, OwnPcs, LockedPcs
<1>3. \A j \in Intents : RecordInv(j)'
  BY <1>0 DEF IInv, RecordInv, Idle, TypeOK, DurableOK, Write, FinishWith, Found
<1>4. ASSUME NEW j \in Intents
      PROVE  /\ Live(j)' => Live(j)
             /\ ~Idle(j)' => ~Idle(j) \/ j = i
  <2>1. CASE j = i
    BY <2>1, <1>0 DEF IInv, RecordInv, TypeOK, DurableOK, Live, Idle, Over, Gone, Write
  <2>2. CASE j # i
    BY <2>2, <1>0 DEF IInv, TypeOK, DurableOK, Live, Idle, Over, Gone, Write
  <2> QED
    BY <2>1, <2>2
<1>5. ASSUME NEW j \in Intents, ~Idle(j), j # i
      PROVE  ~SameManualKey(meta[j], meta[i])
  <2>1. CASE pc[t] = "preflight"
    BY <2>1, <1>0, <1>5 DEF IInv, TaskInv, NoRival
  <2>2. CASE pc[t] # "preflight"
    <3>1. ~Idle(i)
      BY <2>2, <1>0 DEF IInv, TaskInv, RecordInv, OwnPcs, Idle, Found
    <3> QED
      BY <3>1, <1>0, <1>5 DEF IInv, PairInv
  <2> QED
    BY <2>1, <2>2
<1>6. \A j, k \in Intents : PairInv(j, k)'
  <2> SUFFICES ASSUME NEW j \in Intents, NEW k \in Intents, j # k
               PROVE  /\ Live(j)' /\ Live(k)' => meta[j].symbol # meta[k].symbol
                      /\ ~Idle(j)' /\ ~Idle(k)' => ~SameManualKey(meta[j], meta[k])
    BY DEF PairInv, SameManualKey
  <2>1. PairInv(j, k)
    BY DEF IInv
  <2>2. Live(j)' /\ Live(k)' => meta[j].symbol # meta[k].symbol
    BY <2>1, <1>4 DEF PairInv
  <2>3. ~Idle(j)' /\ ~Idle(k)' => ~SameManualKey(meta[j], meta[k])
    BY <2>1, <1>4, <1>5 DEF PairInv, SameManualKey
  <2> QED
    BY <2>2, <2>3
<1>7. \A r \in Reconcilers : ReconcilerInv(r)'
  BY DEF IInv, ReconcilerInv
<1> QED
  BY <1>1, <1>2, <1>3, <1>6, <1>7 DEF IInv

\* A handler goes on and no record changes, in a way that matters here.
LEMMA GoesOn ==
  ASSUME IInv, TypeOK', NEW t \in Tasks, pc[t] # "idle",
         \A u \in Tasks \ {t} : pc'[u] = pc[u],
         pc[t] \in LockedPcs \/ lock = Nobody, lock' \in {lock, t},
         UNCHANGED <<settings, status, meta, keys, created, broker, recs, env, told>>,
         req' = req, TaskInv(t)'
  PROVE  IInv'
<1> USE DEF recs, env
<1>1. PhaseInv'
  BY DEF IInv, PhaseInv
<1>2. ASSUME NEW u \in Tasks
      PROVE  TaskInv(u)'
  <2>1. CASE u = t
    BY <2>1
  <2>2. CASE u # t
    BY <2>2, Alone DEF TaskInv, LockedPcs, OwnPcs
  <2> QED
    BY <2>1, <2>2
<1>3. \A i \in Intents : RecordInv(i)'
  BY DEF IInv, RecordInv, Idle
<1>4. \A i, j \in Intents : PairInv(i, j)'
  BY DEF IInv, PairInv, Live, Idle, Over
<1>5. \A r \in Reconcilers : ReconcilerInv(r)'
  BY DEF IInv, ReconcilerInv
<1> QED
  BY <1>1, <1>2, <1>3, <1>4, <1>5 DEF IInv

\* The task that takes the lock is the only one inside, and its key is unspent.
LEMMA EnterPreserves ==
  ASSUME IInv, TypeOK', NEW t \in Tasks, Enter(t)
  PROVE  IInv'
<1> USE DEF Enter, Goto, durable, recs, env
<1>1. TaskInv(t)'
  BY DEF IInv, TypeOK, TasksOK, TaskInv, LockedPcs, OwnPcs, DuplicateKey
<1>2. \A u \in Tasks \ {t} : pc'[u] = pc[u]
  BY DEF IInv, TypeOK, TasksOK
<1> QED
  BY <1>1, <1>2, GoesOn

\* What a lookup of _try_reconcile_upbit has seen stays true of the order.
LEMMA RecoverPreserves ==
  ASSUME IInv, TypeOK', NEW t \in Tasks, RecoverMisses(t) \/ RecoverLooksUp(t)
  PROVE  IInv'
<1> USE DEF RecoverMisses, RecoverLooksUp, Goto, durable, recs, env
<1>1. TaskInv(t)'
  BY DEF IInv, TypeOK, TasksOK, TaskInv, LockedPcs, OwnPcs
<1>2. \A u \in Tasks \ {t} : pc'[u] = pc[u]
  BY DEF IInv, TypeOK, TasksOK
<1> QED
  BY <1>1, <1>2, GoesOn DEF LockedPcs

\* A new record: CREATED when Risk Guard allows the order ...
LEMMA RiskAllowsPreserves ==
  ASSUME IInv, TypeOK', NEW t \in Tasks, NEW i \in Intents, RiskAllows(t, i)
  PROVE  IInv'
<1> USE DEF RiskAllows, CreateRecord, Write, Goto, RememberKey, recs, env
<1> DEFINE q == req[t]
<1>0. /\ q \in Requests /\ ~DuplicateKey(q) /\ pc[t] \in LockedPcs
      /\ status[i] = "none" /\ meta'[i] = q
  BY DEF IInv, TypeOK, TasksOK, DurableOK, TaskInv, LockedPcs
<1>1. PhaseInv'
  BY DEF IInv, PhaseInv, TypeOK, TasksOK
<1>2. \A j \in Intents : /\ Idle(j)' <=> Idle(j)
                         /\ Live(j)' <=> Live(j)
                         /\ ~Idle(j) => j # i /\ meta'[j] = meta[j]
  BY DEF IInv, TypeOK, DurableOK, Live, Idle, Over
<1>3. NoRival(q)'
  <2> SUFFICES ASSUME NEW j \in Intents
               PROVE  /\ Live(j) => meta[j].symbol # q.symbol
                      /\ ~Idle(j) => ~SameManualKey(meta[j], q)
    BY <1>2 DEF NoRival, SameManualKey, Live
  <2>1. Live(j) => meta[j].symbol # q.symbol
    BY LiveIsUnresolved DEF HasUnresolved
  <2>2. ~Idle(j) => ~SameManualKey(meta[j], q)
    BY <1>0 DEF IInv, RecordInv, SameManualKey, DuplicateKey
  <2> QED
    BY <2>1, <2>2
<1>4. TaskInv(t)'
  BY <1>0, <1>3 DEF IInv, RecordInv, TypeOK, TasksOK, DurableOK, TaskInv,
     LockedPcs, OwnPcs
<1>5. ASSUME NEW u \in Tasks, u # t
      PROVE  TaskInv(u)'
  BY <1>5, <1>0, Alone DEF IInv, TypeOK, TasksOK, TaskInv, LockedPcs, OwnPcs
<1>6. \A j \in Intents : RecordInv(j)'
  BY <1>0 DEF IInv, RecordInv, Idle, TypeOK, DurableOK
<1>7. \A j, k \in Intents : PairInv(j, k)'
  BY <1>2 DEF IInv, PairInv, Live, SameManualKey
<1>8. \A r \in Reconcilers : ReconcilerInv(r)'
  BY DEF IInv, ReconcilerInv
<1> QED
  BY <1>1, <1>4, <1>5, <1>6, <1>7, <1>8 DEF IInv

\* ... or REJECTED at once.
LEMMA RiskBlocksPreserves ==
  ASSUME IInv, TypeOK', NEW t \in Tasks, NEW i \in Intents, RiskBlocks(t, i)
  PROVE  IInv'
<1> USE DEF RiskBlocks, CreateRecord, Write, RememberKey, recs, env
<1> DEFINE q == req[t]
<1>0. /\ q \in Requests /\ ~DuplicateKey(q) /\ pc[t] \in LockedPcs
      /\ status[i] = "none" /\ meta'[i] = q /\ broker[i] = "none"
  BY DEF IInv, TypeOK, TasksOK, DurableOK, TaskInv, LockedPcs, RecordInv, Idle
<1>1. PhaseInv'
  BY DEF IInv, PhaseInv, TypeOK, TasksOK, Finish
<1>2. \A j \in Intents : /\ j # i => (Idle(j)' <=> Idle(j)) /\ meta'[j] = meta[j]
                         /\ Live(j)' => Live(j)
                         /\ ~Live(i)'
  BY <1>0 DEF IInv, TypeOK, DurableOK, Live, Idle, Over
<1>3. \A j \in Intents : ~Idle(j) => ~SameManualKey(meta[j], q)
  BY <1>0 DEF IInv, RecordInv, SameManualKey, DuplicateKey
<1>4. \A u \in Tasks : TaskInv(u)'
  BY <1>0, Leaving
<1>6. \A j \in Intents : RecordInv(j)'
  BY <1>0 DEF IInv, RecordInv, Idle, TypeOK, DurableOK
<1>7. ASSUME NEW j \in Intents, NEW k \in Intents
      PROVE  PairInv(j, k)'
  BY <1>0, <1>2, <1>3 DEF IInv, PairInv, SameManualKey
<1>8. \A r \in Reconcilers : ReconcilerInv(r)'
  BY DEF IInv, ReconcilerInv
<1> QED
  BY <1>1, <1>4, <1>6, <1>7, <1>8 DEF IInv

\* The step that commits an order: its rivals are known to be absent.
LEMMA BeginSubmitPreserves ==
  ASSUME IInv, TypeOK', NEW t \in Tasks, BeginSubmit(t)
  PROVE  IInv'
<1> DEFINE i == cur[t]
<1> USE DEF BeginSubmit, Write, Goto, recs, env
<1>0. /\ i \in Intents /\ meta[i] = req[t] /\ pc[t] \in LockedPcs
      /\ status[i] = "CREATED" /\ Idle(i) /\ broker[i] = "none"
      /\ told[i] = "pending" /\ NoRival(req[t])
      /\ req[t].source = "manual" => req[t].key \in keys
  BY DEF IInv, TaskInv, RecordInv, LockedPcs, OwnPcs, Idle
<1>1. PhaseInv'
  BY DEF IInv, PhaseInv, TypeOK, TasksOK
<1>2. \A j \in Intents : j # i => (Idle(j)' <=> Idle(j)) /\ (Live(j)' <=> Live(j))
  BY DEF IInv, TypeOK, DurableOK, Live, Idle, Over
<1>3. TaskInv(t)'
  BY <1>0 DEF IInv, TypeOK, TasksOK, DurableOK, TaskInv, LockedPcs, OwnPcs
<1>4. ASSUME NEW u \in Tasks, u # t
      PROVE  TaskInv(u)'
  BY <1>4, <1>0, Alone DEF IInv, TypeOK, TasksOK, TaskInv, LockedPcs, OwnPcs
<1>5. \A j \in Intents : RecordInv(j)'
  BY <1>0 DEF IInv, RecordInv, Idle, TypeOK, DurableOK
<1>6. ASSUME NEW j \in Intents, NEW k \in Intents
      PROVE  PairInv(j, k)'
  BY <1>0, <1>2 DEF IInv, PairInv, SameManualKey, NoRival
<1>7. \A r \in Reconcilers : ReconcilerInv(r)'
  BY DEF IInv, ReconcilerInv
<1> QED
  BY <1>1, <1>3, <1>4, <1>5, <1>6, <1>7 DEF IInv

\* The POST makes the order of a committed record exist, and no other.
LEMMA SendPreserves ==
  ASSUME IInv, TypeOK', NEW t \in Tasks, Send(t)
  PROVE  IInv'
<1> DEFINE i == cur[t]
<1> USE DEF Send, Goto, durable, recs, env
<1>0. /\ i \in Intents /\ meta[i] = req[t] /\ pc[t] \in LockedPcs
      /\ status[i] = "SUBMITTING" /\ broker[i] = "none" /\ told[i] = "pending"
  BY DEF IInv, TaskInv, LockedPcs, OwnPcs
<1>1. PhaseInv'
  BY DEF IInv, PhaseInv, TypeOK, TasksOK
<1>2. \A j \in Intents : (Idle(j)' <=> Idle(j)) /\ (Live(j)' <=> Live(j))
  BY <1>0 DEF IInv, TypeOK, Live, Idle, Over, Gone
<1>3. TaskInv(t)'
  BY <1>0 DEF IInv, TypeOK, TasksOK, TaskInv, LockedPcs, OwnPcs
<1>4. ASSUME NEW u \in Tasks, u # t
      PROVE  TaskInv(u)'
  BY <1>4, <1>0, Alone DEF IInv, TypeOK, TasksOK, TaskInv, LockedPcs, OwnPcs
<1>5. \A j \in Intents : RecordInv(j)'
  BY <1>0 DEF IInv, RecordInv, Idle, TypeOK
<1>6. \A j, k \in Intents : PairInv(j, k)'
  BY <1>2 DEF IInv, PairInv, SameManualKey
<1>7. \A r \in Reconcilers : ReconcilerInv(r)'
  BY <1>0 DEF IInv, ReconcilerInv, TypeOK, RecsOK, Found
<1> QED
  BY <1>1, <1>3, <1>4, <1>5, <1>6, <1>7 DEF IInv

\* A record whose order the broker may have is rewritten: whatever status is
\* written, it stays committed, and as live as the broker says.
LEMMA Rewrite ==
  ASSUME IInv, TypeOK', NEW i \in Intents, broker[i] # "none",
         NEW s \in UnresolvedStatuses \cup Terminal, Write(i, s),
         UNCHANGED <<meta, keys, broker>>
  PROVE  \A j \in Intents : (Idle(j)' <=> Idle(j)) /\ (Live(j)' <=> Live(j))
BY DEF IInv, RecordInv, TypeOK, DurableOK, Live, Idle, Over, Write,
   UnresolvedStatuses, Terminal

\* UNKNOWN keeps the record committed and unresolved.
LEMMA AmbiguousPreserves ==
  ASSUME IInv, TypeOK', NEW t \in Tasks, AmbiguousUpbit(t)
  PROVE  IInv'
<1> DEFINE i == cur[t]
<1> USE DEF AmbiguousUpbit, Write, Goto, recs, env
<1>0. /\ i \in Intents /\ meta[i] = req[t] /\ pc[t] \in LockedPcs
      /\ status[i] # "none" /\ broker[i] # "none" /\ told[i] = "pending"
      /\ ~Idle(i)
  BY DEF IInv, TaskInv, RecordInv, LockedPcs, OwnPcs
<1>1. PhaseInv'
  BY DEF IInv, PhaseInv, TypeOK, TasksOK
<1>2. \A j \in Intents : (Idle(j)' <=> Idle(j)) /\ (Live(j)' <=> Live(j))
  BY <1>0, Rewrite DEF UnresolvedStatuses
<1>3. TaskInv(t)'
  BY <1>0 DEF IInv, TypeOK, TasksOK, DurableOK, TaskInv, LockedPcs, OwnPcs
<1>4. ASSUME NEW u \in Tasks, u # t
      PROVE  TaskInv(u)'
  BY <1>4, <1>0, Alone DEF IInv, TypeOK, TasksOK, TaskInv, LockedPcs, OwnPcs
<1>5. \A j \in Intents : RecordInv(j)'
  BY <1>0 DEF IInv, RecordInv, Idle, TypeOK, DurableOK
<1>6. \A j, k \in Intents : PairInv(j, k)'
  BY <1>2 DEF IInv, PairInv, SameManualKey
<1>7. \A r \in Reconcilers : ReconcilerInv(r)'
  BY DEF IInv, ReconcilerInv
<1> QED
  BY <1>1, <1>3, <1>4, <1>5, <1>6, <1>7 DEF IInv

\* Every step of an order task preserves the invariant.
LEMMA TaskPreserves ==
  ASSUME IInv, NEW t \in Tasks, TaskStep(t)
  PROVE  IInv'
<1>0. TypeOK' /\ TypeOK
  BY TypeTask DEF IInv
<1>1. CASE RefuseDuplicate(t) \/ SnapshotFails(t) \/ SymbolBlocked(t)
  BY <1>0, <1>1, Quits DEF RefuseDuplicate, SnapshotFails, SymbolBlocked, LockedPcs
<1>2. CASE PreflightRaises(t) \/ RecoverGivesUp(t) \/ SubmitRaises(t)
  BY <1>0, <1>2, Quits DEF PreflightRaises, RecoverGivesUp, SubmitRaises,
     LockedPcs, OwnPcs, FinishWith
<1>3. CASE PreflightRefused(t) \/ GatesClosed(t) \/ NotSent(t)
  <2>1. broker[cur[t]] = "none"
    BY <1>3 DEF PreflightRefused, GatesClosed, NotSent, IInv, TaskInv, RecordInv,
       OwnPcs, Idle
  <2> QED
    BY <1>0, <1>3, <2>1, Settles DEF PreflightRefused, GatesClosed, NotSent, OwnPcs
<1>4. CASE Accepted(t)
  BY <1>0, <1>4, Settles DEF Accepted, OwnPcs, Found
<1>5. CASE AcceptedWithoutId(t)
  BY <1>0, <1>5, Settles DEF AcceptedWithoutId, OwnPcs, Found
<1>6. CASE Refused(t)
  BY <1>0, <1>6, Settles DEF Refused, OwnPcs
<1>7. CASE AmbiguousToss(t)
  <2>1. broker[cur[t]] # "none"
    BY <1>7 DEF AmbiguousToss, IInv, TaskInv
  <2> QED
    BY <1>0, <1>7, <2>1, Settles DEF AmbiguousToss, OwnPcs
<1>8. CASE RecoverSubmitted(t)
  <2>1. broker[cur[t]] \in Found
    BY <1>8 DEF RecoverSubmitted, IInv, TaskInv
  <2> QED
    BY <1>0, <1>8, <2>1, Settles DEF RecoverSubmitted, OwnPcs, Found
<1>9. CASE RecoverConfirmed(t)
  <2>1. broker[cur[t]] = "closed"
    BY <1>9 DEF RecoverConfirmed, IInv, TaskInv
  <2> QED
    BY <1>0, <1>9, <2>1, Settles DEF RecoverConfirmed, OwnPcs
<1> QED
  BY <1>0, <1>1, <1>2, <1>3, <1>4, <1>5, <1>6, <1>7, <1>8, <1>9, EnterPreserves,
     RecoverPreserves, RiskAllowsPreserves, RiskBlocksPreserves,
     BeginSubmitPreserves, SendPreserves, AmbiguousPreserves DEF TaskStep

\* The reconcilers touch only records whose order the broker has.
LEMMA Untouched ==
  ASSUME IInv, TypeOK', UNCHANGED <<settings, tasks, status, meta, keys, created,
                                    broker, env, told>>,
         \A r \in Reconcilers : ReconcilerInv(r)'
  PROVE  IInv'
<1> USE DEF tasks, env
<1>1. PhaseInv'
  BY DEF IInv, PhaseInv
<1>2. \A t \in Tasks : TaskInv(t)'
  BY DEF IInv, TaskInv, DuplicateKey, NoRival, Live, Idle, Over, SameManualKey
<1>3. \A i \in Intents : RecordInv(i)'
  BY DEF IInv, RecordInv, Idle
<1>4. \A i, j \in Intents : PairInv(i, j)'
  BY DEF IInv, PairInv, Live, Idle, Over, SameManualKey
<1> QED
  BY <1>1, <1>2, <1>3, <1>4 DEF IInv

\* A blind update of record i by a reconciler.
LEMMA BlindUpdate ==
  ASSUME IInv, TypeOK', NEW i \in Intents, broker[i] \in Found,
         NEW s \in UnresolvedStatuses \cup Terminal, Write(i, s),
         s = "CONFIRMED" => broker[i] = "closed",
         s = "REJECTED" => broker[i] = "rejected",
         UNCHANGED <<settings, tasks, meta, keys, created, broker, env, told>>,
         \A r \in Reconcilers : ReconcilerInv(r)'
  PROVE  IInv'
<1> USE DEF tasks, env
<1>1. PhaseInv'
  BY DEF IInv, PhaseInv
<1>2. \A j \in Intents : (Idle(j)' <=> Idle(j)) /\ (Live(j)' <=> Live(j))
  BY Rewrite DEF Found
<1>3. ASSUME NEW t \in Tasks
      PROVE  TaskInv(t)'
  <2>1. ~Idle(i) /\ broker[i] # "none"
    BY DEF IInv, RecordInv, Found
  <2>2. pc[t] \in {"preflight", "submitting"} => cur[t] # i
    BY <2>1 DEF IInv, TaskInv, Idle
  <2>3. pc[t] = "preflight" => NoRival(req[t])'
    BY <1>2 DEF IInv, TaskInv, NoRival, SameManualKey
  <2>4. status'[i] # "none"
    BY DEF IInv, TypeOK, DurableOK, Write, UnresolvedStatuses, Terminal
  <2> QED
    BY <2>2, <2>3, <2>4 DEF IInv, TypeOK, DurableOK, TaskInv, DuplicateKey, Write, OwnPcs
<1>4. \A j \in Intents : RecordInv(j)'
  BY <1>2 DEF IInv, RecordInv, TypeOK, DurableOK, Write, UnresolvedStatuses,
     Terminal, Found, Idle
<1>5. \A j, k \in Intents : PairInv(j, k)'
  BY <1>2 DEF IInv, PairInv, SameManualKey
<1> QED
  BY <1>1, <1>3, <1>4, <1>5 DEF IInv

\* Every step of a reconciler, which takes no lock, preserves it.
LEMMA ReconcilerPreserves ==
  ASSUME IInv, NEW r \in Reconcilers, ReconcilerStep(r)
  PROVE  IInv'
<1>0. TypeOK /\ TypeOK' /\ ReconcilerInv(r)
  BY TypeReconciler DEF IInv
<1> USE <1>0 DEF durable, recs
<1>1. CASE ReconcileAll(r)
  <2>1. ASSUME NEW u \in Reconcilers
        PROVE  ReconcilerInv(u)'
    BY <1>1 DEF ReconcileAll, StartBatch, IInv, ReconcilerInv, TypeOK, RecsOK
  <2> QED
    BY <1>1, <2>1, Untouched DEF ReconcileAll
<1>2. ASSUME NEW i \in Intents, ReconcileOne(r, i)
      PROVE  IInv'
  <2>1. ASSUME NEW u \in Reconcilers
        PROVE  ReconcilerInv(u)'
    BY <1>2 DEF ReconcileOne, StartBatch, IInv, ReconcilerInv, TypeOK, RecsOK
  <2> QED
    BY <1>2, <2>1, Untouched DEF ReconcileOne
<1>3. ASSUME NEW i \in Intents, AskBroker(r, i)
      PROVE  IInv'
  <2>1. ASSUME NEW u \in Reconcilers
        PROVE  ReconcilerInv(u)'
    BY <1>3 DEF AskBroker, IInv, ReconcilerInv, TypeOK, RecsOK
  <2> QED
    BY <1>3, <2>1, Untouched DEF AskBroker
<1>4. ASSUME NEW i \in Intents, LookupFails(r, i)
      PROVE  IInv'
  <2>1. ASSUME NEW u \in Reconcilers
        PROVE  ReconcilerInv(u)'
    BY <1>4 DEF LookupFails, DoneWith, IInv, ReconcilerInv, TypeOK, RecsOK
  <2> QED
    BY <1>4, <2>1, Untouched DEF LookupFails
<1>5. CASE BatchRaises(r)
  <2>1. ASSUME NEW u \in Reconcilers
        PROVE  ReconcilerInv(u)'
    BY <1>5 DEF BatchRaises, IInv, ReconcilerInv, TypeOK, RecsOK
  <2> QED
    BY <1>5, <2>1, Untouched DEF BatchRaises
<1>6. CASE SearchFound(r)
  <2>1. ASSUME NEW u \in Reconcilers
        PROVE  ReconcilerInv(u)'
    BY <1>6 DEF SearchFound, IInv, ReconcilerInv, TypeOK, RecsOK
  <2>2. rcur[r] \in Intents /\ broker[rcur[r]] \in Found
    BY <1>6 DEF SearchFound, ReconcilerInv
  <2> QED
    BY <1>6, <2>1, <2>2, BlindUpdate DEF SearchFound, UnresolvedStatuses
<1>7. CASE Save(r)
  <2> DEFINE i == rcur[r]
             s == JournalStatus(i, seen[r])
  <2>1. ASSUME NEW u \in Reconcilers
        PROVE  ReconcilerInv(u)'
    BY <1>7 DEF Save, DoneWith, IInv, ReconcilerInv, TypeOK, RecsOK
  <2>2. /\ i \in Intents /\ broker[i] \in Found
        /\ seen[r] = "closed" => broker[i] = "closed"
        /\ seen[r] = "rejected" => broker[i] = "rejected"
    BY <1>7 DEF Save, ReconcilerInv
  <2>3. /\ s \in UnresolvedStatuses \cup Terminal
        /\ s = "CONFIRMED" => broker[i] = "closed"
        /\ s = "REJECTED" => broker[i] = "rejected"
    BY <2>2 DEF JournalStatus, UnresolvedStatuses, Terminal
  <2>4. /\ Write(i, s)
        /\ UNCHANGED <<settings, tasks, meta, keys, created, broker, env, told>>
    BY <1>7 DEF Save
  <2> HIDE DEF s
  <2> QED
    BY <2>1, <2>2, <2>3, <2>4, BlindUpdate
<1> QED
  BY <1>1, <1>2, <1>3, <1>4, <1>5, <1>6, <1>7 DEF ReconcilerStep

\* The brokers move on: committed orders stay committed, none comes to life.
LEMMA BrokerPreserves ==
  ASSUME IInv, NEW i \in Intents, BrokerActs(i)
  PROVE  IInv'
<1> USE DEF tasks, durable, recs, env
<1>0. TypeOK /\ TypeOK'
  BY TypeRest DEF IInv
<1>1. PICK b \in {"open", "refused", "closed", "rejected", "odd"} :
        /\ broker' = [broker EXCEPT ![i] = b]
        /\ broker[i] \in {"inflight", "open", "odd"}
        /\ broker[i] # "inflight" => b \in Found
        /\ b \in {"rejected", "odd", "closed"} => broker[i] # "inflight"
        /\ UNCHANGED <<settings, tasks, durable, recs, env, told>>
  BY DEF BrokerActs, BrokerAccepts, BrokerRefuses, BrokerCloses, BrokerRejects,
     BrokerAmends, BrokerStep, Found
<1>2. ~Idle(i) /\ status[i] \notin Terminal
  BY <1>1 DEF IInv, RecordInv, Terminal
<1>3. \A j \in Intents : (Idle(j)' <=> Idle(j)) /\ (Live(j)' => Live(j))
  BY <1>0, <1>1, <1>2 DEF TypeOK, Live, Idle, Over, Gone, Terminal
<1>4. PhaseInv'
  BY <1>1 DEF IInv, PhaseInv
<1>5. ASSUME NEW t \in Tasks
      PROVE  TaskInv(t)'
  <2>1. pc[t] = "preflight" => NoRival(req[t])'
    BY <1>1, <1>3 DEF IInv, TaskInv, NoRival, SameManualKey
  <2> QED
    BY <2>1, <1>0, <1>1, <1>2 DEF IInv, TypeOK, TaskInv, DuplicateKey, OwnPcs, Found, Idle
<1>6. \A j \in Intents : RecordInv(j)'
  BY <1>0, <1>1, <1>2, <1>3 DEF IInv, RecordInv, TypeOK, Found, Terminal
<1>7. \A j, k \in Intents : PairInv(j, k)'
  BY <1>1, <1>3 DEF IInv, PairInv, SameManualKey
<1>8. \A r \in Reconcilers : ReconcilerInv(r)'
  BY <1>0, <1>1 DEF IInv, ReconcilerInv, TypeOK, Found
<1> QED
  BY <1>0, <1>4, <1>5, <1>6, <1>7, <1>8 DEF IInv

\* Settings, the clock and the phases of startup disturb no part of it.
LEMMA QuietPreserves ==
  ASSUME IInv, SettingsStep \/ BootClean \/ BootRecovers \/ BootDone \/ Tick
               \/ UNCHANGED vars
  PROVE  IInv'
<1> USE DEF tasks, durable, recs, env
<1>0. TypeOK /\ TypeOK'
  BY TypeRest DEF IInv, ProcessStep
<1>1. UNCHANGED <<tasks, durable, broker, told>>
  BY DEF SettingsStep, SetMode, SetKill, SettingsUnreadable, BootClean,
     BootRecovers, BootDone, Tick, vars
<1>2. PhaseInv'
  BY <1>1 DEF IInv, PhaseInv, SettingsStep, SetMode, SetKill, SettingsUnreadable,
     BootClean, BootRecovers, BootDone, Tick, vars
<1>3. \A t \in Tasks : TaskInv(t)'
  BY <1>1 DEF IInv, TaskInv, DuplicateKey, NoRival, Live, Idle, Over, SameManualKey
<1>4. \A i \in Intents : RecordInv(i)'
  BY <1>1 DEF IInv, RecordInv, Idle
<1>5. \A i, j \in Intents : PairInv(i, j)'
  BY <1>1 DEF IInv, PairInv, Live, Idle, Over, SameManualKey
<1>6. UNCHANGED recs \/ StartBatch(Boot, Unresolved)
  BY DEF SettingsStep, SetMode, SetKill, SettingsUnreadable, BootClean,
     BootRecovers, BootDone, Tick, vars
<1>7. \A r \in Reconcilers : ReconcilerInv(r)'
  BY <1>0, <1>1, <1>6 DEF StartBatch, IInv, ReconcilerInv, TypeOK, RecsOK
<1> QED
  BY <1>0, <1>2, <1>3, <1>4, <1>5, <1>7 DEF IInv

\* After a crash only the journal and the brokers are left to speak of.
LEMMA DeadProcess ==
  ASSUME TypeOK', Die,
         \A i \in Intents : RecordInv(i)',
         \A i, j \in Intents : PairInv(i, j)'
  PROVE  IInv'
<1>1. PhaseInv' /\ \A t \in Tasks : TaskInv(t)'
  BY DEF Die, PhaseInv, TaskInv, LockedPcs, OwnPcs
<1>2. \A r \in Reconcilers : ReconcilerInv(r)'
  BY DEF Die, ReconcilerInv
<1> QED
  BY <1>1, <1>2 DEF IInv

\* A crash between journal.create and the answer: the record is there, its key
\* may not be, and nothing was sent.
LEMMA CrashInCreate ==
  ASSUME IInv, TypeOK', Die, NEW t \in Tasks, NEW i \in Intents,
         CreateRecord(t, i, "CREATED"), req[t] \in Requests,
         keys' = keys \/ RememberKey(req[t])
  PROVE  IInv'
<1> USE DEF CreateRecord, Write, RememberKey, Die
<1>1. \A j \in Intents : /\ Idle(j)' <=> Idle(j)
                         /\ Live(j)' <=> Live(j)
                         /\ ~Idle(j) => j # i /\ meta'[j] = meta[j]
  BY DEF IInv, TypeOK, DurableOK, Live, Idle, Over
<1>2. \A j \in Intents : RecordInv(j)'
  BY <1>1 DEF IInv, RecordInv, Idle, TypeOK, DurableOK
<1>3. \A j, k \in Intents : PairInv(j, k)'
  BY <1>1 DEF IInv, PairInv, Live, SameManualKey
<1> QED
  BY <1>2, <1>3, DeadProcess

\* A crash after PREFLIGHTED or SUBMITTING was written and before the POST.
LEMMA CrashBeforeSend ==
  ASSUME IInv, TypeOK', Die, NEW t \in Tasks, pc[t] = "preflight",
         NEW s \in {"PREFLIGHTED", "SUBMITTING"}, Write(cur[t], s),
         UNCHANGED <<meta, hasId, created, keys, activity>>
  PROVE  IInv'
<1> DEFINE i == cur[t]
<1> USE DEF Write, Die
<1>0. /\ i \in Intents /\ meta[i] = req[t] /\ status[i] = "CREATED"
      /\ Idle(i) /\ broker[i] = "none" /\ told[i] = "pending" /\ NoRival(req[t])
      /\ req[t].source = "manual" => req[t].key \in keys
  BY DEF IInv, TaskInv, RecordInv, OwnPcs, Idle
<1>1. \A j \in Intents : j # i => (Idle(j)' <=> Idle(j)) /\ (Live(j)' <=> Live(j))
  BY DEF IInv, TypeOK, DurableOK, Live, Idle, Over
<1>2. \A j \in Intents : RecordInv(j)'
  BY <1>0 DEF IInv, RecordInv, Idle, TypeOK, DurableOK
<1>3. ASSUME NEW j \in Intents, NEW k \in Intents
      PROVE  PairInv(j, k)'
  BY <1>0, <1>1 DEF IInv, PairInv, SameManualKey, NoRival
<1> QED
  BY <1>2, <1>3, DeadProcess

\* A crash after a broker's answer was written to the journal.
LEMMA CrashAfterAnswer ==
  ASSUME IInv, TypeOK', Die, NEW i \in Intents, broker[i] \in Found,
         NEW s \in UnresolvedStatuses \cup Terminal, Write(i, s),
         s = "CONFIRMED" => broker[i] = "closed",
         s = "REJECTED" => broker[i] = "rejected",
         UNCHANGED <<meta, created, keys, activity>>
  PROVE  IInv'
<1> USE DEF Die
<1>1. \A j \in Intents : (Idle(j)' <=> Idle(j)) /\ (Live(j)' <=> Live(j))
  BY Rewrite DEF Found
<1>2. \A j \in Intents : RecordInv(j)'
  BY <1>1 DEF IInv, RecordInv, TypeOK, DurableOK, Write, UnresolvedStatuses,
     Terminal, Found, Idle
<1>3. \A j, k \in Intents : PairInv(j, k)'
  BY <1>1 DEF IInv, PairInv, SameManualKey
<1> QED
  BY <1>2, <1>3, DeadProcess

\* Startup and crashes, also between two file writes, preserve it.
LEMMA ProcessPreserves ==
  ASSUME IInv, ProcessStep
  PROVE  IInv'
<1>0. TypeOK /\ TypeOK'
  BY TypeRest DEF IInv
<1>1. CASE BootClean \/ BootRecovers \/ BootDone
  BY <1>1, QuietPreserves
<1>2. CASE Crash
  <2>1. \A i \in Intents : RecordInv(i)'
    BY <1>2 DEF Crash, Die, durable, IInv, RecordInv, Idle
  <2>2. \A i, j \in Intents : PairInv(i, j)'
    BY <1>2 DEF Crash, Die, durable, IInv, PairInv, Live, Idle, Over, SameManualKey
  <2> QED
    BY <1>0, <1>2, <2>1, <2>2, DeadProcess DEF Crash
<1>3. ASSUME NEW t \in Tasks, NEW i \in Intents, CrashBetweenWrites(t, i)
      PROVE  IInv'
  <2>1. CASE pc[t] = "snapshot"
    BY <1>0, <1>3, <2>1, CrashInCreate
       DEF CrashBetweenWrites, TypeOK, TasksOK
  <2>2. CASE pc[t] = "preflight"
    BY <1>0, <1>3, <2>2, CrashBeforeSend DEF CrashBetweenWrites
  <2>3. CASE pc[t] \in {"awaiting", "sawOpen"}
    BY <1>0, <1>3, <2>3, CrashAfterAnswer DEF CrashBetweenWrites, UnresolvedStatuses
  <2> QED
    BY <1>3, <2>1, <2>2, <2>3 DEF CrashBetweenWrites
<1>4. ASSUME NEW r \in Reconcilers, CrashInSave(r)
      PROVE  IInv'
  <2> DEFINE i == rcur[r]
             s == JournalStatus(i, seen[r])
  <2>1. /\ i \in Intents /\ broker[i] \in Found
        /\ seen[r] = "closed" => broker[i] = "closed"
        /\ seen[r] = "rejected" => broker[i] = "rejected"
    BY <1>4 DEF CrashInSave, IInv, ReconcilerInv
  <2>2. /\ s \in UnresolvedStatuses \cup Terminal
        /\ s = "CONFIRMED" => broker[i] = "closed"
        /\ s = "REJECTED" => broker[i] = "rejected"
    BY <2>1 DEF JournalStatus, UnresolvedStatuses, Terminal
  <2>3. Die /\ Write(i, s) /\ UNCHANGED <<meta, created, keys, activity>>
    BY <1>4 DEF CrashInSave
  <2> HIDE DEF s
  <2> QED
    BY <1>0, <2>1, <2>2, <2>3, CrashAfterAnswer
<1> QED
  BY <1>1, <1>2, <1>3, <1>4 DEF ProcessStep

\* Every step preserves the invariant.
LEMMA NextPreserves ==
  ASSUME IInv, [Next]_vars
  PROVE  IInv'
<1>1. ASSUME NEW t \in Tasks, TaskStep(t) \/ \E q \in Requests : Arrive(t, q)
      PROVE  IInv'
  BY <1>1, TaskPreserves, ArrivePreserves
<1>2. ASSUME NEW r \in Reconcilers, ReconcilerStep(r)
      PROVE  IInv'
  BY <1>2, ReconcilerPreserves
<1>3. ASSUME NEW i \in Intents, BrokerActs(i)
      PROVE  IInv'
  BY <1>3, BrokerPreserves
<1>4. CASE SettingsStep \/ Tick \/ UNCHANGED vars
  BY <1>4, QuietPreserves
<1>5. CASE ProcessStep
  BY <1>5, ProcessPreserves
<1> QED
  BY <1>1, <1>2, <1>3, <1>4, <1>5 DEF Next

\* The invariant holds in every reachable state of every instance: any number
\* of clients, intents, keys, symbols, crashes and concurrent reconciliations.
THEOREM Invariant == Spec => []IInv
<1>1. Init => IInv
  BY InitIInv
<1>2. IInv /\ [Next]_vars => IInv'
  BY NextPreserves
<1> QED
  BY <1>1, <1>2, PTL DEF Spec

\* The types of LiveOrders.
THEOREM TypeCorrect == Spec => []TypeOK
<1>1. IInv => TypeOK
  BY DEF IInv
<1> QED
  BY <1>1, Invariant, PTL

-----------------------------------------------------------------------------
(* The safety properties *)

\* An order that may still change the account is unresolved in the journal;
\* CONFIRMED and REJECTED are written only about orders that are over.
THEOREM JournalHonest == Spec => []JournalIsHonest
<1>1. IInv => JournalIsHonest
  BY DEF IInv, RecordInv, TypeOK, DurableOK, Statuses, Idle, JournalIsHonest,
     OnMarket, UnresolvedStatuses
<1> QED
  BY <1>1, Invariant, PTL

\* Two intents for one symbol are never on the market together.
THEOREM SymbolExclusion == Spec => []OneOrderPerSymbol
<1>1. ASSUME IInv, NEW i \in Intents, OnMarket(i)
      PROVE  Live(i)
  BY <1>1 DEF IInv, RecordInv, OnMarket, Live, Idle, Over, Gone
<1>2. IInv => OneOrderPerSymbol
  BY <1>1 DEF IInv, PairInv, OneOrderPerSymbol
<1> QED
  BY <1>2, Invariant, PTL

\* An idempotency key leads to at most one order at a broker.
THEOREM KeyExclusion == Spec => []OneOrderPerKey
<1>1. IInv => OneOrderPerKey
  BY DEF IInv, RecordInv, PairInv, SameManualKey, OneOrderPerKey
<1> QED
  BY <1>1, Invariant, PTL

\* A caller is told "rejected" or "submitted" only when it is so.
THEOREM AnswersHonest == Spec => []HonestAnswers
<1>1. IInv => HonestAnswers
  BY DEF IInv, RecordInv, HonestAnswers
<1> QED
  BY <1>1, Invariant, PTL

\* SUBMITTING is written only with open gates, and a record is sent only once,
\* after it became durable: the state predicate of GatedAndSentOnce, per step.
LEMMA GatedStep ==
  ASSUME IInv, IInv', [Next]_vars, NEW i \in Intents
  PROVE  /\ (status'[i] = "SUBMITTING" /\ status[i] # "SUBMITTING")
              => mode = "live" /\ ~kill /\ phase = "serving"
         /\ (broker'[i] = "inflight" /\ broker[i] # "inflight")
              => broker[i] = "none" /\ status[i] \in UnresolvedStatuses
<1> USE DEF durable, Write
<1>0. TypeOK /\ TypeOK' /\ \A t \in Tasks : pc[t] # "idle" => phase = "serving"
  BY DEF IInv, PhaseInv
<1>1. ASSUME NEW t \in Tasks, NEW q \in Requests, Arrive(t, q)
      PROVE  UNCHANGED <<status, broker>>
  BY <1>1 DEF Arrive
<1>2. ASSUME NEW t \in Tasks, BeginSubmit(t) \/ Send(t)
      PROVE  /\ (status'[i] = "SUBMITTING" /\ status[i] # "SUBMITTING")
                   => mode = "live" /\ ~kill /\ phase = "serving"
             /\ (broker'[i] = "inflight" /\ broker[i] # "inflight")
                   => broker[i] = "none" /\ status[i] \in UnresolvedStatuses
  BY <1>0, <1>2 DEF BeginSubmit, Send, Gate, IInv, TaskInv, TypeOK, DurableOK,
     UnresolvedStatuses
<1>3. ASSUME NEW t \in Tasks, TaskStep(t), ~BeginSubmit(t), ~Send(t)
      PROVE  (status'[i] = "SUBMITTING" => status[i] = "SUBMITTING") /\ broker' = broker
  BY <1>0, <1>3 DEF TaskStep, TypeOK, DurableOK, Enter, RefuseDuplicate,
     SnapshotFails, SymbolBlocked, RiskBlocks, RiskAllows, CreateRecord,
     PreflightRefused, PreflightRaises, GatesClosed, NotSent, Accepted,
     AcceptedWithoutId, Refused, AmbiguousToss, AmbiguousUpbit, SubmitRaises,
     RecoverMisses, RecoverLooksUp, RecoverGivesUp, RecoverSubmitted, RecoverConfirmed
<1>4. ASSUME NEW r \in Reconcilers, ReconcilerStep(r)
      PROVE  (status'[i] = "SUBMITTING" => status[i] = "SUBMITTING") /\ broker' = broker
  <2>1. CASE SearchFound(r) \/ Save(r)
    BY <1>0, <2>1, SavedStatus DEF SearchFound, Save, TypeOK, DurableOK
  <2>2. CASE ~SearchFound(r) /\ ~Save(r)
    BY <1>4, <2>2 DEF ReconcilerStep, ReconcileAll, ReconcileOne, AskBroker,
       LookupFails, BatchRaises
  <2> QED
    BY <2>1, <2>2
<1>5. ASSUME NEW j \in Intents, BrokerActs(j)
      PROVE  status' = status /\ (broker'[i] = "inflight" => broker[i] = "inflight")
  BY <1>0, <1>5 DEF BrokerActs, BrokerAccepts, BrokerRefuses, BrokerCloses,
     BrokerRejects, BrokerAmends, BrokerStep, TypeOK
<1>6. ASSUME NEW t \in Tasks, NEW j \in Intents, CrashBetweenWrites(t, j)
      PROVE  /\ (status'[i] = "SUBMITTING" /\ status[i] # "SUBMITTING")
                   => mode = "live" /\ ~kill /\ phase = "serving"
             /\ broker' = broker
  BY <1>0, <1>6 DEF CrashBetweenWrites, Die, CreateRecord, Gate, TypeOK, DurableOK
<1>7. ASSUME NEW r \in Reconcilers, CrashInSave(r)
      PROVE  (status'[i] = "SUBMITTING" => status[i] = "SUBMITTING") /\ broker' = broker
  BY <1>0, <1>7, SavedStatus DEF CrashInSave, Die, TypeOK, DurableOK
<1>8. CASE SettingsStep \/ BootClean \/ BootRecovers \/ BootDone \/ Crash \/ Tick
           \/ UNCHANGED vars
  BY <1>8 DEF SettingsStep, SetMode, SetKill, SettingsUnreadable, BootClean,
     BootRecovers, BootDone, Crash, Die, Tick, vars
<1> QED
  BY <1>1, <1>2, <1>3, <1>4, <1>5, <1>6, <1>7, <1>8 DEF Next, ProcessStep

\* No order starts, or leaves, past closed gates, unrecorded or twice.
THEOREM Gated == Spec => GatedAndSentOnce
<1>1. IInv /\ IInv' /\ [Next]_vars =>
        [\A i \in Intents :
          /\ (status'[i] = "SUBMITTING" /\ status[i] # "SUBMITTING")
               => mode = "live" /\ ~kill /\ phase = "serving"
          /\ (broker'[i] = "inflight" /\ broker[i] # "inflight")
               => broker[i] = "none" /\ status[i] \in UnresolvedStatuses]_vars
  BY GatedStep
<1> QED
  BY <1>1, Invariant, PTL DEF Spec, GatedAndSentOnce

-----------------------------------------------------------------------------
(* LiveOrders implements OrderPromise *)

\* Record j looks the same to OrderPromise after the step.
Same(j) ==
  /\ Idle(j)' <=> Idle(j)
  /\ Live(j)' <=> Live(j)
  /\ ~Idle(j) => meta'[j] = meta[j]

\* A step that changes nothing OrderPromise speaks of is a stuttering step.
LEMMA Stutters ==
  ASSUME \A j \in Intents : Same(j), UNCHANGED settings
  PROVE  UNCHANGED Promise!vars
  BY DEF Same, Live, settings, Promise!vars

\* Record i becomes a live order for q.
LEMMA Commits ==
  ASSUME NEW i \in Intents, NEW q \in Requests, Gate(q), NoRival(q),
         Idle(i), Live(i)', meta'[i] = q, UNCHANGED settings,
         \A j \in Intents : j # i => Same(j)
  PROVE  Promise!Commit(i, q)
  BY DEF Same, Live, settings, Gate, NoRival, SameManualKey, Promise!Commit,
     Promise!SameKey

\* Record i is over without ever having been live.
LEMMA Declines ==
  ASSUME NEW i \in Intents, NEW q \in Requests,
         \A j \in Intents : ~Idle(j) => ~SameManualKey(meta[j], q),
         Idle(i), ~Idle(i)', ~Live(i)', meta'[i] = q, UNCHANGED settings,
         \A j \in Intents : j # i => Same(j)
  PROVE  Promise!Decline(i, q)
  BY DEF Same, Live, settings, SameManualKey, Promise!Decline, Promise!SameKey

\* The live order of record i is over.
LEMMA Concludes ==
  ASSUME NEW i \in Intents, Live(i), ~Idle(i)', ~Live(i)', meta'[i] = meta[i],
         UNCHANGED settings, \A j \in Intents : j # i => Same(j)
  PROVE  Promise!Conclude(i)
  BY DEF Same, Live, settings, Promise!Conclude

\* An action that writes about no order is a stuttering step.
LEMMA NothingWritten ==
  ASSUME UNCHANGED <<settings, status, meta, broker>>
  PROVE  UNCHANGED Promise!vars
  BY Stutters DEF Same, Live, Idle, Over

\* So is a rewrite of a record whose order the broker has.
LEMMA RewriteStutters ==
  ASSUME IInv, IInv', NEW i \in Intents, broker[i] # "none",
         NEW s \in UnresolvedStatuses \cup Terminal, Write(i, s),
         UNCHANGED <<settings, meta, keys, broker>>
  PROVE  UNCHANGED Promise!vars
<1>1. \A j \in Intents : Same(j)
  BY Rewrite DEF Same, IInv
<1> QED
  BY <1>1, Stutters

\* A step of an order task commits, declines or concludes one order, or stutters.
LEMMA TaskRefines ==
  ASSUME IInv, IInv', NEW t \in Tasks, TaskStep(t)
  PROVE  [Promise!Next]_(Promise!vars)
<1> USE DEF durable, Write
<1>0. TypeOK /\ TaskInv(t)
  BY DEF IInv
<1>1. CASE \/ Enter(t) \/ RefuseDuplicate(t) \/ SnapshotFails(t) \/ SymbolBlocked(t)
           \/ PreflightRaises(t) \/ SubmitRaises(t) \/ RecoverMisses(t)
           \/ RecoverLooksUp(t) \/ RecoverGivesUp(t)
  <2>1. UNCHANGED <<settings, status, meta, broker>>
    BY <1>1 DEF Enter, RefuseDuplicate, SnapshotFails, SymbolBlocked,
       PreflightRaises, SubmitRaises, RecoverMisses, RecoverLooksUp, RecoverGivesUp
  <2> QED
    BY <2>1, NothingWritten
<1>2. ASSUME NEW i \in Intents, RiskAllows(t, i)
      PROVE  UNCHANGED Promise!vars
  <2>1. \A j \in Intents : Same(j)
    BY <1>0, <1>2 DEF RiskAllows, CreateRecord, TypeOK, DurableOK, Same, Live, Idle, Over
  <2> QED
    BY <1>2, <2>1, Stutters DEF RiskAllows
<1>3. ASSUME NEW i \in Intents, RiskBlocks(t, i)
      PROVE  Promise!Next
  <2>1. PICK q \in Requests : q = req[t] /\ ~DuplicateKey(q)
    BY <1>0, <1>3 DEF RiskBlocks, TypeOK, TasksOK, TaskInv
  <2>2. \A j \in Intents : ~Idle(j) => ~SameManualKey(meta[j], q)
    BY <2>1 DEF IInv, RecordInv, SameManualKey, DuplicateKey
  <2>3. /\ Idle(i) /\ ~Idle(i)' /\ ~Live(i)' /\ meta'[i] = q /\ UNCHANGED settings
    BY <1>0, <1>3, <2>1 DEF RiskBlocks, CreateRecord, TypeOK, DurableOK, Live, Idle,
       Over, IInv, RecordInv
  <2>4. \A j \in Intents : j # i => Same(j)
    BY <1>0, <1>3 DEF RiskBlocks, CreateRecord, TypeOK, DurableOK, Same, Live, Idle, Over
  <2>5. Promise!Decline(i, q)
    BY <2>2, <2>3, <2>4, Declines
  <2> QED
    BY <2>5 DEF Promise!Next
<1>4. CASE PreflightRefused(t) \/ GatesClosed(t)
  <2>0. PICK i \in Intents, q \in Requests :
          /\ i = cur[t] /\ q = req[t] /\ NoRival(q)
          /\ status[i] = "CREATED" /\ meta[i] = q /\ broker[i] = "none"
    BY <1>0, <1>4 DEF PreflightRefused, GatesClosed, TaskInv, OwnPcs, TypeOK,
       TasksOK, IInv, RecordInv, Idle
  <2>1. /\ Idle(i) /\ ~Idle(i)' /\ ~Live(i)' /\ meta'[i] = q /\ UNCHANGED settings
    BY <1>0, <1>4, <2>0 DEF PreflightRefused, GatesClosed, TypeOK, DurableOK, Live,
       Idle, Over
  <2>2. \A j \in Intents : j # i => Same(j)
    BY <1>0, <1>4, <2>0 DEF PreflightRefused, GatesClosed, TypeOK, DurableOK, Same,
       Live, Idle, Over
  <2>3. Promise!Decline(i, q)
    BY <2>0, <2>1, <2>2, Declines DEF NoRival
  <2> QED
    BY <2>3 DEF Promise!Next
<1>5. CASE BeginSubmit(t)
  <2>0. PICK i \in Intents, q \in Requests :
          /\ i = cur[t] /\ q = req[t] /\ NoRival(q) /\ Gate(q)
          /\ status[i] = "CREATED" /\ meta[i] = q /\ broker[i] = "none"
    BY <1>0, <1>5 DEF BeginSubmit, TaskInv, OwnPcs, TypeOK, TasksOK, IInv, RecordInv, Idle
  <2>1. /\ Idle(i) /\ Live(i)' /\ meta'[i] = q /\ UNCHANGED settings
    BY <1>0, <1>5, <2>0 DEF BeginSubmit, TypeOK, DurableOK, Live, Idle, Over, Gone
  <2>2. \A j \in Intents : j # i => Same(j)
    BY <1>0, <1>5, <2>0 DEF BeginSubmit, TypeOK, DurableOK, Same, Live, Idle, Over
  <2>3. Promise!Commit(i, q)
    BY <2>0, <2>1, <2>2, Commits
  <2> QED
    BY <2>3 DEF Promise!Next
<1>6. CASE Send(t)
  <2>1. \A j \in Intents : Same(j)
    BY <1>0, <1>6 DEF Send, TaskInv, OwnPcs, TypeOK, Same, Live, Idle, Over, Gone
  <2> QED
    BY <1>6, <2>1, Stutters DEF Send
<1>7. CASE NotSent(t)
  <2>0. PICK i \in Intents :
          i = cur[t] /\ status[i] = "SUBMITTING" /\ broker[i] = "none"
    BY <1>0, <1>7 DEF NotSent, TaskInv, OwnPcs
  <2>1. /\ Live(i) /\ ~Idle(i)' /\ ~Live(i)' /\ meta'[i] = meta[i] /\ UNCHANGED settings
    BY <1>0, <1>7, <2>0 DEF NotSent, TypeOK, DurableOK, Live, Idle, Over, Gone
  <2>2. \A j \in Intents : j # i => Same(j)
    BY <1>0, <1>7, <2>0 DEF NotSent, TypeOK, DurableOK, Same, Live, Idle, Over
  <2>3. Promise!Conclude(i)
    BY <2>1, <2>2, Concludes
  <2> QED
    BY <2>3 DEF Promise!Next
<1>8. CASE \/ Accepted(t) \/ AcceptedWithoutId(t) \/ Refused(t) \/ AmbiguousToss(t)
           \/ AmbiguousUpbit(t) \/ RecoverSubmitted(t) \/ RecoverConfirmed(t)
  <2>1. cur[t] \in Intents /\ broker[cur[t]] # "none"
    BY <1>0, <1>8 DEF TaskInv, OwnPcs, Accepted, AcceptedWithoutId, Refused,
       AmbiguousToss, AmbiguousUpbit, RecoverSubmitted, RecoverConfirmed, Found
  <2>2. PICK s \in UnresolvedStatuses \cup Terminal :
          Write(cur[t], s) /\ UNCHANGED <<settings, meta, keys, broker>>
    BY <1>8 DEF Accepted, AcceptedWithoutId, Refused, AmbiguousToss, AmbiguousUpbit,
       RecoverSubmitted, RecoverConfirmed, UnresolvedStatuses, Terminal
  <2> QED
    BY <2>1, <2>2, RewriteStutters
<1> QED
  BY <1>1, <1>2, <1>3, <1>4, <1>5, <1>6, <1>7, <1>8 DEF TaskStep

\* A step of a reconciler is a stuttering step of the promise.
LEMMA ReconcilerRefines ==
  ASSUME IInv, IInv', NEW r \in Reconcilers, ReconcilerStep(r) \/ CrashInSave(r)
  PROVE  UNCHANGED Promise!vars
<1> USE DEF durable
<1>0. ReconcilerInv(r)
  BY DEF IInv
<1>1. CASE \/ ReconcileAll(r) \/ BatchRaises(r)
           \/ \E i \in Intents : ReconcileOne(r, i) \/ AskBroker(r, i) \/ LookupFails(r, i)
  <2>1. UNCHANGED <<settings, status, meta, broker>>
    BY <1>1 DEF ReconcileAll, BatchRaises, ReconcileOne, AskBroker, LookupFails
  <2> QED
    BY <2>1, NothingWritten
<1>2. CASE SearchFound(r) \/ Save(r) \/ CrashInSave(r)
  <2>1. rcur[r] \in Intents /\ broker[rcur[r]] # "none"
    BY <1>0, <1>2 DEF ReconcilerInv, SearchFound, Save, CrashInSave, Found
  <2>2. PICK s \in UnresolvedStatuses \cup Terminal :
          Write(rcur[r], s) /\ UNCHANGED <<settings, meta, keys, broker>>
    BY <1>2, SavedStatus DEF SearchFound, Save, CrashInSave, Die, UnresolvedStatuses, Terminal
  <2> QED
    BY <2>1, <2>2, RewriteStutters
<1> QED
  BY <1>1, <1>2 DEF ReconcilerStep

\* A step of a broker concludes an order, or stutters.
LEMMA BrokerRefines ==
  ASSUME IInv, IInv', NEW i \in Intents, BrokerActs(i)
  PROVE  [Promise!Next]_(Promise!vars)
<1> USE DEF durable
<1>0. TypeOK /\ RecordInv(i)
  BY DEF IInv
<1>1. PICK b \in {"open", "refused", "closed", "rejected", "odd"} :
        /\ broker' = [broker EXCEPT ![i] = b]
        /\ broker[i] \in {"inflight", "open", "odd"}
        /\ UNCHANGED <<settings, tasks, durable, recs, env, told>>
  BY DEF BrokerActs, BrokerAccepts, BrokerRefuses, BrokerCloses, BrokerRejects,
     BrokerAmends, BrokerStep
<1>2. Live(i) /\ ~Idle(i)' /\ (~Live(i)' <=> b \in Gone)
  BY <1>0, <1>1 DEF RecordInv, TypeOK, Live, Idle, Over, Gone
<1>3. \A j \in Intents : j # i => Same(j)
  BY <1>0, <1>1 DEF TypeOK, Same, Live, Idle, Over
<1>4. CASE b \in Gone
  BY <1>1, <1>2, <1>3, <1>4, Concludes DEF Promise!Next
<1>5. CASE b \notin Gone
  <2>1. Same(i)
    BY <1>1, <1>2, <1>5 DEF Same, Live
  <2> QED
    BY <1>1, <1>3, <2>1, Stutters
<1> QED
  BY <1>4, <1>5

\* A crash may commit the order it was writing down, and nothing else.
LEMMA CrashRefines ==
  ASSUME IInv, IInv', NEW t \in Tasks, NEW i \in Intents, CrashBetweenWrites(t, i)
  PROVE  [Promise!Next]_(Promise!vars)
<1> USE DEF Write
<1>0. TypeOK /\ TaskInv(t)
  BY DEF IInv
<1>1. CASE pc[t] = "snapshot"
  <2>1. (\A j \in Intents : Same(j)) /\ UNCHANGED settings
    BY <1>0, <1>1 DEF CrashBetweenWrites, Die, CreateRecord, TypeOK, DurableOK,
       Same, Live, Idle, Over
  <2> QED
    BY <2>1, Stutters
<1>2. CASE pc[t] = "preflight"
  <2>0. PICK q \in Requests :
          /\ i = cur[t] /\ q = req[t] /\ NoRival(q)
          /\ status[i] = "CREATED" /\ meta[i] = q /\ broker[i] = "none"
    BY <1>0, <1>2 DEF CrashBetweenWrites, TaskInv, OwnPcs, TypeOK, TasksOK, IInv,
       RecordInv, Idle
  <2>1. PICK s \in {"PREFLIGHTED", "SUBMITTING"} :
          /\ s = "SUBMITTING" => Gate(q)
          /\ Write(i, s) /\ UNCHANGED <<settings, meta, broker>>
    BY <1>2, <2>0 DEF CrashBetweenWrites, Die
  <2>2. \A j \in Intents : j # i => Same(j)
    BY <1>0, <2>1 DEF TypeOK, DurableOK, Same, Live, Idle, Over
  <2>3. CASE s = "PREFLIGHTED"
    <3>1. Same(i)
      BY <1>0, <2>0, <2>1, <2>3 DEF TypeOK, DurableOK, Same, Live, Idle, Over
    <3> QED
      BY <2>1, <2>2, <3>1, Stutters
  <2>4. CASE s = "SUBMITTING"
    <3>1. Idle(i) /\ Live(i)'
      BY <1>0, <2>0, <2>1, <2>4 DEF TypeOK, DurableOK, Live, Idle, Over, Gone
    <3>2. Promise!Commit(i, q)
      BY <2>0, <2>1, <2>2, <2>4, <3>1, Commits
    <3> QED
      BY <3>2 DEF Promise!Next
  <2> QED
    BY <2>3, <2>4
<1>3. CASE pc[t] \in {"awaiting", "sawOpen"}
  <2>1. /\ broker[i] # "none" /\ Write(i, "SUBMITTED")
        /\ UNCHANGED <<settings, meta, keys, broker>>
    BY <1>3 DEF CrashBetweenWrites, Die, Found
  <2> QED
    BY <2>1, RewriteStutters DEF UnresolvedStatuses
<1> QED
  BY <1>1, <1>2, <1>3 DEF CrashBetweenWrites

\* Every step of LiveOrders is a step of OrderPromise, or a stuttering one.
LEMMA StepRefines ==
  ASSUME IInv, IInv', [Next]_vars
  PROVE  [Promise!Next]_(Promise!vars)
<1> USE DEF durable
<1>1. ASSUME NEW t \in Tasks, NEW q \in Requests, Arrive(t, q)
      PROVE  UNCHANGED Promise!vars
  BY <1>1, NothingWritten DEF Arrive
<1>2. CASE SettingsStep
  <2>1. (mode = "live" /\ ~kill)' \in BOOLEAN /\ UNCHANGED <<status, meta, broker>>
    BY <1>2 DEF SettingsStep, SetMode, SetKill, SettingsUnreadable
  <2>2. Promise!Arm
    BY <2>1 DEF Promise!Arm, Idle, Over
  <2> QED
    BY <2>2 DEF Promise!Next
<1>3. CASE BootClean \/ BootRecovers \/ BootDone \/ Crash \/ Tick \/ UNCHANGED vars
  BY <1>3, NothingWritten DEF BootClean, BootRecovers, BootDone, Crash, Die, Tick, vars
<1> QED
  BY <1>1, <1>2, <1>3, TaskRefines, ReconcilerRefines, BrokerRefines, CrashRefines
     DEF Next, ProcessStep

\* The live order path keeps its promises: every behaviour of LiveOrders, seen
\* through the refinement mapping, is a behaviour of OrderPromise.
THEOREM ImplementsPromise == Spec => PromiseSpec
<1>1. Init => Promise!Init
  BY DEF Init, Promise!Init, Idle
<1>2. IInv /\ IInv' /\ [Next]_vars => [Promise!Next]_(Promise!vars)
  BY StepRefines
<1> QED
  BY <1>1, <1>2, Invariant, PTL DEF Spec, PromiseSpec, Promise!Spec

-----------------------------------------------------------------------------
(* The cooldown of automatic buys *)

\* A record that exists keeps its time of creation, an order that has not been
\* acknowledged is not acknowledged now, and neither side's activity changes.
NoNewWait ==
  /\ now' \in Nat /\ now <= now'
  /\ \A i \in Intents : status'[i] # "none" =>
       \/ status[i] # "none" /\ created'[i] = created[i] /\ meta'[i] = meta[i]
       \/ status[i] = "none" /\ created'[i] = now
  /\ \A i \in Intents : told'[i] = "submitted" => told[i] = "submitted"
  /\ \A s \in Symbols : /\ activity'[s]["buy"] = activity[s]["buy"]
                        /\ activity'[s]["sell"] = activity[s]["sell"]

\* No other task passes the cooldown check.
NooneElseChecked ==
  \A t \in Tasks : pc'[t] \in {"preflight", "submitting"} =>
     pc[t] \in {"preflight", "submitting"} /\ req'[t] = req[t]

\* An acknowledged order has a record, and the record says what was asked for.
LEMMA AcknowledgedExists ==
  ASSUME IInv, NEW i \in Intents, Acknowledged(i)
  PROVE  /\ status[i] # "none" /\ meta[i] \in Requests
         /\ meta[i].symbol \in Symbols /\ meta[i].side \in {"buy", "sell"}
  BY DEF IInv, RecordInv, Acknowledged, RequestType

\* A step that acknowledges nothing and lets nobody past the check keeps it.
LEMMA NoNewWaitKeeps ==
  ASSUME IInv, IInv', CooldownInv, NoNewWait, NooneElseChecked
  PROVE  CooldownInv'
<1>0. now \in Nat /\ \A i \in Intents : created[i] \in Int
  BY DEF IInv, TypeOK, EnvOK, DurableOK
<1>1. ASSUME NEW i \in Intents, Acknowledged(i)'
      PROVE  /\ Acknowledged(i) /\ created'[i] = created[i] /\ meta'[i] = meta[i]
             /\ activity'[meta[i].symbol][meta[i].side] = activity[meta[i].symbol][meta[i].side]
  <2>1. told[i] = "submitted" /\ status[i] # "none"
    BY <1>1 DEF NoNewWait, Acknowledged, IInv, RecordInv
  <2>2. status'[i] # "none"
    BY <1>1 DEF Acknowledged, IInv, RecordInv
  <2>3. created'[i] = created[i] /\ meta'[i] = meta[i] /\ Acknowledged(i)
    BY <1>1, <2>1, <2>2 DEF NoNewWait, Acknowledged
  <2> QED
    BY <2>3, AcknowledgedExists DEF NoNewWait
<1>2. \A i \in Intents : status'[i] # "none" => 0 <= created'[i] /\ created'[i] <= now'
  BY <1>0 DEF NoNewWait, CooldownInv
<1>3. \A i \in Intents : Acknowledged(i)' =>
        created'[i] <= activity'[meta'[i].symbol][meta'[i].side]
  BY <1>1 DEF CooldownInv
<1>4. ASSUME NEW t \in Tasks, pc'[t] \in {"preflight", "submitting"},
             req'[t].source = "auto", req'[t].side = "buy",
             NEW i \in Intents, Acknowledged(i)', meta'[i].symbol = req'[t].symbol
      PROVE  created'[i] + Wait(i)' <= now'
  <2>1. created[i] + Wait(i) <= now
    BY <1>1, <1>4 DEF CooldownInv, NooneElseChecked
  <2>2. Wait(i)' = Wait(i) /\ Wait(i) \in Nat
    BY <1>1, <1>4 DEF Wait
  <2> QED
    BY <1>0, <1>1, <1>4, <2>1, <2>2 DEF NoNewWait
<1> QED
  BY <1>2, <1>3, <1>4 DEF CooldownInv

\* A handler that ends does not pass the check.
LEMMA FinishChecks ==
  ASSUME TypeOK, NEW t \in Tasks, Finish(t)
  PROVE  NooneElseChecked
  BY DEF TypeOK, TasksOK, Finish, NooneElseChecked

\* Nothing is written about cooldowns, and the clock does not go back.
LEMMA QuietKeeps ==
  ASSUME TypeOK, now' \in {now, now + 1}, UNCHANGED <<meta, created, activity, told>>,
         \A i \in Intents : status'[i] # "none" => status[i] # "none"
  PROVE  NoNewWait
  BY DEF TypeOK, EnvOK, NoNewWait

\* Nor when only the general activity of a symbol is recorded.
LEMMA GeneralKeeps ==
  ASSUME TypeOK, NEW sym \in Symbols, NEW at \in Int
  PROVE  \A s \in Symbols : \A k \in {"buy", "sell"} :
           Recorded(sym, {"any"}, at)[s][k] = activity[s][k]
  BY DEF TypeOK, DurableOK, Recorded, Kinds

\* A written status belongs to a record that exists.
LEMMA WrittenExists ==
  ASSUME TypeOK, NEW i \in Intents, NEW s, Write(i, s), status[i] # "none"
  PROVE  \A j \in Intents : status'[j] # "none" => status[j] # "none"
  BY DEF TypeOK, DurableOK, Write

\* A task that has a record of its own: it exists, and nobody else is at work.
LEMMA OwnRecord ==
  ASSUME IInv, NEW t \in Tasks, pc[t] \in OwnPcs
  PROVE  /\ cur[t] \in Intents /\ status[cur[t]] # "none" /\ meta[cur[t]] = req[t]
         /\ told[cur[t]] = "pending" /\ req[t] \in Requests
  BY DEF IInv, TaskInv, TypeOK, TasksOK, OwnPcs

\* The lock keeps everybody else out.
LEMMA OthersIdle ==
  ASSUME IInv, NEW t \in Tasks, pc[t] \in LockedPcs
  PROVE  \A u \in Tasks \ {t} : pc[u] \notin LockedPcs
  BY DEF IInv, TaskInv

\* The end of a handler that does not report a submission.
LEMMA EndKeeps ==
  ASSUME IInv, NEW t \in Tasks, Finish(t), UNCHANGED <<meta, created, now>>,
         \A s \in Symbols : /\ activity'[s]["buy"] = activity[s]["buy"]
                            /\ activity'[s]["sell"] = activity[s]["sell"],
         UNCHANGED told \/ \E a \in Answers \ {"submitted"} : told' = [told EXCEPT ![cur[t]] = a],
         \A i \in Intents : status'[i] # "none" => status[i] # "none"
  PROVE  NoNewWait /\ NooneElseChecked
<1>1. TypeOK
  BY DEF IInv
<1>2. NooneElseChecked
  BY <1>1, FinishChecks
<1>3. \A i \in Intents : told'[i] = "submitted" => told[i] = "submitted"
  BY <1>1 DEF TypeOK
<1> QED
  BY <1>1, <1>2, <1>3 DEF NoNewWait, TypeOK, EnvOK

\* RiskAllows: the check has just been made, on activities that are no older
\* than the acknowledged orders.
LEMMA AllowedKeeps ==
  ASSUME IInv, IInv', CooldownInv, NEW t \in Tasks, NEW i \in Intents, RiskAllows(t, i)
  PROVE  CooldownInv'
<1> USE DEF env
<1>0. /\ TypeOK /\ now \in Nat /\ now' = now
      /\ \A j \in Intents : created[j] \in Int
      /\ \A s \in Symbols, k \in Kinds : activity[s][k] \in Int
  BY DEF IInv, TypeOK, EnvOK, DurableOK, RiskAllows
<1>1. NoNewWait
  BY <1>0 DEF RiskAllows, CreateRecord, Write, NoNewWait, TypeOK, DurableOK
<1>2. ASSUME NEW j \in Intents, Acknowledged(j)'
      PROVE  /\ Acknowledged(j) /\ created'[j] = created[j] /\ meta'[j] = meta[j]
             /\ UNCHANGED activity
  BY <1>0, <1>2 DEF RiskAllows, CreateRecord, Acknowledged, IInv, RecordInv, TypeOK, DurableOK
<1>3. \A j \in Intents : status'[j] # "none" => 0 <= created'[j] /\ created'[j] <= now'
  BY <1>0, <1>1 DEF NoNewWait, CooldownInv
<1>4. \A j \in Intents : Acknowledged(j)' =>
        created'[j] <= activity'[meta'[j].symbol][meta'[j].side]
  BY <1>2 DEF CooldownInv
<1>5. ASSUME NEW u \in Tasks, pc'[u] \in {"preflight", "submitting"},
             req'[u].source = "auto", req'[u].side = "buy",
             NEW j \in Intents, Acknowledged(j)', meta'[j].symbol = req'[u].symbol
      PROVE  created'[j] + Wait(j)' <= now'
  <2>1. u = t
    BY <1>0, <1>5, OthersIdle DEF RiskAllows, Goto, TypeOK, TasksOK, LockedPcs
  <2>2. ~InCooldown(req[t]) /\ req'[t] = req[t]
    BY DEF RiskAllows
  <2>3. /\ meta[j].symbol = req[t].symbol /\ meta[j].side \in {"buy", "sell"}
        /\ meta[j].symbol \in Symbols /\ status[j] # "none"
    BY <1>2, <1>5, <2>1, <2>2, AcknowledgedExists
  <2> DEFINE a == activity[meta[j].symbol][meta[j].side]
  <2>4. created[j] <= a /\ 0 <= created[j] /\ created[j] \in Int /\ a \in Int
    BY <1>0, <1>2, <1>5, <2>3 DEF CooldownInv, Kinds
  <2>5. a # Never
    BY <2>4 DEF Never
  <2>6. ~Recent(a, Wait(j))
    BY <1>5, <2>1, <2>2, <2>3, <2>5 DEF InCooldown, Wait
  <2>7. Wait(j) \in Nat /\ Wait(j)' = Wait(j)
    BY <1>2, <1>5 DEF Wait
  <2> HIDE DEF a
  <2> QED
    BY <1>0, <1>2, <1>5, <2>4, <2>5, <2>6, <2>7 DEF Recent
<1> QED
  BY <1>3, <1>4, <1>5 DEF CooldownInv

\* Accepted: the activity of the order's side becomes now, and nobody else holds
\* the lock, so nobody is past the check.
LEMMA AcceptedKeeps ==
  ASSUME IInv, IInv', CooldownInv, NEW t \in Tasks, Accepted(t)
  PROVE  CooldownInv'
<1> USE DEF env, FinishWith
<1>0. /\ TypeOK /\ now \in Nat /\ now' = now /\ UNCHANGED <<meta, created>>
      /\ \A j \in Intents : created[j] \in Int
      /\ \A s \in Symbols, k \in Kinds : activity[s][k] \in Int
  BY DEF IInv, TypeOK, EnvOK, DurableOK, Accepted
<1>1. /\ cur[t] \in Intents /\ status[cur[t]] # "none" /\ meta[cur[t]] = req[t]
      /\ req[t] \in RequestType
  BY OwnRecord DEF Accepted, OwnPcs
<1>2. \A j \in Intents : status'[j] # "none" => status[j] # "none"
  BY <1>0, <1>1, WrittenExists DEF Accepted
<1>3. \A j \in Intents : status'[j] # "none" => 0 <= created'[j] /\ created'[j] <= now'
  BY <1>0, <1>2 DEF CooldownInv
<1>4. ASSUME NEW j \in Intents, Acknowledged(j)'
      PROVE  created'[j] <= activity'[meta'[j].symbol][meta'[j].side]
  <2>0. /\ status[j] # "none" /\ meta[j].symbol \in Symbols
        /\ meta[j].side \in {"buy", "sell"} /\ meta[j].source = "auto"
    BY <1>0, <1>1, <1>2, <1>4 DEF Acknowledged, IInv, RecordInv, RequestType
  <2>1. created[j] <= now
    BY <2>0 DEF CooldownInv
  <2>2. CASE j = cur[t]
    <3>1. activity' = Recorded(req[t].symbol, {"any", req[t].side}, now)
      BY <1>1, <2>0, <2>2 DEF Accepted
    <3>2. activity'[meta[j].symbol][meta[j].side] = now
      BY <1>0, <1>1, <2>0, <2>2, <3>1 DEF Recorded, TypeOK, DurableOK, Kinds
    <3> QED
      BY <1>0, <2>1, <3>2
  <2>3. CASE j # cur[t]
    <3>1. Acknowledged(j)
      BY <1>0, <1>4, <2>3 DEF Acknowledged, Accepted, TypeOK
    <3>2. created[j] <= activity[meta[j].symbol][meta[j].side]
      BY <3>1 DEF CooldownInv
    <3>3. \/ activity'[meta[j].symbol][meta[j].side] = now
          \/ activity'[meta[j].symbol][meta[j].side] = activity[meta[j].symbol][meta[j].side]
      BY <1>0, <1>1, <2>0 DEF Accepted, Recorded, TypeOK, DurableOK, Kinds
    <3> QED
      BY <1>0, <2>1, <3>2, <3>3
  <2> QED
    BY <2>2, <2>3
<1>5. \A u \in Tasks : pc'[u] \notin {"preflight", "submitting"}
  BY <1>0, OthersIdle DEF Accepted, Finish, TypeOK, TasksOK, LockedPcs
<1> QED
  BY <1>3, <1>4, <1>5 DEF CooldownInv

\* Every step of an order task keeps the cooldown invariant.
LEMMA TaskKeeps ==
  ASSUME IInv, IInv', CooldownInv, NEW t \in Tasks, TaskStep(t)
  PROVE  CooldownInv'
<1> USE DEF durable, env, FinishWith
<1>0. TypeOK /\ now \in Nat /\ now \in Int
  BY DEF IInv, TypeOK, EnvOK
<1>1. CASE RefuseDuplicate(t) \/ SnapshotFails(t) \/ SymbolBlocked(t)
  <2>1. NoNewWait /\ NooneElseChecked
    BY <1>0, <1>1, EndKeeps DEF RefuseDuplicate, SnapshotFails, SymbolBlocked
  <2> QED
    BY <2>1, NoNewWaitKeeps
<1>2. CASE PreflightRaises(t) \/ SubmitRaises(t) \/ RecoverGivesUp(t)
  <2>1. NoNewWait /\ NooneElseChecked
    BY <1>0, <1>2, EndKeeps DEF PreflightRaises, SubmitRaises, RecoverGivesUp, Answers
  <2> QED
    BY <2>1, NoNewWaitKeeps
<1>3. CASE \/ PreflightRefused(t) \/ GatesClosed(t) \/ NotSent(t) \/ AcceptedWithoutId(t)
           \/ Refused(t) \/ AmbiguousToss(t) \/ RecoverConfirmed(t)
  <2>1. cur[t] \in Intents /\ status[cur[t]] # "none"
    BY <1>3, OwnRecord DEF PreflightRefused, GatesClosed, NotSent, AcceptedWithoutId,
       Refused, AmbiguousToss, RecoverConfirmed, OwnPcs
  <2>2. \A i \in Intents : status'[i] # "none" => status[i] # "none"
    BY <1>0, <1>3, <2>1, WrittenExists DEF PreflightRefused, GatesClosed, NotSent,
       AcceptedWithoutId, Refused, AmbiguousToss, RecoverConfirmed
  <2>3. NoNewWait /\ NooneElseChecked
    BY <1>0, <1>3, <2>2, EndKeeps DEF PreflightRefused, GatesClosed, NotSent,
       AcceptedWithoutId, Refused, AmbiguousToss, RecoverConfirmed, Answers
  <2> QED
    BY <2>3, NoNewWaitKeeps
<1>4. CASE RecoverSubmitted(t)
  <2>1. /\ cur[t] \in Intents /\ status[cur[t]] # "none" /\ req[t].symbol \in Symbols
    BY <1>4, OwnRecord DEF RecoverSubmitted, OwnPcs, RequestType
  <2>2. \A i \in Intents : status'[i] # "none" => status[i] # "none"
    BY <1>0, <1>4, <2>1, WrittenExists DEF RecoverSubmitted
  <2>3. \A s \in Symbols : /\ activity'[s]["buy"] = activity[s]["buy"]
                           /\ activity'[s]["sell"] = activity[s]["sell"]
    BY <1>0, <1>4, <2>1, GeneralKeeps DEF RecoverSubmitted
  <2>4. NoNewWait /\ NooneElseChecked
    BY <1>0, <1>4, <2>2, <2>3, EndKeeps DEF RecoverSubmitted, Answers
  <2> QED
    BY <2>4, NoNewWaitKeeps
<1>5. CASE Enter(t) \/ RecoverMisses(t) \/ RecoverLooksUp(t) \/ Send(t)
  <2>1. NoNewWait
    BY <1>0, <1>5, QuietKeeps DEF Enter, RecoverMisses, RecoverLooksUp, Send
  <2>2. NooneElseChecked
    BY <1>0, <1>5 DEF Enter, RecoverMisses, RecoverLooksUp, Send, Goto, TypeOK,
       TasksOK, NooneElseChecked
  <2> QED
    BY <2>1, <2>2, NoNewWaitKeeps
<1>6. CASE BeginSubmit(t) \/ AmbiguousUpbit(t)
  <2>1. cur[t] \in Intents /\ status[cur[t]] # "none"
    BY <1>6, OwnRecord DEF BeginSubmit, AmbiguousUpbit, OwnPcs
  <2>2. NoNewWait
    BY <1>0, <1>6, <2>1, WrittenExists, QuietKeeps DEF BeginSubmit, AmbiguousUpbit
  <2>3. NooneElseChecked
    BY <1>0, <1>6 DEF BeginSubmit, AmbiguousUpbit, Goto, TypeOK, TasksOK,
       NooneElseChecked
  <2> QED
    BY <2>2, <2>3, NoNewWaitKeeps
<1>7. ASSUME NEW i \in Intents, RiskBlocks(t, i)
      PROVE  CooldownInv'
  <2>1. NooneElseChecked
    BY <1>0, <1>7, FinishChecks DEF RiskBlocks
  <2>2. NoNewWait
    BY <1>0, <1>7 DEF RiskBlocks, CreateRecord, Write, NoNewWait, TypeOK, DurableOK
  <2> QED
    BY <2>1, <2>2, NoNewWaitKeeps
<1>8. ASSUME NEW i \in Intents, RiskAllows(t, i)
      PROVE  CooldownInv'
  BY <1>0, <1>8, AllowedKeeps
<1>9. CASE Accepted(t)
  BY <1>0, <1>9, AcceptedKeeps
<1> QED
  BY <1>1, <1>2, <1>3, <1>4, <1>5, <1>6, <1>7, <1>8, <1>9 DEF TaskStep

\* The record a reconciler has an answer about exists.
LEMMA AnsweredExists ==
  ASSUME IInv, NEW r \in Reconcilers, rpc[r] \in {"asked", "searched"}
  PROVE  rcur[r] \in Intents /\ status[rcur[r]] # "none"
  BY DEF IInv, ReconcilerInv, RecordInv, Idle, Found

\* A process that dies passes no check.
LEMMA DeadChecks ==
  ASSUME Die
  PROVE  NooneElseChecked
  BY DEF Die, NooneElseChecked

\* So does every other step: the reconcilers record the general activity only.
LEMMA RestKeeps ==
  ASSUME IInv, IInv', CooldownInv, [Next]_vars, \A t \in Tasks : ~TaskStep(t)
  PROVE  CooldownInv'
<1> USE DEF durable, env, settings, tasks, recs
<1>0. TypeOK /\ now \in Nat
  BY DEF IInv, TypeOK, EnvOK
<1>1. ASSUME NEW t \in Tasks, NEW q \in Requests, Arrive(t, q)
      PROVE  CooldownInv'
  <2>1. NoNewWait
    BY <1>0, <1>1, QuietKeeps DEF Arrive
  <2>2. NooneElseChecked
    BY <1>0, <1>1 DEF Arrive, Goto, TypeOK, TasksOK, NooneElseChecked
  <2> QED
    BY <2>1, <2>2, NoNewWaitKeeps
<1>2. CASE \/ SettingsStep \/ Tick \/ UNCHANGED vars \/ \E i \in Intents : BrokerActs(i)
           \/ BootClean \/ BootRecovers \/ BootDone \/ Crash
           \/ \E r \in Reconcilers : ReconcileAll(r) \/ BatchRaises(r)
           \/ \E r \in Reconcilers, i \in Intents :
                ReconcileOne(r, i) \/ AskBroker(r, i) \/ LookupFails(r, i)
  <2>1. /\ now' \in {now, now + 1} /\ UNCHANGED <<meta, created, activity, told, status>>
        /\ UNCHANGED <<pc, req>> \/ Die
    BY <1>2 DEF SettingsStep, SetMode, SetKill, SettingsUnreadable, Tick, vars,
       BrokerActs, BrokerAccepts, BrokerRefuses, BrokerCloses, BrokerRejects,
       BrokerAmends, BrokerStep, BootClean, BootRecovers, BootDone, Crash, Die,
       ReconcileAll, BatchRaises, ReconcileOne, AskBroker, LookupFails
  <2>2. NoNewWait
    BY <1>0, <2>1, QuietKeeps
  <2>3. NooneElseChecked
    BY <2>1, DeadChecks DEF NooneElseChecked
  <2> QED
    BY <2>2, <2>3, NoNewWaitKeeps
<1>3. ASSUME NEW r \in Reconcilers, SearchFound(r) \/ Save(r) \/ CrashInSave(r)
      PROVE  CooldownInv'
  <2>1. rcur[r] \in Intents /\ status[rcur[r]] # "none"
    BY <1>3, AnsweredExists DEF SearchFound, Save, CrashInSave
  <2>2. meta[rcur[r]].symbol \in Symbols /\ created[rcur[r]] \in Int
    BY <1>0, <2>1 DEF IInv, RecordInv, RequestType, TypeOK, DurableOK
  <2>3. \A i \in Intents : status'[i] # "none" => status[i] # "none"
    BY <1>0, <1>3, <2>1, WrittenExists DEF SearchFound, Save, CrashInSave
  <2>4. \A s \in Symbols : /\ activity'[s]["buy"] = activity[s]["buy"]
                           /\ activity'[s]["sell"] = activity[s]["sell"]
    BY <1>0, <1>3, <2>2, GeneralKeeps DEF SearchFound, Save, CrashInSave
  <2>5. UNCHANGED <<meta, created, told, now>> /\ (UNCHANGED <<pc, req>> \/ Die)
    BY <1>3 DEF SearchFound, Save, CrashInSave, Die
  <2>6. NoNewWait
    BY <1>0, <2>3, <2>4, <2>5 DEF NoNewWait
  <2>7. NooneElseChecked
    BY <2>5, DeadChecks DEF NooneElseChecked
  <2> QED
    BY <2>6, <2>7, NoNewWaitKeeps
<1>4. ASSUME NEW t \in Tasks, NEW i \in Intents, CrashBetweenWrites(t, i)
      PROVE  CooldownInv'
  <2>1. Die /\ UNCHANGED <<told, now, activity>>
    BY <1>4 DEF CrashBetweenWrites, Die, CreateRecord
  <2>2. CASE pc[t] = "snapshot"
    <3>1. CreateRecord(t, i, "CREATED")
      BY <1>4, <2>2 DEF CrashBetweenWrites
    <3>2. NoNewWait
      BY <1>0, <2>1, <3>1 DEF CreateRecord, Write, NoNewWait, TypeOK, DurableOK
    <3> QED
      BY <2>1, <3>2, DeadChecks, NoNewWaitKeeps
  <2>3. CASE pc[t] \in {"preflight", "awaiting", "sawOpen"}
    <3>1. status[i] # "none" /\ i = cur[t]
      BY <1>4, <2>3, OwnRecord DEF CrashBetweenWrites, OwnPcs
    <3>2. UNCHANGED <<meta, created>> /\ \E s \in Statuses : Write(i, s)
      BY <1>4, <2>3 DEF CrashBetweenWrites, Statuses
    <3>3. NoNewWait
      BY <1>0, <2>1, <3>1, <3>2, WrittenExists, QuietKeeps
    <3> QED
      BY <2>1, <3>3, DeadChecks, NoNewWaitKeeps
  <2> QED
    BY <1>4, <2>2, <2>3 DEF CrashBetweenWrites
<1> QED
  BY <1>1, <1>2, <1>3, <1>4 DEF Next, ProcessStep, ReconcilerStep

\* What the cooldown check relies on is true in every reachable state.
THEOREM CooldownHolds == Spec => [](IInv /\ CooldownInv)
<1>1. Init => CooldownInv
  BY DEF Init, CooldownInv, Acknowledged
<1>2. IInv /\ IInv' /\ CooldownInv /\ [Next]_vars => CooldownInv'
  BY TaskKeeps, RestKeeps
<1> QED
  BY <1>1, <1>2, Invariant, PTL DEF Spec

\* Only Send puts an order on its way.
LEMMA OnlySendSends ==
  ASSUME TypeOK, [Next]_vars, NEW j \in Intents, broker[j] = "none", broker'[j] = "inflight"
  PROVE  \E t \in Tasks : Send(t) /\ j = cur[t]
<1>1. CASE UNCHANGED broker
  BY <1>1
<1>2. ASSUME NEW i \in Intents, BrokerActs(i)
      PROVE  FALSE
  BY <1>2 DEF BrokerActs, BrokerAccepts, BrokerRefuses, BrokerCloses, BrokerRejects,
     BrokerAmends, BrokerStep, TypeOK
<1>3. ASSUME NEW t \in Tasks, Send(t)
      PROVE  j = cur[t]
  BY <1>3 DEF Send, TypeOK
<1>4. ASSUME NEW t \in Tasks, TaskStep(t), ~Send(t)
      PROVE  UNCHANGED broker
  BY <1>4 DEF TaskStep, Enter, RefuseDuplicate, SnapshotFails, SymbolBlocked,
     RiskBlocks, RiskAllows, PreflightRefused, PreflightRaises, GatesClosed,
     BeginSubmit, NotSent, Accepted, AcceptedWithoutId, Refused, AmbiguousToss,
     AmbiguousUpbit, SubmitRaises, RecoverMisses, RecoverLooksUp, RecoverGivesUp,
     RecoverSubmitted, RecoverConfirmed
<1>5. ASSUME NEW r \in Reconcilers, ReconcilerStep(r)
      PROVE  UNCHANGED broker
  BY <1>5 DEF ReconcilerStep, ReconcileAll, ReconcileOne, AskBroker, LookupFails,
     BatchRaises, SearchFound, Save
<1>6. CASE SettingsStep \/ ProcessStep \/ Tick \/ UNCHANGED vars
           \/ \E t \in Tasks, q \in Requests : Arrive(t, q)
  BY <1>6, <1>1 DEF SettingsStep, SetMode, SetKill, SettingsUnreadable, ProcessStep,
     BootClean, BootRecovers, BootDone, Crash, CrashBetweenWrites, CrashInSave, Die,
     Tick, Arrive, vars
<1> QED
  BY <1>1, <1>2, <1>3, <1>4, <1>5, <1>6 DEF Next

\* After an automatic order whose acknowledgement was processed, no automatic buy
\* of that symbol is sent before the cooldown of the order's side is over
\* (_execute, auto_activity.record, RiskGuard._buy_cooldown_reason).
THEOREM CooldownKept == Spec => CooldownAfterAcknowledgement
<1> DEFINE NoneTooEarly ==
      \A i, j \in Intents :
         LET wait == IF meta[i].side = "buy" THEN BuyCooldown ELSE SellCooldown IN
         ( /\ broker'[j] = "inflight" /\ broker[j] = "none"
           /\ i # j /\ told[i] = "submitted"
           /\ meta[i].source = "auto" /\ meta[j].source = "auto"
           /\ meta[j].side = "buy" /\ meta[i].symbol = meta[j].symbol )
         => now - created[i] >= wait
<1>1. ASSUME IInv, CooldownInv, [Next]_vars
      PROVE  NoneTooEarly
  <2>1. SUFFICES ASSUME NEW i \in Intents, NEW j \in Intents,
                        broker'[j] = "inflight", broker[j] = "none",
                        told[i] = "submitted",
                        meta[i].source = "auto", meta[j].source = "auto",
                        meta[j].side = "buy", meta[i].symbol = meta[j].symbol
                 PROVE  now - created[i] >= Wait(i)
    BY DEF Wait
  <2>2. PICK t \in Tasks : Send(t) /\ j = cur[t]
    BY <1>1, <2>1, OnlySendSends DEF IInv
  <2>3. pc[t] = "submitting" /\ meta[j] = req[t]
    BY <1>1, <2>2, OwnRecord DEF Send, OwnPcs
  <2>4. created[i] + Wait(i) <= now
    BY <1>1, <2>1, <2>3 DEF CooldownInv, Acknowledged
  <2>5. now \in Int /\ created[i] \in Int /\ Wait(i) \in Int
    BY <1>1 DEF IInv, TypeOK, EnvOK, DurableOK, Wait
  <2> QED
    BY <2>4, <2>5
<1>2. (IInv /\ CooldownInv /\ [Next]_vars) => [NoneTooEarly]_vars
  BY <1>1
<1> QED
  BY <1>2, CooldownHolds, PTL DEF Spec, CooldownAfterAcknowledgement
=============================================================================
