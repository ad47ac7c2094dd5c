----------------------- MODULE BackupSchedulerProofs ------------------------
(***************************************************************************)
(* Proofs about BackupScheduler, for every number of databases, workers,   *)
(* handlers and entries and for both forms of the schedule.                *)
(***************************************************************************)
EXTENDS BackupScheduler, TLAPS

(* The steps that touch neither the controller nor the batch nor the       *)
(* workers: time, the arrival of requests and most of their handling.      *)
coreVars == <<ctlVars, pc, source, batch, jobs, wpc, wdb, linked>>

Touching ==
  \/ Snapshot \/ Drain \/ Released \/ (\E d \in Databases : ReleaseClaim(d))
  \/ StartNow \/ LieDown \/ WakeForRequest \/ WakeForCycle
  \/ AcquireGate \/ CycleOn \/ RegisterCards \/ (\E d \in Databases : ClaimNext(d))
  \/ StartBatch \/ EndBatch \/ CycleOff \/ DropGate
  \/ \E w \in Workers : Worker(w)
  \/ \E h \in Handlers : AskForBackup(h) \/ CancelBackup(h)

LEMMA CoreSteps ==
  [Next]_vars => Touching \/ UNCHANGED coreVars
<1> SUFFICES ASSUME [Next]_vars PROVE Touching \/ UNCHANGED coreVars
  OBVIOUS
<1>1. CASE Scheduler
  BY <1>1 DEF Scheduler, Touching, NextSlice, coreVars, ctlVars, batchVars, workVars
<1>2. CASE Elapse
  BY <1>2 DEF Elapse, coreVars, ctlVars, batchVars, workVars
<1>3. CASE \E w \in Workers : Worker(w)
  BY <1>3 DEF Touching
<1>4. CASE \E h \in Handlers : Arrive(h)
  BY <1>4 DEF Arrive, ReceiveBackup, ReceiveCancel, ReceiveToggle, ReceiveCreate,
    ReceiveUpdate, ReceiveDelete, ReceiveRoute, ReceiveImport, Receive, coreVars, ctlVars, batchVars, workVars
<1>5. ASSUME NEW h \in Handlers, Handle(h) PROVE Touching \/ UNCHANGED coreVars
  BY <1>5 DEF Handle, Touching, SetEnabled, WriteCard, CheckCycle, CheckQueued, TryGate, GateFree,
    AddEntry, ChangeEntry, Publish, RegistryRefuses, UpdateCards, SwapClient, StoreRoute, ImportEntries, Rewire, LeaveGate,
    coreVars, ctlVars, batchVars, workVars
<1>6. CASE UNCHANGED vars
  BY <1>6 DEF vars, coreVars, ctlVars, batchVars, workVars
<1>. QED BY <1>1, <1>2, <1>3, <1>4, <1>5, <1>6 DEF Next

(* Every step keeps the type invariant; a handler's step needs to know     *)
(* that a request that is about a database names one.                      *)
LEMMA TypeStep ==
  IInv /\ [Next]_vars => TypeOK'
<1> SUFFICES ASSUME IInv, [Next]_vars PROVE TypeOK'
  OBVIOUS
<1> USE SchedulerAssumption DEF IInv, TypeOK, CtlTypeOK, ClaimState, SchedulerPc, WorkerPc
<1> USE DEF HandlerPc, MaybeDatabase, ctlVars, regVars, gateVars, batchVars, timeVars, workVars, webVars
<1>1. CASE Scheduler
  <2>1. CASE Snapshot
    BY <2>1 DEF Snapshot, Configured, NamesOf
  <2>2. CASE Drain
    BY <2>2 DEF Drain, TakePending, Waiting
  <2>3. CASE Released
    BY <2>3 DEF Released
  <2>4. CASE StartNow
    BY <2>4 DEF StartNow
  <2>5. CASE LieDown
    BY <2>5 DEF LieDown, Waiting
  <2>6. CASE WakeForRequest
    BY <2>6 DEF WakeForRequest, Waiting
  <2>7. CASE WakeForCycle
    BY <2>7 DEF WakeForCycle, CycleDue, Waiting
  <2>8. CASE NextSlice
    BY <2>8 DEF NextSlice, Waiting
  <2>9. CASE AcquireGate
    BY <2>9 DEF AcquireGate
  <2>10. CASE CycleOn
    BY <2>10 DEF CycleOn
  <2>11. CASE RegisterCards
    BY <2>11 DEF RegisterCards, Configured, NamesOf
  <2>12. CASE StartBatch
    BY <2>12 DEF StartBatch
  <2>13. CASE EndBatch
    BY <2>13 DEF EndBatch, BatchOver
  <2>14. CASE CycleOff
    BY <2>14 DEF CycleOff
  <2>15. CASE DropGate
    BY <2>15 DEF DropGate
  <2>16. ASSUME NEW d \in Databases, ReleaseClaim(d) PROVE TypeOK'
    BY <2>16 DEF ReleaseClaim, Finish
  <2>17. ASSUME NEW d \in Databases, ClaimNext(d) PROVE TypeOK'
    BY <2>17 DEF ClaimNext, TakeSlot, ClaimScheduled, CanClaim
  <2>. QED
    BY <1>1, <2>1, <2>2, <2>3, <2>4, <2>5, <2>6, <2>7, <2>8, <2>9, <2>10, <2>11, <2>12, <2>13, <2>14,
     <2>15, <2>16, <2>17 DEF Scheduler
<1>2. CASE Elapse
  BY <1>2 DEF Elapse
<1>3. ASSUME NEW w \in Workers, Worker(w) PROVE TypeOK'
  <2>1. ASSUME NEW d \in Databases, TakeIndex(w, d) PROVE TypeOK'
    BY <2>1 DEF TakeIndex, HasIndex
  <2>2. CASE StartPipeline(w)
    BY <2>2 DEF StartPipeline, SchedulerInv, Busy
  <2>3. CASE EndPipeline(w)
    BY <2>3 DEF EndPipeline, SchedulerInv, Busy
  <2>4. CASE FinishIndex(w)
    BY <2>4 DEF FinishIndex, Release, Finish, SchedulerInv, Busy
  <2>. QED BY <1>3, <2>1, <2>2, <2>3, <2>4 DEF Worker
<1>4. ASSUME NEW h \in Handlers, Arrive(h) PROVE TypeOK'
  BY <1>4 DEF Arrive, ReceiveBackup, ReceiveCancel, ReceiveToggle, ReceiveCreate,
    ReceiveUpdate, ReceiveDelete, ReceiveRoute, ReceiveImport, Receive
<1>5. ASSUME NEW h \in Handlers, Handle(h) PROVE TypeOK'
  <2>1. CASE AskForBackup(h)
    <3>1. hdb[h] \in Databases
      BY <2>1 DEF AskForBackup, HandlerInv
    <3>2. wakeup' \in BOOLEAN
      BY <2>1 DEF AskForBackup, Notified
    <3>3. CASE Accepts(hdb[h])
      BY <2>1, <3>1, <3>2, <3>3 DEF AskForBackup, Request, Goto
    <3>4. CASE ~Accepts(hdb[h])
      BY <2>1, <3>1, <3>2, <3>4 DEF AskForBackup, Request, Return
    <3>. QED BY <3>3, <3>4
  <2>2. CASE CancelBackup(h)
    <3>1. hdb[h] \in Databases
      BY <2>2 DEF CancelBackup, HandlerInv
    <3>2. wakeup' \in BOOLEAN
      BY <2>2 DEF CancelBackup, Notified
    <3>3. CASE CancelQueued(hdb[h])
      BY <2>2, <3>1, <3>2, <3>3 DEF CancelBackup, CancelQueued, CancelActive,
        CancelNothing, Goto
    <3>4. CASE ~CancelQueued(hdb[h])
      BY <2>2, <3>1, <3>2, <3>4 DEF CancelBackup, CancelActive, CancelNothing, Return
    <3>. QED BY <3>3, <3>4
  <2>3. CASE SetEnabled(h)
    BY <2>3 DEF SetEnabled, Goto, Return, HandlerInv
  <2>4. CASE WriteCard(h)
    BY <2>4 DEF WriteCard, Return, HandlerInv
  <2>5. CASE CheckCycle(h)
    BY <2>5 DEF CheckCycle, Goto, Return, HandlerInv
  <2>6. CASE CheckQueued(h)
    BY <2>6 DEF CheckQueued, Goto, Return, CanCancel, HandlerInv
  <2>7. CASE TryGate(h)
    <3>1. CASE gate
      BY <2>7, <3>1 DEF TryGate, GateFree, Return
    <3>2. CASE ~gate
      <4>1. /\ gate' = TRUE
            /\ \E p \in {"reroute", "registry", "import"} : hpc' = [hpc EXCEPT ![h] = p]
            /\ UNCHANGED <<hid, hdb, hto>>
        BY <2>7, <3>2, Zenon DEF TryGate, GateFree, Goto
      <4>. QED BY <2>7, <4>1 DEF TryGate, GateFree
    <3>. QED BY <3>1, <3>2
  <2>8. CASE AddEntry(h)
    BY <2>8 DEF AddEntry, Publish, Goto, ForRoute, HandlerInv
  <2>9. CASE ChangeEntry(h)
    BY <2>9 DEF ChangeEntry, Publish, Goto, HandlerInv
  <2>10. CASE RegistryRefuses(h)
    BY <2>10 DEF RegistryRefuses, Goto, HandlerInv
  <2>11. CASE UpdateCards(h)
    BY <2>11 DEF UpdateCards, Goto, HandlerInv
  <2>12. CASE SwapClient(h)
    BY <2>12 DEF Clients, SwapClient, Goto, HandlerInv
  <2>13. CASE StoreRoute(h)
    BY <2>13 DEF Clients, StoreRoute, Goto, HandlerInv
  <2>14. CASE LeaveGate(h)
    BY <2>14 DEF LeaveGate, Return, HandlerInv
  <2>15. CASE ImportEntries(h) \/ Rewire(h)
    BY <2>15 DEF ImportEntries, Rewire, Clients, Goto
  <2>. QED BY <1>5, <2>1, <2>2, <2>3, <2>4, <2>5, <2>6, <2>7, <2>8, <2>9, <2>10, <2>11, <2>12, <2>13, <2>14,
    <2>15 DEF Handle
<1>6. CASE UNCHANGED vars
  BY <1>6 DEF vars
<1>. QED BY <1>1, <1>2, <1>3, <1>4, <1>5, <1>6 DEF Next

(* What a handler's next step reads survives its own moves.                *)
LEMMA ReturnKeeps ==
  ASSUME TypeOK, HandlerInv, NEW h \in Handlers, Return(h)
  PROVE  HandlerInv'
<1> USE SchedulerAssumption DEF TypeOK, HandlerInv, ForRoute, Return
<1>1. SUFFICES ASSUME NEW g \in Handlers
               PROVE  /\ hpc'[g] \in {"backup", "cancel", "toggle", "card", "queued?"} => hdb'[g] \in Databases
                      /\ hid'[g] = NoDatabase => hto'[g] # "gone"
                      /\ hpc'[g] = "registry" => ~ForRoute(g)'
  BY DEF HandlerInv
<1>2. CASE g = h
  BY <1>2
<1>3. CASE g # h
  BY <1>3
<1>. QED BY <1>2, <1>3

LEMMA GotoKeeps ==
  ASSUME TypeOK, HandlerInv, NEW h \in Handlers, NEW p, Goto(h, p), UNCHANGED <<hid, hdb, hto>>,
         p \in {"backup", "cancel", "toggle", "card", "queued?"} => hdb[h] \in Databases,
         p = "registry" => ~ForRoute(h)
  PROVE  HandlerInv'
BY DEF TypeOK, HandlerInv, ForRoute, Goto

LEMMA ReceiveKeeps ==
  ASSUME TypeOK, HandlerInv, NEW h \in Handlers, NEW op, NEW p, NEW i, NEW d, NEW e,
         Receive(h, op, p, i, d, e),
         p \in {"backup", "cancel", "toggle", "card", "queued?"} => d \in Databases,
         i = NoDatabase => e # "gone",
         p # "registry"
  PROVE  HandlerInv'
BY DEF TypeOK, HandlerInv, ForRoute, Receive

(* A handler has the entry and the names its next step reads.              *)
LEMMA HandlerStep ==
  IInv /\ [Next]_vars => HandlerInv'
<1> SUFFICES ASSUME IInv, [Next]_vars PROVE HandlerInv'
  OBVIOUS
<1> USE DEF IInv
<1>1. CASE UNCHANGED webVars
  BY <1>1 DEF HandlerInv, ForRoute, webVars
<1>2. ASSUME NEW h \in Handlers, Arrive(h) PROVE HandlerInv'
  <2> USE SchedulerAssumption DEF TypeOK
  <2>1. ASSUME NEW d \in Databases, ReceiveBackup(h, d) \/ ReceiveCancel(h, d) \/ ReceiveToggle(h, d)
        PROVE HandlerInv'
    BY <2>1, ReceiveKeeps DEF ReceiveBackup, ReceiveCancel, ReceiveToggle
  <2>2. ASSUME NEW e \in Managed, ReceiveCreate(h, e) PROVE HandlerInv'
    BY <2>2, ReceiveKeeps DEF ReceiveCreate
  <2>3. ASSUME NEW i \in Entries, NEW e \in Managed \union {NoDatabase}, ReceiveUpdate(h, i, e)
        PROVE HandlerInv'
    BY <2>3, ReceiveKeeps DEF ReceiveUpdate
  <2>4. ASSUME NEW i \in Entries, ReceiveDelete(h, i) PROVE HandlerInv'
    BY <2>4, ReceiveKeeps DEF ReceiveDelete
  <2>5. CASE ReceiveRoute(h) \/ ReceiveImport(h)
    BY <2>5, ReceiveKeeps DEF ReceiveRoute, ReceiveImport
  <2>. QED BY <1>2, <2>1, <2>2, <2>3, <2>4, <2>5 DEF Arrive
<1>3. ASSUME NEW h \in Handlers, Handle(h) PROVE HandlerInv'
  <2>1. CASE AskForBackup(h)
    BY <2>1, ReturnKeeps, GotoKeeps DEF AskForBackup, HandlerInv
  <2>2. CASE CancelBackup(h)
    BY <2>2, ReturnKeeps, GotoKeeps DEF CancelBackup, HandlerInv
  <2>3. CASE SetEnabled(h)
    BY <2>3, ReturnKeeps, GotoKeeps DEF SetEnabled, HandlerInv
  <2>4. CASE WriteCard(h)
    BY <2>4, ReturnKeeps DEF WriteCard
  <2>5. CASE CheckCycle(h) \/ CheckQueued(h)
    BY <2>5, ReturnKeeps, GotoKeeps DEF CheckCycle, CheckQueued, TypeOK, MaybeDatabase
  <2>6. CASE TryGate(h)
    BY <2>6, ReturnKeeps, GotoKeeps DEF TryGate, GateFree
  <2>7. CASE \/ AddEntry(h) \/ RegistryRefuses(h) \/ UpdateCards(h)
             \/ SwapClient(h) \/ StoreRoute(h) \/ ImportEntries(h) \/ Rewire(h)
    BY <2>7, GotoKeeps DEF AddEntry, Publish, RegistryRefuses, UpdateCards, SwapClient, StoreRoute,
      ImportEntries, Rewire
  <2>8. CASE ChangeEntry(h)
    BY <2>8 DEF ChangeEntry, Publish, Goto, HandlerInv, ForRoute, TypeOK
  <2>9. CASE LeaveGate(h)
    BY <2>9, ReturnKeeps DEF LeaveGate
  <2>. QED BY <1>3, <2>1, <2>2, <2>3, <2>4, <2>5, <2>6, <2>7, <2>8, <2>9 DEF Handle
<1>4. CASE Scheduler \/ Elapse \/ \E w \in Workers : Worker(w)
  BY <1>1, <1>4 DEF Scheduler, Elapse, Worker, Snapshot, Drain, Released, ReleaseClaim, StartNow,
    LieDown, WakeForRequest, WakeForCycle, CycleDue, NextSlice, AcquireGate, CycleOn, RegisterCards,
    ClaimNext, StartBatch, EndBatch, CycleOff, DropGate, TakeIndex, StartPipeline,
    EndPipeline, FinishIndex, Release
<1>5. CASE UNCHANGED vars
  BY <1>1, <1>5 DEF vars
<1>. QED BY <1>2, <1>3, <1>4, <1>5 DEF Next

(* Whoever takes the gate finds it free, and whoever gives it back had it. *)
LEMMA GateStep ==
  IInv /\ [Next]_vars => GateExclusive'
<1> SUFFICES ASSUME IInv, [Next]_vars PROVE GateExclusive'
  OBVIOUS
<1> USE DEF IInv, GateExclusive, SchedulerHoldsGate, HoldsGate
<1>1. ASSUME UNCHANGED gate, SchedulerHoldsGate' <=> SchedulerHoldsGate,
             \A h \in Handlers : HoldsGate(h)' <=> HoldsGate(h)
      PROVE  GateExclusive'
  BY <1>1
<1>2. CASE Scheduler
  <2>1. CASE AcquireGate
    BY <2>1 DEF AcquireGate, webVars
  <2>2. CASE DropGate
    BY <2>2 DEF DropGate, webVars
  <2>3. CASE gate' = gate /\ (SchedulerHoldsGate' <=> SchedulerHoldsGate) /\ hpc' = hpc
    BY <2>3
  <2>. QED
    BY <1>2, <2>1, <2>2, <2>3 DEF Scheduler, Snapshot, Drain, Released, ReleaseClaim, StartNow,
      LieDown, WakeForRequest, WakeForCycle, CycleDue, NextSlice, CycleOn, RegisterCards, ClaimNext,
      StartBatch, EndBatch, CycleOff, gateVars, webVars
<1>3. CASE Elapse \/ \E w \in Workers : Worker(w)
  BY <1>3 DEF Elapse, Worker, TakeIndex, HasIndex, StartPipeline, EndPipeline, FinishIndex, Release, gateVars, webVars
<1>4. ASSUME NEW h \in Handlers, Arrive(h) PROVE GateExclusive'
  BY <1>4 DEF Arrive, ReceiveBackup, ReceiveCancel, ReceiveToggle, ReceiveCreate,
    ReceiveUpdate, ReceiveDelete, ReceiveRoute, ReceiveImport, Receive, TypeOK, gateVars
<1>5. ASSUME NEW h \in Handlers, Handle(h) PROVE GateExclusive'
  <2> USE DEF TypeOK
  <2>1. CASE AskForBackup(h) \/ CancelBackup(h)
    <3>1. /\ hpc[h] \in {"backup", "cancel"}
          /\ gate' = gate /\ pc' = pc
          /\ \E p \in {"card", "idle"} : hpc' = [hpc EXCEPT ![h] = p]
      BY <2>1, Zenon DEF AskForBackup, CancelBackup, Goto, Return, gateVars
    <3>. QED BY <3>1
  <2>2. CASE SetEnabled(h) \/ WriteCard(h) \/ CheckCycle(h) \/ CheckQueued(h)
    BY <2>2 DEF SetEnabled, WriteCard, CheckCycle, CheckQueued, Goto, Return, gateVars
  <2>3. CASE TryGate(h)
    BY <2>3 DEF TryGate, GateFree, Goto, Return
  <2>4. CASE AddEntry(h) \/ ChangeEntry(h) \/ RegistryRefuses(h) \/ UpdateCards(h)
    BY <2>4 DEF AddEntry, ChangeEntry, Publish, RegistryRefuses, UpdateCards, Goto, gateVars
  <2>5. CASE SwapClient(h) \/ StoreRoute(h) \/ ImportEntries(h) \/ Rewire(h)
    BY <2>5 DEF SwapClient, StoreRoute, ImportEntries, Rewire, Goto, gateVars
  <2>6. CASE LeaveGate(h)
    BY <2>6 DEF LeaveGate, Return
  <2>. QED BY <1>5, <2>1, <2>2, <2>3, <2>4, <2>5, <2>6 DEF Handle
<1>6. CASE UNCHANGED vars
  BY <1>6 DEF vars, gateVars, webVars
<1>. QED BY <1>2, <1>3, <1>4, <1>5, <1>6 DEF Next

(* The deque and the set change together, and a name enters neither while  *)
(* it is active.                                                           *)
LEMMA QueueStep ==
  IInv /\ [Next]_vars => QueueConsistent'
<1> SUFFICES ASSUME IInv, [Next]_vars PROVE QueueConsistent'
  OBVIOUS
<1> USE DEF IInv, TypeOK, CtlTypeOK, QueueConsistent, ctlVars
<1>1. ASSUME NEW d \in Databases, Request(d) PROVE QueueConsistent'
  BY <1>1 DEF Request, Accepts
<1>2. CASE TakePending
  BY <1>2 DEF TakePending, Waiting
<1>3. ASSUME NEW d \in Databases, ClaimScheduled(d) PROVE QueueConsistent'
  BY <1>3 DEF ClaimScheduled, CanClaim
<1>4. ASSUME NEW d \in Databases, CancelQueued(d) \/ CancelActive(d) PROVE QueueConsistent'
  BY <1>4 DEF CancelQueued, CancelActive
<1>5. ASSUME NEW d \in Databases, Finish(d) PROVE QueueConsistent'
  BY <1>5 DEF Finish
<1>6. CASE UNCHANGED ctlVars
  BY <1>6
<1>7. CASE Touching
  <2>1. ASSUME NEW w \in Workers, Worker(w) PROVE QueueConsistent'
    BY <2>1, <1>5, <1>6 DEF Worker, TakeIndex, HasIndex, StartPipeline, EndPipeline, FinishIndex, Release,
      SchedulerInv, Busy
  <2>2. ASSUME NEW h \in Handlers, AskForBackup(h) \/ CancelBackup(h) PROVE QueueConsistent'
    <3>1. hdb[h] \in Databases
      BY <2>2 DEF AskForBackup, CancelBackup, HandlerInv
    <3>. QED BY <2>2, <3>1, <1>1, <1>4, <1>6 DEF AskForBackup, CancelBackup, CancelNothing
  <2>. QED
    BY <1>7, <2>1, <2>2, <1>2, <1>3, <1>5, <1>6 DEF Touching, Snapshot, Drain, Released,
      ReleaseClaim, StartNow, LieDown, WakeForRequest, WakeForCycle, CycleDue, AcquireGate, CycleOn,
      RegisterCards, ClaimNext, TakeSlot, StartBatch, EndBatch, CycleOff, DropGate
<1>. QED BY <1>6, <1>7, CoreSteps DEF coreVars

(* Claims, indices and pipelines.                                          *)
CoreInv == NoOverlap /\ PipelineHoldsClaim /\ NoLeakedClaim /\ SchedulerInv

(* The invariants about claims hold each other up: a drained batch starts  *)
(* with no claim left of the one before (NoLeakedClaim and SchedulerInv),  *)
(* an index is added only with its claim (NoOverlap), and only its own     *)
(* worker, or the end of its batch, finishes it (PipelineHoldsClaim).      *)
LEMMA CoreStep ==
  IInv /\ [Next]_vars => CoreInv'
<1> SUFFICES ASSUME IInv, [Next]_vars PROVE CoreInv'
  OBVIOUS
<1> USE DEF IInv, TypeOK, CtlTypeOK, ClaimState, SchedulerPc, WorkerPc,
  MaybeDatabase, QueueConsistent, NoOverlap, PipelineHoldsClaim, NoLeakedClaim,
  SchedulerInv, CoreInv, Active, Busy
<1> USE SchedulerAssumption DEF ctlVars, batchVars, workVars
<1>1. CASE Snapshot
  BY <1>1 DEF Snapshot
<1>2. CASE Drain
  BY <1>2 DEF Drain, TakePending, Waiting
<1>3. CASE Released
  BY <1>3 DEF Released
<1>4. CASE StartNow
  BY <1>4 DEF StartNow
<1>5. CASE LieDown
  BY <1>5 DEF LieDown
<1>6. CASE WakeForRequest
  BY <1>6 DEF WakeForRequest
<1>7. CASE WakeForCycle
  BY <1>7 DEF WakeForCycle
<1>8. CASE AcquireGate
  BY <1>8 DEF AcquireGate
<1>9. CASE CycleOn
  <2>1. CASE source = "manual"
    BY <1>9, <2>1 DEF CycleOn
  <2>2. CASE source = "scheduled"
    BY <1>9, <2>2 DEF CycleOn
  <2>. QED BY <2>1, <2>2
<1>10. CASE RegisterCards
  BY <1>10 DEF RegisterCards
<1>11. CASE StartBatch
  BY <1>11 DEF StartBatch
<1>12. CASE EndBatch
  BY <1>12 DEF EndBatch, BatchOver
<1>13. CASE CycleOff
  BY <1>13 DEF CycleOff
<1>14. CASE DropGate
  BY <1>14 DEF DropGate
<1>15. ASSUME NEW d \in Databases, ReleaseClaim(d) PROVE CoreInv'
  BY <1>15 DEF ReleaseClaim, Finish
<1>16. ASSUME NEW d \in Databases, ClaimNext(d) PROVE CoreInv'
  BY <1>16 DEF ClaimNext, TakeSlot, ClaimScheduled, CanClaim
<1>17. ASSUME NEW w \in Workers, NEW d \in Databases, TakeIndex(w, d) PROVE CoreInv'
  BY <1>17 DEF TakeIndex, HasIndex
<1>18. ASSUME NEW w \in Workers, StartPipeline(w) PROVE CoreInv'
  <2>1. wpc[w] = "indexed"
    BY <1>18, Zenon DEF StartPipeline
  <2>2. active[wdb[w]] # "absent"
    BY <2>1
  <2>3. linked' = [linked EXCEPT ![w] = TRUE]
    BY <1>18, <2>2, Zenon DEF StartPipeline
  <2>. QED BY <1>18, <2>2, <2>3 DEF StartPipeline
<1>19. ASSUME NEW w \in Workers, EndPipeline(w) PROVE CoreInv'
  BY <1>19 DEF EndPipeline
<1>20. ASSUME NEW w \in Workers, FinishIndex(w) PROVE CoreInv'
  BY <1>20 DEF FinishIndex, Release, Finish
<1>21. ASSUME NEW h \in Handlers, AskForBackup(h) \/ CancelBackup(h) PROVE CoreInv'
  BY <1>21 DEF AskForBackup, CancelBackup, CancelNothing, CancelQueued,
    CancelActive, Request, Accepts, HandlerInv
<1>22. CASE UNCHANGED coreVars
  BY <1>22 DEF coreVars
<1>. QED BY <1>1, <1>2, <1>3, <1>4, <1>5, <1>6, <1>7, <1>8, <1>9, <1>10, <1>11,
  <1>12, <1>13, <1>14, <1>15, <1>16, <1>17, <1>18, <1>19, <1>20, <1>21, <1>22, CoreSteps DEF Touching, Worker

LEMMA InitIInv ==
  Init => IInv
<1> SUFFICES ASSUME Init PROVE IInv
  OBVIOUS
<1> USE SchedulerAssumption DEF Init, CtlInit
<1>1. TypeOK
  BY DEF TypeOK, CtlTypeOK, ClaimState, Clients, SchedulerPc, WorkerPc, HandlerPc, MaybeDatabase,
    Configured, NamesOf
<1>2. QueueConsistent /\ GateExclusive /\ HandlerInv
  BY DEF QueueConsistent, GateExclusive, SchedulerHoldsGate, HoldsGate, HandlerInv
<1>3. NoOverlap /\ PipelineHoldsClaim /\ NoLeakedClaim /\ SchedulerInv
  BY DEF NoOverlap, PipelineHoldsClaim, NoLeakedClaim, SchedulerInv, Active, Busy
<1>. QED BY <1>1, <1>2, <1>3 DEF IInv

(* Every reachable state satisfies the inductive invariant.                *)
THEOREM InvariantHolds ==
  Spec => []IInv
<1>1. IInv /\ [Next]_vars => IInv'
  BY TypeStep, HandlerStep, GateStep, QueueStep, CoreStep DEF IInv, CoreInv
<1>. QED BY <1>1, InitIInv, PTL DEF Spec

(* Type correctness.                                                       *)
THEOREM TypeCorrect ==
  Spec => []TypeOK
<1>1. IInv => TypeOK
  BY DEF IInv
<1>. QED BY <1>1, InvariantHolds, PTL

(* The queue and the set of queued names agree, and no name is both queued *)
(* and active, whatever the interleaving of handlers and scheduler.        *)
THEOREM QueueCorrect ==
  Spec => []QueueConsistent
<1>1. IInv => QueueConsistent
  BY DEF IInv
<1>. QED BY <1>1, InvariantHolds, PTL

(* The route gate excludes the scheduler's batches and the handlers that   *)
(* change the registry or the route from each other.                       *)
THEOREM GateCorrect ==
  Spec => []GateExclusive
<1>1. IInv => GateExclusive
  BY DEF IInv
<1>. QED BY <1>1, InvariantHolds, PTL

(* No database is ever backed up twice at the same time, for any number of *)
(* databases, workers and handlers.                                        *)
THEOREM NeverTwice ==
  Spec => []NoOverlap
<1>1. IInv => NoOverlap
  BY DEF IInv
<1>. QED BY <1>1, InvariantHolds, PTL

(* A cancellation reaches the pipeline: while there is one its claim and   *)
(* its token are in the controller's map, and are its own.                 *)
THEOREM CancelReaches ==
  Spec => []PipelineHoldsClaim
<1>1. IInv => PipelineHoldsClaim
  BY DEF IInv
<1>. QED BY <1>1, InvariantHolds, PTL

(* No claim outlives the batch it was taken for.                           *)
THEOREM ClaimsReturned ==
  Spec => []NoLeakedClaim
<1>1. IInv => NoLeakedClaim
  BY DEF IInv
<1>. QED BY <1>1, InvariantHolds, PTL

(* Only a handler that owns the gate replaces the client or changes the    *)
(* registry.                                                               *)
LEMMA ChangeUnderGate ==
  ASSUME IInv, [Next]_vars, route' # route \/ entry' # entry \/ published' # published
  PROVE  \E h \in Handlers : HoldsGate(h)
<1> DEFINE Kept == UNCHANGED <<route, entry, published>>
<1>1. CASE Scheduler \/ Elapse \/ \E w \in Workers : Worker(w)
  <2>1. Kept
    BY <1>1 DEF Scheduler, Elapse, Worker, Snapshot, Drain, Released, ReleaseClaim, StartNow,
      LieDown, WakeForRequest, WakeForCycle, NextSlice, AcquireGate, CycleOn, RegisterCards,
      ClaimNext, StartBatch, EndBatch, CycleOff, DropGate, TakeIndex, StartPipeline,
      EndPipeline, FinishIndex, gateVars, regVars
  <2>. QED BY <2>1
<1>2. ASSUME NEW h \in Handlers, Arrive(h) PROVE Kept
  BY <1>2 DEF Arrive, ReceiveBackup, ReceiveCancel, ReceiveToggle, ReceiveCreate, ReceiveUpdate,
    ReceiveDelete, ReceiveRoute, ReceiveImport, Receive, gateVars, regVars
<1>3. ASSUME NEW h \in Handlers, Handle(h) PROVE Kept \/ HoldsGate(h)
  <2>1. CASE \/ AddEntry(h) \/ ChangeEntry(h) \/ SwapClient(h) \/ StoreRoute(h)
             \/ ImportEntries(h) \/ Rewire(h)
    BY <2>1, Zenon DEF AddEntry, ChangeEntry, SwapClient, StoreRoute, ImportEntries, Rewire, HoldsGate
  <2>2. CASE \/ AskForBackup(h) \/ CancelBackup(h) \/ SetEnabled(h) \/ WriteCard(h)
             \/ CheckCycle(h) \/ CheckQueued(h) \/ TryGate(h)
             \/ RegistryRefuses(h) \/ UpdateCards(h) \/ LeaveGate(h)
    BY <2>2 DEF AskForBackup, CancelBackup, SetEnabled, WriteCard, CheckCycle, CheckQueued,
      TryGate, RegistryRefuses, UpdateCards, LeaveGate, gateVars, regVars
  <2>. QED BY <1>3, <2>1, <2>2 DEF Handle
<1>4. CASE UNCHANGED vars
  BY <1>4 DEF vars, gateVars, regVars
<1>. QED BY <1>1, <1>2, <1>3, <1>4 DEF Next

(* The chunks of one backup all go through the same client: a worker is    *)
(* busy only while the scheduler owns the gate.                            *)
THEOREM RouteStable ==
  Spec => OneRoutePerBackup
<1>1. IInv /\ [Next]_vars => [(\E w \in Workers : Busy(w)) => route' = route]_vars
  BY ChangeUnderGate DEF IInv, SchedulerInv, GateExclusive, SchedulerHoldsGate
<1>. QED BY <1>1, InvariantHolds, PTL DEF Spec, OneRoutePerBackup

(* The registry does not change under a batch.                             *)
THEOREM RegistryStable ==
  Spec => RegistryStillDuringBatch
<1>1. IInv /\ [Next]_vars => [SchedulerHoldsGate => UNCHANGED <<entry, published>>]_vars
  BY ChangeUnderGate DEF IInv, GateExclusive
<1>. QED BY <1>1, InvariantHolds, PTL DEF Spec, RegistryStillDuringBatch

(* A step of the scheduler moves no handler, and one of a handler does not *)
(* move the scheduler.                                                     *)
LEMMA OneMoves ==
  ASSUME [Next]_vars
  PROVE  UNCHANGED hpc \/ UNCHANGED pc
<1>1. CASE Scheduler
  BY <1>1 DEF Scheduler, Snapshot, Drain, Released, ReleaseClaim, StartNow, LieDown, WakeForRequest,
    WakeForCycle, NextSlice, AcquireGate, CycleOn, RegisterCards, ClaimNext, StartBatch, EndBatch,
    CycleOff, DropGate, webVars
<1>2. CASE Elapse \/ \E w \in Workers : Worker(w)
  BY <1>2 DEF Elapse, Worker, TakeIndex, StartPipeline, EndPipeline, FinishIndex
<1>3. ASSUME NEW h \in Handlers, Arrive(h) \/ Handle(h) PROVE UNCHANGED pc
  BY <1>3 DEF Arrive, ReceiveBackup, ReceiveCancel, ReceiveToggle, ReceiveCreate, ReceiveUpdate,
    ReceiveDelete, ReceiveRoute, ReceiveImport, Receive, Handle, AskForBackup, CancelBackup, SetEnabled,
    WriteCard, CheckCycle, CheckQueued, TryGate, AddEntry, ChangeEntry, RegistryRefuses, UpdateCards,
    SwapClient, StoreRoute, ImportEntries, Rewire, LeaveGate
<1>4. CASE UNCHANGED vars
  BY <1>4 DEF vars
<1>. QED BY <1>1, <1>2, <1>3, <1>4 DEF Next

(* Whoever is inside the gate leaves before another enters; who replaces   *)
(* the client is a handler that stays inside.                              *)
LEMMA GateRefined ==
  IInv /\ [Next]_vars => [Gate!Next]_<<Holder, route, TRUE>>
<1> SUFFICES ASSUME IInv, [Next]_vars PROVE [Gate!Next]_<<Holder, route, TRUE>>
  OBVIOUS
<1>1. GateExclusive /\ GateExclusive'
  BY GateStep DEF IInv
<1>2. UNCHANGED hpc \/ UNCHANGED pc
  BY OneMoves
<1>3. UNCHANGED hpc => \A h \in Handlers : HoldsGate(h)' <=> HoldsGate(h)
  BY DEF HoldsGate
<1>4. UNCHANGED pc => (SchedulerHoldsGate' <=> SchedulerHoldsGate)
  BY DEF SchedulerHoldsGate
<1>5. Holder = "nobody" \/ Holder' \in {"nobody", Holder}
  BY <1>1, <1>2, <1>3, <1>4 DEF GateExclusive, Holder
<1>6. Holder \in {"nobody", "batch", "request"} /\ Holder' \in {"nobody", "batch", "request"}
  BY DEF Holder
<1>7. CASE route' = route
  BY <1>5, <1>6, <1>7 DEF Gate!Next, Gate!Enter, Gate!Leave
<1>8. CASE route' # route
  <2>1. PICK h \in Handlers : SwapClient(h) \/ StoreRoute(h) \/ Rewire(h)
    <3>1. CASE Scheduler \/ Elapse \/ \E w \in Workers : Worker(w)
      BY <3>1, <1>8 DEF Scheduler, Elapse, Worker, Snapshot, Drain, Released, ReleaseClaim, StartNow,
        LieDown, WakeForRequest, WakeForCycle, NextSlice, AcquireGate, CycleOn, RegisterCards,
        ClaimNext, StartBatch, EndBatch, CycleOff, DropGate, TakeIndex, StartPipeline,
        EndPipeline, FinishIndex, gateVars
    <3>2. ASSUME NEW h \in Handlers, Arrive(h) PROVE UNCHANGED route
      BY <3>2 DEF Arrive, ReceiveBackup, ReceiveCancel, ReceiveToggle, ReceiveCreate, ReceiveUpdate,
        ReceiveDelete, ReceiveRoute, ReceiveImport, Receive, gateVars
    <3>3. ASSUME NEW h \in Handlers, Handle(h)
          PROVE  UNCHANGED route \/ SwapClient(h) \/ StoreRoute(h) \/ Rewire(h)
      BY <3>3 DEF Handle, AskForBackup, CancelBackup, SetEnabled, WriteCard, CheckCycle, CheckQueued,
        TryGate, AddEntry, ChangeEntry, RegistryRefuses, UpdateCards, ImportEntries, LeaveGate, gateVars
    <3>4. CASE UNCHANGED vars
      BY <3>4, <1>8 DEF vars, gateVars
    <3>. QED BY <1>8, <3>1, <3>2, <3>3, <3>4 DEF Next
  <2>2. HoldsGate(h) /\ HoldsGate(h)'
    BY <2>1 DEF SwapClient, StoreRoute, Rewire, Goto, HoldsGate, IInv, TypeOK
  <2>3. Holder = "request" /\ Holder' = "request"
    BY <1>1, <2>2 DEF GateExclusive, Holder
  <2>. QED BY <2>3 DEF Gate!Next, Gate!Reroute
<1>. QED BY <1>7, <1>8

(* The scheduler and the dashboard's handlers keep the gate's contract.    *)
THEOREM GateImplemented ==
  Spec => ImplementsGate
<1>1. Init => Gate!Init
  BY DEF Init, Gate!Init, Holder, SchedulerHoldsGate, HoldsGate
<1>2. IInv /\ [Next]_vars => [Gate!Next]_<<Holder, route, TRUE>>
  BY GateRefined
<1>. QED BY <1>1, <1>2, InvariantHolds, PTL DEF Spec, ImplementsGate, Gate!Spec

(* Whoever is on the way to a cycle by the clock of a cron expression has  *)
(* seen its target come, and nothing resets it before the cycle starts:    *)
(* LieDown, which does, is behind the scheduler and not yet ahead of it.   *)
TargetCome == source = "scheduled" /\ pc \in {"gate", "on"} => due

LEMMA TargetStep ==
  Mode = "cron" /\ TargetCome /\ [Next]_vars => TargetCome'
<1> SUFFICES ASSUME Mode = "cron", TargetCome, [Next]_vars PROVE TargetCome'
  OBVIOUS
<1> USE DEF TargetCome
<1>1. ASSUME UNCHANGED <<pc, source>>, due => due' PROVE TargetCome'
  BY <1>1
<1>2. CASE Scheduler
  <2>1. CASE WakeForCycle
    BY <2>1 DEF WakeForCycle, CycleDue, timeVars
  <2>2. CASE AcquireGate
    BY <2>2 DEF AcquireGate, batchVars, timeVars
  <2>3. CASE NextSlice
    BY <2>3, <1>1 DEF NextSlice, batchVars
  <2>. QED
    BY <1>1, <1>2, <2>1, <2>2, <2>3 DEF Scheduler, Snapshot, Drain, Released, ReleaseClaim, StartNow, LieDown,
      WakeForRequest, CycleOn, RegisterCards, ClaimNext, StartBatch, EndBatch, CycleOff, DropGate,
      batchVars, timeVars
<1>3. CASE Elapse
  BY <1>3, <1>1 DEF Elapse, batchVars
<1>4. ASSUME NEW w \in Workers, Worker(w) PROVE TargetCome'
  BY <1>4, <1>1 DEF Worker, TakeIndex, StartPipeline, EndPipeline, FinishIndex, batchVars, timeVars
<1>5. ASSUME NEW h \in Handlers, Arrive(h) \/ Handle(h) PROVE TargetCome'
  BY <1>5, <1>1 DEF Arrive, ReceiveBackup, ReceiveCancel, ReceiveToggle, ReceiveCreate, ReceiveUpdate,
    ReceiveDelete, ReceiveRoute, ReceiveImport, Receive, Handle, AskForBackup, CancelBackup, SetEnabled,
    WriteCard, CheckCycle, CheckQueued, TryGate, AddEntry, ChangeEntry, RegistryRefuses, UpdateCards,
    SwapClient, StoreRoute, ImportEntries, Rewire, LeaveGate, batchVars, timeVars
<1>6. CASE UNCHANGED vars
  BY <1>6, <1>1 DEF vars, batchVars, timeVars
<1>. QED BY <1>2, <1>3, <1>4, <1>5, <1>6 DEF Next

(* A cycle of a cron schedule starts only once the target it waited for    *)
(* has come, whatever wakes the wait meanwhile (run_scheduled).  It is not *)
(* so for intervals: a wait that is interrupted is not resumed.            *)
THEOREM CyclesOnTarget ==
  Mode = "cron" /\ Spec => CyclesSpaced
<1> SUFFICES ASSUME Mode = "cron" PROVE Spec => CyclesSpaced
  OBVIOUS
<1>1. Init => TargetCome
  BY DEF Init, TargetCome
<1>2. TargetCome /\ [Next]_vars => TargetCome'
  BY TargetStep
<1>3. TargetCome /\ [Next]_vars => [pc = "on" /\ source = "scheduled" /\ pc' # pc => due]_vars
  BY DEF TargetCome
<1>. QED BY <1>1, <1>2, <1>3, PTL DEF Spec, CyclesSpaced

(* Nothing that a sleeping scheduler would have to hear is added to the    *)
(* queue without a notification, and it lies down beside an empty queue.   *)
LEMMA SleeperStep ==
  TypeOK /\ SleeperIsTold /\ [Next]_vars => SleeperIsTold'
<1> SUFFICES ASSUME TypeOK, SleeperIsTold, [Next]_vars PROVE SleeperIsTold'
  OBVIOUS
<1>0. ASSUME pc' # "sleep" PROVE SleeperIsTold'
  BY <1>0 DEF SleeperIsTold
<1>1. ASSUME UNCHANGED wakeup, pc' = pc, Waiting' \subseteq Waiting PROVE SleeperIsTold'
  BY <1>1 DEF SleeperIsTold
<1>2. UNCHANGED pending => Waiting' = Waiting
  BY DEF Waiting
<1>3. CASE Scheduler
  <2>1. CASE LieDown
    BY <2>1, <1>2 DEF LieDown, SleeperIsTold, ctlVars
  <2>2. CASE NextSlice
    BY <2>2, <1>2 DEF NextSlice, SleeperIsTold, ctlVars
  <2>3. ASSUME NEW d \in Databases, ReleaseClaim(d) PROVE SleeperIsTold'
    BY <2>3, <1>0 DEF ReleaseClaim
  <2>4. ASSUME NEW d \in Databases, ClaimNext(d) PROVE SleeperIsTold'
    BY <2>4, <1>0 DEF ClaimNext
  <2>5. CASE DropGate
    BY <2>5, <1>0 DEF DropGate
  <2>. QED
    BY <1>0, <1>3, <2>1, <2>2, <2>3, <2>4, <2>5 DEF Scheduler, Snapshot, Drain, Released, StartNow,
      WakeForRequest, WakeForCycle, AcquireGate, CycleOn, RegisterCards, StartBatch, EndBatch, CycleOff
<1>4. CASE Elapse
  BY <1>4, <1>1, <1>2 DEF Elapse, ctlVars
<1>5. ASSUME NEW w \in Workers, Worker(w) PROVE SleeperIsTold'
  BY <1>5, <1>1, <1>2 DEF Worker, TakeIndex, StartPipeline, EndPipeline, FinishIndex, Release, Finish,
    ctlVars, batchVars, timeVars
<1>6. ASSUME NEW h \in Handlers, Arrive(h) PROVE SleeperIsTold'
  BY <1>6, <1>1, <1>2 DEF Arrive, ReceiveBackup, ReceiveCancel, ReceiveToggle, ReceiveCreate, ReceiveUpdate,
    ReceiveDelete, ReceiveRoute, ReceiveImport, Receive, ctlVars, batchVars, timeVars
<1>7. ASSUME NEW h \in Handlers, AskForBackup(h) PROVE SleeperIsTold'
  <2>1. CASE wakeup' = Notified
    BY <1>7, <2>1 DEF AskForBackup, Notified, SleeperIsTold
  <2>. QED
    BY <1>7, <2>1, <1>1, <1>2 DEF AskForBackup, ctlVars
<1>8. ASSUME NEW h \in Handlers, CancelBackup(h) PROVE SleeperIsTold'
  <2>1. CASE wakeup' = Notified
    BY <1>8, <2>1 DEF CancelBackup, Notified, SleeperIsTold
  <2>2. CASE CancelQueued(hdb[h])
    BY <2>2, <1>8, <2>1, <1>1 DEF CancelBackup, CancelQueued, Waiting, TypeOK, CtlTypeOK
  <2>3. CASE CancelNothing(hdb[h])
    BY <2>3, <1>8, <2>1, <1>1, <1>2 DEF CancelBackup, CancelNothing, ctlVars
  <2>. QED
    BY <1>8, <2>1, <2>2, <2>3 DEF CancelBackup
<1>9. ASSUME NEW h \in Handlers, Handle(h), ~AskForBackup(h), ~CancelBackup(h) PROVE SleeperIsTold'
  BY <1>9, <1>1, <1>2 DEF Handle, SetEnabled, WriteCard, CheckCycle, CheckQueued, TryGate, AddEntry,
    ChangeEntry, RegistryRefuses, UpdateCards, SwapClient, StoreRoute, ImportEntries, Rewire, LeaveGate,
    ctlVars, batchVars, timeVars
<1>10. CASE UNCHANGED vars
  BY <1>10, <1>1, <1>2 DEF vars, ctlVars, timeVars
<1>. QED BY <1>3, <1>4, <1>5, <1>6, <1>7, <1>8, <1>9, <1>10 DEF Next

(* No wake-up is lost: whatever interleaves, a scheduler that sleeps beside *)
(* a request has been notified of it (wait_for_wake).                      *)
THEOREM NoWakeupLost ==
  Spec => []SleeperIsTold
<1>1. Init => SleeperIsTold
  BY DEF Init, SleeperIsTold
<1>2. TypeOK /\ SleeperIsTold /\ [Next]_vars => SleeperIsTold'
  BY SleeperStep
<1>. QED BY <1>1, <1>2, TypeCorrect, PTL DEF Spec

(* How a step looks to the abstract lifecycle.                             *)
StagesOf == [d \in Databases |-> Stage(d)]

LEMMA StageMoves ==
  ASSUME NEW d \in Databases, NEW from, NEW to, Stage(d) = from, Stage(d)' = to,
         \A c \in Databases \ {d} : Stage(c)' = Stage(c)
  PROVE  Lifecycle!Move(d, from, to)
BY DEF Lifecycle!Move

LEMMA StageKept ==
  ASSUME UNCHANGED <<wpc, wdb, jobs, pendingSet>>,
         \A d \in Databases : active'[d] = "absent" <=> active[d] = "absent"
  PROVE  UNCHANGED StagesOf
BY DEF StagesOf, Stage

(* Every step of the scheduler, of a worker and of a handler is a step of  *)
(* the lifecycle of one database, or of the queue being drained, or none.  *)
LEMMA LifecycleStep ==
  IInv /\ [Next]_vars => [Lifecycle!Next]_StagesOf
<1> SUFFICES ASSUME IInv, [Next]_vars PROVE Lifecycle!Next \/ UNCHANGED StagesOf
  OBVIOUS
<1> USE DEF IInv, TypeOK, CtlTypeOK, ClaimState
<1>1. ASSUME NEW d \in Databases, active[d] = "absent"
      PROVE  jobs[d] = 0 /\ \A w \in Workers : ~(Busy(w) /\ wdb[w] = d)
  BY <1>1 DEF PipelineHoldsClaim
<1>2. CASE Drain
  <2>1. \A d \in Databases : jobs[d] = 0 /\ active[d] = "absent"
    BY <1>2 DEF Drain, SchedulerInv, NoLeakedClaim, Active, Busy
  <2>2. \A w \in Workers : wpc[w] = "free" /\ wpc'[w] = "free"
    BY <1>2 DEF Drain, SchedulerInv, Busy, workVars
  <2>3. ASSUME NEW d \in Databases
        PROVE  IF Stage(d) = "queued" THEN Stage(d)' \in {"claimed", "done"}
                                      ELSE Stage(d)' = Stage(d)
    <3>1. CASE d \in Waiting
      BY <1>2, <2>1, <2>2, <3>1 DEF Drain, TakePending, Waiting, QueueConsistent, Stage
    <3>2. CASE d \notin Waiting
      BY <1>2, <2>1, <2>2, <3>2 DEF Drain, TakePending, Waiting, QueueConsistent, Stage
    <3>. QED BY <3>1, <3>2
  <2>4. Lifecycle!Drain
    BY <2>3 DEF Lifecycle!Drain, Lifecycle!Stages, Stage
  <2>. QED BY <2>4 DEF Lifecycle!Next
<1>3. ASSUME NEW d \in Databases, ReleaseClaim(d) PROVE Lifecycle!Next
  <2>1. Stage(d) = "done" /\ Stage(d)' = "idle"
    BY <1>3 DEF ReleaseClaim, Finish, SchedulerInv, QueueConsistent, Busy, Stage, workVars
  <2>2. \A c \in Databases \ {d} : Stage(c)' = Stage(c)
    BY <1>3 DEF ReleaseClaim, Finish, Stage, workVars
  <2>. QED BY <2>1, <2>2, StageMoves DEF Lifecycle!Release, Lifecycle!Next
<1>4. ASSUME NEW d \in Databases, ClaimNext(d) PROVE Lifecycle!Next \/ UNCHANGED StagesOf
  <2>1. CASE TakeSlot(d)
    <3>1. Stage(d) = "idle" /\ Stage(d)' = "claimed"
      BY <1>4, <2>1, <1>1 DEF ClaimNext, TakeSlot, ClaimScheduled, CanClaim, SchedulerInv, Busy,
        Stage, workVars
    <3>2. \A c \in Databases \ {d} : Stage(c)' = Stage(c)
      BY <1>4, <2>1 DEF ClaimNext, TakeSlot, ClaimScheduled, Stage, workVars
    <3>. QED BY <3>1, <3>2, StageMoves DEF Lifecycle!Claim, Lifecycle!Next
  <2>2. CASE ~TakeSlot(d)
    BY <1>4, <2>2, StageKept DEF ClaimNext, ctlVars, workVars
  <2>. QED BY <2>1, <2>2
<1>5. ASSUME NEW w \in Workers, NEW d \in Databases, TakeIndex(w, d) PROVE UNCHANGED StagesOf
  <2>1. Stage(d) = "claimed" /\ Stage(d)' = "claimed"
    BY <1>5 DEF TakeIndex, HasIndex, NoOverlap, Busy, Stage
  <2>2. \A c \in Databases \ {d} : Stage(c)' = Stage(c)
    BY <1>5 DEF TakeIndex, HasIndex, Stage, ctlVars
  <2>. QED BY <2>1, <2>2 DEF StagesOf
<1>6. ASSUME NEW w \in Workers, StartPipeline(w) PROVE Lifecycle!Next
  <2>1. /\ wpc[w] = "indexed" /\ wpc' = [wpc EXCEPT ![w] = "running"]
        /\ wdb[w] \in Databases
        /\ UNCHANGED <<ctlVars, jobs, wdb>>
    BY <1>6, Zenon DEF StartPipeline, batchVars, SchedulerInv, Busy
  <2>2. Stage(wdb[w]) = "claimed" /\ Stage(wdb[w])' = "running"
    BY <2>1 DEF NoOverlap, Busy, Stage
  <2>3. \A c \in Databases \ {wdb[w]} : Stage(c)' = Stage(c)
    BY <2>1 DEF Stage, ctlVars
  <2>. QED BY <2>1, <2>2, <2>3, StageMoves DEF Lifecycle!Start, Lifecycle!Next
<1>7. ASSUME NEW w \in Workers, EndPipeline(w) PROVE Lifecycle!Next
  <2>1. PICK d \in Databases : wpc[w] = "running" /\ d = wdb[w]
    BY <1>7 DEF EndPipeline, SchedulerInv, Busy
  <2>2. Stage(d) = "running" /\ Stage(d)' = "done"
    BY <1>7, <2>1 DEF EndPipeline, NoOverlap, PipelineHoldsClaim, Busy, Stage, ctlVars, batchVars
  <2>3. \A c \in Databases \ {d} : Stage(c)' = Stage(c)
    BY <1>7, <2>1 DEF EndPipeline, Stage, ctlVars, batchVars
  <2>. QED BY <2>1, <2>2, <2>3, StageMoves DEF Lifecycle!Stop, Lifecycle!Next
<1>8. ASSUME NEW w \in Workers, FinishIndex(w) PROVE Lifecycle!Next \/ UNCHANGED StagesOf
  <2>1. PICK d \in Databases : wpc[w] = "ended" /\ d = wdb[w]
    BY <1>8 DEF FinishIndex, Release, SchedulerInv, Busy
  <2>2. Stage(d) = "done"
    BY <2>1 DEF NoOverlap, PipelineHoldsClaim, Busy, Stage
  <2>3. \A c \in Databases \ {d} : Stage(c)' = Stage(c)
    BY <1>8, <2>1 DEF FinishIndex, Release, Finish, Stage, ctlVars, batchVars
  <2>4. CASE source = "scheduled"
    <3>1. Stage(d)' = "idle"
      BY <1>8, <2>1, <2>4 DEF FinishIndex, Release, Finish, NoOverlap, PipelineHoldsClaim, QueueConsistent,
        Busy, Stage, batchVars
    <3>. QED BY <2>1, <2>2, <2>3, <3>1, StageMoves DEF Lifecycle!Release, Lifecycle!Next
  <2>5. CASE source = "manual"
    <3>1. Stage(d)' = "done"
      BY <1>8, <2>1, <2>5 DEF FinishIndex, Release, NoOverlap, PipelineHoldsClaim, Busy, Stage, ctlVars,
        batchVars
    <3>. QED BY <2>1, <2>2, <2>3, <3>1 DEF StagesOf
  <2>. QED BY <2>4, <2>5
<1>9. ASSUME NEW h \in Handlers, AskForBackup(h) PROVE Lifecycle!Next \/ UNCHANGED StagesOf
  <2>1. PICK d \in Databases : d = hdb[h] /\ UNCHANGED <<wpc, wdb, jobs>>
    BY <1>9 DEF AskForBackup, HandlerInv, batchVars, workVars
  <2>2. CASE Request(d)
    <3>1. Stage(d) = "idle" /\ Stage(d)' = "queued"
      BY <2>1, <2>2, <1>1 DEF Request, Accepts, Busy, Stage
    <3>2. \A c \in Databases \ {d} : Stage(c)' = Stage(c)
      BY <2>1, <2>2 DEF Request, Stage
    <3>. QED BY <2>1, <3>1, <3>2, StageMoves DEF Lifecycle!Queue, Lifecycle!Next
  <2>3. CASE UNCHANGED ctlVars
    BY <2>1, <2>3, StageKept DEF ctlVars
  <2>. QED BY <1>9, <2>1, <2>2, <2>3 DEF AskForBackup, ctlVars
<1>10. ASSUME NEW h \in Handlers, CancelBackup(h) PROVE Lifecycle!Next \/ UNCHANGED StagesOf
  <2>1. PICK d \in Databases : d = hdb[h] /\ UNCHANGED <<wpc, wdb, jobs>>
    BY <1>10 DEF CancelBackup, HandlerInv, batchVars, workVars
  <2>2. CASE CancelQueued(d)
    <3>1. Stage(d) = "queued" /\ Stage(d)' = "idle"
      BY <2>1, <2>2, <1>1 DEF CancelQueued, QueueConsistent, Busy, Stage
    <3>2. \A c \in Databases \ {d} : Stage(c)' = Stage(c)
      BY <2>1, <2>2 DEF CancelQueued, Stage
    <3>. QED BY <2>1, <3>1, <3>2, StageMoves DEF Lifecycle!Withdraw, Lifecycle!Next
  <2>3. CASE CancelActive(d) \/ CancelNothing(d)
    BY <2>1, <2>3, StageKept DEF CancelActive, CancelNothing, ctlVars
  <2>. QED BY <1>10, <2>1, <2>2, <2>3 DEF CancelBackup
<1>11. CASE UNCHANGED <<ctlVars, jobs, wpc, wdb>>
  BY <1>11, StageKept DEF ctlVars
<1>. QED
  BY <1>2, <1>3, <1>4, <1>5, <1>6, <1>7, <1>8, <1>9, <1>10, <1>11, CoreSteps DEF Touching, Worker,
    coreVars, Snapshot, Released, StartNow, LieDown, WakeForRequest, WakeForCycle, CycleDue, AcquireGate,
    CycleOn, RegisterCards, StartBatch, EndBatch, CycleOff, DropGate, ctlVars, batchVars, workVars

(* The scheduler, the workers and the dashboard together implement the     *)
(* abstract lifecycle of every database.                                   *)
THEOREM Implementation ==
  Spec => ImplementsLifecycle
<1>1. Init => Lifecycle!Init
  BY DEF Init, CtlInit, Lifecycle!Init, Stage
<1>2. IInv /\ [Next]_vars => [Lifecycle!Next]_StagesOf
  BY LifecycleStep
<1>. QED BY <1>1, <1>2, InvariantHolds, PTL DEF Spec, ImplementsLifecycle, Lifecycle!Spec, StagesOf
=============================================================================
