-------------------------- MODULE BackupScheduler ---------------------------
(***************************************************************************)
(* The long-lived process: the scheduler thread (run_scheduled,            *)
(* run_manual_requests, run_cycle of src/main.rs), the pool of workers it  *)
(* starts for one batch of databases (execute_database_indices), and the   *)
(* dashboard's handlers that run beside them (src/web.rs): backup and      *)
(* cancel requests, enable/disable, registry mutations, route changes.     *)
(*                                                                         *)
(* A step is one critical section, or one access of an atomic, of one      *)
(* thread; a thread-local computation rides with the step before it.       *)
(***************************************************************************)
EXTENDS BackupController

CONSTANTS
  MaxParallel, \* MAX_PARALLEL_DATABASES: the workers of a batch
  Handlers,    \* dashboard requests being handled at the same time
  Ops,         \* the requests the dashboard sends in this instance
  Permanent,   \* names of the databases that come from the environment
  Managed,     \* names the dashboard may give to the entries it manages
  Entries,     \* ids of dashboard entries; an id is used once, so their
               \* number bounds the entries ever created
  Mode,        \* "interval" or "cron": the form of the schedule
  NoDatabase   \* not a database

ASSUME SchedulerAssumption ==
  /\ MaxParallel \in Nat \ {0}
  /\ Databases = Permanent \union Managed
  /\ Permanent # {}
  /\ Permanent \intersect Managed = {}
  /\ {NoDatabase, "fresh", "gone"} \intersect Databases = {}
  /\ NoDatabase \notin Entries \union {"fresh", "gone"}
  /\ Mode \in {"interval", "cron"}

VARIABLES
  entry,        \* DatabaseRegistry: entry[i] is the name entry i has now,
                \* "fresh" before it is created and "gone" once deleted
  published,    \* the entries as they are in the registry's snapshot
  known,        \* the names that have a status card (DUMP_STATUSES)
  enabled,      \* DatabaseStateStore
  gate,         \* BACKUP_ROUTE_GATE
  cycleRunning, \* CYCLE_RUNNING
  route,        \* the Telegram client the shared handle holds
  pc,           \* where the scheduler thread is
  source,       \* what the current batch runs for
  snap,         \* the scheduler's local copy of the registry
  batch,        \* the names run_manual_requests drained and has to finish
  toClaim,      \* the names run_cycle has still to filter
  jobs,         \* jobs[d]: indices of d the workers have not yet taken
  nextInterval, \* TRUE: Some(remaining)
  due,          \* the interval since the last cycle's start, or the cron
                \* target computed last, has been reached
  wakeup,       \* the condition variable was notified during the wait
  wpc, wdb, linked,  \* each worker: where, on which database, and whether
                     \* its token is the one in the controller's map
  hpc,               \* each handler: where it is,
  hid, hdb, hto      \* its entry, the name that had, and what it is to
                     \* have: a name, "gone", or no change

regVars   == <<entry, published, known, enabled>>
gateVars  == <<gate, cycleRunning, route>>
batchVars == <<source, snap, batch, toClaim, jobs>>
timeVars  == <<nextInterval, due, wakeup>>
workVars  == <<wpc, wdb, linked>>
webVars   == <<hpc, hid, hdb, hto>>
vars == <<ctlVars, regVars, gateVars, pc, batchVars, timeVars, workVars, webVars>>

Workers == 1 .. MaxParallel
Clients == {"direct", "proxied"}
MaybeDatabase == Databases \union {NoDatabase}

(* The databases of the environment and those of a list of entries.        *)
NamesOf(list) == Permanent \union {list[i] : i \in {j \in Entries : list[j] \in Managed}}
Configured == NamesOf(published)

SchedulerPc == {"top", "take", "arm", "sleep", "gate", "on", "register", "claim",
                "execute", "off", "gateOff", "release"}
WorkerPc == {"free", "indexed", "running", "ended"}
HandlerPc == {"idle", "backup", "cancel", "toggle", "card", "cycle?", "queued?",
              "tryGate", "registry", "cards", "reroute", "store",
              "tryImport", "import", "rewire", "dropGate"}

TypeOK ==
  /\ CtlTypeOK
  /\ entry \in [Entries -> Managed \union {"fresh", "gone"}]
  /\ published \in [Entries -> Managed \union {"fresh", "gone"}]
  /\ known \in SUBSET Databases
  /\ enabled \in [Databases -> BOOLEAN]
  /\ gate \in BOOLEAN /\ cycleRunning \in BOOLEAN /\ route \in Clients
  /\ pc \in SchedulerPc
  /\ source \in {"manual", "scheduled"}
  /\ snap \in SUBSET Databases
  /\ batch \in SUBSET Databases
  /\ toClaim \in SUBSET Databases
  /\ jobs \in [Databases -> Nat]
  /\ nextInterval \in BOOLEAN /\ due \in BOOLEAN /\ wakeup \in BOOLEAN
  /\ wpc \in [Workers -> WorkerPc]
  /\ wdb \in [Workers -> MaybeDatabase]
  /\ linked \in [Workers -> BOOLEAN]
  /\ hpc \in [Handlers -> HandlerPc]
  /\ hid \in [Handlers -> Entries \union {NoDatabase}]
  /\ hdb \in [Handlers -> MaybeDatabase]
  /\ hto \in [Handlers -> Managed \union {NoDatabase, "gone"}]

(* main() has loaded the registry and registered a card for every database *)
(* it found before the loop starts.                                        *)
Init ==
  /\ CtlInit
  /\ entry \in [Entries -> Managed \union {"fresh"}]
  /\ \A i, j \in Entries : entry[i] = entry[j] /\ entry[i] # "fresh" => i = j
  /\ published = entry
  /\ known = Configured
  /\ enabled \in [Databases -> BOOLEAN]
  /\ gate = FALSE /\ cycleRunning = FALSE /\ route = "direct"
  /\ pc = "top" /\ source = "scheduled"
  /\ snap = {} /\ batch = {} /\ toClaim = {}
  /\ jobs = [d \in Databases |-> 0]
  /\ nextInterval = FALSE /\ due = (Mode = "interval") /\ wakeup = FALSE
  /\ wpc = [w \in Workers |-> "free"]
  /\ wdb = [w \in Workers |-> NoDatabase]
  /\ linked = [w \in Workers |-> FALSE]
  /\ hpc = [h \in Handlers |-> "idle"]
  /\ hid = [h \in Handlers |-> NoDatabase]
  /\ hdb = [h \in Handlers |-> NoDatabase]
  /\ hto = [h \in Handlers |-> NoDatabase]

-----------------------------------------------------------------------------
(* The scheduler thread: run_manual_requests.                              *)

(* The registry is copied before the queue is drained.                     *)
Snapshot ==
  /\ pc = "top"
  /\ snap' = Configured
  /\ pc' = "take"
  /\ UNCHANGED <<ctlVars, regVars, gateVars, source, batch, toClaim, jobs, timeVars,
                 workVars, webVars>>

(* Requests for names that are not in the copy find no index and get no    *)
(* job, but are finished with the others.                                  *)
Drain ==
  /\ pc = "take"
  /\ TakePending
  /\ batch' = Waiting
  /\ jobs' = [d \in Databases |-> IF d \in snap THEN pending[d] ELSE 0]
  /\ \/ /\ Waiting = {}
        /\ pc' = "arm"
        /\ UNCHANGED source
     \/ /\ Waiting # {} /\ Waiting \intersect snap = {}
        /\ pc' = "release"
        /\ UNCHANGED source
     \/ /\ Waiting \intersect snap # {}
        /\ pc' = "gate"
        /\ source' = "manual"
  /\ UNCHANGED <<regVars, gateVars, snap, toClaim, timeVars, workVars, webVars>>

ReleaseClaim(d) ==
  /\ pc = "release"
  /\ d \in batch
  /\ Finish(d)
  /\ batch' = batch \ {d}
  /\ UNCHANGED <<regVars, gateVars, pc, source, snap, toClaim, jobs, timeVars,
                 workVars, webVars>>

Released ==
  /\ pc = "release"
  /\ batch = {}
  /\ pc' = "top"
  /\ UNCHANGED <<ctlVars, regVars, gateVars, batchVars, timeVars, workVars, webVars>>

-----------------------------------------------------------------------------
(* The scheduler thread: waiting for the next cycle.                       *)

StartNow ==
  /\ pc = "arm"
  /\ Mode = "interval" /\ ~nextInterval
  /\ pc' = "gate" /\ source' = "scheduled"
  /\ UNCHANGED <<ctlVars, regVars, gateVars, snap, batch, toClaim, jobs, timeVars,
                 workVars, webVars>>

(* next_interval.take(), or a new cron target strictly after now; then the *)
(* first look of wait_for_wake at the queue.                               *)
LieDown ==
  /\ pc = "arm"
  /\ Mode = "cron" \/ nextInterval
  /\ nextInterval' = FALSE
  /\ due' = IF Mode = "cron" THEN FALSE ELSE due
  /\ wakeup' = FALSE
  /\ pc' = IF Waiting = {} THEN "sleep" ELSE "top"
  /\ UNCHANGED <<ctlVars, regVars, gateVars, batchVars, workVars, webVars>>

(* A cron wait is cut in slices, so it looks again without being notified. *)
WakeForRequest ==
  /\ pc = "sleep"
  /\ wakeup \/ due \/ Mode = "cron"
  /\ Waiting # {}
  /\ pc' = "top"
  /\ UNCHANGED <<ctlVars, regVars, gateVars, batchVars, timeVars, workVars, webVars>>

FaultyCycleDue == due \/ wakeup
CycleDue == due \/ (Mode = "interval" /\ wakeup)

(* An interval wait is not resumed: whatever ended it, an empty queue      *)
(* starts the cycle.                                                       *)
WakeForCycle ==
  /\ pc = "sleep"
  /\ CycleDue
  /\ Waiting = {}
  /\ pc' = "gate" /\ source' = "scheduled"
  /\ UNCHANGED <<ctlVars, regVars, gateVars, snap, batch, toClaim, jobs, timeVars,
                 workVars, webVars>>

NextSlice ==
  /\ pc = "sleep"
  /\ Mode = "cron" /\ wakeup /\ ~due
  /\ Waiting = {}
  /\ wakeup' = FALSE
  /\ UNCHANGED <<ctlVars, regVars, gateVars, pc, batchVars, nextInterval, due,
                 workVars, webVars>>

(* The clock reaches the end of the interval, or the cron target.          *)
Elapse ==
  /\ ~due
  /\ due' = TRUE
  /\ UNCHANGED <<ctlVars, regVars, gateVars, pc, batchVars, nextInterval, wakeup,
                 workVars, webVars>>

-----------------------------------------------------------------------------
(* The scheduler thread: one batch under the gate.                         *)

AcquireGate ==
  /\ pc = "gate"
  /\ ~gate
  /\ gate' = TRUE
  /\ pc' = "on"
  /\ UNCHANGED <<ctlVars, regVars, cycleRunning, route, batchVars, timeVars,
                 workVars, webVars>>

CycleOn ==
  /\ pc = "on"
  /\ cycleRunning' = TRUE
  /\ \/ /\ source = "scheduled"
        /\ due' = FALSE
        /\ pc' = "register"
     \/ /\ source = "manual"
        /\ UNCHANGED due
        /\ pc' = "execute"
  /\ UNCHANGED <<ctlVars, regVars, gate, route, batchVars, nextInterval, wakeup,
                 workVars, webVars>>

(* The gate keeps the registry still, so the loop over it is one step.     *)
RegisterCards ==
  /\ pc = "register"
  /\ known' = known \union Configured
  /\ snap' = Configured
  /\ toClaim' = Configured
  /\ pc' = "claim"
  /\ UNCHANGED <<ctlVars, entry, published, enabled, gateVars, source, batch, jobs, timeVars,
                 workVars, webVars>>

(* The filter of run_cycle: the state first, then the claim.               *)
TakeSlot(d) ==
  /\ enabled[d]
  /\ ClaimScheduled(d)
  /\ jobs' = [jobs EXCEPT ![d] = @ + 1]

ClaimNext(d) ==
  /\ pc = "claim"
  /\ d \in toClaim
  /\ toClaim' = toClaim \ {d}
  /\ \/ TakeSlot(d)
     \/ /\ ~(enabled[d] /\ CanClaim(d))
        /\ UNCHANGED <<ctlVars, jobs>>
  /\ UNCHANGED <<regVars, gateVars, pc, source, snap, batch, timeVars, workVars, webVars>>

StartBatch ==
  /\ pc = "claim"
  /\ toClaim = {}
  /\ pc' = "execute"
  /\ UNCHANGED <<ctlVars, regVars, gateVars, batchVars, timeVars, workVars, webVars>>

(* The scope that owns the workers ends when the cursor is past the last   *)
(* index and every worker has returned.                                    *)
BatchOver ==
  /\ \A d \in Databases : jobs[d] = 0
  /\ \A w \in Workers : wpc[w] = "free"

EndBatch ==
  /\ pc = "execute"
  /\ BatchOver
  /\ pc' = "off"
  /\ UNCHANGED <<ctlVars, regVars, gateVars, batchVars, timeVars, workVars, webVars>>

CycleOff ==
  /\ pc = "off"
  /\ cycleRunning' = FALSE
  /\ nextInterval' = IF source = "scheduled" /\ Mode = "interval" THEN ~due
                                                                  ELSE nextInterval
  /\ pc' = "gateOff"
  /\ UNCHANGED <<ctlVars, regVars, gate, route, batchVars, due, wakeup, workVars, webVars>>

DropGate ==
  /\ pc = "gateOff"
  /\ gate' = FALSE
  /\ pc' = IF source = "manual" THEN "release" ELSE "top"
  /\ UNCHANGED <<ctlVars, regVars, cycleRunning, route, batchVars, timeVars,
                 workVars, webVars>>

-----------------------------------------------------------------------------
(* A worker.  The names are claimed before the batch starts in every mode, *)
(* so the closure's own claim is never taken.                              *)

HasIndex(d) == jobs[d] > 0

TakeIndex(w, d) ==
  /\ pc = "execute"
  /\ wpc[w] = "free"
  /\ HasIndex(d)
  /\ jobs' = [jobs EXCEPT ![d] = @ - 1]
  /\ wpc' = [wpc EXCEPT ![w] = "indexed"]
  /\ wdb' = [wdb EXCEPT ![w] = d]
  /\ UNCHANGED <<ctlVars, regVars, gateVars, pc, source, snap, batch, toClaim, timeVars,
                 linked, webVars>>

(* A name without an entry would get a token nobody can set.               *)
StartPipeline(w) ==
  /\ wpc[w] = "indexed"
  /\ linked' = [linked EXCEPT ![w] = active[wdb[w]] # "absent"]
  /\ wpc' = [wpc EXCEPT ![w] = "running"]
  /\ known' = known \union {wdb[w]}
  /\ UNCHANGED <<ctlVars, entry, published, enabled, gateVars, pc, batchVars, timeVars,
                 wdb, webVars>>

(* Success, failure, cancellation or a caught panic: the worker goes on.   *)
EndPipeline(w) ==
  /\ wpc[w] = "running"
  /\ wpc' = [wpc EXCEPT ![w] = "ended"]
  /\ UNCHANGED <<ctlVars, regVars, gateVars, pc, batchVars, timeVars, wdb, linked, webVars>>

(* A manual run keeps its claim until its whole batch is over.             *)
Release(w) ==
  \/ source = "scheduled" /\ Finish(wdb[w])
  \/ source = "manual" /\ UNCHANGED ctlVars

FinishIndex(w) ==
  /\ wpc[w] = "ended"
  /\ Release(w)
  /\ wpc' = [wpc EXCEPT ![w] = "free"]
  /\ wdb' = [wdb EXCEPT ![w] = NoDatabase]
  /\ linked' = [linked EXCEPT ![w] = FALSE]
  /\ UNCHANGED <<regVars, gateVars, pc, batchVars, timeVars, webVars>>

-----------------------------------------------------------------------------
(* The dashboard's handlers.  The handler of a request that is refused     *)
(* goes back to "idle" at once: what it answers is left out.               *)

Goto(h, p) == hpc' = [hpc EXCEPT ![h] = p]

(* Forget the request: the handler returns.                                *)
Return(h) ==
  /\ hpc' = [hpc EXCEPT ![h] = "idle"]
  /\ hid' = [hid EXCEPT ![h] = NoDatabase]
  /\ hdb' = [hdb EXCEPT ![h] = NoDatabase]
  /\ hto' = [hto EXCEPT ![h] = NoDatabase]

Receive(h, op, p, i, d, e) ==
  /\ op \in Ops
  /\ hpc[h] = "idle"
  /\ hpc' = [hpc EXCEPT ![h] = p]
  /\ hid' = [hid EXCEPT ![h] = i]
  /\ hdb' = [hdb EXCEPT ![h] = d]
  /\ hto' = [hto EXCEPT ![h] = e]
  /\ UNCHANGED <<ctlVars, regVars, gateVars, pc, batchVars, timeVars, workVars>>

FaultyNotified == wakeup

(* The condition variable: heard by the scheduler if it is waiting.        *)
Notified == IF pc = "sleep" THEN TRUE ELSE wakeup

(* POST .../backup: the database has a card and is enabled; the recipient  *)
(* exists.                                                                 *)
ReceiveBackup(h, d) ==
  /\ d \in known
  /\ enabled[d]
  /\ Receive(h, "backup", "backup", NoDatabase, d, NoDatabase)

AskForBackup(h) ==
  /\ hpc[h] = "backup"
  /\ \/ /\ Request(hdb[h])
        /\ Goto(h, "card")
        /\ wakeup' = Notified
        /\ UNCHANGED <<hid, hdb, hto>>
     \/ /\ ~Accepts(hdb[h])
        /\ Return(h)
        /\ UNCHANGED <<ctlVars, wakeup>>
  /\ UNCHANGED <<regVars, gateVars, pc, batchVars, nextInterval, due, workVars>>

(* set_db_status and cancel_db insert the card when there is none.         *)
WriteCard(h) ==
  /\ hpc[h] = "card"
  /\ known' = known \union {hdb[h]}
  /\ Return(h)
  /\ UNCHANGED <<ctlVars, entry, published, enabled, gateVars, pc, batchVars, timeVars, workVars>>

(* POST .../cancel.                                                        *)
ReceiveCancel(h, d) ==
  /\ d \in known
  /\ Receive(h, "cancel", "cancel", NoDatabase, d, NoDatabase)

CancelBackup(h) ==
  /\ hpc[h] = "cancel"
  /\ \/ /\ CancelQueued(hdb[h])
        /\ Goto(h, "card")
        /\ UNCHANGED <<hid, hdb, hto, wakeup>>
     \/ /\ CancelActive(hdb[h])
        /\ Return(h)
        /\ wakeup' = Notified
     \/ /\ CancelNothing(hdb[h])
        /\ Return(h)
        /\ UNCHANGED wakeup
  /\ UNCHANGED <<regVars, gateVars, pc, batchVars, nextInterval, due, workVars>>

(* POST .../enable and .../disable.  The state is changed in memory even   *)
(* when it cannot be written; only then is the card left as it was.        *)
ReceiveToggle(h, d) ==
  /\ d \in known
  /\ Receive(h, "toggle", "toggle", NoDatabase, d, NoDatabase)

SetEnabled(h) ==
  /\ hpc[h] = "toggle"
  /\ \E on \in BOOLEAN : enabled' = [enabled EXCEPT ![hdb[h]] = on]
  /\ \/ /\ Goto(h, "card")
        /\ UNCHANGED <<hid, hdb, hto>>
     \/ Return(h)
  /\ UNCHANGED <<ctlVars, entry, published, known, gateVars, pc, batchVars, timeVars, workVars>>

(* The registry mutations, with mutation_blocked in front of each.         *)
ReceiveCreate(h, e) ==
  Receive(h, "create", "cycle?", NoDatabase, NoDatabase, e)

ReceiveUpdate(h, i, e) ==
  /\ entry[i] \in Managed
  /\ Receive(h, "update", "cycle?", i, entry[i], e)

ReceiveDelete(h, i) ==
  /\ entry[i] \in Managed
  /\ Receive(h, "delete", "cycle?", i, entry[i], "gone")

CheckCycle(h) ==
  /\ hpc[h] = "cycle?"
  /\ \/ /\ cycleRunning
        /\ Return(h)
     \/ /\ ~cycleRunning
        /\ Goto(h, IF hdb[h] = NoDatabase THEN "tryGate" ELSE "queued?")
        /\ UNCHANGED <<hid, hdb, hto>>
  /\ UNCHANGED <<ctlVars, regVars, gateVars, pc, batchVars, timeVars, workVars>>

CheckQueued(h) ==
  /\ hpc[h] = "queued?"
  /\ \/ /\ CanCancel(hdb[h])
        /\ Return(h)
     \/ /\ ~CanCancel(hdb[h])
        /\ Goto(h, "tryGate")
        /\ UNCHANGED <<hid, hdb, hto>>
  /\ UNCHANGED <<ctlVars, regVars, gateVars, pc, batchVars, timeVars, workVars>>

ForRoute(h) == hid[h] = NoDatabase /\ hto[h] = NoDatabase

FaultyGateFree == TRUE
GateFree == ~gate

TryGate(h) ==
  /\ hpc[h] \in {"tryGate", "tryImport"}
  /\ \/ /\ ~GateFree
        /\ Return(h)
        /\ UNCHANGED gate
     \/ /\ GateFree
        /\ gate' = TRUE
        /\ \/ hpc[h] = "tryImport" /\ Goto(h, "import")
           \/ hpc[h] = "tryGate" /\ ForRoute(h) /\ Goto(h, "reroute")
           \/ hpc[h] = "tryGate" /\ ~ForRoute(h) /\ Goto(h, "registry")
        /\ UNCHANGED <<hid, hdb, hto>>
  /\ UNCHANGED <<ctlVars, regVars, cycleRunning, route, pc, batchVars, timeVars, workVars>>

(* A change is made in memory, written to the file, and only then shown in *)
(* the snapshot: when the write fails it stays in the list, and neither    *)
(* the snapshot nor the cards follow.                                      *)
Publish(h, list) ==
  /\ entry' = list
  /\ \/ published' = list /\ Goto(h, "cards")
     \/ UNCHANGED published /\ Goto(h, "dropGate")

(* add(): a new id; names stay unique.                                     *)
AddEntry(h) ==
  /\ hpc[h] = "registry"
  /\ hid[h] = NoDatabase
  /\ hto[h] \notin NamesOf(entry)
  /\ \E i \in Entries : entry[i] = "fresh" /\ Publish(h, [entry EXCEPT ![i] = hto[h]])
  /\ UNCHANGED <<ctlVars, known, enabled, gateVars, pc, batchVars, timeVars, workVars,
                 hid, hdb, hto>>

(* update() and delete(): the entry with that id, whatever its name is by  *)
(* now.                                                                    *)
ChangeEntry(h) ==
  LET i == hid[h]
      new == IF hto[h] = NoDatabase THEN entry[i] ELSE hto[h]
  IN /\ hpc[h] = "registry"
     /\ i # NoDatabase
     /\ entry[i] \in Managed
     /\ new \notin NamesOf(entry) \ {entry[i]}
     /\ Publish(h, [entry EXCEPT ![i] = new])
     /\ hto' = [hto EXCEPT ![h] = new]
     /\ UNCHANGED <<ctlVars, known, enabled, gateVars, pc, batchVars, timeVars,
                    workVars, hid, hdb>>

(* No such entry, or a name in use.                                        *)
RegistryRefuses(h) ==
  /\ hpc[h] = "registry"
  /\ Goto(h, "dropGate")
  /\ UNCHANGED <<ctlVars, regVars, gateVars, pc, batchVars, timeVars, workVars,
                 hid, hdb, hto>>

(* unregister_database(the name it had), register_database(the new one).   *)
UpdateCards(h) ==
  /\ hpc[h] = "cards"
  /\ known' = (known \ {hdb[h]}) \union ({hto[h]} \intersect Databases)
  /\ Goto(h, "dropGate")
  /\ UNCHANGED <<ctlVars, entry, published, enabled, gateVars, pc, batchVars, timeVars, workVars,
                 hid, hdb, hto>>

(* Applying or disabling a routing profile: the shared client is replaced, *)
(* and put back when the choice cannot be stored.                          *)
ReceiveRoute(h) ==
  Receive(h, "route", "tryGate", NoDatabase, NoDatabase, NoDatabase)

SwapClient(h) ==
  /\ hpc[h] = "reroute"
  /\ \/ route' \in Clients \ {route} /\ Goto(h, "store")
     \/ UNCHANGED route /\ Goto(h, "dropGate")
  /\ UNCHANGED <<ctlVars, regVars, gate, cycleRunning, pc, batchVars, timeVars, workVars,
                 hid, hdb, hto>>

StoreRoute(h) ==
  /\ hpc[h] = "store"
  /\ route' \in Clients
  /\ Goto(h, "dropGate")
  /\ UNCHANGED <<ctlVars, regVars, gate, cycleRunning, pc, batchVars, timeVars, workVars,
                 hid, hdb, hto>>

(* POST .../migration/import: the gate, but neither the cycle nor the      *)
(* queue is looked at.  The registry and the state of its databases are    *)
(* replaced (others count as enabled), or left as they were, the cards are *)
(* not touched, and the client is rebuilt for the new profile.             *)
ReceiveImport(h) ==
  Receive(h, "import", "tryImport", NoDatabase, NoDatabase, NoDatabase)

ImportEntries(h) ==
  /\ hpc[h] = "import"
  /\ \/ /\ \E list \in [Entries -> Managed \union {"fresh", "gone"}] :
             /\ \A i \in Entries : list[i] = "fresh" => entry[i] = "fresh"
             /\ \A i, j \in Entries : list[i] = list[j] /\ list[i] \in Managed => i = j
             /\ entry' = list /\ published' = list
             /\ enabled' \in [Databases -> BOOLEAN]
             /\ \A d \in Databases \ NamesOf(list) : enabled'[d]
        /\ Goto(h, "rewire")
     \/ /\ UNCHANGED <<entry, published, enabled>>
        /\ Goto(h, "dropGate")
  /\ UNCHANGED <<ctlVars, known, gateVars, pc, batchVars, timeVars, workVars,
                 hid, hdb, hto>>

Rewire(h) ==
  /\ hpc[h] = "rewire"
  /\ route' \in Clients
  /\ Goto(h, "dropGate")
  /\ UNCHANGED <<ctlVars, regVars, gate, cycleRunning, pc, batchVars, timeVars, workVars,
                 hid, hdb, hto>>

(* The guard is dropped when the handler returns.                          *)
LeaveGate(h) ==
  /\ hpc[h] = "dropGate"
  /\ gate' = FALSE
  /\ Return(h)
  /\ UNCHANGED <<ctlVars, regVars, cycleRunning, route, pc, batchVars, timeVars, workVars>>

-----------------------------------------------------------------------------
Scheduler ==
  \/ Snapshot \/ Drain \/ Released
  \/ \E d \in Databases : ReleaseClaim(d)
  \/ StartNow \/ LieDown \/ WakeForRequest \/ WakeForCycle \/ NextSlice
  \/ AcquireGate \/ CycleOn \/ RegisterCards
  \/ \E d \in Databases : ClaimNext(d)
  \/ StartBatch \/ EndBatch \/ CycleOff \/ DropGate

Worker(w) ==
  \/ \E d \in Databases : TakeIndex(w, d)
  \/ StartPipeline(w) \/ EndPipeline(w) \/ FinishIndex(w)

(* The requests that arrive, and the steps of a handler that is at work.   *)
Arrive(h) ==
  \/ \E d \in Databases : ReceiveBackup(h, d) \/ ReceiveCancel(h, d) \/ ReceiveToggle(h, d)
  \/ \E e \in Managed : ReceiveCreate(h, e)
  \/ \E i \in Entries : \/ \E e \in Managed \union {NoDatabase} : ReceiveUpdate(h, i, e)
                        \/ ReceiveDelete(h, i)
  \/ ReceiveRoute(h) \/ ReceiveImport(h)

Handle(h) ==
  \/ AskForBackup(h) \/ CancelBackup(h) \/ SetEnabled(h) \/ WriteCard(h)
  \/ CheckCycle(h) \/ CheckQueued(h) \/ TryGate(h)
  \/ AddEntry(h) \/ ChangeEntry(h) \/ RegistryRefuses(h) \/ UpdateCards(h)
  \/ SwapClient(h) \/ StoreRoute(h) \/ ImportEntries(h) \/ Rewire(h) \/ LeaveGate(h)

Next ==
  \/ Scheduler
  \/ Elapse
  \/ \E w \in Workers : Worker(w)
  \/ \E h \in Handlers : Arrive(h) \/ Handle(h)

(* Threads are scheduled by the operating system and a handler that has    *)
(* begun is run to its end; nothing makes a request arrive.  A pipeline is *)
(* taken to end.  The scheduler's spin on the gate is only weakly fair.    *)
Fairness ==
  /\ WF_vars(Scheduler)
  /\ \A w \in Workers : WF_vars(Worker(w))
  /\ \A h \in Handlers : WF_vars(Handle(h))

Spec == Init /\ [][Next]_vars
FairSpec == Spec /\ Fairness

-----------------------------------------------------------------------------
SchedulerHoldsGate ==
  pc \in {"on", "register", "claim", "execute", "off", "gateOff"}
HoldsGate(h) == hpc[h] \in {"registry", "cards", "reroute", "store",
                         "import", "rewire", "dropGate"}

(* Of the scheduler and the handlers that change the registry or the route *)
(* at most one owns the gate, and the flag says whether one does           *)
(* (acquire_backup_route_gate, try_acquire_route_gate, the guard's Drop).  *)
GateExclusive ==
  /\ SchedulerHoldsGate => \A h \in Handlers : ~HoldsGate(h)
  /\ \A g, h \in Handlers : HoldsGate(g) /\ HoldsGate(h) => g = h
  /\ gate <=> SchedulerHoldsGate \/ \E h \in Handlers : HoldsGate(h)

Busy(w) == wpc[w] # "free"

(* A database never has two pipelines: no two workers hold an index of it, *)
(* and none is left in the list while a worker has one.  This is what the  *)
(* claims of scheduled and manual runs are for (ADR-0003).                 *)
NoOverlap ==
  /\ \A v, w \in Workers : Busy(v) /\ Busy(w) /\ wdb[v] = wdb[w] => v = w
  /\ \A d \in Databases :
       jobs[d] <= (IF \E w \in Workers : Busy(w) /\ wdb[w] = d THEN 0 ELSE 1)

(* Whatever is being backed up, or is about to be, holds its claim from    *)
(* before the batch to the end of the pipeline, with the token that cancel *)
(* sets: a cancellation accepted as "Active" reaches the pipeline it was   *)
(* meant for (execute_database_indices against cancel and finish).         *)
PipelineHoldsClaim ==
  /\ \A w \in Workers : /\ Busy(w) => active[wdb[w]] # "absent"
                        /\ wpc[w] \in {"running", "ended"} => linked[w]
  /\ \A d \in Databases : jobs[d] > 0 => active[d] # "absent"

(* A claim is always somebody's to finish: of a worker or an index of a    *)
(* scheduled batch, or of the drained requests.  A claim that leaked would *)
(* refuse the database every later backup and every change.                *)
NoLeakedClaim ==
  \A d \in Active :
    \/ d \in batch
    \/ source = "scheduled" /\ (jobs[d] > 0 \/ \E w \in Workers : Busy(w) /\ wdb[w] = d)

(* Where the scheduler's local state lives: what makes the invariants      *)
(* above inductive.                                                        *)
SchedulerInv ==
  /\ \A d \in Databases : jobs[d] > 0 => pc \in {"gate", "on", "claim", "execute"}
  /\ source = "scheduled" /\ pc \in {"gate", "on"} => \A d \in Databases : jobs[d] = 0
  /\ \A w \in Workers : Busy(w) => pc = "execute" /\ wdb[w] \in Databases
  /\ batch # {} => \/ pc = "release"
                   \/ source = "manual" /\ pc \in {"gate", "on", "execute", "off", "gateOff"}
  /\ \A d \in batch : active[d] # "absent"
  /\ pc \in {"register", "claim"} => source = "scheduled"
  /\ source = "manual" =>
       \A d \in Databases :
         jobs[d] > 0 \/ (\E w \in Workers : Busy(w) /\ wdb[w] = d) => d \in batch

HandlerInv ==
  \A h \in Handlers :
    /\ hpc[h] \in {"backup", "cancel", "toggle", "card", "queued?"} => hdb[h] \in Databases
    /\ hid[h] = NoDatabase => hto[h] # "gone"
    /\ hpc[h] = "registry" => ~ForRoute(h)

IInv ==
  /\ TypeOK
  /\ QueueConsistent
  /\ GateExclusive
  /\ NoOverlap
  /\ PipelineHoldsClaim
  /\ NoLeakedClaim
  /\ SchedulerInv
  /\ HandlerInv

(* The Telegram client is never replaced between the first and the last    *)
(* chunk of a backup: the gate is held from before the first pipeline of a *)
(* batch until after the last (the comment on BACKUP_ROUTE_GATE).          *)
OneRoutePerBackup == [][(\E w \in Workers : Busy(w)) => route' = route]_vars

(* While a batch runs the registry it was planned from does not change.    *)
RegistryStillDuringBatch ==
  [][SchedulerHoldsGate => UNCHANGED <<entry, published>>]_vars

(* Cycles start one interval apart, counted from the start of each; a cron *)
(* cycle starts only once the target it waited for has come (run_scheduled *)
(* and its doc comment).                                                   *)
CyclesSpaced == [][pc = "on" /\ source = "scheduled" /\ pc' # pc => due]_vars

(* The stage of a database in the abstract lifecycle.                      *)
Stage(d) ==
  IF \E w \in Workers : wpc[w] = "running" /\ wdb[w] = d THEN "running"
  ELSE IF jobs[d] > 0 \/ \E w \in Workers : wpc[w] = "indexed" /\ wdb[w] = d THEN "claimed"
  ELSE IF active[d] # "absent" THEN "done"
  ELSE IF d \in pendingSet THEN "queued" ELSE "idle"

Lifecycle == INSTANCE BackupLifecycle WITH job <- [d \in Databases |-> Stage(d)]

(* Every database goes through the stages of BackupLifecycle: scheduled    *)
(* and manual runs of it never overlap, a cycle never starts one that is   *)
(* queued, and a claim runs one pipeline at most (ADR-0003).               *)
ImplementsLifecycle == Lifecycle!Spec

(* The gate as RouteGate has it, from the scheduler's side.                *)
Holder ==
  IF SchedulerHoldsGate THEN "batch"
  ELSE IF \E h \in Handlers : HoldsGate(h) THEN "request" ELSE "nobody"

Gate == INSTANCE RouteGate WITH holder <- Holder, up <- TRUE

(* A batch and a request are never inside together, and only a request     *)
(* that is inside replaces the client (acquire_backup_route_gate,          *)
(* try_acquire_route_gate).                                                *)
ImplementsGate == Gate!Spec

(* Who lies asleep beside a request that waits has been told of it: no     *)
(* wake-up falls between the look at the queue and the wait                *)
(* (wait_for_wake against request and cancel).                             *)
SleeperIsTold == pc = "sleep" /\ Waiting # {} => wakeup

(* A queued request leaves the queue, by being drained or cancelled, and a *)
(* claim is released, once the dashboard stops taking the gate: no wake-up *)
(* is lost, no claim leaks, no worker or batch is stuck.                   *)
GateLeftAlone == \A h \in Handlers : ~HoldsGate(h)
EveryRequestServed ==
  <>[]GateLeftAlone => \A d \in Databases : /\ d \in pendingSet ~> d \notin pendingSet
                                            /\ d \in Active ~> d \notin Active

(* A request that was accepted is executed (ADR-0003): whatever is drained *)
(* is in the copy of the registry that it is looked up in.                 *)
DrainedRequestsRun == [][pc = "take" /\ pc' # pc => Waiting \subseteq snap]_vars

(* No change is made to a database whose backup is queued or running       *)
(* (mutation_blocked).                                                     *)
NoChangeWhileQueued ==
  [][\A h \in Handlers : hpc[h] = "registry" /\ hpc'[h] = "cards" /\ hdb[h] # NoDatabase
        => ~CanCancel(hdb[h])]_vars

(* The dashboard accepts only configured names (ADR-0002, ADR-0003): when  *)
(* no handler is at work every card is that of a configured database.      *)
OnlyConfiguredKnown == (\A h \in Handlers : hpc[h] = "idle") => known \subseteq Configured
=============================================================================
