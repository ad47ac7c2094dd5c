---------------------------- MODULE HealthMonitor ----------------------------
(***************************************************************************)
(* Health checks of services: HealthMonitor of src/health_monitor.rs, its  *)
(* checker thread, the dashboard's handlers (src/web.rs) and the export of *)
(* src/migration.rs, with the files that survive a crash.                  *)
(*                                                                         *)
(* A mutex of the code is a set of places in the code: the operators       *)
(* ...Free say that no thread is at one of them.                           *)
(* Data abstracted: a check passes or fails; versions, reasons, codes,     *)
(* latencies and acknowledgements are left out; of the incidents the last  *)
(* of each service is kept, of the time of the last check whether it is    *)
(* less than an interval ago.                                              *)
(***************************************************************************)
EXTENDS Naturals

CONSTANTS
  Services,      \* bound: names of services
  Checker,       \* the thread of HealthMonitor::start
  Handlers,      \* bound: dashboard requests handled at one time
  MaxThreshold,  \* bound: failure_threshold
  MaxFailures,   \* bound: consecutive_failures saturates here
  MaxLives,      \* bound: how many services are given a name
  MaxCrashes,    \* bound
  Exports        \* the dashboard exports snapshots

ASSUME HealthAssumption ==
  /\ Checker \notin Handlers
  /\ MaxThreshold \in Nat \ {0} /\ MaxFailures \in Nat /\ MaxFailures >= MaxThreshold
  /\ MaxLives \in Nat /\ MaxCrashes \in Nat
  /\ Exports \in BOOLEAN

VARIABLES
  defined, enabled, threshold,  \* the definitions, in memory and in their file
  runtime, latest,              \* what is known of a service; its last incident
  savedRuntime, savedLatest,    \* the files of these two
  recent,                       \* checked less than an interval ago
  checking,                     \* the services being checked
  pc, svc, thr,                 \* each thread: where, with which definition
  plan,                         \* the checker's copy of the definitions: the
                                \* thresholds of the services still to look at
  up,
  born, life, crashes, told     \* history: services given a name, the number
                                \* of the last one of each name, crashes, the
                                \* last alert of each name

definitionVars == <<defined, enabled, threshold>>
memoryVars     == <<runtime, latest, recent, checking>>
fileVars       == <<savedRuntime, savedLatest>>
threadVars     == <<pc, svc, thr, plan>>
historyVars    == <<born, life, crashes, told>>
vars == <<definitionVars, memoryVars, fileVars, threadVars, up, historyVars>>

Threads == {Checker} \union Handlers

Entries   == [status : {"unknown", "up", "down"}, failures : 0 .. MaxFailures]
Absent    == [status |-> "unknown", failures |-> 0]
Incidents == [event : {"none", "outage", "recovery"}, failures : 0 .. MaxFailures]
NoEvent   == [event |-> "none", failures |-> 0]
Alerts    == [event : {"none", "outage", "recovery"}, life : 0 .. MaxLives,
              boot : 0 .. MaxCrashes, parity : BOOLEAN]

TypeOK ==
  /\ defined \in SUBSET Services /\ enabled \in SUBSET Services
  /\ threshold \in [Services -> 1 .. MaxThreshold]
  /\ runtime \in [Services -> Entries] /\ savedRuntime \in [Services -> Entries]
  /\ latest \in [Services -> Incidents] /\ savedLatest \in [Services -> Incidents]
  /\ recent \in SUBSET Services /\ checking \in SUBSET Services
  /\ pc \in [Threads -> {"idle", "next", "begin", "request", "event", "alert", "save", "end",
                         "forget", "incidents", "runtime"}]
  /\ svc \in [Threads -> Services]
  /\ thr \in [Threads -> 1 .. MaxThreshold]
  /\ plan \in [Services -> 0 .. MaxThreshold]
  /\ up \in BOOLEAN
  /\ born \in 0 .. MaxLives /\ life \in [Services -> 0 .. MaxLives] /\ crashes \in 0 .. MaxCrashes
  /\ told \in [Services -> Alerts]

Init ==
  /\ defined = {} /\ enabled = {} /\ threshold = [s \in Services |-> 1]
  /\ runtime = [s \in Services |-> Absent] /\ savedRuntime = runtime
  /\ latest = [s \in Services |-> NoEvent] /\ savedLatest = latest
  /\ recent = {} /\ checking = {}
  /\ pc = [t \in Threads |-> "idle"]
  /\ \E s \in Services : svc = [t \in Threads |-> s]
  /\ thr = [t \in Threads |-> 1]
  /\ plan = [s \in Services |-> 0]
  /\ up = TRUE
  /\ born = 0 /\ life = [s \in Services |-> 0] /\ crashes = 0
  /\ told = [s \in Services |-> [event |-> "none", life |-> 0, boot |-> 0, parity |-> FALSE]]

DefinitionsFree == \A t \in Threads : pc[t] \notin {"forget", "incidents", "runtime"}
IncidentsFree   == \A t \in Threads : pc[t] \notin {"alert", "runtime"}
RuntimeFree     == \A t \in Threads : pc[t] \notin {"event", "alert", "save"}

Goto(t, p) == pc' = [pc EXCEPT ![t] = p]
Rest(t) == IF t = Checker THEN "next" ELSE "idle"

-----------------------------------------------------------------------------
(* The checker's loop: it copies the definitions, looks at each in turn,   *)
(* and waits at the end (for a second, or until woken).                    *)
List ==
  /\ up
  /\ pc[Checker] = "idle"
  /\ DefinitionsFree
  /\ plan' = [s \in Services |-> IF s \in defined \intersect enabled THEN threshold[s] ELSE 0]
  /\ Goto(Checker, "next")
  /\ UNCHANGED <<definitionVars, memoryVars, fileVars, svc, thr, up, historyVars>>

(* should_check.                                                           *)
Look(s) ==
  /\ pc[Checker] = "next"
  /\ plan[s] > 0
  /\ RuntimeFree
  /\ plan' = [plan EXCEPT ![s] = 0]
  /\ IF s \in recent
       THEN UNCHANGED <<pc, svc, thr>>
       ELSE /\ svc' = [svc EXCEPT ![Checker] = s]
            /\ thr' = [thr EXCEPT ![Checker] = plan[s]]
            /\ Goto(Checker, "begin")
  /\ UNCHANGED <<definitionVars, memoryVars, fileVars, up, historyVars>>

Wait ==
  /\ pc[Checker] = "next"
  /\ \A s \in Services : plan[s] = 0
  /\ Goto(Checker, "idle")
  /\ UNCHANGED <<definitionVars, memoryVars, fileVars, svc, thr, plan, up, historyVars>>

(* check_now, up to begin_check.                                           *)
CheckNow(h, s) ==
  /\ up
  /\ pc[h] = "idle"
  /\ DefinitionsFree
  /\ s \in defined
  /\ svc' = [svc EXCEPT ![h] = s]
  /\ thr' = [thr EXCEPT ![h] = threshold[s]]
  /\ Goto(h, "begin")
  /\ UNCHANGED <<definitionVars, memoryVars, fileVars, plan, up, historyVars>>

(* Operators named Faulty... are seeded faults, used by no specification.  *)

FaultyMayBegin(s) == TRUE

MayBegin(s) == s \notin checking

(* begin_check: a service that is being checked is passed over.            *)
Begin(t) ==
  /\ pc[t] = "begin"
  /\ IF MayBegin(svc[t])
       THEN checking' = checking \union {svc[t]} /\ Goto(t, "request")
       ELSE Goto(t, Rest(t)) /\ UNCHANGED checking
  /\ UNCHANGED <<definitionVars, runtime, latest, recent, fileVars, svc, thr, plan, up,
                 historyVars>>

-----------------------------------------------------------------------------
(* record_check, once the requests of a check have been answered or given up. *)

OneMore(n) == IF n < MaxFailures THEN n + 1 ELSE n

After(e, ok, limit) ==
  IF ok THEN [status |-> "up", failures |-> 0]
  ELSE [status |-> IF OneMore(e.failures) >= limit THEN "down" ELSE e.status,
        failures |-> OneMore(e.failures)]

FaultyIsTransition(old, new) == new.status = "down" \/ old.status = "down"

IsTransition(old, new) == (old.status = "down") # (new.status = "down")

Record(t) ==
  LET s == svc[t] IN
  /\ pc[t] = "request"
  /\ RuntimeFree
  /\ \E ok \in BOOLEAN :
       LET new == After(runtime[s], ok, thr[t]) IN
       /\ runtime' = [runtime EXCEPT ![s] = new]
       /\ Goto(t, IF IsTransition(runtime[s], new) THEN "event" ELSE "save")
  /\ recent' = recent \union {s}
  /\ UNCHANGED <<definitionVars, latest, checking, fileVars, svc, thr, plan, up, historyVars>>

EventOf(e) == IF e.status = "down" THEN "outage" ELSE "recovery"

(* event: the incident is kept and written ...                             *)
Event(t) ==
  LET s == svc[t] IN
  /\ pc[t] = "event"
  /\ IncidentsFree
  /\ latest' = [latest EXCEPT ![s] = [event |-> EventOf(runtime[s]),
                                      failures |-> runtime[s].failures]]
  /\ savedLatest' = latest'
  /\ Goto(t, "alert")
  /\ UNCHANGED <<definitionVars, runtime, recent, checking, savedRuntime, svc, thr, plan, up,
                 historyVars>>

(* ... and told to the recipients, the two locks still held.               *)
Alert(t) ==
  LET s == svc[t] IN
  /\ pc[t] = "alert"
  /\ told' = [told EXCEPT ![s] = [event |-> EventOf(runtime[s]), life |-> life[s],
                                  boot |-> crashes, parity |-> ~told[s].parity]]
  /\ Goto(t, "save")
  /\ UNCHANGED <<definitionVars, memoryVars, fileVars, svc, thr, plan, up, born, life, crashes>>

FaultySaved == savedRuntime

Saved == runtime

(* The file of what is known of all services.                              *)
Save(t) ==
  /\ pc[t] = "save"
  /\ savedRuntime' = Saved
  /\ Goto(t, "end")
  /\ UNCHANGED <<definitionVars, memoryVars, savedLatest, svc, thr, plan, up, historyVars>>

FaultyUnmarked(t) == checking

Unmarked(t) == checking \ {svc[t]}

(* end_check.                                                              *)
End(t) ==
  /\ pc[t] = "end"
  /\ checking' = Unmarked(t)
  /\ Goto(t, Rest(t))
  /\ UNCHANGED <<definitionVars, runtime, latest, recent, fileVars, svc, thr, plan, up,
                 historyVars>>

-----------------------------------------------------------------------------
(* The dashboard's edits.                                                  *)

(* The name s is given the definition.                                     *)
Define(s, limit, on) ==
  /\ up /\ DefinitionsFree
  /\ enabled' = IF on THEN enabled \union {s} ELSE enabled \ {s}
  /\ threshold' = [threshold EXCEPT ![s] = limit]
  /\ UNCHANGED <<memoryVars, fileVars, threadVars, up, crashes, told>>

MayName(s) == s \notin defined /\ born < MaxLives
Named(s) == born' = born + 1 /\ life' = [life EXCEPT ![s] = born + 1]

Create(s, limit, on) ==
  /\ MayName(s) /\ Named(s)
  /\ defined' = defined \union {s}
  /\ Define(s, limit, on)

Update(s, limit, on) ==
  /\ s \in defined
  /\ Define(s, limit, on)
  /\ UNCHANGED <<defined, born, life>>

(* update with another name: what is known of the old name stays.          *)
Rename(s, new, limit, on) ==
  /\ s \in defined
  /\ MayName(new) /\ Named(new)
  /\ defined' = (defined \ {s}) \union {new}
  /\ Define(new, limit, on)

(* delete: the definition goes, then, that lock held, what is known of it. *)
Delete(h, s) ==
  /\ up /\ DefinitionsFree
  /\ pc[h] = "idle"
  /\ s \in defined
  /\ defined' = defined \ {s}
  /\ svc' = [svc EXCEPT ![h] = s]
  /\ Goto(h, "forget")
  /\ UNCHANGED <<enabled, threshold, memoryVars, fileVars, thr, plan, up, historyVars>>

Forget(h) ==
  /\ pc[h] = "forget"
  /\ RuntimeFree
  /\ runtime' = [runtime EXCEPT ![svc[h]] = Absent]
  /\ recent' = recent \ {svc[h]}
  /\ Goto(h, "idle")
  /\ UNCHANGED <<definitionVars, latest, checking, fileVars, svc, thr, plan, up, historyVars>>

(* snapshot: three locks taken in turn and held to the end.                *)
Export(h) ==
  /\ up /\ Exports
  /\ pc[h] = "idle"
  /\ DefinitionsFree
  /\ Goto(h, "incidents")
  /\ UNCHANGED <<definitionVars, memoryVars, fileVars, svc, thr, plan, up, historyVars>>

ExportIncidents(h) ==
  /\ pc[h] = "incidents"
  /\ IncidentsFree
  /\ Goto(h, "runtime")
  /\ UNCHANGED <<definitionVars, memoryVars, fileVars, svc, thr, plan, up, historyVars>>

ExportRuntime(h) ==
  /\ pc[h] = "runtime"
  /\ RuntimeFree
  /\ Goto(h, "idle")
  /\ UNCHANGED <<definitionVars, memoryVars, fileVars, svc, thr, plan, up, historyVars>>

-----------------------------------------------------------------------------
(* An interval goes by.                                                    *)
Elapse(s) ==
  /\ s \in recent
  /\ recent' = recent \ {s}
  /\ UNCHANGED <<definitionVars, runtime, latest, checking, fileVars, threadVars, up, historyVars>>

Crash ==
  /\ up /\ crashes < MaxCrashes
  /\ up' = FALSE
  /\ crashes' = crashes + 1
  /\ pc' = [t \in Threads |-> "idle"]
  /\ plan' = [s \in Services |-> 0]
  /\ checking' = {}
  /\ UNCHANGED <<definitionVars, runtime, latest, recent, fileVars, svc, thr, born, life, told>>

(* runtime_from_incident.                                                  *)
FromIncident(i) ==
  CASE i.event = "none"     -> Absent
    [] i.event = "outage"   -> [status |-> "down", failures |-> i.failures]
    [] i.event = "recovery" -> [status |-> "up", failures |-> i.failures]

(* What load makes of the files: the file of what was known goes first.    *)
Loaded(s) ==
  IF s \notin defined THEN Absent
  ELSE IF savedRuntime[s] # Absent THEN savedRuntime[s] ELSE FromIncident(savedLatest[s])

Restart ==
  /\ ~up
  /\ up' = TRUE
  /\ runtime' = [s \in Services |-> Loaded(s)]
  /\ latest' = savedLatest
  /\ recent' \in SUBSET {s \in recent : Loaded(s) # Absent}
  /\ UNCHANGED <<definitionVars, checking, fileVars, threadVars, historyVars>>

Check(t) == Begin(t) \/ Record(t) \/ Event(t) \/ Alert(t) \/ Save(t) \/ End(t)

Poll == List \/ (\E s \in Services : Look(s)) \/ Wait \/ Check(Checker)

Serve(h) == Check(h) \/ Forget(h) \/ ExportIncidents(h) \/ ExportRuntime(h)

Edit(s) ==
  \E limit \in 1 .. MaxThreshold, on \in BOOLEAN :
    Create(s, limit, on) \/ Update(s, limit, on) \/ \E new \in Services : Rename(s, new, limit, on)

Next ==
  \/ Poll
  \/ \E h \in Handlers : Serve(h) \/ Export(h)
  \/ \E h \in Handlers, s \in Services : CheckNow(h, s) \/ Delete(h, s)
  \/ \E s \in Services : Edit(s) \/ Elapse(s)
  \/ Crash \/ Restart

(* Threads run, requests time out, time goes by, the process is restarted. *)
(* Strong: a mutex that is released again and again is had in the end.     *)
Fairness ==
  /\ SF_vars(Poll)
  /\ \A h \in Handlers : SF_vars(Serve(h))
  /\ \A s \in Services : WF_vars(Elapse(s))
  /\ WF_vars(Restart)

Spec == Init /\ [][Next]_vars
FairSpec == Spec /\ Fairness

-----------------------------------------------------------------------------
Checks(t, s) == pc[t] \in {"request", "event", "alert", "save", "end"} /\ svc[t] = s

(* A service is marked as being checked exactly while one thread checks it:*)
(* two checks of it never overlap, and no mark is left behind that would   *)
(* refuse every later one (begin_check, end_check).                        *)
MarksExact ==
  /\ \A t \in Threads, s \in Services : Checks(t, s) => s \in checking
  /\ \A s \in checking : \E t \in Threads : Checks(t, s)
  /\ \A t, u \in Threads, s \in Services : Checks(t, s) /\ Checks(u, s) => t = u

(* The last alert of a name is of the service that has the name now, and   *)
(* was sent by this run of the process.                                    *)
Current(s) ==
  s \in defined /\ told[s].event # "none" /\ told[s].life = life[s] /\ told[s].boot = crashes

(* In one run of the process a service alerts on transitions only: no two  *)
(* outages without a recovery between, nor two recoveries, whatever is     *)
(* edited meanwhile (record_check).                                        *)
TransitionsOnly ==
  [][\A s \in Services :
       Current(s) /\ told'[s] # told[s] => told'[s].event # told[s].event]_vars

(* What a restart would read is what is shown, of every service that       *)
(* alerted in this run: the next transition is then told from the right    *)
(* state (record_check, load).                                             *)
RestartRemembers ==
  RuntimeFree => \A s \in Services : Current(s) => Loaded(s) = runtime[s]

(* Of those who hold a lock one waits for none, so the locks come free: no *)
(* cycle in the order they are taken (record_check, delete; it does not    *)
(* hold of snapshot, and is stated without exports).                       *)
HoldsLock(t) == pc[t] \in {"forget", "incidents", "runtime", "event", "alert", "save"}
WaitsForLock(t) ==
  \/ pc[t] \in {"forget", "runtime"} /\ ~RuntimeFree
  \/ pc[t] \in {"incidents", "event"} /\ ~IncidentsFree
NoLockCycle ==
  (\E t \in Threads : HoldsLock(t)) => \E t \in Threads : HoldsLock(t) /\ ~WaitsForLock(t)

(* An enabled service whose interval is over is checked (run).             *)
Polled(s) == s \in defined \intersect enabled
PolledAgain == \A s \in Services : (up /\ Polled(s) /\ s \notin recent) ~> (s \in recent \/ ~Polled(s))

-----------------------------------------------------------------------------
(* What the code's own texts say, and it does not do.                      *)

(* README, "one notification is sent when a service enters outage, and one *)
(* when it recovers": a service is not told to be in outage twice in a row.*)
OneNotification ==
  [][\A s \in defined :
       told'[s] # told[s] /\ told'[s].life = told[s].life => told'[s].event # told[s].event]_vars

(* The same sentence: an outage is not passed over in silence.             *)
OutageIsTold ==
  up /\ RuntimeFree =>
    \A s \in defined : runtime[s].status = "down" =>
      told[s].event = "outage" /\ told[s].life = life[s]
=============================================================================
