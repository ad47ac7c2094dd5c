------------------------------ MODULE RouteSwitch ------------------------------
(***************************************************************************)
(* Switching the route of Telegram traffic: the handlers of src/web.rs     *)
(* that apply a profile, disable routing and import a snapshot, beside     *)
(* those that edit profiles or choose the core, the profile store and the  *)
(* manager of src/routing.rs, the client everybody shares, backups, and    *)
(* the start of the program.                                               *)
(*                                                                         *)
(* apply, disable and import hold the route gate from their first step to  *)
(* their answer, so one record, op, holds the locals of whichever runs.    *)
(* Editing a profile and choosing a core do not take the gate.             *)
(***************************************************************************)
EXTENDS Naturals, RouteManager

CONSTANTS Profiles,    \* identifiers a profile can have
          Available,   \* the backends whose executable is installed
          Default,     \* the backend chosen when nothing was stored
          Ops,         \* the gated requests that are made
          Choosers,    \* requests to choose a core in flight at once
          SocksProxy   \* SOCKS_PROXY is set

ASSUME ConstantsOK ==
    /\ Available \subseteq Backends
    /\ Default \in Backends
    /\ Ops \subseteq {"apply", "disable", "import"}
    /\ SocksProxy \in BOOLEAN
    /\ None \notin Procs \cup Profiles \cup Backends
    /\ "stale" \notin Procs \cup {None}
    /\ "fallback" \notin Procs \cup {None}

VARIABLES up,          \* the program runs
          profiles,    \* ProfileStore: the compatible cores of each profile
          activeId,    \* the profile marked active
          selected,    \* the core chosen
          client,      \* what the shared client goes through
          reading,     \* the route of a request that holds the client's read lock
          gate,        \* BACKUP_ROUTE_GATE is taken
          backup,      \* a batch of backups runs
          op,          \* the locals of the gated request
          chooser      \* how far each select_routing_core has come

storeVars == <<profiles, activeId, selected>>
vars == <<routeVars, up, storeVars, client, reading, gate, backup, op,
          chooser>>

Fallback == "fallback"        \* SOCKS_PROXY, or a direct connection
Absent == {}                  \* no profile has this identifier

Steps == {"none", "look", "load", "url", "core", "compat", "start", "wait",
          "client", "swap", "store", "unswap", "commit", "clear", "stop",
          "rollback", "put", "failed", "done"}

NoOp == [kind |-> "none", step |-> "none", id |-> None, core |-> Default,
         proc |-> None, held |-> None, oldActive |-> None,
         oldClient |-> Fallback]

Requests ==
    [kind : {"none"} \cup Ops, step : Steps, id : Profiles \cup {None},
     core : Backends, proc : Procs \cup {None}, held : Procs \cup {None},
     oldActive : Procs \cup {None}, oldClient : Procs \cup {Fallback}]

Idle == [at |-> "idle", core |-> Default]
Choices == [at : {"idle", "stored", "running"}, core : Backends]

TypeOK ==
    /\ RouteTypeOK
    /\ up \in BOOLEAN
    /\ profiles \in [Profiles -> SUBSET Backends]
    /\ activeId \in Profiles \cup {None}
    /\ selected \in Backends
    /\ client \in Procs \cup {Fallback}
    /\ reading \in Procs \cup {Fallback, None}
    /\ gate \in BOOLEAN
    /\ backup \in BOOLEAN
    /\ op \in Requests
    /\ chooser \in [Choosers -> Choices]

Init ==
    /\ RouteInit
    /\ up = FALSE
    /\ profiles = [i \in Profiles |-> Absent]
    /\ activeId = None
    /\ selected = Default
    /\ client = Fallback
    /\ reading = None
    /\ gate = FALSE
    /\ backup = FALSE
    /\ op = NoOp
    /\ chooser = [c \in Choosers |-> Idle]

-----------------------------------------------------------------------------
\* The start of the program (main) and its end.

\* A name no process, slot or request holds.
Free(p) == p \notin live \cup {active, pending, op.proc, op.held}

\* The stored profile is started, or there is none or no executable for it.
BootRouted(p) ==
    /\ activeId # None
    /\ selected \in Available
    /\ ~SocksProxy
    /\ live' = live \cup {p}
    /\ died' = died \ {p}
    /\ kind' = [kind EXCEPT ![p] = selected]
    /\ file' = [file EXCEPT ![selected] = p]
    /\ active' = p
    /\ client' = p
    /\ up' = TRUE
    /\ UNCHANGED pending

BootUnrouted ==
    /\ \/ /\ activeId = None \/ selected \notin Available
          /\ UNCHANGED routeVars
       \/ /\ activeId # None /\ selected \in Available /\ ~SocksProxy
          /\ NotSpawned(selected)                  \* the executable is missing
    /\ client' = Fallback
    /\ up' = TRUE

\* The program exits again: SOCKS_PROXY beside an active profile, or a core
\* that does not come up.
BootFails ==
    /\ activeId # None
    /\ selected \in Available
    /\ IF SocksProxy THEN UNCHANGED routeVars ELSE NotSpawned(selected)
    /\ UNCHANGED <<client, up>>

Boot ==
    /\ ~up
    /\ BootUnrouted \/ BootFails \/ \E p \in Procs : Free(p) /\ BootRouted(p)
    /\ UNCHANGED <<storeVars, reading, gate, backup, op, chooser>>

Crash ==
    /\ up
    /\ Vanish
    /\ up' = FALSE
    /\ client' = Fallback
    /\ reading' = None
    /\ gate' = FALSE
    /\ backup' = FALSE
    /\ op' = NoOp
    /\ chooser' = [c \in Choosers |-> Idle]
    /\ UNCHANGED storeVars

-----------------------------------------------------------------------------
\* What goes on beside the gated requests.

\* A batch of backups takes the gate and keeps it to its end.
BackupBegins ==
    /\ up /\ ~gate
    /\ gate' = TRUE
    /\ backup' = TRUE
    /\ UNCHANGED <<routeVars, up, storeVars, client, reading, op, chooser>>

BackupEnds ==
    /\ backup
    /\ gate' = FALSE
    /\ backup' = FALSE
    /\ UNCHANGED <<routeVars, up, storeVars, client, reading, op, chooser>>

\* An upload, the history worker's too, holds the client's read lock while
\* its request is under way; the gate is none of its business.
ReadBegins ==
    /\ up /\ reading = None
    /\ reading' = client
    /\ UNCHANGED <<routeVars, up, storeVars, client, gate, backup, op,
                   chooser>>

ReadEnds ==
    /\ reading # None
    /\ reading' = None
    /\ UNCHANGED <<routeVars, up, storeVars, client, gate, backup, op,
                   chooser>>

CoreDies ==
    /\ \E p \in Procs : Dies(p)
    /\ UNCHANGED <<up, storeVars, client, reading, gate, backup, op,
                   chooser>>

\* create_ and update_routing_profile: probing leaves a non-empty set of
\* installed cores; an update neither looks at activeId nor at the route.
SaveProfile(i, cores) ==
    /\ up
    /\ cores # Absent
    /\ profiles' = [profiles EXCEPT ![i] = cores]
    /\ UNCHANGED <<routeVars, up, activeId, selected, client, reading, gate,
                   backup, op, chooser>>

\* Mutant of DeleteProfile: the mark of the active profile stays.
FaultyDeleteProfile(i) ==
    /\ up /\ profiles[i] # Absent
    /\ profiles' = [profiles EXCEPT ![i] = Absent]
    /\ UNCHANGED <<routeVars, up, activeId, selected, client, reading, gate,
                   backup, op, chooser>>

DeleteProfile(i) ==
    /\ up /\ profiles[i] # Absent
    /\ profiles' = [profiles EXCEPT ![i] = Absent]
    /\ activeId' = IF activeId = i THEN None ELSE activeId
    /\ UNCHANGED <<routeVars, up, selected, client, reading, gate, backup,
                   op, chooser>>

\* select_routing_profile: set_active alone; the route stays what it is.
SelectProfile(i) ==
    /\ up /\ profiles[i] # Absent
    /\ activeId' = i
    /\ UNCHANGED <<routeVars, up, profiles, selected, client, reading, gate,
                   backup, op, chooser>>

\* select_routing_core looks at the store, then at the manager, then writes.
ChooseBegins(c, b) ==
    /\ up /\ chooser[c].at = "idle"
    /\ b \in Available
    /\ activeId = None \/ selected \notin Available
    /\ chooser' = [chooser EXCEPT ![c] = [at |-> "stored", core |-> b]]
    /\ UNCHANGED <<routeVars, up, storeVars, client, reading, gate, backup,
                   op>>

ChooseLooks(c) ==
    /\ chooser[c].at = "stored"
    /\ chooser' = [chooser EXCEPT ![c] =
                     IF active = None THEN [@ EXCEPT !.at = "running"] ELSE Idle]
    /\ UNCHANGED <<routeVars, up, storeVars, client, reading, gate, backup,
                   op>>

ChooseEnds(c) ==
    /\ chooser[c].at = "running"
    /\ selected' \in {selected, chooser[c].core}     \* the write may fail
    /\ chooser' = [chooser EXCEPT ![c] = Idle]
    /\ UNCHANGED <<routeVars, up, profiles, activeId, client, reading, gate,
                   backup, op>>

-----------------------------------------------------------------------------
\* The gated requests, one step at a time.

beside == <<up, reading, backup, chooser>>

GoTo(step) == op' = [op EXCEPT !.step = step]
\* The disjunct of a step that ends with an error answer.
Refuse == GoTo("failed")
\* Mutant of StartRefused: apply, too, rolls back what was never taken over.
FaultyStartRefused == GoTo("rollback")

\* apply answers a failed start at once, import rolls back first.
StartRefused == GoTo(IF op.kind = "import" THEN "rollback" ELSE "failed")

First(k) ==
    CASE k = "apply" -> "url" [] k = "disable" -> "look" [] OTHER -> "load"

Request(k, i) ==
    /\ up /\ ~gate
    /\ gate' = TRUE
    /\ op' = [NoOp EXCEPT !.kind = k, !.step = First(k), !.id = i,
                          !.oldActive = active, !.oldClient = client]
    /\ UNCHANGED <<routeVars, storeVars, client, beside>>

\* Mutant of Answer: an error answer forgets to let go of the gate.
FaultyAnswer ==
    /\ op.step \in {"done", "failed"}
    /\ gate' = (op.step = "failed")
    /\ op' = NoOp
    /\ UNCHANGED <<routeVars, storeVars, client, beside>>

Answer ==
    /\ op.step \in {"done", "failed"}
    /\ gate' = FALSE
    /\ op' = NoOp
    /\ UNCHANGED <<routeVars, storeVars, client, beside>>

\* disable: nothing to do when neither a profile nor a process is active.
Look ==
    /\ op.step = "look"
    /\ GoTo(IF activeId = None /\ active = None THEN "done" ELSE "client")
    /\ UNCHANGED <<routeVars, storeVars, client, gate, beside>>

\* import: validate_and_apply rejects or restores what was, or replaces the
\* whole store with a snapshot whose active profile exists.
Load ==
    /\ op.step = "load"
    /\ \/ Refuse /\ UNCHANGED storeVars
       \/ /\ profiles' \in [Profiles -> SUBSET Backends]
          /\ activeId' \in {None} \cup {i \in Profiles : profiles'[i] # Absent}
          /\ selected' \in Backends
          /\ GoTo("url")
    /\ UNCHANGED <<routeVars, client, gate, beside>>

\* get_url of the profile to apply; active_url after an import.
ReadUrl ==
    /\ op.step = "url"
    /\ GoTo(IF op.kind = "import"
              THEN IF activeId = None THEN "stop" ELSE "core"
              ELSE IF profiles[op.id] = Absent THEN "failed" ELSE "core")
    /\ UNCHANGED <<routeVars, storeVars, client, gate, beside>>

\* selected_core and is_available; apply looks at compatibility next.
ReadCore ==
    /\ op.step = "core"
    /\ op' = [op EXCEPT
                !.core = selected,
                !.step = CASE op.kind = "apply" ->
                                IF selected \in Available THEN "compat" ELSE "failed"
                           [] OTHER ->
                                IF selected \in Available THEN "start" ELSE "rollback"]
    /\ UNCHANGED <<routeVars, storeVars, client, gate, beside>>

ReadCompatible ==
    /\ op.step = "compat"
    /\ GoTo(IF op.core \in profiles[op.id] THEN "start" ELSE "failed")
    /\ UNCHANGED <<routeVars, storeVars, client, gate, beside>>

\* RouteManager::apply.
Start ==
    /\ op.step = "start"
    /\ \/ NotSpawned(op.core) /\ StartRefused
       \/ \E p \in Procs :
             /\ Free(p)
             /\ Spawn(p, op.core)
             /\ op' = [op EXCEPT !.step = "wait", !.proc = p]
    /\ UNCHANGED <<storeVars, client, gate, beside>>

Listen ==
    /\ op.step = "wait"
    /\ \/ TakeOver(op.proc) /\ GoTo("client")
       \/ GiveUp(op.proc) /\ StartRefused
    /\ UNCHANGED <<storeVars, client, gate, beside>>

\* Mutant of BuildClient: an import that gets no client answers at once.
FaultyBuildClient ==
    /\ op.step = "client"
    /\ \/ GoTo(CASE op.kind = "apply" -> "swap"
                 [] op.kind = "disable" -> "clear"
                 [] OTHER -> "commit")
       \/ GoTo(IF op.kind = "apply" THEN "rollback" ELSE "failed")
    /\ UNCHANGED <<routeVars, storeVars, client, gate, beside>>

\* A client for the new route is built on another thread, or cannot be.
BuildClient ==
    /\ op.step = "client"
    /\ \/ GoTo(CASE op.kind = "apply" -> "swap"
                 [] op.kind = "disable" -> "clear"
                 [] OTHER -> "commit")
       \/ GoTo(IF op.kind = "disable" THEN "failed" ELSE "rollback")
    /\ UNCHANGED <<routeVars, storeVars, client, gate, beside>>

\* Mutant of SwapClient: it does not wait for those who hold the read lock.
HastySwapClient ==
    /\ op.step = "swap"
    /\ client' = IF op.proc = None THEN Fallback ELSE op.proc
    /\ GoTo(IF op.kind = "apply" THEN "store" ELSE "done")
    /\ UNCHANGED <<routeVars, storeVars, gate, beside>>

\* client.write() waits for everybody who holds the read lock.
SwapClient ==
    /\ op.step = "swap" /\ reading = None
    /\ client' = IF op.proc = None THEN Fallback ELSE op.proc
    /\ GoTo(IF op.kind = "apply" THEN "store" ELSE "done")
    /\ UNCHANGED <<routeVars, storeVars, gate, beside>>

\* Mutant of StoreActive: a failed write leaves the client on the new route.
FaultyStoreActive ==
    /\ op.step = "store"
    /\ \/ GoTo("commit") /\ activeId' = IF profiles[op.id] = Absent
                                          THEN activeId ELSE op.id
       \/ GoTo("rollback") /\ UNCHANGED activeId /\ profiles[op.id] # Absent
    /\ UNCHANGED <<routeVars, profiles, selected, client, gate, beside>>

\* apply: set_active. Only an error is looked at: Ok(false), for a profile
\* deleted since its URL was read, counts as success.
StoreActive ==
    /\ op.step = "store"
    /\ \/ GoTo("commit") /\ activeId' = IF profiles[op.id] = Absent
                                          THEN activeId ELSE op.id
       \/ GoTo("unswap") /\ UNCHANGED activeId /\ profiles[op.id] # Absent
    /\ UNCHANGED <<routeVars, profiles, selected, client, gate, beside>>

UnswapClient ==
    /\ op.step = "unswap" /\ reading = None
    /\ client' = op.oldClient
    /\ GoTo("rollback")
    /\ UNCHANGED <<routeVars, storeVars, gate, beside>>

CommitRoute ==
    /\ op.step = "commit"
    /\ Commit
    /\ GoTo(IF op.kind = "apply" THEN "done" ELSE "swap")
    /\ UNCHANGED <<storeVars, client, gate, beside>>

Rollback ==
    /\ op.step = "rollback"
    /\ RollbackTake
    /\ op' = [op EXCEPT !.step = "put", !.held = pending, !.proc = None]
    /\ UNCHANGED <<storeVars, client, gate, beside>>

PutBack ==
    /\ op.step = "put"
    /\ RollbackPut(op.held)
    /\ op' = [op EXCEPT !.step = "failed", !.held = None]
    /\ UNCHANGED <<storeVars, client, gate, beside>>

\* disable: clear_active, which writes nothing when there is nothing to clear.
ClearActive ==
    /\ op.step = "clear"
    /\ \/ activeId' = None /\ GoTo("stop")
       \/ activeId # None /\ Refuse /\ UNCHANGED activeId
    /\ UNCHANGED <<routeVars, profiles, selected, client, gate, beside>>

StopRoute ==
    /\ op.step = "stop"
    /\ Stop
    /\ GoTo(IF op.kind = "disable" THEN "swap" ELSE "client")
    /\ UNCHANGED <<storeVars, client, gate, beside>>

-----------------------------------------------------------------------------
OpStep ==
    \/ Look \/ Load \/ ReadUrl \/ ReadCore \/ ReadCompatible \/ Start \/ Listen
    \/ BuildClient \/ SwapClient \/ StoreActive \/ UnswapClient \/ CommitRoute
    \/ Rollback \/ PutBack \/ ClearActive \/ StopRoute \/ Answer

Edit ==
    \/ \E i \in Profiles :
          \/ DeleteProfile(i) \/ SelectProfile(i)
          \/ \E cores \in SUBSET Available : SaveProfile(i, cores)
    \/ \E c \in Choosers :
          \/ \E b \in Backends : ChooseBegins(c, b)
          \/ ChooseLooks(c) \/ ChooseEnds(c)

Next ==
    \/ Boot \/ Crash \/ BackupBegins \/ BackupEnds \/ ReadBegins \/ ReadEnds
    \/ CoreDies \/ Edit \/ OpStep
    \/ \E k \in Ops, i \in Profiles : Request(k, i)

Spec == Init /\ [][Next]_vars

\* A handler that runs goes on, and so does a backup. A writer that waits is
\* not starved: the lock holds new readers back while a writer waits, which
\* the model leaves out, hence the strong fairness of the two swaps.
FairSpec ==
    /\ Spec
    /\ WF_vars(OpStep) /\ SF_vars(SwapClient) /\ SF_vars(UnswapClient)
    /\ WF_vars(BackupEnds) /\ WF_vars(ReadEnds)

-----------------------------------------------------------------------------
(* Properties *)

Switching == op.step # "none"

\* No process is forgotten: each that runs is held by a slot or by the
\* request under way, and at rest only the active one runs.
NoStrayCore ==
    /\ live \subseteq {active, pending, op.proc, op.held}
    /\ ~Switching => live \subseteq {active} /\ pending = None

\* The process in the slot was never stopped by the program: it runs, or it
\* ended by itself.
ActiveNotStopped == active # None => active \in live \cup died

\* At rest the shared client goes through the active process when there is
\* one and past it when there is none (apply and disable only).
ClientFollowsRoute ==
    up /\ ~Switching => client = IF active = None THEN Fallback ELSE active

\* A request that is answered with an error leaves route and client as they
\* were when it came.
RouteKept ==
    op.step = "failed" => active = op.oldActive /\ client = op.oldClient

\* Nothing goes past a route that is active, imports or not; what fails
\* leaves the old route or none, and never the new one.
RouteObeyed ==
    /\ up /\ ~Switching /\ active # None => client = active
    /\ op.step = "failed" => active \in {op.oldActive, None} /\ client = op.oldClient

\* A snapshot whose profile cannot be started leaves the route alone too.
ReplacementKept ==
    op.step = "failed" /\ activeId # None =>
        active = op.oldActive /\ client = op.oldClient

\* The profile marked active exists, whoever edits, deletes or imports.
ActiveExists == activeId # None => profiles[activeId] # Absent

\* At rest a configuration with its credentials lies on disk only for the
\* active process, or since an earlier life of the program.
NoStrayConfig ==
    ~Switching => \A b \in Backends : file[b] \in {None, Stale, active}

\* The running process is of the selected core.
SelectedRuns == active # None => kind[active] = selected

\* While a batch of backups holds the gate its route does not change.
BackupKeepsRoute ==
    [][backup /\ backup' => client' = client /\ active' = active]_vars

\* The gate as RouteGate has it, from the requests' side.
Holder == IF backup THEN "batch" ELSE IF Switching THEN "request" ELSE "nobody"

Gate == INSTANCE RouteGate WITH holder <- Holder, route <- client

\* A batch and a request are never inside together, and only a request that
\* is inside replaces the client, but for the start of the program.
ImplementsGate == Gate!Spec

\* A request through the shared client is not cut off by the program: the
\* process it goes through is not stopped before it ends, but by disabling
\* the route (and by imports, which may do the same).
ReadKeepsRoute ==
    [][up' /\ reading \in live /\ op.kind # "disable"
         => reading \in live' \cup died']_vars

\* How near a request is to its answer.
Nearness ==
    CASE op.step \in {"none", "look", "load"} -> 0
      [] op.step = "url"      -> 1
      [] op.step = "core"     -> 2
      [] op.step = "compat"   -> 3
      [] op.step = "start"    -> 4
      [] op.step = "wait"     -> 5
      [] op.step = "stop"     -> IF op.kind = "disable" THEN 9 ELSE 6
      [] op.step = "client"   -> 7
      [] op.step = "clear"    -> 8
      [] op.step = "commit"   -> IF op.kind = "apply" THEN 12 ELSE 8
      [] op.step = "swap"     -> 10
      [] op.step = "store"    -> 11
      [] op.step = "unswap"   -> 12
      [] op.step = "rollback" -> 13
      [] op.step = "put"      -> 14
      [] OTHER                -> 15

\* Every step of a request that holds the gate brings it nearer to the answer
\* that lets go of it, on the ways back too (apply, disable, import).
RequestsAdvance == [][OpStep /\ ~Answer => Nearness < Nearness']_vars

\* The gate that the scheduler spins on always comes back.
GateReturns == []<>~gate
===============================================================================
