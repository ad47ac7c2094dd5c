-------------------------- MODULE RestoreRequests ---------------------------
(***************************************************************************)
(* Restores asked for on the dashboard: RestoreController of               *)
(* src/restore.rs, the handlers create_restore, approve_restore and        *)
(* cancel_restore of src/web.rs, the worker thread an approval starts      *)
(* (download_and_restore), and the recovery after a crash.                 *)
(*                                                                         *)
(* A backup stands for its database, and its workspace on the disk is      *)
(* named after it.  Data abstracted: parts are counted, their bytes, keys  *)
(* and checksums only succeed or fail.                                     *)
(***************************************************************************)
EXTENDS Naturals

CONSTANTS
  Requests,    \* bound: the ids of requests
  Databases,   \* the databases with a backup
  Handlers,    \* bound: requests handled at one time
  NumParts,    \* bound: the parts of a backup
  KeepFailed   \* KEEP_FAILED_DUMPS

ASSUME RestoreAssumption ==
  /\ Requests # {}
  /\ NumParts \in Nat
  /\ KeepFailed \in BOOLEAN

VARIABLES
  status, target, mode,   \* the file of requests
  registered,             \* the requests with a token in `cancellations`
  fired,                  \* the requests whose token is set
  hpc, hreq, hrole,       \* approve_restore in each handler
  worker, job, holds, left, verdict,  \* the thread of each request: where it is,
                          \* the mode it was approved in, whether it was
                          \* given a token, the parts to download, its result
  approver,               \* who approved the request
  workspaces,             \* the directories restore-* on the disk
  up,                     \* the process runs
  faulty                  \* the file of requests may fail to be written: chosen
                          \* once and for all

fileVars    == <<status, target, mode>>
tokenVars   == <<registered, fired>>
handlerVars == <<hpc, hreq, hrole>>
workerVars  == <<worker, job, holds, left, verdict>>
vars == <<fileVars, tokenVars, handlerVars, workerVars, approver, workspaces, up, faulty>>

Modes    == {"safe", "clean"}
Roles    == {"operator", "admin"}
Active   == {"queued", "running"}
Terminal == {"succeeded", "failed", "cancelled"}
Inside   == {"fetch", "check", "unpack", "restoring", "sweep"}  \* the workspace is in use

TypeOK ==
  /\ status \in [Requests -> Active \union Terminal \union {"none"}]
  /\ target \in [Requests -> Databases]
  /\ mode \in [Requests -> Modes]
  /\ registered \in SUBSET Requests
  /\ fired \in SUBSET Requests
  /\ hpc \in [Handlers -> {"idle", "approve", "token"}]
  /\ hreq \in [Handlers -> Requests]
  /\ hrole \in [Handlers -> Roles]
  /\ worker \in [Requests -> {"none", "lookup", "finish"} \union Inside]
  /\ job \in [Requests -> Modes]
  /\ holds \in [Requests -> BOOLEAN]
  /\ left \in [Requests -> 0 .. NumParts]
  /\ verdict \in [Requests -> {"succeeded", "failed"}]
  /\ approver \in [Requests -> Roles]
  /\ workspaces \in SUBSET Databases
  /\ up \in BOOLEAN /\ faulty \in BOOLEAN

\* What a handler and a thread that do not run have in their locals.
Nobody == CHOOSE r \in Requests : TRUE

Init ==
  /\ status = [r \in Requests |-> "none"]
  /\ \E d \in Databases : target = [r \in Requests |-> d]
  /\ mode = [r \in Requests |-> "safe"]
  /\ registered = {} /\ fired = {}
  /\ hpc = [h \in Handlers |-> "idle"]
  /\ hreq = [h \in Handlers |-> Nobody]
  /\ hrole = [h \in Handlers |-> "operator"]
  /\ worker = [r \in Requests |-> "none"]
  /\ job = [r \in Requests |-> "safe"]
  /\ holds = [r \in Requests |-> FALSE]
  /\ left = [r \in Requests |-> 0]
  /\ verdict = [r \in Requests |-> "failed"]
  /\ approver = [r \in Requests |-> "operator"]
  /\ workspaces = {}
  /\ up = TRUE
  /\ faulty \in BOOLEAN

-----------------------------------------------------------------------------
(* Operators named Faulty... are seeded faults, used by no specification.  *)

Free(d) == \A r \in Requests : target[r] = d => status[r] \notin Active

(* create_restore and RestoreController::queue.  A clean restore is asked  *)
(* for by an administrator.                                                *)
Create(r, d, m) ==
  /\ up
  /\ status[r] = "none"
  /\ Free(d)
  /\ status' = [status EXCEPT ![r] = "queued"]
  /\ target' = [target EXCEPT ![r] = d]
  /\ mode' = [mode EXCEPT ![r] = m]
  /\ UNCHANGED <<tokenVars, handlerVars, workerVars, approver, workspaces, up, faulty>>

(* approve_restore: set_mode; a request that is not queued ends it.        *)
SetMode(h, r, role, m) ==
  /\ up
  /\ hpc[h] = "idle"
  /\ m = "clean" => role = "admin"
  /\ status[r] = "queued"
  /\ mode' = [mode EXCEPT ![r] = m]
  /\ hpc' = [hpc EXCEPT ![h] = "approve"]
  /\ hreq' = [hreq EXCEPT ![h] = r]
  /\ hrole' = [hrole EXCEPT ![h] = role]
  /\ UNCHANGED <<status, target, tokenVars, workerVars, approver, workspaces, up, faulty>>

FaultyMayApprove(r, role) == status[r] = "queued"

FaultyStillOpen(r, role) == status[r] \in Active /\ (mode[r] = "clean" => role = "admin")

(* The mode may be another by now than the one this handler set.           *)
MayApprove(r, role) == status[r] = "queued" /\ (mode[r] = "clean" => role = "admin")

(* approve_as.                                                             *)
Approve(h) ==
  LET r == hreq[h] IN
  /\ hpc[h] = "approve"
  /\ MayApprove(r, hrole[h])
  /\ status' = [status EXCEPT ![r] = "running"]
  /\ approver' = [approver EXCEPT ![r] = hrole[h]]
  /\ job' = [job EXCEPT ![r] = mode[r]]
  /\ registered' = registered \union {r}
  /\ hpc' = [hpc EXCEPT ![h] = "token"]
  /\ UNCHANGED <<target, mode, fired, hreq, hrole, worker, holds, left, verdict, workspaces, up, faulty>>

Leave(h) ==
  /\ hpc' = [hpc EXCEPT ![h] = "idle"]
  /\ hreq' = [hreq EXCEPT ![h] = Nobody]
  /\ hrole' = [hrole EXCEPT ![h] = "operator"]

Refuse(h) ==
  /\ hpc[h] = "approve"
  /\ ~MayApprove(hreq[h], hrole[h]) \/ faulty
  /\ Leave(h)
  /\ UNCHANGED <<fileVars, tokenVars, workerVars, approver, workspaces, up, faulty>>

(* cancellation_token, and the thread is spawned.                          *)
Launch(h) ==
  LET r == hreq[h] IN
  /\ hpc[h] = "token"
  /\ holds' = [holds EXCEPT ![r] = r \in registered]
  /\ worker' = [worker EXCEPT ![r] = "lookup"]
  /\ Leave(h)
  /\ UNCHANGED <<fileVars, tokenVars, job, left, verdict, approver, workspaces, up, faulty>>

(* RestoreController::cancel sets the token before it writes the file.     *)
Cancel(r) ==
  /\ up
  /\ status[r] \in Active
  /\ fired' = IF status[r] = "running" /\ r \in registered THEN fired \union {r} ELSE fired
  /\ \/ /\ status' = [status EXCEPT ![r] = "cancelled"]
        /\ registered' = registered \ {r}
     \/ faulty /\ UNCHANGED <<status, registered>>
  /\ UNCHANGED <<target, mode, handlerVars, workerVars, approver, workspaces, up, faulty>>

-----------------------------------------------------------------------------
(* The worker of a request.                                                *)

Told(r) == holds[r] /\ r \in fired
Goto(r, p) == worker' = [worker EXCEPT ![r] = p]
Stop(r, v) == Goto(r, "sweep") /\ verdict' = [verdict EXCEPT ![r] = v]

(* The manifest, the database and the keys are looked up; the workspace is *)
(* made.                                                                   *)
Lookup(r) ==
  /\ worker[r] = "lookup"
  /\ \/ /\ Goto(r, "fetch")
        /\ left' = [left EXCEPT ![r] = NumParts]
        /\ workspaces' = workspaces \union {target[r]}
        /\ UNCHANGED verdict
     \/ /\ Goto(r, "finish")
        /\ verdict' = [verdict EXCEPT ![r] = "failed"]
        /\ UNCHANGED <<left, workspaces>>
  /\ UNCHANGED <<fileVars, tokenVars, handlerVars, job, holds, approver, up, faulty>>

MoreParts(r) == left[r] > 0

(* One turn of the loop over the parts.                                    *)
Fetch(r) ==
  /\ worker[r] = "fetch"
  /\ MoreParts(r)
  /\ \/ /\ ~Told(r) /\ target[r] \in workspaces
        /\ left' = [left EXCEPT ![r] = @ - 1]
        /\ UNCHANGED <<worker, verdict>>
     \/ /\ Stop(r, "failed")
        /\ UNCHANGED left
  /\ UNCHANGED <<fileVars, tokenVars, handlerVars, job, holds, approver, workspaces, up, faulty>>

FetchedAll(r) ==
  /\ worker[r] = "fetch"
  /\ left[r] = 0
  /\ Goto(r, "check")
  /\ UNCHANGED <<fileVars, tokenVars, handlerVars, job, holds, left, verdict, approver,
                 workspaces, up, faulty>>

(* The last look at the token.                                             *)
LastCheck(r) ==
  /\ worker[r] = "check"
  /\ \/ ~Told(r) /\ Goto(r, "unpack") /\ UNCHANGED verdict
     \/ Told(r) /\ Stop(r, "failed")
  /\ UNCHANGED <<fileVars, tokenVars, handlerVars, job, holds, left, approver, workspaces, up, faulty>>

(* reassemble_and_verify, then restore_archive up to pg_restore; it makes  *)
(* the directory again when another worker has removed it in between.      *)
Unpack(r) ==
  /\ worker[r] = "unpack"
  /\ \/ target[r] \in workspaces /\ Goto(r, "restoring") /\ UNCHANGED <<verdict, workspaces>>
     \/ Stop(r, "failed") /\ workspaces' \in {workspaces, workspaces \union {target[r]}}
  /\ UNCHANGED <<fileVars, tokenVars, handlerVars, job, holds, left, approver, up, faulty>>

(* pg_restore, or psql, exits.                                             *)
Restored(r) ==
  /\ worker[r] = "restoring"
  /\ \E v \in {"succeeded", "failed"} : Stop(r, v)
  /\ UNCHANGED <<fileVars, tokenVars, handlerVars, job, holds, left, approver, workspaces, up, faulty>>

FaultySwept(v) == v = "succeeded"

Swept(v) == v = "succeeded" \/ ~KeepFailed

Sweep(r) ==
  /\ worker[r] = "sweep"
  /\ workspaces' = IF Swept(verdict[r]) THEN workspaces \ {target[r]} ELSE workspaces
  /\ Goto(r, "finish")
  /\ UNCHANGED <<fileVars, tokenVars, handlerVars, job, holds, left, verdict, approver, up, faulty>>

MayFinish(r) == status[r] = "running"

(* finish; its error is ignored.  A failure of a cancelled request is not  *)
(* reported.                                                               *)
Finish(r) ==
  /\ worker[r] = "finish"
  /\ \/ /\ MayFinish(r)
        /\ status' = [status EXCEPT ![r] = verdict[r]]
        /\ registered' = registered \ {r}
     \/ /\ ~MayFinish(r) \/ faulty
        /\ UNCHANGED <<status, registered>>
  /\ worker' = [worker EXCEPT ![r] = "none"]
  /\ job' = [job EXCEPT ![r] = "safe"]
  /\ approver' = [approver EXCEPT ![r] = "operator"]
  /\ holds' = [holds EXCEPT ![r] = FALSE]
  /\ left' = [left EXCEPT ![r] = 0]
  /\ verdict' = [verdict EXCEPT ![r] = "failed"]
  /\ fired' = fired \ {r}
  /\ UNCHANGED <<target, mode, handlerVars, workspaces, up, faulty>>

-----------------------------------------------------------------------------
(* The process dies, and its threads with it; what is on the disk stays.   *)
Crash ==
  /\ up
  /\ up' = FALSE
  /\ registered' = {} /\ fired' = {}
  /\ hpc' = [h \in Handlers |-> "idle"]
  /\ hreq' = [h \in Handlers |-> Nobody]
  /\ hrole' = [h \in Handlers |-> "operator"]
  /\ worker' = [r \in Requests |-> "none"]
  /\ job' = [r \in Requests |-> "safe"]
  /\ approver' = [r \in Requests |-> "operator"]
  /\ holds' = [r \in Requests |-> FALSE]
  /\ left' = [r \in Requests |-> 0]
  /\ verdict' = [r \in Requests |-> "failed"]
  /\ UNCHANGED <<fileVars, workspaces, faulty>>

FaultyRecovered(s) == s

(* recover_stale_running.                                                  *)
Recovered(s) == IF s = "running" THEN "failed" ELSE s

(* main: stale workspaces are removed, then running requests are failed,   *)
(* before the dashboard starts.                                            *)
Restart ==
  /\ ~up
  /\ up' = TRUE
  /\ workspaces' = IF KeepFailed THEN workspaces ELSE {}
  /\ \/ status' = [r \in Requests |-> Recovered(status[r])]
     \/ faulty /\ UNCHANGED status
  /\ UNCHANGED <<target, mode, tokenVars, handlerVars, workerVars, approver, faulty>>

Worker(r) ==
  \/ Lookup(r) \/ Fetch(r) \/ FetchedAll(r) \/ LastCheck(r) \/ Unpack(r) \/ Restored(r)
  \/ Sweep(r) \/ Finish(r)

Proceed(h) == Approve(h) \/ Refuse(h) \/ Launch(h)

Next ==
  \/ \E r \in Requests, d \in Databases, m \in Modes : Create(r, d, m)
  \/ \E h \in Handlers, r \in Requests, role \in Roles, m \in Modes : SetMode(h, r, role, m)
  \/ \E h \in Handlers : Proceed(h)
  \/ \E r \in Requests : Cancel(r) \/ Worker(r)
  \/ Crash \/ Restart

(* Threads are scheduled, downloads time out, the process is restarted;    *)
(* and, an assumption about PostgreSQL, pg_restore ends.                   *)
Fairness ==
  /\ \A h \in Handlers : WF_vars(Proceed(h))
  /\ \A r \in Requests : WF_vars(Worker(r))
  /\ WF_vars(Restart)

Spec == Init /\ [][Next]_vars
FairSpec == Spec /\ Fairness

-----------------------------------------------------------------------------
(* At most one request of a database waits or runs: looking and adding are *)
(* one step under the controller's lock (queue).                           *)
OneActive ==
  \A r, s \in Requests :
    r # s /\ status[r] \in Active /\ status[s] \in Active => target[r] # target[s]

(* A clean restore runs only on the approval of an administrator, whoever  *)
(* changes the mode while another approval is on its way (approve_as).     *)
CleanNeedsAdmin ==
  \A r \in Requests : worker[r] # "none" /\ job[r] = "clean" => approver[r] = "admin"

(* A request that is over stays as it is: a worker that ends late does not *)
(* overwrite a cancellation, and a cancellation no result (finish, cancel).*)
SettledStays ==
  [][\A r \in Requests : status[r] \in Terminal => status'[r] = status[r]]_vars

(* When nobody works in a workspace it is gone, after crashes and when two *)
(* workers shared it as well (README: removed after success or failure).   *)
WorkspacesSwept ==
  up /\ ~KeepFailed =>
    \A d \in workspaces : \E r \in Requests : target[r] = d /\ worker[r] \in Inside

(* What was done about a request, as RestoreLifecycle sees it.             *)
Starting(r) == \E h \in Handlers : hpc[h] = "token" /\ hreq[h] = r
Work(r) ==
  IF worker[r] = "restoring" THEN "touching"
  ELSE IF worker[r] \in {"lookup", "fetch", "check", "unpack"} THEN "ahead"
  ELSE IF worker[r] = "none" /\ (status[r] \in {"none", "queued"} \/ Starting(r)) THEN "ahead"
  ELSE IF worker[r] = "none" /\ status[r] = "succeeded" THEN "done"
  ELSE IF worker[r] # "none" /\ verdict[r] = "succeeded" THEN "done"
  ELSE "over"

Lifecycle == INSTANCE RestoreLifecycle WITH stage <- status, work <- [r \in Requests |-> Work(r)]

(* Requests, approvals, workers and crashes together keep what a restore   *)
(* promises: one touch of the database for an approval, reported as it     *)
(* went and when it is over (approve_as, download_and_restore, finish,     *)
(* recover_stale_running).                                                 *)
ImplementsRestore == Lifecycle!Spec

(* A running request has somebody who will finish it: its worker, or the   *)
(* handler about to start it; a restart leaves no orphan (as long as the   *)
(* file can be written).                                                   *)
RunningIsHandled ==
  up => \A r \in Requests : status[r] = "running" =>
          worker[r] # "none" \/ \E h \in Handlers : hpc[h] = "token" /\ hreq[h] = r

(* A running request is over at some time, so that another restore of its  *)
(* database can be asked for.                                              *)
RunningSettles ==
  \A r \in Requests : status[r] = "running" /\ ~faulty ~> status[r] # "running"

-----------------------------------------------------------------------------
(* What the code's own texts say, and it does not do.                      *)

(* No second restore works on a database while one does: queue refuses it, *)
(* "a restore is already queued or running for this database".             *)
OneRestoreAtATime ==
  \A r, s \in Requests :
    r # s /\ worker[r] = "restoring" /\ worker[s] = "restoring" => target[r] # target[s]

(* A running request can be cancelled: the last look at the token does not *)
(* pass a request that was cancelled before.                               *)
CancelledIsStopped ==
  [][\A r \in Requests : worker[r] = "check" /\ worker'[r] = "unpack" => status[r] # "cancelled"]_vars
=============================================================================
