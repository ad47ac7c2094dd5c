----------------------- MODULE RestoreRequestsProofs ------------------------
(***************************************************************************)
(* Proofs about RestoreRequests, for every set of requests, databases and  *)
(* handlers, with a disk that fails or one that does not.                  *)
(***************************************************************************)
EXTENDS RestoreRequests, TLAPS

(* Nothing works for a request that was not approved, and one thread at    *)
(* most for one that was; an approval in clean mode is an administrator's. *)
ApprovalInv ==
  /\ \A r \in Requests : status[r] \in {"none", "queued"} => worker[r] = "none"
  /\ \A h \in Handlers : hpc[h] = "token" =>
       status[hreq[h]] \notin {"none", "queued"} /\ worker[hreq[h]] = "none"
  /\ \A h, g \in Handlers :
       h # g /\ hpc[h] = "token" /\ hpc[g] = "token" => hreq[h] # hreq[g]
  /\ \A r \in Requests : job[r] = "clean" => approver[r] = "admin"

IInv ==
  /\ TypeOK
  /\ ApprovalInv
  /\ OneActive
  /\ WorkspacesSwept
  /\ ~faulty => RunningIsHandled

(* A handler that is idle stands beside a request.                         *)
LEMMA NobodyIsRequest == Nobody \in Requests
BY RestoreAssumption DEF Nobody

-----------------------------------------------------------------------------
(* Every step keeps the type invariant.                                    *)
LEMMA TypeStep ==
  IInv /\ [Next]_vars => TypeOK'
<1> SUFFICES ASSUME IInv, [Next]_vars PROVE TypeOK'
  OBVIOUS
<1> USE RestoreAssumption, NobodyIsRequest DEF IInv, TypeOK, Modes, Roles, Active, Terminal, Inside,
      fileVars, tokenVars, handlerVars, workerVars
<1>1. ASSUME NEW r \in Requests, NEW d \in Databases, NEW m \in Modes, Create(r, d, m)
      PROVE  TypeOK'
  BY <1>1 DEF Create, Free
<1>2. ASSUME NEW h \in Handlers, NEW r \in Requests, NEW role \in Roles, NEW m \in Modes, SetMode(h, r, role, m)
      PROVE  TypeOK'
  BY <1>2 DEF SetMode
<1>3. ASSUME NEW h \in Handlers, Approve(h) PROVE TypeOK'
  BY <1>3 DEF Approve, MayApprove
<1>4. ASSUME NEW h \in Handlers, Refuse(h) PROVE TypeOK'
  BY <1>4 DEF Refuse, Leave
<1>5. ASSUME NEW h \in Handlers, Launch(h) PROVE TypeOK'
  BY <1>5 DEF Launch, Leave
<1>6. ASSUME NEW r \in Requests, Cancel(r) PROVE TypeOK'
  BY <1>6 DEF Cancel
<1>7. ASSUME NEW r \in Requests, Lookup(r) PROVE TypeOK'
  BY <1>7 DEF Lookup, Goto
<1>8. ASSUME NEW r \in Requests, Fetch(r) PROVE TypeOK'
  BY <1>8 DEF Fetch, MoreParts, Stop, Goto
<1>9. ASSUME NEW r \in Requests, FetchedAll(r) PROVE TypeOK'
  BY <1>9 DEF FetchedAll, Goto
<1>10. ASSUME NEW r \in Requests, LastCheck(r) PROVE TypeOK'
  BY <1>10 DEF LastCheck, Stop, Goto
<1>11. ASSUME NEW r \in Requests, Unpack(r) PROVE TypeOK'
  BY <1>11 DEF Unpack, Stop, Goto
<1>12. ASSUME NEW r \in Requests, Restored(r) PROVE TypeOK'
  BY <1>12 DEF Restored, Stop, Goto
<1>13. ASSUME NEW r \in Requests, Sweep(r) PROVE TypeOK'
  BY <1>13 DEF Sweep, Swept, Goto
<1>14. ASSUME NEW r \in Requests, Finish(r) PROVE TypeOK'
  BY <1>14 DEF Finish, MayFinish, Goto
<1>15. CASE Crash
  <2>1. UNCHANGED <<fileVars, workspaces, faulty>> /\ up' = FALSE /\ registered' = {} /\ fired' = {}
    BY <1>15 DEF Crash
  <2>2. /\ hpc' \in [Handlers -> {"idle", "approve", "token"}]
        /\ hreq' \in [Handlers -> Requests] /\ hrole' \in [Handlers -> Roles]
    BY <1>15 DEF Crash
  <2>3. /\ worker' \in [Requests -> {"none", "lookup", "finish"} \union Inside]
        /\ job' \in [Requests -> Modes] /\ approver' \in [Requests -> Roles]
    BY <1>15 DEF Crash
  <2>4. /\ holds' \in [Requests -> BOOLEAN] /\ left' \in [Requests -> 0 .. NumParts]
        /\ verdict' \in [Requests -> {"succeeded", "failed"}]
    BY <1>15 DEF Crash
  <2>. QED BY <2>1, <2>2, <2>3, <2>4
<1>16. CASE Restart
  BY <1>16 DEF Restart, Recovered
<1>17. CASE UNCHANGED vars
  BY <1>17 DEF vars
<1>. QED BY <1>1, <1>2, <1>3, <1>4, <1>5, <1>6, <1>7, <1>8, <1>9, <1>10, <1>11, <1>12, <1>13
       , <1>14, <1>15, <1>16, <1>17
       DEF Next, Proceed, Worker

(* Every step keeps what is known of approvals.                            *)
LEMMA ApprovalStep ==
  IInv /\ [Next]_vars => ApprovalInv'
<1> SUFFICES ASSUME IInv, [Next]_vars PROVE ApprovalInv'
  OBVIOUS
<1> USE NobodyIsRequest DEF IInv, TypeOK, ApprovalInv, Active, Terminal, Inside, Modes, Roles,
      fileVars, tokenVars, handlerVars, workerVars
<1>1. ASSUME NEW r \in Requests, NEW d \in Databases, NEW m \in Modes, Create(r, d, m)
      PROVE  ApprovalInv'
  BY <1>1 DEF Create, Free
<1>2. ASSUME NEW h \in Handlers, NEW r \in Requests, NEW role \in Roles, NEW m \in Modes, SetMode(h, r, role, m)
      PROVE  ApprovalInv'
  BY <1>2 DEF SetMode
<1>3. ASSUME NEW h \in Handlers, Approve(h) PROVE ApprovalInv'
  BY <1>3 DEF Approve, MayApprove
<1>4. ASSUME NEW h \in Handlers, Refuse(h) PROVE ApprovalInv'
  BY <1>4 DEF Refuse, Leave
<1>5. ASSUME NEW h \in Handlers, Launch(h) PROVE ApprovalInv'
  BY <1>5 DEF Launch, Leave
<1>6. ASSUME NEW r \in Requests, Cancel(r) PROVE ApprovalInv'
  BY <1>6 DEF Cancel
<1>7. ASSUME NEW r \in Requests, Lookup(r) PROVE ApprovalInv'
  BY <1>7 DEF Lookup, Goto
<1>8. ASSUME NEW r \in Requests, Fetch(r) PROVE ApprovalInv'
  BY <1>8 DEF Fetch, MoreParts, Stop, Goto
<1>9. ASSUME NEW r \in Requests, FetchedAll(r) PROVE ApprovalInv'
  BY <1>9 DEF FetchedAll, Goto
<1>10. ASSUME NEW r \in Requests, LastCheck(r) PROVE ApprovalInv'
  BY <1>10 DEF LastCheck, Stop, Goto
<1>11. ASSUME NEW r \in Requests, Unpack(r) PROVE ApprovalInv'
  BY <1>11 DEF Unpack, Stop, Goto
<1>12. ASSUME NEW r \in Requests, Restored(r) PROVE ApprovalInv'
  BY <1>12 DEF Restored, Stop, Goto
<1>13. ASSUME NEW r \in Requests, Sweep(r) PROVE ApprovalInv'
  BY <1>13 DEF Sweep, Swept, Goto
<1>14. ASSUME NEW r \in Requests, Finish(r) PROVE ApprovalInv'
  BY <1>14 DEF Finish, MayFinish, Goto
<1>15. CASE Crash
  BY <1>15 DEF Crash
<1>16. CASE Restart
  BY <1>16 DEF Restart, Recovered
<1>17. CASE UNCHANGED vars
  BY <1>17 DEF vars
<1>. QED BY <1>1, <1>2, <1>3, <1>4, <1>5, <1>6, <1>7, <1>8, <1>9, <1>10, <1>11, <1>12, <1>13
       , <1>14, <1>15, <1>16, <1>17
       DEF Next, Proceed, Worker

(* Every step keeps one active request to a database.                      *)
LEMMA ActiveStep ==
  IInv /\ [Next]_vars => OneActive'
<1> SUFFICES ASSUME IInv, [Next]_vars PROVE OneActive'
  OBVIOUS
<1> USE NobodyIsRequest DEF IInv, TypeOK, OneActive, Active, Terminal, fileVars, tokenVars, handlerVars, workerVars
<1>1. ASSUME NEW r \in Requests, NEW d \in Databases, NEW m \in Modes, Create(r, d, m)
      PROVE  OneActive'
  BY <1>1 DEF Create, Free
<1>2. ASSUME NEW h \in Handlers, NEW r \in Requests, NEW role \in Roles, NEW m \in Modes, SetMode(h, r, role, m)
      PROVE  OneActive'
  BY <1>2 DEF SetMode
<1>3. ASSUME NEW h \in Handlers, Approve(h) PROVE OneActive'
  BY <1>3 DEF Approve, MayApprove
<1>4. ASSUME NEW h \in Handlers, Refuse(h) PROVE OneActive'
  BY <1>4 DEF Refuse, Leave
<1>5. ASSUME NEW h \in Handlers, Launch(h) PROVE OneActive'
  BY <1>5 DEF Launch, Leave
<1>6. ASSUME NEW r \in Requests, Cancel(r) PROVE OneActive'
  BY <1>6 DEF Cancel
<1>7. ASSUME NEW r \in Requests, Lookup(r) PROVE OneActive'
  BY <1>7 DEF Lookup, Goto
<1>8. ASSUME NEW r \in Requests, Fetch(r) PROVE OneActive'
  BY <1>8 DEF Fetch, MoreParts, Stop, Goto
<1>9. ASSUME NEW r \in Requests, FetchedAll(r) PROVE OneActive'
  BY <1>9 DEF FetchedAll, Goto
<1>10. ASSUME NEW r \in Requests, LastCheck(r) PROVE OneActive'
  BY <1>10 DEF LastCheck, Stop, Goto
<1>11. ASSUME NEW r \in Requests, Unpack(r) PROVE OneActive'
  BY <1>11 DEF Unpack, Stop, Goto
<1>12. ASSUME NEW r \in Requests, Restored(r) PROVE OneActive'
  BY <1>12 DEF Restored, Stop, Goto
<1>13. ASSUME NEW r \in Requests, Sweep(r) PROVE OneActive'
  BY <1>13 DEF Sweep, Swept, Goto
<1>14. ASSUME NEW r \in Requests, Finish(r) PROVE OneActive'
  BY <1>14 DEF Finish, MayFinish, Goto
<1>15. CASE Crash
  BY <1>15 DEF Crash
<1>16. CASE Restart
  BY <1>16 DEF Restart, Recovered
<1>17. CASE UNCHANGED vars
  BY <1>17 DEF vars
<1>. QED BY <1>1, <1>2, <1>3, <1>4, <1>5, <1>6, <1>7, <1>8, <1>9, <1>10, <1>11, <1>12, <1>13
       , <1>14, <1>15, <1>16, <1>17
       DEF Next, Proceed, Worker

(* Every step keeps workspaces in somebody's hands.                        *)
LEMMA WorkspaceStep ==
  IInv /\ [Next]_vars => WorkspacesSwept'
<1> SUFFICES ASSUME IInv, [Next]_vars PROVE WorkspacesSwept'
  OBVIOUS
<1> USE RestoreAssumption, NobodyIsRequest DEF IInv, TypeOK, ApprovalInv, WorkspacesSwept, Inside,
      fileVars, tokenVars, handlerVars, workerVars
<1>1. ASSUME NEW r \in Requests, NEW d \in Databases, NEW m \in Modes, Create(r, d, m)
      PROVE  WorkspacesSwept'
  BY <1>1 DEF Create, Free
<1>2. ASSUME NEW h \in Handlers, NEW r \in Requests, NEW role \in Roles, NEW m \in Modes, SetMode(h, r, role, m)
      PROVE  WorkspacesSwept'
  BY <1>2 DEF SetMode
<1>3. ASSUME NEW h \in Handlers, Approve(h) PROVE WorkspacesSwept'
  BY <1>3 DEF Approve, MayApprove
<1>4. ASSUME NEW h \in Handlers, Refuse(h) PROVE WorkspacesSwept'
  BY <1>4 DEF Refuse, Leave
<1>5. ASSUME NEW h \in Handlers, Launch(h) PROVE WorkspacesSwept'
  BY <1>5 DEF Launch, Leave
<1>6. ASSUME NEW r \in Requests, Cancel(r) PROVE WorkspacesSwept'
  BY <1>6 DEF Cancel
<1>7. ASSUME NEW r \in Requests, Lookup(r) PROVE WorkspacesSwept'
  BY <1>7 DEF Lookup, Goto
<1>8. ASSUME NEW r \in Requests, Fetch(r) PROVE WorkspacesSwept'
  BY <1>8 DEF Fetch, MoreParts, Stop, Goto
<1>9. ASSUME NEW r \in Requests, FetchedAll(r) PROVE WorkspacesSwept'
  BY <1>9 DEF FetchedAll, Goto
<1>10. ASSUME NEW r \in Requests, LastCheck(r) PROVE WorkspacesSwept'
  BY <1>10 DEF LastCheck, Stop, Goto
<1>11. ASSUME NEW r \in Requests, Unpack(r) PROVE WorkspacesSwept'
  <2>1. worker' = [worker EXCEPT ![r] = "restoring"] \/ worker' = [worker EXCEPT ![r] = "sweep"]
    BY <1>11 DEF Unpack, Stop, Goto
  <2>2. workspaces' \in {workspaces, workspaces \union {target[r]}}
    BY <1>11 DEF Unpack
  <2>3. worker[r] \in Inside /\ worker'[r] \in Inside /\ UNCHANGED <<target, up>>
    BY <1>11, <2>1 DEF Unpack
  <2>4. \A s \in Requests : worker[s] \in Inside => worker'[s] \in Inside
    BY <2>1, <2>3
  <2>. QED
    BY <2>2, <2>3, <2>4
<1>12. ASSUME NEW r \in Requests, Restored(r) PROVE WorkspacesSwept'
  BY <1>12 DEF Restored, Stop, Goto
<1>13. ASSUME NEW r \in Requests, Sweep(r) PROVE WorkspacesSwept'
  BY <1>13 DEF Sweep, Swept, Goto
<1>14. ASSUME NEW r \in Requests, Finish(r) PROVE WorkspacesSwept'
  BY <1>14 DEF Finish, MayFinish, Goto
<1>15. CASE Crash
  BY <1>15 DEF Crash
<1>16. CASE Restart
  BY <1>16 DEF Restart, Recovered
<1>17. CASE UNCHANGED vars
  BY <1>17 DEF vars
<1>. QED BY <1>1, <1>2, <1>3, <1>4, <1>5, <1>6, <1>7, <1>8, <1>9, <1>10, <1>11, <1>12, <1>13
       , <1>14, <1>15, <1>16, <1>17
       DEF Next, Proceed, Worker

(* Every step keeps running requests in somebody's hands.                  *)
LEMMA HandledStep ==
  IInv /\ [Next]_vars => (~faulty => RunningIsHandled)'
<1> SUFFICES ASSUME IInv, [Next]_vars PROVE (~faulty => RunningIsHandled)'
  OBVIOUS
<1> USE RestoreAssumption, NobodyIsRequest DEF IInv, TypeOK, ApprovalInv, RunningIsHandled, Active,
      Terminal, Inside, fileVars, tokenVars, handlerVars, workerVars
<1>1. ASSUME NEW r \in Requests, NEW d \in Databases, NEW m \in Modes, Create(r, d, m)
      PROVE  (~faulty => RunningIsHandled)'
  BY <1>1 DEF Create, Free
<1>2. ASSUME NEW h \in Handlers, NEW r \in Requests, NEW role \in Roles, NEW m \in Modes, SetMode(h, r, role, m)
      PROVE  (~faulty => RunningIsHandled)'
  BY <1>2 DEF SetMode
<1>3. ASSUME NEW h \in Handlers, Approve(h) PROVE (~faulty => RunningIsHandled)'
  BY <1>3 DEF Approve, MayApprove
<1>4. ASSUME NEW h \in Handlers, Refuse(h) PROVE (~faulty => RunningIsHandled)'
  BY <1>4 DEF Refuse, Leave
<1>5. ASSUME NEW h \in Handlers, Launch(h) PROVE (~faulty => RunningIsHandled)'
  BY <1>5 DEF Launch, Leave
<1>6. ASSUME NEW r \in Requests, Cancel(r) PROVE (~faulty => RunningIsHandled)'
  BY <1>6 DEF Cancel
<1>7. ASSUME NEW r \in Requests, Lookup(r) PROVE (~faulty => RunningIsHandled)'
  BY <1>7 DEF Lookup, Goto
<1>8. ASSUME NEW r \in Requests, Fetch(r) PROVE (~faulty => RunningIsHandled)'
  BY <1>8 DEF Fetch, MoreParts, Stop, Goto
<1>9. ASSUME NEW r \in Requests, FetchedAll(r) PROVE (~faulty => RunningIsHandled)'
  BY <1>9 DEF FetchedAll, Goto
<1>10. ASSUME NEW r \in Requests, LastCheck(r) PROVE (~faulty => RunningIsHandled)'
  BY <1>10 DEF LastCheck, Stop, Goto
<1>11. ASSUME NEW r \in Requests, Unpack(r) PROVE (~faulty => RunningIsHandled)'
  BY <1>11 DEF Unpack, Stop, Goto
<1>12. ASSUME NEW r \in Requests, Restored(r) PROVE (~faulty => RunningIsHandled)'
  BY <1>12 DEF Restored, Stop, Goto
<1>13. ASSUME NEW r \in Requests, Sweep(r) PROVE (~faulty => RunningIsHandled)'
  BY <1>13 DEF Sweep, Swept, Goto
<1>14. ASSUME NEW r \in Requests, Finish(r) PROVE (~faulty => RunningIsHandled)'
  BY <1>14 DEF Finish, MayFinish, Goto
<1>15. CASE Crash
  BY <1>15 DEF Crash
<1>16. CASE Restart
  BY <1>16 DEF Restart, Recovered
<1>17. CASE UNCHANGED vars
  BY <1>17 DEF vars
<1>. QED BY <1>1, <1>2, <1>3, <1>4, <1>5, <1>6, <1>7, <1>8, <1>9, <1>10, <1>11, <1>12, <1>13
       , <1>14, <1>15, <1>16, <1>17
       DEF Next, Proceed, Worker

-----------------------------------------------------------------------------
(* The inductive invariant holds.                                          *)
THEOREM InvariantHolds == Spec => []IInv
<1>1. Init => IInv
  BY RestoreAssumption, NobodyIsRequest DEF Init, IInv, TypeOK, ApprovalInv, OneActive, WorkspacesSwept, RunningIsHandled,
    Modes, Roles, Active, Terminal, Inside
<1>2. IInv /\ [Next]_vars => IInv'
  BY TypeStep, ApprovalStep, ActiveStep, WorkspaceStep, HandledStep DEF IInv
<1>. QED BY <1>1, <1>2, PTL DEF Spec

(* Every variable has its type.                                            *)
THEOREM TypeCorrect == Spec => []TypeOK
<1>1. IInv => TypeOK
  BY DEF IInv
<1>. QED BY <1>1, InvariantHolds, PTL

(* One request of a database at most waits or runs (queue).                *)
THEOREM OneActiveCorrect == Spec => []OneActive
<1>1. IInv => OneActive
  BY DEF IInv
<1>. QED BY <1>1, InvariantHolds, PTL

(* A clean restore has an administrator's approval (approve_as).           *)
THEOREM CleanCorrect == Spec => []CleanNeedsAdmin
<1>1. IInv => CleanNeedsAdmin
  BY DEF IInv, ApprovalInv, CleanNeedsAdmin
<1>. QED BY <1>1, InvariantHolds, PTL

(* A workspace nobody works in is gone, unless failed ones are kept        *)
(* (download_and_restore, cleanup_stale_workspaces).                       *)
THEOREM WorkspacesCorrect == Spec => []WorkspacesSwept
<1>1. IInv => WorkspacesSwept
  BY DEF IInv
<1>. QED BY <1>1, InvariantHolds, PTL

(* With a disk that can be written, a running request has somebody who     *)
(* will finish it (approve_restore, recover_stale_running).                *)
THEOREM HandledCorrect == Spec => [](~faulty => RunningIsHandled)
<1>1. IInv => (~faulty => RunningIsHandled)
  BY DEF IInv
<1>. QED BY <1>1, InvariantHolds, PTL

(* A request that is over stays as it is (finish, cancel).                 *)
THEOREM SettledCorrect == Spec => SettledStays
<1> DEFINE Stays == \A r \in Requests : status[r] \in Terminal => status'[r] = status[r]
<1>1. IInv /\ [Next]_vars => Stays
  <2> SUFFICES ASSUME IInv, [Next]_vars PROVE Stays
    OBVIOUS
  <2>1. status \in [Requests -> Active \union Terminal \union {"none"}]
    BY DEF IInv, TypeOK
  <2>2. CASE UNCHANGED status
    BY <2>2
  <2>3. CASE Restart
    BY <2>1, <2>3 DEF Restart, Recovered, Terminal
  <2>4. ASSUME NEW r \in Requests, status[r] \notin Terminal,
               NEW s, status' = [status EXCEPT ![r] = s]
        PROVE  Stays
    BY <2>1, <2>4
  <2>5. ASSUME NEW r \in Requests, NEW d \in Databases, NEW m \in Modes, Create(r, d, m)
      PROVE  Stays
    BY <2>4, <2>5 DEF Create, Terminal
  <2>6. ASSUME NEW h \in Handlers, Approve(h) PROVE Stays
    BY <2>4, <2>6 DEF Approve, MayApprove, Terminal, IInv, TypeOK
  <2>7. ASSUME NEW r \in Requests, Cancel(r) PROVE Stays
    BY <2>2, <2>4, <2>7 DEF Cancel, Active, Terminal
  <2>8. ASSUME NEW r \in Requests, Finish(r) PROVE Stays
    BY <2>2, <2>4, <2>8 DEF Finish, MayFinish, Terminal
  <2>. QED BY <2>2, <2>3, <2>5, <2>6, <2>7, <2>8 DEF Next, Proceed, Worker, SetMode, Refuse, Leave, Launch, Lookup,
         Fetch, FetchedAll, LastCheck, Unpack, Restored, Sweep, Crash, vars, fileVars
<1>. QED BY <1>1, InvariantHolds, PTL DEF Spec, SettledStays
-----------------------------------------------------------------------------
(* What is known when a request is over, and while the process is down.    *)
ReportInv ==
  /\ \A r \in Requests : status[r] \in {"succeeded", "failed"} => worker[r] = "none"
  /\ \A h \in Handlers : hpc[h] = "token" => status[hreq[h]] \notin {"succeeded", "failed"}
  /\ ~up => /\ \A r \in Requests : worker[r] = "none"
            /\ \A h \in Handlers : hpc[h] = "idle"

LEMMA ReportStep ==
  IInv /\ ReportInv /\ [Next]_vars => ReportInv'
<1> SUFFICES ASSUME IInv, ReportInv, [Next]_vars PROVE ReportInv'
  OBVIOUS
<1> USE NobodyIsRequest DEF IInv, TypeOK, ApprovalInv, ReportInv, Active, Terminal, Inside, Modes, Roles,
      fileVars, tokenVars, handlerVars, workerVars
<1>1. ASSUME NEW r \in Requests, NEW d \in Databases, NEW m \in Modes, Create(r, d, m)
      PROVE  ReportInv'
  BY <1>1 DEF Create, Free
<1>2. ASSUME NEW h \in Handlers, NEW r \in Requests, NEW role \in Roles, NEW m \in Modes, SetMode(h, r, role, m)
      PROVE  ReportInv'
  BY <1>2 DEF SetMode
<1>3. ASSUME NEW h \in Handlers, Approve(h) PROVE ReportInv'
  BY <1>3 DEF Approve, MayApprove
<1>4. ASSUME NEW h \in Handlers, Refuse(h) PROVE ReportInv'
  BY <1>4 DEF Refuse, Leave
<1>5. ASSUME NEW h \in Handlers, Launch(h) PROVE ReportInv'
  BY <1>5 DEF Launch, Leave
<1>6. ASSUME NEW r \in Requests, Cancel(r) PROVE ReportInv'
  BY <1>6 DEF Cancel
<1>7. ASSUME NEW r \in Requests, Worker(r), ~Finish(r) PROVE ReportInv'
  BY <1>7 DEF Worker, Lookup, Fetch, MoreParts, FetchedAll, LastCheck, Unpack, Restored, Sweep, Stop, Goto
<1>8. ASSUME NEW r \in Requests, Finish(r) PROVE ReportInv'
  BY <1>8 DEF Finish, MayFinish
<1>9. CASE Crash
  BY <1>9 DEF Crash
<1>10. CASE Restart
  BY <1>10 DEF Restart, Recovered
<1>11. CASE UNCHANGED vars
  BY <1>11 DEF vars
<1>. QED BY <1>1, <1>2, <1>3, <1>4, <1>5, <1>6, <1>7, <1>8, <1>9, <1>10, <1>11 DEF Next, Proceed

THEOREM ReportHolds == Spec => []ReportInv
<1>1. Init => ReportInv
  BY DEF Init, ReportInv
<1>. QED BY <1>1, ReportStep, InvariantHolds, PTL DEF Spec

(* How a step looks to the abstract restore.                               *)
WorkOf == [r \in Requests |-> Work(r)]

LEMMA WorkSame ==
  ASSUME NEW r \in Requests, worker'[r] = worker[r], verdict'[r] = verdict[r],
         status'[r] = status[r], Starting(r)' <=> Starting(r)
  PROVE  Work(r)' = Work(r)
BY DEF Work

LEMMA WorkMoves ==
  ASSUME NEW r \in Requests, NEW from, NEW to, Work(r) = from, Work(r)' = to,
         \A s \in Requests \ {r} : Work(s)' = Work(s)
  PROVE  Lifecycle!Do(r, from, to)
BY DEF Lifecycle!Do

(* A step of the worker is a step of the work of its request.              *)
LEMMA WorkerStep ==
  ASSUME IInv, ReportInv, NEW r \in Requests, Worker(r)
  PROVE  Lifecycle!Next \/ UNCHANGED <<status, target, WorkOf>>
<1> USE DEF IInv, TypeOK, Inside, fileVars, handlerVars
<1>1. status[r] \notin {"none", "queued"} /\ status[r] \notin {"succeeded", "failed"}
  BY DEF ApprovalInv, ReportInv, Worker, Lookup, Fetch, FetchedAll, LastCheck, Unpack, Restored, Sweep, Finish
<1>2. /\ UNCHANGED <<target, hpc, hreq>>
      /\ \A s \in Requests \ {r} : worker'[s] = worker[s] /\ verdict'[s] = verdict[s] /\ status'[s] = status[s]
  BY DEF Worker, Lookup, Fetch, FetchedAll, LastCheck, Unpack, Restored, Sweep, Finish, Goto, Stop
<1>3. \A s \in Requests : Starting(s)' <=> Starting(s)
  BY <1>2 DEF Starting
<1>4. \A s \in Requests \ {r} : Work(s)' = Work(s)
  BY <1>2, <1>3, WorkSame
<1>5. ASSUME Work(r)' = Work(r) PROVE UNCHANGED WorkOf
  BY <1>4, <1>5 DEF WorkOf
<1>6. ASSUME UNCHANGED status, Work(r) = "ahead", Work(r)' = "over" PROVE Lifecycle!Next
  BY <1>1, <1>2, <1>4, <1>6, WorkMoves DEF Lifecycle!GiveUp, Lifecycle!Waiting, Lifecycle!Next
<1>7. CASE Lookup(r)
  BY <1>2, <1>5, <1>6, <1>7 DEF Lookup, Goto, Work
<1>8. CASE Fetch(r)
  BY <1>2, <1>5, <1>6, <1>8 DEF Fetch, Stop, Goto, Work
<1>9. CASE FetchedAll(r)
  BY <1>2, <1>5, <1>9 DEF FetchedAll, Goto, Work
<1>10. CASE LastCheck(r)
  BY <1>2, <1>5, <1>6, <1>10 DEF LastCheck, Stop, Goto, Work
<1>11. CASE Unpack(r)
  <2>1. CASE worker' = [worker EXCEPT ![r] = "sweep"] /\ verdict' = [verdict EXCEPT ![r] = "failed"]
    BY <1>6, <1>11, <2>1 DEF Unpack, Work
  <2>2. CASE worker' = [worker EXCEPT ![r] = "restoring"]
    <3>1. Work(r) = "ahead" /\ Work(r)' = "touching"
      BY <1>11, <2>2 DEF Unpack, Work
    <3>2. \A s \in Requests \ {r} :
            Work(s) = "touching" /\ target[s] = target[r] => "cancelled" \in {status[r], status[s]}
      <4>1. \A s \in Requests : worker[s] # "none" => status[s] \in {"running", "cancelled"}
        BY DEF ApprovalInv, ReportInv, Active, Terminal
      <4>2. \A s \in Requests : Work(s) = "touching" => worker[s] # "none"
        BY DEF Work
      <4>3. worker[r] # "none"
        BY <1>11 DEF Unpack
      <4>. QED BY <4>1, <4>2, <4>3 DEF OneActive, Active
    <3>3. UNCHANGED status
      BY <1>11 DEF Unpack
    <3>4. Lifecycle!Do(r, "ahead", "touching")
      BY <1>4, <3>1, WorkMoves
    <3>5. \A s \in Requests : WorkOf[s] = Work(s)
      BY DEF WorkOf
    <3>. QED BY <1>1, <1>2, <3>2, <3>3, <3>4, <3>5 DEF Lifecycle!Touch, Lifecycle!Waiting, Lifecycle!Next, WorkOf
  <2>. QED BY <1>11, <2>1, <2>2 DEF Unpack, Stop, Goto
<1>12. CASE Restored(r)
  <2>1. UNCHANGED status /\ Work(r) = "touching" /\ Work(r)' \in {"done", "over"}
    BY <1>12 DEF Restored, Stop, Goto, Work
  <2>. QED BY <1>2, <1>4, <2>1, WorkMoves DEF Lifecycle!Leave, Lifecycle!Next
<1>13. CASE Sweep(r)
  BY <1>2, <1>5, <1>13 DEF Sweep, Goto, Work
<1>14. CASE Finish(r)
  <2>1. ~Starting(r)
    BY <1>14 DEF Finish, ApprovalInv, Starting
  <2>2. Work(r) = IF verdict[r] = "succeeded" THEN "done" ELSE "over"
    BY <1>14 DEF Finish, Work
  <2>3. Work(r)' = IF status'[r] = "succeeded" THEN "done" ELSE "over"
    <3>1. worker'[r] = "none" /\ status'[r] \notin {"none", "queued"}
      BY <1>1, <1>14 DEF Finish
    <3>. QED BY <1>3, <2>1, <3>1 DEF Work
  <2>4. CASE status[r] = "running" /\ status' = [status EXCEPT ![r] = verdict[r]]
    <3>1. Work(r)' = Work(r)
      BY <2>2, <2>3, <2>4
    <3>. QED BY <1>2, <1>5, <2>2, <2>4, <3>1 DEF Lifecycle!Report, Lifecycle!Say, Lifecycle!Next, WorkOf
  <2>5. CASE UNCHANGED status
    <3>1. Work(r)' = "over" /\ status[r] \in {"running", "cancelled"}
      BY <1>1, <2>3, <2>5 DEF Active, Terminal
    <3>2. CASE Work(r) = "done"
      BY <1>2, <1>4, <2>5, <3>1, <3>2, WorkMoves DEF Lifecycle!Forget, Lifecycle!Next
    <3>3. CASE Work(r) = "over"
      BY <1>2, <1>5, <2>5, <3>1, <3>3
    <3>. QED BY <2>2, <3>2, <3>3
  <2>. QED BY <1>14, <2>4, <2>5 DEF Finish, MayFinish
<1>. QED BY <1>7, <1>8, <1>9, <1>10, <1>11, <1>12, <1>13, <1>14 DEF Worker

LEMMA LifecycleStep ==
  IInv /\ ReportInv /\ [Next]_vars => [Lifecycle!Next]_<<status, target, WorkOf>>
<1> SUFFICES ASSUME IInv, ReportInv, [Next]_vars
             PROVE  Lifecycle!Next \/ UNCHANGED <<status, target, WorkOf>>
  OBVIOUS
<1> USE NobodyIsRequest DEF IInv, TypeOK, fileVars, handlerVars, workerVars
<1>1. ASSUME UNCHANGED <<worker, verdict, status>>,
             \A s \in Requests : Starting(s)' <=> Starting(s)
      PROVE  UNCHANGED WorkOf
  BY <1>1, WorkSame DEF WorkOf
<1>2. ASSUME NEW r \in Requests, NEW d \in Databases, NEW m \in Modes, Create(r, d, m)
      PROVE  Lifecycle!Next
  <2>1. \A s \in Requests : Starting(s)' <=> Starting(s)
    BY <1>2 DEF Create, Starting
  <2>2. Work(r) = "ahead" /\ Work(r)' = "ahead"
    BY <1>2 DEF Create, Work, ApprovalInv
  <2>3. \A s \in Requests \ {r} : Work(s)' = Work(s)
    BY <1>2, <2>1, WorkSame DEF Create
  <2>4. UNCHANGED WorkOf
    BY <2>2, <2>3 DEF WorkOf
  <2>5. Lifecycle!Ask(r, d)
    BY <1>2, <2>4 DEF Create, Free, Active, Lifecycle!Ask, Lifecycle!Say, Lifecycle!Live, WorkOf
  <2>. QED BY <2>5 DEF Lifecycle!Next
<1>3. ASSUME NEW h \in Handlers, NEW r \in Requests, NEW role \in Roles, NEW m \in Modes, SetMode(h, r, role, m)
      PROVE  UNCHANGED <<status, target, WorkOf>>
  <2>1. \A s \in Requests : Starting(s)' <=> Starting(s)
    BY <1>3 DEF SetMode, Starting
  <2>. QED BY <1>1, <1>3, <2>1 DEF SetMode
<1>4. ASSUME NEW h \in Handlers, Approve(h) PROVE Lifecycle!Next
  <2>1. PICK r \in Requests : r = hreq[h]
    OBVIOUS
  <2>2. status[r] = "queued" /\ status' = [status EXCEPT ![r] = "running"] /\ UNCHANGED <<target, worker, verdict>>
    BY <1>4, <2>1 DEF Approve, MayApprove
  <2>3. Starting(r)' /\ \A s \in Requests \ {r} : Starting(s)' <=> Starting(s)
    BY <1>4, <2>1 DEF Approve, Starting
  <2>4. Work(r) = "ahead" /\ Work(r)' = "ahead"
    BY <2>2, <2>3 DEF Work, ApprovalInv
  <2>5. \A s \in Requests \ {r} : Work(s)' = Work(s)
    BY <2>2, <2>3, WorkSame
  <2>6. UNCHANGED WorkOf
    BY <2>4, <2>5 DEF WorkOf
  <2>. QED BY <2>2, <2>6 DEF Lifecycle!Approve, Lifecycle!Say, Lifecycle!Next, WorkOf
<1>5. ASSUME NEW h \in Handlers, Refuse(h) PROVE UNCHANGED <<status, target, WorkOf>>
  <2>1. \A s \in Requests : Starting(s)' <=> Starting(s)
    BY <1>5 DEF Refuse, Leave, Starting
  <2>. QED BY <1>1, <1>5, <2>1 DEF Refuse
<1>6. ASSUME NEW h \in Handlers, Launch(h) PROVE UNCHANGED <<status, target, WorkOf>>
  <2>1. PICK r \in Requests : r = hreq[h]
    OBVIOUS
  <2>2. worker[r] = "none" /\ Starting(r) /\ UNCHANGED <<status, target, verdict>>
        /\ worker' = [worker EXCEPT ![r] = "lookup"]
    BY <1>6, <2>1 DEF Launch, ApprovalInv, Starting
  <2>3. Work(r) = "ahead" /\ Work(r)' = "ahead"
    BY <2>2 DEF Work
  <2>4. \A s \in Requests \ {r} : Starting(s)' <=> Starting(s)
    BY <1>6, <2>1 DEF Launch, Leave, Starting
  <2>5. \A s \in Requests \ {r} : Work(s)' = Work(s)
    BY <2>2, <2>4, WorkSame
  <2>. QED BY <2>2, <2>3, <2>5 DEF WorkOf
<1>7. ASSUME NEW r \in Requests, Cancel(r) PROVE Lifecycle!Next \/ UNCHANGED <<status, target, WorkOf>>
  <2>1. UNCHANGED <<target, worker, verdict>> /\ \A s \in Requests : Starting(s)' <=> Starting(s)
    BY <1>7 DEF Cancel, Starting
  <2>2. CASE UNCHANGED status
    BY <1>1, <2>1, <2>2
  <2>3. CASE status' = [status EXCEPT ![r] = "cancelled"]
    <3>1. \A s \in Requests \ {r} : Work(s)' = Work(s)
      BY <2>1, <2>3, WorkSame
    <3>2. CASE status[r] = "queued"
      <4>1. worker[r] = "none" /\ ~Starting(r)
        BY <3>2 DEF ApprovalInv, Starting
      <4>2. Work(r) = "ahead" /\ Work(r)' = "over"
        BY <2>1, <2>3, <3>2, <4>1 DEF Work
      <4>. QED BY <2>1, <2>3, <3>1, <3>2, <4>2, WorkMoves DEF Lifecycle!Withdraw, Lifecycle!Say, Lifecycle!Next
    <3>3. CASE status[r] = "running"
      <4>1. Work(r)' = Work(r)
        BY <2>1, <2>3, <3>3 DEF Work
      <4>2. UNCHANGED WorkOf
        BY <3>1, <4>1 DEF WorkOf
      <4>. QED BY <2>1, <2>3, <3>3, <4>2 DEF Lifecycle!Cancel, Lifecycle!Say, Lifecycle!Next, WorkOf
    <3>. QED BY <1>7, <3>2, <3>3 DEF Cancel, Active
  <2>. QED BY <1>7, <2>2, <2>3 DEF Cancel
<1>8. CASE Crash
  <2>1. /\ UNCHANGED <<status, target>>
        /\ \A r \in Requests : worker'[r] = "none"
        /\ \A r \in Requests : ~Starting(r)'
    BY <1>8 DEF Crash, Starting
  <2>2. ASSUME NEW r \in Requests
        PROVE  Work(r)' = IF status[r] \in {"running", "cancelled"} THEN "over" ELSE Work(r)
    <3>1. status[r] \notin {"running", "cancelled"} => worker[r] = "none" /\ ~Starting(r)
      BY DEF ApprovalInv, ReportInv, Starting, Active, Terminal
    <3>. QED BY <2>1, <3>1 DEF Work
  <2>3. \A r \in Requests : WorkOf[r] = Work(r)
    BY DEF WorkOf
  <2>4. WorkOf' = [r \in Requests |-> IF status[r] \in {"running", "cancelled"} THEN "over" ELSE WorkOf[r]]
    BY <2>2, <2>3 DEF WorkOf
  <2>. QED BY <2>1, <2>4 DEF Lifecycle!Crash, Lifecycle!Next, WorkOf
<1>9. CASE Restart
  <2>1. /\ UNCHANGED <<target, worker, verdict, hpc, hreq>>
        /\ \A r \in Requests : worker[r] = "none" /\ ~Starting(r) /\ ~Starting(r)'
    BY <1>9 DEF Restart, ReportInv, Starting
  <2>2. CASE UNCHANGED status
    BY <1>1, <2>1, <2>2
  <2>3. CASE status' = [r \in Requests |-> IF status[r] = "running" THEN "failed" ELSE status[r]]
    <3>1. \A r \in Requests : Work(r)' = Work(r)
      BY <2>1, <2>3 DEF Work
    <3>2. \A r \in Requests : status[r] = "running" => Work(r) = "over"
      BY <2>1 DEF Work
    <3>3. UNCHANGED WorkOf
      BY <3>1 DEF WorkOf
    <3>. QED BY <2>1, <2>3, <3>2, <3>3 DEF Lifecycle!Recover, Lifecycle!Next, WorkOf
  <2>. QED BY <1>9, <2>2, <2>3 DEF Restart, Recovered
<1>10. CASE UNCHANGED vars
  <2>1. \A s \in Requests : Starting(s)' <=> Starting(s)
    BY <1>10 DEF vars, Starting
  <2>. QED BY <1>1, <1>10, <2>1 DEF vars
<1>. QED BY <1>2, <1>3, <1>4, <1>5, <1>6, <1>7, <1>8, <1>9, <1>10, WorkerStep DEF Next, Proceed

(* The controller, the handlers, the workers and the recovery together     *)
(* implement the abstract restore of every request (src/restore.rs).       *)
THEOREM Implementation == Spec => ImplementsRestore
<1>1. Init => Lifecycle!Init
  BY DEF Init, Lifecycle!Init, Work
<1>2. IInv /\ ReportInv /\ [Next]_vars => [Lifecycle!Next]_<<status, target, WorkOf>>
  BY LifecycleStep
<1>. QED BY <1>1, <1>2, InvariantHolds, ReportHolds, PTL
       DEF Spec, ImplementsRestore, Lifecycle!Spec, Lifecycle!restoreVars, WorkOf

(* Two restores write into one database at the same time only when one of  *)
(* them was cancelled meanwhile: a cancelled one is not stopped any more,  *)
(* and its database can be asked for again (queue, cancel).                *)
THEOREM ClashOnlyIfCancelled ==
  Spec => [](\A r, s \in Requests :
               r # s /\ worker[r] = "restoring" /\ worker[s] = "restoring" /\ target[r] = target[s]
                 => "cancelled" \in {status[r], status[s]})
<1> DEFINE P == \A r, s \in Requests :
                  r # s /\ worker[r] = "restoring" /\ worker[s] = "restoring" /\ target[r] = target[s]
                    => "cancelled" \in {status[r], status[s]}
<1>1. IInv /\ ReportInv => P
  BY DEF IInv, TypeOK, ApprovalInv, ReportInv, OneActive, Active, Terminal
<1>. QED BY <1>1, InvariantHolds, ReportHolds, PTL
=============================================================================
