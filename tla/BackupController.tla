-------------------------- MODULE BackupController --------------------------
(***************************************************************************)
(* The process-wide handoff between the dashboard and the blocking         *)
(* scheduler: ManualBackupController of src/web.rs.  Each operation is one *)
(* critical section of the controller's mutex and so one action here.      *)
(*                                                                         *)
(* Data abstracted: the deque is only ever drained whole or searched by    *)
(* name, so it is kept as the number of entries each name has in it; the   *)
(* recipient and the encryption override ride along with an entry and are  *)
(* left out.                                                               *)
(***************************************************************************)
EXTENDS Naturals

CONSTANT Databases  \* every display name a database can have

VARIABLES
  pending,    \* pending[d]: entries for d in the deque
  pendingSet, \* the names the duplicate check looks at
  active      \* active[d]: the state of d's claim and of its token

ctlVars == <<pending, pendingSet, active>>

(* A name is absent from the map of active runs, or present with a token   *)
(* that has not ("live") or has ("cancelled") been set.                    *)
ClaimState == {"absent", "live", "cancelled"}

CtlTypeOK ==
  /\ pending \in [Databases -> Nat]
  /\ pendingSet \in SUBSET Databases
  /\ active \in [Databases -> ClaimState]

CtlInit ==
  /\ pending = [d \in Databases |-> 0]
  /\ pendingSet = {}
  /\ active = [d \in Databases |-> "absent"]

Waiting == {d \in Databases : pending[d] > 0}
Active == {d \in Databases : active[d] # "absent"}
CanCancel(d) == d \in pendingSet \/ active[d] # "absent"

-----------------------------------------------------------------------------
(* Operators named Faulty... are seeded faults: each is what the definition *)
(* after it would be with a bug in it, and no specification uses it.        *)
FaultyAccepts(d) == active[d] = "absent"

Accepts(d) == active[d] = "absent" /\ d \notin pendingSet

Request(d) ==
  /\ Accepts(d)
  /\ pendingSet' = pendingSet \union {d}
  /\ pending' = [pending EXCEPT ![d] = @ + 1]
  /\ UNCHANGED active

FaultyTakePending ==
  /\ pendingSet' = pendingSet \ Waiting
  /\ pending' = [d \in Databases |-> 0]
  /\ UNCHANGED active

TakePending ==
  /\ pendingSet' = pendingSet \ Waiting
  /\ active' = [d \in Databases |-> IF d \in Waiting THEN "live" ELSE active[d]]
  /\ pending' = [d \in Databases |-> 0]

CanClaim(d) == active[d] = "absent" /\ d \notin pendingSet

ClaimScheduled(d) ==
  /\ CanClaim(d)
  /\ active' = [active EXCEPT ![d] = "live"]
  /\ UNCHANGED <<pending, pendingSet>>

FaultyCancelQueued(d) ==
  /\ d \in pendingSet
  /\ pendingSet' = pendingSet \ {d}
  /\ UNCHANGED <<pending, active>>

(* The queued entry goes, or the token of the active run is set.           *)
CancelQueued(d) ==
  /\ d \in pendingSet
  /\ pendingSet' = pendingSet \ {d}
  /\ pending' = [pending EXCEPT ![d] = 0]
  /\ UNCHANGED active

CancelActive(d) ==
  /\ d \notin pendingSet
  /\ active[d] = "live"
  /\ active' = [active EXCEPT ![d] = "cancelled"]
  /\ UNCHANGED <<pending, pendingSet>>

(* AlreadyCancelled and NotFound.                                          *)
CancelNothing(d) ==
  /\ d \notin pendingSet
  /\ active[d] # "live"
  /\ UNCHANGED ctlVars

Finish(d) ==
  /\ active' = [active EXCEPT ![d] = "absent"]
  /\ UNCHANGED <<pending, pendingSet>>

-----------------------------------------------------------------------------
(* The deque and the set of queued names never disagree, and no name is    *)
(* both queued and active: were they to, a database would be backed up     *)
(* twice, or refused for ever (request, take_pending, cancel, claim).      *)
QueueConsistent ==
  \A d \in Databases :
    /\ pending[d] = IF d \in pendingSet THEN 1 ELSE 0
    /\ d \in pendingSet => active[d] = "absent"
=============================================================================
