-------------------------- MODULE RestoreLifecycle --------------------------
(***************************************************************************)
(* What a restore promises: a database is touched for a request at most    *)
(* once, and not before the request was approved; what is reported is how  *)
(* that went, and only when it is over; two requests touch one database at *)
(* the same time only when one of them was cancelled meanwhile.  A crash   *)
(* ends all work, and what was approved before is not begun after it.      *)
(***************************************************************************)
CONSTANTS Requests, Databases

VARIABLES
  stage,   \* what is known of each request
  target,  \* its database
  work     \* what was done about it

restoreVars == <<stage, target, work>>

Waiting == {"none", "queued"}        \* not approved
Live    == {"queued", "running"}

Init ==
  /\ stage = [r \in Requests |-> "none"]
  /\ target \in [Requests -> Databases]
  /\ work = [r \in Requests |-> "ahead"]

Say(r, from, to) == stage[r] = from /\ stage' = [stage EXCEPT ![r] = to]
Do(r, from, to)  == work[r] = from /\ work' = [work EXCEPT ![r] = to]

Ask(r, d) ==
  /\ Say(r, "none", "queued")
  /\ \A s \in Requests : target[s] = d => stage[s] \notin Live
  /\ target' = [target EXCEPT ![r] = d]
  /\ UNCHANGED work

Approve(r) == Say(r, "queued", "running") /\ UNCHANGED <<target, work>>

(* A request that waited is over with it; work that was begun goes on.     *)
Withdraw(r) == Say(r, "queued", "cancelled") /\ Do(r, "ahead", "over") /\ UNCHANGED target
Cancel(r)   == Say(r, "running", "cancelled") /\ UNCHANGED <<target, work>>

Touch(r) ==
  /\ stage[r] \notin Waiting
  /\ Do(r, "ahead", "touching")
  /\ \A s \in Requests \ {r} :
       work[s] = "touching" /\ target[s] = target[r] => "cancelled" \in {stage[r], stage[s]}
  /\ UNCHANGED <<stage, target>>

GiveUp(r) == stage[r] \notin Waiting /\ Do(r, "ahead", "over") /\ UNCHANGED <<stage, target>>

Leave(r) == (Do(r, "touching", "done") \/ Do(r, "touching", "over")) /\ UNCHANGED <<stage, target>>

Report(r) ==
  /\ \/ work[r] = "done" /\ Say(r, "running", "succeeded")
     \/ work[r] = "over" /\ Say(r, "running", "failed")
  /\ UNCHANGED <<target, work>>

(* Nobody learns of it: cancelled, or the file could not be written.       *)
Forget(r) ==
  /\ stage[r] \in {"running", "cancelled"}
  /\ Do(r, "done", "over")
  /\ UNCHANGED <<stage, target>>

Crash ==
  /\ work' = [r \in Requests |-> IF stage[r] \in {"running", "cancelled"} THEN "over" ELSE work[r]]
  /\ UNCHANGED <<stage, target>>

(* The start after a crash.                                                *)
Recover ==
  /\ \A r \in Requests : stage[r] = "running" => work[r] = "over"
  /\ stage' = [r \in Requests |-> IF stage[r] = "running" THEN "failed" ELSE stage[r]]
  /\ UNCHANGED <<target, work>>

Next ==
  \/ \E r \in Requests, d \in Databases : Ask(r, d)
  \/ \E r \in Requests : \/ Approve(r) \/ Withdraw(r) \/ Cancel(r)
                         \/ Touch(r) \/ GiveUp(r) \/ Leave(r) \/ Report(r) \/ Forget(r)
  \/ Crash \/ Recover

Spec == Init /\ [][Next]_restoreVars
=============================================================================
