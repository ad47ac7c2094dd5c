-------------------------- MODULE BackupLifecycle ---------------------------
(***************************************************************************)
(* What the scheduler promises about each database (ADR-0003): a queued    *)
(* request is withdrawn or drained, a claim is taken by a drained request  *)
(* or by a cycle that finds the database neither queued nor claimed, a     *)
(* claim runs at most one pipeline, and is then released.                  *)
(***************************************************************************)
CONSTANT Databases

VARIABLE job

Stages == {"idle", "queued", "claimed", "running", "done"}

Init == job = [d \in Databases |-> "idle"]

Move(d, from, to) ==
  /\ job[d] = from
  /\ job' = [job EXCEPT ![d] = to]

Queue(d)    == Move(d, "idle", "queued")
Withdraw(d) == Move(d, "queued", "idle")
Claim(d)    == Move(d, "idle", "claimed")
Start(d)    == Move(d, "claimed", "running")
Stop(d)     == Move(d, "running", "done")
Release(d)  == Move(d, "done", "idle")

(* The queue is drained whole; a name with no configuration any more is    *)
(* done at once.                                                           *)
Drain ==
  /\ job' \in [Databases -> Stages]
  /\ \A d \in Databases : IF job[d] = "queued" THEN job'[d] \in {"claimed", "done"}
                                               ELSE job'[d] = job[d]

Next ==
  \/ \E d \in Databases : Queue(d) \/ Withdraw(d) \/ Claim(d) \/ Start(d) \/ Stop(d) \/ Release(d)
  \/ Drain

Spec == Init /\ [][Next]_job
=============================================================================
