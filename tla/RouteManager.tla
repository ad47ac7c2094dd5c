----------------------------- MODULE RouteManager -----------------------------
(***************************************************************************)
(* The managed proxy processes of src/routing.rs (RouteManager): which     *)
(* processes live, the two slots that hold them, and the configuration     *)
(* files they were started from.                                           *)
(*                                                                         *)
(* A process is named by the port of its local listener, which is also     *)
(* what a client that uses it is configured with.  A name is used again    *)
(* once its process is gone and no slot holds it, as a port is.  The share *)
(* URL of a profile is abstracted by whether a start with it comes up.     *)
(* The temporary processes of connectivity checks are left out:            *)
(* start_temporary shares neither slot nor file with these.                *)
(***************************************************************************)
CONSTANTS Procs,      \* the ports a process can be given
          Backends,   \* the routing cores: sing-box and shoes
          None        \* an empty slot, a missing file, nobody

VARIABLES live,       \* the processes that run
          died,       \* those that ended without being stopped, not reaped yet
          kind,       \* the backend each process was started as
          active,     \* the process traffic is to use
          pending,    \* its predecessor, until commit or rollback
          file        \* per backend, the process its file was written for

routeVars == <<live, died, kind, active, pending, file>>

\* A file that an earlier life of the program left behind.
Stale == "stale"

RouteTypeOK ==
    /\ live \subseteq Procs
    /\ died \subseteq Procs
    /\ kind \in [Procs -> Backends \cup {None}]
    /\ active \in Procs \cup {None}
    /\ pending \in Procs \cup {None}
    /\ file \in [Backends -> Procs \cup {None, Stale}]

RouteInit ==
    /\ live = {}
    /\ died = {}
    /\ kind = [p \in Procs |-> None]
    /\ active = None
    /\ pending = None
    /\ file = [b \in Backends |-> None]

\* cleanup_core: kill, wait, remove the file the process was started from.
\* The file is named by the backend alone, whoever wrote it last.
Cleanup(cores) ==
    /\ live' = live \ cores
    /\ died' = died \ cores
    /\ kind' = [p \in Procs |-> IF p \in cores THEN None ELSE kind[p]]
    /\ file' = [b \in Backends |->
                  IF \E p \in cores : kind[p] = b THEN None ELSE file[b]]

\* apply, first half: the new file replaces the old one, the process starts.
Spawn(p, b) ==
    /\ p \notin live
    /\ live' = live \cup {p}
    /\ died' = died \ {p}
    /\ kind' = [kind EXCEPT ![p] = b]
    /\ file' = [file EXCEPT ![b] = p]
    /\ UNCHANGED <<active, pending>>

\* apply fails before a process runs: before the file is installed, or after
\* (its permissions, the spawn), when the file is removed.
NotSpawned(b) ==
    /\ file' \in {file, [file EXCEPT ![b] = None]}
    /\ UNCHANGED <<live, died, kind, active, pending>>

\* apply, second half: the listener answers, and the process takes the slot.
TakeOver(p) ==
    /\ p \in live
    /\ active' = p
    /\ pending' = active
    /\ UNCHANGED <<live, died, kind, file>>

\* apply, second half: two seconds without a listener.
GiveUp(p) ==
    /\ Cleanup({p})
    /\ UNCHANGED <<active, pending>>

\* Mutant of Commit: the predecessor is forgotten, not stopped.
FaultyCommit ==
    /\ pending' = None
    /\ UNCHANGED <<live, died, kind, active, file>>

Commit ==
    /\ Cleanup({pending} \ {None})
    /\ pending' = None
    /\ UNCHANGED active

\* rollback empties both slots and stops what was active; only afterwards is
\* the predecessor put back, under the lock taken again.
RollbackTake ==
    /\ Cleanup({active} \ {None})
    /\ active' = None
    /\ pending' = None

RollbackPut(previous) ==
    /\ active' = IF previous = None THEN active ELSE previous
    /\ UNCHANGED <<live, died, kind, pending, file>>

Stop ==
    /\ Cleanup({active, pending} \ {None})
    /\ active' = None
    /\ pending' = None

\* A process ends by itself; its slot is not told.
Dies(p) ==
    /\ p \in live
    /\ live' = live \ {p}
    /\ died' = died \cup {p}
    /\ UNCHANGED <<kind, active, pending, file>>

\* The program ends, and with it every process it started.
Vanish ==
    /\ live' = {}
    /\ died' = {}
    /\ active' = None
    /\ pending' = None
    /\ kind' = [p \in Procs |-> None]
    /\ file' = [b \in Backends |-> IF file[b] = None THEN None ELSE Stale]
===============================================================================
