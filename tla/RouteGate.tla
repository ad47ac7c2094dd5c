------------------------------ MODULE RouteGate ------------------------------
(***************************************************************************)
(* What BACKUP_ROUTE_GATE promises (src/web.rs): of the batches of backups *)
(* and the requests that change the route, the registry or the snapshot    *)
(* one at a time is inside, and the client everybody shares is replaced by *)
(* a request only.  BackupScheduler has the batches in detail and of the   *)
(* requests little, RouteSwitch the other way round; both implement this.  *)
(***************************************************************************)

VARIABLES holder,  \* who is inside the gate
          route,   \* what the shared client goes through
          up       \* the program runs

Init == holder = "nobody" /\ up \in BOOLEAN

Enter ==
    /\ up /\ holder = "nobody"
    /\ holder' \in {"batch", "request"}
    /\ UNCHANGED <<route, up>>

\* Any route: which one is for the request to say.
Reroute ==
    /\ up /\ holder = "request"
    /\ UNCHANGED <<holder, up>>

Leave ==
    /\ up /\ holder # "nobody"
    /\ holder' = "nobody"
    /\ UNCHANGED <<route, up>>

\* The program ends, whoever is inside; the next one builds its own client.
Restart ==
    /\ holder' = "nobody"
    /\ up' = ~up

Next == Enter \/ Reroute \/ Leave \/ Restart

Spec == Init /\ [][Next]_<<holder, route, up>>
=============================================================================
