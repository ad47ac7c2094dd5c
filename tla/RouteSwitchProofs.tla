--------------------------- MODULE RouteSwitchProofs ---------------------------
(***************************************************************************)
(* Proofs about RouteSwitch for every set of ports, profiles, backends and *)
(* requests. The inductive invariant says, for each step a gated request   *)
(* can have come to, which slots are taken and by whom.                    *)
(***************************************************************************)
EXTENDS RouteSwitch, TLAPS

\* The steps at which a predecessor may wait for commit or rollback.
Between == {"client", "swap", "store", "unswap", "commit", "rollback"}

\* disable stops both at once, and import commits before it swaps.
MayHavePredecessor ==
    /\ op.step \in Between
    /\ op.kind # "disable"
    /\ ~(op.kind = "import" /\ op.step = "swap")

\* The gate is taken by exactly one of a batch and a request.
GateInv ==
    /\ gate <=> (backup \/ Switching)
    /\ ~(backup /\ Switching)
    /\ backup => up
    /\ Switching => op.kind \in Ops /\ up
    /\ ~Switching => op = NoOp

\* Every process, ended or not, is in exactly one place, and every place
\* holds a process.
SlotsInv ==
    /\ \A p \in live \cup died :
          \/ p \in {active, pending}
          \/ op.step = "wait" /\ p = op.proc
          \/ op.step = "put" /\ p = op.held
    /\ \A p \in {active, pending} \ {None} : p \in live \cup died
    /\ op.step = "put" /\ op.held # None => op.held \in live \cup died
    /\ pending # None => pending # active
    /\ ~up => live = {} /\ died = {} /\ active = None
    /\ op.step = "wait" => op.proc \in Procs /\ op.proc \notin {active, pending}
    /\ op.step = "put" => active = None
    /\ op.step = "store" => op.kind = "apply"
    /\ op.step \in {"load", "url", "core", "compat", "start", "wait"} =>
          op.kind # "disable"
    /\ ~MayHavePredecessor => pending = None

\* A file that is not left over names a process that was started from it.
FileInv ==
    \A b \in Backends : \A p \in Procs :
        file[b] = p => p \in live \cup died /\ kind[p] = b

\* A request under way goes through the client that everybody shares.
ReadInv ==
    /\ reading # None => reading = client
    /\ ~up => reading = None

\* What the route at rest makes of the client.
Through(p) == IF p = None THEN Fallback ELSE p

Kept == active = op.oldActive /\ client = op.oldClient
Replaced == op.proc # None /\ active = op.proc /\ pending = op.oldActive

\* Where an apply or a disable has come to, and what it has changed by then.
StageInv ==
    /\ ~up => client = Fallback /\ active = None
    /\ up /\ ~Switching => client = Through(active)
    /\ Switching => op.oldClient = Through(op.oldActive)
    /\ op.step = "done" => client = Through(active)
    /\ op.step = "failed" => Kept
    /\ op.kind = "apply" =>
          /\ op.step \in {"url", "core", "compat", "start", "wait", "client", "swap",
                          "store", "unswap", "commit", "rollback", "put",
                          "failed", "done"}
          /\ op.step \in {"url", "core", "compat", "start", "wait"} => Kept
          /\ op.step \in {"client", "swap", "rollback"} =>
                Replaced /\ client = op.oldClient
          /\ op.step \in {"store", "unswap", "commit"} =>
                Replaced /\ client = op.proc
          /\ op.step = "put" =>
                /\ active = None /\ op.held = op.oldActive
                /\ client = op.oldClient
    /\ op.kind = "disable" =>
          /\ op.step \in {"look", "client", "clear", "stop", "swap", "failed", "done"}
          /\ op.proc = None
          /\ op.step \in {"look", "client", "clear", "stop"} => Kept
          /\ op.step = "swap" => active = None

\* The same of all three requests: what the process that is active is at each
\* step, and what the client goes through.
ObeyInv ==
    /\ ~up => active = None
    /\ up /\ ~Switching /\ active # None => client = active
    /\ Switching =>
          /\ op.oldActive # None => op.oldClient = op.oldActive
          /\ pending \in {op.oldActive, None}
          /\ \/ client = op.oldClient
             \/ op.step \in {"store", "unswap", "done"}
             \/ op.kind = "apply" /\ op.step = "commit"
    /\ /\ op.step \in {"store", "unswap", "done"} \/ (op.kind = "apply" /\ op.step = "commit")
       /\ active # None
       => client = active
    /\ op.step \in {"look", "load", "url", "core", "compat", "start", "wait",
                    "clear", "stop"} => active = op.oldActive
    /\ op.step \in {"look", "load", "url", "core", "clear", "stop"} => op.proc = None
    /\ op.step = "client" => active = IF op.kind = "disable" THEN op.oldActive ELSE op.proc
    /\ op.step \in {"swap", "store", "unswap", "commit"} => active = op.proc
    /\ op.step = "put" => active = None /\ op.held \in {op.oldActive, None}
    /\ op.step = "failed" => active \in {op.oldActive, None}
    /\ op.step \in {"store", "unswap", "compat"} => op.kind = "apply"
    /\ op.step \in {"look", "clear"} => op.kind = "disable"
    /\ op.step = "load" => op.kind = "import"
    /\ op.kind = "disable" =>
          /\ op.step \in {"look", "client", "clear", "stop", "swap", "failed", "done"}
          /\ op.proc = None

IInv == TypeOK /\ GateInv /\ SlotsInv /\ FileInv /\ ActiveExists /\ ReadInv

-----------------------------------------------------------------------------

\* The locals of a request keep their type when the step changes.
LEMMA StepType ==
  ASSUME TypeOK, NEW s \in Steps, op' = [op EXCEPT !.step = s]
  PROVE  op' \in Requests
  BY DEF TypeOK, Requests

\* No request is a value of that type.
LEMMA NoOpType == NoOp \in Requests
  BY ConstantsOK DEF NoOp, Requests, Steps, Fallback

\* What a request starts from is of the type of its locals.
LEMMA RequestType ==
  ASSUME TypeOK, NEW k \in Ops, NEW i \in Profiles, Request(k, i)
  PROVE  op' \in Requests
<1>1. First(k) \in Steps
  BY DEF First, Steps
<1>2. active \in Procs \cup {None} /\ client \in Procs \cup {Fallback}
  BY DEF TypeOK, RouteTypeOK
<1>. QED
  BY <1>1, <1>2, ConstantsOK DEF Request, NoOp, Requests, Steps

\* Every step keeps the types.
LEMMA TypeStep ==
  TypeOK /\ [Next]_vars => TypeOK'
<1> SUFFICES ASSUME TypeOK, [Next]_vars PROVE TypeOK'
  OBVIOUS
<1> USE ConstantsOK DEF Absent, Fallback, Stale, routeVars, storeVars, beside
<1>1. CASE Boot
  <2>1. CASE BootUnrouted
    BY <1>1, <2>1 DEF Boot, BootUnrouted, NotSpawned, TypeOK, RouteTypeOK
  <2>2. CASE BootFails
    BY <1>1, <2>2 DEF Boot, BootFails, NotSpawned, TypeOK, RouteTypeOK
  <2>3. ASSUME NEW p \in Procs, BootRouted(p)
        PROVE  TypeOK'
    BY <1>1, <2>3 DEF Boot, BootRouted, TypeOK, RouteTypeOK
  <2>. QED
    BY <1>1, <2>1, <2>2, <2>3 DEF Boot
<1>2. CASE Crash
  <2>1. gate' \in BOOLEAN /\ backup' \in BOOLEAN /\ up' \in BOOLEAN
    BY <1>2 DEF Crash
  <2>2. op' \in Requests
    BY <1>2, NoOpType DEF Crash
  <2>3. chooser' \in [Choosers -> Choices]
    BY <1>2 DEF Crash, Idle, Choices
  <2>4. RouteTypeOK'
    BY <1>2 DEF Crash, Vanish, TypeOK, RouteTypeOK
  <2>. QED
    BY <1>2, <2>1, <2>2, <2>3, <2>4 DEF Crash, TypeOK
<1>3. CASE BackupBegins
  BY <1>3 DEF BackupBegins, TypeOK, RouteTypeOK
<1>4. CASE BackupEnds
  <2>1. gate' \in BOOLEAN /\ backup' \in BOOLEAN
    BY <1>4 DEF BackupEnds
  <2>. QED
    BY <1>4, <2>1 DEF BackupEnds, TypeOK, RouteTypeOK
<1>5. CASE ReadBegins
  BY <1>5 DEF ReadBegins, TypeOK, RouteTypeOK
<1>6. CASE ReadEnds
  BY <1>6 DEF ReadEnds, TypeOK, RouteTypeOK
<1>7. CASE CoreDies
  BY <1>7 DEF CoreDies, Dies, TypeOK, RouteTypeOK
<1>8. ASSUME NEW i \in Profiles, NEW cores \in SUBSET Available, SaveProfile(i, cores)
      PROVE  TypeOK'
  BY <1>8 DEF SaveProfile, TypeOK, RouteTypeOK
<1>9. ASSUME NEW i \in Profiles, DeleteProfile(i)
      PROVE  TypeOK'
  BY <1>9 DEF DeleteProfile, TypeOK, RouteTypeOK
<1>10. ASSUME NEW i \in Profiles, SelectProfile(i)
      PROVE  TypeOK'
  BY <1>10 DEF SelectProfile, TypeOK, RouteTypeOK
<1>11. ASSUME NEW c \in Choosers, NEW b \in Backends, ChooseBegins(c, b)
      PROVE  TypeOK'
  BY <1>11 DEF ChooseBegins, Choices, TypeOK, RouteTypeOK
<1>12. ASSUME NEW c \in Choosers, ChooseLooks(c)
      PROVE  TypeOK'
  BY <1>12 DEF ChooseLooks, Idle, Choices, TypeOK, RouteTypeOK
<1>13. ASSUME NEW c \in Choosers, ChooseEnds(c)
      PROVE  TypeOK'
  BY <1>13 DEF ChooseEnds, Idle, Choices, TypeOK, RouteTypeOK
<1>14. ASSUME NEW k \in Ops, NEW i \in Profiles, Request(k, i)
      PROVE  TypeOK'
  <2>1. op' \in Requests
    BY <1>14, RequestType
  <2>2. gate' \in BOOLEAN
    BY <1>14 DEF Request
  <2>. QED
    BY <1>14, <2>1, <2>2 DEF Request, TypeOK, RouteTypeOK
<1>15. CASE Look
  <2>1. PICK s \in Steps : op' = [op EXCEPT !.step = s]
    BY <1>15 DEF Look, GoTo, Steps
  <2>2. op' \in Requests
    BY <2>1, StepType
  <2>. QED
    BY <1>15, <2>2 DEF Look, GoTo,
       TypeOK, RouteTypeOK
<1>16. CASE Load
  <2>1. PICK s \in Steps : op' = [op EXCEPT !.step = s]
    BY <1>16 DEF Load, GoTo, Refuse, Steps
  <2>2. op' \in Requests
    BY <2>1, StepType
  <2>. QED
    BY <1>16, <2>2 DEF Load, GoTo, Refuse,
       TypeOK, RouteTypeOK
<1>17. CASE ReadUrl
  <2>1. PICK s \in Steps : op' = [op EXCEPT !.step = s]
    BY <1>17 DEF ReadUrl, GoTo, Steps
  <2>2. op' \in Requests
    BY <2>1, StepType
  <2>. QED
    BY <1>17, <2>2 DEF ReadUrl, GoTo,
       TypeOK, RouteTypeOK
<1>18. CASE ReadCore
  <2>1. PICK s \in Steps : op' = [op EXCEPT !.core = selected, !.step = s]
    BY <1>18 DEF ReadCore, Steps
  <2>2. selected \in Backends
    BY DEF TypeOK
  <2>3. op' \in Requests
    BY <2>1, <2>2 DEF TypeOK, Requests
  <2>. QED
    BY <1>18, <2>3 DEF ReadCore, TypeOK, RouteTypeOK
<1>19. CASE ReadCompatible
  <2>1. PICK s \in Steps : op' = [op EXCEPT !.step = s]
    BY <1>19 DEF ReadCompatible, GoTo, Steps
  <2>2. op' \in Requests
    BY <2>1, StepType
  <2>. QED
    BY <1>19, <2>2 DEF ReadCompatible, GoTo,
       TypeOK, RouteTypeOK
<1>20. CASE Start
  <2>0. UNCHANGED <<storeVars, client, gate, up, reading, backup, chooser>>
    BY <1>20, Zenon DEF Start
  <2>1. CASE NotSpawned(op.core) /\ StartRefused
    <3>1. PICK s \in Steps : op' = [op EXCEPT !.step = s]
      BY <2>1 DEF StartRefused, GoTo, Steps
    <3>2. op' \in Requests
      BY <3>1, StepType
    <3>3. op.core \in Backends
      BY DEF TypeOK, Requests
    <3>4. file' \in [Backends -> Procs \cup {None, Stale}]
      BY <2>1, <3>3 DEF NotSpawned, TypeOK, RouteTypeOK
    <3>. QED
      BY <2>0, <2>1, <3>2, <3>4 DEF NotSpawned, TypeOK, RouteTypeOK
  <2>2. ASSUME NEW p \in Procs, Spawn(p, op.core),
               op' = [op EXCEPT !.step = "wait", !.proc = p]
        PROVE  TypeOK'
    <3>1. "wait" \in Steps
      BY DEF Steps
    <3>2. op' \in Requests
      BY <2>2, <3>1 DEF TypeOK, Requests
    <3>3. op.core \in Backends
      BY DEF TypeOK, Requests
    <3>4. RouteTypeOK'
      BY <2>2, <3>3 DEF Spawn, TypeOK, RouteTypeOK
    <3>. QED
      BY <2>0, <3>2, <3>4 DEF TypeOK
  <2>. QED
    BY <1>20, <2>1, <2>2, Zenon DEF Start
<1>21. CASE Listen
  <2>1. PICK s \in Steps : op' = [op EXCEPT !.step = s]
    BY <1>21 DEF Listen, TakeOver, GiveUp, Cleanup, StartRefused, GoTo, Steps
  <2>2. op' \in Requests
    BY <2>1, StepType
  <2>3. op.proc \in Procs \cup {None}
    BY DEF TypeOK, Requests
  <2>. QED
    BY <1>21, <2>2, <2>3 DEF Listen, TakeOver, GiveUp, Cleanup, StartRefused, GoTo,
       TypeOK, RouteTypeOK
<1>22. CASE BuildClient
  <2>1. PICK s \in Steps : op' = [op EXCEPT !.step = s]
    BY <1>22 DEF BuildClient, GoTo, Steps
  <2>2. op' \in Requests
    BY <2>1, StepType
  <2>. QED
    BY <1>22, <2>2 DEF BuildClient, GoTo,
       TypeOK, RouteTypeOK
<1>23. CASE SwapClient
  <2>1. PICK s \in Steps : op' = [op EXCEPT !.step = s]
    BY <1>23 DEF SwapClient, GoTo, Steps
  <2>2. op' \in Requests
    BY <2>1, StepType
  <2>3. op.proc \in Procs \cup {None}
    BY DEF TypeOK, Requests
  <2>. QED
    BY <1>23, <2>2, <2>3 DEF SwapClient, GoTo,
       TypeOK, RouteTypeOK
<1>24. CASE StoreActive
  <2>1. PICK s \in Steps : op' = [op EXCEPT !.step = s]
    BY <1>24 DEF StoreActive, GoTo, Steps
  <2>2. op' \in Requests
    BY <2>1, StepType
  <2>3. op.id \in Profiles \cup {None}
    BY DEF TypeOK, Requests
  <2>. QED
    BY <1>24, <2>2, <2>3 DEF StoreActive, GoTo,
       TypeOK, RouteTypeOK
<1>25. CASE UnswapClient
  <2>1. PICK s \in Steps : op' = [op EXCEPT !.step = s]
    BY <1>25 DEF UnswapClient, GoTo, Steps
  <2>2. op' \in Requests
    BY <2>1, StepType
  <2>3. op.oldClient \in Procs \cup {Fallback}
    BY DEF TypeOK, Requests
  <2>. QED
    BY <1>25, <2>2, <2>3 DEF UnswapClient, GoTo,
       TypeOK, RouteTypeOK
<1>26. CASE CommitRoute
  <2>1. PICK s \in Steps : op' = [op EXCEPT !.step = s]
    BY <1>26 DEF CommitRoute, Commit, Cleanup, GoTo, Steps
  <2>2. op' \in Requests
    BY <2>1, StepType
  <2>. QED
    BY <1>26, <2>2 DEF CommitRoute, Commit, Cleanup, GoTo,
       TypeOK, RouteTypeOK
<1>27. CASE Rollback
  <2>1. "put" \in Steps
    BY DEF Steps
  <2>2. pending \in Procs \cup {None}
    BY DEF TypeOK, RouteTypeOK
  <2>3. op' \in Requests
    BY <1>27, <2>1, <2>2 DEF Rollback, TypeOK, Requests
  <2>. QED
    BY <1>27, <2>3 DEF Rollback, RollbackTake, Cleanup, TypeOK, RouteTypeOK
<1>28. CASE PutBack
  <2>1. "failed" \in Steps
    BY DEF Steps
  <2>2. op' \in Requests
    BY <1>28, <2>1 DEF PutBack, TypeOK, Requests
  <2>3. op.held \in Procs \cup {None}
    BY DEF TypeOK, Requests
  <2>. QED
    BY <1>28, <2>2, <2>3 DEF PutBack, RollbackPut, TypeOK, RouteTypeOK
<1>29. CASE ClearActive
  <2>1. PICK s \in Steps : op' = [op EXCEPT !.step = s]
    BY <1>29 DEF ClearActive, GoTo, Refuse, Steps
  <2>2. op' \in Requests
    BY <2>1, StepType
  <2>. QED
    BY <1>29, <2>2 DEF ClearActive, GoTo, Refuse,
       TypeOK, RouteTypeOK
<1>30. CASE StopRoute
  <2>1. PICK s \in Steps : op' = [op EXCEPT !.step = s]
    BY <1>30 DEF StopRoute, Stop, Cleanup, GoTo, Steps
  <2>2. op' \in Requests
    BY <2>1, StepType
  <2>. QED
    BY <1>30, <2>2 DEF StopRoute, Stop, Cleanup, GoTo,
       TypeOK, RouteTypeOK
<1>31. CASE Answer
  <2>1. op' \in Requests /\ gate' \in BOOLEAN
    BY <1>31, NoOpType DEF Answer
  <2>. QED
    BY <1>31, <2>1 DEF Answer, TypeOK, RouteTypeOK
<1>32. CASE UNCHANGED vars
  BY <1>32 DEF vars, TypeOK, RouteTypeOK
<1>. QED
  BY <1>1, <1>2, <1>3, <1>4, <1>5, <1>6, <1>7, <1>8, <1>9, <1>10, <1>11
     , <1>12, <1>13, <1>14, <1>15, <1>16, <1>17, <1>18, <1>19, <1>20, <1>21
     , <1>22, <1>23, <1>24, <1>25, <1>26, <1>27, <1>28, <1>29, <1>30, <1>31
     , <1>32
     DEF Next, Edit, OpStep

\* Every step keeps the gate with whoever took it.
LEMMA GateStep ==
  IInv /\ [Next]_vars => GateInv'
<1> SUFFICES ASSUME IInv, [Next]_vars PROVE GateInv'
  OBVIOUS
<1> USE ConstantsOK DEF IInv, GateInv, Switching, TypeOK, RouteTypeOK, NoOp, Requests,
      routeVars, storeVars, beside
<1>1. CASE Boot
  <2>1. CASE BootUnrouted
    BY <1>1, <2>1 DEF Boot, BootUnrouted, NotSpawned
  <2>2. CASE BootFails
    BY <1>1, <2>2 DEF Boot, BootFails, NotSpawned
  <2>3. ASSUME NEW p \in Procs, Free(p), BootRouted(p)
        PROVE  GateInv'
    BY <1>1, <2>3 DEF Boot, BootRouted, Free
  <2>. HIDE DEF GateInv
  <2>. QED
    BY <1>1, <2>1, <2>2, <2>3 DEF Boot
<1>2. CASE Crash
  BY <1>2 DEF Crash, Vanish
<1>3. CASE BackupBegins
  BY <1>3 DEF BackupBegins
<1>4. CASE BackupEnds
  BY <1>4 DEF BackupEnds
<1>5. CASE ReadBegins
  BY <1>5 DEF ReadBegins
<1>6. CASE ReadEnds
  BY <1>6 DEF ReadEnds
<1>7. CASE CoreDies
  BY <1>7 DEF CoreDies, Dies
<1>8. ASSUME NEW i \in Profiles, NEW cores \in SUBSET Available, SaveProfile(i, cores)
      PROVE  GateInv'
  BY <1>8 DEF SaveProfile
<1>9. ASSUME NEW i \in Profiles, DeleteProfile(i)
      PROVE  GateInv'
  BY <1>9 DEF DeleteProfile
<1>10. ASSUME NEW i \in Profiles, SelectProfile(i)
      PROVE  GateInv'
  BY <1>10 DEF SelectProfile
<1>11. ASSUME NEW c \in Choosers, NEW b \in Backends, ChooseBegins(c, b)
      PROVE  GateInv'
  BY <1>11 DEF ChooseBegins
<1>12. ASSUME NEW c \in Choosers, ChooseLooks(c)
      PROVE  GateInv'
  BY <1>12 DEF ChooseLooks, Idle
<1>13. ASSUME NEW c \in Choosers, ChooseEnds(c)
      PROVE  GateInv'
  BY <1>13 DEF ChooseEnds, Idle
<1>14. ASSUME NEW k \in Ops, NEW i \in Profiles, Request(k, i)
      PROVE  GateInv'
  BY <1>14 DEF Request, NoOp, First
<1>15. CASE Look
  BY <1>15 DEF Look, GoTo
<1>16. CASE Load
  BY <1>16 DEF Load, GoTo, Refuse
<1>17. CASE ReadUrl
  BY <1>17 DEF ReadUrl, GoTo
<1>18. CASE ReadCore
  BY <1>18 DEF ReadCore
<1>19. CASE ReadCompatible
  BY <1>19 DEF ReadCompatible, GoTo
<1>20. CASE Start
  <2>1. op.step = "start" /\ UNCHANGED <<storeVars, client, gate, up, reading, backup, chooser>>
    BY <1>20, Zenon DEF Start
  <2>2. CASE NotSpawned(op.core) /\ StartRefused
    BY <2>1, <2>2 DEF NotSpawned, StartRefused, GoTo
  <2>3. ASSUME NEW p \in Procs, Free(p), Spawn(p, op.core),
               op' = [op EXCEPT !.step = "wait", !.proc = p]
        PROVE  GateInv'
    BY <2>1, <2>3 DEF Free, Spawn
  <2>. HIDE DEF GateInv
  <2>. QED
    BY <1>20, <2>2, <2>3, Zenon DEF Start
<1>21. CASE Listen
  BY <1>21 DEF Listen, TakeOver, GiveUp, Cleanup, StartRefused, GoTo
<1>22. CASE BuildClient
  BY <1>22 DEF BuildClient, GoTo
<1>23. CASE SwapClient
  BY <1>23 DEF SwapClient, GoTo
<1>24. CASE StoreActive
  BY <1>24 DEF StoreActive, GoTo
<1>25. CASE UnswapClient
  BY <1>25 DEF UnswapClient, GoTo
<1>26. CASE CommitRoute
  BY <1>26 DEF CommitRoute, Commit, Cleanup, GoTo
<1>27. CASE Rollback
  BY <1>27 DEF Rollback, RollbackTake, Cleanup
<1>28. CASE PutBack
  BY <1>28 DEF PutBack, RollbackPut
<1>29. CASE ClearActive
  BY <1>29 DEF ClearActive, GoTo, Refuse
<1>30. CASE StopRoute
  BY <1>30 DEF StopRoute, Stop, Cleanup, GoTo
<1>31. CASE Answer
  BY <1>31 DEF Answer, NoOp
<1>32. CASE UNCHANGED vars
  BY <1>32 DEF vars
<1>. HIDE DEF GateInv
<1>. QED
  BY <1>1, <1>2, <1>3, <1>4, <1>5, <1>6, <1>7, <1>8, <1>9, <1>10, <1>11
     , <1>12, <1>13, <1>14, <1>15, <1>16, <1>17, <1>18, <1>19, <1>20, <1>21
     , <1>22, <1>23, <1>24, <1>25, <1>26, <1>27, <1>28, <1>29, <1>30, <1>31
     , <1>32
     DEF Next, Edit, OpStep

\* Every step keeps each process in its place.
LEMMA SlotsStep ==
  IInv /\ [Next]_vars => SlotsInv'
<1> SUFFICES ASSUME IInv, [Next]_vars PROVE SlotsInv'
  OBVIOUS
<1> USE ConstantsOK DEF IInv, SlotsInv, GateInv, Switching, TypeOK, RouteTypeOK, Requests,
      NoOp, Between, MayHavePredecessor, routeVars, storeVars, beside
<1>1. CASE Boot
  <2>1. CASE BootUnrouted
    BY <1>1, <2>1 DEF Boot, BootUnrouted, NotSpawned
  <2>2. CASE BootFails
    BY <1>1, <2>2 DEF Boot, BootFails, NotSpawned
  <2>3. ASSUME NEW p \in Procs, Free(p), BootRouted(p)
        PROVE  SlotsInv'
    BY <1>1, <2>3 DEF Boot, BootRouted, Free
  <2>. HIDE DEF SlotsInv
  <2>. QED
    BY <1>1, <2>1, <2>2, <2>3 DEF Boot
<1>2. CASE Crash
  BY <1>2 DEF Crash, Vanish
<1>3. CASE BackupBegins
  BY <1>3 DEF BackupBegins
<1>4. CASE BackupEnds
  BY <1>4 DEF BackupEnds
<1>5. CASE ReadBegins
  BY <1>5 DEF ReadBegins
<1>6. CASE ReadEnds
  BY <1>6 DEF ReadEnds
<1>7. CASE CoreDies
  BY <1>7 DEF CoreDies, Dies
<1>8. ASSUME NEW i \in Profiles, NEW cores \in SUBSET Available, SaveProfile(i, cores)
      PROVE  SlotsInv'
  BY <1>8 DEF SaveProfile
<1>9. ASSUME NEW i \in Profiles, DeleteProfile(i)
      PROVE  SlotsInv'
  BY <1>9 DEF DeleteProfile
<1>10. ASSUME NEW i \in Profiles, SelectProfile(i)
      PROVE  SlotsInv'
  BY <1>10 DEF SelectProfile
<1>11. ASSUME NEW c \in Choosers, NEW b \in Backends, ChooseBegins(c, b)
      PROVE  SlotsInv'
  BY <1>11 DEF ChooseBegins
<1>12. ASSUME NEW c \in Choosers, ChooseLooks(c)
      PROVE  SlotsInv'
  BY <1>12 DEF ChooseLooks, Idle
<1>13. ASSUME NEW c \in Choosers, ChooseEnds(c)
      PROVE  SlotsInv'
  BY <1>13 DEF ChooseEnds, Idle
<1>14. ASSUME NEW k \in Ops, NEW i \in Profiles, Request(k, i)
      PROVE  SlotsInv'
  BY <1>14 DEF Request, NoOp, First
<1>15. CASE Look
  BY <1>15 DEF Look, GoTo
<1>16. CASE Load
  BY <1>16 DEF Load, GoTo, Refuse
<1>17. CASE ReadUrl
  BY <1>17 DEF ReadUrl, GoTo
<1>18. CASE ReadCore
  BY <1>18 DEF ReadCore
<1>19. CASE ReadCompatible
  BY <1>19 DEF ReadCompatible, GoTo
<1>20. CASE Start
  <2>1. op.step = "start" /\ UNCHANGED <<storeVars, client, gate, up, reading, backup, chooser>>
    BY <1>20, Zenon DEF Start
  <2>2. CASE NotSpawned(op.core) /\ StartRefused
    BY <2>1, <2>2 DEF NotSpawned, StartRefused, GoTo
  <2>3. ASSUME NEW p \in Procs, Free(p), Spawn(p, op.core),
               op' = [op EXCEPT !.step = "wait", !.proc = p]
        PROVE  SlotsInv'
    BY <2>1, <2>3 DEF Free, Spawn
  <2>. HIDE DEF SlotsInv
  <2>. QED
    BY <1>20, <2>2, <2>3, Zenon DEF Start
<1>21. CASE Listen
  <2>1. op.step = "wait" /\ UNCHANGED <<storeVars, client, gate, up, reading, backup, chooser>>
    BY <1>21 DEF Listen
  <2>2. CASE TakeOver(op.proc) /\ GoTo("client")
    BY <2>1, <2>2 DEF TakeOver, GoTo
  <2>3. CASE GiveUp(op.proc) /\ StartRefused
    BY <2>1, <2>3 DEF GiveUp, Cleanup, StartRefused, GoTo
  <2>. HIDE DEF SlotsInv
  <2>. QED
    BY <1>21, <2>2, <2>3, Zenon DEF Listen
<1>22. CASE BuildClient
  BY <1>22 DEF BuildClient, GoTo
<1>23. CASE SwapClient
  BY <1>23 DEF SwapClient, GoTo
<1>24. CASE StoreActive
  BY <1>24 DEF StoreActive, GoTo
<1>25. CASE UnswapClient
  BY <1>25 DEF UnswapClient, GoTo
<1>26. CASE CommitRoute
  BY <1>26 DEF CommitRoute, Commit, Cleanup, GoTo
<1>27. CASE Rollback
  BY <1>27 DEF Rollback, RollbackTake, Cleanup
<1>28. CASE PutBack
  BY <1>28 DEF PutBack, RollbackPut
<1>29. CASE ClearActive
  BY <1>29 DEF ClearActive, GoTo, Refuse
<1>30. CASE StopRoute
  BY <1>30 DEF StopRoute, Stop, Cleanup, GoTo
<1>31. CASE Answer
  BY <1>31 DEF Answer, NoOp
<1>32. CASE UNCHANGED vars
  BY <1>32 DEF vars
<1>. HIDE DEF SlotsInv
<1>. QED
  BY <1>1, <1>2, <1>3, <1>4, <1>5, <1>6, <1>7, <1>8, <1>9, <1>10, <1>11
     , <1>12, <1>13, <1>14, <1>15, <1>16, <1>17, <1>18, <1>19, <1>20, <1>21
     , <1>22, <1>23, <1>24, <1>25, <1>26, <1>27, <1>28, <1>29, <1>30, <1>31
     , <1>32
     DEF Next, Edit, OpStep

\* Every step keeps files and processes matched.
LEMMA FileStep ==
  IInv /\ [Next]_vars => FileInv'
<1> SUFFICES ASSUME IInv, [Next]_vars PROVE FileInv'
  OBVIOUS
<1> USE ConstantsOK DEF IInv, FileInv, TypeOK, RouteTypeOK, Requests, Stale,
      routeVars, storeVars, beside
<1>1. CASE Boot
  <2>1. CASE BootUnrouted
    BY <1>1, <2>1 DEF Boot, BootUnrouted, NotSpawned, SlotsInv
  <2>2. CASE BootFails
    BY <1>1, <2>2 DEF Boot, BootFails, NotSpawned, SlotsInv
  <2>3. ASSUME NEW p \in Procs, Free(p), BootRouted(p)
        PROVE  FileInv'
    BY <1>1, <2>3 DEF Boot, BootRouted, Free, SlotsInv
  <2>. HIDE DEF FileInv
  <2>. QED
    BY <1>1, <2>1, <2>2, <2>3 DEF Boot
<1>2. CASE Crash
  BY <1>2 DEF Crash, Vanish
<1>3. CASE BackupBegins
  BY <1>3 DEF BackupBegins
<1>4. CASE BackupEnds
  BY <1>4 DEF BackupEnds
<1>5. CASE ReadBegins
  BY <1>5 DEF ReadBegins
<1>6. CASE ReadEnds
  BY <1>6 DEF ReadEnds
<1>7. CASE CoreDies
  BY <1>7 DEF CoreDies, Dies
<1>8. ASSUME NEW i \in Profiles, NEW cores \in SUBSET Available, SaveProfile(i, cores)
      PROVE  FileInv'
  BY <1>8 DEF SaveProfile
<1>9. ASSUME NEW i \in Profiles, DeleteProfile(i)
      PROVE  FileInv'
  BY <1>9 DEF DeleteProfile
<1>10. ASSUME NEW i \in Profiles, SelectProfile(i)
      PROVE  FileInv'
  BY <1>10 DEF SelectProfile
<1>11. ASSUME NEW c \in Choosers, NEW b \in Backends, ChooseBegins(c, b)
      PROVE  FileInv'
  BY <1>11 DEF ChooseBegins
<1>12. ASSUME NEW c \in Choosers, ChooseLooks(c)
      PROVE  FileInv'
  BY <1>12 DEF ChooseLooks, Idle
<1>13. ASSUME NEW c \in Choosers, ChooseEnds(c)
      PROVE  FileInv'
  BY <1>13 DEF ChooseEnds, Idle
<1>14. ASSUME NEW k \in Ops, NEW i \in Profiles, Request(k, i)
      PROVE  FileInv'
  BY <1>14 DEF Request, NoOp, First
<1>15. CASE Look
  BY <1>15 DEF Look, GoTo
<1>16. CASE Load
  BY <1>16 DEF Load, GoTo, Refuse
<1>17. CASE ReadUrl
  BY <1>17 DEF ReadUrl, GoTo
<1>18. CASE ReadCore
  BY <1>18 DEF ReadCore
<1>19. CASE ReadCompatible
  BY <1>19 DEF ReadCompatible, GoTo
<1>20. CASE Start
  <2>1. op.step = "start" /\ UNCHANGED <<storeVars, client, gate, up, reading, backup, chooser>>
    BY <1>20, Zenon DEF Start
  <2>2. CASE NotSpawned(op.core) /\ StartRefused
    BY <2>1, <2>2 DEF NotSpawned, StartRefused, GoTo
  <2>3. ASSUME NEW p \in Procs, Free(p), Spawn(p, op.core),
               op' = [op EXCEPT !.step = "wait", !.proc = p]
        PROVE  FileInv'
    BY <2>1, <2>3 DEF Free, Spawn, SlotsInv, MayHavePredecessor, Between
  <2>. HIDE DEF FileInv
  <2>. QED
    BY <1>20, <2>2, <2>3, Zenon DEF Start
<1>21. CASE Listen
  BY <1>21 DEF Listen, TakeOver, GiveUp, Cleanup, StartRefused, GoTo, SlotsInv
<1>22. CASE BuildClient
  BY <1>22 DEF BuildClient, GoTo
<1>23. CASE SwapClient
  BY <1>23 DEF SwapClient, GoTo
<1>24. CASE StoreActive
  BY <1>24 DEF StoreActive, GoTo
<1>25. CASE UnswapClient
  BY <1>25 DEF UnswapClient, GoTo
<1>26. CASE CommitRoute
  BY <1>26 DEF CommitRoute, Commit, Cleanup, GoTo
<1>27. CASE Rollback
  BY <1>27 DEF Rollback, RollbackTake, Cleanup
<1>28. CASE PutBack
  BY <1>28 DEF PutBack, RollbackPut
<1>29. CASE ClearActive
  BY <1>29 DEF ClearActive, GoTo, Refuse
<1>30. CASE StopRoute
  BY <1>30 DEF StopRoute, Stop, Cleanup, GoTo
<1>31. CASE Answer
  BY <1>31 DEF Answer, NoOp
<1>32. CASE UNCHANGED vars
  BY <1>32 DEF vars
<1>. HIDE DEF FileInv
<1>. QED
  BY <1>1, <1>2, <1>3, <1>4, <1>5, <1>6, <1>7, <1>8, <1>9, <1>10, <1>11
     , <1>12, <1>13, <1>14, <1>15, <1>16, <1>17, <1>18, <1>19, <1>20, <1>21
     , <1>22, <1>23, <1>24, <1>25, <1>26, <1>27, <1>28, <1>29, <1>30, <1>31
     , <1>32
     DEF Next, Edit, OpStep

\* Every step keeps the active profile in the store.
LEMMA StoreStep ==
  IInv /\ [Next]_vars => ActiveExists'
<1> SUFFICES ASSUME IInv, [Next]_vars PROVE ActiveExists'
  OBVIOUS
<1> USE ConstantsOK DEF IInv, ActiveExists, TypeOK, Requests, Absent,
      routeVars, storeVars, beside
<1>1. CASE Boot
  <2>1. CASE BootUnrouted
    BY <1>1, <2>1 DEF Boot, BootUnrouted, NotSpawned
  <2>2. CASE BootFails
    BY <1>1, <2>2 DEF Boot, BootFails, NotSpawned
  <2>3. ASSUME NEW p \in Procs, Free(p), BootRouted(p)
        PROVE  ActiveExists'
    BY <1>1, <2>3 DEF Boot, BootRouted, Free
  <2>. HIDE DEF ActiveExists
  <2>. QED
    BY <1>1, <2>1, <2>2, <2>3 DEF Boot
<1>2. CASE Crash
  BY <1>2 DEF Crash, Vanish
<1>3. CASE BackupBegins
  BY <1>3 DEF BackupBegins
<1>4. CASE BackupEnds
  BY <1>4 DEF BackupEnds
<1>5. CASE ReadBegins
  BY <1>5 DEF ReadBegins
<1>6. CASE ReadEnds
  BY <1>6 DEF ReadEnds
<1>7. CASE CoreDies
  BY <1>7 DEF CoreDies, Dies
<1>8. ASSUME NEW i \in Profiles, NEW cores \in SUBSET Available, SaveProfile(i, cores)
      PROVE  ActiveExists'
  BY <1>8 DEF SaveProfile
<1>9. ASSUME NEW i \in Profiles, DeleteProfile(i)
      PROVE  ActiveExists'
  BY <1>9 DEF DeleteProfile
<1>10. ASSUME NEW i \in Profiles, SelectProfile(i)
      PROVE  ActiveExists'
  BY <1>10 DEF SelectProfile
<1>11. ASSUME NEW c \in Choosers, NEW b \in Backends, ChooseBegins(c, b)
      PROVE  ActiveExists'
  BY <1>11 DEF ChooseBegins
<1>12. ASSUME NEW c \in Choosers, ChooseLooks(c)
      PROVE  ActiveExists'
  BY <1>12 DEF ChooseLooks, Idle
<1>13. ASSUME NEW c \in Choosers, ChooseEnds(c)
      PROVE  ActiveExists'
  BY <1>13 DEF ChooseEnds, Idle
<1>14. ASSUME NEW k \in Ops, NEW i \in Profiles, Request(k, i)
      PROVE  ActiveExists'
  BY <1>14 DEF Request, NoOp, First
<1>15. CASE Look
  BY <1>15 DEF Look, GoTo
<1>16. CASE Load
  BY <1>16 DEF Load, GoTo, Refuse
<1>17. CASE ReadUrl
  BY <1>17 DEF ReadUrl, GoTo
<1>18. CASE ReadCore
  BY <1>18 DEF ReadCore
<1>19. CASE ReadCompatible
  BY <1>19 DEF ReadCompatible, GoTo
<1>20. CASE Start
  <2>1. op.step = "start" /\ UNCHANGED <<storeVars, client, gate, up, reading, backup, chooser>>
    BY <1>20, Zenon DEF Start
  <2>2. CASE NotSpawned(op.core) /\ StartRefused
    BY <2>1, <2>2 DEF NotSpawned, StartRefused, GoTo
  <2>3. ASSUME NEW p \in Procs, Free(p), Spawn(p, op.core),
               op' = [op EXCEPT !.step = "wait", !.proc = p]
        PROVE  ActiveExists'
    BY <2>1, <2>3 DEF Free, Spawn
  <2>. HIDE DEF ActiveExists
  <2>. QED
    BY <1>20, <2>2, <2>3, Zenon DEF Start
<1>21. CASE Listen
  BY <1>21 DEF Listen, TakeOver, GiveUp, Cleanup, StartRefused, GoTo
<1>22. CASE BuildClient
  BY <1>22 DEF BuildClient, GoTo
<1>23. CASE SwapClient
  BY <1>23 DEF SwapClient, GoTo
<1>24. CASE StoreActive
  BY <1>24 DEF StoreActive, GoTo, SlotsInv, GateInv, Switching
<1>25. CASE UnswapClient
  BY <1>25 DEF UnswapClient, GoTo
<1>26. CASE CommitRoute
  BY <1>26 DEF CommitRoute, Commit, Cleanup, GoTo
<1>27. CASE Rollback
  BY <1>27 DEF Rollback, RollbackTake, Cleanup
<1>28. CASE PutBack
  BY <1>28 DEF PutBack, RollbackPut
<1>29. CASE ClearActive
  BY <1>29 DEF ClearActive, GoTo, Refuse
<1>30. CASE StopRoute
  BY <1>30 DEF StopRoute, Stop, Cleanup, GoTo
<1>31. CASE Answer
  BY <1>31 DEF Answer, NoOp
<1>32. CASE UNCHANGED vars
  BY <1>32 DEF vars
<1>. HIDE DEF ActiveExists
<1>. QED
  BY <1>1, <1>2, <1>3, <1>4, <1>5, <1>6, <1>7, <1>8, <1>9, <1>10, <1>11
     , <1>12, <1>13, <1>14, <1>15, <1>16, <1>17, <1>18, <1>19, <1>20, <1>21
     , <1>22, <1>23, <1>24, <1>25, <1>26, <1>27, <1>28, <1>29, <1>30, <1>31
     , <1>32
     DEF Next, Edit, OpStep

\* Every step keeps the client of a request under way.
LEMMA ReadStep ==
  IInv /\ [Next]_vars => ReadInv'
<1> SUFFICES ASSUME IInv, [Next]_vars PROVE ReadInv'
  OBVIOUS
<1> USE ConstantsOK DEF IInv, ReadInv, TypeOK, Fallback,
      routeVars, storeVars, beside
<1>1. CASE Boot
  BY <1>1 DEF Boot, BootRouted, BootUnrouted, BootFails, NotSpawned, Free, GateInv, SlotsInv
<1>2. CASE Crash
  BY <1>2 DEF Crash, Vanish
<1>3. CASE BackupBegins
  BY <1>3 DEF BackupBegins
<1>4. CASE BackupEnds
  BY <1>4 DEF BackupEnds
<1>5. CASE ReadBegins
  BY <1>5 DEF ReadBegins
<1>6. CASE ReadEnds
  BY <1>6 DEF ReadEnds
<1>7. CASE CoreDies
  BY <1>7 DEF CoreDies, Dies
<1>8. ASSUME NEW i \in Profiles, NEW cores \in SUBSET Available, SaveProfile(i, cores)
      PROVE  ReadInv'
  BY <1>8 DEF SaveProfile
<1>9. ASSUME NEW i \in Profiles, DeleteProfile(i)
      PROVE  ReadInv'
  BY <1>9 DEF DeleteProfile
<1>10. ASSUME NEW i \in Profiles, SelectProfile(i)
      PROVE  ReadInv'
  BY <1>10 DEF SelectProfile
<1>11. ASSUME NEW c \in Choosers, NEW b \in Backends, ChooseBegins(c, b)
      PROVE  ReadInv'
  BY <1>11 DEF ChooseBegins
<1>12. ASSUME NEW c \in Choosers, ChooseLooks(c)
      PROVE  ReadInv'
  BY <1>12 DEF ChooseLooks, Idle
<1>13. ASSUME NEW c \in Choosers, ChooseEnds(c)
      PROVE  ReadInv'
  BY <1>13 DEF ChooseEnds, Idle
<1>14. ASSUME NEW k \in Ops, NEW i \in Profiles, Request(k, i)
      PROVE  ReadInv'
  BY <1>14 DEF Request, NoOp, First
<1>15. CASE Look
  BY <1>15 DEF Look, GoTo
<1>16. CASE Load
  BY <1>16 DEF Load, GoTo, Refuse
<1>17. CASE ReadUrl
  BY <1>17 DEF ReadUrl, GoTo
<1>18. CASE ReadCore
  BY <1>18 DEF ReadCore
<1>19. CASE ReadCompatible
  BY <1>19 DEF ReadCompatible, GoTo
<1>20. CASE Start
  <2>1. UNCHANGED <<up, client, reading>>
    BY <1>20, Zenon DEF Start, beside
  <2>. QED
    BY <2>1
<1>21. CASE Listen
  BY <1>21 DEF Listen, TakeOver, GiveUp, Cleanup, StartRefused, GoTo
<1>22. CASE BuildClient
  BY <1>22 DEF BuildClient, GoTo
<1>23. CASE SwapClient
  BY <1>23 DEF SwapClient, GoTo
<1>24. CASE StoreActive
  BY <1>24 DEF StoreActive, GoTo
<1>25. CASE UnswapClient
  BY <1>25 DEF UnswapClient, GoTo
<1>26. CASE CommitRoute
  BY <1>26 DEF CommitRoute, Commit, Cleanup, GoTo
<1>27. CASE Rollback
  BY <1>27 DEF Rollback, RollbackTake, Cleanup
<1>28. CASE PutBack
  BY <1>28 DEF PutBack, RollbackPut
<1>29. CASE ClearActive
  BY <1>29 DEF ClearActive, GoTo, Refuse
<1>30. CASE StopRoute
  BY <1>30 DEF StopRoute, Stop, Cleanup, GoTo
<1>31. CASE Answer
  BY <1>31 DEF Answer, NoOp
<1>32. CASE UNCHANGED vars
  BY <1>32 DEF vars
<1>. HIDE DEF ReadInv
<1>. QED
  BY <1>1, <1>2, <1>3, <1>4, <1>5, <1>6, <1>7, <1>8, <1>9, <1>10, <1>11
     , <1>12, <1>13, <1>14, <1>15, <1>16, <1>17, <1>18, <1>19, <1>20, <1>21
     , <1>22, <1>23, <1>24, <1>25, <1>26, <1>27, <1>28, <1>29, <1>30, <1>31
     , <1>32
     DEF Next, Edit, OpStep

\* Without imports every step keeps what its stage promises.
LEMMA StageStep ==
  "import" \notin Ops /\ IInv /\ StageInv /\ [Next]_vars => StageInv'
<1> SUFFICES ASSUME "import" \notin Ops, IInv, StageInv, [Next]_vars PROVE StageInv'
  OBVIOUS
<1> USE ConstantsOK DEF IInv, StageInv, SlotsInv, GateInv, Switching, TypeOK, RouteTypeOK, Requests,
      Kept, Replaced, Through, Between, MayHavePredecessor, Fallback, NoOp,
      routeVars, storeVars, beside
<1>1. CASE Boot
  <2>1. CASE BootUnrouted
    BY <1>1, <2>1 DEF Boot, BootUnrouted, NotSpawned
  <2>2. CASE BootFails
    BY <1>1, <2>2 DEF Boot, BootFails, NotSpawned
  <2>3. ASSUME NEW p \in Procs, Free(p), BootRouted(p)
        PROVE  StageInv'
    BY <1>1, <2>3 DEF Boot, BootRouted, Free
  <2>. HIDE DEF StageInv
  <2>. QED
    BY <1>1, <2>1, <2>2, <2>3 DEF Boot
<1>2. CASE Crash
  BY <1>2 DEF Crash, Vanish
<1>3. CASE BackupBegins
  BY <1>3 DEF BackupBegins
<1>4. CASE BackupEnds
  BY <1>4 DEF BackupEnds
<1>5. CASE ReadBegins
  BY <1>5 DEF ReadBegins
<1>6. CASE ReadEnds
  BY <1>6 DEF ReadEnds
<1>7. CASE CoreDies
  BY <1>7 DEF CoreDies, Dies
<1>8. ASSUME NEW i \in Profiles, NEW cores \in SUBSET Available, SaveProfile(i, cores)
      PROVE  StageInv'
  BY <1>8 DEF SaveProfile
<1>9. ASSUME NEW i \in Profiles, DeleteProfile(i)
      PROVE  StageInv'
  BY <1>9 DEF DeleteProfile
<1>10. ASSUME NEW i \in Profiles, SelectProfile(i)
      PROVE  StageInv'
  BY <1>10 DEF SelectProfile
<1>11. ASSUME NEW c \in Choosers, NEW b \in Backends, ChooseBegins(c, b)
      PROVE  StageInv'
  BY <1>11 DEF ChooseBegins
<1>12. ASSUME NEW c \in Choosers, ChooseLooks(c)
      PROVE  StageInv'
  BY <1>12 DEF ChooseLooks, Idle
<1>13. ASSUME NEW c \in Choosers, ChooseEnds(c)
      PROVE  StageInv'
  BY <1>13 DEF ChooseEnds, Idle
<1>14. ASSUME NEW k \in Ops, NEW i \in Profiles, Request(k, i)
      PROVE  StageInv'
  BY <1>14 DEF Request, NoOp, First
<1>15. CASE Look
  BY <1>15 DEF Look, GoTo
<1>16. CASE Load
  BY <1>16 DEF Load, GoTo, Refuse
<1>17. CASE ReadUrl
  BY <1>17 DEF ReadUrl, GoTo
<1>18. CASE ReadCore
  BY <1>18 DEF ReadCore
<1>19. CASE ReadCompatible
  BY <1>19 DEF ReadCompatible, GoTo
<1>20. CASE Start
  <2>1. op.step = "start" /\ UNCHANGED <<storeVars, client, gate, up, reading, backup, chooser>>
    BY <1>20, Zenon DEF Start
  <2>2. CASE NotSpawned(op.core) /\ StartRefused
    BY <2>1, <2>2 DEF NotSpawned, StartRefused, GoTo
  <2>3. ASSUME NEW p \in Procs, Free(p), Spawn(p, op.core),
               op' = [op EXCEPT !.step = "wait", !.proc = p]
        PROVE  StageInv'
    BY <2>1, <2>3 DEF Free, Spawn
  <2>. HIDE DEF StageInv
  <2>. QED
    BY <1>20, <2>2, <2>3, Zenon DEF Start
<1>21. CASE Listen
  BY <1>21 DEF Listen, TakeOver, GiveUp, Cleanup, StartRefused, GoTo
<1>22. CASE BuildClient
  BY <1>22 DEF BuildClient, GoTo
<1>23. CASE SwapClient
  BY <1>23 DEF SwapClient, GoTo
<1>24. CASE StoreActive
  BY <1>24 DEF StoreActive, GoTo
<1>25. CASE UnswapClient
  BY <1>25 DEF UnswapClient, GoTo
<1>26. CASE CommitRoute
  BY <1>26 DEF CommitRoute, Commit, Cleanup, GoTo
<1>27. CASE Rollback
  BY <1>27 DEF Rollback, RollbackTake, Cleanup
<1>28. CASE PutBack
  BY <1>28 DEF PutBack, RollbackPut
<1>29. CASE ClearActive
  BY <1>29 DEF ClearActive, GoTo, Refuse
<1>30. CASE StopRoute
  BY <1>30 DEF StopRoute, Stop, Cleanup, GoTo
<1>31. CASE Answer
  BY <1>31 DEF Answer, NoOp
<1>32. CASE UNCHANGED vars
  BY <1>32 DEF vars
<1>. HIDE DEF StageInv
<1>. QED
  BY <1>1, <1>2, <1>3, <1>4, <1>5, <1>6, <1>7, <1>8, <1>9, <1>10, <1>11
     , <1>12, <1>13, <1>14, <1>15, <1>16, <1>17, <1>18, <1>19, <1>20, <1>21
     , <1>22, <1>23, <1>24, <1>25, <1>26, <1>27, <1>28, <1>29, <1>30, <1>31
     , <1>32
     DEF Next, Edit, OpStep

\* Every step keeps what is obeyed, imports included.
LEMMA ObeyStep ==
  IInv /\ ObeyInv /\ [Next]_vars => ObeyInv'
<1> SUFFICES ASSUME IInv, ObeyInv, [Next]_vars PROVE ObeyInv'
  OBVIOUS
<1> USE ConstantsOK DEF IInv, ObeyInv, SlotsInv, GateInv, Switching, TypeOK, RouteTypeOK, Requests,
      Between, MayHavePredecessor, Fallback, NoOp,
      routeVars, storeVars, beside
<1>1. CASE Boot
  <2>1. CASE BootUnrouted
    BY <1>1, <2>1 DEF Boot, BootUnrouted, NotSpawned
  <2>2. CASE BootFails
    BY <1>1, <2>2 DEF Boot, BootFails, NotSpawned
  <2>3. ASSUME NEW p \in Procs, Free(p), BootRouted(p)
        PROVE  ObeyInv'
    BY <1>1, <2>3 DEF Boot, BootRouted, Free
  <2>. HIDE DEF ObeyInv
  <2>. QED
    BY <1>1, <2>1, <2>2, <2>3 DEF Boot
<1>2. CASE Crash
  BY <1>2 DEF Crash, Vanish
<1>3. CASE BackupBegins
  BY <1>3 DEF BackupBegins
<1>4. CASE BackupEnds
  BY <1>4 DEF BackupEnds
<1>5. CASE ReadBegins
  BY <1>5 DEF ReadBegins
<1>6. CASE ReadEnds
  BY <1>6 DEF ReadEnds
<1>7. CASE CoreDies
  BY <1>7 DEF CoreDies, Dies
<1>8. ASSUME NEW i \in Profiles, NEW cores \in SUBSET Available, SaveProfile(i, cores)
      PROVE  ObeyInv'
  BY <1>8 DEF SaveProfile
<1>9. ASSUME NEW i \in Profiles, DeleteProfile(i)
      PROVE  ObeyInv'
  BY <1>9 DEF DeleteProfile
<1>10. ASSUME NEW i \in Profiles, SelectProfile(i)
      PROVE  ObeyInv'
  BY <1>10 DEF SelectProfile
<1>11. ASSUME NEW c \in Choosers, NEW b \in Backends, ChooseBegins(c, b)
      PROVE  ObeyInv'
  BY <1>11 DEF ChooseBegins
<1>12. ASSUME NEW c \in Choosers, ChooseLooks(c)
      PROVE  ObeyInv'
  BY <1>12 DEF ChooseLooks, Idle
<1>13. ASSUME NEW c \in Choosers, ChooseEnds(c)
      PROVE  ObeyInv'
  BY <1>13 DEF ChooseEnds, Idle
<1>14. ASSUME NEW k \in Ops, NEW i \in Profiles, Request(k, i)
      PROVE  ObeyInv'
  <2>1. /\ op'.kind = k /\ op'.step = First(k) /\ op'.proc = None
        /\ op'.oldActive = active /\ op'.oldClient = client
    BY <1>14 DEF Request, NoOp
  <2>2. up /\ up' /\ ~Switching /\ UNCHANGED <<active, pending, client>>
    BY <1>14 DEF Request
  <2>3. pending = None /\ (active # None => client = active)
    BY <2>2
  <2>5. up' /\ Switching'
    BY <2>2, <1>14 DEF Request, First
  <2>4. \/ k = "apply" /\ op'.step = "url"
        \/ k = "disable" /\ op'.step = "look"
        \/ k = "import" /\ op'.step = "load"
    BY <2>1 DEF First
  <2> HIDE DEF IInv, SlotsInv, GateInv, TypeOK, RouteTypeOK, Requests, NoOp, Between,
               MayHavePredecessor, routeVars, storeVars, beside
  <2>. QED
    BY <2>1, <2>2, <2>3, <2>4, <2>5
<1>15. CASE Look
  BY <1>15 DEF Look, GoTo
<1>16. CASE Load
  BY <1>16 DEF Load, GoTo, Refuse
<1>17. CASE ReadUrl
  BY <1>17 DEF ReadUrl, GoTo
<1>18. CASE ReadCore
  BY <1>18 DEF ReadCore
<1>19. CASE ReadCompatible
  BY <1>19 DEF ReadCompatible, GoTo
<1>20. CASE Start
  <2>1. op.step = "start" /\ UNCHANGED <<storeVars, client, gate, up, reading, backup, chooser>>
    BY <1>20, Zenon DEF Start
  <2>2. CASE NotSpawned(op.core) /\ StartRefused
    BY <2>1, <2>2 DEF NotSpawned, StartRefused, GoTo
  <2>3. ASSUME NEW p \in Procs, Free(p), Spawn(p, op.core),
               op' = [op EXCEPT !.step = "wait", !.proc = p]
        PROVE  ObeyInv'
    BY <2>1, <2>3 DEF Free, Spawn
  <2>. HIDE DEF ObeyInv
  <2>. QED
    BY <1>20, <2>2, <2>3, Zenon DEF Start
<1>21. CASE Listen
  BY <1>21 DEF Listen, TakeOver, GiveUp, Cleanup, StartRefused, GoTo
<1>22. CASE BuildClient
  BY <1>22 DEF BuildClient, GoTo
<1>23. CASE SwapClient
  BY <1>23 DEF SwapClient, GoTo
<1>24. CASE StoreActive
  BY <1>24 DEF StoreActive, GoTo
<1>25. CASE UnswapClient
  BY <1>25 DEF UnswapClient, GoTo
<1>26. CASE CommitRoute
  <2>1. /\ op.step = "commit" /\ op.kind \in {"apply", "import"}
        /\ pending' = None /\ UNCHANGED <<active, client, up>>
    BY <1>26 DEF CommitRoute, Commit
  <2>2. /\ op'.step = IF op.kind = "apply" THEN "done" ELSE "swap"
        /\ op'.kind = op.kind /\ op'.proc = op.proc /\ op'.held = op.held
        /\ op'.oldActive = op.oldActive /\ op'.oldClient = op.oldClient
    BY <1>26 DEF CommitRoute, GoTo
  <2>3. active = op.proc /\ up
    BY <2>1
  <2> HIDE DEF IInv, SlotsInv, GateInv, TypeOK, RouteTypeOK, Requests, NoOp, Between,
               MayHavePredecessor, routeVars, storeVars, beside
  <2>4. CASE op.kind = "apply"
    BY <2>1, <2>2, <2>3, <2>4
  <2>5. CASE op.kind = "import"
    BY <2>1, <2>2, <2>3, <2>5
  <2>. QED
    BY <2>1, <2>4, <2>5
<1>27. CASE Rollback
  BY <1>27 DEF Rollback, RollbackTake, Cleanup
<1>28. CASE PutBack
  BY <1>28 DEF PutBack, RollbackPut
<1>29. CASE ClearActive
  BY <1>29 DEF ClearActive, GoTo, Refuse
<1>30. CASE StopRoute
  BY <1>30 DEF StopRoute, Stop, Cleanup, GoTo
<1>31. CASE Answer
  BY <1>31 DEF Answer, NoOp
<1>32. CASE UNCHANGED vars
  BY <1>32 DEF vars
<1>. HIDE DEF ObeyInv
<1>. QED
  BY <1>1, <1>2, <1>3, <1>4, <1>5, <1>6, <1>7, <1>8, <1>9, <1>10, <1>11
     , <1>12, <1>13, <1>14, <1>15, <1>16, <1>17, <1>18, <1>19, <1>20, <1>21
     , <1>22, <1>23, <1>24, <1>25, <1>26, <1>27, <1>28, <1>29, <1>30, <1>31
     , <1>32
     DEF Next, Edit, OpStep

-----------------------------------------------------------------------------
\* The first state has nothing that runs and nothing stored.
LEMMA InitHolds == Init => IInv /\ StageInv
<1>. SUFFICES ASSUME Init PROVE IInv /\ StageInv
  OBVIOUS
<1>. USE ConstantsOK DEF Init, RouteInit
<1>1. RouteTypeOK
  BY DEF RouteTypeOK
<1>2. chooser \in [Choosers -> Choices]
  BY DEF Idle, Choices
<1>0. up \in BOOLEAN /\ gate \in BOOLEAN /\ backup \in BOOLEAN
  OBVIOUS
<1>3. TypeOK
  BY <1>0, <1>1, <1>2, NoOpType DEF TypeOK, Absent
<1>4. op.step = "none" /\ op.kind = "none"
  BY DEF NoOp
<1>5. GateInv /\ SlotsInv /\ StageInv
  BY <1>4 DEF GateInv, SlotsInv, StageInv, Switching, Between, MayHavePredecessor
<1>6. FileInv /\ ActiveExists /\ ReadInv
  BY DEF FileInv, ActiveExists, ReadInv
<1>. QED
  BY <1>3, <1>5, <1>6 DEF IInv

LEMMA InvariantHolds == Spec => []IInv
<1>1. Init => IInv
  BY InitHolds
<1>2. IInv /\ [Next]_vars => IInv'
  <2>. SUFFICES ASSUME IInv, [Next]_vars PROVE IInv'
    OBVIOUS
  <2>1. TypeOK'
    BY TypeStep DEF IInv
  <2>. QED
    BY <2>1, GateStep, SlotsStep, FileStep, StoreStep, ReadStep DEF IInv
<1>. QED
  BY <1>1, <1>2, PTL DEF Spec

(* The types hold whatever requests are made.                              *)
THEOREM TypeCorrect == Spec => []TypeOK
<1>1. IInv => TypeOK
  BY DEF IInv
<1>. QED
  BY <1>1, InvariantHolds, PTL

(* No managed process escapes: RouteManager always knows each that runs.   *)
THEOREM NoneStrays == Spec => []NoStrayCore
<1>1. IInv => NoStrayCore
  <2>. SUFFICES ASSUME IInv PROVE NoStrayCore
    OBVIOUS
  <2>1. live \subseteq {active, pending, op.proc, op.held}
    BY DEF IInv, SlotsInv
  <2>2. ~Switching => pending = None /\ live \subseteq {active, pending}
    BY DEF IInv, SlotsInv, Switching, Between, MayHavePredecessor
  <2>3. live \subseteq Procs /\ None \notin Procs
    BY ConstantsOK DEF IInv, TypeOK, RouteTypeOK
  <2>. QED
    BY <2>1, <2>2, <2>3 DEF NoStrayCore
<1>. QED
  BY <1>1, InvariantHolds, PTL

(* The process traffic is to use is never one that the program stopped.    *)
THEOREM ActiveRuns == Spec => []ActiveNotStopped
<1>1. IInv => ActiveNotStopped
  BY DEF IInv, SlotsInv, TypeOK, RouteTypeOK, ActiveNotStopped
<1>. QED
  BY <1>1, InvariantHolds, PTL

(* At rest no credentials lie on disk for a process that is gone.          *)
THEOREM FilesSwept == Spec => []NoStrayConfig
<1>1. IInv => NoStrayConfig
  BY DEF IInv, SlotsInv, GateInv, FileInv, TypeOK, RouteTypeOK, NoStrayConfig,
         Switching, NoOp, Between, MayHavePredecessor
<1>. QED
  BY <1>1, InvariantHolds, PTL

(* The profile marked active exists, whoever edits or imports.             *)
THEOREM ActiveKnown == Spec => []ActiveExists
<1>1. IInv => ActiveExists
  BY DEF IInv
<1>. QED
  BY <1>1, InvariantHolds, PTL

(* No route change lands inside a batch of backups.                        *)
THEOREM BackupsUndisturbed == Spec => BackupKeepsRoute
<1>1. IInv /\ [Next]_vars => [backup /\ backup' => client' = client /\ active' = active]_vars
  <2>. SUFFICES ASSUME IInv, Next, backup, backup'
                PROVE  client' = client /\ active' = active
    BY DEF vars, routeVars
  <2>1. op.step = "none" /\ gate /\ (up \/ ~up)
    BY DEF IInv, GateInv, Switching
  <2>2. ~OpStep
    BY <2>1 DEF OpStep, Look, Load, ReadUrl, ReadCore, ReadCompatible, Start, Listen,
             BuildClient, SwapClient, StoreActive, UnswapClient, CommitRoute, Rollback,
             PutBack, ClearActive, StopRoute, Answer
  <2>3. up
    BY DEF IInv, GateInv, TypeOK
  <2>. QED
    BY <2>1, <2>2, <2>3
       DEF Next, Boot, Crash, BackupBegins, BackupEnds, ReadBegins, ReadEnds, CoreDies,
           Dies, Edit, SaveProfile, DeleteProfile, SelectProfile, ChooseBegins,
           ChooseLooks, ChooseEnds, Request, routeVars, storeVars, beside
<1>. QED
  BY <1>1, InvariantHolds, PTL DEF Spec, BackupKeepsRoute

\* Every request moves on to a step of its own until it is answered.
LEMMA StepsGoOn ==
  ASSUME IInv, OpStep, ~Answer
  PROVE  /\ Switching /\ Switching'
         /\ UNCHANGED <<up, backup>>
<1> USE DEF IInv, TypeOK, Requests, Switching, storeVars, beside
<1>1. CASE Look \/ Load \/ ReadUrl \/ ReadCore \/ ReadCompatible
  BY <1>1 DEF Look, Load, ReadUrl, ReadCore, ReadCompatible, GoTo, Refuse
<1>2. CASE Start
  <2>1. op.step = "start" /\ UNCHANGED <<client, up, backup>>
    BY <1>2, Zenon DEF Start
  <2>2. CASE StartRefused
    BY <2>1, <2>2 DEF StartRefused, GoTo
  <2>3. ASSUME NEW p \in Procs, op' = [op EXCEPT !.step = "wait", !.proc = p]
        PROVE  Switching'
    BY <2>3
  <2>. QED
    BY <1>2, <2>1, <2>2, <2>3, Zenon DEF Start
<1>3. CASE Listen
  BY <1>3 DEF Listen, StartRefused, GoTo
<1>4. CASE BuildClient \/ SwapClient \/ StoreActive \/ UnswapClient \/ CommitRoute
  BY <1>4 DEF BuildClient, SwapClient, StoreActive, UnswapClient, CommitRoute, GoTo
<1>5. CASE Rollback \/ PutBack \/ ClearActive \/ StopRoute
  BY <1>5 DEF Rollback, PutBack, ClearActive, StopRoute, GoTo, Refuse
<1>. HIDE DEF Switching
<1>. QED
  BY <1>1, <1>2, <1>3, <1>4, <1>5 DEF OpStep

\* Which kinds of requests come to the steps that mean different things.
KindInv ==
    /\ op.step \in {"store", "unswap", "compat"} => op.kind = "apply"
    /\ op.step \in {"look", "clear"} => op.kind = "disable"
    /\ op.step = "load" => op.kind = "import"

LEMMA StepAhead ==
  ASSUME IInv, KindInv, OpStep, ~Answer
  PROVE  Nearness < Nearness'
<1> USE DEF IInv, TypeOK, Requests, Nearness, KindInv, GateInv, Switching
<1>1. CASE Look \/ Load \/ ReadUrl
  BY <1>1, ConstantsOK DEF Look, Load, ReadUrl, GoTo, Refuse
<1>2. CASE ReadCore
  <2>1. op.step = "core" /\ op.kind # "disable"
    BY <1>2, ConstantsOK DEF ReadCore, SlotsInv
  <2>2. op'.step \in {"compat", "failed", "start", "rollback"}
    BY <1>2 DEF ReadCore
  <2>. QED
    BY <2>1, <2>2
<1>3. CASE ReadCompatible
  BY <1>3 DEF ReadCompatible, GoTo
<1>4. CASE Start
  <2>1. op.step = "start"
    BY <1>4, Zenon DEF Start
  <2>2. CASE StartRefused
    BY <2>1, <2>2 DEF StartRefused, GoTo
  <2>3. ASSUME NEW p \in Procs, op' = [op EXCEPT !.step = "wait", !.proc = p]
        PROVE  Nearness < Nearness'
    BY <2>1, <2>3
  <2>. HIDE DEF Nearness
  <2>. QED
    BY <1>4, <2>2, <2>3, Zenon DEF Start
<1>5. CASE Listen
  BY <1>5 DEF Listen, StartRefused, GoTo
<1>6. CASE BuildClient
  BY <1>6, ConstantsOK DEF BuildClient, GoTo
<1>7. CASE SwapClient \/ StoreActive \/ UnswapClient
  BY <1>7 DEF SwapClient, StoreActive, UnswapClient, GoTo
<1>8. CASE CommitRoute
  BY <1>8 DEF CommitRoute, GoTo
<1>9. CASE Rollback
  BY <1>9 DEF Rollback
<1>10. CASE PutBack
  BY <1>10 DEF PutBack
<1>11. CASE ClearActive \/ StopRoute
  BY <1>11 DEF ClearActive, StopRoute, GoTo, Refuse
<1>. HIDE DEF Nearness
<1>. QED
  BY <1>1, <1>2, <1>3, <1>4, <1>5, <1>6, <1>7, <1>8, <1>9, <1>10, <1>11 DEF OpStep

(* No request goes round: it is a few steps from giving the gate back.     *)
THEOREM RequestsEnd == Spec => RequestsAdvance
<1>1. Init => ObeyInv
  BY DEF Init, RouteInit, NoOp, ObeyInv, Switching
<1>2. IInv /\ ObeyInv /\ [Next]_vars => ObeyInv'
  BY ObeyStep
<1>3. ObeyInv => KindInv
  BY DEF ObeyInv, KindInv
<1>4. IInv /\ KindInv /\ [Next]_vars => [OpStep /\ ~Answer => Nearness < Nearness']_vars
  BY StepAhead
<1>. QED
  BY <1>1, <1>2, <1>3, <1>4, InvariantHolds, PTL DEF Spec, RequestsAdvance

\* Whoever is inside the gate leaves before another enters, and only a
\* request replaces the client, between its first step and its answer.
LEMMA GateRefined ==
  IInv /\ [Next]_vars => [Gate!Next]_<<Holder, client, up>>
<1> SUFFICES ASSUME IInv, [Next]_vars PROVE [Gate!Next]_<<Holder, client, up>>
  OBVIOUS
<1>1. GateInv /\ GateInv' /\ up \in BOOLEAN /\ backup \in BOOLEAN
  BY GateStep DEF IInv, TypeOK
<1>2. CASE Crash
  BY <1>1, <1>2 DEF Crash, Gate!Next, Gate!Restart, Holder, Switching, NoOp
<1>3. CASE Boot
  <2>1. Holder = "nobody" /\ Holder' = "nobody"
    BY <1>1, <1>3 DEF Boot, GateInv, Holder, Switching
  <2>2. ~up /\ (up' \/ UNCHANGED <<client, up>>)
    BY <1>3 DEF Boot, BootUnrouted, BootFails, BootRouted
  <2>. QED
    BY <1>1, <2>1, <2>2 DEF Gate!Next, Gate!Restart, GateInv, TypeOK
<1>4. CASE BackupBegins \/ \E k \in Ops, i \in Profiles : Request(k, i)
  <2>1. up /\ ~gate /\ gate' /\ UNCHANGED <<client, up>>
    BY <1>4 DEF BackupBegins, Request, beside
  <2>2. Holder = "nobody" /\ Holder' \in {"batch", "request"}
    BY <1>1, <2>1 DEF GateInv, Holder
  <2>. QED
    BY <2>1, <2>2 DEF Gate!Next, Gate!Enter
<1>5. CASE BackupEnds \/ Answer
  <2>1. gate /\ ~gate' /\ UNCHANGED <<client, up>>
    BY <1>1, <1>5 DEF BackupEnds, Answer, GateInv, Switching, beside
  <2>2. up /\ Holder # "nobody" /\ Holder' = "nobody"
    BY <1>1, <2>1 DEF GateInv, Holder
  <2>. QED
    BY <2>1, <2>2 DEF Gate!Next, Gate!Leave
<1>6. CASE OpStep /\ ~Answer
  <2>1. Holder = "request" /\ Holder' = "request" /\ up /\ UNCHANGED up
    BY <1>1, <1>6, StepsGoOn DEF GateInv, Holder
  <2>. QED
    BY <2>1 DEF Gate!Next, Gate!Reroute
<1>7. CASE ReadBegins \/ ReadEnds \/ CoreDies \/ Edit \/ UNCHANGED vars
  <2>1. UNCHANGED <<client, up, backup, op>>
    BY <1>7 DEF ReadBegins, ReadEnds, CoreDies, Edit, SaveProfile, DeleteProfile, SelectProfile,
      ChooseBegins, ChooseLooks, ChooseEnds, vars
  <2>. QED
    BY <2>1 DEF Holder, Switching
<1>. QED
  BY <1>2, <1>3, <1>4, <1>5, <1>6, <1>7 DEF Next

(* The handlers that switch the route keep the contract of the gate that   *)
(* the scheduler keeps too, crashes and restarts included.                 *)
THEOREM GateImplemented == Spec => ImplementsGate
<1>1. Init => Gate!Init
  <2>. SUFFICES ASSUME Init PROVE Gate!Init
    OBVIOUS
  <2>1. backup = FALSE /\ up = FALSE /\ op.step = "none"
    BY DEF Init, NoOp
  <2>. QED
    BY <2>1 DEF Gate!Init, Holder, Switching
<1>2. IInv /\ [Next]_vars => [Gate!Next]_<<Holder, client, up>>
  BY GateRefined
<1>. QED
  BY <1>1, <1>2, InvariantHolds, PTL DEF Spec, ImplementsGate, Gate!Spec

LEMMA StageHolds == "import" \notin Ops /\ Spec => []StageInv
<1>. SUFFICES ASSUME "import" \notin Ops PROVE Spec => []StageInv
  OBVIOUS
<1>1. Init => StageInv
  BY InitHolds
<1>2. IInv /\ StageInv /\ [Next]_vars => StageInv'
  BY StageStep
<1>. QED
  BY <1>1, <1>2, InvariantHolds, PTL DEF Spec

(* With imports too: no traffic goes past a route that is active, and what *)
(* fails leaves the old route or none (apply, disable, import, rollback).  *)
THEOREM NothingGoesPast == Spec => []RouteObeyed
<1>1. Init => ObeyInv
  BY DEF Init, RouteInit, NoOp, ObeyInv, Switching
<1>2. IInv /\ ObeyInv /\ [Next]_vars => ObeyInv'
  BY ObeyStep
<1>3. ObeyInv => RouteObeyed
  BY DEF ObeyInv, RouteObeyed, Switching
<1>. QED
  BY <1>1, <1>2, <1>3, InvariantHolds, PTL DEF Spec

(* Without imports the client at rest goes where the manager says.         *)
THEOREM ClientFollows == "import" \notin Ops /\ Spec => []ClientFollowsRoute
<1>. SUFFICES ASSUME "import" \notin Ops PROVE Spec => []ClientFollowsRoute
  OBVIOUS
<1>1. StageInv => ClientFollowsRoute
  BY DEF StageInv, ClientFollowsRoute, Through
<1>. QED
  BY <1>1, StageHolds, PTL

(* Without imports a request that fails leaves the route as it was.        *)
THEOREM FailuresKeepRoute == "import" \notin Ops /\ Spec => []RouteKept
<1>. SUFFICES ASSUME "import" \notin Ops PROVE Spec => []RouteKept
  OBVIOUS
<1>1. StageInv => RouteKept
  BY DEF StageInv, Kept, RouteKept
<1>. QED
  BY <1>1, StageHolds, PTL

(* Without imports, and unless routing is disabled, no request through the *)
(* client is cut off by the program stopping the process it goes through.  *)
THEOREM ReadsUndisturbed == "import" \notin Ops /\ Spec => ReadKeepsRoute
<1>. SUFFICES ASSUME "import" \notin Ops PROVE Spec => ReadKeepsRoute
  OBVIOUS
<1>1. IInv /\ StageInv /\ [Next]_vars =>
        [up' /\ reading \in live /\ op.kind # "disable"
           => reading \in live' \cup died']_vars
  <2>. SUFFICES ASSUME IInv, StageInv, Next, up', reading \in live, op.kind # "disable"
                PROVE  reading \in live' \cup died'
    BY DEF vars, routeVars
  <2>1. reading \in Procs /\ reading = client /\ up
    BY ConstantsOK DEF IInv, ReadInv, TypeOK, RouteTypeOK
  <2>2. op.step # "none" => op.kind = "apply"
    BY ConstantsOK DEF IInv, GateInv, Switching
  <2>3. CASE live' \cup died' = live \cup died
    BY <2>3
  <2>4. ASSUME Listen, GiveUp(op.proc)
        PROVE  reading \in live'
    <3>1. op.step = "wait"
      BY <2>4 DEF Listen
    <3>2. client = Through(active) /\ op.proc # active
      BY <2>2, <3>1 DEF StageInv, Kept, Switching, IInv, SlotsInv
    <3>. QED
      BY <2>1, <2>4, <3>2, ConstantsOK DEF Through, GiveUp, Cleanup, Fallback
  <2>5. ASSUME CommitRoute
        PROVE  reading \in live'
    <3>1. op.step = "commit"
      BY <2>5 DEF CommitRoute
    <3>2. client = active /\ (pending # None => pending # active)
      BY <2>2, <3>1 DEF StageInv, Replaced, IInv, SlotsInv
    <3>. QED
      BY <2>1, <2>5, <3>2, ConstantsOK DEF CommitRoute, Commit, Cleanup
  <2>6. ASSUME Rollback
        PROVE  reading \in live'
    <3>1. op.step = "rollback"
      BY <2>6 DEF Rollback
    <3>2. client = Through(pending) /\ (pending # None => pending # active)
      BY <2>2, <3>1 DEF StageInv, Replaced, Switching, IInv, SlotsInv
    <3>. QED
      BY <2>1, <2>6, <3>2, ConstantsOK DEF Rollback, RollbackTake, Cleanup, Through, Fallback
  <2>7. ASSUME StopRoute
        PROVE  FALSE
    BY <2>2, <2>7 DEF StopRoute, StageInv
  <2>8. ASSUME Start
        PROVE  reading \in live'
    <3>1. CASE NotSpawned(op.core)
      BY <3>1 DEF NotSpawned
    <3>2. ASSUME NEW p \in Procs, Spawn(p, op.core)
          PROVE  reading \in live'
      BY <3>2 DEF Spawn
    <3>. QED
      BY <2>8, <3>1, <3>2, Zenon DEF Start
  <2>9. ASSUME Boot
        PROVE  FALSE
    BY <2>1, <2>9 DEF Boot
  <2>10. ASSUME Crash
         PROVE  FALSE
    BY <2>10 DEF Crash
  <2>11. ASSUME CoreDies
         PROVE  live' \cup died' = live \cup died
    BY <2>11 DEF CoreDies, Dies
  <2>12. CASE BackupBegins \/ BackupEnds \/ ReadBegins \/ ReadEnds \/ Edit
              \/ \E k \in Ops, i \in Profiles : Request(k, i)
    BY <2>3, <2>12
       DEF BackupBegins, BackupEnds, ReadBegins, ReadEnds, Edit, SaveProfile,
           DeleteProfile, SelectProfile, ChooseBegins, ChooseLooks, ChooseEnds,
           Request, routeVars
  <2>13. CASE Look \/ Load \/ ReadUrl \/ ReadCore \/ ReadCompatible \/ BuildClient
              \/ SwapClient \/ StoreActive \/ UnswapClient \/ PutBack
              \/ ClearActive \/ Answer
    BY <2>3, <2>13
       DEF Look, Load, ReadUrl, ReadCore, ReadCompatible, BuildClient, SwapClient,
           StoreActive, UnswapClient, PutBack, RollbackPut, ClearActive, Answer,
           routeVars
  <2>14. CASE Listen
    <3>1. CASE TakeOver(op.proc)
      BY <2>3, <3>1 DEF TakeOver
    <3>. QED
      BY <2>4, <2>14, <3>1, Zenon DEF Listen
  <2>. QED
    BY <2>3, <2>5, <2>6, <2>7, <2>8, <2>9, <2>10, <2>11, <2>12, <2>13, <2>14, Zenon
       DEF Next, OpStep
<1>2. Spec => []StageInv
  BY StageHolds
<1>. QED
  BY <1>1, <1>2, InvariantHolds, PTL DEF Spec, ReadKeepsRoute
===============================================================================
