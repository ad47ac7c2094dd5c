------------------------ MODULE HealthMonitorProofs ------------------------
(***************************************************************************)
(* Proofs about HealthMonitor, for every set of services and handlers and  *)
(* every bound.                                                            *)
(***************************************************************************)
EXTENDS HealthMonitor, TLAPS

(* One thread at a time is in record_check; a service being forgotten is   *)
(* no longer defined; a process that is down has no threads.               *)
Recording == {"event", "alert", "save"}

LocksInv ==
  /\ \A t, u \in Threads : pc[t] \in Recording /\ pc[u] \in Recording => t = u
  /\ \A t \in Threads : pc[t] = "forget" => svc[t] \notin defined
  /\ ~up => \A t \in Threads : pc[t] = "idle"

(* The history never runs ahead, and no alert is of a run to come.         *)
HistoryInv ==
  /\ \A s \in Services : life[s] <= born /\ told[s].life <= born /\ told[s].boot <= crashes
  /\ ~up => \A s \in Services : told[s].boot < crashes

(* A thread has a transition of the service to tell.                       *)
Telling(s) == \E t \in Threads : pc[t] \in {"event", "alert"} /\ svc[t] = s

(* The last alert agrees with what is known, unless the next is on its way.*)
AlertInv ==
  /\ \A s \in Services : Telling(s) => runtime[s].status # "unknown"
  /\ \A s \in Services : Current(s) =>
       /\ runtime[s].status # "unknown"
       /\ Telling(s) <=> told[s].event # EventOf(runtime[s])

(* The file agrees with what is known when no thread is about to write it. *)
SavedInv == RuntimeFree => \A s \in Services : Current(s) => savedRuntime[s] = runtime[s]

IInv == TypeOK /\ MarksExact /\ LocksInv /\ HistoryInv /\ AlertInv /\ SavedInv

-----------------------------------------------------------------------------
(* What record_check makes of an entry is an entry.                        *)
LEMMA AfterType ==
  ASSUME NEW e \in Entries, NEW ok \in BOOLEAN, NEW limit \in 1 .. MaxThreshold
  PROVE  /\ After(e, ok, limit) \in Entries
         /\ e.status # "unknown" => After(e, ok, limit).status # "unknown"
         /\ IsTransition(e, After(e, ok, limit)) => After(e, ok, limit).status # "unknown"
  BY HealthAssumption DEF Entries, After, OneMore, IsTransition

(* What load makes of the files is an entry.                               *)
LEMMA LoadedType ==
  ASSUME TypeOK, NEW s \in Services
  PROVE  Loaded(s) \in Entries
<1>1. savedLatest[s] \in Incidents /\ savedRuntime[s] \in Entries
  BY DEF TypeOK
<1>2. Absent \in Entries
  BY HealthAssumption DEF Absent, Entries
<1>3. FromIncident(savedLatest[s]) \in Entries
  <2>1. CASE savedLatest[s].event = "none"
    BY <2>1, <1>2 DEF FromIncident
  <2>2. CASE savedLatest[s].event = "outage"
    BY <2>2, <1>1 DEF FromIncident, Incidents, Entries
  <2>3. CASE savedLatest[s].event = "recovery"
    BY <2>3, <1>1 DEF FromIncident, Incidents, Entries
  <2>. QED
    BY <1>1, <2>1, <2>2, <2>3 DEF Incidents
<1>. QED
  BY <1>1, <1>2, <1>3 DEF Loaded

(* Every step keeps the types.                                             *)
LEMMA TypeStep ==
  TypeOK /\ [Next]_vars => TypeOK'
<1> SUFFICES ASSUME TypeOK, [Next]_vars PROVE TypeOK'
  OBVIOUS
<1> USE HealthAssumption DEF TypeOK, Threads,
      definitionVars, memoryVars, fileVars, threadVars, historyVars
<1>1. CASE List
  BY <1>1 DEF List, Goto
<1>2. ASSUME NEW s \in Services, Look(s) PROVE TypeOK'
  BY <1>2 DEF Look, Goto
<1>3. CASE Wait
  BY <1>3 DEF Wait, Goto
<1>4. ASSUME NEW h \in Handlers, NEW s \in Services, CheckNow(h, s) PROVE TypeOK'
  BY <1>4 DEF CheckNow, Goto
<1>5. ASSUME NEW t \in Threads, Begin(t) PROVE TypeOK'
  BY <1>5 DEF Begin, MayBegin, Goto, Rest
<1>6. ASSUME NEW t \in Threads, Record(t) PROVE TypeOK'
  <2>1. svc[t] \in Services /\ runtime[svc[t]] \in Entries /\ thr[t] \in 1 .. MaxThreshold
    BY Zenon
  <2>2. PICK ok \in BOOLEAN :
          /\ runtime' = [runtime EXCEPT ![svc[t]] = After(runtime[svc[t]], ok, thr[t])]
          /\ pc' \in {[pc EXCEPT ![t] = "event"], [pc EXCEPT ![t] = "save"]}
    BY <1>6 DEF Record, Goto
  <2>3. runtime' \in [Services -> Entries]
    BY <2>1, <2>2, AfterType
  <2>. QED
    BY <1>6, <2>1, <2>2, <2>3 DEF Record
<1>7. ASSUME NEW t \in Threads, Event(t) PROVE TypeOK'
  <2>1. runtime[svc[t]].failures \in 0 .. MaxFailures
    BY DEF Entries
  <2>2. latest' \in [Services -> Incidents]
    BY <1>7, <2>1 DEF Event, EventOf, Incidents
  <2>. QED
    BY <1>7, <2>2 DEF Event, Goto
<1>8. ASSUME NEW t \in Threads, Alert(t) PROVE TypeOK'
  <2>1. (~told[svc[t]].parity) \in BOOLEAN
    OBVIOUS
  <2>2. told' \in [Services -> Alerts]
    BY <1>8, <2>1 DEF Alert, EventOf, Alerts
  <2>. QED
    BY <1>8, <2>2 DEF Alert, Goto
<1>9. ASSUME NEW t \in Threads, Save(t) PROVE TypeOK'
  BY <1>9 DEF Save, Saved, Goto
<1>10. ASSUME NEW t \in Threads, End(t) PROVE TypeOK'
  BY <1>10 DEF End, Unmarked, Goto, Rest
<1>11. ASSUME NEW s \in Services, NEW limit \in 1 .. MaxThreshold, NEW on \in BOOLEAN, Create(s, limit, on)
      PROVE  TypeOK'
  BY <1>11 DEF Create, Define, MayName, Named
<1>12. ASSUME NEW s \in Services, NEW limit \in 1 .. MaxThreshold, NEW on \in BOOLEAN, Update(s, limit, on)
      PROVE  TypeOK'
  BY <1>12 DEF Update, Define
<1>13. ASSUME NEW s \in Services, NEW new \in Services, NEW limit \in 1 .. MaxThreshold,
             NEW on \in BOOLEAN, Rename(s, new, limit, on)
      PROVE  TypeOK'
  BY <1>13 DEF Rename, Define, MayName, Named
<1>14. ASSUME NEW h \in Handlers, NEW s \in Services, Delete(h, s) PROVE TypeOK'
  BY <1>14 DEF Delete, Goto
<1>15. ASSUME NEW h \in Handlers, Forget(h) PROVE TypeOK'
  <2>1. Absent \in Entries
    BY DEF Absent, Entries
  <2>. QED
    BY <1>15, <2>1 DEF Forget, Goto
<1>16. ASSUME NEW h \in Handlers, Export(h) PROVE TypeOK'
  BY <1>16 DEF Export, Goto
<1>17. ASSUME NEW h \in Handlers, ExportIncidents(h) PROVE TypeOK'
  BY <1>17 DEF ExportIncidents, Goto
<1>18. ASSUME NEW h \in Handlers, ExportRuntime(h) PROVE TypeOK'
  BY <1>18 DEF ExportRuntime, Goto
<1>19. ASSUME NEW s \in Services, Elapse(s) PROVE TypeOK'
  BY <1>19 DEF Elapse
<1>20. CASE Crash
  <2>1. crashes' \in 0 .. MaxCrashes
    BY <1>20 DEF Crash
  <2>2. plan' \in [Services -> 0 .. MaxThreshold]
    BY <1>20 DEF Crash
  <2>3. pc' \in [Threads -> {"idle"}]
    BY <1>20 DEF Crash
  <2>. QED
    BY <1>20, <2>1, <2>2, <2>3 DEF Crash
<1>21. CASE Restart
  <2>1. runtime' \in [Services -> Entries]
    BY <1>21, LoadedType DEF Restart
  <2>. QED
    BY <1>21, <2>1 DEF Restart
<1>22. CASE UNCHANGED vars
  BY <1>22 DEF vars
<1>. HIDE DEF TypeOK
<1>. QED
  BY <1>1, <1>2, <1>3, <1>4, <1>5, <1>6, <1>7, <1>8, <1>9, <1>10, <1>11, <1>12, <1>13
     , <1>14, <1>15, <1>16, <1>17, <1>18, <1>19, <1>20, <1>21, <1>22
     DEF Next, Poll, Check, Serve, Edit, Threads

(* Every step keeps the marks exact.                                       *)
LEMMA MarksStep ==
  IInv /\ [Next]_vars => MarksExact'
<1> SUFFICES ASSUME IInv, [Next]_vars PROVE MarksExact'
  OBVIOUS
<1> USE DEF IInv, TypeOK, MarksExact, Checks, Threads,
      definitionVars, memoryVars, fileVars, threadVars, historyVars
<1>1. CASE List
  BY <1>1 DEF List, Goto
<1>2. ASSUME NEW s \in Services, Look(s) PROVE MarksExact'
  BY <1>2 DEF Look, Goto
<1>3. CASE Wait
  BY <1>3 DEF Wait, Goto
<1>4. ASSUME NEW h \in Handlers, NEW s \in Services, CheckNow(h, s) PROVE MarksExact'
  BY <1>4 DEF CheckNow, Goto
<1>5. ASSUME NEW t \in Threads, Begin(t) PROVE MarksExact'
  BY <1>5 DEF Begin, MayBegin, Goto, Rest
<1>6. ASSUME NEW t \in Threads, Record(t) PROVE MarksExact'
  BY <1>6 DEF Record, Goto
<1>7. ASSUME NEW t \in Threads, Event(t) PROVE MarksExact'
  BY <1>7 DEF Event, Goto
<1>8. ASSUME NEW t \in Threads, Alert(t) PROVE MarksExact'
  BY <1>8 DEF Alert, Goto
<1>9. ASSUME NEW t \in Threads, Save(t) PROVE MarksExact'
  BY <1>9 DEF Save, Saved, Goto
<1>10. ASSUME NEW t \in Threads, End(t) PROVE MarksExact'
  BY <1>10 DEF End, Unmarked, Goto, Rest
<1>11. ASSUME NEW s \in Services, NEW limit \in 1 .. MaxThreshold, NEW on \in BOOLEAN, Create(s, limit, on)
      PROVE  MarksExact'
  BY <1>11 DEF Create, Define, MayName, Named
<1>12. ASSUME NEW s \in Services, NEW limit \in 1 .. MaxThreshold, NEW on \in BOOLEAN, Update(s, limit, on)
      PROVE  MarksExact'
  BY <1>12 DEF Update, Define
<1>13. ASSUME NEW s \in Services, NEW new \in Services, NEW limit \in 1 .. MaxThreshold,
             NEW on \in BOOLEAN, Rename(s, new, limit, on)
      PROVE  MarksExact'
  BY <1>13 DEF Rename, Define, MayName, Named
<1>14. ASSUME NEW h \in Handlers, NEW s \in Services, Delete(h, s) PROVE MarksExact'
  BY <1>14 DEF Delete, Goto
<1>15. ASSUME NEW h \in Handlers, Forget(h) PROVE MarksExact'
  BY <1>15 DEF Forget, Goto
<1>16. ASSUME NEW h \in Handlers, Export(h) PROVE MarksExact'
  BY <1>16 DEF Export, Goto
<1>17. ASSUME NEW h \in Handlers, ExportIncidents(h) PROVE MarksExact'
  BY <1>17 DEF ExportIncidents, Goto
<1>18. ASSUME NEW h \in Handlers, ExportRuntime(h) PROVE MarksExact'
  BY <1>18 DEF ExportRuntime, Goto
<1>19. ASSUME NEW s \in Services, Elapse(s) PROVE MarksExact'
  BY <1>19 DEF Elapse
<1>20. CASE Crash
  BY <1>20 DEF Crash
<1>21. CASE Restart
  BY <1>21 DEF Restart
<1>22. CASE UNCHANGED vars
  BY <1>22 DEF vars
<1>. QED
  BY <1>1, <1>2, <1>3, <1>4, <1>5, <1>6, <1>7, <1>8, <1>9, <1>10, <1>11, <1>12, <1>13
     , <1>14, <1>15, <1>16, <1>17, <1>18, <1>19, <1>20, <1>21, <1>22
     DEF Next, Poll, Check, Serve, Edit, Threads

(* Every step keeps the lock of what is known.                             *)
LEMMA LocksStep ==
  IInv /\ [Next]_vars => LocksInv'
<1> SUFFICES ASSUME IInv, [Next]_vars PROVE LocksInv'
  OBVIOUS
<1> USE DEF IInv, TypeOK, LocksInv, Recording, Threads, DefinitionsFree, RuntimeFree,
      definitionVars, memoryVars, fileVars, threadVars, historyVars
<1>1. CASE List
  BY <1>1 DEF List, Goto
<1>2. ASSUME NEW s \in Services, Look(s) PROVE LocksInv'
  BY <1>2 DEF Look, Goto
<1>3. CASE Wait
  BY <1>3 DEF Wait, Goto
<1>4. ASSUME NEW h \in Handlers, NEW s \in Services, CheckNow(h, s) PROVE LocksInv'
  BY <1>4 DEF CheckNow, Goto
<1>5. ASSUME NEW t \in Threads, Begin(t) PROVE LocksInv'
  BY <1>5 DEF Begin, MayBegin, Goto, Rest
<1>6. ASSUME NEW t \in Threads, Record(t) PROVE LocksInv'
  BY <1>6 DEF Record, Goto
<1>7. ASSUME NEW t \in Threads, Event(t) PROVE LocksInv'
  BY <1>7 DEF Event, Goto
<1>8. ASSUME NEW t \in Threads, Alert(t) PROVE LocksInv'
  BY <1>8 DEF Alert, Goto
<1>9. ASSUME NEW t \in Threads, Save(t) PROVE LocksInv'
  BY <1>9 DEF Save, Saved, Goto
<1>10. ASSUME NEW t \in Threads, End(t) PROVE LocksInv'
  BY <1>10 DEF End, Unmarked, Goto, Rest
<1>11. ASSUME NEW s \in Services, NEW limit \in 1 .. MaxThreshold, NEW on \in BOOLEAN, Create(s, limit, on)
      PROVE  LocksInv'
  BY <1>11 DEF Create, Define, MayName, Named
<1>12. ASSUME NEW s \in Services, NEW limit \in 1 .. MaxThreshold, NEW on \in BOOLEAN, Update(s, limit, on)
      PROVE  LocksInv'
  BY <1>12 DEF Update, Define
<1>13. ASSUME NEW s \in Services, NEW new \in Services, NEW limit \in 1 .. MaxThreshold,
             NEW on \in BOOLEAN, Rename(s, new, limit, on)
      PROVE  LocksInv'
  BY <1>13 DEF Rename, Define, MayName, Named
<1>14. ASSUME NEW h \in Handlers, NEW s \in Services, Delete(h, s) PROVE LocksInv'
  BY <1>14 DEF Delete, Goto
<1>15. ASSUME NEW h \in Handlers, Forget(h) PROVE LocksInv'
  BY <1>15 DEF Forget, Goto
<1>16. ASSUME NEW h \in Handlers, Export(h) PROVE LocksInv'
  BY <1>16 DEF Export, Goto
<1>17. ASSUME NEW h \in Handlers, ExportIncidents(h) PROVE LocksInv'
  BY <1>17 DEF ExportIncidents, Goto
<1>18. ASSUME NEW h \in Handlers, ExportRuntime(h) PROVE LocksInv'
  BY <1>18 DEF ExportRuntime, Goto
<1>19. ASSUME NEW s \in Services, Elapse(s) PROVE LocksInv'
  BY <1>19 DEF Elapse
<1>20. CASE Crash
  BY <1>20 DEF Crash
<1>21. CASE Restart
  BY <1>21 DEF Restart
<1>22. CASE UNCHANGED vars
  BY <1>22 DEF vars
<1>. QED
  BY <1>1, <1>2, <1>3, <1>4, <1>5, <1>6, <1>7, <1>8, <1>9, <1>10, <1>11, <1>12, <1>13
     , <1>14, <1>15, <1>16, <1>17, <1>18, <1>19, <1>20, <1>21, <1>22
     DEF Next, Poll, Check, Serve, Edit, Threads

(* Every step keeps the history in order.                                  *)
LEMMA HistoryStep ==
  IInv /\ [Next]_vars => HistoryInv'
<1> SUFFICES ASSUME IInv, [Next]_vars PROVE HistoryInv'
  OBVIOUS
<1> USE HealthAssumption DEF IInv, TypeOK, Alerts, LocksInv, HistoryInv, Threads,
      definitionVars, memoryVars, fileVars, threadVars, historyVars
<1>1. CASE List
  BY <1>1 DEF List, Goto
<1>2. ASSUME NEW s \in Services, Look(s) PROVE HistoryInv'
  BY <1>2 DEF Look, Goto
<1>3. CASE Wait
  BY <1>3 DEF Wait, Goto
<1>4. ASSUME NEW h \in Handlers, NEW s \in Services, CheckNow(h, s) PROVE HistoryInv'
  BY <1>4 DEF CheckNow, Goto
<1>5. ASSUME NEW t \in Threads, Begin(t) PROVE HistoryInv'
  BY <1>5 DEF Begin, MayBegin, Goto, Rest
<1>6. ASSUME NEW t \in Threads, Record(t) PROVE HistoryInv'
  BY <1>6 DEF Record, Goto
<1>7. ASSUME NEW t \in Threads, Event(t) PROVE HistoryInv'
  BY <1>7 DEF Event, Goto
<1>8. ASSUME NEW t \in Threads, Alert(t) PROVE HistoryInv'
  BY <1>8 DEF Alert, Goto
<1>9. ASSUME NEW t \in Threads, Save(t) PROVE HistoryInv'
  BY <1>9 DEF Save, Saved, Goto
<1>10. ASSUME NEW t \in Threads, End(t) PROVE HistoryInv'
  BY <1>10 DEF End, Unmarked, Goto, Rest
<1>11. ASSUME NEW s \in Services, NEW limit \in 1 .. MaxThreshold, NEW on \in BOOLEAN, Create(s, limit, on)
      PROVE  HistoryInv'
  BY <1>11 DEF Create, Define, MayName, Named
<1>12. ASSUME NEW s \in Services, NEW limit \in 1 .. MaxThreshold, NEW on \in BOOLEAN, Update(s, limit, on)
      PROVE  HistoryInv'
  BY <1>12 DEF Update, Define
<1>13. ASSUME NEW s \in Services, NEW new \in Services, NEW limit \in 1 .. MaxThreshold,
             NEW on \in BOOLEAN, Rename(s, new, limit, on)
      PROVE  HistoryInv'
  BY <1>13 DEF Rename, Define, MayName, Named
<1>14. ASSUME NEW h \in Handlers, NEW s \in Services, Delete(h, s) PROVE HistoryInv'
  BY <1>14 DEF Delete, Goto
<1>15. ASSUME NEW h \in Handlers, Forget(h) PROVE HistoryInv'
  BY <1>15 DEF Forget, Goto
<1>16. ASSUME NEW h \in Handlers, Export(h) PROVE HistoryInv'
  BY <1>16 DEF Export, Goto
<1>17. ASSUME NEW h \in Handlers, ExportIncidents(h) PROVE HistoryInv'
  BY <1>17 DEF ExportIncidents, Goto
<1>18. ASSUME NEW h \in Handlers, ExportRuntime(h) PROVE HistoryInv'
  BY <1>18 DEF ExportRuntime, Goto
<1>19. ASSUME NEW s \in Services, Elapse(s) PROVE HistoryInv'
  BY <1>19 DEF Elapse
<1>20. CASE Crash
  BY <1>20 DEF Crash
<1>21. CASE Restart
  BY <1>21 DEF Restart
<1>22. CASE UNCHANGED vars
  BY <1>22 DEF vars
<1>. QED
  BY <1>1, <1>2, <1>3, <1>4, <1>5, <1>6, <1>7, <1>8, <1>9, <1>10, <1>11, <1>12, <1>13
     , <1>14, <1>15, <1>16, <1>17, <1>18, <1>19, <1>20, <1>21, <1>22
     DEF Next, Poll, Check, Serve, Edit, Threads

(* Every step keeps the alerts in agreement with what is known.            *)
LEMMA AlertStep ==
  IInv /\ [Next]_vars => AlertInv'
<1> SUFFICES ASSUME IInv, [Next]_vars PROVE AlertInv'
  OBVIOUS
<1> USE DEF IInv, TypeOK, LocksInv, HistoryInv, AlertInv, Telling, Current,
      Recording, Threads, DefinitionsFree, RuntimeFree,
      definitionVars, memoryVars, fileVars, threadVars, historyVars
<1>1. CASE List
  BY <1>1 DEF List, Goto
<1>2. ASSUME NEW s \in Services, Look(s) PROVE AlertInv'
  BY <1>2 DEF Look, Goto
<1>3. CASE Wait
  BY <1>3 DEF Wait, Goto
<1>4. ASSUME NEW h \in Handlers, NEW s \in Services, CheckNow(h, s) PROVE AlertInv'
  BY <1>4 DEF CheckNow, Goto
<1>5. ASSUME NEW t \in Threads, Begin(t) PROVE AlertInv'
  BY <1>5 DEF Begin, MayBegin, Goto, Rest
<1>6. ASSUME NEW t \in Threads, Record(t) PROVE AlertInv'
  <2>. DEFINE r == svc[t]
  <2>1. PICK ok \in BOOLEAN :
          LET new == After(runtime[r], ok, thr[t]) IN
          /\ runtime' = [runtime EXCEPT ![r] = new]
          /\ pc' = [pc EXCEPT ![t] = IF IsTransition(runtime[r], new) THEN "event" ELSE "save"]
    BY <1>6 DEF Record, Goto
  <2>. DEFINE new == After(runtime[r], ok, thr[t])
  <2>2. r \in Services /\ runtime[r] \in Entries /\ thr[t] \in 1 .. MaxThreshold
    BY Zenon
  <2>3. \A q \in Services : ~Telling(q)
    BY <1>6 DEF Record
  <2>4. \A q \in Services : Telling(q)' <=> (q = r /\ IsTransition(runtime[r], new))
    BY <1>6, <2>1, <2>2, <2>3 DEF Record
  <2>5. /\ runtime'[r] = new
        /\ \A q \in Services : q # r => runtime'[q] = runtime[q]
    BY <2>1, <2>2
  <2>6. \A q \in Services : Current(q)' <=> Current(q)
    BY <1>6 DEF Record
  <2>7. IsTransition(runtime[r], new) <=> EventOf(new) # EventOf(runtime[r])
    BY DEF IsTransition, EventOf
  <2>8. UNCHANGED told
    BY <1>6 DEF Record
  <2>9. /\ IsTransition(runtime[r], new) => new.status # "unknown"
        /\ runtime[r].status # "unknown" => new.status # "unknown"
    BY <2>2, AfterType
  <2>. HIDE DEF Telling, Current, new, r, TypeOK
  <2>. QED
    BY <2>3, <2>4, <2>5, <2>6, <2>7, <2>8, <2>9
<1>7. ASSUME NEW t \in Threads, Event(t) PROVE AlertInv'
  BY <1>7 DEF Event, Goto
<1>8. ASSUME NEW t \in Threads, Alert(t) PROVE AlertInv'
  BY <1>8 DEF Alert, Goto
<1>9. ASSUME NEW t \in Threads, Save(t) PROVE AlertInv'
  BY <1>9 DEF Save, Saved, Goto
<1>10. ASSUME NEW t \in Threads, End(t) PROVE AlertInv'
  BY <1>10 DEF End, Unmarked, Goto, Rest
<1>11. ASSUME NEW s \in Services, NEW limit \in 1 .. MaxThreshold, NEW on \in BOOLEAN, Create(s, limit, on)
      PROVE  AlertInv'
  BY <1>11 DEF Create, Define, MayName, Named
<1>12. ASSUME NEW s \in Services, NEW limit \in 1 .. MaxThreshold, NEW on \in BOOLEAN, Update(s, limit, on)
      PROVE  AlertInv'
  BY <1>12 DEF Update, Define
<1>13. ASSUME NEW s \in Services, NEW new \in Services, NEW limit \in 1 .. MaxThreshold,
             NEW on \in BOOLEAN, Rename(s, new, limit, on)
      PROVE  AlertInv'
  BY <1>13 DEF Rename, Define, MayName, Named
<1>14. ASSUME NEW h \in Handlers, NEW s \in Services, Delete(h, s) PROVE AlertInv'
  BY <1>14 DEF Delete, Goto
<1>15. ASSUME NEW h \in Handlers, Forget(h) PROVE AlertInv'
  BY <1>15 DEF Forget, Goto
<1>16. ASSUME NEW h \in Handlers, Export(h) PROVE AlertInv'
  BY <1>16 DEF Export, Goto
<1>17. ASSUME NEW h \in Handlers, ExportIncidents(h) PROVE AlertInv'
  BY <1>17 DEF ExportIncidents, Goto
<1>18. ASSUME NEW h \in Handlers, ExportRuntime(h) PROVE AlertInv'
  BY <1>18 DEF ExportRuntime, Goto
<1>19. ASSUME NEW s \in Services, Elapse(s) PROVE AlertInv'
  BY <1>19 DEF Elapse
<1>20. CASE Crash
  BY <1>20 DEF Crash
<1>21. CASE Restart
  BY <1>21 DEF Restart
<1>22. CASE UNCHANGED vars
  BY <1>22 DEF vars
<1>. QED
  BY <1>1, <1>2, <1>3, <1>4, <1>5, <1>6, <1>7, <1>8, <1>9, <1>10, <1>11, <1>12, <1>13
     , <1>14, <1>15, <1>16, <1>17, <1>18, <1>19, <1>20, <1>21, <1>22
     DEF Next, Poll, Check, Serve, Edit, Threads

(* Every step keeps the file in agreement with what is known.              *)
LEMMA SavedStep ==
  IInv /\ [Next]_vars => SavedInv'
<1> SUFFICES ASSUME IInv, [Next]_vars PROVE SavedInv'
  OBVIOUS
<1> USE DEF IInv, TypeOK, LocksInv, HistoryInv, SavedInv, Current, Recording, Threads,
      DefinitionsFree, RuntimeFree,
      definitionVars, memoryVars, fileVars, threadVars, historyVars
<1>1. CASE List
  BY <1>1 DEF List, Goto
<1>2. ASSUME NEW s \in Services, Look(s) PROVE SavedInv'
  BY <1>2 DEF Look, Goto
<1>3. CASE Wait
  BY <1>3 DEF Wait, Goto
<1>4. ASSUME NEW h \in Handlers, NEW s \in Services, CheckNow(h, s) PROVE SavedInv'
  BY <1>4 DEF CheckNow, Goto
<1>5. ASSUME NEW t \in Threads, Begin(t) PROVE SavedInv'
  BY <1>5 DEF Begin, MayBegin, Goto, Rest
<1>6. ASSUME NEW t \in Threads, Record(t) PROVE SavedInv'
  BY <1>6 DEF Record, Goto
<1>7. ASSUME NEW t \in Threads, Event(t) PROVE SavedInv'
  BY <1>7 DEF Event, Goto
<1>8. ASSUME NEW t \in Threads, Alert(t) PROVE SavedInv'
  BY <1>8 DEF Alert, Goto
<1>9. ASSUME NEW t \in Threads, Save(t) PROVE SavedInv'
  BY <1>9 DEF Save, Saved, Goto
<1>10. ASSUME NEW t \in Threads, End(t) PROVE SavedInv'
  BY <1>10 DEF End, Unmarked, Goto, Rest
<1>11. ASSUME NEW s \in Services, NEW limit \in 1 .. MaxThreshold, NEW on \in BOOLEAN, Create(s, limit, on)
      PROVE  SavedInv'
  BY <1>11 DEF Create, Define, MayName, Named
<1>12. ASSUME NEW s \in Services, NEW limit \in 1 .. MaxThreshold, NEW on \in BOOLEAN, Update(s, limit, on)
      PROVE  SavedInv'
  BY <1>12 DEF Update, Define
<1>13. ASSUME NEW s \in Services, NEW new \in Services, NEW limit \in 1 .. MaxThreshold,
             NEW on \in BOOLEAN, Rename(s, new, limit, on)
      PROVE  SavedInv'
  BY <1>13 DEF Rename, Define, MayName, Named
<1>14. ASSUME NEW h \in Handlers, NEW s \in Services, Delete(h, s) PROVE SavedInv'
  BY <1>14 DEF Delete, Goto
<1>15. ASSUME NEW h \in Handlers, Forget(h) PROVE SavedInv'
  BY <1>15 DEF Forget, Goto
<1>16. ASSUME NEW h \in Handlers, Export(h) PROVE SavedInv'
  BY <1>16 DEF Export, Goto
<1>17. ASSUME NEW h \in Handlers, ExportIncidents(h) PROVE SavedInv'
  BY <1>17 DEF ExportIncidents, Goto
<1>18. ASSUME NEW h \in Handlers, ExportRuntime(h) PROVE SavedInv'
  BY <1>18 DEF ExportRuntime, Goto
<1>19. ASSUME NEW s \in Services, Elapse(s) PROVE SavedInv'
  BY <1>19 DEF Elapse
<1>20. CASE Crash
  BY <1>20 DEF Crash
<1>21. CASE Restart
  BY <1>21 DEF Restart
<1>22. CASE UNCHANGED vars
  BY <1>22 DEF vars
<1>. QED
  BY <1>1, <1>2, <1>3, <1>4, <1>5, <1>6, <1>7, <1>8, <1>9, <1>10, <1>11, <1>12, <1>13
     , <1>14, <1>15, <1>16, <1>17, <1>18, <1>19, <1>20, <1>21, <1>22
     DEF Next, Poll, Check, Serve, Edit, Threads

(* The inductive invariant holds.                                          *)
THEOREM InvariantHolds == Spec => []IInv
<1>1. Init => IInv
  <2> SUFFICES ASSUME Init PROVE IInv
    OBVIOUS
  <2>1. TypeOK
    BY HealthAssumption DEF Init, TypeOK, Threads, Entries, Absent, Incidents, NoEvent, Alerts
  <2>2. MarksExact /\ LocksInv
    BY DEF Init, MarksExact, Checks, LocksInv, Recording
  <2>3. HistoryInv /\ AlertInv /\ SavedInv
    BY HealthAssumption DEF Init, HistoryInv, AlertInv, SavedInv, Current, Telling
  <2>. QED
    BY <2>1, <2>2, <2>3 DEF IInv
<1>2. IInv /\ [Next]_vars => IInv'
  BY TypeStep, MarksStep, LocksStep, HistoryStep, AlertStep, SavedStep DEF IInv
<1>. QED
  BY <1>1, <1>2, PTL DEF Spec

(* Types are kept.                                                         *)
THEOREM TypeCorrect == Spec => []TypeOK
  BY InvariantHolds, PTL DEF IInv

(* A service is marked exactly while one thread checks it.                 *)
THEOREM MarksCorrect == Spec => []MarksExact
  BY InvariantHolds, PTL DEF IInv

(* What a restart would read is what is shown.                             *)
THEOREM RestartCorrect == Spec => []RestartRemembers
<1>1. IInv => RestartRemembers
  <2> SUFFICES ASSUME IInv, RuntimeFree, NEW s \in Services, Current(s)
               PROVE  Loaded(s) = runtime[s]
    BY DEF RestartRemembers
  <2>1. savedRuntime[s] = runtime[s]
    BY DEF IInv, SavedInv
  <2>2. runtime[s] # Absent
    BY DEF IInv, AlertInv, Absent
  <2>. QED
    BY <2>1, <2>2 DEF Loaded, Current
<1>. QED
  BY <1>1, InvariantHolds, PTL

(* Nobody takes the locks in the order of snapshot.                        *)
NoneExports == \A t \in Threads : pc[t] \notin {"incidents", "runtime"}

LEMMA NoneExportsStep ==
  ~Exports /\ TypeOK /\ NoneExports /\ [Next]_vars => NoneExports'
<1> SUFFICES ASSUME ~Exports, TypeOK, NoneExports, [Next]_vars PROVE NoneExports'
  OBVIOUS
<1> USE DEF TypeOK, NoneExports
<1>1. ASSUME NEW t \in Threads,
             NEW p \in {"idle", "next", "begin", "request", "event", "alert", "save", "end", "forget"},
             Goto(t, p)
      PROVE  NoneExports'
  BY <1>1 DEF Goto
<1>2. UNCHANGED pc => NoneExports'
  OBVIOUS
<1>3. CASE Poll
  BY <1>1, <1>2, <1>3 DEF Poll, List, Look, Wait, Check, Begin, Record, Event, Alert, Save, End, Rest, Threads
<1>4. ASSUME NEW h \in Handlers, Serve(h) \/ Export(h) PROVE NoneExports'
  BY <1>1, <1>2, <1>4 DEF Serve, Export, Check, Begin, Record, Event, Alert, Save, End, Rest, Forget,
    ExportIncidents, ExportRuntime, Threads
<1>5. ASSUME NEW h \in Handlers, NEW s \in Services, CheckNow(h, s) \/ Delete(h, s) PROVE NoneExports'
  BY <1>1, <1>5 DEF CheckNow, Delete, Threads
<1>6. ASSUME NEW s \in Services, Edit(s) \/ Elapse(s) PROVE NoneExports'
  BY <1>2, <1>6 DEF Edit, Create, Update, Rename, Define, Elapse, threadVars
<1>7. CASE Crash \/ Restart \/ UNCHANGED vars
  BY <1>2, <1>7 DEF Crash, Restart, vars, threadVars
<1>. QED
  BY <1>3, <1>4, <1>5, <1>6, <1>7 DEF Next

(* While nobody exports the locks are taken in an order without a cycle:   *)
(* what snapshot breaks is this.                                           *)
THEOREM LocksComeFree == ~Exports /\ Spec => []NoLockCycle
<1> SUFFICES ASSUME ~Exports PROVE Spec => []NoLockCycle
  OBVIOUS
<1>1. Init => NoneExports
  BY DEF Init, NoneExports
<1>2. TypeOK /\ NoneExports /\ [Next]_vars => NoneExports'
  BY NoneExportsStep
<1>3. IInv /\ NoneExports => NoLockCycle
  <2> SUFFICES ASSUME IInv, NoneExports, NEW t \in Threads, HoldsLock(t)
               PROVE  \E u \in Threads : HoldsLock(u) /\ ~WaitsForLock(u)
    BY DEF NoLockCycle
  <2>1. CASE RuntimeFree
    BY <2>1 DEF HoldsLock, WaitsForLock, NoneExports, RuntimeFree
  <2>2. CASE ~RuntimeFree
    <3>1. PICK u \in Threads : pc[u] \in Recording
      BY <2>2 DEF RuntimeFree, Recording
    <3>2. pc[u] = "event" => IncidentsFree
      BY <3>1 DEF IInv, LocksInv, Recording, IncidentsFree, NoneExports
    <3>. QED
      BY <3>1, <3>2 DEF HoldsLock, WaitsForLock, Recording
  <2>. QED
    BY <2>1, <2>2
<1>. QED
  BY <1>1, <1>2, <1>3, InvariantHolds, TypeCorrect, PTL DEF Spec

(* One run of the process tells transitions only.                          *)
THEOREM TransitionsCorrect == Spec => TransitionsOnly
<1>1. IInv /\ [Next]_vars =>
        [\A s \in Services : Current(s) /\ told'[s] # told[s] => told'[s].event # told[s].event]_vars
  <2> SUFFICES ASSUME IInv, [Next]_vars, NEW s \in Services, Current(s), told'[s] # told[s]
               PROVE  told'[s].event # told[s].event
    OBVIOUS
  <2>1. ASSUME NEW t \in Threads, Alert(t) PROVE told'[s].event # told[s].event
    <3>1. svc[t] = s /\ told'[s].event = EventOf(runtime[s])
      BY <2>1 DEF Alert, IInv, TypeOK
    <3>2. Telling(s)
      BY <2>1, <3>1 DEF Alert, Telling
    <3>. QED
      BY <3>1, <3>2 DEF IInv, AlertInv
  <2>2. CASE UNCHANGED told
    BY <2>2
  <2>3. UNCHANGED told \/ \E t \in Threads : Alert(t)
    BY DEF Next, Poll, Check, Serve, Edit, Threads, List, Look, Wait, CheckNow, Begin, Record,
           Event, Save, End, Create, Update, Rename, Define, Delete, Forget, Export,
           ExportIncidents, ExportRuntime, Elapse, Crash, Restart, vars, historyVars
  <2>. QED
    BY <2>1, <2>2, <2>3
<1>. QED
  BY <1>1, InvariantHolds, PTL DEF Spec, TransitionsOnly
=============================================================================
