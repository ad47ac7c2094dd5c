-------------------------- MODULE MigrationProofs ---------------------------
(***************************************************************************)
(* Proofs about Migration, for any contents, any number of handlers, edits,*)
(* imports, faults and crashes.                                            *)
(***************************************************************************)
EXTENDS Migration, TLAPS

LEMMA OrderIs ==
  /\ Len(Order) = 9 /\ DOMAIN Order = 1..9
  /\ Order[1] = "databases" /\ Order[2] = "state" /\ Order[3] = "users"
  /\ Order[4] = "profiles" /\ Order[5] = "compression" /\ Order[6] = "services"
  /\ Order[7] = "incidents" /\ Order[8] = "runtime" /\ Order[9] = "audit"
BY DEF Order

LEMMA NamesAre ==
  Names = {"databases", "state", "users", "profiles", "compression",
           "services", "incidents", "runtime", "audit"}
<1>1. Names = {Order[i] : i \in 1..9}
  BY OrderIs DEF Names
<1>2. 1..9 = {1, 2, 3, 4, 5, 6, 7, 8, 9}
  BY SMT
<1>3. QED BY <1>1, <1>2, OrderIs

LEMMA ExportIs ==
  /\ Len(ExportOrder) = 11
  /\ ExportOrder[1] = "compression" /\ ExportOrder[2] = "flag" /\ ExportOrder[3] = "services"
  /\ ExportOrder[4] = "incidents" /\ ExportOrder[5] = "runtime" /\ ExportOrder[6] = "databases"
  /\ ExportOrder[7] = "state" /\ ExportOrder[8] = "users" /\ ExportOrder[9] = "profiles"
  /\ ExportOrder[10] = "audit" /\ ExportOrder[11] = "history"
BY DEF ExportOrder

LEMMA ActivateIs ==
  /\ Len(ActivateOrder) = 8
  /\ ActivateOrder[1] = "databases" /\ ActivateOrder[2] = "state" /\ ActivateOrder[3] = "users"
  /\ ActivateOrder[4] = "profiles" /\ ActivateOrder[5] = "compression"
  /\ ActivateOrder[6] = "services" /\ ActivateOrder[7] = "incidents"
  /\ ActivateOrder[8] = "runtime"
BY DEF ActivateOrder

LEMMA HealthIs ==
  /\ Len(HealthOrder) = 3 /\ HealthOrder[1] = "services"
  /\ HealthOrder[2] = "incidents" /\ HealthOrder[3] = "runtime"
BY DEF HealthOrder
-----------------------------------------------------------------------------
(* Types, and where in its order each phase may be.                        *)

Places ==
  /\ at \in {"stage", "install"} => pos <= 9
  /\ at = "activate" => pos <= 8
  /\ at = "lists" => pos <= 3
  /\ at \in {"rename", "settings", "flag"} => pos = 5
  /\ at \in {"copy", "unlist", "months", "done", "idle"} => pos = 1

Undoing ==
  /\ at \in {"idle", "export", "copy"} => undo = "no"
  /\ undo # "no" => snap = before
  /\ undo = "files" => at \in Writing \union {"done"}
  /\ broken => undo # "no"
  /\ answer # "none" => at = "done"
  /\ answer \in {"ok", "refused"} => undo = "no"
  /\ answer = "failed" => undo # "no"
  /\ at = "done" => answer # "none"
  /\ ~up => at = "idle"

TypeInv == TypeOK /\ Places /\ Undoing

LEMMA SnapshotsAre ==
  ASSUME NEW s \in Snapshots
  PROVE  /\ s.says \in [All -> Contents] /\ s.over \in BOOLEAN
         /\ \A n \in All, c \in Contents : [s EXCEPT !.says[n] = c] \in Snapshots
         /\ \A b \in BOOLEAN : [s EXCEPT !.over = b] \in Snapshots
BY DEF Snapshots

LEMMA HeldAre ==
  /\ Held \subseteq Names /\ Names \subseteq All /\ "history" \in All
  /\ "history" \notin Names /\ FileFirst \subseteq Held /\ Health \subseteq FileFirst
  /\ Held = {"databases", "state", "users", "profiles", "compression",
             "services", "incidents", "runtime"}
  /\ FileFirst = {"users", "profiles", "services", "incidents", "runtime"}
BY NamesAre DEF Held, FileFirst, Health, All

LEMMA NothingIs == Nothing \in Snapshots
BY PanelAssumption DEF Nothing, Snapshots

LEMMA LoadedIs == \A c \in Maybe : Loaded(c) \in Contents
BY PanelAssumption DEF Maybe, Loaded

LEMMA TypeInitially == Init => TypeInv
<1> SUFFICES ASSUME Init PROVE TypeInv
  OBVIOUS
<1>1. Default \in Contents /\ Default \in Maybe /\ NoFile \in Maybe
  BY PanelAssumption DEF Maybe
<1>2. /\ mem \in [Held -> Contents] /\ acked \in [FileFirst -> Contents]
      /\ file \in [Names -> Maybe] /\ stage \in [Names -> Maybe]
      /\ value \in [Handlers -> Contents]
  BY <1>1 DEF Init, StoresInit
<1>3. TypeOK
  <2>1. /\ upd \in [Handlers -> {"idle", "rename", "settings", "flag"}]
        /\ hist \in Maybe /\ temp \in Maybe
    BY <1>1 DEF Init, StoresInit
  <2>2. at \in Phases /\ pos \in 1..11
    BY DEF Init, Phases
  <2>3. crashes \in 0..MaxCrashes /\ faults \in 0..MaxFaults /\ edits \in 0..MaxEdits
    BY PanelAssumption DEF Init, StoresInit
  <2>4. imports \in 0..MaxImports
    BY MigrationAssumption DEF Init
  <2>5. /\ snap \in Snapshots /\ before \in Snapshots /\ undo \in {"no", "files", "all"}
        /\ answer \in {"none", "ok", "failed", "refused"} /\ broken \in BOOLEAN /\ torn \in BOOLEAN
        /\ overridden \in BOOLEAN /\ up \in BOOLEAN /\ risky \in SUBSET Held
    BY NothingIs DEF Init, StoresInit
  <2>6. QED BY <1>2, <2>1, <2>2, <2>3, <2>4, <2>5 DEF TypeOK
<1>4. Places /\ Undoing
  BY DEF Init, StoresInit, Places, Undoing
<1>5. QED BY <1>3, <1>4 DEF TypeInv

LEMMA EditTypes ==
  ASSUME TypeInv, Handle
  PROVE  TypeInv'
<1> USE DEF TypeInv
<1>1. UNCHANGED importVars /\ Edit(Importing)
  BY DEF Handle
<1>2. Places' /\ (up' = up => Undoing')
  BY <1>1 DEF Places, Undoing, importVars
<1>3. \A n \in Held, c \in Contents :
         [mem EXCEPT ![n] = c] \in [Held -> Contents] /\ [file EXCEPT ![n] = c] \in [Names -> Maybe]
  BY HeldAre DEF TypeOK, Maybe
<1>4. ASSUME NEW c \in Edits, NEW n \in Held, Stored(n, c) \/ Unwritten(n, c)
      PROVE  /\ mem' \in [Held -> Contents] /\ file' \in [Names -> Maybe]
             /\ acked' \in [FileFirst -> Contents] /\ faults' \in 0..MaxFaults
  BY <1>3, <1>4, PanelAssumption DEF Stored, Unwritten, Fault, TypeOK
<1>5. ASSUME NEW n, Begins(n)
      PROVE  edits' \in 0..MaxEdits
  BY <1>5, PanelAssumption DEF Begins, TypeOK
<1>6. ASSUME NEW n \in Held, NEW i \in BOOLEAN, Touched(n, i) \/ risky' = risky
      PROVE  risky' \in SUBSET Held
  BY <1>6 DEF Touched, TypeOK
<1>7. Importing \in BOOLEAN
  BY DEF Importing
<1>8. {"databases", "state", "users", "profiles", "compression"} \subseteq Held
  BY HeldAre
<1>9. CASE \E c \in Edits : \/ EditRegistry(c, Importing) \/ SetEnabled(c, Importing)
                             \/ EditUsers(c, Importing) \/ EditProfiles(c, Importing)
  <2> PICK c \in Edits : \/ EditRegistry(c, Importing) \/ SetEnabled(c, Importing)
                         \/ EditUsers(c, Importing) \/ EditProfiles(c, Importing)
    BY <1>9
  <2>1. /\ mem' \in [Held -> Contents] /\ file' \in [Names -> Maybe]
        /\ acked' \in [FileFirst -> Contents] /\ faults' \in 0..MaxFaults
    BY <1>4, <1>8 DEF EditRegistry, SetEnabled, EditUsers, EditProfiles
  <2>2. edits' \in 0..MaxEdits
    BY <1>5 DEF EditRegistry, SetEnabled, EditUsers, EditProfiles
  <2>3. risky' \in SUBSET Held
    BY <1>6, <1>7, <1>8 DEF EditRegistry, SetEnabled, EditUsers, EditProfiles
  <2>4. UNCHANGED LocalVars
    BY DEF EditRegistry, SetEnabled, EditUsers, EditProfiles
  <2>5. QED BY <2>1, <2>2, <2>3, <2>4, <1>1, <1>2 DEF LocalVars, TypeOK, importVars
<1>10. CASE \E h \in Handlers, c \in Edits : UpdateBegins(h, c, Importing)
  <2> PICK h \in Handlers, c \in Edits : UpdateBegins(h, c, Importing)
    BY <1>10
  <2>1. edits' \in 0..MaxEdits /\ risky' \in SUBSET Held
    BY <1>5, <1>6, <1>7, <1>8 DEF UpdateBegins
  <2>2. upd' \in [Handlers -> {"idle", "rename", "settings", "flag"}] /\ value' \in [Handlers -> Contents]
    BY PanelAssumption DEF UpdateBegins, TypeOK
  <2>3. temp' \in Maybe
    BY PanelAssumption DEF UpdateBegins, Maybe
  <2>4. QED BY <2>1, <2>2, <2>3, <1>1, <1>2 DEF UpdateBegins, TypeOK, importVars
<1>11. CASE \E h \in Handlers : Update(h, Importing)
  <2> PICK h \in Handlers : Update(h, Importing)
    BY <1>11
  <2>1. risky' \in SUBSET Held
    BY <1>6, <1>7, <1>8 DEF Update, UpdateRenames, UpdateSettings, UpdateFlag
  <2>2. upd' \in [Handlers -> {"idle", "rename", "settings", "flag"}] /\ value' \in [Handlers -> Contents]
    BY PanelAssumption DEF Update, UpdateRenames, UpdateSettings, UpdateFlag, UpdateEnds, TypeOK
  <2>3. faults' \in 0..MaxFaults
    BY PanelAssumption
       DEF Update, UpdateRenames, UpdateSettings, UpdateFlag, Fails, Fault, TypeOK
  <2>4. file' \in [Names -> Maybe] /\ temp' \in Maybe
    BY HeldAre DEF Update, UpdateRenames, UpdateSettings, UpdateFlag, TypeOK, Maybe
  <2>5. value[h] \in Contents
    BY DEF TypeOK
  <2>6. mem' \in [Held -> Contents]
    BY <2>5, <1>3, <1>8 DEF Update, UpdateRenames, UpdateSettings, UpdateFlag, TypeOK
  <2>7. /\ overridden' \in BOOLEAN /\ acked' = acked /\ up' = up /\ crashes' = crashes
        /\ edits' = edits
    BY DEF Update, UpdateRenames, UpdateSettings, UpdateFlag, TypeOK
  <2>8. QED
    BY <2>1, <2>2, <2>3, <2>4, <2>6, <2>7, <1>1, <1>2 DEF TypeOK, importVars
<1>12. QED BY <1>1, <1>9, <1>10, <1>11 DEF Edit
LEMMA FaultTypes ==
  ASSUME TypeOK, NEW r, Fails(r) \/ Fault
  PROVE  faults' \in 0..MaxFaults
BY PanelAssumption DEF Fails, Fault, TypeOK

LEMMA BeginTypes ==
  ASSUME TypeInv, NEW c \in Imports, NEW over \in BOOLEAN, Begin(c, over)
  PROVE  TypeInv'
<1>1. snap' \in Snapshots
  BY MigrationAssumption DEF Begin, Snapshots
<1>2. imports' \in 0..MaxImports
  BY MigrationAssumption DEF Begin, TypeInv, TypeOK
<1>3. risky' \in SUBSET Held
  BY HeldAre DEF Begin, TypeInv, TypeOK
<1>4. at' \in Phases /\ pos' \in 1..11
  BY DEF Begin, Phases
<1>5. TypeOK'
  BY <1>1, <1>2, <1>3, <1>4 DEF Begin, TypeInv, TypeOK
<1>6. Places' /\ Undoing'
  BY DEF Begin, TypeInv, TypeOK, Places, Undoing
<1>7. QED BY <1>5, <1>6 DEF TypeInv

LEMMA ExportTypes ==
  ASSUME TypeInv, Export
  PROVE  TypeInv'
<1> DEFINE n == ExportOrder[pos]
<1>1. pos \in 1..11 /\ before \in Snapshots
  BY DEF TypeInv, TypeOK
<1>2. n \in {"flag", "history", "audit"} \/ n \in Held
  BY <1>1, ExportIs, HeldAre
<1>3. "audit" \in Names /\ "audit" \in All
  BY NamesAre, HeldAre
<1>4. before' \in Snapshots
  <2>1. CASE n = "flag"
    BY <2>1, <1>1, SnapshotsAre DEF Export, TypeInv, TypeOK
  <2>2. CASE n = "history"
    <3>1. Loaded(hist) \in Contents
      BY LoadedIs DEF TypeInv, TypeOK
    <3>2. before' = [before EXCEPT !.says["history"] = Loaded(hist)]
      BY <2>2 DEF Export
    <3>3. QED BY <3>1, <3>2, <1>1, SnapshotsAre, HeldAre
  <2>3. CASE n = "audit"
    <3>1. Loaded(file["audit"]) \in Contents
      BY LoadedIs, <1>3 DEF TypeInv, TypeOK
    <3>2. before' = [before EXCEPT !.says["audit"] = Loaded(file["audit"])]
      BY <2>3 DEF Export
    <3>3. QED BY <3>1, <3>2, <1>1, <1>3, SnapshotsAre
  <2>4. CASE n \notin {"flag", "history", "audit"}
    <3>1. mem[n] \in Contents /\ n \in All
      BY <2>4, <1>2, HeldAre DEF TypeInv, TypeOK
    <3>2. before' = [before EXCEPT !.says[n] = mem[n]]
      BY <2>4 DEF Export
    <3>3. QED BY <3>1, <3>2, <1>1, SnapshotsAre
  <2>5. QED BY <2>1, <2>2, <2>3, <2>4
<1>5. /\ at' \in {"export", "copy"} /\ pos' \in 1..11
      /\ at' = "copy" => pos' = 1
  BY <1>1, ExportIs DEF Export, Turn
<1>6. TypeOK'
  BY <1>4, <1>5 DEF Export, TypeInv, TypeOK, storeVars, Phases
<1>7. Places' /\ Undoing'
  BY <1>5 DEF Export, TypeInv, TypeOK, Places, Undoing, storeVars
<1>8. QED BY <1>6, <1>7 DEF TypeInv

LEMMA WritingTypes ==
  ASSUME TypeInv, Copy \/ Refused \/ Stage \/ Install \/ Unlist \/ Months \/ WriteFails
  PROVE  TypeInv'
<1> USE DEF TypeInv
<1>1. CASE Copy
  BY <1>1 DEF Copy, TypeOK, Places, Undoing, storeVars, Phases, Writing
<1>2. CASE Refused
  <2>1. faults' \in 0..MaxFaults
    BY <1>2, FaultTypes DEF Refused
  <2>2. QED BY <2>1, <1>2 DEF Refused, TypeOK, Places, Undoing, Phases, Writing
<1>3. CASE Stage
  <2>1. pos \in 1..9 /\ Order[pos] \in Names
    BY <1>3, OrderIs, NamesAre DEF Stage, Places, TypeOK
  <2>2. snap.says[Order[pos]] \in Maybe
    BY <2>1, HeldAre DEF TypeOK, Snapshots, Maybe
  <2>3. stage' \in [Names -> Maybe]
    BY <1>3, <2>1, <2>2 DEF Stage, TypeOK
  <2>4. at' \in {"stage", "install"} /\ pos' \in 1..9
    BY <1>3, <2>1, OrderIs DEF Stage, Turn
  <2>5. QED
    BY <2>3, <2>4, <1>3 DEF Stage, TypeOK, Places, Undoing, Phases, Writing, storeVars
<1>4. CASE Install
  <2>1. pos \in 1..9 /\ Order[pos] \in Names
    BY <1>4, OrderIs, NamesAre DEF Install, Places, TypeOK
  <2>2. stage' \in [Names -> Maybe] /\ file' \in [Names -> Maybe]
    BY <1>4, <2>1 DEF Install, TypeOK, Maybe
  <2>3. at' \in {"install", "unlist"} /\ pos' \in 1..9 /\ (at' = "unlist" => pos' = 1)
    BY <1>4, <2>1, OrderIs DEF Install, Turn
  <2>4. QED
    BY <2>2, <2>3, <1>4 DEF Install, TypeOK, Places, Undoing, Phases, Writing
<1>5. CASE Unlist
  BY <1>5 DEF Unlist, TypeOK, Places, Undoing, Phases, Writing, storeVars, Maybe
<1>6. CASE Months
  <2>1. hist' \in Maybe
    BY <1>6, HeldAre DEF Months, TypeOK, Snapshots, Maybe
  <2>2. /\ at' \in {"activate", "done"} /\ pos' = 1
        /\ at' = "activate" => answer' = answer /\ undo # "files"
        /\ at' = "done" => answer' = "failed" /\ undo = "files"
    BY <1>6 DEF Months, Settle, Activates, Places
  <2>3. QED
    BY <2>1, <2>2, <1>6 DEF Months, TypeOK, Places, Undoing, Phases, Writing, storeVars
<1>7. CASE WriteFails
  <2>1. faults' \in 0..MaxFaults
    BY <1>7, FaultTypes DEF WriteFails
  <2>2. /\ at' \in {"stage", "activate", "done"} /\ pos' = 1
        /\ snap' \in Snapshots /\ undo' \in {"no", "files", "all"}
        /\ broken' \in BOOLEAN /\ answer' \in {"none", "ok", "failed", "refused"}
    BY <1>7 DEF WriteFails, RollBack, Settle, TypeOK
  <2>3. TypeOK'
    BY <2>1, <2>2, <1>7 DEF WriteFails, TypeOK, Phases, Writing
  <2>4. Places'
    BY <2>2 DEF Places
  <2>5. Undoing'
    BY <1>7 DEF WriteFails, RollBack, Settle, Undoing, Writing, TypeOK
  <2>6. QED BY <2>3, <2>4, <2>5
<1>8. QED BY <1>1, <1>2, <1>3, <1>4, <1>5, <1>6, <1>7
LEMMA ActivatingTypes ==
  ASSUME TypeInv,
         \/ \E n \in Names : Replace(n)
         \/ ReplaceWritesTemp \/ ReplaceRenames
         \/ ClearRemoves \/ ClearSettings \/ ClearFlag \/ PersistHealth \/ AssignHealth
  PROVE  TypeInv'
<1> USE DEF TypeInv
<1>1. \A n \in All : snap.says[n] \in Contents /\ snap.says[n] \in Maybe
  BY DEF TypeOK, Snapshots, Maybe
<1>2. ASSUME NEW n \in Names, Replace(n) PROVE TypeInv'
  <2>1. n \in Held
    BY <1>2, HeldAre DEF Replace
  <2>2. mem' \in [Held -> Contents] /\ file' \in [Names -> Maybe]
    BY <1>1, <1>2, <2>1, HeldAre DEF Replace, TypeOK
  <2>3. at = "activate" /\ at' = "activate" /\ pos' \in 1..8 /\ answer' = answer
    <3>1. pos \in 1..5
      BY <1>2, ActivateIs DEF Replace, Activating, TypeOK, Places
    <3>2. QED BY <1>2, <3>1 DEF Replace, Activating, Proceed
  <2>4. TypeOK' /\ Places'
    BY <1>2, <2>2, <2>3 DEF Replace, TypeOK, Places, Phases, Writing
  <2>5. Undoing'
    BY <1>2, <2>3 DEF Replace, Undoing, Writing
  <2>6. QED BY <2>4, <2>5
<1>3. CASE ReplaceWritesTemp
  <2>1. pos = 5
    BY <1>3, ActivateIs DEF ReplaceWritesTemp, Activating, Places, TypeOK
  <2>2. "compression" \in All
    BY HeldAre
  <2>3. QED
    BY <2>1, <2>2, <1>1, <1>3
       DEF ReplaceWritesTemp, Activating, TypeOK, Places, Undoing, Phases, Writing
<1>4. CASE ReplaceRenames
  <2>1. "compression" \in Held /\ "compression" \in Names /\ "compression" \in All
    BY HeldAre
  <2>2. mem' \in [Held -> Contents] /\ file' \in [Names -> Maybe]
    BY <1>1, <1>4, <2>1 DEF ReplaceRenames, TypeOK
  <2>3. at' = "activate" /\ pos' = 6 /\ answer' = answer
    BY <1>4 DEF ReplaceRenames, Places, Proceed
  <2>4. TypeOK' /\ Places'
    BY <1>4, <2>2, <2>3 DEF ReplaceRenames, TypeOK, Places, Phases, Maybe
  <2>5. Undoing'
    BY <1>4, <2>3 DEF ReplaceRenames, Undoing, Writing
  <2>6. QED BY <2>4, <2>5
<1>5. CASE ClearRemoves
  <2>1. pos = 5
    BY <1>5, ActivateIs DEF ClearRemoves, Activating, Places, TypeOK
  <2>2. file' \in [Names -> Maybe]
    BY <1>5 DEF ClearRemoves, TypeOK, Maybe
  <2>3. QED
    BY <2>1, <2>2, <1>5
       DEF ClearRemoves, Activating, TypeOK, Places, Undoing, Phases, Writing
<1>6. CASE ClearSettings
  <2>1. mem' \in [Held -> Contents]
    BY <1>6, PanelAssumption DEF ClearSettings, TypeOK
  <2>2. QED
    BY <2>1, <1>6 DEF ClearSettings, TypeOK, Places, Undoing, Phases, Writing
<1>7. CASE ClearFlag
  <2>1. at' = "activate" /\ pos' = 6 /\ answer' = answer
    BY <1>7 DEF ClearFlag, Places, Proceed
  <2>2. overridden' \in BOOLEAN
    BY <1>7 DEF ClearFlag
  <2>3. TypeOK' /\ Places'
    BY <2>1, <2>2, <1>7 DEF ClearFlag, TypeOK, Places, Phases
  <2>4. Undoing'
    BY <2>1, <1>7 DEF ClearFlag, Undoing, Writing
  <2>5. QED BY <2>3, <2>4
<1>8. CASE PersistHealth
  <2>1. file' \in [Names -> Maybe]
    BY <1>1, <1>8, HeldAre DEF PersistHealth, TypeOK
  <2>2. at = "activate" /\ pos \in 1..8
    BY <1>8 DEF PersistHealth, Activating, TypeOK, Places
  <2>3. \/ at' = "activate" /\ pos' \in 1..8
        \/ at' = "lists" /\ pos' = 1
    BY <1>8, <2>2, ActivateIs DEF PersistHealth, Turn
  <2>4. TypeOK' /\ Places'
    BY <1>8, <2>1, <2>3 DEF PersistHealth, TypeOK, Places, Phases
  <2>5. Undoing'
    BY <1>8, <2>2, <2>3 DEF PersistHealth, Undoing, Writing
  <2>6. QED BY <2>4, <2>5
<1>9. CASE AssignHealth
  <2>1. at = "lists" /\ pos \in 1..3 /\ HealthOrder[pos] \in All
    BY <1>9, HealthIs, HeldAre DEF AssignHealth, TypeOK, Places
  <2>2. mem' \in [Held -> Contents]
    BY <1>1, <1>9, <2>1 DEF AssignHealth, TypeOK
  <2>3. \/ at' = "lists" /\ pos' \in 1..3 /\ answer' = answer
        \/ at' = "done" /\ pos' = 1 /\ answer' = IF undo = "no" THEN "ok" ELSE "failed"
    BY <1>9, <2>1, HealthIs DEF AssignHealth, Settle
  <2>4. TypeOK' /\ Places'
    BY <1>9, <2>2, <2>3 DEF AssignHealth, TypeOK, Places, Phases
  <2>5. Undoing'
    BY <1>9, <2>1, <2>3 DEF AssignHealth, Undoing, Writing, TypeOK
  <2>6. QED BY <2>4, <2>5
<1>10. QED BY <1>2, <1>3, <1>4, <1>5, <1>6, <1>7, <1>8, <1>9

LEMMA EndTypes ==
  ASSUME TypeInv, ActivateFails \/ Answer \/ Crash \/ Start
  PROVE  TypeInv'
<1> USE DEF TypeInv
<1>1. CASE ActivateFails
  <2>1. faults' \in 0..MaxFaults
    BY <1>1, FaultTypes DEF ActivateFails
  <2>2. /\ at' \in {"stage", "done"} /\ pos' = 1
        /\ snap' \in Snapshots /\ undo' \in {"no", "files", "all"}
        /\ broken' \in BOOLEAN /\ answer' \in {"none", "ok", "failed", "refused"}
    BY <1>1 DEF ActivateFails, RollBack, Settle, TypeOK
  <2>3. TypeOK' /\ Places'
    BY <2>1, <2>2, <1>1 DEF ActivateFails, TypeOK, Places, Phases, Writing
  <2>4. Undoing'
    BY <1>1 DEF ActivateFails, RollBack, Settle, Undoing, Writing, TypeOK
  <2>5. QED BY <2>3, <2>4
<1>2. CASE Answer
  <2>1. acked' \in [FileFirst -> Contents]
    BY <1>2, HeldAre DEF Answer, TypeOK
  <2>2. TypeOK'
    BY <1>2, <2>1, NothingIs DEF Answer, TypeOK, Phases
  <2>3. Places' /\ Undoing'
    BY <1>2 DEF Answer, Places, Undoing
  <2>4. QED BY <2>2, <2>3
<1>3. CASE Crash
  <2>1. crashes' \in 0..MaxCrashes /\ torn' \in BOOLEAN
    BY <1>3, PanelAssumption DEF Crash, StoresCrash, Importing, TypeOK
  <2>2. /\ upd' \in [Handlers -> {"idle", "rename", "settings", "flag"}]
        /\ value' \in [Handlers -> Contents]
    BY <1>3, PanelAssumption DEF Crash, StoresCrash
  <2>3. TypeOK'
    <3>1. /\ at' \in Phases /\ pos' \in 1..11 /\ snap' \in Snapshots /\ before' \in Snapshots
          /\ undo' \in {"no", "files", "all"} /\ answer' \in {"none", "ok", "failed", "refused"}
      BY <1>3, NothingIs DEF Crash, StoresCrash, Phases
    <3>4. broken' \in BOOLEAN /\ up' \in BOOLEAN
      BY <1>3 DEF Crash, StoresCrash
    <3>2. UNCHANGED <<mem, overridden, file, temp, acked, risky, faults, edits, stage, hist, imports>>
      BY <1>3 DEF Crash, StoresCrash
    <3>3. QED BY <2>1, <2>2, <3>1, <3>2, <3>4 DEF TypeOK
  <2>4. Places' /\ Undoing'
    BY <1>3 DEF Crash, StoresCrash, Places, Undoing
  <2>5. QED BY <2>3, <2>4
<1>4. CASE Start
  <2>1. mem' \in [Held -> Contents] /\ acked' \in [FileFirst -> Contents]
    BY <1>4, LoadedIs, HeldAre DEF Start, StoresStart, TypeOK
  <2>2. TypeOK'
    BY <1>4, <2>1 DEF Start, StoresStart, TypeOK
  <2>3. Places' /\ Undoing'
    BY <1>4 DEF Start, StoresStart, Places, Undoing
  <2>4. QED BY <2>2, <2>3
<1>5. QED BY <1>1, <1>2, <1>3, <1>4

LEMMA TypeStep ==
  ASSUME TypeInv, [Next]_vars
  PROVE  TypeInv'
<1>1. CASE UNCHANGED vars
  BY <1>1 DEF TypeInv, TypeOK, Places, Undoing, vars, storeVars, importVars
<1>2. CASE Import
  BY <1>2, BeginTypes, ExportTypes, WritingTypes, ActivatingTypes, EndTypes DEF Import
<1>3. CASE Handle \/ Crash \/ Start
  BY <1>3, EditTypes, EndTypes
<1>4. QED BY <1>1, <1>2, <1>3 DEF Next

LEMMA TypeHolds == Spec => []TypeInv
BY TypeInitially, TypeStep, PTL DEF Spec

\* Type correctness: what the stores, their files, the staged files and the
\* snapshots of an import may be, for any contents and any number of handlers.
THEOREM TypeCorrect == Spec => []TypeOK
BY TypeHolds, PTL DEF TypeInv
-----------------------------------------------------------------------------
(* The registry on the disk.  What is exported is what is in memory, and   *)
(* memory never holds a registry that the start refuses; so a roll-back    *)
(* that reaches the registry's file makes it good, and what comes after    *)
(* the file's turn has a registry that is.                                 *)

Good(c) == c \notin Refuses["databases"]

RegistryInv ==
  /\ Good(mem["databases"]) /\ Good(before.says["databases"])
  /\ StartsAgain
  /\ at \in {"export", "copy"} => torn \/ Starts
  /\ at = "done" => torn \/ broken \/ Starts
  /\ at \in {"rename", "settings", "flag", "lists"} => Starts
  /\ at = "activate" /\ pos > 1 => Starts
  /\ undo # "no" =>
       /\ at = "stage" /\ pos > 1 => Good(stage["databases"])
       /\ at = "install" /\ pos = 1 => Good(stage["databases"])
       /\ at = "install" /\ pos > 1 => Starts
       /\ at \in {"unlist", "months"} => Starts

LEMMA GoodIs ==
  /\ Good(Default) /\ Good(NoFile) /\ \A c \in Edits : Good(c)
  /\ \A c \in Maybe : Good(c) => Good(Loaded(c))
<1>1. "databases" \in All
  BY NamesAre DEF All
<1>2. Refuses["databases"] \subseteq Contents /\ Refuses["databases"] \intersect (Edits \union {Default}) = {}
  BY <1>1, PanelAssumption
<1>3. QED BY <1>2, PanelAssumption DEF Good, Loaded

LEMMA RegistryInitially == Init => RegistryInv
<1> SUFFICES ASSUME Init PROVE RegistryInv
  OBVIOUS
<1>1. mem["databases"] = Default /\ before.says["databases"] = Default
      /\ file["databases"] = NoFile
  BY NamesAre, HeldAre DEF Init, StoresInit, Nothing
<1>2. Starts
  BY <1>1, GoodIs DEF Starts, Good
<1>3. QED BY <1>1, <1>2, GoodIs DEF Init, RegistryInv, StartsAgain

LEMMA RegistryHandled ==
  ASSUME TypeInv, RegistryInv, Handle
  PROVE  RegistryInv'
<1>1. UNCHANGED importVars /\ Edit(Importing)
  BY DEF Handle
<1>2. \/ UNCHANGED <<mem["databases"], file["databases"]>>
      \/ /\ ~Importing /\ Good(mem'["databases"])
         /\ file'["databases"] \in {file["databases"], mem'["databases"]}
  <2>1. ASSUME NEW c \in Edits, NEW n \in Held, Stored(n, c) \/ Unwritten(n, c)
        PROVE  IF n = "databases"
               THEN mem'[n] = c /\ file'[n] \in {file[n], c}
               ELSE UNCHANGED <<mem["databases"], file["databases"]>>
    BY <2>1, HeldAre DEF Stored, Unwritten, TypeInv, TypeOK
  <2>2. {"databases", "state", "users", "profiles", "compression"} \subseteq Held
    BY HeldAre
  <2>3. ASSUME NEW c \in Edits, EditRegistry(c, Importing)
        PROVE  /\ ~Importing /\ Good(mem'["databases"])
               /\ file'["databases"] \in {file["databases"], mem'["databases"]}
    BY <2>1, <2>2, <2>3, GoodIs DEF EditRegistry
  <2>4. ASSUME NEW c \in Edits,
               SetEnabled(c, Importing) \/ EditUsers(c, Importing) \/ EditProfiles(c, Importing)
        PROVE  UNCHANGED <<mem["databases"], file["databases"]>>
    BY <2>1, <2>2, <2>4 DEF SetEnabled, EditUsers, EditProfiles
  <2>5. ASSUME NEW h \in Handlers, NEW c \in Edits, UpdateBegins(h, c, Importing)
        PROVE  UNCHANGED <<mem["databases"], file["databases"]>>
    BY <2>5 DEF UpdateBegins
  <2>6. ASSUME NEW h \in Handlers, Update(h, Importing)
        PROVE  UNCHANGED <<mem["databases"], file["databases"]>>
    BY <2>6, HeldAre, NamesAre DEF Update, UpdateRenames, UpdateSettings, UpdateFlag, TypeInv, TypeOK
  <2>7. QED BY <1>1, <2>3, <2>4, <2>5, <2>6 DEF Edit
<1>3. CASE UNCHANGED <<mem["databases"], file["databases"]>>
  BY <1>1, <1>3 DEF RegistryInv, StartsAgain, Starts, Importing, Good, importVars
<1>4. CASE /\ ~Importing /\ Good(mem'["databases"])
           /\ file'["databases"] \in {file["databases"], mem'["databases"]}
  BY <1>1, <1>4 DEF RegistryInv, StartsAgain, Starts, Importing, Good, importVars
<1>5. QED BY <1>2, <1>3, <1>4

LEMMA RegistryWritten ==
  ASSUME TypeInv, RegistryInv,
         \/ \E c \in Imports, over \in BOOLEAN : Begin(c, over)
         \/ Export \/ Copy \/ Refused
         \/ Stage \/ Install \/ Unlist \/ Months \/ WriteFails
  PROVE  RegistryInv'
<1> USE DEF RegistryInv, Good
<1>1. CASE \E c \in Imports, over \in BOOLEAN : Begin(c, over)
  BY <1>1 DEF Begin, StartsAgain, Starts, Importing, TypeInv, Undoing
<1>2. CASE Export
  <2>1. before'.says["databases"] \in {before.says["databases"], mem["databases"]}
    <3> DEFINE n == ExportOrder[pos]
    <3>1. pos \in 1..11 /\ before \in Snapshots /\ "databases" \in All
      BY HeldAre DEF TypeInv, TypeOK
    <3>2. n \in {"flag", "history", "audit"} \/ n \in Held
      BY <3>1, ExportIs, HeldAre
    <3>3. before.says \in [All -> Contents]
      BY <3>1, SnapshotsAre
    <3>4. CASE n = "flag"
      BY <1>2, <3>4, <3>1 DEF Export, Snapshots
    <3>5. CASE n = "history"
      <4>1. before' = [before EXCEPT !.says["history"] = Loaded(hist)]
        BY <1>2, <3>5 DEF Export
      <4>2. QED BY <4>1, <3>1 DEF Snapshots
    <3>6. CASE n = "audit"
      <4>1. before' = [before EXCEPT !.says["audit"] = Loaded(file["audit"])]
        BY <1>2, <3>6 DEF Export
      <4>2. QED BY <4>1, <3>1 DEF Snapshots
    <3>7. CASE n \notin {"flag", "history", "audit"}
      <4>1. before' = [before EXCEPT !.says[n] = mem[n]]
        BY <1>2, <3>7 DEF Export
      <4>2. QED BY <4>1, <3>1 DEF Snapshots
    <3>8. QED BY <3>4, <3>5, <3>6, <3>7
  <2>2. at' \in {"export", "copy"}
    BY <1>2 DEF Export, Turn
  <2>3. QED
    BY <1>2, <2>1, <2>2 DEF Export, StartsAgain, Starts, Importing, TypeInv, Undoing, storeVars
<1>3. CASE Copy
  BY <1>3 DEF Copy, StartsAgain, Starts, Importing, TypeInv, Undoing, storeVars
<1>4. CASE Refused
  BY <1>4 DEF Refused, StartsAgain, Starts, Importing
<1>5. CASE Stage
  <2>1. pos \in 1..9 /\ Order[pos] \in Names /\ "databases" \in Names
    BY <1>5, OrderIs, NamesAre DEF Stage, TypeInv, Places, TypeOK
  <2>2. undo # "no" /\ pos = 1 => stage'["databases"] = before.says["databases"]
    BY <1>5, <2>1, OrderIs DEF Stage, TypeInv, TypeOK, Undoing
  <2>3. pos > 1 => stage'["databases"] = stage["databases"]
    BY <1>5, <2>1, OrderIs DEF Stage, TypeInv, TypeOK
  <2>4. undo # "no" => Good(stage'["databases"])
    BY <1>5, <2>1, <2>2, <2>3 DEF Stage
  <2>5. (at' = "stage" /\ pos' > 1) \/ (at' = "install" /\ pos' = 1)
    BY <1>5, <2>1 DEF Stage, Turn
  <2>6. QED
    BY <1>5, <2>4, <2>5 DEF Stage, StartsAgain, Starts, Importing, storeVars
<1>6. CASE Install
  <2>1. pos \in 1..9 /\ Order[pos] \in Names /\ "databases" \in Names
    BY <1>6, OrderIs, NamesAre DEF Install, TypeInv, Places, TypeOK
  <2>2. file'["databases"] = IF pos = 1 THEN stage["databases"] ELSE file["databases"]
    BY <1>6, <2>1, OrderIs DEF Install, TypeInv, TypeOK
  <2>3. undo # "no" => Starts'
    BY <1>6, <2>1, <2>2 DEF Install, Starts
  <2>4. (at' = "install" /\ pos' > 1) \/ at' = "unlist"
    BY <1>6, <2>1, OrderIs DEF Install, Turn
  <2>5. QED
    BY <1>6, <2>3, <2>4 DEF Install, StartsAgain, Starts, Importing
<1>7. CASE Unlist
  BY <1>7 DEF Unlist, StartsAgain, Starts, Importing, storeVars
<1>8. CASE Months
  <2>1. (at' = "activate" /\ pos' = 1) \/ (at' = "done" /\ undo = "files")
    BY <1>8 DEF Months, Settle, Activates
  <2>2. QED
    BY <1>8, <2>1 DEF Months, StartsAgain, Starts, Importing, storeVars
<1>9. CASE WriteFails
  <2>1. \/ at' \in {"stage", "activate"} /\ pos' = 1
        \/ at' = "done" /\ broken'
    BY <1>9 DEF WriteFails, RollBack, Settle, TypeInv, TypeOK
  <2>2. QED
    BY <1>9, <2>1 DEF WriteFails, StartsAgain, Starts, Importing
<1>10. QED BY <1>1, <1>2, <1>3, <1>4, <1>5, <1>6, <1>7, <1>8, <1>9
LEMMA RegistryActivated ==
  ASSUME TypeInv, RegistryInv,
         \/ \E n \in Names : Replace(n)
         \/ ReplaceWritesTemp \/ ReplaceRenames
         \/ ClearRemoves \/ ClearSettings \/ ClearFlag \/ PersistHealth \/ AssignHealth
  PROVE  RegistryInv'
<1> USE DEF RegistryInv, Good
<1>1. "databases" \in Names /\ "databases" \in Held /\ "databases" \notin Health
  BY HeldAre, NamesAre DEF Health
<1>2. ASSUME NEW n \in Names, Replace(n) PROVE RegistryInv'
  <2>1. /\ pos \in 1..8 /\ (n # "databases" => pos > 1) /\ n \in Held
        /\ at' = "activate"
    BY <1>2, ActivateIs, HeldAre
       DEF Replace, Activating, Proceed, TypeInv, Places, TypeOK
  <2>2. /\ mem'["databases"] = IF n = "databases" THEN snap.says[n] ELSE mem["databases"]
        /\ file'["databases"] = IF n = "databases" THEN snap.says[n] ELSE file["databases"]
    BY <1>2, <1>1, <2>1 DEF Replace, TypeInv, TypeOK
  <2>3. Good(mem'["databases"]) /\ Starts'
    BY <1>2, <2>1, <2>2 DEF Replace, Activating, Invalid, Starts
  <2>4. QED BY <1>2, <2>1, <2>3 DEF Replace, StartsAgain
<1>3. CASE ReplaceWritesTemp
  <2>1. pos > 1
    BY <1>3, ActivateIs DEF ReplaceWritesTemp, Activating, TypeInv, TypeOK
  <2>2. QED
    BY <1>3, <2>1 DEF ReplaceWritesTemp, Activating, Starts, StartsAgain, Importing
<1>4. CASE ReplaceRenames
  <2>1. UNCHANGED <<mem["databases"], file["databases"]>>
    BY <1>4, <1>1 DEF ReplaceRenames, TypeInv, TypeOK
  <2>2. Starts' /\ at' = "activate"
    BY <1>4, <2>1 DEF ReplaceRenames, Proceed, Starts
  <2>3. QED BY <1>4, <2>1, <2>2 DEF ReplaceRenames, StartsAgain
<1>5. CASE ClearRemoves
  <2>1. pos > 1 /\ UNCHANGED <<mem["databases"], file["databases"]>>
    BY <1>5, <1>1, ActivateIs DEF ClearRemoves, Activating, TypeInv, TypeOK
  <2>2. QED BY <1>5, <2>1 DEF ClearRemoves, Activating, Starts, StartsAgain
<1>6. CASE ClearSettings
  <2>1. UNCHANGED <<mem["databases"], file["databases"]>>
    BY <1>6, <1>1 DEF ClearSettings, TypeInv, TypeOK
  <2>2. QED BY <1>6, <2>1 DEF ClearSettings, Starts, StartsAgain
<1>7. CASE ClearFlag
  <2>1. Starts' /\ at' = "activate"
    BY <1>7 DEF ClearFlag, Proceed, Starts
  <2>2. QED BY <1>7, <2>1 DEF ClearFlag, StartsAgain
<1>8. CASE PersistHealth
  <2>1. UNCHANGED <<mem["databases"], file["databases"]>> /\ pos > 1
    BY <1>8, <1>1, ActivateIs DEF PersistHealth, Activating, TypeInv, TypeOK
  <2>2. Starts' /\ at' \in {"activate", "lists"}
    BY <1>8, <2>1 DEF PersistHealth, Activating, Turn, Starts
  <2>3. QED BY <1>8, <2>1, <2>2 DEF PersistHealth, StartsAgain
<1>9. CASE AssignHealth
  <2>1. at = "lists" /\ pos \in 1..3 /\ HealthOrder[pos] # "databases"
    BY <1>9, HealthIs DEF AssignHealth, TypeInv, TypeOK, Places
  <2>2. UNCHANGED <<mem["databases"], file["databases"]>>
    BY <1>9, <1>1, <2>1 DEF AssignHealth, TypeInv, TypeOK
  <2>3. Starts' /\ at' \in {"lists", "done"}
    BY <1>9, <2>1, <2>2 DEF AssignHealth, Settle, Starts
  <2>4. QED BY <1>9, <2>2, <2>3 DEF AssignHealth, StartsAgain
<1>10. QED BY <1>2, <1>3, <1>4, <1>5, <1>6, <1>7, <1>8, <1>9

LEMMA RegistryEnds ==
  ASSUME TypeInv, RegistryInv, ActivateFails \/ Answer \/ Crash \/ Start
  PROVE  RegistryInv'
<1> USE DEF RegistryInv, Good
<1>1. Good(Nothing.says["databases"])
  BY GoodIs, HeldAre DEF Nothing
<1>2. CASE ActivateFails
  <2>1. (at' = "stage" /\ pos' = 1) \/ (at' = "done" /\ broken')
    BY <1>2 DEF ActivateFails, RollBack, Settle
  <2>2. QED BY <1>2, <2>1 DEF ActivateFails, StartsAgain, Starts, Importing
<1>3. CASE Answer
  BY <1>1, <1>3 DEF Answer, StartsAgain, Starts
<1>4. CASE Crash
  BY <1>1, <1>4 DEF Crash, StoresCrash, StartsAgain, Starts, Importing
<1>5. CASE Start
  <2>1. mem'["databases"] = Loaded(file["databases"]) /\ file["databases"] \in Maybe
    BY <1>5, HeldAre, NamesAre DEF Start, StoresStart, TypeInv, TypeOK
  <2>2. Good(mem'["databases"]) /\ Starts'
    BY <1>5, <2>1, GoodIs DEF Start, StoresStart, Starts
  <2>3. QED BY <1>5, <2>2 DEF Start, StoresStart, StartsAgain, TypeInv, Undoing
<1>6. QED BY <1>2, <1>3, <1>4, <1>5

LEMMA RegistryHolds == Spec => []RegistryInv
<1>1. ASSUME TypeInv, RegistryInv, [Next]_vars PROVE RegistryInv'
  <2>1. CASE UNCHANGED vars
    BY <1>1, <2>1
       DEF RegistryInv, StartsAgain, Starts, Importing, Good, vars, storeVars, importVars
  <2>2. CASE Import
    BY <1>1, <2>2, RegistryWritten, RegistryActivated, RegistryEnds DEF Import
  <2>3. CASE Handle \/ Crash \/ Start
    BY <1>1, <2>3, RegistryHandled, RegistryEnds
  <2>4. QED BY <1>1, <2>1, <2>2, <2>3 DEF Next
<1>2. QED BY <1>1, RegistryInitially, TypeHolds, PTL DEF Spec

\* However an import, an edit, the disk and a crash interleave: a registry the
\* start refuses is on the disk only while an import or its roll-back works on
\* it, or when that was cut off or failed (validate_and_apply, validate_runtime).
THEOREM StartsAgainCorrect == Spec => []StartsAgain
BY RegistryHolds, PTL DEF RegistryInv
-----------------------------------------------------------------------------
(* The files, the stores and what was said to be stored.  snap is what is  *)
(* being written: the import, then perhaps the export from before it; each *)
(* phase leaves behind it what snap says, in .migration-stage, in the      *)
(* files, in memory, but for the stores edited meanwhile.                  *)

Applies(n) == n = "compression" => snap.over   \* snapshot_files stages it
Staged(n)   == Applies(n) => stage[n] = snap.says[n]
OnDisk(n)   == n \in risky \/ (Applies(n) => file[n] = snap.says[n])
InMemory(n) == n \in risky \/ mem[n] = snap.says[n]
Exported(n) == n \in risky \/ before.says[n] = mem[n]

Calm == "compression" \notin risky

SettingsSet == Calm =>
  /\ overridden = snap.over
  /\ file["compression"] = IF snap.over THEN snap.says["compression"] ELSE NoFile
  /\ mem["compression"] = IF snap.over THEN snap.says["compression"] ELSE Default

\* Settings that are not overridden are the default; updates under way at the
\* time of an import count as made meanwhile.
SettingsInv ==
  /\ Importing /\ Calm => \A h \in Handlers : upd[h] = "idle"
  /\ up /\ Calm =>
       overridden \/ mem["compression"] = Default \/ \E h \in Handlers : upd[h] = "flag"
  /\ Calm /\ (at \notin {"idle", "export"} \/ (at = "export" /\ pos > 2)) /\ answer # "refused" =>
       before.over \/ before.says["compression"] = Default

\* From the export to the activation memory is what was exported.
Untouched ==
  at = "copy" \/ (undo # "all" /\ (at \in Writing \/ (at = "done" /\ answer = "failed")))

ExportInv ==
  /\ at = "export" =>
       /\ \A i \in 1..11 : i < pos /\ ExportOrder[i] \in Held => Exported(ExportOrder[i])
       /\ pos > 2 /\ Calm => before.over = overridden
  /\ Untouched =>
       /\ \A n \in Held : Exported(n)
       /\ Calm => before.over = overridden

Activation == at \in {"activate", "rename", "settings", "flag", "lists"}

Past(k) == at = "lists" \/ pos > k  \* in the order of the activation

DiskInv ==
  /\ at = "stage" => \A i \in 1..9 : i < pos => Staged(Order[i])
  /\ at = "install" =>
       \A i \in 1..9 : IF i < pos THEN OnDisk(Order[i]) ELSE Staged(Order[i])
  /\ at \in {"unlist", "months"} => \A n \in Names : OnDisk(n)
  /\ Activation \/ (at = "done" /\ answer # "refused") =>
       broken \/ (hist = snap.says["history"] /\ \A n \in Names : OnDisk(n))

MemoryInv ==
  /\ Activation /\ ~broken =>
       /\ Past(1) => InMemory("databases")
       /\ Past(2) => InMemory("state")
       /\ Past(3) => InMemory("users")
       /\ Past(4) => InMemory("profiles")
       /\ Past(5) => SettingsSet
  /\ at = "lists" /\ ~broken =>
       (pos > 1 => InMemory("services")) /\ (pos > 2 => InMemory("incidents"))
  /\ at = "rename" => snap.over /\ (Calm => temp = snap.says["compression"])
  /\ at \in {"settings", "flag"} => ~snap.over /\ (Calm => file["compression"] = NoFile)
  /\ at = "flag" /\ Calm => mem["compression"] = Default
  /\ at = "done" /\ ~broken /\ (answer = "ok" \/ undo = "all") =>
       (\A n \in Held \ {"compression"} : InMemory(n)) /\ SettingsSet

\* What was said to be stored is in memory and on the disk, or in the export.
KeptAs(n) ==
  /\ at \in {"idle", "export", "copy"} \/ answer = "refused" =>
       mem[n] = acked[n] /\ Loaded(file[n]) = acked[n]
  /\ at \notin {"idle", "export"} /\ answer # "refused" => before.says[n] = acked[n]

AckInv == ~torn => \A n \in FileFirst : n \in risky \/ KeptAs(n)

StoresInv == SettingsInv /\ ExportInv /\ DiskInv /\ MemoryInv /\ AckInv
\* What an edit leaves of a store: nothing is changed unseen under an import.
LEMMA EditsSeen ==
  ASSUME TypeInv, Handle
  PROVE  /\ UNCHANGED importVars /\ risky \subseteq risky' /\ up' = up
         /\ Importing =>
              /\ \A n \in Names : n \in risky' \/ file'[n] = file[n]
              /\ \A n \in Held : n \in risky' \/ mem'[n] = mem[n]
              /\ \A n \in FileFirst : n \in risky' \/ acked'[n] = acked[n]
              /\ Calm' => UNCHANGED <<overridden, temp, upd>>
         /\ ~Importing =>
              \A n \in FileFirst :
                \/ UNCHANGED <<mem[n], file[n], acked[n]>>
                \/ mem'[n] \in Edits /\ file'[n] = mem'[n] /\ acked'[n] = mem'[n]
<1> USE DEF TypeInv
<1>1. UNCHANGED importVars /\ Edit(Importing)
  BY DEF Handle
<1>2. /\ Held \subseteq Names /\ FileFirst \subseteq Held
      /\ "compression" \in Held /\ "databases" \in Held /\ "state" \in Held
      /\ "compression" \notin FileFirst /\ "databases" \notin FileFirst /\ "state" \notin FileFirst
      /\ "users" \in FileFirst /\ "profiles" \in FileFirst
  BY HeldAre
<1>3. ASSUME NEW c \in Edits, NEW n \in Held, Stored(n, c)
      PROVE  /\ \A m \in Held \ {n} : mem'[m] = mem[m]
             /\ \A m \in Names \ {n} : file'[m] = file[m]
             /\ \A m \in FileFirst \ {n} : acked'[m] = acked[m]
             /\ mem'[n] = c /\ file'[n] = c
             /\ n \in FileFirst => acked'[n] = c
  BY <1>2, <1>3 DEF Stored, TypeOK
<1>4. ASSUME NEW c \in Edits, NEW n \in Held, Unwritten(n, c)
      PROVE  (\A m \in Held \ {n} : mem'[m] = mem[m]) /\ UNCHANGED <<file, acked>>
  BY <1>2, <1>4 DEF Unwritten, TypeOK
<1>5. ASSUME NEW c \in Edits, EditRegistry(c, Importing) \/ SetEnabled(c, Importing)
      PROVE  /\ Importing => "state" \in risky' /\ SetEnabled(c, Importing)
             /\ risky \subseteq risky' /\ UNCHANGED <<overridden, temp, upd, up>>
             /\ \A m \in FileFirst : UNCHANGED <<mem[m], file[m], acked[m]>>
             /\ SetEnabled(c, Importing) =>
                  /\ \A m \in Held \ {"state"} : mem'[m] = mem[m]
                  /\ \A m \in Names \ {"state"} : file'[m] = file[m]
  BY <1>2, <1>3, <1>4, <1>5 DEF EditRegistry, SetEnabled, Touched, LocalVars
<1>6. ASSUME NEW c \in Edits, NEW n \in {"users", "profiles"},
             Stored(n, c), Touched(n, Importing), UNCHANGED LocalVars
      PROVE  /\ risky \subseteq risky' /\ (Importing => n \in risky')
             /\ UNCHANGED <<overridden, temp, upd, up>>
             /\ \A m \in Held \ {n} : mem'[m] = mem[m]
             /\ \A m \in Names \ {n} : file'[m] = file[m]
             /\ \A m \in FileFirst \ {n} : acked'[m] = acked[m]
             /\ mem'[n] = c /\ file'[n] = c /\ acked'[n] = c
  BY <1>2, <1>3, <1>6 DEF Touched, LocalVars
<1>7. ASSUME NEW h \in Handlers,
             (\E c \in Edits : UpdateBegins(h, c, Importing)) \/ Update(h, Importing)
      PROVE  /\ risky \subseteq risky' /\ (Importing => "compression" \in risky')
             /\ UNCHANGED <<up, acked>>
             /\ \A m \in Held \ {"compression"} : mem'[m] = mem[m]
             /\ \A m \in Names \ {"compression"} : file'[m] = file[m]
  BY <1>2, <1>7
     DEF UpdateBegins, Update, UpdateRenames, UpdateSettings, UpdateFlag, Touched, TypeOK
<1>8. CASE \E c \in Edits : EditRegistry(c, Importing) \/ SetEnabled(c, Importing)
  BY <1>1, <1>2, <1>5, <1>8
<1>9. CASE \E c \in Edits : EditUsers(c, Importing) \/ EditProfiles(c, Importing)
  <2> PICK c \in Edits, n \in {"users", "profiles"} :
             Stored(n, c) /\ Touched(n, Importing) /\ UNCHANGED LocalVars
    BY <1>9 DEF EditUsers, EditProfiles
  <2>1. QED BY <1>1, <1>2, <1>6
<1>10. CASE \E h \in Handlers :
              (\E c \in Edits : UpdateBegins(h, c, Importing)) \/ Update(h, Importing)
  BY <1>1, <1>2, <1>7, <1>10 DEF Calm
<1>11. QED BY <1>1, <1>8, <1>9, <1>10 DEF Edit
LEMMA StoresInitially == Init => StoresInv
<1> SUFFICES ASSUME Init PROVE StoresInv
  OBVIOUS
<1>1. at = "idle" /\ answer = "none" /\ mem["compression"] = Default /\ undo = "no"
  BY HeldAre DEF Init, StoresInit
<1>2. \A n \in FileFirst : mem[n] = Default /\ acked[n] = Default /\ file[n] = NoFile
  BY HeldAre DEF Init, StoresInit
<1>3. SettingsInv /\ ExportInv
  BY <1>1 DEF SettingsInv, ExportInv, Untouched, Importing, Writing
<1>4. DiskInv /\ MemoryInv
  BY <1>1 DEF DiskInv, MemoryInv, Activation
<1>5. AckInv
  BY <1>1, <1>2 DEF AckInv, KeptAs, Loaded
<1>6. QED BY <1>3, <1>4, <1>5 DEF StoresInv

LEMMA StoresHandled ==
  ASSUME TypeInv, StoresInv, Handle
  PROVE  StoresInv'
<1> USE DEF StoresInv
<1>1. /\ UNCHANGED importVars /\ risky \subseteq risky' /\ up' = up
      /\ Importing =>
           /\ \A n \in Names : n \in risky' \/ file'[n] = file[n]
           /\ \A n \in Held : n \in risky' \/ mem'[n] = mem[n]
           /\ \A n \in FileFirst : n \in risky' \/ acked'[n] = acked[n]
           /\ Calm' => UNCHANGED <<overridden, temp, upd>>
      /\ ~Importing =>
           \A n \in FileFirst :
             \/ UNCHANGED <<mem[n], file[n], acked[n]>>
             \/ mem'[n] \in Edits /\ file'[n] = mem'[n] /\ acked'[n] = mem'[n]
  BY EditsSeen
<1>2. /\ UNCHANGED <<at, pos, snap, before, undo, answer, broken, torn, stage, hist>>
      /\ "compression" \in Held /\ "compression" \in Names /\ FileFirst \subseteq Held
      /\ Held \subseteq Names /\ (Calm' => Calm)
      /\ \A i \in 1..9 : Order[i] \in Names
      /\ {"databases", "state", "users", "profiles", "services", "incidents"} \subseteq Held
  BY <1>1, HeldAre, NamesAre, OrderIs DEF importVars, Calm
<1>3. SettingsInv'
  <2>1. CASE Importing
    BY <1>1, <1>2, <2>1 DEF SettingsInv, Importing, Calm
  <2>2. CASE ~Importing
    <3>1. ASSUME up, Calm'
          PROVE  (overridden \/ mem["compression"] = Default \/ \E h \in Handlers : upd[h] = "flag")'
      <4>1. overridden \/ mem["compression"] = Default \/ \E h \in Handlers : upd[h] = "flag"
        BY <3>1, <1>2 DEF SettingsInv
      <4>2. CASE UNCHANGED <<overridden, upd>> /\ mem'["compression"] = mem["compression"]
        BY <4>1, <4>2
      <4>3. ASSUME NEW c \in Edits, NEW n \in {"databases", "state", "users", "profiles"},
                   Stored(n, c) \/ Unwritten(n, c), UNCHANGED <<overridden, upd>>
            PROVE  UNCHANGED <<overridden, upd>> /\ mem'["compression"] = mem["compression"]
        BY <4>3, <1>2 DEF Stored, Unwritten, TypeInv, TypeOK
      <4>4. ASSUME NEW h \in Handlers, NEW c \in Edits, UpdateBegins(h, c, Importing)
            PROVE  /\ UNCHANGED <<overridden, mem>>
                   /\ \A g \in Handlers : upd[g] = "flag" => upd'[g] = "flag"
        BY <4>4 DEF UpdateBegins, TypeInv, TypeOK
      <4>5. ASSUME NEW h \in Handlers, UpdateRenames(h, Importing)
            PROVE  /\ UNCHANGED <<overridden, mem>>
                   /\ \A g \in Handlers : upd[g] = "flag" => upd'[g] = "flag"
        BY <4>5 DEF UpdateRenames, UpdateEnds, TypeInv, TypeOK
      <4>6. ASSUME NEW h \in Handlers, UpdateSettings(h, Importing)
            PROVE  upd'[h] = "flag"
        BY <4>6 DEF UpdateSettings, TypeInv, TypeOK
      <4>7. ASSUME NEW h \in Handlers, UpdateFlag(h, Importing)
            PROVE  overridden'
        BY <4>7 DEF UpdateFlag
      <4>8. Edit(Importing)
        BY DEF Handle
      <4>9. CASE \E c \in Edits : \/ EditRegistry(c, Importing) \/ SetEnabled(c, Importing)
                                  \/ EditUsers(c, Importing) \/ EditProfiles(c, Importing)
        BY <4>1, <4>3, <4>9 DEF EditRegistry, SetEnabled, EditUsers, EditProfiles, LocalVars
      <4>10. CASE \E h \in Handlers :
                    Update(h, Importing) \/ \E c \in Edits : UpdateBegins(h, c, Importing)
        BY <4>1, <4>4, <4>5, <4>6, <4>7, <4>10 DEF Update
      <4>11. QED BY <4>8, <4>9, <4>10 DEF Edit
    <3>2. QED BY <1>1, <1>2, <2>2, <3>1 DEF SettingsInv, Importing
  <2>3. QED BY <2>1, <2>2
<1>4. ExportInv'
  <2>1. CASE at = "idle"
    BY <1>2, <2>1 DEF ExportInv, Untouched, TypeInv, Undoing, Writing
  <2>2. CASE Importing
    BY <1>1, <1>2, <2>2 DEF ExportInv, Untouched, Exported, Calm
  <2>3. QED BY <2>1, <2>2 DEF Importing
<1>5. DiskInv'
  <2>1. CASE at = "idle"
    BY <1>2, <2>1 DEF DiskInv, Activation
  <2>2. CASE Importing
    BY <1>1, <1>2, <2>2 DEF DiskInv, Activation, OnDisk, Staged, Applies
  <2>3. QED BY <2>1, <2>2 DEF Importing
<1>6. MemoryInv'
  <2>1. CASE at = "idle"
    BY <1>2, <2>1 DEF MemoryInv, Activation
  <2>2. CASE Importing
    <3>1. \A n \in Held : InMemory(n) => InMemory(n)'
      BY <1>1, <1>2, <2>2 DEF InMemory
    <3>2. Calm' => Calm /\ UNCHANGED <<overridden, temp, mem["compression"], file["compression"]>>
      BY <1>1, <1>2, <2>2 DEF Calm
    <3>3. SettingsSet => SettingsSet'
      BY <1>2, <3>2 DEF SettingsSet
    <3>4. QED BY <1>2, <3>1, <3>2, <3>3 DEF MemoryInv, Activation, Past
  <2>3. QED BY <2>1, <2>2 DEF Importing
<1>7. AckInv'
  <2>1. CASE Importing
    BY <1>1, <1>2, <2>1 DEF AckInv, KeptAs
  <2>2. CASE ~Importing
    <3>1. \A n \in FileFirst : n \in risky \/ KeptAs(n) => n \in risky' \/ KeptAs(n)'
      <4> TAKE n \in FileFirst
      <4>1. CASE UNCHANGED <<mem[n], file[n], acked[n]>>
        BY <1>1, <1>2, <4>1 DEF KeptAs
      <4>2. CASE mem'[n] \in Edits /\ file'[n] = mem'[n] /\ acked'[n] = mem'[n]
        BY <1>2, <2>2, <4>2, PanelAssumption DEF KeptAs, Loaded, Importing, TypeInv, Undoing
      <4>3. QED BY <1>1, <2>2, <4>1, <4>2
    <3>2. QED BY <1>2, <3>1 DEF AckInv
  <2>3. QED BY <2>1, <2>2
<1>8. QED BY <1>3, <1>4, <1>5, <1>6, <1>7
LEMMA StoresExported ==
  ASSUME TypeInv, StoresInv,
         (\E c \in Imports, over \in BOOLEAN : Begin(c, over)) \/ Export \/ Copy \/ Refused
  PROVE  StoresInv'
<1> USE DEF StoresInv, TypeInv
<1>1. CASE \E c \in Imports, over \in BOOLEAN : Begin(c, over)
  <2>1. /\ at = "idle" /\ answer = "none" /\ at' = "export" /\ pos' = 1
        /\ risky \subseteq risky' /\ (Calm' => Calm /\ \A h \in Handlers : upd[h] = "idle")
        /\ UNCHANGED <<mem, overridden, file, temp, upd, acked, up, before, undo, answer, torn>>
    BY <1>1 DEF Begin, Calm, Undoing
  <2>2. SettingsInv'
    BY <2>1 DEF SettingsInv
  <2>3. ExportInv'
    BY <2>1 DEF ExportInv, Untouched, Writing
  <2>4. DiskInv' /\ MemoryInv'
    BY <2>1 DEF DiskInv, MemoryInv, Activation
  <2>5. AckInv'
    BY <2>1 DEF AckInv, KeptAs
  <2>6. QED BY <2>2, <2>3, <2>4, <2>5
<1>2. CASE Export
  <2> DEFINE m == ExportOrder[pos]
  <2>1. /\ at = "export" /\ pos \in 1..11 /\ undo = "no" /\ answer = "none"
        /\ UNCHANGED <<mem, overridden, file, temp, upd, acked, risky, up>>
        /\ UNCHANGED <<snap, undo, answer, broken, torn, stage, hist>>
    BY <1>2 DEF Export, TypeOK, Undoing, storeVars
  <2>2. (pos < 11 /\ at' = "export" /\ pos' = pos + 1) \/ (pos = 11 /\ at' = "copy" /\ pos' = 1)
    BY <1>2, <2>1, ExportIs DEF Export, Turn
  <2>3. /\ m \in Held => before' = [before EXCEPT !.says[m] = mem[m]]
        /\ m = "flag" => before' = [before EXCEPT !.over = overridden]
        /\ m \notin Held => \A n \in Held : before'.says[n] = before.says[n]
        /\ m # "flag" => before'.over = before.over
    <3>1. before \in Snapshots /\ Held \subseteq All /\ "audit" \notin Held /\ "history" \notin Held
          /\ "flag" \notin Held
      BY HeldAre DEF TypeOK
    <3>2. m \in {"flag", "history", "audit"} \/ m \in Held
      BY <2>1, ExportIs, HeldAre
    <3>3. CASE m \in Held
      BY <1>2, <3>1, <3>3 DEF Export, Snapshots
    <3>4. CASE m = "flag"
      BY <1>2, <3>1, <3>4 DEF Export, Snapshots
    <3>5. CASE m = "history"
      <4>1. before' = [before EXCEPT !.says["history"] = Loaded(hist)]
        BY <1>2, <3>5 DEF Export
      <4>2. QED BY <3>1, <3>5, <4>1 DEF Snapshots
    <3>6. CASE m = "audit"
      <4>1. before' = [before EXCEPT !.says["audit"] = Loaded(file["audit"])]
        BY <1>2, <3>6 DEF Export
      <4>2. QED BY <3>1, <3>6, <4>1 DEF Snapshots
    <3>7. QED BY <3>2, <3>3, <3>4, <3>5, <3>6
  <2>4. \A n \in Held : IF n = m THEN Exported(n)' ELSE Exported(n) => Exported(n)'
    <3>1. before \in Snapshots /\ Held \subseteq All
      BY HeldAre DEF TypeOK
    <3>2. QED BY <2>1, <2>3, <3>1 DEF Exported, Snapshots
  <2>5. \A i \in 1..11 : i <= pos /\ ExportOrder[i] \in Held => Exported(ExportOrder[i])'
    BY <2>1, <2>4 DEF ExportInv
  <2>6. pos >= 2 /\ Calm => before'.over = overridden
    <3>1. before \in Snapshots
      BY DEF TypeOK
    <3>2. CASE pos = 2
      BY <2>3, <3>1, <3>2, ExportIs DEF Snapshots
    <3>3. CASE pos > 2
      <4>1. m # "flag"
        BY <2>1, <3>3, ExportIs
      <4>2. QED BY <2>1, <2>3, <3>3, <4>1 DEF ExportInv
    <3>4. QED BY <2>1, <3>2, <3>3
  <2>7. at' = "copy" => \A n \in Held : Exported(n)'
    BY <2>2, <2>5, ExportIs, HeldAre
  <2>8. ExportInv'
    BY <2>1, <2>2, <2>5, <2>6, <2>7 DEF ExportInv, Untouched, Writing, Calm
  <2>9. SettingsInv'
    <3>1. ASSUME Calm, pos >= 2
          PROVE  before'.over \/ before'.says["compression"] = Default
      <4>1. overridden \/ mem["compression"] = Default
        BY <2>1, <3>1 DEF SettingsInv, Importing, Undoing
      <4>2. Exported("compression")'
        BY <2>1, <2>5, <3>1, ExportIs, HeldAre
      <4>3. QED BY <2>1, <2>6, <3>1, <4>1, <4>2 DEF Exported, Calm
    <3>2. QED BY <2>1, <2>2, <3>1 DEF SettingsInv, Importing, Calm
  <2>10. DiskInv' /\ MemoryInv'
    BY <2>1, <2>2 DEF DiskInv, MemoryInv, Activation
  <2>11. AckInv'
    <3>1. ASSUME ~torn, NEW n \in FileFirst, n \notin risky
          PROVE  KeptAs(n)'
      <4>1. mem[n] = acked[n] /\ Loaded(file[n]) = acked[n]
        BY <2>1, <3>1 DEF AckInv, KeptAs
      <4>2. at' = "copy" => before'.says[n] = acked[n]
        BY <2>1, <2>7, <3>1, <4>1, HeldAre DEF Exported
      <4>3. QED BY <2>1, <2>2, <4>1, <4>2 DEF KeptAs
    <3>2. QED BY <2>1, <3>1 DEF AckInv
  <2>12. QED BY <2>8, <2>9, <2>10, <2>11
<1>3. CASE Copy
  <2>1. /\ at = "copy" /\ at' = "stage" /\ pos' = 1 /\ answer = "none" /\ undo = "no"
        /\ UNCHANGED <<mem, overridden, file, temp, upd, acked, risky, up>>
        /\ UNCHANGED <<snap, before, undo, answer, broken, torn, stage, hist>>
    BY <1>3 DEF Copy, Undoing, storeVars
  <2>2. SettingsInv'
    BY <2>1 DEF SettingsInv, Importing, Calm
  <2>3. ExportInv'
    BY <2>1 DEF ExportInv, Untouched, Exported, Calm
  <2>4. DiskInv' /\ MemoryInv'
    BY <2>1 DEF DiskInv, MemoryInv, Activation
  <2>5. AckInv'
    BY <2>1 DEF AckInv, KeptAs
  <2>6. QED BY <2>2, <2>3, <2>4, <2>5
<1>4. CASE Refused
  <2>1. /\ at \in {"export", "copy"} /\ at' = "done" /\ pos' = 1 /\ answer' = "refused"
        /\ undo = "no" /\ answer = "none"
        /\ UNCHANGED <<mem, overridden, file, temp, upd, acked, risky, up>>
        /\ UNCHANGED <<snap, before, undo, broken, torn, stage, hist>>
    BY <1>4 DEF Refused, Undoing
  <2>2. SettingsInv'
    BY <2>1 DEF SettingsInv, Importing, Calm
  <2>3. ExportInv'
    BY <2>1 DEF ExportInv, Untouched, Writing
  <2>4. DiskInv' /\ MemoryInv'
    BY <2>1 DEF DiskInv, MemoryInv, Activation
  <2>5. AckInv'
    BY <2>1 DEF AckInv, KeptAs
  <2>6. QED BY <2>2, <2>3, <2>4, <2>5
<1>5. QED BY <1>1, <1>2, <1>3, <1>4
\* What the writing phases have in common: memory and what was said to be
\* stored are left alone.
LEMMA WritingKeeps ==
  ASSUME TypeInv, StoresInv, at \in Writing,
         UNCHANGED <<mem, overridden, temp, upd, acked, risky, up, before, torn>>,
         at' \in Writing \/ at' = "activate" \/ (at' = "done" /\ answer' = "failed" /\ undo' = "files"),
         answer' # "refused",
         undo' = undo \/ (undo = "no" /\ undo' = "files"),
         at' = "activate" => pos' = 1
  PROVE  SettingsInv' /\ ExportInv' /\ AckInv' /\ MemoryInv'
<1> USE DEF StoresInv
<1>1. answer = "none"
  BY DEF TypeInv, TypeOK, Undoing, Writing
<1>2. SettingsInv'
  BY <1>1 DEF SettingsInv, Importing, Calm, Writing
<1>3. ExportInv'
  BY <1>1 DEF ExportInv, Untouched, Exported, Calm, Writing, TypeInv, TypeOK
<1>4. AckInv'
  BY <1>1 DEF AckInv, KeptAs, Writing
<1>5. MemoryInv'
  BY <1>1 DEF MemoryInv, Activation, Past, Writing
<1>6. QED BY <1>2, <1>3, <1>4, <1>5

LEMMA StoresWritten ==
  ASSUME TypeInv, StoresInv, Stage \/ Install \/ Unlist \/ Months \/ WriteFails
  PROVE  StoresInv'
<1> USE DEF StoresInv
<1>1. \A n \in Names : \E i \in 1..9 : Order[i] = n
  BY OrderIs DEF Names
<1>2. /\ \A i \in 1..9 : Order[i] \in Names
      /\ \A i, j \in 1..9 : Order[i] = Order[j] => i = j
  BY OrderIs, NamesAre
<1>3. CASE Stage
  <2>1. /\ at = "stage" /\ pos \in 1..9 /\ answer = "none"
        /\ UNCHANGED <<mem, overridden, temp, upd, acked, risky, up, before, torn>>
        /\ UNCHANGED <<file, snap, undo, answer, broken, hist>>
    BY <1>3 DEF Stage, TypeInv, TypeOK, Places, Undoing, storeVars
  <2>2. (pos < 9 /\ at' = "stage" /\ pos' = pos + 1) \/ (pos = 9 /\ at' = "install" /\ pos' = 1)
    BY <1>3, <2>1, OrderIs DEF Stage, Turn
  <2>3. SettingsInv' /\ ExportInv' /\ AckInv' /\ MemoryInv'
    BY <2>1, <2>2, WritingKeeps DEF Writing
  <2>4. \A i \in 1..9 : i <= pos => Staged(Order[i])'
    <3> TAKE i \in 1..9
    <3> HAVE i <= pos
    <3>1. CASE i = pos
      BY <1>2, <1>3, <2>1, <3>1 DEF Stage, Staged, Applies, TypeInv, TypeOK
    <3>2. CASE i < pos
      <4>1. Order[i] # Order[pos]
        BY <1>2, <2>1, <3>2
      <4>2. stage'[Order[i]] = stage[Order[i]]
        BY <1>2, <1>3, <2>1, <4>1 DEF Stage, TypeInv, TypeOK
      <4>3. QED BY <2>1, <3>2, <4>2 DEF DiskInv, Staged, Applies
    <3>3. QED BY <2>1, <3>1, <3>2
  <2>5. DiskInv'
    BY <2>1, <2>2, <2>4 DEF DiskInv, Activation
  <2>6. QED BY <2>3, <2>5
<1>4. CASE Install
  <2>1. /\ at = "install" /\ pos \in 1..9 /\ answer = "none"
        /\ UNCHANGED <<mem, overridden, temp, upd, acked, risky, up, before, torn>>
        /\ UNCHANGED <<snap, undo, answer, broken, hist>>
    BY <1>4 DEF Install, TypeInv, TypeOK, Places, Undoing
  <2>2. (pos < 9 /\ at' = "install" /\ pos' = pos + 1) \/ (pos = 9 /\ at' = "unlist" /\ pos' = 1)
    BY <1>4, <2>1, OrderIs DEF Install, Turn
  <2>3. SettingsInv' /\ ExportInv' /\ AckInv' /\ MemoryInv'
    BY <2>1, <2>2, WritingKeeps DEF Writing
  <2>4. \A i \in 1..9 : IF i <= pos THEN OnDisk(Order[i])' ELSE Staged(Order[i])'
    <3> TAKE i \in 1..9
    <3>1. CASE i = pos
      <4>1. file'[Order[i]] = stage[Order[i]] /\ Staged(Order[i])
        BY <1>2, <1>4, <2>1, <3>1 DEF Install, DiskInv, TypeInv, TypeOK
      <4>2. QED BY <2>1, <3>1, <4>1 DEF Staged, OnDisk, Applies
    <3>2. CASE i # pos
      <4>1. Order[i] # Order[pos]
        BY <1>2, <2>1, <3>2
      <4>2. stage'[Order[i]] = stage[Order[i]] /\ file'[Order[i]] = file[Order[i]]
        BY <1>2, <1>4, <2>1, <4>1 DEF Install, TypeInv, TypeOK
      <4>3. IF i < pos THEN OnDisk(Order[i]) ELSE Staged(Order[i])
        BY <2>1 DEF DiskInv
      <4>4. QED BY <2>1, <3>2, <4>2, <4>3 DEF Staged, OnDisk, Applies
    <3>3. QED BY <3>1, <3>2
  <2>5. at' = "unlist" => \A n \in Names : OnDisk(n)'
    BY <1>1, <2>1, <2>2, <2>4
  <2>6. DiskInv'
    BY <2>1, <2>2, <2>4, <2>5 DEF DiskInv, Activation
  <2>7. QED BY <2>3, <2>6
<1>5. CASE Unlist
  <2>1. /\ at = "unlist" /\ at' = "months" /\ answer = "none"
        /\ UNCHANGED <<mem, overridden, temp, upd, acked, risky, up, before, torn>>
        /\ UNCHANGED <<file, snap, undo, answer, broken>>
    BY <1>5 DEF Unlist, TypeInv, Undoing, storeVars
  <2>2. SettingsInv' /\ ExportInv' /\ AckInv' /\ MemoryInv'
    BY <2>1, WritingKeeps DEF Writing
  <2>3. DiskInv'
    BY <2>1 DEF DiskInv, Activation, OnDisk, Applies
  <2>4. QED BY <2>2, <2>3
<1>6. CASE Months
  <2>1. /\ at = "months" /\ answer = "none" /\ hist' = snap.says["history"]
        /\ UNCHANGED <<mem, overridden, temp, upd, acked, risky, up, before, torn>>
        /\ UNCHANGED <<file, snap, undo, broken>>
    BY <1>6 DEF Months, TypeInv, Undoing, storeVars
  <2>2. \/ at' = "activate" /\ pos' = 1 /\ answer' = answer
        \/ at' = "done" /\ answer' = "failed" /\ undo = "files"
    BY <1>6 DEF Months, Settle, Activates
  <2>3. SettingsInv' /\ ExportInv' /\ AckInv' /\ MemoryInv'
    BY <2>1, <2>2, WritingKeeps DEF Writing
  <2>4. DiskInv'
    BY <2>1, <2>2 DEF DiskInv, Activation, OnDisk, Applies
  <2>5. QED BY <2>3, <2>4
<1>7. CASE WriteFails
  <2>1. /\ at \in Writing /\ answer = "none"
        /\ UNCHANGED <<mem, overridden, temp, upd, acked, risky, up, before, torn>>
        /\ UNCHANGED <<file, stage, hist>>
    BY <1>7 DEF WriteFails, TypeInv, Undoing, Writing
  <2>2. \/ at' = "stage" /\ pos' = 1 /\ undo = "no" /\ undo' = "files" /\ answer' = answer
        \/ at' = "done" /\ answer' = "failed" /\ undo = "files" /\ undo' = undo /\ broken'
        \/ at' = "activate" /\ pos' = 1 /\ undo' = undo /\ broken' /\ answer' = answer
    BY <1>7 DEF WriteFails, RollBack, Settle, TypeInv, TypeOK
  <2>3. SettingsInv' /\ ExportInv' /\ AckInv' /\ MemoryInv'
    BY <2>1, <2>2, WritingKeeps DEF Writing
  <2>4. DiskInv'
    BY <2>2 DEF DiskInv, Activation
  <2>5. QED BY <2>3, <2>4
<1>8. QED BY <1>3, <1>4, <1>5, <1>6, <1>7
\* What the steps of the activation have in common.
LEMMA ActivationKeeps ==
  ASSUME TypeInv, StoresInv, Activation,
         UNCHANGED <<upd, acked, risky, up, snap, before, undo, broken, torn, hist>>,
         \/ at' \in {"activate", "rename", "settings", "flag", "lists"} /\ answer' = answer
         \/ at' = "done" /\ answer' = IF undo = "no" THEN "ok" ELSE "failed",
         Calm => overridden' \/ mem'["compression"] = Default
                   \/ UNCHANGED <<overridden, mem["compression"]>>
  PROVE  SettingsInv' /\ ExportInv' /\ AckInv'
<1> USE DEF StoresInv
<1>1. answer = "none" /\ undo # "files" /\ answer' # "refused"
  BY DEF TypeInv, Undoing, Activation, Writing
<1>2. SettingsInv'
  BY <1>1 DEF SettingsInv, Importing, Calm, Activation
<1>3. ExportInv'
  BY <1>1 DEF ExportInv, Untouched, Activation, Writing, TypeInv, TypeOK
<1>4. AckInv'
  BY <1>1 DEF AckInv, KeptAs, Activation
<1>5. QED BY <1>2, <1>3, <1>4

LEMMA StoresActivated ==
  ASSUME TypeInv, StoresInv,
         \/ \E n \in Names : Replace(n)
         \/ ReplaceWritesTemp \/ ReplaceRenames
         \/ ClearRemoves \/ ClearSettings \/ ClearFlag \/ PersistHealth \/ AssignHealth
  PROVE  StoresInv'
<1> USE DEF StoresInv
<1>1. /\ Held \subseteq Names /\ "compression" \in Held
      /\ {"databases", "state", "users", "profiles"} \subseteq Held
      /\ Health \subseteq Held /\ "compression" \notin Health
      /\ {"databases", "state", "users", "profiles"} \intersect Health = {}
      /\ Held = {"databases", "state", "users", "profiles", "compression"} \union Health
  BY HeldAre DEF Health
<1>2. ASSUME NEW n \in Names, Replace(n) PROVE StoresInv'
  <2>1. /\ at = "activate" /\ pos \in 1..8 /\ ActivateOrder[pos] = n
        /\ n \in {"databases", "state", "users", "profiles"} /\ pos < 5
        /\ UNCHANGED <<overridden, temp, upd, acked, risky, up>>
        /\ UNCHANGED <<snap, before, undo, broken, torn, stage, hist>>
    BY <1>2, ActivateIs DEF Replace, Activating, TypeInv, TypeOK, Places
  <2>2. at' = "activate" /\ pos' = pos + 1 /\ answer' = answer
    BY <1>2 DEF Replace, Proceed
  <2>3. /\ mem'[n] = snap.says[n] /\ file'[n] = snap.says[n]
        /\ \A m \in Held \ {n} : mem'[m] = mem[m]
        /\ \A m \in Names \ {n} : file'[m] = file[m]
    BY <1>1, <1>2, <2>1 DEF Replace, TypeInv, TypeOK
  <2>4. SettingsInv' /\ ExportInv' /\ AckInv'
    BY <1>1, <2>1, <2>2, <2>3, ActivationKeeps DEF Activation
  <2>5. DiskInv'
    BY <2>1, <2>2, <2>3 DEF DiskInv, Activation, OnDisk, Applies
  <2>6. MemoryInv'
    <3>1. InMemory(n)' /\ \A m \in Held : InMemory(m) => InMemory(m)'
      BY <2>1, <2>3 DEF InMemory
    <3>2. \/ (pos = 1 /\ n = "databases") \/ (pos = 2 /\ n = "state")
          \/ (pos = 3 /\ n = "users") \/ (pos = 4 /\ n = "profiles")
      <4>1. pos = 1 \/ pos = 2 \/ pos = 3 \/ pos = 4
        BY <2>1
      <4>2. QED BY <2>1, <4>1, ActivateIs
    <3>3. QED BY <1>1, <2>1, <2>2, <3>1, <3>2 DEF MemoryInv, Activation, Past
  <2>7. QED BY <2>4, <2>5, <2>6
<1>3. ASSUME Activation, pos = 5
      PROVE  ~broken => /\ InMemory("databases") /\ InMemory("state") /\ InMemory("users")
                        /\ InMemory("profiles")
  BY <1>3 DEF MemoryInv, Past
<1>4. CASE ReplaceWritesTemp
  <2>1. /\ at = "activate" /\ pos = 5 /\ at' = "rename" /\ snap.over /\ temp' = snap.says["compression"]
        /\ UNCHANGED <<mem, overridden, file, upd, acked, risky, up>>
        /\ UNCHANGED <<pos, snap, before, undo, answer, broken, torn, stage, hist>>
    BY <1>4, ActivateIs DEF ReplaceWritesTemp, Activating, TypeInv, TypeOK, Places
  <2>2. SettingsInv' /\ ExportInv' /\ AckInv'
    BY <2>1, ActivationKeeps DEF Activation
  <2>3. DiskInv'
    BY <2>1 DEF DiskInv, Activation, OnDisk, Applies
  <2>4. MemoryInv'
    BY <2>1, <1>3 DEF MemoryInv, Activation, Past, InMemory
  <2>5. QED BY <2>2, <2>3, <2>4
<1>5. ASSUME at \in {"rename", "flag"}, Proceed
      PROVE  at' = "activate" /\ pos' = 6 /\ pos = 5 /\ answer' = answer
  <2>1. pos = 5
    BY <1>5 DEF TypeInv, Places
  <2>2. QED BY <1>5, <2>1 DEF Proceed
<1>6. CASE ReplaceRenames
  <2>1. /\ at = "rename" /\ pos = 5 /\ at' = "activate" /\ pos' = 6 /\ answer' = answer
        /\ UNCHANGED <<upd, acked, risky, up>>
        /\ UNCHANGED <<snap, before, undo, broken, torn, stage, hist>>
        /\ overridden'
    BY <1>5, <1>6 DEF ReplaceRenames
  <2>2. /\ mem'["compression"] = snap.says["compression"] /\ file'["compression"] = temp
        /\ \A m \in Held \ {"compression"} : mem'[m] = mem[m]
        /\ \A m \in Names \ {"compression"} : file'[m] = file[m]
    BY <1>1, <1>6 DEF ReplaceRenames, TypeInv, TypeOK
  <2>3. snap.over /\ (Calm => temp = snap.says["compression"])
    BY <2>1 DEF MemoryInv
  <2>4. SettingsInv' /\ ExportInv' /\ AckInv'
    BY <2>1, ActivationKeeps DEF Activation
  <2>5. DiskInv'
    BY <2>1, <2>2, <2>3 DEF DiskInv, Activation, OnDisk, Applies, Calm
  <2>6. SettingsSet'
    BY <2>1, <2>2, <2>3 DEF SettingsSet, Calm, TypeInv, TypeOK, Snapshots
  <2>7. \A m \in Held \ {"compression"} : InMemory(m) => InMemory(m)'
    BY <2>1, <2>2 DEF InMemory
  <2>8. MemoryInv'
    BY <1>1, <1>3, <2>1, <2>6, <2>7 DEF MemoryInv, Activation
  <2>9. QED BY <2>4, <2>5, <2>8
<1>7. CASE ClearRemoves
  <2>1. /\ at = "activate" /\ pos = 5 /\ at' = "settings" /\ ~snap.over
        /\ UNCHANGED <<mem, overridden, temp, upd, acked, risky, up>>
        /\ UNCHANGED <<pos, snap, before, undo, answer, broken, torn, stage, hist>>
    BY <1>7, ActivateIs DEF ClearRemoves, Activating, TypeInv, TypeOK, Places
  <2>2. file'["compression"] = NoFile /\ \A m \in Names \ {"compression"} : file'[m] = file[m]
    BY <1>1, <1>7 DEF ClearRemoves, TypeInv, TypeOK
  <2>3. SettingsInv' /\ ExportInv' /\ AckInv'
    BY <2>1, ActivationKeeps DEF Activation
  <2>4. DiskInv'
    BY <2>1, <2>2 DEF DiskInv, Activation, OnDisk, Applies
  <2>5. MemoryInv'
    BY <2>1, <2>2, <1>3 DEF MemoryInv, Activation, Past, InMemory
  <2>6. QED BY <2>3, <2>4, <2>5
<1>8. CASE ClearSettings
  <2>1. /\ at = "settings" /\ pos = 5 /\ at' = "flag" /\ ~snap.over
        /\ (Calm => file["compression"] = NoFile)
        /\ UNCHANGED <<overridden, file, temp, upd, acked, risky, up>>
        /\ UNCHANGED <<pos, snap, before, undo, answer, broken, torn, stage, hist>>
    BY <1>8 DEF ClearSettings, MemoryInv, TypeInv, Places
  <2>2. mem'["compression"] = Default /\ \A m \in Held \ {"compression"} : mem'[m] = mem[m]
    BY <1>1, <1>8 DEF ClearSettings, TypeInv, TypeOK
  <2>3. SettingsInv' /\ ExportInv' /\ AckInv'
    BY <2>1, <2>2, ActivationKeeps DEF Activation
  <2>4. DiskInv'
    BY <2>1 DEF DiskInv, Activation, OnDisk, Applies
  <2>5. MemoryInv'
    BY <1>1, <2>1, <2>2, <1>3 DEF MemoryInv, Activation, Past, InMemory, Calm
  <2>6. QED BY <2>3, <2>4, <2>5
<1>9. CASE ClearFlag
  <2>1. /\ at = "flag" /\ pos = 5 /\ at' = "activate" /\ pos' = 6 /\ answer' = answer
        /\ UNCHANGED <<mem, file, temp, upd, acked, risky, up>>
        /\ UNCHANGED <<snap, before, undo, broken, torn, stage, hist>>
    BY <1>5, <1>9 DEF ClearFlag
  <2>2. overridden' = FALSE
    BY <1>9 DEF ClearFlag
  <2>3. /\ ~snap.over /\ (Calm => file["compression"] = NoFile)
        /\ (Calm => mem["compression"] = Default)
    BY <2>1 DEF MemoryInv
  <2>4. SettingsInv' /\ ExportInv' /\ AckInv'
    BY <2>1, <2>3, ActivationKeeps DEF Activation
  <2>5. DiskInv'
    BY <2>1 DEF DiskInv, Activation, OnDisk, Applies
  <2>6. SettingsSet'
    BY <2>1, <2>2, <2>3 DEF SettingsSet, Calm, TypeInv, TypeOK, Snapshots
  <2>7. MemoryInv'
    BY <2>1, <2>6, <1>3 DEF MemoryInv, Activation, Past, InMemory
  <2>8. QED BY <2>4, <2>5, <2>7
<1>10. CASE PersistHealth
  <2>1. /\ at = "activate" /\ pos \in 6..8
        /\ UNCHANGED <<mem, overridden, temp, upd, acked, risky, up>>
        /\ UNCHANGED <<snap, before, undo, answer, broken, torn, stage, hist>>
    BY <1>10, ActivateIs DEF PersistHealth, Activating, Health, TypeInv, TypeOK, Places
  <2>2. \/ at' = "activate" /\ pos' \in 6..8
        \/ at' = "lists" /\ pos' = 1
    BY <1>10, <2>1, ActivateIs DEF PersistHealth, Turn
  <2>3. PICK n \in Health : file' = [file EXCEPT ![n] = snap.says[n]]
    BY <1>10 DEF PersistHealth
  <2>4. file'[n] = snap.says[n] /\ \A m \in Names \ {n} : file'[m] = file[m]
    BY <1>1, <2>3 DEF TypeInv, TypeOK
  <2>5. SettingsInv' /\ ExportInv' /\ AckInv'
    BY <2>1, <2>2, ActivationKeeps DEF Activation
  <2>6. DiskInv'
    BY <2>1, <2>2, <2>4 DEF DiskInv, Activation, OnDisk, Applies
  <2>7. MemoryInv'
    <3>1. ASSUME ~broken
          PROVE  /\ InMemory("databases")' /\ InMemory("state")' /\ InMemory("users")'
                 /\ InMemory("profiles")' /\ SettingsSet'
      <4>1. /\ InMemory("databases") /\ InMemory("state") /\ InMemory("users")
            /\ InMemory("profiles") /\ SettingsSet
        BY <2>1, <3>1 DEF MemoryInv, Activation, Past
      <4>2. file'["compression"] = file["compression"]
        BY <1>1, <2>4
      <4>3. QED BY <2>1, <4>1, <4>2 DEF InMemory, SettingsSet, Calm
    <3>2. QED BY <2>1, <2>2, <3>1 DEF MemoryInv, Activation
  <2>8. QED BY <2>5, <2>6, <2>7
<1>11. CASE AssignHealth
  <2>1. /\ at = "lists" /\ pos \in 1..3
        /\ UNCHANGED <<overridden, file, temp, upd, acked, risky, up>>
        /\ UNCHANGED <<snap, before, undo, broken, torn, stage, hist>>
    BY <1>11 DEF AssignHealth, TypeInv, TypeOK, Places
  <2>2. \/ pos < 3 /\ at' = "lists" /\ pos' = pos + 1 /\ answer' = answer
        \/ pos = 3 /\ at' = "done" /\ answer' = IF undo = "no" THEN "ok" ELSE "failed"
    BY <1>11, <2>1, HealthIs DEF AssignHealth, Settle
  <2>3. PICK n \in Health : \/ pos = 1 /\ n = "services" /\ HealthOrder[pos] = n
                            \/ pos = 2 /\ n = "incidents" /\ HealthOrder[pos] = n
                            \/ pos = 3 /\ n = "runtime" /\ HealthOrder[pos] = n
    BY <2>1, HealthIs DEF Health
  <2>4. mem' = [mem EXCEPT ![n] = snap.says[n]]
    BY <1>11, <2>3 DEF AssignHealth
  <2>5. mem'[n] = snap.says[n] /\ \A m \in Held \ {n} : mem'[m] = mem[m]
    BY <1>1, <2>4 DEF TypeInv, TypeOK
  <2>6. SettingsInv' /\ ExportInv' /\ AckInv'
    BY <1>1, <2>1, <2>2, <2>4, <2>5, ActivationKeeps DEF Activation
  <2>7. DiskInv'
    BY <2>1, <2>2 DEF DiskInv, Activation, OnDisk, Applies
  <2>8. InMemory(n)' /\ \A m \in Held : InMemory(m) => InMemory(m)'
    BY <2>1, <2>5 DEF InMemory
  <2>9. ASSUME ~broken
        PROVE  /\ InMemory("databases")' /\ InMemory("state")' /\ InMemory("users")'
               /\ InMemory("profiles")' /\ SettingsSet'
               /\ InMemory("services")'
               /\ pos > 1 => InMemory("incidents")'
               /\ pos > 2 => InMemory("runtime")'
    <3>1. /\ InMemory("databases") /\ InMemory("state") /\ InMemory("users")
          /\ InMemory("profiles") /\ SettingsSet
          /\ (pos > 1 => InMemory("services")) /\ (pos > 2 => InMemory("incidents"))
      BY <2>1, <2>9 DEF MemoryInv, Activation, Past
    <3>2. SettingsSet'
      BY <1>1, <2>1, <2>4, <2>5, <3>1 DEF SettingsSet, Calm
    <3>3. {"services", "incidents", "runtime"} \subseteq Held
      BY <1>1 DEF Health
    <3>4. QED BY <1>1, <2>3, <2>8, <3>1, <3>2, <3>3
  <2>10. MemoryInv'
    <3>1. CASE at' = "lists"
      BY <2>1, <2>2, <2>9, <3>1 DEF MemoryInv, Activation
    <3>2. CASE at' = "done"
      <4>1. Held \ {"compression"} = {"databases", "state", "users", "profiles",
                                      "services", "incidents", "runtime"}
        BY HeldAre
      <4>2. QED BY <2>1, <2>2, <2>9, <3>2, <4>1 DEF MemoryInv, Activation
    <3>3. QED BY <2>2, <3>1, <3>2
  <2>11. QED BY <2>6, <2>7, <2>10
<1>12. QED BY <1>2, <1>4, <1>6, <1>7, <1>8, <1>9, <1>10, <1>11
LEMMA StoresEnd ==
  ASSUME TypeInv, StoresInv, ActivateFails \/ Answer \/ Crash \/ Start
  PROVE  StoresInv'
<1> USE DEF StoresInv
<1>1. CASE ActivateFails
  <2>1. /\ at \in {"activate", "rename"} /\ answer = "none"
        /\ UNCHANGED <<mem, overridden, file, temp, upd, acked, risky, up>>
        /\ UNCHANGED <<before, torn, stage, hist>>
    BY <1>1 DEF ActivateFails, TypeInv, Undoing
  <2>2. \/ at' = "stage" /\ pos' = 1 /\ undo' = "all" /\ answer' = answer
        \/ at' = "done" /\ answer' = "failed" /\ broken' /\ undo' = undo /\ undo = "all"
    BY <1>1, <2>1 DEF ActivateFails, RollBack, Settle, TypeInv, TypeOK, Undoing, Writing
  <2>3. SettingsInv' /\ ExportInv' /\ AckInv'
    BY <2>1, <2>2 DEF SettingsInv, ExportInv, AckInv, KeptAs, Untouched, Importing, Calm
  <2>4. DiskInv' /\ MemoryInv'
    BY <2>2 DEF DiskInv, MemoryInv, Activation
  <2>5. QED BY <2>3, <2>4
<1>2. CASE Answer
  <2>1. /\ at = "done" /\ at' = "idle" /\ answer' = "none" /\ undo' = "no"
        /\ torn' = (torn \/ broken)
        /\ acked' = IF answer = "ok" THEN [n \in FileFirst |-> mem[n]] ELSE acked
        /\ UNCHANGED <<mem, overridden, file, temp, upd, risky, up>>
    BY <1>2 DEF Answer
  <2>2. SettingsInv'
    BY <2>1 DEF SettingsInv, Importing, Calm
  <2>3. ExportInv' /\ DiskInv' /\ MemoryInv'
    BY <2>1 DEF ExportInv, DiskInv, MemoryInv, Untouched, Activation, Writing
  <2>4. ASSUME ~torn, ~broken, NEW n \in FileFirst, n \notin risky
        PROVE  mem'[n] = acked'[n] /\ Loaded(file'[n]) = acked'[n]
    <3>1. /\ n \in Held /\ n \in Names /\ n \in All /\ n # "compression"
          /\ KeptAs(n) /\ Loaded(mem[n]) = mem[n]
      BY <2>4, HeldAre, PanelAssumption DEF AckInv, Loaded, TypeInv, TypeOK
    <3>2. CASE answer = "refused"
      BY <2>1, <3>1, <3>2 DEF KeptAs
    <3>3. CASE answer = "ok"
      <4>1. mem[n] = snap.says[n] /\ file[n] = snap.says[n]
        BY <2>1, <2>4, <3>1, <3>3 DEF DiskInv, MemoryInv, OnDisk, InMemory, Applies
      <4>2. QED BY <2>1, <3>1, <3>3, <4>1
    <3>4. CASE answer = "failed"
      <4>1. file[n] = before.says[n] /\ before.says[n] = acked[n]
        BY <2>1, <2>4, <3>1, <3>4 DEF DiskInv, OnDisk, Applies, KeptAs, TypeInv, Undoing
      <4>2. mem[n] = before.says[n]
        BY <2>1, <2>4, <3>1, <3>4
           DEF ExportInv, Untouched, Exported, MemoryInv, InMemory, TypeInv, TypeOK, Undoing
      <4>3. QED BY <2>1, <3>1, <3>4, <4>1, <4>2
    <3>5. QED BY <2>1, <3>2, <3>3, <3>4 DEF TypeInv, TypeOK, Undoing
  <2>5. AckInv'
    BY <2>1, <2>4 DEF AckInv, KeptAs
  <2>6. QED BY <2>2, <2>3, <2>5
<1>3. CASE Crash
  <2>1. /\ at' = "idle" /\ answer' = "none" /\ undo' = "no" /\ ~up'
        /\ torn' = (torn \/ Importing)
        /\ UNCHANGED <<mem, file, acked, risky>>
    BY <1>3 DEF Crash, StoresCrash
  <2>2. SettingsInv'
    BY <2>1 DEF SettingsInv, Importing
  <2>3. ExportInv' /\ DiskInv' /\ MemoryInv'
    BY <2>1 DEF ExportInv, DiskInv, MemoryInv, Untouched, Activation, Writing
  <2>4. AckInv'
    BY <2>1 DEF AckInv, KeptAs, Importing
  <2>5. QED BY <2>2, <2>3, <2>4
<1>4. CASE Start
  <2>1. /\ at = "idle" /\ at' = at /\ answer' = answer /\ answer = "none" /\ undo' = undo /\ undo = "no"
        /\ mem' = [n \in Held |-> Loaded(file[n])]
        /\ overridden' = (file["compression"] # NoFile)
        /\ acked' = [n \in FileFirst |-> Loaded(file[n])]
        /\ UNCHANGED <<file, upd, before>>
    BY <1>4 DEF Start, StoresStart, TypeInv, Undoing
  <2>2. mem'["compression"] = Loaded(file["compression"])
        /\ \A n \in FileFirst : mem'[n] = Loaded(file[n]) /\ acked'[n] = Loaded(file[n])
    BY <2>1, HeldAre
  <2>3. SettingsInv'
    BY <2>1, <2>2 DEF SettingsInv, Importing, Loaded
  <2>4. ExportInv' /\ DiskInv' /\ MemoryInv'
    BY <2>1 DEF ExportInv, DiskInv, MemoryInv, Untouched, Activation, Writing
  <2>5. AckInv'
    BY <2>1, <2>2 DEF AckInv, KeptAs
  <2>6. QED BY <2>3, <2>4, <2>5
<1>5. QED BY <1>1, <1>2, <1>3, <1>4

LEMMA StoresHold == Spec => []StoresInv
<1>1. ASSUME TypeInv, StoresInv, [Next]_vars PROVE StoresInv'
  <2>1. CASE UNCHANGED vars
    BY <1>1, <2>1
       DEF StoresInv, SettingsInv, ExportInv, DiskInv, MemoryInv, AckInv, KeptAs, SettingsSet,
           Past, Untouched, Activation, Importing, Calm, Exported, OnDisk, Staged, InMemory, Applies,
           vars, storeVars, importVars
  <2>2. CASE Import
    BY <1>1, <2>2, StoresExported, StoresWritten, StoresActivated, StoresEnd DEF Import
  <2>3. CASE Handle \/ Crash \/ Start
    BY <1>1, <2>3, StoresHandled, StoresEnd
  <2>4. QED BY <1>1, <2>1, <2>2, <2>3 DEF Next
<1>2. QED BY <1>1, StoresInitially, TypeHolds, PTL DEF Spec

\* An import that answers "ok" has put what it says in every file and store
\* that was not edited meanwhile (validate_and_apply).
THEOREM InstalledCorrect == Spec => []Installed
<1>1. ASSUME TypeInv, StoresInv PROVE Installed
  <2> SUFFICES ASSUME at = "done", answer = "ok" PROVE Installed
    BY DEF Installed
  <2>1. ~broken
    BY <1>1 DEF TypeInv, TypeOK, Undoing
  <2>2. /\ hist = snap.says["history"]
        /\ \A n \in Names \ (risky \union {"compression"}) : file[n] = snap.says[n]
    BY <1>1, <2>1 DEF StoresInv, DiskInv, OnDisk, Applies
  <2>3. /\ \A n \in Held \ (risky \union {"compression"}) : mem[n] = snap.says[n]
        /\ SettingsSet
    BY <1>1, <2>1 DEF StoresInv, MemoryInv, InMemory
  <2>4. QED BY <2>2, <2>3 DEF Installed, SettingsSet, Calm
<1>2. QED BY <1>1, TypeHolds, StoresHold, PTL

\* An import that failed, and whose roll-back did not, has left what was there
\* before it (validate_and_apply's roll-back).
THEOREM RolledBackCorrect == Spec => []RolledBack
<1>1. ASSUME TypeInv, StoresInv PROVE RolledBack
  <2> SUFFICES ASSUME at = "done", answer = "failed", ~broken PROVE RolledBack
    BY DEF RolledBack
  <2>1. snap = before /\ undo \in {"files", "all"} /\ "compression" \in Held /\ "compression" \in Names
    BY <1>1, HeldAre DEF TypeInv, TypeOK, Undoing
  <2>2. /\ hist = before.says["history"]
        /\ \A n \in Names \ (risky \union {"compression"}) : file[n] = before.says[n]
        /\ Calm /\ before.over => file["compression"] = before.says["compression"]
    BY <1>1, <2>1 DEF StoresInv, DiskInv, OnDisk, Applies, Calm
  <2>3. CASE undo = "files"
    BY <1>1, <2>1, <2>2, <2>3 DEF RolledBack, StoresInv, ExportInv, Untouched, Exported, Calm
  <2>4. CASE undo = "all"
    <3>1. (\A n \in Held \ {"compression"} : InMemory(n)) /\ SettingsSet
      BY <1>1, <2>4 DEF StoresInv, MemoryInv
    <3>2. Calm => before.over \/ before.says["compression"] = Default
      BY <1>1 DEF StoresInv, SettingsInv
    <3>3. QED BY <2>1, <2>2, <3>1, <3>2 DEF RolledBack, InMemory, SettingsSet, Calm
  <2>5. QED BY <2>1, <2>3, <2>4
<1>2. QED BY <1>1, TypeHolds, StoresHold, PTL

\* What was said to be stored is there after the next start, however many
\* crashes, failed writes and imports there were, unless one was cut off.
THEOREM AckedCorrect == Spec => AckedSurvives
<1>1. ASSUME TypeInv, StoresInv, [Next]_vars
      PROVE  [~up /\ up' /\ ~torn => \A n \in FileFirst \ risky : mem'[n] = acked[n]]_vars
  <2> SUFFICES ASSUME ~up, up', ~torn PROVE \A n \in FileFirst \ risky : mem'[n] = acked[n]
    OBVIOUS
  <2>1. at = "idle"
    BY <1>1 DEF TypeInv, Undoing
  <2>2. \A n \in FileFirst \ risky : Loaded(file[n]) = acked[n]
    BY <1>1, <2>1 DEF StoresInv, AckInv, KeptAs
  <2>3. Start
    <3>1. ~Import
      BY <2>1 DEF Import, Begin, Export, Copy, Refused, Stage, Install, Unlist, Months, WriteFails,
         Writing, Replace, Activating, ReplaceWritesTemp, ReplaceRenames, ClearRemoves,
         ClearSettings, ClearFlag, PersistHealth, AssignHealth, ActivateFails, Answer
    <3>2. ~Handle
      BY <1>1, EditsSeen
    <3>3. QED BY <1>1, <3>1, <3>2 DEF Next, Crash, StoresCrash, vars, storeVars
  <2>4. QED BY <2>2, <2>3, HeldAre DEF Start, StoresStart
<1>2. QED BY <1>1, TypeHolds, StoresHold, PTL DEF Spec, AckedSurvives
=============================================================================
