----------------------------- MODULE Migration ------------------------------
(***************************************************************************)
(* The import of a migration snapshot, src/migration.rs, called by         *)
(* migration_import of src/web.rs under the route gate: everything the     *)
(* dashboard manages is exported, the files are staged and installed one   *)
(* after the other, the history is replaced, and the stores are activated  *)
(* one after the other; a failure is rolled back from the export.          *)
(* Meanwhile the handlers of PanelStores go on, the disk may fail at every *)
(* write, and the process may die between any two steps.                   *)
(***************************************************************************)
EXTENDS PanelStores

CONSTANTS
  Imports,    \* bound: what an import may say
  Malformed,  \* the imports validate refuses
  MaxImports  \* bound

ASSUME MigrationAssumption ==
  Imports \subseteq Contents /\ Malformed \subseteq Contents /\ MaxImports \in Nat

VARIABLES
  at, pos,    \* the phase of the import and its place in the phase's order
  snap,       \* the snapshot being written or activated
  before,     \* the export made before anything was changed
  undo,       \* what is being rolled back: nothing, files, or all
  answer,     \* of the handler
  broken,     \* the roll-back failed
  torn,       \* an import did not reach its end, and nothing put it right
  stage,      \* .migration-stage
  hist,       \* the months of the history directory
  imports

importVars == <<at, pos, snap, before, undo, answer, broken, torn, stage, hist, imports>>
vars == <<storeVars, importVars>>

Importing == at # "idle"

\* The order of MigrationContext::export and that of activate.
ExportOrder == <<"compression", "flag", "services", "incidents", "runtime",
                 "databases", "state", "users", "profiles", "audit", "history">>
ActivateOrder == <<"databases", "state", "users", "profiles", "compression",
                   "services", "incidents", "runtime">>
HealthOrder == <<"services", "incidents", "runtime">>

Writing == {"stage", "install", "unlist", "months"}
Phases  == {"idle", "export", "copy", "activate", "rename", "settings", "flag",
            "lists", "done"}             \union Writing

Nothing == [says |-> [n \in All |-> Default], over |-> FALSE]

Init ==
  /\ StoresInit
  /\ at = "idle" /\ pos = 1
  /\ snap = Nothing /\ before = Nothing
  /\ undo = "no" /\ answer = "none"
  /\ broken = FALSE /\ torn = FALSE
  /\ stage = [n \in Names |-> NoFile]
  /\ hist = Default
  /\ imports = 0

\* A snapshot that validate refuses changes nothing.  (An update of the
\* settings that is half done is one made meanwhile.)
Begin(c, over) ==
  /\ up /\ at = "idle" /\ imports < MaxImports
  /\ c \notin Malformed
  /\ imports' = imports + 1
  /\ snap' = [says |-> [n \in All |-> c], over |-> over]
  /\ at' = "export" /\ pos' = 1
  /\ risky' = IF \A h \in Handlers : upd[h] = "idle" THEN risky
              ELSE risky \union {"compression"}
  /\ UNCHANGED <<mem, overridden, file, temp, upd, value, acked, up, crashes, faults, edits>>
  /\ UNCHANGED <<before, undo, answer, broken, torn, stage, hist>>

Turn(phase, next, len) ==
  IF pos < len THEN at' = phase /\ pos' = pos + 1 ELSE at' = next /\ pos' = 1

\* The current state, one store after the other, each under its own lock.
Export ==
  /\ at = "export"
  /\ LET n == ExportOrder[pos] IN
       before' = CASE n = "flag"    -> [before EXCEPT !.over = overridden]
                   [] n = "history" -> [before EXCEPT !.says[n] = Loaded(hist)]
                   [] n = "audit"   -> [before EXCEPT !.says[n] = Loaded(file[n])]
                   [] OTHER         -> [before EXCEPT !.says[n] = mem[n]]
  /\ Turn("export", "copy", Len(ExportOrder))
  /\ UNCHANGED <<storeVars, snap, undo, answer, broken, torn, stage, hist, imports>>

\* The files are copied; nobody reads the copy.
Copy ==
  /\ at = "copy"
  /\ at' = "stage" /\ pos' = 1
  /\ UNCHANGED <<storeVars, snap, before, undo, answer, broken, torn, stage, hist, imports>>

\* The export or the copy fails: the import is refused before it changed anything.
Refused ==
  /\ at \in {"export", "copy"} /\ Fault
  /\ at' = "done" /\ pos' = 1
  /\ answer' = "refused"
  /\ UNCHANGED <<mem, overridden, file, temp, upd, value, acked, risky, up, crashes, edits>>
  /\ UNCHANGED <<snap, before, undo, broken, torn, stage, hist, imports>>

\* snapshot_files: the compression file is staged only for an override.
Stage ==
  /\ at = "stage"
  /\ LET n == Order[pos] IN
       stage' = IF n = "compression" /\ ~snap.over THEN stage
                ELSE [stage EXCEPT ![n] = snap.says[n]]
  /\ Turn("stage", "install", Len(Order))
  /\ UNCHANGED <<storeVars, snap, before, undo, answer, broken, torn, hist, imports>>

\* write_files: rename what is staged, remove what is not.
Install ==
  /\ at = "install"
  /\ LET n == Order[pos] IN
       /\ file' = [file EXCEPT ![n] = stage[n]]
       /\ stage' = [stage EXCEPT ![n] = NoFile]
  /\ Turn("install", "unlist", Len(Order))
  /\ UNCHANGED <<mem, overridden, temp, upd, value, acked, risky, up, crashes, faults, edits>>
  /\ UNCHANGED <<snap, before, undo, answer, broken, torn, hist, imports>>

\* replace_history removes the months ...
Unlist ==
  /\ at = "unlist"
  /\ hist' = NoFile
  /\ at' = "months"
  /\ UNCHANGED <<storeVars, pos, snap, before, undo, answer, broken, torn, stage, imports>>

Settle(ans) == at' = "done" /\ pos' = 1 /\ answer' = ans

Activates == undo # "files"

\* ... before it looks at the timestamps of the new ones and writes them.
Months ==
  /\ at = "months"
  /\ snap.says["history"] \notin Refuses["history"]
  /\ hist' = snap.says["history"]
  /\ IF Activates THEN at' = "activate" /\ pos' = 1 /\ UNCHANGED answer
                  ELSE Settle("failed")
  /\ UNCHANGED <<storeVars, snap, before, undo, broken, torn, stage, imports>>

FaultyRollBack(what) == \* the stores are activated, their files are not put back
  /\ undo' = what
  /\ snap' = before
  /\ IF what = "all" THEN at' = "activate" /\ UNCHANGED answer
                     ELSE at' = "done" /\ answer' = "failed"
  /\ pos' = 1
  /\ UNCHANGED broken

RollBack(what) ==
  /\ undo' = what
  /\ snap' = before
  /\ at' = "stage" /\ pos' = 1
  /\ UNCHANGED <<answer, broken>>

\* write_files fails.  An error of the roll-back's own write is dropped, and
\* the stores are activated all the same when they were to be.
WriteFails ==
  /\ at \in Writing
  /\ Fails(at = "months" /\ snap.says["history"] \in Refuses["history"])
  /\ CASE undo = "no"    -> RollBack("files")
       [] undo = "files" -> /\ Settle("failed") /\ broken' = TRUE
                            /\ UNCHANGED <<snap, undo>>
       [] undo = "all"   -> /\ at' = "activate" /\ pos' = 1 /\ broken' = TRUE
                            /\ UNCHANGED <<snap, undo, answer>>
  /\ UNCHANGED <<mem, overridden, file, temp, upd, value, acked, risky, up, crashes, edits>>
  /\ UNCHANGED <<before, torn, stage, hist, imports>>

Activating(n) == at = "activate" /\ ActivateOrder[pos] = n

\* replace_snapshot of the health monitor looks at the whole of what it is
\* given before it writes the first of its files.
Invalid(n) == n \notin {"incidents", "runtime"} /\ snap.says[n] \in Refuses[n]

Proceed == at' = "activate" /\ pos' = pos + 1 /\ UNCHANGED answer

\* The stores that are replaced under their own lock.
Replace(n) ==
  /\ n \in {"databases", "state", "users", "profiles"}
  /\ Activating(n) /\ ~Invalid(n)
  /\ mem' = [mem EXCEPT ![n] = snap.says[n]]
  /\ file' = [file EXCEPT ![n] = snap.says[n]]
  /\ Proceed
  /\ UNCHANGED <<overridden, temp, upd, value, acked, risky, up, crashes, faults, edits>>
  /\ UNCHANGED <<snap, before, undo, broken, torn, stage, hist, imports>>

\* With an override: CompressionConfigStore::replace, which has both locks, but
\* shares its temporary file with update.
ReplaceWritesTemp ==
  /\ Activating("compression") /\ snap.over
  /\ temp' = snap.says["compression"]
  /\ at' = "rename"
  /\ UNCHANGED <<mem, overridden, file, upd, value, acked, risky, up, crashes, faults, edits>>
  /\ UNCHANGED <<pos, snap, before, undo, answer, broken, torn, stage, hist, imports>>

ReplaceRenames ==
  /\ at = "rename" /\ temp # NoFile
  /\ file' = [file EXCEPT !["compression"] = temp]
  /\ temp' = NoFile
  /\ mem' = [mem EXCEPT !["compression"] = snap.says["compression"]]
  /\ overridden' = TRUE
  /\ Proceed
  /\ UNCHANGED <<upd, value, acked, risky, up, crashes, faults, edits>>
  /\ UNCHANGED <<snap, before, undo, broken, torn, stage, hist, imports>>

\* Without one: clear_override, in three steps.
ClearRemoves ==
  /\ Activating("compression") /\ ~snap.over
  /\ file' = [file EXCEPT !["compression"] = NoFile]
  /\ at' = "settings"
  /\ UNCHANGED <<mem, overridden, temp, upd, value, acked, risky, up, crashes, faults, edits>>
  /\ UNCHANGED <<pos, snap, before, undo, answer, broken, torn, stage, hist, imports>>

ClearSettings ==
  /\ at = "settings"
  /\ mem' = [mem EXCEPT !["compression"] = Default]
  /\ at' = "flag"
  /\ UNCHANGED <<overridden, file, temp, upd, value, acked, risky, up, crashes, faults, edits>>
  /\ UNCHANGED <<pos, snap, before, undo, answer, broken, torn, stage, hist, imports>>

ClearFlag ==
  /\ at = "flag"
  /\ overridden' = FALSE
  /\ Proceed
  /\ UNCHANGED <<mem, file, temp, upd, value, acked, risky, up, crashes, faults, edits>>
  /\ UNCHANGED <<snap, before, undo, broken, torn, stage, hist, imports>>

\* HealthMonitor::replace_snapshot: the three files without a lock, ...
PersistHealth ==
  /\ \E n \in Health :
       Activating(n) /\ ~Invalid(n) /\ file' = [file EXCEPT ![n] = snap.says[n]]
  /\ Turn("activate", "lists", Len(ActivateOrder))
  /\ UNCHANGED <<mem, overridden, temp, upd, value, acked, risky, up, crashes, faults, edits>>
  /\ UNCHANGED <<snap, before, undo, answer, broken, torn, stage, hist, imports>>

FaultyAssignHealth == \* the services alone
  /\ at = "lists"
  /\ mem' = [mem EXCEPT !["services"] = snap.says["services"]]
  /\ Settle(IF undo = "no" THEN "ok" ELSE "failed")
  /\ UNCHANGED <<overridden, file, temp, upd, value, acked, risky, up, crashes, faults, edits>>
  /\ UNCHANGED <<snap, before, undo, broken, torn, stage, hist, imports>>

\* ... then the three lists, each under its own.
AssignHealth ==
  /\ at = "lists"
  /\ LET n == HealthOrder[pos] IN mem' = [mem EXCEPT ![n] = snap.says[n]]
  /\ IF pos < Len(HealthOrder) THEN at' = "lists" /\ pos' = pos + 1 /\ UNCHANGED answer
     ELSE Settle(IF undo = "no" THEN "ok" ELSE "failed")
  /\ UNCHANGED <<overridden, file, temp, upd, value, acked, risky, up, crashes, faults, edits>>
  /\ UNCHANGED <<snap, before, undo, broken, torn, stage, hist, imports>>

FaultyActivateFails == \* without a roll-back
  /\ \/ at = "activate" /\ Fails(Invalid(ActivateOrder[pos]))
     \/ at = "rename" /\ Fails(temp = NoFile)
  /\ Settle("failed") /\ UNCHANGED <<snap, undo, broken>>
  /\ UNCHANGED <<mem, overridden, file, temp, upd, value, acked, risky, up, crashes, edits>>
  /\ UNCHANGED <<before, torn, stage, hist, imports>>

\* A store refuses what it is given, or cannot write it.
ActivateFails ==
  /\ \/ at = "activate" /\ Fails(Invalid(ActivateOrder[pos]))
     \/ at = "rename" /\ Fails(temp = NoFile)
  /\ IF undo = "no" THEN RollBack("all")
     ELSE Settle("failed") /\ broken' = TRUE /\ UNCHANGED <<snap, undo>>
  /\ UNCHANGED <<mem, overridden, file, temp, upd, value, acked, risky, up, crashes, edits>>
  /\ UNCHANGED <<before, torn, stage, hist, imports>>

\* The handler answers and lets go of the gate.
Answer ==
  /\ at = "done"
  /\ at' = "idle" /\ answer' = "none" /\ undo' = "no" /\ broken' = FALSE
  /\ snap' = Nothing /\ before' = Nothing
  /\ torn' = (torn \/ broken)
  /\ acked' = IF answer = "ok" THEN [n \in FileFirst |-> mem[n]] ELSE acked
  /\ UNCHANGED <<mem, overridden, file, temp, upd, value, risky, up, crashes, faults, edits>>
  /\ UNCHANGED <<pos, stage, hist, imports>>

Import ==
  \/ \E c \in Imports, over \in BOOLEAN : Begin(c, over)
  \/ Export \/ Copy \/ Refused
  \/ Stage \/ Install \/ Unlist \/ Months \/ WriteFails
  \/ \E n \in Names : Replace(n)
  \/ ReplaceWritesTemp \/ ReplaceRenames
  \/ ClearRemoves \/ ClearSettings \/ ClearFlag
  \/ PersistHealth \/ AssignHealth \/ ActivateFails \/ Answer

Handle == Edit(Importing) /\ UNCHANGED importVars

Crash ==
  /\ StoresCrash
  /\ at' = "idle" /\ pos' = 1 /\ answer' = "none" /\ undo' = "no" /\ broken' = FALSE
  /\ snap' = Nothing /\ before' = Nothing
  /\ torn' = (torn \/ Importing)
  /\ UNCHANGED <<stage, hist, imports>>

Start ==
  /\ StoresStart
  /\ torn' = FALSE
  /\ UNCHANGED <<at, pos, snap, before, undo, answer, broken, stage, hist, imports>>

Next == Import \/ Handle \/ Crash \/ Start

Spec == Init /\ [][Next]_vars

-----------------------------------------------------------------------------
Maybe == Contents \union {NoFile}
Snapshots == [says : [All -> Contents], over : BOOLEAN]

TypeOK ==
  /\ mem \in [Held -> Contents] /\ overridden \in BOOLEAN
  /\ file \in [Names -> Maybe] /\ temp \in Maybe
  /\ upd \in [Handlers -> {"idle", "rename", "settings", "flag"}]
  /\ value \in [Handlers -> Contents]
  /\ acked \in [FileFirst -> Contents] /\ risky \in SUBSET Held
  /\ up \in BOOLEAN /\ crashes \in 0..MaxCrashes /\ faults \in 0..MaxFaults /\ edits \in 0..MaxEdits
  /\ at \in Phases /\ pos \in 1..11
  /\ snap \in Snapshots /\ before \in Snapshots
  /\ undo \in {"no", "files", "all"}
  /\ answer \in {"none", "ok", "failed", "refused"}
  /\ broken \in BOOLEAN /\ torn \in BOOLEAN
  /\ stage \in [Names -> Maybe] /\ hist \in Maybe
  /\ imports \in 0..MaxImports

\* An import that answers "ok" has put everything it says in place, in the
\* files and in memory, whatever an earlier one that failed or died has left
\* behind; only what was edited meanwhile may say something else.
\* (validate_and_apply; a stale .migration-stage or json.tmp must do no harm.)
Installed ==
  at = "done" /\ answer = "ok" =>
    /\ \A n \in Names \ (risky \union {"compression"}) : file[n] = snap.says[n]
    /\ \A n \in Held \ (risky \union {"compression"}) : mem[n] = snap.says[n]
    /\ hist = snap.says["history"]
    /\ "compression" \notin risky =>
         /\ overridden = snap.over
         /\ file["compression"] = IF snap.over THEN snap.says["compression"] ELSE NoFile
         /\ mem["compression"] = IF snap.over THEN snap.says["compression"] ELSE Default

\* An import that failed, and whose roll-back met no error itself, has left
\* every store, every file and the history as they were exported: "rejected or
\* rolled back", web.rs.  The one exception is in RolledBackSettings.
RolledBack ==
  at = "done" /\ answer = "failed" /\ ~broken =>
    /\ \A n \in Names \ (risky \union {"compression"}) : file[n] = before.says[n]
    /\ \A n \in Held \ risky : mem[n] = before.says[n]
    /\ hist = before.says["history"]
    /\ "compression" \notin risky =>
         /\ overridden = before.over
         /\ before.over => file["compression"] = before.says["compression"]

\* The exception: settings that were not overridden before are not overridden
\* after, in the file either.  It fails: the roll-back installs what the
\* import that failed has left in .migration-stage.
RolledBackSettings ==
  at = "done" /\ answer = "failed" /\ ~broken /\ "compression" \notin risky /\ ~before.over
    => file["compression"] = NoFile

\* A start finds what was last said to be stored, unless an import was cut
\* off or its roll-back failed, or the edit was made while an import ran.
AckedSurvives ==
  [][~up /\ up' /\ ~torn =>
       \A n \in FileFirst \ risky : mem'[n] = acked[n]]_vars

\* The program can always be started again: a registry that the start refuses
\* is on the disk only while an import, or its roll-back, is at work, or when
\* that was cut off.
StartsAgain == Starts \/ Importing \/ torn
=============================================================================
