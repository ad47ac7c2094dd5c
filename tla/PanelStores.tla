---------------------------- MODULE PanelStores -----------------------------
(***************************************************************************)
(* What the dashboard manages, in memory and in DATA_DIR: the registry of  *)
(* databases, which of them are enabled, the Telegram users, the routing   *)
(* profiles, the compression settings and the health monitor's three       *)
(* files (src/database_registry.rs, src/database_state.rs,                 *)
(* src/telegram_users.rs, src/routing.rs, src/compression_config.rs,       *)
(* src/health_monitor.rs), with the edits of their handlers, a disk that   *)
(* may fail, a crash and the start that reads the files again (main.rs).   *)
(*                                                                         *)
(* Data abstracted: what a store says is one value of Contents; an edit    *)
(* puts another one in its place.  A store that keeps its lock from the    *)
(* check to the rename of its file is edited in one step: nobody can read  *)
(* it in between, and a crash finds its file before the rename or after.   *)
(***************************************************************************)
EXTENDS Naturals, Sequences

CONSTANTS
  Contents,    \* what a store may say
  Default,     \* what a store says without a file
  NoFile,      \* in the place of a file's content: there is no such file
  Edits,       \* bound: what edits write
  Edited,      \* bound: the stores whose handlers are at work
  Refuses,     \* what the owner of a name refuses to load or to activate
  Handlers,    \* bound: compression updates handled at one time
  MaxFaults,   \* bound: the writes that fail
  MaxCrashes,  \* bound
  MaxEdits     \* bound

\* The files, in the order in which an import installs them.
Order == <<"databases", "state", "users", "profiles", "compression",
           "services", "incidents", "runtime", "audit">>
Names  == {Order[i] : i \in DOMAIN Order}
Health == {"services", "incidents", "runtime"}
Held   == Names \ {"audit"}               \* the files a store has in memory
FileFirst == Health \union {"users", "profiles"}  \* no change without a file
All    == Names \union {"history"}        \* and the directory of months

ASSUME PanelAssumption ==
  /\ Default \in Contents
  /\ NoFile \notin Contents
  /\ Edits \subseteq Contents
  /\ Edited \subseteq {"databases", "state", "users", "profiles", "compression"}
  /\ Refuses \in [All -> SUBSET Contents]
  /\ \A n \in All : Refuses[n] \intersect (Edits \union {Default}) = {}
  /\ MaxFaults \in Nat /\ MaxCrashes \in Nat /\ MaxEdits \in Nat

VARIABLES
  mem,        \* the stores' contents in memory
  overridden, \* the flag beside the compression settings
  file,       \* the files of DATA_DIR
  temp,       \* compression-config.json.tmp
  upd, value, \* update of the compression settings in each handler: where it
              \* is, and the settings it was given
  acked,      \* the last content a handler or an import said to be stored, of
              \* the stores that change nothing before it is
  risky,      \* the stores that were edited while an import was at work
  up,         \* the program runs
  crashes, faults, edits  \* how many there were

storeVars == <<mem, overridden, file, temp, upd, value, acked, risky, up, crashes, faults, edits>>

Loaded(c) == IF c = NoFile THEN Default ELSE c

StoresInit ==
  /\ mem = [n \in Held |-> Default]
  /\ overridden = FALSE
  /\ file = [n \in Names |-> NoFile]
  /\ temp = NoFile
  /\ upd = [h \in Handlers |-> "idle"]
  /\ value = [h \in Handlers |-> Default]
  /\ acked = [n \in FileFirst |-> Default]
  /\ risky = {}
  /\ up = TRUE
  /\ crashes = 0 /\ faults = 0 /\ edits = 0

\* The disk refuses a write.
Fault == faults < MaxFaults /\ faults' = faults + 1

\* A step fails for a reason of its own, or because of the disk.
Fails(reason) == (reason /\ UNCHANGED faults) \/ Fault

\* An edit of n while an import is at work: what the import says of n is not
\* the last word any more.
Touched(n, importing) == risky' = IF importing THEN risky \union {n} ELSE risky

FaultyStored(n, c) == \* answered before the file is written
  /\ mem' = [mem EXCEPT ![n] = c]
  /\ acked' = [m \in FileFirst |-> IF m = n THEN c ELSE acked[m]]
  /\ \/ file' = [file EXCEPT ![n] = c] /\ UNCHANGED faults
     \/ Fault /\ UNCHANGED file

Stored(n, c) ==
  /\ mem' = [mem EXCEPT ![n] = c]
  /\ file' = [file EXCEPT ![n] = c]
  /\ acked' = [m \in FileFirst |-> IF m = n THEN c ELSE acked[m]]
  /\ UNCHANGED faults

\* The file could not be written: what was changed first stays changed.
Unwritten(n, c) ==
  /\ Fault
  /\ mem' = [mem EXCEPT ![n] = c]
  /\ UNCHANGED <<file, acked>>

LocalVars == <<overridden, temp, upd, value, up, crashes>>

\* A handler of store n begins.
Begins(n) == up /\ n \in Edited /\ edits < MaxEdits /\ edits' = edits + 1

\* Add, update and delete: under the gate, memory first.  An edit the
\* registry refuses changes nothing.
EditRegistry(c, importing) ==
  /\ Begins("databases") /\ ~importing
  /\ c \notin Refuses["databases"]
  /\ Stored("databases", c) \/ Unwritten("databases", c)
  /\ UNCHANGED <<LocalVars, risky>>

\* Enable and disable, which nothing keeps away from an import: memory first.
SetEnabled(c, importing) ==
  /\ Begins("state")
  /\ Stored("state", c) \/ Unwritten("state", c)
  /\ Touched("state", importing)
  /\ UNCHANGED LocalVars

\* Create, update and delete of a user: the file first, then the list.  A
\* write that fails changes nothing.
EditUsers(c, importing) ==
  /\ Begins("users")
  /\ Stored("users", c)
  /\ Touched("users", importing)
  /\ UNCHANGED LocalVars

\* The profile store puts the old state back when its file is not written.
EditProfiles(c, importing) ==
  /\ Begins("profiles")
  /\ Stored("profiles", c)
  /\ Touched("profiles", importing)
  /\ UNCHANGED LocalVars

\* CompressionConfigStore::update has no lock before it has renamed the file,
\* and then takes the two locks of the settings and of the flag in turn.
UpdateBegins(h, c, importing) ==
  /\ upd[h] = "idle" /\ Begins("compression")
  /\ upd' = [upd EXCEPT ![h] = "rename"]
  /\ value' = [value EXCEPT ![h] = c]
  /\ temp' = c
  /\ Touched("compression", importing)
  /\ UNCHANGED <<mem, overridden, file, acked, up, crashes, faults>>

UpdateEnds(h) ==
  /\ upd' = [upd EXCEPT ![h] = "idle"]
  /\ value' = [value EXCEPT ![h] = Default]

UpdateRenames(h, importing) ==
  /\ upd[h] = "rename"
  /\ Touched("compression", importing)
  /\ \/ /\ temp # NoFile
        /\ file' = [file EXCEPT !["compression"] = temp]
        /\ temp' = NoFile
        /\ upd' = [upd EXCEPT ![h] = "settings"]
        /\ UNCHANGED <<value, faults>>
     \/ /\ Fails(temp = NoFile)  \* another one took it, or the disk
        /\ UpdateEnds(h)
        /\ UNCHANGED <<file, temp>>
  /\ UNCHANGED <<mem, overridden, acked, up, crashes, edits>>

UpdateSettings(h, importing) ==
  /\ upd[h] = "settings"
  /\ mem' = [mem EXCEPT !["compression"] = value[h]]
  /\ upd' = [upd EXCEPT ![h] = "flag"]
  /\ Touched("compression", importing)
  /\ UNCHANGED <<overridden, file, temp, value, acked, up, crashes, faults, edits>>

UpdateFlag(h, importing) ==
  /\ upd[h] = "flag"
  /\ overridden' = TRUE
  /\ UpdateEnds(h)
  /\ Touched("compression", importing)
  /\ UNCHANGED <<mem, file, temp, acked, up, crashes, faults, edits>>

Update(h, importing) ==
  UpdateRenames(h, importing) \/ UpdateSettings(h, importing) \/ UpdateFlag(h, importing)

Edit(importing) ==
  \/ \E c \in Edits : \/ EditRegistry(c, importing) \/ SetEnabled(c, importing)
                      \/ EditUsers(c, importing) \/ EditProfiles(c, importing)
  \/ \E h \in Handlers : Update(h, importing) \/ \E c \in Edits : UpdateBegins(h, c, importing)

\* The process dies; what is on the disk stays.
StoresCrash ==
  /\ up /\ crashes < MaxCrashes
  /\ up' = FALSE
  /\ crashes' = crashes + 1
  /\ upd' = [h \in Handlers |-> "idle"]
  /\ value' = [h \in Handlers |-> Default]
  /\ UNCHANGED <<mem, overridden, file, temp, acked, risky, faults, edits>>

\* DatabaseRegistry::load refuses a registry that breaks its rules, and main
\* ends with it.
Starts == file["databases"] \notin Refuses["databases"]

StoresStart ==
  /\ ~up /\ Starts
  /\ up' = TRUE
  /\ mem' = [n \in Held |-> Loaded(file[n])]
  /\ overridden' = (file["compression"] # NoFile)
  /\ acked' = [n \in FileFirst |-> Loaded(file[n])]
  /\ risky' = {}
  /\ UNCHANGED <<file, temp, upd, value, crashes, faults, edits>>
=============================================================================
