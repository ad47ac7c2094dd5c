--------------------------- MODULE BackupPipeline ---------------------------
(***************************************************************************)
(* One run of the pipeline of one database: run_database, backup_pipeline  *)
(* and upload_chunks_to_destinations of src/main.rs, with the pg_dump      *)
(* child and its watchdog (src/dump.rs), the parts on disk (src/chunk.rs), *)
(* sendDocument and its retries (src/telegram.rs) and the entry of the     *)
(* backup in the file of manifests (src/restore.rs).                       *)
(*                                                                         *)
(* The pipeline's thread runs beside the child, the watchdog, Telegram and *)
(* an operator who may cancel; the process may die between any two steps.  *)
(* Data abstracted: a part is its number; bytes, hashes, codecs and        *)
(* encryption are left out; removing a file succeeds.                      *)
(***************************************************************************)
EXTENDS Naturals

CONSTANTS
  MaxParts,        \* bound: the most parts a dump is packaged into
  NumDestinations, \* length of the list of chat ids of this run
  NumNotices,      \* chats that get a summary before the upload
  MaxAttempts,     \* MAX_ATTEMPTS of one part at one destination
  KeepFailedDumps  \* KEEP_FAILED_DUMPS

ASSUME PipelineAssumption ==
  /\ MaxParts \in Nat \ {0}
  /\ NumDestinations \in Nat \ {0}
  /\ NumNotices \in Nat
  /\ MaxAttempts \in Nat \ {0}
  /\ KeepFailedDumps \in BOOLEAN

VARIABLES
  pc,         \* where the pipeline is
  token,      \* the cancellation token of this run
  child,      \* pg_dump; "closed": its output is closed, it has not exited
  timedOut,   \* the watchdog found it alive at the deadline
  files,      \* the parts on disk
  count,      \* how many parts the dump has been packaged into
  notices,    \* summaries still to send
  part, dest, attempt,  \* the upload's loops
  sent,       \* parts counted into sent_bytes, the card's bytes_done
  active, completed,    \* the destinations not given up, and not missing any
  received,   \* received[d]: the parts Telegram holds in chat d
  manifest,   \* the backup's entry: "absent", "started" or "complete"
  recorded,   \* <<part, destination>>: the parts in the entry
  outcome     \* what the history says of the run

dumpVars   == <<child, timedOut>>
loopVars   == <<part, dest, attempt, active, completed>>
uploadVars == <<loopVars, sent, received>>
recordVars == <<manifest, recorded>>
vars == <<pc, token, dumpVars, files, count, notices, uploadVars, recordVars, outcome>>

Parts == 1 .. MaxParts
Packaged == 1 .. count
Destinations == 1 .. NumDestinations
Verdicts == {"success", "failure", "cancelled"}

TypeOK ==
  /\ pc \in {"spawn", "loop", "read", "finish", "reap", "begin", "summary", "chunk", "dest",
             "try", "await", "receipt", "record", "remove", "complete", "notice",
             "sweep", "over", "crashed"}
  /\ token \in BOOLEAN
  /\ child \in {"none", "running", "closed", "ok", "bad", "killed"}
  /\ timedOut \in BOOLEAN
  /\ files \in SUBSET Parts
  /\ count \in 0 .. MaxParts
  /\ notices \in 0 .. NumNotices
  /\ part \in 1 .. MaxParts + 1
  /\ dest \in 1 .. NumDestinations + 1
  /\ attempt \in 0 .. MaxAttempts
  /\ sent \in 0 .. MaxParts
  /\ active \in [Destinations -> BOOLEAN]
  /\ completed \in [Destinations -> BOOLEAN]
  /\ received \in [Destinations -> SUBSET Parts]
  /\ manifest \in {"absent", "started", "complete"}
  /\ recorded \in SUBSET (Parts \X Destinations)
  /\ outcome \in Verdicts \union {"none"}

Init ==
  /\ pc = "spawn" /\ token = FALSE
  /\ child = "none" /\ timedOut = FALSE
  /\ files = {} /\ count = 0
  /\ notices = NumNotices
  /\ part = 1 /\ dest = 1 /\ attempt = 0 /\ sent = 0
  /\ active = [d \in Destinations |-> TRUE]
  /\ completed = [d \in Destinations |-> TRUE]
  /\ received = [d \in Destinations |-> {}]
  /\ manifest = "absent" /\ recorded = {}
  /\ outcome = "none"

-----------------------------------------------------------------------------
(* Operators named Faulty... are seeded faults, used by no specification.  *)
(* DumpPipe::cancel, or its Drop: a child that has not exited is killed.   *)
Kill == child' = IF child \in {"running", "closed"} THEN "killed" ELSE child

(* The pipeline returns: its child is gone, and the history is written.    *)
Return(verdict) ==
  /\ outcome' = verdict
  /\ pc' = "sweep"
  /\ Kill
  /\ UNCHANGED timedOut

(* backup_pipeline: the dump.                                              *)
Spawn ==
  /\ pc = "spawn"
  /\ \/ /\ child' = "running"
        /\ pc' = "loop"
        /\ UNCHANGED <<timedOut, outcome>>
     \/ Return("failure")
  /\ UNCHANGED <<token, files, count, notices, uploadVars, recordVars>>

(* A look at the token on the way, wherever `return Err(cancelled())` is.  *)
StopIfCancelled ==
  /\ pc \in {"loop", "finish", "summary", "chunk", "dest"}
  /\ token
  /\ pc = "summary" => notices > 0
  /\ pc = "chunk" => part <= count
  /\ pc = "dest" => dest <= NumDestinations
  /\ Return("cancelled")
  /\ UNCHANGED <<token, files, count, notices, uploadVars, recordVars>>

(* The thread blocks in a read of pg_dump's output.                        *)
Read ==
  /\ pc = "loop"
  /\ ~token
  /\ pc' = "read"
  /\ UNCHANGED <<token, dumpVars, files, count, notices, uploadVars, recordVars, outcome>>

(* Bytes came, and the token is looked at again.  They go to the current   *)
(* part, or start another; or the disk, the codec or the quota fails.      *)
ReadSome ==
  /\ pc = "read"
  /\ \/ /\ ~token
        /\ pc' = "loop"
        /\ \/ /\ count < MaxParts
              /\ count' = count + 1
              /\ files' = files \union {count'}
           \/ UNCHANGED <<count, files>>
        /\ UNCHANGED <<dumpVars, outcome>>
     \/ /\ Return(IF token THEN "cancelled" ELSE "failure")
        /\ UNCHANGED <<count, files>>
  /\ UNCHANGED <<token, notices, uploadVars, recordVars>>

ReadEof ==
  /\ pc = "read"
  /\ child # "running"
  /\ pc' = "finish"
  /\ UNCHANGED <<token, dumpVars, files, count, notices, uploadVars, recordVars, outcome>>

(* Sink::finish: the codec and age write what they still hold, which may   *)
(* start parts; an empty stream makes one part.                            *)
FinishSink ==
  /\ pc = "finish"
  /\ ~token
  /\ \/ /\ \E n \in (count .. MaxParts) \ {0} : count' = n /\ files' = 1 .. n
        /\ pc' = "reap"
        /\ UNCHANGED <<dumpVars, outcome>>
     \/ /\ Return("failure")
        /\ UNCHANGED <<count, files>>
  /\ UNCHANGED <<token, notices, uploadVars, recordVars>>

(* DumpPipe::finish.                                                       *)
Dumped == child = "ok" /\ ~timedOut

Reap ==
  /\ pc = "reap"
  /\ child \in {"ok", "bad", "killed"}
  /\ \/ /\ Dumped
        /\ pc' = "begin"
        /\ UNCHANGED <<dumpVars, outcome>>
     \/ ~Dumped /\ Return("failure")
  /\ UNCHANGED <<token, files, count, notices, uploadVars, recordVars>>

Begin ==
  /\ pc = "begin"
  /\ \/ /\ manifest' = "started"
        /\ pc' = "summary"
        /\ UNCHANGED <<dumpVars, outcome>>
     \/ /\ Return("failure")
        /\ UNCHANGED manifest
  /\ UNCHANGED <<token, files, count, notices, uploadVars, recorded>>

(* A summary that cannot be sent is only logged.                           *)
SendSummary ==
  /\ pc = "summary"
  /\ \/ /\ notices > 0 /\ ~token
        /\ notices' = notices - 1
        /\ UNCHANGED pc
     \/ /\ notices = 0
        /\ pc' = "chunk"
        /\ UNCHANGED notices
  /\ UNCHANGED <<token, dumpVars, files, count, uploadVars, recordVars, outcome>>

-----------------------------------------------------------------------------
(* upload_chunks_to_destinations: every part, to every destination.        *)

SomeActive == \E d \in Destinations : active[d]

NextPart ==
  /\ pc = "chunk"
  /\ part <= count /\ ~token /\ SomeActive
  /\ dest' = 1
  /\ pc' = "dest"
  /\ UNCHANGED <<token, dumpVars, files, count, notices, part, attempt, sent, active,
                 completed, received, recordVars, outcome>>

(* The list is at its end, or nobody is left to send to.                   *)
UploadOver ==
  /\ pc = "chunk"
  /\ part > count \/ (~token /\ ~SomeActive)
  /\ \/ /\ \E d \in Destinations : completed[d]
        /\ pc' = "complete"
        /\ UNCHANGED <<dumpVars, outcome>>
     \/ /\ \A d \in Destinations : ~completed[d]
        /\ Return("failure")
  /\ UNCHANGED <<token, files, count, notices, uploadVars, recordVars>>

NextDestination ==
  /\ pc = "dest"
  /\ dest <= NumDestinations /\ ~token
  /\ \/ /\ active[dest]
        /\ attempt' = 0
        /\ pc' = "try"
        /\ UNCHANGED dest
     \/ /\ ~active[dest]
        /\ dest' = dest + 1
        /\ UNCHANGED <<pc, attempt>>
  /\ UNCHANGED <<token, dumpVars, files, count, notices, part, sent, active, completed,
                 received, recordVars, outcome>>

AllTried == dest > NumDestinations

DestinationsDone ==
  /\ pc = "dest"
  /\ AllTried
  /\ pc' = "remove"
  /\ UNCHANGED <<token, dumpVars, files, count, notices, uploadVars, recordVars, outcome>>

FaultyGiveUp ==
  /\ active' = [active EXCEPT ![dest] = FALSE]
  /\ dest' = dest + 1
  /\ pc' = "dest"
  /\ UNCHANGED completed

(* send returned an error, a cancellation too: this destination gets no    *)
(* other part.                                                             *)
GiveUp ==
  /\ active' = [active EXCEPT ![dest] = FALSE]
  /\ completed' = [completed EXCEPT ![dest] = FALSE]
  /\ dest' = dest + 1
  /\ pc' = "dest"

(* The top of the loop of sendDocument, and the wait that leads back to    *)
(* it.  The post is on its way in "await".                                 *)
Post ==
  /\ pc = "try"
  /\ \/ /\ ~token
        /\ attempt' = attempt + 1
        /\ pc' = "await"
        /\ UNCHANGED <<dest, active, completed>>
     \/ /\ token
        /\ GiveUp
        /\ UNCHANGED attempt
  /\ UNCHANGED <<token, dumpVars, files, count, notices, part, sent, received, recordVars,
                 outcome>>

Deliver == received' = [received EXCEPT ![dest] = @ \union {part}]

FaultyAccepted == UNCHANGED received /\ pc' = "receipt"

Exhausted == attempt >= MaxAttempts

(* Telegram's answers: the part is accepted; refused for good; or there is *)
(* a transient error, an answer lost on the way included.                  *)
Accepted == Deliver /\ pc' = "receipt"

Answer ==
  /\ pc = "await"
  /\ \/ Accepted /\ UNCHANGED <<dest, active, completed>>
     \/ GiveUp /\ UNCHANGED received
     \/ /\ Deliver \/ UNCHANGED received
        /\ \/ Exhausted /\ GiveUp
           \/ /\ ~Exhausted
              /\ pc' = "try"
              /\ UNCHANGED <<dest, active, completed>>
  /\ UNCHANGED <<token, dumpVars, files, count, notices, part, attempt, sent, recordVars,
                 outcome>>

(* The connection breaks after the head of the answer: reading the rest    *)
(* returns the error at once.                                              *)
BodyLost ==
  /\ pc = "await"
  /\ Deliver
  /\ GiveUp
  /\ UNCHANGED <<token, dumpVars, files, count, notices, part, attempt, sent, recordVars,
                 outcome>>

Receipt ==
  /\ pc = "receipt"
  /\ \/ /\ ~token
        /\ pc' = "record"
        /\ UNCHANGED <<dest, active, completed>>
     \/ token /\ GiveUp
  /\ UNCHANGED <<token, dumpVars, files, count, notices, part, attempt, sent, received,
                 recordVars, outcome>>

(* manifest_part and record_part; the file may be out of reach.            *)
RecordPart ==
  /\ pc = "record"
  /\ \/ /\ recorded' = recorded \union {<<part, dest>>}
        /\ dest' = dest + 1
        /\ pc' = "dest"
        /\ UNCHANGED <<active, completed>>
     \/ GiveUp /\ UNCHANGED recorded
  /\ UNCHANGED <<token, dumpVars, files, count, notices, part, attempt, sent, received,
                 manifest, outcome>>

(* chunk::remove, then after_chunk, which adds the size of the file that   *)
(* is there.                                                               *)
RemovePart ==
  /\ files' = files \ {part}
  /\ sent' = sent + (IF part \in files' THEN 1 ELSE 0)

PartDone ==
  /\ pc = "remove"
  /\ RemovePart
  /\ part' = part + 1
  /\ pc' = "chunk"
  /\ UNCHANGED <<token, dumpVars, count, notices, dest, attempt, active, completed,
                 received, recordVars, outcome>>

-----------------------------------------------------------------------------
(* The end of the run.                                                     *)

CanComplete == \A k \in Packaged : \E d \in Destinations : <<k, d>> \in recorded

FaultyComplete ==
  /\ pc = "complete"
  /\ manifest' \in {"complete", manifest}
  /\ pc' = "notice"
  /\ UNCHANGED <<token, dumpVars, files, count, notices, uploadVars, recorded, outcome>>

(* ManifestStore::complete refuses an entry with a part missing.           *)
Complete ==
  /\ pc = "complete"
  /\ \/ /\ CanComplete
        /\ manifest' = "complete"
        /\ pc' = "notice"
        /\ UNCHANGED <<dumpVars, outcome>>
     \/ /\ Return("failure")
        /\ UNCHANGED manifest
  /\ UNCHANGED <<token, files, count, notices, uploadVars, recorded>>

Announce ==
  /\ pc = "notice"
  /\ Return("success")
  /\ UNCHANGED <<token, files, count, notices, uploadVars, recordVars>>

FaultyKeeps == outcome = "success" \/ KeepFailedDumps

(* KEEP_FAILED_DUMPS keeps the parts of a failed run, not of a cancelled   *)
(* one.                                                                    *)
Keeps == outcome = "success" \/ (KeepFailedDumps /\ outcome = "failure")

Sweep ==
  /\ pc = "sweep"
  /\ files' = IF Keeps THEN files ELSE {}
  /\ pc' = "over"
  /\ UNCHANGED <<token, dumpVars, count, notices, uploadVars, recordVars, outcome>>

-----------------------------------------------------------------------------
(* What goes on beside the pipeline.                                       *)

(* pg_dump closes its output and exits, in order or not.                   *)
ChildStep ==
  /\ \/ child = "running" /\ child' = "closed"
     \/ child = "closed" /\ child' \in {"ok", "bad"}
  /\ pc # "crashed"
  /\ UNCHANGED <<pc, token, timedOut, files, count, notices, uploadVars, recordVars, outcome>>

FaultyWatchdog ==
  /\ child \in {"running", "closed"}
  /\ pc # "crashed"
  /\ timedOut' = TRUE
  /\ UNCHANGED <<pc, token, child, files, count, notices, uploadVars, recordVars, outcome>>

(* The watchdog holds the child's lock from its look to the flag, and is   *)
(* joined before finish reads the flag.  pg_dump may end by itself between *)
(* the look and the kill.                                                  *)
Watchdog ==
  /\ child \in {"running", "closed"}
  /\ pc # "crashed"
  /\ child' \in {"killed", "ok", "bad"}
  /\ timedOut' = TRUE
  /\ UNCHANGED <<pc, token, files, count, notices, uploadVars, recordVars, outcome>>

Cancel ==
  /\ pc \notin {"over", "crashed"}
  /\ token' = TRUE
  /\ UNCHANGED <<pc, dumpVars, files, count, notices, uploadVars, recordVars, outcome>>

(* The process dies: files, manifest and chats stay as they are.           *)
Crash ==
  /\ pc \notin {"over", "crashed"}
  /\ pc' = "crashed"
  /\ UNCHANGED <<token, dumpVars, files, count, notices, uploadVars, recordVars, outcome>>

Pipeline ==
  \/ Spawn \/ StopIfCancelled \/ Read \/ ReadEof \/ FinishSink \/ Reap \/ Begin
  \/ SendSummary \/ NextPart \/ UploadOver \/ NextDestination \/ DestinationsDone
  \/ Post \/ Answer \/ BodyLost \/ Receipt \/ RecordPart \/ PartDone
  \/ Complete \/ Announce \/ Sweep

Next == Pipeline \/ ReadSome \/ ChildStep \/ Watchdog \/ Cancel \/ Crash

(* The client gives every request a timeout of five minutes, so an answer  *)
(* or an error comes.  pg_dump may hang, and a read of its output with it; *)
(* the watchdog does not; what a pipe still holds of a dead writer is      *)
(* finite, so its reader gets to the end.                                  *)
Fairness == WF_vars(Pipeline) /\ WF_vars(Watchdog) /\ SF_vars(ReadEof)

Spec == Init /\ [][Next]_vars
FairSpec == Spec /\ Fairness

-----------------------------------------------------------------------------
(* A backup is offered for restoring only when pg_dump ended well, in      *)
(* time, and every part of it is held by Telegram, whenever the process    *)
(* dies and whoever cancels: nobody finds out at restore time that the     *)
(* dump is cut short or a part missing (DumpPipe::finish, record_part).    *)
RestorableIsWhole ==
  manifest = "complete" =>
    /\ child = "ok" /\ ~timedOut
    /\ \A k \in Packaged : \E d \in Destinations : <<k, d>> \in recorded /\ k \in received[d]

(* When a destination got every part, the manifest has every part, so      *)
(* complete does not turn a good upload into a failure: the two books kept *)
(* of one upload agree (completed against record_part).                    *)
BooksAgree == pc = "complete" => CanComplete

(* Nothing is sent of a dump that pg_dump did not end well, in time: the   *)
(* exit status is looked at after the stream and before the upload.        *)
OnlyGoodDumps == (\E d \in Destinations : received[d] # {}) => child = "ok" /\ ~timedOut

(* A run leaves no pg_dump behind, and no parts but those of a failure an  *)
(* operator asked to keep (run_database's sweep).                          *)
NothingLeft ==
  pc = "over" => /\ child \notin {"running", "closed"}
                 /\ files # {} => KeepFailedDumps /\ outcome = "failure"

(* A part stays on disk until every destination still active has it, and   *)
(* the manifest says so (the doc of upload_chunks_to_destinations).        *)
KeptUntilSent ==
  [][\A k \in files \ files' : outcome = "none" =>
       \A d \in Destinations : active[d] => <<k, d>> \in recorded]_vars

(* A run ends, whatever hangs: a stuck pg_dump is killed, retries are      *)
(* bounded, and a cancellation is noticed in every loop.                   *)
Terminates == <>(pc \in {"over", "crashed"})

(* How far a run has come, to be compared place by place: the phase, the   *)
(* part, what is done with the part, the destination, the attempt.         *)
Phase ==
  CASE pc = "spawn" -> 0
    [] pc \in {"loop", "read"} -> 1
    [] pc = "finish" -> 2
    [] pc = "reap" -> 3
    [] pc = "begin" -> 4
    [] pc = "summary" -> 5
    [] pc \in {"chunk", "dest", "try", "await", "receipt", "record", "remove"} -> 6
    [] pc = "complete" -> 7
    [] pc = "notice" -> 8
    [] pc = "sweep" -> 9
    [] OTHER -> 10
Lap   == CASE pc = "chunk" -> 0 [] pc = "remove" -> 2 [] OTHER -> 1
Stint == IF pc = "dest" THEN 0 ELSE 1
Turn  == CASE pc = "await" -> 0 [] pc = "record" -> 2 [] OTHER -> 1

Then(x, y, rest) == x < y \/ (x = y /\ rest)
Ahead ==
  Then(Phase, Phase',
  Then(notices', notices,
  Then(part, part',
  Then(Lap, Lap',
  Then(dest, dest',
  Then(Stint, Stint',
  Then(attempt, attempt',
  Turn < Turn')))))))

(* Once the dump has been read every step of a run brings it nearer to its *)
(* end, of which it is a bounded number of steps away: no loop goes round  *)
(* without something used up (upload_chunks_to_destinations and the loop   *)
(* of sendDocument).                                                       *)
AlwaysAhead == [][Pipeline /\ pc \notin {"loop", "read"} => Ahead]_vars

Artifact == INSTANCE BackupArtifact WITH
  size <- count,
  held <- UNION {received[d] : d \in Destinations},
  offered <- manifest = "complete",
  verdict <- outcome

(* The pipeline keeps the promise of BackupArtifact: among the rest, the   *)
(* history says success exactly of a backup that is offered.               *)
ImplementsArtifact == Artifact!Spec

-----------------------------------------------------------------------------
(* What the documents say, and the code does not do.                       *)

(* A part is deleted from WORK_DIR after Telegram accepts it (README).     *)
DeletedWhenAccepted ==
  [][pc = "remove" => \A k \in files \ files' : \E d \in Destinations : k \in received[d]]_vars

(* The card's bytes_done are the bytes uploaded so far in this run.        *)
BytesDoneCounts == pc = "chunk" => sent = part - 1

(* A transport error is retried up to five attempts in all (README).       *)
TransportErrorsRetried ==
  [][pc = "await" /\ active # active' /\ part \in received'[dest] => attempt = MaxAttempts]_vars

(* The operator was told the run is cancelled before its upload was over:  *)
(* it is not written down as a failure.                                    *)
CancelledIsNoFailure == [][pc = "chunk" /\ token => outcome' # "failure"]_vars
=============================================================================
