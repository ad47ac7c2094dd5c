--------------------------- MODULE HistoryUpload ----------------------------
(***************************************************************************)
(* The history upload worker of src/main.rs: at each firing it copies the  *)
(* current month, splits the copy into parts and sends every part to every *)
(* destination that has taken all parts before it.  It shares the lock of  *)
(* TelegramOps with the rest and the months of HistoryMonths with the      *)
(* backups that append to them.                                            *)
(*                                                                         *)
(* Data abstracted: a part holds one record, or all of the month that      *)
(* cannot be read.                                                         *)
(***************************************************************************)
EXTENDS TelegramOps, HistoryMonths

CONSTANTS
  Worker,       \* the caller that is the worker
  NumDests      \* how many destinations there are

ASSUME UploadAssumption ==
  /\ Worker \in Callers /\ Kind[Worker] = "upload"
  /\ NumDests \in Nat

VARIABLES
  worker,     \* where the worker is
  copy,       \* the lines of the copy in the work directory; 0: no copy
  parts,      \* the parts in the work directory
  part, dest, \* the loops over both
  active,     \* the destinations that still take part
  got,        \* the parts each destination has, of this upload
  outcome     \* of the upload

uploadVars == <<worker, copy, parts, part, dest, active, got, outcome>>

Dests == 1..NumDests

MaxCopy == MaxRecords + 1

UploadTypeOK ==
  /\ worker \in {"sleep", "split", "send", "sent", "clean"}
  /\ copy \in 0..MaxCopy
  /\ parts \in SUBSET (1..MaxCopy)
  /\ part \in 1..MaxCopy + 1 /\ dest \in 1..NumDests + 1
  /\ active \in SUBSET Dests
  /\ got \in [Dests -> SUBSET (1..MaxCopy)]
  /\ outcome \in {"none", "ok", "failed"}

Fresh ==
  /\ worker' = "sleep"
  /\ copy' = 0 /\ parts' = {} /\ part' = 1 /\ dest' = 1
  /\ active' = Dests /\ got' = [d \in Dests |-> {}]
  /\ outcome' = "none"

UploadInit ==
  /\ worker = "sleep"
  /\ copy = 0 /\ parts = {} /\ part = 1 /\ dest = 1
  /\ active = Dests /\ got = [d \in Dests |-> {}]
  /\ outcome = "none"

\* The schedule fires.  An empty file is skipped, a copy that fails removed.
Fire ==
  /\ worker = "sleep" /\ Active > 0
  /\ copy' = Active
  /\ worker' = "split"
  /\ UNCHANGED <<opVars, monthVars, readerVars, parts, part, dest, active, got, outcome>>

Ended(how) == worker' = "clean" /\ outcome' = how

\* chunk_history_snapshot; when it fails, the parts so far are there.  Without
\* a destination nothing is sent.
Split ==
  /\ worker = "split"
  /\ \/ /\ NumDests > 0
        /\ parts' = 1..copy
        /\ worker' = "send"
        /\ UNCHANGED outcome
     \/ \E n \in 0..copy : parts' = 1..n /\ Ended("failed")
  /\ UNCHANGED <<opVars, monthVars, readerVars, copy, part, dest, active, got>>

\* upload_chunks_to_destinations: the next destination that is still active.
Send ==
  /\ worker = "send" /\ part <= copy /\ dest \in active
  /\ Call(Worker)
  /\ worker' = "sent"
  /\ UNCHANGED <<monthVars, readerVars, copy, parts, part, dest, active, got, outcome>>

FaultyDropped == UNCHANGED active /\ dest' = dest + 1 \* it goes on with the next part

\* The destination that failed gets no further part.
Dropped == active' = active \ {dest} /\ dest' = dest + 1

Sent ==
  /\ worker = "sent" /\ call[Worker] = "out"
  /\ worker' = "send"
  /\ IF result[Worker] = "ok"
     THEN /\ got' = [got EXCEPT ![dest] = @ \union {part}]
          /\ dest' = dest + 1
          /\ UNCHANGED active
     ELSE /\ Dropped
          /\ got' \in {got, [got EXCEPT ![dest] = @ \union {part}]} \* the answer was lost
  /\ UNCHANGED <<opVars, monthVars, readerVars, copy, parts, part, outcome>>

Skip ==
  /\ worker = "send" /\ part <= copy /\ dest \in Dests \ active
  /\ dest' = dest + 1
  /\ UNCHANGED <<opVars, monthVars, readerVars, worker, copy, parts, part, active, got, outcome>>

\* Every destination was tried: the part goes.  With nobody left the loop ends.
PartDone ==
  /\ worker = "send" /\ part <= copy /\ dest > NumDests
  /\ parts' = parts \ {part}
  /\ part' = part + 1
  /\ dest' = 1
  /\ IF active = {} THEN Ended("failed") ELSE UNCHANGED <<worker, outcome>>
  /\ UNCHANGED <<opVars, monthVars, readerVars, copy, active, got>>

AllSent ==
  /\ worker = "send" /\ part > copy
  /\ Ended(IF active # {} THEN "ok" ELSE "failed")
  /\ UNCHANGED <<opVars, monthVars, readerVars, copy, parts, part, dest, active, got>>

\* cleanup_prefix and the removal of the copy, however it ended.
Clean ==
  /\ worker = "clean"
  /\ Fresh
  /\ UNCHANGED <<opVars, monthVars, readerVars>>

WorkerSteps == Split \/ Send \/ Sent \/ Skip \/ PartDone \/ AllSent \/ Clean

-----------------------------------------------------------------------------
\* An upload that reports success has brought the whole copy, and so all
\* that the month's file had when it fired, to at least one destination, whoever
\* else used Telegram between its parts ("A destination is complete only if it
\* receives every chunk").
UploadWhole == outcome = "ok" => \E d \in Dests : got[d] = 1..copy

\* A part leaves the work directory only after every destination that is
\* still active has taken it.
PartsKept == worker \in {"send", "sent"} =>
  \A p \in 1..copy : p \in parts \/ \A d \in active : p \in got[d]

\* An upload comes to an end.
UploadEnds == worker # "sleep" ~> worker = "sleep"
=============================================================================
