---------------------------- MODULE TelegramOps -----------------------------
(***************************************************************************)
(* The Telegram client of src/telegram.rs as its callers share it: one     *)
(* process-wide lock around every upload, message and check, the label of  *)
(* the operation under way that the dashboard shows, and the attempts of   *)
(* one operation.  The bot's own requests (getUpdates, answers to          *)
(* callbacks) do not take the lock.                                        *)
(*                                                                         *)
(* Data abstracted: Telegram takes what it is given, refuses it for good,  *)
(* or fails in a way worth another try; delays are left out.               *)
(***************************************************************************)
EXTENDS Naturals

CONSTANTS
  Callers,     \* the threads that talk to Telegram
  Nobody,      \* nobody has the lock
  Kind,        \* the operation of each caller
  MaxAttempts  \* MAX_ATTEMPTS

ASSUME OpsAssumption ==
  /\ Nobody \notin Callers
  /\ Kind \in [Callers -> {"check", "upload", "message"}]
  /\ MaxAttempts \in Nat \ {0}

VARIABLES
  holder,   \* UPLOAD_LOCK
  label,    \* ACTIVE_OPERATION
  call,     \* where each caller is in its operation
  tries,    \* the attempts it has made
  result    \* what the last operation of each caller came to

opVars == <<holder, label, call, tries, result>>

Calls == {"out", "want", "named", "try", "release", "reset"}

OpsTypeOK ==
  /\ holder \in Callers \union {Nobody}
  /\ label \in {"idle", "check", "upload", "message"}
  /\ call \in [Callers -> Calls]
  /\ tries \in [Callers -> 0..MaxAttempts]
  /\ result \in [Callers -> {"none", "ok", "failed", "busy"}]

OpsInit ==
  /\ holder = Nobody
  /\ label = "idle"
  /\ call = [p \in Callers |-> "out"]
  /\ tries = [p \in Callers |-> 0]
  /\ result = [p \in Callers |-> "none"]

\* send_message, send_document and test_api_at wait for the lock.
Call(p) ==
  /\ call[p] = "out"
  /\ call' = [call EXCEPT ![p] = "want"]
  /\ result' = [result EXCEPT ![p] = "none"]
  /\ UNCHANGED <<holder, label, tries>>

Take(p) ==
  /\ call[p] = "want" /\ holder = Nobody
  /\ holder' = p
  /\ call' = [call EXCEPT ![p] = "named"]
  /\ UNCHANGED <<label, tries, result>>

\* try_test_api does not wait: a lock that is taken is an answer.
TryTake(p) ==
  /\ call[p] = "out"
  /\ IF holder = Nobody
     THEN /\ holder' = p
          /\ call' = [call EXCEPT ![p] = "named"]
          /\ result' = [result EXCEPT ![p] = "none"]
     ELSE /\ result' = [result EXCEPT ![p] = "busy"]
          /\ UNCHANGED <<holder, call>>
  /\ UNCHANGED <<label, tries>>

\* acquire_operation names the operation after it has the lock.
Name(p) ==
  /\ call[p] = "named"
  /\ label' = Kind[p]
  /\ call' = [call EXCEPT ![p] = "try"]
  /\ UNCHANGED <<holder, tries, result>>

\* A check is made once, a message and an upload up to MAX_ATTEMPTS times.
LastTry(p) == Kind[p] = "check" \/ tries[p] + 1 >= MaxAttempts

Ends(p, how) ==
  /\ call' = [call EXCEPT ![p] = "release"]
  /\ result' = [result EXCEPT ![p] = how]
  /\ tries' = [tries EXCEPT ![p] = 0]

\* Telegram's answer: accepted; refused, or not to be understood; worth
\* another try.
Attempt(p) ==
  /\ call[p] = "try"
  /\ \/ \E how \in {"ok", "failed"} : Ends(p, how)
     \/ IF LastTry(p) THEN Ends(p, "failed")
        ELSE tries' = [tries EXCEPT ![p] = @ + 1] /\ UNCHANGED <<call, result>>
  /\ UNCHANGED <<holder, label>>

\* OperationGuard::drop: the lock first, the label after it.
Release(p) ==
  /\ call[p] = "release"
  /\ holder' = Nobody
  /\ call' = [call EXCEPT ![p] = "reset"]
  /\ UNCHANGED <<label, tries, result>>

FaultyReset(p) == \* only when no one else has the lock: read before it is taken
  /\ call[p] = "reset"
  /\ label' = IF holder = Nobody /\ Kind[p] # "check" THEN "idle" ELSE label
  /\ call' = [call EXCEPT ![p] = "out"]
  /\ UNCHANGED <<holder, tries, result>>

Reset(p) ==
  /\ call[p] = "reset"
  /\ label' = "idle"
  /\ call' = [call EXCEPT ![p] = "out"]
  /\ UNCHANGED <<holder, tries, result>>

Operate(p) == Name(p) \/ Attempt(p) \/ Release(p) \/ Reset(p)

\* The process dies and its locks with it.
OpsCrash ==
  /\ holder' = Nobody
  /\ label' = "idle"
  /\ call' = [p \in Callers |-> "out"]
  /\ tries' = [p \in Callers |-> 0]
  /\ result' = [p \in Callers |-> "none"]

-----------------------------------------------------------------------------
\* When nobody is at an operation the lock is free and the label says so: the
\* dashboard's check is never refused on account of an operation that is over,
\* in whatever order guards that overlap were dropped.
QuietIsIdle ==
  (\A p \in Callers : call[p] \in {"out", "want"}) => holder = Nobody /\ label = "idle"
=============================================================================
