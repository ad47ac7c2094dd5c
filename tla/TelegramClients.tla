-------------------------- MODULE TelegramClients ---------------------------
(***************************************************************************)
(* Those who talk to Telegram, together: the bot, the history worker and   *)
(* any number of others - the pipelines of backups and restores, alerts,   *)
(* the checks of the dashboard - over the one lock of src/telegram.rs,     *)
(* with the appends to the history, the summaries of the dashboard and a   *)
(* process that may die at any point.                                      *)
(*                                                                         *)
(* jobs bounds what comes from outside - updates, edits, records, months,  *)
(* firings and the operations of the others - all together.                *)
(***************************************************************************)
EXTENDS TelegramBot, HistoryUpload

CONSTANTS
  MaxJobs,     \* bound
  MaxCrashes   \* bound

ASSUME ClientsAssumption ==
  /\ Bot # Worker
  /\ MaxJobs \in Nat /\ MaxCrashes \in Nat

VARIABLES jobs, crashes

vars == <<opVars, botVars, monthVars, readerVars, uploadVars, jobs, crashes>>

historyVars == <<monthVars, readerVars, uploadVars>>

Init ==
  /\ OpsInit /\ BotInit /\ MonthsInit /\ UploadInit
  /\ jobs = 0 /\ crashes = 0

Up == bot # "down"

\* Those of whom only their operations matter here.
Others == Callers \ {Bot, Worker}

\* send_message, send_document and test_api_at wait for the lock, the check of
\* the dashboard does not.
Operation(p) == Call(p) \/ (Kind[p] = "check" /\ TryTake(p))

\* What comes from outside, as long as the bound lasts.
Job == jobs < MaxJobs /\ jobs' = jobs + 1 /\ UNCHANGED crashes

Outside ==
  /\ Job
  /\ \/ /\ \/ \E u \in Updates : Arrive(u)
           \/ Up /\ \E c \in Chats : EditUser(c)
           \/ Up /\ \E d \in DBs : EditDatabase(d)
        /\ UNCHANGED historyVars
     \/ /\ Up
        /\ Later \/ \E m \in Months : AppendRecord(m) \/ AppendTears(m)
        /\ UNCHANGED <<opVars, botVars, uploadVars>>
     \/ Up /\ Fire /\ UNCHANGED botVars
     \/ /\ Up /\ \E p \in Others : Operation(p)
        /\ UNCHANGED <<botVars, historyVars>>

NoJob == UNCHANGED <<jobs, crashes>>

BotStep    == Up /\ BotSteps /\ NoJob /\ UNCHANGED historyVars
BotPoll    == Poll /\ NoJob /\ UNCHANGED historyVars
BotNoPoll  == PollFails /\ NoJob /\ UNCHANGED historyVars
WorkerStep == Up /\ WorkerSteps /\ NoJob /\ UNCHANGED botVars

\* A caller that waits gets the lock, and goes on with its operation.
Lock(p)  == Take(p) /\ NoJob /\ UNCHANGED <<botVars, historyVars>>
Work(p)  == Operate(p) /\ NoJob /\ UNCHANGED <<botVars, historyVars>>

Scheduler == \E d \in DBs : Schedule(d) /\ NoJob /\ UNCHANGED historyVars
Summary(r) == Up /\ (Ask(r) \/ Read(r)) /\ NoJob /\ UNCHANGED <<opVars, botVars, uploadVars>>

\* The copy and the parts of an upload that was under way stay in the work
\* directory, under names no later upload uses.
Crash ==
  /\ crashes < MaxCrashes /\ crashes' = crashes + 1
  /\ OpsCrash /\ BotCrash /\ Fresh
  /\ reading' = [r \in Readers |-> {}]
  /\ seen' = [r \in Readers |-> Empty] /\ expected' = [r \in Readers |-> Empty]
  /\ UNCHANGED <<monthVars, jobs>>

Start == BotStart /\ NoJob /\ UNCHANGED <<opVars, historyVars>>

Next ==
  \/ Outside
  \/ BotStep \/ BotPoll \/ BotNoPoll \/ WorkerStep
  \/ \E p \in Callers : Lock(p) \/ Work(p)
  \/ Scheduler
  \/ \E r \in Readers : Summary(r)
  \/ Crash \/ Start

Spec == Init /\ [][Next]_vars

\* The threads go on, the lock is given to those who wait for it (their number
\* is bounded here, so it is free again and again), the process is started
\* again, and a poll is answered sooner or later.
Fairness ==
  /\ WF_vars(BotStep) /\ WF_vars(BotPoll) /\ WF_vars(WorkerStep) /\ WF_vars(Start)
  /\ \A p \in Callers : WF_vars(Lock(p)) /\ WF_vars(Work(p))

FairSpec == Spec /\ Fairness

-----------------------------------------------------------------------------
TypeOK ==
  /\ OpsTypeOK /\ BotTypeOK /\ MonthsTypeOK /\ UploadTypeOK
  /\ jobs \in 0..MaxJobs /\ crashes \in 0..MaxCrashes

\* An update is handled once for every life of the process at most: a poll
\* whose answer is lost, a retry or a batch does not bring it twice.
HandledOncePerLife == \A u \in 1..MaxUpdates : handled[u] <= 1 + crashes

\* Between Telegram and the bot no update is lost, and none is handled twice
\* unless the process died: the offset is raised before an update is handled
\* and told after its batch is.
UpdatesKept == HandledBeforeForgotten /\ HandledOncePerLife

\* Whoever waits for Telegram is served: every update is handled and every
\* upload ends, although all of them share one lock.
Served == UpdatesHandled /\ UploadEnds
=============================================================================
