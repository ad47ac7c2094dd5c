--------------------------- MODULE HistoryMonths ----------------------------
(***************************************************************************)
(* HistoryStore of src/history.rs: one file of records per month, the      *)
(* append of a record and the removal of old months, the copy of the       *)
(* current month for the upload, and the summary the dashboard asks for.   *)
(*                                                                         *)
(* append and snapshot_active have the store's lock from beginning to end  *)
(* and are one step each; summary has none, and reads file after file.     *)
(* Data abstracted: a record is the month it began in and its number in    *)
(* that month; months are numbered; all records are of one database.       *)
(***************************************************************************)
EXTENDS Naturals, FiniteSets

CONSTANTS
  Retention,   \* HISTORY_RETENTION_MONTHS
  LastMonth,   \* bound: how far the clock goes
  MaxRecords,  \* bound: the records of a month
  Readers      \* bound: summaries asked for at one time

ASSUME MonthsAssumption ==
  /\ Retention \in Nat \ {0} /\ LastMonth \in Nat \ {0} /\ MaxRecords \in Nat

VARIABLES
  now,      \* the month of universal time
  months,   \* the months that have a file
  lines,    \* how many lines of each month's file can be read
  stored,   \* how many records of each month append said to have stored
  torn,     \* the months whose file ends within a record
  reading,  \* the months a summary has still to read; empty: it is not at work
  seen,     \* how many records of each month it has read
  expected  \* how many there were when it was asked for

monthVars  == <<now, months, lines, stored, torn>>
readerVars == <<reading, seen, expected>>

Months == 1 .. LastMonth

MonthsTypeOK ==
  /\ now \in Months
  /\ months \in SUBSET Months /\ torn \in SUBSET months
  /\ lines \in [Months -> 0..MaxRecords] /\ stored \in [Months -> 0..MaxRecords]
  /\ reading \in [Readers -> SUBSET Months]
  /\ seen \in [Readers -> [Months -> 0..MaxRecords]]
  /\ expected \in [Readers -> [Months -> 0..MaxRecords]]

Empty == [m \in Months |-> 0]

MonthsInit ==
  /\ now = 1
  /\ months = {} /\ torn = {}
  /\ lines = Empty /\ stored = Empty
  /\ reading = [r \in Readers |-> {}]
  /\ seen = [r \in Readers |-> Empty]
  /\ expected = [r \in Readers |-> Empty]

\* The next thing happens in a later month.
Later ==
  /\ now' \in {m \in Months : m > now}
  /\ UNCHANGED <<months, lines, stored, torn, readerVars>>

\* remove_old_files: what is older than the retention, seen from month m.
Old(m) == {k \in months : k + Retention <= m}

\* The record of an attempt that began in this month or the one before.  It is
\* written before the old months are removed, in whatever order the directory
\* has; that may fail at any of them, and the record stays.  Behind a torn end
\* it becomes part of a line nobody can read.
AppendRecord(m) ==
  /\ m \in {now, now - 1} /\ m > 0 /\ stored[m] < MaxRecords
  /\ \E gone \in SUBSET Old(m) :
       /\ months' = (months \union {m}) \ gone
       /\ stored' = [k \in Months |-> IF k \in gone THEN 0
                                      ELSE IF k = m THEN stored[m] + 1 ELSE stored[k]]
       /\ lines' = [k \in Months |-> IF k \in gone THEN 0
                                     ELSE IF k = m /\ m \notin torn THEN lines[m] + 1 ELSE lines[k]]
       /\ torn' = (torn \ {m}) \ gone
  /\ UNCHANGED <<now, readerVars>>

\* The disk takes a part of the record: an error, and a torn end.
AppendTears(m) ==
  /\ m \in {now, now - 1} /\ m > 0
  /\ months' = months \union {m} /\ torn' = torn \union {m}
  /\ UNCHANGED <<now, lines, stored, readerVars>>

\* snapshot_active: the file of the current month of universal time, with what
\* is in it that cannot be read, as one line more.
Garbled(m) == m \in torn \/ lines[m] < stored[m]

Active == IF now \notin months THEN 0 ELSE lines[now] + (IF Garbled(now) THEN 1 ELSE 0)

\* summary: the names of the files first, ...
Ask(r) ==
  /\ reading[r] = {} /\ expected[r] = Empty /\ months # {} \* bound: one for each life
  /\ reading' = [reading EXCEPT ![r] = months]
  /\ expected' = [expected EXCEPT ![r] = lines]
  /\ seen' = [seen EXCEPT ![r] = Empty]
  /\ UNCHANGED monthVars

Forget(r) ==
  /\ reading' = [reading EXCEPT ![r] = {}]
  /\ expected' = [expected EXCEPT ![r] = Empty]
  /\ seen' = [seen EXCEPT ![r] = Empty]

Oldest(r) == CHOOSE m \in reading[r] : \A k \in reading[r] : m <= k

FaultyGone(r) == UNCHANGED <<seen, expected>> /\ reading' = [reading EXCEPT ![r] = @ \ {Oldest(r)}]

\* A file that is gone is an error: there is no answer.
Gone(r) == Forget(r)

\* ... then one file after the other.
Read(r) ==
  /\ reading[r] # {}
  /\ IF Oldest(r) \notin months THEN Gone(r)
     ELSE /\ seen' = [seen EXCEPT ![r][Oldest(r)] = lines[Oldest(r)]]
          /\ reading' = [reading EXCEPT ![r] = @ \ {Oldest(r)}]
          /\ UNCHANGED expected
  /\ UNCHANGED monthVars

-----------------------------------------------------------------------------
\* A month's file goes only when a record of a month that many later was
\* written: the retention counts months, the current one included, and a late
\* record of the last month must not take a file with it that this one keeps.
RetainedLongEnough ==
  [][\A m \in months \ months' : m + Retention <= now]_monthVars

\* A summary that answers has every record that could be read when it was
\* asked for, although records are appended and old months removed while it
\* goes from file to file without the store's lock.  (With a retention of one
\* month a late record brings a month back that was removed: see the README.)
SummaryComplete ==
  \A r \in Readers : reading[r] = {} => \A m \in Months : seen[r][m] >= expected[r][m]

\* "Malformed JSONL lines are ignored so one truncated record cannot hide the
\* rest of the dashboard history" (history.rs): what append has stored can be
\* read, after a record that was cut short too.
StoredIsRead == \A m \in months : lines[m] = stored[m]
=============================================================================
