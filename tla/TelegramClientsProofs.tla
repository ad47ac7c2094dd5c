----------------------- MODULE TelegramClientsProofs ------------------------
(***************************************************************************)
(* Proofs about TelegramClients, for every number of updates, records,     *)
(* months, parts, destinations, readers and crashes.  Each of the four     *)
(* components has an invariant of its own over its own variables; a step   *)
(* of the whole is a step of theirs or leaves them alone.                  *)
(***************************************************************************)
EXTENDS TelegramClients, SequenceTheorems, TLAPS

(* The lock is with the caller that is inside; a label is somebody's who   *)
(* has still to reset it.                                                  *)
LockInv ==
  /\ OpsTypeOK
  /\ \A p \in Callers : call[p] \in {"named", "try", "release"} <=> holder = p
  /\ label # "idle" => \E p \in Callers : call[p] \in {"try", "release", "reset"}

(* Every step keeps what is known of the lock.                             *)
LEMMA LockStep ==
  LockInv /\ [Next]_vars => LockInv'
<1> SUFFICES ASSUME LockInv, [Next]_vars PROVE LockInv'
  OBVIOUS
<1> USE OpsAssumption DEF LockInv, OpsTypeOK, Calls, opVars
<1>1. ASSUME NEW p \in Callers, Call(p) PROVE LockInv'
  BY <1>1 DEF Call
<1>2. ASSUME NEW p \in Callers, Take(p) PROVE LockInv'
  BY <1>2 DEF Take
<1>3. ASSUME NEW p \in Callers, TryTake(p) PROVE LockInv'
  BY <1>3 DEF TryTake
<1>4. ASSUME NEW p \in Callers, Name(p) PROVE LockInv'
  BY <1>4 DEF Name
<1>5. ASSUME NEW p \in Callers, Attempt(p) PROVE LockInv'
  BY <1>5 DEF Attempt, Ends, LastTry
<1>6. ASSUME NEW p \in Callers, Release(p) PROVE LockInv'
  BY <1>6 DEF Release
<1>7. ASSUME NEW p \in Callers, Reset(p) PROVE LockInv'
  BY <1>7 DEF Reset
<1>8. CASE OpsCrash
  BY <1>8 DEF OpsCrash
<1>9. CASE UNCHANGED opVars
  BY <1>9
<1>10. Bot \in Callers /\ Worker \in Callers /\ Others \subseteq Callers
  BY BotAssumption, UploadAssumption DEF Others
<1>. QED
  <2>1. CASE Outside
    <3>1. ASSUME NEW p \in Others, Operation(p) PROVE LockInv'
      BY <3>1, <1>1, <1>3, <1>10 DEF Operation
    <3>. QED BY <2>1, <3>1, <1>9 DEF Outside, Arrive, EditUser, EditDatabase, Fire
  <2>2. CASE BotStep
    BY <2>2, <1>1, <1>9, <1>10 DEF BotStep, BotSteps, BotOnly, TakeUpdate, BatchDone, List,
      CreateUser, FindUser, Toast, AskKnown, AskEnabled, Request, WriteCard, Reply, Replied
  <2>3. CASE BotPoll \/ BotNoPoll \/ Scheduler \/ Start
    BY <2>3, <1>9 DEF BotPoll, BotNoPoll, Poll, PollFails, Scheduler, Schedule, Start
  <2>4. CASE WorkerStep
    BY <2>4, <1>1, <1>9, <1>10 DEF WorkerStep, WorkerSteps, Split, Send, Sent, Skip, PartDone,
      AllSent, Clean
  <2>5. ASSUME NEW p \in Callers, Lock(p) \/ Work(p) PROVE LockInv'
    BY <2>5, <1>2, <1>4, <1>5, <1>6, <1>7 DEF Lock, Work, Operate
  <2>6. ASSUME NEW r \in Readers, Summary(r) PROVE LockInv'
    BY <2>6, <1>9 DEF Summary
  <2>7. CASE Crash
    BY <2>7, <1>8 DEF Crash
  <2>8. CASE UNCHANGED vars
    BY <2>8, <1>9 DEF vars
  <2>. QED BY <2>1, <2>2, <2>3, <2>4, <2>5, <2>6, <2>7, <2>8 DEF Next

(* When nobody is at an operation the lock is free and the label says so,  *)
(* for any set of callers with the bot and the worker among them           *)
(* (OperationGuard::drop).                                                 *)
THEOREM QuietCorrect == Spec => []QuietIsIdle
<1>1. Init => LockInv
  BY OpsAssumption, ClientsAssumption DEF Init, OpsInit, LockInv, OpsTypeOK, Calls
<1>2. LockInv => QuietIsIdle
  BY DEF LockInv, OpsTypeOK, QuietIsIdle
<1>. QED BY <1>1, <1>2, LockStep, PTL DEF Spec

-----------------------------------------------------------------------------
(* The months.  A month of which a summary must have records is there with *)
(* all of them, or is so old that no record of it can come any more: the   *)
(* retention has to keep the month that a late record may still be of.     *)
ReaderSafe(r, m) ==
  /\ m \in months => lines[m] >= expected[r][m]
  /\ m \notin months => expected[r][m] = 0 \/ m + Retention <= now
  /\ m \notin reading[r] => seen[r][m] >= expected[r][m]

MonthsInv ==
  /\ MonthsTypeOK
  /\ \A m \in Months : lines[m] <= stored[m] /\ (m \notin months => lines[m] = 0)
  /\ Retention >= 2 => \A r \in Readers, m \in Months : ReaderSafe(r, m)

LEMMA MonthsAreNumbers ==
  /\ \A m \in Months : m \in Nat /\ m > 0
  /\ Retention \in Nat /\ Retention >= 1 /\ MaxRecords \in Nat
BY MonthsAssumption DEF Months

(* What a summary knows of a month stands when the month gets longer, or   *)
(* goes when it is old, or when a month that was not there is recent.      *)
LEMMA ReaderStaysSafe ==
  ASSUME MonthsInv, Retention >= 2, UNCHANGED readerVars, now' = now,
         NEW r \in Readers, NEW k \in Months,
         lines' \in [Months -> 0..MaxRecords],
         k \in months /\ k \in months' => lines'[k] >= lines[k],
         k \in months /\ k \notin months' => k + Retention <= now,
         k \notin months /\ k \in months' => k + 1 >= now
  PROVE  ReaderSafe(r, k)'
<1>1. ReaderSafe(r, k) /\ expected[r][k] \in Nat /\ lines[k] \in Nat /\ lines'[k] \in Nat
  BY MonthsAreNumbers DEF MonthsInv, MonthsTypeOK
<1>2. now \in Nat /\ k \in Nat
  BY MonthsAreNumbers DEF MonthsInv, MonthsTypeOK
<1>3. reading' = reading /\ seen' = seen /\ expected' = expected
  BY DEF readerVars
<1>4. k \in months' => lines'[k] >= expected[r][k]
  BY <1>1, <1>2, MonthsAreNumbers DEF ReaderSafe
<1>5. k \notin months' => expected[r][k] = 0 \/ k + Retention <= now
  BY <1>1, <1>2 DEF ReaderSafe
<1>. QED BY <1>1, <1>3, <1>4, <1>5 DEF ReaderSafe

(* An append keeps it: the months it removes are old, the month it adds to *)
(* is not, and it makes no month shorter.                                  *)
LEMMA AppendKeepsMonths ==
  ASSUME MonthsInv, NEW m \in Months, AppendRecord(m) \/ AppendTears(m)
  PROVE  MonthsInv'
<1>1. CASE AppendTears(m)
  <2>1. /\ m \in {now, now - 1} /\ months' = months \union {m} /\ torn' = torn \union {m}
        /\ UNCHANGED <<now, lines, stored, readerVars>>
    BY <1>1 DEF AppendTears
  <2>2. MonthsTypeOK'
    BY <2>1 DEF MonthsInv, MonthsTypeOK, readerVars
  <2>3. \A k \in Months : lines'[k] <= stored'[k] /\ (k \notin months' => lines'[k] = 0)
    BY <2>1 DEF MonthsInv
  <2>4. ASSUME Retention >= 2, NEW r \in Readers, NEW k \in Months PROVE ReaderSafe(r, k)'
    <3>1. now \in Nat /\ lines' \in [Months -> 0..MaxRecords] /\ lines'[k] >= lines[k]
      BY <2>1, MonthsAreNumbers DEF MonthsInv, MonthsTypeOK
    <3>2. k \notin months /\ k \in months' => k + 1 >= now
      BY <2>1, <3>1, MonthsAreNumbers
    <3>3. k \in months => k \in months'
      BY <2>1
    <3>. QED BY <2>1, <2>4, <3>1, <3>2, <3>3, ReaderStaysSafe
  <2>. QED BY <2>2, <2>3, <2>4 DEF MonthsInv
<1>2. CASE AppendRecord(m)
  <2>1. PICK gone \in SUBSET Old(m) :
          /\ months' = (months \union {m}) \ gone
          /\ stored' = [k \in Months |-> IF k \in gone THEN 0
                                         ELSE IF k = m THEN stored[m] + 1 ELSE stored[k]]
          /\ lines' = [k \in Months |-> IF k \in gone THEN 0
                                        ELSE IF k = m /\ m \notin torn THEN lines[m] + 1 ELSE lines[k]]
          /\ torn' = (torn \ {m}) \ gone
    BY <1>2 DEF AppendRecord
  <2>2. m \in {now, now - 1} /\ stored[m] < MaxRecords /\ now' = now /\ UNCHANGED readerVars
    BY <1>2 DEF AppendRecord
  <2>3. \A k \in gone : k \in months /\ k + Retention <= m
    BY <2>1 DEF Old
  <2>4. \A k \in Months : lines[k] \in 0..MaxRecords /\ stored[k] \in 0..MaxRecords
                          /\ lines[k] <= stored[k]
    BY DEF MonthsInv, MonthsTypeOK
  <2>5. /\ stored' \in [Months -> 0..MaxRecords] /\ lines' \in [Months -> 0..MaxRecords]
        /\ \A k \in Months : lines'[k] <= stored'[k]
    BY <2>1, <2>2, <2>4, MonthsAreNumbers
  <2>6. m \notin gone
    BY <2>3, MonthsAreNumbers
  <2>7. \A k \in Months : k \notin months' => lines'[k] = 0
    BY <2>1, <2>6 DEF MonthsInv
  <2>8. MonthsTypeOK'
    BY <2>1, <2>2, <2>5 DEF MonthsInv, MonthsTypeOK, readerVars
  <2>9. ASSUME Retention >= 2, NEW r \in Readers, NEW k \in Months PROVE ReaderSafe(r, k)'
    <3>1. k \in months /\ k \in months' => lines'[k] >= lines[k]
      BY <2>1, <2>4, MonthsAreNumbers
    <3>2. now \in Nat
      BY MonthsAreNumbers DEF MonthsInv, MonthsTypeOK
    <3>3. k \in months /\ k \notin months' => k + Retention <= now
      BY <2>1, <2>2, <2>3, <3>2, MonthsAreNumbers
    <3>4. k \notin months /\ k \in months' => k + 1 >= now
      BY <2>1, <2>2, <3>2, MonthsAreNumbers
    <3>. QED BY <2>2, <2>5, <2>9, <3>1, <3>3, <3>4, ReaderStaysSafe
  <2>. QED BY <2>5, <2>7, <2>8, <2>9 DEF MonthsInv
<1>. QED BY <1>1, <1>2

(* So does every step of a summary: it is given what there is when it is   *)
(* asked for, and reads no less.                                           *)
LEMMA SummaryKeepsMonths ==
  ASSUME MonthsInv, NEW r \in Readers, Ask(r) \/ Read(r)
  PROVE  MonthsInv'
<1>1. UNCHANGED monthVars
  BY DEF Ask, Read
<1>2. \A k \in Months : lines[k] \in 0..MaxRecords
  BY DEF MonthsInv, MonthsTypeOK
<1>3. SUFFICES /\ reading' \in [Readers -> SUBSET Months]
               /\ seen' \in [Readers -> [Months -> 0..MaxRecords]]
               /\ expected' \in [Readers -> [Months -> 0..MaxRecords]]
               /\ Retention >= 2 => \A k \in Months : ReaderSafe(r, k)'
               /\ \A q \in Readers \ {r} : /\ reading'[q] = reading[q] /\ seen'[q] = seen[q]
                                           /\ expected'[q] = expected[q]
  <2>1. MonthsTypeOK'
    BY <1>1, <1>3 DEF MonthsInv, MonthsTypeOK, monthVars
  <2>2. ASSUME Retention >= 2, NEW q \in Readers, NEW k \in Months PROVE ReaderSafe(q, k)'
    BY <1>1, <1>3, <2>2 DEF MonthsInv, ReaderSafe, monthVars
  <2>. QED BY <1>1, <2>1, <2>2 DEF MonthsInv, monthVars
<1>4. Empty \in [Months -> 0..MaxRecords] /\ \A k \in Months : Empty[k] = 0
  BY MonthsAreNumbers DEF Empty
<1>5. CASE Ask(r)
  <2>1. /\ reading' = [reading EXCEPT ![r] = months]
        /\ expected' = [expected EXCEPT ![r] = lines]
        /\ seen' = [seen EXCEPT ![r] = Empty]
    BY <1>5 DEF Ask
  <2>2. \A k \in Months : ReaderSafe(r, k)'
    BY <1>1, <1>2, <1>4, <2>1, MonthsAreNumbers DEF MonthsInv, MonthsTypeOK, ReaderSafe, monthVars
  <2>. QED BY <1>4, <2>1, <2>2 DEF MonthsInv, MonthsTypeOK
<1>6. CASE Read(r) /\ Oldest(r) \notin months
  <2>1. /\ reading' = [reading EXCEPT ![r] = {}]
        /\ expected' = [expected EXCEPT ![r] = Empty]
        /\ seen' = [seen EXCEPT ![r] = Empty]
    BY <1>6 DEF Read, Gone, Forget
  <2>2. \A k \in Months : seen'[r][k] = 0 /\ expected'[r][k] = 0
    BY <1>4, <2>1 DEF MonthsInv, MonthsTypeOK
  <2>3. \A k \in Months : ReaderSafe(r, k)'
    BY <1>1, <1>2, <2>2, MonthsAreNumbers DEF ReaderSafe, monthVars
  <2>. QED BY <1>4, <2>1, <2>3 DEF MonthsInv, MonthsTypeOK
<1>7. CASE Read(r) /\ Oldest(r) \in months
  <2> DEFINE old == Oldest(r)
  <2>1. /\ old \in months
        /\ seen' = [seen EXCEPT ![r][old] = lines[old]]
        /\ reading' = [reading EXCEPT ![r] = @ \ {old}]
        /\ expected' = expected
    BY <1>7 DEF Read
  <2> HIDE DEF old
  <2>3. ASSUME Retention >= 2, NEW k \in Months PROVE ReaderSafe(r, k)'
    <3>1. ReaderSafe(r, k) /\ lines' = lines /\ months' = months /\ now' = now
      BY <1>1, <2>3 DEF MonthsInv, monthVars
    <3>2. CASE k # old
      BY <2>1, <3>1, <3>2 DEF MonthsInv, MonthsTypeOK, ReaderSafe
    <3>3. CASE k = old
      <4>1. k \notin reading'[r] /\ seen'[r][k] = lines[k]
        BY <2>1, <3>3 DEF MonthsInv, MonthsTypeOK
      <4>. QED BY <2>1, <3>1, <3>3, <4>1 DEF ReaderSafe
    <3>. QED BY <3>2, <3>3
  <2>4. old \in Months
    BY <2>1 DEF MonthsInv, MonthsTypeOK
  <2>. QED BY <1>2, <2>1, <2>3, <2>4 DEF MonthsInv, MonthsTypeOK
<1>. QED BY <1>5, <1>6, <1>7 DEF Ask, Read

LEMMA MonthsStep ==
  MonthsInv /\ [Next]_vars => MonthsInv'
<1> SUFFICES ASSUME MonthsInv, [Next]_vars PROVE MonthsInv'
  OBVIOUS
<1>1. CASE Later
  <2>1. /\ now' \in Months /\ now' > now
        /\ UNCHANGED <<months, lines, stored, torn, readerVars>>
    BY <1>1 DEF Later
  <2>2. now \in Nat /\ now' \in Nat /\ \A k \in Months : k \in Nat
    BY <2>1, MonthsAreNumbers DEF MonthsInv, MonthsTypeOK
  <2>3. ASSUME Retention >= 2, NEW r \in Readers, NEW k \in Months PROVE ReaderSafe(r, k)'
    <3>1. k + Retention <= now => k + Retention <= now'
      BY <2>1, <2>2, MonthsAreNumbers
    <3>. QED BY <2>1, <2>3, <3>1 DEF MonthsInv, ReaderSafe, readerVars
  <2>. QED BY <2>1, <2>3 DEF MonthsInv, MonthsTypeOK, readerVars
<1>2. CASE UNCHANGED <<monthVars, readerVars>>
  BY <1>2 DEF MonthsInv, MonthsTypeOK, ReaderSafe, monthVars, readerVars
<1>. QED
  <2>1. CASE Outside
    BY <2>1, <1>1, <1>2, AppendKeepsMonths DEF Outside, historyVars, Arrive, Fire
  <2>2. CASE BotStep \/ BotPoll \/ BotNoPoll \/ Scheduler \/ Start
    BY <2>2, <1>2 DEF BotStep, BotPoll, BotNoPoll, Scheduler, Start, historyVars
  <2>3. CASE WorkerStep
    BY <2>3, <1>2 DEF WorkerStep, WorkerSteps, Split, Send, Sent, Skip, PartDone, AllSent, Clean
  <2>4. ASSUME NEW p \in Callers, Lock(p) \/ Work(p) PROVE MonthsInv'
    BY <2>4, <1>2 DEF Lock, Work, historyVars
  <2>5. ASSUME NEW r \in Readers, Summary(r) PROVE MonthsInv'
    BY <2>5, SummaryKeepsMonths DEF Summary
  <2>6. CASE Crash
    <3>1. Empty \in [Months -> 0..MaxRecords] /\ \A k \in Months : Empty[k] = 0
      BY MonthsAreNumbers DEF Empty
    <3>2. /\ UNCHANGED monthVars
          /\ reading' = [r \in Readers |-> {}]
          /\ seen' = [r \in Readers |-> Empty] /\ expected' = [r \in Readers |-> Empty]
      BY <2>6 DEF Crash
    <3>. QED BY <3>1, <3>2 DEF MonthsInv, MonthsTypeOK, ReaderSafe, monthVars
  <2>7. CASE UNCHANGED vars
    BY <2>7, <1>2 DEF vars
  <2>. QED BY <2>1, <2>2, <2>3, <2>4, <2>5, <2>6, <2>7 DEF Next

LEMMA MonthsAlways == Spec => []MonthsInv
<1>1. Init => MonthsInv
  BY MonthsAssumption DEF Init, MonthsInit, MonthsInv, MonthsTypeOK, Months, Empty, ReaderSafe
<1>. QED BY <1>1, MonthsStep, PTL DEF Spec

(* With a retention of two months or more, what a summary answers is       *)
(* complete, whatever is appended and removed while it goes from file to   *)
(* file (HistoryStore::summary takes no lock).  With one month it is not.  *)
THEOREM SummaryCorrect == ASSUME Retention >= 2 PROVE Spec => []SummaryComplete
<1>1. MonthsInv => SummaryComplete
  BY DEF MonthsInv, MonthsTypeOK, ReaderSafe, SummaryComplete
<1>. QED BY <1>1, MonthsAlways, PTL

(* Only files that are old enough are removed (remove_old_files).          *)
THEOREM RetentionCorrect == Spec => RetainedLongEnough
<1>1. MonthsInv /\ [Next]_vars => [\A m \in months \ months' : m + Retention <= now]_monthVars
  <2> SUFFICES ASSUME MonthsInv, [Next]_vars, UNCHANGED monthVars => FALSE
               PROVE  \A m \in months \ months' : m + Retention <= now
    OBVIOUS
  <2>1. CASE months' = months
    BY <2>1
  <2>2. ASSUME NEW m \in Months, AppendRecord(m)
        PROVE  \A k \in months \ months' : k + Retention <= now
    BY <2>2, MonthsAssumption DEF AppendRecord, Old, MonthsInv, MonthsTypeOK, Months
  <2>3. ASSUME NEW m \in Months, AppendTears(m)
        PROVE  \A k \in months \ months' : k + Retention <= now
    BY <2>3 DEF AppendTears
  <2>4. CASE Outside
    BY <2>1, <2>2, <2>3, <2>4 DEF Outside, historyVars, monthVars, Later, Fire, Arrive
  <2>5. CASE BotStep \/ BotPoll \/ BotNoPoll \/ Scheduler \/ Start \/ Crash
    BY <2>1, <2>5 DEF BotStep, BotPoll, BotNoPoll, Scheduler, Start, Crash, historyVars, monthVars
  <2>6. CASE WorkerStep
    BY <2>1, <2>6 DEF WorkerStep, WorkerSteps, Split, Send, Sent, Skip, PartDone, AllSent, Clean,
      monthVars
  <2>7. ASSUME NEW p \in Callers, Lock(p) \/ Work(p) PROVE months' = months
    BY <2>7 DEF Lock, Work, historyVars, monthVars
  <2>8. ASSUME NEW r \in Readers, Summary(r) PROVE months' = months
    BY <2>8 DEF Summary, Ask, Read, monthVars
  <2>9. CASE UNCHANGED vars
    BY <2>1, <2>9 DEF vars, monthVars
  <2>. QED BY <2>1, <2>4, <2>5, <2>6, <2>7, <2>8, <2>9 DEF Next
<1>. QED BY <1>1, MonthsAlways, PTL DEF Spec, RetainedLongEnough

-----------------------------------------------------------------------------
(* The upload.  A destination that still takes part has every part before  *)
(* this one, and this one too when the loop is past it.                    *)
HasSoFar(d) ==
  /\ \A p \in 1..copy : p < part => p \in got[d]
  /\ d < dest /\ part <= copy => part \in got[d]

UploadInv ==
  /\ UploadTypeOK
  /\ \A d \in Dests : got[d] \subseteq 1..copy
  /\ worker \in {"sleep", "split"} =>
       part = 1 /\ dest = 1 /\ active = Dests /\ \A d \in Dests : got[d] = {}
  /\ worker # "clean" => outcome = "none"
  /\ worker = "sent" => part <= copy /\ dest \in active
  /\ worker \in {"send", "sent"} => part <= copy + 1 /\ \A d \in active : HasSoFar(d)
  /\ outcome = "ok" => \E d \in Dests : got[d] = 1..copy
  /\ PartsKept

LEMMA UploadNumbers ==
  /\ MaxCopy \in Nat /\ NumDests \in Nat /\ \A d \in Dests : d \in Nat /\ d > 0 /\ d <= NumDests
BY MonthsAssumption, UploadAssumption DEF Dests, MaxCopy

(* The worker begins again with nothing.                                   *)
LEMMA FreshUpload ==
  ASSUME Fresh PROVE UploadInv'
BY UploadNumbers DEF Fresh, UploadInv, UploadTypeOK, PartsKept, Dests

(* Each of its steps keeps what is known of the upload.                    *)
LEMMA WorkerKeepsUpload ==
  ASSUME UploadInv, WorkerSteps PROVE UploadInv'
<1> USE UploadNumbers
<1>1. CASE Split
  <2>1. CASE /\ NumDests > 0 /\ parts' = 1..copy /\ worker' = "send" /\ UNCHANGED outcome
    BY <1>1, <2>1 DEF Split, UploadInv, UploadTypeOK, PartsKept, HasSoFar, Dests
  <2>2. ASSUME NEW n \in 0..copy, parts' = 1..n, Ended("failed") PROVE UploadInv'
    BY <1>1, <2>2 DEF Split, Ended, UploadInv, UploadTypeOK, PartsKept, Dests
  <2>. QED BY <1>1, <2>1, <2>2 DEF Split
<1>2. CASE Send
  BY <1>2 DEF Send, UploadInv, UploadTypeOK, PartsKept, HasSoFar, Dests
<1>3. CASE Sent
  <2>1. /\ worker = "sent" /\ worker' = "send" /\ outcome' = "none" /\ outcome = "none"
        /\ part \in 1..copy /\ dest \in active /\ dest' = dest + 1
        /\ UNCHANGED <<copy, parts, part>>
    BY <1>3 DEF Sent, Dropped, UploadInv, UploadTypeOK
  <2>2. /\ got' \in [Dests -> SUBSET (1..MaxCopy)]
        /\ \A d \in Dests : /\ got[d] \subseteq got'[d] /\ got'[d] \subseteq 1..copy
                            /\ d # dest => got'[d] = got[d]
    BY <1>3, <2>1 DEF Sent, UploadInv, UploadTypeOK, Dropped
  <2>3. active' \subseteq active /\ (dest \in active' => part \in got'[dest])
    BY <1>3, <2>1 DEF Sent, UploadInv, UploadTypeOK, Dropped
  <2>4. ASSUME NEW d \in active' PROVE HasSoFar(d)'
    <3>1. HasSoFar(d) /\ d \in Dests /\ d \in Nat /\ dest \in Nat
      BY <2>1, <2>3 DEF UploadInv, UploadTypeOK
    <3>2. \A p \in 1..copy' : p < part' => p \in got'[d]
      BY <2>1, <2>2, <3>1 DEF HasSoFar
    <3>3. d < dest' => part' \in got'[d]
      BY <2>1, <2>2, <2>3, <3>1 DEF HasSoFar
    <3>. QED BY <3>2, <3>3 DEF HasSoFar
  <2>5. UploadTypeOK'
    BY <2>1, <2>2, <2>3 DEF UploadInv, UploadTypeOK, Dests
  <2>6. PartsKept'
    BY <2>1, <2>2, <2>3 DEF UploadInv, UploadTypeOK, PartsKept
  <2>7. part' <= copy' + 1
    BY <2>1 DEF UploadInv, UploadTypeOK
  <2>. QED BY <2>1, <2>2, <2>4, <2>5, <2>6, <2>7 DEF UploadInv
<1>4. CASE Skip
  BY <1>4 DEF Skip, UploadInv, UploadTypeOK, PartsKept, HasSoFar, Dests
<1>5. CASE PartDone
  <2>1. /\ worker = "send" /\ part <= copy /\ dest > NumDests
        /\ parts' = parts \ {part} /\ part' = part + 1 /\ dest' = 1
        /\ worker' \in {"send", "clean"} /\ outcome' \in {"none", "failed"}
        /\ worker' # "clean" => outcome' = "none"
        /\ UNCHANGED <<copy, active, got>>
    BY <1>5 DEF PartDone, Ended, UploadInv
  <2>2. /\ part \in Nat /\ copy \in Nat /\ dest \in Nat /\ copy <= MaxCopy
        /\ active \subseteq Dests
    BY DEF UploadInv, UploadTypeOK
  <2>3. \A d \in active : part \in got[d]
    BY <2>1, <2>2 DEF UploadInv, HasSoFar
  <2>4. ASSUME NEW d \in active PROVE HasSoFar(d)'
    <3>1. HasSoFar(d) /\ d \in Nat /\ d > 0
      BY <2>1, <2>2 DEF UploadInv
    <3>2. ASSUME NEW p \in 1..copy, p < part + 1 PROVE p \in got[d]
      BY <2>1, <2>2, <2>3, <3>1, <3>2 DEF HasSoFar
    <3>. QED BY <2>1, <3>1, <3>2 DEF HasSoFar
  <2>5. UploadTypeOK'
    BY <2>1, <2>2 DEF UploadInv, UploadTypeOK
  <2>6. PartsKept'
    BY <2>1, <2>3 DEF UploadInv, PartsKept
  <2>. QED BY <2>1, <2>2, <2>4, <2>5, <2>6 DEF UploadInv, HasSoFar
<1>6. CASE AllSent
  <2>1. /\ worker = "send" /\ part > copy /\ worker' = "clean"
        /\ outcome' \in {"ok", "failed"} /\ (outcome' = "ok" => active # {})
        /\ UNCHANGED <<copy, parts, part, dest, active, got>>
    BY <1>6 DEF AllSent, Ended
  <2>2. ASSUME NEW d \in active PROVE d \in Dests /\ got[d] = 1..copy
    <3>1. d \in Dests /\ HasSoFar(d) /\ got[d] \subseteq 1..copy /\ part \in Nat /\ copy \in Nat
      BY <2>1 DEF UploadInv, UploadTypeOK
    <3>2. \A p \in 1..copy : p \in got[d]
      BY <2>1, <3>1 DEF HasSoFar
    <3>. QED BY <3>1, <3>2
  <2>. QED BY <2>1, <2>2 DEF UploadInv, UploadTypeOK, PartsKept
<1>7. CASE Clean
  BY <1>7, FreshUpload DEF Clean
<1>. QED BY <1>1, <1>2, <1>3, <1>4, <1>5, <1>6, <1>7 DEF WorkerSteps

LEMMA UploadStep ==
  MonthsInv /\ UploadInv /\ [Next]_vars => UploadInv'
<1> SUFFICES ASSUME MonthsInv, UploadInv, [Next]_vars PROVE UploadInv'
  OBVIOUS
<1>1. CASE Fire
  <2>1. Active \in 0..MaxCopy
    BY MonthsAreNumbers DEF MonthsInv, MonthsTypeOK, Active, MaxCopy
  <2>. QED BY <1>1, <2>1, UploadNumbers DEF Fire, UploadInv, UploadTypeOK, PartsKept
<1>2. CASE UNCHANGED uploadVars
  BY <1>2 DEF UploadInv, UploadTypeOK, PartsKept, HasSoFar, uploadVars
<1>. QED
  <2>1. CASE Outside
    BY <2>1, <1>1, <1>2 DEF Outside, historyVars
  <2>2. CASE BotStep \/ BotPoll \/ BotNoPoll \/ Scheduler \/ Start
    BY <2>2, <1>2 DEF BotStep, BotPoll, BotNoPoll, Scheduler, Start, historyVars
  <2>3. CASE WorkerStep
    BY <2>3, WorkerKeepsUpload DEF WorkerStep
  <2>4. ASSUME NEW p \in Callers, Lock(p) \/ Work(p) PROVE UploadInv'
    BY <2>4, <1>2 DEF Lock, Work, historyVars
  <2>5. ASSUME NEW r \in Readers, Summary(r) PROVE UploadInv'
    BY <2>5, <1>2 DEF Summary
  <2>6. CASE Crash
    BY <2>6, FreshUpload DEF Crash
  <2>7. CASE UNCHANGED vars
    BY <2>7, <1>2 DEF vars
  <2>. QED BY <2>1, <2>2, <2>3, <2>4, <2>5, <2>6, <2>7 DEF Next

LEMMA UploadAlways == Spec => []UploadInv
<1>1. Init => UploadInv
  BY UploadNumbers DEF Init, UploadInit, UploadInv, UploadTypeOK, PartsKept, Dests
<1>. QED BY <1>1, UploadStep, MonthsAlways, PTL DEF Spec

(* An upload that reports success has brought the whole copy to one        *)
(* destination (upload_chunks_to_destinations).                            *)
THEOREM UploadCorrect == Spec => []UploadWhole
<1>1. UploadInv => UploadWhole
  BY DEF UploadInv, UploadWhole
<1>. QED BY <1>1, UploadAlways, PTL

(* A part is removed only when every active destination has it.            *)
THEOREM PartsCorrect == Spec => []PartsKept
<1>1. UploadInv => PartsKept
  BY DEF UploadInv
<1>. QED BY <1>1, UploadAlways, PTL

-----------------------------------------------------------------------------
(* The bot.  Busy: with update next - 1.  Below the offset everything is   *)
(* handled, except for that one; from FirstNew on nothing is handled in    *)
(* this life of the process.                                               *)
Busy == bot \notin {"down", "poll", "next"}

FirstNew == IF bot \in {"down", "poll"} THEN Told + 1 ELSE IF Busy THEN next - 1 ELSE next

CursorInv ==
  /\ offset <= Len(arrived) + 1
  /\ bot \in {"down", "poll"} => next = 1 /\ last = 0
  /\ bot = "down" => offset = 0
  /\ bot = "next" => /\ confirmed < next /\ next <= last + 1
                     /\ offset = next \/ (next <= last /\ next = confirmed + 1 /\ offset <= next)
  /\ Busy => offset = next /\ confirmed + 2 <= next /\ next <= last + 1

HandledInv ==
  /\ \A u \in 1..MaxUpdates :
       (u <= confirmed \/ u < offset) /\ ~(Busy /\ u = next - 1) => handled[u] > 0
  /\ \A u \in 1..MaxUpdates : handled[u] <= crashes + 1
  /\ \A u \in 1..MaxUpdates : u >= FirstNew => handled[u] <= crashes

TrustInv ==
  /\ \A c \in Chats : users[c] = "on" => c \in trusted
  /\ bot \in {"toast", "known", "enabled", "request"} => Update.chat \in trusted
  /\ RequestsTrusted

BotInv ==
  /\ BotTypeOK /\ crashes \in Nat
  /\ CursorInv /\ HandledInv /\ TrustInv

LEMMA UpdateIsUpdate ==
  ASSUME BotInv
  PROVE  /\ MaxUpdates \in Nat /\ Len(arrived) \in Nat /\ Len(arrived) <= MaxUpdates
         /\ \A u \in 1..Len(arrived) : /\ arrived[u].chat \in Chats /\ arrived[u].db \in DBs
                                       /\ arrived[u].kind \in {"add", "ask", "backup", "press", "pick", "text"}
         /\ Busy => Update.chat \in Chats /\ Update.db \in DBs
                    /\ Update.kind \in {"add", "ask", "backup", "press", "pick", "text"}
<1>1. /\ arrived \in Seq(Updates) /\ confirmed \in Nat /\ last \in 0..Len(arrived) /\ next \in Nat
      /\ Len(arrived) <= MaxUpdates
  BY DEF BotInv, BotTypeOK
<1>2. \A u \in 1..Len(arrived) : arrived[u] \in Updates
  BY <1>1
<1>3. Busy => next - 1 \in 1..Len(arrived)
  BY <1>1 DEF BotInv, CursorInv
<1>. QED BY <1>1, <1>2, <1>3, BotAssumption DEF Update

(* What CursorInv and HandledInv are about, as numbers.                    *)
LEMMA BotNumbers ==
  ASSUME BotInv
  PROVE  /\ confirmed \in Nat /\ offset \in Nat /\ next \in Nat /\ last \in Nat /\ crashes \in Nat
         /\ MaxUpdates \in Nat /\ last <= Len(arrived) /\ Len(arrived) \in Nat
         /\ next >= 1 /\ confirmed <= Len(arrived) /\ Len(arrived) <= MaxUpdates
         /\ \A u \in 1..MaxUpdates : handled[u] \in Nat
<1>1. /\ confirmed \in 0..Len(arrived) /\ last \in 0..Len(arrived) /\ crashes \in Nat
      /\ offset \in 0..MaxUpdates + 1 /\ next \in 1..MaxUpdates + 1
      /\ handled \in [1..MaxUpdates -> Nat]
  BY DEF BotInv, BotTypeOK
<1>2. MaxUpdates \in Nat /\ Len(arrived) \in Nat /\ Len(arrived) <= MaxUpdates
  BY UpdateIsUpdate
<1>. QED BY <1>1, <1>2

(* The bot is still at the same update, ...                                *)
LEMMA StillBusy ==
  ASSUME BotInv, Busy, Busy', UNCHANGED <<telegramVars, loopVars, handled, crashes>>
  PROVE  CursorInv' /\ HandledInv'
BY DEF BotInv, CursorInv, HandledInv, Busy, FirstNew, telegramVars, loopVars

(* ... is done with it, ...                                                *)
LEMMA DoneWithIt ==
  ASSUME BotInv, Busy, bot' = "next", Count(next - 1),
         UNCHANGED <<telegramVars, loopVars, crashes>>
  PROVE  /\ CursorInv' /\ HandledInv' /\ handled' \in [1..MaxUpdates -> Nat]
<1>1. /\ offset = next /\ confirmed + 2 <= next /\ next <= last + 1 /\ next - 1 \in 1..MaxUpdates
  BY BotNumbers DEF BotInv, CursorInv
<1>2. /\ handled' = [handled EXCEPT ![next - 1] = handled[next - 1] + 1]
      /\ handled \in [1..MaxUpdates -> Nat]
  BY DEF Count, BotInv, BotTypeOK
<1>3. /\ confirmed' = confirmed /\ offset' = offset /\ next' = next /\ last' = last
      /\ crashes' = crashes /\ arrived' = arrived
  BY DEF telegramVars, loopVars
<1>4. CursorInv'
  BY <1>1, <1>3, BotNumbers DEF BotInv, CursorInv, Busy
<1>5. HandledInv'
  <2>1. ASSUME NEW u \in 1..MaxUpdates, u <= confirmed \/ u < offset PROVE handled'[u] > 0
    BY <1>1, <1>2, <2>1, BotNumbers DEF BotInv, HandledInv
  <2>2. ASSUME NEW u \in 1..MaxUpdates PROVE handled'[u] <= crashes + 1
    <3>1. handled[u] <= crashes + 1 /\ (u = next - 1 => handled[u] <= crashes)
      BY <1>1, BotNumbers DEF BotInv, HandledInv, FirstNew, Busy
    <3>. QED BY <1>2, <3>1, BotNumbers
  <2>3. ASSUME NEW u \in 1..MaxUpdates, u >= next PROVE handled'[u] <= crashes
    <3>1. handled[u] <= crashes
      BY <1>1, <2>3, BotNumbers DEF BotInv, HandledInv, FirstNew, Busy
    <3>. QED BY <1>1, <1>2, <2>3, <3>1, BotNumbers
  <2>4. FirstNew' = next /\ ~ Busy'
    BY <1>3 DEF FirstNew, Busy
  <2>. QED BY <1>3, <2>1, <2>2, <2>3, <2>4 DEF HandledInv
<1>6. handled' \in [1..MaxUpdates -> Nat]
  BY <1>1, <1>2, BotNumbers
<1>. QED BY <1>4, <1>5, <1>6

(* ... or goes to the next one (the offset is raised before it is handled).*)
LEMMA NextUpdate ==
  ASSUME BotInv, TakeUpdate, crashes' = crashes PROVE BotInv'
<1>1. /\ bot = "next" /\ next <= last /\ offset' = next + 1 /\ next' = next + 1
      /\ bot' = First(arrived[next].kind) /\ arrived' = arrived /\ confirmed' = confirmed
      /\ last' = last /\ UNCHANGED <<panelVars, queueVars>>
      /\ IF arrived[next].kind = "text" THEN Count(next) ELSE UNCHANGED handled
  BY DEF TakeUpdate, telegramVars
<1>2. confirmed < next /\ offset <= next /\ next \in 1..MaxUpdates /\ next \in 1..Len(arrived)
  BY <1>1, BotNumbers DEF BotInv, CursorInv
<1>3. /\ bot' \in {"next", "list", "find"}
      /\ bot' = "next" => arrived[next].kind = "text"
      /\ bot' # "next" => arrived[next].kind # "text"
  BY <1>1, <1>2, UpdateIsUpdate DEF First
<1>4. handled \in [1..MaxUpdates -> Nat]
  BY DEF BotInv, BotTypeOK
<1>5. BotTypeOK'
  <2>1. handled' \in [1..MaxUpdates -> Nat]
    BY <1>1, <1>2, <1>4 DEF Count
  <2>2. bot' \in BotPhases
    BY <1>3 DEF BotPhases
  <2>3. offset' \in 0..MaxUpdates + 1 /\ next' \in 1..MaxUpdates + 1
    BY <1>1, <1>2, BotNumbers
  <2>. QED BY <1>1, <2>1, <2>2, <2>3 DEF BotInv, BotTypeOK, panelVars, queueVars
<1>6. CursorInv'
  BY <1>1, <1>2, <1>3, BotNumbers DEF CursorInv, Busy
<1>7. HandledInv'
  <2>1. \A u \in 1..MaxUpdates : u < next => handled[u] > 0
    BY <1>1, <1>2, BotNumbers DEF BotInv, CursorInv, HandledInv, Busy
  <2>2. \A u \in 1..MaxUpdates : /\ handled[u] <= crashes + 1
                                 /\ u >= next => handled[u] <= crashes
    BY <1>1 DEF BotInv, HandledInv, FirstNew, Busy
  <2>3. CASE arrived[next].kind = "text"
    <3>1. handled' = [handled EXCEPT ![next] = handled[next] + 1] /\ bot' = "next"
      BY <1>1, <1>3, <2>3 DEF Count
    <3>2. \A u \in 1..MaxUpdates : u < next + 1 => handled'[u] > 0
      BY <1>2, <1>4, <2>1, <3>1, BotNumbers
    <3>3. \A u \in 1..MaxUpdates : /\ handled'[u] <= crashes + 1
                                   /\ u >= next + 1 => handled'[u] <= crashes
      BY <1>2, <1>4, <2>2, <3>1, BotNumbers
    <3>. QED BY <1>1, <1>2, <3>1, <3>2, <3>3, BotNumbers DEF HandledInv, FirstNew, Busy
  <2>4. CASE arrived[next].kind # "text"
    <3>1. handled' = handled /\ bot' \in {"list", "find"}
      BY <1>1, <1>3, <2>4
    <3>2. Busy' /\ FirstNew' = next
      BY <1>1, <1>2, <3>1 DEF FirstNew, Busy
    <3>3. ASSUME NEW u \in 1..MaxUpdates, (u <= confirmed \/ u < next + 1) /\ u # next
          PROVE  handled'[u] > 0
      <4>1. u < next
        BY <1>2, <3>3, BotNumbers
      <4>2. QED BY <2>1, <3>1, <4>1
    <3>4. next' - 1 = next
      BY <1>1, <1>2
    <3>5. \A u \in 1..MaxUpdates : handled'[u] <= crashes' + 1 /\ (u >= next => handled'[u] <= crashes')
      BY <2>2, <3>1
    <3>. QED BY <1>1, <3>2, <3>3, <3>4, <3>5 DEF HandledInv
  <2>. QED BY <2>3, <2>4
<1>8. TrustInv'
  BY <1>1, <1>3 DEF BotInv, TrustInv, RequestsTrusted, panelVars, queueVars
<1>. QED BY <1>5, <1>6, <1>7, <1>8 DEF BotInv

(* The bot asks for more, with an answer, without one, or after a batch:   *)
(* what it tells Telegram to forget is below its offset.                   *)
LEMMA PollsKeep ==
  ASSUME BotInv, Poll \/ PollFails \/ BatchDone, crashes' = crashes PROVE BotInv'
<1>1. /\ arrived' = arrived /\ offset' = offset /\ handled' = handled
      /\ UNCHANGED <<panelVars, queueVars>>
  BY DEF Poll, PollFails, BatchDone, loopVars, telegramVars
<1>2. ~ Busy' /\ ~ Busy /\ bot' \in {"poll", "next"}
  BY DEF Poll, PollFails, BatchDone, Busy
<1>3. TrustInv'
  BY <1>1, <1>2 DEF BotInv, TrustInv, RequestsTrusted, panelVars, queueVars, Busy
<1>4. CASE Poll \/ PollFails
  <2>1. bot = "poll" /\ confirmed' = Told /\ next = 1 /\ last = 0
    BY <1>4 DEF Poll, PollFails, BotInv, CursorInv
  <2>2. /\ Told \in Nat /\ confirmed <= Told /\ offset <= Told + 1
        /\ Told \in {confirmed, offset - 1}
    BY BotNumbers DEF Told
  <2>3. \A u \in 1..MaxUpdates : u <= Told => handled[u] > 0
    BY <1>2, <2>2, BotNumbers DEF BotInv, HandledInv
  <2>4. \A u \in 1..MaxUpdates : handled[u] <= crashes + 1 /\ (u >= Told + 1 => handled[u] <= crashes)
    BY <2>1 DEF BotInv, HandledInv, FirstNew
  <2>5. Told <= Len(arrived)
    BY <2>2, BotNumbers DEF BotInv, CursorInv
  <2>6. CASE Poll
    <3>1. next' = Told + 1 /\ last' = Len(arrived) /\ bot' = "next" /\ Told < Len(arrived)
      BY <2>6 DEF Poll
    <3>2. BotTypeOK'
      BY <1>1, <2>1, <2>2, <3>1, BotNumbers DEF BotInv, BotTypeOK, BotPhases, panelVars, queueVars
    <3>3. CursorInv' /\ HandledInv'
      BY <1>1, <2>1, <2>2, <2>3, <2>4, <3>1, BotNumbers DEF CursorInv, HandledInv, FirstNew, Busy
    <3>. QED BY <1>3, <3>2, <3>3 DEF BotInv
  <2>7. CASE PollFails
    <3>1. next' = 1 /\ last' = 0 /\ bot' = "poll"
      BY <2>1, <2>7 DEF PollFails, loopVars
    <3>2. BotTypeOK'
      BY <1>1, <2>1, <2>2, <2>5, <3>1, BotNumbers DEF BotInv, BotTypeOK, panelVars, queueVars
    <3>3. Told' = Told
      BY <1>1, <2>1, <2>2, BotNumbers DEF Told
    <3>4. CursorInv'
      BY <1>1, <3>1 DEF BotInv, CursorInv, Busy
    <3>5. \A u \in 1..MaxUpdates : u < offset => u <= Told
      BY <2>2, BotNumbers
    <3>6. HandledInv'
      BY <1>1, <1>2, <2>1, <2>3, <2>4, <3>1, <3>3, <3>5 DEF HandledInv, FirstNew
    <3>. QED BY <1>3, <3>2, <3>4, <3>6 DEF BotInv
  <2>. QED BY <1>4, <2>6, <2>7
<1>5. CASE BatchDone
  <2>1. /\ bot = "next" /\ next > last /\ bot' = "poll" /\ next' = 1 /\ last' = 0
        /\ confirmed' = confirmed
    BY <1>5 DEF BatchDone, telegramVars
  <2>2. offset = next /\ confirmed < next /\ next = last + 1
    BY <2>1, BotNumbers DEF BotInv, CursorInv
  <2>3. Told' + 1 = next
    BY <1>1, <2>1, <2>2, BotNumbers DEF Told
  <2>4. BotTypeOK'
    BY <1>1, <2>1, BotNumbers DEF BotInv, BotTypeOK, BotPhases, panelVars, queueVars
  <2>5. CursorInv'
    BY <1>1, <2>1 DEF BotInv, CursorInv, Busy
  <2>6. HandledInv'
    BY <1>1, <1>2, <2>1, <2>3 DEF BotInv, HandledInv, FirstNew, Busy
  <2>. QED BY <1>3, <2>4, <2>5, <2>6 DEF BotInv
<1>. QED BY <1>4, <1>5

(* The steps within an update: only those end it that count it, and what   *)
(* goes into the queue was asked for by a chat that is trusted.            *)
LEMMA WithinUpdate ==
  ASSUME BotInv, crashes' = crashes,
         \/ List \/ CreateUser \/ FindUser \/ Toast \/ AskKnown \/ AskEnabled
         \/ Request \/ WriteCard \/ Reply \/ Replied
  PROVE  BotInv'
<1>1. Busy /\ UNCHANGED <<telegramVars, loopVars>> /\ UNCHANGED <<trusted, known, enabled>>
  BY DEF List, CreateUser, FindUser, Toast, AskKnown, AskEnabled, Request, WriteCard, Reply,
         Replied, BotOnly, Busy, panelVars
<1>2. Update' = Update /\ Update.chat \in Chats /\ Update.db \in DBs
  BY <1>1, UpdateIsUpdate DEF Update, telegramVars, loopVars
<1>3. \/ Busy' /\ UNCHANGED handled
      \/ bot' = "next" /\ Count(next - 1)
  <2>1. CASE FindUser
    <3>1. CASE MayAsk(Update.chat)
      BY <2>1, <3>1, <1>1, UpdateIsUpdate DEF FindUser, After, Busy, MayAsk
    <3>. QED BY <2>1, <3>1 DEF FindUser
  <2>. QED BY <2>1 DEF List, CreateUser, Toast, AskKnown, AskEnabled, Request, WriteCard, Reply,
         Replied, Busy
<1>4. CursorInv' /\ HandledInv' /\ handled' \in [1..MaxUpdates -> Nat]
  BY <1>1, <1>3, StillBusy, DoneWithIt DEF BotInv, BotTypeOK
<1>5. bot' \in BotPhases
  BY <1>3, UpdateIsUpdate, <1>1 DEF List, CreateUser, FindUser, Toast, AskKnown, AskEnabled,
     Request, WriteCard, Reply, Replied, BotPhases, After
<1>6. /\ users' \in [Chats -> {"unknown", "off", "on"}]
      /\ \A c \in Chats : users'[c] = "on" => users[c] = "on"
  BY <1>2 DEF List, CreateUser, FindUser, Toast, AskKnown, AskEnabled, Request, WriteCard, Reply,
     Replied, panelVars, BotInv, BotTypeOK
<1>7. /\ queue' \in [DBs -> {Idle} \union [is : {"queued", "running"}, chat : Chats]]
      /\ \A d \in DBs : queue'[d] # Idle => queue'[d].chat \in trusted
  <2>1. CASE Request
    <3>1. queue \in [DBs -> {Idle} \union [is : {"queued", "running"}, chat : Chats]]
      BY DEF BotInv, BotTypeOK
    <3>2. Update.chat \in trusted /\ \A d \in DBs : queue[d] # Idle => queue[d].chat \in trusted
      BY <2>1 DEF Request, BotInv, TrustInv, RequestsTrusted
    <3>. QED BY <2>1, <1>2, <3>1, <3>2 DEF Request
  <2>2. CASE ~ Request
    <3>1. queue' = queue
      BY <2>2 DEF List, CreateUser, FindUser, Toast, AskKnown, AskEnabled, WriteCard, Reply,
         Replied, queueVars
    <3>. QED BY <3>1 DEF BotInv, BotTypeOK, TrustInv, RequestsTrusted
  <2>. QED BY <2>1, <2>2
<1>8. card' \in [DBs -> {"idle", "queued", "running", "done"}]
  BY <1>2 DEF List, CreateUser, FindUser, Toast, AskKnown, AskEnabled, Request, WriteCard, Reply,
     Replied, queueVars, BotInv, BotTypeOK
<1>9. bot' \in {"toast", "known", "enabled", "request"} => Update.chat \in trusted
  BY <1>2 DEF List, CreateUser, FindUser, Toast, AskKnown, AskEnabled, Request, WriteCard, Reply,
     Replied, MayAsk, BotInv, TrustInv
<1>10. BotTypeOK'
  BY <1>1, <1>4, <1>5, <1>6, <1>7, <1>8 DEF BotInv, BotTypeOK, telegramVars, loopVars
<1>11. TrustInv'
  BY <1>1, <1>2, <1>6, <1>7, <1>9 DEF BotInv, TrustInv, RequestsTrusted
<1>. QED BY <1>4, <1>10, <1>11 DEF BotInv

(* The others: those who write to the bot, administrators, the scheduler,  *)
(* and the end and the start of the process.                               *)
LEMMA OthersKeepBot ==
  ASSUME BotInv,
         \/ (\E u \in Updates : Arrive(u)) /\ crashes' = crashes
         \/ (\E c \in Chats : EditUser(c)) /\ crashes' = crashes
         \/ (\E d \in DBs : EditDatabase(d) \/ Schedule(d)) /\ crashes' = crashes
         \/ BotCrash /\ crashes' = crashes + 1
         \/ BotStart /\ crashes' = crashes
  PROVE  BotInv'
<1>1. ASSUME NEW u \in Updates, Arrive(u), crashes' = crashes PROVE BotInv'
  <2>1. /\ arrived' = Append(arrived, u) /\ Len(arrived) < MaxUpdates
        /\ UNCHANGED <<confirmed, bot, offset, next, last, handled, users, trusted, known,
                       enabled, queue, card>>
    BY <1>1 DEF Arrive, loopVars, panelVars, queueVars
  <2>2. arrived \in Seq(Updates) /\ arrived' \in Seq(Updates) /\ Len(arrived') = Len(arrived) + 1
    BY <2>1 DEF BotInv, BotTypeOK
  <2>3. Busy => Update' = Update
    BY <2>1, <2>2, BotNumbers DEF BotInv, CursorInv, Update
  <2>4. BotTypeOK'
    BY <2>1, <2>2, BotNumbers DEF BotInv, BotTypeOK
  <2>5. CursorInv'
    BY <2>1, <2>2, BotNumbers DEF BotInv, CursorInv, Busy
  <2>6. HandledInv'
    BY <2>1, <1>1 DEF BotInv, HandledInv, FirstNew, Busy, Told
  <2>7. TrustInv'
    BY <2>1, <2>3 DEF BotInv, TrustInv, RequestsTrusted, Busy
  <2>. QED BY <1>1, <2>4, <2>5, <2>6, <2>7 DEF BotInv
<1>2. ASSUME UNCHANGED <<telegramVars, bot, loopVars, handled, crashes>>
      PROVE  CursorInv' /\ HandledInv' /\ Update' = Update
  BY <1>2 DEF telegramVars, loopVars, BotInv, CursorInv, HandledInv, FirstNew, Busy, Told, Update
<1>3. ASSUME NEW c \in Chats, EditUser(c), crashes' = crashes PROVE BotInv'
  <2>1. CursorInv' /\ HandledInv' /\ Update' = Update
    BY <1>2, <1>3 DEF EditUser
  <2>2. /\ users' \in [Chats -> {"unknown", "off", "on"}]
        /\ trusted' \in SUBSET Chats /\ trusted \subseteq trusted'
        /\ \A k \in Chats : users'[k] = "on" => k \in trusted'
    BY <1>3 DEF EditUser, BotInv, BotTypeOK, TrustInv
  <2>3. BotTypeOK' /\ TrustInv'
    BY <1>3, <2>1, <2>2 DEF EditUser, BotInv, BotTypeOK, TrustInv, RequestsTrusted, telegramVars,
       loopVars, queueVars
  <2>. QED BY <1>3, <2>1, <2>3 DEF BotInv
<1>4. ASSUME NEW d \in DBs, EditDatabase(d), crashes' = crashes PROVE BotInv'
  <2>1. CursorInv' /\ HandledInv' /\ Update' = Update
    BY <1>2, <1>4 DEF EditDatabase
  <2>2. BotTypeOK' /\ TrustInv'
    BY <1>4, <2>1 DEF EditDatabase, BotInv, BotTypeOK, TrustInv, RequestsTrusted, telegramVars,
       loopVars, queueVars
  <2>. QED BY <1>4, <2>1, <2>2 DEF BotInv
<1>5. ASSUME NEW d \in DBs, Schedule(d), crashes' = crashes PROVE BotInv'
  <2>1. CursorInv' /\ HandledInv' /\ Update' = Update
    BY <1>2, <1>5 DEF Schedule
  <2>2. /\ queue \in [DBs -> {Idle} \union [is : {"queued", "running"}, chat : Chats]]
        /\ card \in [DBs -> {"idle", "queued", "running", "done"}]
        /\ \A k \in DBs : queue[k] # Idle => queue[k].chat \in trusted
    BY DEF BotInv, BotTypeOK, TrustInv, RequestsTrusted
  <2>3. queue[d] \in [is : {"queued", "running"}, chat : Chats] /\ queue[d].chat \in trusted
    BY <1>5, <2>2 DEF Schedule
  <2>4. PICK q \in {Idle} \union [is : {"queued", "running"}, chat : Chats] :
          queue' = [queue EXCEPT ![d] = q] /\ (q # Idle => q.chat \in trusted)
    <3>1. [queue[d] EXCEPT !.is = "running"] \in [is : {"queued", "running"}, chat : Chats]
          /\ [queue[d] EXCEPT !.is = "running"].chat = queue[d].chat
      BY <2>3
    <3>. QED BY <1>5, <2>3, <3>1 DEF Schedule
  <2>5. card' \in [DBs -> {"idle", "queued", "running", "done"}]
    BY <1>5, <2>2 DEF Schedule
  <2>6. /\ queue' \in [DBs -> {Idle} \union [is : {"queued", "running"}, chat : Chats]]
        /\ \A k \in DBs : queue'[k] # Idle => queue'[k].chat \in trusted
    BY <2>2, <2>4
  <2>7. BotTypeOK' /\ TrustInv'
    BY <1>5, <2>1, <2>5, <2>6 DEF Schedule, BotInv, BotTypeOK, TrustInv, RequestsTrusted,
       telegramVars, loopVars, panelVars
  <2>. QED BY <1>5, <2>1, <2>7 DEF BotInv
<1>6. ASSUME BotCrash, crashes' = crashes + 1 PROVE BotInv'
  <2>1. /\ bot' = "down" /\ offset' = 0 /\ next' = 1 /\ last' = 0
        /\ UNCHANGED <<arrived, confirmed, handled, users, trusted, known, enabled>>
        /\ queue' = [d \in DBs |-> Idle] /\ card' = [d \in DBs |-> "idle"]
    BY <1>6 DEF BotCrash, telegramVars, panelVars
  <2>2. BotTypeOK' /\ TrustInv'
    BY <2>1, BotNumbers DEF BotInv, BotTypeOK, BotPhases, TrustInv, RequestsTrusted
  <2>3. CursorInv'
    BY <2>1, BotNumbers DEF CursorInv, Busy
  <2>4. \A u \in 1..MaxUpdates : u <= confirmed => handled[u] > 0
    BY BotNumbers DEF BotInv, CursorInv, HandledInv
  <2>5. HandledInv'
    BY <1>6, <2>1, <2>4, BotNumbers DEF BotInv, HandledInv
  <2>. QED BY <1>6, <2>2, <2>3, <2>5 DEF BotInv
<1>7. ASSUME BotStart, crashes' = crashes PROVE BotInv'
  <2>1. /\ bot = "down" /\ bot' = "poll"
        /\ UNCHANGED <<arrived, confirmed, offset, next, last, handled, users, trusted, known,
                       enabled, queue, card>>
    BY <1>7 DEF BotStart, telegramVars, loopVars, panelVars, queueVars
  <2>. QED BY <1>7, <2>1 DEF BotInv, BotTypeOK, BotPhases, CursorInv, HandledInv, FirstNew, Busy,
       Told, TrustInv, RequestsTrusted
<1>. QED BY <1>1, <1>3, <1>4, <1>5, <1>6, <1>7

LEMMA BotInvStep ==
  BotInv /\ [Next]_vars => BotInv'
<1> SUFFICES ASSUME BotInv, [Next]_vars PROVE BotInv'
  OBVIOUS
<1>1. CASE UNCHANGED <<botVars, crashes>>
  BY <1>1 DEF botVars, telegramVars, loopVars, panelVars, queueVars, BotInv, BotTypeOK, CursorInv,
     HandledInv, FirstNew, Busy, Told, TrustInv, RequestsTrusted, Update
<1>2. CASE Outside
  BY <1>1, <1>2, OthersKeepBot DEF Outside, Job, Fire
<1>3. CASE BotStep
  BY <1>3, NextUpdate, PollsKeep, WithinUpdate DEF BotStep, BotSteps, NoJob
<1>4. CASE BotPoll \/ BotNoPoll
  BY <1>4, PollsKeep DEF BotPoll, BotNoPoll, NoJob
<1>5. CASE WorkerStep
  BY <1>1, <1>5 DEF WorkerStep, NoJob
<1>6. ASSUME NEW p \in Callers, Lock(p) \/ Work(p) PROVE BotInv'
  BY <1>1, <1>6 DEF Lock, Work, NoJob
<1>7. CASE Scheduler
  BY <1>7, OthersKeepBot DEF Scheduler, NoJob
<1>8. ASSUME NEW r \in Readers, Summary(r) PROVE BotInv'
  BY <1>1, <1>8 DEF Summary, NoJob
<1>9. CASE Crash \/ Start
  BY <1>9, OthersKeepBot DEF Crash, Start, NoJob
<1>10. CASE UNCHANGED vars
  BY <1>1, <1>10 DEF vars
<1>. QED BY <1>2, <1>3, <1>4, <1>5, <1>6, <1>7, <1>8, <1>9, <1>10 DEF Next

LEMMA BotAlways == Spec => []BotInv
<1>1. Init => BotInv
  <2> SUFFICES ASSUME Init PROVE BotInv
    OBVIOUS
  <2>1. MaxUpdates \in Nat /\ arrived \in Seq(Updates) /\ Len(arrived) = 0
    BY BotAssumption DEF Init, BotInit
  <2>. QED BY <2>1 DEF Init, BotInit, BotInv, BotTypeOK, BotPhases, CursorInv, HandledInv, FirstNew,
       Busy, Told, TrustInv, RequestsTrusted
<1>. QED BY <1>1, BotInvStep, PTL DEF Spec

(* No update is lost between Telegram and the bot, and none is handled     *)
(* twice in one life of the process (run: the offset).                     *)
THEOREM UpdatesCorrect == Spec => []UpdatesKept
<1>1. BotInv => UpdatesKept
  <2> SUFFICES ASSUME BotInv PROVE UpdatesKept
    OBVIOUS
  <2>1. ASSUME NEW u \in 1..confirmed PROVE handled[u] > 0
    <3>1. u \in 1..MaxUpdates /\ ~(Busy /\ u = next - 1)
      BY BotNumbers DEF BotInv, CursorInv
    <3>. QED BY <3>1 DEF BotInv, HandledInv
  <2>2. ASSUME NEW u \in 1..MaxUpdates PROVE handled[u] <= 1 + crashes
    BY BotNumbers DEF BotInv, HandledInv
  <2>. QED BY <2>1, <2>2 DEF UpdatesKept, HandledBeforeForgotten, HandledOncePerLife
<1>. QED BY <1>1, BotAlways, PTL

(* Every queued backup a chat asked for was asked for by one that an       *)
(* administrator had enabled (handle_message, handle_callback).            *)
THEOREM TrustCorrect == Spec => []RequestsTrusted
<1>1. BotInv => RequestsTrusted
  BY DEF BotInv, TrustInv
<1>. QED BY <1>1, BotAlways, PTL

(* The bot registers unknown chats, switched off, and leaves every other   *)
(* user as an administrator has decided (TelegramUserStore::create).       *)
THEOREM UsersCorrect == Spec => OnlyAdminsDecide
<1> DEFINE Registers == bot' # bot => \A c \in Chats : users'[c] # users[c] =>
                          users[c] = "unknown" /\ users'[c] = "off"
<1>1. BotInv /\ [Next]_vars => [Registers]_botVars
  <2> SUFFICES ASSUME BotInv, [Next]_vars, bot' # bot PROVE Registers
    OBVIOUS
  <2>1. CASE UNCHANGED users
    BY <2>1
  <2>2. CASE CreateUser
    BY <2>2, UpdateIsUpdate DEF CreateUser, MayCreate, Busy, BotInv, BotTypeOK
  <2>3. CASE Outside
    BY <2>3 DEF Outside, Arrive, EditUser, EditDatabase, Fire, botVars
  <2>4. CASE BotStep
    BY <2>1, <2>2, <2>4 DEF BotStep, BotSteps, TakeUpdate, BatchDone, List, FindUser, Toast,
      AskKnown, AskEnabled, Request, WriteCard, Reply, Replied, panelVars
  <2>5. CASE BotPoll \/ BotNoPoll \/ Scheduler \/ Start \/ Crash
    BY <2>1, <2>5 DEF BotPoll, BotNoPoll, Poll, PollFails, Scheduler, Schedule, Start, BotStart,
      Crash, BotCrash, panelVars
  <2>6. CASE WorkerStep \/ (\E p \in Callers : Lock(p) \/ Work(p)) \/ \E r \in Readers : Summary(r)
    BY <2>6 DEF WorkerStep, Lock, Work, Summary, botVars
  <2>7. CASE UNCHANGED vars
    BY <2>7 DEF vars, botVars
  <2>. QED BY <2>3, <2>4, <2>5, <2>6, <2>7 DEF Next
<1>. QED BY <1>1, BotAlways, PTL DEF Spec, OnlyAdminsDecide

(* Every variable has its type.                                            *)
THEOREM TypeCorrect == Spec => []TypeOK
<1> DEFINE Bounds == jobs \in 0..MaxJobs /\ crashes \in 0..MaxCrashes
<1>1. Init => LockInv /\ Bounds
  BY OpsAssumption, ClientsAssumption DEF Init, OpsInit, LockInv, OpsTypeOK, Calls
<1>2. Bounds /\ [Next]_vars => Bounds'
  BY ClientsAssumption DEF Next, vars, Outside, Job, NoJob, BotStep, BotPoll, BotNoPoll, WorkerStep,
    Lock, Work, Scheduler, Summary, Crash, Start
<1>3. LockInv /\ BotInv /\ MonthsInv /\ UploadInv /\ Bounds => TypeOK
  BY DEF LockInv, BotInv, MonthsInv, UploadInv, TypeOK
<1>. QED BY <1>1, <1>2, <1>3, LockStep, BotAlways, MonthsAlways, UploadAlways, PTL DEF Spec
=============================================================================
