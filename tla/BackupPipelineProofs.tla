------------------------ MODULE BackupPipelineProofs ------------------------
(***************************************************************************)
(* Proofs about BackupPipeline, for every number of parts, destinations    *)
(* and attempts.                                                           *)
(***************************************************************************)
EXTENDS BackupPipeline, TLAPS

Unsent  == {"spawn", "loop", "read", "finish", "reap", "begin", "summary"}
AtDest  == {"try", "await", "receipt", "record"}
AtPart  == AtDest \union {"dest", "remove"}
Sending == AtPart \union {"chunk"}
Ended   == {"sweep", "over"}

(* The dump: how far pg_dump is, and the parts on disk.                    *)
DumpInv ==
  /\ pc \in Sending \union {"begin", "summary", "complete", "notice"} =>
       child = "ok" /\ ~timedOut /\ count > 0
  /\ pc = "reap" => count > 0
  /\ OnlyGoodDumps
  /\ pc \in Ended => child \notin {"running", "closed"}
  /\ pc \in Unsent => files = Packaged /\ part = 1
  /\ pc \in Sending => files = part .. count
  /\ pc \in {"complete", "notice"} => files = {}
  /\ NothingLeft

(* The books: what Telegram has, what the manifest says, and which         *)
(* destinations miss nothing.                                              *)
BookInv ==
  /\ active = completed
  /\ pc \in Unsent => recorded = {} /\ \A d \in Destinations : received[d] = {}
  /\ \A d \in Destinations : received[d] \subseteq Packaged
  /\ \A k \in Parts, d \in Destinations : <<k, d>> \in recorded => k \in received[d]
  /\ \A k \in Parts, d \in Destinations : active[d] /\ k < part => <<k, d>> \in recorded
  /\ pc \in AtPart =>
       /\ part <= count
       /\ \A d \in Destinations : active[d] /\ d < dest => <<part, d>> \in recorded
  /\ pc \in AtDest => dest \in Destinations /\ active[dest]
  /\ pc = "try" => attempt < MaxAttempts
  /\ pc \in {"receipt", "record"} => part \in received[dest]
  /\ pc = "remove" => dest > NumDestinations
  /\ BooksAgree

(* The end: the history against the manifest.                              *)
EndInv ==
  /\ pc \in {"spawn", "loop", "read", "finish", "reap", "begin"} => manifest = "absent"
  /\ pc \in Sending \union {"summary", "complete"} => manifest = "started"
  /\ pc = "notice" => manifest = "complete"
  /\ pc \in Ended => outcome # "none" /\ (outcome = "success" <=> manifest = "complete")
  /\ pc \notin Ended \union {"crashed"} => outcome = "none"
  /\ pc \in Ended /\ outcome = "success" => files = {}
  /\ RestorableIsWhole

IInv == TypeOK /\ DumpInv /\ BookInv /\ EndInv

-----------------------------------------------------------------------------
(* Giving a destination up takes it off both lists.                        *)
LEMMA GivingUp ==
  ASSUME IInv, pc \in AtDest, GiveUp
  PROVE  /\ active' \in [Destinations -> BOOLEAN] /\ completed' \in [Destinations -> BOOLEAN]
         /\ dest' \in 1 .. NumDestinations + 1 /\ dest' = dest + 1 /\ pc' = "dest"
         /\ active' = completed'
         /\ \A d \in Destinations : active'[d] => active[d] /\ d # dest
<1>1. dest \in Destinations /\ active = completed
  BY DEF IInv, BookInv
<1>2. dest' \in 1 .. NumDestinations + 1 /\ dest' = dest + 1 /\ pc' = "dest"
  BY <1>1, PipelineAssumption DEF GiveUp, Destinations
<1>3. active' = [active EXCEPT ![dest] = FALSE] /\ completed' = [active EXCEPT ![dest] = FALSE]
  BY <1>1 DEF GiveUp
<1>4. active \in [Destinations -> BOOLEAN]
  BY DEF IInv, TypeOK
<1>. QED BY <1>1, <1>2, <1>3, <1>4

(* Giving a destination up keeps the books, whatever Telegram accepted.    *)
LEMMA GivingUpBooks ==
  ASSUME IInv, pc \in AtDest, GiveUp, UNCHANGED <<count, part, recorded>>,
         received' \in [Destinations -> SUBSET Packaged],
         \A d \in Destinations : received[d] \subseteq received'[d]
  PROVE  BookInv'
<1> USE GivingUp DEF IInv, TypeOK, BookInv, Parts, Packaged, Destinations, AtDest, AtPart
<1>1. active' = completed' /\ pc' = "dest"
  OBVIOUS
<1>2. \A d \in Destinations : received'[d] \subseteq Packaged'
  OBVIOUS
<1>3. \A k \in Parts, d \in Destinations : <<k, d>> \in recorded' => k \in received'[d]
  OBVIOUS
<1>4. \A k \in Parts, d \in Destinations : active'[d] /\ k < part' => <<k, d>> \in recorded'
  OBVIOUS
<1>5. part' <= count' /\ \A d \in Destinations : active'[d] /\ d < dest' => <<part', d>> \in recorded'
  OBVIOUS
<1>. QED BY <1>1, <1>2, <1>3, <1>4, <1>5 DEF BooksAgree, Unsent

(* What a post may add to what Telegram holds.                             *)
LEMMA Delivered ==
  ASSUME IInv, pc \in AtDest, Deliver \/ UNCHANGED received
  PROVE  /\ received' \in [Destinations -> SUBSET Packaged]
         /\ received' \in [Destinations -> SUBSET Parts]
         /\ \A d \in Destinations : received[d] \subseteq received'[d]
         /\ Deliver => part \in received'[dest]
<1> USE DEF IInv, TypeOK, BookInv, AtDest, AtPart
<1>1. dest \in Destinations /\ part \in Packaged /\ Packaged \subseteq Parts
  BY PipelineAssumption DEF Packaged, Parts
<1>2. received \in [Destinations -> SUBSET Packaged]
  OBVIOUS
<1>. QED BY <1>1, <1>2 DEF Deliver

(* Every step keeps the type invariant.                                    *)
LEMMA TypeStep ==
  IInv /\ [Next]_vars => TypeOK'
<1> SUFFICES ASSUME IInv, [Next]_vars PROVE TypeOK'
  OBVIOUS
<1> USE PipelineAssumption DEF IInv, TypeOK, Parts, Destinations, Verdicts,
      dumpVars, loopVars, uploadVars, recordVars
<1>1. CASE Spawn
  BY <1>1 DEF Spawn, Return, Kill
<1>2. CASE StopIfCancelled
  BY <1>2 DEF StopIfCancelled, Return, Kill
<1>3. CASE Read
  BY <1>3 DEF Read
<1>4. CASE ReadEof
  BY <1>4 DEF ReadEof
<1>5. CASE FinishSink
  <2>1. CASE UNCHANGED <<count, files>>
    BY <1>5, <2>1 DEF FinishSink, Return, Kill
  <2>2. ASSUME NEW n \in (count .. MaxParts) \ {0}, count' = n, files' = 1 .. n, pc' = "reap",
               UNCHANGED <<dumpVars, outcome>>
        PROVE  TypeOK'
    BY <1>5, <2>2 DEF FinishSink
  <2>. QED BY <1>5, <2>1, <2>2 DEF FinishSink
<1>6. CASE Reap
  BY <1>6 DEF Reap, Return, Kill, Dumped
<1>7. CASE Begin
  BY <1>7 DEF Begin, Return, Kill
<1>8. CASE SendSummary
  BY <1>8 DEF SendSummary
<1>9. CASE NextPart
  BY <1>9 DEF NextPart, SomeActive
<1>10. CASE UploadOver
  BY <1>10 DEF UploadOver, Return, Kill, SomeActive
<1>11. CASE NextDestination
  BY <1>11 DEF NextDestination
<1>12. CASE DestinationsDone
  BY <1>12 DEF DestinationsDone, AllTried
<1>13. CASE Post
  <2>1. pc \in AtDest /\ (Deliver \/ UNCHANGED received)
    BY <1>13 DEF Post, AtDest
  <2>2. received' \in [Destinations -> SUBSET Parts]
    BY <2>1, Delivered
  <2>3. CASE GiveUp /\ UNCHANGED recorded
    BY <1>13, <2>1, <2>2, <2>3, GivingUp DEF Post
  <2>4. CASE ~GiveUp
    BY <1>13, <2>2, <2>4 DEF Post, BookInv, AtDest
  <2>. QED BY <1>13, <2>3, <2>4 DEF Post
<1>14. CASE Answer
  <2>1. pc \in AtDest /\ (Deliver \/ UNCHANGED received)
    BY <1>14 DEF Answer, Exhausted, AtDest, Accepted
  <2>2. received' \in [Destinations -> SUBSET Parts]
    BY <2>1, Delivered
  <2>3. CASE GiveUp /\ UNCHANGED recorded
    BY <1>14, <2>1, <2>2, <2>3, GivingUp DEF Answer, Exhausted
  <2>4. CASE ~GiveUp
    BY <1>14, <2>2, <2>4 DEF Answer, Exhausted, Accepted
  <2>. QED BY <1>14, <2>3, <2>4 DEF Answer, Exhausted
<1>15. CASE BodyLost
  <2>1. pc \in AtDest /\ (Deliver \/ UNCHANGED received)
    BY <1>15 DEF BodyLost, AtDest
  <2>2. received' \in [Destinations -> SUBSET Parts]
    BY <2>1, Delivered
  <2>3. CASE GiveUp /\ UNCHANGED recorded
    BY <1>15, <2>1, <2>2, <2>3, GivingUp DEF BodyLost
  <2>. QED BY <1>15, <2>3 DEF BodyLost
<1>16. CASE Receipt
  <2>1. pc \in AtDest /\ (Deliver \/ UNCHANGED received)
    BY <1>16 DEF Receipt, AtDest
  <2>2. received' \in [Destinations -> SUBSET Parts]
    BY <2>1, Delivered
  <2>3. CASE GiveUp /\ UNCHANGED recorded
    BY <1>16, <2>1, <2>2, <2>3, GivingUp DEF Receipt
  <2>4. CASE ~GiveUp
    BY <1>16, <2>2, <2>4 DEF Receipt, BookInv, AtDest
  <2>. QED BY <1>16, <2>3, <2>4 DEF Receipt
<1>17. CASE RecordPart
  <2>1. pc \in AtDest /\ (Deliver \/ UNCHANGED received)
    BY <1>17 DEF RecordPart, AtDest
  <2>2. received' \in [Destinations -> SUBSET Parts]
    BY <2>1, Delivered
  <2>3. CASE GiveUp /\ UNCHANGED recorded
    BY <1>17, <2>1, <2>2, <2>3, GivingUp DEF RecordPart
  <2>4. CASE recorded' = recorded \union {<<part, dest>>} /\ dest' = dest + 1 /\ pc' = "dest"
             /\ UNCHANGED <<active, completed>>
    BY <1>17, <2>2, <2>4 DEF RecordPart, BookInv, AtDest
  <2>. QED BY <1>17, <2>3, <2>4 DEF RecordPart
<1>18. CASE PartDone
  BY <1>18 DEF PartDone, RemovePart, DumpInv, BookInv, AtDest, AtPart, Sending, Unsent
<1>19. CASE Complete
  BY <1>19 DEF Complete, Return, Kill, CanComplete
<1>20. CASE Announce
  BY <1>20 DEF Announce, Return, Kill
<1>21. CASE Sweep
  BY <1>21 DEF Sweep, Keeps
<1>22. CASE ReadSome
  <2>1. CASE /\ ~token /\ pc' = "loop"
             /\ count < MaxParts /\ count' = count + 1 /\ files' = files \union {count'}
             /\ UNCHANGED <<dumpVars, outcome>>
    BY <1>22, <2>1 DEF ReadSome
  <2>2. CASE UNCHANGED <<count, files>>
    BY <1>22, <2>2 DEF ReadSome, Return, Kill
  <2>. QED BY <1>22, <2>1, <2>2 DEF ReadSome
<1>23. CASE ChildStep
  BY <1>23 DEF ChildStep
<1>24. CASE Watchdog
  BY <1>24 DEF Watchdog
<1>25. CASE Cancel
  BY <1>25 DEF Cancel
<1>26. CASE Crash
  BY <1>26 DEF Crash
<1>27. CASE UNCHANGED vars
  BY <1>27 DEF vars
<1>. QED BY <1>1, <1>2, <1>3, <1>4, <1>5, <1>6, <1>7, <1>8, <1>9, <1>10, <1>11, <1>12, <1>13, <1>14
       , <1>15, <1>16, <1>17, <1>18, <1>19, <1>20, <1>21, <1>22, <1>23, <1>24, <1>25, <1>26, <1>27 DEF
       Next, Pipeline

(* Every step keeps what is known of the dump.                             *)
LEMMA DumpStep ==
  IInv /\ [Next]_vars => DumpInv'
<1> SUFFICES ASSUME IInv, [Next]_vars PROVE DumpInv'
  OBVIOUS
<1> USE PipelineAssumption DEF IInv, TypeOK, Parts, Packaged, Destinations, Verdicts,
      DumpInv, OnlyGoodDumps, NothingLeft, Unsent, AtDest, AtPart, Sending, Ended,
      dumpVars, loopVars, uploadVars, recordVars
<1>1. CASE Spawn
  BY <1>1 DEF Spawn, Return, Kill, BookInv, EndInv
<1>2. CASE StopIfCancelled
  BY <1>2 DEF StopIfCancelled, Return, Kill, BookInv, EndInv
<1>3. CASE Read
  BY <1>3 DEF Read, BookInv, EndInv
<1>4. CASE ReadEof
  BY <1>4 DEF ReadEof, BookInv, EndInv
<1>5. CASE FinishSink
  BY <1>5 DEF FinishSink, Return, Kill, BookInv, EndInv
<1>6. CASE Reap
  BY <1>6 DEF Reap, Return, Kill, Dumped, BookInv, EndInv
<1>7. CASE Begin
  BY <1>7 DEF Begin, Return, Kill, BookInv, EndInv
<1>8. CASE SendSummary
  BY <1>8 DEF SendSummary, BookInv, EndInv
<1>9. CASE NextPart
  BY <1>9 DEF NextPart, SomeActive, BookInv, EndInv
<1>10. CASE UploadOver
  BY <1>10 DEF UploadOver, Return, Kill, SomeActive, BookInv, EndInv
<1>11. CASE NextDestination
  BY <1>11 DEF NextDestination, BookInv, EndInv
<1>12. CASE DestinationsDone
  BY <1>12 DEF DestinationsDone, AllTried, BookInv, EndInv
<1>13. CASE Post
  BY <1>13 DEF Post, GiveUp, BookInv, EndInv
<1>14. CASE Answer
  BY <1>14 DEF Answer, Exhausted, GiveUp, Accepted, Deliver, BookInv, EndInv
<1>15. CASE BodyLost
  BY <1>15 DEF BodyLost, GiveUp, Deliver, BookInv, EndInv
<1>16. CASE Receipt
  BY <1>16 DEF Receipt, GiveUp, BookInv, EndInv
<1>17. CASE RecordPart
  BY <1>17 DEF RecordPart, GiveUp, BookInv, EndInv
<1>18. CASE PartDone
  BY <1>18 DEF PartDone, RemovePart, BookInv, EndInv
<1>19. CASE Complete
  BY <1>19 DEF Complete, Return, Kill, CanComplete, BookInv, EndInv
<1>20. CASE Announce
  BY <1>20 DEF Announce, Return, Kill, BookInv, EndInv
<1>21. CASE Sweep
  BY <1>21 DEF Sweep, Keeps, BookInv, EndInv
<1>22. CASE ReadSome
  <2>1. CASE /\ ~token /\ pc' = "loop"
             /\ count < MaxParts /\ count' = count + 1 /\ files' = files \union {count'}
             /\ UNCHANGED <<dumpVars, outcome>>
    BY <1>22, <2>1 DEF ReadSome
  <2>2. CASE UNCHANGED <<count, files>>
    BY <1>22, <2>2 DEF ReadSome, Return, Kill, BookInv, EndInv
  <2>. QED BY <1>22, <2>1, <2>2 DEF ReadSome
<1>23. CASE ChildStep
  BY <1>23 DEF ChildStep, BookInv, EndInv
<1>24. CASE Watchdog
  BY <1>24 DEF Watchdog, BookInv, EndInv
<1>25. CASE Cancel
  BY <1>25 DEF Cancel, BookInv, EndInv
<1>26. CASE Crash
  BY <1>26 DEF Crash, BookInv, EndInv
<1>27. CASE UNCHANGED vars
  BY <1>27 DEF vars
<1>. QED BY <1>1, <1>2, <1>3, <1>4, <1>5, <1>6, <1>7, <1>8, <1>9, <1>10, <1>11, <1>12, <1>13, <1>14
       , <1>15, <1>16, <1>17, <1>18, <1>19, <1>20, <1>21, <1>22, <1>23, <1>24, <1>25, <1>26, <1>27 DEF
       Next, Pipeline

(* Every step keeps the books.                                             *)
LEMMA BookStep ==
  IInv /\ [Next]_vars => BookInv'
<1> SUFFICES ASSUME IInv, [Next]_vars PROVE BookInv'
  OBVIOUS
<1> USE PipelineAssumption DEF IInv, TypeOK, Parts, Packaged, Destinations, Verdicts,
      BookInv, BooksAgree, CanComplete, Unsent, AtDest, AtPart, Sending, Ended,
      dumpVars, loopVars, uploadVars, recordVars
<1>1. CASE Spawn
  BY <1>1 DEF Spawn, Return, Kill, DumpInv
<1>2. CASE StopIfCancelled
  BY <1>2 DEF StopIfCancelled, Return, Kill, DumpInv
<1>3. CASE Read
  BY <1>3 DEF Read, DumpInv
<1>4. CASE ReadEof
  BY <1>4 DEF ReadEof, DumpInv
<1>5. CASE FinishSink
  BY <1>5 DEF FinishSink, Return, Kill, DumpInv
<1>6. CASE Reap
  BY <1>6 DEF Reap, Return, Kill, Dumped, DumpInv
<1>7. CASE Begin
  BY <1>7 DEF Begin, Return, Kill, DumpInv
<1>8. CASE SendSummary
  BY <1>8 DEF SendSummary, DumpInv
<1>9. CASE NextPart
  BY <1>9 DEF NextPart, SomeActive, DumpInv
<1>10. CASE UploadOver
  BY <1>10 DEF UploadOver, Return, Kill, SomeActive, DumpInv
<1>11. CASE NextDestination
  BY <1>11 DEF NextDestination, DumpInv
<1>12. CASE DestinationsDone
  BY <1>12 DEF DestinationsDone, AllTried, DumpInv
<1>13. CASE Post
  <2>1. pc \in AtDest /\ (Deliver \/ UNCHANGED received)
    BY <1>13 DEF Post, AtDest
  <2>2. CASE GiveUp /\ UNCHANGED recorded
    BY <1>13, <2>1, <2>2, Delivered, GivingUpBooks DEF Post
  <2>3. CASE ~GiveUp
    BY <1>13, <2>1, <2>3 DEF Post
  <2>. QED BY <1>13, <2>2, <2>3 DEF Post
<1>14. CASE Answer
  <2>1. pc \in AtDest /\ (Deliver \/ UNCHANGED received)
    BY <1>14 DEF Answer, Exhausted, AtDest, Accepted
  <2>2. CASE GiveUp /\ UNCHANGED recorded
    BY <1>14, <2>1, <2>2, Delivered, GivingUpBooks DEF Answer, Exhausted
  <2>3. CASE ~GiveUp
    <3>1. /\ received' \in [Destinations -> SUBSET Packaged]
          /\ \A d \in Destinations : received[d] \subseteq received'[d]
          /\ Deliver => part \in received'[dest]
      BY <2>1, Delivered
    <3>2. pc' \in {"receipt", "try"} /\ (pc' = "receipt" => Deliver) /\ (pc' = "try" => attempt < MaxAttempts)
      BY <1>14, <2>3 DEF Answer, Exhausted, Accepted
    <3>3. UNCHANGED <<count, part, dest, attempt, active, completed, recorded>>
      BY <1>14, <2>3 DEF Answer, Exhausted
    <3>. QED BY <1>14, <2>1, <3>1, <3>2, <3>3 DEF Answer, Exhausted
  <2>. QED BY <1>14, <2>2, <2>3 DEF Answer, Exhausted
<1>15. CASE BodyLost
  <2>1. pc \in AtDest /\ (Deliver \/ UNCHANGED received)
    BY <1>15 DEF BodyLost, AtDest
  <2>2. CASE GiveUp /\ UNCHANGED recorded
    BY <1>15, <2>1, <2>2, Delivered, GivingUpBooks DEF BodyLost
  <2>. QED BY <1>15, <2>2 DEF BodyLost
<1>16. CASE Receipt
  <2>1. pc \in AtDest /\ (Deliver \/ UNCHANGED received)
    BY <1>16 DEF Receipt, AtDest
  <2>2. CASE GiveUp /\ UNCHANGED recorded
    BY <1>16, <2>1, <2>2, Delivered, GivingUpBooks DEF Receipt
  <2>3. CASE ~GiveUp
    BY <1>16, <2>1, <2>3, Delivered DEF Receipt, DumpInv
  <2>. QED BY <1>16, <2>2, <2>3 DEF Receipt
<1>17. CASE RecordPart
  <2>1. pc \in AtDest /\ (Deliver \/ UNCHANGED received)
    BY <1>17 DEF RecordPart, AtDest
  <2>2. CASE GiveUp /\ UNCHANGED recorded
    BY <1>17, <2>1, <2>2, Delivered, GivingUpBooks DEF RecordPart
  <2>3. CASE recorded' = recorded \union {<<part, dest>>} /\ dest' = dest + 1 /\ pc' = "dest"
             /\ UNCHANGED <<active, completed>>
    BY <1>17, <2>1, <2>3, Delivered DEF RecordPart, DumpInv
  <2>. QED BY <1>17, <2>2, <2>3 DEF RecordPart
<1>18. CASE PartDone
  BY <1>18 DEF PartDone, RemovePart, DumpInv
<1>19. CASE Complete
  BY <1>19 DEF Complete, Return, Kill, CanComplete, DumpInv
<1>20. CASE Announce
  BY <1>20 DEF Announce, Return, Kill, DumpInv
<1>21. CASE Sweep
  BY <1>21 DEF Sweep, Keeps, DumpInv
<1>22. CASE ReadSome
  BY <1>22 DEF ReadSome, Return, Kill, DumpInv
<1>23. CASE ChildStep
  BY <1>23 DEF ChildStep, DumpInv
<1>24. CASE Watchdog
  BY <1>24 DEF Watchdog, DumpInv
<1>25. CASE Cancel
  BY <1>25 DEF Cancel, DumpInv
<1>26. CASE Crash
  BY <1>26 DEF Crash, DumpInv
<1>27. CASE UNCHANGED vars
  BY <1>27 DEF vars
<1>. QED BY <1>1, <1>2, <1>3, <1>4, <1>5, <1>6, <1>7, <1>8, <1>9, <1>10, <1>11, <1>12, <1>13, <1>14
       , <1>15, <1>16, <1>17, <1>18, <1>19, <1>20, <1>21, <1>22, <1>23, <1>24, <1>25, <1>26, <1>27 DEF
       Next, Pipeline

(* Every step keeps the history and the manifest in agreement.             *)
LEMMA EndStep ==
  IInv /\ [Next]_vars => EndInv'
<1> SUFFICES ASSUME IInv, [Next]_vars PROVE EndInv'
  OBVIOUS
<1> USE PipelineAssumption DEF IInv, TypeOK, Parts, Packaged, Destinations, Verdicts,
      EndInv, RestorableIsWhole, Unsent, AtDest, AtPart, Sending, Ended,
      dumpVars, loopVars, uploadVars, recordVars
<1>1. CASE Spawn
  BY <1>1 DEF Spawn, Return, Kill, DumpInv, BookInv
<1>2. CASE StopIfCancelled
  BY <1>2 DEF StopIfCancelled, Return, Kill, DumpInv, BookInv
<1>3. CASE Read
  BY <1>3 DEF Read, DumpInv, BookInv
<1>4. CASE ReadEof
  BY <1>4 DEF ReadEof, DumpInv, BookInv
<1>5. CASE FinishSink
  BY <1>5 DEF FinishSink, Return, Kill, DumpInv, BookInv
<1>6. CASE Reap
  BY <1>6 DEF Reap, Return, Kill, Dumped, DumpInv, BookInv
<1>7. CASE Begin
  BY <1>7 DEF Begin, Return, Kill, DumpInv, BookInv
<1>8. CASE SendSummary
  BY <1>8 DEF SendSummary, DumpInv, BookInv
<1>9. CASE NextPart
  BY <1>9 DEF NextPart, SomeActive, DumpInv, BookInv
<1>10. CASE UploadOver
  BY <1>10 DEF UploadOver, Return, Kill, SomeActive, DumpInv, BookInv
<1>11. CASE NextDestination
  BY <1>11 DEF NextDestination, DumpInv, BookInv
<1>12. CASE DestinationsDone
  BY <1>12 DEF DestinationsDone, AllTried, DumpInv, BookInv
<1>13. CASE Post
  BY <1>13 DEF Post, GiveUp, DumpInv, BookInv
<1>14. CASE Answer
  BY <1>14 DEF Answer, Exhausted, GiveUp, Accepted, Deliver, DumpInv, BookInv
<1>15. CASE BodyLost
  BY <1>15 DEF BodyLost, GiveUp, Deliver, DumpInv, BookInv
<1>16. CASE Receipt
  BY <1>16 DEF Receipt, GiveUp, DumpInv, BookInv
<1>17. CASE RecordPart
  BY <1>17 DEF RecordPart, GiveUp, DumpInv, BookInv
<1>18. CASE PartDone
  BY <1>18 DEF PartDone, RemovePart, DumpInv, BookInv
<1>19. CASE Complete
  BY <1>19 DEF Complete, Return, Kill, CanComplete, BookInv, DumpInv
<1>20. CASE Announce
  BY <1>20 DEF Announce, Return, Kill, DumpInv, BookInv
<1>21. CASE Sweep
  BY <1>21 DEF Sweep, Keeps, DumpInv, BookInv
<1>22. CASE ReadSome
  BY <1>22 DEF ReadSome, Return, Kill, DumpInv, BookInv
<1>23. CASE ChildStep
  BY <1>23 DEF ChildStep, DumpInv, BookInv
<1>24. CASE Watchdog
  BY <1>24 DEF Watchdog, DumpInv, BookInv
<1>25. CASE Cancel
  BY <1>25 DEF Cancel, DumpInv, BookInv
<1>26. CASE Crash
  BY <1>26 DEF Crash, DumpInv, BookInv
<1>27. CASE UNCHANGED vars
  BY <1>27 DEF vars
<1>. QED BY <1>1, <1>2, <1>3, <1>4, <1>5, <1>6, <1>7, <1>8, <1>9, <1>10, <1>11, <1>12, <1>13, <1>14
       , <1>15, <1>16, <1>17, <1>18, <1>19, <1>20, <1>21, <1>22, <1>23, <1>24, <1>25, <1>26, <1>27 DEF
       Next, Pipeline
-----------------------------------------------------------------------------
(* The inductive invariant holds.                                          *)
THEOREM InvariantHolds == Spec => []IInv
<1>1. Init => IInv
  <2> SUFFICES ASSUME Init PROVE IInv
    OBVIOUS
  <2> USE PipelineAssumption DEF Init, Parts, Packaged, Destinations, Unsent, AtDest, AtPart, Sending, Ended
  <2>1. TypeOK
    <3>1. part \in 1 .. MaxParts + 1 /\ dest \in 1 .. NumDestinations + 1 /\ count \in 0 .. MaxParts
      OBVIOUS
    <3>2. attempt \in 0 .. MaxAttempts /\ notices \in 0 .. NumNotices /\ sent \in 0 .. MaxParts
      OBVIOUS
    <3>3. recorded \in SUBSET (Parts \X Destinations) /\ files \in SUBSET Parts
      OBVIOUS
    <3>4. received \in [Destinations -> SUBSET Parts]
      OBVIOUS
    <3>. QED BY <3>1, <3>2, <3>3, <3>4 DEF TypeOK, Verdicts
  <2>2. DumpInv
    BY DEF DumpInv, OnlyGoodDumps, NothingLeft
  <2>3. BookInv
    BY DEF BookInv, BooksAgree
  <2>4. EndInv
    BY DEF EndInv, RestorableIsWhole
  <2>. QED BY <2>1, <2>2, <2>3, <2>4 DEF IInv
<1>2. IInv /\ [Next]_vars => IInv'
  BY TypeStep, DumpStep, BookStep, EndStep DEF IInv
<1>. QED BY <1>1, <1>2, PTL DEF Spec

(* Every variable has its type; no part is tried more than MaxAttempts     *)
(* times at a destination (sendDocument).                                  *)
THEOREM TypeCorrect == Spec => []TypeOK
<1>1. IInv => TypeOK
  BY DEF IInv
<1>. QED BY <1>1, InvariantHolds, PTL

(* A backup that can be chosen for a restore has all its parts at Telegram *)
(* (ManifestStore::complete).                                              *)
THEOREM RestorableCorrect == Spec => []RestorableIsWhole
<1>1. IInv => RestorableIsWhole
  BY DEF IInv, EndInv
<1>. QED BY <1>1, InvariantHolds, PTL

(* A destination that got everything leaves a manifest that can be         *)
(* completed (upload_chunks_to_destinations against ManifestStore).        *)
THEOREM BooksCorrect == Spec => []BooksAgree
<1>1. IInv => BooksAgree
  BY DEF IInv, BookInv
<1>. QED BY <1>1, InvariantHolds, PTL

(* Telegram is sent parts of good dumps only (DumpPipe::finish).           *)
THEOREM GoodDumpsOnly == Spec => []OnlyGoodDumps
<1>1. IInv => OnlyGoodDumps
  BY DEF IInv, DumpInv
<1>. QED BY <1>1, InvariantHolds, PTL

(* A run leaves neither a child nor stray parts behind (run_database).     *)
THEOREM LeavesNothing == Spec => []NothingLeft
<1>1. IInv => NothingLeft
  BY DEF IInv, DumpInv
<1>. QED BY <1>1, InvariantHolds, PTL

(* While the run has no verdict, a part goes only when it is in the        *)
(* manifest for every active destination (upload_chunks_to_destinations).  *)
THEOREM PartsKept == Spec => KeptUntilSent
<1> DEFINE Kept == \A k \in files \ files' : outcome = "none" =>
                     \A d \in Destinations : active[d] => <<k, d>> \in recorded
<1>1. IInv /\ [Next]_vars => Kept
  <2> SUFFICES ASSUME IInv, [Next]_vars PROVE Kept
    OBVIOUS
  <2>1. CASE files \subseteq files'
    BY <2>1
  <2>2. CASE FinishSink
    <3>1. files = 1 .. count /\ count \in Nat
      BY <2>2, PipelineAssumption DEF FinishSink, IInv, TypeOK, DumpInv, Unsent, Packaged
    <3>2. files \subseteq files'
      BY <2>2, <3>1, PipelineAssumption DEF FinishSink
    <3>. QED BY <3>2
  <2>3. CASE PartDone
    BY <2>3, PipelineAssumption DEF PartDone, RemovePart, IInv, TypeOK, BookInv, AtPart, Destinations
  <2>4. CASE Sweep
    BY <2>4 DEF Sweep, IInv, EndInv, Ended
  <2>. QED BY <2>1, <2>2, <2>3, <2>4 DEF Next, Pipeline, Spawn, StopIfCancelled, Read, ReadSome, ReadEof,
         Reap, Begin, SendSummary, NextPart, UploadOver, NextDestination, DestinationsDone, Post, Answer,
         BodyLost, Receipt, RecordPart, Complete, Announce, ChildStep, Watchdog, Cancel, Crash, vars
<1>. QED BY <1>1, InvariantHolds, PTL DEF Spec, KeptUntilSent

-----------------------------------------------------------------------------
(* The refinement.                                                         *)
Held == UNION {received[d] : d \in Destinations}
RunOf == <<count, Held, manifest = "complete", outcome>>

LEMMA HeldKept == UNCHANGED received => UNCHANGED Held
  BY DEF Held

LEMMA HeldNothing ==
  ASSUME IInv, pc \in Unsent
  PROVE  Held = {}
BY DEF IInv, BookInv, Held

(* A post adds at most its part to what is held.                           *)
LEMMA HeldGrows ==
  ASSUME IInv, pc \in AtDest, Deliver
  PROVE  Held' = Held \union {part}
<1>1. dest \in Destinations /\ received \in [Destinations -> SUBSET Parts]
  BY DEF IInv, TypeOK, BookInv, AtDest
<1>2. \A d \in Destinations : received'[d] = IF d = dest THEN received[d] \union {part} ELSE received[d]
  BY <1>1 DEF Deliver
<1>. QED BY <1>1, <1>2 DEF Held

(* Every step is a step of the promise, or none.                           *)
LEMMA ArtifactStep ==
  IInv /\ [Next]_vars => [Artifact!Next]_<<count, Held, manifest = "complete", outcome>>
<1> SUFFICES ASSUME IInv, [Next]_vars PROVE Artifact!Next \/ UNCHANGED RunOf
  BY DEF RunOf
<1>1. ASSUME NEW v \in Verdicts, Return(v), outcome = "none", v = "success" <=> manifest = "complete",
             UNCHANGED <<count, received, manifest>>
      PROVE  Artifact!Next
  BY <1>1, HeldKept DEF Return, Artifact!Next, Artifact!Judge, Verdicts, Held
<1>2. CASE pc \in Unsent /\ UNCHANGED <<received, manifest, outcome>> /\ count' \in count .. MaxParts
  <2>1. Held = {} /\ UNCHANGED Held
    BY <1>2, HeldNothing, HeldKept
  <2>2. CASE count' = count
    BY <1>2, <2>1, <2>2 DEF RunOf
  <2>3. CASE count' # count
    <3>1. count' > count /\ count' \in 1 .. MaxParts
      BY <1>2, <2>3, PipelineAssumption DEF IInv, TypeOK
    <3>. QED BY <1>2, <2>1, <3>1 DEF Artifact!Next, Artifact!Package, Held
  <2>. QED BY <2>2, <2>3
<1>3. CASE pc \in AtDest /\ (Deliver \/ UNCHANGED received) /\ UNCHANGED <<count, manifest, outcome>>
  <2>1. part \in 1 .. count /\ part \in 1 .. MaxParts
    BY <1>3, PipelineAssumption DEF IInv, TypeOK, BookInv, AtPart, AtDest
  <2>2. CASE Deliver
    BY <1>3, <2>1, <2>2, HeldGrows DEF Artifact!Next, Artifact!Deliver, Held
  <2>3. CASE UNCHANGED received
    BY <1>3, <2>3, HeldKept DEF RunOf
  <2>. QED BY <1>3, <2>2, <2>3
<1>4. CASE Complete /\ ~Return("failure")
  <2>1. Held = 1 .. count /\ UNCHANGED Held
    <3>1. \A k \in Packaged : \E d \in Destinations : k \in received[d]
      BY <1>4, PipelineAssumption DEF Complete, CanComplete, IInv, TypeOK, BookInv, Parts, Packaged
    <3>2. \A d \in Destinations : received[d] \subseteq Packaged
      BY DEF IInv, BookInv
    <3>3. UNCHANGED Held
      BY <1>4, HeldKept DEF Complete, uploadVars
    <3>. QED BY <3>1, <3>2, <3>3 DEF Held, Packaged
  <2>2. count > 0 /\ outcome = "none"
    BY <1>4 DEF Complete, IInv, DumpInv, EndInv, Ended
  <2>. QED BY <1>4, <2>1, <2>2 DEF Complete, Artifact!Next, Artifact!Offer, Held
<1>5. CASE UNCHANGED <<count, received, manifest, outcome>>
  BY <1>5, HeldKept DEF RunOf
<1> USE DEF Unsent, Sending, AtPart, AtDest, Ended, dumpVars, loopVars, uploadVars, recordVars
<1>6. (outcome = "none" /\ manifest # "complete") \/ pc \in {"notice", "sweep", "over", "crashed"}
  BY DEF IInv, TypeOK, EndInv
<1>7. pc = "notice" => manifest = "complete" /\ outcome = "none"
  BY DEF IInv, EndInv
<1>8. CASE Spawn
  BY <1>8, <1>1, <1>5, <1>6, <1>7 DEF Spawn, Verdicts
<1>9. CASE StopIfCancelled
  BY <1>9, <1>1, <1>5, <1>6, <1>7 DEF StopIfCancelled, Verdicts
<1>10. CASE Reap
  BY <1>10, <1>1, <1>5, <1>6, <1>7 DEF Reap, Verdicts
<1>11. CASE UploadOver
  BY <1>11, <1>1, <1>5, <1>6, <1>7 DEF UploadOver, Verdicts
<1>12. CASE Announce
  BY <1>12, <1>1, <1>5, <1>6, <1>7 DEF Announce, Verdicts
<1>13. CASE Begin
  <2>1. CASE Return("failure") /\ UNCHANGED manifest
    BY <1>13, <1>1, <1>6, <2>1 DEF Begin, Verdicts
  <2>2. CASE manifest' = "started" /\ UNCHANGED outcome
    BY <1>13, <1>6, <2>2, HeldKept DEF Begin, RunOf
  <2>. QED BY <1>13, <2>1, <2>2 DEF Begin
<1>14. CASE FinishSink
  BY <1>14, <1>1, <1>2, <1>6, PipelineAssumption DEF FinishSink, Verdicts, IInv, TypeOK
<1>15. CASE ReadSome
  BY <1>15, <1>1, <1>2, <1>5, <1>6, PipelineAssumption DEF ReadSome, Verdicts, IInv, TypeOK
<1>16. CASE Post
  BY <1>16, <1>3 DEF Post
<1>17. CASE Answer
  BY <1>17, <1>3 DEF Answer, Exhausted, Accepted
<1>18. CASE BodyLost
  BY <1>18, <1>3 DEF BodyLost
<1>19. CASE Receipt
  BY <1>19, <1>3 DEF Receipt
<1>20. CASE RecordPart
  BY <1>20, <1>3 DEF RecordPart
<1>21. CASE Complete
  <2>1. CASE Return("failure")
    <3>1. UNCHANGED manifest
      BY <1>21, <2>1 DEF Complete, Return
    <3>. QED BY <1>21, <1>1, <1>6, <2>1, <3>1 DEF Complete, Verdicts
  <2>. QED BY <1>21, <1>4, <2>1
<1>22. CASE Read
  BY <1>22, <1>5 DEF Read
<1>23. CASE ReadEof
  BY <1>23, <1>5 DEF ReadEof
<1>24. CASE SendSummary
  BY <1>24, <1>5 DEF SendSummary
<1>25. CASE NextPart
  BY <1>25, <1>5 DEF NextPart
<1>26. CASE NextDestination
  BY <1>26, <1>5 DEF NextDestination
<1>27. CASE DestinationsDone
  BY <1>27, <1>5 DEF DestinationsDone
<1>28. CASE PartDone
  BY <1>28, <1>5 DEF PartDone
<1>29. CASE Sweep
  BY <1>29, <1>5 DEF Sweep
<1>30. CASE ChildStep
  BY <1>30, <1>5 DEF ChildStep
<1>31. CASE Watchdog
  BY <1>31, <1>5 DEF Watchdog
<1>32. CASE Cancel
  BY <1>32, <1>5 DEF Cancel
<1>33. CASE Crash
  BY <1>33, <1>5 DEF Crash
<1>34. CASE UNCHANGED vars
  BY <1>34, <1>5 DEF vars
<1>. QED BY <1>8, <1>9, <1>10, <1>11, <1>12, <1>13, <1>14, <1>15, <1>16, <1>17, <1>18, <1>19, <1>20
       , <1>21, <1>22, <1>23, <1>24, <1>25, <1>26, <1>27, <1>28, <1>29, <1>30, <1>31, <1>32, <1>33
       , <1>34 DEF Next, Pipeline

(* A step into a later phase, or a later place of the upload, is ahead.    *)
LEMMA AheadCases ==
  ASSUME TypeOK, TypeOK', Phase \in 0 .. 10, Phase' \in 0 .. 10
  PROVE  /\ Phase < Phase' => Ahead
         /\ Phase' = Phase /\ notices' < notices => Ahead
         /\ Phase' = Phase /\ UNCHANGED notices =>
              /\ part < part' => Ahead
              /\ part' = part /\ Lap < Lap' => Ahead
              /\ part' = part /\ Lap' = Lap =>
                   /\ dest < dest' => Ahead
                   /\ dest' = dest /\ Stint < Stint' => Ahead
                   /\ dest' = dest /\ Stint' = Stint /\ attempt < attempt' => Ahead
                   /\ dest' = dest /\ Stint' = Stint /\ UNCHANGED attempt /\ Turn < Turn' => Ahead
<1>. HIDE DEF Phase, Lap, Stint, Turn
<1>. QED BY DEF Ahead, Then

(* Every step of the pipeline itself, once the dump has been read.         *)
LEMMA AheadStep ==
  ASSUME IInv, TypeOK', Pipeline, pc \notin {"loop", "read"}
  PROVE  Ahead
<1>0. Phase \in 0 .. 10 /\ Phase' \in 0 .. 10
  BY DEF Phase
<1>1. TypeOK /\ TypeOK' /\ PipelineAssumption
  BY PipelineAssumption DEF IInv
<1>2. ASSUME Phase < Phase' PROVE Ahead
  BY <1>0, <1>1, <1>2, AheadCases
<1>3. CASE Spawn \/ FinishSink \/ Reap \/ Begin \/ Complete \/ Announce \/ Sweep
  <2>1. Phase < Phase'
    BY <1>3 DEF Spawn, FinishSink, Reap, Begin, Complete, Announce, Sweep, Return, Phase
  <2>. QED BY <2>1, <1>2
<1>4. CASE StopIfCancelled \/ UploadOver
  <2>1. Phase < Phase'
    BY <1>4 DEF StopIfCancelled, UploadOver, Return, Phase
  <2>. QED BY <2>1, <1>2
<1>5. CASE SendSummary
  <2>1. CASE pc' = "chunk"
    BY <1>5, <2>1, <1>2 DEF SendSummary, Phase
  <2>2. CASE UNCHANGED pc /\ notices' = notices - 1
    BY <1>5, <2>2, <1>0, <1>1, AheadCases DEF Phase, TypeOK
  <2>. QED BY <1>5, <2>1, <2>2 DEF SendSummary
<1>6. CASE NextPart
  <2>1. Phase' = Phase /\ UNCHANGED notices /\ part' = part /\ Lap < Lap'
    BY <1>6 DEF NextPart, uploadVars, loopVars, Phase, Lap
  <2>. QED BY <2>1, <1>0, <1>1, AheadCases
<1>7. CASE DestinationsDone
  <2>1. Phase' = Phase /\ UNCHANGED notices /\ part' = part /\ Lap < Lap'
    BY <1>7 DEF DestinationsDone, uploadVars, loopVars, Phase, Lap
  <2>. QED BY <2>1, <1>0, <1>1, AheadCases
<1>8. CASE PartDone
  <2>1. Phase' = Phase /\ UNCHANGED notices /\ part < part'
    BY <1>8, <1>1 DEF PartDone, Phase, TypeOK
  <2>. QED BY <2>1, <1>0, <1>1, AheadCases
<1>9. CASE NextDestination
  <2>1. Phase' = Phase /\ UNCHANGED <<notices, part>> /\ Lap' = Lap
    BY <1>9 DEF NextDestination, Phase, Lap
  <2>2. CASE dest' = dest + 1
    BY <2>1, <2>2, <1>0, <1>1, AheadCases DEF TypeOK
  <2>3. CASE dest' = dest /\ pc' = "try"
    BY <1>9, <2>1, <2>3, <1>0, <1>1, AheadCases DEF NextDestination, Stint
  <2>. QED BY <1>9, <2>2, <2>3 DEF NextDestination
<1>10. ASSUME pc \in AtDest, GiveUp, UNCHANGED <<notices, part>> PROVE Ahead
  <2>1. Phase' = Phase /\ Lap' = Lap /\ dest' = dest + 1
    BY <1>10 DEF GiveUp, Phase, Lap, AtDest
  <2>. QED BY <2>1, <1>10, <1>0, <1>1, AheadCases DEF TypeOK
<1>11. CASE Post /\ ~GiveUp
  <2>1. /\ Phase' = Phase /\ UNCHANGED <<notices, part, dest>> /\ Lap' = Lap /\ Stint' = Stint
        /\ attempt' = attempt + 1
    BY <1>11 DEF Post, Phase, Lap, Stint
  <2>. QED BY <2>1, <1>0, <1>1, AheadCases DEF TypeOK
<1>12. CASE Answer /\ ~GiveUp
  <2>1. pc = "await" /\ pc' \in {"receipt", "try"} /\ UNCHANGED <<notices, part, dest, attempt>>
    BY <1>12 DEF Answer, Accepted
  <2>2. Phase' = Phase /\ Lap' = Lap /\ Stint' = Stint /\ Turn < Turn'
    BY <2>1 DEF Phase, Lap, Stint, Turn
  <2>. QED BY <2>1, <2>2, <1>0, <1>1, AheadCases
<1>13. CASE Receipt /\ ~GiveUp
  <2>1. Phase' = Phase /\ Lap' = Lap /\ Stint' = Stint /\ Turn < Turn'
    BY <1>13 DEF Receipt, Phase, Lap, Stint, Turn
  <2>. QED BY <2>1, <1>13, <1>0, <1>1, AheadCases DEF Receipt
<1>14. CASE RecordPart /\ ~GiveUp
  <2>1. Phase' = Phase /\ Lap' = Lap /\ UNCHANGED <<notices, part>> /\ dest' = dest + 1
    BY <1>14 DEF RecordPart, Phase, Lap
  <2>. QED BY <2>1, <1>0, <1>1, AheadCases DEF TypeOK
<1>15. CASE (Post \/ Answer \/ BodyLost \/ Receipt \/ RecordPart) /\ GiveUp
  BY <1>15, <1>10 DEF Post, Answer, BodyLost, Receipt, RecordPart, AtDest
<1>16. CASE ReadEof \/ Read
  BY <1>16 DEF ReadEof, Read
<1>. QED
  BY <1>3, <1>4, <1>5, <1>6, <1>7, <1>8, <1>9, <1>11, <1>12, <1>13, <1>14, <1>15, <1>16
     DEF Pipeline, BodyLost

(* No loop of a run goes round for nothing, whatever the number of parts,  *)
(* destinations, attempts and summaries: the retries are used up.          *)
THEOREM LoopsEnd == Spec => AlwaysAhead
<1>1. IInv /\ TypeOK' /\ [Next]_vars => [Pipeline /\ pc \notin {"loop", "read"} => Ahead]_vars
  BY AheadStep
<1>. QED BY <1>1, InvariantHolds, TypeCorrect, PTL DEF Spec, AlwaysAhead

(* The pipeline keeps the promise of BackupArtifact.                       *)
THEOREM Implementation == Spec => ImplementsArtifact
<1>1. Init => Artifact!Init
  BY DEF Init, Artifact!Init
<1>2. IInv /\ [Next]_vars => [Artifact!Next]_<<count, Held, manifest = "complete", outcome>>
  BY ArtifactStep
<1>. QED BY <1>1, <1>2, InvariantHolds, PTL DEF Spec, ImplementsArtifact, Artifact!Spec, Held
=============================================================================
