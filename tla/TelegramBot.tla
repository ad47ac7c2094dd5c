---------------------------- MODULE TelegramBot -----------------------------
(***************************************************************************)
(* The bot thread of src/bot.rs: it polls Telegram for updates, handles    *)
(* them one after the other and tells Telegram with the next poll how far  *)
(* it came.  A command registers a chat, shows something, or queues a      *)
(* backup; every answer goes through the lock of TelegramOps.  Beside it   *)
(* administrators edit users and databases and the scheduler works on the  *)
(* queue.                                                                  *)
(*                                                                         *)
(* Data abstracted: what an answer says; the bot's status, which is shown  *)
(* and never read.  External: Telegram keeps updates in order until it is  *)
(* told an offset above them.                                              *)
(***************************************************************************)
EXTENDS TelegramOps, Sequences

CONSTANTS
  Bot,         \* the caller that is the bot
  Chats, DBs,
  Updates,     \* bound: the updates that may arrive, [kind, chat, db]
  MaxUpdates   \* bound

ASSUME BotAssumption ==
  /\ Bot \in Callers /\ Kind[Bot] = "message"
  /\ Updates \subseteq [kind : {"add", "ask", "backup", "press", "pick", "text"},
                        chat : Chats, db : DBs]
  /\ MaxUpdates \in Nat

VARIABLES
  arrived,    \* the updates Telegram was given, in order
  confirmed,  \* how many of them it has forgotten
  bot,        \* where the bot is
  offset,     \* of the next poll; 0: none
  next, last, \* what is left of the batch
  handled,    \* how often each update was handled
  users,      \* the Telegram users: unknown, off (registered) or on (enabled)
  trusted,    \* the chats an administrator has ever enabled
  known,      \* the configured databases
  enabled,    \* those that are not disabled
  queue,      \* per database: nothing, or queued or running for a chat
  card        \* its status card

telegramVars == <<arrived, confirmed>>
loopVars     == <<offset, next, last>>
panelVars    == <<users, trusted, known, enabled>>
queueVars    == <<queue, card>>
botVars == <<telegramVars, bot, loopVars, handled, panelVars, queueVars>>

BotPhases == {"down", "poll", "next", "list", "create", "find", "toast",
              "known", "enabled", "request", "card", "reply", "sent"}

Idle == [is |-> "idle"]

BotTypeOK ==
  /\ arrived \in Seq(Updates) /\ Len(arrived) <= MaxUpdates
  /\ confirmed \in 0..Len(arrived)
  /\ bot \in BotPhases
  /\ offset \in 0..MaxUpdates + 1 /\ next \in 1..MaxUpdates + 1 /\ last \in 0..Len(arrived)
  /\ handled \in [1..MaxUpdates -> Nat]
  /\ users \in [Chats -> {"unknown", "off", "on"}]
  /\ trusted \in SUBSET Chats /\ known \in SUBSET DBs /\ enabled \in SUBSET DBs
  /\ queue \in [DBs -> {Idle} \union [is : {"queued", "running"}, chat : Chats]]
  /\ card \in [DBs -> {"idle", "queued", "running", "done"}]

BotInit ==
  /\ arrived = <<>> /\ confirmed = 0
  /\ bot = "poll"
  /\ offset = 0 /\ next = 1 /\ last = 0
  /\ handled = [u \in 1..MaxUpdates |-> 0]
  /\ users = [c \in Chats |-> "unknown"] /\ trusted = {}
  /\ known = DBs /\ enabled = DBs
  /\ queue = [d \in DBs |-> Idle]
  /\ card = [d \in DBs |-> "idle"]

\* Somebody writes to the bot or presses a button.
Arrive(u) ==
  /\ Len(arrived) < MaxUpdates
  /\ arrived' = Append(arrived, u)
  /\ UNCHANGED <<opVars, confirmed, bot, loopVars, handled, panelVars, queueVars>>

-----------------------------------------------------------------------------
FaultyTold == IF last > confirmed THEN last ELSE confirmed \* as soon as it is received

\* Telegram forgets what lies below the offset it is asked for.
Told == IF offset > confirmed THEN offset - 1 ELSE confirmed

\* get_updates, with its attempts: an answer ...
Poll ==
  /\ bot = "poll"
  /\ confirmed' = Told
  /\ Told < Len(arrived)
  /\ next' = Told + 1 /\ last' = Len(arrived)
  /\ bot' = "next"
  /\ UNCHANGED <<opVars, arrived, offset, handled, panelVars, queueVars>>

\* ... or none, although Telegram may have read the question.
PollFails ==
  /\ bot = "poll"
  /\ confirmed' = Told
  /\ UNCHANGED <<opVars, arrived, bot, loopVars, handled, panelVars, queueVars>>

Update == arrived[next - 1]

\* The offset is raised before the update is handled, but nobody hears of it
\* before the batch is done.
First(kind) == CASE kind = "text" -> "next"
                 [] kind = "add"  -> "list"
                 [] OTHER         -> "find"

Count(u) == handled' = [handled EXCEPT ![u] = @ + 1]

TakeUpdate ==
  /\ bot = "next" /\ next <= last
  /\ offset' = next + 1
  /\ next' = next + 1
  /\ bot' = First(arrived[next].kind)
  /\ IF arrived[next].kind = "text" THEN Count(next) ELSE UNCHANGED handled
  /\ UNCHANGED <<opVars, telegramVars, last, panelVars, queueVars>>

FaultyBatchDone == \* before its last update
  /\ bot = "next" /\ next >= last
  /\ bot' = "poll"
  /\ next' = 1 /\ last' = 0
  /\ UNCHANGED <<opVars, telegramVars, offset, handled, panelVars, queueVars>>

BatchDone ==
  /\ bot = "next" /\ next > last
  /\ bot' = "poll"
  /\ next' = 1 /\ last' = 0
  /\ UNCHANGED <<opVars, telegramVars, offset, handled, panelVars, queueVars>>

-----------------------------------------------------------------------------
BotOnly == UNCHANGED <<opVars, telegramVars, loopVars>>

\* /add_me looks the chat up in a copy of the list ...
List ==
  /\ bot = "list"
  /\ bot' = IF users[Update.chat] = "unknown" THEN "create" ELSE "reply"
  /\ BotOnly /\ UNCHANGED <<handled, panelVars, queueVars>>

FaultyMayCreate(chat) == TRUE

\* ... and TelegramUserStore::create looks again, under its lock.  The file
\* may not be written; then there is no such user.
MayCreate(chat) == users[chat] = "unknown"

CreateUser ==
  /\ bot = "create"
  /\ bot' = "reply"
  /\ \/ /\ MayCreate(Update.chat)
        /\ users' = [users EXCEPT ![Update.chat] = "off"]
     \/ UNCHANGED users
  /\ BotOnly /\ UNCHANGED <<handled, trusted, known, enabled, queueVars>>

\* Every other command is for enabled users.
MayAsk(chat) == users[chat] = "on"

After(kind) == CASE kind \in {"press", "pick"} -> "toast"
                 [] kind = "backup"            -> "known"
                 [] OTHER                      -> "reply"

FindUser ==
  /\ bot = "find"
  /\ IF MayAsk(Update.chat) THEN bot' = After(Update.kind) /\ UNCHANGED handled
                            ELSE bot' = "next" /\ Count(next - 1)
  /\ BotOnly /\ UNCHANGED <<panelVars, queueVars>>

\* A button is answered first; nobody looks whether that worked.
Toast ==
  /\ bot = "toast"
  /\ bot' = IF Update.kind = "pick" THEN "known" ELSE "reply"
  /\ BotOnly /\ UNCHANGED <<handled, panelVars, queueVars>>

\* queue_backup: three questions to three owners.
AskKnown ==
  /\ bot = "known"
  /\ bot' = IF Update.db \in known THEN "enabled" ELSE "reply"
  /\ BotOnly /\ UNCHANGED <<handled, panelVars, queueVars>>

AskEnabled ==
  /\ bot = "enabled"
  /\ bot' = IF Update.db \in enabled THEN "request" ELSE "reply"
  /\ BotOnly /\ UNCHANGED <<handled, panelVars, queueVars>>

Request ==
  /\ bot = "request"
  /\ IF queue[Update.db] = Idle
     THEN /\ queue' = [queue EXCEPT ![Update.db] = [is |-> "queued", chat |-> Update.chat]]
          /\ bot' = "card"
     ELSE bot' = "reply" /\ UNCHANGED queue
  /\ BotOnly /\ UNCHANGED <<handled, panelVars, card>>

WriteCard ==
  /\ bot = "card"
  /\ card' = [card EXCEPT ![Update.db] = "queued"]
  /\ bot' = "reply"
  /\ BotOnly /\ UNCHANGED <<handled, panelVars, queue>>

\* The answer; that it could not be sent is noted and no more.
Reply ==
  /\ bot = "reply" /\ Call(Bot)
  /\ bot' = "sent"
  /\ UNCHANGED <<telegramVars, loopVars, handled, panelVars, queueVars>>

Replied ==
  /\ bot = "sent" /\ call[Bot] = "out"
  /\ bot' = "next"
  /\ Count(next - 1)
  /\ BotOnly /\ UNCHANGED <<panelVars, queueVars>>

BotSteps ==
  \/ TakeUpdate \/ BatchDone \/ List \/ CreateUser \/ FindUser \/ Toast
  \/ AskKnown \/ AskEnabled \/ Request \/ WriteCard \/ Reply \/ Replied

-----------------------------------------------------------------------------
\* An administrator creates, enables, disables or deletes a user, ...
EditUser(c) ==
  /\ \E to \in {"unknown", "off", "on"} \ {users[c]} :
       /\ users' = [users EXCEPT ![c] = to]
       /\ trusted' = IF to = "on" THEN trusted \union {c} ELSE trusted
  /\ UNCHANGED <<opVars, telegramVars, bot, loopVars, handled, known, enabled, queueVars>>

\* ... deletes a database that is idle, or disables one.
EditDatabase(d) ==
  /\ \/ queue[d] = Idle /\ known' = known \ {d} /\ UNCHANGED enabled
     \/ enabled' = enabled \ {d} /\ UNCHANGED known
  /\ <<known, enabled>>' # <<known, enabled>>
  /\ UNCHANGED <<opVars, telegramVars, bot, loopVars, handled, users, trusted, queueVars>>

\* The scheduler takes a request and ends it.
Schedule(d) ==
  /\ queue[d] # Idle /\ bot # "down"
  /\ IF queue[d].is = "queued"
     THEN /\ queue' = [queue EXCEPT ![d].is = "running"]
          /\ card' = [card EXCEPT ![d] = "running"]
     ELSE /\ queue' = [queue EXCEPT ![d] = Idle]
          /\ card' = [card EXCEPT ![d] = "done"]
  /\ UNCHANGED <<opVars, telegramVars, bot, loopVars, handled, panelVars>>

\* With the process go the offset, the batch, the queue and the cards.
BotCrash ==
  /\ bot # "down"
  /\ bot' = "down"
  /\ offset' = 0 /\ next' = 1 /\ last' = 0
  /\ queue' = [d \in DBs |-> Idle]
  /\ card' = [d \in DBs |-> "idle"]
  /\ UNCHANGED <<telegramVars, handled, panelVars>>

BotStart ==
  /\ bot = "down"
  /\ bot' = "poll"
  /\ UNCHANGED <<telegramVars, loopVars, handled, panelVars, queueVars>>

-----------------------------------------------------------------------------
\* Telegram forgets an update only after it was handled: whatever answer of a
\* poll is lost and whenever the process dies, none is skipped (bot.rs: the
\* offset of the batch is sent with the poll after it).
HandledBeforeForgotten == \A u \in 1..confirmed : handled[u] > 0

\* What a chat queues was asked for by somebody an administrator has enabled,
\* whatever is registered, deleted or disabled meanwhile.
RequestsTrusted == \A d \in DBs : queue[d] # Idle => queue[d].chat \in trusted

\* The bot registers unknown chats, switched off, and changes no other user:
\* an administrator's decision that falls between its look at the list and
\* its creation of a user stands.
OnlyAdminsDecide ==
  [][bot' # bot => \A c \in Chats : users'[c] # users[c] =>
        users[c] = "unknown" /\ users'[c] = "off"]_botVars

\* Every update that arrives is handled in the end.
UpdatesHandled == \A u \in 1..MaxUpdates : Len(arrived) >= u ~> handled[u] > 0
=============================================================================
