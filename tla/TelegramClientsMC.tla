-------------------------- MODULE TelegramClientsMC -------------------------
EXTENDS TelegramClients

KindOf == [p \in Callers |-> CASE p = Bot -> "message"
                               [] p \in {Worker, "pipeline"} -> "upload"
                               [] OTHER -> "check"]

Chat == CHOOSE c \in Chats : TRUE

\* One chat and one database meet every branch; a second chat is a stranger.
SomeUpdates == [kind : {"add", "backup", "pick", "text"}, chat : {Chat}, db : DBs]
=============================================================================
