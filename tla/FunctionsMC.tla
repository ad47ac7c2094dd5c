----------------------------- MODULE FunctionsMC ----------------------------
(***************************************************************************)
(* The pure functions, each for itself: a behaviour asks one expression of *)
(* CronMC for its next firing, or imports one link of RouteLink.           *)
(***************************************************************************)
EXTENDS CronMC, RouteLink

NoLink == [scheme |-> "none"]

\* Every scheme with every transport and security, the ones a parser or a
\* generator refuses included.
SomeLinks ==
  LET Blank == {None, ""} IN
  [scheme : {"vmess", "vless", "ss", "trojan", "http"}, sound : {TRUE},
   type : Blank \union {"tcp", "ws", "grpc", "kcp"},
   security : Blank \union {"none", "tls", "reality", "aes-128-gcm", "zero"},
   tls : {"", "tls"}, host : Blank \union {"h"}, path : {"p"}, sni : Blank \union {"s"},
   pbk : Blank \union {"k"}, sid : {None, "i"}]
  \union {[scheme |-> s, sound |-> FALSE, type |-> "tcp", security |-> None, tls |-> "",
           host |-> None, path |-> None, sni |-> None, pbk |-> None, sid |-> None] :
         s \in {"vmess", "vless", "ss", "trojan"}}

SearchOnly == Init /\ link = NoLink /\ profile = Refused /\ config = Absent

ImportOnly ==
  /\ LinkInit
  /\ spec = [minute |-> {}] /\ from = At(0, 0, 0) /\ cron = Unparsed
  /\ at = from /\ steps = 0 /\ phase = "rejected"

FunctionsSpec ==
  /\ SearchOnly \/ ImportOnly
  /\ [][(Next /\ UNCHANGED linkVars) \/ (ImportProfile /\ UNCHANGED vars)]_<<vars, linkVars>>
=============================================================================
