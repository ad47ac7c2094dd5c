------------------------------ MODULE RouteLink -----------------------------
(***************************************************************************)
(* From a share link to the configuration of a core: parse_share_url of    *)
(* src/routing.rs and the two generators, for sing-box and for shoes.      *)
(* Which of the generators takes a profile decides the cores it is said to *)
(* be compatible with.                                                     *)
(*                                                                         *)
(* Data abstracted: a link is a record of its parameters, None one that it *)
(* does not have and "" one that it gives no value.  type is what the link *)
(* is to be carried over: the net of VMess, the type of VLESS and Trojan,  *)
(* the plugin of Shadowsocks.  Addresses, passwords and ids only are there *)
(* or not: sound says that those the scheme needs are and can be read.     *)
(***************************************************************************)
EXTENDS Sequences

CONSTANT Links   \* the links to import

Unread  == [kind |-> "none"]     \* in the place of a profile
Refused == [kind |-> "refused"]

VARIABLES
  link,     \* the link that is imported
  profile,  \* what parse_share_url made of it
  config    \* what each generator made of the profile: <<>> when it refused

linkVars == <<link, profile, config>>

Cores  == {"sing-box", "shoes"}
Absent == [c \in Cores |-> <<>>]

None == "absent" \* a parameter that the link does not have

OrElse(value, default) == IF value = None THEN default ELSE value \* unwrap_or
NonEmpty(value, default) == IF value \in {None, ""} THEN default ELSE value

Profile(k) == \* the fields a parser fills unless it reads them
  [kind |-> k, security |-> "", transport |-> "tcp", host |-> None, path |-> None,
   tls |-> FALSE, sni |-> None, pbk |-> None, sid |-> None]

Transports == {"tcp", "ws", "grpc", "http"}

\* In the JSON of VMess, a value that is empty is as good as none.
ParseVmess(l) ==
  IF ~l.sound \/ NonEmpty(l.type, "tcp") \notin Transports THEN Refused
  ELSE [Profile("vmess") EXCEPT
          !.security = NonEmpty(l.security, "auto"), !.transport = NonEmpty(l.type, "tcp"),
          !.host = NonEmpty(l.host, None), !.path = NonEmpty(l.path, None),
          !.tls = l.tls \in {"tls", "1"}, !.sni = NonEmpty(l.sni, None)]

\* In a query, it is a value: no type and no security, but a host or a key.
ParseVless(l) ==
  IF \/ ~l.sound \/ OrElse(l.type, "tcp") \notin Transports
     \/ OrElse(l.security, "none") \notin {"none", "tls", "reality"}
  THEN Refused
  ELSE [Profile("vless") EXCEPT
          !.security = OrElse(l.security, "none"), !.transport = OrElse(l.type, "tcp"),
          !.host = l.host, !.path = l.path, !.tls = OrElse(l.security, "none") # "none",
          !.sni = l.sni, !.pbk = l.pbk, !.sid = l.sid]

\* The query, and the plugin with it, is left out; so is the transport.
ParseShadowsocks(l) ==
  IF ~l.sound THEN Refused ELSE [Profile("shadowsocks") EXCEPT !.transport = ""]

\* Of the query, only security and sni are read.
ParseTrojan(l) ==
  IF ~l.sound \/ OrElse(l.security, "tls") # "tls" THEN Refused
  ELSE [Profile("trojan") EXCEPT !.security = "tls", !.tls = TRUE, !.sni = l.sni]

ParseShareUrl(l) ==
  CASE l.scheme = "vmess"  -> ParseVmess(l)
    [] l.scheme = "vless"  -> ParseVless(l)
    [] l.scheme = "ss"     -> ParseShadowsocks(l)
    [] l.scheme = "trojan" -> ParseTrojan(l)
    [] OTHER               -> Refused

-----------------------------------------------------------------------------
\* sing-box: one outbound with its transport and its TLS beside each other.
HasTransport(p) == p.kind \in {"vmess", "vless"} /\ p.transport # "tcp"

GenerateConfig(p) ==
  <<[type |-> p.kind,
   security |-> IF p.kind = "vmess" THEN p.security ELSE "",
   transport |-> IF HasTransport(p) THEN [type |-> p.transport, path |-> p.path, host |-> p.host]
                 ELSE [type |-> None, path |-> None, host |-> None],
   tls |-> [enabled |-> p.tls, server_name |-> IF p.tls THEN p.sni ELSE None]]>>

\* shoes: protocols within protocols, the innermost first here.
Cipher(security) ==
  CASE security \in {"", "auto"} -> "chacha20-poly1305"
    [] security \in {"aes-128-gcm", "chacha20-poly1305", "none"} -> security
    [] OTHER -> "unsupported"

Layer(type, host, path, sni, pbk, sid, vision) ==
  [type |-> type, host |-> host, path |-> path, sni |-> sni, pbk |-> pbk, sid |-> sid,
   vision |-> vision]

Base(p) == <<[type |-> p.kind, cipher |-> IF p.kind = "vmess" THEN Cipher(p.security) ELSE ""]>>

Websocket(p) ==
  IF p.transport = "ws" THEN <<Layer("websocket", p.host, p.path, "", "", "", FALSE)>> ELSE <<>>

Vision(p) == p.kind = "vless" /\ p.transport = "tcp"

Secured(p) ==
  CASE p.security = "reality" ->
         <<Layer("reality", "", "", p.sni, p.pbk, OrElse(p.sid, ""), Vision(p))>>
    [] p.security # "reality" /\ p.tls ->
         <<Layer("tls", "", "", OrElse(p.sni, "the address"), "", "", Vision(p))>>
    [] OTHER -> <<>>

ShoesRefuses(p) ==
  \/ p.transport \in {"grpc", "http"}
  \/ p.kind = "vmess" /\ Cipher(p.security) = "unsupported"
  \/ p.security = "reality" /\ (p.pbk = None \/ p.sni = None)

FaultyGenerateShoesConfig(p) == \* TLS inside of the websocket
  IF ShoesRefuses(p) THEN <<>> ELSE Base(p) \o Secured(p) \o Websocket(p)

GenerateShoesConfig(p) ==
  IF ShoesRefuses(p) THEN <<>> ELSE Base(p) \o Websocket(p) \o Secured(p)

Generate(core, p) == IF core = "shoes" THEN GenerateShoesConfig(p) ELSE GenerateConfig(p)

\* derive_compatible_cores.
CompatibleCores == {c \in Cores : config[c] # <<>>}

-----------------------------------------------------------------------------
LinkInit ==
  /\ link \in Links
  /\ profile = Unread
  /\ config = Absent

ImportProfile ==
  /\ profile = Unread
  /\ profile' = ParseShareUrl(link)
  /\ config' = IF profile' = Refused THEN Absent ELSE [c \in Cores |-> Generate(c, profile')]
  /\ UNCHANGED link

LinkSpec == LinkInit /\ [][ImportProfile]_linkVars

-----------------------------------------------------------------------------
\* What a link asks for, read from the link alone; a parameter without a value
\* asks for nothing.
Wanted(l) ==
  LET over   == NonEmpty(l.type, "tcp")
      within == CASE l.scheme = "trojan" -> NonEmpty(l.security, "tls")
                  [] l.scheme = "vless"  -> NonEmpty(l.security, "none")
                  [] l.scheme = "vmess" /\ l.tls \in {"tls", "1"} -> "tls"
                  [] OTHER -> "none" IN
  [proto |-> IF l.scheme = "ss" THEN "shadowsocks" ELSE l.scheme,
   cipher |-> IF l.scheme = "vmess" THEN NonEmpty(l.security, "auto") ELSE "",
   over |-> over,
   host |-> IF over = "tcp" THEN "" ELSE NonEmpty(l.host, ""),
   path |-> IF over = "tcp" THEN "" ELSE NonEmpty(l.path, ""),
   within |-> within, sni |-> NonEmpty(l.sni, ""),
   pbk |-> NonEmpty(l.pbk, ""), sid |-> NonEmpty(l.sid, "")]

SingSpeaks(c, w) == c.type = w.proto /\ c.security = w.cipher

SingCarries(c, w) ==
  /\ NonEmpty(c.transport.type, "tcp") = w.over
  /\ NonEmpty(c.transport.host, "") = w.host /\ NonEmpty(c.transport.path, "") = w.path

SingSecures(c, w) ==
  /\ w.within \in {"none", "tls"}
  /\ c.tls.enabled = (w.within = "tls")
  /\ c.tls.enabled => NonEmpty(c.tls.server_name, "") = w.sni

ShoesSpeaks(c, w) ==
  c[1].type = w.proto /\ (w.cipher \notin {"", "auto"} => c[1].cipher = w.cipher)

ShoesCarries(c, w) ==
  LET ws == {i \in DOMAIN c : c[i].type = "websocket"} IN
  /\ (ws # {}) = (w.over = "ws") /\ w.over \in {"tcp", "ws"}
  /\ \A i \in ws : NonEmpty(c[i].host, "") = w.host /\ NonEmpty(c[i].path, "") = w.path

ShoesSecures(c, w) == \* from the outside: whatever carries the connection is within
  LET tls == {i \in DOMAIN c : c[i].type \in {"tls", "reality"}} IN
  /\ (tls # {}) = (w.within # "none")
  /\ \A i \in tls : /\ c[i].type = w.within
                    /\ i = Len(c)
                    /\ w.sni # "" => c[i].sni = w.sni
                    /\ w.within = "reality" => c[i].pbk = w.pbk /\ c[i].sid = w.sid

Taken == profile.kind \notin {"none", "refused"}

\* The two exceptions: links whose transport no parser reads, and REALITY, of
\* which the configuration for sing-box says nothing.
LosesTransport(l) == l.scheme \in {"ss", "trojan"} /\ Wanted(l).over # "tcp"
LosesReality(l)   == Wanted(l).within = "reality"

\* A core that is said to be compatible with a link is configured for what the
\* link asks for: it speaks the protocol, with the cipher if one is named; it
\* is carried over the transport, unless the link is a Trojan or a Shadowsocks
\* one that names another than tcp; and it is secured from the outside in,
\* unless the core is sing-box and the link asks for REALITY.
CoresServe ==
  LET w == Wanted(link)  sing == config["sing-box"][1]  shoes == config["shoes"] IN
  Taken =>
    /\ SingSpeaks(sing, w)
    /\ ~LosesTransport(link) => SingCarries(sing, w)
    /\ ~LosesReality(link) => SingSecures(sing, w)
    /\ "shoes" \in CompatibleCores =>
         /\ ShoesSpeaks(shoes, w) /\ ShoesSecures(shoes, w)
         /\ ~LosesTransport(link) => ShoesCarries(shoes, w)

\* What the exceptions hide, each of which fails.  The transport a link names
\* is the one its configurations have.
TransportKept ==
  Taken => /\ SingCarries(config["sing-box"][1], Wanted(link))
           /\ "shoes" \in CompatibleCores => ShoesCarries(config["shoes"], Wanted(link))

\* A link that asks for REALITY is not said to be compatible with sing-box,
\* whose configuration has none of the keys.
SingKnowsReality == Taken /\ LosesReality(link) => "sing-box" \notin CompatibleCores

\* A configuration with REALITY has a key and the name of a server, as the
\* errors of generate_shoes_config ask.
RealityComplete ==
  Taken /\ "shoes" \in CompatibleCores =>
    \A i \in DOMAIN config["shoes"] :
      LET c == config["shoes"][i] IN c.type = "reality" => c.pbk # "" /\ c.sni # ""
=============================================================================
