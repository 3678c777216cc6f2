----------------------------- MODULE RemoteSession -----------------------------
(***************************************************************************)
(* The session with a remote dashboard: its host and token in memory and   *)
(* in the config file, and the handlers that set, obtain, use and drop it  *)
(* (internal/app/server.go, lines 188-337; config.go, lines 286-299).      *)
(*                                                                         *)
(* A request is one call of a handler, which goes through steps:           *)
(*    login   it waits for the remote host, under no lock                  *)
(*    stored  SetRemoteConfig was called, the answer is still to be sent   *)
(*    proxy   it forwards a GET with the host and token it read            *)
(* The user name goes wherever the token goes and is left out. A stored    *)
(* host is one normalizeRemoteHost accepted: a POST it refuses changes     *)
(* nothing. writeConfig is one step that happens or fails (AtomicWrite).   *)
(***************************************************************************)
EXTENDS Naturals, FiniteSets

CONSTANTS
  Clients,   \* requests that may be under way at the same time
  Hosts,     \* remote dashboards
  Serials,   \* tells the tokens of one host apart: a bound on those in use
  NoHost,    \* no remote host is configured
  NoToken    \* no session

VARIABLES
  remote,    \* RemoteHost and RemoteSessionToken of c.cfg
  saved,     \* the same two in the config file
  running,   \* the process is up
  req,       \* the request of each client
  promised   \* history: the session that an answer told the user to be set,
             \* unless something came between; at most one

sessionVars == <<remote, saved, running, req, promised>>

Tokens == [issuer : Hosts, serial : Serials]

Sessions == [host : Hosts \cup {NoHost}, token : Tokens \cup {NoToken}]

Session(h, t) == [host |-> h, token |-> t]
Disconnected == Session(NoHost, NoToken)

\* firm: no other edit of the session overlaps this one, and its write worked.
Requests == [step : {"idle", "login", "stored", "proxy"},
             session : Sessions, firm : BOOLEAN]

Idle == [step |-> "idle", session |-> Disconnected, firm |-> FALSE]

InUse == {remote.token, saved.token} \cup {req[k].session.token : k \in Clients}

\* A host hands out a token that nobody holds. A host names its own tokens.
FreshTokens(h) == {t \in Tokens : t.issuer = h} \ InUse

RemoteSessionInit ==
  /\ saved = Disconnected
  /\ remote = saved
  /\ running = TRUE
  /\ req = [k \in Clients |-> Idle]
  /\ promised = {saved}

-----------------------------------------------------------------------------
(* Mutant: the file is written only when the host changes.                 *)
SetSessionIfMoved(s, ok) ==
  /\ remote' = s
  /\ saved' = IF ok /\ s.host # remote.host THEN s ELSE saved

(* SetRemoteConfig: memory changes even when the write fails.              *)
SetSession(s, ok) ==
  /\ remote' = s
  /\ saved' = IF ok THEN s ELSE saved

Editing(k) == req[k].step \in {"login", "stored"}

Alone(k) == \A j \in Clients \ {k} : ~Editing(j)

(* An edit of the session begins, over those that are still under way.     *)
Begin(k, step, s, ok) ==
  req' = [j \in Clients |->
            IF j = k THEN [step |-> step, session |-> s, firm |-> ok /\ Alone(k)]
                     ELSE [req[j] EXCEPT !.firm = FALSE]]

(* Mutant: another host is configured, the token stays.                    *)
ConfigureKeepsToken(k, h, ok) ==
  /\ running
  /\ req[k] = Idle
  /\ SetSession(Session(h, IF h = NoHost THEN NoToken ELSE remote.token), ok)
  /\ Begin(k, "stored", Session(h, NoToken), ok)
  /\ promised' = {}
  /\ UNCHANGED running

(* POST /api/remote/config: another host, or none to disconnect; either    *)
(* way the token is dropped.                                               *)
Configure(k, h, ok) ==
  /\ running
  /\ req[k] = Idle
  /\ SetSession(Session(h, NoToken), ok)
  /\ Begin(k, "stored", Session(h, NoToken), ok)
  /\ promised' = {}
  /\ UNCHANGED running

(* POST /api/remote/login sends the password to the host.                  *)
LoginBegin(k, h) ==
  /\ running
  /\ req[k] = Idle
  /\ Begin(k, "login", Session(h, NoToken), TRUE)
  /\ UNCHANGED <<remote, saved, running, promised>>

(* The host answers with a session token, which is stored.                 *)
LoginAnswered(k, ok) ==
  /\ req[k].step = "login"
  /\ \E t \in FreshTokens(req[k].session.host) :
       LET s == Session(req[k].session.host, t)
       IN /\ SetSession(s, ok)
          /\ req' = [req EXCEPT ![k] = [step |-> "stored", session |-> s,
                                        firm |-> @.firm /\ ok]]
  /\ promised' = {}
  /\ UNCHANGED running

(* The host refuses, sends no token, or is silent for ten seconds.         *)
LoginFails(k) ==
  /\ req[k].step = "login"
  /\ req' = [req EXCEPT ![k] = Idle]
  /\ UNCHANGED <<remote, saved, running, promised>>

(* The handler of Configure or Login answers.                              *)
Answer(k) ==
  /\ req[k].step = "stored"
  /\ promised' = IF req[k].firm THEN {req[k].session} ELSE promised
  /\ req' = [req EXCEPT ![k] = Idle]
  /\ UNCHANGED <<remote, saved, running>>

(* GET /api/remote/...: one locked read of host and token.                 *)
ProxyBegin(k) ==
  /\ running
  /\ req[k] = Idle
  /\ remote.host # NoHost
  /\ req' = [req EXCEPT ![k] = [step |-> "proxy", session |-> remote, firm |-> FALSE]]
  /\ UNCHANGED <<remote, saved, running, promised>>

(* The answer of the host is copied, or its ten seconds are over.          *)
ProxyEnd(k) ==
  /\ req[k].step = "proxy"
  /\ req' = [req EXCEPT ![k] = Idle]
  /\ UNCHANGED <<remote, saved, running, promised>>

(* A target is saved or deleted: writeConfig writes all of memory.         *)
SaveTarget ==
  /\ running
  /\ saved' = remote
  /\ UNCHANGED <<remote, running, req, promised>>

(* The process ends, and its requests with it.                             *)
KillApp ==
  /\ running
  /\ running' = FALSE
  /\ remote' = Disconnected
  /\ req' = [k \in Clients |-> Idle]
  /\ UNCHANGED <<saved, promised>>

(* The process starts and loads the config file.                           *)
RestartApp ==
  /\ ~running
  /\ running' = TRUE
  /\ remote' = saved
  /\ UNCHANGED <<saved, req, promised>>

RemoteSessionNext ==
  \/ \E k \in Clients :
       \/ \E ok \in BOOLEAN : \/ \E h \in Hosts \cup {NoHost} : Configure(k, h, ok)
                              \/ LoginAnswered(k, ok)
       \/ \E h \in Hosts : LoginBegin(k, h)
       \/ LoginFails(k)
       \/ Answer(k)
       \/ ProxyBegin(k)
       \/ ProxyEnd(k)
  \/ SaveTarget
  \/ KillApp
  \/ RestartApp

RemoteSessionSpec == RemoteSessionInit /\ [][RemoteSessionNext]_sessionVars

-----------------------------------------------------------------------------
RemoteSessionTypeOK ==
  /\ remote \in Sessions
  /\ saved \in Sessions
  /\ running \in BOOLEAN
  /\ req \in [Clients -> Requests]
  /\ promised \subseteq Sessions

(* A session token is sent to the host that issued it and to no other,     *)
(* whatever logins, disconnects, restarts and changes of host come between *)
(* the login and the proxied request.                                      *)
TokenStaysHome ==
  \A k \in Clients : req[k].step = "proxy" /\ req[k].session.token # NoToken =>
    req[k].session.token.issuer = req[k].session.host

(* A login, a change of host or a disconnect that was answered with        *)
(* success and that no other such request overlapped holds, in memory and  *)
(* in the file, over failed logins, saves of targets, kills and restarts,  *)
(* until the next one is stored. (A disconnect that a login overlaps may   *)
(* be undone: the login stores its session up to ten seconds later.)       *)
AnsweredSessionHolds ==
  \A s \in promised : saved = s /\ (running => remote = s)
=============================================================================
