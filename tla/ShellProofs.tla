------------------------------ MODULE ShellProofs ------------------------------
(***************************************************************************)
(* The safety of what surrounds the prober: the session with a remote      *)
(* dashboard, the background service, the start of processes on one config *)
(* file, and the writes of that file. They share no variable, and each has *)
(* an invariant of its own.                                                *)
(***************************************************************************)
EXTENDS RemoteSession, Background, DesktopStart, AtomicWrite, Integers, TLAPS

-----------------------------------------------------------------------------
(* The session with a remote dashboard, for any number of clients, hosts   *)
(* and tokens: a token goes to its issuer only, and an answered change of  *)
(* the session holds.                                                      *)

AtHome(s) == s.token # NoToken => s.token.issuer = s.host

SessionsAtHome ==
  AtHome(remote) /\ AtHome(saved) /\ \A k \in Clients : AtHome(req[k].session)

\* Requests live in the process.
RequestsRun == \A k \in Clients : req[k].step # "idle" => running

\* While an edit is firm, it is the only one.
FirmIsAlone ==
  \A k \in Clients : Editing(k) /\ req[k].firm =>
    \A j \in Clients \ {k} : ~Editing(j)

\* What a firm edit has set is still there.
FirmIsStored ==
  \A k \in Clients : req[k].step = "stored" /\ req[k].firm =>
    remote = req[k].session /\ saved = req[k].session

SessionInv ==
  /\ RemoteSessionTypeOK
  /\ SessionsAtHome
  /\ RequestsRun
  /\ FirmIsAlone
  /\ FirmIsStored
  /\ AnsweredSessionHolds

-----------------------------------------------------------------------------
LEMMA DisconnectedIsSession ==
  /\ Disconnected \in Sessions
  /\ AtHome(Disconnected)
  /\ Idle \in Requests
  /\ Idle.session = Disconnected /\ Idle.step = "idle" /\ ~Idle.firm
BY DEF Disconnected, Session, Sessions, AtHome, Idle, Requests

(* The initial state satisfies the inductive invariant.                    *)
LEMMA SessionInvInit == RemoteSessionInit => SessionInv
<1> SUFFICES ASSUME RemoteSessionInit PROVE SessionInv
  OBVIOUS
<1> USE DisconnectedIsSession DEF RemoteSessionInit
<1>1. RemoteSessionTypeOK
  BY DEF RemoteSessionTypeOK
<1>2. SessionsAtHome
  BY DEF SessionsAtHome
<1>3. RequestsRun /\ FirmIsAlone /\ FirmIsStored /\ AnsweredSessionHolds
  BY DEF RequestsRun, FirmIsAlone, FirmIsStored, AnsweredSessionHolds, Editing
<1> QED
  BY <1>1, <1>2, <1>3 DEF SessionInv

(* What the other requests become when an edit begins: themselves, but no  *)
(* longer firm.                                                            *)
LEMMA BeginEffect ==
  ASSUME RemoteSessionTypeOK, NEW k \in Clients, NEW step \in {"login", "stored"},
         NEW s \in Sessions, NEW ok \in BOOLEAN, Begin(k, step, s, ok)
  PROVE  /\ req' \in [Clients -> Requests]
         /\ req'[k].step = step /\ req'[k].session = s
         /\ req'[k].firm = (ok /\ Alone(k))
         /\ \A j \in Clients \ {k} : /\ req'[j].step = req[j].step
                                     /\ req'[j].session = req[j].session
                                     /\ ~req'[j].firm
BY DEF RemoteSessionTypeOK, Requests, Begin, Alone, Editing

(* A request that ends, or begins to forward, leaves the others alone.     *)
LEMMA OneRequest ==
  ASSUME RemoteSessionTypeOK, NEW k \in Clients, NEW r \in Requests,
         req' = [req EXCEPT ![k] = r]
  PROVE  /\ req' \in [Clients -> Requests]
         /\ req'[k] = r
         /\ \A j \in Clients \ {k} : req'[j] = req[j]
BY DEF RemoteSessionTypeOK

-----------------------------------------------------------------------------
(* A change of host, or a disconnect.                                      *)
LEMMA ConfigureInv ==
  ASSUME SessionInv, NEW k \in Clients, NEW h \in Hosts \cup {NoHost},
         NEW ok \in BOOLEAN, Configure(k, h, ok)
  PROVE  SessionInv'
<1> DEFINE s == Session(h, NoToken)
<1>1. /\ s \in Sessions /\ AtHome(s)
      /\ remote' = s /\ saved' = (IF ok THEN s ELSE saved)
      /\ running /\ running' = running /\ promised' = {}
      /\ Begin(k, "stored", s, ok)
  BY DEF Session, Sessions, AtHome, Configure, SetSession
<1>2. RemoteSessionTypeOK
  BY DEF SessionInv
<1> HIDE DEF s
<1>3. /\ req' \in [Clients -> Requests]
      /\ req'[k].step = "stored" /\ req'[k].session = s
      /\ req'[k].firm = (ok /\ Alone(k))
      /\ \A j \in Clients \ {k} : /\ req'[j].step = req[j].step
                                  /\ req'[j].session = req[j].session
                                  /\ ~req'[j].firm
  BY <1>1, <1>2, BeginEffect
<1>4. RemoteSessionTypeOK'
  BY <1>1, <1>2, <1>3 DEF RemoteSessionTypeOK
<1>5. SessionsAtHome'
  BY <1>1, <1>3 DEF SessionInv, SessionsAtHome, AtHome
<1>6. RequestsRun'
  BY <1>1 DEF RequestsRun
<1>7. FirmIsAlone'
  BY <1>3 DEF FirmIsAlone, Editing, Alone
<1>8. FirmIsStored'
  BY <1>1, <1>3 DEF FirmIsStored
<1>9. AnsweredSessionHolds'
  BY <1>1 DEF AnsweredSessionHolds
<1> QED
  BY <1>4, <1>5, <1>6, <1>7, <1>8, <1>9 DEF SessionInv

(* A login is sent to its host.                                            *)
LEMMA LoginBeginInv ==
  ASSUME SessionInv, NEW k \in Clients, NEW h \in Hosts, LoginBegin(k, h)
  PROVE  SessionInv'
<1> DEFINE s == Session(h, NoToken)
<1>1. /\ s \in Sessions /\ AtHome(s)
      /\ running /\ UNCHANGED <<remote, saved, running, promised>>
      /\ Begin(k, "login", s, TRUE)
  BY DEF Session, Sessions, AtHome, LoginBegin
<1>2. RemoteSessionTypeOK
  BY DEF SessionInv
<1> HIDE DEF s
<1>3. /\ req' \in [Clients -> Requests]
      /\ req'[k].step = "login" /\ req'[k].session = s
      /\ req'[k].firm = (TRUE /\ Alone(k))
      /\ \A j \in Clients \ {k} : /\ req'[j].step = req[j].step
                                  /\ req'[j].session = req[j].session
                                  /\ ~req'[j].firm
  BY <1>1, <1>2, BeginEffect
<1>4. RemoteSessionTypeOK'
  BY <1>1, <1>2, <1>3 DEF RemoteSessionTypeOK
<1>5. SessionsAtHome'
  BY <1>1, <1>3 DEF SessionInv, SessionsAtHome, AtHome
<1>6. RequestsRun'
  BY <1>1 DEF RequestsRun
<1>7. FirmIsAlone'
  BY <1>3 DEF FirmIsAlone, Editing, Alone
<1>8. FirmIsStored'
  BY <1>3 DEF FirmIsStored
<1>9. AnsweredSessionHolds'
  BY <1>1 DEF SessionInv, AnsweredSessionHolds
<1> QED
  BY <1>4, <1>5, <1>6, <1>7, <1>8, <1>9 DEF SessionInv

(* The host answers a login: any firm edit would be this one.              *)
LEMMA LoginAnsweredInv ==
  ASSUME SessionInv, NEW k \in Clients, NEW ok \in BOOLEAN, LoginAnswered(k, ok)
  PROVE  SessionInv'
<1>1. PICK t \in FreshTokens(req[k].session.host) :
        LET s == Session(req[k].session.host, t)
        IN /\ SetSession(s, ok)
           /\ req' = [req EXCEPT ![k] = [step |-> "stored", session |-> s,
                                         firm |-> @.firm /\ ok]]
  BY DEF LoginAnswered
<1> DEFINE s == Session(req[k].session.host, t)
           r == [step |-> "stored", session |-> s, firm |-> req[k].firm /\ ok]
<1>2. RemoteSessionTypeOK /\ req[k] \in Requests
  BY DEF SessionInv, RemoteSessionTypeOK
<1>3. s \in Sessions /\ AtHome(s) /\ r \in Requests
  BY <1>2 DEF Session, Sessions, Requests, AtHome, FreshTokens
<1>4. /\ remote' = s /\ saved' = (IF ok THEN s ELSE saved)
      /\ running' = running /\ promised' = {}
      /\ req[k].step = "login"
      /\ req' = [req EXCEPT ![k] = r]
  BY <1>1, <1>2 DEF LoginAnswered, SetSession, RemoteSessionTypeOK
<1>5. /\ req' \in [Clients -> Requests] /\ req'[k] = r
      /\ \A j \in Clients \ {k} : req'[j] = req[j]
  BY <1>2, <1>3, <1>4, OneRequest
<1>6. RemoteSessionTypeOK'
  BY <1>2, <1>3, <1>4, <1>5 DEF RemoteSessionTypeOK
<1>7. SessionsAtHome'
  BY <1>3, <1>4, <1>5 DEF SessionInv, SessionsAtHome, AtHome
<1>8. RequestsRun'
  BY <1>4, <1>5 DEF SessionInv, RequestsRun
<1>9. FirmIsAlone'
  BY <1>4, <1>5 DEF SessionInv, FirmIsAlone, Editing
<1>10. \A j \in Clients \ {k} : ~(req[j].step = "stored" /\ req[j].firm)
  BY <1>4 DEF SessionInv, FirmIsAlone, Editing
<1>11. FirmIsStored'
  BY <1>4, <1>5, <1>10 DEF FirmIsStored
<1>12. AnsweredSessionHolds'
  BY <1>4 DEF AnsweredSessionHolds
<1> QED
  BY <1>6, <1>7, <1>8, <1>9, <1>11, <1>12 DEF SessionInv

(* A request ends without a change of the session, or a proxied one begins *)
(* with the session of memory.                                             *)
LEMMA QuietRequestInv ==
  ASSUME SessionInv, NEW k \in Clients, NEW r \in Requests,
         req' = [req EXCEPT ![k] = r],
         r.step \in {"idle", "proxy"}, r.step # "idle" => running, AtHome(r.session),
         UNCHANGED <<remote, saved, running>>, AnsweredSessionHolds',
         promised' \subseteq Sessions
  PROVE  SessionInv'
<1>1. RemoteSessionTypeOK
  BY DEF SessionInv
<1>2. /\ req' \in [Clients -> Requests] /\ req'[k] = r
      /\ \A j \in Clients \ {k} : req'[j] = req[j]
  BY <1>1, OneRequest
<1>3. RemoteSessionTypeOK'
  BY <1>1, <1>2 DEF RemoteSessionTypeOK
<1>4. SessionsAtHome'
  BY <1>2 DEF SessionInv, SessionsAtHome, AtHome
<1>5. RequestsRun'
  BY <1>2 DEF SessionInv, RequestsRun
<1>6. FirmIsAlone'
  BY <1>2 DEF SessionInv, FirmIsAlone, Editing
<1>7. FirmIsStored'
  BY <1>2 DEF SessionInv, FirmIsStored
<1> QED
  BY <1>3, <1>4, <1>5, <1>6, <1>7 DEF SessionInv

-----------------------------------------------------------------------------
(* Every step preserves the inductive invariant.                           *)
LEMMA SessionInvNext == SessionInv /\ [RemoteSessionNext]_sessionVars => SessionInv'
<1> SUFFICES ASSUME SessionInv, [RemoteSessionNext]_sessionVars
             PROVE  SessionInv'
  OBVIOUS
<1>1. ASSUME NEW k \in Clients, NEW ok \in BOOLEAN, NEW h \in Hosts \cup {NoHost},
             Configure(k, h, ok)
      PROVE  SessionInv'
  BY <1>1, ConfigureInv
<1>2. ASSUME NEW k \in Clients, NEW ok \in BOOLEAN, LoginAnswered(k, ok)
      PROVE  SessionInv'
  BY <1>2, LoginAnsweredInv
<1>3. ASSUME NEW k \in Clients, NEW h \in Hosts, LoginBegin(k, h)
      PROVE  SessionInv'
  BY <1>3, LoginBeginInv
<1>4. ASSUME NEW k \in Clients, LoginFails(k) \/ ProxyEnd(k)
      PROVE  SessionInv'
  <2>1. /\ req' = [req EXCEPT ![k] = Idle]
        /\ UNCHANGED <<remote, saved, running, promised>>
    BY <1>4 DEF LoginFails, ProxyEnd
  <2>2. AnsweredSessionHolds' /\ promised' \subseteq Sessions
    BY <2>1 DEF SessionInv, AnsweredSessionHolds, RemoteSessionTypeOK
  <2> QED
    BY <2>1, <2>2, DisconnectedIsSession, QuietRequestInv
<1>5. ASSUME NEW k \in Clients, Answer(k)
      PROVE  SessionInv'
  <2>1. /\ req[k].step = "stored"
        /\ promised' = (IF req[k].firm THEN {req[k].session} ELSE promised)
        /\ req' = [req EXCEPT ![k] = Idle]
        /\ UNCHANGED <<remote, saved, running>>
    BY <1>5 DEF Answer
  <2>2. req[k] \in Requests /\ req[k].session \in Sessions
    BY DEF SessionInv, RemoteSessionTypeOK, Requests
  <2>3. AnsweredSessionHolds' /\ promised' \subseteq Sessions
    BY <2>1, <2>2 DEF SessionInv, AnsweredSessionHolds, FirmIsStored, RemoteSessionTypeOK
  <2> QED
    BY <2>1, <2>3, DisconnectedIsSession, QuietRequestInv
<1>6. ASSUME NEW k \in Clients, ProxyBegin(k)
      PROVE  SessionInv'
  <2> DEFINE r == [step |-> "proxy", session |-> remote, firm |-> FALSE]
  <2>1. running /\ req' = [req EXCEPT ![k] = r] /\ UNCHANGED <<remote, saved, running, promised>>
    BY <1>6 DEF ProxyBegin
  <2>2. r \in Requests /\ AtHome(r.session)
    BY DEF SessionInv, RemoteSessionTypeOK, SessionsAtHome, Requests
  <2>3. AnsweredSessionHolds' /\ promised' \subseteq Sessions
    BY <2>1 DEF SessionInv, AnsweredSessionHolds, RemoteSessionTypeOK
  <2>4. r.step = "proxy"
    OBVIOUS
  <2> HIDE DEF r
  <2> QED
    BY <2>1, <2>2, <2>3, <2>4, QuietRequestInv
<1>7. CASE SaveTarget
  <2>1. running /\ saved' = remote /\ UNCHANGED <<remote, running, req, promised>>
    BY <1>7 DEF SaveTarget
  <2>2. RemoteSessionTypeOK' /\ SessionsAtHome' /\ RequestsRun' /\ FirmIsAlone'
    BY <2>1 DEF SessionInv, RemoteSessionTypeOK, SessionsAtHome, AtHome, RequestsRun,
                FirmIsAlone, Editing
  <2>3. FirmIsStored' /\ AnsweredSessionHolds'
    BY <2>1 DEF SessionInv, FirmIsStored, AnsweredSessionHolds
  <2> QED
    BY <2>2, <2>3 DEF SessionInv
<1>8. CASE KillApp
  <2>1. /\ ~running' /\ running' \in BOOLEAN /\ remote' = Disconnected
        /\ req' = [k \in Clients |-> Idle]
        /\ UNCHANGED <<saved, promised>>
    BY <1>8 DEF KillApp
  <2>2. RemoteSessionTypeOK' /\ SessionsAtHome'
    BY <2>1, DisconnectedIsSession DEF SessionInv, RemoteSessionTypeOK, SessionsAtHome, AtHome
  <2>3. RequestsRun' /\ FirmIsAlone' /\ FirmIsStored'
    BY <2>1, DisconnectedIsSession DEF RequestsRun, FirmIsAlone, FirmIsStored, Editing
  <2>4. AnsweredSessionHolds'
    BY <2>1 DEF SessionInv, AnsweredSessionHolds
  <2> QED
    BY <2>2, <2>3, <2>4 DEF SessionInv
<1>9. CASE RestartApp
  <2>1. /\ ~running /\ running' = TRUE /\ remote' = saved
        /\ UNCHANGED <<saved, req, promised>>
    BY <1>9 DEF RestartApp
  <2>2. \A k \in Clients : req[k].step = "idle"
    BY <2>1 DEF SessionInv, RequestsRun
  <2>3. RemoteSessionTypeOK' /\ SessionsAtHome'
    BY <2>1 DEF SessionInv, RemoteSessionTypeOK, SessionsAtHome, AtHome
  <2>4. RequestsRun' /\ FirmIsAlone' /\ FirmIsStored' /\ AnsweredSessionHolds'
    BY <2>1, <2>2 DEF SessionInv, RequestsRun, FirmIsAlone, FirmIsStored, Editing,
                      AnsweredSessionHolds
  <2> QED
    BY <2>3, <2>4 DEF SessionInv
<1>10. CASE UNCHANGED sessionVars
  BY <1>10 DEF sessionVars, SessionInv, RemoteSessionTypeOK, SessionsAtHome, AtHome,
               RequestsRun, FirmIsAlone, FirmIsStored, Editing, AnsweredSessionHolds
<1> QED
  BY <1>1, <1>2, <1>3, <1>4, <1>5, <1>6, <1>7, <1>8, <1>9, <1>10 DEF RemoteSessionNext

LEMMA SessionInvHolds == RemoteSessionSpec => []SessionInv
BY SessionInvInit, SessionInvNext, PTL DEF RemoteSessionSpec

-----------------------------------------------------------------------------
(* A token is sent to the host that issued it and to no other: for every   *)
(* number of requests, hosts and tokens (server.go, lines 294-314).        *)
THEOREM TokenIsSentHome == RemoteSessionSpec => []TokenStaysHome
<1>1. SessionInv => TokenStaysHome
  BY DEF SessionInv, SessionsAtHome, AtHome, TokenStaysHome
<1> QED
  BY <1>1, SessionInvHolds, PTL

(* An answered change of the session that no other overlapped holds in     *)
(* memory and in the file until the next one is stored.                    *)
THEOREM AnsweredSessionIsKept == RemoteSessionSpec => []AnsweredSessionHolds
<1>1. SessionInv => AnsweredSessionHolds
  BY DEF SessionInv
<1> QED
  BY <1>1, SessionInvHolds, PTL

-----------------------------------------------------------------------------
(***************************************************************************)

Platforms == {"darwin", "linux", "windows"}

CommandNames ==
  {"truncate", "write", "unload", "load", "reload", "enable", "create", "run",
   "remove", "disable", "delete"}

Commands == [command : CommandNames, must : BOOLEAN]

Plan(want) == IF want = "on" THEN installService ELSE uninstallService

JobRecords ==
  [want : {"on", "off"}, inService : BOOLEAN, todo : Seq(Commands), alone : BOOLEAN]

\* What is left of a plan is its end.
IsRest(todo, plan) ==
  /\ Len(todo) <= Len(plan)
  /\ \A i \in 1..Len(todo) : todo[i] = plan[Len(plan) - Len(todo) + i]

(* The commands of these jobs that decide about the next login are done.   *)
LastWrite == IF platform = "windows" THEN 1 ELSE 2
LastRemove == IF platform = "linux" THEN 1 ELSE 0
Written(todo) == Len(todo) <= LastWrite
Enabled(todo) == Len(todo) = 0
Removed(todo) == Len(todo) <= LastRemove

JobsOK ==
  /\ platform \in Platforms
  /\ job \in [Jobs -> JobRecords \cup {NoJob}]
  /\ \A k \in Jobs : Busy(k) => IsRest(job[k].todo, Plan(job[k].want))

(* A job that was alone from its start still is.                           *)
AloneIsAlone ==
  \A k \in Jobs : Busy(k) /\ job[k].alone => \A j \in Jobs \ {k} : ~Busy(j)

(* What such a job has done is still there.                                *)
WorkIsKept ==
  \A k \in Jobs : Busy(k) /\ job[k].alone =>
    /\ job[k].want = "on" /\ Written(job[k].todo) => unit = "good"
    /\ job[k].want = "on" /\ Enabled(job[k].todo) /\ platform = "linux" => link
    /\ job[k].want = "off" /\ Removed(job[k].todo) => unit = "none"

(* Nothing is at work after an answer that counts.                         *)
SettledIsIdle ==
  /\ asked \in {"on", "off", "unsettled"}
  /\ asked # "unsettled" => \A k \in Jobs : ~Busy(k)

BackgroundInv ==
  JobsOK /\ AloneIsAlone /\ WorkIsKept /\ SettledIsIdle /\ AnsweredToggleHolds

-----------------------------------------------------------------------------
(* The plans, as lists of commands.                                        *)
LEMMA PlanIsList ==
  ASSUME platform \in Platforms, NEW want \in {"on", "off"}
  PROVE  Plan(want) \in Seq(Commands)
<1>1. \A S : \A x, y, z, u \in S : /\ <<x>> \in Seq(S) /\ <<x, y>> \in Seq(S)
                                    /\ <<x, y, z>> \in Seq(S)
                                    /\ <<x, y, z, u>> \in Seq(S)
  OBVIOUS
<1>2. \A c \in CommandNames : Must(c) \in Commands /\ Try(c) \in Commands
  BY DEF Commands, Must, Try
<1>3. installLaunchd \in Seq(Commands)
  BY <1>1, <1>2 DEF CommandNames, installLaunchd
<1>4. installSystemd \in Seq(Commands)
  BY <1>1, <1>2 DEF CommandNames, installSystemd
<1>5. installWindowsTask \in Seq(Commands)
  BY <1>1, <1>2 DEF CommandNames, installWindowsTask
<1>6. uninstallLaunchd \in Seq(Commands)
  BY <1>1, <1>2 DEF CommandNames, uninstallLaunchd
<1>7. uninstallSystemd \in Seq(Commands)
  BY <1>1, <1>2 DEF CommandNames, uninstallSystemd
<1>8. uninstallWindowsTask \in Seq(Commands)
  BY <1>1, <1>2 DEF CommandNames, uninstallWindowsTask
<1>9. QED
  BY <1>3, <1>4, <1>5, <1>6, <1>7, <1>8
  DEF Plan, installService, uninstallService, Platforms

(* What is left after one more command is still the end of the plan.       *)
LEMMA TailIsRest ==
  ASSUME NEW plan \in Seq(Commands), NEW todo \in Seq(Commands),
         IsRest(todo, plan), todo # <<>>
  PROVE  /\ Tail(todo) \in Seq(Commands) /\ IsRest(Tail(todo), plan)
         /\ Len(Tail(todo)) = Len(todo) - 1
         /\ Len(todo) \in 1 .. Len(plan)
         /\ Head(todo) = plan[Len(plan) - Len(todo) + 1]
<1>1. Len(todo) \in 1 .. Len(plan)
  BY DEF IsRest
<1>2. /\ Tail(todo) \in Seq(Commands) /\ Len(Tail(todo)) = Len(todo) - 1
      /\ \A i \in 1 .. Len(todo) - 1 : Tail(todo)[i] = todo[i + 1]
  BY <1>1
<1>3. \A i \in 1 .. Len(todo) - 1 :
        Tail(todo)[i] = plan[Len(plan) - (Len(todo) - 1) + i]
  <2> TAKE i \in 1 .. Len(todo) - 1
  <2>1. i + 1 \in 1 .. Len(todo)
    BY <1>1
  <2>2. todo[i + 1] = plan[Len(plan) - Len(todo) + (i + 1)]
    BY <2>1 DEF IsRest
  <2>3. Len(plan) - Len(todo) + (i + 1) = Len(plan) - (Len(todo) - 1) + i
    BY <1>1
  <2>4. QED  BY <1>2, <2>2, <2>3
<1>4. Head(todo) = todo[1] /\ todo[1] = plan[Len(plan) - Len(todo) + 1]
  BY <1>1 DEF IsRest
<1>5. QED  BY <1>1, <1>2, <1>3, <1>4 DEF IsRest

(* The command that is next in a job that has n left.                      *)
NextIs(want, n, c) ==
  /\ want = "on" /\ platform = "darwin" =>
       \/ n = 4
       \/ n = 3 /\ c = Must("write")
       \/ n = 2 /\ c = Try("unload")
       \/ n = 1 /\ c = Must("load")
  /\ want = "on" /\ platform = "linux" =>
       \/ n = 4
       \/ n = 3 /\ c = Must("write")
       \/ n = 2 /\ c = Must("reload")
       \/ n = 1 /\ c = Must("enable")
  /\ want = "on" /\ platform = "windows" =>
       \/ n = 2 /\ c = Must("create")
       \/ n = 1 /\ c = Try("run")
  /\ want = "off" /\ platform = "darwin" =>
       \/ n = 2
       \/ n = 1 /\ c = Must("remove")
  /\ want = "off" /\ platform = "linux" =>
       \/ n = 3
       \/ n = 2 /\ c = Must("remove")
       \/ n = 1 /\ c = Try("reload")
  /\ want = "off" /\ platform = "windows" =>
       n = 1 /\ c = Must("delete")

LEMMA NextCommand ==
  ASSUME platform \in Platforms, NEW want \in {"on", "off"},
         NEW n \in 1 .. Len(Plan(want))
  PROVE  NextIs(want, n, Plan(want)[Len(Plan(want)) - n + 1])
<1> DEFINE c == Plan(want)[Len(Plan(want)) - n + 1]
<1>1. CASE platform = "darwin" /\ want = "on"
  <2>1. Plan(want) = installLaunchd
    BY <1>1 DEF Plan, installService
  <2>2. /\ Len(Plan(want)) = 4 /\ Plan(want)[2] = Must("write")
        /\ Plan(want)[3] = Try("unload") /\ Plan(want)[4] = Must("load")
    BY <2>1 DEF installLaunchd
  <2>3. \/ n = 4
        \/ n = 3 /\ c = Must("write")
        \/ n = 2 /\ c = Try("unload")
        \/ n = 1 /\ c = Must("load")
    BY <2>2
  <2>4. QED  BY <1>1, <2>3 DEF NextIs
<1>2. CASE platform = "linux" /\ want = "on"
  <2>1. Plan(want) = installSystemd
    BY <1>2 DEF Plan, installService
  <2>2. /\ Len(Plan(want)) = 4 /\ Plan(want)[2] = Must("write")
        /\ Plan(want)[3] = Must("reload") /\ Plan(want)[4] = Must("enable")
    BY <2>1 DEF installSystemd
  <2>3. \/ n = 4
        \/ n = 3 /\ c = Must("write")
        \/ n = 2 /\ c = Must("reload")
        \/ n = 1 /\ c = Must("enable")
    BY <2>2
  <2>4. QED  BY <1>2, <2>3 DEF NextIs
<1>3. CASE platform = "windows" /\ want = "on"
  <2>1. Plan(want) = installWindowsTask
    BY <1>3 DEF Plan, installService
  <2>2. /\ Len(Plan(want)) = 2 /\ Plan(want)[1] = Must("create")
        /\ Plan(want)[2] = Try("run")
    BY <2>1 DEF installWindowsTask
  <2>3. \/ n = 2 /\ c = Must("create")
        \/ n = 1 /\ c = Try("run")
    BY <2>2
  <2>4. QED  BY <1>3, <2>3 DEF NextIs
<1>4. CASE platform = "darwin" /\ want = "off"
  <2>1. Plan(want) = uninstallLaunchd
    BY <1>4 DEF Plan, uninstallService
  <2>2. /\ Len(Plan(want)) = 2 /\ Plan(want)[2] = Must("remove")
    BY <2>1 DEF uninstallLaunchd
  <2>3. \/ n = 2
        \/ n = 1 /\ c = Must("remove")
    BY <2>2
  <2>4. QED  BY <1>4, <2>3 DEF NextIs
<1>5. CASE platform = "linux" /\ want = "off"
  <2>1. Plan(want) = uninstallSystemd
    BY <1>5 DEF Plan, uninstallService
  <2>2. /\ Len(Plan(want)) = 3 /\ Plan(want)[2] = Must("remove")
        /\ Plan(want)[3] = Try("reload")
    BY <2>1 DEF uninstallSystemd
  <2>3. \/ n = 3
        \/ n = 2 /\ c = Must("remove")
        \/ n = 1 /\ c = Try("reload")
    BY <2>2
  <2>4. QED  BY <1>5, <2>3 DEF NextIs
<1>6. CASE platform = "windows" /\ want = "off"
  <2>1. Plan(want) = uninstallWindowsTask
    BY <1>6 DEF Plan, uninstallService
  <2>2. /\ Len(Plan(want)) = 1 /\ Plan(want)[1] = Must("delete")
    BY <2>1 DEF uninstallWindowsTask
  <2>3. n = 1 /\ c = Must("delete")
    BY <2>2
  <2>4. QED  BY <1>6, <2>3 DEF NextIs
<1>7. QED  BY <1>1, <1>2, <1>3, <1>4, <1>5, <1>6 DEF Platforms

(* What it is, if the deciding commands are done after it.                 *)
LEMMA DecidingCommand ==
  ASSUME platform \in Platforms, NEW want \in {"on", "off"}, NEW n \in Nat, NEW c,
         NextIs(want, n, c)
  PROVE  /\ want = "on" /\ n - 1 <= LastWrite =>
              \/ c \in {Must("write"), Must("create")}
              \/ /\ n <= LastWrite
                 /\ c \in {Try("unload"), Must("load"), Must("reload"), Must("enable"),
                          Try("run")}
         /\ want = "on" /\ n = 1 /\ platform = "linux" => c = Must("enable")
         /\ want = "off" /\ n - 1 <= LastRemove =>
              \/ c \in {Must("remove"), Must("delete")}
              \/ n <= LastRemove /\ c = Try("reload")
<1>1. CASE want = "on" /\ platform = "darwin"
  <2>1. \/ n = 4
        \/ n = 3 /\ c = Must("write")
        \/ n = 2 /\ c = Try("unload")
        \/ n = 1 /\ c = Must("load")
    BY <1>1 DEF NextIs
  <2>2. LastWrite = 2
    BY <1>1 DEF LastWrite
  <2>3. QED  BY <1>1, <2>1, <2>2
<1>2. CASE want = "on" /\ platform = "linux"
  <2>1. \/ n = 4
        \/ n = 3 /\ c = Must("write")
        \/ n = 2 /\ c = Must("reload")
        \/ n = 1 /\ c = Must("enable")
    BY <1>2 DEF NextIs
  <2>2. LastWrite = 2
    BY <1>2 DEF LastWrite
  <2>3. QED  BY <1>2, <2>1, <2>2
<1>3. CASE want = "on" /\ platform = "windows"
  <2>1. \/ n = 2 /\ c = Must("create")
        \/ n = 1 /\ c = Try("run")
    BY <1>3 DEF NextIs
  <2>2. LastWrite = 1
    BY <1>3 DEF LastWrite
  <2>3. QED  BY <1>3, <2>1, <2>2
<1>4. CASE want = "off" /\ platform = "darwin"
  <2>1. \/ n = 2
        \/ n = 1 /\ c = Must("remove")
    BY <1>4 DEF NextIs
  <2>2. LastRemove = 0
    BY <1>4 DEF LastRemove
  <2>3. n - 1 <= LastRemove =>
          \/ c \in {Must("remove"), Must("delete")}
          \/ n <= LastRemove /\ c = Try("reload")
    BY <2>1, <2>2
  <2>4. QED  BY <1>4, <2>3
<1>5. CASE want = "off" /\ platform = "linux"
  <2>1. \/ n = 3
        \/ n = 2 /\ c = Must("remove")
        \/ n = 1 /\ c = Try("reload")
    BY <1>5 DEF NextIs
  <2>2. LastRemove = 1
    BY <1>5 DEF LastRemove
  <2>3. n - 1 <= LastRemove =>
          \/ c \in {Must("remove"), Must("delete")}
          \/ n <= LastRemove /\ c = Try("reload")
    BY <2>1, <2>2
  <2>4. QED  BY <1>5, <2>3
<1>6. CASE want = "off" /\ platform = "windows"
  <2>1. n = 1 /\ c = Must("delete")
    BY <1>6 DEF NextIs
  <2>2. LastRemove = 0
    BY <1>6 DEF LastRemove
  <2>3. n - 1 <= LastRemove =>
          \/ c \in {Must("remove"), Must("delete")}
          \/ n <= LastRemove /\ c = Try("reload")
    BY <2>1, <2>2
  <2>4. QED  BY <1>6, <2>3
<1>7. QED  BY <1>1, <1>2, <1>3, <1>4, <1>5, <1>6 DEF Platforms

(* A new job has its whole plan before it.                                 *)
LEMMA PlanIsToDo ==
  ASSUME platform \in Platforms, NEW want \in {"on", "off"}
  PROVE  /\ IsRest(Plan(want), Plan(want))
         /\ want = "on" => ~Written(Plan(want)) /\ ~Enabled(Plan(want))
         /\ want = "off" => ~Removed(Plan(want))
<1>1. Len(installLaunchd) = 4 /\ Len(installSystemd) = 4 /\ Len(installWindowsTask) = 2
  BY DEF installLaunchd, installSystemd, installWindowsTask
<1>2. Len(uninstallLaunchd) = 2 /\ Len(uninstallSystemd) = 3
      /\ Len(uninstallWindowsTask) = 1
  BY DEF uninstallLaunchd, uninstallSystemd, uninstallWindowsTask
<1>3. IsRest(Plan(want), Plan(want))
  BY PlanIsList DEF IsRest
<1>4. CASE want = "on"
  <2>1. /\ platform \in {"darwin", "linux"} => Len(installService) = 4
        /\ platform = "windows" => Len(installService) = 2
    BY <1>1 DEF installService
  <2>2. ~Written(installService) /\ ~Enabled(installService)
    BY <2>1 DEF Platforms, Written, LastWrite, Enabled
  <2>3. QED  BY <1>3, <1>4, <2>2 DEF Plan
<1>5. CASE want = "off"
  <2>1. /\ platform = "darwin" => Len(uninstallService) = 2
        /\ platform = "linux" => Len(uninstallService) = 3
        /\ platform = "windows" => Len(uninstallService) = 1
    BY <1>2 DEF uninstallService
  <2>2. ~Removed(uninstallService)
    BY <2>1 DEF Platforms, Removed, LastRemove
  <2>3. QED  BY <1>3, <1>5, <2>2 DEF Plan
<1>6. QED  BY <1>4, <1>5

LEMMA BusyIsRecord ==
  ASSUME JobsOK, NEW k \in Jobs
  PROVE  /\ Busy(k) => job[k] \in JobRecords
         /\ \A r \in JobRecords : r # NoJob
<1>1. \A r \in JobRecords : r.want # NoJob.want
  BY DEF JobRecords, NoJob
<1>2. QED  BY <1>1 DEF JobsOK, Busy

(* Jobs that end, with no toggle answered and nothing registered anew.     *)
LEMMA JobsEndKeep ==
  ASSUME BackgroundInv, UNCHANGED <<platform, unit, link, asked>>,
         job' = [k \in Jobs |-> job'[k]],
         \A k \in Jobs : job'[k] \in {job[k], NoJob}
  PROVE  BackgroundInv'
<1>1. \A k \in Jobs : Busy(k)' => Busy(k) /\ job'[k] = job[k]
  BY DEF Busy
<1>2. \A want : Plan(want)' = Plan(want)
  BY DEF Plan, installService, uninstallService
<1>3. JobsOK'
  BY <1>1, <1>2 DEF BackgroundInv, JobsOK, IsRest
<1>4. AloneIsAlone' /\ SettledIsIdle'
  BY <1>1 DEF BackgroundInv, AloneIsAlone, SettledIsIdle
<1>5. WorkIsKept'
  BY <1>1
  DEF BackgroundInv, WorkIsKept, Written, LastWrite, Enabled, Removed, LastRemove
<1>6. AnsweredToggleHolds'
  BY DEF BackgroundInv, AnsweredToggleHolds, StartsAtLogin, StatusEnabled
<1>7. QED  BY <1>3, <1>4, <1>5, <1>6 DEF BackgroundInv

LEMMA ToggleKeeps ==
  ASSUME BackgroundInv, NEW k \in Jobs, NEW want \in {"on", "off"},
         NEW inService \in BOOLEAN, Toggle(k, want, inService)
  PROVE  BackgroundInv'
<1> DEFINE new == [want |-> want, inService |-> inService, todo |-> Plan(want),
                   alone |-> \A j \in Jobs \ {k} : ~Busy(j)]
<1>1. /\ ~Busy(k)
      /\ job' = [j \in Jobs |-> IF j = k THEN new
                                ELSE IF Busy(j) THEN [job[j] EXCEPT !.alone = FALSE]
                                ELSE NoJob]
      /\ asked' = "unsettled"
      /\ UNCHANGED <<platform, unit, link>>
  BY DEF Toggle, Plan
<1>2. new \in JobRecords
  BY PlanIsList DEF BackgroundInv, JobsOK, JobRecords
<1>3. \A r \in JobRecords : /\ r # NoJob
                            /\ [r EXCEPT !.alone = FALSE] \in JobRecords
                            /\ [r EXCEPT !.alone = FALSE].todo = r.todo
                            /\ [r EXCEPT !.alone = FALSE].want = r.want
                            /\ [r EXCEPT !.alone = FALSE].alone = FALSE
  BY BusyIsRecord DEF JobRecords, BackgroundInv
<1>4. \A j \in Jobs : Busy(j) => job[j] \in JobRecords
  BY BusyIsRecord DEF BackgroundInv
<1>5. /\ job'[k] = new
      /\ \A j \in Jobs \ {k} :
           /\ Busy(j)' <=> Busy(j)
           /\ Busy(j) => /\ job'[j] \in JobRecords /\ ~job'[j].alone
                         /\ job'[j].todo = job[j].todo /\ job'[j].want = job[j].want
  BY <1>1, <1>3, <1>4 DEF Busy
<1>6. \A w : Plan(w)' = Plan(w)
  BY <1>1 DEF Plan, installService, uninstallService
<1>7. JobsOK'
  <2>1. job' \in [Jobs -> JobRecords \cup {NoJob}]
    BY <1>1, <1>2, <1>3, <1>4
  <2>2. IsRest(new.todo, Plan(new.want))
    BY PlanIsToDo DEF BackgroundInv, JobsOK
  <2>3. \A j \in Jobs : Busy(j)' => IsRest(job'[j].todo, Plan(job'[j].want))
    BY <1>5, <2>2 DEF BackgroundInv, JobsOK
  <2>4. \A j \in Jobs : Busy(j)' => IsRest(job[j].todo, Plan(job[j].want))'
    BY <1>6, <2>3 DEF IsRest
  <2>5. QED  BY <1>1, <2>1, <2>4 DEF BackgroundInv, JobsOK
<1>8. AloneIsAlone'
  BY <1>5 DEF AloneIsAlone
<1>9. WorkIsKept'
  <2>1. /\ want = "on" => ~Written(new.todo) /\ ~Enabled(new.todo)
        /\ want = "off" => ~Removed(new.todo)
    BY PlanIsToDo DEF BackgroundInv, JobsOK
  <2>2. QED
    BY <1>1, <1>5, <2>1
    DEF WorkIsKept, Written, LastWrite, Enabled, Removed, LastRemove
<1>10. SettledIsIdle' /\ AnsweredToggleHolds'
  BY <1>1 DEF SettledIsIdle, AnsweredToggleHolds
<1>11. QED  BY <1>7, <1>8, <1>9, <1>10 DEF BackgroundInv

(* A command of a job that is alone does what its place in the plan asks   *)
(* for; if it is ignored, nothing depends on it. One of any other job may  *)
(* do whatever it does: no answer counts while it runs.                    *)
LEMMA CommandKeeps ==
  ASSUME BackgroundInv, NEW k \in Jobs, Command(k)
  PROVE  BackgroundInv'
<1> DEFINE todo == job[k].todo
           next == Head(todo)
           plan == Plan(job[k].want)
<1>1. /\ Busy(k) /\ todo # <<>>
      /\ \/ Effect(next.command)
         \/ ~next.must /\ FailedEffect(next.command)
      /\ job' = [job EXCEPT ![k].todo = Tail(@)]
      /\ UNCHANGED <<platform, asked>>
  BY DEF Command
<1>2. job[k] \in JobRecords /\ platform \in Platforms
  BY <1>1, BusyIsRecord DEF BackgroundInv, JobsOK
<1>3. plan \in Seq(Commands) /\ todo \in Seq(Commands) /\ IsRest(todo, plan)
  BY <1>1, <1>2, PlanIsList DEF BackgroundInv, JobsOK, JobRecords
<1>4. /\ Tail(todo) \in Seq(Commands) /\ IsRest(Tail(todo), plan)
      /\ Len(Tail(todo)) = Len(todo) - 1
      /\ Len(todo) \in 1 .. Len(plan)
      /\ next = plan[Len(plan) - Len(todo) + 1]
  BY <1>1, <1>3, TailIsRest
<1>5. /\ job'[k] = [job[k] EXCEPT !.todo = Tail(todo)]
      /\ job' = [j \in Jobs |-> IF j = k THEN job'[k] ELSE job[j]]
  BY <1>1 DEF BackgroundInv, JobsOK
<1>6. /\ job'[k] \in JobRecords /\ job'[k].todo = Tail(todo)
      /\ job'[k].want = job[k].want /\ job'[k].alone = job[k].alone
  BY <1>2, <1>4, <1>5 DEF JobRecords
<1>7. /\ \A j \in Jobs : Busy(j)' <=> Busy(j)
      /\ \A j \in Jobs \ {k} : job'[j] = job[j]
  BY <1>1, <1>5, <1>6, BusyIsRecord DEF Busy, BackgroundInv
<1>8. \A w : Plan(w)' = Plan(w)
  BY <1>1 DEF Plan, installService, uninstallService
<1>9. JobsOK'
  <2>1. job' \in [Jobs -> JobRecords \cup {NoJob}]
    BY <1>5, <1>6 DEF BackgroundInv, JobsOK
  <2>2. \A j \in Jobs : Busy(j) => IsRest(job'[j].todo, Plan(job'[j].want))
    BY <1>4, <1>6, <1>7 DEF BackgroundInv, JobsOK
  <2>3. \A j \in Jobs : Busy(j)' => IsRest(job[j].todo, Plan(job[j].want))'
    BY <1>7, <1>8, <2>2 DEF IsRest
  <2>4. QED  BY <1>1, <2>1, <2>3 DEF BackgroundInv, JobsOK
<1>10. AloneIsAlone'
  BY <1>6, <1>7 DEF BackgroundInv, AloneIsAlone
<1>11. asked' = "unsettled"
  BY <1>1 DEF BackgroundInv, SettledIsIdle
<1>12. WorkIsKept'
  <2> SUFFICES ASSUME job[k].alone
               PROVE  /\ job[k].want = "on" /\ Written(Tail(todo)) => unit' = "good"
                      /\ job[k].want = "on" /\ Enabled(Tail(todo)) /\ platform = "linux"
                           => link'
                      /\ job[k].want = "off" /\ Removed(Tail(todo)) => unit' = "none"
    BY <1>1, <1>6, <1>7
    DEF BackgroundInv, AloneIsAlone, WorkIsKept, Written, LastWrite, Enabled,
        Removed, LastRemove
  <2>1. /\ job[k].want = "on" /\ Written(todo) => unit = "good"
        /\ job[k].want = "off" /\ Removed(todo) => unit = "none"
    BY <1>1 DEF BackgroundInv, WorkIsKept
  <2>2. job[k].want \in {"on", "off"} /\ NextIs(job[k].want, Len(todo), next)
    BY <1>2, <1>4, NextCommand DEF JobRecords
  <2>3. ASSUME job[k].want = "on", Written(Tail(todo))  PROVE  unit' = "good"
    <3>1. \/ next \in {Must("write"), Must("create")}
          \/ /\ Written(todo)
             /\ next \in {Try("unload"), Must("load"), Must("reload"), Must("enable"),
                          Try("run")}
      <4>1. Len(todo) - 1 <= LastWrite /\ Len(todo) \in Nat
        BY <1>4, <2>3 DEF Written
      <4>2. NextIs("on", Len(todo), next)
        BY <2>2, <2>3
      <4>3. QED  BY <1>2, <4>1, <4>2, DecidingCommand DEF Written
    <3>2. CASE next \in {Must("write"), Must("create")}
      BY <1>1, <3>2 DEF Must, Effect
    <3>3. CASE Written(todo)
      BY <1>1, <2>1, <2>3, <3>1, <3>2, <3>3 DEF Must, Try, Effect, FailedEffect
    <3>4. QED  BY <3>1, <3>2, <3>3
  <2>4. ASSUME job[k].want = "on", Enabled(Tail(todo)), platform = "linux"
        PROVE  link'
    <3>1. next = Must("enable")
      <4>1. Len(todo) = 1
        BY <1>3, <1>4, <2>4 DEF Enabled
      <4>2. QED  BY <1>2, <2>2, <2>4, <4>1, DecidingCommand
    <3>2. QED  BY <1>1, <3>1 DEF Must, Effect
  <2>5. ASSUME job[k].want = "off", Removed(Tail(todo))  PROVE  unit' = "none"
    <3>1. \/ next \in {Must("remove"), Must("delete")}
          \/ Removed(todo) /\ next = Try("reload")
      BY <1>2, <1>4, <2>2, <2>5, DecidingCommand DEF Removed
    <3>2. QED  BY <1>1, <2>1, <2>5, <3>1 DEF Must, Try, Effect, FailedEffect
  <2>6. QED  BY <2>3, <2>4, <2>5
<1>13. SettledIsIdle' /\ AnsweredToggleHolds'
  BY <1>11 DEF SettledIsIdle, AnsweredToggleHolds
<1>14. QED  BY <1>9, <1>10, <1>12, <1>13 DEF BackgroundInv

LEMMA CommandFailsKeeps ==
  ASSUME BackgroundInv, NEW k \in Jobs, CommandFails(k)
  PROVE  BackgroundInv'
<1>1. /\ Busy(k)
      /\ job' = [job EXCEPT ![k] = NoJob]
      /\ UNCHANGED <<platform, unit, asked>>
  BY DEF CommandFails, FailedEffect
<1>2. \A j \in Jobs : Busy(j)' => Busy(j) /\ j # k /\ job'[j] = job[j] /\ ~job[j].alone
  BY <1>1 DEF BackgroundInv, JobsOK, AloneIsAlone, Busy
<1>3. \A w : Plan(w)' = Plan(w)
  BY <1>1 DEF Plan, installService, uninstallService
<1>4. JobsOK'
  BY <1>1, <1>2, <1>3 DEF BackgroundInv, JobsOK, IsRest
<1>5. AloneIsAlone' /\ WorkIsKept'
  BY <1>2 DEF AloneIsAlone, WorkIsKept
<1>6. asked' = "unsettled"
  BY <1>1 DEF BackgroundInv, SettledIsIdle
<1>7. QED
  BY <1>4, <1>5, <1>6 DEF BackgroundInv, SettledIsIdle, AnsweredToggleHolds

LEMMA ToggleAnsweredKeeps ==
  ASSUME BackgroundInv, NEW k \in Jobs, ToggleAnswered(k)
  PROVE  BackgroundInv'
<1>1. /\ Busy(k) /\ job[k].todo = <<>>
      /\ asked' = IF job[k].alone THEN job[k].want ELSE asked
      /\ job' = [job EXCEPT ![k] = NoJob]
      /\ UNCHANGED <<platform, unit, link>>
  BY DEF ToggleAnswered
<1>2. /\ asked = "unsettled"
      /\ job[k] \in JobRecords
      /\ platform \in Platforms
  BY <1>1, BusyIsRecord DEF BackgroundInv, SettledIsIdle, JobsOK
<1>3. \A j \in Jobs : Busy(j)' => Busy(j) /\ j # k /\ job'[j] = job[j] /\ ~job[j].alone
  BY <1>1 DEF BackgroundInv, JobsOK, AloneIsAlone, Busy
<1>4. \A w : Plan(w)' = Plan(w)
  BY <1>1 DEF Plan, installService, uninstallService
<1>5. JobsOK'
  BY <1>1, <1>3, <1>4 DEF BackgroundInv, JobsOK, IsRest
<1>6. AloneIsAlone' /\ WorkIsKept'
  BY <1>3 DEF AloneIsAlone, WorkIsKept
<1>7. SettledIsIdle' /\ AnsweredToggleHolds'
  <2>1. CASE ~job[k].alone
    BY <1>1, <1>2, <2>1 DEF SettledIsIdle, AnsweredToggleHolds
  <2>2. CASE job[k].alone
    <3>1. SettledIsIdle'
      BY <1>1, <1>2, <1>3, <2>2
      DEF BackgroundInv, AloneIsAlone, SettledIsIdle, JobRecords
    <3>2. Written(job[k].todo) /\ Enabled(job[k].todo) /\ Removed(job[k].todo)
      <4>1. Len(job[k].todo) = 0 /\ LastWrite \in Nat /\ LastRemove \in Nat
        BY <1>1 DEF LastWrite, LastRemove
      <4>2. QED  BY <4>1 DEF Written, Enabled, Removed
    <3>3. /\ job[k].want = "on" => unit = "good" /\ (platform = "linux" => link)
          /\ job[k].want = "off" => unit = "none"
      BY <1>1, <2>2, <3>2 DEF BackgroundInv, WorkIsKept
    <3>4. AnsweredToggleHolds'
      BY <1>1, <2>2, <3>3 DEF AnsweredToggleHolds, StartsAtLogin, StatusEnabled
    <3>5. QED  BY <3>1, <3>4
  <2>3. QED  BY <2>1, <2>2
<1>8. QED  BY <1>5, <1>6, <1>7 DEF BackgroundInv

LEMMA BackgroundStepKeeps ==
  ASSUME BackgroundInv, [BackgroundNext]_backgroundVars
  PROVE  BackgroundInv'
<1>1. job = [k \in Jobs |-> job[k]]
  BY DEF BackgroundInv, JobsOK
<1>2. ASSUME NEW k \in Jobs, Command(k) \/ CommandFails(k) \/ ToggleAnswered(k)
      PROVE  BackgroundInv'
  BY <1>2, CommandKeeps, CommandFailsKeeps, ToggleAnsweredKeeps
<1>3. ASSUME NEW k \in Jobs, NEW want \in {"on", "off"}, NEW inService \in BOOLEAN,
             Toggle(k, want, inService)
      PROVE  BackgroundInv'
  BY <1>3, ToggleKeeps
<1>4. CASE ServiceStops
  BY <1>4, JobsEndKeep DEF ServiceStops, OutsideService
<1>5. CASE WindowCloses
  BY <1>5, JobsEndKeep DEF WindowCloses
<1>6. CASE Login
  BY <1>6, JobsEndKeep DEF Login
<1>7. CASE ServiceRestarts \/ ServiceGivenUp \/ UNCHANGED backgroundVars
  BY <1>1, <1>7, JobsEndKeep DEF ServiceRestarts, ServiceGivenUp, backgroundVars
<1>8. QED  BY <1>2, <1>3, <1>4, <1>5, <1>6, <1>7 DEF BackgroundNext

LEMMA BackgroundInitHolds == BackgroundInit => BackgroundInv
BY DEF BackgroundInit, BackgroundInv, JobsOK, Busy, Platforms, AloneIsAlone,
       WorkIsKept, SettledIsIdle, AnsweredToggleHolds, StartsAtLogin, StatusEnabled

(* After an answered toggle that no other overlapped, the service starts   *)
(* at login exactly if it was switched on, and the page says so: for any   *)
(* number of calls of installService and uninstallService, on any platform *)
(* (internal/app/service.go, lines 104-271).                               *)
THEOREM AnsweredToggleIsKept == BackgroundSpec => []AnsweredToggleHolds
<1>1. BackgroundInv => AnsweredToggleHolds
  BY DEF BackgroundInv
<1>2. QED
  BY BackgroundInitHolds, BackgroundStepKeeps, <1>1, PTL DEF BackgroundSpec

-----------------------------------------------------------------------------
(***************************************************************************)

Stages == {"down", "ensure", "replace", "writing", "open", "create", "up"}

StartTypeOK ==
  /\ file \in Configs \cup {NoFile, Empty, Garbage}
  /\ stage \in [Processes -> Stages]
  /\ memory \in [Processes -> Configs]
  /\ attached \subseteq Processes
  /\ acked \subseteq Edits
  /\ overlapped \in BOOLEAN
  /\ torn \in BOOLEAN

(* A descriptor that can still reach the file belongs to a start that has  *)
(* truncated it and is about to write.                                     *)
AttachedAreWriting == \A p \in attached : stage[p] = "writing"

(* Nothing was answered before there was a file.                           *)
FirstFile == file = NoFile => acked = {}

(* As long as no two processes have met, one runs at a time ...            *)
OneAtATime ==
  ~overlapped => \A p, q \in Processes :
                   stage[p] # "down" /\ stage[q] # "down" => p = q

(* ... one that is to write the default config found no file ...           *)
CreateIsFirst ==
  ~overlapped => \A p \in Processes : stage[p] = "create" => file = NoFile

(* ... and what it holds, and is to write, has every answered edit.        *)
MemoryHolds ==
  ~overlapped /\ ~torn =>
    \A p \in Processes :
      stage[p] \in {"replace", "writing", "up"} => acked \subseteq memory[p].edits

StartInv ==
  /\ StartTypeOK /\ AttachedAreWriting /\ FirstFile
  /\ OneAtATime /\ CreateIsFirst /\ MemoryHolds
  /\ BrokenOnlyByStart /\ EditsSurviveHandover

-----------------------------------------------------------------------------
LEMMA DefaultsAreConfigs ==
  /\ DesktopDefault \in Configs /\ DesktopDefault.edits = {}
  /\ PlainDefault \in Configs /\ PlainDefault.edits = {}
  /\ \A c \in Configs : /\ c.edits \subseteq Edits
                        /\ WithDatabase(c) \in Configs /\ WithDatabase(c).edits = c.edits
  /\ \A c \in Configs, e \in Edits :
       LET new == [c EXCEPT !.edits = @ \cup {e}]
       IN new \in Configs /\ new.edits = c.edits \cup {e}
BY DEF DesktopDefault, PlainDefault, Configs, WithDatabase

LEMMA StartInitHolds == DesktopInit => StartInv
BY DefaultsAreConfigs, DesktopAssumption
DEF DesktopInit, StartInv, StartTypeOK, Stages, AttachedAreWriting, FirstFile,
    OneAtATime, CreateIsFirst, MemoryHolds, BrokenOnlyByStart, EditsSurviveHandover,
    Unreadable

(* A process ends that is not writing: it takes nothing with it.           *)
LEMMA ExitKeeps ==
  ASSUME StartInv, NEW p \in Processes, Exit(p), stage[p] # "writing",
         UNCHANGED <<file, acked, overlapped, torn>>
  PROVE  StartInv'
<1>1. attached' = attached
  BY DEF Exit, StartInv, AttachedAreWriting
<1>2. /\ \A q \in Processes \ {p} : stage'[q] = stage[q] /\ memory'[q] = memory[q]
      /\ stage'[p] = "down"
  BY DEF Exit, StartInv, StartTypeOK
<1>3. StartTypeOK' /\ AttachedAreWriting' /\ FirstFile'
  BY <1>1, DefaultsAreConfigs
  DEF Exit, StartInv, StartTypeOK, Stages, AttachedAreWriting, FirstFile
<1>4. OneAtATime' /\ CreateIsFirst' /\ MemoryHolds'
  BY <1>2 DEF StartInv, OneAtATime, CreateIsFirst, MemoryHolds
<1>5. BrokenOnlyByStart' /\ EditsSurviveHandover'
  BY <1>1 DEF StartInv, BrokenOnlyByStart, EditsSurviveHandover
<1>6. QED  BY <1>3, <1>4, <1>5 DEF StartInv

LEMMA SpawnKeeps ==
  ASSUME StartInv, NEW p \in Processes, NEW s \in {"ensure", "open"}, Spawn(p, s)
  PROVE  StartInv'
<1>1. /\ \A q \in Processes \ {p} : stage'[q] = stage[q]
      /\ stage[p] = "down" /\ stage'[p] = s
      /\ overlapped' = (overlapped \/ Alive # {})
      /\ UNCHANGED <<file, memory, attached, acked, torn>>
  BY DEF Spawn, Goto, StartInv, StartTypeOK
<1>2. ~overlapped' => ~overlapped /\ \A q \in Processes : stage[q] = "down"
  BY <1>1 DEF Alive, StartInv, StartTypeOK
<1>3. StartTypeOK' /\ AttachedAreWriting' /\ FirstFile'
  BY <1>1
  DEF Spawn, Goto, StartInv, StartTypeOK, Stages, AttachedAreWriting, FirstFile
<1>4. OneAtATime' /\ CreateIsFirst' /\ MemoryHolds'
  BY <1>1, <1>2 DEF StartInv, OneAtATime, CreateIsFirst, MemoryHolds
<1>5. BrokenOnlyByStart' /\ EditsSurviveHandover'
  BY <1>1, <1>2 DEF StartInv, BrokenOnlyByStart, EditsSurviveHandover
<1>6. QED  BY <1>3, <1>4, <1>5 DEF StartInv

(* A process goes on with a config that it read or made up.                *)
LEMMA ReadKeeps ==
  ASSUME StartInv, NEW p \in Processes, NEW s \in Stages, NEW config \in Configs,
         stage[p] \in {"ensure", "open"}, s # "create",
         s # "down",
         s \in {"replace", "writing", "up"} /\ ~overlapped /\ ~torn
           => acked \subseteq config.edits,
         stage' = [stage EXCEPT ![p] = s],
         memory' = [memory EXCEPT ![p] = config],
         UNCHANGED <<file, attached, acked, overlapped, torn>>
  PROVE  StartInv'
<1>1. /\ \A q \in Processes \ {p} : stage'[q] = stage[q] /\ memory'[q] = memory[q]
      /\ stage'[p] = s /\ memory'[p] = config
  BY DEF StartInv, StartTypeOK
<1>2. StartTypeOK' /\ AttachedAreWriting' /\ FirstFile'
  BY DEF StartInv, StartTypeOK, AttachedAreWriting, FirstFile
<1>3. OneAtATime' /\ CreateIsFirst' /\ MemoryHolds'
  BY <1>1 DEF StartInv, OneAtATime, CreateIsFirst, MemoryHolds
<1>4. BrokenOnlyByStart' /\ EditsSurviveHandover'
  BY DEF StartInv, BrokenOnlyByStart, EditsSurviveHandover
<1>5. QED  BY <1>2, <1>3, <1>4 DEF StartInv

LEMMA EnsureReadKeeps ==
  ASSUME StartInv, NEW p \in Processes, EnsureRead(p)
  PROVE  StartInv'
<1> USE DefaultsAreConfigs DEF EnsureRead, Goto
<1>1. CASE file = NoFile
  BY <1>1, DesktopAssumption, ReadKeeps DEF Stages, Unreadable, StartInv, FirstFile
<1>2. CASE file \in Unreadable
  BY <1>2, DesktopAssumption, ExitKeeps DEF Unreadable
<1>3. CASE file \in Configs /\ file.absolute
  <2>1. memory[p] \in Configs /\ memory' = [memory EXCEPT ![p] = memory[p]]
    BY <1>3, DesktopAssumption DEF StartInv, StartTypeOK, Unreadable, Exit
  <2>2. QED  BY <1>3, <2>1, DesktopAssumption, ReadKeeps DEF Stages, Unreadable
<1>4. CASE file \in Configs /\ ~file.absolute
  BY <1>4, DesktopAssumption, ReadKeeps
  DEF Stages, Unreadable, StartInv, EditsSurviveHandover
<1>5. QED  BY <1>1, <1>2, <1>3, <1>4

LEMMA OpenConfigKeeps ==
  ASSUME StartInv, NEW p \in Processes, OpenConfig(p)
  PROVE  StartInv'
<1> USE DEF OpenConfig, Goto
<1>1. CASE file = NoFile
  <2>1. /\ \A q \in Processes \ {p} : stage'[q] = stage[q]
        /\ stage[p] = "open" /\ stage'[p] = "create"
        /\ UNCHANGED <<file, memory, attached, acked, overlapped, torn>>
    BY <1>1, DesktopAssumption DEF StartInv, StartTypeOK
  <2>2. StartTypeOK' /\ AttachedAreWriting' /\ FirstFile'
    BY <1>1, <2>1, DesktopAssumption
    DEF StartInv, StartTypeOK, Stages, AttachedAreWriting, FirstFile
  <2>3. OneAtATime' /\ CreateIsFirst' /\ MemoryHolds'
    BY <1>1, <2>1 DEF StartInv, OneAtATime, CreateIsFirst, MemoryHolds
  <2>4. BrokenOnlyByStart' /\ EditsSurviveHandover'
    BY <2>1 DEF StartInv, BrokenOnlyByStart, EditsSurviveHandover
  <2>5. QED  BY <2>2, <2>3, <2>4 DEF StartInv
<1>2. CASE file \in Unreadable
  BY <1>2, DesktopAssumption, ExitKeeps DEF Unreadable
<1>3. CASE file \in Configs
  BY <1>3, DesktopAssumption, ReadKeeps
  DEF Stages, Unreadable, StartInv, EditsSurviveHandover
<1>4. QED  BY <1>1, <1>2, <1>3

LEMMA EnsureTruncateKeeps ==
  ASSUME StartInv, NEW p \in Processes, EnsureTruncate(p)
  PROVE  StartInv'
<1>1. /\ \A q \in Processes \ {p} : stage'[q] = stage[q]
      /\ stage[p] = "replace" /\ stage'[p] = "writing"
      /\ file' = Empty /\ attached' = attached \cup {p}
      /\ UNCHANGED <<memory, acked, overlapped, torn>>
  BY DEF EnsureTruncate, Goto, StartInv, StartTypeOK
<1>2. StartTypeOK'
  BY <1>1 DEF EnsureTruncate, Goto, StartInv, StartTypeOK, Stages
<1>3. AttachedAreWriting' /\ FirstFile'
  BY <1>1, DesktopAssumption
  DEF StartInv, StartTypeOK, AttachedAreWriting, FirstFile, Unreadable
<1>4. OneAtATime' /\ CreateIsFirst' /\ MemoryHolds'
  BY <1>1 DEF StartInv, OneAtATime, CreateIsFirst, MemoryHolds
<1>5. BrokenOnlyByStart' /\ EditsSurviveHandover'
  BY <1>1, DesktopAssumption DEF BrokenOnlyByStart, EditsSurviveHandover
<1>6. QED  BY <1>2, <1>3, <1>4, <1>5 DEF StartInv

(* The write of a start: over what it truncated, or it is torn, or it does *)
(* not reach the file.                                                     *)
LEMMA EnsureWriteKeeps ==
  ASSUME StartInv, NEW p \in Processes, EnsureWrite(p)
  PROVE  StartInv'
<1>1. /\ \A q \in Processes \ {p} : stage'[q] = stage[q]
      /\ stage[p] = "writing" /\ stage'[p] = "open"
      /\ attached' = attached \ {p}
      /\ torn' = (torn \/ (p \in attached /\ file \notin {Empty, memory[p]}))
      /\ UNCHANGED <<memory, acked, overlapped>>
  BY DEF EnsureWrite, Goto, StartInv, StartTypeOK
<1>2. /\ memory[p] \in Configs
      /\ \/ p \notin attached /\ file' = file
         \/ p \in attached /\ file' = memory[p]
         \/ p \in attached /\ file' = Garbage /\ torn'
  BY <1>1 DEF EnsureWrite, StartInv, StartTypeOK
<1>3. StartTypeOK'
  BY <1>1, <1>2 DEF EnsureWrite, Goto, StartInv, StartTypeOK, Stages
<1>4. AttachedAreWriting' /\ FirstFile'
  BY <1>1, <1>2, DesktopAssumption
  DEF StartInv, StartTypeOK, AttachedAreWriting, FirstFile, Unreadable
<1>5. OneAtATime' /\ MemoryHolds'
  BY <1>1 DEF StartInv, StartTypeOK, OneAtATime, MemoryHolds
<1>6. CreateIsFirst'
  BY <1>1 DEF StartInv, OneAtATime, CreateIsFirst
<1>7. BrokenOnlyByStart' /\ EditsSurviveHandover'
  BY <1>1, <1>2, DesktopAssumption
  DEF StartInv, StartTypeOK, BrokenOnlyByStart, EditsSurviveHandover, MemoryHolds,
      Unreadable
<1>8. QED  BY <1>3, <1>4, <1>5, <1>6, <1>7 DEF StartInv

(* A start that ends while it writes: whatever is in the file, it is torn. *)
LEMMA TornKeeps ==
  ASSUME StartInv, NEW p \in Processes, Exit(p), stage[p] = "writing", torn',
         file' \in IF p \in attached THEN {file, Garbage} ELSE {file},
         UNCHANGED <<acked, overlapped>>
  PROVE  StartInv'
<1>1. /\ \A q \in Processes \ {p} : stage'[q] = stage[q]
      /\ stage'[p] = "down" /\ attached' = attached \ {p}
  BY DEF Exit, StartInv, StartTypeOK
<1>2. StartTypeOK'
  BY DefaultsAreConfigs DEF Exit, StartInv, StartTypeOK, Stages
<1>3. AttachedAreWriting' /\ FirstFile'
  BY <1>1, DesktopAssumption
  DEF StartInv, StartTypeOK, AttachedAreWriting, FirstFile, Unreadable
<1>4. OneAtATime' /\ CreateIsFirst'
  BY <1>1 DEF StartInv, OneAtATime, CreateIsFirst
<1>5. MemoryHolds' /\ BrokenOnlyByStart' /\ EditsSurviveHandover'
  BY DEF MemoryHolds, BrokenOnlyByStart, EditsSurviveHandover
<1>6. QED  BY <1>2, <1>3, <1>4, <1>5 DEF StartInv

LEMMA EnsureFailsKeeps ==
  ASSUME StartInv, NEW p \in Processes, EnsureFails(p)
  PROVE  StartInv'
<1>1. CASE stage[p] = "writing"
  BY <1>1, TornKeeps DEF EnsureFails
<1>2. CASE stage[p] = "replace"
  <2>1. p \notin attached
    BY <1>2 DEF StartInv, AttachedAreWriting
  <2>2. UNCHANGED <<file, acked, overlapped, torn>>
    BY <1>2, <2>1 DEF EnsureFails, StartInv, StartTypeOK
  <2>3. QED  BY <1>2, <2>2, ExitKeeps DEF EnsureFails
<1>3. QED  BY <1>1, <1>2 DEF EnsureFails

LEMMA KillProcessKeeps ==
  ASSUME StartInv, NEW p \in Processes, KillProcess(p)
  PROVE  StartInv'
<1>1. CASE stage[p] = "writing"
  BY <1>1, TornKeeps DEF KillProcess
<1>2. CASE stage[p] # "writing"
  BY <1>2, ExitKeeps DEF KillProcess, StartInv, StartTypeOK
<1>3. QED  BY <1>1, <1>2

LEMMA CreateConfigKeeps ==
  ASSUME StartInv, NEW p \in Processes, NEW ok \in BOOLEAN, CreateConfig(p, ok)
  PROVE  StartInv'
<1>1. /\ \A q \in Processes \ {p} : stage'[q] = stage[q] /\ memory'[q] = memory[q]
      /\ stage[p] = "create" /\ stage'[p] = IF ok THEN "up" ELSE "down"
      /\ memory'[p] = PlainDefault
      /\ file' = IF ok THEN PlainDefault ELSE file
      /\ attached' = IF ok THEN {} ELSE attached
      /\ UNCHANGED <<acked, overlapped, torn>>
  BY DEF CreateConfig, SaveConfig, Goto, StartInv, StartTypeOK
<1>2. StartTypeOK'
  BY <1>1, DefaultsAreConfigs
  DEF CreateConfig, SaveConfig, Goto, StartInv, StartTypeOK, Stages
<1>3. AttachedAreWriting' /\ FirstFile'
  BY <1>1, DefaultsAreConfigs, DesktopAssumption
  DEF StartInv, StartTypeOK, AttachedAreWriting, FirstFile
<1>4. ~overlapped => acked = {}
  BY <1>1 DEF StartInv, CreateIsFirst, FirstFile
<1>5. ~overlapped => \A q \in Processes \ {p} : stage[q] = "down"
  BY <1>1 DEF StartInv, OneAtATime
<1>6. OneAtATime' /\ CreateIsFirst' /\ MemoryHolds'
  BY <1>1, <1>4, <1>5 DEF StartInv, OneAtATime, CreateIsFirst, MemoryHolds
<1>7. BrokenOnlyByStart' /\ EditsSurviveHandover'
  BY <1>1, <1>4, DefaultsAreConfigs, DesktopAssumption
  DEF StartInv, BrokenOnlyByStart, EditsSurviveHandover, Unreadable
<1>8. QED  BY <1>2, <1>3, <1>6, <1>7 DEF StartInv

(* An edit adds to what the process holds, which is everything that was    *)
(* answered, and writes all of it.                                         *)
LEMMA EditKeeps ==
  ASSUME StartInv, NEW p \in Processes, NEW e \in Edits, NEW ok \in BOOLEAN,
         Edit(p, e, ok)
  PROVE  StartInv'
<1> DEFINE new == [memory[p] EXCEPT !.edits = @ \cup {e}]
<1>1. new \in Configs /\ new.edits = memory[p].edits \cup {e}
  BY DefaultsAreConfigs DEF StartInv, StartTypeOK
<1>2. /\ \A q \in Processes \ {p} : memory'[q] = memory[q]
      /\ stage[p] = "up" /\ memory'[p] = new
      /\ file' = IF ok THEN new ELSE file
      /\ attached' = IF ok THEN {} ELSE attached
      /\ acked' = IF ok THEN acked \cup {e} ELSE acked
      /\ UNCHANGED <<stage, overlapped, torn>>
  BY DEF Edit, SaveConfig, StartInv, StartTypeOK
<1>3. memory' = [memory EXCEPT ![p] = new]
  BY DEF Edit
<1> HIDE DEF new
<1>4. StartTypeOK'
  BY <1>1, <1>2, <1>3 DEF StartInv, StartTypeOK
<1>5. AttachedAreWriting' /\ FirstFile'
  BY <1>1, <1>2, DesktopAssumption
  DEF StartInv, StartTypeOK, AttachedAreWriting, FirstFile
<1>6. OneAtATime' /\ CreateIsFirst'
  BY <1>2 DEF StartInv, OneAtATime, CreateIsFirst
<1>7. ~overlapped /\ ~torn => /\ acked \subseteq memory[p].edits
                             /\ \A q \in Processes \ {p} : stage[q] = "down"
  BY <1>2 DEF StartInv, MemoryHolds, OneAtATime
<1>8. MemoryHolds'
  BY <1>1, <1>2, <1>7 DEF MemoryHolds
<1>9. BrokenOnlyByStart' /\ EditsSurviveHandover'
  BY <1>1, <1>2, <1>7, DesktopAssumption
  DEF StartInv, BrokenOnlyByStart, EditsSurviveHandover, Unreadable
<1>10. QED  BY <1>4, <1>5, <1>6, <1>8, <1>9 DEF StartInv

LEMMA StartStepKeeps == StartInv /\ [DesktopNext]_desktopVars => StartInv'
<1> SUFFICES ASSUME StartInv, [DesktopNext]_desktopVars  PROVE StartInv'
  OBVIOUS
<1>1. ASSUME NEW p \in Processes, LaunchDesktop(p) \/ LaunchCommand(p)
      PROVE  StartInv'
  BY <1>1, SpawnKeeps DEF LaunchDesktop, LaunchCommand
<1>2. ASSUME NEW p \in Processes,
             EnsureRead(p) \/ EnsureTruncate(p) \/ EnsureWrite(p) \/ EnsureFails(p)
      PROVE  StartInv'
  BY <1>2, EnsureReadKeeps, EnsureTruncateKeeps, EnsureWriteKeeps, EnsureFailsKeeps
<1>3. ASSUME NEW p \in Processes, OpenConfig(p) \/ KillProcess(p)
      PROVE  StartInv'
  BY <1>3, OpenConfigKeeps, KillProcessKeeps
<1>4. ASSUME NEW p \in Processes, NEW ok \in BOOLEAN,
             CreateConfig(p, ok) \/ \E e \in Edits : Edit(p, e, ok)
      PROVE  StartInv'
  BY <1>4, CreateConfigKeeps, EditKeeps
<1>5. CASE UNCHANGED desktopVars
  BY <1>5
  DEF desktopVars, StartInv, StartTypeOK, AttachedAreWriting, FirstFile, OneAtATime,
      CreateIsFirst, MemoryHolds, BrokenOnlyByStart, EditsSurviveHandover
<1>6. QED  BY <1>1, <1>2, <1>3, <1>4, <1>5 DEF DesktopNext

(* The config becomes unreadable only by a start that is, or was cut off,  *)
(* between its truncation and its write, or that wrote over another        *)
(* process: for any number of processes and edits (main_desktop.go, lines  *)
(* 113-171).                                                               *)
THEOREM BrokenOnlyByStarts == DesktopSpec => []BrokenOnlyByStart
<1>1. StartInv => BrokenOnlyByStart
  BY DEF StartInv
<1>2. QED  BY StartInitHolds, StartStepKeeps, <1>1, PTL DEF DesktopSpec

(* Processes that take turns on the file keep every edit that was answered *)
(* with success, over every start that rewrites it: for any number of      *)
(* processes and edits (main_desktop.go, lines 113-171; config.go, lines   *)
(* 237-284).                                                               *)
THEOREM HandoverKeepsEdits == DesktopSpec => []EditsSurviveHandover
<1>1. StartInv => EditsSurviveHandover
  BY DEF StartInv
<1>2. QED  BY StartInitHolds, StartStepKeeps, <1>1, PTL DEF DesktopSpec

-----------------------------------------------------------------------------
(* The writes of the config file: a single process keeps the promise above *)
(* atomicWriteFile (config.go:328-330), for any contents, inodes, failures *)
(* and crashes. With two processes it does not: see the run shared_config. *)

OneProcess == \A p, q \in Procs : p = q

(* The temporary file is never the config file, and belongs to the call    *)
(* under way from its open, empty, to its rename, when it holds the data.  *)
WriterInv ==
  /\ TypeOK
  /\ path # None => path # tmp /\ content[path] \in Values
  /\ \A p \in Procs :
       /\ pc[p] = "idle" <=> data[p] = None
       /\ pc[p] \in {"write", "rename"} => tmp # None /\ tmp = fd[p]
       /\ pc[p] = "write" => content[fd[p]] = Partial
       /\ pc[p] = "rename" => content[fd[p]] = data[p]

LEMMA InitWriter == Init => WriterInv
BY AtomicWriteAssumption DEF Init, WriterInv, TypeOK, Steps

(* The steps that return leave the other name and every content alone.     *)
LEMMA ReturnKeeps ==
  ASSUME OneProcess, WriterInv, NEW p \in Procs, NEW r \in {"none", "ok", "error"},
         Return(p, r), path' = path, tmp' \in {None, tmp},
         content' \in [Inodes -> Values \cup {Partial}],
         path # None => content'[path] = content[path]
  PROVE  WriterInv'
BY DEF OneProcess, WriterInv, TypeOK, Steps, Return

LEMMA StepKeepsWriter ==
  ASSUME OneProcess, WriterInv, NEW p \in Procs,
         \/ \E v \in Values : Call(p, v)
         \/ Create(p) \/ CreateFails(p) \/ Write(p) \/ WriteFails(p)
         \/ Rename(p) \/ RenameFails(p) \/ Remove(p) \/ Crash(p)
  PROVE  WriterInv'
<1> USE AtomicWriteAssumption DEF OneProcess
<1>1. ASSUME NEW v \in Values, Call(p, v)  PROVE WriterInv'
  BY <1>1 DEF Call, WriterInv, TypeOK, Steps
<1>2. CASE Create(p)
  <2>1. PICK i \in IF tmp = None THEN FreeInodes ELSE {tmp} :
          /\ tmp' = i
          /\ content' = [content EXCEPT ![i] = Partial]
          /\ fd' = [fd EXCEPT ![p] = i]
    BY <1>2 DEF Create
  <2>2. i \in Inodes /\ i # None /\ (path # None => i # path)
    BY <2>1 DEF FreeInodes, WriterInv, TypeOK
  <2>3. QED  BY <1>2, <2>1, <2>2 DEF Create, Continue, WriterInv, TypeOK, Steps
<1>3. CASE CreateFails(p)
  BY <1>3, ReturnKeeps DEF CreateFails, WriterInv, TypeOK
<1>4. CASE Write(p)
  <2>1. PICK c \in {data[p], Partial} :
          /\ content[fd[p]] \in {Partial, data[p]} => c = data[p]
          /\ content' = [content EXCEPT ![fd[p]] = c]
    BY <1>4 DEF Write
  <2>2. QED  BY <1>4, <2>1 DEF Write, Continue, WriterInv, TypeOK, Steps
<1>5. CASE WriteFails(p)
  <2>1. content' = [content EXCEPT ![tmp] = Partial] /\ tmp \in Inodes /\ tmp # path
    BY <1>5 DEF WriteFails, WriterInv, TypeOK
  <2>2. QED  BY <1>5, <2>1, ReturnKeeps DEF WriteFails, WriterInv, TypeOK
<1>6. CASE Rename(p)
  BY <1>6 DEF Rename, Return, WriterInv, TypeOK, Steps
<1>7. CASE RenameFails(p)
  BY <1>7 DEF RenameFails, Continue, WriterInv, TypeOK, Steps
<1>8. CASE Remove(p)
  BY <1>8, ReturnKeeps DEF Remove, WriterInv, TypeOK
<1>9. CASE Crash(p)
  BY <1>9, ReturnKeeps DEF Crash, WriterInv, TypeOK
<1>10. QED
  BY <1>1, <1>2, <1>3, <1>4, <1>5, <1>6, <1>7, <1>8, <1>9

LEMMA NextKeepsWriter ==
  ASSUME OneProcess
  PROVE  WriterInv /\ [Next]_vars => WriterInv'
<1>1. WriterInv /\ UNCHANGED vars => WriterInv'
  BY DEF vars, WriterInv, TypeOK
<1>2. WriterInv /\ Next => WriterInv'
  BY StepKeepsWriter DEF Next
<1>3. QED  BY <1>1, <1>2

LEMMA WriterIsWhole == WriterInv => NeverPartial
BY AtomicWriteAssumption DEF WriterInv, NeverPartial, Content

-----------------------------------------------------------------------------
(* No reader meets an empty or partial config file (config.go:328-330), as *)
(* long as a single process writes it.                                     *)
THEOREM NeverPartialAlone ==
  ASSUME OneProcess
  PROVE  Spec => []NeverPartial
BY InitWriter, NextKeepsWriter, WriterIsWhole, PTL DEF Spec

(* Names, descriptors and contents keep their types, and a call is at one  *)
(* of its steps, through every failure and crash (config.go:331-341).      *)
THEOREM AtomicWriteTypeCorrect ==
  ASSUME OneProcess
  PROVE  Spec => []TypeOK
<1>1. WriterInv => TypeOK
  BY DEF WriterInv
<1>2. QED  BY InitWriter, NextKeepsWriter, <1>1, PTL DEF Spec

LEMMA InitDurable == Init => Durable!DurableInit
BY DEF Init, Content, Durable!DurableInit

(* Only the rename shows through the config file's name, and it shows the  *)
(* whole of the data.                                                      *)
LEMMA StepImplements ==
  ASSUME OneProcess, WriterInv, NEW p \in Procs,
         \/ \E v \in Values : Call(p, v)
         \/ Create(p) \/ CreateFails(p) \/ Write(p) \/ WriteFails(p)
         \/ Rename(p) \/ RenameFails(p) \/ Remove(p) \/ Crash(p)
  PROVE  Durable!DurableNext \/ UNCHANGED <<Content, data, answer>>
<1> USE AtomicWriteAssumption DEF OneProcess
<1>1. ASSUME NEW v \in Values, Call(p, v)  PROVE Durable!Ask(p, v)
  BY <1>1 DEF Call, Durable!Ask, WriterInv, Content
<1>2. Create(p) => UNCHANGED <<Content, data, answer>>
  <2> SUFFICES ASSUME Create(p)  PROVE UNCHANGED <<Content, data, answer>>
    OBVIOUS
  <2>1. PICK i \in IF tmp = None THEN FreeInodes ELSE {tmp} :
          content' = [content EXCEPT ![i] = Partial]
    BY DEF Create
  <2>2. path # None => i # path /\ path \in Inodes
    BY <2>1 DEF FreeInodes, WriterInv, TypeOK
  <2>3. QED  BY <2>1, <2>2 DEF Create, Continue, Content, WriterInv, TypeOK
<1>3. CreateFails(p) => Durable!Refuse(p)
  BY DEF CreateFails, Return, Content, WriterInv, Durable!Refuse
<1>4. Write(p) => UNCHANGED <<Content, data, answer>>
  BY DEF Write, Continue, Content, WriterInv, TypeOK
<1>5. WriteFails(p) => Durable!Refuse(p)
  BY DEF WriteFails, Return, Content, WriterInv, TypeOK, Durable!Refuse
<1>6. Rename(p) => Durable!Replace(p)
  BY DEF Rename, Return, Content, WriterInv, TypeOK, Durable!Replace
<1>7. RenameFails(p) => UNCHANGED <<Content, data, answer>>
  BY DEF RenameFails, Continue, Content
<1>8. Remove(p) => Durable!Refuse(p)
  BY DEF Remove, Return, Content, WriterInv, Durable!Refuse
<1>9. Crash(p) => Durable!Die(p)
  BY DEF Crash, Return, Content, Durable!Die
<1>10. QED
  BY <1>1, <1>2, <1>3, <1>4, <1>5, <1>6, <1>7, <1>8, <1>9 DEF Durable!DurableNext

LEMMA NextImplements ==
  ASSUME OneProcess
  PROVE  WriterInv /\ [Next]_vars => [Durable!DurableNext]_(Durable!durableVars)
<1>1. WriterInv /\ UNCHANGED vars => UNCHANGED Durable!durableVars
  BY DEF vars, Content, Durable!durableVars
<1>2. WriterInv /\ Next => [Durable!DurableNext]_(Durable!durableVars)
  BY StepImplements DEF Next, Durable!durableVars
<1>3. QED  BY <1>1, <1>2

(* A call of atomicWriteFile is all or nothing, through every failure and  *)
(* crash, as long as a single process writes the file.                     *)
THEOREM AtomicWriteIsDurable ==
  ASSUME OneProcess
  PROVE  Spec => ImplementsDurableFile
BY InitWriter, NextKeepsWriter, InitDurable, NextImplements, PTL
   DEF Spec, ImplementsDurableFile, Durable!DurableSpec
================================================================================
