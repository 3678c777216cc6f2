------------------------------- MODULE Background -------------------------------
(***************************************************************************)
(* Installing and removing the background service: the commands of         *)
(* internal/app/service.go one by one, called by the settings handler      *)
(* (server.go, lines 160-186) or by the command line, with every command   *)
(* able to fail, beside the service manager that starts the service at     *)
(* login and keeps it running.                                             *)
(*                                                                         *)
(* A job is one call of installService or uninstallService. It runs in the *)
(* service itself, whose pages have the same toggle, or in another process *)
(* (the window, the command line). What the managers do is external: it is *)
(* the part of their behaviour the commands are called for.                *)
(***************************************************************************)
EXTENDS Sequences

CONSTANTS
  Jobs       \* calls that may be under way at the same time

VARIABLES
  platform,  \* runtime.GOOS
  unit,      \* the plist, the unit file or the task: "none", "broken", "good"
  link,      \* linux: the unit is enabled for default.target
  loaded,    \* the manager wants the service to run (darwin, linux)
  service,   \* a service process is running
  job,       \* each call, or NoJob
  asked      \* history: "on" or "off" after a toggle that was answered with
             \* success and that no other overlapped, otherwise "unsettled"

backgroundVars == <<platform, unit, link, loaded, service, job, asked>>

NoJob == [want |-> "none"]

(* A command whose error ends the job, and one whose error is dropped.     *)
Must(command) == [command |-> command, must |-> TRUE]
Try(command) == [command |-> command, must |-> FALSE]

installLaunchd == <<Must("truncate"), Must("write"), Try("unload"), Must("load")>>

(* Mutant: the error of enable is dropped, as that of disable is.          *)
installSystemdAnyway ==
  <<Must("truncate"), Must("write"), Must("reload"), Try("enable")>>

installSystemd == <<Must("truncate"), Must("write"), Must("reload"), Must("enable")>>

installWindowsTask == <<Must("create"), Try("run")>>

uninstallLaunchd == <<Try("unload"), Must("remove")>>

uninstallSystemd == <<Try("disable"), Must("remove"), Try("reload")>>

uninstallWindowsTask == <<Must("delete")>>

(* The commands of a job, in the order they run.                           *)
installService ==
  CASE platform = "darwin"  -> installLaunchd
    [] platform = "linux"   -> installSystemd
    [] platform = "windows" -> installWindowsTask

uninstallService ==
  CASE platform = "darwin"  -> uninstallLaunchd
    [] platform = "linux"   -> uninstallSystemd
    [] platform = "windows" -> uninstallWindowsTask

(* What the manager starts at the next login.                              *)
StartsAtLogin == unit = "good" /\ (platform = "linux" => link)

(* backgroundStatus: the file, or the task, is there.                      *)
StatusEnabled == unit # "none"

BackgroundInit ==
  /\ platform \in {"darwin", "linux", "windows"}
  /\ unit = "none"
  /\ link = FALSE
  /\ loaded = FALSE
  /\ service = FALSE
  /\ job = [k \in Jobs |-> NoJob]
  /\ asked = "off"

-----------------------------------------------------------------------------
(* What a command leaves behind when it succeeds. To stop the service is   *)
(* to stop wanting it: the process itself ends in ServiceStops.            *)
Effect(command) ==
  \/ command = "truncate" /\ unit' = "broken" /\ UNCHANGED <<link, loaded, service>>
  \/ /\ command \in {"write", "create"}
     /\ unit' = "good"
     /\ UNCHANGED <<link, loaded, service>>
  \/ /\ command = "load" /\ unit = "good"
     /\ loaded' = TRUE /\ service' = TRUE
     /\ UNCHANGED <<unit, link>>
  \/ /\ command = "enable" /\ unit = "good"
     /\ link' = TRUE /\ loaded' = TRUE /\ service' = TRUE
     /\ UNCHANGED unit
  \/ /\ command = "run" /\ unit = "good"
     /\ service' = TRUE
     /\ UNCHANGED <<unit, link, loaded>>
  \/ command = "unload" /\ loaded' = FALSE /\ UNCHANGED <<unit, link, service>>
  \/ /\ command = "disable"
     /\ link' = FALSE /\ loaded' = FALSE
     /\ UNCHANGED <<unit, service>>
  \/ command = "remove" /\ unit' = "none" /\ UNCHANGED <<link, loaded, service>>
  \/ /\ command = "delete" /\ unit # "none"
     /\ unit' = "none"
     /\ UNCHANGED <<link, loaded, service>>
  \/ command = "reload" /\ UNCHANGED <<unit, link, loaded, service>>

(* What it leaves behind when it fails: nothing, except that the link of   *)
(* enable --now and disable --now is done before the start or the stop.    *)
FailedEffect(command) ==
  /\ \/ UNCHANGED link
     \/ command = "enable" /\ unit = "good" /\ link' = TRUE
     \/ command = "disable" /\ link' = FALSE
  /\ UNCHANGED <<unit, loaded, service>>

Busy(k) == job[k] # NoJob

(* POST /api/settings/background, or the command line.                     *)
Toggle(k, want, inService) ==
  /\ ~Busy(k)
  /\ inService => service
  /\ LET new == [want |-> want, inService |-> inService,
                 todo |-> IF want = "on" THEN installService ELSE uninstallService,
                 alone |-> \A j \in Jobs \ {k} : ~Busy(j)]
     IN job' = [j \in Jobs |-> IF j = k THEN new
                               ELSE IF Busy(j) THEN [job[j] EXCEPT !.alone = FALSE]
                               ELSE NoJob]
  /\ asked' = "unsettled"
  /\ UNCHANGED <<platform, unit, link, loaded, service>>

(* The next command of a job works, or its error is dropped.               *)
Command(k) ==
  /\ Busy(k)
  /\ job[k].todo # <<>>
  /\ LET next == Head(job[k].todo)
     IN \/ Effect(next.command)
        \/ ~next.must /\ FailedEffect(next.command)
  /\ job' = [job EXCEPT ![k].todo = Tail(@)]
  /\ UNCHANGED <<platform, asked>>

(* The next command fails, and the job returns its error.                  *)
CommandFails(k) ==
  /\ Busy(k)
  /\ job[k].todo # <<>>
  /\ Head(job[k].todo).must
  /\ FailedEffect(Head(job[k].todo).command)
  /\ job' = [job EXCEPT ![k] = NoJob]
  /\ UNCHANGED <<platform, asked>>

(* The job succeeded and is answered.                                      *)
ToggleAnswered(k) ==
  /\ Busy(k)
  /\ job[k].todo = <<>>
  /\ asked' = IF job[k].alone THEN job[k].want ELSE asked
  /\ job' = [job EXCEPT ![k] = NoJob]
  /\ UNCHANGED <<platform, unit, link, loaded, service>>

-----------------------------------------------------------------------------
OutsideService == [k \in Jobs |-> IF Busy(k) /\ job[k].inService THEN NoJob ELSE job[k]]

(* The service ends: it crashed, or the manager stops what it no longer    *)
(* wants. Jobs that run in it end with it.                                 *)
ServiceStops ==
  /\ service
  /\ service' = FALSE
  /\ job' = OutsideService
  /\ UNCHANGED <<platform, unit, link, loaded, asked>>

(* The manager starts it again (KeepAlive, Restart=on-failure).            *)
ServiceRestarts ==
  /\ loaded /\ ~service
  /\ service' = TRUE
  /\ UNCHANGED <<platform, unit, link, loaded, job, asked>>

(* systemd gives up on a service that fails again and again.               *)
ServiceGivenUp ==
  /\ platform = "linux" /\ loaded /\ ~service
  /\ loaded' = FALSE
  /\ UNCHANGED <<platform, unit, link, service, job, asked>>

(* The window, or the command line, is closed or killed with its jobs.     *)
WindowCloses ==
  /\ \E k \in Jobs : Busy(k) /\ ~job[k].inService
  /\ job' = [k \in Jobs |-> IF Busy(k) /\ ~job[k].inService THEN NoJob ELSE job[k]]
  /\ UNCHANGED <<platform, unit, link, loaded, service, asked>>

(* The machine restarts and the user logs in.                              *)
Login ==
  /\ job' = [k \in Jobs |-> NoJob]
  /\ service' = StartsAtLogin
  /\ loaded' = (StartsAtLogin /\ platform # "windows")
  /\ UNCHANGED <<platform, unit, link, asked>>

BackgroundNext ==
  \/ \E k \in Jobs :
       \/ \E want \in {"on", "off"}, inService \in BOOLEAN : Toggle(k, want, inService)
       \/ Command(k)
       \/ CommandFails(k)
       \/ ToggleAnswered(k)
  \/ ServiceStops
  \/ ServiceRestarts
  \/ ServiceGivenUp
  \/ WindowCloses
  \/ Login

BackgroundSpec == BackgroundInit /\ [][BackgroundNext]_backgroundVars

-----------------------------------------------------------------------------
(* After a toggle that was answered with success, and that no other one    *)
(* overlapped, the service is registered to start at login exactly if it   *)
(* was switched on, and the settings page says so: whichever commands an   *)
(* earlier toggle was cut short after, whichever errors were ignored on    *)
(* the way, and over crashes of the service and restarts of the machine.   *)
(* (A toggle that failed or was cut off promises nothing: the unit it left *)
(* behind makes the page say "enabled", service.go:72 and 77.)             *)
AnsweredToggleHolds ==
  /\ asked = "on" => StartsAtLogin /\ StatusEnabled
  /\ asked = "off" => ~StartsAtLogin /\ ~StatusEnabled
=============================================================================
