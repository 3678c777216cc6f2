------------------------------ MODULE DesktopStart ------------------------------
(***************************************************************************)
(* Two processes on one config file, as the window and the background      *)
(* service are: ensureDesktopConfig, which rewrites the file in place at   *)
(* every start of the desktop binary (main_desktop.go, lines 113-171),     *)
(* then openConfigStore, and the edits each process saves from its own     *)
(* memory (internal/app/config.go, lines 193-210 and 237-326).             *)
(*                                                                         *)
(* The content of a config is whether its db_path is absolute and which    *)
(* edits it holds. The atomic write of config.go is one step that happens  *)
(* or fails; that two processes share its temporary name is the subject of *)
(* AtomicWrite.                                                            *)
(***************************************************************************)
CONSTANTS
  Processes,  \* processes on the file
  Edits,      \* edits a user makes: a bound on their number
  NoFile,     \* there is no config file yet
  Empty,      \* the file is truncated
  Garbage     \* it holds part of a config, or parts of two

VARIABLES
  file,       \* the config file
  stage,      \* how far each process is with its start
  memory,     \* per process: c.cfg, or the config it is about to write
  attached,   \* processes whose open file is still the one at the path
  acked,      \* history: edits answered with success
  overlapped, \* history: two processes have run at the same time
  torn        \* history: a start ended between its truncation and its write,
              \* or wrote over what another process had written since

desktopVars == <<file, stage, memory, attached, acked, overlapped, torn>>

Configs == [absolute : BOOLEAN, edits : SUBSET Edits]

Unreadable == {Empty, Garbage}

\* writeDesktopConfig's content, and the one of loadConfig without a file.
DesktopDefault == [absolute |-> TRUE, edits |-> {}]
PlainDefault == [absolute |-> FALSE, edits |-> {}]

ASSUME DesktopAssumption ==
  /\ NoFile \notin Configs /\ Empty \notin Configs /\ Garbage \notin Configs
  /\ NoFile \notin Unreadable

DesktopInit ==
  /\ file \in {NoFile, PlainDefault}
  /\ stage = [p \in Processes |-> "down"]
  /\ memory = [p \in Processes |-> PlainDefault]
  /\ attached = {}
  /\ acked = {}
  /\ overlapped = FALSE
  /\ torn = FALSE

Alive == {p \in Processes : stage[p] # "down"}

Goto(p, s) == stage' = [stage EXCEPT ![p] = s]

Exit(p) ==
  /\ stage' = [stage EXCEPT ![p] = "down"]
  /\ memory' = [memory EXCEPT ![p] = PlainDefault]
  /\ attached' = attached \ {p}

-----------------------------------------------------------------------------
Spawn(p, s) ==
  /\ stage[p] = "down"
  /\ Goto(p, s)
  /\ overlapped' = (overlapped \/ Alive # {})
  /\ UNCHANGED <<file, memory, attached, acked, torn>>

(* The desktop binary, as a window or as the service.                      *)
LaunchDesktop(p) == Spawn(p, "ensure")

(* The mcmon command opens the config at once.                             *)
LaunchCommand(p) == Spawn(p, "open")

(* Mutant: a config with a relative db_path is replaced by the default.    *)
EnsureAnew(config) == DesktopDefault

(* The config that ensureDesktopConfig writes back: raw with a db_path.    *)
WithDatabase(config) == [config EXCEPT !.absolute = TRUE]

(* ensureDesktopConfig reads the file. It ends the process if the file     *)
(* cannot be read (log.Fatal).                                             *)
EnsureRead(p) ==
  /\ stage[p] = "ensure"
  /\ \/ /\ file = NoFile
        /\ Goto(p, "replace")
        /\ memory' = [memory EXCEPT ![p] = DesktopDefault]
        /\ UNCHANGED attached
     \/ file \in Unreadable /\ Exit(p)
     \/ /\ file \in Configs /\ file.absolute
        /\ Goto(p, "open")
        /\ UNCHANGED <<memory, attached>>
     \/ /\ file \in Configs /\ ~file.absolute
        /\ Goto(p, "replace")
        /\ memory' = [memory EXCEPT ![p] = WithDatabase(file)]
        /\ UNCHANGED attached
  /\ UNCHANGED <<file, acked, overlapped, torn>>

(* os.WriteFile opens the file and truncates it.                           *)
EnsureTruncate(p) ==
  /\ stage[p] = "replace"
  /\ file' = Empty
  /\ Goto(p, "writing")
  /\ attached' = attached \cup {p}
  /\ UNCHANGED <<memory, acked, overlapped, torn>>

(* os.WriteFile writes. Over the bytes of another process, which may be    *)
(* more, the result may be neither config. A file that was renamed away    *)
(* takes the bytes with it.                                                *)
EnsureWrite(p) ==
  /\ stage[p] = "writing"
  /\ file' \in IF p \notin attached THEN {file}
               ELSE IF file \in {Empty, memory[p]} THEN {memory[p]}
               ELSE {memory[p], Garbage}
  /\ Goto(p, "open")
  /\ attached' = attached \ {p}
  /\ torn' = (torn \/ (p \in attached /\ file \notin {Empty, memory[p]}))
  /\ UNCHANGED <<memory, acked, overlapped>>

(* The write fails, perhaps in the middle, and log.Fatal ends the process. *)
EnsureFails(p) ==
  /\ stage[p] \in {"replace", "writing"}
  /\ file' \in IF p \in attached THEN {file, Garbage} ELSE {file}
  /\ torn' = (torn \/ stage[p] = "writing")
  /\ Exit(p)
  /\ UNCHANGED <<acked, overlapped>>

(* loadConfig: without a file it goes on to write a default one.           *)
OpenConfig(p) ==
  /\ stage[p] = "open"
  /\ \/ file = NoFile /\ Goto(p, "create") /\ UNCHANGED <<memory, attached>>
     \/ file \in Unreadable /\ Exit(p)
     \/ /\ file \in Configs
        /\ Goto(p, "up")
        /\ memory' = [memory EXCEPT ![p] = file]
        /\ UNCHANGED attached
  /\ UNCHANGED <<file, acked, overlapped, torn>>

(* Mutant: the file is overwritten in place.                               *)
SaveInPlace(p, config, ok) ==
  /\ file' = IF ok THEN config ELSE Empty
  /\ UNCHANGED attached

(* writeConfig: the new file takes the place of the old, or nothing does.  *)
SaveConfig(p, config, ok) ==
  /\ file' = IF ok THEN config ELSE file
  /\ attached' = IF ok THEN {} ELSE attached

(* The default config is written; if that fails the process ends.          *)
CreateConfig(p, ok) ==
  /\ stage[p] = "create"
  /\ SaveConfig(p, PlainDefault, ok)
  /\ Goto(p, IF ok THEN "up" ELSE "down")
  /\ memory' = [memory EXCEPT ![p] = PlainDefault]
  /\ UNCHANGED <<acked, overlapped, torn>>

(* An edit changes this process's memory and writes all of it.             *)
Edit(p, e, ok) ==
  /\ stage[p] = "up"
  /\ e \notin memory[p].edits
  /\ LET new == [memory[p] EXCEPT !.edits = @ \cup {e}]
     IN /\ memory' = [memory EXCEPT ![p] = new]
        /\ SaveConfig(p, new, ok)
  /\ acked' = IF ok THEN acked \cup {e} ELSE acked
  /\ UNCHANGED <<stage, overlapped, torn>>

(* The process is closed or killed, at any step.                           *)
KillProcess(p) ==
  /\ p \in Alive
  /\ torn' = (torn \/ stage[p] = "writing")
  /\ Exit(p)
  /\ UNCHANGED <<file, acked, overlapped>>

DesktopNext ==
  \E p \in Processes :
    \/ LaunchDesktop(p) \/ LaunchCommand(p)
    \/ EnsureRead(p) \/ EnsureTruncate(p) \/ EnsureWrite(p) \/ EnsureFails(p)
    \/ OpenConfig(p)
    \/ \E ok \in BOOLEAN : CreateConfig(p, ok) \/ \E e \in Edits : Edit(p, e, ok)
    \/ KillProcess(p)

DesktopSpec == DesktopInit /\ [][DesktopNext]_desktopVars

-----------------------------------------------------------------------------
(* The config becomes unreadable, so that every later start ends in        *)
(* log.Fatal, in no other way than by a start that ended between its       *)
(* truncation and its write, or two that wrote over each other: while a    *)
(* start is at it the file is empty, and the edits of the other process,   *)
(* failed ones too, never leave it so.                                     *)
BrokenOnlyByStart ==
  file \in Unreadable => attached # {} \/ torn

(* When the window hands over to the service, or the service to the        *)
(* window, each reads what the other saved: as long as the two do not run  *)
(* at the same time and no start is cut off while it writes, every edit    *)
(* that was answered with success is in the file, over every start that    *)
(* rewrites it. (Two processes at the same time undo each other's edits.)  *)
EditsSurviveHandover ==
  file \in Configs /\ ~overlapped /\ ~torn => acked \subseteq file.edits
=============================================================================
