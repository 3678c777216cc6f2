------------------------------ MODULE AtomicWrite ------------------------------
(***************************************************************************)
(* atomicWriteFile (internal/app/config.go 331-341) system call by system  *)
(* call, over a directory with two names: path, and path + ".tmp", which   *)
(* every process that runs on the same config file shares. The desktop     *)
(* application and the background service it installs are two of those.   *)
(*                                                                         *)
(* A name refers to an inode or to None. Opening the temporary file        *)
(* truncates the inode it refers to; a descriptor goes on referring to its *)
(* inode when the name is renamed or removed.                              *)
(***************************************************************************)
EXTENDS FiniteSets

CONSTANTS
  Procs,     \* processes with their own ConfigStore on this file
  Inodes,    \* a bound on inodes in use at a time
  Values,    \* whole configurations, encoded
  Partial,   \* an empty, truncated or mixed content: no configuration
  Missing,   \* what a reader finds where there is no file
  None       \* no inode, no value

ASSUME AtomicWriteAssumption == /\ Partial \notin Values
                                /\ Missing \notin Values \cup {Partial}
                                /\ None \notin Inodes \cup Values

VARIABLES
  path,      \* the inode of the config file
  tmp,       \* the inode of the temporary file
  content,   \* what each inode holds
  pc,        \* per process, the system call it is about to make
  data,      \* per process, the argument of its call
  fd,        \* per process, the inode its open returned
  answer     \* per process, what its last call of atomicWriteFile returned

vars == <<path, tmp, content, pc, data, fd, answer>>

Steps == {"idle", "create", "write", "rename", "remove"}

Init == /\ path \in Inodes \cup {None}
        /\ tmp = None
        /\ content \in [Inodes -> Values]
        /\ pc = [p \in Procs |-> "idle"]
        /\ data = [p \in Procs |-> None]
        /\ fd = [p \in Procs |-> None]
        /\ answer = [p \in Procs |-> "none"]

FreeInodes == Inodes \ ({path, tmp} \cup {fd[p] : p \in Procs})

(* The call returns, or the process dies; either way its descriptor goes.  *)
Return(p, result) ==
  /\ pc' = [pc EXCEPT ![p] = "idle"]
  /\ data' = [data EXCEPT ![p] = None]
  /\ fd' = [fd EXCEPT ![p] = None]
  /\ answer' = [answer EXCEPT ![p] = result]

Continue(p, step) == pc' = [pc EXCEPT ![p] = step] /\ UNCHANGED <<data, answer>>

-----------------------------------------------------------------------------
(* Mutant: the call forgets what it is to write.                           *)
CallWithoutData(p, v) == /\ pc[p] = "idle"
                         /\ pc' = [pc EXCEPT ![p] = "create"]
                         /\ answer' = [answer EXCEPT ![p] = "none"]
                         /\ UNCHANGED <<path, tmp, content, data, fd>>

Call(p, v) == /\ pc[p] = "idle"
              /\ pc' = [pc EXCEPT ![p] = "create"]
              /\ data' = [data EXCEPT ![p] = v]
              /\ answer' = [answer EXCEPT ![p] = "none"]
              /\ UNCHANGED <<path, tmp, content, fd>>

(* Mutant: an existing config file is written in place.                    *)
CreateInPlace(p) == /\ pc[p] = "create"
                    /\ \E i \in IF path = None THEN FreeInodes ELSE {path} :
                         /\ tmp' = i
                         /\ content' = [content EXCEPT ![i] = Partial]
                         /\ fd' = [fd EXCEPT ![p] = i]
                    /\ Continue(p, "write")
                    /\ UNCHANGED path

(* os.WriteFile: open with O_CREATE and O_TRUNC.                           *)
Create(p) == /\ pc[p] = "create"
             /\ \E i \in IF tmp = None THEN FreeInodes ELSE {tmp} :
                  /\ tmp' = i
                  /\ content' = [content EXCEPT ![i] = Partial]
                  /\ fd' = [fd EXCEPT ![p] = i]
             /\ Continue(p, "write")
             /\ UNCHANGED path

CreateFails(p) == /\ pc[p] = "create"
                  /\ Return(p, "error")
                  /\ UNCHANGED <<path, tmp, content>>

(* os.WriteFile: write from offset 0. Over another process's content it    *)
(* leaves this one whole, or with the tail of a longer one behind it.      *)
Write(p) == /\ pc[p] = "write"
            /\ \E c \in IF content[fd[p]] \in {Partial, data[p]}
                          THEN {data[p]} ELSE {data[p], Partial} :
                 content' = [content EXCEPT ![fd[p]] = c]
            /\ Continue(p, "rename")
            /\ UNCHANGED <<path, tmp, fd>>

(* A full disk: part of the data is there, and the temporary file stays.   *)
WriteFails(p) == /\ pc[p] = "write"
                 /\ content' = [content EXCEPT ![fd[p]] = Partial]
                 /\ Return(p, "error")
                 /\ UNCHANGED <<path, tmp>>

Rename(p) == /\ pc[p] = "rename"
             /\ tmp # None
             /\ path' = tmp
             /\ tmp' = None
             /\ Return(p, "ok")
             /\ UNCHANGED content

(* Another process renamed or removed the temporary file, or the system    *)
(* refuses.                                                                *)
RenameFails(p) == /\ pc[p] = "rename"
                  /\ Continue(p, "remove")
                  /\ UNCHANGED <<path, tmp, content, fd>>

(* Mutant: the error of the rename is dropped.                             *)
RemoveAndForget(p) == /\ pc[p] = "remove"
                      /\ tmp' \in {None, tmp}
                      /\ Return(p, "ok")
                      /\ UNCHANGED <<path, content>>

Remove(p) == /\ pc[p] = "remove"
             /\ tmp' \in {None, tmp}
             /\ Return(p, "error")
             /\ UNCHANGED <<path, content>>

(* The process is killed between two system calls, or inside the write.    *)
Crash(p) == /\ pc[p] # "idle"
            /\ Return(p, "none")
            /\ UNCHANGED <<path, tmp, content>>

Next == \E p \in Procs :
          \/ \E v \in Values : Call(p, v)
          \/ Create(p) \/ CreateFails(p)
          \/ Write(p) \/ WriteFails(p)
          \/ Rename(p) \/ RenameFails(p)
          \/ Remove(p)
          \/ Crash(p)

Spec == Init /\ [][Next]_vars

-----------------------------------------------------------------------------
TypeOK == /\ path \in Inodes \cup {None}
          /\ tmp \in Inodes \cup {None}
          /\ content \in [Inodes -> Values \cup {Partial}]
          /\ pc \in [Procs -> Steps]
          /\ data \in [Procs -> Values \cup {None}]
          /\ fd \in [Procs -> Inodes \cup {None}]
          /\ answer \in [Procs -> {"none", "ok", "error"}]

(* What loadConfig would read.                                             *)
Content == IF path = None THEN Missing ELSE content[path]

(* "A crash or full disk leaves either the old content or the new - never  *)
(* an empty/partial config" (config.go:328-330): a reader of the config    *)
(* file never meets one, whatever was interrupted before.                  *)
NeverPartial == Content # Partial

(* The whole promise, as an implementation of DurableFile.                 *)
Durable == INSTANCE DurableFile WITH file <- Content, asked <- data

ImplementsDurableFile == Durable!DurableSpec
=============================================================================
