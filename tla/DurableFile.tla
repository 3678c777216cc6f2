------------------------------ MODULE DurableFile ------------------------------
(***************************************************************************)
(* What the comment above atomicWriteFile promises (internal/app/config.go *)
(* 328-330): a write is all or nothing. A call that reports success has    *)
(* replaced the content, one that reports an error has not touched it, and *)
(* a crash leaves the old content or the new.                              *)
(***************************************************************************)
CONSTANTS
  Procs,    \* processes that write the file
  Values,   \* contents
  Missing,  \* the content of a file that does not exist
  None      \* no call under way

VARIABLES
  file,     \* the content
  asked,    \* per process, the content its call is to write
  answer    \* per process, what its last call returned

durableVars == <<file, asked, answer>>

DurableInit == /\ file \in Values \cup {Missing}
               /\ asked = [p \in Procs |-> None]
               /\ answer = [p \in Procs |-> "none"]

Ask(p, v) == /\ asked[p] = None
             /\ asked' = [asked EXCEPT ![p] = v]
             /\ answer' = [answer EXCEPT ![p] = "none"]
             /\ UNCHANGED file

Replace(p) == /\ asked[p] # None
              /\ file' = asked[p]
              /\ asked' = [asked EXCEPT ![p] = None]
              /\ answer' = [answer EXCEPT ![p] = "ok"]

Refuse(p) == /\ asked[p] # None
             /\ asked' = [asked EXCEPT ![p] = None]
             /\ answer' = [answer EXCEPT ![p] = "error"]
             /\ UNCHANGED file

Die(p) == /\ asked' = [asked EXCEPT ![p] = None]
          /\ answer' = [answer EXCEPT ![p] = "none"]
          /\ UNCHANGED file

DurableNext == \E p \in Procs : \/ \E v \in Values : Ask(p, v)
                                \/ Replace(p) \/ Refuse(p) \/ Die(p)

DurableSpec == DurableInit /\ [][DurableNext]_durableVars
=============================================================================
