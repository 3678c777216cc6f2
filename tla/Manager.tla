-------------------------------- MODULE Manager --------------------------------
(***************************************************************************)
(* The prober manager: m.stops, the mutex around it, the goroutines that   *)
(* Start spawns and the stop channels that end them                        *)
(* (internal/app/prober.go, lines 22-108).                                 *)
(*                                                                         *)
(* A loop is one call of monitorLoop with its own stop channel, named by   *)
(*    gen      the call of Start that made it                              *)
(*    name     the metric name that call gave it                           *)
(*    target   the copy of the target its closure captured                 *)
(* A target whose monitors are all off has an empty slice in m.stops,      *)
(* which nothing in the code tells from a missing entry: both are {}.      *)
(***************************************************************************)
EXTENDS Target, FiniteSets

CONSTANTS
  Targets,   \* targets Start is called with; see ManagerAssumption
  Gens,      \* names for calls of Start: the bound on those still alive
  Callers    \* the HTTP handler goroutines

ASSUME ManagerAssumption == \A t \in Targets : t \in TargetType(Ids)

VARIABLES
  stops,     \* m.stops: the registered loops of each target
  probing,   \* loops inside fn(): a probe is in flight
  waiting,   \* loops in the select of monitorLoop
  closed,    \* loops still alive whose stop channel is closed
  taken      \* Stop's local slice, per caller: out of m.stops, not yet closed

managerVars == <<stops, probing, waiting, closed, taken>>

live == probing \cup waiting
registered == UNION {stops[id] : id \in Ids}
inHand == UNION {taken[k] : k \in Callers}

(* The loops one call of Start spawns for a target.                        *)
Group(g, t) == {[gen |-> g, name |-> n, target |-> t] : n \in LoopNames(t)}

Loops == UNION {Group(g, normalized(t)) : g \in Gens, t \in Targets}

\* A generation whose loops have all ended can be named again.
FreshGens == Gens \ {h.gen : h \in live \cup registered \cup inHand}

ManagerInit == /\ stops = [id \in Ids |-> {}]
               /\ probing = {}
               /\ waiting = {}
               /\ closed = {}
               /\ taken = [k \in Callers |-> {}]

-----------------------------------------------------------------------------
(* Mutant: the old loops are forgotten, not stopped.                       *)
StartOverOld(t) ==
  \E g \in FreshGens :
    LET new == Group(g, normalized(t))
    IN /\ stops' = [stops EXCEPT ![t.id] = new]
       /\ probing' = probing \cup new
       /\ UNCHANGED <<waiting, closed, taken>>

(* Mutant: the new loops join the old ones.                                *)
StartBesideOld(t) ==
  \E g \in FreshGens :
    LET new == Group(g, normalized(t))
    IN /\ stops' = [stops EXCEPT ![t.id] = @ \cup new]
       /\ probing' = probing \cup new
       /\ UNCHANGED <<waiting, closed, taken>>

(***************************************************************************)
(* Start: under m.mu from the lookup of the old loops to the registration  *)
(* of the new ones. Every loop begins with a probe.                        *)
(***************************************************************************)
Start(t) ==
  \E g \in FreshGens :
    LET target == normalized(t)
        new == Group(g, target)
    IN /\ closed' = closed \cup stops[target.id]
       /\ stops' = [stops EXCEPT ![target.id] = new]
       /\ probing' = probing \cup new
       /\ UNCHANGED <<waiting, taken>>

(* Mutant: the slice is copied out, but stays in the map.                  *)
StopCopy(k, id) ==
  /\ taken[k] = {}
  /\ taken' = [taken EXCEPT ![k] = stops[id]]
  /\ UNCHANGED <<stops, probing, waiting, closed>>

(* Stop, up to the unlock: the slice leaves the map.                       *)
StopTake(k, id) ==
  /\ taken[k] = {}
  /\ taken' = [taken EXCEPT ![k] = stops[id]]
  /\ stops' = [stops EXCEPT ![id] = {}]
  /\ UNCHANGED <<probing, waiting, closed>>

(* Mutant: a send, which waits for the loop to be in its select.           *)
StopSend(k, h) ==
  /\ h \in taken[k] \cap waiting
  /\ taken' = [taken EXCEPT ![k] = @ \ {h}]
  /\ closed' = closed \cup {h}
  /\ UNCHANGED <<stops, probing, waiting>>

(* Stop, after the unlock: one close(stop) of the slice it took.           *)
StopClose(k, h) ==
  /\ h \in taken[k]
  /\ taken' = [taken EXCEPT ![k] = @ \ {h}]
  /\ closed' = closed \cup {h}
  /\ UNCHANGED <<stops, probing, waiting>>

-----------------------------------------------------------------------------
(* monitorLoop                                                             *)

(* Mutant: a probe without a timeout, that a stop leaves hanging.          *)
ProbeHangs(h) ==
  /\ h \in probing \ closed
  /\ probing' = probing \ {h}
  /\ waiting' = waiting \cup {h}
  /\ UNCHANGED <<stops, closed, taken>>

(* Mutant: the loop is counted as waiting while its probe still runs.      *)
ProbeInBackground(h) ==
  /\ h \in probing
  /\ waiting' = waiting \cup {h}
  /\ UNCHANGED <<stops, probing, closed, taken>>

(* fn() returns: its dial and its reads have deadlines.                    *)
ProbeDone(h) ==
  /\ h \in probing
  /\ probing' = probing \ {h}
  /\ waiting' = waiting \cup {h}
  /\ UNCHANGED <<stops, closed, taken>>

(* Mutant: the stop is a buffered message that the tick throws away.       *)
TickDrains(h) ==
  /\ h \in waiting
  /\ waiting' = waiting \ {h}
  /\ probing' = probing \cup {h}
  /\ closed' = closed \ {h}
  /\ UNCHANGED <<stops, taken>>

(* Mutant: a timer that fires once, in place of a ticker.                  *)
NoTick(h) == h \in {} /\ UNCHANGED managerVars

(* The select receives from the ticker. When the stop channel is closed    *)
(* too, Go picks either ready case at random, so this may still happen.    *)
Tick(h) ==
  /\ h \in waiting
  /\ waiting' = waiting \ {h}
  /\ probing' = probing \cup {h}
  /\ UNCHANGED <<stops, closed, taken>>

(* The select receives from the closed stop channel, and the loop returns. *)
LoopExit(h) ==
  /\ h \in waiting \cap closed
  /\ waiting' = waiting \ {h}
  /\ closed' = closed \ {h}
  /\ UNCHANGED <<stops, probing, taken>>

LoopStep(h) == ProbeDone(h) \/ Tick(h) \/ LoopExit(h)

ManagerNext ==
  \/ \E t \in Targets : Start(t)
  \/ \E k \in Callers : \/ \E id \in Ids : StopTake(k, id)
                        \/ \E h \in taken[k] : StopClose(k, h)
  \/ \E h \in live : LoopStep(h)

(***************************************************************************)
(* A probe returns because of its timeouts and a goroutine that can run    *)
(* does. A ticker fires again and again. The exit needs strong fairness: a *)
(* tick that is ready at the same time can win the select any number of    *)
(* times, but Go chooses at random among ready cases, so not for ever.     *)
(***************************************************************************)
LoopFairness ==
  \A h \in Loops : /\ WF_managerVars(ProbeDone(h))
                   /\ WF_managerVars(Tick(h))
                   /\ SF_managerVars(LoopExit(h))

HandlerFairness ==
  \A k \in Callers : WF_managerVars(\E h \in taken[k] : StopClose(k, h))

ManagerSpec ==
  ManagerInit /\ [][ManagerNext]_managerVars /\ LoopFairness /\ HandlerFairness

-----------------------------------------------------------------------------
(* Every variable has its type, and a loop is in one place at a time.      *)
ManagerTypeOK ==
  /\ stops \in [Ids -> SUBSET Loops]
  /\ probing \subseteq Loops
  /\ waiting \subseteq Loops
  /\ probing \cap waiting = {}
  /\ closed \subseteq live
  /\ taken \in [Callers -> SUBSET Loops]

(* No loop is orphaned: one whose channel is open can still be stopped,    *)
(* because m.stops or the Stop call that took it holds the channel. This   *)
(* is what the comment at prober.go:41-44 is about.                        *)
NoOrphanLoop == live \ closed = registered \cup inHand

(* No stop channel is closed twice, which would panic: each open channel   *)
(* has a single holder, over every interleaving of Start with Stops whose  *)
(* closes come after the unlock.                                           *)
ClosedOnce ==
  /\ \A i, j \in Ids : i # j => stops[i] \cap stops[j] = {}
  /\ \A k, l \in Callers : k # l => taken[k] \cap taken[l] = {}
  /\ registered \cap inHand = {}
  /\ (registered \cup inHand) \cap closed = {}

(* What is registered under an ID is the work of one Start of that ID: the *)
(* loops share a configuration, and between them sample each of its        *)
(* metrics once.                                                           *)
RegisteredIsOneGroup ==
  \A id \in Ids : stops[id] # {} =>
    \E h \in stops[id] : h.target.id = id /\ stops[id] = Group(h.gen, h.target)

(* A closed channel stays closed and a loop that ended does not come back: *)
(* the only loops that appear are those a Start spawned, open.             *)
NoResurrection ==
  [][ /\ closed \cap live' \subseteq closed'
      /\ (live' \ live) \cap closed' = {} ]_managerVars

(* Every loop whose channel was closed ends, however often its ticker wins *)
(* the select.                                                             *)
StoppedLoopsEnd == \A h \in Loops : h \in closed ~> h \notin live

(* A loop that is not stopped keeps probing.                               *)
OpenLoopsKeepProbing == \A h \in Loops : h \in live ~> (h \in probing \/ h \in closed)

(* The slice Stop took is closed to its end: Stop returns.                 *)
StopReturns == \A k \in Callers : taken[k] # {} ~> taken[k] = {}
=============================================================================
