----------------------------- MODULE ManagerProofs -----------------------------
(***************************************************************************)
(* The safety of the prober manager, for any targets, generations and      *)
(* callers. The conjunction of the four invariants is inductive: that a    *)
(* loop with an open channel has a holder needs that it has only one, and  *)
(* both need that the loops of a Start are new.                            *)
(***************************************************************************)
EXTENDS Manager, TargetTheorems

ManagerInv == /\ ManagerTypeOK
              /\ NoOrphanLoop
              /\ ClosedOnce
              /\ RegisteredIsOneGroup

(* Membership in the two unions, in the words of a caller or of an ID.     *)
LEMMA Held ==
  /\ \A h : h \in registered <=> \E id \in Ids : h \in stops[id]
  /\ \A h : h \in inHand <=> \E k \in Callers : h \in taken[k]
BY DEF registered, inHand

LEMMA HeldNext ==
  /\ \A h : h \in registered' <=> \E id \in Ids : h \in stops'[id]
  /\ \A h : h \in inHand' <=> \E k \in Callers : h \in taken'[k]
BY DEF registered, inHand

(* The loops of a Start carry a generation that no other loop has.         *)
LEMMA FreshGroup ==
  ASSUME NEW t \in Targets, NEW g \in FreshGens
  PROVE  /\ normalized(t).id \in Ids
         /\ Group(g, normalized(t)) \subseteq Loops
         /\ Group(g, normalized(t)) \cap (live \cup registered \cup inHand) = {}
         /\ \A h \in Group(g, normalized(t)) :
              h.gen = g /\ h.target = normalized(t)
<1>1. normalized(t) \in TargetType(Ids)
  BY NormalizedUsable, ManagerAssumption
<1>2. normalized(t).id \in Ids
  BY <1>1 DEF TargetType
<1>3. \A h \in Group(g, normalized(t)) : h.gen = g /\ h.target = normalized(t)
  BY DEF Group
<1>4. Group(g, normalized(t)) \subseteq Loops
  BY DEF Loops, FreshGens
<1>5. Group(g, normalized(t)) \cap (live \cup registered \cup inHand) = {}
  BY <1>3 DEF FreshGens
<1>6. QED  BY <1>2, <1>3, <1>4, <1>5

-----------------------------------------------------------------------------
LEMMA StartKeeps ==
  ASSUME ManagerInv, NEW t \in Targets, Start(t)
  PROVE  ManagerInv'
<1> DEFINE target == normalized(t)
           old == stops[target.id]
<1>1. PICK g \in FreshGens :
        /\ closed' = closed \cup old
        /\ stops' = [stops EXCEPT ![target.id] = Group(g, target)]
        /\ probing' = probing \cup Group(g, target)
        /\ waiting' = waiting /\ taken' = taken
  BY DEF Start
<1> DEFINE new == Group(g, target)
<1>2. /\ target.id \in Ids
      /\ new \subseteq Loops
      /\ new \cap (live \cup registered \cup inHand) = {}
      /\ \A h \in new : h.gen = g /\ h.target = target
  BY FreshGroup
<1> HIDE DEF target, new
<1>3. /\ stops'[target.id] = new
      /\ \A id \in Ids \ {target.id} : stops'[id] = stops[id]
      /\ stops' \in [Ids -> SUBSET Loops]
  BY <1>1, <1>2 DEF new, ManagerInv, ManagerTypeOK
<1>4. old \subseteq registered /\ old \cap inHand = {} /\ old \cap closed = {}
  BY <1>2, Held DEF ManagerInv, ClosedOnce
<1>5. \A id \in Ids : stops[id] \cap new = {}
  BY <1>2, Held
<1>6. registered' = (registered \ old) \cup new
  <2>1. \A id \in Ids \ {target.id} : stops[id] \cap old = {}
    BY <1>2 DEF ManagerInv, ClosedOnce
  <2>2. QED  BY <1>2, <1>3, <1>5, <2>1, Held, HeldNext
<1>7. inHand' = inHand
  BY <1>1 DEF inHand
<1>8. live' = live \cup new
  BY <1>1 DEF live, new
<1>9. ManagerTypeOK'
  <2>1. closed' \subseteq live'
    BY <1>1, <1>4, <1>8 DEF ManagerInv, ManagerTypeOK, NoOrphanLoop
  <2>2. probing' \cap waiting' = {}
    BY <1>1, <1>2 DEF ManagerInv, ManagerTypeOK, live, new
  <2>3. QED  BY <1>1, <1>2, <1>3, <2>1, <2>2 DEF ManagerInv, ManagerTypeOK, new
<1>10. NoOrphanLoop'
  <2>1. closed \subseteq live /\ live \ closed = registered \cup inHand
    BY DEF ManagerInv, ManagerTypeOK, NoOrphanLoop
  <2>2. live' \ closed' = (registered \ old) \cup new \cup inHand
    BY <1>1, <1>2, <1>4, <1>8, <2>1
  <2>3. QED  BY <2>2, <1>6, <1>7 DEF NoOrphanLoop
<1>11. ClosedOnce'
  <2>1. \A i, j \in Ids : i # j => stops'[i] \cap stops'[j] = {}
    BY <1>3, <1>5 DEF ManagerInv, ClosedOnce
  <2>2. registered' \cap inHand' = {}
    BY <1>2, <1>6, <1>7 DEF ManagerInv, ClosedOnce
  <2>3. (registered' \cup inHand') \cap closed' = {}
    BY <1>1, <1>2, <1>4, <1>6, <1>7 DEF ManagerInv, ManagerTypeOK, ClosedOnce
  <2>4. QED  BY <1>1, <2>1, <2>2, <2>3 DEF ManagerInv, ClosedOnce
<1>12. RegisteredIsOneGroup'
  <2> SUFFICES ASSUME NEW id \in Ids, stops'[id] # {}
               PROVE  \E h \in stops'[id] : /\ h.target.id = id
                                            /\ stops'[id] = Group(h.gen, h.target)
    BY DEF RegisteredIsOneGroup
  <2>1. CASE id = target.id
    <3>1. PICK h \in new : TRUE
      BY <1>3, <2>1
    <3>2. new = Group(h.gen, h.target)
      BY <1>2, <3>1 DEF new
    <3>3. QED  BY <1>2, <1>3, <2>1, <3>1, <3>2
  <2>2. CASE id # target.id
    BY <1>3, <2>2 DEF ManagerInv, RegisteredIsOneGroup
  <2>3. QED  BY <2>1, <2>2
<1>13. QED  BY <1>9, <1>10, <1>11, <1>12 DEF ManagerInv

LEMMA StopTakeKeeps ==
  ASSUME ManagerInv, NEW k \in Callers, NEW id \in Ids, StopTake(k, id)
  PROVE  ManagerInv'
<1>1. /\ taken[k] = {} /\ taken' = [taken EXCEPT ![k] = stops[id]]
      /\ stops' = [stops EXCEPT ![id] = {}]
      /\ probing' = probing /\ waiting' = waiting /\ closed' = closed
      /\ live' = live
  BY DEF StopTake, live
<1>2. /\ taken'[k] = stops[id] /\ \A l \in Callers \ {k} : taken'[l] = taken[l]
      /\ stops'[id] = {} /\ \A i \in Ids \ {id} : stops'[i] = stops[i]
  BY <1>1 DEF ManagerInv, ManagerTypeOK
<1>3. stops[id] \subseteq registered /\ stops[id] \cap inHand = {}
  BY Held DEF ManagerInv, ClosedOnce
<1>4. registered' = registered \ stops[id]
  <2>1. \A i \in Ids \ {id} : stops[i] \cap stops[id] = {}
    BY DEF ManagerInv, ClosedOnce
  <2>2. QED  BY <1>2, <2>1, Held, HeldNext
<1>5. inHand' = inHand \cup stops[id]
  BY <1>1, <1>2, Held, HeldNext
<1>6. ManagerTypeOK'
  BY <1>1 DEF ManagerInv, ManagerTypeOK
<1>7. NoOrphanLoop'
  BY <1>1, <1>3, <1>4, <1>5 DEF ManagerInv, NoOrphanLoop
<1>8. ClosedOnce'
  <2>1. \A i, j \in Ids : i # j => stops'[i] \cap stops'[j] = {}
    BY <1>2 DEF ManagerInv, ClosedOnce
  <2>2. \A j, l \in Callers : j # l => taken'[j] \cap taken'[l] = {}
    BY <1>2, <1>3, Held DEF ManagerInv, ClosedOnce
  <2>3. registered' \cap inHand' = {}
    BY <1>4, <1>5 DEF ManagerInv, ClosedOnce
  <2>4. (registered' \cup inHand') \cap closed' = {}
    BY <1>1, <1>3, <1>4, <1>5 DEF ManagerInv, ClosedOnce
  <2>5. QED  BY <2>1, <2>2, <2>3, <2>4 DEF ClosedOnce
<1>9. RegisteredIsOneGroup'
  BY <1>2 DEF ManagerInv, RegisteredIsOneGroup
<1>10. QED  BY <1>6, <1>7, <1>8, <1>9 DEF ManagerInv

LEMMA StopCloseKeeps ==
  ASSUME ManagerInv, NEW k \in Callers, NEW h \in taken[k], StopClose(k, h)
  PROVE  ManagerInv'
<1>1. /\ taken' = [taken EXCEPT ![k] = @ \ {h}]
      /\ closed' = closed \cup {h}
      /\ stops' = stops /\ probing' = probing /\ waiting' = waiting
      /\ live' = live /\ registered' = registered
  BY DEF StopClose, live, registered
<1>2. taken'[k] = taken[k] \ {h} /\ \A l \in Callers \ {k} : taken'[l] = taken[l]
  BY <1>1 DEF ManagerInv, ManagerTypeOK
<1>3. h \in inHand /\ h \notin registered
  BY Held DEF ManagerInv, ClosedOnce
<1>4. inHand' = inHand \ {h}
  <2>1. \A l \in Callers \ {k} : h \notin taken[l]
    BY DEF ManagerInv, ClosedOnce
  <2>2. QED  BY <1>2, <2>1, Held, HeldNext
<1>5. ManagerTypeOK'
  <2>1. h \in live
    BY <1>3 DEF ManagerInv, NoOrphanLoop
  <2>2. QED  BY <1>1, <2>1 DEF ManagerInv, ManagerTypeOK
<1>6. NoOrphanLoop'
  BY <1>1, <1>3, <1>4 DEF ManagerInv, NoOrphanLoop
<1>7. ClosedOnce'
  <2>1. \A j, l \in Callers : j # l => taken'[j] \cap taken'[l] = {}
    BY <1>2 DEF ManagerInv, ClosedOnce
  <2>2. registered' \cap inHand' = {}
    BY <1>1, <1>4 DEF ManagerInv, ClosedOnce
  <2>3. (registered' \cup inHand') \cap closed' = {}
    BY <1>1, <1>3, <1>4 DEF ManagerInv, ClosedOnce
  <2>4. QED  BY <1>1, <2>1, <2>2, <2>3 DEF ManagerInv, ClosedOnce
<1>8. RegisteredIsOneGroup'
  BY <1>1 DEF ManagerInv, RegisteredIsOneGroup
<1>9. QED  BY <1>5, <1>6, <1>7, <1>8 DEF ManagerInv

LEMMA LoopStepKeeps ==
  ASSUME ManagerInv, NEW h \in live, LoopStep(h)
  PROVE  ManagerInv'
<1>1. /\ stops' = stops /\ taken' = taken
      /\ registered' = registered /\ inHand' = inHand
  BY DEF LoopStep, ProbeDone, Tick, LoopExit, registered, inHand
<1>2. RegisteredIsOneGroup'
  BY <1>1 DEF ManagerInv, RegisteredIsOneGroup
<1>3. CASE ProbeDone(h) \/ Tick(h)
  <2>1. live' = live /\ closed' = closed
    BY <1>3 DEF ProbeDone, Tick, live
  <2>2. ManagerTypeOK'
    BY <1>1, <1>3, <2>1 DEF ManagerInv, ManagerTypeOK, ProbeDone, Tick
  <2>3. NoOrphanLoop' /\ ClosedOnce'
    BY <1>1, <2>1 DEF ManagerInv, NoOrphanLoop, ClosedOnce
  <2>4. QED  BY <1>2, <2>2, <2>3 DEF ManagerInv
<1>4. CASE LoopExit(h)
  <2>1. live' = live \ {h} /\ closed' = closed \ {h} /\ h \in closed
    BY <1>4 DEF ManagerInv, ManagerTypeOK, LoopExit, live
  <2>2. ManagerTypeOK'
    BY <1>1, <1>4, <2>1 DEF ManagerInv, ManagerTypeOK, LoopExit
  <2>3. NoOrphanLoop' /\ ClosedOnce'
    BY <1>1, <2>1 DEF ManagerInv, NoOrphanLoop, ClosedOnce
  <2>4. QED  BY <1>2, <2>2, <2>3 DEF ManagerInv
<1>5. QED  BY <1>3, <1>4 DEF LoopStep

LEMMA ManagerInitInv == ManagerInit => ManagerInv
<1> SUFFICES ASSUME ManagerInit  PROVE ManagerInv
  OBVIOUS
<1>1. registered = {} /\ inHand = {} /\ live = {}
  BY DEF ManagerInit, registered, inHand, live
<1>2. QED
  BY <1>1 DEF ManagerInit, ManagerInv, ManagerTypeOK, NoOrphanLoop, ClosedOnce,
              RegisteredIsOneGroup

LEMMA ManagerNextInv == ManagerInv /\ [ManagerNext]_managerVars => ManagerInv'
<1> SUFFICES ASSUME ManagerInv, [ManagerNext]_managerVars  PROVE ManagerInv'
  OBVIOUS
<1>1. CASE UNCHANGED managerVars
  BY <1>1 DEF managerVars, ManagerInv, ManagerTypeOK, NoOrphanLoop, ClosedOnce,
              RegisteredIsOneGroup, live, registered, inHand
<1>2. CASE ManagerNext
  BY <1>2, StartKeeps, StopTakeKeeps, StopCloseKeeps, LoopStepKeeps
     DEF ManagerNext
<1>3. QED  BY <1>1, <1>2

-----------------------------------------------------------------------------
(* Every variable of the manager keeps its type, and no loop is in its     *)
(* probe and in its select at once.                                        *)
THEOREM ManagerTypeCorrect == ManagerSpec => []ManagerTypeOK
BY ManagerInitInv, ManagerNextInv, PTL DEF ManagerSpec, ManagerInv

(* A running loop can always be stopped (prober.go:41-44).                 *)
THEOREM NoLoopIsOrphaned == ManagerSpec => []NoOrphanLoop
BY ManagerInitInv, ManagerNextInv, PTL DEF ManagerSpec, ManagerInv

(* Start and Stop never close a channel a second time (prober.go:45-47,    *)
(* 77-79), though Stop closes after it unlocks.                            *)
THEOREM ChannelsAreClosedOnce == ManagerSpec => []ClosedOnce
BY ManagerInitInv, ManagerNextInv, PTL DEF ManagerSpec, ManagerInv

(* The registered loops of a target share one configuration and sample     *)
(* each of its metrics once (prober.go:39-67).                             *)
THEOREM OneGroupIsRegistered == ManagerSpec => []RegisteredIsOneGroup
BY ManagerInitInv, ManagerNextInv, PTL DEF ManagerSpec, ManagerInv

LEMMA StepResurrectsNone ==
  ASSUME ManagerInv, ManagerNext
  PROVE  /\ closed \cap live' \subseteq closed'
         /\ (live' \ live) \cap closed' = {}
<1>1. ASSUME NEW t \in Targets, Start(t)
      PROVE  /\ closed \cap live' \subseteq closed'
             /\ (live' \ live) \cap closed' = {}
  <2>1. closed \subseteq closed'
    BY <1>1 DEF Start
  <2>2. closed' \subseteq live
    <3>1. closed' = closed \cup stops[normalized(t).id]
      BY <1>1 DEF Start
    <3>2. stops[normalized(t).id] \subseteq registered
      BY <1>1, FreshGroup, Held DEF Start
    <3>3. QED  BY <3>1, <3>2 DEF ManagerInv, ManagerTypeOK, NoOrphanLoop
  <2>3. QED  BY <2>1, <2>2
<1>2. ASSUME NEW k \in Callers, NEW id \in Ids, StopTake(k, id)
      PROVE  live' = live /\ closed' = closed
  BY <1>2 DEF StopTake, live
<1>3. ASSUME NEW k \in Callers, NEW h \in taken[k], StopClose(k, h)
      PROVE  live' = live /\ closed \subseteq closed'
  BY <1>3 DEF StopClose, live
<1>4. ASSUME NEW h \in live, LoopStep(h)
      PROVE  live' \subseteq live /\ closed \cap live' \subseteq closed'
  <2>1. CASE ProbeDone(h) \/ Tick(h)
    BY <2>1 DEF ProbeDone, Tick, live
  <2>2. CASE LoopExit(h)
    BY <2>2 DEF ManagerInv, ManagerTypeOK, LoopExit, live
  <2>3. QED  BY <1>4, <2>1, <2>2 DEF LoopStep
<1>5. QED  BY <1>1, <1>2, <1>3, <1>4 DEF ManagerNext

(* No step reopens a channel or brings a loop back that has ended.         *)
THEOREM LoopsStayStopped == ManagerSpec => NoResurrection
<1>1. ManagerInv /\ [ManagerNext]_managerVars =>
        [ /\ closed \cap live' \subseteq closed'
          /\ (live' \ live) \cap closed' = {} ]_managerVars
  BY StepResurrectsNone
<1>2. QED
  BY <1>1, ManagerInitInv, ManagerNextInv, PTL DEF ManagerSpec, NoResurrection
=============================================================================
