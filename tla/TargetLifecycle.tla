---------------------------- MODULE TargetLifecycle ----------------------------
(***************************************************************************)
(* The life of one target's settings: a request is normalized when it is   *)
(* saved, again each time the process opens its config, and again when the *)
(* prober starts its loops. Clients also send a saved target back as they  *)
(* read it. All four go through the same function, so the program is only  *)
(* right if that function is stable and the loops partition the work.      *)
(***************************************************************************)
EXTENDS Target

CONSTANTS
  Requests,   \* the targets clients send, or an administrator writes by hand
  None        \* no target saved yet, or no loops running

ASSUME LifecycleAssumption ==
  /\ \A t \in Requests : t \in TargetType(Ids \cup {Blank})
  /\ None \notin TargetType(Ids \cup {Blank})

VARIABLES
  request,    \* the target as it was sent
  stored,     \* the ConfigStore's copy
  running     \* the copy the loops' closures captured

vars == <<request, stored, running>>

Init == /\ request \in Requests
        /\ stored = None
        /\ running = None

(* ConfigStore.Upsert of the request; a refused one changes nothing.       *)
Save == /\ stored = None
        /\ validate(request)
        /\ stored' = normalized(request)
        /\ UNCHANGED <<request, running>>

(* Manager.Start of the stored target.                                     *)
Launch == /\ stored # None
          /\ running' = normalized(stored)
          /\ UNCHANGED <<request, stored>>

(* A restart: openConfigStore normalizes what it loads, no loop runs yet.  *)
Reopen == /\ stored # None
          /\ stored' = normalized(stored)
          /\ running' = None
          /\ UNCHANGED request

(* A hand-edited file is normalized without being validated.               *)
LoadByHand == /\ stored = None
              /\ stored' = normalized(request)
              /\ UNCHANGED <<request, running>>

Next == Save \/ Launch \/ Reopen \/ LoadByHand

Spec == Init /\ [][Next]_vars

-----------------------------------------------------------------------------
(* What the loops run is exactly what is stored, over any number of        *)
(* restarts: Manager.Start and openConfigStore normalize again what        *)
(* ConfigStore.Upsert already normalized, and must change nothing.         *)
RunsWhatIsStored == running # None => running = stored

(* Once saved, a target never changes by itself: in particular a monitor   *)
(* that was switched off is not switched on again by the "no explicit      *)
(* monitors" rule of a later load.                                         *)
StoredIsStable == [][stored # None => stored' = stored]_vars

(* Every setting a loop uses is usable: no zero interval (time.NewTicker   *)
(* panics on one), no empty burst, no negative gap, no missing protocol.   *)
SettingsUsable ==
  stored # None =>
    /\ stored.timeout > 0
    /\ \A m \in Metrics : stored.monitors[m].interval > 0
    /\ \A m \in ProbeMetrics : LET mon == stored.monitors[m]
                               IN mon.burst > 0 /\ mon.gap >= 0 /\ mon.proto # 0

(* An explicit choice survives: whatever the client sets to a positive     *)
(* value is stored as sent, whatever else is inherited, and only a request *)
(* that says nothing of its monitors has any of them switched on for it.   *)
ExplicitSettingsKept ==
  stored # None =>
    /\ \A m \in Metrics : request.monitors[m].interval > 0 =>
         stored.monitors[m].interval = request.monitors[m].interval
    /\ \A m \in ProbeMetrics : request.monitors[m].burst > 0 =>
         stored.monitors[m].burst = request.monitors[m].burst
    /\ (\E m \in Metrics : LET mon == request.monitors[m]
                           IN mon.enabled \/ mon.interval > 0)
         => Enabled(stored) = Enabled(request)

(* The loops Manager.Start spawns share out the enabled metrics: each is   *)
(* sampled by exactly one loop, and no loop samples a disabled one.        *)
OneLoopPerMetric ==
  running # None =>
    /\ \A m \in Enabled(running) :
         \E n \in LoopNames(running) :
           /\ m \in MetricsOf(n)
           /\ \A o \in LoopNames(running) \ {n} : m \notin MetricsOf(o)
    /\ \A n \in LoopNames(running) : MetricsOf(n) \subseteq Enabled(running)

(* A burst shared by latency and loss is the burst each of them would have *)
(* run alone: what config_test.go says of canShareLatencyLoss, "different  *)
(* effective protocol versions must not share a probe burst".              *)
SharedBurstIsBoth ==
  (running # None /\ canShareLatencyLoss(running)) =>
    runProbeBurst(running, running.monitors["latency"])
      = runProbeBurst(running, running.monitors["loss"])
=============================================================================
