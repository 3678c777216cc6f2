-------------------------------- MODULE Target --------------------------------
(***************************************************************************)
(* A monitored Minecraft server: what a request or config.json says of it, *)
(* the normalized form every stored and probed target has, and the probe   *)
(* loops a normalized target is given (internal/app/config.go, prober.go). *)
(*                                                                         *)
(* A target is a record with the fields                                    *)
(*    id, host, port                                                       *)
(*    interval, timeout, burst, gap, proto    the target-wide defaults     *)
(*    monitors    a function from Metrics to monitor records               *)
(* The display name plays no part in any decision and is left out.         *)
(***************************************************************************)
EXTENDS Integers

CONSTANTS
  Ids,                     \* target IDs that requests name or generateID returns
  DefaultProtocolVersion   \* 760 in the code

ASSUME DefaultProtocolAssumption == DefaultProtocolVersion \in Nat \ {0}

\* An ID that is empty or only white space, and a host likewise.
Blank == ""

ASSUME IdsAssumption == Blank \notin Ids

-----------------------------------------------------------------------------
(* The four things measured, and the settings of each. Only a probe monitor carries burst settings.  *)

ProbeMetrics == {"latency", "loss"}
Metrics == {"online", "players"} \cup ProbeMetrics

SimpleMonitor == [enabled : BOOLEAN, interval : Int]
ProbeMonitor == [enabled : BOOLEAN, interval : Int,
                 burst : Int, gap : Int, proto : Int]
MonitorOf(m) == IF m \in ProbeMetrics THEN ProbeMonitor ELSE SimpleMonitor

MonitorsType == {f \in [Metrics -> SimpleMonitor \cup ProbeMonitor] :
                   \A m \in Metrics : f[m] \in MonitorOf(m)}

(* A target as JSON decodes it, with an ID of the given set.               *)
TargetType(ids) ==
  [id : ids, host : STRING, port : Int,
   interval : Int, timeout : Int, burst : Int, gap : Int, proto : Int,
   monitors : MonitorsType]

PositiveOr(x, default) == IF x > 0 THEN x ELSE default
NonZeroOr(x, default) == IF x # 0 THEN x ELSE default

Enabled(t) == {m \in Metrics : t.monitors[m].enabled}

(* Mutant: only a monitor that is on counts as explicit.                   *)
explicitIfEnabled(t) == \E m \in Metrics : t.monitors[m].enabled

hasExplicitMonitors(t) ==
  \E m \in Metrics : t.monitors[m].enabled \/ t.monitors[m].interval > 0

(***************************************************************************)
(* Every missing monitor setting is inherited from the target. A target    *)
(* that says nothing of its monitors has all four switched on.             *)
(***************************************************************************)
normalizedMonitors(t) ==
  LET enabled(m) == t.monitors[m].enabled \/ ~hasExplicitMonitors(t)
      interval(m) == PositiveOr(t.monitors[m].interval, t.interval)
  IN [m \in Metrics |->
        IF m \in ProbeMetrics
          THEN [enabled  |-> enabled(m),
                interval |-> interval(m),
                burst    |-> PositiveOr(t.monitors[m].burst, t.burst),
                gap      |-> PositiveOr(t.monitors[m].gap, t.gap),
                proto    |-> NonZeroOr(t.monitors[m].proto, t.proto)]
          ELSE [enabled |-> enabled(m), interval |-> interval(m)]]

withDefaults(t) ==
  [t EXCEPT !.interval = PositiveOr(@, 60),
            !.timeout = PositiveOr(@, 1500),
            !.burst = PositiveOr(@, 5),
            !.gap = PositiveOr(@, 0),
            !.proto = NonZeroOr(@, DefaultProtocolVersion)]

(* Mutant: the monitors are filled in before the target's own defaults.    *)
monitorsFirst(t) == withDefaults([t EXCEPT !.monitors = normalizedMonitors(t)])

normalized(t) ==
  [withDefaults(t) EXCEPT !.monitors = normalizedMonitors(withDefaults(t))]

validate(t) == t.host # Blank /\ t.port \in 1..65535

-----------------------------------------------------------------------------
(* How a normalized target is probed.                                      *)

effectiveProbeProtocol(t, mon) ==
  IF mon.proto > 0 THEN mon.proto
  ELSE PositiveOr(t.proto, DefaultProtocolVersion)

canShareLatencyLoss(t) ==
  LET latency == t.monitors["latency"]
      loss    == t.monitors["loss"]
  IN /\ latency.enabled /\ loss.enabled
     /\ latency.interval = loss.interval
     /\ latency.burst = loss.burst
     /\ latency.gap = loss.gap
     /\ effectiveProbeProtocol(t, latency) = effectiveProbeProtocol(t, loss)

(* Mutant: the shared loop does not replace the single ones.               *)
LoopNamesOverlap(t) ==
  Enabled(t) \cup (IF canShareLatencyLoss(t) THEN {"latency-loss"} ELSE {})

(* The loops Manager.Start spawns, by the metric name it gives each.       *)
LoopNames(t) ==
  (Enabled(t) \ ProbeMetrics)
    \cup (IF canShareLatencyLoss(t) THEN {"latency-loss"}
                                    ELSE Enabled(t) \cap ProbeMetrics)

(* The metrics one pass of a loop stores a sample of.                      *)
MetricsOf(name) == IF name = "latency-loss" THEN ProbeMetrics ELSE {name}

(* What one burst of a probe monitor sends: runProbeBurst's own reading of *)
(* the monitor's settings.                                                 *)
runProbeBurst(t, mon) ==
  [host    |-> t.host,
   port    |-> t.port,
   timeout |-> PositiveOr(t.timeout, 1500),
   probes  |-> PositiveOr(mon.burst, 5),
   gap     |-> PositiveOr(mon.gap, 0),
   proto   |-> NonZeroOr(mon.proto, effectiveProbeProtocol(t, mon))]
=============================================================================
