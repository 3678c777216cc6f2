-------------------------- MODULE TargetLifecycleProofs --------------------------
(***************************************************************************)
(* For every set of requests and every default protocol: a saved target is *)
(* in normal form, so that the later normalizations change nothing.        *)
(***************************************************************************)
EXTENDS TargetLifecycle, TargetTheorems

RawType == TargetType(Ids \cup {Blank})

(* The inductive invariant: what is stored is fixed by normalization, and  *)
(* what runs is what is stored.                                            *)
StoredInNormalForm ==
  /\ request \in RawType
  /\ stored # None => stored \in RawType /\ NormalForm(stored)
  /\ RunsWhatIsStored

LEMMA RequestStored ==
  ASSUME NEW t \in RawType
  PROVE  /\ normalized(t) \in RawType /\ NormalForm(normalized(t))
         /\ normalized(t) # None
         /\ NormalForm(t) => normalized(t) = t
BY NormalizedUsable, NormalFormIsFixed, LifecycleAssumption DEF RawType

LEMMA StepKeepsNormalForm == StoredInNormalForm /\ [Next]_vars => StoredInNormalForm'
<1> SUFFICES ASSUME StoredInNormalForm, [Next]_vars
             PROVE  StoredInNormalForm'
  OBVIOUS
<1> USE DEF StoredInNormalForm, RunsWhatIsStored
<1>1. CASE Save
  BY <1>1, RequestStored DEF Save
<1>2. CASE Launch
  BY <1>2, RequestStored DEF Launch
<1>3. CASE Reopen
  BY <1>3, RequestStored DEF Reopen
<1>4. CASE LoadByHand
  BY <1>4, RequestStored DEF LoadByHand
<1>5. CASE UNCHANGED vars
  BY <1>5 DEF vars
<1>6. QED  BY <1>1, <1>2, <1>3, <1>4, <1>5 DEF Next

LEMMA InitNormalForm == Init => StoredInNormalForm
BY LifecycleAssumption DEF Init, StoredInNormalForm, RunsWhatIsStored, RawType

(* The loops run what is stored (Manager.Start, openConfigStore).          *)
THEOREM LoopsRunWhatIsStored == Spec => []RunsWhatIsStored
<1>1. StoredInNormalForm => RunsWhatIsStored
  BY DEF StoredInNormalForm
<1>2. QED  BY <1>1, InitNormalForm, StepKeepsNormalForm, PTL DEF Spec

(* No step of the program changes a saved target, restarts included.       *)
THEOREM SavedTargetIsStable == Spec => StoredIsStable
<1>1. StoredInNormalForm /\ [Next]_vars => [stored # None => stored' = stored]_vars
  <2> SUFFICES ASSUME StoredInNormalForm, Next, stored # None
               PROVE  stored' = stored
    BY DEF vars
  <2>1. CASE Save
    BY <2>1 DEF Save
  <2>2. CASE Launch
    BY <2>2 DEF Launch
  <2>3. CASE Reopen
    BY <2>3, RequestStored DEF Reopen, StoredInNormalForm
  <2>4. CASE LoadByHand
    BY <2>4 DEF LoadByHand
  <2>5. QED  BY <2>1, <2>2, <2>3, <2>4 DEF Next
<1>2. QED  BY <1>1, InitNormalForm, StepKeepsNormalForm, PTL DEF Spec, StoredIsStable

(* Every setting a loop uses is usable, for any request.                   *)
THEOREM StoredSettingsUsable == Spec => []SettingsUsable
<1>1. StoredInNormalForm => SettingsUsable
  BY DEF StoredInNormalForm, SettingsUsable, NormalForm, Usable
<1>2. QED  BY <1>1, InitNormalForm, StepKeepsNormalForm, PTL DEF Spec

(* The loops of any target share out its enabled metrics.                  *)
LEMMA LoopsShareOut ==
  ASSUME NEW t
  PROVE  /\ \A m \in Enabled(t) :
              \E n \in LoopNames(t) :
                /\ m \in MetricsOf(n)
                /\ \A o \in LoopNames(t) \ {n} : m \notin MetricsOf(o)
         /\ \A n \in LoopNames(t) : MetricsOf(n) \subseteq Enabled(t)
<1>1. /\ Enabled(t) \subseteq Metrics /\ "latency-loss" \notin Metrics
      /\ \A m \in Metrics : MetricsOf(m) = {m}
      /\ MetricsOf("latency-loss") = ProbeMetrics
  BY DEF Enabled, Metrics, ProbeMetrics, MetricsOf
<1>2. CASE canShareLatencyLoss(t)
  <2>1. ProbeMetrics \subseteq Enabled(t)
    BY <1>2 DEF canShareLatencyLoss, ProbeMetrics, Metrics, Enabled
  <2>2. LoopNames(t) = (Enabled(t) \ ProbeMetrics) \cup {"latency-loss"}
    BY <1>2 DEF LoopNames
  <2>3. ASSUME NEW m \in ProbeMetrics, NEW o \in LoopNames(t) \ {"latency-loss"}
        PROVE  m \notin MetricsOf(o)
    BY <1>1, <2>2
  <2>4. ASSUME NEW m \in Enabled(t) \ ProbeMetrics, NEW o \in LoopNames(t) \ {m}
        PROVE  m \notin MetricsOf(o)
    BY <1>1, <2>2
  <2>5. ASSUME NEW m \in Enabled(t)
        PROVE  \E n \in LoopNames(t) :
                 /\ m \in MetricsOf(n)
                 /\ \A o \in LoopNames(t) \ {n} : m \notin MetricsOf(o)
    <3>1. CASE m \in ProbeMetrics
      <4>1. "latency-loss" \in LoopNames(t) /\ m \in MetricsOf("latency-loss")
        BY <1>1, <2>2, <3>1
      <4>2. QED  BY <2>3, <3>1, <4>1
    <3>2. CASE m \notin ProbeMetrics
      <4>1. m \in LoopNames(t) /\ m \in MetricsOf(m)
        BY <1>1, <2>2, <3>2
      <4>2. QED  BY <2>4, <3>2, <4>1
    <3>3. QED  BY <3>1, <3>2
  <2>6. \A n \in LoopNames(t) : MetricsOf(n) \subseteq Enabled(t)
    BY <1>1, <2>1, <2>2
  <2>7. QED  BY <2>5, <2>6
<1>3. CASE ~canShareLatencyLoss(t)
  <2>1. LoopNames(t) = Enabled(t)
    BY <1>3 DEF LoopNames
  <2>2. QED  BY <1>1, <2>1
<1>4. QED  BY <1>2, <1>3

(* Normalization fills in what is missing and leaves what is there.        *)
LEMMA ExplicitIsKept ==
  ASSUME NEW t \in RawType
  PROVE  /\ \A m \in Metrics : t.monitors[m].interval > 0 =>
              normalized(t).monitors[m].interval = t.monitors[m].interval
         /\ \A m \in ProbeMetrics : t.monitors[m].burst > 0 =>
              normalized(t).monitors[m].burst = t.monitors[m].burst
         /\ hasExplicitMonitors(t) => Enabled(normalized(t)) = Enabled(t)
<1> DEFINE u == withDefaults(t)
           ms == normalizedMonitors(u)
<1>1. u \in RawType /\ Usable(u) /\ u.monitors = t.monitors
  BY DefaultsUsable DEF RawType
<1>2. t.monitors \in MonitorsType
  BY DEF RawType, TargetType
<1>3. normalized(t).monitors = ms
  <2>1. normalized(t) = [u EXCEPT !.monitors = ms]
    BY DEF normalized
  <2> HIDE DEF u, ms
  <2>2. QED  BY <1>1, <2>1 DEF RawType, TargetType
<1>4. hasExplicitMonitors(u) <=> hasExplicitMonitors(t)
  BY <1>1 DEF hasExplicitMonitors
<1> HIDE DEF u
<1>5. ASSUME NEW m \in Metrics
      PROVE  /\ t.monitors[m].interval > 0 => ms[m].interval = t.monitors[m].interval
             /\ hasExplicitMonitors(t) => (ms[m].enabled <=> t.monitors[m].enabled)
  <2>1. CASE m \in ProbeMetrics
    <3>1. t.monitors[m] \in ProbeMonitor
      BY <1>2, <2>1 DEF MonitorsType, MonitorOf
    <3>2. QED
      BY <1>1, <1>4, <2>1, <3>1 DEF normalizedMonitors, PositiveOr, ProbeMonitor
  <2>2. CASE m \notin ProbeMetrics
    <3>1. t.monitors[m] \in SimpleMonitor
      BY <1>2, <2>2 DEF MonitorsType, MonitorOf
    <3>2. QED
      BY <1>1, <1>4, <2>2, <3>1 DEF normalizedMonitors, PositiveOr, SimpleMonitor
  <2>3. QED  BY <2>1, <2>2
<1>6. ASSUME NEW m \in ProbeMetrics
      PROVE  t.monitors[m].burst > 0 => ms[m].burst = t.monitors[m].burst
  <2>1. m \in Metrics
    BY DEF Metrics
  <2>2. QED  BY <1>1, <2>1 DEF normalizedMonitors, PositiveOr
<1> HIDE DEF ms
<1>7. QED  BY <1>3, <1>5, <1>6 DEF Enabled

(* What is stored is what the client sent, normalized.                     *)
StoredIsRequest == stored # None => stored = normalized(request)

LEMMA StepKeepsRequest ==
  StoredInNormalForm /\ StoredIsRequest /\ [Next]_vars => StoredIsRequest'
<1> SUFFICES ASSUME StoredInNormalForm, StoredIsRequest, [Next]_vars
             PROVE  StoredIsRequest'
  OBVIOUS
<1>1. CASE Reopen
  BY <1>1, RequestStored DEF Reopen, StoredIsRequest, StoredInNormalForm
<1>2. CASE Save \/ Launch \/ LoadByHand \/ UNCHANGED vars
  BY <1>2 DEF Save, Launch, LoadByHand, vars, StoredIsRequest
<1>3. QED  BY <1>1, <1>2 DEF Next

(* What a client sets is stored as it was sent, and a request that says    *)
(* something of its monitors has none switched on or off for it, over any  *)
(* number of loads and starts (Target.normalized, config.go:48-137).       *)
THEOREM ChoicesAreKept == Spec => []ExplicitSettingsKept
<1>1. Init => StoredIsRequest
  BY DEF Init, StoredIsRequest
<1>2. StoredInNormalForm /\ StoredIsRequest => ExplicitSettingsKept
  <2> SUFFICES ASSUME StoredInNormalForm, StoredIsRequest, stored # None
               PROVE  ExplicitSettingsKept
    BY DEF ExplicitSettingsKept
  <2>1. request \in RawType /\ stored = normalized(request)
    BY DEF StoredInNormalForm, StoredIsRequest
  <2>2. QED
    BY <2>1, ExplicitIsKept DEF ExplicitSettingsKept, hasExplicitMonitors
<1>3. QED
  BY <1>1, <1>2, InitNormalForm, StepKeepsNormalForm, StepKeepsRequest, PTL DEF Spec

(* Each enabled metric is sampled by exactly one loop of Manager.Start and *)
(* no other metric is sampled, whatever the settings (prober.go:53-74).    *)
THEOREM MetricsAreSharedOut == Spec => []OneLoopPerMetric
<1>1. OneLoopPerMetric
  BY LoopsShareOut DEF OneLoopPerMetric
<1>2. QED  BY <1>1, PTL
=============================================================================
