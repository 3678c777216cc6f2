----------------------------- MODULE TargetTheorems -----------------------------
(***************************************************************************)
(* Facts about the normalization of a target, for every target and every   *)
(* default protocol. The proofs of the other components cite them.         *)
(***************************************************************************)
EXTENDS Target, TLAPS

(* The target-wide settings can be used as they are.                       *)
Usable(u) == /\ u.interval > 0 /\ u.timeout > 0 /\ u.burst > 0
             /\ u.gap >= 0 /\ u.proto # 0

(* The defaults make them so, whatever the target holds.                   *)
LEMMA DefaultsUsable ==
  ASSUME NEW S, NEW t \in TargetType(S)
  PROVE  /\ withDefaults(t) \in TargetType(S)
         /\ Usable(withDefaults(t))
         /\ withDefaults(t).id = t.id
         /\ withDefaults(t).monitors = t.monitors
<1> DEFINE u == withDefaults(t)
<1>1. /\ t.interval \in Int /\ t.timeout \in Int /\ t.burst \in Int
      /\ t.gap \in Int /\ t.proto \in Int
  BY DEF TargetType
<1>2. /\ PositiveOr(t.interval, 60) \in Int /\ PositiveOr(t.interval, 60) > 0
      /\ PositiveOr(t.timeout, 1500) \in Int /\ PositiveOr(t.timeout, 1500) > 0
      /\ PositiveOr(t.burst, 5) \in Int /\ PositiveOr(t.burst, 5) > 0
      /\ PositiveOr(t.gap, 0) \in Int /\ PositiveOr(t.gap, 0) >= 0
  BY <1>1 DEF PositiveOr
<1>3. /\ NonZeroOr(t.proto, DefaultProtocolVersion) \in Int
      /\ NonZeroOr(t.proto, DefaultProtocolVersion) # 0
  BY <1>1, DefaultProtocolAssumption DEF NonZeroOr
<1>4. /\ u \in TargetType(S)
      /\ u.interval = PositiveOr(t.interval, 60)
      /\ u.timeout = PositiveOr(t.timeout, 1500)
      /\ u.burst = PositiveOr(t.burst, 5)
      /\ u.gap = PositiveOr(t.gap, 0)
      /\ u.proto = NonZeroOr(t.proto, DefaultProtocolVersion)
      /\ u.id = t.id /\ u.monitors = t.monitors
  <2> DEFINE i == PositiveOr(t.interval, 60)
             o == PositiveOr(t.timeout, 1500)
             b == PositiveOr(t.burst, 5)
             g == PositiveOr(t.gap, 0)
             p == NonZeroOr(t.proto, DefaultProtocolVersion)
             u2 == [t EXCEPT !.interval = i, !.timeout = o]
             u4 == [u2 EXCEPT !.burst = b, !.gap = g]
  <2>1. u = [u4 EXCEPT !.proto = p]
    BY DEF withDefaults
  <2>2. i \in Int /\ o \in Int /\ b \in Int /\ g \in Int /\ p \in Int
    BY <1>2, <1>3
  <2> HIDE DEF u, i, o, b, g, p
  <2>3. /\ u2 \in TargetType(S) /\ u2.interval = i /\ u2.timeout = o
        /\ u2.id = t.id /\ u2.monitors = t.monitors
    BY <2>2 DEF TargetType
  <2> HIDE DEF u2
  <2>4. /\ u4 \in TargetType(S) /\ u4.interval = i /\ u4.timeout = o
        /\ u4.burst = b /\ u4.gap = g /\ u4.id = t.id /\ u4.monitors = t.monitors
    BY <2>2, <2>3 DEF TargetType
  <2> HIDE DEF u4
  <2>5. /\ u \in TargetType(S) /\ u.interval = i /\ u.timeout = o
        /\ u.burst = b /\ u.gap = g /\ u.proto = p
        /\ u.id = t.id /\ u.monitors = t.monitors
    BY <2>1, <2>2, <2>4 DEF TargetType
  <2>6. QED  BY <2>5 DEF i, o, b, g, p
<1>5. QED  BY <1>2, <1>3, <1>4 DEF Usable

(* What normalizedMonitors makes of each monitor.                          *)
LEMMA MonitorSettings ==
  ASSUME NEW S, NEW u \in TargetType(S), Usable(u)
  PROVE  /\ normalizedMonitors(u) \in MonitorsType
         /\ \A m \in Metrics : normalizedMonitors(u)[m].interval > 0
         /\ \A m \in ProbeMetrics : /\ normalizedMonitors(u)[m].burst > 0
                                    /\ normalizedMonitors(u)[m].gap >= 0
                                    /\ normalizedMonitors(u)[m].gap = 0 => u.gap = 0
                                    /\ normalizedMonitors(u)[m].proto # 0
<1>1. /\ u.interval \in Int /\ u.burst \in Int /\ u.gap \in Int /\ u.proto \in Int
      /\ u.monitors \in MonitorsType
      /\ u.interval > 0 /\ u.burst > 0 /\ u.gap >= 0 /\ u.proto # 0
  BY DEF TargetType, Usable
<1> DEFINE n == normalizedMonitors(u)
           on(m) == u.monitors[m].enabled \/ ~hasExplicitMonitors(u)
<1>2. ASSUME NEW m \in ProbeMetrics
      PROVE  /\ n[m] \in ProbeMonitor
             /\ n[m].interval > 0 /\ n[m].burst > 0 /\ n[m].proto # 0
             /\ n[m].gap >= 0 /\ (n[m].gap = 0 => u.gap = 0)
  <2>1. m \in Metrics
    BY DEF Metrics
  <2>2. u.monitors[m] \in ProbeMonitor
    BY <1>1, <2>1 DEF MonitorsType, MonitorOf
  <2>3. n[m] = [enabled  |-> on(m),
                interval |-> PositiveOr(u.monitors[m].interval, u.interval),
                burst    |-> PositiveOr(u.monitors[m].burst, u.burst),
                gap      |-> PositiveOr(u.monitors[m].gap, u.gap),
                proto    |-> NonZeroOr(u.monitors[m].proto, u.proto)]
    BY <2>1 DEF normalizedMonitors
  <2>4. /\ u.monitors[m].interval \in Int /\ u.monitors[m].burst \in Int
        /\ u.monitors[m].gap \in Int /\ u.monitors[m].proto \in Int
        /\ on(m) \in BOOLEAN
    BY <2>2 DEF ProbeMonitor
  <2>5. /\ PositiveOr(u.monitors[m].interval, u.interval) \in Int
        /\ PositiveOr(u.monitors[m].interval, u.interval) > 0
        /\ PositiveOr(u.monitors[m].burst, u.burst) \in Int
        /\ PositiveOr(u.monitors[m].burst, u.burst) > 0
        /\ PositiveOr(u.monitors[m].gap, u.gap) \in Int
        /\ PositiveOr(u.monitors[m].gap, u.gap) >= 0
        /\ PositiveOr(u.monitors[m].gap, u.gap) = 0 => u.gap = 0
    BY <1>1, <2>4 DEF PositiveOr
  <2>6. /\ NonZeroOr(u.monitors[m].proto, u.proto) \in Int
        /\ NonZeroOr(u.monitors[m].proto, u.proto) # 0
    BY <1>1, <2>4 DEF NonZeroOr
  <2>7. QED  BY <2>3, <2>4, <2>5, <2>6 DEF ProbeMonitor
<1>3. ASSUME NEW m \in Metrics \ ProbeMetrics
      PROVE  n[m] \in SimpleMonitor /\ n[m].interval > 0
  <2>1. u.monitors[m] \in SimpleMonitor
    BY <1>1 DEF MonitorsType, MonitorOf
  <2>2. n[m] = [enabled  |-> on(m),
                interval |-> PositiveOr(u.monitors[m].interval, u.interval)]
    BY DEF normalizedMonitors
  <2>3. on(m) \in BOOLEAN /\ u.monitors[m].interval \in Int
    BY <2>1 DEF SimpleMonitor
  <2>4. /\ PositiveOr(u.monitors[m].interval, u.interval) \in Int
        /\ PositiveOr(u.monitors[m].interval, u.interval) > 0
    BY <1>1, <2>3 DEF PositiveOr
  <2>5. QED  BY <2>2, <2>3, <2>4 DEF SimpleMonitor
<1>4. n = [m \in Metrics |-> n[m]]
  BY DEF normalizedMonitors
<1>5. n \in MonitorsType
  BY <1>2, <1>3, <1>4 DEF MonitorsType, MonitorOf
<1>6. QED  BY <1>2, <1>3, <1>5

(* What the prober and a second normalization may rely on. A monitor's gap *)
(* of 0 has to come from the target, or it would be inherited again.       *)
NormalForm(n) ==
  /\ Usable(n)
  /\ \A m \in Metrics : n.monitors[m].interval > 0
  /\ \A m \in ProbeMetrics : /\ n.monitors[m].burst > 0
                             /\ n.monitors[m].gap >= 0
                             /\ n.monitors[m].gap = 0 => n.gap = 0
                             /\ n.monitors[m].proto # 0

(* Whatever a target holds, its normalization is in normal form and keeps  *)
(* its ID (Target.normalized, config.go:48-125).                           *)
THEOREM NormalizedUsable ==
  ASSUME NEW S, NEW t \in TargetType(S)
  PROVE  /\ normalized(t) \in TargetType(S)
         /\ normalized(t).id = t.id
         /\ NormalForm(normalized(t))
<1> DEFINE u == withDefaults(t)
           ms == normalizedMonitors(u)
<1>1. u \in TargetType(S) /\ Usable(u) /\ u.id = t.id
  BY DefaultsUsable
<1>2. /\ ms \in MonitorsType
      /\ \A m \in Metrics : ms[m].interval > 0
      /\ \A m \in ProbeMetrics : /\ ms[m].burst > 0 /\ ms[m].proto # 0
                                 /\ ms[m].gap >= 0 /\ (ms[m].gap = 0 => u.gap = 0)
  BY <1>1, MonitorSettings
<1>3. normalized(t) = [u EXCEPT !.monitors = ms]
  BY DEF normalized
<1> HIDE DEF u, ms
<1>4. /\ normalized(t) \in TargetType(S) /\ normalized(t).monitors = ms
      /\ normalized(t).id = u.id /\ normalized(t).interval = u.interval
      /\ normalized(t).timeout = u.timeout /\ normalized(t).burst = u.burst
      /\ normalized(t).gap = u.gap /\ normalized(t).proto = u.proto
  BY <1>1, <1>2, <1>3 DEF TargetType
<1>5. QED  BY <1>1, <1>2, <1>4 DEF NormalForm, Usable

(* A target in normal form has no default left to fill in.                 *)
LEMMA NormalFormIsFixed ==
  ASSUME NEW S, NEW n \in TargetType(S), NormalForm(n)
  PROVE  normalized(n) = n
<1>1. /\ n.interval \in Int /\ n.timeout \in Int /\ n.burst \in Int
      /\ n.gap \in Int /\ n.proto \in Int /\ n.monitors \in MonitorsType
  BY DEF TargetType
<1>2. withDefaults(n) = n
  <2>1. /\ PositiveOr(n.interval, 60) = n.interval
        /\ PositiveOr(n.timeout, 1500) = n.timeout
        /\ PositiveOr(n.burst, 5) = n.burst
        /\ PositiveOr(n.gap, 0) = n.gap
        /\ NonZeroOr(n.proto, DefaultProtocolVersion) = n.proto
    BY <1>1 DEF PositiveOr, NonZeroOr, NormalForm, Usable
  <2> DEFINE i == PositiveOr(n.interval, 60)
             o == PositiveOr(n.timeout, 1500)
             b == PositiveOr(n.burst, 5)
             g == PositiveOr(n.gap, 0)
             p == NonZeroOr(n.proto, DefaultProtocolVersion)
  <2>2. withDefaults(n)
          = [n EXCEPT !.interval = i, !.timeout = o, !.burst = b, !.gap = g, !.proto = p]
    BY DEF withDefaults
  <2>3. i = n.interval /\ o = n.timeout /\ b = n.burst /\ g = n.gap /\ p = n.proto
    BY <2>1
  <2> HIDE DEF i, o, b, g, p
  <2>4. [n EXCEPT !.interval = i, !.timeout = o, !.burst = b, !.gap = g, !.proto = p] = n
    BY <2>3 DEF TargetType
  <2>5. QED  BY <2>2, <2>4
<1>3. hasExplicitMonitors(n)
  BY DEF hasExplicitMonitors, NormalForm, Metrics
<1>4. normalizedMonitors(n) = n.monitors
  <2>1. ASSUME NEW m \in ProbeMetrics
        PROVE  normalizedMonitors(n)[m] = n.monitors[m]
    <3>1. m \in Metrics
      BY DEF Metrics
    <3>2. n.monitors[m] \in ProbeMonitor
      BY <1>1, <3>1 DEF MonitorsType, MonitorOf
    <3>3. /\ PositiveOr(n.monitors[m].interval, n.interval) = n.monitors[m].interval
          /\ PositiveOr(n.monitors[m].burst, n.burst) = n.monitors[m].burst
          /\ NonZeroOr(n.monitors[m].proto, n.proto) = n.monitors[m].proto
      BY <3>1 DEF PositiveOr, NonZeroOr, NormalForm
    <3>4. PositiveOr(n.monitors[m].gap, n.gap) = n.monitors[m].gap
      BY <1>1, <3>1, <3>2 DEF NormalForm, PositiveOr, ProbeMonitor
    <3>5. QED  BY <1>3, <3>1, <3>2, <3>3, <3>4 DEF normalizedMonitors, ProbeMonitor
  <2>2. ASSUME NEW m \in Metrics \ ProbeMetrics
        PROVE  normalizedMonitors(n)[m] = n.monitors[m]
    <3>1. n.monitors[m] \in SimpleMonitor
      BY <1>1 DEF MonitorsType, MonitorOf
    <3>2. PositiveOr(n.monitors[m].interval, n.interval) = n.monitors[m].interval
      BY DEF PositiveOr, NormalForm
    <3>3. QED  BY <1>3, <3>1, <3>2 DEF normalizedMonitors, SimpleMonitor
  <2>3. QED  BY <1>1, <2>1, <2>2 DEF normalizedMonitors, MonitorsType
<1>5. QED  BY <1>2, <1>4 DEF normalized, TargetType
=============================================================================
