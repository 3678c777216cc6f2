----------------------------- MODULE SamplesProofs -----------------------------
(***************************************************************************)
(* What is stored and served of the measurements, for any targets, loops,  *)
(* latencies and clock: the rows in the tables are those of measurements,  *)
(* and stay; the queries return the newest of them; and a burst is summed  *)
(* up right. The two sorts are treated alike: an element goes to the place *)
(* that the number of those before it says.                                *)
(***************************************************************************)
EXTENDS Samples, ManagerProofs, FiniteSetTheorems, SequenceTheorems

Pending(m) == UNION {ToSet(work[h].rows) : h \in {l \in DOMAIN work : work[l].of = m}}

MeasuredOK ==
  /\ ManagerInv
  /\ now \in Nat \ {0}
  /\ \A m \in measured : /\ m.loop \in Loops /\ m.ts \in 1..now
                         /\ m.outcome \in Outcomes(m.loop)

(* What a loop still has to insert are rows of its measurement.            *)
WorkOK ==
  \A h \in DOMAIN work :
    /\ work[h] = [of |-> work[h].of, rows |-> work[h].rows]
    /\ work[h].of \in measured
    /\ work[h].rows \in Seq(ToSet(Rows(work[h].of))) \ {<<>>}

(* A row of a measurement is in its table, or is still to be inserted.     *)
NoneIsLost ==
  \A m \in measured \ missed :
    \/ \E n \in measured : Rivals(m, n)
    \/ \A row \in ToSet(Rows(m)) : Stored(row) \/ row \in Pending(m)

SamplesInv == MeasuredOK /\ WorkOK /\ RowsAreMeasured /\ NoneIsLost

-----------------------------------------------------------------------------
(* The rows of a measurement                                               *)

(* A loop samples metrics that are switched on in its configuration.       *)
LEMMA LoopSamples ==
  ASSUME NEW h \in Loops
  PROVE  /\ h.target \in TargetType(Ids) /\ NormalForm(h.target)
         /\ h.name \in Metrics \cup {"latency-loss"}
         /\ \A metric \in MetricsOf(h.name) :
              metric \in Metrics /\ h.target.monitors[metric].enabled
<1>1. PICK g \in Gens, t \in Targets : h \in Group(g, normalized(t))
  BY DEF Loops
<1>2. h.target = normalized(t) /\ h.name \in LoopNames(normalized(t))
  BY <1>1 DEF Group
<1>3. h.target \in TargetType(Ids) /\ NormalForm(h.target)
  BY <1>2, ManagerAssumption, NormalizedUsable
<1>4. /\ h.name \in Metrics \cup {"latency-loss"}
      /\ \A metric \in MetricsOf(h.name) :
           metric \in Metrics /\ h.target.monitors[metric].enabled
  BY <1>2 DEF LoopNames, MetricsOf, Enabled, canShareLatencyLoss, Metrics, ProbeMetrics
<1>5. QED  BY <1>3, <1>4

LatencyRow(m) ==
  Row("metric_samples", MetricKey(m.loop.target.id, "latency", m.ts),
      BurstResult(m.outcome))
LossRow(m) ==
  Row("metric_samples", MetricKey(m.loop.target.id, "loss", m.ts),
      [loss |-> BurstResult(m.outcome).loss])
StatusRow(m) ==
  Row("metric_samples", MetricKey(m.loop.target.id, m.loop.name, m.ts),
      [status |-> m.outcome[1]])

LEMMA ShortList ==
  ASSUME NEW a, NEW b
  PROVE  /\ ToSet(<<a>>) = {a} /\ <<a>> \in Seq({a}) \ {<<>>}
         /\ ToSet(<<a, b>>) = {a, b} /\ <<a, b>> \in Seq({a, b}) \ {<<>>}
<1>1. DOMAIN <<a>> = {1} /\ DOMAIN <<a, b>> = {1, 2}
  OBVIOUS
<1>2. ToSet(<<a>>) = {a} /\ ToSet(<<a, b>>) = {a, b}
  BY <1>1 DEF ToSet
<1>3. <<a>> \in Seq({a}) /\ <<a, b>> \in Seq({a, b})
  OBVIOUS
<1>4. <<a>> # <<>> /\ <<a, b>> # <<>>
  OBVIOUS
<1>5. QED  BY <1>2, <1>3, <1>4

LEMMA AppendedList ==
  ASSUME NEW a, NEW b, NEW c
  PROVE  /\ ToSet(<<a, b>> \o <<c>>) = {a, b, c}
         /\ <<a, b>> \o <<c>> \in Seq({a, b, c}) \ {<<>>}
<1> DEFINE s == <<a, b>> \o <<c>>
<1>1. /\ s \in Seq({a, b, c}) /\ Len(s) = 3
      /\ s[1] = a /\ s[2] = b /\ s[3] = c
  <2>1. <<a, b>> \in Seq({a, b, c}) /\ <<c>> \in Seq({a, b, c})
    OBVIOUS
  <2>2. Len(<<a, b>>) = 2 /\ Len(<<c>>) = 1
    OBVIOUS
  <2>3. QED  BY <2>1, <2>2, ConcatProperties
<1> HIDE DEF s
<1>2. DOMAIN s = {1, 2, 3}
  BY <1>1
<1>3. ToSet(s) = {a, b, c} /\ s # <<>>
  BY <1>1, <1>2 DEF ToSet
<1>4. QED  BY <1>1, <1>3 DEF s

LEMMA RowsAre ==
  ASSUME NEW m
  PROVE  /\ Rows(m) \in Seq(ToSet(Rows(m))) \ {<<>>}
         /\ m.loop.name = "latency" =>
              ToSet(Rows(m)) = {LegacyRow(m), LatencyRow(m)}
         /\ m.loop.name = "loss" => ToSet(Rows(m)) = {LossRow(m)}
         /\ m.loop.name = "latency-loss" =>
              ToSet(Rows(m)) = {LegacyRow(m), LatencyRow(m), LossRow(m)}
         /\ m.loop.name \notin {"latency", "loss", "latency-loss"} =>
              ToSet(Rows(m)) = {StatusRow(m)}
<1> DEFINE a == LegacyRow(m)
           b == LatencyRow(m)
           c == LossRow(m)
           d == StatusRow(m)
<1>1. /\ LatencyRows(m) = <<a, b>> /\ LossRows(m) = <<c>>
      /\ m.loop.name = "latency" => Rows(m) = <<a, b>>
      /\ m.loop.name = "loss" => Rows(m) = <<c>>
      /\ m.loop.name = "latency-loss" => Rows(m) = <<a, b>> \o <<c>>
      /\ m.loop.name \notin {"latency", "loss", "latency-loss"} => Rows(m) = <<d>>
  BY DEF Rows, LatencyRows, LossRows, LatencyRow, LossRow, StatusRow
<1> HIDE DEF a, b, c, d
<1>2. CASE m.loop.name = "latency"
  <2>1. Rows(m) = <<a, b>>
    BY <1>1, <1>2
  <2>2. ToSet(<<a, b>>) = {a, b} /\ <<a, b>> \in Seq({a, b}) \ {<<>>}
    BY ShortList
  <2>3. QED  BY <1>2, <2>1, <2>2 DEF a, b
<1>3. CASE m.loop.name = "loss"
  <2>1. Rows(m) = <<c>>
    BY <1>1, <1>3
  <2>2. ToSet(<<c>>) = {c} /\ <<c>> \in Seq({c}) \ {<<>>}
    BY ShortList
  <2>3. QED  BY <1>3, <2>1, <2>2 DEF c
<1>4. CASE m.loop.name = "latency-loss"
  <2>1. Rows(m) = <<a, b>> \o <<c>>
    BY <1>1, <1>4
  <2>2. /\ ToSet(<<a, b>> \o <<c>>) = {a, b, c}
        /\ <<a, b>> \o <<c>> \in Seq({a, b, c}) \ {<<>>}
    BY AppendedList
  <2>3. QED  BY <1>4, <2>1, <2>2 DEF a, b, c
<1>5. CASE m.loop.name \notin {"latency", "loss", "latency-loss"}
  <2>1. Rows(m) = <<d>>
    BY <1>1, <1>5
  <2>2. ToSet(<<d>>) = {d} /\ <<d>> \in Seq({d}) \ {<<>>}
    BY ShortList
  <2>3. QED  BY <1>5, <2>1, <2>2 DEF d
<1>6. QED  BY <1>2, <1>3, <1>4, <1>5

(* The key of a row names the target, the second and, in metric_samples,   *)
(* the metric, and a measurement has one row of a key.                     *)
LEMMA KeysAre ==
  ASSUME NEW m, m.loop \in Loops, NEW row \in ToSet(Rows(m))
  PROVE  /\ row = Row(row.table, row.key, row.value)
         /\ row.table \in {"samples", "metric_samples"}
         /\ row.table = "samples" => /\ row.key = <<m.loop.target.id, m.ts>>
                                     /\ "latency" \in MetricsOf(m.loop.name)
         /\ row.table = "metric_samples" =>
              \E metric \in MetricsOf(m.loop.name) :
                row.key = MetricKey(m.loop.target.id, metric, m.ts)
         /\ \A other \in ToSet(Rows(m)) :
              other.table = row.table /\ other.key = row.key => other = row
<1>1. /\ LegacyRow(m).table = "samples"
      /\ LegacyRow(m).key = <<m.loop.target.id, m.ts>>
      /\ LegacyRow(m) = Row("samples", LegacyRow(m).key, LegacyRow(m).value)
  BY DEF LegacyRow, Row
<1>2. /\ LatencyRow(m).table = "metric_samples"
      /\ LatencyRow(m).key = MetricKey(m.loop.target.id, "latency", m.ts)
      /\ LatencyRow(m) = Row("metric_samples", LatencyRow(m).key, LatencyRow(m).value)
  BY DEF LatencyRow, Row
<1>3. /\ LossRow(m).table = "metric_samples"
      /\ LossRow(m).key = MetricKey(m.loop.target.id, "loss", m.ts)
      /\ LossRow(m) = Row("metric_samples", LossRow(m).key, LossRow(m).value)
  BY DEF LossRow, Row
<1>4. /\ StatusRow(m).table = "metric_samples"
      /\ StatusRow(m).key = MetricKey(m.loop.target.id, m.loop.name, m.ts)
      /\ StatusRow(m) = Row("metric_samples", StatusRow(m).key, StatusRow(m).value)
  BY DEF StatusRow, Row
<1>5. LatencyRow(m).key # LossRow(m).key
  BY <1>2, <1>3 DEF MetricKey
<1>6. CASE m.loop.name = "latency"
  BY <1>1, <1>2, <1>6, RowsAre DEF MetricsOf
<1>7. CASE m.loop.name = "loss"
  BY <1>3, <1>7, RowsAre DEF MetricsOf
<1>8. CASE m.loop.name = "latency-loss"
  BY <1>1, <1>2, <1>3, <1>5, <1>8, RowsAre DEF MetricsOf, ProbeMetrics
<1>9. CASE m.loop.name \notin {"latency", "loss", "latency-loss"}
  BY <1>4, <1>9, RowsAre DEF MetricsOf
<1>10. QED  BY <1>6, <1>7, <1>8, <1>9

LEMMA SameTuple ==
  ASSUME NEW a, NEW b, NEW c, NEW d, NEW e, NEW f
  PROVE  /\ <<a, b>> = <<d, e>> => a = d /\ b = e
         /\ <<a, b, c>> = <<d, e, f>> => a = d /\ b = e /\ c = f
<1>1. /\ <<a, b>>[1] = a /\ <<a, b>>[2] = b
      /\ <<d, e>>[1] = d /\ <<d, e>>[2] = e
  OBVIOUS
<1>2. /\ <<a, b, c>>[1] = a /\ <<a, b, c>>[2] = b /\ <<a, b, c>>[3] = c
      /\ <<d, e, f>>[1] = d /\ <<d, e, f>>[2] = e /\ <<d, e, f>>[3] = f
  OBVIOUS
<1>3. QED  BY <1>1, <1>2, Zenon

(* Rows of one key are of one measurement or of rivals.                    *)
LEMMA SameKey ==
  ASSUME NEW m, NEW n, m.loop \in Loops, n.loop \in Loops,
         NEW row \in ToSet(Rows(m)), NEW other \in ToSet(Rows(n)),
         row.table = other.table, row.key = other.key
  PROVE  IF m = n THEN row = other ELSE Rivals(m, n)
<1>1. CASE m = n
  BY <1>1, KeysAre
<1>2. CASE m # n
  <2>1. CASE row.table = "samples"
    <3>1. /\ row.key = <<m.loop.target.id, m.ts>>
          /\ other.key = <<n.loop.target.id, n.ts>>
          /\ "latency" \in MetricsOf(m.loop.name) \cap MetricsOf(n.loop.name)
      BY <2>1, KeysAre
    <3>2. m.ts = n.ts /\ m.loop.target.id = n.loop.target.id
      <4>1. <<m.loop.target.id, m.ts>> = <<n.loop.target.id, n.ts>>
        BY <3>1
      <4>2. QED  BY <4>1, SameTuple
    <3>3. QED  BY <1>2, <3>1, <3>2 DEF Rivals
  <2>2. CASE row.table = "metric_samples"
    <3>1. PICK metric \in MetricsOf(m.loop.name) :
            row.key = MetricKey(m.loop.target.id, metric, m.ts)
      BY <2>2, KeysAre
    <3>2. PICK metric2 \in MetricsOf(n.loop.name) :
            other.key = MetricKey(n.loop.target.id, metric2, n.ts)
      BY <2>2, KeysAre
    <3>3. m.ts = n.ts /\ m.loop.target.id = n.loop.target.id /\ metric = metric2
      <4>1. <<m.loop.target.id, metric, m.ts>> = <<n.loop.target.id, metric2, n.ts>>
        BY <3>1, <3>2 DEF MetricKey
      <4>2. QED  BY <4>1, SameTuple
    <3>4. QED  BY <1>2, <3>1, <3>2, <3>3 DEF Rivals
  <2>3. QED  BY <2>1, <2>2, KeysAre
<1>3. QED  BY <1>1, <1>2

-----------------------------------------------------------------------------
(* The steps                                                               *)

LEMMA PendingIs ==
  ASSUME NEW m, NEW row
  PROVE  row \in Pending(m) <=>
           \E h \in DOMAIN work : work[h].of = m /\ row \in ToSet(work[h].rows)
BY DEF Pending

LEMMA PendingIsNext ==
  ASSUME NEW m, NEW row
  PROVE  row \in Pending(m)' <=>
           \E h \in DOMAIN work' : work'[h].of = m /\ row \in ToSet(work'[h].rows)
BY DEF Pending

(* The tables, the measurements and what is left of them stay.             *)
LEMMA SameSamples ==
  ASSUME SamplesInv, MeasuredOK',
         UNCHANGED <<samples, metric_samples, work, measured, missed>>
  PROVE  SamplesInv'
<1>1. WorkOK' /\ RowsAreMeasured'
  BY DEF SamplesInv, WorkOK, RowsAreMeasured
<1>2. \A row : Stored(row)' <=> Stored(row)
  BY DEF Stored
<1>3. \A m : Pending(m)' = Pending(m)
  BY DEF Pending
<1>4. NoneIsLost'
  BY <1>2, <1>3 DEF SamplesInv, NoneIsLost
<1>5. QED  BY <1>1, <1>4 DEF SamplesInv

LEMMA ManagerStepKeeps ==
  ASSUME SamplesInv, ManagerStep
  PROVE  SamplesInv'
<1>1. ManagerInv'
  BY StartKeeps, LoopStepKeeps DEF ManagerStep, LoopStep, SamplesInv, MeasuredOK
<1>2. UNCHANGED <<now, samples, metric_samples, work, measured, missed>>
  BY DEF ManagerStep
<1>3. MeasuredOK'
  BY <1>1, <1>2 DEF SamplesInv, MeasuredOK
<1>4. QED  BY <1>2, <1>3, SameSamples

LEMMA ClockKeeps ==
  ASSUME SamplesInv, Clock
  PROVE  SamplesInv'
<1>1. /\ now' = now + 1 /\ UNCHANGED managerVars
      /\ UNCHANGED <<samples, metric_samples, work, measured, missed>>
  BY DEF Clock
<1>2. ManagerInv'
  BY <1>1, ManagerNextInv DEF SamplesInv, MeasuredOK
<1>3. \A i \in 1..now : i \in 1..now'
  BY <1>1 DEF SamplesInv, MeasuredOK
<1>4. MeasuredOK'
  BY <1>1, <1>2, <1>3 DEF SamplesInv, MeasuredOK
<1>5. QED  BY <1>1, <1>4, SameSamples

LEMMA KillProberKeeps ==
  ASSUME SamplesInv, KillProber
  PROVE  SamplesInv'
<1>1. /\ stops' = [id \in Ids |-> {}] /\ taken' = [k \in Callers |-> {}]
      /\ probing' = {} /\ waiting' = {} /\ closed' = {}
      /\ work' = <<>>
      /\ missed' = missed \cup {work[h].of : h \in DOMAIN work}
      /\ UNCHANGED <<now, samples, metric_samples, measured>>
  BY DEF KillProber
<1>2. ManagerInv'
  <2>1. registered' = {} /\ inHand' = {} /\ live' = {}
    BY <1>1 DEF registered, inHand, live
  <2>2. QED
    BY <1>1, <2>1 DEF ManagerInv, ManagerTypeOK, NoOrphanLoop, ClosedOnce,
                      RegisteredIsOneGroup
<1>3. MeasuredOK'
  BY <1>1, <1>2 DEF SamplesInv, MeasuredOK
<1>4. DOMAIN work' = {}
  BY <1>1
<1>5. WorkOK' /\ RowsAreMeasured'
  BY <1>1, <1>4 DEF SamplesInv, WorkOK, RowsAreMeasured
<1>6. NoneIsLost'
  <2> SUFFICES ASSUME NEW m \in measured \ missed',
                      ~ \E n \in measured : Rivals(m, n),
                      NEW row \in ToSet(Rows(m))
               PROVE  Stored(row)'
    BY <1>1 DEF NoneIsLost
  <2>1. row \notin Pending(m)
    BY <1>1, PendingIs
  <2>2. Stored(row)
    BY <1>1, <2>1 DEF SamplesInv, NoneIsLost
  <2>3. QED  BY <1>1, <2>2 DEF Stored
<1>7. QED  BY <1>3, <1>5, <1>6 DEF SamplesInv

LEMMA MeasureKeeps ==
  ASSUME SamplesInv, NEW h \in probing, Measure(h)
  PROVE  SamplesInv'
<1>1. PICK outcome \in Outcomes(h), ts \in 1..now :
        /\ ts = now
        /\ measured' = measured \cup {[loop |-> h, ts |-> ts, outcome |-> outcome]}
        /\ work' = Replaced(work, h,
             [of |-> [loop |-> h, ts |-> ts, outcome |-> outcome],
              rows |-> Rows([loop |-> h, ts |-> ts, outcome |-> outcome])])
  BY DEF Measure, SamplesInv, MeasuredOK
<1> DEFINE m == [loop |-> h, ts |-> ts, outcome |-> outcome]
<1>2. /\ m.loop = h /\ m.ts = ts /\ m.outcome = outcome
  OBVIOUS
<1> HIDE DEF m
<1>3. /\ measured' = measured \cup {m} /\ h \notin DOMAIN work
      /\ work' = Replaced(work, h, [of |-> m, rows |-> Rows(m)])
      /\ UNCHANGED managerVars
      /\ UNCHANGED <<now, samples, metric_samples, missed>>
  BY <1>1 DEF Measure, m
<1>4. ManagerInv' /\ h \in Loops
  BY <1>3, ManagerNextInv DEF SamplesInv, MeasuredOK, ManagerInv, ManagerTypeOK
<1>5. MeasuredOK'
  BY <1>2, <1>3, <1>4 DEF SamplesInv, MeasuredOK
<1>6. /\ DOMAIN work' = DOMAIN work \cup {h}
      /\ work'[h] = [of |-> m, rows |-> Rows(m)]
      /\ \A l \in DOMAIN work : work'[l] = work[l]
  BY <1>3 DEF Replaced
<1>7. WorkOK'
  <2> SUFFICES ASSUME NEW l \in DOMAIN work'
               PROVE  /\ work'[l] = [of |-> work'[l].of, rows |-> work'[l].rows]
                      /\ work'[l].of \in measured'
                      /\ work'[l].rows \in Seq(ToSet(Rows(work'[l].of))) \ {<<>>}
    BY DEF WorkOK
  <2>1. CASE l = h
    BY <1>3, <1>6, <2>1, RowsAre
  <2>2. CASE l # h
    BY <1>3, <1>6, <2>2 DEF SamplesInv, WorkOK
  <2>3. QED  BY <2>1, <2>2
<1>8. RowsAreMeasured'
  BY <1>3 DEF SamplesInv, RowsAreMeasured
<1>9. NoneIsLost'
  <2> SUFFICES ASSUME NEW n \in measured' \ missed,
                      ~ \E r \in measured' : Rivals(n, r),
                      NEW row \in ToSet(Rows(n)), ~Stored(row)'
               PROVE  row \in Pending(n)'
    BY <1>3 DEF NoneIsLost
  <2>1. CASE n \in measured
    <3>1. ~Stored(row) /\ ~ \E r \in measured : Rivals(n, r)
      BY <1>3 DEF Stored
    <3>2. row \in Pending(n)
      BY <2>1, <3>1 DEF SamplesInv, NoneIsLost
    <3>3. QED  BY <1>6, <3>2, PendingIs, PendingIsNext
  <2>2. CASE n = m
    BY <1>6, <2>2, PendingIsNext
  <2>3. QED  BY <1>3, <2>1, <2>2
<1>10. QED  BY <1>5, <1>7, <1>8, <1>9 DEF SamplesInv

(* What is left of a list, in terms of its elements.                       *)
LEMMA RestIs ==
  ASSUME NEW S, NEW rows \in Seq(S), rows # <<>>
  PROVE  /\ Head(rows) \in ToSet(rows) /\ Tail(rows) \in Seq(S)
         /\ \A row \in ToSet(rows) : row = Head(rows) \/ row \in ToSet(Tail(rows))
         /\ Len(rows) > 1 => Tail(rows) # <<>>
         /\ ~(Len(rows) > 1) => ToSet(rows) = {Head(rows)}
<1>1. /\ Len(rows) \in Nat \ {0} /\ DOMAIN rows = 1..Len(rows)
      /\ Tail(rows) \in Seq(S) /\ Len(Tail(rows)) = Len(rows) - 1
      /\ DOMAIN Tail(rows) = 1..Len(Tail(rows)) /\ Head(rows) = rows[1]
  BY EmptySeq, HeadTailProperties
<1>2. \A i \in 1..Len(rows) - 1 : Tail(rows)[i] = rows[i + 1]
  BY <1>1, HeadTailProperties
<1>3. \A i \in DOMAIN rows \ {1} :
        i - 1 \in DOMAIN Tail(rows) /\ Tail(rows)[i - 1] = rows[i]
  BY <1>1, <1>2
<1>4. Len(rows) > 1 => Tail(rows) # <<>>
  <2>1. Len(<<>>) = 0
    OBVIOUS
  <2>2. Tail(rows) = <<>> => Len(Tail(rows)) = 0
    BY <2>1, Zenon
  <2>3. QED  BY <1>1, <2>2
<1>5. ~(Len(rows) > 1) => DOMAIN rows = {1}
  BY <1>1
<1>6. 1 \in DOMAIN rows
  BY <1>1
<1>7. ASSUME NEW row \in ToSet(rows), row # Head(rows)
      PROVE  row \in ToSet(Tail(rows))
  <2>1. PICK i \in DOMAIN rows : row = rows[i]
    BY DEF ToSet
  <2>2. i # 1
    BY <1>1, <1>7, <2>1
  <2>3. QED  BY <1>3, <2>1, <2>2 DEF ToSet
<1>8. ~(Len(rows) > 1) => ToSet(rows) = {Head(rows)}
  BY <1>1, <1>5 DEF ToSet
<1>9. Head(rows) \in ToSet(rows)
  BY <1>1, <1>6 DEF ToSet
<1>10. QED  BY <1>1, <1>4, <1>7, <1>8, <1>9

LEMMA ReplacedIs ==
  ASSUME NEW table, NEW key, NEW value
  PROVE  /\ DOMAIN Replaced(table, key, value) = DOMAIN table \cup {key}
         /\ Replaced(table, key, value)[key] = value
         /\ \A k \in DOMAIN table : k # key =>
              Replaced(table, key, value)[k] = table[k]
BY DEF Replaced

(* What an insert that works does to the tables, and one that does not.    *)
LEMMA StoreTables ==
  ASSUME NEW h, NEW ok \in BOOLEAN, StoreRow(h, ok), NEW row, row = Head(work[h].rows),
         row.table \in {"samples", "metric_samples"}
  PROVE  /\ samples' = IF ok /\ row.table = "samples"
                         THEN Replaced(samples, row.key, row.value) ELSE samples
         /\ metric_samples' = IF ok /\ row.table = "metric_samples"
                                THEN Replaced(metric_samples, row.key, row.value)
                                ELSE metric_samples
         /\ ok => Stored(row)'
         /\ \A other : /\ other.table \in {"samples", "metric_samples"}
                       /\ ~(ok /\ other.table = row.table /\ other.key = row.key)
                       /\ Stored(other)
                      => Stored(other)'
<1>1. /\ samples' = IF ok /\ row.table = "samples"
                      THEN Replaced(samples, row.key, row.value) ELSE samples
      /\ metric_samples' = IF ok /\ row.table = "metric_samples"
                             THEN Replaced(metric_samples, row.key, row.value)
                             ELSE metric_samples
  BY DEF StoreRow
<1>2. ASSUME ok  PROVE Stored(row)'
  <2>1. CASE row.table = "samples"
    <3>1. samples' = Replaced(samples, row.key, row.value)
      BY <1>1, <1>2, <2>1
    <3>2. row.key \in DOMAIN samples' /\ samples'[row.key] = row.value
      BY <3>1 DEF Replaced
    <3>3. QED  BY <2>1, <3>2 DEF Stored
  <2>2. CASE row.table = "metric_samples"
    <3>1. metric_samples' = Replaced(metric_samples, row.key, row.value)
      BY <1>1, <1>2, <2>2
    <3>2. row.key \in DOMAIN metric_samples' /\ metric_samples'[row.key] = row.value
      BY <3>1 DEF Replaced
    <3>3. QED  BY <2>2, <3>2 DEF Stored
  <2>3. QED  BY <2>1, <2>2
<1>3. ASSUME NEW other, other.table \in {"samples", "metric_samples"},
             ~(ok /\ other.table = row.table /\ other.key = row.key), Stored(other)
      PROVE  Stored(other)'
  <2>1. CASE other.table = "samples"
    <3>1. other.key \in DOMAIN samples /\ samples[other.key] = other.value
      BY <1>3, <2>1 DEF Stored
    <3>2. other.key \in DOMAIN samples' /\ samples'[other.key] = other.value
      <4>1. CASE samples' = samples
        BY <3>1, <4>1
      <4>2. CASE samples' # samples
        <5>1. /\ samples' = Replaced(samples, row.key, row.value)
              /\ other.key # row.key
          BY <1>1, <1>3, <2>1, <4>2
        <5>2. QED  BY <3>1, <5>1 DEF Replaced
      <4>3. QED  BY <4>1, <4>2
    <3>3. QED  BY <2>1, <3>2 DEF Stored
  <2>2. CASE other.table = "metric_samples"
    <3>1. other.key \in DOMAIN metric_samples /\ metric_samples[other.key] = other.value
      BY <1>3, <2>2 DEF Stored
    <3>2. other.key \in DOMAIN metric_samples' /\ metric_samples'[other.key] = other.value
      <4>1. CASE metric_samples' = metric_samples
        BY <3>1, <4>1
      <4>2. CASE metric_samples' # metric_samples
        <5>1. /\ metric_samples' = Replaced(metric_samples, row.key, row.value)
              /\ other.key # row.key
          BY <1>1, <1>3, <2>2, <4>2
        <5>2. QED  BY <3>1, <5>1 DEF Replaced
      <4>3. QED  BY <4>1, <4>2
    <3>3. QED  BY <2>2, <3>2 DEF Stored
  <2>3. QED  BY <1>3, <2>1, <2>2
<1>4. QED  BY <1>1, <1>2, <1>3

LEMMA StoreRowKeeps ==
  ASSUME SamplesInv, NEW h \in probing, NEW ok \in BOOLEAN, StoreRow(h, ok)
  PROVE  SamplesInv'
<1>1. h \in DOMAIN work /\ work[h].of \in measured
  BY DEF StoreRow, SamplesInv, WorkOK
<1>2. PICK m \in measured, rows \in Seq(ToSet(Rows(work[h].of))) \ {<<>>} :
        m = work[h].of /\ rows = work[h].rows
  BY <1>1 DEF SamplesInv, WorkOK
<1>3. /\ work[h] = [of |-> m, rows |-> rows] /\ m.loop \in Loops
      /\ rows \in Seq(ToSet(Rows(m))) /\ rows # <<>>
  BY <1>1, <1>2 DEF SamplesInv, WorkOK, MeasuredOK
<1>4. PICK row \in ToSet(Rows(m)) : row = Head(rows)
  BY <1>3
<1>5. /\ row = Row(row.table, row.key, row.value)
      /\ row.table \in {"samples", "metric_samples"}
      /\ row.table = "metric_samples" =>
           \E metric \in MetricsOf(m.loop.name) :
             row.key = MetricKey(m.loop.target.id, metric, m.ts)
  BY <1>3, KeysAre
<1>6. /\ samples' = IF ok /\ row.table = "samples"
                      THEN Replaced(samples, row.key, row.value) ELSE samples
      /\ metric_samples' = IF ok /\ row.table = "metric_samples"
                             THEN Replaced(metric_samples, row.key, row.value)
                             ELSE metric_samples
      /\ ok => Stored(row)'
      /\ \A other : /\ other.table \in {"samples", "metric_samples"}
                    /\ ~(ok /\ other.table = row.table /\ other.key = row.key)
                    /\ Stored(other)
                   => Stored(other)'
  BY <1>2, <1>4, <1>5, StoreTables
<1>7. /\ now' = now /\ measured' = measured
      /\ missed' = IF ok THEN missed ELSE missed \cup {m}
      /\ IF Len(rows) > 1
           THEN work' = [work EXCEPT ![h].rows = Tail(@)] /\ UNCHANGED managerVars
           ELSE work' = Restrict(work, DOMAIN work \ {h}) /\ ProbeDone(h)
  BY <1>2 DEF StoreRow
<1>8. MeasuredOK'
  <2>1. ManagerInv'
    <3>1. CASE UNCHANGED managerVars
      BY <3>1, ManagerNextInv DEF SamplesInv, MeasuredOK
    <3>2. CASE ProbeDone(h)
      BY <3>2, LoopStepKeeps DEF SamplesInv, MeasuredOK, LoopStep, live
    <3>3. QED  BY <1>7, <3>1, <3>2
  <2>2. QED  BY <1>7, <2>1 DEF SamplesInv, MeasuredOK
(* The loop has the rest of its rows left, or is done.                     *)
<1>9. /\ Tail(rows) \in Seq(ToSet(Rows(m)))
      /\ \A other \in ToSet(rows) : other = row \/ other \in ToSet(Tail(rows))
      /\ Len(rows) > 1 => Tail(rows) # <<>>
      /\ ~(Len(rows) > 1) => ToSet(rows) = {row}
  BY <1>3, <1>4, RestIs
<1>10. /\ \A l \in DOMAIN work \ {h} : l \in DOMAIN work' /\ work'[l] = work[l]
       /\ \A l \in DOMAIN work' \ {h} : l \in DOMAIN work
       /\ h \in DOMAIN work' => /\ work'[h] = [of |-> m, rows |-> Tail(rows)]
                                /\ Tail(rows) # <<>>
       /\ h \notin DOMAIN work' => ToSet(rows) = {row}
  <2>1. CASE Len(rows) > 1
    <3>1. work' = [work EXCEPT ![h] = [of |-> m, rows |-> Tail(rows)]]
      BY <1>3, <1>7, <2>1
    <3>2. QED  BY <1>1, <1>9, <2>1, <3>1
  <2>2. CASE ~(Len(rows) > 1)
    <3>1. work' = [l \in DOMAIN work \ {h} |-> work[l]]
      BY <1>7, <2>2 DEF Restrict
    <3>2. QED  BY <1>9, <2>2, <3>1
  <2>3. QED  BY <2>1, <2>2
<1>11. WorkOK'
  <2> SUFFICES ASSUME NEW l \in DOMAIN work'
               PROVE  /\ work'[l] = [of |-> work'[l].of, rows |-> work'[l].rows]
                      /\ work'[l].of \in measured'
                      /\ work'[l].rows \in Seq(ToSet(Rows(work'[l].of))) \ {<<>>}
    BY DEF WorkOK
  <2>1. CASE l = h
    <3>1. work'[l] = [of |-> m, rows |-> Tail(rows)] /\ Tail(rows) # <<>>
      BY <1>10, <2>1
    <3>2. work'[l].of = m /\ work'[l].rows = Tail(rows)
      BY <3>1
    <3>3. work'[l].rows \in Seq(ToSet(Rows(work'[l].of))) \ {<<>>}
      BY <1>9, <3>1, <3>2
    <3>4. QED  BY <1>7, <3>1, <3>2, <3>3
  <2>2. CASE l # h
    BY <1>7, <1>10, <2>2 DEF SamplesInv, WorkOK
  <2>3. QED  BY <2>1, <2>2
<1>12. RowsAreMeasured'
  <2>1. ASSUME NEW key \in DOMAIN samples'
        PROVE  \E n \in measured' : Row("samples", key, samples'[key]) \in ToSet(Rows(n))
    <3>1. CASE ok /\ row.table = "samples" /\ key = row.key
      <4>1. samples'[key] = row.value
        BY <1>6, <3>1 DEF Replaced
      <4>2. QED  BY <1>5, <1>7, <3>1, <4>1
    <3>2. CASE ~(ok /\ row.table = "samples" /\ key = row.key)
      <4>1. key \in DOMAIN samples /\ samples'[key] = samples[key]
        BY <1>6, <2>1, <3>2 DEF Replaced
      <4>2. QED  BY <1>7, <4>1 DEF SamplesInv, RowsAreMeasured
    <3>3. QED  BY <3>1, <3>2
  <2>2. ASSUME NEW key \in DOMAIN metric_samples'
        PROVE  \E n \in measured' :
                 /\ Row("metric_samples", key, metric_samples'[key]) \in ToSet(Rows(n))
                 /\ key[2] \in MetricsOf(n.loop.name)
                 /\ n.loop.target.monitors[key[2]].enabled
    <3>1. CASE ok /\ row.table = "metric_samples" /\ key = row.key
      <4>1. metric_samples'[key] = row.value
        BY <1>6, <3>1 DEF Replaced
      <4>2. PICK metric \in MetricsOf(m.loop.name) :
              key = MetricKey(m.loop.target.id, metric, m.ts)
        BY <1>5, <3>1
      <4>3. key[2] = metric
        BY <4>2 DEF MetricKey
      <4>4. m.loop.target.monitors[metric].enabled
        BY <1>3, LoopSamples
      <4>5. QED  BY <1>5, <1>7, <3>1, <4>1, <4>3, <4>4
    <3>2. CASE ~(ok /\ row.table = "metric_samples" /\ key = row.key)
      <4>1. key \in DOMAIN metric_samples /\ metric_samples'[key] = metric_samples[key]
        BY <1>6, <2>2, <3>2 DEF Replaced
      <4>2. QED  BY <1>7, <4>1 DEF SamplesInv, RowsAreMeasured
    <3>3. QED  BY <3>1, <3>2
  <2>3. QED  BY <2>1, <2>2 DEF RowsAreMeasured
<1>13. NoneIsLost'
  <2> SUFFICES ASSUME NEW n \in measured \ missed', ~ \E r \in measured : Rivals(n, r),
                      NEW other \in ToSet(Rows(n))
               PROVE  Stored(other)' \/ other \in Pending(n)'
    BY <1>7 DEF NoneIsLost
  <2>1. n \notin missed /\ n.loop \in Loops
    BY <1>7 DEF SamplesInv, MeasuredOK
  <2>2. /\ other.table \in {"samples", "metric_samples"}
        /\ Stored(other) \/ other \in Pending(n)
    BY <2>1, KeysAre DEF SamplesInv, NoneIsLost
  <2>3. ASSUME ok, other.table = row.table, other.key = row.key
        PROVE  Stored(other)'
    <3>1. IF n = m THEN other = row ELSE Rivals(n, m)
      BY <1>3, <2>1, <2>3, SameKey
    <3>2. QED  BY <1>6, <2>3, <3>1
  <2>4. CASE Stored(other)
    BY <1>6, <2>2, <2>3, <2>4
  <2>5. CASE other \in Pending(n)
    <3>1. PICK l \in DOMAIN work : work[l].of = n /\ other \in ToSet(work[l].rows)
      BY <2>5, PendingIs
    <3>2. CASE l # h
      BY <1>10, <3>1, <3>2, PendingIsNext
    <3>3. CASE l = h
      <4>1. n = m /\ ok /\ other \in ToSet(rows)
        BY <1>2, <1>7, <3>1, <3>3
      <4>2. CASE other = row
        BY <1>6, <4>1, <4>2
      <4>3. CASE other # row
        <5>1. other \in ToSet(Tail(rows)) /\ h \in DOMAIN work'
          BY <1>9, <1>10, <4>1, <4>3
        <5>2. work'[h].of = m /\ work'[h].rows = Tail(rows)
          BY <1>10, <5>1
        <5>3. QED  BY <4>1, <5>1, <5>2, PendingIsNext
      <4>4. QED  BY <4>2, <4>3
    <3>4. QED  BY <3>2, <3>3
  <2>6. QED  BY <2>2, <2>4, <2>5
<1>14. QED  BY <1>8, <1>11, <1>12, <1>13 DEF SamplesInv

LEMMA SamplesInitInv == SamplesInit => SamplesInv
<1> SUFFICES ASSUME SamplesInit  PROVE SamplesInv
  OBVIOUS
<1>1. /\ now = 1 /\ measured = {} /\ missed = {}
      /\ DOMAIN samples = {} /\ DOMAIN metric_samples = {} /\ DOMAIN work = {}
  BY DEF SamplesInit
<1>2. ManagerInv
  BY ManagerInitInv DEF SamplesInit
<1>3. QED
  BY <1>1, <1>2 DEF SamplesInv, MeasuredOK, WorkOK, RowsAreMeasured, NoneIsLost

LEMMA SamplesNextInv == SamplesInv /\ [SamplesNext]_samplesVars => SamplesInv'
<1> SUFFICES ASSUME SamplesInv, [SamplesNext]_samplesVars  PROVE SamplesInv'
  OBVIOUS
<1>1. CASE UNCHANGED samplesVars
  <2>1. MeasuredOK'
    BY <1>1, ManagerNextInv DEF samplesVars, SamplesInv, MeasuredOK
  <2>2. QED  BY <1>1, <2>1, SameSamples DEF samplesVars
<1>2. CASE SamplesNext
  BY <1>2, ManagerStepKeeps, MeasureKeeps, StoreRowKeeps, ClockKeeps, KillProberKeeps
     DEF SamplesNext
<1>3. QED  BY <1>1, <1>2

LEMMA SamplesAlways == SamplesSpec => []SamplesInv
BY SamplesInitInv, SamplesNextInv, PTL DEF SamplesSpec

(* Every row of the tables is one of a measurement of its target, its      *)
(* metric and its second, by a loop that samples the metric                *)
(* (prober.go:110-180, store.go:71-85).                                    *)
THEOREM RowsAreOfMeasurements == SamplesSpec => []RowsAreMeasured
BY SamplesAlways, PTL DEF SamplesInv

LEMMA NothingLeft ==
  ASSUME SamplesInv
  PROVE  MeasurementsStay
<1> SUFFICES ASSUME NEW m \in measured \ (missed \cup {work[h].of : h \in DOMAIN work}),
                    ~ \E n \in measured : Rivals(m, n),
                    NEW row \in ToSet(Rows(m))
             PROVE  Stored(row)
  BY DEF MeasurementsStay
<1>1. row \notin Pending(m)
  BY PendingIs
<1>2. QED  BY <1>1 DEF SamplesInv, NoneIsLost

(* A measurement whose rows were all inserted keeps them as they are       *)
(* through every later insert and restart; only a measurement of the same  *)
(* metric in the same second replaces them (store.go:71-85).               *)
THEOREM StoredMeasurementsStay == SamplesSpec => []MeasurementsStay
BY SamplesAlways, NothingLeft, PTL

-----------------------------------------------------------------------------
(* Sorting by rank: B[i] is what comes before i.                           *)

LEMMA Ranks ==
  ASSUME NEW S, IsFiniteSet(S), NEW B \in [S -> SUBSET S],
         \A i \in S : i \notin B[i],
         \A i, j \in S : \/ i = j
                         \/ i \in B[j] /\ B[i] \subseteq B[j]
                         \/ j \in B[i] /\ B[j] \subseteq B[i]
  PROVE  /\ Cardinality(S) \in Nat
         /\ \A i \in S : Cardinality(B[i]) \in 0..Cardinality(S) - 1
         /\ \A i, j \in S : i \in B[j] <=> Cardinality(B[i]) < Cardinality(B[j])
         /\ \A i, j \in S : Cardinality(B[i]) = Cardinality(B[j]) => i = j
         /\ \A k \in 1..Cardinality(S) : \E i \in S : Cardinality(B[i]) = k - 1
<1> DEFINE n == Cardinality(S)
           f == [i \in S |-> Cardinality(B[i])]
<1>1. n \in Nat
  BY FS_CardinalityType
<1>2. ASSUME NEW i \in S
      PROVE  IsFiniteSet(B[i]) /\ Cardinality(B[i]) \in Nat /\ Cardinality(B[i]) < n
  <2>1. B[i] \in SUBSET S /\ B[i] # S
    OBVIOUS
  <2>2. IsFiniteSet(B[i]) /\ Cardinality(B[i]) <= n /\ n # Cardinality(B[i])
    BY <2>1, FS_Subset
  <2>3. QED  BY <1>1, <2>2, FS_CardinalityType
<1>3. ASSUME NEW i \in S, NEW j \in S, i \in B[j]
      PROVE  Cardinality(B[i]) < Cardinality(B[j])
  <2>1. B[i] \in SUBSET B[j] /\ B[i] # B[j]
    BY <1>3
  <2>2. Cardinality(B[i]) <= Cardinality(B[j]) /\ Cardinality(B[j]) # Cardinality(B[i])
    BY <1>2, <2>1, FS_Subset
  <2>3. QED  BY <1>2, <2>2
<1>4. ASSUME NEW i \in S, NEW j \in S, Cardinality(B[i]) < Cardinality(B[j])
      PROVE  i \in B[j]
  <2>1. i # j /\ j \notin B[i]
    BY <1>2, <1>3, <1>4
  <2>2. QED  BY <2>1
<1>5. ASSUME NEW i \in S, NEW j \in S, Cardinality(B[i]) = Cardinality(B[j])
      PROVE  i = j
  <2>1. i \notin B[j] /\ j \notin B[i]
    BY <1>2, <1>3, <1>5
  <2>2. QED  BY <2>1
<1>6. ASSUME NEW k \in 1..n
      PROVE  \E i \in S : Cardinality(B[i]) = k - 1
  <2>1. f \in [S -> 0..n - 1]
    BY <1>1, <1>2
  <2>2. \A i, j \in S : f[i] = f[j] => i = j
    BY <1>5
  <2>3. f \in Injection(S, 0..n - 1)
    BY <2>1, <2>2 DEF Injection, IsInjective
  <2>4. IsFiniteSet(0..n - 1) /\ Cardinality(0..n - 1) = n
    <3>1. 0 \in Int /\ n - 1 \in Int /\ n > 0
      BY <1>1
    <3>2. /\ IsFiniteSet(0..n - 1)
          /\ Cardinality(0..n - 1) = IF 0 > n - 1 THEN 0 ELSE n - 1 - 0 + 1
      <4> HIDE DEF n
      <4> QED  BY ONLY <3>1, FS_Interval
    <3> HIDE DEF n
    <3> QED  BY <1>1, <3>1, <3>2
  <2>5. f \in Surjection(S, 0..n - 1)
    <3> HIDE DEF f
    <3> QED  BY <2>3, <2>4, FS_Injection
  <2>6. k - 1 \in 0..n - 1
    BY <1>1
  <2>7. \E i \in S : f[i] = k - 1
    <3> HIDE DEF f
    <3> QED  BY <2>5, <2>6 DEF Surjection
  <2>8. QED  BY <2>7
<1>7. QED  BY <1>1, <1>2, <1>3, <1>4, <1>5, <1>6

-----------------------------------------------------------------------------
(* The queries                                                             *)

LEMMA DescendingIs ==
  ASSUME NEW S \in SUBSET Nat, IsFiniteSet(S)
  PROVE  /\ Cardinality(S) \in Nat
         /\ DOMAIN Descending(S) = 1..Cardinality(S)
         /\ Descending(S) \in Seq(S) /\ Len(Descending(S)) = Cardinality(S)
         /\ \A i \in 1..Cardinality(S) : Descending(S)[i] \in S
         /\ \A i, j \in 1..Cardinality(S) : i < j => Descending(S)[i] > Descending(S)[j]
         /\ \A ts \in S : \E i \in 1..Cardinality(S) : Descending(S)[i] = ts
<1> DEFINE n == Cardinality(S)
           B == [ts \in S |-> {later \in S : later > ts}]
           d == Descending(S)
<1>1. /\ B \in [S -> SUBSET S]
      /\ \A i, j \in S : i \in B[j] <=> i > j
  OBVIOUS
<1>2. /\ \A i \in S : i \notin B[i]
      /\ \A i, j \in S : \/ i = j
                         \/ i \in B[j] /\ B[i] \subseteq B[j]
                         \/ j \in B[i] /\ B[j] \subseteq B[i]
  <2>1. ASSUME NEW i \in S  PROVE i \notin B[i]
    BY <1>1
  <2>2. ASSUME NEW i \in S, NEW j \in S, i > j
        PROVE  i \in B[j] /\ B[i] \subseteq B[j]
    <3>1. \A l \in B[i] : l \in S /\ l > j
      BY <1>1, <2>2
    <3>2. QED  BY <1>1, <2>2, <3>1
  <2>3. \A i, j \in S : i = j \/ i > j \/ j > i
    OBVIOUS
  <2> HIDE DEF B
  <2>4. QED  BY <2>1, <2>2, <2>3
<1>3. d = [i \in 1..n |-> CHOOSE ts \in S : Cardinality({later \in S : later > ts}) = i - 1]
  BY DEF Descending
<1>4. \A ts \in S : Cardinality({later \in S : later > ts}) = Cardinality(B[ts])
  OBVIOUS
<1> HIDE DEF B, d, n
<1>5. /\ n \in Nat
      /\ \A i \in S : Cardinality(B[i]) \in 0..n - 1
      /\ \A i, j \in S : i \in B[j] <=> Cardinality(B[i]) < Cardinality(B[j])
      /\ \A i, j \in S : Cardinality(B[i]) = Cardinality(B[j]) => i = j
      /\ \A k \in 1..n : \E i \in S : Cardinality(B[i]) = k - 1
  BY <1>1, <1>2, Ranks DEF n
<1>6. ASSUME NEW i \in 1..n
      PROVE  d[i] \in S /\ Cardinality(B[d[i]]) = i - 1
  <2>1. d[i] = CHOOSE ts \in S : Cardinality({later \in S : later > ts}) = i - 1
    BY <1>3
  <2>2. \E ts \in S : Cardinality({later \in S : later > ts}) = i - 1
    BY <1>4, <1>5
  <2>3. d[i] \in S /\ Cardinality({later \in S : later > d[i]}) = i - 1
    BY <2>1, <2>2
  <2>4. QED  BY <1>4, <2>3
<1>7. DOMAIN d = 1..n /\ d \in Seq(S) /\ Len(d) = n
  <2>1. d \in [1..n -> S]
    BY <1>3, <1>6
  <2>2. QED  BY <1>5, <2>1
<1>8. ASSUME NEW i \in 1..n, NEW j \in 1..n, i < j
      PROVE  d[i] > d[j]
  <2>1. Cardinality(B[d[i]]) < Cardinality(B[d[j]])
    BY <1>6, <1>8
  <2>2. d[i] \in B[d[j]]
    BY <1>5, <1>6, <2>1
  <2>3. QED  BY <1>1, <1>6, <2>2
<1>9. ASSUME NEW ts \in S
      PROVE  \E i \in 1..n : d[i] = ts
  <2>1. PICK i \in 1..n : Cardinality(B[ts]) = i - 1
    <3>1. Cardinality(B[ts]) + 1 \in 1..n
      BY <1>5
    <3>2. PICK c \in 0..n - 1 : c = Cardinality(B[ts])
      BY <1>5
    <3>3. c + 1 \in 1..n /\ c = (c + 1) - 1
      BY <1>5
    <3>4. QED  BY <3>2, <3>3
  <2>2. QED  BY <1>5, <1>6, <2>1
<1>10. QED  BY <1>5, <1>6, <1>7, <1>8, <1>9 DEF n, d

LEMMA QueryIsNewest ==
  ASSUME NEW times \in SUBSET Nat, IsFiniteSet(times), NEW since \in Int,
         NEW limit \in Nat \ {0}
  PROVE  IsNewest(Query(times, since, limit), times, since, limit)
<1> DEFINE S == {ts \in times : ts >= since}
           n == Cardinality(S)
           d == Descending(S)
           k == IF n <= limit THEN n ELSE limit
           q == Query(times, since, limit)
<1>1. S \in SUBSET Nat /\ IsFiniteSet(S)
  BY FS_Subset
<1>2. /\ n \in Nat /\ DOMAIN d = 1..n /\ d \in Seq(S) /\ Len(d) = n
      /\ \A i \in 1..n : d[i] \in S
      /\ \A i, j \in 1..n : i < j => d[i] > d[j]
      /\ \A ts \in S : \E i \in 1..n : d[i] = ts
  <2> HIDE DEF S
  <2> QED  BY <1>1, DescendingIs
<1>3. k \in Nat /\ k <= n /\ k <= limit /\ (k = n \/ k = limit)
  BY <1>2
<1>4. Min({Len(d), limit}) = k
  <2>1. Len(d) = n
    BY <1>2
  <2> HIDE DEF d
  <2>2. Min({n, limit}) = CHOOSE x \in {n, limit} : \A y \in {n, limit} : x <= y
    BY DEF Min
  <2> HIDE DEF n
  <2>3. k \in {n, limit} /\ \A y \in {n, limit} : k <= y
    BY <1>2
  <2>4. \A x \in {n, limit} : (\A y \in {n, limit} : x <= y) => x = k
    BY <1>2
  <2>5. QED  BY <2>1, <2>2, <2>3, <2>4
<1>5. q = Reverse(SubSeq(d, 1, k))
  BY <1>4 DEF Query, Limited
<1> HIDE DEF S, n, d, k, q
<1>6. /\ Len(SubSeq(d, 1, k)) = k
      /\ \A i \in 1..k : SubSeq(d, 1, k)[i] = d[i]
  <2>1. \A i \in 1..k : d[i] \in S
    BY <1>2, <1>3
  <2>2. 1 \in Int /\ k \in Int
    BY <1>3
  <2>3. /\ Len(SubSeq(d, 1, k)) = IF 1 <= k THEN k - 1 + 1 ELSE 0
        /\ \A i \in 1..k - 1 + 1 : SubSeq(d, 1, k)[i] = d[1 + i - 1]
    BY ONLY <2>1, <2>2, SubSeqProperties
  <2>4. k - 1 + 1 = k /\ \A i \in 1..k : 1 + i - 1 = i
    BY <1>3
  <2>5. QED  BY <1>3, <2>3, <2>4
<1>7. q = [i \in 1..k |-> d[k - i + 1]]
  <2>1. q = [i \in 1..k |-> SubSeq(d, 1, k)[k - i + 1]]
    BY <1>5, <1>6 DEF Reverse
  <2>2. \A i \in 1..k : k - i + 1 \in 1..k
    BY <1>3
  <2>3. \A i \in 1..k : SubSeq(d, 1, k)[k - i + 1] = d[k - i + 1]
    BY <1>6, <2>2
  <2>4. QED  BY <2>1, <2>3
<1>8. /\ DOMAIN q = 1..k /\ Len(q) = k
      /\ \A i \in 1..k : q[i] = d[k - i + 1] /\ k - i + 1 \in 1..k /\ k - i + 1 \in 1..n
      /\ \A i \in 1..k : q[i] \in S
  <2>1. \A i \in 1..k : k - i + 1 \in 1..k /\ k - i + 1 \in 1..n
    BY <1>2, <1>3
  <2>2. \A i \in 1..k : q[i] = d[k - i + 1] /\ d[k - i + 1] \in S
    BY <1>2, <1>7, <2>1
  <2>3. q \in [1..k -> S]
    BY <1>7, <2>2
  <2>4. QED  BY <1>3, <2>1, <2>2, <2>3
<1>9. \A i \in DOMAIN q : q[i] \in times /\ q[i] >= since
  BY <1>8 DEF S
<1>10. ASSUME NEW i \in DOMAIN q, NEW j \in DOMAIN q, i < j
       PROVE  q[i] < q[j]
  <2>1. k - j + 1 < k - i + 1
    BY <1>3, <1>8, <1>10
  <2>2. d[k - j + 1] > d[k - i + 1]
    BY <1>2, <1>8, <2>1
  <2>3. q[i] \in Nat /\ q[j] \in Nat
    BY <1>1, <1>8
  <2>4. QED  BY <1>8, <2>2, <2>3
(* What is dropped comes after the first k of the descending order.        *)
<1>11. ASSUME NEW ts \in S \ ToSet(q)
       PROVE  \E j \in 1..n : d[j] = ts /\ j > k
  <2>1. PICK j \in 1..n : d[j] = ts
    BY <1>2
  <2>2. ASSUME j <= k  PROVE FALSE
    <3>1. k - j + 1 \in 1..k /\ k - (k - j + 1) + 1 = j
      BY <1>2, <1>3, <2>2
    <3>2. q[k - j + 1] = ts
      BY <1>8, <2>1, <3>1
    <3>3. QED  BY <1>8, <3>1, <3>2 DEF ToSet
  <2>3. QED  BY <1>2, <1>3, <2>1, <2>2
<1>12. /\ Len(q) <= limit
       /\ S \ ToSet(q) # {} => Len(q) = limit
  <2>1. \A ts \in S \ ToSet(q) : k = limit
    BY <1>2, <1>3, <1>11
  <2>2. QED  BY <1>3, <1>8, <2>1
<1>13. ASSUME NEW ts \in S \ ToSet(q), NEW i \in DOMAIN q
       PROVE  ts < q[i]
  <2>1. PICK j \in 1..n : d[j] = ts /\ j > k
    BY <1>11
  <2>2. k - i + 1 < j
    BY <1>3, <1>8, <2>1
  <2>3. d[k - i + 1] > d[j]
    BY <1>2, <1>8, <2>2
  <2>4. q[i] \in Nat /\ ts \in Nat
    BY <1>1, <1>8
  <2>5. QED  BY <1>8, <2>1, <2>3, <2>4
<1>14. QED  BY <1>9, <1>10, <1>12, <1>13 DEF IsNewest, S, q

(* The keys of the tables are of the form the queries ask for, and of a    *)
(* second that is past.                                                    *)
LEMMA KeysOfTables ==
  ASSUME SamplesInv
  PROVE  /\ \A key \in DOMAIN samples : key = <<key[1], key[2]>> /\ key[2] \in 1..now
         /\ \A key \in DOMAIN metric_samples :
              key = MetricKey(key[1], key[2], key[3]) /\ key[3] \in 1..now
<1>1. ASSUME NEW key \in DOMAIN samples
      PROVE  key = <<key[1], key[2]>> /\ key[2] \in 1..now
  <2>1. PICK m \in measured : Row("samples", key, samples[key]) \in ToSet(Rows(m))
    BY DEF SamplesInv, RowsAreMeasured
  <2>2. PICK row \in ToSet(Rows(m)) : row = Row("samples", key, samples[key])
    BY <2>1
  <2>3. row.table = "samples" /\ row.key = key
    BY <2>2 DEF Row
  <2>4. m.loop \in Loops /\ m.ts \in 1..now
    BY DEF SamplesInv, MeasuredOK
  <2>5. key = <<m.loop.target.id, m.ts>>
    BY <2>3, <2>4, KeysAre
  <2>6. QED  BY <2>4, <2>5
<1>2. ASSUME NEW key \in DOMAIN metric_samples
      PROVE  key = MetricKey(key[1], key[2], key[3]) /\ key[3] \in 1..now
  <2>1. PICK m \in measured :
          Row("metric_samples", key, metric_samples[key]) \in ToSet(Rows(m))
    BY DEF SamplesInv, RowsAreMeasured
  <2>2. PICK row \in ToSet(Rows(m)) :
          row = Row("metric_samples", key, metric_samples[key])
    BY <2>1
  <2>3. row.table = "metric_samples" /\ row.key = key
    BY <2>2 DEF Row
  <2>4. m.loop \in Loops /\ m.ts \in 1..now
    BY DEF SamplesInv, MeasuredOK
  <2>5. PICK metric \in MetricsOf(m.loop.name) :
          key = MetricKey(m.loop.target.id, metric, m.ts)
    BY <2>3, <2>4, KeysAre
  <2>6. QED  BY <2>4, <2>5 DEF MetricKey
<1>3. QED  BY <1>1, <1>2

LEMMA QueriesAreNewest ==
  ASSUME SamplesInv
  PROVE  NewestWithoutGaps
<1>1. now \in Nat
  BY DEF SamplesInv, MeasuredOK
<1>2. ASSUME NEW times \in SUBSET (1..now)
      PROVE  times \in SUBSET Nat /\ IsFiniteSet(times)
  <2>1. IsFiniteSet(1..now)
    BY <1>1, FS_Interval
  <2>2. \A ts \in 1..now : ts \in Nat
    BY <1>1
  <2>3. times \in SUBSET Nat
    BY <2>2
  <2>4. IsFiniteSet(times)
    BY <2>1, FS_Subset
  <2>5. QED  BY <2>3, <2>4
<1> SUFFICES ASSUME NEW id \in Ids, NEW secs \in 0..now, NEW limit \in 1..now
             PROVE  /\ IsNewest(apiSeries(id, secs, limit),
                                {key[2] : key \in {k \in DOMAIN samples : k[1] = id}},
                                now - secs, limit)
                    /\ \A metric \in Metrics :
                         IsNewest(apiMetrics(id, metric, secs, limit),
                                  {key[3] : key \in {k \in DOMAIN metric_samples :
                                                       k[1] = id /\ k[2] = metric}},
                                  now - secs, limit)
  BY DEF NewestWithoutGaps
<1>3. now - secs \in Int /\ limit \in Nat \ {0}
  BY <1>1
<1>4. IsNewest(apiSeries(id, secs, limit),
               {key[2] : key \in {k \in DOMAIN samples : k[1] = id}},
               now - secs, limit)
  <2> DEFINE times == {ts \in 1..now : <<id, ts>> \in DOMAIN samples}
  <2>1. times = {key[2] : key \in {k \in DOMAIN samples : k[1] = id}}
    <3>1. \A ts : <<id, ts>>[1] = id /\ <<id, ts>>[2] = ts
      OBVIOUS
    <3>2. \A key \in DOMAIN samples :
            key[1] = id => key[2] \in 1..now /\ <<id, key[2]>> \in DOMAIN samples
      BY KeysOfTables
    <3>3. QED  BY <3>1, <3>2
  <2>2. apiSeries(id, secs, limit) = Query(times, now - secs, limit)
    BY DEF apiSeries, Series
  <2>3. times \in SUBSET Nat /\ IsFiniteSet(times)
    BY <1>2
  <2> HIDE DEF times
  <2>4. QED  BY <1>3, <2>1, <2>2, <2>3, QueryIsNewest
<1>5. ASSUME NEW metric \in Metrics
      PROVE  IsNewest(apiMetrics(id, metric, secs, limit),
                      {key[3] : key \in {k \in DOMAIN metric_samples :
                                           k[1] = id /\ k[2] = metric}},
                      now - secs, limit)
  <2> DEFINE times == {ts \in 1..now : MetricKey(id, metric, ts) \in DOMAIN metric_samples}
  <2>1. times = {key[3] : key \in {k \in DOMAIN metric_samples :
                                     k[1] = id /\ k[2] = metric}}
    <3>1. \A ts : /\ MetricKey(id, metric, ts)[1] = id
                  /\ MetricKey(id, metric, ts)[2] = metric
                  /\ MetricKey(id, metric, ts)[3] = ts
      BY DEF MetricKey
    <3>2. \A key \in DOMAIN metric_samples :
            key[1] = id /\ key[2] = metric =>
              key[3] \in 1..now /\ MetricKey(id, metric, key[3]) \in DOMAIN metric_samples
      BY KeysOfTables
    <3>3. QED  BY <3>1, <3>2
  <2>2. apiMetrics(id, metric, secs, limit) = Query(times, now - secs, limit)
    BY DEF apiMetrics, MetricSeries
  <2>3. times \in SUBSET Nat /\ IsFiniteSet(times)
    BY <1>2
  <2> HIDE DEF times
  <2>4. QED  BY <1>3, <2>1, <2>2, <2>3, QueryIsNewest
<1>6. QED  BY <1>4, <1>5

(* For every content of the tables, range and limit, a series is the       *)
(* newest rows of its range, in ascending order: nothing between two of    *)
(* them is left out, and nothing at all below the limit                    *)
(* (store.go:87-135, server.go:119-158).                                   *)
THEOREM SeriesAreNewest == SamplesSpec => []NewestWithoutGaps
BY SamplesAlways, QueriesAreNewest, PTL

-----------------------------------------------------------------------------
(* Bursts                                                                  *)

(* The answers in ascending order: p[k] is the ping at place k.            *)
LEMMA SortedIs ==
  ASSUME NEW pings \in Seq(Nat)
  PROVE  /\ Cardinality(Answered(pings)) \in Nat
         /\ Len(Sorted(pings)) = Cardinality(Answered(pings))
         /\ \A i \in Answered(pings) :
              \E k \in 1..Len(Sorted(pings)) : Sorted(pings)[k] = pings[i]
         /\ \A k \in 1..Len(Sorted(pings)) :
              \E i \in Answered(pings) : /\ Sorted(pings)[k] = pings[i]
                                         /\ IsFiniteSet(Before(pings, i))
                                         /\ Cardinality(Before(pings, i)) = k - 1
         /\ \A j, k \in 1..Len(Sorted(pings)) : j < k => Sorted(pings)[j] <= Sorted(pings)[k]
<1> DEFINE S == Answered(pings)
           B == [i \in S |-> Before(pings, i)]
           n == Cardinality(S)
           s == Sorted(pings)
<1>1. DOMAIN pings = 1..Len(pings) /\ Len(pings) \in Nat
  OBVIOUS
<1>2. S \subseteq 1..Len(pings) /\ \A i \in S : i \in Nat /\ pings[i] \in Nat
  BY <1>1 DEF Answered
<1>3. IsFiniteSet(S)
  <2>1. IsFiniteSet(1..Len(pings))
    BY <1>1, FS_Interval
  <2>2. QED  BY <1>2, <2>1, FS_Subset
<1>4. /\ B \in [S -> SUBSET S]
      /\ \A i, j \in S : i \in B[j] <=> \/ pings[i] < pings[j]
                                        \/ pings[i] = pings[j] /\ i < j
      /\ \A i \in S : Before(pings, i) = B[i]
  BY DEF Before
<1>5. s = [k \in 1..n |->
             pings[CHOOSE i \in S : Cardinality(Before(pings, i)) = k - 1]]
  BY DEF Sorted
<1> HIDE DEF S, B, n, s
<1>6. ASSUME NEW i \in S  PROVE i \notin B[i]
  BY <1>2, <1>4
<1>7. ASSUME NEW i \in S, NEW j \in S, i # j
      PROVE  \/ i \in B[j] /\ B[i] \subseteq B[j]
             \/ j \in B[i] /\ B[j] \subseteq B[i]
  <2>1. ASSUME NEW a \in S, NEW b \in S, a \in B[b]
        PROVE  B[a] \subseteq B[b]
    <3>1. ASSUME NEW c \in B[a]  PROVE c \in B[b]
      <4>1. c \in S
        BY <1>4
      <4>2. /\ pings[c] < pings[a] \/ (pings[c] = pings[a] /\ c < a)
            /\ pings[a] < pings[b] \/ (pings[a] = pings[b] /\ a < b)
        BY <1>4, <2>1, <3>1, <4>1
      <4>3. /\ a \in Nat /\ b \in Nat /\ c \in Nat
            /\ pings[a] \in Nat /\ pings[b] \in Nat /\ pings[c] \in Nat
        BY <1>2, <4>1
      <4>4. pings[c] < pings[b] \/ (pings[c] = pings[b] /\ c < b)
        BY ONLY <4>2, <4>3
      <4>5. QED  BY <1>4, <4>1, <4>4
    <3>2. QED  BY <3>1
  <2>2. i \in B[j] \/ j \in B[i]
    BY <1>2, <1>4, <1>7
  <2>3. QED  BY <2>1, <2>2
<1>8. /\ n \in Nat
      /\ \A i \in S : Cardinality(B[i]) \in 0..n - 1
      /\ \A i, j \in S : i \in B[j] <=> Cardinality(B[i]) < Cardinality(B[j])
      /\ \A i, j \in S : Cardinality(B[i]) = Cardinality(B[j]) => i = j
      /\ \A k \in 1..n : \E i \in S : Cardinality(B[i]) = k - 1
  BY <1>3, <1>4, <1>6, <1>7, Ranks DEF n
<1> DEFINE p == [k \in 1..n |-> CHOOSE i \in S : Cardinality(Before(pings, i)) = k - 1]
<1>9. ASSUME NEW k \in 1..n
      PROVE  p[k] \in S /\ Cardinality(B[p[k]]) = k - 1 /\ s[k] = pings[p[k]]
  <2>1. \E i \in S : Cardinality(Before(pings, i)) = k - 1
    BY <1>4, <1>8
  <2>2. p[k] \in S /\ Cardinality(Before(pings, p[k])) = k - 1
    BY <2>1
  <2>3. QED  BY <1>4, <1>5, <2>2
<1> HIDE DEF p
<1>10. Len(s) = n
  <2>1. s \in [1..n -> Nat]
    <3>1. DOMAIN s = 1..n /\ s = [k \in 1..n |-> s[k]]
      BY <1>5
    <3>2. \A k \in 1..n : s[k] \in Nat
      BY <1>2, <1>9
    <3>3. QED  BY <3>1, <3>2
  <2>2. QED  BY <1>8, <2>1
<1>11. ASSUME NEW i \in S  PROVE \E k \in 1..n : s[k] = pings[i]
  <2>1. PICK c \in 0..n - 1 : c = Cardinality(B[i])
    BY <1>8
  <2>2. c + 1 \in 1..n /\ (c + 1) - 1 = c
    BY <1>8
  <2>3. p[c + 1] = i
    BY <1>8, <1>9, <2>1, <2>2
  <2>4. QED  BY <1>9, <2>2, <2>3
<1>12. ASSUME NEW k \in 1..n
       PROVE  \E i \in S : /\ s[k] = pings[i] /\ IsFiniteSet(Before(pings, i))
                           /\ Cardinality(Before(pings, i)) = k - 1
  <2>1. /\ p[k] \in S /\ Cardinality(B[p[k]]) = k - 1 /\ s[k] = pings[p[k]]
        /\ B[p[k]] \in SUBSET S /\ B[p[k]] = Before(pings, p[k])
    BY <1>4, <1>9
  <2>2. IsFiniteSet(B[p[k]])
    BY <1>3, <2>1, FS_Subset
  <2>3. QED  BY <2>1, <2>2
<1>13. ASSUME NEW j \in 1..n, NEW k \in 1..n, j < k
       PROVE  s[j] <= s[k]
  <2>1. Cardinality(B[p[j]]) < Cardinality(B[p[k]])
    BY <1>9, <1>13
  <2>2. p[j] \in B[p[k]]
    BY <1>8, <1>9, <2>1
  <2>3. PICK a \in S, b \in S : a = p[j] /\ b = p[k] /\ a \in B[b]
    BY <1>9, <2>2
  <2>4. /\ pings[a] < pings[b] \/ pings[a] = pings[b]
        /\ pings[a] \in Nat /\ pings[b] \in Nat
    BY <1>2, <1>4, <2>3
  <2>5. s[j] = pings[a] /\ s[k] = pings[b]
    BY <1>9, <2>3
  <2>6. QED  BY <2>4, <2>5
<1>14. QED  BY <1>8, <1>10, <1>11, <1>12, <1>13 DEF S, n, s

(* A value has the rank of its place.                                      *)
LEMMA PlaceIsRank ==
  ASSUME NEW pings \in Seq(Nat), NEW k \in 1..Len(Sorted(pings))
  PROVE  HasRank(Sorted(pings)[k], pings, k - 1)
<1> DEFINE v == Sorted(pings)[k]
           L == {i \in DOMAIN pings : pings[i] # Lost /\ pings[i] < v}
           G == {i \in DOMAIN pings : pings[i] # Lost /\ pings[i] <= v}
<1>1. PICK i \in Answered(pings) : /\ v = pings[i] /\ IsFiniteSet(Before(pings, i))
                                   /\ Cardinality(Before(pings, i)) = k - 1
  BY SortedIs
<1>2. /\ DOMAIN pings = 1..Len(pings) /\ Len(pings) \in Nat
      /\ \A j \in DOMAIN pings : pings[j] \in Nat
  OBVIOUS
<1>3. L \subseteq Before(pings, i)
  BY <1>1, <1>2 DEF Before, Answered
<1>4. Before(pings, i) \subseteq G /\ i \in G /\ i \notin Before(pings, i)
  BY <1>1, <1>2 DEF Before, Answered
<1>5. IsFiniteSet(G)
  <2>1. IsFiniteSet(1..Len(pings))
    BY <1>2, FS_Interval
  <2>2. G \in SUBSET (1..Len(pings))
    BY <1>2
  <2>3. QED  BY <2>1, <2>2, FS_Subset
<1> HIDE DEF v, L, G
<1>6. Cardinality(L) <= k - 1
  BY <1>1, <1>3, FS_Subset
<1>7. k - 1 < Cardinality(G)
  <2>1. /\ Cardinality(Before(pings, i)) <= Cardinality(G)
        /\ Cardinality(G) # Cardinality(Before(pings, i))
    BY <1>4, <1>5, FS_Subset
  <2>2. Cardinality(G) \in Nat /\ k - 1 \in Int
    BY <1>5, FS_CardinalityType, SortedIs
  <2>3. QED  BY <1>1, <2>1, <2>2
<1>8. QED  BY <1>6, <1>7 DEF HasRank, v, L, G

LEMMA BurstSummary ==
  ASSUME NEW pings \in Seq(Nat)
  PROVE  Summarizes(BurstResult(pings), pings)
<1> DEFINE s == Sorted(pings)
           n == Cardinality(Answered(pings))
           vals == {pings[i] : i \in DOMAIN pings} \ {Lost}
           r == BurstResult(pings)
           loss == <<Len(pings) - n, Len(pings)>>
<1>1. n \in Nat /\ Len(s) = n
  BY SortedIs
<1>2. \A v : v \in vals <=> \E i \in Answered(pings) : v = pings[i]
  BY DEF Answered
<1>3. vals \subseteq Nat
  <2>1. \A i \in DOMAIN pings : pings[i] \in Nat
    OBVIOUS
  <2>2. QED  BY <2>1
<1>4. ASSUME NEW k \in 1..n  PROVE s[k] \in vals
  <2>1. \E i \in Answered(pings) : s[k] = pings[i]
    BY <1>1, SortedIs
  <2> HIDE DEF vals, s, n
  <2>2. QED  BY <1>2, <2>1
<1>5. ASSUME NEW v \in vals  PROVE \E k \in 1..n : s[k] = v
  <2>1. PICK i \in Answered(pings) : v = pings[i]
    <3> HIDE DEF vals, s, n
    <3> QED  BY <1>2
  <2>2. \E k \in 1..n : s[k] = pings[i]
    BY <1>1, SortedIs
  <2> HIDE DEF vals, s, n
  <2>3. QED  BY <2>1, <2>2
<1>6. \A j, k \in 1..n : j < k => s[j] <= s[k]
  BY <1>1, SortedIs
<1>7. \A k \in 1..n : HasRank(s[k], pings, k - 1)
  BY <1>1, PlaceIsRank
<1>8. n = Cardinality({i \in DOMAIN pings : pings[i] # Lost})
  BY DEF Answered
<1>9. /\ s = <<>> => r = [min |-> Null, p50 |-> Null, max |-> Null, loss |-> loss]
      /\ s # <<>> => r = [min |-> s[1], p50 |-> percentile(s), max |-> s[n], loss |-> loss]
  BY <1>1 DEF BurstResult
<1> HIDE DEF s, n, vals, r
<1>10. CASE n = 0
  <2>1. vals = {}
    BY <1>5, <1>10
  <2>2. s = <<>>
    <3>1. s = [k \in {} |-> pings[CHOOSE i \in Answered(pings) :
                                    Cardinality(Before(pings, i)) = k - 1]]
      BY <1>10 DEF s, n, Sorted
    <3>2. QED  BY <3>1
  <2>3. r.loss = loss /\ r.min = Null /\ r.p50 = Null /\ r.max = Null
    BY <1>9, <2>2
  <2>4. QED  BY <1>8, <2>1, <2>3 DEF Summarizes, vals, r
<1>11. CASE n > 0
  <2>1. s # <<>>
    <3>1. Len(<<>>) = 0
      OBVIOUS
    <3>2. s = <<>> => Len(s) = 0
      BY <3>1, Zenon
    <3>3. QED  BY <1>1, <1>11, <3>2
  <2>2. r.loss = loss /\ r.min = s[1] /\ r.p50 = percentile(s) /\ r.max = s[n]
    BY <1>9, <2>1
  <2>3. 1 \in 1..n /\ n \in 1..n
    BY <1>1, <1>11
  <2>4. \A k \in 1..n : s[1] <= s[k] /\ s[k] <= s[n]
    <3>1. ASSUME NEW k \in 1..n  PROVE s[1] <= s[k] /\ s[k] <= s[n]
      <4>1. s[1] \in Nat /\ s[k] \in Nat /\ s[n] \in Nat
        BY <1>3, <1>4, <2>3
      <4>2. (k = 1 \/ 1 < k) /\ (k = n \/ k < n)
        BY <1>1
      <4>3. (1 < k => s[1] <= s[k]) /\ (k < n => s[k] <= s[n])
        BY <1>6, <2>3
      <4>4. QED  BY <4>1, <4>2, <4>3
    <3>2. QED  BY <3>1
  <2>5. /\ r.min \in vals /\ \A v \in vals : r.min <= v
        /\ r.max \in vals /\ \A v \in vals : v <= r.max
    BY <1>4, <1>5, <2>2, <2>3, <2>4
  <2> DEFINE lower == (n - 1) \div 2
             upper == n \div 2
  <2>6. /\ lower + 1 \in 1..n /\ (lower + 1) - 1 = lower
        /\ upper + 1 \in 1..n /\ (upper + 1) - 1 = upper
    BY <1>1, <1>11
  <2>7. r.p50 = s[lower + 1] + s[upper + 1]
    BY <1>1, <2>2 DEF percentile
  <2> HIDE DEF lower, upper
  <2>8. /\ s[lower + 1] \in vals /\ HasRank(s[lower + 1], pings, lower)
        /\ s[upper + 1] \in vals /\ HasRank(s[upper + 1], pings, upper)
    BY <1>4, <1>7, <2>6
  <2>9. \E l, u \in vals : /\ HasRank(l, pings, lower) /\ HasRank(u, pings, upper)
                           /\ r.p50 = l + u
    BY <2>7, <2>8
  <2>10. vals # {}
    BY <2>5
  <2>11. QED  BY <1>8, <2>2, <2>5, <2>9, <2>10 DEF Summarizes, vals, r, lower, upper
<1>12. QED  BY <1>1, <1>10, <1>11

LEMMA MeasuredBursts ==
  ASSUME SamplesInv
  PROVE  BurstIsSummarized
<1>1. EveryBurstIsSummarized
  BY SamplesAssumption, BurstSummary DEF EveryBurstIsSummarized
<1>2. ASSUME NEW m \in measured, MetricsOf(m.loop.name) \subseteq ProbeMetrics
      PROVE  Summarizes(BurstResult(m.outcome), m.outcome)
  <2>1. m.loop \in Loops /\ m.outcome \in Outcomes(m.loop)
    BY DEF SamplesInv, MeasuredOK
  <2>2. PICK monitor \in ProbeMetrics :
          m.outcome \in [1..runProbeBurst(m.loop.target,
                                          m.loop.target.monitors[monitor]).probes
                           -> Latencies \cup {Lost}]
    BY <1>2, <2>1 DEF Outcomes, ProbeMetrics
  <2>3. m.loop.target.monitors[monitor].burst \in Int
    <3>1. m.loop.target.monitors \in MonitorsType
      BY <2>1, LoopSamples DEF TargetType
    <3>2. m.loop.target.monitors[monitor] \in ProbeMonitor
      BY <3>1 DEF MonitorsType, MonitorOf, Metrics
    <3>3. QED  BY <3>2 DEF ProbeMonitor
  <2>4. PICK probes \in Nat : m.outcome \in [1..probes -> Latencies \cup {Lost}]
    <3>1. PositiveOr(m.loop.target.monitors[monitor].burst, 5) \in Nat
      BY <2>3 DEF PositiveOr
    <3>2. QED  BY <2>2, <3>1 DEF runProbeBurst
  <2>5. Latencies \cup {Lost} \subseteq Nat
    BY SamplesAssumption DEF Lost
  <2>6. m.outcome \in Seq(Nat)
    <3>1. m.outcome \in [1..probes -> Nat]
      BY <2>4, <2>5
    <3>2. QED  BY <3>1
  <2>7. QED  BY <2>6, BurstSummary
<1>3. QED  BY <1>1, <1>2 DEF BurstIsSummarized

(* For every burst, of any length, the smallest, median and largest        *)
(* latency and the loss that are stored are those found by counting        *)
(* (prober.go:209-266).                                                    *)
THEOREM BurstsAreSummarized ==
  \A pings \in Seq(Nat) : Summarizes(BurstResult(pings), pings)
BY BurstSummary

(* So is every burst the loops run.                                        *)
THEOREM StoredBurstsAreSummarized == SamplesSpec => []BurstIsSummarized
BY SamplesAlways, MeasuredBursts, PTL
===============================================================================
