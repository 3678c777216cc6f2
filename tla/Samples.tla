--------------------------------- MODULE Samples ---------------------------------
(***************************************************************************)
(* What the loops of the manager measure and store: the two tables of      *)
(* internal/store/store.go, the rows one pass of a loop inserts into them  *)
(* (internal/app/prober.go, lines 110-180 and 276-291), and the query      *)
(* behind /api/series and /api/metrics (server.go, lines 119-158).         *)
(*                                                                         *)
(* A pass of a loop is a measurement, stamped with the second it ended in, *)
(* and then one INSERT OR REPLACE after another. An insert that fails is   *)
(* logged and the next one goes on. The process can be killed at any step; *)
(* the tables stay.                                                        *)
(***************************************************************************)
EXTENDS Manager, Burst, SequencesExt

CONSTANTS
  Latencies,       \* latencies of a ping
  Bursts,          \* bursts of other lengths, for BurstIsSummarized
  MaxTime,         \* bounds the clock
  MaxMeasured      \* bounds the measurements

ASSUME SamplesAssumption == Latencies \subseteq Nat \ {Lost} /\ Bursts \subseteq Seq(Nat)

VARIABLES
  now,             \* the clock, in seconds
  samples,         \* table samples: a function on its keys <<id, ts>>
  metric_samples,  \* table metric_samples, on its keys <<id, metric, ts>>
  work,            \* the rows each measured loop still has to insert
  measured,        \* history: the measurements so far
  missed           \* history: those of which a row was not inserted

samplesVars == <<managerVars, now, samples, metric_samples, work, measured, missed>>

(* What the server answers a pass of a loop: the pings of a burst of the   *)
(* monitor's settings, or the one status request, lost or not.             *)
Outcomes(h) ==
  IF MetricsOf(h.name) \subseteq ProbeMetrics
    THEN LET mon == h.target.monitors[IF h.name = "loss" THEN "loss" ELSE "latency"]
         IN [1..runProbeBurst(h.target, mon).probes -> Latencies \cup {Lost}]
    ELSE [1..1 -> {Lost, 1}]

(* INSERT OR REPLACE.                                                      *)
Replaced(table, key, value) ==
  [k \in DOMAIN table \cup {key} |-> IF k = key THEN value ELSE table[k]]

Row(table, key, value) == [table |-> table, key |-> key, value |-> value]

(* Mutant: a metric is not part of the key.                                *)
MetricKeySeconds(id, metric, ts) == <<id, "any", ts>>

MetricKey(id, metric, ts) == <<id, metric, ts>>

(* insertLegacySample: a row for the table of older versions.              *)
LegacyRow(m) ==
  Row("samples", <<m.loop.target.id, m.ts>>, BurstResult(m.outcome))

(* The value of the metric is the median; latencyExtra holds the rest.     *)
LatencyRows(m) ==
  << LegacyRow(m),
     Row("metric_samples", MetricKey(m.loop.target.id, "latency", m.ts),
         BurstResult(m.outcome)) >>

LossRows(m) ==
  << Row("metric_samples", MetricKey(m.loop.target.id, "loss", m.ts),
         [loss |-> BurstResult(m.outcome).loss]) >>

(* The rows of one pass, in the order they are inserted.                   *)
Rows(m) ==
  CASE m.loop.name = "latency"      -> LatencyRows(m)
    [] m.loop.name = "loss"         -> LossRows(m)
    [] m.loop.name = "latency-loss" -> LatencyRows(m) \o LossRows(m)
    [] OTHER -> << Row("metric_samples",
                       MetricKey(m.loop.target.id, m.loop.name, m.ts),
                       [status |-> m.outcome[1]]) >>

-----------------------------------------------------------------------------
(* A pass up to its result: the status request or the last ping returned.  *)
Measure(h) ==
  /\ h \in probing /\ h \notin DOMAIN work
  /\ Cardinality(measured) < MaxMeasured
  /\ \E outcome \in Outcomes(h) :
       LET m == [loop |-> h, ts |-> now, outcome |-> outcome]
       IN /\ measured' = measured \cup {m}
          /\ work' = Replaced(work, h, [of |-> m, rows |-> Rows(m)])
  /\ UNCHANGED <<managerVars, now, samples, metric_samples, missed>>

(* Mutant: a row is stamped when it is stored.                             *)
StoreRowNow(h, ok) ==
  /\ h \in DOMAIN work
  /\ LET row == Head(work[h].rows)
         put(table, t) ==
           IF ok /\ row.table = table
             THEN Replaced(t, [row.key EXCEPT ![Len(row.key)] = now], row.value) ELSE t
     IN /\ samples' = put("samples", samples)
        /\ metric_samples' = put("metric_samples", metric_samples)
  /\ missed' = IF ok THEN missed ELSE missed \cup {work[h].of}
  /\ IF Len(work[h].rows) > 1
       THEN /\ work' = [work EXCEPT ![h].rows = Tail(@)]
            /\ UNCHANGED managerVars
       ELSE /\ work' = Restrict(work, DOMAIN work \ {h})
            /\ ProbeDone(h)
  /\ UNCHANGED <<now, measured>>

(* Insert and InsertMetric, or an error that is only logged.               *)
StoreRow(h, ok) ==
  /\ h \in DOMAIN work
  /\ LET row == Head(work[h].rows)
         put(table, t) ==
           IF ok /\ row.table = table THEN Replaced(t, row.key, row.value) ELSE t
     IN /\ samples' = put("samples", samples)
        /\ metric_samples' = put("metric_samples", metric_samples)
  /\ missed' = IF ok THEN missed ELSE missed \cup {work[h].of}
  /\ IF Len(work[h].rows) > 1
       THEN /\ work' = [work EXCEPT ![h].rows = Tail(@)]
            /\ UNCHANGED managerVars
       ELSE /\ work' = Restrict(work, DOMAIN work \ {h})
            /\ ProbeDone(h)
  /\ UNCHANGED <<now, measured>>

ManagerStep ==
  /\ \/ \E t \in Targets : Start(t)
     \/ \E h \in live : Tick(h) \/ LoopExit(h)
  /\ UNCHANGED <<now, samples, metric_samples, work, measured, missed>>

Clock ==
  /\ now < MaxTime
  /\ now' = now + 1
  /\ UNCHANGED <<managerVars, samples, metric_samples, work, measured, missed>>

(* The process ends with all its loops and starts again.                   *)
KillProber ==
  /\ stops' = [id \in Ids |-> {}]
  /\ probing' = {} /\ waiting' = {} /\ closed' = {}
  /\ taken' = [k \in Callers |-> {}]
  /\ work' = <<>>
  /\ missed' = missed \cup {work[h].of : h \in DOMAIN work}
  /\ UNCHANGED <<now, samples, metric_samples, measured>>

SamplesInit ==
  /\ ManagerInit
  /\ now = 1
  /\ samples = <<>> /\ metric_samples = <<>> /\ work = <<>>
  /\ measured = {} /\ missed = {}

SamplesNext ==
  \/ ManagerStep
  \/ \E h \in probing : Measure(h) \/ \E ok \in BOOLEAN : StoreRow(h, ok)
  \/ Clock
  \/ KillProber

SamplesSpec == SamplesInit /\ [][SamplesNext]_samplesVars

-----------------------------------------------------------------------------
(* Series and MetricSeries                                                 *)

Limited(rows, limit) == SubSeq(rows, 1, Min({Len(rows), limit}))

(* The times of a set, latest first.                                       *)
Descending(times) ==
  [i \in 1..Cardinality(times) |->
     CHOOSE ts \in times : Cardinality({later \in times : later > ts}) = i - 1]

(* Mutant: the oldest rows of the range are the ones that are kept.        *)
QueryOldest(times, since, limit) ==
  Limited(Reverse(Descending({ts \in times : ts >= since})), limit)

(* WHERE ts >= since ORDER BY ts DESC LIMIT maxSeriesRows, then reversed.  *)
(* The limit, 50000 in the code, is a parameter here.                      *)
Query(times, since, limit) ==
  Reverse(Limited(Descending({ts \in times : ts >= since}), limit))

Series(id, since, limit) ==
  Query({ts \in 1..now : <<id, ts>> \in DOMAIN samples}, since, limit)

MetricSeries(id, metric, since, limit) ==
  Query({ts \in 1..now : MetricKey(id, metric, ts) \in DOMAIN metric_samples}, since, limit)

(* GET /api/series and GET /api/metrics: the range is counted back from now. *)
apiSeries(id, secs, limit) == Series(id, now - secs, limit)
apiMetrics(id, metric, secs, limit) == MetricSeries(id, metric, now - secs, limit)

-----------------------------------------------------------------------------
(* Every row tells of one measurement: of its target, of its metric and of *)
(* its second, by a loop whose configuration samples the metric. Loops     *)
(* that were stopped may add rows, and two loops of one second replace     *)
(* each other's, but no row mixes two of them or carries another's time.   *)
RowsAreMeasured ==
  /\ \A key \in DOMAIN samples :
       \E m \in measured : Row("samples", key, samples[key]) \in ToSet(Rows(m))
  /\ \A key \in DOMAIN metric_samples :
       \E m \in measured :
         /\ Row("metric_samples", key, metric_samples[key]) \in ToSet(Rows(m))
         /\ key[2] \in MetricsOf(m.loop.name)
         /\ m.loop.target.monitors[key[2]].enabled

(* Two measurements of one metric of a target that end in the same second: *)
(* an old loop and the one that replaced it.                               *)
Rivals(m, n) ==
  /\ m # n /\ m.ts = n.ts /\ m.loop.target.id = n.loop.target.id
  /\ MetricsOf(m.loop.name) \cap MetricsOf(n.loop.name) # {}

Stored(row) ==
  LET table == IF row.table = "samples" THEN samples ELSE metric_samples
  IN row.key \in DOMAIN table /\ table[row.key] = row.value

(* A measurement whose inserts all worked stays in both tables as it was   *)
(* made, so that the old series and the metric series of a target agree:   *)
(* over other metrics and other targets, later seconds, restarts of the    *)
(* loops and of the process. Only a rival of its own second replaces it.   *)
MeasurementsStay ==
  \A m \in measured \ (missed \cup {work[h].of : h \in DOMAIN work}) :
    \/ \E n \in measured : Rivals(m, n)
    \/ \A row \in ToSet(Rows(m)) : Stored(row)

(* A series is in ascending order and without gaps: what is missing of its *)
(* range is older than all of it, and is missing only beyond the limit.    *)
IsNewest(series, times, since, limit) ==
  LET dropped == {ts \in times : ts >= since} \ ToSet(series)
  IN /\ \A i \in DOMAIN series : series[i] \in times /\ series[i] >= since
     /\ \A i, j \in DOMAIN series : i < j => series[i] < series[j]
     /\ Len(series) <= limit /\ (dropped # {} => Len(series) = limit)
     /\ \A ts \in dropped, i \in DOMAIN series : ts < series[i]

(* Both series queries keep the newest rows of a range, of whatever loops  *)
(* and in whatever order they were inserted, and no more than the limit.   *)
NewestWithoutGaps ==
  \A id \in Ids, secs \in 0..now, limit \in 1..now :
    /\ IsNewest(apiSeries(id, secs, limit),
                {key[2] : key \in {k \in DOMAIN samples : k[1] = id}}, now - secs, limit)
    /\ \A metric \in Metrics :
         IsNewest(apiMetrics(id, metric, secs, limit),
                  {key[3] : key \in {k \in DOMAIN metric_samples : k[1] = id /\ k[2] = metric}},
                  now - secs, limit)

EveryBurstIsSummarized == \A pings \in Bursts : Summarizes(BurstResult(pings), pings)

(* What is stored of a burst is its smallest, median and largest latency   *)
(* and its loss, found by counting: for an even and an odd number of       *)
(* answers, repeated latencies, one answer and none. This holds of every   *)
(* burst of Bursts and of those the loops have run.                        *)
BurstIsSummarized ==
  /\ EveryBurstIsSummarized
  /\ \A m \in measured : MetricsOf(m.loop.name) \subseteq ProbeMetrics =>
       Summarizes(BurstResult(m.outcome), m.outcome)
=============================================================================
