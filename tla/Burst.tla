---------------------------------- MODULE Burst ----------------------------------
(***************************************************************************)
(* What a burst of pings amounts to: runProbeBurst and percentile of       *)
(* internal/app/prober.go, lines 209-266, over the answers of the pings.   *)
(* An answer is a latency, a positive number, or Lost.                     *)
(***************************************************************************)
EXTENDS Naturals, Sequences, FiniteSets

CONSTANT Null   \* no value

Lost == 0

Answered(pings) == {i \in DOMAIN pings : pings[i] # Lost}

(* sort.Float64s of the latencies: what comes before a ping's is smaller,  *)
(* or equal and of an earlier ping.                                        *)
Before(pings, i) ==
  {j \in Answered(pings) : pings[j] < pings[i] \/ (pings[j] = pings[i] /\ j < i)}

Sorted(pings) ==
  [k \in 1..Cardinality(Answered(pings)) |->
     pings[CHOOSE i \in Answered(pings) : Cardinality(Before(pings, i)) = k - 1]]

(* Mutant: the value at the index rounded down, without interpolation.     *)
medianRoundedDown(sorted) == 2 * sorted[((Len(sorted) - 1) \div 2) + 1]

(* Twice percentile(sorted, 0.5), so that it stays a whole number: the     *)
(* index is (n - 1) / 2, and between two values each counts half.          *)
percentile(sorted) ==
  LET lower == (Len(sorted) - 1) \div 2
      upper == Len(sorted) \div 2
  IN sorted[lower + 1] + sorted[upper + 1]

(* The result of a burst: the loss is failed pings of all pings.           *)
BurstResult(pings) ==
  LET vals == Sorted(pings)
      loss == <<Len(pings) - Len(vals), Len(pings)>>
  IN IF vals = <<>>
       THEN [min |-> Null, p50 |-> Null, max |-> Null, loss |-> loss]
       ELSE [min |-> vals[1], p50 |-> percentile(vals), max |-> vals[Len(vals)],
             loss |-> loss]
-----------------------------------------------------------------------------
(* A value of a burst with `rank` values at most below it, and more than   *)
(* that when it is counted itself: the one at index `rank` in their order. *)
HasRank(v, pings, rank) ==
  LET Below(Test(_)) == Cardinality({i \in DOMAIN pings : pings[i] # Lost /\ Test(pings[i])})
  IN Below(LAMBDA x : x < v) <= rank /\ rank < Below(LAMBDA x : x <= v)

(* The reference: extremes and median by counting, without sorting.        *)
Summarizes(r, pings) ==
  LET vals == {pings[i] : i \in DOMAIN pings} \ {Lost}
      answered == Cardinality({i \in DOMAIN pings : pings[i] # Lost})
  IN /\ r.loss = <<Len(pings) - answered, Len(pings)>>
     /\ vals = {} => {r.min, r.p50, r.max} = {Null}
     /\ vals # {} =>
          /\ r.min \in vals /\ \A v \in vals : r.min <= v
          /\ r.max \in vals /\ \A v \in vals : v <= r.max
          /\ \E lower, upper \in vals :
               /\ HasRank(lower, pings, (answered - 1) \div 2)
               /\ HasRank(upper, pings, answered \div 2)
               /\ r.p50 = lower + upper
==================================================================================
