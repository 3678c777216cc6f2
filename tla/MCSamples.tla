------------------------------- MODULE MCSamples -------------------------------
(* One target, and the edits that switch its latency and loss monitors     *)
(* from a shared loop to two loops and back.                               *)
EXTENDS Samples, TLC

CONSTANTS a, g1, g2

Simple(on) == [enabled |-> on, interval |-> 60]
Probe(interval) == [enabled |-> TRUE, interval |-> interval, burst |-> 1, gap |-> 0, proto |-> 0]

Server(online, loss) ==
  [id |-> a, host |-> "mc", port |-> 25565,
   interval |-> 60, timeout |-> 1500, burst |-> 1, gap |-> 0, proto |-> 0,
   monitors |-> ("online" :> Simple(online) @@ "players" :> Simple(FALSE)
                  @@ "latency" :> Probe(60) @@ "loss" :> loss)]

Shared == Server(FALSE, Probe(60))
Apart == Server(TRUE, Probe(30))

MCTargets == {Shared, Apart}

MCBursts == UNION {[1..n -> {1, 2, 4, Lost}] : n \in 1..5}
=============================================================================
