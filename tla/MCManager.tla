------------------------------- MODULE MCManager -------------------------------
(* Two targets, and for the first of them an edit that splits the shared   *)
(* latency-loss loop in two.                                               *)
EXTENDS Manager, TLC

CONSTANTS a, b, g1, g2, k1, k2

Off(i) == [enabled |-> FALSE, interval |-> i]
Probe(on, i) == [enabled |-> on, interval |-> i, burst |-> 5, gap |-> 0, proto |-> 0]

Server(id, online, latency, loss) ==
  [id |-> id, host |-> "mc", port |-> 25565,
   interval |-> 60, timeout |-> 1500, burst |-> 5, gap |-> 0, proto |-> 0,
   monitors |-> ("online" :> online @@ "players" :> Off(60)
                  @@ "latency" :> latency @@ "loss" :> loss)]

Shared == Server(a, Off(60), Probe(TRUE, 60), Probe(TRUE, 60))
Apart == Server(a, Off(60), Probe(TRUE, 60), Probe(TRUE, 30))
AllOff == Server(a, Off(60), Probe(FALSE, 60), Probe(FALSE, 60))
Plain == Server(b, [enabled |-> TRUE, interval |-> 60], Probe(FALSE, 60), Probe(FALSE, 60))

MCTargets == {Shared, Apart, AllOff, Plain}
=============================================================================
