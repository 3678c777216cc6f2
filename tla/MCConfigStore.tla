------------------------------ MODULE MCConfigStore ------------------------------
(* Requests with and without an ID, a refused one, and a file written by   *)
(* hand with an unnamed target.                                            *)
EXTENDS ConfigStore, TLC

CONSTANTS a, b, c, r0, r1

Simple(on, i) == [enabled |-> on, interval |-> i]
Probe == [enabled |-> FALSE, interval |-> 0, burst |-> 0, gap |-> 0, proto |-> 0]

Server(id, host, i) ==
  [id |-> id, host |-> host, port |-> 25565,
   interval |-> i, timeout |-> 0, burst |-> 0, gap |-> 0, proto |-> 0,
   monitors |-> ("online" :> Simple(TRUE, 0) @@ "players" :> Simple(FALSE, 0)
                  @@ "latency" :> Probe @@ "loss" :> Probe)]

MCExample == Server(a, "mc", 60)
MCRequests == { Server(a, "mc", 0), Server(a, "mc", 30), Server(b, "mc", 0),
                Server(b, Blank, 0), Server(Blank, "mc", 30) }
MCHandFiles ==
  { Config(<<Server(Blank, "mc", 30), Server(a, "mc", 0), Server(b, Blank, 0)>>, r1) }
=============================================================================
