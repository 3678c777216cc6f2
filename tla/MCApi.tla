---------------------------------- MODULE MCApi ----------------------------------
(* Two targets, two versions of the first, single saves and an import.     *)
EXTENDS Api, TLC

CONSTANTS a, b, r0, k1, k2, g1, g2

Simple(on, i) == [enabled |-> on, interval |-> i]
ProbeOff == [enabled |-> FALSE, interval |-> 60, burst |-> 5, gap |-> 0, proto |-> 760]

Server(id, host, on, i) ==
  [id |-> id, host |-> host, port |-> 25565,
   interval |-> 60, timeout |-> 1500, burst |-> 5, gap |-> 0, proto |-> 760,
   monitors |-> ("online" :> Simple(on, i) @@ "players" :> Simple(FALSE, 60)
                  @@ "latency" :> ProbeOff @@ "loss" :> ProbeOff)]

A1 == Server(a, "mc", TRUE, 60)
A2 == Server(a, "mc", TRUE, 30)
\* The second target is switched off, so that it adds nothing but its edits.
B1 == Server(b, "mc", FALSE, 60)
Bad == Server(b, Blank, TRUE, 60)
New == Server(Blank, "mc", FALSE, 60)

MCExample == A1
MCRequests == {A1, A2, B1, Bad, New}
MCTargets == SavedTargets
MCBodies == { <<A2, B1>>, <<Bad>>, <<New>>, <<A1>> }
MCOneBodies == { <<A1>>, <<A2>> }
MCOneRequests == {A1, A2}

HandlerSymmetry == Permutations(Gens) \cup Permutations(Callers)
=============================================================================
