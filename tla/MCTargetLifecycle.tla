--------------------------- MODULE MCTargetLifecycle ---------------------------
(* Requests for TargetLifecycle: complete and legacy (no monitor settings) *)
(* forms, and boundary values of each numeric field.                       *)
EXTENDS TargetLifecycle, TLC

CONSTANTS Intervals, Protocols, OwnProtocols

\* -1 is the handshake convention for "no particular version": the form and
\* the API accept it.
SignedProtocols == {-1, 0, 765}
OwnSignedProtocols == {-1, 0}

Simple == [enabled : BOOLEAN, interval : {0, 30}]
Probe(gaps) == [enabled : BOOLEAN, interval : {0, 30}, burst : {0, 2},
                gap : gaps, proto : OwnProtocols]

MCRequests ==
  { [id |-> Blank, host |-> h, port |-> 25565,
     interval |-> i, timeout |-> 0, burst |-> b, gap |-> g, proto |-> p,
     monitors |-> ("online" :> o @@ "players" :> [enabled |-> FALSE, interval |-> 0]
                    @@ "latency" :> la @@ "loss" :> lo)] :
      h \in {Blank, "mc"}, i \in Intervals, b \in {5}, g \in {-1, 7},
      p \in Protocols, o \in Simple, la \in Probe({7}), lo \in Probe({0, 9}) }

=============================================================================
