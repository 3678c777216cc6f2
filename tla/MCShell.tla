-------------------------------- MODULE MCShell --------------------------------
(* What surrounds the prober: the remote session, the background service,  *)
(* the start of two processes on one config file, the detail page. None of *)
(* them writes a variable of another, so a behaviour of all four together  *)
(* is one of each, and each part is explored by itself: `part` picks one   *)
(* in the initial state and the rest stays as it was.                      *)
EXTENDS RemoteSession, Background, DesktopStart, DetailPage

VARIABLE part

shellVars == <<part, sessionVars, backgroundVars, desktopVars, pageVars>>

Init ==
  /\ part \in {"session", "background", "start", "page"}
  /\ RemoteSessionInit /\ BackgroundInit /\ DesktopInit /\ DetailPageInit
  /\ part # "background" => platform = "linux"
  /\ part # "start" => file = NoFile

Next ==
  /\ UNCHANGED part
  /\ \/ /\ part = "session"
        /\ RemoteSessionNext
        /\ UNCHANGED <<backgroundVars, desktopVars, pageVars>>
     \/ /\ part = "background"
        /\ BackgroundNext
        /\ UNCHANGED <<sessionVars, desktopVars, pageVars>>
     \/ /\ part = "start"
        /\ DesktopNext
        /\ UNCHANGED <<sessionVars, backgroundVars, pageVars>>
     \/ /\ part = "page"
        /\ DetailPageNext
        /\ UNCHANGED <<sessionVars, backgroundVars, desktopVars>>

Spec ==
  /\ Init /\ [][Next]_shellVars
  /\ part = "page" => DetailPageFairness

(* The properties of the parts that are not explored say nothing.          *)
PageCatchesUp == part = "page" => ChartCatchesUp
=============================================================================
