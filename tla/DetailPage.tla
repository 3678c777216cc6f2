------------------------------- MODULE DetailPage -------------------------------
(***************************************************************************)
(* The chart of one metric on the detail page: range buttons, a refresh    *)
(* every 30 seconds, and requests whose answers arrive in any order or not *)
(* at all (internal/app/static/detail.html, lines 143-255, 318-322). Of an *)
(* answer only the range it was asked for is kept.                         *)
(***************************************************************************)
CONSTANTS
  Ranges,     \* the ranges of the buttons
  FirstRange, \* the one the page begins with
  Slots,      \* a bound on the requests under way
  NoRange     \* no request; no chart yet

VARIABLES
  currentRange,
  pending,   \* the range each request under way was sent for
  chart      \* the range whose data is drawn, and the one the label names

pageVars == <<currentRange, pending, chart>>

DetailPageInit ==
  /\ currentRange = FirstRange
  /\ pending = [q \in Slots |-> NoRange]
  /\ chart = [data |-> NoRange, label |-> NoRange]

(* renderMetricView up to its await: the request is sent for a range.      *)
Send(r) ==
  \E q \in Slots : pending[q] = NoRange /\ pending' = [pending EXCEPT ![q] = r]

(* A range button.                                                         *)
SwitchRange(r) ==
  /\ currentRange' = r
  /\ Send(r)
  /\ UNCHANGED chart

(* Mutant: the page is drawn once, and again when a button is pressed.     *)
RefreshFirst ==
  /\ chart.data = NoRange
  /\ Send(currentRange)
  /\ UNCHANGED <<currentRange, chart>>

(* The first call of refresh, and those of setInterval.                    *)
Refresh ==
  /\ Send(currentRange)
  /\ UNCHANGED <<currentRange, chart>>

(* renderMetricView after its await: the data is of the range the request  *)
(* was sent for, the label of the one that is current now.                 *)
Draw(q) ==
  /\ pending[q] # NoRange
  /\ chart' = [data |-> pending[q], label |-> currentRange]
  /\ pending' = [pending EXCEPT ![q] = NoRange]
  /\ UNCHANGED currentRange

(* The fetch fails: the promise is rejected and nothing is drawn.          *)
FetchFails(q) ==
  /\ pending[q] # NoRange
  /\ pending' = [pending EXCEPT ![q] = NoRange]
  /\ UNCHANGED <<currentRange, chart>>

DetailPageNext ==
  \/ \E r \in Ranges : SwitchRange(r)
  \/ Refresh
  \/ \E q \in Slots : Draw(q) \/ FetchFails(q)

(* The interval timer goes on firing. The server of the page is the local  *)
(* process: it does not fail every request for ever.                       *)
DetailPageFairness ==
  /\ WF_pageVars(Refresh)
  /\ \A q \in Slots : SF_pageVars(Draw(q))

DetailPageSpec == DetailPageInit /\ [][DetailPageNext]_pageVars /\ DetailPageFairness

-----------------------------------------------------------------------------
(* Answers that overtake each other, and failed ones, leave the chart of   *)
(* another range under the label of the current one only for a while: once *)
(* the user stays with a range, its data and its label are what is shown.  *)
ChartCatchesUp ==
  \A r \in Ranges :
    <>[](currentRange = r) => <>[](chart = [data |-> r, label |-> r])
=============================================================================
