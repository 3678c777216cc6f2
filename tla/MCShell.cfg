\* Two requests, two jobs, two processes and two answers under way at a time; the
\* third token of a host is for a login while two older ones are still held. No
\* symmetry: the run checks liveness too.
CONSTANTS
  Clients = {c1, c2}
  Hosts = {h1, h2}
  Serials = {1, 2, 3}
  NoHost = NoHost
  NoToken = NoToken
  Jobs = {j1, j2}
  Processes = {window, background}
  Edits = {e1, e2}
  NoFile = NoFile
  Empty = Empty
  Garbage = Garbage
  Ranges = {hour, day}
  FirstRange = hour
  Slots = {q1, q2, q3}
  NoRange = NoRange
SPECIFICATION Spec
INVARIANTS TokenStaysHome AnsweredSessionHolds AnsweredToggleHolds  EditsSurviveHandover
 
