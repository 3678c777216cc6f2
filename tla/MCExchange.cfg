\* Both calls, with protocols of one, two and five bytes. A dial and an
\* exchange of two ticks each.
CONSTANTS
  Base = 4
  High = 2
  Timeout = 2
  Documents <- MCDocuments
  Streams <- MCStreams
  Protocols <- MCProtocols
  HostPort <- MCHostPort
  Timestamp <- MCTimestamp
SPECIFICATION Spec
INVARIANTS OutcomeIsRight RequestIsReadable
PROPERTY CallReturns
\* A call that has returned does nothing more.
CHECK_DEADLOCK FALSE
