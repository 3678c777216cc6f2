------------------------------- MODULE MCExchange -------------------------------
(* Bytes of a continuation bit and two more, integers of nine bits: again  *)
(* five bytes hold an integer and four do not.                             *)
EXTENDS Exchange

Json == <<3>>
Status == <<3, 0, 1>> \o Json
Pong == <<2, 1, 5>>

Answers == {
  Status \o Pong,
  Status \o Pong \o <<7>>,
  Status \o <<2, 0, 5>>,                        \* a second status for a pong
  <<2, 1, 5>> \o Status,                        \* a pong for a status
  <<7, 0, 0, 1>> \o Json \o Pong,               \* a length in two bytes
  <<7, 4, 4, 4, 0, 0, 1>> \o Json \o Pong,      \* in five
  <<7, 4, 4, 4, 2, 0, 1>> \o Json \o Pong,      \* with a bit that is dropped
  <<7, 4, 4, 4, 4, 0, 0, 1>> \o Json \o Pong,   \* in six
  <<7, 7, 7, 7, 1>>,                            \* longer than any answer
  <<4, 1, 0, 1>> \o Json \o <<2>> \o Pong,      \* bytes after the document
  <<3, 0, 2>> \o Json \o Pong,                  \* a document that is cut off
  <<3, 0, 1, 1>> \o Pong,                       \* one that is no JSON
  <<6, 1, 4, 4, 0, 1, 0>> \o Json \o Pong }     \* one in long integers

\* Anything of up to three bytes.
Noise == UNION {[1 .. n -> {0, 1, 3, 7}] : n \in 0 .. 3}

MCStreams == Answers \cup Noise
MCProtocols == {-1, 3, 4, 256}
MCDocuments == {Json}
MCHostPort == <<1, 5, 0, 6>>
MCTimestamp == <<0, 7>>
=============================================================================
