--------------------------------- MODULE Exchange ---------------------------------
(***************************************************************************)
(* One call of Ping or StatusRequest (internal/mcping/mcping.go 33-145)    *)
(* against a server that may send any bytes, one by one and at any time,   *)
(* or nothing, and may close the connection. One deadline covers the dial, *)
(* a second one everything after it.                                       *)
(*                                                                         *)
(* The client's reads take a packet when all of it is there; how the bytes *)
(* were split on their way makes no difference to anything else.           *)
(***************************************************************************)
EXTENDS Packets

CONSTANTS
  Timeout,     \* the timeout of the target
  Streams,     \* what servers may send
  Protocols,   \* protocol versions of targets and monitors, signed
  HostPort,    \* the host and port fields of the handshake, encoded
  Timestamp    \* the payload of the ping

ASSUME ExchangeAssumption == /\ Timeout \in Nat \ {0}
                             /\ Streams \subseteq Seq(Byte)
                             /\ Protocols \subseteq Int
                             /\ HostPort \in Seq(Byte) /\ Timestamp \in Seq(Byte)
                             /\ Len(HostPort) + 3 * MaxBytes < Modulus
                             /\ Len(Timestamp) + MaxBytes < Modulus

VARIABLES
  kind,       \* "ping" or "status": which of the two calls this is
  protocol,   \* its protocolVersion
  stream,     \* what this server will send, all in all
  arrived,    \* how many bytes of it have arrived
  consumed,   \* how many of those the client has read
  open,       \* the server has not closed the connection
  pc,         \* what the client does next
  sent,       \* what the client has sent
  now,        \* time
  deadline,   \* of the dial, then of the connection
  result      \* how the call ended

call == <<kind, protocol, stream>>
vars == <<call, arrived, consumed, open, pc, sent, now, deadline, result>>

Init == /\ kind \in {"ping", "status"}
        /\ protocol \in Protocols
        /\ stream \in Streams
        /\ arrived = 0 /\ consumed = 0
        /\ open = TRUE
        /\ pc = "dial"
        /\ sent = <<>>
        /\ now = 0 /\ deadline = Timeout
        /\ result = "none"

Goto(step) == pc' = step /\ UNCHANGED result
Return(r) == pc' = "done" /\ result' = r

-----------------------------------------------------------------------------
(* The server, the network, the clock                                      *)

Deliver == /\ pc \notin {"dial", "done"}
           /\ open
           /\ arrived < Len(stream)
           /\ arrived' = arrived + 1
           /\ UNCHANGED <<call, consumed, open, pc, sent, now, deadline, result>>

Close == /\ pc \notin {"dial", "done"}
         /\ open' = FALSE
         /\ UNCHANGED <<call, arrived, consumed, pc, sent, now, deadline, result>>

\* The bound: neither deadline is later than this.
MaxTime == 2 * Timeout

Tick == /\ pc # "done"
        /\ now < MaxTime
        /\ now' = now + 1
        /\ UNCHANGED <<call, arrived, consumed, open, pc, sent, deadline, result>>

-----------------------------------------------------------------------------
(* The client                                                              *)

(* Mutant: the connection gets no deadline.                                *)
ConnectOnly == /\ pc = "dial"
               /\ now <= deadline
               /\ deadline' = MaxTime + 1
               /\ Goto("handshake")
               /\ UNCHANGED <<call, arrived, consumed, open, sent, now>>

(* net.DialTimeout, and SetDeadline from the moment it returned.           *)
Connect == /\ pc = "dial"
           /\ now <= deadline
           /\ deadline' = now + Timeout
           /\ Goto("handshake")
           /\ UNCHANGED <<call, arrived, consumed, open, sent, now>>

Refused == /\ pc = "dial"
           /\ Return("refused")
           /\ UNCHANGED <<call, arrived, consumed, open, sent, now, deadline>>

WriteHandshake ==
  /\ pc = "handshake"
  /\ sent' = writePacket(0, writeVarInt(protocol) \o HostPort \o writeVarInt(1))
  /\ Goto("request")
  /\ UNCHANGED <<call, arrived, consumed, open, now, deadline>>

WriteStatusRequest ==
  /\ pc = "request"
  /\ sent' = sent \o writePacket(0, <<>>)
  /\ Goto("status")
  /\ UNCHANGED <<call, arrived, consumed, open, now, deadline>>

(* Only a connection the server closed refuses a few bytes.                *)
WriteFails == /\ pc \in {"handshake", "request", "ping"}
              /\ ~open
              /\ Return("write")
              /\ UNCHANGED <<call, arrived, consumed, open, sent, now, deadline>>

unread == Drop(SubSeq(stream, 1, arrived), consumed)

(* A read ends with a packet, with an error in it, or with the connection. *)
ReadFails == \/ readPacket(unread).is = "bad"
             \/ readPacket(unread).is = "short" /\ ~open

Advance == consumed' = arrived - Len(readPacket(unread).rest)

readStatus ==
  /\ pc = "status"
  /\ \/ ReadFails /\ Return("read") /\ UNCHANGED consumed
     \/ /\ readPacket(unread).is = "ok"
        /\ Advance
        /\ IF ~IsStatus(readPacket(unread).value) THEN Return("read")
           ELSE IF kind = "status" THEN Return("ok") ELSE Goto("ping")
  /\ UNCHANGED <<call, arrived, open, sent, now, deadline>>

WritePing == /\ pc = "ping"
             /\ sent' = sent \o writePacket(1, Timestamp)
             /\ Goto("pong")
             /\ UNCHANGED <<call, arrived, consumed, open, now, deadline>>

(* The pong's payload is not looked at.                                    *)
readPong ==
  /\ pc = "pong"
  /\ \/ ReadFails /\ Return("read") /\ UNCHANGED consumed
     \/ /\ readPacket(unread).is = "ok"
        /\ Advance
        /\ Return(IF readPacket(unread).value.id = 1 THEN "ok" ELSE "read")
  /\ UNCHANGED <<call, arrived, open, sent, now, deadline>>

(* A dial, a read or a write meets its deadline. One whose data is there   *)
(* at the same moment may still win.                                       *)
Expire == /\ pc # "done"
          /\ now >= deadline
          /\ Return("timeout")
          /\ UNCHANGED <<call, arrived, consumed, open, sent, now, deadline>>

Client == \/ WriteHandshake \/ WriteStatusRequest \/ WriteFails
          \/ readStatus \/ WritePing \/ readPong \/ Expire

Next == Connect \/ Refused \/ Client \/ Deliver \/ Close \/ Tick

(* Time passes and the runtime meets its deadlines. The server need not do *)
(* anything, and the client's other steps need not win against a deadline. *)
Spec == Init /\ [][Next]_vars /\ WF_vars(Expire) /\ WF_vars(Tick)

-----------------------------------------------------------------------------
(* The protocol, said of whole byte sequences: what is an encoding of an   *)
(* integer, and what is a packet.                                          *)
IsVarInt(s, v) ==
  /\ v < Base * Weight[Len(s)]
  /\ \A i \in 1 .. Len(s) :
       /\ Continues(s[i]) <=> i # Len(s)
       /\ ((s[i] % Base) * Weight[i]) % Modulus = ((v \div Weight[i]) % Base) * Weight[i]

\* A sequence in two parts, and one whose first part may be an integer.
Splits(s) == {<<SubSeq(s, 1, i), Drop(s, i)>> : i \in 0 .. Len(s)}
VarIntSplits(s) ==
  {<<SubSeq(s, 1, i), Drop(s, i)>> : i \in {j \in 1 .. MaxBytes : j <= Len(s)}}

IsPacket(s, id, payload) ==
  \E x \in VarIntSplits(s) :
    /\ IsVarInt(x[1], Len(x[2]))
    /\ \E y \in VarIntSplits(x[2]) : IsVarInt(y[1], id) /\ y[2] = payload

IsDocument(s) == \E x \in VarIntSplits(s) : \E y \in Splits(x[2]) :
                   IsVarInt(x[1], Len(y[1])) /\ y[1] \in Documents

IsStatusAnswer(s) == \E x \in Splits(s) : IsPacket(s, 0, x[2]) /\ IsDocument(x[2])
IsPong(s) == \E x \in Splits(s) : IsPacket(s, 1, x[2])

Answered(s) ==
  \E x \in Splits(s) : /\ IsStatusAnswer(x[1])
                       /\ kind = "ping" => \E y \in Splits(x[2]) : IsPong(y[1])

(* However the answer is cut up on its way, and whatever else the server   *)
(* sends, a call that was not cut short succeeds exactly if the server     *)
(* sent a status that can be read, and a pong after it.                    *)
OutcomeIsRight ==
  /\ result = "ok" => Answered(SubSeq(stream, 1, arrived))
  /\ result = "read" => ~Answered(SubSeq(stream, 1, arrived))

(* The server can read what the client sent so far: a handshake with the   *)
(* protocol as an unsigned integer, a request, a ping.                     *)
RequestIsReadable ==
  LET IsHello(s) == \E x \in Splits(s) :
        /\ IsPacket(s, 0, x[2])
        /\ \E y \in VarIntSplits(x[2]) : /\ IsVarInt(y[1], protocol % Modulus)
                                          /\ y[2] = HostPort \o <<1>>
  IN sent # <<>> =>
       \E x \in Splits(sent) :
         /\ IsHello(x[1])
         /\ x[2] # <<>> =>
              \E y \in Splits(x[2]) : /\ IsPacket(y[1], 0, <<>>)
                                      /\ y[2] # <<>> => IsPacket(y[2], 1, Timestamp)

(* Every call returns, though the server may fall silent at any byte: the  *)
(* loops of the prober rely on it.                                         *)
CallReturns == <>(pc = "done")
=============================================================================
