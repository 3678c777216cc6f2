--------------------------------- MODULE Packets ---------------------------------
(***************************************************************************)
(* The packets of the status protocol (internal/mcping/mcping.go 147-272): *)
(* variable-length integers, length-prefixed packets, and the status       *)
(* document in the first of them.                                          *)
(*                                                                         *)
(* A byte has a continuation bit above the bits of its payload, 7 of them  *)
(* in the code. An integer of 32 bits is four such groups and the low four *)
(* bits of a fifth: Base is 128 and High is 16.                            *)
(***************************************************************************)
EXTENDS Integers, SequencesExt

CONSTANTS
  Base,        \* how many values the payload of a byte has
  High,        \* how many of those an integer has in its fifth group
  Documents    \* the byte sequences parseStatusJSON accepts

MaxBytes == 5

ASSUME PacketsAssumption == /\ Base \in Nat \ {0, 1} /\ High \in 2 .. Base
                            /\ <<>> \notin Documents

\* What a group counts.
Weight == << 1, Base, Base * Base, Base * Base * Base, Base * Base * Base * Base >>
Modulus == High * Weight[MaxBytes]
Byte == 0 .. 2 * Base - 1

Continues(b) == b >= Base
Drop(s, n) == SubSeq(s, n + 1, Len(s))

-----------------------------------------------------------------------------
(* Writing                                                                 *)

(* uint32(v), its low group first, every byte but the last with the        *)
(* continuation bit, and none after the one that leaves nothing.           *)
writeVarInt(v) ==
  LET uv == v % Modulus
      last == Min({i \in 1 .. MaxBytes : uv < Base * Weight[i]})
  IN [i \in 1 .. last |-> ((uv \div Weight[i]) % Base) + (IF i < last THEN Base ELSE 0)]

(* Mutant: the length does not count the packet ID.                        *)
writePacketShort(id, payload) ==
  writeVarInt(Len(payload)) \o writeVarInt(id) \o payload

writePacket(id, payload) ==
  LET body == writeVarInt(id) \o payload IN writeVarInt(Len(body)) \o body

-----------------------------------------------------------------------------
(* Reading. A result is a value and what follows it, or one of these two:  *)
(* the input ended inside it, or no continuation of it can be accepted.    *)
Short == [is |-> "short"]
Bad == [is |-> "bad"]
Read(value, rest) == [is |-> "ok", value |-> value, rest |-> rest]

(* The bytes are or-ed together in a uint32, which drops the high bits of  *)
(* the fifth.                                                              *)
Number(s, last) ==
  LET part(i) == IF i <= last THEN (s[i] % Base) * Weight[i] ELSE 0
  IN (part(1) + part(2) + part(3) + part(4) + part(5)) % Modulus

(* Mutant: the check of the length before the byte is taken.               *)
readVarIntFour(s) ==
  LET ends == {i \in 1 .. Len(s) : i < MaxBytes /\ ~Continues(s[i])}
  IN IF ends # {} THEN LET last == Min(ends) IN Read(Number(s, last), Drop(s, last))
     ELSE IF Len(s) >= MaxBytes THEN Bad ELSE Short

(* A sixth byte is an error, after it was read.                            *)
readVarInt(s) ==
  LET ends == {i \in 1 .. Len(s) : i <= MaxBytes /\ ~Continues(s[i])}
  IN IF ends # {} THEN LET last == Min(ends) IN Read(Number(s, last), Drop(s, last))
     ELSE IF Len(s) > MaxBytes THEN Bad ELSE Short

(* readFull: n bytes of what is there.                                     *)
readFull(s, n) == IF Len(s) < n THEN Short ELSE Read(SubSeq(s, 1, n), Drop(s, n))

(* A reader over bytes that are all there: its end is an error.            *)
InMemory(result) == IF result.is = "short" THEN Bad ELSE result

(* The value of readPacket is the packet's ID and its payload.             *)
readPacket(s) ==
  LET length == readVarInt(s)
      data == readFull(length.rest, length.value)
      pid == InMemory(readVarInt(data.value))
  IN CASE length.is # "ok" -> length
       [] length.is = "ok" /\ data.is # "ok" -> data
       [] OTHER -> IF pid.is # "ok" THEN pid
                   ELSE Read([id |-> pid.value, payload |-> pid.rest], data.rest)

(* Is the packet a status with a document that can be parsed?              *)
IsStatus(packet) ==
  /\ packet.id = 0
  /\ LET jsonLen == InMemory(readVarInt(packet.payload))
     IN /\ jsonLen.is = "ok"
        /\ LET json == readFull(jsonLen.rest, jsonLen.value)
           IN json.is = "ok" /\ json.value \in Documents
=============================================================================
