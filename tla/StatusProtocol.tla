--------------------------- MODULE StatusProtocol ---------------------------
(***************************************************************************)
(* minecraft_status.py: the query of a Minecraft server, from the          *)
(* connection to its close, with the VarInts of the protocol.              *)
(*                                                                         *)
(* The peer sends any bytes, stops, breaks the connection or is silent; a  *)
(* timer ends the query at any time.  The numbers are scaled: a byte has a *)
(* continuation bit and Base values (128), a VarInt at most Groups bytes   *)
(* (5), a number Word values (2^32).                                       *)
(***************************************************************************)
EXTENDS Integers, Sequences, SequencesExt

CONSTANTS Base, Groups, Word,
  MaxPacket,   \* MAX_PACKET_BYTES
  MaxString,   \* MAX_STRING_BYTES
  Host,        \* the hosts that are asked, as sequences of bytes
  Port         \* their ports, which take two bytes

ASSUME SizeAssumption ==
  /\ {Base, Groups, Word, MaxPacket, MaxString} \subseteq Nat \ {0}
  /\ Base > 1 /\ Word <= Base ^ Groups /\ MaxPacket < Word

VARIABLES
  pc,
  host, port,
  request,     \* what the query has written
  received,    \* the bytes that it has read
  position, result,  \* in _read_varint
  length,      \* of the packet
  shape,       \* of the JSON text
  writer,      \* "none", "open" or "closed"
  outcome,     \* "none", a "status", a "MinecraftStatusError" or another error
  disturbed    \* has the connection or the timer ended the query?

vars == <<pc, host, port, request, received, position, result, length, shape, writer, outcome,
          disturbed>>
reading == <<received, position, result, length>>

Byte == 0 .. 2 * Base - 1
Continues(byte) == byte >= Base
Group(byte) == byte % Base

Init ==
  /\ pc = "connect" /\ host \in Host /\ port \in Port
  /\ request = <<>> /\ received = <<>> /\ position = 0 /\ result = 0 /\ length = 0
  /\ shape = "none" /\ writer = "none" /\ outcome = "none" /\ disturbed = FALSE
-----------------------------------------------------------------------------
(* The encoding *)

\* Mutant: the last group is a byte of its own, although it is zero.
VarintLong(value) ==
  LET encode[n \in 0 .. Word - 1] ==
        IF n = 0 THEN <<0>> ELSE <<Base + Group(n)>> \o encode[n \div Base]
  IN encode[value % Word]

\* _varint: the low groups first, negative numbers in two's complement.
Varint(value) ==
  LET encode[n \in 0 .. Word - 1] ==
        IF n < Base THEN <<n>> ELSE <<Base + Group(n)>> \o encode[n \div Base]
  IN encode[value % Word]

String(value) == Varint(Len(value)) \o value

Handshake ==
  Varint(0) \o Varint(-1) \o String(host) \o <<port \div (2 * Base), port % (2 * Base)>> \o Varint(1)

Request == Varint(Len(Handshake)) \o Handshake \o Varint(1) \o Varint(0)

\* _decode_varint: truncated, or without an end after Groups bytes.
Decode(payload, offset) ==
  LET decode[n \in 0 .. Groups] ==
        LET at == offset + n + 1
            byte == payload[at]
            rest == decode[n + 1]
        IN IF n = Groups \/ at > Len(payload) THEN [ok |-> FALSE, value |-> 0, next |-> 0]
           ELSE IF Continues(byte) THEN [rest EXCEPT !.value = @ + Group(byte) * Base ^ n]
           ELSE [ok |-> TRUE, value |-> byte * Base ^ n, next |-> at]
  IN decode[0]
-----------------------------------------------------------------------------
(* The query *)

Connect ==
  /\ pc = "connect" /\ pc' = "write" /\ writer' = "open"
  /\ UNCHANGED <<host, port, request, reading, shape, outcome, disturbed>>

Write ==
  /\ pc = "write" /\ pc' = "length" /\ request' = Request
  /\ UNCHANGED <<host, port, reading, shape, writer, outcome, disturbed>>

Raise(error) == outcome' = error /\ pc' = "close"
Invalid == Raise("MinecraftStatusError")

\* Mutant: only an empty packet has an invalid size.
SizeFitsAny(size) == size >= 1

SizeFits(size) == size >= 1 /\ size <= MaxPacket

More(n) == n < Groups

\* _read_varint and the check of _read_packet
ReadLength ==
  /\ pc = "length"
  /\ \E byte \in Byte :
       LET size == result + Group(byte) * Base ^ position IN
       /\ received' = Append(received, byte)
       /\ position' = position + 1 /\ result' = size
       /\ CASE Continues(byte) /\ More(position') ->
                 UNCHANGED <<pc, length, outcome>>
            [] ~Continues(byte) /\ SizeFits(size) ->
                 pc' = "body" /\ length' = size /\ UNCHANGED outcome
            [] OTHER -> Invalid /\ UNCHANGED length
  /\ UNCHANGED <<host, port, request, shape, writer, disturbed>>

Body == SubSeq(received, position + 1, Len(received))

\* readexactly(length)
ReadBody ==
  /\ pc = "body"
  /\ \E byte \in Byte : received' = Append(received, byte)
  /\ pc' = IF Len(Body) + 1 = length THEN "parse" ELSE "body"
  /\ UNCHANGED <<host, port, request, position, result, length, shape, writer, outcome, disturbed>>

\* Mutant: what follows the string is ignored.
FramedLoosely(packet) ==
  LET id == Decode(packet, 0)
      size == Decode(packet, id.next)
  IN /\ id.ok /\ id.value = 0
     /\ size.ok /\ size.value <= MaxString
     /\ size.next + size.value <= Len(packet)

Framed(packet) ==
  LET id == Decode(packet, 0)
      size == Decode(packet, id.next)
  IN /\ id.ok /\ id.value = 0
     /\ size.ok /\ size.value <= MaxString
     /\ size.next + size.value = Len(packet)

\* json.loads of anything but an object leads to an AttributeError, which is
\* not among the errors that the query turns into its own.
Parse ==
  /\ pc = "parse"
  /\ IF ~Framed(Body) THEN Invalid /\ UNCHANGED shape
     ELSE \E s \in {"object", "other", "broken"} :
            /\ shape' = s
            /\ Raise([object |-> "status", other |-> "AttributeError",
                      broken |-> "MinecraftStatusError"][s])
  /\ UNCHANGED <<host, port, request, reading, writer, disturbed>>

Close ==
  /\ pc = "close" /\ pc' = "done"
  /\ writer' = IF writer = "open" THEN "closed" ELSE writer
  /\ UNCHANGED <<host, port, request, reading, shape, outcome, disturbed>>

Caught(error) == "MinecraftStatusError"

\* The connection is refused or breaks, while it is closed too.
Breaks ==
  /\ pc # "done" /\ pc # "parse" /\ disturbed' = TRUE
  /\ outcome' = Caught("OSError")
  /\ pc' = IF pc = "close" THEN "done" ELSE "close"
  /\ writer' = IF pc = "close" /\ writer = "open" THEN "closed" ELSE writer
  /\ UNCHANGED <<host, port, request, reading, shape>>

EndOfData ==
  /\ pc \in {"length", "body"} /\ disturbed' = TRUE
  /\ Raise(Caught("IncompleteReadError"))
  /\ UNCHANGED <<host, port, request, reading, shape, writer>>

\* Mutant: the timer guards the connection only.
ExpiresEarly == pc = "connect"

Expires == pc \in {"connect", "write", "length", "body"} \/ (pc = "close" /\ ~disturbed)

\* wait_for cancels the query, whose finally closes the connection.
Timeout ==
  /\ Expires /\ disturbed' = TRUE
  /\ Raise(Caught("TimeoutError"))
  /\ UNCHANGED <<host, port, request, reading, shape, writer>>

Rest == pc = "done" /\ UNCHANGED vars

Next ==
  \/ Connect \/ Write \/ ReadLength \/ ReadBody \/ Parse \/ Close
  \/ Breaks \/ EndOfData \/ Timeout \/ Rest

Spec == Init /\ [][Next]_vars

\* The peer need not do anything; the timer expires, and the query goes on.
FairSpec == Spec /\ WF_vars(Timeout) /\ WF_vars(Parse) /\ WF_vars(Close)
-----------------------------------------------------------------------------
(* What the protocol says: a reference for the properties *)

Ends(bytes) == {i \in DOMAIN bytes : ~Continues(bytes[i])}
Starts(bytes) == \E i \in Ends(bytes) : i <= Groups
Cut(bytes) == CHOOSE i \in Ends(bytes) : \A j \in Ends(bytes) : i <= j
After(bytes) == SubSeq(bytes, Cut(bytes) + 1, Len(bytes))
Value(bytes) ==
  FoldRightDomain(LAMBDA i, sum : sum * Base + Group(bytes[i]), SubSeq(bytes, 1, Cut(bytes)), 0)
Shortest(bytes) == Starts(bytes) /\ (Cut(bytes) = 1 \/ bytes[Cut(bytes)] # 0)

\* A status response: a packet of the length that it says, with the identifier
\* zero and one string.
IsResponse(bytes) ==
  /\ Starts(bytes) /\ Value(bytes) \in 1 .. MaxPacket /\ Value(bytes) = Len(After(bytes))
  /\ LET packet == After(bytes) IN
     /\ Starts(packet) /\ Value(packet) = 0
     /\ LET text == After(packet) IN
        /\ Starts(text) /\ Value(text) <= MaxString /\ Value(text) = Len(After(text))
-----------------------------------------------------------------------------
(* Properties *)

\* Every variable has its type, the query has an outcome once it is closing, and
\* whatever a peer announces and sends, at most one packet is kept.
TypeOK ==
  /\ pc \in {"connect", "write", "length", "body", "parse", "close", "done"}
  /\ received \in Seq(Byte) /\ Len(received) <= Groups + MaxPacket
  /\ position \in 0 .. Groups /\ length \in 0 .. MaxPacket
  /\ writer \in {"none", "open", "closed"} /\ shape \in {"none", "object", "other", "broken"}
  /\ outcome = "none" <=> pc \notin {"close", "done"}

\* The server can read the request: numbers in their shortest form, -1 for the
\* version, the host and the port that were asked for, and a second packet.
RequestUnderstood ==
  LET handshake == SubSeq(After(request), 1, Value(request))
      version == After(handshake)
      name == After(version)
      text == After(name)
      size == Value(name)
  IN request # <<>> =>
       /\ \A field \in {request, handshake, version, name} : Shortest(field)
       /\ Value(handshake) = 0 /\ Value(version) = Word - 1
       /\ SubSeq(text, 1, size) = host
       /\ port = text[size + 1] * 2 * Base + text[size + 2]
       /\ SubSeq(text, size + 3, Len(text)) = <<1>>
       /\ SubSeq(After(request), Value(request) + 1, Len(After(request))) = <<1, 0>>

\* The outcome is what the bytes say: nothing but a response, read to its last
\* byte, becomes a status; the text of every response that arrives in time is
\* looked at; and the callers, who catch MinecraftStatusError and nothing else,
\* meet no other error, except after a text that is JSON but not an object.
OutcomeFits ==
  /\ outcome = "status" => IsResponse(received) /\ shape = "object"
  /\ pc = "done" /\ ~disturbed /\ IsResponse(received) => shape # "none"
  /\ outcome \notin {"none", "status", "MinecraftStatusError"} =>
       IsResponse(received) /\ shape = "other"

\* The query ends, with its connection closed, also when the peer is silent.
QueryEnds == <>(pc = "done" /\ writer # "open")
=============================================================================
