---------------------------- MODULE HttpExchange ----------------------------
(***************************************************************************)
(* One request over src/http.c, on a socket of its own: the addresses are  *)
(* tried in turn, head and body are sent, the answer is read until the     *)
(* server closes, and only then taken apart.  The stream of the answer is  *)
(* a sequence of units that cannot be cut further where it matters: a      *)
(* status line, the other headers, the blank line, the line with a chunk's *)
(* size, CR and LF on their own, and the units of the document.            *)
(***************************************************************************)
EXTENDS Integers, SequencesExt

CONSTANTS
    Addresses,      \* how many addresses the host resolves to
    HeadLength,     \* how many pieces the head of the request may be sent in
    BodyLength,     \* and its body: 0 for GET and DELETE
    Timeout,        \* whether timeout_seconds is above 0
    Servers         \* what may answer: sets of documents, ways to frame them, and faults

ASSUME HttpAssumption ==
    /\ Addresses \in Nat /\ HeadLength \in Nat \ {0} /\ BodyLength \in Nat /\ Timeout \in BOOLEAN
    /\ \A g \in Servers :
         /\ g.documents \subseteq Seq(STRING) /\ g.faulty \subseteq BOOLEAN
         /\ \A f \in g.framings :
              /\ f.kind \in {"length", "close", "chunked"} /\ f.size \in Nat
              /\ f.kind = "chunked" => f.size > 0

VARIABLES
    server,     \* what answers: its document, its framing, the stream they make, and
                \* whether anything fails on the way
    phase,      \* where http_request stands
    address,    \* addresses tried
    sent,       \* pieces of the request that were sent
    received,   \* units of the answer that were received
    fault,      \* [what, errno] of the error message, or NoFault
    body,       \* *body_out
    held        \* what is allocated or open

httpVars == <<server, phase, address, sent, received, fault, body, held>>

Phases == {"resolve", "connect", "head", "send", "receive", "read", "done"}
NoFault == [what |-> "none", errno |-> "none"]
Faults == {"resolve", "connect", "memory", "send", "read", "malformed"}
Errnos == {"none", "EAGAIN", "ETIMEDOUT", "ECONNRESET", "EINTR", "ENOMEM"}

-----------------------------------------------------------------------------
(* The answer, as the server writes it.                                    *)

Line(name) == [is |-> name, size |-> 0, unit |-> "none"]
Size(n)    == [is |-> "size", size |-> n, unit |-> "none"]
Data(t)    == [k \in 1..Len(t) |-> [is |-> "data", size |-> 0, unit |-> t[k]]]
CRLF       == <<Line("CR"), Line("LF")>>

Chunk(t) == <<Size(Len(t))>> \o CRLF \o Data(t) \o CRLF

\* A document in chunks of n units, and the empty chunk.
Chunked(t, n) ==
    LET from[i \in 1..Len(t) + 1] ==
          LET last == Min({i + n - 1, Len(t)})
          IN  IF i > Len(t) THEN Chunk(<<>>) ELSE Chunk(SubSeq(t, i, last)) \o from[last + 1]
    IN  from[1]

Payload(t, framing) == IF framing.kind = "chunked" THEN Chunked(t, framing.size) ELSE Data(t)

Stream(t, framing) == <<Line("status"), Line("headers"), Line("blank")>> \o Payload(t, framing)

HttpInit ==
    /\ \E g \in Servers : \E t \in g.documents, f \in g.framings, faulty \in g.faulty :
         server = [document |-> t, framing |-> f, faulty |-> faulty, stream |-> Stream(t, f)]
    /\ phase = "resolve" /\ address = 0 /\ sent = 0 /\ received = 0
    /\ fault = NoFault /\ body = <<>> /\ held = {}

-----------------------------------------------------------------------------
(* Taking the answer apart.                                                *)

Decoded(s) == [ok |-> TRUE, units |-> s]
Malformed  == [ok |-> FALSE, units |-> <<>>]

\* Mutant of PastCRLF: what ends a chunk is taken for the next size.
StaysAtCRLF(s, p) == p

PastCRLF(s, p) == IF p < Len(s) /\ s[p].is = "CR" /\ s[p + 1].is = "LF" THEN p + 2 ELSE p

\* decode_chunked: where the answer stops between two chunks it is over.
DecodeChunked(s) ==
    LET decode[p \in 1..Len(s) + 1] ==
          LET ends == {k \in p..Len(s) - 1 : s[k].is = "CR" /\ s[k + 1].is = "LF"}
              from == Min(ends) + 2
              past == from + s[p].size
              rest == decode[PastCRLF(s, past)]
          IN  IF p > Len(s) THEN Decoded(<<>>)
              ELSE IF ends = {} THEN Malformed
              ELSE IF s[p].size = 0 THEN Decoded(<<>>)
              ELSE IF past - 1 > Len(s) THEN Malformed
              ELSE [rest EXCEPT !.units = SubSeq(s, from, past - 1) \o @]
    IN  decode[1]

\* A declared length cuts the payload, and never makes it longer.
CutToLength(s) ==
    SubSeq(s, 1, Min({Len(s), Len(server.document)}))

-----------------------------------------------------------------------------
(* http_request, and the functions it calls.                               *)

\* http_error, of what is still held: its own allocation may fail.
Says(kept) == held' = kept \cup {"message"} \/ (server.faulty /\ held' = kept)

Fails(what, errno) == phase' = "done" /\ fault' = [what |-> what, errno |-> errno]

Resolve ==
    /\ phase = "resolve"
    /\ phase' = "connect" /\ held' = held \cup {"addresses"}
    /\ UNCHANGED <<server, address, sent, received, fault, body>>

CannotResolve ==
    /\ phase = "resolve" /\ server.faulty /\ Fails("resolve", "none")
    /\ Says(held)
    /\ UNCHANGED <<server, address, sent, received, body>>

\* The next address answers: the others are not tried.
Connect ==
    /\ phase = "connect" /\ address < Addresses
    /\ phase' = "head" /\ address' = address + 1
    /\ held' = (held \ {"addresses"}) \cup {"socket"}
    /\ UNCHANGED <<server, sent, received, fault, body>>

\* No socket, or one that does not connect and is closed again.
ConnectFails ==
    /\ phase = "connect" /\ address < Addresses /\ server.faulty
    /\ address' = address + 1
    /\ UNCHANGED <<server, phase, sent, received, fault, body, held>>

NoAddressLeft ==
    /\ phase = "connect" /\ address = Addresses
    /\ \E errno \in {"ETIMEDOUT", "ECONNRESET"} : Fails("connect", errno)
    /\ Says(held \ {"addresses"})
    /\ UNCHANGED <<server, address, sent, received, body>>

MakeHead ==
    /\ phase = "head" /\ phase' = "send" /\ held' = held \cup {"head"}
    /\ UNCHANGED <<server, address, sent, received, fault, body>>

NoHead ==
    /\ phase = "head" /\ server.faulty /\ Fails("memory", "none")
    /\ Says(held \ {"socket"})
    /\ UNCHANGED <<server, address, sent, received, body>>

RequestLength == HeadLength + BodyLength

\* Mutant of Send: what is left is not taken into account.
SendFromTheStart ==
    /\ phase = "send" /\ sent < RequestLength
    /\ \E n \in 1..(IF sent < HeadLength THEN HeadLength ELSE BodyLength) : sent' = sent + n
    /\ UNCHANGED <<server, phase, address, received, fault, body, held>>

\* One send(): any number of pieces, of the head or of the body.
Send ==
    /\ phase = "send" /\ sent < RequestLength
    /\ \E n \in 1..(IF sent < HeadLength THEN HeadLength ELSE RequestLength) - sent : sent' = sent + n
    /\ UNCHANGED <<server, phase, address, received, fault, body, held>>

SendFails ==
    /\ phase = "send" /\ sent < RequestLength /\ server.faulty
    /\ \E errno \in {"EAGAIN", "ECONNRESET", "EINTR"} : (errno = "EAGAIN" => Timeout) /\ Fails("send", errno)
    /\ Says(held \ {"head", "socket"})
    /\ UNCHANGED <<server, address, sent, received, body>>

\* Head and body are sent: read_all takes its buffer.
AllSent ==
    /\ phase = "send" /\ sent = RequestLength /\ phase' = "receive"
    /\ held' = (held \ {"head"}) \cup {"raw"}
    /\ UNCHANGED <<server, address, sent, received, fault, body>>

Receive ==
    /\ phase = "receive" /\ received < Len(server.stream)
    /\ \E n \in (IF server.faulty THEN 1..Len(server.stream) - received ELSE {Len(server.stream)}) : received' = received + n
    /\ UNCHANGED <<server, phase, address, sent, fault, body, held>>

\* recv() answers 0: the server has closed, or something on the way has.
ReceiveEnds ==
    /\ phase = "receive" /\ (received = Len(server.stream) \/ server.faulty)
    /\ phase' = "read" /\ held' = held \ {"socket"}
    /\ UNCHANGED <<server, address, sent, received, fault, body>>

\* Mutant of WaitFails: a wait that timed out is begun again.
WaitFailsAgain(errno) ==
    /\ phase = "receive"
    /\ UNCHANGED httpVars

\* recv() fails, or the buffer cannot grow: what came so far is dropped.
WaitFails(errno) ==
    /\ phase = "receive" /\ Fails("read", errno)
    /\ Says(held \ {"raw", "socket"})
    /\ UNCHANGED <<server, address, sent, received, body>>

ReceiveFails == server.faulty /\ \E errno \in {"ECONNRESET", "ETIMEDOUT", "EINTR", "ENOMEM"} : WaitFails(errno)

\* SO_RCVTIMEO: whatever the server is doing.
ReceiveTimesOut == Timeout /\ WaitFails("EAGAIN")

Raw == SubSeq(server.stream, 1, received)
RawPayload == SubSeq(Raw, 4, Len(Raw))
Extracted ==
    CASE server.framing.kind = "chunked" -> DecodeChunked(RawPayload)
      [] server.framing.kind = "length"  -> Decoded(CutToLength(RawPayload))
      [] server.framing.kind = "close"   -> Decoded(RawPayload)

\* No status line, no end of the headers, or chunks that do not fit.
TakeNothing ==
    /\ phase = "read" /\ (received < 3 \/ ~Extracted.ok)
    /\ Fails("malformed", "none") /\ Says(held \ {"raw"})
    /\ UNCHANGED <<server, address, sent, received, body>>

TakeBody ==
    /\ phase = "read" /\ received >= 3 /\ Extracted.ok
    /\ phase' = "done" /\ body' = [k \in 1..Len(Extracted.units) |-> Extracted.units[k].unit]
    /\ held' = (held \ {"raw"}) \cup {"body"}
    /\ UNCHANGED <<server, address, sent, received, fault>>

NoRoomForBody ==
    /\ phase = "read" /\ received >= 3 /\ Extracted.ok /\ server.faulty
    /\ Fails("memory", "none") /\ Says(held \ {"raw"})
    /\ UNCHANGED <<server, address, sent, received, body>>

\* Steps of the driver and its kernel, and those that wait for the server.
HttpOwn ==
    \/ Resolve \/ CannotResolve \/ Connect \/ ConnectFails \/ NoAddressLeft
    \/ MakeHead \/ NoHead \/ Send \/ SendFails \/ AllSent
    \/ ReceiveTimesOut \/ TakeNothing \/ TakeBody \/ NoRoomForBody

HttpServer == Receive \/ ReceiveEnds \/ ReceiveFails

-----------------------------------------------------------------------------
HttpTypeOK ==
    /\ phase \in Phases /\ address \in 0..Addresses /\ sent \in 0..RequestLength
    /\ received \in 0..Len(server.stream)
    /\ fault = NoFault \/ (fault.what \in Faults /\ fault.errno \in Errnos)
    /\ held \subseteq {"addresses", "socket", "head", "raw", "body", "message"}

(***************************************************************************)
(* Whatever the framing, and wherever the answer is broken off, the body   *)
(* is the document the server wrote, or a beginning of it; and where all   *)
(* arrived it is the document, and is not refused (http_request,           *)
(* decode_chunked).                                                        *)
(***************************************************************************)
BodyAsWritten ==
    phase = "done" =>
      /\ fault = NoFault => IsPrefix(body, server.document)
      /\ received = Len(server.stream) =>
           fault.what # "malformed" /\ (fault = NoFault => body = server.document)
=============================================================================
