--------------------------- MODULE AnswerReading ----------------------------
(***************************************************************************)
(* post() of src/frostlake_wire.c between the request it has built and     *)
(* what it makes of the answer: an HttpExchange, whose body a JsonReader   *)
(* reads.  Neither alone sees to it that an answer is whole: http.c takes  *)
(* a body shorter than declared, and an answer that stops between two      *)
(* chunks, for the body.                                                   *)
(***************************************************************************)
EXTENDS HttpExchange, JsonReader

VARIABLES
    result      \* "none", or what post ended in; "refused" is the engine's own refusal

vars == <<httpVars, jsonVars, result>>

Init == HttpInit /\ JsonInit /\ result = "none"

Exchange ==
    /\ HttpOwn \/ HttpServer
    /\ UNCHANGED <<jsonVars, result>>

\* Mutant of TimedOutReading: any step that timed out.
TimedOutAnywhere == "message" \in held /\ fault.errno \in {"EAGAIN", "ETIMEDOUT"}

\* timed_out, which reads the message: without one a timeout goes for a loss.
TimedOutReading ==
    "message" \in held /\ fault.what = "read" /\ fault.errno \in {"EAGAIN", "ETIMEDOUT"}

TransportFailed ==
    /\ result = "none" /\ phase = "done" /\ fault # NoFault
    /\ result' = IF TimedOutReading THEN "HYT00" ELSE "08S01"
    /\ held' = held \ {"message"}
    /\ UNCHANGED <<server, phase, address, sent, received, fault, body, jsonVars>>

ReadBody ==
    /\ phase = "done" /\ fault = NoFault /\ Parse(body)
    /\ UNCHANGED <<httpVars, result>>

Reading == JsonNext /\ UNCHANGED <<httpVars, result>>

\* post is over; the tree stays only for an answer it hands on.
AnswerIs(verdict) ==
    /\ result' = verdict /\ at' = "over"
    /\ held' = held \ {"body"}
    /\ IF verdict = "ok" THEN UNCHANGED <<value, live>>
                         ELSE value' = <<>> /\ live' = live - BlocksOf(value)
    /\ UNCHANGED <<server, phase, address, sent, received, fault, body, input, cur, depth, stack, starved>>

IsObjectNode(v) == v # <<>> /\ v[1].kind = "object"

Unreadable ==
    at = "end" /\ ~IsObjectNode(value) /\ AnswerIs("08S01")

Succeeded ==
    /\ at = "end" /\ IsObjectNode(value) /\ JsonGetBool(value[1], <<"success">>, FALSE)
    /\ AnswerIs("ok")

RefusedByEngine ==
    /\ at = "end" /\ IsObjectNode(value) /\ ~JsonGetBool(value[1], <<"success">>, FALSE)
    /\ AnswerIs("refused")

Next ==
    \/ Exchange \/ TransportFailed \/ ReadBody \/ Reading
    \/ Unreadable \/ Succeeded \/ RefusedByEngine

Own ==
    \/ (HttpOwn /\ UNCHANGED <<jsonVars, result>>) \/ TransportFailed
    \/ ReadBody \/ Reading \/ Unreadable \/ Succeeded \/ RefusedByEngine

\* The driver goes on as long as it does not wait for the server; and with a
\* timeout above zero it stops waiting.
Spec == Init /\ [][Next]_vars /\ WF_vars(Own)

-----------------------------------------------------------------------------
TypeOK ==
    /\ HttpTypeOK
    /\ cur \in 1..Len(input) + 1 /\ depth = Len(stack) /\ at \in JsonPlaces /\ Len(value) <= 1
    /\ live \in Nat /\ starved \in BOOLEAN
    /\ result \in {"none", "ok", "refused", "HYT00", "08S01"}

(***************************************************************************)
(* Whichever way post ends, nothing stays open or allocated but the tree   *)
(* it hands on: the failing paths of http_request, parse_object,           *)
(* parse_array, node_add_child and post itself.                            *)
(***************************************************************************)
NothingLeaks ==
    result # "none" => held = {} /\ live = (IF result = "ok" THEN BlocksOf(value) ELSE 0)

(***************************************************************************)
(* HYT00 tells that the statement may be running: it is given only once    *)
(* the whole request was sent, and not for a connection or a send that     *)
(* timed out (timed_out).                                                  *)
(***************************************************************************)
TimeoutMeansSent == result = "HYT00" => sent = RequestLength

(***************************************************************************)
(* The units of a text that are in strings, without a parser, and how many *)
(* containers are open after k units.                                      *)
(***************************************************************************)
ModeAfter(mode, unit) ==
    CASE mode = "between" -> IF unit = Quote THEN "string" ELSE "between"
      [] mode = "escape"  -> "string"
      [] mode = "string"  -> IF unit = Quote THEN "between" ELSE IF unit = "\\" THEN "escape" ELSE "string"

ModeOf(t) ==
    LET after[k \in 0..Len(t)] == IF k = 0 THEN "between" ELSE ModeAfter(after[k - 1], t[k])
    IN  after

Outside(t, k) == ModeOf(t)[k - 1] = "between"

NestedAt(t, k) ==
    Cardinality({i \in 1..k : Outside(t, i) /\ t[i] \in {"{", "["}})
      - Cardinality({i \in 1..k : Outside(t, i) /\ t[i] \in {"}", "]"}})

\* What it opens first it closes last, if at all: any object, whole or not.
IsEnclosed(t) ==
    LET solid == {k \in 1..Len(t) : t[k] # Blank}
    IN  \A i, j \in solid : \A k \in i..j - 1 : NestedAt(t, k) > 0

(***************************************************************************)
(* A part of an answer is never taken for the answer, wherever it was      *)
(* broken off and however http.c let it through: of a document that is an  *)
(* object nothing but blanks may be missing once post() goes by it         *)
(* (parse_object, parse_array, fl_json_parse).                             *)
(***************************************************************************)
NoPartIsTaken ==
    result \in {"ok", "refused"} /\ IsEnclosed(server.document) =>
      \A k \in Len(body) + 1..Len(server.document) : server.document[k] = Blank

(***************************************************************************)
(* With a timeout every exchange ends, though the server may never answer, *)
(* or stop part-way (SO_RCVTIMEO, SO_SNDTIMEO).                            *)
(***************************************************************************)
Ends == <>(result # "none")
=============================================================================
