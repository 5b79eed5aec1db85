-------------------------- MODULE FrostlakeEngine --------------------------
(***************************************************************************)
(* The Frostlake server as src/frostlake_wire.c relies on it: sessions     *)
(* named by ids the server chooses, statements that run in one of them,    *)
(* and answers that say which.  The server is not in the repository; this  *)
(* module is what the driver's requests and its reading of the answers     *)
(* take for granted (README, "Sessions").                                  *)
(*                                                                         *)
(* An engine "tracks" sessions when its answers carry newSession; such an  *)
(* engine also honours requireSession and DELETE /api/sessions.  An older  *)
(* one has none of the three.  A restart may bring up a newer engine,      *)
(* never an older one.                                                     *)
(***************************************************************************)
EXTENDS Integers, FiniteSets

CONSTANTS
    Sessions,     \* the session ids
    NoSession,    \* NULL: no id held, sent or named
    ScopeSize,    \* USE statements the data source asks for, at most four
    Required,     \* those among them the engine must accept (the role)
    Statements,   \* the statements the application may send
    AutoCommit,   \* the mode the connection was opened with
    Legacy        \* the first engine predates newSession

(***************************************************************************)
(* What a request means for the session it runs in: whether it touches the *)
(* context (USE, SET, a temporary object ...), whether it leaves a         *)
(* transaction open (1), closes one (-1) or leaves it alone (0) in the     *)
(* connection's autocommit mode, and whether it holds several statements,  *)
(* so that a refusal may come after some of them ran.                      *)
(***************************************************************************)
Sql == [touches : BOOLEAN, effect : {-1, 0, 1}, several : BOOLEAN]

ASSUME EngineAssumption ==
    /\ NoSession \notin Sessions
    /\ ScopeSize \in 0..4
    /\ Required \subseteq 1..ScopeSize
    /\ Statements \subseteq Sql
    /\ AutoCommit \in BOOLEAN
    /\ Legacy \in BOOLEAN

\* SELECT 1 and USE, as track_session reads them in the connection's mode.
Ping == [touches |-> FALSE, effect |-> IF AutoCommit THEN 0 ELSE 1, several |-> FALSE]
Use  == [touches |-> TRUE,  effect |-> IF AutoCommit THEN 0 ELSE 1, several |-> FALSE]

(***************************************************************************)
(* Requests and answers.  A job is what a request carries out: item n of   *)
(* the scope ("use"), statement n of the application, or the liveness      *)
(* check's SELECT 1 ("ping").                                              *)
(***************************************************************************)
SessionIds == Sessions \cup {NoSession}

Job == [kind : {"use"}, n : 0..ScopeSize, sql : {Use}]
       \cup [kind : {"statement"}, n : Nat, sql : Sql]
       \cup [kind : {"none", "ping"}, n : {0}, sql : {Ping}]

Request == [sid : SessionIds, require : BOOLEAN, job : Job]

Answer == [verdict : {"none", "ok", "refused", "fault", "gone"},
           sid : SessionIds,
           newSession : {"yes", "no", "absent"}]

VARIABLES
    sessions,   \* for each id, what the engine knows under it
    tracking    \* the engine now running reports newSession

engineVars == <<sessions, tracking>>

(***************************************************************************)
(* live: the engine holds the session.  held: it has context of its own.   *)
(* txn: no transaction is open, one with nothing in it but what the driver *)
(* sent by itself ("bare": a USE of the scope, a SELECT 1), or one with a  *)
(* statement of the application in it ("work").  offered: how many of the  *)
(* scope's items, in order, it has been given.  The others are records     *)
(* kept for the properties, which nobody reads.  unheard: the session took *)
(* an effect no answer told the driver of.  covered: a USE of the scope    *)
(* ran over context the session had of its own.                            *)
(***************************************************************************)
Transaction == {"none", "bare", "work"}

Session == [live : BOOLEAN, held : BOOLEAN, txn : Transaction,
            offered : 0..ScopeSize, unheard : BOOLEAN, covered : BOOLEAN]

Unborn == [live |-> FALSE, held |-> FALSE, txn |-> "none",
           offered |-> 0, unheard |-> FALSE, covered |-> FALSE]

EngineTypeOK ==
    /\ sessions \in [Sessions -> Session]
    /\ tracking \in BOOLEAN

EngineInit ==
    /\ sessions = [s \in Sessions |-> Unborn]
    /\ tracking = ~Legacy

Live(s) == s \in Sessions /\ sessions[s].live

-----------------------------------------------------------------------------

\* What the statement leaves behind for a fresh session to lack.
LeavesSomething(sql) == sql.touches \/ sql.effect # 0

(***************************************************************************)
(* The session after it ran a job.  With autocommit off a USE and SELECT 1 *)
(* open a transaction as any statement does.  An item of the scope counts  *)
(* as offered when it was accepted, or refused where a refusal means going *)
(* without.  A refused request of several statements may have run some.    *)
(***************************************************************************)
AfterTransaction(txn, job) ==
    IF job.sql.effect = 0          THEN txn
    ELSE IF job.sql.effect = -1    THEN "none"
    ELSE IF job.kind = "statement" THEN "work"
    ELSE IF txn = "none" THEN "bare" ELSE txn

Offered(x, item, verdict) ==
    IF x.offered + 1 = item /\ (verdict = "ok" \/ item \notin Required)
      THEN item ELSE x.offered

AfterUse(x, job, verdict) ==
    [x EXCEPT !.offered = Offered(x, job.n, verdict),
              !.txn     = IF verdict = "ok" THEN AfterTransaction(@, job) ELSE @,
              !.covered = @ \/ (verdict = "ok" /\ x.held)]

AfterStatement(x, job) ==
    [x EXCEPT !.held = @ \/ job.sql.touches,
              !.txn  = AfterTransaction(@, job)]

AfterPart(x, job) ==
    [x EXCEPT !.held = @ \/ job.sql.touches, !.txn = "work", !.unheard = TRUE]

AfterJob(x, job, verdict, part) ==
    IF job.kind = "use"         THEN AfterUse(x, job, verdict)
    ELSE IF verdict = "ok"      THEN AfterStatement(x, job)
    ELSE IF part                THEN AfterPart(x, job)
    ELSE x

(***************************************************************************)
(* Where a request runs: in the session it names while the engine holds    *)
(* it; nowhere when it requires a session that is gone; otherwise in a     *)
(* fresh one, under any id not in use (`free').                            *)
(***************************************************************************)
Places(q, free) ==
    IF Live(q.sid)    THEN {q.sid}
    ELSE IF q.require THEN {}
    ELSE free

NewSession(q, s) ==
    IF ~tracking THEN "absent" ELSE IF s = q.sid THEN "no" ELSE "yes"

\* The request ran in session s, wholly, not at all, or (`part') in part.
Ran(q, s, verdict, part) ==
    LET x == IF s = q.sid THEN sessions[s] ELSE [Unborn EXCEPT !.live = TRUE]
    IN  sessions' = [sessions EXCEPT ![s] = AfterJob(x, q.job, verdict, part)]

\* requireSession refused: HTTP 404, no session named, nothing ran.
Gone(q) == q.require /\ ~Live(q.sid)

\* What a statement left in the session can no longer be told to the driver.
Unhear(x, job) ==
    [x EXCEPT !.unheard = @ \/ (job.kind = "statement" /\ LeavesSomething(job.sql))]

-----------------------------------------------------------------------------
(* What happens to sessions without the driver.                            *)

(***************************************************************************)
(* A session that ended.  Its id is as good as new, except that what the   *)
(* session held is kept while somebody (`named') still goes by the id.     *)
(***************************************************************************)
Ended(s, named) ==
    IF s = named THEN [sessions[s] EXCEPT !.live = FALSE, !.offered = 0] ELSE Unborn

\* Thirty minutes idle, or released by somebody else.
Expire(s, named) ==
    /\ Live(s)
    /\ sessions' = [sessions EXCEPT ![s] = Ended(s, named)]
    /\ UNCHANGED tracking

\* The server restarts: every session is gone, and the engine may be newer.
Restart(named) ==
    /\ sessions' = [s \in Sessions |-> IF Live(s) THEN Ended(s, named) ELSE sessions[s]]
    /\ tracking' \in {tracking, TRUE}
=============================================================================
