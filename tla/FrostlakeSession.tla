-------------------------- MODULE FrostlakeSession --------------------------
(***************************************************************************)
(* One PDO connection and its session: src/frostlake_wire.c with the       *)
(* connection methods of src/frostlake_driver.c that call it.  The driver  *)
(* runs one call at a time and waits on one HTTP exchange at a time, so a  *)
(* call is a sequence of exchanges, and `at' says which of its post()      *)
(* calls it stands in.  Between two of the driver's steps the engine may   *)
(* serve, forget sessions or restart, and the exchange may fail.           *)
(***************************************************************************)
EXTENDS FrostlakeEngine

CONSTANTS
    MaxCalls,       \* bound: statements the application sends
    MaxAbandoned    \* bound: requests given up on that the engine may yet run

ASSUME SessionAssumption == MaxCalls \in Nat /\ MaxAbandoned \in Nat

VARIABLES
    conn,       \* the handle: see ConnState
    H,          \* pdo_frostlake_db_handle, the fields the session rests on
    at,         \* the post() the running call stands in, or "idle"
    job,        \* what the running call is for
    i,          \* apply_scope's loop variable
    restarted,  \* apply_scope's flag
    wire,       \* the HTTP exchange in progress
    abandoned,  \* requests the driver gave up on that are still to be run
    calls,      \* the application's statements so far
    ledger,     \* for each, how often it ran and what the application heard
    promised    \* the sessions that hold what the application was told it has

driverVars == <<conn, H, at, job, i, restarted, calls, promised>>
vars == <<sessions, tracking, conn, H, at, job, i, restarted, wire,
          abandoned, calls, ledger, promised>>

(***************************************************************************)
(* "none": not connected.  "connecting": in pdo_frostlake_handle_factory.  *)
(* "failing": about to leave it through cleanup.  "open": the constructor  *)
(* succeeded.  "unfit": the liveness check just failed.  "closed": there   *)
(* is no handle (dbh->driver_data is NULL).                                *)
(***************************************************************************)
ConnState == {"none", "connecting", "failing", "open", "unfit", "closed"}

Handle == [session_id : SessionIds, tracks_sessions : {-1, 0, 1},
           dirty : BOOLEAN, in_transaction : BOOLEAN,
           scope_count : 0..ScopeSize, scope_pending : BOOLEAN]

NewHandle == [session_id |-> NoSession, tracks_sessions |-> -1,
              dirty |-> FALSE, in_transaction |-> FALSE,
              scope_count |-> 0, scope_pending |-> FALSE]

Locations == {"idle", "scope", "statement", "rescope", "replay", "probe"}
InScope == {"scope", "rescope"}

UseJob(n) == [kind |-> "use", n |-> n, sql |-> Use]
StatementJob(n, sql) == [kind |-> "statement", n |-> n, sql |-> sql]
PingJob   == [kind |-> "ping", n |-> 0, sql |-> Ping]
NoJob     == [kind |-> "none", n |-> 0, sql |-> Ping]

NoRequest == [sid |-> NoSession, require |-> FALSE, job |-> NoJob]
NoAnswer  == [verdict |-> "none", sid |-> NoSession, newSession |-> "absent"]
Quiet     == [phase |-> "quiet", request |-> NoRequest, answer |-> NoAnswer]

Results == {"none", "ok", "HY000", "HYT00", "08S01", "08003"}

\* What post() records where no answer came: HYT00 when the wait ran into the
\* timeout, 08S01 when the connection broke or the answer made no sense.
NoAnswerCodes == {"HYT00", "08S01"}

TypeOK ==
    /\ EngineTypeOK
    /\ conn \in ConnState
    /\ H \in Handle
    /\ at \in Locations
    /\ job \in Job
    /\ i \in 0..ScopeSize
    /\ restarted \in BOOLEAN
    /\ wire \in [phase : {"quiet", "sent", "answered"}, request : Request, answer : Answer]
    /\ abandoned \subseteq Request
    /\ calls \in 0..MaxCalls
    /\ ledger \in [1..MaxCalls -> [runs : Nat, result : Results]]
    /\ promised \in [context : SessionIds, transaction : SessionIds]

Nothing == [context |-> NoSession, transaction |-> NoSession]

Init ==
    /\ EngineInit
    /\ conn = "none" /\ H = NewHandle
    /\ at = "idle" /\ job = NoJob /\ i = 0 /\ restarted = FALSE
    /\ wire = Quiet /\ abandoned = {}
    /\ calls = 0
    /\ ledger = [c \in 1..MaxCalls |-> [runs |-> 0, result |-> "none"]]
    /\ promised = Nothing

-----------------------------------------------------------------------------
(* The handle's operators, one per function of frostlake_wire.c.           *)

Forget(h) ==
    [h EXCEPT !.session_id = NoSession, !.dirty = FALSE,
              !.in_transaction = FALSE, !.scope_pending = TRUE]

\* Mutant of Learn: a fresh session is not taken for a loss.
LearnWithoutForgetting(h, a, sent_id) ==
    [h EXCEPT !.tracks_sessions = IF a.newSession # "absent" THEN 1 ELSE IF @ < 0 THEN 0 ELSE @]

\* What the answer says of the engine, and what a fresh session undoes.
Learn(h, a, sent_id) ==
    IF a.newSession = "absent"
      THEN [h EXCEPT !.tracks_sessions = IF @ < 0 THEN 0 ELSE @]
    ELSE IF sent_id /\ a.newSession = "yes"
      THEN [Forget(h) EXCEPT !.tracks_sessions = 1]
    ELSE [h EXCEPT !.tracks_sessions = 1]

Absorb(h, a, sent_id) ==
    IF a.sid = NoSession THEN h
    ELSE [Learn(h, a, sent_id) EXCEPT !.session_id = a.sid]

\* Mutant of TrackSession: only the last request counts as context.
TrackLatestOnly(h, sql) ==
    [h EXCEPT !.dirty = sql.touches,
              !.in_transaction = IF sql.effect = 0 THEN @ ELSE sql.effect = 1]

\* Mutant of TrackSession: as if every connection were in autocommit mode.
TrackAutoCommit(h, sql) ==
    [h EXCEPT !.dirty = @ \/ sql.touches,
              !.in_transaction = IF sql.effect = 0 \/ (sql.effect = 1 /\ ~AutoCommit) THEN @
                                 ELSE sql.effect = 1]

\* The net effect of the request's statements (SessionTracking has the loop).
TrackSession(h, sql) ==
    [h EXCEPT !.dirty = @ \/ sql.touches,
              !.in_transaction = IF sql.effect = 0 THEN @ ELSE sql.effect = 1]

\* Mutant of RequestFor: asked of any engine.
RequireAlways(h, j) ==
    [sid |-> h.session_id, require |-> h.session_id # NoSession, job |-> j]

\* Mutant of RequestFor: the liveness check does not require its session.
PingRequiresNothing(h, j) ==
    [sid |-> h.session_id,
     require |-> h.session_id # NoSession /\ h.tracks_sessions = 1 /\ j.kind # "ping",
     job |-> j]

RequestFor(h, j) ==
    [sid |-> h.session_id,
     require |-> h.session_id # NoSession /\ h.tracks_sessions = 1,
     job |-> j]

Heard == Absorb(H, wire.answer, wire.request.sid # NoSession)

-----------------------------------------------------------------------------
(* How a call moves between its exchanges.                                 *)

Waiting == at # "idle" /\ wire.phase = "quiet"
Answered(places) == at \in places /\ wire.phase = "answered"

\* Into apply_scope, which is over at once when there is no scope.
EnterScope(h, place, next) ==
    /\ restarted' = FALSE
    /\ IF h.scope_count = 0
         THEN at' = next  /\ i' = 0 /\ H' = [h EXCEPT !.scope_pending = FALSE]
         ELSE at' = place /\ i' = 1 /\ H' = h

\* Into pdo_frostlake_execute, for job j on handle h.
Execute(h, j) ==
    /\ job' = j
    /\ IF h.scope_pending
         THEN EnterScope(h, "scope", "statement")
         ELSE at' = "statement" /\ H' = h /\ i' = 0 /\ restarted' = FALSE

(***************************************************************************)
(* The call is over with this result.  A USE of the factory refuses the    *)
(* connection unless it worked, or was refused by the engine and is not    *)
(* the role's; a liveness check that failed leaves the handle unfit.       *)
(***************************************************************************)
Verdict(result) ==
    CASE job.kind = "use" ->
           IF result = "ok" \/ (result = "HY000" /\ job.n \notin Required)
             THEN conn ELSE "failing"
      [] job.kind = "ping" -> IF result = "ok" THEN conn ELSE "unfit"
      [] OTHER -> conn

\* What the application now counts on, and in which session it is.
Promises(result, s) ==
    IF job.kind # "statement" THEN promised
    ELSE IF result = "08003" THEN Nothing
    ELSE IF result # "ok" THEN promised
    ELSE [context     |-> IF job.sql.touches THEN s ELSE promised.context,
          transaction |-> CASE job.sql.effect = 1  -> s
                            [] job.sql.effect = -1 -> NoSession
                            [] OTHER -> promised.transaction]

Return(h, result) ==
    /\ H' = h
    /\ at' = "idle" /\ job' = NoJob /\ i' = 0 /\ restarted' = FALSE
    /\ conn' = Verdict(result)
    /\ promised' = Promises(result, wire.answer.sid)
    /\ ledger' = IF job.kind = "statement"
                   THEN [ledger EXCEPT ![job.n].result = result]
                   ELSE ledger

\* The connection stays as it is, and the call goes on.
GoOn == UNCHANGED <<conn, job, promised, ledger>>

-----------------------------------------------------------------------------
(* Connecting, calling, checking, closing.                                 *)

Idle == at = "idle" /\ UNCHANGED <<sessions, tracking, wire, abandoned>>

\* The factory asks for the server's health first, and gives up without it.
Connect ==
    /\ conn = "none" /\ Idle
    /\ conn' \in {"connecting", "failing"}
    /\ H' = NewHandle
    /\ UNCHANGED <<at, job, i, restarted, calls, ledger, promised>>

\* The next of the data source's USEs is kept as scope and executed.
UseObject ==
    /\ conn = "connecting" /\ H.scope_count < ScopeSize /\ Idle
    /\ LET n == H.scope_count + 1
       IN  Execute([H EXCEPT !.scope_count = n], UseJob(n))
    /\ UNCHANGED <<conn, calls, ledger, promised>>

Opened ==
    /\ conn = "connecting" /\ H.scope_count = ScopeSize /\ Idle
    /\ conn' = "open"
    /\ H' = [H EXCEPT !.dirty = FALSE, !.in_transaction = FALSE]
    /\ UNCHANGED <<at, job, i, restarted, calls, ledger, promised>>

\* exec, a prepared statement's execute, beginTransaction, commit, rollBack.
Statement(sql) ==
    /\ conn = "open" /\ calls < MaxCalls /\ Idle
    /\ calls' = calls + 1
    /\ Execute(H, StatementJob(calls + 1, sql))
    /\ UNCHANGED <<conn, ledger, promised>>

\* pdo_frostlake_execute without a handle.
StatementOnClosed ==
    /\ conn = "closed" /\ calls < MaxCalls /\ Idle
    /\ calls' = calls + 1
    /\ ledger' = [ledger EXCEPT ![calls + 1].result = "08003"]
    /\ UNCHANGED <<conn, H, at, job, i, restarted, promised>>

\* pdo_frostlake_session_alive, before its first exchange with a session.
CheckLiveness ==
    /\ conn = "open" /\ Idle
    /\ IF H.session_id = NoSession /\ ~H.scope_pending
         THEN /\ conn' \in {"open", "unfit"}        \* the server's health
              /\ UNCHANGED <<H, at, job, i, restarted>>
         ELSE /\ conn' = conn
              /\ IF ~H.dirty /\ ~H.in_transaction
                   THEN Execute(H, PingJob)
                   ELSE /\ at' = "probe" /\ job' = PingJob
                        /\ UNCHANGED <<H, i, restarted>>
    /\ UNCHANGED <<calls, ledger, promised>>

\* The check failed and no PDO object holds the handle: freed, not released.
LetGo ==
    /\ conn = "unfit" /\ Idle
    /\ conn' = "closed" /\ H' = NewHandle
    /\ UNCHANGED <<at, job, i, restarted, calls, ledger, promised>>

\* The check failed, but a PDO object still uses the handle.
StillHeld ==
    /\ conn = "unfit" /\ Idle
    /\ conn' = "open"
    /\ UNCHANGED <<H, at, job, i, restarted, calls, ledger, promised>>

(***************************************************************************)
(* pdo_frostlake_release_session and free_handle, from the closer or from  *)
(* the factory's cleanup.  The DELETE is sent to engines that have it, and *)
(* may or may not arrive.                                                  *)
(***************************************************************************)
Released(s) ==
    IF Live(s) /\ H.tracks_sessions = 1
      THEN [sessions EXCEPT ![s] = Unborn]
      ELSE sessions

Close ==
    /\ conn \in {"open", "failing"} /\ at = "idle"
    /\ sessions' \in {sessions, Released(H.session_id)}
    /\ conn' = "closed" /\ H' = NewHandle
    /\ UNCHANGED <<tracking, at, job, i, restarted, wire, abandoned, calls,
                   ledger, promised>>

-----------------------------------------------------------------------------
(* One exchange: sent, served, answered, or given up on.                   *)

\* What this post() sends: an item of the scope, or the call's own text.
JobHere == IF at \in InScope THEN UseJob(i) ELSE job

Post ==
    /\ Waiting
    /\ wire' = [phase |-> "sent", request |-> RequestFor(H, JobHere), answer |-> NoAnswer]
    /\ UNCHANGED <<sessions, tracking, abandoned, ledger>>
    /\ UNCHANGED driverVars

\* Ids nobody refers to: as good as ids never used.
InUse == {H.session_id, wire.request.sid, wire.answer.sid,
          promised.context, promised.transaction} \cup {q.sid : q \in abandoned}
Free == {s \in Sessions : ~Live(s) /\ s \notin InUse}

CountRun(q) ==
    IF q.job.kind = "statement"
      THEN [ledger EXCEPT ![q.job.n].runs = @ + 1]
      ELSE ledger

\* Either verdict on a request that ran; only a refusal may come part-way.
Verdicts(q) == {<<"ok", FALSE>>, <<"refused", FALSE>>} \cup
               {v \in {<<"refused", TRUE>>} : q.job.sql.several}

Answering(a) == wire' = [wire EXCEPT !.phase = "answered", !.answer = a]

Serve ==
    /\ wire.phase = "sent"
    /\ \E s \in Places(wire.request, Free), v \in Verdicts(wire.request) :
         /\ Ran(wire.request, s, v[1], v[2])
         /\ Answering([verdict |-> v[1], sid |-> s,
                       newSession |-> NewSession(wire.request, s)])
    /\ ledger' = CountRun(wire.request)
    /\ UNCHANGED <<tracking, abandoned>>
    /\ UNCHANGED driverVars

ServeGone ==
    /\ wire.phase = "sent" /\ Gone(wire.request)
    /\ Answering([NoAnswer EXCEPT !.verdict = "gone"])
    /\ UNCHANGED <<sessions, tracking, abandoned, ledger>>
    /\ UNCHANGED driverVars

\* A server fault that never reached a statement.
ServeFault ==
    /\ wire.phase = "sent"
    /\ Answering([NoAnswer EXCEPT !.verdict = "fault"])
    /\ UNCHANGED <<sessions, tracking, abandoned, ledger>>
    /\ UNCHANGED driverVars

\* Mutant of Unreachable: a failed exchange is taken for a lost session.
UnreachableForgets ==
    /\ wire.phase = "sent"
    /\ Return(Forget(H), "08S01")
    /\ wire' = Quiet
    /\ UNCHANGED <<sessions, tracking, abandoned, calls>>

\* The request never reached the engine.
Unreachable ==
    /\ wire.phase = "sent"
    /\ Return(H, "08S01")
    /\ wire' = Quiet
    /\ UNCHANGED <<sessions, tracking, abandoned, calls>>

\* Mutant of TimedOut: the request is sent once more.
TimedOutSendsAgain ==
    /\ wire.phase = "sent" /\ Cardinality(abandoned) < MaxAbandoned
    /\ abandoned' = abandoned \cup {wire.request}
    /\ wire' = Quiet
    /\ UNCHANGED <<sessions, tracking, ledger>> /\ UNCHANGED driverVars

\* The socket gave up waiting, or broke; the engine still has the request.
TimedOut ==
    /\ wire.phase = "sent" /\ Cardinality(abandoned) < MaxAbandoned
    /\ abandoned' = abandoned \cup {wire.request}
    /\ \E code \in NoAnswerCodes : Return(H, code)
    /\ wire' = Quiet
    /\ UNCHANGED <<sessions, tracking, calls>>

\* Mutant of AnswerLost: no answer is taken for "nothing ran".
AnswerLostTakenForLoss ==
    /\ wire.phase = "answered"
    /\ Return(Forget(H), "08003")
    /\ sessions' = IF wire.answer.sid = NoSession THEN sessions
                   ELSE [sessions EXCEPT ![wire.answer.sid] = Unhear(@, wire.request.job)]
    /\ wire' = Quiet
    /\ UNCHANGED <<tracking, abandoned, calls>>

\* The engine answered, and the answer was late, cut short or unreadable.
AnswerLost ==
    /\ wire.phase = "answered"
    /\ \E code \in NoAnswerCodes : Return(H, code)
    /\ sessions' = IF wire.answer.sid = NoSession THEN sessions
                   ELSE [sessions EXCEPT ![wire.answer.sid] = Unhear(@, wire.request.job)]
    /\ wire' = Quiet
    /\ UNCHANGED <<tracking, abandoned, calls>>

-----------------------------------------------------------------------------
(* What the driver makes of an answer, one action per branch.              *)

Received == wire' = Quiet /\ UNCHANGED <<sessions, tracking, abandoned, calls>>

\* An optional item the engine refuses is left off, and its error cleared.
ItemDone ==
    \/ wire.answer.verdict = "ok"
    \/ wire.answer.verdict = "refused" /\ i \notin Required

\* Mutant of ScopeItem: off by one at the end of the scope.
ScopeItemPastTheEnd ==
    /\ Answered(InScope) /\ ItemDone /\ i <= H.scope_count
    /\ H' = Heard /\ i' = i + 1
    /\ UNCHANGED <<at, restarted>> /\ GoOn /\ Received

ScopeItem ==
    /\ Answered(InScope) /\ ItemDone /\ i < H.scope_count
    /\ H' = Heard /\ i' = i + 1
    /\ UNCHANGED <<at, restarted>> /\ GoOn /\ Received

\* Mutant of ScopeWhole: the scope stays pending.
ScopeWholeStillPending ==
    /\ Answered(InScope) /\ ItemDone /\ i = H.scope_count
    /\ H' = Heard
    /\ at' = IF at = "scope" THEN "statement" ELSE "replay"
    /\ i' = 0 /\ restarted' = FALSE
    /\ GoOn /\ Received

ScopeWhole ==
    /\ Answered(InScope) /\ ItemDone /\ i = H.scope_count
    /\ H' = [Heard EXCEPT !.scope_pending = FALSE]
    /\ at' = IF at = "scope" THEN "statement" ELSE "replay"
    /\ i' = 0 /\ restarted' = FALSE
    /\ GoOn /\ Received

\* Mutant of ScopeRestart: over again, as often as it takes.
ScopeRestartAgain ==
    /\ Answered(InScope) /\ wire.answer.verdict = "gone"
    /\ H' = Forget(H) /\ i' = 1 /\ restarted' = TRUE
    /\ UNCHANGED at /\ GoOn /\ Received

\* A session lost part-way takes its USEs along: over again, once.
ScopeRestart ==
    /\ Answered(InScope) /\ wire.answer.verdict = "gone" /\ ~restarted
    /\ H' = Forget(H) /\ i' = 1 /\ restarted' = TRUE
    /\ UNCHANGED at /\ GoOn /\ Received

ScopeLost ==
    /\ Answered(InScope) /\ wire.answer.verdict = "gone" /\ restarted
    /\ Return(Forget(H), "08003") /\ Received

\* The role is refused, or the server is at fault: the scope stays pending.
ScopeFailed ==
    /\ Answered(InScope) /\ ~ItemDone /\ wire.answer.verdict # "gone"
    /\ Return(Heard, IF wire.answer.verdict = "refused" THEN "HY000" ELSE "08S01")
    /\ Received

\* Mutant of StatementDone: tracked before the answer is absorbed.
StatementDoneTrackedFirst ==
    /\ Answered({"statement", "replay"}) /\ wire.answer.verdict = "ok"
    /\ Return(Absorb(TrackSession(H, job.sql), wire.answer, wire.request.sid # NoSession), "ok")
    /\ Received

StatementDone ==
    /\ Answered({"statement", "replay"}) /\ wire.answer.verdict = "ok"
    /\ Return(TrackSession(Heard, job.sql), "ok")
    /\ Received

StatementFailed ==
    /\ Answered({"statement", "replay"}) /\ wire.answer.verdict \in {"refused", "fault"}
    /\ Return(Heard, IF wire.answer.verdict = "refused" THEN "HY000" ELSE "08S01")
    /\ Received

(***************************************************************************)
(* session_lost: what the lost session held decides whether the statement  *)
(* is refused or sent once more on a fresh one.                            *)
(***************************************************************************)
\* Mutant of HeldSomething: a transaction is not asked about.
HeldContext(h) == h.dirty

\* Mutant of HeldSomething: looked at once the session is forgotten.
HeldOnceForgotten(h) == LET f == Forget(h) IN f.dirty \/ f.in_transaction

HeldSomething(h) == h.dirty \/ h.in_transaction

LossReported ==
    /\ Answered({"statement"}) /\ wire.answer.verdict = "gone" /\ HeldSomething(H)
    /\ Return(Forget(H), "08003") /\ Received

\* Mutant of LossRepaired: sent again without the scope.
LossRepairedBare ==
    /\ Answered({"statement"}) /\ wire.answer.verdict = "gone" /\ ~HeldSomething(H)
    /\ H' = Forget(H) /\ at' = "replay" /\ UNCHANGED <<i, restarted>>
    /\ GoOn /\ Received

LossRepaired ==
    /\ Answered({"statement"}) /\ wire.answer.verdict = "gone" /\ ~HeldSomething(H)
    /\ EnterScope(Forget(H), "rescope", "replay")
    /\ GoOn /\ Received

SecondRefusal ==
    /\ Answered({"replay"}) /\ wire.answer.verdict = "gone"
    /\ Return(Forget(H), "08003") /\ Received

\* The bare post() of session_alive: only a successful answer means alive.
ProbeDone ==
    /\ Answered({"probe"})
    /\ Return(Heard, IF wire.answer.verdict = "ok" THEN "ok" ELSE "08S01")
    /\ Received

-----------------------------------------------------------------------------
(* The engine on its own.                                                  *)

\* A request given up on runs after all; its answer reaches nobody.
ServeAbandoned ==
    \E q \in abandoned :
      /\ abandoned' = abandoned \ {q}
      /\ \/ \E s \in Places(q, Free) :
              /\ LET x == IF s = q.sid THEN sessions[s] ELSE [Unborn EXCEPT !.live = TRUE]
                 IN  sessions' = [sessions EXCEPT ![s] =
                                    Unhear(AfterJob(x, q.job, "ok", FALSE), q.job)]
              /\ ledger' = CountRun(q)
         \/ UNCHANGED <<sessions, ledger>>
      /\ UNCHANGED <<tracking, wire>>
      /\ UNCHANGED driverVars

EngineOnly == UNCHANGED <<wire, abandoned, ledger>> /\ UNCHANGED driverVars

Expiry == (\E s \in Sessions : Expire(s, H.session_id)) /\ EngineOnly
EngineRestart == Restart(H.session_id) /\ EngineOnly

-----------------------------------------------------------------------------

Application ==
    \/ Connect \/ UseObject \/ Opened
    \/ (\E sql \in Statements : Statement(sql)) \/ StatementOnClosed
    \/ CheckLiveness \/ LetGo \/ StillHeld \/ Close

Engine ==
    \/ Serve \/ ServeGone \/ ServeFault
    \/ ServeAbandoned \/ Expiry \/ EngineRestart

GiveUp == Unreachable \/ TimedOut \/ AnswerLost

Receive ==
    \/ ScopeItem \/ ScopeWhole \/ ScopeRestart \/ ScopeLost \/ ScopeFailed
    \/ StatementDone \/ StatementFailed
    \/ LossReported \/ LossRepaired \/ SecondRefusal \/ ProbeDone

Next == Application \/ Engine \/ Post \/ GiveUp \/ Receive

Spec == Init /\ [][Next]_vars

(***************************************************************************)
(* The driver is one thread of C: it sends when it has to, it reads what   *)
(* came, and with a timeout above zero it does not wait for ever.  Nothing *)
(* is asked of the engine or of the application.                           *)
(***************************************************************************)
Fairness == WF_vars(Post) /\ WF_vars(GiveUp) /\ WF_vars(Receive)

FairSpec == Spec /\ Fairness

-----------------------------------------------------------------------------
(* What must hold.                                                         *)

(***************************************************************************)
(* No statement of the application runs twice, whatever is lost, late,     *)
(* refused or sent again (pdo_frostlake_execute's second post, and         *)
(* requests the engine runs after the driver gave up on them).             *)
(***************************************************************************)
AtMostOnce == \A c \in 1..MaxCalls : ledger[c].runs <= 1

(***************************************************************************)
(* What execute reports is what happened: a statement that succeeded ran   *)
(* once, and one refused with 08003 did not run, nor will it.              *)
(***************************************************************************)
ResultsAreTrue ==
    \A c \in 1..MaxCalls :
      /\ ledger[c].result = "ok" => ledger[c].runs = 1
      /\ ledger[c].result = "08003" => ledger[c].runs = 0

(***************************************************************************)
(* The driver's picture of its session errs on the safe side: while the    *)
(* engine holds the session and every effect on it was answered, context   *)
(* it holds is known as dirty, and a transaction with a statement of the   *)
(* application in it is known as such.  (With autocommit off a USE of the  *)
(* scope or the bare probe opens one with nothing in it, which the driver  *)
(* need not know: see TransactionNeverRepairedOver.)                       *)
(***************************************************************************)
PictureSound ==
    LET s == H.session_id
    IN  Live(s) /\ ~sessions[s].unheard /\ wire.phase # "answered" =>
          /\ sessions[s].held => H.dirty
          /\ sessions[s].txn = "work" => H.in_transaction

(***************************************************************************)
(* Every statement that runs does so in a session that was given the whole *)
(* scope first; the only exception is a session an engine may replace by   *)
(* itself, because the request did not require it.                         *)
(***************************************************************************)
Runs == wire.phase = "sent" /\ wire'.phase = "answered" /\ wire'.answer.verdict = "ok"

ScopeFirst ==
    [][/\ Runs /\ wire.request.job.kind = "statement"
       /\ wire.request.sid # NoSession => wire.request.require
       => sessions'[wire'.answer.sid].offered = ScopeSize]_vars

(***************************************************************************)
(* Against an engine that tracks sessions: until the application is told   *)
(* 08003, the session with the context or transaction it was told it has   *)
(* is the one the connection uses.                                         *)
(***************************************************************************)
NoSilentLoss ==
    conn = "open" =>
      /\ promised.context \in {NoSession, H.session_id}
      /\ promised.transaction \in {NoSession, H.session_id}

(***************************************************************************)
(* No USE of the scope the driver waits for runs over context a session    *)
(* has of its own, whether the driver heard of that context or not: only a *)
(* USE it gave up on, which the engine runs late, can do that.             *)
(***************************************************************************)
CoversContext == \E s \in Sessions : ~sessions[s].covered /\ sessions'[s].covered

ScopeNotOverContext == [][CoversContext => abandoned' # abandoned]_vars

(***************************************************************************)
(* What README says of a connection's session without the reservation: the *)
(* context set up on it lasts as long as the connection, so that the scope *)
(* is never put over it.                                                   *)
(***************************************************************************)
ContextStaysPut == \A s \in Sessions : ~sessions[s].covered

\* requireSession is only ever put to an engine that knows it.
OlderEngineNotAsked == wire.request.require => tracking

(***************************************************************************)
(* A statement is sent once more only if the session it was lost with held *)
(* nothing of the application's, as far as the driver was ever told        *)
(* (session_lost).                                                         *)
(***************************************************************************)
Repairs == at = "statement" /\ at' \in {"rescope", "replay"}

RepairsOnlyTheClean ==
    [][Repairs => LET x == sessions[H.session_id]
                  IN  x.unheard \/ ~(x.held \/ x.txn = "work")]_vars

(***************************************************************************)
(* What README says without the reservation: a statement whose lost        *)
(* session held context or work in a transaction is not run again.         *)
(***************************************************************************)
LossNeverRepairedOver ==
    [][Repairs => LET x == sessions[H.session_id]
                  IN  ~(x.held \/ x.txn = "work")]_vars

(***************************************************************************)
(* What README says of autocommit off: any statement since the last COMMIT *)
(* or ROLLBACK may have opened a transaction, and a loss of a session with *)
(* one open is not repaired over.  The scope's own USEs are left out of    *)
(* in_transaction (Opened clears it, apply_scope never sets it).           *)
(***************************************************************************)
TransactionNeverRepairedOver ==
    [][Repairs => LET x == sessions[H.session_id]
                  IN  x.unheard \/ x.txn = "none"]_vars

(***************************************************************************)
(* While the handle is kept, neither closed nor let go by a liveness       *)
(* check, a session still alive in the engine is never dropped: that would *)
(* leave it, and a transaction open on it, to the idle timeout (absorb,    *)
(* forget_session).                                                        *)
(***************************************************************************)
KeepsALiveSession ==
    [][conn' # "closed" /\ H'.session_id # H.session_id => ~Live(H.session_id)]_vars

(***************************************************************************)
(* Against an engine that tracks sessions: a handle the liveness check     *)
(* found fit has the application's context and transaction still there.    *)
(***************************************************************************)
Fit == job.kind = "ping" /\ at' = "idle" /\ conn' = "open"

ReusedOnlyIntact ==
    [][Fit => {promised.context, promised.transaction}
                \subseteq {NoSession, wire.answer.sid}]_vars

(***************************************************************************)
(* Every call returns, however often the engine loses the session under    *)
(* it (apply_scope starts over once, execute sends again once).            *)
(***************************************************************************)
CallsReturn == at # "idle" ~> at = "idle"

-----------------------------------------------------------------------------
(* What the application may count on (SessionContract).                    *)

\* Whether what the application was told it has in session s is still there.
Keeps(s) ==
    IF conn = "closed" \/ s = NoSession THEN "none"
    ELSE IF s = H.session_id /\ Live(s) THEN "there"
    ELSE "lost"

Contract == INSTANCE SessionContract WITH
    state  <- CASE conn \in {"none", "connecting", "failing"} -> "opening"
                [] conn \in {"open", "unfit"} -> "open"
                [] OTHER -> "closed",
    runs   <- [c \in 1..MaxCalls |-> ledger[c].runs],
    result <- [c \in 1..MaxCalls |-> ledger[c].result],
    kept   <- [context     |-> Keeps(promised.context),
               transaction |-> Keeps(promised.transaction)]

(***************************************************************************)
(* Against an engine that tracks sessions the connection keeps its         *)
(* contract: through lost sessions, retries and answers that never come,   *)
(* a statement runs at most once, never in place of a loss the application *)
(* has not heard of, and every report is true (pdo_frostlake_execute,      *)
(* session_lost, pdo_frostlake_track_session together).                    *)
(***************************************************************************)
ImplementsContract == Contract!Spec
=============================================================================
