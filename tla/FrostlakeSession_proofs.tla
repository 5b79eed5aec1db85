----------------------- MODULE FrostlakeSession_proofs -----------------------
(***************************************************************************)
(* Theorems about FrostlakeSession, for every number of sessions, calls,   *)
(* scope items and abandoned requests, and every set of statements.        *)
(***************************************************************************)
EXTENDS FrostlakeSession, TLAPS

(***************************************************************************)
(* TypeOK is inductive but for one step: starting the scope over needs a   *)
(* scope, which only the place the call stands in tells.                   *)
(***************************************************************************)
ScopeIsThere == at \in InScope => ScopeSize > 0

TypeInv == TypeOK /\ ScopeIsThere

-----------------------------------------------------------------------------

LEMMA Bounds ==
    /\ ScopeSize \in Nat /\ MaxCalls \in Nat /\ NoSession \notin Sessions
    /\ 0 \in 0..ScopeSize /\ 0 \in 0..MaxCalls
    /\ \A n \in 0..ScopeSize : n # 0 => 1 \in 0..ScopeSize /\ ScopeSize > 0
BY EngineAssumption, SessionAssumption DEF EngineAssumption, SessionAssumption

(* The pieces the steps are made of keep their types.                      *)

LEMMA JobTypes ==
    /\ Ping \in Sql /\ Use \in Sql
    /\ PingJob \in Job /\ NoJob \in Job
    /\ \A n \in 0..ScopeSize : UseJob(n) \in Job
    /\ \A n \in Nat, sql \in Sql : StatementJob(n, sql) \in Job
    /\ Quiet \in [phase : {"quiet", "sent", "answered"}, request : Request, answer : Answer]
<1>1. Ping \in Sql /\ Use \in Sql
  BY Bounds DEF Ping, Use, Sql
<1>2. PingJob \in Job /\ NoJob \in Job
  BY <1>1 DEF PingJob, NoJob, Job
<1>3. \A n \in 0..ScopeSize : UseJob(n) \in Job
  BY <1>1 DEF UseJob, Job
<1>4. \A n \in Nat, sql \in Sql : StatementJob(n, sql) \in Job
  BY DEF StatementJob, Job
<1>5. NoRequest \in Request /\ NoAnswer \in Answer
  BY <1>2 DEF NoRequest, NoAnswer, Request, Answer, SessionIds
<1> QED BY <1>1, <1>2, <1>3, <1>4, <1>5 DEF Quiet

LEMMA JobSql == \A j \in Job : j.sql \in Sql
BY JobTypes DEF Job

LEMMA JobNumber == \A j \in Job : j.kind = "use" => j.n \in 0..ScopeSize
BY DEF Job

\* A session stays one, whatever job it ran.
LEMMA AfterJobType ==
    ASSUME NEW x \in Session, NEW j \in Job, NEW verdict, NEW part
    PROVE  AfterJob(x, j, verdict, part) \in Session
<1>0. /\ j.sql.touches \in BOOLEAN /\ x.held \in BOOLEAN /\ x.covered \in BOOLEAN
      /\ x.txn \in Transaction /\ x.offered \in 0..ScopeSize
  BY JobSql DEF Sql, Session
<1>t. AfterTransaction(x.txn, j) \in Transaction
  BY <1>0 DEF AfterTransaction, Transaction
<1>1. CASE j.kind = "use"
  <2>1. Offered(x, j.n, verdict) \in 0..ScopeSize
    BY <1>0, <1>1, JobNumber DEF Offered
  <2>2. AfterUse(x, j, verdict) \in Session
    BY <1>0, <1>t, <2>1 DEF AfterUse, Session
  <2> QED BY <1>1, <2>2 DEF AfterJob
<1>2. CASE j.kind # "use"
  <2>1. "work" \in Transaction
    BY DEF Transaction
  <2>2. AfterStatement(x, j) \in Session /\ AfterPart(x, j) \in Session
    BY <1>0, <1>t, <2>1 DEF AfterStatement, AfterPart, Session
  <2> QED BY <1>2, <2>2 DEF AfterJob
<1> QED BY <1>1, <1>2

LEMMA UnhearType ==
    ASSUME NEW x \in Session, NEW j \in Job
    PROVE  Unhear(x, j) \in Session
BY JobSql DEF Unhear, LeavesSomething, Session, Sql

LEMMA UnbornType == Unborn \in Session /\ [Unborn EXCEPT !.live = TRUE] \in Session
<1>1. 0 \in 0..ScopeSize
  BY Bounds
<1>2. Unborn \in Session
  BY <1>1 DEF Unborn, Session, Transaction
<1>3. [Unborn EXCEPT !.live = TRUE] \in Session
  BY <1>2 DEF Session
<1> QED BY <1>2, <1>3

\* What frostlake_wire.c does to the handle leaves a handle.
LEMMA HandleTypes ==
    ASSUME NEW h \in Handle, NEW a \in Answer, NEW sent \in BOOLEAN, NEW sql \in Sql
    PROVE  /\ Forget(h) \in Handle
           /\ Absorb(h, a, sent) \in Handle
           /\ TrackSession(h, sql) \in Handle
           /\ Forget(h).scope_count = h.scope_count
           /\ Absorb(h, a, sent).scope_count = h.scope_count
           /\ TrackSession(h, sql).scope_count = h.scope_count
<1>1. Forget(h) \in Handle /\ Forget(h).scope_count = h.scope_count
  BY DEF Forget, Handle, SessionIds
<1>2. Learn(h, a, sent) \in Handle /\ Learn(h, a, sent).scope_count = h.scope_count
  BY <1>1 DEF Learn, Handle
<1>3. Absorb(h, a, sent) \in Handle /\ Absorb(h, a, sent).scope_count = h.scope_count
  BY <1>2 DEF Absorb, Handle, Answer
<1>4. TrackSession(h, sql) \in Handle /\ TrackSession(h, sql).scope_count = h.scope_count
  BY DEF TrackSession, Handle, Sql
<1> QED BY <1>1, <1>3, <1>4

\* What a call has of its own is well-typed once it returned.
CallTypes ==
    /\ conn \in ConnState /\ H \in Handle /\ at \in Locations /\ job \in Job
    /\ i \in 0..ScopeSize /\ restarted \in BOOLEAN
    /\ ledger \in [1..MaxCalls -> [runs : Nat, result : Results]]
    /\ promised \in [context : SessionIds, transaction : SessionIds]

LEMMA ReturnTypes ==
    ASSUME TypeInv, NEW h \in Handle, NEW result \in Results, Return(h, result)
    PROVE  CallTypes' /\ ScopeIsThere'
<1>1. H' \in Handle /\ at' \in Locations /\ ScopeIsThere'
  BY DEF Return, Locations, ScopeIsThere, InScope
<1>2. job' \in Job
  BY JobTypes DEF Return
<1>3. i' \in 0..ScopeSize /\ restarted' \in BOOLEAN
  <2>1. i' = 0 /\ restarted' = FALSE
    BY DEF Return
  <2> QED BY <2>1, Bounds
<1>4. conn' \in ConnState
  BY DEF TypeInv, TypeOK, Return, Verdict, ConnState
<1>5. promised' \in [context : SessionIds, transaction : SessionIds]
  <2>1. wire.answer.sid \in SessionIds
    BY DEF TypeInv, TypeOK, Answer
  <2>2. Promises(result, wire.answer.sid) \in [context : SessionIds, transaction : SessionIds]
    BY <2>1 DEF TypeInv, TypeOK, Promises, Nothing, SessionIds
  <2> QED BY <2>2 DEF Return
<1>6. ledger' \in [1..MaxCalls -> [runs : Nat, result : Results]]
  BY DEF TypeInv, TypeOK, Return
<1> QED BY <1>1, <1>2, <1>3, <1>4, <1>5, <1>6 DEF CallTypes

LEMMA EnterScopeTypes ==
    ASSUME NEW h \in Handle, NEW place \in InScope, NEW next \in Locations \ InScope,
           EnterScope(h, place, next)
    PROVE  /\ H' \in Handle /\ at' \in Locations /\ i' \in 0..ScopeSize
           /\ restarted' \in BOOLEAN /\ ScopeIsThere'
<1>0. h.scope_count \in 0..ScopeSize
  BY DEF Handle
<1>1. CASE h.scope_count = 0
  <2>1. at' = next /\ i' = 0 /\ restarted' = FALSE
    BY <1>1 DEF EnterScope
  <2>2. H' \in Handle
    BY <1>1 DEF EnterScope, Handle
  <2> QED BY <2>1, <2>2, Bounds DEF ScopeIsThere
<1>2. CASE h.scope_count # 0
  <2>1. at' = place /\ i' = 1 /\ restarted' = FALSE /\ H' = h
    BY <1>2 DEF EnterScope
  <2> QED BY <1>0, <1>2, <2>1, Bounds DEF ScopeIsThere, InScope, Locations
<1> QED BY <1>1, <1>2

LEMMA ExecuteTypes ==
    ASSUME NEW h \in Handle, NEW j \in Job, Execute(h, j)
    PROVE  /\ H' \in Handle /\ at' \in Locations /\ i' \in 0..ScopeSize
           /\ restarted' \in BOOLEAN /\ job' \in Job /\ ScopeIsThere'
<1>0. job' \in Job
  BY DEF Execute
<1>1. CASE h.scope_pending
  <2>1. EnterScope(h, "scope", "statement")
    BY <1>1 DEF Execute
  <2> QED BY <1>0, <2>1, EnterScopeTypes DEF InScope, Locations
<1>2. CASE ~h.scope_pending
  <2>1. at' = "statement" /\ H' = h /\ i' = 0 /\ restarted' = FALSE
    BY <1>2 DEF Execute
  <2> QED BY <1>0, <2>1, Bounds DEF InScope, Locations, ScopeIsThere
<1> QED BY <1>1, <1>2

LEMMA RanTypes ==
    ASSUME sessions \in [Sessions -> Session], NEW s \in Sessions, NEW q \in Request,
           NEW verdict, NEW part, Ran(q, s, verdict, part)
    PROVE  sessions' \in [Sessions -> Session]
<1> DEFINE x == IF s = q.sid THEN sessions[s] ELSE [Unborn EXCEPT !.live = TRUE]
<1>1. x \in Session
  BY UnbornType
<1>2. AfterJob(x, q.job, verdict, part) \in Session
  BY <1>1, AfterJobType DEF Request
<1> QED BY <1>2 DEF Ran

LEMMA CountRunTypes ==
    ASSUME ledger \in [1..MaxCalls -> [runs : Nat, result : Results]], NEW q
    PROVE  CountRun(q) \in [1..MaxCalls -> [runs : Nat, result : Results]]
<1>1. CASE q.job.n \in 1..MaxCalls
  BY <1>1 DEF CountRun
<1>2. CASE q.job.n \notin 1..MaxCalls
  BY <1>2 DEF CountRun
<1> QED BY <1>1, <1>2

LEMMA AnswerTypes ==
    /\ NoAnswer \in Answer
    /\ [NoAnswer EXCEPT !.verdict = "gone"] \in Answer
    /\ [NoAnswer EXCEPT !.verdict = "fault"] \in Answer
    /\ \A v \in {"ok", "refused"}, s \in Sessions, n \in {"yes", "no", "absent"} :
         [verdict |-> v, sid |-> s, newSession |-> n] \in Answer
BY DEF NoAnswer, Answer, SessionIds

LEMMA EndedType ==
    ASSUME sessions \in [Sessions -> Session], NEW s \in Sessions, NEW named
    PROVE  Ended(s, named) \in Session
<1>1. [sessions[s] EXCEPT !.live = FALSE, !.offered = 0] \in Session
  BY Bounds DEF Session
<1> QED BY <1>1, UnbornType DEF Ended

-----------------------------------------------------------------------------

LEMMA TypeInit == Init => TypeInv
<1> SUFFICES ASSUME Init PROVE TypeInv
  OBVIOUS
<1>1. EngineTypeOK
  BY UnbornType, Bounds DEF Init, EngineInit, EngineTypeOK
<1>2. H \in Handle
  BY Bounds DEF Init, NewHandle, Handle, SessionIds
<1>3. promised \in [context : SessionIds, transaction : SessionIds]
  BY DEF Init, Nothing, SessionIds
<1>4. ledger \in [1..MaxCalls -> [runs : Nat, result : Results]]
  BY DEF Init, Results
<1>5. /\ conn \in ConnState /\ at \in Locations /\ ScopeIsThere
      /\ restarted \in BOOLEAN /\ abandoned \subseteq Request
  BY DEF Init, ConnState, Locations, ScopeIsThere, InScope
<1>6. job \in Job /\ i \in 0..ScopeSize /\ calls \in 0..MaxCalls
  BY JobTypes, Bounds DEF Init
<1>7. wire \in [phase : {"quiet", "sent", "answered"}, request : Request, answer : Answer]
  BY JobTypes DEF Init
<1> QED BY <1>1, <1>2, <1>3, <1>4, <1>5, <1>6, <1>7 DEF TypeInv, TypeOK

\* What a call does not have of its own.
OtherTypes ==
    /\ EngineTypeOK /\ calls \in 0..MaxCalls /\ abandoned \subseteq Request
    /\ wire \in [phase : {"quiet", "sent", "answered"}, request : Request, answer : Answer]

LEMMA TypeParts == TypeInv <=> CallTypes /\ OtherTypes /\ ScopeIsThere
BY DEF TypeInv, TypeOK, CallTypes, OtherTypes

\* Receiving and giving up leave the rest as it was, and the wire quiet.
LEMMA ReceivedTypes == TypeInv /\ Received => OtherTypes'
BY JobTypes DEF TypeInv, TypeOK, OtherTypes, Received, EngineTypeOK

LEMMA GoOnTypes ==
    ASSUME TypeInv, GoOn, H' \in Handle, at' \in Locations, i' \in 0..ScopeSize,
           restarted' \in BOOLEAN
    PROVE  CallTypes'
BY DEF TypeInv, TypeOK, GoOn, CallTypes

LEMMA HeardType ==
    ASSUME TypeInv
    PROVE  Heard \in Handle /\ Heard.scope_count = H.scope_count
<1>1. H \in Handle /\ wire.answer \in Answer
  BY DEF TypeInv, TypeOK
<1>3. (wire.request.sid # NoSession) \in BOOLEAN
  OBVIOUS
<1>2. Ping \in Sql
  BY JobTypes
<1> QED BY <1>1, <1>2, <1>3, HandleTypes DEF Heard

\* Actions that only touch the exchange leave the call alone.
LEMMA DriverKept ==
    ASSUME TypeInv, UNCHANGED driverVars,
           ledger' \in [1..MaxCalls -> [runs : Nat, result : Results]]
    PROVE  CallTypes' /\ ScopeIsThere' /\ calls' \in 0..MaxCalls
BY DEF TypeInv, TypeOK, driverVars, CallTypes, ScopeIsThere

-----------------------------------------------------------------------------

LEMMA TypeApplication == TypeInv /\ Application => TypeInv'
<1> SUFFICES ASSUME TypeInv, Application PROVE TypeInv'
  OBVIOUS
<1>0. H \in Handle /\ calls \in 0..MaxCalls /\ MaxCalls \in Nat
  BY Bounds DEF TypeInv, TypeOK
<1>1. NewHandle \in Handle
  BY Bounds DEF NewHandle, Handle, SessionIds
<1>2. CASE Connect
  BY <1>1, <1>2 DEF Connect, Idle, TypeInv, TypeOK, EngineTypeOK, ScopeIsThere, ConnState
<1>3. CASE UseObject
  <2> DEFINE n == H.scope_count + 1
  <2>1. n \in 0..ScopeSize
    BY <1>0, <1>3, Bounds DEF UseObject, Handle
  <2>2. [H EXCEPT !.scope_count = n] \in Handle /\ UseJob(n) \in Job
    BY <1>0, <2>1, JobTypes DEF Handle
  <2>3. Execute([H EXCEPT !.scope_count = n], UseJob(n))
    BY <1>3 DEF UseObject
  <2>4. /\ H' \in Handle /\ at' \in Locations /\ i' \in 0..ScopeSize
        /\ restarted' \in BOOLEAN /\ job' \in Job /\ ScopeIsThere'
    BY <2>2, <2>3, ExecuteTypes
  <2> QED BY <1>3, <2>4 DEF UseObject, Idle, TypeInv, TypeOK, EngineTypeOK
<1>4. CASE Opened
  <2>1. [H EXCEPT !.dirty = FALSE, !.in_transaction = FALSE] \in Handle
    BY <1>0 DEF Handle
  <2> QED BY <1>4, <2>1 DEF Opened, Idle, TypeInv, TypeOK, EngineTypeOK, ScopeIsThere, ConnState
<1>5. ASSUME NEW sql \in Statements, Statement(sql) PROVE TypeInv'
  <2>1. calls + 1 \in 0..MaxCalls /\ calls + 1 \in Nat
    BY <1>0, <1>5 DEF Statement
  <2>2. StatementJob(calls + 1, sql) \in Job
    BY <2>1, JobTypes, EngineAssumption DEF EngineAssumption
  <2>3. Execute(H, StatementJob(calls + 1, sql))
    BY <1>5 DEF Statement
  <2>4. /\ H' \in Handle /\ at' \in Locations /\ i' \in 0..ScopeSize
        /\ restarted' \in BOOLEAN /\ job' \in Job /\ ScopeIsThere'
    BY <1>0, <2>2, <2>3, ExecuteTypes
  <2> QED BY <1>5, <2>1, <2>4 DEF Statement, Idle, TypeInv, TypeOK, EngineTypeOK
<1>6. CASE StatementOnClosed
  <2>1. calls' \in 0..MaxCalls
    BY <1>0, <1>6 DEF StatementOnClosed
  <2>2. ledger' \in [1..MaxCalls -> [runs : Nat, result : Results]]
    BY <1>6 DEF StatementOnClosed, TypeInv, TypeOK, Results
  <2> QED BY <1>6, <2>1, <2>2 DEF StatementOnClosed, Idle, TypeInv, TypeOK, EngineTypeOK, ScopeIsThere
<1>7. CASE CheckLiveness
  <2>1. /\ H' \in Handle /\ at' \in Locations /\ i' \in 0..ScopeSize
        /\ restarted' \in BOOLEAN /\ job' \in Job /\ ScopeIsThere'
    <3>1. CASE UNCHANGED <<H, at, job, i, restarted>>
      BY <3>1 DEF TypeInv, TypeOK, ScopeIsThere
    <3>2. CASE Execute(H, PingJob)
      BY <1>0, <3>2, ExecuteTypes, JobTypes
    <3>3. CASE at' = "probe" /\ job' = PingJob /\ UNCHANGED <<H, i, restarted>>
      BY <3>3, JobTypes DEF TypeInv, TypeOK, ScopeIsThere, InScope, Locations
    <3> QED BY <1>7, <3>1, <3>2, <3>3 DEF CheckLiveness
  <2>2. conn' \in ConnState
    BY <1>7 DEF CheckLiveness, ConnState
  <2> QED BY <1>7, <2>1, <2>2 DEF CheckLiveness, Idle, TypeInv, TypeOK, EngineTypeOK
<1>8. CASE LetGo
  BY <1>1, <1>8 DEF LetGo, Idle, TypeInv, TypeOK, EngineTypeOK, ScopeIsThere, ConnState
<1>9. CASE StillHeld
  BY <1>9 DEF StillHeld, Idle, TypeInv, TypeOK, EngineTypeOK, ScopeIsThere, ConnState
<1>10. CASE Close
  <2>1. sessions' \in [Sessions -> Session]
    BY <1>10, UnbornType DEF Close, Released, TypeInv, TypeOK, EngineTypeOK
  <2> QED BY <1>1, <1>10, <2>1 DEF Close, TypeInv, TypeOK, EngineTypeOK, ScopeIsThere, ConnState
<1> QED BY <1>2, <1>3, <1>4, <1>5, <1>6, <1>7, <1>8, <1>9, <1>10 DEF Application

LEMMA TypePost == TypeInv /\ Post => TypeInv'
<1> SUFFICES ASSUME TypeInv, Post PROVE TypeInv'
  OBVIOUS
<1>1. JobHere \in Job
  BY JobTypes DEF JobHere, TypeInv, TypeOK
<1>2. RequestFor(H, JobHere) \in Request
  BY <1>1 DEF RequestFor, Request, TypeInv, TypeOK, Handle
<1>3. wire' \in [phase : {"quiet", "sent", "answered"}, request : Request, answer : Answer]
  BY <1>2, AnswerTypes DEF Post
<1>4. CallTypes' /\ ScopeIsThere' /\ calls' \in 0..MaxCalls
  BY DriverKept DEF Post, TypeInv, TypeOK
<1>5. OtherTypes'
  BY <1>3, <1>4 DEF OtherTypes, Post, TypeInv, TypeOK, EngineTypeOK
<1> QED BY <1>4, <1>5, TypeParts DEF TypeInv, TypeOK, CallTypes, OtherTypes, ScopeIsThere

LEMMA TypeEngine == TypeInv /\ Engine => TypeInv'
<1> SUFFICES ASSUME TypeInv, Engine PROVE TypeInv'
  OBVIOUS
<1> DEFINE Ledgers == [1..MaxCalls -> [runs : Nat, result : Results]]
<1> DEFINE Wires == [phase : {"quiet", "sent", "answered"}, request : Request, answer : Answer]
<1>0. /\ sessions \in [Sessions -> Session] /\ tracking \in BOOLEAN /\ ledger \in Ledgers
      /\ wire \in Wires /\ abandoned \subseteq Request /\ wire.request \in Request
  BY DEF TypeInv, TypeOK, EngineTypeOK
<1>a. ASSUME NEW a \in Answer, Answering(a) PROVE wire' \in Wires
  BY <1>0, <1>a DEF Answering
<1>b. SUFFICES /\ sessions' \in [Sessions -> Session] /\ tracking' \in BOOLEAN
               /\ ledger' \in Ledgers /\ wire' \in Wires /\ abandoned' \subseteq Request
               /\ UNCHANGED driverVars
  <2>1. CallTypes' /\ ScopeIsThere' /\ calls' \in 0..MaxCalls
    BY <1>b, DriverKept
  <2> QED BY <1>b, <2>1 DEF TypeInv, TypeOK, EngineTypeOK, CallTypes
<1>1. CASE Serve
  <2>1. PICK s \in Places(wire.request, Free), v \in Verdicts(wire.request) :
          /\ Ran(wire.request, s, v[1], v[2])
          /\ Answering([verdict |-> v[1], sid |-> s, newSession |-> NewSession(wire.request, s)])
    BY <1>1 DEF Serve
  <2>2. s \in Sessions
    BY <2>1 DEF Places, Live, Free
  <2>3. v[1] \in {"ok", "refused"}
    <3>1. v = <<"ok", FALSE>> \/ v = <<"refused", FALSE>> \/ v = <<"refused", TRUE>>
      BY <2>1 DEF Verdicts
    <3>2. <<"ok", FALSE>>[1] = "ok" /\ <<"refused", FALSE>>[1] = "refused"
          /\ <<"refused", TRUE>>[1] = "refused"
      OBVIOUS
    <3> QED BY <3>1, <3>2
  <2>4. [verdict |-> v[1], sid |-> s, newSession |-> NewSession(wire.request, s)] \in Answer
    BY <2>2, <2>3, AnswerTypes DEF NewSession
  <2>5. sessions' \in [Sessions -> Session]
    BY <1>0, <2>1, <2>2, RanTypes
  <2>6. wire' \in Wires
    BY <1>a, <2>1, <2>4
  <2>7. ledger' \in Ledgers
    BY <1>0, <1>1, CountRunTypes DEF Serve
  <2> QED BY <1>0, <1>1, <2>5, <2>6, <2>7 DEF Serve
<1>2. CASE ServeGone
  BY <1>0, <1>2, <1>a, AnswerTypes DEF ServeGone
<1>3. CASE ServeFault
  BY <1>0, <1>3, <1>a, AnswerTypes DEF ServeFault
<1>4. CASE ServeAbandoned
  <2>1. PICK q \in abandoned :
          /\ abandoned' = abandoned \ {q}
          /\ \/ \E s \in Places(q, Free) :
                  /\ sessions' = [sessions EXCEPT ![s] =
                        Unhear(AfterJob(IF s = q.sid THEN sessions[s]
                                        ELSE [Unborn EXCEPT !.live = TRUE],
                                        q.job, "ok", FALSE), q.job)]
                  /\ ledger' = CountRun(q)
             \/ UNCHANGED <<sessions, ledger>>
          /\ UNCHANGED <<tracking, wire>>
          /\ UNCHANGED driverVars
    BY <1>4 DEF ServeAbandoned
  <2>2. q.job \in Job
    BY <1>0 DEF Request
  <2>3. CASE UNCHANGED <<sessions, ledger>>
    BY <1>0, <2>1, <2>3
  <2>4. ASSUME NEW s \in Places(q, Free),
               sessions' = [sessions EXCEPT ![s] =
                 Unhear(AfterJob(IF s = q.sid THEN sessions[s] ELSE [Unborn EXCEPT !.live = TRUE],
                                 q.job, "ok", FALSE), q.job)],
               ledger' = CountRun(q)
        PROVE  sessions' \in [Sessions -> Session] /\ ledger' \in Ledgers
    <3> DEFINE x == IF s = q.sid THEN sessions[s] ELSE [Unborn EXCEPT !.live = TRUE]
    <3>1. s \in Sessions
      BY DEF Places, Live, Free
    <3>2. x \in Session
      BY <1>0, <3>1, UnbornType
    <3>3. AfterJob(x, q.job, "ok", FALSE) \in Session
      BY <2>2, <3>2, AfterJobType
    <3>4. Unhear(AfterJob(x, q.job, "ok", FALSE), q.job) \in Session
      BY <2>2, <3>3, UnhearType
    <3>5. sessions' \in [Sessions -> Session]
      BY <1>0, <2>4, <3>4
    <3> QED BY <1>0, <2>4, <3>5, CountRunTypes
  <2> QED BY <1>0, <2>1, <2>3, <2>4
<1>5. CASE Expiry
  <2>1. PICK s \in Sessions : Expire(s, H.session_id)
    BY <1>5 DEF Expiry
  <2>2. sessions' \in [Sessions -> Session] /\ tracking' \in BOOLEAN
    BY <1>0, <2>1, EndedType DEF Expire
  <2> QED BY <1>0, <1>5, <2>2 DEF Expiry, EngineOnly
<1>6. CASE EngineRestart
  <2>1. sessions' \in [Sessions -> Session] /\ tracking' \in BOOLEAN
    BY <1>0, <1>6, EndedType DEF EngineRestart, Restart
  <2> QED BY <1>0, <1>6, <2>1 DEF EngineRestart, EngineOnly
<1> QED BY <1>1, <1>2, <1>3, <1>4, <1>5, <1>6 DEF Engine

LEMMA TypeGiveUp == TypeInv /\ GiveUp => TypeInv'
<1> SUFFICES ASSUME TypeInv, GiveUp PROVE TypeInv'
  OBVIOUS
<1>0. H \in Handle /\ Quiet \in [phase : {"quiet", "sent", "answered"}, request : Request, answer : Answer]
  BY JobTypes DEF TypeInv, TypeOK
<1>1. CASE Unreachable
  <2>1. CallTypes' /\ ScopeIsThere'
    BY <1>0, <1>1, ReturnTypes DEF Unreachable, Results
  <2>2. OtherTypes'
    BY <1>0, <1>1 DEF Unreachable, OtherTypes, TypeInv, TypeOK, EngineTypeOK
  <2> QED BY <2>1, <2>2 DEF TypeInv, TypeOK, CallTypes, OtherTypes
<1>2. CASE TimedOut
  <2>1. CallTypes' /\ ScopeIsThere'
    BY <1>0, <1>2, ReturnTypes DEF TimedOut, NoAnswerCodes, Results
  <2>2. OtherTypes'
    BY <1>0, <1>2 DEF TimedOut, OtherTypes, TypeInv, TypeOK, EngineTypeOK
  <2> QED BY <2>1, <2>2 DEF TypeInv, TypeOK, CallTypes, OtherTypes
<1>3. CASE AnswerLost
  <2>1. CallTypes' /\ ScopeIsThere'
    BY <1>0, <1>3, ReturnTypes DEF AnswerLost, NoAnswerCodes, Results
  <2>2. sessions \in [Sessions -> Session] /\ wire.request.job \in Job
    BY DEF TypeInv, TypeOK, EngineTypeOK, Request
  <2>3. sessions' \in [Sessions -> Session]
    BY <1>3, <2>2, UnhearType DEF AnswerLost
  <2>4. OtherTypes'
    BY <1>0, <1>3, <2>3 DEF AnswerLost, OtherTypes, TypeInv, TypeOK, EngineTypeOK
  <2> QED BY <2>1, <2>4 DEF TypeInv, TypeOK, CallTypes, OtherTypes
<1> QED BY <1>1, <1>2, <1>3 DEF GiveUp

LEMMA TypeReceive == TypeInv /\ Receive => TypeInv'
<1> SUFFICES ASSUME TypeInv, Receive PROVE TypeInv'
  OBVIOUS
<1>0. /\ H \in Handle /\ at \in Locations /\ i \in 0..ScopeSize /\ job.sql \in Sql
      /\ H.scope_count \in 0..ScopeSize /\ ScopeSize \in Nat
      /\ Heard \in Handle /\ Heard.scope_count = H.scope_count
  BY HeardType, Bounds, JobSql DEF TypeInv, TypeOK, Handle
<1>1. Forget(H) \in Handle /\ TrackSession(Heard, job.sql) \in Handle
  <2>1. NoAnswer \in Answer /\ FALSE \in BOOLEAN
    BY AnswerTypes
  <2> QED BY <1>0, <2>1, HandleTypes
<1>2. OtherTypes'
  BY ReceivedTypes
     DEF Receive, ScopeItem, ScopeWhole, ScopeRestart, ScopeLost, ScopeFailed, StatementDone,
         StatementFailed, LossReported, LossRepaired, SecondRefusal, ProbeDone
<1>3. SUFFICES CallTypes' /\ ScopeIsThere'
  BY <1>2, <1>3 DEF TypeInv, TypeOK, CallTypes, OtherTypes
<1>4. CASE ScopeItem
  <2>1. i + 1 \in 0..ScopeSize
    BY <1>0, <1>4 DEF ScopeItem
  <2>2. H' \in Handle /\ at' = at /\ i' \in 0..ScopeSize /\ restarted' \in BOOLEAN
    BY <1>0, <1>4, <2>1 DEF ScopeItem, TypeInv, TypeOK
  <2> QED BY <1>0, <1>4, <2>2, GoOnTypes DEF ScopeItem, TypeInv, ScopeIsThere
<1>5. CASE ScopeWhole
  <2>1. [Heard EXCEPT !.scope_pending = FALSE] \in Handle
    BY <1>0 DEF Handle
  <2>2. H' \in Handle /\ i' = 0 /\ restarted' = FALSE /\ at' \in {"statement", "replay"}
    BY <1>5, <2>1 DEF ScopeWhole
  <2>3. at' \in Locations /\ ScopeIsThere' /\ i' \in 0..ScopeSize /\ restarted' \in BOOLEAN
    BY <2>2, Bounds DEF Locations, ScopeIsThere, InScope
  <2> QED BY <1>5, <2>2, <2>3, GoOnTypes DEF ScopeWhole
<1>6. CASE ScopeRestart
  <2>1. at \in InScope /\ at' = at /\ H' = Forget(H) /\ i' = 1 /\ restarted' = TRUE
    BY <1>6 DEF ScopeRestart, Answered
  <2>2. i' \in 0..ScopeSize /\ ScopeIsThere'
    BY <1>0, <2>1 DEF TypeInv, ScopeIsThere
  <2> QED BY <1>0, <1>1, <1>6, <2>1, <2>2, GoOnTypes DEF ScopeRestart
<1>7. CASE ScopeLost
  BY <1>1, <1>7, ReturnTypes DEF ScopeLost, Results
<1>8. CASE ScopeFailed
  BY <1>0, <1>8, ReturnTypes DEF ScopeFailed, Results
<1>9. CASE StatementDone
  BY <1>1, <1>9, ReturnTypes DEF StatementDone, Results
<1>10. CASE StatementFailed
  BY <1>0, <1>10, ReturnTypes DEF StatementFailed, Results
<1>11. CASE LossReported
  BY <1>1, <1>11, ReturnTypes DEF LossReported, Results
<1>12. CASE LossRepaired
  <2>1. EnterScope(Forget(H), "rescope", "replay")
    BY <1>12 DEF LossRepaired
  <2>2. /\ H' \in Handle /\ at' \in Locations /\ i' \in 0..ScopeSize
        /\ restarted' \in BOOLEAN /\ ScopeIsThere'
    <3>1. "rescope" \in InScope /\ "replay" \in Locations \ InScope
      BY DEF InScope, Locations
    <3> QED BY <1>1, <2>1, <3>1, EnterScopeTypes
  <2> QED BY <1>12, <2>2, GoOnTypes DEF LossRepaired
<1>13. CASE SecondRefusal
  BY <1>1, <1>13, ReturnTypes DEF SecondRefusal, Results
<1>14. CASE ProbeDone
  BY <1>0, <1>14, ReturnTypes DEF ProbeDone, Results
<1> QED BY <1>4, <1>5, <1>6, <1>7, <1>8, <1>9, <1>10, <1>11, <1>12, <1>13, <1>14 DEF Receive

LEMMA TypeStep == TypeInv /\ [Next]_vars => TypeInv'
<1> SUFFICES ASSUME TypeInv, [Next]_vars PROVE TypeInv'
  OBVIOUS
<1>1. CASE Next
  BY <1>1, TypeApplication, TypePost, TypeEngine, TypeGiveUp, TypeReceive DEF Next
<1>2. CASE UNCHANGED vars
  BY <1>2 DEF vars, TypeInv, TypeOK, EngineTypeOK, ScopeIsThere
<1> QED BY <1>1, <1>2

(***************************************************************************)
(* Every reachable state is well-typed: in particular apply_scope never    *)
(* runs past its scope and a session is never offered an item it has not.  *)
(***************************************************************************)
THEOREM TypeCorrect == Spec => []TypeOK
<1>1. TypeInv => TypeOK
  BY DEF TypeInv
<1>2. Spec => []TypeInv
  BY TypeInit, TypeStep, PTL DEF Spec
<1> QED BY <1>1, <1>2, PTL

-----------------------------------------------------------------------------
(***************************************************************************)
(* Why a statement runs at most once, and why what the application hears   *)
(* of it is true.  A request in progress is the running call's own; while  *)
(* the call can still send its statement, or has had it refused as gone,   *)
(* the statement has not run and no request given up on carries it; and a  *)
(* request given up on is the only one left to run its statement.          *)
(***************************************************************************)
Carries(q, c) == q.job.kind = "statement" /\ q.job.n = c

IdleIsQuiet == at = "idle" => job = NoJob /\ wire.phase = "quiet"

RightRequest == wire.phase # "quiet" => wire.request.job = JobHere

KnownCalls ==
    /\ job.kind = "statement" => job.n \in 1..calls
    /\ \A q \in abandoned, c \in 1..MaxCalls : Carries(q, c) => c <= calls

FutureCalls ==
    \A c \in 1..MaxCalls : c > calls => ledger[c] = [runs |-> 0, result |-> "none"]

MayStillRun == at \in InScope \/ wire.phase # "answered" \/ wire.answer.verdict = "gone"

OpenCall ==
    job.kind = "statement" =>
      /\ ledger[job.n].result = "none"
      /\ \A q \in abandoned : ~Carries(q, job.n)
      /\ MayStillRun => ledger[job.n].runs = 0
      /\ ~MayStillRun /\ wire.answer.verdict = "ok" => ledger[job.n].runs = 1

AbandonedOnce ==
    \A q \in abandoned, c \in 1..MaxCalls : Carries(q, c) =>
      /\ ledger[c].runs = 0
      /\ ledger[c].result \notin {"ok", "08003"}
      /\ \A r \in abandoned : Carries(r, c) => r = q

LedgerInv ==
    /\ IdleIsQuiet /\ RightRequest /\ KnownCalls /\ FutureCalls
    /\ OpenCall /\ AbandonedOnce
    /\ AtMostOnce /\ ResultsAreTrue

LEMMA LedgerInit == Init => LedgerInv
<1> SUFFICES ASSUME Init PROVE LedgerInv
  OBVIOUS
<1>1. \A c \in 1..MaxCalls : ledger[c] = [runs |-> 0, result |-> "none"]
  BY DEF Init
<1>2. /\ job.kind = "none" /\ wire.phase = "quiet" /\ abandoned = {}
      /\ at = "idle" /\ job = NoJob
  BY DEF Init, NoJob, Quiet
<1>3. IdleIsQuiet /\ RightRequest /\ KnownCalls /\ FutureCalls /\ OpenCall /\ AbandonedOnce
  BY <1>1, <1>2 DEF IdleIsQuiet, RightRequest, KnownCalls, FutureCalls, OpenCall, AbandonedOnce
<1>4. AtMostOnce /\ ResultsAreTrue
  BY <1>1 DEF AtMostOnce, ResultsAreTrue
<1> QED BY <1>3, <1>4 DEF LedgerInv

\* The running call's own number is one of the ledger's.
LEMMA OwnNumber ==
    ASSUME TypeInv, LedgerInv, job.kind = "statement"
    PROVE  job.n \in 1..calls /\ job.n \in 1..MaxCalls
<1>1. calls \in 0..MaxCalls /\ job.n \in 1..calls
  BY DEF TypeInv, TypeOK, LedgerInv, KnownCalls
<1> QED BY <1>1, Bounds

\* A request that carries a statement is the running call's own statement.
LEMMA OwnRequest ==
    ASSUME LedgerInv, wire.phase # "quiet", NEW c, Carries(wire.request, c)
    PROVE  at \notin InScope /\ wire.request.job = job /\ job.kind = "statement" /\ job.n = c
<1>1. wire.request.job = JobHere
  BY DEF LedgerInv, RightRequest
<1>2. JobHere.kind = "statement" /\ JobHere.n = c
  BY <1>1 DEF Carries
<1>3. at \notin InScope
  BY <1>2 DEF JobHere, UseJob
<1> QED BY <1>1, <1>2, <1>3 DEF JobHere

(***************************************************************************)
(* A step of the driver inside a call whose statement may still run, and   *)
(* may still run after it: nothing about any ledger entry changes.         *)
(***************************************************************************)
LEMMA StillRunning ==
    ASSUME TypeInv, LedgerInv, UNCHANGED <<job, ledger, abandoned, calls>>,
           MayStillRun, MayStillRun', at' # "idle",
           wire'.phase # "quiet" => wire'.request.job = JobHere'
    PROVE  LedgerInv'
<1>1. IdleIsQuiet' /\ RightRequest'
  BY DEF IdleIsQuiet, RightRequest
<1>2. KnownCalls' /\ FutureCalls' /\ AbandonedOnce' /\ AtMostOnce' /\ ResultsAreTrue'
  BY DEF LedgerInv, KnownCalls, FutureCalls, AbandonedOnce, AtMostOnce, ResultsAreTrue, Carries
<1>3. OpenCall'
  BY DEF LedgerInv, OpenCall, Carries
<1> QED BY <1>1, <1>2, <1>3 DEF LedgerInv

(***************************************************************************)
(* A call that returns settles its own entry and no other.  What it says   *)
(* must agree with the entry; the request may be left behind, if it was    *)
(* timed out.                                                              *)
(***************************************************************************)
LEMMA Settled ==
    ASSUME TypeInv, LedgerInv, NEW h, NEW result \in Results, Return(h, result),
           wire' = Quiet, calls' = calls,
           \/ abandoned' = abandoned
           \/ /\ abandoned' = abandoned \cup {wire.request}
              /\ wire.phase = "sent" /\ result \in NoAnswerCodes,
           job.kind = "statement" =>
             /\ result = "ok" => ledger[job.n].runs = 1
             /\ result = "08003" => ledger[job.n].runs = 0
    PROVE  LedgerInv'
<1>1. at' = "idle" /\ job' = NoJob /\ wire'.phase = "quiet"
  BY DEF Return, Quiet
<1>2. job'.kind = "none"
  BY <1>1 DEF NoJob
<1>3. IdleIsQuiet' /\ RightRequest' /\ OpenCall'
  BY <1>1, <1>2 DEF IdleIsQuiet, RightRequest, OpenCall
<1>4. ledger \in [1..MaxCalls -> [runs : Nat, result : Results]]
  BY DEF TypeInv, TypeOK
<1>5. \A c \in 1..MaxCalls :
        /\ ledger'[c].runs = ledger[c].runs
        /\ ~(job.kind = "statement" /\ job.n = c) => ledger'[c] = ledger[c]
        /\ job.kind = "statement" /\ job.n = c => ledger'[c].result = result
  BY <1>4 DEF Return
<1>6. \A q \in abandoned', c \in 1..MaxCalls :
        Carries(q, c) => q \in abandoned \/
          (/\ q = wire.request /\ job.kind = "statement" /\ job.n = c /\ MayStillRun
           /\ result \in NoAnswerCodes /\ ledger[c].runs = 0)
  <2> SUFFICES ASSUME NEW q \in abandoned', NEW c \in 1..MaxCalls, Carries(q, c),
                      q \notin abandoned
               PROVE  /\ q = wire.request /\ job.kind = "statement" /\ job.n = c /\ MayStillRun
                      /\ result \in NoAnswerCodes /\ ledger[c].runs = 0
    OBVIOUS
  <2>1. q = wire.request /\ wire.phase = "sent" /\ result \in NoAnswerCodes
    OBVIOUS
  <2>2. job.kind = "statement" /\ job.n = c
    BY <2>1, OwnRequest
  <2>3. MayStillRun
    BY <2>1 DEF MayStillRun
  <2> QED BY <2>1, <2>2, <2>3 DEF LedgerInv, OpenCall
<1>7. KnownCalls'
  <2>1. \A q \in abandoned', c \in 1..MaxCalls : Carries(q, c) => c <= calls
    <3> SUFFICES ASSUME NEW q \in abandoned', NEW c \in 1..MaxCalls, Carries(q, c)
                 PROVE  c <= calls
      OBVIOUS
    <3>1. CASE q \in abandoned
      BY <3>1 DEF LedgerInv, KnownCalls
    <3>2. CASE q \notin abandoned
      <4>1. job.kind = "statement" /\ job.n = c
        BY <1>6, <3>2
      <4>2. calls \in Nat /\ job.n \in 1..calls
        BY <4>1, OwnNumber, Bounds DEF TypeInv, TypeOK
      <4> QED BY <4>1, <4>2
    <3> QED BY <3>1, <3>2
  <2> QED BY <1>2, <2>1 DEF KnownCalls, Carries
<1>8. FutureCalls'
  <2> SUFFICES ASSUME NEW c \in 1..MaxCalls, c > calls
               PROVE  ledger'[c] = [runs |-> 0, result |-> "none"]
    BY DEF FutureCalls
  <2>1. ~(job.kind = "statement" /\ job.n = c)
    BY OwnNumber DEF TypeInv, TypeOK
  <2> QED BY <1>5, <2>1 DEF LedgerInv, FutureCalls
<1>9. AbandonedOnce'
  <2> SUFFICES ASSUME NEW q \in abandoned', NEW c \in 1..MaxCalls, Carries(q, c)
               PROVE  /\ ledger'[c].runs = 0
                      /\ ledger'[c].result \notin {"ok", "08003"}
                      /\ \A r \in abandoned' : Carries(r, c) => r = q
    BY DEF AbandonedOnce, Carries
  <2>1. CASE q \in abandoned
    <3>1. ~(job.kind = "statement" /\ job.n = c)
      BY <2>1 DEF LedgerInv, OpenCall
    <3>2. ledger'[c] = ledger[c]
      BY <1>5, <3>1
    <3>3. \A r \in abandoned' : Carries(r, c) => r \in abandoned
      BY <1>6, <3>1
    <3> QED BY <2>1, <3>2, <3>3 DEF LedgerInv, AbandonedOnce
  <2>2. CASE q \notin abandoned
    <3>1. /\ q = wire.request /\ job.kind = "statement" /\ job.n = c
          /\ result \in NoAnswerCodes /\ ledger[c].runs = 0
      BY <1>6, <2>2
    <3>2. \A r \in abandoned : ~Carries(r, c)
      BY <3>1 DEF LedgerInv, OpenCall
    <3>3. \A r \in abandoned' : Carries(r, c) => r = q
      BY <1>6, <3>1, <3>2
    <3>4. ledger'[c].runs = 0 /\ ledger'[c].result \notin {"ok", "08003"}
      BY <1>5, <3>1 DEF NoAnswerCodes
    <3> QED BY <3>3, <3>4
  <2> QED BY <2>1, <2>2
<1>10. AtMostOnce'
  BY <1>5 DEF LedgerInv, AtMostOnce
<1>11. ResultsAreTrue'
  BY <1>5 DEF LedgerInv, ResultsAreTrue
<1> QED BY <1>3, <1>7, <1>8, <1>9, <1>10, <1>11 DEF LedgerInv

\* Steps that touch neither a call, nor a request, nor an entry.
LEMMA Untouched ==
    ASSUME LedgerInv, UNCHANGED <<at, job, i, wire, abandoned, calls, ledger>>
    PROVE  LedgerInv'
BY DEF LedgerInv, IdleIsQuiet, RightRequest, JobHere, KnownCalls, FutureCalls, OpenCall,
       MayStillRun, AbandonedOnce, Carries, AtMostOnce, ResultsAreTrue

\* A call that is not a statement's starts.
LEMMA OtherCallStarts ==
    ASSUME LedgerInv, at = "idle", at' # "idle", job'.kind # "statement",
           UNCHANGED <<wire, abandoned, calls, ledger>>
    PROVE  LedgerInv'
<1>1. wire'.phase = "quiet"
  BY DEF LedgerInv, IdleIsQuiet
<1> QED BY <1>1 DEF LedgerInv, IdleIsQuiet, RightRequest, KnownCalls, FutureCalls, OpenCall,
                    AbandonedOnce, Carries, AtMostOnce, ResultsAreTrue

\* Into execute: the place is one of its two first, the job the one given.
LEMMA ExecuteStarts ==
    ASSUME NEW h, NEW j, Execute(h, j)
    PROVE  job' = j /\ at' \in {"scope", "statement"}
BY DEF Execute, EnterScope

\* A statement's call starts, under a number no request carries.
LEMMA StatementStarts ==
    ASSUME TypeInv, LedgerInv, NEW sql \in Statements, Statement(sql)
    PROVE  LedgerInv'
<1> DEFINE n == calls + 1
<1>1. /\ calls \in Nat /\ calls < MaxCalls /\ calls' = n /\ n \in 1..MaxCalls
      /\ at = "idle" /\ UNCHANGED <<wire, abandoned, ledger>>
  BY Bounds DEF Statement, Idle, TypeInv, TypeOK
<1>2. job' = StatementJob(n, sql) /\ at' \in {"scope", "statement"}
  BY ExecuteStarts DEF Statement
<1>3. job'.kind = "statement" /\ job'.n = n /\ wire'.phase = "quiet"
  BY <1>1, <1>2 DEF StatementJob, LedgerInv, IdleIsQuiet
<1>4. ledger[n].runs = 0 /\ ledger[n].result = "none"
  BY <1>1 DEF LedgerInv, FutureCalls
<1>5. \A q \in abandoned, c \in 1..MaxCalls : Carries(q, c) => c \in 1..calls
  BY <1>1 DEF LedgerInv, KnownCalls
<1>6. IdleIsQuiet' /\ RightRequest'
  BY <1>2, <1>3 DEF IdleIsQuiet, RightRequest
<1>7. KnownCalls'
  BY <1>1, <1>3, <1>5 DEF KnownCalls, Carries
<1>8. FutureCalls'
  BY <1>1 DEF LedgerInv, FutureCalls
<1>9. OpenCall'
  <2>1. \A q \in abandoned : ~Carries(q, n)
    BY <1>1, <1>5
  <2> QED BY <1>1, <1>3, <1>4, <2>1 DEF OpenCall, MayStillRun, Carries
<1>10. AbandonedOnce' /\ AtMostOnce' /\ ResultsAreTrue'
  BY <1>1 DEF LedgerInv, AbandonedOnce, AtMostOnce, ResultsAreTrue, Carries
<1> QED BY <1>6, <1>7, <1>8, <1>9, <1>10 DEF LedgerInv

LEMMA ClosedCall == TypeInv /\ LedgerInv /\ StatementOnClosed => LedgerInv'
<1> SUFFICES ASSUME TypeInv, LedgerInv, StatementOnClosed PROVE LedgerInv'
  OBVIOUS
<1> DEFINE n == calls + 1
<1>1. /\ calls \in Nat /\ calls < MaxCalls /\ calls' = n /\ n \in 1..MaxCalls
      /\ at = "idle" /\ UNCHANGED <<at, job, i, wire, abandoned>>
  BY Bounds DEF StatementOnClosed, Idle, TypeInv, TypeOK
<1>2. ledger \in [1..MaxCalls -> [runs : Nat, result : Results]]
  BY DEF TypeInv, TypeOK
<1>3. /\ \A c \in 1..MaxCalls : c # n => ledger'[c] = ledger[c]
      /\ ledger'[n].runs = ledger[n].runs /\ ledger'[n].result = "08003"
  BY <1>1, <1>2 DEF StatementOnClosed
<1>4. ledger[n].runs = 0
  BY <1>1 DEF LedgerInv, FutureCalls
<1>5. job'.kind = "none" /\ wire'.phase = "quiet" /\ job' = NoJob
  BY <1>1 DEF LedgerInv, IdleIsQuiet, NoJob
<1>6. \A q \in abandoned, c \in 1..MaxCalls : Carries(q, c) => c # n /\ c <= n
  BY <1>1 DEF LedgerInv, KnownCalls
<1>7. IdleIsQuiet' /\ RightRequest' /\ OpenCall'
  BY <1>5 DEF IdleIsQuiet, RightRequest, OpenCall
<1>8. KnownCalls'
  BY <1>1, <1>5, <1>6 DEF KnownCalls, Carries
<1>9. FutureCalls'
  BY <1>1, <1>3 DEF LedgerInv, FutureCalls
<1>10. AbandonedOnce'
  BY <1>1, <1>3, <1>6 DEF LedgerInv, AbandonedOnce, Carries
<1>11. AtMostOnce' /\ ResultsAreTrue'
  BY <1>1, <1>3, <1>4 DEF LedgerInv, AtMostOnce, ResultsAreTrue
<1> QED BY <1>7, <1>8, <1>9, <1>10, <1>11 DEF LedgerInv

LEMMA LedgerApplication == TypeInv /\ LedgerInv /\ Application => LedgerInv'
<1> SUFFICES ASSUME TypeInv, LedgerInv, Application PROVE LedgerInv'
  OBVIOUS
<1>1. CASE Connect \/ Opened \/ LetGo \/ StillHeld
  BY <1>1, Untouched DEF Connect, Opened, LetGo, StillHeld, Idle
<1>2. CASE Close
  BY <1>2, Untouched DEF Close
<1>3. CASE UseObject
  <2>1. PICK h, n : Execute(h, UseJob(n))
    BY <1>3 DEF UseObject
  <2>2. job'.kind # "statement" /\ at' # "idle"
    BY <2>1, ExecuteStarts DEF UseJob
  <2> QED BY <1>3, <2>2, OtherCallStarts DEF UseObject, Idle
<1>4. CASE CheckLiveness
  <2>1. CASE UNCHANGED <<H, at, job, i, restarted>>
    BY <1>4, <2>1, Untouched DEF CheckLiveness, Idle
  <2>2. CASE Execute(H, PingJob)
    <3>1. job'.kind # "statement" /\ at' # "idle"
      BY <2>2, ExecuteStarts DEF PingJob
    <3> QED BY <1>4, <3>1, OtherCallStarts DEF CheckLiveness, Idle
  <2>3. CASE at' = "probe" /\ job' = PingJob
    BY <1>4, <2>3, OtherCallStarts DEF CheckLiveness, Idle, PingJob
  <2> QED BY <1>4, <2>1, <2>2, <2>3 DEF CheckLiveness
<1> QED BY <1>1, <1>2, <1>3, <1>4, StatementStarts, ClosedCall DEF Application

LEMMA LedgerPost == TypeInv /\ LedgerInv /\ Post => LedgerInv'
<1> SUFFICES ASSUME TypeInv, LedgerInv, Post PROVE LedgerInv'
  OBVIOUS
<1>1. UNCHANGED <<at, i, job, ledger, abandoned, calls>> /\ at # "idle" /\ wire.phase = "quiet"
  BY DEF Post, Waiting, driverVars
<1>2. wire'.phase = "sent" /\ wire'.request.job = JobHere
  BY DEF Post, RequestFor
<1>3. JobHere' = JobHere
  BY <1>1 DEF JobHere
<1>4. MayStillRun /\ MayStillRun'
  BY <1>1, <1>2 DEF MayStillRun
<1> QED BY <1>1, <1>2, <1>3, <1>4, StillRunning

LEMMA LedgerGiveUp == TypeInv /\ LedgerInv /\ GiveUp => LedgerInv'
<1> SUFFICES ASSUME TypeInv, LedgerInv, GiveUp PROVE LedgerInv'
  OBVIOUS
<1>1. CASE Unreachable
  BY <1>1, Settled DEF Unreachable, Results
<1>2. CASE TimedOut
  <2>1. PICK code \in NoAnswerCodes : Return(H, code)
    BY <1>2 DEF TimedOut
  <2>2. code \in Results /\ code \notin {"ok", "08003"}
    BY DEF NoAnswerCodes, Results
  <2> QED BY <1>2, <2>1, <2>2, Settled DEF TimedOut
<1>3. CASE AnswerLost
  <2>1. PICK code \in NoAnswerCodes : Return(H, code)
    BY <1>3 DEF AnswerLost
  <2>2. code \in Results /\ code \notin {"ok", "08003"}
    BY DEF NoAnswerCodes, Results
  <2> QED BY <1>3, <2>1, <2>2, Settled DEF AnswerLost
<1> QED BY <1>1, <1>2, <1>3 DEF GiveUp

(***************************************************************************)
(* A statement that runs, runs for the first time: one more run in its     *)
(* entry and none elsewhere.                                               *)
(***************************************************************************)
LEMMA RunOnce ==
    ASSUME ledger \in [1..MaxCalls -> [runs : Nat, result : Results]], NEW q,
           \A c \in 1..MaxCalls : Carries(q, c) => ledger[c].runs = 0
    PROVE  \A c \in 1..MaxCalls :
             /\ CountRun(q)[c].result = ledger[c].result
             /\ Carries(q, c) => CountRun(q)[c].runs = 1
             /\ ~Carries(q, c) => CountRun(q)[c] = ledger[c]
<1>1. CASE q.job.kind # "statement"
  BY <1>1 DEF CountRun, Carries
<1>2. CASE q.job.kind = "statement"
  <2>1. CountRun(q) = [ledger EXCEPT ![q.job.n].runs = @ + 1]
    BY <1>2 DEF CountRun
  <2> QED BY <1>2, <2>1 DEF Carries
<1> QED BY <1>1, <1>2

LEMMA LedgerServe == TypeInv /\ LedgerInv /\ Serve => LedgerInv'
<1> SUFFICES ASSUME TypeInv, LedgerInv, Serve PROVE LedgerInv'
  OBVIOUS
<1> DEFINE q == wire.request
<1>0. ledger \in [1..MaxCalls -> [runs : Nat, result : Results]]
  BY DEF TypeInv, TypeOK
<1>1. /\ wire.phase = "sent" /\ ledger' = CountRun(q)
      /\ UNCHANGED <<at, i, job, abandoned, calls>>
  BY DEF Serve, driverVars
<1>2. PICK s \in Places(q, Free), v \in Verdicts(q) :
        Answering([verdict |-> v[1], sid |-> s, newSession |-> NewSession(q, s)])
  BY DEF Serve
<1>3. wire'.phase = "answered" /\ wire'.request = q /\ wire'.answer.verdict # "gone"
  <2>1. v = <<"ok", FALSE>> \/ v = <<"refused", FALSE>> \/ v = <<"refused", TRUE>>
    BY <1>2 DEF Verdicts
  <2>2. v[1] # "gone"
    <3>1. <<"ok", FALSE>>[1] # "gone" /\ <<"refused", FALSE>>[1] # "gone"
          /\ <<"refused", TRUE>>[1] # "gone"
      OBVIOUS
    <3> QED BY <2>1, <3>1
  <2> QED BY <1>2, <2>2 DEF Answering, TypeInv, TypeOK
<1>4. MayStillRun
  BY <1>1 DEF MayStillRun
<1>5. \A c \in 1..MaxCalls : Carries(q, c) =>
        /\ job.kind = "statement" /\ job.n = c /\ ledger[c].runs = 0 /\ at \notin InScope
  BY <1>1, <1>4, OwnRequest DEF LedgerInv, OpenCall
<1>6. \A c \in 1..MaxCalls :
        /\ ledger'[c].result = ledger[c].result
        /\ Carries(q, c) => ledger'[c].runs = 1
        /\ ~Carries(q, c) => ledger'[c] = ledger[c]
  BY <1>0, <1>1, <1>5, RunOnce
<1>7. q.job = JobHere
  BY <1>1 DEF LedgerInv, RightRequest
<1>8. IdleIsQuiet' /\ RightRequest'
  BY <1>1, <1>3, <1>7 DEF LedgerInv, IdleIsQuiet, RightRequest, JobHere
<1>9. KnownCalls'
  BY <1>1 DEF LedgerInv, KnownCalls, Carries
<1>10. FutureCalls'
  <2> SUFFICES ASSUME NEW c \in 1..MaxCalls, c > calls PROVE ~Carries(q, c)
    BY <1>1, <1>6 DEF LedgerInv, FutureCalls
  <2> QED BY <1>5, OwnNumber DEF TypeInv, TypeOK
<1>11. OpenCall'
  <2> SUFFICES ASSUME job.kind = "statement"
               PROVE  /\ ledger'[job.n].result = "none"
                      /\ \A r \in abandoned : ~Carries(r, job.n)
                      /\ MayStillRun' => ledger'[job.n].runs = 0
                      /\ ~MayStillRun' => ledger'[job.n].runs = 1
    BY <1>1 DEF OpenCall, Carries
  <2>1. job.n \in 1..MaxCalls
    BY OwnNumber
  <2>2. ledger[job.n].result = "none" /\ \A r \in abandoned : ~Carries(r, job.n)
    BY DEF LedgerInv, OpenCall
  <2>3. CASE at \in InScope
    <3>1. ~Carries(q, job.n)
      BY <1>5, <2>1, <2>3
    <3> QED BY <1>1, <1>4, <1>6, <2>1, <2>2, <2>3, <3>1 DEF LedgerInv, OpenCall, MayStillRun
  <2>4. CASE at \notin InScope
    <3>1. Carries(q, job.n)
      BY <1>7, <2>4 DEF JobHere, Carries
    <3>2. ~MayStillRun'
      BY <1>1, <1>3, <2>4 DEF MayStillRun
    <3> QED BY <1>6, <2>1, <2>2, <3>1, <3>2
  <2> QED BY <2>3, <2>4
<1>12. AbandonedOnce'
  <2>1. \A r \in abandoned, c \in 1..MaxCalls : Carries(r, c) => ~Carries(q, c)
    BY <1>5 DEF LedgerInv, OpenCall
  <2> QED BY <1>1, <1>6, <2>1 DEF LedgerInv, AbandonedOnce, Carries
<1>13. AtMostOnce'
  BY <1>6 DEF LedgerInv, AtMostOnce
<1>14. ResultsAreTrue'
  <2>1. \A c \in 1..MaxCalls : Carries(q, c) => ledger[c].result = "none"
    BY <1>5 DEF LedgerInv, OpenCall
  <2> QED BY <1>6, <2>1 DEF LedgerInv, ResultsAreTrue
<1> QED BY <1>8, <1>9, <1>10, <1>11, <1>12, <1>13, <1>14 DEF LedgerInv

LEMMA LedgerAbandoned == TypeInv /\ LedgerInv /\ ServeAbandoned => LedgerInv'
<1> SUFFICES ASSUME TypeInv, LedgerInv, ServeAbandoned PROVE LedgerInv'
  OBVIOUS
<1>0. ledger \in [1..MaxCalls -> [runs : Nat, result : Results]]
  BY DEF TypeInv, TypeOK
<1>1. PICK q \in abandoned :
        /\ abandoned' = abandoned \ {q}
        /\ ledger' = CountRun(q) \/ ledger' = ledger
        /\ UNCHANGED <<at, i, job, wire, calls>>
  BY DEF ServeAbandoned, driverVars
<1>2. \A c \in 1..MaxCalls : Carries(q, c) =>
        /\ ledger[c].runs = 0 /\ ledger[c].result \notin {"ok", "08003"} /\ c <= calls
        /\ \A r \in abandoned' : ~Carries(r, c)
        /\ ~(job.kind = "statement" /\ job.n = c)
  BY <1>1 DEF LedgerInv, AbandonedOnce, KnownCalls, OpenCall
<1>3. \A c \in 1..MaxCalls :
        /\ ledger'[c].result = ledger[c].result
        /\ Carries(q, c) => ledger'[c].runs \in {0, 1}
        /\ ~Carries(q, c) => ledger'[c] = ledger[c]
  <2>1. CASE ledger' = CountRun(q)
    BY <1>0, <1>2, <2>1, RunOnce
  <2>2. CASE ledger' = ledger
    BY <1>2, <2>2
  <2> QED BY <1>1, <2>1, <2>2
<1>4. IdleIsQuiet' /\ RightRequest'
  BY <1>1 DEF LedgerInv, IdleIsQuiet, RightRequest, JobHere
<1>5. KnownCalls'
  BY <1>1 DEF LedgerInv, KnownCalls, Carries
<1>6. FutureCalls'
  <2> SUFFICES ASSUME NEW c \in 1..MaxCalls, c > calls PROVE ~Carries(q, c)
    BY <1>1, <1>3 DEF LedgerInv, FutureCalls
  <2> QED BY <1>2 DEF TypeInv, TypeOK
<1>7. OpenCall'
  <2> SUFFICES ASSUME job.kind = "statement" PROVE OpenCall'
    BY <1>1 DEF OpenCall
  <2>1. job.n \in 1..MaxCalls /\ ~Carries(q, job.n)
    BY <1>2, OwnNumber
  <2> QED BY <1>1, <1>3, <2>1 DEF LedgerInv, OpenCall, MayStillRun, Carries
<1>8. AbandonedOnce'
  BY <1>1, <1>2, <1>3 DEF LedgerInv, AbandonedOnce, Carries
<1>9. AtMostOnce' /\ ResultsAreTrue'
  BY <1>2, <1>3 DEF LedgerInv, AtMostOnce, ResultsAreTrue
<1> QED BY <1>4, <1>5, <1>6, <1>7, <1>8, <1>9 DEF LedgerInv

LEMMA LedgerEngine == TypeInv /\ LedgerInv /\ Engine => LedgerInv'
<1> SUFFICES ASSUME TypeInv, LedgerInv, Engine PROVE LedgerInv'
  OBVIOUS
<1>1. CASE ServeGone \/ ServeFault
  <2>1. /\ wire.phase = "sent" /\ wire'.phase = "answered" /\ wire'.request = wire.request
        /\ wire'.answer.verdict \in {"gone", "fault"}
        /\ UNCHANGED <<at, i, job, abandoned, calls, ledger>>
    <3>1. CASE ServeGone
      BY <3>1 DEF ServeGone, Answering, NoAnswer, driverVars, TypeInv, TypeOK
    <3>2. CASE ServeFault
      BY <3>2 DEF ServeFault, Answering, NoAnswer, driverVars, TypeInv, TypeOK
    <3> QED BY <1>1, <3>1, <3>2
  <2>2. MayStillRun
    BY <2>1 DEF MayStillRun
  <2> QED BY <2>1, <2>2
          DEF LedgerInv, IdleIsQuiet, RightRequest, JobHere, KnownCalls, FutureCalls, OpenCall,
              AbandonedOnce, Carries, AtMostOnce, ResultsAreTrue
<1>2. CASE Expiry \/ EngineRestart
  BY <1>2, Untouched DEF Expiry, EngineRestart, EngineOnly, driverVars
<1> QED BY <1>1, <1>2, LedgerServe, LedgerAbandoned DEF Engine

LEMMA LedgerReceive == TypeInv /\ LedgerInv /\ Receive => LedgerInv'
<1> SUFFICES ASSUME TypeInv, LedgerInv, Receive PROVE LedgerInv'
  OBVIOUS
<1>0. Quiet.phase = "quiet" /\ "idle" \notin InScope
  BY DEF Quiet, InScope
<1>1. CASE ScopeItem \/ ScopeWhole \/ ScopeRestart
  <2>1. /\ at \in InScope /\ at' # "idle" /\ wire' = Quiet
        /\ UNCHANGED <<job, ledger, abandoned, calls>>
    BY <1>0, <1>1 DEF ScopeItem, ScopeWhole, ScopeRestart, Answered, GoOn, Received
  <2>2. MayStillRun /\ MayStillRun'
    BY <1>0, <2>1 DEF MayStillRun
  <2> QED BY <1>0, <2>1, <2>2, StillRunning
<1>2. CASE LossRepaired
  <2>1. /\ wire.answer.verdict = "gone" /\ at' \in {"rescope", "replay"} /\ wire' = Quiet
        /\ UNCHANGED <<job, ledger, abandoned, calls>>
    BY <1>2 DEF LossRepaired, EnterScope, GoOn, Received
  <2>2. MayStillRun /\ MayStillRun'
    BY <1>0, <2>1 DEF MayStillRun
  <2> QED BY <1>0, <2>1, <2>2, StillRunning
<1>3. CASE ScopeLost \/ LossReported \/ SecondRefusal
  <2>1. PICK h : Return(h, "08003")
    BY <1>3 DEF ScopeLost, LossReported, SecondRefusal
  <2>2. wire.answer.verdict = "gone" /\ Received
    BY <1>3 DEF ScopeLost, LossReported, SecondRefusal
  <2>3. MayStillRun
    BY <2>2 DEF MayStillRun
  <2>4. job.kind = "statement" => ledger[job.n].runs = 0
    BY <2>3 DEF LedgerInv, OpenCall
  <2> QED BY <2>1, <2>2, <2>4, Settled DEF Received, Results
<1>4. CASE ScopeFailed \/ StatementFailed \/ (ProbeDone /\ wire.answer.verdict # "ok")
  <2>1. Return(Heard, "HY000") \/ Return(Heard, "08S01")
    BY <1>4 DEF ScopeFailed, StatementFailed, ProbeDone
  <2>2. Received
    BY <1>4 DEF ScopeFailed, StatementFailed, ProbeDone
  <2> QED BY <2>1, <2>2, Settled DEF Received, Results
<1>5. CASE StatementDone \/ (ProbeDone /\ wire.answer.verdict = "ok")
  <2>1. PICK h : Return(h, "ok")
    BY <1>5 DEF StatementDone, ProbeDone
  <2>2. /\ wire.answer.verdict = "ok" /\ wire.phase = "answered" /\ at \notin InScope /\ Received
    BY <1>5 DEF StatementDone, ProbeDone, Answered, InScope
  <2>3. ~MayStillRun
    BY <2>2 DEF MayStillRun
  <2>4. job.kind = "statement" => ledger[job.n].runs = 1
    BY <2>2, <2>3 DEF LedgerInv, OpenCall
  <2>5. wire' = Quiet /\ calls' = calls /\ abandoned' = abandoned
    BY <2>2 DEF Received
  <2>6. "ok" \in Results
    BY DEF Results
  <2> QED BY <2>1, <2>4, <2>5, <2>6, Settled
<1> QED BY <1>1, <1>2, <1>3, <1>4, <1>5 DEF Receive

LEMMA LedgerStep == TypeInv /\ LedgerInv /\ [Next]_vars => LedgerInv'
<1> SUFFICES ASSUME TypeInv, LedgerInv, [Next]_vars PROVE LedgerInv'
  OBVIOUS
<1>1. CASE Next
  BY <1>1, LedgerApplication, LedgerPost, LedgerEngine, LedgerGiveUp, LedgerReceive DEF Next
<1>2. CASE UNCHANGED vars
  BY <1>2, Untouched DEF vars
<1> QED BY <1>1, <1>2

LEMMA LedgerInvariant == Spec => []LedgerInv
<1> QED BY TypeInit, TypeStep, LedgerInit, LedgerStep, PTL DEF Spec

(***************************************************************************)
(* No statement of the application ever runs twice, whatever is lost,      *)
(* late, refused, sent again or run after the driver gave up on it.        *)
(***************************************************************************)
THEOREM RunsAtMostOnce == Spec => []AtMostOnce
<1>1. LedgerInv => AtMostOnce
  BY DEF LedgerInv
<1> QED BY <1>1, LedgerInvariant, PTL

(***************************************************************************)
(* A statement reported as successful ran exactly once; one reported with  *)
(* 08003 has not run and never will.                                       *)
(***************************************************************************)
THEOREM ReportsAreTrue == Spec => []ResultsAreTrue
<1>1. LedgerInv => ResultsAreTrue
  BY DEF LedgerInv
<1> QED BY <1>1, LedgerInvariant, PTL

-----------------------------------------------------------------------------
(* Who is asked for requireSession.                                        *)

(***************************************************************************)
(* What the driver believes of the engine it learned from an answer, and   *)
(* an answer keeps its meaning: an engine is replaced by a newer one only. *)
(***************************************************************************)
KnownInv ==
    /\ H.tracks_sessions = 1 => tracking
    /\ wire.request.require => tracking
    /\ wire.answer.newSession # "absent" => tracking

LEMMA QuietSaysNothing ==
    ~Quiet.request.require /\ Quiet.answer.newSession = "absent"
BY DEF Quiet, NoRequest, NoAnswer

LEMMA KnownInit == Init => KnownInv
BY QuietSaysNothing DEF Init, KnownInv, NewHandle

LEMMA ExecuteKeepsBelief ==
    ASSUME NEW h \in Handle, NEW j, Execute(h, j)
    PROVE  H'.tracks_sessions = h.tracks_sessions
BY DEF Execute, EnterScope, Handle

LEMMA HeardIsKnown ==
    ASSUME TypeInv, KnownInv
    PROVE  Heard.tracks_sessions = 1 => tracking
<1> DEFINE h == Forget(H)
<1>1. H \in Handle /\ h \in Handle /\ h.tracks_sessions = H.tracks_sessions
  BY DEF TypeInv, TypeOK, Handle, Forget, SessionIds
<1>2. wire.answer \in Answer
  BY DEF TypeInv, TypeOK
<1> DEFINE sent == wire.request.sid # NoSession
           l == Learn(H, wire.answer, sent)
<1>3. CASE wire.answer.newSession = "absent"
  <2>1. l = [H EXCEPT !.tracks_sessions = IF @ < 0 THEN 0 ELSE @]
    BY <1>3 DEF Learn
  <2>2. l \in Handle /\ (l.tracks_sessions = 1 => H.tracks_sessions = 1)
    BY <1>1, <2>1 DEF Handle
  <2> HIDE DEF l
  <2>3. Heard = IF wire.answer.sid = NoSession THEN H ELSE [l EXCEPT !.session_id = wire.answer.sid]
    BY DEF Heard, Absorb, l
  <2>4. Heard.tracks_sessions = 1 => H.tracks_sessions = 1
    BY <2>2, <2>3 DEF Handle
  <2> QED BY <2>4 DEF KnownInv
<1>4. CASE wire.answer.newSession # "absent"
  BY <1>4 DEF KnownInv
<1> QED BY <1>3, <1>4

LEMMA KnownApplication == TypeInv /\ KnownInv /\ Application => KnownInv'
<1> SUFFICES ASSUME TypeInv, KnownInv, Application PROVE KnownInv'
  OBVIOUS
<1>1. wire' = wire /\ tracking' = tracking
  BY DEF Application, Idle, Connect, UseObject, Opened, Statement, StatementOnClosed,
         CheckLiveness, LetGo, StillHeld, Close
<1>2. H'.tracks_sessions = 1 => H.tracks_sessions = 1
  <2>0. H \in Handle
    BY DEF TypeInv, TypeOK
  <2>1. CASE Connect \/ LetGo \/ Close
    BY <2>1 DEF Connect, LetGo, Close, NewHandle
  <2>2. CASE UseObject
    <3> DEFINE n == H.scope_count + 1
               h == [H EXCEPT !.scope_count = n]
    <3>1. n \in 0..ScopeSize
      BY <2>0, <2>2, Bounds DEF UseObject, Handle
    <3>2. h \in Handle /\ h.tracks_sessions = H.tracks_sessions
      BY <2>0, <3>1 DEF Handle
    <3>3. Execute(h, UseJob(n))
      BY <2>2 DEF UseObject
    <3> QED BY <3>2, <3>3, ExecuteKeepsBelief
  <2>3. CASE Opened
    BY <2>0, <2>3 DEF Opened, Handle
  <2>4. CASE \E sql \in Statements : Statement(sql)
    BY <2>0, <2>4, ExecuteKeepsBelief DEF Statement
  <2>5. CASE StatementOnClosed \/ StillHeld
    BY <2>5 DEF StatementOnClosed, StillHeld
  <2>6. CASE CheckLiveness
    <3>1. H' = H \/ Execute(H, PingJob)
      BY <2>6 DEF CheckLiveness
    <3> QED BY <2>0, <3>1, ExecuteKeepsBelief
  <2> QED BY <2>1, <2>2, <2>3, <2>4, <2>5, <2>6 DEF Application
<1> QED BY <1>1, <1>2 DEF KnownInv

LEMMA KnownPost == TypeInv /\ KnownInv /\ Post => KnownInv'
<1> SUFFICES ASSUME TypeInv, KnownInv, Post PROVE KnownInv'
  OBVIOUS
<1>1. H' = H /\ tracking' = tracking
  BY DEF Post, driverVars
<1>2. wire'.request = RequestFor(H, JobHere) /\ wire'.answer = NoAnswer
  BY DEF Post
<1>3. RequestFor(H, JobHere).require => H.tracks_sessions = 1
  BY DEF RequestFor
<1>4. NoAnswer.newSession = "absent"
  BY DEF NoAnswer
<1> QED BY <1>1, <1>2, <1>3, <1>4 DEF KnownInv

LEMMA KnownEngine == TypeInv /\ KnownInv /\ Engine => KnownInv'
<1> SUFFICES ASSUME TypeInv, KnownInv, Engine PROVE KnownInv'
  OBVIOUS
<1>0. tracking \in BOOLEAN
  BY DEF TypeInv, TypeOK, EngineTypeOK
<1>w. wire \in [phase : {"quiet", "sent", "answered"}, request : Request, answer : Answer]
  BY DEF TypeInv, TypeOK
<1>a. ASSUME NEW a, Answering(a)
      PROVE  wire'.request = wire.request /\ wire'.answer = a
  BY <1>a, <1>w DEF Answering
<1>1. H' = H
  BY DEF Engine, Serve, ServeGone, ServeFault, ServeAbandoned, Expiry, EngineRestart,
         EngineOnly, driverVars
<1>2. tracking => tracking'
  BY <1>0 DEF Engine, Serve, ServeGone, ServeFault, ServeAbandoned, Expiry, EngineRestart,
         Expire, Restart
<1>3. /\ wire'.request.require => wire.request.require
      /\ wire'.answer.newSession # "absent" => tracking
  <2>1. CASE Serve
    <3>1. PICK s \in Places(wire.request, Free), v \in Verdicts(wire.request) :
            Answering([verdict |-> v[1], sid |-> s, newSession |-> NewSession(wire.request, s)])
      BY <2>1 DEF Serve
    <3> DEFINE a == [verdict |-> v[1], sid |-> s, newSession |-> NewSession(wire.request, s)]
    <3>2. a.newSession # "absent" => tracking
      BY DEF NewSession
    <3> HIDE DEF a
    <3>3. Answering(a)
      BY <3>1 DEF a
    <3> QED BY <1>a, <3>2, <3>3
  <2>2. CASE ServeGone \/ ServeFault
    <3>1. PICK v \in {"gone", "fault"} : Answering([NoAnswer EXCEPT !.verdict = v])
      BY <2>2 DEF ServeGone, ServeFault
    <3>2. [NoAnswer EXCEPT !.verdict = v].newSession = "absent"
      BY DEF NoAnswer
    <3> QED BY <1>a, <3>1, <3>2
  <2>3. CASE ServeAbandoned \/ Expiry \/ EngineRestart
    <3>1. wire' = wire
      BY <2>3 DEF ServeAbandoned, Expiry, EngineRestart, EngineOnly
    <3> QED BY <3>1 DEF KnownInv
  <2> QED BY <2>1, <2>2, <2>3 DEF Engine
<1> QED BY <1>1, <1>2, <1>3 DEF KnownInv

LEMMA KnownGiveUp == TypeInv /\ KnownInv /\ GiveUp => KnownInv'
<1> SUFFICES ASSUME TypeInv, KnownInv, GiveUp PROVE KnownInv'
  OBVIOUS
<1>1. H' = H /\ wire' = Quiet /\ tracking' = tracking
  BY DEF GiveUp, Unreachable, TimedOut, AnswerLost, Return
<1> QED BY <1>1, QuietSaysNothing DEF KnownInv

LEMMA KnownReceive == TypeInv /\ KnownInv /\ Receive => KnownInv'
<1> SUFFICES ASSUME TypeInv, KnownInv, Receive PROVE KnownInv'
  OBVIOUS
<1>1. wire' = Quiet /\ tracking' = tracking
  BY DEF Receive, ScopeItem, ScopeWhole, ScopeRestart, ScopeLost, ScopeFailed, StatementDone,
         StatementFailed, LossReported, LossRepaired, SecondRefusal, ProbeDone, Received
<1>2. Forget(H) \in Handle /\ Forget(H).tracks_sessions = H.tracks_sessions
  BY DEF TypeInv, TypeOK, Handle, Forget, SessionIds
<1>3. Heard \in Handle /\ (Heard.tracks_sessions = 1 => tracking)
  BY HeardType, HeardIsKnown
<1>4. H'.tracks_sessions \in {H.tracks_sessions, Heard.tracks_sessions}
  <2>1. CASE ScopeItem \/ ScopeFailed \/ StatementFailed \/ ProbeDone
    BY <2>1 DEF ScopeItem, ScopeFailed, StatementFailed, ProbeDone, Return
  <2>2. CASE ScopeWhole
    BY <1>3, <2>2 DEF ScopeWhole, Handle
  <2>3. CASE ScopeRestart \/ ScopeLost \/ LossReported \/ SecondRefusal
    BY <1>2, <2>3 DEF ScopeRestart, ScopeLost, LossReported, SecondRefusal, Return
  <2>4. CASE StatementDone
    <3>1. H' = TrackSession(Heard, job.sql)
      BY <2>4 DEF StatementDone, Return
    <3>2. TrackSession(Heard, job.sql).tracks_sessions = Heard.tracks_sessions
      BY <1>3 DEF TrackSession, Handle
    <3> QED BY <3>1, <3>2
  <2>5. CASE LossRepaired
    <3>1. EnterScope(Forget(H), "rescope", "replay")
      BY <2>5 DEF LossRepaired
    <3>2. H'.tracks_sessions = Forget(H).tracks_sessions
      BY <1>2, <3>1 DEF EnterScope, Handle
    <3> QED BY <1>2, <3>2
  <2> QED BY <2>1, <2>2, <2>3, <2>4, <2>5 DEF Receive
<1> QED BY <1>1, <1>3, <1>4, QuietSaysNothing DEF KnownInv

LEMMA KnownStep == TypeInv /\ KnownInv /\ [Next]_vars => KnownInv'
<1> SUFFICES ASSUME TypeInv, KnownInv, [Next]_vars PROVE KnownInv'
  OBVIOUS
<1>1. CASE Next
  BY <1>1, KnownApplication, KnownPost, KnownEngine, KnownGiveUp, KnownReceive DEF Next
<1>2. CASE UNCHANGED vars
  BY <1>2 DEF vars, KnownInv
<1> QED BY <1>1, <1>2

(***************************************************************************)
(* requireSession is only ever put to an engine that knows it, whatever    *)
(* was answered late, lost or given up on, and whenever the engine is      *)
(* replaced by a newer one (post, absorb).           *)
(***************************************************************************)
THEOREM OnlyTrackingEnginesAsked == Spec => []OlderEngineNotAsked
<1>1. KnownInv => OlderEngineNotAsked
  BY DEF KnownInv, OlderEngineNotAsked
<1> QED BY <1>1, TypeInit, TypeStep, KnownInit, KnownStep, PTL DEF Spec

-----------------------------------------------------------------------------
(* What the application was told it has, against an engine that tracks.    *)

(***************************************************************************)
(* NoSilentLoss is not inductive: that a promise is in the session of the  *)
(* connection says nothing of what a loss does to it.  A promise has to be *)
(* covered: the handle knows of it, so that session_lost will refuse       *)
(* rather than repair, and the scope is not pending over it.               *)
(***************************************************************************)
Covers(h, p) ==
    /\ p.context # NoSession => p.context = h.session_id /\ h.dirty
    /\ p.transaction # NoSession => p.transaction = h.session_id /\ h.in_transaction
    /\ h.scope_pending => p = Nothing

KeepsPromises == conn # "closed" => Covers(H, promised)

\* Where a call may still put the scope on a session, nothing is owed.
OwesNothing ==
    /\ conn \in {"none", "connecting", "failing"} => promised = Nothing
    /\ at \in {"scope", "rescope", "replay"} => promised = Nothing
    /\ at = "statement" /\ job.kind # "statement" => promised = Nothing
    /\ at \in {"statement", "replay"} => ~H.scope_pending

WhoCalls ==
    /\ at # "idle" => \/ conn = "connecting" /\ job.kind = "use"
                      \/ conn = "open" /\ job.kind \in {"statement", "ping"}
    /\ at = "probe" => job.kind = "ping"

\* A request names the handle's session and requires it; the answer is its.
SameSession ==
    wire.request.sid # NoSession =>
      wire.answer.sid = wire.request.sid /\ wire.answer.newSession = "no"

WhichSession ==
    /\ tracking
    /\ H.session_id # NoSession => H.tracks_sessions = 1
    /\ wire.phase # "quiet" =>
         /\ wire.request.sid = H.session_id
         /\ wire.request.sid # NoSession => wire.request.require
    /\ wire.phase = "answered" =>
         /\ wire.answer.verdict = "ok" => wire.answer.sid # NoSession
         /\ wire.answer.sid # NoSession => wire.answer.newSession # "absent" /\ SameSession

KeepInv == KeepsPromises /\ OwesNothing /\ WhoCalls /\ WhichSession

LEMMA NothingIsCovered == \A h : Covers(h, Nothing)
BY DEF Covers, Nothing

LEMMA KeepInit == ~Legacy /\ Init => KeepInv
<1> SUFFICES ASSUME ~Legacy, Init PROVE KeepInv
  OBVIOUS
<1>1. tracking
  BY DEF Init, EngineInit
<1>2. H.session_id = NoSession
  BY DEF Init, NewHandle
<1>3. conn = "none" /\ at = "idle" /\ promised = Nothing /\ wire.phase = "quiet"
  BY DEF Init, Quiet
<1> QED BY <1>1, <1>2, <1>3, NothingIsCovered
        DEF KeepInv, KeepsPromises, OwesNothing, WhoCalls, WhichSession

\* The answer's session is the handle's, or the handle had none.
LEMMA HeardKeeps ==
    ASSUME TypeInv, KeepInv, wire.phase = "answered"
    PROVE  /\ Heard.session_id # NoSession => Heard.tracks_sessions = 1
           /\ H.session_id # NoSession => Heard.session_id = H.session_id
           /\ wire.answer.sid # NoSession => Heard.session_id = wire.answer.sid
           /\ Heard.dirty = H.dirty /\ Heard.in_transaction = H.in_transaction
           /\ Heard.scope_pending = H.scope_pending
<1> DEFINE sent == wire.request.sid # NoSession
           s == wire.answer.sid
<1>1. H \in Handle /\ wire.answer \in Answer
  BY DEF TypeInv, TypeOK
<1>2. CASE s = NoSession
  <2>1. Heard = H
    BY <1>2 DEF Heard, Absorb
  <2> QED BY <1>2, <2>1 DEF KeepInv, WhichSession
<1>3. CASE s # NoSession
  <2>1. wire.answer.newSession # "absent" /\ ~(sent /\ wire.answer.newSession = "yes")
    BY <1>3 DEF KeepInv, WhichSession, SameSession
  <2>2. Learn(H, wire.answer, sent) = [H EXCEPT !.tracks_sessions = 1]
    BY <2>1 DEF Learn
  <2> DEFINE l == [H EXCEPT !.tracks_sessions = 1]
  <2>3. /\ l \in Handle /\ l.tracks_sessions = 1 /\ l.dirty = H.dirty
        /\ l.in_transaction = H.in_transaction /\ l.scope_pending = H.scope_pending
    BY <1>1 DEF Handle
  <2> HIDE DEF l
  <2>4. Heard = [l EXCEPT !.session_id = s]
    BY <1>3, <2>2 DEF Heard, Absorb, l
  <2>5. /\ Heard.session_id = s /\ Heard.tracks_sessions = 1 /\ Heard.dirty = H.dirty
        /\ Heard.in_transaction = H.in_transaction /\ Heard.scope_pending = H.scope_pending
    BY <2>3, <2>4 DEF Handle
  <2>6. H.session_id # NoSession => s = H.session_id
    BY <1>3 DEF KeepInv, WhichSession, SameSession
  <2> QED BY <2>5, <2>6
<1> QED BY <1>2, <1>3

LEMMA HeardCovers ==
    ASSUME TypeInv, KeepInv, wire.phase = "answered", at # "idle"
    PROVE  Covers(Heard, promised)
<1>1. Covers(H, promised)
  BY DEF KeepInv, KeepsPromises, WhoCalls
<1> QED BY <1>1, HeardKeeps DEF Covers

\* A handle that knows of neither context nor transaction owes nothing.
LEMMA CleanOwesNothing ==
    ASSUME TypeInv, KeepInv, conn # "closed", ~H.dirty, ~H.in_transaction
    PROVE  promised = Nothing
<1>1. promised \in [context : SessionIds, transaction : SessionIds]
  BY DEF TypeInv, TypeOK
<1>2. promised.context = NoSession /\ promised.transaction = NoSession
  BY DEF KeepInv, KeepsPromises, Covers
<1> QED BY <1>1, <1>2 DEF Nothing

(* The shapes of a step: a call begins, goes on, or returns.               *)

LEMMA KeepExecute ==
    ASSUME TypeInv, KeepInv, NEW h \in Handle, NEW j, Execute(h, j),
           wire.phase = "quiet",
           UNCHANGED <<wire, tracking, conn, promised>>,
           Covers(h, promised),
           h.session_id # NoSession => h.tracks_sessions = 1,
           \/ conn = "connecting" /\ j.kind = "use"
           \/ conn = "open" /\ j.kind \in {"statement", "ping"},
           j.kind # "statement" => promised = Nothing
    PROVE  KeepInv'
<1>1. /\ H'.session_id = h.session_id /\ H'.tracks_sessions = h.tracks_sessions
      /\ H'.dirty = h.dirty /\ H'.in_transaction = h.in_transaction
      /\ H'.scope_pending => h.scope_pending
  BY DEF Execute, EnterScope, Handle
<1>2. /\ at' \in {"scope", "statement"} /\ job' = j
      /\ at' = "scope" => h.scope_pending
      /\ at' = "statement" => ~H'.scope_pending
  BY DEF Execute, EnterScope, Handle
<1>3. KeepsPromises'
  BY <1>1 DEF KeepsPromises, Covers
<1>4. OwesNothing'
  BY <1>2 DEF OwesNothing, Covers, KeepInv
<1>5. WhoCalls'
  BY <1>2 DEF WhoCalls
<1>6. WhichSession'
  BY <1>1 DEF KeepInv, WhichSession
<1> QED BY <1>3, <1>4, <1>5, <1>6 DEF KeepInv

LEMMA KeepGoOn ==
    ASSUME TypeInv, KeepInv, at # "idle", GoOn, wire' = Quiet, tracking' = tracking,
           at' \in {"scope", "rescope", "statement", "replay"},
           promised = Nothing,
           H'.session_id # NoSession => H'.tracks_sessions = 1,
           at' \in {"statement", "replay"} => ~H'.scope_pending
    PROVE  KeepInv'
<1>1. promised' = Nothing /\ conn' = conn /\ job' = job
  BY DEF GoOn
<1>2. KeepsPromises' /\ OwesNothing'
  BY <1>1, NothingIsCovered DEF KeepsPromises, OwesNothing
<1>3. WhoCalls'
  BY <1>1 DEF KeepInv, WhoCalls
<1>4. WhichSession'
  BY DEF KeepInv, WhichSession, Quiet
<1> QED BY <1>2, <1>3, <1>4 DEF KeepInv

LEMMA KeepReturn ==
    ASSUME TypeInv, KeepInv, at # "idle", wire' = Quiet, tracking' = tracking,
           NEW h, NEW result, Return(h, result),
           h.session_id # NoSession => h.tracks_sessions = 1,
           Covers(h, Promises(result, wire.answer.sid))
    PROVE  KeepInv'
<1>1. /\ H' = h /\ at' = "idle" /\ conn' = Verdict(result)
      /\ promised' = Promises(result, wire.answer.sid)
  BY DEF Return
<1>2. KeepsPromises'
  BY <1>1 DEF KeepsPromises
<1>3. conn' \in {"none", "connecting", "failing"} => promised' = Nothing
  <2>1. CASE job.kind = "use"
    BY <1>1, <2>1 DEF KeepInv, WhoCalls, OwesNothing, Promises
  <2>2. CASE job.kind # "use"
    BY <1>1, <2>2 DEF KeepInv, WhoCalls, Verdict
  <2> QED BY <2>1, <2>2
<1>4. OwesNothing'
  BY <1>1, <1>3 DEF OwesNothing
<1>5. WhoCalls'
  BY <1>1 DEF WhoCalls
<1>6. WhichSession'
  BY <1>1 DEF KeepInv, WhichSession, Quiet
<1> QED BY <1>2, <1>4, <1>5, <1>6 DEF KeepInv

LEMMA KeepApplication == TypeInv /\ LedgerInv /\ KeepInv /\ Application => KeepInv'
<1> SUFFICES ASSUME TypeInv, LedgerInv, KeepInv, Application PROVE KeepInv'
  OBVIOUS
<1>0. H \in Handle
  BY DEF TypeInv, TypeOK
<1>1. at = "idle" /\ wire.phase = "quiet" /\ wire' = wire /\ tracking' = tracking
  BY DEF Application, Connect, UseObject, Opened, Statement, StatementOnClosed, CheckLiveness,
         LetGo, StillHeld, Close, Idle, LedgerInv, IdleIsQuiet
<1>2. ASSUME at' = at, H'.session_id # NoSession => H'.tracks_sessions = 1,
             KeepsPromises', conn' \in {"none", "connecting", "failing"} => promised' = Nothing
      PROVE  KeepInv'
  BY <1>1, <1>2 DEF KeepInv, OwesNothing, WhoCalls, WhichSession
<1>3. NewHandle.session_id = NoSession
  BY DEF NewHandle
<1>4. CASE Connect
  BY <1>2, <1>3, <1>4, NothingIsCovered DEF Connect, KeepInv, KeepsPromises, OwesNothing
<1>5. CASE UseObject
  <2> DEFINE n == H.scope_count + 1
             h == [H EXCEPT !.scope_count = n]
  <2>1. n \in 0..ScopeSize
    BY <1>0, <1>5, Bounds DEF UseObject, Handle
  <2>2. /\ h \in Handle /\ h.session_id = H.session_id
        /\ h.tracks_sessions = H.tracks_sessions
    BY <1>0, <2>1 DEF Handle
  <2>3. promised = Nothing
    BY <1>5 DEF UseObject, KeepInv, OwesNothing
  <2>4. Execute(h, UseJob(n)) /\ UseJob(n).kind = "use"
    BY <1>5 DEF UseObject, UseJob
  <2> HIDE DEF n, h
  <2>5. UNCHANGED <<wire, tracking, conn, promised>> /\ conn = "connecting"
    BY <1>1, <1>5 DEF UseObject
  <2> QED BY <1>1, <2>2, <2>3, <2>4, <2>5, NothingIsCovered, KeepExecute DEF KeepInv, WhichSession
<1>6. CASE Opened
  <2>1. /\ H'.session_id = H.session_id /\ H'.tracks_sessions = H.tracks_sessions
        /\ promised' = Nothing /\ at' = at
    BY <1>0, <1>6 DEF Opened, Handle, KeepInv, OwesNothing
  <2> QED BY <1>2, <2>1, NothingIsCovered DEF KeepInv, KeepsPromises, WhichSession
<1>7. ASSUME NEW sql \in Statements, Statement(sql) PROVE KeepInv'
  <2> DEFINE j == StatementJob(calls + 1, sql)
  <2>1. Execute(H, j) /\ j.kind = "statement"
    BY <1>7 DEF Statement, StatementJob
  <2> HIDE DEF j
  <2>2. conn = "open" /\ UNCHANGED <<wire, tracking, conn, promised>>
    BY <1>1, <1>7 DEF Statement
  <2>3. Covers(H, promised)
    BY <2>2 DEF KeepInv, KeepsPromises
  <2> QED BY <1>0, <1>1, <2>1, <2>2, <2>3, KeepExecute DEF KeepInv, WhichSession
<1>8. CASE StatementOnClosed
  BY <1>2, <1>8 DEF StatementOnClosed, KeepInv, KeepsPromises, OwesNothing, WhichSession
<1>9. CASE CheckLiveness
  <2>1. promised' = promised /\ conn = "open" /\ conn' \in {"open", "unfit"}
        /\ Covers(H, promised)
    BY <1>9 DEF CheckLiveness, KeepInv, KeepsPromises
  <2>2. CASE UNCHANGED <<H, at, job, i, restarted>>
    BY <1>2, <2>1, <2>2 DEF KeepInv, KeepsPromises, WhichSession
  <2>3. CASE conn' = conn /\ ~H.dirty /\ ~H.in_transaction /\ Execute(H, PingJob)
    <3>1. promised = Nothing
      BY <2>1, <2>3, CleanOwesNothing
    <3>2. PingJob.kind = "ping"
      BY DEF PingJob
    <3> QED BY <1>0, <1>1, <2>1, <2>3, <3>1, <3>2, KeepExecute DEF KeepInv, WhichSession
  <2>4. CASE conn' = conn /\ at' = "probe" /\ job' = PingJob /\ UNCHANGED <<H, i, restarted>>
    <3>1. KeepsPromises' /\ OwesNothing' /\ WhoCalls'
      BY <2>1, <2>4 DEF KeepsPromises, OwesNothing, WhoCalls, PingJob
    <3>2. WhichSession'
      BY <1>1, <2>4 DEF KeepInv, WhichSession
    <3> QED BY <3>1, <3>2 DEF KeepInv
  <2> QED BY <1>9, <2>1, <2>2, <2>3, <2>4 DEF CheckLiveness
<1>10. CASE LetGo \/ Close
  BY <1>2, <1>3, <1>10 DEF LetGo, Close, KeepsPromises
<1>11. CASE StillHeld
  BY <1>2, <1>11 DEF StillHeld, KeepInv, KeepsPromises, WhichSession
<1> QED BY <1>4, <1>5, <1>6, <1>7, <1>8, <1>9, <1>10, <1>11 DEF Application

LEMMA KeepPost == TypeInv /\ KeepInv /\ Post => KeepInv'
<1> SUFFICES ASSUME TypeInv, KeepInv, Post PROVE KeepInv'
  OBVIOUS
<1>1. UNCHANGED <<conn, H, at, job, promised, tracking>>
  BY DEF Post, driverVars
<1>2. /\ wire'.phase = "sent" /\ wire'.request.sid = H.session_id
      /\ wire'.request.require = (H.session_id # NoSession /\ H.tracks_sessions = 1)
  BY DEF Post, RequestFor
<1>3. WhichSession'
  BY <1>1, <1>2 DEF KeepInv, WhichSession
<1> QED BY <1>1, <1>3 DEF KeepInv, KeepsPromises, OwesNothing, WhoCalls

LEMMA KeepEngine == TypeInv /\ KeepInv /\ Engine => KeepInv'
<1> SUFFICES ASSUME TypeInv, KeepInv, Engine PROVE KeepInv'
  OBVIOUS
<1>1. UNCHANGED <<conn, H, at, job, promised>>
  BY DEF Engine, Serve, ServeGone, ServeFault, ServeAbandoned, Expiry, EngineRestart,
         EngineOnly, driverVars
<1>2. tracking'
  BY DEF Engine, Serve, ServeGone, ServeFault, ServeAbandoned, Expiry, EngineRestart,
         Expire, Restart, KeepInv, WhichSession
<1>w. wire \in [phase : {"quiet", "sent", "answered"}, request : Request, answer : Answer]
  BY DEF TypeInv, TypeOK
<1>a. ASSUME NEW a, Answering(a)
      PROVE  wire'.phase = "answered" /\ wire'.request = wire.request /\ wire'.answer = a
  BY <1>a, <1>w DEF Answering
<1>3. WhichSession'
  <2>1. CASE Serve
    <3>1. PICK s \in Places(wire.request, Free), v \in Verdicts(wire.request) :
            Answering([verdict |-> v[1], sid |-> s, newSession |-> NewSession(wire.request, s)])
      BY <2>1 DEF Serve
    <3>2. s # NoSession
      BY <3>1, Bounds DEF Places, Live, Free
    <3>3. wire.phase = "sent" /\ wire.request.sid = H.session_id
      BY <2>1 DEF Serve, KeepInv, WhichSession
    <3>4. wire.request.sid # NoSession => wire.request.require /\ s = wire.request.sid
      BY <3>1, <3>3 DEF Places, KeepInv, WhichSession
    <3>5. /\ NewSession(wire.request, s) # "absent"
          /\ s = wire.request.sid => NewSession(wire.request, s) = "no"
      BY DEF NewSession, KeepInv, WhichSession
    <3> DEFINE a == [verdict |-> v[1], sid |-> s, newSession |-> NewSession(wire.request, s)]
    <3>6. /\ a.sid = s /\ a.newSession # "absent"
          /\ wire.request.sid # NoSession => a.newSession = "no"
      BY <3>4, <3>5
    <3> HIDE DEF a
    <3>7. wire'.phase = "answered" /\ wire'.request = wire.request /\ wire'.answer = a
      BY <1>a, <3>1 DEF a
    <3> QED BY <1>1, <1>2, <3>2, <3>3, <3>4, <3>6, <3>7 DEF KeepInv, WhichSession, SameSession
  <2>2. CASE ServeGone \/ ServeFault
    <3>1. PICK v \in {"gone", "fault"} : Answering([NoAnswer EXCEPT !.verdict = v])
      BY <2>2 DEF ServeGone, ServeFault
    <3> DEFINE a == [NoAnswer EXCEPT !.verdict = v]
    <3>2. a.sid = NoSession /\ a.verdict # "ok"
      BY DEF NoAnswer
    <3> HIDE DEF a
    <3>3. wire'.phase = "answered" /\ wire'.request = wire.request /\ wire'.answer = a
      BY <1>a, <3>1 DEF a
    <3>4. wire.phase = "sent"
      BY <2>2 DEF ServeGone, ServeFault
    <3> QED BY <1>1, <1>2, <3>2, <3>3, <3>4 DEF KeepInv, WhichSession
  <2>3. CASE ServeAbandoned \/ Expiry \/ EngineRestart
    <3>1. wire' = wire
      BY <2>3 DEF ServeAbandoned, Expiry, EngineRestart, EngineOnly
    <3> QED BY <1>1, <1>2, <3>1 DEF KeepInv, WhichSession, SameSession
  <2> QED BY <2>1, <2>2, <2>3 DEF Engine
<1> QED BY <1>1, <1>3 DEF KeepInv, KeepsPromises, OwesNothing, WhoCalls

\* Nothing is promised or taken back without "ok" or 08003.
LEMMA NoNews == \A r, s : r \notin {"ok", "08003"} => Promises(r, s) = promised
BY DEF Promises

LEMMA KeepGiveUp == TypeInv /\ LedgerInv /\ KeepInv /\ GiveUp => KeepInv'
<1> SUFFICES ASSUME TypeInv, LedgerInv, KeepInv, GiveUp PROVE KeepInv'
  OBVIOUS
<1>1. at # "idle" /\ wire' = Quiet /\ tracking' = tracking
  BY DEF GiveUp, Unreachable, TimedOut, AnswerLost, LedgerInv, IdleIsQuiet
<1>2. PICK code \in NoAnswerCodes : Return(H, code)
  BY DEF GiveUp, Unreachable, TimedOut, AnswerLost, NoAnswerCodes
<1>3. Covers(H, Promises(code, wire.answer.sid))
  BY <1>1, NoNews DEF KeepInv, KeepsPromises, WhoCalls, NoAnswerCodes
<1> QED BY <1>1, <1>2, <1>3, KeepReturn DEF KeepInv, WhichSession

LEMMA KeepReceive == TypeInv /\ KeepInv /\ Receive => KeepInv'
<1> SUFFICES ASSUME TypeInv, KeepInv, Receive PROVE KeepInv'
  OBVIOUS
<1>0. H \in Handle /\ Heard \in Handle /\ job.sql \in Sql
  BY HeardType, JobSql DEF TypeInv, TypeOK
<1>1. wire' = Quiet /\ tracking' = tracking /\ wire.phase = "answered" /\ at # "idle"
  BY DEF Receive, ScopeItem, ScopeWhole, ScopeRestart, ScopeLost, ScopeFailed, StatementDone,
         StatementFailed, LossReported, LossRepaired, SecondRefusal, ProbeDone, Received,
         Answered, InScope
<1>2. Heard.session_id # NoSession => Heard.tracks_sessions = 1
  BY <1>1, HeardKeeps
<1>3. /\ Forget(H).session_id = NoSession /\ Forget(H).scope_pending
      /\ Forget(H) \in Handle
  BY <1>0 DEF Forget, Handle, SessionIds
<1>4. CASE ScopeItem \/ ScopeWhole
  <2>1. promised = Nothing /\ GoOn
    BY <1>4 DEF ScopeItem, ScopeWhole, Answered, InScope, KeepInv, OwesNothing
  <2>2. H'.session_id = Heard.session_id /\ H'.tracks_sessions = Heard.tracks_sessions
    BY <1>0, <1>4 DEF ScopeItem, ScopeWhole, Handle
  <2>3. CASE ScopeItem
    <3>1. at' \in {"scope", "rescope"}
      BY <2>3 DEF ScopeItem, Answered, InScope
    <3> QED BY <1>1, <1>2, <2>1, <2>2, <3>1, KeepGoOn
  <2>4. CASE ScopeWhole
    <3>1. at' \in {"statement", "replay"} /\ ~H'.scope_pending
      BY <1>0, <2>4 DEF ScopeWhole, Handle
    <3> QED BY <1>1, <1>2, <2>1, <2>2, <3>1, KeepGoOn
  <2> QED BY <1>4, <2>3, <2>4
<1>5. CASE ScopeRestart
  <2>1. promised = Nothing /\ GoOn /\ H' = Forget(H) /\ at' \in {"scope", "rescope"}
    BY <1>5 DEF ScopeRestart, Answered, InScope, KeepInv, OwesNothing
  <2> QED BY <1>1, <1>3, <2>1, KeepGoOn
<1>6. CASE LossRepaired
  <2>1. promised = Nothing
    BY <1>1, <1>6, CleanOwesNothing DEF LossRepaired, HeldSomething, KeepInv, WhoCalls
  <2>2. EnterScope(Forget(H), "rescope", "replay") /\ GoOn
    BY <1>6 DEF LossRepaired
  <2>3. /\ H'.session_id = NoSession /\ at' \in {"rescope", "replay"}
        /\ at' = "replay" => ~H'.scope_pending
    <3> DEFINE f == Forget(H)
    <3>1. f \in Handle /\ f.session_id = NoSession /\ EnterScope(f, "rescope", "replay")
      BY <1>3, <2>2
    <3> HIDE DEF f
    <3> QED BY <3>1 DEF EnterScope, Handle
  <2> QED BY <1>1, <2>1, <2>2, <2>3, KeepGoOn
<1>7. CASE ScopeLost \/ LossReported \/ SecondRefusal
  <2>1. Return(Forget(H), "08003")
    BY <1>7 DEF ScopeLost, LossReported, SecondRefusal
  <2>2. job.kind # "statement" => promised = Nothing
    BY <1>7 DEF ScopeLost, LossReported, SecondRefusal, Answered, InScope, KeepInv, OwesNothing
  <2>3. Covers(Forget(H), Promises("08003", wire.answer.sid))
    BY <2>2, NothingIsCovered DEF Promises
  <2> QED BY <1>1, <1>3, <2>1, <2>3, KeepReturn
<1>8. CASE ScopeFailed \/ StatementFailed \/ (ProbeDone /\ wire.answer.verdict # "ok")
  <2>1. PICK r \in {"HY000", "08S01"} : Return(Heard, r)
    BY <1>8 DEF ScopeFailed, StatementFailed, ProbeDone
  <2>2. Covers(Heard, Promises(r, wire.answer.sid))
    BY <1>1, HeardCovers, NoNews
  <2> QED BY <1>1, <1>2, <2>1, <2>2, KeepReturn
<1>9. CASE ProbeDone /\ wire.answer.verdict = "ok"
  <2>1. Return(Heard, "ok") /\ job.kind = "ping"
    BY <1>9 DEF ProbeDone, Answered, KeepInv, WhoCalls
  <2>2. Covers(Heard, Promises("ok", wire.answer.sid))
    BY <1>1, <2>1, HeardCovers DEF Promises
  <2> QED BY <1>1, <1>2, <2>1, <2>2, KeepReturn
<1>10. CASE StatementDone
  <2> DEFINE h == TrackSession(Heard, job.sql)
             s == wire.answer.sid
             p == Promises("ok", s)
  <2>1. Return(h, "ok") /\ at \in {"statement", "replay"} /\ wire.answer.verdict = "ok"
    BY <1>10 DEF StatementDone, Answered
  <2>2. /\ h.session_id = Heard.session_id /\ h.tracks_sessions = Heard.tracks_sessions
        /\ h.scope_pending = Heard.scope_pending
        /\ h.dirty = (Heard.dirty \/ job.sql.touches)
        /\ h.in_transaction = IF job.sql.effect = 0 THEN Heard.in_transaction
                              ELSE job.sql.effect = 1
    BY <1>0 DEF TrackSession, Handle
  <2> HIDE DEF h
  <2>3. Heard.session_id = s /\ ~h.scope_pending
    BY <1>1, <2>1, <2>2, HeardKeeps DEF KeepInv, WhichSession, OwesNothing
  <2>4. Covers(Heard, promised)
    BY <1>1, HeardCovers
  <2>5. Covers(h, p)
    <3>1. CASE job.kind # "statement"
      <4>1. promised = Nothing /\ p = promised
        BY <2>1, <3>1 DEF KeepInv, OwesNothing, Promises
      <4> QED BY <4>1, NothingIsCovered
    <3>2. CASE job.kind = "statement"
      <4>1. p.context = IF job.sql.touches THEN s ELSE promised.context
        BY <3>2 DEF Promises
      <4>2. p.transaction = CASE job.sql.effect = 1 -> s
                              [] job.sql.effect = -1 -> NoSession
                              [] OTHER -> promised.transaction
        BY <3>2 DEF Promises
      <4>3. job.sql.effect \in {-1, 0, 1} /\ job.sql.touches \in BOOLEAN
        BY <1>0 DEF Sql
      <4> HIDE DEF p
      <4>4. p.context # NoSession => p.context = h.session_id /\ h.dirty
        BY <2>2, <2>3, <2>4, <4>1, <4>3 DEF Covers
      <4>5. p.transaction # NoSession => p.transaction = h.session_id /\ h.in_transaction
        <5>1. CASE job.sql.effect = 0
          BY <2>2, <2>3, <2>4, <4>2, <5>1 DEF Covers
        <5>2. CASE job.sql.effect = 1
          <6>1. p.transaction = s
            BY <4>2, <5>2
          <6>2. h.in_transaction = (job.sql.effect = 1)
            BY <2>2, <5>2
          <6> QED BY <2>2, <2>3, <5>2, <6>1, <6>2
        <5>3. CASE job.sql.effect = -1
          BY <4>2, <5>3
        <5> QED BY <4>3, <5>1, <5>2, <5>3
      <4> QED BY <2>3, <4>4, <4>5 DEF Covers
    <3> QED BY <3>1, <3>2
  <2> QED BY <1>1, <1>2, <2>1, <2>2, <2>5, KeepReturn
<1> QED BY <1>4, <1>5, <1>6, <1>7, <1>8, <1>9, <1>10 DEF Receive

LEMMA KeepStep == TypeInv /\ LedgerInv /\ KeepInv /\ [Next]_vars => KeepInv'
<1> SUFFICES ASSUME TypeInv, LedgerInv, KeepInv, [Next]_vars PROVE KeepInv'
  OBVIOUS
<1>1. CASE Next
  BY <1>1, KeepApplication, KeepPost, KeepEngine, KeepGiveUp, KeepReceive DEF Next
<1>2. CASE UNCHANGED vars
  BY <1>2 DEF vars, KeepInv, KeepsPromises, OwesNothing, WhoCalls, WhichSession, SameSession
<1> QED BY <1>1, <1>2

LEMMA KeepInvariant == ASSUME ~Legacy PROVE Spec => []KeepInv
<1>1. Init => KeepInv
  BY KeepInit
<1> QED BY <1>1, TypeInit, TypeStep, LedgerInit, LedgerStep, KeepStep, PTL DEF Spec

(***************************************************************************)
(* Against an engine that tracks sessions: as long as the application was  *)
(* not told 08003, the session with the context or the transaction it was  *)
(* told it has is the one the connection uses (session_lost, absorb).      *)
(***************************************************************************)
THEOREM NothingLostSilently == ASSUME ~Legacy PROVE Spec => []NoSilentLoss
<1>1. KeepInv => NoSilentLoss
  BY DEF KeepInv, KeepsPromises, Covers, NoSilentLoss
<1> QED BY <1>1, KeepInvariant, PTL

(***************************************************************************)
(* Against such an engine a handle that pdo_frostlake_session_alive found  *)
(* fit is in the session that holds what the application was told it has.  *)
(***************************************************************************)
THEOREM FitIsIntact == ASSUME ~Legacy PROVE Spec => ReusedOnlyIntact
<1> DEFINE Intact == {promised.context, promised.transaction} \subseteq {NoSession, wire.answer.sid}
<1>1. TypeInv /\ LedgerInv /\ KeepInv /\ [Next]_vars => [Fit => Intact]_vars
  <2> SUFFICES ASSUME TypeInv, LedgerInv, KeepInv, Next, Fit PROVE Intact
    OBVIOUS
  <2>1. at # "idle" /\ job.kind = "ping" /\ at' = "idle" /\ conn' = "open"
    BY DEF Fit, LedgerInv, IdleIsQuiet, NoJob
  <2>2. ~Application /\ ~Engine /\ ~Post
    BY <2>1 DEF Application, Idle, Connect, UseObject, Opened, Statement, StatementOnClosed,
                CheckLiveness, LetGo, StillHeld, Close, Engine, Serve, ServeGone, ServeFault,
                ServeAbandoned, Expiry, EngineRestart, EngineOnly, Post, driverVars
  <2>3. ASSUME NEW h, NEW r, r # "ok" PROVE ~Return(h, r)
    BY <2>1, <2>3 DEF Return, Verdict
  <2>4. ~GiveUp
    BY <2>3 DEF GiveUp, Unreachable, TimedOut, AnswerLost, NoAnswerCodes
  <2>5. ~ScopeLost /\ ~ScopeFailed /\ ~StatementFailed /\ ~LossReported /\ ~SecondRefusal
    BY <2>3 DEF ScopeLost, ScopeFailed, StatementFailed, LossReported, SecondRefusal
  <2>6. ~ScopeItem /\ ~ScopeWhole /\ ~ScopeRestart /\ ~LossRepaired
    BY <2>1 DEF ScopeItem, ScopeWhole, ScopeRestart, LossRepaired, EnterScope
  <2>7. StatementDone \/ ProbeDone
    BY <2>2, <2>4, <2>5, <2>6 DEF Next, Receive
  <2>8. CASE StatementDone
    <3>1. promised = Nothing
      BY <2>1, <2>8 DEF StatementDone, Answered, KeepInv, OwesNothing
    <3> QED BY <3>1 DEF Nothing
  <2>9. CASE ProbeDone
    <3>1. wire.phase = "answered" /\ wire.answer.verdict = "ok"
      BY <2>3, <2>9 DEF ProbeDone, Answered
    <3>2. Covers(Heard, promised) /\ Heard.session_id = wire.answer.sid
      BY <2>1, <3>1, HeardCovers, HeardKeeps DEF KeepInv, WhichSession
    <3> QED BY <3>2 DEF Covers
  <2> QED BY <2>7, <2>8, <2>9
<1> QED BY <1>1, TypeInit, TypeStep, LedgerInvariant, KeepInvariant, PTL DEF Spec, ReusedOnlyIntact
=============================================================================
