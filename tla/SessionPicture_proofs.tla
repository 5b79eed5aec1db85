------------------------ MODULE SessionPicture_proofs ------------------------
(***************************************************************************)
(* What the driver knows of its session, for every instance: which session *)
(* a request and its answer name, when a session is dropped, and what of   *)
(* the session's context and transaction the handle has on record.         *)
(***************************************************************************)
EXTENDS FrostlakeSession_proofs

(* What the engine does to the sessions the connection goes by.            *)

\* A session served, by a request in progress or by one given up on.
Before(q, s) == IF s = q.sid THEN sessions[s] ELSE [Unborn EXCEPT !.live = TRUE]

LEMMA ServeTouches ==
    ASSUME TypeInv, NEW q \in Request, q.sid \in InUse, NEW s \in Places(q, Free),
           NEW verdict, NEW part, Ran(q, s, verdict, part)
    PROVE  /\ s \in Sessions
           /\ sessions'[s] = AfterJob(Before(q, s), q.job, verdict, part)
           /\ \A r \in Sessions : r # s => sessions'[r] = sessions[r]
           /\ s = q.sid => Live(q.sid)
           /\ s # q.sid => ~Live(q.sid) /\ ~q.require /\ s \in Free
<1>1. s \in Sessions
  BY DEF Places, Live, Free
<1>2. sessions' = [sessions EXCEPT ![s] = AfterJob(Before(q, s), q.job, verdict, part)]
  BY DEF Ran, Before
<1>3. sessions \in [Sessions -> Session]
  BY DEF TypeInv, TypeOK, EngineTypeOK
<1>4. s = q.sid => Live(q.sid)
  BY DEF Places, Free
<1>5. s # q.sid => ~Live(q.sid) /\ ~q.require /\ s \in Free
  BY DEF Places
<1> QED BY <1>1, <1>2, <1>3, <1>4, <1>5

\* A session the connection goes by is not touched while it is dead, and is
\* never given to anybody else.
Names == {H.session_id, wire.answer.sid}

Late(x, j) == Unhear(AfterJob(x, j, "ok", FALSE), j)

LEMMA LateTouches ==
    ASSUME TypeInv, ServeAbandoned, NEW s \in Sessions \cap Names
    PROVE  \/ sessions'[s] = sessions[s]
           \/ Live(s) /\ \E q \in abandoned : q.sid = s /\ sessions'[s] = Late(sessions[s], q.job)
<1>0. sessions \in [Sessions -> Session]
  BY DEF TypeInv, TypeOK, EngineTypeOK
<1>1. PICK q \in abandoned :
        \/ \E r \in Places(q, Free) :
             sessions' = [sessions EXCEPT ![r] =
               Unhear(AfterJob(IF r = q.sid THEN sessions[r] ELSE [Unborn EXCEPT !.live = TRUE],
                               q.job, "ok", FALSE), q.job)]
        \/ UNCHANGED sessions
  BY DEF ServeAbandoned
<1>2. CASE UNCHANGED sessions
  BY <1>2
<1>3. ASSUME NEW r \in Places(q, Free),
             sessions' = [sessions EXCEPT ![r] =
               Unhear(AfterJob(IF r = q.sid THEN sessions[r] ELSE [Unborn EXCEPT !.live = TRUE],
                               q.job, "ok", FALSE), q.job)]
      PROVE  \/ sessions'[s] = sessions[s]
             \/ Live(s) /\ q.sid = s /\ sessions'[s] = Late(sessions[s], q.job)
  <2>1. CASE r # s
    BY <1>0, <1>3, <2>1
  <2>2. CASE r = s
    <3>1. r \notin Free
      BY <2>2 DEF Free, InUse, Names
    <3>2. r = q.sid /\ Live(r)
      BY <3>1 DEF Places
    <3>3. sessions'[s] = Late(sessions[s], q.job)
      BY <1>0, <1>3, <2>2, <3>2 DEF Late
    <3> QED BY <2>2, <3>2, <3>3
  <2> QED BY <2>1, <2>2
<1> QED BY <1>1, <1>2, <1>3

LEMMA EndTouches ==
    ASSUME TypeInv, Expiry \/ EngineRestart, NEW s \in Sessions
    PROVE  \/ sessions'[s] = sessions[s]
           \/ Live(s) /\ sessions'[s] = Ended(s, H.session_id)
<1>0. sessions \in [Sessions -> Session]
  BY DEF TypeInv, TypeOK, EngineTypeOK
<1>1. CASE Expiry
  <2>1. PICK r \in Sessions : Expire(r, H.session_id)
    BY <1>1 DEF Expiry
  <2>2. sessions' = [sessions EXCEPT ![r] = Ended(r, H.session_id)] /\ Live(r)
    BY <2>1 DEF Expire
  <2> QED BY <1>0, <2>2
<1>2. CASE EngineRestart
  <2>1. sessions'[s] = IF Live(s) THEN Ended(s, H.session_id) ELSE sessions[s]
    BY <1>2 DEF EngineRestart, Restart
  <2> QED BY <2>1
<1> QED BY <1>1, <1>2

LEMMA EngineTouches ==
    ASSUME TypeInv, ServeAbandoned \/ Expiry \/ EngineRestart, NEW s \in Sessions \cap Names
    PROVE  \/ sessions'[s] = sessions[s]
           \/ /\ Live(s)
              /\ \/ \E q \in abandoned : sessions'[s] = Late(sessions[s], q.job)
                 \/ sessions'[s] = Ended(s, H.session_id)
BY LateTouches, EndTouches

\* Only a session that is served is alive.
LEMMA StaysDead ==
    ASSUME TypeInv, ServeAbandoned \/ Expiry \/ EngineRestart, ~Live(H.session_id)
    PROVE  ~Live(H.session_id)'
<1>1. CASE H.session_id \in Sessions
  <2>1. sessions'[H.session_id] = sessions[H.session_id]
    BY <1>1, EngineTouches DEF Names
  <2>2. H' = H
    BY DEF ServeAbandoned, Expiry, EngineRestart, EngineOnly, driverVars
  <2> QED BY <2>1, <2>2 DEF Live
<1>2. CASE H.session_id \notin Sessions
  <2>1. H' = H
    BY DEF ServeAbandoned, Expiry, EngineRestart, EngineOnly, driverVars
  <2> QED BY <1>2, <2>1 DEF Live
<1> QED BY <1>1, <1>2

-----------------------------------------------------------------------------
(***************************************************************************)
(* A request names the handle's session, and requires it where the engine  *)
(* knows how; an answer names the same session, or another one because     *)
(* the handle's is gone and was not required.                              *)
(***************************************************************************)
RequestNames ==
    wire.phase # "quiet" =>
      /\ wire.request.sid = H.session_id
      /\ wire.request.require <=> H.session_id # NoSession /\ H.tracks_sessions = 1

NamesNone ==
    /\ wire.answer.verdict \in {"gone", "fault"}
    /\ wire.answer.sid = NoSession /\ wire.answer.newSession = "absent"
    /\ wire.answer.verdict = "gone" => wire.request.require /\ ~Live(H.session_id)

NamesSame == wire.answer.sid = H.session_id /\ wire.answer.newSession # "yes"

NamesOther ==
    /\ wire.answer.sid # H.session_id /\ wire.answer.newSession # "no"
    /\ ~wire.request.require /\ ~Live(H.session_id)

NamesOne ==
    /\ wire.answer.verdict \in {"ok", "refused"} /\ wire.answer.sid \in Sessions
    /\ NamesSame \/ NamesOther

AnswerNames == wire.phase = "answered" => NamesNone \/ NamesOne

NamesInv == WhoCalls /\ RequestNames /\ AnswerNames /\ (conn = "none" => H = NewHandle)

LEMMA NamesInit == Init => NamesInv
BY DEF Init, NamesInv, WhoCalls, RequestNames, AnswerNames, Quiet

LEMMA QuietNames == wire.phase = "quiet" => RequestNames /\ AnswerNames
BY DEF RequestNames, AnswerNames

LEMMA QuietPhase == Quiet.phase = "quiet"
BY DEF Quiet

ScopeDone(h) == [h EXCEPT !.scope_pending = FALSE]

LEMMA ExecuteCalls ==
    ASSUME NEW h, NEW j, Execute(h, j)
    PROVE  /\ at' \in {"scope", "statement"} /\ job' = j
           /\ at' = "scope" => h.scope_pending /\ h.scope_count # 0 /\ i' = 1 /\ H' = h
           /\ at' = "statement" =>
                \/ H' = h /\ ~h.scope_pending
                \/ H' = ScopeDone(h) /\ h.scope_count = 0
<1>1. CASE h.scope_pending
  BY <1>1 DEF Execute, EnterScope, ScopeDone
<1>2. CASE ~h.scope_pending
  <2>1. job' = j /\ at' = "statement" /\ H' = h
    BY <1>2 DEF Execute
  <2>2. at' # "scope"
    BY <2>1
  <2> QED BY <1>2, <2>1, <2>2
<1> QED BY <1>1, <1>2

LEMMA NamesApplication == TypeInv /\ LedgerInv /\ NamesInv /\ Application => NamesInv'
<1> SUFFICES ASSUME TypeInv, LedgerInv, NamesInv, Application PROVE NamesInv'
  OBVIOUS
<1>1. at = "idle" /\ wire'.phase = "quiet"
  BY DEF Application, Connect, UseObject, Opened, Statement, StatementOnClosed, CheckLiveness,
         LetGo, StillHeld, Close, Idle, LedgerInv, IdleIsQuiet
<1>2. conn' # "none"
  BY DEF Application, Connect, UseObject, Opened, Statement, StatementOnClosed, CheckLiveness,
         LetGo, StillHeld, Close
<1>3. WhoCalls'
  <2>1. CASE UseObject
    <3>1. conn' = "connecting" /\ \E h, n : Execute(h, UseJob(n))
      BY <2>1 DEF UseObject
    <3> QED BY <3>1, ExecuteCalls DEF WhoCalls, UseJob
  <2>2. CASE \E sql \in Statements : Statement(sql)
    <3>1. conn' = "open" /\ \E h, n, sql : Execute(h, StatementJob(n, sql))
      BY <2>2 DEF Statement
    <3> QED BY <3>1, ExecuteCalls DEF WhoCalls, StatementJob
  <2>3. CASE CheckLiveness
    <3>1. \/ at' = at
          \/ conn' = "open" /\ Execute(H, PingJob)
          \/ conn' = "open" /\ at' = "probe" /\ job' = PingJob
      BY <2>3 DEF CheckLiveness
    <3> QED BY <1>1, <3>1, ExecuteCalls DEF WhoCalls, PingJob
  <2>4. CASE Connect \/ Opened \/ StatementOnClosed \/ LetGo \/ StillHeld \/ Close
    BY <1>1, <2>4 DEF Connect, Opened, StatementOnClosed, LetGo, StillHeld, Close, WhoCalls
  <2> QED BY <2>1, <2>2, <2>3, <2>4 DEF Application
<1> QED BY <1>1, <1>2, <1>3, QuietNames DEF NamesInv, RequestNames, AnswerNames

LEMMA NamesPost == TypeInv /\ NamesInv /\ Post => NamesInv'
<1> SUFFICES ASSUME TypeInv, NamesInv, Post PROVE NamesInv'
  OBVIOUS
<1>1. UNCHANGED <<conn, H, at, job>>
  BY DEF Post, driverVars
<1>2. /\ wire'.phase = "sent" /\ wire'.request.sid = H.session_id
      /\ wire'.request.require = (H.session_id # NoSession /\ H.tracks_sessions = 1)
  BY DEF Post, RequestFor
<1> QED BY <1>1, <1>2 DEF NamesInv, WhoCalls, RequestNames, AnswerNames

LEMMA AnsweringShape ==
    ASSUME TypeInv, NEW a, Answering(a)
    PROVE  wire'.phase = "answered" /\ wire'.request = wire.request /\ wire'.answer = a
BY DEF Answering, TypeInv, TypeOK

\* Three ways an engine answers: nothing ran, it ran here, it ran elsewhere.
LEMMA ServeShape ==
    ASSUME TypeInv, Serve
    PROVE  \E s \in Places(wire.request, Free), v \in {"ok", "refused"}, part \in BOOLEAN :
             /\ part => v = "refused"
             /\ Ran(wire.request, s, v, part)
             /\ wire'.phase = "answered" /\ wire'.request = wire.request
             /\ wire'.answer.verdict = v /\ wire'.answer.sid = s
             /\ wire'.answer.newSession = NewSession(wire.request, s)
<1>1. PICK s \in Places(wire.request, Free), v \in Verdicts(wire.request) :
        /\ Ran(wire.request, s, v[1], v[2])
        /\ Answering([verdict |-> v[1], sid |-> s, newSession |-> NewSession(wire.request, s)])
  BY DEF Serve
<1>2. v[1] \in {"ok", "refused"} /\ v[2] \in BOOLEAN /\ (v[2] => v[1] = "refused")
  <2>1. v = <<"ok", FALSE>> \/ v = <<"refused", FALSE>> \/ v = <<"refused", TRUE>>
    BY <1>1 DEF Verdicts
  <2>2. /\ <<"ok", FALSE>>[1] = "ok" /\ <<"ok", FALSE>>[2] = FALSE
        /\ <<"refused", FALSE>>[1] = "refused" /\ <<"refused", FALSE>>[2] = FALSE
        /\ <<"refused", TRUE>>[1] = "refused" /\ <<"refused", TRUE>>[2] = TRUE
    OBVIOUS
  <2> QED BY <2>1, <2>2
<1> DEFINE a == [verdict |-> v[1], sid |-> s, newSession |-> NewSession(wire.request, s)]
<1>3. a.verdict = v[1] /\ a.sid = s /\ a.newSession = NewSession(wire.request, s)
  OBVIOUS
<1>4. Answering(a)
  BY <1>1
<1> HIDE DEF a
<1>5. wire'.phase = "answered" /\ wire'.request = wire.request /\ wire'.answer = a
  BY <1>4, AnsweringShape
<1> QED BY <1>1, <1>2, <1>3, <1>5

LEMMA NoneShape ==
    ASSUME TypeInv, ServeGone \/ ServeFault
    PROVE  /\ wire'.phase = "answered" /\ wire'.request = wire.request
           /\ wire'.answer.verdict \in {"gone", "fault"}
           /\ wire'.answer.sid = NoSession /\ wire'.answer.newSession = "absent"
           /\ wire'.answer.verdict = "gone" => Gone(wire.request)
<1>1. PICK v \in {"gone", "fault"} :
        Answering([NoAnswer EXCEPT !.verdict = v]) /\ (v = "gone" => Gone(wire.request))
  BY DEF ServeGone, ServeFault
<1> DEFINE a == [NoAnswer EXCEPT !.verdict = v]
<1>2. a.verdict = v /\ a.sid = NoSession /\ a.newSession = "absent"
  BY DEF NoAnswer
<1>3. Answering(a)
  BY <1>1
<1> HIDE DEF a
<1>4. wire'.phase = "answered" /\ wire'.request = wire.request /\ wire'.answer = a
  BY <1>3, AnsweringShape
<1> QED BY <1>1, <1>2, <1>4

LEMMA NamesEngine == TypeInv /\ NamesInv /\ Engine => NamesInv'
<1> SUFFICES ASSUME TypeInv, NamesInv, Engine PROVE NamesInv'
  OBVIOUS
<1>1. UNCHANGED <<conn, H, at, job>>
  BY DEF Engine, Serve, ServeGone, ServeFault, ServeAbandoned, Expiry, EngineRestart,
         EngineOnly, driverVars
<1>2. WhoCalls' /\ (conn' = "none" => H' = NewHandle)
  BY <1>1 DEF NamesInv, WhoCalls
<1>q. wire.request \in Request
  BY DEF TypeInv, TypeOK
<1>3. CASE Serve
  <2>1. PICK s \in Places(wire.request, Free), v \in {"ok", "refused"}, part \in BOOLEAN :
          /\ Ran(wire.request, s, v, part)
          /\ wire'.phase = "answered" /\ wire'.request = wire.request
          /\ wire'.answer.verdict = v /\ wire'.answer.sid = s
          /\ wire'.answer.newSession = NewSession(wire.request, s)
    BY <1>3, ServeShape
  <2>2. wire.request.sid = H.session_id
    BY <1>3 DEF Serve, NamesInv, RequestNames
  <2>3. /\ s \in Sessions
        /\ \A r \in Sessions : r # s => sessions'[r] = sessions[r]
        /\ s # wire.request.sid => ~Live(wire.request.sid) /\ ~wire.request.require
    BY <1>q, <2>1, ServeTouches DEF InUse
  <2>4. RequestNames'
    BY <1>1, <1>3, <2>1 DEF NamesInv, RequestNames, Serve
  <2>5. CASE s = H.session_id
    BY <1>1, <1>2, <2>1, <2>2, <2>3, <2>4, <2>5
       DEF NamesInv, AnswerNames, NamesOne, NamesSame, NewSession
  <2>6. CASE s # H.session_id
    <3>1. ~Live(H.session_id)'
      BY <1>1, <2>2, <2>3, <2>6 DEF Live
    <3> QED BY <1>1, <1>2, <2>1, <2>2, <2>3, <2>4, <2>6, <3>1
            DEF NamesInv, AnswerNames, NamesOne, NamesOther, NewSession
  <2> QED BY <2>5, <2>6
<1>4. CASE ServeGone \/ ServeFault
  <2>1. /\ wire'.phase = "answered" /\ wire'.request = wire.request
        /\ wire'.answer.verdict \in {"gone", "fault"}
        /\ wire'.answer.sid = NoSession /\ wire'.answer.newSession = "absent"
        /\ wire'.answer.verdict = "gone" => Gone(wire.request)
    BY <1>4, NoneShape
  <2>2. wire.request.sid = H.session_id /\ sessions' = sessions /\ wire.phase # "quiet"
    BY <1>4 DEF ServeGone, ServeFault, NamesInv, RequestNames
  <2>3. RequestNames'
    BY <1>1, <2>1, <2>2 DEF NamesInv, RequestNames
  <2>4. NamesNone'
    BY <1>1, <2>1, <2>2 DEF NamesNone, Gone, Live
  <2> QED BY <1>2, <2>3, <2>4 DEF NamesInv, AnswerNames
<1>5. CASE ServeAbandoned \/ Expiry \/ EngineRestart
  <2>1. wire' = wire
    BY <1>5 DEF ServeAbandoned, Expiry, EngineRestart, EngineOnly
  <2>2. RequestNames'
    BY <1>1, <2>1 DEF NamesInv, RequestNames
  <2>3. ~Live(H.session_id) => ~Live(H.session_id)'
    BY <1>5, StaysDead
  <2>4. AnswerNames'
    BY <1>1, <2>1, <2>3 DEF NamesInv, AnswerNames, NamesNone, NamesOne, NamesSame, NamesOther
  <2> QED BY <1>2, <2>2, <2>4 DEF NamesInv
<1> QED BY <1>3, <1>4, <1>5 DEF Engine

\* A call that is over, or goes on with the wire quiet.
LEMMA NamesReturn ==
    ASSUME NamesInv, at # "idle", NEW h, NEW r, Return(h, r), wire' = Quiet
    PROVE  NamesInv'
<1>1. at' = "idle" /\ wire'.phase = "quiet" /\ conn' # "none"
  BY QuietPhase DEF Return, Verdict, NamesInv, WhoCalls
<1> QED BY <1>1 DEF NamesInv, WhoCalls, RequestNames, AnswerNames

LEMMA NamesGoOn ==
    ASSUME NamesInv, at \notin {"idle", "probe"}, GoOn, wire' = Quiet, at' \notin {"idle", "probe"}
    PROVE  NamesInv'
<1>1. conn' = conn /\ job' = job /\ wire'.phase = "quiet"
  BY QuietPhase DEF GoOn
<1> QED BY <1>1 DEF NamesInv, WhoCalls, RequestNames, AnswerNames

LEMMA NamesGiveUp == LedgerInv /\ NamesInv /\ GiveUp => NamesInv'
<1> SUFFICES ASSUME LedgerInv, NamesInv, GiveUp PROVE NamesInv'
  OBVIOUS
<1>1. at # "idle" /\ wire' = Quiet /\ \E r : Return(H, r)
  BY DEF GiveUp, Unreachable, TimedOut, AnswerLost, LedgerInv, IdleIsQuiet
<1> QED BY <1>1, NamesReturn

(***************************************************************************)
(* What the driver makes of an answer comes down to two shapes: the call   *)
(* goes on with a handle, or returns with one.                             *)
(***************************************************************************)
LEMMA ReceiveShape ==
    ASSUME Receive
    PROVE  /\ wire' = Quiet /\ wire.phase = "answered" /\ at # "idle"
           /\ UNCHANGED <<sessions, tracking, abandoned, calls>>
           /\ \/ GoOn /\ at \notin {"idle", "probe"} /\ at' \notin {"idle", "probe"}
              \/ \E h, r : Return(h, r)
<1>1. wire' = Quiet /\ UNCHANGED <<sessions, tracking, abandoned, calls>>
  BY DEF Receive, ScopeItem, ScopeWhole, ScopeRestart, ScopeLost, ScopeFailed, StatementDone,
         StatementFailed, LossReported, LossRepaired, SecondRefusal, ProbeDone, Received
<1>2. wire.phase = "answered" /\ at # "idle"
  BY DEF Receive, ScopeItem, ScopeWhole, ScopeRestart, ScopeLost, ScopeFailed, StatementDone,
         StatementFailed, LossReported, LossRepaired, SecondRefusal, ProbeDone, Answered, InScope
<1>3. CASE ScopeItem \/ ScopeWhole \/ ScopeRestart \/ LossRepaired
  BY <1>1, <1>2, <1>3 DEF ScopeItem, ScopeWhole, ScopeRestart, LossRepaired, EnterScope, Answered, InScope
<1>4. CASE ScopeLost \/ ScopeFailed \/ StatementDone \/ StatementFailed \/ LossReported
           \/ SecondRefusal \/ ProbeDone
  BY <1>1, <1>2, <1>4 DEF ScopeLost, ScopeFailed, StatementDone, StatementFailed, LossReported,
         SecondRefusal, ProbeDone
<1> QED BY <1>3, <1>4 DEF Receive

LEMMA NamesReceive == NamesInv /\ Receive => NamesInv'
BY ReceiveShape, NamesReturn, NamesGoOn

LEMMA NamesStep == TypeInv /\ LedgerInv /\ NamesInv /\ [Next]_vars => NamesInv'
<1> SUFFICES ASSUME TypeInv, LedgerInv, NamesInv, [Next]_vars PROVE NamesInv'
  OBVIOUS
<1>1. CASE Next
  BY <1>1, NamesApplication, NamesPost, NamesEngine, NamesGiveUp, NamesReceive DEF Next
<1>2. CASE UNCHANGED vars
  BY <1>2 DEF vars, NamesInv, WhoCalls, RequestNames, AnswerNames, NamesNone, NamesOne,
              NamesSame, NamesOther, Live
<1> QED BY <1>1, <1>2

LEMMA NamesInvariant == Spec => []NamesInv
<1> QED BY TypeInit, TypeStep, LedgerInit, LedgerStep, NamesInit, NamesStep, PTL DEF Spec

-----------------------------------------------------------------------------
(* The handle's fields, one operator of frostlake_wire.c after the other.  *)

LEMMA ForgetFields ==
    ASSUME NEW h \in Handle
    PROVE  /\ Forget(h) \in Handle
           /\ Forget(h).session_id = NoSession /\ ~Forget(h).dirty
           /\ ~Forget(h).in_transaction /\ Forget(h).scope_pending
           /\ Forget(h).scope_count = h.scope_count
           /\ Forget(h).tracks_sessions = h.tracks_sessions
BY DEF Forget, Handle, SessionIds

LEMMA ScopeDoneFields ==
    ASSUME NEW h \in Handle
    PROVE  /\ ScopeDone(h) \in Handle /\ ~ScopeDone(h).scope_pending
           /\ ScopeDone(h).session_id = h.session_id
           /\ ScopeDone(h).dirty = h.dirty /\ ScopeDone(h).in_transaction = h.in_transaction
           /\ ScopeDone(h).scope_count = h.scope_count
           /\ ScopeDone(h).tracks_sessions = h.tracks_sessions
BY DEF ScopeDone, Handle

LEMMA TrackFields ==
    ASSUME NEW h \in Handle, NEW sql \in Sql
    PROVE  /\ TrackSession(h, sql) \in Handle
           /\ TrackSession(h, sql).session_id = h.session_id
           /\ TrackSession(h, sql).dirty = (h.dirty \/ sql.touches)
           /\ TrackSession(h, sql).in_transaction =
                IF sql.effect = 0 THEN h.in_transaction ELSE sql.effect = 1
           /\ TrackSession(h, sql).scope_pending = h.scope_pending
           /\ TrackSession(h, sql).scope_count = h.scope_count
           /\ TrackSession(h, sql).tracks_sessions = h.tracks_sessions
BY DEF TrackSession, Handle, Sql

\* Absorb forgets what was known when a fresh session answers for one it named.
Replaces(a, sent) == sent /\ a.newSession = "yes"

Belief(h, a) == IF a.newSession # "absent" THEN 1
                ELSE IF h.tracks_sessions < 0 THEN 0 ELSE h.tracks_sessions

LEMMA AbsorbFields ==
    ASSUME NEW h \in Handle, NEW a \in Answer, NEW sent \in BOOLEAN, a.sid # NoSession
    PROVE  /\ Absorb(h, a, sent) \in Handle
           /\ Absorb(h, a, sent).session_id = a.sid
           /\ Absorb(h, a, sent).scope_count = h.scope_count
           /\ Absorb(h, a, sent).tracks_sessions = Belief(h, a)
           /\ Replaces(a, sent) => /\ ~Absorb(h, a, sent).dirty
                                   /\ ~Absorb(h, a, sent).in_transaction
                                   /\ Absorb(h, a, sent).scope_pending
           /\ ~Replaces(a, sent) => /\ Absorb(h, a, sent).dirty = h.dirty
                                    /\ Absorb(h, a, sent).in_transaction = h.in_transaction
                                    /\ Absorb(h, a, sent).scope_pending = h.scope_pending
<1> DEFINE l == Learn(h, a, sent)
           f == Forget(h)
<1>f. /\ f \in Handle /\ f.session_id = NoSession /\ ~f.dirty
      /\ ~f.in_transaction /\ f.scope_pending /\ f.scope_count = h.scope_count
      /\ f.tracks_sessions = h.tracks_sessions
  BY ForgetFields
<1>1. CASE a.newSession = "absent"
  <2>1. l = [h EXCEPT !.tracks_sessions = Belief(h, a)]
    BY <1>1 DEF Learn, Belief
  <2>2. Belief(h, a) \in {-1, 0, 1}
    BY DEF Belief, Handle
  <2>3. /\ l \in Handle /\ l.scope_count = h.scope_count /\ l.tracks_sessions = Belief(h, a)
        /\ l.dirty = h.dirty /\ l.in_transaction = h.in_transaction
        /\ l.scope_pending = h.scope_pending
    BY <2>1, <2>2 DEF Handle
  <2>4. Absorb(h, a, sent) = [l EXCEPT !.session_id = a.sid]
    BY DEF Absorb
  <2>5. ~Replaces(a, sent)
    BY <1>1 DEF Replaces
  <2> HIDE DEF l
  <2> QED BY <2>3, <2>4, <2>5 DEF Handle, Answer
<1>2. CASE a.newSession # "absent" /\ Replaces(a, sent)
  <2>1. l = [f EXCEPT !.tracks_sessions = 1]
    BY <1>2 DEF Learn, Replaces
  <2>2. Absorb(h, a, sent) = [l EXCEPT !.session_id = a.sid]
    BY DEF Absorb
  <2>3. Belief(h, a) = 1
    BY <1>2 DEF Belief
  <2> HIDE DEF l, f
  <2>4. /\ l \in Handle /\ l.scope_count = h.scope_count /\ l.tracks_sessions = Belief(h, a)
        /\ ~l.dirty /\ ~l.in_transaction /\ l.scope_pending
    BY <1>f, <2>1, <2>3 DEF Handle
  <2> QED BY <1>2, <2>2, <2>4 DEF Handle, Answer
<1>3. CASE a.newSession # "absent" /\ ~Replaces(a, sent)
  <2>1. l = [h EXCEPT !.tracks_sessions = 1]
    BY <1>3 DEF Learn, Replaces
  <2>2. Absorb(h, a, sent) = [l EXCEPT !.session_id = a.sid]
    BY DEF Absorb
  <2>3. Belief(h, a) = 1
    BY <1>3 DEF Belief
  <2>4. /\ l \in Handle /\ l.scope_count = h.scope_count /\ l.tracks_sessions = Belief(h, a)
        /\ l.dirty = h.dirty /\ l.in_transaction = h.in_transaction
        /\ l.scope_pending = h.scope_pending
    BY <2>1, <2>3 DEF Handle
  <2> HIDE DEF l
  <2> QED BY <1>3, <2>2, <2>4 DEF Handle, Answer
<1> QED BY <1>1, <1>2, <1>3

\* An answer that names no session changes nothing.
LEMMA AbsorbsNothing ==
    ASSUME NEW h, NEW a, NEW sent, a.sid = NoSession
    PROVE  Absorb(h, a, sent) = h
BY DEF Absorb

\* What a call makes of the handle by an answer, or by the lack of one.
LEMMA ReceiveHandle ==
    ASSUME Receive
    PROVE  \/ wire.answer.verdict = "gone" /\ at # "probe" /\ H' = Forget(H)
           \/ wire.answer.verdict = "gone" /\ at # "probe" /\ H' = ScopeDone(Forget(H))
           \/ (wire.answer.verdict # "gone" \/ at = "probe") /\ H' = Heard
           \/ wire.answer.verdict # "gone" /\ at \in InScope /\ H' = ScopeDone(Heard)
           \/ wire.answer.verdict = "ok" /\ at \in {"statement", "replay"}
              /\ H' = TrackSession(Heard, job.sql)
<1>1. CASE ScopeItem \/ ScopeWhole
  BY <1>1 DEF ScopeItem, ScopeWhole, ItemDone, ScopeDone, Answered
<1>2. CASE ScopeRestart \/ ScopeLost \/ LossReported \/ SecondRefusal
  BY <1>2 DEF ScopeRestart, ScopeLost, LossReported, SecondRefusal, Return, Answered, InScope
<1>3. CASE LossRepaired
  BY <1>3 DEF LossRepaired, EnterScope, ScopeDone, Answered
<1>4. CASE ScopeFailed \/ StatementFailed
  BY <1>4 DEF ScopeFailed, StatementFailed, Return
<1>5. CASE StatementDone
  BY <1>5 DEF StatementDone, Return, Answered
<1>6. CASE ProbeDone
  BY <1>6 DEF ProbeDone, Return, Answered
<1> QED BY <1>1, <1>2, <1>3, <1>4, <1>5, <1>6 DEF Receive

-----------------------------------------------------------------------------
(* When a session is dropped.                                              *)

LEMMA ExecuteKeepsHandle ==
    ASSUME NEW h \in Handle, NEW j, Execute(h, j)
    PROVE  /\ H'.session_id = h.session_id /\ H'.dirty = h.dirty
           /\ H'.in_transaction = h.in_transaction /\ H'.scope_count = h.scope_count
           /\ H'.tracks_sessions = h.tracks_sessions
<1>1. H' = h \/ H' = ScopeDone(h)
  BY ExecuteCalls
<1> QED BY <1>1, ScopeDoneFields

\* The item of the scope a USE adds to it.
LEMMA NextItem ==
    ASSUME TypeInv, UseObject
    PROVE  LET h == [H EXCEPT !.scope_count = H.scope_count + 1]
           IN  /\ h \in Handle /\ h.session_id = H.session_id /\ h.dirty = H.dirty
               /\ h.in_transaction = H.in_transaction /\ h.scope_pending = H.scope_pending
               /\ h.scope_count = H.scope_count + 1 /\ h.tracks_sessions = H.tracks_sessions
<1> DEFINE n == H.scope_count + 1
<1>1. H \in Handle
  BY DEF TypeInv, TypeOK
<1>2. n \in 0..ScopeSize
  BY <1>1, Bounds DEF UseObject, Handle
<1> HIDE DEF n
<1>3. /\ [H EXCEPT !.scope_count = n] \in Handle
      /\ [H EXCEPT !.scope_count = n].session_id = H.session_id
      /\ [H EXCEPT !.scope_count = n].dirty = H.dirty
      /\ [H EXCEPT !.scope_count = n].in_transaction = H.in_transaction
      /\ [H EXCEPT !.scope_count = n].scope_pending = H.scope_pending
      /\ [H EXCEPT !.scope_count = n].scope_count = n
      /\ [H EXCEPT !.scope_count = n].tracks_sessions = H.tracks_sessions
  BY <1>1, <1>2 DEF Handle
<1> QED BY <1>3 DEF n

\* Between two answers the handle keeps its session, until it is closed.
LEMMA ApplicationKeepsSession ==
    ASSUME TypeInv, NamesInv, Application
    PROVE  \/ H' = NewHandle /\ (H = NewHandle \/ conn' = "closed")
           \/ H'.session_id = H.session_id
<1>0. H \in Handle
  BY DEF TypeInv, TypeOK
<1>1. CASE Connect \/ LetGo \/ Close
  BY <1>1 DEF Connect, LetGo, Close, NamesInv
<1>2. CASE UseObject
  <2> DEFINE n == H.scope_count + 1
             h == [H EXCEPT !.scope_count = n]
  <2>1. h \in Handle /\ h.session_id = H.session_id
    BY <1>2, NextItem
  <2>2. Execute(h, UseJob(n))
    BY <1>2 DEF UseObject
  <2> HIDE DEF h
  <2> QED BY <2>1, <2>2, ExecuteKeepsHandle
<1>3. CASE Opened
  BY <1>0, <1>3 DEF Opened, Handle
<1>4. CASE \E sql \in Statements : Statement(sql)
  BY <1>0, <1>4, ExecuteKeepsHandle DEF Statement
<1>5. CASE StatementOnClosed \/ StillHeld
  BY <1>5 DEF StatementOnClosed, StillHeld
<1>6. CASE CheckLiveness
  <2>1. H' = H \/ Execute(H, PingJob)
    BY <1>6 DEF CheckLiveness
  <2> QED BY <1>0, <2>1, ExecuteKeepsHandle
<1> QED BY <1>1, <1>2, <1>3, <1>4, <1>5, <1>6 DEF Application

LEMMA HeardSession ==
    ASSUME TypeInv, NamesInv, wire.phase = "answered"
    PROVE  /\ Heard \in Handle
           /\ Heard.session_id # H.session_id => ~Live(H.session_id)
<1>1. H \in Handle /\ wire.answer \in Answer /\ (wire.request.sid # NoSession) \in BOOLEAN
  BY DEF TypeInv, TypeOK
<1>2. CASE wire.answer.sid = NoSession
  BY <1>1, <1>2, AbsorbsNothing DEF Heard
<1>3. CASE wire.answer.sid # NoSession
  <2>1. Heard \in Handle /\ Heard.session_id = wire.answer.sid
    BY <1>1, <1>3, AbsorbFields DEF Heard
  <2>2. NamesSame \/ NamesOther
    BY <1>3 DEF NamesInv, AnswerNames, NamesNone, NamesOne
  <2> QED BY <2>1, <2>2 DEF NamesSame, NamesOther
<1> QED BY <1>2, <1>3

\* A session the engine has and the handle goes by is dropped by nothing.
LEMMA ReceiveSession ==
    ASSUME TypeInv, NamesInv, Receive
    PROVE  H'.session_id # H.session_id => ~Live(H.session_id)
<1>0. H \in Handle /\ job.sql \in Sql /\ wire.phase = "answered"
  BY ReceiveShape, JobSql DEF TypeInv, TypeOK
<1>1. Heard \in Handle /\ (Heard.session_id # H.session_id => ~Live(H.session_id))
  BY <1>0, HeardSession
<1>2. CASE wire.answer.verdict = "gone" /\ at # "probe"
  BY <1>0, <1>2 DEF NamesInv, AnswerNames, NamesNone, NamesOne
<1>3. CASE wire.answer.verdict # "gone" \/ at = "probe"
  <2>1. CASE H' = Heard
    BY <1>1, <2>1
  <2>2. CASE H' = ScopeDone(Heard)
    BY <1>1, <2>2, ScopeDoneFields
  <2>3. CASE H' = TrackSession(Heard, job.sql)
    BY <1>0, <1>1, <2>3, TrackFields
  <2>4. CASE wire.answer.verdict = "gone" /\ at = "probe"
    BY <1>0, <2>4 DEF NamesInv, AnswerNames, NamesNone, NamesOne
  <2> QED BY <1>3, <2>1, <2>2, <2>3, <2>4, ReceiveHandle
<1> QED BY <1>2, <1>3

(***************************************************************************)
(* While the handle is kept, neither closed nor let go by a liveness       *)
(* check, no session the engine still has is dropped, whatever engine      *)
(* answers: absorb takes another session's id only where the handle's own  *)
(* is gone, and session_lost forgets only a session that was required and  *)
(* refused (absorb, forget_session).                                       *)
(***************************************************************************)
THEOREM DropsOnlyTheDead == Spec => KeepsALiveSession
<1>1. TypeInv /\ LedgerInv /\ NamesInv /\ [Next]_vars =>
        [conn' # "closed" /\ H'.session_id # H.session_id => ~Live(H.session_id)]_vars
  <2> SUFFICES ASSUME TypeInv, LedgerInv, NamesInv, Next,
                      conn' # "closed", H'.session_id # H.session_id
               PROVE  ~Live(H.session_id)
    OBVIOUS
  <2>1. ~Application
    BY ApplicationKeepsSession
  <2>2. ~Engine /\ ~Post
    BY DEF Engine, Serve, ServeGone, ServeFault, ServeAbandoned, Expiry, EngineRestart,
           EngineOnly, Post, driverVars
  <2>3. ~GiveUp
    BY DEF GiveUp, Unreachable, TimedOut, AnswerLost, Return
  <2> QED BY <2>1, <2>2, <2>3, ReceiveSession DEF Next
<1> QED BY <1>1, TypeInit, TypeStep, LedgerInvariant, NamesInvariant, PTL DEF Spec, KeepsALiveSession

-----------------------------------------------------------------------------
(***************************************************************************)
(* PictureSound is not inductive: it says nothing while an answer is on    *)
(* its way, and nothing of a session the engine has just lost.  What the   *)
(* handle knows must cover the session it names, dead or alive; once the   *)
(* session has answered, what counts is what the driver will make of the   *)
(* answer.  While the factory connects no session holds anything of the    *)
(* application's, since Opened forgets what it marked.                     *)
(***************************************************************************)
Known(x, dirty, transaction) ==
    ~x.unheard => (x.held => dirty) /\ (x.txn = "work" => transaction)

KnownIn(s, h) ==
    s # NoSession => IF conn = "connecting" THEN Known(sessions[s], FALSE, FALSE)
                     ELSE Known(sessions[s], h.dirty, h.in_transaction)

\* The handle once the answer is taken in, with what a statement left.
After == IF wire.answer.verdict = "ok" /\ wire.request.job.kind = "statement"
           THEN TrackSession(Heard, wire.request.job.sql) ELSE Heard

HandleKnows ==
    ~(wire.phase = "answered" /\ wire.answer.sid = H.session_id) => KnownIn(H.session_id, H)

AnswerKnows == wire.phase = "answered" => KnownIn(wire.answer.sid, After)

PictureInv == HandleKnows /\ AnswerKnows

LEMMA PictureInit == Init => PictureInv
<1> SUFFICES ASSUME Init PROVE PictureInv
  OBVIOUS
<1>1. H.session_id = NoSession /\ wire.phase = "quiet"
  BY DEF Init, NewHandle, Quiet
<1> QED BY <1>1 DEF PictureInv, HandleKnows, AnswerKnows, KnownIn

(* What a job leaves of what is known of a session.                        *)

\* Knowing more is no harm.
LEMMA KnowingMore ==
    ASSUME NEW x, NEW d \in BOOLEAN, NEW t \in BOOLEAN, NEW dd \in BOOLEAN, NEW tt \in BOOLEAN,
           Known(x, d, t), d => dd, t => tt
    PROVE  Known(x, dd, tt)
BY DEF Known

\* A session that holds no more, and whose transaction has no more in it.
NoMore(x, y) ==
    /\ y.held = x.held /\ y.unheard = x.unheard
    /\ y.txn = "work" => x.txn = "work"

LEMMA NoMoreIsKnown ==
    ASSUME NEW x, NEW y, NEW d, NEW t, NoMore(x, y), Known(x, d, t)
    PROVE  Known(y, d, t)
BY DEF NoMore, Known

\* Of a transaction nothing but a statement makes "work".
LEMMA OwnOpensBare ==
    ASSUME NEW t, NEW j, j.kind # "statement", AfterTransaction(t, j) = "work"
    PROVE  t = "work"
BY DEF AfterTransaction

\* The driver's own requests leave nothing to know of.
LEMMA OwnTellsNothing ==
    ASSUME NEW x \in Session, NEW j \in Job, j.kind # "statement"
    PROVE  /\ NoMore(x, AfterJob(x, j, "ok", FALSE))
           /\ Unhear(x, j) = x
<1>1. Unhear(x, j) = x
  BY DEF Unhear, Session
<1>2. CASE j.kind = "use"
  <2>1. AfterJob(x, j, "ok", FALSE) = AfterUse(x, j, "ok")
    BY <1>2 DEF AfterJob
  <2>2. /\ AfterUse(x, j, "ok").held = x.held /\ AfterUse(x, j, "ok").unheard = x.unheard
        /\ AfterUse(x, j, "ok").txn = AfterTransaction(x.txn, j)
    BY DEF AfterUse, Session
  <2> QED BY <1>1, <2>1, <2>2, OwnOpensBare DEF NoMore
<1>3. CASE j.kind # "use"
  <2>1. ~j.sql.touches
    BY <1>3 DEF Job, Ping
  <2>2. AfterJob(x, j, "ok", FALSE) = AfterStatement(x, j)
    BY <1>3 DEF AfterJob
  <2>3. /\ AfterStatement(x, j).held = (x.held \/ j.sql.touches)
        /\ AfterStatement(x, j).unheard = x.unheard
        /\ AfterStatement(x, j).txn = AfterTransaction(x.txn, j)
    BY DEF AfterStatement, Session
  <2>4. x.held \in BOOLEAN
    BY DEF Session
  <2> QED BY <1>1, <2>1, <2>2, <2>3, <2>4, OwnOpensBare DEF NoMore
<1> QED BY <1>2, <1>3

LEMMA StatementLeaves ==
    ASSUME NEW x \in Session, NEW j \in Job, j.kind = "statement"
    PROVE  LET y == AfterJob(x, j, "ok", FALSE)
           IN  /\ y.held = (x.held \/ j.sql.touches)
               /\ y.unheard = x.unheard
               /\ y.txn = "work" => IF j.sql.effect = 0 THEN x.txn = "work" ELSE j.sql.effect = 1
<1>0. j.sql.effect \in {-1, 0, 1}
  BY JobSql DEF Sql
<1>1. AfterJob(x, j, "ok", FALSE) = AfterStatement(x, j)
  BY DEF AfterJob
<1>2. /\ AfterStatement(x, j).held = (x.held \/ j.sql.touches)
      /\ AfterStatement(x, j).unheard = x.unheard
      /\ AfterStatement(x, j).txn = AfterTransaction(x.txn, j)
  BY DEF AfterStatement, Session
<1>3. AfterTransaction(x.txn, j) = "work" =>
        IF j.sql.effect = 0 THEN x.txn = "work" ELSE j.sql.effect = 1
  BY <1>0 DEF AfterTransaction
<1> QED BY <1>1, <1>2, <1>3

LEMMA RefusalLeaves ==
    ASSUME NEW x \in Session, NEW j \in Job, NEW part \in BOOLEAN
    PROVE  LET y == AfterJob(x, j, "refused", part) IN NoMore(x, y) \/ y.unheard
<1>1. CASE j.kind = "use"
  <2>1. AfterJob(x, j, "refused", part) = AfterUse(x, j, "refused")
    BY <1>1 DEF AfterJob
  <2>2. /\ AfterUse(x, j, "refused").held = x.held
        /\ AfterUse(x, j, "refused").unheard = x.unheard
        /\ AfterUse(x, j, "refused").txn = x.txn
    BY DEF AfterUse, Session
  <2> QED BY <2>1, <2>2 DEF NoMore
<1>2. CASE j.kind # "use" /\ part
  BY <1>2 DEF AfterJob, AfterPart, Session
<1>3. CASE j.kind # "use" /\ ~part
  BY <1>3 DEF AfterJob, NoMore
<1> QED BY <1>1, <1>2, <1>3

LEMMA UnhearLeaves ==
    ASSUME NEW x \in Session, NEW j \in Job, j.kind = "statement"
    PROVE  /\ Unhear(x, j).held = x.held /\ Unhear(x, j).txn = x.txn
           /\ Unhear(x, j).unheard = (x.unheard \/ j.sql.touches \/ j.sql.effect # 0)
BY JobSql DEF Unhear, LeavesSomething, Session, Sql

\* A request that ran behind the driver's back takes nothing it knows.
LEMMA LateIsKnown ==
    ASSUME NEW x \in Session, NEW j \in Job, NEW d \in BOOLEAN, NEW t \in BOOLEAN, Known(x, d, t)
    PROVE  Known(Late(x, j), d, t) /\ Known(Unhear(x, j), d, t)
<1> DEFINE y == AfterJob(x, j, "ok", FALSE)
<1>1. y \in Session
  BY AfterJobType
<1>2. CASE j.kind # "statement"
  <2>1. NoMore(x, y) /\ Unhear(x, j) = x /\ Unhear(y, j) = y
    BY <1>1, <1>2, OwnTellsNothing
  <2>2. Late(x, j) = y
    BY <2>1 DEF Late
  <2> HIDE DEF y
  <2> QED BY <2>1, <2>2, NoMoreIsKnown
<1>3. CASE j.kind = "statement"
  <2>1. /\ y.held = (x.held \/ j.sql.touches) /\ y.unheard = x.unheard
        /\ y.txn = "work" => IF j.sql.effect = 0 THEN x.txn = "work" ELSE j.sql.effect = 1
    BY <1>3, StatementLeaves
  <2>2. /\ Unhear(y, j).held = y.held /\ Unhear(y, j).txn = y.txn
        /\ Unhear(y, j).unheard = (y.unheard \/ j.sql.touches \/ j.sql.effect # 0)
        /\ Unhear(x, j).held = x.held /\ Unhear(x, j).txn = x.txn
        /\ Unhear(x, j).unheard = (x.unheard \/ j.sql.touches \/ j.sql.effect # 0)
    BY <1>1, <1>3, UnhearLeaves
  <2> HIDE DEF y
  <2>3. Late(x, j) = Unhear(y, j)
    BY DEF Late, y
  <2>4. Known(Unhear(x, j), d, t)
    BY <2>2 DEF Known
  <2>5. CASE j.sql.effect = 0
    BY <2>1, <2>2, <2>3, <2>4, <2>5 DEF Known
  <2>6. CASE j.sql.effect # 0
    BY <2>1, <2>2, <2>3, <2>4, <2>6 DEF Known
  <2> QED BY <2>5, <2>6
<1> QED BY <1>2, <1>3

\* So is what ends: nothing is left of it, or what was known of it.
LEMMA EndedIsKnown ==
    ASSUME TypeInv, NEW s \in Sessions, NEW d \in BOOLEAN, NEW t \in BOOLEAN,
           Known(sessions[s], d, t)
    PROVE  Known(Ended(s, H.session_id), d, t)
<1>1. sessions[s] \in Session
  BY DEF TypeInv, TypeOK, EngineTypeOK
<1>2. CASE s = H.session_id
  <2>1. /\ Ended(s, H.session_id).held = sessions[s].held
        /\ Ended(s, H.session_id).txn = sessions[s].txn
        /\ Ended(s, H.session_id).unheard = sessions[s].unheard
    BY <1>1, <1>2 DEF Ended, Session
  <2> QED BY <2>1 DEF Known
<1>3. CASE s # H.session_id
  BY <1>3 DEF Ended, Unborn, Known
<1> QED BY <1>2, <1>3

\* A statement that was answered leaves what the driver will know once it
\* has taken the answer in.
LEMMA RanIsKnown ==
    ASSUME NEW x \in Session, NEW j \in Job, j.kind = "statement",
           NEW d \in BOOLEAN, NEW t \in BOOLEAN, Known(x, d, t)
    PROVE  Known(AfterJob(x, j, "ok", FALSE), d \/ j.sql.touches,
                 IF j.sql.effect = 0 THEN t ELSE j.sql.effect = 1)
<1> DEFINE y == AfterJob(x, j, "ok", FALSE)
<1>1. /\ y.held = (x.held \/ j.sql.touches) /\ y.unheard = x.unheard
      /\ y.txn = "work" => IF j.sql.effect = 0 THEN x.txn = "work" ELSE j.sql.effect = 1
  BY StatementLeaves
<1> HIDE DEF y
<1>2. CASE j.sql.effect = 0
  BY <1>1, <1>2 DEF Known, y
<1>3. CASE j.sql.effect # 0
  BY <1>1, <1>3 DEF Known, y
<1> QED BY <1>2, <1>3

(* A step of the engine.                                                   *)

\* The session a request ran in, before it did, as the driver will know it.
LEMMA BeforeIsKnown ==
    ASSUME TypeInv, NamesInv, PictureInv, Serve,
           NEW s \in Places(wire.request, Free),
           NEW a \in Answer, a.sid = s, a.newSession = NewSession(wire.request, s)
    PROVE  LET h == Absorb(H, a, wire.request.sid # NoSession)
               x == Before(wire.request, s)
           IN  /\ h \in Handle /\ x \in Session
               /\ conn = "connecting" => Known(x, FALSE, FALSE)
               /\ conn # "connecting" => Known(x, h.dirty, h.in_transaction)
<1> DEFINE sent == wire.request.sid # NoSession
           h == Absorb(H, a, sent)
           x == Before(wire.request, s)
<1>1. H \in Handle /\ sent \in BOOLEAN /\ sessions \in [Sessions -> Session]
  BY DEF TypeInv, TypeOK, EngineTypeOK
<1>2. s \in Sessions /\ s # NoSession
  BY Bounds DEF Places, Live, Free
<1>3. /\ h \in Handle
      /\ ~Replaces(a, sent) => h.dirty = H.dirty /\ h.in_transaction = H.in_transaction
  BY <1>1, <1>2, AbsorbFields
<1>4. wire.phase = "sent" /\ wire.request.sid = H.session_id
  BY DEF Serve, NamesInv, RequestNames
<1>5. CASE s = H.session_id
  <2>1. x = sessions[s] /\ ~Replaces(a, sent)
    BY <1>4, <1>5 DEF Before, Replaces, NewSession
  <2>2. KnownIn(s, H)
    BY <1>4, <1>5 DEF PictureInv, HandleKnows
  <2> HIDE DEF h, x
  <2> QED BY <1>1, <1>2, <1>3, <2>1, <2>2 DEF KnownIn, h, x
<1>6. CASE s # H.session_id
  <2>1. x = [Unborn EXCEPT !.live = TRUE]
    BY <1>4, <1>6 DEF Before
  <2>2. x \in Session /\ ~x.held /\ x.txn # "work"
    BY <2>1, UnbornType DEF Unborn
  <2>3. \A d, t : Known(x, d, t)
    BY <2>2 DEF Known
  <2> QED BY <1>3, <2>2, <2>3
<1> QED BY <1>5, <1>6

LEMMA PictureServe ==
    TypeInv /\ LedgerInv /\ NamesInv /\ PictureInv /\ Serve => PictureInv'
<1> SUFFICES ASSUME TypeInv, LedgerInv, NamesInv, PictureInv, Serve
             PROVE  PictureInv'
  OBVIOUS
<1>0. UNCHANGED <<conn, H, at, job>> /\ wire.phase = "sent"
  BY DEF Serve, driverVars
<1>1. PICK s \in Places(wire.request, Free), v \in {"ok", "refused"}, part \in BOOLEAN :
        /\ part => v = "refused"
        /\ Ran(wire.request, s, v, part)
        /\ wire'.phase = "answered" /\ wire'.request = wire.request
        /\ wire'.answer.verdict = v /\ wire'.answer.sid = s
        /\ wire'.answer.newSession = NewSession(wire.request, s)
  BY ServeShape
<1> DEFINE j == wire.request.job
           a == wire'.answer
           h == Absorb(H, a, wire.request.sid # NoSession)
           x == Before(wire.request, s)
           y == AfterJob(x, j, v, part)
<1>2. wire.request \in Request /\ j \in Job /\ wire.request.sid \in InUse /\ j = JobHere
  BY <1>0 DEF TypeInv, TypeOK, Request, InUse, LedgerInv, RightRequest
<1>3. /\ s \in Sessions /\ sessions'[s] = y
      /\ \A r \in Sessions : r # s => sessions'[r] = sessions[r]
  BY <1>1, <1>2, ServeTouches
<1>4. a \in Answer
  <2>1. TypeInv'
    BY <1>0, TypeStep DEF Next, Engine
  <2> QED BY <2>1 DEF TypeInv, TypeOK
<1>5. /\ h \in Handle /\ x \in Session
      /\ conn = "connecting" => Known(x, FALSE, FALSE)
      /\ conn # "connecting" => Known(x, h.dirty, h.in_transaction)
  BY <1>1, <1>4, BeforeIsKnown
<1>7. HandleKnows'
  BY <1>0, <1>1, <1>3, Bounds DEF PictureInv, HandleKnows, KnownIn, TypeInv, TypeOK, Handle, SessionIds
<1>8. /\ Heard' = h
      /\ After' = IF v = "ok" /\ j.kind = "statement" THEN TrackSession(h, j.sql) ELSE h
  BY <1>0, <1>1 DEF Heard, After
<1>9. \/ conn = "connecting" /\ Known(y, FALSE, FALSE)
      \/ conn # "connecting" /\ Known(y, After'.dirty, After'.in_transaction)
  <2>h. h.dirty \in BOOLEAN /\ h.in_transaction \in BOOLEAN /\ j.sql \in Sql
    BY <1>2, <1>5, JobSql DEF Handle
  <2>1. CASE v = "refused"
    <3>1. NoMore(x, y) \/ y.unheard
      BY <1>2, <1>5, <2>1, RefusalLeaves
    <3>2. After' = h
      BY <1>8, <2>1
    <3>3. y.unheard => \A d, k : Known(y, d, k)
      BY DEF Known
    <3> HIDE DEF y, x, h, j, a
    <3> QED BY <1>5, <3>1, <3>2, <3>3, NoMoreIsKnown
  <2>2. CASE v = "ok" /\ j.kind # "statement"
    <3>1. NoMore(x, y)
      <4>1. y = AfterJob(x, j, "ok", FALSE)
        BY <1>1, <2>2
      <4> HIDE DEF y
      <4> QED BY <1>2, <1>5, <2>2, <4>1, OwnTellsNothing
    <3>2. After' = h
      BY <1>8, <2>2
    <3> HIDE DEF y, x, h, j, a
    <3> QED BY <1>5, <3>1, <3>2, NoMoreIsKnown
  <2>3. CASE v = "ok" /\ j.kind = "statement"
    <3>1. conn = "open"
      BY <1>0, <1>2, <2>3 DEF JobHere, UseJob, NamesInv, WhoCalls, LedgerInv, IdleIsQuiet
    <3>2. y = AfterJob(x, j, "ok", FALSE) /\ After' = TrackSession(h, j.sql)
      BY <1>1, <1>8, <2>3
    <3> HIDE DEF x, h, j, a
    <3>3. Known(x, h.dirty, h.in_transaction)
      BY <1>5, <3>1
    <3>4. Known(AfterJob(x, j, "ok", FALSE), h.dirty \/ j.sql.touches,
                IF j.sql.effect = 0 THEN h.in_transaction ELSE j.sql.effect = 1)
      BY <1>2, <1>5, <2>3, <2>h, <3>3, RanIsKnown
    <3>5. /\ TrackSession(h, j.sql).dirty = (h.dirty \/ j.sql.touches)
          /\ TrackSession(h, j.sql).in_transaction =
               IF j.sql.effect = 0 THEN h.in_transaction ELSE j.sql.effect = 1
      BY <1>5, <2>h, TrackFields
    <3> HIDE DEF y
    <3> QED BY <3>1, <3>2, <3>4, <3>5
  <2> QED BY <1>1, <2>1, <2>2, <2>3
<1>10. AnswerKnows'
  <2> HIDE DEF y
  <2> QED BY <1>0, <1>1, <1>3, <1>9 DEF AnswerKnows, KnownIn
<1> QED BY <1>7, <1>10 DEF PictureInv

LEMMA PictureEngine ==
    TypeInv /\ LedgerInv /\ NamesInv /\ PictureInv /\ Engine => PictureInv'
<1> SUFFICES ASSUME TypeInv, LedgerInv, NamesInv, PictureInv, Engine
             PROVE  PictureInv'
  OBVIOUS
<1>0. UNCHANGED <<conn, H, at, job>>
  BY DEF Engine, Serve, ServeGone, ServeFault, ServeAbandoned, Expiry, EngineRestart,
         EngineOnly, driverVars
<1>1. CASE Serve
  BY <1>1, PictureServe
<1>2. CASE ServeGone \/ ServeFault
  <2>1. sessions' = sessions /\ wire.phase = "sent"
    BY <1>2 DEF ServeGone, ServeFault
  <2>2. wire'.answer.sid = NoSession
    BY <1>2, NoneShape
  <2> QED BY <1>0, <2>1, <2>2
          DEF PictureInv, HandleKnows, AnswerKnows, KnownIn
<1>3. CASE ServeAbandoned \/ Expiry \/ EngineRestart
  <2>1. wire' = wire
    BY <1>3 DEF ServeAbandoned, Expiry, EngineRestart, EngineOnly
  <2>2. ASSUME NEW s \in Names, s # NoSession, NEW d \in BOOLEAN, NEW t \in BOOLEAN,
               Known(sessions[s], d, t)
        PROVE  Known(sessions'[s], d, t)
    <3>1. s \in Sessions /\ sessions[s] \in Session
      BY <2>2 DEF Names, TypeInv, TypeOK, EngineTypeOK, Handle, Answer, SessionIds
    <3>2. \/ sessions'[s] = sessions[s]
          \/ \E q \in abandoned : sessions'[s] = Late(sessions[s], q.job)
          \/ sessions'[s] = Ended(s, H.session_id)
      BY <1>3, <3>1, EngineTouches
    <3>3. ASSUME NEW q \in abandoned PROVE Known(Late(sessions[s], q.job), d, t)
      <4>1. q.job \in Job
        BY DEF TypeInv, TypeOK, Request
      <4> QED BY <2>2, <3>1, <4>1, LateIsKnown
    <3>4. Known(Ended(s, H.session_id), d, t)
      BY <2>2, <3>1, EndedIsKnown
    <3> QED BY <2>2, <3>2, <3>3, <3>4
  <2>3. H \in Handle /\ Heard \in Handle /\ wire.request.job.sql \in Sql
    BY HeardType, JobSql DEF TypeInv, TypeOK, Request
  <2>4. After \in Handle
    BY <2>3, TrackFields DEF After
  <2>5. After' = After
    BY <1>0, <2>1 DEF After, Heard
  <2>6. HandleKnows'
    <3>1. CASE wire.phase = "answered" /\ wire.answer.sid = H.session_id
      BY <1>0, <2>1, <3>1 DEF HandleKnows
    <3>2. CASE ~(wire.phase = "answered" /\ wire.answer.sid = H.session_id)
      <4>1. KnownIn(H.session_id, H) /\ H.session_id \in Names
        BY <3>2 DEF PictureInv, HandleKnows, Names
      <4>2. H.dirty \in BOOLEAN /\ H.in_transaction \in BOOLEAN
        BY <2>3 DEF Handle
      <4>3. H.session_id # NoSession =>
              IF conn = "connecting" THEN Known(sessions'[H.session_id], FALSE, FALSE)
              ELSE Known(sessions'[H.session_id], H.dirty, H.in_transaction)
        BY <2>2, <4>1, <4>2 DEF KnownIn
      <4> QED BY <1>0, <4>3 DEF HandleKnows, KnownIn
    <3> QED BY <3>1, <3>2
  <2>7. AnswerKnows'
    <3>1. CASE wire.phase # "answered"
      BY <2>1, <3>1 DEF AnswerKnows
    <3>2. CASE wire.phase = "answered"
      <4>1. KnownIn(wire.answer.sid, After) /\ wire.answer.sid \in Names
        BY <3>2 DEF PictureInv, AnswerKnows, Names
      <4>2. After.dirty \in BOOLEAN /\ After.in_transaction \in BOOLEAN
        BY <2>4 DEF Handle
      <4>3. wire.answer.sid # NoSession =>
              IF conn = "connecting" THEN Known(sessions'[wire.answer.sid], FALSE, FALSE)
              ELSE Known(sessions'[wire.answer.sid], After.dirty, After.in_transaction)
        BY <2>2, <4>1, <4>2 DEF KnownIn
      <4> QED BY <1>0, <2>1, <2>5, <4>3 DEF AnswerKnows, KnownIn
    <3> QED BY <3>1, <3>2
  <2> QED BY <2>6, <2>7 DEF PictureInv
<1> QED BY <1>1, <1>2, <1>3 DEF Engine

(* The steps of the driver.                                                *)

\* A handle that knows as much of the same session.
LEMMA PictureKept ==
    ASSUME TypeInv, PictureInv, wire.phase = "quiet", wire'.phase # "answered", sessions' = sessions,
           H'.session_id = H.session_id, H'.dirty = H.dirty, H'.in_transaction = H.in_transaction,
           conn' = "connecting" => conn = "connecting"
    PROVE  PictureInv'
<1>1. H.dirty \in BOOLEAN /\ H.in_transaction \in BOOLEAN
  BY DEF TypeInv, TypeOK, Handle
<1>2. KnownIn(H.session_id, H)
  BY DEF PictureInv, HandleKnows
<1>3. HandleKnows'
  BY <1>1, <1>2, KnowingMore DEF HandleKnows, KnownIn
<1> QED BY <1>3 DEF PictureInv, AnswerKnows

LEMMA PictureNone ==
    ASSUME PictureInv, wire'.phase # "answered", H'.session_id = NoSession
    PROVE  PictureInv'
BY DEF PictureInv, HandleKnows, AnswerKnows, KnownIn

LEMMA PictureApplication ==
    TypeInv /\ LedgerInv /\ NamesInv /\ PictureInv /\ Application => PictureInv'
<1> SUFFICES ASSUME TypeInv, LedgerInv, NamesInv, PictureInv, Application PROVE PictureInv'
  OBVIOUS
<1>0. H \in Handle /\ NewHandle.session_id = NoSession
  BY DEF TypeInv, TypeOK, NewHandle
<1>1. wire.phase = "quiet" /\ wire' = wire
  BY DEF Application, Connect, UseObject, Opened, Statement, StatementOnClosed, CheckLiveness,
         LetGo, StillHeld, Close, Idle, LedgerInv, IdleIsQuiet
<1>4. CASE Connect \/ LetGo \/ Close
  BY <1>0, <1>1, <1>4, PictureNone DEF Connect, LetGo, Close
<1>5. CASE UseObject
  <2> DEFINE n == H.scope_count + 1
             h == [H EXCEPT !.scope_count = n]
  <2>1. /\ h \in Handle /\ h.session_id = H.session_id /\ h.dirty = H.dirty
        /\ h.in_transaction = H.in_transaction
    BY <1>5, NextItem
  <2>2. Execute(h, UseJob(n)) /\ conn' = conn /\ sessions' = sessions
    BY <1>5 DEF UseObject, Idle
  <2> HIDE DEF h, n
  <2>4. /\ H'.session_id = H.session_id /\ H'.dirty = H.dirty
        /\ H'.in_transaction = H.in_transaction
    BY <2>1, <2>2, ExecuteKeepsHandle
  <2> QED BY <1>1, <2>2, <2>4, PictureKept
<1>6. CASE Opened
  <2>1. /\ H'.session_id = H.session_id /\ ~H'.dirty /\ ~H'.in_transaction
        /\ conn = "connecting" /\ conn' = "open" /\ sessions' = sessions
    BY <1>0, <1>6 DEF Opened, Idle, Handle
  <2>2. H'.dirty = FALSE /\ H'.in_transaction = FALSE
    BY <1>0, <1>6 DEF Opened, Handle
  <2>3. H.session_id # NoSession => Known(sessions[H.session_id], FALSE, FALSE)
    BY <1>1, <2>1 DEF PictureInv, HandleKnows, KnownIn
  <2>4. HandleKnows'
    BY <1>1, <2>1, <2>2, <2>3 DEF HandleKnows, KnownIn
  <2> QED BY <1>1, <2>4 DEF PictureInv, AnswerKnows
<1>7. ASSUME NEW sql \in Statements, Statement(sql) PROVE PictureInv'
  <2>1. /\ Execute(H, StatementJob(calls + 1, sql)) /\ conn' = conn /\ sessions' = sessions
    BY <1>7 DEF Statement, Idle
  <2>3. /\ H'.session_id = H.session_id /\ H'.dirty = H.dirty
        /\ H'.in_transaction = H.in_transaction
    BY <1>0, <2>1, ExecuteKeepsHandle
  <2> QED BY <1>1, <2>1, <2>3, PictureKept
<1>8. CASE StatementOnClosed \/ StillHeld
  BY <1>1, <1>8, PictureKept DEF StatementOnClosed, StillHeld, Idle
<1>9. CASE CheckLiveness
  <2>0. sessions' = sessions /\ (conn' = "connecting" => conn = "connecting")
    BY <1>9 DEF CheckLiveness, Idle
  <2>1. CASE UNCHANGED <<H, at, job>>
    BY <1>1, <2>0, <2>1, PictureKept
  <2>2. CASE Execute(H, PingJob)
    <3>2. /\ H'.session_id = H.session_id /\ H'.dirty = H.dirty
          /\ H'.in_transaction = H.in_transaction
      BY <1>0, <2>2, ExecuteKeepsHandle
    <3> QED BY <1>1, <2>0, <3>2, PictureKept
  <2>3. CASE at' = "probe" /\ job' = PingJob /\ H' = H
    BY <1>1, <2>0, <2>3, PictureKept
  <2> QED BY <1>9, <2>1, <2>2, <2>3 DEF CheckLiveness
<1> QED BY <1>4, <1>5, <1>6, <1>7, <1>8, <1>9 DEF Application

LEMMA PicturePost == TypeInv /\ PictureInv /\ Post => PictureInv'
<1> SUFFICES ASSUME TypeInv, PictureInv, Post PROVE PictureInv'
  OBVIOUS
<1>1. UNCHANGED <<conn, H, at, job, sessions>> /\ wire.phase = "quiet"
  BY DEF Post, driverVars, Waiting
<1>2. wire'.phase = "sent"
  BY DEF Post
<1> QED BY <1>1, <1>2, PictureKept

\* An answer that got lost: its session is as well known as the last one.
LEMMA PictureGiveUp ==
    TypeInv /\ LedgerInv /\ NamesInv /\ PictureInv /\ GiveUp => PictureInv'
<1> SUFFICES ASSUME TypeInv, LedgerInv, NamesInv, PictureInv, GiveUp PROVE PictureInv'
  OBVIOUS
<1>1. /\ at # "idle" /\ wire' = Quiet /\ H' = H /\ at' = "idle" /\ job' = NoJob
      /\ conn' = conn \/ conn' # "connecting"
  BY DEF GiveUp, Unreachable, TimedOut, AnswerLost, LedgerInv, IdleIsQuiet, Return, Verdict
<1>2. wire'.phase = "quiet"
  BY <1>1, QuietPhase
<1> DEFINE s == H.session_id
           j == wire.request.job
<1>h. H \in Handle /\ H.dirty \in BOOLEAN /\ H.in_transaction \in BOOLEAN
  BY DEF TypeInv, TypeOK, Handle
<1>3. ASSUME s # NoSession,
             conn = "connecting" => Known(sessions'[s], FALSE, FALSE),
             conn # "connecting" => Known(sessions'[s], H.dirty, H.in_transaction)
      PROVE  PictureInv'
  <2>1. Known(sessions'[s], H.dirty, H.in_transaction)
    BY <1>3, <1>h, KnowingMore
  <2>2. HandleKnows'
    BY <1>1, <1>3, <2>1 DEF HandleKnows, KnownIn
  <2> QED BY <1>2, <2>2 DEF PictureInv, AnswerKnows
<1>4. CASE s = NoSession
  BY <1>1, <1>2, <1>4, PictureNone
<1>5. CASE s # NoSession /\ ~(wire.phase = "answered" /\ wire.answer.sid = s)
  <2>1. sessions'[s] = sessions[s]
    <3>1. s \in Sessions /\ sessions \in [Sessions -> Session]
      BY <1>h, <1>5 DEF Handle, SessionIds, TypeInv, TypeOK, EngineTypeOK
    <3> QED BY <1>5, <3>1 DEF GiveUp, Unreachable, TimedOut, AnswerLost
  <2>2. KnownIn(s, H)
    BY <1>5 DEF PictureInv, HandleKnows
  <2> QED BY <1>3, <1>5, <2>1, <2>2 DEF KnownIn
<1>6. CASE s # NoSession /\ wire.phase = "answered" /\ wire.answer.sid = s
  <2>0. s \in Sessions /\ sessions[s] \in Session /\ j \in Job /\ j = JobHere /\ j.sql \in Sql
    BY <1>h, <1>6, JobSql DEF Handle, SessionIds, TypeInv, TypeOK, EngineTypeOK, Request,
                      LedgerInv, RightRequest
  <2>1. sessions'[s] = Unhear(sessions[s], j)
    BY <1>6, <2>0 DEF GiveUp, Unreachable, TimedOut, AnswerLost, TypeInv, TypeOK, EngineTypeOK
  <2>2. KnownIn(s, After)
    BY <1>6 DEF PictureInv, AnswerKnows
  <2>3. Heard.dirty = H.dirty /\ Heard.in_transaction = H.in_transaction
    <3>1. wire.answer \in Answer /\ (wire.request.sid # NoSession) \in BOOLEAN
      BY DEF TypeInv, TypeOK
    <3>2. wire.answer.newSession # "yes"
      BY <1>6 DEF NamesInv, AnswerNames, NamesNone, NamesOne, NamesSame, NamesOther
    <3> QED BY <1>h, <1>6, <3>1, <3>2, AbsorbFields DEF Heard, Replaces
  <2>4. CASE j.kind # "statement"
    <3>1. Unhear(sessions[s], j) = sessions[s] /\ After = Heard
      BY <2>0, <2>4, OwnTellsNothing DEF After
    <3> QED BY <1>3, <1>6, <2>1, <2>2, <2>3, <3>1 DEF KnownIn
  <2>5. CASE j.kind = "statement" /\ LeavesSomething(j.sql)
    <3>1. Unhear(sessions[s], j).unheard
      BY <2>0, <2>5, UnhearLeaves DEF LeavesSomething
    <3>2. \A d, t : Known(sessions'[s], d, t)
      BY <2>1, <3>1 DEF Known
    <3> QED BY <1>3, <1>6, <3>2
  <2>6. CASE j.kind = "statement" /\ ~LeavesSomething(j.sql)
    <3>1. ~j.sql.touches /\ j.sql.effect = 0
      BY <2>6 DEF LeavesSomething
    <3>2. conn # "connecting"
      BY <1>1, <2>0, <2>6 DEF JobHere, UseJob, NamesInv, WhoCalls
    <3>3. After = Heard \/ After = TrackSession(Heard, j.sql)
      BY DEF After
    <3>4. Heard \in Handle
      BY HeardType
    <3>5. /\ TrackSession(Heard, j.sql).dirty = (Heard.dirty \/ j.sql.touches)
          /\ TrackSession(Heard, j.sql).in_transaction =
               IF j.sql.effect = 0 THEN Heard.in_transaction ELSE j.sql.effect = 1
      BY <2>0, <3>4, TrackFields
    <3>6. (After.dirty => H.dirty) /\ (After.in_transaction => H.in_transaction)
          /\ After.dirty \in BOOLEAN /\ After.in_transaction \in BOOLEAN
      <4>1. CASE After = Heard
        BY <2>3, <3>4, <4>1 DEF Handle
      <4>2. CASE After = TrackSession(Heard, j.sql)
        <5>1. After \in Handle
          BY <2>0, <3>4, <4>2, TrackFields
        <5> QED BY <2>3, <3>1, <3>5, <4>2, <5>1 DEF Handle
      <4> QED BY <3>3, <4>1, <4>2
    <3>7. Known(sessions[s], After.dirty, After.in_transaction)
      BY <1>6, <2>2, <3>2 DEF KnownIn
    <3>8. Known(sessions[s], H.dirty, H.in_transaction)
      BY <1>h, <3>6, <3>7, KnowingMore
    <3> QED BY <1>h, <1>3, <1>6, <2>0, <2>1, <3>2, <3>8, LateIsKnown
  <2> QED BY <2>4, <2>5, <2>6
<1> QED BY <1>4, <1>5, <1>6

\* What the driver makes of an answer is what it was said to know by then.
LEMMA PictureReceive ==
    TypeInv /\ LedgerInv /\ NamesInv /\ PictureInv /\ Receive => PictureInv'
<1> SUFFICES ASSUME TypeInv, LedgerInv, NamesInv, PictureInv, Receive PROVE PictureInv'
  OBVIOUS
<1>1. /\ wire' = Quiet /\ sessions' = sessions /\ wire.phase = "answered" /\ at # "idle"
      /\ conn' = conn \/ conn' # "connecting"
  <2>1. ASSUME NEW h, NEW r, Return(h, r)
        PROVE  conn' = conn \/ conn' # "connecting"
    BY <2>1 DEF Return, Verdict
  <2> QED BY <2>1, ReceiveShape DEF GoOn
<1>2. wire'.phase = "quiet"
  BY <1>1, QuietPhase
<1>h. /\ H \in Handle /\ Heard \in Handle /\ job.sql \in Sql
      /\ wire.answer \in Answer /\ (wire.request.sid # NoSession) \in BOOLEAN
      /\ wire.request.job.sql \in Sql
  BY HeardType, JobSql DEF TypeInv, TypeOK, Request
<1>a. After \in Handle /\ After.session_id = Heard.session_id
  BY <1>h, TrackFields DEF After
<1>3. ASSUME NEW h \in Handle, KnownIn(h.session_id, h), H'.session_id = h.session_id,
             conn # "connecting" =>
               (h.dirty => H'.dirty) /\ (h.in_transaction => H'.in_transaction)
      PROVE  PictureInv'
  <2>0. H' \in Handle
    <3>1. TypeInv'
      BY TypeStep DEF Next
    <3> QED BY <3>1 DEF TypeInv, TypeOK
  <2>1. H'.dirty \in BOOLEAN /\ H'.in_transaction \in BOOLEAN
    BY <2>0 DEF Handle
  <2>2. CASE conn = "connecting"
    <3>1. h.session_id # NoSession => Known(sessions[h.session_id], FALSE, FALSE)
      BY <1>3, <2>2 DEF KnownIn
    <3>2. h.session_id # NoSession => Known(sessions[h.session_id], H'.dirty, H'.in_transaction)
      BY <2>1, <3>1, KnowingMore
    <3>3. HandleKnows'
      BY <1>1, <1>3, <3>1, <3>2 DEF HandleKnows, KnownIn
    <3> QED BY <1>2, <3>3 DEF PictureInv, AnswerKnows
  <2>3. CASE conn # "connecting"
    <3>1. h.session_id # NoSession => Known(sessions[h.session_id], h.dirty, h.in_transaction)
      BY <1>3, <2>3 DEF KnownIn
    <3>2. h.session_id # NoSession => Known(sessions[h.session_id], H'.dirty, H'.in_transaction)
      <4>1. h.dirty \in BOOLEAN /\ h.in_transaction \in BOOLEAN
        BY DEF Handle
      <4> QED BY <1>3, <2>1, <2>3, <3>1, <4>1, KnowingMore
    <3>3. HandleKnows'
      BY <1>1, <1>3, <2>3, <3>2 DEF HandleKnows, KnownIn
    <3> QED BY <1>2, <3>3 DEF PictureInv, AnswerKnows
  <2> QED BY <2>2, <2>3
<1>4. CASE wire.answer.verdict = "gone" /\ at # "probe"
  <2>1. Forget(H).session_id = NoSession /\ ScopeDone(Forget(H)).session_id = NoSession
    BY <1>h, ForgetFields, ScopeDoneFields
  <2>2. H' = Forget(H) \/ H' = ScopeDone(Forget(H))
    BY <1>4, ReceiveHandle
  <2> QED BY <1>1, <1>2, <2>1, <2>2, PictureNone
<1>5. CASE wire.answer.verdict # "gone" \/ at = "probe"
  <2>1. KnownIn(After.session_id, After)
    <3>1. CASE wire.answer.sid = NoSession
      <4>1. After = H /\ Heard = H
        BY <1>1, <1>h, <3>1, AbsorbsNothing, Bounds
           DEF After, Heard, NamesInv, AnswerNames, NamesNone, NamesOne
      <4>2. CASE H.session_id = NoSession
        BY <4>1, <4>2 DEF KnownIn
      <4>3. CASE H.session_id # NoSession
        BY <3>1, <4>1, <4>3 DEF PictureInv, HandleKnows
      <4> QED BY <4>2, <4>3
    <3>2. CASE wire.answer.sid # NoSession
      <4>1. After.session_id = wire.answer.sid
        BY <1>h, <1>a, <3>2, AbsorbFields DEF Heard
      <4> QED BY <1>1, <4>1 DEF PictureInv, AnswerKnows
    <3> QED BY <3>1, <3>2
  <2>2. H' = Heard \/ H' = ScopeDone(Heard) \/ H' = TrackSession(Heard, job.sql)
    <3>1. wire.answer.verdict = "gone" => Heard = H
      BY <1>1, AbsorbsNothing, Bounds DEF Heard, NamesInv, AnswerNames, NamesNone, NamesOne
    <3> QED BY <1>5, ReceiveHandle
  <2>3. H'.session_id = After.session_id
    BY <1>h, <1>a, <2>2, ScopeDoneFields, TrackFields
  <2>4. conn # "connecting" =>
          (After.dirty => H'.dirty) /\ (After.in_transaction => H'.in_transaction)
    <3> SUFFICES ASSUME conn # "connecting"
                 PROVE  (After.dirty => H'.dirty) /\ (After.in_transaction => H'.in_transaction)
      OBVIOUS
    <3>1. job.kind \in {"statement", "ping"} /\ wire.request.job = JobHere
      BY <1>1 DEF NamesInv, WhoCalls, LedgerInv, RightRequest
    <3>2. CASE at \in InScope
      <4>1. After = Heard
        BY <3>1, <3>2 DEF After, JobHere, UseJob
      <4>2. H' = Heard \/ H' = ScopeDone(Heard)
        BY <1>5, <3>2, ReceiveHandle DEF InScope
      <4> QED BY <1>h, <4>1, <4>2, ScopeDoneFields
    <3>3. CASE at = "probe"
      <4>1. After = Heard
        BY <3>1, <3>3 DEF After, JobHere, InScope, NamesInv, WhoCalls
      <4>2. H' = Heard
        BY <1>5, <3>3, ReceiveHandle DEF InScope, Receive, ProbeDone, ScopeItem, ScopeWhole,
           ScopeRestart, ScopeLost, ScopeFailed, StatementDone, StatementFailed, LossReported,
           LossRepaired, SecondRefusal, Answered, Return
      <4> QED BY <4>1, <4>2
    <3>4. CASE at \in {"statement", "replay"}
      <4>1. wire.request.job = job
        BY <3>1, <3>4 DEF JobHere, InScope
      <4>2. H' = IF wire.answer.verdict = "ok" THEN TrackSession(Heard, job.sql) ELSE Heard
        BY <1>5, <3>4 DEF InScope, Receive, ProbeDone, ScopeItem, ScopeWhole,
           ScopeRestart, ScopeLost, ScopeFailed, StatementDone, StatementFailed, LossReported,
           LossRepaired, SecondRefusal, Answered, Return
      <4>3. CASE job.kind = "statement"
        <5>1. After = IF wire.answer.verdict = "ok" THEN TrackSession(Heard, job.sql) ELSE Heard
          BY <4>1, <4>3 DEF After
        <5> QED BY <4>2, <5>1
      <4>4. CASE job.kind = "ping"
        <5>1. After = Heard
          BY <4>1, <4>4 DEF After
        <5>2. job.sql.effect # -1
          BY <4>4 DEF TypeInv, TypeOK, Job, Ping
        <5>3. CASE wire.answer.verdict = "ok"
          <6>1. /\ H'.dirty = (Heard.dirty \/ job.sql.touches)
                /\ H'.in_transaction = IF job.sql.effect = 0 THEN Heard.in_transaction
                                       ELSE job.sql.effect = 1
            BY <1>h, <4>2, <5>3, TrackFields
          <6>2. job.sql.effect \in {0, 1}
            BY <1>h, <5>2 DEF Sql
          <6> QED BY <5>1, <6>1, <6>2
        <5>4. CASE wire.answer.verdict # "ok"
          BY <4>2, <5>1, <5>4
        <5> QED BY <5>3, <5>4
      <4> QED BY <3>1, <4>3, <4>4
    <3> QED BY <1>1, <3>2, <3>3, <3>4 DEF TypeInv, TypeOK, Locations, InScope
  <2> HIDE DEF After
  <2> QED BY <1>3, <1>a, <2>1, <2>3, <2>4
<1> QED BY <1>4, <1>5

LEMMA PictureStep ==
    TypeInv /\ LedgerInv /\ NamesInv /\ PictureInv /\ [Next]_vars => PictureInv'
<1> SUFFICES ASSUME TypeInv, LedgerInv, NamesInv, PictureInv, [Next]_vars
             PROVE  PictureInv'
  OBVIOUS
<1>1. CASE Next
  BY <1>1, PictureApplication, PicturePost, PictureEngine, PictureGiveUp, PictureReceive DEF Next
<1>2. CASE UNCHANGED vars
  <2>1. UNCHANGED <<sessions, conn, H, at, job, wire>>
    BY <1>2 DEF vars
  <2>2. After' = After
    BY <2>1 DEF After, Heard
  <2>3. HandleKnows'
    BY <2>1 DEF PictureInv, HandleKnows, KnownIn
  <2>4. AnswerKnows'
    BY <2>1, <2>2 DEF PictureInv, AnswerKnows, KnownIn
  <2> QED BY <2>3, <2>4 DEF PictureInv
<1> QED BY <1>1, <1>2

LEMMA PictureInvariant == Spec => []PictureInv
<1> QED BY TypeInit, TypeStep, LedgerInvariant, NamesInvariant, PictureInit, PictureStep, PTL DEF Spec

(***************************************************************************)
(* What the driver has on record of its session errs on the safe side:     *)
(* while the engine holds the session and every effect on it was answered, *)
(* its context is known as dirty, and a transaction with a statement of    *)
(* the application in it is known as such (track_session, absorb, the      *)
(* factory's USEs).  In both modes and for every engine: what the driver   *)
(* does not track, the scope's USEs and the bare probe, opens at most a    *)
(* transaction with nothing of the application's in it.                    *)
(***************************************************************************)
THEOREM PictureIsSound == Spec => []PictureSound
<1>1. TypeInv /\ PictureInv => PictureSound
  <2> SUFFICES ASSUME TypeInv, PictureInv, Live(H.session_id),
                      ~sessions[H.session_id].unheard, wire.phase # "answered"
               PROVE  /\ sessions[H.session_id].held => H.dirty
                      /\ sessions[H.session_id].txn = "work" => H.in_transaction
    BY DEF PictureSound
  <2>1. H.session_id # NoSession
    BY Bounds DEF Live
  <2>2. KnownIn(H.session_id, H)
    BY DEF PictureInv, HandleKnows
  <2>3. \/ Known(sessions[H.session_id], FALSE, FALSE)
        \/ Known(sessions[H.session_id], H.dirty, H.in_transaction)
    BY <2>1, <2>2 DEF KnownIn
  <2> QED BY <2>3 DEF Known
<1>2. Spec => []PictureInv
  BY PictureInvariant
<1> QED BY <1>1, <1>2, TypeInit, TypeStep, PTL DEF Spec

(***************************************************************************)
(* A statement is sent once more only after a session that held neither    *)
(* context nor work in a transaction, as far as the driver was ever told   *)
(* (session_lost): what was refused as gone is the handle's own session,   *)
(* and of that one the record is sound, dead as it is.                     *)
(***************************************************************************)
THEOREM OnlyTheCleanIsRepaired == Spec => RepairsOnlyTheClean
<1> DEFINE Clean == \/ sessions[H.session_id].unheard
                    \/ ~(sessions[H.session_id].held \/ sessions[H.session_id].txn = "work")
<1>1. TypeInv /\ LedgerInv /\ NamesInv /\ PictureInv /\ [Next]_vars => [Repairs => Clean]_vars
  <2> SUFFICES ASSUME TypeInv, LedgerInv, NamesInv, PictureInv, Next, Repairs PROVE Clean
    OBVIOUS
  <2>1. at = "statement" /\ at' \in {"rescope", "replay"}
    BY DEF Repairs
  <2>2. ~Application /\ ~Engine /\ ~Post
    BY <2>1 DEF Application, Idle, Connect, UseObject, Opened, Statement, StatementOnClosed,
                CheckLiveness, LetGo, StillHeld, Close, Engine, Serve, ServeGone, ServeFault,
                ServeAbandoned, Expiry, EngineRestart, EngineOnly, Post, driverVars
  <2>3. ASSUME NEW h, NEW r PROVE ~Return(h, r)
    BY <2>1, <2>3 DEF Return
  <2>4. ~GiveUp
    BY <2>3 DEF GiveUp, Unreachable, TimedOut, AnswerLost
  <2>5. LossRepaired
    BY <2>1, <2>2, <2>3, <2>4
       DEF Next, Receive, ScopeItem, ScopeWhole, ScopeRestart, ScopeLost, ScopeFailed, StatementDone,
           StatementFailed, LossReported, SecondRefusal, ProbeDone, Answered, InScope
  <2>6. /\ wire.phase = "answered" /\ wire.answer.verdict = "gone"
        /\ ~H.dirty /\ ~H.in_transaction
    BY <2>5 DEF LossRepaired, Answered, HeldSomething
  <2>7. H.session_id # NoSession /\ wire.answer.sid # H.session_id
    BY <2>6 DEF NamesInv, RequestNames, AnswerNames, NamesNone, NamesOne
  <2>8. KnownIn(H.session_id, H)
    BY <2>7 DEF PictureInv, HandleKnows
  <2>9. \/ Known(sessions[H.session_id], FALSE, FALSE)
        \/ Known(sessions[H.session_id], H.dirty, H.in_transaction)
    BY <2>7, <2>8 DEF KnownIn
  <2> QED BY <2>6, <2>9 DEF Known
<1>2. Spec => []PictureInv
  BY PictureInvariant
<1> QED BY <1>1, <1>2, TypeInit, TypeStep, LedgerInvariant, NamesInvariant, PTL
        DEF Spec, RepairsOnlyTheClean

-----------------------------------------------------------------------------
(***************************************************************************)
(* The scope comes first, for every instance: how much of it the session   *)
(* in use has been given, at every place a call can stand in.              *)
(***************************************************************************)
InUseConn == conn \in {"connecting", "open", "unfit"}

(***************************************************************************)
(* What the session should have been given already: the items before the   *)
(* one apply_scope is at, nothing while the scope is pending, and all of   *)
(* it otherwise, save the item a USE of the factory is just adding.        *)
(***************************************************************************)
Due == IF conn = "connecting" /\ at # "idle" THEN H.scope_count - 1 ELSE H.scope_count

Owed == IF at \in InScope THEN i - 1
        ELSE IF H.scope_pending THEN 0 ELSE Due

(***************************************************************************)
(* A session that can be named and required (that of an engine known to    *)
(* track) was given the first n items; without a session none are due.     *)
(***************************************************************************)
Given(h, n) ==
    /\ h.session_id = NoSession => n = 0
    /\ Live(h.session_id) /\ h.tracks_sessions = 1 => sessions[h.session_id].offered >= n

\* Whether the engine tracks is known as soon as one of its sessions is.
Learned(h) ==
    /\ h.scope_pending => h.tracks_sessions = 1
    /\ tracking /\ Live(h.session_id) => h.tracks_sessions = 1

Walk ==
    /\ at \in InScope => H.scope_pending /\ i \in 1..H.scope_count
    /\ at \in {"statement", "replay"} => ~H.scope_pending

Sizes ==
    /\ conn \in {"open", "unfit"} => H.scope_count = ScopeSize
    /\ job.kind = "use" => job.n = H.scope_count /\ job.n # 0

\* Accepted, or refused where a refusal means going without.
Accepted == wire.answer.verdict = "ok" \/ wire.request.job.n \notin Required

SaysWhatIsKnown ==
    /\ wire.answer.newSession = "absent" => H.tracks_sessions # 1
    /\ wire.answer.newSession = "no" => H.tracks_sessions = 1
    /\ tracking /\ Live(wire.answer.sid) => wire.answer.newSession # "absent"

GivesItsItem ==
    /\ wire.request.job.kind = "use" /\ Accepted
    /\ wire.answer.newSession # "absent" /\ Live(wire.answer.sid)
    /\ H.session_id \in {NoSession, wire.answer.sid}
    => sessions[wire.answer.sid].offered >= wire.request.job.n

AnswerGives ==
    wire.phase = "answered" /\ wire.answer.sid # NoSession => SaysWhatIsKnown /\ GivesItsItem

ScopeInv ==
    InUseConn => Walk /\ Sizes /\ Learned(H) /\ Given(H, Owed) /\ AnswerGives

\* What was proved before of every reachable state.
SessionFacts == TypeInv /\ LedgerInv /\ NamesInv /\ KnownInv

-----------------------------------------------------------------------------

LEMMA ScopeInit == Init => ScopeInv
BY DEF Init, ScopeInv, InUseConn

LEMMA NoSessionIsDead == ~Live(NoSession)
BY EngineAssumption DEF Live

LEMMA OfferedIsNat ==
    ASSUME TypeInv, NEW s \in Sessions
    PROVE  sessions[s] \in Session /\ sessions[s].offered \in Nat /\ sessions[s].offered >= 0
<1>1. sessions[s] \in Session
  BY DEF TypeInv, TypeOK, EngineTypeOK
<1> QED BY <1>1, Bounds DEF Session

\* A session that runs something has been given no less than before.
LEMMA RunsKeepOffered ==
    ASSUME NEW x \in Session, NEW j \in Job, NEW v, NEW part
    PROVE  /\ AfterJob(x, j, v, part) \in Session
           /\ AfterJob(x, j, v, part).offered >= x.offered
           /\ AfterJob(x, j, v, part).live = x.live
           /\ Late(x, j) \in Session
           /\ Late(x, j).offered >= x.offered
           /\ Late(x, j).live = x.live
<1>1. AfterJob(x, j, v, part) \in Session /\ AfterJob(x, j, "ok", FALSE) \in Session
  BY AfterJobType
<1>2. \A y \in Session : Unhear(y, j).offered = y.offered /\ Unhear(y, j).live = y.live
  BY DEF Unhear, Session
<1>3. ASSUME NEW w, NEW p
      PROVE  AfterJob(x, j, w, p).offered >= x.offered /\ AfterJob(x, j, w, p).live = x.live
  <2>0. x.offered \in Nat
    BY Bounds DEF Session
  <2>1. CASE j.kind = "use"
    <3>1. AfterJob(x, j, w, p) = AfterUse(x, j, w)
      BY <2>1 DEF AfterJob
    <3>2. AfterUse(x, j, w).live = x.live /\ AfterUse(x, j, w).offered = Offered(x, j.n, w)
      BY DEF AfterUse, Session
    <3>3. j.n \in Nat
      BY <2>1, JobNumber, Bounds
    <3>4. Offered(x, j.n, w) >= x.offered
      BY <2>0, <3>3 DEF Offered
    <3> QED BY <3>1, <3>2, <3>4
  <2>2. CASE j.kind # "use"
    <3>1. \/ AfterJob(x, j, w, p) = AfterStatement(x, j)
          \/ AfterJob(x, j, w, p) = AfterPart(x, j)
          \/ AfterJob(x, j, w, p) = x
      BY <2>2 DEF AfterJob
    <3>2. /\ AfterStatement(x, j).offered = x.offered /\ AfterStatement(x, j).live = x.live
          /\ AfterPart(x, j).offered = x.offered /\ AfterPart(x, j).live = x.live
      BY DEF AfterStatement, AfterPart, Session
    <3> QED BY <2>0, <3>1, <3>2
  <2> QED BY <2>1, <2>2
<1>4. Late(x, j) \in Session
  BY <1>1, UnhearType DEF Late
<1> QED BY <1>1, <1>2, <1>3, <1>4 DEF Late

\* The next item, accepted, is then given.
LEMMA AcceptedIsGiven ==
    ASSUME NEW x \in Session, NEW j \in Job, j.kind = "use", NEW v, NEW part,
           x.offered >= j.n - 1, v = "ok" \/ j.n \notin Required
    PROVE  AfterJob(x, j, v, part).offered >= j.n
<1>0. x.offered \in Nat /\ j.n \in Nat
  BY Bounds, JobNumber DEF Session
<1>1. AfterJob(x, j, v, part) = AfterUse(x, j, v)
  BY DEF AfterJob
<1>2. AfterUse(x, j, v).offered = Offered(x, j.n, v)
  BY DEF AfterUse, Session
<1>3. Offered(x, j.n, v) >= j.n
  BY <1>0 DEF Offered
<1> QED BY <1>1, <1>2, <1>3

(***************************************************************************)
(* Less is due of the same session; nothing is due of one just forgotten.  *)
(***************************************************************************)
LEMMA GivenLess ==
    ASSUME TypeInv, NEW h, NEW n \in Int, NEW m \in Int, Given(h, n), m <= n,
           m = 0 \/ h.session_id # NoSession
    PROVE  Given(h, m)
<1>1. ASSUME Live(h.session_id) PROVE sessions[h.session_id].offered \in Nat
  <2>1. h.session_id \in Sessions
    BY <1>1 DEF Live
  <2> QED BY <2>1, OfferedIsNat
<1> QED BY <1>1 DEF Given

LEMMA NothingDue ==
    ASSUME TypeInv, NEW h
    PROVE  Given(h, 0)
<1>1. ASSUME Live(h.session_id) PROVE sessions[h.session_id].offered >= 0
  <2>1. h.session_id \in Sessions
    BY <1>1 DEF Live
  <2> QED BY <2>1, OfferedIsNat
<1> QED BY <1>1 DEF Given

\* What only the session and the belief about the engine decide.
LEMMA OwedIsInt ==
    ASSUME TypeInv
    PROVE  /\ H.scope_count \in 0..ScopeSize /\ H.scope_count \in Nat /\ i \in Nat
           /\ Owed \in Int /\ Due \in Int
<1>1. H.scope_count \in 0..ScopeSize /\ i \in 0..ScopeSize
  BY DEF TypeInv, TypeOK, Handle
<1> QED BY <1>1, Bounds DEF Owed, Due

-----------------------------------------------------------------------------
(* What an answer makes of the handle.                                     *)

\* What is due of the session once the answer is absorbed.
Still(n) == IF at \in InScope \/ ~Heard.scope_pending THEN n ELSE 0

Absorbed ==
    /\ Heard \in Handle /\ Heard.scope_count = H.scope_count /\ Learned(Heard)
    /\ H.scope_pending => Heard.scope_pending
    /\ Given(Heard, Still(Owed))
    /\ wire.answer.sid # NoSession =>
         /\ Heard.session_id = wire.answer.sid
         /\ wire.request.job.kind = "use" /\ Accepted => Given(Heard, Still(wire.request.job.n))

LEMMA HeardGives ==
    ASSUME SessionFacts, ScopeInv, InUseConn, wire.phase = "answered"
    PROVE  Absorbed
<1> DEFINE a == wire.answer
           sent == wire.request.sid # NoSession
<1>0. /\ H \in Handle /\ a \in Answer /\ sent \in BOOLEAN
      /\ wire.request.sid = H.session_id
      /\ wire.request.require <=> H.session_id # NoSession /\ H.tracks_sessions = 1
  BY DEF SessionFacts, TypeInv, TypeOK, NamesInv, RequestNames
<1>1. Walk /\ Learned(H) /\ Given(H, Owed) /\ AnswerGives
  BY DEF ScopeInv
<1>2. CASE a.sid = NoSession
  <2>1. Heard = H
    BY <1>2, AbsorbsNothing DEF Heard
  <2>2. Given(H, Still(Owed))
    BY <1>1, NothingDue DEF Still, SessionFacts
  <2> QED BY <1>0, <1>1, <1>2, <2>1, <2>2 DEF Absorbed
<1>3. CASE a.sid # NoSession
  <2>1. /\ Heard \in Handle /\ Heard.session_id = a.sid
        /\ Heard.scope_count = H.scope_count /\ Heard.tracks_sessions = Belief(H, a)
        /\ Replaces(a, sent) => Heard.scope_pending
        /\ ~Replaces(a, sent) => Heard.scope_pending = H.scope_pending
    BY <1>0, <1>3, AbsorbFields DEF Heard
  <2>2. SaysWhatIsKnown /\ GivesItsItem
    BY <1>1, <1>3 DEF AnswerGives
  <2>3. a.newSession \in {"yes", "no", "absent"} /\ H.tracks_sessions \in {-1, 0, 1}
    BY <1>0 DEF Answer, Handle
  <2>4. /\ a.newSession # "absent" => Heard.tracks_sessions = 1
        /\ a.newSession = "absent" => Heard.tracks_sessions # 1
    BY <2>1, <2>2, <2>3 DEF Belief, SaysWhatIsKnown
  <2>5. Learned(Heard)
    <3>1. Heard.scope_pending => Heard.tracks_sessions = 1
      BY <1>1, <2>1, <2>2, <2>3, <2>4 DEF Learned, Replaces, SaysWhatIsKnown
    <3> QED BY <2>1, <2>2, <2>4, <3>1 DEF Learned, SaysWhatIsKnown
  <2>6. H.scope_pending => Heard.scope_pending
    BY <2>1
  <2>7. NamesSame \/ NamesOther
    BY <1>3 DEF SessionFacts, NamesInv, AnswerNames, NamesNone, NamesOne
  <2>8. CASE NamesSame
    <3>1. a.newSession # "absent" => H.tracks_sessions = 1
      BY <2>2, <2>3, <2>8 DEF NamesSame, SaysWhatIsKnown
    <3>2. Given(Heard, Owed)
      BY <1>1, <2>1, <2>4, <2>8, <3>1 DEF Given, NamesSame
    <3>3. wire.request.job.kind = "use" /\ Accepted => Given(Heard, wire.request.job.n)
      BY <1>3, <2>1, <2>2, <2>4, <2>8 DEF Given, NamesSame, GivesItsItem
    <3> QED BY <2>1, <2>5, <2>6, <3>2, <3>3, NothingDue DEF Absorbed, Still, SessionFacts
  <2>9. CASE NamesOther /\ H.session_id # NoSession
    <3>1. H.tracks_sessions # 1
      BY <1>0, <2>9 DEF NamesOther
    <3>2. at \notin InScope
      BY <1>1, <3>1 DEF Walk, Learned
    <3>3. CASE a.newSession = "absent"
      <4>1. \A n : Given(Heard, n)
        BY <1>3, <2>1, <2>4, <3>3 DEF Given
      <4> QED BY <2>1, <2>5, <2>6, <4>1 DEF Absorbed
    <3>4. CASE a.newSession # "absent"
      <4>1. Heard.scope_pending
        BY <1>0, <2>1, <2>3, <2>9, <3>4 DEF NamesOther, Replaces
      <4>2. \A n : Still(n) = 0
        BY <3>2, <4>1 DEF Still
      <4> QED BY <2>1, <2>5, <2>6, <4>2, NothingDue DEF Absorbed, SessionFacts
    <3> QED BY <3>3, <3>4
  <2>10. CASE H.session_id = NoSession
    <3>1. Owed = 0
      BY <1>1, <2>10 DEF Given
    <3>2. Still(Owed) = 0
      BY <3>1 DEF Still
    <3>3. wire.request.job.kind = "use" /\ Accepted => Given(Heard, wire.request.job.n)
      BY <1>3, <2>1, <2>2, <2>4, <2>10 DEF Given, GivesItsItem
    <3> QED BY <2>1, <2>5, <2>6, <3>2, <3>3, NothingDue DEF Absorbed, Still, SessionFacts
  <2> QED BY <2>7, <2>8, <2>9, <2>10
<1> QED BY <1>2, <1>3

\* A session refused as gone was required, by a handle that knows the engine.
LEMMA ForgetGives ==
    ASSUME SessionFacts, wire.phase = "answered", wire.answer.verdict = "gone"
    PROVE  /\ Learned(Forget(H)) /\ Given(Forget(H), 0)
           /\ Learned(ScopeDone(Forget(H))) /\ Given(ScopeDone(Forget(H)), 0)
<1>1. H \in Handle
  BY DEF SessionFacts, TypeInv, TypeOK
<1>2. H.tracks_sessions = 1
  BY DEF SessionFacts, NamesInv, RequestNames, AnswerNames, NamesNone, NamesOne
<1>3. /\ Forget(H) \in Handle /\ Forget(H).session_id = NoSession
      /\ Forget(H).tracks_sessions = 1
  BY <1>1, <1>2, ForgetFields
<1>4. ScopeDone(Forget(H)).session_id = NoSession /\ ScopeDone(Forget(H)).tracks_sessions = 1
  BY <1>3, ScopeDoneFields
<1> QED BY <1>3, <1>4, NoSessionIsDead DEF Learned, Given

\* A call that is over.
AtRest == Learned(H) /\ Given(H, IF H.scope_pending THEN 0 ELSE H.scope_count)

LEMMA ScopeReturn ==
    ASSUME SessionFacts, ScopeInv, at # "idle", NEW h, NEW r, Return(h, r), wire' = Quiet,
           h.scope_count = H.scope_count, InUseConn' => AtRest'
    PROVE  ScopeInv'
<1>1. at' = "idle" /\ job' = NoJob /\ H' = h /\ wire'.phase = "quiet" /\ conn' = Verdict(r)
  BY QuietPhase DEF Return
<1>2. InUseConn /\ (conn = "open" \/ job.kind = "use")
  BY DEF SessionFacts, NamesInv, WhoCalls, InUseConn
<1>3. conn' \in {"open", "unfit"} => conn \in {"open", "unfit"}
  BY <1>1, <1>2 DEF Verdict, SessionFacts, NamesInv, WhoCalls
<1>4. Walk' /\ Sizes' /\ AnswerGives'
  BY <1>1, <1>2, <1>3 DEF ScopeInv, Walk, Sizes, AnswerGives, NoJob, InScope
<1>5. Owed' = IF H'.scope_pending THEN 0 ELSE H'.scope_count
  BY <1>1 DEF Owed, Due, InScope
<1> QED BY <1>4, <1>5 DEF ScopeInv, AtRest

\* A USE of the factory keeps the connection only if it is settled.
LEMMA UseSettled ==
    ASSUME NEW r, job.kind = "use", Verdict(r) \in {"connecting", "open", "unfit"}
    PROVE  r = "ok" \/ (r = "HY000" /\ job.n \notin Required)
BY DEF Verdict

\* A call that goes on.
LEMMA ScopeGoesOn ==
    ASSUME SessionFacts, ScopeInv, at # "idle", GoOn, wire' = Quiet, at' # "idle",
           H'.scope_count = H.scope_count, Walk', Learned(H)', Given(H, Owed)'
    PROVE  ScopeInv'
<1>1. conn' = conn /\ job' = job /\ wire'.phase = "quiet"
  BY QuietPhase DEF GoOn
<1>2. InUseConn
  BY DEF SessionFacts, NamesInv, WhoCalls, InUseConn
<1>3. Sizes' /\ AnswerGives'
  BY <1>1, <1>2 DEF ScopeInv, Sizes, AnswerGives
<1> QED BY <1>3 DEF ScopeInv

\* The job answered is the one of the place the call stands in.
LEMMA RequestHere ==
    ASSUME SessionFacts, wire.phase # "quiet"
    PROVE  /\ at \in InScope => wire.request.job.kind = "use" /\ wire.request.job.n = i
           /\ at \notin InScope => wire.request.job = job
BY DEF SessionFacts, LedgerInv, RightRequest, JobHere, UseJob

LEMMA ScopeReceive == SessionFacts /\ ScopeInv /\ Receive => ScopeInv'
<1> SUFFICES ASSUME SessionFacts, ScopeInv, Receive PROVE ScopeInv'
  OBVIOUS
<1>0. /\ wire' = Quiet /\ wire.phase = "answered" /\ at # "idle" /\ H \in Handle
      /\ UNCHANGED <<sessions, tracking>> /\ InUseConn /\ TypeInv /\ job.sql \in Sql
  BY ReceiveShape, JobSql DEF SessionFacts, NamesInv, WhoCalls, InUseConn, TypeInv, TypeOK
<1>1. /\ Heard \in Handle /\ Heard.scope_count = H.scope_count /\ Learned(Heard)
      /\ H.scope_pending => Heard.scope_pending
      /\ Given(Heard, Still(Owed))
      /\ wire.answer.sid # NoSession =>
           /\ Heard.session_id = wire.answer.sid
           /\ wire.request.job.kind = "use" /\ Accepted => Given(Heard, Still(wire.request.job.n))
  BY <1>0, HeardGives DEF Absorbed
<1>2. Walk /\ Sizes /\ Learned(H) /\ Given(H, Owed)
  BY <1>0 DEF ScopeInv
<1>3. /\ at \in InScope => wire.request.job.kind = "use" /\ wire.request.job.n = i
      /\ at \notin InScope => wire.request.job = job
  BY <1>0, RequestHere
<1>4. H.scope_count \in Nat /\ i \in Nat /\ Owed \in Int /\ Due \in Int
  BY <1>0, OwedIsInt
<1>5. wire.answer.verdict \in {"ok", "refused"} => wire.answer.sid # NoSession
  BY <1>0, Bounds DEF SessionFacts, NamesInv, AnswerNames, NamesNone, NamesOne
<1>6. CASE at \in InScope /\ ItemDone
  <2>1. Heard.scope_pending /\ Given(Heard, i) /\ Heard.session_id # NoSession
    BY <1>1, <1>2, <1>3, <1>5, <1>6 DEF Walk, Still, ItemDone, Accepted
  <2>2. CASE ScopeItem
    <3>1. H' = Heard /\ i' = i + 1 /\ at' = at /\ i < H.scope_count /\ GoOn
      BY <2>2 DEF ScopeItem
    <3>2. Owed' = i
      BY <1>4, <1>6, <3>1 DEF Owed
    <3>3. Given(H, Owed)'
      BY <1>0, <2>1, <3>1, <3>2 DEF Given, Live
    <3>4. Learned(H)'
      BY <1>0, <1>1, <3>1 DEF Learned, Live
    <3>5. Walk'
      BY <1>1, <1>2, <1>4, <1>6, <2>1, <3>1 DEF Walk, InScope
    <3> QED BY <1>0, <1>1, <3>1, <3>3, <3>4, <3>5, ScopeGoesOn
  <2>3. CASE ScopeWhole
    <3>1. /\ H' = ScopeDone(Heard) /\ at' \in {"statement", "replay"} /\ GoOn
          /\ i = H.scope_count
      BY <2>3 DEF ScopeWhole, ScopeDone
    <3>2. /\ H'.session_id = Heard.session_id /\ ~H'.scope_pending
          /\ H'.scope_count = H.scope_count /\ H'.tracks_sessions = Heard.tracks_sessions
      BY <1>1, <3>1, ScopeDoneFields
    <3>3. Owed' \in Int /\ Owed' <= i
      BY <1>4, <3>1, <3>2 DEF Owed, Due, InScope
    <3>4. Given(Heard, Owed')
      <4> DEFINE m == Owed'
      <4>1. m \in Int /\ m <= i
        BY <3>3
      <4> HIDE DEF m
      <4>2. Given(Heard, m)
        BY <1>0, <1>4, <2>1, <4>1, GivenLess
      <4> QED BY <4>2 DEF m
    <3>5. Given(H, Owed)'
      BY <1>0, <3>2, <3>4 DEF Given, Live
    <3>6. Learned(H)'
      BY <1>0, <1>1, <3>2 DEF Learned, Live
    <3>7. Walk'
      BY <3>1, <3>2 DEF Walk, InScope
    <3> QED BY <1>0, <3>1, <3>2, <3>5, <3>6, <3>7, ScopeGoesOn
  <2>4. ~ScopeRestart /\ ~ScopeLost /\ ~ScopeFailed
    BY <1>6 DEF ScopeRestart, ScopeLost, ScopeFailed, ItemDone
  <2>5. ~StatementDone /\ ~StatementFailed /\ ~LossReported /\ ~LossRepaired /\ ~SecondRefusal
        /\ ~ProbeDone
    BY <1>6 DEF StatementDone, StatementFailed, LossReported, LossRepaired, SecondRefusal,
                ProbeDone, Answered, InScope
  <2> QED BY <2>2, <2>3, <2>4, <2>5 DEF Receive
<1>7. CASE ScopeRestart
  <2>1. /\ H' = Forget(H) /\ i' = 1 /\ at' = at /\ GoOn /\ at \in InScope
        /\ wire.answer.verdict = "gone"
    BY <1>7 DEF ScopeRestart, Answered
  <2>2. H'.scope_pending /\ H'.scope_count = H.scope_count
    BY <1>0, <2>1, ForgetFields
  <2>3. Owed' = 0 /\ Walk'
    BY <1>2, <1>4, <2>1, <2>2 DEF Owed, Walk, InScope
  <2>4. Learned(Forget(H)) /\ Given(Forget(H), 0)
    BY <1>0, <2>1, ForgetGives
  <2>5. Learned(H)' /\ Given(H, Owed)'
    BY <1>0, <2>1, <2>3, <2>4 DEF Learned, Given, Live
  <2> QED BY <1>0, <2>1, <2>2, <2>3, <2>5, ScopeGoesOn
<1>8. CASE ScopeLost \/ LossReported \/ SecondRefusal
  <2>1. wire.answer.verdict = "gone" /\ Return(Forget(H), "08003")
    BY <1>8 DEF ScopeLost, LossReported, SecondRefusal
  <2>2. Forget(H).scope_pending /\ Forget(H).scope_count = H.scope_count /\ H' = Forget(H)
    BY <1>0, <2>1, ForgetFields DEF Return
  <2>3. Learned(Forget(H)) /\ Given(Forget(H), 0)
    BY <1>0, <2>1, ForgetGives
  <2>4. AtRest'
    BY <1>0, <2>2, <2>3 DEF AtRest, Learned, Given, Live
  <2> QED BY <1>0, <2>1, <2>2, <2>4, ScopeReturn
<1>9. CASE LossRepaired
  <2>1. wire.answer.verdict = "gone" /\ at = "statement" /\ GoOn
        /\ EnterScope(Forget(H), "rescope", "replay")
    BY <1>9 DEF LossRepaired, Answered
  <2>2. Forget(H) \in Handle /\ Forget(H).scope_pending /\ Forget(H).scope_count = H.scope_count
    BY <1>0, ForgetFields
  <2>3. /\ Learned(Forget(H)) /\ Given(Forget(H), 0)
        /\ Learned(ScopeDone(Forget(H))) /\ Given(ScopeDone(Forget(H)), 0)
    BY <1>0, <2>1, ForgetGives
  <2>4. CASE H.scope_count = 0
    <3>1. H' = ScopeDone(Forget(H)) /\ at' = "replay"
      BY <2>1, <2>2, <2>4 DEF EnterScope, ScopeDone
    <3>2. ~H'.scope_pending /\ H'.scope_count = H.scope_count
      BY <2>2, <3>1, ScopeDoneFields
    <3>3. conn # "connecting" /\ conn' = conn
      BY <1>0, <1>2, <2>1, <2>4 DEF Sizes, SessionFacts, NamesInv, WhoCalls, GoOn
    <3>4. Owed' = 0 /\ Walk'
      BY <2>4, <3>1, <3>2, <3>3 DEF Owed, Due, Walk, InScope
    <3>5. Learned(H)' /\ Given(H, Owed)'
      BY <1>0, <2>3, <3>1, <3>4 DEF Learned, Given, Live
    <3> QED BY <1>0, <2>1, <3>1, <3>2, <3>4, <3>5, ScopeGoesOn
  <2>5. CASE H.scope_count # 0
    <3>1. H' = Forget(H) /\ at' = "rescope" /\ i' = 1
      BY <2>1, <2>2, <2>5 DEF EnterScope
    <3>2. Owed' = 0 /\ Walk'
      BY <1>4, <2>2, <2>5, <3>1 DEF Owed, Walk, InScope
    <3>3. Learned(H)' /\ Given(H, Owed)'
      BY <1>0, <2>3, <3>1, <3>2 DEF Learned, Given, Live
    <3> QED BY <1>0, <2>1, <2>2, <3>1, <3>2, <3>3, ScopeGoesOn
  <2> QED BY <2>4, <2>5
<1>10. CASE ScopeFailed
  <2>1. at \in InScope /\ \E r : Return(Heard, r)
    BY <1>10 DEF ScopeFailed, Answered
  <2>2. Heard.scope_pending /\ H' = Heard
    BY <1>1, <1>2, <2>1 DEF Walk, Return
  <2>3. Given(Heard, 0)
    BY <1>0, NothingDue
  <2>4. AtRest'
    BY <1>0, <1>1, <2>2, <2>3 DEF AtRest, Learned, Given, Live
  <2> QED BY <1>0, <1>1, <2>1, <2>4, ScopeReturn
<1>11. CASE StatementDone \/ StatementFailed \/ ProbeDone
  <2>1. at \notin InScope /\ \E h, r : Return(h, r)
    BY <1>11 DEF StatementDone, StatementFailed, ProbeDone, Answered, InScope
  <2>2. PICK h, r :
          /\ h \in {Heard, TrackSession(Heard, job.sql)} /\ Return(h, r)
          /\ r \in {"ok", "HY000"} /\ at # "probe" => wire.answer.verdict \in {"ok", "refused"}
          /\ r = "ok" /\ at # "probe" => wire.answer.verdict = "ok"
    BY <1>11 DEF StatementDone, StatementFailed, ProbeDone, Answered
  <2>3. /\ h \in Handle /\ h.session_id = Heard.session_id
        /\ h.scope_count = H.scope_count /\ h.scope_pending = Heard.scope_pending
        /\ h.tracks_sessions = Heard.tracks_sessions
    BY <1>0, <1>1, <2>2, TrackFields
  <2>4. H' = h /\ conn' = Verdict(r)
    BY <2>2 DEF Return
  <2>5. ASSUME InUseConn', ~Heard.scope_pending PROVE Given(Heard, H.scope_count)
    <3>1. ~H.scope_pending
      BY <1>1, <2>5
    <3>2. CASE conn = "open"
      <4>1. Owed = H.scope_count
        BY <2>1, <3>1, <3>2 DEF Owed, Due
      <4> QED BY <1>1, <2>5, <4>1 DEF Still
    <3>3. CASE conn # "open"
      <4>1. job.kind = "use" /\ at # "probe"
        BY <1>0, <3>3 DEF SessionFacts, NamesInv, WhoCalls
      <4>2. r = "ok" \/ (r = "HY000" /\ job.n \notin Required)
        BY <2>4, <2>5, <4>1, UseSettled DEF InUseConn
      <4>3. Accepted /\ wire.answer.sid # NoSession
        BY <1>3, <1>5, <2>1, <2>2, <4>1, <4>2 DEF Accepted
      <4>4. wire.request.job.kind = "use" /\ wire.request.job.n = H.scope_count
        BY <1>2, <1>3, <2>1, <4>1 DEF Sizes
      <4> QED BY <1>1, <2>5, <4>3, <4>4 DEF Still
    <3> QED BY <3>2, <3>3
  <2>6. Given(Heard, 0)
    BY <1>0, NothingDue
  <2>7. InUseConn' => AtRest'
    BY <1>0, <1>1, <2>3, <2>4, <2>5, <2>6 DEF AtRest, Learned, Given, Live
  <2> QED BY <1>0, <2>2, <2>3, <2>7, ScopeReturn
<1>12. ScopeItem \/ ScopeWhole => at \in InScope /\ ItemDone
  BY DEF ScopeItem, ScopeWhole, Answered
<1> QED BY <1>6, <1>7, <1>8, <1>9, <1>10, <1>11, <1>12 DEF Receive

-----------------------------------------------------------------------------
(* The other steps.                                                        *)

\* Nothing is taken from a session but by its end, or by a DELETE.
Spared(s) ==
    s \in Sessions /\ Live(s)' => Live(s) /\ sessions'[s].offered >= sessions[s].offered

LEMMA SparedGives ==
    ASSUME TypeInv, TypeInv', NEW n \in Nat, H' = H, Spared(H.session_id), Given(H, n)
    PROVE  Given(H, n)'
<1>1. ASSUME Live(H.session_id)', H.tracks_sessions = 1
      PROVE  sessions'[H.session_id].offered >= n
  <2>1. H.session_id \in Sessions
    BY <1>1 DEF Live
  <2>2. sessions[H.session_id].offered \in Nat
    BY <2>1, OfferedIsNat
  <2>3. sessions'[H.session_id].offered \in Nat
    <3>1. sessions' \in [Sessions -> Session]
      BY DEF TypeInv, TypeOK, EngineTypeOK
    <3>2. sessions'[H.session_id] \in Session
      BY <2>1, <3>1
    <3> QED BY <3>2, Bounds DEF Session
  <2>4. sessions[H.session_id].offered >= n
    BY <1>1, <2>1 DEF Given, Spared
  <2>5. sessions'[H.session_id].offered >= sessions[H.session_id].offered
    BY <1>1, <2>1 DEF Spared
  <2> QED BY <2>2, <2>3, <2>4, <2>5
<1> QED BY <1>1 DEF Given, Live

LEMMA UnhearSpares ==
    ASSUME TypeInv, NEW s \in Sessions, NEW j \in Job,
           sessions'[s] = sessions[s] \/ sessions'[s] = Unhear(sessions[s], j)
    PROVE  Spared(s)
<1>1. sessions[s] \in Session /\ sessions[s].offered \in Nat
  BY OfferedIsNat
<1>2. Unhear(sessions[s], j).offered = sessions[s].offered
      /\ Unhear(sessions[s], j).live = sessions[s].live
  BY <1>1 DEF Unhear, Session
<1> QED BY <1>1, <1>2 DEF Spared, Live

LEMMA EngineSpares ==
    ASSUME TypeInv, ServeAbandoned \/ Expiry \/ EngineRestart, NEW s \in Names
    PROVE  Spared(s) /\ (Live(s)' => tracking' = tracking)
<1>1. CASE s \notin Sessions
  BY <1>1 DEF Spared, Live
<1>2. CASE s \in Sessions
  <2>1. sessions[s] \in Session /\ sessions[s].offered \in Nat
    BY <1>2, OfferedIsNat
  <2>2. \A q \in abandoned : q.job \in Job
    BY DEF TypeInv, TypeOK, Request
  <2>3. \A q \in abandoned : /\ Late(sessions[s], q.job).offered >= sessions[s].offered
                             /\ Late(sessions[s], q.job).live = sessions[s].live
    BY <2>1, <2>2, RunsKeepOffered
  <2>4. ~Ended(s, H.session_id).live
    BY <2>1 DEF Ended, Unborn, Session
  <2>5. \/ sessions'[s] = sessions[s]
        \/ /\ Live(s)
           /\ \/ \E q \in abandoned : sessions'[s] = Late(sessions[s], q.job)
              \/ sessions'[s] = Ended(s, H.session_id)
    BY <1>2, EngineTouches
  <2>6. Spared(s)
    BY <1>2, <2>1, <2>3, <2>4, <2>5 DEF Spared, Live
  <2>7. EngineRestart => ~Live(s)'
    <3>1. EngineRestart => sessions'[s] = IF Live(s) THEN Ended(s, H.session_id) ELSE sessions[s]
      BY <1>2 DEF EngineRestart, Restart
    <3> QED BY <1>2, <2>4, <3>1 DEF Live
  <2>8. ServeAbandoned \/ Expiry => tracking' = tracking
    BY DEF ServeAbandoned, Expiry, Expire
  <2> QED BY <2>6, <2>7, <2>8
<1> QED BY <1>1, <1>2

LEMMA ScopeGiveUp == SessionFacts /\ ScopeInv /\ GiveUp => ScopeInv'
<1> SUFFICES ASSUME SessionFacts, ScopeInv, GiveUp PROVE ScopeInv'
  OBVIOUS
<1>0. TypeInv /\ TypeInv' /\ H \in Handle
  BY TypeGiveUp DEF SessionFacts, TypeInv, TypeOK
<1>1. PICK r \in NoAnswerCodes : Return(H, r)
  BY DEF GiveUp, Unreachable, TimedOut, AnswerLost, NoAnswerCodes
<1>2. at # "idle" /\ wire' = Quiet /\ tracking' = tracking
  BY DEF GiveUp, Unreachable, TimedOut, AnswerLost, SessionFacts, LedgerInv, IdleIsQuiet
<1>3. InUseConn /\ H' = H /\ conn' = Verdict(r)
  BY <1>1, <1>2 DEF SessionFacts, NamesInv, WhoCalls, InUseConn, Return
<1>4. Spared(H.session_id)
  <2>1. CASE H.session_id \notin Sessions
    BY <2>1 DEF Spared
  <2>2. CASE H.session_id \in Sessions
    <3>1. sessions \in [Sessions -> Session] /\ wire.request.job \in Job
      BY <1>0 DEF TypeInv, TypeOK, EngineTypeOK, Request
    <3>2. \/ sessions'[H.session_id] = sessions[H.session_id]
          \/ sessions'[H.session_id] = Unhear(sessions[H.session_id], wire.request.job)
      BY <2>2, <3>1 DEF GiveUp, Unreachable, TimedOut, AnswerLost
    <3> QED BY <1>0, <2>2, <3>1, <3>2, UnhearSpares
  <2> QED BY <2>1, <2>2
<1>5. Walk /\ Learned(H) /\ Given(H, Owed)
  BY <1>3 DEF ScopeInv
<1>6. Learned(H)'
  BY <1>2, <1>3, <1>4, <1>5 DEF Learned, Spared, Live
<1>7. ASSUME InUseConn' PROVE Given(H, IF H.scope_pending THEN 0 ELSE H.scope_count)'
  <2>1. conn = "open"
    <3>1. r # "ok" /\ r # "HY000"
      BY <1>1 DEF NoAnswerCodes
    <3>2. job.kind # "use"
      BY <1>3, <1>7, <3>1, UseSettled DEF InUseConn
    <3> QED BY <1>2, <3>2 DEF SessionFacts, NamesInv, WhoCalls
  <2> DEFINE n == IF H.scope_pending THEN 0 ELSE H.scope_count
  <2>2. n \in Nat
    BY <1>0, OwedIsInt
  <2>3. Given(H, n)
    <3>1. CASE H.scope_pending
      BY <1>0, <3>1, NothingDue
    <3>2. CASE ~H.scope_pending
      <4>1. Owed = n
        BY <1>5, <2>1, <3>2 DEF Owed, Due, Walk
      <4> QED BY <1>5, <4>1
    <3> QED BY <3>1, <3>2
  <2> HIDE DEF n
  <2>4. Given(H, n)'
    <3>1. ASSUME NEW m \in Nat, Given(H, m) PROVE Given(H, m)'
      BY <1>0, <1>3, <1>4, <3>1, SparedGives
    <3>2. Given(H, n) /\ n' = n
      BY <1>3, <2>3 DEF n
    <3>3. \A m \in Nat : Given(H, m) => Given(H, m)'
      BY <3>1
    <3>4. ASSUME NEW m, m = n, n' = n, Given(H, m)' PROVE Given(H, n)'
      BY <3>4 DEF Given
    <3> QED BY <2>2, <3>2, <3>3, <3>4
  <2> QED BY <2>4 DEF n
<1>8. InUseConn' => AtRest'
  BY <1>6, <1>7 DEF AtRest
<1> QED BY <1>0, <1>1, <1>2, <1>8, ScopeReturn

LEMMA ScopePost == SessionFacts /\ ScopeInv /\ Post => ScopeInv'
<1> SUFFICES ASSUME SessionFacts, ScopeInv, Post PROVE ScopeInv'
  OBVIOUS
<1>1. UNCHANGED <<conn, H, at, job, i, sessions, tracking>> /\ wire'.phase = "sent"
  BY DEF Post, driverVars
<1>2. Owed' = Owed
  BY <1>1 DEF Owed, Due
<1>3. InUseConn => Walk' /\ Sizes' /\ Learned(H)' /\ Given(H, Owed)'
  BY <1>1, <1>2 DEF ScopeInv, Walk, Sizes, Learned, Given, Live
<1> QED BY <1>1, <1>3 DEF ScopeInv, InUseConn, AnswerGives

\* A call that starts, with what is due of the session it starts on.
LEMMA ScopeExecute ==
    ASSUME SessionFacts, at = "idle", NEW h \in Handle, NEW j, Execute(h, j),
           conn' = conn, conn \in {"connecting", "open"},
           UNCHANGED <<sessions, tracking, wire>>, Learned(h),
           conn = "open" => h.scope_count = ScopeSize /\ j.kind # "use",
           conn = "connecting" => j.kind = "use" /\ j.n = h.scope_count /\ j.n # 0,
           ~h.scope_pending =>
             Given(h, IF conn = "connecting" THEN h.scope_count - 1 ELSE h.scope_count)
    PROVE  ScopeInv'
<1>0. wire'.phase = "quiet" /\ h.scope_count \in Nat /\ TypeInv
  BY Bounds DEF SessionFacts, LedgerInv, IdleIsQuiet, Handle
<1>1. /\ at' \in {"scope", "statement"} /\ job' = j
      /\ at' = "scope" => h.scope_pending /\ h.scope_count # 0 /\ i' = 1 /\ H' = h
      /\ at' = "statement" => \/ H' = h /\ ~h.scope_pending
                              \/ H' = ScopeDone(h) /\ h.scope_count = 0
  BY ExecuteCalls
<1>2. /\ ScopeDone(h).session_id = h.session_id /\ ~ScopeDone(h).scope_pending
      /\ ScopeDone(h).scope_count = h.scope_count
      /\ ScopeDone(h).tracks_sessions = h.tracks_sessions
  BY ScopeDoneFields
<1>3. /\ H'.session_id = h.session_id /\ H'.scope_count = h.scope_count
      /\ H'.tracks_sessions = h.tracks_sessions /\ (H'.scope_pending => h.scope_pending)
  BY <1>1, <1>2
<1>4. Sizes' /\ Learned(H)' /\ AnswerGives'
  BY <1>0, <1>1, <1>3 DEF Sizes, Learned, AnswerGives, Live
<1>5. Given(h, 0)
  BY <1>0, NothingDue
<1>6. CASE at' = "scope"
  <2>1. Walk' /\ Owed' = 0
    BY <1>0, <1>1, <1>6 DEF Walk, Owed, InScope
  <2>2. Given(H, Owed)'
    BY <1>3, <1>5, <2>1 DEF Given, Live
  <2> QED BY <1>4, <2>1, <2>2 DEF ScopeInv
<1>7. CASE at' = "statement" /\ H' = h /\ ~h.scope_pending
  <2>1. Walk' /\ Owed' = IF conn = "connecting" THEN h.scope_count - 1 ELSE h.scope_count
    BY <1>7 DEF Walk, Owed, Due, InScope
  <2>2. Given(H, Owed)'
    BY <1>7, <2>1 DEF Given, Live
  <2> QED BY <1>4, <2>1, <2>2 DEF ScopeInv
<1>8. CASE at' = "statement" /\ H' = ScopeDone(h) /\ h.scope_count = 0
  <2>1. Walk' /\ Owed' = 0
    BY <1>2, <1>8 DEF Walk, Owed, Due, InScope
  <2>2. Given(H, Owed)'
    BY <1>3, <1>5, <2>1 DEF Given, Live
  <2> QED BY <1>4, <2>1, <2>2 DEF ScopeInv
<1> QED BY <1>1, <1>6, <1>7, <1>8

LEMMA ScopeApplication == SessionFacts /\ ScopeInv /\ Application => ScopeInv'
<1> SUFFICES ASSUME SessionFacts, ScopeInv, Application PROVE ScopeInv'
  OBVIOUS
<1>0. /\ H \in Handle /\ H.scope_count \in Nat /\ TypeInv
      /\ at = "idle" /\ job = NoJob /\ wire.phase = "quiet"
  <2>1. at = "idle"
    BY DEF Application, Connect, UseObject, Opened, Statement, StatementOnClosed, CheckLiveness,
           LetGo, StillHeld, Close, Idle
  <2> QED BY <2>1, OwedIsInt DEF SessionFacts, TypeInv, TypeOK, LedgerInv, IdleIsQuiet
<1>1. InUseConn => /\ Learned(H) /\ Given(H, IF H.scope_pending THEN 0 ELSE H.scope_count)
                   /\ conn \in {"open", "unfit"} => H.scope_count = ScopeSize
  BY <1>0 DEF ScopeInv, Owed, Due, InScope, Sizes
<1>2. CASE Connect
  <2>1. /\ H' = NewHandle /\ at' = "idle" /\ wire' = wire /\ job' = job
        /\ conn' \notin {"open", "unfit"}
    BY <1>0, <1>2 DEF Connect, Idle
  <2>2. /\ NewHandle.session_id = NoSession /\ ~NewHandle.scope_pending
        /\ NewHandle.scope_count = 0
    BY DEF NewHandle
  <2>3. Owed' = 0 /\ ~Live(NoSession)'
    BY <2>1, <2>2, EngineAssumption DEF Owed, Due, InScope, Live
  <2>4. Walk' /\ Sizes' /\ Learned(H)' /\ Given(H, Owed)' /\ AnswerGives'
    BY <1>0, <2>1, <2>2, <2>3 DEF Walk, Sizes, Learned, Given, AnswerGives, InScope, NoJob, Live
  <2> QED BY <2>4 DEF ScopeInv
<1>3. CASE UseObject
  <2> DEFINE n == H.scope_count + 1
             h == [H EXCEPT !.scope_count = n]
  <2>1. /\ h \in Handle /\ h.session_id = H.session_id /\ h.scope_pending = H.scope_pending
        /\ h.scope_count = n /\ h.tracks_sessions = H.tracks_sessions
    BY <1>0, <1>3, NextItem
  <2>2. Execute(h, UseJob(n)) /\ conn' = conn /\ conn = "connecting"
        /\ UNCHANGED <<sessions, tracking, wire>>
    BY <1>3 DEF UseObject, Idle
  <2>3. n - 1 = H.scope_count /\ n # 0 /\ UseJob(n).kind = "use" /\ UseJob(n).n = n
    BY <1>0 DEF UseJob
  <2> DEFINE j == UseJob(n)
  <2>4. j.kind = "use" /\ j.n = n /\ Execute(h, j)
    BY <2>2, <2>3
  <2> HIDE DEF h, j, n
  <2>5. Learned(h) /\ (~h.scope_pending => Given(h, h.scope_count - 1))
    BY <1>1, <2>1, <2>2, <2>3 DEF Learned, Given, InUseConn
  <2> QED BY <1>0, <2>1, <2>2, <2>3, <2>4, <2>5, ScopeExecute
<1>4. CASE Opened
  <2>1. /\ H'.session_id = H.session_id /\ H'.scope_pending = H.scope_pending
        /\ H'.scope_count = H.scope_count /\ H'.tracks_sessions = H.tracks_sessions
    BY <1>0, <1>4 DEF Opened, Handle
  <2>2. /\ conn = "connecting" /\ H.scope_count = ScopeSize
        /\ UNCHANGED <<at, job, wire, sessions, tracking>>
    BY <1>4 DEF Opened, Idle
  <2>3. Owed' = IF H.scope_pending THEN 0 ELSE H.scope_count
    BY <1>0, <2>1, <2>2 DEF Owed, Due, InScope
  <2>4. Walk' /\ Sizes' /\ Learned(H)' /\ Given(H, Owed)' /\ AnswerGives'
    BY <1>0, <1>1, <2>1, <2>2, <2>3
       DEF Walk, Sizes, Learned, Given, AnswerGives, InScope, NoJob, Live, InUseConn
  <2> QED BY <2>4 DEF ScopeInv
<1>5. ASSUME NEW sql \in Statements, Statement(sql) PROVE ScopeInv'
  <2> DEFINE j == StatementJob(calls + 1, sql)
  <2>1. /\ Execute(H, j) /\ conn' = conn /\ conn = "open" /\ j.kind = "statement"
        /\ UNCHANGED <<sessions, tracking, wire>>
    BY <1>5 DEF Statement, StatementJob, Idle
  <2> HIDE DEF j
  <2> QED BY <1>0, <1>1, <2>1, ScopeExecute DEF InUseConn
<1>6. CASE StatementOnClosed \/ LetGo \/ Close
  BY <1>6 DEF StatementOnClosed, LetGo, Close, ScopeInv, InUseConn
<1>7. ASSUME UNCHANGED <<H, at, job, i, wire, sessions, tracking>>,
             conn \in {"open", "unfit"}, conn' \in {"open", "unfit"}
      PROVE  ScopeInv'
  <2>1. Owed' = Owed
    BY <1>7 DEF Owed, Due
  <2>2. Walk' /\ Sizes' /\ Learned(H)' /\ Given(H, Owed)' /\ AnswerGives'
    BY <1>0, <1>7, <2>1 DEF ScopeInv, InUseConn, Walk, Sizes, Learned, Given, AnswerGives, Live
  <2> QED BY <2>2 DEF ScopeInv
<1>8. CASE StillHeld
  BY <1>7, <1>8 DEF StillHeld, Idle
<1>9. CASE CheckLiveness
  <2>1. CASE UNCHANGED <<H, at, job, i>>
    BY <1>7, <1>9, <2>1 DEF CheckLiveness, Idle
  <2>2. CASE Execute(H, PingJob)
    <3>1. conn' = conn /\ conn = "open" /\ PingJob.kind = "ping"
          /\ UNCHANGED <<sessions, tracking, wire>>
      <4>1. at' # "idle"
        BY <1>0, <2>2, ExecuteCalls
      <4> QED BY <1>0, <1>9, <4>1 DEF CheckLiveness, Idle, PingJob
    <3> QED BY <1>0, <1>1, <2>2, <3>1, ScopeExecute DEF InUseConn
  <2>3. CASE at' = "probe" /\ job' = PingJob /\ UNCHANGED <<H, i>>
    <3>1. conn' = conn /\ conn = "open" /\ UNCHANGED <<sessions, tracking, wire>>
      BY <1>0, <1>9, <2>3 DEF CheckLiveness, Idle
    <3>2. Owed' = IF H.scope_pending THEN 0 ELSE H.scope_count
      BY <2>3, <3>1 DEF Owed, Due, InScope
    <3>3. Walk' /\ Sizes' /\ Learned(H)' /\ Given(H, Owed)' /\ AnswerGives'
      BY <1>0, <1>1, <2>3, <3>1, <3>2
         DEF Walk, Sizes, Learned, Given, AnswerGives, InScope, PingJob, Live, InUseConn
    <3> QED BY <3>3 DEF ScopeInv
  <2> QED BY <1>9, <2>1, <2>2, <2>3 DEF CheckLiveness
<1> QED BY <1>2, <1>3, <1>4, <1>5, <1>6, <1>8, <1>9 DEF Application

\* The engine leaves the driver where it is: what is due stays due.
LEMMA ScopeDriverWaits ==
    ASSUME SessionFacts, TypeInv', ScopeInv, InUseConn, UNCHANGED <<conn, H, at, job, i>>,
           Spared(H.session_id), Live(H.session_id)' => tracking' = tracking
    PROVE  Walk' /\ Sizes' /\ Learned(H)' /\ Given(H, Owed)'
<1>0. TypeInv /\ H \in Handle /\ Walk /\ Sizes /\ Learned(H) /\ Given(H, Owed)
  BY DEF SessionFacts, TypeInv, TypeOK, ScopeInv
<1>1. Walk' /\ Sizes' /\ Owed' = Owed
  BY <1>0 DEF Walk, Sizes, Owed, Due
<1>2. Learned(H)'
  BY <1>0 DEF Learned, Spared, Live
<1>3. Owed \in Nat
  <2>1. CASE at \in InScope
    <3>1. i - 1 \in Nat
      BY <1>0, <2>1, OwedIsInt DEF Walk
    <3> QED BY <2>1, <3>1 DEF Owed
  <2>2. CASE at \notin InScope
    <3>1. H.scope_count \in Nat
      BY <1>0, OwedIsInt
    <3>2. conn = "connecting" /\ at # "idle" => H.scope_count # 0
      BY <1>0 DEF Sizes, SessionFacts, NamesInv, WhoCalls
    <3> QED BY <2>2, <3>1, <3>2 DEF Owed, Due
  <2> QED BY <2>1, <2>2
<1>4. ASSUME NEW n \in Nat, Given(H, n) PROVE Given(H, n)'
  BY <1>0, <1>4, SparedGives
<1>5. ASSUME NEW n \in Nat, n = Owed PROVE Given(H, Owed)'
  <2>1. Given(H, n)'
    BY <1>0, <1>4, <1>5
  <2>2. Owed' = n
    BY <1>1, <1>5
  <2> QED BY <2>1, <2>2 DEF Given
<1> QED BY <1>1, <1>2, <1>3, <1>5

LEMMA ScopeServe == SessionFacts /\ ScopeInv /\ Serve => ScopeInv'
<1> SUFFICES ASSUME SessionFacts, ScopeInv, Serve, InUseConn PROVE ScopeInv'
  BY DEF ScopeInv, InUseConn, Serve, driverVars
<1> DEFINE q == wire.request
<1>0. /\ TypeInv /\ TypeInv' /\ q \in Request /\ q.job \in Job /\ H \in Handle
      /\ UNCHANGED <<conn, H, at, job, i, tracking>> /\ wire.phase = "sent"
  BY TypeEngine DEF SessionFacts, Engine, TypeInv, TypeOK, Request, Serve, driverVars
<1>1. PICK s \in Places(wire.request, Free), v \in {"ok", "refused"}, part \in BOOLEAN :
        /\ Ran(wire.request, s, v, part)
        /\ wire'.phase = "answered" /\ wire'.request = wire.request
        /\ wire'.answer.verdict = v /\ wire'.answer.sid = s
        /\ wire'.answer.newSession = NewSession(wire.request, s)
  BY <1>0, ServeShape
<1>2. /\ s \in Sessions
      /\ sessions'[s] = AfterJob(Before(q, s), q.job, v, part)
      /\ \A r \in Sessions : r # s => sessions'[r] = sessions[r]
      /\ s = q.sid => Live(q.sid)
      /\ s # q.sid => ~Live(q.sid) /\ ~q.require /\ s \in Free
  BY <1>0, <1>1, ServeTouches DEF InUse
<1>3. /\ q.sid = H.session_id
      /\ q.require <=> H.session_id # NoSession /\ H.tracks_sessions = 1
  BY <1>0 DEF SessionFacts, NamesInv, RequestNames
<1>4. Before(q, s) \in Session
  <2>1. sessions[s] \in Session
    BY <1>0, <1>2, OfferedIsNat
  <2> QED BY <2>1, UnbornType DEF Before
<1>5. /\ sessions'[s] \in Session /\ sessions'[s].live = Before(q, s).live
      /\ sessions'[s].offered >= Before(q, s).offered
  BY <1>0, <1>2, <1>4, RunsKeepOffered
<1>6. Spared(H.session_id)
  <2>1. CASE s = H.session_id
    BY <1>2, <1>3, <1>5, <2>1 DEF Spared, Before
  <2>2. CASE s # H.session_id /\ H.session_id \in Sessions
    <3>1. sessions'[H.session_id] = sessions[H.session_id]
      BY <1>2, <2>2
    <3>2. sessions[H.session_id].offered \in Nat
      BY <1>0, <2>2, OfferedIsNat
    <3> QED BY <1>0, <2>2, <3>1, <3>2 DEF Spared, Live
  <2>3. CASE H.session_id \notin Sessions
    BY <2>3 DEF Spared
  <2> QED BY <2>1, <2>2, <2>3
<1>7. Walk' /\ Sizes' /\ Learned(H)' /\ Given(H, Owed)'
  BY <1>0, <1>6, ScopeDriverWaits
<1>8. SaysWhatIsKnown'
  <2>1. Learned(H) /\ (H.tracks_sessions = 1 => tracking)
    BY DEF ScopeInv, SessionFacts, KnownInv
  <2> QED BY <1>0, <1>1, <1>2, <1>3, <2>1 DEF SaysWhatIsKnown, NewSession, Learned
<1>9. GivesItsItem'
  <2> SUFFICES ASSUME q.job.kind = "use", v = "ok" \/ q.job.n \notin Required,
                      NewSession(q, s) # "absent", H.session_id \in {NoSession, s}
               PROVE  sessions'[s].offered >= q.job.n
    BY <1>0, <1>1 DEF GivesItsItem, Accepted
  <2>1. Walk /\ Sizes /\ Learned(H) /\ Given(H, Owed)
    BY DEF ScopeInv
  <2>2. q.job.n - 1 = Owed
    <3>1. /\ at \in InScope => q.job.n = i
          /\ at \notin InScope => q.job = job
      BY <1>0, RequestHere
    <3>2. CASE at \in InScope
      BY <3>1, <3>2 DEF Owed
    <3>3. CASE at \notin InScope
      <4>1. conn = "connecting" /\ at \in {"statement", "replay"}
        BY <1>0, <3>1, <3>3 DEF SessionFacts, NamesInv, WhoCalls, LedgerInv, IdleIsQuiet, NoJob,
           TypeInv, TypeOK, Locations, InScope
      <4>2. ~H.scope_pending /\ job.n = H.scope_count
        BY <2>1, <3>1, <3>3, <4>1 DEF Walk, Sizes
      <4> QED BY <3>1, <3>3, <4>1, <4>2 DEF Owed, Due
    <3> QED BY <3>2, <3>3
  <2>3. Before(q, s).offered >= q.job.n - 1
    <3>1. CASE s = H.session_id
      <4>1. tracking /\ Live(H.session_id)
        BY <1>2, <1>3, <3>1 DEF NewSession
      <4>2. sessions[s].offered >= Owed
        BY <2>1, <3>1, <4>1 DEF Learned, Given
      <4> QED BY <1>3, <2>2, <3>1, <4>2 DEF Before
    <3>2. CASE s # H.session_id
      <4>1. H.session_id = NoSession /\ Owed = 0
        BY <2>1, <3>2 DEF Given
      <4>2. Before(q, s).offered = 0
        BY <1>3, <3>2 DEF Before, Unborn
      <4> QED BY <2>2, <4>1, <4>2
    <3> QED BY <3>1, <3>2
  <2> QED BY <1>0, <1>2, <1>4, <2>3, AcceptedIsGiven
<1> QED BY <1>7, <1>8, <1>9 DEF ScopeInv, AnswerGives

LEMMA ScopeEngine == SessionFacts /\ ScopeInv /\ Engine => ScopeInv'
<1> SUFFICES ASSUME SessionFacts, ScopeInv, Engine, InUseConn PROVE ScopeInv'
  BY DEF ScopeInv, InUseConn, Engine, Serve, ServeGone, ServeFault, ServeAbandoned, Expiry,
         EngineRestart, EngineOnly, driverVars
<1>0. TypeInv /\ TypeInv' /\ UNCHANGED <<conn, H, at, job, i>>
  BY TypeEngine DEF SessionFacts, Engine, Serve, ServeGone, ServeFault, ServeAbandoned, Expiry,
         EngineRestart, EngineOnly, driverVars
<1>1. CASE Serve
  BY <1>1, ScopeServe
<1>2. CASE ServeGone \/ ServeFault
  <2>1. sessions' = sessions /\ tracking' = tracking
    BY <1>2 DEF ServeGone, ServeFault
  <2>2. Spared(H.session_id)
    <3>1. H.session_id \in Sessions => sessions[H.session_id].offered \in Nat
      BY <1>0, OfferedIsNat
    <3> QED BY <1>0, <2>1, <3>1 DEF Spared, Live
  <2>3. Walk' /\ Sizes' /\ Learned(H)' /\ Given(H, Owed)'
    BY <1>0, <2>1, <2>2, ScopeDriverWaits
  <2>4. wire'.answer.sid = NoSession
    BY <1>0, <1>2, NoneShape
  <2> QED BY <2>3, <2>4 DEF ScopeInv, AnswerGives
<1>3. CASE ServeAbandoned \/ Expiry \/ EngineRestart
  <2>1. wire' = wire
    BY <1>3 DEF ServeAbandoned, Expiry, EngineRestart, EngineOnly
  <2>2. \A s \in Names : Spared(s) /\ (Live(s)' => tracking' = tracking)
    BY <1>0, <1>3, EngineSpares
  <2>3. Walk' /\ Sizes' /\ Learned(H)' /\ Given(H, Owed)'
    BY <1>0, <2>2, ScopeDriverWaits DEF Names
  <2>4. ASSUME wire.phase = "answered", wire.answer.sid # NoSession
        PROVE  SaysWhatIsKnown' /\ GivesItsItem'
    <3> DEFINE s == wire.answer.sid
    <3>1. SaysWhatIsKnown /\ GivesItsItem
      BY <2>4 DEF ScopeInv, AnswerGives
    <3>2. s \in Sessions /\ Spared(s) /\ (Live(s)' => tracking' = tracking)
      BY <1>0, <2>1, <2>2, <2>4 DEF Names, TypeInv, TypeOK, Answer, SessionIds, Spared, Live
    <3>3. SaysWhatIsKnown'
      BY <1>0, <2>1, <3>1, <3>2 DEF SaysWhatIsKnown, Spared, Live
    <3>4. GivesItsItem'
      <4>1. sessions[s].offered \in Nat /\ wire.request.job.n \in Nat
        BY <1>0, <3>2, OfferedIsNat, Bounds DEF TypeInv, TypeOK, Request, Job
      <4>2. sessions' \in [Sessions -> Session]
        BY <1>0 DEF TypeInv, TypeOK, EngineTypeOK
      <4>3. sessions'[s].offered \in Nat
        <5>1. sessions'[s] \in Session
          BY <3>2, <4>2
        <5> QED BY <5>1, Bounds DEF Session
      <4> QED BY <1>0, <2>1, <3>1, <3>2, <4>1, <4>3 DEF GivesItsItem, Accepted, Spared, Live
    <3> QED BY <3>3, <3>4
  <2> QED BY <2>1, <2>3, <2>4 DEF ScopeInv, AnswerGives
<1> QED BY <1>1, <1>2, <1>3 DEF Engine

LEMMA ScopeStep == SessionFacts /\ ScopeInv /\ [Next]_vars => ScopeInv'
<1> SUFFICES ASSUME SessionFacts, ScopeInv, [Next]_vars PROVE ScopeInv'
  OBVIOUS
<1>1. CASE Next
  BY <1>1, ScopeApplication, ScopePost, ScopeEngine, ScopeGiveUp, ScopeReceive DEF Next
<1>2. CASE UNCHANGED vars
  BY <1>2 DEF vars, ScopeInv, InUseConn, Walk, Sizes, Learned, Given, Owed, Due, AnswerGives,
              SaysWhatIsKnown, GivesItsItem, Accepted, Live
<1> QED BY <1>1, <1>2

LEMMA ScopeInvariant == Spec => []ScopeInv
<1>1. SessionFacts <=> TypeInv /\ LedgerInv /\ NamesInv /\ KnownInv
  BY DEF SessionFacts
<1> QED BY <1>1, TypeInit, TypeStep, LedgerInit, LedgerStep, NamesInit, NamesStep,
           KnownInit, KnownStep, ScopeInit, ScopeStep, PTL DEF Spec

(***************************************************************************)
(* Every statement that runs does so on the whole scope, for every data    *)
(* source and every engine, through sessions lost between two items of the *)
(* scope, engines upgraded by a restart and answers that never came; the   *)
(* one exception are the sessions an engine replaces without being asked   *)
(* not to (apply_scope, and scope_pending in absorb and forget_session).   *)
(***************************************************************************)
THEOREM ScopeComesFirst == Spec => ScopeFirst
<1>1. SessionFacts /\ ScopeInv /\ [Next]_vars =>
        [/\ Runs /\ wire.request.job.kind = "statement"
         /\ wire.request.sid # NoSession => wire.request.require
         => sessions'[wire'.answer.sid].offered = ScopeSize]_vars
  <2> SUFFICES ASSUME SessionFacts, ScopeInv, Next, Runs, wire.request.job.kind = "statement",
                      wire.request.sid # NoSession => wire.request.require
               PROVE  sessions'[wire'.answer.sid].offered = ScopeSize
    OBVIOUS
  <2> DEFINE q == wire.request
  <2>0. /\ TypeInv /\ q \in Request /\ q.job \in Job /\ wire.phase = "sent"
        /\ wire'.phase = "answered" /\ wire'.answer.verdict = "ok"
    BY DEF SessionFacts, TypeInv, TypeOK, Request, Runs
  <2>1. Serve
    <3>1. ~Receive /\ ~GiveUp
      BY <2>0, ReceiveShape, QuietPhase DEF GiveUp, Unreachable, TimedOut, AnswerLost
    <3>2. ~Post
      BY <2>0 DEF Post, Waiting
    <3>3. ~Application
      <4>1. Application => at = "idle"
        BY DEF Application, Connect, UseObject, Opened, Statement, StatementOnClosed,
               CheckLiveness, LetGo, StillHeld, Close, Idle
      <4> QED BY <2>0, <4>1 DEF SessionFacts, LedgerInv, IdleIsQuiet
    <3>4. ~ServeGone /\ ~ServeFault
      BY <2>0, NoneShape
    <3>5. ~ServeAbandoned /\ ~Expiry /\ ~EngineRestart
      BY <2>0 DEF ServeAbandoned, Expiry, EngineRestart, EngineOnly
    <3> QED BY <3>1, <3>2, <3>3, <3>4, <3>5 DEF Next, Engine
  <2>2. PICK s \in Places(wire.request, Free), v \in {"ok", "refused"}, part \in BOOLEAN :
          /\ Ran(wire.request, s, v, part) /\ wire'.answer.sid = s
    BY <2>0, <2>1, ServeShape
  <2>3. /\ s \in Sessions
        /\ sessions'[s] = AfterJob(Before(q, s), q.job, v, part)
        /\ s = q.sid => Live(q.sid)
        /\ s # q.sid => ~q.require
    BY <2>0, <2>2, ServeTouches DEF InUse
  <2>4. /\ q.sid = H.session_id /\ q.job = JobHere
        /\ q.require <=> H.session_id # NoSession /\ H.tracks_sessions = 1
    BY <2>0 DEF SessionFacts, NamesInv, RequestNames, LedgerInv, RightRequest
  <2>5. at \notin InScope /\ job.kind = "statement" /\ at # "idle"
    BY <2>0, <2>4 DEF JobHere, UseJob, SessionFacts, LedgerInv, IdleIsQuiet
  <2>6. conn = "open" /\ at \in {"statement", "replay"}
    BY <2>0, <2>5 DEF SessionFacts, NamesInv, WhoCalls, TypeInv, TypeOK, Locations, InScope
  <2>7. Owed = ScopeSize /\ Given(H, Owed)
    BY <2>5, <2>6 DEF ScopeInv, InUseConn, Walk, Sizes, Owed, Due
  <2>8. Before(q, s).offered >= ScopeSize /\ Before(q, s) \in Session
    <3>1. sessions[s] \in Session
      BY <2>0, <2>3, OfferedIsNat
    <3>2. CASE s = q.sid
      <4>1. H.tracks_sessions = 1 /\ Live(H.session_id)
        BY <2>3, <2>4, <3>2, NoSessionIsDead
      <4> QED BY <2>4, <2>7, <3>1, <3>2, <4>1 DEF Given, Before
    <3>3. CASE s # q.sid
      <4>1. H.session_id = NoSession
        BY <2>3, <2>4, <3>3
      <4>2. ScopeSize = 0 /\ Before(q, s).offered = 0
        BY <2>7, <3>3, <4>1 DEF Given, Before, Unborn
      <4> QED BY <3>3, <4>2, UnbornType DEF Before
    <3> QED BY <3>2, <3>3
  <2>9. sessions'[s] \in Session /\ sessions'[s].offered >= Before(q, s).offered
    BY <2>0, <2>3, <2>8, RunsKeepOffered
  <2> QED BY <2>2, <2>8, <2>9, Bounds DEF Session
<1>2. SessionFacts <=> TypeInv /\ LedgerInv /\ NamesInv /\ KnownInv
  BY DEF SessionFacts
<1> QED BY <1>1, <1>2, TypeInit, TypeStep, LedgerInit, LedgerStep, NamesInvariant,
           KnownInit, KnownStep, ScopeInvariant, PTL DEF Spec, ScopeFirst

-----------------------------------------------------------------------------
(***************************************************************************)
(* The scope and the context, against an engine that tracks sessions.      *)
(* While a USE of the scope may yet be sent, the session it will go to     *)
(* (the handle's, or the one an answer on its way names) holds nothing of  *)
(* the application's, and no statement given up on is still to come to it. *)
(***************************************************************************)
MayScope == H.scope_pending \/ conn = "connecting"

OwnOnly(s) ==
    s # NoSession => /\ ~sessions[s].held
                     /\ \A q \in abandoned : q.sid = s => q.job.kind # "statement"

SpareInv ==
    MayScope => OwnOnly(H.session_id) /\ (wire.phase = "answered" => OwnOnly(wire.answer.sid))

SpareFacts == TypeInv /\ LedgerInv /\ NamesInv /\ KeepInv /\ ScopeInv

LEMMA SpareInit == Init => SpareInv
<1> SUFFICES ASSUME Init PROVE SpareInv
  OBVIOUS
<1>1. H.session_id = NoSession /\ wire.phase = "quiet"
  BY DEF Init, NewHandle, Quiet
<1> QED BY <1>1 DEF SpareInv, OwnOnly

LEMMA ScopeIsPending ==
    ASSUME SpareFacts, at \in InScope
    PROVE  H.scope_pending
BY DEF SpareFacts, KeepInv, WhoCalls, ScopeInv, Walk, InUseConn, InScope

\* What is sent while the scope may yet go is not the application's.
LEMMA SendsItsOwn ==
    ASSUME SpareFacts, MayScope, wire.phase # "quiet"
    PROVE  wire.request.job.kind # "statement"
<1>1. at # "idle" /\ wire.request.job = JobHere
  BY DEF SpareFacts, LedgerInv, IdleIsQuiet, RightRequest
<1>2. CASE at \in InScope
  BY <1>1, <1>2 DEF JobHere, UseJob
<1>3. CASE at = "probe"
  BY <1>1, <1>3 DEF JobHere, InScope, SpareFacts, KeepInv, WhoCalls
<1>4. CASE at \in {"statement", "replay"}
  <2>1. conn = "connecting"
    BY <1>4 DEF MayScope, SpareFacts, KeepInv, OwesNothing
  <2> QED BY <1>1, <1>4, <2>1 DEF JobHere, InScope, SpareFacts, KeepInv, WhoCalls
<1> QED BY <1>1, <1>2, <1>3, <1>4 DEF SpareFacts, TypeInv, TypeOK, Locations, InScope

\* Neither a request that ran late nor the end of a session adds context.
LEMMA EngineSparesContext ==
    ASSUME TypeInv, ServeAbandoned \/ Expiry \/ EngineRestart,
           NEW s \in Names, OwnOnly(s)
    PROVE  OwnOnly(s)'
<1> SUFFICES ASSUME s # NoSession
             PROVE  /\ ~sessions'[s].held
                    /\ \A q \in abandoned' : q.sid = s => q.job.kind # "statement"
  BY DEF OwnOnly
<1>0. s \in Sessions /\ sessions[s] \in Session
  BY DEF Names, TypeInv, TypeOK, EngineTypeOK, Handle, Answer, SessionIds
<1>1. abandoned' \subseteq abandoned
  BY DEF ServeAbandoned, Expiry, EngineRestart, EngineOnly
<1>2. \/ sessions'[s] = sessions[s]
      \/ \E q \in abandoned : q.sid = s /\ sessions'[s] = Late(sessions[s], q.job)
      \/ sessions'[s] = Ended(s, H.session_id)
  BY <1>0, LateTouches, EndTouches
<1>3. ASSUME NEW q \in abandoned, q.sid = s, sessions'[s] = Late(sessions[s], q.job)
      PROVE  ~sessions'[s].held
  <2> DEFINE y == AfterJob(sessions[s], q.job, "ok", FALSE)
  <2>1. q.job \in Job /\ q.job.kind # "statement"
    BY <1>3 DEF OwnOnly, TypeInv, TypeOK, Request
  <2>2. y \in Session /\ NoMore(sessions[s], y)
    BY <1>0, <2>1, AfterJobType, OwnTellsNothing
  <2>3. Unhear(y, q.job) = y
    BY <2>1, <2>2, OwnTellsNothing
  <2>4. sessions'[s] = y
    BY <1>3, <2>3 DEF Late
  <2> HIDE DEF y
  <2> QED BY <2>2, <2>4 DEF NoMore, OwnOnly
<1>4. ~Ended(s, H.session_id).held
  BY <1>0 DEF Ended, Unborn, OwnOnly, Session
<1> QED BY <1>1, <1>2, <1>3, <1>4 DEF OwnOnly

LEMMA SpareServe == SpareFacts /\ SpareInv /\ Serve => SpareInv'
<1> SUFFICES ASSUME SpareFacts, SpareInv, Serve, MayScope'
             PROVE  OwnOnly(H.session_id)' /\ OwnOnly(wire.answer.sid)'
  BY DEF SpareInv
<1>0. UNCHANGED <<conn, H, abandoned>> /\ wire.phase = "sent" /\ MayScope /\ TypeInv
  BY DEF Serve, driverVars, MayScope, SpareFacts
<1>1. PICK s \in Places(wire.request, Free), v \in {"ok", "refused"}, part \in BOOLEAN :
        /\ part => v = "refused"
        /\ Ran(wire.request, s, v, part)
        /\ wire'.phase = "answered" /\ wire'.request = wire.request
        /\ wire'.answer.verdict = v /\ wire'.answer.sid = s
        /\ wire'.answer.newSession = NewSession(wire.request, s)
  BY <1>0, ServeShape
<1> DEFINE j == wire.request.job
           x == Before(wire.request, s)
           y == AfterJob(x, j, v, part)
<1>2. /\ wire.request \in Request /\ j \in Job /\ wire.request.sid \in InUse
      /\ j.kind # "statement" /\ wire.request.sid = H.session_id
  BY <1>0, SendsItsOwn DEF TypeInv, TypeOK, Request, InUse, SpareFacts, NamesInv, RequestNames
<1>3. /\ s \in Sessions /\ sessions'[s] = y
      /\ \A r \in Sessions : r # s => sessions'[r] = sessions[r]
      /\ s # wire.request.sid => s \in Free
  BY <1>0, <1>1, <1>2, ServeTouches
<1>4. OwnOnly(H.session_id)
  BY <1>0 DEF SpareInv
<1>5. x \in Session /\ ~x.held
  <2>1. CASE s = wire.request.sid
    <3>1. s # NoSession
      BY <1>3, Bounds
    <3> QED BY <1>0, <1>2, <1>3, <1>4, <2>1, <3>1 DEF Before, OwnOnly, TypeInv, TypeOK, EngineTypeOK
  <2>2. CASE s # wire.request.sid
    BY <2>2, UnbornType DEF Before, Unborn
  <2> QED BY <2>1, <2>2
<1>6. \A q \in abandoned : q.sid = s => q.job.kind # "statement"
  <2>1. CASE s = wire.request.sid
    <3>1. s # NoSession
      BY <1>3, Bounds
    <3> QED BY <1>2, <1>4, <2>1, <3>1 DEF OwnOnly
  <2>2. CASE s # wire.request.sid
    BY <1>3, <2>2 DEF Free, InUse
  <2> QED BY <2>1, <2>2
<1>7. ~y.held
  <2>1. CASE v = "ok"
    <3>1. y = AfterJob(x, j, "ok", FALSE)
      BY <1>1, <2>1
    <3> HIDE DEF y
    <3> QED BY <1>2, <1>5, <3>1, OwnTellsNothing DEF NoMore
  <2>2. CASE v = "refused"
    <3>1. NoMore(x, y) \/ y.unheard
      BY <1>2, <1>5, <2>2, RefusalLeaves
    <3>2. CASE part
      <4>1. CASE j.kind = "use"
        BY <1>5, <2>2, <4>1 DEF AfterJob, AfterUse, Session
      <4>2. CASE j.kind # "use"
        <5>1. ~j.sql.touches
          BY <1>2, <4>2 DEF Job, Ping
        <5>2. y = AfterPart(x, j)
          BY <2>2, <3>2, <4>2 DEF AfterJob
        <5>3. AfterPart(x, j).held = (x.held \/ j.sql.touches)
          BY <1>5 DEF AfterPart, Session
        <5> QED BY <1>5, <5>1, <5>2, <5>3
      <4> QED BY <4>1, <4>2
    <3>3. CASE ~part
      BY <1>5, <2>2, <3>3 DEF AfterJob, AfterUse, Session
    <3> QED BY <1>1, <3>2, <3>3
  <2> QED BY <1>1, <2>1, <2>2
<1> HIDE DEF y
<1>8. OwnOnly(wire.answer.sid)'
  BY <1>0, <1>1, <1>3, <1>6, <1>7 DEF OwnOnly
<1>9. OwnOnly(H.session_id)'
  <2>1. CASE H.session_id = s
    BY <1>0, <1>3, <1>6, <1>7, <2>1 DEF OwnOnly
  <2>2. CASE H.session_id # s
    <3>1. H.session_id # NoSession => H.session_id \in Sessions
      BY <1>0 DEF TypeInv, TypeOK, Handle, SessionIds
    <3> QED BY <1>0, <1>3, <1>4, <2>2, <3>1 DEF OwnOnly
  <2> QED BY <2>1, <2>2
<1> QED BY <1>8, <1>9

LEMMA SpareEngine == SpareFacts /\ SpareInv /\ Engine => SpareInv'
<1> SUFFICES ASSUME SpareFacts, SpareInv, Engine PROVE SpareInv'
  OBVIOUS
<1>0. UNCHANGED <<conn, H>> /\ TypeInv
  BY DEF Engine, Serve, ServeGone, ServeFault, ServeAbandoned, Expiry, EngineRestart,
         EngineOnly, driverVars, SpareFacts
<1>1. CASE Serve
  BY <1>1, SpareServe
<1>2. CASE ServeGone \/ ServeFault
  <2>1. sessions' = sessions /\ abandoned' = abandoned
    BY <1>2 DEF ServeGone, ServeFault
  <2>2. wire'.answer.sid = NoSession
    BY <1>0, <1>2, NoneShape
  <2> QED BY <1>0, <2>1, <2>2 DEF SpareInv, OwnOnly, MayScope
<1>3. CASE ServeAbandoned \/ Expiry \/ EngineRestart
  <2>1. wire' = wire
    BY <1>3 DEF ServeAbandoned, Expiry, EngineRestart, EngineOnly
  <2>2. \A s \in Names : OwnOnly(s) => OwnOnly(s)'
    BY <1>0, <1>3, EngineSparesContext
  <2>3. H.session_id \in Names /\ wire.answer.sid \in Names
    BY DEF Names
  <2>4. OwnOnly(H.session_id) => OwnOnly(H.session_id)'
    BY <1>0, <2>2, <2>3 DEF OwnOnly
  <2>5. OwnOnly(wire.answer.sid) => OwnOnly(wire.answer.sid)'
    BY <2>1, <2>2, <2>3 DEF OwnOnly
  <2> QED BY <1>0, <2>1, <2>4, <2>5 DEF SpareInv, MayScope
<1> QED BY <1>1, <1>2, <1>3 DEF Engine

\* The same session, of which nothing more is asked and nothing is new.
LEMMA SpareKept ==
    ASSUME SpareInv, wire'.phase # "answered", MayScope' => MayScope,
           sessions' = sessions, abandoned' = abandoned, H'.session_id = H.session_id
    PROVE  SpareInv'
BY DEF SpareInv, OwnOnly

LEMMA SpareNone ==
    ASSUME wire'.phase # "answered", H'.session_id = NoSession
    PROVE  SpareInv'
BY DEF SpareInv, OwnOnly

LEMMA SpareApplication == SpareFacts /\ SpareInv /\ Application => SpareInv'
<1> SUFFICES ASSUME SpareFacts, SpareInv, Application PROVE SpareInv'
  OBVIOUS
<1>0. H \in Handle /\ NewHandle.session_id = NoSession /\ TypeInv
  BY DEF SpareFacts, TypeInv, TypeOK, NewHandle
<1>1. wire'.phase # "answered"
  BY DEF Application, Connect, UseObject, Opened, Statement, StatementOnClosed, CheckLiveness,
         LetGo, StillHeld, Close, Idle, SpareFacts, LedgerInv, IdleIsQuiet
<1>2. CASE Connect \/ LetGo \/ Close
  BY <1>0, <1>1, <1>2, SpareNone DEF Connect, LetGo, Close
<1>3. ASSUME NEW h \in Handle, NEW k, Execute(h, k), h.session_id = H.session_id,
             h.scope_pending = H.scope_pending, conn' = conn, Idle
      PROVE  SpareInv'
  <2>1. H' = h \/ H' = ScopeDone(h)
    BY <1>3, ExecuteCalls
  <2>2. H'.session_id = H.session_id /\ (H'.scope_pending => H.scope_pending)
    BY <1>3, <2>1, ScopeDoneFields
  <2> QED BY <1>1, <1>3, <2>2, SpareKept DEF Idle, MayScope
<1>4. CASE UseObject
  BY <1>0, <1>3, <1>4, NextItem DEF UseObject
<1>5. CASE Opened
  BY <1>0, <1>1, <1>5, SpareKept DEF Opened, Idle, MayScope, Handle
<1>6. ASSUME NEW sql \in Statements, Statement(sql) PROVE SpareInv'
  BY <1>0, <1>3, <1>6 DEF Statement
<1>7. CASE StatementOnClosed \/ StillHeld
  BY <1>1, <1>7, SpareKept DEF StatementOnClosed, StillHeld, Idle, MayScope
<1>8. CASE CheckLiveness
  <2>1. CASE H' = H
    <3>1. conn' = "connecting" => conn = "connecting"
      BY <1>8 DEF CheckLiveness
    <3> QED BY <1>1, <1>8, <2>1, <3>1, SpareKept DEF CheckLiveness, Idle, MayScope
  <2>2. CASE Execute(H, PingJob) /\ conn' = conn
    BY <1>0, <1>3, <1>8, <2>2 DEF CheckLiveness
  <2> QED BY <1>8, <2>1, <2>2 DEF CheckLiveness
<1> QED BY <1>2, <1>4, <1>5, <1>6, <1>7, <1>8 DEF Application

LEMMA SparePost == SpareInv /\ Post => SpareInv'
<1> SUFFICES ASSUME SpareInv, Post PROVE SpareInv'
  OBVIOUS
<1>1. UNCHANGED <<conn, H, sessions, abandoned>> /\ wire'.phase = "sent"
  BY DEF Post, driverVars
<1> QED BY <1>1, SpareKept DEF MayScope

\* What is given up on while the scope may yet go is not the application's.
LEMMA SpareGiveUp == SpareFacts /\ SpareInv /\ GiveUp => SpareInv'
<1>q. GiveUp => wire' = Quiet
  BY DEF GiveUp, Unreachable, TimedOut, AnswerLost
<1> SUFFICES ASSUME SpareFacts, SpareInv, GiveUp, MayScope' PROVE OwnOnly(H.session_id)'
  BY <1>q, QuietPhase DEF SpareInv
<1>a. \E code : Return(H, code)
  <2>1. CASE Unreachable
    BY <2>1 DEF Unreachable
  <2>2. CASE TimedOut
    <3>1. \E code \in NoAnswerCodes : Return(H, code)
      BY <2>2 DEF TimedOut
    <3> QED BY <3>1
  <2>3. CASE AnswerLost
    <3>1. \E code \in NoAnswerCodes : Return(H, code)
      BY <2>3 DEF AnswerLost
    <3> QED BY <3>1
  <2> QED BY <2>1, <2>2, <2>3 DEF GiveUp
<1>b. H' = H /\ (conn' = conn \/ conn' # "connecting")
  BY <1>a DEF Return, Verdict
<1>c. wire.phase # "quiet"
  BY DEF GiveUp, Unreachable, TimedOut, AnswerLost
<1>0. H' = H /\ MayScope /\ TypeInv /\ OwnOnly(H.session_id) /\ wire.phase # "quiet"
  BY <1>b, <1>c DEF MayScope, SpareFacts, SpareInv
<1>1. wire.request.job.kind # "statement"
  BY <1>0, SendsItsOwn
<1>2. abandoned' \subseteq abandoned \cup {wire.request}
  BY DEF GiveUp, Unreachable, TimedOut, AnswerLost
<1>3. ASSUME H.session_id # NoSession PROVE ~sessions'[H.session_id].held
  <2>1. H.session_id \in Sessions /\ sessions \in [Sessions -> Session]
    BY <1>0, <1>3 DEF TypeInv, TypeOK, EngineTypeOK, Handle, SessionIds
  <2>2. \A x \in Session : \A k : Unhear(x, k).held = x.held
    BY DEF Unhear, Session
  <2>3. \/ sessions' = sessions
        \/ sessions' = [sessions EXCEPT ![wire.answer.sid] = Unhear(@, wire.request.job)]
    BY DEF GiveUp, Unreachable, TimedOut, AnswerLost
  <2>4. \/ sessions'[H.session_id] = sessions[H.session_id]
        \/ sessions'[H.session_id] = Unhear(sessions[H.session_id], wire.request.job)
    BY <2>1, <2>3
  <2> QED BY <1>0, <1>3, <2>1, <2>2, <2>4 DEF OwnOnly
<1> QED BY <1>0, <1>1, <1>2, <1>3 DEF OwnOnly

\* A loss leaves the handle without a session, an answer with the one it is in.
LEMMA SpareReceive == SpareFacts /\ SpareInv /\ Receive => SpareInv'
<1> SUFFICES ASSUME SpareFacts, SpareInv, Receive PROVE SpareInv'
  OBVIOUS
<1>0. /\ wire'.phase = "quiet" /\ wire.phase = "answered" /\ at # "idle"
      /\ sessions' = sessions /\ abandoned' = abandoned
      /\ H \in Handle /\ wire.answer \in Answer /\ job.sql \in Sql
      /\ (wire.request.sid # NoSession) \in BOOLEAN
  BY ReceiveShape, QuietPhase, JobSql DEF SpareFacts, TypeInv, TypeOK
<1>1. conn' = conn \/ conn' # "connecting"
  <2>1. ASSUME NEW h, NEW r, Return(h, r) PROVE conn' = conn \/ conn' # "connecting"
    BY <2>1 DEF Return, Verdict
  <2> QED BY <2>1, ReceiveShape DEF GoOn
<1>2. CASE H' = Forget(H) \/ H' = ScopeDone(Forget(H))
  <2>1. H'.session_id = NoSession
    BY <1>0, <1>2, ForgetFields, ScopeDoneFields
  <2> QED BY <1>0, <2>1, SpareNone
<1>3. CASE H' = Heard \/ H' = ScopeDone(Heard) \/ H' = TrackSession(Heard, job.sql)
  <2>1. Heard \in Handle /\ Heard.session_id \in {H.session_id, wire.answer.sid}
        /\ (Heard.scope_pending => H.scope_pending)
    <3>1. CASE wire.answer.sid = NoSession
      BY <1>0, <3>1, AbsorbsNothing DEF Heard
    <3>2. CASE wire.answer.sid # NoSession
      <4>1. ~Replaces(wire.answer, wire.request.sid # NoSession)
        BY <1>0, <3>2 DEF Replaces, SpareFacts, KeepInv, WhichSession, SameSession
      <4> QED BY <1>0, <3>2, <4>1, AbsorbFields DEF Heard
    <3> QED BY <3>1, <3>2
  <2>2. H'.session_id = Heard.session_id /\ (H'.scope_pending => Heard.scope_pending)
    BY <1>0, <1>3, <2>1, ScopeDoneFields, TrackFields
  <2>3. MayScope' => MayScope
    BY <1>1, <2>1, <2>2 DEF MayScope
  <2> QED BY <1>0, <2>1, <2>2, <2>3 DEF SpareInv, OwnOnly
<1> QED BY <1>2, <1>3, ReceiveHandle

LEMMA SpareStep == SpareFacts /\ SpareInv /\ [Next]_vars => SpareInv'
<1> SUFFICES ASSUME SpareFacts, SpareInv, [Next]_vars PROVE SpareInv'
  OBVIOUS
<1>1. CASE Next
  BY <1>1, SpareApplication, SpareEngine, SparePost, SpareGiveUp, SpareReceive DEF Next
<1>2. CASE UNCHANGED vars
  BY <1>2 DEF vars, SpareInv, MayScope, OwnOnly
<1> QED BY <1>1, <1>2

\* A session changes by a request that ran, or by being ended or unheard.
LEMMA OnlyServingCovers ==
    ASSUME TypeInv, Next, CoversContext
    PROVE  Serve \/ ServeAbandoned
<1>1. PICK s \in Sessions : ~sessions[s].covered /\ sessions'[s].covered
  BY DEF CoversContext
<1>2. sessions \in [Sessions -> Session]
  BY DEF TypeInv, TypeOK, EngineTypeOK
<1>3. \A x \in Session : \A k : Unhear(x, k).covered = x.covered
  BY DEF Unhear, Session
<1>4. ~Post /\ ~Receive /\ ~ServeGone /\ ~ServeFault
  BY <1>1, ReceiveShape DEF Post, ServeGone, ServeFault
<1>5. ~Expiry /\ ~EngineRestart
  <2>1. ~Ended(s, H.session_id).covered
    BY <1>1, <1>2 DEF Ended, Unborn, Session
  <2> QED BY <1>1, <2>1, EndTouches
<1>6. ~GiveUp
  <2>1. ASSUME GiveUp
        PROVE  \/ sessions' = sessions
               \/ sessions' = [sessions EXCEPT ![wire.answer.sid] = Unhear(@, wire.request.job)]
    BY <2>1 DEF GiveUp, Unreachable, TimedOut, AnswerLost
  <2>2. ASSUME GiveUp
        PROVE  \/ sessions'[s] = sessions[s]
               \/ sessions'[s] = Unhear(sessions[s], wire.request.job)
    BY <1>2, <2>1, <2>2
  <2> QED BY <1>1, <1>2, <1>3, <2>2
<1>7. ~Application
  <2>1. ~Close
    <3>1. ASSUME Close PROVE sessions'[s] = sessions[s] \/ sessions'[s] = Unborn
      BY <1>2, <3>1 DEF Close, Released
    <3> QED BY <1>1, <3>1 DEF Unborn
  <2> QED BY <1>1, <2>1 DEF Application, Connect, UseObject, Opened, Statement, StatementOnClosed,
                            CheckLiveness, LetGo, StillHeld, Idle
<1> QED BY <1>4, <1>5, <1>6, <1>7 DEF Next, Engine

LEMMA ServeSpares == SpareFacts /\ SpareInv /\ Serve => ~CoversContext
<1> SUFFICES ASSUME SpareFacts, SpareInv, Serve, CoversContext PROVE FALSE
  OBVIOUS
<1>0. wire.phase = "sent" /\ TypeInv
  BY DEF Serve, SpareFacts
<1>1. PICK r \in Sessions : ~sessions[r].covered /\ sessions'[r].covered
  BY DEF CoversContext
<1>2. PICK s \in Places(wire.request, Free), v \in {"ok", "refused"}, part \in BOOLEAN :
        Ran(wire.request, s, v, part)
  BY <1>0, ServeShape
<1> DEFINE j == wire.request.job
           x == Before(wire.request, s)
           y == AfterJob(x, j, v, part)
<1>3. /\ wire.request \in Request /\ j \in Job /\ wire.request.sid \in InUse /\ j = JobHere
      /\ wire.request.sid = H.session_id
  BY <1>0 DEF TypeInv, TypeOK, Request, InUse, SpareFacts, LedgerInv, RightRequest,
              NamesInv, RequestNames
<1>4. /\ s \in Sessions /\ sessions'[s] = y
      /\ \A p \in Sessions : p # s => sessions'[p] = sessions[p]
  BY <1>0, <1>2, <1>3, ServeTouches
<1>5. r = s
  BY <1>1, <1>4
<1>6. x \in Session /\ (x.covered => s # wire.request.sid \/ sessions[s].covered)
  BY <1>0, <1>4, UnbornType DEF Before, TypeInv, TypeOK, EngineTypeOK
<1>7. ~x.covered
  BY <1>1, <1>5, <1>6 DEF Before, Unborn
<1>8. j.kind = "use" /\ x.held
  <2>1. y.covered = (x.covered \/ (j.kind = "use" /\ v = "ok" /\ x.held))
    <3>1. CASE j.kind = "use"
      BY <1>6, <3>1 DEF AfterJob, AfterUse, Session
    <3>2. CASE j.kind # "use"
      BY <1>6, <3>2 DEF AfterJob, AfterStatement, AfterPart, Session
    <3> QED BY <3>1, <3>2
  <2> HIDE DEF y, x, j
  <2> QED BY <1>1, <1>4, <1>5, <1>7, <2>1
<1>9. s = wire.request.sid
  BY <1>8 DEF Before, Unborn
<1>10. MayScope
  <2>1. at # "idle" /\ (at \in InScope \/ conn = "connecting")
    BY <1>0, <1>3, <1>8 DEF JobHere, SpareFacts, LedgerInv, IdleIsQuiet, KeepInv, WhoCalls
  <2> QED BY <2>1, ScopeIsPending DEF MayScope
<1> QED BY <1>3, <1>4, <1>8, <1>9, <1>10, Bounds DEF SpareInv, OwnOnly, Before

(***************************************************************************)
(* Against an engine that tracks sessions, no USE of the scope that the    *)
(* driver waits for runs over context a session has of its own: the one    *)
(* step that can is the engine's, running late what was given up on        *)
(* (apply_scope, scope_pending in absorb and forget_session).              *)
(***************************************************************************)
THEOREM ScopeSparesContext == ASSUME ~Legacy PROVE Spec => ScopeNotOverContext
<1>1. SpareFacts /\ SpareInv /\ [Next]_vars => [CoversContext => abandoned' # abandoned]_vars
  <2> SUFFICES ASSUME SpareFacts, SpareInv, Next, CoversContext PROVE abandoned' # abandoned
    OBVIOUS
  <2>1. ~Serve
    BY ServeSpares
  <2>2. ServeAbandoned
    BY <2>1, OnlyServingCovers DEF SpareFacts
  <2> QED BY <2>2 DEF ServeAbandoned
<1>2. SpareFacts <=> TypeInv /\ LedgerInv /\ NamesInv /\ KeepInv /\ ScopeInv
  BY DEF SpareFacts
<1> QED BY <1>1, <1>2, TypeInit, TypeStep, LedgerInvariant, NamesInvariant, KeepInvariant,
           ScopeInvariant, SpareInit, SpareStep, PTL DEF Spec, ScopeNotOverContext
=============================================================================
