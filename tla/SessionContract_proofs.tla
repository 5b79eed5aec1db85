----------------------- MODULE SessionContract_proofs -----------------------
(***************************************************************************)
(* The connection keeps the contract of SessionContract, for every number  *)
(* of sessions, calls, scope items and abandoned requests: every step of   *)
(* FrostlakeSession is a step of the contract, or none.                    *)
(***************************************************************************)
EXTENDS SessionPicture_proofs

(***************************************************************************)
(* The contract numbers statements by the latest, and lets one run late    *)
(* only when it was given up on.  So the running statement is the latest,  *)
(* every other has been answered, and a request given up on carries one    *)
(* that was answered HYT00 or 08S01.                                       *)
(***************************************************************************)
LatestRuns == job.kind = "statement" => job.n = calls

OthersAnswered ==
    \A c \in 1..calls : ledger[c].result = "none" => job.kind = "statement" /\ job.n = c

LateUnknown ==
    \A q \in abandoned : q.job.kind = "statement" =>
      q.job.n \in 1..calls /\ ledger[q.job.n].result \in NoAnswerCodes

CallsInv == LatestRuns /\ OthersAnswered /\ LateUnknown

LEMMA CallsInit == Init => CallsInv
<1> SUFFICES ASSUME Init PROVE CallsInv
  OBVIOUS
<1>1. calls = 0 /\ job.kind = "none" /\ abandoned = {}
  BY DEF Init, NoJob
<1> QED BY <1>1 DEF CallsInv, LatestRuns, OthersAnswered, LateUnknown

\* Only the count of runs moves, if anything.
LEMMA CallsKept ==
    ASSUME TypeInv, CallsInv, calls' = calls, job' = job, abandoned' \subseteq abandoned,
           \A c \in 1..MaxCalls : ledger'[c].result = ledger[c].result
    PROVE  CallsInv'
<1>1. \A c \in 1..calls : c \in 1..MaxCalls
  BY Bounds DEF TypeInv, TypeOK
<1> QED BY <1>1 DEF CallsInv, LatestRuns, OthersAnswered, LateUnknown

\* A call that is no statement's starts, or the handle is all that changes.
LEMMA CallsElsewhere ==
    ASSUME CallsInv, job.kind # "statement", job'.kind # "statement",
           UNCHANGED <<calls, ledger, abandoned>>
    PROVE  CallsInv'
BY DEF CallsInv, LatestRuns, OthersAnswered, LateUnknown

\* A call that returns answers its own statement.
LEMMA CallsReturned ==
    ASSUME TypeInv, LedgerInv, CallsInv, NEW h, NEW r \in Results \ {"none"}, Return(h, r),
           calls' = calls,
           \/ abandoned' = abandoned
           \/ /\ abandoned' = abandoned \cup {wire.request}
              /\ wire.phase = "sent" /\ r \in NoAnswerCodes
    PROVE  CallsInv'
<1>0. ledger \in [1..MaxCalls -> [runs : Nat, result : Results]] /\ calls \in 0..MaxCalls
  BY DEF TypeInv, TypeOK
<1>1. job'.kind = "none"
  BY DEF Return, NoJob
<1>2. \A c \in 1..MaxCalls :
        ledger'[c].result = IF job.kind = "statement" /\ job.n = c THEN r ELSE ledger[c].result
  BY <1>0 DEF Return
<1>3. \A c \in 1..calls : c \in 1..MaxCalls
  BY <1>0, Bounds
<1>4. OthersAnswered'
  BY <1>2, <1>3 DEF CallsInv, OthersAnswered
<1>5. ASSUME NEW q \in abandoned', q.job.kind = "statement"
      PROVE  q.job.n \in 1..calls /\ ledger'[q.job.n].result \in NoAnswerCodes
  <2>1. CASE q \in abandoned
    <3>1. q.job.n \in 1..calls /\ ledger[q.job.n].result \in NoAnswerCodes
      BY <1>5, <2>1 DEF CallsInv, LateUnknown
    <3>2. ~(job.kind = "statement" /\ job.n = q.job.n)
      BY <1>5, <2>1 DEF LedgerInv, OpenCall, Carries
    <3> QED BY <1>2, <1>3, <3>1, <3>2
  <2>2. CASE q \notin abandoned
    <3>1. q = wire.request /\ wire.phase = "sent" /\ r \in NoAnswerCodes
      BY <1>5, <2>2
    <3>2. job.kind = "statement" /\ job.n = q.job.n
      BY <1>5, <3>1, OwnRequest DEF Carries
    <3> QED BY <1>2, <1>3, <3>1, <3>2, OwnNumber
  <2> QED BY <2>1, <2>2
<1> QED BY <1>1, <1>4, <1>5 DEF CallsInv, LatestRuns, LateUnknown

LEMMA CallsApplication == TypeInv /\ LedgerInv /\ CallsInv /\ Application => CallsInv'
<1> SUFFICES ASSUME TypeInv, LedgerInv, CallsInv, Application PROVE CallsInv'
  OBVIOUS
<1>1. at = "idle" /\ job.kind = "none" /\ abandoned' = abandoned
  BY DEF Application, Connect, UseObject, Opened, Statement, StatementOnClosed, CheckLiveness,
         LetGo, StillHeld, Close, Idle, LedgerInv, IdleIsQuiet, NoJob
<1>0. calls \in 0..MaxCalls /\ ledger \in [1..MaxCalls -> [runs : Nat, result : Results]]
  BY DEF TypeInv, TypeOK
<1>2. CASE UseObject
  <2>1. \E h, n : Execute(h, UseJob(n))
    BY <1>2 DEF UseObject
  <2>2. job'.kind = "use"
    BY <2>1, ExecuteCalls DEF UseJob
  <2> QED BY <1>1, <1>2, <2>2, CallsElsewhere DEF UseObject
<1>3. ASSUME NEW sql \in Statements, Statement(sql) PROVE CallsInv'
  <2>1. /\ Execute(H, StatementJob(calls + 1, sql)) /\ calls' = calls + 1
        /\ calls < MaxCalls /\ ledger' = ledger
    BY <1>3 DEF Statement
  <2>2. job'.kind = "statement" /\ job'.n = calls'
    BY <2>1, ExecuteCalls DEF StatementJob
  <2>3. OthersAnswered'
    BY <1>0, <1>1, <2>1, <2>2, Bounds DEF CallsInv, OthersAnswered
  <2>4. LateUnknown'
    BY <1>0, <1>1, <2>1, Bounds DEF CallsInv, LateUnknown
  <2> QED BY <2>2, <2>3, <2>4 DEF CallsInv, LatestRuns
<1>4. CASE StatementOnClosed
  <2>1. /\ calls' = calls + 1 /\ calls < MaxCalls /\ job' = job
        /\ ledger' = [ledger EXCEPT ![calls + 1].result = "08003"]
    BY <1>4 DEF StatementOnClosed
  <2>2. \A c \in 1..MaxCalls :
          ledger'[c].result = IF c = calls + 1 THEN "08003" ELSE ledger[c].result
    BY <1>0, <2>1
  <2>3. calls + 1 \in 1..MaxCalls /\ \A c \in 1..calls : c \in 1..MaxCalls /\ c # calls + 1
    BY <1>0, <2>1, Bounds
  <2>4. \A c \in 1..calls' : c \in 1..calls \/ c = calls + 1
    BY <1>0, <2>1, Bounds
  <2>5. OthersAnswered'
    BY <2>1, <2>2, <2>3, <2>4 DEF CallsInv, OthersAnswered
  <2>6. \A c \in 1..calls : c \in 1..calls'
    BY <1>0, <2>1, Bounds
  <2>7. LateUnknown'
    BY <1>1, <2>2, <2>3, <2>6 DEF CallsInv, LateUnknown
  <2> QED BY <1>1, <2>1, <2>5, <2>7 DEF CallsInv, LatestRuns
<1>5. CASE CheckLiveness
  <2>1. job' = job \/ job' = PingJob \/ Execute(H, PingJob)
    BY <1>5 DEF CheckLiveness
  <2>2. job'.kind # "statement"
    BY <1>1, <2>1, ExecuteCalls DEF PingJob
  <2> QED BY <1>1, <1>5, <2>2, CallsElsewhere DEF CheckLiveness
<1>6. CASE Connect \/ Opened \/ LetGo \/ StillHeld \/ Close
  BY <1>1, <1>6, CallsElsewhere DEF Connect, Opened, LetGo, StillHeld, Close
<1> QED BY <1>2, <1>3, <1>4, <1>5, <1>6 DEF Application

LEMMA CallsEngine == TypeInv /\ CallsInv /\ Engine => CallsInv'
<1> SUFFICES ASSUME TypeInv, CallsInv, Engine PROVE CallsInv'
  OBVIOUS
<1>0. ledger \in [1..MaxCalls -> [runs : Nat, result : Results]]
  BY DEF TypeInv, TypeOK
<1>1. calls' = calls /\ job' = job /\ abandoned' \subseteq abandoned
  BY DEF Engine, Serve, ServeGone, ServeFault, ServeAbandoned, Expiry, EngineRestart,
         EngineOnly, driverVars
<1>2. ledger' = ledger \/ \E q : ledger' = CountRun(q)
  BY DEF Engine, Serve, ServeGone, ServeFault, ServeAbandoned, Expiry, EngineRestart, EngineOnly
<1>3. ASSUME NEW q, NEW c \in 1..MaxCalls PROVE CountRun(q)[c].result = ledger[c].result
  BY <1>0 DEF CountRun
<1> QED BY <1>1, <1>2, <1>3, CallsKept

LEMMA CallsGiveUp == TypeInv /\ LedgerInv /\ CallsInv /\ GiveUp => CallsInv'
<1> SUFFICES ASSUME TypeInv, LedgerInv, CallsInv, GiveUp PROVE CallsInv'
  OBVIOUS
<1>1. PICK code \in NoAnswerCodes : Return(H, code)
  BY DEF GiveUp, Unreachable, TimedOut, AnswerLost, NoAnswerCodes
<1>2. code \in Results \ {"none"}
  BY DEF Results, NoAnswerCodes
<1>3. /\ calls' = calls
      /\ \/ abandoned' = abandoned
         \/ abandoned' = abandoned \cup {wire.request} /\ wire.phase = "sent"
  BY DEF GiveUp, Unreachable, TimedOut, AnswerLost
<1> QED BY <1>1, <1>2, <1>3, CallsReturned

\* How a call that heard its answer goes on, or what it returns.
LEMMA ReceiveReturns ==
    ASSUME Receive
    PROVE  \/ GoOn
           \/ Return(Forget(H), "08003") /\ wire.answer.verdict = "gone" /\ at # "probe"
           \/ \E r \in {"HY000", "08S01"} : Return(Heard, r)
           \/ StatementDone /\ Return(TrackSession(Heard, job.sql), "ok")
           \/ ProbeDone /\ Return(Heard, "ok")
<1>1. CASE ScopeItem \/ ScopeWhole \/ ScopeRestart \/ LossRepaired
  BY <1>1 DEF ScopeItem, ScopeWhole, ScopeRestart, LossRepaired
<1>2. CASE ScopeLost \/ LossReported \/ SecondRefusal
  BY <1>2 DEF ScopeLost, LossReported, SecondRefusal, Answered, InScope
<1>3. CASE ScopeFailed \/ StatementFailed \/ StatementDone \/ ProbeDone
  BY <1>3 DEF ScopeFailed, StatementFailed, StatementDone, ProbeDone
<1> QED BY <1>1, <1>2, <1>3 DEF Receive

LEMMA CallsReceive == TypeInv /\ LedgerInv /\ CallsInv /\ Receive => CallsInv'
<1> SUFFICES ASSUME TypeInv, LedgerInv, CallsInv, Receive PROVE CallsInv'
  OBVIOUS
<1>1. calls' = calls /\ abandoned' = abandoned
  BY ReceiveShape
<1>2. CASE GoOn
  BY <1>1, <1>2, CallsKept DEF GoOn
<1>3. ASSUME NEW h, NEW r \in Results \ {"none"}, Return(h, r) PROVE CallsInv'
  BY <1>1, <1>3, CallsReturned
<1> QED BY <1>2, <1>3, ReceiveReturns DEF Results

LEMMA CallsStep == TypeInv /\ LedgerInv /\ CallsInv /\ [Next]_vars => CallsInv'
<1> SUFFICES ASSUME TypeInv, LedgerInv, CallsInv, [Next]_vars PROVE CallsInv'
  OBVIOUS
<1>1. CASE Post
  BY <1>1, CallsKept DEF Post, driverVars
<1>2. CASE UNCHANGED vars
  BY <1>2, CallsKept DEF vars
<1> QED BY <1>1, <1>2, CallsApplication, CallsEngine, CallsGiveUp, CallsReceive DEF Next

LEMMA CallsInvariant == Spec => []CallsInv
<1> QED BY TypeInit, TypeStep, LedgerInit, LedgerStep, CallsInit, CallsStep, PTL DEF Spec

-----------------------------------------------------------------------------
(* The state the contract sees, and its steps in these terms.              *)

Stage == CASE conn \in {"none", "connecting", "failing"} -> "opening"
           [] conn \in {"open", "unfit"} -> "open"
           [] OTHER -> "closed"

Count == [c \in 1..MaxCalls |-> ledger[c].runs]
Report == [c \in 1..MaxCalls |-> ledger[c].result]

KeptNow == [context     |-> Keeps(promised.context),
            transaction |-> Keeps(promised.transaction)]

NothingKept == KeptNow.context = "none" /\ KeptNow.transaction = "none"

KeptIsKept ==
    /\ Stage \in {"opening", "open", "closed"}
    /\ KeptNow \in [context : {"none", "there", "lost"}, transaction : {"none", "there", "lost"}]
    /\ NothingKept => KeptNow = [context |-> "none", transaction |-> "none"]

LEMMA KeptTypes == KeptIsKept
BY DEF KeptIsKept, Stage, KeptNow, NothingKept, Keeps

LEMMA KeptTypesNext == KeptIsKept'
BY KeptTypes, PTL

LEMMA MapsInit == Init => Contract!Init
<1> SUFFICES ASSUME Init PROVE Contract!Init
  OBVIOUS
<1>1. conn = "none" /\ calls = 0 /\ promised = Nothing
  BY DEF Init
<1>2. Stage = "opening"
  BY <1>1 DEF Stage
<1>3. Count = [c \in 1..MaxCalls |-> 0] /\ Report = [c \in 1..MaxCalls |-> "none"]
  BY DEF Init, Count, Report
<1>4. KeptNow = [context |-> "none", transaction |-> "none"]
  BY <1>1 DEF KeptNow, Keeps, Nothing
<1> QED BY <1>1, <1>2, <1>3, <1>4
        DEF Contract!Init, Contract!Calls, Contract!Nothing, Stage, Count, Report, KeptNow

Same == Stage' = Stage /\ Count' = Count /\ Report' = Report /\ KeptNow' = KeptNow

LEMMA MapsStutter ==
    ASSUME Same, calls' = calls
    PROVE  UNCHANGED Contract!vars
BY DEF Same, Contract!vars, Stage, Count, Report, KeptNow

LEMMA MapsOpen ==
    ASSUME Stage = "opening", Stage' = "open",
           calls' = calls, Count' = Count, Report' = Report, KeptNow' = KeptNow
    PROVE  Contract!Next
<1>1. Contract!Open
  BY DEF Contract!Open, Stage, Count, Report, KeptNow
<1> QED BY <1>1 DEF Contract!Next

OpenReport == calls > 0 /\ Report[calls] = "none"

LEMMA MapsPending == Contract!Pending <=> OpenReport
BY DEF Contract!Pending, OpenReport, Report

LEMMA MapsSend ==
    ASSUME Stage = "open", calls < MaxCalls, ~OpenReport,
           calls' = calls + 1, Stage' = Stage, Count' = Count, Report' = Report, KeptNow' = KeptNow
    PROVE  Contract!Next
<1>1. Contract!Send
  BY MapsPending DEF Contract!Send, Stage, Count, Report, KeptNow
<1> QED BY <1>1 DEF Contract!Next

LEMMA MapsRun ==
    ASSUME OpenReport, Count[calls] = 0, "lost" \notin {KeptNow.context, KeptNow.transaction},
           Count' = [Count EXCEPT ![calls] = 1],
           calls' = calls, Stage' = Stage, Report' = Report, KeptNow' = KeptNow
    PROVE  Contract!Next
<1>1. Contract!Run
  BY MapsPending DEF Contract!Run, Stage, Count, Report, KeptNow
<1> QED BY <1>1 DEF Contract!Next

LEMMA MapsRunLate ==
    ASSUME NEW c \in 1..MaxCalls, c <= calls, Report[c] \in NoAnswerCodes, Count[c] = 0,
           Count' = [Count EXCEPT ![c] = 1],
           calls' = calls, Stage' = Stage, Report' = Report, KeptNow' = KeptNow
    PROVE  Contract!Next
<1>1. Contract!RunLate(c)
  BY DEF Contract!RunLate, Contract!Unknown, NoAnswerCodes, Stage, Count, Report, KeptNow
<1> QED BY <1>1 DEF Contract!Next, Contract!Calls

LEMMA MapsSucceed ==
    ASSUME OpenReport, Count[calls] = 1, Report' = [Report EXCEPT ![calls] = "ok"],
           KeptNow.context # "none" => KeptNow'.context = KeptNow.context,
           KeptNow.transaction # "none" => KeptNow'.transaction \in {KeptNow.transaction, "none"},
           calls' = calls, Stage' = Stage, Count' = Count
    PROVE  Contract!Next
<1>1. KeptNow' \in [context : {"none", "there", "lost"}, transaction : {"none", "there", "lost"}]
  BY KeptTypesNext DEF KeptIsKept
<1>2. Contract!Succeed
  BY <1>1, MapsPending DEF Contract!Succeed, Contract!Kept, Contract!Keeping, Stage, Count, Report, KeptNow
<1> QED BY <1>2 DEF Contract!Next

LEMMA MapsFail ==
    ASSUME NEW code \in NoAnswerCodes \cup {"HY000"}, OpenReport,
           Report' = [Report EXCEPT ![calls] = code],
           calls' = calls, Stage' = Stage, Count' = Count, KeptNow' = KeptNow
    PROVE  Contract!Next
<1>1. code \in Contract!Unknown \cup {"HY000"}
  BY DEF Contract!Unknown, NoAnswerCodes
<1>2. Contract!Fail(code)
  BY <1>1, MapsPending DEF Contract!Fail, Stage, Count, Report, KeptNow
<1> QED BY <1>1, <1>2 DEF Contract!Next

LEMMA MapsTellLoss ==
    ASSUME OpenReport, Count[calls] = 0, Report' = [Report EXCEPT ![calls] = "08003"],
           NothingKept', calls' = calls, Stage' = Stage, Count' = Count
    PROVE  Contract!Next
<1>1. KeptNow' = [context |-> "none", transaction |-> "none"]
  BY KeptTypesNext DEF KeptIsKept
<1>2. Contract!TellLoss
  BY <1>1, MapsPending DEF Contract!TellLoss, Contract!Nothing, Stage, Count, Report, KeptNow
<1> QED BY <1>2 DEF Contract!Next

LEMMA MapsLose ==
    ASSUME KeptNow'.context # KeptNow.context =>
             KeptNow.context = "there" /\ KeptNow'.context = "lost",
           KeptNow'.transaction # KeptNow.transaction =>
             KeptNow.transaction = "there" /\ KeptNow'.transaction = "lost",
           calls' = calls, Stage' = Stage, Count' = Count, Report' = Report
    PROVE  Contract!Next
<1>1. KeptNow' \in [context : {"none", "there", "lost"}, transaction : {"none", "there", "lost"}]
  BY KeptTypesNext DEF KeptIsKept
<1>2. Contract!Lose
  BY <1>1 DEF Contract!Lose, Contract!Kept, Contract!Keeping, Stage, Count, Report, KeptNow
<1> QED BY <1>2 DEF Contract!Next

LEMMA MapsClose ==
    ASSUME ~OpenReport, Stage' = "closed", NothingKept',
           calls' = calls, Count' = Count, Report' = Report
    PROVE  Contract!Next
<1>1. KeptNow' = [context |-> "none", transaction |-> "none"]
  BY KeptTypesNext DEF KeptIsKept
<1>2. Contract!Close
  BY <1>1, MapsPending DEF Contract!Close, Contract!Nothing, Stage, Count, Report, KeptNow
<1> QED BY <1>2 DEF Contract!Next

LEMMA MapsSendOnClosed ==
    ASSUME Stage = "closed", calls < MaxCalls, calls' = calls + 1,
           Report' = [Report EXCEPT ![calls + 1] = "08003"],
           Stage' = Stage, Count' = Count, KeptNow' = KeptNow
    PROVE  Contract!Next
<1>1. Contract!SendOnClosed
  BY DEF Contract!SendOnClosed, Stage, Count, Report, KeptNow
<1> QED BY <1>1 DEF Contract!Next

-----------------------------------------------------------------------------
(* What the steps leave of the ledger and of what is kept.                 *)

LEMMA LedgerStays == ledger' = ledger => Count' = Count /\ Report' = Report
BY DEF Count, Report

LEMMA NothingStays ==
    ASSUME promised = Nothing, promised' = promised
    PROVE  KeptNow' = KeptNow /\ NothingKept'
BY DEF KeptNow, NothingKept, Keeps, Nothing

HandleLive == Live(H.session_id)

\* What is kept is in the handle's session, and stays there with it.
LEMMA KeptStays ==
    ASSUME TypeInv, KeepInv, conn # "closed", conn' # "closed", promised' = promised,
           promised # Nothing =>
             H'.session_id = H.session_id /\ (HandleLive' <=> HandleLive)
    PROVE  KeptNow' = KeptNow
<1>1. CASE promised = Nothing
  BY <1>1, NothingStays
<1>2. CASE promised # Nothing
  <2>1. ASSUME NEW p \in {promised.context, promised.transaction}
        PROVE  p = NoSession \/ p = H.session_id
    BY DEF KeepInv, KeepsPromises, Covers
  <2>2. ASSUME NEW p \in {promised.context, promised.transaction}
        PROVE  (IF p = NoSession THEN "none"
                ELSE IF p = H'.session_id /\ (p \in Sessions /\ sessions'[p].live)
                  THEN "there" ELSE "lost")
               = (IF p = NoSession THEN "none"
                  ELSE IF p = H.session_id /\ (p \in Sessions /\ sessions[p].live)
                    THEN "there" ELSE "lost")
    BY <1>2, <2>1 DEF HandleLive, Live
  <2> QED BY <2>2 DEF KeptNow, Keeps, Live
<1> QED BY <1>1, <1>2

\* The running statement, as the contract sees it.
LEMMA RunningStatement ==
    ASSUME TypeInv, LedgerInv, CallsInv, job.kind = "statement"
    PROVE  /\ calls = job.n /\ calls \in 1..MaxCalls /\ OpenReport
           /\ MayStillRun => Count[calls] = 0
           /\ ~MayStillRun /\ wire.answer.verdict = "ok" => Count[calls] = 1
<1>1. calls = job.n /\ calls \in 1..MaxCalls
  BY OwnNumber DEF CallsInv, LatestRuns
<1>2. calls > 0
  BY <1>1, Bounds
<1> QED BY <1>1, <1>2 DEF LedgerInv, OpenCall, OpenReport, Report, Count

LEMMA NoneRunning ==
    ASSUME TypeInv, CallsInv, job.kind # "statement"
    PROVE  ~OpenReport
<1>1. calls \in 0..MaxCalls
  BY DEF TypeInv, TypeOK
<1>2. CASE calls = 0
  BY <1>2 DEF OpenReport
<1>3. CASE calls # 0
  <2>1. calls \in 1..calls /\ calls \in 1..MaxCalls
    BY <1>1, <1>3, Bounds
  <2> QED BY <2>1 DEF CallsInv, OthersAnswered, OpenReport, Report
<1> QED BY <1>2, <1>3

LEMMA ReturnReports ==
    ASSUME TypeInv, LedgerInv, CallsInv, NEW h, NEW r, Return(h, r)
    PROVE  /\ Count' = Count
           /\ job.kind = "statement" => Report' = [Report EXCEPT ![calls] = r]
           /\ job.kind # "statement" => Report' = Report
<1>1. ledger \in [1..MaxCalls -> [runs : Nat, result : Results]]
  BY DEF TypeInv, TypeOK
<1>2. CASE job.kind = "statement"
  <2>1. calls = job.n /\ calls \in 1..MaxCalls
    BY <1>2, RunningStatement
  <2>2. ledger' = [ledger EXCEPT ![calls].result = r]
    BY <1>2, <2>1 DEF Return
  <2>3. \A c \in 1..MaxCalls :
          /\ ledger'[c].runs = ledger[c].runs
          /\ ledger'[c].result = IF c = calls THEN r ELSE ledger[c].result
    BY <1>1, <2>1, <2>2
  <2> QED BY <1>2, <2>3 DEF Count, Report
<1>3. CASE job.kind # "statement"
  BY <1>3, LedgerStays DEF Return
<1> QED BY <1>2, <1>3

LEMMA CountRuns ==
    ASSUME TypeInv, NEW q, q.job.kind = "statement", q.job.n \in 1..MaxCalls,
           Count[q.job.n] = 0, ledger' = CountRun(q)
    PROVE  Count' = [Count EXCEPT ![q.job.n] = 1] /\ Report' = Report
<1>1. ledger \in [1..MaxCalls -> [runs : Nat, result : Results]]
  BY DEF TypeInv, TypeOK
<1>2. ledger[q.job.n].runs = 0
  BY DEF Count
<1>3. ledger' = [ledger EXCEPT ![q.job.n].runs = @ + 1]
  BY DEF CountRun
<1>4. \A c \in 1..MaxCalls :
        /\ ledger'[c].result = ledger[c].result
        /\ ledger'[c].runs = IF c = q.job.n THEN 1 ELSE ledger[c].runs
  BY <1>1, <1>2, <1>3
<1> QED BY <1>4 DEF Count, Report

\* Running a job neither starts nor ends a session.
LEMMA RunningLives ==
    ASSUME NEW x \in Session, NEW j \in Job, NEW v, NEW part \in BOOLEAN
    PROVE  AfterJob(x, j, v, part).live = x.live /\ Unhear(x, j).live = x.live
<1>1. CASE j.kind = "use"
  BY <1>1 DEF AfterJob, AfterUse, Session, Unhear
<1>2. CASE j.kind # "use"
  BY <1>2 DEF AfterJob, AfterStatement, AfterPart, Session, Unhear
<1> QED BY <1>1, <1>2

-----------------------------------------------------------------------------
(* Every step is a step of the contract, or none.                          *)

Mapped == Contract!Next \/ UNCHANGED Contract!vars

Invariants == TypeInv /\ LedgerInv /\ KeepInv /\ CallsInv

LEMMA StutterIsMapped == Same /\ calls' = calls => Mapped
BY MapsStutter DEF Mapped

LEMMA MapsApplication == Invariants /\ Application => Mapped
<1> SUFFICES ASSUME Invariants, Application PROVE Mapped
  OBVIOUS
<1> USE DEF Invariants
<1>0. H \in Handle
  BY DEF TypeInv, TypeOK
<1>1. at = "idle" /\ ~OpenReport
  <2>1. at = "idle"
    BY DEF Application, Connect, UseObject, Opened, Statement, StatementOnClosed, CheckLiveness,
           LetGo, StillHeld, Close, Idle
  <2>2. job.kind # "statement"
    BY <2>1 DEF LedgerInv, IdleIsQuiet, NoJob
  <2> QED BY <2>1, <2>2, NoneRunning
<1>2. promised = Nothing /\ promised' = promised => KeptNow' = KeptNow
  BY NothingStays
<1>3. CASE Connect
  <2>1. promised = Nothing /\ ledger' = ledger /\ calls' = calls /\ promised' = promised
    BY <1>3 DEF Connect, KeepInv, OwesNothing
  <2>2. Stage' = Stage
    BY <1>3 DEF Connect, Stage
  <2> QED BY <1>2, <2>1, <2>2, LedgerStays, StutterIsMapped DEF Same
<1>4. CASE UseObject
  <2>1. promised = Nothing /\ ledger' = ledger /\ calls' = calls /\ promised' = promised
        /\ conn' = conn
    BY <1>4 DEF UseObject, KeepInv, OwesNothing
  <2>2. Stage' = Stage
    BY <2>1 DEF Stage
  <2> QED BY <1>2, <2>1, <2>2, LedgerStays, StutterIsMapped DEF Same
<1>5. CASE Opened
  <2>1. promised = Nothing /\ ledger' = ledger /\ calls' = calls /\ promised' = promised
        /\ Stage = "opening" /\ Stage' = "open"
    BY <1>5 DEF Opened, KeepInv, OwesNothing, Stage
  <2> QED BY <1>2, <2>1, LedgerStays, MapsOpen DEF Mapped
<1>6. ASSUME NEW sql \in Statements, Statement(sql) PROVE Mapped
  <2>1. /\ conn = "open" /\ conn' = conn /\ calls < MaxCalls /\ calls' = calls + 1
        /\ ledger' = ledger /\ promised' = promised /\ sessions' = sessions
        /\ Execute(H, StatementJob(calls + 1, sql))
    BY <1>6 DEF Statement, Idle
  <2>2. H'.session_id = H.session_id
    BY <1>0, <2>1, ExecuteKeepsHandle
  <2>3. KeptNow' = KeptNow
    BY <2>1, <2>2, KeptStays DEF HandleLive, Live
  <2>4. Stage = "open" /\ Stage' = Stage
    BY <2>1 DEF Stage
  <2> QED BY <1>1, <2>1, <2>3, <2>4, LedgerStays, MapsSend DEF Mapped
<1>7. CASE StatementOnClosed
  <2>1. /\ conn = "closed" /\ conn' = conn /\ calls < MaxCalls /\ calls' = calls + 1
        /\ ledger' = [ledger EXCEPT ![calls + 1].result = "08003"]
    BY <1>7 DEF StatementOnClosed
  <2>2. ledger \in [1..MaxCalls -> [runs : Nat, result : Results]]
    BY DEF TypeInv, TypeOK
  <2>3. Count' = Count /\ Report' = [Report EXCEPT ![calls + 1] = "08003"]
    <3>1. \A c \in 1..MaxCalls :
            /\ ledger'[c].runs = ledger[c].runs
            /\ ledger'[c].result = IF c = calls + 1 THEN "08003" ELSE ledger[c].result
      BY <2>1, <2>2
    <3> QED BY <3>1 DEF Count, Report
  <2>4. Stage = "closed" /\ Stage' = Stage /\ KeptNow' = KeptNow
    BY <2>1 DEF Stage, KeptNow, Keeps
  <2> QED BY <2>1, <2>3, <2>4, MapsSendOnClosed DEF Mapped
<1>8. CASE CheckLiveness
  <2>1. /\ conn = "open" /\ conn' \in {"open", "unfit"} /\ calls' = calls
        /\ ledger' = ledger /\ promised' = promised /\ sessions' = sessions
        /\ H' = H \/ Execute(H, PingJob)
    BY <1>8 DEF CheckLiveness, Idle
  <2>2. H'.session_id = H.session_id
    BY <1>0, <2>1, ExecuteKeepsHandle
  <2>3. KeptNow' = KeptNow
    BY <2>1, <2>2, KeptStays DEF HandleLive, Live
  <2>4. Stage' = Stage
    BY <2>1 DEF Stage
  <2> QED BY <2>1, <2>3, <2>4, LedgerStays, StutterIsMapped DEF Same
<1>9. CASE LetGo \/ Close
  <2>1. conn' = "closed" /\ ledger' = ledger /\ calls' = calls
    BY <1>9 DEF LetGo, Close
  <2>2. Stage' = "closed" /\ NothingKept'
    BY <2>1 DEF Stage, NothingKept, KeptNow, Keeps
  <2> QED BY <1>1, <2>1, <2>2, LedgerStays, MapsClose DEF Mapped
<1>10. CASE StillHeld
  <2>1. /\ conn = "unfit" /\ conn' = "open" /\ calls' = calls /\ H' = H
        /\ ledger' = ledger /\ promised' = promised /\ sessions' = sessions
    BY <1>10 DEF StillHeld, Idle
  <2>2. KeptNow' = KeptNow
    BY <2>1, KeptStays DEF HandleLive, Live
  <2>3. Stage' = Stage
    BY <2>1 DEF Stage
  <2> QED BY <2>1, <2>2, <2>3, LedgerStays, StutterIsMapped DEF Same
<1> QED BY <1>3, <1>4, <1>5, <1>6, <1>7, <1>8, <1>9, <1>10 DEF Application

LEMMA MapsPost == Invariants /\ Post => Mapped
<1> SUFFICES ASSUME Invariants, Post PROVE Mapped
  OBVIOUS
<1>1. UNCHANGED <<conn, H, calls, ledger, promised, sessions>>
  BY DEF Post, driverVars
<1>2. Stage' = Stage /\ KeptNow' = KeptNow
  BY <1>1 DEF Stage, KeptNow, Keeps, Live
<1> QED BY <1>1, <1>2, LedgerStays, StutterIsMapped DEF Same

\* The request that is served is in the handle's session, if that is owed.
LEMMA ServesWhatIsOwed ==
    ASSUME Invariants, Serve, promised # Nothing
    PROVE  HandleLive /\ HandleLive'
<1> USE DEF Invariants
<1>1. /\ wire.phase = "sent" /\ UNCHANGED <<conn, H, job>>
      /\ wire.request \in Request /\ wire.request.sid \in InUse
  BY DEF Serve, driverVars, TypeInv, TypeOK, InUse
<1>2. PICK s \in Places(wire.request, Free), v \in {"ok", "refused"}, part \in BOOLEAN :
        Ran(wire.request, s, v, part)
  BY ServeShape
<1>3. H.session_id # NoSession
  <2>1. at # "idle"
    BY <1>1 DEF LedgerInv, IdleIsQuiet
  <2>2. Covers(H, promised)
    BY <2>1 DEF KeepInv, KeepsPromises, WhoCalls
  <2>3. promised \in [context : SessionIds, transaction : SessionIds]
    BY DEF TypeInv, TypeOK
  <2> QED BY <2>2, <2>3 DEF Covers, Nothing
<1>4. wire.request.sid = H.session_id /\ wire.request.require
  BY <1>1, <1>3 DEF KeepInv, WhichSession
<1>5. s = H.session_id
  BY <1>2, <1>4 DEF Places
<1>6. /\ s \in Sessions /\ Live(s)
      /\ sessions'[s] = AfterJob(Before(wire.request, s), wire.request.job, v, part)
  BY <1>1, <1>2, <1>4, <1>5, ServeTouches
<1>7. Before(wire.request, s) = sessions[s] /\ sessions[s] \in Session /\ wire.request.job \in Job
  BY <1>1, <1>4, <1>5, <1>6 DEF Before, TypeInv, TypeOK, EngineTypeOK, Request
<1>8. sessions'[s].live = sessions[s].live
  BY <1>6, <1>7, RunningLives
<1> QED BY <1>1, <1>5, <1>6, <1>8 DEF HandleLive, Live

\* What runs late in the handle's session leaves it alive, or dead.
LEMMA LateLives ==
    ASSUME TypeInv, ServeAbandoned
    PROVE  HandleLive' <=> HandleLive
<1>1. H' = H
  BY DEF ServeAbandoned, driverVars
<1>2. CASE H.session_id \in Sessions
  <2> DEFINE s == H.session_id
  <2>1. \/ sessions'[s] = sessions[s]
        \/ \E q \in abandoned : sessions'[s] = Late(sessions[s], q.job)
    BY <1>2, LateTouches DEF Names
  <2>2. ASSUME NEW q \in abandoned PROVE Late(sessions[s], q.job).live = sessions[s].live
    <3> DEFINE y == AfterJob(sessions[s], q.job, "ok", FALSE)
    <3>1. sessions[s] \in Session /\ q.job \in Job
      BY <1>2 DEF TypeInv, TypeOK, EngineTypeOK, Request
    <3>2. y \in Session /\ y.live = sessions[s].live
      BY <3>1, AfterJobType, RunningLives
    <3> HIDE DEF y
    <3>3. Unhear(y, q.job).live = y.live
      BY <3>1, <3>2, RunningLives
    <3> QED BY <3>2, <3>3 DEF Late, y
  <2>3. sessions'[s].live = sessions[s].live
    BY <2>1, <2>2
  <2> QED BY <1>1, <2>3 DEF HandleLive, Live
<1>3. CASE H.session_id \notin Sessions
  BY <1>1, <1>3 DEF HandleLive, Live
<1> QED BY <1>2, <1>3

LEMMA EndLives ==
    ASSUME TypeInv, Expiry \/ EngineRestart, NEW s \in Sessions
    PROVE  Live(s)' => Live(s)
<1>1. CASE sessions'[s] = sessions[s]
  BY <1>1 DEF Live
<1>2. CASE Live(s)
  BY <1>2
<1> QED BY <1>1, <1>2, EndTouches

LEMMA MapsEngine == Invariants /\ Engine => Mapped
<1> SUFFICES ASSUME Invariants, Engine PROVE Mapped
  OBVIOUS
<1> USE DEF Invariants
<1>1. UNCHANGED <<conn, H, calls, promised, at, job>>
  BY DEF Engine, Serve, ServeGone, ServeFault, ServeAbandoned, Expiry, EngineRestart,
         EngineOnly, driverVars
<1>2. Stage' = Stage
  BY <1>1 DEF Stage
<1>3. CASE Serve
  <2>1. wire.phase = "sent" /\ at # "idle" /\ conn # "closed" /\ ledger' = CountRun(wire.request)
    BY <1>3 DEF Serve, LedgerInv, IdleIsQuiet, KeepInv, WhoCalls
  <2>2. promised # Nothing => HandleLive /\ HandleLive'
    BY <1>3, ServesWhatIsOwed
  <2>3. KeptNow' = KeptNow
    BY <1>1, <2>1, <2>2, KeptStays
  <2>4. CASE wire.request.job.kind # "statement"
    BY <1>1, <1>2, <2>1, <2>3, <2>4, LedgerStays, StutterIsMapped DEF CountRun, Same
  <2>5. CASE wire.request.job.kind = "statement"
    <3>1. job.kind = "statement" /\ wire.request.job = job /\ MayStillRun
      BY <2>1, <2>5, OwnRequest DEF Carries, MayStillRun
    <3>2. calls = job.n /\ calls \in 1..MaxCalls /\ OpenReport /\ Count[calls] = 0
      BY <3>1, RunningStatement
    <3>3. Count' = [Count EXCEPT ![calls] = 1] /\ Report' = Report
      BY <2>1, <2>5, <3>1, <3>2, CountRuns
    <3>4. "lost" \notin {KeptNow.context, KeptNow.transaction}
      <4>1. CASE promised = Nothing
        BY <4>1 DEF KeptNow, Keeps, Nothing
      <4>2. CASE promised # Nothing
        <5>1. Covers(H, promised) /\ Live(H.session_id)
          BY <2>1, <2>2, <4>2 DEF KeepInv, KeepsPromises, HandleLive
        <5> QED BY <2>1, <5>1 DEF Covers, KeptNow, Keeps
      <4> QED BY <4>1, <4>2
    <3> QED BY <1>1, <1>2, <2>3, <3>2, <3>3, <3>4, MapsRun DEF Mapped
  <2> QED BY <2>4, <2>5
<1>4. CASE ServeGone \/ ServeFault
  <2>1. sessions' = sessions /\ ledger' = ledger
    BY <1>4 DEF ServeGone, ServeFault
  <2>2. KeptNow' = KeptNow
    BY <1>1, <2>1 DEF KeptNow, Keeps, Live
  <2> QED BY <1>1, <1>2, <2>1, <2>2, LedgerStays, StutterIsMapped DEF Same
<1>5. CASE ServeAbandoned
  <2>1. KeptNow' = KeptNow
    <3>1. CASE conn = "closed"
      BY <1>1, <3>1 DEF KeptNow, Keeps
    <3>2. CASE conn # "closed"
      BY <1>1, <1>5, <3>2, LateLives, KeptStays
    <3> QED BY <3>1, <3>2
  <2>2. PICK q \in abandoned : ledger' = CountRun(q) \/ ledger' = ledger
    BY <1>5 DEF ServeAbandoned
  <2>3. CASE ledger' = ledger \/ q.job.kind # "statement"
    BY <1>1, <1>2, <2>1, <2>2, <2>3, LedgerStays, StutterIsMapped DEF CountRun, Same
  <2>4. CASE ledger' = CountRun(q) /\ q.job.kind = "statement"
    <3> DEFINE c == q.job.n
    <3>1. c \in 1..calls /\ c \in 1..MaxCalls /\ c <= calls /\ ledger[c].result \in NoAnswerCodes
      <4>1. c \in 1..calls /\ ledger[c].result \in NoAnswerCodes
        BY <2>4 DEF CallsInv, LateUnknown
      <4>2. calls \in 0..MaxCalls
        BY DEF TypeInv, TypeOK
      <4> QED BY <4>1, <4>2, Bounds
    <3>2. Count[c] = 0 /\ Report[c] \in NoAnswerCodes
      BY <2>4, <3>1 DEF LedgerInv, AbandonedOnce, Carries, Count, Report
    <3>3. Count' = [Count EXCEPT ![c] = 1] /\ Report' = Report
      BY <2>4, <3>1, <3>2, CountRuns
    <3> QED BY <1>1, <1>2, <2>1, <3>1, <3>2, <3>3, MapsRunLate DEF Mapped
  <2> QED BY <2>2, <2>3, <2>4
<1>6. CASE Expiry \/ EngineRestart
  <2>1. ledger' = ledger
    BY <1>6 DEF Expiry, EngineRestart, EngineOnly
  <2>2. ASSUME NEW p \in SessionIds
        PROVE  Keeps(p)' # Keeps(p) => Keeps(p) = "there" /\ Keeps(p)' = "lost"
    BY <1>1, <1>6, EndLives DEF Keeps, Live, SessionIds
  <2>3. promised \in [context : SessionIds, transaction : SessionIds]
    BY DEF TypeInv, TypeOK
  <2>4. /\ KeptNow'.context # KeptNow.context =>
             KeptNow.context = "there" /\ KeptNow'.context = "lost"
        /\ KeptNow'.transaction # KeptNow.transaction =>
             KeptNow.transaction = "there" /\ KeptNow'.transaction = "lost"
    <3> DEFINE x == promised.context
               t == promised.transaction
    <3>1. x \in SessionIds /\ t \in SessionIds
      BY <2>3
    <3>2. /\ KeptNow.context = Keeps(x) /\ KeptNow'.context = Keeps(x)'
          /\ KeptNow.transaction = Keeps(t) /\ KeptNow'.transaction = Keeps(t)'
      BY DEF KeptNow
    <3> QED BY <1>1, <2>2, <3>1, <3>2 DEF Keeps, Live
  <2> QED BY <1>1, <1>2, <2>1, <2>4, LedgerStays, MapsLose DEF Mapped
<1> QED BY <1>3, <1>4, <1>5, <1>6 DEF Engine

\* A call that returns stays on its side of the contract's stages.
LEMMA ReturnStays ==
    ASSUME KeepInv, at # "idle", NEW h, NEW r, Return(h, r)
    PROVE  Stage' = Stage /\ conn # "closed" /\ conn' # "closed"
<1>1. /\ conn' = Verdict(r)
      /\ \/ conn = "connecting" /\ job.kind = "use"
         \/ conn = "open" /\ job.kind \in {"statement", "ping"}
  BY DEF Return, KeepInv, WhoCalls
<1>2. \/ conn = "connecting" /\ conn' \in {"connecting", "failing"}
      \/ conn = "open" /\ conn' \in {"open", "unfit"}
  BY <1>1 DEF Verdict
<1> QED BY <1>2 DEF Stage

\* A call that heard nothing of a loss, and has no success to report.
LEMMA MapsFailure ==
    ASSUME Invariants, at # "idle", calls' = calls, NEW h, NEW r \in NoAnswerCodes \cup {"HY000"},
           Return(h, r),
           promised # Nothing => h.session_id = H.session_id /\ (HandleLive' <=> HandleLive)
    PROVE  Mapped
<1> USE DEF Invariants
<1>1. Stage' = Stage /\ conn # "closed" /\ conn' # "closed"
  BY ReturnStays
<1>2. r \notin {"ok", "08003"}
  BY DEF NoAnswerCodes
<1>3. promised' = promised /\ H' = h
  BY <1>2, NoNews DEF Return
<1>4. KeptNow' = KeptNow
  BY <1>1, <1>3, KeptStays
<1>5. CASE job.kind = "statement"
  BY <1>1, <1>4, <1>5, ReturnReports, RunningStatement, MapsFail DEF Mapped
<1>6. CASE job.kind # "statement"
  BY <1>1, <1>4, <1>6, ReturnReports, StutterIsMapped DEF Same
<1> QED BY <1>5, <1>6

LEMMA MapsGiveUp == Invariants /\ GiveUp => Mapped
<1> SUFFICES ASSUME Invariants, GiveUp PROVE Mapped
  OBVIOUS
<1> USE DEF Invariants
<1>1. at # "idle" /\ calls' = calls /\ H' = H
  BY DEF GiveUp, Unreachable, TimedOut, AnswerLost, LedgerInv, IdleIsQuiet, Return
<1>2. PICK code \in NoAnswerCodes : Return(H, code)
  BY DEF GiveUp, Unreachable, TimedOut, AnswerLost, NoAnswerCodes
<1>3. HandleLive' <=> HandleLive
  <2>1. CASE sessions' = sessions
    BY <1>1, <2>1 DEF HandleLive, Live
  <2>2. CASE wire.answer.sid # NoSession
             /\ sessions' = [sessions EXCEPT ![wire.answer.sid] = Unhear(@, wire.request.job)]
    <3> DEFINE a == wire.answer.sid
    <3>1. a \in Sessions /\ wire.request.job \in Job /\ sessions \in [Sessions -> Session]
      BY <2>2 DEF TypeInv, TypeOK, Answer, Request, SessionIds, EngineTypeOK
    <3>2. Unhear(sessions[a], wire.request.job).live = sessions[a].live
      BY <3>1, RunningLives
    <3>3. \A s \in Sessions : sessions'[s].live = sessions[s].live
      BY <2>2, <3>1, <3>2
    <3> QED BY <1>1, <3>3 DEF HandleLive, Live
  <2> QED BY <2>1, <2>2 DEF GiveUp, Unreachable, TimedOut, AnswerLost
<1> QED BY <1>1, <1>2, <1>3, MapsFailure

\* A loss is told where the statement has not run.
LEMMA MapsLoss ==
    ASSUME Invariants, at # "idle", wire.answer.verdict = "gone", calls' = calls,
           job.kind # "statement" => promised = Nothing,
           NEW h, Return(h, "08003")
    PROVE  Mapped
<1> USE DEF Invariants
<1>1. Stage' = Stage
  BY ReturnStays
<1>2. CASE job.kind = "statement"
  <2>1. promised' = Nothing
    BY <1>2 DEF Return, Promises
  <2>2. NothingKept'
    BY <2>1 DEF NothingKept, KeptNow, Keeps, Nothing
  <2>3. MayStillRun
    BY DEF MayStillRun
  <2> QED BY <1>1, <1>2, <2>2, <2>3, ReturnReports, RunningStatement, MapsTellLoss DEF Mapped
<1>3. CASE job.kind # "statement"
  <2>1. promised' = promised
    BY <1>3 DEF Return, Promises
  <2> QED BY <1>1, <1>3, <2>1, NothingStays, ReturnReports, StutterIsMapped DEF Same
<1> QED BY <1>2, <1>3

\* A statement that worked keeps what was kept, and adds its own.
LEMMA MapsDone == Invariants /\ StatementDone => Mapped
<1> SUFFICES ASSUME Invariants, StatementDone PROVE Mapped
  OBVIOUS
<1> USE DEF Invariants
<1> DEFINE s == wire.answer.sid
           h == TrackSession(Heard, job.sql)
<1>1. /\ at \in {"statement", "replay"} /\ wire.phase = "answered" /\ wire.answer.verdict = "ok"
      /\ Return(h, "ok") /\ sessions' = sessions /\ calls' = calls /\ at # "idle"
  BY DEF StatementDone, Answered, Received
<1>2. Stage' = Stage /\ conn # "closed" /\ conn' # "closed"
  BY <1>1, ReturnStays
<1>3. CASE job.kind # "statement"
  <2>1. promised = Nothing /\ promised' = promised
    BY <1>1, <1>3 DEF KeepInv, OwesNothing, Return, Promises
  <2> QED BY <1>1, <1>2, <1>3, <2>1, NothingStays, ReturnReports, StutterIsMapped DEF Same
<1>4. CASE job.kind = "statement"
  <2>1. H'.session_id = s /\ s # NoSession /\ (H.session_id # NoSession => H.session_id = s)
    <3>1. Heard.session_id = s /\ s # NoSession /\ (H.session_id # NoSession => H.session_id = s)
      BY <1>1, HeardKeeps DEF KeepInv, WhichSession
    <3>2. Heard \in Handle /\ job.sql \in Sql
      BY HeardType, JobSql DEF TypeInv, TypeOK
    <3> QED BY <1>1, <3>1, <3>2, TrackFields DEF Return
  <2>2. Covers(H, promised)
    BY <1>2 DEF KeepInv, KeepsPromises
  <2>3. /\ promised'.context = IF job.sql.touches THEN s ELSE promised.context
        /\ promised'.transaction = CASE job.sql.effect = 1 -> s
                                     [] job.sql.effect = -1 -> NoSession
                                     [] OTHER -> promised.transaction
    BY <1>1, <1>4 DEF Return, Promises
  <2>4. /\ promised'.context \in {s, promised.context}
        /\ promised'.transaction \in {s, NoSession, promised.transaction}
    BY <2>3
  <2> DEFINE There == IF Live(s) THEN "there" ELSE "lost"
  <2>5. /\ \A p : p = s => Keeps(p)' = There
        /\ Keeps(NoSession)' = "none"
    BY <1>1, <1>2, <2>1 DEF Keeps, Live
  <2>6. ASSUME NEW p, p = NoSession \/ p = H.session_id
        PROVE  Keeps(p) = IF p = NoSession THEN "none" ELSE There
    BY <1>2, <2>1, <2>6 DEF Keeps
  <2>7. /\ KeptNow.context = IF promised.context = NoSession THEN "none" ELSE There
        /\ KeptNow.transaction = IF promised.transaction = NoSession THEN "none" ELSE There
    BY <2>2, <2>6 DEF KeptNow, Covers
  <2>8. /\ KeptNow'.context = IF promised'.context = NoSession THEN "none" ELSE There
        /\ KeptNow'.transaction = IF promised'.transaction = NoSession THEN "none" ELSE There
    <3>1. promised'.context \in {NoSession, s} /\ promised'.transaction \in {NoSession, s}
      BY <2>1, <2>2, <2>4 DEF Covers
    <3> QED BY <1>1, <1>2, <2>1, <3>1 DEF KeptNow, Keeps, Live
  <2>9. promised.context # NoSession => promised'.context # NoSession
    BY <2>1, <2>3
  <2>10. /\ KeptNow.context # "none" => KeptNow'.context = KeptNow.context
         /\ KeptNow.transaction # "none" =>
              KeptNow'.transaction \in {KeptNow.transaction, "none"}
    <3> HIDE DEF There
    <3> QED BY <2>7, <2>8, <2>9
  <2>11. ~MayStillRun
    BY <1>1 DEF MayStillRun, InScope
  <2>12. OpenReport /\ Count[calls] = 1 /\ Count' = Count /\ Report' = [Report EXCEPT ![calls] = "ok"]
    BY <1>1, <1>4, <2>11, RunningStatement, ReturnReports
  <2> QED BY <1>1, <1>2, <2>10, <2>12, MapsSucceed DEF Mapped
<1> QED BY <1>3, <1>4

LEMMA MapsReceive == Invariants /\ Receive => Mapped
<1> SUFFICES ASSUME Invariants, Receive PROVE Mapped
  OBVIOUS
<1> USE DEF Invariants
<1>1. wire.phase = "answered" /\ at # "idle" /\ sessions' = sessions /\ calls' = calls
  BY ReceiveShape
<1>2. CASE GoOn
  <2>1. promised = Nothing
    <3>1. ScopeItem \/ ScopeWhole \/ ScopeRestart \/ LossRepaired
      <4>1. ASSUME NEW h, NEW r PROVE ~Return(h, r)
        BY <1>1, <1>2, <4>1 DEF GoOn, Return, NoJob, KeepInv, WhoCalls
      <4> QED BY <4>1 DEF Receive, ScopeLost, ScopeFailed, StatementDone, StatementFailed,
                          LossReported, SecondRefusal, ProbeDone
    <3>2. CASE ScopeItem \/ ScopeWhole \/ ScopeRestart
      BY <3>2 DEF ScopeItem, ScopeWhole, ScopeRestart, Answered, InScope, KeepInv, OwesNothing
    <3>3. CASE LossRepaired
      BY <1>1, <3>3, CleanOwesNothing DEF LossRepaired, HeldSomething, KeepInv, WhoCalls
    <3> QED BY <3>1, <3>2, <3>3
  <2>2. promised' = promised /\ ledger' = ledger /\ Stage' = Stage
    BY <1>2 DEF GoOn, Stage
  <2> QED BY <1>1, <2>1, <2>2, NothingStays, LedgerStays, StutterIsMapped DEF Same
<1>3. CASE Return(Forget(H), "08003") /\ wire.answer.verdict = "gone" /\ at # "probe"
  <2>1. job.kind # "statement" => promised = Nothing
    BY <1>1, <1>3 DEF KeepInv, OwesNothing, TypeInv, TypeOK, Locations
  <2> QED BY <1>1, <1>3, <2>1, MapsLoss
<1>4. ASSUME NEW r \in NoAnswerCodes \cup {"HY000"}, Return(Heard, r) PROVE Mapped
  <2>1. H' = Heard
    BY <1>4 DEF Return
  <2>2. promised # Nothing => Heard.session_id = H.session_id
    <3>1. Covers(H, promised) /\ promised \in [context : SessionIds, transaction : SessionIds]
      BY <1>1 DEF KeepInv, KeepsPromises, WhoCalls, TypeInv, TypeOK
    <3>2. promised # Nothing => H.session_id # NoSession
      BY <3>1 DEF Covers, Nothing
    <3> QED BY <1>1, <3>2, HeardKeeps
  <2>3. promised # Nothing => (HandleLive' <=> HandleLive)
    BY <1>1, <2>1, <2>2 DEF HandleLive, Live
  <2> QED BY <1>1, <1>4, <2>2, <2>3, MapsFailure
<1>5. CASE StatementDone
  BY <1>5, MapsDone
<1>6. CASE ProbeDone /\ Return(Heard, "ok")
  <2>1. job.kind = "ping"
    BY <1>6 DEF ProbeDone, Answered, KeepInv, WhoCalls
  <2>2. promised' = promised /\ H' = Heard
    BY <1>6, <2>1 DEF Return, Promises
  <2>3. promised # Nothing => Heard.session_id = H.session_id
    <3>1. Covers(H, promised) /\ promised \in [context : SessionIds, transaction : SessionIds]
      BY <1>1 DEF KeepInv, KeepsPromises, WhoCalls, TypeInv, TypeOK
    <3>2. promised # Nothing => H.session_id # NoSession
      BY <3>1 DEF Covers, Nothing
    <3> QED BY <1>1, <3>2, HeardKeeps
  <2>4. promised # Nothing => (HandleLive' <=> HandleLive)
    BY <1>1, <2>2, <2>3 DEF HandleLive, Live
  <2>5. Stage' = Stage /\ conn # "closed" /\ conn' # "closed"
    BY <1>1, <1>6, ReturnStays
  <2>6. KeptNow' = KeptNow
    BY <2>2, <2>3, <2>4, <2>5, KeptStays
  <2> QED BY <1>1, <1>6, <2>1, <2>5, <2>6, ReturnReports, StutterIsMapped DEF Same
<1> QED BY <1>2, <1>3, <1>4, <1>5, <1>6, ReceiveReturns DEF NoAnswerCodes

LEMMA MapsStep == Invariants /\ [Next]_vars => Mapped
<1> SUFFICES ASSUME Invariants, [Next]_vars PROVE Mapped
  OBVIOUS
<1>1. CASE Next
  BY <1>1, MapsApplication, MapsEngine, MapsPost, MapsGiveUp, MapsReceive DEF Next
<1>2. CASE UNCHANGED vars
  <2>1. UNCHANGED <<conn, H, calls, ledger, promised, sessions>>
    BY <1>2 DEF vars
  <2>2. Stage' = Stage /\ KeptNow' = KeptNow
    BY <2>1 DEF Stage, KeptNow, Keeps, Live
  <2> QED BY <2>1, <2>2, LedgerStays, StutterIsMapped DEF Same
<1> QED BY <1>1, <1>2

(***************************************************************************)
(* Against an engine that tracks sessions the connection implements        *)
(* SessionContract: through lost sessions, retries, requests that run late *)
(* and answers that never come, a statement runs at most once, never in    *)
(* place of a loss the application has not heard of, and every report is   *)
(* true (pdo_frostlake_execute, session_lost and                           *)
(* pdo_frostlake_track_session together).                                  *)
(***************************************************************************)
THEOREM KeepsTheContract == ASSUME ~Legacy PROVE Spec => ImplementsContract
<1>1. Init => Contract!Init
  BY MapsInit
<1>2. TypeInv /\ LedgerInv /\ KeepInv /\ CallsInv /\ [Next]_vars => [Contract!Next]_(Contract!vars)
  BY MapsStep DEF Invariants, Mapped
<1>3. Spec => []KeepInv
  BY KeepInvariant
<1> QED BY <1>1, <1>2, <1>3, TypeInit, TypeStep, LedgerInvariant, CallsInvariant, PTL
        DEF Spec, ImplementsContract, Contract!Spec

=============================================================================
