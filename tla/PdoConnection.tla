--------------------------- MODULE PdoConnection ---------------------------
(***************************************************************************)
(* The connection methods of frostlake_driver.c around one prepared        *)
(* statement (StatementCursor), and the records failures leave: the code   *)
(* in pdo_dbh_t, the message in the handle, and, while the connection is   *)
(* being opened, an exception.  What a request comes to is chosen here;    *)
(* FrostlakeSession says how it comes about.  A message is named by the    *)
(* code it was recorded with.                                              *)
(***************************************************************************)
EXTENDS StatementCursor

CONSTANT ScopeMax    \* PDO_FROSTLAKE_SCOPE_MAX: the role comes first

ASSUME ConnectionAssumption == ScopeMax \in 1 .. 4

VARIABLES
  place,      \* where the connection is, see Places
  item,       \* the next of the factory's use_object calls
  dbh,        \* pdo_dbh_t: methods (whether they are set), error_code
  errmsg,     \* pdo_frostlake_db_handle.errmsg
  thrown      \* the exceptions the driver threw, by their code

connectionVars == <<place, item, dbh, errmsg, thrown>>
allVars == <<vars, connectionVars>>

\* "parse", "health", "use": in the factory.  "using", "failed", "used": in
\* use_object, while its execution runs, has failed, and when it is back from it.
\* "cleanup": about to leave the factory.  "open": there is a handle.  "closed":
\* dbh->driver_data is NULL.
Places == {"parse", "health", "use", "using", "failed", "used", "cleanup", "refused", "open", "closed"}

\* What an execution may end in besides success; 08S01 stands for HYT00 too.
Failures == {"HY000", "08S01", "08003"}
DbhRecorded == Failures \union {"08001"}
DbhCodes == DbhRecorded \union {NoError, PdoOwn}

ConnectionTypeOK ==
  /\ TypeOK
  /\ place \in Places /\ item \in 1 .. ScopeMax + 1
  /\ dbh \in [methods : BOOLEAN, error_code : DbhCodes]
  /\ errmsg \in DbhCodes
  /\ thrown \in Seq(DbhCodes)

ConnectionInit ==
  /\ Init
  /\ place = "parse" /\ item = 1
  /\ dbh = [methods |-> FALSE, error_code |-> NoError]
  /\ errmsg = NoError /\ thrown = <<>>

-----------------------------------------------------------------------------
\* Opening a connection, and its own calls, leave the statement alone.
Statement == UNCHANGED vars

\* A plausible slip: with the methods set it throws all the same.
ErrorThrows(code) ==
  /\ dbh' = [dbh EXCEPT !.error_code = code]
  /\ errmsg' = IF place = "closed" THEN errmsg ELSE code
  /\ thrown' = Append(thrown, code)

(***************************************************************************)
(* pdo_frostlake_error on a connection.  Without a handle nothing keeps    *)
(* the message; without methods the connection is taken to be opening, and *)
(* an exception is thrown.                                                 *)
(***************************************************************************)
Error(code) ==
  /\ dbh' = [dbh EXCEPT !.error_code = code]
  /\ errmsg' = IF place = "closed" THEN errmsg ELSE code
  /\ thrown' = IF dbh.methods THEN thrown ELSE Append(thrown, code)

Clean == dbh' = [dbh EXCEPT !.error_code = NoError] /\ errmsg' = NoError /\ UNCHANGED thrown

\* The port of the data source, and then the server's health.
Proceed ==
  /\ place \in {"parse", "health"}
  /\ place' = IF place = "parse" THEN "health" ELSE "use"
  /\ Statement /\ UNCHANGED <<item, dbh, errmsg, thrown>>

Refuse ==
  /\ place \in {"parse", "health"} /\ place' = "cleanup"
  /\ Error("08001")
  /\ Statement /\ UNCHANGED item

(***************************************************************************)
(* use_object.  Its execution records like any other, but a refusal of the *)
(* engine is not yet a failure of the connection: for as long as it runs   *)
(* the methods are set, so that recording does not throw, and afterwards   *)
(* the code on record decides.                                             *)
(***************************************************************************)
Required == item = 1
UseNext == place = "use" /\ item <= ScopeMax /\ Statement
NextUse == place' = "use" /\ item' = item + 1

\* Not asked for, or no identifier where that may be.
UseSkipped == UseNext /\ NextUse /\ UNCHANGED <<dbh, errmsg, thrown>>

\* A role that is no identifier.
NoRole ==
  /\ UseNext /\ Required /\ place' = "cleanup" /\ Error("08001")
  /\ UNCHANGED item

\* A plausible slip: the methods are not set meanwhile, so recording throws.
UseSendsBare ==
  /\ UseNext /\ place' = "using"
  /\ UNCHANGED <<item, dbh, errmsg, thrown>>

UseSends ==
  /\ UseNext /\ place' = "using"
  /\ dbh' = [dbh EXCEPT !.methods = TRUE]
  /\ UNCHANGED <<item, errmsg, thrown>>

\* The execution failed; or, on its way, apply_scope puts an optional USE on a
\* fresh session, is refused, and clears what that recorded (clear_failure).
UseRecords(code) ==
  /\ place = "using" /\ place' = "failed"
  /\ Error(code)
  /\ Statement /\ UNCHANGED item

UseClears ==
  /\ place = "failed" /\ place' = "using"
  /\ dbh.error_code = "HY000" /\ ~Required /\ Clean
  /\ Statement /\ UNCHANGED item

\* The methods are as they were again.
UseWorks ==
  /\ place = "using" /\ NextUse
  /\ dbh' = [dbh EXCEPT !.methods = FALSE]
  /\ Statement /\ UNCHANGED <<errmsg, thrown>>

UseReturns ==
  /\ place = "failed" /\ place' = "used"
  /\ dbh' = [dbh EXCEPT !.methods = FALSE]
  /\ Statement /\ UNCHANGED <<item, errmsg, thrown>>

\* What decides is the code: an optional USE the engine refused is left off, and
\* every other failure refuses the connection.
LeftOff == dbh.error_code = "HY000" /\ ~Required

UseLeftOff == place = "used" /\ LeftOff /\ Clean /\ NextUse /\ Statement

UseRefused ==
  /\ place = "used" /\ ~LeftOff /\ place' = "cleanup"
  /\ thrown' = Append(thrown, dbh.error_code)
  /\ Statement /\ UNCHANGED <<item, dbh, errmsg>>

Opened ==
  /\ place = "use" /\ item = ScopeMax + 1 /\ place' = "open"
  /\ dbh' = [dbh EXCEPT !.methods = TRUE]
  /\ Statement /\ UNCHANGED <<item, errmsg, thrown>>

\* free_handle takes the message along; PDO keeps the code.
FreeHandle == errmsg' = NoError

CleanUp ==
  /\ place = "cleanup" /\ place' = "refused" /\ FreeHandle
  /\ Statement /\ UNCHANGED <<item, dbh, thrown>>

-----------------------------------------------------------------------------
(* The methods of an open connection.  PDO clears its code before a call.  *)
(* With no handle ("closed") they meet the driver's own checks for one.    *)

Usable == place \in {"open", "closed"}

\* exec, begin, commit, rollback: clear_error, then the execution.
Exec ==
  /\ place = "open" /\ Clean
  /\ Statement /\ UNCHANGED <<place, item>>

\* A plausible slip: clear_error after the execution, not before it.
ExecFailsClearing(code) ==
  /\ Usable /\ (place = "closed" => code = "08003")
  /\ dbh' = [dbh EXCEPT !.error_code = code] /\ errmsg' = NoError
  /\ Statement /\ UNCHANGED <<place, item, thrown>>

ExecFails(code) ==
  /\ Usable /\ (place = "closed" => code = "08003")
  /\ Error(code)
  /\ Statement /\ UNCHANGED <<place, item>>

\* pdo_frostlake_handle_preparer, in place of the statement there was.
Prepare ==
  /\ place = "open" /\ Renew
  /\ dbh' = [dbh EXCEPT !.error_code = NoError]
  /\ UNCHANGED <<place, item, errmsg, thrown>>

PrepareRefused ==
  /\ place = "closed" /\ Error("08003")
  /\ Statement /\ UNCHANGED <<place, item>>

(***************************************************************************)
(* pdo_frostlake_check_liveness.  PDO clears no code here.  Putting the    *)
(* scope back may clear a record (clear_failure, in apply_scope); what     *)
(* fails is recorded; and a handle no object holds is freed.               *)
(***************************************************************************)
CheckPasses ==
  /\ place = "open" /\ (Clean \/ UNCHANGED <<dbh, errmsg, thrown>>)
  /\ Statement /\ UNCHANGED <<place, item>>

\* A bare probe whose session is gone fails without a record.
CheckRecords(code) ==
  \/ Error(code)
  \/ UNCHANGED <<dbh, errmsg, thrown>>

CheckFails(code) ==
  /\ place = "open" /\ CheckRecords(code)
  /\ Statement /\ UNCHANGED <<place, item>>

\* The same where only the list of persistent connections holds the handle.
CheckLetsGo(code) ==
  /\ place = "open" /\ place' = "closed" /\ FreeHandle
  /\ dbh' \in {dbh, [dbh EXCEPT !.error_code = code]}
  /\ Statement /\ UNCHANGED <<item, thrown>>

\* PDO::quote() and an attribute the driver does not have: refused by PDO itself,
\* which clears its own code first and leaves the driver's message where it is.
PdoRefuses ==
  /\ Usable
  /\ dbh' = [dbh EXCEPT !.error_code = PdoOwn]
  /\ Statement /\ UNCHANGED <<place, item, errmsg, thrown>>

Close ==
  /\ place = "open" /\ place' = "closed" /\ FreeHandle
  /\ Statement /\ UNCHANGED <<item, dbh, thrown>>

(***************************************************************************)
(* The statement's methods: an execution needs the handle.                 *)
(***************************************************************************)
StatementCall ==
  /\ Usable /\ UNCHANGED connectionVars
  /\ \/ \E content \in Answers : place = "open" /\ Execute(content)
     \/ \E code \in Refusals : (place = "closed" => code # "HY000") /\ ExecuteRefused(code)
     \/ Fetch \/ NextRowset \/ CloseCursor
     \/ \E colno \in 0 .. MaxColno : ColumnMeta(colno)
     \/ AttributeRefused

UseObject ==
  \/ UseSkipped \/ NoRole \/ UseSends
  \/ (\E code \in Failures : UseRecords(code)) \/ UseClears
  \/ UseWorks \/ UseReturns \/ UseLeftOff \/ UseRefused

Factory == Proceed \/ Refuse \/ UseObject \/ Opened \/ CleanUp

Checks ==
  \/ CheckPasses
  \/ \E code \in DbhRecorded : CheckFails(code) \/ CheckLetsGo(code)

ConnectionNext ==
  \/ Factory
  \/ Exec \/ (\E code \in Failures : ExecFails(code)) \/ Prepare \/ PrepareRefused
  \/ Checks \/ PdoRefuses \/ Close
  \/ StatementCall

ConnectionSpec == ConnectionInit /\ [][ConnectionNext]_allVars
-----------------------------------------------------------------------------
\* A connection that is refused has thrown once, with the code it was refused
\* with; one that opens has thrown nothing and starts with no failure on record,
\* although use_object's execution records failures and may take them back; and
\* nothing throws once it is open (pdo_frostlake_error's dbh->methods, set and put
\* back by use_object and set by the factory).
RefusedOnce ==
  /\ place = "refused" => thrown = <<dbh.error_code>> /\ dbh.error_code # NoError
  /\ place \in {"use", "using", "open", "closed"} => thrown = <<>>
  /\ place = "use" => dbh.error_code = NoError /\ errmsg = NoError

\* While PDO reports a failure of the connection that the driver recorded, the
\* message fetch_error adds is that failure's, over calls that clear only one of
\* the two and liveness checks that record behind the application's back.
MessageInStep ==
  place = "open" /\ dbh.error_code \in DbhRecorded => errmsg = dbh.error_code

\* What the handle's declaration says of errmsg without the reservation: it is the
\* message of the connection's last failure, so that while PDO reports one, the
\* message fetch_error adds, if it adds any, is that one's.
OwnMessageOnly ==
  place = "open" /\ dbh.error_code # NoError => errmsg \in {NoError, dbh.error_code}
=============================================================================
