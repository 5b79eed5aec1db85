-------------------------- MODULE StatementCursor --------------------------
(***************************************************************************)
(* A prepared statement between its executions and its fetches             *)
(* (frostlake_statement.c, and the error record of frostlake_driver.c).    *)
(* The whole answer arrives with the execution; what the statement keeps   *)
(* are pointers into it: `columns` and `rows` of the current result set.   *)
(* A pointer is <<execution, result set>>, or NULL.  `answers` remembers   *)
(* every answer ever given, so a pointer into one already freed shows.     *)
(* Around the driver stands PDO, which is not in this repository: its      *)
(* `executed` flag, column count, row count and error code.                *)
(***************************************************************************)
EXTENDS Integers, Sequences

CONSTANTS Answers,   \* what an execution may answer: a sequence of result sets each
          MaxRuns,   \* bound: executions of the statement
          MaxColno   \* bound: the highest column number getColumnMeta is asked for

Absent == -1         \* a result set without "columns", "rows" or "updateCount"
NULL == <<>>
TheEnd == <<>>
NoError == "00000"
\* A failure PDO raises itself: an attribute no statement has, PDO::quote().
PdoOwn == "IM001"
Refusals == {"HY093", "HY000", "08003"}
Recorded == Refusals \union {"07009", "HY001"}
Codes == Recorded \union {NoError, PdoOwn}

ResultSets == [columns : Int, rows : Int, updateCount : Int]

ASSUME CursorAssumption ==
  /\ MaxRuns \in Nat
  /\ MaxColno \in Nat
  /\ \A a \in Answers :
       /\ a \in Seq(ResultSets)
       /\ \A k \in DOMAIN a : a[k].columns >= Absent /\ a[k].rows >= Absent /\ a[k].updateCount >= Absent

VARIABLES S,         \* pdo_frostlake_stmt: response (an execution, 0 for NULL), result_set, columns, rows, row, errmsg
          pdo,       \* pdo_stmt_t: executed, column_count, row_count, error_code
          answers,   \* the answer of each execution tried so far, <<>> of a refused one
          alive,     \* the answers allocated and not freed
          given      \* what the last fetch answered: a row <<execution, result set, row>>, or the end

vars == <<S, pdo, answers, alive, given>>

Pointers == {NULL} \union ((1 .. Len(answers)) \X Nat)

At(pointer) == answers[pointer[1]][pointer[2]]

\* Every variable keeps its type, and the cursor never stands beyond the rows it
\* walks: getColumn reads row number `row` of them (get_col).
TypeOK ==
  /\ answers \in Seq(Answers \union {<<>>})
  /\ S.response \in 0 .. Len(answers)
  /\ S.result_set \in Nat
  /\ S.columns \in Pointers
  /\ S.rows \in Pointers
  /\ S.row \in Int
  /\ S.row >= -1
  /\ S.rows # NULL => S.row < At(S.rows).rows
  /\ S.errmsg \in Codes
  /\ pdo \in [executed : BOOLEAN, column_count : Nat, row_count : Nat, error_code : Codes]
  /\ alive \subseteq 1 .. Len(answers)
-----------------------------------------------------------------------------
\* pdo_frostlake_handle_preparer
NewStatement == [response |-> 0, result_set |-> 0, columns |-> NULL, rows |-> NULL, row |-> -1, errmsg |-> NoError]
NewPdo == [executed |-> FALSE, column_count |-> 0, row_count |-> 0, error_code |-> NoError]

Init ==
  /\ S = NewStatement
  /\ pdo = NewPdo
  /\ answers = <<>>
  /\ alive = {}
  /\ given = TheEnd

\* A plausible slip: the columns of a freed answer stay pointed at.
ClearResultKeepsColumns(s) == [s EXCEPT !.response = 0, !.result_set = 0, !.rows = NULL, !.row = -1]

ClearResult(s) ==
  [s EXCEPT !.response = 0, !.result_set = 0, !.columns = NULL, !.rows = NULL, !.row = -1]

\* What clear_result leaves allocated.
StillAlive == alive \ {S.response}

\* A plausible slip: the row of the result set before is where this one starts.
EnterResultSetKeepsRow(s, e, k, content) ==
  [s EXCEPT !.columns = IF content.columns = Absent THEN NULL ELSE <<e, k + 1>>,
            !.rows = IF content.rows = Absent THEN NULL ELSE <<e, k + 1>>]

EnterResultSet(s, e, k, content) ==
  [s EXCEPT !.columns = IF content.columns = Absent THEN NULL ELSE <<e, k + 1>>,
            !.rows = IF content.rows = Absent THEN NULL ELSE <<e, k + 1>>,
            !.row = -1]

RowCount(content) ==
  IF content.updateCount >= 0 THEN content.updateCount
  ELSE IF content.rows = Absent THEN 0 ELSE content.rows

\* What enter_result_set tells PDO of the result set it enters.
Counts(p, content) ==
  [p EXCEPT !.column_count = IF content.columns = Absent THEN 0 ELSE content.columns,
            !.row_count = RowCount(content)]

\* A plausible slip: the message of the failure before is kept.
RecordsTheFirst(s, code) == [s EXCEPT !.errmsg = IF @ = NoError THEN code ELSE @]

\* pdo_frostlake_error on a statement; a message is named by the code it came with.
Records(s, code) == [s EXCEPT !.errmsg = code]

\* What an execution does before anything can fail: the message and the answer
\* of the execution before are let go.
Cleared == ClearResult([S EXCEPT !.errmsg = NoError])

\* pdo_frostlake_stmt_execute, answered with content.
Execute(content) ==
  LET e == Len(answers) + 1
      s == [Cleared EXCEPT !.response = e]
      p == [pdo EXCEPT !.executed = TRUE, !.error_code = NoError]
  IN /\ Len(answers) < MaxRuns
     /\ answers' = Append(answers, content)
     /\ alive' = StillAlive \union {e}
     /\ IF content = <<>>
        THEN /\ S' = s
             /\ pdo' = [p EXCEPT !.column_count = 0, !.row_count = 0]
        ELSE /\ S' = EnterResultSet(s, e, 0, content[1])
             /\ pdo' = Counts(p, content[1])
     /\ UNCHANGED given

\* pdo_frostlake_stmt_execute, refused: the bound values do not fit the markers
\* (HY093), the connection is closed or has lost its session (08003), or the
\* request failed (HY000 stands for the other codes the wire records).
\* PDO leaves `executed` and its counts as they were.
ExecuteRefused(code) ==
  /\ Len(answers) < MaxRuns
  /\ answers' = Append(answers, <<>>)
  /\ alive' = StillAlive
  /\ S' = Records(Cleared, code)
  /\ pdo' = [pdo EXCEPT !.error_code = code]
  /\ UNCHANGED given

\* The row a fetch stepped to is read column by column (get_col); for a value
\* that is an array or an object there may be no memory, which is recorded.
ReadsTheRow(s) ==
  \/ S' = s /\ pdo' = [pdo EXCEPT !.error_code = NoError]
  \/ S' = Records(s, "HY001") /\ pdo' = [pdo EXCEPT !.error_code = "HY001"]

\* A plausible slip: one row too many.
FetchOneMore ==
  /\ pdo.executed
  /\ IF S.rows = NULL \/ S.row + 1 > At(S.rows).rows
     THEN given' = TheEnd /\ UNCHANGED S /\ pdo' = [pdo EXCEPT !.error_code = NoError]
     ELSE /\ given' = <<S.rows[1], S.rows[2], S.row + 2>>
          /\ ReadsTheRow([S EXCEPT !.row = @ + 1])
  /\ UNCHANGED <<answers, alive>>

\* pdo_frostlake_stmt_fetch, then get_col.  PDO asks a statement for rows only
\* after an execution it counts.
Fetch ==
  /\ pdo.executed
  /\ IF S.rows = NULL \/ S.row + 1 >= At(S.rows).rows
     THEN given' = TheEnd /\ UNCHANGED S /\ pdo' = [pdo EXCEPT !.error_code = NoError]
     ELSE /\ given' = <<S.rows[1], S.rows[2], S.row + 2>>
          /\ ReadsTheRow([S EXCEPT !.row = @ + 1])
  /\ UNCHANGED <<answers, alive>>

\* pdo_frostlake_stmt_next_rowset.  PDO drops its columns first, and where there
\* is no next result set it no longer counts the statement as executed.
NextRowset ==
  LET p == [pdo EXCEPT !.column_count = 0, !.error_code = NoError]
      sets == answers[S.response]
      k == S.result_set + 1
  IN /\ IF S.response = 0 \/ k >= Len(sets)
        THEN pdo' = [p EXCEPT !.executed = FALSE] /\ UNCHANGED S
        ELSE /\ S' = EnterResultSet([S EXCEPT !.result_set = k], S.response, k, sets[k + 1])
             /\ pdo' = Counts(p, sets[k + 1])
     /\ UNCHANGED <<answers, alive, given>>

\* pdo_frostlake_stmt_cursor_closer
CloseCursor ==
  /\ S' = ClearResult(S)
  /\ alive' = StillAlive
  /\ pdo' = [pdo EXCEPT !.executed = FALSE, !.error_code = NoError]
  /\ UNCHANGED <<answers, given>>

\* pdo_frostlake_stmt_dtor: the statement object is dropped; and another is
\* prepared (pdo_frostlake_handle_preparer).
Renew ==
  /\ S' = NewStatement /\ pdo' = NewPdo
  /\ alive' = StillAlive
  /\ UNCHANGED <<answers, given>>

\* pdo_frostlake_stmt_column_meta: a column the current result set has is
\* described without a change of state, another is refused.
ColumnMeta(colno) ==
  /\ IF S.columns # NULL /\ colno < At(S.columns).columns
     THEN pdo' = [pdo EXCEPT !.error_code = NoError] /\ UNCHANGED S
     ELSE pdo' = [pdo EXCEPT !.error_code = "07009"] /\ S' = Records(S, "07009")
  /\ UNCHANGED <<answers, alive, given>>

\* A statement attribute: this driver has none to set and none to answer, so PDO
\* refuses by itself, and what the driver keeps stays.
AttributeRefused ==
  /\ pdo' = [pdo EXCEPT !.error_code = PdoOwn]
  /\ UNCHANGED <<S, answers, alive, given>>

Next ==
  \/ \E content \in Answers : Execute(content)
  \/ \E code \in Refusals : ExecuteRefused(code)
  \/ Fetch
  \/ NextRowset
  \/ CloseCursor
  \/ Renew
  \/ \E colno \in 0 .. MaxColno : ColumnMeta(colno)
  \/ AttributeRefused

Spec == Init /\ [][Next]_vars
-----------------------------------------------------------------------------
\* columns and rows point into the answer the statement holds, at the result set
\* it stands on, and that answer is the latest execution's and the only one not
\* freed: clear_result and enter_result_set have to move all of them together, on
\* every path.
NoDangling ==
  /\ alive = {S.response} \ {0}
  /\ S.response # 0 => S.response = Len(answers)
  /\ S.columns # NULL => S.response # 0 /\ S.columns = <<S.response, S.result_set + 1>>
  /\ S.rows # NULL => S.response # 0 /\ S.rows = <<S.response, S.result_set + 1>>

\* While PDO reports a failure the driver recorded, the message fetch_error adds
\* is that failure's and not an earlier one's: execute lets the message go, the
\* other methods leave it where it is.  (What PDO raises itself is not among them:
\* see OwnMessageOnly of PdoConnection.)
ErrorsInStep == pdo.error_code \in Recorded => S.errmsg = pdo.error_code

\* The rows an answer's result set holds, as ResultStream counts them.
RowsOf(content) == IF content.rows = Absent THEN 0 ELSE content.rows

\* Row r of result set k of the held answer, counting from 1.
LeftOf(k) ==
  LET read == IF k = S.result_set + 1 THEN S.row + 1 ELSE 0
  IN [r \in 1 .. RowsOf(answers[S.response][k]) - read |-> <<S.response, k, r + read>>]

Left ==
  IF S.response = 0 THEN <<>>
  ELSE [k \in 1 .. Len(answers[S.response]) - S.result_set |-> LeftOf(k + S.result_set)]

Stream == INSTANCE ResultStream WITH
  Shapes <- {[k \in DOMAIN a |-> RowsOf(a[k])] : a \in Answers},
  run <- Len(answers), left <- Left

\* A statement reads as the stream ResultStream promises: over executions that
\* succeed and that are refused, result sets skipped and cursors closed, every
\* row comes once and in order, no row of an earlier answer comes at all, and the
\* end is told only where a result set ends.
ReadsTheStream == Stream!Spec
=============================================================================
