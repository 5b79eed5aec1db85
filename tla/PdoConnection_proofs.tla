------------------------ MODULE PdoConnection_proofs ------------------------
(***************************************************************************)
(* Theorems about a prepared statement and the connection around it, for   *)
(* every set of answers, any number of executions and every length of the  *)
(* scope.  First the statement alone: its inductive invariant, and that it *)
(* implements ResultStream; then what the connection keeps of a failure.   *)
(***************************************************************************)
EXTENDS PdoConnection, SequenceTheorems, TLAPS

Pointer == {NULL} \union (Nat \X Nat)
PointerTo(e, k) == <<e, k>>

\* pdo_frostlake_stmt, and what of pdo_stmt_t is modelled.
Cursor ==
  [response : Nat, result_set : Nat, columns : Pointer, rows : Pointer, row : Int, errmsg : Codes]
PdoStatement == [executed : BOOLEAN, column_count : Nat, row_count : Nat, error_code : Codes]

CursorType ==
  /\ answers \in Seq(Answers \union {<<>>})
  /\ S \in Cursor
  /\ S.row >= -1
  /\ pdo \in PdoStatement

(***************************************************************************)
(* TypeOK bounds the row by the rows pointed at; to keep the bound it must *)
(* be known that the pointer leads to a result set, and that there the     *)
(* rows are counted from 0.                                                *)
(***************************************************************************)
OnAResultSet ==
  S.rows # NULL =>
    /\ S.result_set < Len(answers[S.response])
    /\ answers[S.response][S.result_set + 1].rows \in Nat
    /\ S.row < answers[S.response][S.result_set + 1].rows

\* A held answer is walked without rows only where it has none to walk: it is
\* empty, or its current result set came without them.
NoRows ==
  S.response # 0 /\ S.rows = NULL =>
    \/ answers[S.response] = <<>>
    \/ /\ S.result_set < Len(answers[S.response])
       /\ answers[S.response][S.result_set + 1].rows = Absent

CursorInv == CursorType /\ OnAResultSet /\ NoRows /\ NoDangling /\ ErrorsInStep

-----------------------------------------------------------------------------

LEMMA AnswerTypes ==
  ASSUME NEW a \in Answers \union {<<>>}
  PROVE  /\ a \in Seq(ResultSets)
         /\ \A k \in DOMAIN a : a[k] \in ResultSets /\ (a[k].rows # Absent => a[k].rows \in Nat)
                                /\ (a[k].columns # Absent => a[k].columns \in Nat)
<1>1. a \in Seq(ResultSets) /\ \A k \in DOMAIN a : a[k].columns >= Absent /\ a[k].rows >= Absent
  <2>1. CASE a \in Answers
    BY <2>1, CursorAssumption DEF CursorAssumption
  <2>2. CASE a = <<>>
    BY <2>2
  <2> QED BY <2>1, <2>2
<1>2. \A k \in DOMAIN a : a[k] \in ResultSets
  BY <1>1
<1> QED BY <1>1, <1>2 DEF ResultSets, Absent

LEMMA AllCodes ==
  /\ NoError \in Codes /\ PdoOwn \in Codes /\ Refusals \subseteq Codes
  /\ "07009" \in Codes /\ "HY001" \in Codes
  /\ NoError \notin Recorded /\ PdoOwn \notin Recorded
BY DEF Codes, Recorded, Refusals, NoError, PdoOwn

LEMMA AllPointers ==
  /\ NULL \in Pointer
  /\ \A e, k \in Nat : <<e, k>> \in Pointer /\ <<e, k>> # NULL
BY DEF Pointer, NULL

\* A field of a cursor set to a value of its type leaves a cursor.
LEMMA Setting ==
  ASSUME NEW s \in Cursor
  PROVE  /\ \A n \in Nat : [s EXCEPT !.response = n] \in Cursor
         /\ \A n \in Nat : [s EXCEPT !.result_set = n] \in Cursor
         /\ \A q \in Pointer : [s EXCEPT !.columns = q] \in Cursor
         /\ \A q \in Pointer : [s EXCEPT !.rows = q] \in Cursor
         /\ \A n \in Int : [s EXCEPT !.row = n] \in Cursor
         /\ \A code \in Codes : [s EXCEPT !.errmsg = code] \in Cursor
BY DEF Cursor

\* clear_result leaves a statement without an answer.
LEMMA Clears ==
  ASSUME NEW s \in Cursor
  PROVE  /\ ClearResult(s) \in Cursor
         /\ ClearResult(s).response = 0 /\ ClearResult(s).result_set = 0
         /\ ClearResult(s).columns = NULL /\ ClearResult(s).rows = NULL
         /\ ClearResult(s).row = -1 /\ ClearResult(s).errmsg = s.errmsg
<1> DEFINE s1 == [s EXCEPT !.response = 0]
           s2 == [s1 EXCEPT !.result_set = 0]
           s3 == [s2 EXCEPT !.columns = NULL]
           s4 == [s3 EXCEPT !.rows = NULL]
           s5 == [s4 EXCEPT !.row = -1]
<1>1. s5 \in Cursor
  <2>1. s1 \in Cursor
    BY Setting
  <2>2. s2 \in Cursor
    <3> HIDE DEF s1
    <3> QED BY <2>1, Setting
  <2>3. s3 \in Cursor
    <3> HIDE DEF s2
    <3> QED BY <2>2, Setting, AllPointers
  <2>4. s4 \in Cursor
    <3> HIDE DEF s3
    <3> QED BY <2>3, Setting, AllPointers
  <2> HIDE DEF s4
  <2> QED BY <2>4, Setting
<1>2. ClearResult(s) = s5
  BY Zenon DEF ClearResult
<1>3. /\ s5.response = 0 /\ s5.result_set = 0 /\ s5.columns = NULL /\ s5.rows = NULL
      /\ s5.row = -1 /\ s5.errmsg = s.errmsg
  BY DEF Cursor
<1> HIDE DEF s5
<1> QED BY <1>1, <1>2, <1>3

LEMMA RecordsType ==
  ASSUME NEW s \in Cursor, NEW code \in Codes
  PROVE  /\ Records(s, code) \in Cursor /\ Records(s, code).errmsg = code
         /\ Records(s, code).response = s.response /\ Records(s, code).result_set = s.result_set
         /\ Records(s, code).columns = s.columns /\ Records(s, code).rows = s.rows
         /\ Records(s, code).row = s.row
BY DEF Records, Cursor

LEMMA ClearedType ==
  ASSUME CursorInv
  PROVE  /\ Cleared \in Cursor /\ Cleared.response = 0 /\ Cleared.row = -1
         /\ Cleared.columns = NULL /\ Cleared.rows = NULL /\ Cleared.errmsg = NoError
<1>1. [S EXCEPT !.errmsg = NoError] \in Cursor /\ [S EXCEPT !.errmsg = NoError].errmsg = NoError
  BY AllCodes DEF CursorInv, CursorType, Cursor
<1> QED BY <1>1, Clears DEF Cleared

\* What enter_result_set makes of cursor s on its way to result set k + 1.
Entered(t, s, e, k, content) ==
  /\ t \in Cursor /\ t.row = -1
  /\ t.response = s.response /\ t.result_set = s.result_set /\ t.errmsg = s.errmsg
  /\ t.columns \in {NULL, PointerTo(e, k + 1)}
  /\ t.rows \in {NULL, PointerTo(e, k + 1)} /\ (content.rows = Absent <=> t.rows = NULL)

LEMMA Enters ==
  ASSUME NEW s \in Cursor, NEW e \in Nat, NEW k \in Nat, NEW content \in ResultSets,
         NEW t, t = EnterResultSet(s, e, k, content)
  PROVE  Entered(t, s, e, k, content)
<1> DEFINE c == IF content.columns = Absent THEN NULL ELSE <<e, k + 1>>
           r == IF content.rows = Absent THEN NULL ELSE <<e, k + 1>>
<1>1. c \in Pointer /\ c \in {NULL, PointerTo(e, k + 1)}
  BY AllPointers DEF PointerTo
<1>2. r \in Pointer /\ r \in {NULL, PointerTo(e, k + 1)} /\ (content.rows = Absent <=> r = NULL)
  BY AllPointers DEF PointerTo
<1> HIDE DEF c, r
<1> DEFINE s1 == [s EXCEPT !.columns = c]
           s2 == [s1 EXCEPT !.rows = r]
           s3 == [s2 EXCEPT !.row = -1]
<1>3. s3 \in Cursor
  <2>1. s1 \in Cursor
    BY <1>1, Setting
  <2>2. s2 \in Cursor
    <3> HIDE DEF s1
    <3> QED BY <1>2, <2>1, Setting
  <2> HIDE DEF s2
  <2> QED BY <2>2, Setting
<1>4. EnterResultSet(s, e, k, content) = s3
  BY Zenon DEF EnterResultSet, c, r
<1>5. /\ s3.response = s.response /\ s3.result_set = s.result_set /\ s3.errmsg = s.errmsg
      /\ s3.columns = c /\ s3.rows = r /\ s3.row = -1
  BY DEF Cursor
<1> HIDE DEF s3
<1> QED BY <1>1, <1>2, <1>3, <1>4, <1>5 DEF Entered

LEMMA CountsType ==
  ASSUME NEW p \in PdoStatement, NEW a \in Answers \union {<<>>}, NEW k \in DOMAIN a
  PROVE  Counts(p, a[k]) \in PdoStatement /\ Counts(p, a[k]).error_code = p.error_code
<1>1. a[k] \in ResultSets /\ (a[k].columns # Absent => a[k].columns \in Nat)
                          /\ (a[k].rows # Absent => a[k].rows \in Nat)
  BY AnswerTypes
<1>2. RowCount(a[k]) \in Nat
  BY <1>1 DEF RowCount, ResultSets
<1> QED BY <1>1, <1>2 DEF Counts, PdoStatement

-----------------------------------------------------------------------------
(* One lemma for each of the statement's operations.                       *)

LEMMA InitInv == Init => CursorInv
<1> SUFFICES ASSUME Init PROVE CursorInv
  OBVIOUS
<1>1. S \in Cursor /\ S.response = 0 /\ S.columns = NULL /\ S.rows = NULL /\ S.row = -1
  BY AllCodes, AllPointers DEF Init, NewStatement, Cursor
<1>2. pdo \in PdoStatement /\ pdo.error_code = NoError
  BY AllCodes DEF Init, NewPdo, PdoStatement
<1> QED BY AllCodes, <1>1, <1>2 DEF Init, CursorInv, CursorType, OnAResultSet, NoRows, NoDangling, ErrorsInStep

LEMMA ExecuteInv ==
  ASSUME CursorInv, NEW content \in Answers, Execute(content)
  PROVE  CursorInv'
<1> DEFINE e == Len(answers) + 1
           s == [Cleared EXCEPT !.response = e]
           p == [pdo EXCEPT !.executed = TRUE, !.error_code = NoError]
<1>1. e \in Nat /\ e # 0 /\ answers' \in Seq(Answers \union {<<>>}) /\ Len(answers') = e /\ answers'[e] = content
  BY DEF CursorInv, CursorType, Execute
<1>2. /\ s \in Cursor /\ s.response = e /\ s.row = -1 /\ s.columns = NULL /\ s.rows = NULL
      /\ s.errmsg = NoError /\ s.result_set = 0
  BY <1>1, ClearedType DEF Cursor, Cleared, ClearResult, CursorInv, CursorType
<1>3. p \in PdoStatement /\ p.error_code = NoError
  BY AllCodes DEF CursorInv, CursorType, PdoStatement
<1>4. alive' = {e}
  BY DEF Execute, StillAlive, CursorInv, NoDangling
<1>5. CASE content = <<>>
  <2>1. S' = s /\ pdo' = [p EXCEPT !.column_count = 0, !.row_count = 0]
    BY <1>5 DEF Execute
  <2>2. pdo' \in PdoStatement /\ pdo'.error_code = NoError
    BY <2>1, <1>3 DEF PdoStatement
  <2> HIDE DEF e, s, p
  <2>3. NoRows'
    BY <2>1, <1>1, <1>2, <1>5 DEF NoRows
  <2> QED BY <2>1, <2>2, <2>3, <1>1, <1>2, <1>4
          DEF CursorInv, CursorType, OnAResultSet, NoDangling, ErrorsInStep
<1>6. CASE content # <<>>
  <2>1. S' = EnterResultSet(s, e, 0, content[1]) /\ pdo' = Counts(p, content[1])
    BY <1>6 DEF Execute
  <2>2. 1 \in DOMAIN content /\ Len(content) > 0 /\ content[1] \in ResultSets
        /\ (content[1].rows # Absent => content[1].rows \in Nat)
    BY <1>6, AnswerTypes
  <2>3. pdo' \in PdoStatement /\ pdo'.error_code = NoError
    BY <2>1, <2>2, <1>3, CountsType
  <2>4. /\ S' \in Cursor /\ S'.row = -1 /\ S'.response = e /\ S'.result_set = 0
        /\ S'.columns # NULL => S'.columns = <<e, 1>>
        /\ S'.rows # NULL => S'.rows = <<e, 1>> /\ content[1].rows # Absent
        /\ S'.rows = NULL => content[1].rows = Absent
    <3> HIDE DEF e, s, p
    <3>1. s \in Cursor /\ e \in Nat /\ 0 \in Nat /\ content[1] \in ResultSets
      BY <2>2, <1>1, <1>2
    <3> DEFINE k == 0
               c == content[1]
               t == EnterResultSet(s, e, k, c)
    <3>2. s \in Cursor /\ e \in Nat /\ k \in Nat /\ c \in ResultSets
      BY <3>1
    <3>3. S' = t
      BY <2>1
    <3>4. t = EnterResultSet(s, e, k, c)
      OBVIOUS
    <3> HIDE DEF t, k, c
    <3>5. /\ t \in Cursor /\ t.row = -1 /\ t.response = s.response /\ t.result_set = s.result_set
          /\ t.columns \in {NULL, PointerTo(e, k + 1)}
          /\ t.rows \in {NULL, PointerTo(e, k + 1)} /\ (c.rows = Absent <=> t.rows = NULL)
      <4>1. Entered(t, s, e, k, c)
        BY <3>2, <3>4, Enters
      <4> QED BY <4>1 DEF Entered
    <3> QED BY <3>5, <3>3, <1>2 DEF k, c, PointerTo
  <2> HIDE DEF e, s, p
  <2>5. OnAResultSet'
    BY <2>2, <2>4, <1>1 DEF OnAResultSet
  <2>6. NoDangling'
    BY <2>4, <1>1, <1>4 DEF NoDangling
  <2>7. NoRows'
    BY <2>2, <2>4, <1>1 DEF NoRows
  <2> QED BY AllCodes, <2>3, <2>4, <2>5, <2>6, <2>7, <1>1 DEF CursorInv, CursorType, ErrorsInStep
<1> QED BY <1>5, <1>6

LEMMA ExecuteRefusedInv ==
  ASSUME CursorInv, NEW code \in Refusals, ExecuteRefused(code)
  PROVE  CursorInv'
<1>1. code \in Codes
  BY AllCodes
<1>2. /\ S' \in Cursor /\ S'.response = 0 /\ S'.row = -1 /\ S'.columns = NULL /\ S'.rows = NULL
      /\ S'.errmsg = code
  BY <1>1, ClearedType, RecordsType DEF ExecuteRefused
<1>3. pdo' \in PdoStatement /\ pdo'.error_code = code
  BY <1>1 DEF ExecuteRefused, CursorInv, CursorType, PdoStatement
<1>4. answers' \in Seq(Answers \union {<<>>})
  BY DEF ExecuteRefused, CursorInv, CursorType
<1>5. alive' = {}
  BY DEF ExecuteRefused, StillAlive, CursorInv, NoDangling
<1> QED BY <1>2, <1>3, <1>4, <1>5
        DEF CursorInv, CursorType, OnAResultSet, NoRows, NoDangling, ErrorsInStep

\* The row is read, or the want of memory for one of its values is recorded.
LEMMA RowRead ==
  ASSUME CursorInv, NEW s \in Cursor, ReadsTheRow(s)
  PROVE  /\ S' \in Cursor /\ S'.row = s.row /\ S'.response = s.response
         /\ S'.result_set = s.result_set /\ S'.columns = s.columns /\ S'.rows = s.rows
         /\ pdo' \in PdoStatement /\ ErrorsInStep'
<1>1. pdo \in PdoStatement
  BY DEF CursorInv, CursorType
<1>2. CASE S' = s /\ pdo' = [pdo EXCEPT !.error_code = NoError]
  BY <1>1, <1>2, AllCodes DEF PdoStatement, ErrorsInStep
<1>3. CASE S' = Records(s, "HY001") /\ pdo' = [pdo EXCEPT !.error_code = "HY001"]
  <2>1. pdo' \in PdoStatement /\ pdo'.error_code = "HY001"
    BY <1>1, <1>3, AllCodes DEF PdoStatement
  <2>2. /\ S' \in Cursor /\ S'.errmsg = "HY001" /\ S'.row = s.row /\ S'.response = s.response
        /\ S'.result_set = s.result_set /\ S'.columns = s.columns /\ S'.rows = s.rows
    BY <1>3, AllCodes, RecordsType
  <2> QED BY <2>1, <2>2 DEF ErrorsInStep
<1> QED BY <1>2, <1>3 DEF ReadsTheRow

LEMMA FetchInv ==
  ASSUME CursorInv, Fetch
  PROVE  CursorInv'
<1>1. UNCHANGED <<answers, alive>>
  BY DEF Fetch
<1>2. CASE S.rows = NULL \/ S.row + 1 >= At(S.rows).rows
  <2>1. S' = S /\ pdo' = [pdo EXCEPT !.error_code = NoError]
    BY <1>2 DEF Fetch
  <2>2. pdo' \in PdoStatement /\ pdo'.error_code = NoError
    BY <2>1, AllCodes DEF CursorInv, CursorType, PdoStatement
  <2> QED BY <2>1, <2>2, <1>1, AllCodes
          DEF CursorInv, CursorType, OnAResultSet, NoRows, NoDangling, ErrorsInStep
<1>3. CASE ~(S.rows = NULL \/ S.row + 1 >= At(S.rows).rows)
  <2> DEFINE s == [S EXCEPT !.row = @ + 1]
  <2>1. ReadsTheRow(s)
    BY <1>3 DEF Fetch
  <2>2. S.rows = <<S.response, S.result_set + 1>>
    BY <1>3 DEF CursorInv, NoDangling
  <2>3. At(S.rows) = answers[S.response][S.result_set + 1]
    BY <2>2 DEF At
  <2>4. /\ s \in Cursor /\ s.row = S.row + 1 /\ s.response = S.response
        /\ s.result_set = S.result_set /\ s.columns = S.columns /\ s.rows = S.rows
    BY DEF CursorInv, CursorType, Cursor
  <2> HIDE DEF s
  <2>5. /\ S' \in Cursor /\ S'.row = S.row + 1 /\ S'.response = S.response
        /\ S'.result_set = S.result_set /\ S'.columns = S.columns /\ S'.rows = S.rows
        /\ pdo' \in PdoStatement /\ ErrorsInStep'
    BY <2>1, <2>4, RowRead
  <2>6. S.row \in Int /\ S.row >= -1 /\ answers[S.response][S.result_set + 1].rows \in Nat
    BY <1>3 DEF CursorInv, CursorType, Cursor, OnAResultSet
  <2>7. OnAResultSet'
    BY <1>3, <2>3, <2>5, <2>6, <1>1 DEF OnAResultSet, CursorInv
  <2>8. NoDangling'
    BY <2>5, <1>1 DEF NoDangling, CursorInv
  <2>9. NoRows'
    BY <1>3, <2>5 DEF NoRows
  <2> QED BY <2>5, <2>6, <2>7, <2>8, <2>9, <1>1 DEF CursorInv, CursorType
<1> QED BY <1>2, <1>3

LEMMA NextRowsetInv ==
  ASSUME CursorInv, NextRowset
  PROVE  CursorInv'
<1> DEFINE p == [pdo EXCEPT !.column_count = 0, !.error_code = NoError]
           sets == answers[S.response]
           k == S.result_set + 1
<1>1. p \in PdoStatement /\ p.error_code = NoError
  BY AllCodes DEF CursorInv, CursorType, PdoStatement
<1>2. UNCHANGED <<answers, alive>>
  BY DEF NextRowset
<1>3. CASE S.response = 0 \/ k >= Len(sets)
  <2>1. pdo' = [p EXCEPT !.executed = FALSE] /\ S' = S
    BY <1>3 DEF NextRowset
  <2>2. pdo' \in PdoStatement /\ pdo'.error_code = NoError
    BY <2>1, <1>1 DEF PdoStatement
  <2> QED BY AllCodes, <2>1, <2>2, <1>2 DEF CursorInv, CursorType, OnAResultSet, NoRows, NoDangling, ErrorsInStep
<1>4. CASE ~(S.response = 0 \/ k >= Len(sets))
  <2>1. S' = EnterResultSet([S EXCEPT !.result_set = k], S.response, k, sets[k + 1]) /\ pdo' = Counts(p, sets[k + 1])
    BY <1>4 DEF NextRowset
  <2>2. S.response = Len(answers) /\ S.response \in DOMAIN answers
    BY <1>4 DEF CursorInv, CursorType, NoDangling
  <2>3. sets \in Answers \union {<<>>}
    BY <2>2 DEF CursorInv, CursorType
  <2>4. k \in Nat /\ S.response \in Nat
    BY DEF CursorInv, CursorType, Cursor
  <2>5. sets \in Seq(ResultSets)
    BY <2>3, AnswerTypes
  <2>6. k + 1 \in DOMAIN sets /\ k < Len(sets)
    BY <2>4, <2>5, <1>4
  <2>7. sets[k + 1] \in ResultSets /\ (sets[k + 1].rows # Absent => sets[k + 1].rows \in Nat)
    BY <2>3, <2>6, AnswerTypes
  <2>8. pdo' \in PdoStatement /\ pdo'.error_code = NoError
    BY <2>1, <2>3, <2>6, <1>1, CountsType
  <2>9. /\ [S EXCEPT !.result_set = k] \in Cursor /\ [S EXCEPT !.result_set = k].response = S.response
        /\ [S EXCEPT !.result_set = k].result_set = k
    BY <2>4 DEF CursorInv, CursorType, Cursor
  <2>10. /\ S' \in Cursor /\ S'.row = -1 /\ S'.response = S.response /\ S'.result_set = k
         /\ S'.columns # NULL => S'.columns = <<S.response, k + 1>>
         /\ S'.rows # NULL => S'.rows = <<S.response, k + 1>> /\ sets[k + 1].rows # Absent
         /\ S'.rows = NULL => sets[k + 1].rows = Absent
    <3> DEFINE z == [S EXCEPT !.result_set = k]
               r == S.response
               c == sets[k + 1]
               t == EnterResultSet(z, r, k, c)
    <3>1. z \in Cursor /\ r \in Nat /\ k \in Nat /\ c \in ResultSets
      BY <2>4, <2>7, <2>9
    <3>2. S' = t
      BY <2>1
    <3>3. t = EnterResultSet(z, r, k, c)
      OBVIOUS
    <3>4. z.response = r /\ z.result_set = k
      BY <2>9
    <3> HIDE DEF t, k, c, r, z
    <3>5. /\ t \in Cursor /\ t.row = -1 /\ t.response = z.response /\ t.result_set = z.result_set
          /\ t.columns \in {NULL, PointerTo(r, k + 1)}
          /\ t.rows \in {NULL, PointerTo(r, k + 1)} /\ (c.rows = Absent <=> t.rows = NULL)
      <4>1. Entered(t, z, r, k, c)
        BY <3>1, <3>3, Enters
      <4> QED BY <4>1 DEF Entered
    <3> QED BY <3>2, <3>4, <3>5 DEF c, r, PointerTo
  <2>11. OnAResultSet'
    <3>1. sets' = sets
      BY <1>2, <2>10
    <3> HIDE DEF k
    <3> QED BY <3>1, <2>4, <2>6, <2>7, <2>10, <1>2 DEF OnAResultSet
  <2>12. NoDangling'
    <3> HIDE DEF k, sets, p
    <3> QED BY <2>2, <2>10, <1>2, <1>4 DEF NoDangling, CursorInv
  <2>13. NoRows'
    <3>1. sets' = sets
      BY <1>2, <2>10
    <3> HIDE DEF k
    <3> QED BY <3>1, <2>4, <2>6, <2>7, <2>10, <1>2 DEF NoRows
  <2> QED BY AllCodes, <2>8, <2>10, <2>11, <2>12, <2>13, <1>2 DEF CursorInv, CursorType, ErrorsInStep
<1> QED BY <1>3, <1>4

LEMMA CloseCursorInv ==
  ASSUME CursorInv, CloseCursor
  PROVE  CursorInv'
<1>1. S \in Cursor
  BY DEF CursorInv, CursorType
<1>2. S' \in Cursor /\ S'.response = 0 /\ S'.row = -1 /\ S'.columns = NULL /\ S'.rows = NULL
  BY <1>1, Clears DEF CloseCursor
<1>3. pdo' \in PdoStatement /\ pdo'.error_code = NoError
  BY AllCodes DEF CloseCursor, CursorInv, CursorType, PdoStatement
<1>4. alive' = {} /\ answers' = answers
  BY DEF CloseCursor, StillAlive, CursorInv, NoDangling
<1> QED BY AllCodes, <1>2, <1>3, <1>4
        DEF CursorInv, CursorType, OnAResultSet, NoRows, NoDangling, ErrorsInStep

LEMMA RenewInv ==
  ASSUME CursorInv, Renew
  PROVE  CursorInv'
<1>1. S' \in Cursor /\ S'.response = 0 /\ S'.row = -1 /\ S'.columns = NULL /\ S'.rows = NULL
  BY AllCodes, AllPointers DEF Renew, NewStatement, Cursor
<1>2. pdo' \in PdoStatement /\ pdo'.error_code = NoError
  BY AllCodes DEF Renew, NewPdo, PdoStatement
<1>3. alive' = {} /\ answers' = answers
  BY DEF Renew, StillAlive, CursorInv, NoDangling
<1> QED BY AllCodes, <1>1, <1>2, <1>3
        DEF CursorInv, CursorType, OnAResultSet, NoRows, NoDangling, ErrorsInStep

LEMMA ColumnMetaInv ==
  ASSUME CursorInv, NEW colno \in 0 .. MaxColno, ColumnMeta(colno)
  PROVE  CursorInv'
<1>1. UNCHANGED <<answers, alive>>
  BY DEF ColumnMeta
<1>2. CASE pdo' = [pdo EXCEPT !.error_code = NoError] /\ S' = S
  <2>1. pdo' \in PdoStatement /\ pdo'.error_code = NoError
    BY <1>2, AllCodes DEF CursorInv, CursorType, PdoStatement
  <2> QED BY AllCodes, <2>1, <1>1, <1>2 DEF CursorInv, CursorType, OnAResultSet, NoRows, NoDangling, ErrorsInStep
<1>3. CASE pdo' = [pdo EXCEPT !.error_code = "07009"] /\ S' = Records(S, "07009")
  <2>1. pdo' \in PdoStatement /\ pdo'.error_code = "07009"
    BY <1>3, AllCodes DEF CursorInv, CursorType, PdoStatement
  <2>2. S \in Cursor
    BY DEF CursorInv, CursorType
  <2>3. /\ S' \in Cursor /\ S'.errmsg = "07009" /\ S'.response = S.response /\ S'.row = S.row
        /\ S'.result_set = S.result_set /\ S'.columns = S.columns /\ S'.rows = S.rows
    BY <2>2, <1>3, AllCodes, RecordsType
  <2> QED BY <2>1, <2>3, <1>1 DEF CursorInv, CursorType, OnAResultSet, NoRows, NoDangling, ErrorsInStep
<1> QED BY <1>2, <1>3 DEF ColumnMeta

LEMMA AttributeRefusedInv ==
  ASSUME CursorInv, AttributeRefused
  PROVE  CursorInv'
<1>1. pdo' \in PdoStatement /\ pdo'.error_code = PdoOwn
  BY AllCodes DEF AttributeRefused, CursorInv, CursorType, PdoStatement
<1> QED BY <1>1, AllCodes
        DEF AttributeRefused, CursorInv, CursorType, OnAResultSet, NoRows, NoDangling, ErrorsInStep

LEMMA NextInv == CursorInv /\ [Next]_vars => CursorInv'
<1> SUFFICES ASSUME CursorInv, [Next]_vars PROVE CursorInv'
  OBVIOUS
<1>1. CASE UNCHANGED vars
  BY <1>1 DEF vars, CursorInv, CursorType, OnAResultSet, NoRows, NoDangling, ErrorsInStep
<1>2. ASSUME NEW content \in Answers, Execute(content) PROVE CursorInv'
  BY <1>2, ExecuteInv
<1>3. ASSUME NEW code \in Refusals, ExecuteRefused(code) PROVE CursorInv'
  BY <1>3, ExecuteRefusedInv
<1>4. ASSUME NEW colno \in 0 .. MaxColno, ColumnMeta(colno) PROVE CursorInv'
  BY <1>4, ColumnMetaInv
<1> QED BY <1>1, <1>2, <1>3, <1>4, FetchInv, NextRowsetInv, CloseCursorInv, RenewInv,
           AttributeRefusedInv DEF Next

\* What the statement's type invariant says follows.
LEMMA InvTypeOK == CursorInv => TypeOK
<1> SUFFICES ASSUME CursorInv PROVE TypeOK
  OBVIOUS
<1>1. /\ S \in Cursor /\ S.row >= -1 /\ answers \in Seq(Answers \union {<<>>}) /\ pdo \in PdoStatement
  BY DEF CursorInv, CursorType
<1>2. Len(answers) \in Nat /\ S.response \in 0 .. Len(answers) /\ alive \subseteq 1 .. Len(answers)
  BY <1>1 DEF Cursor, CursorInv, NoDangling
<1>3. S.columns \in Pointers /\ S.rows \in Pointers
  <2>1. S.response # 0 => S.response \in 1 .. Len(answers)
    BY <1>2
  <2>2. S.result_set + 1 \in Nat
    BY <1>1 DEF Cursor
  <2>3. /\ S.columns # NULL => S.response # 0 /\ S.columns = <<S.response, S.result_set + 1>>
        /\ S.rows # NULL => S.response # 0 /\ S.rows = <<S.response, S.result_set + 1>>
    BY DEF CursorInv, NoDangling
  <2>4. S.response # 0 => <<S.response, S.result_set + 1>> \in (1 .. Len(answers)) \X Nat
    BY <2>1, <2>2
  <2> HIDE DEF NULL
  <2> QED BY <2>3, <2>4 DEF Pointers
<1>4. S.rows # NULL => S.row < At(S.rows).rows
  <2> SUFFICES ASSUME S.rows # NULL PROVE S.row < At(S.rows).rows
    OBVIOUS
  <2>1. S.rows = <<S.response, S.result_set + 1>>
    BY DEF CursorInv, NoDangling
  <2> QED BY <2>1 DEF At, CursorInv, OnAResultSet
<1> QED BY <1>1, <1>2, <1>3, <1>4 DEF TypeOK, Cursor, PdoStatement

LEMMA CursorHolds == Spec => []CursorInv
BY InitInv, NextInv, PTL DEF Spec

-----------------------------------------------------------------------------
(* The rows still to be read, as a function of where the cursor stands.    *)

Triple == Nat \X Nat \X Nat
\* The rows of a result set of n after the first few.
RowSeq(e, k, n, read) == [r \in 1 .. n - read |-> <<e, k, r + read>>]

\* What is left of answer a to execution e, of whose result sets j are behind and
\* of whose next one `read` rows are.
Remaining(e, a, j, read) ==
  [k \in 1 .. Len(a) - j |-> RowSeq(e, k + j, RowsOf(a[k + j]), IF k = 1 THEN read ELSE 0)]

LEMMA RowsLeft ==
  ASSUME NEW e \in Nat, NEW k \in Nat, NEW n \in Nat, NEW read \in Nat
  PROVE  /\ RowSeq(e, k, n, read) \in Seq(Triple)
         /\ read <= n => Len(RowSeq(e, k, n, read)) = n - read
         /\ read >= n => RowSeq(e, k, n, read) = <<>>
         /\ \A r \in 1 .. n - read : RowSeq(e, k, n, read)[r] = <<e, k, r + read>>
BY DEF RowSeq, Triple

Taken(s, row, t) == s # <<>> /\ Head(s) = row /\ Tail(s) = t

LEMMA RowTaken ==
  ASSUME NEW e \in Nat, NEW k \in Nat, NEW n \in Nat, NEW read \in Nat, read < n
  PROVE  Taken(RowSeq(e, k, n, read), <<e, k, read + 1>>, RowSeq(e, k, n, read + 1))
<1> DEFINE s == RowSeq(e, k, n, read)
           t == RowSeq(e, k, n, read + 1)
<1>1. s \in Seq(Triple) /\ Len(s) = n - read /\ \A r \in 1 .. n - read : s[r] = <<e, k, r + read>>
  BY DEF RowSeq, Triple
<1>2. t \in Seq(Triple) /\ Len(t) = n - (read + 1)
      /\ \A r \in 1 .. n - (read + 1) : t[r] = <<e, k, r + (read + 1)>>
  BY DEF RowSeq, Triple
<1> HIDE DEF s, t
<1>3. s # <<>> /\ Head(s) = <<e, k, read + 1>>
  BY <1>1
<1>4. /\ Tail(s) \in Seq(Triple) /\ Len(Tail(s)) = Len(s) - 1
      /\ \A i \in 1 .. Len(Tail(s)) : Tail(s)[i] = s[i + 1]
  BY <1>1, <1>3, HeadTailProperties
<1>5. \A i \in 1 .. Len(t) : Tail(s)[i] = t[i]
  <2> TAKE i \in 1 .. Len(t)
  <2>1. Tail(s)[i] = s[i + 1] /\ i + 1 \in 1 .. n - read
    BY <1>1, <1>2, <1>4
  <2>2. s[i + 1] = <<e, k, (i + 1) + read>> /\ t[i] = <<e, k, i + (read + 1)>>
    BY <2>1, <1>1, <1>2
  <2>3. (i + 1) + read = i + (read + 1)
    OBVIOUS
  <2> QED BY <2>1, <2>2, <2>3
<1>6. Len(Tail(s)) = Len(t)
  BY <1>1, <1>2, <1>4
<1>7. Tail(s) = t
  BY <1>2, <1>4, <1>5, <1>6, SeqEqual
<1> QED BY <1>3, <1>7 DEF s, t, Taken

\* Taking the first row of the first result set.
LEMMA HeadShortened ==
  ASSUME NEW T, NEW L \in Seq(Seq(T)), NEW M \in Seq(Seq(T)), L # <<>>, Len(M) = Len(L), L[1] # <<>>,
         M[1] = Tail(L[1]), \A k \in 2 .. Len(L) : M[k] = L[k]
  PROVE  M = <<Tail(Head(L))>> \o Tail(L)
<1>1. Len(L) > 0 /\ Head(L) = L[1] /\ L[1] \in Seq(T)
  OBVIOUS
<1>2. <<Tail(Head(L))>> \in Seq(Seq(T)) /\ Len(<<Tail(Head(L))>>) = 1 /\ <<Tail(Head(L))>>[1] = M[1]
  BY <1>1
<1>3. /\ Tail(L) \in Seq(Seq(T)) /\ Len(Tail(L)) = Len(L) - 1
      /\ \A i \in 1 .. Len(Tail(L)) : Tail(L)[i] = L[i + 1]
  BY HeadTailProperties
<1> DEFINE h == <<Tail(Head(L))>>
           N == h \o Tail(L)
<1>a. h \in Seq(Seq(T)) /\ Len(h) = 1 /\ h[1] = M[1]
  BY <1>2
<1> HIDE DEF h
<1>4. /\ N \in Seq(Seq(T)) /\ Len(N) = 1 + Len(Tail(L))
      /\ \A i \in 1 .. 1 + Len(Tail(L)) : N[i] = IF i <= 1 THEN h[i] ELSE Tail(L)[i - 1]
  <2> DEFINE tl == Tail(L)
             U == Seq(T)
  <2>1. tl \in Seq(U) /\ h \in Seq(U)
    BY <1>a, <1>3
  <2> HIDE DEF tl, U
  <2>2. /\ h \o tl \in Seq(U)
        /\ Len(h \o tl) = Len(h) + Len(tl)
        /\ \A i \in 1 .. Len(h) + Len(tl) : (h \o tl)[i] = IF i <= Len(h) THEN h[i] ELSE tl[i - Len(h)]
    BY <2>1, ConcatProperties, Zenon
  <2> QED BY <2>2, <1>a DEF tl, U
<1> HIDE DEF N
<1>5. \A i \in 1 .. Len(M) : M[i] = N[i]
  <2> TAKE i \in 1 .. Len(M)
  <2>1. CASE i = 1
    <3>1. N[1] = h[1]
      BY <1>1, <1>3, <1>4
    <3> QED BY <2>1, <3>1, <1>a
  <2>2. CASE i > 1
    <3>1. N[i] = Tail(L)[i - 1] /\ i - 1 \in 1 .. Len(Tail(L))
      BY <2>2, <1>3, <1>4
    <3>2. Tail(L)[i - 1] = L[(i - 1) + 1] /\ (i - 1) + 1 = i
      BY <3>1, <1>3
    <3>3. i \in 2 .. Len(L)
      BY <2>2
    <3>4. M[i] = L[i]
      BY <3>3
    <3> QED BY <3>1, <3>2, <3>4, Zenon
  <2> QED BY <2>1, <2>2
<1>6. Len(M) = Len(N)
  BY <1>1, <1>3, <1>4
<1>7. M = N
  BY <1>4, <1>5, <1>6, SeqEqual
<1> QED BY <1>7 DEF N, h

LEMMA RowsOfType ==
  ASSUME NEW a \in Answers \union {<<>>}, NEW k \in DOMAIN a
  PROVE  RowsOf(a[k]) \in Nat
<1>1. a[k].rows # Absent => a[k].rows \in Nat
  BY AnswerTypes
<1> QED BY <1>1 DEF RowsOf

\* How the sequence l that Remaining answers looks, result set by result set.
Spread(l, e, a, j, read) ==
  /\ l \in Seq(Seq(Triple))
  /\ j <= Len(a) => Len(l) = Len(a) - j
  /\ j >= Len(a) => l = <<>>
  /\ \A k \in 1 .. Len(a) - j :
       l[k] = RowSeq(e, k + j, RowsOf(a[k + j]), IF k = 1 THEN read ELSE 0)

LEMMA RemainingType ==
  ASSUME NEW e \in Nat, NEW a \in Answers \union {<<>>}, NEW j \in Nat, NEW read \in Nat
  PROVE  Spread(Remaining(e, a, j, read), e, a, j, read)
<1>1. a \in Seq(ResultSets) /\ Len(a) \in Nat
  BY AnswerTypes
<1>2. \A k \in 1 .. Len(a) - j :
        RowSeq(e, k + j, RowsOf(a[k + j]), IF k = 1 THEN read ELSE 0) \in Seq(Triple)
  <2> TAKE k \in 1 .. Len(a) - j
  <2>1. k + j \in DOMAIN a /\ k + j \in Nat
    BY <1>1
  <2>2. RowsOf(a[k + j]) \in Nat
    BY <2>1, RowsOfType
  <2> DEFINE m == k + j
             n == RowsOf(a[k + j])
             d == IF k = 1 THEN read ELSE 0
  <2>3. m \in Nat /\ n \in Nat /\ d \in Nat
    BY <2>1, <2>2
  <2> HIDE DEF m, n, d
  <2>4. RowSeq(e, m, n, d) \in Seq(Triple)
    BY <2>3, RowsLeft
  <2> QED BY <2>4 DEF m, n, d
<1> QED BY <1>1, <1>2 DEF Remaining, Spread

LEMMA SpreadFirst ==
  ASSUME NEW e, NEW a, NEW j \in Nat, NEW read, NEW l, NEW i, i = j + 1,
         Len(a) \in Nat, j < Len(a), Spread(l, e, a, j, read)
  PROVE  l[1] = RowSeq(e, i, RowsOf(a[i]), read)
<1>1. 1 \in 1 .. Len(a) - j /\ 1 + j = i
  OBVIOUS
<1>2. l[1] = RowSeq(e, 1 + j, RowsOf(a[1 + j]), IF 1 = 1 THEN read ELSE 0)
  BY <1>1 DEF Spread
<1> QED BY <1>1, <1>2

\* ResultStream's Row, as a relation of what was left, the row, and what is left.
Reads(l, row, m) ==
  /\ l # <<>> /\ Head(l) # <<>>
  /\ row = Head(Head(l))
  /\ m = <<Tail(Head(l))>> \o Tail(l)

\* The next row: fetch, and what it leaves.
LEMMA RemainingRow ==
  ASSUME NEW e \in Nat, NEW a \in Answers \union {<<>>}, NEW j \in Nat, NEW read \in Nat,
         j < Len(a), read < RowsOf(a[j + 1])
  PROVE  Reads(Remaining(e, a, j, read), <<e, j + 1, read + 1>>, Remaining(e, a, j, read + 1))
<1> DEFINE l == Remaining(e, a, j, read)
           m == Remaining(e, a, j, read + 1)
           n == RowsOf(a[j + 1])
           i == j + 1
<1>1. a \in Seq(ResultSets) /\ Len(a) \in Nat /\ j + 1 \in DOMAIN a
  BY AnswerTypes
<1>2. n \in Nat /\ i \in Nat /\ read < n /\ read + 1 \in Nat
  BY <1>1, RowsOfType
<1>3. Spread(l, e, a, j, read)
  BY RemainingType
<1>4. Spread(m, e, a, j, read + 1)
  BY <1>2, RemainingType
<1> HIDE DEF l, m
<1>5. /\ l \in Seq(Seq(Triple)) /\ m \in Seq(Seq(Triple))
      /\ Len(l) = Len(a) - j /\ Len(m) = Len(a) - j /\ Len(l) > 0
  BY <1>1, <1>3, <1>4 DEF Spread
<1>6. l[1] = RowSeq(e, i, n, read) /\ m[1] = RowSeq(e, i, n, read + 1)
  BY <1>1, <1>3, <1>4, SpreadFirst
<1> HIDE DEF n, i
<1>7. l[1] # <<>> /\ Head(l[1]) = <<e, i, read + 1>> /\ m[1] = Tail(l[1])
  <2>1. Taken(RowSeq(e, i, n, read), <<e, i, read + 1>>, RowSeq(e, i, n, read + 1))
    BY <1>2, RowTaken
  <2>2. Taken(l[1], <<e, i, read + 1>>, m[1])
    BY <1>6, <2>1
  <2> QED BY <2>2 DEF Taken
<1>8. \A k \in 2 .. Len(l) : m[k] = l[k]
  <2> TAKE k \in 2 .. Len(l)
  <2>1. k \in 1 .. Len(a) - j /\ k # 1
    BY <1>1, <1>5
  <2>2. l[k] = RowSeq(e, k + j, RowsOf(a[k + j]), 0)
    BY <1>3, <2>1, Zenon DEF Spread
  <2>3. m[k] = RowSeq(e, k + j, RowsOf(a[k + j]), 0)
    BY <1>4, <2>1, Zenon DEF Spread
  <2> QED BY <2>2, <2>3, Zenon
<1>9. l # <<>> /\ Head(l) = l[1]
  BY <1>5
<1>10. m = <<Tail(Head(l))>> \o Tail(l)
  BY <1>5, <1>7, <1>8, <1>9, HeadShortened
<1> QED BY <1>7, <1>9, <1>10 DEF l, m, i, Reads

\* A result set read to its end, and an answer without one.
LEMMA RemainingEnd ==
  ASSUME NEW e \in Nat, NEW a \in Answers \union {<<>>}, NEW j \in Nat, NEW read \in Nat,
         a = <<>> \/ (j < Len(a) /\ read >= RowsOf(a[j + 1]))
  PROVE  Remaining(e, a, j, read) = <<>> \/ Head(Remaining(e, a, j, read)) = <<>>
<1> DEFINE l == Remaining(e, a, j, read)
<1>1. Spread(l, e, a, j, read)
  BY RemainingType
<1> HIDE DEF l
<1>2. CASE a = <<>>
  BY <1>1, <1>2 DEF Spread, l
<1>3. CASE j < Len(a) /\ read >= RowsOf(a[j + 1])
  <2> DEFINE n == RowsOf(a[j + 1])
             i == j + 1
  <2>1. a \in Seq(ResultSets) /\ Len(a) \in Nat /\ j + 1 \in DOMAIN a
    BY <1>3, AnswerTypes
  <2>2. n \in Nat /\ i \in Nat /\ read >= n
    BY <1>3, <2>1, RowsOfType
  <2>3. l \in Seq(Seq(Triple)) /\ Len(l) > 0
    BY <1>1, <1>3, <2>1 DEF Spread
  <2>5. l[1] = RowSeq(e, i, n, read)
    BY <1>1, <1>3, <2>1, SpreadFirst
  <2> HIDE DEF n, i
  <2>4. l[1] = <<>>
    BY <2>2, <2>5, RowsLeft
  <2> QED BY <2>3, <2>4 DEF l
<1> QED BY <1>2, <1>3

\* The next result set.
LEMMA RemainingSet ==
  ASSUME NEW e \in Nat, NEW a \in Answers \union {<<>>}, NEW j \in Nat, NEW read \in Nat,
         j + 1 < Len(a)
  PROVE  /\ Len(Remaining(e, a, j, read)) > 1
         /\ Remaining(e, a, j + 1, 0) = Tail(Remaining(e, a, j, read))
<1> DEFINE l == Remaining(e, a, j, read)
           m == Remaining(e, a, j + 1, 0)
           T == Seq(Triple)
<1>1. Len(a) \in Nat /\ j + 1 \in Nat /\ 0 \in Nat
  BY AnswerTypes
<1>2. Spread(l, e, a, j, read)
  BY RemainingType
<1>3. Spread(m, e, a, j + 1, 0)
  BY <1>1, RemainingType
<1> HIDE DEF l, m
<1>4. l \in Seq(T) /\ m \in Seq(T) /\ Len(l) = Len(a) - j /\ Len(m) = Len(a) - (j + 1)
  BY <1>1, <1>2, <1>3 DEF Spread
<1>5. \A k \in 1 .. Len(m) : m[k] = l[k + 1]
  <2> TAKE k \in 1 .. Len(m)
  <2>1. k \in 1 .. Len(a) - (j + 1) /\ k + 1 \in 1 .. Len(a) - j /\ k + 1 # 1
    BY <1>1, <1>4
  <2>2. m[k] = RowSeq(e, k + (j + 1), RowsOf(a[k + (j + 1)]), 0)
    BY <1>3, <2>1 DEF Spread
  <2>3. l[k + 1] = RowSeq(e, (k + 1) + j, RowsOf(a[(k + 1) + j]), 0)
    BY <1>2, <2>1 DEF Spread
  <2>4. k + (j + 1) = (k + 1) + j
    BY <1>4
  <2> QED BY <2>2, <2>3, <2>4
<1> HIDE DEF T
<1>6. l # <<>> /\ Len(l) > 1
  BY <1>1, <1>4
<1>7. /\ Tail(l) \in Seq(T) /\ Len(Tail(l)) = Len(l) - 1
      /\ \A i \in 1 .. Len(Tail(l)) : Tail(l)[i] = l[i + 1]
  BY <1>4, <1>6, HeadTailProperties
<1>8. Len(m) = Len(Tail(l)) /\ \A i \in 1 .. Len(m) : m[i] = Tail(l)[i]
  BY <1>1, <1>4, <1>5, <1>7
<1>9. m = Tail(l)
  BY <1>4, <1>7, <1>8, SeqEqual
<1> QED BY <1>6, <1>9 DEF l, m

\* A new answer is read from its beginning.
LEMMA RemainingAll ==
  ASSUME NEW e \in Nat, NEW a \in Answers \union {<<>>}
  PROVE  Remaining(e, a, 0, 0) = Stream!Grid(e, [k \in DOMAIN a |-> RowsOf(a[k])])
<1>1. DOMAIN a = 1 .. Len(a) /\ Len(a) \in Nat
  BY AnswerTypes
<1>2. \A k \in 1 .. Len(a) : RowSeq(e, k + 0, RowsOf(a[k + 0]), IF k = 1 THEN 0 ELSE 0)
                               = [r \in 1 .. RowsOf(a[k]) |-> <<e, k, r>>]
  <2> TAKE k \in 1 .. Len(a)
  <2>1. RowsOf(a[k]) \in Nat /\ k \in Nat
    BY <1>1, RowsOfType
  <2> QED BY <2>1 DEF RowSeq
<1> QED BY <1>1, <1>2 DEF Remaining, Stream!Grid

-----------------------------------------------------------------------------
(* A statement implements ResultStream, step by step.                      *)

\* What ReadsTheStream reads out of the statement.
LeftMeans ==
  /\ S.response = 0 => Left = <<>>
  /\ S.response # 0 => Left = Remaining(S.response, answers[S.response], S.result_set, S.row + 1)

LEMMA LeftIs == CursorInv => LeftMeans
<1> SUFFICES ASSUME CursorInv, S.response # 0
             PROVE  Left = Remaining(S.response, answers[S.response], S.result_set, S.row + 1)
  BY DEF LeftMeans, Left
<1>1. S.result_set \in Nat /\ Len(answers[S.response]) \in Nat
  <2>1. S.response \in DOMAIN answers
    BY DEF CursorInv, CursorType, Cursor, NoDangling
  <2>2. answers[S.response] \in Answers \union {<<>>}
    BY <2>1 DEF CursorInv, CursorType
  <2> QED BY <2>2, AnswerTypes DEF CursorInv, CursorType, Cursor
<1>2. \A k \in 1 .. Len(answers[S.response]) - S.result_set :
        /\ (k + S.result_set = S.result_set + 1) <=> (k = 1)
        /\ LeftOf(k + S.result_set)
             = RowSeq(S.response, k + S.result_set, RowsOf(answers[S.response][k + S.result_set]),
                      IF k = 1 THEN S.row + 1 ELSE 0)
  BY <1>1 DEF LeftOf, RowSeq
<1> QED BY <1>2 DEF Left, Remaining

LEMMA LeftIsNext == CursorInv' => LeftMeans'
BY LeftIs, PTL

LEMMA StreamInit == Init => Stream!Init
BY DEF Init, NewStatement, Left, Stream!Init, Stream!TheEnd, TheEnd

\* Where the cursor stands, as the lemmas on Remaining ask for it.
LEMMA Standing ==
  ASSUME CursorInv, S.response # 0
  PROVE  /\ S.response \in Nat /\ S.response = Len(answers)
         /\ answers[S.response] \in Answers \union {<<>>}
         /\ S.result_set \in Nat /\ S.row + 1 \in Nat
         /\ Left = Remaining(S.response, answers[S.response], S.result_set, S.row + 1)
<1>1. S.response \in DOMAIN answers
  BY DEF CursorInv, CursorType, Cursor, NoDangling
<1>2. answers[S.response] \in Answers \union {<<>>}
  BY <1>1 DEF CursorInv, CursorType
<1>3. Left = Remaining(S.response, answers[S.response], S.result_set, S.row + 1)
  BY LeftIs DEF LeftMeans
<1> QED BY <1>2, <1>3 DEF CursorInv, CursorType, Cursor, NoDangling

LEMMA ExecuteStreams ==
  ASSUME CursorInv, CursorInv', NEW content \in Answers, Execute(content)
  PROVE  Stream!Executed
<1> DEFINE e == Len(answers) + 1
           shape == [k \in DOMAIN content |-> RowsOf(content[k])]
<1>1. answers' = Append(answers, content) /\ answers \in Seq(Answers \union {<<>>}) /\ given' = given
  BY DEF Execute, CursorInv, CursorType
<1>2. Len(answers') = e /\ e \in Nat /\ e # 0 /\ answers'[e] = content
  BY <1>1
<1>3. S'.response = e /\ S'.result_set = 0 /\ S'.row = -1
  <2>1. CASE content = <<>>
    BY <2>1, <1>2, ClearedType DEF Execute, Cursor, Cleared, ClearResult
  <2>2. CASE content # <<>>
    BY <2>2, <1>2, ClearedType DEF Execute, EnterResultSet, Cursor, Cleared, ClearResult
  <2> QED BY <2>1, <2>2
<1> HIDE DEF e
<1>4. Left' = Remaining(e, content, 0, 0)
  BY <1>2, <1>3, LeftIsNext DEF LeftMeans
<1>5. Left' = Stream!Grid(e, shape)
  BY <1>2, <1>4, RemainingAll
<1>6. shape \in {[k \in DOMAIN a |-> RowsOf(a[k])] : a \in Answers}
  OBVIOUS
<1> HIDE DEF shape
<1> QED BY <1>1, <1>2, <1>5, <1>6 DEF Stream!Executed, e

LEMMA RefusedStreams ==
  ASSUME CursorInv, CursorInv', NEW code \in Refusals, ExecuteRefused(code)
  PROVE  Stream!Refused
<1>1. S'.response = 0
  BY AllCodes, ClearedType, RecordsType DEF ExecuteRefused
<1>2. Left' = <<>>
  BY <1>1, LeftIsNext DEF LeftMeans
<1>3. Len(answers') = Len(answers) + 1 /\ given' = given
  BY DEF ExecuteRefused, CursorInv, CursorType
<1> QED BY <1>2, <1>3 DEF Stream!Refused

LEMMA FetchStreams ==
  ASSUME CursorInv, CursorInv', Fetch
  PROVE  Stream!Row \/ Stream!End
<1> DEFINE e == S.response
           a == answers[S.response]
           j == S.result_set
           read == S.row + 1
<1>1. answers' = answers
  BY DEF Fetch
<1>2. CASE S.rows = NULL \/ S.row + 1 >= At(S.rows).rows
  <2>1. given' = TheEnd /\ S' = S
    BY <1>2 DEF Fetch
  <2>2. Left' = Left
    BY <2>1, <1>1 DEF Left, LeftOf
  <2>3. Left = <<>> \/ Head(Left) = <<>>
    <3>1. CASE S.response = 0
      BY <3>1, LeftIs DEF LeftMeans
    <3>2. CASE S.response # 0
      <4>1. e \in Nat /\ a \in Answers \union {<<>>} /\ j \in Nat /\ read \in Nat
            /\ Left = Remaining(e, a, j, read)
        BY <3>2, Standing
      <4>2. a = <<>> \/ (j < Len(a) /\ read >= RowsOf(a[j + 1]))
        <5>1. CASE S.rows = NULL
          BY <3>2, <5>1, <4>1 DEF CursorInv, NoRows, RowsOf
        <5>2. CASE S.rows # NULL
          <6>1. S.rows = <<e, j + 1>> /\ j < Len(a) /\ a[j + 1].rows \in Nat
            BY <5>2 DEF CursorInv, NoDangling, OnAResultSet
          <6>2. At(S.rows) = a[j + 1]
            BY <6>1 DEF At
          <6> QED BY <1>2, <5>2, <6>1, <6>2 DEF RowsOf, Absent
        <5> QED BY <5>1, <5>2
      <4> HIDE DEF e, a, j, read
      <4> QED BY <4>1, <4>2, RemainingEnd
    <3> QED BY <3>1, <3>2
  <2> QED BY <1>1, <2>1, <2>2, <2>3 DEF Stream!End, Stream!TheEnd, TheEnd
<1>3. CASE ~(S.rows = NULL \/ S.row + 1 >= At(S.rows).rows)
  <2>1. ReadsTheRow([S EXCEPT !.row = @ + 1]) /\ given' = <<S.rows[1], S.rows[2], S.row + 2>>
    BY <1>3 DEF Fetch
  <2>2. S.response # 0 /\ S.rows = <<e, j + 1>> /\ j < Len(a) /\ a[j + 1].rows \in Nat
    BY <1>3 DEF CursorInv, NoDangling, OnAResultSet
  <2>3. e \in Nat /\ a \in Answers \union {<<>>} /\ j \in Nat /\ read \in Nat
        /\ Left = Remaining(e, a, j, read)
    BY <2>2, Standing
  <2>4. At(S.rows) = a[j + 1]
    BY <2>2 DEF At
  <2>5. read < RowsOf(a[j + 1])
    BY <1>3, <2>2, <2>3, <2>4 DEF RowsOf, Absent
  <2>6. /\ S'.response = e /\ S'.result_set = j /\ S'.row + 1 = read + 1
        /\ S.row + 2 = read + 1
    <3> DEFINE s == [S EXCEPT !.row = @ + 1]
    <3>1. s \in Cursor /\ s.row = S.row + 1 /\ s.response = e /\ s.result_set = j /\ S.row \in Int
      BY DEF CursorInv, CursorType, Cursor
    <3> HIDE DEF s, e, j
    <3>2. ReadsTheRow(s)
      BY <2>1 DEF s
    <3> QED BY <3>1, <3>2, RowRead
  <2>7. Left' = Remaining(e, a, j, read + 1)
    BY <2>2, <2>6, <1>1, LeftIsNext DEF LeftMeans
  <2>8. given' = <<e, j + 1, read + 1>>
    <3>1. given' = <<S.rows[1], S.rows[2], read + 1>> /\ S.rows[1] = e /\ S.rows[2] = j + 1
      BY <2>1, <2>2, <2>6
    <3> HIDE DEF e, j, read
    <3> QED BY <3>1
  <2>9. Left # <<>> /\ Head(Left) # <<>> /\ given' = Head(Head(Left))
        /\ Left' = <<Tail(Head(Left))>> \o Tail(Left)
    <3>1. j < Len(a)
      BY <2>2
    <3> HIDE DEF e, a, j, read
    <3>2. Reads(Remaining(e, a, j, read), <<e, j + 1, read + 1>>, Remaining(e, a, j, read + 1))
      BY <2>3, <2>5, <3>1, RemainingRow
    <3>3. Reads(Left, given', Left')
      BY <2>3, <2>7, <2>8, <3>2
    <3> QED BY <3>3 DEF Reads
  <2> QED BY <1>1, <2>9 DEF Stream!Row
<1> QED BY <1>2, <1>3

LEMMA NextRowsetStreams ==
  ASSUME CursorInv, CursorInv', NextRowset
  PROVE  Stream!NextSet \/ UNCHANGED Stream!vars
<1> DEFINE e == S.response
           a == answers[S.response]
           j == S.result_set
           read == S.row + 1
<1>1. answers' = answers /\ given' = given
  BY DEF NextRowset
<1>2. CASE S.response = 0 \/ j + 1 >= Len(a)
  <2>1. S' = S
    BY <1>2 DEF NextRowset
  <2>2. Left' = Left
    BY <2>1, <1>1 DEF Left, LeftOf
  <2> QED BY <1>1, <2>2 DEF Stream!vars
<1>3. CASE ~(S.response = 0 \/ j + 1 >= Len(a))
  <2>1. S' = EnterResultSet([S EXCEPT !.result_set = j + 1], e, j + 1, a[j + 2])
    <3>1. (j + 1) + 1 = j + 2
      BY DEF CursorInv, CursorType, Cursor
    <3> QED BY <1>3, <3>1 DEF NextRowset
  <2>2. S'.response = e /\ S'.result_set = j + 1 /\ S'.row = -1
    BY <2>1 DEF EnterResultSet, CursorInv, CursorType, Cursor
  <2>3. e \in Nat /\ e # 0 /\ a \in Answers \union {<<>>} /\ j \in Nat /\ read \in Nat
        /\ Left = Remaining(e, a, j, read)
    BY <1>3, Standing
  <2>4. Left' = Remaining(e, a, j + 1, 0)
    BY <2>2, <2>3, <1>1, LeftIsNext DEF LeftMeans
  <2>5. j + 1 < Len(a)
    BY <1>3, <2>3, AnswerTypes
  <2>6. Len(Left) > 1 /\ Left' = Tail(Left)
    <3> HIDE DEF e, a, j, read
    <3> QED BY <2>3, <2>4, <2>5, RemainingSet
  <2> QED BY <1>1, <2>6 DEF Stream!NextSet
<1> QED BY <1>2, <1>3

LEMMA CloseStreams ==
  ASSUME CursorInv, CursorInv', CloseCursor \/ Renew
  PROVE  Stream!Close
<1>1. S'.response = 0
  BY Clears DEF CloseCursor, Renew, NewStatement, CursorInv, CursorType
<1>2. Left' = <<>>
  BY <1>1, LeftIsNext DEF LeftMeans
<1> QED BY <1>2 DEF Stream!Close, CloseCursor, Renew

LEMMA ColumnMetaStreams ==
  ASSUME CursorInv, NEW colno \in 0 .. MaxColno, ColumnMeta(colno)
  PROVE  UNCHANGED Stream!vars
<1>1. S'.response = S.response /\ S'.result_set = S.result_set /\ S'.row = S.row
  <2>1. S \in Cursor
    BY DEF CursorInv, CursorType
  <2>2. S' = S \/ S' = Records(S, "07009")
    BY DEF ColumnMeta
  <2>3. "07009" \in Codes
    BY AllCodes
  <2> QED BY <2>1, <2>2, <2>3, RecordsType
<1>2. answers' = answers /\ given' = given
  BY DEF ColumnMeta
<1>3. Left' = Left
  BY <1>1, <1>2 DEF Left, LeftOf
<1> QED BY <1>2, <1>3 DEF Stream!vars

LEMMA AttributeRefusedStreams ==
  ASSUME AttributeRefused
  PROVE  UNCHANGED Stream!vars
BY DEF AttributeRefused, Stream!vars, Left, LeftOf

LEMMA NextStreams == CursorInv /\ CursorInv' /\ [Next]_vars => [Stream!Next]_(Stream!vars)
<1> SUFFICES ASSUME CursorInv, CursorInv', [Next]_vars PROVE [Stream!Next]_(Stream!vars)
  OBVIOUS
<1>1. CASE UNCHANGED vars
  BY <1>1 DEF vars, Stream!vars, Left, LeftOf
<1>2. ASSUME NEW content \in Answers, Execute(content) PROVE Stream!Next
  BY <1>2, ExecuteStreams DEF Stream!Next
<1>3. ASSUME NEW code \in Refusals, ExecuteRefused(code) PROVE Stream!Next
  BY <1>3, RefusedStreams DEF Stream!Next
<1>4. CASE Fetch
  BY <1>4, FetchStreams DEF Stream!Next
<1>5. CASE NextRowset
  BY <1>5, NextRowsetStreams DEF Stream!Next
<1>6. CASE CloseCursor \/ Renew
  BY <1>6, CloseStreams DEF Stream!Next
<1>7. ASSUME NEW colno \in 0 .. MaxColno, ColumnMeta(colno) PROVE UNCHANGED Stream!vars
  BY <1>7, ColumnMetaStreams
<1> QED BY <1>1, <1>2, <1>3, <1>4, <1>5, <1>6, <1>7, AttributeRefusedStreams DEF Next

\* Whatever the answers and however often it is executed, a statement reads as the
\* stream ResultStream promises (frostlake_statement.c as a whole).
THEOREM StatementReadsTheStream == Spec => ReadsTheStream
BY StreamInit, NextStreams, CursorHolds, PTL DEF Spec, ReadsTheStream, Stream!Spec

-----------------------------------------------------------------------------
(* What the driver keeps of a failure of the connection.                   *)

ReportType ==
  /\ place \in Places /\ item \in 1 .. ScopeMax + 1
  /\ place \in {"using", "failed", "used"} => item <= ScopeMax
  /\ dbh \in [methods : BOOLEAN, error_code : DbhCodes]
  /\ errmsg \in DbhCodes
  /\ thrown \in Seq(DbhCodes)

(***************************************************************************)
(* RefusedOnce looks at a refused connection, whose exception was thrown a *)
(* step earlier, and at a USE that is over.  In between it must be known   *)
(* where the methods are set, since recording throws where they are not,   *)
(* and what is on record while use_object has not decided yet.             *)
(***************************************************************************)
MethodsSet == dbh.methods <=> place \in {"using", "failed", "open", "closed"}

OneFailure ==
  /\ MethodsSet
  /\ place \in {"parse", "health", "use", "using"} =>
       thrown = <<>> /\ dbh.error_code = NoError /\ errmsg = NoError
  /\ place \in {"failed", "used"} => thrown = <<>> /\ dbh.error_code \in Failures
  /\ place \in {"cleanup", "refused"} => thrown = <<dbh.error_code>> /\ dbh.error_code # NoError
  /\ place \in {"open", "closed"} => thrown = <<>>

ReportInv == ReportType /\ OneFailure /\ MessageInStep

LEMMA DbhCodesFacts ==
  /\ NoError \in DbhCodes /\ PdoOwn \in DbhCodes /\ DbhRecorded \subseteq DbhCodes
  /\ "08001" \in DbhRecorded /\ "08003" \in Failures /\ Failures \subseteq DbhRecorded
  /\ NoError \notin DbhRecorded /\ PdoOwn \notin DbhRecorded
BY DEF DbhCodes, DbhRecorded, Failures, NoError, PdoOwn

\* pdo_frostlake_error, with the methods set and without.
LEMMA ErrorKeeps ==
  ASSUME ReportType, NEW code \in DbhCodes, Error(code)
  PROVE  /\ dbh' \in [methods : BOOLEAN, error_code : DbhCodes]
         /\ dbh'.methods = dbh.methods /\ dbh'.error_code = code
         /\ errmsg' \in DbhCodes /\ (place # "closed" => errmsg' = code)
         /\ thrown' \in Seq(DbhCodes)
         /\ dbh.methods => thrown' = thrown
         /\ ~dbh.methods /\ thrown = <<>> => thrown' = <<code>>
<1>1. /\ dbh' = [dbh EXCEPT !.error_code = code]
      /\ errmsg' = IF place = "closed" THEN errmsg ELSE code
      /\ thrown' = IF dbh.methods THEN thrown ELSE Append(thrown, code)
  BY DEF Error
<1>2. dbh' \in [methods : BOOLEAN, error_code : DbhCodes] /\ dbh'.methods = dbh.methods /\ dbh'.error_code = code
  BY <1>1 DEF ReportType
<1>3. errmsg' \in DbhCodes /\ (place # "closed" => errmsg' = code)
  BY <1>1 DEF ReportType
<1>4. thrown \in Seq(DbhCodes)
  BY DEF ReportType
<1>5. thrown' \in Seq(DbhCodes)
  BY <1>1, <1>4
<1>6. ~dbh.methods /\ thrown = <<>> => thrown' = <<code>>
  BY <1>1, <1>4
<1>7. dbh.methods => thrown' = thrown
  BY <1>1
<1> QED BY <1>2, <1>3, <1>5, <1>6, <1>7

LEMMA OpeningInv ==
  ASSUME ReportInv, Proceed \/ Refuse \/ NoRole \/ Opened \/ CleanUp
  PROVE  ReportInv'
<1> USE DbhCodesFacts, ConnectionAssumption
<1>1. CASE Proceed
  BY <1>1 DEF Proceed, ReportInv, ReportType, OneFailure, MethodsSet, MessageInStep, Places
<1>2. CASE Refuse \/ NoRole
  <2>1. place \in {"parse", "health", "use"} /\ place' = "cleanup" /\ item' = item /\ Error("08001")
    BY <1>2 DEF Refuse, NoRole, UseNext
  <2>2. thrown = <<>> /\ ~dbh.methods
    BY <2>1 DEF ReportInv, OneFailure, MethodsSet
  <2>3. /\ dbh' \in [methods : BOOLEAN, error_code : DbhCodes] /\ errmsg' \in DbhCodes
        /\ thrown' \in Seq(DbhCodes)
        /\ ~dbh'.methods /\ dbh'.error_code = "08001" /\ thrown' = <<"08001">>
    BY <2>1, <2>2, ErrorKeeps DEF ReportInv
  <2> QED BY <2>1, <2>3 DEF ReportInv, ReportType, OneFailure, MethodsSet, MessageInStep, Places
<1>3. CASE Opened
  BY <1>3 DEF Opened, ReportInv, ReportType, OneFailure, MethodsSet, MessageInStep, Places
<1>4. CASE CleanUp
  BY <1>4 DEF CleanUp, FreeHandle, ReportInv, ReportType, OneFailure, MethodsSet, MessageInStep, Places
<1> QED BY <1>1, <1>2, <1>3, <1>4

LEMMA UseRecordsInv ==
  ASSUME ReportInv, NEW code \in Failures, UseRecords(code)
  PROVE  ReportInv'
<1>1. place = "using" /\ place' = "failed" /\ item' = item /\ Error(code) /\ code \in DbhCodes
  BY DbhCodesFacts DEF UseRecords
<1>2. thrown = <<>> /\ dbh.methods
  BY <1>1 DEF ReportInv, OneFailure, MethodsSet
<1>3. /\ dbh' \in [methods : BOOLEAN, error_code : DbhCodes] /\ errmsg' \in DbhCodes
      /\ thrown' \in Seq(DbhCodes)
      /\ dbh'.methods /\ dbh'.error_code = code /\ thrown' = <<>>
  BY <1>1, <1>2, ErrorKeeps DEF ReportInv
<1> QED BY <1>1, <1>3 DEF ReportInv, ReportType, OneFailure, MethodsSet, MessageInStep, Places

LEMMA UseObjectInv ==
  ASSUME ReportInv, UseSkipped \/ UseSends \/ UseClears \/ UseWorks \/ UseReturns \/ UseLeftOff \/ UseRefused
  PROVE  ReportInv'
<1> USE DbhCodesFacts, ConnectionAssumption
<1>0. ScopeMax \in Nat /\ item \in 1 .. ScopeMax + 1
  BY DEF ReportInv, ReportType, ConnectionAssumption
<1>1. CASE UseSkipped
  BY <1>0, <1>1 DEF UseSkipped, UseNext, NextUse, ReportInv, ReportType, OneFailure, MethodsSet,
                    MessageInStep, Places
<1>2. CASE UseSends
  BY <1>2 DEF UseSends, UseNext, ReportInv, ReportType, OneFailure, MethodsSet, MessageInStep, Places
<1>3. CASE UseClears
  BY <1>3 DEF UseClears, Clean, ReportInv, ReportType, OneFailure, MethodsSet, MessageInStep, Places
<1>4. ASSUME NextUse, place \in {"using", "used"} PROVE item' \in 1 .. ScopeMax + 1
  BY <1>0, <1>4 DEF NextUse, ReportInv, ReportType
<1>5. CASE UseWorks
  BY <1>4, <1>5 DEF UseWorks, NextUse, ReportInv, ReportType, OneFailure, MethodsSet, MessageInStep, Places
<1>6. CASE UseReturns
  BY <1>6 DEF UseReturns, ReportInv, ReportType, OneFailure, MethodsSet, MessageInStep, Places
<1>7. CASE UseLeftOff
  BY <1>4, <1>7 DEF UseLeftOff, NextUse, Clean, ReportInv, ReportType, OneFailure, MethodsSet, MessageInStep,
                    Places
<1>8. CASE UseRefused
  <2>1. /\ place = "used" /\ place' = "cleanup" /\ item' = item /\ dbh' = dbh /\ errmsg' = errmsg
        /\ thrown' = Append(thrown, dbh.error_code)
    BY <1>8 DEF UseRefused
  <2>2. thrown = <<>> /\ dbh.error_code \in Failures /\ ~dbh.methods
    BY <2>1 DEF ReportInv, OneFailure, MethodsSet
  <2>3. thrown' = <<dbh.error_code>> /\ thrown' \in Seq(DbhCodes)
    BY <2>1, <2>2
  <2> QED BY <2>1, <2>2, <2>3 DEF ReportInv, ReportType, OneFailure, MethodsSet, MessageInStep, Places
<1> QED BY <1>1, <1>2, <1>3, <1>5, <1>6, <1>7, <1>8

LEMMA OpenInv ==
  ASSUME ReportInv, Exec \/ Prepare \/ CheckPasses \/ PdoRefuses \/ Close \/ StatementCall
  PROVE  ReportInv'
<1> USE DbhCodesFacts
<1>1. CASE Exec
  BY <1>1 DEF Exec, Clean, ReportInv, ReportType, OneFailure, MethodsSet, MessageInStep
<1>2. CASE Prepare
  BY <1>2 DEF Prepare, ReportInv, ReportType, OneFailure, MethodsSet, MessageInStep
<1>3. CASE PdoRefuses
  BY <1>3 DEF PdoRefuses, Usable, ReportInv, ReportType, OneFailure, MethodsSet, MessageInStep
<1>4. CASE CheckPasses
  BY <1>4 DEF CheckPasses, Clean, ReportInv, ReportType, OneFailure, MethodsSet, MessageInStep
<1>5. CASE Close
  BY <1>5 DEF Close, FreeHandle, ReportInv, ReportType, OneFailure, MethodsSet, MessageInStep, Places
<1>6. CASE StatementCall
  BY <1>6 DEF StatementCall, connectionVars, ReportInv, ReportType, OneFailure, MethodsSet, MessageInStep
<1> QED BY <1>1, <1>2, <1>3, <1>4, <1>5, <1>6

\* What fails on an open connection is recorded, and does not throw.
LEMMA RecordedInv ==
  ASSUME ReportInv, NEW code \in DbhRecorded, Error(code), Usable, UNCHANGED <<place, item>>
  PROVE  ReportInv'
<1>1. dbh.methods /\ thrown = <<>>
  BY DEF Usable, ReportInv, OneFailure, MethodsSet
<1>2. /\ dbh' \in [methods : BOOLEAN, error_code : DbhCodes] /\ errmsg' \in DbhCodes
      /\ thrown' \in Seq(DbhCodes) /\ dbh'.methods /\ dbh'.error_code = code /\ thrown' = <<>>
      /\ place # "closed" => errmsg' = code
  BY <1>1, DbhCodesFacts, ErrorKeeps DEF ReportInv
<1> QED BY <1>2 DEF Usable, ReportInv, ReportType, OneFailure, MethodsSet, MessageInStep

LEMMA OpenFailsInv ==
  ASSUME ReportInv, PrepareRefused \/ \E code \in Failures : ExecFails(code)
  PROVE  ReportInv'
<1>1. Usable /\ UNCHANGED <<place, item>>
  BY DEF PrepareRefused, ExecFails, Usable
<1>2. \E code \in DbhRecorded : Error(code)
  BY DbhCodesFacts DEF PrepareRefused, ExecFails
<1> QED BY <1>1, <1>2, RecordedInv

LEMMA CheckInv ==
  ASSUME ReportInv, NEW code \in DbhRecorded, CheckFails(code) \/ CheckLetsGo(code)
  PROVE  ReportInv'
<1>1. CASE CheckFails(code)
  <2>1. Usable /\ UNCHANGED <<place, item>>
    BY <1>1 DEF CheckFails, Usable
  <2>2. CASE Error(code)
    BY <2>1, <2>2, RecordedInv
  <2>3. CASE UNCHANGED <<dbh, errmsg, thrown>>
    BY <2>1, <2>3 DEF ReportInv, ReportType, OneFailure, MethodsSet, MessageInStep
  <2> QED BY <1>1, <2>2, <2>3 DEF CheckFails, CheckRecords
<1>2. CASE CheckLetsGo(code)
  BY <1>2, DbhCodesFacts
     DEF CheckLetsGo, FreeHandle, ReportInv, ReportType, OneFailure, MethodsSet, MessageInStep, Places
<1> QED BY <1>1, <1>2

LEMMA ReportNext == ReportInv /\ [ConnectionNext]_allVars => ReportInv'
<1> SUFFICES ASSUME ReportInv, [ConnectionNext]_allVars PROVE ReportInv'
  OBVIOUS
<1>1. CASE UNCHANGED allVars
  BY <1>1 DEF allVars, connectionVars, ReportInv, ReportType, OneFailure, MethodsSet, MessageInStep
<1>2. CASE Factory
  BY <1>2, OpeningInv, UseRecordsInv, UseObjectInv DEF Factory, UseObject
<1>3. CASE Checks
  BY <1>3, OpenInv, CheckInv DEF Checks
<1> QED BY <1>1, <1>2, <1>3, OpenInv, OpenFailsInv DEF ConnectionNext

-----------------------------------------------------------------------------
(***************************************************************************)
(* However the connection is opened, used, checked and closed, what the    *)
(* statement does is a behaviour of the statement alone                    *)
(* (frostlake_statement.c keeps its own state; a statement prepared anew   *)
(* is its Renew).                                                          *)
(***************************************************************************)
THEOREM StatementRefined == ConnectionSpec => Spec
<1>1. ConnectionInit => Init
  BY DEF ConnectionInit
<1>2. [ConnectionNext]_allVars => [Next]_vars
  <2> SUFFICES ASSUME [ConnectionNext]_allVars PROVE [Next]_vars
    OBVIOUS
  <2>1. CASE UNCHANGED allVars
    BY <2>1 DEF allVars
  <2>2. CASE Prepare
    BY <2>2 DEF Prepare, Next
  <2>3. CASE StatementCall
    BY <2>3 DEF StatementCall, Next
  <2>4. CASE Factory
    BY <2>4 DEF Factory, UseObject, Statement, Proceed, Refuse, UseNext, UseSkipped, NoRole, UseSends,
                UseRecords, UseClears, UseWorks, UseReturns, UseLeftOff, UseRefused, Opened, CleanUp
  <2>5. CASE Checks
    BY <2>5 DEF Checks, Statement, CheckPasses, CheckFails, CheckLetsGo
  <2>6. CASE Exec \/ (\E code \in Failures : ExecFails(code)) \/ PrepareRefused \/ PdoRefuses \/ Close
    BY <2>6 DEF Statement, Exec, ExecFails, PrepareRefused, PdoRefuses, Close
  <2> QED BY <2>1, <2>2, <2>3, <2>4, <2>5, <2>6 DEF ConnectionNext
<1> QED BY <1>1, <1>2, PTL DEF ConnectionSpec, Spec

LEMMA ReportHolds == ConnectionSpec => []ReportInv
<1>1. ConnectionInit => ReportInv
  BY DbhCodesFacts, ConnectionAssumption
     DEF ConnectionInit, ConnectionAssumption, ReportInv, ReportType, OneFailure, MethodsSet,
         MessageInStep, Places
<1> QED BY <1>1, ReportNext, PTL DEF ConnectionSpec

\* Every variable keeps its type and the cursor stays within the rows it walks,
\* so that get_col reads no row the answer does not have.
THEOREM TypesHold == ConnectionSpec => []ConnectionTypeOK
<1>1. CursorInv /\ ReportInv => ConnectionTypeOK
  BY InvTypeOK DEF ReportInv, ReportType, ConnectionTypeOK
<1> QED BY <1>1, CursorHolds, StatementRefined, ReportHolds, PTL

\* The statement's pointers lead into the answer it holds, which is the only one
\* not freed, on every path through clear_result and enter_result_set.
THEOREM NothingDangles == ConnectionSpec => []NoDangling
<1>1. CursorInv => NoDangling
  BY DEF CursorInv
<1> QED BY <1>1, CursorHolds, StatementRefined, PTL

\* To the code of a failure the driver recorded on a statement fetch_error adds the
\* message that came with it.  (To one PDO raises itself it may add an older one.)
THEOREM StatementErrorsInStep == ConnectionSpec => []ErrorsInStep
<1>1. CursorInv => ErrorsInStep
  BY DEF CursorInv
<1> QED BY <1>1, CursorHolds, StatementRefined, PTL

\* A connection that is refused has thrown exactly once, with the code on record, and
\* no other throws, for any length of scope and any failures recorded on the way: the
\* methods are set exactly where recording must not throw.
THEOREM ThrownOnce == ConnectionSpec => []RefusedOnce
<1>1. ReportInv => RefusedOnce
  BY DEF ReportInv, OneFailure, RefusedOnce
<1> QED BY <1>1, ReportHolds, PTL

\* To the code of a failure the driver recorded on a connection fetch_error adds the
\* message that came with it.  (To one PDO raises itself it may add an older one.)
THEOREM ConnectionMessageInStep == ConnectionSpec => []MessageInStep
<1>1. ReportInv => MessageInStep
  BY DEF ReportInv
<1> QED BY <1>1, ReportHolds, PTL

\* Through a connection too the statement reads as the stream ResultStream
\* promises: opening, checking and closing the connection give it no row.
THEOREM ConnectionReadsTheStream == ConnectionSpec => ReadsTheStream
BY StatementRefined, StatementReadsTheStream, PTL
=============================================================================
