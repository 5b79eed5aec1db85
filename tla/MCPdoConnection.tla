-------------------------- MODULE MCPdoConnection --------------------------
(* A connection with one prepared statement, for TLC.                      *)
EXTENDS PdoConnection

Set(c, r, u) == [columns |-> c, rows |-> r, updateCount |-> u]

\* No result set; a query; a statement that changes rows, whose grid is one row of
\* counts; two result sets of one and of two columns; three, the middle one empty
\* and without columns; one whose rows are missing.
MCAnswers ==
  { <<>>,
    <<Set(1, 3, Absent)>>,
    <<Set(1, 1, 2)>>,
    <<Set(1, 2, Absent), Set(2, 3, Absent)>>,
    <<Set(1, 1, Absent), Set(Absent, 0, 0), Set(1, 2, Absent)>>,
    <<Set(1, Absent, Absent)>> }
=============================================================================
