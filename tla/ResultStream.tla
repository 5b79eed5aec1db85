---------------------------- MODULE ResultStream ----------------------------
(***************************************************************************)
(* What a prepared statement promises whoever reads it: the rows of its    *)
(* latest execution, result set after result set, each row once and in     *)
(* order; the end only where a result set ends; nothing of an earlier      *)
(* execution once a later one was tried.                                   *)
(***************************************************************************)
EXTENDS Naturals, Sequences

CONSTANT Shapes      \* the answers there are: the number of rows of each result set

VARIABLES run,       \* how many executions were tried
          left,      \* the rows still to be read: of the current result set, then of the next ones
          given      \* what the last fetch answered: a row, or the end

TheEnd == <<>>

vars == <<run, left, given>>

\* The rows of execution e, answered in the given shape.
Grid(e, shape) == [s \in DOMAIN shape |-> [r \in 1 .. shape[s] |-> <<e, s, r>>]]

Init == run = 0 /\ left = <<>> /\ given = TheEnd

Executed ==
  /\ run' = run + 1
  /\ \E shape \in Shapes : left' = Grid(run', shape)
  /\ UNCHANGED given

Refused == run' = run + 1 /\ left' = <<>> /\ UNCHANGED given

Row ==
  /\ left # <<>>
  /\ Head(left) # <<>>
  /\ given' = Head(Head(left))
  /\ left' = <<Tail(Head(left))>> \o Tail(left)
  /\ UNCHANGED run

End ==
  /\ left = <<>> \/ Head(left) = <<>>
  /\ given' = TheEnd
  /\ UNCHANGED <<run, left>>

NextSet == Len(left) > 1 /\ left' = Tail(left) /\ UNCHANGED <<run, given>>

Close == left' = <<>> /\ UNCHANGED <<run, given>>

Next == Executed \/ Refused \/ Row \/ End \/ NextSet \/ Close

Spec == Init /\ [][Next]_vars
=============================================================================
