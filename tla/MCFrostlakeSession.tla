------------------------- MODULE MCFrostlakeSession -------------------------
(* Small instances of FrostlakeSession for TLC.                            *)
EXTENDS FrostlakeSession, TLC

\* Kinds of statement in autocommit mode: SELECT, USE, BEGIN, COMMIT, and a
\* request of several statements that sets context and opens a transaction.
MCSelect == [touches |-> FALSE, effect |-> 0,  several |-> FALSE]
MCUse    == [touches |-> TRUE,  effect |-> 0,  several |-> FALSE]
MCBegin  == [touches |-> FALSE, effect |-> 1,  several |-> FALSE]
MCCommit == [touches |-> FALSE, effect |-> -1, several |-> FALSE]
MCScript == [touches |-> TRUE,  effect |-> 1,  several |-> TRUE]

MCStatements == {MCSelect, MCUse, MCBegin, MCCommit, MCScript}

\* With autocommit off every statement leaves a transaction open or ends it.
MCManual == {MCBegin, MCCommit, MCScript}

MCReturning == {MCSelect, MCUse}

MCRequired == {1}

MCSymmetry == Permutations(Sessions)
=============================================================================
