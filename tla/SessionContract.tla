-------------------------- MODULE SessionContract --------------------------
(***************************************************************************)
(* What a connection promises the application, without sessions, requests  *)
(* or answers: statements are sent one at a time, each runs at most once,  *)
(* what is reported of it is what happened, and what was set up on the     *)
(* connection is there until the application is told that it is lost       *)
(* (src/README.md, "Sessions").                                            *)
(***************************************************************************)
EXTENDS Naturals

CONSTANT MaxCalls       \* bound: statements the application sends

VARIABLES
    state,      \* "opening", "open", "closed"
    calls,      \* statements sent so far
    runs,       \* for each, how often it ran
    result,     \* for each, what the application heard
    kept        \* the context and the transaction the application counts on

vars == <<state, calls, runs, result, kept>>

Calls == 1..MaxCalls

\* Nobody counts on it; it is there; it is gone and nobody said so yet.
Keeping == {"none", "there", "lost"}

Kept == [context : Keeping, transaction : Keeping]
Nothing == [context |-> "none", transaction |-> "none"]

\* The application does not know whether such a statement ran, or will.
Unknown == {"HYT00", "08S01"}

Init ==
    /\ state = "opening" /\ calls = 0
    /\ runs = [c \in Calls |-> 0] /\ result = [c \in Calls |-> "none"]
    /\ kept = Nothing

Open ==
    /\ state = "opening" /\ state' = "open"
    /\ UNCHANGED <<calls, runs, result, kept>>

Pending == calls > 0 /\ result[calls] = "none"

Send ==
    /\ state = "open" /\ calls < MaxCalls /\ ~Pending
    /\ calls' = calls + 1
    /\ UNCHANGED <<state, runs, result, kept>>

\* Never on what is left of a connection that lost what was counted on.
Run ==
    /\ Pending /\ runs[calls] = 0
    /\ "lost" \notin {kept.context, kept.transaction}
    /\ runs' = [runs EXCEPT ![calls] = 1]
    /\ UNCHANGED <<state, calls, result, kept>>

\* A statement whose answer did not come runs late.
RunLate(c) ==
    /\ c <= calls /\ result[c] \in Unknown /\ runs[c] = 0
    /\ runs' = [runs EXCEPT ![c] = 1]
    /\ UNCHANGED <<state, calls, result, kept>>

\* It worked: it ran, and may have set up context and begun or ended a
\* transaction.  What it set up may be lost by the time its answer is read.
Succeed ==
    /\ Pending /\ runs[calls] = 1
    /\ result' = [result EXCEPT ![calls] = "ok"]
    /\ kept' \in {k \in Kept :
                  /\ kept.context # "none" => k.context = kept.context
                  /\ kept.transaction # "none" => k.transaction \in {kept.transaction, "none"}}
    /\ UNCHANGED <<state, calls, runs>>

\* The engine refused it, or no answer came: what was there still is.
Fail(code) ==
    /\ Pending /\ code \in Unknown \cup {"HY000"}
    /\ result' = [result EXCEPT ![calls] = code]
    /\ UNCHANGED <<state, calls, runs, kept>>

\* The application is told of the loss: the statement did not run, nor will it.
TellLoss ==
    /\ Pending /\ runs[calls] = 0
    /\ result' = [result EXCEPT ![calls] = "08003"]
    /\ kept' = Nothing
    /\ UNCHANGED <<state, calls, runs>>

\* The engine forgets; the application does not know.
Lose ==
    /\ kept' \in {k \in Kept : \A part \in DOMAIN k :
                    \/ k[part] = kept[part]
                    \/ kept[part] = "there" /\ k[part] = "lost"}
    /\ UNCHANGED <<state, calls, runs, result>>

Close ==
    /\ ~Pending
    /\ state' = "closed" /\ kept' = Nothing
    /\ UNCHANGED <<calls, runs, result>>

SendOnClosed ==
    /\ state = "closed" /\ calls < MaxCalls
    /\ calls' = calls + 1
    /\ result' = [result EXCEPT ![calls + 1] = "08003"]
    /\ UNCHANGED <<state, runs, kept>>

Next ==
    \/ Open \/ Send \/ Run \/ (\E c \in Calls : RunLate(c))
    \/ Succeed \/ (\E code \in Unknown \cup {"HY000"} : Fail(code)) \/ TellLoss
    \/ Lose \/ Close \/ SendOnClosed

Spec == Init /\ [][Next]_vars
=============================================================================
