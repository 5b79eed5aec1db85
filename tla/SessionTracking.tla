-------------------------- MODULE SessionTracking --------------------------
(***************************************************************************)
(* How the driver learns from the text of a successful request what it     *)
(* left on the session: pdo_frostlake_track_session and the functions it   *)
(* calls, in src/frostlake_sql.c.  A text is a sequence of tokens: words,  *)
(* ";" and the rest, with what the scanner skips whole (a quoted string,   *)
(* a comment) as one token each.                                           *)
(*                                                                         *)
(* A request is a sequence of statements that each know their words and    *)
(* what they really leave behind, so that the flags the driver works out   *)
(* can be compared with the truth.                                         *)
(***************************************************************************)
EXTENDS Integers, Sequences, FiniteSets

CONSTANT Requests     \* the requests to be read: sequences of Piece

(***************************************************************************)
(* A piece is what stands between two top-level semicolons.  touches: it   *)
(* leaves state a fresh session lacks.  effect: it opens (1) or ends (-1)  *)
(* a transaction by name.                                                  *)
(***************************************************************************)
Piece == [text : Seq(STRING), touches : BOOLEAN, effect : {-1, 0, 1}]

Blanks  == {"/*c*/", "--c"}
Opaque  == {"'a;b'", "\"q\"", "(", ")", "="}
IsWord(t) == t \notin Blanks \cup Opaque \cup {";"}

\* A digit and a dollar are bytes of a word: a quoted body's opening dollars
\* read as one, and its semicolon ends the words.
Bodies == {"$$;$$"}

ASSUME RequestsAssumption ==
    /\ Requests \subseteq Seq(Piece)
    /\ \A r \in Requests : \A k \in 1..Len(r) :
         \A j \in 1..Len(r[k].text) : r[k].text[j] # ";"

VARIABLES
    request,             \* the request being read
    piece,               \* the piece being read, 1 .. Len(request) + 1
    statement,           \* its tokens read so far
    dirty,               \* H->dirty
    in_transaction,      \* H->in_transaction
    opened_auto_commit,  \* H->opened_auto_commit
    before               \* the two flags as the request found them

vars == <<request, piece, statement, dirty, in_transaction, opened_auto_commit, before>>

Init ==
    /\ request \in Requests
    /\ piece = 1 /\ statement = <<>>
    /\ dirty \in BOOLEAN /\ in_transaction \in BOOLEAN
    /\ opened_auto_commit \in BOOLEAN
    /\ before = [dirty |-> dirty, in_transaction |-> in_transaction]

-----------------------------------------------------------------------------
(* Reading a statement's leading words.                                    *)

SESSION_WORDS == 16

\* The words in front of the first byte that belongs to neither word nor blank.
LeadingWords(tokens) ==
    LET stops == {k \in 1..Len(tokens) :
                    tokens[k] \in Opaque \/ (k > 1 /\ tokens[k - 1] \in Bodies)}
        upto  == CHOOSE k \in 0..Len(tokens) :
                   /\ \A j \in 1..k : j \notin stops
                   /\ k = Len(tokens) \/ k + 1 \in stops
        words == SelectSeq(SubSeq(tokens, 1, upto), IsWord)
    IN  SubSeq(words, 1, IF Len(words) < SESSION_WORDS THEN Len(words) ELSE SESSION_WORDS)

ObjectModifiers ==
    {"OR", "REPLACE", "TRANSIENT", "TEMPORARY", "TEMP", "VOLATILE", "LOCAL", "GLOBAL",
     "SECURE", "IF", "NOT", "EXISTS", "PUBLIC", "PRIVATE", "ICEBERG", "DYNAMIC", "HYBRID",
     "EVENT", "RECURSIVE", "MATERIALIZED", "EXTERNAL"}

TemporaryModifiers == {"TEMPORARY", "TEMP", "VOLATILE"}

\* Mutant of KindAt: no modifiers are skipped.
KindRightAfter(words) == 2

\* Where the kind of object stands: after the verb and its modifiers.
KindAt(words) ==
    CHOOSE k \in 2..Len(words) + 1 :
      /\ \A j \in 2..k - 1 : words[j] \in ObjectModifiers
      /\ k > Len(words) \/ words[k] \notin ObjectModifiers

TouchesSession(words) ==
    /\ words # <<>>
    /\ LET verb      == words[1]
           at        == KindAt(words)
           kind      == IF at <= Len(words) THEN words[at] ELSE ""
           temporary == \E j \in 2..at - 1 : words[j] \in TemporaryModifiers
       IN  \/ verb \in {"USE", "SET", "UNSET"}
           \/ verb = "ALTER" /\ kind = "SESSION"
           \/ verb \in {"CREATE", "DROP"} /\ kind \in {"DATABASE", "SCHEMA"}
           \/ verb = "CREATE" /\ temporary

\* Mutant of Opens: a scripting block opens a transaction.
AnyBeginOpens(words) ==
    words[1] = "BEGIN" \/ (words[1] = "START" /\ Len(words) > 1 /\ words[2] = "TRANSACTION")

Opens(words) ==
    \/ words[1] = "START" /\ Len(words) > 1 /\ words[2] = "TRANSACTION"
    \/ words[1] = "BEGIN" /\ (Len(words) > 1 => words[2] \in {"TRANSACTION", "WORK", "NAME"})

TransactionEffect(words) ==
    IF words = <<>> THEN 0
    ELSE IF words[1] \in {"COMMIT", "ROLLBACK"} THEN -1
    ELSE IF Opens(words) THEN 1
    ELSE 0

-----------------------------------------------------------------------------
(* pdo_frostlake_track_session.                                            *)

Text == request[piece].text

\* One step of the scan over what is not a top-level semicolon.
Scan ==
    /\ piece <= Len(request) /\ Len(statement) < Len(Text)
    /\ statement' = Append(statement, Text[Len(statement) + 1])
    /\ UNCHANGED <<request, piece, dirty, in_transaction, opened_auto_commit, before>>

\* At a semicolon, and at the end: the statement read is tracked.
Track ==
    /\ piece <= Len(request) /\ Len(statement) = Len(Text)
    /\ LET words  == LeadingWords(statement)
           effect == TransactionEffect(words)
       IN  /\ dirty' = (dirty \/ TouchesSession(words))
           /\ in_transaction' =
                IF effect < 0 THEN FALSE
                ELSE \/ in_transaction \/ effect > 0
                     \/ ~opened_auto_commit /\ Len(words) > 0
    /\ piece' = piece + 1 /\ statement' = <<>>
    /\ UNCHANGED <<request, opened_auto_commit, before>>

Next == Scan \/ Track

Spec == Init /\ [][Next]_vars

-----------------------------------------------------------------------------
(* The truth, from what the pieces tracked so far really do.               *)

Tracked == 1..piece - 1

\* A piece with no word in it runs nothing; with autocommit off any other
\* may have opened a transaction.
Acts(k) ==
    IF request[k].effect # 0 THEN request[k].effect
    ELSE IF ~opened_auto_commit /\ \E j \in 1..Len(request[k].text) : IsWord(request[k].text[j])
      THEN 1
    ELSE 0

LeftTransaction ==
    LET acting == {k \in Tracked : Acts(k) # 0}
    IN  IF acting = {} THEN before.in_transaction
        ELSE \E k \in acting : Acts(k) = 1 /\ \A j \in acting : j <= k

LeftContext == before.dirty \/ \E k \in Tracked : request[k].touches

(***************************************************************************)
(* Whatever the statements so far left on the session, the driver knows    *)
(* of: a lost session with anything of its own is never taken for an       *)
(* empty one (README "After a lost session" names what counts).            *)
(***************************************************************************)
NothingMissed ==
    statement = <<>> => /\ LeftContext => dirty
                        /\ LeftTransaction => in_transaction

(***************************************************************************)
(* And nothing else is flagged: a statement the driver need not refuse     *)
(* after a loss, it sends again (CREATE TABLE and its kind leave the       *)
(* session as it was; a scripting block opens no transaction).             *)
(***************************************************************************)
NothingInvented ==
    statement = <<>> => /\ dirty => LeftContext
                        /\ in_transaction => LeftTransaction
=============================================================================
