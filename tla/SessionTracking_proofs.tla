----------------------- MODULE SessionTracking_proofs -----------------------
(***************************************************************************)
(* Requests of any number of statements: what pdo_frostlake_track_session  *)
(* makes of them follows from what it makes of each statement alone.       *)
(***************************************************************************)
EXTENDS SessionTracking, TLAPS

HasWord(p) == \E j \in 1..Len(p.text) : IsWord(p.text[j])

Words(p) == LeadingWords(p.text)

(***************************************************************************)
(* A statement is read safely when nothing it leaves behind escapes        *)
(* touches_session and transaction_effect, and exactly when they see       *)
(* nothing it does not leave behind.  Requests of one statement, read with *)
(* any flags before and either mode, have NothingMissed and                *)
(* NothingInvented just when it is.                                        *)
(***************************************************************************)
ReadSafely(p) ==
    /\ p.touches => TouchesSession(Words(p))
    /\ p.effect = 1 => TransactionEffect(Words(p)) = 1
    /\ TransactionEffect(Words(p)) = -1 => p.effect = -1
    /\ p.effect = 0 /\ HasWord(p) => Len(Words(p)) > 0

ReadExactly(p) ==
    /\ TouchesSession(Words(p)) => p.touches
    /\ TransactionEffect(Words(p)) = 1 => p.effect = 1
    /\ p.effect = -1 => TransactionEffect(Words(p)) = -1
    /\ p.effect = 0 /\ Len(Words(p)) > 0 => HasWord(p)

-----------------------------------------------------------------------------
(* Where the scan is.                                                      *)

Flags == [dirty : BOOLEAN, in_transaction : BOOLEAN]

\* The statement read so far is a beginning of the piece's text.
ScanInv ==
    /\ request \in Requests /\ piece \in 1..Len(request) + 1
    /\ statement \in Seq(STRING)
    /\ piece > Len(request) => statement = <<>>
    /\ piece <= Len(request) =>
         /\ Len(statement) <= Len(Text)
         /\ \A j \in 1..Len(statement) : statement[j] = Text[j]
    /\ dirty \in BOOLEAN /\ in_transaction \in BOOLEAN /\ opened_auto_commit \in BOOLEAN
    /\ before \in Flags

LEMMA PieceTypes ==
    ASSUME NEW r \in Requests
    PROVE  /\ Len(r) \in Nat
           /\ \A k \in 1..Len(r) : r[k] \in Piece /\ r[k].text \in Seq(STRING)
<1>1. r \in Seq(Piece)
  BY RequestsAssumption
<1>2. \A k \in 1..Len(r) : r[k] \in Piece
  BY <1>1
<1> QED BY <1>1, <1>2 DEF Piece

LEMMA ScanInit == Init => ScanInv
<1> SUFFICES ASSUME Init PROVE ScanInv
  OBVIOUS
<1>1. request \in Requests /\ piece = 1 /\ statement = <<>> /\ Len(request) \in Nat
  BY PieceTypes DEF Init
<1>2. 1 <= Len(request) => Len(Text) \in Nat
  BY <1>1, PieceTypes DEF Text
<1> QED BY <1>1, <1>2 DEF Init, ScanInv, Flags

LEMMA ScanStep == ScanInv /\ [Next]_vars => ScanInv'
<1> SUFFICES ASSUME ScanInv, [Next]_vars PROVE ScanInv'
  OBVIOUS
<1>0. /\ request \in Requests /\ Len(request) \in Nat /\ piece \in 1..Len(request) + 1
      /\ piece <= Len(request) => Text \in Seq(STRING)
  BY PieceTypes DEF ScanInv, Text
<1>1. CASE Scan
  <2>1. /\ piece <= Len(request) /\ Len(statement) < Len(Text)
        /\ statement' = Append(statement, Text[Len(statement) + 1])
        /\ UNCHANGED <<request, piece, dirty, in_transaction, opened_auto_commit, before>>
    BY <1>1 DEF Scan
  <2>2. Text' = Text
    BY <2>1 DEF Text
  <2>3. statement \in Seq(STRING) /\ Text \in Seq(STRING)
    BY <1>0, <2>1 DEF ScanInv
  <2>4. /\ statement' \in Seq(STRING) /\ Len(statement') = Len(statement) + 1
        /\ \A j \in 1..Len(statement) : statement'[j] = statement[j]
        /\ statement'[Len(statement) + 1] = Text[Len(statement) + 1]
    BY <2>1, <2>3
  <2>5. \A j \in 1..Len(statement') : statement'[j] = Text[j]
    BY <2>1, <2>3, <2>4 DEF ScanInv
  <2> QED BY <1>0, <2>1, <2>2, <2>3, <2>4, <2>5 DEF ScanInv
<1>2. CASE Track
  <2>1. /\ piece <= Len(request) /\ piece' = piece + 1 /\ statement' = <<>>
        /\ UNCHANGED <<request, opened_auto_commit, before>>
        /\ dirty' \in BOOLEAN /\ in_transaction' \in BOOLEAN
    BY <1>2 DEF Track, ScanInv
  <2>2. piece' <= Len(request') => Len(Text') \in Nat
    BY <1>0, <2>1, PieceTypes DEF Text
  <2> QED BY <1>0, <2>1, <2>2 DEF ScanInv
<1>3. CASE UNCHANGED vars
  BY <1>3 DEF vars, ScanInv, Text
<1> QED BY <1>1, <1>2, <1>3 DEF Next

\* At a semicolon the statement read is the whole piece.
LEMMA WholePiece ==
    ASSUME ScanInv, Track
    PROVE  LeadingWords(statement) = Words(request[piece])
<1>1. /\ statement \in Seq(STRING) /\ Text \in Seq(STRING) /\ Len(statement) = Len(Text)
      /\ \A j \in 1..Len(statement) : statement[j] = Text[j]
  BY PieceTypes DEF ScanInv, Track, Text
<1>2. statement = Text
  BY <1>1
<1> QED BY <1>2 DEF Words, Text

-----------------------------------------------------------------------------
(* What a statement adds to the truth.                                     *)

LEMMA TrackedNext ==
    ASSUME ScanInv, Track
    PROVE  /\ Tracked' = Tracked \cup {piece}
           /\ \A k \in Tracked : k < piece
           /\ \A k : Acts(k)' = Acts(k)
           /\ before' = before /\ request' = request /\ piece \in 1..Len(request)
<1>1. piece' = piece + 1 /\ UNCHANGED <<request, opened_auto_commit, before>>
      /\ piece <= Len(request)
  BY DEF Track
<1>2. piece \in Nat /\ piece >= 1 /\ Len(request) \in Nat
  BY PieceTypes DEF ScanInv
<1> QED BY <1>1, <1>2 DEF Tracked, Acts

LEMMA ContextNext ==
    ASSUME ScanInv, Track
    PROVE  LeftContext' <=> LeftContext \/ request[piece].touches
BY TrackedNext DEF LeftContext

LEMMA TransactionNext ==
    ASSUME ScanInv, Track
    PROVE  LeftTransaction' <=> IF Acts(piece) = 0 THEN LeftTransaction ELSE Acts(piece) = 1
<1> DEFINE acting == {k \in Tracked : Acts(k) # 0}
           later  == {k \in Tracked' : Acts(k)' # 0}
<1>0. /\ \A k \in Tracked : k < piece
      /\ before' = before
      /\ \A k : Acts(k)' = Acts(k)
      /\ Tracked' = Tracked \cup {piece}
      /\ piece \in Nat /\ Tracked \subseteq Nat
  BY TrackedNext, PieceTypes DEF ScanInv, Tracked
<1>1. LeftTransaction <=> IF acting = {} THEN before.in_transaction
                         ELSE \E k \in acting : Acts(k) = 1 /\ \A j \in acting : j <= k
  BY DEF LeftTransaction
<1>2. LeftTransaction' <=> IF later = {} THEN before'.in_transaction
                          ELSE \E k \in later : Acts(k)' = 1 /\ \A j \in later : j <= k
  BY DEF LeftTransaction
<1>3. CASE Acts(piece) = 0
  <2>1. later = acting
    BY <1>0, <1>3
  <2>2. \A k \in acting : Acts(k)' = Acts(k)
    BY <1>0
  <2> HIDE DEF acting, later
  <2> QED BY <1>0, <1>1, <1>2, <1>3, <2>1, <2>2
<1>4. CASE Acts(piece) # 0
  <2>1. later = acting \cup {piece}
    BY <1>0, <1>4
  <2>2. \A k \in acting : k < piece /\ k \in Nat
    BY <1>0
  <2> HIDE DEF acting, later
  <2> QED BY <1>0, <1>2, <1>4, <2>1, <2>2
<1> QED BY <1>3, <1>4

\* The flags after a statement, by what its leading words say.
LEMMA FlagsNext ==
    ASSUME ScanInv, Track
    PROVE  LET p == request[piece]
               effect == TransactionEffect(Words(p))
           IN  /\ dirty' <=> dirty \/ TouchesSession(Words(p))
               /\ effect = -1 => ~in_transaction'
               /\ effect = 1 => in_transaction'
               /\ effect = 0 => (in_transaction' <=> in_transaction
                                   \/ (~opened_auto_commit /\ Len(Words(p)) > 0))
               /\ effect \in {-1, 0, 1}
<1>1. LeadingWords(statement) = Words(request[piece])
  BY WholePiece
<1> DEFINE words == Words(request[piece])
           effect == TransactionEffect(words)
<1>2. effect \in {-1, 0, 1}
  BY DEF TransactionEffect
<1>3. /\ dirty' = (dirty \/ TouchesSession(words))
      /\ in_transaction' = IF effect < 0 THEN FALSE
                           ELSE in_transaction \/ effect > 0
                                \/ (~opened_auto_commit /\ Len(words) > 0)
  BY <1>1 DEF Track
<1>4. in_transaction \in BOOLEAN /\ dirty \in BOOLEAN /\ TouchesSession(words) \in BOOLEAN
  BY DEF ScanInv, TouchesSession
<1> DEFINE some == Len(words) > 0
<1>5. some \in BOOLEAN /\ opened_auto_commit \in BOOLEAN
  BY DEF ScanInv
<1>6. in_transaction' = IF effect < 0 THEN FALSE
                        ELSE in_transaction \/ effect > 0 \/ (~opened_auto_commit /\ some)
  BY <1>3
<1> HIDE DEF words, effect, some
<1>7. /\ effect = -1 => ~in_transaction'
      /\ effect = 1 => in_transaction'
      /\ effect = 0 => (in_transaction' <=> in_transaction \/ (~opened_auto_commit /\ some))
  <2>1. CASE effect = -1
    <3>1. effect < 0 /\ effect # 1 /\ effect # 0
      BY <2>1
    <3> QED BY <1>6, <3>1, Zenon
  <2>2. CASE effect = 1
    <3>1. ~(effect < 0) /\ effect > 0 /\ effect # -1 /\ effect # 0
      BY <2>2
    <3> QED BY <1>6, <3>1, Zenon
  <2>3. CASE effect = 0
    <3>1. ~(effect < 0) /\ ~(effect > 0) /\ effect # -1 /\ effect # 1
      BY <2>3
    <3> QED BY <1>6, <3>1, Zenon
  <2> QED BY <1>2, <2>1, <2>2, <2>3
<1>8. dirty' <=> dirty \/ TouchesSession(words)
  BY <1>3
<1> QED BY <1>2, <1>7, <1>8 DEF words, effect, some

LEMMA ActsHere ==
    ASSUME ScanInv, Track
    PROVE  /\ request[piece].effect \in {-1, 0, 1}
           /\ request[piece].effect # 0 => Acts(piece) = request[piece].effect
           /\ request[piece].effect = 0 =>
                Acts(piece) = IF ~opened_auto_commit /\ HasWord(request[piece]) THEN 1 ELSE 0
<1>1. request[piece].effect \in {-1, 0, 1}
  BY PieceTypes, TrackedNext DEF ScanInv, Piece
<1> QED BY <1>1 DEF Acts, HasWord

-----------------------------------------------------------------------------

KnowsAll == (LeftContext => dirty) /\ (LeftTransaction => in_transaction)

KnowsOnly == (dirty => LeftContext) /\ (in_transaction => LeftTransaction)

Nobody == {k \in Tracked : Acts(k) # 0} = {}

LEMMA KnowsInit == Init => KnowsAll /\ KnowsOnly
<1> SUFFICES ASSUME Init PROVE KnowsAll /\ KnowsOnly
  OBVIOUS
<1>1. Tracked = {}
  BY DEF Init, Tracked
<1>2. /\ before.dirty = dirty /\ before.in_transaction = in_transaction
  BY DEF Init
<1> QED BY <1>1, <1>2 DEF KnowsAll, KnowsOnly, LeftContext, LeftTransaction

\* Where nothing is tracked, what is known stays.
LEMMA KnowsSame ==
    ASSUME UNCHANGED <<request, piece, dirty, in_transaction, opened_auto_commit, before>>
    PROVE  (KnowsAll => KnowsAll') /\ (KnowsOnly => KnowsOnly')
BY DEF KnowsAll, KnowsOnly, LeftContext, LeftTransaction, Tracked, Acts

LEMMA KnowsAllStep ==
    ASSUME \A r \in Requests : \A k \in 1..Len(r) : ReadSafely(r[k]),
           ScanInv, KnowsAll, [Next]_vars
    PROVE  KnowsAll'
<1>1. CASE Track
  <2> DEFINE p == request[piece]
             effect == TransactionEffect(Words(p))
  <2>1. ReadSafely(p)
    BY <1>1, TrackedNext DEF ScanInv
  <2>2. /\ dirty' <=> dirty \/ TouchesSession(Words(p))
        /\ effect = -1 => ~in_transaction'
        /\ effect = 1 => in_transaction'
        /\ effect = 0 => (in_transaction' <=> in_transaction
                            \/ (~opened_auto_commit /\ Len(Words(p)) > 0))
        /\ effect \in {-1, 0, 1}
    BY <1>1, FlagsNext
  <2>3. LeftContext' => dirty'
    BY <1>1, <2>1, <2>2, ContextNext DEF ReadSafely, KnowsAll
  <2>4. ASSUME LeftTransaction' PROVE in_transaction'
    <3>1. Acts(piece) = 1 \/ (Acts(piece) = 0 /\ in_transaction)
      BY <1>1, <2>4, TransactionNext DEF KnowsAll
    <3>2. /\ p.effect \in {-1, 0, 1}
          /\ p.effect # 0 => Acts(piece) = p.effect
          /\ p.effect = 0 => Acts(piece) = IF ~opened_auto_commit /\ HasWord(p) THEN 1 ELSE 0
      BY <1>1, ActsHere
    <3> HIDE DEF p, effect
    <3>3. effect = TransactionEffect(Words(p))
      BY DEF effect
    <3>4. CASE p.effect = 1
      BY <2>1, <2>2, <3>3, <3>4 DEF ReadSafely
    <3>5. CASE p.effect = 0
      <4>1. effect # -1
        BY <2>1, <3>3, <3>5 DEF ReadSafely
      <4>2. CASE ~opened_auto_commit /\ HasWord(p)
        BY <2>1, <2>2, <3>3, <3>5, <4>1, <4>2 DEF ReadSafely
      <4>3. CASE ~(~opened_auto_commit /\ HasWord(p))
        BY <2>2, <3>1, <3>2, <3>5, <4>1, <4>3
      <4> QED BY <4>2, <4>3
    <3> QED BY <3>1, <3>2, <3>4, <3>5
  <2> QED BY <2>3, <2>4 DEF KnowsAll
<1>2. CASE Scan \/ UNCHANGED vars
  BY <1>2, KnowsSame DEF Scan, vars
<1> QED BY <1>1, <1>2 DEF Next

LEMMA KnowsOnlyStep ==
    ASSUME \A r \in Requests : \A k \in 1..Len(r) : ReadExactly(r[k]),
           ScanInv, KnowsOnly, [Next]_vars
    PROVE  KnowsOnly'
<1>1. CASE Track
  <2> DEFINE p == request[piece]
             effect == TransactionEffect(Words(p))
  <2>1. ReadExactly(p)
    BY <1>1, TrackedNext DEF ScanInv
  <2>2. /\ dirty' <=> dirty \/ TouchesSession(Words(p))
        /\ effect = -1 => ~in_transaction'
        /\ effect = 1 => in_transaction'
        /\ effect = 0 => (in_transaction' <=> in_transaction
                            \/ (~opened_auto_commit /\ Len(Words(p)) > 0))
        /\ effect \in {-1, 0, 1}
    BY <1>1, FlagsNext
  <2>3. dirty' => LeftContext'
    BY <1>1, <2>1, <2>2, ContextNext DEF ReadExactly, KnowsOnly
  <2>4. ASSUME in_transaction' PROVE LeftTransaction'
    <3>1. /\ Acts(piece) = 1 => LeftTransaction'
          /\ Acts(piece) = 0 /\ in_transaction => LeftTransaction'
      BY <1>1, TransactionNext DEF KnowsOnly
    <3>2. /\ p.effect \in {-1, 0, 1}
          /\ p.effect # 0 => Acts(piece) = p.effect
          /\ p.effect = 0 => Acts(piece) = IF ~opened_auto_commit /\ HasWord(p) THEN 1 ELSE 0
      BY <1>1, ActsHere
    <3> HIDE DEF p, effect
    <3>3. effect = TransactionEffect(Words(p))
      BY DEF effect
    <3>4. p.effect # -1
      BY <2>1, <2>2, <2>4, <3>3 DEF ReadExactly
    <3>5. CASE p.effect = 1
      BY <3>1, <3>2, <3>5
    <3>6. CASE p.effect = 0
      <4>1. effect = 0
        BY <2>1, <2>2, <2>4, <3>3, <3>6 DEF ReadExactly
      <4>2. in_transaction \/ (~opened_auto_commit /\ HasWord(p))
        BY <2>1, <2>2, <2>4, <3>6, <4>1 DEF ReadExactly
      <4> QED BY <3>1, <3>2, <3>6, <4>2
    <3> QED BY <3>2, <3>4, <3>5, <3>6
  <2> QED BY <2>3, <2>4 DEF KnowsOnly
<1>2. CASE Scan \/ UNCHANGED vars
  BY <1>2, KnowsSame DEF Scan, vars
<1> QED BY <1>1, <1>2 DEF Next

(***************************************************************************)
(* A request of any number of statements, read with any flags before and   *)
(* in either mode: if no statement alone leaves anything unflagged, nor    *)
(* does the request (the loop of pdo_frostlake_track_session and the two   *)
(* flags it carries from one statement to the next).                       *)
(***************************************************************************)
THEOREM RequestsMissNothing ==
    ASSUME \A r \in Requests : \A k \in 1..Len(r) : ReadSafely(r[k])
    PROVE  Spec => []NothingMissed
<1>1. ScanInv /\ KnowsAll /\ [Next]_vars => KnowsAll'
  BY KnowsAllStep
<1>2. KnowsAll => NothingMissed
  BY DEF KnowsAll, NothingMissed
<1> QED BY <1>1, <1>2, ScanInit, ScanStep, KnowsInit, PTL DEF Spec

(***************************************************************************)
(* And if of no statement alone anything is flagged that it does not leave *)
(* behind, nothing is of the request: a COMMIT at the end still clears     *)
(* what the statements before it opened, and none of it comes back.        *)
(***************************************************************************)
THEOREM RequestsInventNothing ==
    ASSUME \A r \in Requests : \A k \in 1..Len(r) : ReadExactly(r[k])
    PROVE  Spec => []NothingInvented
<1>1. ScanInv /\ KnowsOnly /\ [Next]_vars => KnowsOnly'
  BY KnowsOnlyStep
<1>2. KnowsOnly => NothingInvented
  BY DEF KnowsOnly, NothingInvented
<1> QED BY <1>1, <1>2, ScanInit, ScanStep, KnowsInit, PTL DEF Spec
=============================================================================
