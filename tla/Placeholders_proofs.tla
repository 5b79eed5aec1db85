------------------------ MODULE Placeholders_proofs ------------------------
(***************************************************************************)
(* Theorems about the rendering of a statement, for every text and every   *)
(* binding of values that are what PHP can hold.                           *)
(*                                                                         *)
(* The two readings of a text, the scanner's and the automaton's, are both *)
(* recursive functions.  What they compute is proved by induction on the   *)
(* length of the text, or on the place from its end (Induction), and that  *)
(* a recursive function exists from its pieces.                            *)
(*                                                                         *)
(* The order: the two functions; what a stretch that is not code is, for   *)
(* both readings; where the loop stands; the markers; the form of          *)
(* literals; the loop itself, with its invariants; counting; identifiers;  *)
(* how literals read; and what they stand for.                             *)
(***************************************************************************)
EXTENDS Placeholders, Induction, SequenceTheorems, FiniteSetTheorems, TLAPS

-----------------------------------------------------------------------------
(* The functions defined by recursion.                                     *)

LEMMA ReadingExists ==
    ASSUME NEW t, NEW N \in Nat
    PROVE  \E g : g = [n \in 0..N |-> IF n = 0 THEN Start ELSE ReadChar(g[n - 1], t[n])]
<1> DEFINE T == {k \in Nat : \E g : g = [n \in 0..k |-> IF n = 0 THEN Start ELSE ReadChar(g[n - 1], t[n])]}
<1>1. 0 \in T
  <2> DEFINE g == [n \in 0..0 |-> Start]
  <2>1. g = [n \in 0..0 |-> IF n = 0 THEN Start ELSE ReadChar(g[n - 1], t[n])]  OBVIOUS
  <2> QED BY <2>1
<1>2. ASSUME NEW k \in Nat, k \in T  PROVE k + 1 \in T
  <2>1. PICK g : g = [n \in 0..k |-> IF n = 0 THEN Start ELSE ReadChar(g[n - 1], t[n])]  BY <1>2
  <2> DEFINE h == [n \in 0..k + 1 |-> IF n = k + 1 THEN ReadChar(g[k], t[n]) ELSE g[n]]
  <2>2. h = [n \in 0..k + 1 |-> IF n = 0 THEN Start ELSE ReadChar(h[n - 1], t[n])]
    <3>1. ASSUME NEW n \in 0..k + 1  PROVE h[n] = IF n = 0 THEN Start ELSE ReadChar(h[n - 1], t[n])
      <4>1. CASE n = k + 1  BY <4>1
      <4>2. CASE n # k + 1
        <5>1. n \in 0..k /\ (n # 0 => n - 1 \in 0..k + 1 /\ n - 1 # k + 1)  BY <4>2
        <5>2. g[n] = IF n = 0 THEN Start ELSE ReadChar(g[n - 1], t[n])  BY <2>1, <5>1
        <5>3. h[n] = g[n] /\ (n # 0 => h[n - 1] = g[n - 1])  BY <4>2, <5>1
        <5> HIDE DEF h
        <5> QED BY <5>2, <5>3
      <4> QED BY <4>1, <4>2
    <3> QED BY <3>1
  <2> HIDE DEF h
  <2>3. k + 1 \in Nat OBVIOUS
  <2> QED BY <2>2, <2>3
<1> HIDE DEF T
<1>3. Nat \subseteq T  BY <1>1, <1>2, SetInduction
<1>4. N \in T BY <1>3
<1> QED  BY <1>4 DEF T

LEMMA ReadingIs ==
    ASSUME NEW t, Len(t) \in Nat
    PROVE  /\ Reading(t)[0] = Start
           /\ \A n \in 1..Len(t) : Reading(t)[n] = ReadChar(Reading(t)[n - 1], t[n])
<1> DEFINE g == Reading(t)
<1>1. g = [n \in 0..Len(t) |-> IF n = 0 THEN Start ELSE ReadChar(g[n - 1], t[n])]
  BY ReadingExists DEF Reading
<1> HIDE DEF g
<1>2. g[0] = Start /\ \A n \in 1..Len(t) : g[n] = ReadChar(g[n - 1], t[n])  BY <1>1
<1> QED  BY <1>2 DEF g

PastStep(t, q, p, one, two) ==
    IF p > Len(t) THEN p
    ELSE IF q = "'" /\ t[p] = "\\" /\ p < Len(t) THEN two
    ELSE IF t[p] # q THEN one
    ELSE IF At(t, p + 1, q) THEN two
    ELSE p + 1

LEMMA PastStepLocal ==
    ASSUME NEW t, NEW q, NEW p \in Int, Len(t) \in Nat, NEW x, NEW y, NEW u, NEW v,
           p <= Len(t) => x = u, p < Len(t) => y = v
    PROVE  PastStep(t, q, p, x, y) = PastStep(t, q, p, u, v)
<1>1. CASE p > Len(t)  BY <1>1 DEF PastStep
<1>2. CASE p = Len(t)
  <2>1. ~(p < Len(t)) /\ ~(p + 1 <= Len(t))  BY <1>2
  <2>   QED  BY <1>2, <2>1 DEF PastStep, At
<1>3. CASE p < Len(t)  BY <1>3 DEF PastStep
<1>   QED  BY <1>1, <1>2, <1>3

PastIs(g, t, q) == g = [p \in 1..Len(t) + 1 |-> PastStep(t, q, p, g[p + 1], g[p + 2])]

LEMMA PastExists ==
    ASSUME NEW t, NEW q, Len(t) \in Nat
    PROVE  \E g : PastIs(g, t, q)
<1> DEFINE N == Len(t)
           T == {k \in Nat : \E g : g = [p \in N + 1 - k..N + 1 |-> PastStep(t, q, p, g[p + 1], g[p + 2])]}
<1> HIDE DEF N
<1>0. N \in Nat BY DEF N
<1>1. 0 \in T
  <2> DEFINE g == [p \in N + 1 - 0..N + 1 |-> p]
  <2>1. ASSUME NEW p \in N + 1 - 0..N + 1  PROVE p = PastStep(t, q, p, g[p + 1], g[p + 2])
    BY <1>0 DEF PastStep, N
  <2>2. g = [p \in N + 1 - 0..N + 1 |-> PastStep(t, q, p, g[p + 1], g[p + 2])]  BY <2>1
  <2> QED BY <2>2
<1>2. ASSUME NEW k \in Nat, k \in T  PROVE k + 1 \in T
  <2>1. PICK g : g = [p \in N + 1 - k..N + 1 |-> PastStep(t, q, p, g[p + 1], g[p + 2])]  BY <1>2
  <2> DEFINE m == N + 1 - (k + 1)
             h == [p \in m..N + 1 |-> IF p = m THEN PastStep(t, q, p, g[p + 1], g[p + 2]) ELSE g[p]]
  <2>2. ASSUME NEW p \in m..N + 1
        PROVE  h[p] = PastStep(t, q, p, h[p + 1], h[p + 2])
    <3>1. p <= N => p + 1 \in m..N + 1 /\ p + 1 # m  BY <1>0
    <3>2. p < N => p + 2 \in m..N + 1 /\ p + 2 # m  BY <1>0
    <3>3. p <= N => h[p + 1] = g[p + 1]  BY <3>1
    <3>4. p < N => h[p + 2] = g[p + 2]  BY <3>2
    <3>5. PastStep(t, q, p, h[p + 1], h[p + 2]) = PastStep(t, q, p, g[p + 1], g[p + 2])
      <4> HIDE DEF h
      <4> QED  BY <1>0, <3>3, <3>4, PastStepLocal DEF N
    <3>6. CASE p = m  BY <3>5, <3>6
    <3>7. CASE p # m
      <4>1. p \in N + 1 - k..N + 1  BY <3>7, <1>0
      <4>2. g[p] = PastStep(t, q, p, g[p + 1], g[p + 2])  BY <2>1, <4>1
      <4>3. h[p] = g[p]  BY <3>7
      <4> QED  BY <3>5, <4>2, <4>3
    <3> QED BY <3>6, <3>7
  <2>3. h = [p \in m..N + 1 |-> PastStep(t, q, p, h[p + 1], h[p + 2])]  BY <2>2
  <2> HIDE DEF h
  <2>4. k + 1 \in Nat OBVIOUS
  <2> QED BY <2>3, <2>4
<1> HIDE DEF T
<1>3. Nat \subseteq T  BY <1>1, <1>2, SetInduction
<1>4. N \in T  BY <1>0, <1>3
<1>5. PICK g : g = [p \in N + 1 - N..N + 1 |-> PastStep(t, q, p, g[p + 1], g[p + 2])]  BY <1>4 DEF T
<1>6. N + 1 - N = 1  BY <1>0
<1>   QED  BY <1>5, <1>6 DEF N, PastIs

LEMMA PastQuoteIs ==
    ASSUME NEW t, NEW q, Len(t) \in Nat
    PROVE  \A p \in 1..Len(t) + 1 :
             PastQuote(t, p, q) = PastStep(t, q, p, PastQuote(t, p + 1, q), PastQuote(t, p + 2, q))
<1> DEFINE past == CHOOSE g : g = [p \in 1..Len(t) + 1 |->
                     IF p > Len(t) THEN p
                     ELSE IF q = "'" /\ t[p] = "\\" /\ p < Len(t) THEN g[p + 2]
                     ELSE IF t[p] # q THEN g[p + 1]
                     ELSE IF At(t, p + 1, q) THEN g[p + 2]
                     ELSE p + 1]
<1>1. \A p : PastQuote(t, p, q) = past[p]  BY DEF PastQuote
<1>2. past = CHOOSE g : PastIs(g, t, q)  BY DEF PastStep, PastIs
<1> HIDE DEF past
<1>3. PastIs(past, t, q)  BY <1>2, PastExists
<1>4. ASSUME NEW p \in 1..Len(t) + 1
      PROVE  past[p] = PastStep(t, q, p, past[p + 1], past[p + 2])  BY <1>3 DEF PastIs
<1>   QED  BY <1>1, <1>4

LEMMA PastQuoteWithin ==
    ASSUME NEW t, NEW q, Len(t) \in Nat
    PROVE  \A p \in 1..Len(t) + 1 : PastQuote(t, p, q) \in p..Len(t) + 1
<1> DEFINE T == {p \in Int : PastQuote(t, p, q) \in p..Len(t) + 1}
           f(p) == PastQuote(t, p, q)
<1>1. ASSUME NEW p \in 1..Len(t) + 1, \A j \in p + 1..Len(t) + 1 : j \in T  PROVE p \in T
  <2>1. f(p) = PastStep(t, q, p, f(p + 1), f(p + 2))  BY PastQuoteIs
  <2>2. p <= Len(t) => f(p + 1) \in p + 1..Len(t) + 1  BY <1>1
  <2>3. p < Len(t) => f(p + 2) \in p + 2..Len(t) + 1  BY <1>1
  <2> HIDE DEF f
  <2>4. f(p) \in p..Len(t) + 1  BY <2>1, <2>2, <2>3 DEF PastStep, At
  <2>   QED  BY <2>4 DEF f
<1> HIDE DEF T
<1>2. 1 \in Int /\ Len(t) + 1 \in Int  OBVIOUS
<1>3. 1..Len(t) + 1 \subseteq T  BY <1>1, <1>2, DownFrom
<1>   QED  BY <1>3 DEF T

-----------------------------------------------------------------------------
(* Stretches that are not code, read by the scanner and by the automaton.  *)

LEMMA DoubleQuoteIs ==
    DoubleQuote \notin {NoChar, "'", "\\", "\n", Blank, "-", "/", "*", "$", "?", ":", "_", "(", ")", "]", "}", ".", ",", "+",
                     "0", "1", "5", "a", "e", "NULL", "TRUE", "FALSE", "FLOAT", "X"}
BY Zenon DEF DoubleQuote, NoChar, Blank

LEMMA NoCharIs == NoChar \notin {"'", "-", "/", "*", "$"}
BY Zenon DEF NoChar

LEMMA BlankIs ==
    Blank \notin {"'", DoubleQuote, NoChar, "\\", "\n", "-", "/", "*", "$", "?", ":", "_", "+", ".", "e", "NaN", "inf"} \cup Digits
BY Zenon DEF Blank, DoubleQuote, NoChar, Digits

QuoteMode(q) == IF q = "'" THEN "string" ELSE "quoted"

\* From i to before e no character is code, and what follows is.
Closes(t, i, e) ==
    /\ \A j \in i..e - 1 : ~InCode(t, j)
    /\ e <= Len(t) => Reading(t)[e - 1] = InMode("code", t[e - 1])

LEMMA InQuotes ==
    ASSUME NEW q \in {"'", DoubleQuote}, NEW s, s.mode = QuoteMode(q), NEW x
    PROVE  /\ x = q => ReadChar(s, x) = InMode("code", x)
           /\ q = "'" /\ x = "\\" => ReadChar(s, x).mode = "escape"
           /\ x # q /\ ~(q = "'" /\ x = "\\") => ReadChar(s, x).mode = QuoteMode(q)
BY DoubleQuoteIs DEF QuoteMode, ReadChar, InMode

LEMMA StaysQuoted ==
    \A q \in {"'", DoubleQuote} : \A s, x :
      s.mode = QuoteMode(q) /\ x # q /\ ~(q = "'" /\ x = "\\") => ReadChar(s, x).mode = QuoteMode(q)
BY InQuotes

LEMMA AfterQuotes ==
    ASSUME NEW q \in {"'", DoubleQuote}, NEW s, s.mode = "code"
    PROVE  ReadChar(s, q) = InMode(QuoteMode(q), q)
BY DoubleQuoteIs DEF QuoteMode, ReadChar, ReadCode, InMode

LEMMA AfterEscape ==
    ASSUME NEW s, s.mode = "escape", NEW x
    PROVE  ReadChar(s, x) = InMode("string", x)
BY DEF ReadChar

LEMMA ModeIs == \A m, x : InMode(m, x).mode = m /\ InMode(m, x).first = NoChar /\ InMode(m, x).prev = x
BY DEF InMode

LEMMA QuoteCloses ==
    ASSUME NEW t, Len(t) \in Nat, NEW q \in {"'", DoubleQuote}
    PROVE  \A p \in 1..Len(t) + 1 :
             Reading(t)[p - 1].mode = QuoteMode(q) => Closes(t, p, PastQuote(t, p, q))
<1> DEFINE N == Len(t)
           r == Reading(t)
           f(p) == PastQuote(t, p, q)
           T == {p \in Int : r[p - 1].mode = QuoteMode(q) => Closes(t, p, f(p))}
<1>1. ASSUME NEW p \in 1..N + 1, \A j \in p + 1..N + 1 : j \in T  PROVE p \in T
  <2> SUFFICES ASSUME r[p - 1].mode = QuoteMode(q)  PROVE Closes(t, p, f(p))  OBVIOUS
  <2>1. f(p) = PastStep(t, q, p, f(p + 1), f(p + 2))  BY PastQuoteIs
  <2>2. QuoteMode(q) # "code"  BY DEF QuoteMode
  <2>3. ~InCode(t, p)  BY <2>2 DEF InCode, ModeAfter
  <2>4. CASE p > N
    <3>1. f(p) = p  BY <2>1, <2>4 DEF PastStep
    <3> HIDE DEF f
    <3>   QED  BY <3>1, <2>4 DEF Closes
  <2>5. CASE p <= N
    <3>1. r[p] = ReadChar(r[p - 1], t[p])  BY <2>5, ReadingIs
    <3>2. p < N => r[p + 1] = ReadChar(r[p], t[p + 1])
      <4>1. p < N => p + 1 \in 1..N /\ p + 1 - 1 = p  OBVIOUS
      <4>   QED  BY <4>1, ReadingIs
    <3>3. ASSUME r[p].mode = QuoteMode(q)  PROVE Closes(t, p, f(p + 1))
      <4>1. p + 1 \in T  BY <1>1, <2>5
      <4>2. p + 1 - 1 = p  OBVIOUS
      <4>3. Closes(t, p + 1, f(p + 1))  BY <3>3, <4>1, <4>2
      <4>4. \A j \in p..f(p + 1) - 1 : j = p \/ j \in p + 1..f(p + 1) - 1
        <5>1. f(p + 1) \in Int  BY <2>5, PastQuoteWithin
        <5> HIDE DEF f
        <5>   QED  BY <5>1
      <4> HIDE DEF f
      <4>   QED  BY <2>3, <4>3, <4>4 DEF Closes
    <3>4. ASSUME p < N, r[p + 1].mode = QuoteMode(q), ~InCode(t, p + 1)  PROVE Closes(t, p, f(p + 2))
      <4>1. p + 2 \in T  BY <1>1, <3>4
      <4>2. p + 2 - 1 = p + 1  OBVIOUS
      <4>3. Closes(t, p + 2, f(p + 2))  BY <3>4, <4>1, <4>2
      <4>4. \A j \in p..f(p + 2) - 1 : j = p \/ j = p + 1 \/ j \in p + 2..f(p + 2) - 1
        <5>1. p + 2 \in 1..N + 1  BY <3>4
        <5>2. f(p + 2) \in Int  BY <5>1, PastQuoteWithin
        <5> HIDE DEF f
        <5>   QED  BY <5>2
      <4> HIDE DEF f
      <4>   QED  BY <2>3, <3>4, <4>3, <4>4 DEF Closes
    <3>5. CASE q = "'" /\ t[p] = "\\" /\ p < N
      <4>1. f(p) = f(p + 2)
        <5> HIDE DEF f
        <5> QED  BY <2>1, <2>5, <3>5 DEF PastStep
      <4>2. r[p].mode = "escape"  BY <3>1, <3>5, InQuotes
      <4>3. r[p + 1] = InMode("string", t[p + 1])  BY <3>2, <3>5, <4>2, AfterEscape
      <4>4. r[p + 1].mode = QuoteMode(q)  BY <3>5, <4>3, ModeIs DEF QuoteMode
      <4>5. ~InCode(t, p + 1)  BY <4>2 DEF InCode, ModeAfter
      <4>   QED  BY <3>4, <3>5, <4>1, <4>4, <4>5
    <3>6. CASE t[p] # q /\ ~(q = "'" /\ t[p] = "\\" /\ p < N)
      <4>1. f(p) = f(p + 1)
        <5> HIDE DEF f
        <5> QED  BY <2>1, <2>5, <3>6 DEF PastStep
      <4>2. CASE q = "'" /\ t[p] = "\\"
        <5>1. p = N  BY <2>5, <3>6, <4>2
        <5>2. f(p + 1) = N + 1
          <6>1. f(p + 1) \in p + 1..N + 1  BY <2>5, PastQuoteWithin
          <6> HIDE DEF f
          <6>   QED  BY <5>1, <6>1
        <5> HIDE DEF f
        <5>   QED  BY <2>3, <4>1, <5>1, <5>2 DEF Closes
      <4>3. CASE ~(q = "'" /\ t[p] = "\\")
        <5>1. ReadChar(r[p - 1], t[p]).mode = QuoteMode(q)
          <6>1. r[p - 1].mode = QuoteMode(q)  OBVIOUS
          <6>2. t[p] # q /\ ~(q = "'" /\ t[p] = "\\")  BY <3>6, <4>3
          <6>   QED  BY <6>1, <6>2, StaysQuoted
        <5>   QED  BY <3>1, <3>3, <4>1, <5>1
      <4>   QED  BY <4>2, <4>3
    <3>7. CASE t[p] = q
      <4>1. r[p] = InMode("code", q)  BY <3>1, <3>7, InQuotes
      <4>2. ~(q = "'" /\ t[p] = "\\")  BY <3>7
      <4>3. CASE At(t, p + 1, q)
        <5>1. p < N /\ t[p + 1] = q  BY <4>3 DEF At
        <5>2. f(p) = f(p + 2)
          <6> HIDE DEF f
          <6> QED  BY <2>1, <2>5, <3>7, <4>2, <4>3 DEF PastStep
        <5>3. r[p + 1] = InMode(QuoteMode(q), q)
          <6>1. r[p].mode = "code"  BY <4>1, ModeIs
          <6>2. ReadChar(r[p], q) = InMode(QuoteMode(q), q)  BY <6>1, AfterQuotes
          <6>   QED  BY <3>2, <5>1, <6>2
        <5>4. r[p + 1].mode = QuoteMode(q)  BY <5>3, ModeIs
        <5>5. ~InCode(t, p + 1)  BY <2>2, <5>4 DEF InCode, ModeAfter
        <5>   QED  BY <3>4, <5>1, <5>2, <5>4, <5>5
      <4>4. CASE ~At(t, p + 1, q)
        <5>1. f(p) = p + 1
          <6> HIDE DEF f
          <6> QED  BY <2>1, <2>5, <3>7, <4>2, <4>4 DEF PastStep
        <5>2. p + 1 - 1 = p /\ \A j \in p..p : j = p  OBVIOUS
        <5> HIDE DEF f
        <5>   QED  BY <2>3, <3>7, <4>1, <5>1, <5>2 DEF Closes
      <4>   QED  BY <4>3, <4>4
    <3>   QED  BY <3>5, <3>6, <3>7
  <2>   QED  BY <2>4, <2>5
<1> HIDE DEF T
<1>2. 1 \in Int /\ N + 1 \in Int  OBVIOUS
<1>3. 1..N + 1 \subseteq T  BY <1>1, <1>2, DownFrom
<1>   QED  BY <1>3 DEF T

LEMMA FirstIs ==
    ASSUME NEW t, NEW found, found \subseteq Nat
    PROVE  \/ found = {} /\ First(t, found) = Len(t) + 1
           \/ First(t, found) \in found /\ \A y \in found : First(t, found) <= y
<1>1. CASE found = {}  BY <1>1 DEF First
<1>2. CASE found # {}
  <2>1. \E x \in found : \A y \in found : x <= y  BY <1>2, LeastElement
  <2>2. First(t, found) = CHOOSE x \in found : \A y \in found : x <= y  BY <1>2 DEF First, Min
  <2>   QED  BY <2>1, <2>2
<1>   QED  BY <1>1, <1>2

LEMMA LineChar ==
    ASSUME NEW s, s.mode = "line", NEW x
    PROVE  ReadChar(s, x) = InMode(IF x = "\n" THEN "code" ELSE "line", x)
BY DEF ReadChar

LEMMA LineCloses ==
    ASSUME NEW t, Len(t) \in Nat, NEW k \in 1..Len(t) + 1, Reading(t)[k - 1].mode = "line"
    PROVE  LET e == Beyond(t, First(t, {j \in k..Len(t) : t[j] = "\n"}), 1)
           IN  e \in k..Len(t) + 1 /\ Closes(t, k, e)
<1> DEFINE N     == Len(t)
           r     == Reading(t)
           found == {j \in k..N : t[j] = "\n"}
           f     == First(t, found)
           e     == Beyond(t, f, 1)
           T     == {j \in Int : r[j - 1].mode = "line"}
<1>1. \/ found = {} /\ f = N + 1
      \/ f \in found /\ \A y \in found : f <= y
  <2>1. found \subseteq Nat  OBVIOUS
  <2> HIDE DEF found
  <2>   QED  BY <2>1, FirstIs
<1>2. f \in k..N + 1 /\ \A j \in k..f - 1 : t[j] # "\n"
  <2>1. CASE found = {} /\ f = N + 1
    <3> HIDE DEF f
    <3> QED  BY <2>1
  <2>2. CASE f \in found /\ \A y \in found : f <= y
    <3> HIDE DEF f
    <3>1. f \in k..N  BY <2>2
    <3>2. \A j \in k..f - 1 : j \in k..N /\ ~(f <= j)  BY <3>1
    <3>   QED  BY <2>2, <3>1, <3>2
  <2>   QED  BY <1>1, <2>1, <2>2
<1>3. f <= N => t[f] = "\n"
  <2> HIDE DEF f
  <2> QED  BY <1>1
<1> HIDE DEF f
<1>4. ASSUME NEW j \in k..f, \A i \in k..j - 1 : i \in T  PROVE j \in T
  <2>1. CASE j = k  BY <2>1
  <2>2. CASE j # k
    <3>1. j - 1 \in k..j - 1 /\ j - 1 \in k..f - 1 /\ j - 1 \in 1..N  BY <1>2, <2>2
    <3>2. r[j - 1 - 1].mode = "line"  BY <1>4, <3>1
    <3>3. r[j - 1] = ReadChar(r[j - 1 - 1], t[j - 1])  BY <3>1, ReadingIs
    <3>4. t[j - 1] # "\n"  BY <1>2, <3>1
    <3>5. r[j - 1] = InMode("line", t[j - 1])  BY <3>2, <3>3, <3>4, LineChar
    <3>   QED  BY <3>5, ModeIs
  <2>   QED  BY <2>1, <2>2
<1> HIDE DEF T
<1>5. k..f \subseteq T
  <2>1. k \in Int /\ f \in Int  BY <1>2
  <2>   QED  BY <1>4, <2>1, UpFrom
<1>6. \A j \in k..f : r[j - 1].mode = "line"  BY <1>5 DEF T
<1>7. \A j \in k..f : ~InCode(t, j)  BY <1>6 DEF InCode, ModeAfter
<1>8. CASE f = N + 1
  <2>1. e = f  BY <1>8 DEF Beyond
  <2> HIDE DEF e
  <2>2. Closes(t, k, e)  BY <1>2, <1>7, <1>8, <2>1 DEF Closes
  <2>   QED  BY <1>2, <2>1, <2>2 DEF e, f
<1>9. CASE f \in k..N
  <2>1. e = f + 1  BY <1>9 DEF Beyond
  <2> HIDE DEF e
  <2>2. r[f] = ReadChar(r[f - 1], t[f]) /\ r[f - 1].mode = "line" /\ t[f] = "\n"
    BY <1>3, <1>6, <1>9, ReadingIs
  <2>3. r[f] = InMode("code", t[f])  BY <2>2, LineChar
  <2>4. e - 1 = f /\ e \in k..N + 1  BY <1>9, <2>1
  <2>5. Closes(t, k, e)  BY <1>7, <2>3, <2>4 DEF Closes
  <2>   QED  BY <2>4, <2>5 DEF e, f
<1>   QED  BY <1>2, <1>8, <1>9

\* The modes that a pair of characters closes.
PairMode(m, a, b) ==
    \/ m = "block" /\ a = "*" /\ b = "/"
    \/ m = "body" /\ a = "$" /\ b = "$"

LEMMA PairChar ==
    ASSUME NEW m, NEW a, NEW b, PairMode(m, a, b), NEW s, s.mode = m, NEW x
    PROVE  /\ s.first = a /\ x = b => ReadChar(s, x) = InMode("code", x)
           /\ ~(s.first = a /\ x = b) => ReadChar(s, x).mode = m /\ ReadChar(s, x).first = x
<1>1. [InMode(m, x) EXCEPT !.first = x].mode = m /\ [InMode(m, x) EXCEPT !.first = x].first = x
  BY DEF InMode
<1>   QED  BY <1>1 DEF PairMode, ReadChar

LEMMA PairCloses ==
    ASSUME NEW t, Len(t) \in Nat, NEW m, NEW a, NEW b, PairMode(m, a, b),
           NEW k \in 1..Len(t) + 1, Reading(t)[k - 1].mode = m, Reading(t)[k - 1].first = NoChar
    PROVE  LET e == Beyond(t, First(t, {j \in k..Len(t) : Pair(t, j, a, b)}), 2)
           IN  e \in k..Len(t) + 1 /\ Closes(t, k, e)
<1> DEFINE N     == Len(t)
           r     == Reading(t)
           found == {j \in k..N : Pair(t, j, a, b)}
           f     == First(t, found)
           e     == Beyond(t, f, 2)
           last  == IF f = N + 1 THEN f ELSE f + 1
           T     == {j \in Int : r[j - 1].mode = m /\ r[j - 1].first = IF j = k THEN NoChar ELSE t[j - 1]}
<1>0. m # "code" /\ a # NoChar  BY NoCharIs DEF PairMode
<1>1. \/ found = {} /\ f = N + 1
      \/ f \in found /\ \A y \in found : f <= y
  <2>1. found \subseteq Nat  OBVIOUS
  <2> HIDE DEF found
  <2>   QED  BY <2>1, FirstIs
<1>2. f \in k..N + 1 /\ \A j \in k..f - 1 : ~Pair(t, j, a, b)
  <2>1. CASE found = {} /\ f = N + 1
    <3> HIDE DEF f
    <3> QED  BY <2>1
  <2>2. CASE f \in found /\ \A y \in found : f <= y
    <3> HIDE DEF f
    <3>1. f \in k..N  BY <2>2
    <3>2. \A j \in k..f - 1 : j \in k..N /\ ~(f <= j)  BY <3>1
    <3>   QED  BY <2>2, <3>1, <3>2
  <2>   QED  BY <1>1, <2>1, <2>2
<1>3. f # N + 1 => f \in k..N /\ t[f] = a /\ t[f + 1] = b /\ f + 1 <= N
  <2> HIDE DEF f
  <2> QED  BY <1>1 DEF Pair, At
<1> HIDE DEF f
<1>4. last \in k..N + 1 /\ f <= last /\ last <= f + 1  BY <1>2, <1>3
<1> HIDE DEF last
<1>5. ASSUME NEW j \in k..last, \A i \in k..j - 1 : i \in T  PROVE j \in T
  <2>1. CASE j = k  BY <2>1
  <2>2. CASE j # k
    <3> DEFINE i == j - 1
    <3>1. i \in k..j - 1 /\ i \in 1..N /\ i <= f  BY <1>2, <1>4, <2>2
    <3>2. r[i - 1].mode = m /\ r[i - 1].first = IF i = k THEN NoChar ELSE t[i - 1]  BY <1>5, <3>1
    <3>3. r[i] = ReadChar(r[i - 1], t[i])  BY <3>1, ReadingIs
    <3>4. ~(r[i - 1].first = a /\ t[i] = b)
      <4>1. CASE i = k  BY <1>0, <3>2, <4>1
      <4>2. CASE i # k
        <5>1. i - 1 \in k..f - 1 /\ i - 1 <= N /\ i - 1 + 1 = i /\ i <= N  BY <3>1, <4>2, <1>2
        <5>2. ~Pair(t, i - 1, a, b)  BY <1>2, <5>1
        <5>   QED  BY <3>2, <4>2, <5>1, <5>2 DEF Pair, At
      <4>   QED  BY <4>1, <4>2
    <3>5. ReadChar(r[i - 1], t[i]).mode = m /\ ReadChar(r[i - 1], t[i]).first = t[i]
      <4> DEFINE s == r[i - 1]
                 x == t[i]
      <4>1. s.mode = m /\ ~(s.first = a /\ x = b)  BY <3>2, <3>4
      <4> HIDE DEF s, x
      <4>2. ReadChar(s, x).mode = m /\ ReadChar(s, x).first = x  BY <4>1, PairChar
      <4>   QED  BY <4>2 DEF s, x
    <3>   QED  BY <2>2, <3>3, <3>5
  <2>   QED  BY <2>1, <2>2
<1> HIDE DEF T
<1>6. k..last \subseteq T
  <2>1. k \in Int /\ last \in Int  BY <1>4
  <2>   QED  BY <1>5, <2>1, UpFrom
<1>7. \A j \in k..last : r[j - 1].mode = m /\ r[j - 1].first = IF j = k THEN NoChar ELSE t[j - 1]
  BY <1>6 DEF T
<1>8. \A j \in k..last : ~InCode(t, j)  BY <1>0, <1>7 DEF InCode, ModeAfter
<1>9. CASE f = N + 1
  <2>1. e = f /\ last = f  BY <1>9 DEF Beyond, last
  <2> HIDE DEF e
  <2>2. Closes(t, k, e)  BY <1>2, <1>8, <1>9, <2>1 DEF Closes
  <2>   QED  BY <1>2, <2>1, <2>2 DEF e, f
<1>10. CASE f # N + 1
  <2>1. e = f + 2 /\ last = f + 1  BY <1>3, <1>10 DEF Beyond, last
  <2> HIDE DEF e
  <2>2. f + 1 \in 1..N /\ f + 1 \in k..last /\ f + 1 - 1 = f /\ f + 1 # k /\ e \in k..N + 1
        /\ e - 1 = f + 1
    BY <1>3, <1>10, <2>1
  <2>3. r[f + 1] = ReadChar(r[f], t[f + 1]) /\ r[f].mode = m /\ r[f].first = a /\ t[f + 1] = b
    <3>1. \A n \in 1..N : r[n] = ReadChar(r[n - 1], t[n])  BY ReadingIs
    <3>2. \A j \in k..last : j # k => r[j - 1].mode = m /\ r[j - 1].first = t[j - 1]  BY <1>7
    <3> DEFINE i == f + 1
    <3>3. i \in 1..N /\ i \in k..last /\ i # k /\ i - 1 = f  BY <1>2, <2>2
    <3> HIDE DEF r, i
    <3>4. r[i] = ReadChar(r[i - 1], t[i])  BY <3>1, <3>3
    <3>5. r[i - 1].mode = m /\ r[i - 1].first = t[i - 1]  BY <3>2, <3>3
    <3>   QED  BY <1>3, <1>10, <3>3, <3>4, <3>5 DEF i
  <2>4. r[f + 1] = InMode("code", t[f + 1])
    <3> DEFINE s == r[f]
    <3>1. s.mode = m /\ s.first = a  BY <2>3
    <3> HIDE DEF s
    <3>2. ReadChar(s, b) = InMode("code", b)  BY <3>1, PairChar
    <3>   QED  BY <2>3, <3>2 DEF s
  <2>5. \A j \in k..e - 1 : j \in k..last  BY <1>3, <1>10, <2>1
  <2>6. Closes(t, k, e)  BY <1>8, <2>2, <2>4, <2>5 DEF Closes
  <2>   QED  BY <2>2, <2>6 DEF e, f
<1>   QED  BY <1>9, <1>10

-----------------------------------------------------------------------------
(* Where the rendering loop stands: in code, with nothing half open.       *)

Opens(first, x) ==
    \/ first = "-" /\ x = "-"
    \/ first = "/" /\ x \in {"/", "*"}
    \/ first = "$" /\ x = "$"

CodeAt(t, i) ==
    LET s == Reading(t)[i - 1]
    IN  /\ s.mode = "code"
        /\ s.prev = IF i = 1 THEN Blank ELSE t[i - 1]
        /\ i <= Len(t) => ~Opens(s.first, t[i])

LEMMA CodeAtIs ==
    ASSUME NEW t, NEW i
    PROVE  CodeAt(t, i) <=>
             /\ Reading(t)[i - 1].mode = "code"
             /\ i = 1 => Reading(t)[i - 1].prev = Blank
             /\ i # 1 => Reading(t)[i - 1].prev = t[i - 1]
             /\ i <= Len(t) => ~Opens(Reading(t)[i - 1].first, t[i])
BY DEF CodeAt

LEMMA StartsInCode ==
    ASSUME NEW t, Len(t) \in Nat
    PROVE  CodeAt(t, 1)
<1> DEFINE s == Reading(t)[1 - 1]
<1>1. 1 - 1 = 0  OBVIOUS
<1>2. s = Start  BY <1>1, ReadingIs
<1> HIDE DEF s
<1>3. s.mode = "code" /\ s.prev = Blank /\ s.first = NoChar  BY <1>2 DEF Start
<1>4. ~Opens(NoChar, t[1])  BY NoCharIs DEF Opens
<1>   QED  BY <1>3, <1>4, CodeAtIs DEF s

LEMMA ClosedIsCode ==
    ASSUME NEW t, Len(t) \in Nat, NEW i, NEW e \in 2..Len(t), Closes(t, i, e)
    PROVE  CodeAt(t, e)
<1> DEFINE s == Reading(t)[e - 1]
<1>1. s = InMode("code", t[e - 1])  BY DEF Closes
<1>2. s.mode = "code" /\ s.prev = t[e - 1] /\ s.first = NoChar  BY <1>1, ModeIs
<1>3. ~Opens(NoChar, t[e])  BY NoCharIs DEF Opens
<1> HIDE DEF s
<1>4. e # 1  OBVIOUS
<1>   QED  BY <1>2, <1>3, <1>4, CodeAtIs DEF s

\* Skip took the text from i to before e along: no marker is in it.
Passed(t, i, e) ==
    /\ e \in i + 1..Len(t) + 1
    /\ \A j \in i..e - 1 : InCode(t, j) => t[j] \in {"-", "/", "$"}
    /\ e <= Len(t) => CodeAt(t, e)

LEMMA OneAhead ==
    ASSUME NEW t, Len(t) \in Nat, NEW i \in 1..Len(t), NEW e \in i + 1..Len(t) + 1,
           Closes(t, i + 1, e), InCode(t, i) => t[i] \in {"-", "/", "$"}
    PROVE  Passed(t, i, e)
<1>1. \A j \in i..e - 1 : j = i \/ j \in i + 1..e - 1  OBVIOUS
<1>2. e <= Len(t) => CodeAt(t, e)  BY ClosedIsCode
<1>   QED  BY <1>1, <1>2 DEF Passed, Closes

LEMMA TwoAhead ==
    ASSUME NEW t, Len(t) \in Nat, NEW i \in 1..Len(t) - 1, NEW e \in i + 2..Len(t) + 1,
           Closes(t, i + 2, e), t[i] \in {"-", "/", "$"},
           InCode(t, i + 1) => t[i + 1] \in {"-", "/", "$"}
    PROVE  Passed(t, i, e)
<1>1. \A j \in i..e - 1 : j = i \/ j = i + 1 \/ j \in i + 2..e - 1  OBVIOUS
<1>2. e <= Len(t) => CodeAt(t, e)  BY ClosedIsCode
<1>   QED  BY <1>1, <1>2 DEF Passed, Closes

OpensPair(t, i) ==
    \/ Pair(t, i, "-", "-") \/ Pair(t, i, "/", "/") \/ Pair(t, i, "/", "*")
    \/ OpensBody(t, i)

\* The pairs that open something and the quotes are told apart by their characters.
LEMMA SkipIs ==
    ASSUME NEW t, NEW i
    PROVE  /\ t[i] \in {"'", DoubleQuote} => Skip(t, i) = PastQuote(t, i + 1, t[i])
           /\ Pair(t, i, "-", "-") \/ Pair(t, i, "/", "/") =>
                Skip(t, i) = Beyond(t, First(t, {j \in i + 2..Len(t) : t[j] = "\n"}), 1)
           /\ Pair(t, i, "/", "*") =>
                Skip(t, i) = Beyond(t, First(t, {j \in i + 2..Len(t) : Pair(t, j, "*", "/")}), 2)
           /\ OpensBody(t, i) =>
                Skip(t, i) = Beyond(t, First(t, {j \in i + 2..Len(t) : Pair(t, j, "$", "$")}), 2)
           /\ t[i] \notin {"'", DoubleQuote} /\ ~OpensPair(t, i) => Skip(t, i) = i
<1>1. ASSUME NEW x, NEW y, Pair(t, i, x, y)  PROVE t[i] = x /\ t[i + 1] = y  BY <1>1 DEF Pair, At
<1>2. OpensBody(t, i) => t[i] = "$"  BY <1>1 DEF OpensBody
<1>3. Pair(t, i, "-", "-") => t[i] = "-"  BY <1>1
<1>4. Pair(t, i, "/", "/") => t[i] = "/" /\ t[i + 1] = "/"  BY <1>1
<1>5. Pair(t, i, "/", "*") => t[i] = "/" /\ t[i + 1] = "*"  BY <1>1
<1>   QED  BY <1>2, <1>3, <1>4, <1>5, DoubleQuoteIs DEF Skip, OpensPair

LEMMA SpaceIsNoWord == ~Wordy(Blank)
BY BlankIs DEF Wordy, Alnum, Symbols

\* What code makes of a character that opens nothing with the one before.
LEMMA CodeChar ==
    ASSUME NEW s, s.mode = "code", NEW x, ~Opens(s.first, x), x \notin {"'", DoubleQuote}
    PROVE  /\ ReadChar(s, x).mode = "code" /\ ReadChar(s, x).prev = x
           /\ ReadChar(s, x).first =
                IF x \in {"-", "/"} \/ (x = "$" /\ ~Wordy(s.prev)) THEN x ELSE NoChar
BY DEF ReadChar, ReadCode, InMode, Opens

LEMMA OpenChar ==
    ASSUME NEW s, s.mode = "code"
    PROVE  /\ s.first = "-" => ReadChar(s, "-") = InMode("line", "-")
           /\ s.first = "/" => ReadChar(s, "/") = InMode("line", "/")
           /\ s.first = "/" => ReadChar(s, "*") = InMode("block", "*")
           /\ s.first = "$" => ReadChar(s, "$") = InMode("body", "$")
BY DoubleQuoteIs DEF ReadChar, ReadCode, InMode

LEMMA WordBefore ==
    ASSUME NEW t, NEW i \in Nat, CodeAt(t, i)
    PROVE  Wordy(Reading(t)[i - 1].prev) <=> i # 1 /\ Wordy(t[i - 1])
BY SpaceIsNoWord, CodeAtIs

LEMMA BodyOpens ==
    ASSUME NEW t, NEW i \in Nat \ {0}
    PROVE  OpensBody(t, i) <=> Pair(t, i, "$", "$") /\ ~(i # 1 /\ Wordy(t[i - 1]))
<1>1. Wordy(t[i - 1]) <=> Alnum(t[i - 1]) \/ t[i - 1] \in {"_", "$"}  BY DEF Wordy
<1>2. i > 1 <=> i # 1  OBVIOUS
<1>   QED  BY <1>1, <1>2 DEF OpensBody

LEMMA CodePasses ==
    ASSUME NEW t, Len(t) \in Nat, NEW i \in 1..Len(t), CodeAt(t, i),
           t[i] \notin {"'", DoubleQuote}
    PROVE  /\ InCode(t, i)
           /\ i < Len(t) /\ ~OpensPair(t, i) => CodeAt(t, i + 1)
<1> DEFINE r == Reading(t)
           s == r[i - 1]
           x == t[i]
<1>1. s.mode = "code" /\ ~Opens(s.first, x)
  <2>1. i <= Len(t)  OBVIOUS
  <2>   QED  BY <2>1, CodeAtIs
<1>2. r[i] = ReadChar(s, x)  BY ReadingIs
<1>3. Wordy(s.prev) <=> i # 1 /\ Wordy(t[i - 1])  BY WordBefore
<1> HIDE DEF s, x
<1>0. x \notin {"'", DoubleQuote}  BY DEF x
<1>4. /\ r[i].mode = "code" /\ r[i].prev = x
      /\ r[i].first = IF x \in {"-", "/"} \/ (x = "$" /\ ~Wordy(s.prev)) THEN x ELSE NoChar
  BY <1>0, <1>1, <1>2, CodeChar
<1>5. InCode(t, i)  BY <1>1, <1>4 DEF InCode, ModeAfter, s
<1>6. ASSUME i < Len(t), ~OpensPair(t, i)  PROVE CodeAt(t, i + 1)
  <2>1. ~Opens(r[i].first, t[i + 1])
    <3> SUFFICES ASSUME Opens(r[i].first, t[i + 1])  PROVE FALSE  OBVIOUS
    <3>1. r[i].first = x  BY <1>4, NoCharIs DEF Opens
    <3>2. \A y, z : x = y /\ t[i + 1] = z => Pair(t, i, y, z)  BY <1>6 DEF Pair, At, x
    <3>3. x = "$" => ~Wordy(s.prev)  BY <1>4, <3>1, NoCharIs
    <3>4. x = "$" /\ t[i + 1] = "$" => OpensBody(t, i)  BY <1>3, <3>2, <3>3, BodyOpens
    <3>   QED  BY <1>6, <3>1, <3>2, <3>4 DEF Opens, OpensPair
  <2>2. i + 1 - 1 = i /\ i + 1 # 1  OBVIOUS
  <2> DEFINE q == r[i]
             k == i + 1
  <2>3. q.mode = "code" /\ q.prev = t[i] /\ ~Opens(q.first, t[k]) /\ k # 1 /\ k - 1 = i
    BY <1>4, <2>1, <2>2 DEF x
  <2>4. q = Reading(t)[k - 1]  BY <2>2
  <2> HIDE DEF q, k
  <2>5. CodeAt(t, k)  BY <2>3, <2>4, CodeAtIs
  <2>   QED  BY <2>5 DEF k
<1>   QED  BY <1>5, <1>6

LEMMA QuotePasses ==
    ASSUME NEW t, Len(t) \in Nat, NEW i \in 1..Len(t), CodeAt(t, i),
           t[i] \in {"'", DoubleQuote}
    PROVE  Passed(t, i, Skip(t, i))
<1> DEFINE q == t[i]
           k == i + 1
           e == PastQuote(t, k, q)
           s == Reading(t)[i - 1]
<1>1. Skip(t, i) = e  BY SkipIs
<1>2. Reading(t)[i] = ReadChar(s, q) /\ s.mode = "code"  BY ReadingIs, CodeAtIs
<1>3. Reading(t)[i] = InMode(QuoteMode(q), q)
  <2> HIDE DEF s
  <2> QED  BY <1>2, AfterQuotes
<1>4. Reading(t)[i].mode = QuoteMode(q)  BY <1>3, ModeIs
<1>5. QuoteMode(q) # "code"  BY DEF QuoteMode
<1>6. ~InCode(t, i)  BY <1>4, <1>5 DEF InCode, ModeAfter
<1>7. k \in 1..Len(t) + 1 /\ k - 1 = i  OBVIOUS
<1> HIDE DEF k, e
<1>8. Closes(t, k, e)  BY <1>4, <1>7, QuoteCloses DEF e
<1>9. e \in k..Len(t) + 1  BY <1>7, PastQuoteWithin DEF e
<1>   QED  BY <1>1, <1>6, <1>8, <1>9, OneAhead DEF k

LEMMA PairPasses ==
    ASSUME NEW t, Len(t) \in Nat, NEW i \in 1..Len(t), CodeAt(t, i), OpensPair(t, i)
    PROVE  Passed(t, i, Skip(t, i))
<1> DEFINE r == Reading(t)
           k == i + 2
           x == t[i]
           y == t[i + 1]
<1>1. i + 1 \in 1..Len(t)
      /\ \/ Pair(t, i, "-", "-") /\ x = "-" /\ y = "-"
         \/ Pair(t, i, "/", "/") /\ x = "/" /\ y = "/"
         \/ Pair(t, i, "/", "*") /\ x = "/" /\ y = "*"
         \/ OpensBody(t, i) /\ x = "$" /\ y = "$"
  <2>1. \A a, b : Pair(t, i, a, b) => i + 1 <= Len(t) /\ x = a /\ y = b  BY DEF Pair, At
  <2>2. OpensBody(t, i) => Pair(t, i, "$", "$")  BY DEF OpensBody
  <2>3. i + 1 <= Len(t) => i + 1 \in 1..Len(t)  OBVIOUS
  <2> HIDE DEF x, y
  <2>   QED  BY <2>1, <2>2, <2>3, Zenon DEF OpensPair
<1>2. i \in 1..Len(t) - 1 /\ k \in 1..Len(t) + 1 /\ k - 1 = i + 1  BY <1>1
<1>3. r[i] = ReadChar(r[i - 1], x) /\ r[i + 1] = ReadChar(r[i], y)
  <2> DEFINE j == i + 1
  <2>1. j - 1 = i /\ j \in 1..Len(t)  BY <1>1
  <2> HIDE DEF j
  <2>2. r[j] = ReadChar(r[j - 1], t[j])  BY <2>1, ReadingIs
  <2>3. r[i] = ReadChar(r[i - 1], x)  BY ReadingIs
  <2>   QED  BY <2>1, <2>2, <2>3 DEF j
<1>4. r[i].mode = "code" /\ r[i].first = x
  <2> DEFINE s == r[i - 1]
  <2>1. s.mode = "code" /\ ~Opens(s.first, x)
    <3>1. i <= Len(t)  OBVIOUS
    <3>   QED  BY <3>1, CodeAtIs
  <2>2. x \notin {"'", DoubleQuote}  BY <1>1, DoubleQuoteIs
  <2>3. x = "$" => ~Wordy(s.prev)
    <3>1. x = "$" => OpensBody(t, i)  BY <1>1
    <3>2. OpensBody(t, i) => ~(i # 1 /\ Wordy(t[i - 1]))  BY BodyOpens
    <3>   QED  BY <3>1, <3>2, WordBefore
  <2> HIDE DEF s, x, y
  <2>   QED  BY <1>1, <1>3, <2>1, <2>2, <2>3, CodeChar DEF s
<1>5. x \in {"-", "/", "$"}  BY <1>1
<1>6. InCode(t, i + 1) => y \in {"-", "/", "$"}
  <2>1. y = "*" => r[i + 1].mode = "block"
    <3>1. y = "*" => x = "/"  BY <1>1
    <3>2. y = "*" => ReadChar(r[i], "*") = InMode("block", "*")  BY <1>4, <3>1, OpenChar
    <3>   QED  BY <1>3, <3>2, ModeIs
  <2>   QED  BY <1>1, <2>1 DEF InCode, ModeAfter
<1>7. ASSUME NEW e, Skip(t, i) = e, e \in k..Len(t) + 1, Closes(t, k, e)
      PROVE  Passed(t, i, Skip(t, i))
  BY <1>2, <1>5, <1>6, <1>7, TwoAhead
<1>8. ASSUME Pair(t, i, "-", "-") \/ Pair(t, i, "/", "/")
      PROVE  Passed(t, i, Skip(t, i))
  <2> DEFINE e == Beyond(t, First(t, {j \in k..Len(t) : t[j] = "\n"}), 1)
  <2>1. Skip(t, i) = e  BY <1>8, SkipIs
  <2>2. x = y /\ x \in {"-", "/"}  BY <1>8 DEF Pair, At
  <2>3. r[i + 1] = InMode("line", y)  BY <1>3, <1>4, <2>2, OpenChar
  <2>4. r[k - 1].mode = "line"  BY <1>2, <2>3, ModeIs
  <2> HIDE DEF k, x, y
  <2>5. e \in k..Len(t) + 1 /\ Closes(t, k, e)  BY <1>2, <2>4, LineCloses
  <2>   QED  BY <1>7, <2>1, <2>5
<1>9. ASSUME NEW m, NEW a, NEW b, PairMode(m, a, b), r[i + 1] = InMode(m, y),
             Skip(t, i) = Beyond(t, First(t, {j \in k..Len(t) : Pair(t, j, a, b)}), 2)
      PROVE  Passed(t, i, Skip(t, i))
  <2> DEFINE e == Beyond(t, First(t, {j \in k..Len(t) : Pair(t, j, a, b)}), 2)
  <2>1. r[k - 1].mode = m /\ r[k - 1].first = NoChar  BY <1>2, <1>9, ModeIs
  <2> HIDE DEF k, x, y
  <2>2. e \in k..Len(t) + 1 /\ Closes(t, k, e)  BY <1>2, <1>9, <2>1, PairCloses
  <2>   QED  BY <1>7, <1>9, <2>2
<1>10. ASSUME Pair(t, i, "/", "*")  PROVE Passed(t, i, Skip(t, i))
  <2>1. x = "/" /\ y = "*"  BY <1>10 DEF Pair, At
  <2>2. r[i + 1] = InMode("block", y)  BY <1>3, <1>4, <2>1, OpenChar
  <2>3. PairMode("block", "*", "/")  BY DEF PairMode
  <2>4. Skip(t, i) = Beyond(t, First(t, {j \in k..Len(t) : Pair(t, j, "*", "/")}), 2)  BY <1>10, SkipIs
  <2> HIDE DEF k, x, y
  <2>   QED  BY <1>9, <2>2, <2>3, <2>4
<1>11. ASSUME OpensBody(t, i)  PROVE Passed(t, i, Skip(t, i))
  <2>1. x = "$" /\ y = "$"  BY <1>11 DEF OpensBody, Pair, At
  <2>2. r[i + 1] = InMode("body", y)  BY <1>3, <1>4, <2>1, OpenChar
  <2>3. PairMode("body", "$", "$")  BY DEF PairMode
  <2>4. Skip(t, i) = Beyond(t, First(t, {j \in k..Len(t) : Pair(t, j, "$", "$")}), 2)  BY <1>11, SkipIs
  <2> HIDE DEF k, x, y
  <2>   QED  BY <1>9, <2>2, <2>3, <2>4
<1>   QED  BY <1>8, <1>10, <1>11 DEF OpensPair

\* What the scanner does at a place that is in code.
LEMMA SkipPasses ==
    ASSUME NEW t, Len(t) \in Nat, NEW i \in 1..Len(t), CodeAt(t, i)
    PROVE  /\ Skip(t, i) # i => Passed(t, i, Skip(t, i))
           /\ Skip(t, i) = i => InCode(t, i) /\ (i < Len(t) => CodeAt(t, i + 1))
<1> DEFINE opens == t[i] \in {"'", DoubleQuote} \/ OpensPair(t, i)
<1>1. ASSUME opens  PROVE Passed(t, i, Skip(t, i)) /\ Skip(t, i) # i
  <2>1. Passed(t, i, Skip(t, i))  BY <1>1, QuotePasses, PairPasses
  <2>2. Skip(t, i) \in i + 1..Len(t) + 1  BY <2>1 DEF Passed
  <2>3. \A b \in i + 1..Len(t) + 1 : b # i  OBVIOUS
  <2>   QED  BY <2>1, <2>2, <2>3
<1>2. ASSUME ~opens
      PROVE  Skip(t, i) = i /\ InCode(t, i) /\ (i < Len(t) => CodeAt(t, i + 1))
  BY <1>2, SkipIs, CodePasses
<1> HIDE DEF opens
<1>   QED  BY <1>1, <1>2

-----------------------------------------------------------------------------
(* The markers, found one by one.                                          *)

IsName(x) == Alnum(x) \/ x = "_"

LEMMA NameOrSymbol ==
    /\ \A x : IsName(x) => x \notin {"'", DoubleQuote, "-", "/", "*", "$", "?", ":"}
    /\ \A x : Alpha(x) => IsName(x)
BY DoubleQuoteIs DEF IsName, Alnum, Alpha, Symbols

LEMMA NameEnds ==
    ASSUME NEW t, Len(t) \in Nat, NEW i \in 1..Len(t)
    PROVE  /\ NameEnd(t, i) \in i + 1..Len(t) + 1
           /\ \A j \in i + 1..NameEnd(t, i) - 1 : IsName(t[j])
           /\ NameEnd(t, i) <= Len(t) => ~IsName(t[NameEnd(t, i)])
<1> DEFINE found == {j \in i + 1..Len(t) : ~IsName(t[j])}
           f     == NameEnd(t, i)
<1>1. \/ found = {} /\ f = Len(t) + 1
      \/ f \in found /\ \A y \in found : f <= y
  <2>1. found \subseteq Nat  OBVIOUS
  <2>2. f = First(t, found)
    <3>1. \A x : ~IsName(x) <=> ~Alnum(x) /\ x # "_"  BY DEF IsName
    <3>2. {j \in i + 1..Len(t) : ~Alnum(t[j]) /\ t[j] # "_"} = found  BY <3>1
    <3>   QED  BY <3>2, Zenon DEF NameEnd
  <2> HIDE DEF found, f
  <2>   QED  BY <2>1, <2>2, FirstIs
<1> HIDE DEF f
<1>2. f \in i + 1..Len(t) + 1
  <2>1. f \in found => f \in i + 1..Len(t)  OBVIOUS
  <2>2. \A b \in i + 1..Len(t) : b \in i + 1..Len(t) + 1  OBVIOUS
  <2>3. Len(t) + 1 \in i + 1..Len(t) + 1  OBVIOUS
  <2>   QED  BY <1>1, <2>1, <2>2, <2>3, Zenon
<1>3. ASSUME NEW j \in i + 1..f - 1  PROVE IsName(t[j])
  <2>1. j \in i + 1..Len(t) /\ ~(f <= j)  BY <1>2
  <2>2. j \notin found  BY <1>1, <2>1
  <2>   QED  BY <2>1, <2>2
<1>4. f <= Len(t) => ~IsName(t[f])  BY <1>1
<1>   QED  BY <1>2, <1>3, <1>4 DEF f

LEMMA NameIsCode ==
    ASSUME NEW t, Len(t) \in Nat, NEW i \in 1..Len(t), CodeAt(t, i), Skip(t, i) = i
    PROVE  \A j \in i + 1..NameEnd(t, i) : j <= Len(t) => CodeAt(t, j)
<1> DEFINE f == NameEnd(t, i)
           T == {j \in Int : j <= Len(t) => CodeAt(t, j)}
<1>1. f \in i + 1..Len(t) + 1 /\ \A j \in i + 1..f - 1 : IsName(t[j])  BY NameEnds
<1> HIDE DEF f
<1>2. ASSUME NEW j \in i + 1..f, \A k \in i + 1..j - 1 : k \in T  PROVE j \in T
  <2> SUFFICES ASSUME j <= Len(t)  PROVE CodeAt(t, j)  BY <1>1
  <2>1. CASE j = i + 1
    <3>1. i < Len(t)  BY <2>1
    <3>   QED  BY <2>1, <3>1, SkipPasses
  <2>2. CASE j # i + 1
    <3> DEFINE k == j - 1
    <3>1. k \in i + 1..j - 1 /\ k \in i + 1..f - 1 /\ k \in 1..Len(t) /\ k < Len(t) /\ j = k + 1
      BY <1>1, <2>2
    <3> HIDE DEF k
    <3>2. CodeAt(t, k)  BY <1>2, <3>1
    <3>3. IsName(t[k])  BY <1>1, <3>1
    <3>4. t[k] \notin {"'", DoubleQuote} /\ ~OpensPair(t, k)
      BY <3>3, NameOrSymbol DEF OpensPair, OpensBody, Pair, At
    <3>   QED  BY <3>1, <3>2, <3>4, CodePasses
  <2>   QED  BY <2>1, <2>2
<1> HIDE DEF T
<1>3. i + 1 \in Int /\ f \in Int  BY <1>1
<1>4. i + 1..f \subseteq T  BY <1>2, <1>3, UpFrom
<1>   QED  BY <1>4 DEF T, f

LEMMA NamePasses ==
    ASSUME NEW t, Len(t) \in Nat, NEW i \in 1..Len(t), CodeAt(t, i), Skip(t, i) = i
    PROVE  NameEnd(t, i) <= Len(t) => CodeAt(t, NameEnd(t, i))
<1> DEFINE f == NameEnd(t, i)
<1>1. f \in i + 1..Len(t) + 1  BY NameEnds
<1>2. f \in i + 1..f  BY <1>1
<1> HIDE DEF f
<1>   QED  BY <1>2, NameIsCode DEF f

MarkerAt(t, i) == t[i] = "?" \/ OpensNamed(t, i)

LEMMA OperandsAgree ==
    ASSUME NEW t, NEW i \in Nat \ {0}
    PROVE  AfterOperand(t, i) <=> ~(i > 1 => ~Alnum(t[i - 1]) /\ t[i - 1] \notin OperandEnds)
<1> DEFINE x == t[i - 1]
<1>1. (Wordy(x) \/ x \in {")", "]", "}", "'", DoubleQuote, "?", ":"}) <=> Alnum(x) \/ x \in OperandEnds
  BY DEF Wordy, OperandEnds
<1> HIDE DEF x
<1>   QED  BY <1>1 DEF AfterOperand, x

LEMMA NamedAgree ==
    ASSUME NEW t, NEW i \in 1..Len(t), Len(t) \in Nat
    PROVE  OpensNamed(t, i) <=>
             t[i] = ":" /\ i < Len(t) /\ (Alpha(t[i + 1]) \/ t[i + 1] = "_") /\ ~AfterOperand(t, i)
<1>1. i \in Nat \ {0} /\ i <= Len(t)  OBVIOUS
<1>2. At(t, i, ":") <=> t[i] = ":"  BY <1>1 DEF At
<1>   QED  BY <1>1, <1>2, OperandsAgree DEF OpensNamed

LEMMA MarkersAgree ==
    ASSUME NEW t, Len(t) \in Nat, NEW i \in 1..Len(t), InCode(t, i)
    PROVE  i \in MarkersOf(t) <=> MarkerAt(t, i)
BY NamedAgree DEF MarkersOf, MarkerAt

LEMMA MarkersInCode ==
    ASSUME NEW t
    PROVE  /\ MarkersOf(t) \subseteq 1..Len(t)
           /\ \A i \in MarkersOf(t) : InCode(t, i) /\ t[i] \in {"?", ":"}
BY DEF MarkersOf

\* The markers in front of i.
Before(t, i) == {j \in MarkersOf(t) : j < i}

LEMMA NoneBetween ==
    ASSUME NEW t, Len(t) \in Nat, NEW i \in Int, NEW e \in Int, i <= e,
           \A j \in i..e - 1 : j \notin MarkersOf(t)
    PROVE  Before(t, e) = Before(t, i)
<1>1. \A j \in MarkersOf(t) : j \in Int  BY MarkersInCode
<1>2. \A j \in MarkersOf(t) : j < e => j < i  BY <1>1
<1>3. \A j \in MarkersOf(t) : j < i => j < e  BY <1>1
<1>   QED  BY <1>2, <1>3 DEF Before

LEMMA PassedOver ==
    ASSUME NEW t, Len(t) \in Nat, NEW i \in 1..Len(t), NEW e, Passed(t, i, e)
    PROVE  Before(t, e) = Before(t, i)
<1>1. e \in Int /\ i <= e  BY DEF Passed
<1>2. \A j \in i..e - 1 : j \notin MarkersOf(t)  BY MarkersInCode DEF Passed
<1>   QED  BY <1>1, <1>2, NoneBetween

LEMMA OneOver ==
    ASSUME NEW t, Len(t) \in Nat, NEW i \in 1..Len(t), InCode(t, i)
    PROVE  Before(t, i + 1) = Before(t, i) \cup (IF MarkerAt(t, i) THEN {i} ELSE {})
<1>1. \A j \in MarkersOf(t) : j \in Int  BY MarkersInCode
<1>2. \A j \in MarkersOf(t) : j < i + 1 <=> j < i \/ j = i  BY <1>1
<1>   QED  BY <1>2, MarkersAgree DEF Before

LEMMA NameOver ==
    ASSUME NEW t, Len(t) \in Nat, NEW i \in 1..Len(t), InCode(t, i), OpensNamed(t, i)
    PROVE  Before(t, NameEnd(t, i)) = Before(t, i) \cup {i}
<1> DEFINE f == NameEnd(t, i)
<1>1. f \in i + 1..Len(t) + 1 /\ \A j \in i + 1..f - 1 : IsName(t[j])  BY NameEnds
<1>2. \A j \in i + 1..f - 1 : j \notin MarkersOf(t)  BY <1>1, NameOrSymbol, MarkersInCode
<1>3. i + 1 \in Int /\ f \in Int /\ i + 1 <= f  BY <1>1
<1> HIDE DEF f
<1>4. Before(t, f) = Before(t, i + 1)  BY <1>2, <1>3, NoneBetween
<1>5. MarkerAt(t, i)  BY DEF MarkerAt
<1>   QED  BY <1>4, <1>5, OneOver DEF f

-----------------------------------------------------------------------------
(* Literals: sequences, and never empty.                                   *)

FlatStep(s, g, i) == IF i = 1 THEN s[i] ELSE g[i - 1] \o s[i]
FlatIs(g, s) == g = [i \in 1..Len(s) |-> FlatStep(s, g, i)]

LEMMA FlatExists ==
    ASSUME NEW s, Len(s) \in Nat
    PROVE  \E g : FlatIs(g, s)
<1> DEFINE T == {k \in Nat : \E g : g = [i \in 1..k |-> FlatStep(s, g, i)]}
<1>1. 0 \in T
  <2> DEFINE g == [i \in 1..0 |-> s]
  <2>1. \A i : i \notin 1..0  OBVIOUS
  <2>2. g = [i \in 1..0 |-> FlatStep(s, g, i)]  BY <2>1
  <2>   QED  BY <2>2
<1>2. ASSUME NEW k \in Nat, k \in T  PROVE k + 1 \in T
  <2>1. PICK g : g = [i \in 1..k |-> FlatStep(s, g, i)]  BY <1>2
  <2> DEFINE h == [i \in 1..k + 1 |-> IF i = k + 1 THEN FlatStep(s, g, i) ELSE g[i]]
  <2>2. ASSUME NEW i \in 1..k + 1  PROVE h[i] = FlatStep(s, h, i)
    <3>1. i # 1 => i - 1 \in 1..k + 1 /\ i - 1 # k + 1  OBVIOUS
    <3>2. i # 1 => h[i - 1] = g[i - 1]  BY <3>1
    <3>3. FlatStep(s, h, i) = FlatStep(s, g, i)
      <4> HIDE DEF h
      <4> QED  BY <3>2 DEF FlatStep
    <3>4. i # k + 1 => i \in 1..k  OBVIOUS
    <3>5. i # k + 1 => g[i] = FlatStep(s, g, i)  BY <2>1, <3>4
    <3>6. h[i] = IF i = k + 1 THEN FlatStep(s, g, i) ELSE g[i]  OBVIOUS
    <3> HIDE DEF h
    <3>   QED  BY <3>3, <3>5, <3>6
  <2>3. h = [i \in 1..k + 1 |-> FlatStep(s, h, i)]  BY <2>2
  <2> HIDE DEF h
  <2>4. k + 1 \in Nat  OBVIOUS
  <2>   QED  BY <2>3, <2>4
<1> HIDE DEF T
<1>3. Nat \subseteq T  BY <1>1, <1>2, SetInduction
<1>4. Len(s) \in T  BY <1>3
<1>   QED  BY <1>4 DEF T, FlatIs

LEMMA FlattenIs ==
    ASSUME NEW s, Len(s) \in Nat \ {0}
    PROVE  \E g : /\ g[1] = s[1]
                  /\ \A i \in 2..Len(s) : g[i] = g[i - 1] \o s[i]
                  /\ FlattenSeq(s) = g[Len(s)]
<1> DEFINE g == CHOOSE h : FlatIs(h, s)
<1>1. FlattenSeq(s) = g[Len(s)]
  <2> DEFINE h == CHOOSE f : f = [i \in 1..Len(s) |-> IF i = 1 THEN s[i] ELSE f[i - 1] \o s[i]]
  <2>1. FlattenSeq(s) = h[Len(s)]  BY DEF FlattenSeq
  <2>2. h = g  BY DEF FlatIs, FlatStep
  <2> HIDE DEF g, h
  <2>   QED  BY <2>1, <2>2
<1>2. FlatIs(g, s)  BY FlatExists
<1> HIDE DEF g
<1>3. ASSUME NEW i \in 1..Len(s)  PROVE g[i] = FlatStep(s, g, i)  BY <1>2 DEF FlatIs
<1>4. g[1] = s[1]
  <2>1. 1 \in 1..Len(s)  OBVIOUS
  <2>   QED  BY <1>3, <2>1 DEF FlatStep
<1>5. ASSUME NEW i \in 2..Len(s)  PROVE g[i] = g[i - 1] \o s[i]
  <2>1. i \in 1..Len(s) /\ i # 1  OBVIOUS
  <2>   QED  BY <1>3, <2>1 DEF FlatStep
<1>   QED  BY <1>1, <1>4, <1>5

LEMMA FlattenType ==
    ASSUME NEW S, NEW s \in Seq(Seq(S))
    PROVE  FlattenSeq(s) \in Seq(S)
<1>1. CASE Len(s) = 0
  <2>1. s = <<>>  BY <1>1, EmptySeq
  <2>   QED  BY <1>1, <2>1 DEF FlattenSeq
<1>2. CASE Len(s) # 0
  <2>1. Len(s) \in Nat \ {0}  BY <1>2
  <2>2. PICK g : /\ g[1] = s[1]
                 /\ \A i \in 2..Len(s) : g[i] = g[i - 1] \o s[i]
                 /\ FlattenSeq(s) = g[Len(s)]  BY <2>1, FlattenIs
  <2> DEFINE T == {i \in Int : g[i] \in Seq(S)}
  <2>3. ASSUME NEW i \in 1..Len(s), \A j \in 1..i - 1 : j \in T  PROVE i \in T
    <3>1. s[i] \in Seq(S)  OBVIOUS
    <3>2. CASE i = 1  BY <2>2, <3>1, <3>2
    <3>3. CASE i # 1
      <4>1. i - 1 \in 1..i - 1 /\ i \in 2..Len(s)  BY <3>3
      <4>2. g[i - 1] \in Seq(S) /\ g[i] = g[i - 1] \o s[i]  BY <2>2, <2>3, <4>1
      <4>3. \A a, b \in Seq(S) : a \o b \in Seq(S)  OBVIOUS
      <4>4. g[i] \in Seq(S)  BY <3>1, <4>2, <4>3
      <4>   QED  BY <4>4
    <3>   QED  BY <3>2, <3>3
  <2> HIDE DEF T
  <2>4. 1 \in Int /\ Len(s) \in Int  BY <2>1
  <2>5. 1..Len(s) \subseteq T  BY <2>3, <2>4, UpFrom
  <2>6. Len(s) \in 1..Len(s)  BY <2>1
  <2>   QED  BY <2>2, <2>5, <2>6 DEF T
<1>   QED  BY <1>1, <1>2

\* What a statement as rendered is made of.
Letters == {"'", "\\", "X", ":", Blank, "0", "1", "NULL", "TRUE", "FALSE", "FLOAT"}
Chars   == STRING \cup Letters \cup {Hex[x] : x \in STRING}

LEMMA LettersAreChars == Letters \subseteq Chars /\ STRING \subseteq Chars /\ \A x \in STRING : Hex[x] \in Chars
BY DEF Chars

LEMMA TextIsChars ==
    ASSUME NEW t \in Seq(STRING)
    PROVE  t \in Seq(Chars)
<1>1. ASSUME NEW i \in 1..Len(t)  PROVE t[i] \in Chars
  <2>1. t[i] \in STRING  OBVIOUS
  <2>   QED  BY <2>1, LettersAreChars
<1>2. t \in [1..Len(t) -> Chars] /\ Len(t) \in Nat  BY <1>1
<1>   QED  BY <1>2

LEMMA Joined == \A S : \A a, b \in Seq(S) : a \o b \in Seq(S) /\ Len(a \o b) = Len(a) + Len(b)
OBVIOUS

LEMMA CharsAssociate == \A u, v, w \in Seq(Chars) : (u \o v) \o w = u \o (v \o w)
OBVIOUS

LEMMA Singles ==
    ASSUME NEW S, NEW x \in S
    PROVE  <<x>> \in Seq(S) /\ Len(<<x>>) = 1 /\ <<x, x>> \in Seq(S) /\ Len(<<x, x>>) = 2
OBVIOUS

Escaped(x) == IF x \in {"'", "\\"} THEN <<x, x>> ELSE <<x>>
Inside(t)  == FlattenSeq([i \in 1..Len(t) |-> Escaped(t[i])])

LEMMA QuotedIs == \A t : Quoted(t) = <<"'">> \o Inside(t) \o <<"'">>
BY DEF Quoted, Inside, Escaped

LEMMA InsideType ==
    ASSUME NEW t \in Seq(STRING)
    PROVE  Inside(t) \in Seq(STRING)
<1> DEFINE s == [i \in 1..Len(t) |-> Escaped(t[i])]
<1>1. ASSUME NEW i \in 1..Len(t)  PROVE Escaped(t[i]) \in Seq(STRING)
  <2> DEFINE x == t[i]
  <2>1. x \in STRING  OBVIOUS
  <2> HIDE DEF x
  <2>2. Escaped(x) \in Seq(STRING)  BY <2>1, Singles DEF Escaped
  <2>   QED  BY <2>2 DEF x
<1>2. s \in [1..Len(t) -> Seq(STRING)] /\ Len(t) \in Nat  BY <1>1
<1> HIDE DEF s
<1>3. s \in Seq(Seq(STRING))  BY <1>2
<1>4. FlattenSeq(s) \in Seq(STRING)  BY <1>3, FlattenType
<1>   QED  BY <1>4 DEF Inside, s

\* A literal: something, made of characters.
Literally(t) == t \in Seq(Chars) /\ Len(t) > 0

LEMMA Between ==
    ASSUME NEW a \in Seq(Chars), NEW t \in Seq(Chars), NEW b \in Seq(Chars), Len(a) + Len(b) > 0
    PROVE  Literally(a \o t \o b)
BY Joined DEF Literally

LEMMA QuotedLiterally ==
    ASSUME NEW t \in Seq(STRING)
    PROVE  Literally(Quoted(t))
<1> DEFINE a == <<"'">>
<1>1. a \in Seq(Chars) /\ Len(a) = 1
  <2>1. "'" \in Chars  BY LettersAreChars DEF Letters
  <2>   QED  BY <2>1, Singles
<1>2. Inside(t) \in Seq(Chars)  BY InsideType, TextIsChars
<1> HIDE DEF a
<1>3. Len(a) + Len(a) > 0  BY <1>1
<1>4. Literally(a \o Inside(t) \o a)  BY <1>1, <1>2, <1>3, Between, Zenon
<1>   QED  BY <1>4, QuotedIs DEF a

LEMMA BinaryLiterally ==
    ASSUME NEW t \in Seq(STRING)
    PROVE  Literally(Binary(t))
<1> DEFINE a == <<"X", "'">>
           b == <<"'">>
           h == [i \in 1..Len(t) |-> Hex[t[i]]]
<1>1. a \in Seq(Chars) /\ Len(a) = 2 /\ b \in Seq(Chars) /\ Len(b) = 1
  <2>1. "'" \in Chars /\ "X" \in Chars  BY LettersAreChars DEF Letters
  <2> HIDE DEF h
  <2>   QED  BY <2>1
<1>2. h \in [1..Len(t) -> Chars] /\ Len(t) \in Nat
  <2>1. ASSUME NEW i \in 1..Len(t)  PROVE Hex[t[i]] \in Chars
    <3>1. t[i] \in STRING  OBVIOUS
    <3>   QED  BY <3>1, LettersAreChars
  <2>   QED  BY <2>1
<1>3. Binary(t) = a \o h \o b  BY DEF Binary
<1> HIDE DEF a, b, h
<1>4. h \in Seq(Chars)  BY <1>2
<1>5. Len(a) + Len(b) > 0  BY <1>1
<1>   QED  BY <1>1, <1>3, <1>4, <1>5, Between, Zenon

LEMMA NumberLiterally ==
    ASSUME NEW o, NEW t \in Seq(STRING), t # <<>>
    PROVE  Literally(Number(o, t))
<1>1. t \in Seq(Chars) /\ Len(t) > 0  BY TextIsChars, EmptySeq
<1> DEFINE a == <<Blank>>
<1>2. a \in Seq(Chars) /\ Len(a) = 1
  <2>1. Blank \in Chars  BY LettersAreChars DEF Letters
  <2>   QED  BY <2>1, Singles
<1> HIDE DEF a
<1>3. a \o t \in Seq(Chars) /\ Len(a \o t) = Len(a) + Len(t)  BY <1>1, <1>2, Joined
<1>4. Len(a \o t) > 0  BY <1>1, <1>2, <1>3
<1>   QED  BY <1>1, <1>3, <1>4 DEF Number, Literally, a

LEMMA DoubleLiterally ==
    ASSUME NEW o, NEW t \in Seq(STRING), t # <<>>
    PROVE  Literally(Double(o, t))
<1> DEFINE a == <<"'">>
           b == <<"'", ":", ":", "FLOAT">>
<1>1. a \in Seq(Chars) /\ Len(a) = 1 /\ b \in Seq(Chars) /\ Len(b) = 4
  <2>1. "'" \in Chars /\ ":" \in Chars /\ "FLOAT" \in Chars  BY LettersAreChars DEF Letters
  <2>   QED  BY <2>1
<1>2. Double(o, t) = IF Last(t) \in {"NaN", "inf"} THEN a \o t \o b ELSE Number(o, t)  BY DEF Double
<1> HIDE DEF a, b
<1>3. Len(a) + Len(b) > 0  BY <1>1
<1>4. Literally(a \o t \o b)  BY <1>1, <1>3, TextIsChars, Between, Zenon
<1>   QED  BY <1>2, <1>4, NumberLiterally

LEMMA NumericIsSomething ==
    ASSUME NEW t, t = <<>>
    PROVE  ~IsNumericLiteral(t)
<1>1. Trimmed(t) = <<>>
  <2>1. {j \in 1..Len(t) : t[j] # Blank} = {}  OBVIOUS
  <2>   QED  BY <2>1 DEF Trimmed
<1>2. Run(<<>>, 1) = 1
  <2>1. {j \in 1..Len(<<>>) : <<>>[j] \notin Digits} = {}  OBVIOUS
  <2>   QED  BY <2>1 DEF Run, First
<1>3. \A x : ~At(<<>>, 1, x)  BY DEF At
<1>   QED  BY <1>1, <1>2, <1>3 DEF IsNumericLiteral

ValueOK(v) ==
    /\ v \in Values /\ v.type \in Types /\ v.php \in Kinds /\ v.text \in Seq(STRING)
    /\ v.php = "long"   => IsNumericLiteral(v.text)
    /\ v.php = "double" => IsNumericLiteral(v.text) \/ v.text \in NotFinite
    /\ v.type = "lob"   => Range(v.text) \subseteq DOMAIN Hex

LEMMA LiteralIsOne ==
    ASSUME NEW o, NEW v, ValueOK(v)
    PROVE  Literally(Literal(o, v))
<1>1. \A x \in Letters : Literally(<<x>>)
  BY LettersAreChars, Singles DEF Literally
<1>2. Literally(<<"NULL">>) /\ Literally(<<"TRUE">>) /\ Literally(<<"FALSE">>) /\ Literally(<<"1">>) /\ Literally(<<"0">>)
  BY <1>1 DEF Letters
<1>3. v.text \in Seq(STRING) /\ v.type \in {"null", "bool", "int", "str", "lob"}  BY DEF ValueOK, Types
<1>4. Literally(Quoted(v.text)) /\ Literally(Binary(v.text))  BY <1>3, QuotedLiterally, BinaryLiterally
<1>5. v.text # <<>> => Literally(Number(o, v.text)) /\ Literally(Double(o, v.text))
  BY <1>3, NumberLiterally, DoubleLiterally
<1>7. IsNumericLiteral(v.text) => v.text # <<>>  BY NumericIsSomething
<1>6. v.php \in {"long", "double"} => v.text # <<>>
  <2>1. v.text \in NotFinite => v.text # <<>>  BY DEF NotFinite
  <2>   QED  BY <1>7, <2>1 DEF ValueOK
<1>8. v.type = "null" => IsNull(v)  BY DEF IsNull
<1>9. CASE IsNull(v)  BY <1>2, <1>9 DEF Literal
<1>10. CASE ~IsNull(v) /\ v.type = "bool"  BY <1>2, <1>10 DEF Literal
<1>11. CASE ~IsNull(v) /\ v.type \in {"lob", "str"}  BY <1>4, <1>11 DEF Literal
<1>12. CASE ~IsNull(v) /\ v.type = "int"
  <2>1. Literal(o, v) \in {Number(o, v.text), <<"1">>, <<"0">>, Double(o, v.text), Quoted(v.text)}
        /\ (Literal(o, v) # Quoted(v.text) => v.text # <<>> \/ Literal(o, v) \in {<<"1">>, <<"0">>})
    BY <1>6, <1>7, <1>12 DEF Literal
  <2>   QED  BY <1>2, <1>4, <1>5, <2>1
<1>   QED  BY <1>3, <1>8, <1>9, <1>10, <1>11, <1>12

\* What is left of a value can still be written.
LEMMA LeftIsOK ==
    ASSUME NEW v, ValueOK(v), ~Refused(v), NEW gone
    PROVE  ValueOK(Left(v, gone)) /\ ~Refused(Left(v, gone))
<1>1. CASE IsStream(v) /\ v \in gone
  <2> DEFINE u == [v EXCEPT !.text = <<>>]
  <2>1. Left(v, gone) = u  BY <1>1 DEF Left
  <2>2. v \in Values  BY DEF ValueOK
  <2>8. <<>> \in Seq(STRING)  OBVIOUS
  <2>3. u \in Values /\ u.type = v.type /\ u.php = v.php /\ u.text = <<>>  BY <2>2, <2>8 DEF Values
  <2> HIDE DEF u
  <2>4. u.php = "stream" /\ u.type = "lob" /\ u.type \in Types /\ u.php \in Kinds /\ <<>> \in Seq(STRING)
    BY <1>1, <2>3 DEF IsStream, Types, Kinds
  <2>5. Range(<<>>) \subseteq DOMAIN Hex  BY DEF Range
  <2>6. ValueOK(u)  BY <2>3, <2>4, <2>5 DEF ValueOK
  <2>7. ~Refused(u)  BY <2>4 DEF Refused
  <2>   QED  BY <2>1, <2>6, <2>7
<1>2. CASE ~(IsStream(v) /\ v \in gone)
  BY <1>2 DEF Left
<1>   QED  BY <1>1, <1>2

-----------------------------------------------------------------------------
(* Numbers.                                                                *)

LEMMA RunIs ==
    ASSUME NEW t, Len(t) \in Nat, NEW i \in 1..Len(t) + 1
    PROVE  /\ Run(t, i) \in i..Len(t) + 1
           /\ \A j \in i..Run(t, i) - 1 : t[j] \in Digits
           /\ Run(t, i) <= Len(t) => t[Run(t, i)] \notin Digits
<1> DEFINE found == {j \in i..Len(t) : t[j] \notin Digits}
           f     == Run(t, i)
<1>1. \/ found = {} /\ f = Len(t) + 1
      \/ f \in found /\ \A y \in found : f <= y
  <2>1. found \subseteq Nat  OBVIOUS
  <2>2. f = First(t, found)  BY Zenon DEF Run
  <2> HIDE DEF found, f
  <2>   QED  BY <2>1, <2>2, FirstIs
<1> HIDE DEF f
<1>2. f \in i..Len(t) + 1
  <2>1. f \in found => f \in i..Len(t)  OBVIOUS
  <2>2. \A b \in i..Len(t) : b \in i..Len(t) + 1  OBVIOUS
  <2>3. Len(t) + 1 \in i..Len(t) + 1  OBVIOUS
  <2>   QED  BY <1>1, <2>1, <2>2, <2>3, Zenon
<1>3. ASSUME NEW j \in i..f - 1  PROVE t[j] \in Digits
  <2>1. j \in i..Len(t) /\ ~(f <= j)  BY <1>2
  <2>2. j \notin found  BY <1>1, <2>1
  <2>   QED  BY <2>1, <2>2
<1>4. f <= Len(t) => t[f] \notin Digits  BY <1>1
<1>   QED  BY <1>2, <1>3, <1>4 DEF f

\* Trimmed takes the blanks off at both ends, and nothing else.
Solid(t, a, b) ==
    /\ a \in 1..Len(t) /\ b \in a..Len(t) /\ t[a] # Blank /\ t[b] # Blank
    /\ \A i \in 1..Len(t) : i < a \/ i > b => t[i] = Blank

LEMMA TrimmedIs ==
    ASSUME NEW S, NEW t \in Seq(S)
    PROVE  \/ Trimmed(t) = <<>> /\ \A i \in 1..Len(t) : t[i] = Blank
           \/ \E a, b : Solid(t, a, b) /\ Trimmed(t) = SubSeq(t, a, b)
<1> DEFINE solid == {j \in 1..Len(t) : t[j] # Blank}
<1>0. solid \subseteq Nat /\ solid \subseteq 1..Len(t) /\ Len(t) \in Nat  OBVIOUS
<1>1. CASE solid = {}
  <2>1. Trimmed(t) = <<>>  BY <1>1 DEF Trimmed
  <2>   QED  BY <1>1, <2>1
<1>2. CASE solid # {}
  <2> DEFINE a == Min(solid)
             b == Max(solid)
  <2>1. Trimmed(t) = SubSeq(t, a, b)  BY <1>2 DEF Trimmed
  <2>2. a \in solid /\ \A y \in solid : a <= y
    <3> HIDE DEF solid
    <3>2. \E x \in solid : \A y \in solid : x <= y  BY <1>0, <1>2, LeastElement
    <3>   QED  BY <3>2 DEF Min
  <2>3. b \in solid /\ \A y \in solid : b >= y
    <3> HIDE DEF solid
    <3>2. PICK x \in solid : \A y \in solid : y <= x  BY <1>0, <1>2, GreatestElement
    <3>3. \A y \in solid : x >= y  BY <1>0, <3>2
    <3>   QED  BY <3>3 DEF Max
  <2> HIDE DEF a, b
  <2>4. Solid(t, a, b)
    <3>1. a \in 1..Len(t) /\ b \in 1..Len(t) /\ t[a] # Blank /\ t[b] # Blank /\ a <= b  BY <2>2, <2>3
    <3>2. ASSUME NEW i \in 1..Len(t), i < a \/ i > b  PROVE t[i] = Blank
      <4>1. ~(a <= i) \/ ~(b >= i)  BY <3>1, <3>2
      <4>2. i \notin solid  BY <2>2, <2>3, <4>1, Zenon
      <4>   QED  BY <4>2
    <3>   QED  BY <3>1, <3>2 DEF Solid
  <2>   QED  BY <2>1, <2>4
<1>   QED  BY <1>1, <1>2

LEMMA SubSeqIs ==
    ASSUME NEW S, NEW t \in Seq(S), NEW a \in 1..Len(t), NEW b \in a..Len(t)
    PROVE  /\ SubSeq(t, a, b) \in Seq(S) /\ Len(SubSeq(t, a, b)) = b - a + 1
           /\ \A i \in 1..b - a + 1 : SubSeq(t, a, b)[i] = t[a - 1 + i]
           /\ \A i \in a..b : SubSeq(t, a, b)[i - a + 1] = t[i]
<1>1. a \in Int /\ b \in Int /\ a <= b /\ \A i \in a..b : t[i] \in S  OBVIOUS
<1>2. /\ SubSeq(t, a, b) \in Seq(S) /\ Len(SubSeq(t, a, b)) = b - a + 1
      /\ \A i \in 1..b - a + 1 : SubSeq(t, a, b)[i] = t[a + i - 1]
  BY <1>1, SubSeqProperties
<1>3. \A i \in 1..b - a + 1 : a + i - 1 = a - 1 + i  OBVIOUS
<1>4. \A i \in a..b : i - a + 1 \in 1..b - a + 1 /\ a + (i - a + 1) - 1 = i  OBVIOUS
<1>   QED  BY <1>2, <1>3, <1>4

Tame(x) == x \in Digits \cup {"+", ".", "e", Blank}

\* No minus sign ends the text or stands before another one.
Numerically(t) ==
    \A i \in 1..Len(t) : \/ Tame(t[i])
                         \/ t[i] = "-" /\ i < Len(t) /\ Tame(t[i + 1])

LEMMA NumeralIsTame ==
    ASSUME NEW t, Len(t) \in Nat, Numeral(t)
    PROVE  Numerically(t) /\ Len(t) > 0
<1>1. PICK w \in {1, 2}, p \in 1..Len(t) + 1, m \in 1..Len(t) + 1 :
        /\ w = 2 => At(t, 1, "+") \/ At(t, 1, "-")
        /\ w <= p /\ p <= m /\ \A k \in w..m - 1 : t[k] \in Digits \/ (k = p /\ t[p] = ".")
        /\ \E k \in w..m - 1 : t[k] \in Digits
        /\ \/ m = Len(t) + 1
           \/ /\ t[m] = "e"
              /\ \E e \in {m + 1, m + 2} :
                   /\ e <= Len(t) /\ \A k \in e..Len(t) : t[k] \in Digits
                   /\ e = m + 2 => t[m + 1] \in {"+", "-"}
  BY Zenon DEF Numeral
<1>2. \A k \in w..m - 1 : Tame(t[k])  BY <1>1 DEF Tame
<1>3. w <= m - 1  BY <1>1
<1>4. ASSUME NEW i \in 1..Len(t), i < w
      PROVE  Tame(t[i]) \/ (t[i] = "-" /\ i < Len(t) /\ Tame(t[i + 1]))
  <2>1. i = 1 /\ w = 2 /\ i + 1 \in w..m - 1 /\ i < Len(t)  BY <1>3, <1>4
  <2>2. t[i] \in {"+", "-"}  BY <1>1, <2>1 DEF At
  <2>   QED  BY <1>2, <2>1, <2>2 DEF Tame
<1>5. ASSUME NEW i \in 1..Len(t), i >= m
      PROVE  Tame(t[i]) \/ (t[i] = "-" /\ i < Len(t) /\ Tame(t[i + 1]))
  <2>1. m # Len(t) + 1  BY <1>5
  <2>2. PICK e \in {m + 1, m + 2} :
          /\ e <= Len(t) /\ \A k \in e..Len(t) : t[k] \in Digits
          /\ e = m + 2 => t[m + 1] \in {"+", "-"}
    BY <1>1, <2>1
  <2>3. \A k \in e..Len(t) : Tame(t[k])  BY <2>2 DEF Tame
  <2>4. CASE i = m  BY <1>1, <2>1, <2>4 DEF Tame
  <2>5. CASE i >= e
    <3>1. i \in e..Len(t)  BY <2>5
    <3>   QED  BY <2>3, <3>1
  <2>6. CASE i # m /\ ~(i >= e)
    <3>1. e = m + 2 /\ i = m + 1 /\ i + 1 = e /\ i < Len(t) /\ i + 1 \in e..Len(t)  BY <1>5, <2>2, <2>6
    <3>2. t[i] \in {"+", "-"}  BY <2>2, <3>1
    <3>   QED  BY <2>3, <3>1, <3>2 DEF Tame
  <2>   QED  BY <2>4, <2>5, <2>6
<1>6. \A i \in 1..Len(t) : i < w \/ i >= m \/ i \in w..m - 1  OBVIOUS
<1>7. Len(t) > 0  BY <1>3
<1>   QED  BY <1>2, <1>4, <1>5, <1>6, <1>7 DEF Numerically

\* Where the scan of a number finds its parts.
Whole(n)    == IF n # <<>> /\ n[1] \in {"+", "-"} THEN 2 ELSE 1
Dot(n)      == Run(n, Whole(n))
Mantissa(n) == IF At(n, Dot(n), ".") THEN Run(n, Dot(n) + 1) ELSE Dot(n)
Power(n)    == IF At(n, Mantissa(n) + 1, "+") \/ At(n, Mantissa(n) + 1, "-")
                 THEN Mantissa(n) + 2 ELSE Mantissa(n) + 1
Scanned(n)  == /\ Mantissa(n) - Whole(n) - (IF At(n, Dot(n), ".") THEN 1 ELSE 0) > 0
               /\ \/ Mantissa(n) = Len(n) + 1
                  \/ /\ At(n, Mantissa(n), "e") /\ Power(n) <= Len(n)
                     /\ Run(n, Power(n)) = Len(n) + 1

LEMMA LiteralIsScanned == \A t : IsNumericLiteral(t) <=> Scanned(Trimmed(t))
BY Zenon DEF IsNumericLiteral, Scanned, Whole, Dot, Mantissa, Power

LEMMA Punctuation == \A x \in Digits : x \notin {"+", "-", ".", "e"}
BY DEF Digits

\* The parts, as Run finds them.
LEMMA PartsAre ==
    ASSUME NEW S, NEW n \in Seq(S)
    PROVE  /\ Whole(n) \in {1, 2} /\ Whole(n) <= Len(n) + 1
           /\ Whole(n) = 2 <=> Len(n) > 0 /\ n[1] \in {"+", "-"}
           /\ Dot(n) \in Whole(n)..Len(n) + 1
           /\ \A k \in Whole(n)..Dot(n) - 1 : n[k] \in Digits
           /\ Dot(n) <= Len(n) => n[Dot(n)] \notin Digits
           /\ Mantissa(n) \in Dot(n)..Len(n) + 1
           /\ At(n, Dot(n), ".") =>
                /\ Mantissa(n) >= Dot(n) + 1
                /\ \A k \in Dot(n) + 1..Mantissa(n) - 1 : n[k] \in Digits
                /\ Mantissa(n) <= Len(n) => n[Mantissa(n)] \notin Digits
           /\ ~At(n, Dot(n), ".") => Mantissa(n) = Dot(n)
<1> DEFINE N == Len(n)
           w == Whole(n)
           p == Dot(n)
           m == Mantissa(n)
<1>1. N \in Nat /\ (n # <<>> <=> N > 0)  BY EmptySeq
<1>2. w \in {1, 2} /\ w <= N + 1 /\ (w = 2 <=> N > 0 /\ n[1] \in {"+", "-"})  BY <1>1 DEF Whole
<1>3. w \in 1..N + 1 /\ p = Run(n, w)  BY <1>1, <1>2 DEF Dot
<1> HIDE DEF w, p
<1>4. p \in w..N + 1 /\ (\A k \in w..p - 1 : n[k] \in Digits) /\ (p <= N => n[p] \notin Digits)
  BY <1>1, <1>3, RunIs
<1>5. CASE At(n, p, ".")
  <2> DEFINE i == p + 1
  <2>1. i \in 1..N + 1 /\ p <= N  BY <1>1, <1>3, <1>4, <1>5 DEF At
  <2>2. m = Run(n, i)  BY <1>5 DEF Mantissa, p
  <2> HIDE DEF i, m
  <2>3. m \in i..N + 1 /\ (\A k \in i..m - 1 : n[k] \in Digits) /\ (m <= N => n[m] \notin Digits)
    BY <1>1, <2>1, <2>2, RunIs
  <2>4. m \in p..N + 1 /\ m >= p + 1  BY <1>1, <1>3, <1>4, <2>3 DEF i
  <2>   QED  BY <1>2, <1>4, <1>5, <2>3, <2>4 DEF i, m, p, w
<1>6. CASE ~At(n, p, ".")
  <2>1. m = p  BY <1>6 DEF Mantissa, p
  <2>2. p \in p..N + 1  BY <1>1, <1>3, <1>4
  <2> HIDE DEF m
  <2>   QED  BY <1>2, <1>4, <1>6, <2>1, <2>2 DEF m, p, w
<1>   QED  BY <1>5, <1>6

\* The exponent, from where the mantissa ends.
LEMMA ExponentIs ==
    ASSUME NEW n, Len(n) \in Nat, NEW m \in 1..Len(n), m = Mantissa(n)
    PROVE  Power(n) <= Len(n) /\ Run(n, Power(n)) = Len(n) + 1 <=>
             \E e \in {m + 1, m + 2} :
               /\ e <= Len(n) /\ \A k \in e..Len(n) : n[k] \in Digits
               /\ e = m + 2 => n[m + 1] \in {"+", "-"}
<1> DEFINE N == Len(n)
           P == Power(n)
           signed == m + 1 <= N /\ n[m + 1] \in {"+", "-"}
<1>1. P = IF signed THEN m + 2 ELSE m + 1  BY DEF Power, At
<1> HIDE DEF P
<1>2. ASSUME P <= N, Run(n, P) = N + 1
      PROVE  \E e \in {m + 1, m + 2} :
               /\ e <= N /\ \A k \in e..N : n[k] \in Digits
               /\ e = m + 2 => n[m + 1] \in {"+", "-"}
  <2>1. P \in 1..N + 1  BY <1>1, <1>2
  <2>2. \A k \in P..N : n[k] \in Digits
    <3>1. \A j \in P..Run(n, P) - 1 : n[j] \in Digits  BY <2>1, RunIs
    <3>2. \A k \in P..N : k \in P..N + 1 - 1  BY <2>1
    <3>   QED  BY <1>2, <3>1, <3>2
  <2>3. P \in {m + 1, m + 2} /\ (P = m + 2 => n[m + 1] \in {"+", "-"})  BY <1>1
  <2>   QED  BY <1>2, <2>2, <2>3
<1>3. ASSUME NEW e \in {m + 1, m + 2}, e <= N, \A k \in e..N : n[k] \in Digits,
             e = m + 2 => n[m + 1] \in {"+", "-"}
      PROVE  P <= N /\ Run(n, P) = N + 1
  <2>1. P = e
    <3>1. CASE e = m + 2  BY <1>1, <1>3, <3>1
    <3>2. CASE e = m + 1
      <4>1. n[m + 1] \in Digits  BY <1>3, <3>2
      <4>   QED  BY <1>1, <3>2, <4>1, Punctuation
    <3>   QED  BY <3>1, <3>2
  <2>2. e \in 1..N + 1  BY <1>3
  <2>3. Run(n, e) \in e..N + 1 /\ (Run(n, e) <= N => n[Run(n, e)] \notin Digits)  BY <2>2, RunIs
  <2>4. Run(n, e) <= N => Run(n, e) \in e..N  BY <2>3
  <2>   QED  BY <1>3, <2>1, <2>2, <2>3, <2>4
<1>   QED  BY <1>2, <1>3 DEF P

\* is_numeric_literal takes what the grammar takes.
LEMMA ScannedIsNumeral ==
    ASSUME NEW S, NEW n \in Seq(S), Scanned(n)
    PROVE  Numeral(n)
<1> DEFINE N == Len(n)
           w == Whole(n)
           p == Dot(n)
           m == Mantissa(n)
<1>0. N \in Nat  OBVIOUS
<1>1. /\ w \in {1, 2} /\ w <= N + 1
      /\ w = 2 <=> N > 0 /\ n[1] \in {"+", "-"}
      /\ p \in w..N + 1
      /\ \A k \in w..p - 1 : n[k] \in Digits
      /\ m \in p..N + 1
      /\ At(n, p, ".") => m >= p + 1 /\ \A k \in p + 1..m - 1 : n[k] \in Digits
      /\ ~At(n, p, ".") => m = p
  BY PartsAre
<1>2. /\ m - w - (IF At(n, p, ".") THEN 1 ELSE 0) > 0
      /\ m = N + 1 \/ (At(n, m, "e") /\ Power(n) <= N /\ Run(n, Power(n)) = N + 1)
  BY DEF Scanned
<1>3. m \in 1..N => (Power(n) <= N /\ Run(n, Power(n)) = N + 1 <=>
             \E e \in {m + 1, m + 2} :
               /\ e <= N /\ \A k \in e..N : n[k] \in Digits
               /\ e = m + 2 => n[m + 1] \in {"+", "-"})
  BY <1>0, ExponentIs
<1> HIDE DEF N, w, p, m
<1>4. p \in 1..N + 1 /\ m \in 1..N + 1 /\ w <= p /\ p <= m  BY <1>0, <1>1
<1>5. w = 2 => At(n, 1, "+") \/ At(n, 1, "-")  BY <1>0, <1>1 DEF At, N
<1>6. ASSUME NEW k \in w..m - 1  PROVE n[k] \in Digits \/ (k = p /\ n[p] = ".")
  <2>1. CASE k < p
    <3>1. k \in w..p - 1  BY <1>1, <1>4, <2>1
    <3>   QED  BY <1>1, <3>1
  <2>2. CASE k >= p
    <3>1. m # p /\ At(n, p, ".")  BY <1>1, <1>4, <2>2
    <3>2. k = p \/ k \in p + 1..m - 1  BY <1>1, <1>4, <2>2
    <3>   QED  BY <1>1, <3>1, <3>2 DEF At
  <2>3. k < p \/ k >= p  BY <1>1, <1>4
  <2>   QED  BY <2>1, <2>2, <2>3
<1>7. \E k \in w..m - 1 : n[k] \in Digits
  <2>1. CASE w < p
    <3>1. w \in w..p - 1 /\ w \in w..m - 1  BY <1>1, <1>4, <2>1
    <3>   QED  BY <1>1, <3>1
  <2>2. CASE w = p
    <3>1. At(n, p, ".") /\ p + 1 \in p + 1..m - 1 /\ p + 1 \in w..m - 1  BY <1>1, <1>2, <1>4, <2>2
    <3>   QED  BY <1>1, <3>1
  <2>3. w < p \/ w = p  BY <1>1, <1>4
  <2>   QED  BY <2>1, <2>2, <2>3
<1>8. \/ m = N + 1
      \/ /\ n[m] = "e"
         /\ \E e \in {m + 1, m + 2} :
              /\ e <= N /\ \A k \in e..N : n[k] \in Digits
              /\ e = m + 2 => n[m + 1] \in {"+", "-"}
  <2>1. At(n, m, "e") => m \in 1..N /\ n[m] = "e"  BY <1>0, <1>4 DEF At, N
  <2>   QED  BY <1>2, <1>3, <2>1
<1>   QED  BY <1>1, <1>4, <1>5, <1>6, <1>7, <1>8, Zenon DEF Numeral, N

LEMMA NumeralIsScanned ==
    ASSUME NEW S, NEW n \in Seq(S), Numeral(n)
    PROVE  Scanned(n)
<1> DEFINE N == Len(n)
           w == Whole(n)
           p == Dot(n)
           m == Mantissa(n)
<1>0. N \in Nat  OBVIOUS
<1>1. PICK v \in {1, 2}, q \in 1..N + 1, l \in 1..N + 1 :
        /\ v = 2 => At(n, 1, "+") \/ At(n, 1, "-")
        /\ v <= q /\ q <= l /\ \A k \in v..l - 1 : n[k] \in Digits \/ (k = q /\ n[q] = ".")
        /\ \E k \in v..l - 1 : n[k] \in Digits
        /\ \/ l = N + 1
           \/ /\ n[l] = "e"
              /\ \E e \in {l + 1, l + 2} :
                   /\ e <= N /\ \A k \in e..N : n[k] \in Digits
                   /\ e = l + 2 => n[l + 1] \in {"+", "-"}
  BY Zenon DEF Numeral
<1>2. /\ w \in {1, 2} /\ w <= N + 1
      /\ w = 2 <=> N > 0 /\ n[1] \in {"+", "-"}
      /\ p \in w..N + 1
      /\ \A k \in w..p - 1 : n[k] \in Digits
      /\ p <= N => n[p] \notin Digits
      /\ m \in p..N + 1
      /\ At(n, p, ".") =>
           /\ m >= p + 1
           /\ \A k \in p + 1..m - 1 : n[k] \in Digits
           /\ m <= N => n[m] \notin Digits
      /\ ~At(n, p, ".") => m = p
  BY PartsAre
<1>3. m \in 1..N => (Power(n) <= N /\ Run(n, Power(n)) = N + 1 <=>
             \E e \in {m + 1, m + 2} :
               /\ e <= N /\ \A k \in e..N : n[k] \in Digits
               /\ e = m + 2 => n[m + 1] \in {"+", "-"})
  BY <1>0, ExponentIs
<1>4. Scanned(n) <=>
        /\ m - w - (IF At(n, p, ".") THEN 1 ELSE 0) > 0
        /\ m = N + 1 \/ (At(n, m, "e") /\ Power(n) <= N /\ Run(n, Power(n)) = N + 1)
  BY DEF Scanned
<1>5. \A i : At(n, i, ".") <=> i <= N /\ n[i] = "."  BY DEF At
<1>6. At(n, 1, "+") \/ At(n, 1, "-") <=> 1 <= N /\ n[1] \in {"+", "-"}  BY DEF At
<1>6a. l <= N => n[l] \notin Digits \cup {"."}  BY <1>0, <1>1, Punctuation
<1> HIDE DEF N, w, p, m
<1>7. PICK d \in v..l - 1 : n[d] \in Digits  BY <1>1
<1>8. w = v
  <2>1. CASE v = 2
    <3>1. 1 <= N /\ n[1] \in {"+", "-"}  BY <1>1, <1>6, <2>1
    <3>2. N > 0  BY <1>0, <3>1
    <3>   QED  BY <1>2, <2>1, <3>1, <3>2
  <2>2. CASE v = 1
    <3>1. 1 \in v..l - 1  BY <1>7, <2>2
    <3>2. n[1] \in Digits \/ n[1] = "."  BY <1>1, <3>1
    <3>3. n[1] \notin {"+", "-"}  BY <3>2, Punctuation
    <3>   QED  BY <1>2, <2>2, <3>3
  <2>   QED  BY <2>1, <2>2
<1>9. ASSUME \A k \in v..l - 1 : n[k] \in Digits
      PROVE  p = l /\ m = l /\ ~At(n, p, ".")
  <2>1. ~(p < l)
    <3>1. p < l => p \in v..l - 1 /\ p <= N  BY <1>0, <1>2, <1>8
    <3>   QED  BY <1>2, <1>9, <3>1
  <2>2. ~(l < p)
    <3>1. l < p => l \in w..p - 1 /\ l <= N  BY <1>0, <1>1, <1>2, <1>8
    <3>   QED  BY <1>2, <1>6a, <3>1
  <2>3. p = l  BY <1>0, <1>2, <2>1, <2>2
  <2>4. ~At(n, p, ".")  BY <1>5, <1>6a, <2>3
  <2>   QED  BY <1>2, <2>3, <2>4
<1>10. ASSUME NEW x \in v..l - 1, n[x] \notin Digits
       PROVE  p = q /\ m = l /\ At(n, p, ".") /\ q \in v..l - 1
  <2>1. x = q /\ n[q] = "."  BY <1>1, <1>10
  <2>2. \A k \in v..l - 1 : k # q => n[k] \in Digits  BY <1>1
  <2>3. ~(p < q)
    <3>1. p < q => p \in v..l - 1 /\ p <= N /\ p # q  BY <1>0, <1>1, <1>2, <1>8
    <3>   QED  BY <1>2, <2>2, <3>1
  <2>4. ~(q < p)
    <3>1. q < p => q \in w..p - 1  BY <1>0, <1>1, <1>2, <1>8
    <3>2. n[q] \notin Digits  BY <1>10, <2>1
    <3>   QED  BY <1>2, <3>1, <3>2
  <2>5. p = q /\ q <= N  BY <1>0, <1>1, <1>2, <1>10, <2>1, <2>3, <2>4
  <2>6. At(n, p, ".")  BY <1>5, <2>1, <2>5
  <2>7. ~(m < l)
    <3>1. m < l => m \in v..l - 1 /\ m <= N /\ m # q  BY <1>0, <1>1, <1>2, <1>8, <2>5, <2>6
    <3>   QED  BY <1>2, <2>2, <2>6, <3>1
  <2>8. ~(l < m)
    <3>1. l < m => l \in p + 1..m - 1 /\ l <= N  BY <1>0, <1>1, <1>2, <1>10, <2>1, <2>5
    <3>   QED  BY <1>2, <1>6a, <2>6, <3>1
  <2>9. m = l  BY <1>0, <1>2, <2>7, <2>8
  <2>   QED  BY <1>10, <2>1, <2>5, <2>6, <2>9
<1>11. m = l /\ m - w - (IF At(n, p, ".") THEN 1 ELSE 0) > 0
  <2>1. CASE \A k \in v..l - 1 : n[k] \in Digits
    <3>1. m = l /\ ~At(n, p, ".")  BY <1>9, <2>1
    <3>2. l - v - 0 > 0  BY <1>7
    <3>   QED  BY <1>8, <3>1, <3>2
  <2>2. CASE ~\A k \in v..l - 1 : n[k] \in Digits
    <3>1. PICK x \in v..l - 1 : n[x] \notin Digits  BY <2>2
    <3>2. p = q /\ m = l /\ At(n, p, ".") /\ q \in v..l - 1  BY <1>10, <3>1
    <3>3. n[q] \notin Digits  BY <1>5, <3>2, Punctuation
    <3>4. d # q  BY <1>7, <3>3
    <3>5. l - v - 1 > 0  BY <1>7, <3>2, <3>4
    <3>   QED  BY <1>8, <3>2, <3>5
  <2>   QED  BY <2>1, <2>2
<1>12. m = N + 1 \/ (At(n, m, "e") /\ Power(n) <= N /\ Run(n, Power(n)) = N + 1)
  <2>1. CASE l = N + 1  BY <1>11, <2>1
  <2>2. CASE l # N + 1
    <3>1. l \in 1..N /\ n[l] = "e"  BY <1>0, <1>1, <2>2
    <3>2. At(n, l, "e")  BY <3>1 DEF At, N
    <3>   QED  BY <1>1, <1>3, <1>11, <2>2, <3>1, <3>2
  <2>   QED  BY <2>1, <2>2
<1>   QED  BY <1>4, <1>11, <1>12

LEMMA NumericIsNumeral ==
    ASSUME NEW S, NEW t \in Seq(S)
    PROVE  Trimmed(t) \in Seq(S) /\ (IsNumericLiteral(t) <=> Numeral(Trimmed(t)))
<1>1. Trimmed(t) \in Seq(S)
  <2>1. CASE Trimmed(t) = <<>>  BY <2>1
  <2>2. ASSUME NEW a, NEW b, Solid(t, a, b), Trimmed(t) = SubSeq(t, a, b)
        PROVE  Trimmed(t) \in Seq(S)
    BY <2>2, SubSeqIs DEF Solid
  <2>   QED  BY <2>1, <2>2, TrimmedIs
<1>   QED  BY <1>1, LiteralIsScanned, ScannedIsNumeral, NumeralIsScanned

LEMMA NumericIsTame ==
    ASSUME NEW S, NEW t \in Seq(S), IsNumericLiteral(t)
    PROVE  Numerically(t) /\ Len(t) > 0
<1> DEFINE n == Trimmed(t)
<1>1. n \in Seq(S) /\ Numeral(n)  BY NumericIsNumeral
<1> HIDE DEF n
<1>2. Numerically(n) /\ Len(n) > 0  BY <1>1, NumeralIsTame
<1>3. n # <<>>  BY <1>2
<1>4. PICK a, b : Solid(t, a, b) /\ n = SubSeq(t, a, b)  BY <1>3, TrimmedIs DEF n
<1>5. /\ a \in 1..Len(t) /\ b \in a..Len(t)
      /\ \A i \in 1..Len(t) : i < a \/ i > b => t[i] = Blank
  BY <1>4 DEF Solid
<1>6. Len(n) = b - a + 1 /\ \A i \in a..b : n[i - a + 1] = t[i]  BY <1>4, <1>5, SubSeqIs
<1>7. ASSUME NEW i \in 1..Len(t)
      PROVE  Tame(t[i]) \/ (t[i] = "-" /\ i < Len(t) /\ Tame(t[i + 1]))
  <2>1. CASE i < a \/ i > b  BY <1>5, <2>1 DEF Tame
  <2>2. CASE ~(i < a \/ i > b)
    <3> DEFINE k == i - a + 1
    <3>1. i \in a..b /\ k \in 1..Len(n) /\ k + 1 = i + 1 - a + 1 /\ (k < Len(n) => i + 1 \in a..b /\ i < Len(t))
      BY <1>5, <1>6, <2>2
    <3>2. n[k] = t[i]  BY <1>6, <3>1
    <3>3. k < Len(n) => n[k + 1] = t[i + 1]
      <4> DEFINE j == i + 1
                 l == k + 1
      <4>1. l = j - a + 1 /\ (k < Len(n) => j \in a..b)  BY <1>5, <3>1
      <4> HIDE DEF j, k, l
      <4>2. k < Len(n) => n[l] = t[j]  BY <1>6, <4>1
      <4>   QED  BY <4>2 DEF j, l
    <3> HIDE DEF k
    <3>4. Tame(n[k]) \/ (n[k] = "-" /\ k < Len(n) /\ Tame(n[k + 1]))  BY <1>2, <3>1 DEF Numerically
    <3>   QED  BY <3>1, <3>2, <3>3, <3>4
  <2>   QED  BY <2>1, <2>2
<1>8. Len(t) > 0  BY <1>5
<1>   QED  BY <1>7, <1>8 DEF Numerically

-----------------------------------------------------------------------------
(* The loop.                                                               *)

BoundValues(b) == Range(b.positional) \cup Range(b.named)
Marker(b)      == [at : Nat, from : Nat, to : Nat, value : BoundValues(b)]

BindingOK(b) ==
    /\ IsFiniteSet(DOMAIN b.positional) /\ DOMAIN b.positional \subseteq Nat
    /\ IsFiniteSet(DOMAIN b.named)
    /\ \A n \in DOMAIN b.named : n \in Seq(STRING) /\ n[1] = ":" /\ Len(n) > 1
    /\ \A v \in BoundValues(b) : ValueOK(v)

LEMMA GroupsAreOK ==
    ASSUME NEW g \in Groups
    PROVE  /\ \A t \in g.texts : t \in Seq(STRING)
           /\ \A b \in g.bindings : BindingOK(b)
<1>1. \A t \in g.texts : t \in Seq(STRING)  BY GroupsAssumption
<1>2. ASSUME NEW b \in g.bindings  PROVE BindingOK(b)
  <2>1. ASSUME NEW v \in BoundValues(b)  PROVE ValueOK(v)
    <3>1. /\ v \in Values
          /\ v.type \in Types /\ v.php \in Kinds /\ v.text \in Seq(STRING)
      BY GroupsAssumption DEF BoundValues, Values
    <3>2. IsNumericLiteral(v.text) <=> Numeral(Trimmed(v.text))  BY <3>1, NumericIsNumeral
    <3>3. /\ v.php = "long"   => Numeral(Trimmed(v.text))
          /\ v.php = "double" => Numeral(Trimmed(v.text)) \/ v.text \in NotFinite
          /\ v.type = "lob"   => Range(v.text) \subseteq DOMAIN Hex
      BY ValuesAssumption DEF BoundValues
    <3>   QED  BY <3>1, <3>2, <3>3 DEF ValueOK
  <2>2. /\ IsFiniteSet(DOMAIN b.positional) /\ DOMAIN b.positional \subseteq Nat
        /\ IsFiniteSet(DOMAIN b.named)
        /\ \A n \in DOMAIN b.named : n \in Seq(STRING) /\ n[1] = ":" /\ Len(n) > 1
    BY GroupsAssumption
  <2>   QED  BY <2>1, <2>2 DEF BindingOK
<1>   QED  BY <1>1, <1>2

Written ==
    /\ written \in Seq(Marker(bound))
    /\ \A k \in 1..Len(written) : written[k].from <= written[k].to /\ written[k].to <= Len(out)

FormInv ==
    /\ text \in Seq(STRING) /\ BindingOK(bound)
    /\ c \in 1..Len(text) + 1
    /\ c = 1 => written = <<>>
    /\ out \in Seq(Chars) /\ Written
    /\ position \in Nat /\ 0..position - 1 \subseteq DOMAIN bound.positional
    /\ styles \subseteq {"positional", "named"}
    /\ result \in {"none", "ok", "HY093", "HY105", "HY001", "unset"}

PlaceInv == ~NothingBound /\ c <= Len(text) => CodeAt(text, c)

LEMMA TextLength == FormInv => Len(text) \in Nat /\ c \in Nat \ {0}
BY DEF FormInv

LEMMA CopyMoves ==
    ASSUME FormInv, PlaceInv, Copy
    PROVE  /\ c' \in c + 1..Len(text) + 1
           /\ c' <= Len(text) => CodeAt(text, c')
           /\ Before(text, c') = Before(text, c)
<1>1. c \in 1..Len(text) /\ Len(text) \in Nat  BY TextLength DEF Copy, Scanning, FormInv
<1>2. CodeAt(text, c)  BY <1>1 DEF PlaceInv, Copy
<1>3. CASE Skip(text, c) # c
  <2> DEFINE e == Skip(text, c)
  <2>1. c' = e  BY <1>3 DEF Copy
  <2>2. Passed(text, c, e)  BY <1>1, <1>2, <1>3, SkipPasses
  <2> HIDE DEF e
  <2>3. Before(text, e) = Before(text, c)  BY <1>1, <2>2, PassedOver
  <2>   QED  BY <2>1, <2>2, <2>3 DEF Passed
<1>4. CASE Skip(text, c) = c
  <2>1. c' = c + 1 /\ ~MarkerAt(text, c)  BY <1>4 DEF Copy, MarkerHere, MarkerAt
  <2>2. InCode(text, c) /\ (c < Len(text) => CodeAt(text, c + 1))  BY <1>1, <1>2, <1>4, SkipPasses
  <2>3. Before(text, c + 1) = Before(text, c)
    <3>1. Before(text, c + 1) = Before(text, c) \cup {}  BY <1>1, <2>1, <2>2, OneOver
    <3>   QED  BY <3>1
  <2>4. c + 1 \in c + 1..Len(text) + 1 /\ (c + 1 <= Len(text) => c < Len(text))  BY <1>1
  <2>   QED  BY <2>1, <2>2, <2>3, <2>4
<1>   QED  BY <1>3, <1>4

LEMMA SubstituteMoves ==
    ASSUME FormInv, PlaceInv, Substitute
    PROVE  /\ c' \in c + 1..Len(text) + 1
           /\ c' <= Len(text) => CodeAt(text, c')
           /\ Before(text, c') = Before(text, c) \cup {c}
           /\ c \in MarkersOf(text) /\ (text[c] = "?" <=> Positional)
<1>1. c \in 1..Len(text) /\ Len(text) \in Nat  BY TextLength DEF Substitute, AtMarker, Scanning, FormInv
<1>2. CodeAt(text, c) /\ Skip(text, c) = c  BY <1>1 DEF PlaceInv, Substitute, AtMarker
<1>3. MarkerAt(text, c)  BY DEF Substitute, AtMarker, MarkerHere, MarkerAt
<1>4. InCode(text, c) /\ (c < Len(text) => CodeAt(text, c + 1))  BY <1>1, <1>2, SkipPasses
<1>5. c \in MarkersOf(text)  BY <1>1, <1>3, <1>4, MarkersAgree
<1>6. CASE Positional
  <2>1. c' = c + 1  BY <1>6 DEF Substitute
  <2>2. Before(text, c + 1) = Before(text, c) \cup {c}  BY <1>1, <1>3, <1>4, OneOver
  <2>3. c + 1 \in c + 1..Len(text) + 1 /\ (c + 1 <= Len(text) => c < Len(text))  BY <1>1
  <2>   QED  BY <1>4, <1>5, <2>1, <2>2, <2>3 DEF Positional
<1>7. CASE ~Positional
  <2> DEFINE e == NameEnd(text, c)
  <2>1. c' = e  BY <1>7 DEF Substitute
  <2>2. OpensNamed(text, c)  BY <1>3, <1>7 DEF MarkerAt, Positional
  <2>3. e \in c + 1..Len(text) + 1  BY <1>1, NameEnds
  <2>4. e <= Len(text) => CodeAt(text, e)  BY <1>1, <1>2, NamePasses
  <2>5. Before(text, e) = Before(text, c) \cup {c}  BY <1>1, <1>4, <2>2, NameOver
  <2> HIDE DEF e
  <2>   QED  BY <1>5, <2>1, <2>3, <2>4, <2>5 DEF Positional
<1>   QED  BY <1>6, <1>7

LEMMA ValueIsBound ==
    ASSUME FormInv, IsBound
    PROVE  Value \in BoundValues(bound) /\ ValueOK(Value)
<1>1. \A f, x : x \in DOMAIN f => f[x] \in Range(f)  BY DEF Range
<1>2. Value \in BoundValues(bound)  BY <1>1 DEF IsBound, Value, BoundValues
<1>   QED  BY <1>2 DEF FormInv, BindingOK

\* A refusal leaves the text, the binding and the place as they are.
LEMMA RefusalForm ==
    ASSUME FormInv, PlaceInv, NEW s \in {"HY093", "HY105", "HY001", "unset"}, Refuse(s),
           position' = position, styles' \subseteq {"positional", "named"}
    PROVE  FormInv' /\ PlaceInv'
<1>1. /\ text' = text /\ bound' = bound /\ c' = c /\ out' = <<>> /\ written' = <<>>
      /\ result' = s /\ position' = position
  BY DEF Refuse
<1>2. out' \in Seq(Chars) /\ written' \in Seq(Marker(bound)) /\ Len(written') = 0  BY <1>1
<1>3. Written'  BY <1>1, <1>2 DEF Written
<1>4. FormInv'  BY <1>1, <1>2, <1>3 DEF FormInv
<1>5. PlaceInv'  BY <1>1 DEF PlaceInv, NothingBound
<1>   QED  BY <1>4, <1>5

LEMMA WrittenOn ==
    ASSUME NEW b, NEW w \in Seq(Marker(b)), NEW m \in Marker(b)
    PROVE  /\ Append(w, m) \in Seq(Marker(b)) /\ Len(Append(w, m)) = Len(w) + 1
           /\ \A k \in 1..Len(w) : Append(w, m)[k] = w[k]
           /\ Append(w, m)[Len(w) + 1] = m
OBVIOUS

\* The record kept of a substitution.
Kept == [at |-> c, from |-> Len(out) + 1, to |-> Len(out'), value |-> Value]

LEMMA SubstituteWrites ==
    ASSUME FormInv, Substitute
    PROVE  /\ out' \in Seq(Chars) /\ Len(out') > Len(out)
           /\ Kept \in Marker(bound) /\ Kept.at = c
           /\ written' = Append(written, Kept)
<1> DEFINE lit == Literal(out, Left(Value, drained))
<1>1. Value \in BoundValues(bound) /\ ValueOK(Value)  BY ValueIsBound DEF Substitute
<1>0. ValueOK(Left(Value, drained))  BY <1>1, LeftIsOK DEF Substitute
<1>2. lit \in Seq(Chars) /\ Len(lit) > 0  BY <1>0, LiteralIsOne DEF Literally
<1>3. out' = out \o lit  BY DEF Substitute
<1>4. out \in Seq(Chars) /\ c \in Nat  BY DEF FormInv
<1> HIDE DEF lit
<1>5. out' \in Seq(Chars) /\ Len(out') = Len(out) + Len(lit)  BY <1>2, <1>3, <1>4, Joined
<1>6. Len(out') \in Nat /\ Len(out) + 1 \in Nat /\ Len(out') > Len(out)  BY <1>2, <1>4, <1>5
<1>7. Kept \in Marker(bound) /\ Kept.at = c  BY <1>1, <1>4, <1>6 DEF Kept, Marker
<1>8. written' = Append(written, Kept)  BY DEF Substitute, Kept
<1>   QED  BY <1>5, <1>6, <1>7, <1>8

LEMMA FormSubstitute ==
    ASSUME FormInv, PlaceInv, Substitute
    PROVE  FormInv' /\ PlaceInv'
<1>1. text' = text /\ bound' = bound /\ result' = result  BY DEF Substitute
<1>2. /\ out' \in Seq(Chars) /\ Len(out') > Len(out)
      /\ Kept \in Marker(bound) /\ written' = Append(written, Kept)
  BY SubstituteWrites
<1>3. Written'
  <2> DEFINE m == Kept
  <2>0. Len(out) \in Nat /\ Len(out') \in Nat  BY <1>2 DEF FormInv
  <2>1. m.from <= m.to /\ m.to <= Len(out')  BY <1>2, <2>0 DEF Kept
  <2>2. written \in Seq(Marker(bound)) /\ m \in Marker(bound) /\ written' = Append(written, m)
    BY <1>2 DEF FormInv, Written
  <2> HIDE DEF m
  <2>3. /\ written' \in Seq(Marker(bound)) /\ Len(written') = Len(written) + 1
        /\ \A k \in 1..Len(written) : written'[k] = written[k]
        /\ written'[Len(written) + 1] = m
    BY <2>2, WrittenOn
  <2>4. ASSUME NEW k \in 1..Len(written')
        PROVE  written'[k].from <= written'[k].to /\ written'[k].to <= Len(out')
    <3>1. CASE k = Len(written) + 1  BY <2>1, <2>3, <3>1
    <3>2. CASE k # Len(written) + 1
      <4>1. k \in 1..Len(written)  BY <2>2, <2>3, <3>2
      <4>2. written[k].from <= written[k].to /\ written[k].to <= Len(out)
        BY <4>1 DEF FormInv, Written
      <4>3. written[k] \in Marker(bound)  BY <2>2, <4>1
      <4>4. written[k].to \in Nat  BY <4>3 DEF Marker
      <4>5. written'[k] = written[k]  BY <2>3, <4>1
      <4>6. \A a \in Nat : a <= Len(out) => a <= Len(out')  BY <1>2, <2>0
      <4>   QED  BY <4>2, <4>4, <4>5, <4>6
    <3>   QED  BY <3>1, <3>2
  <2>   QED  BY <1>1, <2>3, <2>4 DEF Written
<1>4. c' \in 1..Len(text) + 1 /\ c' # 1
  <2>1. c' \in c + 1..Len(text) + 1 /\ c \in Nat \ {0} /\ Len(text) \in Nat  BY SubstituteMoves, TextLength
  <2>   QED  BY <2>1
<1>5. position' \in Nat /\ 0..position' - 1 \subseteq DOMAIN bound.positional
  <2>1. CASE Positional
    <3>1. position' = position + 1 /\ position \in DOMAIN bound.positional
      BY <2>1 DEF Substitute, IsBound
    <3>2. position \in Nat /\ 0..position - 1 \subseteq DOMAIN bound.positional  BY DEF FormInv
    <3>3. \A k \in 0..position + 1 - 1 : k = position \/ k \in 0..position - 1  BY <3>2
    <3>   QED  BY <3>1, <3>2, <3>3
  <2>2. CASE ~Positional  BY <2>2 DEF Substitute, FormInv
  <2>   QED  BY <2>1, <2>2
<1>6. styles' \subseteq {"positional", "named"}  BY DEF Substitute, Meet, FormInv
<1>7. FormInv'  BY <1>1, <1>2, <1>3, <1>4, <1>5, <1>6 DEF FormInv
<1>8. PlaceInv'  BY <1>1, SubstituteMoves DEF PlaceInv
<1>   QED  BY <1>7, <1>8

LEMMA FormCopy ==
    ASSUME FormInv, PlaceInv, Copy
    PROVE  FormInv' /\ PlaceInv'
<1>1. /\ text' = text /\ bound' = bound /\ result' = result /\ written' = written
      /\ position' = position /\ styles' = styles
  BY DEF Copy
<1>2. c' \in c + 1..Len(text) + 1 /\ c \in Nat \ {0} /\ Len(text) \in Nat  BY CopyMoves, TextLength
<1> DEFINE s == SubSeq(text, c, c' - 1)
<1>3. s \in Seq(STRING)
  <2> DEFINE d == c' - 1
  <2>1. c \in Int /\ d \in Int /\ 1 <= c /\ d <= Len(text)  BY <1>2
  <2>2. text \in Seq(STRING)  BY DEF FormInv
  <2> HIDE DEF d
  <2>3. \A i \in c..d : i \in 1..Len(text)  BY <1>2, <2>1
  <2>5. \A i \in c..d : text[i] \in STRING  BY <2>2, <2>3
  <2>4. SubSeq(text, c, d) \in Seq(STRING)  BY <2>1, <2>2, <2>5, SubSeqProperties
  <2>   QED  BY <2>4 DEF d
<1>4. out' = out \o s  BY DEF Copy
<1>5. out \in Seq(Chars) /\ s \in Seq(Chars)  BY <1>3, TextIsChars DEF FormInv
<1> HIDE DEF s
<1>6. out' \in Seq(Chars) /\ Len(out') = Len(out) + Len(s)  BY <1>4, <1>5, Joined
<1>7. Len(out) \in Nat /\ Len(out') \in Nat /\ Len(out) <= Len(out')  BY <1>5, <1>6
<1>8. Written'
  <2>1. ASSUME NEW k \in 1..Len(written)  PROVE written[k].to <= Len(out')
    <3>1. written[k] \in Marker(bound) /\ written[k].to <= Len(out)  BY DEF FormInv, Written
    <3>2. written[k].to \in Nat  BY <3>1 DEF Marker
    <3>3. \A a \in Nat : a <= Len(out) => a <= Len(out')  BY <1>7
    <3>   QED  BY <3>1, <3>2, <3>3
  <2>   QED  BY <1>1, <2>1 DEF FormInv, Written
<1>9. c' \in 1..Len(text) + 1 /\ c' # 1  BY <1>2
<1>10. FormInv'  BY <1>1, <1>6, <1>8, <1>9 DEF FormInv
<1>11. PlaceInv'  BY <1>1, CopyMoves DEF PlaceInv
<1>   QED  BY <1>10, <1>11

LEMMA FormInit ==
    ASSUME Init
    PROVE  FormInv /\ PlaceInv
<1>1. text \in Seq(STRING) /\ BindingOK(bound)  BY GroupsAreOK DEF Init
<1>2. c = 1 /\ out = <<>> /\ written = <<>> /\ position = 0 /\ styles = {} /\ result = "none"  BY DEF Init
<1>3. out \in Seq(Chars) /\ Written  BY <1>2 DEF Written
<1>4. c \in 1..Len(text) + 1 /\ 0..position - 1 \subseteq DOMAIN bound.positional  BY <1>1, <1>2
<1>5. CodeAt(text, 1)  BY <1>1, StartsInCode
<1>   QED  BY <1>1, <1>2, <1>3, <1>4, <1>5 DEF FormInv, PlaceInv

LEMMA FormNext ==
    ASSUME FormInv, PlaceInv, Next
    PROVE  FormInv' /\ PlaceInv'
<1>1. \A x : styles \cup {IF x THEN "positional" ELSE "named"} \subseteq {"positional", "named"}
  BY DEF FormInv
<1>2. Meet => styles' \subseteq {"positional", "named"}  BY <1>1 DEF Meet
<1>3. styles \subseteq {"positional", "named"}  BY DEF FormInv
<1>4. CASE AsWritten
  <2>1. /\ text' = text /\ bound' = bound /\ position' = position /\ styles' = styles /\ written' = written
        /\ out' = text /\ c' = Len(text) + 1 /\ result' = "ok" /\ c = 1 /\ NothingBound
    BY <1>4 DEF AsWritten
  <2>2. out' \in Seq(Chars) /\ c' \in 1..Len(text) + 1  BY <2>1, TextIsChars, TextLength DEF FormInv
  <2>3. written = <<>>  BY <2>1 DEF FormInv
  <2>4. Written'  BY <2>1, <2>3 DEF Written
  <2>5. FormInv'  BY <2>1, <2>2, <2>3, <2>4 DEF FormInv
  <2>6. PlaceInv'  BY <2>1 DEF PlaceInv, NothingBound
  <2>   QED  BY <2>5, <2>6
<1>5. CASE Copy  BY <1>5, FormCopy
<1>6. CASE Substitute  BY <1>6, FormSubstitute
<1>7. CASE NoSuchParameter  BY <1>2, <1>7, RefusalForm DEF NoSuchParameter
<1>8. CASE UnreadableValue  BY <1>2, <1>8, RefusalForm DEF UnreadableValue
<1>9. CASE CopyFails  BY <1>3, <1>9, RefusalForm DEF CopyFails
<1>10. CASE LiteralFails  BY <1>2, <1>10, RefusalForm DEF LiteralFails
<1>11. CASE Finish
  <2>1. CASE CountsMatch
    <3>1. UNCHANGED <<text, bound, c, out, written, position, styles>> /\ result' = "ok"
      BY <1>11, <2>1 DEF Finish
    <3>   QED  BY <3>1 DEF FormInv, PlaceInv, Written, NothingBound
  <2>2. CASE ~CountsMatch
    BY <1>3, <1>11, <2>2, RefusalForm DEF Finish
  <2>   QED  BY <2>1, <2>2
<1>   QED  BY <1>4, <1>5, <1>6, <1>7, <1>8, <1>9, <1>10, <1>11 DEF Next

-----------------------------------------------------------------------------
(* What is substituted, and how it is counted.                             *)

Ats(w)     == {w[k].at : k \in 1..Len(w)}
Ordered(w) == \A j, k \in 1..Len(w) : j < k => w[j].at < w[k].at

Going == result \in {"none", "ok"} /\ ~NothingBound

MarkInv == Going => Ats(written) = Before(text, c) /\ Ordered(written)

LEMMA WrittenOneMore ==
    ASSUME NEW b, NEW w \in Seq(Marker(b)), NEW m \in Marker(b),
           Ordered(w), \A x \in Ats(w) : x < m.at
    PROVE  Ats(Append(w, m)) = Ats(w) \cup {m.at} /\ Ordered(Append(w, m))
<1> DEFINE v == Append(w, m)
           n == Len(w)
<1>1. /\ n \in Nat /\ Len(v) = n + 1 /\ v[n + 1] = m
      /\ \A k \in 1..n : v[k] = w[k]
  BY WrittenOn
<1> HIDE DEF v, n
<1>2. \A k \in 1..n + 1 : k = n + 1 \/ k \in 1..n  BY <1>1
<1>3. \A k \in 1..n : k \in 1..n + 1  BY <1>1
<1>4. n + 1 \in 1..n + 1  BY <1>1
<1>5. Ats(w) = {w[k].at : k \in 1..n}  BY DEF Ats, n
<1>6. Ats(v) = {v[k].at : k \in 1..n + 1}  BY <1>1 DEF Ats
<1>7. Ats(v) = Ats(w) \cup {m.at}  BY <1>1, <1>2, <1>3, <1>4, <1>5, <1>6
<1>8. ASSUME NEW j \in 1..n + 1, NEW k \in 1..n + 1, j < k  PROVE v[j].at < v[k].at
  <2>1. j \in 1..n  BY <1>1, <1>8
  <2>2. CASE k \in 1..n  BY <1>1, <1>8, <2>1, <2>2 DEF Ordered, n
  <2>3. CASE k = n + 1
    <3>1. v[j].at = w[j].at /\ w[j].at \in Ats(w)  BY <1>1, <1>5, <2>1
    <3>   QED  BY <1>1, <2>3, <3>1
  <2>   QED  BY <1>2, <2>2, <2>3
<1>9. Ordered(v)  BY <1>1, <1>8 DEF Ordered
<1>   QED  BY <1>7, <1>9 DEF v

LEMMA MarkNext ==
    ASSUME FormInv, PlaceInv, MarkInv, Next
    PROVE  MarkInv'
<1> SUFFICES ASSUME Going'  PROVE Ats(written') = Before(text', c') /\ Ordered(written')
  BY DEF MarkInv
<1>0. result' \in {"none", "ok"} /\ ~NothingBound'  BY DEF Going
<1>1. ASSUME NEW s \in {"HY093", "HY105", "HY001", "unset"}, Refuse(s)  PROVE FALSE
  BY <1>0, <1>1 DEF Refuse
<1>2. CASE AsWritten  BY <1>0, <1>2 DEF AsWritten, NothingBound
<1>3. CASE Copy
  <2>1. /\ text' = text /\ bound' = bound /\ result' = result /\ written' = written /\ ~NothingBound
    BY <1>3 DEF Copy
  <2>2. Going  BY <1>0, <2>1 DEF Going
  <2>   QED  BY <1>3, <2>1, <2>2, CopyMoves DEF MarkInv
<1>4. CASE Substitute
  <2>1. text' = text /\ result' = result /\ ~NothingBound  BY <1>4 DEF Substitute, AtMarker
  <2>2. Going  BY <1>0, <2>1 DEF Going
  <2>3. Kept \in Marker(bound) /\ Kept.at = c /\ written' = Append(written, Kept)
    BY <1>4, SubstituteWrites
  <2>4. Before(text, c') = Before(text, c) \cup {c}  BY <1>4, SubstituteMoves
  <2>5. Ats(written) = Before(text, c) /\ Ordered(written)  BY <2>2 DEF MarkInv
  <2>6. \A x \in Ats(written) : x < Kept.at  BY <2>3, <2>5 DEF Before
  <2>7. written \in Seq(Marker(bound))  BY DEF FormInv, Written
  <2>8. Ats(Append(written, Kept)) = Ats(written) \cup {Kept.at} /\ Ordered(Append(written, Kept))
    BY <2>3, <2>5, <2>6, <2>7, WrittenOneMore
  <2>   QED  BY <2>1, <2>3, <2>4, <2>5, <2>8
<1>5. CASE NoSuchParameter  BY <1>1, <1>5 DEF NoSuchParameter
<1>6. CASE UnreadableValue  BY <1>1, <1>6 DEF UnreadableValue
<1>7. CASE CopyFails  BY <1>1, <1>7 DEF CopyFails
<1>8. CASE LiteralFails  BY <1>1, <1>8 DEF LiteralFails
<1>9. CASE Finish
  <2>1. CountsMatch  BY <1>1, <1>9 DEF Finish
  <2>2. UNCHANGED <<text, bound, c, written>> /\ result = "none" /\ ~NothingBound
    BY <1>9, <2>1 DEF Finish
  <2>3. Going  BY <2>2 DEF Going
  <2>   QED  BY <2>2, <2>3 DEF MarkInv
<1>   QED  BY <1>2, <1>3, <1>4, <1>5, <1>6, <1>7, <1>8, <1>9 DEF Next

LEMMA MarkInit ==
    ASSUME Init
    PROVE  MarkInv
<1>1. written = <<>> /\ c = 1  BY DEF Init
<1>2. Ats(<<>>) = {} /\ Ordered(<<>>)  BY DEF Ats, Ordered
<1>3. \A j \in MarkersOf(text) : j \in Nat /\ j >= 1  BY MarkersInCode
<1>4. Before(text, 1) = {}  BY <1>3 DEF Before
<1>   QED  BY <1>1, <1>2, <1>4 DEF MarkInv

LEMMA AllBefore ==
    ASSUME FormInv, c > Len(text)
    PROVE  Before(text, c) = MarkersOf(text)
<1>1. c = Len(text) + 1 /\ Len(text) \in Nat  BY TextLength DEF FormInv
<1>2. \A j \in MarkersOf(text) : j \in 1..Len(text)  BY MarkersInCode
<1>3. \A j \in MarkersOf(text) : j < c  BY <1>1, <1>2
<1>   QED  BY <1>3 DEF Before

LEMMA MarkedAll ==
    ASSUME FormInv, MarkInv
    PROVE  SubstitutesTheMarkers
BY AllBefore DEF MarkInv, Going, SubstitutesTheMarkers, Ats, Ordered

(***************************************************************************)
(* Every place the loop can stop at keeps within the text, the markers     *)
(* substituted by position never outnumber the values bound by position,   *)
(* and each literal written is something that stands in the statement:     *)
(* pdo_frostlake_render_statement.                                         *)
(***************************************************************************)
THEOREM StaysInTheText == Spec => []TypeOK
<1>1. Init => FormInv /\ PlaceInv  BY FormInit
<1>2. FormInv /\ PlaceInv /\ [Next]_vars => FormInv' /\ PlaceInv'
  <2>1. CASE Next  BY <2>1, FormNext
  <2>2. CASE UNCHANGED vars  BY <2>2 DEF vars, FormInv, PlaceInv, Written, NothingBound
  <2>   QED  BY <2>1, <2>2
<1>3. FormInv => TypeOK
  <2> SUFFICES ASSUME FormInv  PROVE TypeOK  OBVIOUS
  <2> DEFINE P == DOMAIN bound.positional
             n == position
  <2>1. n \in Nat /\ 0..n - 1 \in SUBSET P /\ IsFiniteSet(P)  BY DEF FormInv, BindingOK
  <2>2. Cardinality(0..n - 1) = n
    <3>1. 0 \in Int /\ n - 1 \in Int  BY <2>1
    <3>2. Cardinality(0..n - 1) = IF 0 > n - 1 THEN 0 ELSE n - 1 - 0 + 1  BY <3>1, FS_Interval
    <3>   QED  BY <2>1, <3>2
  <2> HIDE DEF P, n
  <2>3. n <= Cardinality(P) /\ Cardinality(P) \in Nat  BY <2>1, <2>2, FS_Subset, FS_CardinalityType
  <2>4. n \in 0..Cardinality(P)  BY <2>1, <2>3
  <2>   QED  BY <2>4 DEF FormInv, Written, TypeOK, P, n
<1>   QED  BY <1>1, <1>2, <1>3, PTL DEF Spec

(***************************************************************************)
(* For every text and binding: when the loop is through, what it           *)
(* substituted are the markers of the text, each once and in order.  The   *)
(* scanner of skip_non_placeholder and opens_named_parameter finds what    *)
(* reading character by character finds.                                   *)
(***************************************************************************)
THEOREM MarkersSubstituted == Spec => []SubstitutesTheMarkers
<1> DEFINE Inv == FormInv /\ PlaceInv /\ MarkInv
<1>1. Init => Inv  BY FormInit, MarkInit
<1>2. Inv /\ [Next]_vars => Inv'
  <2>1. CASE Next  BY <2>1, FormNext, MarkNext
  <2>2. CASE UNCHANGED vars
    BY <2>2 DEF vars, FormInv, PlaceInv, MarkInv, Going, Written, NothingBound
  <2>   QED  BY <2>1, <2>2
<1>3. Inv => SubstitutesTheMarkers  BY MarkedAll
<1>   QED  BY <1>1, <1>2, <1>3, PTL DEF Spec

-----------------------------------------------------------------------------
(* Counting the markers: what is accepted fits, and what fits is accepted. *)

QuestionsTo(t, i) == {j \in Before(t, i) : t[j] = "?"}
ColonsTo(t, i)    == {j \in Before(t, i) : t[j] = ":"}
NameAt(t, i)      == SubSeq(t, i, NameEnd(t, i) - 1)
NamesAt(t, S)     == {NameAt(t, i) : i \in S}

CountInv ==
    Going =>
      /\ position = Cardinality(QuestionsTo(text, c))
      /\ used = NamesAt(text, ColonsTo(text, c)) /\ used \subseteq DOMAIN bound.named
      /\ "positional" \in styles <=> QuestionsTo(text, c) # {}
      /\ "named" \in styles <=> ColonsTo(text, c) # {}

LEMMA FewMarkers ==
    ASSUME NEW t, Len(t) \in Nat, NEW i
    PROVE  /\ IsFiniteSet(QuestionsTo(t, i)) /\ Cardinality(QuestionsTo(t, i)) \in Nat
           /\ IsFiniteSet(QuestionsOf(t)) /\ Cardinality(QuestionsOf(t)) \in Nat
           /\ QuestionsTo(t, i) \subseteq QuestionsOf(t)
<1>1. IsFiniteSet(1..Len(t))
  <2>1. 1 \in Int /\ Len(t) \in Int  OBVIOUS
  <2>   QED  BY <2>1, FS_Interval
<1>2. QuestionsOf(t) \in SUBSET (1..Len(t))  BY MarkersInCode DEF QuestionsOf
<1>3. QuestionsTo(t, i) \in SUBSET QuestionsOf(t)  BY DEF QuestionsTo, QuestionsOf, Before
<1>4. IsFiniteSet(QuestionsOf(t))  BY <1>1, <1>2, FS_Subset
<1>5. IsFiniteSet(QuestionsTo(t, i))  BY <1>3, <1>4, FS_Subset
<1>   QED  BY <1>3, <1>4, <1>5, FS_CardinalityType

LEMMA AtMarkerIs ==
    ASSUME FormInv, PlaceInv, AtMarker
    PROVE  /\ c \in MarkersOf(text) /\ c \notin Before(text, c)
           /\ Positional <=> text[c] = "?"
           /\ ~Positional <=> text[c] = ":"
<1>1. c \in 1..Len(text) /\ Len(text) \in Nat  BY TextLength DEF AtMarker, Scanning, FormInv
<1>2. CodeAt(text, c) /\ Skip(text, c) = c  BY <1>1 DEF PlaceInv, AtMarker
<1>3. MarkerAt(text, c)  BY DEF AtMarker, MarkerHere, MarkerAt
<1>4. InCode(text, c)  BY <1>1, <1>2, SkipPasses
<1>5. c \in MarkersOf(text)  BY <1>1, <1>3, <1>4, MarkersAgree
<1>6. text[c] \in {"?", ":"}  BY <1>5, MarkersInCode
<1>7. c \notin Before(text, c)  BY <1>1 DEF Before
<1>   QED  BY <1>5, <1>6, <1>7 DEF Positional

LEMMA CountSubstitute ==
    ASSUME FormInv, PlaceInv, CountInv, Going, Substitute
    PROVE  CountInv'
<1>1. text' = text /\ bound' = bound  BY DEF Substitute
<1>2. Before(text, c') = Before(text, c) \cup {c}  BY SubstituteMoves
<1>3. /\ c \notin Before(text, c)
      /\ Positional <=> text[c] = "?"
      /\ ~Positional <=> text[c] = ":"
  BY AtMarkerIs DEF Substitute
<1>4. /\ position = Cardinality(QuestionsTo(text, c))
      /\ used = NamesAt(text, ColonsTo(text, c)) /\ used \subseteq DOMAIN bound.named
      /\ "positional" \in styles <=> QuestionsTo(text, c) # {}
      /\ "named" \in styles <=> ColonsTo(text, c) # {}
  BY DEF CountInv
<1>5. styles' = styles \cup {IF Positional THEN "positional" ELSE "named"}  BY DEF Substitute, Meet
<1>6. CASE Positional
  <2>1. position' = position + 1 /\ used' = used  BY <1>6 DEF Substitute
  <2>2. QuestionsTo(text, c') = QuestionsTo(text, c) \cup {c} /\ c \notin QuestionsTo(text, c)
    BY <1>2, <1>3, <1>6 DEF QuestionsTo
  <2>3. ColonsTo(text, c') = ColonsTo(text, c)  BY <1>2, <1>3, <1>6 DEF ColonsTo
  <2>4. IsFiniteSet(QuestionsTo(text, c))  BY FewMarkers, TextLength
  <2>5. Cardinality(QuestionsTo(text, c')) = Cardinality(QuestionsTo(text, c)) + 1
    BY <2>2, <2>4, FS_AddElement
  <2>6. position' = Cardinality(QuestionsTo(text, c'))  BY <1>4, <2>1, <2>5
  <2>7. styles' = styles \cup {"positional"}  BY <1>5, <1>6
  <2>8. "positional" \in styles' /\ ("named" \in styles' <=> "named" \in styles)  BY <2>7
  <2>9. QuestionsTo(text, c') # {}  BY <2>2
  <2>   QED  BY <1>1, <1>4, <2>1, <2>3, <2>6, <2>8, <2>9 DEF CountInv
<1>7. CASE ~Positional
  <2>1. position' = position /\ used' = used \cup {Name} /\ Name \in DOMAIN bound.named
    BY <1>7 DEF Substitute, IsBound
  <2>2. QuestionsTo(text, c') = QuestionsTo(text, c)  BY <1>2, <1>3, <1>7 DEF QuestionsTo
  <2>3. ColonsTo(text, c') = ColonsTo(text, c) \cup {c}  BY <1>2, <1>3, <1>7 DEF ColonsTo
  <2>4. Name = NameAt(text, c)  BY DEF Name, NameAt
  <2>5. used' = NamesAt(text, ColonsTo(text, c'))  BY <1>4, <2>1, <2>3, <2>4 DEF NamesAt
  <2>6. styles' = styles \cup {"named"}  BY <1>5, <1>7
  <2>7. "named" \in styles' /\ ("positional" \in styles' <=> "positional" \in styles)  BY <2>6
  <2>8. used' \subseteq DOMAIN bound.named  BY <1>4, <2>1
  <2>9. ColonsTo(text, c') # {}  BY <2>3
  <2>   QED  BY <1>1, <1>4, <2>1, <2>2, <2>5, <2>7, <2>8, <2>9 DEF CountInv
<1>   QED  BY <1>6, <1>7

LEMMA CountNext ==
    ASSUME FormInv, PlaceInv, CountInv, Next
    PROVE  CountInv'
<1> SUFFICES ASSUME Going'  PROVE CountInv'  BY DEF CountInv
<1>0. result' \in {"none", "ok"} /\ ~NothingBound'  BY DEF Going
<1>1. ASSUME NEW s \in {"HY093", "HY105", "HY001", "unset"}, Refuse(s)  PROVE FALSE
  BY <1>0, <1>1 DEF Refuse
<1>2. CASE AsWritten  BY <1>0, <1>2 DEF AsWritten, NothingBound
<1>3. CASE Copy
  <2>1. /\ text' = text /\ bound' = bound /\ result' = result /\ ~NothingBound
        /\ position' = position /\ styles' = styles /\ used' = used
    BY <1>3 DEF Copy
  <2>2. Going  BY <1>0, <2>1 DEF Going
  <2>3. Before(text, c') = Before(text, c)  BY <1>3, CopyMoves
  <2>4. QuestionsTo(text, c') = QuestionsTo(text, c) /\ ColonsTo(text, c') = ColonsTo(text, c)
    BY <2>3 DEF QuestionsTo, ColonsTo
  <2>   QED  BY <2>1, <2>2, <2>4 DEF CountInv
<1>4. CASE Substitute
  <2>1. result' = result /\ ~NothingBound  BY <1>4 DEF Substitute, AtMarker
  <2>2. Going  BY <1>0, <2>1 DEF Going
  <2>   QED  BY <1>4, <2>2, CountSubstitute
<1>5. CASE NoSuchParameter  BY <1>1, <1>5 DEF NoSuchParameter
<1>6. CASE UnreadableValue  BY <1>1, <1>6 DEF UnreadableValue
<1>7. CASE CopyFails  BY <1>1, <1>7 DEF CopyFails
<1>8. CASE LiteralFails  BY <1>1, <1>8 DEF LiteralFails
<1>9. CASE Finish
  <2>1. CountsMatch  BY <1>1, <1>9 DEF Finish
  <2>2. UNCHANGED <<text, bound, c, position, styles, used>> /\ result = "none" /\ ~NothingBound
    BY <1>9, <2>1 DEF Finish
  <2>3. Going  BY <2>2 DEF Going
  <2>   QED  BY <2>2, <2>3 DEF CountInv
<1>   QED  BY <1>2, <1>3, <1>4, <1>5, <1>6, <1>7, <1>8, <1>9 DEF Next

LEMMA CountInit ==
    ASSUME Init
    PROVE  CountInv
<1>1. c = 1 /\ position = 0 /\ styles = {} /\ used = {}  BY DEF Init
<1>2. \A j \in MarkersOf(text) : j \in Nat /\ j >= 1  BY MarkersInCode
<1>3. Before(text, 1) = {}  BY <1>2 DEF Before
<1>4. QuestionsTo(text, 1) = {} /\ ColonsTo(text, 1) = {}  BY <1>3 DEF QuestionsTo, ColonsTo
<1>5. Cardinality({}) = 0  BY FS_EmptySet
<1>6. NamesAt(text, {}) = {}  BY DEF NamesAt
<1>   QED  BY <1>1, <1>4, <1>5, <1>6 DEF CountInv

\* Where as many are asked for as are bound, the two are the same.
LEMMA AsManyAsBound ==
    ASSUME NEW P, NEW M, NEW N, NEW q \in Nat,
           IsFiniteSet(P), IsFiniteSet(M), 0..q - 1 \subseteq P, N \subseteq M
    PROVE  /\ q = Cardinality(P) + Cardinality(M) => M = {} /\ P = 0..q - 1
           /\ Cardinality(N) = Cardinality(P) + Cardinality(M) => P = {} /\ M = N
           /\ P = 0..q - 1 => Cardinality(P) = q
<1> DEFINE I == 0..q - 1
<1>1. Cardinality(I) = q
  <2>1. 0 \in Int /\ q - 1 \in Int  OBVIOUS
  <2>2. Cardinality(I) = IF 0 > q - 1 THEN 0 ELSE q - 1 - 0 + 1  BY <2>1, FS_Interval
  <2>   QED  BY <2>2
<1>2. I \in SUBSET P /\ N \in SUBSET M  OBVIOUS
<1> HIDE DEF I
<1>3. /\ Cardinality(I) <= Cardinality(P) /\ (Cardinality(I) = Cardinality(P) => I = P)
      /\ Cardinality(N) <= Cardinality(M) /\ (Cardinality(N) = Cardinality(M) => N = M)
      /\ IsFiniteSet(N)
  BY <1>2, FS_Subset
<1>4. Cardinality(P) \in Nat /\ Cardinality(M) \in Nat /\ Cardinality(N) \in Nat
  BY <1>3, FS_CardinalityType
<1>5. (Cardinality(P) = 0 <=> P = {}) /\ (Cardinality(M) = 0 <=> M = {})  BY FS_EmptySet
<1>6. ASSUME q = Cardinality(P) + Cardinality(M)  PROVE M = {} /\ P = I
  <2>1. Cardinality(M) = 0 /\ Cardinality(I) = Cardinality(P)  BY <1>1, <1>3, <1>4, <1>6
  <2>   QED  BY <1>3, <1>5, <2>1
<1>7. ASSUME Cardinality(N) = Cardinality(P) + Cardinality(M)  PROVE P = {} /\ M = N
  <2>1. Cardinality(P) = 0 /\ Cardinality(N) = Cardinality(M)  BY <1>3, <1>4, <1>7
  <2>   QED  BY <1>3, <1>5, <2>1
<1>   QED  BY <1>1, <1>6, <1>7 DEF I

LEMMA CountsAreFit ==
    ASSUME FormInv, CountInv, Going, c > Len(text)
    PROVE  CountsMatch <=> Fits
<1> DEFINE P == DOMAIN bound.positional
           M == DOMAIN bound.named
           N == NamesOf(text)
           Q == QuestionsOf(text)
           C == ColonsTo(text, c)
           q == Cardinality(Q)
<1>1. Before(text, c) = MarkersOf(text)  BY AllBefore
<1>2. QuestionsTo(text, c) = Q  BY <1>1 DEF QuestionsTo, QuestionsOf
<1>3. used = N /\ (N = {} <=> C = {})
  <2>1. N = NamesAt(text, C)  BY <1>1 DEF NamesOf, NamesAt, NameAt, ColonsTo
  <2>2. used = NamesAt(text, C)  BY DEF CountInv
  <2> HIDE DEF N, C
  <2>3. NamesAt(text, C) = {} <=> C = {}  BY DEF NamesAt
  <2>   QED  BY <2>1, <2>2, <2>3
<1>4. position = q /\ N \subseteq M  BY <1>2, <1>3 DEF CountInv
<1>5. q \in Nat /\ IsFiniteSet(Q)  BY FewMarkers, TextLength
<1>6. IsFiniteSet(P) /\ IsFiniteSet(M) /\ 0..q - 1 \subseteq P  BY <1>4 DEF FormInv, BindingOK
<1>7. ("positional" \in styles <=> Q # {}) /\ ("named" \in styles <=> C # {})
  BY <1>2 DEF CountInv
<1>8. styles \subseteq {"positional", "named"}  BY DEF FormInv
<1>9. Fits <=> M = N /\ P = 0..q - 1 /\ (M = {} \/ P = {})  BY DEF Fits
<1>10. CountsMatch <=>
         /\ styles # {"positional", "named"}
         /\ (IF "positional" \in styles THEN position ELSE Cardinality(used)) = Cardinality(P) + Cardinality(M)
  BY DEF CountsMatch, Consumed, Bound
<1>11. q = 0 <=> Q = {}  BY <1>5, FS_EmptySet
<1> HIDE DEF P, M, N, Q, C, q
<1>12. /\ q = Cardinality(P) + Cardinality(M) => M = {} /\ P = 0..q - 1
       /\ Cardinality(N) = Cardinality(P) + Cardinality(M) => P = {} /\ M = N
       /\ P = 0..q - 1 => Cardinality(P) = q
  BY <1>4, <1>5, <1>6, AsManyAsBound
<1>13. Cardinality({}) = 0 /\ Cardinality(M) \in Nat  BY <1>6, FS_EmptySet, FS_CardinalityType
<1>14. CASE Q # {}
  <2>1. "positional" \in styles /\ (styles # {"positional", "named"} <=> N = {})
    BY <1>3, <1>7, <1>8, <1>14
  <2>2. CountsMatch <=> N = {} /\ q = Cardinality(P) + Cardinality(M)  BY <1>4, <1>10, <2>1
  <2>3. 0..q - 1 # {}
    <3>1. 0 \in 0..q - 1  BY <1>5, <1>11, <1>14
    <3>   QED  BY <3>1
  <2>4. CountsMatch => Fits  BY <1>9, <1>12, <2>2
  <2>5. Fits => CountsMatch
    <3> SUFFICES ASSUME Fits  PROVE N = {} /\ q = Cardinality(P) + Cardinality(M)  BY <2>2
    <3>1. M = {} /\ N = {} /\ P = 0..q - 1  BY <1>9, <2>3
    <3>2. Cardinality(P) = q /\ Cardinality(M) = 0  BY <1>12, <1>13, <3>1
    <3>   QED  BY <1>5, <3>1, <3>2
  <2>   QED  BY <2>4, <2>5
<1>15. CASE Q = {}
  <2>1. "positional" \notin styles /\ styles # {"positional", "named"}  BY <1>7, <1>15
  <2>2. CountsMatch <=> Cardinality(N) = Cardinality(P) + Cardinality(M)  BY <1>3, <1>10, <2>1
  <2>3. 0..q - 1 = {}  BY <1>11, <1>15
  <2>4. CountsMatch => Fits  BY <1>9, <1>12, <2>2, <2>3
  <2>5. Fits => CountsMatch
    <3> SUFFICES ASSUME Fits  PROVE Cardinality(N) = Cardinality(P) + Cardinality(M)  BY <2>2
    <3>1. M = N /\ P = {}  BY <1>9, <2>3
    <3>2. Cardinality(P) = 0  BY <1>13, <3>1
    <3>   QED  BY <1>13, <3>1, <3>2
  <2>   QED  BY <2>4, <2>5
<1>   QED  BY <1>14, <1>15

LEMMA UnboundDoesNotFit ==
    ASSUME FormInv, PlaceInv, CountInv, Going, AtMarker, ~IsBound
    PROVE  ~Fits
<1>1. c \in MarkersOf(text) /\ c \notin Before(text, c)  BY AtMarkerIs
<1>2. CASE Positional
  <2> DEFINE Q == QuestionsOf(text)
             R == QuestionsTo(text, c)
  <2>1. c \in Q /\ c \notin R  BY <1>1, <1>2 DEF QuestionsOf, QuestionsTo, Positional
  <2>2. /\ IsFiniteSet(Q) /\ R \in SUBSET Q
        /\ Cardinality(Q) \in Nat /\ Cardinality(R) \in Nat
    BY FewMarkers, TextLength
  <2>3. position = Cardinality(R)  BY DEF CountInv
  <2> HIDE DEF Q, R
  <2>4. Cardinality(R) <= Cardinality(Q) /\ Cardinality(R) # Cardinality(Q)
    BY <2>1, <2>2, FS_Subset
  <2>5. position \in 0..Cardinality(Q) - 1  BY <2>2, <2>3, <2>4
  <2>6. position \notin DOMAIN bound.positional  BY <1>2 DEF IsBound
  <2>   QED  BY <2>5, <2>6 DEF Fits, Q
<1>3. CASE ~Positional
  <2>1. text[c] = ":"  BY <1>3, AtMarkerIs
  <2>2. Name \in NamesOf(text)  BY <1>1, <2>1 DEF NamesOf, Name
  <2>3. Name \notin DOMAIN bound.named  BY <1>3 DEF IsBound
  <2>   QED  BY <2>2, <2>3 DEF Fits
<1>   QED  BY <1>2, <1>3

(***************************************************************************)
(* For every text and binding: a statement is rendered exactly when the    *)
(* values bound are the ones its markers ask for, in one style, and HY093  *)
(* is the answer only where they are not; with nothing bound it stays as   *)
(* it is: the counts at the end of pdo_frostlake_render_statement.         *)
(***************************************************************************)
THEOREM AcceptedWhereItFits == Spec => []AcceptsWhatFits
<1> DEFINE Inv == FormInv /\ PlaceInv /\ CountInv /\ AcceptsWhatFits
<1>1. Init => Inv
  <2>1. Init => result = "none"  BY DEF Init
  <2>2. result = "none" => AcceptsWhatFits  BY DEF AcceptsWhatFits
  <2>   QED  BY <2>1, <2>2, FormInit, CountInit
<1>2. Inv /\ [Next]_vars => Inv'
  <2> SUFFICES ASSUME Inv, [Next]_vars  PROVE Inv'  OBVIOUS
  <2>1. CASE UNCHANGED vars
    BY <2>1 DEF vars, FormInv, PlaceInv, CountInv, AcceptsWhatFits, Fits, Going, Written, NothingBound
  <2>2. ASSUME Next  PROVE AcceptsWhatFits'
    <3>1. text' = text /\ bound' = bound /\ result = "none"
      BY <2>2 DEF Next, AsWritten, Copy, Substitute, NoSuchParameter, UnreadableValue, CopyFails,
                  LiteralFails, Finish, Refuse, AtMarker, Scanning
    <3>2. Fits' <=> Fits  BY <3>1 DEF Fits
    <3>3. NothingBound' <=> NothingBound  BY <3>1 DEF NothingBound
    <3>4. result' \notin {"ok", "HY093"} => AcceptsWhatFits'  BY DEF AcceptsWhatFits
    <3>5. CASE AsWritten
      <4>1. result' = "ok" /\ out' = text /\ NothingBound  BY <3>5 DEF AsWritten
      <4>   QED  BY <3>1, <3>3, <4>1 DEF AcceptsWhatFits
    <3>6. CASE Copy \/ Substitute  BY <3>1, <3>4, <3>6 DEF Copy, Substitute
    <3>7. CASE NoSuchParameter
      <4>1. result' = "HY093" /\ AtMarker /\ ~IsBound /\ Going
        BY <3>1, <3>7 DEF NoSuchParameter, Refuse, Going, AtMarker
      <4>2. ~Fits  BY <4>1, UnboundDoesNotFit
      <4>   QED  BY <3>2, <4>1, <4>2 DEF AcceptsWhatFits
    <3>8. CASE UnreadableValue \/ CopyFails \/ LiteralFails
      BY <3>4, <3>8 DEF UnreadableValue, CopyFails, LiteralFails, Refuse
    <3>9. CASE Finish
      <4>1. Going /\ c > Len(text) /\ ~NothingBound  BY <3>1, <3>9 DEF Finish, Going
      <4>2. CountsMatch <=> Fits  BY <4>1, CountsAreFit
      <4>3. CASE CountsMatch
        <5>1. result' = "ok"  BY <3>9, <4>3 DEF Finish
        <5>   QED  BY <3>2, <3>3, <4>1, <4>2, <4>3, <5>1 DEF AcceptsWhatFits
      <4>4. CASE ~CountsMatch
        <5>1. result' = "HY093"  BY <3>9, <4>4 DEF Finish, Refuse
        <5>   QED  BY <3>2, <4>2, <4>4, <5>1 DEF AcceptsWhatFits
      <4>   QED  BY <4>3, <4>4
    <3>   QED  BY <2>2, <3>5, <3>6, <3>7, <3>8, <3>9 DEF Next
  <2>   QED  BY <2>1, <2>2, FormNext, CountNext
<1>   QED  BY <1>1, <1>2, PTL DEF Spec

-----------------------------------------------------------------------------
(* Identifiers.                                                            *)

PairStep(t, i, one, two) ==
    \/ i = Len(t)
    \/ t[i] # DoubleQuote /\ one
    \/ t[i] = DoubleQuote /\ i + 1 < Len(t) /\ t[i + 1] = DoubleQuote /\ two

PairedIs(g, t) == g = [i \in 2..Len(t) |-> PairStep(t, i, g[i + 1], g[i + 2])]

LEMMA PairStepLocal ==
    ASSUME NEW t, NEW i \in Int, Len(t) \in Nat, i <= Len(t), NEW x, NEW y, NEW u, NEW v,
           i < Len(t) => x = u, i + 1 < Len(t) => y = v
    PROVE  PairStep(t, i, x, y) = PairStep(t, i, u, v)
<1>1. CASE i = Len(t)
  <2>1. PairStep(t, i, x, y) = TRUE /\ PairStep(t, i, u, v) = TRUE  BY <1>1 DEF PairStep
  <2>   QED  BY <2>1
<1>2. CASE i < Len(t)
  <2>1. x = u  BY <1>2
  <2>2. CASE i + 1 < Len(t)
    <3>1. y = v  BY <2>2
    <3>   QED  BY <2>1, <3>1
  <2>3. CASE ~(i + 1 < Len(t))
    <3>1. \A z : PairStep(t, i, x, z) = (i = Len(t) \/ (t[i] # DoubleQuote /\ x))
      BY <2>3, Zenon DEF PairStep
    <3>   QED  BY <2>1, <3>1, Zenon
  <2>   QED  BY <2>2, <2>3
<1>   QED  BY <1>1, <1>2

LEMMA PairedExists ==
    ASSUME NEW t, Len(t) \in Nat, Len(t) >= 2
    PROVE  \E g : PairedIs(g, t)
<1> DEFINE N == Len(t)
           T == {k \in Nat : \E g : g = [i \in N - k..N |-> PairStep(t, i, g[i + 1], g[i + 2])]}
<1> HIDE DEF N
<1>0. N \in Nat /\ N >= 2  BY DEF N
<1>1. 0 \in T
  <2> DEFINE g == [i \in N - 0..N |-> TRUE]
  <2>1. ASSUME NEW i \in N - 0..N  PROVE TRUE = PairStep(t, i, g[i + 1], g[i + 2])
    BY <1>0 DEF PairStep, N
  <2>2. g = [i \in N - 0..N |-> PairStep(t, i, g[i + 1], g[i + 2])]  BY <2>1
  <2>   QED  BY <2>2
<1>2. ASSUME NEW k \in Nat, k \in T  PROVE k + 1 \in T
  <2>1. PICK g : g = [i \in N - k..N |-> PairStep(t, i, g[i + 1], g[i + 2])]  BY <1>2
  <2> DEFINE m == N - (k + 1)
             h == [i \in m..N |-> IF i = m THEN PairStep(t, i, g[i + 1], g[i + 2]) ELSE g[i]]
  <2>2. ASSUME NEW i \in m..N  PROVE h[i] = PairStep(t, i, h[i + 1], h[i + 2])
    <3>1. i < N => i + 1 \in m..N /\ i + 1 # m  BY <1>0
    <3>2. i + 1 < N => i + 2 \in m..N /\ i + 2 # m  BY <1>0
    <3>3. i < N => h[i + 1] = g[i + 1]  BY <3>1
    <3>4. i + 1 < N => h[i + 2] = g[i + 2]  BY <3>2
    <3>5. PairStep(t, i, h[i + 1], h[i + 2]) = PairStep(t, i, g[i + 1], g[i + 2])
      <4>1. i \in Int /\ i <= N  BY <1>0
      <4> HIDE DEF h, m
      <4>   QED  BY <1>0, <3>3, <3>4, <4>1, PairStepLocal DEF N
    <3>6. CASE i = m  BY <3>5, <3>6
    <3>7. CASE i # m
      <4>1. i \in N - k..N  BY <3>7, <1>0
      <4>2. g[i] = PairStep(t, i, g[i + 1], g[i + 2])  BY <2>1, <4>1
      <4>3. h[i] = g[i]  BY <3>7
      <4>   QED  BY <3>5, <4>2, <4>3
    <3>   QED  BY <3>6, <3>7
  <2>3. h = [i \in m..N |-> PairStep(t, i, h[i + 1], h[i + 2])]  BY <2>2
  <2> HIDE DEF h
  <2>4. k + 1 \in Nat  OBVIOUS
  <2>   QED  BY <2>3, <2>4
<1> HIDE DEF T
<1>3. Nat \subseteq T  BY <1>1, <1>2, SetInduction
<1>4. N - 2 \in T  BY <1>0, <1>3
<1>5. PICK g : g = [i \in N - (N - 2)..N |-> PairStep(t, i, g[i + 1], g[i + 2])]  BY <1>4 DEF T
<1>6. N - (N - 2) = 2  BY <1>0
<1>   QED  BY <1>5, <1>6 DEF N, PairedIs

Paired(t) == CHOOSE g : PairedIs(g, t)

LEMMA PairedStep ==
    ASSUME NEW t, Len(t) \in Nat, Len(t) >= 2
    PROVE  \A i \in 2..Len(t) : Paired(t)[i] = PairStep(t, i, Paired(t)[i + 1], Paired(t)[i + 2])
<1> DEFINE g == Paired(t)
<1>1. PairedIs(g, t)  BY PairedExists DEF Paired
<1> HIDE DEF g
<1>2. \A i \in 2..Len(t) : g[i] = PairStep(t, i, g[i + 1], g[i + 2])  BY <1>1 DEF PairedIs
<1>   QED  BY <1>2 DEF g

Quotes(t) == t[1] = DoubleQuote /\ Len(t) > 2 /\ Last(t) = DoubleQuote /\ Paired(t)[2]
Word(t)   == (Alpha(t[1]) \/ t[1] = "_") /\ \A i \in 2..Len(t) : Wordy(t[i])

LEMMA IdentifierIs == \A t : IsIdentifier(t) <=> t # <<>> /\ (Quotes(t) \/ Word(t))
<1> SUFFICES ASSUME NEW t  PROVE IsIdentifier(t) <=> t # <<>> /\ (Quotes(t) \/ Word(t))  OBVIOUS
<1> DEFINE g == CHOOSE f : f = [i \in 2..Len(t) |->
                  \/ i = Len(t)
                  \/ t[i] # DoubleQuote /\ f[i + 1]
                  \/ t[i] = DoubleQuote /\ i + 1 < Len(t) /\ t[i + 1] = DoubleQuote /\ f[i + 2]]
<1>1. Paired(t) = g  BY Zenon DEF Paired, PairedIs, PairStep
<1>2. IsIdentifier(t) <=>
        /\ t # <<>>
        /\ \/ t[1] = DoubleQuote /\ Len(t) > 2 /\ Last(t) = DoubleQuote /\ g[2]
           \/ /\ Alpha(t[1]) \/ t[1] = "_"
              /\ \A i \in 2..Len(t) : Alnum(t[i]) \/ t[i] \in {"_", "$"}
  BY Zenon DEF IsIdentifier
<1> HIDE DEF g
<1>   QED  BY <1>1, <1>2, Zenon DEF Quotes, Word, Wordy

\* All of a text from p on is read without code, to an end that is code.
Encloses(t, p) ==
    /\ \A j \in p..Len(t) : ~InCode(t, j)
    /\ ModeAfter(t, Len(t)) = "code"

LEMMA PairedEncloses ==
    ASSUME NEW t, Len(t) \in Nat, Len(t) >= 2, t[Len(t)] = DoubleQuote
    PROVE  \A p \in 2..Len(t) :
             Paired(t)[p] /\ Reading(t)[p - 1].mode = "quoted" => Encloses(t, p)
<1> DEFINE N == Len(t)
           r == Reading(t)
           T == {p \in Int : Paired(t)[p] /\ r[p - 1].mode = "quoted" => Encloses(t, p)}
<1>0. DoubleQuote \in {"'", DoubleQuote} /\ DoubleQuote # "'" /\ QuoteMode(DoubleQuote) = "quoted"
  BY DoubleQuoteIs DEF QuoteMode
<1>1. ASSUME NEW p \in 2..N, \A j \in p + 1..N : j \in T  PROVE p \in T
  <2> SUFFICES ASSUME Paired(t)[p], r[p - 1].mode = "quoted"  PROVE Encloses(t, p)  OBVIOUS
  <2>1. PairStep(t, p, Paired(t)[p + 1], Paired(t)[p + 2])  BY PairedStep
  <2>2. r[p] = ReadChar(r[p - 1], t[p])  BY ReadingIs
  <2>3. ~InCode(t, p)  BY DEF InCode, ModeAfter
  <2>4. /\ t[p] = DoubleQuote => r[p] = InMode("code", DoubleQuote)
        /\ t[p] # DoubleQuote => r[p].mode = "quoted"
    <3> DEFINE s == r[p - 1]
               x == t[p]
    <3>1. s.mode = QuoteMode(DoubleQuote)  BY <1>0
    <3> HIDE DEF s, x
    <3>2. /\ x = DoubleQuote => ReadChar(s, x) = InMode("code", x)
          /\ x # DoubleQuote => ReadChar(s, x).mode = QuoteMode(DoubleQuote)
      BY <1>0, <3>1, InQuotes
    <3>   QED  BY <1>0, <2>2, <3>2 DEF s, x
  <2>5. CASE p = N
    <3>1. r[N].mode = "code"  BY <2>4, <2>5, ModeIs
    <3>2. \A j \in p..N : j = p  BY <2>5
    <3>   QED  BY <2>3, <3>1, <3>2 DEF Encloses, ModeAfter
  <2>6. CASE p # N /\ t[p] # DoubleQuote /\ Paired(t)[p + 1]
    <3> DEFINE k == p + 1
    <3>1. k \in p + 1..N /\ k - 1 = p /\ \A j \in p..N : j = p \/ j \in k..N  BY <2>6
    <3> HIDE DEF k
    <3>2. Encloses(t, k)  BY <1>1, <2>4, <2>6, <3>1 DEF k
    <3>   QED  BY <2>3, <3>1, <3>2 DEF Encloses
  <2>7. CASE p # N /\ t[p] = DoubleQuote /\ p + 1 < N /\ t[p + 1] = DoubleQuote /\ Paired(t)[p + 2]
    <3> DEFINE i == p + 1
               k == p + 2
    <3>1. /\ i \in 1..N /\ i - 1 = p /\ k \in p + 1..N /\ k - 1 = i
          /\ \A j \in p..N : j = p \/ j = i \/ j \in k..N
      BY <2>7
    <3> HIDE DEF i, k
    <3>2. t[i] = DoubleQuote  BY <2>7 DEF i
    <3>3. r[i] = ReadChar(r[p], DoubleQuote)  BY <3>1, <3>2, ReadingIs
    <3>4. r[p].mode = "code"  BY <2>4, <2>7, ModeIs
    <3>5. r[i] = InMode("quoted", DoubleQuote)  BY <1>0, <3>3, <3>4, AfterQuotes
    <3>6. r[i].mode = "quoted"  BY <3>5, ModeIs
    <3>7. ~InCode(t, i)  BY <3>6 DEF InCode, ModeAfter
    <3>8. Encloses(t, k)  BY <1>1, <2>7, <3>1, <3>6 DEF k
    <3>   QED  BY <2>3, <3>1, <3>7, <3>8 DEF Encloses
  <2>   QED  BY <2>1, <2>5, <2>6, <2>7, Zenon DEF PairStep
<1> HIDE DEF T
<1>2. 2 \in Int /\ N \in Int  OBVIOUS
<1>3. 2..N \subseteq T  BY <1>1, <1>2, DownFrom
<1>   QED  BY <1>3 DEF T

LEMMA QuotesStayWhole ==
    ASSUME NEW t \in Seq(STRING), t # <<>>, Quotes(t)
    PROVE  ModeAfter(t, Len(t)) = "code" /\ \A i \in 1..Len(t) : ~InCode(t, i)
<1>1. Len(t) \in Nat /\ Len(t) >= 2 /\ 2 \in 2..Len(t) /\ 1 \in 1..Len(t)  BY DEF Quotes
<1>2. t[Len(t)] = DoubleQuote  BY DEF Quotes, Last
<1>3. Reading(t)[1] = ReadChar(Reading(t)[1 - 1], t[1]) /\ Reading(t)[0] = Start  BY <1>1, ReadingIs
<1>4. Reading(t)[1].mode = "quoted"
  <2> DEFINE s == Reading(t)[0]
  <2>0. s = Start /\ 1 - 1 = 0 /\ t[1] = DoubleQuote  BY <1>3 DEF Quotes
  <2>1. s.mode = "code" /\ Reading(t)[1] = ReadChar(s, DoubleQuote)
    <3>1. Reading(t)[1] = ReadChar(s, DoubleQuote)  BY <1>3, <2>0
    <3> HIDE DEF s
    <3>2. s.mode = "code"  BY <2>0 DEF Start
    <3>   QED  BY <3>1, <3>2
  <2>2. DoubleQuote \in {"'", DoubleQuote} /\ QuoteMode(DoubleQuote) = "quoted"
    BY DoubleQuoteIs DEF QuoteMode
  <2> HIDE DEF s
  <2>3. ReadChar(s, DoubleQuote) = InMode("quoted", DoubleQuote)  BY <2>1, <2>2, AfterQuotes
  <2>   QED  BY <2>1, <2>3, ModeIs
<1>5. Paired(t)[2]  BY DEF Quotes
<1>6. Encloses(t, 2)
  <2>1. 2 - 1 = 1  OBVIOUS
  <2>   QED  BY <1>1, <1>2, <1>4, <1>5, <2>1, PairedEncloses
<1>7. ~InCode(t, 1)  BY <1>4 DEF InCode, ModeAfter
<1>8. \A i \in 1..Len(t) : i = 1 \/ i \in 2..Len(t)  BY <1>1
<1>   QED  BY <1>6, <1>7, <1>8 DEF Encloses

LEMMA WordsStayWhole ==
    ASSUME NEW t \in Seq(STRING), t # <<>>, Word(t)
    PROVE  ModeAfter(t, Len(t)) = "code" /\ \A i \in 1..Len(t) : Wordy(t[i])
<1> DEFINE r == Reading(t)
           T == {n \in Int : /\ r[n].mode = "code" /\ r[n].first = NoChar
                             /\ n >= 1 => Wordy(r[n].prev)}
<1>0. Len(t) \in Nat /\ 1 \in 1..Len(t)  BY EmptySeq
<1>1. ASSUME NEW i \in 1..Len(t)  PROVE Wordy(t[i]) /\ (t[i] = "$" => i # 1)
  <2>1. CASE i = 1  BY <2>1, NameOrSymbol DEF Word, Wordy, IsName
  <2>2. CASE i # 1
    <3>1. i \in 2..Len(t)  BY <2>2
    <3>   QED  BY <2>2, <3>1 DEF Word
  <2>   QED  BY <2>1, <2>2
<1>2. \A x : Wordy(x) => x \notin {"'", DoubleQuote, "-", "/", "*"}  BY DoubleQuoteIs DEF Wordy, Alnum, Symbols
<1>3. ASSUME NEW n \in 0..Len(t), \A j \in 0..n - 1 : j \in T  PROVE n \in T
  <2>1. CASE n = 0
    <3> DEFINE s == r[0]
    <3>1. s = Start  BY <1>0, ReadingIs
    <3> HIDE DEF s
    <3>2. s.mode = "code" /\ s.first = NoChar  BY <3>1 DEF Start
    <3>3. 0 \in Int /\ ~(0 >= 1)  OBVIOUS
    <3>   QED  BY <2>1, <3>2, <3>3 DEF s
  <2>2. CASE n # 0
    <3> DEFINE s == r[n - 1]
               x == t[n]
    <3>1. n \in 1..Len(t) /\ n - 1 \in 0..n - 1 /\ (n - 1 >= 1 <=> n # 1)  BY <2>2
    <3>2. s.mode = "code" /\ s.first = NoChar /\ (n # 1 => Wordy(s.prev))  BY <1>3, <3>1
    <3>3. r[n] = ReadChar(s, x)  BY <3>1, ReadingIs
    <3>4. Wordy(x) /\ (x = "$" => n # 1)  BY <1>1, <3>1
    <3> HIDE DEF s, x
    <3>5. x \notin {"'", DoubleQuote, "-", "/", "*"} /\ ~Opens(s.first, x)
      BY <1>2, <3>2, <3>4, NoCharIs DEF Opens
    <3>6. r[n].mode = "code" /\ r[n].prev = x /\ r[n].first = NoChar
      BY <3>2, <3>3, <3>4, <3>5, CodeChar
    <3>   QED  BY <3>4, <3>6
  <2>   QED  BY <2>1, <2>2
<1> HIDE DEF T
<1>4. 0 \in Int /\ Len(t) \in Int  BY <1>0
<1>5. 0..Len(t) \subseteq T  BY <1>3, <1>4, UpFrom
<1>6. Len(t) \in 0..Len(t)  BY <1>0
<1>   QED  BY <1>1, <1>5, <1>6 DEF T, ModeAfter

(***************************************************************************)
(* For every text that pdo_frostlake_is_identifier accepts: after USE it   *)
(* holds no code but words, and leaves nothing open.                       *)
(***************************************************************************)
THEOREM IdentifiersStayWhole == Spec => []NamesStayWhole
<1>1. Init => FormInv /\ PlaceInv  BY FormInit
<1>2. FormInv /\ PlaceInv /\ [Next]_vars => FormInv' /\ PlaceInv'
  <2>1. CASE Next  BY <2>1, FormNext
  <2>2. CASE UNCHANGED vars  BY <2>2 DEF vars, FormInv, PlaceInv, Written, NothingBound
  <2>   QED  BY <2>1, <2>2
<1>3. FormInv => NamesStayWhole
  <2> SUFFICES ASSUME FormInv, IsIdentifier(text)
               PROVE  /\ ModeAfter(text, Len(text)) = "code"
                      /\ \A i \in 1..Len(text) : InCode(text, i) => Wordy(text[i])
    BY DEF NamesStayWhole
  <2>1. text \in Seq(STRING)  BY DEF FormInv
  <2>2. text # <<>> /\ (Quotes(text) \/ Word(text))  BY IdentifierIs
  <2>   QED  BY <2>1, <2>2, QuotesStayWhole, WordsStayWhole
<1>   QED  BY <1>1, <1>2, <1>3, PTL DEF Spec

-----------------------------------------------------------------------------
(* Reading on: from one state through a sequence to another.               *)

Follows(g, s, b) == g[0] = s /\ \A k \in 1..Len(b) : g[k] = ReadChar(g[k - 1], b[k])
Reads(s, b, q)   == \E g : Follows(g, s, b) /\ g[Len(b)] = q

StateOf(t) == Reading(t)[Len(t)]

LEMMA ReadsOne ==
    ASSUME NEW s, NEW x, NEW q, Reads(s, <<x>>, q)
    PROVE  q = ReadChar(s, x)
<1>1. Len(<<x>>) = 1 /\ <<x>>[1] = x /\ 1 \in 1..1 /\ 1 - 1 = 0  OBVIOUS
<1>2. PICK g : Follows(g, s, <<x>>) /\ g[1] = q  BY <1>1 DEF Reads
<1>   QED  BY <1>1, <1>2 DEF Follows

LEMMA ReadsSplit ==
    ASSUME NEW S, NEW a \in Seq(S), NEW b \in Seq(S), NEW s, NEW q, Reads(s, a \o b, q)
    PROVE  \E m : Reads(s, a, m) /\ Reads(m, b, q)
<1> DEFINE i == Len(a)
           n == Len(b)
           t == a \o b
<1>1. /\ i \in Nat /\ n \in Nat /\ Len(t) = i + n
      /\ \A k \in 1..i : t[k] = a[k]
      /\ \A k \in 1..n : t[i + k] = b[k]
  OBVIOUS
<1>0. Reads(s, t, q)  OBVIOUS
<1> HIDE DEF t
<1>2. PICK g : Follows(g, s, t) /\ g[i + n] = q  BY <1>0, <1>1 DEF Reads
<1> DEFINE h == [k \in 0..n |-> g[i + k]]
<1>3. Follows(g, s, a)
  <2>1. \A k \in 1..i : k \in 1..i + n  BY <1>1
  <2>   QED  BY <1>1, <1>2, <2>1 DEF Follows
<1>4. ASSUME NEW k \in 1..n  PROVE h[k] = ReadChar(h[k - 1], b[k])
  <2> DEFINE j == i + k
  <2>1. j \in 1..i + n /\ j - 1 = i + (k - 1) /\ k \in 0..n /\ k - 1 \in 0..n  BY <1>1
  <2>2. t[j] = b[k]  BY <1>1
  <2> HIDE DEF j
  <2>3. g[j] = ReadChar(g[j - 1], t[j])  BY <1>1, <1>2, <2>1 DEF Follows
  <2>4. h[k] = g[j] /\ h[k - 1] = g[j - 1]  BY <2>1 DEF j
  <2>   QED  BY <2>2, <2>3, <2>4
<1>5. h[0] = g[i] /\ h[n] = q
  <2>1. 0 \in 0..n /\ n \in 0..n /\ i + 0 = i  BY <1>1
  <2>   QED  BY <1>2, <2>1
<1> HIDE DEF h
<1>6. Follows(h, g[i], b)  BY <1>4, <1>5 DEF Follows
<1>7. Reads(s, a, g[i]) /\ Reads(g[i], b, q)  BY <1>3, <1>5, <1>6 DEF Reads
<1>   QED  BY <1>7

LEMMA ReadsText ==
    ASSUME NEW S, NEW t \in Seq(S), NEW i \in 1..Len(t) + 1, NEW e \in i..Len(t) + 1
    PROVE  Reads(Reading(t)[i - 1], SubSeq(t, i, e - 1), Reading(t)[e - 1])
<1> DEFINE b == SubSeq(t, i, e - 1)
           n == e - i
           r == Reading(t)
           g == [k \in 0..n |-> r[i - 1 + k]]
<1>1. Len(b) = n /\ n \in Nat /\ \A k \in 1..n : b[k] = t[i - 1 + k] /\ i - 1 + k \in 1..Len(t)
  <2> DEFINE d == e - 1
  <2>1. i \in Int /\ d \in Int /\ n \in Nat /\ Len(t) \in Nat  OBVIOUS
  <2>2. \A k \in 1..n : i + k - 1 = i - 1 + k /\ i - 1 + k \in 1..Len(t)  OBVIOUS
  <2>3. IF i <= d THEN n = d - i + 1 ELSE n = 0  OBVIOUS
  <2>4. 1..Len(t) = DOMAIN t  OBVIOUS
  <2>5. \A k \in i..d : k \in 1..Len(t)  OBVIOUS
  <2>6. \A k \in i..d : t[k] \in S  BY <2>5
  <2> HIDE DEF d, n
  <2>7. /\ Len(SubSeq(t, i, d)) = n
        /\ \A k \in 1..n : SubSeq(t, i, d)[k] = t[i + k - 1]
    BY <2>1, <2>3, <2>6, SubSeqProperties
  <2>   QED  BY <2>1, <2>2, <2>7 DEF d
<1> HIDE DEF b
<1>2. ASSUME NEW k \in 1..n  PROVE g[k] = ReadChar(g[k - 1], b[k])
  <2> DEFINE j == i - 1 + k
  <2>1. j \in 1..Len(t) /\ j - 1 = i - 1 + (k - 1) /\ k \in 0..n /\ k - 1 \in 0..n  BY <1>1
  <2>2. t[j] = b[k]  BY <1>1
  <2>3. g[k] = r[j] /\ g[k - 1] = r[i - 1 + (k - 1)]  BY <2>1
  <2> HIDE DEF j, g
  <2>4. r[j] = ReadChar(r[j - 1], t[j])  BY <2>1, ReadingIs
  <2>   QED  BY <2>1, <2>2, <2>3, <2>4
<1>3. g[0] = r[i - 1] /\ g[n] = r[e - 1]
  <2>1. 0 \in 0..n /\ n \in 0..n /\ i - 1 + 0 = i - 1 /\ i - 1 + n = e - 1  BY <1>1
  <2> HIDE DEF n, r
  <2>   QED  BY <2>1
<1> HIDE DEF g, n
<1>4. Follows(g, r[i - 1], b) /\ g[Len(b)] = r[e - 1]  BY <1>1, <1>2, <1>3 DEF Follows
<1> HIDE DEF r
<1>5. Reads(r[i - 1], b, r[e - 1])  BY <1>4 DEF Reads
<1>   QED  BY <1>5 DEF b, r

LEMMA ReadsOn ==
    ASSUME NEW S, NEW a \in Seq(S), NEW b \in Seq(S)
    PROVE  Reads(StateOf(a), b, StateOf(a \o b))
<1> DEFINE i == Len(a)
           n == Len(b)
           t == a \o b
           R == Reading(t)
           r == Reading(a)
           T == {k \in Int : R[k] = r[k]}
<1>1. /\ i \in Nat /\ n \in Nat /\ Len(t) = i + n /\ t \in Seq(S)
      /\ \A k \in 1..i : t[k] = a[k]
      /\ SubSeq(t, i + 1, i + n) = b
  OBVIOUS
<1> HIDE DEF t
<1>2. ASSUME NEW k \in 0..i, \A j \in 0..k - 1 : j \in T  PROVE k \in T
  <2>1. CASE k = 0
    <3>1. R[0] = Start  BY <1>1, ReadingIs
    <3>2. r[0] = Start  BY <1>1, ReadingIs
    <3>   QED  BY <2>1, <3>1, <3>2
  <2>2. CASE k # 0
    <3>1. k \in 1..i /\ k \in 1..Len(t) /\ Len(t) \in Nat /\ k - 1 \in 0..k - 1  BY <1>1, <2>2
    <3>2. R[k] = ReadChar(R[k - 1], t[k])  BY <3>1, ReadingIs
    <3>3. r[k] = ReadChar(r[k - 1], a[k])  BY <1>1, <3>1, ReadingIs
    <3>4. R[k - 1] = r[k - 1] /\ t[k] = a[k]  BY <1>1, <1>2, <3>1
    <3>   QED  BY <3>2, <3>3, <3>4
  <2>   QED  BY <2>1, <2>2
<1> HIDE DEF T
<1>3. 0 \in Int /\ i \in Int  BY <1>1
<1>4. 0..i \subseteq T  BY <1>2, <1>3, UpFrom
<1>5. R[i] = r[i]
  <2>1. i \in 0..i  BY <1>1
  <2>   QED  BY <1>4, <2>1 DEF T
<1> DEFINE u == i + 1
           e == i + n + 1
<1>6. u \in 1..Len(t) + 1 /\ e \in u..Len(t) + 1 /\ u - 1 = i /\ e - 1 = i + n /\ u = i + 1  BY <1>1
<1> HIDE DEF u, e, R, r
<1>7. Reads(Reading(t)[u - 1], SubSeq(t, u, e - 1), Reading(t)[e - 1])  BY <1>1, <1>6, ReadsText
<1>8. Reads(R[i], b, R[i + n])  BY <1>1, <1>6, <1>7 DEF R
<1>   QED  BY <1>1, <1>5, <1>8 DEF StateOf, R, r, t

\* Two states that read x, and so all that comes after it, the same.
Alike(s, r, x) ==
    /\ s.mode = r.mode /\ s.first = r.first
    /\ x = "$" => s.prev = r.prev

LEMMA AlikeRead ==
    ASSUME NEW s, NEW r, NEW x, Alike(s, r, x)
    PROVE  ReadChar(s, x) = ReadChar(r, x)
<1>1. x \in {"-", "/"} \/ (x = "$" /\ ~Wordy(s.prev)) <=> x \in {"-", "/"} \/ (x = "$" /\ ~Wordy(r.prev))
  BY DEF Alike
<1>2. ReadCode(s, x) = ReadCode(r, x)  BY <1>1 DEF Alike, ReadCode
<1>   QED  BY <1>2 DEF Alike, ReadChar

LEMMA AlikeReads ==
    ASSUME NEW S, NEW b \in Seq(S), b # <<>>, NEW s, NEW r, Alike(s, r, b[1]),
           NEW q, Reads(s, b, q), NEW p, Reads(r, b, p)
    PROVE  q = p
<1>1. PICK g : Follows(g, s, b) /\ g[Len(b)] = q  BY DEF Reads
<1>2. PICK h : Follows(h, r, b) /\ h[Len(b)] = p  BY DEF Reads
<1> DEFINE T == {k \in Int : g[k] = h[k]}
<1>3. Len(b) \in Nat \ {0}  BY EmptySeq
<1>4. ASSUME NEW k \in 1..Len(b), \A j \in 1..k - 1 : j \in T  PROVE k \in T
  <2>1. g[k] = ReadChar(g[k - 1], b[k]) /\ h[k] = ReadChar(h[k - 1], b[k])  BY <1>1, <1>2 DEF Follows
  <2>2. CASE k = 1
    <3>1. g[0] = s /\ h[0] = r /\ k - 1 = 0  BY <1>1, <1>2, <2>2 DEF Follows
    <3>2. ReadChar(s, b[1]) = ReadChar(r, b[1])  BY AlikeRead
    <3>   QED  BY <2>1, <2>2, <3>1, <3>2
  <2>3. CASE k # 1
    <3>1. k - 1 \in 1..k - 1  BY <2>3
    <3>   QED  BY <1>4, <2>1, <3>1
  <2>   QED  BY <2>2, <2>3
<1> HIDE DEF T
<1>5. 1 \in Int /\ Len(b) \in Int  BY <1>3
<1>6. 1..Len(b) \subseteq T  BY <1>4, <1>5, UpFrom
<1>7. Len(b) \in 1..Len(b)  BY <1>3
<1>   QED  BY <1>1, <1>2, <1>6, <1>7 DEF T

-----------------------------------------------------------------------------
(* What a literal reads as: code before it, code after it, nothing open.   *)

Closed(q) == q.mode = "code" /\ q.first = NoChar

\* A character that can open nothing, alone or with one before or after it.
LEMMA PlainReads ==
    ASSUME NEW s, s.mode = "code", NEW x, x \notin {"'", DoubleQuote, "-", "/", "*", "$"}
    PROVE  Closed(ReadChar(s, x))
<1>1. ReadChar(s, x) = ReadCode(s, x)  BY DEF ReadChar
<1>2. ReadCode(s, x) = [mode |-> "code", first |-> NoChar, prev |-> x]  BY DEF ReadCode, InMode
<1>   QED  BY <1>1, <1>2 DEF Closed

LEMMA WordReads ==
    ASSUME NEW s, s.mode = "code", NEW x \in {"NULL", "TRUE", "FALSE", "FLOAT", "X", "0", "1", ":", Blank}
    PROVE  Closed(ReadChar(s, x))
<1>1. x \notin {"'", DoubleQuote, "-", "/", "*", "$"}  BY DoubleQuoteIs, BlankIs
<1>   QED  BY <1>1, PlainReads

LEMMA QuotesAreChars == "'" \in Chars /\ "\\" \in Chars /\ <<"'">> \in Seq(Chars)
<1>1. "'" \in Chars /\ "\\" \in Chars  BY LettersAreChars DEF Letters
<1>   QED  BY <1>1, Singles

LEMMA EscapedReads ==
    ASSUME NEW s, s.mode = "string", NEW x, NEW q, Reads(s, Escaped(x), q)
    PROVE  q.mode = "string"
<1>0. "'" \in {"'", DoubleQuote} /\ s.mode = QuoteMode("'") /\ QuoteMode("'") = "string"  BY DEF QuoteMode
<1>1. CASE x \in {"'", "\\"}
  <2> DEFINE a == <<x>>
  <2>1. a \in Seq({x}) /\ Escaped(x) = a \o a  BY <1>1 DEF Escaped
  <2> HIDE DEF a
  <2>2. PICK m : Reads(s, a, m) /\ Reads(m, a, q)  BY <2>1, ReadsSplit
  <2>3. m = ReadChar(s, x) /\ q = ReadChar(m, x)  BY <2>2, ReadsOne DEF a
  <2>4. CASE x = "'"
    <3>1. ReadChar(s, x) = InMode("code", x)  BY <1>0, <2>4, InQuotes
    <3>2. m.mode = "code"  BY <2>3, <3>1, ModeIs
    <3>3. ReadChar(m, x) = InMode("string", x)  BY <1>0, <2>4, <3>2, AfterQuotes
    <3>   QED  BY <2>3, <3>3, ModeIs
  <2>5. CASE x = "\\"
    <3>1. m.mode = "escape"  BY <1>0, <2>3, <2>5, InQuotes
    <3>2. ReadChar(m, x) = InMode("string", x)  BY <3>1, AfterEscape
    <3>   QED  BY <2>3, <3>2, ModeIs
  <2>   QED  BY <1>1, <2>4, <2>5
<1>2. CASE x \notin {"'", "\\"}
  <2>1. Escaped(x) = <<x>>  BY <1>2 DEF Escaped
  <2>2. q = ReadChar(s, x)  BY <2>1, ReadsOne
  <2>   QED  BY <1>0, <1>2, <2>2, InQuotes
<1>   QED  BY <1>1, <1>2

\* The inside of a string literal, character by character.
LEMMA InsideIs ==
    ASSUME NEW S, NEW t \in Seq(S)
    PROVE  \E g : /\ g[0] = <<>> /\ Inside(t) = g[Len(t)]
                  /\ \A i \in 1..Len(t) : g[i] = g[i - 1] \o Escaped(t[i])
                  /\ \A i \in 0..Len(t) : g[i] \in Seq(S)
<1> DEFINE e == [i \in 1..Len(t) |-> Escaped(t[i])]
           N == Len(t)
<1>0. N \in Nat /\ Len(e) = N /\ Inside(t) = FlattenSeq(e)  BY DEF Inside
<1>1. ASSUME NEW i \in 1..N  PROVE e[i] = Escaped(t[i]) /\ e[i] \in Seq(S)
  <2> DEFINE x == t[i]
  <2>1. x \in S /\ e[i] = Escaped(x)  OBVIOUS
  <2> HIDE DEF x, e
  <2>2. Escaped(x) \in Seq(S)  BY <2>1, Singles DEF Escaped
  <2>   QED  BY <2>1, <2>2 DEF x
<1> HIDE DEF N, e
<1>2. CASE N = 0
  <2> DEFINE h == [i \in {0} |-> <<>>]
  <2>1. e = <<>>
    <3>1. e = [i \in 1..0 |-> Escaped(t[i])]  BY <1>2 DEF e, N
    <3>2. 1..0 = {}  OBVIOUS
    <3>   QED  BY <3>1, <3>2
  <2>2. FlattenSeq(e) = <<>>  BY <2>1 DEF FlattenSeq
  <2>3. h[0] = <<>> /\ \A i \in 0..N : h[i] \in Seq(S)  BY <1>2
  <2>4. 1..N = {}  BY <1>2
  <2> HIDE DEF h
  <2>   QED  BY <1>0, <1>2, <2>2, <2>3, <2>4 DEF N
<1>3. CASE N # 0
  <2>1. Len(e) \in Nat \ {0}  BY <1>0, <1>3
  <2>2. PICK f : /\ f[1] = e[1]
                 /\ \A i \in 2..Len(e) : f[i] = f[i - 1] \o e[i]
                 /\ FlattenSeq(e) = f[Len(e)]  BY <2>1, FlattenIs
  <2> DEFINE h == [i \in 0..N |-> IF i = 0 THEN <<>> ELSE f[i]]
             T == {i \in Int : h[i] \in Seq(S)}
  <2>3. h[0] = <<>> /\ \A i \in 1..N : h[i] = f[i]  BY <1>0
  <2> HIDE DEF h
  <2>4. ASSUME NEW i \in 1..N, h[i - 1] \in Seq(S)  PROVE h[i] = h[i - 1] \o e[i]
    <3>1. CASE i = 1
      <4>1. h[i] = e[i] /\ h[i - 1] = <<>>  BY <2>2, <2>3, <3>1
      <4>2. <<>> \o e[i] = e[i]  BY <1>1
      <4>   QED  BY <4>1, <4>2
    <3>2. CASE i # 1
      <4>1. i \in 2..Len(e) /\ i - 1 \in 1..N  BY <1>0, <3>2
      <4>2. h[i] = f[i] /\ h[i - 1] = f[i - 1]  BY <2>3, <4>1
      <4>3. f[i] = f[i - 1] \o e[i]  BY <2>2, <4>1
      <4>   QED  BY <4>2, <4>3
    <3>   QED  BY <3>1, <3>2
  <2>5. ASSUME NEW i \in 0..N, \A j \in 0..i - 1 : j \in T  PROVE i \in T
    <3>1. CASE i = 0
      <4>1. <<>> \in Seq(S) /\ 0 \in Int  OBVIOUS
      <4>2. h[0] \in Seq(S)  BY <2>3, <4>1, Zenon
      <4>   QED  BY <3>1, <4>1, <4>2, Zenon
    <3>2. CASE i # 0
      <4>1. i \in 1..N /\ i - 1 \in 0..i - 1  BY <1>0, <3>2
      <4>2. h[i - 1] \in Seq(S)  BY <2>5, <4>1
      <4>3. h[i] = h[i - 1] \o e[i] /\ e[i] \in Seq(S)  BY <1>1, <2>4, <4>1, <4>2
      <4>4. h[i] \in Seq(S)  BY <4>2, <4>3, Joined
      <4>   QED  BY <4>4
    <3>   QED  BY <3>1, <3>2
  <2> HIDE DEF T
  <2>6. 0 \in Int /\ N \in Int  BY <1>0
  <2>7. 0..N \subseteq T  BY <2>5, <2>6, UpFrom
  <2>8. \A i \in 0..N : h[i] \in Seq(S)  BY <2>7 DEF T
  <2>9. ASSUME NEW i \in 1..N  PROVE h[i] = h[i - 1] \o Escaped(t[i])
    <3>1. i - 1 \in 0..N  BY <1>0
    <3>   QED  BY <1>1, <2>4, <2>8, <3>1
  <2>10. Inside(t) = h[N]
    <3>1. N \in 1..N  BY <1>0, <1>3
    <3>   QED  BY <1>0, <2>2, <2>3, <3>1
  <2>   QED  BY <2>3, <2>8, <2>9, <2>10 DEF N
<1>   QED  BY <1>2, <1>3

LEMMA EmptyReads == \A s, q : Reads(s, <<>>, q) => q = s
BY DEF Reads, Follows

LEMMA InsideReads ==
    ASSUME NEW S, NEW t \in Seq(S), NEW s, s.mode = "string", NEW q, Reads(s, Inside(t), q)
    PROVE  q.mode = "string"
<1>1. PICK g : /\ g[0] = <<>> /\ Inside(t) = g[Len(t)]
               /\ \A i \in 1..Len(t) : g[i] = g[i - 1] \o Escaped(t[i])
               /\ \A i \in 0..Len(t) : g[i] \in Seq(S)  BY InsideIs
<1> DEFINE T == {i \in Int : \A p : Reads(s, g[i], p) => p.mode = "string"}
<1>2. ASSUME NEW i \in 0..Len(t), \A j \in 0..i - 1 : j \in T  PROVE i \in T
  <2> SUFFICES ASSUME NEW p, Reads(s, g[i], p)  PROVE p.mode = "string"  OBVIOUS
  <2>1. CASE i = 0  BY <1>1, <2>1, EmptyReads
  <2>2. CASE i # 0
    <3> DEFINE a == g[i - 1]
               x == t[i]
    <3>1. i \in 1..Len(t) /\ i - 1 \in 0..i - 1 /\ i - 1 \in 0..Len(t)  BY <2>2
    <3>2. g[i] = a \o Escaped(x) /\ a \in Seq(S) /\ x \in S
      <4>1. x \in S  BY <3>1
      <4>2. g[i] = a \o Escaped(x)  BY <1>1, <3>1
      <4>3. a \in Seq(S)  BY <1>1, <3>1
      <4>   QED  BY <4>1, <4>2, <4>3
    <3>3. \A m : Reads(s, a, m) => m.mode = "string"  BY <1>2, <3>1
    <3> HIDE DEF a, x
    <3>4. Escaped(x) \in Seq(S)  BY <3>2, Singles DEF Escaped
    <3>5. PICK m : Reads(s, a, m) /\ Reads(m, Escaped(x), p)  BY <3>2, <3>4, ReadsSplit
    <3>   QED  BY <3>3, <3>5, EscapedReads
  <2>   QED  BY <2>1, <2>2
<1> HIDE DEF T
<1>3. 0 \in Int /\ Len(t) \in Int  OBVIOUS
<1>4. 0..Len(t) \subseteq T  BY <1>2, <1>3, UpFrom
<1>5. Len(t) \in 0..Len(t)  OBVIOUS
<1>   QED  BY <1>1, <1>4, <1>5 DEF T

LEMMA QuotedReads ==
    ASSUME NEW t \in Seq(Chars), NEW s, s.mode = "code", NEW q, Reads(s, Quoted(t), q)
    PROVE  Closed(q)
<1> DEFINE a == <<"'">>
<1>1. a \in Seq(Chars) /\ Quoted(t) = (a \o Inside(t)) \o a  BY QuotesAreChars, QuotedIs
<1>2. Inside(t) \in Seq(Chars)
  <2>1. PICK g : Inside(t) = g[Len(t)] /\ \A i \in 0..Len(t) : g[i] \in Seq(Chars)  BY InsideIs
  <2>2. Len(t) \in 0..Len(t)  OBVIOUS
  <2>   QED  BY <2>1, <2>2
<1> HIDE DEF a
<1>3. a \o Inside(t) \in Seq(Chars)  BY <1>1, <1>2, Joined
<1>4. PICK n : Reads(s, a \o Inside(t), n) /\ Reads(n, a, q)  BY <1>1, <1>3, ReadsSplit
<1>5. PICK m : Reads(s, a, m) /\ Reads(m, Inside(t), n)  BY <1>1, <1>2, <1>4, ReadsSplit
<1>6. m = ReadChar(s, "'") /\ q = ReadChar(n, "'")  BY <1>4, <1>5, ReadsOne DEF a
<1>0. "'" \in {"'", DoubleQuote} /\ QuoteMode("'") = "string"  BY DEF QuoteMode
<1>7. m.mode = "string"  BY <1>0, <1>6, AfterQuotes, ModeIs
<1>8. n.mode = "string"  BY <1>2, <1>5, <1>7, InsideReads
<1>9. q = InMode("code", "'")  BY <1>0, <1>6, <1>8, InQuotes
<1>   QED  BY <1>9, ModeIs DEF Closed

\* With nothing to escape, the quotes are all there is to add.
LEMMA PlainQuoted ==
    ASSUME NEW t \in Seq(Chars), \A i \in 1..Len(t) : t[i] \notin {"'", "\\"}
    PROVE  Quoted(t) = <<"'">> \o t \o <<"'">>
<1>1. PICK g : /\ g[0] = <<>> /\ Inside(t) = g[Len(t)]
               /\ \A i \in 1..Len(t) : g[i] = g[i - 1] \o Escaped(t[i])
  BY InsideIs
<1> DEFINE T == {i \in Int : g[i] = SubSeq(t, 1, i)}
<1>2. ASSUME NEW i \in 0..Len(t), \A j \in 0..i - 1 : j \in T  PROVE i \in T
  <2>1. CASE i = 0
    <3>1. SubSeq(t, 1, 0) = <<>> /\ 0 \in Int  OBVIOUS
    <3>   QED  BY <1>1, <2>1, <3>1, Zenon
  <2>2. CASE i # 0
    <3> DEFINE k == i - 1
    <3>1. i \in 1..Len(t) /\ k \in 0..i - 1 /\ i = k + 1  BY <2>2
    <3>2. g[k] = SubSeq(t, 1, k)  BY <1>2, <3>1
    <3>3. g[i] = g[k] \o <<t[i]>>
      <4>1. Escaped(t[i]) = <<t[i]>>  BY <3>1 DEF Escaped
      <4>   QED  BY <1>1, <3>1, <4>1
    <3> HIDE DEF k
    <3>4. SubSeq(t, 1, k) \o <<t[i]>> = SubSeq(t, 1, i) /\ i \in Int  BY <3>1
    <3>   QED  BY <3>2, <3>3, <3>4, Zenon
  <2>   QED  BY <2>1, <2>2
<1> HIDE DEF T
<1>3. 0 \in Int /\ Len(t) \in Int  OBVIOUS
<1>4. 0..Len(t) \subseteq T  BY <1>2, <1>3, UpFrom
<1>5. Len(t) \in 0..Len(t) /\ SubSeq(t, 1, Len(t)) = t  OBVIOUS
<1>6. Inside(t) = t  BY <1>1, <1>4, <1>5 DEF T
<1>   QED  BY <1>6, QuotedIs

-----------------------------------------------------------------------------
(* How numbers read.                                                       *)

LEMMA TameReads ==
    ASSUME NEW s, s.mode = "code", NEW x, Tame(x)
    PROVE  Closed(ReadChar(s, x))
<1>1. x \notin {"'", DoubleQuote, "-", "/", "*", "$"}  BY DoubleQuoteIs, BlankIs DEF Tame, Digits
<1>   QED  BY <1>1, PlainReads

LEMMA MinusReads ==
    ASSUME NEW s, s.mode = "code", s.first # "-"
    PROVE  ReadChar(s, "-").mode = "code"
<1>1. ~Opens(s.first, "-") /\ "-" \notin {"'", DoubleQuote}  BY DoubleQuoteIs DEF Opens
<1>   QED  BY <1>1, CodeChar, Zenon

LEMMA NumericReads ==
    ASSUME NEW t, Len(t) \in Nat, Numerically(t), Len(t) > 0, NEW s, s.mode = "code",
           t[1] = "-" => s.first # "-", NEW q, Reads(s, t, q)
    PROVE  Closed(q)
<1>1. PICK g : Follows(g, s, t) /\ g[Len(t)] = q  BY DEF Reads
<1> DEFINE T == {k \in Int : g[k].mode = "code" /\ (Tame(t[k]) => Closed(g[k]))}
<1>2. ASSUME NEW k \in 1..Len(t), \A j \in 1..k - 1 : j \in T  PROVE k \in T
  <2> DEFINE r == g[k - 1]
             x == t[k]
  <2>1. g[k] = ReadChar(r, x)  BY <1>1 DEF Follows
  <2>2. Tame(x) \/ x = "-"  BY DEF Numerically
  <2>3. r.mode = "code" /\ (x = "-" => r.first # "-")
    <3>1. CASE k = 1
      <4>1. r = s /\ x = t[1]
        <5>1. k - 1 = 0  BY <3>1
        <5>   QED  BY <1>1, <3>1, <5>1 DEF Follows
      <4> HIDE DEF r, x
      <4>   QED  BY <4>1
    <3>2. CASE k # 1
      <4> DEFINE j == k - 1
      <4>1. j \in 1..k - 1 /\ j \in 1..Len(t) /\ j + 1 = k  BY <3>2
      <4>2. r = g[j]  OBVIOUS
      <4> HIDE DEF j, r, x
      <4>3. g[j].mode = "code" /\ (Tame(t[j]) => Closed(g[j]))  BY <1>2, <4>1
      <4>4. x = "-" => Tame(t[j])
        <5>1. Tame(t[j]) \/ (t[j] = "-" /\ Tame(t[j + 1]))  BY <4>1 DEF Numerically
        <5>2. ~Tame("-")  BY BlankIs DEF Tame, Digits
        <5>   QED  BY <4>1, <5>1, <5>2 DEF x
      <4>5. Closed(g[j]) => g[j].first # "-"  BY NoCharIs DEF Closed
      <4>   QED  BY <4>2, <4>3, <4>4, <4>5
    <3>   QED  BY <3>1, <3>2
  <2> HIDE DEF r, x
  <2>4. g[k].mode = "code" /\ (Tame(x) => Closed(g[k]))
    <3>1. Tame(x) => Closed(ReadChar(r, x))  BY <2>3, TameReads
    <3>2. x = "-" => ReadChar(r, x).mode = "code"  BY <2>3, MinusReads
    <3>3. Closed(ReadChar(r, x)) => ReadChar(r, x).mode = "code"  BY DEF Closed
    <3>   QED  BY <2>1, <2>2, <3>1, <3>2, <3>3
  <2>   QED  BY <2>4 DEF x
<1> HIDE DEF T
<1>3. 1 \in Int /\ Len(t) \in Int  OBVIOUS
<1>4. 1..Len(t) \subseteq T  BY <1>2, <1>3, UpFrom
<1>5. Len(t) \in 1..Len(t)  OBVIOUS
<1>6. Tame(t[Len(t)])  BY <1>5 DEF Numerically
<1>   QED  BY <1>1, <1>4, <1>5, <1>6 DEF T

\* In code, the character that may open a pair is the one just read.
Modes == {"code", "string", "escape", "quoted", "line", "block", "body"}

LEMMA CharReads ==
    ASSUME NEW s, s.mode \in Modes, NEW x
    PROVE  ReadChar(s, x).mode \in Modes /\ ReadChar(s, x).first \in {NoChar, x}
<1>1. CASE s.mode = "code"  BY <1>1 DEF ReadChar, ReadCode, InMode, Modes
<1>2. CASE s.mode \in {"string", "escape", "quoted", "line"}  BY <1>2 DEF ReadChar, InMode, Modes
<1>3. CASE s.mode = "block"  BY <1>3 DEF ReadChar, InMode, Modes
<1>4. CASE s.mode = "body"  BY <1>4 DEF ReadChar, InMode, Modes
<1>   QED  BY <1>1, <1>2, <1>3, <1>4 DEF Modes

LEMMA FirstIsLast ==
    ASSUME NEW t, Len(t) \in Nat, StateOf(t).first # NoChar
    PROVE  t # <<>> /\ StateOf(t).first = Last(t)
<1> DEFINE r == Reading(t)
           N == Len(t)
           T == {n \in Int : r[n].mode \in Modes}
<1>1. r[0] = Start /\ \A n \in 1..N : r[n] = ReadChar(r[n - 1], t[n])  BY ReadingIs
<1> HIDE DEF r
<1>2. ASSUME NEW n \in 0..N, \A j \in 0..n - 1 : j \in T  PROVE n \in T
  <2>1. CASE n = 0
    <3>1. Start.mode \in Modes  BY DEF Start, Modes
    <3>   QED  BY <1>1, <2>1, <3>1
  <2>2. CASE n # 0
    <3>1. n \in 1..N /\ n - 1 \in 0..n - 1  BY <2>2
    <3>2. r[n - 1].mode \in Modes  BY <1>2, <3>1
    <3>3. ReadChar(r[n - 1], t[n]).mode \in Modes  BY <3>2, CharReads
    <3>   QED  BY <1>1, <3>1, <3>3
  <2>   QED  BY <2>1, <2>2
<1> HIDE DEF T
<1>3. 0 \in Int /\ N \in Int  OBVIOUS
<1>4. 0..N \subseteq T  BY <1>2, <1>3, UpFrom
<1>5. r[N].first # NoChar  BY DEF StateOf, r
<1>6. N # 0
  <2>1. Start.first = NoChar  BY DEF Start
  <2>   QED  BY <1>1, <1>5, <2>1
<1>7. N \in 1..N /\ N - 1 \in 0..N  BY <1>6
<1>8. r[N - 1].mode \in Modes  BY <1>4, <1>7 DEF T
<1>9. r[N].first = t[N]
  <2>1. r[N] = ReadChar(r[N - 1], t[N])  BY <1>1, <1>7
  <2>2. ReadChar(r[N - 1], t[N]).first \in {NoChar, t[N]}  BY <1>8, CharReads
  <2>   QED  BY <1>5, <2>1, <2>2
<1>10. t # <<>>  BY <1>6
<1>   QED  BY <1>9, <1>10 DEF StateOf, Last, r

LEMMA NumberReads ==
    ASSUME NEW o \in Seq(Chars), NEW t \in Seq(Chars), IsNumericLiteral(t), StateOf(o).mode = "code",
           NEW q, Reads(StateOf(o), Number(o, t), q)
    PROVE  Closed(q)
<1> DEFINE s == StateOf(o)
<1>1. Numerically(t) /\ Len(t) > 0 /\ Len(t) \in Nat  BY NumericIsTame
<1>2. s.first = "-" => o # <<>> /\ Last(o) = "-"
  <2>1. s.first = "-" => s.first # NoChar  BY NoCharIs
  <2>2. s.first # NoChar => o # <<>> /\ s.first = Last(o)  BY FirstIsLast
  <2> HIDE DEF s
  <2>   QED  BY <2>1, <2>2
<1>3. At(t, 1, "-") <=> t[1] = "-"  BY <1>1 DEF At
<1>4. Reads(s, Number(o, t), q) /\ s.mode = "code"  OBVIOUS
<1> HIDE DEF s
<1>5. CASE t[1] = "-" /\ o # <<>> /\ Last(o) = "-"
  <2> DEFINE a == <<Blank>>
  <2>1. Number(o, t) = a \o t /\ a \in Seq(Chars)
    <3>1. Blank \in Chars  BY LettersAreChars DEF Letters
    <3>   QED  BY <1>3, <1>5, <3>1 DEF Number
  <2> HIDE DEF a
  <2>2. PICK m : Reads(s, a, m) /\ Reads(m, t, q)  BY <1>4, <2>1, ReadsSplit
  <2>3. m = ReadChar(s, Blank)  BY <2>2, ReadsOne DEF a
  <2>4. Closed(m)  BY <1>4, <2>3, WordReads
  <2>5. m.mode = "code" /\ m.first # "-"  BY <2>4, NoCharIs DEF Closed
  <2>   QED  BY <1>1, <2>2, <2>5, NumericReads
<1>6. CASE ~(t[1] = "-" /\ o # <<>> /\ Last(o) = "-")
  <2>1. Number(o, t) = t  BY <1>3, <1>6 DEF Number
  <2>2. t[1] = "-" => s.first # "-"  BY <1>2, <1>6
  <2>   QED  BY <1>1, <1>4, <2>1, <2>2, NumericReads
<1>   QED  BY <1>5, <1>6

\* What is no number is written as a string and a cast.
LEMMA DoubleIs ==
    ASSUME NEW o, NEW t \in Seq(Chars)
    PROVE  /\ IsNumericLiteral(t) => Double(o, t) = Number(o, t)
           /\ t \in NotFinite =>
                /\ Double(o, t) = Quoted(t) \o <<":", ":", "FLOAT">>
                /\ Quoted(t) \in Seq(Chars)
<1>1. ASSUME IsNumericLiteral(t)  PROVE Double(o, t) = Number(o, t)
  <2>1. Numerically(t) /\ Len(t) \in 1..Len(t)  BY <1>1, NumericIsTame
  <2>2. Tame(t[Len(t)])  BY <2>1 DEF Numerically
  <2>3. t[Len(t)] \notin {"NaN", "inf"}  BY <2>2, BlankIs DEF Tame, Digits
  <2>   QED  BY <2>3 DEF Double, Last
<1>2. ASSUME t \in NotFinite
      PROVE  /\ Double(o, t) = Quoted(t) \o <<":", ":", "FLOAT">>
             /\ Quoted(t) \in Seq(Chars)
  <2> DEFINE a == <<"'">>
             b == <<":", ":", "FLOAT">>
             d == <<"'", ":", ":", "FLOAT">>
  <2>1. Last(t) \in {"NaN", "inf"} /\ \A i \in 1..Len(t) : t[i] \notin {"'", "\\"}
    BY <1>2 DEF NotFinite, Last
  <2>2. Quoted(t) = a \o t \o a  BY <2>1, PlainQuoted
  <2>3. Double(o, t) = a \o t \o d  BY <2>1 DEF Double
  <2>4. d = a \o b /\ a \in Seq(Chars) /\ b \in Seq(Chars)
    <3>1. "'" \in Chars /\ ":" \in Chars /\ "FLOAT" \in Chars  BY LettersAreChars DEF Letters
    <3>   QED  BY <3>1
  <2> HIDE DEF a, b, d
  <2>5. a \o t \o (a \o b) = (a \o t \o a) \o b  BY <2>4
  <2>   QED  BY <2>2, <2>3, <2>4, <2>5, Joined DEF b
<1>   QED  BY <1>1, <1>2

LEMMA CastReads ==
    ASSUME NEW s, s.mode = "code", NEW q, Reads(s, <<":", ":", "FLOAT">>, q)
    PROVE  Closed(q)
<1> DEFINE a == <<":">>
           b == <<"FLOAT">>
<1>1. a \in Seq(Chars) /\ b \in Seq(Chars) /\ a \o a \in Seq(Chars) /\ <<":", ":", "FLOAT">> = (a \o a) \o b
  <2>1. ":" \in Chars /\ "FLOAT" \in Chars  BY LettersAreChars DEF Letters
  <2>   QED  BY <2>1
<1> HIDE DEF a, b
<1>2. PICK n : Reads(s, a \o a, n) /\ Reads(n, b, q)  BY <1>1, ReadsSplit
<1>3. PICK m : Reads(s, a, m) /\ Reads(m, a, n)  BY <1>1, <1>2, ReadsSplit
<1>4. m = ReadChar(s, ":") /\ n = ReadChar(m, ":") /\ q = ReadChar(n, "FLOAT")
  BY <1>2, <1>3, ReadsOne DEF a, b
<1>5. Closed(m)  BY <1>4, WordReads
<1>6. Closed(n)  BY <1>4, <1>5, WordReads DEF Closed
<1>   QED  BY <1>4, <1>6, WordReads DEF Closed

\* The digits of the bytes, which hold neither quote nor backslash.
Digitized(t) == [i \in 1..Len(t) |-> Hex[t[i]]]

LEMMA BinaryIs ==
    ASSUME NEW t \in Seq(STRING), Range(t) \subseteq DOMAIN Hex
    PROVE  /\ Digitized(t) \in Seq(Chars) /\ Len(Digitized(t)) = Len(t)
           /\ Quoted(Digitized(t)) \in Seq(Chars)
           /\ Binary(t) = <<"X">> \o Quoted(Digitized(t))
<1> DEFINE h == Digitized(t)
           a == <<"'">>
           x == <<"X">>
<1>1. ASSUME NEW i \in 1..Len(t)  PROVE Hex[t[i]] \in Chars /\ Hex[t[i]] \notin {"'", "\\"}
  <2>1. t[i] \in STRING /\ t[i] \in DOMAIN Hex
    <3>1. i \in DOMAIN t  OBVIOUS
    <3>2. t[i] \in Range(t)  BY <3>1 DEF Range
    <3>   QED  BY <3>2
  <2>2. \A y \in DOMAIN Hex : Hex[y] \notin {"'", "\\"}  BY DEF Hex
  <2>   QED  BY <2>1, <2>2, LettersAreChars
<1>2. h \in [1..Len(t) -> Chars] /\ \A i \in 1..Len(t) : h[i] = Hex[t[i]]  BY <1>1 DEF Digitized
<1>3. h \in Seq(Chars) /\ Len(h) = Len(t)
  <2>1. Len(t) \in Nat  OBVIOUS
  <2> HIDE DEF h
  <2>   QED  BY <1>2, <2>1
<1>4. Binary(t) = <<"X", "'">> \o h \o a  BY DEF Binary, Digitized
<1> HIDE DEF h
<1>5. \A i \in 1..Len(h) : h[i] \notin {"'", "\\"}  BY <1>1, <1>2, <1>3
<1>6. Quoted(h) = a \o h \o a  BY <1>3, <1>5, PlainQuoted
<1>7. <<"X", "'">> = x \o a /\ a \in Seq(Chars) /\ x \in Seq(Chars)
  <2>1. "'" \in Chars /\ "X" \in Chars  BY LettersAreChars DEF Letters
  <2>   QED  BY <2>1
<1> HIDE DEF a, x
<1>8. (x \o a) \o h \o a = x \o (a \o h \o a)
  <2>1. (x \o a) \o h = x \o (a \o h)  BY <1>3, <1>7, CharsAssociate, Zenon
  <2>2. a \o h \in Seq(Chars)  BY <1>3, <1>7, Joined
  <2>3. (x \o (a \o h)) \o a = x \o ((a \o h) \o a)  BY <1>7, <2>2, CharsAssociate, Zenon
  <2>   QED  BY <2>1, <2>3
<1>9. a \o h \o a \in Seq(Chars)  BY <1>3, <1>7, Joined
<1>10. Binary(t) = x \o Quoted(h)  BY <1>4, <1>6, <1>7, <1>8
<1>   QED  BY <1>3, <1>6, <1>9, <1>10 DEF h, x

LEMMA BinaryReads ==
    ASSUME NEW t \in Seq(STRING), Range(t) \subseteq DOMAIN Hex,
           NEW s, s.mode = "code", NEW q, Reads(s, Binary(t), q)
    PROVE  Closed(q)
<1> DEFINE x == <<"X">>
           h == Digitized(t)
<1>1. h \in Seq(Chars) /\ Quoted(h) \in Seq(Chars) /\ Binary(t) = x \o Quoted(h)  BY BinaryIs
<1>2. x \in Seq(Chars)
  <2>1. "X" \in Chars  BY LettersAreChars DEF Letters
  <2>   QED  BY <2>1
<1> HIDE DEF x, h
<1>3. PICK m : Reads(s, x, m) /\ Reads(m, Quoted(h), q)  BY <1>1, <1>2, ReadsSplit
<1>4. m = ReadChar(s, "X")  BY <1>3, ReadsOne DEF x
<1>5. m.mode = "code"  BY <1>4, WordReads DEF Closed
<1>   QED  BY <1>1, <1>3, <1>5, QuotedReads

LEMMA LiteralReads ==
    ASSUME NEW o \in Seq(Chars), StateOf(o).mode = "code", NEW v, ValueOK(v), ~Refused(v),
           NEW q, Reads(StateOf(o), Literal(o, v), q)
    PROVE  Closed(q)
<1> DEFINE s == StateOf(o)
           t == v.text
<1>1. /\ t \in Seq(STRING) /\ t \in Seq(Chars)
      /\ v.type \in {"null", "bool", "int", "str", "lob"}
      /\ v.php \in {"null", "true", "false", "long", "double", "string", "stream", "unreadable"}
      /\ v.php = "long"   => IsNumericLiteral(t)
      /\ v.php = "double" => IsNumericLiteral(t) \/ t \in NotFinite
      /\ v.type = "lob"   => Range(t) \subseteq DOMAIN Hex
  BY TextIsChars DEF ValueOK, Types, Kinds
<1>2. Reads(s, Literal(o, v), q) /\ s.mode = "code"  OBVIOUS
<1>3. ASSUME NEW x \in {"NULL", "TRUE", "FALSE", "0", "1"}, Literal(o, v) = <<x>>  PROVE Closed(q)
  <2>1. q = ReadChar(s, x)  BY <1>2, <1>3, ReadsOne
  <2>   QED  BY <1>2, <2>1, WordReads
<1>4. ASSUME Literal(o, v) = Quoted(t)  PROVE Closed(q)  BY <1>1, <1>2, <1>4, QuotedReads
<1>5. ASSUME Literal(o, v) = Number(o, t), IsNumericLiteral(t)  PROVE Closed(q)
  BY <1>1, <1>2, <1>5, NumberReads
<1>6. ASSUME Literal(o, v) = Double(o, t), IsNumericLiteral(t) \/ t \in NotFinite  PROVE Closed(q)
  <2>1. CASE IsNumericLiteral(t)
    <3>1. Double(o, t) = Number(o, t)  BY <1>1, <2>1, DoubleIs
    <3>   QED  BY <1>5, <1>6, <2>1, <3>1
  <2>2. CASE t \in NotFinite
    <3> DEFINE b == <<":", ":", "FLOAT">>
    <3>1. Literal(o, v) = Quoted(t) \o b /\ Quoted(t) \in Seq(Chars)  BY <1>1, <1>6, <2>2, DoubleIs
    <3>2. b \in Seq(Chars)
      <4>1. ":" \in Chars /\ "FLOAT" \in Chars  BY LettersAreChars DEF Letters
      <4>   QED  BY <4>1
    <3> HIDE DEF b
    <3>3. PICK m : Reads(s, Quoted(t), m) /\ Reads(m, b, q)  BY <1>2, <3>1, <3>2, ReadsSplit
    <3>4. Closed(m)  BY <1>1, <1>2, <3>3, QuotedReads
    <3>   QED  BY <3>3, <3>4, CastReads DEF Closed, b
  <2>   QED  BY <1>6, <2>1, <2>2
<1>7. ASSUME Literal(o, v) = Binary(t), v.type = "lob"  PROVE Closed(q)
  BY <1>1, <1>2, <1>7, BinaryReads
<1> HIDE DEF s, t
<1>8. CASE IsNull(v)
  <2>1. Literal(o, v) = <<"NULL">>  BY <1>8 DEF Literal
  <2>   QED  BY <1>3, <2>1
<1>9. CASE ~IsNull(v) /\ v.type = "bool"
  <2>1. Literal(o, v) = <<"TRUE">> \/ Literal(o, v) = <<"FALSE">>  BY <1>9 DEF Literal
  <2>   QED  BY <1>3, <2>1
<1>10. CASE ~IsNull(v) /\ v.type = "lob"
  <2>1. Literal(o, v) = Binary(t)  BY <1>10 DEF Literal, t
  <2>   QED  BY <1>7, <1>10, <2>1
<1>11. CASE ~IsNull(v) /\ v.type = "str"
  <2>1. Literal(o, v) = Quoted(t)  BY <1>11 DEF Literal, t
  <2>   QED  BY <1>4, <2>1
<1>12. CASE ~IsNull(v) /\ v.type = "int"
  <2>1. \/ v.php = "long" /\ Literal(o, v) = Number(o, t)
        \/ Literal(o, v) = <<"1">>
        \/ Literal(o, v) = <<"0">>
        \/ v.php = "double" /\ Literal(o, v) = Double(o, t)
        \/ IsNumericLiteral(t) /\ Literal(o, v) = Number(o, t)
        \/ Literal(o, v) = Quoted(t)
    BY <1>12 DEF Literal, t
  <2>   QED  BY <1>1, <1>3, <1>4, <1>5, <1>6, <2>1
<1>13. v.type = "null" => IsNull(v)  BY DEF IsNull
<1>   QED  BY <1>1, <1>8, <1>9, <1>10, <1>11, <1>12, <1>13

-----------------------------------------------------------------------------
(* What is written, in step with what it was written from.                 *)

LEMMA QuestionReads ==
    ASSUME NEW s, s.mode = "code", NEW x, x = "?"
    PROVE  Closed(ReadChar(s, x))
<1>1. x \notin {"'", DoubleQuote, "-", "/", "*", "$"}  BY DoubleQuoteIs
<1>   QED  BY <1>1, PlainReads

LEMMA NameReads ==
    ASSUME NEW s, s.mode = "code", NEW x, IsName(x)
    PROVE  Closed(ReadChar(s, x))
<1>1. x \notin {"'", DoubleQuote, "-", "/", "*", "$"}  BY NameOrSymbol
<1>   QED  BY <1>1, PlainReads

\* After a marker nothing is open.
LEMMA MarkerCloses ==
    ASSUME NEW t, Len(t) \in Nat, NEW i \in 1..Len(t), CodeAt(t, i), Skip(t, i) = i
    PROVE  /\ t[i] = "?" => Closed(Reading(t)[i])
           /\ OpensNamed(t, i) => Closed(Reading(t)[NameEnd(t, i) - 1])
<1>1. ASSUME t[i] = "?"  PROVE Closed(Reading(t)[i])
  <2>1. Reading(t)[i] = ReadChar(Reading(t)[i - 1], t[i])  BY ReadingIs
  <2>2. Reading(t)[i - 1].mode = "code"  BY CodeAtIs
  <2>   QED  BY <1>1, <2>1, <2>2, QuestionReads
<1>2. ASSUME OpensNamed(t, i)  PROVE Closed(Reading(t)[NameEnd(t, i) - 1])
  <2> DEFINE f == NameEnd(t, i)
             k == f - 1
  <2>1. /\ f \in i + 1..Len(t) + 1
        /\ \A j \in i + 1..f - 1 : IsName(t[j])
        /\ f <= Len(t) => ~IsName(t[f])
    BY NameEnds
  <2>2. i < Len(t) /\ IsName(t[i + 1])
    <3> DEFINE x == t[i + 1]
    <3>1. i < Len(t) /\ (Alpha(x) \/ x = "_")  BY <1>2 DEF OpensNamed
    <3> HIDE DEF x
    <3>2. IsName(x)  BY <3>1, NameOrSymbol DEF IsName
    <3>   QED  BY <3>1, <3>2 DEF x
  <2>3. \A j \in i + 1..f : j <= Len(t) => CodeAt(t, j)  BY NameIsCode
  <2> HIDE DEF f
  <2>4. f # i + 1  BY <2>1, <2>2
  <2>5. k \in i + 1..f - 1 /\ k \in i + 1..f /\ k \in 1..Len(t)  BY <2>1, <2>4
  <2> HIDE DEF k
  <2>6. CodeAt(t, k) /\ IsName(t[k])  BY <2>1, <2>3, <2>5
  <2>7. Reading(t)[k] = ReadChar(Reading(t)[k - 1], t[k])  BY <2>5, ReadingIs
  <2>8. Reading(t)[k - 1].mode = "code"  BY <2>6, CodeAtIs
  <2>9. Closed(Reading(t)[k])  BY <2>6, <2>7, <2>8, NameReads
  <2>   QED  BY <2>9 DEF f, k
<1>   QED  BY <1>1, <1>2

InStep ==
    /\ StateOf(out).mode = Reading(text)[c - 1].mode
    /\ StateOf(out).first = Reading(text)[c - 1].first
    /\ At(text, c, "$") => StateOf(out).prev = Reading(text)[c - 1].prev

StepInv == result \in {"none", "ok"} /\ Spaced(text) => InStep

LEMMA StepInit ==
    ASSUME FormInv, Init
    PROVE  StepInv
<1>1. out = <<>> /\ c = 1 /\ 1 - 1 = 0 /\ Len(<<>>) = 0 /\ 0 \in Nat  BY DEF Init
<1>2. Reading(text)[0] = Start  BY TextLength, ReadingIs
<1>3. StateOf(<<>>) = Start
  <2>1. Reading(<<>>)[0] = Start  BY <1>1, ReadingIs
  <2>   QED  BY <1>1, <2>1 DEF StateOf
<1>   QED  BY <1>1, <1>2, <1>3 DEF StepInv, InStep

LEMMA StepCopy ==
    ASSUME FormInv, PlaceInv, InStep, Copy
    PROVE  InStep'
<1> DEFINE e == c'
           b == SubSeq(text, c, e - 1)
           s == StateOf(out)
           r == Reading(text)[c - 1]
<1>1. text' = text /\ out' = out \o b  BY DEF Copy
<1>2. e \in c + 1..Len(text) + 1 /\ c \in Nat \ {0} /\ Len(text) \in Nat  BY CopyMoves, TextLength
<1> HIDE DEF e
<1>3. text \in Seq(Chars) /\ out \in Seq(Chars)  BY TextIsChars DEF FormInv
<1>4. b \in Seq(Chars) /\ b # <<>> /\ b[1] = text[c]
  <2> DEFINE d == e - 1
  <2>1. c \in 1..Len(text) /\ d \in c..Len(text) /\ 1 \in 1..d - c + 1 /\ c - 1 + 1 = c /\ d - c + 1 > 0
    BY <1>2
  <2> HIDE DEF d
  <2>2. /\ SubSeq(text, c, d) \in Seq(Chars) /\ Len(SubSeq(text, c, d)) = d - c + 1
        /\ \A i \in 1..d - c + 1 : SubSeq(text, c, d)[i] = text[c - 1 + i]
    BY <1>3, <2>1, SubSeqIs
  <2>3. SubSeq(text, c, d)[1] = text[c]  BY <2>1, <2>2
  <2>4. SubSeq(text, c, d) # <<>>  BY <2>1, <2>2
  <2>   QED  BY <2>2, <2>3, <2>4 DEF d
<1>5. Reads(r, b, Reading(text)[e - 1])
  <2>1. c \in 1..Len(text) + 1 /\ e \in c..Len(text) + 1  BY <1>2
  <2>   QED  BY <1>3, <2>1, ReadsText
<1> HIDE DEF b
<1>6. Reads(s, b, StateOf(out \o b))  BY <1>3, <1>4, ReadsOn
<1>7. s.mode = r.mode /\ s.first = r.first /\ (text[c] = "$" => s.prev = r.prev)
  <2>1. At(text, c, "$") <=> text[c] = "$"
    <3>1. c <= Len(text)  BY <1>2
    <3>   QED  BY <3>1 DEF At
  <2>   QED  BY <2>1 DEF InStep
<1> HIDE DEF s, r
<1>8. Alike(s, r, b[1])  BY <1>4, <1>7 DEF Alike
<1>9. StateOf(out \o b) = Reading(text)[e - 1]  BY <1>4, <1>5, <1>6, <1>8, AlikeReads
<1>10. StateOf(out') = Reading(text)[c' - 1]  BY <1>1, <1>9 DEF e
<1>   QED  BY <1>1, <1>10 DEF InStep

LEMMA StepSubstitute ==
    ASSUME FormInv, PlaceInv, InStep, Spaced(text), Substitute
    PROVE  InStep'
<1> DEFINE v == Left(Value, drained)
           b == Literal(out, v)
<1>1. text' = text /\ out' = out \o b /\ ~Refused(v)
  BY ValueIsBound, LeftIsOK DEF Substitute
<1>2. c \in 1..Len(text) /\ Len(text) \in Nat  BY TextLength DEF Substitute, AtMarker, Scanning, FormInv
<1>3. CodeAt(text, c) /\ Skip(text, c) = c  BY <1>2 DEF PlaceInv, Substitute, AtMarker
<1>4. MarkerAt(text, c) /\ c \in MarkersOf(text)
  BY SubstituteMoves DEF Substitute, AtMarker, MarkerHere, MarkerAt
<1>5. StateOf(out).mode = "code"  BY <1>3, CodeAtIs DEF InStep
<1>6. ValueOK(v)  BY ValueIsBound, LeftIsOK DEF Substitute
<1> HIDE DEF v
<1>7. out \in Seq(Chars) /\ b \in Seq(Chars)  BY <1>6, LiteralIsOne DEF FormInv, Literally
<1>8. Closed(StateOf(out'))
  <2>1. Reads(StateOf(out), b, StateOf(out \o b))  BY <1>7, ReadsOn
  <2>2. Closed(StateOf(out \o b))  BY <1>1, <1>5, <1>6, <1>7, <2>1, LiteralReads
  <2> HIDE DEF b
  <2>   QED  BY <1>1, <2>2
<1>9. Closed(Reading(text)[c' - 1]) /\ ~At(text, c', "$")
  <2>1. ~At(text, IF text[c] = "?" THEN c + 1 ELSE NameEnd(text, c), "$")  BY <1>4 DEF Spaced
  <2>2. CASE text[c] = "?"
    <3> DEFINE d == c + 1
    <3>1. c' = d /\ d - 1 = c  BY <1>2, <2>2 DEF Substitute, Positional
    <3>2. Closed(Reading(text)[c])  BY <1>2, <1>3, <2>2, MarkerCloses
    <3>3. ~At(text, d, "$")  BY <2>1, <2>2
    <3> HIDE DEF d
    <3>4. Closed(Reading(text)[d - 1])  BY <3>1, <3>2
    <3>   QED  BY <3>1, <3>3, <3>4
  <2>3. CASE text[c] # "?"
    <3>1. c' = NameEnd(text, c)  BY <2>3 DEF Substitute, Positional
    <3>2. OpensNamed(text, c)  BY <1>4, <2>3 DEF MarkerAt
    <3>3. Closed(Reading(text)[NameEnd(text, c) - 1])  BY <1>2, <1>3, <3>2, MarkerCloses
    <3>   QED  BY <2>1, <2>3, <3>1, <3>3
  <2>   QED  BY <2>2, <2>3
<1>   QED  BY <1>1, <1>8, <1>9 DEF InStep, Closed

LEMMA StepNext ==
    ASSUME FormInv, PlaceInv, StepInv, Next
    PROVE  StepInv'
<1> SUFFICES ASSUME result' \in {"none", "ok"}, Spaced(text')  PROVE InStep'  BY DEF StepInv
<1>1. ASSUME NEW s \in {"HY093", "HY105", "HY001", "unset"}, Refuse(s)  PROVE FALSE
  BY <1>1 DEF Refuse
<1>2. CASE AsWritten
  <2>1. text' = text /\ out' = text /\ c' = Len(text) + 1  BY <1>2 DEF AsWritten
  <2>2. Len(text) + 1 - 1 = Len(text)  BY TextLength
  <2>3. StateOf(text) = Reading(text)[Len(text)]  BY DEF StateOf
  <2>4. StateOf(out') = Reading(text')[c' - 1]  BY <2>1, <2>2, <2>3
  <2>   QED  BY <2>4 DEF InStep
<1>3. CASE Copy
  <2>1. text' = text /\ result' = result  BY <1>3 DEF Copy
  <2>   QED  BY <1>3, <2>1, StepCopy DEF StepInv
<1>4. CASE Substitute
  <2>1. text' = text /\ result' = result  BY <1>4 DEF Substitute
  <2>   QED  BY <1>4, <2>1, StepSubstitute DEF StepInv
<1>5. CASE NoSuchParameter  BY <1>1, <1>5 DEF NoSuchParameter
<1>6. CASE UnreadableValue  BY <1>1, <1>6 DEF UnreadableValue
<1>7. CASE CopyFails  BY <1>1, <1>7 DEF CopyFails
<1>8. CASE LiteralFails  BY <1>1, <1>8 DEF LiteralFails
<1>9. CASE Finish
  <2>1. CountsMatch  BY <1>1, <1>9 DEF Finish
  <2>2. UNCHANGED <<text, c, out>> /\ result = "none"  BY <1>9, <2>1 DEF Finish
  <2>   QED  BY <2>2 DEF StepInv, InStep
<1>   QED  BY <1>2, <1>3, <1>4, <1>5, <1>6, <1>7, <1>8, <1>9 DEF Next

(***************************************************************************)
(* For every text and binding: at each turn of the loop what is written    *)
(* reads on as what was read of the text does.  No literal of append_value *)
(* opens a comment with a minus sign before it, closes a quote or leaves   *)
(* one open.                                                               *)
(***************************************************************************)
THEOREM LiteralsStayShut == Spec => []ReadsTheSame
<1> DEFINE Inv == FormInv /\ PlaceInv /\ StepInv
<1>1. Init => Inv  BY FormInit, StepInit
<1>2. Inv /\ [Next]_vars => Inv'
  <2> SUFFICES ASSUME Inv, [Next]_vars  PROVE Inv'  OBVIOUS
  <2>1. CASE Next  BY <2>1, FormNext, StepNext
  <2>2. CASE UNCHANGED vars
    BY <2>2 DEF vars, FormInv, PlaceInv, StepInv, InStep, Written, NothingBound
  <2>   QED  BY <2>1, <2>2
<1>3. Inv => ReadsTheSame  BY DEF StepInv, InStep, ReadsTheSame, ModeAfter, StateOf
<1>   QED  BY <1>1, <1>2, <1>3, PTL DEF Spec

-----------------------------------------------------------------------------
(* What a literal in quotes stands for, read back.                         *)

RestStep(t, i, one, two) ==
    IF i > Len(t) THEN <<"broken">>
    ELSE IF i = Len(t) THEN IF t[i] = "'" THEN <<>> ELSE <<"broken">>
    ELSE IF t[i] = "\\" \/ Pair(t, i, "'", "'") THEN <<t[i + 1]>> \o two
    ELSE IF t[i] = "'" THEN <<"broken">>
    ELSE <<t[i]>> \o one

LEMMA RestStepLocal ==
    ASSUME NEW t, NEW i \in Int, Len(t) \in Nat, NEW x, NEW y, NEW u, NEW v,
           i <= Len(t) => x = u, i < Len(t) => y = v
    PROVE  RestStep(t, i, x, y) = RestStep(t, i, u, v)
<1>1. CASE i > Len(t)  BY <1>1 DEF RestStep
<1>2. CASE i = Len(t)
  <2>1. ~(i > Len(t))  BY <1>2
  <2>   QED  BY <1>2, <2>1 DEF RestStep
<1>3. CASE i < Len(t)
  <2>1. x = u /\ y = v  BY <1>3
  <2>   QED  BY <2>1
<1>   QED  BY <1>1, <1>2, <1>3

RestIs(g, t) == g = [i \in 2..Len(t) + 1 |-> RestStep(t, i, g[i + 1], g[i + 2])]

LEMMA RestExists ==
    ASSUME NEW t, Len(t) \in Nat \ {0}
    PROVE  \E g : RestIs(g, t)
<1> DEFINE N == Len(t)
           T == {k \in Nat : \E g : g = [i \in N + 1 - k..N + 1 |-> RestStep(t, i, g[i + 1], g[i + 2])]}
<1> HIDE DEF N
<1>0. N \in Nat \ {0}  BY DEF N
<1>1. 0 \in T
  <2> DEFINE g == [i \in N + 1 - 0..N + 1 |-> <<"broken">>]
  <2>1. ASSUME NEW i \in N + 1 - 0..N + 1  PROVE <<"broken">> = RestStep(t, i, g[i + 1], g[i + 2])
    <3>1. i > Len(t)  BY <1>0 DEF N
    <3> HIDE DEF g
    <3>   QED  BY <3>1 DEF RestStep
  <2>2. g = [i \in N + 1 - 0..N + 1 |-> RestStep(t, i, g[i + 1], g[i + 2])]  BY <2>1
  <2> HIDE DEF g
  <2>   QED  BY <2>2
<1>2. ASSUME NEW k \in Nat, k \in T  PROVE k + 1 \in T
  <2>1. PICK g : g = [i \in N + 1 - k..N + 1 |-> RestStep(t, i, g[i + 1], g[i + 2])]  BY <1>2
  <2> DEFINE m == N + 1 - (k + 1)
             h == [i \in m..N + 1 |-> IF i = m THEN RestStep(t, i, g[i + 1], g[i + 2]) ELSE g[i]]
  <2>2. ASSUME NEW i \in m..N + 1
        PROVE  h[i] = RestStep(t, i, h[i + 1], h[i + 2])
    <3>1. i <= N => i + 1 \in m..N + 1 /\ i + 1 # m  BY <1>0
    <3>2. i < N => i + 2 \in m..N + 1 /\ i + 2 # m  BY <1>0
    <3>3. i <= N => h[i + 1] = g[i + 1]  BY <3>1
    <3>4. i < N => h[i + 2] = g[i + 2]  BY <3>2
    <3>5. RestStep(t, i, h[i + 1], h[i + 2]) = RestStep(t, i, g[i + 1], g[i + 2])
      <4> HIDE DEF h
      <4> QED  BY <1>0, <3>3, <3>4, RestStepLocal DEF N
    <3>6. CASE i = m  BY <3>5, <3>6
    <3>7. CASE i # m
      <4>1. i \in N + 1 - k..N + 1  BY <3>7, <1>0
      <4>2. g[i] = RestStep(t, i, g[i + 1], g[i + 2])  BY <2>1, <4>1
      <4>3. h[i] = g[i]  BY <3>7
      <4>   QED  BY <3>5, <4>2, <4>3
    <3>   QED  BY <3>6, <3>7
  <2>3. h = [i \in m..N + 1 |-> RestStep(t, i, h[i + 1], h[i + 2])]  BY <2>2
  <2> HIDE DEF h
  <2>4. k + 1 \in Nat  OBVIOUS
  <2>   QED  BY <2>3, <2>4
<1> HIDE DEF T
<1>3. Nat \subseteq T  BY <1>1, <1>2, SetInduction
<1>4. N - 1 \in T  BY <1>0, <1>3
<1>5. PICK g : g = [i \in N + 1 - (N - 1)..N + 1 |-> RestStep(t, i, g[i + 1], g[i + 2])]
  BY <1>4 DEF T
<1>6. N + 1 - (N - 1) = 2  BY <1>0
<1>   QED  BY <1>5, <1>6 DEF N, RestIs

LEMMA UnquotedIs ==
    ASSUME NEW t, Len(t) \in Nat \ {0}
    PROVE  \E g : /\ Unquoted(t) = g[2]
                  /\ \A i \in 2..Len(t) + 1 : g[i] = RestStep(t, i, g[i + 1], g[i + 2])
<1> DEFINE rest == CHOOSE g : g = [i \in 2..Len(t) + 1 |->
                     IF i > Len(t) THEN <<"broken">>
                     ELSE IF i = Len(t) THEN IF t[i] = "'" THEN <<>> ELSE <<"broken">>
                     ELSE IF t[i] = "\\" \/ Pair(t, i, "'", "'") THEN <<t[i + 1]>> \o g[i + 2]
                     ELSE IF t[i] = "'" THEN <<"broken">>
                     ELSE <<t[i]>> \o g[i + 1]]
<1>1. Unquoted(t) = rest[2]  BY DEF Unquoted
<1>2. rest = CHOOSE g : RestIs(g, t)  BY DEF RestStep, RestIs
<1> HIDE DEF rest
<1>3. RestIs(rest, t)  BY <1>2, RestExists
<1>4. \A i \in 2..Len(t) + 1 : rest[i] = RestStep(t, i, rest[i + 1], rest[i + 2])  BY <1>3 DEF RestIs
<1>   QED  BY <1>1, <1>4

\* A character of the text, as it was escaped, is read back as itself.
LEMMA RestEscaped ==
    ASSUME NEW a \in Seq(Chars), NEW x \in Chars, NEW z \in Seq(Chars), Len(a) > 0, Len(z) > 0, NEW g,
           \A i \in 2..Len(a \o (Escaped(x) \o z)) + 1 :
             g[i] = RestStep(a \o (Escaped(x) \o z), i, g[i + 1], g[i + 2])
    PROVE  g[Len(a) + 1] = <<x>> \o g[Len(a) + 1 + Len(Escaped(x))]
<1> DEFINE e == Escaped(x)
           q == a \o (e \o z)
           p == Len(a) + 1
<1>1. e \in Seq(Chars) /\ Len(e) \in {1, 2} /\ e[1] = x  BY DEF Escaped
<1>2. x \in {"'", "\\"} => Len(e) = 2 /\ e[2] = x  BY DEF Escaped
<1>3. x \notin {"'", "\\"} => Len(e) = 1  BY DEF Escaped
<1> HIDE DEF e
<1>4. /\ Len(q) = Len(a) + Len(e) + Len(z) /\ q[p] = x
      /\ Len(e) = 2 => q[p + 1] = e[2]
  BY <1>1
<1>5. \A i \in 2..Len(q) + 1 : g[i] = RestStep(q, i, g[i + 1], g[i + 2])  BY DEF e
<1> HIDE DEF q
<1>6. p \in Nat /\ p >= 2 /\ Len(q) \in Nat /\ p < Len(q) /\ p \in 2..Len(q) + 1  BY <1>1, <1>4
<1>7. g[p] = RestStep(q, p, g[p + 1], g[p + 2])  BY <1>5, <1>6
<1>8. p + 1 <= Len(q) /\ p <= Len(q) /\ ~(p > Len(q)) /\ p # Len(q)  BY <1>6
<1>   HIDE DEF p
<1>9. CASE x \in {"'", "\\"}
  <2>1. q[p] = "\\" \/ Pair(q, p, "'", "'")
    <3>1. q[p] = x /\ q[p + 1] = x  BY <1>2, <1>4, <1>9
    <3>   QED  BY <1>8, <1>9, <3>1 DEF Pair, At
  <2>2. g[p] = <<q[p + 1]>> \o g[p + 2]  BY <1>7, <1>8, <2>1 DEF RestStep
  <2>3. g[p] = <<x>> \o g[p + 2] /\ Len(e) = 2  BY <1>2, <1>4, <1>9, <2>2
  <2>   QED  BY <2>3 DEF p, e
<1>10. CASE x \notin {"'", "\\"}
  <2>1. ~(q[p] = "\\" \/ Pair(q, p, "'", "'")) /\ q[p] # "'"  BY <1>4, <1>10 DEF Pair, At
  <2>2. g[p] = <<q[p]>> \o g[p + 1]  BY <1>7, <1>8, <2>1 DEF RestStep
  <2>3. g[p] = <<x>> \o g[p + 1] /\ Len(e) = 1  BY <1>3, <1>4, <1>10, <2>2
  <2>   QED  BY <2>3 DEF p, e
<1>   QED  BY <1>9, <1>10

\* y is what t has after its first i characters.
After(t, i, y) ==
    y \in Seq(Chars) /\ Len(y) = Len(t) - i /\ \A k \in 1..Len(t) - i : y[k] = t[i + k]

LEMMA AfterOneLess ==
    ASSUME NEW t \in Seq(Chars), NEW i \in 0..Len(t) - 1, NEW y, After(t, i + 1, y)
    PROVE  After(t, i, <<t[i + 1]>> \o y)
<1> DEFINE x == t[i + 1]
           n == Len(t)
           z == <<x>> \o y
<1>1. x \in Chars /\ n \in Nat /\ i + 1 \in 1..n  OBVIOUS
<1>2. /\ y \in Seq(Chars) /\ Len(y) = n - (i + 1)
      /\ \A k \in 1..n - (i + 1) : y[k] = t[i + 1 + k]
  BY DEF After
<1>3. z \in Seq(Chars) /\ Len(z) = n - i /\ z[1] = x  BY <1>1, <1>2
<1>4. ASSUME NEW k \in 2..n - i  PROVE z[k] = t[i + k]
  <2>1. k - 1 \in 1..n - (i + 1) /\ i + 1 + (k - 1) = i + k  BY <1>1
  <2>2. z[k] = y[k - 1]  BY <1>1, <1>2, <2>1
  <2>   QED  BY <1>2, <2>1, <2>2
<1> HIDE DEF z
<1>5. ASSUME NEW k \in 1..n - i  PROVE z[k] = t[i + k]
  <2>1. CASE k = 1  BY <1>3, <2>1
  <2>2. CASE k # 1
    <3>1. k \in 2..n - i  BY <1>1, <2>2
    <3>   QED  BY <1>4, <3>1
  <2>   QED  BY <2>1, <2>2
<1>6. After(t, i, z)  BY <1>3, <1>5 DEF After
<1>   QED  BY <1>6 DEF z

Enclosed(o, y) == (o \o y) \o o

LEMMA EnclosedIs ==
    ASSUME NEW S, NEW o \in Seq(S), Len(o) = 1, NEW y \in Seq(S)
    PROVE  /\ Enclosed(o, y) \in Seq(S) /\ Len(y) \in Nat
           /\ Len(Enclosed(o, y)) = Len(y) + 2
           /\ Enclosed(o, y)[1] = o[1] /\ Enclosed(o, y)[Len(y) + 2] = o[1]
<1> DEFINE n == Len(y)
           x == o \o y
           z == Enclosed(o, y)
<1>1. n \in Nat /\ Len(x) = n + 1 /\ x \in Seq(S) /\ x[1] = o[1]
  <2>1. Len(y) \in Nat  OBVIOUS
  <2>2. x \in Seq(S) /\ Len(x) = Len(o) + Len(y)  BY Joined
  <2>3. 1 \in 1..Len(o) + Len(y) /\ 1 <= Len(o)  BY <2>1
  <2>4. x[1] = o[1]  BY <2>3, ConcatProperties
  <2> HIDE DEF x
  <2>   QED  BY <2>1, <2>2, <2>4
<1>0. z = x \o o  BY DEF Enclosed
<1> HIDE DEF x, n, z
<1>2. z \in Seq(S) /\ Len(z) = n + 2
  <2>1. z \in Seq(S) /\ Len(z) = Len(x) + Len(o)  BY <1>0, <1>1, Joined
  <2>   QED  BY <1>1, <2>1
<1>3. z[1] = x[1] /\ z[n + 1 + 1] = o[1]
  <2> DEFINE m == n + 1 + 1
  <2>1. 1 \in 1..Len(x) + Len(o) /\ 1 <= Len(x)  BY <1>1
  <2>2. m \in 1..Len(x) + Len(o) /\ ~(m <= Len(x)) /\ m - Len(x) = 1  BY <1>1
  <2> HIDE DEF m
  <2>3. \A i \in 1..Len(x) + Len(o) : z[i] = IF i <= Len(x) THEN x[i] ELSE o[i - Len(x)]
    BY <1>0, <1>1, ConcatProperties
  <2>4. z[1] = x[1]  BY <2>1, <2>3
  <2>5. z[m] = o[1]  BY <2>2, <2>3
  <2>   QED  BY <2>4, <2>5 DEF m
<1>4. n + 1 + 1 = n + 2  BY <1>1
<1>5. z[1] = o[1] /\ z[n + 2] = o[1]  BY <1>1, <1>3, <1>4
<1>   QED  BY <1>1, <1>2, <1>5 DEF n, z

\* What append_string_literal writes stands for the text it was given.
LEMMA UnquotedQuoted ==
    ASSUME NEW t \in Seq(Chars)
    PROVE  Quoted(t) \in Seq(Chars) /\ Quoted(t)[1] = "'" /\ Unquoted(Quoted(t)) = t
<1> DEFINE o == <<"'">>
           q == Quoted(t)
           n == Len(t)
<1>1. o \in Seq(Chars) /\ Len(o) = 1 /\ o[1] = "'" /\ q = (o \o Inside(t)) \o o  BY QuotesAreChars, QuotedIs
<1>2. n \in Nat  OBVIOUS
<1>3. PICK f : /\ f[0] = <<>> /\ Inside(t) = f[n]
               /\ \A i \in 1..n : f[i] = f[i - 1] \o Escaped(t[i])
               /\ \A i \in 0..n : f[i] \in Seq(Chars)  BY InsideIs
<1>4. f[n] \in Seq(Chars) /\ n \in 0..n  BY <1>2, <1>3
<1> HIDE DEF o, q, n
<1>5. q = (o \o f[n]) \o o  BY <1>1, <1>3
<1>6. /\ q \in Seq(Chars) /\ Len(q) \in Nat \ {0} /\ q[1] = "'"
      /\ Len(f[n]) \in Nat /\ Len(q) = Len(f[n]) + 2 /\ q[Len(f[n]) + 2] = "'"
  <2> DEFINE y == f[n]
  <2>1. y \in Seq(Chars) /\ q = Enclosed(o, y)  BY <1>4, <1>5 DEF Enclosed
  <2> HIDE DEF y
  <2>2. /\ q \in Seq(Chars) /\ Len(y) \in Nat /\ Len(q) = Len(y) + 2 /\ q[1] = o[1]
        /\ q[Len(y) + 2] = o[1]
    <3>1. /\ Enclosed(o, y) \in Seq(Chars) /\ Len(y) \in Nat /\ Len(Enclosed(o, y)) = Len(y) + 2
          /\ Enclosed(o, y)[1] = o[1] /\ Enclosed(o, y)[Len(y) + 2] = o[1]
      BY <1>1, <2>1, EnclosedIs
    <3>   QED  BY <2>1, <3>1, Zenon
  <2>   QED  BY <1>1, <2>2 DEF y
<1>7. PICK g : /\ Unquoted(q) = g[2]
               /\ \A i \in 2..Len(q) + 1 : g[i] = RestStep(q, i, g[i + 1], g[i + 2])  BY <1>6, UnquotedIs
<1> DEFINE Split(i, r) == r \in Seq(Chars) /\ q = (o \o f[i]) \o (r \o o)
           T == {i \in Int : After(t, i, g[Len(f[i]) + 2]) /\ \E r : Split(i, r)}
<1>8. ASSUME NEW i \in 0..n, \A j \in i + 1..n : j \in T  PROVE i \in T
  <2>1. CASE i = n
    <3>1. Split(n, <<>>)
      <4>1. <<>> \in Seq(Chars) /\ <<>> \o o = o  BY <1>1
      <4>   QED  BY <1>5, <4>1
    <3> DEFINE l == Len(f[n]) + 2
    <3>2. l \in 2..Len(q) + 1 /\ l = Len(q) /\ q[l] = "'"  BY <1>6
    <3>3. g[l] = RestStep(q, l, g[l + 1], g[l + 2])  BY <1>7, <3>2
    <3>4. ~(l > Len(q))  BY <1>6, <3>2
    <3> HIDE DEF l
    <3>5. g[l] = <<>>  BY <3>2, <3>3, <3>4 DEF RestStep
    <3>6. After(t, n, <<>>)
      <4>1. <<>> \in Seq(Chars) /\ Len(<<>>) = n - n /\ 1..n - n = {}  BY <1>2
      <4>   QED  BY <4>1 DEF After, n
    <3>7. n \in Int /\ After(t, n, g[Len(f[n]) + 2]) /\ \E r : Split(n, r)
      <4>1. g[Len(f[n]) + 2] = <<>>  BY <3>5 DEF l
      <4> HIDE DEF Split
      <4>   QED  BY <1>2, <3>1, <3>6, <4>1
    <3>   QED  BY <2>1, <3>7
  <2>2. CASE i # n
    <3> DEFINE x == t[i + 1]
               d == f[i]
               e == Escaped(x)
               a == o \o d
    <3>1. i + 1 \in 1..n /\ i + 1 \in i + 1..n /\ i + 1 - 1 = i /\ i \in 0..n - 1 /\ i + 1 \in 0..n
      BY <1>2, <2>2
    <3>2. x \in Chars
      <4>1. i + 1 \in 1..Len(t)  BY <3>1 DEF n
      <4>   QED  BY <4>1
    <3>3. d \in Seq(Chars) /\ f[i + 1] = d \o e
      <4>1. d \in Seq(Chars)  BY <1>3
      <4>2. \A j \in 1..n : f[j] = f[j - 1] \o Escaped(t[j])  BY <1>3
      <4> DEFINE j == i + 1
      <4>3. j \in 1..n /\ j - 1 = i  BY <3>1
      <4> HIDE DEF j
      <4>4. f[j] = f[i] \o Escaped(t[j])  BY <4>2, <4>3
      <4>   QED  BY <4>1, <4>4 DEF j
    <3>4. i + 1 \in T  BY <1>8, <3>1
    <3>5. PICK r : Split(i + 1, r)  BY <3>4
    <3>6. After(t, i + 1, g[Len(f[i + 1]) + 2])  BY <3>4
    <3> HIDE DEF d, x, T
    <3>7. e \in Seq(Chars) /\ Len(e) \in Nat  BY <3>2, Singles DEF Escaped
    <3> DEFINE z == r \o o
    <3>8. z \in Seq(Chars) /\ Len(z) > 0 /\ r \in Seq(Chars)
      <4>1. r \in Seq(Chars) /\ Len(r) \in Nat  BY <3>5
      <4>2. z \in Seq(Chars) /\ Len(z) = Len(r) + Len(o)  BY <1>1, <4>1, Joined
      <4>   QED  BY <1>1, <4>1, <4>2
    <3>9. a \in Seq(Chars) /\ Len(a) = Len(d) + 1 /\ Len(a) > 0 /\ Len(d) \in Nat
      <4>1. Len(d) \in Nat  BY <3>3
      <4>2. a \in Seq(Chars) /\ Len(a) = Len(o) + Len(d)  BY <1>1, <3>3, Joined
      <4>   QED  BY <1>1, <4>1, <4>2
    <3>10. q = a \o (e \o z) /\ Split(i, e \o r)
      <4>1. q = (o \o (d \o e)) \o (r \o o)  BY <3>3, <3>5
      <4> HIDE DEF e
      <4>2. o \o (d \o e) = (o \o d) \o e  BY <1>1, <3>3, <3>7, CharsAssociate, Zenon
      <4>3. (o \o d) \o e \o (r \o o) = (o \o d) \o (e \o (r \o o))
        <5> HIDE DEF a, z
        <5>0. a \in Seq(Chars) /\ e \in Seq(Chars) /\ z \in Seq(Chars)  BY <3>7, <3>8, <3>9
        <5>1. (a \o e) \o z = a \o (e \o z)  BY <5>0, CharsAssociate, Zenon
        <5>   QED  BY <5>1, Zenon DEF a, z
      <4>4. e \o (r \o o) = (e \o r) \o o  BY <1>1, <3>7, <3>8, CharsAssociate, Zenon
      <4>5. e \o r \in Seq(Chars)  BY <3>7, <3>8, Joined
      <4>6. q = (o \o d) \o (e \o (r \o o))  BY <4>1, <4>2, <4>3
      <4>7. q = (o \o d) \o ((e \o r) \o o)  BY <4>4, <4>6
      <4>   QED  BY <4>5, <4>6, <4>7 DEF d
    <3>11. \A j \in 2..Len(a \o (e \o z)) + 1 : g[j] = RestStep(a \o (e \o z), j, g[j + 1], g[j + 2])
      BY <1>7, <3>10
    <3> HIDE DEF a, z
    <3>12. g[Len(a) + 1] = <<x>> \o g[Len(a) + 1 + Len(e)]
      <4>1. \A j \in 2..Len(a \o (Escaped(x) \o z)) + 1 :
              g[j] = RestStep(a \o (Escaped(x) \o z), j, g[j + 1], g[j + 2])
        BY <3>11
      <4>2. a \in Seq(Chars) /\ z \in Seq(Chars) /\ Len(a) > 0 /\ Len(z) > 0  BY <3>8, <3>9
      <4>   QED  BY <3>2, <4>1, <4>2, RestEscaped, Zenon
    <3>13. Len(a) + 1 = Len(d) + 2 /\ Len(a) + 1 + Len(e) = Len(f[i + 1]) + 2
      <4>1. Len(f[i + 1]) = Len(d) + Len(e)
        <5> HIDE DEF e
        <5>   QED  BY <3>3, <3>7, Joined
      <4> HIDE DEF e
      <4>   QED  BY <3>7, <3>9, <4>1
    <3>14. g[Len(d) + 2] = <<x>> \o g[Len(f[i + 1]) + 2]  BY <3>12, <3>13
    <3>15. After(t, i, <<t[i + 1]>> \o g[Len(f[i + 1]) + 2])
      <4>1. i \in 0..Len(t) - 1  BY <3>1 DEF n
      <4>   QED  BY <3>6, <4>1, AfterOneLess
    <3>16. After(t, i, g[Len(f[i]) + 2])  BY <3>14, <3>15 DEF d, x
    <3>17. \E s : Split(i, s)  BY <3>10
    <3> HIDE DEF Split
    <3>   QED  BY <3>1, <3>16, <3>17 DEF T
  <2>   QED  BY <2>1, <2>2
<1> HIDE DEF T
<1>9. 0 \in Int /\ n \in Int  BY <1>2
<1>10. 0..n \subseteq T  BY <1>8, <1>9, DownFrom
<1>11. 0 \in T  BY <1>2, <1>10
<1>12. After(t, 0, g[Len(<<>>) + 2])  BY <1>3, <1>11 DEF T
<1>13. Len(<<>>) + 2 = 2  OBVIOUS
<1>14. After(t, 0, Unquoted(q))  BY <1>7, <1>12, <1>13
<1>15. Unquoted(q) = t
  <2> DEFINE y == Unquoted(q)
  <2> HIDE DEF y
  <2>1. y \in Seq(Chars) /\ Len(y) = Len(t) - 0 /\ \A k \in 1..Len(t) - 0 : y[k] = t[0 + k]
    BY <1>14 DEF y, After
  <2>2. Len(y) = Len(t) /\ \A k \in 1..Len(t) : y[k] = t[k]  BY <2>1
  <2>3. y = t  BY <2>1, <2>2
  <2>   QED  BY <2>3 DEF y
<1>   QED  BY <1>6, <1>15 DEF q

-----------------------------------------------------------------------------
(* Each value as its literal.                                              *)

\* A blank in front is trimmed off.
LEMMA TrimmedBlank ==
    ASSUME NEW S, NEW t \in Seq(S), NEW u \in Seq(S), Len(u) = Len(t) + 1, u[1] = Blank,
           \A i \in 1..Len(t) : u[i + 1] = t[i]
    PROVE  Trimmed(u) = Trimmed(t)
<1> DEFINE n == Len(t)
<1>1. n \in Nat /\ Len(u) = n + 1 /\ \A i \in 1..n : u[i + 1] = t[i]  OBVIOUS
<1>2. \A i \in 2..n + 1 : i - 1 \in 1..n /\ u[i] = t[i - 1]
  <2>1. ASSUME NEW i \in 2..n + 1  PROVE i - 1 \in 1..n /\ u[i] = t[i - 1]
    <3> DEFINE k == i - 1
    <3>1. k \in 1..n /\ k + 1 = i  BY <1>1
    <3> HIDE DEF k, n
    <3>2. u[k + 1] = t[k]  BY <1>1, <3>1
    <3>   QED  BY <3>1, <3>2 DEF k
  <2>   QED  BY <2>1
<1>3. ASSUME NEW a, NEW b, Solid(u, a, b)
      PROVE  Solid(t, a - 1, b - 1) /\ SubSeq(u, a, b) = SubSeq(t, a - 1, b - 1)
  <2>1. /\ a \in 1..n + 1 /\ b \in a..n + 1 /\ u[a] # Blank /\ u[b] # Blank
        /\ \A i \in 1..n + 1 : i < a \/ i > b => u[i] = Blank
    BY <1>1, <1>3 DEF Solid
  <2>2. a \in 2..n + 1 /\ b \in 2..n + 1  BY <1>1, <2>1
  <2> DEFINE x == a - 1
             y == b - 1
  <2>3. x \in 1..n /\ y \in x..n  BY <1>1, <2>1, <2>2
  <2>4. t[x] # Blank /\ t[y] # Blank  BY <1>2, <2>1, <2>2
  <2>5. ASSUME NEW i \in 1..n, i < x \/ i > y  PROVE t[i] = Blank
    <3>1. i + 1 \in 1..n + 1 /\ (i + 1 < a \/ i + 1 > b)  BY <1>1, <2>2, <2>5
    <3>2. u[i + 1] = Blank  BY <2>1, <3>1
    <3>   QED  BY <1>1, <3>2
  <2>6. SubSeq(u, a, b) = SubSeq(t, x, y)
    <3> DEFINE p == SubSeq(u, a, b)
               q == SubSeq(t, x, y)
               m == y - x + 1
    <3>1. a \in 1..Len(u) /\ b \in a..Len(u) /\ b - a + 1 = m  BY <1>1, <2>1, <2>2
    <3>2. p \in Seq(S) /\ Len(p) = m /\ \A i \in 1..m : p[i] = u[a - 1 + i]  BY <3>1, SubSeqIs
    <3>3. x \in 1..Len(t) /\ y \in x..Len(t)  BY <2>3
    <3> HIDE DEF x, y
    <3>4. q \in Seq(S) /\ Len(q) = m /\ \A i \in 1..m : q[i] = t[x - 1 + i]  BY <3>3, SubSeqIs
    <3>5. ASSUME NEW i \in 1..m  PROVE p[i] = q[i]
      <4> DEFINE k == x - 1 + i
      <4>1. k \in 1..n /\ a - 1 + i = k + 1  BY <1>1, <2>2, <2>3 DEF x
      <4> HIDE DEF k, p, q, m, n
      <4>2. u[k + 1] = t[k]  BY <1>1, <4>1
      <4>3. q[i] = t[k]  BY <3>4 DEF k
      <4>4. p[i] = u[k + 1]  BY <3>2, <4>1
      <4>   QED  BY <4>2, <4>3, <4>4
    <3> HIDE DEF p, q, m
    <3>6. p = q  BY <3>2, <3>4, <3>5
    <3>   QED  BY <3>6 DEF p, q
  <2>7. Solid(t, x, y)  BY <2>3, <2>4, <2>5 DEF Solid
  <2>   QED  BY <2>6, <2>7
<1>4. ASSUME NEW a, NEW b, Solid(t, a, b), NEW x, NEW y, Solid(t, x, y)
      PROVE  a = x /\ b = y
  <2>1. a \in 1..n /\ b \in a..n /\ x \in 1..n /\ y \in x..n  BY <1>4 DEF Solid
  <2>2. ~(a < x) /\ ~(x < a) /\ ~(b > y) /\ ~(y > b)
    <3>0. b \in 1..n /\ y \in 1..n  BY <1>1, <2>1
    <3>1. ~(a < x) /\ ~(x < a)  BY <1>4, <2>1 DEF Solid
    <3>2. ~(b > y) /\ ~(y > b)  BY <1>4, <3>0 DEF Solid
    <3>   QED  BY <3>1, <3>2
  <2>   QED  BY <1>1, <2>1, <2>2
<1>5. ASSUME \A i \in 1..n : t[i] = Blank  PROVE \A i \in 1..n + 1 : u[i] = Blank
  <2>1. ASSUME NEW i \in 1..n + 1  PROVE u[i] = Blank
    <3>1. CASE i = 1  BY <3>1
    <3>2. CASE i # 1
      <4>1. i \in 2..n + 1  BY <1>1, <3>2
      <4>   QED  BY <1>2, <1>5, <4>1
    <3>   QED  BY <3>1, <3>2
  <2>   QED  BY <2>1
<1>6. CASE Trimmed(u) = <<>> /\ \A i \in 1..Len(u) : u[i] = Blank
  <2>1. \A a, b : ~Solid(t, a, b)
    <3> SUFFICES ASSUME NEW a, NEW b, Solid(t, a, b)  PROVE FALSE  OBVIOUS
    <3>1. a \in 1..n /\ t[a] # Blank  BY DEF Solid
    <3>2. a + 1 \in 1..Len(u) /\ u[a + 1] = t[a]  BY <1>1, <3>1
    <3>   QED  BY <1>6, <3>1, <3>2
  <2>   QED  BY <1>6, <2>1, TrimmedIs
<1>7. ASSUME NEW a, NEW b, Solid(u, a, b), Trimmed(u) = SubSeq(u, a, b)
      PROVE  Trimmed(u) = Trimmed(t)
  <2>1. Solid(t, a - 1, b - 1) /\ Trimmed(u) = SubSeq(t, a - 1, b - 1)  BY <1>3, <1>7
  <2>2. ~(\A i \in 1..Len(t) : t[i] = Blank)  BY <2>1 DEF Solid
  <2>3. PICK x, y : Solid(t, x, y) /\ Trimmed(t) = SubSeq(t, x, y)  BY <2>2, TrimmedIs
  <2>4. a - 1 = x /\ b - 1 = y  BY <1>4, <2>1, <2>3
  <2>   QED  BY <2>1, <2>3, <2>4
<1>   QED  BY <1>6, <1>7, TrimmedIs

LEMMA NumberTrimmed ==
    ASSUME NEW o, NEW t \in Seq(Chars)
    PROVE  Trimmed(Number(o, t)) = Trimmed(t)
<1>1. CASE Number(o, t) = t  BY <1>1
<1>2. CASE Number(o, t) = <<Blank>> \o t
  <2> DEFINE e == <<Blank>>
             u == e \o t
  <2>1. e \in Seq(Chars) /\ Len(e) = 1 /\ e[1] = Blank
    <3>1. Blank \in Chars  BY LettersAreChars DEF Letters
    <3>   QED  BY <3>1, Singles
  <2>0. Len(t) \in Nat  OBVIOUS
  <2> HIDE DEF e
  <2>2. u \in Seq(Chars) /\ Len(u) = Len(e) + Len(t)  BY <2>1, Joined
  <2>3. \A i \in 1..Len(e) + Len(t) : u[i] = IF i <= Len(e) THEN e[i] ELSE t[i - Len(e)]
    BY <2>1, ConcatProperties
  <2> HIDE DEF u
  <2>4. Len(u) = Len(t) + 1  BY <2>0, <2>1, <2>2
  <2>5. u[1] = Blank  BY <2>0, <2>1, <2>3
  <2>6. ASSUME NEW i \in 1..Len(t)  PROVE u[i + 1] = t[i]
    <3> DEFINE k == i + 1
    <3>1. k \in 1..Len(e) + Len(t) /\ ~(k <= Len(e)) /\ k - Len(e) = i  BY <2>0, <2>1
    <3> HIDE DEF k
    <3>2. u[k] = t[i]  BY <2>3, <3>1
    <3>   QED  BY <3>2 DEF k
  <2>7. Trimmed(u) = Trimmed(t)  BY <2>2, <2>4, <2>5, <2>6, TrimmedBlank
  <2>   QED  BY <1>2, <2>7 DEF u, e
<1>   QED  BY <1>1, <1>2 DEF Number

\* A text, what is written behind it, and its last character.
LEMMA SlicesOf ==
    ASSUME NEW S, NEW a \in Seq(S), NEW b \in Seq(S), Len(b) > 0
    PROVE  /\ SubSeq(a \o b, Len(a) + 1, Len(a \o b)) = b
           /\ \A i, j \in 1..Len(a) : i <= j => SubSeq(a \o b, i, j) = SubSeq(a, i, j)
           /\ Last(a \o b) = b[Len(b)]
<1> DEFINE n == Len(a)
           m == Len(b)
           t == a \o b
<1>1. n \in Nat /\ m \in Nat /\ m > 0 /\ n + m \in Nat  OBVIOUS
<1>2. t \in Seq(S) /\ Len(t) = n + m  BY Joined
<1>3. \A i \in 1..n + m : t[i] = IF i <= n THEN a[i] ELSE b[i - n]  BY ConcatProperties
<1> HIDE DEF t
<1>4. SubSeq(t, n + 1, n + m) = b
  <2> DEFINE p == SubSeq(t, n + 1, n + m)
             k == n + 1
             l == n + m
  <2>1. k \in 1..Len(t) /\ l \in k..Len(t) /\ l - k + 1 = m /\ k - 1 = n
    <3> HIDE DEF n, m
    <3>   QED  BY <1>1, <1>2
  <2> HIDE DEF k, l
  <2>2. SubSeq(t, k, l) \in Seq(S) /\ Len(SubSeq(t, k, l)) = m
        /\ \A i \in 1..m : SubSeq(t, k, l)[i] = t[n + i]
    <3> HIDE DEF n, m, p
    <3> QED  BY <1>2, <2>1, SubSeqIs
  <2>3. p \in Seq(S) /\ Len(p) = m /\ \A i \in 1..m : p[i] = t[n + i]  BY <2>2 DEF k, l
  <2> HIDE DEF p
  <2>4. ASSUME NEW i \in 1..m  PROVE p[i] = b[i]
    <3> DEFINE j == n + i
    <3>1. j \in 1..n + m /\ ~(j <= n) /\ j - n = i
      <4> HIDE DEF n, m
      <4>   QED  BY <1>1
    <3> HIDE DEF j, n, m
    <3>2. t[j] = b[i]  BY <1>3, <3>1
    <3>   QED  BY <2>3, <3>2 DEF j
  <2>5. p = b  BY <2>3, <2>4
  <2>   QED  BY <2>5 DEF p
<1>5. ASSUME NEW i \in 1..n, NEW j \in 1..n, i <= j  PROVE SubSeq(t, i, j) = SubSeq(a, i, j)
  <2> DEFINE p == SubSeq(t, i, j)
             q == SubSeq(a, i, j)
             l == j - i + 1
  <2>0. i \in 1..Len(t) /\ j \in i..Len(t) /\ i \in 1..Len(a) /\ j \in i..Len(a)  BY <1>1, <1>2, <1>5
  <2>1. p \in Seq(S) /\ Len(p) = l /\ \A k \in 1..l : p[k] = t[i - 1 + k]  BY <1>2, <2>0, SubSeqIs
  <2>2. q \in Seq(S) /\ Len(q) = l /\ \A k \in 1..l : q[k] = a[i - 1 + k]  BY <2>0, SubSeqIs
  <2>3. ASSUME NEW k \in 1..l  PROVE p[k] = q[k]
    <3> DEFINE d == i - 1 + k
    <3>1. d \in 1..n + m /\ d <= n  BY <1>1
    <3> HIDE DEF d, p, q, l, n, m
    <3>2. t[d] = a[d]  BY <1>3, <3>1
    <3>   QED  BY <2>1, <2>2, <3>2 DEF d
  <2> HIDE DEF p, q, l
  <2>4. p = q  BY <2>1, <2>2, <2>3
  <2>   QED  BY <2>4 DEF p, q
<1>6. Last(t) = b[m]
  <2> DEFINE l == n + m
  <2> HIDE DEF n, m
  <2>1. l \in 1..n + m /\ ~(l <= n) /\ l - n = m  BY <1>1
  <2> HIDE DEF l
  <2>2. t[l] = b[m]  BY <1>3, <2>1
  <2>   QED  BY <1>2, <2>2 DEF Last, l
<1>   QED  BY <1>2, <1>4, <1>5, <1>6 DEF t

LEMMA WholeOf ==
    ASSUME NEW S, NEW a \in Seq(S)
    PROVE  SubSeq(a, 1, Len(a)) = a
OBVIOUS

LEMMA TailOf ==
    ASSUME NEW S, NEW x \in S, NEW b \in Seq(S)
    PROVE  (<<x>> \o b)[1] = x /\ Tail(<<x>> \o b) = b
OBVIOUS

LEMMA QuotedMeans ==
    ASSUME NEW t \in Seq(STRING)
    PROVE  IsQuoted(t, Quoted(t))
BY TextIsChars, UnquotedQuoted DEF IsQuoted

LEMMA BinaryMeans ==
    ASSUME NEW t \in Seq(STRING), Range(t) \subseteq DOMAIN Hex, NEW z, z = Binary(t)
    PROVE  /\ z[1] = "X" /\ Len(Unquoted(Tail(z))) = Len(t)
           /\ \A i \in 1..Len(t) : Unquoted(Tail(z))[i] = Hex[t[i]]
<1> DEFINE h == Digitized(t)
           q == Quoted(h)
<1>1. h \in Seq(Chars) /\ Len(h) = Len(t) /\ q \in Seq(Chars) /\ z = <<"X">> \o q  BY BinaryIs
<1>2. \A i \in 1..Len(t) : h[i] = Hex[t[i]]  BY DEF Digitized
<1>3. "X" \in Chars  BY LettersAreChars DEF Letters
<1>4. Unquoted(q) = h
  <2> HIDE DEF h
  <2>   QED  BY <1>1, UnquotedQuoted
<1> HIDE DEF h, q
<1>5. z[1] = "X" /\ Tail(z) = q  BY <1>1, <1>3, TailOf
<1>   QED  BY <1>1, <1>2, <1>4, <1>5

LEMMA CastMeans ==
    ASSUME NEW o, NEW t \in Seq(STRING), t \in NotFinite, NEW z, z = Double(o, t)
    PROVE  Last(z) = "FLOAT" /\ IsQuoted(t, SubSeq(z, 1, Len(z) - 3))
<1> DEFINE f == <<":", ":", "FLOAT">>
           q == Quoted(t)
<1>1. z = q \o f /\ q \in Seq(Chars)  BY TextIsChars, DoubleIs
<1>2. f \in Seq(Chars) /\ Len(f) = 3 /\ f[3] = "FLOAT"
  <2>1. ":" \in Chars /\ "FLOAT" \in Chars  BY LettersAreChars DEF Letters
  <2>   QED  BY <2>1
<1>3. Len(q) > 0  BY QuotedLiterally DEF Literally
<1>4. IsQuoted(t, q)  BY QuotedMeans
<1> HIDE DEF f, q
<1>5. Len(z) = Len(q) + Len(f) /\ Len(q) \in Nat
  <2>0. q \in Seq(Chars) /\ f \in Seq(Chars)  BY <1>1, <1>2
  <2>1. Len(q) \in Nat /\ Len(q \o f) = Len(q) + Len(f)  BY <2>0, Joined
  <2>   QED  BY <1>1, <2>1, Zenon
<1>6. Len(z) - 3 = Len(q) /\ Len(q) \in 1..Len(q) /\ 1 \in 1..Len(q) /\ 1 <= Len(q)
  BY <1>2, <1>3, <1>5
<1>7. /\ \A i, j \in 1..Len(q) : i <= j => SubSeq(q \o f, i, j) = SubSeq(q, i, j)
      /\ Last(q \o f) = f[Len(f)]
  <2>1. q \in Seq(Chars) /\ f \in Seq(Chars) /\ Len(f) > 0  BY <1>1, <1>2
  <2>   QED  BY <2>1, SlicesOf
<1>8. SubSeq(z, 1, Len(q)) = q  BY <1>1, <1>6, <1>7, WholeOf
<1>   QED  BY <1>1, <1>2, <1>4, <1>6, <1>7, <1>8

\* A value that is not refused is written as the type declared says.
LEMMA LiteralMeans ==
    ASSUME NEW o, NEW v, ValueOK(v), ~Refused(v)
    PROVE  Means(v, Literal(o, v))
<1> DEFINE t == v.text
           z == Literal(o, v)
<1>1. /\ t \in Seq(STRING) /\ t \in Seq(Chars)
      /\ v.type \in {"null", "bool", "int", "str", "lob"}
      /\ v.php \in {"null", "true", "false", "long", "double", "string", "stream", "unreadable"}
      /\ v.php = "long"   => IsNumericLiteral(t)
      /\ v.php = "double" => IsNumericLiteral(t) \/ t \in NotFinite
      /\ v.type = "lob"   => Range(t) \subseteq DOMAIN Hex
  BY TextIsChars DEF ValueOK, Types, Kinds
<1>2. IsNumericLiteral(t) <=> Numeral(Trimmed(t))  BY <1>1, NumericIsNumeral
<1>3. Trimmed(Number(o, t)) = Trimmed(t)  BY <1>1, NumberTrimmed
<1>4. IsQuoted(t, Quoted(t))  BY <1>1, QuotedMeans
<1>5. v.type = "null" => IsNull(v)  BY DEF IsNull
<1>6. CASE IsNull(v)
  <2>1. z = <<"NULL">>  BY <1>6 DEF Literal
  <2> HIDE DEF z
  <2>2. Means(v, z)  BY <1>6, <2>1 DEF Means
  <2>   QED  BY <2>2 DEF z
<1>7. CASE ~IsNull(v) /\ v.type = "bool"
  <2>1. z = IF IsTrue(v) THEN <<"TRUE">> ELSE <<"FALSE">>  BY <1>7 DEF Literal
  <2> HIDE DEF z
  <2>2. Means(v, z)  BY <1>7, <2>1 DEF Means
  <2>   QED  BY <2>2 DEF z
<1>8. CASE ~IsNull(v) /\ v.type = "str"
  <2>1. z = Quoted(t)  BY <1>8 DEF Literal
  <2> HIDE DEF z
  <2>2. IsQuoted(t, z)  BY <1>4, <2>1
  <2>3. Means(v, z)  BY <1>8, <2>2 DEF Means
  <2>   QED  BY <2>3 DEF z
<1>9. CASE ~IsNull(v) /\ v.type = "lob"
  <2>1. z = Binary(t)  BY <1>9 DEF Literal
  <2> HIDE DEF z
  <2>2. /\ z[1] = "X" /\ Len(Unquoted(Tail(z))) = Len(t)
        /\ \A i \in 1..Len(t) : Unquoted(Tail(z))[i] = Hex[t[i]]
    BY <1>1, <1>9, <2>1, BinaryMeans
  <2>3. Means(v, z)  BY <1>9, <2>2 DEF Means
  <2>   QED  BY <2>3 DEF z
<1>10. CASE ~IsNull(v) /\ v.type = "int"
  <2> DEFINE AsNumber == /\ v.php \in {"long", "double", "string"}
                         /\ Numeral(Trimmed(t)) /\ Trimmed(z) = Trimmed(t)
             AsCast   == /\ v.php = "double" /\ t \in NotFinite
                         /\ Last(z) = "FLOAT" /\ IsQuoted(t, SubSeq(z, 1, Len(z) - 3))
             AsString == v.php = "string" /\ ~Numeral(Trimmed(t)) /\ IsQuoted(t, z)
             AsBytes  == v.php = "stream" /\ IsQuoted(t, z)
             AsTruth  == v.php \in {"true", "false"} /\ z = (IF v.php = "true" THEN <<"1">> ELSE <<"0">>)
  <2> DEFINE Some == AsTruth \/ AsNumber \/ AsCast \/ AsString \/ AsBytes
  <2>0. v.php \in {"true", "false", "long", "double", "string", "stream"}
    BY <1>1, <1>10 DEF IsNull, Refused
  <2>1. ASSUME v.php \in {"true", "false"}  PROVE Some
    <3>1. z = IF v.php = "true" THEN <<"1">> ELSE <<"0">>  BY <1>10, <2>1 DEF Literal
    <3>   QED  BY <2>1, <3>1
  <2>2. ASSUME v.php = "long"  PROVE Some
    <3>1. z = Number(o, t)  BY <1>10, <2>2 DEF Literal
    <3>2. AsNumber  BY <1>1, <1>2, <1>3, <2>2, <3>1
    <3>   QED  BY <3>2
  <2>3. ASSUME v.php = "double"  PROVE Some
    <3>1. z = Double(o, t)  BY <1>10, <2>3 DEF Literal
    <3> HIDE DEF z
    <3>2. CASE IsNumericLiteral(t)
      <4>1. z = Number(o, t)  BY <1>1, <3>1, <3>2, DoubleIs
      <4>2. AsNumber  BY <1>2, <1>3, <2>3, <3>2, <4>1
      <4>   QED  BY <4>2
    <3>3. CASE t \in NotFinite
      <4>1. AsCast  BY <1>1, <2>3, <3>1, <3>3, CastMeans
      <4>   QED  BY <4>1
    <3>   QED  BY <1>1, <2>3, <3>2, <3>3
  <2>4. ASSUME v.php = "string"  PROVE Some
    <3>1. CASE IsNumericLiteral(t)
      <4>1. z = Number(o, t)  BY <1>10, <2>4, <3>1 DEF Literal
      <4>2. AsNumber  BY <1>2, <1>3, <2>4, <3>1, <4>1
      <4>   QED  BY <4>2
    <3>2. CASE ~IsNumericLiteral(t)
      <4>1. z = Quoted(t)  BY <1>10, <2>4, <3>2 DEF Literal
      <4>2. AsString  BY <1>2, <1>4, <2>4, <3>2, <4>1
      <4>   QED  BY <4>2
    <3>   QED  BY <3>1, <3>2
  <2>5. ASSUME v.php = "stream"  PROVE Some
    <3>1. z = Quoted(t)  BY <1>10, <2>5 DEF Literal
    <3>2. AsBytes  BY <1>4, <2>5, <3>1
    <3>   QED  BY <3>2
  <2>6. Some  BY <2>0, <2>1, <2>2, <2>3, <2>4, <2>5
  <2> HIDE DEF z
  <2>7. Some => Means(v, z)  BY <1>10 DEF Means
  <2>8. Means(v, z)  BY <2>6, <2>7
  <2>   QED  BY <2>8 DEF z
<1>   QED  BY <1>1, <1>5, <1>6, <1>7, <1>8, <1>9, <1>10

Slice(k) == SubSeq(out, written[k].from, written[k].to)

\* What a slice stands for: of a stream sent before, nothing.
Meant(w, k) == Left(w[k].value, SentBefore(w, k))

ArriveInv == \A k \in 1..Len(written) : written[k].from >= 1 /\ Means(Meant(written, k), Slice(k))

\* The streams drained are the ones sent.
DrainInv == result = "none" => drained = {v \in SentBefore(written, Len(written) + 1) : IsStream(v)}

\* What was written stays where it is while more is written behind it.
LEMMA SliceStays ==
    ASSUME FormInv, ArriveInv, NEW k \in 1..Len(written), NEW b \in Seq(Chars), Len(b) > 0
    PROVE  SubSeq(out \o b, written[k].from, written[k].to) = Slice(k)
<1> DEFINE i == written[k].from
           j == written[k].to
<1>1. /\ out \in Seq(Chars) /\ written[k] \in Marker(bound)
      /\ i <= j /\ j <= Len(out) /\ i >= 1
  BY DEF FormInv, Written, ArriveInv
<1>2. i \in Nat /\ j \in Nat /\ Len(out) \in Nat  BY <1>1 DEF Marker
<1> HIDE DEF i, j
<1>3. i \in 1..Len(out) /\ j \in 1..Len(out) /\ i <= j  BY <1>1, <1>2
<1>4. SubSeq(out \o b, i, j) = SubSeq(out, i, j)  BY <1>1, <1>3, SlicesOf
<1>   QED  BY <1>4 DEF i, j, Slice

LEMMA ArriveSubstitute ==
    ASSUME FormInv, ArriveInv, DrainInv, Substitute
    PROVE  ArriveInv' /\ DrainInv'
<1> DEFINE v == Left(Value, drained)
           b == Literal(out, v)
           n == Len(written)
           i == Len(out) + 1
           j == Len(out')
<1>1. out' = out \o b /\ ~Refused(v)  BY ValueIsBound, LeftIsOK DEF Substitute
<1>2. ValueOK(v)  BY ValueIsBound, LeftIsOK DEF Substitute
<1>13. v = Left(Value, SentBefore(written, n + 1))
       /\ drained' = drained \cup {u \in {Value} : IsStream(u)} /\ result = "none"
  BY DEF Left, DrainInv, Substitute, Drain, AtMarker, Scanning
<1> HIDE DEF v
<1>3. out \in Seq(Chars) /\ b \in Seq(Chars) /\ Len(b) > 0  BY <1>2, LiteralIsOne DEF FormInv, Literally
<1>4. Means(v, b)  BY <1>1, <1>2, LiteralMeans
<1>5. Kept \in Marker(bound) /\ written' = Append(written, Kept)  BY SubstituteWrites
<1>6. written \in Seq(Marker(bound)) /\ n \in Nat  BY DEF FormInv, Written
<1>7. /\ Len(written') = n + 1 /\ written'[n + 1] = Kept
      /\ \A k \in 1..n : written'[k] = written[k]
  BY <1>5, <1>6, WrittenOn
<1>8. Kept.from = i /\ Kept.to = j /\ Kept.value = Value /\ i >= 1
  BY <1>3 DEF Kept
<1> HIDE DEF b, n
<1>9. SubSeq(out', i, j) = b
  <2>1. SubSeq(out \o b, Len(out) + 1, Len(out \o b)) = b  BY <1>3, SlicesOf
  <2>   QED  BY <1>1, <2>1, Zenon
<1> HIDE DEF i, j
<1>14. \A k \in 1..n + 1 : SentBefore(written', k) = SentBefore(written, k)
  <2>1. \A k \in 1..n + 1 : \A m \in 1..k - 1 : m \in 1..n  BY <1>6
  <2>   QED  BY <1>7, <2>1 DEF SentBefore
<1>15. SentBefore(written', n + 2) = SentBefore(written, n + 1) \cup {Value}
  <2>1. \A m : m \in 1..n + 2 - 1 <=> m = n + 1 \/ m \in 1..n + 1 - 1  BY <1>6
  <2>2. \A m \in 1..n + 1 - 1 : written'[m] = written[m]  BY <1>6, <1>7
  <2>3. written'[n + 1].value = Value  BY <1>7, <1>8
  <2>4. \A w, k, u : u \in SentBefore(w, k) <=> \E m \in 1..k - 1 : u = w[m].value  BY DEF SentBefore
  <2>5. \A u : u \in SentBefore(written', n + 2) <=> \E m \in 1..n + 2 - 1 : u = written'[m].value  BY <1>6, <2>4
  <2>6. \A u : u \in SentBefore(written, n + 1) <=> \E m \in 1..n + 1 - 1 : u = written[m].value  BY <1>6, <2>4
  <2>   QED  BY <2>1, <2>2, <2>3, <2>5, <2>6
<1>10. ASSUME NEW k \in 1..n
       PROVE  written'[k].from >= 1 /\ Means(Meant(written', k), SubSeq(out', written'[k].from, written'[k].to))
  <2>1. written'[k] = written[k]  BY <1>7
  <2>2. written[k].from >= 1 /\ Means(Meant(written, k), Slice(k))  BY DEF ArriveInv, n
  <2>3. SubSeq(out \o b, written[k].from, written[k].to) = Slice(k)  BY <1>3, SliceStays DEF n
  <2>4. Meant(written', k) = Meant(written, k)
    <3>1. k \in 1..n + 1  BY <1>6
    <3>2. SentBefore(written', k) = SentBefore(written, k)  BY <1>14, <3>1
    <3>   QED  BY <2>1, <3>2 DEF Meant
  <2>   QED  BY <1>1, <2>1, <2>2, <2>3, <2>4, Zenon
<1>11. written'[n + 1].from >= 1
       /\ Means(Meant(written', n + 1), SubSeq(out', written'[n + 1].from, written'[n + 1].to))
  <2>1. written'[n + 1].from = i /\ written'[n + 1].to = j /\ written'[n + 1].value = Value  BY <1>7, <1>8
  <2>2. n + 1 \in 1..n + 1  BY <1>6
  <2>3. SentBefore(written', n + 1) = SentBefore(written, n + 1)  BY <1>14, <2>2
  <2>4. Meant(written', n + 1) = v  BY <1>13, <2>1, <2>3 DEF Meant
  <2>   QED  BY <1>4, <1>8, <1>9, <2>1, <2>4
<1>12. \A k \in 1..Len(written') : k \in 1..n \/ k = n + 1  BY <1>6, <1>7
<1>16. ArriveInv'  BY <1>10, <1>11, <1>12 DEF ArriveInv, Slice
<1>17. DrainInv'
  <2>1. Len(written') + 1 = n + 2  BY <1>6, <1>7
  <2>2. SentBefore(written', Len(written') + 1) = SentBefore(written, n + 1) \cup {Value}  BY <1>15, <2>1
  <2>3. drained = {u \in SentBefore(written, n + 1) : IsStream(u)}  BY <1>13 DEF DrainInv, n
  <2>   QED  BY <1>13, <2>2, <2>3 DEF DrainInv
<1>   QED  BY <1>16, <1>17

LEMMA ArriveCopy ==
    ASSUME FormInv, PlaceInv, ArriveInv, DrainInv, Copy
    PROVE  ArriveInv' /\ DrainInv'
<1> DEFINE e == c'
           b == SubSeq(text, c, e - 1)
<1>1. written' = written /\ out' = out \o b  BY DEF Copy
<1>2. e \in c + 1..Len(text) + 1 /\ c \in Nat \ {0} /\ Len(text) \in Nat  BY CopyMoves, TextLength
<1>3. b \in Seq(Chars) /\ Len(b) > 0
  <2> DEFINE d == e - 1
  <2>0. text \in Seq(Chars)  BY TextIsChars DEF FormInv
  <2> HIDE DEF e
  <2>1. c \in 1..Len(text) /\ d \in c..Len(text) /\ d - c + 1 > 0  BY <1>2
  <2> HIDE DEF d
  <2>2. SubSeq(text, c, d) \in Seq(Chars) /\ Len(SubSeq(text, c, d)) = d - c + 1
    BY <2>0, <2>1, SubSeqIs
  <2>   QED  BY <2>1, <2>2 DEF d
<1> HIDE DEF b, e
<1>4. ASSUME NEW k \in 1..Len(written)
      PROVE  written'[k].from >= 1 /\ Means(Meant(written', k), SubSeq(out', written'[k].from, written'[k].to))
  <2>1. written[k].from >= 1 /\ Means(Meant(written, k), Slice(k))  BY DEF ArriveInv
  <2>2. SubSeq(out \o b, written[k].from, written[k].to) = Slice(k)  BY <1>3, SliceStays
  <2>3. Meant(written', k) = Meant(written, k)  BY <1>1 DEF Meant, SentBefore
  <2>   QED  BY <1>1, <2>1, <2>2, <2>3, Zenon
<1>5. Len(written') = Len(written)  BY <1>1
<1>6. DrainInv'  BY <1>1 DEF Copy, DrainInv, SentBefore
<1>   QED  BY <1>4, <1>5, <1>6 DEF ArriveInv, Slice

LEMMA ArriveNext ==
    ASSUME FormInv, PlaceInv, ArriveInv, DrainInv, Next
    PROVE  ArriveInv' /\ DrainInv'
<1>1. ASSUME NEW s, s # "none", Refuse(s)  PROVE ArriveInv' /\ DrainInv'
  <2>1. written' = <<>> /\ result' = s  BY <1>1 DEF Refuse
  <2>2. 1..Len(written') = {}  BY <2>1
  <2>   QED  BY <1>1, <2>1, <2>2 DEF ArriveInv, DrainInv
<1>2. CASE AsWritten
  <2>1. written' = <<>> /\ result' = "ok"  BY <1>2 DEF AsWritten, FormInv
  <2>2. 1..Len(written') = {}  BY <2>1
  <2>   QED  BY <2>1, <2>2 DEF ArriveInv, DrainInv
<1>3. CASE Copy  BY <1>3, ArriveCopy
<1>4. CASE Substitute  BY <1>4, ArriveSubstitute
<1>5. CASE NoSuchParameter  BY <1>1, <1>5 DEF NoSuchParameter
<1>6. CASE UnreadableValue  BY <1>1, <1>6 DEF UnreadableValue
<1>7. CASE CopyFails  BY <1>1, <1>7 DEF CopyFails
<1>8. CASE LiteralFails  BY <1>1, <1>8 DEF LiteralFails
<1>9. CASE Finish
  <2>1. CASE CountsMatch
    <3>1. written' = written /\ out' = out /\ result' = "ok"  BY <1>9, <2>1 DEF Finish
    <3>   QED  BY <3>1 DEF ArriveInv, DrainInv, Slice, Meant, SentBefore
  <2>2. CASE ~CountsMatch  BY <1>1, <1>9, <2>2 DEF Finish
  <2>   QED  BY <2>1, <2>2
<1>   QED  BY <1>2, <1>3, <1>4, <1>5, <1>6, <1>7, <1>8, <1>9 DEF Next

(***************************************************************************)
(* For every text and binding: where a marker was stands, for as long as   *)
(* the statement is built, a literal of the type its binding declared, and *)
(* read back it is the value, or of a stream already sent the empty        *)
(* remainder: append_value and the literals it writes.                     *)
(***************************************************************************)
THEOREM ValuesReachTheEngine == Spec => []ValuesArrive
<1> DEFINE Inv == FormInv /\ PlaceInv /\ ArriveInv /\ DrainInv
<1>1. Init => Inv
  <2>1. Init => ArriveInv /\ DrainInv
    <3>1. 1..Len(<<>>) = {} /\ 1..Len(<<>>) + 1 - 1 = {}  OBVIOUS
    <3>2. SentBefore(<<>>, Len(<<>>) + 1) = {}  BY <3>1 DEF SentBefore
    <3>   QED  BY <3>1, <3>2 DEF Init, ArriveInv, DrainInv
  <2>   QED  BY <2>1, FormInit
<1>2. Inv /\ [Next]_vars => Inv'
  <2> SUFFICES ASSUME Inv, [Next]_vars  PROVE Inv'  OBVIOUS
  <2>1. CASE Next  BY <2>1, FormNext, ArriveNext
  <2>2. CASE UNCHANGED vars
    BY <2>2 DEF vars, FormInv, PlaceInv, ArriveInv, DrainInv, Slice, Meant, SentBefore, Written, NothingBound
  <2>   QED  BY <2>1, <2>2
<1>3. Inv => ValuesArrive  BY DEF ArriveInv, Slice, Meant, ValuesArrive
<1>   QED  BY <1>1, <1>2, <1>3, PTL DEF Spec
=============================================================================
