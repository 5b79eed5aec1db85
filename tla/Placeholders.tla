---------------------------- MODULE Placeholders ----------------------------
(***************************************************************************)
(* Substituting bound values for the markers of a statement:               *)
(* pdo_frostlake_render_statement and what it calls, in                    *)
(* src/frostlake_sql.c.  A text is a sequence of characters, each a        *)
(* string: what is neither in Symbols nor in Digits is a letter, and a     *)
(* keyword the driver writes (NULL) is one letter.  Letters beyond ASCII   *)
(* are left out.  One step is one turn of the rendering loop.              *)
(*                                                                         *)
(* How a text reads is defined a second time at the end, as an automaton   *)
(* that sees each character once; the properties compare the two.          *)
(***************************************************************************)
EXTENDS Integers, FiniteSets, SequencesExt

CONSTANT Groups   \* sets of texts, each with sets of values to be bound to them

DoubleQuote == "\""
Blank       == " "
Digits  == {"0", "1", "5"}
Symbols == {Blank, "\n", "?", ":", "'", DoubleQuote, "\\", "-", "+", ".", "/", "*", "$", "(", ")",
            "]", "}", ",", "_"}

Alpha(x) == x \notin Symbols \cup Digits
Alnum(x) == x \notin Symbols

(***************************************************************************)
(* A bound value: the type its binding declares, the kind of PHP value,    *)
(* and the text PHP reads it as.  A stream bound as a LOB is read: its     *)
(* text is the bytes it has left before the rendering, and what is bound   *)
(* twice is one stream.  Bound as anything else it is a resource, with a   *)
(* name.  "unreadable": PHP can make no string of it.                      *)
(***************************************************************************)
Types == {"null", "bool", "int", "str", "lob"}
Kinds == {"null", "true", "false", "long", "double", "string", "stream", "unreadable"}
Values == [type : Types, php : Kinds, text : Seq(STRING)]

ASSUME GroupsAssumption ==
    \A g \in Groups :
      /\ \A t \in g.texts : t \in Seq(STRING)
      /\ \A b \in g.bindings :
           /\ IsFiniteSet(DOMAIN b.positional) /\ DOMAIN b.positional \subseteq Nat
           /\ IsFiniteSet(DOMAIN b.named)
           /\ \A n \in DOMAIN b.named : n \in Seq(STRING) /\ n[1] = ":" /\ Len(n) > 1
           /\ \A v \in Range(b.positional) \cup Range(b.named) :
                v \in Values

VARIABLES
    text,        \* stmt->query_string
    bound,       \* stmt->bound_params, by position and by name
    c,           \* where the loop stands in text
    out,         \* the rendered statement so far
    position,    \* markers substituted by position
    styles,      \* the locals positional and named: the kinds of marker met
    used,        \* used_names
    drained,     \* the streams read to their end
    result,      \* "none", "ok", or the SQLSTATE of the refusal ("unset": none recorded)
    written      \* for the properties: each marker substituted, and where its literal stands

vars == <<text, bound, c, out, position, styles, used, drained, result, written>>

Init ==
    /\ \E g \in Groups : text \in g.texts /\ bound \in g.bindings
    /\ c = 1 /\ out = <<>> /\ position = 0 /\ styles = {} /\ used = {} /\ drained = {}
    /\ result = "none" /\ written = <<>>

-----------------------------------------------------------------------------
(* Where a stretch that is not code ends.                                  *)

At(t, i, x) == i <= Len(t) /\ t[i] = x
Pair(t, i, x, y) == At(t, i, x) /\ At(t, i + 1, y)

\* The first of the positions found, or the one past the text.
First(t, found) == IF found = {} THEN Len(t) + 1 ELSE Min(found)

\* Past what was found at j, n characters long, or past the text.
Beyond(t, j, n) == IF j > Len(t) THEN j ELSE j + n

\* Past the closing quote: a doubled one is text, and in a string literal a
\* backslash takes the next character along.
PastQuote(t, i, quote) ==
    LET past[p \in 1..Len(t) + 1] ==
          IF p > Len(t) THEN p
          ELSE IF quote = "'" /\ t[p] = "\\" /\ p < Len(t) THEN past[p + 2]
          ELSE IF t[p] # quote THEN past[p + 1]
          ELSE IF At(t, p + 1, quote) THEN past[p + 2]
          ELSE p + 1
    IN  past[i]

\* Mutant of OpensBody: also inside an identifier.
OpensBodyAnywhere(t, i) == Pair(t, i, "$", "$")

OpensBody(t, i) ==
    /\ Pair(t, i, "$", "$")
    /\ i > 1 => ~Alnum(t[i - 1]) /\ t[i - 1] \notin {"_", "$"}

\* skip_non_placeholder: past the stretch that opens at i, or i itself.
Skip(t, i) ==
    CASE t[i] \in {"'", DoubleQuote} -> PastQuote(t, i + 1, t[i])
      [] Pair(t, i, "-", "-") \/ Pair(t, i, "/", "/") ->
           Beyond(t, First(t, {j \in i + 2..Len(t) : t[j] = "\n"}), 1)
      [] Pair(t, i, "/", "*") -> Beyond(t, First(t, {j \in i + 2..Len(t) : Pair(t, j, "*", "/")}), 2)
      [] OpensBody(t, i)      -> Beyond(t, First(t, {j \in i + 2..Len(t) : Pair(t, j, "$", "$")}), 2)
      [] OTHER -> i

\* What a colon straight after it reads a field of.
OperandEnds == {"_", "$", ")", "]", "}", "'", DoubleQuote, "?", ":"}

OpensNamed(t, i) ==
    /\ At(t, i, ":") /\ i < Len(t)
    /\ Alpha(t[i + 1]) \/ t[i + 1] = "_"
    /\ i > 1 => ~Alnum(t[i - 1]) /\ t[i - 1] \notin OperandEnds

NameEnd(t, i) == First(t, {j \in i + 1..Len(t) : ~Alnum(t[j]) /\ t[j] # "_"})

-----------------------------------------------------------------------------
(* Literals.                                                               *)

Run(t, i) == First(t, {j \in i..Len(t) : t[j] \notin Digits})

Trimmed(t) ==
    LET solid == {j \in 1..Len(t) : t[j] # Blank}
    IN  IF solid = {} THEN <<>> ELSE SubSeq(t, Min(solid), Max(solid))

\* Mutant of IsNumericLiteral: what follows the number is not looked at.
StartsNumeric(t) == LET n == Trimmed(t) IN n # <<>> /\ n[1] \in Digits

\* A sign, digits with at most one point, an exponent.
IsNumericLiteral(t) ==
    LET n        == Trimmed(t)
        whole    == IF n # <<>> /\ n[1] \in {"+", "-"} THEN 2 ELSE 1
        point    == Run(n, whole)
        mantissa == IF At(n, point, ".") THEN Run(n, point + 1) ELSE point
        digits   == mantissa - whole - (IF At(n, point, ".") THEN 1 ELSE 0)
        power    == IF At(n, mantissa + 1, "+") \/ At(n, mantissa + 1, "-")
                      THEN mantissa + 2 ELSE mantissa + 1
    IN  /\ digits > 0
        /\ \/ mantissa = Len(n) + 1
           \/ At(n, mantissa, "e") /\ power <= Len(n) /\ Run(n, power) = Len(n) + 1

\* append_string_literal: a quote or a backslash is written twice.
Quoted(t) ==
    <<"'">> \o FlattenSeq([i \in 1..Len(t) |->
                 IF t[i] \in {"'", "\\"} THEN <<t[i], t[i]>> ELSE <<t[i]>>]) \o <<"'">>

\* append_binary_literal: two digits to a byte.
Hex == [x \in {"'", "\\", "a", "0"} |->
          CASE x = "'" -> "27" [] x = "\\" -> "5C" [] x = "a" -> "61" [] x = "0" -> "30"]
Binary(t) == <<"X", "'">> \o [i \in 1..Len(t) |-> Hex[t[i]]] \o <<"'">>

\* Mutant of Number: no space is put between.
BareNumber(o, t) == t

\* append_number: after a minus sign a negative number keeps its distance.
Number(o, t) ==
    IF At(t, 1, "-") /\ o # <<>> /\ Last(o) = "-" THEN <<Blank>> \o t ELSE t

\* append_double: what is no number is a string cast to FLOAT.
Double(o, t) ==
    IF Last(t) \in {"NaN", "inf"} THEN <<"'">> \o t \o <<"'", ":", ":", "FLOAT">> ELSE Number(o, t)

\* The doubles that are no number.
NotFinite == {<<"NaN">>, <<"inf">>, <<"-", "inf">>}

\* zend_is_true: of doubles both zeros are false, of strings "" and "0".
IsTrue(v) ==
    CASE v.php = "true" -> TRUE
      [] v.php \in {"false", "null"} -> FALSE
      [] v.php = "double" -> v.text \notin {<<"0">>, <<"-", "0">>}
      [] OTHER -> v.text \notin {<<>>, <<"0">>}

\* What PHP names a resource, in one letter.
ResourceName == <<"Resource id #1">>

IsNull(v) == v.php = "null" \/ v.type = "null"

\* append_value refuses what it would have to read as a string and cannot.
Refused(v) == v.php = "unreadable" /\ ~IsNull(v) /\ v.type # "bool"

\* php_stream_copy_to_mem reads a stream to its end.
IsStream(v) == v.php = "stream" /\ v.type = "lob"

\* A value as append_value finds it: of a stream that is gone no byte is left.
Left(v, gone) == IF IsStream(v) /\ v \in gone THEN [v EXCEPT !.text = <<>>] ELSE v

\* What append_value appends to o for a value it does not refuse.
Literal(o, v) ==
    IF IsNull(v) THEN <<"NULL">>
    ELSE CASE v.type = "bool" -> IF IsTrue(v) THEN <<"TRUE">> ELSE <<"FALSE">>
           [] v.type = "lob"  -> Binary(v.text)
           [] v.type = "str"  -> Quoted(v.text)
           [] v.type = "int"  ->
                CASE v.php = "long"   -> Number(o, v.text)
                  [] v.php = "true"   -> <<"1">>
                  [] v.php = "false"  -> <<"0">>
                  [] v.php = "double" -> Double(o, v.text)
                  [] v.php = "string" /\ IsNumericLiteral(v.text) -> Number(o, v.text)
                  [] OTHER -> Quoted(v.text)

-----------------------------------------------------------------------------
(* The rendering loop.                                                     *)

Scanning == result = "none" /\ c <= Len(text)

NothingBound == DOMAIN bound.positional = {} /\ DOMAIN bound.named = {}

\* With nothing bound the text goes as written.
AsWritten ==
    /\ result = "none" /\ c = 1 /\ NothingBound
    /\ out' = text /\ c' = Len(text) + 1 /\ result' = "ok"
    /\ UNCHANGED <<text, bound, position, styles, used, drained, written>>

MarkerHere == text[c] = "?" \/ OpensNamed(text, c)

\* What is not code, as a whole; of code, one character.
Copy ==
    /\ Scanning /\ ~NothingBound
    /\ LET past == Skip(text, c)
       IN  /\ past # c \/ ~MarkerHere
           /\ c' = IF past = c THEN c + 1 ELSE past
    /\ out' = out \o SubSeq(text, c, c' - 1)
    /\ UNCHANGED <<text, bound, position, styles, used, drained, result, written>>

\* The marker here, and its value where one is bound to it.
AtMarker == Scanning /\ ~NothingBound /\ Skip(text, c) = c /\ MarkerHere

Positional == text[c] = "?"
Name       == SubSeq(text, c, NameEnd(text, c) - 1)
IsBound    == IF Positional THEN position \in DOMAIN bound.positional ELSE Name \in DOMAIN bound.named
Value      == IF Positional THEN bound.positional[position] ELSE bound.named[Name]

Drain == drained' = drained \cup {v \in {Value} : IsStream(v)}

Meet == styles' = styles \cup {IF Positional THEN "positional" ELSE "named"}

\* Mutant of Substitute: a named marker takes a position too.
SubstituteCounting ==
    /\ AtMarker /\ IsBound /\ ~Refused(Value) /\ Meet
    /\ out' = out \o Literal(out, Left(Value, drained)) /\ Drain
    /\ written' = Append(written, [at |-> c, from |-> Len(out) + 1, to |-> Len(out'), value |-> Value])
    /\ position' = position + 1
    /\ IF Positional
         THEN c' = c + 1 /\ UNCHANGED used
         ELSE c' = NameEnd(text, c) /\ used' = used \cup {Name}
    /\ UNCHANGED <<text, bound, result>>

Substitute ==
    /\ AtMarker /\ IsBound /\ ~Refused(Value) /\ Meet
    /\ out' = out \o Literal(out, Left(Value, drained)) /\ Drain
    /\ written' = Append(written, [at |-> c, from |-> Len(out) + 1, to |-> Len(out'), value |-> Value])
    /\ IF Positional
         THEN c' = c + 1 /\ position' = position + 1 /\ UNCHANGED used
         ELSE c' = NameEnd(text, c) /\ used' = used \cup {Name} /\ UNCHANGED position
    /\ UNCHANGED <<text, bound, result>>

\* A refusal: the buffer and the names are freed, and nothing is returned.
Refuse(sqlstate) ==
    /\ result' = sqlstate /\ out' = <<>> /\ written' = <<>>
    /\ UNCHANGED <<text, bound, c>>

NoSuchParameter ==
    AtMarker /\ ~IsBound /\ Meet /\ Refuse("HY093") /\ UNCHANGED <<position, used, drained>>

\* The name is among used_names before its value is looked at.
UnreadableValue ==
    /\ AtMarker /\ IsBound /\ Refused(Value) /\ Meet /\ Refuse("HY105")
    /\ used' = used \cup (IF Positional THEN {} ELSE {Name})
    /\ UNCHANGED <<position, drained>>

\* No memory for what is copied: the oom label.
CopyFails ==
    /\ Scanning /\ ~NothingBound /\ ~AtMarker
    /\ Refuse("HY001") /\ UNCHANGED <<position, styles, used, drained>>

\* No memory for the literal, a stream already read: append_value answers -1 as
\* it is, and the loop goes to the fail label with neither code nor message.
LiteralFails ==
    /\ AtMarker /\ IsBound /\ ~Refused(Value) /\ Meet /\ Refuse("unset") /\ Drain
    /\ used' = used \cup (IF Positional THEN {} ELSE {Name})
    /\ UNCHANGED position

Bound    == Cardinality(DOMAIN bound.positional) + Cardinality(DOMAIN bound.named)
Consumed == IF "positional" \in styles THEN position ELSE Cardinality(used)

\* Mutant of CountsMatch: values left over are not counted.
EnoughBound == styles # {"positional", "named"} /\ Consumed <= Bound

CountsMatch == styles # {"positional", "named"} /\ Consumed = Bound

\* At the end: styles mixed, or values left over, are refused.
Finish ==
    /\ result = "none" /\ c > Len(text) /\ ~NothingBound
    /\ IF CountsMatch
         THEN result' = "ok" /\ UNCHANGED <<text, bound, c, out, written>>
         ELSE Refuse("HY093")
    /\ UNCHANGED <<position, styles, used, drained>>

Next ==
    \/ AsWritten \/ Copy \/ Substitute \/ NoSuchParameter \/ UnreadableValue
    \/ CopyFails \/ LiteralFails \/ Finish

Spec == Init /\ [][Next]_vars

-----------------------------------------------------------------------------
(* pdo_frostlake_is_identifier, which decides what may follow USE.         *)

\* Mutant of IsIdentifier: a quote inside is not looked at.
IsIdentifierByItsEnds(t) ==
    /\ t # <<>>
    /\ \/ t[1] = DoubleQuote /\ Len(t) > 2 /\ Last(t) = DoubleQuote
       \/ /\ Alpha(t[1]) \/ t[1] = "_"
          /\ \A i \in 2..Len(t) : Alnum(t[i]) \/ t[i] \in {"_", "$"}

\* A word, or a quoted name in which every quote is doubled.
IsIdentifier(t) ==
    /\ t # <<>>
    /\ \/ t[1] = DoubleQuote /\ Len(t) > 2 /\ Last(t) = DoubleQuote
          /\ LET paired[i \in 2..Len(t)] ==
                   \/ i = Len(t)
                   \/ t[i] # DoubleQuote /\ paired[i + 1]
                   \/ t[i] = DoubleQuote /\ i + 1 < Len(t) /\ t[i + 1] = DoubleQuote /\ paired[i + 2]
             IN  paired[2]
       \/ /\ Alpha(t[1]) \/ t[1] = "_"
          /\ \A i \in 2..Len(t) : Alnum(t[i]) \/ t[i] \in {"_", "$"}

-----------------------------------------------------------------------------
(***************************************************************************)
(* How a text reads, character by character: the mode it is in; the first  *)
(* character of a pair that may open or close something; and the character *)
(* before.  A doubled quote closes and opens again, which is the same.     *)
(***************************************************************************)
NoChar == ""

Start == [mode |-> "code", first |-> NoChar, prev |-> Blank]

Wordy(x) == Alnum(x) \/ x \in {"_", "$"}

InMode(m, x) == [mode |-> m, first |-> NoChar, prev |-> x]

ReadCode(q, x) ==
    CASE x = "'"  -> InMode("string", x)
      [] x = DoubleQuote -> InMode("quoted", x)
      [] x \in {"-", "/"} /\ q.first = x -> InMode("line", x)
      [] x = "*" /\ q.first = "/"        -> InMode("block", x)
      [] x = "$" /\ q.first = "$"        -> InMode("body", x)
      [] OTHER -> [InMode("code", x) EXCEPT !.first =
                     IF x \in {"-", "/"} \/ (x = "$" /\ ~Wordy(q.prev)) THEN x ELSE NoChar]

ReadChar(q, x) ==
    CASE q.mode = "code"   -> ReadCode(q, x)
      [] q.mode = "string" -> InMode(IF x = "'" THEN "code" ELSE IF x = "\\" THEN "escape" ELSE "string", x)
      [] q.mode = "escape" -> InMode("string", x)
      [] q.mode = "quoted" -> InMode(IF x = DoubleQuote THEN "code" ELSE "quoted", x)
      [] q.mode = "line"   -> InMode(IF x = "\n" THEN "code" ELSE "line", x)
      [] q.mode = "block"  -> IF q.first = "*" /\ x = "/" THEN InMode("code", x)
                              ELSE [InMode("block", x) EXCEPT !.first = x]
      [] q.mode = "body"   -> IF q.first = "$" /\ x = "$" THEN InMode("code", x)
                              ELSE [InMode("body", x) EXCEPT !.first = x]

Reading(t) ==
    LET after[n \in 0..Len(t)] == IF n = 0 THEN Start ELSE ReadChar(after[n - 1], t[n])
    IN  after

ModeAfter(t, n) == Reading(t)[n].mode

InCode(t, i) == ModeAfter(t, i - 1) = "code" /\ ModeAfter(t, i) = "code"

(***************************************************************************)
(* The markers of a text, as README "Parameters" has them: in code, a `?`, *)
(* or a colon in front of a name and not straight after an operand, which  *)
(* would read a path, nor after a colon, which would make a cast.          *)
(***************************************************************************)
AfterOperand(t, i) == i > 1 /\ (Wordy(t[i - 1]) \/ t[i - 1] \in {")", "]", "}", "'", DoubleQuote, "?", ":"})

MarkersOf(t) ==
    {i \in 1..Len(t) :
       /\ InCode(t, i)
       /\ \/ t[i] = "?"
          \/ t[i] = ":" /\ i < Len(t) /\ (Alpha(t[i + 1]) \/ t[i + 1] = "_") /\ ~AfterOperand(t, i)}

NamesOf(t)     == {SubSeq(t, i, NameEnd(t, i) - 1) : i \in {j \in MarkersOf(t) : t[j] = ":"}}
QuestionsOf(t) == {i \in MarkersOf(t) : t[i] = "?"}

TypeOK ==
    /\ c \in 1..Len(text) + 1
    /\ position \in 0..Cardinality(DOMAIN bound.positional) /\ styles \subseteq {"positional", "named"}
    /\ result \in {"none", "ok", "HY093", "HY105", "HY001", "unset"}
    /\ \A k \in 1..Len(written) : written[k].from <= written[k].to /\ written[k].to <= Len(out)

(***************************************************************************)
(* What is substituted are the markers the text has in code, each of them  *)
(* once and in order, and nothing that is quoted, a comment, a body, a     *)
(* cast or a path: skip_non_placeholder and opens_named_parameter.         *)
(***************************************************************************)
SubstitutesTheMarkers ==
    c > Len(text) /\ result \in {"none", "ok"} /\ ~NothingBound =>
      /\ {written[k].at : k \in 1..Len(written)} = MarkersOf(text)
      /\ \A j, k \in 1..Len(written) : j < k => written[j].at < written[k].at

\* A `$` straight after a marker would be read with the literal's last character.
Spaced(t) ==
    \A m \in MarkersOf(t) : ~At(t, IF t[m] = "?" THEN m + 1 ELSE NameEnd(t, m), "$")

(***************************************************************************)
(* However far the loop is, what it has written reads on as the text it    *)
(* has read does: no literal opens a comment with what stands before it,   *)
(* leaves a quote open or closes one (append_number, append_string_literal).*)
(***************************************************************************)
ReadsTheSame ==
    result \in {"none", "ok"} =>
      \/ ModeAfter(out, Len(out)) = ModeAfter(text, c - 1)
      \/ ~Spaced(text)

\* The text a literal in quotes stands for, or <<"broken">> at its end where
\* the quotes do not pair.
Unquoted(t) ==
    LET rest[i \in 2..Len(t) + 1] ==
          IF i > Len(t) THEN <<"broken">>
          ELSE IF i = Len(t) THEN IF t[i] = "'" THEN <<>> ELSE <<"broken">>
          ELSE IF t[i] = "\\" \/ Pair(t, i, "'", "'") THEN <<t[i + 1]>> \o rest[i + 2]
          ELSE IF t[i] = "'" THEN <<"broken">>
          ELSE <<t[i]>> \o rest[i + 1]
    IN  rest[2]

\* A numeral, by its grammar: a sign up to w, digits with a point at p, and
\* an exponent from m, whose own digits are those from e.
Numeral(t) ==
    \E w \in {1, 2}, p, m \in 1..Len(t) + 1 :
      /\ w = 2 => At(t, 1, "+") \/ At(t, 1, "-")
      /\ w <= p /\ p <= m /\ \A k \in w..m - 1 : t[k] \in Digits \/ (k = p /\ t[p] = ".")
      /\ \E k \in w..m - 1 : t[k] \in Digits
      /\ \/ m = Len(t) + 1
         \/ /\ t[m] = "e"
            /\ \E e \in {m + 1, m + 2} :
                 /\ e <= Len(t) /\ \A k \in e..Len(t) : t[k] \in Digits
                 /\ e = m + 2 => t[m + 1] \in {"+", "-"}

\* What PHP prints for a number is one, of a LOB's bytes Hex has the digits, and
\* a stream not bound as a LOB goes by its name.
ASSUME ValuesAssumption ==
    \A g \in Groups : \A b \in g.bindings : \A v \in Range(b.positional) \cup Range(b.named) :
      /\ v.php = "long"   => Numeral(Trimmed(v.text))
      /\ v.php = "double" => Numeral(Trimmed(v.text)) \/ v.text \in NotFinite
      /\ v.type = "lob"   => Range(v.text) \subseteq DOMAIN Hex
      /\ v.php = "stream" /\ v.type # "lob" => v.text = ResourceName

IsQuoted(t, literal) == literal[1] = "'" /\ Unquoted(literal) = t

\* What README "Parameters" says a value is written as, by the type declared.
Means(v, literal) ==
    CASE IsNull(v) -> literal = <<"NULL">>
      [] ~IsNull(v) /\ v.type = "bool" -> literal = IF IsTrue(v) THEN <<"TRUE">> ELSE <<"FALSE">>
      [] ~IsNull(v) /\ v.type = "str"  -> IsQuoted(v.text, literal)
      [] ~IsNull(v) /\ v.type = "lob"  ->
           /\ literal[1] = "X" /\ Len(Unquoted(Tail(literal))) = Len(v.text)
           /\ \A i \in 1..Len(v.text) : Unquoted(Tail(literal))[i] = Hex[v.text[i]]
      [] ~IsNull(v) /\ v.type = "int"  ->
           \/ v.php \in {"true", "false"} /\ literal = (IF v.php = "true" THEN <<"1">> ELSE <<"0">>)
           \/ /\ v.php \in {"long", "double", "string"}
              /\ Numeral(Trimmed(v.text)) /\ Trimmed(literal) = Trimmed(v.text)
           \/ /\ v.php = "double" /\ v.text \in NotFinite
              /\ Last(literal) = "FLOAT" /\ IsQuoted(v.text, SubSeq(literal, 1, Len(literal) - 3))
           \/ v.php = "string" /\ ~Numeral(Trimmed(v.text)) /\ IsQuoted(v.text, literal)
           \/ v.php = "stream" /\ IsQuoted(v.text, literal)

\* What was substituted before the k-th marker.
SentBefore(w, k) == {w[j].value : j \in 1..k - 1}

(***************************************************************************)
(* Each value reaches the engine as a literal of the type its binding      *)
(* declared: a string whatever is in it, and never SQL of its own; of a    *)
(* stream the bytes go where it is met first, and nothing where it is met  *)
(* again (append_value, is_numeric_literal, append_string_literal).        *)
(***************************************************************************)
ValuesArrive ==
    \A k \in 1..Len(written) :
      Means(Left(written[k].value, SentBefore(written, k)), SubSeq(out, written[k].from, written[k].to))

(***************************************************************************)
(* A statement is rendered exactly when the values bound are the ones its  *)
(* markers ask for, in one style; with nothing bound it stays as it is     *)
(* (README "Parameters": HY093 otherwise).                                 *)
(***************************************************************************)
Fits ==
    /\ DOMAIN bound.named = NamesOf(text)
    /\ DOMAIN bound.positional = 0..Cardinality(QuestionsOf(text)) - 1
    /\ DOMAIN bound.named = {} \/ DOMAIN bound.positional = {}

AcceptsWhatFits ==
    /\ result = "ok"    => IF NothingBound THEN out = text ELSE Fits
    /\ result = "HY093" => ~Fits

(***************************************************************************)
(* What passes for an identifier in the data source is one: after USE it   *)
(* holds no code but words, and leaves nothing open.                       *)
(***************************************************************************)
NamesStayWhole ==
    IsIdentifier(text) =>
      /\ ModeAfter(text, Len(text)) = "code"
      /\ \A i \in 1..Len(text) : InCode(text, i) => Wordy(text[i])

(***************************************************************************)
(* A refusal says why, as php_pdo_frostlake_int.h has it: "or NULL with    *)
(* *sqlstate and an emalloc'd *message set".                               *)
(***************************************************************************)
RefusalsAreNamed == result # "unset"
=============================================================================
