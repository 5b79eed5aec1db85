--------------------------- MODULE MCPlaceholders ---------------------------
(* Statements put together from up to three of the fragments that open,     *)
(* close, quote or mark something, with a few values bound to them; and     *)
(* a few statements with every kind of value.                               *)
EXTENDS Placeholders

None == <<>>
Bind(p, n) == [positional |-> p, named |-> n]
Val(ty, k, t) == [type |-> ty, php |-> k, text |-> t]

Fragments ==
    {<<"'">>, <<"\\">>, <<"\"">>, <<"-">>, <<"/">>, <<"*">>, <<"$">>, <<"$", "$">>, <<"\n">>,
     <<" ">>, <<"a">>, <<"1">>, <<"?">>, <<":">>, <<":", "a">>, <<"(">>, <<")">>}

\* Of these, longer texts: those with a marker in them.
Openers == {<<"'">>, <<"\\">>, <<"\"">>, <<"-", "-">>, <<"/", "*">>, <<"*", "/">>, <<"$", "$">>, <<"a">>,
            <<"\n">>}
Marks == {<<"?">>, <<" ", ":", "a">>}

Texts(S, n) == {FlattenSeq(f) : f \in UNION {[1..k -> S] : k \in 0..n}}

ShortTexts == Texts(Fragments, 3)
LongTexts ==
    {a \o b \o m \o d \o e : a \in Openers, b \in Openers, m \in Marks, d \in Openers,
                             e \in Marks \cup {None}}

Minus5 == Val("int", "long", <<"-", "5">>)
Awkward == Val("str", "string", <<"'", "\\">>)

Bindings ==
    {Bind(None, None),
     Bind((0 :> Minus5), None),
     Bind((0 :> Minus5) @@ (1 :> Awkward), None),
     Bind((1 :> Minus5), None),
     Bind(None, (<<":", "a">> :> Awkward)),
     Bind(None, (<<":", "a">> :> Minus5) @@ (<<":", "b">> :> Minus5)),
     Bind((0 :> Minus5), (<<":", "a">> :> Awkward))}

\* Strings of up to four characters of numbers, and some that are no number.
NumberLike == UNION {[1..n -> {"5", "-", ".", "e", " "}] : n \in 0..4}
              \cup {<<"5", "e", "+", "5">>, <<"5", " ", "O", "R", " ", "1">>, <<"+", "5">>, <<"0">>}

QuoteLike == UNION {[1..n -> {"'", "\\", "a"}] : n \in 0..3}

AllValues ==
    {Val(ty, "string", t) : ty \in {"int", "str", "bool"}, t \in NumberLike}
    \cup {Val(ty, "string", t) : ty \in {"int", "str"}, t \in QuoteLike}
    \cup {Val("lob", k, t) : k \in {"string", "stream"}, t \in QuoteLike}
    \cup {Val(ty, "double", t) : ty \in {"int", "str"},
            t \in {<<"-", "5", ".", "5">>, <<"5", "e", "-", "5">>, <<"NaN">>, <<"inf">>, <<"-", "inf">>}}
    \cup {Val(ty, "null", <<>>) : ty \in Types}
    \cup {Val("null", "string", <<"a">>)}
    \cup {Val(ty, k, IF k = "true" THEN <<"1">> ELSE <<>>) : ty \in {"int", "bool", "str"}, k \in {"true", "false"}}
    \cup {Val(ty, "unreadable", <<"a">>) : ty \in {"int", "bool", "str", "lob"}}
    \cup {Val(ty, "stream", ResourceName) : ty \in {"int", "bool", "str"}}
    \cup {Val("bool", "double", t) : t \in {<<"0">>, <<"-", "0">>, <<"5">>, <<"NaN">>}}

\* The last two name a value twice.
ValueTexts == {<<"1", " ", "-", "?">>, <<"?", "-", "-", "\n">>, <<"(", ":", "a", ")">>, <<"'", "a", "'", " ", "?">>,
               <<":", "a", ",", ":", "a">>, <<":", "a", "-", " ", ":", "a", " ", ":", "a">>}

\* Two streams, and one stream bound twice.
Streams == {Val("lob", "stream", t) : t \in {<<"a">>, <<"'", "\\">>}}
Pairs == {Bind((0 :> v) @@ (1 :> w), None) : v \in Streams, w \in Streams}

AtFirst(V) == {Bind(0 :> v, None) : v \in V} \cup {Bind(None, (<<":", "a">> :> v)) : v \in V}

MCGroups ==
    {[texts |-> ShortTexts, bindings |-> Bindings],
     [texts |-> LongTexts, bindings |-> Bindings],
     [texts |-> ValueTexts, bindings |-> AtFirst(AllValues)],
     [texts |-> {<<"?", ",", "?">>}, bindings |-> Pairs]}

\* A stream and a name used twice.
MCStreams ==
    {[texts |-> Texts({<<":", "a">>, <<" ">>, <<"-">>, <<",">>}, 4),
      bindings |-> {Bind(None, (<<":", "a">> :> v)) : v \in Streams}]}

\* One value in short statements: enough to run out of memory.
MCSmall == {[texts |-> ShortTexts, bindings |-> {Bind(0 :> Minus5, None)}]}
=============================================================================
