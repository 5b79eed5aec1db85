-------------------------- MODULE MCAnswerReading ---------------------------
(* Answers of an engine in each framing, broken off and delayed anywhere;   *)
(* and, read without a fault, every short text and every text one unit away *)
(* from an answer.                                                          *)
EXTENDS AnswerTexts

Q(x) == <<Quote, x, Quote>>
Member(name, v) == Q(name) \o <<":">> \o v
Obj(w) == <<"{">> \o w \o <<"}">>

Success == Member("success", <<"true">>)

Answers ==
    {Obj(Success),
     Obj(Success \o <<",">> \o Member("k", <<"[", "1", ",", " ", Quote, "k", Quote, "]">>)) \o <<" ">>,
     Obj(Member("k", Obj(Success)) \o <<",">> \o Member("success", <<"null">>)),
     Obj(Success \o <<",">> \o Member("success", <<"false">>)),
     Obj(Member("k", <<Quote, "\\", Quote, Quote>>) \o <<",">> \o Success)}

Nested ==
    {Obj(Member("k", <<"[", "]">>) \o <<",">> \o Member("k", <<"[", "1", "]">>)),
     Obj(Member("k", <<"[", "{", "}", "]">>)),
     <<"[", "[", "]", ",", "[", "1", "1", "]", "]">>}

Units == {"{", "}", "[", "]", ",", ":", Quote, "\\", "k", "1", "true", " "}

OneAway(t) ==
    {RemoveAt(t, k) : k \in 1..Len(t)}
    \cup {ReplaceAt(t, k, u) : k \in 1..Len(t), u \in Units}
    \cup {InsertAt(t, k, u) : k \in 1..Len(t) + 1, u \in Units}

Texts == UNION {[1..n -> Units] : n \in 0..3} \cup Nested \cup UNION {OneAway(t) : t \in Answers \cup Nested}

Plain   == [kind |-> "length", size |-> 0]
ToTheEnd == [kind |-> "close", size |-> 0]
Chunks(n) == [kind |-> "chunked", size |-> n]

MCServers ==
    {[documents |-> Answers \cup Nested, framings |-> {Plain, ToTheEnd, Chunks(4), Chunks(40)}, faulty |-> {TRUE, FALSE}],
     [documents |-> Texts, framings |-> {ToTheEnd}, faulty |-> {FALSE}]}
=============================================================================
