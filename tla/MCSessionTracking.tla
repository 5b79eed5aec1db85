------------------------- MODULE MCSessionTracking -------------------------
(* Requests of up to two statements, put together from the forms the       *)
(* grammar allows.                                                         *)
EXTENDS SessionTracking

PieceOf(text, touches, effect) == [text |-> text, touches |-> touches, effect |-> effect]

Heads == {<<>>, <<"OR", "REPLACE">>, <<"TEMPORARY">>, <<"OR", "REPLACE", "LOCAL", "TEMP">>,
          <<"TRANSIENT">>}

IsTemporary(head) == \E k \in 1..Len(head) : head[k] \in {"TEMPORARY", "TEMP"}

Creates ==
    {PieceOf(<<"CREATE">> \o h \o <<kind, "IF", "NOT", "EXISTS", "X", "(">>,
           kind = "SCHEMA" \/ IsTemporary(h), 0) :
       h \in Heads, kind \in {"TABLE", "SCHEMA"}}

Drops ==
    {PieceOf(<<"DROP", kind, "IF", "EXISTS", "X">>, kind = "DATABASE", 0) :
       kind \in {"TABLE", "DATABASE"}}

Others ==
    {PieceOf(<<"USE", "SCHEMA", "X">>, TRUE, 0),
     PieceOf(<<"--c", "SET", "X", "=", "1">>, TRUE, 0),
     PieceOf(<<"ALTER", "SESSION", "SET", "X", "=", "'a;b'">>, TRUE, 0),
     PieceOf(<<"ALTER", "TABLE", "SESSION", "(">>, FALSE, 0),
     PieceOf(<<"DROP", "TEMPORARY", "TABLE", "X">>, FALSE, 0),
     PieceOf(<<"SELECT", "'a;b'", "USE", "X">>, FALSE, 0),
     PieceOf(<<"EXECUTE", "IMMEDIATE", "$$;$$", "USE">>, FALSE, 0),
     PieceOf(<<"/*c*/">>, FALSE, 0),
     PieceOf(<<>>, FALSE, 0),
     PieceOf(<<"BEGIN", "SELECT", "1">>, FALSE, 0),
     PieceOf(<<"BEGIN">>, FALSE, 1),
     PieceOf(<<"BEGIN", "/*c*/", "NAME", "X">>, FALSE, 1),
     PieceOf(<<"START", "TRANSACTION">>, FALSE, 1),
     PieceOf(<<"COMMIT">>, FALSE, -1),
     PieceOf(<<"--c", "ROLLBACK", "WORK">>, FALSE, -1)}

Pieces == Creates \cup Drops \cup Others

MCRequests == {<<p>> : p \in Pieces} \cup {<<p, q>> : p \in Pieces, q \in Pieces}
=============================================================================
