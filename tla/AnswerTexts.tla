---------------------------- MODULE AnswerTexts -----------------------------
(***************************************************************************)
(* What the answers post() reads have to do with the texts the server      *)
(* wrote: trees written out again, what JSON is without a parser, and what *)
(* of a text the driver may go by.                                         *)
(***************************************************************************)
EXTENDS AnswerReading

\* fl_strbuf_append_json_string, and pdo_frostlake_append_json: a tree written out.
WriteString(text) ==
    <<Quote>> \o FlattenSeq([k \in 1..Len(text) |->
                   IF text[k] \in Escapable THEN <<"\\", text[k]>> ELSE <<text[k]>>]) \o <<Quote>>

RECURSIVE Write(_)
Write(node) ==
    LET Part(k) == (IF k > 1 THEN <<",">> ELSE <<>>)
                   \o (IF node.kind = "object" THEN WriteString(node.keys[k]) \o <<":">> ELSE <<>>)
                   \o Write(node.children[k])
        parts   == FlattenSeq([k \in 1..Len(node.children) |-> Part(k)])
    IN  CASE node.kind = "null"   -> <<"null">>
          [] node.kind = "string" -> WriteString(node.text)
          [] node.kind = "object" -> <<"{">> \o parts \o <<"}">>
          [] node.kind = "array"  -> <<"[">> \o parts \o <<"]">>
          [] OTHER -> node.text

\* What fl_json_free frees, walking over the tree.
RECURSIVE Freed(_)
Freed(node) ==
    FoldLeft(LAMBDA n, child : n + Freed(child),
             1 + (IF node.kind \in {"string", "number", "bool"} THEN 1 ELSE 0)
               + (IF node.children # <<>> THEN 1 ELSE 0)
               + (IF node.keys # <<>> THEN 1 + Len(node.keys) ELSE 0),
             node.children)

-----------------------------------------------------------------------------
(***************************************************************************)
(* What JSON is, without a parser: the text without the blanks between its *)
(* tokens; and the grammar over the tokens, where "s" stands for a string  *)
(* and "v" for a number or a literal.                                      *)
(***************************************************************************)
Compact(t) ==
    LET mode == ModeOf(t)
    IN  FlattenSeq([k \in 1..Len(t) |-> IF mode[k - 1] = "between" /\ t[k] = Blank THEN <<>> ELSE <<t[k]>>])

Tokens(t) ==
    LET mode == ModeOf(t)
        GoesOn(k) == k > 1 /\ t[k] = "1" /\ t[k - 1] = "1"
        Token(k) ==
          CASE mode[k - 1] = "escape" -> IF t[k] \in Escapable THEN <<>> ELSE <<"wrong">>
            [] mode[k - 1] = "string" -> IF t[k] = Quote THEN <<"s">> ELSE <<>>
            [] OTHER -> IF t[k] \in {Blank, Quote} \/ GoesOn(k) THEN <<>>
                        ELSE IF t[k] \in {"1"} \cup Literals THEN <<"v">>
                        ELSE <<t[k]>>
    IN  FlattenSeq([k \in 1..Len(t) |-> Token(k)])
        \o (IF mode[Len(t)] = "between" THEN <<>> ELSE <<"wrong">>)

\* What may stand between brackets, and between braces.
IsListOfValues(w) ==
    w = <<>> \/ (Len(w) % 2 = 1 /\ \A k \in 1..Len(w) :
                   IF k % 2 = 1 THEN w[k] \in {"s", "v"} ELSE w[k] = ",")
IsListOfMembers(w) ==
    w = <<>> \/ (Len(w) % 4 = 3 /\ \A k \in 1..Len(w) :
                   CASE k % 4 = 1 -> w[k] = "s"
                     [] k % 4 = 2 -> w[k] = ":"
                     [] k % 4 = 3 -> w[k] \in {"s", "v"}
                     [] k % 4 = 0 -> w[k] = ",")

\* Innermost containers, read as one value each, until none is left.
RECURSIVE Reduced(_)
Reduced(w) ==
    LET closers == {j \in 1..Len(w) : w[j] \in {"]", "}"}}
        j       == Min(closers)
        openers == {i \in 1..j : w[i] \in {"[", "{"}}
        i       == Max(openers)
        content == SubSeq(w, i + 1, j - 1)
    IN  IF closers = {} THEN w
        ELSE IF openers # {} /\ (IF w[i] = "[" THEN w[j] = "]" /\ IsListOfValues(content)
                                              ELSE w[j] = "}" /\ IsListOfMembers(content))
          THEN Reduced(SubSeq(w, 1, i - 1) \o <<"v">> \o SubSeq(w, j + 1, Len(w)))
        ELSE <<"wrong">>

IsJson(t) == Reduced(Tokens(t)) \in {<<"v">>, <<"s">>}

\* How many containers are open at most.
Nesting(t) == Max({NestedAt(t, k) : k \in 0..Len(t)})

(***************************************************************************)
(* What is accepted are the JSON documents nested no deeper than the       *)
(* limit, memory permitting: fl_json_parse, parse_value's depth.           *)
(***************************************************************************)
AcceptsJson ==
    at = "end" /\ ~starved => (value # <<>> <=> IsJson(input) /\ Nesting(input) <= MaxDepth)

(***************************************************************************)
(* The tree of an accepted document is the document: written out again, as *)
(* get_col does for semi-structured values, it is the text without the     *)
(* blanks between its tokens (node_add_child, pdo_frostlake_append_json);  *)
(* and freeing it walks over every block that was allocated for it.        *)
(***************************************************************************)
ReadsBack ==
    at = "end" /\ value # <<>> => /\ Write(value[1]) = Compact(input)
                                 /\ Freed(value[1]) = value[1].blocks

-----------------------------------------------------------------------------
\* A document an engine writes: an object.
IsObject(t) == IsJson(t) /\ Head(Compact(t)) = "{"

\* The first member "success" of the object itself says true.
SaysSuccess(t) ==
    LET w     == Compact(t)
        named == {k \in 1..Len(w) - 3 :
                    /\ SubSeq(w, k, k + 3) = <<Quote, "success", Quote, ":">>
                    /\ Outside(w, k) /\ NestedAt(w, k) = 1}
    IN  named # {} /\ w[Min(named) + 4] = "true"

Judged == result \in {"ok", "refused"} /\ IsObject(server.document)

(***************************************************************************)
(* A statement is reported to have succeeded exactly when the server said  *)
(* so of it, and not of a member within or further on (fl_json_get_bool).  *)
(***************************************************************************)
SucceedsAsSaid == Judged => (result = "ok" <=> SaysSuccess(server.document))

(***************************************************************************)
(* An answer that arrived in whole, in whatever framing and pieces, is     *)
(* read: 08S01 is for what was lost, is no object, is nested too deep, or  *)
(* found no memory (http_request, decode_chunked).                         *)
(***************************************************************************)
ReadsWhatArrives ==
    result = "08S01" /\ received = Len(server.stream) /\ ~starved /\ fault.what \in {"none", "malformed"} =>
      ~(IsObject(server.document) /\ Nesting(server.document) <= MaxDepth)
=============================================================================
