----------------------------- MODULE JsonReader -----------------------------
(***************************************************************************)
(* The JSON parser of src/json.c.  A document is a sequence of units: the  *)
(* punctuation, a blank, a digit, a whole literal, and letters, which only *)
(* a string may hold.  Of the escapes those of the quote and the backslash *)
(* are kept.  The recursion of parse_value is the stack of the containers  *)
(* it is inside of; what each function returns to its caller is `value'.   *)
(* Every allocation may fail.                                              *)
(***************************************************************************)
EXTENDS Integers, SequencesExt

CONSTANT MaxDepth    \* FL_JSON_MAX_DEPTH

ASSUME DepthAssumption == MaxDepth \in Nat

VARIABLES
    input,      \* what is parsed
    cur,        \* parser.cur
    depth,      \* parser.depth
    at,         \* where the parser stands: see JsonPlaces
    stack,      \* the containers being parsed, outermost first
    value,      \* what the last function returned: <<node>>, or <<>> for NULL
    live,       \* blocks of memory allocated and not freed
    starved     \* for the properties: an allocation failed

jsonVars == <<input, cur, depth, at, stack, value, live, starved>>

JsonPlaces == {"unused", "value", "key", "returned", "end", "over"}

Quote     == "\""
Blank     == " "
Literals  == {"true", "false", "null"}
Escapable == {Quote, "\\"}

(***************************************************************************)
(* A node of the tree; `blocks' are those fl_json_free frees with it: the  *)
(* node, its text, its arrays of keys and children, each key, each child's.*)
(***************************************************************************)
Node(kind, text) ==
    [kind |-> kind, text |-> text, keys |-> <<>>, children |-> <<>>,
     blocks |-> IF kind \in {"string", "number", "bool"} THEN 2 ELSE 1]

BlocksOf(v) == IF v = <<>> THEN 0 ELSE v[1].blocks

JsonInit ==
    /\ input = <<>> /\ cur = 1 /\ depth = 0 /\ at = "unused"
    /\ stack = <<>> /\ value = <<>> /\ live = 0 /\ starved = FALSE

\* fl_json_parse, called with this text.
Parse(text) ==
    /\ at = "unused" /\ at' = "value" /\ input' = text
    /\ UNCHANGED <<cur, depth, stack, value, live, starved>>

-----------------------------------------------------------------------------
UnitAt(i) == IF i <= Len(input) THEN input[i] ELSE "end"

\* skip_ws
SkipBlanks(i) ==
    LET solid == {j \in i..Len(input) : input[j] # Blank}
    IN  IF solid = {} THEN Len(input) + 1 ELSE Min(solid)

Here == SkipBlanks(cur)

(***************************************************************************)
(* parse_string_body from i on: the text, and where it goes on; on failure *)
(* it has freed its buffer.                                                *)
(***************************************************************************)
StringBody(i) ==
    LET Unread == [ok |-> FALSE, text |-> <<>>, next |-> i]
        body[j \in i..Len(input) + 2] ==
          CASE UnitAt(j) = "end" -> Unread
            [] UnitAt(j) = Quote -> [ok |-> TRUE, text |-> <<>>, next |-> j + 1]
            [] UnitAt(j) = "\\"  -> IF UnitAt(j + 1) \in Escapable
                                      THEN [body[j + 2] EXCEPT !.text = <<input[j + 1]>> \o @]
                                      ELSE Unread
            [] OTHER -> [body[j + 1] EXCEPT !.text = <<input[j]>> \o @]
    IN  body[i]

DigitsEnd(i) ==
    LET other == {j \in i..Len(input) : input[j] # "1"}
    IN  IF other = {} THEN Len(input) + 1 ELSE Min(other)

-----------------------------------------------------------------------------
(* parse_value and the functions it calls for a value without parts.       *)

ReturnNull == at' = "returned" /\ value' = <<>>
ReturnNode(node) == at' = "returned" /\ value' = <<node>>

\* A string, number or literal that can be read: its node, and where it ends.
Scalar(node, next) ==
    /\ ReturnNode(node) /\ cur' = next /\ live' = live + node.blocks
    /\ UNCHANGED <<input, depth, stack, starved>>

ParseString ==
    /\ at = "value" /\ UnitAt(Here) = Quote
    /\ LET body == StringBody(Here + 1)
       IN  body.ok /\ Scalar(Node("string", body.text), body.next)

ParseNumber ==
    /\ at = "value" /\ UnitAt(Here) = "1"
    /\ Scalar(Node("number", SubSeq(input, Here, DigitsEnd(Here) - 1)), DigitsEnd(Here))

ParseLiteral ==
    /\ at = "value" /\ UnitAt(Here) \in Literals
    /\ Scalar(IF UnitAt(Here) = "null" THEN Node("null", <<>>) ELSE Node("bool", <<UnitAt(Here)>>),
              Here + 1)

\* Nothing here is a value.
ParseNothing ==
    /\ at = "value" /\ UnitAt(Here) \notin {"{", "[", "1"} \cup Literals
    /\ UnitAt(Here) = Quote => ~StringBody(Here + 1).ok
    /\ ReturnNull /\ cur' = Here
    /\ UNCHANGED <<input, depth, stack, live, starved>>

-----------------------------------------------------------------------------
(* parse_array and parse_object.                                           *)

Closing(node) == IF node.kind = "object" THEN "}" ELSE "]"
NextPart(node) == IF node.kind = "object" THEN "key" ELSE "value"

\* Mutant of MayOpen: one container deeper.
MayOpenOneMore == depth <= MaxDepth

MayOpen == depth < MaxDepth

Opener == UnitAt(Here) \in {"{", "["}

TooDeep ==
    /\ at = "value" /\ Opener /\ ~MayOpen
    /\ ReturnNull /\ cur' = Here
    /\ UNCHANGED <<input, depth, stack, live, starved>>

Open ==
    /\ at = "value" /\ Opener /\ MayOpen
    /\ LET node   == Node(IF UnitAt(Here) = "{" THEN "object" ELSE "array", <<>>)
           inside == SkipBlanks(Here + 1)
       IN  IF UnitAt(inside) = Closing(node)
             THEN ReturnNode(node) /\ cur' = inside + 1 /\ UNCHANGED <<stack, depth>>
             ELSE /\ at' = NextPart(node) /\ cur' = inside
                  /\ stack' = Append(stack, [node |-> node, key |-> <<>>])
                  /\ depth' = depth + 1 /\ UNCHANGED value
    /\ live' = live + 1
    /\ UNCHANGED <<input, starved>>

Top == Last(stack)

(***************************************************************************)
(* Out of the innermost container with NULL: its node is freed, with the   *)
(* children added so far, and what else the failing path holds (`more').   *)
(***************************************************************************)
GiveUpContainer(more) ==
    /\ ReturnNull /\ stack' = Front(stack) /\ depth' = depth - 1
    /\ live' = live - Top.node.blocks - more

KeyBody == StringBody(Here + 1)
KeyHere == UnitAt(Here) = Quote /\ KeyBody.ok /\ UnitAt(SkipBlanks(KeyBody.next)) = ":"

ParseKey ==
    /\ at = "key" /\ KeyHere
    /\ at' = "value" /\ cur' = SkipBlanks(KeyBody.next) + 1
    /\ stack' = [stack EXCEPT ![Len(stack)].key = <<KeyBody.text>>]
    /\ live' = live + 1
    /\ UNCHANGED <<input, depth, value, starved>>

\* No key, or no colon behind it: then the key is freed as well.
NoKey ==
    /\ at = "key" /\ ~KeyHere
    /\ GiveUpContainer(0) /\ cur' = Here
    /\ UNCHANGED <<input, starved>>

\* The arrays node_add_child allocates for a first child, and for a first key.
NewArrays ==
    (IF Top.node.children = <<>> THEN 1 ELSE 0)
    + (IF Top.node.keys = <<>> THEN Len(Top.key) ELSE 0)

\* The container with the child just parsed, as node_add_child leaves it.
Grown ==
    [Top.node EXCEPT
        !.children = Append(@, value[1]), !.keys = @ \o Top.key,
        !.blocks = @ + NewArrays + Len(Top.key) + value[1].blocks]

ChildHere == at = "returned" /\ stack # <<>> /\ value # <<>>

NextChild ==
    /\ ChildHere /\ UnitAt(Here) = ","
    /\ stack' = [stack EXCEPT ![Len(stack)] = [node |-> Grown, key |-> <<>>]]
    /\ at' = NextPart(Grown) /\ cur' = Here + 1
    /\ live' = live + NewArrays
    /\ value' = <<>>
    /\ UNCHANGED <<input, depth, starved>>

\* Mutant of CloseContainer: what is open where the text ends is closed.
CloseAtEnd ==
    /\ ChildHere /\ UnitAt(Here) \in {Closing(Grown), "end"}
    /\ ReturnNode(Grown) /\ stack' = Front(stack) /\ depth' = depth - 1 /\ cur' = Here + 1
    /\ live' = live + NewArrays
    /\ UNCHANGED <<input, starved>>

CloseContainer ==
    /\ ChildHere /\ UnitAt(Here) = Closing(Grown)
    /\ ReturnNode(Grown) /\ stack' = Front(stack) /\ depth' = depth - 1 /\ cur' = Here + 1
    /\ live' = live + NewArrays
    /\ UNCHANGED <<input, starved>>

\* The child is the container's by now and goes with it, and so does the key.
NoSeparator ==
    /\ ChildHere /\ UnitAt(Here) \notin {",", Closing(Grown)}
    /\ GiveUpContainer(Len(Top.key) + value[1].blocks)
    /\ cur' = Here
    /\ UNCHANGED <<input, starved>>

\* Mutant of NoChild: the key is left behind.
NoChildKeyKept ==
    /\ at = "returned" /\ stack # <<>> /\ value = <<>>
    /\ GiveUpContainer(0)
    /\ UNCHANGED <<input, cur, starved>>

NoChild ==
    /\ at = "returned" /\ stack # <<>> /\ value = <<>>
    /\ GiveUpContainer(Len(Top.key))
    /\ UNCHANGED <<input, cur, starved>>

\* Back in fl_json_parse: nothing but blanks may follow.
Finish ==
    /\ at = "returned" /\ stack = <<>> /\ at' = "end"
    /\ cur' = IF value = <<>> THEN cur ELSE Here
    /\ IF value # <<>> /\ Here <= Len(input)
         THEN value' = <<>> /\ live' = live - value[1].blocks
         ELSE UNCHANGED <<value, live>>
    /\ UNCHANGED <<input, depth, stack, starved>>

\* No memory for a value or for a container's node.
StarvedValue ==
    /\ at = "value"
    /\ \/ UnitAt(Here) \in {Quote, "1"} \cup Literals
       \/ Opener /\ MayOpen
    /\ ReturnNull /\ starved' = TRUE
    /\ UNCHANGED <<input, cur, depth, stack, live>>

\* No memory for a key.
StarvedKey ==
    /\ at = "key" /\ UnitAt(Here) = Quote
    /\ GiveUpContainer(0) /\ starved' = TRUE
    /\ UNCHANGED <<input, cur>>

\* No memory in node_add_child, for either array.
StarvedChild ==
    /\ ChildHere
    /\ GiveUpContainer(Len(Top.key) + value[1].blocks) /\ starved' = TRUE
    /\ UNCHANGED <<input, cur>>

JsonNext ==
    \/ ParseString \/ ParseNumber \/ ParseLiteral \/ ParseNothing
    \/ TooDeep \/ Open \/ ParseKey \/ NoKey
    \/ NextChild \/ CloseContainer \/ NoSeparator \/ NoChild \/ Finish
    \/ StarvedValue \/ StarvedKey \/ StarvedChild

-----------------------------------------------------------------------------
(* Lookups: the first member of that name, and what it says.               *)

\* Mutant of JsonGet: the last member of that name.
JsonGetLast(node, key) ==
    LET found == IF node.kind # "object" THEN {}
                 ELSE {k \in 1..Len(node.keys) : node.keys[k] = key}
    IN  IF found = {} THEN <<>> ELSE <<node.children[Max(found)]>>

JsonGet(node, key) ==
    LET found == IF node.kind # "object" THEN {}
                 ELSE {k \in 1..Len(node.keys) : node.keys[k] = key}
    IN  IF found = {} THEN <<>> ELSE <<node.children[Min(found)]>>

JsonGetBool(node, key, fallback) ==
    LET child == JsonGet(node, key)
    IN  IF child = <<>> \/ child[1].kind # "bool" THEN fallback ELSE child[1].text = <<"true">>
=============================================================================
