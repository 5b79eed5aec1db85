------------------------ MODULE AnswerReading_proofs ------------------------
(***************************************************************************)
(* However the exchange goes and whatever the answer: post() gives back    *)
(* all it took, says HYT00 only of a request that was sent, gets the body  *)
(* as it was written, stays within it, and takes no part for the whole.    *)
(*                                                                         *)
(* The order: what is held and allocated; the answer as the server writes  *)
(* it, and what decode_chunked makes of a beginning of it; the strings and *)
(* blanks the parser goes over; the exchange, and the parser's place; the  *)
(* brackets of a text, and what the parser is inside of.                   *)
(*                                                                         *)
(* The chunks, their decoding, the text of a string and the strings of a   *)
(* text are recursive functions: that such a function exists is proved     *)
(* first, then what it computes, both by Induction.                        *)
(***************************************************************************)
EXTENDS AnswerReading, Induction, SequenceTheorems, FiniteSetTheorems, TLAPS

(***************************************************************************)
(* Sequences of whatever there is: the nodes of a tree make no set.        *)
(***************************************************************************)
IsSequence(s) == Len(s) \in Nat /\ s = [k \in 1..Len(s) |-> s[k]]

LEMMA SequenceOver ==
    ASSUME NEW s, IsSequence(s)
    PROVE  s \in Seq({s[k] : k \in 1..Len(s)})
BY DEF IsSequence

LEMMA OfASet ==
    ASSUME NEW S, NEW s \in Seq(S)
    PROVE  IsSequence(s)
BY DEF IsSequence

LEMMA Appended ==
    ASSUME NEW s, IsSequence(s), NEW e
    PROVE  /\ IsSequence(Append(s, e)) /\ Len(Append(s, e)) = Len(s) + 1
           /\ \A k \in 1..Len(s) : Append(s, e)[k] = s[k]
           /\ Append(s, e)[Len(s) + 1] = e
<1> DEFINE S == {s[k] : k \in 1..Len(s)} \cup {e}
<1>1. s \in [1..Len(s) -> S] /\ Len(s) \in Nat
  BY DEF IsSequence
<1>2. s \in Seq(S)
  BY <1>1
<1>3. e \in S
  OBVIOUS
<1> HIDE DEF S
<1>4. Append(s, e) \in Seq(S)
  BY <1>2, <1>3
<1>5. IsSequence(Append(s, e))
  BY <1>4, OfASet
<1> QED BY <1>2, <1>5

LEMMA WithoutLast ==
    ASSUME NEW s, IsSequence(s), Len(s) > 0
    PROVE  /\ IsSequence(Front(s)) /\ Len(Front(s)) = Len(s) - 1
           /\ \A k \in 1..Len(s) - 1 : Front(s)[k] = s[k]
<1> DEFINE S == {s[k] : k \in 1..Len(s)}
<1>1. s \in Seq(S) /\ Len(s) \in Nat
  BY SequenceOver DEF IsSequence
<1> HIDE DEF S
<1>2. Front(s) = SubSeq(s, 1, Len(s) - 1)
  BY DEF Front
<1>3. /\ Len(Front(s)) = Len(s) - 1 /\ Front(s) \in Seq(S)
      /\ \A k \in 1..Len(s) - 1 : Front(s)[k] = s[k]
  <2>1. \A k \in 1..Len(s) - 1 : s[k] \in S
    BY <1>1
  <2> DEFINE t == SubSeq(s, 1, Len(s) - 1)
  <2>2. /\ t \in Seq(S) /\ Len(t) = IF 1 <= Len(s) - 1 THEN Len(s) - 1 - 1 + 1 ELSE 0
        /\ \A k \in 1..Len(s) - 1 - 1 + 1 : t[k] = s[1 + k - 1]
    BY <1>1, <2>1, SubSeqProperties
  <2> HIDE DEF t
  <2>3. Len(t) = Len(s) - 1
    <3>1. \A n \in Nat : n > 0 => (IF 1 <= n - 1 THEN n - 1 - 1 + 1 ELSE 0) = n - 1
      OBVIOUS
    <3> QED BY <1>1, <2>2, <3>1
  <2>4. ASSUME NEW k \in 1..Len(s) - 1 PROVE t[k] = s[k]
    <3>1. k \in 1..Len(s) - 1 - 1 + 1 /\ 1 + k - 1 = k
      BY <1>1
    <3> QED BY <2>2, <3>1
  <2> QED BY <1>2, <2>2, <2>3, <2>4 DEF t
<1>4. IsSequence(Front(s))
  BY <1>3, OfASet
<1> QED BY <1>3, <1>4

LEMMA OtherLast ==
    ASSUME NEW s, IsSequence(s), Len(s) > 0, NEW e
    PROVE  [s EXCEPT ![Len(s)] = e] = Append(Front(s), e)
<1> DEFINE t == [s EXCEPT ![Len(s)] = e]
           u == Append(Front(s), e)
<1>1. /\ IsSequence(u) /\ Len(u) = Len(s) /\ u[Len(s)] = e
      /\ \A k \in 1..Len(s) - 1 : u[k] = s[k]
  <2>1. IsSequence(Front(s)) /\ Len(Front(s)) = Len(s) - 1 /\ \A k \in 1..Len(s) - 1 : Front(s)[k] = s[k]
    BY WithoutLast
  <2>2. Len(s) \in Nat
    BY DEF IsSequence
  <2> QED BY <2>1, <2>2, Appended
<1>2. t = [k \in 1..Len(s) |-> IF k = Len(s) THEN e ELSE s[k]] /\ Len(s) \in Nat
  BY DEF IsSequence
<1>3. u = [k \in 1..Len(s) |-> u[k]]
  BY <1>1 DEF IsSequence
<1> HIDE DEF t, u
<1>4. \A k \in 1..Len(s) : u[k] = IF k = Len(s) THEN e ELSE s[k]
  BY <1>1, <1>2
<1>5. t = u
  BY <1>2, <1>3, <1>4
<1> QED BY <1>5 DEF t, u

-----------------------------------------------------------------------------
(* The blocks the containers being parsed hold, innermost last.            *)

IsNode(n) ==
    /\ n = [kind |-> n.kind, text |-> n.text, keys |-> n.keys, children |-> n.children,
            blocks |-> n.blocks]
    /\ n.blocks \in Nat

IsFrame(f) == f = [node |-> f.node, key |-> f.key] /\ IsNode(f.node) /\ Len(f.key) \in Nat

IsStack(s) == IsSequence(s) /\ \A k \in 1..Len(s) : IsFrame(s[k])

Weight(f) == f.node.blocks + Len(f.key)

\* The containers hold n blocks, their keys not yet added included.
Hold(s, n) ==
    \E sums \in [0..Len(s) -> Nat] :
      /\ sums[0] = 0 /\ sums[Len(s)] = n
      /\ \A k \in 1..Len(s) : sums[k] = sums[k - 1] + Weight(s[k])

LEMMA NoneHold == ASSUME NEW n PROVE Hold(<<>>, n) <=> n = 0
<1>1. Len(<<>>) = 0
  OBVIOUS
<1>2. Hold(<<>>, n) => n = 0
  BY <1>1 DEF Hold
<1>3. Hold(<<>>, 0)
  <2> DEFINE sums == [k \in 0..Len(<<>>) |-> 0]
  <2>1. sums \in [0..Len(<<>>) -> Nat]
    OBVIOUS
  <2>2. sums[0] = 0 /\ sums[Len(<<>>)] = 0 /\ 1..Len(<<>>) = {}
    BY <1>1
  <2> HIDE DEF sums
  <2> QED BY <2>1, <2>2 DEF Hold
<1>4. ASSUME n = 0 PROVE Hold(<<>>, n)
  BY <1>3, <1>4 DEF Hold
<1> QED BY <1>2, <1>4

LEMMA FrameWeight == ASSUME NEW f, IsFrame(f) PROVE Weight(f) \in Nat
BY DEF IsFrame, IsNode, Weight

LEMMA Pushed ==
    ASSUME NEW s, IsStack(s), NEW n, Hold(s, n), NEW f, IsFrame(f)
    PROVE  /\ IsStack(Append(s, f)) /\ Hold(Append(s, f), n + Weight(f))
           /\ Append(s, f) # <<>> /\ Last(Append(s, f)) = f
<1> DEFINE t == Append(s, f)
           w == Weight(f)
<1>1. /\ IsSequence(t) /\ Len(t) = Len(s) + 1 /\ t[Len(s) + 1] = f
      /\ \A k \in 1..Len(s) : t[k] = s[k]
      /\ Len(s) \in Nat /\ w \in Nat
  BY Appended, FrameWeight DEF IsStack, IsSequence
<1> HIDE DEF t, w
<1>2. IsStack(t)
  <2>1. ASSUME NEW k \in 1..Len(t) PROVE IsFrame(t[k])
    <3>1. CASE k = Len(s) + 1
      BY <1>1, <3>1
    <3>2. CASE k # Len(s) + 1
      <4>1. k \in 1..Len(s)
        BY <1>1, <3>2
      <4> QED BY <1>1, <4>1 DEF IsStack
    <3> QED BY <3>1, <3>2
  <2> QED BY <1>1, <2>1 DEF IsStack
<1>3. PICK sums \in [0..Len(s) -> Nat] :
        /\ sums[0] = 0 /\ sums[Len(s)] = n
        /\ \A k \in 1..Len(s) : sums[k] = sums[k - 1] + Weight(s[k])
  BY DEF Hold
<1>4. DEFINE more == [k \in 0..Len(s) + 1 |-> IF k = Len(s) + 1 THEN n + w ELSE sums[k]]
<1>5. n \in Nat
  BY <1>1, <1>3
<1>6. more \in [0..Len(t) -> Nat] /\ more[0] = 0 /\ more[Len(t)] = n + w
  BY <1>1, <1>3, <1>5
<1>7. ASSUME NEW k \in 1..Len(t) PROVE more[k] = more[k - 1] + Weight(t[k])
  <2>1. CASE k = Len(s) + 1
    <3>1. more[k] = n + w /\ more[k - 1] = n /\ t[k] = f
      BY <1>1, <1>3, <2>1
    <3> QED BY <3>1 DEF w
  <2>2. CASE k # Len(s) + 1
    <3>1. k \in 1..Len(s) /\ more[k] = sums[k] /\ more[k - 1] = sums[k - 1] /\ t[k] = s[k]
      BY <1>1, <2>2
    <3> QED BY <1>3, <3>1
  <2> QED BY <2>1, <2>2
<1> HIDE DEF more
<1>8. Hold(t, n + w)
  BY <1>6, <1>7 DEF Hold
<1>9. t # <<>> /\ Last(t) = f
  BY <1>1 DEF Last
<1> QED BY <1>2, <1>8, <1>9 DEF t, w

LEMMA Popped ==
    ASSUME NEW s, IsStack(s), s # <<>>, NEW n, Hold(s, n)
    PROVE  /\ IsStack(Front(s)) /\ Hold(Front(s), n - Weight(Last(s)))
           /\ IsFrame(Last(s)) /\ Len(s) > 0
<1>1. Len(s) \in Nat /\ Len(s) > 0 /\ IsSequence(s)
  <2>1. Len(s) \in Nat /\ IsSequence(s) /\ s \in Seq({s[k] : k \in 1..Len(s)})
    BY SequenceOver DEF IsStack, IsSequence
  <2> QED BY <2>1
<1> DEFINE t == Front(s)
<1>2. IsSequence(t) /\ Len(t) = Len(s) - 1 /\ \A k \in 1..Len(s) - 1 : t[k] = s[k]
  BY <1>1, WithoutLast
<1>3. Last(s) = s[Len(s)] /\ IsFrame(Last(s))
  BY <1>1 DEF Last, IsStack
<1> HIDE DEF t
<1>4. IsStack(t)
  BY <1>1, <1>2 DEF IsStack
<1>5. PICK sums \in [0..Len(s) -> Nat] :
        /\ sums[0] = 0 /\ sums[Len(s)] = n
        /\ \A k \in 1..Len(s) : sums[k] = sums[k - 1] + Weight(s[k])
  BY DEF Hold
<1> DEFINE less == [k \in 0..Len(s) - 1 |-> sums[k]]
           w == Weight(Last(s))
<1>6. less \in [0..Len(t) -> Nat] /\ less[0] = 0
  BY <1>1, <1>2, <1>5
<1>7. less[Len(t)] = n - w
  <2>1. sums[Len(s)] = sums[Len(s) - 1] + w /\ sums[Len(s) - 1] \in Nat /\ w \in Nat
    BY <1>1, <1>3, <1>5, FrameWeight
  <2>2. less[Len(t)] = sums[Len(s) - 1]
    BY <1>1, <1>2
  <2> HIDE DEF w, less
  <2> QED BY <1>5, <2>1, <2>2
<1>8. ASSUME NEW k \in 1..Len(t) PROVE less[k] = less[k - 1] + Weight(t[k])
  <2>1. k \in 1..Len(s) /\ less[k] = sums[k] /\ less[k - 1] = sums[k - 1] /\ t[k] = s[k]
    BY <1>1, <1>2
  <2> QED BY <1>5, <2>1
<1> HIDE DEF less
<1>9. Hold(t, n - w)
  BY <1>6, <1>7, <1>8 DEF Hold
<1> QED BY <1>1, <1>3, <1>4, <1>9 DEF t

LEMMA Replaced ==
    ASSUME NEW s, IsStack(s), s # <<>>, NEW n, Hold(s, n), NEW f, IsFrame(f)
    PROVE  LET t == [s EXCEPT ![Len(s)] = f]
           IN  /\ IsStack(t) /\ Hold(t, n - Weight(Last(s)) + Weight(f))
               /\ t # <<>> /\ Last(t) = f
<1>1. IsStack(Front(s)) /\ Hold(Front(s), n - Weight(Last(s))) /\ Len(s) > 0
  BY Popped
<1>2. [s EXCEPT ![Len(s)] = f] = Append(Front(s), f)
  BY <1>1, OtherLast DEF IsStack
<1> QED BY <1>1, <1>2, Pushed

-----------------------------------------------------------------------------
(* What the parser has allocated is in the containers it is inside of, and *)
(* in the value just returned.                                             *)

ValueRight == value = <<>> \/ (value = <<value[1]>> /\ IsNode(value[1]))

JsonInv ==
    /\ IsStack(stack) /\ ValueRight
    /\ live \in Int /\ Hold(stack, live - BlocksOf(value))
    /\ at \in {"unused", "value", "key"} => value = <<>>
    /\ at = "key" => stack # <<>> /\ Last(stack).key = <<>>
    /\ at \in {"unused", "end", "over"} => stack = <<>>

LEMMA JsonInitially == JsonInit => JsonInv
<1> SUFFICES ASSUME JsonInit PROVE JsonInv
  OBVIOUS
<1>1. stack = <<>> /\ value = <<>> /\ live = 0 /\ at = "unused"
  BY DEF JsonInit
<1>2. IsStack(<<>>)
  BY DEF IsStack, IsSequence
<1>3. live - BlocksOf(value) = 0
  BY <1>1 DEF BlocksOf
<1> QED BY <1>1, <1>2, <1>3, NoneHold DEF JsonInv, ValueRight

LEMMA BlocksTyped == ASSUME JsonInv PROVE BlocksOf(value) \in Nat
BY DEF JsonInv, ValueRight, BlocksOf, IsNode

LEMMA NewNode ==
    ASSUME NEW kind, NEW text
    PROVE  IsNode(Node(kind, text)) /\ (kind \in {"object", "array"} => Node(kind, text).blocks = 1)
BY DEF IsNode, Node

\* A value where none was: its blocks are those allocated for it.
LEMMA ReturnsNode ==
    ASSUME JsonInv, value = <<>>, NEW n, IsNode(n), value' = <<n>>, live' = live + n.blocks,
           stack' = stack, at' = "returned"
    PROVE  JsonInv'
<1>1. BlocksOf(value) = 0 /\ BlocksOf(value)' = n.blocks /\ n.blocks \in Nat /\ live \in Int
  BY DEF BlocksOf, IsNode, JsonInv
<1>2. live' - BlocksOf(value)' = live - BlocksOf(value) /\ live' \in Int
  BY <1>1
<1>3. ValueRight'
  BY DEF ValueRight
<1> QED BY <1>2, <1>3 DEF JsonInv

LEMMA ReturnsNull ==
    ASSUME JsonInv, value = <<>>, value' = <<>>, live' = live, stack' = stack, at' = "returned"
    PROVE  JsonInv'
BY DEF JsonInv, ValueRight, BlocksOf

\* Out of a container: all it holds is freed, with the value not yet in it.
LEMMA GivesUp ==
    ASSUME JsonInv, stack # <<>>, NEW more, more = Len(Top.key) + BlocksOf(value), GiveUpContainer(more)
    PROVE  JsonInv'
<1>1. /\ IsStack(Front(stack)) /\ Hold(Front(stack), live - BlocksOf(value) - Weight(Last(stack)))
      /\ IsFrame(Last(stack))
  BY Popped DEF JsonInv
<1>2. /\ at' = "returned" /\ value' = <<>> /\ stack' = Front(stack)
      /\ live' = live - Top.node.blocks - more /\ Top = Last(stack)
  BY DEF GiveUpContainer, ReturnNull, Top
<1>3. /\ Top.node.blocks \in Nat /\ Len(Top.key) \in Nat /\ live \in Int /\ BlocksOf(value) \in Nat
      /\ Weight(Last(stack)) = Top.node.blocks + Len(Top.key)
  BY <1>1, <1>2, BlocksTyped DEF IsFrame, IsNode, JsonInv, Weight
<1>4. live' \in Int /\ live' - 0 = live - BlocksOf(value) - Weight(Last(stack)) /\ BlocksOf(value)' = 0
  <2>1. BlocksOf(value)' = 0
    BY <1>2 DEF BlocksOf
  <2>2. \A l \in Int, b, k, v \in Nat : l - b - (k + v) \in Int /\ l - b - (k + v) - 0 = l - v - (b + k)
    OBVIOUS
  <2> HIDE DEF BlocksOf
  <2>3. live' = live - Top.node.blocks - (Len(Top.key) + BlocksOf(value))
    BY <1>2
  <2> QED BY <1>3, <2>1, <2>2, <2>3
<1> QED BY <1>1, <1>2, <1>4 DEF JsonInv, ValueRight

\* The child is added to the innermost container.
LEMMA GrownRight ==
    ASSUME JsonInv, ChildHere
    PROVE  /\ IsNode(Grown) /\ NewArrays \in Nat
           /\ Grown.blocks = Weight(Top) + NewArrays + BlocksOf(value)
           /\ Top = Last(stack) /\ stack # <<>>
<1>1. stack # <<>> /\ value # <<>> /\ Top = Last(stack)
  BY DEF ChildHere, Top
<1>2. IsFrame(Top) /\ IsNode(value[1]) /\ BlocksOf(value) = value[1].blocks
  BY <1>1, Popped DEF JsonInv, ValueRight, BlocksOf
<1>3. Len(Top.key) \in Nat /\ IsNode(Top.node)
  BY <1>2 DEF IsFrame
<1>4. NewArrays \in Nat
  <2> DEFINE forChild == IF Top.node.children = <<>> THEN 1 ELSE 0
             forKey   == IF Top.node.keys = <<>> THEN Len(Top.key) ELSE 0
  <2>1. forChild \in Nat /\ forKey \in Nat
    BY <1>3
  <2>2. NewArrays = forChild + forKey
    BY DEF NewArrays
  <2> HIDE DEF forChild, forKey
  <2> QED BY <2>1, <2>2
<1> DEFINE n == Top.node
           children == Append(n.children, value[1])
           keys == n.keys \o Top.key
           blocks == n.blocks + NewArrays + Len(Top.key) + value[1].blocks
<1>5. blocks \in Nat /\ blocks = Weight(Top) + NewArrays + BlocksOf(value)
  BY <1>2, <1>3, <1>4 DEF IsNode, Weight
<1>6. Grown = [n EXCEPT !.children = children, !.keys = keys, !.blocks = blocks]
  BY DEF Grown
<1>7. IsNode(n)
  BY <1>3
<1> HIDE DEF n, children, keys, blocks
<1>8. Grown = [kind |-> n.kind, text |-> n.text, keys |-> keys, children |-> children, blocks |-> blocks]
  BY <1>6, <1>7 DEF IsNode
<1>9. IsNode(Grown) /\ Grown.blocks = blocks
  BY <1>5, <1>8 DEF IsNode
<1> QED BY <1>1, <1>4, <1>5, <1>9

-----------------------------------------------------------------------------
LEMMA ScalarStep ==
    ASSUME JsonInv, at = "value", NEW kind, NEW text, NEW next, Scalar(Node(kind, text), next)
    PROVE  JsonInv'
<1>1. value = <<>>
  BY DEF JsonInv
<1> QED BY <1>1, NewNode, ReturnsNode DEF Scalar, ReturnNode

LEMMA ScalarSteps == JsonInv /\ (ParseString \/ ParseNumber \/ ParseLiteral) => JsonInv'
<1> SUFFICES ASSUME JsonInv, ParseString \/ ParseNumber \/ ParseLiteral PROVE JsonInv'
  OBVIOUS
<1>1. CASE ParseString
  <2>1. PICK text, next : at = "value" /\ Scalar(Node("string", text), next)
    BY <1>1 DEF ParseString
  <2> QED BY <2>1, ScalarStep
<1>2. CASE ParseNumber
  <2>1. PICK text, next : at = "value" /\ Scalar(Node("number", text), next)
    BY <1>2 DEF ParseNumber
  <2> QED BY <2>1, ScalarStep
<1>3. CASE ParseLiteral
  <2>1. at = "value" /\ \E kind, text, next : Scalar(Node(kind, text), next)
    <3>1. CASE UnitAt(Here) = "null"
      BY <1>3, <3>1 DEF ParseLiteral
    <3>2. CASE UnitAt(Here) # "null"
      BY <1>3, <3>2 DEF ParseLiteral
    <3> QED BY <3>1, <3>2
  <2> QED BY <2>1, ScalarStep
<1> QED BY <1>1, <1>2, <1>3

LEMMA NothingSteps == JsonInv /\ (ParseNothing \/ TooDeep \/ StarvedValue) => JsonInv'
<1> SUFFICES ASSUME JsonInv, ParseNothing \/ TooDeep \/ StarvedValue PROVE JsonInv'
  OBVIOUS
<1>1. at = "value" /\ at' = "returned" /\ value' = <<>> /\ UNCHANGED <<stack, live>>
  BY DEF ParseNothing, TooDeep, StarvedValue, ReturnNull
<1> QED BY <1>1, ReturnsNull DEF JsonInv

LEMMA OpenStep == JsonInv /\ Open => JsonInv'
<1> SUFFICES ASSUME JsonInv, Open PROVE JsonInv'
  OBVIOUS
<1>1. PICK kind, text :
        /\ kind \in {"object", "array"} /\ at = "value" /\ live' = live + 1
        /\ \/ ReturnNode(Node(kind, text)) /\ stack' = stack
           \/ /\ at' = NextPart(Node(kind, text)) /\ value' = value
              /\ stack' = Append(stack, [node |-> Node(kind, text), key |-> <<>>])
  BY DEF Open
<1>2. value = <<>>
  BY <1>1 DEF JsonInv
<1> DEFINE n == Node(kind, text)
<1>3. IsNode(n) /\ n.blocks = 1
  BY <1>1, NewNode
<1> HIDE DEF n
<1>4. CASE ReturnNode(n) /\ stack' = stack
  BY <1>1, <1>2, <1>3, <1>4, ReturnsNode DEF ReturnNode
<1>5. CASE /\ at' = NextPart(n) /\ value' = value
           /\ stack' = Append(stack, [node |-> n, key |-> <<>>])
  <2> DEFINE f == [node |-> n, key |-> <<>>]
  <2>1. IsFrame(f) /\ Weight(f) = 1 /\ f.key = <<>>
    BY <1>3 DEF IsFrame, Weight
  <2> HIDE DEF f
  <2>2. /\ IsStack(stack') /\ Hold(stack', live - BlocksOf(value) + Weight(f))
        /\ stack' # <<>> /\ Last(stack') = f
    BY <1>5, <2>1, Pushed DEF JsonInv, f
  <2>3. live - BlocksOf(value) + Weight(f) = live' - BlocksOf(value)' /\ live' \in Int
    <3>1. live \in Int /\ BlocksOf(value) = 0 /\ BlocksOf(value)' = 0
      BY <1>2, <1>5 DEF JsonInv, BlocksOf
    <3> QED BY <1>1, <2>1, <3>1
  <2>4. at' \in {"key", "value"}
    BY <1>5 DEF NextPart
  <2>5. Last(stack)' = f
    BY <2>2 DEF Last
  <2> QED BY <1>2, <1>5, <2>1, <2>2, <2>3, <2>4, <2>5 DEF JsonInv, ValueRight
<1> QED BY <1>1, <1>4, <1>5 DEF n

LEMMA ParseKeyStep == JsonInv /\ ParseKey => JsonInv'
<1> SUFFICES ASSUME JsonInv, ParseKey PROVE JsonInv'
  OBVIOUS
<1>1. /\ at = "key" /\ at' = "value" /\ value' = value /\ live' = live + 1
      /\ stack' = [stack EXCEPT ![Len(stack)].key = <<KeyBody.text>>]
      /\ stack # <<>> /\ Last(stack).key = <<>> /\ value = <<>>
  BY DEF ParseKey, JsonInv
<1> DEFINE f == [Last(stack) EXCEPT !.key = <<KeyBody.text>>]
<1>2. IsFrame(Last(stack)) /\ Len(stack) > 0 /\ IsStack(stack) /\ Hold(stack, live - BlocksOf(value))
  BY <1>1, Popped DEF JsonInv
<1>3. stack' = [stack EXCEPT ![Len(stack)] = f]
  BY <1>1 DEF Last
<1>4. f = [node |-> Last(stack).node, key |-> <<KeyBody.text>>]
  BY <1>2 DEF IsFrame
<1>5. IsFrame(f) /\ Weight(f) = Weight(Last(stack)) + 1
  <2>1. /\ Last(stack).node.blocks \in Nat /\ IsNode(Last(stack).node)
        /\ Len(Last(stack).key) = 0 /\ Len(<<KeyBody.text>>) = 1
    BY <1>1, <1>2 DEF IsFrame, IsNode
  <2> HIDE DEF f
  <2>2. f.node = Last(stack).node /\ f.key = <<KeyBody.text>>
    BY <1>4
  <2>3. IsFrame(f)
    BY <1>4, <2>1, <2>2 DEF IsFrame
  <2>4. Weight(f) = Last(stack).node.blocks + 1 /\ Weight(Last(stack)) = Last(stack).node.blocks + 0
    BY <2>1, <2>2 DEF Weight
  <2>5. Weight(f) = Weight(Last(stack)) + 1
    BY <2>1, <2>4
  <2> QED BY <2>3, <2>5
<1> HIDE DEF f
<1>6. IsStack(stack') /\ Hold(stack', live - BlocksOf(value) - Weight(Last(stack)) + Weight(f)) /\ stack' # <<>>
  <2> DEFINE t == [stack EXCEPT ![Len(stack)] = f]
             n == live - BlocksOf(value)
  <2>1. Hold(stack, n) /\ IsStack(stack) /\ stack # <<>> /\ IsFrame(f)
    BY <1>1, <1>2, <1>5
  <2> HIDE DEF n
  <2>2. IsStack(t) /\ Hold(t, n - Weight(Last(stack)) + Weight(f)) /\ t # <<>>
    BY <2>1, Replaced
  <2>3. stack' = t
    BY <1>3
  <2> HIDE DEF t
  <2> QED BY <2>2, <2>3 DEF n
<1>7. live - BlocksOf(value) - Weight(Last(stack)) + Weight(f) = live' - BlocksOf(value)' /\ live' \in Int
  <2>1. live \in Int /\ BlocksOf(value) = 0 /\ BlocksOf(value)' = 0 /\ Weight(Last(stack)) \in Nat
    BY <1>1, <1>2, FrameWeight DEF JsonInv, BlocksOf
  <2> QED BY <1>1, <1>5, <2>1
<1> QED BY <1>1, <1>6, <1>7 DEF JsonInv, ValueRight

LEMMA GiveUpSteps ==
    JsonInv /\ (NoKey \/ NoChild \/ NoSeparator \/ StarvedKey \/ StarvedChild) => JsonInv'
<1> SUFFICES ASSUME JsonInv, NoKey \/ NoChild \/ NoSeparator \/ StarvedKey \/ StarvedChild PROVE JsonInv'
  OBVIOUS
<1>1. CASE NoKey \/ StarvedKey
  <2>1. /\ at = "key" /\ stack # <<>> /\ Last(stack).key = <<>> /\ value = <<>> /\ GiveUpContainer(0)
    BY <1>1 DEF NoKey, StarvedKey, JsonInv
  <2>2. 0 = Len(Top.key) + BlocksOf(value)
    BY <2>1 DEF Top, BlocksOf
  <2> QED BY <2>1, <2>2, GivesUp
<1>2. CASE NoChild
  <2>1. stack # <<>> /\ value = <<>> /\ GiveUpContainer(Len(Top.key))
    BY <1>2 DEF NoChild
  <2>2. Len(Top.key) = Len(Top.key) + BlocksOf(value)
    <3>1. Len(Top.key) \in Nat
      BY <2>1, Popped DEF JsonInv, Top, IsFrame
    <3> QED BY <2>1, <3>1 DEF BlocksOf
  <2> QED BY <2>1, <2>2, GivesUp
<1>3. CASE NoSeparator \/ StarvedChild
  <2>1. stack # <<>> /\ value # <<>> /\ GiveUpContainer(Len(Top.key) + value[1].blocks)
    BY <1>3 DEF NoSeparator, StarvedChild, ChildHere
  <2>2. Len(Top.key) + value[1].blocks = Len(Top.key) + BlocksOf(value)
    BY <2>1 DEF BlocksOf
  <2> QED BY <2>1, <2>2, GivesUp
<1> QED BY <1>1, <1>2, <1>3

LEMMA NextChildStep == JsonInv /\ NextChild => JsonInv'
<1> SUFFICES ASSUME JsonInv, NextChild PROVE JsonInv'
  OBVIOUS
<1>1. /\ ChildHere /\ at' = NextPart(Grown) /\ live' = live + NewArrays /\ value' = <<>>
      /\ stack' = [stack EXCEPT ![Len(stack)] = [node |-> Grown, key |-> <<>>]]
  BY DEF NextChild
<1>2. /\ IsNode(Grown) /\ NewArrays \in Nat /\ Top = Last(stack) /\ stack # <<>>
      /\ Grown.blocks = Weight(Top) + NewArrays + BlocksOf(value)
  BY <1>1, GrownRight
<1> DEFINE f == [node |-> Grown, key |-> <<>>]
<1>3. IsFrame(f) /\ f.key = <<>> /\ Weight(f) = Grown.blocks
  BY <1>2 DEF IsFrame, IsNode, Weight
<1> HIDE DEF f
<1>4. /\ IsStack(stack') /\ Hold(stack', live - BlocksOf(value) - Weight(Last(stack)) + Weight(f))
      /\ stack' # <<>> /\ Last(stack') = f
  BY <1>1, <1>2, <1>3, Replaced DEF JsonInv, f
<1>5. live - BlocksOf(value) - Weight(Last(stack)) + Weight(f) = live' - BlocksOf(value)' /\ live' \in Int
  <2>1. live \in Int /\ BlocksOf(value) \in Nat /\ BlocksOf(value)' = 0
    BY <1>1, BlocksTyped DEF JsonInv, BlocksOf
  <2>2. Weight(Last(stack)) \in Nat
    BY <1>2, Popped, FrameWeight DEF JsonInv
  <2> QED BY <1>1, <1>2, <1>3, <2>1, <2>2
<1>6. at' \in {"key", "value"} /\ Last(stack)' = f
  BY <1>1, <1>4 DEF NextPart, Last
<1> QED BY <1>1, <1>3, <1>4, <1>5, <1>6 DEF JsonInv, ValueRight

LEMMA CloseContainerStep == JsonInv /\ CloseContainer => JsonInv'
<1> SUFFICES ASSUME JsonInv, CloseContainer PROVE JsonInv'
  OBVIOUS
<1>1. /\ ChildHere /\ at' = "returned" /\ value' = <<Grown>> /\ live' = live + NewArrays
      /\ stack' = Front(stack)
  BY DEF CloseContainer, ReturnNode
<1>2. /\ IsNode(Grown) /\ NewArrays \in Nat /\ Top = Last(stack) /\ stack # <<>>
      /\ Grown.blocks = Weight(Top) + NewArrays + BlocksOf(value)
  BY <1>1, GrownRight
<1>3. IsStack(stack') /\ Hold(stack', live - BlocksOf(value) - Weight(Last(stack)))
  BY <1>1, <1>2, Popped DEF JsonInv
<1>4. live - BlocksOf(value) - Weight(Last(stack)) = live' - BlocksOf(value)' /\ live' \in Int
  <2>1. live \in Int /\ BlocksOf(value) \in Nat /\ BlocksOf(value)' = Grown.blocks
    BY <1>1, BlocksTyped DEF JsonInv, BlocksOf
  <2>2. Weight(Last(stack)) \in Nat
    BY <1>2, Popped, FrameWeight DEF JsonInv
  <2> QED BY <1>1, <1>2, <2>1, <2>2
<1>5. ValueRight'
  BY <1>1, <1>2 DEF ValueRight
<1> QED BY <1>1, <1>3, <1>4, <1>5 DEF JsonInv

LEMMA FinishStep == JsonInv /\ Finish => JsonInv'
<1> SUFFICES ASSUME JsonInv, Finish PROVE JsonInv'
  OBVIOUS
<1>1. /\ stack = <<>> /\ stack' = <<>> /\ at' = "end"
      /\ \/ value # <<>> /\ value' = <<>> /\ live' = live - value[1].blocks
         \/ value' = value /\ live' = live
  BY DEF Finish
<1>2. live \in Int /\ BlocksOf(value) \in Nat
  BY BlocksTyped DEF JsonInv
<1>3. live' \in Int /\ live' - BlocksOf(value)' = live - BlocksOf(value) /\ ValueRight'
  <2>1. CASE value # <<>> /\ value' = <<>> /\ live' = live - value[1].blocks
    <3>1. BlocksOf(value) = value[1].blocks /\ BlocksOf(value)' = 0 /\ ValueRight'
      BY <2>1 DEF BlocksOf, ValueRight
    <3> QED BY <1>2, <2>1, <3>1
  <2>2. CASE value' = value /\ live' = live
    BY <1>2, <2>2 DEF BlocksOf, JsonInv, ValueRight
  <2> QED BY <1>1, <2>1, <2>2
<1> QED BY <1>1, <1>3 DEF JsonInv

LEMMA JsonStep == JsonInv /\ JsonNext => JsonInv'
BY ScalarSteps, NothingSteps, OpenStep, ParseKeyStep, GiveUpSteps, NextChildStep,
   CloseContainerStep, FinishStep DEF JsonNext

-----------------------------------------------------------------------------
(* What http_request holds wherever it stands, and what it has sent.       *)

HeldIn(p, failure) ==
    CASE p = "connect" -> {"addresses"}
      [] p = "head"    -> {"socket"}
      [] p = "send"    -> {"head", "socket"}
      [] p = "receive" -> {"raw", "socket"}
      [] p = "read"    -> {"raw"}
      [] p = "done"    -> IF failure = NoFault THEN {"body"} ELSE {}
      [] OTHER         -> {}

\* With a failure there is a message, unless http_error found no memory for it.
HoldsAt(h, p, failure) ==
    \/ h = HeldIn(p, failure)
    \/ p = "done" /\ failure # NoFault /\ h = {"message"}

AllOut == phase \in {"receive", "read"} \/ fault.what = "read" => sent = RequestLength

HttpInv ==
    /\ phase \in Phases /\ AllOut
    /\ phase # "done" => fault = NoFault

(***************************************************************************)
(* post() gives back what it holds in the very step it ends in, and reads  *)
(* a body only if there is one.                                            *)
(***************************************************************************)
PostInv ==
    /\ at # "unused" => phase = "done" /\ fault = NoFault
    /\ result = "none" => HoldsAt(held, phase, fault) /\ at # "over"
    /\ result # "none" => /\ held = {} /\ phase = "done"
                          /\ at = "over" \/ (at = "unused" /\ fault # NoFault)
                          /\ result # "ok" => value = <<>>
    /\ result = "HYT00" => fault.what = "read"

AnswerInv == HttpInv /\ JsonInv /\ PostInv

LEMMA AnswerInitially == Init => AnswerInv
<1> SUFFICES ASSUME Init PROVE AnswerInv
  OBVIOUS
<1>1. JsonInv
  BY JsonInitially DEF Init
<1>2. HttpInv /\ PostInv
  BY DEF Init, HttpInit, JsonInit, HttpInv, AllOut, Phases, NoFault, PostInv, HeldIn, HoldsAt
<1> QED BY <1>1, <1>2 DEF AnswerInv

\* A step of the exchange passes from what one phase holds to what the next does.
LEMMA HttpStep ==
    ASSUME AnswerInv, HttpOwn \/ HttpServer, result = "none"
    PROVE  HttpInv' /\ HoldsAt(held', phase', fault') /\ phase # "done"
<1> USE DEF AnswerInv, HttpInv, PostInv, AllOut, Phases, NoFault, HeldIn, HoldsAt, Fails, Says
<1>1. CASE Resolve \/ CannotResolve
  BY <1>1 DEF Resolve, CannotResolve
<1>2. CASE Connect \/ ConnectFails \/ NoAddressLeft
  BY <1>2 DEF Connect, ConnectFails, NoAddressLeft
<1>3. CASE MakeHead \/ NoHead
  BY <1>3 DEF MakeHead, NoHead
<1>4. CASE Send \/ SendFails \/ AllSent
  BY <1>4 DEF Send, SendFails, AllSent
<1>5. CASE Receive \/ ReceiveEnds \/ ReceiveFails \/ ReceiveTimesOut
  BY <1>5 DEF Receive, ReceiveEnds, ReceiveFails, ReceiveTimesOut, WaitFails
<1>6. CASE TakeNothing \/ TakeBody \/ NoRoomForBody
  BY <1>6 DEF TakeNothing, TakeBody, NoRoomForBody
<1> QED BY <1>1, <1>2, <1>3, <1>4, <1>5, <1>6 DEF HttpOwn, HttpServer

LEMMA ExchangeStep == AnswerInv /\ Exchange => AnswerInv'
<1> SUFFICES ASSUME AnswerInv, Exchange PROVE AnswerInv'
  OBVIOUS
<1>1. (HttpOwn \/ HttpServer) /\ UNCHANGED <<jsonVars, result>>
  BY DEF Exchange
<1>2. phase # "done"
  BY <1>1 DEF HttpOwn, HttpServer, Resolve, CannotResolve, Connect, ConnectFails, NoAddressLeft,
              MakeHead, NoHead, Send, SendFails, AllSent, Receive, ReceiveEnds, ReceiveFails,
              ReceiveTimesOut, WaitFails, TakeNothing, TakeBody, NoRoomForBody
<1>3. result = "none" /\ at = "unused"
  BY <1>2 DEF AnswerInv, PostInv
<1>4. HttpInv' /\ HoldsAt(held', phase', fault')
  BY <1>1, <1>3, HttpStep
<1>5. UNCHANGED <<at, stack, value, live, result>>
  BY <1>1 DEF jsonVars
<1>6. JsonInv'
  BY <1>5 DEF AnswerInv, JsonInv, ValueRight, BlocksOf
<1>7. HoldsAt(held, phase, fault)' = HoldsAt(held', phase', fault')
  BY DEF HoldsAt, HeldIn, NoFault
<1>8. PostInv'
  BY <1>3, <1>4, <1>5, <1>7 DEF PostInv
<1> QED BY <1>4, <1>6, <1>8 DEF AnswerInv

LEMMA TransportFailedStep == AnswerInv /\ TransportFailed => AnswerInv'
<1> SUFFICES ASSUME AnswerInv, TransportFailed PROVE AnswerInv'
  OBVIOUS
<1>1. /\ result = "none" /\ phase = "done" /\ fault # NoFault
      /\ result' = (IF TimedOutReading THEN "HYT00" ELSE "08S01") /\ held' = held \ {"message"}
      /\ UNCHANGED <<phase, sent, fault, at, stack, value, live>>
  BY DEF TransportFailed, jsonVars
<1>2. at = "unused" /\ held \subseteq {"message"} /\ value = <<>>
  BY <1>1 DEF AnswerInv, PostInv, HeldIn, HoldsAt, JsonInv
<1>3. HttpInv' /\ JsonInv'
  BY <1>1 DEF AnswerInv, HttpInv, AllOut, JsonInv, ValueRight, BlocksOf
<1>4. held' = {} /\ result' \in {"HYT00", "08S01"} /\ (result' = "HYT00" => fault.what = "read")
  BY <1>1, <1>2 DEF TimedOutReading
<1>5. PostInv'
  BY <1>1, <1>2, <1>4 DEF PostInv
<1> QED BY <1>3, <1>5 DEF AnswerInv

LEMMA ReadStep == AnswerInv /\ (ReadBody \/ Reading) => AnswerInv'
<1> SUFFICES ASSUME AnswerInv, ReadBody \/ Reading PROVE AnswerInv'
  OBVIOUS
<1>1. UNCHANGED <<phase, sent, fault, held, result>>
  BY DEF ReadBody, Reading, httpVars
<1>2. HttpInv'
  BY <1>1 DEF AnswerInv, HttpInv, AllOut
<1>3. JsonInv' /\ phase = "done" /\ fault = NoFault /\ at' # "over" /\ result = "none"
  <2>1. CASE ReadBody
    <3>1. /\ phase = "done" /\ fault = NoFault /\ at = "unused" /\ at' = "value"
          /\ UNCHANGED <<stack, value, live>>
      BY <2>1 DEF ReadBody, Parse
    <3>2. result = "none"
      BY <3>1 DEF AnswerInv, PostInv
    <3> QED BY <3>1, <3>2 DEF AnswerInv, JsonInv, ValueRight, BlocksOf
  <2>2. CASE Reading
    <3>1. JsonNext /\ JsonInv'
      BY <2>2, JsonStep DEF Reading, AnswerInv
    <3>2. at \in {"value", "key", "returned"}
      BY <3>1 DEF JsonNext, ParseString, ParseNumber, ParseLiteral, ParseNothing, TooDeep, Open,
                  ParseKey, NoKey, NextChild, CloseContainer, NoSeparator, NoChild, Finish,
                  StarvedValue, StarvedKey, StarvedChild, ChildHere
    <3>3. at' \in {"value", "key", "returned", "end"}
      BY <3>1 DEF JsonNext, ParseString, ParseNumber, ParseLiteral, ParseNothing, TooDeep, Open,
                  ParseKey, NoKey, NextChild, CloseContainer, NoSeparator, NoChild, Finish,
                  StarvedValue, StarvedKey, StarvedChild, Scalar, ReturnNull, ReturnNode,
                  GiveUpContainer, NextPart
    <3>4. phase = "done" /\ fault = NoFault /\ result = "none"
      BY <3>2 DEF AnswerInv, PostInv
    <3> QED BY <3>1, <3>3, <3>4
  <2> QED BY <2>1, <2>2
<1>4. HoldsAt(held, phase, fault)' = HoldsAt(held, phase, fault)
  BY <1>1 DEF HoldsAt, HeldIn, NoFault
<1>5. PostInv'
  BY <1>1, <1>3, <1>4 DEF AnswerInv, PostInv
<1> QED BY <1>2, <1>3, <1>5 DEF AnswerInv

LEMMA VerdictStep ==
    ASSUME AnswerInv, at = "end", NEW verdict \in {"ok", "refused", "08S01"}, AnswerIs(verdict)
    PROVE  AnswerInv'
<1>1. /\ result' = verdict /\ at' = "over" /\ held' = held \ {"body"}
      /\ UNCHANGED <<phase, sent, fault, stack>>
      /\ \/ verdict = "ok" /\ UNCHANGED <<value, live>>
         \/ value' = <<>> /\ live' = live - BlocksOf(value)
  BY DEF AnswerIs
<1>2. result = "none" /\ phase = "done" /\ fault = NoFault /\ held = {"body"} /\ stack = <<>>
  BY DEF AnswerInv, PostInv, HeldIn, HoldsAt, JsonInv
<1>3. HttpInv'
  BY <1>1 DEF AnswerInv, HttpInv, AllOut
<1>4. live' \in Int /\ live' - BlocksOf(value)' = live - BlocksOf(value) /\ ValueRight'
  <2>1. live \in Int /\ BlocksOf(value) \in Nat
    BY BlocksTyped DEF AnswerInv, JsonInv
  <2>2. CASE verdict = "ok" /\ UNCHANGED <<value, live>>
    BY <2>1, <2>2 DEF AnswerInv, JsonInv, ValueRight, BlocksOf
  <2>3. CASE value' = <<>> /\ live' = live - BlocksOf(value)
    <3>1. BlocksOf(value)' = 0 /\ ValueRight'
      BY <2>3 DEF BlocksOf, ValueRight
    <3> QED BY <2>1, <2>3, <3>1
  <2> QED BY <1>1, <2>2, <2>3
<1>5. JsonInv'
  BY <1>1, <1>2, <1>4 DEF AnswerInv, JsonInv
<1>6. PostInv'
  BY <1>1, <1>2 DEF PostInv
<1> QED BY <1>3, <1>5, <1>6 DEF AnswerInv

LEMMA AnswerStep == AnswerInv /\ [Next]_vars => AnswerInv'
<1> SUFFICES ASSUME AnswerInv, [Next]_vars PROVE AnswerInv'
  OBVIOUS
<1>1. CASE Unreadable \/ Succeeded \/ RefusedByEngine
  BY <1>1, VerdictStep DEF Unreadable, Succeeded, RefusedByEngine
<1>2. CASE UNCHANGED vars
  <2>1. UNCHANGED <<phase, sent, fault, held, at, stack, value, live, result>>
    BY <1>2 DEF vars, httpVars, jsonVars
  <2> QED BY <2>1 DEF AnswerInv, HttpInv, AllOut, JsonInv, ValueRight, BlocksOf, PostInv, HeldIn, HoldsAt, NoFault
<1> QED BY <1>1, <1>2, ExchangeStep, TransportFailedStep, ReadStep DEF Next

LEMMA AnswerAlways == Spec => []AnswerInv
BY AnswerInitially, AnswerStep, PTL DEF Spec

-----------------------------------------------------------------------------
(***************************************************************************)
(* Whatever the document, wherever the exchange breaks and whichever       *)
(* allocation fails: when post() returns, no socket, buffer, message or    *)
(* node is left but the tree it hands on (http_request, parse_array,       *)
(* parse_object, node_add_child, post).                                    *)
(***************************************************************************)
THEOREM EverythingGivenBack == Spec => []NothingLeaks
<1>1. AnswerInv => NothingLeaks
  <2> SUFFICES ASSUME AnswerInv, result # "none" PROVE NothingLeaks
    BY DEF NothingLeaks
  <2>1. held = {} /\ stack = <<>> /\ (result # "ok" => value = <<>>)
    BY DEF AnswerInv, PostInv, JsonInv
  <2>2. live = BlocksOf(value)
    <3>1. live - BlocksOf(value) = 0
      BY <2>1, NoneHold DEF AnswerInv, JsonInv
    <3>2. live \in Int /\ BlocksOf(value) \in Nat
      BY BlocksTyped DEF AnswerInv, JsonInv
    <3> HIDE DEF BlocksOf
    <3> QED BY <3>1, <3>2
  <2>3. result # "ok" => BlocksOf(value) = 0
    BY <2>1 DEF BlocksOf
  <2> QED BY <2>1, <2>2, <2>3 DEF NothingLeaks
<1> QED BY <1>1, AnswerAlways, PTL

(***************************************************************************)
(* HYT00, which tells the application that its statement may be running,   *)
(* is only ever said once all of the request was sent, however it was      *)
(* split and whatever failed (timed_out, send_all, read_all).              *)
(***************************************************************************)
THEOREM TimeoutsComeAfterSending == Spec => []TimeoutMeansSent
<1>1. AnswerInv => TimeoutMeansSent
  BY DEF AnswerInv, PostInv, HttpInv, AllOut, TimeoutMeansSent
<1> QED BY <1>1, AnswerAlways, PTL

-----------------------------------------------------------------------------
(* The answer as it was written: units, and where each of them stands.     *)

Unit ==
  [is : {"status", "headers", "blank", "size", "CR", "LF", "data"}, size : Nat, unit : STRING \cup {"none"}]

LEMMA Joins ==
    ASSUME NEW S, NEW a \in Seq(S), NEW b \in Seq(S)
    PROVE  /\ a \o b \in Seq(S) /\ Len(a \o b) = Len(a) + Len(b)
           /\ \A i \in 1..Len(a) : (a \o b)[i] = a[i]
           /\ \A i \in 1..Len(b) : (a \o b)[Len(a) + i] = b[i]
<1>1. Len(a) \in Nat /\ Len(b) \in Nat
  OBVIOUS
<1>2. /\ a \o b \in Seq(S) /\ Len(a \o b) = Len(a) + Len(b)
      /\ \A i \in 1..Len(a) + Len(b) : (a \o b)[i] = IF i <= Len(a) THEN a[i] ELSE b[i - Len(a)]
  BY ConcatProperties
<1> DEFINE c == a \o b
           m == Len(a)
           n == Len(b)
<1> HIDE DEF c
<1>3. \A i \in 1..m : c[i] = a[i]
  <2> TAKE i \in 1..m
  <2>1. i \in 1..m + n /\ i <= m
    BY <1>1
  <2> QED BY <1>2, <2>1 DEF c
<1>4. \A i \in 1..n : c[m + i] = b[i]
  <2> TAKE i \in 1..n
  <2> DEFINE j == m + i
  <2>1. j \in 1..m + n /\ ~(j <= m) /\ j - m = i
    BY <1>1
  <2> HIDE DEF j
  <2>2. c[j] = b[i]
    BY <1>2, <2>1 DEF c
  <2> QED BY <2>2 DEF j
<1> QED BY <1>2, <1>3, <1>4 DEF c

\* The same, of a name for the whole.
IsJoined(c, a, b, m, n) ==
    /\ c \in Seq(Unit) /\ Len(c) = m + n
    /\ \A i \in 1..m : c[i] = a[i]
    /\ \A i \in 1..n : c[m + i] = b[i]

LEMMA JoinedUnits ==
    \A a, b \in Seq(Unit) : IsJoined(a \o b, a, b, Len(a), Len(b))
BY Joins DEF IsJoined

LEMMA UnitsAre ==
    /\ \A n \in Nat : Size(n) \in Unit
    /\ Line("CR") \in Unit /\ Line("LF") \in Unit /\ Line("status") \in Unit
    /\ Line("headers") \in Unit /\ Line("blank") \in Unit
BY DEF Size, Line, Unit

LEMMA DataIs ==
    ASSUME NEW t \in Seq(STRING)
    PROVE  /\ Data(t) \in Seq(Unit) /\ Len(Data(t)) = Len(t)
           /\ \A k \in 1..Len(t) : Data(t)[k] = [is |-> "data", size |-> 0, unit |-> t[k]]
<1>1. Len(t) \in Nat /\ \A k \in 1..Len(t) : t[k] \in STRING
  OBVIOUS
<1>2. \A k \in 1..Len(t) : [is |-> "data", size |-> 0, unit |-> t[k]] \in Unit
  BY <1>1 DEF Unit
<1> QED BY <1>1, <1>2 DEF Data

\* A chunk, and what follows it.
ChunkAt(c, t, rest) ==
    /\ c \in Seq(Unit) /\ Len(c) = 5 + Len(t) + Len(rest)
    /\ c[1] = Size(Len(t)) /\ c[2] = Line("CR") /\ c[3] = Line("LF")
    /\ \A k \in 1..Len(t) : c[3 + k] = [is |-> "data", size |-> 0, unit |-> t[k]]
    /\ c[4 + Len(t)] = Line("CR") /\ c[5 + Len(t)] = Line("LF")
    /\ \A k \in 1..Len(rest) : c[5 + Len(t) + k] = rest[k]

LEMMA ChunkIs ==
    ASSUME NEW t \in Seq(STRING), NEW rest \in Seq(Unit)
    PROVE  ChunkAt(Chunk(t) \o rest, t, rest) /\ Chunk(t) \in Seq(Unit)
<1> DEFINE n == Len(t)
           o == <<Size(n)>>
           d == Data(t)
           e == CRLF
           h == o \o e
           x == h \o d
           c == x \o e
           z == c \o rest
<1>1. n \in Nat
  OBVIOUS
<1>2. o \in Seq(Unit) /\ Len(o) = 1 /\ o[1] = Size(n)
  BY <1>1, UnitsAre
<1>3. e \in Seq(Unit) /\ Len(e) = 2 /\ e[1] = Line("CR") /\ e[2] = Line("LF")
  BY UnitsAre DEF CRLF
<1>4. /\ d \in Seq(Unit) /\ Len(d) = n
      /\ \A k \in 1..n : d[k] = [is |-> "data", size |-> 0, unit |-> t[k]]
  BY DataIs
<1>5. Chunk(t) = c
  BY DEF Chunk
<1> HIDE DEF n, o, d, e
<1>a. IsJoined(h, o, e, 1, 2)
  BY <1>2, <1>3, JoinedUnits
<1> HIDE DEF h
<1>b. h \in Seq(Unit) /\ Len(h) = 3 /\ h[1] = o[1] /\ h[2] = e[1] /\ h[3] = e[2]
  <2>1. \A i \in 1..2 : h[1 + i] = e[i]
    BY <1>a DEF IsJoined
  <2> QED BY <1>a, <2>1 DEF IsJoined
<1>c. IsJoined(x, h, d, 3, n)
  BY <1>b, <1>4, JoinedUnits
<1> HIDE DEF x
<1>6. /\ x \in Seq(Unit) /\ Len(x) = 3 + n
      /\ \A i \in 1..3 : x[i] = h[i]
      /\ \A i \in 1..n : x[3 + i] = d[i]
  BY <1>c DEF IsJoined
<1>d. IsJoined(c, x, e, 3 + n, 2)
  BY <1>3, <1>6, JoinedUnits
<1> HIDE DEF c
<1>7. /\ c \in Seq(Unit) /\ Len(c) = 5 + n
      /\ \A i \in 1..3 + n : c[i] = x[i]
      /\ \A i \in 1..2 : c[3 + n + i] = e[i]
  <2>1. 3 + n + 2 = 5 + n
    BY <1>1
  <2> QED BY <1>d, <2>1 DEF IsJoined
<1>e. IsJoined(z, c, rest, 5 + n, Len(rest))
  BY <1>7, JoinedUnits
<1> HIDE DEF z
<1>8. /\ z \in Seq(Unit) /\ Len(z) = 5 + n + Len(rest)
      /\ \A i \in 1..5 + n : z[i] = c[i]
      /\ \A i \in 1..Len(rest) : z[5 + n + i] = rest[i]
  BY <1>e DEF IsJoined
<1>9. \A i \in 1..3 + n : z[i] = x[i]
  <2>1. \A i \in 1..3 + n : i \in 1..5 + n
    BY <1>1
  <2> QED BY <1>7, <1>8, <2>1
<1>10. z[1] = h[1] /\ z[2] = h[2] /\ z[3] = h[3]
  <2>1. {1, 2, 3} \subseteq 1..3 + n /\ {1, 2, 3} \subseteq 1..3
    BY <1>1
  <2> QED BY <1>6, <1>9, <2>1
<1>11. \A k \in 1..n : z[3 + k] = d[k]
  <2>1. \A k \in 1..n : 3 + k \in 1..3 + n
    BY <1>1
  <2> QED BY <1>6, <1>9, <2>1
<1>12. z[4 + n] = e[1] /\ z[5 + n] = e[2]
  <2>1. 4 + n \in 1..5 + n /\ 5 + n \in 1..5 + n /\ 4 + n = 3 + n + 1 /\ 5 + n = 3 + n + 2
    BY <1>1
  <2>2. c[3 + n + 1] = e[1] /\ c[3 + n + 2] = e[2]
    BY <1>7
  <2>3. c[4 + n] = e[1] /\ c[5 + n] = e[2]
    BY <2>1, <2>2
  <2> QED BY <1>8, <2>1, <2>3
<1>13. ChunkAt(z, t, rest)
  BY <1>2, <1>3, <1>4, <1>b, <1>8, <1>10, <1>11, <1>12 DEF ChunkAt, n
<1> QED BY <1>5, <1>7, <1>13 DEF z

-----------------------------------------------------------------------------
(* Functions defined by recursion from the end.                            *)

\* A function defined by recursion on what lies above: G of a place, and of the function there.
Recursive(h, a, b, G) == \A p \in a..b : h[p] = G[<<p, [q \in p + 1..b |-> h[q]]>>]
StepsInto(V, a, b, G) == \A p \in a..b : \A f \in [p + 1..b -> V] : G[<<p, f>>] \in V

LEMMA RecursionDown ==
    \A a, b \in Int : \A V, G : StepsInto(V, a, b, G) => \E h \in [a..b -> V] : Recursive(h, a, b, G)
<1> SUFFICES ASSUME NEW a \in Int, NEW b \in Int, NEW V, NEW G,
                    \A p \in a..b : \A f \in [p + 1..b -> V] : G[<<p, f>>] \in V
             PROVE  \E h \in [a..b -> V] : \A p \in a..b : h[p] = G[<<p, [q \in p + 1..b |-> h[q]]>>]
  BY DEF Recursive, StepsInto
<1> DEFINE Right(h, i) == h \in [i..b -> V] /\ \A p \in i..b : h[p] = G[<<p, [q \in p + 1..b |-> h[q]]>>]
           T == {i \in Int : \E h : Right(h, i)}
<1>1. ASSUME NEW i \in a..b, i + 1 \in T  PROVE i \in T
  <2>1. PICK g : Right(g, i + 1)  BY <1>1
  <2> DEFINE h == [p \in i..b |-> IF p = i THEN G[<<i, g>>] ELSE g[p]]
  <2>2. g \in [i + 1..b -> V]  BY <2>1
  <2>3. G[<<i, g>>] \in V  BY <2>2
  <2>4. \A p \in i..b : p # i => p \in i + 1..b  OBVIOUS
  <2>5. h \in [i..b -> V]  BY <2>2, <2>3, <2>4
  <2>6. \A p \in i + 1..b : p \in i..b /\ h[p] = g[p]  OBVIOUS
  <2>a. h[i] = G[<<i, g>>]  OBVIOUS
  <2> HIDE DEF h
  <2>7. \A p \in i..b : [q \in p + 1..b |-> h[q]] = [q \in p + 1..b |-> g[q]]
    <3> TAKE p \in i..b
    <3>1. \A q \in p + 1..b : q \in i + 1..b  OBVIOUS
    <3>2. \A q \in p + 1..b : h[q] = g[q]  BY <2>6, <3>1
    <3>   QED  BY <3>2
  <2>8. ASSUME NEW p \in i..b  PROVE h[p] = G[<<p, [q \in p + 1..b |-> h[q]]>>]
    <3>1. CASE p = i
      <4>1. [q \in i + 1..b |-> g[q]] = g  BY <2>2
      <4>   QED  BY <2>7, <2>a, <3>1, <4>1
    <3>2. CASE p # i
      <4>1. p \in i + 1..b  BY <2>4, <3>2
      <4>2. g[p] = G[<<p, [q \in p + 1..b |-> g[q]]>>]  BY <2>1, <4>1
      <4>   QED  BY <2>6, <2>7, <4>1, <4>2
    <3>   QED  BY <3>1, <3>2
  <2>9. Right(h, i)  BY <2>5, <2>8
  <2> HIDE DEF Right
  <2>   QED  BY <2>9
<1>2. b + 1 \in T
  <2> DEFINE h == [p \in b + 1..b |-> b]
  <2>1. b + 1..b = {}  OBVIOUS
  <2>2. Right(h, b + 1)  BY <2>1
  <2> HIDE DEF Right, h
  <2>   QED  BY <2>2
<1> HIDE DEF T
<1>3. ASSUME NEW i \in a..b, \A j \in i + 1..b : j \in T  PROVE i \in T
  <2>1. i + 1 \in T
    <3>1. CASE i = b  BY <1>2, <3>1
    <3>2. CASE i # b
      <4>1. i + 1 \in i + 1..b  BY <3>2
      <4>   QED  BY <1>3, <4>1
    <3>   QED  BY <3>1, <3>2
  <2>   QED  BY <1>1, <2>1
<1>4. a..b \subseteq T  BY <1>3, DownFrom
<1>5. a \in T \/ ~(a <= b)  BY <1>4
<1>6. CASE a <= b
  <2>1. PICK h : Right(h, a)  BY <1>5, <1>6 DEF T
  <2>   QED  BY <2>1
<1>7. CASE ~(a <= b)
  <2>1. a..b = {}  BY <1>7
  <2> DEFINE h == [p \in a..b |-> b]
  <2>2. h \in [a..b -> V]  BY <2>1
  <2>   QED  BY <2>1, <2>2
<1> QED  BY <1>6, <1>7

ChunkEnd(t, n, i) == Min({i + n - 1, Len(t)})

LEMMA ChunkEndIs ==
    ASSUME NEW t, Len(t) \in Nat, NEW n \in Nat, n > 0
    PROVE  \A i \in 1..Len(t) : ChunkEnd(t, n, i) \in i..Len(t)
<1> TAKE i \in 1..Len(t)
<1> DEFINE S == {i + n - 1, Len(t)}
<1>1. \E x \in S : \A y \in S : x <= y
  <2>1. CASE i + n - 1 <= Len(t)  BY <2>1
  <2>2. CASE ~(i + n - 1 <= Len(t))  BY <2>2
  <2>   QED  BY <2>1, <2>2
<1>2. Min(S) \in S /\ \A y \in S : Min(S) <= y  BY <1>1 DEF Min
<1>3. Min(S) \in i..Len(t)
  <2>1. Min(S) <= Len(t) /\ (Min(S) = i + n - 1 \/ Min(S) = Len(t))  BY <1>2
  <2> HIDE DEF S
  <2>   QED  BY <2>1
<1>   QED  BY <1>3 DEF ChunkEnd

\* From unit i of the document on, in chunks.
ChunksFrom(f, t, n, i) ==
    IF i > Len(t) THEN Chunk(<<>>) ELSE Chunk(SubSeq(t, i, ChunkEnd(t, n, i))) \o f[ChunkEnd(t, n, i) + 1]

AreChunks(f, t, n) ==
    /\ f \in [1..Len(t) + 1 -> Seq(Unit)]
    /\ \A i \in 1..Len(t) + 1 : f[i] = ChunksFrom(f, t, n, i)

\* The part of a document that one chunk takes.
LEMMA PartIs ==
    ASSUME NEW t \in Seq(STRING), NEW i \in 1..Len(t), NEW e \in i..Len(t)
    PROVE  /\ SubSeq(t, i, e) \in Seq(STRING) /\ Len(SubSeq(t, i, e)) = e - i + 1
           /\ \A k \in 1..e - i + 1 : SubSeq(t, i, e)[k] = t[i + k - 1]
<1>1. Len(t) \in Nat /\ \A k \in i..e : t[k] \in STRING  OBVIOUS
<1> DEFINE u == SubSeq(t, i, e)
<1>2. /\ u \in Seq(STRING) /\ Len(u) = IF i <= e THEN e - i + 1 ELSE 0
      /\ \A k \in 1..e - i + 1 : u[k] = t[i + k - 1]
  BY <1>1, SubSeqProperties
<1> HIDE DEF u
<1>   QED  BY <1>2 DEF u

LEMMA NoUnits == <<>> \in Seq(Unit) /\ <<>> \in Seq(STRING) /\ Len(<<>>) = 0  OBVIOUS

LEMMA ChunksFromTyped ==
    ASSUME NEW t \in Seq(STRING), NEW n \in Nat, n > 0, NEW i \in 1..Len(t) + 1,
           NEW f, \A j \in i + 1..Len(t) + 1 : f[j] \in Seq(Unit)
    PROVE  ChunksFrom(f, t, n, i) \in Seq(Unit)
<1>0. Len(t) \in Nat  OBVIOUS
<1>1. CASE i > Len(t)
  <2>1. Chunk(<<>>) \in Seq(Unit)  BY ChunkIs, NoUnits
  <2>   QED  BY <1>1, <2>1 DEF ChunksFrom
<1>2. CASE i <= Len(t)
  <2> DEFINE e == ChunkEnd(t, n, i)
             u == SubSeq(t, i, e)
  <2>1. i \in 1..Len(t) /\ ~(i > Len(t))  BY <1>0, <1>2
  <2>2. e \in i..Len(t)  BY <1>0, <2>1, ChunkEndIs
  <2> HIDE DEF e
  <2>3. e + 1 \in i + 1..Len(t) + 1 /\ u \in Seq(STRING)  BY <2>1, <2>2, PartIs
  <2>4. f[e + 1] \in Seq(Unit)  BY <2>3
  <2> HIDE DEF u
  <2>5. Chunk(u) \o f[e + 1] \in Seq(Unit)  BY <2>3, <2>4, ChunkIs DEF ChunkAt
  <2>   QED  BY <2>1, <2>5 DEF ChunksFrom, e, u
<1>   QED  BY <1>0, <1>1, <1>2

\* What is read of f is what lies above i.
LEMMA ChunksFromLocal ==
    ASSUME NEW t, Len(t) \in Nat, NEW n \in Nat, n > 0, NEW i \in 1..Len(t) + 1,
           NEW f, NEW g, \A j \in i + 1..Len(t) + 1 : f[j] = g[j]
    PROVE  ChunksFrom(f, t, n, i) = ChunksFrom(g, t, n, i)
<1>1. CASE i > Len(t)  BY <1>1 DEF ChunksFrom
<1>2. CASE i <= Len(t)
  <2>0. i \in 1..Len(t)  BY <1>2
  <2>1. ChunkEnd(t, n, i) \in i..Len(t)  BY <2>0, ChunkEndIs
  <2>2. ChunkEnd(t, n, i) + 1 \in i + 1..Len(t) + 1  BY <2>1
  <2>   QED  BY <2>2 DEF ChunksFrom
<1>   QED  BY <1>1, <1>2

LEMMA ChunksExist ==
    ASSUME NEW t \in Seq(STRING), NEW n \in Nat, n > 0
    PROVE  \E f : AreChunks(f, t, n)
<1> DEFINE N == Len(t)
           V == Seq(Unit)
           D == (1..N + 1) \X UNION {[p + 1..N + 1 -> V] : p \in 1..N + 1}
           G == [x \in D |-> ChunksFrom(x[2], t, n, x[1])]
<1>0. N \in Nat  OBVIOUS
<1> HIDE DEF N, V
<1>1. ASSUME NEW p \in 1..N + 1, NEW f \in [p + 1..N + 1 -> V]
      PROVE  G[<<p, f>>] = ChunksFrom(f, t, n, p) /\ ChunksFrom(f, t, n, p) \in V
  <2>1. <<p, f>> \in D  OBVIOUS
  <2>2. G[<<p, f>>] = ChunksFrom(f, t, n, p)  BY <2>1
  <2>3. \A j \in p + 1..N + 1 : f[j] \in V  OBVIOUS
  <2>   QED  BY <2>2, <2>3, ChunksFromTyped DEF N, V
<1> HIDE DEF G
<1>2. PICK h \in [1..N + 1 -> V] :
        \A p \in 1..N + 1 : h[p] = G[<<p, [q \in p + 1..N + 1 |-> h[q]]>>]
  <2> DEFINE M == N + 1
  <2>1. 1 \in Int /\ M \in Int  BY <1>0
  <2>2. StepsInto(V, 1, M, G)  BY <1>1 DEF StepsInto
  <2> HIDE DEF M
  <2>3. \E h \in [1..M -> V] : Recursive(h, 1, M, G)  BY <2>1, <2>2, RecursionDown
  <2>   QED  BY <2>3 DEF M, Recursive
<1>3. ASSUME NEW p \in 1..N + 1  PROVE h[p] = ChunksFrom(h, t, n, p)
  <2> DEFINE f == [q \in p + 1..N + 1 |-> h[q]]
  <2>1. \A q \in p + 1..N + 1 : q \in 1..N + 1  BY <1>0
  <2>2. f \in [p + 1..N + 1 -> V] /\ \A q \in p + 1..N + 1 : f[q] = h[q]  BY <1>2, <2>1
  <2>3. h[p] = G[<<p, f>>]  BY <1>2
  <2> HIDE DEF f
  <2>4. h[p] = ChunksFrom(f, t, n, p)  BY <1>1, <2>2, <2>3
  <2>   QED  BY <1>0, <2>2, <2>4, ChunksFromLocal DEF N
<1>   QED  BY <1>2, <1>3 DEF AreChunks, N, V

LEMMA ChunkedIs ==
    ASSUME NEW t \in Seq(STRING), NEW n \in Nat, n > 0
    PROVE  \E f : AreChunks(f, t, n) /\ Chunked(t, n) = f[1]
<1> DEFINE from == CHOOSE f : f = [i \in 1..Len(t) + 1 |-> ChunksFrom(f, t, n, i)]
<1>1. Chunked(t, n) = from[1]  BY DEF Chunked, ChunksFrom, ChunkEnd
<1>2. PICK f : AreChunks(f, t, n)  BY ChunksExist
<1>3. f = [i \in 1..Len(t) + 1 |-> ChunksFrom(f, t, n, i)]  BY <1>2 DEF AreChunks
<1>4. from = [i \in 1..Len(t) + 1 |-> ChunksFrom(from, t, n, i)]  BY <1>3
<1> HIDE DEF from
<1> DEFINE N == Len(t)
           T == {i \in Int : from[i] \in Seq(Unit)}
<1>0. 1 \in Int /\ N + 1 \in Int  OBVIOUS
<1>5. \A i \in 1..N + 1 : from[i] = ChunksFrom(from, t, n, i)  BY <1>4
<1>6. ASSUME NEW i \in 1..N + 1, \A j \in i + 1..N + 1 : j \in T  PROVE i \in T
  <2>1. \A j \in i + 1..N + 1 : from[j] \in Seq(Unit)  BY <1>6
  <2>2. from[i] \in Seq(Unit)  BY <1>5, <2>1, ChunksFromTyped
  <2>   QED  BY <2>2
<1> HIDE DEF T
<1>7. 1..N + 1 \subseteq T  BY <1>0, <1>6, DownFrom
<1>8. \A i \in 1..N + 1 : from[i] \in Seq(Unit)  BY <1>7 DEF T
<1>9. AreChunks(from, t, n)  BY <1>4, <1>5, <1>8 DEF AreChunks
<1>   QED  BY <1>1, <1>9

-----------------------------------------------------------------------------
(* What decode_chunked makes of it, chunk by chunk.                        *)

LEMMA LeastIs ==
    ASSUME NEW S, S \subseteq Nat, S # {}
    PROVE  Min(S) \in S /\ \A y \in S : Min(S) <= y
BY LeastElement DEF Min

\* The ends of lines from p on.
LineEnds(s, p) == {k \in p..Len(s) - 1 : s[k].is = "CR" /\ s[k + 1].is = "LF"}
FirstData(s, p) == Min(LineEnds(s, p)) + 2
PastData(s, p) == FirstData(s, p) + s[p].size

\* One step of decode_chunked, where the rest is decoded by f.
DecodeStep(f, s, p) ==
    IF p > Len(s) THEN Decoded(<<>>)
    ELSE IF LineEnds(s, p) = {} THEN Malformed
    ELSE IF s[p].size = 0 THEN Decoded(<<>>)
    ELSE IF PastData(s, p) - 1 > Len(s) THEN Malformed
    ELSE [f[PastCRLF(s, PastData(s, p))] EXCEPT
            !.units = SubSeq(s, FirstData(s, p), PastData(s, p) - 1) \o @]

\* It goes on beyond p only for data that is there.
GoesOn(s, p) ==
    p <= Len(s) /\ LineEnds(s, p) # {} /\ s[p].size # 0 /\ ~(PastData(s, p) - 1 > Len(s))

Decoding == [ok : BOOLEAN, units : Seq(Unit)]

LEMMA PastCRLFIs ==
    ASSUME NEW s, Len(s) \in Nat, NEW q \in 1..Len(s) + 1
    PROVE  PastCRLF(s, q) \in q..Len(s) + 1
BY DEF PastCRLF

LEMMA PlacesAre ==
    ASSUME NEW s \in Seq(Unit), NEW p \in 1..Len(s) + 1, GoesOn(s, p)
    PROVE  /\ FirstData(s, p) \in p + 2..Len(s) + 1 /\ PastData(s, p) \in FirstData(s, p)..Len(s) + 1
           /\ PastCRLF(s, PastData(s, p)) \in p + 1..Len(s) + 1
<1>0. Len(s) \in Nat /\ p <= Len(s) /\ s[p] \in Unit  BY DEF GoesOn
<1>1. s[p].size \in Nat  BY <1>0 DEF Unit
<1>2. LineEnds(s, p) # {} /\ LineEnds(s, p) \subseteq Nat  BY DEF GoesOn, LineEnds
<1>3. Min(LineEnds(s, p)) \in p..Len(s) - 1  BY <1>2, LeastIs DEF LineEnds
<1>4. FirstData(s, p) \in p + 2..Len(s) + 1  BY <1>0, <1>3 DEF FirstData
<1>5. PastData(s, p) \in FirstData(s, p)..Len(s) + 1  BY <1>0, <1>1, <1>4 DEF PastData, GoesOn
<1>6. PastData(s, p) \in 1..Len(s) + 1 /\ PastData(s, p) >= p + 2  BY <1>0, <1>4, <1>5
<1>7. PastCRLF(s, PastData(s, p)) \in PastData(s, p)..Len(s) + 1  BY <1>0, <1>6, PastCRLFIs
<1>   QED  BY <1>0, <1>4, <1>5, <1>6, <1>7

\* Part of what was received.
LEMMA CutIs ==
    ASSUME NEW s \in Seq(Unit), NEW i \in 1..Len(s) + 1, NEW e \in i - 1..Len(s)
    PROVE  /\ SubSeq(s, i, e) \in Seq(Unit) /\ Len(SubSeq(s, i, e)) = e - i + 1
           /\ \A k \in 1..e - i + 1 : SubSeq(s, i, e)[k] = s[i + k - 1]
<1>1. Len(s) \in Nat /\ \A k \in i..e : s[k] \in Unit  OBVIOUS
<1> DEFINE u == SubSeq(s, i, e)
<1>2. /\ u \in Seq(Unit) /\ Len(u) = IF i <= e THEN e - i + 1 ELSE 0
      /\ \A k \in 1..e - i + 1 : u[k] = s[i + k - 1]
  BY <1>1, SubSeqProperties
<1> HIDE DEF u
<1>3. Len(u) = e - i + 1  BY <1>1, <1>2
<1>   QED  BY <1>2, <1>3 DEF u

LEMMA DecodedIs ==
    Decoded(<<>>) \in Decoding /\ Malformed \in Decoding
BY NoUnits DEF Decoded, Malformed, Decoding

\* What comes of a chunk before the rest.
LEMMA DecodeGoesOn ==
    ASSUME NEW s \in Seq(Unit), NEW p \in 1..Len(s) + 1, GoesOn(s, p),
           NEW f, f[PastCRLF(s, PastData(s, p))] \in Decoding
    PROVE  LET rest == f[PastCRLF(s, PastData(s, p))]
               part == SubSeq(s, FirstData(s, p), PastData(s, p) - 1)
           IN  DecodeStep(f, s, p) = [ok |-> rest.ok, units |-> part \o rest.units]
<1> DEFINE rest == f[PastCRLF(s, PastData(s, p))]
           part == SubSeq(s, FirstData(s, p), PastData(s, p) - 1)
<1>1. ~(p > Len(s))  BY DEF GoesOn
<1>2. DecodeStep(f, s, p) = [rest EXCEPT !.units = part \o @]  BY <1>1 DEF DecodeStep, GoesOn
<1>3. rest \in Decoding  OBVIOUS
<1> HIDE DEF rest, part
<1>4. [rest EXCEPT !.units = part \o @] = [ok |-> rest.ok, units |-> part \o rest.units]
  <2>1. \A d \in Decoding : \A u : [d EXCEPT !.units = u] = [ok |-> d.ok, units |-> u]  BY DEF Decoding
  <2>2. [rest EXCEPT !.units = part \o rest.units] = [ok |-> rest.ok, units |-> part \o rest.units]
    BY <1>3, <2>1
  <2>   QED  BY <2>2
<1>   QED  BY <1>2, <1>4 DEF rest, part

LEMMA DecodeStepTyped ==
    ASSUME NEW s \in Seq(Unit), NEW p \in 1..Len(s) + 1,
           NEW f, \A j \in p + 1..Len(s) + 1 : f[j] \in Decoding
    PROVE  DecodeStep(f, s, p) \in Decoding
<1>1. CASE GoesOn(s, p)
  <2> DEFINE rest == f[PastCRLF(s, PastData(s, p))]
             part == SubSeq(s, FirstData(s, p), PastData(s, p) - 1)
  <2>1. rest \in Decoding  BY <1>1, PlacesAre
  <2>2. part \in Seq(Unit)
    <3>1. FirstData(s, p) \in p + 2..Len(s) + 1 /\ PastData(s, p) \in FirstData(s, p)..Len(s) + 1
      BY <1>1, PlacesAre
    <3>2. FirstData(s, p) \in 1..Len(s) + 1 /\ PastData(s, p) - 1 \in FirstData(s, p) - 1..Len(s)
      BY <3>1
    <3>   QED  BY <3>2, CutIs
  <2>3. DecodeStep(f, s, p) = [ok |-> rest.ok, units |-> part \o rest.units]  BY <1>1, <2>1, DecodeGoesOn
  <2> HIDE DEF rest, part
  <2>4. rest.ok \in BOOLEAN /\ rest.units \in Seq(Unit)  BY <2>1 DEF Decoding
  <2>5. part \o rest.units \in Seq(Unit)  BY <2>2, <2>4, JoinedUnits DEF IsJoined
  <2>   QED  BY <2>3, <2>4, <2>5 DEF Decoding
<1>2. CASE ~GoesOn(s, p)
  <2>1. DecodeStep(f, s, p) \in {Decoded(<<>>), Malformed}
    <3>1. Len(s) \in Nat  OBVIOUS
    <3>   QED  BY <1>2, <3>1 DEF DecodeStep, GoesOn
  <2>   QED  BY <2>1, DecodedIs
<1>   QED  BY <1>1, <1>2

LEMMA DecodeStepLocal ==
    ASSUME NEW s \in Seq(Unit), NEW p \in 1..Len(s) + 1,
           NEW f, NEW g, \A j \in p + 1..Len(s) + 1 : f[j] = g[j]
    PROVE  DecodeStep(f, s, p) = DecodeStep(g, s, p)
<1>1. CASE GoesOn(s, p)
  <2>1. f[PastCRLF(s, PastData(s, p))] = g[PastCRLF(s, PastData(s, p))]  BY <1>1, PlacesAre
  <2>   QED  BY <2>1 DEF DecodeStep
<1>2. CASE ~GoesOn(s, p)
  <2>1. Len(s) \in Nat  OBVIOUS
  <2>   QED  BY <1>2, <2>1 DEF DecodeStep, GoesOn
<1>   QED  BY <1>1, <1>2

IsDecode(f, s) == f = [p \in 1..Len(s) + 1 |-> DecodeStep(f, s, p)]

LEMMA DecodeExists ==
    ASSUME NEW s \in Seq(Unit)
    PROVE  \E f : IsDecode(f, s)
<1> DEFINE M == Len(s) + 1
           D == (1..M) \X UNION {[p + 1..M -> Decoding] : p \in 1..M}
           G == [x \in D |-> DecodeStep(x[2], s, x[1])]
<1>0. 1 \in Int /\ M \in Int  OBVIOUS
<1> HIDE DEF M
<1>1. ASSUME NEW p \in 1..M, NEW f \in [p + 1..M -> Decoding]
      PROVE  G[<<p, f>>] = DecodeStep(f, s, p) /\ DecodeStep(f, s, p) \in Decoding
  <2>1. <<p, f>> \in D  OBVIOUS
  <2>2. G[<<p, f>>] = DecodeStep(f, s, p)  BY <2>1
  <2>3. \A j \in p + 1..M : f[j] \in Decoding  OBVIOUS
  <2>   QED  BY <2>2, <2>3, DecodeStepTyped DEF M
<1> HIDE DEF G
<1>2. PICK h \in [1..M -> Decoding] : Recursive(h, 1, M, G)
  <2>1. StepsInto(Decoding, 1, M, G)  BY <1>1 DEF StepsInto
  <2>   QED  BY <1>0, <2>1, RecursionDown
<1>3. ASSUME NEW p \in 1..M  PROVE h[p] = DecodeStep(h, s, p)
  <2> DEFINE f == [q \in p + 1..M |-> h[q]]
  <2>1. \A q \in p + 1..M : q \in 1..M  BY <1>0
  <2>2. f \in [p + 1..M -> Decoding] /\ \A q \in p + 1..M : f[q] = h[q]  BY <1>2, <2>1
  <2>3. h[p] = G[<<p, f>>]  BY <1>2 DEF Recursive
  <2> HIDE DEF f
  <2>4. h[p] = DecodeStep(f, s, p)  BY <1>1, <2>2, <2>3
  <2>   QED  BY <2>2, <2>4, DecodeStepLocal DEF M
<1>4. h = [p \in 1..M |-> DecodeStep(h, s, p)]  BY <1>2, <1>3
<1>   QED  BY <1>4 DEF IsDecode, M

LEMMA DecodeIs ==
    ASSUME NEW s \in Seq(Unit)
    PROVE  \E f \in [1..Len(s) + 1 -> Decoding] :
             DecodeChunked(s) = f[1] /\ \A p \in 1..Len(s) + 1 : f[p] = DecodeStep(f, s, p)
<1> DEFINE f == CHOOSE f : IsDecode(f, s)
           M == Len(s) + 1
           T == {i \in Int : f[i] \in Decoding}
<1>1. DecodeChunked(s) = f[1]
  BY DEF DecodeChunked, IsDecode, DecodeStep, LineEnds, FirstData, PastData
<1>2. IsDecode(f, s)  BY DecodeExists
<1> HIDE DEF f
<1>3. \A p \in 1..M : f[p] = DecodeStep(f, s, p)  BY <1>2 DEF IsDecode
<1>0. 1 \in Int /\ M \in Int  OBVIOUS
<1>4. ASSUME NEW p \in 1..M, \A j \in p + 1..M : j \in T  PROVE p \in T
  <2>1. \A j \in p + 1..M : f[j] \in Decoding  BY <1>4
  <2>2. f[p] \in Decoding  BY <1>3, <2>1, DecodeStepTyped
  <2>   QED  BY <2>2
<1> HIDE DEF T
<1>5. 1..M \subseteq T  BY <1>0, <1>4, DownFrom
<1>6. \A p \in 1..M : f[p] \in Decoding  BY <1>5 DEF T
<1>7. f \in [1..M -> Decoding]  BY <1>2, <1>6 DEF IsDecode
<1>   QED  BY <1>1, <1>3, <1>7

\* From p on s is a beginning of c.
Begins(s, p, c) ==
    /\ p \in 1..Len(s) + 1 /\ Len(s) - p + 1 <= Len(c)
    /\ \A k \in 1..Len(s) - p + 1 : s[p + k - 1] = c[k]

\* And nothing of c is missing.
Whole(s, p, c) == Len(s) - p + 1 = Len(c)

DataUnit(x) == [is |-> "data", size |-> 0, unit |-> x]

\* What there is of a chunk, where it begins.
LEMMA ChunkUnits ==
    ASSUME NEW s \in Seq(Unit), NEW p, NEW u \in Seq(STRING), NEW rest \in Seq(Unit), NEW c,
           ChunkAt(c, u, rest), Begins(s, p, c)
    PROVE  LET m == Len(u)
           IN  /\ p <= Len(s) => s[p] = Size(m)
               /\ p + 1 <= Len(s) => s[p + 1] = Line("CR")
               /\ p + 2 <= Len(s) => s[p + 2] = Line("LF")
               /\ \A k \in 1..m : p + 2 + k <= Len(s) => s[p + 2 + k] = DataUnit(u[k])
               /\ p + 3 + m <= Len(s) => s[p + 3 + m] = Line("CR")
               /\ p + 4 + m <= Len(s) => s[p + 4 + m] = Line("LF")
               /\ p + 4 + m <= Len(s) => Begins(s, p + 5 + m, rest)
               /\ Whole(s, p, c) => p + 4 + m <= Len(s) /\ Whole(s, p + 5 + m, rest)
<1> DEFINE m == Len(u)
           n == Len(s)
           r == Len(rest)
<1>1. m \in Nat /\ n \in Nat /\ r \in Nat /\ p \in 1..n + 1  BY DEF Begins
<1>2. Len(c) = 5 + m + r  BY DEF ChunkAt
<1>3. \A k \in 1..5 + m + r : p + k - 1 <= n => s[p + k - 1] = c[k]
  <2> TAKE k \in 1..5 + m + r
  <2> HAVE p + k - 1 <= n
  <2>1. k \in 1..n - p + 1  BY <1>1
  <2>   QED  BY <2>1 DEF Begins
<1>4. p <= n => s[p] = Size(m)
  <2>1. 1 \in 1..5 + m + r /\ p + 1 - 1 = p  BY <1>1
  <2>   QED  BY <1>3, <2>1 DEF ChunkAt
<1>5. p + 1 <= n => s[p + 1] = Line("CR")
  <2>1. 2 \in 1..5 + m + r /\ p + 2 - 1 = p + 1  BY <1>1
  <2>   QED  BY <1>3, <2>1 DEF ChunkAt
<1>6. p + 2 <= n => s[p + 2] = Line("LF")
  <2>1. 3 \in 1..5 + m + r /\ p + 3 - 1 = p + 2  BY <1>1
  <2>   QED  BY <1>3, <2>1 DEF ChunkAt
<1>7. ASSUME NEW k \in 1..m, p + 2 + k <= n  PROVE s[p + 2 + k] = DataUnit(u[k])
  <2>1. 3 + k \in 1..5 + m + r /\ p + (3 + k) - 1 = p + 2 + k  BY <1>1
  <2>2. s[p + 2 + k] = c[3 + k]  BY <1>3, <1>7, <2>1
  <2>   QED  BY <2>2 DEF ChunkAt, DataUnit
<1>8. p + 3 + m <= n => s[p + 3 + m] = Line("CR")
  <2>1. 4 + m \in 1..5 + m + r /\ p + (4 + m) - 1 = p + 3 + m  BY <1>1
  <2>   QED  BY <1>3, <2>1 DEF ChunkAt
<1>9. p + 4 + m <= n => s[p + 4 + m] = Line("LF")
  <2>1. 5 + m \in 1..5 + m + r /\ p + (5 + m) - 1 = p + 4 + m  BY <1>1
  <2>   QED  BY <1>3, <2>1 DEF ChunkAt
<1>10. ASSUME p + 4 + m <= n  PROVE Begins(s, p + 5 + m, rest)
  <2> DEFINE q == p + 5 + m
  <2>1. q \in 1..n + 1 /\ n - q + 1 <= r
    BY <1>1, <1>2, <1>10 DEF Begins
  <2>2. ASSUME NEW k \in 1..n - q + 1  PROVE s[q + k - 1] = rest[k]
    <3>1. /\ 5 + m + k \in 1..5 + m + r /\ p + (5 + m + k) - 1 <= n /\ k \in 1..r
          /\ q + k - 1 = p + (5 + m + k) - 1
      BY <1>1, <2>1
    <3>2. s[q + k - 1] = c[5 + m + k]  BY <1>3, <3>1
    <3>   QED  BY <3>1, <3>2 DEF ChunkAt
  <2> HIDE DEF q
  <2>3. Begins(s, q, rest)  BY <2>1, <2>2 DEF Begins
  <2>   QED  BY <2>3 DEF q
<1>11. Whole(s, p, c) => p + 4 + m <= n /\ Whole(s, p + 5 + m, rest)
  BY <1>1, <1>2 DEF Whole
<1>   QED  BY <1>4, <1>5, <1>6, <1>7, <1>8, <1>9, <1>10, <1>11

\* How decode_chunked reads it.
LEMMA ChunkRead ==
    ASSUME NEW s \in Seq(Unit), NEW p, NEW u \in Seq(STRING), NEW rest \in Seq(Unit), NEW c,
           ChunkAt(c, u, rest), Begins(s, p, c), p <= Len(s)
    PROVE  /\ s[p].size = Len(u)
           /\ LineEnds(s, p) # {} <=> p + 2 <= Len(s)
           /\ LineEnds(s, p) # {} => FirstData(s, p) = p + 3 /\ PastData(s, p) = p + 3 + Len(u)
<1> DEFINE n == Len(s)
<1>1. n \in Nat /\ p \in 1..n /\ Len(u) \in Nat  BY DEF Begins
<1>2. s[p].size = Len(u) /\ s[p].is = "size"
  <2>1. s[p] = Size(Len(u))  BY ChunkUnits
  <2>   QED  BY <2>1 DEF Size
<1>3. p + 1 <= n => s[p + 1].is = "CR"
  <2>1. p + 1 <= n => s[p + 1] = Line("CR")  BY ChunkUnits
  <2>   QED  BY <2>1 DEF Line
<1>4. p + 2 <= n => s[p + 2].is = "LF"
  <2>1. p + 2 <= n => s[p + 2] = Line("LF")  BY ChunkUnits
  <2>   QED  BY <2>1 DEF Line
<1>5. \A k \in LineEnds(s, p) : k >= p + 1 /\ p + 2 <= n
  <2> TAKE k \in LineEnds(s, p)
  <2>1. k \in p..n - 1 /\ s[k].is = "CR"  BY DEF LineEnds
  <2>2. k # p  BY <1>2, <2>1
  <2>   QED  BY <1>1, <2>1, <2>2
<1>6. p + 2 <= n => p + 1 \in LineEnds(s, p)
  <2> HAVE p + 2 <= n
  <2>1. p + 1 \in p..n - 1 /\ p + 1 + 1 = p + 2 /\ p + 1 <= n  BY <1>1
  <2>   QED  BY <1>3, <1>4, <2>1 DEF LineEnds
<1>7. ASSUME LineEnds(s, p) # {}  PROVE FirstData(s, p) = p + 3 /\ PastData(s, p) = p + 3 + Len(u)
  <2>1. LineEnds(s, p) \subseteq Nat  BY <1>1 DEF LineEnds
  <2>2. p + 1 \in LineEnds(s, p)  BY <1>5, <1>6, <1>7
  <2>3. Min(LineEnds(s, p)) \in LineEnds(s, p) /\ \A y \in LineEnds(s, p) : Min(LineEnds(s, p)) <= y
    BY <1>7, <2>1, LeastIs
  <2>4. Min(LineEnds(s, p)) >= p + 1 /\ Min(LineEnds(s, p)) <= p + 1  BY <1>5, <2>2, <2>3
  <2>5. Min(LineEnds(s, p)) \in Nat  BY <2>1, <2>3
  <2>6. Min(LineEnds(s, p)) = p + 1  BY <1>1, <2>4, <2>5
  <2>7. FirstData(s, p) = p + 3  BY <1>1, <2>6 DEF FirstData
  <2>   QED  BY <1>2, <2>7 DEF PastData
<1>   QED  BY <1>2, <1>5, <1>6, <1>7

\* What was decoded is the document from unit i on, or a beginning of that.
Part(d, t, i) ==
    d.ok => /\ Len(d.units) <= Len(t) - i + 1
            /\ \A k \in 1..Len(d.units) : d.units[k].unit = t[i + k - 1]
AllOf(d, t, i) == d.ok /\ Len(d.units) = Len(t) - i + 1

\* The chunk that says there are no more.
LEMMA EmptyChunkRead ==
    ASSUME NEW s \in Seq(Unit), NEW p, NEW f, NEW u \in Seq(STRING), u \in Seq(Unit),
           NEW c, ChunkAt(c, u, u), Begins(s, p, c), f[p] = DecodeStep(f, s, p)
    PROVE  Len(u) = 0 => /\ f[p] \in {Decoded(<<>>), Malformed}
                         /\ Whole(s, p, c) => f[p] = Decoded(<<>>)
<1>0. Len(s) \in Nat /\ p \in 1..Len(s) + 1  BY DEF Begins
<1>1. ASSUME p <= Len(s)  PROVE s[p].size = Len(u) /\ (p + 2 <= Len(s) => LineEnds(s, p) # {})
  <2>1. s[p].size = Len(u)  BY <1>1, ChunkRead
  <2>2. LineEnds(s, p) # {} <=> p + 2 <= Len(s)  BY <1>1, ChunkRead
  <2>   QED  BY <2>1, <2>2
<1> HAVE Len(u) = 0
<1>2. f[p] \in {Decoded(<<>>), Malformed}
  <2>1. ~(p > Len(s)) => s[p].size = 0  BY <1>0, <1>1
  <2>   QED  BY <2>1 DEF DecodeStep
<1>3. ASSUME Whole(s, p, c)  PROVE f[p] = Decoded(<<>>)
  <2>1. p + 4 + Len(u) <= Len(s)  BY <1>3, ChunkUnits
  <2>2. p <= Len(s) /\ p + 2 <= Len(s) /\ ~(p > Len(s))  BY <1>0, <2>1
  <2>3. s[p].size = 0 /\ LineEnds(s, p) # {}  BY <1>1, <2>2
  <2>   QED  BY <2>2, <2>3 DEF DecodeStep
<1>   QED  BY <1>2, <1>3

LEMMA LastChunkRead ==
    ASSUME NEW s \in Seq(Unit), NEW p, NEW f, NEW t \in Seq(STRING),
           Begins(s, p, Chunk(<<>>)), f[p] = DecodeStep(f, s, p)
    PROVE  /\ Part(f[p], t, Len(t) + 1)
           /\ Whole(s, p, Chunk(<<>>)) => AllOf(f[p], t, Len(t) + 1)
<1>0. Len(t) \in Nat  OBVIOUS
<1>1. ChunkAt(Chunk(<<>>), <<>>, <<>>)
  <2>1. ChunkAt(Chunk(<<>>) \o <<>>, <<>>, <<>>) /\ Chunk(<<>>) \in Seq(Unit)  BY ChunkIs, NoUnits
  <2>2. Chunk(<<>>) \o <<>> = Chunk(<<>>)  BY <2>1, ConcatEmptySeq
  <2>   QED  BY <2>1, <2>2
<1>2. /\ f[p] \in {Decoded(<<>>), Malformed}
      /\ Whole(s, p, Chunk(<<>>)) => f[p] = Decoded(<<>>)
  BY <1>1, NoUnits, EmptyChunkRead
<1>3. Part(f[p], t, Len(t) + 1)
  <2>1. 1..0 = {} /\ Len(t) - (Len(t) + 1) + 1 = 0  BY <1>0
  <2>   QED  BY <1>2, <2>1, NoUnits DEF Part, Decoded, Malformed
<1>4. Len(t) - (Len(t) + 1) + 1 = 0  BY <1>0
<1>   QED  BY <1>2, <1>3, <1>4, NoUnits DEF AllOf, Decoded

\* A chunk's data, and what was decoded of what follows it.
LEMMA PartsJoin ==
    ASSUME NEW t \in Seq(STRING), NEW i \in 1..Len(t), NEW e \in i..Len(t),
           NEW x \in Seq(Unit), Len(x) = e - i + 1, \A k \in 1..e - i + 1 : x[k].unit = t[i + k - 1],
           NEW d \in Decoding, Part(d, t, e + 1), NEW w, w = [ok |-> d.ok, units |-> x \o d.units]
    PROVE  Part(w, t, i) /\ (AllOf(d, t, e + 1) => AllOf(w, t, i))
<1> DEFINE y == d.units
           z == x \o y
           m == e - i + 1
<1>1. y \in Seq(Unit) /\ Len(y) \in Nat /\ Len(t) \in Nat /\ m \in Nat  BY DEF Decoding
<1>2. w.ok = d.ok /\ w.units = z  OBVIOUS
<1>3. IsJoined(z, x, y, m, Len(y))  BY <1>1, JoinedUnits
<1> HIDE DEF y, z
<1>4. ASSUME d.ok  PROVE Len(z) <= Len(t) - i + 1 /\ \A k \in 1..Len(z) : z[k].unit = t[i + k - 1]
  <2>1. Len(y) <= Len(t) - (e + 1) + 1 /\ \A k \in 1..Len(y) : y[k].unit = t[e + 1 + k - 1]
    BY <1>4 DEF Part, y
  <2>2. Len(z) = m + Len(y)  BY <1>3 DEF IsJoined
  <2>3. Len(z) <= Len(t) - i + 1  BY <1>1, <2>1, <2>2
  <2>4. ASSUME NEW k \in 1..Len(z)  PROVE z[k].unit = t[i + k - 1]
    <3>1. CASE k <= m
      <4>1. k \in 1..m  BY <1>1, <2>2, <3>1
      <4>2. z[k] = x[k]  BY <1>3, <4>1 DEF IsJoined
      <4>   QED  BY <4>1, <4>2
    <3>2. CASE ~(k <= m)
      <4>1. k - m \in 1..Len(y) /\ m + (k - m) = k /\ e + 1 + (k - m) - 1 = i + k - 1  BY <1>1, <2>2, <3>2
      <4> DEFINE j == k - m
      <4>2. j \in 1..Len(y) /\ m + j = k /\ e + 1 + j - 1 = i + k - 1  BY <4>1
      <4> HIDE DEF j, m
      <4>3. z[m + j] = y[j]  BY <1>3, <4>2 DEF IsJoined
      <4>4. y[j].unit = t[e + 1 + j - 1]  BY <2>1, <4>2
      <4>   QED  BY <4>2, <4>3, <4>4
    <3>   QED  BY <3>1, <3>2
  <2>   QED  BY <2>3, <2>4
<1>5. Part(w, t, i)  BY <1>2, <1>4 DEF Part
<1>6. ASSUME AllOf(d, t, e + 1)  PROVE AllOf(w, t, i)
  <2>1. d.ok /\ Len(y) = Len(t) - (e + 1) + 1  BY <1>6 DEF AllOf, y
  <2>2. Len(z) = m + Len(y)  BY <1>3 DEF IsJoined
  <2>3. Len(z) = Len(t) - i + 1  BY <1>1, <2>1, <2>2
  <2>   QED  BY <1>2, <2>1, <2>3 DEF AllOf
<1>   QED  BY <1>5, <1>6

\* Where the answer stops between two chunks, or in the line that ends one.
LEMMA StopsHere ==
    ASSUME NEW s \in Seq(Unit), NEW p \in 1..Len(s) + 1, p >= Len(s), NEW f, f[p] = DecodeStep(f, s, p),
           NEW t \in Seq(STRING), NEW i \in 1..Len(t) + 1, p = Len(s) => s[p].size = 0 \/ s[p].is = "CR"
    PROVE  Part(f[p], t, i)
<1>0. Len(t) \in Nat /\ Len(s) \in Nat  OBVIOUS
<1>1. f[p] \in {Decoded(<<>>), Malformed}
  <2>1. CASE p > Len(s)  BY <2>1 DEF DecodeStep
  <2>2. CASE p = Len(s)
    <3>1. p..Len(s) - 1 = {} /\ ~(p > Len(s))  BY <1>0, <2>2
    <3>2. LineEnds(s, p) = {}  BY <3>1 DEF LineEnds
    <3>   QED  BY <3>1, <3>2 DEF DecodeStep
  <2>   QED  BY <1>0, <2>1, <2>2
<1>2. 1..0 = {} /\ 0 <= Len(t) - i + 1  BY <1>0
<1>   QED  BY <1>1, <1>2, NoUnits DEF Part, Decoded, Malformed

\* A chunk with data, and what was decoded of what follows it.
LEMMA ChunkDecoded ==
    ASSUME NEW t \in Seq(STRING), NEW i \in 1..Len(t), NEW e \in i..Len(t),
           NEW rest \in Seq(Unit), NEW c, ChunkAt(c, SubSeq(t, i, e), rest),
           NEW s \in Seq(Unit), NEW f \in [1..Len(s) + 1 -> Decoding],
           \A p \in 1..Len(s) + 1 : f[p] = DecodeStep(f, s, p),
           \A q : Begins(s, q, rest) => /\ Part(f[q], t, e + 1)
                                        /\ Whole(s, q, rest) => AllOf(f[q], t, e + 1),
           NEW p, Begins(s, p, c)
    PROVE  Part(f[p], t, i) /\ (Whole(s, p, c) => AllOf(f[p], t, i))
<1> DEFINE u == SubSeq(t, i, e)
           n == Len(s)
           m == e - i + 1
<1>0. p \in 1..n + 1 /\ n \in Nat /\ Len(t) \in Nat /\ m \in Nat /\ m > 0  BY DEF Begins
<1>1. u \in Seq(STRING) /\ Len(u) = m /\ \A k \in 1..m : u[k] = t[i + k - 1]  BY PartIs
<1>2. ChunkAt(c, u, rest)  OBVIOUS
<1> HIDE DEF u
<1>3. Whole(s, p, c) => p + 4 + m <= n /\ Whole(s, p + 5 + m, rest)  BY <1>1, <1>2, ChunkUnits
<1>4. p <= n => /\ s[p].size = m
                /\ LineEnds(s, p) # {} <=> p + 2 <= n
                /\ LineEnds(s, p) # {} => FirstData(s, p) = p + 3 /\ PastData(s, p) = p + 3 + m
  <2> HAVE p <= n
  <2>1. u \in Seq(STRING) /\ p <= Len(s)  BY <1>1
  <2>2. /\ s[p].size = Len(u)
        /\ LineEnds(s, p) # {} <=> p + 2 <= Len(s)
        /\ LineEnds(s, p) # {} => FirstData(s, p) = p + 3 /\ PastData(s, p) = p + 3 + Len(u)
    BY <1>2, <2>1, ChunkRead
  <2>   QED  BY <1>1, <2>2
<1>5. CASE ~GoesOn(s, p)
  <2>1. CASE p > n
    <3>1. f[p] = Decoded(<<>>)  BY <1>0, <2>1 DEF DecodeStep
    <3>2. 1..0 = {} /\ 0 <= Len(t) - i + 1  BY <1>0
    <3>3. Part(f[p], t, i)  BY <3>1, <3>2, NoUnits DEF Part, Decoded
    <3>4. ~Whole(s, p, c)  BY <1>0, <1>3, <2>1
    <3>   QED  BY <3>3, <3>4
  <2>2. CASE p <= n
    <3>1. ~(p > n) /\ s[p].size # 0  BY <1>0, <1>4, <2>2
    <3>2. LineEnds(s, p) = {} \/ PastData(s, p) - 1 > n  BY <1>5, <2>2, <3>1 DEF GoesOn
    <3>3. f[p] = Malformed  BY <1>0, <3>1, <3>2 DEF DecodeStep
    <3>4. Part(f[p], t, i)  BY <3>3 DEF Part, Malformed
    <3>5. ~Whole(s, p, c)
      <4> SUFFICES ASSUME Whole(s, p, c)  PROVE FALSE  OBVIOUS
      <4>1. p + 2 <= n /\ p + 3 + m - 1 <= n  BY <1>0, <1>3
      <4>2. LineEnds(s, p) # {} /\ PastData(s, p) = p + 3 + m  BY <1>4, <2>2, <4>1
      <4>   QED  BY <1>0, <3>2, <4>1, <4>2
    <3>   QED  BY <3>4, <3>5
  <2>   QED  BY <1>0, <2>1, <2>2
<1>6. CASE GoesOn(s, p)
  <2> DEFINE past == p + 3 + m
             q == PastCRLF(s, past)
             x == SubSeq(s, p + 3, past - 1)
  <2>1. p <= n /\ LineEnds(s, p) # {} /\ ~(PastData(s, p) - 1 > n)  BY <1>6 DEF GoesOn
  <2>2. FirstData(s, p) = p + 3 /\ PastData(s, p) = past  BY <1>4, <2>1
  <2>3. past \in 1..n + 1 /\ past - 1 <= n  BY <1>0, <2>1, <2>2
  <2>4. q \in p + 1..n + 1  BY <1>0, <1>6, <2>2, PlacesAre
  <2>5. f[q] \in Decoding /\ q \in 1..n + 1  BY <1>0, <2>4
  <2>6. f[p] = [ok |-> f[q].ok, units |-> x \o f[q].units]
    BY <1>0, <1>6, <2>2, <2>5, DecodeGoesOn
  <2>7. /\ x \in Seq(Unit) /\ Len(x) = m
        /\ \A k \in 1..m : x[k] = s[p + 3 + k - 1]
    <3> DEFINE a == p + 3
               z == past - 1
    <3>1. a \in 1..Len(s) + 1 /\ z \in a - 1..Len(s) /\ z - a + 1 = m  BY <1>0, <2>3
    <3> HIDE DEF a, z
    <3>2. /\ SubSeq(s, a, z) \in Seq(Unit) /\ Len(SubSeq(s, a, z)) = z - a + 1
          /\ \A k \in 1..z - a + 1 : SubSeq(s, a, z)[k] = s[a + k - 1]
      BY <3>1, CutIs
    <3>   QED  BY <3>1, <3>2 DEF a, z
  <2>8. ASSUME NEW k \in 1..m  PROVE x[k].unit = t[i + k - 1]
    <3>1. p + 3 + k - 1 = p + 2 + k /\ p + 2 + k <= n  BY <1>0, <2>3
    <3>2. s[p + 2 + k] = DataUnit(u[k])  BY <1>1, <1>2, <3>1, ChunkUnits
    <3>3. x[k] = DataUnit(u[k])  BY <2>7, <3>1, <3>2
    <3>4. u[k] = t[i + k - 1]  BY <1>1
    <3> HIDE DEF x
    <3>   QED  BY <3>3, <3>4 DEF DataUnit
  <2> HIDE DEF x
  <2>9. Part(f[q], t, e + 1) /\ (Whole(s, p, c) => AllOf(f[q], t, e + 1))
    <3>1. CASE past < n
      <4>1. p + 3 + m <= n /\ p + 4 + m <= n /\ past + 1 = p + 4 + m /\ past + 2 = p + 5 + m  BY <1>0, <3>1
      <4>2. s[past] = Line("CR") /\ s[past + 1] = Line("LF") /\ Begins(s, past + 2, rest)
        BY <1>1, <1>2, <4>1, ChunkUnits
      <4>3. q = past + 2  BY <3>1, <4>2 DEF PastCRLF, Line
      <4>4. Whole(s, p, c) => Whole(s, past + 2, rest)  BY <1>3, <4>1
      <4>   QED  BY <4>2, <4>3, <4>4
    <3>2. CASE ~(past < n)
      <4>1. q = past  BY <3>2 DEF PastCRLF
      <4>2. ~Whole(s, p, c)  BY <1>0, <1>3, <3>2
      <4>3. past = n => s[past] = Line("CR")
        <5>1. p + 3 + Len(u) <= n => s[p + 3 + Len(u)] = Line("CR")  BY <1>1, <1>2, ChunkUnits
        <5>   QED  BY <1>0, <1>1, <5>1
      <4>4. past = n => s[past].size = 0 \/ s[past].is = "CR"  BY <4>3 DEF Line
      <4>5. past >= n /\ e + 1 \in 1..Len(t) + 1  BY <1>0, <2>3, <3>2
      <4> HIDE DEF past
      <4>6. f[past] = DecodeStep(f, s, past)  BY <2>3
      <4>7. Part(f[past], t, e + 1)  BY <2>3, <4>4, <4>5, <4>6, StopsHere
      <4>   QED  BY <4>1, <4>2, <4>7
    <3>   QED  BY <3>1, <3>2
  <2> HIDE DEF q, past
  <2>   QED  BY <2>5, <2>6, <2>7, <2>8, <2>9, PartsJoin
<1>   QED  BY <1>5, <1>6

(***************************************************************************)
(* decode_chunked undoes the chunks: what it makes of a beginning of the   *)
(* stream is a beginning of the document, and all of it of all the stream. *)
(***************************************************************************)
LEMMA ChunksDecoded ==
    ASSUME NEW t \in Seq(STRING), NEW n \in Nat, n > 0, NEW s \in Seq(Unit), Begins(s, 1, Chunked(t, n))
    PROVE  /\ DecodeChunked(s) \in Decoding /\ Part(DecodeChunked(s), t, 1)
           /\ Whole(s, 1, Chunked(t, n)) => AllOf(DecodeChunked(s), t, 1)
<1>1. PICK from : AreChunks(from, t, n) /\ Chunked(t, n) = from[1]  BY ChunkedIs
<1>2. PICK f \in [1..Len(s) + 1 -> Decoding] :
        DecodeChunked(s) = f[1] /\ \A p \in 1..Len(s) + 1 : f[p] = DecodeStep(f, s, p)
  BY DecodeIs
<1> DEFINE N == Len(t)
           Right(i) == \A p : Begins(s, p, from[i]) => /\ Part(f[p], t, i)
                                                       /\ Whole(s, p, from[i]) => AllOf(f[p], t, i)
           T == {i \in Int : Right(i)}
<1>0. N \in Nat /\ Len(s) \in Nat /\ 1 \in Int /\ N + 1 \in Int  OBVIOUS
<1>3. ASSUME NEW i \in 1..N + 1, \A j \in i + 1..N + 1 : j \in T  PROVE i \in T
  <2>1. from[i] = ChunksFrom(from, t, n, i)  BY <1>1 DEF AreChunks
  <2>2. CASE i > N
    <3>1. i = N + 1  BY <1>0, <2>2
    <3>2. from[i] = Chunk(<<>>)  BY <2>1, <2>2 DEF ChunksFrom
    <3>3. ASSUME NEW p, Begins(s, p, from[i])
          PROVE Part(f[p], t, i) /\ (Whole(s, p, from[i]) => AllOf(f[p], t, i))
      <4>1. p \in 1..Len(s) + 1  BY <3>3 DEF Begins
      <4>2. f[p] = DecodeStep(f, s, p)  BY <1>2, <4>1
      <4>   QED  BY <3>1, <3>2, <3>3, <4>2, LastChunkRead
    <3>4. Right(i)  BY <3>3
    <3>   QED  BY <3>4
  <2>3. CASE i <= N
    <3> DEFINE e == ChunkEnd(t, n, i)
    <3>1. i \in 1..N /\ ~(i > N)  BY <1>0, <2>3
    <3>2. e \in i..N  BY <1>0, <3>1, ChunkEndIs
    <3> HIDE DEF e
    <3>3. e + 1 \in i + 1..N + 1 /\ e + 1 \in 1..N + 1  BY <3>1, <3>2
    <3>4. from[i] = Chunk(SubSeq(t, i, e)) \o from[e + 1]  BY <2>1, <3>1 DEF ChunksFrom, e
    <3>5. from[e + 1] \in Seq(Unit)  BY <1>1, <3>3 DEF AreChunks
    <3>6. SubSeq(t, i, e) \in Seq(STRING)  BY <3>1, <3>2, PartIs
    <3>7. ChunkAt(from[i], SubSeq(t, i, e), from[e + 1])  BY <3>4, <3>5, <3>6, ChunkIs
    <3>8. Right(e + 1)  BY <1>3, <3>3
    <3>9. Right(i)  BY <1>2, <3>1, <3>2, <3>5, <3>7, <3>8, ChunkDecoded
    <3>   QED  BY <3>9
  <2>   QED  BY <1>0, <2>2, <2>3
<1> HIDE DEF T
<1>4. 1..N + 1 \subseteq T  BY <1>0, <1>3, DownFrom
<1>5. Right(1)
  <2>1. 1 \in 1..N + 1  BY <1>0
  <2>   QED  BY <1>4, <2>1 DEF T
<1>6. DecodeChunked(s) \in Decoding
  <2>1. 1 \in 1..Len(s) + 1  BY <1>0
  <2>   QED  BY <1>2, <2>1
<1>   QED  BY <1>1, <1>2, <1>5, <1>6

\* The answer is what the server wrote of its document.
ServerRight ==
    /\ server.document \in Seq(STRING)
    /\ server.framing.kind \in {"length", "close", "chunked"}
    /\ server.framing.kind = "chunked" => server.framing.size \in Nat /\ server.framing.size > 0
    /\ server.stream = Stream(server.document, server.framing)

LEMMA PayloadIs ==
    ASSUME NEW t \in Seq(STRING), NEW f, f.kind = "chunked" => f.size \in Nat /\ f.size > 0
    PROVE  Payload(t, f) \in Seq(Unit)
<1>1. CASE f.kind = "chunked"
  <2>1. PICK g : AreChunks(g, t, f.size) /\ Chunked(t, f.size) = g[1]  BY <1>1, ChunkedIs
  <2>2. 1 \in 1..Len(t) + 1  OBVIOUS
  <2>   QED  BY <1>1, <2>1, <2>2 DEF AreChunks, Payload
<1>2. CASE f.kind # "chunked"
  <2>1. Data(t) \in Seq(Unit)  BY DataIs
  <2>   QED  BY <1>2, <2>1 DEF Payload
<1>   QED  BY <1>1, <1>2

LEMMA StreamIs ==
    ASSUME NEW t \in Seq(STRING), NEW f, f.kind = "chunked" => f.size \in Nat /\ f.size > 0
    PROVE  LET p == Payload(t, f)
           IN  /\ p \in Seq(Unit)
               /\ Stream(t, f) \in Seq(Unit) /\ Len(Stream(t, f)) = 3 + Len(p)
               /\ \A k \in 1..Len(p) : Stream(t, f)[3 + k] = p[k]
<1> DEFINE p == Payload(t, f)
           h == <<Line("status"), Line("headers"), Line("blank")>>
<1>1. p \in Seq(Unit)  BY PayloadIs
<1>2. h \in Seq(Unit) /\ Len(h) = 3  BY UnitsAre
<1>3. Stream(t, f) = h \o p  BY DEF Stream
<1> HIDE DEF p, h
<1>4. IsJoined(h \o p, h, p, 3, Len(p))  BY <1>1, <1>2, JoinedUnits
<1>   QED  BY <1>1, <1>3, <1>4 DEF IsJoined, p

\* What is left of the answer behind its headers.
LEMMA RawPayloadIs ==
    ASSUME ServerRight, received \in 3..Len(server.stream)
    PROVE  LET p == Payload(server.document, server.framing)
           IN  /\ RawPayload \in Seq(Unit) /\ Begins(RawPayload, 1, p)
               /\ received = Len(server.stream) <=> Whole(RawPayload, 1, p)
<1> DEFINE z == server.stream
           p == Payload(server.document, server.framing)
           n == received
           r == SubSeq(z, 1, n)
           s == SubSeq(r, 4, n)
<1>1. /\ p \in Seq(Unit) /\ z \in Seq(Unit) /\ Len(z) = 3 + Len(p)
      /\ \A k \in 1..Len(p) : z[3 + k] = p[k]
  BY StreamIs DEF ServerRight
<1> HIDE DEF z, p, n
<1>2. n \in Nat /\ n >= 3 /\ n <= Len(z) /\ Len(z) \in Nat /\ Len(p) \in Nat  BY <1>1 DEF n, z
<1>3. /\ r \in Seq(Unit) /\ Len(r) = n /\ \A k \in 1..n : r[k] = z[k]
  <2>1. n \in 1 - 1..Len(z) /\ 1 \in 1..Len(z) + 1 /\ n - 1 + 1 = n  BY <1>2
  <2>2. \A k \in 1..n : 1 + k - 1 = k  OBVIOUS
  <2>   QED  BY <1>1, <2>1, <2>2, CutIs
<1> HIDE DEF r
<1>4. /\ s \in Seq(Unit) /\ Len(s) = n - 3 /\ \A k \in 1..n - 3 : s[k] = r[3 + k]
  <2>1. n \in 4 - 1..Len(r) /\ 4 \in 1..Len(r) + 1 /\ n - 4 + 1 = n - 3  BY <1>2, <1>3
  <2>2. \A k \in 1..n - 3 : 4 + k - 1 = 3 + k  OBVIOUS
  <2>3. /\ s \in Seq(Unit) /\ Len(s) = n - 4 + 1 /\ \A k \in 1..n - 4 + 1 : s[k] = r[4 + k - 1]
    BY <1>3, <2>1, CutIs
  <2> HIDE DEF s
  <2>   QED  BY <2>1, <2>2, <2>3
<1>5. RawPayload = s  BY <1>3 DEF RawPayload, Raw, r, z, n, s
<1> HIDE DEF s
<1>6. Begins(s, 1, p)
  <2>1. 1 \in 1..Len(s) + 1 /\ Len(s) - 1 + 1 = n - 3 /\ n - 3 <= Len(p)  BY <1>1, <1>2, <1>4
  <2>2. ASSUME NEW k \in 1..n - 3  PROVE s[1 + k - 1] = p[k]
    <3>1. 3 + k \in 1..n /\ k \in 1..Len(p) /\ 1 + k - 1 = k  BY <1>2, <2>1
    <3>   QED  BY <1>1, <1>3, <1>4, <3>1
  <2>   QED  BY <2>1, <2>2 DEF Begins
<1>7. n = Len(z) <=> Whole(s, 1, p)  BY <1>1, <1>2, <1>4 DEF Whole
<1>   QED  BY <1>4, <1>5, <1>6, <1>7 DEF n, z, p

\* Data that are not in chunks.
LEMMA PlainData ==
    ASSUME NEW t \in Seq(STRING), NEW s \in Seq(Unit), Begins(s, 1, Data(t))
    PROVE  /\ Part(Decoded(s), t, 1) /\ Len(s) <= Len(t)
           /\ Whole(s, 1, Data(t)) => AllOf(Decoded(s), t, 1)
<1>1. Len(Data(t)) = Len(t) /\ \A k \in 1..Len(t) : Data(t)[k] = [is |-> "data", size |-> 0, unit |-> t[k]]
  BY DataIs
<1>2. Len(s) \in Nat /\ Len(t) \in Nat /\ Len(s) - 1 + 1 = Len(s) /\ Len(t) - 1 + 1 = Len(t)  OBVIOUS
<1>3. Len(s) <= Len(t) /\ \A k \in 1..Len(s) : s[1 + k - 1] = Data(t)[k]  BY <1>1, <1>2 DEF Begins
<1>4. ASSUME NEW k \in 1..Len(s)  PROVE s[k].unit = t[1 + k - 1]
  <2>1. k \in 1..Len(t) /\ 1 + k - 1 = k  BY <1>2, <1>3
  <2>2. s[k] = [is |-> "data", size |-> 0, unit |-> t[k]]  BY <1>1, <1>3, <2>1
  <2>   QED  BY <2>1, <2>2
<1>5. Decoded(s).units = s /\ Decoded(s).ok  BY DEF Decoded
<1>6. Part(Decoded(s), t, 1)  BY <1>2, <1>3, <1>4, <1>5 DEF Part
<1>7. Whole(s, 1, Data(t)) => AllOf(Decoded(s), t, 1)  BY <1>1, <1>2, <1>5 DEF Whole, AllOf
<1>   QED  BY <1>3, <1>6, <1>7

\* A declared length takes nothing from what was received.
LEMMA NothingCut ==
    ASSUME NEW s \in Seq(Unit), Len(server.document) \in Nat, Len(s) <= Len(server.document)
    PROVE  CutToLength(s) = s
<1> DEFINE S == {Len(s), Len(server.document)}
<1>0. Len(s) \in Nat  OBVIOUS
<1>1. Min(S) = Len(s)
  <2>1. S \subseteq Nat /\ S # {} /\ Len(s) \in S  BY <1>0
  <2>2. Min(S) \in S /\ Min(S) <= Len(s)  BY <2>1, LeastIs
  <2>3. Min(S) = Len(s) \/ Min(S) = Len(server.document)  BY <2>2
  <2> HIDE DEF S
  <2>   QED  BY <1>0, <2>2, <2>3
<1>2. SubSeq(s, 1, Len(s)) = s  OBVIOUS
<1>   QED  BY <1>1, <1>2 DEF CutToLength

LEMMA ExtractedIs ==
    ASSUME ServerRight, received \in 3..Len(server.stream)
    PROVE  /\ Part(Extracted, server.document, 1) /\ Len(Extracted.units) \in Nat
           /\ received = Len(server.stream) => AllOf(Extracted, server.document, 1)
<1> DEFINE t == server.document
           s == RawPayload
           p == Payload(t, server.framing)
           whole == received = Len(server.stream)
<1>1. s \in Seq(Unit) /\ Begins(s, 1, p) /\ (whole <=> Whole(s, 1, p))  BY RawPayloadIs
<1>2. t \in Seq(STRING) /\ Len(t) \in Nat  BY DEF ServerRight
<1> HIDE DEF s, t, p, whole
<1>3. CASE server.framing.kind = "chunked"
  <2>1. p = Chunked(t, server.framing.size)  BY <1>3 DEF p, Payload
  <2>2. Extracted = DecodeChunked(s)  BY <1>3 DEF Extracted, s
  <2>3. server.framing.size \in Nat /\ server.framing.size > 0  BY <1>3 DEF ServerRight
  <2>4. /\ Extracted \in Decoding /\ Part(Extracted, t, 1)
        /\ Whole(s, 1, p) => AllOf(Extracted, t, 1)
    BY <1>1, <1>2, <2>1, <2>2, <2>3, ChunksDecoded
  <2>5. Len(Extracted.units) \in Nat  BY <2>4 DEF Decoding
  <2>   QED  BY <1>1, <2>4, <2>5 DEF t, whole
<1>4. CASE server.framing.kind # "chunked"
  <2>1. p = Data(t)  BY <1>4 DEF p, Payload
  <2>2. /\ Part(Decoded(s), t, 1) /\ Len(s) <= Len(t)
        /\ Whole(s, 1, p) => AllOf(Decoded(s), t, 1)
    BY <1>1, <1>2, <2>1, PlainData
  <2>3. Extracted = Decoded(s)
    <3>1. CASE server.framing.kind = "length"
      <4>1. Extracted = Decoded(CutToLength(s))  BY <3>1 DEF Extracted, s
      <4>2. CutToLength(s) = s  BY <1>1, <1>2, <2>2, NothingCut DEF t
      <4>   QED  BY <4>1, <4>2
    <3>2. CASE server.framing.kind = "close"
      BY <3>2 DEF Extracted, s
    <3>   QED  BY <1>4, <3>1, <3>2 DEF ServerRight
  <2>4. Len(Extracted.units) \in Nat  BY <1>1, <2>3 DEF Decoded
  <2>   QED  BY <1>1, <2>2, <2>3, <2>4 DEF t, whole
<1>   QED  BY <1>3, <1>4

\* The body taken from it.
LEMMA BodyIs ==
    ASSUME NEW t \in Seq(STRING), NEW d, Part(d, t, 1), d.ok, Len(d.units) \in Nat, NEW b,
           b = [k \in 1..Len(d.units) |-> d.units[k].unit]
    PROVE  IsPrefix(b, t) /\ b \in Seq(STRING) /\ (AllOf(d, t, 1) => b = t)
<1> DEFINE n == Len(d.units)
<1>1. Len(t) \in Nat /\ n \in Nat /\ n <= Len(t)
  <2>1. Len(t) \in Nat /\ n <= Len(t) - 1 + 1  BY DEF Part
  <2>   QED  BY <2>1
<1>2. \A k \in 1..n : d.units[k].unit = t[k]
  <2>1. \A k \in 1..n : d.units[k].unit = t[1 + k - 1] /\ 1 + k - 1 = k  BY DEF Part
  <2>   QED  BY <2>1
<1>3. b = [k \in 1..n |-> t[k]]  BY <1>2
<1> HIDE DEF n
<1>4. Len(b) = n  BY <1>1, <1>3
<1>5. SubSeq(b, 1, n) = SubSeq(t, 1, n)
  <2>1. \A k \in 1..n : b[k] = t[k] /\ b[k] \in STRING /\ t[k] \in STRING  BY <1>1, <1>3
  <2> DEFINE x == SubSeq(b, 1, n)
             y == SubSeq(t, 1, n)
  <2>2. /\ x \in Seq(STRING) /\ Len(x) = (IF 1 <= n THEN n - 1 + 1 ELSE 0)
        /\ \A k \in 1..n - 1 + 1 : x[k] = b[1 + k - 1]
    BY <1>1, <2>1, SubSeqProperties
  <2>3. /\ y \in Seq(STRING) /\ Len(y) = (IF 1 <= n THEN n - 1 + 1 ELSE 0)
        /\ \A k \in 1..n - 1 + 1 : y[k] = t[1 + k - 1]
    BY <1>1, <2>1, SubSeqProperties
  <2> HIDE DEF x, y
  <2>4. Len(x) = n /\ Len(y) = n /\ \A k \in 1..n : 1 + k - 1 = k /\ k \in 1..n - 1 + 1  BY <1>1, <2>2, <2>3
  <2>5. ASSUME NEW k \in 1..n  PROVE x[k] = y[k]
    <3>1. k \in 1..n - 1 + 1 /\ 1 + k - 1 = k  BY <2>4
    <3>2. x[k] = b[k]  BY <2>2, <3>1
    <3>3. y[k] = t[k]  BY <2>3, <3>1
    <3>   QED  BY <2>1, <3>2, <3>3
  <2>6. x = y  BY <2>2, <2>3, <2>4, <2>5
  <2>   QED  BY <2>6 DEF x, y
<1>6. AllOf(d, t, 1) => b = t
  <2> HAVE AllOf(d, t, 1)
  <2>1. n = Len(t) - 1 + 1  BY DEF AllOf, n
  <2>2. n = Len(t)  BY <1>1, <2>1
  <2>3. t = [k \in 1..Len(t) |-> t[k]]  OBVIOUS
  <2>   QED  BY <1>3, <2>2, <2>3
<1>7. b \in Seq(STRING)
  <2>1. \A k \in 1..n : t[k] \in STRING  BY <1>1
  <2>   QED  BY <1>1, <1>3, <2>1
<1>   QED  BY <1>1, <1>4, <1>5, <1>6, <1>7 DEF IsPrefix

-----------------------------------------------------------------------------
(* Where the parser reads.                                                 *)

Within(i) == i \in 1..Len(input) + 1

LEMMA SkipsWithin ==
    ASSUME Len(input) \in Nat, NEW i, Within(i)
    PROVE  SkipBlanks(i) \in i..Len(input) + 1 /\ DigitsEnd(i) \in i..Len(input) + 1
<1>0. i \in 1..Len(input) + 1  BY DEF Within
<1>1. ASSUME NEW S, S \subseteq i..Len(input)
      PROVE  (IF S = {} THEN Len(input) + 1 ELSE Min(S)) \in i..Len(input) + 1
  <2>1. CASE S = {}  BY <1>0, <2>1
  <2>2. CASE S # {}
    <3>1. S \subseteq Nat  BY <1>0, <1>1
    <3>2. Min(S) \in S  BY <2>2, <3>1, LeastIs
    <3>3. Min(S) \in i..Len(input)  BY <1>1, <3>2
    <3>   QED  BY <1>0, <2>2, <3>3
  <2>   QED  BY <2>1, <2>2
<1> DEFINE solid == {j \in i..Len(input) : input[j] # Blank}
           other == {j \in i..Len(input) : input[j] # "1"}
<1>2. SkipBlanks(i) = IF solid = {} THEN Len(input) + 1 ELSE Min(solid)  BY Zenon DEF SkipBlanks
<1>3. DigitsEnd(i) = IF other = {} THEN Len(input) + 1 ELSE Min(other)  BY Zenon DEF DigitsEnd
<1>4. solid \subseteq i..Len(input) /\ other \subseteq i..Len(input)  BY Zenon
<1> HIDE DEF solid, other
<1>   QED  BY <1>1, <1>2, <1>3, <1>4

LEMMA EndIs == "end" \notin {Quote, "\\", "{", "[", "}", "]", ":", ",", "1", "true", "false", "null"}
BY Zenon DEF Quote

LEMMA EscapableIs == Escapable = {Quote, "\\"} /\ Literals = {"true", "false", "null"}
BY Zenon DEF Escapable, Literals

LEMMA UnitThere ==
    ASSUME Len(input) \in Nat, NEW i, Within(i), UnitAt(i) # "end"
    PROVE  i \in 1..Len(input) /\ UnitAt(i) = input[i] /\ Within(i + 1)
BY DEF Within, UnitAt

-----------------------------------------------------------------------------
(* The text of a string is a recursive function too.                       *)

StringBodies == [ok : BOOLEAN, text : Seq(STRING), next : Int]

Unread(i) == [ok |-> FALSE, text |-> <<>>, next |-> i]

Longer(d, x) == [d EXCEPT !.text = <<x>> \o @]

\* One step of parse_string_body, which f goes on from.
BodyStep(f, i, j) ==
    CASE UnitAt(j) = "end" -> Unread(i)
      [] UnitAt(j) = Quote -> [ok |-> TRUE, text |-> <<>>, next |-> j + 1]
      [] UnitAt(j) = "\\"  -> IF UnitAt(j + 1) \in Escapable THEN Longer(f[j + 2], input[j + 1]) ELSE Unread(i)
      [] OTHER -> Longer(f[j + 1], input[j])

LEMMA BodyStepIs ==
    ASSUME NEW f, NEW i, NEW j
    PROVE  /\ UnitAt(j) = "end" => BodyStep(f, i, j) = Unread(i)
           /\ UnitAt(j) = Quote => BodyStep(f, i, j) = [ok |-> TRUE, text |-> <<>>, next |-> j + 1]
           /\ UnitAt(j) = "\\" => BodyStep(f, i, j) = IF UnitAt(j + 1) \in Escapable
                                                       THEN Longer(f[j + 2], input[j + 1]) ELSE Unread(i)
           /\ UnitAt(j) \notin {"end", Quote, "\\"} => BodyStep(f, i, j) = Longer(f[j + 1], input[j])
<1>1. Quote # "\\" /\ Quote # "end" /\ "end" # "\\"  BY Zenon DEF Quote
<1>   QED  BY <1>1 DEF BodyStep

\* What it goes on from lies further on, while there is input.
LEMMA BodyGoesOn ==
    ASSUME Len(input) \in Nat, NEW i \in 1..Len(input) + 1, NEW j \in i..Len(input) + 2
    PROVE  /\ UnitAt(j) # "end" => j <= Len(input) /\ j + 1 \in j + 1..Len(input) + 2
           /\ UnitAt(j) # "end" /\ UnitAt(j + 1) \in Escapable =>
                j + 1 <= Len(input) /\ j + 2 \in j + 1..Len(input) + 2
<1>1. \A k \in Int : UnitAt(k) # "end" => k <= Len(input)  BY DEF UnitAt
<1>2. UnitAt(j + 1) \in Escapable => UnitAt(j + 1) # "end"  BY EscapableIs, EndIs
<1>3. j \in Int /\ j + 1 \in Int  OBVIOUS
<1>4. UnitAt(j) # "end" => j <= Len(input)  BY <1>1, <1>3
<1>5. UnitAt(j + 1) # "end" => j + 1 <= Len(input)  BY <1>1, <1>3
<1>   QED  BY <1>2, <1>4, <1>5

LEMMA BodyStepLocal ==
    ASSUME Len(input) \in Nat, NEW i \in 1..Len(input) + 1, NEW j \in i..Len(input) + 2,
           NEW f, NEW g, \A k \in j + 1..Len(input) + 2 : f[k] = g[k]
    PROVE  BodyStep(f, i, j) = BodyStep(g, i, j)
<1>1. CASE UnitAt(j) = "end"  BY <1>1, BodyStepIs
<1>2. CASE UnitAt(j) = Quote
  <2>1. BodyStep(f, i, j) = [ok |-> TRUE, text |-> <<>>, next |-> j + 1]  BY <1>2, BodyStepIs
  <2>2. BodyStep(g, i, j) = [ok |-> TRUE, text |-> <<>>, next |-> j + 1]  BY <1>2, BodyStepIs
  <2>   QED  BY <2>1, <2>2
<1>3. CASE UnitAt(j) = "\\"
  <2>1. UnitAt(j) # "end"  BY <1>3, EndIs
  <2>2. UnitAt(j + 1) \in Escapable => f[j + 2] = g[j + 2]  BY <2>1, BodyGoesOn
  <2>   QED  BY <1>3, <2>2, BodyStepIs
<1>4. CASE UnitAt(j) \notin {"end", Quote, "\\"}
  <2>1. f[j + 1] = g[j + 1]  BY <1>4, BodyGoesOn
  <2>   QED  BY <1>4, <2>1, BodyStepIs
<1>   QED  BY <1>1, <1>2, <1>3, <1>4

LEMMA LongerIs ==
    ASSUME NEW d \in StringBodies, NEW x \in STRING
    PROVE  Longer(d, x) \in StringBodies /\ Longer(d, x).ok = d.ok /\ Longer(d, x).next = d.next
<1> DEFINE u == <<x>> \o d.text
<1>1. d.text \in Seq(STRING) /\ <<x>> \in Seq(STRING)  BY DEF StringBodies
<1>2. u \in Seq(STRING)  BY <1>1, ConcatProperties
<1>3. Longer(d, x) = [d EXCEPT !.text = u]  BY DEF Longer
<1> HIDE DEF u
<1>   QED  BY <1>2, <1>3 DEF StringBodies

LEMMA BodyStepTyped ==
    ASSUME input \in Seq(STRING), NEW i \in 1..Len(input) + 1, NEW j \in i..Len(input) + 2,
           NEW f, \A k \in j + 1..Len(input) + 2 :
                    f[k] \in StringBodies /\ (f[k].ok => f[k].next \in i + 1..Len(input) + 1)
    PROVE  /\ BodyStep(f, i, j) \in StringBodies
           /\ BodyStep(f, i, j).ok => BodyStep(f, i, j).next \in i + 1..Len(input) + 1
<1>0. Len(input) \in Nat /\ \A k \in 1..Len(input) : input[k] \in STRING  OBVIOUS
<1>u. Unread(i) \in StringBodies /\ ~Unread(i).ok  BY DEF Unread, StringBodies
<1>1. CASE UnitAt(j) = "end"  BY <1>1, <1>u, BodyStepIs
<1>2. CASE UnitAt(j) = Quote
  <2> DEFINE d == [ok |-> TRUE, text |-> <<>>, next |-> j + 1]
  <2>1. UnitAt(j) # "end"  BY <1>2, EndIs
  <2>2. j <= Len(input)  BY <1>0, <2>1, BodyGoesOn
  <2>3. d \in StringBodies /\ d.next \in i + 1..Len(input) + 1  BY <1>0, <2>2 DEF StringBodies
  <2>4. BodyStep(f, i, j) = d  BY <1>2, BodyStepIs
  <2>   QED  BY <2>3, <2>4
<1>3. CASE UnitAt(j) = "\\"
  <2>1. UnitAt(j) # "end"  BY <1>3, EndIs
  <2>2. CASE UnitAt(j + 1) \in Escapable
    <3>1. j + 1 \in 1..Len(input) /\ j + 2 \in j + 1..Len(input) + 2  BY <1>0, <2>1, <2>2, BodyGoesOn
    <3>2. BodyStep(f, i, j) = Longer(f[j + 2], input[j + 1])  BY <1>3, <2>2, BodyStepIs
    <3> DEFINE d == f[j + 2]
               b == BodyStep(f, i, j)
    <3>3. d \in StringBodies /\ (d.ok => d.next \in i + 1..Len(input) + 1)  BY <3>1
    <3>4. input[j + 1] \in STRING  BY <1>0, <3>1
    <3>5. b = Longer(d, input[j + 1])  BY <3>2
    <3> HIDE DEF d, b
    <3>6. b \in StringBodies /\ b.ok = d.ok /\ b.next = d.next  BY <3>3, <3>4, <3>5, LongerIs
    <3>7. b \in StringBodies /\ (b.ok => b.next \in i + 1..Len(input) + 1)  BY <3>3, <3>6
    <3>   QED  BY <3>7 DEF b
  <2>3. CASE UnitAt(j + 1) \notin Escapable
    <3>1. BodyStep(f, i, j) = Unread(i)  BY <1>3, <2>3, BodyStepIs
    <3>   QED  BY <1>u, <3>1
  <2>   QED  BY <2>2, <2>3
<1>4. CASE UnitAt(j) \notin {"end", Quote, "\\"}
  <2>1. j \in 1..Len(input) /\ j + 1 \in j + 1..Len(input) + 2  BY <1>0, <1>4, BodyGoesOn
  <2>2. BodyStep(f, i, j) = Longer(f[j + 1], input[j])  BY <1>4, BodyStepIs
  <2> DEFINE d == f[j + 1]
             b == BodyStep(f, i, j)
  <2>3. d \in StringBodies /\ (d.ok => d.next \in i + 1..Len(input) + 1)  BY <2>1
  <2>4. input[j] \in STRING  BY <1>0, <2>1
  <2>5. b = Longer(d, input[j])  BY <2>2
  <2> HIDE DEF d, b
  <2>6. b \in StringBodies /\ b.ok = d.ok /\ b.next = d.next  BY <2>3, <2>4, <2>5, LongerIs
  <2>7. b \in StringBodies /\ (b.ok => b.next \in i + 1..Len(input) + 1)  BY <2>3, <2>6
  <2>   QED  BY <2>7 DEF b
<1>   QED  BY <1>1, <1>2, <1>3, <1>4

\* Those that say where a string that was read ends, within the input.
BodiesWithin(i) == {d \in StringBodies : d.ok => d.next \in i + 1..Len(input) + 1}

IsBody(f, i) == f = [j \in i..Len(input) + 2 |-> BodyStep(f, i, j)]

LEMMA BodyExists ==
    ASSUME input \in Seq(STRING), NEW i \in 1..Len(input) + 1
    PROVE  \E f : IsBody(f, i)
<1> DEFINE M == Len(input) + 2
           V == BodiesWithin(i)
           D == (i..M) \X UNION {[p + 1..M -> V] : p \in i..M}
           G == [x \in D |-> BodyStep(x[2], i, x[1])]
<1>0. i \in Int /\ M \in Int /\ Len(input) \in Nat  OBVIOUS
<1> HIDE DEF M, V
<1>1. ASSUME NEW p \in i..M, NEW f \in [p + 1..M -> V]
      PROVE  G[<<p, f>>] = BodyStep(f, i, p) /\ BodyStep(f, i, p) \in V
  <2>1. <<p, f>> \in D  OBVIOUS
  <2>2. G[<<p, f>>] = BodyStep(f, i, p)  BY <2>1
  <2>3. \A j \in p + 1..M : f[j] \in V  OBVIOUS
  <2>4. \A j \in p + 1..M : f[j] \in StringBodies /\ (f[j].ok => f[j].next \in i + 1..Len(input) + 1)
    BY <2>3 DEF V, BodiesWithin
  <2>5. /\ BodyStep(f, i, p) \in StringBodies
        /\ BodyStep(f, i, p).ok => BodyStep(f, i, p).next \in i + 1..Len(input) + 1
    BY <2>4, BodyStepTyped DEF M
  <2>   QED  BY <2>2, <2>5 DEF V, BodiesWithin
<1> HIDE DEF G
<1>2. PICK h \in [i..M -> V] : Recursive(h, i, M, G)
  <2>1. StepsInto(V, i, M, G)  BY <1>1 DEF StepsInto
  <2>   QED  BY <1>0, <2>1, RecursionDown
<1>3. ASSUME NEW p \in i..M  PROVE h[p] = BodyStep(h, i, p)
  <2> DEFINE f == [q \in p + 1..M |-> h[q]]
  <2>1. \A q \in p + 1..M : q \in i..M  BY <1>0
  <2>2. f \in [p + 1..M -> V] /\ \A q \in p + 1..M : f[q] = h[q]  BY <1>2, <2>1
  <2>3. h[p] = G[<<p, f>>]  BY <1>2 DEF Recursive
  <2> HIDE DEF f
  <2>4. h[p] = BodyStep(f, i, p)  BY <1>1, <2>2, <2>3
  <2>   QED  BY <1>0, <2>2, <2>4, BodyStepLocal DEF M
<1>4. h = [p \in i..M |-> BodyStep(h, i, p)]  BY <1>2, <1>3
<1>   QED  BY <1>4 DEF IsBody, M

LEMMA BodyFunction ==
    ASSUME input \in Seq(STRING), NEW i, Within(i)
    PROVE  \E f : /\ StringBody(i) = f[i]
                  /\ \A j \in i..Len(input) + 2 : f[j] = BodyStep(f, i, j) /\ f[j] \in BodiesWithin(i)
<1> DEFINE f == CHOOSE f : IsBody(f, i)
           M == Len(input) + 2
           T == {j \in Int : f[j] \in BodiesWithin(i)}
<1>0. i \in 1..Len(input) + 1 /\ Len(input) \in Nat /\ i \in Int /\ M \in Int  BY DEF Within
<1>1. StringBody(i) = f[i]  BY DEF StringBody, IsBody, BodyStep, Unread, Longer
<1>2. IsBody(f, i)  BY <1>0, BodyExists
<1> HIDE DEF f
<1>3. \A j \in i..M : f[j] = BodyStep(f, i, j)  BY <1>2 DEF IsBody
<1>4. ASSUME NEW j \in i..M, \A k \in j + 1..M : k \in T  PROVE j \in T
  <2>1. \A k \in j + 1..M : f[k] \in StringBodies /\ (f[k].ok => f[k].next \in i + 1..Len(input) + 1)
    BY <1>4 DEF BodiesWithin
  <2>2. f[j] \in BodiesWithin(i)  BY <1>0, <1>3, <2>1, BodyStepTyped DEF BodiesWithin
  <2>   QED  BY <2>2
<1> HIDE DEF M, T
<1>5. i..M \subseteq T  BY <1>0, <1>4, DownFrom
<1>6. \A j \in i..M : f[j] \in BodiesWithin(i)  BY <1>5 DEF T
<1>   QED  BY <1>1, <1>3, <1>6 DEF M

LEMMA StringBodyIs ==
    ASSUME input \in Seq(STRING), NEW i, Within(i), StringBody(i).ok
    PROVE  StringBody(i).next \in i + 1..Len(input) + 1
<1>1. PICK f : /\ StringBody(i) = f[i]
               /\ \A j \in i..Len(input) + 2 : f[j] = BodyStep(f, i, j) /\ f[j] \in BodiesWithin(i)
  BY BodyFunction
<1>2. i \in i..Len(input) + 2  BY DEF Within
<1>3. f[i] \in BodiesWithin(i)  BY <1>1, <1>2
<1>   QED  BY <1>1, <1>3 DEF BodiesWithin

-----------------------------------------------------------------------------
(* The exchange: what it has received, and what it makes of it.            *)

WrittenInv ==
    /\ ServerRight /\ HttpTypeOK /\ BodyAsWritten
    /\ body \in Seq(STRING)
    /\ ~server.faulty => received \in {0, Len(server.stream)}

LEMMA WrittenInitially == Init => WrittenInv
<1> SUFFICES ASSUME Init  PROVE WrittenInv  OBVIOUS
<1>1. PICK g \in Servers : \E t \in g.documents, f \in g.framings, faulty \in g.faulty :
        server = [document |-> t, framing |-> f, faulty |-> faulty, stream |-> Stream(t, f)]
  BY DEF Init, HttpInit
<1>2. PICK t \in g.documents, f \in g.framings, faulty \in g.faulty :
        server = [document |-> t, framing |-> f, faulty |-> faulty, stream |-> Stream(t, f)]
  BY <1>1
<1>3. t \in Seq(STRING) /\ f.kind \in {"length", "close", "chunked"} /\ f.size \in Nat
      /\ (f.kind = "chunked" => f.size > 0)
  BY <1>1, <1>2, HttpAssumption
<1>4. server.document = t /\ server.framing = f /\ server.stream = Stream(t, f)  BY <1>2
<1>5. ServerRight  BY <1>3, <1>4 DEF ServerRight
<1>6. Len(server.stream) \in Nat
  <2>1. Stream(t, f) \in Seq(Unit)  BY <1>3, StreamIs
  <2>   QED  BY <1>4, <2>1
<1>7. /\ phase = "resolve" /\ address = 0 /\ sent = 0 /\ received = 0
      /\ fault = NoFault /\ body = <<>> /\ held = {}
  BY DEF Init, HttpInit
<1>8. HttpTypeOK
  <2>1. 0 \in 0..Addresses /\ 0 \in 0..RequestLength /\ 0 \in 0..Len(server.stream)
    BY <1>6, HttpAssumption DEF RequestLength
  <2>   QED  BY <1>7, <2>1 DEF HttpTypeOK, Phases
<1>   QED  BY <1>5, <1>7, <1>8 DEF WrittenInv, BodyAsWritten

LEMMA StreamLong == ASSUME ServerRight PROVE Len(server.stream) \in Nat /\ Len(server.stream) >= 3
<1> DEFINE p == Payload(server.document, server.framing)
<1>1. p \in Seq(Unit) /\ Len(server.stream) = 3 + Len(p)  BY StreamIs DEF ServerRight
<1> HIDE DEF p
<1>   QED  BY <1>1

\* The steps that leave the answer and the body alone.
LEMMA EarlySteps ==
    ASSUME WrittenInv, HttpInv,
           \/ Resolve \/ CannotResolve \/ Connect \/ ConnectFails \/ NoAddressLeft
           \/ MakeHead \/ NoHead \/ Send \/ SendFails \/ AllSent
    PROVE  WrittenInv'
<1>1. /\ UNCHANGED <<server, received, body>>
      /\ phase' = "done" => fault'.what \in {"resolve", "connect", "memory", "send"}
  <2> USE DEF Fails, HttpInv
  <2>1. CASE Resolve \/ CannotResolve  BY <2>1 DEF Resolve, CannotResolve
  <2>2. CASE Connect \/ ConnectFails \/ NoAddressLeft  BY <2>2 DEF Connect, ConnectFails, NoAddressLeft
  <2>3. CASE MakeHead \/ NoHead  BY <2>3 DEF MakeHead, NoHead
  <2>4. CASE Send \/ SendFails \/ AllSent  BY <2>4 DEF Send, SendFails, AllSent
  <2>   QED  BY <2>1, <2>2, <2>3, <2>4
<1>2. ServerRight' /\ body' \in Seq(STRING) /\ (~server'.faulty => received' \in {0, Len(server'.stream)})
  BY <1>1 DEF WrittenInv, ServerRight
<1>3. BodyAsWritten'
  <2>1. phase' = "done" => fault' # NoFault /\ fault'.what # "malformed"  BY <1>1 DEF NoFault
  <2>2. NoFault' = NoFault  BY DEF NoFault
  <2>   QED  BY <2>1, <2>2 DEF BodyAsWritten
<1>4. HttpTypeOK'
  <2>0. /\ HttpTypeOK /\ Addresses \in Nat /\ HeadLength \in Nat /\ BodyLength \in Nat
    BY HttpAssumption DEF WrittenInv
  <2>a. /\ address \in 0..Addresses /\ sent \in 0..RequestLength /\ fault = NoFault
        /\ held \subseteq {"addresses", "socket", "head", "raw", "body", "message"}
    <3>1. phase # "done"
      BY DEF Resolve, CannotResolve, Connect, ConnectFails, NoAddressLeft, MakeHead, NoHead, Send, SendFails, AllSent
    <3>   QED  BY <2>0, <3>1 DEF HttpTypeOK, HttpInv
  <2>1. address' \in 0..Addresses
    <3>1. address' = address \/ (address < Addresses /\ address' = address + 1)
      BY DEF Resolve, CannotResolve, Connect, ConnectFails, NoAddressLeft, MakeHead, NoHead, Send, SendFails, AllSent
    <3>   QED  BY <2>0, <2>a, <3>1
  <2>2. sent' \in 0..RequestLength
    <3>1. CASE Send
      <4>1. PICK n \in 1..(IF sent < HeadLength THEN HeadLength ELSE RequestLength) - sent : sent' = sent + n
        BY <3>1 DEF Send
      <4>2. sent \in Nat  BY <2>0, <2>a DEF RequestLength
      <4>   QED  BY <2>0, <4>1, <4>2 DEF RequestLength
    <3>2. CASE ~Send
      <4>1. sent' = sent
        BY <3>2 DEF Resolve, CannotResolve, Connect, ConnectFails, NoAddressLeft, MakeHead, NoHead, SendFails, AllSent
      <4>   QED  BY <2>a, <4>1
    <3>   QED  BY <3>1, <3>2
  <2>3. phase' \in Phases
    <3>1. phase' \in {"connect", "head", "send", "receive", "done"}
      BY DEF Resolve, CannotResolve, Connect, ConnectFails, NoAddressLeft, MakeHead, NoHead, Send, SendFails, AllSent, Fails
    <3>   QED  BY <3>1 DEF Phases
  <2>4. held' \subseteq {"addresses", "socket", "head", "raw", "body", "message"}
    <3>1. held' \subseteq held \cup {"addresses", "socket", "head", "raw", "message"}
      <4>1. CASE Resolve \/ CannotResolve  BY <4>1 DEF Resolve, CannotResolve, Says
      <4>2. CASE Connect \/ ConnectFails \/ NoAddressLeft  BY <4>2 DEF Connect, ConnectFails, NoAddressLeft, Says
      <4>3. CASE MakeHead \/ NoHead  BY <4>3 DEF MakeHead, NoHead, Says
      <4>4. CASE Send \/ SendFails \/ AllSent  BY <4>4 DEF Send, SendFails, AllSent, Says
      <4>   QED  BY <4>1, <4>2, <4>3, <4>4
    <3>   QED  BY <2>a, <3>1
  <2>5. fault' = NoFault \/ (fault'.what \in Faults /\ fault'.errno \in Errnos)
    <3>1. \/ fault' = fault
          \/ \E what \in {"resolve", "connect", "memory", "send"} :
             \E errno \in {"none", "ETIMEDOUT", "ECONNRESET", "EAGAIN", "EINTR"} : fault' = [what |-> what, errno |-> errno]
      <4>1. CASE Resolve \/ CannotResolve  BY <4>1 DEF Resolve, CannotResolve, Fails
      <4>2. CASE Connect \/ ConnectFails \/ NoAddressLeft  BY <4>2 DEF Connect, ConnectFails, NoAddressLeft, Fails
      <4>3. CASE MakeHead \/ NoHead  BY <4>3 DEF MakeHead, NoHead, Fails
      <4>4. CASE Send \/ SendFails \/ AllSent  BY <4>4 DEF Send, SendFails, AllSent, Fails
      <4>   QED  BY <4>1, <4>2, <4>3, <4>4
    <3>   QED  BY <2>a, <3>1 DEF Faults, Errnos
  <2>6. received' \in 0..Len(server'.stream)  BY <1>1, <2>0 DEF HttpTypeOK
  <2>   QED  BY <2>1, <2>2, <2>3, <2>4, <2>5, <2>6 DEF HttpTypeOK, RequestLength, NoFault, Phases, Faults, Errnos
<1>   QED  BY <1>2, <1>3, <1>4 DEF WrittenInv

LEMMA ReceivingSteps ==
    ASSUME WrittenInv, HttpInv, Receive \/ ReceiveEnds \/ ReceiveFails \/ ReceiveTimesOut
    PROVE  WrittenInv'
<1>0. Len(server.stream) \in Nat /\ received \in 0..Len(server.stream)
  BY StreamLong DEF WrittenInv, HttpTypeOK
<1>1. /\ UNCHANGED <<server, address, sent, body>>
      /\ phase' = "done" => fault'.what = "read" /\ fault'.errno \in Errnos
      /\ phase' # "done" => fault' = fault
      /\ phase' \in {"done", "read", "receive"}
      /\ held' \subseteq held \cup {"message"}
      /\ phase = "receive"
  BY DEF Receive, ReceiveEnds, ReceiveFails, ReceiveTimesOut, WaitFails, Fails, Says, Errnos
<1>2. received' \in 0..Len(server.stream) /\ (~server.faulty => received' \in {0, Len(server.stream)})
  <2>1. CASE Receive
    <3> DEFINE N == Len(server.stream)
    <3>1. CASE server.faulty
      <4>1. PICK n \in 1..N - received : received' = received + n  BY <2>1, <3>1 DEF Receive
      <4> HIDE DEF N
      <4>2. received' \in 0..N  BY <1>0, <4>1 DEF N
      <4>   QED  BY <3>1, <4>2 DEF N
    <3>2. CASE ~server.faulty
      <4>1. received' = received + N /\ received < N  BY <2>1, <3>2 DEF Receive
      <4>2. received = 0  BY <1>0, <3>2, <4>1 DEF WrittenInv
      <4> HIDE DEF N
      <4>3. received' = N  BY <1>0, <4>1, <4>2 DEF N
      <4>   QED  BY <1>0, <4>3 DEF N
    <3>   QED  BY <3>1, <3>2
  <2>2. CASE ReceiveEnds \/ ReceiveFails \/ ReceiveTimesOut
    <3>1. received' = received  BY <2>2 DEF ReceiveEnds, ReceiveFails, ReceiveTimesOut, WaitFails
    <3>   QED  BY <1>0, <3>1 DEF WrittenInv
  <2>   QED  BY <2>1, <2>2
<1>3. ServerRight' /\ body' \in Seq(STRING) /\ (~server'.faulty => received' \in {0, Len(server'.stream)})
  BY <1>1, <1>2 DEF WrittenInv, ServerRight
<1>4. BodyAsWritten'
  <2>1. phase' = "done" => fault' # NoFault /\ fault'.what # "malformed"  BY <1>1 DEF NoFault
  <2>2. NoFault' = NoFault  BY DEF NoFault
  <2>   QED  BY <2>1, <2>2 DEF BodyAsWritten
<1>5. HttpTypeOK'
  <2>1. address' \in 0..Addresses /\ sent' \in 0..RequestLength /\ received' \in 0..Len(server'.stream)
    BY <1>1, <1>2 DEF WrittenInv, HttpTypeOK
  <2>2. phase' \in Phases /\ held' \subseteq {"addresses", "socket", "head", "raw", "body", "message"}
    BY <1>1 DEF WrittenInv, HttpTypeOK, Phases
  <2>3. fault' = NoFault \/ (fault'.what \in Faults /\ fault'.errno \in Errnos)
    BY <1>1 DEF HttpInv, Faults
  <2>   QED  BY <2>1, <2>2, <2>3 DEF HttpTypeOK, RequestLength, NoFault, Phases, Faults, Errnos
<1>   QED  BY <1>3, <1>4, <1>5 DEF WrittenInv

LEMMA TakingSteps ==
    ASSUME WrittenInv, HttpInv, TakeNothing \/ TakeBody \/ NoRoomForBody
    PROVE  WrittenInv'
<1>0. /\ Len(server.stream) \in Nat /\ Len(server.stream) >= 3 /\ received \in 0..Len(server.stream)
      /\ server.document \in Seq(STRING) /\ ServerRight
  BY StreamLong DEF WrittenInv, HttpTypeOK, ServerRight
<1>1. /\ UNCHANGED <<server, address, sent, received>> /\ phase = "read" /\ phase' = "done"
      /\ held' \subseteq held \cup {"message", "body"}
      /\ \/ fault'.what \in {"malformed", "memory"} /\ fault'.errno = "none" /\ body' = body
         \/ fault' = fault /\ TakeBody
      /\ fault'.what = "malformed" => received < 3 \/ ~Extracted.ok
  BY DEF TakeNothing, TakeBody, NoRoomForBody, Fails, Says, HttpInv, NoFault
<1>2. fault = NoFault  BY <1>1 DEF HttpInv
<1>3. ASSUME TakeBody
      PROVE  /\ IsPrefix(body', server.document) /\ body' \in Seq(STRING)
             /\ received = Len(server.stream) => body' = server.document
  <2>1. received >= 3 /\ Extracted.ok
        /\ body' = [k \in 1..Len(Extracted.units) |-> Extracted.units[k].unit]
    BY <1>3 DEF TakeBody
  <2>2. received \in 3..Len(server.stream)  BY <1>0, <2>1
  <2>3. /\ Part(Extracted, server.document, 1) /\ Len(Extracted.units) \in Nat
        /\ received = Len(server.stream) => AllOf(Extracted, server.document, 1)
    BY <1>0, <2>2, ExtractedIs
  <2> DEFINE d == Extracted
             b == body'
             t == server.document
  <2>4. t \in Seq(STRING) /\ Part(d, t, 1) /\ d.ok /\ Len(d.units) \in Nat
        /\ b = [k \in 1..Len(d.units) |-> d.units[k].unit]
    BY <1>0, <2>1, <2>3
  <2>5. received = Len(server.stream) => AllOf(d, t, 1)  BY <2>3
  <2> HIDE DEF d, b, t
  <2>6. IsPrefix(b, t) /\ b \in Seq(STRING) /\ (AllOf(d, t, 1) => b = t)  BY <2>4, BodyIs
  <2>   QED  BY <2>5, <2>6 DEF b, t
<1>4. received = Len(server.stream) => fault'.what # "malformed"
  <2> SUFFICES ASSUME received = Len(server.stream)  PROVE ~(received < 3) /\ Extracted.ok  BY <1>1
  <2>1. received \in 3..Len(server.stream)  BY <1>0
  <2>2. AllOf(Extracted, server.document, 1)  BY <1>0, <2>1, ExtractedIs
  <2>   QED  BY <1>0, <2>1, <2>2 DEF AllOf
<1>5. fault' = NoFault => TakeBody  BY <1>1 DEF NoFault
<1>6. body' \in Seq(STRING)
  <2>1. CASE body' = body  BY <2>1 DEF WrittenInv
  <2>   QED  BY <1>1, <1>3, <2>1
<1>7. BodyAsWritten'
  <2>1. NoFault' = NoFault  BY DEF NoFault
  <2>2. server' = server /\ received' = received  BY <1>1
  <2>   QED  BY <1>3, <1>4, <1>5, <2>1, <2>2 DEF BodyAsWritten
<1>8. HttpTypeOK'
  <2>1. fault' = NoFault \/ (fault'.what \in Faults /\ fault'.errno \in Errnos)
    BY <1>1, <1>2 DEF Faults, Errnos
  <2>2. phase' \in Phases /\ held' \subseteq {"addresses", "socket", "head", "raw", "body", "message"}
    BY <1>1 DEF WrittenInv, HttpTypeOK, Phases
  <2>3. address' \in 0..Addresses /\ sent' \in 0..RequestLength /\ received' \in 0..Len(server'.stream)
    BY <1>1 DEF WrittenInv, HttpTypeOK
  <2>   QED  BY <2>1, <2>2, <2>3 DEF HttpTypeOK, RequestLength, NoFault, Phases, Faults, Errnos
<1>9. ServerRight' /\ (~server'.faulty => received' \in {0, Len(server'.stream)})
  BY <1>1 DEF WrittenInv, ServerRight
<1>   QED  BY <1>6, <1>7, <1>8, <1>9 DEF WrittenInv

LEMMA WrittenStep == WrittenInv /\ AnswerInv /\ [Next]_vars => WrittenInv'
<1> SUFFICES ASSUME WrittenInv, AnswerInv, [Next]_vars  PROVE WrittenInv'  OBVIOUS
<1>1. CASE Exchange
  <2>1. HttpInv  BY DEF AnswerInv
  <2>2. HttpOwn \/ HttpServer  BY <1>1 DEF Exchange
  <2>   QED  BY <2>1, <2>2, EarlySteps, ReceivingSteps, TakingSteps DEF HttpOwn, HttpServer
<1>2. CASE ~Exchange
  <2>1. /\ UNCHANGED <<server, phase, address, sent, received, fault, body>> /\ held' \subseteq held
    BY <1>2 DEF Next, TransportFailed, ReadBody, Reading, Unreadable, Succeeded, RefusedByEngine, AnswerIs, vars, httpVars
  <2>2. HttpTypeOK'
    BY <2>1 DEF WrittenInv, HttpTypeOK, RequestLength, NoFault, Phases, Faults, Errnos
  <2>3. BodyAsWritten'  BY <2>1 DEF WrittenInv, BodyAsWritten, NoFault
  <2>   QED  BY <2>1, <2>2, <2>3 DEF WrittenInv, ServerRight
<1>   QED  BY <1>1, <1>2

-----------------------------------------------------------------------------
(* Where the parser stands.                                                *)

PlaceInv ==
    /\ input \in Seq(STRING) /\ Within(cur) /\ depth = Len(stack)
    /\ at \in JsonPlaces /\ starved \in BOOLEAN
    /\ at = "unused" => cur = 1
    /\ result \in {"none", "ok", "refused", "HYT00", "08S01"}

LEMMA PlaceInitially == Init => PlaceInv
<1> SUFFICES ASSUME Init  PROVE PlaceInv  OBVIOUS
<1>1. /\ input = <<>> /\ cur = 1 /\ depth = 0 /\ at = "unused" /\ stack = <<>> /\ starved = FALSE
      /\ result = "none"
  BY DEF Init, JsonInit
<1>2. Len(input) = 0 /\ Len(stack) = 0 /\ input \in Seq(STRING)  BY <1>1
<1>3. Within(cur)  BY <1>1, <1>2 DEF Within
<1>4. starved \in BOOLEAN  BY <1>1
<1>5. at \in JsonPlaces  BY <1>1 DEF JsonPlaces
<1>   QED  BY <1>1, <1>2, <1>3, <1>4, <1>5 DEF PlaceInv

\* At a blank, past it, and past the unit behind it.
LEMMA HereIs ==
    ASSUME PlaceInv
    PROVE  /\ Len(input) \in Nat /\ Within(Here)
           /\ UnitAt(Here) # "end" => Within(Here + 1) /\ Within(SkipBlanks(Here + 1))
           /\ Within(DigitsEnd(Here))
<1>1. Len(input) \in Nat /\ Within(cur)  BY DEF PlaceInv
<1>2. SkipBlanks(cur) \in cur..Len(input) + 1  BY <1>1, SkipsWithin
<1>3. Within(Here)  BY <1>1, <1>2 DEF Here, Within
<1>4. Within(DigitsEnd(Here))
  <2>1. DigitsEnd(Here) \in Here..Len(input) + 1  BY <1>1, <1>3, SkipsWithin
  <2>   QED  BY <1>1, <1>3, <2>1 DEF Within
<1>5. ASSUME UnitAt(Here) # "end"  PROVE Within(Here + 1) /\ Within(SkipBlanks(Here + 1))
  <2>1. Within(Here + 1)  BY <1>1, <1>3, <1>5, UnitThere
  <2>2. SkipBlanks(Here + 1) \in Here + 1..Len(input) + 1  BY <1>1, <2>1, SkipsWithin
  <2>   QED  BY <1>1, <2>1, <2>2 DEF Within
<1>   QED  BY <1>1, <1>3, <1>4, <1>5

LEMMA InputLength == PlaceInv => Len(input) \in Nat
BY HereIs

\* Past a unit that is there.
LEMMA OneOn ==
    ASSUME PlaceInv, NEW i, Within(i), UnitAt(i) \in {Quote, "{", "[", "}", "]", ":", ",", "1"} \cup Literals
    PROVE  Within(i + 1)
<1>1. UnitAt(i) # "end"  BY EndIs, EscapableIs
<1>2. Len(input) \in Nat  BY InputLength
<1>   QED  BY <1>1, <1>2, UnitThere

LEMMA StringEnds ==
    ASSUME PlaceInv, UnitAt(Here) = Quote, StringBody(Here + 1).ok
    PROVE  /\ Within(StringBody(Here + 1).next)
           /\ Within(SkipBlanks(StringBody(Here + 1).next))
<1> DEFINE n == StringBody(Here + 1).next
<1>1. Within(Here) /\ Within(Here + 1) /\ Len(input) \in Nat  BY HereIs, OneOn
<1>2. n \in Here + 1 + 1..Len(input) + 1  BY <1>1, StringBodyIs DEF PlaceInv
<1> HIDE DEF n
<1>3. Within(n)  BY <1>1, <1>2 DEF Within
<1>4. SkipBlanks(n) \in n..Len(input) + 1  BY <1>1, <1>3, SkipsWithin
<1>5. Within(SkipBlanks(n))  BY <1>1, <1>3, <1>4 DEF Within
<1>   QED  BY <1>3, <1>5 DEF n

\* A step of the parser: it stays within the input, and counts what it is inside of.
LEMMA ReadOn ==
    ASSUME PlaceInv, input' = input, Within(cur'), depth' = Len(stack'),
           at' \in {"value", "key", "returned", "end"}, starved' \in BOOLEAN, result' = result
    PROVE  PlaceInv'
<1>1. Within(cur)'  BY DEF Within
<1>   QED  BY <1>1 DEF PlaceInv, JsonPlaces

LEMMA ScalarPlaces ==
    ASSUME PlaceInv, result' = result,
           ParseString \/ ParseNumber \/ ParseLiteral \/ ParseNothing \/ TooDeep \/ StarvedValue
    PROVE  PlaceInv'
<1>1. input' = input /\ depth' = depth /\ stack' = stack /\ starved' \in BOOLEAN /\ at' = "returned"
  BY DEF ParseString, ParseNumber, ParseLiteral, ParseNothing, TooDeep, StarvedValue, Scalar,
         ReturnNode, ReturnNull, PlaceInv
<1>2. Within(cur')
  <2>1. CASE ParseString
    <3>1. UnitAt(Here) = Quote /\ StringBody(Here + 1).ok /\ cur' = StringBody(Here + 1).next
      BY <2>1 DEF ParseString, Scalar
    <3>   QED  BY <3>1, StringEnds
  <2>2. CASE ParseNumber
    <3>1. cur' = DigitsEnd(Here)  BY <2>2 DEF ParseNumber, Scalar
    <3>   QED  BY <3>1, HereIs
  <2>3. CASE ParseLiteral
    <3>1. cur' = Here + 1 /\ UnitAt(Here) \in Literals  BY <2>3 DEF ParseLiteral, Scalar
    <3>   QED  BY <3>1, HereIs, OneOn
  <2>4. CASE ParseNothing \/ TooDeep
    <3>1. cur' = Here  BY <2>4 DEF ParseNothing, TooDeep
    <3>   QED  BY <3>1, HereIs
  <2>5. CASE StarvedValue
    <3>1. cur' = cur  BY <2>5 DEF StarvedValue
    <3>   QED  BY <3>1 DEF PlaceInv
  <2>   QED  BY <2>1, <2>2, <2>3, <2>4, <2>5
<1>   QED  BY <1>1, <1>2, ReadOn DEF PlaceInv

LEMMA OpenPlace ==
    ASSUME PlaceInv, JsonInv, result' = result, Open
    PROVE  PlaceInv'
<1> DEFINE inside == SkipBlanks(Here + 1)
<1>1. UnitAt(Here) \in {"{", "["}  BY DEF Open, Opener
<1>2. Within(inside)
  <2>1. UnitAt(Here) # "end"  BY <1>1, EndIs
  <2>   QED  BY <2>1, HereIs
<1> HIDE DEF inside
<1>3. PICK node :
        /\ input' = input /\ starved' = starved
        /\ IF UnitAt(inside) = Closing(node)
             THEN at' = "returned" /\ cur' = inside + 1 /\ UNCHANGED <<stack, depth>>
             ELSE /\ at' = NextPart(node) /\ cur' = inside
                  /\ stack' = Append(stack, [node |-> node, key |-> <<>>])
                  /\ depth' = depth + 1

  <2> DEFINE n == Node(IF UnitAt(Here) = "{" THEN "object" ELSE "array", <<>>)
  <2>1. /\ input' = input /\ starved' = starved
        /\ IF UnitAt(inside) = Closing(n)
             THEN ReturnNode(n) /\ cur' = inside + 1 /\ UNCHANGED <<stack, depth>>
             ELSE /\ at' = NextPart(n) /\ cur' = inside
                  /\ stack' = Append(stack, [node |-> n, key |-> <<>>])
                  /\ depth' = depth + 1
    BY DEF Open, inside
  <2> HIDE DEF n
  <2>2. ReturnNode(n) => at' = "returned"  BY DEF ReturnNode
  <2>   QED  BY <2>1, <2>2
<1>4. CASE UnitAt(inside) = Closing(node)
  <2>1. UnitAt(inside) \in {"}", "]"}  BY <1>4 DEF Closing
  <2>2. Within(inside + 1)  BY <1>2, <2>1, OneOn
  <2>   QED  BY <1>3, <1>4, <2>2, ReadOn DEF PlaceInv
<1>5. CASE UnitAt(inside) # Closing(node)
  <2>1. Len(stack') = Len(stack) + 1
    <3>1. stack' = Append(stack, [node |-> node, key |-> <<>>])  BY <1>3, <1>5
    <3>   QED  BY <3>1, Appended DEF JsonInv, IsStack
  <2>2. at' \in {"key", "value"}  BY <1>3, <1>5 DEF NextPart
  <2>3. depth' = Len(stack')  BY <1>3, <1>5, <2>1 DEF PlaceInv
  <2>   QED  BY <1>2, <1>3, <1>5, <2>2, <2>3, ReadOn DEF PlaceInv
<1>   QED  BY <1>4, <1>5

\* The innermost container replaced: as many as before.
LEMMA AsMany ==
    ASSUME JsonInv, stack # <<>>, NEW f
    PROVE  Len([stack EXCEPT ![Len(stack)] = f]) = Len(stack)
<1>1. IsSequence(stack) /\ Len(stack) > 0 /\ Len(stack) \in Nat
  BY Popped DEF JsonInv, IsStack, IsSequence
<1>2. Len(Front(stack)) = Len(stack) - 1 /\ IsSequence(Front(stack))  BY <1>1, WithoutLast
<1>3. Len(Append(Front(stack), f)) = Len(stack) - 1 + 1  BY <1>2, Appended
<1>   QED  BY <1>1, <1>3, OtherLast

LEMMA OneLess ==
    ASSUME JsonInv, stack # <<>>
    PROVE  Len(Front(stack)) = Len(stack) - 1
BY Popped, WithoutLast DEF JsonInv, IsStack

LEMMA KeyPlace ==
    ASSUME PlaceInv, JsonInv, result' = result, ParseKey
    PROVE  PlaceInv'
<1> DEFINE i == SkipBlanks(KeyBody.next)
<1>1. /\ at = "key" /\ UnitAt(Here) = Quote /\ StringBody(Here + 1).ok /\ UnitAt(i) = ":"
      /\ at' = "value" /\ cur' = i + 1
      /\ stack' = [stack EXCEPT ![Len(stack)].key = <<KeyBody.text>>]
      /\ input' = input /\ depth' = depth /\ starved' = starved
  BY DEF ParseKey, KeyHere, KeyBody
<1>2. Within(i)  BY <1>1, StringEnds DEF KeyBody
<1> HIDE DEF i
<1>3. Within(i + 1)  BY <1>1, <1>2, OneOn
<1>4. stack # <<>>  BY <1>1 DEF JsonInv
<1>5. Len(stack') = Len(stack)
  <2> DEFINE f == [stack[Len(stack)] EXCEPT !.key = <<KeyBody.text>>]
  <2>1. stack' = [stack EXCEPT ![Len(stack)] = f]  BY <1>1
  <2> HIDE DEF f
  <2>   QED  BY <1>4, <2>1, AsMany
<1>6. depth' = Len(stack')  BY <1>1, <1>5 DEF PlaceInv
<1>7. starved' \in BOOLEAN  BY <1>1 DEF PlaceInv
<1>   QED  BY <1>1, <1>3, <1>6, <1>7, ReadOn

LEMMA GiveUpPlaces ==
    ASSUME PlaceInv, JsonInv, result' = result,
           NoKey \/ NoChild \/ NoSeparator \/ StarvedKey \/ StarvedChild
    PROVE  PlaceInv'
<1>1. /\ input' = input /\ (starved' = starved \/ starved' = TRUE) /\ (cur' = Here \/ cur' = cur)
      /\ at' = "returned" /\ stack' = Front(stack) /\ depth' = depth - 1
  BY DEF NoKey, NoChild, NoSeparator, StarvedKey, StarvedChild, GiveUpContainer, ReturnNull
<1>2. stack # <<>>
  BY DEF NoKey, NoChild, NoSeparator, StarvedKey, StarvedChild, ChildHere, JsonInv
<1>3. Within(cur')  BY <1>1, HereIs DEF PlaceInv
<1>4. depth' = Len(stack')  BY <1>1, <1>2, OneLess DEF PlaceInv
<1>5. starved' \in BOOLEAN  BY <1>1 DEF PlaceInv
<1>   QED  BY <1>1, <1>3, <1>4, <1>5, ReadOn

LEMMA ChildPlaces ==
    ASSUME PlaceInv, JsonInv, result' = result, NextChild \/ CloseContainer
    PROVE  PlaceInv'
<1>1. /\ UnitAt(Here) \in {",", "}", "]"} /\ cur' = Here + 1 /\ stack # <<>>
      /\ input' = input /\ starved' = starved /\ at' \in {"key", "value", "returned"}
  BY DEF NextChild, CloseContainer, ChildHere, Closing, NextPart, ReturnNode
<1>2. Within(cur')  BY <1>1, HereIs, OneOn
<1>3. depth' = Len(stack')
  <2>1. CASE NextChild
    <3>1. stack' = [stack EXCEPT ![Len(stack)] = [node |-> Grown, key |-> <<>>]] /\ depth' = depth
      BY <2>1 DEF NextChild
    <3>2. Len(stack') = Len(stack)  BY <1>1, <3>1, AsMany
    <3>   QED  BY <3>1, <3>2 DEF PlaceInv
  <2>2. CASE CloseContainer
    <3>1. stack' = Front(stack) /\ depth' = depth - 1  BY <2>2 DEF CloseContainer
    <3>   QED  BY <1>1, <3>1, OneLess DEF PlaceInv
  <2>   QED  BY <2>1, <2>2
<1>4. starved' \in BOOLEAN  BY <1>1 DEF PlaceInv
<1>   QED  BY <1>1, <1>2, <1>3, <1>4, ReadOn

LEMMA FinishPlace ==
    ASSUME PlaceInv, result' = result, Finish
    PROVE  PlaceInv'
<1>1. /\ at' = "end" /\ (cur' = cur \/ cur' = Here)
      /\ UNCHANGED <<input, depth, stack, starved>>
  BY DEF Finish
<1>2. Within(cur')  BY <1>1, HereIs DEF PlaceInv
<1>   QED  BY <1>1, <1>2, ReadOn DEF PlaceInv

LEMMA PlaceStep == PlaceInv /\ AnswerInv /\ WrittenInv /\ [Next]_vars => PlaceInv'
<1> SUFFICES ASSUME PlaceInv, AnswerInv, WrittenInv, [Next]_vars  PROVE PlaceInv'  OBVIOUS
<1>1. CASE Exchange \/ TransportFailed
  <2>1. UNCHANGED jsonVars /\ result' \in {result, "HYT00", "08S01"}
    BY <1>1 DEF Exchange, TransportFailed
  <2>   QED  BY <2>1 DEF jsonVars, PlaceInv, Within
<1>2. CASE ReadBody
  <2>1. /\ at = "unused" /\ at' = "value" /\ input' = body /\ cur' = cur
        /\ UNCHANGED <<depth, stack, starved, result>>
    BY <1>2 DEF ReadBody, Parse
  <2>2. body \in Seq(STRING) /\ Len(body) \in Nat  BY DEF WrittenInv
  <2>3. Within(cur)'
    <3>1. cur' = 1 /\ Len(input') \in Nat  BY <2>1, <2>2 DEF PlaceInv
    <3>   QED  BY <3>1 DEF Within
  <2>   QED  BY <2>1, <2>2, <2>3 DEF PlaceInv, JsonPlaces
<1>3. CASE Reading
  <2>1. JsonNext /\ result' = result /\ JsonInv  BY <1>3 DEF Reading, AnswerInv
  <2>   QED  BY <2>1, ScalarPlaces, OpenPlace, KeyPlace, GiveUpPlaces, ChildPlaces, FinishPlace DEF JsonNext
<1>4. CASE Unreadable \/ Succeeded \/ RefusedByEngine
  <2>1. /\ at' = "over" /\ UNCHANGED <<input, cur, depth, stack, starved>>
        /\ result' \in {"ok", "refused", "08S01"}
    BY <1>4 DEF Unreadable, Succeeded, RefusedByEngine, AnswerIs
  <2>   QED  BY <2>1 DEF PlaceInv, Within, JsonPlaces
<1>5. CASE UNCHANGED vars
  BY <1>5 DEF vars, jsonVars, PlaceInv, Within
<1>   QED  BY <1>1, <1>2, <1>3, <1>4, <1>5 DEF Next

AllInv == AnswerInv /\ WrittenInv /\ PlaceInv

LEMMA AllAlways == Spec => []AllInv
<1>1. Init => AllInv  BY AnswerInitially, WrittenInitially, PlaceInitially DEF AllInv
<1>2. AllInv /\ [Next]_vars => AllInv'
  <2> SUFFICES ASSUME AllInv, [Next]_vars  PROVE AllInv'  OBVIOUS
  <2>1. AnswerInv'  BY AnswerStep DEF AllInv
  <2>2. WrittenInv'  BY WrittenStep DEF AllInv
  <2>3. PlaceInv'  BY PlaceStep DEF AllInv
  <2>   QED  BY <2>1, <2>2, <2>3 DEF AllInv
<1>   QED  BY <1>1, <1>2, PTL DEF Spec

-----------------------------------------------------------------------------
(* Strings and brackets of a text, without a parser.                       *)

LEMMA ModesExist ==
    ASSUME NEW t, NEW N \in Nat
    PROVE  \E g : g = [k \in 0..N |-> IF k = 0 THEN "between" ELSE ModeAfter(g[k - 1], t[k])]
<1> DEFINE Right(g, n) == g = [k \in 0..n |-> IF k = 0 THEN "between" ELSE ModeAfter(g[k - 1], t[k])]
           T == {n \in Nat : \E g : Right(g, n)}
<1>1. 0 \in T
  <2> DEFINE g == [k \in 0..0 |-> "between"]
  <2>1. Right(g, 0)  OBVIOUS
  <2> HIDE DEF Right, g
  <2>   QED  BY <2>1
<1>2. ASSUME NEW n \in Nat, n \in T  PROVE n + 1 \in T
  <2>1. PICK g : Right(g, n)  BY <1>2
  <2> DEFINE h == [k \in 0..n + 1 |-> IF k = n + 1 THEN ModeAfter(g[n], t[k]) ELSE g[k]]
  <2>2. ASSUME NEW k \in 0..n + 1  PROVE h[k] = IF k = 0 THEN "between" ELSE ModeAfter(h[k - 1], t[k])
    <3>1. CASE k = n + 1
      <4>1. k - 1 = n /\ n \in 0..n + 1 /\ n # n + 1 /\ k # 0  BY <3>1
      <4>2. h[k] = ModeAfter(g[n], t[k]) /\ h[n] = g[n]  BY <3>1, <4>1
      <4> HIDE DEF h
      <4>   QED  BY <4>1, <4>2
    <3>2. CASE k # n + 1
      <4>1. k \in 0..n /\ (k # 0 => k - 1 \in 0..n + 1 /\ k - 1 # n + 1)  BY <3>2
      <4>2. g[k] = IF k = 0 THEN "between" ELSE ModeAfter(g[k - 1], t[k])  BY <2>1, <4>1
      <4>3. h[k] = g[k] /\ (k # 0 => h[k - 1] = g[k - 1])  BY <3>2, <4>1
      <4> HIDE DEF h
      <4>   QED  BY <4>2, <4>3
    <3>   QED  BY <3>1, <3>2
  <2>3. Right(h, n + 1)  BY <2>2
  <2> HIDE DEF Right, h
  <2>   QED  BY <2>3
<1> HIDE DEF T
<1>3. Nat \subseteq T  BY <1>1, <1>2, SetInduction
<1>4. N \in T  BY <1>3
<1>   QED  BY <1>4 DEF T

LEMMA ModeIs ==
    ASSUME NEW t, Len(t) \in Nat
    PROVE  /\ ModeOf(t)[0] = "between"
           /\ \A k \in 1..Len(t) : ModeOf(t)[k] = ModeAfter(ModeOf(t)[k - 1], t[k])
<1> DEFINE g == ModeOf(t)
<1>1. g = [k \in 0..Len(t) |-> IF k = 0 THEN "between" ELSE ModeAfter(g[k - 1], t[k])]
  BY ModesExist DEF ModeOf
<1> HIDE DEF g
<1>2. g[0] = "between" /\ \A k \in 1..Len(t) : g[k] = ModeAfter(g[k - 1], t[k])  BY <1>1
<1>   QED  BY <1>2 DEF g

\* The units up to k that are among these, and in no string.
Met(t, units, k) == {i \in 1..k : Outside(t, i) /\ t[i] \in units}

Openers == {"{", "["}
Closers == {"}", "]"}

LEMMA NestedIs == \A t, k : NestedAt(t, k) = Cardinality(Met(t, Openers, k)) - Cardinality(Met(t, Closers, k))
BY DEF NestedAt, Met, Openers, Closers

LEMMA MetFinite ==
    ASSUME NEW t, NEW units, NEW k \in Nat
    PROVE  IsFiniteSet(Met(t, units, k)) /\ Cardinality(Met(t, units, k)) \in Nat
<1>1. IsFiniteSet(1..k)  BY FS_Interval
<1>2. Met(t, units, k) \in SUBSET (1..k)  BY DEF Met
<1>3. IsFiniteSet(Met(t, units, k))  BY <1>1, <1>2, FS_Subset
<1>   QED  BY <1>3, FS_CardinalityType

LEMMA MetNext ==
    ASSUME NEW t, NEW units, NEW k \in Nat \ {0}
    PROVE  Cardinality(Met(t, units, k))
             = Cardinality(Met(t, units, k - 1)) + (IF Outside(t, k) /\ t[k] \in units THEN 1 ELSE 0)
<1> DEFINE S == Met(t, units, k - 1)
<1>0. k - 1 \in Nat  OBVIOUS
<1>1. IsFiniteSet(S) /\ Cardinality(S) \in Nat  BY <1>0, MetFinite
<1>2. CASE Outside(t, k) /\ t[k] \in units
  <2>1. Met(t, units, k) = S \cup {k}
    <3>1. \A i : i \in 1..k <=> i \in 1..k - 1 \/ i = k  OBVIOUS
    <3>   QED  BY <1>2, <3>1 DEF Met
  <2>2. k \notin S
    <3>1. k \notin 1..k - 1  OBVIOUS
    <3>   QED  BY <3>1 DEF Met
  <2> HIDE DEF S
  <2>3. Cardinality(S \cup {k}) = Cardinality(S) + 1  BY <1>1, <2>2, FS_AddElement
  <2>   QED  BY <1>2, <2>1, <2>3 DEF S
<1>3. CASE ~(Outside(t, k) /\ t[k] \in units)
  <2>1. Met(t, units, k) = S
    <3>1. \A i : i \in 1..k <=> i \in 1..k - 1 \/ i = k  OBVIOUS
    <3>   QED  BY <1>3, <3>1 DEF Met
  <2>   QED  BY <1>1, <1>3, <2>1
<1>   QED  BY <1>2, <1>3

LEMMA NestedNext ==
    ASSUME NEW t, NEW k \in Nat \ {0}
    PROVE  /\ NestedAt(t, k) \in Int /\ NestedAt(t, k - 1) \in Int
           /\ ~Outside(t, k) \/ t[k] \notin Openers \cup Closers => NestedAt(t, k) = NestedAt(t, k - 1)
           /\ Outside(t, k) /\ t[k] \in Openers => NestedAt(t, k) = NestedAt(t, k - 1) + 1
           /\ Outside(t, k) /\ t[k] \in Closers => NestedAt(t, k) = NestedAt(t, k - 1) - 1
<1> DEFINE o == Cardinality(Met(t, Openers, k - 1))
           c == Cardinality(Met(t, Closers, k - 1))
           oo == Cardinality(Met(t, Openers, k))
           cc == Cardinality(Met(t, Closers, k))
           out == Outside(t, k)
<1>1. o \in Nat /\ c \in Nat /\ oo \in Nat /\ cc \in Nat
  <2>1. k \in Nat /\ k - 1 \in Nat  OBVIOUS
  <2>   QED  BY <2>1, MetFinite
<1>2. /\ oo = o + (IF out /\ t[k] \in Openers THEN 1 ELSE 0)
      /\ cc = c + (IF out /\ t[k] \in Closers THEN 1 ELSE 0)
  BY MetNext
<1>3. NestedAt(t, k) = oo - cc /\ NestedAt(t, k - 1) = o - c  BY NestedIs
<1>4. ~(t[k] \in Openers /\ t[k] \in Closers)  BY DEF Openers, Closers
<1> HIDE DEF o, c, oo, cc, out
<1>5. NestedAt(t, k) \in Int /\ NestedAt(t, k - 1) \in Int  BY <1>1, <1>3
<1>6. ~out \/ t[k] \notin Openers \cup Closers => NestedAt(t, k) = NestedAt(t, k - 1)
  <2> HAVE ~out \/ t[k] \notin Openers \cup Closers
  <2>1. oo = o + 0 /\ cc = c + 0  BY <1>2
  <2>   QED  BY <1>1, <1>3, <2>1
<1>7. out /\ t[k] \in Openers => NestedAt(t, k) = NestedAt(t, k - 1) + 1
  <2> HAVE out /\ t[k] \in Openers
  <2>1. oo = o + 1 /\ cc = c + 0  BY <1>2, <1>4
  <2>   QED  BY <1>1, <1>3, <2>1
<1>8. out /\ t[k] \in Closers => NestedAt(t, k) = NestedAt(t, k - 1) - 1
  <2> HAVE out /\ t[k] \in Closers
  <2>1. oo = o + 0 /\ cc = c + 1  BY <1>2, <1>4
  <2>   QED  BY <1>1, <1>3, <2>1
<1>   QED  BY <1>5, <1>6, <1>7, <1>8 DEF out

LEMMA NestedNone == ASSUME NEW t PROVE NestedAt(t, 0) = 0
<1>1. 1..0 = {}  OBVIOUS
<1>2. Met(t, Openers, 0) = {} /\ Met(t, Closers, 0) = {}  BY <1>1 DEF Met
<1>3. NestedAt(t, 0) = Cardinality({}) - Cardinality({})  BY <1>2, NestedIs
<1>   QED  BY <1>3, FS_EmptySet

\* A beginning of a text is read as in the text.
LEMMA BeginningRead ==
    ASSUME NEW b, NEW t, Len(b) \in Nat, Len(t) \in Nat, Len(b) <= Len(t),
           \A k \in 1..Len(b) : b[k] = t[k]
    PROVE  NestedAt(b, Len(b)) = NestedAt(t, Len(b))
<1> DEFINE N == Len(b)
           x == ModeOf(b)
           y == ModeOf(t)
           T == {k \in Int : x[k] = y[k]}
<1>1. /\ x[0] = "between" /\ \A k \in 1..N : x[k] = ModeAfter(x[k - 1], b[k])
      /\ y[0] = "between" /\ \A k \in 1..Len(t) : y[k] = ModeAfter(y[k - 1], t[k])
  BY ModeIs
<1> HIDE DEF x, y
<1>2. ASSUME NEW k \in 0..N, \A j \in 0..k - 1 : j \in T  PROVE k \in T
  <2>1. CASE k = 0  BY <1>1, <2>1
  <2>2. CASE k # 0
    <3>1. k \in 1..N /\ k \in 1..Len(t) /\ k - 1 \in 0..k - 1  BY <2>2
    <3>2. x[k - 1] = y[k - 1] /\ b[k] = t[k]  BY <1>2, <3>1
    <3>3. x[k] = y[k]  BY <1>1, <3>1, <3>2
    <3>   QED  BY <3>3
  <2>   QED  BY <2>1, <2>2
<1>0. 0 \in Int /\ N \in Int  OBVIOUS
<1> HIDE DEF T
<1>3. 0..N \subseteq T  BY <1>0, <1>2, UpFrom
<1>4. \A i \in 1..N : Outside(b, i) <=> Outside(t, i)
  <2> TAKE i \in 1..N
  <2>1. i - 1 \in 0..N  OBVIOUS
  <2>2. x[i - 1] = y[i - 1]  BY <1>3, <2>1 DEF T
  <2>   QED  BY <2>2 DEF Outside, x, y
<1>5. \A units : Met(b, units, N) = Met(t, units, N)  BY <1>4 DEF Met
<1>   QED  BY <1>5, NestedIs

-----------------------------------------------------------------------------
(* What the parser reads, bracket by bracket.                              *)

Brackets == Openers \cup Closers

LEMMA ModeAfterIs ==
    \A u : /\ ModeAfter("between", u) = IF u = Quote THEN "string" ELSE "between"
           /\ ModeAfter("escape", u) = "string"
           /\ ModeAfter("string", u) = IF u = Quote THEN "between" ELSE IF u = "\\" THEN "escape" ELSE "string"
<1> TAKE u
<1>1. "between" # "string" /\ "between" # "escape" /\ "string" # "escape"  OBVIOUS
<1>   QED  BY <1>1 DEF ModeAfter

LEMMA UnitsApart ==
    /\ Blank \notin Brackets \cup {Quote, "1", ",", ":", "true", "false", "null"}
    /\ {Quote, "1", ",", ":", "true", "false", "null"} \cap Brackets = {}
    /\ Quote \notin {"1", ",", ":", "true", "false", "null", "\\", "end"}
<1>1. /\ \A x \in {"{", "[", "}", "]", "1", ",", ":", "true", "false", "null"} : x # Blank /\ x # Quote
      /\ Blank # Quote /\ Quote # "\\" /\ Quote # "end"
  BY Zenon DEF Blank, Quote
<1>2. {"1", ",", ":", "true", "false", "null"} \cap {"{", "[", "}", "]"} = {}  OBVIOUS
<1>   QED  BY <1>1, <1>2 DEF Brackets, Openers, Closers

\* Before unit i no string is open, and n containers are.
Clear(t, i, n) == ModeOf(t)[i - 1] = "between" /\ NestedAt(t, i - 1) = n

\* Before unit i a string is open, inside of n containers.
InString(t, i, n) == ModeOf(t)[i - 1] = "string" /\ NestedAt(t, i - 1) = n

LEMMA ClearNext ==
    ASSUME NEW t, Len(t) \in Nat, NEW i \in 1..Len(t), NEW n, Clear(t, i, n)
    PROVE  /\ t[i] \notin Brackets \cup {Quote} => Clear(t, i + 1, n)
           /\ t[i] \in Openers => Clear(t, i + 1, n + 1)
           /\ t[i] \in Closers => Clear(t, i + 1, n - 1)
           /\ t[i] = Quote => InString(t, i + 1, n)
<1>1. i \in Nat \ {0} /\ i + 1 - 1 = i  OBVIOUS
<1>2. ModeOf(t)[i - 1] = "between" /\ NestedAt(t, i - 1) = n  BY DEF Clear
<1>3. Outside(t, i)  BY <1>2 DEF Outside
<1>4. ModeOf(t)[i] = IF t[i] = Quote THEN "string" ELSE "between"  BY <1>2, ModeIs, ModeAfterIs
<1>5. /\ t[i] \notin Brackets => NestedAt(t, i) = n
      /\ t[i] \in Openers => NestedAt(t, i) = n + 1
      /\ t[i] \in Closers => NestedAt(t, i) = n - 1
  BY <1>1, <1>2, <1>3, NestedNext DEF Brackets
<1>6. Quote \notin Brackets /\ Openers \subseteq Brackets /\ Closers \subseteq Brackets
  BY UnitsApart DEF Brackets
<1>   QED  BY <1>1, <1>4, <1>5, <1>6 DEF Clear, InString

LEMMA StringNext ==
    ASSUME NEW t, Len(t) \in Nat, NEW i \in 1..Len(t), NEW n, InString(t, i, n)
    PROVE  /\ t[i] = Quote => Clear(t, i + 1, n)
           /\ t[i] \notin {Quote, "\\"} => InString(t, i + 1, n)
           /\ t[i] = "\\" /\ i + 1 <= Len(t) => InString(t, i + 2, n)
<1>1. i \in Nat \ {0} /\ i + 1 - 1 = i  OBVIOUS
<1>2. ModeOf(t)[i - 1] = "string" /\ NestedAt(t, i - 1) = n  BY DEF InString
<1>3. ~Outside(t, i)  BY <1>2 DEF Outside
<1>4. ModeOf(t)[i] = IF t[i] = Quote THEN "between" ELSE IF t[i] = "\\" THEN "escape" ELSE "string"
  BY <1>2, ModeIs, ModeAfterIs
<1>5. NestedAt(t, i) = n  BY <1>1, <1>2, <1>3, NestedNext
<1>6. t[i] = Quote => Clear(t, i + 1, n)  BY <1>1, <1>4, <1>5 DEF Clear
<1>7. t[i] \notin {Quote, "\\"} => InString(t, i + 1, n)  BY <1>1, <1>4, <1>5 DEF InString
<1>8. ASSUME t[i] = "\\", i + 1 <= Len(t)  PROVE InString(t, i + 2, n)
  <2> DEFINE j == i + 1
  <2>1. j \in 1..Len(t) /\ j \in Nat \ {0} /\ j - 1 = i /\ i + 2 - 1 = j  BY <1>8
  <2>2. Quote # "\\"  BY UnitsApart
  <2>3. ModeOf(t)[j - 1] = "escape"  BY <1>4, <1>8, <2>1, <2>2
  <2> HIDE DEF j
  <2>4. ~Outside(t, j)  BY <2>3 DEF Outside
  <2>5. ModeOf(t)[j] = "string"  BY <2>1, <2>3, ModeIs, ModeAfterIs
  <2>6. NestedAt(t, j) = n  BY <1>5, <2>1, <2>4, NestedNext
  <2>   QED  BY <2>1, <2>5, <2>6 DEF InString
<1>   QED  BY <1>6, <1>7, <1>8

\* Over units that are neither brackets nor quotes.
LEMMA RunClear ==
    ASSUME NEW t, Len(t) \in Nat, NEW i \in 1..Len(t) + 1, NEW e \in i..Len(t) + 1, NEW n, Clear(t, i, n),
           \A k \in i..e - 1 : t[k] \notin Brackets \cup {Quote}
    PROVE  Clear(t, e, n)
<1> DEFINE T == {k \in Int : Clear(t, k, n)}
<1>1. ASSUME NEW k \in i..e, \A j \in i..k - 1 : j \in T  PROVE k \in T
  <2>1. CASE k = i  BY <2>1
  <2>2. CASE k # i
    <3> DEFINE j == k - 1
    <3>1. j \in i..k - 1 /\ j \in 1..Len(t) /\ j \in i..e - 1 /\ j + 1 = k  BY <2>2
    <3>2. Clear(t, j, n)  BY <1>1, <3>1
    <3> HIDE DEF j
    <3>3. Clear(t, j + 1, n)  BY <3>1, <3>2, ClearNext
    <3>   QED  BY <3>1, <3>3
  <2>   QED  BY <2>1, <2>2
<1>2. i \in Int /\ e \in Int  OBVIOUS
<1> HIDE DEF T
<1>3. i..e \subseteq T  BY <1>1, <1>2, UpFrom
<1>4. e \in i..e  BY <1>2
<1>5. e \in T  BY <1>3, <1>4
<1>   QED  BY <1>5 DEF T

\* What skip_ws and the scan of a number go over.
LEMMA RunsOver ==
    ASSUME Len(input) \in Nat, NEW i, Within(i)
    PROVE  /\ \A k \in i..SkipBlanks(i) - 1 : input[k] = Blank
           /\ \A k \in i..DigitsEnd(i) - 1 : input[k] = "1"
           /\ UnitAt(i) = "1" => DigitsEnd(i) > i
<1>0. i \in 1..Len(input) + 1  BY DEF Within
<1>1. ASSUME NEW S, S \subseteq i..Len(input)
      PROVE  \A k \in i..(IF S = {} THEN Len(input) + 1 ELSE Min(S)) - 1 : k \in i..Len(input) /\ k \notin S
  <2>1. CASE S = {}  BY <1>0, <2>1
  <2>2. CASE S # {}
    <3>1. S \subseteq Nat  BY <1>0, <1>1
    <3>2. Min(S) \in S /\ \A y \in S : Min(S) <= y  BY <2>2, <3>1, LeastIs
    <3>3. Min(S) \in i..Len(input)  BY <1>1, <3>2
    <3>4. ASSUME NEW k \in i..Min(S) - 1  PROVE k \in i..Len(input) /\ k \notin S  BY <1>0, <3>2, <3>3
    <3>   QED  BY <2>2, <3>4
  <2>   QED  BY <2>1, <2>2
<1> DEFINE solid == {j \in i..Len(input) : input[j] # Blank}
           other == {j \in i..Len(input) : input[j] # "1"}
<1>2. SkipBlanks(i) = IF solid = {} THEN Len(input) + 1 ELSE Min(solid)  BY Zenon DEF SkipBlanks
<1>3. DigitsEnd(i) = IF other = {} THEN Len(input) + 1 ELSE Min(other)  BY Zenon DEF DigitsEnd
<1>4. \A k \in i..SkipBlanks(i) - 1 : k \in i..Len(input) /\ k \notin solid
  <2>1. solid \subseteq i..Len(input)  OBVIOUS
  <2> HIDE DEF solid
  <2>   QED  BY <1>1, <1>2, <2>1
<1>5. \A k \in i..DigitsEnd(i) - 1 : k \in i..Len(input) /\ k \notin other
  <2>1. other \subseteq i..Len(input)  OBVIOUS
  <2> HIDE DEF other
  <2>   QED  BY <1>1, <1>3, <2>1
<1>6. UnitAt(i) = "1" => DigitsEnd(i) > i
  <2> SUFFICES ASSUME UnitAt(i) = "1"  PROVE DigitsEnd(i) > i  OBVIOUS
  <2>1. UnitAt(i) # "end"  BY EndIs
  <2>2. i \in 1..Len(input) /\ input[i] = "1"  BY <2>1, UnitThere
  <2>3. i \notin other  BY <2>2
  <2> HIDE DEF other
  <2>4. other # {} => Min(other) \in other /\ Min(other) \in i..Len(input)
    <3>1. other \subseteq i..Len(input)  BY DEF other
    <3>2. other \subseteq Nat  BY <1>0, <3>1
    <3>   QED  BY <3>1, <3>2, LeastIs
  <2>   QED  BY <1>0, <1>3, <2>2, <2>3, <2>4
<1>   QED  BY <1>4, <1>5, <1>6

LEMMA SkipsClear ==
    ASSUME Len(input) \in Nat, NEW i, Within(i), NEW n, Clear(input, i, n)
    PROVE  Clear(input, SkipBlanks(i), n)
<1> DEFINE e == SkipBlanks(i)
<1>1. i \in 1..Len(input) + 1 /\ e \in i..Len(input) + 1  BY SkipsWithin DEF Within
<1>2. \A k \in i..e - 1 : input[k] \notin Brackets \cup {Quote}
  <2>1. \A k \in i..e - 1 : input[k] = Blank  BY RunsOver
  <2>   QED  BY <2>1, UnitsApart
<1> HIDE DEF e
<1>3. Clear(input, e, n)  BY <1>1, <1>2, RunClear
<1>   QED  BY <1>3 DEF e

LEMMA DigitsClear ==
    ASSUME Len(input) \in Nat, NEW i, Within(i), NEW n, Clear(input, i, n)
    PROVE  Clear(input, DigitsEnd(i), n)
<1> DEFINE e == DigitsEnd(i)
<1>1. i \in 1..Len(input) + 1 /\ e \in i..Len(input) + 1  BY SkipsWithin DEF Within
<1>2. \A k \in i..e - 1 : input[k] \notin Brackets \cup {Quote}
  <2>1. \A k \in i..e - 1 : input[k] = "1"  BY RunsOver
  <2>   QED  BY <2>1, UnitsApart
<1> HIDE DEF e
<1>3. Clear(input, e, n)  BY <1>1, <1>2, RunClear
<1>   QED  BY <1>3 DEF e

\* A string is over where parse_string_body goes on.
LEMMA StringClear ==
    ASSUME input \in Seq(STRING), NEW i, Within(i), NEW n, InString(input, i, n), StringBody(i).ok
    PROVE  Clear(input, StringBody(i).next, n)
<1> DEFINE M == Len(input) + 2
<1>0. i \in 1..Len(input) + 1 /\ Len(input) \in Nat /\ i \in Int /\ M \in Int
      /\ \A k \in 1..Len(input) : input[k] \in STRING
  BY DEF Within
<1>1. PICK f : /\ StringBody(i) = f[i]
               /\ \A j \in i..M : f[j] = BodyStep(f, i, j) /\ f[j] \in BodiesWithin(i)
  BY BodyFunction
<1> DEFINE T == {j \in Int : f[j].ok /\ InString(input, j, n) => Clear(input, f[j].next, n)}
<1>2. ASSUME NEW j \in i..M, \A k \in j + 1..M : k \in T, f[j].ok, InString(input, j, n)
      PROVE  Clear(input, f[j].next, n)
  <2>a. f[j] = BodyStep(f, i, j)  BY <1>1
  <2>b. ~Unread(i).ok  BY DEF Unread
  <2>c. \A k \in j + 1..M : f[k].ok /\ InString(input, k, n) => Clear(input, f[k].next, n)  BY <1>2
  <2>d. \A k \in j + 1..M : f[k] \in StringBodies
    <3>1. \A k \in j + 1..M : k \in i..M  BY <1>0
    <3>   QED  BY <1>1, <3>1 DEF BodiesWithin
  <2> HIDE DEF T
  <2>1. UnitAt(j) # "end"  BY <1>2, <2>a, <2>b, BodyStepIs
  <2>2. j \in 1..Len(input) /\ UnitAt(j) = input[j]  BY <1>0, <2>1, BodyGoesOn DEF UnitAt
  <2>3. CASE UnitAt(j) = Quote
    <3>1. f[j] = [ok |-> TRUE, text |-> <<>>, next |-> j + 1]  BY <2>a, <2>3, BodyStepIs
    <3>2. f[j].next = j + 1  BY <3>1
    <3>3. Clear(input, j + 1, n)  BY <1>0, <1>2, <2>2, <2>3, StringNext
    <3>   QED  BY <3>2, <3>3
  <2>4. CASE UnitAt(j) = "\\"
    <3>1. UnitAt(j + 1) \in Escapable  BY <1>2, <2>a, <2>b, <2>4, BodyStepIs
    <3>2. j + 1 \in 1..Len(input) /\ j + 2 \in j + 1..M  BY <1>0, <2>1, <2>2, <3>1, BodyGoesOn
    <3>3. f[j] = Longer(f[j + 2], input[j + 1])  BY <2>a, <2>4, <3>1, BodyStepIs
    <3>4. f[j + 2] \in StringBodies /\ input[j + 1] \in STRING  BY <1>0, <2>d, <3>2
    <3>5. f[j].ok = f[j + 2].ok /\ f[j].next = f[j + 2].next
      <4> DEFINE d == f[j + 2]
                 x == input[j + 1]
      <4>1. d \in StringBodies /\ x \in STRING /\ f[j] = Longer(d, x)  BY <3>3, <3>4
      <4> HIDE DEF d, x
      <4>2. f[j].ok = d.ok /\ f[j].next = d.next  BY <4>1, LongerIs
      <4>   QED  BY <4>2 DEF d
    <3>6. InString(input, j + 2, n)
      <4>1. InString(input, j, n)  BY <1>2
      <4>2. input[j] = "\\" /\ j + 1 <= Len(input)  BY <2>2, <2>4, <3>2
      <4>   QED  BY <1>0, <2>2, <4>1, <4>2, StringNext
    <3>7. Clear(input, f[j + 2].next, n)  BY <1>2, <2>c, <3>2, <3>5, <3>6
    <3>   QED  BY <3>5, <3>7
  <2>5. CASE UnitAt(j) \notin {"end", Quote, "\\"}
    <3>1. j + 1 \in j + 1..M  BY <1>0, <2>1, BodyGoesOn
    <3>2. f[j] = Longer(f[j + 1], input[j])  BY <2>a, <2>5, BodyStepIs
    <3>3. f[j + 1] \in StringBodies /\ input[j] \in STRING  BY <1>0, <2>2, <2>d, <3>1
    <3>4. f[j].ok = f[j + 1].ok /\ f[j].next = f[j + 1].next
      <4> DEFINE d == f[j + 1]
                 x == input[j]
      <4>1. d \in StringBodies /\ x \in STRING /\ f[j] = Longer(d, x)  BY <3>2, <3>3
      <4> HIDE DEF d, x
      <4>2. f[j].ok = d.ok /\ f[j].next = d.next  BY <4>1, LongerIs
      <4>   QED  BY <4>2 DEF d
    <3>5. InString(input, j + 1, n)  BY <1>0, <1>2, <2>2, <2>5, StringNext
    <3>6. Clear(input, f[j + 1].next, n)  BY <1>2, <2>c, <3>1, <3>4, <3>5
    <3>   QED  BY <3>4, <3>6
  <2>   QED  BY <2>1, <2>3, <2>4, <2>5
<1>3. ASSUME NEW j \in i..M, \A k \in j + 1..M : k \in T  PROVE j \in T
  <2>1. j \in Int  BY <1>0
  <2>2. f[j].ok /\ InString(input, j, n) => Clear(input, f[j].next, n)  BY <1>2, <1>3
  <2>   QED  BY <2>1, <2>2
<1>4. i \in Int /\ M \in Int /\ i \in i..M  BY <1>0
<1> HIDE DEF M, T
<1>5. i \in T
  <2>1. i..M \subseteq T  BY <1>3, <1>4, DownFrom
  <2>   QED  BY <1>4, <2>1
<1>   QED  BY <1>1, <1>5 DEF T

-----------------------------------------------------------------------------
(* What the parser is inside of is what is open in the text before it.     *)

HasSolid(t, i) == \E k \in 1..i - 1 : t[k] # Blank

Balanced(t) == NestedAt(t, Len(t)) = 0 /\ HasSolid(t, Len(t) + 1)

HasValue == at \in {"returned", "end"} /\ value # <<>>

TextInv ==
    /\ at # "unused" => input = body
    /\ at \in {"value", "key"} => Clear(input, cur, depth)
    /\ HasValue => Clear(input, cur, depth) /\ HasSolid(input, cur)
    /\ HasValue /\ at = "end" => cur = Len(input) + 1
    /\ result \in {"ok", "refused"} => at = "over" /\ Balanced(input)

LEMMA TextInitially == Init => TextInv
<1> SUFFICES ASSUME Init  PROVE TextInv  OBVIOUS
<1>1. at = "unused" /\ result = "none"  BY DEF Init, JsonInit
<1>   QED  BY <1>1 DEF TextInv, HasValue

\* A step of the parser that goes on in the text.
LEMMA TextGoesOn ==
    ASSUME TextInv, at \in {"value", "key", "returned"}, UNCHANGED <<input, body, result>>,
           at' \in {"value", "key", "returned"},
           (at' = "returned" /\ value' = <<>>) \/ Clear(input, cur', depth'),
           at' = "returned" /\ value' # <<>> => HasSolid(input, cur')
    PROVE  TextInv'
<1>1. input = body /\ result \notin {"ok", "refused"}  BY DEF TextInv
<1>2. input' = body' /\ result' \notin {"ok", "refused"}  BY <1>1
<1>3. at' \in {"value", "key"} => Clear(input', cur', depth')  OBVIOUS
<1>4. HasValue' => Clear(input', cur', depth') /\ HasSolid(input', cur')  BY DEF HasValue
<1>5. at' # "end"  OBVIOUS
<1>   QED  BY <1>2, <1>3, <1>4, <1>5 DEF TextInv

\* Where it is after blanks, there it reads a unit.
LEMMA HereClear ==
    ASSUME PlaceInv, Clear(input, cur, depth)
    PROVE  /\ Clear(input, Here, depth) /\ Len(input) \in Nat /\ Here \in cur..Len(input) + 1
           /\ cur \in Nat \ {0}
           /\ UnitAt(Here) # "end" =>
                /\ Here \in 1..Len(input) /\ input[Here] = UnitAt(Here) /\ Within(Here) /\ Within(Here + 1)
<1>1. Len(input) \in Nat /\ Within(cur)  BY DEF PlaceInv
<1>2. Clear(input, Here, depth)  BY <1>1, SkipsClear DEF Here
<1>3. Here \in cur..Len(input) + 1  BY <1>1, SkipsWithin DEF Here
<1>4. Within(Here)  BY <1>1, HereIs
<1>5. cur \in Nat \ {0}  BY <1>1 DEF Within
<1>   QED  BY <1>1, <1>2, <1>3, <1>4, <1>5, UnitThere

LEMMA SolidThen ==
    ASSUME NEW t, NEW i \in Nat \ {0}, NEW j \in Int, i < j, t[i] # Blank
    PROVE  HasSolid(t, j)
<1>1. i \in 1..j - 1  OBVIOUS
<1>   QED  BY <1>1 DEF HasSolid

LEMMA SolidStill ==
    ASSUME NEW t, NEW i \in Int, NEW j \in Int, i <= j, HasSolid(t, i)
    PROVE  HasSolid(t, j)
<1>1. PICK k \in 1..i - 1 : t[k] # Blank  BY DEF HasSolid
<1>2. k \in 1..j - 1  OBVIOUS
<1>   QED  BY <1>1, <1>2 DEF HasSolid

LEMMA StringHere ==
    ASSUME PlaceInv, Clear(input, cur, depth), UnitAt(Here) = Quote, StringBody(Here + 1).ok
    PROVE  LET next == StringBody(Here + 1).next
           IN  Clear(input, next, depth) /\ next \in Int /\ Here < next /\ Within(next)
<1> DEFINE next == StringBody(Here + 1).next
<1>1. UnitAt(Here) # "end"  BY EndIs
<1>2. /\ Here \in 1..Len(input) /\ input[Here] = Quote /\ Within(Here + 1) /\ Clear(input, Here, depth)
      /\ Len(input) \in Nat
  BY <1>1, HereClear
<1>3. InString(input, Here + 1, depth)  BY <1>2, ClearNext
<1>4. Clear(input, next, depth)  BY <1>2, <1>3, StringClear DEF PlaceInv
<1>5. next \in Here + 1 + 1..Len(input) + 1  BY <1>2, StringBodyIs DEF PlaceInv
<1> HIDE DEF next
<1>6. next \in Int /\ Here < next /\ Within(next)  BY <1>2, <1>5 DEF Within
<1>   QED  BY <1>4, <1>6 DEF next

LEMMA ParseStringReads ==
    ASSUME PlaceInv, TextInv, UNCHANGED <<body, result>>, ParseString
    PROVE  TextInv'
<1> DEFINE next == StringBody(Here + 1).next
<1>1. /\ at = "value" /\ UnitAt(Here) = Quote /\ StringBody(Here + 1).ok
      /\ at' = "returned" /\ cur' = next /\ UNCHANGED <<input, depth>>
  BY DEF ParseString, Scalar, ReturnNode
<1>2. Clear(input, cur, depth)  BY <1>1 DEF TextInv
<1>3. Clear(input, next, depth) /\ next \in Int /\ Here < next  BY <1>1, <1>2, StringHere
<1> HIDE DEF next
<1>4. Here \in 1..Len(input) /\ input[Here] # Blank
  <2>1. UnitAt(Here) # "end"  BY <1>1, EndIs
  <2>   QED  BY <1>1, <1>2, <2>1, HereClear, UnitsApart
<1>5. HasSolid(input, next)  BY <1>3, <1>4, SolidThen
<1>   QED  BY <1>1, <1>3, <1>5, TextGoesOn

LEMMA ParseNumberReads ==
    ASSUME PlaceInv, TextInv, UNCHANGED <<body, result>>, ParseNumber
    PROVE  TextInv'
<1> DEFINE next == DigitsEnd(Here)
<1>1. /\ at = "value" /\ UnitAt(Here) = "1"
      /\ at' = "returned" /\ cur' = next /\ UNCHANGED <<input, depth>>
  BY DEF ParseNumber, Scalar, ReturnNode
<1>2. Clear(input, cur, depth)  BY <1>1 DEF TextInv
<1>3. UnitAt(Here) # "end"  BY <1>1, EndIs
<1>4. /\ Here \in 1..Len(input) /\ input[Here] # Blank /\ Within(Here) /\ Clear(input, Here, depth)
      /\ Len(input) \in Nat
  BY <1>1, <1>2, <1>3, HereClear, UnitsApart
<1>5. Clear(input, next, depth)  BY <1>4, DigitsClear
<1>6. next \in Here..Len(input) + 1 /\ next > Here  BY <1>1, <1>4, SkipsWithin, RunsOver
<1> HIDE DEF next
<1>7. HasSolid(input, next)  BY <1>4, <1>6, SolidThen
<1>   QED  BY <1>1, <1>5, <1>7, TextGoesOn

LEMMA OneAhead == \A n \in Nat : \A k \in 1..n : k \in Nat \ {0} /\ k + 1 \in Int /\ k < k + 1
OBVIOUS

\* Past a unit that is neither a bracket nor a quote.
LEMMA PastPlain ==
    ASSUME Len(input) \in Nat, NEW i, Within(i), NEW n, Clear(input, i, n),
           UnitAt(i) \in {",", ":", "true", "false", "null"}
    PROVE  /\ Clear(input, i + 1, n) /\ HasSolid(input, i + 1)
<1>1. UnitAt(i) # "end"  BY EndIs
<1>2. i \in 1..Len(input) /\ input[i] = UnitAt(i)  BY <1>1, UnitThere
<1>3. input[i] \notin Brackets \cup {Quote, Blank}  BY <1>2, UnitsApart
<1>4. Clear(input, i + 1, n)  BY <1>2, <1>3, ClearNext
<1>5. HasSolid(input, i + 1)
  <2>1. i \in Nat \ {0} /\ i + 1 \in Int /\ i < i + 1  BY <1>2, OneAhead
  <2>2. input[i] # Blank  BY <1>3
  <2>   QED  BY <2>1, <2>2, SolidThen
<1>   QED  BY <1>4, <1>5

LEMMA ParseLiteralReads ==
    ASSUME PlaceInv, TextInv, UNCHANGED <<body, result>>, ParseLiteral
    PROVE  TextInv'
<1>1. /\ at = "value" /\ UnitAt(Here) \in {"true", "false", "null"}
      /\ at' = "returned" /\ cur' = Here + 1 /\ UNCHANGED <<input, depth>>
  BY EscapableIs DEF ParseLiteral, Scalar, ReturnNode
<1>2. Clear(input, cur, depth)  BY <1>1 DEF TextInv
<1>3. Clear(input, Here, depth) /\ Len(input) \in Nat /\ Within(Here)  BY <1>2, HereClear, HereIs
<1>4. Clear(input, Here + 1, depth) /\ HasSolid(input, Here + 1)  BY <1>1, <1>3, PastPlain
<1>   QED  BY <1>1, <1>4, TextGoesOn

LEMMA NothingReads ==
    ASSUME TextInv, UNCHANGED <<body, result>>,
           \/ ParseNothing \/ TooDeep \/ StarvedValue
           \/ NoKey \/ NoSeparator \/ NoChild \/ StarvedKey \/ StarvedChild
    PROVE  TextInv'
<1>1. /\ at \in {"value", "key", "returned"} /\ input' = input
      /\ at' = "returned" /\ value' = <<>>
  BY DEF ParseNothing, TooDeep, StarvedValue, NoKey, NoSeparator, NoChild, StarvedKey, StarvedChild,
         GiveUpContainer, ReturnNull, ChildHere
<1>   QED  BY <1>1, TextGoesOn

LEMMA OpenReads ==
    ASSUME PlaceInv, JsonInv, TextInv, UNCHANGED <<body, result>>, Open
    PROVE  TextInv'
<1> DEFINE inside == SkipBlanks(Here + 1)
           node == Node(IF UnitAt(Here) = "{" THEN "object" ELSE "array", <<>>)
<1>1. /\ at = "value" /\ UnitAt(Here) \in Openers /\ input' = input
      /\ IF UnitAt(inside) = Closing(node)
           THEN at' = "returned" /\ cur' = inside + 1 /\ depth' = depth
           ELSE at' = NextPart(node) /\ cur' = inside /\ depth' = depth + 1
  BY DEF Open, Opener, ReturnNode, Openers
<1>2. Clear(input, cur, depth)  BY <1>1 DEF TextInv
<1>3. UnitAt(Here) # "end"  BY <1>1, EndIs DEF Openers
<1>4. /\ Here \in 1..Len(input) /\ input[Here] = UnitAt(Here) /\ Within(Here + 1) /\ Clear(input, Here, depth)
      /\ Len(input) \in Nat
  BY <1>2, <1>3, HereClear
<1>5. Clear(input, Here + 1, depth + 1)  BY <1>1, <1>4, ClearNext
<1>6. Clear(input, inside, depth + 1)  BY <1>4, <1>5, SkipsClear
<1>7. inside \in Here + 1..Len(input) + 1 /\ Within(inside)
  <2>1. inside \in Here + 1..Len(input) + 1  BY <1>4, SkipsWithin
  <2>   QED  BY <1>4, <2>1 DEF Within
<1> HIDE DEF inside, node
<1>8. CASE UnitAt(inside) = Closing(node)
  <2>1. UnitAt(inside) \in Closers  BY <1>8 DEF Closing, Closers
  <2>2. UnitAt(inside) # "end"  BY <2>1, EndIs DEF Closers
  <2>3. inside \in 1..Len(input) /\ input[inside] = UnitAt(inside)  BY <1>4, <1>7, <2>2, UnitThere
  <2>4. depth \in Int  BY DEF PlaceInv, JsonInv, IsStack, IsSequence
  <2>5. Clear(input, inside + 1, depth)
    <3>1. input[inside] \in Closers /\ inside \in 1..Len(input)  BY <2>1, <2>3
    <3> DEFINE n == depth + 1
    <3>2. Clear(input, inside, n) /\ n - 1 = depth  BY <1>6, <2>4
    <3> HIDE DEF n
    <3>3. Clear(input, inside + 1, n - 1)  BY <1>4, <3>1, <3>2, ClearNext
    <3>   QED  BY <3>2, <3>3
  <2>6. HasSolid(input, inside + 1)
    <3>1. Here \in Nat \ {0} /\ inside + 1 \in Int /\ Here < inside + 1  BY <1>4, <1>7
    <3>2. input[Here] # Blank  BY <1>1, <1>4, UnitsApart DEF Brackets
    <3>   QED  BY <3>1, <3>2, SolidThen
  <2>   QED  BY <1>1, <1>8, <2>5, <2>6, TextGoesOn
<1>9. CASE UnitAt(inside) # Closing(node)
  <2>1. at' \in {"key", "value"}  BY <1>1, <1>9 DEF NextPart
  <2>   QED  BY <1>1, <1>6, <1>9, <2>1, TextGoesOn
<1>   QED  BY <1>8, <1>9

LEMMA KeyReads ==
    ASSUME PlaceInv, TextInv, UNCHANGED <<body, result>>, ParseKey
    PROVE  TextInv'
<1> DEFINE next == StringBody(Here + 1).next
           colon == SkipBlanks(next)
<1>1. /\ at = "key" /\ UnitAt(Here) = Quote /\ StringBody(Here + 1).ok /\ UnitAt(colon) = ":"
      /\ at' = "value" /\ cur' = colon + 1 /\ UNCHANGED <<input, depth>>
  BY DEF ParseKey, KeyHere, KeyBody
<1>2. Clear(input, cur, depth)  BY <1>1 DEF TextInv
<1>3. Clear(input, next, depth) /\ Within(next)  BY <1>1, <1>2, StringHere
<1>4. Len(input) \in Nat  BY InputLength
<1>5. Within(colon)  BY <1>1, StringEnds
<1> HIDE DEF next
<1>6. Clear(input, colon, depth)  BY <1>3, <1>4, SkipsClear
<1> HIDE DEF colon
<1>7. Clear(input, colon + 1, depth)  BY <1>1, <1>4, <1>5, <1>6, PastPlain
<1>   QED  BY <1>1, <1>7, TextGoesOn

LEMMA NextChildReads ==
    ASSUME PlaceInv, TextInv, UNCHANGED <<body, result>>, NextChild
    PROVE  TextInv'
<1>1. /\ at = "returned" /\ value # <<>> /\ UnitAt(Here) = "," /\ cur' = Here + 1
      /\ at' \in {"key", "value"} /\ UNCHANGED <<input, depth>>
  BY DEF NextChild, ChildHere, NextPart
<1>2. Clear(input, cur, depth)  BY <1>1 DEF TextInv, HasValue
<1>3. Clear(input, Here, depth) /\ Len(input) \in Nat /\ Within(Here)  BY <1>2, HereClear, HereIs
<1>4. Clear(input, Here + 1, depth)  BY <1>1, <1>3, PastPlain
<1>   QED  BY <1>1, <1>4, TextGoesOn

LEMMA CloseReads ==
    ASSUME PlaceInv, TextInv, UNCHANGED <<body, result>>, CloseContainer
    PROVE  TextInv'
<1>1. /\ at = "returned" /\ value # <<>> /\ UnitAt(Here) \in Closers /\ cur' = Here + 1
      /\ at' = "returned" /\ input' = input /\ depth' = depth - 1
  BY DEF CloseContainer, ChildHere, Closing, ReturnNode, Closers
<1>2. Clear(input, cur, depth)  BY <1>1 DEF TextInv, HasValue
<1>3. UnitAt(Here) # "end"  BY <1>1, EndIs DEF Closers
<1>4. /\ Here \in 1..Len(input) /\ input[Here] = UnitAt(Here) /\ Clear(input, Here, depth)
      /\ Len(input) \in Nat
  BY <1>2, <1>3, HereClear
<1>5. Clear(input, Here + 1, depth - 1)  BY <1>1, <1>4, ClearNext
<1>6. HasSolid(input, Here + 1)
  <2>1. Here \in 1..Here + 1 - 1  BY <1>4
  <2>2. input[Here] # Blank  BY <1>1, <1>4, UnitsApart DEF Brackets
  <2>   QED  BY <2>1, <2>2 DEF HasSolid
<1>   QED  BY <1>1, <1>5, <1>6, TextGoesOn

LEMMA FinishReads ==
    ASSUME PlaceInv, TextInv, UNCHANGED <<body, result>>, Finish
    PROVE  TextInv'
<1>1. at = "returned" /\ at' = "end" /\ UNCHANGED <<input, depth>>  BY DEF Finish
<1>2. input' = body' /\ result' \notin {"ok", "refused"}  BY <1>1 DEF TextInv
<1>3. value' = <<>> \/ (value # <<>> /\ value' = value /\ cur' = Here /\ ~(Here <= Len(input)))
  BY DEF Finish
<1>4. CASE value' = <<>>  BY <1>1, <1>2, <1>4 DEF TextInv, HasValue
<1>5. CASE value # <<>> /\ value' = value /\ cur' = Here /\ ~(Here <= Len(input))
  <2>1. Clear(input, cur, depth) /\ HasSolid(input, cur)  BY <1>1, <1>5 DEF TextInv, HasValue
  <2>2. Clear(input, Here, depth) /\ Here \in cur..Len(input) + 1 /\ Len(input) \in Nat /\ cur \in Nat \ {0}
    BY <2>1, HereClear
  <2>3. Here = Len(input) + 1  BY <1>5, <2>2
  <2>4. HasSolid(input, Here)  BY <2>1, <2>2, SolidStill
  <2>5. /\ Clear(input', cur', depth') /\ HasSolid(input', cur') /\ cur' = Len(input') + 1
    BY <1>1, <1>5, <2>2, <2>3, <2>4
  <2>   QED  BY <1>1, <1>2, <2>5 DEF TextInv, HasValue
<1>   QED  BY <1>3, <1>4, <1>5

LEMMA VerdictReads ==
    ASSUME PlaceInv, JsonInv, TextInv, Unreadable \/ Succeeded \/ RefusedByEngine
    PROVE  TextInv'
<1>1. /\ at = "end" /\ at' = "over" /\ UNCHANGED <<input, body>>
      /\ result' = "08S01" \/ value # <<>>
  BY DEF Unreadable, Succeeded, RefusedByEngine, AnswerIs, IsObjectNode
<1>2. input' = body'  BY <1>1 DEF TextInv
<1>3. value # <<>> => Balanced(input)
  <2> HAVE value # <<>>
  <2>1. Clear(input, cur, depth) /\ HasSolid(input, cur) /\ cur = Len(input) + 1
    BY <1>1 DEF TextInv, HasValue
  <2>2. depth = 0
    <3>1. stack = <<>> /\ depth = Len(stack)  BY <1>1 DEF JsonInv, PlaceInv
    <3>   QED  BY <3>1
  <2>3. Len(input) \in Nat  BY InputLength
  <2>4. Len(input) + 1 - 1 = Len(input)  BY <2>3
  <2>   QED  BY <2>1, <2>2, <2>4 DEF Balanced, Clear
<1>4. result' \in {"ok", "refused"} => Balanced(input')  BY <1>1, <1>3
<1>   QED  BY <1>1, <1>2, <1>4 DEF TextInv, HasValue

LEMMA TextStep == TextInv /\ AllInv /\ [Next]_vars => TextInv'
<1> SUFFICES ASSUME TextInv, AllInv, [Next]_vars  PROVE TextInv'  OBVIOUS
<1>0. PlaceInv /\ JsonInv /\ PostInv  BY DEF AllInv, AnswerInv
<1>1. CASE Exchange \/ TransportFailed
  <2>1. UNCHANGED jsonVars /\ at = "unused" /\ result' \in {result, "HYT00", "08S01"}
    <3>1. phase # "done" \/ fault # NoFault
      BY <1>1 DEF Exchange, TransportFailed, HttpOwn, HttpServer, Resolve, CannotResolve, Connect,
                  ConnectFails, NoAddressLeft, MakeHead, NoHead, Send, SendFails, AllSent, Receive,
                  ReceiveEnds, ReceiveFails, ReceiveTimesOut, WaitFails, TakeNothing, TakeBody,
                  NoRoomForBody
    <3>2. at = "unused"  BY <1>0, <3>1 DEF PostInv
    <3>   QED  BY <1>1, <3>2 DEF Exchange, TransportFailed
  <2>2. at' = "unused" /\ result \notin {"ok", "refused"}  BY <2>1 DEF jsonVars, TextInv
  <2>   QED  BY <2>1, <2>2 DEF TextInv, HasValue
<1>2. CASE ReadBody
  <2>1. /\ at = "unused" /\ at' = "value" /\ input' = body /\ cur' = cur /\ depth' = depth
        /\ body' = body /\ result' = result
    BY <1>2 DEF ReadBody, Parse, httpVars
  <2>2. cur = 1 /\ depth = 0
    <3>1. stack = <<>> /\ depth = Len(stack) /\ cur = 1  BY <1>0, <2>1 DEF JsonInv, PlaceInv
    <3>   QED  BY <3>1
  <2>3. Len(body) \in Nat  BY DEF AllInv, WrittenInv
  <2>4. Clear(body, 1, 0)
    <3>1. ModeOf(body)[0] = "between" /\ NestedAt(body, 0) = 0  BY <2>3, ModeIs, NestedNone
    <3>2. 1 - 1 = 0  OBVIOUS
    <3>   QED  BY <3>1, <3>2 DEF Clear
  <2>5. Clear(input', cur', depth')  BY <2>1, <2>2, <2>4
  <2>6. result' \notin {"ok", "refused"}  BY <2>1 DEF TextInv
  <2>   QED  BY <2>1, <2>5, <2>6 DEF TextInv, HasValue
<1>3. CASE Reading
  <2>1. JsonNext /\ UNCHANGED <<body, result>>  BY <1>3 DEF Reading, httpVars
  <2>   QED  BY <1>0, <2>1, ParseStringReads, ParseNumberReads, ParseLiteralReads, NothingReads, OpenReads,
                KeyReads, NextChildReads, CloseReads, FinishReads DEF JsonNext
<1>4. CASE Unreadable \/ Succeeded \/ RefusedByEngine  BY <1>0, <1>4, VerdictReads
<1>5. CASE UNCHANGED vars
  BY <1>5 DEF vars, httpVars, jsonVars, TextInv, HasValue
<1>   QED  BY <1>1, <1>2, <1>3, <1>4, <1>5 DEF Next

-----------------------------------------------------------------------------
(***************************************************************************)
(* Whatever the answer and whichever allocation fails: what the exchange   *)
(* counts stays within the request and the answer, and the parser within   *)
(* its text, with depth the number of containers it is inside of           *)
(* (send_all, read_all; skip_ws, parse_string_body, parse_array,           *)
(* parse_object).                                                          *)
(***************************************************************************)
THEOREM AnswersTyped == Spec => []TypeOK
<1>1. AllInv => TypeOK
  <2> SUFFICES ASSUME AllInv  PROVE TypeOK  OBVIOUS
  <2>1. HttpTypeOK  BY DEF AllInv, WrittenInv
  <2>2. /\ cur \in 1..Len(input) + 1 /\ depth = Len(stack) /\ at \in JsonPlaces
        /\ starved \in BOOLEAN /\ result \in {"none", "ok", "refused", "HYT00", "08S01"}
    BY DEF AllInv, PlaceInv, Within
  <2>3. Len(value) <= 1
    <3>1. value = <<>> \/ value = <<value[1]>>  BY DEF AllInv, AnswerInv, JsonInv, ValueRight
    <3>2. \A x : Len(<<x>>) = 1  OBVIOUS
    <3>3. Len(value) = 0 \/ Len(value) = 1  BY <3>1, <3>2
    <3>   QED  BY <3>3
  <2>4. live \in Nat
    <3>1. JsonInv  BY DEF AllInv, AnswerInv
    <3>2. Len(stack) \in Nat /\ live \in Int  BY <3>1 DEF JsonInv, IsStack, IsSequence
    <3>3. live - BlocksOf(value) \in Nat
      <4>1. Hold(stack, live - BlocksOf(value))  BY <3>1 DEF JsonInv
      <4>   QED  BY <3>2, <4>1 DEF Hold
    <3>4. BlocksOf(value) \in Nat  BY <3>1, BlocksTyped
    <3>   QED  BY <3>2, <3>3, <3>4
  <2>   QED  BY <2>1, <2>2, <2>3, <2>4 DEF TypeOK
<1>   QED  BY <1>1, AllAlways, PTL

(***************************************************************************)
(* Of every document and every framing: wherever the answer is broken off, *)
(* what http_request gives for its body is the document or a beginning of  *)
(* it, and once all arrived it is the document, and not refused. For       *)
(* chunks it needs that decode_chunked undoes what the server did,         *)
(* whatever the sizes.                                                     *)
(***************************************************************************)
THEOREM BodiesAsWritten == Spec => []BodyAsWritten
<1>1. AllInv => BodyAsWritten  BY DEF AllInv, WrittenInv
<1>   QED  BY <1>1, AllAlways, PTL

(***************************************************************************)
(* Of every document that is an object, and with any depth of nesting:     *)
(* post() takes no beginning of it for the answer, be it cut in a string,  *)
(* between two members or between two chunks, where http.c sees nothing    *)
(* wrong; only blanks may be missing. What the parser is inside of is what *)
(* the text before it leaves open; where it ends nothing is (parse_array,  *)
(* parse_object, parse_string_body, fl_json_parse, post).                  *)
(***************************************************************************)
THEOREM PartsAreRefused == Spec => []NoPartIsTaken
<1>1. TextInv /\ AllInv => NoPartIsTaken
  <2> SUFFICES ASSUME TextInv, AllInv, result \in {"ok", "refused"}, IsEnclosed(server.document),
                      NEW k \in Len(body) + 1..Len(server.document), server.document[k] # Blank
               PROVE  FALSE
    BY DEF NoPartIsTaken
  <2> DEFINE t == server.document
  <2>1. body = input /\ Balanced(input)  BY DEF TextInv
  <2>2. IsPrefix(body, t)
    <3>1. at = "over"  BY DEF TextInv
    <3>2. phase = "done" /\ fault = NoFault  BY <3>1 DEF AllInv, AnswerInv, PostInv
    <3>   QED  BY <3>2 DEF AllInv, WrittenInv, BodyAsWritten
  <2>3. body \in Seq(STRING) /\ t \in Seq(STRING)  BY DEF AllInv, WrittenInv, ServerRight
  <2> HIDE DEF t
  <2>4. Len(body) \in Nat /\ Len(t) \in Nat  BY <2>3
  <2>5. Len(body) <= Len(t) /\ \A i \in 1..Len(body) : body[i] = t[i]
    <3>1. IsPrefix(body, t) => Len(body) <= Len(t) /\ \A i \in 1..Len(body) : body[i] = t[i]
      BY <2>3 DEF IsPrefix
    <3>   QED  BY <2>2, <3>1
  <2>6. NestedAt(t, Len(body)) = 0  BY <2>1, <2>4, <2>5, BeginningRead DEF Balanced
  <2>7. PICK i \in 1..Len(body) : body[i] # Blank
    <3>1. Len(body) + 1 - 1 = Len(body)  BY <2>4
    <3>   QED  BY <2>1, <3>1 DEF Balanced, HasSolid
  <2>8. i \in 1..Len(t) /\ t[i] # Blank /\ k \in 1..Len(t) /\ t[k] # Blank /\ Len(body) \in i..k - 1
    BY <2>4, <2>5, <2>7 DEF t
  <2>9. NestedAt(t, Len(body)) > 0  BY <2>8 DEF IsEnclosed, t
  <2>   QED  BY <2>6, <2>9
<1>2. Init => TextInv /\ AllInv  BY TextInitially, AnswerInitially, WrittenInitially, PlaceInitially DEF AllInv
<1>3. TextInv /\ AllInv /\ [Next]_vars => (TextInv /\ AllInv)'
  BY TextStep, AnswerStep, WrittenStep, PlaceStep DEF AllInv
<1>   QED  BY <1>1, <1>2, <1>3, PTL DEF Spec
=============================================================================
