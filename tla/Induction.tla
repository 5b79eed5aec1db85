----------------------------- MODULE Induction ------------------------------
(***************************************************************************)
(* Induction over numbers, stated of sets, so that it can be cited: from   *)
(* the library's theorem that a set with a well-founded order has a least  *)
(* element.                                                                *)
(***************************************************************************)
EXTENDS Integers, WellFoundedInduction, TLAPS

\* The order of the numbers, as that theorem wants it.
LEMMA NatWF == IsWellFoundedOn({ss \in Nat \X Nat : ss[1] < ss[2]}, Nat)
BY NatLessThanWellFounded DEF OpToRel

LEMMA LeastElement ==
    ASSUME NEW T, T \subseteq Nat, T # {}
    PROVE  \E x \in T : \A y \in T : x <= y
<1> DEFINE R == {ss \in Nat \X Nat : ss[1] < ss[2]}
<1>1. IsWellFoundedOn(R, Nat)  BY NatWF
<1> HIDE DEF R
<1>2. PICK x \in T : \A y \in T : ~(<<y, x>> \in R)  BY <1>1, WFMin
<1>3. ASSUME NEW y \in T  PROVE  x <= y
  <2>1. x \in Nat /\ y \in Nat  OBVIOUS
  <2>2. y < x => <<y, x>> \in R  BY <2>1 DEF R
  <2>   QED  BY <1>2, <2>1, <2>2
<1> QED  BY <1>3

LEMMA GreatestElement ==
    ASSUME NEW n \in Nat, NEW T, T \subseteq 1..n, T # {}
    PROVE  \E x \in T : \A y \in T : y <= x
<1> DEFINE U == {k \in Nat : n - k \in T}
<1>1. U # {}
  <2>1. PICK i \in T : TRUE  OBVIOUS
  <2>2. n - i \in Nat /\ n - (n - i) = i  OBVIOUS
  <2>   QED  BY <2>1, <2>2
<1>2. PICK k \in U : \A m \in U : k <= m  BY <1>1, LeastElement
<1>3. ASSUME NEW y \in T  PROVE y <= n - k
  <2>1. n - y \in Nat /\ n - (n - y) = y  OBVIOUS
  <2>2. k <= n - y  BY <1>2, <2>1
  <2>   QED  BY <2>2
<1>   QED  BY <1>3

LEMMA SetInduction ==
    ASSUME NEW T, 0 \in T, \A n \in Nat : n \in T => n + 1 \in T
    PROVE  Nat \subseteq T
<1> SUFFICES ASSUME ~(Nat \subseteq T)  PROVE FALSE  OBVIOUS
<1> DEFINE U == Nat \ T
<1>1. PICK x \in U : \A y \in U : x <= y  BY LeastElement
<1>2. x \in Nat /\ x # 0  OBVIOUS
<1>3. x - 1 \in Nat /\ ~(x <= x - 1)  BY <1>2
<1>4. x - 1 \in T  BY <1>1, <1>3
<1>5. x - 1 + 1 \in T  BY <1>3, <1>4
<1>   QED  BY <1>2, <1>5

\* What holds of a number because it holds of those before it, up to b.
LEMMA UpFrom ==
    ASSUME NEW a \in Int, NEW b \in Int, NEW T,
           \A i \in a..b : (\A j \in a..i - 1 : j \in T) => i \in T
    PROVE  a..b \subseteq T
<1> SUFFICES ASSUME ~(a..b \subseteq T)  PROVE FALSE  OBVIOUS
<1> DEFINE U == {k \in Nat : a + k \in (a..b) \ T}
<1>1. U # {}
  <2>1. PICK i \in a..b : i \notin T  OBVIOUS
  <2>2. i - a \in Nat /\ a + (i - a) = i  OBVIOUS
  <2>   QED  BY <2>1, <2>2
<1>2. PICK k \in U : \A m \in U : k <= m  BY <1>1, LeastElement
<1>3. a + k \in a..b /\ a + k \notin T  OBVIOUS
<1>4. ASSUME NEW j \in a..a + k - 1  PROVE j \in T
  <2>1. j - a \in Nat /\ a + (j - a) = j /\ ~(k <= j - a) /\ j \in a..b  BY <1>3
  <2>   QED  BY <1>2, <2>1
<1>   QED  BY <1>3, <1>4

\* And because it holds of those after it, down to a.
LEMMA DownFrom ==
    ASSUME NEW a \in Int, NEW b \in Int, NEW T,
           \A i \in a..b : (\A j \in i + 1..b : j \in T) => i \in T
    PROVE  a..b \subseteq T
<1> SUFFICES ASSUME ~(a..b \subseteq T)  PROVE FALSE  OBVIOUS
<1> DEFINE U == {k \in Nat : b - k \in (a..b) \ T}
<1>1. U # {}
  <2>1. PICK i \in a..b : i \notin T  OBVIOUS
  <2>2. b - i \in Nat /\ b - (b - i) = i  OBVIOUS
  <2>   QED  BY <2>1, <2>2
<1>2. PICK k \in U : \A m \in U : k <= m  BY <1>1, LeastElement
<1>3. b - k \in a..b /\ b - k \notin T  OBVIOUS
<1>4. ASSUME NEW j \in b - k + 1..b  PROVE j \in T
  <2>1. b - j \in Nat /\ b - (b - j) = j /\ ~(k <= b - j) /\ j \in a..b  BY <1>3
  <2>   QED  BY <1>2, <2>1
<1>   QED  BY <1>3, <1>4
=============================================================================
