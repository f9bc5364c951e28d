------------------------------- MODULE Arithmetic -------------------------------
(***************************************************************************)
(* Facts about numbers that several proof modules need: least elements,    *)
(* what a loop that looks for the first of something ends with; i % c, the *)
(* slot of index i in a table of c slots; and sums over finite sets, what  *)
(* the code adds up step by step.                                          *)
(***************************************************************************)
EXTENDS Integers, Functions, FiniteSetsExt, FiniteSetTheorems, WellFoundedInduction,
        TLAPS

--------------------------------------------------------------------------------
(* A set of naturals that is not empty has a least element, which Min      *)
(* names.                                                                  *)

Less == {ss \in Nat \X Nat : ss[1] < ss[2]}

LEMMA SmallestIn ==
  ASSUME NEW T, T \subseteq Nat, T # {}
  PROVE  \E x \in T : \A y \in T : x <= y
<1>1. IsWellFoundedOn(Less, Nat)
  BY NatLessThanWellFounded DEF OpToRel, Less
<1>2. PICK x \in T : \A y \in T : ~(<<y, x>> \in Less)
  BY <1>1, WFMin
<1>3. ASSUME NEW y \in T PROVE x <= y
  <2>1. x \in Nat /\ y \in Nat OBVIOUS
  <2>2. ~(y < x) BY <1>2, <2>1 DEF Less
  <2> QED BY <2>1, <2>2
<1> QED BY <1>3

LEMMA MinIn ==
  ASSUME NEW T, T \subseteq Nat, T # {}
  PROVE  Min(T) \in T /\ \A y \in T : Min(T) <= y
BY SmallestIn DEF Min

--------------------------------------------------------------------------------
(* Slots                                                                   *)

\* Division with remainder.
LEMMA DivMod ==
  ASSUME NEW a \in Nat, NEW c \in Nat, c >= 1
  PROVE  /\ a % c \in 0 .. c - 1
         /\ a \div c \in Int
         /\ a = c * (a \div c) + (a % c)
BY SMTT(20)

\* Distinct multiples of c are at least c apart.
LEMMA MultiplesApart ==
  ASSUME NEW x \in Int, NEW y \in Int, NEW c \in Nat, c >= 1, x < y
  PROVE  c * y - c * x >= c
<1>1. y - x - 1 \in Nat OBVIOUS
<1>2. c * (y - x - 1) \in Nat BY <1>1
<1>3. c * (y - x - 1) = c * y - c * x - c OBVIOUS
<1> QED BY <1>2, <1>3

\* Distinct indices less than c apart have distinct remainders.
LEMMA RemaindersDistinct ==
  ASSUME NEW c \in Nat, c >= 1, NEW a \in Nat, NEW b \in Nat, a < b, b - a < c
  PROVE  a % c # b % c
<1> SUFFICES ASSUME a % c = b % c PROVE FALSE OBVIOUS
<1> DEFINE x == a \div c
<1> DEFINE y == b \div c
<1>1. /\ a = c * x + (a % c) /\ x \in Int
      /\ b = c * y + (b % c) /\ y \in Int
      /\ a % c \in Int
  BY DivMod
<1> HIDE DEF x, y
<1>2. c * x \in Int /\ c * y \in Int BY <1>1
<1>3. b - a = c * y - c * x BY <1>1, <1>2
<1>4. CASE x < y BY <1>1, <1>3, <1>4, MultiplesApart
<1>5. CASE y < x
  <2>1. c * x - c * y >= c BY <1>1, <1>5, MultiplesApart
  <2> QED BY <2>1, <1>2, <1>3
<1>6. CASE x = y BY <1>2, <1>3, <1>6
<1> QED BY <1>1, <1>4, <1>5, <1>6

--------------------------------------------------------------------------------
(* SumFunction, by which the books are balanced, is a recursive function:  *)
(* it exists because there is one for the subsets of up to n elements, for *)
(* every n.                                                                *)

SumStep(f, t, g) ==
  IF t = {} THEN 0 ELSE LET x == CHOOSE x \in t : TRUE IN f[x] + g[t \ {x}]

\* g sums f up over every subset of its domain.
SumsUp(f, g) == g = [t \in SUBSET DOMAIN f |-> SumStep(f, t, g)]

LEMMA SumsUpExists ==
  ASSUME NEW f, IsFiniteSet(DOMAIN f)
  PROVE  \E g : SumsUp(f, g)
<1> DEFINE S == DOMAIN f
           Small(n) == {t \in SUBSET S : Cardinality(t) <= n}
           Up(n) == \E g : g = [t \in Small(n) |-> SumStep(f, t, g)]
           Bad == {n \in Nat : ~Up(n)}
<1>1. \A t \in SUBSET S : IsFiniteSet(t) /\ Cardinality(t) \in Nat
  BY FS_Subset, FS_CardinalityType
<1>2. Bad = {}
  <2> SUFFICES ASSUME Bad # {} PROVE FALSE OBVIOUS
  <2>1. PICK n \in Bad : \A k \in Bad : n <= k BY SmallestIn
  <2>2. n \in Nat /\ ~Up(n) OBVIOUS
  <2>3. CASE n = 0
    <3> DEFINE g == [t \in Small(0) |-> 0]
    <3>1. \A t \in Small(0) : t = {} BY <1>1, FS_EmptySet
    <3>2. g = [t \in Small(0) |-> SumStep(f, t, g)] BY <3>1 DEF SumStep
    <3> QED BY <2>2, <2>3, <3>2
  <2>4. CASE n > 0
    <3>1. n - 1 \in Nat BY <2>2, <2>4
    <3>2. Up(n - 1)
      <4> HIDE DEF Up
      <4> SUFFICES ASSUME ~Up(n - 1) PROVE FALSE OBVIOUS
      <4>1. n <= n - 1 BY <2>1, <3>1
      <4> QED BY <2>2, <4>1
    <3>9. PICK h : h = [t \in Small(n - 1) |-> SumStep(f, t, h)] BY <3>2
    <3> DEFINE g == [t \in Small(n) |-> SumStep(f, t, h)]
    <3> HIDE DEF Small
    <3>3. ASSUME NEW t \in Small(n), t # {}
          PROVE  LET x == CHOOSE x \in t : TRUE IN
                 t \ {x} \in Small(n - 1) /\ t \ {x} \in Small(n)
      <4> DEFINE x == CHOOSE x \in t : TRUE
      <4>1. x \in t BY <3>3
      <4>2. Cardinality(t \ {x}) = Cardinality(t) - 1 /\ t \in SUBSET S
            /\ Cardinality(t) \in Nat /\ Cardinality(t) <= n
        BY <1>1, <4>1, FS_RemoveElement DEF Small
      <4> HIDE DEF x
      <4> QED BY <2>2, <4>2 DEF Small, x
    <3>4. \A t \in Small(n - 1) : t \in Small(n) BY <1>1, <2>2 DEF Small
    <3>5. \A t \in Small(n - 1) : g[t] = h[t] BY <3>9, <3>4
    <3>6. ASSUME NEW t \in Small(n) PROVE SumStep(f, t, h) = SumStep(f, t, g)
      <4>1. CASE t = {} BY <4>1 DEF SumStep
      <4>2. CASE t # {}
        <5> DEFINE x == CHOOSE x \in t : TRUE
        <5>1. h[t \ {x}] = g[t \ {x}] BY <3>3, <3>5, <4>2
        <5>2. SumStep(f, t, h) = f[x] + h[t \ {x}] BY <4>2 DEF SumStep
        <5>3. SumStep(f, t, g) = f[x] + g[t \ {x}] BY <4>2 DEF SumStep
        <5> HIDE DEF x, g
        <5> QED BY <5>1, <5>2, <5>3
      <4> QED BY <4>1, <4>2
    <3>7. g = [t \in Small(n) |-> SumStep(f, t, g)] BY <3>6
    <3> QED BY <2>2, <3>7
  <2> QED BY <2>2, <2>3, <2>4
<1>3. Up(Cardinality(S)) BY <1>1, <1>2
<1>4. Small(Cardinality(S)) = SUBSET S BY <1>1, FS_Subset
<1> QED BY <1>3, <1>4 DEF SumsUp

LEMMA SumUnfolds ==
  ASSUME NEW f, IsFiniteSet(DOMAIN f)
  PROVE  \E g : SumsUp(f, g) /\ SumFunction(f) = g[DOMAIN f]
<1> DEFINE g == CHOOSE h : SumsUp(f, h)
<1>1. SumsUp(f, g) BY SumsUpExists
<1>2. SumFunction(f) = g[DOMAIN f]
  BY DEF SumFunction, SumFunctionOnSet, FoldFunctionOnSet, MapThenFoldSet, SumStep, SumsUp
<1> HIDE DEF g
<1> QED BY <1>1, <1>2

\* Sets of subsets of a finite set have a smallest member, in the sense of inclusion.
LEMMA SmallestSubset ==
  ASSUME NEW S, IsFiniteSet(S), NEW T, T \subseteq SUBSET S, T # {}
  PROVE  \E t \in T : \A s \in T : s \subseteq t => s = t
<1>1. FiniteSubsetsOf(S) = SUBSET S BY FS_FiniteSubsetsOfFinite
<1>2. IsWellFoundedOn(StrictSubsetOrdering(S), SUBSET S)
  BY <1>1, FS_StrictSubsetOrderingWellFounded
<1>3. PICK t \in T : \A s \in T : ~(<<s, t>> \in StrictSubsetOrdering(S))
  BY <1>2, WFMin
<1> QED BY <1>3 DEF StrictSubsetOrdering

\* Where one term changes, the sum changes by as much.
LEMMA SumOfOneChange ==
  ASSUME NEW S, IsFiniteSet(S), NEW f \in [S -> Int], NEW g \in [S -> Int],
         NEW x \in S, \A y \in S : y # x => f[y] = g[y]
  PROVE  /\ SumFunction(f) \in Int /\ SumFunction(g) \in Int
         /\ SumFunction(g) = SumFunction(f) - f[x] + g[x]
<1>1. PICK F : SumsUp(f, F) /\ SumFunction(f) = F[S] BY SumUnfolds
<1>2. PICK G : SumsUp(g, G) /\ SumFunction(g) = G[S] BY SumUnfolds
<1> DEFINE Right(t) == /\ F[t] \in Int /\ G[t] \in Int
                       /\ G[t] = IF x \in t THEN F[t] - f[x] + g[x] ELSE F[t]
           Bad == {t \in SUBSET S : ~Right(t)}
<1>3. \A t \in SUBSET S : F[t] = SumStep(f, t, F) /\ G[t] = SumStep(g, t, G)
  BY <1>1, <1>2 DEF SumsUp
<1>4. Bad = {}
  <2> SUFFICES ASSUME Bad # {} PROVE FALSE OBVIOUS
  <2> HIDE DEF Right
  <2>0. Bad \subseteq SUBSET S OBVIOUS
  <2>1. PICK t \in Bad : \A s \in Bad : s \subseteq t => s = t
    <3> HIDE DEF Bad
    <3> QED BY <2>0, SmallestSubset
  <2>2. t # {}
    <3> SUFFICES ASSUME t = {} PROVE FALSE OBVIOUS
    <3>1. F[{}] = 0 /\ G[{}] = 0 BY <1>3 DEF SumStep
    <3>2. Right({}) BY <3>1 DEF Right
    <3> QED BY <3>2
  <2> DEFINE y == CHOOSE y \in t : TRUE
  <2>3. y \in t /\ y \in S BY <2>2
  <2>4. F[t] = f[y] + F[t \ {y}] /\ G[t] = g[y] + G[t \ {y}]
    BY <1>3, <2>2 DEF SumStep
  <2> HIDE DEF y
  <2>5. t \ {y} \in SUBSET S /\ t \ {y} # t BY <2>3
  <2>6. Right(t \ {y}) BY <2>1, <2>5
  <2>7. f[y] \in Int /\ g[y] \in Int /\ f[x] \in Int /\ g[x] \in Int BY <2>3
  <2>8. Right(t) BY <2>3, <2>4, <2>6, <2>7 DEF Right
  <2> QED BY <2>8
<1>5. Right(S) BY <1>4
<1> QED BY <1>1, <1>2, <1>5

\* A sum of naturals is at least each of its terms, and zero only if they all are.
LEMMA SumOfNaturals ==
  ASSUME NEW S, IsFiniteSet(S), NEW f \in [S -> Nat]
  PROVE  /\ SumFunction(f) \in Nat
         /\ \A x \in S : f[x] <= SumFunction(f)
         /\ (\A x \in S : f[x] = 0) => SumFunction(f) = 0
<1>1. PICK F : SumsUp(f, F) /\ SumFunction(f) = F[S] BY SumUnfolds
<1> DEFINE Right(t) == /\ F[t] \in Nat
                       /\ \A x \in t : f[x] <= F[t]
                       /\ (\A x \in t : f[x] = 0) => F[t] = 0
           Bad == {t \in SUBSET S : ~Right(t)}
<1>2. \A t \in SUBSET S : F[t] = SumStep(f, t, F) BY <1>1 DEF SumsUp
<1>3. Bad = {}
  <2> SUFFICES ASSUME Bad # {} PROVE FALSE OBVIOUS
  <2> HIDE DEF Right
  <2>0. Bad \subseteq SUBSET S OBVIOUS
  <2>1. PICK t \in Bad : \A s \in Bad : s \subseteq t => s = t
    <3> HIDE DEF Bad
    <3> QED BY <2>0, SmallestSubset
  <2>2. t # {}
    <3> SUFFICES ASSUME t = {} PROVE FALSE OBVIOUS
    <3>1. F[{}] = 0 BY <1>2 DEF SumStep
    <3>2. Right({}) BY <3>1 DEF Right
    <3> QED BY <3>2
  <2> DEFINE y == CHOOSE y \in t : TRUE
  <2>3. y \in t /\ y \in S BY <2>2
  <2>4. F[t] = f[y] + F[t \ {y}] BY <1>2, <2>2 DEF SumStep
  <2> HIDE DEF y
  <2>5. t \ {y} \in SUBSET S /\ t \ {y} # t BY <2>3
  <2>6. Right(t \ {y}) BY <2>1, <2>5
  <2>7. \A x \in t : f[x] \in Nat OBVIOUS
  <2>9. F[t \ {y}] \in Nat /\ \A x \in t \ {y} : f[x] <= F[t \ {y}]
    BY <2>6 DEF Right
  <2>10. F[t] \in Nat /\ f[y] <= F[t] /\ F[t \ {y}] <= F[t]
    BY <2>3, <2>4, <2>7, <2>9
  <2>11. ASSUME NEW x \in t PROVE f[x] <= F[t]
    BY <2>3, <2>7, <2>9, <2>10
  <2>12. (\A x \in t : f[x] = 0) => F[t] = 0
    BY <2>3, <2>4, <2>6 DEF Right
  <2>8. Right(t) BY <2>10, <2>11, <2>12 DEF Right
  <2> QED BY <2>8
<1>4. Right(S) BY <1>3
<1> QED BY <1>1, <1>4

================================================================================
