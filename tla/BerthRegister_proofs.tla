------------------------ MODULE BerthRegister_proofs ------------------------
(***************************************************************************)
(* What the register's operators return, for any rows: a numbering of a      *)
(* finite set by a strict order, the rows in force in register order, the    *)
(* candidates in the order of their sort, the first one that clears.  And    *)
(* the facts about finite sets that this and the modules above it need.      *)
(***************************************************************************)
EXTENDS BerthRegister, FiniteSetsExt, FiniteSetTheorems, SequenceTheorems, WellFoundedInduction, TLAPS

(***************************************************************************)
(* Finite sets and their order.                                             *)
(***************************************************************************)

LEMMA LeastOfSome ==
  ASSUME NEW T, T \subseteq Nat, T # {}
  PROVE  \E t \in T : \A s \in T : t <= s
<1> DEFINE R == OpToRel(<, Nat)
<1>1. IsWellFoundedOn(R, Nat)
  BY NatLessThanWellFounded, Zenon
<1>2. PICK t \in T : \A s \in T : ~(<<s, t>> \in R)
  <2> HIDE DEF R
  <2> QED
    BY <1>1, WFMin
<1>3. R = {ss \in Nat \X Nat : ss[1] < ss[2]}
  BY Zenon DEF OpToRel
<1> HIDE DEF R
<1>4. \A s \in T : s \in Nat /\ t \in Nat /\ ~(s < t)
  BY <1>2, <1>3
<1> QED
  BY <1>4

LEMMA FiniteHasMax ==
  ASSUME NEW S, S \subseteq Int, IsFiniteSet(S), S # {}
  PROVE  \E m \in S : \A x \in S : m >= x
<1> DEFINE Unbounded(D) == D \subseteq Int /\ IsFiniteSet(D) /\ D # {}
                             /\ \A m \in D : \E x \in D : ~(m >= x)
           T == {n \in Nat : \E D \in SUBSET Int : Unbounded(D) /\ Cardinality(D) = n}
<1> SUFFICES ASSUME Unbounded(S) PROVE FALSE
  OBVIOUS
<1>1. Cardinality(S) \in Nat
  BY FS_CardinalityType
<1>2. Cardinality(S) \in T
  BY <1>1
<1>3. PICK n \in T : \A k \in T : n <= k
  <2> HIDE DEF T
  <2>1. T \subseteq Nat
    BY DEF T
  <2> QED
    BY <1>2, <2>1, LeastOfSome
<1>4. PICK D \in SUBSET Int : Unbounded(D) /\ Cardinality(D) = n
  BY <1>3
<1>5. PICK d \in D : TRUE
  BY <1>4
<1> DEFINE C == D \ {d}
<1>6. IsFiniteSet(C) /\ Cardinality(C) = n - 1 /\ n \in Nat
  BY <1>3, <1>4, <1>5, FS_RemoveElement
<1>7. CASE C = {}
  <2>1. D = {d} /\ d \in Int
    BY <1>5, <1>7
  <2> QED
    BY <1>4, <2>1
<1>8. CASE C # {}
  <2>1. n - 1 \in Nat
    BY <1>6, FS_CardinalityType
  <2>2. n - 1 \notin T
    BY <1>3, <1>6
  <2>3. ~Unbounded(C)
    <3> HIDE DEF Unbounded
    <3> QED
      BY <1>6, <2>1, <2>2
  <2>4. PICK m \in C : \A x \in C : m >= x
    BY <1>6, <1>8, <2>3
  <2>5. d \in Int /\ m \in Int /\ m \in D
    BY <1>5
  <2>6. CASE m >= d
    BY <1>4, <2>4, <2>5, <2>6
  <2>7. CASE d >= m
    <3>1. \A x \in D : d >= x
      <4> SUFFICES ASSUME NEW x \in D PROVE d >= x
        OBVIOUS
      <4>1. x \in Int
        OBVIOUS
      <4> QED
        BY <2>4, <2>5, <2>7, <4>1
    <3> QED
      BY <1>4, <1>5, <3>1
  <2> QED
    BY <2>5, <2>6, <2>7
<1> QED
  BY <1>7, <1>8

LEMMA MaxIs ==
  ASSUME NEW S, S \subseteq Int, NEW x \in S, \A y \in S : x >= y
  PROVE  Max(S) = x
<1>1. Max(S) \in S /\ \A y \in S : Max(S) >= y
  BY DEF Max
<1>2. Max(S) >= x /\ x >= Max(S) /\ Max(S) \in Int /\ x \in Int
  BY <1>1
<1> QED
  BY <1>2

LEMMA ImageIsFinite ==
  ASSUME NEW S, IsFiniteSet(S), NEW f, DOMAIN f = S
  PROVE  IsFiniteSet(Range(f))
<1> DEFINE g == [x \in S |-> f[x]]
<1>1. g \in Surjection(S, Range(f))
  BY DEF Surjection, Range
<1> HIDE DEF g
<1> QED
  BY <1>1, FS_Surjection

(* The sums of a function's values over the subsets of a set, as the       *)
(* community module defines them one member at a time.                     *)
Picked(s) == CHOOSE x \in s : TRUE
Sums(g, S, f) ==
  f = [s \in SUBSET S |-> IF s = {} THEN 0 ELSE g[Picked(s)] + f[s \ {Picked(s)}]]

SumOver(g, S) == MapThenSumSet(LAMBDA x : g[x], S)

(* Every finite set has its table of sums: one that is right for the       *)
(* subsets of up to n members gives one for those of up to n + 1.          *)
NextSum(g, f, s) == IF s = {} THEN 0 ELSE g[Picked(s)] + f[s \ {Picked(s)}]

SumsUpTo(g, S, f, n) ==
  /\ f = [s \in SUBSET S |-> f[s]]
  /\ \A s \in SUBSET S : Cardinality(s) <= n => f[s] = NextSum(g, f, s)

LEMMA OneLess ==
  ASSUME NEW S, IsFiniteSet(S), NEW s \in SUBSET S, s # {}
  PROVE  /\ Picked(s) \in s /\ s \ {Picked(s)} \in SUBSET S
         /\ IsFiniteSet(s) /\ Cardinality(s) \in Nat
         /\ Cardinality(s \ {Picked(s)}) \in Nat
         /\ Cardinality(s \ {Picked(s)}) = Cardinality(s) - 1
<1>1. Picked(s) \in s
  BY DEF Picked
<1>2. IsFiniteSet(s)
  BY FS_Subset
<1>3. Cardinality(s) \in Nat
  BY <1>2, FS_CardinalityType
<1>4. /\ IsFiniteSet(s \ {Picked(s)})
      /\ Cardinality(s \ {Picked(s)}) = Cardinality(s) - 1
  BY <1>1, <1>2, FS_RemoveElement
<1>5. Cardinality(s \ {Picked(s)}) \in Nat
  BY <1>4, FS_CardinalityType
<1> QED
  BY <1>1, <1>2, <1>3, <1>4, <1>5

LEMMA SumsGrow ==
  ASSUME NEW S, IsFiniteSet(S), NEW g, NEW n \in Nat, NEW f, SumsUpTo(g, S, f, n)
  PROVE  \E h : SumsUpTo(g, S, h, n + 1)
<1> DEFINE h == [s \in SUBSET S |-> NextSum(g, f, s)]
<1>1. \A s \in SUBSET S : h[s] = NextSum(g, f, s)
  OBVIOUS
<1>2. h = [s \in SUBSET S |-> h[s]]
  OBVIOUS
<1> HIDE DEF h
<1>3. ASSUME NEW s \in SUBSET S, Cardinality(s) <= n + 1
      PROVE  h[s] = NextSum(g, h, s)
  <2>1. CASE s = {}
    BY <2>1, <1>1 DEF NextSum
  <2>2. CASE s # {}
    <3> DEFINE t == s \ {Picked(s)}
    <3>1. t \in SUBSET S /\ Cardinality(t) <= n
      BY <1>3, <2>2, OneLess
    <3>2. h[t] = f[t]
      BY <3>1, <1>1 DEF SumsUpTo
    <3>3. NextSum(g, h, s) = NextSum(g, f, s)
      BY <2>2, <3>2 DEF NextSum
    <3> QED
      BY <3>3, <1>1
  <2> QED
    BY <2>1, <2>2
<1> QED
  BY <1>2, <1>3 DEF SumsUpTo

LEMMA SumsExist ==
  ASSUME NEW S, IsFiniteSet(S), NEW g
  PROVE  \E f : /\ \A s \in SUBSET S : f[s] = NextSum(g, f, s)
               /\ SumOver(g, S) = f[S]
<1> DEFINE Missing == {n \in Nat : ~ \E f : SumsUpTo(g, S, f, n)}
<1>1. 0 \notin Missing
  <2> DEFINE z == [s \in SUBSET S |-> 0]
  <2>1. z = [s \in SUBSET S |-> z[s]] /\ \A s \in SUBSET S : z[s] = 0
    OBVIOUS
  <2> HIDE DEF z
  <2>2. \A s \in SUBSET S : Cardinality(s) <= 0 => s = {}
    <3> SUFFICES ASSUME NEW s \in SUBSET S, Cardinality(s) <= 0, s # {} PROVE FALSE
      OBVIOUS
    <3> DEFINE k == Cardinality(s)
    <3>1. k \in Nat /\ k - 1 \in Nat
      BY OneLess
    <3>2. k <= 0
      OBVIOUS
    <3> HIDE DEF k
    <3> QED
      BY <3>1, <3>2
  <2>3. SumsUpTo(g, S, z, 0)
    BY <2>1, <2>2 DEF SumsUpTo, NextSum
  <2> QED
    BY <2>3
<1>2. Missing = {}
  <2> SUFFICES ASSUME Missing # {} PROVE FALSE
    OBVIOUS
  <2>1. PICK n \in Missing : \A m \in Missing : n <= m
    <3>1. Missing \subseteq Nat
      OBVIOUS
    <3> HIDE DEF Missing
    <3> QED
      BY <3>1, LeastOfSome
  <2>2. n - 1 \in Nat /\ ~(n <= n - 1)
    BY <1>1, <2>1
  <2>3. n - 1 \notin Missing
    BY <2>1, <2>2
  <2>4. PICK f : SumsUpTo(g, S, f, n - 1)
    BY <2>2, <2>3
  <2>5. n - 1 + 1 = n
    BY <2>1
  <2>6. \E h : SumsUpTo(g, S, h, n - 1 + 1)
    <3> HIDE DEF Missing
    <3> QED
      BY <2>2, <2>4, SumsGrow
  <2> QED
    BY <2>1, <2>5, <2>6
<1>3. Cardinality(S) \in Nat
  BY FS_CardinalityType
<1>4. PICK f : SumsUpTo(g, S, f, Cardinality(S))
  BY <1>2, <1>3
<1>5. \A s \in SUBSET S : Cardinality(s) <= Cardinality(S)
  BY FS_Subset
<1>6. \A s \in SUBSET S : f[s] = NextSum(g, f, s)
  BY <1>4, <1>5 DEF SumsUpTo
<1>7. f = [s \in SUBSET S |-> f[s]]
  BY <1>4 DEF SumsUpTo
<1>8. [s \in SUBSET S |-> f[s]] = [s \in SUBSET S |-> NextSum(g, f, s)]
  BY <1>6
<1>9. Sums(g, S, f)
  BY <1>7, <1>8 DEF Sums, NextSum
<1> DEFINE h == CHOOSE e : Sums(g, S, e)
<1>10. SumOver(g, S) = h[S]
  BY DEF SumOver, MapThenSumSet, MapThenFoldSet, Sums, Picked
<1>11. Sums(g, S, h)
  BY <1>9
<1> HIDE DEF h
<1>12. ASSUME NEW s \in SUBSET S PROVE h[s] = NextSum(g, h, s)
  <2> DEFINE R(t) == NextSum(g, h, t)
  <2>1. h = [t \in SUBSET S |-> R(t)]
    BY <1>11 DEF Sums, NextSum
  <2> HIDE DEF R
  <2>2. h[s] = R(s)
    BY <2>1
  <2> QED
    BY <2>2 DEF R
<1> QED
  BY <1>10, <1>12

(* A sum over n terms is at most n times what none of them exceeds, and at *)
(* least n times what none falls short of.                                 *)
Bounded(g, f, s, c) ==
  /\ f[s] \in Int
  /\ (\A x \in s : g[x] <= c) => f[s] <= c * Cardinality(s)
  /\ (\A x \in s : g[x] >= c) => f[s] >= c * Cardinality(s)

LEMMA SumIsBounded ==
  ASSUME NEW S, IsFiniteSet(S), NEW g, \A x \in S : g[x] \in Int, NEW c \in Int
  PROVE  /\ SumOver(g, S) \in Int
         /\ (\A x \in S : g[x] <= c) => SumOver(g, S) <= c * Cardinality(S)
         /\ (\A x \in S : g[x] >= c) => SumOver(g, S) >= c * Cardinality(S)
<1>1. PICK f : /\ \A s \in SUBSET S : f[s] = NextSum(g, f, s)
               /\ SumOver(g, S) = f[S]
  BY SumsExist
<1> DEFINE Odd == {n \in Nat : \E s \in SUBSET S : ~Bounded(g, f, s, c) /\ Cardinality(s) = n}
<1>2. Odd = {}
  <2> SUFFICES ASSUME Odd # {} PROVE FALSE
    OBVIOUS
  <2>1. PICK n \in Odd : \A m \in Odd : n <= m
    <3>1. Odd \subseteq Nat
      OBVIOUS
    <3> HIDE DEF Odd
    <3> QED
      BY <3>1, LeastOfSome
  <2>2. PICK s \in SUBSET S : ~Bounded(g, f, s, c) /\ Cardinality(s) = n
    BY <2>1
  <2>3. s # {}
    <3> SUFFICES ASSUME s = {} PROVE Bounded(g, f, s, c)
      BY <2>2
    <3>1. f[s] = 0
      BY <1>1 DEF NextSum
    <3>2. Cardinality(s) = 0
      BY FS_EmptySet
    <3>3. c * 0 = 0
      OBVIOUS
    <3> QED
      BY <3>1, <3>2, <3>3 DEF Bounded
  <2>4. PICK x \in s, t \in SUBSET S : x = Picked(s) /\ t = s \ {x}
    BY <2>3, OneLess
  <2>5. Cardinality(t) \in Nat /\ Cardinality(t) = n - 1 /\ n \in Nat
    BY <2>2, <2>3, <2>4, OneLess
  <2>6. f[s] = g[x] + f[t]
    BY <1>1, <2>3, <2>4 DEF NextSum
  <2>7. Bounded(g, f, t, c)
    <3>1. n - 1 \notin Odd
      BY <2>1, <2>5
    <3> QED
      BY <2>5, <3>1
  <2>8. \A k \in Int : c * k = c + c * (k - 1)
    OBVIOUS
  <2>9. c * n = c + c * Cardinality(t) /\ c * Cardinality(t) \in Int
    BY <2>5, <2>8
  <2>10. PICK a \in Int, b \in Int, d \in Int :
           a = g[x] /\ b = f[t] /\ d = c * Cardinality(t)
    BY <2>7, <2>9 DEF Bounded
  <2>11. (\A y \in s : g[y] <= c) => f[s] <= c * Cardinality(s)
    <3> SUFFICES ASSUME \A y \in s : g[y] <= c PROVE f[s] <= c * Cardinality(s)
      OBVIOUS
    <3>1. a <= c /\ b <= d
      BY <2>4, <2>7, <2>10 DEF Bounded
    <3> QED
      BY <2>2, <2>6, <2>9, <2>10, <3>1
  <2>12. (\A y \in s : g[y] >= c) => f[s] >= c * Cardinality(s)
    <3> SUFFICES ASSUME \A y \in s : g[y] >= c PROVE f[s] >= c * Cardinality(s)
      OBVIOUS
    <3>1. a >= c /\ b >= d
      BY <2>4, <2>7, <2>10 DEF Bounded
    <3> QED
      BY <2>2, <2>6, <2>9, <2>10, <3>1
  <2>13. f[s] \in Int
    BY <2>6, <2>10
  <2> QED
    BY <2>2, <2>11, <2>12, <2>13 DEF Bounded
<1>3. Bounded(g, f, S, c)
  <2>1. Cardinality(S) \in Nat /\ S \in SUBSET S
    BY FS_CardinalityType
  <2> QED
    BY <1>2, <2>1
<1> QED
  BY <1>1, <1>3 DEF Bounded

(* Two sums over one set compare as their terms do, one of them scaled.    *)
Compared(g, h, f, e, s, c) ==
  /\ f[s] \in Int /\ e[s] \in Int
  /\ (\A x \in s : c * g[x] <= h[x]) => c * f[s] <= e[s]
  /\ (\A x \in s : c * g[x] >= h[x]) => c * f[s] >= e[s]

LEMMA SumsCompare ==
  ASSUME NEW S, IsFiniteSet(S), NEW g, NEW h, NEW c \in Int,
         \A x \in S : g[x] \in Int /\ h[x] \in Int
  PROVE  /\ SumOver(g, S) \in Int /\ SumOver(h, S) \in Int
         /\ (\A x \in S : c * g[x] <= h[x]) => c * SumOver(g, S) <= SumOver(h, S)
         /\ (\A x \in S : c * g[x] >= h[x]) => c * SumOver(g, S) >= SumOver(h, S)
<1>1. PICK f : (\A s \in SUBSET S : f[s] = NextSum(g, f, s)) /\ SumOver(g, S) = f[S]
  BY SumsExist
<1>2. PICK e : (\A s \in SUBSET S : e[s] = NextSum(h, e, s)) /\ SumOver(h, S) = e[S]
  BY SumsExist
<1> DEFINE Odd == {n \in Nat :
                     \E s \in SUBSET S : ~Compared(g, h, f, e, s, c) /\ Cardinality(s) = n}
<1>3. Odd = {}
  <2> SUFFICES ASSUME Odd # {} PROVE FALSE
    OBVIOUS
  <2>1. PICK n \in Odd : \A m \in Odd : n <= m
    <3>1. Odd \subseteq Nat
      OBVIOUS
    <3> HIDE DEF Odd
    <3> QED
      BY <3>1, LeastOfSome
  <2>2. PICK s \in SUBSET S : ~Compared(g, h, f, e, s, c) /\ Cardinality(s) = n
    BY <2>1
  <2>3. s # {}
    <3> SUFFICES ASSUME s = {} PROVE Compared(g, h, f, e, s, c)
      BY <2>2
    <3>1. f[s] = 0 /\ e[s] = 0
      BY <1>1, <1>2 DEF NextSum
    <3>2. c * 0 = 0
      OBVIOUS
    <3> QED
      BY <3>1, <3>2 DEF Compared
  <2>4. PICK x \in s, t \in SUBSET S : x = Picked(s) /\ t = s \ {x}
    BY <2>3, OneLess
  <2>5. Cardinality(t) \in Nat /\ Cardinality(t) = n - 1 /\ n \in Nat
    BY <2>2, <2>3, <2>4, OneLess
  <2>6. f[s] = g[x] + f[t] /\ e[s] = h[x] + e[t]
    BY <1>1, <1>2, <2>3, <2>4 DEF NextSum
  <2>7. Compared(g, h, f, e, t, c)
    <3>1. n - 1 \notin Odd
      BY <2>1, <2>5
    <3> QED
      BY <2>5, <3>1
  <2>8. PICK a \in Int, b \in Int, k \in Int, l \in Int :
          a = g[x] /\ b = h[x] /\ k = f[t] /\ l = e[t]
    BY <2>4, <2>7 DEF Compared
  <2>9. PICK ca \in Int, ck \in Int : ca = c * a /\ ck = c * k
    OBVIOUS
  <2>10. c * (a + k) = ca + ck
    BY <2>9
  <2>11. (\A y \in s : c * g[y] <= h[y]) => c * f[s] <= e[s]
    <3> SUFFICES ASSUME \A y \in s : c * g[y] <= h[y] PROVE c * f[s] <= e[s]
      OBVIOUS
    <3>1. ca <= b /\ ck <= l
      BY <2>4, <2>7, <2>8, <2>9 DEF Compared
    <3> QED
      BY <2>6, <2>8, <2>9, <2>10, <3>1
  <2>12. (\A y \in s : c * g[y] >= h[y]) => c * f[s] >= e[s]
    <3> SUFFICES ASSUME \A y \in s : c * g[y] >= h[y] PROVE c * f[s] >= e[s]
      OBVIOUS
    <3>1. ca >= b /\ ck >= l
      BY <2>4, <2>7, <2>8, <2>9 DEF Compared
    <3> QED
      BY <2>6, <2>8, <2>9, <2>10, <3>1
  <2>13. f[s] \in Int /\ e[s] \in Int
    BY <2>6, <2>8
  <2> QED
    BY <2>2, <2>11, <2>12, <2>13 DEF Compared
<1>4. Compared(g, h, f, e, S, c)
  <2>1. Cardinality(S) \in Nat /\ S \in SUBSET S
    BY FS_CardinalityType
  <2> QED
    BY <1>3, <2>1
<1> QED
  BY <1>1, <1>2, <1>4 DEF Compared

(* No term of a sum of natural numbers exceeds the sum.                    *)
TermsWithin(g, f, s) == f[s] \in Nat /\ \A x \in s : g[x] <= f[s]

LEMMA TermsAreWithin ==
  ASSUME NEW S, IsFiniteSet(S), NEW g, \A x \in S : g[x] \in Nat
  PROVE  SumOver(g, S) \in Nat /\ \A x \in S : g[x] <= SumOver(g, S)
<1>1. PICK f : (\A s \in SUBSET S : f[s] = NextSum(g, f, s)) /\ SumOver(g, S) = f[S]
  BY SumsExist
<1> DEFINE Odd == {n \in Nat : \E s \in SUBSET S : ~TermsWithin(g, f, s) /\ Cardinality(s) = n}
<1>2. Odd = {}
  <2> SUFFICES ASSUME Odd # {} PROVE FALSE
    OBVIOUS
  <2>1. PICK n \in Odd : \A m \in Odd : n <= m
    <3>1. Odd \subseteq Nat
      OBVIOUS
    <3> HIDE DEF Odd
    <3> QED
      BY <3>1, LeastOfSome
  <2>2. PICK s \in SUBSET S : ~TermsWithin(g, f, s) /\ Cardinality(s) = n
    BY <2>1
  <2>3. s # {}
    <3> SUFFICES ASSUME s = {} PROVE TermsWithin(g, f, s)
      BY <2>2
    <3>1. f[s] = 0
      BY <1>1 DEF NextSum
    <3> QED
      BY <3>1 DEF TermsWithin
  <2>4. PICK x \in s, t \in SUBSET S : x = Picked(s) /\ t = s \ {x}
    BY <2>3, OneLess
  <2>5. Cardinality(t) \in Nat /\ Cardinality(t) = n - 1 /\ n \in Nat
    BY <2>2, <2>3, <2>4, OneLess
  <2>6. f[s] = g[x] + f[t]
    BY <1>1, <2>3, <2>4 DEF NextSum
  <2>7. TermsWithin(g, f, t)
    <3>1. n - 1 \notin Odd
      BY <2>1, <2>5
    <3> QED
      BY <2>5, <3>1
  <2>8. PICK a \in Nat, k \in Nat : a = g[x] /\ k = f[t]
    BY <2>4, <2>7 DEF TermsWithin
  <2>9. ASSUME NEW y \in s PROVE g[y] <= f[s]
    <3>1. CASE y = x
      BY <2>6, <2>8, <3>1
    <3>2. CASE y \in t
      <4>1. g[y] <= k /\ g[y] \in Nat
        BY <2>7, <2>8, <3>2 DEF TermsWithin
      <4> QED
        BY <2>6, <2>8, <4>1
    <3> QED
      BY <2>4, <3>1, <3>2
  <2>10. f[s] \in Nat
    BY <2>6, <2>8
  <2> QED
    BY <2>2, <2>9, <2>10 DEF TermsWithin
<1>3. TermsWithin(g, f, S)
  <2>1. Cardinality(S) \in Nat /\ S \in SUBSET S
    BY FS_CardinalityType
  <2> QED
    BY <1>2, <2>1
<1> QED
  BY <1>1, <1>3 DEF TermsWithin

(* A finite set of integers has its least and its greatest.                *)
LEMMA FiniteExtremes ==
  ASSUME NEW S, S \subseteq Int, IsFiniteSet(S), S # {}
  PROVE  /\ Min(S) \in S /\ \A x \in S : Min(S) <= x
         /\ Max(S) \in S /\ \A x \in S : Max(S) >= x
<1>1. \E m \in S : \A x \in S : m >= x
  BY FiniteHasMax
<1> DEFINE opposite == [x \in S |-> 0 - x]
           T == Range(opposite)
<1>2. T \subseteq Int /\ T # {}
  <2>1. \A x \in S : opposite[x] \in Int
    OBVIOUS
  <2>2. DOMAIN opposite = S
    OBVIOUS
  <2> HIDE DEF opposite
  <2> QED
    BY <2>1, <2>2 DEF Range
<1>3. IsFiniteSet(T)
  <2>1. DOMAIN opposite = S
    OBVIOUS
  <2> HIDE DEF opposite
  <2> QED
    BY <2>1, ImageIsFinite
<1>4. PICK t \in T : \A y \in T : t >= y
  <2> HIDE DEF T
  <2> QED
    BY <1>2, <1>3, FiniteHasMax
<1>5. PICK m \in S : t = 0 - m
  BY DEF Range
<1>6. \A x \in S : m <= x
  <2> SUFFICES ASSUME NEW x \in S PROVE m <= x
    OBVIOUS
  <2>1. 0 - x \in T
    BY DEF Range
  <2>2. 0 - m >= 0 - x /\ m \in Int /\ x \in Int
    BY <1>4, <1>5, <2>1
  <2> QED
    BY <2>2
<1>7. Min(S) \in S /\ \A x \in S : Min(S) <= x
  BY <1>6 DEF Min
<1>8. Max(S) \in S /\ \A x \in S : Max(S) >= x
  BY <1>1 DEF Max
<1> QED
  BY <1>7, <1>8

(* The least and the greatest of two integers.                             *)
LEMMA OfTwo ==
  ASSUME NEW a \in Int, NEW b \in Int
  PROVE  /\ Min({a, b}) = IF a <= b THEN a ELSE b
         /\ Max({a, b}) = IF a >= b THEN a ELSE b
<1>1. Min({a, b}) \in {a, b} /\ Min({a, b}) <= a /\ Min({a, b}) <= b
  <2>1. \E m \in {a, b} : \A x \in {a, b} : m <= x
    OBVIOUS
  <2> QED
    BY <2>1 DEF Min
<1>2. Max({a, b}) \in {a, b} /\ Max({a, b}) >= a /\ Max({a, b}) >= b
  <2>1. \E m \in {a, b} : \A x \in {a, b} : m >= x
    OBVIOUS
  <2> QED
    BY <2>1 DEF Max
<1> QED
  BY <1>1, <1>2

(* Whole division by a positive number keeps the order.                    *)
LEMMA DivisionKeepsOrder ==
  ASSUME NEW x \in Int, NEW y \in Int, NEW n \in Nat \ {0}, x <= y
  PROVE  x \div n \in Int /\ y \div n \in Int /\ x \div n <= y \div n
<1>1. x \div n \in Int /\ y \div n \in Int
  OBVIOUS
<1>2. x \div n <= y \div n
  OBVIOUS
<1> QED
  BY <1>1, <1>2

(* How many members of S lead x, by a relation that is a set of pairs, and *)
(* InOrder by such a relation.                                             *)
StrictOrder(R, S) ==
  /\ \A x \in S : <<x, x>> \notin R
  /\ \A x, y \in S : x # y => <<x, y>> \in R \/ <<y, x>> \in R
  /\ \A x, y, z \in S : <<x, y>> \in R /\ <<y, z>> \in R => <<x, z>> \in R

Leading(x, S, R) == Cardinality({y \in S : <<y, x>> \in R})
Numbering(S, R) == [k \in 1 .. Cardinality(S) |-> CHOOSE x \in S : Leading(x, S, R) = k - 1]

(* In a strict total order of a finite set, k members of which lead one    *)
(* member, each k below the size of the set is the number of one member.   *)
LEMMA RanksNumber ==
  ASSUME NEW S, IsFiniteSet(S), NEW R, StrictOrder(R, S)
  PROVE  /\ Cardinality(S) \in Nat
         /\ \A x \in S : Leading(x, S, R) \in 0 .. Cardinality(S) - 1
         /\ \A x, y \in S : <<x, y>> \in R <=> Leading(x, S, R) < Leading(y, S, R)
         /\ \A x, y \in S : Leading(x, S, R) = Leading(y, S, R) => x = y
         /\ \A k \in 1 .. Cardinality(S) : \E x \in S : Leading(x, S, R) = k - 1
<1> DEFINE Led(x) == {y \in S : <<y, x>> \in R}
           Rank(x) == Cardinality(Led(x))
           n == Cardinality(S)
<1>1. n \in Nat
  BY FS_CardinalityType
<1>2. ASSUME NEW x \in S
      PROVE  IsFiniteSet(Led(x)) /\ Rank(x) \in 0 .. n - 1
  <2>1. Led(x) \in SUBSET S /\ x \notin Led(x)
    BY DEF StrictOrder
  <2>2. IsFiniteSet(Led(x)) /\ Rank(x) <= n /\ Rank(x) # n
    BY <2>1, FS_Subset
  <2>3. Rank(x) \in Nat
    BY <2>2, FS_CardinalityType
  <2> QED
    BY <1>1, <2>2, <2>3
<1>r. \A x \in S : Rank(x) \in Nat /\ Rank(x) \in 0 .. n - 1
  <2> SUFFICES ASSUME NEW x \in S PROVE Rank(x) \in 0 .. n - 1
    <3> HIDE DEF Rank, n
    <3> QED
      BY <1>1
  <2> QED
    BY <1>2
<1>3. ASSUME NEW x \in S, NEW y \in S, <<x, y>> \in R
      PROVE  Rank(x) < Rank(y)
  <2>1. Led(x) \in SUBSET Led(y) /\ x \in Led(y) /\ x \notin Led(x)
    BY <1>3 DEF StrictOrder
  <2>2. Rank(x) <= Rank(y) /\ Rank(x) # Rank(y)
    <3>1. IsFiniteSet(Led(y))
      BY <1>2
    <3> HIDE DEF Led
    <3> QED
      BY <2>1, <3>1, FS_Subset
  <2> HIDE DEF Rank
  <2> QED
    BY <1>r, <2>2
<1> HIDE DEF Rank, n
<1>4. ASSUME NEW x \in S, NEW y \in S, Rank(x) = Rank(y)
      PROVE  x = y
  <2>1. ~(Rank(x) < Rank(y)) /\ ~(Rank(y) < Rank(x))
    BY <1>r, <1>4
  <2> QED
    BY <1>3, <2>1 DEF StrictOrder
<1>5. ASSUME NEW x \in S, NEW y \in S, Rank(x) < Rank(y)
      PROVE  <<x, y>> \in R
  <2>1. x # y /\ ~(Rank(y) < Rank(x))
    BY <1>r, <1>5
  <2> QED
    BY <1>3, <2>1 DEF StrictOrder
<1>6. ASSUME NEW k \in 1 .. n
      PROVE  \E x \in S : Rank(x) = k - 1
  <2> DEFINE f == [x \in S |-> Rank(x) + 1]
  <2>1. \A x \in S : f[x] = Rank(x) + 1 /\ Rank(x) \in 0 .. n - 1
    BY <1>r
  <2>2. f \in [S -> 1 .. n]
    BY <1>1, <2>1
  <2>3. \A x, y \in S : f[x] = f[y] => x = y
    <3> HIDE DEF f
    <3> QED
      BY <1>4, <2>1
  <2>4. f \in Injection(S, 1 .. n)
    <3> HIDE DEF f
    <3> QED
      BY <2>2, <2>3 DEF Injection, IsInjective
  <2>5. IsFiniteSet(1 .. n) /\ Cardinality(1 .. n) = n
    BY <1>1, FS_Interval
  <2>6. f \in Surjection(S, 1 .. n)
    <3> HIDE DEF f
    <3> QED
      BY <2>4, <2>5, FS_Injection DEF n
  <2>7. PICK x \in S : f[x] = k
    <3> HIDE DEF f
    <3> QED
      BY <2>6 DEF Surjection
  <2> HIDE DEF f
  <2> QED
    BY <1>1, <2>1, <2>7
<1> QED
  <2>1. \A x, y \in S : <<x, y>> \in R <=> Rank(x) < Rank(y)
    BY <1>3, <1>5
  <2>2. \A x, y \in S : Rank(x) = Rank(y) => x = y
    BY <1>4
  <2>3. \A k \in 1 .. n : \E x \in S : Rank(x) = k - 1
    BY <1>6
  <2>4. \A x \in S : Leading(x, S, R) = Rank(x)
    BY DEF Leading, Rank
  <2> QED
    BY <1>1, <1>r, <2>1, <2>2, <2>3, <2>4 DEF n


(* What numbers a set along a relation.                                    *)
Numbers(order, S, R, n) ==
  /\ order \in [1 .. n -> S]
  /\ \A k \in 1 .. n : Leading(order[k], S, R) = k - 1
  /\ \A k, l \in 1 .. n : <<order[k], order[l]>> \in R <=> k < l
  /\ \A x \in S : \E k \in 1 .. n : order[k] = x

(* InOrder, of a relation that is a strict total order: a numbering of the *)
(* set that follows the relation.                                          *)
LEMMA InOrderIs ==
  ASSUME NEW S, IsFiniteSet(S), NEW R, StrictOrder(R, S),
         NEW order, order = Numbering(S, R)
  PROVE  /\ Cardinality(S) \in Nat
         /\ Numbers(order, S, R, Cardinality(S))
<1> DEFINE Rank(x) == Leading(x, S, R)
           n == Cardinality(S)
<1>1. /\ n \in Nat
      /\ \A x \in S : Rank(x) \in 0 .. n - 1
      /\ \A x, y \in S : <<x, y>> \in R <=> Rank(x) < Rank(y)
      /\ \A x, y \in S : Rank(x) = Rank(y) => x = y
      /\ \A k \in 1 .. n : \E x \in S : Rank(x) = k - 1
  BY RanksNumber
<1>2. order = [k \in 1 .. n |-> CHOOSE x \in S : Rank(x) = k - 1]
  BY DEF Numbering
<1> SUFFICES /\ n \in Nat
             /\ order \in [1 .. n -> S]
             /\ \A k \in 1 .. n : Rank(order[k]) = k - 1
             /\ \A k, l \in 1 .. n : <<order[k], order[l]>> \in R <=> k < l
             /\ \A x \in S : \E k \in 1 .. n : order[k] = x
  BY DEF Numbers
<1> HIDE DEF Rank, n
<1>3. ASSUME NEW k \in 1 .. n
      PROVE  order[k] \in S /\ Rank(order[k]) = k - 1
  <2>1. PICK x \in S : Rank(x) = k - 1
    BY <1>1
  <2>2. order[k] = CHOOSE y \in S : Rank(y) = k - 1
    BY <1>2
  <2> QED
    BY <2>1, <2>2
<1>4. order \in [1 .. n -> S]
  BY <1>2, <1>3
<1>5. ASSUME NEW k \in 1 .. n, NEW l \in 1 .. n
      PROVE  <<order[k], order[l]>> \in R <=> k < l
  <2>1. order[k] \in S /\ order[l] \in S /\ Rank(order[k]) = k - 1 /\ Rank(order[l]) = l - 1
    BY <1>3
  <2>2. <<order[k], order[l]>> \in R <=> Rank(order[k]) < Rank(order[l])
    BY <1>1, <2>1
  <2>3. k \in Int /\ l \in Int
    BY <1>1
  <2> QED
    BY <2>1, <2>2, <2>3
<1>6. ASSUME NEW x \in S
      PROVE  \E k \in 1 .. n : order[k] = x
  <2>1. Rank(x) \in 0 .. n - 1 /\ Rank(x) + 1 \in 1 .. n
    BY <1>1
  <2>2. PICK k \in 1 .. n : k = Rank(x) + 1
    BY <2>1
  <2>3. order[k] \in S /\ Rank(order[k]) = k - 1
    BY <1>3
  <2>4. Rank(order[k]) = Rank(x)
    BY <1>1, <2>1, <2>2, <2>3
  <2> QED
    BY <1>1, <2>3, <2>4
<1> QED
  BY <1>1, <1>3, <1>4, <1>5, <1>6

(* A numbering of places that runs through them upwards.                   *)
Ahead(i, places) == Cardinality({j \in places : j < i})

Upward(order, n, places) ==
  /\ order \in [1 .. n -> places]
  /\ \A k \in 1 .. n : Ahead(order[k], places) = k - 1
  /\ \A k, l \in 1 .. n : order[k] < order[l] <=> k < l
  /\ \A i \in places : \E k \in 1 .. n : order[k] = i

Follows(s, rows, order) == \A k \in DOMAIN s : s[k] = rows[order[k]]

(* The rows at some places, in order. *)
LEMMA RowsAtIs ==
  ASSUME NEW rows, NEW places, places \subseteq Int, IsFiniteSet(places)
  PROVE  /\ Cardinality(places) \in Nat
         /\ DOMAIN RowsAt(rows, places) = 1 .. Cardinality(places)
         /\ Len(RowsAt(rows, places)) = Cardinality(places)
         /\ \E order :
              /\ Upward(order, Cardinality(places), places)
              /\ Follows(RowsAt(rows, places), rows, order)
<1> DEFINE R == {p \in places \X places : p[1] < p[2]}
           n == Cardinality(places)
           order == InOrder(places, <)
<1>1. \A x, y \in places : <<x, y>> \in R <=> x < y
  OBVIOUS
<1>2. StrictOrder(R, places)
  <2> HIDE DEF R
  <2> QED
    BY <1>1 DEF StrictOrder
<1>5. \A x \in places : {y \in places : y < x} = {y \in places : <<y, x>> \in R}
  BY <1>1
<1>6. order = [k \in 1 .. n |->
                CHOOSE x \in places : Cardinality({y \in places : y < x}) = k - 1]
  BY DEF InOrder
<1>7. order = Numbering(places, R)
  BY <1>5, <1>6 DEF Numbering, Leading
<1>8. RowsAt(rows, places) = [k \in DOMAIN order |-> rows[order[k]]]
  BY DEF RowsAt, Along
<1> HIDE DEF R, order
<1>16. n \in Nat /\ Numbers(order, places, R, n)
  BY <1>2, <1>7, InOrderIs
<1> HIDE DEF n
<1>9. /\ n \in Nat
      /\ order \in [1 .. n -> places]
      /\ \A k \in 1 .. n : Leading(order[k], places, R) = k - 1
      /\ \A k, l \in 1 .. n : <<order[k], order[l]>> \in R <=> k < l
      /\ \A x \in places : \E k \in 1 .. n : order[k] = x
  BY <1>16 DEF Numbers
<1>10. \A k \in 1 .. n : Ahead(order[k], places) = k - 1
  BY <1>5, <1>9 DEF Leading, Ahead
<1>11. \A k, l \in 1 .. n : order[k] < order[l] <=> k < l
  BY <1>1, <1>9
<1>12. RowsAt(rows, places) = [k \in 1 .. n |-> rows[order[k]]]
  BY <1>8, <1>9
<1>13. Len(RowsAt(rows, places)) = n
  BY <1>9, <1>12
<1>14. Upward(order, n, places)
  BY <1>9, <1>10, <1>11 DEF Upward
<1>15. Follows(RowsAt(rows, places), rows, order)
  BY <1>12 DEF Follows
<1> QED
  BY <1>9, <1>12, <1>13, <1>14, <1>15 DEF n

(* More places, behind the ones there were, with the same rows at those.   *)
Shifted(rows, places, more, wider) ==
  /\ \A i \in places : \A j \in wider \ places : i < j
  /\ \A i \in places : rows[i] = more[i]

SameTo(s, t, n) == \A k \in 1 .. n : s[k] = t[k]

(* More rows, behind the ones there were, extend what is read at places.   *)
LEMMA RowsAtGrows ==
  ASSUME NEW rows, NEW more, NEW places, NEW wider,
         wider \subseteq Int, IsFiniteSet(wider), places \subseteq wider,
         Shifted(rows, places, more, wider)
  PROVE  /\ IsFiniteSet(places) /\ Cardinality(places) \in Nat /\ Cardinality(wider) \in Nat
         /\ Cardinality(places) <= Cardinality(wider)
         /\ DOMAIN RowsAt(rows, places) = 1 .. Cardinality(places)
         /\ DOMAIN RowsAt(more, wider) = 1 .. Cardinality(wider)
         /\ SameTo(RowsAt(rows, places), RowsAt(more, wider), Cardinality(places))
<1> DEFINE n == Cardinality(places)
           m == Cardinality(wider)
<1>1. IsFiniteSet(places) /\ n <= m /\ n \in Nat /\ m \in Nat /\ places \subseteq Int
  BY FS_Subset, FS_CardinalityType
<1>2. PICK order : Upward(order, n, places) /\ Follows(RowsAt(rows, places), rows, order)
  BY <1>1, RowsAtIs
<1>3. PICK order2 : Upward(order2, m, wider) /\ Follows(RowsAt(more, wider), more, order2)
  BY RowsAtIs
<1> HIDE DEF n, m
<1>4. ASSUME NEW k \in 1 .. n
      PROVE  rows[order[k]] = more[order2[k]] /\ k \in 1 .. m
  <2>1. PICK l \in 1 .. m : order2[l] = order[k]
    BY <1>2, <1>3 DEF Upward
  <2>2. order[k] \in places
    BY <1>2 DEF Upward
  <2>3. {j \in wider : j < order2[l]} = {j \in places : j < order[k]}
    <3>1. \A j \in wider : j < order[k] => j \in places
      <4>1. \A j \in wider \ places : j \in Int /\ order[k] \in Int /\ order[k] < j
        BY <1>1, <2>2 DEF Shifted
      <4> QED
        BY <4>1
    <3> QED
      BY <2>1, <3>1
  <2>4. k - 1 = l - 1
    BY <1>2, <1>3, <2>3 DEF Ahead, Upward
  <2>5. k = l
    BY <1>1, <2>4
  <2> QED
    BY <2>1, <2>2, <2>5 DEF Shifted
<1>5. DOMAIN RowsAt(rows, places) = 1 .. n /\ DOMAIN RowsAt(more, wider) = 1 .. m
  BY <1>1, RowsAtIs DEF n, m
<1>6. \A k \in 1 .. n : RowsAt(rows, places)[k] = RowsAt(more, wider)[k]
  BY <1>2, <1>3, <1>4, <1>5 DEF Follows
<1> QED
  BY <1>1, <1>5, <1>6 DEF n, m, SameTo

(* Rows read at places of a sequence are rows of it.                       *)
LEMMA RowsAtType ==
  ASSUME NEW X, NEW file \in Seq(X), NEW places, places \subseteq DOMAIN file
  PROVE  /\ RowsAt(file, places) \in Seq(X)
         /\ Range(RowsAt(file, places)) = {file[i] : i \in places}
         /\ IsInjective(file) => IsInjective(RowsAt(file, places))
         /\ RowsAt(file, places) = <<>> => places = {}
<1> DEFINE n == Cardinality(places)
           s == RowsAt(file, places)
<1>1. DOMAIN file = 1 .. Len(file) /\ Len(file) \in Nat
  OBVIOUS
<1>2. IsFiniteSet(places) /\ places \subseteq Int
  <2>1. IsFiniteSet(1 .. Len(file))
    BY <1>1, FS_Interval
  <2> QED
    BY <1>1, <2>1, FS_Subset
<1>3. n \in Nat /\ DOMAIN s = 1 .. n /\ Len(s) = n
  BY <1>2, RowsAtIs
<1>4. PICK order : Upward(order, n, places) /\ Follows(s, file, order)
  BY <1>2, RowsAtIs
<1>5. s = [k \in 1 .. n |-> s[k]]
  <2>1. s = [k \in DOMAIN InOrder(places, <) |-> file[InOrder(places, <)[k]]]
    BY DEF RowsAt, Along
  <2> HIDE DEF s, n
  <2> QED
    BY <1>3, <2>1
<1> HIDE DEF s, n
<1>6. ASSUME NEW k \in 1 .. n
      PROVE  order[k] \in places /\ s[k] = file[order[k]] /\ s[k] \in X
  <2>1. order[k] \in places
    BY <1>4 DEF Upward
  <2>2. s[k] = file[order[k]]
    BY <1>3, <1>4 DEF Follows
  <2> QED
    BY <1>1, <2>1, <2>2
<1>7. s \in Seq(X)
  BY <1>3, <1>5, <1>6
<1>8. Range(s) = {file[i] : i \in places}
  <2>1. \A i \in places : \E k \in 1 .. n : order[k] = i
    BY <1>4 DEF Upward
  <2>2. \A i \in places : file[i] \in Range(s)
    BY <1>3, <1>6, <2>1 DEF Range
  <2>3. \A x \in Range(s) : \E i \in places : x = file[i]
    BY <1>3, <1>6 DEF Range
  <2> QED
    BY <2>2, <2>3
<1>9. ASSUME IsInjective(file)
      PROVE  IsInjective(s)
  <2> SUFFICES ASSUME NEW k \in 1 .. n, NEW l \in 1 .. n, s[k] = s[l]
               PROVE  k = l
    BY <1>3 DEF IsInjective
  <2>1. order[k] = order[l] /\ order[k] \in Int
    BY <1>2, <1>6, <1>9 DEF IsInjective
  <2>2. ~(order[k] < order[l]) /\ ~(order[l] < order[k])
    BY <2>1
  <2>3. ~(k < l) /\ ~(l < k)
    BY <1>4, <2>2 DEF Upward
  <2> QED
    BY <1>3, <2>3
<1>10. ASSUME s = <<>>
       PROVE  places = {}
  <2>1. Len(s) = 0
    BY <1>10
  <2> QED
    BY <1>2, <1>3, <2>1, FS_EmptySet DEF n
<1> QED
  BY <1>7, <1>8, <1>9, <1>10 DEF s

(***************************************************************************)
(* The register (BerthRegister): the candidates of a port are the rows in   *)
(* force, sorted by a key.                                                  *)
(***************************************************************************)

(* The key a candidate is sorted by: its priority and its capacity.        *)
SortKey(r, wanted) ==
  [p |-> CommodityPriority(r, wanted), c |-> CapacityKey(r)[1], d |-> CapacityKey(r)[2]]

Lex(x, y) ==
  \/ x.p < y.p
  \/ x.p = y.p /\ x.c < y.c
  \/ x.p = y.p /\ x.c = y.c /\ x.d < y.d

LEMMA KeyIs ==
  ASSUME NEW r \in Row, NEW wanted
  PROVE  /\ SortKey(r, wanted) \in [p : Int, c : Int, d : Int]
         /\ CapacityKey(r) = <<SortKey(r, wanted).c, SortKey(r, wanted).d>>
<1>1. CommodityPriority(r, wanted) \in Int
  BY DEF CommodityPriority
<1>2. CapacityKey(r) \in Int \X Int
  <2>1. r.limit \in [Checks -> Limit] /\ r.displacement \in Limit /\ "draft" \in Checks
    BY DEF Row, Checks
  <2>2. r.limit["draft"] \in Limit
    BY <2>1
  <2>3. CASE r.limit["draft"] # Unpublished
    <3>1. -r.limit["draft"] \in Int /\ CapacityKey(r) = <<0, -r.limit["draft"]>>
      BY <2>2, <2>3 DEF Limit, CapacityKey
    <3> QED
      BY <3>1
  <2>4. CASE r.limit["draft"] = Unpublished /\ r.displacement # Unpublished
    <3>1. -r.displacement \in Int /\ CapacityKey(r) = <<1, -r.displacement>>
      BY <2>1, <2>4 DEF Limit, CapacityKey
    <3> QED
      BY <3>1
  <2>5. CASE r.limit["draft"] = Unpublished /\ r.displacement = Unpublished
    BY <2>5 DEF CapacityKey
  <2> QED
    BY <2>3, <2>4, <2>5
<1> QED
  BY <1>1, <1>2 DEF SortKey

LEMMA Triple ==
  ASSUME NEW a \in Int, NEW b \in Int, NEW c \in Int
  PROVE  <<a>> \o <<b, c>> = <<a, b, c>>
<1> DEFINE t == <<a>> \o <<b, c>>
<1>0. <<a>> \in Seq(Int) /\ <<b, c>> \in Seq(Int) /\ Len(<<a>>) = 1 /\ Len(<<b, c>>) = 2
  OBVIOUS
<1>1. t \in Seq(Int) /\ Len(t) = 3
  BY <1>0
<1>2. t[1] = a /\ t[2] = b /\ t[3] = c
  BY <1>0
<1>3. <<a, b, c>> \in Seq(Int) /\ Len(<<a, b, c>>) = 3
  OBVIOUS
<1> HIDE DEF t
<1>4. \A i \in 1 .. 3 : t[i] = <<a, b, c>>[i]
  BY <1>2
<1>5. t = <<a, b, c>>
  BY <1>1, <1>3, <1>4, SeqEqual
<1> QED
  BY <1>5 DEF t

LEMMA BeforeIs ==
  ASSUME NEW r \in Row, NEW s \in Row, NEW wanted
  PROVE  Before(r, s, wanted) <=> Lex(SortKey(r, wanted), SortKey(s, wanted))
<1>1. PICK a \in Int, b \in Int, c \in Int :
        /\ SortKey(r, wanted) = [p |-> a, c |-> b, d |-> c]
        /\ <<CommodityPriority(r, wanted)>> \o CapacityKey(r) = <<a, b, c>>
  <2>1. CommodityPriority(r, wanted) = SortKey(r, wanted).p
    BY DEF SortKey
  <2>2. PICK k \in [p : Int, c : Int, d : Int] : k = SortKey(r, wanted)
    BY KeyIs
  <2>3. CapacityKey(r) = <<k.c, k.d>> /\ k = [p |-> k.p, c |-> k.c, d |-> k.d]
    BY <2>2, KeyIs
  <2>4. <<k.p>> \o <<k.c, k.d>> = <<k.p, k.c, k.d>>
    BY <2>2, Triple
  <2> QED
    BY <2>1, <2>2, <2>3, <2>4
<1>2. PICK e \in Int, f \in Int, g \in Int :
        /\ SortKey(s, wanted) = [p |-> e, c |-> f, d |-> g]
        /\ <<CommodityPriority(s, wanted)>> \o CapacityKey(s) = <<e, f, g>>
  <2>1. CommodityPriority(s, wanted) = SortKey(s, wanted).p
    BY DEF SortKey
  <2>2. PICK k \in [p : Int, c : Int, d : Int] : k = SortKey(s, wanted)
    BY KeyIs
  <2>3. CapacityKey(s) = <<k.c, k.d>> /\ k = [p |-> k.p, c |-> k.c, d |-> k.d]
    BY <2>2, KeyIs
  <2>4. <<k.p>> \o <<k.c, k.d>> = <<k.p, k.c, k.d>>
    BY <2>2, Triple
  <2> QED
    BY <2>1, <2>2, <2>3, <2>4
<1>3. Before(r, s, wanted) <=>
        \E k \in 1 .. 3 : <<a, b, c>>[k] < <<e, f, g>>[k]
                          /\ \A j \in 1 .. (k - 1) : <<a, b, c>>[j] = <<e, f, g>>[j]
  BY <1>1, <1>2 DEF Before
<1>4. Before(r, s, wanted) <=> a < e \/ (a = e /\ b < f) \/ (a = e /\ b = f /\ c < g)
  <2>1. ASSUME NEW k \in 1 .. 3, <<a, b, c>>[k] < <<e, f, g>>[k],
               \A j \in 1 .. (k - 1) : <<a, b, c>>[j] = <<e, f, g>>[j]
        PROVE  a < e \/ (a = e /\ b < f) \/ (a = e /\ b = f /\ c < g)
    <3>1. CASE k = 1
      BY <2>1, <3>1
    <3>2. CASE k = 2
      <4>1. 1 \in 1 .. (k - 1)
        BY <3>2
      <4>2. a = e
        BY <2>1, <4>1
      <4> QED
        BY <2>1, <3>2, <4>2
    <3>3. CASE k = 3
      <4>1. 1 \in 1 .. (k - 1) /\ 2 \in 1 .. (k - 1)
        BY <3>3
      <4>2. a = e /\ b = f
        BY <2>1, <4>1
      <4> QED
        BY <2>1, <3>3, <4>2
    <3> QED
      BY <3>1, <3>2, <3>3
  <2>2. ASSUME a < e
        PROVE  1 \in 1 .. 3 /\ <<a, b, c>>[1] < <<e, f, g>>[1]
               /\ \A j \in 1 .. (1 - 1) : <<a, b, c>>[j] = <<e, f, g>>[j]
    BY <2>2
  <2>3. ASSUME a = e, b < f
        PROVE  2 \in 1 .. 3 /\ <<a, b, c>>[2] < <<e, f, g>>[2]
               /\ \A j \in 1 .. (2 - 1) : <<a, b, c>>[j] = <<e, f, g>>[j]
    BY <2>3
  <2>4. ASSUME a = e, b = f, c < g
        PROVE  3 \in 1 .. 3 /\ <<a, b, c>>[3] < <<e, f, g>>[3]
               /\ \A j \in 1 .. (3 - 1) : <<a, b, c>>[j] = <<e, f, g>>[j]
    <3>1. \A j \in 1 .. (3 - 1) : j = 1 \/ j = 2
      OBVIOUS
    <3> QED
      BY <2>4, <3>1
  <2> QED
    BY <1>3, <2>1, <2>2, <2>3, <2>4
<1> QED
  BY <1>1, <1>2, <1>4 DEF Lex

LEMMA LexIsStrict ==
  LET K == [p : Int, c : Int, d : Int]
  IN  /\ \A x \in K : ~Lex(x, x)
      /\ \A x, y \in K : Lex(x, y) => ~Lex(y, x)
      /\ \A x, y, z \in K : Lex(x, y) /\ Lex(y, z) => Lex(x, z)
      /\ \A x, y, z \in K : Lex(x, y) /\ ~Lex(z, y) => Lex(x, z)
      /\ \A x, y, z \in K : ~Lex(y, x) /\ Lex(y, z) => Lex(x, z)
  BY DEF Lex

(* What Candidates sorts the places of the rows by.                        *)
Leads(i, j, rows, wanted) ==
  \/ Before(rows[i], rows[j], wanted)
  \/ i < j /\ ~Before(rows[j], rows[i], wanted)

FirstOf(rows, D, wanted) == {p \in D \X D : Leads(p[1], p[2], rows, wanted)}

LEMMA FirstOfIs ==
  ASSUME NEW rows, NEW D, NEW wanted, NEW i \in D, NEW j \in D
  PROVE  <<i, j>> \in FirstOf(rows, D, wanted)
           <=> Before(rows[i], rows[j], wanted) \/ (i < j /\ ~Before(rows[j], rows[i], wanted))
<1>1. <<i, j>> \in FirstOf(rows, D, wanted) <=> Leads(i, j, rows, wanted)
  BY DEF FirstOf
<1> QED
  BY <1>1 DEF Leads

(* A stable sort by a key is a strict total order of the places.           *)
LEMMA StableIsStrict ==
  ASSUME NEW D, D \subseteq Int, NEW key \in [D -> [p : Int, c : Int, d : Int]], NEW R,
         \A i, j \in D :
           <<i, j>> \in R <=> Lex(key[i], key[j]) \/ (i < j /\ ~Lex(key[j], key[i]))
  PROVE  StrictOrder(R, D)
<1> DEFINE K == [p : Int, c : Int, d : Int]
<1>5. /\ \A x \in K : ~Lex(x, x)
      /\ \A x, y \in K : Lex(x, y) => ~Lex(y, x)
      /\ \A x, y, z \in K : Lex(x, y) /\ Lex(y, z) => Lex(x, z)
      /\ \A x, y, z \in K : Lex(x, y) /\ ~Lex(z, y) => Lex(x, z)
      /\ \A x, y, z \in K : ~Lex(y, x) /\ Lex(y, z) => Lex(x, z)
  BY LexIsStrict
<1>2. \A i \in D : key[i] \in K
  OBVIOUS
<1> HIDE DEF K
<1>6. \A i \in D : <<i, i>> \notin R
  BY <1>2, <1>5
<1>7. \A i, j \in D : i # j => <<i, j>> \in R \/ <<j, i>> \in R
  OBVIOUS
<1>8. ASSUME NEW i \in D, NEW j \in D, NEW k \in D, <<i, j>> \in R, <<j, k>> \in R
      PROVE  <<i, k>> \in R
  <2>1. PICK x \in K, y \in K, z \in K : x = key[i] /\ y = key[j] /\ z = key[k]
    BY <1>2
  <2>2. Lex(x, y) \/ (i < j /\ ~Lex(y, x))
    BY <1>8, <2>1
  <2>3. Lex(y, z) \/ (j < k /\ ~Lex(z, y))
    BY <1>8, <2>1
  <2>4. i \in Int /\ j \in Int /\ k \in Int
    OBVIOUS
  <2>5. Lex(x, z) \/ (i < k /\ ~Lex(z, x))
    BY <1>5, <2>2, <2>3, <2>4
  <2> QED
    BY <2>1, <2>5
<1> QED
  BY <1>6, <1>7, <1>8 DEF StrictOrder

LEMMA FirstIsStrict ==
  ASSUME NEW rows \in Seq(Row), NEW wanted
  PROVE  StrictOrder(FirstOf(rows, DOMAIN rows, wanted), DOMAIN rows)
<1> DEFINE K == [p : Int, c : Int, d : Int]
           key == [i \in DOMAIN rows |-> SortKey(rows[i], wanted)]
<1>1. DOMAIN rows \subseteq Int /\ \A i \in DOMAIN rows : rows[i] \in Row
  OBVIOUS
<1>2. key \in [DOMAIN rows -> K]
  BY <1>1, KeyIs
<1>3. \A i, j \in DOMAIN rows : Before(rows[i], rows[j], wanted) <=> Lex(key[i], key[j])
  BY <1>1, BeforeIs
<1>4. \A i, j \in DOMAIN rows :
        <<i, j>> \in FirstOf(rows, DOMAIN rows, wanted)
          <=> Lex(key[i], key[j]) \/ (i < j /\ ~Lex(key[j], key[i]))
  <2> SUFFICES ASSUME NEW i \in DOMAIN rows, NEW j \in DOMAIN rows
               PROVE  <<i, j>> \in FirstOf(rows, DOMAIN rows, wanted)
                        <=> Lex(key[i], key[j]) \/ (i < j /\ ~Lex(key[j], key[i]))
    OBVIOUS
  <2>1. <<i, j>> \in FirstOf(rows, DOMAIN rows, wanted)
          <=> Before(rows[i], rows[j], wanted) \/ (i < j /\ ~Before(rows[j], rows[i], wanted))
    BY FirstOfIs
  <2> QED
    BY <1>3, <2>1
<1> HIDE DEF key
<1> QED
  BY <1>1, <1>2, <1>4, StableIsStrict

(* A strict order of the places of a sequence numbers them anew.           *)
LEMMA PlacesInOrder ==
  ASSUME NEW n \in Nat, NEW R, StrictOrder(R, 1 .. n)
  PROVE  Numbers(Numbering(1 .. n, R), 1 .. n, R, n)
<1>1. PICK D : D = 1 .. n
  OBVIOUS
<1>2. PICK order : order = Numbering(D, R)
  OBVIOUS
<1>3. IsFiniteSet(D) /\ Cardinality(D) = n
  BY <1>1, FS_Interval
<1>4. StrictOrder(R, D)
  BY <1>1
<1>5. Numbers(order, D, R, Cardinality(D))
  BY <1>2, <1>3, <1>4, InOrderIs
<1> QED
  BY <1>1, <1>2, <1>3, <1>5

(* A sequence in another order: the same members, each pair by the order.  *)
LEMMA Reordered ==
  ASSUME NEW X, NEW n \in Nat, NEW rows \in [1 .. n -> X],
         NEW order, NEW R, Numbers(order, 1 .. n, R, n),
         NEW s, s = [i \in 1 .. n |-> rows[order[i]]]
  PROVE  s \in Seq(X) /\ Range(s) = Range(rows)
<1>5. /\ order \in [1 .. n -> 1 .. n]
      /\ \A i \in 1 .. n : \E k \in 1 .. n : order[k] = i
  BY DEF Numbers
<1>1. /\ DOMAIN s = 1 .. n /\ DOMAIN rows = 1 .. n
      /\ \A k \in 1 .. n : s[k] = rows[order[k]] /\ order[k] \in 1 .. n /\ s[k] \in X
  BY <1>5
<1>2. s \in Seq(X)
  <2>1. s \in [1 .. n -> X]
    BY <1>1
  <2> QED
    BY <2>1
<1>3. \A x \in Range(s) : x \in Range(rows)
  BY <1>1 DEF Range
<1>4. ASSUME NEW x \in Range(rows)
      PROVE  x \in Range(s)
  <2>1. PICK i \in 1 .. n : x = rows[i]
    BY <1>1 DEF Range
  <2>2. PICK k \in 1 .. n : order[k] = i
    BY <1>5
  <2> QED
    BY <1>1, <2>1, <2>2 DEF Range
<1> QED
  BY <1>2, <1>3, <1>4

(* Each pair of a sequence comes from a pair of another that R relates.    *)
SortedBy(s, rows, R) ==
  \A k, l \in DOMAIN s : k < l =>
    \E i, j \in DOMAIN rows : s[k] = rows[i] /\ s[l] = rows[j] /\ <<i, j>> \in R

LEMMA SortedIs ==
  ASSUME NEW X, NEW rows \in Seq(X), NEW R, StrictOrder(R, DOMAIN rows)
  PROVE  LET s == Along(rows, Numbering(DOMAIN rows, R))
         IN  s \in Seq(X) /\ DOMAIN s = DOMAIN rows /\ Range(s) = Range(rows) /\ SortedBy(s, rows, R)
<1>1. PICK n \in Nat : DOMAIN rows = 1 .. n /\ rows \in [1 .. n -> X]
  OBVIOUS
<1>2. PICK order : order = Numbering(1 .. n, R)
  OBVIOUS
<1>7. PICK s : s = Along(rows, Numbering(DOMAIN rows, R))
  OBVIOUS
<1>8. Numbers(order, 1 .. n, R, n)
  <2>1. StrictOrder(R, 1 .. n)
    BY <1>1
  <2> QED
    BY <1>2, <2>1, PlacesInOrder
<1>3. /\ order \in [1 .. n -> 1 .. n]
      /\ \A k, l \in 1 .. n : k < l => <<order[k], order[l]>> \in R
  BY <1>8 DEF Numbers
<1>4. s = [i \in 1 .. n |-> rows[order[i]]]
  <2>1. s = [i \in DOMAIN order |-> rows[order[i]]]
    BY <1>1, <1>2, <1>7 DEF Along
  <2> QED
    BY <1>3, <2>1
<1>5. s \in Seq(X) /\ Range(s) = Range(rows)
  BY <1>1, <1>4, <1>8, Reordered
<1>6. DOMAIN s = 1 .. n /\ \A k \in 1 .. n : s[k] = rows[order[k]] /\ order[k] \in 1 .. n
  BY <1>3, <1>4
<1>9. SortedBy(s, rows, R)
  BY <1>1, <1>3, <1>6 DEF SortedBy
<1> QED
  BY <1>1, <1>5, <1>6, <1>7, <1>9

(* Candidates: the rows of the register on the port, each in force, none   *)
(* after one it comes before.                                              *)
LEMMA CandidatesAre ==
  ASSUME NEW registry \in Seq(Row), NEW port, NEW wanted, NEW day
  PROVE  /\ Candidates(registry, port, wanted, day) \in Seq(Row)
         /\ Range(Candidates(registry, port, wanted, day)) =
              {row \in Range(registry) : row.port = port /\ InForce(row, day) /\ row.published}
         /\ \A k, l \in DOMAIN Candidates(registry, port, wanted, day) :
              k < l => ~Before(Candidates(registry, port, wanted, day)[l],
                               Candidates(registry, port, wanted, day)[k], wanted)
<1> DEFINE rows == RowsInForce(registry, port, day, TRUE)
           places == {i \in DOMAIN registry :
                        /\ registry[i].port = port /\ InForce(registry[i], day)
                        /\ registry[i].published = TRUE}
           order == Numbering(DOMAIN rows, FirstOf(rows, DOMAIN rows, wanted))
           s == Candidates(registry, port, wanted, day)
<1>1. rows = RowsAt(registry, places)
  BY DEF RowsInForce
<1>2. /\ rows \in Seq(Row)
      /\ Range(rows) = {registry[i] : i \in places}
  <2>1. places \subseteq DOMAIN registry
    OBVIOUS
  <2> HIDE DEF rows, places
  <2> QED
    BY <1>1, <2>1, RowsAtType
<1>3. {registry[i] : i \in places} =
        {row \in Range(registry) : row.port = port /\ InForce(row, day) /\ row.published}
  <2>1. ASSUME NEW i \in DOMAIN registry
        PROVE  registry[i].published = TRUE <=> registry[i].published
    <3>1. registry[i] \in Row
      OBVIOUS
    <3>2. registry[i].published \in BOOLEAN
      BY <3>1, Zenon DEF Row
    <3> QED
      BY <3>2
  <2>2. places = {i \in DOMAIN registry :
                    registry[i].port = port /\ InForce(registry[i], day) /\ registry[i].published}
    BY <2>1, Zenon
  <2> QED
    BY <2>2, Zenon DEF Range
<1>4. s = Along(rows, order)
  <2> DEFINE First(i, j) == \/ Before(rows[i], rows[j], wanted)
                            \/ i < j /\ ~Before(rows[j], rows[i], wanted)
  <2>1. \A x, y \in DOMAIN rows : First(y, x) <=> <<y, x>> \in FirstOf(rows, DOMAIN rows, wanted)
    <3> SUFFICES ASSUME NEW x \in DOMAIN rows, NEW y \in DOMAIN rows
                 PROVE  First(y, x) <=> <<y, x>> \in FirstOf(rows, DOMAIN rows, wanted)
      OBVIOUS
    <3> HIDE DEF rows
    <3> QED
      BY FirstOfIs
  <2>2. s = Along(rows, InOrder(DOMAIN rows, First))
    BY DEF Candidates, Preferred
  <2>3. InOrder(DOMAIN rows, First) =
          [k \in 1 .. Cardinality(DOMAIN rows) |->
             CHOOSE x \in DOMAIN rows : Cardinality({y \in DOMAIN rows : First(y, x)}) = k - 1]
    BY DEF InOrder
  <2> HIDE DEF First, rows
  <2>4. \A x \in DOMAIN rows : {y \in DOMAIN rows : First(y, x)}
                    = {y \in DOMAIN rows : <<y, x>> \in FirstOf(rows, DOMAIN rows, wanted)}
    BY <2>1
  <2>5. InOrder(DOMAIN rows, First) = order
    BY <2>3, <2>4 DEF Numbering, Leading
  <2> QED
    BY <2>2, <2>5
<1> HIDE DEF rows, places, s
<1>9. PICK R : R = FirstOf(rows, DOMAIN rows, wanted)
  OBVIOUS
<1>5. StrictOrder(R, DOMAIN rows)
  BY <1>2, <1>9, FirstIsStrict
<1>6. s = Along(rows, Numbering(DOMAIN rows, R))
  BY <1>4, <1>9 DEF order
<1>10. /\ s \in Seq(Row) /\ DOMAIN s = DOMAIN rows /\ Range(s) = Range(rows)
       /\ SortedBy(s, rows, R)
  BY <1>2, <1>5, <1>6, SortedIs
<1>7. /\ s \in Seq(Row) /\ DOMAIN s = DOMAIN rows /\ Range(s) = Range(rows)
      /\ \A k, l \in DOMAIN s : k < l =>
           \E i, j \in DOMAIN rows : s[k] = rows[i] /\ s[l] = rows[j] /\ <<i, j>> \in R
  BY <1>10 DEF SortedBy
<1>8. ASSUME NEW k \in DOMAIN s, NEW l \in DOMAIN s, k < l
      PROVE  ~Before(s[l], s[k], wanted)
  <2>1. PICK x \in Row, y \in Row : x = s[k] /\ y = s[l]
    BY <1>7
  <2>2. PICK i \in DOMAIN rows, j \in DOMAIN rows :
          /\ x = rows[i] /\ y = rows[j]
          /\ <<i, j>> \in FirstOf(rows, DOMAIN rows, wanted)
    BY <1>7, <1>8, <1>9, <2>1
  <2>3. Before(x, y, wanted) \/ ~Before(y, x, wanted)
    BY <2>2, FirstOfIs
  <2>4. Before(x, y, wanted) => ~Before(y, x, wanted)
    BY BeforeIs, KeyIs, LexIsStrict
  <2> QED
    BY <2>1, <2>3, <2>4
<1> QED
  BY <1>2, <1>3, <1>7, <1>8 DEF s

(* The first of the rows that clears, or none that does.                   *)
LEMMA ClearingIs ==
  ASSUME NEW rows \in Seq(Row), NEW vessel,
         NEW c, c = SelectInSeq(rows, LAMBDA row : Clears(row, vessel))
  PROVE  /\ c = 0 => \A k \in DOMAIN rows : ~Clears(rows[k], vessel)
         /\ c # 0 => c \in DOMAIN rows /\ Clears(rows[c], vessel)
         /\ c # 0 => \A k \in DOMAIN rows : k < c => ~Clears(rows[k], vessel)
<1> DEFINE I == {i \in 1 .. Len(rows) : Clears(rows[i], vessel)}
<1>1. c = IF I # {} THEN Min(I) ELSE 0
  BY DEF SelectInSeq
<1>2. I \subseteq Nat /\ DOMAIN rows = 1 .. Len(rows)
  OBVIOUS
<1>3. ASSUME I # {}
      PROVE  Min(I) \in I /\ \A y \in I : Min(I) <= y
  <2>1. \E x \in I : \A y \in I : x <= y
    <3> HIDE DEF I
    <3> QED
      BY <1>2, <1>3, LeastOfSome
  <2> QED
    BY <2>1 DEF Min
<1>4. \A k \in DOMAIN rows : Clears(rows[k], vessel) => k \in I
  BY <1>2
<1>5. CASE I = {}
  BY <1>1, <1>4, <1>5
<1>6. CASE I # {}
  <2>1. c \in I /\ \A y \in I : c <= y
    BY <1>1, <1>3, <1>6
  <2>2. ASSUME NEW k \in DOMAIN rows, k < c
        PROVE  ~Clears(rows[k], vessel)
    <3>1. ASSUME Clears(rows[k], vessel)
          PROVE  c <= k /\ c \in Nat /\ k \in Nat
      BY <1>2, <1>4, <2>1, <3>1
    <3>2. ~(c <= k /\ c \in Nat /\ k \in Nat)
      BY <2>2
    <3> QED
      BY <3>1, <3>2
  <2>3. c # 0
    BY <2>1
  <2> QED
    BY <1>2, <2>1, <2>2, <2>3
<1> QED
  BY <1>5, <1>6

(***************************************************************************)
(* The verdict on a port: the rows of it in force on the day, and of those  *)
(* the published ones the vessel clears.                                    *)
(***************************************************************************)
RowsOf(registry, port, day) ==
  {i \in DOMAIN registry : registry[i].port = port /\ InForce(registry[i], day)}

BerthsThatClear(registry, port, day, vessel) ==
  {row \in Range(registry) :
     row.port = port /\ InForce(row, day) /\ row.published /\ Clears(row, vessel)}

(* A berth that clears and that no other berth that clears comes before.   *)
NamesABest(verdict, clearing, wanted) ==
  \E row \in clearing :
    row.berth = verdict.berth /\ \A other \in clearing : ~Before(other, row, wanted)

LEMMA ObservedAre ==
  ASSUME NEW registry \in Seq(Row), NEW port, NEW day
  PROVE  RowsInForce(registry, port, day, FALSE) = <<>>
           <=> \A i \in RowsOf(registry, port, day) : registry[i].published
<1> DEFINE places == {i \in DOMAIN registry :
                        /\ registry[i].port = port /\ InForce(registry[i], day)
                        /\ registry[i].published = FALSE}
           rows == RowsInForce(registry, port, day, FALSE)
<1>1. rows = RowsAt(registry, places)
  BY DEF RowsInForce
<1>2. /\ rows \in Seq(Row)
      /\ Range(rows) = {registry[i] : i \in places}
      /\ rows = <<>> => places = {}
  <2>1. places \subseteq DOMAIN registry
    OBVIOUS
  <2> HIDE DEF rows, places
  <2> QED
    BY <1>1, <2>1, RowsAtType
<1>3. ASSUME NEW i \in DOMAIN registry
      PROVE  registry[i].published = FALSE <=> ~registry[i].published
  <2>1. registry[i] \in Row
    OBVIOUS
  <2>2. registry[i].published \in BOOLEAN
    BY <2>1, Zenon DEF Row
  <2> QED
    BY <2>2
<1>4. places = {} <=> \A i \in RowsOf(registry, port, day) : registry[i].published
  <2>1. places = {i \in DOMAIN registry :
                    registry[i].port = port /\ InForce(registry[i], day) /\ ~registry[i].published}
    BY <1>3, Zenon
  <2> QED
    BY <2>1, Zenon DEF RowsOf
<1> HIDE DEF rows, places
<1>5. places = {} => rows = <<>>
  <2>1. ASSUME places = {}
        PROVE  Range(rows) = {}
    BY <1>2, <2>1
  <2>2. Range(rows) = {} => DOMAIN rows = {}
    BY DEF Range
  <2>3. DOMAIN rows = {} => rows = <<>>
    BY <1>2
  <2> QED
    BY <2>1, <2>2, <2>3
<1> QED
  BY <1>2, <1>4, <1>5 DEF rows

LEMMA VerdictFields ==
  ASSUME NEW feasible, NEW berth, NEW source, NEW limit, NEW vessel
  PROVE  LET verdict == Verdict(feasible, berth, source, limit, vessel)
         IN  verdict.feasible = feasible /\ verdict.berth = berth /\ verdict.source = source
  BY DEF Verdict

LEMMA VerdictIs ==
  ASSUME NEW registry \in Seq(Row), NEW legacy, NEW port, NEW wanted, NEW day, NEW vessel
  PROVE  LET known    == RowsOf(registry, port, day)
             clearing == BerthsThatClear(registry, port, day, vessel)
             verdict  == VesselCanCall(registry, legacy, port, wanted, day, vessel)
         IN  /\ known = {} => verdict = PortVerdict(legacy, port, vessel)
             /\ known # {} => (verdict.feasible <=> clearing # {})
             /\ known # {} /\ verdict.feasible => NamesABest(verdict, clearing, wanted)
<1> DEFINE rows == Candidates(registry, port, wanted, day)
           c == SelectInSeq(rows, LAMBDA row : Clears(row, vessel))
           observed == RowsInForce(registry, port, day, FALSE)
           chosen == rows[IF c = 0 THEN 1 ELSE c]
           checked == CheckVessel(registry, port, wanted, day, vessel)
<1> DEFINE known    == RowsOf(registry, port, day)
           clearing == BerthsThatClear(registry, port, day, vessel)
           verdict  == VesselCanCall(registry, legacy, port, wanted, day, vessel)
<1>1. /\ rows \in Seq(Row)
      /\ Range(rows) = {row \in Range(registry) : row.port = port /\ InForce(row, day) /\ row.published}
      /\ \A k, l \in DOMAIN rows : k < l => ~Before(rows[l], rows[k], wanted)
  BY CandidatesAre
<1>2. observed = <<>> <=> \A i \in known : registry[i].published
  BY ObservedAre
<1>3. checked = IF rows # <<>>
                THEN Verdict(c # 0, chosen.berth, "REGISTER", ResolvedLimit(chosen, "draft"), vessel)
                ELSE IF observed # <<>> THEN [Nothing EXCEPT !.source = "REGISTER"] ELSE Nothing
  BY DEF CheckVessel
<1>4. verdict = IF checked.source # "NOTHING" THEN checked ELSE PortVerdict(legacy, port, vessel)
  BY DEF VesselCanCall
<1>5. known # {} => rows # <<>> \/ observed # <<>>
  <2>1. SUFFICES ASSUME NEW i \in known, registry[i].published
                 PROVE  rows # <<>>
    BY <1>2
  <2>2. i \in DOMAIN registry /\ registry[i].port = port /\ InForce(registry[i], day)
    BY DEF RowsOf
  <2>3. registry[i] \in Range(registry)
    BY <2>2 DEF Range
  <2>4. registry[i] \in Range(rows)
    BY <1>1, <2>1, <2>2, <2>3
  <2> HIDE DEF rows
  <2> QED
    BY <2>4 DEF Range
<1>6. known = {} => rows = <<>> /\ observed = <<>>
  <2>1. SUFFICES ASSUME known = {} PROVE Range(rows) = {}
    <3>1. Range(rows) = {} => DOMAIN rows = {}
      BY DEF Range
    <3> HIDE DEF rows, observed, known
    <3>2. DOMAIN rows = {} => rows = <<>>
      BY <1>1
    <3> QED
      BY <1>2, <3>1, <3>2
  <2>2. ASSUME NEW x \in Range(rows)
        PROVE  FALSE
    <3>1. x \in Range(registry) /\ x.port = port /\ InForce(x, day)
      BY <1>1
    <3>2. PICK i \in DOMAIN registry : registry[i] = x
      BY <3>1 DEF Range
    <3>3. i \in known
      BY <3>1, <3>2 DEF RowsOf
    <3> QED
      BY <2>1, <3>3
  <2> QED
    BY <2>2
<1>7. clearing = {row \in Range(rows) : Clears(row, vessel)}
  BY <1>1 DEF BerthsThatClear
<1>8. /\ c = 0 => \A k \in DOMAIN rows : ~Clears(rows[k], vessel)
      /\ c # 0 => c \in DOMAIN rows /\ Clears(rows[c], vessel)
      /\ c # 0 => \A k \in DOMAIN rows : k < c => ~Clears(rows[k], vessel)
  <2> HIDE DEF rows
  <2> QED
    BY <1>1, ClearingIs
<1>9. \A x \in Range(rows) : \E k \in DOMAIN rows : x = rows[k]
  BY DEF Range
<1>10. \A k \in DOMAIN rows : rows[k] \in Range(rows)
  BY DEF Range
<1> HIDE DEF rows, c, observed, known, clearing
<1>11. c = 0 <=> clearing = {}
  BY <1>7, <1>8, <1>9, <1>10
<1>12. CASE rows # <<>>
  <2>1. checked = Verdict(c # 0, chosen.berth, "REGISTER", ResolvedLimit(chosen, "draft"), vessel)
    BY <1>3, <1>12
  <2>2. /\ checked.source = "REGISTER" /\ checked.berth = chosen.berth
        /\ checked.feasible <=> c # 0
    <3>1. PICK yes \in BOOLEAN : yes <=> c # 0
      OBVIOUS
    <3>2. yes = (c # 0)
      BY <3>1
    <3>3. checked = Verdict(yes, chosen.berth, "REGISTER", ResolvedLimit(chosen, "draft"), vessel)
      BY <2>1, <3>2, Zenon
    <3> QED
      BY <3>1, <3>3, VerdictFields
  <2>3. verdict = checked
    BY <1>4, <2>2
  <2>4. ASSUME c # 0
        PROVE  NamesABest(verdict, clearing, wanted)
    <3>1. c \in DOMAIN rows /\ Clears(rows[c], vessel) /\ chosen = rows[c]
      BY <1>8, <2>4
    <3>2. rows[c] \in clearing /\ rows[c].berth = verdict.berth
      BY <1>7, <1>10, <2>2, <2>3, <3>1
    <3>3. ASSUME NEW other \in clearing
          PROVE  ~Before(other, rows[c], wanted)
      <4>1. PICK k \in DOMAIN rows : other = rows[k] /\ Clears(rows[k], vessel)
        BY <1>7, <1>9
      <4>2. k \in Int /\ c \in Int /\ ~(k < c)
        BY <1>1, <1>8, <2>4, <3>1, <4>1
      <4>3. CASE c < k
        BY <1>1, <3>1, <4>1, <4>3
      <4>4. CASE c = k
        <5>1. rows[c] \in Row
          BY <1>1, <3>1
        <5> QED
          BY <4>1, <4>4, <5>1, BeforeIs, KeyIs, LexIsStrict
      <4> QED
        BY <4>2, <4>3, <4>4
    <3> QED
      BY <3>2, <3>3 DEF NamesABest
  <2> QED
    BY <1>6, <1>11, <1>12, <2>2, <2>3, <2>4 DEF known, clearing
<1>13. CASE rows = <<>> /\ observed # <<>>
  <2>1. checked = [Nothing EXCEPT !.source = "REGISTER"]
    BY <1>3, <1>13
  <2>2. checked.source = "REGISTER" /\ checked.feasible = FALSE
    BY <2>1 DEF Nothing
  <2>3. verdict = checked
    BY <1>4, <2>2
  <2>4. clearing = {}
    <3>1. DOMAIN rows = {}
      BY <1>13
    <3> QED
      BY <1>7, <1>9, <3>1
  <2> QED
    BY <1>6, <1>13, <2>2, <2>3, <2>4 DEF known, clearing
<1>14. CASE rows = <<>> /\ observed = <<>>
  <2>1. checked = Nothing /\ checked.source = "NOTHING"
    BY <1>3, <1>14 DEF Nothing
  <2>2. verdict = PortVerdict(legacy, port, vessel) /\ known = {}
    BY <1>4, <1>5, <1>14, <2>1
  <2> QED
    BY <2>2 DEF known, clearing
<1> QED
  BY <1>12, <1>13, <1>14

(* What not to come before a row means: not to suit the cargo better, nor   *)
(* as well and be deeper.                                                   *)
LEMMA NotBeforeIs ==
  ASSUME NEW row \in Row, NEW other \in Row, NEW wanted, ~Before(other, row, wanted)
  PROVE  LET mine   == CommodityPriority(row, wanted)
             theirs == CommodityPriority(other, wanted)
             depth  == other.limit["draft"]
         IN  /\ mine <= theirs
             /\ (mine = theirs /\ depth # Unpublished) =>
                  /\ row.limit["draft"] # Unpublished
                  /\ row.limit["draft"] >= depth
<1> DEFINE mine   == CommodityPriority(row, wanted)
           theirs == CommodityPriority(other, wanted)
           depth  == other.limit["draft"]
<1>1. PICK x \in [p : Int, c : Int, d : Int], y \in [p : Int, c : Int, d : Int] :
        x = SortKey(row, wanted) /\ y = SortKey(other, wanted)
  BY KeyIs
<1>2. ~Lex(y, x)
  BY <1>1, BeforeIs
<1>3. x.p = mine /\ y.p = theirs
  BY <1>1 DEF SortKey
<1>4. x.c = CapacityKey(row)[1] /\ x.d = CapacityKey(row)[2]
      /\ y.c = CapacityKey(other)[1] /\ y.d = CapacityKey(other)[2]
  BY <1>1 DEF SortKey
<1>5. row.limit["draft"] \in Limit /\ depth \in Limit
  BY DEF Row, Checks
<1> HIDE DEF mine, theirs, depth
<1>6. mine <= theirs
  BY <1>1, <1>2, <1>3 DEF Lex
<1>7. ASSUME mine = theirs, depth # Unpublished
      PROVE  row.limit["draft"] # Unpublished /\ row.limit["draft"] >= depth
  <2>1. CapacityKey(other) = <<0, -depth>>
    BY <1>7 DEF CapacityKey, depth
  <2>2. y.c = 0 /\ y.d = -depth
    BY <1>4, <2>1
  <2>3. ~(0 < x.c) /\ (x.c = 0 => ~(-depth < x.d))
    BY <1>1, <1>2, <1>3, <1>7, <2>2 DEF Lex
  <2>4. row.limit["draft"] # Unpublished
    <3>1. SUFFICES ASSUME row.limit["draft"] = Unpublished PROVE x.c = 1 \/ x.c = 2
      BY <2>3
    <3> QED
      BY <1>4, <3>1 DEF CapacityKey
  <2>5. CapacityKey(row) = <<0, -row.limit["draft"]>>
    BY <2>4 DEF CapacityKey
  <2>6. x.c = 0 /\ x.d = -row.limit["draft"]
    BY <1>4, <2>5
  <2>7. row.limit["draft"] \in Nat /\ depth \in Nat
    BY <1>5, <1>7, <2>4 DEF Limit
  <2> QED
    BY <2>3, <2>4, <2>6, <2>7
<1> QED
  BY <1>6, <1>7 DEF mine, theirs, depth
=============================================================================
