----------------------------- MODULE ChartsProofs -----------------------------
(***************************************************************************)
(* The chart pane, for any metrics, samples, bounds, widths and clicks:    *)
(* what is computed apart agrees, no observation is lost or counted twice  *)
(* on its way from the store's rows to a line, a cell or a panel, and a    *)
(* click selects what is drawn under the pointer.                          *)
(***************************************************************************)
EXTENDS Charts, FiniteSetTheorems, WellFoundedInduction, TLAPS

----------------------------------------------------------------------------
(* Numbers.                                                                *)

\* Numbers have a least one.
LEMMA LeastNumber ==
  ASSUME NEW I, I \subseteq Nat, I # {}
  PROVE  \E n \in I : \A i \in I : n <= i
<1> DEFINE R == {ss \in Nat \X Nat : ss[1] < ss[2]}
<1>1. IsWellFoundedOn(R, Nat)
  BY NatLessThanWellFounded DEF OpToRel
<1> HIDE DEF R
<1>2. PICK n \in I : \A i \in I : ~ (<<i, n>> \in R)
  BY <1>1, WFMin
<1>3. ASSUME NEW i \in I, ~ (<<i, n>> \in R) PROVE n <= i
  BY <1>3 DEF R
<1> QED
  BY <1>2, <1>3

\* What holds at 0 and passes from each number to the next holds up to N.
LEMMA ByStep ==
  ASSUME NEW N \in Nat, NEW I, 0 \in I, \A i \in 1 .. N : i - 1 \in I => i \in I
  PROVE  0 .. N \subseteq I
<1> DEFINE B == {i \in 0 .. N : i \notin I}
<1> SUFFICES ASSUME B # {} PROVE FALSE
  OBVIOUS
<1>1. B \subseteq Nat
  OBVIOUS
<1>2. PICK n \in B : \A i \in B : n <= i
  <2> HIDE DEF B
  <2> QED
    BY <1>1, LeastNumber
<1>3. n \in 1 .. N
  BY <1>2
<1>4. n - 1 \in I
  BY <1>2, <1>3
<1> QED
  BY <1>2, <1>3, <1>4

\* Of sets of elements of a finite one, some is smallest.
LEMMA SmallestSet ==
  ASSUME NEW D, IsFiniteSet(D), NEW B, B \subseteq SUBSET D, B # {}
  PROVE  \E s \in B : \A t \in B : ~ (t \subseteq s /\ t # s)
<1> DEFINE I == {Cardinality(s) : s \in B}
<1>1. \A s \in B : IsFiniteSet(s) /\ Cardinality(s) \in Nat
  BY FS_Subset, FS_CardinalityType
<1>2. PICK n \in I : \A i \in I : n <= i
  <2>1. I \subseteq Nat /\ I # {}
    BY <1>1
  <2> HIDE DEF I
  <2> QED
    BY <2>1, LeastNumber
<1>3. PICK s \in B : Cardinality(s) = n
  BY <1>2
<1>4. ASSUME NEW t \in B, t \subseteq s, t # s PROVE FALSE
  <2>1. Cardinality(t) <= Cardinality(s) /\ Cardinality(t) # Cardinality(s)
    BY <1>1, <1>4, FS_Subset
  <2>2. Cardinality(s) <= Cardinality(t)
    BY <1>2, <1>3
  <2> QED
    BY <1>1, <2>1, <2>2
<1> QED
  BY <1>4

\* A finite set has an element that nothing in it precedes.
LEMMA Unpreceded ==
  ASSUME NEW S, IsFiniteSet(S), S # {}, NEW R,
         \A s \in S : <<s, s>> \notin R,
         \A s, t, u \in S : <<s, t>> \in R /\ <<t, u>> \in R => <<s, u>> \in R
  PROVE  \E s \in S : \A t \in S : <<t, s>> \notin R
<1> DEFINE Of(s) == {t \in S : <<t, s>> \in R}
           B == {Of(s) : s \in S}
<1>1. PICK b \in B : \A t \in B : ~ (t \subseteq b /\ t # b)
  <2>1. B \subseteq SUBSET S
    OBVIOUS
  <2>2. B # {}
    <3>1. PICK x \in S : TRUE
      OBVIOUS
    <3>2. Of(x) \in B
      OBVIOUS
    <3> QED
      BY <3>2
  <2> HIDE DEF B
  <2> QED
    BY <2>1, <2>2, SmallestSet
<1>2. PICK s \in S : b = Of(s)
  BY <1>1
<1>3. ASSUME NEW t \in S, <<t, s>> \in R PROVE FALSE
  <2>1. Of(t) \subseteq Of(s)
    BY <1>3
  <2>2. t \in Of(s) /\ t \notin Of(t)
    BY <1>3
  <2>3. Of(t) \in B
    OBVIOUS
  <2> HIDE DEF B, Of
  <2> QED
    BY <1>1, <1>2, <2>1, <2>2, <2>3
<1> QED
  BY <1>3

\* A finite set of numbers has a greatest and a least one.
LEMMA Extremes ==
  ASSUME NEW S, S \subseteq Int, IsFiniteSet(S), S # {}
  PROVE  /\ Max(S) \in S /\ \A s \in S : s <= Max(S)
         /\ Min(S) \in S /\ \A s \in S : Min(S) <= s
<1>1. \E s \in S : \A t \in S : t <= s
  <2> DEFINE R == {st \in S \X S : st[2] < st[1]}
  <2>1. \A s \in S : <<s, s>> \notin R
    OBVIOUS
  <2>2. \A s, t, u \in S : <<s, t>> \in R /\ <<t, u>> \in R => <<s, u>> \in R
    OBVIOUS
  <2>3. \E s \in S : \A t \in S : <<t, s>> \notin R
    <3> HIDE DEF R
    <3> QED
      BY <2>1, <2>2, Unpreceded
  <2>4. \A s, t \in S : <<t, s>> \notin R => t <= s
    OBVIOUS
  <2> HIDE DEF R
  <2> QED
    BY <2>3, <2>4
<1>2. \E s \in S : \A t \in S : s <= t
  <2> DEFINE R == {st \in S \X S : st[1] < st[2]}
  <2>1. \A s \in S : <<s, s>> \notin R
    OBVIOUS
  <2>2. \A s, t, u \in S : <<s, t>> \in R /\ <<t, u>> \in R => <<s, u>> \in R
    OBVIOUS
  <2>3. \E s \in S : \A t \in S : <<t, s>> \notin R
    <3> HIDE DEF R
    <3> QED
      BY <2>1, <2>2, Unpreceded
  <2>4. \A s, t \in S : <<t, s>> \notin R => s <= t
    OBVIOUS
  <2> HIDE DEF R
  <2> QED
    BY <2>3, <2>4
<1> QED
  BY <1>1, <1>2 DEF Max, Min

\* f starts at c and goes on by g.
Recurses(f, N, c, g) == f[0] = c /\ \A i \in 1 .. N : f[i] = g[<<i, f[i - 1]>>]

\* A function on 0 .. N can be defined by recursion.
LEMMA Recursion ==
  ASSUME NEW N \in Nat, NEW V, NEW c \in V, NEW g \in [(1 .. N) \X V -> V]
  PROVE  \E f \in [0 .. N -> V] : Recurses(f, N, c, g)
<1> DEFINE I == {n \in 0 .. N : \E f \in [0 .. n -> V] : Recurses(f, n, c, g)}
<1>1. 0 \in I
  <2> DEFINE f == [i \in 0 .. 0 |-> c]
  <2>1. f \in [0 .. 0 -> V] /\ Recurses(f, 0, c, g)
    BY DEF Recurses
  <2> QED
    BY <2>1
<1>2. ASSUME NEW n \in 1 .. N, n - 1 \in I PROVE n \in I
  <2>1. PICK f \in [0 .. n - 1 -> V] : Recurses(f, n - 1, c, g)
    BY <1>2
  <2> DEFINE h == [i \in 0 .. n |-> IF i = n THEN g[<<n, f[n - 1]>>] ELSE f[i]]
  <2>2. g[<<n, f[n - 1]>>] \in V
    BY <2>1
  <2>3. h \in [0 .. n -> V]
    BY <2>1, <2>2
  <2>4. h[n] = g[<<n, f[n - 1]>>] /\ \A i \in 0 .. n - 1 : h[i] = f[i]
    OBVIOUS
  <2> HIDE DEF h
  <2>5. h[0] = c /\ \A i \in 1 .. n - 1 : h[i] = g[<<i, h[i - 1]>>]
    BY <2>1, <2>4 DEF Recurses
  <2>6. h[n] = g[<<n, h[n - 1]>>]
    BY <2>4
  <2>7. Recurses(h, n, c, g)
    BY <2>5, <2>6 DEF Recurses
  <2> QED
    BY <2>3, <2>7
<1> HIDE DEF I
<1>3. N \in I
  BY <1>1, <1>2, ByStep
<1> QED
  BY <1>3 DEF I

----------------------------------------------------------------------------
(* Sums.                                                                   *)

\* The element a sum takes first, and the sums of the parts of a set.
Next1(s) == CHOOSE x \in s : TRUE
Sums(f, D, g) == g = [s \in SUBSET D |-> IF s = {} THEN 0 ELSE f[Next1(s)] + g[s \ {Next1(s)}]]

AnyFirst(f, D, g) == \A s \in SUBSET D : \A x \in s : g[s] = f[x] + g[s \ {x}]

LEMMA SumsDefined ==
  ASSUME NEW f
  PROVE  SumFunction(f) = (CHOOSE g : Sums(f, DOMAIN f, g))[DOMAIN f]
  BY DEF SumFunction, SumFunctionOnSet, FoldFunctionOnSet, MapThenFoldSet, Sums, Next1

LEMMA SumsOnDefined ==
  ASSUME NEW f, NEW S
  PROVE  SumFunctionOnSet(f, S) = (CHOOSE g : Sums(f, S, g))[S]
  BY DEF SumFunctionOnSet, FoldFunctionOnSet, MapThenFoldSet, Sums, Next1

LEMMA FirstTaken ==
  ASSUME NEW s, s # {}
  PROVE  Next1(s) \in s
  BY DEF Next1

\* The sums of a finite function's parts exist.
LEMMA SumsExist ==
  ASSUME NEW D, IsFiniteSet(D), NEW f \in [D -> Int]
  PROVE  \E g \in [SUBSET D -> Int] : Sums(f, D, g)
<1> DEFINE N == Cardinality(D) + 1
           V == [SUBSET D -> Int]
           c == [s \in SUBSET D |-> 0]
           more == [p \in (1 .. N) \X V |->
                      [s \in SUBSET D |-> IF s = {} THEN 0 ELSE f[Next1(s)] + p[2][s \ {Next1(s)}]]]
<1>1. N \in Nat \ {0}
  BY FS_CardinalityType
<1>2. c \in V
  OBVIOUS
<1>3. more \in [(1 .. N) \X V -> V]
  <2>1. ASSUME NEW p \in (1 .. N) \X V PROVE more[p] \in V
    <3>1. p[2] \in [SUBSET D -> Int]
      OBVIOUS
    <3>2. ASSUME NEW s \in SUBSET D, s # {} PROVE f[Next1(s)] + p[2][s \ {Next1(s)}] \in Int
      <4>1. Next1(s) \in D /\ s \ {Next1(s)} \in SUBSET D
        BY <3>2, FirstTaken
      <4> QED
        BY <3>1, <4>1
    <3>3. more[p] = [s \in SUBSET D |-> IF s = {} THEN 0 ELSE f[Next1(s)] + p[2][s \ {Next1(s)}]]
      OBVIOUS
    <3> HIDE DEF more
    <3> QED
      BY <3>2, <3>3
  <2>2. more = [p \in (1 .. N) \X V |-> more[p]]
    OBVIOUS
  <2> HIDE DEF more, V, N
  <2> QED
    BY <2>1, <2>2
<1>4. PICK F \in [0 .. N -> V] : Recurses(F, N, c, more)
  <2> HIDE DEF N, V, c, more
  <2> QED
    BY <1>1, <1>2, <1>3, Recursion
<1>5. ASSUME NEW i \in 1 .. N, NEW s \in SUBSET D
      PROVE  F[i][s] = IF s = {} THEN 0 ELSE f[Next1(s)] + F[i - 1][s \ {Next1(s)}]
  <2>1. F[i - 1] \in V /\ F[i] = more[<<i, F[i - 1]>>]
    <3> HIDE DEF N, V, more
    <3>1. i - 1 \in 0 .. N
      BY <1>1
    <3> QED
      BY <1>4, <3>1 DEF Recurses
  <2> QED
    BY <2>1
<1>6. \A s \in SUBSET D : IsFiniteSet(s) /\ Cardinality(s) \in 0 .. N - 1
  BY FS_Subset, FS_CardinalityType
<1> DEFINE I == {i \in 0 .. N - 1 : \A s \in SUBSET D : Cardinality(s) <= i => F[i + 1][s] = F[i][s]}
<1>7. 0 \in I
  <2> SUFFICES ASSUME NEW s \in SUBSET D, Cardinality(s) <= 0 PROVE F[1][s] = F[0][s]
    BY <1>1
  <2>1. s = {}
    BY <1>6, FS_EmptySet
  <2>2. F[0][s] = 0
    BY <1>4 DEF Recurses
  <2>3. 1 \in 1 .. N
    BY <1>1
  <2>4. F[1][s] = 0
    <3> HIDE DEF N
    <3> QED
      BY <1>5, <2>1, <2>3
  <2> QED
    BY <2>2, <2>4
<1>8. ASSUME NEW i \in 1 .. N - 1, i - 1 \in I PROVE i \in I
  <2> SUFFICES ASSUME NEW s \in SUBSET D, Cardinality(s) <= i PROVE F[i + 1][s] = F[i][s]
    OBVIOUS
  <2>0. i \in 1 .. N /\ i + 1 \in 1 .. N /\ (i + 1) - 1 = i
    BY <1>1
  <2>1. CASE s = {}
    <3> HIDE DEF N, I
    <3> QED
      BY <1>5, <2>0, <2>1
  <2>2. CASE s # {}
    <3> DEFINE r == s \ {Next1(s)}
    <3>1. r \in SUBSET D /\ Cardinality(r) <= i - 1
      BY <1>6, <2>2, FirstTaken, FS_RemoveElement
    <3>2. F[i][r] = F[i - 1][r]
      BY <1>8, <3>1
    <3>3. F[i + 1][s] = f[Next1(s)] + F[i][r] /\ F[i][s] = f[Next1(s)] + F[i - 1][r]
      <4> HIDE DEF N, I
      <4> QED
        BY <1>5, <2>0, <2>2
    <3> QED
      BY <3>2, <3>3
  <2> QED
    BY <2>1, <2>2
<1>9. N - 1 \in I
  <2> HIDE DEF I, N
  <2>1. N - 1 \in Nat
    BY <1>1
  <2>2. 0 .. N - 1 \subseteq I
    BY <1>7, <1>8, <2>1, ByStep
  <2> QED
    BY <2>1, <2>2
<1> DEFINE g == F[N - 1]
<1>10. g \in V
  <2> HIDE DEF V, N
  <2>1. N - 1 \in 0 .. N
    BY <1>1
  <2> QED
    BY <1>4, <2>1
<1>11. ASSUME NEW s \in SUBSET D
       PROVE  g[s] = IF s = {} THEN 0 ELSE f[Next1(s)] + g[s \ {Next1(s)}]
  <2>1. F[N][s] = g[s]
    BY <1>1, <1>6, <1>9
  <2> QED
    BY SMTT(20), <1>1, <1>5, <2>1
<1>12. Sums(f, D, g)
  BY <1>10, <1>11 DEF Sums
<1> QED
  BY <1>10, <1>12

\* Taken in whichever order: the sum of a part with an element more.
LEMMA SumsCommute ==
  ASSUME NEW D, IsFiniteSet(D), NEW f \in [D -> Int], NEW g, Sums(f, D, g)
  PROVE  g \in [SUBSET D -> Int] /\ g[{}] = 0 /\ AnyFirst(f, D, g)
<1>1. DOMAIN g = SUBSET D /\ g[{}] = 0
      /\ \A s \in SUBSET D : s # {} => g[s] = f[Next1(s)] + g[s \ {Next1(s)}]
  BY DEF Sums
<1>2. \A s \in SUBSET D : g[s] \in Int
  <2> DEFINE B == {s \in SUBSET D : g[s] \notin Int}
  <2> SUFFICES ASSUME B # {} PROVE FALSE
    OBVIOUS
  <2>1. PICK s \in B : \A t \in B : ~ (t \subseteq s /\ t # s)
    <3> HIDE DEF B
    <3>1. B \subseteq SUBSET D
      BY DEF B
    <3> QED
      BY <3>1, SmallestSet
  <2>2. s # {}
    <3>1. g[s] \notin Int
      BY <2>1
    <3>2. g[{}] \in Int
      BY <1>1
    <3> QED
      BY <3>1, <3>2
  <2>3. Next1(s) \in s
    BY <2>2, FirstTaken
  <2>4. g[s \ {Next1(s)}] \in Int
    BY <2>1, <2>3
  <2>5. g[s] = f[Next1(s)] + g[s \ {Next1(s)}]
    BY <1>1, <2>2
  <2> QED
    BY <2>1, <2>3, <2>4, <2>5
<1>3. \A s \in SUBSET D : \A x \in s : g[s] = f[x] + g[s \ {x}]
  <2> DEFINE B == {s \in SUBSET D : \E x \in s : g[s] # f[x] + g[s \ {x}]}
  <2> SUFFICES ASSUME B # {} PROVE FALSE
    OBVIOUS
  <2>1. PICK s \in B : \A t \in B : ~ (t \subseteq s /\ t # s)
    <3> HIDE DEF B
    <3>1. B \subseteq SUBSET D
      BY DEF B
    <3> QED
      BY <3>1, SmallestSet
  <2>2. PICK x \in s : g[s] # f[x] + g[s \ {x}]
    BY <2>1
  <2> DEFINE y == Next1(s)
  <2>3. y \in s /\ g[s] = f[y] + g[s \ {y}]
    BY <1>1, <2>1, <2>2, FirstTaken
  <2>4. x # y
    BY <2>2, <2>3
  <2> HIDE DEF y
  <2>5. s \ {y} \notin B /\ s \ {x} \notin B
    BY <2>1, <2>2, <2>3
  <2>6. g[s \ {y}] = f[x] + g[(s \ {y}) \ {x}]
    BY <2>1, <2>2, <2>4, <2>5
  <2>7. g[s \ {x}] = f[y] + g[(s \ {x}) \ {y}]
    BY <2>1, <2>3, <2>4, <2>5
  <2>8. (s \ {x}) \ {y} = (s \ {y}) \ {x}
    OBVIOUS
  <2>9. f[x] \in Int /\ f[y] \in Int /\ g[(s \ {y}) \ {x}] \in Int
    BY <1>2, <2>1, <2>2, <2>3
  <2>10. g[s] = f[y] + (f[x] + g[(s \ {y}) \ {x}])
    BY <2>3, <2>6
  <2>11. f[x] + g[s \ {x}] = f[x] + (f[y] + g[(s \ {y}) \ {x}])
    BY <2>7, <2>8
  <2> QED
    BY <2>2, <2>9, <2>10, <2>11
<1>4. g = [s \in SUBSET D |-> g[s]]
  BY DEF Sums
<1>5. g \in [SUBSET D -> Int]
  BY <1>2, <1>4
<1> QED
  BY <1>1, <1>3, <1>5 DEF AnyFirst

\* The sum over a part of a function's domain is the sum of the function there.
LEMMA SumOnPart ==
  ASSUME NEW D, IsFiniteSet(D), NEW f \in [D -> Int], NEW E \in SUBSET D
  PROVE  SumFunctionOnSet(f, E) = SumFunction([d \in E |-> f[d]])
<1> DEFINE h == [d \in E |-> f[d]]
<1>1. \A g : Sums(f, E, g) <=> Sums(h, E, g)
  <2>1. \A s \in SUBSET E : s # {} => h[Next1(s)] = f[Next1(s)]
    BY FirstTaken
  <2>2. ASSUME NEW g
        PROVE  [s \in SUBSET E |-> IF s = {} THEN 0 ELSE f[Next1(s)] + g[s \ {Next1(s)}]]
                 = [s \in SUBSET E |-> IF s = {} THEN 0 ELSE h[Next1(s)] + g[s \ {Next1(s)}]]
    <3> HIDE DEF h
    <3> QED
      BY <2>1
  <2> HIDE DEF h
  <2> QED
    BY <2>2 DEF Sums
<1>2. (CHOOSE g : Sums(f, E, g)) = (CHOOSE g : Sums(h, E, g))
  <2> HIDE DEF h
  <2> QED
    BY <1>1
<1>3. DOMAIN h = E
  OBVIOUS
<1>4. SumFunctionOnSet(f, E) = (CHOOSE g : Sums(f, E, g))[E]
  BY SumsOnDefined
<1>5. SumFunction(h) = (CHOOSE g : Sums(h, E, g))[E]
  BY <1>3, SumsDefined
<1> QED
  BY <1>2, <1>4, <1>5

\* A function on a part of its domain.
On(f, s) == [d \in s |-> f[d]]

\* A sum, taken apart: nothing adds up to zero, and any one element may go first.
LEMMA SumFact ==
  ASSUME NEW D, IsFiniteSet(D), NEW f \in [D -> Int]
  PROVE  /\ SumFunction(f) \in Int
         /\ D = {} => SumFunction(f) = 0
         /\ \A x \in D : SumFunction(f) = f[x] + SumFunction(On(f, D \ {x}))
<1> DEFINE g == CHOOSE h : Sums(f, D, h)
<1>1. Sums(f, D, g)
  BY SumsExist
<1>2. SumFunction(f) = g[D]
  BY SumsDefined
<1> HIDE DEF g
<1>3. /\ g \in [SUBSET D -> Int] /\ g[{}] = 0
      /\ \A s \in SUBSET D : \A x \in s : g[s] = f[x] + g[s \ {x}]
  <2>1. g \in [SUBSET D -> Int] /\ g[{}] = 0
    BY <1>1, SumsCommute
  <2>2. AnyFirst(f, D, g)
    BY <1>1, SumsCommute
  <2> QED
    BY <2>1, <2>2 DEF AnyFirst
<1>4. ASSUME NEW x \in D PROVE SumFunction(f) = f[x] + SumFunction(On(f, D \ {x}))
  <2> DEFINE E == D \ {x}
             h == On(f, E)
             k == CHOOSE i : Sums(h, E, i)
  <2>1. IsFiniteSet(E) /\ h \in [E -> Int] /\ DOMAIN h = E
    BY FS_RemoveElement DEF On
  <2>2. Sums(h, E, k)
    <3> HIDE DEF h, E
    <3> QED
      BY <2>1, SumsExist
  <2>3. SumFunction(h) = k[E]
    BY <2>1, SumsDefined
  <2> HIDE DEF k
  <2>4. /\ k \in [SUBSET E -> Int] /\ k[{}] = 0
        /\ \A s \in SUBSET E : \A y \in s : k[s] = h[y] + k[s \ {y}]
    <3> HIDE DEF h, E
    <3> QED
      <4>1. k \in [SUBSET E -> Int] /\ k[{}] = 0
        BY <2>1, <2>2, SumsCommute
      <4>2. AnyFirst(h, E, k)
        BY <2>1, <2>2, SumsCommute
      <4> QED
        BY <4>1, <4>2 DEF AnyFirst
  <2>5. k[E] = g[E]
    <3> DEFINE B == {s \in SUBSET E : k[s] # g[s]}
    <3> SUFFICES ASSUME B # {} PROVE FALSE
      OBVIOUS
    <3>1. PICK s \in B : \A t \in B : ~ (t \subseteq s /\ t # s)
      <4> HIDE DEF B, E
      <4>1. B \subseteq SUBSET E
        BY DEF B
      <4> QED
        BY <2>1, <4>1, SmallestSet
    <3>2. PICK y \in s : TRUE
      BY <1>3, <2>4, <3>1
    <3>3. k[s \ {y}] = g[s \ {y}]
      BY <3>1, <3>2
    <3>4. k[s] = h[y] + k[s \ {y}]
      BY <2>4, <3>1, <3>2
    <3>5. g[s] = f[y] + g[s \ {y}]
      BY <1>3, <3>1, <3>2
    <3>6. h[y] = f[y]
      BY <3>1, <3>2 DEF On
    <3> QED
      BY <3>1, <3>3, <3>4, <3>5, <3>6
  <2>6. g[D] = f[x] + g[E]
    BY <1>3
  <2> QED
    BY <1>2, <2>3, <2>5, <2>6
<1> QED
  BY <1>2, <1>3, <1>4

\* Every part of a finite function's domain is finite, and the function on it is one.
LEMMA PartFact ==
  ASSUME NEW D, IsFiniteSet(D), NEW T, NEW f \in [D -> T], NEW E \in SUBSET D
  PROVE  IsFiniteSet(E) /\ [d \in E |-> f[d]] \in [E -> T]
  BY FS_Subset

\* Zeros add nothing.
LEMMA SumZeros ==
  ASSUME NEW D, IsFiniteSet(D), NEW f \in [D -> Int], NEW E \in SUBSET D,
         \A d \in D \ E : f[d] = 0
  PROVE  SumFunction(f) = SumFunction([d \in E |-> f[d]])
<1> DEFINE Part(s) == [d \in s |-> f[d]]
           B == {s \in SUBSET D : SumFunction(Part(s)) # SumFunction(Part(s \cap E))}
<1>1. B = {}
  <2> SUFFICES ASSUME B # {} PROVE FALSE
    OBVIOUS
  <2>1. PICK s \in B : \A t \in B : ~ (t \subseteq s /\ t # s)
    <3> HIDE DEF B
    <3>1. B \subseteq SUBSET D
      BY DEF B
    <3> QED
      BY <3>1, SmallestSet
  <2>2. s \in SUBSET D /\ IsFiniteSet(s) /\ Part(s) \in [s -> Int]
    BY <2>1, PartFact
  <2>3. PICK x \in s : x \notin E
    <3> SUFFICES ASSUME s \subseteq E PROVE FALSE
      OBVIOUS
    <3>1. s \cap E = s
      OBVIOUS
    <3> QED
      BY <2>1, <3>1
  <2>4. SumFunction(Part(s)) = Part(s)[x] + SumFunction(On(Part(s), s \ {x}))
    <3> DEFINE p == Part(s)
    <3> HIDE DEF Part, B, p
    <3>1. p \in [s -> Int]
      BY <2>2 DEF p
    <3>2. SumFunction(p) = p[x] + SumFunction(On(p, s \ {x}))
      BY <2>2, <2>3, <3>1, SumFact
    <3> QED
      BY <3>2 DEF p
  <2>5. On(Part(s), s \ {x}) = Part(s \ {x}) /\ Part(s)[x] = 0
    BY <2>2, <2>3 DEF On
  <2>6. SumFunction(Part(s \ {x})) \in Int
    <3> DEFINE r == s \ {x}
    <3>1. IsFiniteSet(r) /\ Part(r) \in [r -> Int]
      BY <2>2, PartFact
    <3> DEFINE q == Part(r)
    <3> HIDE DEF Part, B, r, q
    <3>2. SumFunction(q) \in Int
      BY <3>1, SumFact DEF q
    <3> QED
      BY <3>2 DEF q, r
  <2>7. (s \ {x}) \cap E = s \cap E
    BY <2>3
  <2>8. s \ {x} \notin B
    BY <2>1, <2>3
  <2>9. SumFunction(Part(s \ {x})) = SumFunction(Part(s \cap E))
    BY <2>2, <2>7, <2>8
  <2>10. SumFunction(Part(s)) = SumFunction(Part(s \ {x}))
    <3> HIDE DEF Part, B
    <3> QED
      BY <2>4, <2>5, <2>6
  <2> QED
    BY <2>1, <2>9, <2>10
<1>2. SumFunction(Part(D)) = SumFunction(Part(D \cap E))
  BY <1>1
<1>3. Part(D) = f /\ D \cap E = E
  OBVIOUS
<1> QED
  BY <1>2, <1>3

\* What holds of nothing, and of a set whenever it holds without one element.
LEMMA ByElement ==
  ASSUME NEW D, IsFiniteSet(D), NEW I, {} \in I,
         \A s \in SUBSET D : \A x \in s : s \ {x} \in I => s \in I
  PROVE  D \in I
<1> DEFINE B == {s \in SUBSET D : s \notin I}
<1> SUFFICES ASSUME B # {} PROVE FALSE
  OBVIOUS
<1>1. PICK s \in B : \A t \in B : ~ (t \subseteq s /\ t # s)
  <2> HIDE DEF B
  <2>1. B \subseteq SUBSET D
    BY DEF B
  <2> QED
    BY <2>1, SmallestSet
<1>2. PICK x \in s : TRUE
  BY <1>1
<1>3. s \ {x} \in I
  BY <1>1, <1>2
<1> QED
  BY <1>1, <1>2, <1>3

LEMMA SumOn ==
  ASSUME NEW D, IsFiniteSet(D), NEW f \in [D -> Int], NEW s \in SUBSET D
  PROVE  /\ SumFunction(On(f, s)) \in Int
         /\ s = {} => SumFunction(On(f, s)) = 0
         /\ \A x \in s : SumFunction(On(f, s)) = f[x] + SumFunction(On(f, s \ {x}))
         /\ On(f, D) = f
<1>1. IsFiniteSet(s) /\ On(f, s) \in [s -> Int]
  BY FS_Subset DEF On
<1>2. SumFunction(On(f, s)) \in Int /\ (s = {} => SumFunction(On(f, s)) = 0)
  BY <1>1, SumFact
<1>3. ASSUME NEW x \in s PROVE SumFunction(On(f, s)) = f[x] + SumFunction(On(f, s \ {x}))
  <2> DEFINE p == On(f, s)
  <2>1. SumFunction(p) = p[x] + SumFunction(On(p, s \ {x}))
    <3>1. p \in [s -> Int]
      BY <1>1
    <3> HIDE DEF p
    <3> QED
      BY <1>1, <3>1, SumFact
  <2>2. p[x] = f[x] /\ On(p, s \ {x}) = On(f, s \ {x})
    BY DEF On
  <2> HIDE DEF p
  <2>3. SumFunction(p) = f[x] + SumFunction(On(f, s \ {x}))
    BY <2>1, <2>2
  <2> QED
    BY <2>3 DEF p
<1>4. On(f, D) = f
  BY DEF On
<1> QED
  BY <1>2, <1>3, <1>4

\* A sum taken in other terms.
LEMMA SumReindexed ==
  ASSUME NEW D, IsFiniteSet(D), NEW f \in [D -> Int], NEW E, IsFiniteSet(E), NEW h \in [E -> D],
         \A a, b \in E : h[a] = h[b] => a = b, \A d \in D : \E e \in E : h[e] = d
  PROVE  SumFunction([e \in E |-> f[h[e]]]) = SumFunction(f)
<1> DEFINE k == [e \in E |-> f[h[e]]]
           Image(s) == {h[e] : e \in s}
           I == {s \in SUBSET E : SumFunction(On(k, s)) = SumFunction(On(f, Image(s)))}
<1>1. k \in [E -> Int] /\ \A e \in E : k[e] = f[h[e]]
  OBVIOUS
<1> HIDE DEF k
<1>2. {} \in I
  <2>1. Image({}) = {}
    OBVIOUS
  <2>2. SumFunction(On(k, {})) = 0 /\ SumFunction(On(f, {})) = 0
    BY <1>1, SumOn
  <2> QED
    BY <2>1, <2>2
<1>3. ASSUME NEW s \in SUBSET E, NEW x \in s, s \ {x} \in I PROVE s \in I
  <2>1. Image(s) \in SUBSET D /\ h[x] \in Image(s)
    OBVIOUS
  <2>2. Image(s) \ {h[x]} = Image(s \ {x})
    OBVIOUS
  <2>3. SumFunction(On(k, s \ {x})) = SumFunction(On(f, Image(s \ {x})))
    BY <1>3
  <2> HIDE DEF Image
  <2>4. SumFunction(On(k, s)) = k[x] + SumFunction(On(k, s \ {x}))
    BY <1>1, SumOn
  <2>5. SumFunction(On(f, Image(s))) = f[h[x]] + SumFunction(On(f, Image(s) \ {h[x]}))
    BY <2>1, SumOn
  <2>6. k[x] = f[h[x]]
    BY <1>1
  <2>7. SumFunction(On(k, s)) = SumFunction(On(f, Image(s)))
    BY <2>2, <2>3, <2>4, <2>5, <2>6
  <2> QED
    BY <2>7
<1>4. E \in I
  <2> HIDE DEF I
  <2> QED
    BY <1>2, <1>3, ByElement
<1>5. Image(E) = D
  OBVIOUS
<1>6. On(k, E) = k /\ On(f, D) = f
  BY <1>1, SumOn
<1> QED
  BY <1>4, <1>5, <1>6 DEF k

\* The sums of a function's groups.
GroupSums(f, D, K, h) == [k \in K |-> SumFunction(On(f, {d \in D : h[d] = k}))]

\* A sum by groups: every element is in the group that h says.
LEMMA SumGrouped ==
  ASSUME NEW D, IsFiniteSet(D), NEW f \in [D -> Int], NEW K, IsFiniteSet(K), NEW h \in [D -> K]
  PROVE  SumFunction(f) = SumFunction(GroupSums(f, D, K, h))
<1> DEFINE Group(s, k) == {d \in s : h[d] = k}
           G(s) == [k \in K |-> SumFunction(On(f, Group(s, k)))]
           I == {s \in SUBSET D : SumFunction(On(f, s)) = SumFunction(G(s))}
<1>1. ASSUME NEW s \in SUBSET D
      PROVE  G(s) \in [K -> Int] /\ \A k \in K : G(s)[k] = SumFunction(On(f, Group(s, k)))
  <2>1. \A k \in K : SumFunction(On(f, Group(s, k))) \in Int
    <3> SUFFICES ASSUME NEW k \in K PROVE SumFunction(On(f, Group(s, k))) \in Int
      OBVIOUS
    <3>1. Group(s, k) \in SUBSET D
      OBVIOUS
    <3> HIDE DEF Group
    <3> QED
      BY <3>1, SumOn
  <2> HIDE DEF Group
  <2> QED
    BY <2>1
<1>2. {} \in I
  <2>1. \A k \in K : Group({}, k) = {}
    OBVIOUS
  <2>2. SumFunction(On(f, {})) = 0
    BY SumOn
  <2>3. G({}) \in [K -> Int] /\ \A k \in K : G({})[k] = 0
    <3> HIDE DEF G, Group
    <3> QED
      BY <1>1, <2>1, <2>2
  <2> DEFINE z == G({})
  <2>4. SumFunction(z) = 0
    <3> HIDE DEF z, G
    <3>1. z \in [K -> Int] /\ \A k \in K \ {} : z[k] = 0
      BY <2>3 DEF z
    <3>2. SumFunction(z) = SumFunction(On(z, {}))
      BY <3>1, SumZeros DEF On
    <3>3. SumFunction(On(z, {})) = 0
      BY <3>1, SumOn
    <3> QED
      BY <3>2, <3>3
  <2> HIDE DEF G
  <2> QED
    BY <2>2, <2>4
<1>3. ASSUME NEW s \in SUBSET D, NEW x \in s, s \ {x} \in I PROVE s \in I
  <2> DEFINE r == s \ {x}
             k0 == h[x]
             gs == G(s)
             gr == G(r)
  <2>0. r \in SUBSET D /\ k0 \in K /\ x \in Group(s, k0)
    OBVIOUS
  <2>1. Group(s, k0) \ {x} = Group(r, k0) /\ \A k \in K \ {k0} : Group(s, k) = Group(r, k)
    OBVIOUS
  <2>2. Group(s, k0) \in SUBSET D /\ Group(r, k0) \in SUBSET D
    OBVIOUS
  <2>3. /\ gs \in [K -> Int] /\ \A k \in K : gs[k] = SumFunction(On(f, Group(s, k)))
        /\ gr \in [K -> Int] /\ \A k \in K : gr[k] = SumFunction(On(f, Group(r, k)))
    <3> HIDE DEF G, Group, r
    <3> QED
      BY <1>1, <2>0
  <2>4. SumFunction(On(f, r)) = SumFunction(gr)
    BY <1>3
  <2> HIDE DEF Group, G, I, gs, gr
  <2>5. gs[k0] = f[x] + gr[k0]
    <3>1. SumFunction(On(f, Group(s, k0))) = f[x] + SumFunction(On(f, Group(s, k0) \ {x}))
      BY <2>0, <2>2, SumOn
    <3> QED
      BY <2>0, <2>1, <2>3, <3>1
  <2>6. On(gs, K \ {k0}) = On(gr, K \ {k0})
    BY <2>1, <2>3 DEF On
  <2>7. SumFunction(gs) = gs[k0] + SumFunction(On(gs, K \ {k0}))
    BY <2>0, <2>3, SumOn
  <2>8. SumFunction(gr) = gr[k0] + SumFunction(On(gr, K \ {k0})) /\ SumFunction(On(gr, K \ {k0})) \in Int
    BY <2>0, <2>3, SumOn
  <2>9. SumFunction(On(f, s)) = f[x] + SumFunction(On(f, r))
    BY SumOn
  <2>10. f[x] \in Int /\ gr[k0] \in Int
    BY <2>0, <2>3
  <2>11. SumFunction(On(f, s)) = SumFunction(gs)
    BY <2>4, <2>5, <2>6, <2>7, <2>8, <2>9, <2>10
  <2> QED
    BY <2>11 DEF I, gs
<1>4. D \in I
  <2> HIDE DEF I
  <2> QED
    BY <1>2, <1>3, ByElement
<1>5. On(f, D) = f /\ G(D) = GroupSums(f, D, K, h)
  BY SumOn DEF GroupSums
<1> QED
  BY <1>4, <1>5

\* Two sums, one in the other, in either order.
LEMMA SumSwapped ==
  ASSUME NEW D, IsFiniteSet(D), NEW K, IsFiniteSet(K), NEW f \in [D -> [K -> Int]]
  PROVE  SumFunction([k \in K |-> SumFunction([d \in D |-> f[d][k]])])
           = SumFunction([d \in D |-> SumFunction(f[d])])
<1> DEFINE p == [e \in D \X K |-> f[e[1]][e[2]]]
           first == [e \in D \X K |-> e[1]]
           second == [e \in D \X K |-> e[2]]
<1>1. IsFiniteSet(D \X K) /\ p \in [D \X K -> Int] /\ first \in [D \X K -> D] /\ second \in [D \X K -> K]
  BY FS_Product
<1>2. ASSUME NEW d \in D PROVE SumFunction(On(p, {e \in D \X K : first[e] = d})) = SumFunction(f[d])
  <2> DEFINE E == {e \in D \X K : first[e] = d}
             h == [k \in K |-> <<d, k>>]
             q == On(p, E)
  <2>1. IsFiniteSet(E) /\ q \in [E -> Int]
    <3>1. E \in SUBSET (D \X K)
      OBVIOUS
    <3> HIDE DEF E, p
    <3> QED
      BY <1>1, <3>1, FS_Subset DEF On
  <2>2. h \in [K -> E] /\ (\A a, b \in K : h[a] = h[b] => a = b) /\ \A e \in E : \E k \in K : h[k] = e
    OBVIOUS
  <2>3. [k \in K |-> q[h[k]]] = f[d]
    BY DEF On
  <2> HIDE DEF E, h, q
  <2>4. SumFunction([k \in K |-> q[h[k]]]) = SumFunction(q)
    BY <2>1, <2>2, SumReindexed
  <2> QED
    BY <2>3, <2>4 DEF q, E
<1>3. ASSUME NEW k \in K
      PROVE  SumFunction(On(p, {e \in D \X K : second[e] = k})) = SumFunction([d \in D |-> f[d][k]])
  <2> DEFINE E == {e \in D \X K : second[e] = k}
             h == [d \in D |-> <<d, k>>]
             q == On(p, E)
  <2>1. IsFiniteSet(E) /\ q \in [E -> Int]
    <3>1. E \in SUBSET (D \X K)
      OBVIOUS
    <3> HIDE DEF E, p
    <3> QED
      BY <1>1, <3>1, FS_Subset DEF On
  <2>2. h \in [D -> E] /\ (\A a, b \in D : h[a] = h[b] => a = b) /\ \A e \in E : \E d \in D : h[d] = e
    OBVIOUS
  <2>3. [d \in D |-> q[h[d]]] = [d \in D |-> f[d][k]]
    BY DEF On
  <2> HIDE DEF E, h, q
  <2>4. SumFunction([d \in D |-> q[h[d]]]) = SumFunction(q)
    BY <2>1, <2>2, SumReindexed
  <2> QED
    BY <2>3, <2>4 DEF q, E
<1> DEFINE Z == D \X K
<1>0. IsFiniteSet(Z) /\ p \in [Z -> Int] /\ first \in [Z -> D] /\ second \in [Z -> K]
  BY <1>1
<1> HIDE DEF p, first, second
<1>4. SumFunction(p) = SumFunction([d \in D |-> SumFunction(f[d])])
  <2>1. SumFunction(p) = SumFunction(GroupSums(p, Z, D, first))
    <3> HIDE DEF Z
    <3> QED
      BY <1>0, SumGrouped
  <2> QED
    BY <1>2, <2>1 DEF GroupSums
<1>5. SumFunction(p) = SumFunction([k \in K |-> SumFunction([d \in D |-> f[d][k]])])
  <2>1. SumFunction(p) = SumFunction(GroupSums(p, Z, K, second))
    <3> HIDE DEF Z
    <3> QED
      BY <1>0, SumGrouped
  <2> QED
    BY <1>3, <2>1 DEF GroupSums
<1> QED
  BY <1>4, <1>5

----------------------------------------------------------------------------
(* Orders and lists.                                                       *)

Increasing(s) == \A i, j \in DOMAIN s : i < j => s[i] < s[j]

\* The elements of a finite set of numbers, each once, the least first.
LEMMA AscendingFact ==
  ASSUME NEW S, S \subseteq Int, IsFiniteSet(S)
  PROVE  /\ Ascending(S) \in Seq(S) /\ Len(Ascending(S)) = Cardinality(S)
         /\ DOMAIN Ascending(S) = 1 .. Cardinality(S)
         /\ ToSet(Ascending(S)) = S /\ Increasing(Ascending(S))
         /\ Cardinality(S) \in Nat
<1> DEFINE N == Cardinality(S)
           Below(s) == {t \in S : t < s}
           rank == [s \in S |-> Cardinality(Below(s)) + 1]
           o == Ascending(S)
<1>0. N \in Nat
  BY FS_CardinalityType
<1>1. IsFiniteSet(1 .. N) /\ Cardinality(1 .. N) = N
  BY <1>0, FS_Interval
<1>2. ASSUME NEW s \in S PROVE rank[s] \in 1 .. N
  <2>1. IsFiniteSet(S \ {s}) /\ Cardinality(S \ {s}) = N - 1
    BY FS_RemoveElement
  <2>2. Below(s) \in SUBSET (S \ {s})
    OBVIOUS
  <2>3. IsFiniteSet(Below(s)) /\ Cardinality(Below(s)) <= N - 1
    BY <2>1, <2>2, FS_Subset
  <2>4. Cardinality(Below(s)) \in Nat
    BY <2>3, FS_CardinalityType
  <2> QED
    BY <1>0, <2>3, <2>4
<1>3. ASSUME NEW s \in S, NEW t \in S, s < t PROVE rank[s] < rank[t]
  <2>0. \A u \in S : u < s => u < t
    BY <1>3
  <2>1. s \in Below(t) /\ s \notin Below(s)
    BY <1>3
  <2>2. Below(s) \subseteq Below(t)
    BY <2>0
  <2>3. IsFiniteSet(Below(t)) /\ IsFiniteSet(Below(s))
    BY FS_Subset
  <2>4. Cardinality(Below(s)) # Cardinality(Below(t)) /\ Cardinality(Below(s)) <= Cardinality(Below(t))
    BY <2>1, <2>2, <2>3, FS_Subset
  <2>5. Cardinality(Below(s)) \in Nat /\ Cardinality(Below(t)) \in Nat
    BY <2>3, FS_CardinalityType
  <2> QED
    BY <2>4, <2>5
<1>4. rank \in Injection(S, 1 .. N)
  <2>1. rank \in [S -> 1 .. N]
    BY <1>2
  <2>2. \A s, t \in S : s = t \/ s < t \/ t < s
    OBVIOUS
  <2>3. \A s, t \in S : rank[s] = rank[t] => s = t
    <3> SUFFICES ASSUME NEW s \in S, NEW t \in S, rank[s] = rank[t], s # t PROVE FALSE
      OBVIOUS
    <3>1. rank[s] \in Int /\ rank[t] \in Int
      BY <1>0, <1>2
    <3> HIDE DEF rank
    <3> QED
      BY <1>3, <2>2, <3>1
  <2> HIDE DEF rank
  <2> QED
    BY <2>1, <2>3 DEF Injection, IsInjective
<1>5. rank \in Surjection(S, 1 .. N)
  BY <1>0, <1>1, <1>4, FS_Injection
<1>6. ASSUME NEW i \in 1 .. N PROVE o[i] \in S /\ rank[o[i]] = i
  <2>1. PICK s \in S : rank[s] = i
    BY <1>5 DEF Surjection
  <2>2. \A t \in S : Cardinality(Below(t)) \in Nat
    BY FS_Subset, FS_CardinalityType
  <2>3. Cardinality(Below(s)) = i - 1
    BY <2>1, <2>2
  <2>4. o[i] = CHOOSE t \in S : Cardinality(Below(t)) = i - 1
    BY DEF Ascending
  <2>5. o[i] \in S /\ Cardinality(Below(o[i])) = i - 1
    BY <2>3, <2>4
  <2> QED
    BY <2>5
<1>7. o \in Seq(S) /\ Len(o) = N /\ DOMAIN o = 1 .. N
  <2> DEFINE e(i) == CHOOSE s \in S : Cardinality({t \in S : t < s}) = i - 1
  <2>3. o = [i \in 1 .. N |-> e(i)]
    BY DEF Ascending
  <2> HIDE DEF o, e
  <2>1. DOMAIN o = 1 .. N /\ o = [i \in 1 .. N |-> o[i]]
    BY <2>3
  <2>2. o \in [1 .. N -> S]
    BY <1>6, <2>1
  <2> QED
    BY <1>0, <2>1, <2>2
<1>8. Increasing(o)
  <2> SUFFICES ASSUME NEW i \in 1 .. N, NEW j \in 1 .. N, i < j PROVE o[i] < o[j]
    BY <1>7 DEF Increasing
  <2>1. o[i] \in S /\ o[j] \in S /\ rank[o[i]] = i /\ rank[o[j]] = j
    BY <1>6
  <2>4. o[i] \in Int /\ o[j] \in Int
    BY <2>1
  <2> HIDE DEF o, rank
  <2>2. o[i] # o[j]
    BY <2>1
  <2>3. ~ (o[j] < o[i])
    <3>1. o[j] < o[i] => rank[o[j]] < rank[o[i]]
      BY <1>3, <2>1
    <3> QED
      BY <2>1, <3>1
  <2> QED
    BY <2>2, <2>3, <2>4
<1>9. ToSet(o) = S
  <2>1. \A s \in S : rank[s] \in 1 .. N /\ o[rank[s]] \in S /\ rank[o[rank[s]]] = rank[s]
    BY <1>2, <1>6
  <2>2. \A s, t \in S : rank[s] = rank[t] => s = t
    BY <1>4 DEF Injection, IsInjective
  <2> HIDE DEF o, rank
  <2>3. \A s \in S : o[rank[s]] = s
    BY <2>1, <2>2
  <2>4. DOMAIN o = 1 .. N
    BY <1>7
  <2>5. \A i \in 1 .. N : o[i] \in S
    BY <1>6
  <2> HIDE DEF N
  <2> QED
    BY <2>1, <2>3, <2>4, <2>5 DEF ToSet
<1> HIDE DEF o
<1> QED
  BY <1>0, <1>7, <1>8, <1>9 DEF o

\* What Keeping keeps, and where it stood.
LEMMA KeepingFact ==
  ASSUME NEW T, NEW s \in Seq(T), NEW S
  PROVE  /\ Keeping(s, S) \in Seq(T)
         /\ ToSet(Keeping(s, S)) = ToSet(s) \cap S
         /\ \E at \in Seq(DOMAIN s) : Increasing(at) /\ DOMAIN at = DOMAIN Keeping(s, S)
              /\ ToSet(at) = {i \in DOMAIN s : s[i] \in S}
              /\ \A i \in DOMAIN at : Keeping(s, S)[i] = s[at[i]]
<1> DEFINE I == {i \in DOMAIN s : s[i] \in S}
           at == Ascending(I)
<1>1. I \subseteq Int /\ IsFiniteSet(I) /\ DOMAIN s = 1 .. Len(s)
  <2>1. DOMAIN s = 1 .. Len(s) /\ Len(s) \in Nat
    OBVIOUS
  <2>2. IsFiniteSet(1 .. Len(s))
    BY <2>1, FS_Interval
  <2>3. I \in SUBSET (1 .. Len(s))
    BY <2>1
  <2> QED
    BY <2>1, <2>2, <2>3, FS_Subset
<1>2. at \in Seq(I) /\ ToSet(at) = I /\ Increasing(at)
  <2> HIDE DEF I
  <2> QED
    BY <1>1, AscendingFact
<1>3. Keeping(s, S) = [i \in DOMAIN at |-> s[at[i]]]
  BY DEF Keeping
<1> HIDE DEF at
<1>4. DOMAIN at = 1 .. Len(at) /\ Len(at) \in Nat /\ \A i \in DOMAIN at : at[i] \in I
  <2> HIDE DEF I
  <2> QED
    BY <1>2
<1>5. \A i \in DOMAIN at : s[at[i]] \in T /\ s[at[i]] \in ToSet(s) \cap S
  BY <1>4 DEF ToSet
<1>6. Keeping(s, S) \in Seq(T)
  BY <1>3, <1>4, <1>5
<1>7. ToSet(Keeping(s, S)) = ToSet(s) \cap S
  <2>1. ToSet(Keeping(s, S)) \subseteq ToSet(s) \cap S
    BY <1>3, <1>5 DEF ToSet
  <2>2. ASSUME NEW x \in ToSet(s) \cap S PROVE x \in ToSet(Keeping(s, S))
    <3>1. PICK i \in I : s[i] = x
      BY DEF ToSet
    <3>2. PICK j \in DOMAIN at : at[j] = i
      <4> HIDE DEF I
      <4> QED
        BY <1>2, <3>1 DEF ToSet
    <3> QED
      BY <1>3, <3>1, <3>2 DEF ToSet
  <2> QED
    BY <2>1, <2>2
<1>8. at \in Seq(DOMAIN s)
  <2>1. \A i \in DOMAIN at : at[i] \in DOMAIN s
    BY <1>4
  <2>2. at \in Seq(I)
    BY <1>2
  <2> QED
    BY <1>4, <2>1, <2>2
<1> QED
  BY <1>2, <1>3, <1>6, <1>7, <1>8

\* What is in order has each element once.
LEMMA IncreasingFact ==
  ASSUME NEW s \in Seq(Int), Increasing(s)
  PROVE  /\ \A i, j \in DOMAIN s : s[i] = s[j] => i = j
         /\ \A i, j \in DOMAIN s : s[i] < s[j] => i < j
         /\ \A i, j \in DOMAIN s : i <= j => s[i] <= s[j]
<1>1. DOMAIN s \subseteq Int /\ \A i \in DOMAIN s : s[i] \in Int
  OBVIOUS
<1>2. \A i, j \in DOMAIN s : i < j \/ j < i \/ i = j
  BY <1>1
<1> QED
  BY <1>1, <1>2 DEF Increasing

----------------------------------------------------------------------------
(* Time: buckets and the chart's clock.                                    *)

\* Division: a number lies in the stretch of w that its quotient says.
LEMMA DivisionFact ==
  ASSUME NEW a \in Int, NEW w \in Nat \ {0}
  PROVE  /\ a \div w \in Int /\ a % w \in 0 .. w - 1 /\ a = (a \div w) * w + (a % w)
         /\ (a \div w) * w <= a /\ a < (a \div w) * w + w
<1>1. /\ a \div w \in Int /\ a % w \in 0 .. w - 1 /\ a = (a \div w) * w + (a % w)
  OBVIOUS
<1> QED
  BY <1>1

LEMMA QuotientFact ==
  ASSUME NEW p \in Int, NEW a \in Int, NEW w \in Nat \ {0}
  PROVE  /\ (p * w) \div w = p /\ (p * w) % w = 0
         /\ p * w <= a /\ a < p * w + w => a \div w = p
  OBVIOUS

\* Multiples of w are at least w apart.
LEMMA MultiplesApart ==
  ASSUME NEW w \in Nat \ {0}, NEW a \in Int, NEW b \in Int, a % w = 0, b % w = 0, a < b
  PROVE  a + w <= b /\ a \div w < b \div w
<1> DEFINE p == a \div w
           q == b \div w
<1>1. p \in Int /\ q \in Int /\ a = p * w /\ b = q * w
  BY DivisionFact
<1> HIDE DEF p, q
<1>2. p < q
  <2> SUFFICES ASSUME q <= p PROVE FALSE
    BY <1>1
  <2>1. q * w <= p * w
    BY <1>1
  <2> QED
    BY <1>1, <2>1
<1>3. p * w + w <= q * w
  BY <1>1, <1>2
<1> QED
  BY <1>1, <1>2, <1>3 DEF p, q

W == BucketWidth

\* The rung chosen is one of the ladder, and a whole number of milliseconds.
LEMMA WidthFact == W \in Ladder /\ W \in Nat \ {0} /\ W % NsPerMs = 0 /\ NsPerMs \in Nat \ {0}
<1> DEFINE L == {w \in Ladder : (Window.end - Window.start) \div w <= Buckets}
<1>1. L \subseteq Nat /\ L # {}
  BY ReductionAssumption
<1>2. W = Min(L)
  BY DEF W, BucketWidth
<1>3. W \in L
  <2> HIDE DEF L
  <2>1. PICK n \in L : \A i \in L : n <= i
    BY <1>1, LeastNumber
  <2> QED
    BY <1>2, <2>1 DEF Min
<1> QED
  BY <1>3, ReductionAssumption, ClockAssumption

\* A bucket holds the instants from its start to before the next.
LEMMA StartFact ==
  ASSUME NEW t \in Int
  PROVE  /\ BucketStart(t) \in Int /\ BucketStart(t) % W = 0
         /\ BucketStart(t) <= t /\ t < BucketStart(t) + W
         /\ \A b \in Int : b % W = 0 /\ b <= t /\ t < b + W => BucketStart(t) = b
<1>1. W \in Nat \ {0} /\ BucketStart(t) = (t \div W) * W
  BY WidthFact DEF BucketStart, W
<1>2. t \div W \in Int /\ (t \div W) * W <= t /\ t < (t \div W) * W + W
  BY <1>1, DivisionFact
<1>3. ((t \div W) * W) % W = 0
  BY <1>1, <1>2, QuotientFact
<1>4. ASSUME NEW b \in Int, b % W = 0, b <= t, t < b + W PROVE BucketStart(t) = b
  <2>1. b \div W \in Int /\ b = (b \div W) * W
    BY <1>1, <1>4, DivisionFact
  <2>2. t \div W = b \div W
    BY <1>1, <1>4, <2>1, QuotientFact
  <2> QED
    BY <1>1, <2>1, <2>2
<1> QED
  BY <1>1, <1>2, <1>3, <1>4

\* The clock keeps the order of instants, and tells bucket starts apart.
LEMMA ClockFact ==
  /\ \A t \in Int : Ms(t) \in Int /\ Ms(t) * NsPerMs <= t /\ t < Ms(t) * NsPerMs + NsPerMs
  /\ \A s, t \in Int : s <= t => Ms(s) <= Ms(t)
  /\ \A ms \in Int : ms * NsPerMs \in Int /\ Ms(ms * NsPerMs) = ms
  /\ \A b \in Int : b % W = 0 => b = Ms(b) * NsPerMs
<1>0. NsPerMs \in Nat \ {0} /\ W \in Nat \ {0} /\ W % NsPerMs = 0
  BY WidthFact
<1>1. \A t \in Int : Ms(t) \in Int /\ Ms(t) * NsPerMs <= t /\ t < Ms(t) * NsPerMs + NsPerMs
  BY <1>0, DivisionFact DEF Ms
<1>2. ASSUME NEW s \in Int, NEW t \in Int, s <= t PROVE Ms(s) <= Ms(t)
  <2> DEFINE p == Ms(s)
             q == Ms(t)
  <2>1. p \in Int /\ q \in Int /\ p * NsPerMs <= s /\ t < q * NsPerMs + NsPerMs
    BY <1>1
  <2> HIDE DEF p, q
  <2>2. p * NsPerMs < q * NsPerMs + NsPerMs
    BY <1>0, <1>2, <2>1
  <2>3. p <= q
    <3> SUFFICES ASSUME q < p PROVE FALSE
      BY <2>1
    <3>1. q * NsPerMs + NsPerMs <= p * NsPerMs
      BY <1>0, <2>1
    <3> QED
      BY <1>0, <2>1, <2>2, <3>1
  <2> QED
    BY <2>3 DEF p, q
<1>3. \A ms \in Int : ms * NsPerMs \in Int /\ Ms(ms * NsPerMs) = ms
  BY <1>0, QuotientFact DEF Ms
<1>4. ASSUME NEW b \in Int, b % W = 0 PROVE b = Ms(b) * NsPerMs
  <2>1. PICK q \in Int : b = q * W
    BY <1>0, <1>4, DivisionFact
  <2>2. PICK c \in Int : W = c * NsPerMs
    BY <1>0, DivisionFact
  <2>3. q * (c * NsPerMs) = (q * c) * NsPerMs /\ q * c \in Int
    BY <1>0
  <2>4. b = (q * c) * NsPerMs
    BY <2>1, <2>2, <2>3
  <2> QED
    BY <1>3, <2>3, <2>4
<1> QED
  BY <1>1, <1>2, <1>3, <1>4

----------------------------------------------------------------------------
(* Samples, rows and columns.                                              *)

\* The images of a finite set are finitely many.
LEMMA ImageFinite ==
  ASSUME NEW D, IsFiniteSet(D), NEW f, DOMAIN f = D
  PROVE  IsFiniteSet({f[d] : d \in D})
<1> DEFINE T == {f[d] : d \in D}
           g == [d \in D |-> f[d]]
<1>1. g \in Surjection(D, T)
  BY DEF Surjection
<1> HIDE DEF g, T
<1> QED
  BY <1>1, FS_Surjection DEF T

\* The elements of a list are finitely many.
LEMMA ListFinite ==
  ASSUME NEW T, NEW s \in Seq(T)
  PROVE  IsFiniteSet(ToSet(s)) /\ IsFiniteSet(DOMAIN s) /\ ToSet(s) \subseteq T
<1>1. DOMAIN s = 1 .. Len(s) /\ Len(s) \in Nat
  OBVIOUS
<1>2. IsFiniteSet(DOMAIN s)
  BY <1>1, FS_Interval
<1> QED
  BY <1>2, ImageFinite DEF ToSet

LEMMA KeysFact ==
  ASSUME NEW x \in Metrics
  PROVE  /\ KeySeq(x) \in Seq(Keys(x)) /\ ToSet(KeySeq(x)) = Keys(x) /\ IsFiniteSet(Keys(x))
         /\ \A i, j \in DOMAIN KeySeq(x) : KeySeq(x)[i] = KeySeq(x)[j] => i = j
         /\ Keys(x) \cap AggKeys = {}
<1>1. Samples[x] \in Seq(ToSet(Samples[x])) /\ IsInjective(KeySeq(x))
  BY SamplesAssumption
<1>2. DOMAIN KeySeq(x) = 1 .. Len(Samples[x]) /\ Len(Samples[x]) \in Nat
  BY <1>1 DEF KeySeq
<1>3. KeySeq(x) \in Seq(Keys(x))
  <2>1. \A i \in DOMAIN KeySeq(x) : KeySeq(x)[i] \in Keys(x)
    BY DEF Keys, ToSet
  <2>2. KeySeq(x) = [i \in 1 .. Len(Samples[x]) |-> KeySeq(x)[i]]
    BY <1>2 DEF KeySeq
  <2> QED
    BY <1>2, <2>1, <2>2
<1>4. IsFiniteSet(Keys(x))
  BY <1>3, ListFinite DEF Keys
<1> QED
  BY <1>1, <1>3, <1>4, ClockAssumption DEF Keys, IsInjective

LEMMA DpsFact ==
  ASSUME NEW x \in Metrics, NEW k \in Keys(x)
  PROVE  /\ Dps(x, k) \in Seq([t : Window.start .. Window.end, v : Value(x)])
         /\ DOMAIN Dps(x, k) = 1 .. Len(Dps(x, k)) /\ Len(Dps(x, k)) \in Nat \ {0}
         /\ IsFiniteSet(DOMAIN Dps(x, k))
         /\ \A i \in DOMAIN Dps(x, k) :
              /\ Dps(x, k)[i].t \in Nat /\ Dps(x, k)[i].v \in Value(x)
              /\ Window.start <= Dps(x, k)[i].t /\ Dps(x, k)[i].t <= Window.end
         /\ \A i, j \in DOMAIN Dps(x, k) : i <= j => Dps(x, k)[i].t <= Dps(x, k)[j].t
<1> DEFINE d == Dps(x, k)
           V == Value(x)
<1>1. /\ d \in Seq([t : Window.start .. Window.end, v : V]) /\ d # <<>>
      /\ \A i, j \in DOMAIN d : i < j => d[i].t <= d[j].t
  BY SamplesAssumption
<1>2. Window.start \in Nat /\ Window.end \in Nat
  BY ReductionAssumption
<1> HIDE DEF d, V
<1>3. DOMAIN d = 1 .. Len(d) /\ Len(d) \in Nat \ {0}
  BY <1>1
<1>4. \A i \in DOMAIN d : d[i] \in [t : Window.start .. Window.end, v : V]
  <2> DEFINE R == [t : Window.start .. Window.end, v : V]
  <2>1. d \in Seq(R)
    BY <1>1
  <2> HIDE DEF R
  <2>2. \A i \in DOMAIN d : d[i] \in R
    BY <2>1
  <2> QED
    BY <2>2 DEF R
<1>5. \A i \in DOMAIN d : d[i].t \in Nat /\ d[i].v \in V /\ Window.start <= d[i].t /\ d[i].t <= Window.end
  BY <1>2, <1>4
<1>6. \A i, j \in DOMAIN d : i <= j => d[i].t <= d[j].t
  <2> SUFFICES ASSUME NEW i \in DOMAIN d, NEW j \in DOMAIN d, i <= j PROVE d[i].t <= d[j].t
    OBVIOUS
  <2>1. i < j \/ i = j
    BY <1>3
  <2> QED
    BY <1>1, <1>5, <2>1
<1>7. IsFiniteSet(DOMAIN d)
  BY <1>1, ListFinite
<1> QED
  BY <1>1, <1>3, <1>5, <1>6, <1>7 DEF d, V

\* What an answer for a bucket is made of: null, or a number.
Opt == {o \in SUBSET Int : o = {} \/ \E v \in Int : o = {v}}
Slope == SUBSET (Int \X Int)
Row == [at : Int, n : Nat, sum : Opt, avg : Opt, rate : Opt, slope : Slope]
Point == [ms : Int, v : Int, slope : Slope]

LEMMA OptFact ==
  /\ {} \in Opt /\ \A v \in Int : {v} \in Opt
  /\ \A o \in Opt : o # {} => (CHOOSE v \in o : TRUE) \in Int /\ o = {CHOOSE v \in o : TRUE}
<1>1. {} \in Opt /\ \A v \in Int : {v} \in Opt
  BY DEF Opt
<1>2. ASSUME NEW o \in Opt, o # {}
      PROVE  (CHOOSE v \in o : TRUE) \in Int /\ o = {CHOOSE v \in o : TRUE}
  <2>1. PICK v \in Int : o = {v}
    BY <1>2 DEF Opt
  <2>2. (CHOOSE u \in o : TRUE) \in o
    BY <1>2
  <2> QED
    BY <2>1, <2>2
<1> QED
  BY <1>1, <1>2

\* A sum over numbers is null or a number, and null exactly over nothing.
LEMMA NullableFact ==
  ASSUME NEW D, IsFiniteSet(D), NEW f \in [D -> Int]
  PROVE  Nullable(f) \in Opt /\ (Nullable(f) = {} <=> D = {}) /\ (D # {} => Nullable(f) = {SumFunction(f)})
  BY SumFact, OptFact DEF Nullable

\* A sum of numbers that are not negative is not less than any of them.
LEMMA SumNat ==
  ASSUME NEW D, IsFiniteSet(D), NEW f \in [D -> Nat]
  PROVE  SumFunction(f) \in Nat /\ \A d \in D : f[d] <= SumFunction(f)
<1> DEFINE I == {s \in SUBSET D : SumFunction(On(f, s)) \in Nat}
<1>0. f \in [D -> Int]
  OBVIOUS
<1>1. {} \in I
  BY <1>0, SumOn
<1>2. ASSUME NEW s \in SUBSET D, NEW x \in s, s \ {x} \in I PROVE s \in I
  <2>1. SumFunction(On(f, s)) = f[x] + SumFunction(On(f, s \ {x}))
    BY <1>0, SumOn
  <2>2. SumFunction(On(f, s)) \in Nat
    BY <1>2, <2>1
  <2> QED
    BY <2>2
<1>3. ASSUME NEW s \in SUBSET D PROVE s \in I
  <2>1. IsFiniteSet(s)
    BY FS_Subset
  <2> HIDE DEF I
  <2>2. \A u \in SUBSET s : \A x \in u : u \ {x} \in I => u \in I
    BY <1>2
  <2> QED
    BY <1>1, <2>1, <2>2, ByElement
<1>4. On(f, D) = f
  BY <1>0, SumOn
<1>5. ASSUME NEW d \in D PROVE f[d] <= SumFunction(f)
  <2>1. SumFunction(On(f, D)) = f[d] + SumFunction(On(f, D \ {d}))
    BY <1>0, SumOn
  <2>2. SumFunction(On(f, D \ {d})) \in Nat
    BY <1>3
  <2> QED
    BY <1>4, <2>1, <2>2
<1>6. SumFunction(f) \in Nat
  BY <1>3, <1>4
<1> QED
  BY <1>5, <1>6

\* A sum of differences is the difference of the sums, and keeps their order.
LEMMA SumLess ==
  ASSUME NEW D, IsFiniteSet(D), NEW f \in [D -> Int], NEW g \in [D -> Int]
  PROVE  /\ SumFunction([d \in D |-> f[d] - g[d]]) = SumFunction(f) - SumFunction(g)
         /\ (\A d \in D : g[d] <= f[d]) => SumFunction(g) <= SumFunction(f)
<1> DEFINE p == [d \in D |-> f[d] - g[d]]
           I == {s \in SUBSET D : SumFunction(On(p, s)) = SumFunction(On(f, s)) - SumFunction(On(g, s))}
<1>1. p \in [D -> Int] /\ \A d \in D : p[d] = f[d] - g[d]
  OBVIOUS
<1> HIDE DEF p
<1>2. {} \in I
  <2>1. SumFunction(On(p, {})) = 0 /\ SumFunction(On(f, {})) = 0 /\ SumFunction(On(g, {})) = 0
    BY <1>1, SumOn
  <2> QED
    BY <2>1
<1>3. ASSUME NEW s \in SUBSET D, NEW x \in s, s \ {x} \in I PROVE s \in I
  <2>1. /\ SumFunction(On(p, s)) = p[x] + SumFunction(On(p, s \ {x}))
        /\ SumFunction(On(f, s)) = f[x] + SumFunction(On(f, s \ {x}))
        /\ SumFunction(On(g, s)) = g[x] + SumFunction(On(g, s \ {x}))
    BY <1>1, SumOn
  <2>2. /\ SumFunction(On(f, s \ {x})) \in Int /\ SumFunction(On(g, s \ {x})) \in Int
        /\ x \in D /\ f[x] \in Int /\ g[x] \in Int
    BY SumOn
  <2>3. SumFunction(On(p, s \ {x})) = SumFunction(On(f, s \ {x})) - SumFunction(On(g, s \ {x}))
    BY <1>3
  <2> QED
    BY <1>1, <2>1, <2>2, <2>3
<1>4. D \in I
  <2> HIDE DEF I
  <2> QED
    BY <1>2, <1>3, ByElement
<1>5. On(p, D) = p /\ On(f, D) = f /\ On(g, D) = g
  BY <1>1, SumOn
<1>6. SumFunction(p) = SumFunction(f) - SumFunction(g)
  BY <1>4, <1>5
<1>7. ASSUME \A d \in D : g[d] <= f[d] PROVE SumFunction(g) <= SumFunction(f)
  <2>1. p \in [D -> Nat]
    BY <1>1, <1>7
  <2>2. SumFunction(p) \in Nat
    BY <2>1, SumNat
  <2>3. SumFunction(f) \in Int /\ SumFunction(g) \in Int
    BY SumFact
  <2> QED
    BY <1>6, <2>2, <2>3
<1> QED
  BY <1>6, <1>7 DEF p

\* A sum falls into that over a part and that over the rest.
LEMMA SumParted ==
  ASSUME NEW D, IsFiniteSet(D), NEW f \in [D -> Int], NEW E \in SUBSET D
  PROVE  SumFunction(f) = SumFunction(On(f, D \ E)) + SumFunction(On(f, E))
<1> DEFINE p == [d \in D |-> IF d \in E THEN 0 ELSE f[d]]
           q == [d \in D |-> f[d] - p[d]]
<1>1. p \in [D -> Int] /\ q \in [D -> Int]
  OBVIOUS
<1>2. On(p, D \ E) = On(f, D \ E) /\ \A d \in D \ (D \ E) : p[d] = 0
  BY DEF On
<1>3. On(q, E) = On(f, E) /\ \A d \in D \ E : q[d] = 0
  BY DEF On
<1> HIDE DEF p
<1>4. SumFunction(q) = SumFunction(f) - SumFunction(p)
  BY <1>1, SumLess
<1> HIDE DEF q
<1>5. SumFunction(p) = SumFunction(On(p, D \ E))
  BY <1>1, <1>2, SumZeros DEF On
<1>6. SumFunction(q) = SumFunction(On(q, E))
  BY <1>1, <1>3, SumZeros DEF On
<1>7. SumFunction(f) \in Int /\ SumFunction(p) \in Int /\ SumFunction(q) \in Int
  BY <1>1, SumFact
<1> QED
  BY <1>2, <1>3, <1>4, <1>5, <1>6, <1>7

Scalars == {x \in Metrics : ~IsHistogram(x)}

LEMMA DeltaFact ==
  ASSUME NEW x \in Scalars, NEW k \in Keys(x), NEW i \in DOMAIN Dps(x, k), i # 1
  PROVE  Delta(x, k, i) \in Int
<1>1. x \in Metrics /\ Value(x) = Int
  BY DEF Scalars, Value
<1>2. i - 1 \in DOMAIN Dps(x, k)
  BY <1>1, DpsFact
<1>3. Dps(x, k)[i].v \in Int /\ Dps(x, k)[i - 1].v \in Int
  BY <1>1, <1>2, DpsFact
<1> QED
  BY <1>3 DEF Delta

\* The samples of a bucket.
Here(x, k, b) == {i \in DOMAIN Dps(x, k) : BucketStart(Dps(x, k)[i].t) = b}

LEMMA ViewRowFact ==
  ASSUME NEW x \in Scalars, NEW k \in Keys(x), NEW b \in Int
  PROVE  /\ ViewRow(x, k, b) \in Row /\ ViewRow(x, k, b).at = b /\ ViewRow(x, k, b).slope = {}
         /\ ViewRow(x, k, b).n = Cardinality(Here(x, k, b))
         /\ (ViewRow(x, k, b).n = 0 <=> Here(x, k, b) = {})
         /\ ViewRow(x, k, b).n = 0 => ViewRow(x, k, b).sum = {} /\ ViewRow(x, k, b).rate = {}
<1> DEFINE here == Here(x, k, b)
           f == [i \in here |-> Dps(x, k)[i].v]
           g == [i \in here \ {1} |-> Delta(x, k, i)]
           sum == Nullable(f)
           rate == Nullable(g)
           avg == {v \div Cardinality(here) : v \in sum}
<1>1. x \in Metrics /\ Value(x) = Int
  BY DEF Scalars, Value
<1>2. IsFiniteSet(here) /\ IsFiniteSet(here \ {1})
  <2>1. here \in SUBSET (DOMAIN Dps(x, k)) /\ here \ {1} \in SUBSET (DOMAIN Dps(x, k))
    BY DEF Here
  <2> HIDE DEF here
  <2> QED
    BY <1>1, <2>1, DpsFact, FS_Subset
<1>3. f \in [here -> Int] /\ g \in [here \ {1} -> Int]
  BY <1>1, DpsFact, DeltaFact DEF Here
<1> HIDE DEF f, g
<1>4. sum \in Opt /\ (sum = {} <=> here = {}) /\ rate \in Opt /\ (here = {} => rate = {})
  <2>1. sum \in Opt /\ (sum = {} <=> here = {})
    BY <1>2, <1>3, NullableFact
  <2>2. rate \in Opt /\ (rate = {} <=> here \ {1} = {})
    BY <1>2, <1>3, NullableFact
  <2> QED
    BY <2>1, <2>2
<1>5. Cardinality(here) \in Nat /\ (Cardinality(here) = 0 <=> here = {})
  BY <1>2, FS_CardinalityType, FS_EmptySet
<1>6. avg \in Opt
  <2>1. CASE sum = {}
    <3>1. avg = {}
      BY <2>1
    <3> HIDE DEF avg
    <3> QED
      BY <3>1, OptFact
  <2>2. CASE sum # {}
    <3>1. PICK v \in Int : sum = {v}
      BY <1>4, <2>2, OptFact
    <3>2. Cardinality(here) \in Nat \ {0}
      BY <1>4, <1>5, <2>2
    <3>3. avg = {v \div Cardinality(here)} /\ v \div Cardinality(here) \in Int
      BY <3>1, <3>2
    <3> HIDE DEF avg
    <3> QED
      BY <3>3, OptFact
  <2> QED
    BY <2>1, <2>2
<1>7. ViewRow(x, k, b) = [at |-> b, n |-> Cardinality(here), sum |-> sum, avg |-> avg, rate |-> rate, slope |-> {}]
  BY DEF ViewRow, Here, f, g
<1> HIDE DEF sum, rate, avg
<1> QED
  BY <1>4, <1>5, <1>6, <1>7 DEF Row, Slope

\* The buckets of a series: whole ones, from its first sample to its last.
LEMMA SpineFact ==
  ASSUME NEW x \in Metrics, NEW k \in Keys(x)
  PROVE  /\ Spine(x, k) \subseteq Int /\ IsFiniteSet(Spine(x, k)) /\ \A b \in Spine(x, k) : b % W = 0
         /\ \A i \in DOMAIN Dps(x, k) : BucketStart(Dps(x, k)[i].t) \in Spine(x, k)
         /\ \A b \in Spine(x, k) : /\ \E i \in DOMAIN Dps(x, k) : BucketStart(Dps(x, k)[i].t) <= b
                                   /\ \E i \in DOMAIN Dps(x, k) : b <= BucketStart(Dps(x, k)[i].t)
         /\ \A b \in Int : b % W = 0 /\ (\E i \in DOMAIN Dps(x, k) : BucketStart(Dps(x, k)[i].t) <= b)
                             /\ (\E i \in DOMAIN Dps(x, k) : b <= BucketStart(Dps(x, k)[i].t)) => b \in Spine(x, k)
<1> DEFINE D == DOMAIN Dps(x, k)
<1>1. \A i \in D : Dps(x, k)[i].t \in Int
  <2>1. \A i \in D : Dps(x, k)[i].t \in Nat
    BY DpsFact
  <2> QED
    BY <2>1
<1>3. IsFiniteSet(D) /\ D # {}
  <2>1. IsFiniteSet(D) /\ D = 1 .. Len(Dps(x, k)) /\ Len(Dps(x, k)) \in Nat \ {0}
    BY DpsFact
  <2>2. 1 \in 1 .. Len(Dps(x, k))
    BY <2>1
  <2> QED
    BY <2>1, <2>2
<1> DEFINE f == [i \in D |-> BucketStart(Dps(x, k)[i].t)]
           S == {f[i] : i \in D}
<1>2. \A i \in D : f[i] \in Int /\ f[i] % W = 0
  BY <1>1, StartFact
<1>4. Spine(x, k) = {b \in Min(S) .. Max(S) : b % W = 0}
  <2>1. S = {BucketStart(Dps(x, k)[i].t) : i \in DOMAIN Dps(x, k)}
    OBVIOUS
  <2> QED
    BY <2>1 DEF Spine, W
<1> DEFINE starts == S
<1>0. \A i \in D : f[i] = BucketStart(Dps(x, k)[i].t)
  OBVIOUS
<1>5. S \subseteq Int /\ IsFiniteSet(S) /\ S # {}
  <2>1. DOMAIN f = D
    OBVIOUS
  <2> HIDE DEF f, D
  <2> QED
    BY <1>2, <1>3, <2>1, ImageFinite
<1>6. /\ Max(S) \in S /\ \A s \in S : s <= Max(S)
      /\ Min(S) \in S /\ \A s \in S : Min(S) <= s
  <2> HIDE DEF S
  <2> QED
    BY <1>5, Extremes
<1>7. \A i \in D : f[i] \in S
  OBVIOUS
<1>8. \A s \in S : \E i \in D : s = f[i]
  OBVIOUS
<1> HIDE DEF S, D, f
<1>9. Spine(x, k) \subseteq Int /\ \A b \in Spine(x, k) : b % W = 0
  BY <1>4, <1>5, <1>6
<1>10. IsFiniteSet(Spine(x, k))
  <2>1. IsFiniteSet(Min(S) .. Max(S))
    BY <1>5, <1>6, FS_Interval
  <2>2. Spine(x, k) \in SUBSET (Min(S) .. Max(S))
    BY <1>4
  <2> QED
    BY <2>1, <2>2, FS_Subset
<1>11. \A i \in D : f[i] \in Spine(x, k)
  BY <1>2, <1>4, <1>5, <1>6, <1>7
<1>12. ASSUME NEW b \in Spine(x, k) PROVE (\E i \in D : f[i] <= b) /\ \E i \in D : b <= f[i]
  BY <1>4, <1>6, <1>8
<1>13. ASSUME NEW b \in Int, b % W = 0, NEW i \in D, NEW j \in D, f[i] <= b, b <= f[j]
       PROVE  b \in Spine(x, k)
  <2>1. f[i] \in S /\ f[j] \in S
    BY <1>7
  <2>2. Min(S) <= f[i] /\ f[j] <= Max(S) /\ Min(S) \in Int /\ Max(S) \in Int /\ f[i] \in Int /\ f[j] \in Int
    BY <1>5, <1>6, <2>1
  <2>3. b \in Min(S) .. Max(S)
    BY <1>13, <2>2
  <2> QED
    BY <1>4, <1>13, <2>3
<1> QED
  BY <1>0, <1>9, <1>10, <1>11, <1>12, <1>13 DEF D

LEMMA DrawnRateFact ==
  ASSUME NEW r \in Row
  PROVE  DrawnRate(r) \in Opt
  BY OptFact DEF DrawnRate, Row

\* The slopes change nothing else, and only a drawn point has one.
LEMMA SlopesFact ==
  ASSUME NEW rows \in Seq(Row)
  PROVE  /\ WithSlopes(rows) \in Seq(Row) /\ DOMAIN WithSlopes(rows) = DOMAIN rows
         /\ \A i \in DOMAIN rows :
              /\ WithSlopes(rows)[i] = [rows[i] EXCEPT !.slope = WithSlopes(rows)[i].slope]
              /\ WithSlopes(rows)[i].slope # {} => DrawnRate(rows[i]) # {}
<1> DEFINE Before(i) == {j \in 1 .. i - 1 : DrawnRate(rows[j]) # {}}
           p(i) == rows[Max(Before(i))]
           T(i) == {<<v - u, rows[i].at - p(i).at>> : v \in DrawnRate(rows[i]), u \in DrawnRate(p(i))}
           S(i) == IF Before(i) = {} THEN {} ELSE T(i)
<1>1. WithSlopes(rows) = [i \in DOMAIN rows |-> [rows[i] EXCEPT !.slope = S(i)]]
  BY DEF WithSlopes
<1>2. DOMAIN rows = 1 .. Len(rows) /\ Len(rows) \in Nat /\ \A i \in DOMAIN rows : rows[i] \in Row
  OBVIOUS
<1>3. ASSUME NEW i \in DOMAIN rows
      PROVE  S(i) \in Slope /\ (S(i) # {} => DrawnRate(rows[i]) # {})
  <2>1. DrawnRate(rows[i]) \subseteq Int /\ rows[i].at \in Int
    BY <1>2, DrawnRateFact DEF Opt, Row
  <2>2. CASE Before(i) = {}
    BY <2>2 DEF Slope
  <2>3. CASE Before(i) # {}
    <3>1. Before(i) \subseteq 1 .. i - 1 /\ i \in Int
      BY <1>2
    <3>2. IsFiniteSet(Before(i)) /\ Before(i) \subseteq Int
      <4>1. IsFiniteSet(1 .. i - 1) /\ 1 .. i - 1 \subseteq Int
        BY <3>1, FS_Interval
      <4>2. Before(i) \in SUBSET (1 .. i - 1)
        OBVIOUS
      <4> HIDE DEF Before
      <4> QED
        BY <4>1, <4>2, FS_Subset
    <3>3. Max(Before(i)) \in Before(i)
      <4> HIDE DEF Before
      <4> QED
        BY <2>3, <3>2, Extremes
    <3>4. Max(Before(i)) \in DOMAIN rows
      BY <1>2, <3>1, <3>3
    <3>5. p(i) \in Row
      <4> DEFINE j == Max(Before(i))
      <4> HIDE DEF j
      <4>1. rows[j] \in Row
        BY <1>2, <3>4 DEF j
      <4> QED
        BY <4>1 DEF j
    <3>8. S(i) = T(i)
      <4> HIDE DEF T, Before
      <4> QED
        BY <2>3
    <3> HIDE DEF p
    <3>6. DrawnRate(p(i)) \subseteq Int /\ p(i).at \in Int
      BY <3>5, DrawnRateFact DEF Opt, Row
    <3>7. \A v \in DrawnRate(rows[i]), u \in DrawnRate(p(i)) : <<v - u, rows[i].at - p(i).at>> \in Int \X Int
      BY <2>1, <3>6
    <3>9. T(i) \subseteq Int \X Int /\ (T(i) # {} => DrawnRate(rows[i]) # {})
      BY <3>7
    <3> HIDE DEF S, T
    <3> QED
      BY <3>8, <3>9 DEF Slope
  <2>4. Before(i) = {} \/ Before(i) # {}
    OBVIOUS
  <2> HIDE DEF S, Before
  <2> QED
    BY <2>2, <2>3, <2>4
<1> HIDE DEF S
<1>4. ASSUME NEW i \in DOMAIN rows
      PROVE  /\ WithSlopes(rows)[i] \in Row /\ WithSlopes(rows)[i].slope = S(i)
             /\ WithSlopes(rows)[i] = [rows[i] EXCEPT !.slope = S(i)]
  BY <1>1, <1>2, <1>3 DEF Row
<1>5. DOMAIN WithSlopes(rows) = DOMAIN rows
  BY <1>1
<1>6. WithSlopes(rows) \in Seq(Row)
  <2> DEFINE w == WithSlopes(rows)
  <2>1. w = [i \in DOMAIN rows |-> w[i]]
    BY <1>1
  <2> HIDE DEF w
  <2>2. w = [i \in 1 .. Len(rows) |-> w[i]]
    BY <1>2, <2>1
  <2>3. \A i \in 1 .. Len(rows) : w[i] \in Row
    BY <1>2, <1>4 DEF w
  <2>4. w \in Seq(Row)
    BY <1>2, <2>2, <2>3
  <2> QED
    BY <2>4 DEF w
<1> QED
  BY <1>3, <1>4, <1>5, <1>6

\* The series that have a row for a bucket, and those of them that answer.
Rows(x, K, b) == {j \in K : b \in Spine(x, j)}
Answering(x, K, b, f) == {j \in Rows(x, K, b) : ViewRow(x, j, b)[f] # {}}
Answer(x, b, f, j) == CHOOSE v \in ViewRow(x, j, b)[f] : TRUE

\* A row of several series is made of theirs.
Answers(x, K, b, f) == [k \in Answering(x, K, b, f) |-> Answer(x, b, f, k)]

LEMMA PoolRowFact ==
  ASSUME NEW x \in Scalars, NEW K \in SUBSET Keys(x), NEW b \in Int
  PROVE  /\ PoolRow(x, K, b) \in Row /\ PoolRow(x, K, b).at = b /\ PoolRow(x, K, b).slope = {}
         /\ PoolRow(x, K, b).rate = Nullable(Answers(x, K, b, "rate"))
         /\ IsFiniteSet(Answering(x, K, b, "rate"))
         /\ Answers(x, K, b, "rate") \in [Answering(x, K, b, "rate") -> Int]
<1> DEFINE J == Rows(x, K, b)
           N == [k \in J |-> ViewRow(x, k, b).n]
           A(f) == Answers(x, K, b, f)
           n == SumFunction(N)
           sum == Nullable(A("sum"))
           rate == Nullable(A("rate"))
           avg == {v \div n : v \in sum}
<1>0. x \in Metrics
  BY DEF Scalars
<1>1. IsFiniteSet(J) /\ \A f : IsFiniteSet(Answering(x, K, b, f))
  <2>1. IsFiniteSet(Keys(x))
    BY <1>0, KeysFact
  <2>2. J \in SUBSET Keys(x) /\ \A f : Answering(x, K, b, f) \in SUBSET Keys(x)
    BY DEF Rows, Answering
  <2> HIDE DEF J
  <2> QED
    BY <2>1, <2>2, FS_Subset
<1>2. \A k \in J : ViewRow(x, k, b) \in Row /\ (ViewRow(x, k, b).n = 0 => ViewRow(x, k, b).sum = {})
  BY ViewRowFact DEF Rows
<1>3. N \in [J -> Nat]
  BY <1>2 DEF Row
<1>4. ASSUME NEW f \in {"sum", "rate"} PROVE A(f) \in [Answering(x, K, b, f) -> Int]
  <2>1. ASSUME NEW k \in Answering(x, K, b, f) PROVE Answer(x, b, f, k) \in Int
    <3>1. ViewRow(x, k, b) \in Row /\ ViewRow(x, k, b)[f] # {}
      BY <1>2 DEF Answering
    <3>2. ViewRow(x, k, b)[f] \in Opt
      BY <3>1 DEF Row
    <3> QED
      BY <3>1, <3>2, OptFact DEF Answer
  <2> QED
    BY <2>1 DEF Answers
<1> HIDE DEF A, N, J
<1>5. n \in Nat /\ \A k \in J : N[k] <= n
  BY <1>1, <1>3, SumNat
<1>6. sum \in Opt /\ rate \in Opt /\ (sum # {} => Answering(x, K, b, "sum") # {})
  BY <1>1, <1>4, NullableFact
<1>7. sum # {} => n # 0
  <2> SUFFICES ASSUME sum # {}, n = 0 PROVE FALSE
    OBVIOUS
  <2>1. PICK k \in J : ViewRow(x, k, b).sum # {}
    BY <1>6 DEF Answering, J
  <2>2. N[k] = ViewRow(x, k, b).n /\ N[k] <= 0 /\ N[k] \in Nat
    BY <1>3, <1>5 DEF N
  <2> QED
    BY <1>2, <2>1, <2>2
<1>8. avg \in Opt
  <2>1. CASE sum = {}
    <3>1. avg = {}
      BY <2>1
    <3> HIDE DEF avg
    <3> QED
      BY <3>1, OptFact
  <2>2. CASE sum # {}
    <3>1. PICK v \in Int : sum = {v}
      BY <1>6, <2>2, OptFact
    <3>2. avg = {v \div n} /\ v \div n \in Int
      BY <1>5, <1>7, <2>2, <3>1
    <3> HIDE DEF avg
    <3> QED
      BY <3>2, OptFact
  <2> QED
    BY <2>1, <2>2
<1>9. PoolRow(x, K, b) = [at |-> b, n |-> n, sum |-> sum, avg |-> avg, rate |-> rate, slope |-> {}]
  <2> DEFINE row == [k \in {j \in K : b \in Spine(x, j)} |-> ViewRow(x, k, b)]
             F(f) == [k \in {j \in DOMAIN row : row[j][f] # {}} |-> CHOOSE v \in row[k][f] : TRUE]
  <2>1. DOMAIN row = J /\ \A k \in J : row[k] = ViewRow(x, k, b)
    BY DEF J, Rows
  <2> HIDE DEF row
  <2>2. [k \in DOMAIN row |-> row[k].n] = N
    BY <2>1 DEF N
  <2>3. \A f : {j \in DOMAIN row : row[j][f] # {}} = Answering(x, K, b, f)
    BY <2>1 DEF Answering, J
  <2>4. \A f : F(f) = A(f)
    BY <2>1, <2>3 DEF A, Answers, Answer, Answering, J
  <2>5. PoolRow(x, K, b) = [at |-> b, n |-> SumFunction([k \in DOMAIN row |-> row[k].n]), sum |-> Nullable(F("sum")),
           avg |-> {v \div SumFunction([k \in DOMAIN row |-> row[k].n]) : v \in Nullable(F("sum"))},
           rate |-> Nullable(F("rate")), slope |-> {}]
    BY DEF PoolRow, row
  <2> HIDE DEF F
  <2> QED
    BY <2>2, <2>4, <2>5
<1> HIDE DEF sum, rate, avg, n
<1>10. PoolRow(x, K, b) \in Row
  BY <1>5, <1>6, <1>8, <1>9 DEF Row, Slope
<1>11. A("rate") \in [Answering(x, K, b, "rate") -> Int]
  BY <1>4
<1> QED
  BY <1>1, <1>9, <1>10, <1>11 DEF A, rate

\* Rows that stand for the bucket starts S, in order, each what base says of its
\* bucket but for the slope, which only a drawn row has.
RowsAt(rows, S, base) ==
  /\ rows \in Seq(Row)
  /\ \E at \in Seq(S) :
       /\ Increasing(at) /\ ToSet(at) = S /\ DOMAIN at = DOMAIN rows
       /\ \A i \in DOMAIN rows :
            /\ rows[i] = [base[at[i]] EXCEPT !.slope = rows[i].slope]
            /\ rows[i].slope # {} => DrawnRate(base[at[i]]) # {}

LEMMA RowsAtFact ==
  ASSUME NEW S, S \subseteq Int, IsFiniteSet(S), NEW base \in [S -> Row]
  PROVE  RowsAt(WithSlopes([i \in DOMAIN Ascending(S) |-> base[Ascending(S)[i]]]), S, base)
<1> DEFINE at == Ascending(S)
           plain == [i \in DOMAIN at |-> base[at[i]]]
           rows == WithSlopes(plain)
<1>1. at \in Seq(S) /\ Increasing(at) /\ ToSet(at) = S
  BY AscendingFact
<1>2. DOMAIN at = 1 .. Len(at) /\ Len(at) \in Nat /\ \A i \in DOMAIN at : at[i] \in S
  <2> HIDE DEF at
  <2> QED
    BY <1>1
<1>3. plain \in Seq(Row) /\ DOMAIN plain = DOMAIN at /\ \A i \in DOMAIN at : plain[i] = base[at[i]]
  <2> HIDE DEF at
  <2>1. \A i \in DOMAIN at : base[at[i]] \in Row
    BY <1>2
  <2> QED
    BY <1>2, <2>1
<1> HIDE DEF at, plain
<1>4. /\ rows \in Seq(Row) /\ DOMAIN rows = DOMAIN at
      /\ \A i \in DOMAIN at : /\ rows[i] = [plain[i] EXCEPT !.slope = rows[i].slope]
                              /\ rows[i].slope # {} => DrawnRate(plain[i]) # {}
  BY <1>3, SlopesFact
<1> HIDE DEF rows
<1>5. \A i \in DOMAIN rows : /\ rows[i] = [base[at[i]] EXCEPT !.slope = rows[i].slope]
                             /\ rows[i].slope # {} => DrawnRate(base[at[i]]) # {}
  BY <1>3, <1>4
<1> QED
  BY <1>1, <1>4, <1>5 DEF RowsAt, rows, plain, at

SeriesBase(x, k) == [b \in Spine(x, k) |-> ViewRow(x, k, b)]
PoolSpine(x, K) == UNION {Spine(x, k) : k \in K}
PoolBase(x, K) == [b \in PoolSpine(x, K) |-> PoolRow(x, K, b)]

LEMMA SeriesViewsFact ==
  ASSUME NEW x \in Scalars, NEW k \in Keys(x)
  PROVE  /\ RowsAt(ViewsOf[x][k], Spine(x, k), SeriesBase(x, k))
         /\ SeriesBase(x, k) \in [Spine(x, k) -> Row]
<1>0. x \in Metrics
  BY DEF Scalars
<1> DEFINE S == Spine(x, k)
           base == SeriesBase(x, k)
<1>1. S \subseteq Int /\ IsFiniteSet(S)
  BY <1>0, SpineFact
<1>2. base \in [S -> Row] /\ \A b \in S : base[b] = ViewRow(x, k, b)
  BY <1>1, ViewRowFact DEF SeriesBase
<1>3. SeriesRows(x, k) = [i \in DOMAIN Ascending(S) |-> base[Ascending(S)[i]]]
  <2> DEFINE at == Ascending(S)
  <2>1. \A i \in DOMAIN at : at[i] \in S
    <3>1. at \in Seq(S)
      BY <1>1, AscendingFact
    <3> HIDE DEF at, S
    <3> QED
      BY <3>1
  <2>2. SeriesRows(x, k) = [i \in DOMAIN at |-> ViewRow(x, k, at[i])]
    BY DEF SeriesRows
  <2> HIDE DEF at, S, base
  <2> QED
    BY <1>2, <2>1, <2>2 DEF at
<1>4. ViewsOf[x][k] = WithSlopes(SeriesRows(x, k))
  BY DEF ViewsOf, Scalars
<1> HIDE DEF S, base
<1>5. RowsAt(WithSlopes(SeriesRows(x, k)), S, base)
  BY <1>1, <1>2, <1>3, RowsAtFact
<1> QED
  BY <1>2, <1>4, <1>5 DEF S, base

LEMMA PoolSpineFact ==
  ASSUME NEW x \in Metrics, NEW K \in SUBSET Keys(x)
  PROVE  PoolSpine(x, K) \subseteq Int /\ IsFiniteSet(PoolSpine(x, K)) /\ \A b \in PoolSpine(x, K) : b % W = 0
<1> DEFINE f == [k \in K |-> Spine(x, k)]
           U == {f[k] : k \in K}
<1>1. IsFiniteSet(K)
  BY KeysFact, FS_Subset
<1>2. DOMAIN f = K /\ \A k \in K : IsFiniteSet(f[k]) /\ f[k] \subseteq Int /\ \A b \in f[k] : b % W = 0
  BY SpineFact
<1>3. PoolSpine(x, K) = UNION U
  BY DEF PoolSpine
<1> HIDE DEF f
<1>4. IsFiniteSet(U)
  BY <1>1, <1>2, ImageFinite
<1>5. \A T \in U : IsFiniteSet(T)
  BY <1>2
<1>6. UNION U \subseteq Int /\ \A b \in UNION U : b % W = 0
  BY <1>2
<1> HIDE DEF U
<1> QED
  BY <1>3, <1>4, <1>5, <1>6, FS_UNION

LEMMA PoolViewsFact ==
  ASSUME NEW x \in Scalars, NEW K \in SUBSET Keys(x)
  PROVE  /\ RowsAt(PoolViews(x, K), PoolSpine(x, K), PoolBase(x, K))
         /\ PoolBase(x, K) \in [PoolSpine(x, K) -> Row]
<1>0. x \in Metrics
  BY DEF Scalars
<1> DEFINE S == PoolSpine(x, K)
           base == PoolBase(x, K)
<1>1. S \subseteq Int /\ IsFiniteSet(S)
  BY <1>0, PoolSpineFact
<1>2. base \in [S -> Row] /\ \A b \in S : base[b] = PoolRow(x, K, b)
  BY <1>1, PoolRowFact DEF PoolBase
<1>3. PoolViews(x, K) = WithSlopes([i \in DOMAIN Ascending(S) |-> base[Ascending(S)[i]]])
  <2> DEFINE at == Ascending(S)
  <2>1. \A i \in DOMAIN at : at[i] \in S
    <3>1. at \in Seq(S)
      BY <1>1, AscendingFact
    <3> HIDE DEF at, S
    <3> QED
      BY <3>1
  <2>2. PoolViews(x, K) = WithSlopes([i \in DOMAIN at |-> PoolRow(x, K, at[i])])
    BY DEF PoolViews, PoolSpine
  <2> HIDE DEF at, S, base
  <2>3. [i \in DOMAIN at |-> PoolRow(x, K, at[i])] = [i \in DOMAIN at |-> base[at[i]]]
    BY <1>2, <2>1
  <2> QED
    BY <2>2, <2>3 DEF at
<1> HIDE DEF S, base
<1>5. RowsAt(PoolViews(x, K), S, base)
  BY <1>1, <1>2, <1>3, RowsAtFact
<1> QED
  BY <1>2, <1>5 DEF S, base

\* The points drawn for such rows: those of the buckets that have something to show.
ToShow(S, base, view) == {b \in S : base[b][view] # {} \/ (base[b].n = 0 /\ view # "avg")}
PointsAt(points, S, base, view) ==
  /\ points \in Seq(Point)
  /\ \E at \in Seq(S) :
       /\ Increasing(at) /\ ToSet(at) = ToShow(S, base, view) /\ DOMAIN at = DOMAIN points
       /\ \A i \in DOMAIN points :
            /\ points[i].ms = Ms(at[i])
            /\ points[i].v = IF base[at[i]][view] = {} THEN 0 ELSE CHOOSE v \in base[at[i]][view] : TRUE
            /\ points[i].slope # {} => view = "rate" /\ DrawnRate(base[at[i]]) # {}

LEMMA ViewPointsFact ==
  ASSUME NEW rows, NEW S, S \subseteq Int, NEW base \in [S -> Row], RowsAt(rows, S, base),
         \A b \in S : base[b].at = b,
         NEW view \in {"sum", "avg", "rate"}
  PROVE  PointsAt(ViewPoints(rows, view), S, base, view)
<1> DEFINE Drawable == {r \in ToSet(rows) : r[view] # {} \/ (r.n = 0 /\ view # "avg")}
           drawn == Keeping(rows, Drawable)
           points == ViewPoints(rows, view)
<1>1. rows \in Seq(Row) /\ DOMAIN rows \subseteq Int
  BY DEF RowsAt
<1>2. PICK at \in Seq(S) :
       /\ Increasing(at) /\ ToSet(at) = S /\ DOMAIN at = DOMAIN rows
       /\ \A i \in DOMAIN rows :
            /\ rows[i] = [base[at[i]] EXCEPT !.slope = rows[i].slope]
            /\ rows[i].slope # {} => DrawnRate(base[at[i]]) # {}
  BY DEF RowsAt
<1>3. /\ drawn \in Seq(Row)
      /\ \E w \in Seq(DOMAIN rows) : Increasing(w) /\ DOMAIN w = DOMAIN drawn
            /\ ToSet(w) = {i \in DOMAIN rows : rows[i] \in Drawable}
            /\ \A i \in DOMAIN w : drawn[i] = rows[w[i]]
  <2> HIDE DEF Drawable
  <2> QED
    BY <1>1, KeepingFact
<1>4. PICK w \in Seq(DOMAIN rows) : Increasing(w) /\ DOMAIN w = DOMAIN drawn
            /\ ToSet(w) = {i \in DOMAIN rows : rows[i] \in Drawable}
            /\ \A i \in DOMAIN w : drawn[i] = rows[w[i]]
  BY <1>3
<1>5. points = [i \in DOMAIN drawn |->
        [ms |-> Ms(drawn[i].at),
         v |-> IF drawn[i][view] = {} THEN 0 ELSE CHOOSE v \in drawn[i][view] : TRUE,
         slope |-> IF view = "rate" THEN drawn[i].slope ELSE {}]]
  BY DEF ViewPoints
<1> HIDE DEF drawn, points
<1>6. DOMAIN w = 1 .. Len(w) /\ Len(w) \in Nat /\ \A i \in DOMAIN w : w[i] \in DOMAIN rows
  BY <1>4
<1>7. \A i \in DOMAIN rows : at[i] \in S /\ rows[i] \in Row /\ base[at[i]] \in Row
  BY <1>1, <1>2
<1>8. ASSUME NEW i \in DOMAIN rows
      PROVE  /\ rows[i].at = base[at[i]].at /\ rows[i].n = base[at[i]].n /\ rows[i][view] = base[at[i]][view]
             /\ (rows[i] \in Drawable <=> at[i] \in ToShow(S, base, view))
  <2>1. rows[i] = [base[at[i]] EXCEPT !.slope = rows[i].slope] /\ base[at[i]] \in Row /\ at[i] \in S
    BY <1>2, <1>7
  <2>2. rows[i].at = base[at[i]].at /\ rows[i].n = base[at[i]].n /\ rows[i][view] = base[at[i]][view]
    <3>1. \A r \in Row, s \in Slope :
            LET e == [r EXCEPT !.slope = s]
            IN e.at = r.at /\ e.n = r.n /\ e["sum"] = r["sum"] /\ e["avg"] = r["avg"] /\ e["rate"] = r["rate"]
      BY DEF Row
    <3> DEFINE q == [base[at[i]] EXCEPT !.slope = rows[i].slope]
    <3>2. q.at = base[at[i]].at /\ q.n = base[at[i]].n /\ q["sum"] = base[at[i]]["sum"]
          /\ q["avg"] = base[at[i]]["avg"] /\ q["rate"] = base[at[i]]["rate"]
      <4>1. rows[i].slope \in Slope
        BY <1>7 DEF Row
      <4> QED
        BY <2>1, <3>1, <4>1
    <3>3. rows[i] = q
      BY <2>1
    <3> HIDE DEF q
    <3> QED
      BY <3>2, <3>3
  <2>3. rows[i] \in ToSet(rows)
    BY DEF ToSet
  <2> QED
    BY <2>1, <2>2, <2>3 DEF ToShow
<1> DEFINE to == [i \in DOMAIN w |-> at[w[i]]]
<1>9. to \in Seq(S) /\ DOMAIN to = DOMAIN w
  BY <1>6, <1>7
<1>10. Increasing(to)
  <2> SUFFICES ASSUME NEW i \in DOMAIN w, NEW j \in DOMAIN w, i < j PROVE at[w[i]] < at[w[j]]
    BY DEF Increasing
  <2>1. w[i] < w[j] /\ w[i] \in DOMAIN at /\ w[j] \in DOMAIN at
    BY <1>2, <1>4, <1>6 DEF Increasing
  <2> QED
    BY <1>2, <2>1 DEF Increasing
<1>11. ToSet(to) = ToShow(S, base, view)
  <2>1. ASSUME NEW i \in DOMAIN w PROVE to[i] \in ToShow(S, base, view)
    <3>1. w[i] \in DOMAIN rows /\ rows[w[i]] \in Drawable
      BY <1>4, <1>6 DEF ToSet
    <3> HIDE DEF Drawable
    <3> QED
      BY <1>8, <3>1
  <2>2. ASSUME NEW b \in ToShow(S, base, view) PROVE \E i \in DOMAIN w : to[i] = b
    <3>1. PICK j \in DOMAIN rows : at[j] = b
      BY <1>2 DEF ToShow, ToSet
    <3>2. rows[j] \in Drawable
      BY <1>8, <3>1
    <3> HIDE DEF Drawable
    <3>3. PICK i \in DOMAIN w : w[i] = j
      BY <1>4, <3>2 DEF ToSet
    <3> QED
      BY <3>1, <3>3
  <2> HIDE DEF to
  <2> QED
    BY <1>9, <2>1, <2>2 DEF ToSet
<1>12. DOMAIN points = DOMAIN w /\ points = [i \in DOMAIN w |-> points[i]]
  BY <1>4, <1>5
<1> HIDE DEF to, Drawable
<1>13. ASSUME NEW i \in DOMAIN w
       PROVE  /\ points[i].ms = Ms(to[i])
              /\ points[i].v = IF base[to[i]][view] = {} THEN 0 ELSE CHOOSE v \in base[to[i]][view] : TRUE
              /\ points[i].slope = IF view = "rate" THEN rows[w[i]].slope ELSE {}
              /\ points[i].slope # {} => view = "rate" /\ DrawnRate(base[to[i]]) # {}
              /\ points[i] \in Point
  <2>1. w[i] \in DOMAIN rows /\ drawn[i] = rows[w[i]] /\ i \in DOMAIN drawn /\ to[i] = at[w[i]]
    BY <1>4, <1>6 DEF to
  <2>2. /\ rows[w[i]].at = base[to[i]].at /\ rows[w[i]][view] = base[to[i]][view]
        /\ base[to[i]] \in Row /\ rows[w[i]] \in Row
    BY <1>7, <1>8, <2>1
  <2>3. base[to[i]].at \in Int /\ base[to[i]][view] \in Opt /\ rows[w[i]].slope \in Slope
    BY <2>2 DEF Row
  <2>4. /\ points[i].ms = Ms(drawn[i].at)
        /\ points[i].v = IF drawn[i][view] = {} THEN 0 ELSE CHOOSE v \in drawn[i][view] : TRUE
        /\ points[i].slope = IF view = "rate" THEN drawn[i].slope ELSE {}
        /\ points[i] = [ms |-> points[i].ms, v |-> points[i].v, slope |-> points[i].slope]
    BY <1>5, <2>1
  <2>5. base[to[i]].at = to[i] /\ to[i] \in S
    BY <1>7, <2>1
  <2>6. /\ points[i].ms = Ms(to[i]) /\ points[i].ms \in Int
        /\ points[i].v = IF base[to[i]][view] = {} THEN 0 ELSE CHOOSE v \in base[to[i]][view] : TRUE
        /\ points[i].v \in Int /\ points[i].slope \in Slope
    <3>1. points[i].ms = Ms(to[i]) /\ Ms(to[i]) \in Int
      BY <2>1, <2>2, <2>3, <2>4, <2>5, ClockFact
    <3>4. points[i].v = IF base[to[i]][view] = {} THEN 0 ELSE CHOOSE v \in base[to[i]][view] : TRUE
      BY <2>1, <2>2, <2>4
    <3>2. base[to[i]][view] # {} => (CHOOSE v \in base[to[i]][view] : TRUE) \in Int
      BY <2>3, OptFact
    <3>3. points[i].slope \in Slope
      BY <2>1, <2>3, <2>4 DEF Slope
    <3> QED
      BY <3>1, <3>2, <3>3, <3>4
  <2>7. rows[w[i]].slope # {} => DrawnRate(base[to[i]]) # {}
    BY <1>2, <2>1
  <2>8. points[i] \in Point
    BY <2>4, <2>6 DEF Point
  <2> QED
    BY <2>1, <2>4, <2>6, <2>7, <2>8
<1>14. points \in Seq(Point)
  <2>1. \A i \in 1 .. Len(w) : points[i] \in Point
    BY <1>6, <1>13
  <2> HIDE DEF points
  <2> QED
    BY <1>6, <1>12, <2>1
<1>15. DOMAIN to = DOMAIN points
  BY <1>9, <1>12
<1>16. ASSUME NEW i \in DOMAIN points
       PROVE  /\ points[i].ms = Ms(to[i])
              /\ points[i].v = IF base[to[i]][view] = {} THEN 0 ELSE CHOOSE v \in base[to[i]][view] : TRUE
              /\ points[i].slope # {} => view = "rate" /\ DrawnRate(base[to[i]]) # {}
  BY <1>9, <1>13, <1>15
<1>17. PointsAt(points, S, base, view)
  BY Zenon, <1>9, <1>10, <1>11, <1>14, <1>15, <1>16 DEF PointsAt
<1> QED
  BY <1>17 DEF points

(* ------------------------------- the lines ------------------------------ *)

LEMMA ChartedFact ==
  ASSUME NEW c \in Charted
  PROVE  /\ c.m \in Scalars /\ c.visible \in SUBSET Keys(c.m) /\ c.agg \in AvailableAggregationViews(c.m)
         /\ c.all \in BOOLEAN /\ c.agg \in Views
         /\ c = [m |-> c.m, visible |-> c.visible, agg |-> c.agg, all |-> c.all]
         /\ c.agg = "rate" => IsCounter(c.m)
<1>1. c.m \in Scalars /\ c.visible \in SUBSET Keys(c.m) /\ c.agg \in AvailableAggregationViews(c.m)
      /\ c.all \in BOOLEAN
      /\ c = [m |-> c.m, visible |-> c.visible, agg |-> c.agg, all |-> c.all]
  <2>1. PICK x \in Scalars :
          \E s \in SUBSET Keys(x), a \in AvailableAggregationViews(x), b \in BOOLEAN :
            c = [m |-> x, visible |-> s, agg |-> a, all |-> b]
    BY DEF Charted, Scalars, IsScalar
  <2> QED
    BY <2>1
<1>2. AvailableAggregationViews(c.m) \subseteq Views
  BY DEF AvailableAggregationViews, Views
<1>3. c.agg = "rate" => IsCounter(c.m)
  BY <1>1 DEF AvailableAggregationViews
<1> QED
  BY <1>1, <1>2, <1>3

\* The line of a series before it is moved.
RawLine(c, k) ==
  IF c.agg = "rate" THEN ViewPoints(ViewsOf[c.m][k], "rate") ELSE RawPoints(c.m, k)

\* A series as it was sampled: a point for each datapoint, in order.
LEMMA RawPointsFact ==
  ASSUME NEW x \in Scalars, NEW k \in Keys(x)
  PROVE  /\ RawPoints(x, k) \in Seq(Point) /\ DOMAIN RawPoints(x, k) = DOMAIN Dps(x, k)
         /\ Len(RawPoints(x, k)) = Len(Dps(x, k))
         /\ \A i \in DOMAIN Dps(x, k) :
              /\ RawPoints(x, k)[i].ms = Ms(Dps(x, k)[i].t) /\ RawPoints(x, k)[i].v = Dps(x, k)[i].v
              /\ RawPoints(x, k)[i].slope = {}
<1> DEFINE ps == RawPoints(x, k)
<1>1. /\ DOMAIN Dps(x, k) = 1 .. Len(Dps(x, k)) /\ Len(Dps(x, k)) \in Nat \ {0}
      /\ \A i \in DOMAIN Dps(x, k) : Dps(x, k)[i].t \in Nat /\ Dps(x, k)[i].v \in Value(x)
  BY DpsFact DEF Scalars
<1>2. Value(x) = Int
  BY DEF Scalars, Value
<1>3. ps = [i \in DOMAIN Dps(x, k) |->
              [ms |-> Ms(Dps(x, k)[i].t), v |-> Dps(x, k)[i].v, slope |-> {}]]
  BY DEF RawPoints
<1>4. \A i \in DOMAIN Dps(x, k) : Ms(Dps(x, k)[i].t) \in Int /\ Dps(x, k)[i].v \in Int
  <2>1. \A t \in Nat : Ms(t) \in Int
    BY ClockFact
  <2> QED
    BY <1>1, <1>2, <2>1
<1>5. \A i \in DOMAIN Dps(x, k) : ps[i] \in Point
  BY <1>3, <1>4 DEF Point, Slope
<1> HIDE DEF ps
<1>6. ps \in Seq(Point)
  BY <1>1, <1>3, <1>5
<1> QED
  BY <1>1, <1>3, <1>6 DEF ps

LEMMA ViewsSpine ==
  ASSUME NEW x \in Scalars, NEW k \in Keys(x), NEW view \in {"sum", "avg", "rate"}
  PROVE  PointsAt(ViewPoints(ViewsOf[x][k], view), Spine(x, k), SeriesBase(x, k), view)
<1>1. RowsAt(ViewsOf[x][k], Spine(x, k), SeriesBase(x, k)) /\ SeriesBase(x, k) \in [Spine(x, k) -> Row]
  BY SeriesViewsFact
<1>2. Spine(x, k) \subseteq Int
  BY SpineFact DEF Scalars
<1>3. \A b \in Spine(x, k) : SeriesBase(x, k)[b].at = b
  BY <1>2, ViewRowFact DEF SeriesBase
<1> HIDE DEF SeriesBase
<1> QED
  BY <1>1, <1>2, <1>3, ViewPointsFact

LEMMA PoolsSpine ==
  ASSUME NEW x \in Scalars, NEW K \in SUBSET Keys(x), NEW view \in {"sum", "avg", "rate"}
  PROVE  PointsAt(ViewPoints(PoolViews(x, K), view), PoolSpine(x, K), PoolBase(x, K), view)
<1>1. RowsAt(PoolViews(x, K), PoolSpine(x, K), PoolBase(x, K)) /\ PoolBase(x, K) \in [PoolSpine(x, K) -> Row]
  BY PoolViewsFact
<1>2. PoolSpine(x, K) \subseteq Int
  BY PoolSpineFact DEF Scalars
<1>3. \A b \in PoolSpine(x, K) : PoolBase(x, K)[b].at = b
  <2>1. \A b : PoolRow(x, K, b).at = b
    BY DEF PoolRow
  <2> HIDE DEF PoolSpine
  <2> QED
    BY <1>2, <2>1 DEF PoolBase
<1> HIDE DEF PoolBase, PoolSpine
<1> QED
  BY <1>1, <1>2, <1>3, ViewPointsFact

\* The lines of the checked series, each once.
LEMMA RawLinesFact ==
  ASSUME NEW c \in Charted
  PROVE  /\ RawLines(c) \in Seq([key : c.visible, points : Seq(Point)])
         /\ \A i \in DOMAIN RawLines(c) : RawLines(c)[i].points = RawLine(c, RawLines(c)[i].key)
         /\ \A k \in c.visible : \E i \in DOMAIN RawLines(c) : RawLines(c)[i].key = k
         /\ \A i, j \in DOMAIN RawLines(c) : RawLines(c)[i].key = RawLines(c)[j].key => i = j
<1> DEFINE ks == VisibleSeq(c)
           K == Keys(c.m)
<1>1. c.m \in Scalars /\ c.visible \in SUBSET K
  BY ChartedFact
<1>2. /\ KeySeq(c.m) \in Seq(K) /\ ToSet(KeySeq(c.m)) = K
      /\ \A i, j \in DOMAIN KeySeq(c.m) : KeySeq(c.m)[i] = KeySeq(c.m)[j] => i = j
  BY <1>1, KeysFact DEF Scalars
<1> HIDE DEF K
<1>3. /\ ks \in Seq(K) /\ ToSet(ks) = c.visible
      /\ \E at \in Seq(DOMAIN KeySeq(c.m)) : Increasing(at) /\ DOMAIN at = DOMAIN ks
           /\ \A i \in DOMAIN at : ks[i] = KeySeq(c.m)[at[i]]
  <2>1. ToSet(KeySeq(c.m)) \cap c.visible = c.visible
    BY <1>1, <1>2
  <2>2. ks = Keeping(KeySeq(c.m), c.visible)
    BY DEF VisibleSeq
  <2> HIDE DEF ks
  <2>3. /\ ks \in Seq(K) /\ ToSet(ks) = ToSet(KeySeq(c.m)) \cap c.visible
        /\ \E at \in Seq(DOMAIN KeySeq(c.m)) : Increasing(at) /\ DOMAIN at = DOMAIN ks
             /\ \A i \in DOMAIN at : ks[i] = KeySeq(c.m)[at[i]]
    BY <1>2, <2>2, KeepingFact
  <2> QED
    BY <2>1, <2>3
<1>4. PICK at \in Seq(DOMAIN KeySeq(c.m)) : Increasing(at) /\ DOMAIN at = DOMAIN ks
           /\ \A i \in DOMAIN at : ks[i] = KeySeq(c.m)[at[i]]
  BY <1>3
<1> HIDE DEF ks
<1>5. \A i, j \in DOMAIN ks : ks[i] = ks[j] => i = j
  <2>1. at \in Seq(Int)
    BY <1>2
  <2>2. \A i, j \in DOMAIN at : at[i] = at[j] => i = j
    BY <1>4, <2>1, IncreasingFact
  <2>3. \A i \in DOMAIN at : at[i] \in DOMAIN KeySeq(c.m)
    OBVIOUS
  <2> QED
    BY <1>2, <1>4, <2>2, <2>3
<1>6. DOMAIN ks = 1 .. Len(ks) /\ Len(ks) \in Nat /\ \A i \in DOMAIN ks : ks[i] \in c.visible
  BY <1>3 DEF ToSet
<1>7. RawLines(c) = [i \in 1 .. Len(ks) |-> [key |-> ks[i], points |-> RawLine(c, ks[i])]]
  BY <1>6 DEF RawLines, RawLine, ks
<1>8. \A k \in c.visible : RawLine(c, k) \in Seq(Point)
  <2> SUFFICES ASSUME NEW k \in c.visible PROVE RawLine(c, k) \in Seq(Point)
    OBVIOUS
  <2>1. k \in Keys(c.m)
    BY <1>1 DEF K
  <2>2. RawPoints(c.m, k) \in Seq(Point)
    BY <1>1, <2>1, RawPointsFact
  <2>3. ViewPoints(ViewsOf[c.m][k], "rate") \in Seq(Point)
    BY <1>1, <2>1, ViewsSpine DEF PointsAt
  <2> QED
    BY <2>2, <2>3 DEF RawLine
<1> HIDE DEF RawLine
<1>9. \A i \in 1 .. Len(ks) : [key |-> ks[i], points |-> RawLine(c, ks[i])] \in [key : c.visible, points : Seq(Point)]
  BY <1>6, <1>8
<1>10. RawLines(c) \in Seq([key : c.visible, points : Seq(Point)]) /\ DOMAIN RawLines(c) = DOMAIN ks
  BY <1>6, <1>7, <1>9
<1>11. \A i \in DOMAIN ks : RawLines(c)[i].key = ks[i] /\ RawLines(c)[i].points = RawLine(c, ks[i])
  BY <1>6, <1>7
<1>12. \A k \in c.visible : \E i \in DOMAIN ks : ks[i] = k
  BY <1>3 DEF ToSet
<1> QED
  BY <1>5, <1>10, <1>11, <1>12

\* The points of the aggregate over the series K.
AggPoints(c, K) == ViewPoints(PoolViews(c.m, K), c.agg)
AggLine == [key : AggKeys, points : Seq(Point) \ {<<>>}]
LineType(c) == [key : c.visible \cup AggKeys, points : Seq(Point)]

\* No aggregate, one over every series, or two; each has points.
LEMMA AggregateLinesFact ==
  ASSUME NEW c \in Charted, c.agg # "raw"
  PROVE  /\ AggregateLines(c) \in Seq(AggLine)
         /\ \A l \in ToSet(AggregateLines(c)) :
              /\ l.key = AggSelected => l.points = AggPoints(c, c.visible)
              /\ l.key = AggTotal => l.points = AggPoints(c, Keys(c.m)) /\ c.visible = Keys(c.m)
         /\ \/ Len(AggregateLines(c)) <= 1
            \/ /\ Len(AggregateLines(c)) = 2
               /\ AggregateLines(c)[1].key = AggSelected /\ AggregateLines(c)[2].key = AggAll
<1> DEFINE all == AggPoints(c, Keys(c.m))
           sel == AggPoints(c, c.visible)
           Line(k, ps) == [key |-> k, points |-> ps]
<1>1. all \in Seq(Point) /\ sel \in Seq(Point)
  <2>1. /\ c.m \in Scalars /\ c.visible \in SUBSET Keys(c.m) /\ Keys(c.m) \in SUBSET Keys(c.m)
        /\ c.agg \in {"sum", "avg", "rate"}
    BY ChartedFact DEF Views
  <2>2. /\ PointsAt(all, PoolSpine(c.m, Keys(c.m)), PoolBase(c.m, Keys(c.m)), c.agg)
        /\ PointsAt(sel, PoolSpine(c.m, c.visible), PoolBase(c.m, c.visible), c.agg)
    BY <2>1, PoolsSpine DEF AggPoints
  <2> QED
    BY <2>2 DEF PointsAt
<1>2. AggregateLines(c) =
        IF all = <<>> THEN <<>>
        ELSE IF c.visible = {} THEN <<Line(AggAll, all)>>
        ELSE IF c.visible = Keys(c.m) THEN <<Line(AggTotal, all)>>
        ELSE (IF sel = <<>> THEN <<>> ELSE <<Line(AggSelected, sel)>>) \o <<Line(AggAll, all)>>
  BY DEF AggregateLines, AggPoints
<1> HIDE DEF all, sel
<1>3. \/ AggregateLines(c) = <<>>
      \/ all # <<>> /\ AggregateLines(c) = <<Line(AggAll, all)>>
      \/ all # <<>> /\ c.visible = Keys(c.m) /\ AggregateLines(c) = <<Line(AggTotal, all)>>
      \/ all # <<>> /\ sel # <<>> /\ AggregateLines(c) = <<Line(AggSelected, sel), Line(AggAll, all)>>
  <2>1. ASSUME NEW a, NEW b PROVE <<>> \o <<b>> = <<b>> /\ <<a>> \o <<b>> = <<a, b>>
    <3>1. <<>> \in Seq({a, b}) /\ <<a>> \in Seq({a, b}) /\ <<b>> \in Seq({a, b}) /\ <<a, b>> \in Seq({a, b})
      OBVIOUS
    <3>2. <<>> \o <<b>> \in Seq({a, b}) /\ Len(<<>> \o <<b>>) = 1 /\ (<<>> \o <<b>>)[1] = b
      BY <3>1
    <3>3. <<a>> \o <<b>> \in Seq({a, b}) /\ Len(<<a>> \o <<b>>) = 2
          /\ (<<a>> \o <<b>>)[1] = a /\ (<<a>> \o <<b>>)[2] = b
      BY <3>1
    <3>4. \A s \in Seq({a, b}) : Len(s) = 1 /\ s[1] = b => s = <<b>>
      OBVIOUS
    <3>5. \A s \in Seq({a, b}) : Len(s) = 2 /\ s[1] = a /\ s[2] = b => s = <<a, b>>
      OBVIOUS
    <3> QED
      BY <3>2, <3>3, <3>4, <3>5
  <2> HIDE DEF Line
  <2>2. <<>> \o <<Line(AggAll, all)>> = <<Line(AggAll, all)>>
    BY <2>1
  <2>3. <<Line(AggSelected, sel)>> \o <<Line(AggAll, all)>> = <<Line(AggSelected, sel), Line(AggAll, all)>>
    BY <2>1
  <2> QED
    BY <1>2, <2>2, <2>3
<1>4. all # <<>> => Line(AggAll, all) \in AggLine /\ Line(AggTotal, all) \in AggLine
  BY <1>1 DEF AggLine, AggKeys
<1>5. sel # <<>> => Line(AggSelected, sel) \in AggLine
  BY <1>1 DEF AggLine, AggKeys
<1>6. /\ \A k, ps : Line(k, ps).key = k /\ Line(k, ps).points = ps
      /\ AggSelected # AggAll /\ AggSelected # AggTotal /\ AggAll # AggTotal
  BY DEF AggSelected, AggAll, AggTotal
<1> HIDE DEF Line, AggLine
<1>7. CASE AggregateLines(c) = <<>>
  BY <1>7 DEF ToSet
<1>8. CASE all # <<>> /\ AggregateLines(c) = <<Line(AggAll, all)>>
  <2>1. \A l \in ToSet(AggregateLines(c)) : l = Line(AggAll, all)
    BY <1>8 DEF ToSet
  <2> QED
    BY <1>4, <1>6, <1>8, <2>1
<1>9. CASE all # <<>> /\ c.visible = Keys(c.m) /\ AggregateLines(c) = <<Line(AggTotal, all)>>
  <2>1. \A l \in ToSet(AggregateLines(c)) : l = Line(AggTotal, all)
    BY <1>9 DEF ToSet
  <2> QED
    BY <1>4, <1>6, <1>9, <2>1 DEF all
<1>10. CASE all # <<>> /\ sel # <<>> /\ AggregateLines(c) = <<Line(AggSelected, sel), Line(AggAll, all)>>
  <2>1. \A l \in ToSet(AggregateLines(c)) : l = Line(AggSelected, sel) \/ l = Line(AggAll, all)
    BY <1>10 DEF ToSet
  <2>2. /\ AggregateLines(c) \in Seq(AggLine) /\ Len(AggregateLines(c)) = 2
        /\ AggregateLines(c)[1] = Line(AggSelected, sel) /\ AggregateLines(c)[2] = Line(AggAll, all)
    BY <1>4, <1>5, <1>10
  <2> QED
    BY <1>6, <2>1, <2>2 DEF sel
<1> QED
  BY <1>3, <1>7, <1>8, <1>9, <1>10

\* The aggregates drawn, and the instants of the first of them.
ShownOf(c) ==
  IF c.agg = "raw" \/ Cardinality(Keys(c.m)) < 2 THEN <<>> ELSE AggregatesShown(c)
Centers(c) == [i \in DOMAIN ShownOf(c)[1].points |-> ShownOf(c)[1].points[i].ms]
Moved(c, l) == IF ShownOf(c) = <<>> THEN l ELSE Resample(l, Centers(c))

LEMMA ShownFact ==
  ASSUME NEW c \in Charted
  PROVE  /\ ShownOf(c) \in Seq(AggLine)
         /\ ShownOf(c) # <<>> => c.agg # "raw" /\ ToSet(ShownOf(c)) \subseteq ToSet(AggregateLines(c))
         /\ {l.key : l \in ToSet(ShownOf(c))} = AggregatePresentKeys(c)
<1>1. CASE c.agg = "raw" \/ Cardinality(Keys(c.m)) < 2
  <2>1. ShownOf(c) = <<>> /\ AggregatePresentKeys(c) = {}
    BY <1>1 DEF ShownOf, AggregatePresentKeys
  <2> QED
    BY <2>1 DEF ToSet
<1>2. CASE ~ (c.agg = "raw" \/ Cardinality(Keys(c.m)) < 2)
  <2> DEFINE A == AggregateLines(c)
             Kept == {l \in ToSet(A) : /\ l.key = AggSelected => Len(RawLines(c)) >= 2
                                       /\ l.key = AggAll => c.all}
  <2>1. A \in Seq(AggLine)
    BY <1>2, AggregateLinesFact
  <2>2. ShownOf(c) = Keeping(A, Kept)
    BY <1>2 DEF ShownOf, AggregatesShown
  <2> HIDE DEF A, Kept
  <2>3. ShownOf(c) \in Seq(AggLine) /\ ToSet(ShownOf(c)) = ToSet(A) \cap Kept
    BY <2>1, <2>2, KeepingFact
  <2>4. ToSet(ShownOf(c)) = Kept /\ Kept \subseteq ToSet(A)
    BY <2>3 DEF Kept
  <2>5. {l.key : l \in Kept} = AggregatePresentKeys(c)
    <3>1. c.all \in BOOLEAN
      BY ChartedFact
    <3>2. AggregatePresentKeys(c) =
            {l.key : l \in ToSet(A)} \ ((IF Len(RawLines(c)) < 2 THEN {AggSelected} ELSE {})
                                          \cup (IF c.all THEN {} ELSE {AggAll}))
      BY <1>2 DEF AggregatePresentKeys, A
    <3>3. Len(RawLines(c)) \in Nat
      BY RawLinesFact
    <3> QED
      BY <3>1, <3>2, <3>3 DEF Kept
  <2> QED
    BY <1>2, <2>3, <2>4, <2>5 DEF A
<1> QED
  BY <1>1, <1>2

\* What Resample reads for point i of the grid: the points between the
\* midpoints, and the grid's points that have some.
StepOf(cs) == IF Len(cs) > 1 THEN (cs[Len(cs)] - cs[1]) \div (Len(cs) - 1) ELSE 60000
LoOf(cs, i) == IF i = 1 THEN 2 * cs[1] - StepOf(cs) ELSE cs[i - 1] + cs[i]
HiOf(cs, i) == IF i = Len(cs) THEN 2 * cs[Len(cs)] + StepOf(cs) ELSE cs[i] + cs[i + 1]
InOf(ps, cs, i) == {j \in DOMAIN ps : 2 * ps[j].ms >= LoOf(cs, i) /\ 2 * ps[j].ms < HiOf(cs, i)}
WithData(ps, cs) == {i \in 1 .. Len(cs) : InOf(ps, cs, i) # {}}
LastIn(ps, cs, i) == Max(InOf(ps, cs, i))
MovedTo(ps, cs, i) ==
  IF InOf(ps, cs, i) = {} THEN [ms |-> cs[i], v |-> 0, slope |-> {}]
  ELSE [ps[Max(InOf(ps, cs, i))] EXCEPT !.ms = cs[i]]

MovesPoint(ps, cs, qs, i) ==
  /\ i \in DOMAIN cs /\ qs[i] = MovedTo(ps, cs, i) /\ qs[i].ms = cs[i]
  /\ InOf(ps, cs, i) = {} => qs[i].v = 0 /\ qs[i].slope = {}
  /\ InOf(ps, cs, i) # {} =>
       /\ LastIn(ps, cs, i) \in InOf(ps, cs, i)
       /\ \A e \in InOf(ps, cs, i) : e <= LastIn(ps, cs, i)
       /\ qs[i].v = ps[LastIn(ps, cs, i)].v
       /\ qs[i].slope = ps[LastIn(ps, cs, i)].slope

LEMMA ResampleFact ==
  ASSUME NEW T, NEW l \in [key : T, points : Seq(Point)], NEW cs \in Seq(Int)
  PROVE  /\ Resample(l, cs) \in [key : T, points : Seq(Point)] /\ Resample(l, cs).key = l.key
         /\ Len(Resample(l, cs).points)
              = IF WithData(l.points, cs) = {} THEN 0 ELSE Max(WithData(l.points, cs))
         /\ Len(Resample(l, cs).points) <= Len(cs)
         /\ \A i \in DOMAIN Resample(l, cs).points : MovesPoint(l.points, cs, Resample(l, cs).points, i)
<1> DEFINE ps == l.points
           end == IF WithData(ps, cs) = {} THEN 0 ELSE Max(WithData(ps, cs))
           moved == [i \in 1 .. end |-> MovedTo(ps, cs, i)]
<1>1. ps \in Seq(Point) /\ DOMAIN ps = 1 .. Len(ps) /\ Len(ps) \in Nat
  OBVIOUS
<1>2. DOMAIN cs = 1 .. Len(cs) /\ Len(cs) \in Nat /\ \A i \in DOMAIN cs : cs[i] \in Int
  OBVIOUS
<1>3. Resample(l, cs) = [l EXCEPT !.points = moved]
  BY DEF Resample, MovedTo, InOf, LoOf, HiOf, StepOf, WithData
<1>4. end \in 0 .. Len(cs)
  <2>1. WithData(ps, cs) \subseteq 1 .. Len(cs) /\ IsFiniteSet(1 .. Len(cs))
    BY <1>2, FS_Interval DEF WithData
  <2>2. IsFiniteSet(WithData(ps, cs)) /\ WithData(ps, cs) \subseteq Int
    BY <1>2, <2>1, FS_Subset
  <2>3. WithData(ps, cs) # {} => Max(WithData(ps, cs)) \in WithData(ps, cs)
    BY <2>2, Extremes
  <2> QED
    BY <1>2, <2>1, <2>3
<1>5. ASSUME NEW i, InOf(ps, cs, i) # {}
      PROVE  /\ Max(InOf(ps, cs, i)) \in InOf(ps, cs, i)
             /\ \A e \in InOf(ps, cs, i) : e <= Max(InOf(ps, cs, i))
             /\ Max(InOf(ps, cs, i)) \in DOMAIN ps
  <2>1. InOf(ps, cs, i) \subseteq DOMAIN ps
    BY DEF InOf
  <2>2. InOf(ps, cs, i) \subseteq Int /\ IsFiniteSet(InOf(ps, cs, i))
    <3>1. IsFiniteSet(DOMAIN ps) /\ DOMAIN ps \subseteq Int
      BY <1>1, FS_Interval
    <3> HIDE DEF ps
    <3> QED
      BY <2>1, <3>1, FS_Subset
  <2>3. /\ Max(InOf(ps, cs, i)) \in InOf(ps, cs, i)
        /\ \A e \in InOf(ps, cs, i) : e <= Max(InOf(ps, cs, i))
    BY <1>5, <2>2, Extremes
  <2> QED
    BY <2>1, <2>3
<1> HIDE DEF ps
<1>6. ASSUME NEW i \in DOMAIN cs
      PROVE  /\ MovedTo(ps, cs, i) \in Point /\ MovedTo(ps, cs, i).ms = cs[i]
             /\ InOf(ps, cs, i) = {} => MovedTo(ps, cs, i).v = 0 /\ MovedTo(ps, cs, i).slope = {}
             /\ InOf(ps, cs, i) # {} =>
                  /\ MovedTo(ps, cs, i).v = ps[Max(InOf(ps, cs, i))].v
                  /\ MovedTo(ps, cs, i).slope = ps[Max(InOf(ps, cs, i))].slope
  <2>1. cs[i] \in Int
    BY <1>2
  <2>2. CASE InOf(ps, cs, i) = {}
    BY <2>1, <2>2 DEF MovedTo, Point, Slope
  <2>3. CASE InOf(ps, cs, i) # {}
    <3>1. ps[Max(InOf(ps, cs, i))] \in Point
      BY <1>1, <1>5, <2>3
    <3> QED
      BY <2>1, <2>3, <3>1 DEF MovedTo, Point
  <2> QED
    BY <2>2, <2>3
<1>7. \A i \in 1 .. end : i \in DOMAIN cs
  BY <1>2, <1>4
<1> HIDE DEF end
<1>8. moved \in Seq(Point) /\ DOMAIN moved = 1 .. end /\ Len(moved) = end
  <2>1. \A i \in 1 .. end : moved[i] \in Point
    BY <1>6, <1>7
  <2> QED
    BY <1>4, <2>1
<1>9. \A i \in DOMAIN moved : i \in DOMAIN cs /\ moved[i] = MovedTo(ps, cs, i)
  BY <1>7, <1>8
<1> HIDE DEF moved
<1>10. Resample(l, cs).points = moved /\ Resample(l, cs).key = l.key
       /\ Resample(l, cs) \in [key : T, points : Seq(Point)]
  BY <1>3, <1>8
<1>11. ASSUME NEW i \in DOMAIN moved
       PROVE  MovesPoint(ps, cs, moved, i)
  BY <1>5, <1>6, <1>9 DEF LastIn, MovesPoint
<1>12. end <= Len(cs)
  BY <1>2, <1>4
<1> QED
  BY <1>8, <1>10, <1>11, <1>12 DEF ps, end

\* The lines of a choice: each checked series once, moved when an aggregate is
\* drawn, and after them the aggregates.
LEMMA LinesFact ==
  ASSUME NEW c \in Charted
  PROVE  /\ Lines(c) \in Seq(LineType(c))
         /\ \A i \in DOMAIN Lines(c) :
              Lines(c)[i].key \notin AggKeys =>
                /\ Lines(c)[i].key \in c.visible
                /\ Lines(c)[i] = Moved(c, [key |-> Lines(c)[i].key, points |-> RawLine(c, Lines(c)[i].key)])
         /\ \A k \in c.visible : \E i \in DOMAIN Lines(c) : Lines(c)[i].key = k
         /\ \A l \in ToSet(Lines(c)) : l.key \in AggKeys => l \in ToSet(ShownOf(c))
         /\ {l.key : l \in ToSet(Lines(c))} \cap AggKeys = AggregatePresentKeys(c)
         /\ Centers(c) \in Seq(Int) \/ ShownOf(c) = <<>>
<1> DEFINE raw == RawLines(c)
           shown == ShownOf(c)
           cs == Centers(c)
           moved == [i \in DOMAIN raw |-> Moved(c, raw[i])]
           R == [key : c.visible, points : Seq(Point)]
<1>1. /\ raw \in Seq(R)
      /\ \A i \in DOMAIN raw : raw[i].points = RawLine(c, raw[i].key)
      /\ \A k \in c.visible : \E i \in DOMAIN raw : raw[i].key = k
  BY RawLinesFact
<1>2. /\ shown \in Seq(AggLine) /\ {l.key : l \in ToSet(shown)} = AggregatePresentKeys(c)
  BY ShownFact
<1>3. c.visible \cap AggKeys = {}
  BY ChartedFact, KeysFact DEF Scalars
<1>4. Lines(c) = IF shown = <<>> THEN raw ELSE moved \o shown
  BY DEF Lines, ShownOf, Moved, Centers
<1> HIDE DEF raw, shown, R
<1>5. DOMAIN raw = 1 .. Len(raw) /\ Len(raw) \in Nat /\ \A i \in DOMAIN raw : raw[i] \in R
  BY <1>1
<1>6. DOMAIN shown = 1 .. Len(shown) /\ Len(shown) \in Nat
      /\ \A i \in DOMAIN shown : shown[i] \in AggLine
  BY <1>2
<1>7. shown # <<>> => cs \in Seq(Int)
  <2> HAVE shown # <<>>
  <2>1. shown[1] \in AggLine
    BY <1>6
  <2>2. shown[1].points \in Seq(Point)
    BY <2>1 DEF AggLine
  <2>3. \A i \in DOMAIN shown[1].points : shown[1].points[i].ms \in Int
    <3>1. \A i \in DOMAIN shown[1].points : shown[1].points[i] \in Point
      BY <2>2
    <3> QED
      BY <3>1 DEF Point
  <2>4. cs = [i \in 1 .. Len(shown[1].points) |-> shown[1].points[i].ms] /\ Len(shown[1].points) \in Nat
    BY <2>2 DEF Centers, shown
  <2> QED
    BY <2>2, <2>3, <2>4
<1> HIDE DEF cs
<1>8. \A i \in DOMAIN raw : Moved(c, raw[i]) \in R /\ Moved(c, raw[i]).key = raw[i].key
  <2>1. CASE shown = <<>>
    BY <1>5, <2>1 DEF Moved, shown
  <2>2. CASE shown # <<>>
    <3>1. \A i \in DOMAIN raw : Resample(raw[i], cs) \in R /\ Resample(raw[i], cs).key = raw[i].key
      BY <1>5, <1>7, <2>2, ResampleFact DEF R
    <3> QED
      BY <2>2, <3>1 DEF Moved, shown, cs
  <2> QED
    BY <2>1, <2>2
<1>9. moved \in Seq(R) /\ Len(moved) = Len(raw) /\ DOMAIN moved = DOMAIN raw
  BY <1>5, <1>8
<1>10. \A i \in DOMAIN raw : moved[i] = Moved(c, raw[i])
  OBVIOUS
<1> HIDE DEF moved
<1>11. R \subseteq LineType(c) /\ AggLine \subseteq LineType(c)
  BY DEF LineType, AggLine, R
<1>12. /\ Lines(c) \in Seq(LineType(c)) /\ Len(Lines(c)) = Len(raw) + Len(shown)
       /\ \A i \in DOMAIN raw : Lines(c)[i] = moved[i]
       /\ \A i \in DOMAIN shown : Lines(c)[Len(raw) + i] = shown[i]
  <2>1. moved \in Seq(LineType(c)) /\ shown \in Seq(LineType(c))
    <3> HIDE DEF LineType, AggLine
    <3>1. \A i \in DOMAIN moved : moved[i] \in LineType(c)
      BY <1>9, <1>11
    <3>2. \A i \in DOMAIN shown : shown[i] \in LineType(c)
      BY <1>6, <1>11
    <3> QED
      BY <1>2, <1>9, <3>1, <3>2
  <2>2. CASE shown = <<>>
    <3>1. \A i \in DOMAIN raw : moved[i] = raw[i]
      BY <1>10, <2>2 DEF Moved, shown
    <3>2. raw = moved
      BY <1>1, <1>9, <3>1
    <3>3. Len(shown) = 0
      BY <2>2
    <3> QED
      BY <1>4, <1>5, <1>6, <2>1, <2>2, <3>2, <3>3
  <2>3. CASE shown # <<>>
    <3>1. Lines(c) = moved \o shown
      BY <1>4, <2>3
    <3> HIDE DEF LineType
    <3>2. /\ moved \o shown \in Seq(LineType(c)) /\ Len(moved \o shown) = Len(moved) + Len(shown)
          /\ \A i \in 1 .. Len(moved) : (moved \o shown)[i] = moved[i]
          /\ \A i \in 1 .. Len(shown) : (moved \o shown)[Len(moved) + i] = shown[i]
      BY <2>1
    <3> QED
      BY <1>5, <1>6, <1>9, <3>1, <3>2
  <2> QED
    BY <2>2, <2>3
<1>13. \A i \in DOMAIN Lines(c) : i \in DOMAIN raw \/ i - Len(raw) \in DOMAIN shown
  BY <1>5, <1>6, <1>12
<1>14. ASSUME NEW i \in DOMAIN raw
       PROVE  /\ i \in DOMAIN Lines(c) /\ Lines(c)[i].key = raw[i].key /\ raw[i].key \in c.visible
              /\ raw[i].key \notin AggKeys
              /\ Lines(c)[i] = Moved(c, [key |-> raw[i].key, points |-> RawLine(c, raw[i].key)])
  <2>1. raw[i] = [key |-> raw[i].key, points |-> RawLine(c, raw[i].key)] /\ raw[i].key \in c.visible
    BY <1>1, <1>5 DEF R
  <2>2. i \in DOMAIN Lines(c)
    BY <1>5, <1>6, <1>12
  <2> QED
    BY <1>3, <1>8, <1>10, <1>12, <2>1, <2>2
<1>15. ASSUME NEW i \in DOMAIN shown
       PROVE  /\ Len(raw) + i \in DOMAIN Lines(c) /\ Lines(c)[Len(raw) + i] = shown[i]
              /\ shown[i].key \in AggKeys
  <2>1. shown[i].key \in AggKeys
    BY <1>6 DEF AggLine
  <2> QED
    BY <1>5, <1>6, <1>12, <2>1
<1>16. ASSUME NEW i \in DOMAIN Lines(c), i \notin DOMAIN raw
       PROVE  Lines(c)[i] \in ToSet(shown) /\ Lines(c)[i].key \in AggKeys
  <2>1. i - Len(raw) \in DOMAIN shown /\ Len(raw) + (i - Len(raw)) = i
    BY <1>5, <1>6, <1>12, <1>13, <1>16
  <2> QED
    BY <1>15, <2>1 DEF ToSet
<1>17. {l.key : l \in ToSet(Lines(c))} \cap AggKeys = {l.key : l \in ToSet(shown)}
  <2>1. ASSUME NEW l \in ToSet(Lines(c)), l.key \in AggKeys PROVE l \in ToSet(shown)
    <3>1. PICK i \in DOMAIN Lines(c) : Lines(c)[i] = l
      BY DEF ToSet
    <3> QED
      BY <1>14, <1>16, <2>1, <3>1
  <2>2. ASSUME NEW l \in ToSet(shown) PROVE l \in ToSet(Lines(c)) /\ l.key \in AggKeys
    <3>1. PICK i \in DOMAIN shown : shown[i] = l
      BY DEF ToSet
    <3> QED
      BY <1>15, <3>1 DEF ToSet
  <2> QED
    BY <2>1, <2>2
<1>18. \A l \in ToSet(Lines(c)) : l.key \in AggKeys => l \in ToSet(shown)
  <2> SUFFICES ASSUME NEW l \in ToSet(Lines(c)), l.key \in AggKeys PROVE l \in ToSet(shown)
    OBVIOUS
  <2>1. PICK i \in DOMAIN Lines(c) : Lines(c)[i] = l
    BY DEF ToSet
  <2> QED
    BY <1>14, <1>16, <2>1
<1>19. \A i \in DOMAIN Lines(c) :
         Lines(c)[i].key \notin AggKeys =>
           /\ Lines(c)[i].key \in c.visible
           /\ Lines(c)[i] = Moved(c, [key |-> Lines(c)[i].key, points |-> RawLine(c, Lines(c)[i].key)])
  BY <1>14, <1>16
<1>20. \A k \in c.visible : \E i \in DOMAIN Lines(c) : Lines(c)[i].key = k
  BY <1>1, <1>14
<1> QED
  BY <1>2, <1>7, <1>12, <1>17, <1>18, <1>19, <1>20 DEF shown, cs

\* The first index of a set of them, 0 when there is none.
FirstIn(I) == IF I # {} THEN Min(I) ELSE 0

LEMMA FirstInFact ==
  ASSUME NEW n \in Nat, NEW I \in SUBSET (1 .. n)
  PROVE  /\ FirstIn(I) \in 0 .. n
         /\ FirstIn(I) = 0 <=> I = {}
         /\ I # {} => FirstIn(I) \in I /\ Min(I) = FirstIn(I) /\ \A i \in I : FirstIn(I) <= i
<1>1. IsFiniteSet(I) /\ I \subseteq Int
  <2>1. IsFiniteSet(1 .. n)
    BY FS_Interval
  <2>2. IsFiniteSet(I)
    BY <2>1, FS_Subset
  <2> QED
    BY <2>2
<1>2. I # {} => Min(I) \in I /\ \A i \in I : Min(I) <= i
  BY <1>1, Extremes
<1>3. I # {} => Min(I) \in 1 .. n
  BY <1>2
<1> QED
  BY <1>2, <1>3 DEF FirstIn

LEMMA ClosestExists ==
  ASSUME NEW n \in Nat \ {0}, NEW f \in [1 .. n -> Int]
  PROVE  \E i \in 1 .. n : \A j \in 1 .. n : f[i] <= f[j]
<1> DEFINE S == {f[i] : i \in 1 .. n}
<1>1. IsFiniteSet(S)
  <2>1. IsFiniteSet(1 .. n) /\ DOMAIN f = 1 .. n
    BY FS_Interval
  <2> QED
    BY <2>1, ImageFinite
<1>2. S \subseteq Int /\ S # {}
  BY 1 \in 1 .. n
<1>3. Min(S) \in S /\ \A s \in S : Min(S) <= s
  BY <1>1, <1>2, Extremes
<1> QED
  BY <1>3

LEMMA LineOfFact ==
  ASSUME NEW c \in Charted, NEW k \in c.visible
  PROVE  LineOf(Lines(c), k) = Moved(c, [key |-> k, points |-> RawLine(c, k)]).points
<1> DEFINE ls == Lines(c)
           I == {i \in 1 .. Len(ls) : ls[i].key = k}
<1>1. ls \in Seq(LineType(c))
  BY LinesFact
<1>2. I # {}
  BY <1>1, LinesFact
<1>3. LineOf(ls, k) = IF FirstIn(I) = 0 THEN <<>> ELSE ls[FirstIn(I)].points
  BY DEF LineOf, SelectInSeq, FirstIn
<1>4. FirstIn(I) \in I /\ FirstIn(I) # 0
  BY <1>1, <1>2, FirstInFact
<1>5. k \notin AggKeys
  BY ChartedFact, KeysFact DEF Scalars
<1>6. ls[FirstIn(I)] = Moved(c, [key |-> k, points |-> RawLine(c, k)])
  BY <1>1, <1>4, <1>5, LinesFact
<1> QED
  BY <1>3, <1>4, <1>6

\* The line of a checked series, moved or not.
LEMMA LineOfPoints ==
  ASSUME NEW c \in Charted, NEW k \in c.visible
  PROVE  /\ LineOf(Lines(c), k) \in Seq(Point)
         /\ \A j \in DOMAIN LineOf(Lines(c), k) :
              LineOf(Lines(c), k)[j].slope # {} =>
                \E i \in DOMAIN RawLine(c, k) : RawLine(c, k)[i].slope = LineOf(Lines(c), k)[j].slope
<1> DEFINE l == [key |-> k, points |-> RawLine(c, k)]
<1>1. l \in [key : c.visible, points : Seq(Point)]
  <2>1. PICK i \in DOMAIN RawLines(c) : RawLines(c)[i].key = k
    BY RawLinesFact
  <2> DEFINE R == [key : c.visible, points : Seq(Point)]
  <2>2. RawLines(c) \in Seq(R) /\ RawLines(c)[i].points = RawLine(c, k)
    BY <2>1, RawLinesFact
  <2> HIDE DEF R
  <2>3. RawLines(c)[i] \in R
    BY <2>2
  <2> QED
    BY <2>1, <2>2, <2>3 DEF R
<1>2. LineOf(Lines(c), k) = Moved(c, l).points
  BY LineOfFact
<1>3. l.points = RawLine(c, k) /\ RawLine(c, k) \in Seq(Point)
  BY <1>1
<1> HIDE DEF l
<1>4. CASE ShownOf(c) = <<>>
  BY <1>2, <1>3, <1>4 DEF Moved
<1>5. CASE ShownOf(c) # <<>>
  <2> DEFINE cs == Centers(c)
  <2>1. cs \in Seq(Int)
    BY <1>5, LinesFact
  <2> HIDE DEF cs
  <2>2. LineOf(Lines(c), k) = Resample(l, cs).points
    BY <1>2, <1>5 DEF Moved, cs
  <2>3. Resample(l, cs) \in [key : c.visible, points : Seq(Point)]
    BY <1>1, <2>1, ResampleFact
  <2>4. ASSUME NEW j \in DOMAIN Resample(l, cs).points, Resample(l, cs).points[j].slope # {}
        PROVE  \E i \in DOMAIN l.points : l.points[i].slope = Resample(l, cs).points[j].slope
    <3>1. MovesPoint(l.points, cs, Resample(l, cs).points, j)
      BY <1>1, <2>1, <2>4, ResampleFact
    <3>2. /\ LastIn(l.points, cs, j) \in InOf(l.points, cs, j)
          /\ Resample(l, cs).points[j].slope = l.points[LastIn(l.points, cs, j)].slope
      BY <2>4, <3>1 DEF MovesPoint
    <3> QED
      BY <3>2 DEF InOf
  <2> QED
    BY <1>3, <2>2, <2>3, <2>4
<1> QED
  BY <1>4, <1>5

\* A slope is only ever told where a rate is drawn.
LEMMA SlopeIsOfADrawnRate ==
  ASSUME NEW c \in Charted, NEW k \in c.visible, NEW i \in DOMAIN RawLine(c, k), RawLine(c, k)[i].slope # {}
  PROVE  UNION {DrawnRate(r) : r \in ToSet(ViewsOf[c.m][k])} # {}
<1> DEFINE S == Spine(c.m, k)
           base == SeriesBase(c.m, k)
           rows == ViewsOf[c.m][k]
<1>1. c.m \in Scalars /\ k \in Keys(c.m)
  BY ChartedFact
<1>2. c.agg = "rate"
  <2> SUFFICES ASSUME c.agg # "rate" PROVE FALSE
    OBVIOUS
  <2>1. RawLine(c, k) = RawPoints(c.m, k)
    BY DEF RawLine
  <2> QED
    BY <1>1, <2>1, RawPointsFact
<1>3. PointsAt(RawLine(c, k), S, base, "rate")
  BY <1>1, <1>2, ViewsSpine DEF RawLine
<1>4. PICK b \in S : DrawnRate(base[b]) # {}
  <2> HIDE DEF S, base
  <2>1. PICK at \in Seq(S) :
          /\ DOMAIN at = DOMAIN RawLine(c, k)
          /\ RawLine(c, k)[i].slope # {} => DrawnRate(base[at[i]]) # {}
    BY <1>3 DEF PointsAt
  <2>2. at[i] \in S
    BY <2>1
  <2> QED
    BY <2>1, <2>2
<1>5. RowsAt(rows, S, base) /\ base \in [S -> Row]
  BY <1>1, SeriesViewsFact
<1> HIDE DEF S, base, rows
<1>6. PICK at \in Seq(S) :
        /\ ToSet(at) = S /\ DOMAIN at = DOMAIN rows
        /\ \A j \in DOMAIN rows : rows[j] = [base[at[j]] EXCEPT !.slope = rows[j].slope]
  BY <1>5 DEF RowsAt
<1>7. PICK j \in DOMAIN at : at[j] = b
  BY <1>6 DEF ToSet
<1>8. rows[j] \in Row /\ base[b] \in Row /\ rows[j].slope \in Slope
  <2>1. rows \in Seq(Row)
    BY <1>5 DEF RowsAt
  <2> HIDE DEF Row
  <2>2. rows[j] \in Row
    BY <1>6, <2>1
  <2> QED
    BY <1>5, <2>2 DEF Row
<1>9. DrawnRate(rows[j]) = DrawnRate(base[b])
  <2>1. \A r \in Row, s \in Slope : [r EXCEPT !.slope = s].n = r.n /\ [r EXCEPT !.slope = s].rate = r.rate
    BY DEF Row
  <2>2. rows[j] = [base[b] EXCEPT !.slope = rows[j].slope]
    BY <1>6, <1>7
  <2>3. rows[j].n = base[b].n /\ rows[j].rate = base[b].rate
    <3> DEFINE q == [base[b] EXCEPT !.slope = rows[j].slope]
    <3>1. q.n = base[b].n /\ q.rate = base[b].rate
      BY <1>8, <2>1
    <3>2. rows[j] = q
      BY <2>2
    <3> HIDE DEF q
    <3> QED
      BY <3>1, <3>2
  <2> QED
    BY <2>3 DEF DrawnRate
<1>10. rows[j] \in ToSet(rows)
  BY <1>6, <1>7 DEF ToSet
<1> QED
  BY <1>4, <1>9, <1>10 DEF rows

LEMMA GuideFact ==
  ASSUME NEW c \in Charted, ~ Blank(c.m), NEW k \in c.visible, NEW ms \in Int, LineOf(Lines(c), k) # <<>>
  PROVE  SelectedPointValueY(c, LineOf(Lines(c), k), ms) = {}
           <=> \E mark \in SeriesStatMarks(c, LineOf(Lines(c), k), k, ms) : mark.kind = "slope"
<1> DEFINE line == LineOf(Lines(c), k)
           near == {i \in DOMAIN line : \A j \in DOMAIN line : Abs(line[i].ms - ms) <= Abs(line[j].ms - ms)}
           segs == RateSlopeBucketSegment(line, ms)
           stats == SeriesStats(c, k)
           Mark(kind, at, y) == [kind |-> kind, ms |-> at, y |-> y]
           Of(s) == {Mark("min", Extremum(line, 1).ms, s.min)}
                      \cup (IF s.max = s.min THEN {} ELSE {Mark("max", Extremum(line, -1).ms, s.max)})
                      \cup (IF c.agg = "rate" THEN {Mark("slope", g.to.ms, g.to.v) : g \in segs}
                            ELSE IF Len(line) > 1 THEN {Mark("avg", ms, s.avg)} ELSE {})
<1>1. NearestValueAt(line, ms) # {}
  BY DEF NearestValueAt
<1>2. SeriesStatMarks(c, line, k, ms) = UNION {Of(s) : s \in stats}
  BY DEF SeriesStatMarks
<1>3. \A kind, at, y : Mark(kind, at, y).kind = kind
  OBVIOUS
<1> HIDE DEF Mark
<1>4. ASSUME NEW s PROVE (\E mark \in Of(s) : mark.kind = "slope") <=> c.agg = "rate" /\ segs # {}
  <2> HIDE DEF line, segs
  <2>1. CASE c.agg = "rate"
    BY <1>3, <2>1
  <2>2. CASE c.agg # "rate"
    BY <1>3, <2>2
  <2> QED
    BY <2>1, <2>2
<1> HIDE DEF Of
<1>5. (\E mark \in SeriesStatMarks(c, line, k, ms) : mark.kind = "slope")
        <=> stats # {} /\ c.agg = "rate" /\ segs # {}
  BY <1>2, <1>4
<1>6. SelectedPointValueY(c, line, ms) = {} <=> c.agg = "rate" /\ SelectedRateSlope(c, line, ms) # {}
  BY <1>1 DEF SelectedPointValueY
<1>7. c.agg = "rate" => (SelectedRateSlope(c, line, ms) # {} <=> segs # {})
  <2> SUFFICES ASSUME c.agg = "rate" PROVE SelectedRateSlope(c, line, ms) # {} <=> segs # {}
    OBVIOUS
  <2>1. RateSlopeOverlayAvailable(c)
    BY ChartedFact DEF RateSlopeOverlayAvailable
  <2>2. SelectedRateSlope(c, line, ms) = {g.slope : g \in segs}
    BY <2>1 DEF SelectedRateSlope
  <2> QED
    BY <2>2
<1>8. c.agg = "rate" /\ segs # {} => stats # {}
  <2> SUFFICES ASSUME c.agg = "rate", segs # {} PROVE stats # {}
    OBVIOUS
  <2>1. /\ line \in Seq(Point)
        /\ \A j \in DOMAIN line : line[j].slope # {} =>
             \E i \in DOMAIN RawLine(c, k) : RawLine(c, k)[i].slope = line[j].slope
    BY LineOfPoints
  <2> HIDE DEF line
  <2>2. DOMAIN line = 1 .. Len(line) /\ Len(line) \in Nat
    BY <2>1
  <2>3. Len(line) >= 2 /\ line[Min(near)].slope # {}
    <3>1. segs = IF Len(line) < 2 \/ Min(near) = 1 THEN {}
                 ELSE {[slope |-> s, from |-> line[Min(near) - 1], to |-> line[Min(near)]] :
                         s \in line[Min(near)].slope}
      BY DEF RateSlopeBucketSegment
    <3> HIDE DEF near, segs
    <3> QED
      BY <2>2, <3>1
  <2>4. near # {}
    <3> DEFINE f == [i \in 1 .. Len(line) |-> Abs(line[i].ms - ms)]
    <3>1. \A i \in DOMAIN line : line[i].ms \in Int
      <4>1. \A i \in DOMAIN line : line[i] \in Point
        BY <2>1
      <4> QED
        BY <4>1 DEF Point
    <3>2. f \in [1 .. Len(line) -> Int]
      BY <2>2, <3>1 DEF Abs
    <3> HIDE DEF f
    <3>3. \E i \in 1 .. Len(line) : \A j \in 1 .. Len(line) : f[i] <= f[j]
      <4>1. Len(line) \in Nat \ {0}
        BY <2>2, <2>3
      <4> HIDE DEF near
      <4> QED
        BY <3>2, <4>1, ClosestExists
    <3> QED
      BY <2>2, <3>3 DEF f
  <2>5. Min(near) \in DOMAIN line
    <3> HIDE DEF near
    <3>1. near \in SUBSET (1 .. Len(line))
      BY <2>2 DEF near
    <3> QED
      BY <2>2, <2>4, <3>1, FirstInFact
  <2>6. \E i \in DOMAIN RawLine(c, k) : RawLine(c, k)[i].slope # {}
    BY <2>1, <2>3, <2>5
  <2>7. UNION {DrawnRate(r) : r \in ToSet(ViewsOf[c.m][k])} # {}
    BY <2>6, SlopeIsOfADrawnRate
  <2> QED
    BY <2>7 DEF SeriesStats
<1> QED
  BY <1>5, <1>6, <1>7, <1>8

(* ----------------------------- the columns ------------------------------ *)

Histograms == {x \in Metrics : IsHistogram(x)}
Cells == 1 .. Len(Bounds) + 1
SliceType == [at : Int, counts : [Cells -> Nat], total : Nat]
\* The samples of a series that say what was observed.
Said(x, k) == Measured(x, DOMAIN Dps(x, k))

LEMMA CellsFact == Cells = 1 .. Len(Bounds) + 1 /\ IsFiniteSet(Cells) /\ Len(Bounds) \in Nat
<1>1. Len(Bounds) \in Nat
  BY ReductionAssumption
<1>2. IsFiniteSet(1 .. Len(Bounds) + 1)
  BY <1>1, FS_Interval
<1> QED
  BY <1>1, <1>2 DEF Cells

\* What a sample observed is a number for each bucket and one in all, and the
\* buckets add up to it unless a restart is hidden there.
LEMMA SinceFact ==
  ASSUME NEW x \in Histograms, NEW k \in Keys(x), NEW i \in Said(x, k)
  PROVE  /\ i \in DOMAIN Dps(x, k)
         /\ CountsSince(x, k, i) \in [Cells -> Nat] /\ TotalSince(x, k, i) \in Nat
         /\ ~RestartHidden(x, <<k, i>>) => TotalSince(x, k, i) = SumFunction(CountsSince(x, k, i))
<1> DEFINE v == Dps(x, k)[i].v
           before == Dps(x, k)[i - 1].v
           fell == \E j \in DOMAIN v : v[j] < before[j]
           less == [j \in Cells |-> v[j] - before[j]]
<1>1. x \in Metrics /\ Value(x) = [Cells -> Nat]
  BY DEF Histograms, Value, Cells
<1>2. i \in DOMAIN Dps(x, k) /\ (Cumulative(x) => i - 1 \in DOMAIN Dps(x, k))
  BY DEF Said, Measured
<1>3. v \in [Cells -> Nat] /\ (Cumulative(x) => before \in [Cells -> Nat])
  BY <1>1, <1>2, DpsFact
<1>4. /\ CountsSince(x, k, i) = IF ~Cumulative(x) \/ fell THEN v ELSE less
      /\ TotalSince(x, k, i) = IF ~Cumulative(x) \/ SumFunction(v) < SumFunction(before)
                               THEN SumFunction(v) ELSE SumFunction(v) - SumFunction(before)
      /\ RestartHidden(x, <<k, i>>) <=> Cumulative(x) /\ fell /\ SumFunction(v) >= SumFunction(before)
  <2>1. DOMAIN v = Cells
    BY <1>3
  <2> QED
    BY <2>1 DEF CountsSince, TotalSince, RestartHidden
<1> HIDE DEF v, before
<1>5. SumFunction(v) \in Nat
  BY <1>3, CellsFact, SumNat
<1>6. CASE ~Cumulative(x)
  BY <1>2, <1>3, <1>4, <1>5, <1>6
<1>7. CASE Cumulative(x)
  <2>1. /\ v \in [Cells -> Int] /\ before \in [Cells -> Int] /\ before \in [Cells -> Nat]
        /\ SumFunction(before) \in Nat
    BY <1>3, <1>7, CellsFact, SumNat
  <2>2. /\ SumFunction(less) = SumFunction(v) - SumFunction(before)
        /\ (\A j \in Cells : before[j] <= v[j]) => SumFunction(before) <= SumFunction(v)
    BY <2>1, CellsFact, SumLess
  <2>3. ~fell => \A j \in Cells : before[j] <= v[j]
    BY <1>3, <2>1
  <2>4. ~fell => less \in [Cells -> Nat]
    BY <1>3, <2>1, <2>3
  <2> HIDE DEF less, fell
  <2>5. CASE fell
    <3>1. CountsSince(x, k, i) = v
      BY <1>4, <2>5
    <3>2. TotalSince(x, k, i) \in Nat
      BY <1>4, <1>5, <2>1
    <3>3. ~RestartHidden(x, <<k, i>>) => TotalSince(x, k, i) = SumFunction(v)
      BY <1>4, <1>5, <1>7, <2>1, <2>5
    <3> QED
      BY <1>2, <1>3, <3>1, <3>2, <3>3
  <2>6. CASE ~fell
    <3>1. CountsSince(x, k, i) = less /\ less \in [Cells -> Nat]
      BY <1>4, <1>7, <2>4, <2>6
    <3>2. SumFunction(before) <= SumFunction(v)
      BY <2>2, <2>3, <2>6
    <3>3. TotalSince(x, k, i) = SumFunction(v) - SumFunction(before) /\ TotalSince(x, k, i) \in Nat
      BY <1>4, <1>5, <1>7, <2>1, <3>2
    <3> QED
      BY <1>2, <2>2, <3>1, <3>3
  <2> QED
    BY <2>5, <2>6
<1> QED
  BY <1>6, <1>7

LEMMA InColumnFact ==
  ASSUME NEW x \in Histograms, NEW K \in SUBSET Keys(x), NEW b
  PROVE  /\ IsFiniteSet(InColumn(x, K, b))
         /\ \A d \in InColumn(x, K, b) :
              /\ d = <<d[1], d[2]>> /\ d[1] \in K /\ d[2] \in Said(x, d[1])
              /\ BucketStart(Dps(x, d[1])[d[2]].t) = b
              /\ CountsSince(x, d[1], d[2]) \in [Cells -> Nat] /\ TotalSince(x, d[1], d[2]) \in Nat
         /\ \A k \in K : \A i \in Said(x, k) :
              BucketStart(Dps(x, k)[i].t) = b => <<k, i>> \in InColumn(x, K, b)
<1> DEFINE Of(k) == {<<k, i>> : i \in {j \in Said(x, k) : BucketStart(Dps(x, k)[j].t) = b}}
<1>0. x \in Metrics
  BY DEF Histograms
<1>1. InColumn(x, K, b) = UNION {Of(k) : k \in K}
  BY DEF InColumn, Said
<1>2. ASSUME NEW k \in K PROVE IsFiniteSet(Of(k))
  <2> DEFINE J == {j \in Said(x, k) : BucketStart(Dps(x, k)[j].t) = b}
  <2>1. IsFiniteSet(DOMAIN Dps(x, k)) /\ Said(x, k) \subseteq DOMAIN Dps(x, k)
    BY <1>0, DpsFact DEF Said, Measured
  <2>2. IsFiniteSet(J)
    BY <2>1, FS_Subset
  <2> HIDE DEF J
  <2> DEFINE f == [i \in J |-> <<k, i>>]
  <2>3. IsFiniteSet({f[i] : i \in J})
    BY <2>2, ImageFinite
  <2>4. {f[i] : i \in J} = Of(k)
    BY DEF J
  <2> QED
    BY <2>3, <2>4
<1>3. IsFiniteSet({Of(k) : k \in K})
  <2> HIDE DEF Of
  <2> DEFINE f == [k \in K |-> Of(k)]
  <2>1. IsFiniteSet(K)
    BY <1>0, KeysFact, FS_Subset
  <2>2. IsFiniteSet({f[k] : k \in K})
    BY <2>1, ImageFinite
  <2>3. {f[k] : k \in K} = {Of(k) : k \in K}
    OBVIOUS
  <2> QED
    BY <2>2, <2>3
<1>4. IsFiniteSet(InColumn(x, K, b))
  <2> HIDE DEF Of
  <2>1. \A s \in {Of(k) : k \in K} : IsFiniteSet(s)
    BY <1>2
  <2> QED
    BY <1>1, <1>3, <2>1, FS_UNION
<1>5. ASSUME NEW k \in K, NEW i \in Said(x, k)
      PROVE  CountsSince(x, k, i) \in [Cells -> Nat] /\ TotalSince(x, k, i) \in Nat
  BY SinceFact
<1>6. ASSUME NEW d \in InColumn(x, K, b)
      PROVE  /\ d = <<d[1], d[2]>> /\ d[1] \in K /\ d[2] \in Said(x, d[1])
             /\ BucketStart(Dps(x, d[1])[d[2]].t) = b
             /\ CountsSince(x, d[1], d[2]) \in [Cells -> Nat] /\ TotalSince(x, d[1], d[2]) \in Nat
  <2>1. PICK k \in K : d \in Of(k)
    BY <1>1
  <2>2. PICK i \in Said(x, k) : d = <<k, i>> /\ BucketStart(Dps(x, k)[i].t) = b
    BY <2>1
  <2> QED
    BY <1>5, <2>2
<1>7. ASSUME NEW k \in K, NEW i \in Said(x, k), BucketStart(Dps(x, k)[i].t) = b
      PROVE  <<k, i>> \in InColumn(x, K, b)
  <2>1. <<k, i>> \in Of(k)
    BY <1>7
  <2> HIDE DEF Of
  <2> QED
    BY <1>1, <2>1
<1> QED
  BY <1>4, <1>6, <1>7

LEMMA SliceFact ==
  ASSUME NEW x \in Histograms, NEW K \in SUBSET Keys(x), NEW b \in Int
  PROVE  /\ Slice(x, K, b) \in SliceType /\ Slice(x, K, b).at = b
         /\ Slice(x, K, b).total = SumFunction([d \in InColumn(x, K, b) |-> TotalSince(x, d[1], d[2])])
         /\ (\A d \in InColumn(x, K, b) : ~RestartHidden(x, d))
              => Slice(x, K, b).total = SumFunction(Slice(x, K, b).counts)
<1> DEFINE D == InColumn(x, K, b)
           f == [d \in D |-> CountsSince(x, d[1], d[2])]
           g == [d \in D |-> TotalSince(x, d[1], d[2])]
           merged == [i \in Cells |-> SumFunction([d \in D |-> f[d][i]])]
<1>1. Slice(x, K, b) = [at |-> b, counts |-> merged, total |-> SumFunction(g)]
  <2>1. Slice(x, K, b) =
          [at |-> b,
           counts |-> [i \in Cells |-> SumFunction([d \in D |-> CountsSince(x, d[1], d[2])[i]])],
           total |-> SumFunction(g)]
    BY DEF Slice, Cells
  <2>2. \A i \in Cells : [d \in D |-> CountsSince(x, d[1], d[2])[i]] = [d \in D |-> f[d][i]]
    OBVIOUS
  <2> HIDE DEF D, f, g
  <2> QED
    BY <2>1, <2>2
<1>2. /\ IsFiniteSet(D)
      /\ \A d \in D : /\ d = <<d[1], d[2]>> /\ d[1] \in K /\ d[2] \in Said(x, d[1])
                      /\ CountsSince(x, d[1], d[2]) \in [Cells -> Nat] /\ TotalSince(x, d[1], d[2]) \in Nat
  BY InColumnFact
<1> HIDE DEF D
<1>3. f \in [D -> [Cells -> Nat]] /\ g \in [D -> Nat]
  BY <1>2
<1>4. \A d \in D : ~RestartHidden(x, d) => g[d] = SumFunction(f[d])
  <2> SUFFICES ASSUME NEW d \in D, ~RestartHidden(x, d) PROVE g[d] = SumFunction(f[d])
    OBVIOUS
  <2>1. ~RestartHidden(x, <<d[1], d[2]>>) /\ d[1] \in Keys(x) /\ d[2] \in Said(x, d[1])
    BY <1>2
  <2>2. TotalSince(x, d[1], d[2]) = SumFunction(CountsSince(x, d[1], d[2]))
    BY <2>1, SinceFact
  <2> QED
    BY <2>2
<1> HIDE DEF f, g
<1>5. ASSUME NEW i \in Cells PROVE SumFunction([d \in D |-> f[d][i]]) \in Nat
  <2> DEFINE p == [d \in D |-> f[d][i]]
  <2>1. p \in [D -> Nat]
    BY <1>3
  <2> HIDE DEF p
  <2>2. SumFunction(p) \in Nat
    BY <1>2, <2>1, SumNat
  <2> QED
    BY <2>2 DEF p
<1>6. merged \in [Cells -> Nat]
  BY <1>5
<1>7. SumFunction(merged) = SumFunction([d \in D |-> SumFunction(f[d])])
  <2>1. f \in [D -> [Cells -> Int]] /\ IsFiniteSet(Cells) /\ IsFiniteSet(D)
    BY <1>2, <1>3, CellsFact
  <2> QED
    BY <2>1, SumSwapped
<1>8. ASSUME \A d \in D : ~RestartHidden(x, d) PROVE SumFunction(g) = SumFunction(merged)
  <2>1. g = [d \in D |-> SumFunction(f[d])]
    BY <1>3, <1>4, <1>8
  <2> QED
    BY <1>7, <2>1
<1> HIDE DEF merged
<1>9. SumFunction(g) \in Nat
  BY <1>2, <1>3, SumNat
<1>10. Slice(x, K, b) \in SliceType
  BY <1>1, <1>6, <1>9 DEF SliceType
<1> QED
  BY <1>1, <1>8, <1>10 DEF g, D

LEMMA StartsFact ==
  ASSUME NEW x \in Metrics, NEW K \in SUBSET Keys(x)
  PROVE  /\ ColumnStarts(x, K) \subseteq Int /\ IsFiniteSet(ColumnStarts(x, K))
         /\ \A b \in ColumnStarts(x, K) :
              b % W = 0 /\ \E k \in K : \E i \in Said(x, k) : BucketStart(Dps(x, k)[i].t) = b
         /\ \A k \in K : \A i \in Said(x, k) : BucketStart(Dps(x, k)[i].t) \in ColumnStarts(x, K)
<1> DEFINE Of(k) == {BucketStart(Dps(x, k)[i].t) : i \in Said(x, k)}
<1>1. ColumnStarts(x, K) = UNION {Of(k) : k \in K}
  BY DEF ColumnStarts, Said
<1>2. ASSUME NEW k \in K
      PROVE  /\ IsFiniteSet(Of(k)) /\ Of(k) \subseteq Int
             /\ \A b \in Of(k) : b % W = 0 /\ \E i \in Said(x, k) : BucketStart(Dps(x, k)[i].t) = b
             /\ \A i \in Said(x, k) : BucketStart(Dps(x, k)[i].t) \in Of(k)
  <2>1. /\ IsFiniteSet(Said(x, k)) /\ \A i \in Said(x, k) : Dps(x, k)[i].t \in Nat
    <3>1. /\ IsFiniteSet(DOMAIN Dps(x, k)) /\ \A i \in DOMAIN Dps(x, k) : Dps(x, k)[i].t \in Nat
      BY DpsFact
    <3>2. Said(x, k) \in SUBSET DOMAIN Dps(x, k)
      BY DEF Said, Measured
    <3> QED
      BY <3>1, <3>2, FS_Subset
  <2> DEFINE f == [i \in Said(x, k) |-> BucketStart(Dps(x, k)[i].t)]
  <2>2. IsFiniteSet({f[i] : i \in Said(x, k)})
    BY <2>1, ImageFinite
  <2>3. {f[i] : i \in Said(x, k)} = Of(k)
    OBVIOUS
  <2>4. \A t \in Nat : BucketStart(t) \in Int /\ BucketStart(t) % W = 0
    BY StartFact
  <2>5. \A b \in Of(k) : \E i \in Said(x, k) : BucketStart(Dps(x, k)[i].t) = b
    OBVIOUS
  <2>6. \A i \in Said(x, k) : BucketStart(Dps(x, k)[i].t) \in Of(k)
    OBVIOUS
  <2> QED
    BY <2>1, <2>2, <2>3, <2>4, <2>5, <2>6
<1> HIDE DEF Of
<1>3. IsFiniteSet({Of(k) : k \in K})
  <2> DEFINE f == [k \in K |-> Of(k)]
  <2>1. IsFiniteSet(K)
    BY KeysFact, FS_Subset
  <2>2. IsFiniteSet({f[k] : k \in K})
    BY <2>1, ImageFinite
  <2>3. {f[k] : k \in K} = {Of(k) : k \in K}
    OBVIOUS
  <2> QED
    BY <2>2, <2>3
<1>4. IsFiniteSet(ColumnStarts(x, K))
  <2>1. \A s \in {Of(k) : k \in K} : IsFiniteSet(s)
    BY <1>2
  <2> QED
    BY <1>1, <1>3, <2>1, FS_UNION
<1> QED
  BY <1>1, <1>2, <1>4

LEMMA ColumnsFact ==
  ASSUME NEW x \in Histograms, NEW K \in SUBSET Keys(x)
  PROVE  /\ Columns(x, K) \in Seq(SliceType)
         /\ \A i \in DOMAIN Columns(x, K) :
              /\ Columns(x, K)[i].at \in ColumnStarts(x, K)
              /\ Columns(x, K)[i] = Slice(x, K, Columns(x, K)[i].at)
         /\ \A b \in ColumnStarts(x, K) : \E i \in DOMAIN Columns(x, K) : Columns(x, K)[i].at = b
         /\ \A i, j \in DOMAIN Columns(x, K) : i < j => Columns(x, K)[i].at < Columns(x, K)[j].at
<1> DEFINE S == ColumnStarts(x, K)
           at == Ascending(S)
           cols == Columns(x, K)
<1>1. S \subseteq Int /\ IsFiniteSet(S)
  BY StartsFact DEF Histograms
<1> HIDE DEF S
<1>2. /\ at \in Seq(S) /\ ToSet(at) = S /\ Increasing(at)
  BY <1>1, AscendingFact
<1>3. cols = [i \in DOMAIN at |-> Slice(x, K, at[i])]
  BY DEF Columns, S
<1> HIDE DEF at, cols
<1>4. DOMAIN at = 1 .. Len(at) /\ Len(at) \in Nat /\ \A i \in DOMAIN at : at[i] \in S
  BY <1>2
<1>5. \A b \in Int : Slice(x, K, b) \in SliceType /\ Slice(x, K, b).at = b
  BY SliceFact
<1>6. DOMAIN cols = DOMAIN at
      /\ \A i \in DOMAIN at : cols[i] \in SliceType /\ cols[i].at = at[i] /\ cols[i] = Slice(x, K, at[i])
  BY <1>1, <1>3, <1>4, <1>5
<1>7. cols \in Seq(SliceType)
  BY <1>3, <1>4, <1>6
<1>8. \A b \in S : \E i \in DOMAIN cols : cols[i].at = b
  BY <1>2, <1>6 DEF ToSet
<1>9. \A i, j \in DOMAIN cols : i < j => cols[i].at < cols[j].at
  BY <1>2, <1>6 DEF Increasing
<1> QED
  BY <1>4, <1>6, <1>7, <1>8, <1>9 DEF S, cols

\* Two columns never read the same millisecond.
LEMMA ColumnsApart ==
  ASSUME NEW x \in Histograms, NEW K \in SUBSET Keys(x)
  PROVE  /\ \A i \in DOMAIN Columns(x, K) : Columns(x, K)[i].at \in Int /\ Columns(x, K)[i].at % W = 0
         /\ \A i \in DOMAIN Columns(x, K) : \A b \in Int :
              b % W = 0 /\ Ms(Columns(x, K)[i].at) = Ms(b) => Columns(x, K)[i].at = b
         /\ \A i, j \in DOMAIN Columns(x, K) : Columns(x, K)[i].at = Columns(x, K)[j].at => i = j
<1> DEFINE cols == Columns(x, K)
           S == ColumnStarts(x, K)
<1>1. S \subseteq Int /\ \A b \in S : b % W = 0
  BY StartsFact DEF Histograms
<1>2. /\ \A i \in DOMAIN cols : cols[i].at \in S
      /\ \A i, j \in DOMAIN cols : i < j => cols[i].at < cols[j].at
      /\ DOMAIN cols \subseteq Int
  BY ColumnsFact
<1> HIDE DEF cols, S
<1>3. \A b \in Int : b % W = 0 => b = Ms(b) * NsPerMs
  BY ClockFact
<1>4. \A i \in DOMAIN cols : cols[i].at \in Int /\ cols[i].at % W = 0
  BY <1>1, <1>2
<1>5. \A i \in DOMAIN cols : \A b \in Int : b % W = 0 /\ Ms(cols[i].at) = Ms(b) => cols[i].at = b
  BY <1>3, <1>4
<1>6. ASSUME NEW i \in DOMAIN cols, NEW j \in DOMAIN cols, cols[i].at = cols[j].at PROVE i = j
  <2>1. ~ (i < j) /\ ~ (j < i) /\ i \in Int /\ j \in Int
    BY <1>2, <1>4, <1>6
  <2> QED
    BY <2>1
<1> QED
  BY <1>4, <1>5, <1>6 DEF cols

LEMMA ColumnOfFact ==
  ASSUME NEW x \in Histograms, NEW K \in SUBSET Keys(x), NEW i \in DOMAIN Columns(x, K)
  PROVE  /\ ColumnOfMs(Columns(x, K), Ms(Columns(x, K)[i].at)) = Columns(x, K)[i].at
         /\ HeatmapColumnSelection(Columns(x, K), Columns(x, K)[i].at) = {Columns(x, K)[i]}
<1> DEFINE cols == Columns(x, K)
           b == cols[i].at
           I == {j \in 1 .. Len(cols) : Ms(cols[j].at) = Ms(b)}
           E == {j \in 1 .. Len(cols) : cols[j].at = b}
<1>1. DOMAIN cols = 1 .. Len(cols) /\ Len(cols) \in Nat
  BY ColumnsFact
<1>2. I = {i} /\ E = {i}
  BY <1>1, ColumnsApart
<1>3. ColumnOfMs(cols, Ms(b)) = IF FirstIn(I) = 0 THEN Ms(b) * NsPerMs ELSE cols[FirstIn(I)].at
  BY DEF ColumnOfMs, SelectInSeq, FirstIn
<1>4. HeatmapColumnSelection(cols, b) =
        LET n == IF FirstIn(E) = 0 THEN FirstIn(I) ELSE FirstIn(E)
        IN IF n = 0 THEN {} ELSE {cols[n]}
  BY DEF HeatmapColumnSelection, SelectInSeq, FirstIn
<1> HIDE DEF I, E, b
<1>5. FirstIn({i}) = i /\ i # 0
  <2>1. {i} \in SUBSET (1 .. Len(cols)) /\ {i} # {}
    BY <1>1
  <2> QED
    BY <1>1, <2>1, FirstInFact
<1> QED
  BY <1>2, <1>3, <1>4, <1>5 DEF b

\* What a selected column stands for is the column that starts there.
LEMMA SelectionFact ==
  ASSUME NEW x \in Histograms, NEW K \in SUBSET Keys(x), NEW b \in Int, b % W = 0,
         NEW s \in HeatmapColumnSelection(Columns(x, K), b)
  PROVE  s.at = b /\ \E i \in DOMAIN Columns(x, K) : s = Columns(x, K)[i]
<1> DEFINE cols == Columns(x, K)
           I == {j \in 1 .. Len(cols) : Ms(cols[j].at) = Ms(b)}
           E == {j \in 1 .. Len(cols) : cols[j].at = b}
           n == IF FirstIn(E) = 0 THEN FirstIn(I) ELSE FirstIn(E)
<1>1. DOMAIN cols = 1 .. Len(cols) /\ Len(cols) \in Nat
  BY ColumnsFact
<1>2. HeatmapColumnSelection(cols, b) = IF n = 0 THEN {} ELSE {cols[n]}
  BY DEF HeatmapColumnSelection, SelectInSeq, FirstIn
<1>3. I \in SUBSET (1 .. Len(cols)) /\ E \in SUBSET (1 .. Len(cols))
  OBVIOUS
<1>4. I \subseteq E
  BY <1>1, ColumnsApart
<1> HIDE DEF I
<1>5. (E = {} => FirstIn(E) = 0) /\ (E # {} => FirstIn(E) \in E) /\ (I = {} => FirstIn(I) = 0)
  <2> HIDE DEF E
  <2> QED
    BY <1>1, <1>3, FirstInFact
<1>6. n # 0 /\ s = cols[n]
  BY <1>2
<1>7. n \in E
  BY <1>4, <1>5, <1>6
<1> QED
  BY <1>1, <1>6, <1>7

\* The cells of some slices, and the instants of their columns.
LEMMA CellsOfColumns ==
  ASSUME NEW x \in Histograms, NEW K \in SUBSET Keys(x)
  PROVE  /\ HeatmapCells(Columns(x, K)) =
              UNION {{[ms |-> Ms(Columns(x, K)[i].at), row |-> j, count |-> Columns(x, K)[i].counts[j]] :
                        j \in {e \in Cells : Columns(x, K)[i].counts[e] # 0}} : i \in DOMAIN Columns(x, K)}
         /\ IsFiniteSet(HeatmapCells(Columns(x, K)))
<1> DEFINE cols == Columns(x, K)
           Of(s) == {[ms |-> Ms(s.at), row |-> j, count |-> s.counts[j]] : j \in {e \in Cells : s.counts[e] # 0}}
           f == [i \in DOMAIN cols |-> Of(cols[i])]
<1>1. cols \in Seq(SliceType)
  BY ColumnsFact
<1> HIDE DEF cols
<1>2. DOMAIN cols = 1 .. Len(cols) /\ Len(cols) \in Nat /\ \A i \in DOMAIN cols : cols[i] \in SliceType
  <2> HIDE DEF SliceType
  <2> QED
    BY <1>1
<1>3. \A i \in DOMAIN cols : DOMAIN cols[i].counts = Cells
  BY <1>2 DEF SliceType
<1>4. HeatmapCells(cols) = UNION {f[i] : i \in DOMAIN cols}
  BY <1>3 DEF HeatmapCells, ToSet
<1>5. IsFiniteSet({f[i] : i \in DOMAIN cols})
  <2>1. IsFiniteSet(DOMAIN cols)
    BY <1>2, FS_Interval
  <2> QED
    BY <2>1, ImageFinite
<1>6. \A s \in {f[i] : i \in DOMAIN cols} : IsFiniteSet(s)
  <2> SUFFICES ASSUME NEW i \in DOMAIN cols PROVE IsFiniteSet(Of(cols[i]))
    OBVIOUS
  <2> DEFINE J == {e \in Cells : cols[i].counts[e] # 0}
             g == [j \in J |-> [ms |-> Ms(cols[i].at), row |-> j, count |-> cols[i].counts[j]]]
  <2>1. IsFiniteSet(J)
    BY CellsFact, FS_Subset
  <2>2. IsFiniteSet({g[j] : j \in J})
    <3> HIDE DEF J
    <3> QED
      BY <2>1, ImageFinite
  <2>3. {g[j] : j \in J} = Of(cols[i])
    OBVIOUS
  <2> QED
    BY <2>2, <2>3
<1> HIDE DEF f
<1>7. IsFiniteSet(HeatmapCells(cols))
  BY <1>4, <1>5, <1>6, FS_UNION
<1> QED
  BY <1>4, <1>7 DEF f, cols

LEMMA SeqWider ==
  ASSUME NEW S, NEW T, S \subseteq T, NEW s \in Seq(S)
  PROVE  s \in Seq(T)
  OBVIOUS

LEMMA DomainFact ==
  ASSUME NEW x \in Histograms, NEW K \in SUBSET Keys(x)
  PROVE  /\ TimeDomain(Columns(x, K)) \in Seq(Int) /\ Increasing(TimeDomain(Columns(x, K)))
         /\ \A e \in DOMAIN TimeDomain(Columns(x, K)) :
              \E i \in DOMAIN Columns(x, K) : TimeDomain(Columns(x, K))[e] = Ms(Columns(x, K)[i].at)
<1> DEFINE cols == Columns(x, K)
           cells == HeatmapCells(cols)
           S == {d.ms : d \in cells}
<1>1. IsFiniteSet(cells)
  BY CellsOfColumns
<1>2. \A d \in cells : \E i \in DOMAIN cols : d.ms = Ms(cols[i].at)
  BY CellsOfColumns
<1>3. \A i \in DOMAIN cols : Ms(cols[i].at) \in Int
  <2>1. \A i \in DOMAIN cols : cols[i].at \in Int
    BY ColumnsApart
  <2> HIDE DEF cols
  <2> QED
    BY <2>1, ClockFact
<1> HIDE DEF cols, cells
<1>4. IsFiniteSet(S) /\ S \subseteq Int
  <2> DEFINE f == [d \in cells |-> d.ms]
  <2>1. IsFiniteSet({f[d] : d \in cells})
    BY <1>1, ImageFinite
  <2>2. {f[d] : d \in cells} = S
    OBVIOUS
  <2> QED
    BY <1>2, <1>3, <2>1, <2>2
<1>5. TimeDomain(cols) = Ascending(S)
  BY DEF TimeDomain, cells
<1> HIDE DEF S
<1>6. Ascending(S) \in Seq(S) /\ Increasing(Ascending(S))
  BY <1>4, AscendingFact
<1>7. \A e \in DOMAIN Ascending(S) : Ascending(S)[e] \in S
  BY <1>6
<1>8. Ascending(S) \in Seq(Int)
  BY <1>4, <1>6, SeqWider
<1>9. \A ms \in S : \E i \in DOMAIN cols : ms = Ms(cols[i].at)
  BY <1>2 DEF S
<1> QED
  BY <1>5, <1>6, <1>7, <1>8, <1>9 DEF cols

\* A click selects a datapoint there is, at the very millisecond when one is.
LEMMA DatapointAtFact ==
  ASSUME NEW x \in Metrics, NEW k \in Keys(x), NEW ms \in Int
  PROVE  /\ DatapointAt(x, k, ms) \in DOMAIN Dps(x, k)
         /\ \A i \in DOMAIN Dps(x, k) :
              Ms(Dps(x, k)[i].t) = ms => Ms(Dps(x, k)[DatapointAt(x, k, ms)].t) = ms
<1> DEFINE dps == Dps(x, k)
           exact == {i \in DOMAIN dps : dps[i].t = ms * NsPerMs}
           far(i) == Abs(Ms(dps[i].t) - ms)
           near == {i \in DOMAIN dps : \A j \in DOMAIN dps : far(i) <= far(j)}
<1>1. /\ DOMAIN dps = 1 .. Len(dps) /\ Len(dps) \in Nat \ {0} /\ IsFiniteSet(DOMAIN dps)
      /\ \A i \in DOMAIN dps : dps[i].t \in Nat
  BY DpsFact
<1>2. DatapointAt(x, k, ms) = IF exact # {} THEN Max(exact) ELSE Max(near)
  BY DEF DatapointAt
<1> HIDE DEF dps
<1>3. \A t \in Nat : Ms(t) \in Int
  BY ClockFact
<1>4. \A i \in DOMAIN dps : Ms(dps[i].t) \in Int
  BY <1>1, <1>3
<1>5. \A i \in DOMAIN dps : far(i) \in Nat /\ (far(i) = 0 <=> Ms(dps[i].t) = ms)
  BY <1>4 DEF Abs
<1> HIDE DEF far
<1>6. near # {}
  <2> DEFINE f == [i \in 1 .. Len(dps) |-> far(i)]
  <2>1. f \in [1 .. Len(dps) -> Int]
    BY <1>1, <1>5
  <2> HIDE DEF f
  <2>2. \E i \in 1 .. Len(dps) : \A j \in 1 .. Len(dps) : f[i] <= f[j]
    BY <1>1, <2>1, ClosestExists
  <2> QED
    BY <1>1, <2>2 DEF f
<1>7. exact \subseteq DOMAIN dps /\ near \subseteq DOMAIN dps /\ DOMAIN dps \subseteq Int
  BY <1>1
<1>8. IsFiniteSet(exact) /\ IsFiniteSet(near)
  BY <1>1, FS_Subset
<1>9. ASSUME NEW i \in DOMAIN dps, Ms(dps[i].t) = ms, NEW j \in near PROVE Ms(dps[j].t) = ms
  BY <1>5, <1>9
<1>10. \A i \in exact : Ms(dps[i].t) = ms
  BY ClockFact
<1> HIDE DEF exact, near
<1>11. (exact # {} => Max(exact) \in exact) /\ Max(near) \in near
  <2>1. exact \subseteq Int /\ near \subseteq Int
    BY <1>7
  <2> QED
    BY <1>6, <1>8, <2>1, Extremes
<1>12. CASE exact # {}
  BY <1>2, <1>7, <1>10, <1>11, <1>12 DEF dps
<1>13. CASE exact = {}
  BY <1>2, <1>7, <1>9, <1>11, <1>13 DEF dps
<1> QED
  BY <1>12, <1>13

(* ---------------------------- the invariant ----------------------------- *)

Single(S) == S = {} \/ \E p : S = {p}

LEMMA SingleFact ==
  /\ \A S : Single(S) => Cardinality(S) <= 1
  /\ Single({}) /\ \A p : Single({p})
  /\ \A S, K : Single(S) => Single(KeptWith(S, K))
<1>1. Cardinality({}) = 0
  BY FS_EmptySet
<1>2. \A p : Cardinality({p}) = 1
  BY FS_Singleton
<1>3. ASSUME NEW S, Single(S) PROVE Cardinality(S) <= 1
  <2>1. S = {} => Cardinality(S) = 0
    BY <1>1
  <2>2. (\E p : S = {p}) => Cardinality(S) = 1
    BY <1>2
  <2> QED
    BY <1>3, <2>1, <2>2 DEF Single
<1>4. ASSUME NEW S, NEW K, Single(S) PROVE Single(KeptWith(S, K))
  BY <1>4 DEF Single, KeptWith
<1>5. Single({}) /\ \A p : Single({p})
  BY DEF Single
<1> QED
  BY <1>3, <1>4, <1>5

\* Every choice is one the metric offers.
Chosen ==
  /\ m \in Metrics /\ visible \in SUBSET Keys(m) /\ showAll \in BOOLEAN
  /\ agg \in AvailableAggregationViews(m)
  /\ Single(dp) /\ dp \subseteq UNION {DatapointsOf(m, k) : k \in visible}
  /\ tab \in Tabs /\ scope \in Scopes /\ overlay \in Quantiles /\ pane \in Panes
  /\ Single(bucket) /\ (bucket = {} => qkey = {})
  /\ pin \subseteq 1 .. Len(Bounds) + 1
\* What is drawn is what the choice asks for.
DrawnAnew == lines = DrawnLines(Choice) /\ slices = DrawnSlices(Choice)
\* A selected column starts where a column may.
ColumnKept == \A b \in bucket : Hist /\ b \in Int /\ b % W = 0
\* What the last click hit is still what is shown.
LineHit ==
  click.kind = "line" =>
    /\ ~Hist /\ click.key \in visible /\ click.agg = agg /\ click.ms \in Int
    /\ click.dp = <<click.key, DatapointAt(m, click.key, click.ms)>>
ColumnHit ==
  click.kind = "column" =>
    /\ Hist /\ click.px \in Pixels
    /\ \A b \in bucket :
         \E ms \in ClickedColumn(TimeDomain(slices), pane, click.px) : b = ColumnOfMs(slices, ms)
Kept == Chosen /\ ColumnKept /\ LineHit /\ ColumnHit /\ PinFollowsDatapoint
ChartsInv == Kept /\ DrawnAnew

LEMMA ViewsOffered ==
  ASSUME NEW x \in Metrics
  PROVE  SeededView(x) \in AvailableAggregationViews(x)
  BY DEF SeededView, AvailableAggregationViews

\* A choice of a metric that is drawn with lines is one they are computed for.
LEMMA ChoiceCharted ==
  ASSUME ChartsInv, ~Hist
  PROVE  Choice \in Charted /\ Choice.m = m /\ Choice.visible = visible /\ Choice.agg = agg
         /\ Choice.all = showAll /\ lines = Lines(Choice)
<1>1. m \in {x \in Metrics : IsScalar(x)}
  BY DEF ChartsInv, Kept, Chosen, Hist, IsScalar
<1>2. Choice \in Charted
  <2> DEFINE Of(x) == {[m |-> x, visible |-> s, agg |-> a, all |-> b] :
                         s \in SUBSET Keys(x), a \in AvailableAggregationViews(x), b \in BOOLEAN}
  <2>1. Choice \in Of(m)
    <3>1. visible \in SUBSET Keys(m) /\ agg \in AvailableAggregationViews(m) /\ showAll \in BOOLEAN
      BY DEF ChartsInv, Kept, Chosen
    <3>2. Choice = [m |-> m, visible |-> visible, agg |-> agg, all |-> showAll]
      BY DEF Choice
    <3> HIDE DEF Choice
    <3> QED
      <4>1. ASSUME NEW x, NEW s \in SUBSET Keys(x), NEW a \in AvailableAggregationViews(x), NEW b \in BOOLEAN
            PROVE  [m |-> x, visible |-> s, agg |-> a, all |-> b] \in Of(x)
        <5> DEFINE C(p, q, r) == [m |-> x, visible |-> p, agg |-> q, all |-> r]
        <5>1. Of(x) = {C(p, q, r) : p \in SUBSET Keys(x), q \in AvailableAggregationViews(x), r \in BOOLEAN}
          OBVIOUS
        <5>2. C(s, a, b) = [m |-> x, visible |-> s, agg |-> a, all |-> b]
          OBVIOUS
        <5> HIDE DEF C, Of
        <5> QED
          BY <5>1, <5>2
      <4> HIDE DEF Of
      <4> QED
        BY <3>1, <3>2, <4>1
  <2>2. Charted = UNION {Of(x) : x \in {y \in Metrics : IsScalar(y)}}
    BY DEF Charted
  <2> HIDE DEF Of
  <2> QED
    BY <1>1, <2>1, <2>2
<1>3. lines = LinesOf[Choice]
  BY DEF ChartsInv, DrawnAnew, DrawnLines, Choice, Hist
<1> QED
  BY <1>2, <1>3 DEF LinesOf, Choice

LEMMA ChoiceColumns ==
  ASSUME ChartsInv, Hist
  PROVE  m \in Histograms /\ visible \in SUBSET Keys(m) /\ slices = Columns(m, visible)
<1>1. m \in Histograms /\ visible \in SUBSET Keys(m)
  BY DEF ChartsInv, Kept, Chosen, Hist, Histograms
<1>2. slices = ColumnsOf[m][visible]
  BY DEF ChartsInv, DrawnAnew, DrawnSlices, Choice, Hist
<1> QED
  BY <1>1, <1>2 DEF ColumnsOf, Histograms

LEMMA ChartsInit ==
  ASSUME Init
  PROVE  ChartsInv
<1>1. Chosen
  <2>1. Single({})
    BY SingleFact
  <2> QED
    BY <2>1, ViewsOffered DEF Init, Chosen, Tabs, Scopes, Quantiles
<1>2. click.kind = "none"
  BY DEF Init, NoClick
<1>3. ColumnKept /\ LineHit /\ ColumnHit /\ PinFollowsDatapoint
  BY <1>2 DEF Init, ColumnKept, LineHit, ColumnHit, PinFollowsDatapoint
<1> QED
  BY <1>1, <1>3 DEF ChartsInv, Kept, DrawnAnew, Init

LEMMA RepinKeeps ==
  ASSUME Kept, Repin, pinnedOn' = pinnedOn
  PROVE  PinFollowsDatapoint' /\ pin' \subseteq 1 .. Len(Bounds) + 1
<1>1. pin \subseteq 1 .. Len(Bounds) + 1 /\ PinFollowsDatapoint
  BY DEF Kept, Chosen
<1>2. ShownBars' = ShownBars2
  BY DEF ShownBars, ShownBars2
<1>3. CASE ShownBars2 # ShownBars \/ scope' # "window"
  <2>1. pin' = {}
    BY <1>3 DEF Repin
  <2> QED
    BY <2>1 DEF PinFollowsDatapoint
<1>4. CASE ~ (ShownBars2 # ShownBars \/ scope' # "window")
  <2>1. pin' = pin
    BY <1>4 DEF Repin
  <2> QED
    BY <1>1, <1>2, <1>4, <2>1 DEF PinFollowsDatapoint
<1> QED
  BY <1>3, <1>4

LEMMA PinStays ==
  ASSUME Kept, UNCHANGED <<m, visible, tab, scope, pin, pinnedOn>>, dp' = dp \/ ~Hist
  PROVE  PinFollowsDatapoint' /\ pin' \subseteq 1 .. Len(Bounds) + 1
<1>1. ShownBars' = ShownBars
  BY DEF ShownBars, HistogramChartDatapoint, Hist
<1> QED
  BY <1>1 DEF Kept, Chosen, PinFollowsDatapoint

LEMMA Unclicked ==
  ASSUME click' = NoClick
  PROVE  LineHit' /\ ColumnHit'
  BY DEF LineHit, ColumnHit, NoClick

LEMMA SelectMetricKeeps ==
  ASSUME Kept, NEW x \in Metrics, NEW t \in Tabs, NEW s \in Scopes, SelectMetric(x, t, s)
  PROVE  Kept'
<1>1. PinFollowsDatapoint' /\ pin' \subseteq 1 .. Len(Bounds) + 1
  BY RepinKeeps DEF SelectMetric
<1>2. LineHit' /\ ColumnHit'
  BY Unclicked DEF SelectMetric
<1>3. Single({})
  BY SingleFact
<1>4. Chosen'
  BY <1>1, <1>3, ViewsOffered DEF SelectMetric, Kept, Chosen, Quantiles
<1>5. ColumnKept'
  BY DEF SelectMetric, ColumnKept
<1> QED
  BY <1>1, <1>2, <1>4, <1>5 DEF Kept

LEMMA ToggleKeeps ==
  ASSUME Kept, NEW k \in Keys(m), ToggleTimeseriesVisible(k)
  PROVE  Kept'
<1>1. PinFollowsDatapoint' /\ pin' \subseteq 1 .. Len(Bounds) + 1
  BY RepinKeeps DEF ToggleTimeseriesVisible
<1>2. LineHit' /\ ColumnHit'
  BY Unclicked DEF ToggleTimeseriesVisible
<1>3. visible' \in SUBSET Keys(m) /\ m' = m
  BY DEF ToggleTimeseriesVisible, Kept, Chosen
<1>4. Single(dp')
  BY SingleFact DEF ToggleTimeseriesVisible, Kept, Chosen
<1>5. dp' \subseteq UNION {DatapointsOf(m, j) : j \in visible'}
  <2> SUFFICES ASSUME NEW p \in dp, p[1] \in visible'
               PROVE  p \in UNION {DatapointsOf(m, j) : j \in visible'}
    BY DEF ToggleTimeseriesVisible, KeptWith
  <2>1. PICK j \in visible : p \in DatapointsOf(m, j)
    BY DEF Kept, Chosen
  <2>2. p[1] = j
    BY <2>1 DEF DatapointsOf
  <2> QED
    BY <2>1, <2>2
<1>6. Chosen'
  <2>1. UNCHANGED <<m, agg, showAll, tab, scope, bucket, qkey, overlay, pane>>
    BY DEF ToggleTimeseriesVisible
  <2>2. UNION {DatapointsOf(m, j) : j \in visible'} = UNION {DatapointsOf(m', j) : j \in visible'}
    BY <2>1
  <2> QED
    BY <1>1, <1>3, <1>4, <1>5, <2>1, <2>2 DEF Kept, Chosen
<1>7. ColumnKept'
  BY DEF ToggleTimeseriesVisible, Kept, ColumnKept, Hist
<1> QED
  BY <1>1, <1>2, <1>6, <1>7 DEF Kept

LEMMA ViewKeeps ==
  ASSUME Kept, (\E a \in Views : SetAggregationView(a)) \/ SetShowAllSeriesAggregate
  PROVE  Kept'
<1>1. /\ ~Hist /\ click' = NoClick /\ UNCHANGED <<m, visible, dp, histogramVars>>
      /\ agg' \in AvailableAggregationViews(m) /\ showAll' \in BOOLEAN
  BY DEF SetAggregationView, SetShowAllSeriesAggregate, Kept, Chosen
<1>2. LineHit' /\ ColumnHit'
  BY <1>1, Unclicked
<1>3. PinFollowsDatapoint' /\ pin' \subseteq 1 .. Len(Bounds) + 1
  BY <1>1, PinStays DEF histogramVars
<1>4. Chosen' /\ ColumnKept'
  BY <1>1 DEF Kept, Chosen, ColumnKept, histogramVars, Hist
<1> QED
  BY <1>2, <1>3, <1>4 DEF Kept

LEMMA DatapointClickKeeps ==
  ASSUME Kept, NEW k \in Keys(m), NEW p \in DatapointsOf(m, k), OnDatapointClick(p)
  PROVE  Kept'
<1>1. PinFollowsDatapoint' /\ pin' \subseteq 1 .. Len(Bounds) + 1
  BY RepinKeeps DEF OnDatapointClick
<1>2. LineHit' /\ ColumnHit'
  BY Unclicked DEF OnDatapointClick
<1>3. Single(dp') /\ Single({})
  BY SingleFact DEF OnDatapointClick
<1>4. dp' \subseteq UNION {DatapointsOf(m, j) : j \in visible}
  <2>1. p[1] = k
    BY DEF DatapointsOf
  <2>2. k \in visible
    BY <2>1 DEF OnDatapointClick
  <2>3. dp' \subseteq {p}
    BY DEF OnDatapointClick
  <2> QED
    BY <2>2, <2>3
<1>5. Chosen' /\ ColumnKept'
  BY <1>1, <1>3, <1>4 DEF OnDatapointClick, Kept, Chosen, ColumnKept, Tabs, Scopes
<1> QED
  BY <1>1, <1>2, <1>5 DEF Kept

LEMMA PointClickKeeps ==
  ASSUME Kept, ~Hist, NEW k \in visible, NEW ms \in Int, NEW y, OnChartPointClick(k, ms, y)
  PROVE  Kept'
<1>1. /\ UNCHANGED <<m, visible, agg, showAll, histogramVars>>
      /\ dp' = {<<k, DatapointAt(m, k, ms)>>}
      /\ click' = [kind |-> "line", key |-> k, ms |-> ms, y |-> y, agg |-> agg,
                   dp |-> <<k, DatapointAt(m, k, ms)>>]
  BY DEF OnChartPointClick
<1>2. PinFollowsDatapoint' /\ pin' \subseteq 1 .. Len(Bounds) + 1
  BY <1>1, PinStays DEF histogramVars
<1>3. m \in Metrics /\ k \in Keys(m) /\ Hist' = Hist
  BY <1>1 DEF Kept, Chosen, Hist
<1>4. Single(dp') /\ dp' \subseteq UNION {DatapointsOf(m, j) : j \in visible}
  <2>1. DatapointAt(m, k, ms) \in DOMAIN Dps(m, k)
    BY <1>3, DatapointAtFact
  <2>2. <<k, DatapointAt(m, k, ms)>> \in DatapointsOf(m, k)
    BY <2>1 DEF DatapointsOf, Hist
  <2>3. Single(dp')
    BY <1>1, SingleFact
  <2> QED
    BY <1>1, <2>2, <2>3
<1>5. LineHit'
  BY <1>1, <1>3 DEF LineHit
<1>6. ColumnHit'
  <2>1. click'.kind = "line"
    BY <1>1
  <2> QED
    BY <2>1 DEF ColumnHit
<1>7. Chosen' /\ ColumnKept'
  BY <1>1, <1>2, <1>3, <1>4 DEF Kept, Chosen, ColumnKept, histogramVars
<1> QED
  BY <1>2, <1>5, <1>6, <1>7 DEF Kept

LEMMA ControlsKeep ==
  ASSUME Kept,
         \/ \E t \in Tabs : SetActiveHistogramTab(t)
         \/ \E s \in Scopes : SetHistogramScope(s)
         \/ \E q \in Quantiles : SetActiveQuantileOverlay(q)
         \/ \E w \in Panes : Resize(w)
         \/ \E i \in 1 .. Len(Bounds) + 1 : ClickBar(i)
  PROVE  Kept'
<1>1. /\ click' = NoClick /\ UNCHANGED <<m, visible, agg, showAll, dp, bucket, qkey>>
      /\ tab' \in Tabs /\ scope' \in Scopes /\ overlay' \in Quantiles /\ pane' \in Panes
  BY DEF SetActiveHistogramTab, SetHistogramScope, SetActiveQuantileOverlay, Resize, ClickBar, Kept, Chosen
<1>2. LineHit' /\ ColumnHit'
  BY <1>1, Unclicked
<1>3. PinFollowsDatapoint' /\ pin' \subseteq 1 .. Len(Bounds) + 1
  <2>1. CASE \/ \E t \in Tabs : SetActiveHistogramTab(t)
             \/ \E s \in Scopes : SetHistogramScope(s)
    BY <2>1, RepinKeeps DEF SetActiveHistogramTab, SetHistogramScope
  <2>2. CASE \/ \E q \in Quantiles : SetActiveQuantileOverlay(q)
             \/ \E w \in Panes : Resize(w)
    <3>1. UNCHANGED <<m, visible, tab, scope, pin, pinnedOn, dp>>
      BY <2>2 DEF SetActiveQuantileOverlay, Resize
    <3> QED
      BY <3>1, PinStays
  <2>3. CASE \E i \in 1 .. Len(Bounds) + 1 : ClickBar(i)
    <3>1. /\ scope' = "window" /\ pinnedOn' = ShownBars /\ pin' \subseteq 1 .. Len(Bounds) + 1
          /\ UNCHANGED <<m, tab, scope, visible, dp>>
      BY <2>3 DEF ClickBar
    <3>2. ShownBars' = ShownBars
      BY <3>1 DEF ShownBars
    <3> QED
      BY <3>1, <3>2 DEF PinFollowsDatapoint
  <2> QED
    BY <2>1, <2>2, <2>3
<1>4. Chosen' /\ ColumnKept'
  BY <1>1, <1>3 DEF Kept, Chosen, ColumnKept, Hist
<1> QED
  BY <1>2, <1>3, <1>4 DEF Kept

\* A set of indices with all before each of them is counted by its last.
LEMMA SegmentFact ==
  ASSUME NEW n \in Nat, NEW I \in SUBSET (1 .. n), \A i \in I : \A j \in 1 .. n : j <= i => j \in I
  PROVE  Cardinality(I) \in 0 .. n /\ I = 1 .. Cardinality(I)
<1>1. CASE I = {}
  <2>1. Cardinality(I) = 0
    BY <1>1, FS_EmptySet
  <2> QED
    BY <1>1, <2>1
<1>2. CASE I # {}
  <2> DEFINE c == Max(I)
  <2>1. IsFiniteSet(1 .. n)
    BY FS_Interval
  <2>2. IsFiniteSet(I) /\ I \subseteq Int
    <3>1. IsFiniteSet(I)
      BY <2>1, FS_Subset
    <3> QED
      BY <3>1
  <2>3. c \in I /\ \A i \in I : i <= c
    BY <1>2, <2>2, Extremes
  <2> HIDE DEF c
  <2>4. I = 1 .. c /\ c \in 1 .. n
    <3>1. c \in 1 .. n /\ \A i \in I : i \in 1 .. n /\ i <= c
      BY <2>3
    <3>2. \A j \in 1 .. n : j <= c => j \in I
      BY <2>3
    <3>3. ASSUME NEW j \in 1 .. c PROVE j \in I
      BY <3>1, <3>2
    <3>4. ASSUME NEW j \in I PROVE j \in 1 .. c
      BY <3>1
    <3> QED
      BY <3>1, <3>3, <3>4
  <2>5. Cardinality(1 .. c) = c
    BY <2>4, FS_Interval
  <2> QED
    BY <2>4, <2>5
<1> QED
  BY <1>1, <1>2

\* What a chart reads at an instant is a point of the line, and one at that
\* instant when the line is in order and has one.
LEMMA NearestPointFact ==
  ASSUME NEW points \in Seq(Point), points # <<>>, NEW ms \in Int
  PROVE  /\ \E i \in DOMAIN points : NearestPoint(points, ms) = points[i]
         /\ (\A i, j \in DOMAIN points : i <= j => points[i].ms <= points[j].ms)
            /\ (\E i \in DOMAIN points : points[i].ms = ms)
              => \E i \in DOMAIN points : NearestPoint(points, ms) = points[i] /\ points[i].ms = ms
<1> DEFINE n == Len(points)
           I == {j \in 1 .. n : points[j].ms < ms}
           e == Cardinality(I) + 1
           lo == IF e > 1 THEN e - 1 ELSE 1
           hi == IF e <= n THEN e ELSE n
<1>1. DOMAIN points = 1 .. n /\ n \in Nat \ {0} /\ \A i \in DOMAIN points : points[i].ms \in Int
  <2>1. \A i \in DOMAIN points : points[i] \in Point
    OBVIOUS
  <2> QED
    BY <2>1 DEF Point
<1>2. NearestPoint(points, ms) =
        IF Abs(points[lo].ms - ms) <= Abs(points[hi].ms - ms) THEN points[lo] ELSE points[hi]
  BY DEF NearestPoint
<1> HIDE DEF n
<1>3. Cardinality(I) \in 0 .. n
  <2>1. IsFiniteSet(1 .. n) /\ Cardinality(1 .. n) = n
    BY <1>1, FS_Interval
  <2>2. IsFiniteSet(I) /\ Cardinality(I) <= Cardinality(1 .. n) /\ Cardinality(I) \in Nat
    BY <2>1, FS_Subset, FS_CardinalityType
  <2> QED
    BY <1>1, <2>1, <2>2
<1>4. lo \in 1 .. n /\ hi \in 1 .. n
  <2> HIDE DEF I
  <2> QED
    BY <1>1, <1>3
<1>5. \E i \in DOMAIN points : NearestPoint(points, ms) = points[i]
  <2> HIDE DEF lo, hi
  <2> QED
    BY <1>1, <1>2, <1>4
<1>6. ASSUME \A i, j \in DOMAIN points : i <= j => points[i].ms <= points[j].ms,
             NEW i \in DOMAIN points, points[i].ms = ms
      PROVE  \E j \in DOMAIN points : NearestPoint(points, ms) = points[j] /\ points[j].ms = ms
  <2>1. I \in SUBSET (1 .. n) /\ \A a \in I : \A b \in 1 .. n : b <= a => b \in I
    BY SMTT(20), <1>1, <1>6
  <2>2. I = 1 .. Cardinality(I)
    <3> HIDE DEF I
    <3> QED
      BY <1>1, <2>1, SegmentFact
  <2>3. i \notin I /\ i \in 1 .. n
    BY <1>1, <1>6
  <2>4. e <= i /\ e \in 1 .. n /\ e \notin I
    <3> HIDE DEF I
    <3> QED
      BY <1>1, <1>3, <2>2, <2>3
  <2>5. points[e].ms = ms
    <3> HIDE DEF e
    <3>1. points[e].ms <= points[i].ms /\ ~ (points[e].ms < ms)
      BY <1>1, <1>6, <2>4
    <3> QED
      BY <1>1, <1>6, <2>4, <3>1
  <2>6. hi = e
    <3> HIDE DEF e
    <3> QED
      BY <2>4
  <2> HIDE DEF lo, hi, e
  <2>7. Abs(points[hi].ms - ms) = 0
    BY <2>5, <2>6 DEF Abs
  <2>8. Abs(points[lo].ms - ms) <= 0 => points[lo].ms = ms
    BY <1>1, <1>4 DEF Abs
  <2> QED
    BY <1>1, <1>2, <1>4, <2>5, <2>6, <2>7, <2>8
<1> QED
  BY <1>5, <1>6

\* What is drawn as lines, and clicked.
LEMMA DrawnPoints ==
  ASSUME ChartsInv, ~Hist
  PROVE  /\ DOMAIN lines = 1 .. Len(lines) /\ Len(lines) \in Nat
         /\ \A i \in DOMAIN lines : lines[i].points \in Seq(Point)
                                    /\ (lines[i].key \notin AggKeys => lines[i].key \in visible)
<1> DEFINE T == LineType(Choice)
<1>1. Choice \in Charted /\ lines = Lines(Choice) /\ Choice.visible = visible
  BY ChoiceCharted
<1>2. lines \in Seq(T)
  BY <1>1, LinesFact
<1> HIDE DEF T
<1>3. DOMAIN lines = 1 .. Len(lines) /\ Len(lines) \in Nat /\ \A i \in DOMAIN lines : lines[i] \in T
  BY <1>2
<1>4. \A i \in DOMAIN lines : lines[i].key \notin AggKeys => lines[i].key \in visible
  BY <1>1, LinesFact
<1>5. \A l \in T : l.points \in Seq(Point)
  BY DEF T, LineType
<1> QED
  BY <1>3, <1>4, <1>5

\* The plot names a series that is drawn.
LEMMA PointerFact ==
  ASSUME ChartsInv, ~Hist, NEW ms \in Int, NEW y \in Int, NEW k \in SeriesKeyAtPointer(lines, ms, y)
  PROVE  k \in visible
<1> DEFINE raw == {i \in DOMAIN lines : lines[i].key \notin AggKeys /\ lines[i].points # <<>>}
           dist(i) == Abs(NearestPoint(lines[i].points, ms).v - y)
           best == {i \in raw : \A j \in raw : dist(i) <= dist(j)}
           f == [i \in raw |-> dist(i)]
           S == {f[i] : i \in raw}
<1>1. raw # {} /\ k = lines[Min(best)].key
  BY DEF SeriesKeyAtPointer
<1>2. /\ DOMAIN lines = 1 .. Len(lines) /\ Len(lines) \in Nat
      /\ \A i \in DOMAIN lines : lines[i].points \in Seq(Point)
                                 /\ (lines[i].key \notin AggKeys => lines[i].key \in visible)
  BY DrawnPoints
<1>3. ASSUME NEW i \in raw PROVE dist(i) \in Int
  <2>1. \E j \in DOMAIN lines[i].points : NearestPoint(lines[i].points, ms) = lines[i].points[j]
    BY <1>2, NearestPointFact
  <2>2. NearestPoint(lines[i].points, ms) \in Point
    BY <1>2, <2>1
  <2>3. NearestPoint(lines[i].points, ms).v \in Int
    BY <2>2 DEF Point
  <2> QED
    BY <2>3 DEF Abs
<1> HIDE DEF dist
<1>4. IsFiniteSet(raw) /\ raw \in SUBSET (1 .. Len(lines))
  <2>1. IsFiniteSet(DOMAIN lines)
    BY <1>2, FS_Interval
  <2> QED
    BY <1>2, <2>1, FS_Subset
<1>5. \A i \in raw : i \in DOMAIN lines /\ lines[i].key \notin AggKeys
  OBVIOUS
<1> HIDE DEF raw
<1>6. IsFiniteSet(S)
  BY <1>4, ImageFinite
<1>7. S \subseteq Int /\ S # {}
  BY <1>1, <1>3
<1>8. Min(S) \in S /\ \A s \in S : Min(S) <= s
  <2> HIDE DEF S
  <2> QED
    BY <1>6, <1>7, Extremes
<1>9. best # {}
  <2>1. PICK i \in raw : f[i] = Min(S)
    BY <1>8
  <2>2. \A j \in raw : f[i] <= f[j]
    BY <1>8, <2>1
  <2> QED
    BY <2>1, <2>2
<1>10. best \in SUBSET (1 .. Len(lines)) /\ best \subseteq raw
  BY <1>4
<1> HIDE DEF best
<1>11. Min(best) \in best
  BY <1>2, <1>9, <1>10, FirstInFact
<1> QED
  BY <1>1, <1>2, <1>5, <1>10, <1>11

LEMMA LineClicksKeep ==
  ASSUME ChartsInv,
         \/ ~Hist /\ \E ms \in Stops, y \in Heights : ClickPlot(ms, y)
         \/ ~Hist /\ \E l \in ToSet(lines) : \E i \in DOMAIN l.points : ClickPoint(l, i)
  PROVE  Kept'
<1>0. Kept /\ ~Hist
  BY DEF ChartsInv
<1>1. \A i \in DOMAIN lines : lines[i].points \in Seq(Point)
                              /\ (lines[i].key \notin AggKeys => lines[i].key \in visible)
  BY <1>0, DrawnPoints
<1>2. \A i \in DOMAIN lines : \A j \in DOMAIN lines[i].points : lines[i].points[j].ms \in Int
  <2> SUFFICES ASSUME NEW i \in DOMAIN lines, NEW j \in DOMAIN lines[i].points
               PROVE  lines[i].points[j].ms \in Int
    OBVIOUS
  <2>1. lines[i].points[j] \in Point
    BY <1>1
  <2> QED
    BY <2>1 DEF Point
<1>3. CASE \E ms \in Stops, y \in Heights : ClickPlot(ms, y)
  <2>1. PICK ms \in Stops, y \in Heights : ClickPlot(ms, y)
    BY <1>3
  <2>2. ms \in Int
    <3>1. PICK l \in ToSet(lines) : \E p \in ToSet(l.points) : ms = p.ms
      BY DEF Stops
    <3> QED
      BY <1>2, <3>1 DEF ToSet
  <2>3. y \in Int
    BY ChartsAssumption
  <2>4. PICK k \in SeriesKeyAtPointer(lines, ms, y) : OnChartPointClick(k, ms, y)
    BY <2>1 DEF ClickPlot
  <2>5. k \in visible
    BY <1>0, <2>2, <2>3, PointerFact
  <2> QED
    BY <1>0, <2>2, <2>4, <2>5, PointClickKeeps
<1>4. CASE \E l \in ToSet(lines) : \E i \in DOMAIN l.points : ClickPoint(l, i)
  <2>1. PICK l \in ToSet(lines) : \E i \in DOMAIN l.points : ClickPoint(l, i)
    BY <1>4
  <2>2. PICK i \in DOMAIN l.points : ClickPoint(l, i)
    BY <2>1
  <2>3. PICK e \in DOMAIN lines : lines[e] = l
    BY DEF ToSet
  <2>4. l.key \in visible /\ l.points[i].ms \in Int /\ OnChartPointClick(l.key, l.points[i].ms, l.points[i].v)
    BY <1>1, <1>2, <2>2, <2>3 DEF ClickPoint
  <2> QED
    BY <1>0, <2>4, PointClickKeeps
<1> QED
  BY <1>3, <1>4

\* A click in the plot hits an instant of the domain.
LEMMA ClickedFact ==
  ASSUME NEW domain \in Seq(Int), NEW px \in Nat, NEW w \in Nat, NEW ms \in ClickedColumn(domain, w, px)
  PROVE  \E i \in DOMAIN domain :
           /\ ms = domain[i] /\ Len(domain) > 0 /\ PlotWidth(w, Len(domain)) # 0
           /\ i = (px * Len(domain)) \div PlotWidth(w, Len(domain)) + 1
<1> DEFINE n == Len(domain)
           width == PlotWidth(w, n)
           i == IF width = 0 THEN 0 ELSE (px * n) \div width + 1
<1>1. n > 0 /\ i \in 1 .. n /\ ms = domain[i]
  BY DEF ClickedColumn
<1> QED
  BY <1>1

LEMMA HeatmapClickKeeps ==
  ASSUME ChartsInv, NEW px \in Pixels, ClickHeatmap(px), DrawnAnew'
  PROVE  Kept'
<1> DEFINE domain == TimeDomain(slices)
<1>0. Kept /\ Hist /\ px \in Nat /\ pane \in Nat
  BY ChartsAssumption DEF ChartsInv, ClickHeatmap, Kept, Chosen
<1>1. PICK ms \in ClickedColumn(domain, pane, px) : OnHeatmapSelect(ms)
  BY DEF ClickHeatmap
<1>2. m \in Histograms /\ visible \in SUBSET Keys(m) /\ slices = Columns(m, visible)
  BY <1>0, ChoiceColumns
<1>3. PICK i \in DOMAIN slices : ms = Ms(slices[i].at)
  <2>1. domain \in Seq(Int) /\ \A e \in DOMAIN domain : \E i \in DOMAIN slices : domain[e] = Ms(slices[i].at)
    BY <1>2, DomainFact
  <2> HIDE DEF domain
  <2> QED
    BY <1>0, <2>1, ClickedFact
<1>4. ColumnOfMs(slices, ms) = slices[i].at /\ slices[i].at \in Int /\ slices[i].at % W = 0
  BY <1>2, <1>3, ColumnOfFact, ColumnsApart
<1>5. (bucket' = {} \/ bucket' = {ColumnOfMs(slices, ms)}) /\ qkey' = {}
  BY <1>1 DEF OnHeatmapSelect
<1>6. /\ UNCHANGED <<m, visible, agg, showAll, dp, tab, scope, overlay, pane, pin, pinnedOn>>
      /\ click' = [kind |-> "column", px |-> px]
  BY DEF ClickHeatmap
<1>7. slices' = slices
  BY <1>0, <1>6 DEF ChartsInv, DrawnAnew, DrawnSlices, Choice, Hist
<1>8. PinFollowsDatapoint' /\ pin' \subseteq 1 .. Len(Bounds) + 1
  BY <1>0, <1>6, PinStays
<1>9. LineHit'
  <2>1. click'.kind = "column"
    BY <1>6
  <2> QED
    BY <2>1 DEF LineHit
<1>10. ColumnHit' /\ ColumnKept'
  <2>1. Hist' /\ click'.px = px
    BY <1>0, <1>6 DEF Hist
  <2>2. \A b \in bucket' : b = ColumnOfMs(slices, ms)
    BY <1>5
  <2> QED
    BY <1>1, <1>4, <1>6, <1>7, <2>1, <2>2 DEF ColumnHit, ColumnKept
<1>11. Chosen'
  <2>1. Single(bucket')
    BY <1>5, SingleFact
  <2> QED
    BY <1>0, <1>5, <1>6, <1>8, <2>1 DEF Kept, Chosen
<1> QED
  BY <1>8, <1>9, <1>10, <1>11 DEF Kept

LEMMA QuantileClickKeeps ==
  ASSUME ChartsInv, NEW k \in Keys(m), NEW named \in BOOLEAN, ClickQuantile(k, named)
  PROVE  Kept'
<1>0. Kept /\ Hist /\ k \in visible
  BY DEF ChartsInv, ClickQuantile
<1>1. m \in Histograms /\ visible \in SUBSET Keys(m) /\ slices = Columns(m, visible) /\ {k} \in SUBSET Keys(m)
  BY <1>0, ChoiceColumns
<1>2. PICK p \in ToSet(QuantileLine(m, k, overlay)) :
        OnQuantileChartPointClick(p.ms, IF named THEN {overlay} ELSE {})
  BY DEF ClickQuantile
<1>3. PICK b \in ColumnStarts(m, {k}) : p.ms = Ms(b)
  <2> DEFINE own == ColumnsOf[m][{k}]
             told == Keeping(own, {s \in ToSet(own) : Quantile(s.counts, overlay) # {}})
  <2>1. own = Columns(m, {k})
    BY <1>1 DEF ColumnsOf, Histograms
  <2>2. own \in Seq(SliceType) /\ \A i \in DOMAIN own : own[i].at \in ColumnStarts(m, {k})
    BY <1>1, <2>1, ColumnsFact
  <2>3. QuantileLine(m, k, overlay) =
          [i \in DOMAIN told |-> [ms |-> Ms(told[i].at),
                                  v |-> CHOOSE v \in Quantile(told[i].counts, overlay) : TRUE]]
    BY DEF QuantileLine
  <2> HIDE DEF own
  <2>4. ToSet(told) \subseteq ToSet(own)
    BY <2>2, KeepingFact
  <2> HIDE DEF told
  <2>5. PICK i \in DOMAIN told : p.ms = Ms(told[i].at)
    BY <2>3 DEF ToSet
  <2>6. told[i] \in ToSet(own)
    BY <2>4 DEF ToSet
  <2> QED
    BY <2>2, <2>5, <2>6 DEF ToSet
<1>4. b \in ColumnStarts(m, visible)
  BY <1>0, <1>3 DEF ColumnStarts
<1>5. PICK i \in DOMAIN slices : slices[i].at = b
  BY <1>1, <1>4, ColumnsFact
<1>6. ColumnOfMs(slices, p.ms) = b /\ b \in Int /\ b % W = 0
  <2>1. ColumnOfMs(slices, Ms(slices[i].at)) = slices[i].at
    BY <1>1, <1>5, ColumnOfFact
  <2> QED
    BY <1>1, <1>3, <1>5, <2>1, ColumnsApart
<1>7. (bucket' = {} /\ qkey' = {}) \/ bucket' = {b}
  BY <1>2, <1>6 DEF OnQuantileChartPointClick
<1>8. /\ UNCHANGED <<m, visible, agg, showAll, dp, tab, scope, overlay, pane, pin, pinnedOn>>
      /\ click' = NoClick
  BY DEF ClickQuantile
<1>9. LineHit' /\ ColumnHit'
  BY <1>8, Unclicked
<1>10. PinFollowsDatapoint' /\ pin' \subseteq 1 .. Len(Bounds) + 1
  BY <1>0, <1>8, PinStays
<1>11. ColumnKept'
  BY <1>0, <1>6, <1>7, <1>8 DEF ColumnKept, Hist
<1>12. Chosen'
  <2>1. Single(bucket') /\ (bucket' = {} => qkey' = {})
    BY <1>7, SingleFact
  <2> QED
    BY <1>0, <1>8, <1>10, <2>1 DEF Kept, Chosen
<1> QED
  BY <1>9, <1>10, <1>11, <1>12 DEF Kept

LEMMA ChartsStep ==
  ASSUME ChartsInv, [Next]_vars
  PROVE  ChartsInv'
<1>0. Kept
  BY DEF ChartsInv
<1>1. CASE Next
  <2>1. Step /\ DrawnAnew'
    BY <1>1 DEF Next, Redraw, DrawnAnew
  <2>2. Kept'
    <3>1. CASE \E x \in Metrics, t \in Tabs, s \in Scopes : SelectMetric(x, t, s)
      BY <1>0, <3>1, SelectMetricKeeps
    <3>2. CASE \E k \in Keys(m) : ToggleTimeseriesVisible(k)
      BY <1>0, <3>2, ToggleKeeps
    <3>3. CASE (\E a \in Views : SetAggregationView(a)) \/ SetShowAllSeriesAggregate
      BY <1>0, <3>3, ViewKeeps
    <3>4. CASE \E k \in Keys(m) : \E p \in DatapointsOf(m, k) : OnDatapointClick(p)
      BY <1>0, <3>4, DatapointClickKeeps
    <3>5. CASE \/ ~Hist /\ \E ms \in Stops, y \in Heights : ClickPlot(ms, y)
               \/ ~Hist /\ \E l \in ToSet(lines) : \E i \in DOMAIN l.points : ClickPoint(l, i)
      BY <3>5, LineClicksKeep
    <3>6. CASE \/ \E t \in Tabs : SetActiveHistogramTab(t)
               \/ \E s \in Scopes : SetHistogramScope(s)
               \/ \E q \in Quantiles : SetActiveQuantileOverlay(q)
               \/ \E w \in Panes : Resize(w)
               \/ \E i \in 1 .. Len(Bounds) + 1 : ClickBar(i)
      BY <1>0, <3>6, ControlsKeep
    <3>7. CASE \E px \in Pixels : ClickHeatmap(px)
      BY <2>1, <3>7, HeatmapClickKeeps
    <3>8. CASE \E k \in Keys(m), named \in BOOLEAN : ClickQuantile(k, named)
      BY <3>8, QuantileClickKeeps
    <3> QED
      BY <2>1, <3>1, <3>2, <3>3, <3>4, <3>5, <3>6, <3>7, <3>8 DEF Step
  <2> QED
    BY <2>1, <2>2 DEF ChartsInv
<1>2. CASE UNCHANGED vars
  <2>1. UNCHANGED <<m, visible, agg, showAll, dp, tab, scope, bucket, qkey, overlay, pane, lines,
                    slices, pin, pinnedOn, click>>
    BY <1>2 DEF vars
  <2>2. Chosen' /\ ColumnKept'
    BY <1>0, <2>1 DEF Kept, Chosen, ColumnKept, Hist
  <2>3. LineHit' /\ ColumnHit'
    BY <1>0, <2>1 DEF Kept, LineHit, ColumnHit, Hist
  <2>4. PinFollowsDatapoint'
    BY <1>0, <2>1 DEF Kept, PinFollowsDatapoint, ShownBars
  <2>5. DrawnAnew'
    BY <2>1 DEF ChartsInv, DrawnAnew, Choice
  <2> QED
    BY <2>2, <2>3, <2>4, <2>5 DEF ChartsInv, Kept
<1> QED
  BY <1>1, <1>2

LEMMA ChartsInvariant == Spec => []ChartsInv
<1>1. Init => ChartsInv
  BY ChartsInit
<1>2. ChartsInv /\ [Next]_vars => ChartsInv'
  BY ChartsStep
<1> QED
  BY <1>1, <1>2, PTL DEF Spec

(* --------------------------- what the invariant says -------------------- *)

LEMMA MarksFollow ==
  ASSUME ChartsInv
  PROVE  MarksAgree
<1>0. Kept /\ Chosen
  BY DEF ChartsInv, Kept
<1>1. TypeOK
  BY <1>0, SingleFact DEF Chosen, TypeOK
<1>2. LegendMatchesChart
  <2> SUFFICES ASSUME ~Hist PROVE {l.key : l \in ToSet(lines)} \cap AggKeys = PresentKeysOf[Choice]
    BY DEF LegendMatchesChart
  <2>1. Choice \in Charted /\ lines = Lines(Choice)
    BY ChoiceCharted
  <2>2. PresentKeysOf[Choice] = AggregatePresentKeys(Choice)
    BY <2>1 DEF PresentKeysOf
  <2>3. {l.key : l \in ToSet(Lines(Choice))} \cap AggKeys = AggregatePresentKeys(Choice)
    BY <2>1, LinesFact
  <2> QED
    BY <2>1, <2>2, <2>3
<1>3. GuideOrSlope
  <2> SUFFICES ASSUME ~Hist, ~Blank(m), NEW p \in dp,
                      LineOf(lines, p[1]) # <<>>
               PROVE  SelectedPointValueY(Choice, LineOf(lines, p[1]), Ms(Dps(m, p[1])[p[2]].t)) = {}
                        <=> \E k \in SeriesStatMarks(Choice, LineOf(lines, p[1]), p[1], Ms(Dps(m, p[1])[p[2]].t)) :
                              k.kind = "slope"
    BY DEF GuideOrSlope
  <2>1. Choice \in Charted /\ lines = Lines(Choice) /\ Choice.m = m /\ Choice.visible = visible
    BY ChoiceCharted
  <2>2. PICK k \in visible : p \in DatapointsOf(m, k)
    BY <1>0 DEF Chosen
  <2>3. p[1] = k /\ p[2] \in DOMAIN Dps(m, k)
    BY <2>2 DEF DatapointsOf, Hist
  <2>4. m \in Metrics /\ k \in Keys(m)
    BY <1>0 DEF Chosen
  <2>5. Ms(Dps(m, k)[p[2]].t) \in Int
    <3>1. \A t \in Nat : Ms(t) \in Int
      BY ClockFact
    <3>2. Dps(m, k)[p[2]].t \in Nat
      BY <2>3, <2>4, DpsFact
    <3> QED
      BY <3>1, <3>2
  <2>6. ASSUME NEW ms \in Int, LineOf(Lines(Choice), k) # <<>>
        PROVE  SelectedPointValueY(Choice, LineOf(Lines(Choice), k), ms) = {}
                 <=> \E e \in SeriesStatMarks(Choice, LineOf(Lines(Choice), k), k, ms) : e.kind = "slope"
    <3> HIDE DEF Choice
    <3> QED
      BY <2>1, <2>6, GuideFact
  <2> QED
    BY <2>1, <2>3, <2>5, <2>6
<1>4. PinFollowsDatapoint
  BY <1>0 DEF Kept
<1> QED
  BY <1>1, <1>2, <1>3, <1>4 DEF MarksAgree

\* Chart, legend, marks and pin, each computed by rules of its own, agree for
\* every metric and every sequence of choices: the legend names the aggregates
\* drawn, a selected datapoint has the guide or the slope and never both, and a
\* pinned bar belongs to the distribution shown (metric-view-context.svelte.ts,
\* MetricTimeSeriesChart.svelte, HistogramChart.svelte).
THEOREM ChartAndLegendAgree == Spec => []MarksAgree
<1>1. ChartsInv => MarksAgree
  BY MarksFollow
<1> QED
  BY <1>1, ChartsInvariant, PTL

LEMMA SampleClickHits ==
  ASSUME ChartsInv
  PROVE  ClickedSampleIsSelected
<1> DEFINE k == click.key
           ms == click.ms
           at == DatapointAt(m, k, ms)
           here == {d \in ToSet(Dps(m, k)) : Ms(d.t) = ms}
           points == RawPoints(m, k)
<1> SUFFICES ASSUME click.kind = "line", click.agg = "raw", here # {}
             PROVE  /\ Dps(m, click.dp[1])[click.dp[2]] \in here
                    /\ \A dot \in SelectionDots(lines, click.dp[1], ms) : dot.v \in {d.v : d \in here}
  BY DEF ClickedSampleIsSelected
<1>1. /\ ~Hist /\ k \in visible /\ agg = "raw" /\ ms \in Int
      /\ click.dp = <<k, at>>
  BY DEF ChartsInv, Kept, LineHit
<1>2. /\ Choice \in Charted /\ lines = Lines(Choice) /\ Choice.m = m /\ Choice.visible = visible
      /\ Choice.agg = "raw"
  BY <1>1, ChoiceCharted
<1>3. m \in Scalars /\ m \in Metrics /\ k \in Keys(m)
  BY <1>1 DEF ChartsInv, Kept, Chosen, Scalars, Hist
<1>4. PICK i \in DOMAIN Dps(m, k) : Ms(Dps(m, k)[i].t) = ms
  BY DEF ToSet
<1>5. Dps(m, k)[at] \in here
  <2>1. at \in DOMAIN Dps(m, k) /\ Ms(Dps(m, k)[at].t) = ms
    BY <1>1, <1>3, <1>4, DatapointAtFact
  <2> QED
    BY <2>1 DEF ToSet
<1>6. /\ points \in Seq(Point) /\ DOMAIN points = DOMAIN Dps(m, k)
      /\ \A j \in DOMAIN points : points[j].ms = Ms(Dps(m, k)[j].t) /\ points[j].v = Dps(m, k)[j].v
  BY <1>3, RawPointsFact
<1>7. \A a, b \in DOMAIN points : a <= b => points[a].ms <= points[b].ms
  <2>1. \A a, b \in DOMAIN Dps(m, k) : a <= b => Dps(m, k)[a].t <= Dps(m, k)[b].t
    BY <1>3, DpsFact
  <2>2. \A a \in DOMAIN Dps(m, k) : Dps(m, k)[a].t \in Nat
    BY <1>3, DpsFact
  <2>3. \A s, t \in Nat : s <= t => Ms(s) <= Ms(t)
    BY ClockFact
  <2> HIDE DEF points
  <2> QED
    BY <1>6, <2>1, <2>2, <2>3
<1>8. ShownOf(Choice) = <<>>
  BY <1>2 DEF ShownOf
<1>9. ASSUME NEW l \in ToSet(lines), l.points # <<>>, l.key = k \/ l.key \in AggKeys
      PROVE  l.points = points
  <2>1. l.key \notin AggKeys
    <3>1. l.key \in AggKeys => l \in ToSet(ShownOf(Choice))
      BY <1>2, LinesFact
    <3> QED
      BY <1>8, <3>1 DEF ToSet
  <2>2. PICK j \in DOMAIN lines : lines[j] = l
    BY DEF ToSet
  <2>3. l = Moved(Choice, [key |-> k, points |-> RawLine(Choice, k)])
    BY <1>2, <1>9, <2>1, <2>2, LinesFact
  <2> QED
    BY <1>2, <1>8, <2>3 DEF Moved, RawLine
<1> HIDE DEF points, at, ms, k
<1>10. ASSUME NEW dot \in SelectionDots(lines, k, ms) PROVE dot.v \in {d.v : d \in here}
  <2>1. PICK l \in ToSet(lines) : /\ l.points # <<>> /\ (l.key = k \/ l.key \in AggKeys)
                                  /\ dot.v = NearestPoint(l.points, ms).v
    BY DEF SelectionDots
  <2>2. l.points = points /\ points # <<>>
    BY <1>9, <2>1
  <2>3. \E j \in DOMAIN points : points[j].ms = ms
    BY <1>4, <1>6
  <2>4. PICK j \in DOMAIN points : NearestPoint(points, ms) = points[j] /\ points[j].ms = ms
    BY <1>1, <1>6, <1>7, <2>2, <2>3, NearestPointFact
  <2>5. Dps(m, k)[j] \in here /\ dot.v = Dps(m, k)[j].v
    BY <1>6, <2>1, <2>2, <2>4 DEF ToSet
  <2> QED
    BY <2>5
<1> QED
  BY <1>1, <1>5, <1>10

\* The cells of a column add up to its buckets.
LEMMA CellsAddUp ==
  ASSUME NEW x \in Histograms, NEW K \in SUBSET Keys(x), NEW i \in DOMAIN Columns(x, K)
  PROVE  LET s == Columns(x, K)[i]
         IN SumFunction(s.counts)
              = SumFunction([d \in {e \in HeatmapCells(Columns(x, K)) : e.ms = Ms(s.at)} |-> d.count])
<1> DEFINE cols == Columns(x, K)
           s == cols[i]
           J == {e \in Cells : s.counts[e] # 0}
           cell == [j \in J |-> [ms |-> Ms(s.at), row |-> j, count |-> s.counts[j]]]
           here == {e \in HeatmapCells(cols) : e.ms = Ms(s.at)}
           f == [d \in here |-> d.count]
<1>1. s \in SliceType
  <2>1. cols \in Seq(SliceType)
    BY ColumnsFact
  <2> HIDE DEF cols, SliceType
  <2> QED
    BY <2>1, DOMAIN cols = DOMAIN Columns(x, K) DEF cols
<1>2. s.counts \in [Cells -> Nat] /\ IsFiniteSet(Cells) /\ J \in SUBSET Cells
  BY <1>1, CellsFact DEF SliceType
<1>3. SumFunction(s.counts) = SumFunction([j \in J |-> s.counts[j]])
  <2>1. s.counts \in [Cells -> Int] /\ \A e \in Cells \ J : s.counts[e] = 0
    BY <1>2
  <2> HIDE DEF s, J
  <2> QED
    BY <1>2, <2>1, SumZeros
<1>4. here = {cell[j] : j \in J}
  <2>1. HeatmapCells(cols) =
          UNION {{[ms |-> Ms(cols[a].at), row |-> j, count |-> cols[a].counts[j]] :
                    j \in {e \in Cells : cols[a].counts[e] # 0}} : a \in DOMAIN cols}
    BY CellsOfColumns
  <2>2. \A a \in DOMAIN cols : Ms(cols[a].at) = Ms(s.at) => a = i
    <3>1. \A a \in DOMAIN cols : \A b \in Int : b % W = 0 /\ Ms(cols[a].at) = Ms(b) => cols[a].at = b
      BY ColumnsApart
    <3>2. s.at \in Int /\ s.at % W = 0 /\ \A a \in DOMAIN cols : cols[a].at = s.at => a = i
      BY ColumnsApart
    <3> HIDE DEF cols
    <3> QED
      BY <3>1, <3>2
  <2> HIDE DEF cols
  <2>3. ASSUME NEW d \in here PROVE \E j \in J : d = cell[j]
    <3>1. PICK a \in DOMAIN cols : d \in {[ms |-> Ms(cols[a].at), row |-> j, count |-> cols[a].counts[j]] :
                                            j \in {e \in Cells : cols[a].counts[e] # 0}}
      BY <2>1
    <3>2. d.ms = Ms(cols[a].at) /\ d.ms = Ms(s.at)
      BY <3>1
    <3>3. a = i
      BY <2>2, <3>2
    <3> QED
      BY <3>1, <3>3
  <2>4. ASSUME NEW j \in J PROVE cell[j] \in here
    <3>1. cell[j].ms = Ms(s.at)
      OBVIOUS
    <3>2. cell[j] \in HeatmapCells(cols)
      BY <2>1, DOMAIN cols = DOMAIN Columns(x, K) DEF cols
    <3> QED
      BY <3>1, <3>2
  <2> HIDE DEF here, cell, J
  <2> QED
    BY <2>3, <2>4
<1>5. IsFiniteSet(J)
  BY <1>2, FS_Subset
<1>6. /\ cell \in [J -> here] /\ \A a, b \in J : cell[a] = cell[b] => a = b
      /\ \A d \in here : \E j \in J : cell[j] = d
  <2>1. \A a \in J : cell[a].row = a
    OBVIOUS
  <2>2. \A a, b \in J : cell[a] = cell[b] => a = b
    <3> HIDE DEF cell, J
    <3> QED
      BY <2>1
  <2>3. DOMAIN cell = J /\ cell = [j \in J |-> cell[j]]
    OBVIOUS
  <2> HIDE DEF here, cell, J
  <2> QED
    BY <1>4, <2>2, <2>3
<1>7. \A j \in J : cell[j].count = s.counts[j] /\ s.counts[j] \in Int
  BY <1>2
<1> HIDE DEF here, J, cell, s
<1>8. IsFiniteSet(here)
  <2>1. DOMAIN cell = J
    BY <1>6
  <2> QED
    BY <1>4, <1>5, <2>1, ImageFinite
<1>9. f \in [here -> Int]
  <2> SUFFICES ASSUME NEW d \in here PROVE d.count \in Int
    OBVIOUS
  <2>1. PICK j \in J : cell[j] = d
    BY <1>6
  <2> QED
    BY <1>7, <2>1
<1>10. [j \in J |-> f[cell[j]]] = [j \in J |-> s.counts[j]]
  BY <1>6, <1>7
<1> HIDE DEF f
<1>11. SumFunction([j \in J |-> f[cell[j]]]) = SumFunction(f)
  BY <1>5, <1>6, <1>8, <1>9, SumReindexed
<1> QED
  BY <1>3, <1>10, <1>11 DEF f, here, s

LEMMA BandFact ==
  ASSUME NEW w \in Nat, NEW n \in Nat, PlotWidth(w, n) # 0, NEW px \in Nat, NEW i \in Nat,
         i = (px * n) \div PlotWidth(w, n) + 1
  PROVE  DrawnBand(w, n, i)[1] <= px * n /\ px * n < DrawnBand(w, n, i)[2]
<1> DEFINE width == PlotWidth(w, n)
<1>1. width \in Nat
  <2>1. n * MinCell \in Nat
    BY ScaleAssumption
  <2> QED
    BY <2>1 DEF PlotWidth
<1>2. DrawnBand(w, n, i)[1] = (i - 1) * width /\ DrawnBand(w, n, i)[2] = i * width
  BY DEF DrawnBand
<1> HIDE DEF width
<1>3. px * n \in Int /\ width \in Nat \ {0}
  BY <1>1 DEF width
<1> DEFINE q == (px * n) \div width
<1>4. q \in Int /\ q * width <= px * n /\ px * n < q * width + width
  BY <1>3, DivisionFact
<1>5. i - 1 = q /\ i = q + 1
  BY <1>4 DEF width
<1> HIDE DEF q
<1>6. (q + 1) * width = q * width + width
  BY <1>3, <1>4
<1> QED
  BY <1>2, <1>4, <1>5, <1>6

LEMMA ColumnClickHits ==
  ASSUME ChartsInv
  PROVE  ClickSelectsColumnUnderPointer
<1> DEFINE domain == TimeDomain(slices)
           n == Len(domain)
<1> SUFFICES ASSUME click.kind = "column", NEW b \in bucket
             PROVE  LET i == SelectInSeq(domain, LAMBDA ms : ms = Ms(b))
                    IN /\ i # 0
                       /\ DrawnBand(pane, n, i)[1] <= click.px * n /\ click.px * n < DrawnBand(pane, n, i)[2]
  BY DEF ClickSelectsColumnUnderPointer
<1>1. /\ Hist /\ click.px \in Nat /\ pane \in Nat
      /\ \E ms \in ClickedColumn(domain, pane, click.px) : b = ColumnOfMs(slices, ms)
  BY ChartsAssumption DEF ChartsInv, Kept, ColumnHit, Chosen
<1>2. PICK ms \in ClickedColumn(domain, pane, click.px) : b = ColumnOfMs(slices, ms)
  BY <1>1
<1>3. m \in Histograms /\ visible \in SUBSET Keys(m) /\ slices = Columns(m, visible)
  BY <1>1, ChoiceColumns
<1>4. /\ domain \in Seq(Int) /\ Increasing(domain)
      /\ \A e \in DOMAIN domain : \E a \in DOMAIN slices : domain[e] = Ms(slices[a].at)
  BY <1>3, DomainFact
<1> DEFINE I == {j \in 1 .. n : domain[j] = Ms(b)}
<1>5. SelectInSeq(domain, LAMBDA t : t = Ms(b)) = FirstIn(I)
  BY DEF SelectInSeq, FirstIn
<1> HIDE DEF domain
<1>6. PICK i \in DOMAIN domain :
        /\ ms = domain[i] /\ n > 0 /\ PlotWidth(pane, n) # 0
        /\ i = (click.px * n) \div PlotWidth(pane, n) + 1
  BY <1>1, <1>4, ClickedFact
<1>7. PICK a \in DOMAIN slices : domain[i] = Ms(slices[a].at)
  BY <1>4
<1>8. b = slices[a].at /\ Ms(b) = domain[i]
  <2>1. ColumnOfMs(slices, Ms(slices[a].at)) = slices[a].at
    BY <1>3, <1>7, ColumnOfFact
  <2> QED
    BY <1>2, <1>6, <1>7, <2>1
<1>9. n \in Nat /\ DOMAIN domain = 1 .. n
  BY <1>4
<1>10. I = {i}
  <2>1. \A e, j \in DOMAIN domain : domain[e] = domain[j] => e = j
    BY <1>4, IncreasingFact
  <2> QED
    BY <1>6, <1>8, <1>9, <2>1
<1> HIDE DEF n, I
<1>11. FirstIn(I) = i /\ i # 0 /\ i \in Nat
  <2>1. I \in SUBSET (1 .. n) /\ I # {} /\ i \in 1 .. n
    BY <1>9, <1>10
  <2>2. FirstIn(I) \in I
    BY <1>9, <2>1, FirstInFact
  <2> QED
    BY <1>9, <1>10, <2>1, <2>2
<1>12. DrawnBand(pane, n, i)[1] <= click.px * n /\ click.px * n < DrawnBand(pane, n, i)[2]
  BY <1>1, <1>6, <1>9, <1>11, BandFact
<1> QED
  BY <1>5, <1>11, <1>12

\* The panel of a selected column counts what its cells show.
LEMMA ColumnClickCounts ==
  ASSUME ChartsInv, click.kind = "column", NEW b \in bucket,
         NEW s \in HeatmapColumnSelection(slices, b),
         \A d \in InColumn(m, visible, b) : ~RestartHidden(m, d)
  PROVE  s.total = SumFunction([d \in {c \in HeatmapCells(slices) : c.ms = Ms(b)} |-> d.count])
<1>1. Hist
  BY DEF ChartsInv, Kept, ColumnHit
<1>2. m \in Histograms /\ visible \in SUBSET Keys(m) /\ slices = Columns(m, visible)
  BY <1>1, ChoiceColumns
<1>3. b \in Int /\ b % W = 0
  BY <1>1 DEF ChartsInv, Kept, ColumnKept
<1>4. PICK i \in DOMAIN slices : s = slices[i] /\ s.at = b
  BY <1>2, <1>3, SelectionFact
<1>5. s = Slice(m, visible, b)
  BY <1>2, <1>4, ColumnsFact
<1>6. s.total = SumFunction(s.counts)
  BY <1>2, <1>3, <1>5, SliceFact
<1>7. SumFunction(s.counts)
        = SumFunction([d \in {e \in HeatmapCells(slices) : e.ms = Ms(s.at)} |-> d.count])
  BY <1>2, <1>4, CellsAddUp
<1> QED
  BY <1>4, <1>6, <1>7

\* A click selects what is drawn under the pointer, for every metric, width of
\* the plot and sequence of choices: a drawn sample its own datapoint, in the
\* very millisecond; a pixel of the heatmap the column whose band it is in, and
\* its panel counts what its cells show as long as no restart of a running total
\* is seen in its buckets alone (onChartPointClick, onHeatmapSelect in
\* metric-view-context.svelte.ts, heatmap-column-selection.ts).
THEOREM ClicksHitWhatIsDrawn == Spec => []ClicksHit
<1>1. ChartsInv => ClicksHit
  <2> SUFFICES ASSUME ChartsInv PROVE ClicksHit
    OBVIOUS
  <2>1. PanelCountsItsCells(LAMBDA b : \A d \in InColumn(m, visible, b) : ~RestartHidden(m, d))
    BY ColumnClickCounts DEF PanelCountsItsCells
  <2> QED
    BY <2>1, SampleClickHits, ColumnClickHits DEF ClicksHit
<1> QED
  BY <1>1, ChartsInvariant, PTL

(* ------------------------- nothing lost or doubled ---------------------- *)

\* An instant is in the bucket that starts at or before it, and in no other.
LEMMA BucketsInOrder ==
  ASSUME NEW t \in Int, NEW b \in Int, b % W = 0
  PROVE  /\ b <= t => b <= BucketStart(t)
         /\ BucketStart(t) = b => b <= t /\ t < b + W
<1>1. W \in Nat \ {0}
  BY WidthFact
<1>2. /\ BucketStart(t) \in Int /\ BucketStart(t) % W = 0
      /\ BucketStart(t) <= t /\ t < BucketStart(t) + W
  BY StartFact
<1>3. ASSUME b <= t, BucketStart(t) < b PROVE FALSE
  <2>1. BucketStart(t) + W <= b
    BY <1>1, <1>2, <1>3, MultiplesApart
  <2> QED
    BY <1>1, <1>2, <1>3, <2>1
<1> QED
  BY <1>1, <1>2, <1>3

\* The end the page reckons for a column closes its bucket and no sample of
\* the next comes before it.
LEMMA ColumnEndFact ==
  ASSUME NEW x \in Histograms, NEW K \in SUBSET Keys(x), NEW b \in ColumnStarts(x, K), b # Window.end
  PROVE  \E e \in Int :
           /\ HeatmapColumnEnd(Columns(x, K), b) = {e}
           /\ \A k \in K : \A i \in Said(x, k) :
                Dps(x, k)[i].t \in b .. e <=> BucketStart(Dps(x, k)[i].t) = b
<1> DEFINE cols == Columns(x, K)
           starts == {s.at : s \in ToSet(cols)}
           S == ColumnStarts(x, K)
           after == {s \in S : s > b}
           last == Max(S)
<1>0. W \in Nat \ {0} /\ Window.end \in Nat
  BY WidthFact, ReductionAssumption
<1>1. /\ S \subseteq Int /\ IsFiniteSet(S) /\ b \in Int /\ b % W = 0
      /\ \A a \in S : a % W = 0
      /\ \A k \in K : \A i \in Said(x, k) : BucketStart(Dps(x, k)[i].t) \in S
  BY StartsFact DEF Histograms
<1>2. starts = S
  <2>1. /\ \A i \in DOMAIN cols : cols[i].at \in S
        /\ \A a \in S : \E i \in DOMAIN cols : cols[i].at = a
    BY ColumnsFact
  <2> HIDE DEF cols, S
  <2>2. starts = {cols[i].at : i \in DOMAIN cols}
    BY DEF ToSet
  <2> HIDE DEF starts
  <2> QED
    BY <2>1, <2>2
<1>3. HeatmapColumnEnd(cols, b) =
        IF S = {} THEN {}
        ELSE IF b \in S /\ after # {} THEN {Min(after) - 1}
        ELSE IF Cardinality(S) >= 2 THEN {b + (last - Max(S \ {last})) - 1}
        ELSE IF Window.end > b THEN {Window.end} ELSE {}
  <2>1. HeatmapColumnEnd(cols, b) =
        IF starts = {} THEN {}
        ELSE IF b \in starts /\ {s \in starts : s > b} # {} THEN {Min({s \in starts : s > b}) - 1}
        ELSE IF Cardinality(starts) >= 2 THEN {b + (Max(starts) - Max(starts \ {Max(starts)})) - 1}
        ELSE IF Window.end > b THEN {Window.end} ELSE {}
    BY DEF HeatmapColumnEnd
  <2> HIDE DEF starts, S, cols
  <2> QED
    BY <1>2, <2>1
<1>4. b \in S
  OBVIOUS
<1> HIDE DEF S, cols
<1>5. ASSUME NEW k \in K, NEW i \in Said(x, k)
      PROVE  LET t == Dps(x, k)[i].t
             IN /\ t \in Int /\ BucketStart(t) \in S /\ BucketStart(t) \in Int
                /\ t <= Window.end /\ BucketStart(t) <= t
                /\ b <= t => b <= BucketStart(t)
                /\ BucketStart(t) = b => b <= t /\ t < b + W
  <2>1. Dps(x, k)[i].t \in Int /\ Dps(x, k)[i].t <= Window.end
    <3>1. x \in Metrics /\ k \in Keys(x) /\ i \in DOMAIN Dps(x, k)
      BY DEF Histograms, Said, Measured
    <3>2. Dps(x, k)[i].t \in Nat /\ Dps(x, k)[i].t <= Window.end
      BY <3>1, DpsFact
    <3> QED
      BY <3>2
  <2>2. /\ BucketStart(Dps(x, k)[i].t) \in Int /\ BucketStart(Dps(x, k)[i].t) <= Dps(x, k)[i].t
    BY <2>1, StartFact
  <2>3. /\ b <= Dps(x, k)[i].t => b <= BucketStart(Dps(x, k)[i].t)
        /\ BucketStart(Dps(x, k)[i].t) = b => b <= Dps(x, k)[i].t /\ Dps(x, k)[i].t < b + W
    BY <1>1, <2>1, BucketsInOrder
  <2> QED
    BY <1>1, <2>1, <2>2, <2>3
<1>6. \A a \in S : a > b => a >= b + W
  BY <1>0, <1>1, MultiplesApart
<1>7. CASE after # {}
  <2> DEFINE e == Min(after) - 1
  <2>1. IsFiniteSet(after) /\ after \subseteq Int
    BY <1>1, FS_Subset
  <2>2. Min(after) \in after /\ \A a \in after : Min(after) <= a
    <3> HIDE DEF after
    <3> QED
      BY <1>7, <2>1, Extremes
  <2>3. HeatmapColumnEnd(cols, b) = {e} /\ e \in Int /\ e >= b + W - 1
    BY <1>0, <1>1, <1>3, <1>4, <1>6, <1>7, <2>1, <2>2
  <2>4. ASSUME NEW k \in K, NEW i \in Said(x, k)
        PROVE  Dps(x, k)[i].t \in b .. e <=> BucketStart(Dps(x, k)[i].t) = b
    <3> DEFINE t == Dps(x, k)[i].t
    <3>1. /\ t \in Int /\ BucketStart(t) \in S /\ BucketStart(t) \in Int /\ BucketStart(t) <= t
          /\ b <= t => b <= BucketStart(t)
          /\ BucketStart(t) = b => b <= t /\ t < b + W
      BY <1>5
    <3>2. BucketStart(t) > b => Min(after) <= BucketStart(t)
      BY <2>2, <3>1
    <3>3. b \in Int /\ W \in Nat /\ e \in Int /\ e >= b + W - 1 /\ e = Min(after) - 1 /\ Min(after) \in Int
      BY <1>0, <1>1, <2>1, <2>2, <2>3
    <3> HIDE DEF t, after, e
    <3>4. t \in b .. e <=> BucketStart(t) = b
      BY <3>1, <3>2, <3>3
    <3> QED
      BY <3>4 DEF t
  <2> QED
    BY <2>3, <2>4 DEF cols
<1>8. CASE after = {}
  <2>1. \A a \in S : a <= b
    BY <1>1, <1>8
  <2>2. last = b
    <3>1. last \in S /\ \A a \in S : a <= last
      BY <1>1, <1>4, Extremes
    <3>2. last \in Int /\ last <= b /\ b <= last
      BY <1>1, <1>4, <2>1, <3>1
    <3> HIDE DEF last
    <3> QED
      BY <1>1, <3>2
  <2>3. \E e \in Int : HeatmapColumnEnd(cols, b) = {e} /\ (e >= b + W - 1 \/ e = Window.end)
    <3>1. CASE Cardinality(S) >= 2
      <4> DEFINE R == S \ {last}
      <4>1. R # {}
        <5> SUFFICES ASSUME R = {} PROVE FALSE
          OBVIOUS
        <5>1. S = {b}
          BY <1>4, <2>2
        <5> QED
          BY SMTT(20), <3>1, <5>1, FS_Singleton
      <4>2. R \subseteq Int /\ IsFiniteSet(R)
        BY <1>1, FS_Subset
      <4>3. Max(R) \in R
        <5> HIDE DEF R
        <5> QED
          BY <4>1, <4>2, Extremes
      <4>4. Max(R) \in S /\ Max(R) # b
        BY <2>2, <4>3
      <4>5. Max(R) + W <= b
        <5>1. Max(R) \in Int /\ Max(R) % W = 0 /\ Max(R) < b
          <6>1. \A a \in S : a # b => a \in Int /\ a % W = 0 /\ a < b
            BY <1>1, <2>1
          <6> HIDE DEF R
          <6> QED
            BY <4>4, <6>1
        <5> HIDE DEF R
        <5> QED
          BY <1>0, <1>1, <5>1, MultiplesApart
      <4>6. HeatmapColumnEnd(cols, b) = {b + (last - Max(R)) - 1}
        BY <1>3, <1>4, <1>8, <3>1
      <4>7. Max(R) \in Int
        BY <4>2, <4>3
      <4> HIDE DEF R, last
      <4> QED
        BY <1>0, <1>1, <2>2, <4>5, <4>6, <4>7
    <3>2. CASE ~ (Cardinality(S) >= 2)
      <4>1. Window.end > b
        <5>1. PICK k \in K : \E i \in Said(x, k) : BucketStart(Dps(x, k)[i].t) = b
          BY StartsFact DEF Histograms
        <5>2. PICK i \in Said(x, k) : BucketStart(Dps(x, k)[i].t) = b
          BY <5>1
        <5> QED
          BY <1>0, <1>1, <1>5, <5>2
      <4> QED
        BY <1>0, <1>3, <1>4, <1>8, <3>2, <4>1
    <3> QED
      BY <3>1, <3>2
  <2>4. PICK e \in Int : HeatmapColumnEnd(cols, b) = {e} /\ (e >= b + W - 1 \/ e = Window.end)
    BY <2>3
  <2>5. ASSUME NEW k \in K, NEW i \in Said(x, k)
        PROVE  Dps(x, k)[i].t \in b .. e <=> BucketStart(Dps(x, k)[i].t) = b
    <3> DEFINE t == Dps(x, k)[i].t
    <3>1. /\ t \in Int /\ BucketStart(t) \in S /\ BucketStart(t) \in Int /\ BucketStart(t) <= t
          /\ t <= Window.end
          /\ b <= t => b <= BucketStart(t)
          /\ BucketStart(t) = b => b <= t /\ t < b + W
      BY <1>5
    <3>2. BucketStart(t) <= b
      BY <2>1, <3>1
    <3> HIDE DEF t
    <3> QED
      BY <1>0, <1>1, <2>4, <3>1, <3>2 DEF t
  <2> QED
    BY <2>4, <2>5 DEF cols
<1> QED
  BY <1>7, <1>8

\* What a query for the column reads of a series measures what the column
\* merged of it, but for the first running total.
LEMMA PanelMeasures ==
  ASSUME NEW x \in Histograms, NEW K \in SUBSET Keys(x), NEW b \in ColumnStarts(x, K), b # Window.end,
         NEW k \in K
  PROVE  Measured(x, {i \in DOMAIN Dps(x, k) :
                        \E a \in HeatmapColumnEnd(Columns(x, K), b) : Dps(x, k)[i].t \in b .. a})
           = {i \in Said(x, k) : <<k, i>> \in InColumn(x, K, b) \ LeftOut(x, K, b)}
<1>1. PICK e \in Int :
         /\ HeatmapColumnEnd(Columns(x, K), b) = {e}
         /\ \A i \in Said(x, k) : Dps(x, k)[i].t \in b .. e <=> BucketStart(Dps(x, k)[i].t) = b
  BY ColumnEndFact
<1> DEFINE read == {i \in DOMAIN Dps(x, k) : Dps(x, k)[i].t \in b .. e}
<1>2. {i \in DOMAIN Dps(x, k) :
         \E a \in HeatmapColumnEnd(Columns(x, K), b) : Dps(x, k)[i].t \in b .. a} = read
  BY <1>1
<1>3. b \in Int /\ b % W = 0 /\ x \in Metrics /\ k \in Keys(x)
  BY StartsFact DEF Histograms
<1>4. ASSUME NEW i \in Said(x, k)
      PROVE  /\ i \in DOMAIN Dps(x, k) /\ i \in Int
             /\ i \in read <=> BucketStart(Dps(x, k)[i].t) = b
             /\ <<k, i>> \in InColumn(x, K, b) <=> BucketStart(Dps(x, k)[i].t) = b
             /\ Cumulative(x) => i - 1 \in DOMAIN Dps(x, k)
  <2>1. i \in DOMAIN Dps(x, k) /\ (Cumulative(x) => i - 1 \in DOMAIN Dps(x, k))
    BY DEF Said, Measured
  <2>2. i \in Int
    BY <1>3, <2>1, DpsFact
  <2>3. <<k, i>> \in InColumn(x, K, b) <=> BucketStart(Dps(x, k)[i].t) = b
    BY InColumnFact
  <2> QED
    BY <1>1, <2>1, <2>2, <2>3
<1>5. ASSUME NEW i \in Said(x, k), Cumulative(x), BucketStart(Dps(x, k)[i].t) = b
      PROVE  i - 1 \in read <=> BucketStart(Dps(x, k)[i - 1].t) = b
  <2> DEFINE t == Dps(x, k)[i].t
             u == Dps(x, k)[i - 1].t
  <2>1. i \in DOMAIN Dps(x, k) /\ i \in Int /\ i - 1 \in DOMAIN Dps(x, k)
    BY <1>4, <1>5
  <2>2. t \in Int /\ u \in Int /\ u <= t
    <3>1. \A j \in DOMAIN Dps(x, k) : Dps(x, k)[j].t \in Nat
      BY <1>3, DpsFact
    <3>2. \A j, l \in DOMAIN Dps(x, k) : j <= l => Dps(x, k)[j].t <= Dps(x, k)[l].t
      BY <1>3, DpsFact
    <3>3. i - 1 <= i
      BY <2>1
    <3> QED
      BY <2>1, <3>1, <3>2, <3>3
  <2>3. t \in b .. e
    BY <1>1, <1>5
  <2>4. i - 1 \in read <=> b <= u /\ u <= e
    BY <1>3, <2>1, <2>2
  <2> HIDE DEF t, u
  <2>5. BucketStart(u) \in Int /\ BucketStart(u) <= u /\ (b <= u => b <= BucketStart(u))
    BY <1>3, <2>2, StartFact, BucketsInOrder
  <2>6. BucketStart(u) <= b
    <3>1. BucketStart(t) = b /\ BucketStart(u) % W = 0 /\ (BucketStart(u) <= t => BucketStart(u) <= BucketStart(t))
      BY <1>5, <2>2, <2>5, StartFact, BucketsInOrder DEF t
    <3> QED
      BY <2>2, <2>5, <3>1
  <2> QED
    BY <1>1, <1>3, <2>2, <2>3, <2>4, <2>5, <2>6 DEF u
<1>6. ASSUME NEW i \in Said(x, k)
      PROVE  <<k, i>> \in LeftOut(x, K, b) <=>
               /\ <<k, i>> \in InColumn(x, K, b)
               /\ Cumulative(x) /\ BucketStart(Dps(x, k)[i - 1].t) # b
  BY DEF LeftOut
<1>7. \A i \in Measured(x, read) : i \in Said(x, k)
  BY DEF Measured, Said
<1>8. \A i \in Said(x, k) :
        i \in Measured(x, read) <=> i \in read /\ (Cumulative(x) => i - 1 \in read)
  BY DEF Measured
<1> HIDE DEF read
<1>9. \A i \in Said(x, k) :
        i \in Measured(x, read) <=> <<k, i>> \in InColumn(x, K, b) \ LeftOut(x, K, b)
  BY <1>4, <1>5, <1>6, <1>8
<1> QED
  BY <1>2, <1>7, <1>9

\* What the store sends for a column, and what it leaves out, add up to what the
\* column merged.
LEMMA PanelAddsUp ==
  ASSUME NEW x \in Histograms, NEW K \in SUBSET Keys(x), NEW b \in ColumnStarts(x, K), b # Window.end
  PROVE  Slice(x, K, b).total
           = SumFunction(ColumnDistribution(x, K, Columns(x, K), b))
             + SumFunction([d \in LeftOut(x, K, b) |-> TotalSince(x, d[1], d[2])])
<1> DEFINE D == InColumn(x, K, b)
           E == LeftOut(x, K, b)
           P == D \ E
           f == [d \in D |-> TotalSince(x, d[1], d[2])]
           g == On(f, P)
           here(k) == {i \in Said(x, k) : <<k, i>> \in P}
           T == {k \in K : here(k) # {}}
           h == [d \in P |-> d[1]]
<1>0. b \in Int /\ IsFiniteSet(K) /\ x \in Metrics
  <2>1. IsFiniteSet(K)
    BY KeysFact, FS_Subset DEF Histograms
  <2> QED
    BY <2>1, StartsFact DEF Histograms
<1>1. /\ IsFiniteSet(D)
      /\ \A d \in D : /\ d = <<d[1], d[2]>> /\ d[1] \in K /\ d[2] \in Said(x, d[1])
                      /\ TotalSince(x, d[1], d[2]) \in Nat
  BY InColumnFact
<1>2. E \in SUBSET D
  BY DEF LeftOut
<1>3. Slice(x, K, b).total = SumFunction(f)
  BY <1>0, SliceFact
<1> HIDE DEF D, E
<1>4. f \in [D -> Int]
  BY <1>1
<1>5. SumFunction(f) = SumFunction(g) + SumFunction(On(f, E))
  <2> HIDE DEF f
  <2> QED
    BY <1>1, <1>2, <1>4, SumParted
<1>6. On(f, E) = [d \in E |-> TotalSince(x, d[1], d[2])]
  BY <1>2 DEF On
<1>7. /\ IsFiniteSet(P) /\ g \in [P -> Int]
      /\ \A d \in P : d = <<d[1], d[2]>> /\ g[d] = TotalSince(x, d[1], d[2])
  <2>1. IsFiniteSet(P)
    BY <1>1, FS_Subset
  <2> QED
    BY <1>1, <1>4, <2>1 DEF On
<1>8. IsFiniteSet(T) /\ h \in [P -> T]
  <2>1. IsFiniteSet(T)
    BY <1>0, FS_Subset
  <2>2. \A d \in P : d[1] \in T
    BY <1>1
  <2> QED
    BY <2>1, <2>2
<1>9. ASSUME NEW d \in P PROVE d[2] \in here(d[1])
  BY <1>1
<1>10. ASSUME NEW k \in K PROVE IsFiniteSet(here(k))
  <2>1. IsFiniteSet(DOMAIN Dps(x, k)) /\ Said(x, k) \subseteq DOMAIN Dps(x, k)
    BY <1>0, DpsFact DEF Said, Measured
  <2> QED
    BY <2>1, FS_Subset
<1> HIDE DEF T, P, g, f
<1>11. SumFunction(g) = SumFunction(GroupSums(g, P, T, h))
  <2> HIDE DEF h
  <2> QED
    BY <1>7, <1>8, SumGrouped
<1>12. ASSUME NEW k \in K
       PROVE  SumFunction(On(g, {d \in P : h[d] = k}))
                = SumFunction([i \in here(k) |-> TotalSince(x, k, i)])
  <2> DEFINE Q == {d \in P : h[d] = k}
             to == [i \in here(k) |-> <<k, i>>]
             q == On(g, Q)
  <2>1. IsFiniteSet(Q) /\ Q \in SUBSET P /\ IsFiniteSet(here(k))
    BY <1>7, <1>10, FS_Subset
  <2>2. q \in [Q -> Int] /\ \A d \in Q : q[d] = TotalSince(x, d[1], d[2])
    <3> HIDE DEF h
    <3> QED
      BY <1>7, <2>1 DEF On
  <2>3. /\ to \in [here(k) -> Q]
        /\ \A a, c \in here(k) : to[a] = to[c] => a = c
        /\ \A d \in Q : \E i \in here(k) : to[i] = d
    <3>1. \A i \in here(k) : <<k, i>> \in Q
      OBVIOUS
    <3>2. \A d \in Q : d = <<k, d[2]>> /\ d[2] \in here(k)
      BY <1>7, <1>9
    <3> HIDE DEF here, Q
    <3> QED
      BY <3>1, <3>2
  <2>4. \A i \in here(k) : q[to[i]] = TotalSince(x, k, i)
    <3>1. \A i \in here(k) : to[i] = <<k, i>>
      OBVIOUS
    <3> HIDE DEF to, Q, q, here
    <3> QED
      BY <2>2, <2>3, <3>1
  <2> HIDE DEF q, Q, to, here
  <2>5. SumFunction([i \in here(k) |-> q[to[i]]]) = SumFunction(q)
    BY <2>1, <2>2, <2>3, SumReindexed
  <2>6. [i \in here(k) |-> q[to[i]]] = [i \in here(k) |-> TotalSince(x, k, i)]
    BY <2>4
  <2> QED
    BY <2>5, <2>6 DEF q, Q
<1>13. ColumnDistribution(x, K, Columns(x, K), b)
         = [k \in T |-> SumFunction([i \in here(k) |-> TotalSince(x, k, i)])]
  <2> DEFINE read(k) == {i \in DOMAIN Dps(x, k) :
                           \E a \in HeatmapColumnEnd(Columns(x, K), b) : Dps(x, k)[i].t \in b .. a}
  <2>1. ColumnDistribution(x, K, Columns(x, K), b)
          = [k \in {j \in K : Measured(x, read(j)) # {}} |->
               SumFunction([i \in Measured(x, read(k)) |-> TotalSince(x, k, i)])]
    BY DEF ColumnDistribution
  <2>2. \A k \in K : Measured(x, read(k)) = here(k)
    BY PanelMeasures DEF P, D, E
  <2> HIDE DEF read, here
  <2>3. {j \in K : Measured(x, read(j)) # {}} = T /\ T \subseteq K
    BY <2>2 DEF T
  <2> QED
    BY <2>1, <2>2, <2>3
<1>14. GroupSums(g, P, T, h) = [k \in T |-> SumFunction([i \in here(k) |-> TotalSince(x, k, i)])]
  <2> HIDE DEF h, here
  <2>1. \A k \in T : k \in K
    BY DEF T
  <2> QED
    BY <1>12, <2>1 DEF GroupSums
<1>15. SumFunction(g) = SumFunction(ColumnDistribution(x, K, Columns(x, K), b))
  BY <1>11, <1>13, <1>14
<1> HIDE DEF h, here
<1> QED
  BY <1>3, <1>5, <1>6, <1>15 DEF E

LEMMA PanelHolds ==
  ASSUME ChartsInv
  PROVE  ColumnPanelAddsUp
<1> SUFFICES ASSUME Hist, NEW b \in bucket, NEW s \in HeatmapColumnSelection(slices, b), b # Window.end
             PROVE  s.total = SumFunction(ColumnDistribution(m, visible, slices, b))
                              + SumFunction([d \in LeftOut(m, visible, b) |-> TotalSince(m, d[1], d[2])])
  BY DEF ColumnPanelAddsUp, PanelAndRest
<1>1. m \in Histograms /\ visible \in SUBSET Keys(m) /\ slices = Columns(m, visible)
  BY ChoiceColumns
<1>2. b \in Int /\ b % W = 0
  BY DEF ChartsInv, Kept, ColumnKept
<1>3. s.at = b /\ \E i \in DOMAIN slices : s = slices[i]
  BY <1>1, <1>2, SelectionFact
<1>4. b \in ColumnStarts(m, visible) /\ s = Slice(m, visible, b)
  BY <1>1, <1>3, ColumnsFact
<1>5. Slice(m, visible, b).total
        = SumFunction(ColumnDistribution(m, visible, Columns(m, visible), b))
          + SumFunction([d \in LeftOut(m, visible, b) |-> TotalSince(m, d[1], d[2])])
  BY <1>1, <1>4, PanelAddsUp
<1> QED
  BY <1>1, <1>4, <1>5

----------------------------------------------------------------------------
(* The colour scale.                                                       *)

\* The least count of band i, by that of the band before.
NextEdge(most, steps, i, e) ==
  LET next == CeilDiv((i - 1) * most, steps) IN IF next <= e THEN e + 1 ELSE next
Edges(most, steps, f) == f = [i \in 1 .. steps |-> IF i = 1 THEN 1 ELSE NextEdge(most, steps, i, f[i - 1])]

LEMMA ThresholdsDefined ==
  ASSUME NEW most, NEW steps
  PROVE  HeatmapCountThresholds(most, steps) = CHOOSE f : Edges(most, steps, f)
  BY DEF HeatmapCountThresholds, Edges, NextEdge

\* A count of whole steps, rounded up.
LEMMA CeilFact ==
  ASSUME NEW n \in Nat, NEW w \in Nat \ {0}
  PROVE  /\ CeilDiv(n, w) \in Int
         /\ \A q \in Int : n + w - 1 < q * w + w => CeilDiv(n, w) <= q
<1> DEFINE a == n + w - 1
           d == a \div w
<1>1. a \in Int
  OBVIOUS
<1>2. d \in Int /\ d * w <= a
  <2> HIDE DEF a
  <2> QED
    BY <1>1, DivisionFact
<1>3. CeilDiv(n, w) = d
  BY DEF CeilDiv
<1> HIDE DEF d
<1>4. ASSUME NEW q \in Int, n + w - 1 < q * w + w PROVE d <= q
  <2> SUFFICES ASSUME q + 1 <= d PROVE FALSE
    BY <1>2
  <2>1. (q + 1) * w <= d * w
    <3>1. d - (q + 1) \in Nat
      BY <1>2
    <3>2. (d - (q + 1)) * w \in Nat
      BY <3>1
    <3>3. (d - (q + 1)) * w = d * w - (q + 1) * w
      BY <1>2
    <3> QED
      BY <1>2, <3>2, <3>3
  <2>2. (q + 1) * w = q * w + w
    OBVIOUS
  <2> QED
    BY <1>2, <1>4, <2>1, <2>2
<1> QED
  BY <1>2, <1>3, <1>4

\* The scale's edges: 1, then each above the one before, and room is left under
\* the greatest count for those to come.
LEMMA EdgesFact ==
  ASSUME NEW most \in Nat, NEW steps \in 1 .. most
  PROVE  LET edge == HeatmapCountThresholds(most, steps)
         IN /\ DOMAIN edge = 1 .. steps /\ edge[1] = 1
            /\ \A i \in 1 .. steps : edge[i] \in Int /\ edge[i] <= most - (steps - i)
            /\ \A i \in 2 .. steps : edge[i - 1] < edge[i]
<1> DEFINE N == steps - 1
           g == [p \in (1 .. N) \X Int |-> NextEdge(most, steps, p[1] + 1, p[2])]
<1>0. N \in Nat /\ steps \in Nat \ {0}
  OBVIOUS
<1>1. ASSUME NEW i \in 2 .. steps, NEW e \in Int
      PROVE  /\ NextEdge(most, steps, i, e) \in Int /\ NextEdge(most, steps, i, e) > e
             /\ e <= most - (steps - (i - 1)) => NextEdge(most, steps, i, e) <= most - (steps - i)
  <2> DEFINE k == steps - i
             n == (i - 1) * most
  <2>0. k \in Nat /\ i - 1 \in Nat /\ n \in Nat
    BY <1>0
  <2>1. CeilDiv(n, steps) \in Int
        /\ \A q \in Int : n + steps - 1 < q * steps + steps => CeilDiv(n, steps) <= q
    <3> HIDE DEF n
    <3> QED
      BY <1>0, <2>0, CeilFact
  <2>2. CeilDiv(n, steps) <= most - k
    <3>1. n = (steps * most - k * most) - most
      BY <1>0
    <3>2. (most - k) * steps = steps * most - k * steps
      BY <1>0
    <3>3. k * steps <= k * most
      <4>1. (most - steps) \in Nat /\ k * (most - steps) = k * most - k * steps
        BY <1>0
      <4>2. k * (most - steps) \in Nat
        BY <2>0, <4>1
      <4> HIDE DEF k
      <4>3. k * most \in Int /\ k * steps \in Int
        BY <2>0, <1>0
      <4> QED
        BY <4>1, <4>2, <4>3
    <3>4. most - k \in Int
      BY <2>0
    <3> DEFINE a == steps * most
               b == k * most
               c == k * steps
               q == most - k
               r == q * steps
    <3>5. a \in Int /\ b \in Int /\ c \in Int /\ r \in Int /\ n \in Int
      BY <1>0, <2>0, <3>4
    <3>6. n = (a - b) - most /\ r = a - c /\ c <= b
      BY <3>1, <3>2, <3>3
    <3>7. n + steps - 1 < q * steps + steps
      <4> HIDE DEF a, b, c, n, k
      <4>1. n + steps - 1 < r + steps
        <5> HIDE DEF r
        <5> QED
          BY <1>0, <3>5, <3>6
      <4> QED
        BY <4>1
    <3> QED
      BY <2>1, <3>4, <3>7
  <2> DEFINE next == CeilDiv(n, steps)
  <2>3. NextEdge(most, steps, i, e) = IF next <= e THEN e + 1 ELSE next
    BY DEF NextEdge
  <2>4. next \in Int /\ next <= most - (steps - i)
    BY <2>1, <2>2
  <2> HIDE DEF next
  <2> QED
    BY <2>3, <2>4
<1>2. g \in [(1 .. N) \X Int -> Int]
  <2> SUFFICES ASSUME NEW p \in (1 .. N) \X Int PROVE NextEdge(most, steps, p[1] + 1, p[2]) \in Int
    OBVIOUS
  <2>1. p[1] + 1 \in 2 .. steps /\ p[2] \in Int
    OBVIOUS
  <2> QED
    BY <1>1, <2>1
<1>3. PICK F \in [0 .. N -> Int] : Recurses(F, N, 1, g)
  <2> HIDE DEF N, g
  <2>1. 1 \in Int
    OBVIOUS
  <2> QED
    BY <1>0, <1>2, <2>1, Recursion
<1> DEFINE f == [i \in 1 .. steps |-> F[i - 1]]
<1>4. Edges(most, steps, f)
  <2>1. ASSUME NEW i \in 2 .. steps PROVE F[i - 1] = NextEdge(most, steps, i, F[i - 2])
    <3>1. i - 1 \in 1 .. N /\ (i - 1) - 1 = i - 2 /\ (i - 1) + 1 = i
      OBVIOUS
    <3>2. F[i - 2] \in Int
      BY <3>1
    <3>3. F[i - 1] = g[<<i - 1, F[i - 2]>>]
      <4> HIDE DEF g, N
      <4> QED
        BY <1>3, <3>1 DEF Recurses
    <3>4. <<i - 1, F[i - 2]>> \in (1 .. N) \X Int
      BY <3>1, <3>2
    <3> QED
      BY <3>1, <3>3, <3>4
  <2>2. F[0] = 1
    BY <1>3 DEF Recurses
  <2>3. ASSUME NEW i \in 1 .. steps
        PROVE  f[i] = IF i = 1 THEN 1 ELSE NextEdge(most, steps, i, f[i - 1])
    <3>1. CASE i = 1
      BY <2>2, <3>1
    <3>2. CASE i # 1
      <4>1. i \in 2 .. steps /\ i - 1 \in 1 .. steps /\ (i - 1) - 1 = i - 2
        BY <3>2
      <4> QED
        BY <2>1, <3>2, <4>1
    <3> QED
      BY <3>1, <3>2
  <2> QED
    BY <2>3 DEF Edges
<1> DEFINE edge == HeatmapCountThresholds(most, steps)
<1>5. Edges(most, steps, edge)
  <2> HIDE DEF f
  <2>1. \E h : Edges(most, steps, h)
    BY <1>4
  <2> QED
    BY <2>1, ThresholdsDefined
<1> HIDE DEF f, edge, g
<1>6. DOMAIN edge = 1 .. steps /\ edge[1] = 1
      /\ \A i \in 2 .. steps : edge[i] = NextEdge(most, steps, i, edge[i - 1])
  BY <1>5 DEF Edges
<1> DEFINE I == {i \in 0 .. N : edge[i + 1] \in Int /\ edge[i + 1] <= most - (steps - (i + 1))}
<1>7. 0 \in I
  BY <1>0, <1>6
<1>8. ASSUME NEW i \in 1 .. N, i - 1 \in I PROVE i \in I
  <2>1. i + 1 \in 2 .. steps /\ (i + 1) - 1 = i /\ (i - 1) + 1 = i /\ i \in 0 .. N
    OBVIOUS
  <2>2. edge[i] \in Int /\ edge[i] <= most - (steps - i)
    BY <1>8, <2>1
  <2>3. edge[i + 1] = NextEdge(most, steps, i + 1, edge[i])
    BY <1>6, <2>1
  <2>4. edge[i + 1] \in Int /\ edge[i + 1] <= most - (steps - (i + 1))
    BY <1>1, <2>1, <2>2, <2>3
  <2> QED
    BY <2>1, <2>4
<1>9. 0 .. N \subseteq I
  <2> HIDE DEF I, N
  <2> QED
    BY <1>0, <1>7, <1>8, ByStep
<1>10. ASSUME NEW i \in 1 .. steps PROVE edge[i] \in Int /\ edge[i] <= most - (steps - i)
  <2>1. i - 1 \in 0 .. N /\ (i - 1) + 1 = i
    OBVIOUS
  <2> QED
    BY <1>9, <2>1
<1>11. ASSUME NEW i \in 2 .. steps PROVE edge[i - 1] < edge[i]
  <2>1. i - 1 \in 1 .. steps /\ i \in 1 .. steps
    OBVIOUS
  <2>2. edge[i - 1] \in Int /\ edge[i] \in Int
    BY <1>10, <2>1
  <2>3. NextEdge(most, steps, i, edge[i - 1]) > edge[i - 1]
    BY <1>1, <2>2
  <2> QED
    BY <1>6, <2>2, <2>3
<1> QED
  BY <1>6, <1>10, <1>11 DEF edge

\* What grows at each step grows throughout.
LEMMA StepsGrow ==
  ASSUME NEW n \in Nat, NEW f, \A i \in 1 .. n : f[i] \in Int, \A i \in 2 .. n : f[i - 1] < f[i]
  PROVE  \A i, j \in 1 .. n : i <= j => f[i] <= f[j]
<1> DEFINE I == {i \in Nat : i <= n => \A k \in 1 .. n : k <= i => f[k] <= f[i]}
<1>1. 0 \in I
  OBVIOUS
<1>2. ASSUME NEW i \in 1 .. n, i - 1 \in I PROVE i \in I
  <2> SUFFICES ASSUME NEW k \in 1 .. n, k <= i PROVE f[k] <= f[i]
    OBVIOUS
  <2>1. CASE k = i
    BY <2>1
  <2>2. CASE k # i
    <3>1. k <= i - 1 /\ i - 1 \in 1 .. n /\ i \in 2 .. n
      BY <2>2
    <3>2. f[k] <= f[i - 1]
      BY <1>2, <3>1
    <3>3. f[i - 1] < f[i] /\ f[k] \in Int /\ f[i - 1] \in Int /\ f[i] \in Int
      BY <3>1
    <3> QED
      BY <3>2, <3>3
  <2> QED
    BY <2>1, <2>2
<1>3. 0 .. n \subseteq I
  <2> HIDE DEF I
  <2> QED
    BY <1>1, <1>2, ByStep
<1> QED
  <2> TAKE i, j \in 1 .. n
  <2> HAVE i <= j
  <2>1. j \in I
    BY <1>3
  <2> QED
    BY <2>1

\* With the legend's counts: how many bands there are, and what they hold.
LEMMA BandsFact ==
  ASSUME NEW C, IsFiniteSet(C), C \subseteq Nat \ {0}, C # {}
  PROVE  /\ Max(C \cup {0}) = Max(C) /\ Max(C) \in Nat /\ Steps(C) \in 1 .. Max(C)
         /\ \A n \in C : n \in 1 .. Max(C)
<1>1. C \subseteq Int /\ IsFiniteSet(C \cup {0}) /\ C \cup {0} \subseteq Int
  <2>1. IsFiniteSet(C \cup {0})
    BY FS_AddElement
  <2> QED
    BY <2>1
<1>2. Max(C) \in C /\ \A n \in C : n <= Max(C)
  BY <1>1, Extremes
<1>3. Max(C \cup {0}) \in C \cup {0} /\ \A n \in C \cup {0} : n <= Max(C \cup {0})
  BY <1>1, Extremes
<1>4. Max(C) \in Nat \ {0} /\ Max(C \cup {0}) \in Nat
  <2>1. \A n \in C : n \in Nat \ {0}
    OBVIOUS
  <2>2. Max(C) \in Nat \ {0}
    BY <1>2, <2>1
  <2>3. Max(C \cup {0}) \in C \/ Max(C \cup {0}) = 0
    BY <1>3
  <2>4. CASE Max(C \cup {0}) \in C
    BY <2>1, <2>2, <2>4
  <2>5. CASE Max(C \cup {0}) = 0
    <3>1. 0 \in Nat
      OBVIOUS
    <3> QED
      BY <2>2, <2>5, <3>1
  <2> QED
    BY <2>3, <2>4, <2>5
<1>5. Max(C \cup {0}) = Max(C)
  <2>1. Max(C) <= Max(C \cup {0}) /\ Max(C \cup {0}) <= Max(C)
    BY <1>2, <1>3, <1>4
  <2> QED
    BY <1>4, <2>1
<1>6. Steps(C) \in 1 .. Max(C)
  <2> DEFINE distinct == Cardinality(C \ {0})
             steps == IF distinct < 1 THEN 1 ELSE IF distinct > MaxSteps THEN MaxSteps ELSE distinct
  <2>1. distinct \in Nat
    BY FS_Subset, FS_CardinalityType
  <2>2. MaxSteps \in Nat \ {0}
    BY ScaleAssumption
  <2>3. steps \in Nat \ {0}
    BY <2>1, <2>2
  <2>4. Steps(C) = IF steps > Max(C) THEN Max(C) ELSE steps
    BY DEF Steps
  <2> HIDE DEF steps
  <2> QED
    BY <1>4, <2>3, <2>4
<1>7. \A n \in C : n \in 1 .. Max(C)
  BY <1>2, <1>4
<1> QED
  BY <1>4, <1>5, <1>6, <1>7

\* The cells' counts are those the legend collects.
LEMMA LegendFact ==
  ASSUME NEW x \in Histograms, NEW K \in SUBSET Keys(x)
  PROVE  LET slices2 == Columns(x, K)
         IN /\ {d.count : d \in HeatmapCells(slices2)} = LegendCounts(slices2)
            /\ IsFiniteSet(LegendCounts(slices2)) /\ LegendCounts(slices2) \subseteq Nat \ {0}
<1> DEFINE cols == Columns(x, K)
           cells == HeatmapCells(cols)
           C == {d.count : d \in cells}
<1>1. cols \in Seq(SliceType)
  BY ColumnsFact
<1>2. cells = UNION {{[ms |-> Ms(cols[i].at), row |-> j, count |-> cols[i].counts[j]] :
                         j \in {e \in Cells : cols[i].counts[e] # 0}} : i \in DOMAIN cols}
      /\ IsFiniteSet(cells)
  BY CellsOfColumns
<1> HIDE DEF cells, cols
<1>3. ASSUME NEW i \in DOMAIN cols PROVE cols[i].counts \in [Cells -> Nat]
  <2>1. cols[i] \in SliceType
    <3> HIDE DEF SliceType
    <3> QED
      BY <1>1
  <2> QED
    BY <2>1 DEF SliceType
<1>4. ASSUME NEW n \in C PROVE n \in LegendCounts(cols)
  <2>1. PICK d \in cells : n = d.count
    OBVIOUS
  <2>2. PICK i \in DOMAIN cols, j \in Cells : cols[i].counts[j] # 0 /\ n = cols[i].counts[j]
    BY <1>2, <2>1
  <2>3. cols[i] \in ToSet(cols) /\ n \in ToSet(cols[i].counts)
    BY <1>3, <2>2 DEF ToSet
  <2> QED
    BY <2>2, <2>3 DEF LegendCounts
<1>5. ASSUME NEW n \in LegendCounts(cols) PROVE n \in C /\ n \in Nat \ {0}
  <2>1. PICK s \in ToSet(cols) : n \in ToSet(s.counts) /\ n # 0
    BY DEF LegendCounts
  <2>2. PICK i \in DOMAIN cols : s = cols[i]
    BY <2>1 DEF ToSet
  <2>3. PICK j \in Cells : n = cols[i].counts[j]
    BY <1>3, <2>1, <2>2 DEF ToSet
  <2> DEFINE d == [ms |-> Ms(cols[i].at), row |-> j, count |-> cols[i].counts[j]]
  <2>4. d \in cells
    BY <1>2, <2>1, <2>3
  <2>5. d.count = n
    BY <2>3
  <2>6. n \in C
    BY <2>4, <2>5
  <2> QED
    BY <1>3, <2>1, <2>3, <2>6
<1>6. IsFiniteSet(C)
  <2> DEFINE f == [d \in cells |-> d.count]
  <2>1. IsFiniteSet({f[d] : d \in cells})
    <3>1. DOMAIN f = cells
      OBVIOUS
    <3> HIDE DEF f
    <3> QED
      BY <1>2, <3>1, ImageFinite
  <2> QED
    BY <2>1
<1>7. C = LegendCounts(cols)
  <2> HIDE DEF C
  <2> QED
    BY <1>4, <1>5
<1> HIDE DEF C
<1>8. IsFiniteSet(LegendCounts(cols)) /\ LegendCounts(cols) \subseteq Nat \ {0}
  BY <1>5, <1>6, <1>7
<1> QED
  BY <1>7, <1>8 DEF C, cells, cols

\* Every cell is painted with the swatch whose range holds its count.
LEMMA CellsHold ==
  ASSUME ChartsInv
  PROVE  CellsAreInTheirBand
<1> SUFFICES ASSUME Hist
             PROVE  LET bands == LegendBands(slices)
                    IN /\ \A d \in HeatmapCells(slices) :
                            {i \in DOMAIN bands : d.count \in bands[i]}
                              = {PaintedBand(CellThresholds(slices), d.count)}
                       /\ \A i \in DOMAIN bands : bands[i] # {}
  BY DEF CellsAreInTheirBand
<1> DEFINE C == LegendCounts(slices)
           most == Max(C \cup {0})
           steps == Steps(C)
           edge == HeatmapCountThresholds(most, steps)
           bands == LegendBands(slices)
<1>1. {d.count : d \in HeatmapCells(slices)} = C /\ IsFiniteSet(C) /\ C \subseteq Nat \ {0}
  BY ChoiceColumns, LegendFact
<1>2. CellThresholds(slices) = edge
  BY <1>1 DEF CellThresholds
<1>3. bands = [i \in 1 .. steps |-> edge[i] .. (IF i = steps THEN Max(C) ELSE edge[i + 1] - 1)]
  BY DEF LegendBands
<1>4. \A d \in HeatmapCells(slices) : d.count \in C
  BY <1>1
<1> HIDE DEF C, bands
<1>5. CASE C = {}
  <2>1. steps = 0
    <3>1. Cardinality({} \ {0}) = 0
      BY FS_EmptySet
    <3> QED
      BY <1>5, <3>1 DEF Steps
  <2>2. DOMAIN bands = {}
    BY <1>3, <2>1
  <2> QED
    BY <1>4, <1>5, <2>2 DEF bands
<1>6. CASE C # {}
  <2>1. most = Max(C) /\ most \in Nat /\ steps \in 1 .. most /\ \A n \in C : n \in 1 .. most
    BY <1>1, <1>6, BandsFact
  <2> HIDE DEF most, steps
  <2>2. /\ DOMAIN edge = 1 .. steps /\ edge[1] = 1
        /\ \A i \in 1 .. steps : edge[i] \in Int /\ edge[i] <= most - (steps - i)
        /\ \A i \in 2 .. steps : edge[i - 1] < edge[i]
    BY <2>1, EdgesFact
  <2> HIDE DEF edge
  <2>3. \A i, j \in 1 .. steps : i <= j => edge[i] <= edge[j]
    <3>1. steps \in Nat
      BY <2>1
    <3>2. \A i \in 1 .. steps : edge[i] \in Int
      BY <2>2
    <3>3. \A i \in 2 .. steps : edge[i - 1] < edge[i]
      BY <2>2
    <3> QED
      BY <3>1, <3>2, <3>3, StepsGrow
  <2>4. DOMAIN bands = 1 .. steps
    BY <1>3
  <2>5. ASSUME NEW i \in 1 .. steps
        PROVE  bands[i] = edge[i] .. (IF i = steps THEN most ELSE edge[i + 1] - 1)
    BY <1>3, <2>1
  <2>6. ASSUME NEW i \in 1 .. steps PROVE bands[i] # {}
    <3>1. edge[i] \in Int /\ edge[i] <= most - (steps - i)
      BY <2>2
    <3>2. CASE i = steps
      <4>1. edge[i] \in edge[i] .. most
        BY <2>1, <3>1, <3>2
      <4> QED
        BY <2>5, <3>2, <4>1
    <3>3. CASE i # steps
      <4>1. i + 1 \in 2 .. steps /\ (i + 1) - 1 = i /\ i + 1 \in 1 .. steps
        BY <2>1, <3>3
      <4>2. edge[i] < edge[i + 1] /\ edge[i + 1] \in Int
        BY <2>2, <4>1
      <4>3. edge[i] \in edge[i] .. (edge[i + 1] - 1)
        BY <3>1, <4>2
      <4> QED
        BY <2>5, <3>3, <4>3
    <3> QED
      BY <3>2, <3>3
  <2>7. ASSUME NEW n \in C
        PROVE  {i \in DOMAIN bands : n \in bands[i]} = {PaintedBand(edge, n)}
    <3> DEFINE J == {i \in 1 .. steps : edge[i] <= n}
               p == PaintedBand(edge, n)
    <3>1. n \in 1 .. most
      BY <2>1
    <3>2. \A i \in J : \A j \in 1 .. steps : j <= i => j \in J
      BY <2>2, <2>3, <3>1
    <3>3. p \in 0 .. steps /\ J = 1 .. p
      <4>1. p = Cardinality(J)
        BY <2>2 DEF PaintedBand
      <4>2. J \in SUBSET (1 .. steps) /\ steps \in Nat
        BY <2>1
      <4> HIDE DEF J, p
      <4> QED
        BY <3>2, <4>1, <4>2, SegmentFact
    <3>4. 1 \in J
      BY <2>1, <2>2, <3>1
    <3> HIDE DEF p
    <3>5. p \in 1 .. steps /\ edge[p] <= n
      <4>1. 1 \in 1 .. p
        BY <3>3, <3>4
      <4>2. p \in 1 .. steps /\ p \in 1 .. p
        BY <3>3, <4>1
      <4> QED
        BY <3>3, <4>2
    <3>6. ASSUME NEW i \in 1 .. steps PROVE n \in bands[i] <=> i = p
      <4>1. edge[i] \in Int /\ n \in Int
        BY <2>2, <3>1
      <4>2. CASE i = steps
        <5>1. n \in bands[i] <=> edge[i] <= n
          BY <2>1, <2>5, <3>1, <4>1, <4>2
        <5>2. edge[i] <= n <=> i \in 1 .. p
          BY <3>3
        <5> QED
          BY <3>5, <4>2, <5>1, <5>2
      <4>3. CASE i # steps
        <5>1. i + 1 \in 1 .. steps
          BY <2>1, <4>3
        <5>2. edge[i + 1] \in Int
          BY <2>2, <5>1
        <5>3. n \in bands[i] <=> edge[i] <= n /\ ~ (edge[i + 1] <= n)
          BY <2>5, <4>1, <4>3, <5>2
        <5>4. edge[i] <= n <=> i \in 1 .. p
          BY <3>3
        <5>5. edge[i + 1] <= n <=> i + 1 \in 1 .. p
          BY <3>3, <5>1
        <5> QED
          BY <3>5, <5>3, <5>4, <5>5
      <4> QED
        BY <4>2, <4>3
    <3> QED
      BY <2>4, <3>5, <3>6 DEF p
  <2> QED
    BY <1>2, <1>4, <2>4, <2>6, <2>7 DEF bands
<1> QED
  BY <1>5, <1>6

----------------------------------------------------------------------------
(* The lines beneath the aggregate.                                        *)

\* Buckets are at least a bucket apart on the chart's clock.
LEMMA ClockApart ==
  /\ Ms(W) \in Nat \ {0}
  /\ \A a, b \in Int : a % W = 0 /\ b % W = 0 /\ a < b => Ms(a) + Ms(W) <= Ms(b)
<1> DEFINE N == NsPerMs
<1>1. N \in Nat \ {0} /\ W \in Nat \ {0}
  BY WidthFact
<1>2. \A p, q \in Int : p * N <= q * N => p <= q
  <2> SUFFICES ASSUME NEW p \in Int, NEW q \in Int, q < p PROVE ~ (p * N <= q * N)
    BY <1>1
  <2> HIDE DEF N
  <2>1. (p - q) - 1 \in Nat
    OBVIOUS
  <2>2. ((p - q) - 1) * N \in Nat
    BY <1>1, <2>1
  <2>3. ((p - q) - 1) * N = p * N - q * N - N
    BY <1>1
  <2>4. p * N \in Int /\ q * N \in Int
    BY <1>1
  <2> QED
    BY <1>1, <2>2, <2>3, <2>4
<1>3. \A b \in Int : b % W = 0 => b = Ms(b) * N
  BY ClockFact
<1>4. \A t \in Int : Ms(t) \in Int
  BY ClockFact
<1> HIDE DEF N
<1>5. W \in Int /\ W % W = 0
  <2>1. (1 * W) % W = 0
    BY <1>1, QuotientFact
  <2> QED
    BY <1>1, <2>1
<1>6. W = Ms(W) * N /\ Ms(W) \in Int
  BY <1>3, <1>4, <1>5
<1>7. Ms(W) \in Nat \ {0}
  <2>1. ~ (Ms(W) <= 0)
    <3> SUFFICES ASSUME Ms(W) <= 0 PROVE FALSE
      OBVIOUS
    <3>1. (0 - Ms(W)) \in Nat
      BY <1>6
    <3>2. (0 - Ms(W)) * N \in Nat
      BY <1>1, <3>1
    <3>3. (0 - Ms(W)) * N = 0 - Ms(W) * N
      BY <1>1, <1>6
    <3> QED
      BY <1>1, <1>6, <3>2, <3>3
  <2> QED
    BY <1>6, <2>1
<1>8. ASSUME NEW a \in Int, NEW b \in Int, a % W = 0, b % W = 0, a < b PROVE Ms(a) + Ms(W) <= Ms(b)
  <2>1. a + W <= b
    BY <1>1, <1>8, MultiplesApart
  <2>2. a = Ms(a) * N /\ b = Ms(b) * N /\ Ms(a) \in Int /\ Ms(b) \in Int
    BY <1>3, <1>4, <1>8
  <2>3. (Ms(a) + Ms(W)) * N = Ms(a) * N + Ms(W) * N
    BY <1>1, <1>6, <2>2
  <2>4. (Ms(a) + Ms(W)) * N <= Ms(b) * N
    BY <1>6, <2>1, <2>2, <2>3
  <2> QED
    BY <1>2, <1>6, <2>2, <2>4
<1> QED
  BY <1>7, <1>8

\* The grid a line is moved onto: a point of the grid lies between its own
\* midpoints and between no others.
LEMMA GridFact ==
  ASSUME NEW ps \in Seq(Point), NEW cs \in Seq(Int), Increasing(cs), NEW i \in DOMAIN cs
  PROVE  /\ \A j \in DOMAIN ps : ps[j].ms = cs[i] => j \in InOf(ps, cs, i)
         /\ \A j \in InOf(ps, cs, i) : \A e \in DOMAIN cs : ps[j].ms = cs[e] => e = i
         /\ i # Len(cs) => \A j \in InOf(ps, cs, i) : 2 * ps[j].ms < cs[i] + cs[i + 1]
<1> DEFINE n == Len(cs)
           step == StepOf(cs)
<1>1. DOMAIN cs = 1 .. n /\ n \in Nat \ {0} /\ \A e \in 1 .. n : cs[e] \in Int
  OBVIOUS
<1>2. \A e, f \in 1 .. n : e < f => cs[e] < cs[f]
  BY <1>1 DEF Increasing
<1>3. \A e, f \in 1 .. n : e <= f => cs[e] <= cs[f]
  BY <1>1, IncreasingFact
<1>4. \A j \in DOMAIN ps : ps[j].ms \in Int
  <2>1. \A j \in DOMAIN ps : ps[j] \in Point
    OBVIOUS
  <2> QED
    BY <2>1 DEF Point
<1> HIDE DEF n
<1>5. step \in Nat \ {0}
  <2>1. CASE n > 1
    <3> DEFINE I == {e \in Nat : e + 1 <= n => cs[1] + e <= cs[e + 1]}
    <3>1. 0 \in I
      BY <1>1
    <3>2. ASSUME NEW e \in 1 .. n - 1, e - 1 \in I PROVE e \in I
      <4>1. e \in 1 .. n /\ e + 1 \in 1 .. n /\ (e - 1) + 1 = e /\ 1 \in 1 .. n
        BY <1>1
      <4>2. cs[e] < cs[e + 1] /\ cs[1] + (e - 1) <= cs[e] /\ cs[e] \in Int /\ cs[e + 1] \in Int /\ cs[1] \in Int
        BY <1>1, <1>2, <3>2, <4>1
      <4>3. cs[1] + e <= cs[e + 1]
        BY <4>1, <4>2
      <4> QED
        BY <4>3
    <3>3. n - 1 \in I
      <4> HIDE DEF I
      <4>1. n - 1 \in Nat
        BY <1>1
      <4>2. 0 .. n - 1 \subseteq I
        BY <3>1, <3>2, <4>1, ByStep
      <4> QED
        BY <4>1, <4>2
    <3> DEFINE a == cs[n] - cs[1]
               w == n - 1
               d == a \div w
    <3>4. a \in Int /\ w \in Nat \ {0} /\ w <= a
      <4>1. (n - 1) + 1 = n /\ n - 1 \in Nat /\ cs[1] \in Int /\ cs[n] \in Int
        BY <1>1, <2>1
      <4>2. cs[1] + (n - 1) <= cs[n]
        BY <3>3, <4>1
      <4> QED
        BY SMTT(20), <2>1, <4>1, <4>2
    <3>5. step = d
      BY <2>1 DEF StepOf, n
    <3> HIDE DEF a, w
    <3>6. d \in Int /\ a < d * w + w
      BY <3>4, DivisionFact
    <3> HIDE DEF d, step
    <3>7. ~ (d <= 0)
      <4> SUFFICES ASSUME d <= 0 PROVE FALSE
        OBVIOUS
      <4>1. 0 - d \in Nat
        BY <3>6
      <4>2. (0 - d) * w \in Nat
        BY <3>4, <4>1
      <4>3. (0 - d) * w = 0 - d * w /\ d * w \in Int
        BY <3>4, <3>6
      <4> QED
        BY <3>4, <3>6, <4>2, <4>3
    <3> QED
      BY <3>5, <3>6, <3>7
  <2>2. CASE ~ (n > 1)
    BY <2>2 DEF StepOf, n
  <2> QED
    BY <2>1, <2>2
<1> HIDE DEF step
<1>6. LoOf(cs, i) = IF i = 1 THEN 2 * cs[1] - step ELSE cs[i - 1] + cs[i]
  BY DEF LoOf, step
<1>7. HiOf(cs, i) = IF i = n THEN 2 * cs[n] + step ELSE cs[i] + cs[i + 1]
  BY DEF HiOf, step, n
<1>8. i \in 1 .. n /\ cs[i] \in Int
  BY <1>1
<1>9. /\ i # 1 => i - 1 \in 1 .. n /\ cs[i - 1] < cs[i] /\ cs[i - 1] \in Int
      /\ i # n => i + 1 \in 1 .. n /\ cs[i] < cs[i + 1] /\ cs[i + 1] \in Int
  <2>1. i # 1 => i - 1 \in 1 .. n /\ i - 1 < i
    BY <1>1, <1>8
  <2>2. i # n => i + 1 \in 1 .. n /\ i < i + 1
    BY <1>1, <1>8
  <2> QED
    BY <1>1, <1>2, <1>8, <2>1, <2>2
<1>10. /\ LoOf(cs, i) \in Int /\ LoOf(cs, i) <= 2 * cs[i]
       /\ HiOf(cs, i) \in Int /\ 2 * cs[i] < HiOf(cs, i)
  <2>1. LoOf(cs, i) \in Int /\ LoOf(cs, i) <= 2 * cs[i]
    BY <1>5, <1>6, <1>8, <1>9
  <2>2. HiOf(cs, i) \in Int /\ 2 * cs[i] < HiOf(cs, i)
    BY <1>5, <1>7, <1>8, <1>9
  <2> QED
    BY <2>1, <2>2
<1>11. ASSUME NEW j \in DOMAIN ps, ps[j].ms = cs[i] PROVE j \in InOf(ps, cs, i)
  BY <1>8, <1>10, <1>11 DEF InOf
<1>12. ASSUME NEW j \in InOf(ps, cs, i), NEW e \in DOMAIN cs, ps[j].ms = cs[e] PROVE e = i
  <2>1. 2 * cs[e] >= LoOf(cs, i) /\ 2 * cs[e] < HiOf(cs, i) /\ e \in 1 .. n /\ cs[e] \in Int
    BY <1>1, <1>12 DEF InOf
  <2>2. ~ (e < i)
    <3> SUFFICES ASSUME e < i PROVE FALSE
      OBVIOUS
    <3>1. i # 1 /\ e <= i - 1
      BY <1>8, <2>1
    <3>2. cs[e] <= cs[i - 1]
      BY <1>3, <1>9, <2>1, <3>1
    <3> QED
      BY <1>6, <1>8, <1>9, <2>1, <3>1, <3>2
  <2>3. ~ (i < e)
    <3> SUFFICES ASSUME i < e PROVE FALSE
      OBVIOUS
    <3>1. i # n /\ i + 1 <= e
      BY <1>8, <2>1
    <3>2. cs[i + 1] <= cs[e]
      BY <1>3, <1>9, <2>1, <3>1
    <3> QED
      BY <1>7, <1>8, <1>9, <2>1, <3>1, <3>2
  <2> QED
    BY <1>8, <2>1, <2>2, <2>3
<1>13. ASSUME i # n, NEW j \in InOf(ps, cs, i) PROVE 2 * ps[j].ms < cs[i] + cs[i + 1]
  BY <1>7, <1>13 DEF InOf
<1> QED
  BY <1>11, <1>12, <1>13 DEF n

\* What a moved line shows at a point of the grid: the last of its points there.
LEMMA ShownAtFact ==
  ASSUME NEW T, NEW l \in [key : T, points : Seq(Point)], NEW cs \in Seq(Int), Increasing(cs),
         NEW i \in DOMAIN cs
  PROVE  LET at == InOf(l.points, cs, i)
         IN /\ ShownAt(Resample(l, cs).points, cs[i])
                  = IF at = {} THEN 0 ELSE l.points[LastIn(l.points, cs, i)].v
            /\ at # {} => LastIn(l.points, cs, i) \in at
            /\ \A e \in at : e <= LastIn(l.points, cs, i)
<1> DEFINE ps == l.points
           qs == Resample(l, cs).points
           end == IF WithData(ps, cs) = {} THEN 0 ELSE Max(WithData(ps, cs))
           D == {j \in DOMAIN qs : qs[j].ms = cs[i]}
<1>1. ps \in Seq(Point) /\ DOMAIN ps = 1 .. Len(ps) /\ Len(ps) \in Nat
  OBVIOUS
<1>2. DOMAIN cs = 1 .. Len(cs) /\ Len(cs) \in Nat
  OBVIOUS
<1>3. /\ qs \in Seq(Point) /\ Len(qs) = end /\ Len(qs) <= Len(cs)
      /\ \A j \in DOMAIN qs : MovesPoint(ps, cs, qs, j)
  <2>1. Resample(l, cs) \in [key : T, points : Seq(Point)]
    BY ResampleFact
  <2> QED
    BY <2>1, ResampleFact
<1>4. /\ InOf(ps, cs, i) # {} => LastIn(ps, cs, i) \in InOf(ps, cs, i)
      /\ \A e \in InOf(ps, cs, i) : e <= LastIn(ps, cs, i)
  <2>1. InOf(ps, cs, i) \subseteq DOMAIN ps
    BY DEF InOf
  <2>2. InOf(ps, cs, i) \subseteq Int /\ IsFiniteSet(InOf(ps, cs, i))
    <3>1. IsFiniteSet(DOMAIN ps) /\ DOMAIN ps \subseteq Int
      BY <1>1, FS_Interval
    <3> HIDE DEF ps
    <3> QED
      BY <2>1, <3>1, FS_Subset
  <2> QED
    BY <2>2, Extremes DEF LastIn
<1> HIDE DEF ps, qs
<1>5. DOMAIN qs = 1 .. Len(qs) /\ Len(qs) \in Nat
  BY <1>3
<1>6. \A j \in DOMAIN qs : j \in DOMAIN cs /\ qs[j].ms = cs[j]
  BY <1>3 DEF MovesPoint
<1>7. D = {i} \cap DOMAIN qs
  <2>1. \A a, b \in DOMAIN cs : cs[a] = cs[b] => a = b
    BY IncreasingFact
  <2> QED
    BY <1>6, <2>1
<1>8. ShownAt(qs, cs[i]) = SumFunction([j \in D |-> qs[j].v])
  BY DEF ShownAt
<1>9. \A j \in DOMAIN qs : qs[j].v \in Int
  <2>1. \A j \in DOMAIN qs : qs[j] \in Point
    BY <1>3
  <2> QED
    BY <2>1 DEF Point
<1> DEFINE f == [j \in D |-> qs[j].v]
<1>10. IsFiniteSet(D) /\ f \in [D -> Int]
  <2>1. IsFiniteSet(DOMAIN qs)
    BY <1>5, FS_Interval
  <2>2. IsFiniteSet(D)
    BY <2>1, FS_Subset
  <2> QED
    BY <1>9, <2>2
<1> HIDE DEF D
<1>11. CASE i \in DOMAIN qs
  <2>1. D = {i} /\ D \ {i} = {}
    BY <1>7, <1>11
  <2>2. SumFunction(On(f, {})) = 0
    <3>1. {} \in SUBSET D
      OBVIOUS
    <3> HIDE DEF f
    <3> QED
      BY <1>10, <3>1, SumOn
  <2>3. SumFunction(f) = f[i] + SumFunction(On(f, D \ {i}))
    <3>1. i \in D
      BY <2>1
    <3> HIDE DEF f
    <3> QED
      BY <1>10, <3>1, SumFact
  <2>4. f[i] = qs[i].v /\ qs[i].v \in Int
    BY <1>9, <1>11, <2>1
  <2>5. SumFunction(f) = qs[i].v
    <3> HIDE DEF f
    <3>1. SumFunction(f) = f[i] + SumFunction(On(f, {}))
      BY <2>1, <2>3
    <3>2. SumFunction(f) = f[i] + 0
      BY <2>2, <3>1
    <3> QED
      BY <2>4, <3>2
  <2>6. qs[i].v = IF InOf(ps, cs, i) = {} THEN 0 ELSE ps[LastIn(ps, cs, i)].v
    BY <1>3, <1>11 DEF MovesPoint
  <2> QED
    BY <1>4, <1>8, <2>5, <2>6 DEF ps, qs
<1>12. CASE i \notin DOMAIN qs
  <2>1. D = {}
    BY <1>7, <1>12
  <2>2. SumFunction(f) = 0
    <3> HIDE DEF f
    <3> QED
      BY <1>10, <2>1, SumFact
  <2>3. InOf(ps, cs, i) = {}
    <3> SUFFICES ASSUME InOf(ps, cs, i) # {} PROVE FALSE
      OBVIOUS
    <3>1. i \in WithData(ps, cs)
      BY <1>2 DEF WithData
    <3>2. IsFiniteSet(WithData(ps, cs)) /\ WithData(ps, cs) \subseteq Int
      <4>1. WithData(ps, cs) \subseteq 1 .. Len(cs) /\ IsFiniteSet(1 .. Len(cs))
        BY <1>2, FS_Interval DEF WithData
      <4> QED
        BY <1>2, <4>1, FS_Subset
    <3>3. i <= Max(WithData(ps, cs)) /\ Max(WithData(ps, cs)) = Len(qs)
      BY <1>3, <3>1, <3>2, Extremes
    <3> QED
      BY <1>2, <1>5, <1>12, <3>3
  <2> QED
    BY <1>4, <1>8, <2>2, <2>3 DEF ps, qs
<1> QED
  BY <1>11, <1>12

\* The line across the checked series stands first among those the chart keeps,
\* so its points are the grid.
LEMMA TopLine ==
  ASSUME NEW c \in Charted, c.agg = "rate", NEW l \in ToSet(Lines(c)), l.key \in {AggSelected, AggTotal}
  PROVE  ShownOf(c) # <<>> /\ ShownOf(c)[1] = l /\ l.points = AggPoints(c, c.visible)
<1> DEFINE A == AggregateLines(c)
           shown == ShownOf(c)
           kept == {e \in ToSet(A) : /\ e.key = AggSelected => Len(RawLines(c)) >= 2
                                     /\ e.key = AggAll => c.all}
<1>1. l \in ToSet(shown)
  BY LinesFact DEF AggKeys
<1>2. shown # <<>>
  BY <1>1 DEF ToSet
<1>3. shown = Keeping(A, kept)
  BY <1>2 DEF ShownOf, AggregatesShown
<1>4. /\ A \in Seq(AggLine)
      /\ \A e \in ToSet(A) :
           /\ e.key = AggSelected => e.points = AggPoints(c, c.visible)
           /\ e.key = AggTotal => e.points = AggPoints(c, Keys(c.m)) /\ c.visible = Keys(c.m)
      /\ \/ Len(A) <= 1
         \/ Len(A) = 2 /\ A[1].key = AggSelected /\ A[2].key = AggAll
  BY AggregateLinesFact
<1> HIDE DEF A, kept, shown
<1>5. /\ ToSet(shown) = ToSet(A) \cap kept
      /\ \E at \in Seq(DOMAIN A) : Increasing(at) /\ DOMAIN at = DOMAIN shown
           /\ ToSet(at) = {i \in DOMAIN A : A[i] \in kept}
           /\ \A i \in DOMAIN at : shown[i] = A[at[i]]
  BY <1>3, <1>4, KeepingFact
<1>6. PICK at \in Seq(DOMAIN A) : /\ Increasing(at) /\ DOMAIN at = DOMAIN shown
                                  /\ ToSet(at) = {i \in DOMAIN A : A[i] \in kept}
                                  /\ \A i \in DOMAIN at : shown[i] = A[at[i]]
  BY <1>5
<1>7. l \in ToSet(A) /\ l \in kept
  BY <1>1, <1>5
<1>8. DOMAIN A = 1 .. Len(A) /\ Len(A) \in Nat
  BY <1>4
<1>9. 1 \in DOMAIN A /\ A[1] = l
  <2>1. PICK q \in DOMAIN A : A[q] = l
    BY <1>7 DEF ToSet
  <2>2. q = 1
    <3>1. CASE Len(A) <= 1
      BY <1>8, <3>1
    <3>2. CASE Len(A) = 2 /\ A[1].key = AggSelected /\ A[2].key = AggAll
      <4>1. q \in {1, 2}
        BY <1>8, <3>2
      <4>2. q # 2
        BY <2>1, <3>2 DEF AggAll, AggSelected, AggTotal
      <4> QED
        BY <4>1, <4>2
    <3> QED
      BY <1>4, <3>1, <3>2
  <2> QED
    BY <2>1, <2>2
<1>10. shown[1] = l
  <2>1. 1 \in ToSet(at)
    BY <1>6, <1>7, <1>9
  <2>2. PICK j \in DOMAIN at : at[j] = 1
    BY <2>1 DEF ToSet
  <2>3. DOMAIN at = 1 .. Len(at) /\ Len(at) \in Nat
    BY <1>6
  <2>4. 1 \in DOMAIN at
    BY <2>2, <2>3
  <2>5. at[1] \in DOMAIN A
    BY <1>6, <2>4
  <2>6. at[1] = 1
    <3> SUFFICES ASSUME at[1] # 1 PROVE FALSE
      OBVIOUS
    <3>1. j # 1 /\ 1 < j
      BY <2>2, <2>3
    <3>2. at[1] < at[j]
      BY <1>6, <2>4, <3>1 DEF Increasing
    <3> QED
      BY <1>8, <2>2, <2>5, <3>2
  <2> QED
    BY <1>6, <1>9, <2>4, <2>6
<1>11. l.points = AggPoints(c, c.visible)
  BY <1>4, <1>7
<1> QED
  BY <1>2, <1>10, <1>11 DEF shown

\* What a series answers for a bucket, and nothing outside of its spine.
RateAt(x, k, b) ==
  IF b \in Spine(x, k) /\ ViewRow(x, k, b).rate # {} THEN Answer(x, b, "rate", k) ELSE 0

\* The pool's row: a rate as soon as one series has one, their sum; and no
\* samples when none has.
LEMMA PoolRateFact ==
  ASSUME NEW x \in Scalars, NEW K \in SUBSET Keys(x), NEW b \in Int
  PROVE  /\ \A k \in K : b \in Spine(x, k) /\ ViewRow(x, k, b).rate # {} => PoolRow(x, K, b).rate # {}
         /\ (IF PoolRow(x, K, b).rate = {} THEN 0 ELSE CHOOSE v \in PoolRow(x, K, b).rate : TRUE)
              = SumFunction([k \in K |-> RateAt(x, k, b)])
<1> DEFINE D == Answering(x, K, b, "rate")
           f == Answers(x, K, b, "rate")
           g == [k \in K |-> RateAt(x, k, b)]
<1>1. IsFiniteSet(D) /\ f \in [D -> Int] /\ PoolRow(x, K, b).rate = Nullable(f)
  BY PoolRowFact
<1>2. D = {k \in K : b \in Spine(x, k) /\ ViewRow(x, k, b).rate # {}}
  BY DEF Answering, Rows
<1>3. \A k \in D : f[k] = RateAt(x, k, b)
  BY <1>2 DEF RateAt, Answers
<1>4. \A k \in K \ D : RateAt(x, k, b) = 0
  BY <1>2 DEF RateAt
<1> HIDE DEF D, f
<1>5. g \in [K -> Int] /\ D \in SUBSET K /\ IsFiniteSet(K)
  <2>1. D \in SUBSET K
    BY <1>2
  <2>2. \A k \in K : RateAt(x, k, b) \in Int
    BY <1>1, <1>3, <1>4
  <2>3. IsFiniteSet(Keys(x))
    BY KeysFact DEF Scalars
  <2>4. IsFiniteSet(K)
    BY <2>3, FS_Subset
  <2> QED
    BY <2>1, <2>2, <2>4
<1>6. SumFunction(g) = SumFunction([k \in D |-> g[k]])
  <2>1. \A k \in K \ D : g[k] = 0
    BY <1>4
  <2> HIDE DEF g
  <2> QED
    BY <1>5, <2>1, SumZeros
<1>7. [k \in D |-> g[k]] = f
  <2>1. f = [k \in D |-> f[k]]
    BY <1>1
  <2>2. \A k \in D : g[k] = f[k]
    BY <1>3, <1>5
  <2> QED
    BY <2>1, <2>2
<1>8. /\ Nullable(f) = {} <=> D = {}
      /\ D # {} => Nullable(f) = {SumFunction(f)}
      /\ D = {} => SumFunction(f) = 0
  BY <1>1, NullableFact, SumFact
<1>9. CASE D = {}
  BY <1>1, <1>2, <1>6, <1>7, <1>8, <1>9
<1>10. CASE D # {}
  BY <1>1, <1>6, <1>7, <1>8, <1>10
<1> QED
  BY <1>9, <1>10

\* A bucket of a series' spine with no samples of it is followed by one for
\* which it has a rate.
LEMMA RateFollows ==
  ASSUME NEW x \in Scalars, NEW k \in Keys(x), NEW b \in Spine(x, k), ViewRow(x, k, b).n = 0
  PROVE  \E r \in Spine(x, k) : b < r /\ ViewRow(x, k, r).rate # {}
<1> DEFINE dps == Dps(x, k)
<1>1. x \in Metrics /\ b \in Int
  BY SpineFact DEF Scalars
<1>2. Here(x, k, b) = {}
  BY <1>1, ViewRowFact
<1>3. /\ \E i \in DOMAIN dps : BucketStart(dps[i].t) <= b
      /\ \E i \in DOMAIN dps : b <= BucketStart(dps[i].t)
      /\ \A i \in DOMAIN dps : BucketStart(dps[i].t) \in Spine(x, k)
  BY <1>1, SpineFact
<1>4. PICK i \in DOMAIN dps : BucketStart(dps[i].t) <= b
  BY <1>3
<1>5. PICK j \in DOMAIN dps : b <= BucketStart(dps[j].t)
  BY <1>3
<1>6. /\ DOMAIN dps = 1 .. Len(dps) /\ Len(dps) \in Nat /\ IsFiniteSet(DOMAIN dps)
      /\ \A p \in DOMAIN dps : dps[p].t \in Int
      /\ \A p, q \in DOMAIN dps : p <= q => dps[p].t <= dps[q].t
  <2>1. /\ DOMAIN Dps(x, k) = 1 .. Len(Dps(x, k)) /\ Len(Dps(x, k)) \in Nat \ {0}
        /\ IsFiniteSet(DOMAIN Dps(x, k))
        /\ \A p \in DOMAIN Dps(x, k) : Dps(x, k)[p].t \in Nat
        /\ \A p, q \in DOMAIN Dps(x, k) : p <= q => Dps(x, k)[p].t <= Dps(x, k)[q].t
    BY <1>1, DpsFact
  <2> QED
    BY <2>1
<1> DEFINE r == BucketStart(dps[j].t)
<1>7. r \in Int /\ BucketStart(dps[i].t) \in Int
  BY <1>6, StartFact
<1>8. BucketStart(dps[i].t) # b /\ r # b
  BY <1>2, <1>4, <1>5 DEF Here
<1>9. BucketStart(dps[i].t) < b /\ b < r
  BY <1>1, <1>4, <1>5, <1>7, <1>8
<1>10. j # 1
  <2> SUFFICES ASSUME j <= i PROVE FALSE
    BY <1>6
  <2>1. dps[j].t <= dps[i].t
    BY <1>6
  <2>2. /\ r <= dps[j].t /\ r % W = 0 /\ dps[i].t < BucketStart(dps[i].t) + W
        /\ BucketStart(dps[i].t) % W = 0 /\ W \in Nat \ {0}
    BY <1>6, StartFact, WidthFact
  <2> DEFINE a == BucketStart(dps[i].t)
             w == W
  <2>3. a \in Int /\ r \in Int /\ a < r /\ a % w = 0 /\ r % w = 0 /\ w \in Nat \ {0}
    BY <1>1, <1>7, <1>9, <2>2
  <2>4. a + w <= r
    <3> HIDE DEF a, r, w
    <3> QED
      BY <2>3, MultiplesApart
  <2>5. r <= dps[j].t /\ dps[i].t < a + w /\ dps[i].t \in Int /\ dps[j].t \in Int
    BY <1>6, <2>2
  <2> HIDE DEF a, r, w
  <2> QED
    BY <2>1, <2>3, <2>4, <2>5
<1> DEFINE D == Here(x, k, r) \ {1}
           f == [e \in D |-> Delta(x, k, e)]
<1>11. j \in D
  BY <1>10 DEF Here
<1>12. IsFiniteSet(D) /\ D \subseteq DOMAIN dps
  <2>1. D \subseteq DOMAIN dps
    BY DEF Here
  <2> HIDE DEF D, dps
  <2> QED
    BY <1>6, <2>1, FS_Subset
<1>13. f \in [D -> Int]
  <2> SUFFICES ASSUME NEW e \in D PROVE Delta(x, k, e) \in Int
    OBVIOUS
  <2>1. e \in DOMAIN Dps(x, k) /\ e # 1
    BY <1>12
  <2> QED
    BY <2>1, DeltaFact
<1>14. ViewRow(x, k, r).rate = Nullable(f)
  BY DEF ViewRow, Here
<1>15. ViewRow(x, k, r).rate # {}
  <2> HIDE DEF f, D, r
  <2> QED
    BY <1>11, <1>12, <1>13, <1>14, NullableFact
<1>16. r \in Spine(x, k)
  BY <1>3
<1> QED
  BY <1>9, <1>15, <1>16

\* A line moved onto the grid of the aggregate's points shows in each of them
\* what its series answers for that bucket: a point of the line that is on the
\* grid stays where it is, one that is not says zero, and none comes after.
OnGrid(x, K, k, P, R, cs) ==
  /\ k \in K /\ PointsAt(P, PoolSpine(x, K), PoolBase(x, K), "rate")
  /\ PointsAt(R, Spine(x, k), SeriesBase(x, k), "rate")
  /\ cs \in Seq(Int) /\ Increasing(cs) /\ DOMAIN cs = DOMAIN P /\ \A e \in DOMAIN P : cs[e] = P[e].ms
StandsAt(x, K, P, R, cs, i, b, last) ==
  /\ i \in DOMAIN P /\ (i < Len(P) => P[i + 1].ms - P[i].ms <= 2 * Ms(W))
  /\ b \in PoolSpine(x, K) /\ P[i].ms = Ms(b)
  /\ \A e \in InOf(R, cs, i) : e <= last
  /\ InOf(R, cs, i) # {} => last \in InOf(R, cs, i)

Says(R, cs, i, last) == IF InOf(R, cs, i) = {} THEN 0 ELSE R[last].v

LEMMA MovedRate ==
  ASSUME NEW x \in Scalars, NEW K \in SUBSET Keys(x), NEW k, NEW P, NEW R, NEW cs,
         OnGrid(x, K, k, P, R, cs), NEW i, NEW b, NEW last, StandsAt(x, K, P, R, cs, i, b, last)
  PROVE  Says(R, cs, i, last) = RateAt(x, k, b)
<1> USE DEF OnGrid, StandsAt, Says
<1> DEFINE S == PoolSpine(x, K)
           Sk == Spine(x, k)
           To == ToShow(S, PoolBase(x, K), "rate")
           Tk == ToShow(Sk, SeriesBase(x, k), "rate")
           I == InOf(R, cs, i)
           w == Ms(W)
<1>0. x \in Metrics /\ k \in Keys(x)
  BY DEF Scalars
<1>1. /\ S \subseteq Int /\ \A e \in S : e % W = 0
      /\ Sk \subseteq S /\ \A e \in Sk : e \in Int /\ e % W = 0
  <2>1. Sk \subseteq S
    BY DEF PoolSpine
  <2> QED
    BY <1>0, <2>1, PoolSpineFact
<1>2. w \in Nat \ {0} /\ \A p, q \in Int : p % W = 0 /\ q % W = 0 /\ p < q => Ms(p) + w <= Ms(q)
  BY ClockApart
<1>3. \A p \in Int : Ms(p) \in Int
  BY ClockFact
<1>4. \A e \in Sk : SeriesBase(x, k)[e] = ViewRow(x, k, e)
  BY DEF SeriesBase
<1>5. \A e \in S : PoolBase(x, K)[e] = PoolRow(x, K, e)
  BY DEF PoolBase
<1>6. \A e \in Sk : e \in Tk <=> ViewRow(x, k, e).rate # {} \/ ViewRow(x, k, e).n = 0
  BY <1>4 DEF ToShow
<1>7. \A e \in Sk : ViewRow(x, k, e).rate # {} => e \in To
  <2> SUFFICES ASSUME NEW e \in Sk, ViewRow(x, k, e).rate # {} PROVE e \in To
    OBVIOUS
  <2>1. e \in Int /\ e \in S
    BY <1>1
  <2>2. PoolRow(x, K, e).rate # {}
    BY <2>1, PoolRateFact
  <2> QED
    BY <1>5, <2>1, <2>2 DEF ToShow
<1>8. PICK at \in Seq(S) : /\ Increasing(at) /\ ToSet(at) = To /\ DOMAIN at = DOMAIN P
                           /\ \A e \in DOMAIN P : P[e].ms = Ms(at[e])
  BY DEF PointsAt
<1>9. PICK ak \in Seq(Sk) :
        /\ Increasing(ak) /\ ToSet(ak) = Tk /\ DOMAIN ak = DOMAIN R
        /\ \A e \in DOMAIN R :
             /\ R[e].ms = Ms(ak[e])
             /\ R[e].v = IF SeriesBase(x, k)[ak[e]]["rate"] = {} THEN 0
                         ELSE CHOOSE v \in SeriesBase(x, k)[ak[e]]["rate"] : TRUE
  BY DEF PointsAt
<1>10. P \in Seq(Point) /\ R \in Seq(Point)
  BY DEF PointsAt
<1> /\ k \in K /\ i \in DOMAIN P /\ b \in PoolSpine(x, K) /\ P[i].ms = Ms(b) /\ cs \in Seq(Int)
    /\ Increasing(cs) /\ DOMAIN cs = DOMAIN P /\ \A e \in DOMAIN P : cs[e] = P[e].ms
    /\ i < Len(P) => P[i + 1].ms - P[i].ms <= 2 * Ms(W)
    /\ \A e \in InOf(R, cs, i) : e <= last
    /\ InOf(R, cs, i) # {} => last \in InOf(R, cs, i)
  OBVIOUS
<1> HIDE DEF S, Sk, To, Tk, w, OnGrid, StandsAt
<1>11. DOMAIN P = 1 .. Len(P) /\ Len(P) \in Nat /\ DOMAIN R = 1 .. Len(R) /\ Len(R) \in Nat
  <2> HIDE DEF Point
  <2> QED
    BY <1>10
<1>12. \A e \in DOMAIN P : at[e] \in S /\ at[e] \in Int /\ at[e] % W = 0
  <2>1. \A e \in DOMAIN P : at[e] \in S
    BY <1>8
  <2> QED
    BY <1>1, <2>1
<1>13. \A e \in DOMAIN R : ak[e] \in Sk /\ ak[e] \in S /\ ak[e] \in Int /\ ak[e] % W = 0 /\ ak[e] \in Tk
  <2>1. \A e \in DOMAIN R : ak[e] \in Sk
    BY <1>9
  <2> QED
    BY <1>1, <1>9, <2>1 DEF ToSet
<1>14. b \in Int /\ b % W = 0 /\ b \in S
  BY <1>1 DEF S
<1>15. \A p, q \in Int : p % W = 0 /\ q % W = 0 /\ Ms(p) = Ms(q) => p = q
  <2> SUFFICES ASSUME NEW p \in Int, NEW q \in Int, p % W = 0, q % W = 0, Ms(p) = Ms(q) PROVE p = q
    OBVIOUS
  <2>1. p = Ms(p) * NsPerMs /\ q = Ms(q) * NsPerMs
    BY ClockFact
  <2> QED
    BY <2>1
<1>16. at[i] = b
  BY <1>8, <1>12, <1>14, <1>15
<1>17. \A e \in DOMAIN R : R[e].v = RateAt(x, k, ak[e])
  <2> SUFFICES ASSUME NEW e \in DOMAIN R PROVE R[e].v = RateAt(x, k, ak[e])
    OBVIOUS
  <2>1. ak[e] \in Sk /\ SeriesBase(x, k)[ak[e]] = ViewRow(x, k, ak[e])
    BY <1>4, <1>13 DEF Sk
  <2> QED
    BY <1>9, <2>1 DEF RateAt, Answer, Sk
<1>18. ASSUME NEW j \in I PROVE j \in DOMAIN R
  BY DEF InOf
<1>19. ASSUME NEW e \in Tk, b < e PROVE \E f \in To : e <= f
  <2>1. e \in Sk /\ e \in Int
    BY <1>1 DEF Tk, ToShow, Sk
  <2>2. CASE ViewRow(x, k, e).rate # {}
    BY <1>7, <2>1, <2>2
  <2>3. CASE ViewRow(x, k, e).n = 0
    <3>1. PICK f \in Sk : e < f /\ ViewRow(x, k, f).rate # {}
      BY <1>0, <2>1, <2>3, RateFollows DEF Sk
    <3>2. f \in To /\ f \in Int
      BY <1>1, <1>7, <3>1
    <3> QED
      BY <2>1, <3>1, <3>2
  <2> QED
    BY <1>6, <2>1, <2>2, <2>3
<1>20. ASSUME NEW j \in I PROVE ak[j] <= b
  <2> SUFFICES ASSUME b < ak[j] PROVE FALSE
    BY <1>13, <1>14, <1>18
  <2>1. j \in DOMAIN R /\ ak[j] \in Int /\ ak[j] % W = 0 /\ ak[j] \in Tk /\ R[j].ms = Ms(ak[j])
    BY <1>9, <1>13, <1>18
  <2>2. CASE i = Len(P)
    <3>1. PICK f \in To : ak[j] <= f
      BY <1>19, <2>1
    <3>2. PICK e \in DOMAIN P : at[e] = f
      BY <1>8, <3>1 DEF ToSet
    <3>3. at[e] \in Int /\ b < at[e]
      BY <1>12, <1>14, <2>1, <3>1, <3>2
    <3>4. e # i /\ e < i
      BY <1>11, <1>14, <1>16, <2>2, <3>2, <3>3
    <3>5. at[e] < at[i]
      BY <1>8, <3>2, <3>4 DEF Increasing
    <3> QED
      BY <1>14, <1>16, <3>3, <3>5
  <2>3. CASE i # Len(P)
    <3>1. i < Len(P) /\ i + 1 \in DOMAIN P /\ i \in DOMAIN cs /\ i # Len(cs)
      <4>1. Len(cs) = Len(P)
        BY <1>11
      <4> QED
        BY <1>11, <2>3, <4>1
    <3>2. 2 * R[j].ms < cs[i] + cs[i + 1]
      BY <1>10, <3>1, GridFact
    <3>3. cs[i] = Ms(b) /\ cs[i + 1] = P[i + 1].ms /\ cs[i + 1] - cs[i] <= 2 * w
      BY <3>1 DEF w
    <3>4. Ms(b) + w <= Ms(ak[j])
      BY <1>2, <1>14, <2>1
    <3>5. Ms(b) \in Int /\ Ms(ak[j]) \in Int /\ cs[i + 1] \in Int /\ w \in Int
      <4>1. cs[i + 1] \in Int
        BY <3>1
      <4>2. Ms(b) \in Int /\ Ms(ak[j]) \in Int
        BY <1>3, <1>14, <2>1
      <4>3. w \in Int
        BY <1>2
      <4> QED
        BY <4>1, <4>2, <4>3
    <3> DEFINE u == R[j].ms
               v == cs[i + 1]
               z == Ms(b)
               y == Ms(ak[j])
    <3>6. u = y /\ 2 * u < z + v /\ v - z <= 2 * w /\ z + w <= y /\ z \in Int /\ y \in Int /\ v \in Int /\ w \in Int
      BY <2>1, <3>2, <3>3, <3>4, <3>5
    <3> HIDE DEF u, v, y, z
    <3> QED
      BY <3>6
  <2> QED
    BY <2>2, <2>3
<1>21. ASSUME NEW j \in I, ak[j] # b PROVE R[j].v = 0
  <2> SUFFICES ASSUME R[j].v # 0 PROVE FALSE
    OBVIOUS
  <2>1. j \in DOMAIN R /\ ak[j] \in Sk /\ R[j].ms = Ms(ak[j])
    BY <1>9, <1>13, <1>18
  <2>2. ViewRow(x, k, ak[j]).rate # {}
    BY <1>17, <2>1 DEF RateAt
  <2>3. ak[j] \in To
    BY <1>7, <2>1, <2>2
  <2>4. PICK e \in DOMAIN P : at[e] = ak[j]
    BY <1>8, <2>3 DEF ToSet
  <2>5. R[j].ms = cs[e] /\ e \in DOMAIN cs /\ i \in DOMAIN cs
    BY <1>8, <2>1, <2>4
  <2>6. e = i
    BY <1>10, <2>5, GridFact
  <2> QED
    BY <1>16, <1>21, <2>4, <2>6
<1>22. CASE b \in Tk
  <2>1. PICK j \in DOMAIN R : ak[j] = b
    BY <1>9, <1>22 DEF ToSet
  <2>2. R[j].ms = cs[i] /\ i \in DOMAIN cs
    BY <1>9, <2>1
  <2>3. j \in I
    BY <1>10, <2>2, GridFact
  <2>4. last \in I /\ j <= last
    BY <2>3
  <2>5. ak[last] = b
    <3>1. last \in DOMAIN R /\ ak[last] <= b
      BY <1>18, <1>20, <2>4
    <3>2. j = last \/ ak[j] < ak[last]
      BY <1>9, <1>11, <2>1, <2>4, <3>1 DEF Increasing
    <3> QED
      BY <1>13, <1>14, <2>1, <3>1, <3>2
  <2>6. R[last].v = RateAt(x, k, b)
    BY <1>17, <1>18, <2>4, <2>5
  <2> QED
    BY <2>3, <2>6
<1>23. CASE b \notin Tk
  <2>1. RateAt(x, k, b) = 0
    BY <1>6, <1>23 DEF RateAt, Sk
  <2>2. ASSUME I # {} PROVE R[last].v = 0
    <3>1. last \in I /\ last \in DOMAIN R
      BY <1>18, <2>2
    <3>2. ak[last] # b
      BY <1>13, <1>23, <3>1
    <3> QED
      BY <1>21, <3>1, <3>2
  <2> QED
    BY <2>1, <2>2
<1> QED
  BY <1>22, <1>23

\* The grid, in order.
LEMMA CentersFact ==
  ASSUME NEW x \in Scalars, NEW K \in SUBSET Keys(x),
         NEW P, PointsAt(P, PoolSpine(x, K), PoolBase(x, K), "rate"),
         NEW cs, cs = [e \in DOMAIN P |-> P[e].ms]
  PROVE  /\ cs \in Seq(Int) /\ Increasing(cs) /\ DOMAIN cs = DOMAIN P /\ DOMAIN P = 1 .. Len(P)
         /\ Len(P) \in Nat
         /\ \A e \in DOMAIN P : \E b \in PoolSpine(x, K) : b \in Int /\ P[e].ms = Ms(b) /\
              P[e].v = SumFunction([k \in K |-> RateAt(x, k, b)])
<1> DEFINE S == PoolSpine(x, K)
           base == PoolBase(x, K)
<1>1. S \subseteq Int /\ \A e \in S : e % W = 0
  <2>1. x \in Metrics
    BY DEF Scalars
  <2> QED
    BY <2>1, PoolSpineFact
<1>2. \A b \in S : base[b] = PoolRow(x, K, b)
  BY DEF PoolBase
<1>3. PICK at \in Seq(S) :
        /\ Increasing(at) /\ DOMAIN at = DOMAIN P
        /\ \A e \in DOMAIN P :
             /\ P[e].ms = Ms(at[e])
             /\ P[e].v = IF base[at[e]]["rate"] = {} THEN 0 ELSE CHOOSE v \in base[at[e]]["rate"] : TRUE
  BY DEF PointsAt
<1>4. P \in Seq(Point)
  BY DEF PointsAt
<1> HIDE DEF S, base
<1>5. DOMAIN P = 1 .. Len(P) /\ Len(P) \in Nat
  <2> HIDE DEF Point
  <2> QED
    BY <1>4
<1>6. \A e \in DOMAIN P : at[e] \in S
  BY <1>3
<1>7. \A e \in DOMAIN P : at[e] \in Int /\ at[e] % W = 0
  BY <1>1, <1>6
<1>8. cs \in Seq(Int) /\ DOMAIN cs = DOMAIN P
  <2>1. ASSUME NEW e \in DOMAIN P PROVE P[e].ms \in Int
    <3>1. P[e].ms = Ms(at[e]) /\ at[e] \in Int
      BY <1>3, <1>7
    <3>2. \A t \in Int : Ms(t) \in Int
      BY ClockFact
    <3> QED
      BY <3>1, <3>2
  <2> QED
    BY <1>5, <2>1
<1>9. Increasing(cs)
  <2> SUFFICES ASSUME NEW e \in DOMAIN P, NEW f \in DOMAIN P, e < f PROVE cs[e] < cs[f]
    BY <1>8 DEF Increasing
  <2>1. at[e] < at[f]
    BY <1>3 DEF Increasing
  <2>2. Ms(at[e]) + Ms(W) <= Ms(at[f]) /\ Ms(W) \in Nat \ {0}
    BY <1>7, <2>1, ClockApart
  <2>3. Ms(at[e]) \in Int /\ Ms(at[f]) \in Int
    BY <1>7, ClockFact
  <2>4. cs[e] = Ms(at[e]) /\ cs[f] = Ms(at[f])
    BY <1>3
  <2> QED
    BY <2>2, <2>3, <2>4
<1>10. ASSUME NEW e \in DOMAIN P
       PROVE  at[e] \in S /\ at[e] \in Int /\ P[e].ms = Ms(at[e])
              /\ P[e].v = SumFunction([k \in K |-> RateAt(x, k, at[e])])
  <2>1. at[e] \in S /\ at[e] \in Int /\ P[e].ms = Ms(at[e])
    BY <1>3, <1>6, <1>7
  <2>2. P[e].v = IF PoolRow(x, K, at[e]).rate = {} THEN 0 ELSE CHOOSE v \in PoolRow(x, K, at[e]).rate : TRUE
    BY <1>2, <1>3, <2>1
  <2> DEFINE a == at[e]
             total == SumFunction([k \in K |-> RateAt(x, k, a)])
  <2>3. (IF PoolRow(x, K, a).rate = {} THEN 0 ELSE CHOOSE v \in PoolRow(x, K, a).rate : TRUE) = total
    BY <2>1, PoolRateFact
  <2> QED
    BY <2>1, <2>2, <2>3
<1> QED
  BY <1>5, <1>8, <1>9, <1>10 DEF S

\* The rate line across the checked series adds up the lines drawn beneath it.
LEMMA RatesHold ==
  ASSUME ChartsInv
  PROVE  RateLinesAddUp
<1> DEFINE Gap(l, i) == i < Len(l.points) => l.points[i + 1].ms - l.points[i].ms <= 2 * Ms(BucketWidth)
<1> SUFFICES ASSUME ~ Hist, agg = "rate", NEW l \in ToSet(lines), l.key \in {AggSelected, AggTotal},
                    NEW i \in DOMAIN l.points, Gap(l, i)
             PROVE  AddsUpAt(l, i)
  BY DEF RateLinesAddUp, ChartAddsUp
<1> DEFINE c == Choice
           K == visible
           P == l.points
           cs == Centers(c)
<1>1. c \in Charted /\ c.m = m /\ c.visible = K /\ c.agg = "rate" /\ lines = Lines(c)
  BY ChoiceCharted
<1>2. m \in Scalars /\ K \in SUBSET Keys(m)
  BY <1>1, ChartedFact
<1>3. ShownOf(c) # <<>> /\ ShownOf(c)[1] = l /\ P = AggPoints(c, K)
  BY <1>1, TopLine
<1>4. PointsAt(P, PoolSpine(m, K), PoolBase(m, K), "rate")
  BY <1>1, <1>2, <1>3, PoolsSpine DEF AggPoints
<1>5. cs = [e \in DOMAIN P |-> P[e].ms]
  BY <1>3 DEF Centers
<1> HIDE DEF P, cs, K, c
<1>6. /\ cs \in Seq(Int) /\ Increasing(cs) /\ DOMAIN cs = DOMAIN P /\ DOMAIN P = 1 .. Len(P)
      /\ Len(P) \in Nat
      /\ \A e \in DOMAIN P : \E b \in PoolSpine(m, K) : b \in Int /\ P[e].ms = Ms(b) /\
           P[e].v = SumFunction([k \in K |-> RateAt(m, k, b)])
  BY <1>2, <1>4, <1>5, CentersFact
<1>7. i \in DOMAIN P
  BY DEF P
<1>8. PICK b \in PoolSpine(m, K) : b \in Int /\ P[i].ms = Ms(b)
                                   /\ P[i].v = SumFunction([k \in K |-> RateAt(m, k, b)])
  BY <1>6, <1>7
<1>9. ASSUME NEW k \in K PROVE ShownAt(LineOf(lines, k), P[i].ms) = RateAt(m, k, b)
  <2> DEFINE r == [key |-> k, points |-> RawLine(c, k)]
             R == RawLine(c, k)
             last == LastIn(R, cs, i)
  <2>0. k \in Keys(m)
    BY <1>2
  <2>1. R = ViewPoints(ViewsOf[m][k], "rate")
    BY <1>1 DEF RawLine
  <2>2. PointsAt(R, Spine(m, k), SeriesBase(m, k), "rate")
    BY <1>2, <2>0, <2>1, ViewsSpine
  <2> HIDE DEF R
  <2>3. R \in Seq(Point)
    BY <2>2 DEF PointsAt
  <2>4. LineOf(lines, k) = Resample(r, cs).points
    <3>1. LineOf(Lines(c), k) = Moved(c, r).points
      BY <1>1, LineOfFact
    <3> QED
      BY <1>1, <1>3, <3>1 DEF Moved, cs
  <2>5. r \in [key : K, points : Seq(Point)] /\ r.points = R
    BY <2>3 DEF R
  <2> HIDE DEF r, last
  <2>6. i \in DOMAIN cs /\ cs[i] = P[i].ms
    BY <1>5, <1>6, <1>7
  <2>7. /\ ShownAt(Resample(r, cs).points, cs[i])
             = IF InOf(r.points, cs, i) = {} THEN 0 ELSE r.points[LastIn(r.points, cs, i)].v
        /\ InOf(r.points, cs, i) # {} => LastIn(r.points, cs, i) \in InOf(r.points, cs, i)
        /\ \A e \in InOf(r.points, cs, i) : e <= LastIn(r.points, cs, i)
    BY <1>6, <2>5, <2>6, ShownAtFact
  <2>8. /\ ShownAt(Resample(r, cs).points, cs[i]) = Says(R, cs, i, last)
        /\ InOf(R, cs, i) # {} => last \in InOf(R, cs, i)
        /\ \A e \in InOf(R, cs, i) : e <= last
    BY <2>5, <2>7 DEF last, Says
  <2>9. i < Len(P) => P[i + 1].ms - P[i].ms <= 2 * Ms(W)
    BY DEF P, W
  <2>10. \A e \in DOMAIN P : cs[e] = P[e].ms
    BY <1>5
  <2>11. Says(R, cs, i, last) = RateAt(m, k, b)
    <3>1. OnGrid(m, K, k, P, R, cs)
      BY <1>4, <1>6, <2>2, <2>10 DEF OnGrid
    <3>2. StandsAt(m, K, P, R, cs, i, b, last)
      BY <1>7, <1>8, <2>8, <2>9 DEF StandsAt
    <3> QED
      BY <1>2, <3>1, <3>2, MovedRate
  <2> QED
    BY <2>4, <2>6, <2>8, <2>11
<1>10. [k \in K |-> ShownAt(LineOf(lines, k), P[i].ms)] = [k \in K |-> RateAt(m, k, b)]
  BY <1>9
<1>11. P[i].v = SumFunction([k \in K |-> ShownAt(LineOf(lines, k), P[i].ms)])
  BY <1>8, <1>10
<1> QED
  BY <1>11 DEF AddsUpAt, P, K

\* No observation is lost or counted twice between the store's rows, the lines,
\* the cells, their colours and a column's panel, but for the first running
\* totals a column's query has nothing to set against, whatever was clicked
\* (metric-view-context.svelte.ts, heatmap-color-scale.ts,
\* heatmap-column-selection.ts).
THEOREM DrawnSamplesAddUp == Spec => []SamplesAddUp
<1>1. ChartsInv => SamplesAddUp
  BY RatesHold, PanelHolds, CellsHold DEF SamplesAddUp
<1> QED
  BY <1>1, ChartsInvariant, PTL
=============================================================================
