--------------------------- MODULE WaterfallProofs ---------------------------
(***************************************************************************)
(* The waterfall's tree, for any traces, any preorder depths the server    *)
(* may answer with and any collapse state: the reader's arrangement of a   *)
(* trace survives whatever comes in between, a search hides no match, the  *)
(* connectors of the rows left on screen meet, and clicks and keys select  *)
(* what can be seen.                                                       *)
(***************************************************************************)
EXTENDS Waterfall, FiniteSetTheorems, WellFoundedInduction, TLAPS

\* What the server may have answered, and the depths in it.
Depths == Shapes \cup {<<>>}
Responses == {NoSpans} \cup {r \in [trace: Traces, depth: Shapes, matched: SUBSET Nat] : r.matched \subseteq Rows(r)}

----------------------------------------------------------------------------
(* Numbers.                                                                *)

\* Numbers have a least one.
LEMMA LeastNumber ==
  ASSUME NEW I, I \subseteq Nat, I # {}
  PROVE  \E m \in I : \A i \in I : m <= i
<1> DEFINE R == {ss \in Nat \X Nat : ss[1] < ss[2]}
<1>1. IsWellFoundedOn(R, Nat)
  BY NatLessThanWellFounded DEF OpToRel
<1> HIDE DEF R
<1>2. PICK m \in I : \A i \in I : ~ (<<i, m>> \in R)
  BY <1>1, WFMin
<1>3. ASSUME NEW i \in I, ~ (<<i, m>> \in R) PROVE m <= i
  BY <1>3 DEF R
<1> QED
  BY <1>2, <1>3

\* Numbers below a bound have a greatest one.
LEMMA GreatestNumber ==
  ASSUME NEW B \in Nat, NEW I, I \subseteq 0 .. B, I # {}
  PROVE  \E m \in I : \A i \in I : i <= m
<1> DEFINE U == {u \in Nat : \A i \in I : i <= u}
<1>1. U \subseteq Nat /\ B \in U
  OBVIOUS
<1>2. PICK u \in U : \A v \in U : u <= v
  <2> HIDE DEF U
  <2> QED
    BY <1>1, LeastNumber
<1>3. u \in I
  <2> SUFFICES ASSUME u \notin I PROVE FALSE
    OBVIOUS
  <2>1. PICK i \in I : TRUE
    OBVIOUS
  <2>2. u \in Nat /\ u # 0
    BY <2>1
  <2>3. u - 1 \in U
    BY <2>2
  <2> QED
    BY <1>2, <2>2, <2>3
<1> QED
  BY <1>3

\* What holds at 0 and passes from each number to the next holds up to N.
LEMMA Steps ==
  ASSUME NEW N \in Nat, NEW I, 0 \in I, \A i \in 1 .. N : i - 1 \in I => i \in I
  PROVE  0 .. N \subseteq I
<1> DEFINE B == {i \in 0 .. N : i \notin I}
<1> SUFFICES ASSUME B # {} PROVE FALSE
  OBVIOUS
<1>1. B \subseteq Nat
  OBVIOUS
<1>2. PICK m \in B : \A i \in B : m <= i
  <2> HIDE DEF B
  <2> QED
    BY <1>1, LeastNumber
<1>3. m \in 1 .. N
  BY <1>2
<1>4. m - 1 \in I
  BY <1>2, <1>3
<1> QED
  BY <1>2, <1>3, <1>4

\* f starts at c and goes on by g.
Recurses(f, N, c, g) == f[0] = c /\ \A i \in 1 .. N : f[i] = g[<<i, f[i - 1]>>]

\* A function on 0 .. N can be defined by recursion.
LEMMA Recursion ==
  ASSUME NEW N \in Nat, NEW V, NEW c \in V, NEW g \in [(1 .. N) \X V -> V]
  PROVE  \E f \in [0 .. N -> V] : Recurses(f, N, c, g)
<1> DEFINE I == {n \in 0 .. N : \E f \in [0 .. n -> V] : Recurses(f, n, c, g)}
<1>1. 0 \in I
  <2> DEFINE f == [i \in 0 .. 0 |-> c]
  <2>1. f \in [0 .. 0 -> V] /\ Recurses(f, 0, c, g)
    BY DEF Recurses
  <2> QED
    BY <2>1
<1>2. ASSUME NEW n \in 1 .. N, n - 1 \in I PROVE n \in I
  <2>1. PICK f \in [0 .. n - 1 -> V] : Recurses(f, n - 1, c, g)
    BY <1>2
  <2> DEFINE h == [i \in 0 .. n |-> IF i = n THEN g[<<n, f[n - 1]>>] ELSE f[i]]
  <2>2. g[<<n, f[n - 1]>>] \in V
    BY <2>1
  <2>3. h \in [0 .. n -> V]
    BY <2>1, <2>2
  <2>4. h[n] = g[<<n, f[n - 1]>>] /\ \A i \in 0 .. n - 1 : h[i] = f[i]
    OBVIOUS
  <2> HIDE DEF h
  <2>5. h[0] = c /\ \A i \in 1 .. n - 1 : h[i] = g[<<i, h[i - 1]>>]
    BY <2>1, <2>4 DEF Recurses
  <2>6. h[n] = g[<<n, h[n - 1]>>]
    BY <2>4
  <2>7. Recurses(h, n, c, g)
    BY <2>5, <2>6 DEF Recurses
  <2> QED
    BY <2>3, <2>7
<1> HIDE DEF I
<1>3. N \in I
  BY <1>1, <1>2, Steps
<1> QED
  BY <1>3 DEF I

----------------------------------------------------------------------------
(* The tree in the depths.                                                 *)

LEMMA DepthFact ==
  ASSUME NEW d \in Depths
  PROVE  /\ d \in Seq(Nat) /\ Len(d) \in Nat /\ DOMAIN d = 1 .. Len(d)
         /\ \A i \in 1 .. Len(d) : d[i] \in Nat
         /\ \A i \in 1 .. Len(d) : i = 1 => d[i] = 0
         /\ \A i \in 1 .. Len(d) : i # 1 => i - 1 \in 1 .. Len(d) /\ d[i] <= d[i - 1] + 1
<1>1. d \in Seq(Nat) /\ IsPreorder(d)
  <2>1. CASE d \in Shapes
    BY <2>1, WaterfallAssumption
  <2>2. CASE d = <<>>
    BY <2>2 DEF IsPreorder
  <2> QED
    BY <2>1, <2>2 DEF Depths
<1>2. Len(d) \in Nat /\ DOMAIN d = 1 .. Len(d) /\ \A i \in 1 .. Len(d) : d[i] \in Nat
  BY <1>1
<1>3. ASSUME NEW i \in 1 .. Len(d), i # 1 PROVE i - 1 \in 1 .. Len(d) /\ d[i] <= d[i - 1] + 1
  <2>1. d[i] \in 0 .. d[i - 1] + 1
    BY <1>1, <1>3 DEF IsPreorder
  <2>2. i - 1 \in 1 .. Len(d)
    BY <1>2, <1>3
  <2> QED
    BY <1>2, <2>1, <2>2
<1>4. ASSUME NEW i \in 1 .. Len(d), i = 1 PROVE d[i] = 0
  <2>1. d[i] \in 0 .. 0
    BY <1>1, <1>4 DEF IsPreorder
  <2> QED
    BY <2>1
<1> QED
  BY <1>1, <1>2, <1>3, <1>4

\* j is above i: i and all between are deeper.
Over(d, j, i) == j < i /\ \A k \in j + 1 .. i : d[j] < d[k]

\* The row one level up that is over i is its parent; roots alone have none.
LEMMA ParentFact ==
  ASSUME NEW d \in Depths, NEW i \in 1 .. Len(d)
  PROVE  /\ ParentIn(d, i) \in 0 .. i - 1
         /\ ParentIn(d, i) = 0 <=> d[i] = 0
         /\ ParentIn(d, i) # 0 =>
              /\ ParentIn(d, i) \in 1 .. Len(d) /\ Over(d, ParentIn(d, i), i)
              /\ d[ParentIn(d, i)] = d[i] - 1
<1> DEFINE up == {j \in 1 .. i - 1 : d[j] = d[i] - 1 /\ \A k \in j + 1 .. i - 1 : d[k] > d[j]}
           lower == {j \in 1 .. i - 1 : d[j] < d[i]}
           p == ParentIn(d, i)
<1>0. Len(d) \in Nat /\ \A k \in 1 .. Len(d) : d[k] \in Nat
  BY DepthFact
<1>1. p = IF up = {} THEN 0 ELSE CHOOSE j \in up : TRUE
  BY DEF ParentIn, None
<1>2. ASSUME d[i] # 0 PROVE up # {}
  <2>1. 1 \in 1 .. Len(d) /\ d[1] = 0 /\ i # 1
    BY <1>0, <1>2, DepthFact
  <2>2. 1 \in lower /\ lower \subseteq 0 .. i - 1
    BY <1>0, <1>2, <2>1
  <2>3. PICK j \in lower : \A k \in lower : k <= j
    <3> HIDE DEF lower
    <3>1. i - 1 \in Nat
      BY <1>0
    <3> QED
      BY <2>2, <3>1, GreatestNumber
  <2>4. \A k \in j + 1 .. i - 1 : d[k] >= d[i]
    BY <1>0, <2>3
  <2>5. j \in 1 .. i - 1 /\ j + 1 \in 1 .. Len(d) /\ d[j + 1] <= d[j] + 1 /\ d[j + 1] >= d[i]
    <3>1. j \in 1 .. i - 1 /\ j + 1 \in 1 .. Len(d) /\ j + 1 # 1 /\ (j + 1) - 1 = j
      BY <1>0, <2>3
    <3>2. d[j + 1] <= d[j] + 1
      BY <3>1, DepthFact
    <3>3. j + 1 = i \/ j + 1 \in j + 1 .. i - 1
      BY <1>0, <3>1
    <3> QED
      BY <1>0, <2>4, <3>1, <3>2, <3>3
  <2>6. d[j] = d[i] - 1
    BY <1>0, <2>3, <2>5
  <2>7. ASSUME NEW k \in j + 1 .. i - 1 PROVE d[k] > d[j]
    <3>1. k \in 1 .. Len(d) /\ j \in 1 .. Len(d)
      BY <1>0, <2>5
    <3>2. d[k] \in Nat /\ d[j] \in Nat /\ d[k] >= d[i]
      BY <1>0, <2>4, <3>1
    <3> QED
      BY <1>0, <2>6, <3>2
  <2> QED
    BY <2>5, <2>6, <2>7
<1>3. ASSUME d[i] = 0 PROVE up = {}
  BY <1>0, <1>3
<1>4. ASSUME up # {} PROVE p \in up
  <2> HIDE DEF up
  <2> QED
    BY <1>1, <1>4
<1>5. ASSUME NEW j \in up PROVE j \in 1 .. i - 1 /\ Over(d, j, i) /\ d[j] = d[i] - 1
  BY <1>0 DEF Over
<1>6. up = {} => p = 0
  BY <1>1
<1> HIDE DEF up, p
<1>7. p \in 0 .. i - 1 /\ (p = 0 <=> d[i] = 0)
  BY <1>0, <1>2, <1>3, <1>4, <1>5, <1>6
<1>8. p # 0 => p \in 1 .. Len(d) /\ Over(d, p, i) /\ d[p] = d[i] - 1
  BY <1>0, <1>4, <1>5, <1>6
<1> QED
  BY <1>7, <1>8 DEF p

LEMMA ParentUnique ==
  ASSUME NEW d \in Depths, NEW i \in 1 .. Len(d), NEW j \in 1 .. Len(d),
         Over(d, j, i), d[j] = d[i] - 1
  PROVE  ParentIn(d, i) = j
<1> DEFINE p == ParentIn(d, i)
<1>0. Len(d) \in Nat /\ \A k \in 1 .. Len(d) : d[k] \in Nat
  BY DepthFact
<1>1. p \in 1 .. Len(d) /\ Over(d, p, i) /\ d[p] = d[i] - 1
  BY <1>0, ParentFact
<1> HIDE DEF p
<1>2. ~(p < j) /\ ~(j < p)
  BY <1>0, <1>1 DEF Over
<1> QED
  BY <1>0, <1>1, <1>2 DEF p

\* What is over a row: its parent, and what is over that.
LEMMA OverParent ==
  ASSUME NEW d \in Depths, NEW i \in 1 .. Len(d), NEW j \in 1 .. Len(d)
  PROVE  Over(d, j, i) <=> /\ ParentIn(d, i) # 0
                           /\ j = ParentIn(d, i) \/ Over(d, j, ParentIn(d, i))
<1> DEFINE p == ParentIn(d, i)
<1>0. Len(d) \in Nat /\ \A k \in 1 .. Len(d) : d[k] \in Nat
  BY DepthFact
<1>1. /\ p \in 0 .. i - 1 /\ (p = 0 <=> d[i] = 0)
      /\ p # 0 => p \in 1 .. Len(d) /\ Over(d, p, i) /\ d[p] = d[i] - 1
  BY ParentFact
<1> HIDE DEF p
<1>2. CASE p = 0
  BY <1>0, <1>1, <1>2 DEF Over, p
<1>3. CASE p # 0
  <2>1. CASE j = p
    BY <1>1, <1>3, <2>1 DEF p
  <2>2. CASE j < p
    <3>1. ASSUME Over(d, j, i) PROVE Over(d, j, p)
      BY <1>0, <1>1, <1>3, <2>2, <3>1 DEF Over
    <3>2. ASSUME Over(d, j, p) PROVE Over(d, j, i)
      <4> SUFFICES ASSUME NEW k \in j + 1 .. i PROVE d[j] < d[k]
        BY <1>0, <1>1, <1>3, <2>2 DEF Over
      <4>1. d[j] < d[p]
        BY <1>0, <1>1, <1>3, <2>2, <3>2 DEF Over
      <4>2. k \in j + 1 .. p \/ k \in p + 1 .. i
        BY <1>0, <1>1, <1>3
      <4>3. k \in 1 .. Len(d)
        BY <1>0
      <4> QED
        BY <1>0, <1>1, <1>3, <3>2, <4>1, <4>2, <4>3 DEF Over
    <3> QED
      BY <1>0, <1>3, <2>2, <3>1, <3>2 DEF p
  <2>3. CASE p < j
    <3>1. ~Over(d, j, p)
      BY <1>0, <1>1, <2>3 DEF Over
    <3>2. ~Over(d, j, i)
      <4> SUFFICES ASSUME Over(d, j, i) PROVE FALSE
        OBVIOUS
      <4>1. j < i /\ d[j] < d[i]
        BY <1>0 DEF Over
      <4>2. d[p] < d[j]
        BY <1>0, <1>1, <1>3, <2>3, <4>1 DEF Over
      <4> QED
        BY <1>0, <1>1, <1>3, <4>1, <4>2
    <3> QED
      BY <1>0, <1>1, <1>3, <2>3, <3>1, <3>2 DEF p
  <2> QED
    BY <1>0, <1>1, <1>3, <2>1, <2>2, <2>3
<1> QED
  BY <1>2, <1>3

----------------------------------------------------------------------------
(* Ancestors.                                                              *)

\* A walk along ever smaller numbers can be defined by recursion.
LEMMA WalkDown ==
  ASSUME NEW N \in Nat, NEW par, \A i \in 1 .. N : par[i] \in 0 .. i - 1
  PROVE  \E f \in [1 .. N -> Seq(Nat)] :
           \A i \in 1 .. N : f[i] = IF par[i] = 0 THEN <<>> ELSE <<par[i]>> \o f[par[i]]
<1> DEFINE Walk(f, n) == \A i \in 1 .. n : f[i] = IF par[i] = 0 THEN <<>> ELSE <<par[i]>> \o f[par[i]]
           I == {n \in 0 .. N : \E f \in [1 .. n -> Seq(Nat)] : Walk(f, n)}
<1>1. 0 \in I
  <2> DEFINE none == [i \in 1 .. 0 |-> <<>>]
  <2>1. none \in [1 .. 0 -> Seq(Nat)] /\ Walk(none, 0)
    OBVIOUS
  <2>2. 0 \in 0 .. N
    OBVIOUS
  <2>3. \E f \in [1 .. 0 -> Seq(Nat)] : Walk(f, 0)
    BY <2>1
  <2> QED
    BY <2>2, <2>3
<1>2. ASSUME NEW n \in 1 .. N, n - 1 \in I PROVE n \in I
  <2>1. PICK f \in [1 .. n - 1 -> Seq(Nat)] : Walk(f, n - 1)
    <3> HIDE DEF Walk
    <3> QED
      BY <1>2
  <2> DEFINE v == IF par[n] = 0 THEN <<>> ELSE <<par[n]>> \o f[par[n]]
             h == [i \in 1 .. n |-> IF i = n THEN v ELSE f[i]]
  <2>2. v \in Seq(Nat)
    <3>1. CASE par[n] = 0
      BY <3>1
    <3>2. CASE par[n] # 0
      <4>1. par[n] \in 1 .. n - 1 /\ par[n] \in Nat
        BY <3>2
      <4>2. f[par[n]] \in Seq(Nat) /\ <<par[n]>> \in Seq(Nat)
        BY <4>1
      <4> QED
        BY <3>2, <4>2
    <3> QED
      BY <3>1, <3>2
  <2>3. h[n] = v /\ \A i \in 1 .. n - 1 : h[i] = f[i]
    OBVIOUS
  <2>4. h \in [1 .. n -> Seq(Nat)]
    <3> HIDE DEF v
    <3> QED
      BY <2>2
  <2> HIDE DEF h
  <2>5. ASSUME NEW i \in 1 .. n PROVE h[i] = IF par[i] = 0 THEN <<>> ELSE <<par[i]>> \o h[par[i]]
    <3>1. par[i] # 0 => h[par[i]] = f[par[i]]
      BY <2>3
    <3>2. CASE i = n
      BY <2>3, <3>1, <3>2
    <3>3. CASE i \in 1 .. n - 1
      BY <2>1, <2>3, <3>1, <3>3
    <3> QED
      BY <3>2, <3>3
  <2>6. Walk(h, n)
    BY <2>5
  <2> HIDE DEF Walk
  <2> QED
    BY <2>4, <2>6
<1> HIDE DEF I
<1>3. N \in I
  BY <1>1, <1>2, Steps
<1> QED
  BY <1>3 DEF I

LEMMA ResponseFact ==
  ASSUME NEW r \in Responses
  PROVE  /\ r.depth \in Depths /\ r.matched \subseteq Rows(r) /\ Rows(r) = 1 .. Len(r.depth)
         /\ Len(r.depth) \in Nat
         /\ r = NoSpans \/ r.trace \in Traces
         /\ r = NoSpans => Rows(r) = {}
<1>1. CASE r = NoSpans
  BY <1>1 DEF Depths, NoSpans, Rows
<1>2. CASE r \in [trace: Traces, depth: Shapes, matched: SUBSET Nat] /\ r.matched \subseteq Rows(r)
  <2>1. r.depth \in Depths /\ r.trace \in Traces
    BY <1>2 DEF Depths
  <2>2. Len(r.depth) \in Nat
    BY <2>1, DepthFact
  <2>3. r = NoSpans => Rows(r) = {}
    BY DEF NoSpans, Rows
  <2> QED
    BY <1>2, <2>1, <2>2, <2>3 DEF Rows
<1> QED
  BY <1>1, <1>2 DEF Responses

LEMMA ParentIs ==
  ASSUME NEW r \in Responses, NEW i \in Rows(r)
  PROVE  Parent(r, i) = ParentIn(r.depth, i)
BY ResponseFact DEF Parent, ParentOf, Depths

\* The ancestors of a row are the rows over it.
LEMMA AncestorsFact ==
  ASSUME NEW r \in Responses, NEW i \in Rows(r)
  PROVE  ToSet(Ancestors(r, i)) = {j \in Rows(r) : Over(r.depth, j, i)}
<1> DEFINE d == r.depth
           N == Len(d)
           par == ParentOf[d]
           up == CHOOSE f : f = [k \in 1 .. N |-> IF par[k] = 0 THEN <<>> ELSE <<par[k]>> \o f[par[k]]]
<1>1. d \in Depths /\ N \in Nat /\ Rows(r) = 1 .. N
  BY ResponseFact
<1>2. \A k \in 1 .. N : par[k] = ParentIn(d, k)
  BY <1>1 DEF ParentOf, Depths
<1>3. Ancestors(r, i) = up[i]
  <2>1. AncestorsOf[d] = [k \in 1 .. N |-> up[k]]
    BY <1>1 DEF AncestorsOf, None, Depths
  <2> HIDE DEF up
  <2> QED
    BY <1>1, <2>1 DEF Ancestors
<1> HIDE DEF par, d
<1>4. ASSUME NEW k \in 1 .. N PROVE par[k] \in 0 .. k - 1
  BY <1>1, <1>2, <1>4, ParentFact
<1>5. PICK f \in [1 .. N -> Seq(Nat)] :
        \A k \in 1 .. N : f[k] = IF par[k] = 0 THEN <<>> ELSE <<par[k]>> \o f[par[k]]
  <2> HIDE DEF N
  <2> QED
    BY <1>1, <1>4, WalkDown
<1>6. f = [k \in 1 .. N |-> IF par[k] = 0 THEN <<>> ELSE <<par[k]>> \o f[par[k]]]
  <2> HIDE DEF N
  <2> QED
    BY <1>5
<1>7. up = [k \in 1 .. N |-> IF par[k] = 0 THEN <<>> ELSE <<par[k]>> \o up[par[k]]]
  BY <1>6
<1> HIDE DEF up, N
<1> DEFINE A(k) == {j \in 1 .. N : Over(d, j, k)}
           I == {n \in 0 .. N : \A k \in 1 .. n : up[k] \in Seq(Nat) /\ ToSet(up[k]) = A(k)}
<1>8. 0 \in I
  BY <1>1
<1>9. ASSUME NEW n \in 1 .. N, n - 1 \in I PROVE n \in I
  <2>1. up[n] = IF par[n] = 0 THEN <<>> ELSE <<par[n]>> \o up[par[n]]
    BY <1>7
  <2>2. \A j \in 1 .. N : Over(d, j, n) <=> par[n] # 0 /\ (j = par[n] \/ Over(d, j, par[n]))
    <3>1. ASSUME NEW j \in 1 .. N
          PROVE  Over(d, j, n) <=> /\ ParentIn(d, n) # 0
                                   /\ j = ParentIn(d, n) \/ Over(d, j, ParentIn(d, n))
      BY <1>1, <3>1, OverParent DEF N
    <3> QED
      BY <1>2, <3>1
  <2>3. up[n] \in Seq(Nat) /\ ToSet(up[n]) = A(n)
    <3>1. CASE par[n] = 0
      <4>1. up[n] = <<>>
        BY <2>1, <3>1
      <4>2. A(n) = {}
        BY <2>2, <3>1
      <4> QED
        BY <4>1, <4>2 DEF ToSet
    <3>2. CASE par[n] # 0
      <4> DEFINE p == par[n]
                 s == up[p]
                 w == <<p>> \o s
      <4>1. p \in 1 .. n - 1 /\ p \in Nat /\ p \in 1 .. N
        <5>1. p \in 0 .. n - 1 /\ p # 0
          BY <1>4, <3>2
        <5>2. N \in Nat
          BY <1>1
        <5> HIDE DEF p
        <5> QED
          BY <5>1, <5>2
      <4>2. s \in Seq(Nat) /\ ToSet(s) = A(p)
        BY <1>9, <4>1
      <4>3. A(n) = {p} \cup A(p)
        BY <2>2, <3>2, <4>1
      <4>4. up[n] = w
        BY <2>1, <3>2
      <4> HIDE DEF s, p
      <4>5. /\ w \in Seq(Nat) /\ Len(w) = Len(s) + 1 /\ w[1] = p
            /\ \A k \in 1 .. Len(s) : w[k + 1] = s[k]
        BY <4>1, <4>2
      <4>6. DOMAIN w = 1 .. Len(s) + 1 /\ DOMAIN s = 1 .. Len(s) /\ Len(s) \in Nat
        BY <4>2, <4>5
      <4> HIDE DEF w
      <4>7. ToSet(w) = {p} \cup ToSet(s)
        <5>1. ASSUME NEW k \in 1 .. Len(s) + 1 PROVE w[k] \in {p} \cup ToSet(s)
          <6>1. CASE k = 1
            BY <4>5, <6>1
          <6>2. CASE k # 1
            <7>1. k - 1 \in 1 .. Len(s) /\ k = (k - 1) + 1
              BY <4>6, <6>2
            <7>2. w[k] = s[k - 1]
              BY <4>5, <7>1
            <7> QED
              BY <4>6, <7>1, <7>2 DEF ToSet
          <6> QED
            BY <6>1, <6>2
        <5>2. ASSUME NEW k \in 1 .. Len(s) PROVE s[k] \in ToSet(w)
          <6>1. k + 1 \in DOMAIN w
            BY <4>6
          <6> QED
            BY <4>5, <6>1 DEF ToSet
        <5>3. p \in ToSet(w)
          <6>1. 1 \in DOMAIN w
            BY <4>6
          <6> QED
            BY <4>5, <6>1 DEF ToSet
        <5> QED
          BY <4>6, <5>1, <5>2, <5>3 DEF ToSet
      <4> HIDE DEF A
      <4> QED
        BY <4>2, <4>3, <4>4, <4>5, <4>7
    <3> QED
      BY <3>1, <3>2
  <2>4. \A k \in 1 .. n : k \in 1 .. n - 1 \/ k = n
    OBVIOUS
  <2> HIDE DEF A
  <2> QED
    BY <1>9, <2>3, <2>4
<1> HIDE DEF I
<1>10. N \in I
  <2>1. N \in Nat
    BY <1>1
  <2>2. \A n \in 1 .. N : n - 1 \in I => n \in I
    BY <1>9
  <2> HIDE DEF A
  <2>3. 0 .. N \subseteq I
    BY <1>8, <2>1, <2>2, Steps
  <2> QED
    BY <2>1, <2>3
<1>11. \A k \in 1 .. N : ToSet(up[k]) = A(k)
  <2> HIDE DEF A
  <2> QED
    BY <1>10 DEF I
<1> QED
  BY <1>1, <1>3, <1>11 DEF d

LEMMA AncestorBefore ==
  ASSUME NEW r \in Responses, NEW i \in Rows(r), NEW j \in ToSet(Ancestors(r, i))
  PROVE  j \in Rows(r) /\ j < i
BY AncestorsFact DEF Over

----------------------------------------------------------------------------
(* What is on screen.                                                      *)

\* The parent of a row on screen is on screen.
LEMMA ParentVisible ==
  ASSUME NEW r \in Responses, NEW C, NEW i \in Visible(r, C), Parent(r, i) # None
  PROVE  Parent(r, i) \in Visible(r, C)
<1> DEFINE d == r.depth
           p == ParentIn(d, i)
<1>1. i \in Rows(r) /\ d \in Depths /\ Rows(r) = 1 .. Len(d)
  BY ResponseFact DEF Visible
<1>2. Parent(r, i) = p /\ p # 0
  BY <1>1, ParentIs DEF None
<1>3. p \in Rows(r)
  <2> HIDE DEF d
  <2> QED
    BY <1>1, <1>2, ParentFact
<1>4. \A j \in Rows(r) : Over(d, j, p) => Over(d, j, i)
  <2> SUFFICES ASSUME NEW j \in 1 .. Len(d) PROVE Over(d, j, p) => Over(d, j, i)
    BY <1>1
  <2> HIDE DEF d
  <2> QED
    BY <1>1, <1>2, OverParent
<1>5. ToSet(Ancestors(r, p)) \subseteq ToSet(Ancestors(r, i))
  BY <1>1, <1>3, <1>4, AncestorsFact
<1> QED
  BY <1>2, <1>3, <1>5 DEF Visible

\* What a search itself folds away hides no match.
LEMMA MatchesFact ==
  ASSUME NEW r \in Responses PROVE r.matched \subseteq Visible(r, SearchShape(r))
<1> SUFFICES ASSUME NEW i \in r.matched, NEW j \in ToSet(Ancestors(r, i)), j \in SearchShape(r)
             PROVE  FALSE
  BY ResponseFact DEF Visible
<1>1. i \in Rows(r)
  BY ResponseFact
<1>2. j \in AncestorsOfMatched(r)
  BY DEF AncestorsOfMatched
<1>3. j \in r.matched /\ Descendants(r, j) \cap (r.matched \cup AncestorsOfMatched(r)) = {}
  BY <1>2 DEF SearchShape
<1>4. i \in Descendants(r, j)
  BY <1>1 DEF Descendants
<1> QED
  BY <1>3, <1>4

LEMMA MatchesAreShown == ASSUME shown \in Responses PROVE MatchesShown
<1> SUFFICES ASSUME Searching(shown), overrides = <<>> PROVE shown.matched \subseteq VisibleNow
  BY DEF MatchesShown
<1>1. DOMAIN overrides = {}
  OBVIOUS
<1>2. CollapsedNow = SearchShape(shown)
  BY <1>1 DEF CollapsedNow, Collapsed
<1> QED
  BY <1>2, MatchesFact DEF VisibleNow

\* The rows on screen, from top to bottom.
Ascending(s) == \A p, q \in 1 .. Len(s) : p < q => s[p] < s[q]

LEMMA VisibleRowsFact ==
  ASSUME shown \in Responses
  PROVE  /\ VisibleRows \in Seq(Nat) /\ Ascending(VisibleRows)
         /\ ToSet(VisibleRows) = VisibleNow
<1> DEFINE N == Len(shown.depth)
           V == VisibleNow
           k == CHOOSE f : f = [i \in 0 .. N |->
                  IF i = 0 THEN <<>> ELSE IF i \in V THEN Append(f[i - 1], i) ELSE f[i - 1]]
           g == [x \in (1 .. N) \X Seq(Nat) |-> IF x[1] \in V THEN Append(x[2], x[1]) ELSE x[2]]
<1>0. N \in Nat /\ V \subseteq 1 .. N
  BY ResponseFact DEF VisibleNow, Visible
<1>1. VisibleRows = k[N]
  BY DEF VisibleRows
<1> HIDE DEF V, N
<1>2. g \in [(1 .. N) \X Seq(Nat) -> Seq(Nat)]
  <2>1. ASSUME NEW i \in 1 .. N, NEW s \in Seq(Nat) PROVE Append(s, i) \in Seq(Nat)
    BY <1>0
  <2> QED
    BY <2>1
<1>3. \A i \in 1 .. N, s \in Seq(Nat) : g[<<i, s>>] = IF i \in V THEN Append(s, i) ELSE s
  OBVIOUS
<1> HIDE DEF g
<1>4. <<>> \in Seq(Nat)
  OBVIOUS
<1>5. PICK f \in [0 .. N -> Seq(Nat)] : Recurses(f, N, <<>>, g)
  BY <1>0, <1>2, <1>4, Recursion
<1>6. ASSUME NEW i \in 1 .. N
      PROVE  f[i] = IF i \in V THEN Append(f[i - 1], i) ELSE f[i - 1]
  <2>1. f[i - 1] \in Seq(Nat)
    BY <1>0, <1>5
  <2>2. f[i] = g[<<i, f[i - 1]>>]
    BY <1>5 DEF Recurses
  <2> QED
    BY <1>3, <2>1, <2>2
<1>7. f = [i \in 0 .. N |->
            IF i = 0 THEN <<>> ELSE IF i \in V THEN Append(f[i - 1], i) ELSE f[i - 1]]
  <2>1. f[0] = <<>> /\ \A i \in 0 .. N : i # 0 => i \in 1 .. N
    BY <1>0, <1>5 DEF Recurses
  <2> QED
    BY <1>5, <1>6, <2>1
<1>8. k = [i \in 0 .. N |->
            IF i = 0 THEN <<>> ELSE IF i \in V THEN Append(k[i - 1], i) ELSE k[i - 1]]
  BY <1>7
<1> HIDE DEF k
<1>9. k[0] = <<>>
  BY <1>0, <1>8
<1>10. ASSUME NEW i \in 1 .. N
       PROVE  k[i] = IF i \in V THEN Append(k[i - 1], i) ELSE k[i - 1]
  <2>1. i \in 0 .. N /\ i # 0
    BY <1>0
  <2> QED
    BY <1>8, <2>1
<1> DEFINE Till(i) == V \cap 1 .. i
           I == {i \in 0 .. N : k[i] \in Seq(Nat) /\ Ascending(k[i]) /\ ToSet(k[i]) = Till(i)}
<1>11. 0 \in I
  <2>1. ToSet(<<>>) = {} /\ Till(0) = {} /\ Ascending(<<>>)
    BY DEF ToSet, Ascending
  <2>2. k[0] \in Seq(Nat) /\ Ascending(k[0]) /\ ToSet(k[0]) = Till(0)
    <3> HIDE DEF Till
    <3> QED
      BY <1>4, <1>9, <2>1
  <2>3. 0 \in 0 .. N
    BY <1>0
  <2> HIDE DEF Till
  <2> QED
    BY <2>2, <2>3
<1>12. ASSUME NEW i \in 1 .. N, i - 1 \in I PROVE i \in I
  <2> DEFINE s == k[i - 1]
             a == Append(s, i)
  <2>1. k[i] = IF i \in V THEN a ELSE s
    BY <1>10
  <2>2. s \in Seq(Nat) /\ Ascending(s) /\ ToSet(s) = Till(i - 1)
    BY <1>12
  <2>3. \A j \in Int : j \in 1 .. i <=> j \in 1 .. i - 1 \/ j = i
    BY <1>0
  <2> HIDE DEF s
  <2>4. CASE i \in V
    <3>1. /\ a \in Seq(Nat) /\ Len(a) = Len(s) + 1 /\ a[Len(s) + 1] = i
          /\ \A p \in 1 .. Len(s) : a[p] = s[p]
      BY <1>0, <2>2
    <3>2. DOMAIN a = 1 .. Len(s) + 1 /\ DOMAIN s = 1 .. Len(s) /\ Len(s) \in Nat
      BY <2>2, <3>1
    <3> HIDE DEF a
    <3>3. ToSet(a) = ToSet(s) \cup {i}
      <4>1. ASSUME NEW p \in 1 .. Len(s) + 1 PROVE a[p] \in ToSet(s) \cup {i}
        <5>1. p = Len(s) + 1 \/ p \in 1 .. Len(s)
          BY <3>2
        <5>2. \A q \in 1 .. Len(s) : s[q] \in ToSet(s)
          BY <3>2 DEF ToSet
        <5> QED
          BY <3>1, <5>1, <5>2
      <4>2. ASSUME NEW p \in 1 .. Len(s) PROVE s[p] \in ToSet(a)
        <5>1. a[p] = s[p] /\ p \in DOMAIN a
          BY <3>1, <3>2
        <5> QED
          BY <5>1 DEF ToSet
      <4>3. i \in ToSet(a)
        BY <3>1, <3>2 DEF ToSet
      <4> QED
        BY <3>2, <4>1, <4>2, <4>3 DEF ToSet
    <3>4. Till(i) = Till(i - 1) \cup {i}
      BY <1>0, <2>3, <2>4
    <3>5. Ascending(a)
      <4>1. \A p \in 1 .. Len(s) : s[p] \in 1 .. i - 1
        BY <2>2, <3>2 DEF ToSet
      <4> SUFFICES ASSUME NEW p \in 1 .. Len(a), NEW q \in 1 .. Len(a), p < q PROVE a[p] < a[q]
        BY DEF Ascending
      <4>2. p \in 1 .. Len(s) /\ a[p] = s[p]
        BY <3>1, <3>2
      <4>3. CASE q = Len(s) + 1
        BY <3>1, <4>1, <4>2, <4>3
      <4>4. CASE q # Len(s) + 1
        <5>1. q \in 1 .. Len(s) /\ a[q] = s[q]
          BY <3>1, <3>2, <4>4
        <5> QED
          BY <2>2, <4>2, <5>1 DEF Ascending
      <4> QED
        BY <4>3, <4>4
    <3>6. k[i] = a
      BY <2>1, <2>4
    <3> HIDE DEF Till
    <3>7. k[i] \in Seq(Nat) /\ Ascending(k[i]) /\ ToSet(k[i]) = Till(i)
      BY <2>2, <3>1, <3>3, <3>4, <3>5, <3>6
    <3> QED
      BY <3>7
  <2>5. CASE i \notin V
    <3>1. Till(i) = Till(i - 1)
      BY <1>0, <2>3, <2>5
    <3> HIDE DEF Till
    <3> QED
      BY <2>1, <2>2, <2>5, <3>1
  <2> QED
    BY <2>4, <2>5
<1> HIDE DEF I
<1>13. N \in I
  <2>1. \A i \in 1 .. N : i - 1 \in I => i \in I
    BY <1>12
  <2> HIDE DEF Till
  <2>2. 0 .. N \subseteq I
    BY <1>0, <1>11, <2>1, Steps
  <2> QED
    BY <1>0, <2>2
<1>14. k[N] \in Seq(Nat) /\ Ascending(k[N]) /\ ToSet(k[N]) = Till(N)
  BY <1>13 DEF I
<1>15. Till(N) = V
  BY <1>0
<1> QED
  BY <1>1, <1>14, <1>15 DEF V

\* Between two rows on screen that follow one another, and below the last, is
\* none.
LEMMA NextOnScreen ==
  ASSUME shown \in Responses, NEW p \in 1 .. Len(VisibleRows)
  PROVE  /\ VisibleRows[p] \in VisibleNow
         /\ p < Len(VisibleRows) =>
              /\ VisibleRows[p] < VisibleRows[p + 1] /\ VisibleRows[p + 1] \in VisibleNow
              /\ \A k \in VisibleRows[p] + 1 .. VisibleRows[p + 1] - 1 : k \notin VisibleNow
         /\ p = Len(VisibleRows) =>
              \A k \in VisibleNow : k <= VisibleRows[p]
<1> DEFINE s == VisibleRows
<1>1. s \in Seq(Nat) /\ Ascending(s) /\ ToSet(s) = VisibleNow
  BY VisibleRowsFact
<1> HIDE DEF s
<1>2. DOMAIN s = 1 .. Len(s) /\ Len(s) \in Nat /\ \A q \in 1 .. Len(s) : s[q] \in Nat /\ s[q] \in VisibleNow
  BY <1>1 DEF ToSet
<1>3. ASSUME NEW k \in VisibleNow PROVE \E q \in 1 .. Len(s) : s[q] = k
  BY <1>1, <1>2 DEF ToSet
<1>4. ASSUME NEW p0 \in 1 .. Len(s), p0 < Len(s), NEW k \in VisibleNow,
             s[p0] < k, k < s[p0 + 1]
      PROVE  FALSE
  <2>1. PICK q \in 1 .. Len(s) : s[q] = k
    BY <1>3
  <2>2. p0 + 1 \in 1 .. Len(s)
    BY <1>2, <1>4
  <2>3. q < p0 \/ q = p0 \/ q = p0 + 1 \/ p0 + 1 < q
    BY <1>2
  <2> QED
    BY <1>1, <1>2, <1>4, <2>1, <2>2, <2>3 DEF Ascending
<1>5. ASSUME NEW k \in VisibleNow PROVE k <= s[Len(s)]
  <2>1. PICK q \in 1 .. Len(s) : s[q] = k
    BY <1>3
  <2>2. Len(s) \in Nat
    BY <1>2
  <2>3. Len(s) \in 1 .. Len(s) /\ (q < Len(s) \/ q = Len(s))
    BY <2>2
  <2>4. q < Len(s) => s[q] < s[Len(s)]
    BY <1>1, <2>3 DEF Ascending
  <2>5. s[q] \in Nat /\ s[Len(s)] \in Nat
    BY <1>2, <2>3
  <2> QED
    BY <2>1, <2>3, <2>4, <2>5
<1>6. p \in 1 .. Len(s) /\ s[p] \in VisibleNow /\ s[p] \in Nat
  BY <1>2 DEF s
<1>7. ASSUME p < Len(s)
      PROVE  s[p] < s[p + 1] /\ s[p + 1] \in VisibleNow /\ s[p + 1] \in Nat
  <2>1. p + 1 \in 1 .. Len(s)
    BY <1>2, <1>6, <1>7
  <2> QED
    BY <1>1, <1>2, <1>6, <2>1 DEF Ascending
<1>8. ASSUME p < Len(s), NEW k \in s[p] + 1 .. s[p + 1] - 1 PROVE k \notin VisibleNow
  BY <1>4, <1>6, <1>7, <1>8
<1>9. p = Len(s) => \A k \in VisibleNow : k <= s[p]
  BY <1>5
<1> QED
  BY <1>6, <1>7, <1>8, <1>9 DEF s

----------------------------------------------------------------------------
(* The lines of the gutter.                                                *)

\* From row k on there is a row below depth e before depth e is left.
Reach(d, k, e) == \E j \in k .. Len(d) : d[j] = e + 1 /\ \A m \in k .. j : d[m] > e

\* A row has children when the next one is deeper.
LEMMA ChildrenFact ==
  ASSUME NEW r \in Responses, NEW i \in Rows(r)
  PROVE  Children(r, i) # {} <=> i + 1 \in Rows(r) /\ r.depth[i + 1] = r.depth[i] + 1
<1> DEFINE d == r.depth
<1>1. d \in Depths /\ Rows(r) = 1 .. Len(d) /\ Len(d) \in Nat
  BY ResponseFact
<1>2. \A j \in 1 .. Len(d) : Parent(r, j) = ParentIn(d, j)
  BY <1>1, ParentIs
<1>3. /\ \A j \in 1 .. Len(d) : d[j] \in Nat
      /\ \A j \in 1 .. Len(d) : j # 1 => d[j] <= d[j - 1] + 1
  <2> HIDE DEF d
  <2> QED
    BY <1>1, DepthFact
<1> HIDE DEF d
<1>4. ASSUME NEW j \in Children(r, i) PROVE i + 1 \in 1 .. Len(d) /\ d[i + 1] = d[i] + 1
  <2>1. j \in 1 .. Len(d) /\ ParentIn(d, j) = i /\ i # 0
    BY <1>1, <1>2 DEF Children
  <2>2. Over(d, i, j)
    BY <1>1, <2>1, ParentFact
  <2>3. i + 1 \in 1 .. Len(d) /\ i + 1 # 1 /\ (i + 1) - 1 = i /\ d[i] < d[i + 1]
    BY <1>1, <2>1, <2>2 DEF Over
  <2>4. d[i + 1] <= d[i] + 1
    BY <1>3, <2>3
  <2> QED
    BY <1>1, <1>3, <2>3, <2>4
<1>5. ASSUME i + 1 \in 1 .. Len(d), d[i + 1] = d[i] + 1 PROVE i + 1 \in Children(r, i)
  <2>1. Over(d, i, i + 1) /\ d[i] = d[i + 1] - 1
    BY <1>1, <1>3, <1>5 DEF Over
  <2>2. ParentIn(d, i + 1) = i
    BY <1>1, <1>5, <2>1, ParentUnique
  <2> QED
    BY <1>1, <1>2, <1>5, <2>2 DEF Children
<1> QED
  BY <1>1, <1>4, <1>5 DEF d

\* A row is the last child of its parent unless another is to come.
LEMMA LastChildFact ==
  ASSUME NEW r \in Responses, NEW i \in Rows(r)
  PROVE  ~IsLastChild(r, i) <=> Reach(r.depth, i + 1, r.depth[i] - 1)
<1> DEFINE d == r.depth
           next == {j \in i + 1 .. Len(d) : d[j] <= d[i]}
           n == CHOOSE j \in next : \A k \in next : j <= k
<1>1. /\ d \in Depths /\ i \in 1 .. Len(d) /\ Len(d) \in Nat
      /\ \A j \in 1 .. Len(d) : d[j] \in Nat
  BY ResponseFact, DepthFact
<1>2. IsLastChild(r, i) <=> next = {} \/ d[n] < d[i]
  BY DEF IsLastChild
<1> HIDE DEF d
<1>3. ASSUME next # {} PROVE n \in next /\ \A k \in next : n <= k
  <2>1. next \subseteq Nat
    BY <1>1
  <2> HIDE DEF next
  <2>2. \E j \in next : \A k \in next : j <= k
    BY <1>3, <2>1, LeastNumber
  <2> QED
    BY <2>2
<1> HIDE DEF n
<1>4. ASSUME next # {}, ~(d[n] < d[i]) PROVE Reach(d, i + 1, d[i] - 1)
  <2>1. n \in i + 1 .. Len(d) /\ d[n] = (d[i] - 1) + 1
    BY <1>1, <1>3, <1>4
  <2>2. \A m \in i + 1 .. n : d[m] > d[i] - 1
    <3> SUFFICES ASSUME NEW m \in i + 1 .. n, d[m] < d[i] PROVE FALSE
      BY <1>1, <2>1
    <3>1. m \in next
      BY <1>1, <2>1
    <3>2. m = n
      BY <1>1, <1>3, <1>4, <2>1, <3>1
    <3> QED
      BY <1>1, <1>4, <3>2
  <2> QED
    BY <2>1, <2>2 DEF Reach
<1>5. ASSUME Reach(d, i + 1, d[i] - 1) PROVE next # {} /\ ~(d[n] < d[i])
  <2>1. PICK j \in i + 1 .. Len(d) : d[j] = (d[i] - 1) + 1 /\ \A m \in i + 1 .. j : d[m] > d[i] - 1
    BY <1>5 DEF Reach
  <2>2. j \in next
    BY <1>1, <2>1
  <2>3. n \in i + 1 .. Len(d) /\ n <= j
    BY <1>1, <1>3, <2>2
  <2>4. d[n] > d[i] - 1
    BY <1>1, <2>1, <2>3
  <2>5. n \in 1 .. Len(d)
    BY <1>1, <2>3
  <2> QED
    BY <1>1, <2>2, <2>4, <2>5
<1> QED
  BY <1>2, <1>4, <1>5 DEF d

\* A row's segment in column e goes on below it, or has come from above it.
LEMMA SegmentFact ==
  ASSUME NEW r \in Responses, NEW i \in Rows(r), NEW e \in Nat, e < r.depth[i]
  PROVE  /\ Segment(r, i, e) \in {"tee", "passthrough"} <=> Reach(r.depth, i + 1, e)
         /\ Segment(r, i, e) # "none" <=> Reach(r.depth, i, e)
<1> DEFINE d == r.depth
<1>1. /\ d \in Depths /\ i \in 1 .. Len(d) /\ Len(d) \in Nat
      /\ \A j \in 1 .. Len(d) : d[j] \in Nat
  BY ResponseFact, DepthFact
<1>2. AncestorContinues(r, i, e) <=> Reach(d, i + 1, e)
  BY DEF AncestorContinues, Reach
<1>3. ~IsLastChild(r, i) <=> Reach(d, i + 1, d[i] - 1)
  BY LastChildFact
<1>0. e < d[i]
  OBVIOUS
<1>4. Segment(r, i, e) = IF e = d[i] - 1 THEN IF IsLastChild(r, i) THEN "elbow" ELSE "tee"
                         ELSE IF AncestorContinues(r, i, e) THEN "passthrough" ELSE "none"
  BY DEF Segment
<1> HIDE DEF d
<1>5. e = d[i] - 1 => Reach(d, i, e)
  BY <1>1 DEF Reach
<1>6. e # d[i] - 1 => (Reach(d, i, e) <=> Reach(d, i + 1, e))
  <2> SUFFICES ASSUME e # d[i] - 1 PROVE Reach(d, i, e) <=> Reach(d, i + 1, e)
    OBVIOUS
  <2>1. ASSUME Reach(d, i, e) PROVE Reach(d, i + 1, e)
    <3>1. PICK j \in i .. Len(d) : d[j] = e + 1 /\ \A m \in i .. j : d[m] > e
      BY <2>1 DEF Reach
    <3>2. j # i
      BY <1>1, <3>1
    <3> QED
      BY <1>1, <3>1, <3>2 DEF Reach
  <2>2. ASSUME Reach(d, i + 1, e) PROVE Reach(d, i, e)
    <3>1. PICK j \in i + 1 .. Len(d) : d[j] = e + 1 /\ \A m \in i + 1 .. j : d[m] > e
      BY <2>2 DEF Reach
    <3>2. \A m \in i .. j : m = i \/ m \in i + 1 .. j
      BY <1>1
    <3>3. \A m \in i .. j : d[m] > e
      BY <1>0, <1>1, <3>1, <3>2
    <3>4. j \in i .. Len(d)
      BY <1>1
    <3> QED
      BY <3>1, <3>3, <3>4 DEF Reach
  <2> QED
    BY <2>1, <2>2
<1>7. CASE e = d[i] - 1
  BY <1>3, <1>4, <1>5, <1>7 DEF d
<1>8. CASE e # d[i] - 1
  BY <1>2, <1>4, <1>6, <1>8 DEF d
<1> QED
  BY <1>7, <1>8

\* A line comes into a row in column e when the branch at depth e goes on there.
LEMMA LineAboveFact ==
  ASSUME shown \in Responses, NEW i \in Rows(shown), NEW e \in Nat
  PROVE  LineAbove(i, e) <=> Reach(shown.depth, i, e)
<1>1. CASE e < shown.depth[i]
  BY <1>1, SegmentFact DEF LineAbove
<1>2. CASE ~(e < shown.depth[i])
  <2> DEFINE d == shown.depth
  <2>1. /\ d \in Depths /\ i \in 1 .. Len(d) /\ Len(d) \in Nat
        /\ \A j \in 1 .. Len(d) : d[j] \in Nat
    BY ResponseFact, DepthFact
  <2>2. ~(e < d[i])
    BY <1>2
  <2>3. ~LineAbove(i, e)
    BY <2>2 DEF LineAbove
  <2> HIDE DEF d
  <2>4. ~Reach(d, i, e)
    BY <2>1, <2>2 DEF Reach
  <2> QED
    BY <2>3, <2>4 DEF d
<1> QED
  BY <1>1, <1>2

\* A line leaves a row in column e when the branch at depth e goes on below,
\* except for the row's own branch when that is folded away.
LEMMA LineBelowFact ==
  ASSUME shown \in Responses, NEW i \in Rows(shown), NEW e \in Nat
  PROVE  LineBelow(i, e) <=> /\ Reach(shown.depth, i + 1, e)
                             /\ e = shown.depth[i] => i \notin CollapsedNow
<1> DEFINE d == shown.depth
<1>1. /\ d \in Depths /\ Rows(shown) = 1 .. Len(d) /\ i \in 1 .. Len(d) /\ Len(d) \in Nat
      /\ \A j \in 1 .. Len(d) : d[j] \in Nat
      /\ \A j \in 1 .. Len(d) : j # 1 => d[j] <= d[j - 1] + 1
  BY ResponseFact, DepthFact
<1>2. CASE e < d[i]
  <2>1. Segment(shown, i, e) \in {"tee", "passthrough"} <=> Reach(d, i + 1, e)
    BY <1>2, SegmentFact
  <2> QED
    BY <1>1, <1>2, <2>1 DEF LineBelow
<1>3. ASSUME i + 1 \in 1 .. Len(d) PROVE d[i + 1] \in Nat /\ d[i + 1] <= d[i] + 1
  <2>1. i + 1 # 1 /\ (i + 1) - 1 = i
    BY <1>1
  <2> HIDE DEF d
  <2> QED
    BY <1>1, <1>3, <2>1
<1>4. CASE e = d[i]
  <2>1. Children(shown, i) # {} <=> i + 1 \in 1 .. Len(d) /\ d[i + 1] = d[i] + 1
    BY <1>1, ChildrenFact
  <2>2. LineBelow(i, e) <=> Children(shown, i) # {} /\ i \notin CollapsedNow
    BY <1>4 DEF LineBelow
  <2> HIDE DEF d
  <2>3. Reach(d, i + 1, e) <=> i + 1 \in 1 .. Len(d) /\ d[i + 1] = d[i] + 1
    BY <1>1, <1>3, <1>4 DEF Reach
  <2> QED
    BY <1>4, <2>1, <2>2, <2>3 DEF d
<1>5. CASE d[i] < e
  <2>1. ~LineBelow(i, e)
    BY <1>1, <1>5 DEF LineBelow
  <2> HIDE DEF d
  <2>2. ~Reach(d, i + 1, e)
    BY <1>1, <1>3, <1>5 DEF Reach
  <2> QED
    BY <2>1, <2>2 DEF d
<1>6. d[i] \in Nat
  BY <1>1
<1> HIDE DEF d
<1> QED
  BY <1>2, <1>4, <1>5, <1>6

\* The first row on screen below one that is, or the end: below a row with no
\* branch folded away it is the next, and else the first that is no deeper.
LEMMA BelowFact ==
  ASSUME shown \in Responses, NEW i \in VisibleNow, NEW n \in i + 1 .. Len(shown.depth) + 1,
         n \in VisibleNow \/ n = Len(shown.depth) + 1,
         \A k \in i + 1 .. n - 1 : k \notin VisibleNow
  PROVE  \/ n = i + 1 /\ (i \in CollapsedNow => ~Reach(shown.depth, i + 1, shown.depth[i]))
         \/ /\ i \in CollapsedNow /\ \A k \in i + 1 .. n - 1 : shown.depth[k] > shown.depth[i]
            /\ n \in VisibleNow => shown.depth[n] <= shown.depth[i]
<1> DEFINE d == shown.depth
           C == CollapsedNow
           V == VisibleNow
           deeper == i + 1 \in 1 .. Len(d) /\ d[i + 1] > d[i]
           next == {k \in i + 1 .. Len(d) : d[k] <= d[i]}
<1>1. /\ d \in Depths /\ Rows(shown) = 1 .. Len(d) /\ Len(d) \in Nat
      /\ \A j \in 1 .. Len(d) : d[j] \in Nat
  BY ResponseFact, DepthFact
<1>2. \A k \in 1 .. Len(d) : k \in V <=> \A j \in 1 .. Len(d) : Over(d, j, k) => j \notin C
  <2>1. ASSUME NEW k \in 1 .. Len(d) PROVE k \in V <=> ToSet(Ancestors(shown, k)) \cap C = {}
    BY <1>1 DEF VisibleNow, Visible
  <2>2. ASSUME NEW k \in 1 .. Len(d)
        PROVE  ToSet(Ancestors(shown, k)) = {j \in 1 .. Len(d) : Over(d, j, k)}
    BY <1>1, AncestorsFact
  <2> HIDE DEF V, C, d
  <2> QED
    BY <2>1, <2>2
<1>3. i \in 1 .. Len(d) /\ i \in V /\ n \in i + 1 .. Len(d) + 1 /\ (n \in V \/ n = Len(d) + 1)
      /\ \A k \in i + 1 .. n - 1 : k \notin V
  BY <1>1 DEF VisibleNow, Visible
<1> HIDE DEF V, C, d
<1>4. CASE i \notin C \/ ~deeper
  <2>1. ASSUME i + 1 \in 1 .. Len(d) PROVE i + 1 \in V
    <3> SUFFICES ASSUME NEW j \in 1 .. Len(d), Over(d, j, i + 1) PROVE j \notin C
      BY <1>2, <2>1
    <3>1. j < i + 1 /\ d[j] < d[i + 1] /\ \A k \in j + 1 .. i + 1 : d[j] < d[k]
      BY <1>1, <1>3, <2>1 DEF Over
    <3>2. CASE j = i
      BY <1>4, <2>1, <3>1, <3>2
    <3>3. CASE j # i
      <4>1. Over(d, j, i)
        BY <1>1, <1>3, <3>1, <3>3 DEF Over
      <4> QED
        BY <1>2, <1>3, <4>1
    <3> QED
      BY <3>2, <3>3
  <2>2. n = i + 1
    <3> SUFFICES ASSUME i + 1 < n PROVE FALSE
      BY <1>1, <1>3
    <3>1. i + 1 \in 1 .. Len(d) /\ i + 1 \in i + 1 .. n - 1
      BY <1>1, <1>3
    <3> QED
      BY <1>3, <2>1, <3>1
  <2>3. i \in C => ~Reach(d, i + 1, d[i])
    <3> SUFFICES ASSUME ~deeper, Reach(d, i + 1, d[i]) PROVE FALSE
      BY <1>4
    <3>1. PICK j \in i + 1 .. Len(d) : \A m \in i + 1 .. j : d[m] > d[i]
      BY DEF Reach
    <3>2. i + 1 \in 1 .. Len(d) /\ i + 1 \in i + 1 .. j
      BY <1>1, <1>3
    <3> QED
      BY <3>1, <3>2
  <2> QED
    BY <2>2, <2>3 DEF d, C
<1>5. CASE i \in C /\ deeper
  <2>1. ASSUME NEW k \in i + 1 .. Len(d), \A m \in i + 1 .. k : d[m] > d[i] PROVE k \notin V
    <3>1. Over(d, i, k) /\ k \in 1 .. Len(d)
      BY <1>1, <1>3, <2>1 DEF Over
    <3> QED
      BY <1>2, <1>3, <1>5, <3>1
  <2>2. ASSUME NEW k \in next, \A m \in next : k <= m PROVE k \in V
    <3>1. k \in 1 .. Len(d) /\ i < k /\ d[k] <= d[i]
      BY <1>1, <1>3
    <3> SUFFICES ASSUME NEW j \in 1 .. Len(d), Over(d, j, k) PROVE j \notin C
      BY <1>2, <3>1
    <3>2. j < k /\ d[j] < d[k] /\ \A m \in j + 1 .. k : d[j] < d[m]
      BY <1>1, <3>1 DEF Over
    <3>3. j < i
      <4> SUFFICES ASSUME i < j PROVE FALSE
        BY <1>1, <1>3, <3>1, <3>2
      <4>1. j \in next
        BY <1>1, <1>3, <3>1, <3>2
      <4> QED
        BY <1>1, <1>3, <2>2, <3>1, <3>2, <4>1
    <3>4. Over(d, j, i)
      BY <1>1, <1>3, <3>1, <3>2, <3>3 DEF Over
    <3> QED
      BY <1>2, <1>3, <3>4
  <2>3. CASE next = {}
    <3>1. \A k \in i + 1 .. Len(d) : d[k] > d[i]
      BY <1>1, <1>3, <2>3
    <3>2. \A k \in i + 1 .. Len(d) : k \notin V
      BY <1>1, <1>3, <2>1, <3>1
    <3>3. n = Len(d) + 1 /\ n \notin V
      BY <1>1, <1>3, <3>2 DEF V, VisibleNow, Visible
    <3>4. \A k \in i + 1 .. n - 1 : d[k] > d[i]
      BY <1>1, <3>1, <3>3
    <3> QED
      BY <1>5, <3>3, <3>4 DEF d, C, V
  <2>4. CASE next # {}
    <3>1. PICK k \in next : \A m \in next : k <= m
      <4>1. next \subseteq Nat
        BY <1>1, <1>3
      <4> HIDE DEF next
      <4> QED
        BY <2>4, <4>1, LeastNumber
    <3>2. k \in V /\ k \in i + 1 .. Len(d) /\ d[k] <= d[i]
      BY <2>2, <3>1
    <3>3. \A m \in i + 1 .. k - 1 : d[m] > d[i]
      <4> SUFFICES ASSUME NEW m \in i + 1 .. k - 1, d[m] <= d[i] PROVE FALSE
        BY <1>1, <1>3, <3>2
      <4>1. m \in next
        BY <1>1, <1>3, <3>2
      <4> QED
        BY <1>3, <3>1, <3>2, <4>1
    <3>4. \A m \in i + 1 .. k - 1 : m \notin V
      <4> SUFFICES ASSUME NEW m \in i + 1 .. k - 1 PROVE m \notin V
        OBVIOUS
      <4>1. m \in i + 1 .. Len(d) /\ \A q \in i + 1 .. m : q \in i + 1 .. k - 1
        BY <1>1, <1>3, <3>2
      <4> QED
        BY <2>1, <3>3, <4>1
    <3>5. n = k
      <4>1. ~(n < k)
        <5> SUFFICES ASSUME n < k PROVE FALSE
          OBVIOUS
        <5>1. n \in i + 1 .. k - 1 /\ n # Len(d) + 1
          BY <1>1, <1>3, <3>2
        <5> QED
          BY <1>3, <3>4, <5>1
      <4>2. ~(k < n)
        BY <1>1, <1>3, <3>2
      <4> QED
        BY <1>1, <1>3, <3>2, <4>1, <4>2
    <3> QED
      BY <1>5, <3>2, <3>3, <3>5 DEF d, C
  <2> QED
    BY <2>3, <2>4
<1> QED
  BY <1>4, <1>5

\* What leaves a row on screen enters the next one, or there is no such row.
LEMMA LinesMeet ==
  ASSUME shown \in Responses, NEW i \in VisibleNow, NEW n \in i + 1 .. Len(shown.depth) + 1,
         n \in VisibleNow \/ n = Len(shown.depth) + 1,
         \A k \in i + 1 .. n - 1 : k \notin VisibleNow,
         NEW e \in Nat
  PROVE  LineBelow(i, e) <=> n \in VisibleNow /\ LineAbove(n, e)
<1> DEFINE d == shown.depth
           C == CollapsedNow
           V == VisibleNow
<1>1. /\ d \in Depths /\ Rows(shown) = 1 .. Len(d) /\ Len(d) \in Nat
      /\ \A j \in 1 .. Len(d) : d[j] \in Nat
  BY ResponseFact, DepthFact
<1>2. i \in 1 .. Len(d) /\ n \in i + 1 .. Len(d) + 1 /\ V \subseteq 1 .. Len(d)
      /\ (n \in V \/ n = Len(d) + 1)
  BY <1>1 DEF VisibleNow, Visible
<1>3. LineBelow(i, e) <=> Reach(d, i + 1, e) /\ (e = d[i] => i \notin C)
  BY <1>1, <1>2, LineBelowFact
<1>4. n \in V => (LineAbove(n, e) <=> Reach(d, n, e))
  BY <1>1, <1>2, LineAboveFact
<1>5. \/ n = i + 1 /\ (i \in C => ~Reach(d, i + 1, d[i]))
      \/ /\ i \in C /\ \A k \in i + 1 .. n - 1 : d[k] > d[i]
         /\ n \in V => d[n] <= d[i]
  BY BelowFact
<1> SUFFICES LineBelow(i, e) <=> n \in V /\ LineAbove(n, e)
  OBVIOUS
<1> HIDE DEF V, C, d
<1>6. n \notin V => ~Reach(d, n, e)
  BY <1>1, <1>2 DEF Reach
<1>7. CASE n = i + 1 /\ (i \in C => ~Reach(d, i + 1, d[i]))
  BY <1>3, <1>4, <1>6, <1>7
<1>8. CASE i \in C /\ (\A k \in i + 1 .. n - 1 : d[k] > d[i]) /\ (n \in V => d[n] <= d[i])
  <2>1. d[i] \in Nat
    BY <1>1, <1>2
  <2>2. ASSUME e < d[i], Reach(d, i + 1, e) PROVE Reach(d, n, e)
    <3>1. PICK j \in i + 1 .. Len(d) : d[j] = e + 1 /\ \A m \in i + 1 .. j : d[m] > e
      BY <2>2 DEF Reach
    <3>2. j \in n .. Len(d)
      BY <1>1, <1>2, <1>8, <2>1, <2>2, <3>1
    <3>3. \A m \in n .. j : d[m] > e
      BY <1>1, <1>2, <3>1
    <3> QED
      BY <3>1, <3>2, <3>3 DEF Reach
  <2>3. ASSUME e < d[i], Reach(d, n, e) PROVE Reach(d, i + 1, e)
    <3>1. PICK j \in n .. Len(d) : d[j] = e + 1 /\ \A m \in n .. j : d[m] > e
      BY <2>3 DEF Reach
    <3>2. j \in i + 1 .. Len(d)
      BY <1>1, <1>2, <3>1
    <3>3. ASSUME NEW m \in i + 1 .. j PROVE d[m] > e
      <4>1. m \in n .. j \/ m \in i + 1 .. n - 1
        BY <1>1, <1>2
      <4>2. m \in 1 .. Len(d)
        BY <1>1, <1>2, <3>1
      <4> QED
        BY <1>1, <1>8, <2>1, <2>3, <3>1, <4>1, <4>2
    <3> QED
      BY <3>1, <3>2, <3>3 DEF Reach
  <2>4. ASSUME e >= d[i], n \in V PROVE ~Reach(d, n, e)
    <3>1. d[n] \in Nat /\ d[n] <= d[i]
      BY <1>1, <1>2, <1>8, <2>4
    <3> QED
      BY <1>1, <1>2, <2>1, <2>4, <3>1 DEF Reach
  <2>5. ASSUME d[i] < e PROVE ~Reach(d, i + 1, e)
    <3> SUFFICES ASSUME Reach(d, i + 1, e) PROVE FALSE
      OBVIOUS
    <3>1. PICK j \in i + 1 .. Len(d) : \A m \in i + 1 .. j : d[m] > e
      BY DEF Reach
    <3>2. i + 1 \in 1 .. Len(d) /\ i + 1 # 1 /\ (i + 1) - 1 = i /\ d[i + 1] > e
      BY <1>1, <1>2, <3>1
    <3>3. d[i + 1] <= d[i] + 1
      BY <1>1, <3>2, DepthFact
    <3> QED
      BY <1>1, <2>1, <2>5, <3>2, <3>3
  <2>6. CASE e < d[i]
    BY <1>3, <1>4, <1>6, <2>1, <2>2, <2>3, <2>6
  <2>7. CASE e = d[i]
    BY <1>3, <1>4, <1>8, <2>4, <2>7
  <2>8. CASE d[i] < e
    BY <1>3, <1>4, <2>1, <2>4, <2>5, <2>8
  <2> QED
    BY <2>1, <2>6, <2>7, <2>8
<1> QED
  BY <1>5, <1>7, <1>8

LEMMA VisibleLinesMeet ==
  ASSUME shown \in Responses, NEW p \in 1 .. Len(VisibleRows), NEW e \in 0 .. Len(shown.depth)
  PROVE  LineBelow(VisibleRows[p], e)
           <=> p < Len(VisibleRows) /\ LineAbove(VisibleRows[p + 1], e)
<1> DEFINE s == VisibleRows
           N == Len(shown.depth)
           V == VisibleNow
           i == s[p]
<1>1. N \in Nat /\ V \subseteq 1 .. N
  BY ResponseFact DEF VisibleNow, Visible
<1>2. s \in Seq(Nat)
  BY VisibleRowsFact
<1>3. Len(s) \in Nat
  BY <1>2
<1>4. /\ i \in V
      /\ p < Len(s) => /\ i < s[p + 1] /\ s[p + 1] \in V
                       /\ \A k \in i + 1 .. s[p + 1] - 1 : k \notin V
      /\ p = Len(s) => \A k \in V : k <= i
  BY NextOnScreen
<1>5. e \in Nat
  BY <1>1
<1>6. ASSUME NEW n \in i + 1 .. N + 1, n \in V \/ n = N + 1, \A k \in i + 1 .. n - 1 : k \notin V
      PROVE  LineBelow(i, e) <=> n \in V /\ LineAbove(n, e)
  BY <1>4, <1>5, <1>6, LinesMeet
<1> SUFFICES LineBelow(i, e) <=> p < Len(s) /\ LineAbove(s[p + 1], e)
  OBVIOUS
<1> HIDE DEF s, N, V, i
<1>7. CASE p < Len(s)
  <2> DEFINE n == s[p + 1]
  <2>0. i < n /\ n \in V /\ \A k \in i + 1 .. n - 1 : k \notin V
    BY <1>4, <1>7
  <2> HIDE DEF n
  <2>1. n \in i + 1 .. N + 1
    BY <1>1, <1>4, <2>0
  <2>2. LineBelow(i, e) <=> n \in V /\ LineAbove(n, e)
    BY <1>6, <2>0, <2>1
  <2> QED
    BY <1>7, <2>0, <2>2 DEF n, i
<1>8. CASE p = Len(s)
  <2> DEFINE n == N + 1
  <2>0. i \in 1 .. N
    BY <1>1, <1>4
  <2>1. n \in i + 1 .. N + 1 /\ n \notin V
    BY <1>1, <2>0
  <2>3. \A k \in i + 1 .. n - 1 : k \notin V
    <3> SUFFICES ASSUME NEW k \in i + 1 .. n - 1, k \in V PROVE FALSE
      OBVIOUS
    <3>1. k <= i
      BY <1>4, <1>8
    <3> QED
      BY <2>0, <3>1
  <2>2. LineBelow(i, e) <=> n \in V /\ LineAbove(n, e)
    BY <1>6, <2>1, <2>3
  <2> QED
    BY <1>3, <1>8, <2>1, <2>2 DEF i
<1>9. p \in 1 .. Len(s)
  BY DEF s
<1> QED
  BY <1>3, <1>7, <1>8, <1>9

----------------------------------------------------------------------------
(* The child counts.                                                       *)

\* The children of j among the first i rows.
ChildrenTo(d, i, j) == {m \in 1 .. i : ParentIn(d, m) = j}

LEMMA OneMoreChild ==
  ASSUME NEW d \in Depths, NEW i \in 1 .. Len(d), NEW j \in 1 .. Len(d)
  PROVE  /\ Cardinality(ChildrenTo(d, i - 1, j)) \in Nat
         /\ Cardinality(ChildrenTo(d, i, j))
              = IF ParentIn(d, i) = j THEN Cardinality(ChildrenTo(d, i - 1, j)) + 1
                ELSE Cardinality(ChildrenTo(d, i - 1, j))
<1> DEFINE S == ChildrenTo(d, i - 1, j)
           T == ChildrenTo(d, i, j)
<1>0. i \in Nat /\ i # 0
  BY DepthFact
<1>1. IsFiniteSet(S)
  <2>1. IsFiniteSet(1 .. i - 1) /\ S \subseteq 1 .. i - 1
    BY <1>0, FS_Interval DEF ChildrenTo
  <2> HIDE DEF S
  <2> QED
    BY <2>1, FS_Subset
<1>2. T = IF ParentIn(d, i) = j THEN S \cup {i} ELSE S
  <2>1. \A m \in Int : m \in 1 .. i <=> m \in 1 .. i - 1 \/ m = i
    BY <1>0
  <2> QED
    BY <1>0, <2>1 DEF ChildrenTo
<1>3. i \notin S
  BY <1>0 DEF ChildrenTo
<1> HIDE DEF S, T
<1>4. Cardinality(S) \in Nat
  BY <1>1, FS_CardinalityType
<1>5. Cardinality(S \cup {i}) = Cardinality(S) + 1
  BY <1>1, <1>3, FS_AddElement
<1> QED
  BY <1>2, <1>4, <1>5 DEF S, T

\* What the walk keeps open at row i: the rows above it, by depth, and itself.
OpenTo(d, i, s) ==
  /\ s \in Seq(Nat) /\ Len(s) = d[i] + 1
  /\ \A e \in 1 .. d[i] + 1 : s[e] \in 1 .. i /\ d[s[e]] = e - 1 /\ (s[e] = i \/ Over(d, s[e], i))

LEMMA OpenNext ==
  ASSUME NEW d \in Depths, NEW i \in 1 .. Len(d), i # 1, NEW s, OpenTo(d, i - 1, s)
  PROVE  /\ OpenTo(d, i, Append(SubSeq(s, 1, Least(d[i], Len(s))), i))
         /\ Len(SubSeq(s, 1, Least(d[i], Len(s)))) = d[i]
         /\ d[i] > 0 => Last(SubSeq(s, 1, Least(d[i], Len(s)))) = ParentIn(d, i)
<1> DEFINE open == SubSeq(s, 1, Least(d[i], Len(s)))
           new == Append(open, i)
<1>1. /\ Len(d) \in Nat /\ \A j \in 1 .. Len(d) : d[j] \in Nat
      /\ i - 1 \in 1 .. Len(d) /\ d[i] <= d[i - 1] + 1
  BY DepthFact
<1>2. s \in Seq(Nat) /\ Len(s) = d[i - 1] + 1
  BY DEF OpenTo
<1>3. Least(d[i], Len(s)) = d[i]
  BY <1>1, <1>2 DEF Least
<1>4. d[i] \in Nat /\ d[i] <= Len(s)
  BY <1>1, <1>2
<1>5. open = SubSeq(s, 1, d[i])
  BY <1>3
<1> HIDE DEF open
<1>6. open \in Seq(Nat) /\ Len(open) = d[i] /\ \A e \in 1 .. d[i] : open[e] = s[e]
  BY <1>2, <1>4, <1>5
<1>7. i \in Nat
  BY <1>1
<1>8. /\ new \in Seq(Nat) /\ Len(new) = d[i] + 1 /\ new[d[i] + 1] = i
      /\ \A e \in 1 .. d[i] : new[e] = open[e]
  BY <1>4, <1>6, <1>7
<1> HIDE DEF new
<1>9. ASSUME NEW e \in 1 .. d[i]
      PROVE  open[e] \in 1 .. i - 1 /\ d[open[e]] = e - 1 /\ Over(d, open[e], i)
  <2> DEFINE j == s[e]
  <2>1. e \in 1 .. d[i - 1] + 1
    BY <1>1, <1>4
  <2>2. j \in 1 .. i - 1 /\ d[j] = e - 1 /\ (j = i - 1 \/ Over(d, j, i - 1))
    BY <2>1 DEF OpenTo
  <2>3. open[e] = j
    BY <1>6
  <2> HIDE DEF j
  <2>4. d[j] < d[i]
    BY <1>4, <2>2
  <2>5. Over(d, j, i)
    <3> SUFFICES ASSUME NEW k \in j + 1 .. i PROVE d[j] < d[k]
      BY <1>7, <2>2 DEF Over
    <3>1. k = i \/ k \in j + 1 .. i - 1
      BY <1>7, <2>2
    <3> QED
      BY <1>7, <2>2, <2>4, <3>1 DEF Over
  <2> QED
    BY <2>2, <2>3, <2>5
<1>10. OpenTo(d, i, new)
  <2> SUFFICES ASSUME NEW e \in 1 .. d[i] + 1
               PROVE  new[e] \in 1 .. i /\ d[new[e]] = e - 1 /\ (new[e] = i \/ Over(d, new[e], i))
    BY <1>8 DEF OpenTo
  <2>1. CASE e = d[i] + 1
    BY <1>4, <1>7, <1>8, <2>1
  <2>2. CASE e # d[i] + 1
    <3>1. e \in 1 .. d[i]
      BY <1>4, <2>2
    <3> DEFINE j == open[e]
    <3>2. new[e] = j
      BY <1>8, <3>1
    <3>3. j \in 1 .. i - 1 /\ d[j] = e - 1 /\ Over(d, j, i)
      BY <1>9, <3>1
    <3> HIDE DEF j
    <3>4. j \in 1 .. i
      BY <1>7, <3>3
    <3> QED
      BY <3>2, <3>3, <3>4
  <2> QED
    BY <2>1, <2>2
<1>11. ASSUME d[i] > 0 PROVE Last(open) = ParentIn(d, i)
  <2> DEFINE j == open[d[i]]
  <2>1. Last(open) = j
    BY <1>6 DEF Last
  <2>2. d[i] \in 1 .. d[i]
    BY <1>4, <1>11
  <2>3. j \in 1 .. i - 1 /\ d[j] = d[i] - 1 /\ Over(d, j, i)
    BY <1>9, <2>2
  <2> HIDE DEF j
  <2>4. j \in 1 .. Len(d)
    BY <1>1, <2>3
  <2> QED
    BY <2>1, <2>3, <2>4, ParentUnique
<1> QED
  BY <1>6, <1>10, <1>11 DEF open, new

LEMMA OneMore ==
  ASSUME NEW R, NEW q \in [R -> Nat], NEW x
  PROVE  /\ [q EXCEPT ![x] = @ + 1] \in [R -> Nat]
         /\ \A j \in R : [q EXCEPT ![x] = @ + 1][j] = IF j = x THEN q[j] + 1 ELSE q[j]
<1> DEFINE e == [q EXCEPT ![x] = @ + 1]
<1>1. DOMAIN e = R /\ \A j \in R : e[j] = IF j = x THEN q[j] + 1 ELSE q[j]
  OBVIOUS
<1>2. \A j \in R : e[j] \in Nat
  BY <1>1
<1>3. e = [j \in DOMAIN q |-> e[j]]
  OBVIOUS
<1> HIDE DEF e
<1>4. e \in [R -> Nat]
  BY <1>1, <1>2, <1>3
<1> QED
  BY <1>1, <1>4 DEF e

\* The count beside a row is that of its children.
LEMMA CountsFact ==
  ASSUME NEW r \in Responses, NEW c \in Rows(r)
  PROVE  ChildrenCounts(r)[c] = Cardinality(Children(r, c))
<1> DEFINE d == r.depth
           N == Len(d)
           R == Rows(r)
           V == [stack: Seq(Nat), counts: [R -> Nat]]
           Open(i, v) == SubSeq(v.stack, 1, Least(d[i], Len(v.stack)))
           Row(i, v) == [stack |-> Append(Open(i, v), i),
                         counts |-> IF d[i] > 0 /\ Open(i, v) # <<>>
                                    THEN [v.counts EXCEPT ![Last(Open(i, v))] = @ + 1] ELSE v.counts]
           start == [stack |-> <<>>, counts |-> [j \in R |-> 0]]
           k == CHOOSE f : f = [i \in 0 .. N |-> IF i = 0 THEN start ELSE Row(i, f[i - 1])]
           g == [x \in (1 .. N) \X V |-> Row(x[1], x[2])]
<1>0. /\ d \in Depths /\ N \in Nat /\ R = 1 .. N
      /\ \A i \in 1 .. N : d[i] \in Nat
      /\ \A i \in 1 .. N : i = 1 => d[i] = 0
  BY ResponseFact, DepthFact
<1>1. ChildrenCounts(r) = k[N].counts
  BY DEF ChildrenCounts
<1>2. c \in R /\ Children(r, c) = ChildrenTo(d, N, c)
  <2>1. \A j \in 1 .. N : Parent(r, j) = ParentIn(d, j)
    BY <1>0, ParentIs
  <2> HIDE DEF d
  <2> QED
    BY <1>0, <2>1 DEF Children, ChildrenTo
<1> HIDE DEF d, N, R
<1>3. start \in V
  OBVIOUS
<1>4. ASSUME NEW i \in 1 .. N, NEW v \in V PROVE Row(i, v) \in V
  <2> DEFINE s == v.stack
             q == v.counts
             open == SubSeq(s, 1, Least(d[i], Len(s)))
  <2>1. s \in Seq(Nat) /\ q \in [R -> Nat]
    OBVIOUS
  <2>2. Len(s) \in Nat /\ d[i] \in Nat
    BY <1>0, <2>1
  <2>3. Least(d[i], Len(s)) \in 0 .. Len(s)
    BY <2>2 DEF Least
  <2>4. open \in Seq(Nat)
    <3> HIDE DEF s
    <3> QED
      BY <2>1, <2>2, <2>3
  <2> HIDE DEF s, q, open
  <2>5. Append(open, i) \in Seq(Nat)
    BY <1>0, <2>4
  <2>6. [q EXCEPT ![Last(open)] = @ + 1] \in [R -> Nat]
    BY <2>1, OneMore
  <2>7. Row(i, v) = [stack |-> Append(open, i),
                     counts |-> IF d[i] > 0 /\ open # <<>>
                                THEN [q EXCEPT ![Last(open)] = @ + 1] ELSE q]
    BY DEF open, q, s
  <2> HIDE DEF Row
  <2> QED
    BY <2>1, <2>5, <2>6, <2>7
<1>5. g \in [(1 .. N) \X V -> V] /\ \A i \in 1 .. N, v \in V : g[<<i, v>>] = Row(i, v)
  <2> HIDE DEF Row, V
  <2> QED
    BY <1>4
<1> HIDE DEF g, V
<1>6. PICK f \in [0 .. N -> V] : Recurses(f, N, start, g)
  <2> HIDE DEF start
  <2> QED
    BY <1>0, <1>3, <1>5, Recursion
<1>7. f = [i \in 0 .. N |-> IF i = 0 THEN start ELSE Row(i, f[i - 1])]
  <2> HIDE DEF Row, start
  <2>1. f[0] = start /\ \A i \in 0 .. N : i # 0 => i \in 1 .. N
    BY <1>0, <1>6 DEF Recurses
  <2>2. ASSUME NEW i \in 1 .. N PROVE f[i] = Row(i, f[i - 1])
    <3>1. f[i - 1] \in V /\ f[i] = g[<<i, f[i - 1]>>]
      BY <1>0, <1>6 DEF Recurses
    <3> QED
      BY <1>5, <3>1
  <2> QED
    BY <1>6, <2>1, <2>2
<1>8. k = [i \in 0 .. N |-> IF i = 0 THEN start ELSE Row(i, k[i - 1])]
  BY <1>7
<1> HIDE DEF k
<1> DEFINE Open0(i, s) == IF i = 0 THEN s = <<>> ELSE OpenTo(d, i, s)
           I == {i \in 0 .. N : /\ k[i] \in V /\ Open0(i, k[i].stack)
                                /\ \A j \in R : k[i].counts[j] = Cardinality(ChildrenTo(d, i, j))}
<1>9. 0 \in I
  <2>1. k[0] = start /\ 0 \in 0 .. N
    BY <1>0, <1>8
  <2>2. \A j \in R : ChildrenTo(d, 0, j) = {}
    BY DEF ChildrenTo
  <2>3. Cardinality({}) = 0
    BY FS_EmptySet
  <2>4. k[0].stack = <<>> /\ \A j \in R : k[0].counts[j] = 0
    BY <2>1
  <2>5. Open0(0, k[0].stack)
    BY <2>4
  <2>6. k[0] \in V
    BY <1>3, <2>1
  <2>7. \A j \in R : k[0].counts[j] = Cardinality(ChildrenTo(d, 0, j))
    BY <2>2, <2>3, <2>4
  <2> HIDE DEF Open0, start
  <2> QED
    BY <2>1, <2>5, <2>6, <2>7
<1>10. ASSUME NEW i \in 1 .. N, i - 1 \in I PROVE i \in I
  <2> DEFINE v == k[i - 1]
             s == v.stack
             q == v.counts
             open == SubSeq(s, 1, Least(d[i], Len(s)))
  <2>1. k[i] = Row(i, v)
    <3>1. i \in 0 .. N /\ i # 0
      BY <1>0
    <3> HIDE DEF Row
    <3> QED
      BY <1>8, <3>1
  <2>2. v \in V /\ Open0(i - 1, s) /\ \A j \in R : q[j] = Cardinality(ChildrenTo(d, i - 1, j))
    BY <1>10
  <2>3. k[i].stack = Append(open, i)
        /\ k[i].counts = IF d[i] > 0 /\ open # <<>> THEN [q EXCEPT ![Last(open)] = @ + 1] ELSE q
    <3>1. Row(i, v) = [stack |-> Append(open, i),
                       counts |-> IF d[i] > 0 /\ open # <<>>
                                  THEN [q EXCEPT ![Last(open)] = @ + 1] ELSE q]
      OBVIOUS
    <3> HIDE DEF open, q, s, v, Row
    <3> QED
      BY <2>1, <3>1
  <2>4. k[i] \in V
    <3> HIDE DEF Row
    <3> QED
      BY <1>4, <2>1, <2>2
  <2>5. q \in [R -> Nat] /\ s \in Seq(Nat)
    BY <2>2 DEF V
  <2> HIDE DEF v, s, q
  <2>6. CASE i = 1
    <3>1. s = <<>> /\ d[i] = 0
      BY <1>0, <2>2, <2>6
    <3>2. open = <<>>
      BY <3>1 DEF Least
    <3> HIDE DEF open
    <3>3. k[i].stack = <<i>> /\ k[i].counts = q
      BY <2>3, <3>2
    <3>4. OpenTo(d, i, <<i>>)
      BY <2>6, <3>1 DEF OpenTo
    <3>5. ASSUME NEW j \in R PROVE k[i].counts[j] = Cardinality(ChildrenTo(d, i, j))
      <4>1. ParentIn(d, i) = 0 /\ j # 0
        BY <1>0, <3>1, ParentFact DEF N
      <4>2. Cardinality(ChildrenTo(d, i, j)) = Cardinality(ChildrenTo(d, i - 1, j))
        BY <1>0, <4>1, OneMoreChild DEF N
      <4> QED
        BY <2>2, <3>3, <4>2
    <3> QED
      BY <1>0, <2>4, <2>6, <3>3, <3>4, <3>5
  <2>7. CASE i # 1
    <3>1. OpenTo(d, i - 1, s)
      BY <1>0, <2>2, <2>7
    <3>2. /\ OpenTo(d, i, Append(open, i)) /\ Len(open) = d[i]
          /\ d[i] > 0 => Last(open) = ParentIn(d, i)
      BY <1>0, <2>7, <3>1, OpenNext DEF N
    <3>3. d[i] \in Nat /\ (ParentIn(d, i) = 0 <=> d[i] = 0)
          /\ (ParentIn(d, i) # 0 => ParentIn(d, i) \in R)
      BY <1>0, ParentFact DEF N
    <3>4. d[i] > 0 => open # <<>>
      <4>1. Len(<<>>) = 0
        OBVIOUS
      <4> HIDE DEF open
      <4> QED
        BY <3>2, <3>3, <4>1
    <3> HIDE DEF open
    <3>5. k[i].counts = IF d[i] > 0 THEN [q EXCEPT ![ParentIn(d, i)] = @ + 1] ELSE q
      BY <2>3, <3>2, <3>4
    <3>6. ASSUME NEW j \in R PROVE k[i].counts[j] = Cardinality(ChildrenTo(d, i, j))
      <4>1. Cardinality(ChildrenTo(d, i, j))
              = IF ParentIn(d, i) = j THEN Cardinality(ChildrenTo(d, i - 1, j)) + 1
                ELSE Cardinality(ChildrenTo(d, i - 1, j))
        BY <1>0, OneMoreChild DEF N
      <4>2. q[j] = Cardinality(ChildrenTo(d, i - 1, j)) /\ j # 0
        BY <1>0, <2>2
      <4>3. k[i].counts[j] = IF d[i] > 0 /\ j = ParentIn(d, i) THEN q[j] + 1 ELSE q[j]
        BY <2>5, <3>3, <3>5
      <4> QED
        BY <3>3, <4>1, <4>2, <4>3
    <3>7. Open0(i, k[i].stack)
      BY <2>3, <2>7, <3>2
    <3> HIDE DEF Open0
    <3> QED
      BY <1>0, <2>4, <3>6, <3>7
  <2> QED
    BY <2>6, <2>7
<1> HIDE DEF I
<1>11. N \in I
  <2>1. \A i \in 1 .. N : i - 1 \in I => i \in I
    BY <1>10
  <2> HIDE DEF Open0
  <2>2. 0 .. N \subseteq I
    BY <1>0, <1>9, <2>1, Steps
  <2> QED
    BY <1>0, <2>2
<1>12. \A j \in R : k[N].counts[j] = Cardinality(ChildrenTo(d, N, j))
  <2> HIDE DEF Open0
  <2> QED
    BY <1>11 DEF I
<1> QED
  BY <1>1, <1>2, <1>12

LEMMA TreeIsDrawn == ASSUME shown \in Responses PROVE TreeDrawnWhole
<1>1. ASSUME NEW i \in Rows(shown) PROVE ChildrenCounts(shown)[i] = Cardinality(Children(shown, i))
  BY CountsFact
<1> QED
  BY <1>1, MatchesAreShown, VisibleLinesMeet DEF TreeDrawnWhole, GutterLinesMeet

\* A row with a count has children.
LEMMA CountedFact ==
  ASSUME NEW r \in Responses, NEW i \in Rows(r), ChildrenCounts(r)[i] > 0
  PROVE  i \in Collapsible(r)
<1>1. Cardinality({}) = 0
  BY FS_EmptySet
<1>2. Children(r, i) # {}
  <2> SUFFICES ASSUME Children(r, i) = {} PROVE FALSE
    OBVIOUS
  <2>1. ChildrenCounts(r)[i] = 0
    BY <1>1, CountsFact
  <2> QED
    BY <2>1
<1> QED
  BY <1>2 DEF Collapsible

----------------------------------------------------------------------------
(* The invariant.                                                          *)

\* The store and what the reader last made of each trace agree.
Kept(st, made) ==
  /\ st \in Seq([trace: Traces, rows: SUBSET Nat]) /\ Len(st) <= MaxTracked
  /\ \A m, n \in 1 .. Len(st) : st[m].trace = st[n].trace => m = n
  /\ \A n \in 1 .. Len(st) : st[n].rows = made[st[n].trace]

TreeInv ==
  /\ shown \in Responses
  /\ arranged \in [Traces -> SUBSET Nat] /\ Kept(store, arranged)
  /\ DOMAIN overrides \subseteq Collapsible(shown)

LEMMA TrackedFact ==
  ASSUME Kept(store, arranged), NEW t, Tracked(t)
  PROVE  CollapsedFor(t) = arranged[t] /\ CollapsedFor(t) \subseteq Nat
<1>1. PICK n \in 1 .. Len(store) : store[n].trace = t
  BY DEF Tracked
<1>2. store \in Seq([trace: Traces, rows: SUBSET Nat])
  BY DEF Kept
<1>3. store[n].rows = arranged[t] /\ store[n].rows \subseteq Nat
  <2>1. store[n] \in [trace: Traces, rows: SUBSET Nat]
    <3> DEFINE Entry == [trace: Traces, rows: SUBSET Nat]
    <3>1. store \in Seq(Entry) /\ n \in 1 .. Len(store)
      BY <1>1, <1>2
    <3> HIDE DEF Entry
    <3>2. store[n] \in Entry
      BY <3>1
    <3> QED
      BY <3>2 DEF Entry
  <2>2. store[n].rows = arranged[store[n].trace]
    BY DEF Kept
  <2> QED
    BY <1>1, <2>1, <2>2
<1>4. (CHOOSE m \in 1 .. Len(store) : store[m].trace = t) = n
  BY <1>1 DEF Kept
<1> QED
  BY <1>3, <1>4 DEF CollapsedFor

LEMMA CollapsedForFact ==
  ASSUME Kept(store, arranged), NEW t PROVE CollapsedFor(t) \subseteq Nat
BY TrackedFact DEF CollapsedFor

\* The store after a write: one entry replaced, or the oldest evicted for a new
\* one.
LEMMA SetCollapsedFact ==
  ASSUME Kept(store, arranged), arranged \in [Traces -> SUBSET Nat], NEW t \in Traces, NEW S \in SUBSET Nat
  PROVE  Kept(SetCollapsed(t, S), [arranged EXCEPT ![t] = S])
<1> DEFINE Entry == [trace: Traces, rows: SUBSET Nat]
           made == [arranged EXCEPT ![t] = S]
           new == SetCollapsed(t, S)
<1>1. /\ store \in Seq(Entry) /\ Len(store) \in Nat /\ Len(store) <= MaxTracked
      /\ \A n \in 1 .. Len(store) : store[n] \in Entry
      /\ MaxTracked \in Nat /\ MaxTracked # 0
  <2>1. store \in Seq(Entry) /\ Len(store) <= MaxTracked
    BY DEF Kept
  <2> HIDE DEF Entry
  <2>2. Len(store) \in Nat /\ \A n \in 1 .. Len(store) : store[n] \in Entry
    BY <2>1
  <2>3. MaxTracked \in Nat /\ MaxTracked # 0
    BY WaterfallAssumption
  <2> QED
    BY <2>1, <2>2, <2>3
<1>2. made[t] = S /\ \A u \in Traces : u # t => made[u] = arranged[u]
  OBVIOUS
<1> HIDE DEF made
<1>3. CASE Tracked(t)
  <2>1. new = [n \in 1 .. Len(store) |->
                 IF store[n].trace = t THEN [store[n] EXCEPT !.rows = S] ELSE store[n]]
    BY <1>3 DEF SetCollapsed
  <2>2. ASSUME NEW n \in 1 .. Len(store)
        PROVE  /\ new[n] \in Entry /\ new[n].trace = store[n].trace
               /\ new[n].rows = made[new[n].trace]
    <3>1. store[n] \in Entry /\ store[n].rows = arranged[store[n].trace]
      BY <1>1 DEF Kept
    <3>2. CASE store[n].trace = t
      <4>1. new[n] = [store[n] EXCEPT !.rows = S]
        BY <2>1, <3>2
      <4> HIDE DEF new
      <4> QED
        BY <1>2, <3>1, <3>2, <4>1
    <3>3. CASE store[n].trace # t
      <4>1. new[n] = store[n]
        BY <2>1, <3>3
      <4> HIDE DEF new
      <4> QED
        BY <1>2, <3>1, <3>3, <4>1
    <3> QED
      BY <3>2, <3>3
  <2> HIDE DEF new, Entry
  <2>3. new \in [1 .. Len(store) -> Entry]
    BY <2>1, <2>2
  <2>4. new \in Seq(Entry) /\ Len(new) = Len(store)
    BY <1>1, <2>3
  <2>5. Kept(new, made)
    BY <1>1, <2>2, <2>4 DEF Kept, Entry
  <2> QED
    BY <2>5 DEF new, made
<1>4. CASE ~Tracked(t)
  <2> DEFINE over == Len(store) - MaxTracked + 1
             from == IF over > 0 THEN over + 1 ELSE 1
             left == SubSeq(store, from, Len(store))
             x == [trace |-> t, rows |-> S]
  <2>1. new = Append(left, x)
    BY <1>4 DEF SetCollapsed
  <2>2. from \in {1, 2} /\ (from = 1 => Len(store) < MaxTracked) /\ (from = 2 => Len(store) = MaxTracked)
    BY <1>1
  <2>3. x \in Entry /\ x.trace = t /\ x.rows = S
    OBVIOUS
  <2> HIDE DEF from, Entry, x
  <2>4. /\ left \in Seq(Entry) /\ Len(left) = Len(store) - from + 1
        /\ \A n \in 1 .. Len(left) : left[n] = store[n + from - 1] /\ n + from - 1 \in 1 .. Len(store)
    BY <1>1, <2>2
  <2> HIDE DEF left, new
  <2>5. /\ new \in Seq(Entry) /\ Len(new) = Len(left) + 1 /\ new[Len(left) + 1] = x
        /\ \A n \in 1 .. Len(left) : new[n] = left[n]
    BY <2>1, <2>3, <2>4
  <2>6. Len(left) \in Nat /\ Len(new) <= MaxTracked
    BY <1>1, <2>2, <2>4, <2>5
  <2>7. \A n \in 1 .. Len(store) : store[n].trace # t
    BY <1>4 DEF Tracked
  <2>8. ASSUME NEW n \in 1 .. Len(left)
        PROVE  new[n].trace # t /\ new[n].rows = made[new[n].trace]
    <3> DEFINE k == n + from - 1
    <3>1. k \in 1 .. Len(store) /\ new[n] = store[k]
      BY <2>4, <2>5
    <3> HIDE DEF k
    <3>2. store[k].trace \in Traces /\ store[k].rows = arranged[store[k].trace]
      BY <1>1, <3>1 DEF Kept, Entry
    <3> QED
      BY <1>2, <2>7, <3>1, <3>2
  <2>9. ASSUME NEW m \in 1 .. Len(left), NEW n \in 1 .. Len(left), new[m].trace = new[n].trace
        PROVE  m = n
    <3>1. /\ m + from - 1 \in 1 .. Len(store) /\ new[m] = store[m + from - 1]
          /\ n + from - 1 \in 1 .. Len(store) /\ new[n] = store[n + from - 1]
      BY <2>4, <2>5
    <3>2. m + from - 1 = n + from - 1
      BY <2>9, <3>1 DEF Kept
    <3> QED
      BY <2>2, <2>6, <3>2
  <2>10. \A n \in 1 .. Len(new) : n \in 1 .. Len(left) \/ n = Len(left) + 1
    BY <2>5, <2>6
  <2>11. ASSUME NEW n \in 1 .. Len(new) PROVE new[n].rows = made[new[n].trace]
    BY <1>2, <2>3, <2>5, <2>8, <2>10
  <2>12. ASSUME NEW m \in 1 .. Len(new), NEW n \in 1 .. Len(new), new[m].trace = new[n].trace
         PROVE  m = n
    BY <2>3, <2>5, <2>8, <2>9, <2>10, <2>12
  <2>13. Kept(new, made)
    BY <2>5, <2>6, <2>11, <2>12 DEF Kept, Entry
  <2> QED
    BY <2>13 DEF new, made
<1> QED
  BY <1>3, <1>4

\* A write goes to the overlay or to the store, and either stays in order.
LEMMA WriteKeeps ==
  ASSUME TreeInv, NEW S \in SUBSET Nat, NEW over, DOMAIN over \subseteq Collapsible(shown),
         Collapsible(shown) # {}, Write(S, over), shown' = shown
  PROVE  TreeInv'
<1>1. shown \in Responses /\ shown.trace \in Traces
  <2>1. Rows(shown) # {}
    BY DEF Collapsible
  <2> QED
    BY <2>1, ResponseFact DEF TreeInv
<1>2. Collapsible(shown)' = Collapsible(shown)
  BY DEF Collapsible, Children, Rows, Parent
<1>3. CASE Searching(shown)
  BY <1>1, <1>2, <1>3 DEF Write, TreeInv
<1>4. CASE ~Searching(shown)
  <2>1. /\ store' = SetCollapsed(shown.trace, S) /\ overrides' = overrides
        /\ arranged' = [arranged EXCEPT ![shown.trace] = S]
    BY <1>4 DEF Write
  <2>2. Kept(store', arranged')
    BY <1>1, <2>1, SetCollapsedFact DEF TreeInv
  <2>3. arranged' \in [Traces -> SUBSET Nat]
    BY <2>1 DEF TreeInv
  <2> QED
    BY <1>1, <1>2, <2>1, <2>2, <2>3 DEF TreeInv
<1> QED
  BY <1>3, <1>4

LEMMA ToggleKeeps ==
  ASSUME TreeInv, NEW i \in Collapsible(shown), ToggleCollapse(i), shown' = shown
  PROVE  TreeInv'
<1> DEFINE S == (CollapsedFor(shown.trace) \cup {i}) \ (CollapsedFor(shown.trace) \cap {i})
           over == [j \in DOMAIN overrides \cup {i} |->
                      IF j = i THEN i \notin CollapsedNow ELSE overrides[j]]
<1>1. S \in SUBSET Nat
  <2>1. i \in Nat
    BY ResponseFact DEF Collapsible, TreeInv
  <2>2. CollapsedFor(shown.trace) \subseteq Nat
    BY CollapsedForFact DEF TreeInv
  <2> QED
    BY <2>1, <2>2
<1>2. DOMAIN over \subseteq Collapsible(shown)
  BY DEF TreeInv
<1>3. Write(S, over)
  BY DEF ToggleCollapse
<1> HIDE DEF S, over
<1> QED
  BY <1>1, <1>2, <1>3, WriteKeeps

LEMMA InitTree == Init => TreeInv
<1> SUFFICES ASSUME Init PROVE TreeInv
  OBVIOUS
<1>1. Kept(<<>>, arranged)
  BY WaterfallAssumption DEF Kept
<1> QED
  BY <1>1 DEF Init, TreeInv, Responses

\* What leaves the store and the reader's arrangements alone.
LEMMA LeaveKeeps ==
  ASSUME TreeInv, store' = store, arranged' = arranged, shown' \in Responses,
         DOMAIN overrides' \subseteq Collapsible(shown')
  PROVE  TreeInv'
<1>1. Collapsible(shown)' = Collapsible(shown')
  BY DEF Collapsible, Children, Rows, Parent
<1> QED
  BY <1>1 DEF TreeInv

LEMMA StepTree == TreeInv /\ [Next]_vars => TreeInv'
<1> SUFFICES ASSUME TreeInv, [Next]_vars PROVE TreeInv'
  OBVIOUS
<1>1. shown \in Responses /\ DOMAIN overrides \subseteq Collapsible(shown)
  BY DEF TreeInv
<1>2. ASSUME UNCHANGED treeVars PROVE TreeInv'
  BY <1>1, <1>2, LeaveKeeps DEF treeVars
<1>3. DOMAIN <<>> = {}
  OBVIOUS
<1>4. CASE Arrive
  <2>0. PICK t \in Traces, s \in Shapes : \E hits \in SUBSET (1 .. Len(s)) :
          /\ shown' = [trace |-> t, depth |-> s, matched |-> hits] /\ overrides' = <<>>
          /\ UNCHANGED <<store, arranged>>
    BY <1>4 DEF Arrive
  <2>1. PICK hits \in SUBSET (1 .. Len(s)) :
          /\ shown' = [trace |-> t, depth |-> s, matched |-> hits] /\ overrides' = <<>>
          /\ UNCHANGED <<store, arranged>>
    BY <2>0
  <2>2. hits \subseteq Nat
    OBVIOUS
  <2>3. shown' \in Responses
    BY <2>1, <2>2 DEF Responses, Rows
  <2> QED
    BY <1>3, <2>1, <2>3, LeaveKeeps
<1>5. CASE Click
  BY <1>1, <1>5, LeaveKeeps DEF Click
<1>6. CASE ToggleRow
  <2>1. PICK i \in VisibleNow \cap Collapsible(shown) : ToggleCollapse(i)
    BY <1>6 DEF ToggleRow
  <2> QED
    BY <1>6, <2>1, ToggleKeeps DEF ToggleRow
<1>7. CASE SetAll
  <2>1. PICK b \in BOOLEAN : Write(IF b THEN Collapsible(shown) ELSE {}, [i \in Collapsible(shown) |-> b])
    BY <1>7 DEF SetAll
  <2> DEFINE S == IF b THEN Collapsible(shown) ELSE {}
             over == [i \in Collapsible(shown) |-> b]
  <2>2. S \in SUBSET Nat
    BY <1>1, ResponseFact DEF Collapsible
  <2>3. DOMAIN over \subseteq Collapsible(shown) /\ Collapsible(shown) # {} /\ shown' = shown
    BY <1>7 DEF SetAll
  <2> HIDE DEF S, over
  <2> QED
    BY <2>1, <2>2, <2>3, WriteKeeps DEF S, over
<1>8. CASE RightKey
  <2>1. selected \in Collapsible(shown)
    BY <1>1, <1>8, CountedFact DEF RightKey
  <2> QED
    BY <1>8, <2>1, ToggleKeeps DEF RightKey
<1>9. CASE LeftKey
  <2>1. CASE ChildrenCounts(shown)[selected] > 0 /\ selected \notin CollapsedNow
    <3>1. selected \in Collapsible(shown)
      BY <1>1, <1>9, <2>1, CountedFact DEF LeftKey
    <3> QED
      BY <1>9, <2>1, <3>1, ToggleKeeps DEF LeftKey
  <2>2. CASE ~(ChildrenCounts(shown)[selected] > 0 /\ selected \notin CollapsedNow)
    BY <1>1, <1>9, <2>2, LeaveKeeps DEF LeftKey
  <2> QED
    BY <2>1, <2>2
<1>10. ASSUME NEW delta \in Deltas, MoveKey(delta) PROVE TreeInv'
  BY <1>1, <1>10, LeaveKeeps DEF MoveKey
<1>11. CASE Remount
  BY <1>1, <1>3, <1>11, LeaveKeeps DEF Remount
<1>12. CASE UNCHANGED vars
  BY <1>2, <1>12 DEF vars
<1> QED
  BY <1>2, <1>4, <1>5, <1>6, <1>7, <1>8, <1>9, <1>10, <1>11, <1>12 DEF Next, TreeStep

\* TreeInv holds in every state.
LEMMA TreeInvHolds == Spec => []TreeInv
BY InitTree, StepTree, PTL DEF Spec

----------------------------------------------------------------------------
(* The theorems.                                                           *)

\* The collapse state of each trace is in order and, outside a search, a trace
\* that was not evicted is collapsed as the reader left it
\* (waterfall-collapse-store.ts, WaterfallView.svelte:496).
THEOREM ArrangementKept == Spec => []CollapseKept
<1>1. TreeInv => CollapseKept
  <2> SUFFICES ASSUME TreeInv PROVE CollapseKept
    OBVIOUS
  <2>1. TypeOK
    <3>1. shown = NoSpans \/ (shown.trace \in Traces /\ shown.depth \in Shapes)
      BY DEF TreeInv, Responses
    <3> QED
      BY <3>1, ResponseFact DEF TypeOK, TreeInv, Kept
  <2>2. ArrangementRestored
    <3> SUFFICES ASSUME ~Searching(shown), Tracked(shown.trace)
                 PROVE  CollapsedNow = arranged[shown.trace]
      BY DEF ArrangementRestored
    <3> QED
      BY TrackedFact DEF TreeInv, CollapsedNow, Collapsed
  <2> QED
    BY <2>1, <2>2 DEF CollapseKept
<1> QED
  BY <1>1, TreeInvHolds, PTL

\* A search hides no match, each connector that leaves a row on screen enters
\* the next one in its column, and the count beside a row is that of its
\* children (computeSearchCollapsedParents, segmentAt, childrenCounts).
THEOREM TreeIsDrawnWhole == Spec => []TreeDrawnWhole
<1>1. TreeInv => TreeDrawnWhole
  BY TreeIsDrawn DEF TreeInv
<1> QED
  BY <1>1, TreeInvHolds, PTL

\* A movement key goes to a row on screen.
LEMMA KeyTargetFact ==
  ASSUME shown \in Responses, VisibleNow # {}, NEW delta \in Deltas
  PROVE  KeyTarget(delta, VisibleRows, selected) \in VisibleNow
<1> DEFINE s == VisibleRows
           at == (CHOOSE p \in 1 .. Len(s) : s[p] = selected) + delta
<1>1. s \in Seq(Nat) /\ ToSet(s) = VisibleNow
  BY VisibleRowsFact
<1> HIDE DEF s
<1>2. DOMAIN s = 1 .. Len(s) /\ Len(s) \in Nat
  BY <1>1
<1>3. Len(s) # 0
  BY <1>1, <1>2 DEF ToSet
<1>4. \A p \in 1 .. Len(s) : s[p] \in VisibleNow
  BY <1>1, <1>2 DEF ToSet
<1>5. KeyTarget(delta, s, selected)
        = IF selected \notin ToSet(s) THEN s[1] ELSE s[Between(1, at, Len(s))]
  BY DEF KeyTarget
<1>6. CASE selected \notin ToSet(s)
  <2>1. 1 \in 1 .. Len(s)
    BY <1>2, <1>3
  <2> QED
    BY <1>4, <1>5, <1>6, <2>1 DEF s
<1>7. CASE selected \in ToSet(s)
  <2>1. \E p \in 1 .. Len(s) : s[p] = selected
    BY <1>2, <1>7 DEF ToSet
  <2>2. (CHOOSE p \in 1 .. Len(s) : s[p] = selected) \in Int
    BY <2>1
  <2>3. delta \in Int
    <3>1. PageStep \in Nat /\ Len(shown.depth) \in Nat
      BY WaterfallAssumption, ResponseFact
    <3> QED
      BY <3>1 DEF Deltas
  <2>4. at \in Int
    BY <2>2, <2>3
  <2> HIDE DEF at
  <2>5. Between(1, at, Len(s)) \in 1 .. Len(s)
    BY <1>2, <1>3, <2>4 DEF Between
  <2> QED
    BY <1>4, <1>5, <1>7, <2>5 DEF s
<1> QED
  BY <1>6, <1>7

\* Clicks and keys select what is on screen, or the parent of a selection that
\* was hidden (handleGridKeydown, navigateVisibleRow).
THEOREM SelectionStaysOnScreen == Spec => SelectionMovesOnScreen
<1> DEFINE Moves == (selected' # selected /\ UNCHANGED <<shown, store, overrides>>) =>
                      \/ selected' \in VisibleNow
                      \/ selected \in Rows(shown) \ VisibleNow /\ selected' = Parent(shown, selected)
<1>1. TreeInv /\ [Next]_vars => [Moves]_vars
  <2> SUFFICES ASSUME TreeInv, Next, selected' # selected, UNCHANGED <<shown, store, overrides>>
               PROVE  \/ selected' \in VisibleNow
                      \/ selected \in Rows(shown) \ VisibleNow /\ selected' = Parent(shown, selected)
    OBVIOUS
  <2>1. shown \in Responses
    BY DEF TreeInv
  <2>2. CASE Arrive
    <3>1. PICK t \in Traces, s \in Shapes : \E hits \in SUBSET (1 .. Len(s)) :
            /\ shown' = [trace |-> t, depth |-> s, matched |-> hits]
            /\ IF t = shown.trace THEN selected' = selected ELSE selected' \in {None, 1, Len(s)}
      BY <2>2 DEF Arrive
    <3>2. t = shown.trace
      BY <3>1
    <3> QED
      BY <3>1, <3>2
  <2>3. CASE Click
    BY <2>3 DEF Click, SelectSpan
  <2>4. CASE ToggleRow \/ SetAll \/ RightKey
    BY <2>4 DEF ToggleRow, SetAll, RightKey
  <2>5. CASE LeftKey
    <3>1. CASE ChildrenCounts(shown)[selected] > 0 /\ selected \notin CollapsedNow
      BY <2>5, <3>1 DEF LeftKey
    <3>2. CASE ~(ChildrenCounts(shown)[selected] > 0 /\ selected \notin CollapsedNow)
      <4>1. /\ selected \in Rows(shown) /\ Parent(shown, selected) # None
            /\ selected' = Parent(shown, selected)
        BY <2>5, <3>2 DEF LeftKey, SelectSpan
      <4>2. CASE selected \in VisibleNow
        BY <2>1, <4>1, <4>2, ParentVisible DEF VisibleNow
      <4>3. CASE selected \notin VisibleNow
        BY <4>1, <4>3
      <4> QED
        BY <4>2, <4>3
    <3> QED
      BY <3>1, <3>2
  <2>6. ASSUME NEW delta \in Deltas, MoveKey(delta) PROVE selected' \in VisibleNow
    BY <2>1, <2>6, KeyTargetFact DEF MoveKey, SelectSpan
  <2>7. CASE Remount
    BY <2>7 DEF Remount
  <2>8. CASE UNCHANGED treeVars
    BY <2>8 DEF treeVars
  <2> QED
    BY <2>2, <2>3, <2>4, <2>5, <2>6, <2>7, <2>8 DEF Next, TreeStep
<1>2. Spec => [][Moves]_vars
  <2> HIDE DEF Moves
  <2> QED
    BY <1>1, TreeInvHolds, PTL DEF Spec
<1> QED
  BY <1>2 DEF SelectionMovesOnScreen

----------------------------------------------------------------------------
(* The columns.                                                            *)

\* What holds at 0 and passes from each number to the next holds at N.
LEMMA StepsTo ==
  ASSUME NEW N \in Nat, NEW I, 0 \in I, \A i \in 1 .. N : i - 1 \in I => i \in I
  PROVE  N \in I
<1>1. 0 .. N \subseteq I
  BY Steps
<1> QED
  BY <1>1

\* A sum is the last of its running totals.
Running(f, s) == f[0] = 0 /\ \A i \in 1 .. Len(s) : f[i] = f[i - 1] + s[i]

LEMMA AddedFact ==
  ASSUME NEW n \in Nat, NEW s \in [1 .. n -> Int]
  PROVE  Len(s) = n /\ \E f \in [0 .. n -> Int] : Running(f, s) /\ Added(s) = f[n]
<1> DEFINE sum == CHOOSE f : f = [i \in 0 .. Len(s) |-> IF i = 0 THEN 0 ELSE f[i - 1] + s[i]]
           g == [x \in (1 .. n) \X Int |-> x[2] + s[x[1]]]
<1>1. Len(s) = n
  OBVIOUS
<1>2. g \in [(1 .. n) \X Int -> Int] /\ \A i \in 1 .. n, v \in Int : g[<<i, v>>] = v + s[i]
  OBVIOUS
<1> HIDE DEF g
<1>3. 0 \in Int
  OBVIOUS
<1>4. PICK f \in [0 .. n -> Int] : Recurses(f, n, 0, g)
  BY <1>2, <1>3, Recursion
<1>5. ASSUME NEW i \in 1 .. n PROVE f[i] = f[i - 1] + s[i]
  <2>1. f[i - 1] \in Int /\ f[i] = g[<<i, f[i - 1]>>]
    BY <1>4 DEF Recurses
  <2> QED
    BY <1>2, <2>1
<1>6. f[0] = 0
  BY <1>4 DEF Recurses
<1>7. f = [i \in 0 .. n |-> IF i = 0 THEN 0 ELSE f[i - 1] + s[i]]
  <2>1. \A i \in 0 .. n : i # 0 => i \in 1 .. n
    OBVIOUS
  <2> QED
    BY <1>4, <1>5, <1>6, <2>1
<1>8. sum = [i \in 0 .. n |-> IF i = 0 THEN 0 ELSE sum[i - 1] + s[i]]
  BY <1>1, <1>7
<1>9. Added(s) = sum[n]
  BY <1>1 DEF Added
<1> HIDE DEF sum
<1> DEFINE I == {i \in 0 .. n : sum[i] = f[i]}
<1>10. 0 \in I
  BY <1>6, <1>8
<1>11. ASSUME NEW i \in 1 .. n, i - 1 \in I PROVE i \in I
  <2>1. i \in 0 .. n /\ i # 0
    OBVIOUS
  <2>2. sum[i] = sum[i - 1] + s[i]
    BY <1>8, <2>1
  <2> QED
    BY <1>5, <1>11, <2>1, <2>2
<1> HIDE DEF I
<1>12. n \in I
  <2>1. \A i \in 1 .. n : i - 1 \in I => i \in I
    BY <1>11
  <2> QED
    BY <1>10, <2>1, StepsTo
<1>13. Added(s) = f[n]
  BY <1>9, <1>12 DEF I
<1>14. Running(f, s)
  BY <1>1, <1>5, <1>6 DEF Running
<1> QED
  BY <1>1, <1>13, <1>14

\* Positive numbers add up to one.
LEMMA AddedPositive ==
  ASSUME NEW n \in Nat \ {0}, NEW s \in [1 .. n -> Nat \ {0}]
  PROVE  Added(s) \in Nat \ {0}
<1>1. n \in Nat /\ s \in [1 .. n -> Int]
  OBVIOUS
<1>2. PICK f \in [0 .. n -> Int] : Running(f, s) /\ Added(s) = f[n]
  BY <1>1, AddedFact
<1>3. Len(s) = n
  OBVIOUS
<1> DEFINE I == {i \in 0 .. n : f[i] >= i}
<1>4. 0 \in I
  BY <1>2 DEF Running
<1>5. ASSUME NEW i \in 1 .. n, i - 1 \in I PROVE i \in I
  <2>1. f[i] = f[i - 1] + s[i] /\ f[i - 1] \in Int /\ s[i] \in Nat \ {0} /\ f[i - 1] >= i - 1
    BY <1>2, <1>3, <1>5 DEF Running
  <2> QED
    BY <2>1
<1> HIDE DEF I
<1>6. n \in I
  <2>1. \A i \in 1 .. n : i - 1 \in I => i \in I
    BY <1>5
  <2> QED
    BY <1>1, <1>4, <2>1, StepsTo
<1>7. f[n] >= n /\ f[n] \in Int
  BY <1>6 DEF I
<1> QED
  BY <1>2, <1>7

\* Shares of w, each less than one short of its part, are together less than one
\* apiece short of w.
LEMMA SharesFact ==
  ASSUME NEW n \in Nat \ {0}, NEW part \in [1 .. n -> Nat \ {0}], NEW c \in [1 .. n -> Int],
         NEW w \in Int,
         \A i \in 1 .. n : Added(part) * c[i] >= part[i] * w - Added(part)
  PROVE  Added(c) + n >= w
<1> DEFINE T == Added(part)
<1>1. n \in Nat /\ part \in [1 .. n -> Int] /\ Len(part) = n /\ Len(c) = n
  OBVIOUS
<1>2. T \in Nat \ {0}
  BY AddedPositive
<1>3. PICK f \in [0 .. n -> Int] : Running(f, c) /\ Added(c) = f[n]
  BY <1>1, AddedFact
<1>4. PICK g \in [0 .. n -> Int] : Running(g, part) /\ Added(part) = g[n]
  BY <1>1, AddedFact
<1>5. \A i \in 1 .. n : T * c[i] >= part[i] * w - T
  OBVIOUS
<1> HIDE DEF T
<1> DEFINE I == {i \in 0 .. n : T * f[i] >= g[i] * w - i * T}
<1>6. 0 \in I
  <2>1. f[0] = 0 /\ g[0] = 0 /\ 0 \in 0 .. n
    BY <1>1, <1>3, <1>4 DEF Running
  <2> QED
    BY <1>2, <2>1
<1>7. ASSUME NEW i \in 1 .. n, i - 1 \in I PROVE i \in I
  <2> DEFINE a == f[i - 1]
             b == g[i - 1]
             x == c[i]
             y == part[i]
  <2>1. /\ f[i] = a + x /\ g[i] = b + y /\ a \in Int /\ b \in Int /\ x \in Int /\ y \in Int
        /\ i \in Int /\ T \in Int
    <3>1. i - 1 \in 0 .. n /\ i \in Int /\ T \in Int
      BY <1>1, <1>2
    <3>2. f[i] = a + x /\ g[i] = b + y
      BY <1>1, <1>3, <1>4 DEF Running
    <3>3. a \in Int /\ b \in Int
      BY <1>3, <1>4, <3>1
    <3>4. x \in Int /\ y \in Int
      OBVIOUS
    <3> QED
      BY <3>1, <3>2, <3>3, <3>4
  <2>2. T * a >= b * w - (i - 1) * T /\ T * x >= y * w - T
    BY <1>5, <1>7
  <2> HIDE DEF a, b, x, y
  <2>3. T * (a + x) >= (b + y) * w - i * T
    <3>1. T * (a + x) = T * a + T * x
      BY <2>1
    <3>2. (b + y) * w = b * w + y * w
      BY <2>1
    <3>3. (i - 1) * T = i * T - T
      BY <2>1
    <3>4. T * a \in Int /\ T * x \in Int /\ b * w \in Int /\ y * w \in Int /\ i * T \in Int
      BY <2>1
    <3> QED
      BY <2>1, <2>2, <3>1, <3>2, <3>3, <3>4
  <2>4. i \in 0 .. n /\ f[i] = a + x /\ g[i] = b + y
    BY <1>1, <2>1
  <2>5. T * f[i] >= g[i] * w - i * T
    BY <2>3, <2>4
  <2> QED
    BY <2>4, <2>5
<1> HIDE DEF I
<1>8. n \in I
  <2>1. \A i \in 1 .. n : i - 1 \in I => i \in I
    BY <1>7
  <2> QED
    BY <1>1, <1>6, <2>1, StepsTo
<1>9. T * f[n] >= T * w - n * T
  BY <1>4, <1>8 DEF I, T
<1>10. T * (f[n] + n - w) >= 0
  <2> DEFINE a == f[n]
  <2>1. a \in Int /\ T \in Int /\ n \in Int
    BY <1>2
  <2> HIDE DEF a
  <2>2. T * (a + n - w) = T * a + n * T - T * w
    BY <2>1
  <2>3. T * a \in Int /\ n * T \in Int /\ T * w \in Int
    BY <2>1
  <2>4. T * a >= T * w - n * T
    BY <1>9 DEF a
  <2>5. T * (a + n - w) >= 0
    <3> DEFINE p == T * a
               q == n * T
               r == T * w
    <3>1. T * (a + n - w) = p + q - r /\ p \in Int /\ q \in Int /\ r \in Int /\ p >= r - q
      BY <2>2, <2>3, <2>4
    <3> HIDE DEF p, q, r
    <3>2. p + q - r >= 0
      BY <3>1
    <3> QED
      BY <3>1, <3>2
  <2> QED
    BY <2>5 DEF a
<1>11. f[n] + n - w >= 0
  <2> DEFINE z == f[n] + n - w
  <2>1. z \in Int /\ T * z >= 0
    BY <1>10
  <2> HIDE DEF z
  <2>2. z >= 0
    BY <1>2, <2>1
  <2> QED
    BY <2>2 DEF z
<1>12. f[n] \in Int
  BY <1>3
<1> QED
  BY <1>3, <1>11, <1>12

\* The least a column may be, and its share of the pane.
LEMMA ColumnFact ==
  /\ Len(Columns) \in Nat \ {0} /\ DOMAIN Columns = 1 .. Len(Columns)
  /\ \A i \in 1 .. Len(Columns) : Columns[i].min \in Nat \ {0} /\ Columns[i].flex \in Nat \ {0}
<1> DEFINE Column == [min : Nat \ {0}, flex : Nat \ {0}]
<1>1. Columns \in Seq(Column) /\ Columns # <<>>
  BY TimelineAssumption
<1> HIDE DEF Column
<1>2. Len(Columns) \in Nat \ {0} /\ DOMAIN Columns = 1 .. Len(Columns)
  BY <1>1
<1>3. \A i \in 1 .. Len(Columns) : Columns[i] \in Column
  BY <1>1
<1> QED
  BY <1>2, <1>3 DEF Column

\* The whole part of a share.
LEMMA Floor ==
  ASSUME NEW a \in Int, NEW b \in Nat \ {0}
  PROVE  a \div b \in Int /\ b * (a \div b) <= a /\ a - b < b * (a \div b)
OBVIOUS

\* Widths that are no less than their columns may be, and fill w.
Fit(c, w) ==
  /\ c \in [1 .. Len(Columns) -> Nat \ {0}]
  /\ \A i \in 1 .. Len(Columns) : c[i] >= Columns[i].min
  /\ Added(c) + Len(Columns) >= w

\* A column that takes its share or its least takes its share at least.
LEMMA AtLeastShares ==
  ASSUME NEW part \in [1 .. Len(Columns) -> Nat \ {0}], NEW q \in [1 .. Len(Columns) -> Int],
         NEW w \in Int,
         \A i \in 1 .. Len(Columns) : Added(part) * q[i] >= part[i] * w - Added(part)
  PROVE  Fit([i \in 1 .. Len(Columns) |-> Most(Columns[i].min, q[i])], w)
<1> DEFINE n == Len(Columns)
           c == [i \in 1 .. n |-> Most(Columns[i].min, q[i])]
           T == Added(part)
<1>1. n \in Nat \ {0} /\ \A i \in 1 .. n : Columns[i].min \in Nat \ {0}
  BY ColumnFact
<1>2. T \in Nat \ {0}
  BY <1>1, AddedPositive
<1>3. ASSUME NEW i \in 1 .. n
      PROVE  c[i] \in Nat \ {0} /\ c[i] >= Columns[i].min /\ c[i] >= q[i]
  BY <1>1, <1>3 DEF Most
<1>4. c \in [1 .. n -> Nat \ {0}] /\ c \in [1 .. n -> Int]
  <2>1. c = [i \in 1 .. n |-> c[i]]
    OBVIOUS
  <2> HIDE DEF c
  <2> QED
    BY <1>3, <2>1
<1>5. \A i \in 1 .. n : T * q[i] >= part[i] * w - T /\ q[i] \in Int /\ part[i] \in Int
  OBVIOUS
<1> HIDE DEF n, c, T
<1>6. ASSUME NEW i \in 1 .. n PROVE T * c[i] >= part[i] * w - T
  <2> DEFINE x == c[i]
             y == q[i]
             z == part[i] * w - T
  <2>1. x \in Int /\ y \in Int /\ x >= y
    BY <1>3, <1>5
  <2>2. part[i] * w \in Int /\ T * y >= z
    BY <1>5
  <2>3. z \in Int
    BY <1>2, <2>2
  <2> HIDE DEF x, y, z
  <2>4. x - y \in Nat /\ T \in Nat
    BY <1>2, <2>1
  <2>5. T * (x - y) \in Nat
    BY <2>4
  <2>6. T * (x - y) = T * x - T * y /\ T * x \in Int /\ T * y \in Int
    BY <2>1, <2>4
  <2>7. T * x >= z
    BY <2>2, <2>3, <2>5, <2>6
  <2> QED
    BY <2>7 DEF x, z
<1>7. Added(c) + n >= w
  <2>1. \A i \in 1 .. n : Added(part) * c[i] >= part[i] * w - Added(part)
    BY <1>6 DEF T
  <2> QED
    BY <1>1, <1>4, <2>1, SharesFact DEF n
<1> QED
  BY <1>3, <1>4, <1>7 DEF Fit, n, c

\* computeInitialWidths fills the pane.
LEMMA InitialFit == ASSUME NEW w \in PaneWidths PROVE Fit(InitialWidths(w), w)
<1> DEFINE n == Len(Columns)
           part == [i \in 1 .. n |-> Columns[i].flex]
           T == Added(part)
           q == [i \in 1 .. n |-> (part[i] * w) \div T]
<1>1. n \in Nat \ {0} /\ DOMAIN Columns = 1 .. n /\ part \in [1 .. n -> Nat \ {0}] /\ w \in Int
  BY ColumnFact, TimelineAssumption
<1>2. InitialWidths(w) = [i \in 1 .. n |-> Most(Columns[i].min, q[i])]
  BY <1>1 DEF InitialWidths
<1>3. T \in Nat \ {0}
  BY <1>1, AddedPositive
<1> HIDE DEF part, T
<1>4. ASSUME NEW i \in 1 .. n
      PROVE  (part[i] * w) \div T \in Int /\ T * ((part[i] * w) \div T) >= part[i] * w - T
  <2> DEFINE a == part[i] * w
  <2>1. a \in Int
    <3>1. part[i] \in Int
      BY <1>1
    <3> QED
      BY <1>1, <3>1
  <2> HIDE DEF a
  <2>2. a \div T \in Int /\ a - T < T * (a \div T)
    BY <1>3, <2>1, Floor
  <2>3. T * (a \div T) >= a - T
    <3>1. T * (a \div T) \in Int /\ a - T \in Int
      BY <1>3, <2>1, <2>2
    <3> QED
      BY <2>2, <3>1
  <2> QED
    BY <2>2, <2>3 DEF a
<1>5. q \in [1 .. n -> Int] /\ \A i \in 1 .. n : T * q[i] >= part[i] * w - T
  BY <1>4
<1>6. Fit([i \in 1 .. n |-> Most(Columns[i].min, q[i])], w)
  <2> HIDE DEF q
  <2> QED
    BY <1>1, <1>5, AtLeastShares DEF T
<1> QED
  BY <1>2, <1>6

\* redistributeWidths fills the pane.
LEMMA RedistributeFit ==
  ASSUME NEW u, Fit(cols, u), NEW w \in PaneWidths PROVE Fit(RedistributeWidths(w), w)
<1> DEFINE n == Len(Columns)
           T == Added(cols)
           q == [i \in 1 .. n |-> cols[i] + (cols[i] * (w - T)) \div T]
<1>1. n \in Nat \ {0} /\ cols \in [1 .. n -> Nat \ {0}] /\ w \in Int
      /\ \A i \in 1 .. n : cols[i] >= Columns[i].min
  BY ColumnFact, TimelineAssumption DEF Fit
<1>2. DOMAIN cols = 1 .. n
  BY <1>1
<1>3. T \in Nat \ {0}
  BY <1>1, AddedPositive
<1>4. CASE w = T
  <2>1. RedistributeWidths(w) = cols
    BY <1>4 DEF RedistributeWidths
  <2>2. Added(cols) + n >= w
    BY <1>1, <1>3, <1>4
  <2> QED
    BY <1>1, <2>1, <2>2 DEF Fit
<1>5. CASE w # T
  <2>1. RedistributeWidths(w) = [i \in 1 .. n |-> Most(Columns[i].min, q[i])]
    BY <1>2, <1>5 DEF RedistributeWidths
  <2> HIDE DEF T
  <2>2. ASSUME NEW i \in 1 .. n
        PROVE  /\ cols[i] + (cols[i] * (w - T)) \div T \in Int
               /\ T * (cols[i] + (cols[i] * (w - T)) \div T) >= cols[i] * w - T
    <3> DEFINE c == cols[i]
               a == c * (w - T)
               k == a \div T
    <3>1. c \in Int /\ T \in Int /\ w \in Int
      BY <1>1, <1>3
    <3> HIDE DEF c
    <3>2. a \in Int /\ a = c * w - T * c /\ c * w \in Int /\ T * c \in Int
      BY <3>1
    <3> HIDE DEF a
    <3>3. k \in Int /\ a - T < T * k
      BY <1>3, <3>2, Floor
    <3> HIDE DEF k
    <3>4. T * (c + k) = T * c + T * k /\ T * k \in Int
      BY <3>1, <3>3
    <3>5. T * (c + k) >= c * w - T
      BY <3>1, <3>2, <3>3, <3>4
    <3>6. c + k \in Int
      BY <3>1, <3>3
    <3> QED
      BY <3>5, <3>6 DEF k, a, c
  <2>3. q \in [1 .. n -> Int] /\ \A i \in 1 .. n : T * q[i] >= cols[i] * w - T
    BY <2>2
  <2>4. Fit([i \in 1 .. n |-> Most(Columns[i].min, q[i])], w)
    <3> HIDE DEF q
    <3> QED
      BY <1>1, <2>3, AtLeastShares DEF T
  <2> QED
    BY <2>1, <2>4
<1> QED
  BY <1>4, <1>5

\* What one column gains its neighbour loses.
LEMMA AddedMoved ==
  ASSUME NEW n \in Nat, NEW s \in [1 .. n -> Int], NEW t \in [1 .. n -> Int],
         NEW j \in 1 .. n - 1, t[j] + t[j + 1] = s[j] + s[j + 1],
         \A i \in 1 .. n : i # j /\ i # j + 1 => t[i] = s[i]
  PROVE  Added(t) = Added(s)
<1> DEFINE e == t[j] - s[j]
<1>0. e \in Int /\ t[j] = s[j] + e /\ t[j + 1] = s[j + 1] - e
  <2>1. j \in 1 .. n /\ j + 1 \in 1 .. n
    OBVIOUS
  <2>2. t[j] \in Int /\ s[j] \in Int /\ t[j + 1] \in Int /\ s[j + 1] \in Int
    BY <2>1
  <2> DEFINE a == t[j]
             b == t[j + 1]
             x == s[j]
             y == s[j + 1]
  <2>3. a + b = x + y
    OBVIOUS
  <2>4. a \in Int /\ b \in Int /\ x \in Int /\ y \in Int
    BY <2>2
  <2> HIDE DEF a, b, x, y
  <2>5. a - x \in Int /\ a = x + (a - x) /\ b = y - (a - x)
    BY <2>3, <2>4
  <2> QED
    BY <2>5 DEF a, b, x, y
<1> HIDE DEF e
<1>1. PICK f \in [0 .. n -> Int] : Running(f, s) /\ Added(s) = f[n]
  BY AddedFact
<1>2. PICK g \in [0 .. n -> Int] : Running(g, t) /\ Added(t) = g[n]
  BY AddedFact
<1>3. Len(s) = n /\ Len(t) = n
  OBVIOUS
<1> DEFINE I == {i \in 0 .. n : g[i] = IF i = j THEN f[i] + e ELSE f[i]}
<1>4. 0 \in I
  BY <1>1, <1>2 DEF Running
<1>5. ASSUME NEW i \in 1 .. n, i - 1 \in I PROVE i \in I
  <2>1. g[i] = g[i - 1] + t[i] /\ f[i] = f[i - 1] + s[i]
    BY <1>1, <1>2, <1>3 DEF Running
  <2>2. g[i - 1] = IF i - 1 = j THEN f[i - 1] + e ELSE f[i - 1]
    BY <1>5
  <2>3. f[i - 1] \in Int /\ s[i] \in Int /\ t[i] \in Int
    <3>1. i - 1 \in 0 .. n
      OBVIOUS
    <3> QED
      BY <1>1, <3>1
  <2>4. t[i] = IF i = j THEN s[i] + e ELSE IF i = j + 1 THEN s[i] - e ELSE s[i]
    BY <1>0
  <2>5. g[i] = IF i = j THEN f[i] + e ELSE f[i]
    <3>1. (i - 1 = j <=> i = j + 1) /\ ~(i = j /\ i = j + 1)
      OBVIOUS
    <3> DEFINE a == f[i - 1]
               b == g[i - 1]
               x == s[i]
               y == t[i]
    <3>2. g[i] = b + y /\ f[i] = a + x /\ a \in Int /\ x \in Int
      BY <2>1, <2>3
    <3>3. b = (IF i = j + 1 THEN a + e ELSE a)
      BY <2>2, <3>1
    <3>4. y = IF i = j THEN x + e ELSE IF i = j + 1 THEN x - e ELSE x
      BY <2>4
    <3> HIDE DEF a, b, x, y
    <3>6. CASE i = j
      BY <1>0, <3>1, <3>2, <3>3, <3>4, <3>6
    <3>7. CASE i = j + 1
      BY <1>0, <3>1, <3>2, <3>3, <3>4, <3>7
    <3>8. CASE i # j /\ i # j + 1
      BY <3>2, <3>3, <3>4, <3>8
    <3> QED
      BY <3>6, <3>7, <3>8
  <2> QED
    BY <2>5
<1> HIDE DEF I
<1>6. n \in I
  <2>1. \A i \in 1 .. n : i - 1 \in I => i \in I
    BY <1>5
  <2> QED
    BY <1>4, <2>1, StepsTo
<1>7. g[n] = f[n]
  BY <1>6 DEF I
<1> QED
  BY <1>1, <1>2, <1>7

\* A drag keeps the columns' whole width, and each at its least.
LEMMA ResizeFit ==
  ASSUME NEW u \in Int, Fit(cols, u), NEW i \in Handles, NEW desired \in Int
  PROVE  Fit(ColumnResize(i, desired), u)
<1> DEFINE n == Len(Columns)
           e == Most(Columns[i].min - cols[i],
                     Least(cols[i + 1] - Columns[i + 1].min, desired - cols[i]))
           t == [cols EXCEPT ![i] = @ + e, ![i + 1] = @ - e]
<1>1. /\ n \in Nat \ {0} /\ cols \in [1 .. n -> Nat \ {0}] /\ i \in 1 .. n - 1
      /\ \A k \in 1 .. n : cols[k] >= Columns[k].min /\ Columns[k].min \in Nat \ {0}
  BY ColumnFact DEF Fit, Handles
<1>2. ColumnResize(i, desired) = t
  BY DEF ColumnResize
<1>3. i \in 1 .. n /\ i + 1 \in 1 .. n /\ i # i + 1 /\ DOMAIN cols = 1 .. n
  BY <1>1
<1>4. /\ cols[i] \in Int /\ cols[i + 1] \in Int
      /\ Columns[i].min \in Nat \ {0} /\ Columns[i + 1].min \in Nat \ {0}
      /\ cols[i] >= Columns[i].min /\ cols[i + 1] >= Columns[i + 1].min
  BY <1>1, <1>3
<1>5. e \in Int /\ cols[i] + e >= Columns[i].min /\ cols[i + 1] - e >= Columns[i + 1].min
  BY <1>4 DEF Most, Least
<1> HIDE DEF e
<1>6. /\ DOMAIN t = 1 .. n /\ t[i] = cols[i] + e /\ t[i + 1] = cols[i + 1] - e
      /\ \A k \in 1 .. n : k # i /\ k # i + 1 => t[k] = cols[k]
      /\ t = [k \in 1 .. n |-> t[k]]
  BY <1>3
<1> HIDE DEF t
<1>7. ASSUME NEW k \in 1 .. n PROVE t[k] \in Nat \ {0} /\ t[k] >= Columns[k].min
  <2>1. CASE k = i
    <3> DEFINE x == cols[i] + e
               least == Columns[i].min
    <3>1. t[k] = x /\ least = Columns[k].min
      BY <1>6, <2>1
    <3>2. x \in Int /\ x >= least /\ least \in Nat \ {0}
      BY <1>4, <1>5
    <3> HIDE DEF x, least
    <3>3. x \in Nat \ {0}
      BY <3>2
    <3> QED
      BY <3>1, <3>2, <3>3
  <2>2. CASE k = i + 1
    BY <1>4, <1>5, <1>6, <2>2
  <2>3. CASE k # i /\ k # i + 1
    BY <1>1, <1>6, <2>3
  <2> QED
    BY <2>1, <2>2, <2>3
<1>8. t \in [1 .. n -> Nat \ {0}] /\ t \in [1 .. n -> Int] /\ cols \in [1 .. n -> Int]
  BY <1>1, <1>6, <1>7
<1>9. Added(t) = Added(cols)
  <2> HIDE DEF n
  <2>1. n \in Nat /\ i \in 1 .. n - 1
    BY <1>1
  <2>2. t[i] + t[i + 1] = cols[i] + cols[i + 1]
    BY <1>4, <1>5, <1>6
  <2>3. \A k \in 1 .. n : k # i /\ k # i + 1 => t[k] = cols[k]
    BY <1>6
  <2>4. t \in [1 .. n -> Int] /\ cols \in [1 .. n -> Int]
    BY <1>8
  <2> QED
    BY <2>1, <2>2, <2>3, <2>4, AddedMoved
<1> QED
  BY <1>2, <1>7, <1>8, <1>9 DEF Fit

ColInv ==
  /\ Fit(cols, fitted) /\ pane \in PaneWidths /\ fitted \in PaneWidths
  /\ resizing \subseteq [col: Handles, from: Int]

LEMMA InitColumns == Init => ColInv
BY InitialFit DEF Init, ColInv

LEMMA StepColumns == ColInv /\ [Next]_vars => ColInv'
<1> SUFFICES ASSUME ColInv, [Next]_vars PROVE ColInv'
  OBVIOUS
<1>0. fitted \in Int /\ pane \in PaneWidths /\ Fit(cols, fitted)
  BY TimelineAssumption DEF ColInv
<1>1. CASE UNCHANGED columnVars
  BY <1>1 DEF columnVars, ColInv
<1>2. CASE StartResize
  <2>1. PICK i \in Handles : resizing' = {[col |-> i, from |-> cols[i]]}
    BY <1>2 DEF StartResize
  <2>2. cols[i] \in Int
    BY <1>0, ColumnFact DEF Fit, Handles
  <2>3. resizing' \subseteq [col: Handles, from: Int]
    BY <2>1, <2>2
  <2> QED
    BY <1>2, <2>3 DEF StartResize, ColInv
<1>3. CASE MoveResize
  <2>1. PICK r \in resizing, d \in Drags : cols' = ColumnResize(r.col, r.from + d)
    BY <1>3 DEF MoveResize
  <2>2. r.col \in Handles /\ r.from + d \in Int
    BY TimelineAssumption DEF ColInv
  <2>3. Fit(cols', fitted)
    BY <1>0, <2>1, <2>2, ResizeFit
  <2> QED
    BY <1>3, <2>3 DEF MoveResize, ColInv
<1>4. CASE EndResize
  BY <1>4 DEF EndResize, ColInv
<1>5. CASE HeaderResize
  <2>1. PICK i \in Handles, d \in Drags : cols' = ColumnResize(i, cols[i] + d)
    BY <1>5 DEF HeaderResize
  <2>2. cols[i] + d \in Int
    <3>1. cols[i] \in Int
      BY <1>0, ColumnFact DEF Fit, Handles
    <3>2. d \in Int
      BY TimelineAssumption
    <3> QED
      BY <3>1, <3>2
  <2>3. Fit(cols', fitted)
    BY <1>0, <2>1, <2>2, ResizeFit
  <2> QED
    BY <1>5, <2>3 DEF HeaderResize, ColInv
<1>6. CASE PaneResized
  <2>1. PICK w \in PaneWidths :
          /\ pane' = w /\ cols' = IF resizing = {} THEN RedistributeWidths(w) ELSE cols
          /\ fitted' = IF resizing = {} THEN w ELSE fitted
          /\ resizing' = resizing
    BY <1>6 DEF PaneResized
  <2>2. Fit(cols', fitted')
    BY <1>0, <2>1, RedistributeFit
  <2> QED
    BY <2>1, <2>2 DEF ColInv
<1>7. CASE Remount
  <2>1. cols' = InitialWidths(pane) /\ resizing' = {} /\ fitted' = pane /\ pane' = pane
    BY <1>7 DEF Remount
  <2> QED
    BY <1>0, <2>1, InitialFit DEF ColInv
<1>8. CASE UNCHANGED vars
  BY <1>1, <1>8 DEF vars
<1> QED
  BY <1>1, <1>2, <1>3, <1>4, <1>5, <1>6, <1>7, <1>8 DEF Next, ColumnStep

\* However the pane is stretched and the columns dragged, each keeps its least
\* width and together they fill the pane they were last fitted to
\* (computeInitialWidths, redistributeWidths, applyColumnResize).
THEOREM ColumnsFillPane == Spec => []ColumnsFill
<1>1. Spec => []ColInv
  BY InitColumns, StepColumns, PTL DEF Spec
<1>2. ColInv => ColumnsFill
  <2> SUFFICES ASSUME ColInv PROVE ColumnsFill
    OBVIOUS
  <2> DEFINE n == Len(Columns)
  <2>1. n \in Nat /\ cols \in [1 .. n -> Nat \ {0}] /\ Fit(cols, fitted)
    BY ColumnFact DEF ColInv, Fit
  <2>2. DOMAIN cols = 1 .. n /\ Len(cols) = n
    BY <2>1
  <2> HIDE DEF n
  <2> QED
    BY <2>1, <2>2 DEF ColumnsFill, Fit, n
<1> QED
  BY <1>1, <1>2, PTL
=============================================================================
