---------------------------- MODULE LogsPageProofs ----------------------------
(***************************************************************************)
(* The logs page and the time context under it, for any number of logs,    *)
(* history entries, calls in flight and events: address, window and panel  *)
(* belong together in every state, and list, address and panel agree once  *)
(* nothing is in flight.                                                   *)
(***************************************************************************)
EXTENDS LogsPage, FiniteSetTheorems, WellFoundedInduction, TLAPS

\* Windows in addresses, selections and history entries: what begins does not
\* begin after it ends.
Windows == {w \in [start : Int, end : Int] : w = NoWindow \/ w.start <= w.end}
Selections == {s \in [type : {"preset", "custom", "recent"}, start : Int, end : Int] :
                 s.start <= s.end}
Ids == Items \cup {None}
Entries == [id : Ids, win : Windows]
Used == {r \in [start : Int, end : Int, usedAt : Int] : r.start <= r.end}

\* Recent ranges at time t: each once, the latest first.
RecentAt(s, t) ==
  /\ s \in Seq(Used)
  /\ \A i, j \in 1 .. Len(s) :
       i < j => Window(s[i]) # Window(s[j]) /\ s[i].usedAt >= s[j].usedAt
  /\ \A i \in 1 .. Len(s) : s[i].usedAt <= t

\* What the time context keeps, beside AddressMirrors.
TimeTypes ==
  /\ now \in 0 .. MaxNow
  /\ history \in Seq(Entries) /\ Len(history) <= MaxHistory /\ pos \in 1 .. Len(history)
  /\ selection \in Selections /\ snapshot \in Windows
  /\ stored \in Selections \cup {Unstored}
  /\ RecentAt(recents, now) /\ Len(recents) <= MaxRecent

TimeInv == TimeTypes /\ AddressMirrors

----------------------------------------------------------------------------
(* Recent ranges.                                                          *)

\* c is a and then b.
Joined(c, a, b) ==
  /\ Len(c) = Len(a) + Len(b)
  /\ \A i \in 1 .. Len(a) : c[i] = a[i]
  /\ \A i \in 1 .. Len(b) : c[Len(a) + i] = b[i]

\* Two sequences one after the other.
LEMMA ConcatFact ==
  ASSUME NEW S, NEW a \in Seq(S), NEW b \in Seq(S)
  PROVE  a \o b \in Seq(S) /\ Joined(a \o b, a, b)
  BY DEF Joined

\* c is s with e put in at place n.
Inserted(c, s, n, e) ==
  /\ Len(c) = Len(s) + 1 /\ c[n] = e
  /\ \A i \in 1 .. n - 1 : c[i] = s[i]
  /\ \A i \in n + 1 .. Len(s) + 1 : c[i] = s[i - 1]

\* A sequence with one element more.
LEMMA InsertAtFact ==
  ASSUME NEW S, NEW s \in Seq(S), NEW n \in 1 .. Len(s) + 1, NEW e \in S
  PROVE  InsertAt(s, n, e) \in Seq(S) /\ Inserted(InsertAt(s, n, e), s, n, e)
<1> DEFINE a == SubSeq(s, 1, n - 1)
           b == SubSeq(s, n, Len(s))
           one == <<e>>
           c == a \o one
           d == c \o b
<1>1. /\ a \in Seq(S) /\ Len(a) = n - 1 /\ \A i \in 1 .. n - 1 : a[i] = s[i]
      /\ b \in Seq(S) /\ Len(b) = Len(s) - n + 1
      /\ \A i \in 1 .. Len(s) - n + 1 : b[i] = s[n + i - 1]
  OBVIOUS
<1>2. one \in Seq(S) /\ Len(one) = 1 /\ one[1] = e
  OBVIOUS
<1>3. InsertAt(s, n, e) = d
  BY DEF InsertAt
<1> HIDE DEF a, b, one
<1>4. c \in Seq(S) /\ Joined(c, a, one)
  BY <1>1, <1>2, ConcatFact, Zenon
<1> HIDE DEF c
<1>5. d \in Seq(S) /\ Joined(d, c, b)
  BY <1>1, <1>4, ConcatFact, Zenon
<1> HIDE DEF d
<1>6. /\ Len(c) = n /\ c[n] = e /\ \A i \in 1 .. n - 1 : c[i] = s[i]
  <2>1. Len(c) = n /\ n = Len(a) + 1 /\ 1 \in 1 .. Len(one)
    BY <1>1, <1>2, <1>4 DEF Joined
  <2>2. c[n] = one[1]
    BY <2>1, <1>4 DEF Joined
  <2>3. \A i \in 1 .. n - 1 : c[i] = a[i]
    BY <1>1, <1>4 DEF Joined
  <2> QED
    BY <2>1, <2>2, <2>3, <1>1, <1>2
<1>7. \A i \in 1 .. n : d[i] = c[i]
  BY <1>5, <1>6 DEF Joined
<1>8. Len(d) = Len(s) + 1
  BY <1>1, <1>5, <1>6 DEF Joined
<1>9. ASSUME NEW i \in n + 1 .. Len(s) + 1 PROVE d[i] = s[i - 1]
  <2>1. i - n \in 1 .. Len(b) /\ i = Len(c) + (i - n) /\ n + (i - n) - 1 = i - 1
    BY <1>1, <1>6
  <2>2. d[i] = b[i - n]
    BY <2>1, <1>5 DEF Joined
  <2> QED
    BY <2>1, <2>2, <1>1
<1> QED
  BY <1>3, <1>5, <1>6, <1>7, <1>8, <1>9 DEF Inserted

\* A sequence with one element less.
LEMMA RemoveAtFact ==
  ASSUME NEW S, NEW s \in Seq(S), NEW n \in 1 .. Len(s)
  PROVE  /\ RemoveAt(s, n) \in Seq(S) /\ Len(RemoveAt(s, n)) = Len(s) - 1
         /\ \A i \in 1 .. n - 1 : RemoveAt(s, n)[i] = s[i]
         /\ \A i \in n .. Len(s) - 1 : RemoveAt(s, n)[i] = s[i + 1]
<1> DEFINE a == SubSeq(s, 1, n - 1)
           b == SubSeq(s, n + 1, Len(s))
           d == a \o b
<1>1. /\ a \in Seq(S) /\ Len(a) = n - 1 /\ \A i \in 1 .. n - 1 : a[i] = s[i]
      /\ b \in Seq(S) /\ Len(b) = Len(s) - n
      /\ \A i \in 1 .. Len(s) - n : b[i] = s[n + i]
  OBVIOUS
<1>2. RemoveAt(s, n) = d
  BY DEF RemoveAt
<1> HIDE DEF a, b
<1>3. d \in Seq(S) /\ Joined(d, a, b)
  BY <1>1, ConcatFact, Zenon
<1> HIDE DEF d
<1>4. Len(d) = Len(s) - 1 /\ \A i \in 1 .. n - 1 : d[i] = s[i]
  BY <1>1, <1>3 DEF Joined
<1>5. ASSUME NEW i \in n .. Len(s) - 1 PROVE d[i] = s[i + 1]
  <2>1. i - n + 1 \in 1 .. Len(b) /\ i = Len(a) + (i - n + 1) /\ n + (i - n + 1) = i + 1
    BY <1>1
  <2>2. d[i] = b[i - n + 1]
    BY <2>1, <1>3 DEF Joined
  <2> QED
    BY <2>1, <2>2, <1>1
<1> QED
  BY <1>2, <1>3, <1>4, <1>5

\* Numbers have a least one.
LEMMA Least ==
  ASSUME NEW I, I \subseteq Nat, I # {}
  PROVE  \E m \in I : \A i \in I : m <= i
<1> DEFINE R == {ss \in Nat \X Nat : ss[1] < ss[2]}
<1>1. IsWellFoundedOn(R, Nat)
  BY NatLessThanWellFounded DEF OpToRel
<1> HIDE DEF R
<1>2. PICK m \in I : \A i \in I : ~ (<<i, m>> \in R)
  BY <1>1, WFMin
<1>3. ASSUME NEW i \in I, ~ (<<i, m>> \in R) PROVE m <= i
  BY <1>3 DEF R
<1> QED
  BY <1>2, <1>3

\* findIndex: the first entry that passes, or 0 for none.
LEMMA SelectFact ==
  ASSUME NEW s \in Seq(Used), NEW w
  PROVE  LET n == SelectInSeq(s, LAMBDA r : Window(r) = w)
         IN /\ n \in 0 .. Len(s)
            /\ n = 0 => \A i \in 1 .. Len(s) : Window(s[i]) # w
            /\ n # 0 => Window(s[n]) = w
<1> DEFINE I == {i \in 1 .. Len(s) : Window(s[i]) = w}
<1>1. SelectInSeq(s, LAMBDA r : Window(r) = w) = IF I # {} THEN Min(I) ELSE 0
  BY DEF SelectInSeq
<1>2. ASSUME I # {} PROVE Min(I) \in I
  <2>1. I \subseteq Nat
    OBVIOUS
  <2> HIDE DEF I
  <2>2. \E m \in I : \A i \in I : m <= i
    BY <1>2, <2>1, Least
  <2> QED
    BY <2>2 DEF Min
<1> QED
  BY <1>1, <1>2

\* The latest of recent ranges are recent ranges, and stay so as time passes.
LEMMA RecentPrefix ==
  ASSUME NEW s, NEW t \in Int, RecentAt(s, t), NEW m \in 0 .. Len(s)
  PROVE  RecentAt(SubSeq(s, 1, m), t) /\ Len(SubSeq(s, 1, m)) = m
<1>1. s \in Seq(Used)
  BY DEF RecentAt
<1>2. /\ SubSeq(s, 1, m) \in Seq(Used) /\ Len(SubSeq(s, 1, m)) = m
      /\ \A i \in 1 .. m : SubSeq(s, 1, m)[i] = s[i]
  BY <1>1
<1> DEFINE c == SubSeq(s, 1, m)
<1> HIDE DEF c
<1> QED
  BY <1>2 DEF RecentAt, c

LEMMA RecentLater ==
  ASSUME NEW s, NEW t \in Int, NEW u \in Int, t <= u, RecentAt(s, t)
  PROVE  RecentAt(s, u)
<1>1. \A i \in 1 .. Len(s) : s[i].usedAt \in Int
  BY DEF RecentAt, Used
<1> QED
  BY <1>1 DEF RecentAt

\* A range used now is put before the older ones and after those of this instant.
LEMMA InsertKeeps ==
  ASSUME NEW s, NEW t \in Int, RecentAt(s, t), NEW k \in 1 .. Len(s) + 1,
         \A i \in 1 .. k - 1 : s[i].usedAt = t,
         NEW e \in Used, e.usedAt = t, \A i \in 1 .. Len(s) : Window(s[i]) # Window(e)
  PROVE  RecentAt(InsertAt(s, k, e), t) /\ Len(InsertAt(s, k, e)) = Len(s) + 1
<1> DEFINE c == InsertAt(s, k, e)
<1>1. s \in Seq(Used)
  BY DEF RecentAt
<1>2. c \in Seq(Used) /\ Inserted(c, s, k, e)
  BY <1>1, InsertAtFact
<1> HIDE DEF c
<1>0. Len(s) \in Nat /\ Len(c) = Len(s) + 1
  BY <1>1, <1>2 DEF Inserted
<1>3. \A i \in 1 .. Len(s) : s[i].usedAt \in Int /\ s[i].usedAt <= t
  BY <1>1 DEF RecentAt, Used
<1>4. \A i \in 1 .. Len(c) : c[i].usedAt <= t
  <2> SUFFICES ASSUME NEW i \in 1 .. Len(c) PROVE c[i].usedAt <= t
    OBVIOUS
  <2>1. CASE i < k
    BY <2>1, <1>0, <1>2, <1>3 DEF Inserted
  <2>2. CASE i = k
    BY <2>2, <1>2 DEF Inserted
  <2>3. CASE i > k
    <3>1. c[i] = s[i - 1] /\ i - 1 \in 1 .. Len(s)
      BY <2>3, <1>0, <1>2 DEF Inserted
    <3> QED
      BY <3>1, <1>3
  <2> QED
    BY <2>1, <2>2, <2>3, <1>0
<1>5. ASSUME NEW i \in 1 .. Len(c), NEW j \in 1 .. Len(c), i < j
      PROVE  Window(c[i]) # Window(c[j]) /\ c[i].usedAt >= c[j].usedAt
  <2>1. CASE j < k
    <3>1. c[j] = s[j] /\ c[i] = s[i] /\ {i, j} \subseteq 1 .. Len(s)
      BY <2>1, <1>0, <1>2, <1>5 DEF Inserted
    <3> QED
      BY <3>1, <1>5 DEF RecentAt
  <2>2. CASE j = k
    <3>1. c[j] = e /\ c[i] = s[i] /\ i \in 1 .. k - 1 /\ i \in 1 .. Len(s)
      BY <2>2, <1>0, <1>2, <1>5 DEF Inserted
    <3> QED
      BY <3>1
  <2>3. CASE j > k /\ i = k
    <3>1. c[i] = e /\ c[j] = s[j - 1] /\ j - 1 \in 1 .. Len(s)
      BY <2>3, <1>0, <1>2, <1>5 DEF Inserted
    <3> QED
      BY <3>1, <1>3
  <2>4. CASE j > k /\ i < k
    <3>1. c[j] = s[j - 1] /\ c[i] = s[i] /\ i < j - 1 /\ {i, j - 1} \subseteq 1 .. Len(s)
      BY <2>4, <1>0, <1>2 DEF Inserted
    <3> QED
      BY <3>1 DEF RecentAt
  <2>5. CASE j > k /\ i > k
    <3>1. i \in k + 1 .. Len(s) + 1 /\ j \in k + 1 .. Len(s) + 1
      BY <2>5, <1>0
    <3>2. c[j] = s[j - 1] /\ c[i] = s[i - 1]
      BY <3>1, <1>2 DEF Inserted
    <3>3. i - 1 \in 1 .. Len(s) /\ j - 1 \in 1 .. Len(s) /\ i - 1 < j - 1
      BY <3>1, <1>0, <1>5
    <3> QED
      BY <3>2, <3>3 DEF RecentAt
  <2> QED
    BY <2>1, <2>2, <2>3, <2>4, <2>5, <1>0
<1>6. RecentAt(c, t)
  BY <1>2, <1>4, <1>5 DEF RecentAt
<1> QED
  BY <1>0, <1>6 DEF c

\* Without one of them they are recent ranges still, and that range is gone.
LEMMA RemoveKeeps ==
  ASSUME NEW s, NEW t \in Int, RecentAt(s, t), NEW n \in 1 .. Len(s)
  PROVE  /\ RecentAt(RemoveAt(s, n), t) /\ Len(RemoveAt(s, n)) = Len(s) - 1
         /\ \A i \in 1 .. n - 1 : RemoveAt(s, n)[i] = s[i]
         /\ \A i \in 1 .. Len(RemoveAt(s, n)) : Window(RemoveAt(s, n)[i]) # Window(s[n])
<1> DEFINE c == RemoveAt(s, n)
           at(i) == IF i < n THEN i ELSE i + 1
<1>1. s \in Seq(Used)
  BY DEF RecentAt
<1>2. /\ c \in Seq(Used) /\ Len(c) = Len(s) - 1
      /\ \A i \in 1 .. n - 1 : c[i] = s[i]
      /\ \A i \in n .. Len(s) - 1 : c[i] = s[i + 1]
  BY <1>1, RemoveAtFact
<1> HIDE DEF c
<1>3. \A i \in 1 .. Len(c) : c[i] = s[at(i)] /\ at(i) \in 1 .. Len(s) /\ at(i) # n
  BY <1>1, <1>2
<1>4. \A i, j \in 1 .. Len(c) : i < j => at(i) < at(j)
  BY <1>2
<1> HIDE DEF at
<1>5. \A i \in 1 .. Len(c) : Window(c[i]) # Window(s[n]) /\ c[i].usedAt <= t
  <2> SUFFICES ASSUME NEW i \in 1 .. Len(c)
               PROVE  Window(c[i]) # Window(s[n]) /\ c[i].usedAt <= t
    OBVIOUS
  <2>1. at(i) < n \/ n < at(i)
    BY <1>3
  <2> QED
    BY <2>1, <1>3 DEF RecentAt
<1>6. \A i, j \in 1 .. Len(c) :
        i < j => Window(c[i]) # Window(c[j]) /\ c[i].usedAt >= c[j].usedAt
  BY <1>3, <1>4 DEF RecentAt
<1>7. RecentAt(c, t)
  BY <1>2, <1>5, <1>6 DEF RecentAt
<1> QED
  BY <1>2, <1>5, <1>7 DEF c

\* The ranges of instant t come first.
LEMMA FirstOfInstant ==
  ASSUME NEW s, NEW t \in Int, RecentAt(s, t), NEW at \in 1 .. Len(s)
  PROVE  LET n == Cardinality({i \in 1 .. at - 1 : s[i].usedAt = t})
         IN n \in 0 .. at - 1 /\ \A j \in 1 .. n : s[j].usedAt = t
<1> DEFINE I == {i \in 1 .. at - 1 : s[i].usedAt = t}
           n == Cardinality(I)
<1>0. s \in Seq(Used)
  BY DEF RecentAt
<1>1. \A k \in 0 .. at - 1 : IsFiniteSet(1 .. k) /\ Cardinality(1 .. k) = k
  BY FS_Interval, <1>0
<1>2. \A k \in 0 .. at - 1 : I \subseteq 1 .. k => n \in 0 .. k
  BY <1>1, FS_Subset, FS_CardinalityType
<1>3. n \in 0 .. at - 1
  BY <1>2, <1>0
<1>4. ASSUME NEW j \in 1 .. n, s[j].usedAt # t PROVE FALSE
  <2>0. j \in 1 .. at - 1 /\ j - 1 \in 0 .. at - 1
    BY <1>3, <1>0
  <2>1. ASSUME NEW i \in I, i >= j PROVE FALSE
    <3>1. i \in 1 .. Len(s) /\ j \in 1 .. Len(s) /\ s[i].usedAt = t
      BY <1>0, <2>0
    <3>2. s[i].usedAt \in Int /\ s[j].usedAt \in Int /\ s[j].usedAt <= t
      <4>1. s[i] \in Used /\ s[j] \in Used
        BY <3>1, <1>0
      <4> QED
        BY <4>1, <3>1 DEF RecentAt, Used
    <3>3. j < i => s[j].usedAt >= s[i].usedAt
      BY <3>1 DEF RecentAt
    <3> QED
      BY <2>0, <3>1, <3>2, <3>3, <2>1, <1>4
  <2>2. I \subseteq 1 .. j - 1
    BY <2>1, <2>0
  <2>3. n \in 0 .. j - 1
    BY <2>0, <2>2, <1>2
  <2> QED
    BY <2>3, <2>0
<1> QED
  BY <1>3, <1>4

\* A window used at t is recorded among the recent ranges, which keep their
\* order, name each window once and stay few.
LEMMA RecordKeeps ==
  ASSUME NEW t \in Int, RecentAt(recents, t),
         NEW w \in [start : Int, end : Int], w.start <= w.end
  PROVE  RecentAt(Record(w, t), t) /\ Len(Record(w, t)) <= MaxRecent
<1> DEFINE at   == SelectInSeq(recents, LAMBDA r : Window(r) = w)
           rest == IF at = 0 THEN recents ELSE RemoveAt(recents, at)
           n    == Cardinality({i \in 1 .. at - 1 : recents[i].usedAt = t})
           e    == [start |-> w.start, end |-> w.end, usedAt |-> t]
           k    == n + 1
           all  == InsertAt(rest, k, e)
           m    == IF Len(all) < MaxRecent THEN Len(all) ELSE MaxRecent
<1>0. Record(w, t) = SubSeq(all, 1, m)
  BY DEF Record
<1>1. recents \in Seq(Used)
  BY DEF RecentAt
<1>2. /\ at \in 0 .. Len(recents)
      /\ at = 0 => \A i \in 1 .. Len(recents) : Window(recents[i]) # w
      /\ at # 0 => Window(recents[at]) = w
  BY <1>1, SelectFact DEF SelectInSeq
<1> HIDE DEF at
<1>3. e \in Used /\ e.usedAt = t /\ Window(e) = w
  BY DEF Used, Window
<1>4. /\ RecentAt(rest, t) /\ n \in 0 .. Len(rest) /\ \A i \in 1 .. n : rest[i].usedAt = t
      /\ \A i \in 1 .. Len(rest) : Window(rest[i]) # w
  <2>1. CASE at = 0
    <3>1. 1 .. at - 1 = {}
      BY <2>1
    <3>2. n = 0
      BY <3>1, FS_EmptySet
    <3> QED
      BY <2>1, <3>2, <1>1, <1>2
  <2>2. CASE at # 0
    <3>1. at \in 1 .. Len(recents) /\ rest = RemoveAt(recents, at)
      BY <2>2, <1>2
    <3>2. n \in 0 .. at - 1 /\ \A j \in 1 .. n : recents[j].usedAt = t
      BY <3>1, FirstOfInstant
    <3> HIDE DEF n
    <3>3. /\ RecentAt(rest, t) /\ Len(rest) = Len(recents) - 1
          /\ \A i \in 1 .. at - 1 : rest[i] = recents[i]
          /\ \A i \in 1 .. Len(rest) : Window(rest[i]) # Window(recents[at])
      BY <3>1, RemoveKeeps
    <3> HIDE DEF rest
    <3> QED
      BY <3>1, <3>2, <3>3, <1>1, <1>2
  <2> QED
    BY <2>1, <2>2
<1>5. k \in 1 .. Len(rest) + 1 /\ \A i \in 1 .. k - 1 : rest[i].usedAt = t
  <2> HIDE DEF n, rest
  <2>1. Len(rest) \in Nat
    BY <1>4 DEF RecentAt
  <2> QED
    BY <1>4, <2>1
<1> HIDE DEF n, e, rest, k
<1>6. RecentAt(all, t) /\ Len(all) \in Nat
  <2>1. RecentAt(all, t)
    BY <1>3, <1>4, <1>5, InsertKeeps
  <2> QED
    BY <2>1 DEF RecentAt
<1> HIDE DEF all
<1>7. m \in 0 .. Len(all) /\ m <= MaxRecent
  BY <1>6, TimeContextAssumption
<1> HIDE DEF m
<1>8. RecentAt(SubSeq(all, 1, m), t) /\ Len(SubSeq(all, 1, m)) = m
  BY <1>6, <1>7, RecentPrefix
<1> QED
  BY <1>0, <1>7, <1>8

----------------------------------------------------------------------------
(* The time context.                                                       *)

\* The entry the router moves to, whose window it adopts when it is a new one.
LEMMA RoutedKeeps ==
  ASSUME TimeInv, NEW h \in Seq(Entries), NEW p \in 1 .. Len(h), Len(h) <= MaxHistory,
         Routed(h, p)
  PROVE  /\ TimeInv' /\ Selected' = h[p].id /\ now' = now
         /\ h[p].win \in {NoWindow, snapshot} => selection' = selection
<1> DEFINE w == h[p].win
<1>1. h[p] \in Entries
  OBVIOUS
<1>2. w \in Windows
  BY <1>1 DEF Entries
<1>3. /\ history' = h /\ pos' = p /\ history'[pos'].win = w
      /\ selection' = IF w \in {NoWindow, snapshot} THEN selection ELSE Custom(w)
      /\ snapshot' = IF w = NoWindow THEN snapshot ELSE w
      /\ stored' = stored /\ recents' = recents /\ now' = now
  BY DEF Routed, Adopt
<1> HIDE DEF w
<1>4. w # NoWindow => Custom(w) \in Selections /\ Window(Custom(w)) = w
                      /\ Custom(w).end = w.end /\ Custom(w).start = w.start
  BY <1>2 DEF Windows, Custom, Window, Selections
<1>5. TimeTypes'
  BY <1>2, <1>3, <1>4 DEF TimeInv, TimeTypes, RecentAt, Window
<1>6. AddressMirrors'
  <2>1. CASE w \in {NoWindow, snapshot}
    <3>1. selection' = selection /\ snapshot' = snapshot
      BY <2>1, <1>3
    <3> QED
      BY <2>1, <3>1, <1>3 DEF TimeInv, AddressMirrors, Window
  <2>2. CASE w \notin {NoWindow, snapshot}
    <3>1. selection' = Custom(w) /\ snapshot' = w
      BY <2>2, <1>3
    <3> QED
      BY <2>2, <3>1, <1>3, <1>4 DEF AddressMirrors, Window
  <2> QED
    BY <2>1, <2>2
<1> QED
  BY <1>3, <1>5, <1>6 DEF TimeInv, Selected, w

\* An entry is replaced by another.
LEMMA ExceptFact ==
  ASSUME NEW S, NEW s \in Seq(S), NEW p \in 1 .. Len(s), NEW e \in S
  PROVE  [s EXCEPT ![p] = e] \in Seq(S) /\ Len([s EXCEPT ![p] = e]) = Len(s)
         /\ [s EXCEPT ![p] = e][p] = e
  OBVIOUS

LEMMA EntryFact ==
  ASSUME NEW e \in Entries, NEW id \in Ids, NEW w \in Windows
  PROVE  /\ [e EXCEPT !.id = id] \in Entries
         /\ [e EXCEPT !.id = id].id = id /\ [e EXCEPT !.id = id].win = e.win
         /\ [e EXCEPT !.win = w] \in Entries
         /\ [e EXCEPT !.win = w].id = e.id /\ [e EXCEPT !.win = w].win = w
  BY DEF Entries

LEMMA EntryHeld ==
  ASSUME TimeInv, NEW p \in 1 .. Len(history)
  PROVE  history[p] \in Entries /\ history[p].id \in Ids /\ history[p].win \in Windows
<1>1. history \in Seq(Entries)
  BY DEF TimeInv, TimeTypes
<1>2. history[p] \in Entries
  BY <1>1
<1> QED
  BY <1>2 DEF Entries

\* The item of an entry is replaced.
LEMMA EntryPut ==
  ASSUME TimeInv, NEW p \in 1 .. Len(history), NEW id \in Ids
  PROVE  LET h == [history EXCEPT ![p].id = id]
         IN h \in Seq(Entries) /\ Len(h) = Len(history) /\ h[p].id = id
            /\ h[p].win = history[p].win
<1> DEFINE e == [history[p] EXCEPT !.id = id]
<1>1. history \in Seq(Entries)
  BY DEF TimeInv, TimeTypes
<1>2. history[p] \in Entries
  BY <1>1
<1>3. NoWindow \in Windows
  BY DEF NoWindow, Windows
<1>4. e \in Entries /\ e.id = id /\ e.win = history[p].win
  BY <1>2, <1>3, EntryFact
<1> HIDE DEF e
<1>5. /\ [history EXCEPT ![p] = e] \in Seq(Entries)
      /\ Len([history EXCEPT ![p] = e]) = Len(history)
      /\ [history EXCEPT ![p] = e][p] = e
  BY <1>1, <1>4, ExceptFact
<1>6. [history EXCEPT ![p].id = id] = [history EXCEPT ![p] = e]
  BY DEF e
<1> QED
  BY <1>4, <1>5, <1>6

\* The address names another item; the window stays.
LEMMA PutKeeps ==
  ASSUME TimeInv, NEW id \in Ids, Routed(Put(id), pos)
  PROVE  TimeInv' /\ Selected' = id /\ selection' = selection /\ now' = now
<1> DEFINE h == Put(id)
<1>1. pos \in 1 .. Len(history) /\ Len(history) <= MaxHistory
  BY DEF TimeInv, TimeTypes
<1>2. h \in Seq(Entries) /\ Len(h) = Len(history) /\ h[pos].id = id
      /\ h[pos].win = history[pos].win
  BY <1>1, EntryPut DEF Put
<1>3. history[pos].win \in {NoWindow, snapshot}
  BY DEF TimeInv, AddressMirrors
<1> HIDE DEF h
<1>4. Routed(h, pos) /\ pos \in 1 .. Len(h) /\ Len(h) <= MaxHistory
  BY <1>1, <1>2 DEF h
<1> QED
  BY <1>2, <1>3, <1>4, RoutedKeeps

\* navigateToItem: a new entry with the window of the current one.
LEMMA PushKeeps ==
  ASSUME TimeInv, NEW id \in Ids, Push(id)
  PROVE  TimeInv' /\ Selected' = id /\ selection' = selection /\ now' = now
<1> DEFINE e == [history[pos] EXCEPT !.id = id]
           a == SubSeq(history, 1, pos)
           h == Append(a, e)
           p == pos + 1
<1>1. /\ history \in Seq(Entries) /\ pos \in 1 .. Len(history) /\ pos < MaxHistory
      /\ MaxHistory \in Nat
  BY TimeContextAssumption DEF TimeInv, TimeTypes, Push
<1>2. e \in Entries /\ e.id = id /\ e.win = history[pos].win
  <2>1. history[pos] \in Entries /\ NoWindow \in Windows
    BY <1>1 DEF NoWindow, Windows
  <2> QED
    BY <2>1, EntryFact
<1>3. a \in Seq(Entries) /\ Len(a) = pos
  BY <1>1
<1>4. history[pos].win \in {NoWindow, snapshot}
  BY DEF TimeInv, AddressMirrors
<1>5. Routed(h, p)
  BY DEF Push
<1> HIDE DEF e, a
<1>6. h \in Seq(Entries) /\ Len(h) = p /\ h[p] = e /\ p \in 1 .. Len(h) /\ Len(h) <= MaxHistory
  BY <1>1, <1>2, <1>3
<1> HIDE DEF h, p
<1> QED
  BY <1>2, <1>4, <1>5, <1>6, RoutedKeeps

\* Back or forward to an entry.
LEMMA TraverseKeeps ==
  ASSUME TimeInv, NEW id \in Ids, NEW p \in 1 .. Len(history), Traverse(p, id)
  PROVE  TimeInv' /\ Selected' = id /\ now' = now
<1> DEFINE h == [history EXCEPT ![p].id = id]
<1>1. Len(history) <= MaxHistory
  BY DEF TimeInv, TimeTypes
<1>2. h \in Seq(Entries) /\ Len(h) = Len(history) /\ h[p].id = id
  BY EntryPut
<1>3. Routed(h, p)
  BY DEF Traverse
<1> HIDE DEF h
<1> QED
  BY <1>1, <1>2, <1>3, RoutedKeeps

\* A selection is taken, kept and written to the address at most a moment later.
LEMMA SetSelectionKeeps ==
  ASSUME TimeInv, NEW sel \in Selections, NEW lag \in {0, 1}, SetSelection(sel, lag)
  PROVE  TimeInv' /\ Selected' = Selected /\ selection' = sel
<1> DEFINE t == now + lag
           w == QueryRange(sel, t)
           e == [history[pos] EXCEPT !.win = w]
           h == [history EXCEPT ![pos] = e]
<1>1. now \in Nat /\ t \in 0 .. MaxNow /\ now <= t
  BY TimeContextAssumption DEF SetSelection, TimeInv, TimeTypes
<1>2. /\ selection' = sel /\ stored' = sel /\ recents' = Record(Window(sel), now)
      /\ snapshot' = w /\ history' = h /\ now' = t /\ pos' = pos
  <2>1. [history EXCEPT ![pos].win = w] = h
    OBVIOUS
  <2> QED
    BY <2>1 DEF SetSelection, SyncUrl
<1> HIDE DEF t
<1>3. /\ w \in Windows /\ w.end - w.start = sel.end - sel.start
      /\ sel.type # "preset" => w = Window(sel)
  BY <1>1 DEF QueryRange, Windows, Selections, Window
<1> HIDE DEF w
<1>4. history \in Seq(Entries) /\ pos \in 1 .. Len(history) /\ Len(history) <= MaxHistory
  BY DEF TimeInv, TimeTypes
<1>5. h \in Seq(Entries) /\ Len(h) = Len(history) /\ h[pos].win = w /\ h[pos].id = history[pos].id
  <2>1. history[pos] \in Entries
    BY <1>4
  <2>2. e \in Entries /\ e.win = w /\ e.id = history[pos].id
    <3>1. None \in Ids
      BY DEF Ids
    <3> QED
      BY <2>1, <3>1, <1>3, EntryFact
  <2> HIDE DEF e
  <2>3. h \in Seq(Entries) /\ Len(h) = Len(history) /\ h[pos] = e
    BY <1>4, <2>2, ExceptFact
  <2> QED
    BY <2>2, <2>3
<1> HIDE DEF h
<1>6. RecentAt(recents', now') /\ Len(recents') <= MaxRecent
  <2>1. Window(sel) \in [start : Int, end : Int] /\ Window(sel).start <= Window(sel).end
    BY DEF Window, Selections
  <2>2. RecentAt(Record(Window(sel), now), now) /\ Len(Record(Window(sel), now)) <= MaxRecent
    BY <1>1, <2>1, RecordKeeps DEF TimeInv, TimeTypes
  <2>3. RecentAt(Record(Window(sel), now), t)
    BY <1>1, <2>2, RecentLater
  <2> QED
    BY <1>2, <2>2, <2>3
<1>7. TimeTypes'
  BY <1>1, <1>2, <1>3, <1>4, <1>5, <1>6 DEF TimeTypes, RecentAt, Window
<1>8. AddressMirrors'
  BY <1>2, <1>3, <1>4, <1>5 DEF AddressMirrors, Window
<1> QED
  BY <1>2, <1>4, <1>5, <1>7, <1>8 DEF TimeInv, Selected

\* A picker: a preset, a range of the reader's own or a recent one.
LEMMA PickKeeps ==
  ASSUME TimeInv, ApplyPreset \/ ApplyCustom \/ ApplyRecent
  PROVE  TimeInv' /\ Selected' = Selected
<1>1. now \in Nat /\ recents \in Seq(Used)
  BY TimeContextAssumption DEF TimeInv, TimeTypes, RecentAt
<1>2. CASE ApplyPreset
  <2>1. PICK lag \in {0, 1}, start \in {0} \cup {now - d : d \in Durations} :
          start >= 0 /\ SetSelection([type |-> "preset", start |-> start, end |-> now], lag)
    BY <1>2 DEF ApplyPreset
  <2>2. Durations \subseteq Nat
    BY TimeContextAssumption
  <2>3. [type |-> "preset", start |-> start, end |-> now] \in Selections
    BY <1>1, <2>1, <2>2 DEF Selections
  <2> QED
    BY <2>1, <2>3, SetSelectionKeeps
<1>3. CASE ApplyCustom
  <2>1. PICK end \in 1 .. now, start \in 0 .. now :
          start <= end /\ SetSelection(Custom([start |-> start, end |-> end]), 0)
    <3>1. PICK end \in 1 .. now : \E start \in 0 .. end - 1 :
            SetSelection(Custom([start |-> start, end |-> end]), 0)
      BY <1>3 DEF ApplyCustom
    <3>2. PICK start \in 0 .. end - 1 : SetSelection(Custom([start |-> start, end |-> end]), 0)
      BY <3>1
    <3>3. start \in 0 .. now /\ start <= end
      BY <1>1
    <3> QED
      BY <3>2, <3>3
  <2>2. Custom([start |-> start, end |-> end]) \in Selections
    BY <1>1, <2>1 DEF Custom, Selections
  <2> QED
    BY <2>1, <2>2, SetSelectionKeeps
<1>4. CASE ApplyRecent
  <2>1. PICK r \in ToSet(recents) :
          SetSelection([type |-> "recent", start |-> r.start, end |-> r.end], 0)
    BY <1>4 DEF ApplyRecent
  <2>2. r \in Used
    BY <1>1, <2>1 DEF ToSet
  <2>3. [type |-> "recent", start |-> r.start, end |-> r.end] \in Selections
    BY <2>2 DEF Used, Selections
  <2> QED
    BY <2>1, <2>3, SetSelectionKeeps
<1> QED
  BY <1>2, <1>3, <1>4

\* The stored selection, or all time until now.
LEMMA OpenedFact ==
  ASSUME TimeTypes, NEW w \in Windows
  PROVE  /\ Opened(w) \in Selections
         /\ w # NoWindow => /\ Opened(w).end - Opened(w).start = w.end - w.start
                            /\ Window(Opened(w)) = w
<1>1. now \in Nat
  BY TimeContextAssumption DEF TimeTypes
<1>2. CASE w = NoWindow
  <2>1. Opened(w) = IF stored = Unstored THEN [type |-> "preset", start |-> 0, end |-> now]
                    ELSE stored
    BY <1>2 DEF Opened, LoadTimeSelection
  <2>2. [type |-> "preset", start |-> 0, end |-> now] \in Selections
    BY <1>1 DEF Selections
  <2> QED
    BY <1>2, <2>1, <2>2 DEF TimeTypes
<1>3. CASE w # NoWindow
  BY <1>3 DEF Opened, Custom, Window, Windows, Selections
<1> QED
  BY <1>2, <1>3

\* The page is loaded again: the address is what it was.
LEMMA ReloadKeeps ==
  ASSUME TimeInv, Reload
  PROVE  TimeInv' /\ Selected' = Selected
<1> DEFINE w == history[pos].win
<1>1. w \in Windows
  <2>1. pos \in 1 .. Len(history)
    BY DEF TimeInv, TimeTypes
  <2> QED
    BY <2>1, EntryHeld
<1>2. selection' = Opened(w) /\ snapshot' = w /\ history'[pos'].win = w
  BY DEF Reload
<1>3. /\ history' = history /\ pos' = pos /\ stored' = stored /\ recents' = recents
      /\ now' = now
  BY DEF Reload
<1> HIDE DEF w
<1>4. /\ Opened(w) \in Selections
      /\ w # NoWindow => /\ Opened(w).end - Opened(w).start = w.end - w.start
                         /\ Window(Opened(w)) = w
  BY <1>1, OpenedFact DEF TimeInv
<1>5. TimeTypes'
  BY <1>1, <1>2, <1>3, <1>4 DEF TimeInv, TimeTypes, RecentAt, Window
<1>6. AddressMirrors'
  BY <1>2, <1>4 DEF AddressMirrors, Window
<1> QED
  BY <1>3, <1>5, <1>6 DEF TimeInv, Selected

LEMMA TickKeeps ==
  ASSUME TimeInv, Tick
  PROVE  TimeInv' /\ Selected' = Selected /\ selection' = selection
<1>1. /\ history' = history /\ pos' = pos /\ stored' = stored /\ recents' = recents
      /\ snapshot' = snapshot /\ selection' = selection /\ now' = now + 1 /\ now < MaxNow
  BY DEF Tick
<1>2. now \in 0 .. MaxNow /\ now + 1 \in 0 .. MaxNow
  BY <1>1, TimeContextAssumption DEF TimeInv, TimeTypes
<1>3. RecentAt(recents, now + 1)
  BY <1>2, RecentLater DEF TimeInv, TimeTypes
<1>4. TimeTypes'
  BY <1>1, <1>2, <1>3 DEF TimeInv, TimeTypes, RecentAt, Window
<1>5. AddressMirrors'
  BY <1>1 DEF TimeInv, AddressMirrors, Window
<1> QED
  BY <1>1, <1>4, <1>5 DEF TimeInv, Selected

\* The page is opened on its own or by a link.
LEMMA TimeStarts ==
  ASSUME TimeInit
  PROVE  TimeInv
<1>1. PICK id \in Ids :
        LET w == IF id = None THEN NoWindow ELSE [start |-> 0, end |-> now]
        IN history = <<[id |-> id, win |-> w]>> /\ snapshot = w /\ selection = Opened(w)
  BY DEF TimeInit, Ids
<1> DEFINE w == IF id = None THEN NoWindow ELSE [start |-> 0, end |-> now]
           e == [id |-> id, win |-> w]
<1>2. now \in 0 .. MaxNow /\ 1 <= MaxHistory /\ 0 <= MaxRecent /\ now = MaxNow - 1
  BY TimeContextAssumption DEF TimeInit
<1>3. w \in Windows
  BY <1>2 DEF Windows, NoWindow
<1>4. pos = 1 /\ stored = Unstored /\ recents = <<>>
  BY DEF TimeInit
<1> HIDE DEF w
<1>5. e \in Entries /\ e.win = w
  BY <1>3 DEF Entries
<1> HIDE DEF e
<1>6. history = <<e>> /\ snapshot = w /\ selection = Opened(w)
  BY <1>1 DEF e, w
<1>7. history \in Seq(Entries) /\ Len(history) = 1 /\ history[pos] = e
  BY <1>4, <1>5, <1>6
<1>8. RecentAt(recents, now) /\ Len(recents) = 0
  BY <1>4 DEF RecentAt
<1>9. Opened(w) \in Selections
  BY <1>2, <1>3, <1>4 DEF Opened, LoadTimeSelection, Custom, Selections, Windows
<1>10. TimeTypes
  BY <1>2, <1>3, <1>4, <1>6, <1>7, <1>8, <1>9 DEF TimeTypes
<1>11. AddressMirrors
  BY <1>3, <1>5, <1>6, <1>7, <1>10, OpenedFact DEF AddressMirrors
<1> QED
  BY <1>10, <1>11 DEF TimeInv

\* What the runs check of the types follows.
LEMMA TimeInvTypes ==
  ASSUME TimeInv
  PROVE  TimeTypeOK /\ Selected \in Ids
<1>1. /\ history \in Seq(Entries) /\ pos \in 1 .. Len(history) /\ selection \in Selections
      /\ Len(history) <= MaxHistory /\ Len(recents) <= MaxRecent
  BY DEF TimeInv, TimeTypes
<1>2. \A e \in ToSet(history) : e.id \in Ids
  BY <1>1, EntryHeld DEF ToSet
<1>3. history[pos].id \in Ids
  BY <1>1, EntryHeld
<1>4. \A i, j \in 1 .. Len(recents) :
        i < j => Window(recents[i]) # Window(recents[j]) /\ recents[i].usedAt >= recents[j].usedAt
  BY DEF TimeInv, TimeTypes, RecentAt
<1> QED
  BY <1>1, <1>2, <1>3, <1>4 DEF TimeTypeOK, Selections, Selected, Ids

----------------------------------------------------------------------------
(* The list.                                                               *)

Lists == [items : SUBSET Items, loading : BOOLEAN, failed : BOOLEAN,
          for : Selections \cup {Unstored}, desc : BOOLEAN]
Fetches == [seq : Nat, for : Selections, items : SUBSET Items]
Details == [key : Ids, data : Ids, loading : BOOLEAN, error : BOOLEAN, timer : BOOLEAN]

\* What a list that is not loading shows as selected: an item of its own, or
\* nothing when it has none.
Fits(l, id) == IF l.items = {} THEN id = None ELSE id \in l.items

LEMMA ListFacts ==
  ASSUME NEW l \in Lists
  PROVE  /\ IsFiniteSet(l.items) /\ Cardinality(l.items) \in Nat
         /\ l.items \subseteq Nat /\ l.items \subseteq Ids /\ None \notin l.items
         /\ l.items # {} => Cardinality(l.items) >= 1
<1>1. l.items \subseteq Items
  BY DEF Lists
<1>2. IsFiniteSet(l.items) /\ Cardinality(l.items) \in Nat
  BY <1>1, TimeContextAssumption, FS_Subset, FS_CardinalityType
<1>3. l.items # {} => Cardinality(l.items) # 0
  BY <1>2, FS_EmptySet
<1>4. l.items # {} => Cardinality(l.items) >= 1
  BY <1>2, <1>3
<1>5. l.items \subseteq Nat /\ l.items \subseteq Ids /\ None \notin l.items
  BY <1>1, TimeContextAssumption DEF Ids, None
<1> QED
  BY <1>2, <1>4, <1>5

\* The place of a listed item is one of the list's places.
LEMMA IndexInRange ==
  ASSUME NEW l \in Lists, NEW a \in l.items
  PROVE  Index(l, a) \in 0 .. Cardinality(l.items) - 1
<1> DEFINE B == {i \in l.items : Before(l, i, a)}
<1>1. IsFiniteSet(l.items) /\ l.items \subseteq Nat /\ Cardinality(l.items) \in Nat
  BY ListFacts
<1>2. IsFiniteSet(l.items \ {a}) /\ Cardinality(l.items \ {a}) = Cardinality(l.items) - 1
  BY <1>1, FS_RemoveElement
<1>3. B \in SUBSET (l.items \ {a})
  BY <1>1 DEF Before
<1>4. IsFiniteSet(B) /\ Cardinality(B) <= Cardinality(l.items \ {a})
  BY <1>2, <1>3, FS_Subset
<1>5. Cardinality(B) \in Nat
  BY <1>4, FS_CardinalityType
<1> QED
  BY <1>1, <1>2, <1>4, <1>5 DEF Index

\* Items after one another have different places.
LEMMA IndexDiffers ==
  ASSUME NEW l \in Lists, NEW a \in l.items, NEW b \in l.items, Before(l, a, b)
  PROVE  Index(l, a) # Index(l, b)
<1> DEFINE B(x) == {i \in l.items : Before(l, i, x)}
<1>1. l.items \subseteq Nat /\ IsFiniteSet(l.items)
  BY ListFacts
<1>2. IsFiniteSet(B(b))
  BY <1>1, FS_Subset
<1>3. /\ \A i \in l.items : Before(l, i, a) => Before(l, i, b)
      /\ ~Before(l, a, a)
  BY <1>1 DEF Before
<1>4. B(a) \subseteq B(b) /\ a \in B(b) /\ a \notin B(a)
  BY <1>3
<1>5. Cardinality(B(b)) = Cardinality(B(a)) => B(b) = B(a)
  BY <1>2, <1>4, FS_Subset
<1> QED
  BY <1>4, <1>5 DEF Index

\* There is an item at every place of the list.
LEMMA AtListed ==
  ASSUME NEW l \in Lists, NEW n \in 0 .. Cardinality(l.items) - 1
  PROVE  At(l, n) \in l.items
<1> DEFINE S == l.items
           P == 0 .. Cardinality(S) - 1
           f == [a \in S |-> Index(l, a)]
<1>1. Cardinality(S) \in Nat /\ S \subseteq Nat /\ IsFiniteSet(S)
  BY ListFacts
<1>2. IsFiniteSet(P) /\ Cardinality(P) = Cardinality(S)
  BY <1>1, FS_Interval
<1>3. f \in [S -> P]
  BY IndexInRange
<1>4. \A a, b \in S : f[a] = f[b] => a = b
  <2> SUFFICES ASSUME NEW a \in S, NEW b \in S, a # b
               PROVE  f[a] # f[b]
    OBVIOUS
  <2>1. Before(l, a, b) \/ Before(l, b, a)
    BY <1>1 DEF Before
  <2> QED
    BY <2>1, IndexDiffers
<1>5. f \in Injection(S, P)
  BY <1>3, <1>4 DEF Injection, IsInjective
<1>6. f \in Surjection(S, P)
  BY <1>1, <1>2, <1>5, FS_Injection
<1>7. \E a \in S : Index(l, a) = n
  BY <1>6 DEF Surjection
<1> QED
  BY <1>7 DEF At

\* The reselect effect: an item of a list that is not loading, or nothing; the
\* item itself when it is one or while the list is loading.
LEMMA ReselectFact ==
  ASSUME NEW l \in Lists, NEW id \in Ids, last \in Nat
  PROVE  /\ Reselect(l, id) \in Ids
         /\ ~l.loading => Fits(l, Reselect(l, id))
         /\ l.loading \/ Fits(l, id) => Reselect(l, id) = id
<1>1. /\ IsFiniteSet(l.items) /\ Cardinality(l.items) \in Nat
      /\ l.items \subseteq Ids /\ None \notin l.items
      /\ l.items # {} => Cardinality(l.items) >= 1
  BY ListFacts
<1>2. ASSUME l.items # {} PROVE Fallback(l) \in l.items
  <2> DEFINE top == Cardinality(l.items) - 1
             n   == IF last < top THEN last ELSE top
  <2>1. n \in 0 .. top
    BY <1>1, <1>2
  <2> HIDE DEF n
  <2>2. At(l, n) \in l.items
    BY <2>1, AtListed
  <2> QED
    BY <2>2 DEF Fallback, n
<1>3. None \in Ids
  BY DEF Ids
<1> QED
  BY <1>1, <1>2, <1>3 DEF Reselect, Fits

----------------------------------------------------------------------------
(* The invariant.                                                          *)

PageTypes ==
  /\ server \in SUBSET Items /\ deletes \in SUBSET Items
  /\ list \in Lists /\ last \in Nat /\ detail \in Details /\ \A g \in gets : g.key \in Ids
  /\ seq \in Nat /\ fetches \in SUBSET Fetches /\ \A f \in fetches : f.seq <= seq

\* A loading list has its fetch in flight; the latest fetch is for the window
\* selected, and so is a list that arrived.
Newest ==
  /\ list.loading => \E f \in fetches : f.seq = seq
  /\ \A f \in fetches : f.seq = seq => f.for = selection
  /\ ~list.loading /\ ~list.failed => list.for = selection

\* The panel is for the item of the address, which a list that is not loading shows.
Listed ==
  /\ ~list.loading => Fits(list, Selected)
  /\ detail.key = Selected

\* The panel has its item or an error, or is about to ask, or has asked.
Promised ==
  detail.key # None =>
    \/ detail.timer \/ detail.data = detail.key \/ detail.error
    \/ \E g \in gets : g.key = detail.key

PageInv == TimeInv /\ PageTypes /\ Newest /\ Listed /\ DetailMatchesKey /\ Promised

\* The detail fetcher after a flush.
LEMMA FlushKeeps ==
  ASSUME PageTypes, DetailMatchesKey, Promised, gets' = gets,
         NEW l \in Lists, NEW id \in Ids, Flush(l, id)
  PROVE  /\ list' = l /\ last' \in Nat /\ detail' \in Details
         /\ detail'.key = Reselect(l, id) /\ DetailMatchesKey' /\ Promised'
<1> DEFINE to == Reselect(l, id)
<1>1. to \in Ids
  BY ReselectFact DEF PageTypes
<1>2. list' = l /\ last' = LastIndex(l, to) /\ detail' = Key(to)
  BY DEF Flush
<1> HIDE DEF to
<1>3. last' \in Nat
  <2>1. CASE l.loading \/ to \notin l.items
    BY <2>1, <1>2 DEF LastIndex, PageTypes
  <2>2. CASE ~l.loading /\ to \in l.items
    <3>1. Index(l, to) \in 0 .. Cardinality(l.items) - 1
      BY <2>2, IndexInRange
    <3> QED
      BY <2>2, <3>1, <1>2, ListFacts DEF LastIndex
  <2> QED
    BY <2>1, <2>2
<1>4. detail \in Details /\ None \in Ids
  BY DEF PageTypes, Ids
<1>5. detail' \in Details /\ detail'.key = to /\ DetailMatchesKey' /\ Promised'
  <2>1. CASE to = detail.key
    BY <2>1, <1>2, <1>4 DEF Key, DetailMatchesKey, Promised
  <2>2. CASE to # detail.key /\ to = None
    BY <2>2, <1>2, <1>4 DEF Key, Cleared, Details, DetailMatchesKey, Promised
  <2>3. CASE to # detail.key /\ to # None
    BY <2>3, <1>1, <1>2, <1>4 DEF Key, Details, DetailMatchesKey, Promised
  <2> QED
    BY <2>1, <2>2, <2>3
<1> QED
  BY <1>2, <1>3, <1>5 DEF to

\* A fetch begun is the latest, for the window now selected.
LEMMA BeginKeeps ==
  ASSUME PageTypes, selection' \in Selections, NEW logs \in SUBSET Items, Begin(logs)
  PROVE  /\ seq' \in Nat /\ fetches' \in SUBSET Fetches /\ \A f \in fetches' : f.seq <= seq'
         /\ \E f \in fetches' : f.seq = seq'
         /\ \A f \in fetches' : f.seq = seq' => f.for = selection'
<1> DEFINE new == Fetch(seq + 1, selection', now', logs)
<1>1. seq \in Nat /\ fetches \in SUBSET Fetches /\ \A f \in fetches : f.seq \in Nat /\ f.seq <= seq
  BY DEF PageTypes, Fetches
<1>2. new \in Fetches /\ new.seq = seq + 1 /\ new.for = selection'
  BY <1>1 DEF Fetch, Fetches
<1>3. seq' = seq + 1 /\ fetches' = fetches \cup {new}
  BY DEF Begin
<1> HIDE DEF new
<1> QED
  BY <1>1, <1>2, <1>3

----------------------------------------------------------------------------
(* The steps.                                                              *)

LEMMA PageStarts ==
  ASSUME Init
  PROVE  PageInv
<1>1. TimeInv /\ Selected \in Ids
  BY TimeStarts, TimeInvTypes DEF Init
<1>2. selection \in Selections
  BY <1>1 DEF TimeInv, TimeTypes
<1>3. server \in SUBSET Items
  BY DEF Init
<1>4. list = FirstList /\ last = 0 /\ seq = 1 /\ fetches = {Fetch(1, selection, now, server)}
      /\ detail = Fresh(Selected) /\ gets = {} /\ deletes = {}
  BY DEF Init
<1>5. /\ Fetch(1, selection, now, server) \in Fetches
      /\ Fetch(1, selection, now, server).seq = 1
      /\ Fetch(1, selection, now, server).for = selection
  BY <1>2, <1>3 DEF Fetch, Fetches
<1>6. list \in Lists /\ list.loading
  BY <1>4 DEF FirstList, Lists
<1>7. /\ detail \in Details /\ detail.key = Selected /\ detail.data = None
      /\ detail.timer \/ detail.key = None
  BY <1>1, <1>4 DEF Fresh, Cleared, Details, Ids
<1>8. PageTypes
  BY <1>3, <1>4, <1>5, <1>6, <1>7 DEF PageTypes
<1>9. Newest
  BY <1>4, <1>5, <1>6 DEF Newest
<1> QED
  BY <1>1, <1>6, <1>7, <1>8, <1>9 DEF PageInv, Listed, DetailMatchesKey, Promised

\* A step that fetches the list: what comes is for the window of the new state.
LEMMA FetchStep ==
  ASSUME PageInv, TimeInv', server' \in SUBSET Items, deletes' \in SUBSET Items, gets' = gets,
         NEW logs \in SUBSET Items, Begin(logs),
         NEW id \in Ids, Flush(Loading(list), id), Selected' = id
  PROVE  PageInv'
<1> DEFINE l == Loading(list)
<1>1. l \in Lists /\ l.loading
  BY DEF Loading, Lists, PageInv, PageTypes
<1> HIDE DEF l
<1>2. Flush(l, id)
  BY DEF l
<1>3. Reselect(l, id) = id
  BY <1>1, ReselectFact DEF PageInv, PageTypes
<1>4. /\ list' = l /\ last' \in Nat /\ detail' \in Details /\ detail'.key = id
      /\ DetailMatchesKey' /\ Promised'
  BY <1>1, <1>2, <1>3, FlushKeeps DEF PageInv
<1>5. selection' \in Selections
  BY DEF TimeInv, TimeTypes
<1>6. /\ seq' \in Nat /\ fetches' \in SUBSET Fetches /\ \A f \in fetches' : f.seq <= seq'
      /\ \E f \in fetches' : f.seq = seq'
      /\ \A f \in fetches' : f.seq = seq' => f.for = selection'
  BY <1>5, BeginKeeps DEF PageInv
<1>7. PageTypes'
  BY <1>1, <1>4, <1>6 DEF PageInv, PageTypes
<1>8. Newest' /\ Listed'
  BY <1>1, <1>4, <1>6 DEF Newest, Listed
<1> QED
  BY <1>4, <1>7, <1>8 DEF PageInv

\* A step that keeps the list, or turns it round.
LEMMA ListStep ==
  ASSUME PageInv, TimeInv', selection' = selection, UNCHANGED <<seq, fetches>>, Quiet,
         NEW l \in Lists, l.items = list.items, l.loading = list.loading,
         l.failed = list.failed, l.for = list.for,
         NEW id \in Ids, Flush(l, id), Selected' = Reselect(l, id)
  PROVE  PageInv'
<1>1. server' = server /\ gets' = gets /\ deletes' = deletes /\ seq' = seq /\ fetches' = fetches
  BY DEF Quiet
<1>2. ~l.loading => Fits(l, Reselect(l, id))
  BY ReselectFact DEF PageInv, PageTypes
<1>3. /\ list' = l /\ last' \in Nat /\ detail' \in Details /\ detail'.key = Reselect(l, id)
      /\ DetailMatchesKey' /\ Promised'
  BY <1>1, FlushKeeps DEF PageInv
<1>4. PageTypes'
  BY <1>1, <1>3 DEF PageInv, PageTypes
<1>5. Newest'
  BY <1>1, <1>3 DEF PageInv, Newest
<1>6. Listed'
  BY <1>2, <1>3 DEF Listed
<1> QED
  BY <1>3, <1>4, <1>5, <1>6 DEF PageInv

\* A step that leaves the page alone, apart from the store, the badge, the
\* deletes and the clock.
LEMMA AsideStep ==
  ASSUME PageInv, TimeInv', Selected' = Selected, selection' = selection,
         server' \in SUBSET Items, deletes' \in SUBSET Items,
         UNCHANGED <<list, last, seq, fetches, detail, gets>>
  PROVE  PageInv'
<1>1. /\ list' = list /\ last' = last /\ seq' = seq /\ fetches' = fetches /\ detail' = detail
      /\ gets' = gets
  OBVIOUS
<1>2. PageTypes'
  BY <1>1 DEF PageInv, PageTypes
<1>3. Newest' /\ Listed' /\ DetailMatchesKey' /\ Promised'
  BY <1>1 DEF PageInv, Newest, Listed, DetailMatchesKey, Promised
<1> QED
  BY <1>2, <1>3 DEF PageInv

\* Nothing of the time context changes.
LEMMA TimeStill ==
  ASSUME PageInv, UNCHANGED timeVars
  PROVE  TimeInv' /\ Selected' = Selected /\ selection' = selection
<1>1. /\ history' = history /\ pos' = pos /\ selection' = selection /\ snapshot' = snapshot
      /\ stored' = stored /\ recents' = recents /\ now' = now
  BY DEF timeVars
<1>2. TimeTypes'
  BY <1>1 DEF PageInv, TimeInv, TimeTypes, RecentAt, Window
<1>3. AddressMirrors'
  BY <1>1 DEF PageInv, TimeInv, AddressMirrors, Window
<1> QED
  BY <1>1, <1>2, <1>3 DEF TimeInv, Selected

\* What the pieces of the invariant say of the list and the item selected.
LEMMA PageFacts ==
  ASSUME PageInv
  PROVE  /\ TimeInv /\ Selected \in Ids /\ list \in Lists /\ last \in Nat
         /\ server \in SUBSET Items /\ deletes \in SUBSET Items
         /\ list.items \subseteq Ids /\ None \in Ids
         /\ ~list.loading => Fits(list, Selected)
         /\ \A i \in 1 .. Len(history) : history[i].id \in Ids
         /\ pos \in 1 .. Len(history) /\ Len(history) \in Nat
<1>1. TimeInv /\ PageTypes /\ Listed
  BY DEF PageInv
<1>2. history \in Seq(Entries) /\ pos \in 1 .. Len(history)
  BY <1>1 DEF TimeInv, TimeTypes
<1> QED
  BY <1>1, <1>2, TimeInvTypes, EntryHeld, ListFacts DEF PageTypes, Listed, Ids

LEMMA PickStep ==
  ASSUME PageInv, Pick
  PROVE  PageInv'
<1>1. TimeInv' /\ Selected' = Selected
  BY PickKeeps, PageFacts DEF Pick
<1>2. /\ Begin(server) /\ Flush(Loading(list), Selected)
      /\ server' = server /\ gets' = gets /\ deletes' = deletes
  BY DEF Pick, Quiet
<1>3. Selected \in Ids /\ server \in SUBSET Items /\ deletes \in SUBSET Items
  BY PageFacts
<1> QED
  BY <1>1, <1>2, <1>3, FetchStep

\* Back and forward: with another window the list is fetched for it; with the
\* same one the entry is given an item of the list.
LEMMA TravelStep ==
  ASSUME PageInv, Travel
  PROVE  PageInv'
<1>1. PICK p \in {pos - 1, pos + 1} \cap 1 .. Len(history) :
        LET id == Reselect(list, history[p].id) IN
        /\ Traverse(p, id)
        /\ IF selection' # selection THEN Begin(server) ELSE UNCHANGED <<seq, fetches>>
        /\ Flush(IF selection' # selection THEN Loading(list) ELSE list, id)
  BY DEF Travel
<1> DEFINE id == Reselect(list, history[p].id)
<1>2. /\ Traverse(p, id) /\ Quiet
      /\ IF selection' # selection THEN Begin(server) ELSE UNCHANGED <<seq, fetches>>
      /\ Flush(IF selection' # selection THEN Loading(list) ELSE list, id)
  BY <1>1 DEF Travel
<1>3. p \in 1 .. Len(history) /\ history[p].id \in Ids
  BY PageFacts
<1>4. id \in Ids /\ (~list.loading => Fits(list, id))
  BY <1>3, PageFacts, ReselectFact
<1> HIDE DEF id
<1>5. TimeInv' /\ Selected' = id
  BY <1>2, <1>3, <1>4, PageFacts, TraverseKeeps
<1>6. CASE selection' # selection
  <2>1. Begin(server) /\ Flush(Loading(list), id)
    BY <1>2, <1>6
  <2>2. server' = server /\ gets' = gets /\ deletes' = deletes
    BY <1>2 DEF Quiet
  <2> QED
    BY <2>1, <2>2, <1>4, <1>5, PageFacts, FetchStep
<1>7. CASE selection' = selection
  <2>1. Flush(list, id) /\ UNCHANGED <<seq, fetches>>
    BY <1>2, <1>7
  <2>2. Reselect(list, id) = id
    BY <1>4, PageFacts, ReselectFact
  <2> QED
    BY <2>1, <2>2, <1>2, <1>4, <1>5, <1>7, PageFacts, ListStep
<1> QED
  BY <1>6, <1>7

\* An item of the list is fitting.
LEMMA ItemFits ==
  ASSUME PageInv, NEW id \in list.items
  PROVE  id \in Ids /\ Reselect(list, id) = id
<1>1. Fits(list, id)
  BY DEF Fits
<1> QED
  BY <1>1, PageFacts, ReselectFact

LEMMA SelectStep ==
  ASSUME PageInv, SelectItem
  PROVE  PageInv'
<1>1. PICK id \in list.items : Push(id) /\ Flush(list, id)
  BY DEF SelectItem
<1>2. UNCHANGED <<seq, fetches>> /\ Quiet
  BY DEF SelectItem
<1>3. id \in Ids /\ Reselect(list, id) = id
  BY ItemFits
<1>4. TimeInv' /\ Selected' = id /\ selection' = selection
  BY <1>1, <1>3, PageFacts, PushKeeps
<1> QED
  BY <1>1, <1>2, <1>3, <1>4, PageFacts, ListStep

LEMMA OffsetStep ==
  ASSUME PageInv, SelectByOffset
  PROVE  PageInv'
<1>1. PICK i \in {Index(list, Selected) - 1, Index(list, Selected) + 1}
                    \cap 0 .. Cardinality(list.items) - 1 :
        Routed(Put(At(list, i)), pos) /\ Flush(list, At(list, i))
  BY DEF SelectByOffset
<1>2. UNCHANGED <<seq, fetches>> /\ Quiet
  BY DEF SelectByOffset
<1> DEFINE id == At(list, i)
<1>3. id \in list.items
  BY PageFacts, AtListed
<1>4. Routed(Put(id), pos) /\ Flush(list, id)
  BY <1>1
<1> HIDE DEF id
<1>5. id \in Ids /\ Reselect(list, id) = id
  BY <1>3, ItemFits
<1>6. TimeInv' /\ Selected' = id /\ selection' = selection
  BY <1>4, <1>5, PageFacts, PutKeeps
<1> QED
  BY <1>2, <1>4, <1>5, <1>6, PageFacts, ListStep

\* The list turned round: the item selected is still one of it.
LEMMA SortStep ==
  ASSUME PageInv, HandleSortChange
  PROVE  PageInv'
<1> DEFINE l == [list EXCEPT !.desc = ~@]
<1>1. Flush(l, Selected) /\ UNCHANGED <<seq, fetches>> /\ UNCHANGED timeVars /\ Quiet
  BY DEF HandleSortChange, timeVars
<1>2. l \in Lists /\ l.items = list.items /\ l.loading = list.loading
      /\ l.failed = list.failed /\ l.for = list.for
  BY PageFacts DEF Lists
<1> HIDE DEF l
<1>3. TimeInv' /\ Selected' = Selected /\ selection' = selection
  BY <1>1, TimeStill
<1>4. l.loading \/ Fits(l, Selected)
  BY <1>2, PageFacts DEF Fits
<1>5. Reselect(l, Selected) = Selected
  BY <1>2, <1>4, PageFacts, ReselectFact
<1> QED
  BY <1>1, <1>2, <1>3, <1>5, PageFacts, ListStep

LEMMA RefreshStep ==
  ASSUME PageInv, HandleRefresh
  PROVE  PageInv'
<1>1. /\ UNCHANGED timeVars /\ Begin(server) /\ Flush(Loading(list), Selected)
      /\ server' = server /\ gets' = gets /\ deletes' = deletes
  BY DEF HandleRefresh, Quiet
<1>2. TimeInv' /\ Selected' = Selected
  BY <1>1, TimeStill
<1> QED
  BY <1>1, <1>2, PageFacts, FetchStep

LEMMA ReloadStep ==
  ASSUME PageInv, ReloadPage
  PROVE  PageInv'
<1>1. TimeInv' /\ Selected' = Selected
  BY PageFacts, ReloadKeeps DEF ReloadPage
<1>2. selection' \in Selections
  BY <1>1 DEF TimeInv, TimeTypes
<1>3. /\ list' = FirstList /\ last' = 0 /\ seq' = 1
      /\ fetches' = {Fetch(1, selection', now, server)}
      /\ detail' = Fresh(Selected) /\ gets' = {} /\ deletes' = {} /\ server' = server
  BY DEF ReloadPage
<1>4. /\ Fetch(1, selection', now, server) \in Fetches
      /\ Fetch(1, selection', now, server).seq = 1
      /\ Fetch(1, selection', now, server).for = selection'
  BY <1>2, PageFacts DEF Fetch, Fetches
<1>5. list' \in Lists /\ list'.loading
  BY <1>3 DEF FirstList, Lists
<1>6. /\ detail' \in Details /\ detail'.key = Selected /\ detail'.data = None
      /\ detail'.timer \/ detail'.key = None
  BY <1>3, PageFacts DEF Fresh, Cleared, Details
<1>7. PageTypes'
  BY <1>3, <1>4, <1>5, <1>6, PageFacts DEF PageTypes
<1>8. Newest'
  BY <1>3, <1>4, <1>5 DEF Newest
<1> QED
  BY <1>1, <1>5, <1>6, <1>7, <1>8 DEF PageInv, Listed, DetailMatchesKey, Promised

\* The clock, the store, the badge and the start and the end of a delete.
LEMMA AsideSteps ==
  ASSUME PageInv, Ingest \/ PassTime \/ Delete \/ Poll \/ \E l \in deletes : DeleteFails(l)
  PROVE  PageInv'
<1>1. UNCHANGED <<list, last, seq, fetches, detail, gets>>
  BY DEF Ingest, PassTime, Delete, Poll, DeleteFails
<1>2. TimeInv' /\ Selected' = Selected /\ selection' = selection
  <2>1. CASE PassTime
    BY <2>1, PageFacts, TickKeeps DEF PassTime
  <2>2. CASE ~PassTime
    <3>1. UNCHANGED timeVars
      BY <2>2 DEF Ingest, Delete, Poll, DeleteFails
    <3> QED
      BY <3>1, TimeStill
  <2> QED
    BY <2>1, <2>2
<1>3. server' \in SUBSET Items /\ deletes' \in SUBSET Items
  BY PageFacts DEF Ingest, PassTime, Delete, Poll, DeleteFails, Ids
<1> QED
  BY <1>1, <1>2, <1>3, AsideStep

\* An answer to the latest fetch is applied: the address is given an item of the
\* list it leaves.
LEMMA ApplyStep ==
  ASSUME PageInv, NEW f \in fetches, f.seq = seq, fetches' = fetches \ {f},
         NEW l \in Lists, ~l.loading, l.failed \/ l.for = selection, Apply(l),
         server' = server, seq' = seq, gets' = gets, deletes' = deletes
  PROVE  PageInv'
<1> DEFINE to == Reselect(l, Selected)
<1>1. to \in Ids /\ Fits(l, to)
  BY PageFacts, ReselectFact
<1>2. Routed(Put(to), pos) /\ Flush(l, Selected)
  BY DEF Apply
<1> HIDE DEF to
<1>3. TimeInv' /\ Selected' = to /\ selection' = selection
  BY <1>1, <1>2, PageFacts, PutKeeps
<1>4. /\ list' = l /\ last' \in Nat /\ detail' \in Details /\ detail'.key = to
      /\ DetailMatchesKey' /\ Promised'
  BY <1>2, PageFacts, FlushKeeps DEF PageInv, to
<1>5. PageTypes'
  BY <1>4 DEF PageInv, PageTypes
<1>6. Newest'
  BY <1>3, <1>4 DEF PageInv, Newest
<1>7. Listed'
  BY <1>1, <1>3, <1>4 DEF Listed
<1> QED
  BY <1>3, <1>4, <1>5, <1>6, <1>7 DEF PageInv

\* An answer to an earlier fetch is put aside.
LEMMA StaleStep ==
  ASSUME PageInv, NEW f \in fetches, f.seq # seq, fetches' = fetches \ {f},
         UNCHANGED <<timeVars, list, last, detail>>,
         server' = server, seq' = seq, gets' = gets, deletes' = deletes
  PROVE  PageInv'
<1>1. TimeInv' /\ Selected' = Selected /\ selection' = selection
  BY TimeStill
<1>2. list' = list /\ last' = last /\ detail' = detail
  OBVIOUS
<1>3. PageTypes'
  BY <1>2 DEF PageInv, PageTypes
<1>4. Newest'
  BY <1>1, <1>2 DEF PageInv, Newest
<1> QED
  BY <1>1, <1>2, <1>3, <1>4 DEF PageInv, Listed, DetailMatchesKey, Promised

LEMMA FetchReturnsStep ==
  ASSUME PageInv, NEW f \in fetches, FetchReturns(f)
  PROVE  PageInv'
<1> DEFINE l == [list EXCEPT !.items = f.items, !.for = f.for, !.loading = FALSE]
<1>1. /\ fetches' = fetches \ {f} /\ server' = server /\ seq' = seq /\ gets' = gets
      /\ deletes' = deletes
      /\ IF f.seq = seq THEN Apply(l) ELSE UNCHANGED <<timeVars, list, last, detail>>
  BY DEF FetchReturns, Latest
<1>2. CASE f.seq = seq
  <2>1. f \in Fetches /\ f.for = selection
    BY <1>2 DEF PageInv, PageTypes, Newest
  <2>2. l \in Lists /\ ~l.loading /\ l.for = selection
    BY <2>1, PageFacts DEF Lists, Fetches
  <2> HIDE DEF l
  <2> QED
    BY <1>1, <1>2, <2>2, ApplyStep
<1>3. CASE f.seq # seq
  BY <1>1, <1>3, StaleStep
<1> QED
  BY <1>2, <1>3

LEMMA FetchFailsStep ==
  ASSUME PageInv, NEW f \in fetches, FetchFails(f)
  PROVE  PageInv'
<1> DEFINE l == [list EXCEPT !.failed = TRUE, !.loading = FALSE]
<1>1. /\ fetches' = fetches \ {f} /\ server' = server /\ seq' = seq /\ gets' = gets
      /\ deletes' = deletes
      /\ IF f.seq = seq THEN Apply(l) ELSE UNCHANGED <<timeVars, list, last, detail>>
  BY DEF FetchFails, Latest
<1>2. CASE f.seq = seq
  <2>1. l \in Lists /\ ~l.loading /\ l.failed
    BY PageFacts DEF Lists
  <2> HIDE DEF l
  <2> QED
    BY <1>1, <1>2, <2>1, ApplyStep
<1>3. CASE f.seq # seq
  BY <1>1, <1>3, StaleStep
<1> QED
  BY <1>2, <1>3

\* A step of the detail fetcher alone.
LEMMA DetailStep ==
  ASSUME PageInv, detail' \in Details, detail'.key = detail.key, \A g \in gets' : g.key \in Ids,
         DetailMatchesKey', Promised',
         UNCHANGED <<timeVars, server, list, last, seq, fetches, deletes>>
  PROVE  PageInv'
<1>1. TimeInv' /\ Selected' = Selected /\ selection' = selection
  BY TimeStill
<1>2. /\ server' = server /\ list' = list /\ last' = last /\ seq' = seq
      /\ fetches' = fetches /\ deletes' = deletes
  OBVIOUS
<1>3. PageTypes'
  BY <1>2 DEF PageInv, PageTypes
<1> QED
  BY <1>1, <1>2, <1>3 DEF PageInv, Newest, Listed

LEMMA TimerStep ==
  ASSUME PageInv, TimerFires
  PROVE  PageInv'
<1>1. /\ detail \in Details /\ \A g \in gets : g.key \in Ids
      /\ DetailMatchesKey
  BY DEF PageInv, PageTypes
<1>2. /\ detail' = [detail EXCEPT !.timer = FALSE]
      /\ gets' = gets \cup {[key |-> detail.key, found |-> detail.key \in server]}
      /\ UNCHANGED <<timeVars, server, list, last, seq, fetches, deletes>>
  BY DEF TimerFires
<1>3. detail' \in Details /\ detail'.key = detail.key
  BY <1>1, <1>2 DEF Details
<1>4. \A g \in gets' : g.key \in Ids
  BY <1>1, <1>2 DEF Details
<1>5. DetailMatchesKey'
  BY <1>1, <1>2 DEF DetailMatchesKey, Details
<1>6. Promised'
  BY <1>2, <1>3 DEF Promised
<1> QED
  BY <1>2, <1>3, <1>4, <1>5, <1>6, DetailStep

\* An answer for another key is put aside; the one for this key is its end.
LEMMA GetStep ==
  ASSUME PageInv, NEW g \in gets, GetReturns(g)
  PROVE  PageInv'
<1>1. /\ detail \in Details /\ \A h \in gets : h.key \in Ids
      /\ DetailMatchesKey /\ Promised /\ None \in Ids
  BY DEF PageInv, PageTypes, Ids
<1>2. PICK ok \in BOOLEAN :
        detail' = IF ~Current(g) THEN detail
                  ELSE [detail EXCEPT !.loading = FALSE, !.data = IF ok THEN g.key ELSE None,
                                      !.error = ~ok \/ @]
  <2>1. PICK ok \in {g.found, FALSE} :
          detail' = IF ~Current(g) THEN detail
                    ELSE [detail EXCEPT !.loading = FALSE, !.data = IF ok THEN g.key ELSE None,
                                        !.error = ~ok \/ @]
    BY DEF GetReturns
  <2>2. CASE ok = FALSE
    BY <2>1, <2>2
  <2>3. CASE ok = g.found
    BY <2>1, <2>3
  <2> QED
    BY <2>1, <2>2, <2>3
<1>3. /\ gets' = gets \ {g}
      /\ UNCHANGED <<timeVars, server, list, last, seq, fetches, deletes>>
  BY DEF GetReturns
<1>4. \A h \in gets' : h.key \in Ids
  BY <1>1, <1>3
<1>5. CASE g.key # detail.key
  <2>1. detail' = detail
    BY <1>2, <1>5 DEF Current
  <2>2. DetailMatchesKey' /\ Promised'
    BY <2>1, <1>1, <1>3, <1>5 DEF DetailMatchesKey, Promised
  <2> QED
    BY <2>1, <2>2, <1>1, <1>3, <1>4, DetailStep
<1>6. CASE g.key = detail.key
  <2>1. /\ detail' \in Details /\ detail'.key = detail.key
        /\ detail'.data = IF ok THEN detail.key ELSE None
        /\ ok \/ detail'.error
    BY <1>1, <1>2, <1>6 DEF Current, Details
  <2>2. DetailMatchesKey' /\ Promised'
    BY <2>1 DEF DetailMatchesKey, Promised
  <2> QED
    BY <2>1, <2>2, <1>3, <1>4, DetailStep
<1> QED
  BY <1>5, <1>6

LEMMA DeleteStep ==
  ASSUME PageInv, NEW d \in deletes, DeleteReturns(d)
  PROVE  PageInv'
<1> DEFINE id == IF Selected = d THEN None ELSE Selected
<1>1. /\ Routed(Put(id), pos) /\ Begin(server \ {d}) /\ Flush(Loading(list), id)
      /\ server' = server \ {d} /\ deletes' = deletes \ {d} /\ gets' = gets
  BY DEF DeleteReturns
<1>2. id \in Ids
  BY PageFacts
<1> HIDE DEF id
<1>3. TimeInv' /\ Selected' = id
  BY <1>1, <1>2, PageFacts, PutKeeps
<1>4. /\ server' \in SUBSET Items /\ deletes' \in SUBSET Items
      /\ server \ {d} \in SUBSET Items
  BY <1>1, PageFacts
<1> QED
  BY <1>1, <1>2, <1>3, <1>4, FetchStep

----------------------------------------------------------------------------
(* The theorems.                                                           *)

\* The invariant holds in every state of every run.
THEOREM PageInvariant == Spec => []PageInv
<1>1. Init => PageInv
  BY PageStarts
<1>2. ASSUME PageInv, [Next]_vars PROVE PageInv'
  <2>1. CASE Next
    <3>1. CASE Event
      BY <1>2, <3>1, PickStep, TravelStep, SelectStep, OffsetStep, SortStep, RefreshStep,
         ReloadStep, AsideSteps DEF Event
    <3>2. CASE Answer
      BY <1>2, <3>2, FetchReturnsStep, FetchFailsStep, TimerStep, GetStep, DeleteStep,
         AsideSteps DEF Answer
    <3> QED
      BY <2>1, <3>1, <3>2 DEF Next
  <2>2. CASE UNCHANGED vars
    <3>1. UNCHANGED timeVars /\ UNCHANGED <<list, last, seq, fetches, detail, gets>>
          /\ server' = server /\ deletes' = deletes
      BY <2>2 DEF vars, pageVars
    <3> QED
      BY <3>1, <1>2, TimeStill, PageFacts, AsideStep
  <2> QED
    BY <1>2, <2>1, <2>2
<1> QED
  BY <1>1, <1>2, PTL DEF Spec

\* Address, window and panel belong together in every state, answers still out
\* included: the address carries the window on screen, and a panel that is not
\* loading shows the log the address names, an error or nothing.
THEOREM LogsPageConsistent == Spec => []PageConsistent
<1>1. ASSUME PageInv PROVE PageConsistent
  <2>1. TimeTypeOK
    BY <1>1, TimeInvTypes DEF PageInv
  <2>2. TypeOK
    BY <1>1, <2>1 DEF TypeOK, PageInv, PageTypes, Lists, Details, Ids
  <2> QED
    BY <1>1, <2>2 DEF PageConsistent, PageInv, TimeInv
<1> QED
  BY <1>1, PageInvariant, PTL

\* With no call in flight the list is the one of the window selected, the address
\* names an item of it, and the panel has that item or an error.
THEOREM LogsPageRestsConsistent == Spec => []RestIsConsistent
<1>1. ASSUME PageInv PROVE RestIsConsistent
  BY <1>1 DEF RestIsConsistent, Idle, PageInv, PageTypes, Newest, Listed, Fits, Promised
<1> QED
  BY <1>1, PageInvariant, PTL
=============================================================================
