--------------------------- MODULE MainWindowProofs ---------------------------
(*****************************************************************************)
(* The main window, for every set of rows, requests and settings.            *)
(*****************************************************************************)
EXTENDS MainWindow, OperatorProofs

-------------------------------------------------------------------------------
(* Scores of a row.                                                          *)

\* The greatest of 0 and finitely many integers.
LEMMA GreatestOf ==
    ASSUME NEW n \in Nat, NEW f \in [1..n -> Int],
           NEW S, S = {0} \union {f[i] : i \in 1..n}
    PROVE  /\ Greatest(S) \in S /\ Greatest(S) \in Int
           /\ \A k \in S : k <= Greatest(S)
  <1> DEFINE T == {f[i] : i \in 1..n}
             g == [i \in 1..n |-> f[i]]
  <1>1. g \in Surjection(1..n, T)
    BY DEF Surjection
  <1>2. IsFiniteSet(1..n)
    BY FS_Interval
  <1>3. IsFiniteSet(T)
    BY <1>1, <1>2, FS_Surjection
  <1>4. IsFiniteSet(T \union {0})
    BY <1>3, FS_AddElement
  <1>5. IsFiniteSet(S)
    <2>1. S = T \union {0}
      OBVIOUS
    <2> QED BY <1>4, <2>1
  <1>6. S # {} /\ \A k \in S : k \in Int
    OBVIOUS
  <1>7. \E m \in S : \A k \in S : k <= m
    BY <1>5, <1>6, HasGreatest
  <1> QED BY <1>6, <1>7 DEF Greatest

\* The scores the table shows and sorts by.
LEMMA ScoresOfRow ==
    ASSUME NEW r, IsRow(r)
    PROVE  /\ max_cvss(r) \in Int /\ max_epss(r) \in Int
           /\ max_percentile(r) \in Int
  <1> DEFINE n == Len(r.cves)
  <1>1. n \in Nat /\ DOMAIN r.cves = 1..n
    BY DEF IsRow
  <1>2. \A i \in 1..n : /\ r.cves[i].cvss \in Int /\ r.cves[i].epss \in Int
                        /\ r.cves[i].percentile \in Int
    BY <1>1 DEF IsRow, Cves
  <1> HIDE DEF n
  <1>3. max_cvss(r) \in Int
    <2> DEFINE f == [i \in 1..n |-> r.cves[i].cvss]
               S == {0} \union {c.cvss : c \in Cves(r)}
    <2>1. f \in [1..n -> Int]
      BY <1>2
    <2>2. S = {0} \union {f[i] : i \in 1..n}
      BY <1>1 DEF Cves
    <2> HIDE DEF f, S
    <2>3. Greatest(S) \in Int
      BY <1>1, <2>1, <2>2, GreatestOf
    <2> QED BY <2>3 DEF S, max_cvss
  <1>4. max_epss(r) \in Int
    <2> DEFINE f == [i \in 1..n |-> r.cves[i].epss]
               S == {0} \union {c.epss : c \in Cves(r)}
    <2>1. f \in [1..n -> Int]
      BY <1>2
    <2>2. S = {0} \union {f[i] : i \in 1..n}
      BY <1>1 DEF Cves
    <2> HIDE DEF f, S
    <2>3. Greatest(S) \in Int
      BY <1>1, <2>1, <2>2, GreatestOf
    <2> QED BY <2>3 DEF S, max_epss
  <1>5. max_percentile(r) \in Int
    <2> DEFINE f == [i \in 1..n |-> r.cves[i].percentile]
               S == {0} \union {c.percentile : c \in Cves(r)}
    <2>1. f \in [1..n -> Int]
      BY <1>2
    <2>2. S = {0} \union {f[i] : i \in 1..n}
      BY <1>1 DEF Cves
    <2> HIDE DEF f, S
    <2>3. Greatest(S) \in Int
      BY <1>1, <2>1, <2>2, GreatestOf
    <2> QED BY <2>3 DEF S, max_percentile
  <1> QED BY <1>3, <1>4, <1>5

\* The risk of a row is that of one of its CVEs, which no other exceeds, or 0.
LEMMA RiskOfRow ==
    ASSUME NEW r, IsRow(r)
    PROVE  /\ max_risk(r) \in Int
           /\ \A i \in DOMAIN r.cves : /\ risk(r.cves[i]) \in Int
                                       /\ risk(r.cves[i]) <= max_risk(r)
           /\ \/ max_risk(r) = 0
              \/ \E i \in DOMAIN r.cves : risk(r.cves[i]) = max_risk(r)
  <1> DEFINE n == Len(r.cves)
             f == [i \in 1..n |-> risk(r.cves[i])]
             S == {0} \union {risk(c) : c \in Cves(r)}
  <1>1. n \in Nat /\ DOMAIN r.cves = 1..n
    BY DEF IsRow
  <1>2. \A i \in 1..n : risk(r.cves[i]) \in Int
    BY <1>1 DEF IsRow, Cves, risk
  <1> HIDE DEF n
  <1>3. f \in [1..n -> Int]
    BY <1>2
  <1>4. S = {0} \union {f[i] : i \in 1..n}
    BY <1>1 DEF Cves
  <1>5. \A i \in 1..n : f[i] = risk(r.cves[i])
    OBVIOUS
  <1> HIDE DEF f, S
  <1>6. /\ Greatest(S) \in S /\ Greatest(S) \in Int
        /\ \A k \in S : k <= Greatest(S)
    BY <1>1, <1>3, <1>4, GreatestOf
  <1>7. max_risk(r) = Greatest(S)
    BY DEF max_risk, S
  <1> QED BY <1>1, <1>2, <1>4, <1>5, <1>6, <1>7

LEMMA SortKeyType ==
    ASSUME NEW r, IsRow(r), NEW column
    PROVE  SortKey(r, column) \in Int
  <1>1. /\ max_cvss(r) \in Int /\ max_epss(r) \in Int
        /\ max_percentile(r) \in Int /\ max_risk(r) \in Int
    BY ScoresOfRow, RiskOfRow
  <1>2. 0 \in Int /\ 1 \in Int
    OBVIOUS
  <1> QED BY <1>1, <1>2, Zenon DEF SortKey

LEMMA RiskKey ==
    ASSUME NEW r
    PROVE  SortKey(r, "Risk") = max_risk(r)
  <1>1. /\ "Risk" # "CVSS" /\ "Risk" # "EPSS"
        /\ "Risk" # "Percentile" /\ "Risk" # "Verified"
    OBVIOUS
  <1> QED BY <1>1, Zenon DEF SortKey

-------------------------------------------------------------------------------
(* The order of the rows on screen.                                          *)

Key(order, rs, by, k) == SortKey(rs[order[k]], by.column)

\* No row comes before one that is above it.
Ordered(order, rs, by) ==
    \A k, l \in DOMAIN order :
        k < l => ~Before(Key(order, rs, by, l), Key(order, rs, by, k), by)

\* Before() is a strict order of the keys, total but for equal ones.
LEMMA BeforeOrders ==
    ASSUME NEW by, NEW a \in Int, NEW b \in Int, NEW c \in Int
    PROVE  /\ ~Before(a, a, by)
           /\ Before(a, b, by) => ~Before(b, a, by)
           /\ Before(a, b, by) /\ Before(b, c, by) => Before(a, c, by)
           /\ Before(a, b, by) /\ ~Before(c, b, by) => Before(a, c, by)
           /\ Before(a, b, by) \/ Before(b, a, by) \/ a = b
  <1>1. CASE by.descending
    BY <1>1 DEF Before
  <1>2. CASE ~by.descending
    BY <1>2 DEF Before
  <1> QED BY <1>1, <1>2

\* Sorted() has the rows it is given, and has them in order.
LEMMA SortedSorts ==
    ASSUME NEW n \in Nat, NEW D, NEW order \in [1..n -> D],
           NEW rs, NEW by, \A i \in D : IsRow(rs[i])
    PROVE  LET sorted == Sorted(order, rs, by)
           IN  /\ sorted \in [1..n -> D]
               /\ \A k \in 1..n : \E p \in 1..n : sorted[p] = order[k]
               /\ Ordered(sorted, rs, by)
  <1> DEFINE key(k) == SortKey(rs[order[k]], by.column)
             keyed == {<<key(k), k>> : k \in DOMAIN order}
             Comes(i, j) == \/ Before(i[1], j[1], by)
                            \/ i[1] = j[1] /\ i[2] < j[2]
             R == {p \in keyed \X keyed : Comes(p[1], p[2])}
             Nth(p) == CHOOSE i \in keyed : Rank(keyed, R, i) = p - 1
             sorted == Sorted(order, rs, by)
  <1>0. DOMAIN order = 1..n
    OBVIOUS
  <1>1. \A k \in 1..n : key(k) \in Int
    BY SortKeyType
  <1>2. \A i \in keyed : /\ i[1] \in Int /\ i[2] \in 1..n
                         /\ i[1] = key(i[2]) /\ i = <<i[1], i[2]>>
    BY <1>0, <1>1
  <1>3. \A i, j \in keyed : i # j => i[2] # j[2]
    BY <1>2
  <1>4. \A k \in 1..n : \E i \in keyed : i[2] = k
    <2> TAKE k \in 1..n
    <2>1. <<key(k), k>> \in keyed
      BY <1>0
    <2> QED BY <2>1
  <1>5. IsFiniteSet(keyed) /\ Cardinality(keyed) = n
    <2> DEFINE f == [k \in 1..n |-> <<key(k), k>>]
    <2>1. f \in Surjection(1..n, keyed)
      BY <1>0 DEF Surjection
    <2>2. f \in Injection(1..n, keyed)
      BY <2>1 DEF Injection, IsInjective, Surjection
    <2>3. IsFiniteSet(1..n) /\ Cardinality(1..n) = n
      BY FS_Interval
    <2> HIDE DEF f, keyed
    <2> QED BY <2>1, <2>2, <2>3, FS_Surjection
  <1>6. \A i, j \in keyed : <<i, j>> \in R <=> Comes(i, j)
    OBVIOUS
  <1>7. \A i \in keyed : {j \in keyed : Comes(j, i)} = Below(keyed, R, i)
    BY <1>6 DEF Below
  <1>8. sorted = [p \in DOMAIN order |->
                     order[(CHOOSE i \in keyed :
                         Cardinality({j \in keyed : Comes(j, i)}) = p - 1)[2]]]
    BY DEF Sorted
  <1> HIDE DEF key, keyed, R
  <1>9. OrdersStrictly(R, keyed)
    <2>1. \A i, j, k \in keyed : /\ ~Comes(i, i)
                                 /\ Comes(i, j) /\ Comes(j, k) => Comes(i, k)
                                 /\ i # j => Comes(i, j) \/ Comes(j, i)
      <3> TAKE i, j, k \in keyed
      <3>1. /\ i[1] \in Int /\ j[1] \in Int /\ k[1] \in Int
            /\ i[2] \in Int /\ j[2] \in Int /\ k[2] \in Int
            /\ i # j => i[2] # j[2]
        BY <1>2, <1>3
      <3>2. /\ ~Before(i[1], i[1], by)
            /\ Before(i[1], j[1], by) /\ Before(j[1], k[1], by)
                   => Before(i[1], k[1], by)
            /\ Before(i[1], j[1], by) \/ Before(j[1], i[1], by) \/ i[1] = j[1]
        BY <3>1, BeforeOrders
      <3> QED BY <3>1, <3>2
    <2> QED BY <1>6, <2>1 DEF OrdersStrictly
  <1>10. /\ \A i \in keyed : Rank(keyed, R, i) \in 0..(n - 1)
         /\ \A i, j \in keyed :
                Comes(i, j) <=> Rank(keyed, R, i) < Rank(keyed, R, j)
         /\ \A r \in 0..(n - 1) : \E i \in keyed : Rank(keyed, R, i) = r
    <2>1. /\ \A i \in keyed : Rank(keyed, R, i) \in 0..(Cardinality(keyed) - 1)
          /\ \A i, j \in keyed :
                 <<i, j>> \in R <=> Rank(keyed, R, i) < Rank(keyed, R, j)
          /\ \A r \in 0..(Cardinality(keyed) - 1) :
                 \E i \in keyed : Rank(keyed, R, i) = r
      BY <1>5, <1>9, RankOnto
    <2> QED BY <1>5, <1>6, <2>1
  <1> HIDE DEF Comes
  <1>11. \A p \in 1..n : /\ Nth(p) \in keyed
                         /\ Rank(keyed, R, Nth(p)) = p - 1
    <2> TAKE p \in 1..n
    <2>1. p - 1 \in 0..(n - 1)
      OBVIOUS
    <2>2. \E i \in keyed : Rank(keyed, R, i) = p - 1
      BY <1>10, <2>1
    <2> QED BY <2>2
  <1>12. \A p \in 1..n : sorted[p] = order[Nth(p)[2]]
    <2> TAKE p \in 1..n
    <2>1. (CHOOSE i \in keyed :
               Cardinality({j \in keyed : Comes(j, i)}) = p - 1) = Nth(p)
      BY <1>7, Zenon DEF Rank
    <2> QED BY <1>0, <1>8, <2>1
  <1>13. DOMAIN sorted = 1..n
    BY <1>0, <1>8
  <1> HIDE DEF Nth, sorted
  <1>14. sorted \in [1..n -> D]
    <2>1. \A p \in 1..n : sorted[p] \in D
      BY <1>2, <1>11, <1>12
    <2>2. sorted = [p \in 1..n |-> sorted[p]]
      BY <1>0, <1>8
    <2> QED BY <2>1, <2>2
  <1>15. ASSUME NEW k \in 1..n PROVE \E p \in 1..n : sorted[p] = order[k]
    <2>1. PICK i \in keyed : i[2] = k
      BY <1>4
    <2> DEFINE p == Rank(keyed, R, i) + 1
    <2>2. p \in 1..n /\ Rank(keyed, R, i) \in Int
      BY <1>10
    <2>3. Nth(p) \in keyed /\ Rank(keyed, R, Nth(p)) = p - 1
      BY <1>11, <2>2
    <2>4. Rank(keyed, R, Nth(p)) = Rank(keyed, R, i)
      BY <2>2, <2>3
    <2>5. ~Comes(Nth(p), i) /\ ~Comes(i, Nth(p))
      BY <1>10, <2>2, <2>3, <2>4
    <2>6. Nth(p) = i
      BY <1>6, <1>9, <2>3, <2>5 DEF OrdersStrictly
    <2> QED BY <1>12, <2>1, <2>2, <2>6
  <1>16. Ordered(sorted, rs, by)
    <2>1. SUFFICES ASSUME NEW p \in 1..n, NEW q \in 1..n, p < q
                   PROVE  ~Before(Key(sorted, rs, by, q),
                                  Key(sorted, rs, by, p), by)
      BY <1>13 DEF Ordered
    <2> DEFINE i == Nth(p)
               j == Nth(q)
    <2>2. /\ i \in keyed /\ j \in keyed
          /\ Rank(keyed, R, i) = p - 1 /\ Rank(keyed, R, j) = q - 1
      BY <1>11
    <2>3. /\ Key(sorted, rs, by, p) = i[1] /\ Key(sorted, rs, by, q) = j[1]
          /\ i[1] \in Int /\ j[1] \in Int
      BY <1>2, <1>12, <2>2 DEF Key, key
    <2>4. Rank(keyed, R, i) < Rank(keyed, R, j)
      BY <2>1, <2>2
    <2> HIDE DEF i, j
    <2>5. Comes(i, j)
      BY <1>10, <2>2, <2>4
    <2>6. Before(i[1], j[1], by) \/ i[1] = j[1]
      BY <2>5 DEF Comes
    <2>7. ~Before(j[1], i[1], by)
      BY <2>3, <2>6, BeforeOrders
    <2> QED BY <2>3, <2>7
  <1> QED BY <1>14, <1>15, <1>16 DEF sorted

\* What is with every number also those below it is where one counts to.
LEMMA DownClosed ==
    ASSUME NEW n \in Nat, NEW D \in SUBSET (1..n),
           \A k \in D : \A l \in 1..n : l < k => l \in D
    PROVE  Cardinality(D) \in 0..n /\ D = 1..Cardinality(D)
  <1>1. IsFiniteSet(1..n)
    BY FS_Interval
  <1>2. IsFiniteSet(D)
    BY <1>1, FS_Subset
  <1>3. CASE D = {}
    BY <1>3, FS_EmptySet
  <1>4. CASE D # {}
    <2>1. \A k \in D : k \in Int
      OBVIOUS
    <2>2. PICK m \in D : \A k \in D : k <= m
      BY <1>2, <1>4, <2>1, HasGreatest
    <2>3. D = 1..m
      <3>1. m \in 1..n /\ m \in Int
        OBVIOUS
      <3>2. ASSUME NEW k \in D PROVE k \in 1..m
        BY <2>2
      <3>3. ASSUME NEW k \in 1..m PROVE k \in D
        <4>1. k \in 1..n /\ (k < m \/ k = m)
          BY <3>1
        <4> QED BY <4>1
      <3> QED BY <3>2, <3>3
    <2>4. m \in 1..n
      OBVIOUS
    <2>5. Cardinality(D) = m
      BY <2>3, <2>4, FS_Interval
    <2> QED BY <2>3, <2>4, <2>5
  <1> QED BY <1>3, <1>4

\* InsertAt() moves what is behind the place, and nothing else.
LEMMA InsertAtShifts ==
    ASSUME NEW s \in Seq(Nat), NEW e \in Nat, NEW a \in 0..Len(s)
    PROVE  LET t == InsertAt(s, a + 1, e)
           IN  /\ t \in Seq(Nat) /\ Len(t) = Len(s) + 1
               /\ \A k \in 1..a : t[k] = s[k]
               /\ t[a + 1] = e
               /\ \A k \in (a + 2)..(Len(s) + 1) : t[k] = s[k - 1]
  <1> DEFINE n == Len(s)
             front == SubSeq(s, 1, a)
             back == SubSeq(s, a + 1, n)
             most == front \o <<e>>
             t == most \o back
  <1>1. n \in Nat /\ a \in Nat /\ a <= n /\ \A k \in 1..n : s[k] \in Nat
    BY LenProperties, ElementOfSeq
  <1>2. InsertAt(s, a + 1, e) = t
    <2>1. (a + 1) - 1 = a
      BY <1>1
    <2> QED BY <2>1 DEF InsertAt
  <1> HIDE DEF n
  <1>3. /\ front \in Seq(Nat) /\ Len(front) = a
        /\ \A k \in 1..a : front[k] = s[k]
    <2>1. \A k \in 1..a : s[k] \in Nat
      BY <1>1
    <2>2. /\ front \in Seq(Nat)
          /\ Len(front) = IF 1 <= a THEN a - 1 + 1 ELSE 0
          /\ \A k \in 1..(a - 1 + 1) : front[k] = s[1 + k - 1]
      BY <1>1, <2>1, SubSeqProperties
    <2> HIDE DEF front
    <2> QED BY <1>1, <2>2
  <1>4. /\ back \in Seq(Nat) /\ Len(back) = n - a
        /\ \A k \in 1..(n - a) : back[k] = s[a + k]
    <2>1. \A k \in (a + 1)..n : s[k] \in Nat
      BY <1>1
    <2>2. /\ back \in Seq(Nat)
          /\ Len(back) = IF a + 1 <= n THEN n - (a + 1) + 1 ELSE 0
          /\ \A k \in 1..(n - (a + 1) + 1) : back[k] = s[(a + 1) + k - 1]
      BY <1>1, <2>1, SubSeqProperties
    <2> HIDE DEF back
    <2> QED BY <1>1, <2>2
  <1>5. <<e>> \in Seq(Nat) /\ Len(<<e>>) = 1 /\ <<e>>[1] = e
    OBVIOUS
  <1> DEFINE one == <<e>>
  <1> HIDE DEF front, back, one
  <1>6. /\ most \in Seq(Nat) /\ Len(most) = a + 1
        /\ \A k \in 1..a : most[k] = front[k]
        /\ most[a + 1] = e
    <2>1. /\ front \o one \in Seq(Nat)
          /\ Len(front \o one) = Len(front) + Len(one)
          /\ \A k \in 1..(Len(front) + Len(one)) : (front \o one)[k] =
                 IF k <= Len(front) THEN front[k] ELSE one[k - Len(front)]
      BY <1>3, <1>5, ConcatProperties DEF one
    <2>2. most = front \o one
      BY DEF one
    <2>3. Len(front) = a /\ Len(one) = 1 /\ one[1] = e
      BY <1>3, <1>5 DEF one
    <2> HIDE DEF most
    <2>4. /\ most \in Seq(Nat) /\ Len(most) = a + 1
          /\ \A k \in 1..(a + 1) :
                 most[k] = IF k <= a THEN front[k] ELSE one[k - a]
      BY <2>1, <2>2, <2>3
    <2>5. a + 1 \in 1..(a + 1) /\ ~(a + 1 <= a) /\ (a + 1) - a = 1
      BY <1>1
    <2>6. \A k \in 1..a : k \in 1..(a + 1) /\ k <= a
      BY <1>1
    <2> QED BY <2>3, <2>4, <2>5, <2>6
  <1> HIDE DEF most
  <1>7. /\ t \in Seq(Nat) /\ Len(t) = n + 1
        /\ \A k \in 1..(n + 1) :
               t[k] = IF k <= a + 1 THEN most[k] ELSE back[k - (a + 1)]
    <2>1. /\ most \o back \in Seq(Nat)
          /\ Len(most \o back) = Len(most) + Len(back)
          /\ \A k \in 1..(Len(most) + Len(back)) : (most \o back)[k] =
                 IF k <= Len(most) THEN most[k] ELSE back[k - Len(most)]
      BY <1>4, <1>6, ConcatProperties
    <2>2. Len(most) = a + 1 /\ Len(back) = n - a
          /\ Len(most) + Len(back) = n + 1
      BY <1>1, <1>4, <1>6
    <2> HIDE DEF t
    <2>3. t = most \o back
      BY DEF t
    <2> QED BY <2>1, <2>2, <2>3
  <1> HIDE DEF t
  <1>8. ASSUME NEW k \in 1..a PROVE t[k] = s[k]
    <2>1. k \in 1..(n + 1) /\ k <= a + 1
      BY <1>1
    <2> QED BY <1>3, <1>6, <1>7, <2>1
  <1>9. t[a + 1] = e
    <2>1. a + 1 \in 1..(n + 1) /\ a + 1 <= a + 1
      BY <1>1
    <2> QED BY <1>6, <1>7, <2>1
  <1>10. ASSUME NEW k \in (a + 2)..(n + 1) PROVE t[k] = s[k - 1]
    <2>1. /\ k \in 1..(n + 1) /\ ~(k <= a + 1)
          /\ k - (a + 1) \in 1..(n - a) /\ a + (k - (a + 1)) = k - 1
      BY <1>1
    <2>2. t[k] = back[k - (a + 1)]
      BY <1>7, <2>1
    <2>3. back[k - (a + 1)] = s[a + (k - (a + 1))]
      BY <1>4, <2>1
    <2> QED BY <2>1, <2>2, <2>3
  <1> QED BY <1>2, <1>7, <1>8, <1>9, <1>10 DEF n

\* A row put in its place leaves the others in theirs, and all in order.
LEMMA PlacedSorts ==
    ASSUME NEW n \in Nat, NEW order \in Seq(Nat), Len(order) = n,
           NEW i \in Nat, NEW rs, NEW by,
           IsRow(rs[i]), \A k \in 1..n : IsRow(rs[order[k]]),
           Ordered(order, rs, by)
    PROVE  LET placed == Placed(order, i, rs, by)
           IN  /\ placed \in Seq(Nat) /\ Len(placed) = n + 1
               /\ \A k \in 1..n : \E p \in 1..(n + 1) : placed[p] = order[k]
               /\ \E p \in 1..(n + 1) : placed[p] = i
               /\ \A p \in 1..(n + 1) : \/ placed[p] = i
                                        \/ \E k \in 1..n : placed[p] = order[k]
               /\ Ordered(placed, rs, by)
  <1> DEFINE key(k) == SortKey(rs[order[k]], by.column)
             own == SortKey(rs[i], by.column)
             before == {k \in 1..n : ~Before(own, key(k), by)}
             a == Cardinality(before)
             placed == Placed(order, i, rs, by)
  <1>1. DOMAIN order = 1..n
    OBVIOUS
  <1>2. own \in Int /\ \A k \in 1..n : key(k) \in Int
    BY SortKeyType
  <1>3. \A k, l \in 1..n : k < l => ~Before(key(l), key(k), by)
    BY <1>1 DEF Ordered, Key
  <1>4. placed = InsertAt(order, a + 1, i)
    BY <1>1 DEF Placed
  <1> HIDE DEF key, own
  <1>5. a \in 0..n /\ before = 1..a
    <2>1. \A k \in before : \A l \in 1..n : l < k => l \in before
      <3>1. SUFFICES ASSUME NEW k \in before, NEW l \in 1..n, l < k,
                            Before(own, key(l), by)
                     PROVE  FALSE
        OBVIOUS
      <3>2. ~Before(key(k), key(l), by) /\ ~Before(own, key(k), by)
        BY <1>3, <3>1
      <3>3. Before(own, key(k), by)
        BY <1>2, <3>1, <3>2, BeforeOrders
      <3> QED BY <3>2, <3>3
    <2>2. before \in SUBSET (1..n)
      OBVIOUS
    <2> HIDE DEF before
    <2> QED BY <2>1, <2>2, DownClosed
  <1>6. \A k \in 1..n : k <= a <=> ~Before(own, key(k), by)
    <2> TAKE k \in 1..n
    <2>1. k \in before <=> ~Before(own, key(k), by)
      OBVIOUS
    <2> HIDE DEF a, before
    <2>2. k \in before <=> k <= a
      BY <1>5
    <2> QED BY <2>1, <2>2
  <1> HIDE DEF a, before, placed
  <1>7. /\ placed \in Seq(Nat) /\ Len(placed) = n + 1
        /\ \A k \in 1..a : placed[k] = order[k]
        /\ placed[a + 1] = i
        /\ \A k \in (a + 2)..(n + 1) : placed[k] = order[k - 1]
    <2>1. a \in 0..Len(order)
      BY <1>5
    <2> DEFINE t == InsertAt(order, a + 1, i)
    <2>2. /\ t \in Seq(Nat) /\ Len(t) = Len(order) + 1
          /\ \A k \in 1..a : t[k] = order[k]
          /\ t[a + 1] = i
          /\ \A k \in (a + 2)..(Len(order) + 1) : t[k] = order[k - 1]
      BY <2>1, InsertAtShifts
    <2> HIDE DEF t
    <2>3. placed = t
      BY <1>4 DEF t
    <2> QED BY <2>2, <2>3
  <1>8. DOMAIN placed = 1..(n + 1) /\ a \in Nat /\ a <= n
    BY <1>5, <1>7
  \* Where each position of the new order comes from.
  <1>9. ASSUME NEW p \in 1..(n + 1)
        PROVE  \/ p <= a /\ p \in 1..n /\ placed[p] = order[p]
               \/ p = a + 1 /\ placed[p] = i
               \/ p > a + 1 /\ p - 1 \in 1..n /\ placed[p] = order[p - 1]
    <2>1. \/ p <= a /\ p \in 1..n /\ p \in 1..a
          \/ p = a + 1
          \/ p > a + 1 /\ p - 1 \in 1..n /\ p \in (a + 2)..(n + 1)
      BY <1>8
    <2> QED BY <1>7, <2>1
  <1>10. ASSUME NEW k \in 1..n
         PROVE  \E p \in 1..(n + 1) : placed[p] = order[k]
    <2>1. CASE k <= a
      <3>1. k \in 1..a /\ k \in 1..(n + 1)
        BY <1>8, <2>1
      <3> QED BY <1>7, <3>1
    <2>2. CASE k > a
      <3>1. k + 1 \in (a + 2)..(n + 1) /\ k + 1 \in 1..(n + 1) /\ k + 1 - 1 = k
        BY <1>8, <2>2
      <3> QED BY <1>7, <3>1
    <2> QED BY <1>8, <2>1, <2>2
  <1>11. a + 1 \in 1..(n + 1) /\ placed[a + 1] = i
    BY <1>7, <1>8
  <1>12. Ordered(placed, rs, by)
    <2>1. SUFFICES ASSUME NEW p \in 1..(n + 1), NEW q \in 1..(n + 1), p < q
                   PROVE  ~Before(Key(placed, rs, by, q),
                                  Key(placed, rs, by, p), by)
      BY <1>8 DEF Ordered
    <2>2. \A k \in 1..(n + 1) :
              /\ placed[k] = i => Key(placed, rs, by, k) = own
              /\ \A l : placed[k] = order[l] => Key(placed, rs, by, k) = key(l)
      BY DEF Key, own, key
    <2>3. CASE p = a + 1
      <3>1. q > a + 1 /\ q - 1 \in 1..n /\ placed[q] = order[q - 1]
        BY <1>8, <1>9, <2>1, <2>3
      <3>2. ~(q - 1 <= a)
        BY <1>8, <3>1
      <3>3. Before(own, key(q - 1), by)
        BY <1>6, <3>1, <3>2
      <3>4. ~Before(key(q - 1), own, by)
        BY <1>2, <3>1, <3>3, BeforeOrders
      <3> QED BY <1>11, <2>2, <2>3, <3>1, <3>4
    <2>4. CASE q = a + 1
      <3>1. p <= a /\ p \in 1..n /\ placed[p] = order[p]
        BY <1>8, <1>9, <2>1, <2>4
      <3>2. ~Before(own, key(p), by)
        BY <1>6, <3>1
      <3> QED BY <1>11, <2>2, <2>4, <3>1, <3>2
    <2>5. CASE p # a + 1 /\ q # a + 1
      <3> DEFINE k == IF p <= a THEN p ELSE p - 1
                 l == IF q <= a THEN q ELSE q - 1
      <3>1. /\ k \in 1..n /\ placed[p] = order[k]
            /\ l \in 1..n /\ placed[q] = order[l]
        BY <1>8, <1>9, <2>5
      <3>2. k < l
        BY <1>8, <2>1, <2>5
      <3> HIDE DEF k, l
      <3>3. ~Before(key(l), key(k), by)
        BY <1>3, <3>1, <3>2
      <3> QED BY <2>2, <3>1, <3>3
    <2> QED BY <2>3, <2>4, <2>5
  <1> QED BY <1>7, <1>9, <1>10, <1>11, <1>12 DEF placed

-------------------------------------------------------------------------------
(* The rows of the table.                                                    *)

\* There are ten demonstration rows.
LEMMA DummyRows ==
    /\ Len(make_dummy_results) = 10 /\ DOMAIN make_dummy_results = 1..10
    /\ \A i \in 1..10 : IsRow(make_dummy_results[i])
    /\ \A i \in 1..10 : \E k \in 1..5 :
           make_dummy_results[i] \in {RequiredProbes[k], ExtraSamples[k]}
  <1> DEFINE first == RequiredProbes
             then == ExtraSamples
             Rows == {first[i] : i \in 1..5} \union {then[i] : i \in 1..5}
  <1>1. \A i \in 1..5 : IsRow(first[i])
    <2>1. IsRow(first[1]) /\ IsRow(first[2])
      BY DEF RequiredProbes, Row, CveInfo, IsRow, Cves
    <2>2. IsRow(first[3]) /\ IsRow(first[4])
      BY DEF RequiredProbes, Row, CveInfo, IsRow, Cves
    <2>3. IsRow(first[5])
      BY DEF RequiredProbes, Row, CveInfo, IsRow, Cves
    <2>4. \A i \in 1..5 : i = 1 \/ i = 2 \/ i = 3 \/ i = 4 \/ i = 5
      OBVIOUS
    <2> QED BY <2>1, <2>2, <2>3, <2>4
  <1>2. \A i \in 1..5 : IsRow(then[i])
    <2>1. IsRow(then[1]) /\ IsRow(then[2])
      BY DEF ExtraSamples, Row, CveInfo, IsRow, Cves
    <2>2. IsRow(then[3]) /\ IsRow(then[4])
      BY DEF ExtraSamples, Row, CveInfo, IsRow, Cves
    <2>3. IsRow(then[5])
      BY DEF ExtraSamples, Row, CveInfo, IsRow, Cves
    <2>4. \A i \in 1..5 : i = 1 \/ i = 2 \/ i = 3 \/ i = 4 \/ i = 5
      OBVIOUS
    <2> QED BY <2>1, <2>2, <2>3, <2>4
  <1>3. first \in Seq(Rows) /\ Len(first) = 5
    <2>1. Len(first) = 5 /\ DOMAIN first = 1..5
      BY DEF RequiredProbes
    <2>2. first = [i \in 1..5 |-> first[i]]
      BY <2>1 DEF RequiredProbes
    <2> HIDE DEF first
    <2>3. first \in [1..5 -> Rows]
      BY <2>2
    <2> HIDE DEF Rows
    <2> QED BY <2>3, FunctionIsSeq
  <1>4. then \in Seq(Rows) /\ Len(then) = 5
    <2>1. Len(then) = 5 /\ DOMAIN then = 1..5
      BY DEF ExtraSamples
    <2>2. then = [i \in 1..5 |-> then[i]]
      BY <2>1 DEF ExtraSamples
    <2> HIDE DEF then
    <2>3. then \in [1..5 -> Rows]
      BY <2>2
    <2> HIDE DEF Rows
    <2> QED BY <2>3, FunctionIsSeq
  <1> HIDE DEF first, then
  <1>5. \A r \in Rows : IsRow(r)
    BY <1>1, <1>2
  <1> HIDE DEF Rows
  <1>6. /\ first \o then \in Seq(Rows)
        /\ Len(first \o then) = Len(first) + Len(then)
    BY <1>3, <1>4, ConcatProperties
  <1>7. make_dummy_results = first \o then
    BY DEF make_dummy_results, first, then
  <1>8. /\ make_dummy_results \in Seq(Rows) /\ Len(make_dummy_results) = 10
        /\ DOMAIN make_dummy_results = 1..10
    BY <1>3, <1>4, <1>6, <1>7
  <1>9. \A i \in 1..10 : make_dummy_results[i] \in Rows
    BY <1>8, ElementOfSeq
  <1>10. \A r \in Rows : \E k \in 1..5 : r \in {first[k], then[k]}
    BY DEF Rows
  <1> QED BY <1>5, <1>8, <1>9, <1>10 DEF first, then

-------------------------------------------------------------------------------
(* Which actions touch what.                                                 *)

StartsScan == StartDemoScan \/ AcceptForm
Sorts == \E column \in Columns : SortBy(column)
Selects == \E n \in Clicks : SelectRow(n) \/ ClickPoint(n)

scans == <<accepted, cut, finished, closed, scanning, warned>>

\* Who may change a part of the state, for each part the invariant is about.
Touches ==
    /\ \/ UNCHANGED scans
       \/ HearError \/ HearFinished \/ WorkerEnds \/ WorkerFails
       \/ StartsScan \/ Quit \/ Relaunch
    /\ \/ UNCHANGED <<table, unseen>>
       \/ HearResult \/ HearFinished \/ Sorts \/ Selects \/ Relaunch
    /\ UNCHANGED points \/ HearFinished \/ Relaunch
    /\ UNCHANGED details \/ Selects \/ Relaunch
    /\ \/ UNCHANGED status
       \/ HearProgress \/ HearFinished \/ StartsScan \/ AcceptSettings
       \/ CloseBox \/ MessageExpires \/ Relaunch
    /\ UNCHANGED settings \/ AcceptSettings \/ Relaunch
    /\ UNCHANGED asked \/ StartsScan \/ Relaunch
    /\ UNCHANGED form \/ EditForm \/ StartsScan \/ Cancel \/ Relaunch
    /\ \/ UNCHANGED modal
       \/ HearError \/ StartsScan \/ OpenScanDialog \/ AlreadyScanning
       \/ RejectForm \/ OtherDialog \/ Relaunch

LEMMA StepsTouch ==
    ASSUME [Next]_vars
    PROVE  Touches
  <1> USE DEF Touches, vars, session, controller, panels, contents, dialogs,
              settings, scans
  <1>1. CASE Hear
    <2>1. CASE HearResult
      BY <2>1 DEF HearResult, Session!HearResult
    <2>2. CASE HearProgress
      BY <2>2 DEF HearProgress, Session!HearProgress
    <2>3. CASE HearError
      BY <2>3 DEF HearError
    <2>4. CASE HearFinished
      BY <2>4 DEF HearFinished, Session!HearFinished
    <2> QED BY <1>1, <2>1, <2>2, <2>3, <2>4 DEF Hear
  <1>2. CASE WorkerEnds
    BY <1>2 DEF WorkerEnds
  <1>3. CASE WorkerFails
    BY <1>3 DEF WorkerFails, Session!Cut
  <1>4. CASE ScanDialog
    <2>1. CASE StartsScan
      <3>1. UNCHANGED <<table, unseen, points, details, settings>>
        BY <2>1 DEF StartsScan, StartDemoScan, AcceptForm, Start
      <3> QED BY <2>1, <3>1
    <2>2. CASE OpenScanDialog
      BY <2>2 DEF OpenScanDialog
    <2>3. CASE AlreadyScanning
      BY <2>3 DEF AlreadyScanning
    <2>4. CASE EditForm
      BY <2>4 DEF EditForm
    <2>5. CASE RejectForm
      BY <2>5 DEF RejectForm
    <2> QED BY <1>4, <2>1, <2>2, <2>3, <2>4, <2>5 DEF ScanDialog, StartsScan
  <1>5. CASE OtherDialog
    <2>1. CASE OpenSettings
      BY <1>5, <2>1 DEF OpenSettings
    <2>2. CASE AcceptSettings
      BY <1>5, <2>2 DEF AcceptSettings
    <2>3. CASE OpenExport
      BY <1>5, <2>3 DEF OpenExport
    <2>4. CASE PickFormat
      BY <1>5, <2>4 DEF PickFormat
    <2>5. CASE Export
      BY <1>5, <2>5 DEF Export
    <2>6. CASE ExportFails
      BY <1>5, <2>6 DEF ExportFails
    <2>7. CASE Cancel
      BY <1>5, <2>7 DEF Cancel
    <2>8. CASE CloseBox
      BY <1>5, <2>8 DEF CloseBox
    <2> QED BY <1>5, <2>1, <2>2, <2>3, <2>4, <2>5, <2>6, <2>7, <2>8
            DEF OtherDialog
  <1>6. CASE MessageExpires
    BY <1>6 DEF MessageExpires
  <1>7. CASE Browse
    <2>1. CASE Sorts
      BY <2>1 DEF Sorts, SortBy
    <2>2. CASE Selects
      BY <2>2 DEF Selects, SelectRow, ClickPoint
    <2> QED BY <1>7, <2>1, <2>2 DEF Browse, Sorts, Selects
  <1>8. CASE Quit
    BY <1>8 DEF Quit, Session!Close
  <1>9. CASE Relaunch
    BY <1>9
  <1>10. CASE UNCHANGED vars
    BY <1>10
  <1> QED BY <1>1, <1>2, <1>3, <1>4, <1>5, <1>6, <1>7, <1>8, <1>9, <1>10
          DEF Next

-------------------------------------------------------------------------------
(* The inductive invariant.                                                  *)

AllRows == Found \union {make_dummy_results[i] : i \in 1..10}

SessionOK ==
    /\ accepted \in Seq(1..MaxPorts) /\ Len(accepted) <= MaxScans
    /\ finished \in 0..Len(accepted) /\ warned \subseteq cut
    /\ cut \subseteq 1..Len(accepted)
    /\ scanning \in BOOLEAN /\ closed \in BOOLEAN

\* The scan dialog is only open while no scan is in progress: nothing can start
\* one below it.
DialogsOK ==
    /\ modal \in Seq(Dialogs)
    /\ scanning => \A i \in 1..Len(modal) : modal[i] # "scan"

StatusOK ==
    /\ status \in {"starting", "scanning", "brief", ""}
    /\ StatusSettles

IsRequest(request) ==
    /\ request.target \in Address /\ request.consent \in BOOLEAN
    /\ request.ports \in Specification

RequestsOK == IsRequest(form) /\ ScansInScope

SettingsOK ==
    /\ stored \in SettingsType /\ inForce \in SettingsType
    /\ inForce.rate > 0 /\ inForce.timeout > 0
    /\ SettingsInForce

Sorting == [column : Columns \union {"Risk"}, descending : BOOLEAN]

Tables ==
    [rows : Seq(AllRows), order : Seq(Nat), current : Nat, sort : Sorting]

\* The order has every row, and no row out of order.
IsTable(t) ==
    /\ t \in Tables
    /\ Len(t.order) = Len(t.rows)
    /\ \A p \in 1..Len(t.rows) : t.order[p] \in 1..Len(t.rows)
    /\ \A i \in 1..Len(t.rows) : \E p \in 1..Len(t.rows) : t.order[p] = i
    /\ t.current \in 0..Len(t.rows)
    /\ Ordered(t.order, t.rows, t.sort)

TableOK ==
    /\ IsTable(table)
    /\ unseen \in 0..(Len(table.rows) - Len(make_dummy_results))

ChartOK ==
    /\ DOMAIN points \in SUBSET (1..Len(table.rows))
    /\ ChartShowsRows

WindowInv ==
    /\ SessionOK /\ DialogsOK /\ StatusOK /\ RequestsOK /\ SettingsOK
    /\ TableOK /\ ChartOK /\ DetailsOfSelection

-------------------------------------------------------------------------------
(* Scans, dialogs, status bar.                                               *)

\* How many ports a request asks for.
LEMMA PortsType ==
    ASSUME NEW request, request.ports \in Specification
    PROVE  Ports(request) \in Nat
  <1>1. expand_port_spec(request.ports) \in Seq(PortNumbers)
    BY PortsExpanded
  <1> QED BY <1>1 DEF Ports

\* What is asked for in the scan dialog and in the demonstration.
LEMMA FormTypes ==
    /\ IsRequest(DefaultForm) /\ IsRequest(DemoRequest)
    /\ \A f \in Forms : IsRequest(f)
  <1>1. Loopback \in Address
    <2> DEFINE octet == 0..255
               o == <<127, 0, 0, 1>>
    <2>1. 127 \in octet /\ 0 \in octet /\ 1 \in octet
      OBVIOUS
    <2> HIDE DEF octet
    <2>2. o \in [1..4 -> octet]
      BY <2>1
    <2>3. Octets(4) = [1..4 -> octet]
      BY DEF Octets, octet
    <2>4. Loopback = [family |-> 4, octets |-> o]
      BY DEF Loopback, V4
    <2> QED BY <2>2, <2>3, <2>4 DEF Address
  <1>2. <<<<22>>, <<80>>, <<443>>, <<8080>>, <<8443>>>> \in Specification
    BY DEF Specification
  <1>3. <<<<21>>, <<22>>, <<25>>, <<80>>, <<110>>, <<143>>, <<443>>, <<587>>,
          <<993>>, <<8080>>>> \in Specification
    BY DEF Specification
  <1>4. \A f \in Forms : IsRequest(f)
    BY FormsAssumption DEF IsRequest, Specification
  <1> QED BY <1>1, <1>2, <1>3, <1>4
          DEF IsRequest, DefaultForm, DemoRequest, Request

\* A start is the controller's to take: the dialog it comes from was opened
\* while no scan was in progress.
LEMMA StartsAreFree ==
    ASSUME DialogsOK, StartsScan
    PROVE  ~scanning
  <1>1. CASE StartDemoScan
    BY <1>1 DEF StartDemoScan
  <1>2. CASE AcceptForm
    <2>1. modal # <<>> /\ modal[Len(modal)] = "scan"
      BY <1>2 DEF AcceptForm, At, Last
    <2>2. Len(modal) \in 1..Len(modal)
      BY <2>1, EmptySeq DEF DialogsOK
    <2> QED BY <2>1, <2>2 DEF DialogsOK
  <1> QED BY <1>1, <1>2 DEF StartsScan

\* What starting a scan does.
LEMMA StartEffect ==
    ASSUME SessionOK, DialogsOK, RequestsOK, StartsScan
    PROVE  /\ \E m \in 1..MaxPorts : accepted' = Append(accepted, m)
           /\ Len(accepted) < MaxScans
           /\ UNCHANGED <<cut, finished, closed, warned>>
           /\ ~closed /\ scanning' = TRUE /\ modal' = <<>>
           /\ status' = "starting" /\ form' = DefaultForm
           /\ \E request : /\ IsRequest(request) /\ asked' = Scope(request)
                           /\ request = DemoRequest \/ Acceptable(request)
  <1>1. ASSUME NEW request, IsRequest(request), Start(request)
        PROVE  /\ \E m \in 1..MaxPorts : accepted' = Append(accepted, m)
               /\ Len(accepted) < MaxScans
               /\ UNCHANGED <<cut, finished, closed, warned>>
               /\ ~closed /\ scanning' = TRUE /\ modal' = <<>>
               /\ status' = "starting" /\ form' = DefaultForm
               /\ asked' = Scope(request)
    <2>1. ~scanning
      BY StartsAreFree
    <2>2. /\ Session!Accept /\ Len(accepted) < MaxScans
          /\ accepted' = Append(accepted, Within(Ports(request), 1, MaxPorts))
          /\ scanning' = TRUE /\ asked' = Scope(request) /\ modal' = <<>>
          /\ UNCHANGED warned /\ form' = DefaultForm /\ status' = "starting"
      BY <1>1, <2>1 DEF Start
    <2>3. Ports(request) \in Int /\ MaxPorts \in Int /\ 1 <= MaxPorts
      BY <1>1, PortsType, BoundsAssumption DEF IsRequest
    <2>4. Within(Ports(request), 1, MaxPorts) \in 1..MaxPorts
      BY <2>3 DEF Within
    <2> QED BY <2>2, <2>4 DEF Session!Accept
  <1>2. CASE StartDemoScan
    BY <1>1, <1>2, FormTypes DEF StartDemoScan
  <1>3. CASE AcceptForm
    BY <1>1, <1>3 DEF AcceptForm, RequestsOK
  <1> QED BY <1>2, <1>3 DEF StartsScan

LEMMA SessionKept ==
    ASSUME WindowInv, [Next]_vars
    PROVE  SessionOK'
  <1>0. SessionOK /\ DialogsOK /\ RequestsOK /\ Touches
    BY StepsTouch DEF WindowInv
  <1> HIDE DEF WindowInv
  <1> DEFINE n == Len(accepted)
  <1>1. n \in Nat /\ finished \in 0..n /\ \A k \in cut : k \in 1..n
    BY <1>0 DEF SessionOK
  <1>2. CASE UNCHANGED scans
    BY <1>0, <1>2 DEF SessionOK, scans
  <1>3. CASE HearError
    BY <1>0, <1>3 DEF HearError, ErrorSeen, session, SessionOK
  <1>4. CASE HearFinished
    <2>1. /\ finished < n /\ finished' = finished + 1
          /\ UNCHANGED <<accepted, cut, closed, scanning, warned>>
      BY <1>4 DEF HearFinished, Session!HearFinished, Session!Hearing,
                  controller
    <2> QED BY <1>0, <1>1, <2>1 DEF SessionOK
  <1>5. CASE WorkerEnds
    BY <1>0, <1>5 DEF WorkerEnds, session, SessionOK
  <1>6. CASE WorkerFails
    <2>1. /\ finished < n /\ cut' = cut \union {n}
          /\ UNCHANGED <<accepted, finished, closed, scanning, warned>>
      BY <1>6 DEF WorkerFails, Session!Cut, controller
    <2>2. n \in 1..n
      BY <1>1, <2>1
    <2> QED BY <1>0, <1>1, <2>1, <2>2 DEF SessionOK
  <1>7. CASE StartsScan
    <2>1. /\ n < MaxScans
          /\ UNCHANGED <<cut, finished, closed, warned>> /\ scanning' = TRUE
      BY <1>0, <1>7, StartEffect
    <2>2. PICK m \in 1..MaxPorts : accepted' = Append(accepted, m)
      BY <1>0, <1>7, StartEffect
    <2>3. accepted' \in Seq(1..MaxPorts) /\ Len(accepted') = n + 1
      <3> DEFINE sizes == 1..MaxPorts
      <3>1. accepted \in Seq(sizes) /\ m \in sizes
        BY <1>0 DEF SessionOK
      <3> HIDE DEF sizes
      <3>2. accepted' \in Seq(sizes) /\ Len(accepted') = n + 1
        BY <2>2, <3>1, AppendProperties
      <3> QED BY <3>2 DEF sizes
    <2>4. n + 1 <= MaxScans
      BY <1>1, <2>1, BoundsAssumption
    <2>5. finished \in 0..(n + 1) /\ \A k \in cut : k \in 1..(n + 1)
      BY <1>1
    <2> QED BY <1>0, <2>1, <2>3, <2>4, <2>5 DEF SessionOK
  <1>8. CASE Quit
    BY <1>0, <1>8 DEF Quit, Session!Close, SessionOK
  <1>9. CASE Relaunch
    <2>1. /\ accepted' = <<>> /\ cut' = {} /\ finished' = 0 /\ warned' = {}
          /\ scanning' = FALSE /\ closed' = FALSE
      BY <1>9 DEF Relaunch
    <2>2. accepted' \in Seq(1..MaxPorts) /\ Len(accepted') = 0
      BY <2>1, EmptySeq
    <2>3. Len(accepted') <= MaxScans
      BY <2>2, BoundsAssumption
    <2>4. finished' \in 0..Len(accepted')
      BY <2>1, <2>2
    <2> QED BY <2>1, <2>2, <2>3, <2>4 DEF SessionOK
  <1> QED BY <1>0, <1>2, <1>3, <1>4, <1>5, <1>6, <1>7, <1>8, <1>9 DEF Touches

NoScan(m) == \A i \in 1..Len(m) : m[i] # "scan"

\* A dialog closed, another opened.
LEMMA FrontShorter ==
    ASSUME NEW m \in Seq(Dialogs), m # <<>>
    PROVE  Front(m) \in Seq(Dialogs) /\ (NoScan(m) => NoScan(Front(m)))
  <1>1. /\ Len(m) \in Nat /\ Len(m) >= 1
        /\ \A i \in 1..Len(m) : m[i] \in Dialogs
    BY EmptySeq, ElementOfSeq
  <1> DEFINE n == Len(m) - 1
             f == SubSeq(m, 1, n)
  <1>2. n \in Int /\ 1 \in Int /\ \A i \in 1..n : m[i] \in Dialogs
    BY <1>1
  <1>3. /\ f \in Seq(Dialogs) /\ Len(f) = IF 1 <= n THEN n - 1 + 1 ELSE 0
        /\ \A i \in 1..(n - 1 + 1) : f[i] = m[1 + i - 1]
    BY <1>2, SubSeqProperties
  <1>4. Front(m) = f
    BY DEF Front
  <1>5. n \in Nat /\ Len(m) = n + 1
    BY <1>1
  <1> HIDE DEF f, n
  <1>6. Len(f) = n /\ \A i \in 1..n : f[i] = m[i]
    <2>1. n - 1 + 1 = n /\ Len(f) = n
      BY <1>3, <1>5
    <2>2. \A i \in 1..n : 1 + i - 1 = i
      OBVIOUS
    <2> QED BY <1>3, <2>1, <2>2
  <1>7. \A i \in 1..n : i \in 1..Len(m)
    BY <1>5
  <1> QED BY <1>3, <1>4, <1>6, <1>7 DEF NoScan

LEMMA AppendLonger ==
    ASSUME NEW m \in Seq(Dialogs), NEW d \in Dialogs
    PROVE  /\ Append(m, d) \in Seq(Dialogs)
           /\ NoScan(m) /\ d # "scan" => NoScan(Append(m, d))
  <1> DEFINE t == Append(m, d)
  <1>1. /\ t \in Seq(Dialogs) /\ Len(t) = Len(m) + 1
        /\ \A i \in 1..Len(m) : t[i] = m[i]
        /\ t[Len(m) + 1] = d /\ Len(m) \in Nat
    BY AppendProperties, LenProperties
  <1> HIDE DEF t
  <1>2. \A i \in 1..(Len(m) + 1) : i \in 1..Len(m) \/ i = Len(m) + 1
    BY <1>1
  <1>3. NoScan(m) /\ d # "scan" => NoScan(t)
    BY <1>1, <1>2 DEF NoScan
  <1> QED BY <1>1, <1>3 DEF t

\* A single dialog.
LEMMA OneDialog ==
    ASSUME NEW d \in Dialogs
    PROVE  <<d>> \in Seq(Dialogs) /\ (d # "scan" => NoScan(<<d>>))
  BY DEF NoScan

LEMMA DialogsKept ==
    ASSUME WindowInv, [Next]_vars
    PROVE  DialogsOK'
  <1>0. SessionOK /\ DialogsOK /\ RequestsOK /\ Touches
    BY StepsTouch DEF WindowInv
  <1> HIDE DEF WindowInv
  <1>1. modal \in Seq(Dialogs) /\ (scanning => NoScan(modal))
    BY <1>0 DEF DialogsOK, NoScan
  <1>2. /\ {"scan", "settings", "format", "file"} \subseteq Dialogs
        /\ Boxes \subseteq Dialogs
        /\ {"busy", "invalid input", "exported", "export error",
            "scan error"} = Boxes
    BY DEF Dialogs, Boxes
  <1>3. SUFFICES modal' \in Seq(Dialogs) /\ (scanning' => NoScan(modal'))
    BY DEF DialogsOK, NoScan
  <1> DEFINE Shorter == /\ Front(modal) \in Seq(Dialogs)
                        /\ NoScan(modal) => NoScan(Front(modal))
  <1>4. modal # <<>> => Shorter
    BY <1>1, FrontShorter
  <1>5. CASE StartsScan
    <2>1. modal' = <<>>
      BY <1>0, <1>5, StartEffect
    <2> QED BY <2>1 DEF NoScan
  <1>6. CASE UNCHANGED modal /\ ~StartsScan
    <2>1. scanning' => scanning
      BY <1>0, <1>6 DEF Touches, scans, HearError, HearFinished, controller,
                        WorkerEnds, WorkerFails, Quit, Relaunch
    <2> QED BY <1>1, <1>6, <2>1
  <1>7. CASE HearError
    <2>1. modal' = Append(modal, "scan error") /\ UNCHANGED scanning
      BY <1>7 DEF HearError
    <2>2. "scan error" \in Dialogs /\ "scan error" # "scan"
      BY <1>2
    <2> QED BY <1>1, <2>1, <2>2, AppendLonger
  <1>8. CASE OpenScanDialog
    <2>1. modal' = <<"scan">> /\ ~scanning'
      BY <1>8 DEF OpenScanDialog, controller
    <2> QED BY <1>2, <2>1, OneDialog
  <1>9. CASE AlreadyScanning
    <2>1. modal' = <<"busy">>
      BY <1>9 DEF AlreadyScanning
    <2> QED BY <1>2, <2>1, OneDialog
  <1>10. CASE RejectForm
    <2>1. modal' = Append(modal, "invalid input") /\ UNCHANGED scanning
      BY <1>10 DEF RejectForm, controller
    <2>2. "invalid input" \in Dialogs /\ "invalid input" # "scan"
      BY <1>2
    <2> QED BY <1>1, <2>1, <2>2, AppendLonger
  <1>11. CASE OtherDialog
    <2>1. UNCHANGED scanning
      BY <1>11 DEF OtherDialog, OpenSettings, AcceptSettings, OpenExport,
                   PickFormat, Export, ExportFails, Cancel, CloseBox,
                   controller
    <2>2. CASE OpenSettings \/ OpenExport
      <3>1. modal' = <<"settings">> \/ modal' = <<"format">>
        BY <2>2 DEF OpenSettings, OpenExport
      <3> QED BY <1>2, <3>1, OneDialog
    <2>3. CASE AcceptSettings \/ Cancel \/ CloseBox
      <3>1. modal' = Front(modal) /\ modal # <<>>
        BY <2>3 DEF AcceptSettings, Cancel, CloseBox, At
      <3> QED BY <1>1, <1>4, <2>1, <3>1
    <2>4. ASSUME NEW d \in Dialogs, d # "scan", modal # <<>>,
                 modal' = Append(Front(modal), d)
          PROVE  modal' \in Seq(Dialogs) /\ (scanning' => NoScan(modal'))
      BY <1>1, <1>4, <2>1, <2>4, AppendLonger
    <2>5. CASE PickFormat \/ Export \/ ExportFails
      <3>1. PICK d \in {"file", "exported", "export error"} :
                modal # <<>> /\ modal' = Append(Front(modal), d)
        BY <2>5 DEF PickFormat, Export, ExportFails, At
      <3>2. d \in Dialogs /\ d # "scan"
        BY <1>2
      <3> QED BY <2>4, <3>1, <3>2
    <2> QED BY <1>11, <2>2, <2>3, <2>5 DEF OtherDialog
  <1>12. CASE Relaunch
    BY <1>12 DEF Relaunch, NoScan
  <1> QED BY <1>0, <1>5, <1>6, <1>7, <1>8, <1>9, <1>10, <1>11, <1>12
          DEF Touches

LEMMA StatusKept ==
    ASSUME WindowInv, [Next]_vars
    PROVE  StatusOK'
  <1>0. /\ SessionOK /\ DialogsOK /\ RequestsOK /\ StatusOK
        /\ Touches
    BY StepsTouch DEF WindowInv
  <1> HIDE DEF WindowInv
  <1> DEFINE n == Len(accepted)
  <1>1. n \in Nat /\ finished \in 0..n
    BY <1>0 DEF SessionOK
  <1> USE DEF StatusOK, StatusSettles
  <1>2. CASE StartsScan
    <2>1. PICK m \in 1..MaxPorts : accepted' = Append(accepted, m)
      BY <1>0, <1>2, StartEffect
    <2>2. Len(accepted') = n + 1
      BY <1>0, <2>1, AppendProperties DEF SessionOK
    <2>3. status' = "starting" /\ UNCHANGED finished
      BY <1>0, <1>2, StartEffect
    <2> QED BY <1>1, <2>2, <2>3
  <1>3. CASE HearFinished \/ AcceptSettings \/ MessageExpires \/ Relaunch
    BY <1>3 DEF HearFinished, AcceptSettings, MessageExpires, Relaunch
  <1>4. CASE HearProgress
    BY <1>4 DEF HearProgress, Session!HearProgress, Session!Hearing
  <1>5. CASE CloseBox
    BY <1>0, <1>5 DEF CloseBox, session
  <1>6. CASE Quit
    BY <1>0, <1>6 DEF Quit, Session!Close
  <1>7. CASE UNCHANGED <<status, accepted, finished, closed>>
    BY <1>0, <1>7
  <1>8. CASE HearError \/ WorkerEnds \/ WorkerFails
    BY <1>7, <1>8 DEF HearError, WorkerEnds, WorkerFails, Session!Cut, session
  <1> QED BY <1>0, <1>2, <1>3, <1>4, <1>5, <1>6, <1>7, <1>8
          DEF Touches, scans

\* Whatever is asked for is in scope: the dialog lets nothing else through, and
\* the demonstration is of this host.
LEMMA RequestInScope ==
    ASSUME NEW request, IsRequest(request),
           request = DemoRequest \/ Acceptable(request)
    PROVE  Internal(request.target) \/ request.consent
  <1>1. CASE request = DemoRequest
    <2> DEFINE octet == 0..255
               o == <<127, 0, 0, 1>>
    <2>1. o \in Octets(4)
      <3>1. 127 \in octet /\ 0 \in octet /\ 1 \in octet
        OBVIOUS
      <3> HIDE DEF octet
      <3>2. o \in [1..4 -> octet]
        BY <3>1
      <3> QED BY <3>2 DEF Octets, octet
    <2>2. is_private_v4(o)
      <3>1. o[1] = 127
        OBVIOUS
      <3> QED BY <3>1 DEF is_private_v4
    <2> HIDE DEF o
    <2>3. Internal(Target4(o))
      BY <2>1, <2>2, InternalV4
    <2>4. request.target = Target4(o)
      BY <1>1 DEF DemoRequest, Request, Loopback, V4, Target4, o
    <2> QED BY <2>3, <2>4
  <1>2. CASE Acceptable(request)
    <2>1. /\ request.target \in Address /\ request.consent \in BOOLEAN
          /\ check_scope(request.target, request.consent) = "Allowed"
      BY <1>2 DEF IsRequest, Acceptable
    <2> QED BY <2>1, ScopeJudged
  <1> QED BY <1>1, <1>2

LEMMA RequestsKept ==
    ASSUME WindowInv, [Next]_vars
    PROVE  RequestsOK'
  <1>0. SessionOK /\ DialogsOK /\ RequestsOK /\ Touches
    BY StepsTouch DEF WindowInv
  <1> HIDE DEF WindowInv
  <1>1. CASE StartsScan
    <2>1. PICK request : /\ IsRequest(request) /\ asked' = Scope(request)
                         /\ request = DemoRequest \/ Acceptable(request)
      BY <1>0, <1>1, StartEffect
    <2>2. form' = DefaultForm
      BY <1>0, <1>1, StartEffect
    <2>3. Internal(request.target) \/ request.consent
      BY <2>1, RequestInScope
    <2>4. asked'.target = request.target /\ asked'.consent = request.consent
      BY <2>1 DEF Scope
    <2>5. ScansInScope'
      BY <2>3, <2>4 DEF ScansInScope
    <2> QED BY <2>2, <2>5, FormTypes DEF RequestsOK
  <1>2. CASE Relaunch
    <2>1. form' = DefaultForm /\ asked' = Scope(DemoRequest)
      BY <1>2 DEF Relaunch
    <2>2. Internal(DemoRequest.target) \/ DemoRequest.consent
      BY FormTypes, RequestInScope
    <2>3. ScansInScope'
      BY <2>1, <2>2 DEF ScansInScope, Scope
    <2> QED BY <2>1, <2>3, FormTypes DEF RequestsOK
  <1>3. CASE UNCHANGED asked
    <2>1. form' = form \/ form' = DefaultForm \/ form' \in Forms
          \/ StartsScan \/ Relaunch
      BY <1>0 DEF Touches, EditForm, Cancel
    <2>2. ScansInScope'
      BY <1>0, <1>3 DEF RequestsOK, ScansInScope
    <2>3. form' = form \/ form' = DefaultForm \/ form' \in Forms
          => IsRequest(form')
      BY <1>0, FormTypes DEF RequestsOK
    <2> QED BY <1>1, <1>2, <2>1, <2>2, <2>3 DEF RequestsOK
  <1> QED BY <1>0, <1>1, <1>2, <1>3 DEF Touches

\* Settings the controller is told, on top of usable ones.
LEMMA AppliedType ==
    ASSUME NEW s \in SettingsType,
           NEW before, before.rate \in Int, before.timeout \in Int,
           before.rate > 0, before.timeout > 0
    PROVE  LET t == Applied(s, before)
           IN  /\ t \in SettingsType /\ t.rate > 0 /\ t.timeout > 0
               /\ s.rate > 0 => t.rate = s.rate
               /\ s.timeout > 0 => t.timeout = s.timeout
               /\ t.theme = s.theme
  BY DEF Applied, SettingsType

LEMMA UntouchedType ==
    ASSUME NEW s \in SettingsType
    PROVE  Untouched(s) \in SettingsType
  <1> DEFINE a == Within(s.rate, 1, 10000)
             b == Within(s.timeout, 100, 30000)
             t == [s EXCEPT !.rate = a]
  <1>1. a \in Int /\ b \in Int
    BY DEF SettingsType, Within
  <1>2. Untouched(s) = [s EXCEPT !.rate = a, !.timeout = b]
    BY DEF Untouched
  <1> HIDE DEF a, b
  <1>3. t \in SettingsType
    BY <1>1 DEF SettingsType
  <1>4. [t EXCEPT !.timeout = b] \in SettingsType
    <2> HIDE DEF t
    <2> QED BY <1>1, <1>3 DEF SettingsType
  <1> QED BY <1>2, <1>4

LEMMA SettingsKept ==
    ASSUME WindowInv, [Next]_vars
    PROVE  SettingsOK'
  <1>0. SettingsOK /\ Touches
    BY StepsTouch DEF WindowInv
  <1> HIDE DEF WindowInv
  <1>1. CASE UNCHANGED settings
    BY <1>0, <1>1 DEF SettingsOK, SettingsInForce, settings
  <1>2. ASSUME NEW s \in SettingsType, NEW before,
               before.rate \in Int, before.timeout \in Int,
               before.rate > 0, before.timeout > 0,
               stored' = s, inForce' = Applied(s, before)
        PROVE  SettingsOK'
    <2>1. /\ inForce' \in SettingsType
          /\ inForce'.rate > 0 /\ inForce'.timeout > 0
          /\ s.rate > 0 => inForce'.rate = s.rate
          /\ s.timeout > 0 => inForce'.timeout = s.timeout
          /\ inForce'.theme = s.theme
      BY <1>2, AppliedType
    <2> QED BY <1>2, <2>1 DEF SettingsOK, SettingsInForce
  <1>3. CASE AcceptSettings
    <2>1. PICK s \in Chosen \union {Untouched(stored)} :
              stored' = s /\ inForce' = Applied(s, inForce)
      BY <1>3 DEF AcceptSettings
    <2>2. s \in SettingsType
      BY <1>0, <2>1, ChosenAssumption, UntouchedType DEF SettingsOK
    <2>3. /\ inForce.rate \in Int /\ inForce.timeout \in Int
          /\ inForce.rate > 0 /\ inForce.timeout > 0
      BY <1>0 DEF SettingsOK, SettingsType
    <2> QED BY <1>2, <2>1, <2>2, <2>3
  <1>4. CASE Relaunch
    <2>1. stored' = stored /\ inForce' = Applied(stored, ControllerDefaults)
      BY <1>4 DEF Relaunch
    <2>2. /\ ControllerDefaults.rate \in Int
          /\ ControllerDefaults.timeout \in Int
          /\ ControllerDefaults.rate > 0 /\ ControllerDefaults.timeout > 0
      BY DEF ControllerDefaults
    <2>3. stored \in SettingsType
      BY <1>0 DEF SettingsOK
    <2> QED BY <1>2, <2>1, <2>2, <2>3
  <1> QED BY <1>0, <1>1, <1>3, <1>4 DEF Touches

-------------------------------------------------------------------------------
(* Table, chart and details.                                                 *)

LEMMA RowsAreRows ==
    ASSUME NEW rows \in Seq(AllRows)
    PROVE  /\ Len(rows) \in Nat /\ DOMAIN rows = 1..Len(rows)
           /\ \A i \in 1..Len(rows) : rows[i] \in AllRows /\ IsRow(rows[i])
  <1>1. \A r \in AllRows : IsRow(r)
    BY FoundAssumption, DummyRows DEF AllRows
  <1> HIDE DEF AllRows
  <1>2. /\ Len(rows) \in Nat /\ DOMAIN rows = 1..Len(rows)
        /\ \A i \in 1..Len(rows) : rows[i] \in AllRows
    BY LenProperties, ElementOfSeq
  <1> QED BY <1>1, <1>2

\* The table a main window starts with.
LEMMA NewTableOK ==
    /\ IsTable(NewTable) /\ NewTable.rows = make_dummy_results
    /\ NewTable.current = 0
  <1> DEFINE rows == make_dummy_results
             n == Len(rows)
             order == [i \in DOMAIN rows |-> i]
             sorted == Sorted(order, rows, RiskFirst)
             D == 1..n
  <1>1. /\ n = 10 /\ DOMAIN rows = D /\ \A i \in D : IsRow(rows[i])
        /\ \A i \in D : rows[i] \in AllRows
    BY DummyRows DEF AllRows
  <1>2. rows = [i \in D |-> rows[i]]
    BY <1>1 DEF make_dummy_results, RequiredProbes, ExtraSamples
  <1>3. n \in Nat
    BY <1>1
  <1>4. NewTable = [rows |-> rows, sort |-> RiskFirst, current |-> 0,
                    order |-> sorted]
    BY DEF NewTable
  <1> HIDE DEF rows, n, AllRows
  <1>5. rows \in Seq(AllRows) /\ Len(rows) = n
    <2>1. rows \in [1..n -> AllRows]
      BY <1>1, <1>2
    <2> HIDE DEF D
    <2> QED BY <1>3, <2>1, FunctionIsSeq
  <1>6. order \in [1..n -> D] /\ \A i \in 1..n : order[i] = i
    BY <1>1
  <1> HIDE DEF order, D
  <1>7. /\ sorted \in [1..n -> D]
        /\ \A k \in 1..n : \E p \in 1..n : sorted[p] = order[k]
        /\ Ordered(sorted, rows, RiskFirst)
    <2>1. order \in [1..n -> D] /\ \A i \in D : IsRow(rows[i])
      BY <1>1, <1>6
    <2> QED BY <1>3, <2>1, SortedSorts, Zenon
  <1> HIDE DEF sorted
  <1>8. sorted \in Seq(Nat) /\ Len(sorted) = n
    <2>1. sorted \in [1..n -> Nat]
      BY <1>7 DEF D
    <2> QED BY <1>3, <2>1, FunctionIsSeq
  <1>9. RiskFirst \in Sorting
    BY DEF RiskFirst, Sorting
  <1>10. NewTable \in Tables
    BY <1>4, <1>5, <1>8, <1>9 DEF Tables
  <1>11. /\ \A p \in 1..n : sorted[p] \in 1..n
         /\ \A i \in 1..n : \E p \in 1..n : sorted[p] = i
    BY <1>6, <1>7 DEF D
  <1> QED BY <1>3, <1>4, <1>5, <1>7, <1>8, <1>10, <1>11 DEF IsTable, rows

\* The table with one more row.
LEMMA RowAdded ==
    ASSUME NEW t, IsTable(t), NEW r \in Found, NEW u,
           u = LET rows == Append(t.rows, r)
               IN  [t EXCEPT !.rows = rows,
                             !.order = Placed(@, Len(rows), rows, t.sort)]
    PROVE  /\ IsTable(u) /\ u.rows = Append(t.rows, r)
           /\ u.current = t.current
  <1> DEFINE n == Len(t.rows)
             rows == Append(t.rows, r)
             placed == Placed(t.order, n + 1, rows, t.sort)
  <1>1. /\ t.rows \in Seq(AllRows) /\ t.order \in Seq(Nat)
        /\ t.current \in 0..n /\ Len(t.order) = n
    BY DEF IsTable, Tables
  <1>2. /\ rows \in Seq(AllRows) /\ Len(rows) = n + 1
        /\ \A i \in 1..n : rows[i] = t.rows[i]
        /\ rows[n + 1] = r /\ n \in Nat
    <2>1. r \in AllRows
      BY DEF AllRows
    <2> HIDE DEF AllRows
    <2> QED BY <1>1, <2>1, AppendProperties, LenProperties
  <1>3. u = [t EXCEPT !.rows = rows, !.order = placed]
    BY <1>2
  <1> HIDE DEF rows, n
  <1>4. \A i \in 1..(n + 1) : IsRow(rows[i])
    BY <1>2, RowsAreRows
  <1>5. \A k \in 1..n : t.order[k] \in 1..n /\ t.order[k] \in 1..(n + 1)
    BY <1>2 DEF IsTable, n
  <1>6. Ordered(t.order, rows, t.sort)
    <2>1. DOMAIN t.order = 1..n
      BY <1>1
    <2>2. \A k \in 1..n : Key(t.order, rows, t.sort, k)
                              = Key(t.order, t.rows, t.sort, k)
      BY <1>2, <1>5 DEF Key
    <2> QED BY <2>1, <2>2 DEF IsTable, Ordered
  <1>7. n + 1 \in Nat /\ n + 1 \in 1..(n + 1)
    BY <1>2
  <1>8. /\ placed \in Seq(Nat) /\ Len(placed) = n + 1
        /\ \A k \in 1..n : \E p \in 1..(n + 1) : placed[p] = t.order[k]
        /\ \E p \in 1..(n + 1) : placed[p] = n + 1
        /\ \A p \in 1..(n + 1) : \/ placed[p] = n + 1
                                 \/ \E k \in 1..n : placed[p] = t.order[k]
        /\ Ordered(placed, rows, t.sort)
    <2> DEFINE i == n + 1
    <2>1. i \in Nat /\ IsRow(rows[i]) /\ \A k \in 1..n : IsRow(rows[t.order[k]])
      BY <1>4, <1>5, <1>7
    <2> QED BY <1>1, <1>2, <1>6, <2>1, PlacedSorts
  <1> HIDE DEF placed
  <1>9. /\ u \in Tables /\ u.rows = rows /\ u.order = placed
        /\ u.current = t.current /\ u.sort = t.sort
    <2> DEFINE Rows == Seq(AllRows)
               Orders == Seq(Nat)
               v == [t EXCEPT !.rows = rows]
    <2>1. /\ Tables = [rows : Rows, order : Orders, current : Nat,
                       sort : Sorting]
          /\ t \in Tables /\ rows \in Rows /\ placed \in Orders
      BY <1>2, <1>8 DEF IsTable, Tables
    <2>2. u = [v EXCEPT !.order = placed]
      BY <1>3
    <2> HIDE DEF Rows, Orders
    <2>3. /\ v \in Tables /\ v.rows = rows
          /\ v.current = t.current /\ v.sort = t.sort
      BY <2>1
    <2> HIDE DEF v
    <2>4. /\ u \in Tables /\ u.rows = v.rows /\ u.order = placed
          /\ u.current = v.current /\ u.sort = v.sort
      BY <2>1, <2>2, <2>3
    <2> QED BY <2>3, <2>4
  <1>10. \A p \in 1..(n + 1) : placed[p] \in 1..(n + 1)
    BY <1>5, <1>7, <1>8
  <1>11. ASSUME NEW i \in 1..(n + 1)
         PROVE  \E p \in 1..(n + 1) : placed[p] = i
    <2>1. CASE i = n + 1
      BY <1>8, <2>1
    <2>2. CASE i \in 1..n
      <3>1. PICK k \in 1..n : t.order[k] = i
        BY <2>2 DEF IsTable, n
      <3> QED BY <1>8, <3>1
    <2> QED BY <1>2, <2>1, <2>2
  <1>12. t.current \in 0..(n + 1)
    BY <1>1, <1>2
  <1>13. Len(u.rows) = n + 1 /\ Len(u.order) = n + 1
    BY <1>2, <1>8, <1>9
  <1>14. IsTable(u)
    <2>1. /\ \A p \in 1..Len(u.rows) : u.order[p] \in 1..Len(u.rows)
          /\ \A i \in 1..Len(u.rows) :
                 \E p \in 1..Len(u.rows) : u.order[p] = i
      BY <1>9, <1>10, <1>11, <1>13
    <2>2. u.current \in 0..Len(u.rows)
      BY <1>9, <1>12, <1>13
    <2>3. Ordered(u.order, u.rows, u.sort)
      BY <1>8, <1>9
    <2> QED BY <1>9, <1>13, <2>1, <2>2, <2>3 DEF IsTable
  <1> QED BY <1>9, <1>14 DEF rows

\* The table sorted anew.
LEMMA SortedAnew ==
    ASSUME NEW t, IsTable(t), NEW by \in Sorting, NEW u,
           u = [t EXCEPT !.sort = by, !.order = Sorted(@, t.rows, by)]
    PROVE  IsTable(u) /\ u.rows = t.rows /\ u.current = t.current
  <1> DEFINE n == Len(t.rows)
             sorted == Sorted(t.order, t.rows, by)
             D == 1..n
  <1>1. /\ t.rows \in Seq(AllRows) /\ t.order \in Seq(Nat)
        /\ t.current \in 0..n /\ Len(t.order) = n
    BY DEF IsTable, Tables
  <1>2. n \in Nat /\ \A i \in D : IsRow(t.rows[i])
    BY <1>1, RowsAreRows
  <1>3. \A k \in 1..n : t.order[k] \in D
    BY DEF IsTable
  <1>4. t.order \in [1..n -> D]
    <2>1. t.order = [k \in 1..n |-> t.order[k]]
      BY <1>1
    <2> HIDE DEF n, D
    <2> QED BY <1>3, <2>1
  <1>5. \A i \in D : \E k \in 1..n : t.order[k] = i
    BY DEF IsTable
  <1>6. u = [t EXCEPT !.sort = by, !.order = sorted]
    OBVIOUS
  <1> HIDE DEF n, D
  <1>7. /\ sorted \in [1..n -> D]
        /\ \A k \in 1..n : \E p \in 1..n : sorted[p] = t.order[k]
        /\ Ordered(sorted, t.rows, by)
    BY <1>2, <1>4, SortedSorts, Zenon
  <1> HIDE DEF sorted
  <1>8. sorted \in Seq(Nat) /\ Len(sorted) = n
    <2>0. \A i \in D : i \in Nat
      BY <1>2 DEF D
    <2>1. sorted \in [1..n -> Nat]
      BY <1>7, <2>0
    <2> QED BY <1>2, <2>1, FunctionIsSeq
  <1>9. /\ u \in Tables /\ u.rows = t.rows /\ u.order = sorted
        /\ u.current = t.current /\ u.sort = by
    <2> DEFINE Rows == Seq(AllRows)
               Orders == Seq(Nat)
               v == [t EXCEPT !.sort = by]
    <2>1. /\ Tables = [rows : Rows, order : Orders, current : Nat,
                       sort : Sorting]
          /\ t \in Tables /\ sorted \in Orders
      BY <1>8 DEF IsTable, Tables
    <2>2. u = [v EXCEPT !.order = sorted]
      BY <1>6
    <2> HIDE DEF Rows, Orders
    <2>3. /\ v \in Tables /\ v.rows = t.rows
          /\ v.current = t.current /\ v.sort = by
      BY <2>1
    <2> HIDE DEF v
    <2>4. /\ u \in Tables /\ u.rows = v.rows /\ u.order = sorted
          /\ u.current = v.current /\ u.sort = v.sort
      BY <2>1, <2>2, <2>3
    <2> QED BY <2>3, <2>4
  <1>10. Len(u.rows) = n /\ Len(u.order) = n
    BY <1>8, <1>9 DEF n
  <1>11. /\ \A p \in 1..n : sorted[p] \in D
         /\ \A i \in D : \E p \in 1..n : sorted[p] = i
    BY <1>5, <1>7
  <1>12. /\ \A p \in 1..Len(u.rows) : u.order[p] \in 1..Len(u.rows)
         /\ \A i \in 1..Len(u.rows) :
                \E p \in 1..Len(u.rows) : u.order[p] = i
    BY <1>9, <1>10, <1>11 DEF D
  <1>13. u.current \in 0..Len(u.rows)
    BY <1>1, <1>9, <1>10
  <1>14. Ordered(u.order, u.rows, u.sort)
    BY <1>7, <1>9
  <1> QED BY <1>9, <1>10, <1>12, <1>13, <1>14 DEF IsTable

\* Another row selected.
LEMMA RowSelected ==
    ASSUME NEW t, IsTable(t), NEW row \in 1..Len(t.rows), NEW u,
           u = [t EXCEPT !.current = row]
    PROVE  IsTable(u) /\ u.rows = t.rows /\ u.current = row
  <1> DEFINE Rows == Seq(AllRows)
             Orders == Seq(Nat)
  <1>1. /\ Tables = [rows : Rows, order : Orders, current : Nat,
                     sort : Sorting]
        /\ t \in Tables
    BY DEF IsTable, Tables
  <1>2. Len(t.rows) \in Nat /\ row \in Nat /\ row \in 0..Len(t.rows)
    BY RowsAreRows DEF IsTable, Tables
  <1> HIDE DEF Rows, Orders
  <1>3. /\ u \in Tables /\ u.rows = t.rows /\ u.order = t.order
        /\ u.sort = t.sort /\ u.current = row
    BY <1>1, <1>2
  <1> QED BY <1>2, <1>3 DEF IsTable

\* A click on a point finds one.
LEMMA PointFound ==
    ASSUME TableOK, ChartOK, NEW at \in DOMAIN points
    PROVE  on_scatter_clicked(points[at]) \in DOMAIN points
  <1> DEFINE nearest == {i \in DOMAIN points : points[i] = points[at]}
             n == Len(table.rows)
             First(i) == \A k \in nearest : i <= k
  <1>1. n \in Nat /\ nearest \in SUBSET (1..n) /\ at \in nearest
    BY RowsAreRows DEF TableOK, IsTable, Tables, ChartOK
  <1>2. on_scatter_clicked(points[at]) = CHOOSE i \in nearest : First(i)
    BY DEF on_scatter_clicked
  <1>3. \A i \in nearest : i \in DOMAIN points
    OBVIOUS
  <1> HIDE DEF nearest, n
  <1>4. IsFiniteSet(nearest)
    <2>1. IsFiniteSet(1..n) /\ nearest \subseteq 1..n
      BY <1>1, FS_Interval
    <2> QED BY <2>1, FS_Subset
  <1>5. nearest # {} /\ \A i \in nearest : i \in Int
    BY <1>1
  <1>6. \E i \in nearest : \A k \in nearest : i <= k
    BY <1>4, <1>5, HasLeast
  <1> QED BY <1>2, <1>3, <1>6

\* What the actions do to the table.
LEMMA TableSteps ==
    ASSUME TableOK, ChartOK, [Next]_vars
    PROVE  /\ HearResult =>
                /\ IsTable(table') /\ table'.current = table.current
                /\ \E r \in Found : table'.rows = Append(table.rows, r)
                /\ unseen' = unseen + 1
           /\ HearFinished => UNCHANGED table /\ unseen' = 0
           /\ Sorts => /\ IsTable(table') /\ UNCHANGED unseen
                       /\ table'.rows = table.rows
                       /\ table'.current = table.current
           /\ Selects => /\ IsTable(table') /\ UNCHANGED unseen
                         /\ table'.rows = table.rows
                         /\ table'.current \in 1..Len(table.rows)
                         /\ details' = Details(table.rows[table'.current])
  <1>0. IsTable(table)
    BY DEF TableOK
  <1>1. ASSUME HearResult
        PROVE  /\ IsTable(table') /\ table'.current = table.current
               /\ \E r \in Found : table'.rows = Append(table.rows, r)
               /\ unseen' = unseen + 1
    <2>1. AppendResult /\ unseen' = unseen + 1
      BY <1>1 DEF HearResult
    <2>2. PICK r \in Found :
              table' = LET rows == Append(table.rows, r)
                       IN  [table EXCEPT !.rows = rows,
                                !.order = Placed(@, Len(rows), rows,
                                                 table.sort)]
      BY <2>1 DEF AppendResult
    <2>3. /\ IsTable(table') /\ table'.rows = Append(table.rows, r)
          /\ table'.current = table.current
      BY <1>0, <2>2, RowAdded
    <2> QED BY <2>1, <2>3
  <1>2. HearFinished => UNCHANGED table /\ unseen' = 0
    BY DEF HearFinished
  <1>3. ASSUME Sorts
        PROVE  /\ IsTable(table') /\ UNCHANGED unseen
               /\ table'.rows = table.rows /\ table'.current = table.current
    <2>1. PICK column \in Columns : SortBy(column)
      BY <1>3 DEF Sorts
    <2> DEFINE by == IF table.sort.column = column
                     THEN [table.sort EXCEPT !.descending = ~@]
                     ELSE [column |-> column, descending |-> FALSE]
    <2>2. /\ UNCHANGED unseen
          /\ table' = [table EXCEPT !.sort = by,
                                    !.order = Sorted(@, table.rows, by)]
      BY <2>1 DEF SortBy
    <2>3. by \in Sorting
      <3>1. table.sort \in Sorting
        BY <1>0 DEF IsTable, Tables
      <3> QED BY <2>1, <3>1 DEF Sorting
    <2> HIDE DEF by
    <2> QED BY <1>0, <2>2, <2>3, SortedAnew
  <1>4. ASSUME Selects
        PROVE  /\ IsTable(table') /\ UNCHANGED unseen
               /\ table'.rows = table.rows
               /\ table'.current \in 1..Len(table.rows)
               /\ details' = Details(table.rows[table'.current])
    <2>1. PICK at \in Clicks : SelectRow(at) \/ ClickPoint(at)
      BY <1>4 DEF Selects
    <2>2. ASSUME NEW row \in 1..Len(table.rows),
                 table' = [table EXCEPT !.current = row],
                 details' = Details(table.rows[row]), UNCHANGED unseen
          PROVE  /\ IsTable(table') /\ UNCHANGED unseen
                 /\ table'.rows = table.rows
                 /\ table'.current \in 1..Len(table.rows)
                 /\ details' = Details(table.rows[table'.current])
      BY <1>0, <2>2, RowSelected
    <2>3. CASE SelectRow(at)
      <3>1. /\ at \in DOMAIN table.order /\ UNCHANGED unseen
            /\ table' = [table EXCEPT !.current = table.order[at]]
            /\ details' = Details(table.rows[table.order[at]])
        BY <2>3 DEF SelectRow
      <3>2. DOMAIN table.order = 1..Len(table.rows)
        <4>1. table.order \in Seq(Nat) /\ Len(table.order) = Len(table.rows)
          BY <1>0 DEF IsTable, Tables
        <4> QED BY <4>1
      <3>3. table.order[at] \in 1..Len(table.rows)
        BY <1>0, <3>1, <3>2 DEF IsTable
      <3> QED BY <2>2, <3>1, <3>3
    <2>4. CASE ClickPoint(at)
      <3> DEFINE row == on_scatter_clicked(points[at])
      <3>1. /\ at \in DOMAIN points /\ UNCHANGED unseen
            /\ table' = [table EXCEPT !.current = row]
            /\ details' = Details(table.rows[row])
        BY <2>4 DEF ClickPoint
      <3>2. row \in DOMAIN points
        BY <3>1, PointFound
      <3> HIDE DEF row
      <3>3. row \in 1..Len(table.rows)
        BY <3>2 DEF ChartOK
      <3> QED BY <2>2, <3>1, <3>3
    <2> QED BY <2>1, <2>3, <2>4
  <1> QED BY <1>1, <1>2, <1>3, <1>4

LEMMA TableKept ==
    ASSUME WindowInv, [Next]_vars
    PROVE  TableOK'
  <1>0. TableOK /\ ChartOK /\ Touches
    BY StepsTouch DEF WindowInv
  <1> HIDE DEF WindowInv
  <1> DEFINE n == Len(table.rows)
             d == Len(make_dummy_results)
  <1>1. /\ table.rows \in Seq(AllRows) /\ n \in Nat /\ unseen \in 0..(n - d)
        /\ d \in Nat
    BY <1>0, DummyRows, RowsAreRows DEF TableOK, IsTable, Tables
  <1>2. CASE UNCHANGED <<table, unseen>>
    BY <1>0, <1>2 DEF TableOK, IsTable
  <1>3. CASE HearResult
    <2>1. /\ IsTable(table') /\ unseen' = unseen + 1
          /\ \E r \in Found : table'.rows = Append(table.rows, r)
      BY <1>0, <1>3, TableSteps
    <2>2. Len(table'.rows) = n + 1
      <3>1. \A r \in Found : r \in AllRows
        BY DEF AllRows
      <3> HIDE DEF AllRows
      <3> QED BY <1>1, <2>1, <3>1, AppendProperties
    <2>3. unseen + 1 \in 0..(n + 1 - d)
      BY <1>1
    <2> QED BY <2>1, <2>2, <2>3 DEF TableOK, IsTable
  <1>4. CASE HearFinished
    <2>1. UNCHANGED table /\ unseen' = 0
      BY <1>0, <1>4, TableSteps
    <2>2. 0 \in 0..(n - d)
      BY <1>1
    <2> QED BY <1>0, <2>1, <2>2 DEF TableOK, IsTable
  <1>5. CASE Sorts \/ Selects
    <2>1. IsTable(table') /\ UNCHANGED unseen /\ table'.rows = table.rows
      BY <1>0, <1>5, TableSteps
    <2> QED BY <1>0, <2>1 DEF TableOK, IsTable
  <1>6. CASE Relaunch
    <2>1. table' = NewTable /\ unseen' = 0
      BY <1>6 DEF Relaunch
    <2>2. 0 \in 0..(d - d)
      BY <1>1
    <2> QED BY <2>1, <2>2, NewTableOK DEF TableOK, IsTable
  <1> QED BY <1>0, <1>2, <1>3, <1>4, <1>5, <1>6 DEF Touches

\* A chart drawn of the rows there are.
LEMMA ChartDrawn ==
    ASSUME NEW rows \in Seq(AllRows)
    PROVE  LET drawn == updateData(rows)
           IN  /\ DOMAIN drawn \in SUBSET (1..Len(rows))
               /\ \A i \in DOMAIN drawn :
                      /\ Charted(rows[i])
                      /\ drawn[i].cvss = max_cvss(rows[i])
                      /\ drawn[i].epss = max_epss(rows[i])
               /\ \A i \in 1..Len(rows) :
                      Charted(rows[i]) => i \in DOMAIN drawn
  <1>1. DOMAIN rows = 1..Len(rows)
    BY RowsAreRows
  <1> QED BY <1>1 DEF updateData

LEMMA ChartKept ==
    ASSUME WindowInv, [Next]_vars
    PROVE  ChartOK'
  <1>0. TableOK /\ ChartOK /\ Touches
    BY StepsTouch DEF WindowInv
  <1> HIDE DEF WindowInv
  <1> DEFINE n == Len(table.rows)
  <1>1. /\ table.rows \in Seq(AllRows) /\ n \in Nat
        /\ unseen \in Nat /\ unseen <= n
    BY <1>0, DummyRows, RowsAreRows DEF TableOK, IsTable, Tables
  <1>2. /\ DOMAIN points \in SUBSET (1..n)
        /\ \A i \in DOMAIN points :
               /\ Charted(table.rows[i])
               /\ points[i].cvss = max_cvss(table.rows[i])
               /\ points[i].epss = max_epss(table.rows[i])
        /\ \A i \in 1..(n - unseen) :
               Charted(table.rows[i]) => i \in DOMAIN points
    BY <1>0 DEF ChartOK, ChartShowsRows
  <1>3. CASE HearFinished
    <2>1. UNCHANGED table /\ unseen' = 0 /\ points' = updateData(table.rows)
      BY <1>0, <1>3, TableSteps DEF HearFinished
    <2> DEFINE drawn == updateData(table.rows)
    <2>2. /\ DOMAIN drawn \in SUBSET (1..n)
          /\ \A i \in DOMAIN drawn :
                 /\ Charted(table.rows[i])
                 /\ drawn[i].cvss = max_cvss(table.rows[i])
                 /\ drawn[i].epss = max_epss(table.rows[i])
          /\ \A i \in 1..n : Charted(table.rows[i]) => i \in DOMAIN drawn
      BY <1>1, ChartDrawn
    <2>3. n - 0 = n
      BY <1>1
    <2> HIDE DEF drawn
    <2>4. points' = drawn
      BY <2>1 DEF drawn
    <2> QED BY <2>1, <2>2, <2>3, <2>4 DEF ChartOK, ChartShowsRows
  <1>4. CASE Relaunch
    <2>1. /\ table' = NewTable /\ unseen' = 0
          /\ points' = updateData(NewTable.rows)
      BY <1>4 DEF Relaunch
    <2> DEFINE rows == NewTable.rows
               drawn == updateData(rows)
    <2>2. rows \in Seq(AllRows)
      BY NewTableOK DEF IsTable, Tables
    <2>3. /\ DOMAIN drawn \in SUBSET (1..Len(rows))
          /\ \A i \in DOMAIN drawn :
                 /\ Charted(rows[i])
                 /\ drawn[i].cvss = max_cvss(rows[i])
                 /\ drawn[i].epss = max_epss(rows[i])
          /\ \A i \in 1..Len(rows) : Charted(rows[i]) => i \in DOMAIN drawn
      BY <2>2, ChartDrawn
    <2>4. Len(rows) - 0 = Len(rows)
      BY <2>2, RowsAreRows
    <2>5. points' = drawn
      BY <2>1
    <2>6. table'.rows = rows
      BY <2>1
    <2> HIDE DEF drawn, rows
    <2> QED BY <2>1, <2>3, <2>4, <2>5, <2>6 DEF ChartOK, ChartShowsRows
  <1>5. CASE HearResult /\ UNCHANGED points
    <2>1. unseen' = unseen + 1
      BY <1>0, <1>5, TableSteps
    <2>2. PICK r \in Found : table'.rows = Append(table.rows, r)
      BY <1>0, <1>5, TableSteps
    <2>3. /\ Len(table'.rows) = n + 1
          /\ \A i \in 1..n : table'.rows[i] = table.rows[i]
      <3>1. r \in AllRows
        BY DEF AllRows
      <3> HIDE DEF AllRows
      <3> QED BY <1>1, <2>2, <3>1, AppendProperties
    <2>4. Len(table'.rows) - unseen' = n - unseen
      BY <1>1, <2>1, <2>3
    <2>5. \A i \in 1..(n - unseen) : i \in 1..n
      BY <1>1
    <2>6. \A i \in 1..n : i \in 1..Len(table'.rows)
      BY <1>1, <2>3
    <2>7. DOMAIN points' \in SUBSET (1..Len(table'.rows))
      BY <1>2, <1>5, <2>6
    <2>8. \A i \in DOMAIN points' :
              /\ Charted(table'.rows[i])
              /\ points'[i].cvss = max_cvss(table'.rows[i])
              /\ points'[i].epss = max_epss(table'.rows[i])
      BY <1>2, <1>5, <2>3
    <2>9. \A i \in 1..(Len(table'.rows) - unseen') :
              Charted(table'.rows[i]) => i \in DOMAIN points'
      BY <1>2, <1>5, <2>3, <2>4, <2>5
    <2> QED BY <2>7, <2>8, <2>9 DEF ChartOK, ChartShowsRows
  <1>6. CASE UNCHANGED <<points, unseen>> /\ table'.rows = table.rows
    BY <1>0, <1>6 DEF ChartOK, ChartShowsRows
  <1>7. Sorts \/ Selects => UNCHANGED unseen /\ table'.rows = table.rows
    BY <1>0, TableSteps
  <1> QED BY <1>0, <1>3, <1>4, <1>5, <1>6, <1>7 DEF Touches

LEMMA DetailsKept ==
    ASSUME WindowInv, [Next]_vars
    PROVE  DetailsOfSelection'
  <1>0. TableOK /\ ChartOK /\ DetailsOfSelection /\ Touches
    BY StepsTouch DEF WindowInv
  <1> HIDE DEF WindowInv
  <1> DEFINE n == Len(table.rows)
  <1>1. /\ table.rows \in Seq(AllRows) /\ n \in Nat /\ table.current \in 0..n
    BY <1>0, RowsAreRows DEF TableOK, IsTable, Tables
  <1>2. details = IF table.current = 0 THEN NoDetails
                  ELSE Details(table.rows[table.current])
    BY <1>0 DEF DetailsOfSelection
  <1>3. CASE Selects
    <2>1. /\ table'.rows = table.rows /\ table'.current \in 1..n
          /\ details' = Details(table.rows[table'.current])
      BY <1>0, <1>3, TableSteps
    <2>2. table'.current # 0
      BY <1>1, <2>1
    <2> QED BY <2>1, <2>2 DEF DetailsOfSelection
  <1>4. CASE Relaunch
    BY <1>4, NewTableOK DEF Relaunch, DetailsOfSelection
  <1>5. CASE HearResult /\ UNCHANGED details
    <2>1. table'.current = table.current
      BY <1>0, <1>5, TableSteps
    <2>2. PICK r \in Found : table'.rows = Append(table.rows, r)
      BY <1>0, <1>5, TableSteps
    <2>3. \A i \in 1..n : table'.rows[i] = table.rows[i]
      <3>1. r \in AllRows
        BY DEF AllRows
      <3> HIDE DEF AllRows
      <3> QED BY <1>1, <2>2, <3>1, AppendProperties
    <2>4. table.current = 0 \/ table.current \in 1..n
      BY <1>1
    <2> QED BY <1>2, <1>5, <2>1, <2>3, <2>4 DEF DetailsOfSelection
  <1>6. CASE /\ UNCHANGED details
             /\ table'.rows = table.rows /\ table'.current = table.current
    BY <1>2, <1>6 DEF DetailsOfSelection
  <1>7. HearFinished \/ Sorts =>
            table'.rows = table.rows /\ table'.current = table.current
    BY <1>0, TableSteps
  <1> QED BY <1>0, <1>3, <1>4, <1>5, <1>6, <1>7 DEF Touches

-------------------------------------------------------------------------------
(* The theorems.                                                             *)

LEMMA WindowStarts ==
    ASSUME Init
    PROVE  WindowInv
  <1>1. SessionOK
    <2>1. /\ accepted = <<>> /\ cut = {} /\ finished = 0 /\ warned = {}
          /\ scanning = FALSE /\ closed = FALSE
      BY DEF Init, Session!Init
    <2>2. accepted \in Seq(1..MaxPorts) /\ Len(accepted) = 0
      BY <2>1, EmptySeq
    <2>3. Len(accepted) <= MaxScans
      BY <2>2, BoundsAssumption
    <2>4. finished \in 0..Len(accepted)
      BY <2>1, <2>2
    <2> QED BY <2>1, <2>2, <2>3, <2>4 DEF SessionOK
  <1>2. DialogsOK /\ StatusOK
    BY DEF Init, DialogsOK, StatusOK, StatusSettles
  <1>3. RequestsOK
    <2>1. form = DefaultForm /\ asked = Scope(DemoRequest)
      BY DEF Init
    <2>2. Internal(DemoRequest.target) \/ DemoRequest.consent
      BY FormTypes, RequestInScope
    <2>3. ScansInScope
      BY <2>1, <2>2 DEF ScansInScope, Scope
    <2> QED BY <2>1, <2>3, FormTypes DEF RequestsOK
  <1>4. SettingsOK
    <2>1. /\ stored \in SettingsType
          /\ inForce = Applied(stored, ControllerDefaults)
      BY SavedAssumption DEF Init
    <2>2. /\ ControllerDefaults.rate \in Int
          /\ ControllerDefaults.timeout \in Int
          /\ ControllerDefaults.rate > 0 /\ ControllerDefaults.timeout > 0
      BY DEF ControllerDefaults
    <2>3. /\ inForce \in SettingsType
          /\ inForce.rate > 0 /\ inForce.timeout > 0
          /\ stored.rate > 0 => inForce.rate = stored.rate
          /\ stored.timeout > 0 => inForce.timeout = stored.timeout
          /\ inForce.theme = stored.theme
      BY <2>1, <2>2, AppliedType
    <2> QED BY <2>1, <2>3 DEF SettingsOK, SettingsInForce
  <1>5. /\ table = NewTable /\ unseen = 0 /\ details = NoDetails
        /\ points = updateData(NewTable.rows)
    BY DEF Init
  <1>6. TableOK
    <2> DEFINE d == Len(make_dummy_results)
    <2>1. 0 \in 0..(d - d)
      BY DummyRows
    <2> QED BY <1>5, <2>1, NewTableOK DEF TableOK
  <1>7. ChartOK
    <2> DEFINE rows == table.rows
               drawn == updateData(rows)
    <2>1. rows \in Seq(AllRows)
      BY <1>5, NewTableOK DEF IsTable, Tables
    <2>2. /\ DOMAIN drawn \in SUBSET (1..Len(rows))
          /\ \A i \in DOMAIN drawn :
                 /\ Charted(rows[i])
                 /\ drawn[i].cvss = max_cvss(rows[i])
                 /\ drawn[i].epss = max_epss(rows[i])
          /\ \A i \in 1..Len(rows) : Charted(rows[i]) => i \in DOMAIN drawn
      BY <2>1, ChartDrawn
    <2>3. Len(rows) - 0 = Len(rows)
      BY <2>1, RowsAreRows
    <2>4. points = drawn
      BY <1>5
    <2> HIDE DEF drawn
    <2> QED BY <1>5, <2>2, <2>3, <2>4 DEF ChartOK, ChartShowsRows
  <1>8. DetailsOfSelection
    BY <1>5, NewTableOK DEF DetailsOfSelection
  <1> QED BY <1>1, <1>2, <1>3, <1>4, <1>6, <1>7, <1>8 DEF WindowInv

\* The invariant of the window, for every set of rows that may be found, every
\* text that may be left in the dialogs and every content of the settings file
\* (main_window.cpp): it is inductive, one lemma above for each of its parts.
THEOREM WindowInvariant == Spec => []WindowInv
  <1>1. Init => WindowInv
    BY WindowStarts
  <1>2. WindowInv /\ [Next]_vars => WindowInv'
    <2>1. ASSUME WindowInv, [Next]_vars
          PROVE  WindowInv'
      BY <2>1, SessionKept, DialogsKept, StatusKept, RequestsKept,
         SettingsKept, TableKept, ChartKept, DetailsKept DEF WindowInv
    <2> QED BY <2>1
  <1> QED BY <1>1, <1>2, PTL DEF Spec

LEMMA WindowTypesHold ==
    ASSUME WindowInv
    PROVE  TypeOK
  <1>1. /\ table.rows \in Seq(AllRows) /\ table.order \in Seq(Nat)
        /\ Len(table.order) = Len(table.rows) /\ Len(table.rows) \in Nat
        /\ table.current \in 0..Len(table.rows)
        /\ DOMAIN table.rows = 1..Len(table.rows)
    BY RowsAreRows DEF WindowInv, TableOK, IsTable, Tables
  <1>2. DOMAIN table.order = 1..Len(table.rows)
    BY <1>1
  <1>3. Range(table.order) = DOMAIN table.rows
    <2>1. /\ \A p \in 1..Len(table.rows) :
                 table.order[p] \in 1..Len(table.rows)
          /\ \A i \in 1..Len(table.rows) :
                 \E p \in 1..Len(table.rows) : table.order[p] = i
      BY DEF WindowInv, TableOK, IsTable
    <2> QED BY <1>1, <1>2, <2>1 DEF Range
  <1>4. table.current \in {0} \union DOMAIN table.rows
    BY <1>1
  <1>5. /\ SessionOK /\ modal \in Seq(Dialogs)
        /\ status \in {"starting", "scanning", "brief", ""}
        /\ stored \in SettingsType /\ inForce \in SettingsType
        /\ inForce.rate > 0 /\ inForce.timeout > 0
        /\ unseen \in 0..(Len(table.rows) - Len(make_dummy_results))
    BY DEF WindowInv, DialogsOK, StatusOK, SettingsOK, TableOK
  <1> QED BY <1>1, <1>3, <1>4, <1>5 DEF TypeOK, SessionOK

\* A table by falling risk, read through the CVEs of its rows.
LEMMA RiskiestAbove ==
    ASSUME TableOK
    PROVE  RiskiestFirst
  <1> DEFINE n == Len(table.rows)
  <1>1. /\ table.rows \in Seq(AllRows) /\ Len(table.order) = n /\ n \in Nat
        /\ \A i \in 1..n : IsRow(table.rows[i])
        /\ \A p \in 1..n : table.order[p] \in 1..n
    BY RowsAreRows DEF TableOK, IsTable, Tables
  <1>2. DOMAIN table.order = 1..n
    <2>1. table.order \in Seq(Nat)
      BY DEF TableOK, IsTable, Tables
    <2> QED BY <1>1, <2>1
  <1> HIDE DEF n
  <1>3. SUFFICES ASSUME table.sort = RiskFirst,
                        NEW k \in 1..(n - 1),
                        NEW j \in DOMAIN table.rows[table.order[k + 1]].cves,
                        LET below == table.rows[table.order[k + 1]].cves
                        IN  below[j].cvss * below[j].epss > 0
                 PROVE  LET above == table.rows[table.order[k]].cves
                            below == table.rows[table.order[k + 1]].cves
                        IN  \E i \in DOMAIN above :
                                risk(above[i]) >= risk(below[j])
    BY <1>1 DEF RiskiestFirst
  <1> DEFINE upper == table.rows[table.order[k]]
             lower == table.rows[table.order[k + 1]]
  <1>4. k \in 1..n /\ k + 1 \in 1..n /\ k < k + 1
    BY <1>1
  <1>5. IsRow(upper) /\ IsRow(lower)
    BY <1>1, <1>4
  <1>6. risk(lower.cves[j]) > 0
    BY <1>3 DEF risk
  <1>7. j \in DOMAIN lower.cves
    BY <1>3
  <1>8. ~(max_risk(lower) > max_risk(upper))
    <2>1. ~Before(Key(table.order, table.rows, table.sort, k + 1),
                  Key(table.order, table.rows, table.sort, k), table.sort)
      BY <1>2, <1>4 DEF TableOK, IsTable, Ordered
    <2>2. table.sort.column = "Risk" /\ table.sort.descending
      BY <1>3 DEF RiskFirst
    <2>3. /\ Key(table.order, table.rows, table.sort, k + 1) = max_risk(lower)
          /\ Key(table.order, table.rows, table.sort, k) = max_risk(upper)
      BY <2>2, RiskKey DEF Key
    <2> HIDE DEF upper, lower
    <2> QED BY <2>1, <2>2, <2>3 DEF Before
  <1> HIDE DEF upper, lower
  <1>9. /\ max_risk(lower) \in Int /\ risk(lower.cves[j]) \in Int
        /\ risk(lower.cves[j]) <= max_risk(lower)
    BY <1>5, <1>7, RiskOfRow
  <1>10. /\ max_risk(upper) \in Int
         /\ \/ max_risk(upper) = 0
            \/ \E i \in DOMAIN upper.cves :
                   risk(upper.cves[i]) = max_risk(upper)
    BY <1>5, RiskOfRow
  <1>11. PICK i \in DOMAIN upper.cves : risk(upper.cves[i]) = max_risk(upper)
    BY <1>6, <1>8, <1>9, <1>10
  <1>12. risk(upper.cves[i]) >= risk(lower.cves[j])
    BY <1>8, <1>9, <1>10, <1>11
  <1> QED BY <1>11, <1>12 DEF upper, lower

\* Type correctness of the window's state, of the table in particular: its order
\* is one of all its rows, whatever is sorted, added or selected
\* (main_window.cpp, result_model.cpp).
THEOREM WindowTypes == Spec => []TypeOK
  BY WindowInvariant, WindowTypesHold, PTL

\* Every point of the chart lies on its row, and every row of the finished scans
\* that belongs on the chart is there (main_window.cpp:177-182,
\* charts_panel.cpp:85-101).
THEOREM ChartTruthful == Spec => []ChartShowsRows
  <1>1. WindowInv => ChartShowsRows
    BY DEF WindowInv, ChartOK
  <1> QED BY <1>1, WindowInvariant, PTL

\* The details panel shows the row that is selected, however it was selected and
\* whatever happened to the table since (main_window.cpp:162-166,257-261).
THEOREM DetailsFollow == Spec => []DetailsOfSelection
  <1>1. WindowInv => DetailsOfSelection
    BY DEF WindowInv
  <1> QED BY <1>1, WindowInvariant, PTL

\* No message of a scan outlives the scans (main_window.cpp:172-187,218-245).
THEOREM StatusSettled == Spec => []StatusSettles
  <1>1. WindowInv => StatusSettles
    BY DEF WindowInv, StatusOK
  <1> QED BY <1>1, WindowInvariant, PTL

\* While the table is sorted by falling risk no row is right above one with a
\* riskier CVE, for every set of rows scans may find and however they arrive
\* (result.hpp:97-105, result_model.cpp:104-106).
THEOREM RiskOrder == Spec => []RiskiestFirst
  <1>1. WindowInv => RiskiestFirst
    BY RiskiestAbove DEF WindowInv
  <1> QED BY <1>1, WindowInvariant, PTL

\* The controller works with the settings on disk, whatever they are, unless
\* they cannot be used (main_window.cpp:97-102,226-234).
THEOREM SettingsApplied == Spec => []SettingsInForce
  <1>1. WindowInv => SettingsInForce
    BY DEF WindowInv, SettingsOK
  <1> QED BY <1>1, WindowInvariant, PTL

\* What the window has scanned is internal or consented to, whatever target and
\* consent are left in the dialog (scan_dialog.cpp:72-84, docs/ETHICS.md:7-20).
THEOREM ScopeHeld == Spec => []ScansInScope
  <1>1. WindowInv => ScansInScope
    BY DEF WindowInv, RequestsOK
  <1> QED BY <1>1, WindowInvariant, PTL

\* A scan the window says is starting has been accepted by the controller: no
\* scan was in progress when its dialog was opened, and none can have begun
\* below it (main_window.cpp:210-221,239-246).
THEOREM StartsTaken == Spec => StartsAreAccepted
  <1>1. WindowInv /\ [Next]_vars =>
            [status # "starting" /\ status' = "starting"
                 => accepted' # accepted]_vars
    <2>1. SUFFICES ASSUME WindowInv, [Next]_vars,
                          status # "starting", status' = "starting"
                   PROVE  accepted' # accepted
      OBVIOUS
    <2>2. SessionOK /\ DialogsOK /\ RequestsOK /\ Touches
      BY <2>1, StepsTouch DEF WindowInv
    <2>3. StartsScan
      BY <2>1, <2>2 DEF Touches, HearProgress, HearFinished, AcceptSettings,
                        CloseBox, MessageExpires, Relaunch
    <2>4. PICK m \in 1..MaxPorts : accepted' = Append(accepted, m)
      BY <2>2, <2>3, StartEffect
    <2>5. accepted \in Seq(1..MaxPorts)
      BY <2>2 DEF SessionOK
    <2>6. Len(accepted') = Len(accepted) + 1 /\ Len(accepted) \in Nat
      BY <2>4, <2>5, AppendProperties, LenProperties
    <2> QED BY <2>6
  <1> QED BY <1>1, WindowInvariant, PTL DEF Spec, StartsAreAccepted
-------------------------------------------------------------------------------
(* What is read of an export.                                                *)

\* A number is written in digits and a truth value as a word: no format takes
\* them for anything else.
ValuesWritten == \A v \in Int \union BOOLEAN : PlainWord(ToString(v))

LEMMA LegibleText ==
    ASSUME NEW text, Legible(text)
    PROVE  IsText(text) /\ Len(text) \in Nat /\ DOMAIN text = 1..Len(text)
  <1>1. text \in Seq(Range(text)) /\ \A w \in Range(text) : w \notin Entities
    BY DEF Legible
  <1>2. IsText(text)
    BY <1>1, WordsAreText
  <1> QED BY <1>1, <1>2, LenProperties

\* What the characters that are escaped are written as.
Escapes == {"\\\"", "\\\\", "\\f", "\\n", "\\r", "\\t"}

LEMMA EscapesDiffer ==
    /\ \A c, d \in Escaped : JsonEscape(c) = JsonEscape(d) => c = d
    /\ \A c \in Escaped : JsonEscape(c) \in Escapes
  <1> DEFINE b == "\\" f == "\f" n == "\n" r == "\r" t == "\t"
             q2 == "\\\"" b2 == "\\\\" f2 == "\\f" n2 == "\\n" r2 == "\\r"
             t2 == "\\t"
  <1>1. /\ Quote \notin {b, f, n, r, t, "ctl"} /\ b \notin {f, n, r, t}
        /\ f \notin {n, r, t} /\ n \notin {r, t} /\ r # t
    BY Zenon DEF Quote
  <1>2. /\ q2 \notin {b2, f2, n2, r2, t2} /\ b2 \notin {f2, n2, r2, t2}
        /\ f2 \notin {n2, r2, t2} /\ n2 \notin {r2, t2} /\ r2 # t2
    BY Zenon
  <1>3. /\ JsonEscape(Quote) = q2 /\ JsonEscape(b) = b2 /\ JsonEscape(f) = f2
        /\ JsonEscape(n) = n2 /\ JsonEscape(r) = r2 /\ JsonEscape(t) = t2
    <2>1. JsonEscape(Quote) = q2
      BY <1>1, Zenon DEF JsonEscape
    <2>2. JsonEscape(b) = b2
      BY <1>1, Zenon DEF JsonEscape
    <2>3. JsonEscape(f) = f2
      BY <1>1, Zenon DEF JsonEscape
    <2>4. JsonEscape(n) = n2
      BY <1>1, Zenon DEF JsonEscape
    <2>5. JsonEscape(r) = r2
      BY <1>1, Zenon DEF JsonEscape
    <2>6. JsonEscape(t) = t2
      BY <1>1, Zenon DEF JsonEscape
    <2> QED BY <2>1, <2>2, <2>3, <2>4, <2>5, <2>6
  <1>4. Escaped = {Quote, b, f, n, r, t}
    BY Zenon DEF Escaped
  <1>5. {q2, b2, f2, n2, r2, t2} = Escapes
    BY Zenon DEF Escapes
  <1> HIDE DEF b, f, n, r, t, q2, b2, f2, n2, r2, t2
  <1> QED BY <1>2, <1>3, <1>4, <1>5

\* A reader of JSON undoes what was escaped; a control character is a space.
LEMMA JsonRead ==
    ASSUME NEW text, Legible(text)
    PROVE  JsonUnescaped(json_escape(text)) = Blanked(text)
  <1> DEFINE Of(c) == IF \E d \in Escaped : JsonEscape(d) = c
                      THEN CHOOSE d \in Escaped : JsonEscape(d) = c ELSE c
  <1>1. \A c, d \in Escaped : JsonEscape(c) = JsonEscape(d) => c = d
    BY EscapesDiffer
  <1>2. \A c : c \notin Escaped /\ c # "ctl" => JsonEscape(c) = c
    BY Zenon DEF Escaped, JsonEscape, Quote
  <1>3. "ctl" \notin Escaped /\ JsonEscape("ctl") = " "
    BY Zenon DEF Escaped, JsonEscape, Quote
  <1>4. \A c \in Escaped : JsonEscape(c) # " "
    <2>1. " " \notin Escapes
      BY Zenon DEF Escapes
    <2> QED BY <2>1, EscapesDiffer
  <1>5. ASSUME NEW i \in DOMAIN text
        PROVE  Of(JsonEscape(text[i]))
                 = IF text[i] = "ctl" THEN " " ELSE text[i]
    <2> DEFINE w == text[i]
    <2>1. \A c \in Escaped : w # JsonEscape(c)
      BY DEF Legible, Range
    <2> HIDE DEF w, Of
    <2>2. \A d : Of(d) = IF \E e \in Escaped : JsonEscape(e) = d
                         THEN CHOOSE e \in Escaped : JsonEscape(e) = d ELSE d
      BY DEF Of
    <2>3. w \in Escaped => Of(JsonEscape(w)) = w
      BY <1>1, <2>2
    <2>4. w \notin Escaped /\ w # "ctl" => Of(JsonEscape(w)) = w
      BY <1>2, <2>1, <2>2
    <2>5. w = "ctl" => Of(JsonEscape(w)) = " "
      BY <1>3, <1>4, <2>2
    <2> QED BY <1>3, <2>3, <2>4, <2>5, Zenon DEF w
  <1>6. JsonUnescaped(json_escape(text))
          = [i \in DOMAIN text |-> Of(JsonEscape(text[i]))]
    BY DEF JsonUnescaped, json_escape
  <1> HIDE DEF Of
  <1> QED BY <1>5, <1>6 DEF Blanked

\* The texts of a row that can be written.
LEMMA WritableTexts ==
    ASSUME NEW r, IsWritable(r)
    PROVE  /\ Legible(<<r.service>>) /\ Legible(r.banner)
           /\ \A c \in Cves(r) : Legible(c.cve_id)
           /\ IsUtf8(r) => /\ ~Contains(<<r.service>>, "0xff")
                           /\ ~Contains(r.banner, "0xff")
                           /\ \A c \in Cves(r) : ~Contains(c.cve_id, "0xff")
  <1> DEFINE S == Texts(r)
  <1>1. /\ <<r.service>> \in S /\ r.banner \in S
        /\ \A c \in Cves(r) : c.cve_id \in S
    BY Zenon DEF Texts
  <1>2. /\ \A text \in S : Legible(text)
        /\ IsUtf8(r) => \A text \in S : ~Contains(text, "0xff")
    BY Zenon DEF IsWritable, IsUtf8
  <1> HIDE DEF S
  <1> QED BY <1>1, <1>2, Zenon

\* What is escaped is accepted, if it is UTF-8.
LEMMA JsonAccepted ==
    ASSUME NEW text, Legible(text), ~Contains(text, "0xff")
    PROVE  IsJson(json_escape(text))
  <1> DEFINE refused == Escaped \union {"ctl", "0xff"}
  <1>1. DOMAIN text = 1..Len(text)
    BY LegibleText
  <1>2. \A i \in DOMAIN text : text[i] # "0xff"
    BY <1>1 DEF Contains
  <1>3. \A c : c \notin Escaped /\ c # "ctl" => JsonEscape(c) = c
    BY Zenon DEF Escaped, JsonEscape, Quote
  <1>4. JsonEscape("ctl") = " " /\ " " \notin refused
    BY Zenon DEF Escaped, JsonEscape, Quote
  <1>5. \A w \in Escapes : w \notin refused
    BY Zenon DEF Escapes, Escaped, Quote
  <1>6. \A c \in Escaped : JsonEscape(c) \notin refused
    BY <1>5, EscapesDiffer
  <1>7. \A c : c # "0xff" => JsonEscape(c) \notin refused
    <2>1. \A c : c \in refused <=> c \in Escaped \/ c = "ctl" \/ c = "0xff"
      OBVIOUS
    <2> HIDE DEF refused
    <2> QED BY <1>3, <1>4, <1>6, <2>1, Zenon
  <1> HIDE DEF refused
  <1>8. \A i \in DOMAIN text : JsonEscape(text[i]) \notin refused
    BY <1>2, <1>7
  <1>9. Range(json_escape(text)) = {JsonEscape(text[i]) : i \in DOMAIN text}
    BY DEF json_escape, Range
  <1> QED BY <1>8, <1>9 DEF IsJson, refused

\* Sequences of one element each, one after the other.
LEMMA FlattenedOnes ==
    ASSUME NEW n \in Nat, NEW t, t = [i \in 1..n |-> t[i]],
           NEW s, s = [i \in 1..n |-> <<t[i]>>]
    PROVE  FlattenSeq(s) = t
  <1> DEFINE W == Range(t)
             first == [i \in 0..n |-> SubSeq(t, 1, i)]
  <1>1. t \in Seq(W) /\ Len(t) = n /\ \A i \in 1..n : t[i] \in W
    BY SeqOfFunction DEF IsSeq, Range
  <1> HIDE DEF W
  <1>2. \A i \in 1..n : s[i] = <<t[i]>> /\ s[i] \in Seq(W)
    BY <1>1
  <1>3. s \in Seq(Seq(W)) /\ Len(s) = n
    <2>1. s \in [1..n -> Seq(W)]
      BY <1>1
    <2> QED BY <2>1, FunctionIsSeq
  <1>4. PICK F \in [0..n -> Seq(W)] :
            /\ F[0] = <<>> /\ \A i \in 1..n : F[i] = F[i - 1] \o s[i]
            /\ FlattenSeq(s) = F[n]
    <2>1. ASSUME NEW q \in Seq(Seq(W)), Len(q) = n
          PROVE  \E F \in [0..n -> Seq(W)] :
                     /\ F[0] = <<>> /\ \A i \in 1..n : F[i] = F[i - 1] \o q[i]
                     /\ FlattenSeq(q) = F[n]
      BY <2>1, Flattened
    <2> QED BY <1>3, <2>1
  <1>5. /\ SubSeq(t, 1, 0) = <<>> /\ SubSeq(t, 1, n) = t
        /\ \A i \in 1..n : SubSeq(t, 1, i) = Append(SubSeq(t, 1, i - 1), t[i])
    BY <1>1, OneMore
  <1> DEFINE same == {i \in 0..n : F[i] = SubSeq(t, 1, i)}
  <1>6. ASSUME NEW i \in 1..n, i - 1 \in same PROVE i \in same
    <2> DEFINE front == SubSeq(t, 1, i - 1)
    <2>1. front \in Seq(W)
      <3>1. 1 \in Int /\ i - 1 \in Int /\ \A k \in 1..(i - 1) : k \in 1..n
        OBVIOUS
      <3>2. \A k \in 1..(i - 1) : t[k] \in W
        BY <1>1, <3>1
      <3> QED BY <1>1, <3>1, <3>2, SubSeqProperties
    <2>2. F[i] = front \o <<t[i]>> /\ SubSeq(t, 1, i) = Append(front, t[i])
      BY <1>2, <1>4, <1>5, <1>6
    <2> HIDE DEF front
    <2>3. Append(front, t[i]) = front \o <<t[i]>>
      BY <1>1, <2>1, AppendIsConcat
    <2>4. i \in 0..n
      OBVIOUS
    <2> QED BY <2>2, <2>3, <2>4
  <1>7. 0 \in same
    <2>1. 0 \in 0..n
      OBVIOUS
    <2> QED BY <1>4, <1>5, <2>1
  <1>8. n \in same
    <2> HIDE DEF same
    <2>1. \A i \in 0..n : i \in same
      BY <1>6, <1>7, UpTo
    <2> QED BY <2>1
  <1> QED BY <1>4, <1>5, <1>8

\* A file of records is read back as their rows.
Records(format, file, texts) ==
    \A i \in DOMAIN texts : /\ IsSeq(file[i])
                            /\ LineIs(format, file[i], texts[i])

LEMMA RecordsRead ==
    ASSUME NEW n \in Nat, NEW texts, texts = [i \in 1..n |-> texts[i]],
           NEW file, DOMAIN file = 1..n
    PROVE  /\ Records("csv", file, texts) =>
                  FlattenSeq([i \in DOMAIN file |-> ReadCsv(file[i])]) = texts
           /\ Records("html", file, texts) =>
                  FlattenSeq([i \in DOMAIN file |-> ReadHtml(file[i])]) = texts
  <1>1. "csv" # "html" /\ DOMAIN texts = 1..n
    OBVIOUS
  <1>2. ASSUME NEW format, NEW line, IsSeq(line), NEW row,
               LineIs(format, line, row)
        PROVE  /\ format = "csv" => ReadCsv(line) = <<row>>
               /\ format = "html" => ReadHtml(line) = <<row>>
    <2> DEFINE begun == RowStart(format, <<>>)
               ended == RowStart(format, Append(<<>>, row))
    <2>1. Reads(format, line, begun, ended) /\ line \in Seq(Range(line))
      BY <1>2 DEF LineIs, IsSeq
    <2>2. Append(<<>>, row) = <<row>>
      OBVIOUS
    <2>3. CASE format = "csv"
      <3>1. begun = CsvStart /\ ended.rows = <<row>>
        BY <2>2, <2>3 DEF RowStart, CsvStart, InLine
      <3> HIDE DEF begun, ended
      <3>2. Reads("csv", line, CsvStart, ended)
        BY <2>1, <2>3, <3>1
      <3>3. ReadCsv(line) = ended.rows
        BY <2>1, <3>2, ReadBack
      <3> QED BY <1>1, <2>3, <3>1, <3>3
    <2>4. CASE format = "html"
      <3>1. begun = HtmlStart /\ ended.rows = <<row>>
        BY <1>1, <2>2, <2>4 DEF RowStart, HtmlStart, InPage
      <3> HIDE DEF begun, ended
      <3>2. Reads("html", line, HtmlStart, ended)
        BY <2>1, <2>4, <3>1
      <3>3. ReadHtml(line) = ended.rows
        BY <2>1, <3>2, ReadBack
      <3> QED BY <1>1, <2>4, <3>1, <3>3
    <2> QED BY <2>3, <2>4
  <1>3. ASSUME Records("csv", file, texts)
        PROVE  FlattenSeq([i \in DOMAIN file |-> ReadCsv(file[i])]) = texts
    <2> DEFINE read == [i \in DOMAIN file |-> ReadCsv(file[i])]
    <2>1. \A i \in 1..n : ReadCsv(file[i]) = <<texts[i]>>
      BY <1>1, <1>2, <1>3 DEF Records
    <2>2. read = [i \in 1..n |-> <<texts[i]>>]
      BY <2>1
    <2> HIDE DEF read
    <2>3. FlattenSeq(read) = texts
      BY <2>2, FlattenedOnes
    <2> QED BY <2>3 DEF read
  <1>4. ASSUME Records("html", file, texts)
        PROVE  FlattenSeq([i \in DOMAIN file |-> ReadHtml(file[i])]) = texts
    <2> DEFINE read == [i \in DOMAIN file |-> ReadHtml(file[i])]
    <2>1. \A i \in 1..n : ReadHtml(file[i]) = <<texts[i]>>
      BY <1>1, <1>2, <1>4 DEF Records
    <2>2. read = [i \in 1..n |-> <<texts[i]>>]
      BY <2>1
    <2> HIDE DEF read
    <2>3. FlattenSeq(read) = texts
      BY <2>2, FlattenedOnes
    <2> QED BY <2>3 DEF read
  <1> QED BY <1>3, <1>4

\* A row has the risk of its riskiest CVE.
LEMMA HighestRisk ==
    ASSUME NEW r
    PROVE  LET Risks == {0} \union {c.cvss * c.epss : c \in Range(r.cves)}
           IN  max_risk(r) = CHOOSE n \in Risks : \A m \in Risks : m <= n
  <1> DEFINE Risks == {0} \union {c.cvss * c.epss : c \in Range(r.cves)}
  <1>1. Risks = {0} \union {risk(c) : c \in Cves(r)}
    BY DEF Range, Cves, risk
  <1> HIDE DEF Risks
  <1>2. max_risk(r) = Greatest(Risks)
    BY <1>1 DEF max_risk
  <1>3. Greatest(Risks) = CHOOSE n \in Risks : \A m \in Risks : m <= n
    BY DEF Greatest
  <1> QED BY <1>2, <1>3 DEF Risks

\* A total of counts.
LEMMA Totalled ==
    ASSUME NEW n \in Nat, NEW g \in [1..n -> Nat]
    PROVE  LET total == CHOOSE f : f = [i \in 0..n |-> IF i = 0 THEN 0
                                                       ELSE f[i - 1] + g[i]]
           IN  total[n] \in Nat
  <1> DEFINE Solves(f) == f = [i \in 0..n |-> IF i = 0 THEN 0
                                              ELSE f[i - 1] + g[i]]
             From0(f, m) == f[0] = 0 /\ \A i \in 1..m : f[i] = f[i - 1] + g[i]
             up == {m \in 0..n : \E f \in [0..m -> Nat] : From0(f, m)}
             total == CHOOSE f : Solves(f)
  <1>1. 0 \in up
    <2> DEFINE none == [i \in 0..0 |-> 0]
    <2>1. none \in [0..0 -> Nat] /\ From0(none, 0) /\ 0 \in 0..n
      OBVIOUS
    <2> HIDE DEF none, From0
    <2> QED BY <2>1
  <1>2. ASSUME NEW m \in 1..n, m - 1 \in up PROVE m \in up
    <2>1. PICK f \in [0..(m - 1) -> Nat] : From0(f, m - 1)
      BY <1>2
    <2> DEFINE last == f[m - 1] + g[m]
               h == [i \in 0..m |-> IF i = m THEN last ELSE f[i]]
    <2>2. last \in Nat
      <3>1. f[m - 1] \in Nat /\ g[m] \in Nat
        OBVIOUS
      <3> QED BY <3>1
    <2>3. \A i \in 0..m : i = m \/ i \in 0..(m - 1)
      OBVIOUS
    <2>4. h \in [0..m -> Nat]
      BY <2>2, <2>3
    <2>5. From0(h, m)
      <3>1. h[0] = 0 /\ h[m] = last /\ h[m - 1] = f[m - 1]
        <4>1. 0 \in 0..m /\ 0 # m /\ m \in 0..m /\ m - 1 \in 0..m /\ m - 1 # m
          OBVIOUS
        <4> HIDE DEF last
        <4> QED BY <2>1, <4>1
      <3>2. ASSUME NEW i \in 1..m PROVE h[i] = h[i - 1] + g[i]
        <4>1. CASE i = m
          BY <3>1, <4>1
        <4>2. CASE i # m
          <5>1. i \in 1..(m - 1) /\ i - 1 \in 0..(m - 1) /\ i - 1 # m
            BY <4>2
          <5>2. h[i] = f[i] /\ h[i - 1] = f[i - 1]
            BY <2>3, <4>2, <5>1
          <5> QED BY <2>1, <5>1, <5>2
        <4> QED BY <4>1, <4>2
      <3> QED BY <3>1, <3>2
    <2> HIDE DEF h, From0
    <2>6. m \in 0..n
      OBVIOUS
    <2> QED BY <2>4, <2>5, <2>6
  <1>3. n \in up
    <2> HIDE DEF up
    <2>1. \A i \in 0..n : i \in up
      BY <1>1, <1>2, UpTo
    <2> QED BY <2>1
  <1>4. PICK F \in [0..n -> Nat] : From0(F, n)
    BY <1>3
  <1>5. Solves(F)
    <2>1. ASSUME NEW i \in 0..n
          PROVE  F[i] = IF i = 0 THEN 0 ELSE F[i - 1] + g[i]
      <3>1. i = 0 \/ i \in 1..n
        OBVIOUS
      <3> QED BY <1>4, <3>1
    <2>2. F = [i \in 0..n |-> F[i]]
      OBVIOUS
    <2> QED BY <2>1, <2>2
  <1>6. Solves(total)
    <2> HIDE DEF Solves
    <2> QED BY <1>5
  <1> HIDE DEF total
  <1> DEFINE counts == {i \in 0..n : total[i] \in Nat}
  <1>7. 0 \in counts
    <2>1. 0 \in 0..n
      OBVIOUS
    <2>2. total[0] = 0
      BY <1>6, <2>1
    <2> QED BY <2>1, <2>2
  <1>8. ASSUME NEW i \in 1..n, i - 1 \in counts PROVE i \in counts
    <2>1. i \in 0..n /\ i # 0 /\ g[i] \in Nat
      OBVIOUS
    <2>2. total[i] = total[i - 1] + g[i]
      BY <1>6, <2>1
    <2> QED BY <1>8, <2>1, <2>2
  <1>9. n \in counts
    <2> HIDE DEF counts
    <2>1. \A i \in 0..n : i \in counts
      BY <1>7, <1>8, UpTo
    <2> QED BY <2>1
  <1> QED BY <1>9 DEF total

\* Every row is in one of the three states.
LEMMA Summed ==
    ASSUME NEW n \in Nat, NEW rows, Len(rows) = n, DOMAIN rows = 1..n,
           \A i \in 1..n : IsRow(rows[i]) /\ IsWritable(rows[i])
    PROVE  LET sum == Summary(rows)
           IN  /\ sum.total = n /\ sum.open + sum.closed + sum.filtered = n
               /\ sum.open \in Nat /\ sum.closed \in Nat
               /\ sum.filtered \in Nat /\ sum.cves \in Nat
  <1> DEFINE In(state) == {i \in DOMAIN rows : rows[i].state = state}
             O == In("Open")
             C == In("Closed")
             F == In("Filtered")
             g == [i \in 1..n |-> Len(rows[i].cves)]
             cves == CHOOSE f : f = [i \in 0..Len(rows) |->
                         IF i = 0 THEN 0 ELSE f[i - 1] + Len(rows[i].cves)]
             total == CHOOSE f : f = [i \in 0..n |-> IF i = 0 THEN 0
                                                     ELSE f[i - 1] + g[i]]
  <1>1. Summary(rows) = [total |-> Len(rows), open |-> Cardinality(O),
                         closed |-> Cardinality(C),
                         filtered |-> Cardinality(F),
                         cves |-> cves[Len(rows)]]
    BY DEF Summary, InState
  <1>2. cves[Len(rows)] \in Nat
    <2>1. g \in [1..n -> Nat]
      BY DEF IsRow
    <2>2. \A i \in 1..n : g[i] = Len(rows[i].cves)
      OBVIOUS
    <2> HIDE DEF g
    <2>3. total[n] \in Nat
      BY <2>1, Totalled
    <2>4. \A f : [i \in 0..n |-> IF i = 0 THEN 0 ELSE f[i - 1] + g[i]]
                   = [i \in 0..Len(rows) |->
                         IF i = 0 THEN 0 ELSE f[i - 1] + Len(rows[i].cves)]
      <3>1. \A i \in 0..n : i = 0 \/ i \in 1..n
        OBVIOUS
      <3> QED BY <2>2, <3>1
    <2>5. total = cves
      BY <2>4
    <2> HIDE DEF total, cves
    <2> QED BY <2>3, <2>5
  <1>3. O \union C \union F = 1..n
    BY Zenon DEF IsWritable
  <1>4. O \intersect C = {} /\ (O \union C) \intersect F = {}
    BY Zenon
  <1>5. IsFiniteSet(1..n) /\ Cardinality(1..n) = n
    BY FS_Interval
  <1>6. O \subseteq 1..n /\ C \subseteq 1..n /\ F \subseteq 1..n
    OBVIOUS
  <1> HIDE DEF O, C, F, cves
  <1>7. IsFiniteSet(O) /\ IsFiniteSet(C) /\ IsFiniteSet(F)
    BY <1>5, <1>6, FS_Subset
  <1>8. /\ Cardinality(O) \in Nat /\ Cardinality(C) \in Nat
        /\ Cardinality(F) \in Nat
    BY <1>7, FS_CardinalityType
  <1>9. /\ IsFiniteSet(O \union C)
        /\ Cardinality(O \union C)
             = Cardinality(O) + Cardinality(C) - Cardinality(O \intersect C)
    BY <1>7, FS_Union
  <1>10. Cardinality(O \union C \union F)
           = Cardinality(O \union C) + Cardinality(F)
             - Cardinality((O \union C) \intersect F)
    BY <1>7, <1>9, FS_Union
  <1>11. Cardinality({}) = 0
    BY FS_EmptySet
  <1>12. n = Cardinality(O) + Cardinality(C) + Cardinality(F)
    <2>1. Cardinality(O \union C) = Cardinality(O) + Cardinality(C)
      <3>1. Cardinality(O \intersect C) = 0
        BY <1>4, <1>11, Zenon
      <3> DEFINE b == Cardinality(O \union C)
                 o == Cardinality(O)
                 c == Cardinality(C)
                 x == Cardinality(O \intersect C)
      <3>2. b = o + c - x /\ x = 0 /\ o \in Nat /\ c \in Nat
        BY <1>8, <1>9, <3>1
      <3> HIDE DEF b, o, c, x
      <3>3. b = o + c
        BY <3>2
      <3> QED BY <3>3 DEF b, o, c
    <2>2. Cardinality(O \union C \union F) = Cardinality(O \union C) + Cardinality(F)
      <3>1. Cardinality(O \union C) \in Nat
        BY <1>8, <2>1
      <3>2. Cardinality((O \union C) \intersect F) = 0
        BY <1>4, <1>11, Zenon
      <3> DEFINE a == Cardinality(O \union C \union F)
                 b == Cardinality(O \union C)
                 f == Cardinality(F)
                 x == Cardinality((O \union C) \intersect F)
      <3>3. a = b + f - x /\ x = 0 /\ b \in Nat /\ f \in Nat
        BY <1>8, <1>10, <3>1, <3>2
      <3> HIDE DEF a, b, f, x
      <3>4. a = b + f
        BY <3>3
      <3> QED BY <3>4 DEF a, b, f
    <2> QED BY <1>3, <1>5, <2>1, <2>2
  <1> QED BY <1>1, <1>2, <1>8, <1>12

-------------------------------------------------------------------------------
(* The lines of an export.                                                   *)

LEMMA FiveCells ==
    ASSUME NEW c1, NEW c2, NEW c3, NEW c4, NEW c5,
           NEW t1, NEW t2, NEW t3, NEW t4, NEW t5,
           CellIs("html", c1, t1), CellIs("html", c2, t2),
           CellIs("html", c3, t3), CellIs("html", c4, t4),
           CellIs("html", c5, t5)
    PROVE  LET line == HtmlRow(<<c1, c2, c3, c4, c5>>)
           IN  /\ LineIs("html", line, <<t1, t2, t3, t4, t5>>) /\ IsSeq(line)
  <1> DEFINE cells == <<c1, c2, c3, c4, c5>>
             texts == <<t1, t2, t3, t4, t5>>
             n == 5
  <1>1. /\ cells[1] = c1 /\ cells[2] = c2 /\ cells[3] = c3 /\ cells[4] = c4
        /\ cells[5] = c5 /\ cells = [i \in 1..n |-> cells[i]]
    OBVIOUS
  <1>2. /\ texts[1] = t1 /\ texts[2] = t2 /\ texts[3] = t3 /\ texts[4] = t4
        /\ texts[5] = t5 /\ texts = [i \in 1..n |-> texts[i]]
    OBVIOUS
  <1>3. /\ n \in Nat /\ n # 0
        /\ \A i \in 1..n : i = 1 \/ i = 2 \/ i = 3 \/ i = 4 \/ i = 5
    OBVIOUS
  <1> HIDE DEF cells, texts, n
  <1>4. \A i \in 1..n : CellIs("html", cells[i], texts[i])
    BY <1>1, <1>2, <1>3
  <1>5. LineIs("html", LineOf("html", cells), texts)
        /\ IsSeq(LineOf("html", cells))
    BY <1>1, <1>2, <1>3, <1>4, LineTells
  <1>6. LineOf("html", cells) = HtmlRow(cells)
    BY DEF LineOf
  <1> QED BY <1>5, <1>6 DEF cells, texts

LEMMA NineCells ==
    ASSUME NEW c1, NEW c2, NEW c3, NEW c4, NEW c5, NEW c6, NEW c7, NEW c8,
           NEW c9, NEW t1, NEW t2, NEW t3, NEW t4, NEW t5, NEW t6, NEW t7,
           NEW t8, NEW t9,
           CellIs("csv", c1, t1), CellIs("csv", c2, t2),
           CellIs("csv", c3, t3), CellIs("csv", c4, t4),
           CellIs("csv", c5, t5), CellIs("csv", c6, t6),
           CellIs("csv", c7, t7), CellIs("csv", c8, t8),
           CellIs("csv", c9, t9)
    PROVE  LET line == CsvLine(<<c1, c2, c3, c4, c5, c6, c7, c8, c9>>)
           IN  /\ LineIs("csv", line, <<t1, t2, t3, t4, t5, t6, t7, t8, t9>>)
               /\ IsSeq(line)
  <1> DEFINE cells == <<c1, c2, c3, c4, c5, c6, c7, c8, c9>>
             texts == <<t1, t2, t3, t4, t5, t6, t7, t8, t9>>
             n == 9
  <1>1. /\ cells[1] = c1 /\ cells[2] = c2 /\ cells[3] = c3 /\ cells[4] = c4
        /\ cells[5] = c5 /\ cells[6] = c6 /\ cells[7] = c7 /\ cells[8] = c8
        /\ cells[9] = c9 /\ cells = [i \in 1..n |-> cells[i]]
    OBVIOUS
  <1>2. /\ texts[1] = t1 /\ texts[2] = t2 /\ texts[3] = t3 /\ texts[4] = t4
        /\ texts[5] = t5 /\ texts[6] = t6 /\ texts[7] = t7 /\ texts[8] = t8
        /\ texts[9] = t9 /\ texts = [i \in 1..n |-> texts[i]]
    OBVIOUS
  <1>3. /\ n \in Nat /\ n # 0
        /\ \A i \in 1..n : \/ i = 1 \/ i = 2 \/ i = 3 \/ i = 4 \/ i = 5
                           \/ i = 6 \/ i = 7 \/ i = 8 \/ i = 9
    OBVIOUS
  <1> HIDE DEF cells, texts, n
  <1>4. \A i \in 1..n : CellIs("csv", cells[i], texts[i])
    BY <1>1, <1>2, <1>3
  <1>5. LineIs("csv", LineOf("csv", cells), texts)
        /\ IsSeq(LineOf("csv", cells))
    BY <1>1, <1>2, <1>3, <1>4, LineTells
  <1>6. LineOf("csv", cells) = CsvLine(cells)
    BY DEF LineOf
  <1> QED BY <1>5, <1>6 DEF cells, texts

\* Numbers are read as they were written.
LEMMA NumberCell ==
    ASSUME ValuesWritten, NEW format, NEW n \in Int
    PROVE  CellIs(format, Number(n), Number(n))
  <1>1. PlainWord(ToString(n))
    BY DEF ValuesWritten
  <1>2. CellIs(format, <<ToString(n)>>, <<ToString(n)>>)
    BY <1>1, PlainCell
  <1> QED BY <1>2 DEF Number

LEMMA PercentCell ==
    ASSUME ValuesWritten, NEW n \in Int
    PROVE  /\ CellIs("html", Percent(n), Percent(n))
           /\ \E w : Percent(n) = <<w>> /\ PlainWord(w)
  <1>1. /\ n \div 1000 \in Int /\ n \div 1000 - 1 \in Int
    OBVIOUS
  <1>2. PICK m \in Int : Percent(n) = Number(m)
    BY <1>1 DEF Percent
  <1>3. PlainWord(ToString(m))
    BY DEF ValuesWritten
  <1> QED BY <1>2, <1>3, NumberCell DEF Number

\* Rounding is off by half a unit at most.
LEMMA Rounding ==
    ASSUME NEW n \in Nat, NEW unit \in {10, 1000, 10000}
    PROVE  /\ InUnits(n, unit) \in {n \div unit, n \div unit + 1}
           /\ InUnits(n, unit) \in Nat
           /\ 2 * (n - unit * InUnits(n, unit)) <= unit
           /\ 2 * (unit * InUnits(n, unit) - n) <= unit
  <1> DEFINE S == {n \div unit, n \div unit + 1}
             Near(m) == 2 * (n - unit * m) <= unit /\ 2 * (unit * m - n) <= unit
  <1>1. Near(n \div unit) \/ Near(n \div unit + 1)
    <2>1. CASE unit = 10
      BY <2>1
    <2>2. CASE unit = 1000
      BY <2>2
    <2>3. CASE unit = 10000
      BY <2>3
    <2> QED BY <2>1, <2>2, <2>3
  <1>2. \E m \in S : Near(m)
    BY <1>1
  <1>3. InUnits(n, unit) = CHOOSE m \in S : Near(m)
    BY DEF InUnits
  <1>4. \A m \in S : m \in Nat
    <2>1. CASE unit = 10
      BY <2>1
    <2>2. CASE unit = 1000
      BY <2>2
    <2>3. CASE unit = 10000
      BY <2>3
    <2> QED BY <2>1, <2>2, <2>3
  <1> HIDE DEF S, Near
  <1>5. InUnits(n, unit) \in S /\ Near(InUnits(n, unit))
    BY <1>2, <1>3
  <1>6. InUnits(n, unit) \in Nat
    BY <1>4, <1>5
  <1> QED BY <1>5, <1>6 DEF S, Near

LEMMA InHundredths ==
    ASSUME NEW n \in Nat
    PROVE  InUnits(n, 10000) \in Hundredths(n)
  <1> DEFINE m == InUnits(n, 10000)
  <1>1. /\ m \in {n \div 10000, n \div 10000 + 1} /\ m \in Nat
        /\ 2 * (n - 10000 * m) <= 10000 /\ 2 * (10000 * m - n) <= 10000
    BY Rounding
  <1> HIDE DEF m
  <1>2. 2 * Apart(10000 * m, n) <= 10000
    BY <1>1 DEF Apart
  <1>3. m \in Hundredths(n)
    BY <1>1, <1>2 DEF Hundredths
  <1> QED BY <1>3 DEF m

\* The highest risk: 10.0, in millionths.
TopRisk == 10000000

LEMMA TopScores ==
    /\ Certain \in Nat /\ TopRisk \in Nat /\ 100 * Certain = TopRisk
  BY SMT DEF Certain, TopRisk

\* Six digits tell a number up to 10.0 to half a unit of the sixth.
LEMMA SixDigitsTell ==
    ASSUME NEW n \in 0..TopRisk
    PROVE  SixDigits(n) \in Int /\ IsToSixDigits(SixDigits(n), n)
  <1> DEFINE Whole == n < 1000000
             m == InUnits(n, 10)
  <1>1. n \in Nat
    BY TopScores
  <1>2. SixDigits(n) = IF Whole THEN n ELSE 10 * m
    BY SMT DEF SixDigits
  <1>3. m \in Nat /\ 2 * (n - 10 * m) <= 10 /\ 2 * (10 * m - n) <= 10
    BY <1>1, Rounding
  <1>4. ~Whole => \A d \in Int : d <= 5 => 200000 * d <= n
    BY <1>1, SMT
  <1> HIDE DEF Whole, m
  <1>5. CASE Whole
    <2>1. SixDigits(n) = n
      BY <1>2, <1>5
    <2> QED BY <1>1, <2>1, SMT DEF IsToSixDigits, Apart
  <1>6. CASE ~Whole
    <2>1. SixDigits(n) = 10 * m
      BY <1>2, <1>6
    <2>2. /\ 10 * m - n \in Int /\ 10 * m - n <= 5
          /\ n - 10 * m \in Int /\ n - 10 * m <= 5
      BY <1>1, <1>3, SMT
    <2>3. 200000 * (10 * m - n) <= n /\ 200000 * (n - 10 * m) <= n
      BY <1>4, <1>6, <2>2
    <2> QED BY <1>1, <1>3, <2>1, <2>3, SMT DEF IsToSixDigits, Apart
  <1> QED BY <1>5, <1>6

LEMMA RiskInScale ==
    ASSUME NEW cvss \in CvssScale, NEW epss \in EpssScale
    PROVE  cvss * epss \in 0..TopRisk
  <1>1. cvss \in Int /\ 0 <= cvss /\ cvss <= 100
    BY DEF CvssScale
  <1>2. epss \in Int /\ 0 <= epss /\ epss <= Certain
    BY TopScores DEF EpssScale
  <1>3. ASSUME NEW x \in Int, 0 <= x, x <= 100, NEW y \in Int, 0 <= y
        PROVE  x * y \in Int /\ 0 <= x * y /\ x * y <= 100 * y
    BY <1>3, SMTT(30)
  <1>4. cvss * epss \in Int /\ 0 <= cvss * epss /\ cvss * epss <= 100 * epss
    BY <1>1, <1>2, <1>3
  <1> HIDE DEF EpssScale
  <1>5. 100 * epss <= TopRisk
    BY <1>2, TopScores
  <1> QED BY <1>4, <1>5, <1>2, TopScores

\* The numbers of a row.
LEMMA RowNumbers ==
    ASSUME NEW r, IsRow(r), IsWritable(r)
    PROVE  /\ Len(r.cves) \in Int
           /\ max_cvss(r) \in CvssScale /\ max_cvss(r) \in Int
           /\ max_epss(r) \in EpssScale /\ max_epss(r) \in Nat
           /\ max_risk(r) \in 0..TopRisk /\ max_risk(r) \in Nat
           /\ max_cvss(r) * max_epss(r) \in 0..TopRisk
           /\ verified_cve_count(r) \in Int
  <1> DEFINE S == {k \in DOMAIN r.cves : r.cves[k].verified}
             n == Len(r.cves)
  <1>1. n \in Nat /\ DOMAIN r.cves = 1..n
    BY DEF IsRow
  <1>2. IsFiniteSet(1..n) /\ S \subseteq 1..n
    BY <1>1, FS_Interval
  <1> HIDE DEF S, n
  <1>3. Cardinality(S) \in Nat
    BY <1>2, FS_Subset, FS_CardinalityType
  <1>4. verified_cve_count(r) \in Int
    BY <1>3 DEF verified_cve_count, S
  <1>5. /\ \A x \in EpssScale : x \in Nat /\ x \in Int
        /\ \A x \in CvssScale : x \in Int
    <2>1. \A x \in CvssScale : x \in Int
      BY DEF CvssScale
    <2> QED BY <2>1, TopScores DEF EpssScale
  <1>6. \A i \in 1..n : /\ r.cves[i].cvss \in CvssScale
                        /\ r.cves[i].epss \in EpssScale
                        /\ r.cves[i].epss \in Int /\ r.cves[i].cvss \in Int
    <2>1. \A i \in 1..n : r.cves[i] \in Cves(r)
      BY <1>1 DEF Cves
    <2>2. \A i \in 1..n : InScale(r.cves[i])
      BY <2>1 DEF IsWritable
    <2>3. \A i \in 1..n : /\ r.cves[i].cvss \in CvssScale
                          /\ r.cves[i].epss \in EpssScale
      BY <2>2 DEF InScale
    <2> QED BY <1>5, <2>3
  <1>7. max_cvss(r) \in CvssScale
    <2> DEFINE f == [i \in 1..n |-> r.cves[i].cvss]
               all == {0} \union {c.cvss : c \in Cves(r)}
    <2>1. f \in [1..n -> Int] /\ \A i \in 1..n : f[i] \in CvssScale
      BY <1>6
    <2>2. all = {0} \union {f[i] : i \in 1..n}
      BY <1>1 DEF Cves
    <2> HIDE DEF f, all
    <2>3. Greatest(all) \in all
      BY <1>1, <2>1, <2>2, GreatestOf
    <2>4. 0 \in CvssScale
      BY DEF CvssScale
    <2>5. Greatest(all) \in CvssScale
      BY <2>1, <2>2, <2>3, <2>4
    <2> QED BY <2>5 DEF all, max_cvss
  <1>8. max_epss(r) \in EpssScale
    <2> DEFINE f == [i \in 1..n |-> r.cves[i].epss]
               all == {0} \union {c.epss : c \in Cves(r)}
    <2>1. f \in [1..n -> Int] /\ \A i \in 1..n : f[i] \in EpssScale
      BY <1>6
    <2>2. all = {0} \union {f[i] : i \in 1..n}
      BY <1>1 DEF Cves
    <2> HIDE DEF f, all
    <2>3. Greatest(all) \in all
      BY <1>1, <2>1, <2>2, GreatestOf
    <2>4. 0 \in EpssScale
      BY TopScores DEF EpssScale
    <2>5. Greatest(all) \in EpssScale
      BY <2>1, <2>2, <2>3, <2>4
    <2> QED BY <2>5 DEF all, max_epss
  <1>9. max_risk(r) \in 0..TopRisk
    <2>1. CASE max_risk(r) = 0
      BY <2>1, TopScores
    <2>2. ASSUME NEW i \in 1..n, risk(r.cves[i]) = max_risk(r)
          PROVE  max_risk(r) \in 0..TopRisk
      BY <1>6, <2>2, RiskInScale DEF risk
    <2> QED BY <1>1, <2>1, <2>2, RiskOfRow
  <1>10. max_cvss(r) * max_epss(r) \in 0..TopRisk
    BY <1>7, <1>8, RiskInScale
  <1>11. Len(r.cves) \in Int
    BY <1>1 DEF n
  <1>12. max_risk(r) \in Nat
    BY <1>9, TopScores
  <1>13. max_epss(r) \in Nat
    BY <1>5, <1>8
  <1>14. max_cvss(r) \in Int
    BY <1>5, <1>7
  <1> QED BY <1>4, <1>7, <1>8, <1>9, <1>10, <1>11, <1>12, <1>13, <1>14

\* A CVE of a row whose texts can be read back.
IsFinding(c) ==
    /\ Legible(c.cve_id) /\ c.severity \in Severity /\ c.verified \in BOOLEAN
    /\ c.cvss \in Int /\ c.epss \in Int /\ c.percentile \in Int
    /\ InScale(c)

LEMMA RowFindings ==
    ASSUME NEW r, IsRow(r), IsWritable(r), NEW k \in 1..Len(r.cves)
    PROVE  IsFinding(r.cves[k])
  <1>1. r.cves[k] \in Cves(r)
    BY DEF IsRow, Cves
  <1>2. Legible(r.cves[k].cve_id)
    BY <1>1, WritableTexts
  <1> QED BY <1>1, <1>2 DEF IsRow, IsWritable, IsFinding

\* Six words, one after the other.
LEMMA SixWords ==
    ASSUME NEW w1, NEW w2, NEW w3, NEW w4, NEW w5, NEW w6
    PROVE  LET line == ((((<<w1>> \o <<w2>>) \o <<w3>>) \o <<w4>>) \o <<w5>>)
                           \o <<w6>>
           IN  line \in Seq({w1, w2, w3, w4, w5, w6})
  <1> DEFINE W == {w1, w2, w3, w4, w5, w6}
             s1 == <<w1>> s2 == <<w2>> s3 == <<w3>>
             s4 == <<w4>> s5 == <<w5>> s6 == <<w6>>
  <1>1. /\ w1 \in W /\ w2 \in W /\ w3 \in W /\ w4 \in W /\ w5 \in W /\ w6 \in W
    OBVIOUS
  <1> HIDE DEF W
  <1>2. \A w \in W : <<w>> \in Seq(W)
    OBVIOUS
  <1>3. \A s, t \in Seq(W) : s \o t \in Seq(W)
    BY ConcatProperties
  <1>4. /\ s1 \in Seq(W) /\ s2 \in Seq(W) /\ s3 \in Seq(W) /\ s4 \in Seq(W)
        /\ s5 \in Seq(W) /\ s6 \in Seq(W)
    BY <1>1, <1>2
  <1> HIDE DEF s1, s2, s3, s4, s5, s6
  <1>5. (s1 \o s2) \o s3 \in Seq(W)
    BY <1>3, <1>4
  <1>6. (((s1 \o s2) \o s3) \o s4) \o s5 \in Seq(W)
    BY <1>3, <1>4, <1>5
  <1>7. ((((s1 \o s2) \o s3) \o s4) \o s5) \o s6 \in Seq(W)
    BY <1>3, <1>4, <1>6
  <1> QED BY <1>7 DEF W, s1, s2, s3, s4, s5, s6

\* A text of words that mean nothing to a format.
PlainText(text) ==
    IsSeq(text) /\ Len(text) \in Nat /\ \A i \in 1..Len(text) : PlainWord(text[i])

\* The scores of a CVE are plain words, in the list and on the page.
LEMMA ScoresPlain ==
    ASSUME ValuesWritten, NEW c, IsFinding(c)
    PROVE  PlainText(Scores(c)) /\ PlainText(Rated(c))
  <1>1. \A w \in Severity : PlainWord(w)
    BY Zenon DEF Severity, PlainWord, Special, Entities, Quote
  <1>2. /\ c.cvss \in CvssScale /\ c.epss \in EpssScale /\ c.cvss \in Int
        /\ c.epss \in Int /\ c.percentile \in Int /\ c.verified \in BOOLEAN
        /\ c.severity \in Severity
    BY DEF IsFinding, InScale
  <1>3. risk(c) \in 0..TopRisk
    BY <1>2, RiskInScale DEF risk
  <1>4. risk(c) \in Int /\ SixDigits(risk(c)) \in Int
    BY <1>3, SixDigitsTell, TopScores
  <1>5. /\ PlainWord(c.severity) /\ PlainWord(ToString(c.cvss))
        /\ PlainWord(ToString(c.epss)) /\ PlainWord(ToString(c.percentile))
        /\ PlainWord(ToString(risk(c))) /\ PlainWord(ToString(c.verified))
        /\ PlainWord(ToString(SixDigits(risk(c))))
    BY <1>1, <1>2, <1>4 DEF ValuesWritten
  <1>6. PICK e : Percent(c.epss) = <<e>> /\ PlainWord(e)
    BY <1>2, PercentCell
  <1>7. PICK p : Percent(c.percentile) = <<p>> /\ PlainWord(p)
    BY <1>2, PercentCell
  <1>8. ASSUME NEW w1, NEW w2, NEW w3, NEW w4, NEW w5, NEW w6,
               PlainWord(w1), PlainWord(w2), PlainWord(w3), PlainWord(w4),
               PlainWord(w5), PlainWord(w6)
        PROVE  PlainText(((((<<w1>> \o <<w2>>) \o <<w3>>) \o <<w4>>) \o <<w5>>)
                             \o <<w6>>)
    <2> DEFINE line == ((((<<w1>> \o <<w2>>) \o <<w3>>) \o <<w4>>) \o <<w5>>)
                           \o <<w6>>
               W == {w1, w2, w3, w4, w5, w6}
    <2>1. line \in Seq(W)
      BY SixWords
    <2>2. \A w \in W : PlainWord(w)
      BY <1>8, Zenon
    <2> HIDE DEF line, W
    <2>3. IsSeq(line) /\ Len(line) \in Nat
      BY <2>1, SeqOfAny
    <2>4. \A i \in 1..Len(line) : PlainWord(line[i])
      BY <2>1, <2>2, ElementOfSeq
    <2> QED BY <2>3, <2>4 DEF PlainText, line
  <1> DEFINE sev == c.severity
             cvss == ToString(c.cvss)
             epss == ToString(c.epss)
             pct == ToString(c.percentile)
             exact == ToString(risk(c))
             six == ToString(SixDigits(risk(c)))
             ver == ToString(c.verified)
  <1>9. /\ Scores(c) = ((((<<sev>> \o <<cvss>>) \o <<epss>>) \o <<pct>>) \o <<exact>>)
                          \o <<ver>>
        /\ Rated(c) = ((((<<sev>> \o <<cvss>>) \o <<e>>) \o <<p>>) \o <<six>>)
                         \o <<ver>>
    BY <1>6, <1>7 DEF Scores, Rated, Number
  <1>10. /\ PlainWord(sev) /\ PlainWord(cvss) /\ PlainWord(epss)
         /\ PlainWord(pct) /\ PlainWord(exact) /\ PlainWord(six)
         /\ PlainWord(ver)
    BY <1>5
  <1> HIDE DEF sev, cvss, epss, pct, exact, six, ver
  <1>11. PlainText(Scores(c))
    BY <1>8, <1>9, <1>10
  <1>12. PlainText(Rated(c))
    BY <1>6, <1>7, <1>8, <1>9, <1>10
  <1> QED BY <1>11, <1>12

\* A CVE in the details: its identifier and its scores.
LEMMA CveCell ==
    ASSUME ValuesWritten, NEW c, IsFinding(c)
    PROVE  CellIs("html", escape_html(c.cve_id) \o Rated(c),
                  c.cve_id \o Rated(c))
  <1> DEFINE id == c.cve_id
             escaped == escape_html(id)
             scores == Rated(c)
             text == id \o scores
             cell == escaped \o scores
             m == Len(id)
             n == Len(scores)
  <1>1. /\ IsText(id) /\ m \in Nat /\ DOMAIN id = 1..m
        /\ \A i \in 1..m : id[i] \notin Entities
    BY LegibleText DEF IsFinding, IsText
  <1>2. escaped = [i \in 1..m |-> Entity(id[i])]
    BY <1>1 DEF escape_html
  <1>3. PlainText(scores)
    BY ScoresPlain
  <1> HIDE DEF id, escaped, scores
  <1>4. IsSeq(escaped) /\ Len(escaped) = m
    BY <1>1, <1>2, SeqOfFunction
  <1>5. IsSeq(id) /\ IsSeq(scores) /\ n \in Nat
    BY <1>1, <1>3 DEF IsText, PlainText
  <1>6. \A i \in 1..n : PlainWord(scores[i])
    BY <1>3 DEF PlainText
  <1>7. /\ IsSeq(text) /\ Len(text) = m + n
        /\ \A i \in 1..m : text[i] = id[i]
        /\ \A i \in 1..n : text[m + i] = scores[i]
    <2>1. Joined(text, id, m, scores, n)
      BY <1>5 DEF Joined
    <2> HIDE DEF text, m, n
    <2> QED BY <2>1, SeqConcat
  <1>8. /\ IsSeq(cell) /\ Len(cell) = m + n
        /\ \A i \in 1..m : cell[i] = escaped[i]
        /\ \A i \in 1..n : cell[m + i] = scores[i]
    <2>1. Joined(cell, escaped, m, scores, n)
      BY <1>4, <1>5 DEF Joined
    <2> HIDE DEF cell, m, n
    <2> QED BY <2>1, SeqConcat
  <1> HIDE DEF text, cell, m, n
  <1>9. ASSUME NEW i \in 1..(m + n)
        PROVE  cell[i] \notin {TagOpen, TagClose} /\ Unescaped(cell[i]) = text[i]
    <2>1. CASE i \in 1..m
      <3>1. cell[i] = Entity(text[i]) /\ text[i] \notin Entities
        BY <1>1, <1>2, <1>7, <1>8, <2>1
      <3> QED BY <3>1, EntityRead
    <2>2. CASE i \notin 1..m
      <3>1. i - m \in 1..n /\ m + (i - m) = i
        BY <1>1, <1>5, <2>2
      <3> DEFINE w == scores[i - m]
      <3>2. cell[i] = w /\ text[i] = w
        BY <1>7, <1>8, <3>1
      <3>3. PlainWord(w)
        BY <1>6, <3>1
      <3> HIDE DEF w
      <3>4. w \notin {TagOpen, TagClose} /\ w \notin Entities
        BY <3>3, Zenon DEF PlainWord, TagOpen, TagClose, Special
      <3> QED BY <3>2, <3>4, EntityRead
    <2> QED BY <2>1, <2>2
  <1>10. CellReads(cell, text)
    <2> DEFINE T == Range(text)
               V == Range(cell)
    <2>1. text \in Seq(T) /\ cell \in Seq(V)
      BY <1>7, <1>8 DEF IsSeq
    <2> HIDE DEF T, V
    <2> QED BY <1>7, <1>8, <1>9, <2>1, CellOfWords
  <1>11. "html" # "csv"
    OBVIOUS
  <1> QED BY <1>8, <1>10, <1>11 DEF CellIs, cell, text, escaped, id, scores

\* What is read of a row.
CsvOf(r) ==
    <<<<r.state>>, <<r.service>>, r.banner, Number(Len(r.cves)),
      Number(max_cvss(r)), Number(InUnits(max_epss(r), 1000)),
      Number(InUnits(max_risk(r), 10000)), Number(verified_cve_count(r)),
      cve_list(r.cves)>>

TableOf(r) ==
    <<<<r.state>>, <<r.service>>, Number(max_cvss(r)), Percent(max_epss(r)),
      Number(SixDigits(max_cvss(r) * max_epss(r)))>>

DetailsOf(r) ==
    <<<<r.service>>, <<r.state>>, r.banner>>
    \o [k \in DOMAIN r.cves |-> r.cves[k].cve_id \o Rated(r.cves[k])]

\* The words and the texts of every row.
LEMMA RowCells ==
    ASSUME NEW r, IsWritable(r)
    PROVE  /\ \A format : CellIs(format, <<r.state>>, <<r.state>>)
           /\ CellIs("csv", csv_escape(<<r.service>>), <<r.service>>)
           /\ CellIs("csv", csv_escape(r.banner), r.banner)
           /\ CellIs("html", escape_html(<<r.service>>), <<r.service>>)
           /\ CellIs("html", escape_html(r.banner), r.banner)
  <1>1. \A w \in {"Open", "Closed", "Filtered"} : PlainWord(w)
    BY Zenon DEF PlainWord, Special, Entities, Quote
  <1>2. \A format : CellIs(format, <<r.state>>, <<r.state>>)
    BY <1>1, PlainCell DEF IsWritable
  <1>3. IsText(<<r.service>>) /\ IsText(r.banner)
    BY WritableTexts, LegibleText
  <1>4. "html" # "csv"
    OBVIOUS
  <1>5. \A text : IsText(text) => /\ CellIs("csv", csv_escape(text), text)
                                  /\ CellIs("html", escape_html(text), text)
    <2>1. ASSUME NEW text, IsText(text)
          PROVE  /\ CellIs("csv", escape_csv_field(text), text)
                 /\ CellIs("html", escape_html(text), text)
      BY <1>4, <2>1, TextCell
    <2> QED BY <2>1 DEF csv_escape
  <1> QED BY <1>2, <1>3, <1>5

\* The list of CVEs is a text, whatever is in it.
LEMMA CveListCell ==
    ASSUME ValuesWritten, NEW r, IsRow(r), IsWritable(r)
    PROVE  CellIs("csv", csv_escape(cve_list(r.cves)), cve_list(r.cves))
  <1> DEFINE n == Len(r.cves)
             mark(k) == IF k > 1 THEN <<"; ">> ELSE <<>>
             part(k) == (mark(k) \o r.cves[k].cve_id) \o Scores(r.cves[k])
             parts == [k \in DOMAIN r.cves |-> part(k)]
             W == UNION {Range(parts[i]) : i \in 1..n}
             list == cve_list(r.cves)
  <1>1. n \in Nat /\ DOMAIN r.cves = 1..n
    BY DEF IsRow
  <1>2. list = FlattenSeq(parts)
    BY DEF cve_list
  <1>3. parts = [i \in 1..n |-> parts[i]] /\ \A i \in 1..n : parts[i] = part(i)
    BY <1>1
  <1>4. ASSUME NEW k \in 1..n PROVE IsSeq(part(k))
    <2> DEFINE begin == mark(k)
               id == r.cves[k].cve_id
               scores == Scores(r.cves[k])
    <2>1. IsFinding(r.cves[k])
      BY RowFindings
    <2>2. IsSeq(id)
      BY <2>1, LegibleText DEF IsFinding, IsText
    <2>3. IsSeq(scores)
      BY <2>1, ScoresPlain DEF PlainText
    <2>4. IsSeq(begin)
      BY NoText, Singleton DEF IsText
    <2> HIDE DEF begin, id, scores
    <2>5. \A s, t : IsSeq(s) /\ IsSeq(t) => IsSeq(s \o t)
      <3>1. \A s, t : IsSeq(s) /\ IsSeq(t) => Joined(s \o t, s, Len(s), t, Len(t))
        BY DEF Joined
      <3> QED BY <3>1, SeqConcat
    <2>6. IsSeq((begin \o id) \o scores)
      BY <2>2, <2>3, <2>4, <2>5
    <2> QED BY <2>6 DEF begin, id, scores
  <1> HIDE DEF n, parts, part
  <1>5. \A i \in 1..n : IsSeq(parts[i])
    BY <1>3, <1>4
  <1>6. parts \in Seq(Seq(W))
    BY <1>1, <1>3, <1>5, CommonWords
  <1> HIDE DEF W, list
  <1>7. list \in Seq(W)
    BY <1>2, <1>6, FlattenedIsText
  <1>8. FieldReads(escape_csv_field(list), list)
        /\ escape_csv_field(list) \in Seq(W \union {Quote})
    BY <1>7, EscapedField
  <1>9. IsSeq(escape_csv_field(list))
    BY <1>8, SeqOfAny
  <1> QED BY <1>8, <1>9 DEF CellIs, csv_escape, list

\* The line of a row in each of the files.
CsvLineOf(r) ==
    CsvLine(<<<<r.state>>, csv_escape(<<r.service>>), csv_escape(r.banner),
              Number(Len(r.cves)), Number(max_cvss(r)),
              Number(InUnits(max_epss(r), 1000)),
              Number(InUnits(max_risk(r), 10000)),
              Number(verified_cve_count(r)), csv_escape(cve_list(r.cves))>>)

TableLineOf(r) ==
    HtmlRow(<<<<r.state>>, escape_html(<<r.service>>), Number(max_cvss(r)),
              Percent(max_epss(r)),
              Number(SixDigits(max_cvss(r) * max_epss(r)))>>)

DetailsLineOf(r) ==
    HtmlRow(<<escape_html(<<r.service>>), <<r.state>>, escape_html(r.banner)>>
            \o [k \in DOMAIN r.cves |->
                   escape_html(r.cves[k].cve_id) \o Rated(r.cves[k])])

LEMMA CsvRow ==
    ASSUME ValuesWritten, NEW r, IsRow(r), IsWritable(r)
    PROVE  LineIs("csv", CsvLineOf(r), CsvOf(r)) /\ IsSeq(CsvLineOf(r))
  <1> DEFINE epss == InUnits(max_epss(r), 1000)
             risk2 == InUnits(max_risk(r), 10000)
  <1>1. /\ CellIs("csv", <<r.state>>, <<r.state>>)
        /\ CellIs("csv", csv_escape(<<r.service>>), <<r.service>>)
        /\ CellIs("csv", csv_escape(r.banner), r.banner)
    BY RowCells
  <1>2. \A n \in Int : CellIs("csv", Number(n), Number(n))
    BY NumberCell
  <1>3. epss \in Int /\ risk2 \in Int
    <2>1. max_epss(r) \in Nat /\ max_risk(r) \in Nat
      BY RowNumbers
    <2> QED BY <2>1, Rounding
  <1>4. Len(r.cves) \in Int /\ max_cvss(r) \in Int /\ verified_cve_count(r) \in Int
    BY RowNumbers
  <1> HIDE DEF epss, risk2
  <1>5. /\ CellIs("csv", Number(Len(r.cves)), Number(Len(r.cves)))
        /\ CellIs("csv", Number(max_cvss(r)), Number(max_cvss(r)))
        /\ CellIs("csv", Number(epss), Number(epss))
        /\ CellIs("csv", Number(risk2), Number(risk2))
        /\ CellIs("csv", Number(verified_cve_count(r)),
                  Number(verified_cve_count(r)))
    BY <1>2, <1>3, <1>4
  <1>6. CellIs("csv", csv_escape(cve_list(r.cves)), cve_list(r.cves))
    BY CveListCell
  <1> QED BY <1>1, <1>5, <1>6, NineCells DEF CsvLineOf, CsvOf, epss, risk2

LEMMA TableRow ==
    ASSUME ValuesWritten, NEW r, IsRow(r), IsWritable(r)
    PROVE  LineIs("html", TableLineOf(r), TableOf(r)) /\ IsSeq(TableLineOf(r))
  <1> DEFINE six == SixDigits(max_cvss(r) * max_epss(r))
  <1>1. /\ CellIs("html", <<r.state>>, <<r.state>>)
        /\ CellIs("html", escape_html(<<r.service>>), <<r.service>>)
    BY RowCells
  <1>2. \A n \in Int : CellIs("html", Number(n), Number(n))
    BY NumberCell
  <1>3. six \in Int /\ max_cvss(r) \in Int /\ max_epss(r) \in Int
    BY RowNumbers, SixDigitsTell
  <1> HIDE DEF six
  <1>4. /\ CellIs("html", Number(max_cvss(r)), Number(max_cvss(r)))
        /\ CellIs("html", Percent(max_epss(r)), Percent(max_epss(r)))
        /\ CellIs("html", Number(six), Number(six))
    BY <1>2, <1>3, PercentCell
  <1> QED BY <1>1, <1>4, FiveCells DEF TableLineOf, TableOf, six

LEMMA DetailsRow ==
    ASSUME ValuesWritten, NEW r, IsRow(r), IsWritable(r)
    PROVE  /\ LineIs("html", DetailsLineOf(r), DetailsOf(r))
           /\ IsSeq(DetailsLineOf(r)) /\ DetailsOf(r)[3] = r.banner
  <1> DEFINE n == Len(r.cves)
             head == <<escape_html(<<r.service>>), <<r.state>>,
                       escape_html(r.banner)>>
             tail == [k \in DOMAIN r.cves |->
                         escape_html(r.cves[k].cve_id) \o Rated(r.cves[k])]
             first == <<<<r.service>>, <<r.state>>, r.banner>>
             rest == [k \in DOMAIN r.cves |->
                         r.cves[k].cve_id \o Rated(r.cves[k])]
             cells == head \o tail
             texts == first \o rest
             N == 3 + n
  <1>1. n \in Nat /\ DOMAIN r.cves = 1..n
    BY DEF IsRow
  <1>2. /\ tail = [k \in 1..n |-> tail[k]] /\ rest = [k \in 1..n |-> rest[k]]
        /\ \A k \in 1..n :
               /\ tail[k] = escape_html(r.cves[k].cve_id) \o Rated(r.cves[k])
               /\ rest[k] = r.cves[k].cve_id \o Rated(r.cves[k])
    BY <1>1
  <1>3. ASSUME NEW k \in 1..n PROVE CellIs("html", tail[k], rest[k])
    <2>1. IsFinding(r.cves[k])
      BY RowFindings
    <2> HIDE DEF tail, rest
    <2> QED BY <1>2, <2>1, CveCell
  <1>4. /\ CellIs("html", head[1], first[1]) /\ CellIs("html", head[2], first[2])
        /\ CellIs("html", head[3], first[3]) /\ first[3] = r.banner
    <2> DEFINE s == escape_html(<<r.service>>)
               b == escape_html(r.banner)
    <2>1. /\ CellIs("html", s, <<r.service>>) /\ CellIs("html", b, r.banner)
          /\ CellIs("html", <<r.state>>, <<r.state>>)
      BY RowCells
    <2> HIDE DEF s, b
    <2>2. head = <<s, <<r.state>>, b>>
      BY DEF s, b
    <2> HIDE DEF head
    <2> QED BY <2>1, <2>2
  <1>5. IsSeq(head) /\ IsSeq(first) /\ Len(head) = 3 /\ Len(first) = 3
    <2>1. ASSUME NEW x, NEW y, NEW z
          PROVE  IsSeq(<<x, y, z>>) /\ Len(<<x, y, z>>) = 3
      <3>1. <<x, y, z>> \in Seq({x, y, z}) /\ Len(<<x, y, z>>) = 3
        OBVIOUS
      <3> QED BY <3>1, SeqOfAny
    <2> QED BY <2>1
  <1> HIDE DEF head, first, tail, rest, n
  <1>6. IsSeq(tail) /\ IsSeq(rest) /\ Len(tail) = n /\ Len(rest) = n
    BY <1>1, <1>2, SeqOfFunction
  <1>7. /\ cells = [i \in 1..N |-> cells[i]]
        /\ \A i \in 1..3 : cells[i] = head[i]
        /\ \A i \in 1..n : cells[3 + i] = tail[i]
    <2>1. Joined(cells, head, 3, tail, n)
      BY <1>5, <1>6 DEF Joined
    <2> HIDE DEF cells
    <2> QED BY <2>1, SeqConcat
  <1>8. /\ texts = [i \in 1..N |-> texts[i]]
        /\ \A i \in 1..3 : texts[i] = first[i]
        /\ \A i \in 1..n : texts[3 + i] = rest[i]
    <2>1. Joined(texts, first, 3, rest, n)
      BY <1>5, <1>6 DEF Joined
    <2> HIDE DEF texts
    <2> QED BY <2>1, SeqConcat
  <1>9. /\ DetailsLineOf(r) = LineOf("html", cells) /\ DetailsOf(r) = texts
    <2>1. "html" # "csv"
      OBVIOUS
    <2> QED BY <2>1 DEF DetailsLineOf, DetailsOf, LineOf, head, tail, first, rest
  <1> HIDE DEF cells, texts
  <1>10. ASSUME NEW i \in 1..N PROVE CellIs("html", cells[i], texts[i])
    <2>1. CASE i \in 1..3
      <3>1. i = 1 \/ i = 2 \/ i = 3
        BY <2>1
      <3>2. cells[i] = head[i] /\ texts[i] = first[i]
        BY <1>7, <1>8, <2>1
      <3> QED BY <1>4, <3>1, <3>2
    <2>2. CASE i \notin 1..3
      <3>1. i - 3 \in 1..n /\ 3 + (i - 3) = i
        BY <1>1, <2>2
      <3>2. cells[i] = tail[i - 3] /\ texts[i] = rest[i - 3]
        BY <1>7, <1>8, <3>1
      <3> QED BY <1>3, <3>1, <3>2
    <2> QED BY <2>1, <2>2
  <1>11. N \in Nat /\ N # 0 /\ 3 \in 1..3
    BY <1>1
  <1>12. texts[3] = r.banner
    BY <1>4, <1>8, <1>11
  <1> HIDE DEF N
  <1>13. /\ LineIs("html", LineOf("html", cells), texts)
         /\ IsSeq(LineOf("html", cells))
    BY <1>7, <1>8, <1>10, <1>11, LineTells
  <1> QED BY <1>9, <1>12, <1>13

-------------------------------------------------------------------------------
(* The files of an export.                                                   *)

\* Rows that can be written, n of them.
Exportable(rows, n) ==
    /\ n \in Nat /\ Len(rows) = n /\ DOMAIN rows = 1..n
    /\ \A i \in 1..n : IsRow(rows[i]) /\ IsWritable(rows[i])

CsvHeadings ==
    <<<<"State">>, <<"Service">>, <<"Banner_Raw">>, <<"CVE_Count">>,
      <<"Max_CVSS">>, <<"Max_EPSS">>, <<"Max_Risk">>, <<"Verified_CVE_Count">>,
      <<"CVEs">>>>

LEMMA CsvHeadingsRead ==
    /\ LineIs("csv", CsvLine(CsvHeadings), CsvHeadings)
    /\ IsSeq(CsvLine(CsvHeadings)) /\ Len(CsvHeadings) = 9
  <1> DEFINE words == {"State", "Service", "Banner_Raw", "CVE_Count", "Max_CVSS",
                       "Max_EPSS", "Max_Risk", "Verified_CVE_Count", "CVEs"}
  <1>1. \A w \in words : PlainWord(w)
    BY Zenon DEF PlainWord, Special, Entities, Quote
  <1>2. \A w \in words : CellIs("csv", <<w>>, <<w>>)
    BY <1>1, PlainCell
  <1>3. Len(CsvHeadings) = 9
    BY DEF CsvHeadings
  <1> QED BY <1>2, <1>3, NineCells DEF CsvHeadings

LEMMA CsvTold ==
    ASSUME ValuesWritten, NEW rows, NEW n, Exportable(rows, n)
    PROVE  LET file == CsvWriter(rows)
               read == FlattenSeq([i \in DOMAIN file |-> ReadCsv(file[i])])
           IN  /\ Len(read) = 1 + n /\ read[1] = CsvHeadings
               /\ \A i \in 1..n : read[1 + i] = CsvOf(rows[i])
  <1> DEFINE file == CsvWriter(rows)
             read == FlattenSeq([i \in DOMAIN file |-> ReadCsv(file[i])])
             head == <<CsvLine(CsvHeadings)>>
             lines == [i \in DOMAIN rows |-> CsvLineOf(rows[i])]
             first == <<CsvHeadings>>
             rest == [i \in DOMAIN rows |-> CsvOf(rows[i])]
             texts == first \o rest
  <1>1. /\ n \in Nat /\ DOMAIN rows = 1..n
        /\ \A i \in 1..n : IsRow(rows[i]) /\ IsWritable(rows[i])
    BY DEF Exportable
  <1>2. file = head \o lines
    BY DEF CsvWriter, CsvLineOf, CsvHeadings
  <1>3. /\ lines = [i \in 1..n |-> lines[i]] /\ rest = [i \in 1..n |-> rest[i]]
        /\ \A i \in 1..n : lines[i] = CsvLineOf(rows[i]) /\ rest[i] = CsvOf(rows[i])
    BY <1>1
  <1>4. /\ IsSeq(head) /\ Len(head) = 1 /\ head[1] = CsvLine(CsvHeadings)
        /\ IsSeq(first) /\ Len(first) = 1 /\ first[1] = CsvHeadings
    BY Singleton
  <1> HIDE DEF head, lines, first, rest, file
  <1>5. /\ IsSeq(lines) /\ Len(lines) = n /\ IsSeq(rest) /\ Len(rest) = n
    BY <1>1, <1>3, SeqOfFunction
  <1>6. Joined(file, head, 1, lines, n) /\ Joined(texts, first, 1, rest, n)
    BY <1>2, <1>4, <1>5 DEF Joined
  <1> HIDE DEF texts
  <1>7. /\ file = [i \in 1..(1 + n) |-> file[i]]
        /\ \A i \in 1..1 : file[i] = head[i]
        /\ \A i \in 1..n : file[1 + i] = lines[i]
    BY <1>6, SeqConcat
  <1>8. /\ texts = [i \in 1..(1 + n) |-> texts[i]] /\ Len(texts) = 1 + n
        /\ \A i \in 1..1 : texts[i] = first[i]
        /\ \A i \in 1..n : texts[1 + i] = rest[i]
    BY <1>6, SeqConcat
  <1>9. ASSUME NEW i \in 1..(1 + n)
        PROVE  IsSeq(file[i]) /\ LineIs("csv", file[i], texts[i])
    <2>1. CASE i = 1
      BY <1>4, <1>7, <1>8, <2>1, CsvHeadingsRead
    <2>2. CASE i # 1
      <3>1. i - 1 \in 1..n /\ 1 + (i - 1) = i
        BY <1>1, <2>2
      <3>2. /\ file[i] = CsvLineOf(rows[i - 1]) /\ texts[i] = CsvOf(rows[i - 1])
            /\ IsRow(rows[i - 1]) /\ IsWritable(rows[i - 1])
        BY <1>1, <1>3, <1>7, <1>8, <3>1
      <3> QED BY <3>2, CsvRow
    <2> QED BY <2>1, <2>2
  <1>10. DOMAIN texts = 1..(1 + n) /\ DOMAIN file = 1..(1 + n) /\ 1 + n \in Nat
    BY <1>1, <1>7, <1>8
  <1>11. Records("csv", file, texts)
    BY <1>9, <1>10 DEF Records
  <1>12. read = texts
    BY <1>8, <1>10, <1>11, RecordsRead
  <1> HIDE DEF read
  <1>13. read[1] = CsvHeadings /\ \A i \in 1..n : read[1 + i] = CsvOf(rows[i])
    BY <1>3, <1>4, <1>8, <1>12
  <1> QED BY <1>8, <1>12, <1>13 DEF read, file

\* The summary at the top of the page.
SummaryOf(sum) ==
    <<Number(sum.total), Number(sum.open), Number(sum.closed),
      Number(sum.filtered), Number(sum.cves)>>

LEMMA HtmlTold ==
    ASSUME ValuesWritten, NEW rows, NEW n, Exportable(rows, n)
    PROVE  LET file == HtmlWriter(rows)
               read == FlattenSeq([i \in DOMAIN file |-> ReadHtml(file[i])])
           IN  /\ Len(read) = (1 + n) + n /\ read[1] = SummaryOf(Summary(rows))
               /\ \A i \in 1..n : read[(1 + n) + i] = DetailsOf(rows[i])
  <1> DEFINE file == HtmlWriter(rows)
             read == FlattenSeq([i \in DOMAIN file |-> ReadHtml(file[i])])
             sum == SummaryOf(Summary(rows))
             head == <<HtmlRow(sum)>>
             lines == [i \in DOMAIN rows |-> TableLineOf(rows[i])]
             more == [i \in DOMAIN rows |-> DetailsLineOf(rows[i])]
             first == <<sum>>
             rest == [i \in DOMAIN rows |-> TableOf(rows[i])]
             last == [i \in DOMAIN rows |-> DetailsOf(rows[i])]
             upper == head \o lines
             front == first \o rest
             texts == front \o last
  <1>1. /\ n \in Nat /\ DOMAIN rows = 1..n
        /\ \A i \in 1..n : IsRow(rows[i]) /\ IsWritable(rows[i])
    BY DEF Exportable
  <1>2. file = upper \o more
    BY DEF HtmlWriter, TableLineOf, DetailsLineOf, SummaryOf
  <1>3. LineIs("html", HtmlRow(sum), sum) /\ IsSeq(HtmlRow(sum))
    <2> DEFINE s == Summary(rows)
    <2>1. /\ s.total = n /\ s.open \in Nat /\ s.closed \in Nat
          /\ s.filtered \in Nat /\ s.cves \in Nat
      BY Summed DEF Exportable
    <2> HIDE DEF s
    <2>2. /\ CellIs("html", Number(s.total), Number(s.total))
          /\ CellIs("html", Number(s.open), Number(s.open))
          /\ CellIs("html", Number(s.closed), Number(s.closed))
          /\ CellIs("html", Number(s.filtered), Number(s.filtered))
          /\ CellIs("html", Number(s.cves), Number(s.cves))
      BY <1>1, <2>1, NumberCell
    <2>3. sum = SummaryOf(s)
      BY DEF s
    <2> HIDE DEF sum
    <2> QED BY <2>2, <2>3, FiveCells DEF SummaryOf
  <1>4. /\ IsSeq(head) /\ Len(head) = 1 /\ head[1] = HtmlRow(sum)
        /\ IsSeq(first) /\ Len(first) = 1 /\ first[1] = sum
    BY Singleton
  <1>5. /\ lines = [i \in 1..n |-> lines[i]] /\ more = [i \in 1..n |-> more[i]]
        /\ rest = [i \in 1..n |-> rest[i]] /\ last = [i \in 1..n |-> last[i]]
        /\ \A i \in 1..n :
               /\ lines[i] = TableLineOf(rows[i]) /\ rest[i] = TableOf(rows[i])
               /\ more[i] = DetailsLineOf(rows[i]) /\ last[i] = DetailsOf(rows[i])
    BY <1>1
  <1> HIDE DEF sum, head, lines, more, first, rest, last, file
  <1>6. /\ IsSeq(lines) /\ Len(lines) = n /\ IsSeq(more) /\ Len(more) = n
        /\ IsSeq(rest) /\ Len(rest) = n /\ IsSeq(last) /\ Len(last) = n
    BY <1>1, <1>5, SeqOfFunction
  <1>7. Joined(upper, head, 1, lines, n) /\ Joined(front, first, 1, rest, n)
    BY <1>4, <1>6 DEF Joined
  <1> HIDE DEF upper, front
  <1>8. /\ IsSeq(upper) /\ Len(upper) = 1 + n
        /\ \A i \in 1..1 : upper[i] = head[i]
        /\ \A i \in 1..n : upper[1 + i] = lines[i]
    BY <1>7, SeqConcat
  <1>9. /\ IsSeq(front) /\ Len(front) = 1 + n
        /\ \A i \in 1..1 : front[i] = first[i]
        /\ \A i \in 1..n : front[1 + i] = rest[i]
    BY <1>7, SeqConcat
  <1> DEFINE m == 1 + n
             N == m + n
  <1>10. /\ Joined(file, upper, m, more, n) /\ Joined(texts, front, m, last, n)
    BY <1>2, <1>6, <1>8, <1>9 DEF Joined
  <1> HIDE DEF texts
  <1>11. m \in Nat /\ N \in Nat /\ 1 \in 1..m
    BY <1>1
  <1> HIDE DEF m
  <1>12. /\ file = [i \in 1..N |-> file[i]]
         /\ \A i \in 1..m : file[i] = upper[i]
         /\ \A i \in 1..n : file[m + i] = more[i]
    BY <1>10, SeqConcat
  <1>13. /\ texts = [i \in 1..N |-> texts[i]] /\ Len(texts) = N
         /\ \A i \in 1..m : texts[i] = front[i]
         /\ \A i \in 1..n : texts[m + i] = last[i]
    BY <1>10, SeqConcat
  <1>14. file[1] = HtmlRow(sum) /\ texts[1] = sum
    <2>1. 1 \in 1..1
      OBVIOUS
    <2>2. upper[1] = HtmlRow(sum) /\ front[1] = sum
      BY <1>4, <1>8, <1>9, <2>1
    <2> QED BY <1>11, <1>12, <1>13, <2>2
  <1>15. ASSUME NEW i \in 1..N
         PROVE  IsSeq(file[i]) /\ LineIs("html", file[i], texts[i])
    <2>1. CASE i = 1
      BY <1>3, <1>14, <2>1
    <2>2. CASE i \in 1..m /\ i # 1
      <3>1. i - 1 \in 1..n /\ 1 + (i - 1) = i
        BY <1>1, <2>2 DEF m
      <3>2. /\ file[i] = TableLineOf(rows[i - 1]) /\ texts[i] = TableOf(rows[i - 1])
            /\ IsRow(rows[i - 1]) /\ IsWritable(rows[i - 1])
        <4> DEFINE k == i - 1
        <4>1. upper[1 + k] = lines[k] /\ front[1 + k] = rest[k]
          BY <1>8, <1>9, <3>1
        <4>2. file[i] = lines[k] /\ texts[i] = rest[k]
          BY <1>12, <1>13, <2>2, <3>1, <4>1
        <4> QED BY <1>1, <1>5, <3>1, <4>2
      <3> QED BY <3>2, TableRow
    <2>3. CASE i \notin 1..m
      <3>1. i - m \in 1..n /\ m + (i - m) = i
        BY <1>1, <1>11, <2>3
      <3>2. /\ file[i] = DetailsLineOf(rows[i - m])
            /\ texts[i] = DetailsOf(rows[i - m])
            /\ IsRow(rows[i - m]) /\ IsWritable(rows[i - m])
        BY <1>1, <1>5, <1>12, <1>13, <3>1
      <3> QED BY <3>2, DetailsRow
    <2> QED BY <2>1, <2>2, <2>3
  <1>16. DOMAIN texts = 1..N /\ DOMAIN file = 1..N
    BY <1>12, <1>13
  <1>17. Records("html", file, texts)
    BY <1>15, <1>16 DEF Records
  <1> HIDE DEF N
  <1>18. read = texts
    BY <1>11, <1>13, <1>16, <1>17, RecordsRead
  <1> HIDE DEF read
  <1>19. \A i \in 1..n : read[m + i] = DetailsOf(rows[i])
    BY <1>5, <1>13, <1>18
  <1> QED BY <1>13, <1>14, <1>18, <1>19 DEF read, file, sum, m, N

\* Words that spell no character in any format.
LegibleWord(w) == w \notin Entities /\ w \notin Escapes

LEMMA WordsLegible ==
    ASSUME NEW S, \A w \in S : LegibleWord(w), NEW text \in Seq(S)
    PROVE  Legible(text)
  <1>1. IsSeq(text) /\ DOMAIN text = 1..Len(text)
    BY SeqOfAny
  <1>2. \A w \in Range(text) : w \in S
    BY <1>1, ElementOfSeq DEF Range
  <1>3. \A w \in Range(text) : /\ w \notin Entities
                               /\ \A c \in Escaped : w # JsonEscape(c)
    BY <1>2, EscapesDiffer DEF LegibleWord
  <1> QED BY <1>1, <1>3 DEF Legible, IsSeq

DummyWords ==
    {"greeting", "status", "\r", "\n", "Server", "ssh", "ftp", "smtp", "http",
     "tls", "redis", "CVE-2020-15778", "CVE-2021-3618", "CVE-2019-3462",
     "CVE-2021-41773", "CVE-2021-23017", "CVE-2021-28164", "CVE-2020-1938",
     "CVE-2018-15599", "CVE-2015-3306", "CVE-2022-0543"}

LEMMA CentScaled ==
    ASSUME NEW n \in CvssScale
    PROVE  1000 * n \in EpssScale
  <1>1. Certain \in Int /\ Certain = 1000 * 100
    BY SMT DEF Certain
  <1>2. n \in Int /\ 0 <= n /\ n <= 100
    BY DEF CvssScale
  <1>3. 1000 * n \in Int /\ 0 <= 1000 * n /\ 1000 * n <= Certain
    BY <1>1, <1>2
  <1>4. Certain \in Int
    BY <1>1
  <1> DEFINE e == 1000 * n
  <1> HIDE DEF e
  <1>5. e \in Int /\ 0 <= e /\ e <= Certain
    BY <1>3 DEF e
  <1>6. e \in EpssScale
    BY <1>4, <1>5 DEF EpssScale
  <1> QED BY <1>6 DEF e

\* The demonstration rows can be written.
LEMMA DummyWritable ==
    \A i \in 1..10 : IsWritable(make_dummy_results[i])
  <1>1. \A w \in DummyWords : LegibleWord(w)
    BY Zenon DEF DummyWords, LegibleWord, Entities, Escapes
  <1>2. \A text \in Seq(DummyWords) : Legible(text)
    BY <1>1, WordsLegible
  <1>3. ASSUME NEW S, NEW a \in S, NEW b \in S, NEW c \in S, NEW d \in S
        PROVE  <<a>> \in Seq(S) /\ <<a, b, c, d>> \in Seq(S)
    OBVIOUS
  <1>4. Line \in Seq(DummyWords) /\ Lines \in Seq(DummyWords)
    <2>1. /\ "greeting" \in DummyWords /\ "status" \in DummyWords
          /\ "\r" \in DummyWords /\ "\n" \in DummyWords
          /\ "Server" \in DummyWords
      BY Zenon DEF DummyWords
    <2> QED BY <1>3, <2>1, Zenon DEF Line, Lines
  <1>5. ASSUME NEW service \in DummyWords, NEW banner \in {Line, Lines},
               NEW id \in DummyWords, NEW cvss \in CvssScale,
               NEW severity \in Severity, NEW epss \in CvssScale,
               NEW percentile \in CvssScale, NEW verified \in BOOLEAN
        PROVE  IsWritable(Row(service, banner, id, cvss, severity, epss,
                              percentile, verified))
    <2> DEFINE c == CveInfo(<<id>>, cvss, severity, 1000 * epss,
                            1000 * percentile, verified)
               r == [state |-> "Open", service |-> service, banner |-> banner,
                     cves |-> <<c>>]
    <2>1. Legible(<<service>>) /\ Legible(banner) /\ Legible(<<id>>)
      BY <1>2, <1>3, <1>4
    <2>2. /\ c.cve_id = <<id>> /\ c.severity = severity /\ c.verified = verified
          /\ InScale(c)
      <3>1. /\ 1000 * epss \in EpssScale /\ 1000 * percentile \in EpssScale
            /\ cvss \in CvssScale
        BY CentScaled
      <3>2. /\ c.cve_id = <<id>> /\ c.severity = severity
            /\ c.verified = verified /\ c.cvss = cvss
            /\ c.epss = 1000 * epss /\ c.percentile = 1000 * percentile
        BY DEF CveInfo
      <3> HIDE DEF c
      <3> QED BY <3>1, <3>2 DEF InScale
    <2> HIDE DEF c
    <2>3. Cves(r) = {c}
      BY DEF Cves
    <2>4. r.state = "Open" /\ r.service = service /\ r.banner = banner
      OBVIOUS
    <2>5. Texts(r) = {<<service>>, banner, <<id>>}
      BY <2>2, <2>3, <2>4 DEF Texts
    <2> HIDE DEF r
    <2>6. IsWritable(r)
      BY <2>1, <2>2, <2>3, <2>4, <2>5 DEF IsWritable
    <2> QED BY <2>6 DEF r, c, Row
  <1>6. /\ "ssh" \in DummyWords
        /\ "CVE-2020-15778" \in DummyWords
        /\ "ftp" \in DummyWords
        /\ "CVE-2021-3618" \in DummyWords
        /\ "smtp" \in DummyWords
        /\ "CVE-2019-3462" \in DummyWords
        /\ "http" \in DummyWords
        /\ "CVE-2021-41773" \in DummyWords
        /\ "tls" \in DummyWords
        /\ "CVE-2021-23017" \in DummyWords
        /\ "CVE-2021-28164" \in DummyWords
        /\ "CVE-2020-1938" \in DummyWords
        /\ "CVE-2018-15599" \in DummyWords
        /\ "CVE-2015-3306" \in DummyWords
        /\ "redis" \in DummyWords
        /\ "CVE-2022-0543" \in DummyWords
    BY Zenon DEF DummyWords
  <1>7. /\ "Critical" \in Severity
        /\ "High" \in Severity
        /\ "Low" \in Severity
        /\ "Medium" \in Severity
    BY Zenon DEF Severity
  <1>11. /\ 3 \in CvssScale /\ 4 \in CvssScale /\ 6 \in CvssScale
         /\ 8 \in CvssScale /\ 14 \in CvssScale /\ 18 \in CvssScale
         /\ 22 \in CvssScale /\ 33 \in CvssScale /\ 37 \in CvssScale
         /\ 41 \in CvssScale /\ 42 \in CvssScale /\ 53 \in CvssScale
         /\ 55 \in CvssScale /\ 59 \in CvssScale /\ 61 \in CvssScale
         /\ 65 \in CvssScale /\ 66 \in CvssScale /\ 78 \in CvssScale
         /\ 80 \in CvssScale /\ 86 \in CvssScale /\ 88 \in CvssScale
         /\ 91 \in CvssScale /\ 92 \in CvssScale /\ 93 \in CvssScale
         /\ 94 \in CvssScale /\ 98 \in CvssScale /\ 99 \in CvssScale
         /\ 100 \in CvssScale
    BY SMT DEF CvssScale
  <1>12. Line \in {Line, Lines} /\ Lines \in {Line, Lines} /\ TRUE \in BOOLEAN
         /\ FALSE \in BOOLEAN
    OBVIOUS
  <1>8. /\ IsWritable(RequiredProbes[1]) /\ IsWritable(RequiredProbes[2])
        /\ IsWritable(RequiredProbes[3]) /\ IsWritable(RequiredProbes[4])
        /\ IsWritable(RequiredProbes[5])
    <2>1. /\ RequiredProbes[1] =
                 Row("ssh", Line, "CVE-2020-15778", 78, "High", 18, 86, FALSE)
          /\ RequiredProbes[2] =
                 Row("ftp", Line, "CVE-2021-3618", 53, "Medium", 8, 66, FALSE)
          /\ RequiredProbes[3] =
                 Row("smtp", Line, "CVE-2019-3462", 37, "Low", 3, 42, FALSE)
          /\ RequiredProbes[4] =
                 Row("http", Lines, "CVE-2021-41773", 98, "Critical", 92, 99, TRUE)
          /\ RequiredProbes[5] =
                 Row("tls", Lines, "CVE-2021-23017", 94, "Critical", 4, 55, FALSE)
      BY DEF RequiredProbes
    <2>2. IsWritable(Row("ssh", Line, "CVE-2020-15778", 78, "High", 18, 86, FALSE))
      BY <1>5, <1>6, <1>7, <1>11, <1>12
    <2>3. IsWritable(Row("ftp", Line, "CVE-2021-3618", 53, "Medium", 8, 66, FALSE))
      BY <1>5, <1>6, <1>7, <1>11, <1>12
    <2>4. IsWritable(Row("smtp", Line, "CVE-2019-3462", 37, "Low", 3, 42, FALSE))
      BY <1>5, <1>6, <1>7, <1>11, <1>12
    <2>5. IsWritable(Row("http", Lines, "CVE-2021-41773", 98, "Critical", 92, 99, TRUE))
      BY <1>5, <1>6, <1>7, <1>11, <1>12
    <2>6. IsWritable(Row("tls", Lines, "CVE-2021-23017", 94, "Critical", 4, 55, FALSE))
      BY <1>5, <1>6, <1>7, <1>11, <1>12
    <2> QED BY <2>1, <2>2, <2>3, <2>4, <2>5, <2>6
  <1>9. /\ IsWritable(ExtraSamples[1]) /\ IsWritable(ExtraSamples[2])
        /\ IsWritable(ExtraSamples[3]) /\ IsWritable(ExtraSamples[4])
        /\ IsWritable(ExtraSamples[5])
    <2>1. /\ ExtraSamples[1] =
                 Row("http", Lines, "CVE-2021-28164", 59, "Medium", 14, 80, FALSE)
          /\ ExtraSamples[2] =
                 Row("tls", Lines, "CVE-2020-1938", 98, "Critical", 33, 91, TRUE)
          /\ ExtraSamples[3] =
                 Row("ssh", Line, "CVE-2018-15599", 53, "Medium", 6, 61, FALSE)
          /\ ExtraSamples[4] =
                 Row("ftp", Line, "CVE-2015-3306", 65, "Medium", 22, 88, FALSE)
          /\ ExtraSamples[5] =
                 Row("redis", Lines, "CVE-2022-0543", 100, "Critical", 41, 93, TRUE)
      BY DEF ExtraSamples
    <2>2. IsWritable(Row("http", Lines, "CVE-2021-28164", 59, "Medium", 14, 80, FALSE))
      BY <1>5, <1>6, <1>7, <1>11, <1>12
    <2>3. IsWritable(Row("tls", Lines, "CVE-2020-1938", 98, "Critical", 33, 91, TRUE))
      BY <1>5, <1>6, <1>7, <1>11, <1>12
    <2>4. IsWritable(Row("ssh", Line, "CVE-2018-15599", 53, "Medium", 6, 61, FALSE))
      BY <1>5, <1>6, <1>7, <1>11, <1>12
    <2>5. IsWritable(Row("ftp", Line, "CVE-2015-3306", 65, "Medium", 22, 88, FALSE))
      BY <1>5, <1>6, <1>7, <1>11, <1>12
    <2>6. IsWritable(Row("redis", Lines, "CVE-2022-0543", 100, "Critical", 41, 93, TRUE))
      BY <1>5, <1>6, <1>7, <1>11, <1>12
    <2> QED BY <2>1, <2>2, <2>3, <2>4, <2>5, <2>6
  <1>10. \A k \in 1..5 : IsWritable(RequiredProbes[k]) /\ IsWritable(ExtraSamples[k])
    <2>1. \A k \in 1..5 : k = 1 \/ k = 2 \/ k = 3 \/ k = 4 \/ k = 5
      OBVIOUS
    <2> QED BY <1>8, <1>9, <2>1
  <1> QED BY <1>10, DummyRows

\* An export tells of every row that was in the table, whatever the services
\* sent: no banner is lost or runs into another field, the totals add up, and
\* the risk is that of the riskiest CVE, to the digits the file keeps; a JSON
\* file can be read if the services sent UTF-8 (export_actions.cpp:17-80,
\* json_writer.cpp:29-131, csv_writer.cpp:12-100, html_writer.cpp:77-160).
THEOREM ExportsAreFaithful ==
    ASSUME ValuesWritten
    PROVE  Spec => ExportFaithful
  <1>1. ASSUME WindowInv PROVE FilesTellRows
    <2> DEFINE rows == table.rows
               n == Len(rows)
               json == JsonWriter(rows)
               csv == FlattenSeq([i \in DOMAIN CsvWriter(rows) |->
                                     ReadCsv(CsvWriter(rows)[i])])
               html == FlattenSeq([i \in DOMAIN HtmlWriter(rows) |->
                                      ReadHtml(HtmlWriter(rows)[i])])
               Risks(r) == {0} \union {c.cvss * c.epss : c \in Range(r.cves)}
               Highest(r) == CHOOSE k \in Risks(r) : \A m \in Risks(r) : m <= k
               Strings(result) == {result.service, result.banner}
                                  \union {cve.id : cve \in Range(result.cves)}
               AllUtf8 == \A r \in Range(rows) : IsUtf8(r)
               InJson(i) ==
                   /\ \A text \in Strings(json.results[i]) : IsJson(text)
                   /\ JsonUnescaped(json.results[i].banner) = Blanked(rows[i].banner)
                   /\ IsToSixDigits(json.results[i].max_risk, Highest(rows[i]))
               InFiles(i) ==
                   /\ Len(csv[i + 1]) = Len(csv[1])
                   /\ csv[i + 1][3] = rows[i].banner
                   /\ \E m \in Hundredths(Highest(rows[i])) :
                          csv[i + 1][7] = <<ToString(m)>>
                   /\ IsUtf8(rows[i]) => html[1 + n + i][3] = rows[i].banner
    <2>1. Exportable(rows, n)
      <3>1. rows \in Seq(AllRows)
        BY <1>1 DEF WindowInv, TableOK, IsTable, Tables
      <3>2. \A r \in AllRows : IsWritable(r)
        BY FoundAssumption, DummyWritable DEF AllRows
      <3> HIDE DEF rows
      <3> QED BY <3>1, <3>2, RowsAreRows DEF Exportable
    <2>2. /\ n \in Nat /\ DOMAIN rows = 1..n
          /\ \A i \in 1..n : IsRow(rows[i]) /\ IsWritable(rows[i])
      BY <2>1 DEF Exportable
    <2>3. ASSUME NEW list, Exportable(list, n)
          PROVE  LET file == HtmlWriter(list)
                     read == FlattenSeq([i \in DOMAIN file |-> ReadHtml(file[i])])
                 IN  /\ Len(read) = (1 + n) + n
                     /\ read[1] = SummaryOf(Summary(list))
                     /\ \A i \in 1..n : read[(1 + n) + i] = DetailsOf(list[i])
      BY <2>3, HtmlTold
    <2>4. /\ Len(csv) = 1 + n /\ csv[1] = CsvHeadings
          /\ \A i \in 1..n : csv[1 + i] = CsvOf(rows[i])
      BY <2>1, CsvTold
    <2>5. /\ Len(html) = (1 + n) + n /\ html[1] = SummaryOf(Summary(rows))
          /\ \A i \in 1..n : html[(1 + n) + i] = DetailsOf(rows[i])
      BY <2>1, <2>3
    <2>6. FilesTellRows <=>
              /\ AllUtf8 => /\ Len(json.results) = n
                            /\ json.summary.total = n
                            /\ json.summary.open + json.summary.closed
                                   + json.summary.filtered = n
                            /\ \A i \in DOMAIN rows : InJson(i)
              /\ Len(csv) = n + 1 /\ Len(html) = 2 * n + 1
              /\ html[1][1] = <<ToString(n)>>
              /\ \A i \in DOMAIN rows : InFiles(i)
      BY DEF FilesTellRows, Written
    <2>7. \A r : Highest(r) = max_risk(r)
      BY HighestRisk
    <2>8. AllUtf8 => \A i \in DOMAIN rows : IsUtf8(rows[i])
      BY DEF Range
    <2> HIDE DEF rows, n, json, csv, html, Highest, AllUtf8
    <2>9. /\ json.summary = Summary(rows) /\ DOMAIN json.results = DOMAIN rows
          /\ \A i \in DOMAIN rows :
                 /\ json.results[i].banner = json_escape(rows[i].banner)
                 /\ json.results[i].service = json_escape(<<rows[i].service>>)
                 /\ json.results[i].max_risk = SixDigits(max_risk(rows[i]))
                 /\ DOMAIN json.results[i].cves = DOMAIN rows[i].cves
                 /\ \A k \in DOMAIN rows[i].cves :
                        json.results[i].cves[k].id
                            = json_escape(rows[i].cves[k].cve_id)
      BY DEF json, JsonWriter
    <2>10. /\ json.summary.total = n /\ Len(json.results) = n
           /\ json.summary.open + json.summary.closed + json.summary.filtered = n
      <3>1. DOMAIN json.results = 1..n
        BY <2>2, <2>9
      <3>2. Len(json.results) = n
        <4>1. json.results = [i \in 1..n |-> json.results[i]]
          BY <3>1 DEF json, JsonWriter
        <4> QED BY <2>2, <4>1, SeqOfFunction
      <3>3. LET sum == Summary(rows)
            IN  sum.total = n /\ sum.open + sum.closed + sum.filtered = n
        BY <2>1, Summed DEF Exportable
      <3> QED BY <2>9, <3>2, <3>3
    <2>11. html[1][1] = <<ToString(n)>>
      <3>1. SummaryOf(Summary(rows))[1] = Number(json.summary.total)
        BY <2>9 DEF SummaryOf
      <3> QED BY <2>5, <2>10, <3>1 DEF Number
    <2>12. ASSUME NEW i \in 1..n PROVE InFiles(i)
      <3> DEFINE r == rows[i]
                 near == InUnits(max_risk(r), 10000)
      <3>1. IsRow(r) /\ IsWritable(r)
        BY <2>2
      <3>2. i + 1 = 1 + i /\ 1 + n + i = (1 + n) + i
        BY <2>2
      <3>3. csv[i + 1] = CsvOf(r) /\ html[1 + n + i] = DetailsOf(r)
        BY <2>4, <2>5, <3>2
      <3>4. near \in Hundredths(max_risk(r))
        <4>1. max_risk(r) \in Nat
          BY <3>1, RowNumbers
        <4> HIDE DEF r
        <4> QED BY <4>1, InHundredths
      <3> HIDE DEF r, near
      <3>6. /\ Len(CsvOf(r)) = 9 /\ CsvOf(r)[3] = r.banner
            /\ CsvOf(r)[7] = <<ToString(near)>>
        BY DEF CsvOf, Number, near
      <3>7. DetailsOf(r)[3] = r.banner
        BY <3>1, DetailsRow
      <3>8. Len(csv[1]) = 9
        BY <2>4, CsvHeadingsRead
      <3>9. /\ Len(csv[i + 1]) = Len(csv[1]) /\ csv[i + 1][3] = r.banner
            /\ csv[i + 1][7] = <<ToString(near)>>
            /\ html[1 + n + i][3] = r.banner
        BY <3>3, <3>6, <3>7, <3>8
      <3>10. Highest(r) = max_risk(r)
        BY <2>7
      <3> QED BY <3>4, <3>9, <3>10 DEF r
    <2>13. ASSUME AllUtf8, NEW i \in 1..n PROVE InJson(i)
      <3> DEFINE r == rows[i]
                 told == json.results[i]
      <3>1. IsRow(r) /\ IsWritable(r) /\ IsUtf8(r)
        BY <2>2, <2>8, <2>13
      <3>2. /\ told.banner = json_escape(r.banner)
            /\ told.service = json_escape(<<r.service>>)
            /\ told.max_risk = SixDigits(max_risk(r))
            /\ DOMAIN told.cves = DOMAIN r.cves
            /\ \A k \in DOMAIN r.cves :
                   told.cves[k].id = json_escape(r.cves[k].cve_id)
        BY <2>2, <2>9
      <3> HIDE DEF r, told
      <3>3. /\ Legible(<<r.service>>) /\ ~Contains(<<r.service>>, "0xff")
            /\ Legible(r.banner) /\ ~Contains(r.banner, "0xff")
            /\ \A c \in Cves(r) : Legible(c.cve_id) /\ ~Contains(c.cve_id, "0xff")
        BY <3>1, WritableTexts
      <3>4. IsJson(told.service) /\ IsJson(told.banner)
        BY <3>2, <3>3, JsonAccepted
      <3>5. ASSUME NEW k \in DOMAIN r.cves PROVE IsJson(told.cves[k].id)
        <4>1. r.cves[k] \in Cves(r)
          BY DEF Cves
        <4> QED BY <3>2, <3>3, <4>1, JsonAccepted
      <3>6. \A text \in Strings(told) : IsJson(text)
        <4>1. \A cve \in Range(told.cves) : IsJson(cve.id)
          BY <3>2, <3>5 DEF Range
        <4> QED BY <3>4, <4>1
      <3>7. JsonUnescaped(told.banner) = Blanked(r.banner)
        BY <3>2, <3>3, JsonRead
      <3>8. IsToSixDigits(told.max_risk, max_risk(r))
        BY <3>1, <3>2, RowNumbers, SixDigitsTell
      <3>9. Highest(r) = max_risk(r)
        BY <2>7
      <3> HIDE DEF Strings
      <3> QED BY <3>6, <3>7, <3>8, <3>9 DEF r, told
    <2>14. Len(csv) = n + 1 /\ Len(html) = 2 * n + 1
      BY <2>2, <2>4, <2>5
    <2> HIDE DEF InJson, InFiles
    <2> QED BY <2>2, <2>6, <2>10, <2>11, <2>12, <2>13, <2>14
  <1>2. WindowInv /\ [Next]_vars => [Export => FilesTellRows]_vars
    BY <1>1
  <1> QED BY <1>2, WindowInvariant, PTL DEF Spec, ExportFaithful
===============================================================================
