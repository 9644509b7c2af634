---------------------------- MODULE OperatorProofs -----------------------------
(*****************************************************************************)
(* The operators the modules are built from, for every text: the ports of a  *)
(* specification, the scope of a target, and the reports, read back by       *)
(* whoever reads them; and the lemmas on finite ordered sets and sequences   *)
(* that these and the other proofs rest on.  They replace induction: an      *)
(* element is found by the number of those below it, and what holds of 0 and *)
(* of the next holds up to a bound.                                          *)
(*****************************************************************************)
EXTENDS PortSpec, ScopeGuard, Reports, TlsFingerprint, FiniteSetTheorems,
        SequenceTheorems, TLAPS

\* A function on 1..n is a sequence.
LEMMA FunctionIsSeq ==
    ASSUME NEW n \in Nat, NEW S, NEW f \in [1..n -> S]
    PROVE  f \in Seq(S) /\ Len(f) = n
  OBVIOUS

-------------------------------------------------------------------------------
(* Sequences of whatever they hold.                                          *)

IsSeq(s) == s \in Seq(Range(s))

LEMMA SeqOfAny ==
    ASSUME NEW S, NEW s \in Seq(S)
    PROVE  IsSeq(s) /\ Len(s) \in Nat /\ DOMAIN s = 1..Len(s)
  <1> DEFINE n == Len(s)
             R == Range(s)
  <1>1. n \in Nat /\ DOMAIN s = 1..n /\ s = [i \in 1..n |-> s[i]]
    BY LenProperties
  <1>2. \A i \in 1..n : s[i] \in R
    BY <1>1 DEF Range
  <1> HIDE DEF n, R
  <1>3. s \in [1..n -> R]
    BY <1>1, <1>2
  <1>4. s \in Seq(R)
    BY <1>1, <1>3, FunctionIsSeq
  <1> QED BY <1>1, <1>4 DEF IsSeq, R, n

LEMMA SeqOfFunction ==
    ASSUME NEW n \in Nat, NEW s, s = [i \in 1..n |-> s[i]]
    PROVE  IsSeq(s) /\ Len(s) = n
  <1>1. \A i \in 1..n : s[i] \in Range(s)
    BY DEF Range
  <1> DEFINE R == Range(s)
  <1> HIDE DEF R
  <1>2. s \in [1..n -> R]
    BY <1>1 DEF R
  <1>3. s \in Seq(R) /\ Len(s) = n
    BY <1>2, FunctionIsSeq
  <1> QED BY <1>3 DEF IsSeq, R

\* Sequences of words are sequences of the words of all of them.
LEMMA CommonWords ==
    ASSUME NEW n \in Nat, NEW s, s = [i \in 1..n |-> s[i]],
           \A i \in 1..n : IsSeq(s[i])
    PROVE  s \in Seq(Seq(UNION {Range(s[i]) : i \in 1..n})) /\ Len(s) = n
  <1> DEFINE W == UNION {Range(s[i]) : i \in 1..n}
  <1>1. \A i \in 1..n : Range(s[i]) \subseteq W
    OBVIOUS
  <1> HIDE DEF W
  <1>2. \A i \in 1..n : s[i] \in Seq(W)
    <2>1. ASSUME NEW i \in 1..n PROVE s[i] \in Seq(W)
      <3>1. s[i] \in Seq(Range(s[i])) /\ Range(s[i]) \subseteq W
        BY <1>1 DEF IsSeq
      <3> QED BY <3>1, SeqMonotonic
    <2> QED BY <2>1
  <1>3. s \in [1..n -> Seq(W)]
    BY <1>2
  <1>4. s \in Seq(Seq(W)) /\ Len(s) = n
    BY <1>3, FunctionIsSeq
  <1> QED BY <1>4 DEF W

LEMMA SeqAppend ==
    ASSUME NEW s, IsSeq(s), NEW e, NEW t, t = Append(s, e)
    PROVE  /\ IsSeq(t) /\ Len(t) = Len(s) + 1
           /\ \A i \in 1..Len(s) : t[i] = s[i]
           /\ t[Len(s) + 1] = e
  <1> DEFINE n == Len(s)
             S == Range(s) \union {e}
  <1>1. n \in Nat /\ DOMAIN s = 1..n /\ s = [i \in 1..n |-> s[i]]
    BY LenProperties DEF IsSeq
  <1>2. \A i \in 1..n : s[i] \in S
    BY <1>1 DEF Range
  <1>3. e \in S
    OBVIOUS
  <1> HIDE DEF n, S
  <1>4. s \in [1..n -> S]
    BY <1>1, <1>2
  <1>5. s \in Seq(S)
    BY <1>1, <1>4, FunctionIsSeq
  <1>6. /\ t \in Seq(S) /\ Len(t) = Len(s) + 1
        /\ \A i \in 1..Len(s) : t[i] = s[i]
        /\ t[Len(s) + 1] = e
    BY <1>3, <1>5, AppendProperties
  <1> QED BY <1>6, SeqOfAny

\* One sequence of m and one of n elements, put together.
Joined(both, s, m, t, n) ==
    /\ IsSeq(s) /\ Len(s) = m /\ IsSeq(t) /\ Len(t) = n /\ both = s \o t

LEMMA SeqConcat ==
    ASSUME NEW s, NEW m, NEW t, NEW n, NEW both, Joined(both, s, m, t, n)
    PROVE  /\ IsSeq(both) /\ Len(both) = m + n
           /\ both = [i \in 1..(m + n) |-> both[i]]
           /\ \A i \in 1..m : both[i] = s[i]
           /\ \A i \in 1..n : both[m + i] = t[i]
  <1> DEFINE S == Range(s)
             T == Range(t)
             U == S \union T
  <1>1. S \subseteq U /\ T \subseteq U
    OBVIOUS
  <1>2. s \in Seq(S) /\ t \in Seq(T)
    BY DEF Joined, IsSeq
  <1> HIDE DEF S, T, U
  <1>3. s \in Seq(U) /\ t \in Seq(U)
    BY <1>1, <1>2, SeqMonotonic
  <1>4. /\ m \in Nat /\ n \in Nat /\ Len(s) = m /\ Len(t) = n
        /\ both = s \o t
    BY <1>2, LenProperties DEF Joined
  <1>5. s \o t \in Seq(U) /\ Len(s \o t) = m + n
        /\ \A i \in 1..(m + n) : (s \o t)[i] = IF i <= m THEN s[i] ELSE t[i - m]
    BY <1>3, <1>4, ConcatProperties
  <1>6. /\ both \in Seq(U) /\ Len(both) = m + n
        /\ \A i \in 1..(m + n) : both[i] = IF i <= m THEN s[i] ELSE t[i - m]
    BY <1>4, <1>5
  <1>7. IsSeq(both)
    BY <1>6, SeqOfAny
  <1>8. both = [i \in 1..(m + n) |-> both[i]]
    BY <1>6, LenProperties
  <1>9. \A i \in 1..m : both[i] = s[i]
    BY <1>4, <1>6
  <1>10. ASSUME NEW i \in 1..n PROVE both[m + i] = t[i]
    <2>1. m + i \in 1..(m + n) /\ ~(m + i <= m) /\ (m + i) - m = i
      BY <1>4
    <2> QED BY <1>6, <2>1
  <1> QED BY <1>6, <1>7, <1>8, <1>9, <1>10

LEMMA SeqReplace ==
    ASSUME NEW s, IsSeq(s), NEW k \in 1..Len(s), NEW e,
           NEW t, t = [s EXCEPT ![k] = e]
    PROVE  /\ IsSeq(t) /\ Len(t) = Len(s) /\ t[k] = e
           /\ \A i \in 1..Len(s) : i # k => t[i] = s[i]
  <1> DEFINE n == Len(s)
             S == Range(s) \union {e}
  <1>1. n \in Nat /\ DOMAIN s = 1..n
    BY LenProperties DEF IsSeq
  <1>2. \A i \in 1..n : s[i] \in S
    BY <1>1 DEF Range
  <1>3. e \in S
    OBVIOUS
  <1>4. /\ t = [i \in 1..n |-> t[i]] /\ t[k] = e
        /\ \A i \in 1..n : i # k => t[i] = s[i]
    BY <1>1
  <1> HIDE DEF n, S
  <1>5. t \in [1..n -> S]
    BY <1>2, <1>3, <1>4
  <1>6. t \in Seq(S) /\ Len(t) = n
    BY <1>1, <1>5, FunctionIsSeq
  <1>7. IsSeq(t)
    BY <1>6, SeqOfAny
  <1> QED BY <1>4, <1>6, <1>7 DEF n

LEMMA Singleton == ASSUME NEW e PROVE IsSeq(<<e>>)
  <1>1. <<e>> \in Seq({e})
    OBVIOUS
  <1> QED BY <1>1, SeqOfAny

LEMMA Pair == ASSUME NEW d, NEW e PROVE IsSeq(<<d, e>>)
  <1>1. <<d, e>> \in Seq({d, e})
    OBVIOUS
  <1> QED BY <1>1, SeqOfAny

-------------------------------------------------------------------------------
(* Finite sets in a strict order.                                            *)

\* R orders S strictly, and no two elements of S are unordered.
OrdersStrictly(R, S) ==
    /\ \A i \in S : <<i, i>> \notin R
    /\ \A i, j, k \in S : <<i, j>> \in R /\ <<j, k>> \in R => <<i, k>> \in R
    /\ \A i, j \in S : i # j => <<i, j>> \in R \/ <<j, i>> \in R

Below(S, R, i) == {k \in S : <<k, i>> \in R}

Rank(S, R, i) == Cardinality(Below(S, R, i))

\* In a finite ordered set the number of elements below an element is its
\* place: it tells which comes first, and every place is taken.
LEMMA RankOnto ==
    ASSUME NEW S, IsFiniteSet(S), NEW R, OrdersStrictly(R, S)
    PROVE  /\ \A i \in S : Rank(S, R, i) \in 0..(Cardinality(S) - 1)
           /\ \A i, j \in S : <<i, j>> \in R <=> Rank(S, R, i) < Rank(S, R, j)
           /\ \A n \in 0..(Cardinality(S) - 1) : \E i \in S : Rank(S, R, i) = n
  <1> DEFINE N == Cardinality(S)
             rank == [i \in S |-> Rank(S, R, i)]
  <1>1. N \in Nat
    BY FS_CardinalityType
  <1>2. ASSUME NEW i \in S
        PROVE /\ IsFiniteSet(Below(S, R, i))
              /\ Rank(S, R, i) \in Nat /\ Rank(S, R, i) <= N - 1
    <2>1. Below(S, R, i) \in SUBSET (S \ {i})
      BY DEF Below, OrdersStrictly
    <2>2. IsFiniteSet(S \ {i}) /\ Cardinality(S \ {i}) = N - 1
      BY FS_RemoveElement
    <2>3. IsFiniteSet(Below(S, R, i)) /\ Rank(S, R, i) <= N - 1
      BY <2>1, <2>2, FS_Subset DEF Rank
    <2> QED BY <2>3, FS_CardinalityType DEF Rank
  <1>3. ASSUME NEW i \in S, NEW j \in S, <<i, j>> \in R
        PROVE  Rank(S, R, i) < Rank(S, R, j)
    <2>1. /\ Below(S, R, i) \union {i} \in SUBSET Below(S, R, j)
          /\ i \notin Below(S, R, i)
      BY <1>3 DEF Below, OrdersStrictly
    <2>2. IsFiniteSet(Below(S, R, j)) /\ IsFiniteSet(Below(S, R, i))
      BY <1>2
    <2>3. Cardinality(Below(S, R, i) \union {i}) = Rank(S, R, i) + 1
      BY <2>1, <2>2, FS_AddElement DEF Rank
    <2>4. Cardinality(Below(S, R, i) \union {i}) <= Rank(S, R, j)
      BY <2>1, <2>2, FS_Subset DEF Rank
    <2> QED BY <1>2, <2>3, <2>4
  <1>4. ASSUME NEW i \in S, NEW j \in S, Rank(S, R, i) < Rank(S, R, j)
        PROVE  <<i, j>> \in R
    <2>1. i # j /\ <<j, i>> \notin R
      BY <1>2, <1>3, <1>4
    <2> QED BY <2>1 DEF OrdersStrictly
  <1>5. rank \in [S -> 0..(N - 1)]
    BY <1>1, <1>2
  <1>6. ASSUME NEW i \in S, NEW j \in S, rank[i] = rank[j] PROVE i = j
    <2>1. SUFFICES ASSUME i # j PROVE FALSE
      OBVIOUS
    <2>2. <<i, j>> \in R \/ <<j, i>> \in R
      BY <2>1 DEF OrdersStrictly
    <2> QED BY <1>2, <1>3, <1>6, <2>2
  <1>7. rank \in Injection(S, 0..(N - 1))
    BY <1>5, <1>6 DEF Injection, IsInjective
  <1>8. IsFiniteSet(0..(N - 1)) /\ Cardinality(0..(N - 1)) = N
    BY <1>1, FS_Interval
  <1>9. rank \in Surjection(S, 0..(N - 1))
    BY <1>7, <1>8, FS_Injection
  <1>10. \A n \in 0..(N - 1) : \E i \in S : rank[i] = n
    BY <1>9 DEF Surjection
  <1> QED BY <1>1, <1>2, <1>3, <1>4, <1>10

\* So a finite ordered set that is not empty has a last element.
LEMMA LastExists ==
    ASSUME NEW S, IsFiniteSet(S), S # {}, NEW R, OrdersStrictly(R, S)
    PROVE  \E i \in S : \A k \in S : k = i \/ <<k, i>> \in R
  <1> DEFINE N == Cardinality(S)
  <1>1. N \in Nat /\ N # 0
    BY FS_CardinalityType, FS_EmptySet
  <1>2. PICK i \in S : Rank(S, R, i) = N - 1
    BY <1>1, RankOnto
  <1>3. ASSUME NEW k \in S PROVE k = i \/ <<k, i>> \in R
    <2>1. ~(Rank(S, R, i) < Rank(S, R, k))
      BY <1>1, <1>2, RankOnto
    <2> QED BY <2>1, RankOnto DEF OrdersStrictly
  <1> QED BY <1>3

Less(S) == {p \in S \X S : p[1] < p[2]}

LEMMA LessOrders ==
    ASSUME NEW S, \A n \in S : n \in Int
    PROVE  /\ OrdersStrictly(Less(S), S)
           /\ \A i, j \in S : <<i, j>> \in Less(S) <=> i < j
  BY DEF OrdersStrictly, Less

\* A finite set of integers has a greatest element.
LEMMA HasGreatest ==
    ASSUME NEW S, \A n \in S : n \in Int, IsFiniteSet(S), S # {}
    PROVE  \E n \in S : \A k \in S : k <= n
  <1>1. OrdersStrictly(Less(S), S)
    BY LessOrders
  <1>2. PICK n \in S : \A k \in S : k = n \/ <<k, n>> \in Less(S)
    BY <1>1, LastExists
  <1>3. \A k \in S : k = n \/ k < n
    BY <1>2, LessOrders
  <1> QED BY <1>3

-------------------------------------------------------------------------------
(* Sets in ascending order, and what is kept of a sequence.                  *)

\* Ascending(S) has every element of S once, the lesser before the greater.
LEMMA AscendingSorts ==
    ASSUME NEW S, \A n \in S : n \in Int, IsFiniteSet(S)
    PROVE  /\ Ascending(S) \in [1..Cardinality(S) -> S]
           /\ \A i, j \in 1..Cardinality(S) :
                  i < j => Ascending(S)[i] < Ascending(S)[j]
           /\ \A n \in S : \E i \in 1..Cardinality(S) : Ascending(S)[i] = n
  <1> DEFINE N == Cardinality(S)
             A == Ascending(S)
             rank(n) == Cardinality({k \in S : k < n})
  <1>1. N \in Nat
    BY FS_CardinalityType
  <1>2. \A n \in S : {k \in S : k < n} = Below(S, Less(S), n)
    BY LessOrders DEF Below
  <1>3. \A n \in S : rank(n) = Rank(S, Less(S), n)
    BY <1>2 DEF Rank
  <1>4. /\ \A n \in S : rank(n) \in 0..(N - 1)
        /\ \A n, k \in S : n < k <=> rank(n) < rank(k)
        /\ \A r \in 0..(N - 1) : \E n \in S : rank(n) = r
    <2> HIDE DEF rank
    <2>1. OrdersStrictly(Less(S), S)
      BY LessOrders
    <2>2. /\ \A n \in S : Rank(S, Less(S), n) \in 0..(N - 1)
          /\ \A n, k \in S : <<n, k>> \in Less(S) <=>
                 Rank(S, Less(S), n) < Rank(S, Less(S), k)
          /\ \A r \in 0..(N - 1) : \E n \in S : Rank(S, Less(S), n) = r
      BY <2>1, RankOnto
    <2>3. \A n \in S : rank(n) \in 0..(N - 1)
      BY <1>3, <2>2
    <2>4. \A n, k \in S : n < k <=> rank(n) < rank(k)
      <3> TAKE n, k \in S
      <3>1. <<n, k>> \in Less(S) <=> n < k
        BY LessOrders
      <3>2. <<n, k>> \in Less(S) <=>
                Rank(S, Less(S), n) < Rank(S, Less(S), k)
        BY <2>2
      <3>3. rank(n) = Rank(S, Less(S), n) /\ rank(k) = Rank(S, Less(S), k)
        BY <1>3
      <3> QED BY <3>1, <3>2, <3>3
    <2>5. \A r \in 0..(N - 1) : \E n \in S : rank(n) = r
      BY <1>3, <2>2
    <2> QED BY <2>3, <2>4, <2>5
  <1>5. A = [i \in 1..N |-> CHOOSE n \in S : rank(n) = i - 1]
    BY DEF Ascending
  <1> HIDE DEF N, A, rank
  <1>6. ASSUME NEW i \in 1..N PROVE A[i] \in S /\ rank(A[i]) = i - 1
    <2>1. i - 1 \in 0..(N - 1)
      BY <1>1
    <2>2. \E n \in S : rank(n) = i - 1
      BY <1>4, <2>1
    <2> QED BY <1>5, <2>2
  <1>7. A \in [1..N -> S]
    BY <1>5, <1>6
  <1>8. ASSUME NEW i \in 1..N, NEW j \in 1..N, i < j PROVE A[i] < A[j]
    BY <1>1, <1>4, <1>6, <1>8
  <1>9. ASSUME NEW n \in S PROVE \E i \in 1..N : A[i] = n
    <2>1. rank(n) + 1 \in 1..N /\ rank(n) \in Int
      BY <1>1, <1>4
    <2>2. A[rank(n) + 1] \in S /\ rank(A[rank(n) + 1]) = rank(n)
      BY <1>6, <2>1
    <2>3. ~(A[rank(n) + 1] < n) /\ ~(n < A[rank(n) + 1])
      BY <1>4, <2>1, <2>2
    <2> QED BY <2>1, <2>2, <2>3
  <1> QED BY <1>7, <1>8, <1>9 DEF N, A

\* A finite set of integers has a least element.
LEMMA HasLeast ==
    ASSUME NEW S, \A n \in S : n \in Int, IsFiniteSet(S), S # {}
    PROVE  \E n \in S : \A k \in S : n <= k
  <1> DEFINE N == Cardinality(S)
             A == Ascending(S)
  <1>1. /\ A \in [1..N -> S]
        /\ \A i, j \in 1..N : i < j => A[i] < A[j]
        /\ \A n \in S : \E i \in 1..N : A[i] = n
    BY AscendingSorts
  <1>2. N \in Nat /\ N # 0
    BY FS_CardinalityType, FS_EmptySet
  <1> HIDE DEF N, A
  <1>3. 1 \in 1..N /\ A[1] \in S
    BY <1>1, <1>2
  <1>4. ASSUME NEW k \in S PROVE A[1] <= k
    <2>1. PICK i \in 1..N : A[i] = k
      BY <1>1
    <2>2. i = 1 \/ A[1] < A[i]
      BY <1>1, <1>3
    <2> QED BY <1>3, <2>1, <2>2
  <1> QED BY <1>3, <1>4

\* Induction up to a bound.
LEMMA UpTo ==
    ASSUME NEW m \in Nat, NEW S, 0 \in S,
           \A i \in 1..m : i - 1 \in S => i \in S
    PROVE  \A i \in 0..m : i \in S
  <1> DEFINE out == {i \in 0..m : i \notin S}
  <1> SUFFICES ASSUME out # {} PROVE FALSE
    OBVIOUS
  <1>1. IsFiniteSet(out) /\ \A i \in out : i \in Int
    <2>1. IsFiniteSet(0..m)
      BY FS_Interval
    <2> QED BY <2>1, FS_Subset
  <1>2. \A i : i \in out <=> i \in 0..m /\ i \notin S
    OBVIOUS
  <1> HIDE DEF out
  <1>3. PICK i \in out : \A k \in out : i <= k
    BY <1>1, HasLeast
  <1>4. i \in 1..m /\ i - 1 \in 0..m /\ ~(i <= i - 1)
    BY <1>2
  <1>5. i - 1 \in S
    BY <1>2, <1>3, <1>4
  <1> QED BY <1>2, <1>4, <1>5

\* The elements kept of a sequence are those at the positions, in their order.
LEMMA KeptElements ==
    ASSUME NEW T, NEW s \in Seq(T), NEW S, \A i \in S : i \in DOMAIN s
    PROVE  LET N == Cardinality(S)
               at == Ascending(S)
           IN  /\ N \in Nat /\ (N = 0 <=> S = {})
               /\ at \in [1..N -> S] /\ DOMAIN at = 1..N
               /\ \A i, j \in 1..N : i < j => at[i] < at[j]
               /\ \A i \in S : \E n \in 1..N : at[n] = i
               /\ Kept(s, S) \in Seq(T) /\ Len(Kept(s, S)) = N
               /\ DOMAIN Kept(s, S) = 1..N
               /\ \A n \in 1..N : Kept(s, S)[n] = s[at[n]]
  <1> DEFINE N == Cardinality(S)
             at == Ascending(S)
             kept == Kept(s, S)
  <1>1. Len(s) \in Nat /\ DOMAIN s = 1..Len(s)
    BY LenProperties
  <1>2. IsFiniteSet(S) /\ \A i \in S : i \in Int
    <2>1. IsFiniteSet(1..Len(s))
      BY <1>1, FS_Interval
    <2>2. S \in SUBSET (1..Len(s))
      BY <1>1
    <2>3. IsFiniteSet(S)
      BY <2>1, <2>2, FS_Subset
    <2> QED BY <1>1, <2>2, <2>3
  <1>3. N \in Nat /\ (N = 0 <=> S = {})
    BY <1>2, FS_CardinalityType, FS_EmptySet
  <1>4. /\ at \in [1..N -> S]
        /\ \A i, j \in 1..N : i < j => at[i] < at[j]
        /\ \A i \in S : \E n \in 1..N : at[n] = i
    BY <1>2, AscendingSorts
  <1>5. kept = [i \in DOMAIN at |-> s[at[i]]]
    BY DEF Kept
  <1> HIDE DEF N, at, kept
  <1>6. DOMAIN at = 1..N
    BY <1>4
  <1>7. DOMAIN kept = 1..N /\ \A n \in 1..N : kept[n] = s[at[n]]
    BY <1>5, <1>6
  <1>8. \A n \in 1..N : at[n] \in 1..Len(s)
    BY <1>1, <1>4
  <1>9. \A n \in 1..N : kept[n] \in T
    BY <1>7, <1>8, ElementOfSeq
  <1>10. kept \in [1..N -> T]
    BY <1>5, <1>6, <1>9
  <1>11. kept \in Seq(T) /\ Len(kept) = N
    BY <1>3, <1>10, FunctionIsSeq
  <1> QED BY <1>3, <1>4, <1>6, <1>7, <1>11 DEF N, at, kept

-------------------------------------------------------------------------------
(* Sequences, one after the other.                                           *)

\* The texts of a sequence, one after the other, are a text: the recursion of
\* FlattenSeq has a solution, which is one throughout.
LEMMA Flattened ==
    ASSUME NEW W, NEW seqs \in Seq(Seq(W))
    PROVE  \E F : /\ F \in [0..Len(seqs) -> Seq(W)] /\ F[0] = <<>>
                  /\ \A i \in 1..Len(seqs) : F[i] = F[i - 1] \o seqs[i]
                  /\ FlattenSeq(seqs) = F[Len(seqs)]
  <1> DEFINE n == Len(seqs)
             Next1(f, i) == IF i = 1 THEN seqs[i] ELSE f[i - 1] \o seqs[i]
             Solves(f) == f = [i \in 1..n |-> Next1(f, i)]
             From0(f, m) == f[0] = <<>> /\ \A i \in 1..m : f[i] = f[i - 1] \o seqs[i]
             up == {m \in 0..n : \E f \in [0..m -> Seq(W)] : From0(f, m)}
             G == CHOOSE f : Solves(f)
  <1>1. n \in Nat /\ \A i \in 1..n : seqs[i] \in Seq(W)
    BY LenProperties, ElementOfSeq
  <1>2. FlattenSeq(seqs) = IF n = 0 THEN seqs ELSE G[n]
    BY DEF FlattenSeq
  <1>3. /\ \A s, t \in Seq(W) : s \o t \in Seq(W)
        /\ \A s \in Seq(W) : <<>> \o s = s
        /\ <<>> \in Seq(W)
    BY ConcatProperties, ConcatEmptySeq, EmptySeq
  <1> HIDE DEF n
  <1>4. 0 \in up
    <2> DEFINE none == [i \in 0..0 |-> <<>>]
    <2>1. none \in [0..0 -> Seq(W)] /\ From0(none, 0)
      BY <1>3
    <2> HIDE DEF none, From0
    <2>2. \E f \in [0..0 -> Seq(W)] : From0(f, 0)
      BY <2>1
    <2> QED BY <1>1, <2>2
  <1>5. ASSUME NEW m \in 1..n, m - 1 \in up PROVE m \in up
    <2>1. PICK f \in [0..(m - 1) -> Seq(W)] : From0(f, m - 1)
      BY <1>5
    <2> DEFINE last == f[m - 1] \o seqs[m]
               g == [i \in 0..m |-> IF i = m THEN last ELSE f[i]]
    <2>2. last \in Seq(W)
      BY <1>1, <1>3
    <2>3. \A i \in 0..m : i = m \/ i \in 0..(m - 1)
      BY <1>1
    <2>4. g \in [0..m -> Seq(W)]
      BY <2>2, <2>3
    <2>5. From0(g, m)
      <3>1. g[0] = <<>> /\ g[m] = last /\ g[m - 1] = f[m - 1]
        <4>1. 0 \in 0..m /\ 0 # m /\ m \in 0..m /\ m - 1 \in 0..m /\ m - 1 # m
          BY <1>1
        <4> HIDE DEF last
        <4> QED BY <2>1, <4>1
      <3>2. ASSUME NEW i \in 1..m PROVE g[i] = g[i - 1] \o seqs[i]
        <4>1. CASE i = m
          BY <3>1, <4>1
        <4>2. CASE i # m
          <5>1. i \in 1..(m - 1) /\ i - 1 \in 0..(m - 1) /\ i - 1 # m
            BY <1>1, <4>2
          <5>2. g[i] = f[i] /\ g[i - 1] = f[i - 1]
            BY <2>3, <4>2, <5>1
          <5> QED BY <2>1, <5>1, <5>2
        <4> QED BY <4>1, <4>2
      <3> QED BY <3>1, <3>2
    <2> HIDE DEF g, From0
    <2>6. m \in 0..n
      BY <1>1
    <2> QED BY <2>4, <2>5, <2>6
  <1>6. n \in up
    <2> HIDE DEF up
    <2>1. \A i \in 0..n : i \in up
      BY <1>1, <1>4, <1>5, UpTo
    <2> QED BY <1>1, <2>1
  <1>7. PICK F \in [0..n -> Seq(W)] : From0(F, n)
    BY <1>6
  <1>8. Solves(G)
    <2> DEFINE f == [i \in 1..n |-> F[i]]
    <2>1. ASSUME NEW i \in 1..n PROVE f[i] = Next1(f, i)
      <3>1. f[i] = F[i - 1] \o seqs[i]
        BY <1>7
      <3>2. CASE i = 1
        <4>1. F[i - 1] = <<>> /\ seqs[i] \in Seq(W)
          BY <1>1, <1>7, <3>2
        <4> QED BY <1>3, <3>1, <3>2, <4>1
      <3>3. CASE i # 1
        <4>1. i - 1 \in 1..n
          BY <1>1, <3>3
        <4> QED BY <3>1, <3>3, <4>1
      <3> QED BY <3>2, <3>3
    <2> HIDE DEF Next1
    <2>2. Solves(f)
      BY <2>1
    <2> HIDE DEF Solves, f
    <2> QED BY <2>2
  <1> HIDE DEF G
  <1> DEFINE same == {i \in 0..n : i = 0 \/ G[i] = F[i]}
  <1>9. ASSUME NEW i \in 1..n, i - 1 \in same PROVE i \in same
    <2>1. G[i] = Next1(G, i)
      BY <1>8
    <2>2. F[i] = F[i - 1] \o seqs[i]
      BY <1>7
    <2>3. CASE i = 1
      <3>1. F[i - 1] = <<>> /\ seqs[i] \in Seq(W)
        BY <1>1, <1>7, <2>3
      <3>2. F[i] = seqs[i]
        BY <1>3, <2>2, <3>1
      <3> QED BY <2>1, <2>3, <3>2
    <2>4. CASE i # 1
      <3>1. i - 1 # 0
        BY <2>4
      <3>2. G[i - 1] = F[i - 1]
        BY <1>9, <3>1
      <3>3. G[i] = G[i - 1] \o seqs[i]
        BY <2>1, <2>4
      <3>4. G[i] = F[i] /\ i \in 0..n
        BY <1>1, <2>2, <3>2, <3>3
      <3> QED BY <3>4
    <2> QED BY <2>3, <2>4
  <1>10. \A i \in 0..n : i \in same
    <2>1. 0 \in same
      BY <1>1
    <2> HIDE DEF same
    <2> QED BY <1>1, <1>9, <2>1, UpTo
  <1>11. FlattenSeq(seqs) = F[n]
    <2>1. CASE n = 0
      <3>1. seqs = <<>>
        BY <2>1, EmptySeq DEF n
      <3> QED BY <1>2, <1>7, <2>1, <3>1
    <2>2. CASE n # 0
      <3>1. n \in same
        BY <1>1, <1>10
      <3> QED BY <1>2, <2>2, <3>1
    <2> QED BY <2>1, <2>2
  <1> HIDE DEF From0
  <1>12. From0(F, n)
    BY <1>7
  <1> QED BY <1>7, <1>11, <1>12 DEF From0, n

LEMMA FlattenedIsText ==
    ASSUME NEW W, NEW seqs \in Seq(Seq(W))
    PROVE  FlattenSeq(seqs) \in Seq(W)
  <1>1. PICK F : /\ F \in [0..Len(seqs) -> Seq(W)]
                 /\ FlattenSeq(seqs) = F[Len(seqs)]
    BY Flattened
  <1>2. Len(seqs) \in 0..Len(seqs)
    BY LenProperties
  <1> QED BY <1>1, <1>2

-------------------------------------------------------------------------------
(* expand_port_spec().                                                       *)

\* A specification: its pieces, of each the numbers its fields spell.
Specification == Seq(Seq(Int))

\* What fits a uint16_t and is not 0.
PortNumbers == {n \in Int : parse_uint16(n)}

LEMMA PortNumbersFinite == IsFiniteSet(PortNumbers)
  <1>1. \A max \in Nat : IsFiniteSet({n \in Int : n >= 1 /\ n <= max})
    <2>1. SUFFICES ASSUME NEW max \in Nat
                   PROVE  IsFiniteSet({n \in Int : n >= 1 /\ n <= max})
      OBVIOUS
    <2>2. {n \in Int : n >= 1 /\ n <= max} = 1..max
      OBVIOUS
    <2>3. IsFiniteSet(1..max)
      BY FS_Interval
    <2> QED BY <2>2, <2>3
  <1> QED BY <1>1 DEF PortNumbers, parse_uint16

\* A piece asks for a port when it names it, or a range it lies in.
Asks(piece, p) ==
    \/ Len(piece) = 1 /\ p = piece[1]
    \/ Len(piece) = 2 /\ (p \in piece[1]..piece[2] \/ p \in piece[2]..piece[1])

LEMMA AskedPorts ==
    ASSUME NEW piece \in Seq(Int), Flushes(piece)
    PROVE  \A p : p \in PortsOf(piece) <=> Asks(piece, p) /\ p \in PortNumbers
  <1> DEFINE n == Len(piece)
  <1>1. n \in Nat /\ n <= 2 /\ DOMAIN piece = 1..n /\ (n = 0 <=> piece = <<>>)
    BY EmptySeq DEF Flushes
  <1>2. \A i \in 1..n : piece[i] \in Int /\ piece[i] >= 1 /\ piece[i] <= 65535
    BY <1>1 DEF Flushes, parse_uint16
  <1>3. PortsOf(piece) = IF piece = <<>> THEN {}
                         ELSE IF piece[1] > piece[n] THEN piece[n]..piece[1]
                                                     ELSE piece[1]..piece[n]
    BY DEF PortsOf
  <1>4. \A p : Asks(piece, p) <=>
                   \/ n = 1 /\ p = piece[1]
                   \/ n = 2 /\ (\/ p \in piece[1]..piece[2]
                                \/ p \in piece[2]..piece[1])
    BY DEF Asks
  <1> HIDE DEF n
  <1>5. n = 0 \/ n = 1 \/ n = 2
    BY <1>1
  <1>6. CASE n = 0
    BY <1>1, <1>3, <1>4, <1>6
  <1>7. CASE n = 1
    <2>1. piece[1] \in Int /\ piece[1] >= 1 /\ piece[1] <= 65535
      BY <1>2, <1>7
    <2>2. PortsOf(piece) = piece[1]..piece[1]
      BY <1>1, <1>3, <1>7, <2>1
    <2> QED BY <1>4, <1>7, <2>1, <2>2 DEF PortNumbers, parse_uint16
  <1>8. CASE n = 2
    <2>1. /\ piece[1] \in Int /\ piece[1] >= 1 /\ piece[1] <= 65535
          /\ piece[2] \in Int /\ piece[2] >= 1 /\ piece[2] <= 65535
      BY <1>2, <1>8
    <2>2. PortsOf(piece) = IF piece[1] > piece[2] THEN piece[2]..piece[1]
                                                  ELSE piece[1]..piece[2]
      BY <1>1, <1>3, <1>8
    <2> QED BY <1>4, <1>8, <2>1, <2>2 DEF PortNumbers, parse_uint16
  <1> QED BY <1>5, <1>6, <1>7, <1>8

\* A specification is scanned as it was meant: the ports some piece of it asks
\* for, each once and ascending, whatever repeats, overlaps or runs backwards;
\* and nothing at all when a piece is not well formed (args.cpp:57-106).
THEOREM PortsExpanded ==
    ASSUME NEW spec \in Specification
    PROVE  LET ports == expand_port_spec(spec)
               WellFormed == \A i \in DOMAIN spec : Flushes(spec[i])
           IN  /\ ports \in Seq(PortNumbers)
               /\ \A i, j \in DOMAIN ports : i < j => ports[i] < ports[j]
               /\ \A p : (\E i \in DOMAIN ports : ports[i] = p) <=>
                         /\ WellFormed
                         /\ \E i \in DOMAIN spec : Asks(spec[i], p)
                         /\ p \in PortNumbers
  <1> DEFINE ports == expand_port_spec(spec)
             WellFormed == \A i \in DOMAIN spec : Flushes(spec[i])
             asked == UNION {PortsOf(spec[i]) : i \in DOMAIN spec}
  <1>1. CASE ~WellFormed
    <2>1. ports = <<>>
      BY <1>1 DEF expand_port_spec
    <2> QED BY <1>1, <2>1
  <1>2. CASE WellFormed
    <2>1. \A i \in DOMAIN spec : spec[i] \in Seq(Int)
      BY DEF Specification
    <2>2. \A i \in DOMAIN spec : \A p :
              p \in PortsOf(spec[i]) <=> Asks(spec[i], p) /\ p \in PortNumbers
      BY <1>2, <2>1, AskedPorts
    <2>3. \A p : p \in asked <=> \E i \in DOMAIN spec : p \in PortsOf(spec[i])
      OBVIOUS
    <2>4. ports = Ascending(asked)
      BY <1>2 DEF expand_port_spec
    <2> HIDE DEF asked, ports, WellFormed
    <2>5. \A p : p \in asked <=> /\ \E i \in DOMAIN spec : Asks(spec[i], p)
                                 /\ p \in PortNumbers
      BY <2>2, <2>3
    <2>6. asked \in SUBSET PortNumbers
      BY <2>5
    <2>7. IsFiniteSet(asked)
      BY <2>6, PortNumbersFinite, FS_Subset
    <2>8. Cardinality(asked) \in Nat
      BY <2>7, FS_CardinalityType
    <2> DEFINE N == Cardinality(asked)
    <2>9. \A p \in asked : p \in Int
      BY <2>6 DEF PortNumbers
    <2>10. /\ ports \in [1..N -> asked]
           /\ \A i, j \in 1..N : i < j => ports[i] < ports[j]
           /\ \A p \in asked : \E i \in 1..N : ports[i] = p
      BY <2>4, <2>7, <2>9, AscendingSorts
    <2> HIDE DEF N
    <2>11. DOMAIN ports = 1..N /\ N \in Nat
      BY <2>8, <2>10 DEF N
    <2>12. ports \in [1..N -> PortNumbers]
      BY <2>6, <2>10
    <2>13. ports \in Seq(PortNumbers)
      BY <2>11, <2>12
    <2>14. \A p : p \in asked <=> \E i \in DOMAIN ports : ports[i] = p
      BY <2>10, <2>11
    <2> QED BY <1>2, <2>5, <2>10, <2>11, <2>13, <2>14 DEF ports, WellFormed
  <1> QED BY <1>1, <1>2

-------------------------------------------------------------------------------
(* check_scope().                                                            *)

\* Two texts begin alike when their first octets agree.
LEMMA SamePrefix ==
    ASSUME NEW o \in Seq(Int), NEW first \in Seq(Int), NEW m \in Nat,
           m <= Len(o), m <= Len(first)
    PROVE  SubSeq(o, 1, m) = SubSeq(first, 1, m)
               <=> \A i \in 1..m : o[i] = first[i]
  <1>1. ASSUME NEW s \in Seq(Int), m <= Len(s)
        PROVE  /\ SubSeq(s, 1, m) \in Seq(Int)
               /\ Len(SubSeq(s, 1, m)) = m
               /\ \A i \in 1..m : SubSeq(s, 1, m)[i] = s[i]
    <2>1. \A i \in 1..m : s[i] \in Int
      BY <1>1, ElementOfSeq
    <2>2. /\ SubSeq(s, 1, m) \in Seq(Int)
          /\ Len(SubSeq(s, 1, m)) = IF 1 <= m THEN m - 1 + 1 ELSE 0
          /\ \A i \in 1..(m - 1 + 1) : SubSeq(s, 1, m)[i] = s[1 + i - 1]
      BY <2>1, SubSeqProperties
    <2> QED BY <2>2
  <1>2. ASSUME \A i \in 1..m : o[i] = first[i]
        PROVE  SubSeq(o, 1, m) = SubSeq(first, 1, m)
    <2>1. \A i \in 1..m : SubSeq(o, 1, m)[i] = SubSeq(first, 1, m)[i]
      BY <1>1, <1>2
    <2> QED BY <1>1, <2>1, SeqEqual
  <1> QED BY <1>1, <1>2

LEMMA V6Octets ==
    ASSUME NEW a \in Int, NEW b \in Int, NEW z \in Int
    PROVE  /\ V6(a, b, z).octets \in Seq(Int)
           /\ Len(V6(a, b, z).octets) = 16
           /\ \A i \in 1..16 : V6(a, b, z).octets[i] =
                  IF i = 1 THEN a ELSE IF i = 2 THEN b
                  ELSE IF i = 16 THEN z ELSE 0
  <1> DEFINE front == <<a, b>>
             middle == [i \in 1..13 |-> 0]
             end == <<z>>
  <1>1. /\ front \in Seq(Int) /\ Len(front) = 2
        /\ front[1] = a /\ front[2] = b
    OBVIOUS
  <1>2. /\ middle \in Seq(Int) /\ Len(middle) = 13
        /\ \A i \in 1..13 : middle[i] = 0
    OBVIOUS
  <1>3. end \in Seq(Int) /\ Len(end) = 1 /\ end[1] = z
    OBVIOUS
  <1>4. V6(a, b, z).octets = (front \o middle) \o end
    BY DEF V6
  <1> HIDE DEF front, middle, end
  <1>5. /\ front \o middle \in Seq(Int)
        /\ Len(front \o middle) = Len(front) + Len(middle)
        /\ \A i \in 1..(Len(front) + Len(middle)) : (front \o middle)[i] =
               IF i <= Len(front) THEN front[i] ELSE middle[i - Len(front)]
    BY <1>1, <1>2, ConcatProperties
  <1> DEFINE most == front \o middle
  <1>6. most \in Seq(Int) /\ Len(most) = 15
    BY <1>1, <1>2, <1>5
  <1>7. \A i \in 1..15 : most[i] =
            IF i = 1 THEN a ELSE IF i = 2 THEN b ELSE 0
    <2>1. TAKE i \in 1..15
    <2>2. most[i] = IF i <= 2 THEN front[i] ELSE middle[i - 2]
      <3>1. i \in 1..(Len(front) + Len(middle))
        BY <1>1, <1>2
      <3>2. most[i] = IF i <= Len(front) THEN front[i]
                      ELSE middle[i - Len(front)]
        BY <1>5, <3>1
      <3> QED BY <1>1, <3>2
    <2>3. i > 2 => i - 2 \in 1..13
      OBVIOUS
    <2>4. i <= 2 => i = 1 \/ i = 2
      OBVIOUS
    <2> QED BY <1>1, <1>2, <2>2, <2>3, <2>4
  <1> HIDE DEF most
  <1>8. /\ most \o end \in Seq(Int)
        /\ Len(most \o end) = Len(most) + Len(end)
        /\ \A i \in 1..(Len(most) + Len(end)) : (most \o end)[i] =
               IF i <= Len(most) THEN most[i] ELSE end[i - Len(most)]
    BY <1>3, <1>6, ConcatProperties
  <1> DEFINE all == most \o end
  <1>9. all \in Seq(Int) /\ Len(all) = 16
    BY <1>3, <1>6, <1>8
  <1>10. \A i \in 1..16 : all[i] = IF i = 1 THEN a ELSE IF i = 2 THEN b
                                   ELSE IF i = 16 THEN z ELSE 0
    <2>1. TAKE i \in 1..16
    <2>2. all[i] = IF i <= 15 THEN most[i] ELSE end[i - 15]
      <3>1. i \in 1..(Len(most) + Len(end))
        BY <1>3, <1>6
      <3>2. all[i] = IF i <= Len(most) THEN most[i] ELSE end[i - Len(most)]
        BY <1>8, <3>1
      <3> QED BY <1>6, <3>2
    <2>3. i = 16 \/ (i \in 1..15 /\ i # 16)
      OBVIOUS
    <2>4. CASE i = 16
      BY <1>3, <2>2, <2>4
    <2>5. CASE i \in 1..15 /\ i # 16
      <3>1. i <= 15
        BY <2>5
      <3>2. all[i] = most[i]
        BY <2>2, <3>1
      <3> HIDE DEF all
      <3> QED BY <1>7, <2>5, <3>2
    <2> QED BY <2>3, <2>4, <2>5
  <1>11. V6(a, b, z).octets = all
    BY <1>4 DEF most
  <1> QED BY <1>9, <1>10, <1>11

\* An address is in a range when it agrees with its first address up to the
\* last octet given, and lies between there.
LEMMA InRangeBy ==
    ASSUME NEW o \in Seq(Int), NEW first \in Seq(Int), NEW last,
           NEW n \in Nat, n = Len(first), n >= 1, n <= Len(o)
    PROVE  InRange(o, first, last) <=>
               /\ \A i \in 1..(n - 1) : o[i] = first[i]
               /\ o[n] \in first[n]..last[n]
  <1>1. n - 1 \in Nat /\ n - 1 <= Len(o) /\ n - 1 <= Len(first)
    <2>1. Len(o) \in Nat
      OBVIOUS
    <2> QED BY <2>1
  <1>2. SubSeq(o, 1, n - 1) = SubSeq(first, 1, n - 1)
            <=> \A i \in 1..(n - 1) : o[i] = first[i]
    BY <1>1, SamePrefix
  <1> QED BY <1>2 DEF InRange

LEMMA InRange1 ==
    ASSUME NEW o \in Seq(Int), Len(o) >= 1, NEW a \in Int, NEW b \in Int
    PROVE  InRange(o, <<a>>, <<b>>) <=> a <= o[1] /\ o[1] <= b
  <1> DEFINE first == <<a>>
             last == <<b>>
  <1>1. first \in Seq(Int) /\ Len(first) = 1 /\ first[1] = a /\ last[1] = b
    OBVIOUS
  <1> HIDE DEF first, last
  <1> DEFINE n == 1
  <1>2. /\ first \in Seq(Int)
        /\ n \in Nat /\ n = Len(first) /\ n >= 1 /\ n <= Len(o)
    BY <1>1
  <1> HIDE DEF n
  <1>3. InRange(o, first, last) <=> /\ \A i \in 1..(n - 1) : o[i] = first[i]
                                    /\ o[n] \in first[n]..last[n]
    BY <1>2, InRangeBy, ZenonT(40)
  <1>4. InRange(o, first, last) <=> a <= o[1] /\ o[1] <= b
    <2>1. o[1] \in Int
      BY ElementOfSeq
    <2> QED BY <1>1, <1>3, <2>1 DEF n
  <1> QED BY <1>4 DEF first, last

LEMMA InRange2 ==
    ASSUME NEW o \in Seq(Int), Len(o) >= 2,
           NEW a \in Int, NEW b \in Int, NEW c \in Int
    PROVE  InRange(o, <<a, b>>, <<a, c>>) <=>
               o[1] = a /\ b <= o[2] /\ o[2] <= c
  <1> DEFINE first == <<a, b>>
             last == <<a, c>>
  <1>1. /\ first \in Seq(Int) /\ Len(first) = 2 /\ first[1] = a
        /\ first[2] = b /\ last[2] = c
    OBVIOUS
  <1> HIDE DEF first, last
  <1> DEFINE n == 2
  <1>2. /\ first \in Seq(Int)
        /\ n \in Nat /\ n = Len(first) /\ n >= 1 /\ n <= Len(o)
    BY <1>1
  <1> HIDE DEF n
  <1>3. InRange(o, first, last) <=> /\ \A i \in 1..(n - 1) : o[i] = first[i]
                                    /\ o[n] \in first[n]..last[n]
    BY <1>2, InRangeBy, ZenonT(40)
  <1>4. InRange(o, first, last) <=> o[1] = a /\ b <= o[2] /\ o[2] <= c
    <2>1. o[2] \in Int
      BY ElementOfSeq
    <2> QED BY <1>1, <1>3, <2>1 DEF n
  <1> QED BY <1>4 DEF first, last

LEMMA InRangeWhole ==
    ASSUME NEW o \in Seq(Int), NEW f \in Seq(Int),
           NEW n \in Nat, n >= 1, Len(o) = n, Len(f) = n
    PROVE  InRange(o, f, f) <=> \A i \in 1..n : o[i] = f[i]
  <1>1. InRange(o, f, f) <=> /\ \A i \in 1..(n - 1) : o[i] = f[i]
                             /\ o[n] \in f[n]..f[n]
    BY InRangeBy
  <1>2. n \in 1..n /\ f[n] \in Int /\ o[n] \in Int
    BY ElementOfSeq
  <1>3. o[n] \in f[n]..f[n] <=> o[n] = f[n]
    BY <1>2
  <1>4. \A i \in 1..n : i = n \/ i \in 1..(n - 1)
    OBVIOUS
  <1>5. \A i \in 1..(n - 1) : i \in 1..n
    OBVIOUS
  <1> QED BY <1>1, <1>2, <1>3, <1>4, <1>5

\* The octets of an address of either family.
LEMMA OctetsAreSeq ==
    ASSUME NEW n \in Nat, NEW o \in Octets(n)
    PROVE  o \in Seq(Int) /\ Len(o) = n /\ DOMAIN o = 1..n
           /\ \A i \in 1..n : o[i] \in Int /\ o[i] >= 0 /\ o[i] <= 255
  <1> DEFINE octet == 0..255
  <1>1. \A k \in octet : k \in Int /\ k >= 0 /\ k <= 255
    OBVIOUS
  <1>2. o \in [1..n -> octet]
    BY DEF Octets
  <1> HIDE DEF octet
  <1> QED BY <1>1, <1>2

Target4(o) == [family |-> 4, octets |-> o]
Target6(o) == [family |-> 6, octets |-> o]

LEMMA InternalV4 ==
    ASSUME NEW o \in Octets(4)
    PROVE  Internal(Target4(o)) <=> is_private_v4(o)
  <1>1. o \in Seq(Int) /\ Len(o) = 4 /\ DOMAIN o = 1..4
        /\ \A i \in 1..4 : o[i] \in Int
    BY OctetsAreSeq
  <1>2. Internal(Target4(o)) <=>
            \/ InRange(o, <<127>>, <<127>>) \/ InRange(o, <<10>>, <<10>>)
            \/ InRange(o, <<172, 16>>, <<172, 31>>)
            \/ InRange(o, <<192, 168>>, <<192, 168>>)
            \/ InRange(o, <<169, 254>>, <<169, 254>>)
            \/ InRange(o, V4(0, 0, 0, 0).octets, V4(0, 0, 0, 0).octets)
    BY DEF Internal, DocumentedRanges, UndocumentedRanges, Target4
  <1> DEFINE none == <<0, 0, 0, 0>>
  <1>3. V4(0, 0, 0, 0).octets = none
    BY DEF V4
  <1>4. none \in Seq(Int) /\ Len(none) = 4 /\ \A i \in 1..4 : none[i] = 0
    <2>1. none \in Seq(Int) /\ Len(none) = 4
      OBVIOUS
    <2>2. none[1] = 0 /\ none[2] = 0 /\ none[3] = 0 /\ none[4] = 0
      OBVIOUS
    <2> HIDE DEF none
    <2>3. \A i \in 1..4 : i = 1 \/ i = 2 \/ i = 3 \/ i = 4
      OBVIOUS
    <2> QED BY <2>1, <2>2, <2>3
  <1> HIDE DEF none
  <1>5. InRange(o, none, none) <=> Zeros(o)
    <2>1. InRange(o, none, none) <=> \A i \in 1..4 : o[i] = none[i]
      <3>1. 4 \in Nat /\ 4 >= 1
        OBVIOUS
      <3> QED BY <1>1, <1>4, <3>1, InRangeWhole, Zenon
    <2> QED BY <1>1, <1>4, <2>1 DEF Zeros
  <1>6. \A a, b \in Int :
            InRange(o, <<a>>, <<b>>) <=> a <= o[1] /\ o[1] <= b
    <2>1. Len(o) >= 1
      BY <1>1
    <2> QED BY <1>1, <2>1, InRange1
  <1>7. \A a, b, c \in Int : InRange(o, <<a, b>>, <<a, c>>) <=>
                                 o[1] = a /\ b <= o[2] /\ o[2] <= c
    <2>1. Len(o) >= 2
      BY <1>1
    <2> QED BY <1>1, <2>1, InRange2
  <1>8. /\ InRange(o, <<127>>, <<127>>) <=> o[1] = 127
        /\ InRange(o, <<10>>, <<10>>) <=> o[1] = 10
    BY <1>1, <1>6
  <1>9. /\ InRange(o, <<172, 16>>, <<172, 31>>) <=>
               o[1] = 172 /\ o[2] \in 16..31
        /\ InRange(o, <<192, 168>>, <<192, 168>>) <=> o[1] = 192 /\ o[2] = 168
        /\ InRange(o, <<169, 254>>, <<169, 254>>) <=> o[1] = 169 /\ o[2] = 254
    <2>1. 2 \in 1..4 /\ o[2] \in Int
      BY <1>1
    <2>2. InRange(o, <<172, 16>>, <<172, 31>>) <=>
              o[1] = 172 /\ 16 <= o[2] /\ o[2] <= 31
      BY <1>7
    <2>3. InRange(o, <<192, 168>>, <<192, 168>>) <=>
              o[1] = 192 /\ 168 <= o[2] /\ o[2] <= 168
      BY <1>7
    <2>4. InRange(o, <<169, 254>>, <<169, 254>>) <=>
              o[1] = 169 /\ 254 <= o[2] /\ o[2] <= 254
      BY <1>7
    <2> QED BY <2>1, <2>2, <2>3, <2>4
  <1> QED BY <1>2, <1>3, <1>5, <1>8, <1>9 DEF is_private_v4

LEMMA InternalV6 ==
    ASSUME NEW o \in Octets(16)
    PROVE  Internal(Target6(o)) <=> is_private_v6(o)
  <1> DEFINE loop == V6(0, 0, 1).octets
             none == V6(0, 0, 0).octets
  <1>1. /\ o \in Seq(Int) /\ Len(o) = 16 /\ DOMAIN o = 1..16
        /\ \A i \in 1..16 : o[i] \in Int /\ o[i] >= 0 /\ o[i] <= 255
    BY OctetsAreSeq
  <1>2. Internal(Target6(o)) <=>
            \/ InRange(o, loop, loop)
            \/ InRange(o, <<254, 128>>, <<254, 191>>)
            \/ InRange(o, <<252>>, <<253>>)
            \/ InRange(o, none, none)
            \/ InRange(o, <<254, 192>>, <<254, 255>>)
    BY DEF Internal, DocumentedRanges, UndocumentedRanges, Target6
  <1>3. \A z \in Int :
            /\ V6(0, 0, z).octets \in Seq(Int)
            /\ Len(V6(0, 0, z).octets) = 16
            /\ \A i \in 1..16 : V6(0, 0, z).octets[i] =
                   IF i = 1 THEN 0 ELSE IF i = 2 THEN 0
                   ELSE IF i = 16 THEN z ELSE 0
    BY V6Octets
  <1>4. /\ loop \in Seq(Int) /\ Len(loop) = 16
        /\ \A i \in 1..16 : loop[i] = IF i = 1 THEN 0 ELSE IF i = 2 THEN 0
                                      ELSE IF i = 16 THEN 1 ELSE 0
    BY <1>3
  <1>5. /\ none \in Seq(Int) /\ Len(none) = 16
        /\ \A i \in 1..16 : none[i] = IF i = 1 THEN 0 ELSE IF i = 2 THEN 0
                                      ELSE IF i = 16 THEN 0 ELSE 0
    BY <1>3
  <1> HIDE DEF loop, none
  <1>6. InRange(o, loop, loop) <=> \A i \in 1..16 : o[i] = loop[i]
    <2>1. 16 \in Nat /\ 16 >= 1
      OBVIOUS
    <2> QED BY <1>1, <1>4, <2>1, InRangeWhole, Zenon
  <1>7. InRange(o, none, none) <=> \A i \in 1..16 : o[i] = none[i]
    <2>1. 16 \in Nat /\ 16 >= 1
      OBVIOUS
    <2> QED BY <1>1, <1>5, <2>1, InRangeWhole, Zenon
  <1>8. Zeros(SubSeq(o, 1, 15)) <=> \A i \in 1..15 : o[i] = 0
    <2> DEFINE p == SubSeq(o, 1, 15)
    <2>1. \A i \in 1..15 : o[i] \in Int
      <3>1. \A i \in 1..15 : i \in 1..16
        OBVIOUS
      <3> QED BY <1>1, <3>1
    <2>2. p \in Seq(Int) /\ Len(p) = 15 /\ \A i \in 1..15 : p[i] = o[i]
      <3>1. /\ p \in Seq(Int)
            /\ Len(p) = IF 1 <= 15 THEN 15 - 1 + 1 ELSE 0
            /\ \A i \in 1..(15 - 1 + 1) : p[i] = o[1 + i - 1]
        BY <2>1, SubSeqProperties
      <3> HIDE DEF p
      <3> QED BY <3>1
    <2> HIDE DEF p
    <2>3. DOMAIN p = 1..15
      BY <2>2
    <2>4. Zeros(p) <=> \A i \in 1..15 : o[i] = 0
      BY <2>2, <2>3 DEF Zeros
    <2> QED BY <2>4 DEF p
  <1>9. InRange(o, loop, loop) \/ InRange(o, none, none)
            <=> Zeros(SubSeq(o, 1, 15)) /\ o[16] \in {0, 1}
    <2>1. \A i \in 1..16 : i = 16 \/ i \in 1..15
      OBVIOUS
    <2>2. 16 \in 1..16 /\ \A i \in 1..15 : i \in 1..16 /\ i # 16
      OBVIOUS
    <2>3. loop[16] = 1 /\ none[16] = 0
      BY <1>4, <1>5
    <2>4. \A i \in 1..15 : loop[i] = 0 /\ none[i] = 0
      BY <1>4, <1>5, <2>2
    <2> QED BY <1>6, <1>7, <1>8, <2>1, <2>2, <2>3, <2>4
  <1>10. \A a, b \in Int :
            InRange(o, <<a>>, <<b>>) <=> a <= o[1] /\ o[1] <= b
    <2>1. Len(o) >= 1
      BY <1>1
    <2> QED BY <1>1, <2>1, InRange1
  <1>11. \A a, b, c \in Int : InRange(o, <<a, b>>, <<a, c>>) <=>
                                  o[1] = a /\ b <= o[2] /\ o[2] <= c
    <2>1. Len(o) >= 2
      BY <1>1
    <2> QED BY <1>1, <2>1, InRange2
  <1>12. InRange(o, <<252>>, <<253>>) <=> o[1] \in {252, 253}
    <2>1. 1 \in 1..16 /\ o[1] \in Int
      BY <1>1
    <2>2. InRange(o, <<252>>, <<253>>) <=> 252 <= o[1] /\ o[1] <= 253
      BY <1>10
    <2> QED BY <2>1, <2>2
  <1>13. InRange(o, <<254, 128>>, <<254, 191>>)
             <=> o[1] = 254 /\ 128 <= o[2] /\ o[2] <= 191
    BY <1>11
  <1>14. InRange(o, <<254, 192>>, <<254, 255>>)
             <=> o[1] = 254 /\ 192 <= o[2] /\ o[2] <= 255
    BY <1>11
  <1>15. o[2] \in 128..255 <=> \/ 128 <= o[2] /\ o[2] <= 191
                               \/ 192 <= o[2] /\ o[2] <= 255
    <2>1. 2 \in 1..16
      OBVIOUS
    <2>2. o[2] \in Int /\ o[2] <= 255
      BY <1>1, <2>1
    <2> QED BY <2>2
  <1> QED BY <1>2, <1>9, <1>12, <1>13, <1>14, <1>15 DEF is_private_v6

\* The scope guard lets a scan through when its target is internal, by the
\* ranges of docs/ETHICS.md and those the code takes for internal besides, or
\* its user has consented; and never without an address (scope_guard.cpp:11-56).
THEOREM ScopeJudged ==
    ASSUME NEW target \in Address, NEW consent \in BOOLEAN
    PROVE  check_scope(target, consent) = "Allowed" <=>
               target.family # 0 /\ (Internal(target) \/ consent)
  <1>1. CASE target = NoAddress
    <2>1. target.family = 0
      BY <1>1 DEF NoAddress
    <2>2. check_scope(target, consent) = "DeniedInvalidAddress"
      <3>1. 0 # 4 /\ 0 # 6
        OBVIOUS
      <3> QED BY <2>1, <3>1, Zenon DEF check_scope
    <2> QED BY <2>1, <2>2
  <1>2. ASSUME NEW o \in Octets(4), target = Target4(o)
        PROVE  check_scope(target, consent) = "Allowed" <=>
                   target.family # 0 /\ (Internal(target) \/ consent)
    <2>1. target.family = 4 /\ target.octets = o
      BY <1>2 DEF Target4
    <2>2. 4 # 0 /\ 4 # 6
      OBVIOUS
    <2>3. Internal(target) <=> is_private_v4(o)
      BY <1>2, InternalV4
    <2>4. CASE is_private_v4(o)
      <3>1. check_scope(target, consent) = "Allowed"
        BY <2>1, <2>2, <2>4, Zenon DEF check_scope
      <3> QED BY <2>1, <2>3, <2>4, <3>1
    <2>5. CASE ~is_private_v4(o)
      <3>1. check_scope(target, consent) =
                IF consent THEN "Allowed" ELSE "DeniedExternalNeedsConsent"
        BY <2>1, <2>2, <2>5, Zenon DEF check_scope
      <3> QED BY <2>1, <2>3, <2>5, <3>1
    <2> QED BY <2>4, <2>5
  <1>3. ASSUME NEW o \in Octets(16), target = Target6(o)
        PROVE  check_scope(target, consent) = "Allowed" <=>
                   target.family # 0 /\ (Internal(target) \/ consent)
    <2>1. target.family = 6 /\ target.octets = o
      BY <1>3 DEF Target6
    <2>2. 6 # 0 /\ 6 # 4
      OBVIOUS
    <2>3. Internal(target) <=> is_private_v6(o)
      BY <1>3, InternalV6
    <2>4. CASE is_private_v6(o)
      <3>1. check_scope(target, consent) = "Allowed"
        BY <2>1, <2>2, <2>4, Zenon DEF check_scope
      <3> QED BY <2>1, <2>3, <2>4, <3>1
    <2>5. CASE ~is_private_v6(o)
      <3>1. check_scope(target, consent) =
                IF consent THEN "Allowed" ELSE "DeniedExternalNeedsConsent"
        BY <2>1, <2>2, <2>5, Zenon DEF check_scope
      <3> QED BY <2>1, <2>3, <2>5, <3>1
    <2> QED BY <2>4, <2>5
  <1> QED BY <1>1, <1>2, <1>3 DEF Address, Target4, Target6

-------------------------------------------------------------------------------
(* How a reader gets through a text.                                         *)

Step(format, s, c) == IF format = "csv" THEN CsvStep(s, c) ELSE HtmlStep(s, c)

\* The states of a reader of text from s to e: he takes a step a word.
Passes(format, text, s, e, f) ==
    /\ f[0] = s /\ f[Len(text)] = e
    /\ \A i \in 1..Len(text) : f[i] = Step(format, f[i - 1], text[i])

Reads(format, text, s, e) == \E f : Passes(format, text, s, e, f)

\* A reader of each format.
InLine(rows, row, field, in) ==
    [rows |-> rows, row |-> row, field |-> field, in |-> in]

InPage(rows, row, cell, in) ==
    [rows |-> rows, row |-> row, cell |-> cell, in |-> in]

\* Where a reader is between two rows.
RowStart(format, rows) ==
    IF format = "csv" THEN InLine(rows, <<>>, <<>>, "plain")
    ELSE InPage(rows, <<>>, <<>>, "text")

\* A line is read back when a reader who has had it has one row more.
LineIs(format, line, texts) ==
    \A rows : Reads(format, line, RowStart(format, rows),
                    RowStart(format, Append(rows, texts)))

LEMMA ReadsNone ==
    ASSUME NEW format, NEW s
    PROVE  Reads(format, <<>>, s, s)
  <1> DEFINE f == [i \in {0} |-> s]
  <1>1. f[0] = s /\ Len(<<>>) = 0
    OBVIOUS
  <1> HIDE DEF f
  <1>2. Passes(format, <<>>, s, s, f)
    BY <1>1 DEF Passes
  <1> QED BY <1>2 DEF Reads

LEMMA ReadsOne ==
    ASSUME NEW format, NEW s, NEW c
    PROVE  Reads(format, <<c>>, s, Step(format, s, c))
  <1> DEFINE e == Step(format, s, c)
             f == [i \in 0..1 |-> IF i = 0 THEN s ELSE e]
  <1>1. f[0] = s /\ f[1] = e /\ Len(<<c>>) = 1 /\ <<c>>[1] = c
    OBVIOUS
  <1>2. \A i \in 1..1 : i = 1 /\ i - 1 = 0
    OBVIOUS
  <1> HIDE DEF f
  <1>3. Passes(format, <<c>>, s, e, f)
    BY <1>1, <1>2 DEF Passes
  <1> QED BY <1>3 DEF Reads

LEMMA ReadsBoth ==
    ASSUME NEW W, NEW t \in Seq(W), NEW u \in Seq(W), NEW format,
           NEW s, NEW e, NEW d,
           Reads(format, t, s, e), Reads(format, u, e, d)
    PROVE  Reads(format, t \o u, s, d)
  <1> DEFINE m == Len(t)
             n == Len(u)
             both == t \o u
  <1>1. PICK f : Passes(format, t, s, e, f)
    BY DEF Reads
  <1>2. PICK g : Passes(format, u, e, d, g)
    BY DEF Reads
  <1>3. m \in Nat /\ n \in Nat
    BY LenProperties
  <1>4. /\ Len(both) = m + n
        /\ \A i \in 1..(m + n) : both[i] = IF i <= m THEN t[i] ELSE u[i - m]
    BY ConcatProperties
  <1>5. /\ f[0] = s /\ f[m] = e /\ g[0] = e /\ g[n] = d
        /\ \A i \in 1..m : f[i] = Step(format, f[i - 1], t[i])
        /\ \A i \in 1..n : g[i] = Step(format, g[i - 1], u[i])
    BY <1>1, <1>2 DEF Passes
  <1> DEFINE h == [i \in 0..(m + n) |-> IF i <= m THEN f[i] ELSE g[i - m]]
  <1> HIDE DEF m, n, both
  <1>6. \A i \in 0..m : h[i] = f[i]
    BY <1>3
  <1>7. \A i \in 0..n : h[m + i] = g[i]
    <2>1. SUFFICES ASSUME NEW i \in 0..n PROVE h[m + i] = g[i]
      OBVIOUS
    <2>2. m + i \in 0..(m + n) /\ (m + i) - m = i /\ (m + i <= m => i = 0)
          /\ (i = 0 => m + i = m)
      BY <1>3
    <2> QED BY <1>5, <2>2
  <1> HIDE DEF h
  <1>8. h[0] = s /\ h[m + n] = d
    BY <1>3, <1>5, <1>6, <1>7
  <1>9. ASSUME NEW i \in 1..(m + n) PROVE h[i] = Step(format, h[i - 1], both[i])
    <2>1. CASE i <= m
      <3>1. i \in 1..m /\ i \in 0..m /\ i - 1 \in 0..m
        BY <1>3, <2>1
      <3>2. both[i] = t[i] /\ h[i] = f[i] /\ h[i - 1] = f[i - 1]
        BY <1>4, <1>6, <2>1, <3>1
      <3> QED BY <1>5, <3>1, <3>2
    <2>2. CASE ~(i <= m)
      <3>1. /\ i - m \in 1..n /\ i - m \in 0..n /\ (i - m) - 1 \in 0..n
            /\ m + (i - m) = i /\ m + ((i - m) - 1) = i - 1
        BY <1>3, <2>2
      <3>2. both[i] = u[i - m] /\ h[i] = g[i - m] /\ h[i - 1] = g[(i - m) - 1]
        BY <1>4, <1>7, <2>2, <3>1
      <3> QED BY <1>5, <3>1, <3>2
    <2> QED BY <2>1, <2>2
  <1>10. Passes(format, both, s, d, h)
    BY <1>4, <1>8, <1>9 DEF Passes
  <1> QED BY <1>10 DEF Reads, both

LEMMA ReadsAll ==
    ASSUME NEW W, NEW seqs \in Seq(Seq(W)), NEW format, NEW g,
           \A i \in 1..Len(seqs) : Reads(format, seqs[i], g[i - 1], g[i])
    PROVE  Reads(format, FlattenSeq(seqs), g[0], g[Len(seqs)])
  <1> DEFINE n == Len(seqs)
  <1>1. n \in Nat /\ \A i \in 1..n : seqs[i] \in Seq(W)
    BY LenProperties, ElementOfSeq
  <1>2. PICK F : /\ F \in [0..n -> Seq(W)] /\ F[0] = <<>>
                 /\ \A i \in 1..n : F[i] = F[i - 1] \o seqs[i]
                 /\ FlattenSeq(seqs) = F[n]
    BY Flattened
  <1> DEFINE read == {i \in 0..n : Reads(format, F[i], g[0], g[i])}
  <1>3. \A i \in 1..n : Reads(format, seqs[i], g[i - 1], g[i])
    OBVIOUS
  <1> HIDE DEF n
  <1>4. 0 \in read
    BY <1>1, <1>2, ReadsNone
  <1>5. ASSUME NEW i \in 1..n, i - 1 \in read PROVE i \in read
    <2>1. F[i - 1] \in Seq(W) /\ seqs[i] \in Seq(W) /\ i \in 0..n
      BY <1>1, <1>2
    <2>2. Reads(format, F[i - 1], g[0], g[i - 1])
      BY <1>5
    <2>3. Reads(format, F[i - 1] \o seqs[i], g[0], g[i])
      BY <1>3, <2>1, <2>2, ReadsBoth
    <2> QED BY <1>2, <2>1, <2>3
  <1>6. n \in read
    <2> HIDE DEF read
    <2>1. \A i \in 0..n : i \in read
      BY <1>1, <1>4, <1>5, UpTo
    <2> QED BY <1>1, <2>1
  <1> QED BY <1>2, <1>6 DEF n

\* Whoever has read the whole file has what the recursion says.
LEMMA ReadBack ==
    ASSUME NEW W, NEW text \in Seq(W), NEW e
    PROVE  /\ Reads("csv", text, CsvStart, e) => ReadCsv(text) = e.rows
           /\ Reads("html", text, HtmlStart, e) => ReadHtml(text) = e.rows
  <1> DEFINE n == Len(text)
             start(format) == IF format = "csv" THEN CsvStart ELSE HtmlStart
             Solves(format, f) ==
                 f = [i \in 0..n |-> IF i = 0 THEN start(format)
                                     ELSE Step(format, f[i - 1], text[i])]
             read(format) == CHOOSE f : Solves(format, f)
  <1>1. /\ ReadCsv(text) = read("csv")[n].rows
        /\ ReadHtml(text) = read("html")[n].rows
    <2>1. "html" # "csv"
      OBVIOUS
    <2> QED BY <2>1 DEF ReadCsv, ReadHtml, Step
  <1>2. n \in Nat
    BY LenProperties
  <1>3. ASSUME NEW format, Reads(format, text, start(format), e)
        PROVE  read(format)[n] = e
    <2>1. PICK f : Passes(format, text, start(format), e, f)
      BY <1>3 DEF Reads
    <2> HIDE DEF start
    <2>2. /\ f[0] = start(format) /\ f[n] = e
          /\ \A i \in 1..n : f[i] = Step(format, f[i - 1], text[i])
      BY <2>1 DEF Passes
    <2> HIDE DEF n
    <2> DEFINE g == [i \in 0..n |-> f[i]]
    <2>3. Solves(format, g)
      <3>1. ASSUME NEW i \in 0..n
            PROVE  g[i] = IF i = 0 THEN start(format)
                          ELSE Step(format, g[i - 1], text[i])
        <4>1. CASE i = 0
          BY <2>2, <4>1
        <4>2. CASE i # 0
          <5>1. i \in 1..n /\ i - 1 \in 0..n
            BY <1>2, <4>2
          <5> QED BY <2>2, <4>2, <5>1
        <4> QED BY <4>1, <4>2
      <3> HIDE DEF g
      <3>2. g = [i \in 0..n |-> g[i]]
        BY DEF g
      <3> QED BY <3>1, <3>2
    <2> DEFINE r == read(format)
    <2>4. Solves(format, r)
      <3> HIDE DEF Solves, g
      <3> QED BY <2>3
    <2> HIDE DEF r
    <2> DEFINE same == {i \in 0..n : r[i] = f[i]}
    <2>5. 0 \in same
      <3>1. 0 \in 0..n
        BY <1>2
      <3> QED BY <2>2, <2>4, <3>1
    <2>6. ASSUME NEW i \in 1..n, i - 1 \in same PROVE i \in same
      <3>1. i \in 0..n /\ i # 0
        BY <1>2
      <3>2. r[i] = Step(format, r[i - 1], text[i])
        BY <2>4, <3>1
      <3> QED BY <2>2, <2>6, <3>1, <3>2
    <2>7. n \in same
      <3> HIDE DEF same
      <3>1. \A i \in 0..n : i \in same
        BY <1>2, <2>5, <2>6, UpTo
      <3> QED BY <1>2, <3>1
    <2> QED BY <2>2, <2>7 DEF r
  <1> HIDE DEF read
  <1>4. start("csv") = CsvStart /\ start("html") = HtmlStart
    OBVIOUS
  <1> HIDE DEF start, n
  <1> QED BY <1>1, <1>3, <1>4

-------------------------------------------------------------------------------
(* A line of CSV.                                                            *)

\* Named, because the provers stumble over the characters themselves.
Comma == ","
Newline == "\n"
Marks == {Comma, Newline, Quote}

\* What each word does to a reader.
LEMMA CsvSteps ==
    ASSUME NEW rows, NEW row, NEW field
    PROVE  /\ \A in \in {"plain", "closing"} :
                  /\ CsvStep(InLine(rows, row, field, in), Comma)
                        = InLine(rows, Append(row, field), <<>>, "plain")
                  /\ CsvStep(InLine(rows, row, field, in), Newline)
                        = InLine(Append(rows, Append(row, field)),
                             <<>>, <<>>, "plain")
           /\ CsvStep(InLine(rows, row, <<>>, "plain"), Quote)
                 = InLine(rows, row, <<>>, "quoted")
           /\ CsvStep(InLine(rows, row, field, "quoted"), Quote)
                 = InLine(rows, row, field, "closing")
           /\ CsvStep(InLine(rows, row, field, "closing"), Quote)
                 = InLine(rows, row, Append(field, Quote), "quoted")
           /\ \A c : c \notin Marks =>
                  CsvStep(InLine(rows, row, field, "plain"), c)
                    = InLine(rows, row, Append(field, c), "plain")
           /\ \A c : c # Quote =>
                  CsvStep(InLine(rows, row, field, "quoted"), c)
                    = InLine(rows, row, Append(field, c), "quoted")
  <1>1. /\ Comma # Newline /\ Comma # Quote /\ Newline # Quote
        /\ "plain" # "quoted" /\ "closing" # "quoted" /\ "plain" # "closing"
    BY DEF Comma, Newline, Quote
  <1>2. ASSUME NEW in \in {"plain", "closing"}, NEW s,
               s = InLine(rows, row, field, in)
        PROVE  /\ CsvStep(s, Comma) = InLine(rows, Append(row, field), <<>>, "plain")
               /\ CsvStep(s, Newline) = InLine(Append(rows, Append(row, field)),
                                        <<>>, <<>>, "plain")
    <2>1. s.in # "quoted"
      BY <1>1, <1>2 DEF InLine
    <2>2. CsvStep(s, Comma) = [s EXCEPT !.row = Append(@, s.field),
                                      !.field = <<>>, !.in = "plain"]
      BY <1>1, <2>1, Zenon DEF CsvStep, Comma, Newline
    <2>3. CsvStep(s, Newline) =
              [CsvStart EXCEPT !.rows = Append(s.rows, Append(s.row, s.field))]
      BY <1>1, <2>1, Zenon DEF CsvStep, Comma, Newline
    <2> QED BY <1>2, <2>2, <2>3 DEF InLine, CsvStart
  <1>3. ASSUME NEW s, s = InLine(rows, row, <<>>, "plain")
        PROVE  CsvStep(s, Quote) = InLine(rows, row, <<>>, "quoted")
    <2>1. s.in = "plain" /\ s.field = <<>>
      BY <1>3 DEF InLine
    <2>2. CsvStep(s, Quote) = [s EXCEPT !.in = "quoted"]
      BY <1>1, <2>1, Zenon DEF CsvStep, Comma, Newline
    <2> QED BY <1>3, <2>2 DEF InLine
  <1>4. ASSUME NEW s, s = InLine(rows, row, field, "quoted")
        PROVE  /\ CsvStep(s, Quote) = InLine(rows, row, field, "closing")
               /\ \A c : c # Quote =>
                      CsvStep(s, c) = InLine(rows, row, Append(field, c), "quoted")
    <2>1. s.in = "quoted"
      BY <1>4 DEF InLine
    <2>2. CsvStep(s, Quote) = [s EXCEPT !.in = "closing"]
      BY <1>1, <2>1, Zenon DEF CsvStep, Comma, Newline
    <2>3. \A c : c # Quote => CsvStep(s, c) = [s EXCEPT !.field = Append(@, c)]
      BY <1>1, <2>1, Zenon DEF CsvStep, Comma, Newline
    <2>4. \A c : [s EXCEPT !.field = Append(@, c)]
                   = InLine(rows, row, Append(field, c), "quoted")
      BY <1>4 DEF InLine
    <2> QED BY <1>4, <2>2, <2>3, <2>4 DEF InLine
  <1>5. ASSUME NEW s, s = InLine(rows, row, field, "closing")
        PROVE  CsvStep(s, Quote) = InLine(rows, row, Append(field, Quote), "quoted")
    <2>1. s.in = "closing"
      BY <1>5 DEF InLine
    <2>2. CsvStep(s, Quote) = [s EXCEPT !.in = "quoted",
                                        !.field = Append(@, Quote)]
      BY <1>1, <2>1, Zenon DEF CsvStep, Comma, Newline
    <2> QED BY <1>5, <2>2 DEF InLine
  <1>6. ASSUME NEW s, s = InLine(rows, row, field, "plain")
        PROVE  \A c : c \notin Marks =>
                   CsvStep(s, c) = InLine(rows, row, Append(field, c), "plain")
    <2>1. s.in = "plain"
      BY <1>6 DEF InLine
    <2>2. \A c : c \notin Marks =>
              CsvStep(s, c) = [s EXCEPT !.field = Append(@, c)]
      BY <1>1, <2>1, Zenon DEF CsvStep, Comma, Newline, Marks
    <2>3. \A c : [s EXCEPT !.field = Append(@, c)]
                   = InLine(rows, row, Append(field, c), "plain")
      BY <1>6 DEF InLine
    <2> QED BY <2>2, <2>3
  <1>7. \A in \in {"plain", "closing"} :
            /\ CsvStep(InLine(rows, row, field, in), Comma)
                  = InLine(rows, Append(row, field), <<>>, "plain")
            /\ CsvStep(InLine(rows, row, field, in), Newline)
                  = InLine(Append(rows, Append(row, field)), <<>>, <<>>, "plain")
    BY <1>2
  <1> QED BY <1>3, <1>4, <1>5, <1>6, <1>7

\* The first words of a text, and one more.
LEMMA OneMore ==
    ASSUME NEW W, NEW t \in Seq(W)
    PROVE  /\ SubSeq(t, 1, 0) = <<>> /\ SubSeq(t, 1, Len(t)) = t
           /\ \A i \in 1..Len(t) :
                  SubSeq(t, 1, i) = Append(SubSeq(t, 1, i - 1), t[i])
  <1>1. SubSeq(t, 1, 0) = <<>> /\ SubSeq(t, 1, Len(t)) = t
    BY SubSeqEmpty, SubSeqFull
  <1>2. ASSUME NEW i \in 1..Len(t)
        PROVE  SubSeq(t, 1, i) = Append(SubSeq(t, 1, i - 1), t[i])
    <2>1. Len(t) \in Nat /\ 1 \in 1..Len(t) /\ i \in 1..Len(t) /\ i - 1 \in Int
          /\ \A k \in 1..(i - 1) : k \in 1..Len(t)
      BY LenProperties
    <2>2. SubSeq(t, 1, i) = SubSeq(t, 1, i - 1) \o <<t[i]>>
      BY <2>1, SubSeqRecursiveSecond
    <2>3. SubSeq(t, 1, i - 1) \in Seq(W) /\ t[i] \in W
      BY <2>1, ElementOfSeq, SubSeqProperties
    <2> QED BY <2>2, <2>3, AppendIsConcat
  <1> QED BY <1>1, <1>2

\* A field is read back when a reader at its beginning has its text at its end.
FieldReads(written, text) ==
    \A rows, row : \E in \in {"plain", "closing"} :
        Reads("csv", written, InLine(rows, row, <<>>, "plain"),
              InLine(rows, row, text, in))

LEMMA PlainField ==
    ASSUME NEW W, NEW text \in Seq(W),
           \A i \in DOMAIN text : text[i] \notin Marks
    PROVE  FieldReads(text, text)
  <1> SUFFICES ASSUME NEW rows, NEW row
               PROVE  Reads("csv", text, InLine(rows, row, <<>>, "plain"),
                            InLine(rows, row, text, "plain"))
    BY DEF FieldReads
  <1> DEFINE n == Len(text)
             f == [i \in 0..n |-> InLine(rows, row, SubSeq(text, 1, i), "plain")]
  <1>1. n \in Nat /\ DOMAIN text = 1..n
    BY LenProperties
  <1>2. /\ SubSeq(text, 1, 0) = <<>> /\ SubSeq(text, 1, n) = text
        /\ \A i \in 1..n :
               SubSeq(text, 1, i) = Append(SubSeq(text, 1, i - 1), text[i])
    BY OneMore
  <1> HIDE DEF n
  <1>3. f[0] = InLine(rows, row, <<>>, "plain") /\ f[n] = InLine(rows, row, text, "plain")
    <2>1. 0 \in 0..n /\ n \in 0..n
      BY <1>1
    <2> QED BY <1>2, <2>1
  <1>4. ASSUME NEW i \in 1..n PROVE f[i] = Step("csv", f[i - 1], text[i])
    <2>1. i \in 0..n /\ i - 1 \in 0..n
      BY <1>1
    <2>2. CsvStep(InLine(rows, row, SubSeq(text, 1, i - 1), "plain"), text[i])
            = InLine(rows, row, Append(SubSeq(text, 1, i - 1), text[i]), "plain")
      <3>1. text[i] \notin Marks
        BY <1>1
      <3>2. \A c : c \notin Marks =>
                CsvStep(InLine(rows, row, SubSeq(text, 1, i - 1), "plain"), c)
                  = InLine(rows, row, Append(SubSeq(text, 1, i - 1), c), "plain")
        BY CsvSteps
      <3> QED BY <3>1, <3>2
    <2>3. f[i] = CsvStep(f[i - 1], text[i])
      BY <1>2, <2>1, <2>2
    <2> QED BY <2>3 DEF Step
  <1> HIDE DEF f
  <1>5. Passes("csv", text, InLine(rows, row, <<>>, "plain"),
               InLine(rows, row, text, "plain"), f)
    BY <1>3, <1>4 DEF Passes, n
  <1> QED BY <1>5 DEF Reads

LEMMA ReadsWord ==
    ASSUME NEW format, NEW c, NEW s, NEW e, Step(format, s, c) = e
    PROVE  Reads(format, <<c>>, s, e)
  BY ReadsOne

LEMMA TwoWords == ASSUME NEW w PROVE <<w>> \o <<w>> = <<w, w>>
  <1> DEFINE one == <<w>>
             two == <<w, w>>
             both == one \o one
  <1>1. one \in Seq({w}) /\ Len(one) = 1 /\ one[1] = w
    OBVIOUS
  <1>2. two \in Seq({w}) /\ Len(two) = 2 /\ two[1] = w /\ two[2] = w
    OBVIOUS
  <1> HIDE DEF one, two
  <1>3. /\ both \in Seq({w}) /\ Len(both) = Len(one) + Len(one)
        /\ \A i \in 1..(Len(one) + Len(one)) :
               both[i] = IF i <= Len(one) THEN one[i] ELSE one[i - Len(one)]
    BY <1>1, ConcatProperties
  <1> HIDE DEF both
  <1>4. Len(both) = 2 /\ both[1] = w /\ both[2] = w
    <2>1. /\ 1 \in 1..(1 + 1) /\ 2 \in 1..(1 + 1) /\ 1 <= 1 /\ ~(2 <= 1)
          /\ 2 - 1 = 1 /\ 1 + 1 = 2
      OBVIOUS
    <2> QED BY <1>1, <1>3, <2>1
  <1>5. \A i \in 1..2 : both[i] = two[i]
    <2>1. \A i \in 1..2 : i = 1 \/ i = 2
      OBVIOUS
    <2> QED BY <1>2, <1>4, <2>1
  <1>6. both = two
    BY <1>2, <1>3, <1>4, <1>5, SeqEqual
  <1> QED BY <1>6 DEF both, one, two

\* A quote is doubled between quotes, and everything else is as it is.
DoubledWord(c) == IF c = Quote THEN <<Quote, Quote>> ELSE <<c>>

Doubled(text) == FlattenSeq([i \in DOMAIN text |-> DoubledWord(text[i])])

LEMMA ReadsDoubled ==
    ASSUME NEW rows, NEW row, NEW field, NEW c
    PROVE  Reads("csv", DoubledWord(c), InLine(rows, row, field, "quoted"),
                 InLine(rows, row, Append(field, c), "quoted"))
  <1> DEFINE s == InLine(rows, row, field, "quoted")
             d == InLine(rows, row, field, "closing")
             e == InLine(rows, row, Append(field, c), "quoted")
  <1>1. CASE c = Quote
    <2>1. Step("csv", s, Quote) = d /\ Step("csv", d, Quote) = e
      BY <1>1, CsvSteps DEF Step
    <2> HIDE DEF s, d, e
    <2>2. Reads("csv", <<Quote>>, s, d) /\ Reads("csv", <<Quote>>, d, e)
      BY <2>1, ReadsWord
    <2>3. <<Quote>> \in Seq({Quote}) /\ <<Quote>> \o <<Quote>> = <<Quote, Quote>>
      <3>1. \A w : <<w>> \in Seq({w})
        OBVIOUS
      <3> QED BY <3>1, TwoWords
    <2>4. Reads("csv", <<Quote>> \o <<Quote>>, s, e)
      BY <2>2, <2>3, ReadsBoth
    <2>5. DoubledWord(c) = <<Quote, Quote>>
      BY <1>1 DEF DoubledWord
    <2> QED BY <2>3, <2>4, <2>5 DEF s, e
  <1>2. CASE c # Quote
    <2>1. CsvStep(s, c) = e
      BY <1>2, CsvSteps
    <2>2. Step("csv", s, c) = e
      BY <2>1 DEF Step
    <2> HIDE DEF s, e
    <2>3. Reads("csv", <<c>>, s, e)
      BY <2>2, ReadsWord
    <2>4. DoubledWord(c) = <<c>>
      BY <1>2 DEF DoubledWord
    <2> QED BY <2>3, <2>4 DEF s, e
  <1> QED BY <1>1, <1>2

LEMMA QuotedField ==
    ASSUME NEW W, NEW text \in Seq(W)
    PROVE  /\ FieldReads(<<Quote>> \o Doubled(text) \o <<Quote>>, text)
           /\ <<Quote>> \o Doubled(text) \o <<Quote>>
                 \in Seq(W \union {Quote})
  <1> DEFINE n == Len(text)
             V == W \union {Quote}
             parts == [i \in DOMAIN text |-> DoubledWord(text[i])]
             inside == Doubled(text)
             mark == <<Quote>>
  <1>1. /\ n \in Nat /\ DOMAIN text = 1..n
        /\ \A i \in 1..n : text[i] \in V
    <2>1. n \in Nat /\ DOMAIN text = 1..n /\ text \in [1..n -> W]
      BY LenProperties
    <2> HIDE DEF n
    <2> QED BY <2>1
  <1>2. mark \in Seq(V)
    OBVIOUS
  <1>3. \A c \in V : DoubledWord(c) \in Seq(V)
    <2>1. Quote \in V
      OBVIOUS
    <2> HIDE DEF V
    <2>2. \A c, d \in V : <<c>> \in Seq(V) /\ <<c, d>> \in Seq(V)
      OBVIOUS
    <2> QED BY <2>1, <2>2 DEF DoubledWord
  <1>4. inside = FlattenSeq(parts)
    BY DEF Doubled
  <1>5. \A i \in 1..n : parts[i] = DoubledWord(text[i])
    BY <1>1
  <1>6. parts \in [1..n -> Seq(V)]
    <2> HIDE DEF V, n
    <2> QED BY <1>1, <1>3
  <1>7. parts \in Seq(Seq(V)) /\ Len(parts) = n
    <2> HIDE DEF V, parts, n
    <2> QED BY <1>1, <1>6, FunctionIsSeq
  <1>8. inside \in Seq(V)
    <2> HIDE DEF V, parts, inside
    <2> QED BY <1>4, <1>7, FlattenedIsText
  <1>9. mark \o inside \in Seq(V) /\ (mark \o inside) \o mark \in Seq(V)
    <2> HIDE DEF V, inside, mark
    <2> QED BY <1>2, <1>8, ConcatProperties
  <1>10. ASSUME NEW rows, NEW row
         PROVE  Reads("csv", (mark \o inside) \o mark,
                      InLine(rows, row, <<>>, "plain"),
                      InLine(rows, row, text, "closing"))
    <2> DEFINE begun == InLine(rows, row, <<>>, "plain")
               in(i) == InLine(rows, row, SubSeq(text, 1, i), "quoted")
               ended == InLine(rows, row, text, "closing")
               g == [i \in 0..n |-> in(i)]
    <2>1. /\ SubSeq(text, 1, 0) = <<>> /\ SubSeq(text, 1, n) = text
          /\ \A i \in 1..n :
                 SubSeq(text, 1, i) = Append(SubSeq(text, 1, i - 1), text[i])
      BY OneMore
    <2>2. Step("csv", begun, Quote) = in(0) /\ Step("csv", in(n), Quote) = ended
      BY <2>1, CsvSteps DEF Step
    <2>3. g[0] = in(0) /\ g[n] = in(n)
      <3>1. 0 \in 0..n /\ n \in 0..n
        BY <1>1
      <3> QED BY <3>1
    <2>4. ASSUME NEW i \in 1..n PROVE Reads("csv", parts[i], g[i - 1], g[i])
      <3>1. i \in 0..n /\ i - 1 \in 0..n
        BY <1>1
      <3>2. g[i - 1] = in(i - 1) /\ g[i] = in(i)
        BY <3>1
      <3>3. Reads("csv", DoubledWord(text[i]), in(i - 1), in(i))
        BY <2>1, ReadsDoubled
      <3> QED BY <1>5, <3>2, <3>3
    <2> HIDE DEF V, parts, inside, mark, g, n
    <2>5. Reads("csv", inside, g[0], g[n])
      BY <1>4, <1>7, <2>4, ReadsAll
    <2> HIDE DEF begun, in, ended
    <2>6. Reads("csv", mark, begun, in(0)) /\ Reads("csv", mark, in(n), ended)
      BY <2>2, ReadsWord DEF mark
    <2>7. Reads("csv", mark \o inside, begun, in(n))
      BY <1>2, <1>8, <2>3, <2>5, <2>6, ReadsBoth
    <2>8. Reads("csv", (mark \o inside) \o mark, begun, ended)
      BY <1>2, <1>9, <2>6, <2>7, ReadsBoth
    <2> QED BY <2>8 DEF begun, ended
  <1> HIDE DEF inside
  <1> QED BY <1>9, <1>10 DEF FieldReads, inside

\* escape_csv_field() loses nothing.
LEMMA EscapedField ==
    ASSUME NEW W, NEW text \in Seq(W)
    PROVE  /\ FieldReads(escape_csv_field(text), text)
           /\ escape_csv_field(text) \in Seq(W \union {Quote})
  <1> DEFINE marked == \E i \in DOMAIN text :
                           text[i] \in {",", Quote, "\n", "\r"}
  <1>1. escape_csv_field(text)
          = IF marked THEN <<Quote>> \o Doubled(text) \o <<Quote>> ELSE text
    BY Zenon DEF escape_csv_field, Doubled, DoubledWord
  <1>2. ~marked => \A i \in DOMAIN text : text[i] \notin Marks
    BY Zenon DEF Marks, Comma, Newline
  <1> HIDE DEF marked
  <1>3. text \in Seq(W \union {Quote})
    <2>1. W \subseteq W \union {Quote}
      OBVIOUS
    <2> QED BY <2>1, SeqMonotonic
  <1>4. CASE marked
    BY <1>1, <1>4, QuotedField
  <1>5. CASE ~marked
    <2>1. FieldReads(text, text)
      BY <1>2, <1>5, PlainField
    <2> QED BY <1>1, <1>3, <1>5, <2>1
  <1> QED BY <1>4, <1>5

LEMMA FieldEnds ==
    ASSUME NEW rows, NEW row, NEW field, NEW in \in {"plain", "closing"}
    PROVE  /\ Step("csv", InLine(rows, row, field, in), Comma)
                 = InLine(rows, Append(row, field), <<>>, "plain")
           /\ Step("csv", InLine(rows, row, field, in), Newline)
                 = InLine(Append(rows, Append(row, field)), <<>>, <<>>, "plain")
  BY CsvSteps DEF Step

LEMMA LineReads ==
    ASSUME NEW W, NEW fields \in Seq(Seq(W)), Len(fields) # 0,
           NEW T, NEW texts \in Seq(T), Len(texts) = Len(fields),
           \A i \in 1..Len(fields) : FieldReads(fields[i], texts[i])
    PROVE  /\ CsvLine(fields) \in Seq(W \union {Comma, Newline})
           /\ LineIs("csv", CsvLine(fields), texts)
  <1> DEFINE n == Len(fields)
             V == W \union {Comma, Newline}
             sep(i) == IF i = n THEN <<Newline>> ELSE <<Comma>>
             parts == [i \in DOMAIN fields |-> fields[i] \o sep(i)]
  <1>1. n \in Nat /\ DOMAIN fields = 1..n /\ n # 0
    BY LenProperties
  <1>2. ASSUME NEW i \in 1..n PROVE fields[i] \in Seq(V) /\ sep(i) \in Seq(V)
    <2>1. fields[i] \in Seq(W)
      BY ElementOfSeq
    <2>2. W \subseteq V /\ Comma \in V /\ Newline \in V
      OBVIOUS
    <2> HIDE DEF V
    <2>3. fields[i] \in Seq(V)
      BY <2>1, <2>2, SeqMonotonic
    <2> QED BY <2>2, <2>3
  <1>3. CsvLine(fields) = FlattenSeq(parts)
    BY Zenon DEF CsvLine, Comma, Newline
  <1>4. \A i \in 1..n : parts[i] = fields[i] \o sep(i)
    BY <1>1
  <1>5. parts = [i \in 1..n |-> parts[i]]
    BY <1>1
  <1> HIDE DEF V, sep, parts
  <1>6. \A i \in 1..n : parts[i] \in Seq(V)
    BY <1>2, <1>4, ConcatProperties
  <1> HIDE DEF n
  <1>7. parts \in [1..n -> Seq(V)]
    BY <1>5, <1>6
  <1>8. parts \in Seq(Seq(V)) /\ Len(parts) = n
    BY <1>1, <1>7, FunctionIsSeq
  <1>9. FlattenSeq(parts) \in Seq(V)
    BY <1>8, FlattenedIsText
  <1>10. ASSUME NEW rows
         PROVE  Reads("csv", CsvLine(fields), InLine(rows, <<>>, <<>>, "plain"),
                      InLine(Append(rows, texts), <<>>, <<>>, "plain"))
    <2> DEFINE open(i) == InLine(rows, SubSeq(texts, 1, i), <<>>, "plain")
               done == InLine(Append(rows, texts), <<>>, <<>>, "plain")
               g == [i \in 0..n |-> IF i = n THEN done ELSE open(i)]
    <2>1. /\ SubSeq(texts, 1, 0) = <<>> /\ SubSeq(texts, 1, n) = texts
          /\ \A i \in 1..n : SubSeq(texts, 1, i)
                               = Append(SubSeq(texts, 1, i - 1), texts[i])
      BY OneMore DEF n
    <2>2. g[0] = InLine(rows, <<>>, <<>>, "plain") /\ g[n] = done
      <3>1. 0 \in 0..n /\ n \in 0..n /\ 0 # n
        BY <1>1
      <3> QED BY <2>1, <3>1
    <2>3. ASSUME NEW i \in 1..n PROVE Reads("csv", parts[i], g[i - 1], g[i])
      <3>1. i \in 0..n /\ i - 1 \in 0..n /\ i - 1 # n
        BY <1>1
      <3>2. FieldReads(fields[i], texts[i])
        BY DEF n
      <3>3. PICK in \in {"plain", "closing"} :
                Reads("csv", fields[i], open(i - 1),
                      InLine(rows, SubSeq(texts, 1, i - 1), texts[i], in))
        BY <3>2 DEF FieldReads
      <3> DEFINE before == open(i - 1)
                 between == InLine(rows, SubSeq(texts, 1, i - 1), texts[i], in)
                 after == IF i = n THEN done ELSE open(i)
      <3>4. g[i - 1] = before /\ g[i] = after
        BY <3>1
      <3>5. /\ Step("csv", between, Comma) = open(i)
            /\ i = n => Step("csv", between, Newline) = done
        <4> DEFINE row == SubSeq(texts, 1, i - 1)
                   field == texts[i]
        <4>1. SubSeq(texts, 1, i) = Append(row, field)
          BY <2>1
        <4>2. i = n => texts = Append(row, field)
          BY <2>1, <4>1
        <4> HIDE DEF row, field
        <4>3. /\ Step("csv", InLine(rows, row, field, in), Comma)
                    = InLine(rows, Append(row, field), <<>>, "plain")
              /\ Step("csv", InLine(rows, row, field, in), Newline)
                    = InLine(Append(rows, Append(row, field)), <<>>, <<>>, "plain")
          BY FieldEnds
        <4>4. between = InLine(rows, row, field, in)
          BY DEF row, field
        <4> HIDE DEF between
        <4> QED BY <4>1, <4>2, <4>3, <4>4
      <3> HIDE DEF open, done, between, g
      <3>7. Reads("csv", sep(i), between, after)
        <4>1. CASE i = n
          BY <3>5, <4>1, ReadsWord DEF sep
        <4>2. CASE i # n
          BY <3>5, <4>2, ReadsWord DEF sep
        <4> QED BY <4>1, <4>2
      <3> HIDE DEF before, after
      <3>8. Reads("csv", fields[i], before, between)
        BY <3>3 DEF before, between
      <3>9. Reads("csv", fields[i] \o sep(i), before, after)
        BY <1>2, <3>7, <3>8, ReadsBoth
      <3> QED BY <1>4, <3>4, <3>9
    <2> HIDE DEF g
    <2>4. Reads("csv", FlattenSeq(parts), g[0], g[n])
      BY <1>8, <2>3, ReadsAll
    <2> QED BY <1>3, <2>2, <2>4
  <1> QED BY <1>3, <1>9, <1>10 DEF V, LineIs, RowStart

LEMMA AppendBehind ==
    ASSUME NEW U, NEW s \in Seq(U), NEW t \in Seq(U), NEW e \in U
    PROVE  s \o Append(t, e) = Append(s \o t, e)
  <1> DEFINE one == <<e>>
  <1>1. one \in Seq(U)
    OBVIOUS
  <1>2. Append(t, e) = t \o one
    BY AppendIsConcat
  <1>3. s \o t \in Seq(U)
    BY ConcatProperties
  <1>4. Append(s \o t, e) = (s \o t) \o one
    BY <1>3, AppendIsConcat
  <1> HIDE DEF one
  <1> QED BY <1>1, <1>2, <1>4, ConcatAssociative

-------------------------------------------------------------------------------
(* A row of HTML.                                                            *)

TagOpen == "<"
TagClose == ">"
CellEnd == "/td"
RowEnd == "/tr"

\* What a word is written as begins and ends no tag, and is read as the word.
LEMMA EntityRead ==
    ASSUME NEW c, c \notin Entities
    PROVE  /\ Entity(c) \notin {TagOpen, TagClose}
           /\ Unescaped(Entity(c)) = c
           /\ Entity(c) \in Entities \union {c}
           /\ c \notin {TagOpen, TagClose} => Unescaped(c) = c
  <1>1. \A d \in Special : Entity(d) \in Entities
    BY Zenon DEF Special, Entity, Entities, Quote
  <1>2. \A d, e \in Special : Entity(d) = Entity(e) => d = e
    BY Zenon DEF Special, Entity, Quote
  <1>3. \A d : d \notin Special => Entity(d) = d
    BY Zenon DEF Special, Entity
  <1>4. TagOpen \in Special /\ TagClose \in Special
    BY Zenon DEF Special, TagOpen, TagClose
  <1>5. TagOpen \notin Entities /\ TagClose \notin Entities
    BY Zenon DEF Entities, TagOpen, TagClose
  <1>6. \A d : Unescaped(d) =
            IF \E e \in Special : Entity(e) = d
            THEN CHOOSE e \in Special : Entity(e) = d ELSE d
    BY DEF Unescaped
  <1>7. Unescaped(c) = c
    BY <1>1, <1>6
  <1>8. CASE c \in Special
    BY <1>1, <1>2, <1>5, <1>6, <1>8
  <1>9. CASE c \notin Special
    BY <1>3, <1>4, <1>7, <1>9
  <1> QED BY <1>7, <1>8, <1>9

LEMMA HtmlSteps ==
    ASSUME NEW rows, NEW row, NEW cell
    PROVE  /\ HtmlStep(InPage(rows, row, cell, "text"), TagOpen)
                 = InPage(rows, row, cell, "tag")
           /\ HtmlStep(InPage(rows, row, cell, "tag"), TagClose)
                 = InPage(rows, row, cell, "text")
           /\ HtmlStep(InPage(rows, row, cell, "tag"), CellEnd)
                 = InPage(rows, Append(row, cell), <<>>, "tag")
           /\ HtmlStep(InPage(rows, row, cell, "tag"), RowEnd)
                 = InPage(Append(rows, row), <<>>, cell, "tag")
           /\ \A c : c \notin {TagOpen, TagClose, CellEnd, RowEnd} =>
                  HtmlStep(InPage(rows, row, cell, "tag"), c)
                    = InPage(rows, row, cell, "tag")
           /\ \A c : c \notin {TagOpen, TagClose} =>
                  HtmlStep(InPage(rows, row, cell, "text"), c)
                    = InPage(rows, row, Append(cell, Unescaped(c)), "text")
  <1>1. /\ TagOpen # TagClose /\ CellEnd # TagOpen /\ CellEnd # TagClose /\ RowEnd # TagOpen
        /\ RowEnd # TagClose /\ RowEnd # CellEnd
    BY Zenon DEF TagOpen, TagClose, CellEnd, RowEnd
  <1>0. "tag" # "text"
    OBVIOUS
  <1>2. ASSUME NEW s, s.in = "text"
        PROVE  /\ HtmlStep(s, TagOpen) = [s EXCEPT !.in = "tag"]
               /\ \A c : c \notin {TagOpen, TagClose} =>
                      HtmlStep(s, c) = [s EXCEPT !.cell =
                                                   Append(@, Unescaped(c))]
    <2>1. HtmlStep(s, TagOpen) = [s EXCEPT !.in = "tag"]
      BY <1>0, <1>1, <1>2, Zenon DEF HtmlStep, TagOpen, TagClose
    <2>2. ASSUME NEW c, c # TagOpen, c # TagClose
          PROVE  HtmlStep(s, c) = [s EXCEPT !.cell = Append(@, Unescaped(c))]
      BY <1>0, <1>2, <2>2, Zenon DEF HtmlStep, TagOpen, TagClose
    <2> QED BY <2>1, <2>2
  <1>3. ASSUME NEW s, s.in = "tag"
        PROVE  /\ HtmlStep(s, TagClose) = [s EXCEPT !.in = "text"]
               /\ HtmlStep(s, CellEnd)
                     = [s EXCEPT !.row = Append(@, s.cell), !.cell = <<>>]
               /\ HtmlStep(s, RowEnd)
                     = [s EXCEPT !.rows = Append(@, s.row), !.row = <<>>]
               /\ \A c : c \notin {TagOpen, TagClose, CellEnd, RowEnd} =>
                      HtmlStep(s, c) = s
    <2>1. HtmlStep(s, TagClose) = [s EXCEPT !.in = "text"]
      BY <1>1, <1>3, Zenon DEF HtmlStep, TagOpen, TagClose
    <2>2. HtmlStep(s, CellEnd)
            = [s EXCEPT !.row = Append(@, s.cell), !.cell = <<>>]
      BY <1>1, <1>3, Zenon DEF HtmlStep, TagOpen, TagClose, CellEnd, RowEnd
    <2>3. HtmlStep(s, RowEnd)
            = [s EXCEPT !.rows = Append(@, s.row), !.row = <<>>]
      BY <1>1, <1>3, Zenon DEF HtmlStep, TagOpen, TagClose, CellEnd, RowEnd
    <2>4. ASSUME NEW c, c # TagOpen, c # TagClose, c # CellEnd, c # RowEnd
          PROVE  HtmlStep(s, c) = s
      BY <1>3, <2>4, Zenon DEF HtmlStep, TagOpen, TagClose, CellEnd, RowEnd
    <2> QED BY <2>1, <2>2, <2>3, <2>4
  <1> DEFINE s == InPage(rows, row, cell, "text")
             t == InPage(rows, row, cell, "tag")
  <1>4. s.in = "text" /\ t.in = "tag"
    BY DEF InPage
  <1>5. [s EXCEPT !.in = "tag"] = t /\ [t EXCEPT !.in = "text"] = s
    BY DEF InPage
  <1>6. ASSUME NEW r, r = t
        PROVE  /\ [r EXCEPT !.row = Append(@, r.cell), !.cell = <<>>]
                    = InPage(rows, Append(row, cell), <<>>, "tag")
               /\ [r EXCEPT !.rows = Append(@, r.row), !.row = <<>>]
                    = InPage(Append(rows, row), <<>>, cell, "tag")
    <2>1. r.rows = rows /\ r.row = row /\ r.cell = cell
      BY <1>6 DEF InPage
    <2>2. \A more, none : /\ [r EXCEPT !.row = more, !.cell = none]
                               = InPage(rows, more, none, "tag")
                         /\ [r EXCEPT !.rows = more, !.row = none]
                               = InPage(more, none, cell, "tag")
      <3> TAKE more, none
      <3>1. [r EXCEPT !.row = more] = InPage(rows, more, cell, "tag")
        BY <1>6 DEF InPage
      <3>2. [r EXCEPT !.rows = more] = InPage(more, row, cell, "tag")
        BY <1>6 DEF InPage
      <3>3. [InPage(rows, more, cell, "tag") EXCEPT !.cell = none]
              = InPage(rows, more, none, "tag")
        BY DEF InPage
      <3>4. [InPage(more, row, cell, "tag") EXCEPT !.row = none]
              = InPage(more, none, cell, "tag")
        BY DEF InPage
      <3>5. /\ [r EXCEPT !.row = more, !.cell = none]
                  = [[r EXCEPT !.row = more] EXCEPT !.cell = none]
            /\ [r EXCEPT !.rows = more, !.row = none]
                  = [[r EXCEPT !.rows = more] EXCEPT !.row = none]
        OBVIOUS
      <3> QED BY <3>1, <3>2, <3>3, <3>4, <3>5
    <2>3. /\ [r EXCEPT !.row = Append(@, r.cell), !.cell = <<>>]
                = [r EXCEPT !.row = Append(r.row, r.cell), !.cell = <<>>]
          /\ [r EXCEPT !.rows = Append(@, r.row), !.row = <<>>]
                = [r EXCEPT !.rows = Append(r.rows, r.row), !.row = <<>>]
      OBVIOUS
    <2>4. /\ [r EXCEPT !.row = Append(r.row, r.cell), !.cell = <<>>]
                = InPage(rows, Append(r.row, r.cell), <<>>, "tag")
          /\ [r EXCEPT !.rows = Append(r.rows, r.row), !.row = <<>>]
                = InPage(Append(r.rows, r.row), <<>>, cell, "tag")
      BY <2>2, Zenon
    <2> QED BY <2>1, <2>3, <2>4
  <1>9. ASSUME NEW r, r = s, NEW c
        PROVE  [r EXCEPT !.cell = Append(@, Unescaped(c))]
                 = InPage(rows, row, Append(cell, Unescaped(c)), "text")
    BY <1>9 DEF InPage
  <1> HIDE DEF s, t
  <1>7. HtmlStep(s, TagOpen) = t /\ HtmlStep(t, TagClose) = s
    BY <1>2, <1>3, <1>4, <1>5
  <1>8. /\ HtmlStep(t, CellEnd) = InPage(rows, Append(row, cell), <<>>, "tag")
        /\ HtmlStep(t, RowEnd) = InPage(Append(rows, row), <<>>, cell, "tag")
    <2>1. /\ HtmlStep(t, CellEnd)
                = [t EXCEPT !.row = Append(@, t.cell), !.cell = <<>>]
          /\ HtmlStep(t, RowEnd)
                = [t EXCEPT !.rows = Append(@, t.row), !.row = <<>>]
      BY <1>3, <1>4, Zenon
    <2>2. /\ [t EXCEPT !.row = Append(@, t.cell), !.cell = <<>>]
                = InPage(rows, Append(row, cell), <<>>, "tag")
          /\ [t EXCEPT !.rows = Append(@, t.row), !.row = <<>>]
                = InPage(Append(rows, row), <<>>, cell, "tag")
      BY <1>6, Zenon
    <2> QED BY <2>1, <2>2
  <1>10. \A c : c \notin {TagOpen, TagClose, CellEnd, RowEnd} => HtmlStep(t, c) = t
    BY <1>3, <1>4, Zenon
  <1>11. \A c : c \notin {TagOpen, TagClose} =>
             HtmlStep(s, c)
               = InPage(rows, row, Append(cell, Unescaped(c)), "text")
    <2>1. ASSUME NEW c, c \notin {TagOpen, TagClose}
          PROVE  HtmlStep(s, c)
                   = InPage(rows, row, Append(cell, Unescaped(c)), "text")
      <3>1. HtmlStep(s, c) = [s EXCEPT !.cell = Append(@, Unescaped(c))]
        BY <1>2, <1>4, <2>1, Zenon
      <3>2. [s EXCEPT !.cell = Append(@, Unescaped(c))]
              = InPage(rows, row, Append(cell, Unescaped(c)), "text")
        BY <1>9, Zenon
      <3> QED BY <3>1, <3>2
    <2> QED BY <2>1
  <1> QED BY <1>7, <1>8, <1>10, <1>11 DEF s, t

LEMMA ReadsTag ==
    ASSUME NEW name, NEW rows, NEW row, NEW cell, NEW rows2, NEW row2, NEW cell2,
           HtmlStep(InPage(rows, row, cell, "tag"), name)
             = InPage(rows2, row2, cell2, "tag")
    PROVE  /\ Reads("html", Tag(name), InPage(rows, row, cell, "text"),
                    InPage(rows2, row2, cell2, "text"))
           /\ Tag(name) \in Seq({TagOpen, name, TagClose})
  <1> DEFINE p0 == InPage(rows, row, cell, "text")
             p1 == InPage(rows, row, cell, "tag")
             p2 == InPage(rows2, row2, cell2, "tag")
             p3 == InPage(rows2, row2, cell2, "text")
             f == [i \in 0..3 |-> IF i = 0 THEN p0 ELSE IF i = 1 THEN p1
                                  ELSE IF i = 2 THEN p2 ELSE p3]
             tag == Tag(name)
  <1>1. tag = <<TagOpen, name, TagClose>>
    BY Zenon DEF Tag, TagOpen, TagClose
  <1>2. \A c : c = "html" => c # "csv"
    OBVIOUS
  <1>3. /\ Step("html", p0, TagOpen) = p1 /\ Step("html", p1, name) = p2
        /\ Step("html", p2, TagClose) = p3
    BY <1>2, HtmlSteps DEF Step
  <1> HIDE DEF p0, p1, p2, p3, tag
  <1>4. f[0] = p0 /\ f[1] = p1 /\ f[2] = p2 /\ f[3] = p3
    OBVIOUS
  <1>5. /\ Len(tag) = 3 /\ tag[1] = TagOpen /\ tag[2] = name /\ tag[3] = TagClose
        /\ tag \in Seq({TagOpen, name, TagClose})
    BY <1>1
  <1> HIDE DEF f
  <1>6. ASSUME NEW i \in 1..3 PROVE f[i] = Step("html", f[i - 1], tag[i])
    <2>1. /\ i = 1 \/ i = 2 \/ i = 3
          /\ 1 - 1 = 0 /\ 2 - 1 = 1 /\ 3 - 1 = 2
      OBVIOUS
    <2> QED BY <1>3, <1>4, <1>5, <2>1
  <1>7. Passes("html", tag, p0, p3, f)
    BY <1>4, <1>5, <1>6 DEF Passes
  <1> QED BY <1>5, <1>7 DEF Reads, p0, p3, tag

\* A cell is read back when a reader within it has its text at its end.
CellReads(written, text) ==
    \A rows, row : Reads("html", written, InPage(rows, row, <<>>, "text"),
                         InPage(rows, row, text, "text"))

\* Words that begin no tag are read as what they stand for.
LEMMA CellOfWords ==
    ASSUME NEW W, NEW text \in Seq(W), NEW V, NEW written \in Seq(V),
           Len(written) = Len(text),
           \A i \in 1..Len(text) : /\ written[i] \notin {TagOpen, TagClose}
                                   /\ Unescaped(written[i]) = text[i]
    PROVE  CellReads(written, text)
  <1> SUFFICES ASSUME NEW rows, NEW row
               PROVE  Reads("html", written, InPage(rows, row, <<>>, "text"),
                            InPage(rows, row, text, "text"))
    BY DEF CellReads
  <1> DEFINE n == Len(text)
             in(i) == InPage(rows, row, SubSeq(text, 1, i), "text")
             f == [i \in 0..n |-> in(i)]
  <1>1. n \in Nat
    BY LenProperties
  <1>2. /\ SubSeq(text, 1, 0) = <<>> /\ SubSeq(text, 1, n) = text
        /\ \A i \in 1..n :
               SubSeq(text, 1, i) = Append(SubSeq(text, 1, i - 1), text[i])
    BY OneMore
  <1>3. ASSUME NEW i \in 1..n PROVE Step("html", in(i - 1), written[i]) = in(i)
    <2> DEFINE front == SubSeq(text, 1, i - 1)
               w == written[i]
    <2>1. /\ w \notin {TagOpen, TagClose} /\ Unescaped(w) = text[i]
          /\ SubSeq(text, 1, i) = Append(front, text[i])
      BY <1>2
    <2> HIDE DEF front, w
    <2>2. HtmlStep(InPage(rows, row, front, "text"), w)
            = InPage(rows, row, Append(front, Unescaped(w)), "text")
      <3>1. \A c : c \notin {TagOpen, TagClose} =>
                HtmlStep(InPage(rows, row, front, "text"), c)
                  = InPage(rows, row, Append(front, Unescaped(c)), "text")
        BY HtmlSteps
      <3> QED BY <2>1, <3>1
    <2>3. \A s, c : Step("html", s, c) = HtmlStep(s, c)
      BY DEF Step
    <2> QED BY <2>1, <2>2, <2>3 DEF front, w
  <1>4. \A i \in 0..n : f[i] = in(i)
    OBVIOUS
  <1> HIDE DEF f, n
  <1>5. ASSUME NEW i \in 1..n PROVE f[i] = Step("html", f[i - 1], written[i])
    <2>1. i \in 0..n /\ i - 1 \in 0..n
      BY <1>1
    <2> HIDE DEF in
    <2> QED BY <1>3, <1>4, <2>1
  <1>6. f[0] = InPage(rows, row, <<>>, "text") /\ f[n] = InPage(rows, row, text, "text")
    <2>1. 0 \in 0..n /\ n \in 0..n
      BY <1>1
    <2> QED BY <1>2, <1>4, <2>1
  <1>7. Passes("html", written, InPage(rows, row, <<>>, "text"),
               InPage(rows, row, text, "text"), f)
    BY <1>5, <1>6 DEF Passes, n
  <1> QED BY <1>7 DEF Reads

\* escape_html() loses nothing.
LEMMA EscapedCell ==
    ASSUME NEW W, NEW text \in Seq(W), \A i \in DOMAIN text : text[i] \notin Entities
    PROVE  /\ CellReads(escape_html(text), text)
           /\ escape_html(text) \in Seq(W \union Entities)
  <1> DEFINE n == Len(text)
             V == W \union Entities
             written == escape_html(text)
  <1>1. n \in Nat /\ DOMAIN text = 1..n /\ \A i \in 1..n : text[i] \in W
    BY LenProperties, ElementOfSeq
  <1>2. written = [i \in 1..n |-> Entity(text[i])]
    BY <1>1 DEF escape_html
  <1>3. \A i \in 1..n : Entity(text[i]) \in V
    BY <1>1, EntityRead
  <1> HIDE DEF V, written, n
  <1>4. written \in [1..n -> V]
    BY <1>2, <1>3
  <1>5. written \in Seq(V) /\ Len(written) = n
    BY <1>1, <1>4, FunctionIsSeq
  <1>6. \A i \in 1..n : /\ written[i] \notin {TagOpen, TagClose}
                        /\ Unescaped(written[i]) = text[i]
    BY <1>1, <1>2, EntityRead
  <1>7. CellReads(written, text)
    BY <1>5, <1>6, CellOfWords DEF n
  <1> QED BY <1>5, <1>7 DEF V, written

CellBegin == "td"
RowBegin == "tr"
MarkUp == {TagOpen, TagClose, CellBegin, CellEnd, RowBegin, RowEnd}

LEMMA TagsRead ==
    ASSUME NEW rows, NEW row, NEW cell
    PROVE  /\ \A name \in {CellBegin, RowBegin} :
                  Reads("html", Tag(name), InPage(rows, row, cell, "text"),
                        InPage(rows, row, cell, "text"))
           /\ Reads("html", Tag(CellEnd), InPage(rows, row, cell, "text"),
                    InPage(rows, Append(row, cell), <<>>, "text"))
           /\ Reads("html", Tag(RowEnd), InPage(rows, row, cell, "text"),
                    InPage(Append(rows, row), <<>>, cell, "text"))
           /\ \A name \in MarkUp : Tag(name) \in Seq(MarkUp)
  <1>1. \A name \in {CellBegin, RowBegin} :
            name \notin {TagOpen, TagClose, CellEnd, RowEnd}
    BY Zenon DEF CellBegin, RowBegin, TagOpen, TagClose, CellEnd, RowEnd
  <1>2. ASSUME NEW name \in {CellBegin, RowBegin}
        PROVE  Reads("html", Tag(name), InPage(rows, row, cell, "text"),
                     InPage(rows, row, cell, "text"))
    <2>1. HtmlStep(InPage(rows, row, cell, "tag"), name)
            = InPage(rows, row, cell, "tag")
      BY <1>1, HtmlSteps
    <2> QED BY <2>1, ReadsTag
  <1>3. /\ HtmlStep(InPage(rows, row, cell, "tag"), CellEnd)
              = InPage(rows, Append(row, cell), <<>>, "tag")
        /\ HtmlStep(InPage(rows, row, cell, "tag"), RowEnd)
              = InPage(Append(rows, row), <<>>, cell, "tag")
    BY HtmlSteps
  <1>4. Reads("html", Tag(CellEnd), InPage(rows, row, cell, "text"),
              InPage(rows, Append(row, cell), <<>>, "text"))
    BY <1>3, ReadsTag
  <1>5. Reads("html", Tag(RowEnd), InPage(rows, row, cell, "text"),
              InPage(Append(rows, row), <<>>, cell, "text"))
    BY <1>3, ReadsTag
  <1>6. ASSUME NEW name \in MarkUp PROVE Tag(name) \in Seq(MarkUp)
    <2>1. Tag(name) = <<TagOpen, name, TagClose>>
      BY Zenon DEF Tag, TagOpen, TagClose
    <2>2. TagOpen \in MarkUp /\ TagClose \in MarkUp
      BY DEF MarkUp
    <2>3. ASSUME NEW V, NEW x \in V, NEW y \in V, NEW z \in V
          PROVE  <<x, y, z>> \in Seq(V)
      OBVIOUS
    <2> QED BY <2>1, <2>2, <2>3
  <1> QED BY <1>2, <1>4, <1>5, <1>6

LEMMA RowReads ==
    ASSUME NEW W, NEW cells \in Seq(Seq(W)),
           NEW T, NEW texts \in Seq(T), Len(texts) = Len(cells),
           \A i \in 1..Len(cells) : CellReads(cells[i], texts[i])
    PROVE  /\ HtmlRow(cells) \in Seq(W \union MarkUp)
           /\ LineIs("html", HtmlRow(cells), texts)
  <1> DEFINE n == Len(cells)
             V == W \union MarkUp
             parts == [i \in DOMAIN cells |->
                           Tag("td") \o cells[i] \o Tag("/td")]
             begin == Tag(RowBegin)
             end == Tag(RowEnd)
             open == Tag(CellBegin)
             close == Tag(CellEnd)
             inside == FlattenSeq(parts)
  <1>1. n \in Nat /\ DOMAIN cells = 1..n
    BY LenProperties
  <1>2. HtmlRow(cells) = (begin \o inside) \o end
    BY Zenon DEF HtmlRow, RowBegin, RowEnd
  <1>3. \A i \in 1..n : parts[i] = (open \o cells[i]) \o close
    BY <1>1, Zenon DEF CellBegin, CellEnd
  <1>4. parts = [i \in 1..n |-> parts[i]]
    BY <1>1
  <1>5. W \subseteq V /\ MarkUp \subseteq V
    OBVIOUS
  <1> HIDE DEF V
  <1>6. \A name \in MarkUp : Tag(name) \in Seq(V)
    BY <1>5, TagsRead, SeqMonotonic
  <1>7. /\ begin \in Seq(V) /\ end \in Seq(V)
        /\ open \in Seq(V) /\ close \in Seq(V)
    BY <1>6 DEF MarkUp
  <1>8. \A i \in 1..n : cells[i] \in Seq(V)
    BY <1>5, ElementOfSeq, SeqMonotonic
  <1> HIDE DEF parts, begin, end, open, close
  <1>9. \A i \in 1..n : open \o cells[i] \in Seq(V) /\ parts[i] \in Seq(V)
    <2>1. ASSUME NEW i \in 1..n
          PROVE  open \o cells[i] \in Seq(V) /\ parts[i] \in Seq(V)
      <3>1. cells[i] \in Seq(V)
        BY <1>8
      <3> DEFINE front == open \o cells[i]
      <3>2. front \in Seq(V)
        BY <1>7, <3>1, ConcatProperties
      <3>3. parts[i] = front \o close
        BY <1>3
      <3> HIDE DEF front
      <3>4. parts[i] \in Seq(V)
        BY <1>7, <3>2, <3>3, ConcatProperties
      <3> QED BY <3>2, <3>4 DEF front
    <2> QED BY <2>1
  <1> HIDE DEF n
  <1>10. parts \in [1..n -> Seq(V)]
    BY <1>4, <1>9
  <1>11. parts \in Seq(Seq(V)) /\ Len(parts) = n
    BY <1>1, <1>10, FunctionIsSeq
  <1>12. inside \in Seq(V)
    BY <1>11, FlattenedIsText
  <1>13. begin \o inside \in Seq(V) /\ (begin \o inside) \o end \in Seq(V)
    <2> HIDE DEF inside
    <2> QED BY <1>7, <1>12, ConcatProperties
  <1>14. ASSUME NEW rows
         PROVE  Reads("html", (begin \o inside) \o end,
                      InPage(rows, <<>>, <<>>, "text"),
                      InPage(Append(rows, texts), <<>>, <<>>, "text"))
    <2> DEFINE first == InPage(rows, <<>>, <<>>, "text")
               in(i) == InPage(rows, SubSeq(texts, 1, i), <<>>, "text")
               done == InPage(Append(rows, texts), <<>>, <<>>, "text")
               g == [i \in 0..n |-> in(i)]
    <2>1. /\ SubSeq(texts, 1, 0) = <<>> /\ SubSeq(texts, 1, n) = texts
          /\ \A i \in 1..n : SubSeq(texts, 1, i)
                               = Append(SubSeq(texts, 1, i - 1), texts[i])
      BY OneMore DEF n
    <2>2. ASSUME NEW i \in 1..n
          PROVE  Reads("html", parts[i], in(i - 1), in(i))
      <3> DEFINE front == SubSeq(texts, 1, i - 1)
                 between == InPage(rows, front, texts[i], "text")
                 next == InPage(rows, Append(front, texts[i]), <<>>, "text")
      <3>1. CellReads(cells[i], texts[i])
        BY DEF n
      <3>2. Reads("html", cells[i], in(i - 1), between)
        BY <3>1 DEF CellReads
      <3>3. Reads("html", open, in(i - 1), in(i - 1))
        BY TagsRead DEF open
      <3>4. Reads("html", close, between, next)
        BY TagsRead DEF close
      <3>5. in(i) = next
        BY <2>1
      <3> HIDE DEF in, front, between, next
      <3>6. Reads("html", open \o cells[i], in(i - 1), between)
        BY <1>7, <1>8, <3>2, <3>3, ReadsBoth
      <3>7. Reads("html", (open \o cells[i]) \o close, in(i - 1), next)
        BY <1>7, <1>9, <3>4, <3>6, ReadsBoth
      <3> QED BY <1>3, <3>5, <3>7
    <2>3. in(0) = first
      BY <2>1
    <2>4. Reads("html", begin, first, first)
      BY TagsRead DEF begin
    <2>5. Reads("html", end, in(n), done)
      <3>1. in(n) = InPage(rows, texts, <<>>, "text")
        BY <2>1
      <3> QED BY <3>1, TagsRead DEF end
    <2> HIDE DEF in, first, done
    <2>6. \A i \in 0..n : g[i] = in(i)
      OBVIOUS
    <2> HIDE DEF g
    <2>7. ASSUME NEW i \in 1..n PROVE Reads("html", parts[i], g[i - 1], g[i])
      <3>1. i \in 0..n /\ i - 1 \in 0..n
        BY <1>1
      <3> QED BY <2>2, <2>6, <3>1
    <2>8. Reads("html", inside, g[0], g[n])
      BY <1>11, <2>7, ReadsAll
    <2>9. g[0] = first /\ g[n] = in(n)
      <3>1. 0 \in 0..n /\ n \in 0..n
        BY <1>1
      <3> QED BY <2>3, <2>6, <3>1
    <2> HIDE DEF inside
    <2>10. Reads("html", begin \o inside, first, in(n))
      BY <1>7, <1>12, <2>4, <2>8, <2>9, ReadsBoth
    <2>11. Reads("html", (begin \o inside) \o end, first, done)
      BY <1>7, <1>13, <2>5, <2>10, ReadsBoth
    <2> QED BY <2>11 DEF first, done
  <1>15. \A rows : RowStart("html", rows) = InPage(rows, <<>>, <<>>, "text")
    <2>1. "html" # "csv"
      OBVIOUS
    <2> QED BY <2>1 DEF RowStart
  <1> HIDE DEF inside
  <1> QED BY <1>2, <1>13, <1>14, <1>15 DEF LineIs, V

-------------------------------------------------------------------------------
(* A line of cells.                                                          *)

\* A text: a sequence of words none of which spells a character in HTML.
IsText(t) == IsSeq(t) /\ \A i \in DOMAIN t : t[i] \notin Entities

LEMMA WordsAreText ==
    ASSUME NEW W, \A w \in W : w \notin Entities, NEW t \in Seq(W)
    PROVE  IsText(t)
  <1>1. Len(t) \in Nat /\ DOMAIN t = 1..Len(t)
    BY LenProperties
  <1>2. \A i \in DOMAIN t : t[i] \in W
    BY <1>1, ElementOfSeq
  <1>3. IsSeq(t)
    BY SeqOfAny
  <1> QED BY <1>2, <1>3 DEF IsText

LEMMA TextIsText == ASSUME NEW t \in Text PROVE IsText(t)
  <1>1. \A w \in Word : w \notin Entities
    BY DEF Word
  <1>2. t \in Seq(Word)
    BY DEF Text
  <1> QED BY <1>1, <1>2, WordsAreText

LEMMA NoText == IsText(<<>>)
  <1>1. <<>> \in Seq({})
    BY EmptySeq
  <1> QED BY <1>1, WordsAreText

LEMMA OneWord == ASSUME NEW w, w \notin Entities PROVE IsText(<<w>>)
  <1>1. <<w>> \in Seq({w})
    OBVIOUS
  <1> QED BY <1>1, WordsAreText

\* A cell as it is written, and the text that is read of it.
CellIs(format, cell, text) ==
    IsSeq(cell) /\ IF format = "csv" THEN FieldReads(cell, text)
                   ELSE CellReads(cell, text)

LineOf(format, cells) ==
    IF format = "csv" THEN CsvLine(cells) ELSE HtmlRow(cells)

LEMMA PlainCell ==
    ASSUME NEW format, NEW w, PlainWord(w)
    PROVE  CellIs(format, <<w>>, <<w>>)
  <1> DEFINE t == <<w>>
  <1>1. t \in Seq({w}) /\ Len(t) = 1 /\ t[1] = w /\ DOMAIN t = 1..1
    OBVIOUS
  <1>2. w \notin Marks
    BY Zenon DEF PlainWord, Marks, Comma, Newline, Special
  <1>3. w \notin {TagOpen, TagClose}
    BY Zenon DEF PlainWord, TagOpen, TagClose, Special
  <1>4. w \notin Entities
    BY DEF PlainWord
  <1>5. Unescaped(w) = w
    BY <1>3, <1>4, EntityRead
  <1> HIDE DEF t
  <1>6. \A i \in 1..1 : t[i] = w
    <2>1. \A i \in 1..1 : i = 1
      OBVIOUS
    <2> QED BY <1>1, <2>1
  <1>7. FieldReads(t, t)
    BY <1>1, <1>2, <1>6, PlainField
  <1>8. CellReads(t, t)
    <2>1. \A i \in 1..Len(t) : t[i] \notin {TagOpen, TagClose}
                               /\ Unescaped(t[i]) = t[i]
      BY <1>1, <1>3, <1>5, <1>6
    <2> QED BY <1>1, <2>1, CellOfWords
  <1>9. IsSeq(t)
    BY <1>1, SeqOfAny
  <1> QED BY <1>7, <1>8, <1>9 DEF CellIs, t

LEMMA TextCell ==
    ASSUME NEW format, NEW text, IsText(text)
    PROVE  CellIs(format, IF format = "csv" THEN escape_csv_field(text)
                          ELSE escape_html(text), text)
  <1> DEFINE W == Range(text)
             quoted == escape_csv_field(text)
             escaped == escape_html(text)
  <1>1. text \in Seq(W) /\ \A i \in DOMAIN text : text[i] \notin Entities
    BY DEF IsText, IsSeq
  <1> HIDE DEF W, quoted, escaped
  <1>2. FieldReads(quoted, text) /\ quoted \in Seq(W \union {Quote})
    BY <1>1, EscapedField DEF quoted
  <1>3. CellReads(escaped, text) /\ escaped \in Seq(W \union Entities)
    BY <1>1, EscapedCell DEF escaped
  <1>4. IsSeq(quoted) /\ IsSeq(escaped)
    BY <1>2, <1>3, SeqOfAny
  <1> QED BY <1>2, <1>3, <1>4 DEF CellIs, quoted, escaped

\* A line of cells is read back as their texts.
LEMMA LineTells ==
    ASSUME NEW format \in {"csv", "html"}, NEW n \in Nat, n # 0,
           NEW cells, cells = [i \in 1..n |-> cells[i]],
           NEW texts, texts = [i \in 1..n |-> texts[i]],
           \A i \in 1..n : CellIs(format, cells[i], texts[i])
    PROVE  /\ LineIs(format, LineOf(format, cells), texts)
           /\ IsSeq(LineOf(format, cells))
  <1> DEFINE W == UNION {Range(cells[i]) : i \in 1..n}
             T == Range(texts)
  <1>1. \A i \in 1..n : IsSeq(cells[i])
    BY DEF CellIs
  <1>2. cells \in Seq(Seq(W)) /\ Len(cells) = n
    BY <1>1, CommonWords
  <1>3. texts \in Seq(T) /\ Len(texts) = n
    BY SeqOfFunction DEF IsSeq
  <1> HIDE DEF W, T
  <1>4. CASE format = "csv"
    <2>1. \A i \in 1..n : FieldReads(cells[i], texts[i])
      BY <1>4 DEF CellIs
    <2>2. /\ CsvLine(cells) \in Seq(W \union {Comma, Newline})
          /\ LineIs("csv", CsvLine(cells), texts)
      BY <1>2, <1>3, <2>1, LineReads
    <2> QED BY <1>4, <2>2, SeqOfAny DEF LineOf
  <1>5. CASE format = "html"
    <2>1. format # "csv"
      BY <1>5
    <2>2. \A i \in 1..n : CellReads(cells[i], texts[i])
      BY <2>1 DEF CellIs
    <2>3. /\ HtmlRow(cells) \in Seq(W \union MarkUp)
          /\ LineIs("html", HtmlRow(cells), texts)
      BY <1>2, <1>3, <2>2, RowReads
    <2> QED BY <1>5, <2>1, <2>3, SeqOfAny DEF LineOf
  <1> QED BY <1>4, <1>5

-------------------------------------------------------------------------------
(* A file of lines.                                                          *)

LEMMA OneMoreBehind ==
    ASSUME NEW U, NEW s \in Seq(U), NEW t \in Seq(U), NEW i \in 1..Len(t)
    PROVE  s \o SubSeq(t, 1, i) = Append(s \o SubSeq(t, 1, i - 1), t[i])
  <1> DEFINE front == SubSeq(t, 1, i - 1)
             last == t[i]
  <1>1. Len(t) \in Nat /\ 1 \in Int /\ i - 1 \in Int
        /\ \A k \in 1..(i - 1) : k \in 1..Len(t)
    BY LenProperties
  <1>2. last \in U /\ \A k \in 1..(i - 1) : t[k] \in U
    BY <1>1, ElementOfSeq
  <1>3. front \in Seq(U)
    BY <1>1, <1>2, SubSeqProperties
  <1>4. SubSeq(t, 1, i) = Append(front, last)
    BY OneMore
  <1> HIDE DEF front, last
  <1>5. s \o Append(front, last) = Append(s \o front, last)
    BY <1>2, <1>3, AppendBehind
  <1> QED BY <1>4, <1>5 DEF front, last

\* A text of lines, each read back, is read back as their rows.
LEMMA LinesRead ==
    ASSUME NEW W, NEW lines \in Seq(Seq(W)),
           NEW T, NEW texts \in Seq(T), Len(texts) = Len(lines), NEW first,
           NEW format,
           \A i \in 1..Len(lines) : LineIs(format, lines[i], texts[i])
    PROVE  Reads(format, FlattenSeq(lines), RowStart(format, <<first>>),
                 RowStart(format, <<first>> \o texts))
  <1> DEFINE n == Len(lines)
             rows(i) == <<first>> \o SubSeq(texts, 1, i)
             g == [i \in 0..n |-> RowStart(format, rows(i))]
             U == T \union {first}
  <1>1. n \in Nat
    BY LenProperties
  <1>2. /\ SubSeq(texts, 1, 0) = <<>> /\ SubSeq(texts, 1, n) = texts
        /\ \A i \in 1..n : SubSeq(texts, 1, i)
                             = Append(SubSeq(texts, 1, i - 1), texts[i])
    BY OneMore
  <1>3. <<first>> \in Seq(U) /\ T \subseteq U /\ first \in U
    OBVIOUS
  <1>4. texts \in Seq(U)
    <2> HIDE DEF U
    <2> QED BY <1>3, SeqMonotonic
  <1> HIDE DEF U
  <1>5. rows(0) = <<first>>
    BY <1>2, <1>3, ConcatEmptySeq
  <1>6. ASSUME NEW i \in 1..n PROVE rows(i) = Append(rows(i - 1), texts[i])
    <2> DEFINE begun == <<first>>
    <2>1. begun \in Seq(U)
      BY <1>3
    <2> HIDE DEF begun
    <2>2. begun \o SubSeq(texts, 1, i)
            = Append(begun \o SubSeq(texts, 1, i - 1), texts[i])
      BY <1>4, <2>1, OneMoreBehind
    <2> QED BY <2>2 DEF begun
  <1>7. \A i \in 0..n : g[i] = RowStart(format, rows(i))
    OBVIOUS
  <1> HIDE DEF n, rows, g
  <1>8. ASSUME NEW i \in 1..n PROVE Reads(format, lines[i], g[i - 1], g[i])
    <2>1. i \in 0..n /\ i - 1 \in 0..n
      BY <1>1
    <2>2. Reads(format, lines[i], RowStart(format, rows(i - 1)),
                RowStart(format, Append(rows(i - 1), texts[i])))
      BY DEF n, LineIs
    <2> QED BY <1>6, <1>7, <2>1, <2>2
  <1>9. Reads(format, FlattenSeq(lines), g[0], g[n])
    BY <1>8, ReadsAll DEF n
  <1>10. 0 \in 0..n /\ n \in 0..n
    BY <1>1
  <1>11. rows(n) = <<first>> \o texts
    BY <1>2 DEF rows
  <1> QED BY <1>5, <1>7, <1>9, <1>10, <1>11


\* A file is read back as its heading and the rows of its lines.
LEMMA TableRead ==
    ASSUME NEW W, NEW head \in Seq(W), NEW lines \in Seq(Seq(W)),
           NEW T, NEW texts \in Seq(T), Len(texts) = Len(lines), NEW first,
           NEW format \in {"csv", "html"}, LineIs(format, head, first),
           \A i \in 1..Len(lines) : LineIs(format, lines[i], texts[i])
    PROVE  LET file == head \o FlattenSeq(lines)
               read == <<first>> \o texts
           IN  /\ format = "csv" => ReadCsv(file) = read
               /\ format = "html" => ReadHtml(file) = read
  <1> DEFINE body == FlattenSeq(lines)
             file == head \o body
             read == <<first>> \o texts
             begun == RowStart(format, <<>>)
             headed == RowStart(format, <<first>>)
             done == RowStart(format, read)
  <1>1. body \in Seq(W)
    BY FlattenedIsText
  <1>2. Reads(format, body, headed, done)
    BY LinesRead
  <1>3. Reads(format, head, begun, headed)
    <2>1. Append(<<>>, first) = <<first>>
      OBVIOUS
    <2>2. Reads(format, head, RowStart(format, <<>>),
                RowStart(format, Append(<<>>, first)))
      BY DEF LineIs
    <2> QED BY <2>1, <2>2
  <1> HIDE DEF body, begun, headed, done
  <1>4. Reads(format, file, begun, done) /\ file \in Seq(W)
    BY <1>1, <1>2, <1>3, ReadsBoth, ConcatProperties
  <1>5. "csv" # "html"
    OBVIOUS
  <1> HIDE DEF file, read
  <1>6. CASE format = "csv"
    <2>1. begun = CsvStart /\ done.rows = read
      BY <1>6 DEF begun, done, RowStart, CsvStart, InLine
    <2>2. Reads("csv", file, CsvStart, done)
      BY <1>4, <1>6, <2>1
    <2>3. ReadCsv(file) = done.rows
      BY <1>4, <2>2, ReadBack
    <2> QED BY <1>5, <1>6, <2>1, <2>3 DEF file, body, read
  <1>7. CASE format = "html"
    <2>1. begun = HtmlStart /\ done.rows = read
      BY <1>5, <1>7 DEF begun, done, RowStart, HtmlStart, InPage
    <2>2. Reads("html", file, HtmlStart, done)
      BY <1>4, <1>7, <2>1
    <2>3. ReadHtml(file) = done.rows
      BY <1>4, <2>2, ReadBack
    <2> QED BY <1>5, <1>7, <2>1, <2>3 DEF file, body, read
  <1> QED BY <1>6, <1>7

-------------------------------------------------------------------------------
(* The CVE of a row.                                                         *)

\* The CVE of a row's report is one of its CVEs, and none of them has a higher
\* CVSS; without one above 0 there is none.
LEMMA TopCveIsGreatest ==
    ASSUME NEW cves, Len(cves) \in Nat,
           \A i \in 1..Len(cves) : cves[i].cvss \in Int
    PROVE  LET top == TopCve(cves)
           IN  \/ /\ top = [cve_id |-> <<>>, cvss |-> 0]
                  /\ \A i \in 1..Len(cves) : cves[i].cvss <= 0
               \/ \E k \in 1..Len(cves) :
                      /\ top = cves[k]
                      /\ \A i \in 1..Len(cves) : cves[i].cvss <= cves[k].cvss
  <1> DEFINE n == Len(cves)
             none == [cve_id |-> <<>>, cvss |-> 0]
             Best(f, i) == IF i = 0 THEN none
                           ELSE IF cves[i].cvss > f[i - 1].cvss THEN cves[i]
                           ELSE f[i - 1]
             Solves(f) == f = [i \in 0..n |-> Best(f, i)]
             From0(f, m) == \A i \in 0..m : f[i] = Best(f, i)
             up == {m \in 0..n : \E f : From0(f, m)}
             G == CHOOSE f : Solves(f)
  <1>1. n \in Nat /\ \A i \in 1..n : cves[i].cvss \in Int
    OBVIOUS
  <1>2. TopCve(cves) = G[n]
    BY DEF TopCve
  <1>3. none.cvss = 0
    OBVIOUS
  <1> HIDE DEF n, none
  <1>4. 0 \in up
    <2> DEFINE f == [i \in 0..0 |-> none]
    <2>1. From0(f, 0)
      BY <1>1
    <2> HIDE DEF f, From0
    <2>2. \E g : From0(g, 0)
      BY <2>1
    <2> QED BY <1>1, <2>2
  <1>5. ASSUME NEW m \in 1..n, m - 1 \in up PROVE m \in up
    <2>1. PICK f : From0(f, m - 1)
      BY <1>5
    <2> DEFINE last == Best(f, m)
               g == [i \in 0..m |-> IF i = m THEN last ELSE f[i]]
    <2>2. \A i \in 0..m : g[i] = IF i = m THEN last ELSE f[i]
      OBVIOUS
    <2>3. ASSUME NEW i \in 0..m PROVE Best(g, i) = Best(f, i)
      <3>1. CASE i = 0
        BY <3>1
      <3>2. CASE i # 0
        <4>1. i - 1 \in 0..m /\ i - 1 # m
          BY <1>1, <3>2
        <4>2. g[i - 1] = f[i - 1]
          BY <2>2, <4>1
        <4> QED BY <3>2, <4>2
      <3> QED BY <3>1, <3>2
    <2> HIDE DEF g, Best
    <2>4. \A i \in 0..m : i = m \/ i \in 0..(m - 1)
      BY <1>1
    <2>5. From0(g, m)
      BY <2>1, <2>2, <2>3, <2>4
    <2> HIDE DEF From0
    <2>6. m \in 0..n /\ \E h : From0(h, m)
      BY <1>1, <2>5
    <2> QED BY <2>6
  <1>6. n \in up
    <2> HIDE DEF up
    <2>1. \A i \in 0..n : i \in up
      BY <1>1, <1>4, <1>5, UpTo
    <2> QED BY <1>1, <2>1
  <1>7. PICK F : From0(F, n)
    BY <1>6
  <1>8. Solves(G)
    <2> DEFINE f == [i \in 0..n |-> F[i]]
    <2>1. ASSUME NEW i \in 0..n PROVE f[i] = Best(f, i)
      <3>1. CASE i = 0
        BY <1>7, <3>1
      <3>2. CASE i # 0
        <4>1. i - 1 \in 0..n
          BY <1>1, <3>2
        <4> QED BY <1>7, <3>2, <4>1
      <3> QED BY <3>1, <3>2
    <2> HIDE DEF Best
    <2>2. Solves(f)
      BY <2>1
    <2> HIDE DEF Solves, f
    <2> QED BY <2>2
  <1> HIDE DEF G
  <1>9. \A i \in 0..n : G[i] = Best(G, i)
    BY <1>8
  <1> DEFINE Greatest1(i, k) ==
                 /\ G[i] = cves[k] /\ cves[k].cvss > 0
                 /\ \A j \in 1..i : cves[j].cvss <= cves[k].cvss
             Is(i) == \/ G[i] = none /\ \A j \in 1..i : cves[j].cvss <= 0
                      \/ \E k \in 1..i : Greatest1(i, k)
             is == {i \in 0..n : Is(i)}
  <1>10. 0 \in is
    <2>1. 0 \in 0..n
      BY <1>1
    <2>2. G[0] = none
      BY <1>9, <2>1
    <2> QED BY <2>1, <2>2
  <1>11. ASSUME NEW i \in 1..n, i - 1 \in is PROVE i \in is
    <2>1. /\ i \in 0..n /\ i # 0 /\ i \in 1..i /\ cves[i].cvss \in Int
          /\ \A j \in 1..i : j = i \/ j \in 1..(i - 1)
          /\ \A j \in 1..(i - 1) : j \in 1..i
          /\ \A j \in 1..i : cves[j].cvss \in Int
      BY <1>1
    <2>2. G[i] = IF cves[i].cvss > G[i - 1].cvss THEN cves[i] ELSE G[i - 1]
      BY <1>9, <2>1
    <2>3. Is(i)
      <3>1. CASE G[i - 1] = none /\ \A j \in 1..(i - 1) : cves[j].cvss <= 0
        <4>1. CASE cves[i].cvss > 0
          <5>1. G[i] = cves[i]
            BY <1>3, <2>2, <3>1, <4>1
          <5>2. Greatest1(i, i)
            BY <2>1, <3>1, <4>1, <5>1
          <5> QED BY <2>1, <5>2
        <4>2. CASE ~(cves[i].cvss > 0)
          <5>1. G[i] = none
            BY <1>3, <2>2, <3>1, <4>2
          <5>2. \A j \in 1..i : cves[j].cvss <= 0
            BY <2>1, <3>1, <4>2
          <5> QED BY <5>1, <5>2
        <4> QED BY <4>1, <4>2
      <3>2. ASSUME NEW k \in 1..(i - 1), Greatest1(i - 1, k) PROVE Is(i)
        <4>1. k \in 1..i /\ cves[k].cvss \in Int
          BY <2>1
        <4>2. CASE cves[i].cvss > cves[k].cvss
          <5>1. G[i] = cves[i]
            BY <2>2, <3>2, <4>2
          <5>2. Greatest1(i, i)
            BY <2>1, <3>2, <4>1, <4>2, <5>1
          <5> QED BY <2>1, <5>2
        <4>3. CASE ~(cves[i].cvss > cves[k].cvss)
          <5>1. G[i] = cves[k]
            BY <2>2, <3>2, <4>3
          <5>2. Greatest1(i, k)
            BY <2>1, <3>2, <4>1, <4>3, <5>1
          <5> QED BY <4>1, <5>2
        <4> QED BY <4>2, <4>3
      <3>3. Is(i - 1)
        BY <1>11
      <3> QED BY <3>1, <3>2, <3>3
    <2> HIDE DEF Is
    <2> QED BY <2>1, <2>3
  <1>12. n \in is
    <2> HIDE DEF is
    <2>1. \A i \in 0..n : i \in is
      BY <1>1, <1>10, <1>11, UpTo
    <2> QED BY <1>1, <2>1
  <1>13. Is(n)
    BY <1>12
  <1> QED BY <1>2, <1>13 DEF n, none

-------------------------------------------------------------------------------
(* What is read of a ServerHello.                                            *)

\* Induction down to 0.
LEMMA DownTo ==
    ASSUME NEW m \in Nat, NEW S, m \in S,
           \A i \in 1..m : i \in S => i - 1 \in S
    PROVE  \A i \in 0..m : i \in S
  <1> DEFINE T == {i \in 0..m : m - i \in S}
  <1>1. 0 \in T
    OBVIOUS
  <1>2. ASSUME NEW i \in 1..m, i - 1 \in T PROVE i \in T
    <2> DEFINE k == m - (i - 1)
    <2>1. k \in 1..m /\ k \in S /\ k - 1 = m - i /\ i \in 0..m
      BY <1>2
    <2> HIDE DEF k
    <2>2. k - 1 \in S
      BY <2>1
    <2> QED BY <2>1, <2>2
  <1> HIDE DEF T
  <1>3. \A i \in 0..m : i \in T
    BY <1>1, <1>2, UpTo
  <1>4. ASSUME NEW i \in 0..m PROVE i \in S
    <2>1. m - i \in 0..m /\ m - (m - i) = i
      OBVIOUS
    <2>2. m - i \in T
      BY <1>3, <2>1
    <2>3. m - (m - i) \in S
      BY <2>2 DEF T
    <2> QED BY <2>1, <2>3
  <1> QED BY <1>4

\* A sequence is found in p behind its first "skip" elements.
StandsAt(p, skip, s) == \A i \in 1..Len(s) : p[skip + i] = s[i]

LEMMA PlacedConcat ==
    ASSUME NEW S, NEW s \in Seq(S), NEW t \in Seq(S), NEW p, NEW skip \in Nat,
           StandsAt(p, skip, s \o t)
    PROVE  StandsAt(p, skip, s) /\ StandsAt(p, skip + Len(s), t)
  <1> DEFINE both == s \o t
             m == Len(s)
             n == Len(t)
  <1>1. m \in Nat /\ n \in Nat
    BY LenProperties
  <1>2. /\ Len(both) = m + n
        /\ \A i \in 1..(m + n) : both[i] = IF i <= m THEN s[i] ELSE t[i - m]
    BY ConcatProperties
  <1> HIDE DEF both
  <1>3. \A i \in 1..(m + n) : p[skip + i] = both[i]
    BY <1>2 DEF StandsAt, both
  <1> HIDE DEF m, n
  <1>4. ASSUME NEW i \in 1..m PROVE p[skip + i] = s[i]
    <2>1. i \in 1..(m + n) /\ i <= m
      BY <1>1
    <2> QED BY <1>2, <1>3, <2>1
  <1>5. ASSUME NEW i \in 1..n PROVE p[(skip + m) + i] = t[i]
    <2> DEFINE k == m + i
    <2>1. k \in 1..(m + n) /\ ~(k <= m) /\ k - m = i /\ (skip + m) + i = skip + k
      BY <1>1
    <2> HIDE DEF k
    <2>2. p[skip + k] = t[k - m]
      BY <1>2, <1>3, <2>1
    <2> QED BY <2>1, <2>2
  <1> QED BY <1>4, <1>5 DEF StandsAt, m, n

LEMMA U16Read ==
    ASSUME NEW n \in Nat
    PROVE  /\ U16Octets(n) \in Seq(Nat) /\ Len(U16Octets(n)) = 2
           /\ \A p : \A skip \in Nat :
                  StandsAt(p, skip, U16Octets(n)) => U16(p, skip + 1) = n
  <1>1. n \div 256 \in Nat /\ n % 256 \in Nat
        /\ (n \div 256) * 256 + (n % 256) = n
    OBVIOUS
  <1> DEFINE a == n \div 256
             b == n % 256
             o == U16Octets(n)
  <1>2. o = <<a, b>>
    BY DEF U16Octets
  <1>3. a \in Nat /\ b \in Nat /\ a * 256 + b = n
    BY <1>1
  <1> HIDE DEF a, b
  <1>4. <<a, b>> \in Seq({a, b}) /\ Len(<<a, b>>) = 2
        /\ <<a, b>>[1] = a /\ <<a, b>>[2] = b
    OBVIOUS
  <1>5. {a, b} \subseteq Nat
    BY <1>3
  <1>6. <<a, b>> \in Seq(Nat)
    BY <1>4, <1>5, SeqMonotonic
  <1> HIDE DEF o
  <1>7. Len(o) = 2 /\ o[1] = a /\ o[2] = b /\ o \in Seq(Nat)
    BY <1>2, <1>4, <1>6
  <1>8. ASSUME NEW p, NEW skip \in Nat, StandsAt(p, skip, o)
        PROVE  U16(p, skip + 1) = n
    <2>1. \A i \in 1..2 : p[skip + i] = o[i]
      BY <1>7, <1>8 DEF StandsAt
    <2>2. p[skip + 1] = a /\ p[skip + 2] = b /\ (skip + 1) + 1 = skip + 2
      BY <1>7, <2>1
    <2> QED BY <1>3, <2>2 DEF U16
  <1> QED BY <1>7, <1>8 DEF o

\* An extension is read as its type, its length and its body.
LEMMA ExtensionRead ==
    ASSUME NEW type \in Nat, NEW body \in Seq(Nat),
           NEW extension, extension[1] = type, extension[2] = body
    PROVE  LET part == EncodedExtension(extension)
           IN  /\ part \in Seq(Nat) /\ Len(body) \in Nat
               /\ Len(part) = 4 + Len(body)
               /\ \A p : \A skip \in Nat :
                      StandsAt(p, skip, part) =>
                          /\ U16(p, skip + 1) = type
                          /\ U16(p, skip + 3) = Len(body)
                          /\ StandsAt(p, skip + 4, body)
  <1> DEFINE n == Len(body)
             a == U16Octets(type)
             b == U16Octets(n)
             head == a \o b
             part == head \o body
  <1>1. n \in Nat
    BY LenProperties
  <1> HIDE DEF n
  <1>2. a \in Seq(Nat) /\ Len(a) = 2 /\ b \in Seq(Nat) /\ Len(b) = 2
    BY <1>1, U16Read
  <1>3. part = EncodedExtension(extension)
    BY DEF EncodedExtension, n
  <1>4. \A p : \A skip \in Nat :
            /\ StandsAt(p, skip, a) => U16(p, skip + 1) = type
            /\ StandsAt(p, skip, b) => U16(p, skip + 1) = n
    BY <1>1, U16Read
  <1> HIDE DEF a, b
  <1>5. head \in Seq(Nat) /\ Len(head) = Len(a) + Len(b)
    <2>1. a \in Seq(Nat) /\ b \in Seq(Nat)
      BY <1>2
    <2> QED BY <2>1, ConcatProperties
  <1>6. part \in Seq(Nat) /\ Len(part) = Len(head) + n
    <2>1. head \in Seq(Nat)
      BY <1>5
    <2> HIDE DEF head
    <2> QED BY <2>1, ConcatProperties DEF n
  <1>7. ASSUME NEW p, NEW skip \in Nat, StandsAt(p, skip, part)
        PROVE  /\ StandsAt(p, skip, head) /\ StandsAt(p, skip + Len(head), body)
               /\ StandsAt(p, skip, a) /\ StandsAt(p, skip + Len(a), b)
    <2>1. a \in Seq(Nat) /\ b \in Seq(Nat) /\ head \in Seq(Nat)
      BY <1>2, <1>5
    <2>2. StandsAt(p, skip, head) /\ StandsAt(p, skip + Len(head), body)
      <3> HIDE DEF head
      <3> QED BY <1>7, <2>1, PlacedConcat
    <2> QED BY <2>1, <2>2, PlacedConcat
  <1> HIDE DEF part, head
  <1>8. Len(head) = 4 /\ Len(part) = 4 + n
    BY <1>1, <1>2, <1>5, <1>6
  <1>9. ASSUME NEW p, NEW skip \in Nat, StandsAt(p, skip, part)
        PROVE  /\ U16(p, skip + 1) = type /\ U16(p, skip + 3) = n
               /\ StandsAt(p, skip + 4, body)
    <2>1. /\ StandsAt(p, skip, a) /\ StandsAt(p, skip + 2, b)
          /\ StandsAt(p, skip + 4, body)
      BY <1>2, <1>7, <1>8, <1>9
    <2>2. skip + 2 \in Nat /\ (skip + 2) + 1 = skip + 3
      OBVIOUS
    <2>3. U16(p, (skip + 2) + 1) = n
      BY <1>4, <2>1, <2>2
    <2> QED BY <1>4, <2>1, <2>2, <2>3
  <1> QED BY <1>1, <1>3, <1>6, <1>8, <1>9 DEF n

\* What is put together of parts is read part by part.
LEMMA FlattenedPlaced ==
    ASSUME NEW W, NEW seqs \in Seq(Seq(W))
    PROVE  \E off \in [0..Len(seqs) -> Nat] :
               /\ FlattenSeq(seqs) \in Seq(W)
               /\ off[0] = 0 /\ off[Len(seqs)] = Len(FlattenSeq(seqs))
               /\ \A n \in 1..Len(seqs) : off[n] = off[n - 1] + Len(seqs[n])
               /\ \A p : \A skip \in Nat :
                      StandsAt(p, skip, FlattenSeq(seqs)) =>
                          \A n \in 1..Len(seqs) :
                              StandsAt(p, skip + off[n - 1], seqs[n])
  <1> DEFINE N == Len(seqs)
  <1>1. PICK F : /\ F \in [0..N -> Seq(W)] /\ F[0] = <<>>
                 /\ \A i \in 1..N : F[i] = F[i - 1] \o seqs[i]
                 /\ FlattenSeq(seqs) = F[N]
    BY Flattened
  <1>2. N \in Nat /\ \A n \in 1..N : seqs[n] \in Seq(W)
    BY LenProperties, ElementOfSeq
  <1> HIDE DEF N
  <1> DEFINE off == [n \in 0..N |-> Len(F[n])]
  <1>3. off \in [0..N -> Nat]
    <2>1. \A n \in 0..N : Len(F[n]) \in Nat
      BY <1>1, LenProperties
    <2> QED BY <2>1
  <1>4. \A n \in 0..N : off[n] = Len(F[n])
    OBVIOUS
  <1> HIDE DEF off
  <1>5. off[0] = 0 /\ off[N] = Len(FlattenSeq(seqs)) /\ FlattenSeq(seqs) \in Seq(W)
    <2>1. 0 \in 0..N /\ N \in 0..N
      BY <1>2
    <2>2. Len(F[0]) = 0
      BY <1>1, EmptySeq
    <2> QED BY <1>1, <1>4, <2>1, <2>2
  <1>6. \A n \in 1..N : n \in 0..N /\ n - 1 \in 0..N
    BY <1>2
  <1>7. ASSUME NEW n \in 1..N PROVE off[n] = off[n - 1] + Len(seqs[n])
    <2> DEFINE s == F[n - 1]
    <2>1. s \in Seq(W) /\ seqs[n] \in Seq(W) /\ F[n] = s \o seqs[n]
      BY <1>1, <1>2, <1>6
    <2>2. off[n - 1] = Len(s)
      BY <1>4, <1>6
    <2> HIDE DEF s
    <2>3. Len(F[n]) = Len(s) + Len(seqs[n])
      BY <2>1, ConcatProperties
    <2> QED BY <1>4, <1>6, <2>2, <2>3
  <1>8. ASSUME NEW p, NEW skip \in Nat, StandsAt(p, skip, FlattenSeq(seqs))
        PROVE  \A n \in 1..N : StandsAt(p, skip + off[n - 1], seqs[n])
    <2> DEFINE S == {n \in 0..N : StandsAt(p, skip, F[n])}
    <2>1. ASSUME NEW n \in 1..N, n \in S
          PROVE  n - 1 \in S /\ StandsAt(p, skip + off[n - 1], seqs[n])
      <3> DEFINE s == F[n - 1]
      <3>1. s \in Seq(W) /\ seqs[n] \in Seq(W) /\ F[n] = s \o seqs[n]
        BY <1>1, <1>2, <1>6
      <3>2. off[n - 1] = Len(s)
        BY <1>4, <1>6
      <3>3. StandsAt(p, skip, F[n])
        BY <2>1
      <3>4. n - 1 \in S <=> StandsAt(p, skip, s)
        BY <1>6
      <3> HIDE DEF s, S
      <3>5. StandsAt(p, skip, s) /\ StandsAt(p, skip + Len(s), seqs[n])
        BY <3>1, <3>3, PlacedConcat
      <3> QED BY <3>2, <3>4, <3>5
    <2>2. N \in S
      BY <1>1, <1>2, <1>8
    <2> HIDE DEF S
    <2>3. \A n \in 0..N : n \in S
      BY <1>2, <2>1, <2>2, DownTo
    <2> QED BY <1>6, <2>1, <2>3
  <1> QED BY <1>1, <1>3, <1>5, <1>7, <1>8 DEF N

-------------------------------------------------------------------------------
(* The extensions of a ServerHello.                                          *)

\* What Extensions() finds at an offset, given what it finds behind it.
ExtensionsAt(p, skip, total, walk, at) ==
    IF ~Fits(at, 0, total) THEN <<>>
    ELSE LET type == U16(p, skip + at + 1)
             length == U16(p, skip + at + 3)
         IN  IF ~Fits(at, length, total) THEN <<>>
             ELSE <<[type |-> type, at |-> skip + at + 5,
                     length |-> length]>> \o walk[at + 4 + length]

\* The recursion has a solution: it goes on behind where it is.
LEMMA ExtensionsWalk ==
    ASSUME NEW p, NEW skip \in Nat, NEW total \in Nat,
           \A i \in 1..total : p[skip + i] \in Nat
    PROVE  \E walk : /\ \A at \in 0..total :
                            walk[at] = ExtensionsAt(p, skip, total, walk, at)
                     /\ Extensions(p, skip, total) = walk[0]
  <1> DEFINE Solves(f, a) == f = [at \in a..total |-> ExtensionsAt(p, skip, total, f, at)]
             S == {a \in 0..total : \E f : Solves(f, a)}
             G == CHOOSE f : Solves(f, 0)
  <1>1. ASSUME NEW at \in 0..total, NEW f, NEW g,
               \A i \in (at + 1)..total : f[i] = g[i]
        PROVE  ExtensionsAt(p, skip, total, f, at) = ExtensionsAt(p, skip, total, g, at)
    <2> DEFINE type == U16(p, skip + at + 1)
               length == U16(p, skip + at + 3)
    <2>1. CASE ~Fits(at, 0, total)
      BY <2>1 DEF ExtensionsAt
    <2>2. CASE Fits(at, 0, total)
      <3>1. /\ skip + at + 3 = skip + (at + 3) /\ (skip + at + 3) + 1 = skip + (at + 4)
            /\ at + 3 \in 1..total /\ at + 4 \in 1..total
        BY <2>2 DEF Fits
      <3>2. length \in Nat
        BY <3>1 DEF U16
      <3> HIDE DEF type, length
      <3>3. CASE Fits(at, length, total)
        <4>1. at + 4 + length \in (at + 1)..total
          BY <3>2, <3>3 DEF Fits
        <4>2. f[at + 4 + length] = g[at + 4 + length]
          BY <1>1, <4>1
        <4> QED BY <4>2, Zenon DEF ExtensionsAt, length
      <3>4. CASE ~Fits(at, length, total)
        BY <3>4, Zenon DEF ExtensionsAt, length
      <3> QED BY <3>3, <3>4
    <2> QED BY <2>1, <2>2
  <1>2. total \in S
    <2> DEFINE e == <<>>
               f == [at \in total..total |-> ExtensionsAt(p, skip, total, e, at)]
    <2>1. ASSUME NEW at \in total..total
          PROVE  ExtensionsAt(p, skip, total, e, at) = ExtensionsAt(p, skip, total, f, at)
      <3>1. at \in 0..total /\ \A i \in (at + 1)..total : FALSE
        OBVIOUS
      <3> HIDE DEF e, f
      <3> QED BY <1>1, <3>1
    <2>2. Solves(f, total)
      BY <2>1, Zenon
    <2> HIDE DEF f, Solves
    <2> QED BY <2>2
  <1>3. ASSUME NEW b \in 1..total, b \in S PROVE b - 1 \in S
    <2> DEFINE a == b - 1
    <2>1. PICK f : Solves(f, b)
      BY <1>3
    <2>2. /\ a \in 0..total /\ a + 1 = b
          /\ \A at \in a..total : at = a \/ at \in b..total
          /\ \A at \in b..total : at # a /\ at \in a..total
          /\ \A at \in a..total : at \in 0..total
                 /\ \A i \in (at + 1)..total : i \in b..total
      OBVIOUS
    <2> HIDE DEF a
    <2> DEFINE g == [at \in a..total |-> ExtensionsAt(p, skip, total, f, at)]
    <2>3. ASSUME NEW at \in b..total PROVE f[at] = g[at]
      <3>1. f = [x \in b..total |-> ExtensionsAt(p, skip, total, f, x)]
        BY <2>1
      <3>2. f[at] = ExtensionsAt(p, skip, total, f, at)
        BY <3>1, Zenon
      <3> QED BY <2>2, <3>2
    <2>4. ASSUME NEW at \in a..total
          PROVE  ExtensionsAt(p, skip, total, f, at) = ExtensionsAt(p, skip, total, g, at)
      <3> HIDE DEF g
      <3> QED BY <1>1, <2>2, <2>3
    <2>5. Solves(g, a)
      BY <2>4, Zenon
    <2> HIDE DEF g, Solves
    <2> QED BY <2>2, <2>5 DEF a
  <1>4. 0 \in S
    <2> HIDE DEF S
    <2>1. \A a \in 0..total : a \in S
      BY <1>2, <1>3, DownTo
    <2> QED BY <2>1
  <1>5. Solves(G, 0)
    <2>1. \E f : Solves(f, 0)
      BY <1>4
    <2> HIDE DEF Solves
    <2> QED BY <2>1
  <1>6. Extensions(p, skip, total) = G[0]
    BY Zenon DEF Extensions, ExtensionsAt
  <1> HIDE DEF G
  <1>7. ASSUME NEW at \in 0..total PROVE G[at] = ExtensionsAt(p, skip, total, G, at)
    <2>1. G = [x \in 0..total |-> ExtensionsAt(p, skip, total, G, x)]
      BY <1>5
    <2> QED BY <2>1, Zenon
  <1> QED BY <1>6, <1>7

\* A list of extensions is the extensions, one after the other.
LEMMA ExtensionsEncoded ==
    ASSUME NEW extensions \in Seq(Short \X Seq(Octet))
    PROVE  LET N == Len(extensions)
               seqs == [n \in 1..N |-> EncodedExtension(extensions[n])]
           IN  /\ N \in Nat /\ DOMAIN extensions = 1..N
               /\ EncodedExtensions(extensions) = FlattenSeq(seqs)
               /\ EncodedExtensions(extensions) \in Seq(Nat)
               /\ seqs \in Seq(Seq(Nat)) /\ Len(seqs) = N
               /\ \A n \in 1..N :
                      /\ extensions[n][1] \in Nat
                      /\ Len(extensions[n][2]) \in Nat
                      /\ Len(seqs[n]) = 4 + Len(extensions[n][2])
                      /\ \A p : \A from \in Nat :
                             StandsAt(p, from, seqs[n]) =>
                                 /\ U16(p, from + 1) = extensions[n][1]
                                 /\ U16(p, from + 3) = Len(extensions[n][2])
                                 /\ StandsAt(p, from + 4, extensions[n][2])
  <1> DEFINE N == Len(extensions)
             seqs == [n \in 1..N |-> EncodedExtension(extensions[n])]
             list == FlattenSeq(seqs)
  <1>1. /\ N \in Nat /\ DOMAIN extensions = 1..N
        /\ \A n \in 1..N : extensions[n] \in Short \X Seq(Octet)
    BY LenProperties, ElementOfSeq
  <1>2. EncodedExtensions(extensions) = list
    BY <1>1 DEF EncodedExtensions
  <1> HIDE DEF N
  <1>3. \A n \in 1..N : extensions[n][1] \in Nat /\ extensions[n][2] \in Seq(Nat)
    <2>1. \A body \in Seq(Octet) : body \in Seq(Nat)
      <3>1. Octet \subseteq Nat
        BY DEF Octet
      <3> QED BY <3>1, SeqMonotonic
    <2> QED BY <1>1, <2>1 DEF Short
  <1>4. ASSUME NEW n \in 1..N
        PROVE  /\ seqs[n] \in Seq(Nat) /\ Len(extensions[n][2]) \in Nat
               /\ Len(seqs[n]) = 4 + Len(extensions[n][2])
               /\ \A p : \A from \in Nat :
                      StandsAt(p, from, seqs[n]) =>
                          /\ U16(p, from + 1) = extensions[n][1]
                          /\ U16(p, from + 3) = Len(extensions[n][2])
                          /\ StandsAt(p, from + 4, extensions[n][2])
    <2> DEFINE e == extensions[n]
               type == e[1]
               body == e[2]
    <2>1. type \in Nat /\ body \in Seq(Nat) /\ seqs[n] = EncodedExtension(e)
      BY <1>3
    <2> HIDE DEF seqs, type, body, e
    <2>2. e[1] = type /\ e[2] = body
      BY DEF type, body
    <2>3. /\ seqs[n] \in Seq(Nat) /\ Len(body) \in Nat
          /\ Len(seqs[n]) = 4 + Len(body)
          /\ \A p : \A from \in Nat :
                 StandsAt(p, from, seqs[n]) =>
                     /\ U16(p, from + 1) = type /\ U16(p, from + 3) = Len(body)
                     /\ StandsAt(p, from + 4, body)
      BY <2>1, <2>2, ExtensionRead
    <2> QED BY <2>3 DEF type, body, e
  <1>5. seqs \in Seq(Seq(Nat)) /\ Len(seqs) = N
    <2>1. seqs \in [1..N -> Seq(Nat)]
      BY <1>4
    <2> HIDE DEF seqs
    <2> QED BY <1>1, <2>1, FunctionIsSeq
  <1>6. list \in Seq(Nat)
    <2> HIDE DEF seqs
    <2> QED BY <1>5, FlattenedIsText
  <1> HIDE DEF seqs, list
  <1> QED BY <1>1, <1>2, <1>3, <1>4, <1>5, <1>6 DEF N, seqs, list

\* An extension is in its place: its type, its length, and where its body is.
Read(p, found, extension) ==
    /\ found.type = extension[1] /\ found.length = Len(extension[2])
    /\ \E from \in Nat : /\ found.at = from + 1
                         /\ StandsAt(p, from, extension[2])

\* The extensions that are sent are read, all of them in their order.
LEMMA ExtensionsRead ==
    ASSUME NEW extensions \in Seq(Short \X Seq(Octet)), NEW p, NEW skip \in Nat,
           StandsAt(p, skip, EncodedExtensions(extensions))
    PROVE  LET N == Len(extensions)
               total == Len(EncodedExtensions(extensions))
               all == Extensions(p, skip, total)
           IN  /\ N \in Nat /\ DOMAIN extensions = 1..N /\ DOMAIN all = 1..N
               /\ \A n \in 1..N : Read(p, all[n], extensions[n])
  <1> DEFINE N == Len(extensions)
             seqs == [n \in 1..N |-> EncodedExtension(extensions[n])]
             list == FlattenSeq(seqs)
             total == Len(list)
             all == Extensions(p, skip, total)
  <1>1. N \in Nat /\ DOMAIN extensions = 1..N
    BY ExtensionsEncoded
  <1>2. EncodedExtensions(extensions) = list
    BY ExtensionsEncoded
  <1>3. ASSUME NEW n \in 1..N
        PROVE  /\ Len(extensions[n][2]) \in Nat
               /\ Len(seqs[n]) = 4 + Len(extensions[n][2])
               /\ \A from \in Nat :
                      StandsAt(p, from, seqs[n]) =>
                          /\ U16(p, from + 1) = extensions[n][1]
                          /\ U16(p, from + 3) = Len(extensions[n][2])
                          /\ StandsAt(p, from + 4, extensions[n][2])
    BY ExtensionsEncoded
  <1>4. seqs \in Seq(Seq(Nat)) /\ Len(seqs) = N
    BY ExtensionsEncoded
  <1> HIDE DEF N, seqs
  <1>5. PICK off \in [0..N -> Nat] :
            /\ list \in Seq(Nat) /\ off[0] = 0 /\ off[N] = total
            /\ \A n \in 1..N : off[n] = off[n - 1] + Len(seqs[n])
            /\ \A from \in Nat :
                   StandsAt(p, from, list) =>
                       \A n \in 1..N : StandsAt(p, from + off[n - 1], seqs[n])
    <2>1. \E off \in [0..Len(seqs) -> Nat] :
            /\ list \in Seq(Nat) /\ off[0] = 0 /\ off[Len(seqs)] = total
            /\ \A n \in 1..Len(seqs) : off[n] = off[n - 1] + Len(seqs[n])
            /\ \A q : \A from \in Nat :
                   StandsAt(q, from, list) =>
                       \A n \in 1..Len(seqs) : StandsAt(q, from + off[n - 1], seqs[n])
      BY <1>4, FlattenedPlaced
    <2> HIDE DEF list
    <2> QED BY <1>4, <2>1
  <1>6. \A n \in 1..N : n \in 0..N /\ n - 1 \in 0..N
                        /\ off[n] \in Nat /\ off[n - 1] \in Nat
    <2>1. \A n \in 1..N : n \in 0..N /\ n - 1 \in 0..N
      BY <1>1
    <2> QED BY <1>5, <2>1
  <1>7. total \in Nat /\ \A i \in 1..total : p[skip + i] \in Nat
    <2>1. list \in Seq(Nat) /\ StandsAt(p, skip, list)
      BY <1>2, <1>5
    <2> HIDE DEF list
    <2> QED BY <2>1, LenProperties, ElementOfSeq DEF StandsAt
  <1>8. \A n \in 1..N : StandsAt(p, skip + off[n - 1], seqs[n])
    BY <1>2, <1>5
  <1> HIDE DEF list
  <1> HIDE DEF total
  <1>9. \A n \in 0..N : off[n] <= total
    <2> DEFINE S == {n \in 0..N : off[n] <= total}
    <2>1. N \in S
      BY <1>1, <1>5, <1>7
    <2>2. ASSUME NEW n \in 1..N, n \in S PROVE n - 1 \in S
      <3> DEFINE length == Len(extensions[n][2])
                 here == off[n]
                 before == off[n - 1]
      <3>1. length \in Nat /\ here \in Nat /\ before \in Nat /\ here <= total
        BY <1>3, <1>6, <2>2
      <3>2. here = before + (4 + length)
        BY <1>3, <1>5
      <3> HIDE DEF length, here, before
      <3>3. before <= total
        BY <1>7, <3>1, <3>2
      <3> QED BY <1>6, <3>3 DEF before
    <2> HIDE DEF S
    <2>3. \A n \in 0..N : n \in S
      BY <1>1, <2>1, <2>2, DownTo
    <2> QED BY <2>3 DEF S
  <1>10. PICK walk : /\ \A at \in 0..total :
                            walk[at] = ExtensionsAt(p, skip, total, walk, at)
                     /\ all = walk[0]
    BY <1>7, ExtensionsWalk
  <1> DEFINE found == [n \in 1..N |-> [type |-> extensions[n][1],
                                       at |-> skip + off[n - 1] + 5,
                                       length |-> Len(extensions[n][2])]]
             R == {found[n] : n \in 1..N}
  <1>11. ASSUME NEW n \in 1..N
         PROVE  /\ walk[off[n - 1]] = <<found[n]>> \o walk[off[n]]
                /\ Read(p, found[n], extensions[n])
    <2> DEFINE at == off[n - 1]
               type == extensions[n][1]
               body == extensions[n][2]
               length == Len(body)
               from == skip + at
    <2>1. /\ at \in Nat /\ length \in Nat /\ off[n] = at + 4 + length
          /\ off[n] <= total /\ StandsAt(p, from, seqs[n])
      <3>1. at \in Nat /\ length \in Nat /\ off[n] <= total
        BY <1>3, <1>6, <1>9
      <3>2. off[n] = at + Len(seqs[n]) /\ Len(seqs[n]) = 4 + length
        BY <1>3, <1>5
      <3>3. StandsAt(p, from, seqs[n])
        BY <1>8
      <3> HIDE DEF at, length
      <3>4. off[n] = at + 4 + length
        BY <3>1, <3>2
      <3> QED BY <3>1, <3>3, <3>4
    <2> HIDE DEF at, length
    <2>2. from \in Nat /\ from + 1 = skip + at + 1 /\ from + 3 = skip + at + 3
          /\ skip + at + 5 = (from + 4) + 1 /\ from + 4 \in Nat
          /\ at \in 0..total
      BY <1>7, <2>1
    <2> HIDE DEF from
    <2>3. /\ U16(p, skip + at + 1) = type /\ U16(p, skip + at + 3) = length
          /\ StandsAt(p, from + 4, body)
      BY <1>3, <2>1, <2>2 DEF length
    <2> HIDE DEF type, body
    <2>4. Fits(at, 0, total) /\ Fits(at, length, total)
      BY <1>7, <2>1, <2>2 DEF Fits
    <2>5. walk[at] = ExtensionsAt(p, skip, total, walk, at)
      BY <1>10, <2>2
    <2>6. walk[at] = <<[type |-> type, at |-> skip + at + 5, length |-> length]>>
                     \o walk[at + 4 + length]
      BY <2>3, <2>4, <2>5, Zenon DEF ExtensionsAt
    <2>7. found[n] = [type |-> type, at |-> skip + at + 5, length |-> length]
      BY Zenon DEF type, at, length, body
    <2> HIDE DEF found
    <2>8. walk[at] = <<found[n]>> \o walk[off[n]]
      BY <2>1, <2>6, <2>7
    <2>9. Read(p, found[n], extensions[n])
      <3>1. /\ found[n].type = type /\ found[n].length = length
            /\ found[n].at = (from + 4) + 1
        BY <2>2, <2>7
      <3> QED BY <2>2, <2>3, <3>1 DEF Read, type, body, length
    <2> QED BY <2>8, <2>9 DEF at
  <1> HIDE DEF found
  <1> DEFINE Rest(n, w) == /\ w \in Seq(R) /\ Len(w) = N - n
                           /\ \A k \in 1..(N - n) : w[k] = found[n + k]
             S == {n \in 0..N : Rest(n, walk[off[n]])}
  <1>12. N \in S
    <2>1. total \in 0..total /\ ~Fits(total, 0, total)
      BY <1>7 DEF Fits
    <2>2. walk[total] = <<>>
      BY <1>10, <2>1, Zenon DEF ExtensionsAt
    <2>3. <<>> \in Seq(R) /\ Len(<<>>) = 0 /\ N - N = 0 /\ N \in 0..N
          /\ \A k \in 1..0 : FALSE
      BY <1>1, EmptySeq
    <2> HIDE DEF R
    <2>4. Rest(N, <<>>)
      BY <2>3
    <2> HIDE DEF Rest
    <2> QED BY <1>5, <2>2, <2>3, <2>4
  <1>13. ASSUME NEW n \in 1..N, n \in S PROVE n - 1 \in S
    <2> DEFINE one == <<found[n]>>
               w == walk[off[n]]
               both == one \o w
               m == N - n
    <2>1. one \in Seq(R) /\ Len(one) = 1 /\ one[1] = found[n]
      <3>1. found[n] \in R
        OBVIOUS
      <3> HIDE DEF R
      <3> QED BY <3>1
    <2>2. w \in Seq(R) /\ Len(w) = m /\ \A k \in 1..m : w[k] = found[n + k]
      BY <1>13
    <2> HIDE DEF R, one, w
    <2>3. /\ both \in Seq(R) /\ Len(both) = Len(one) + Len(w)
          /\ \A i \in 1..(Len(one) + Len(w)) :
                 both[i] = IF i <= Len(one) THEN one[i] ELSE w[i - Len(one)]
      BY <2>1, <2>2, ConcatProperties
    <2> HIDE DEF both
    <2>4. m \in Nat /\ N - (n - 1) = 1 + m
      BY <1>1
    <2> HIDE DEF m
    <2>5. Len(both) = 1 + m
      BY <2>1, <2>2, <2>3
    <2>6. ASSUME NEW k \in 1..(1 + m) PROVE both[k] = found[(n - 1) + k]
      <3>1. both[k] = IF k <= 1 THEN one[k] ELSE w[k - 1]
        BY <2>1, <2>2, <2>3
      <3>2. CASE k = 1
        <4>1. (n - 1) + k = n
          BY <3>2
        <4> QED BY <2>1, <3>1, <3>2, <4>1
      <3>3. CASE k # 1
        <4>1. k - 1 \in 1..m /\ n + (k - 1) = (n - 1) + k /\ ~(k <= 1)
          BY <2>4, <3>3
        <4> QED BY <2>2, <3>1, <4>1
      <3> QED BY <3>2, <3>3
    <2>7. Rest(n - 1, both)
      BY <2>3, <2>4, <2>5, <2>6
    <2>8. walk[off[n - 1]] = both
      BY <1>11 DEF both, one, w
    <2> HIDE DEF Rest
    <2> QED BY <1>6, <2>7, <2>8
  <1>14. Rest(0, all)
    <2> HIDE DEF S
    <2>1. \A n \in 0..N : n \in S
      BY <1>1, <1>12, <1>13, DownTo
    <2>2. 0 \in S
      BY <1>1, <2>1
    <2> QED BY <1>5, <1>10, <2>2 DEF S
  <1>15. DOMAIN all = 1..N /\ \A n \in 1..N : all[n] = found[n]
    <2>1. N - 0 = N /\ \A k \in 1..N : 0 + k = k
      BY <1>1
    <2> HIDE DEF all, R
    <2> QED BY <1>14, <2>1, LenProperties
  <1> QED BY <1>1, <1>2, <1>11, <1>15 DEF N, total

\* Eight sequences in a row: where the first, the third, the fifth, and the
\* last two are.
InRow(S, p, s1, s2, s3, s4, s5, s6, s7, s8) ==
    /\ s1 \in Seq(S) /\ s2 \in Seq(S) /\ s3 \in Seq(S) /\ s4 \in Seq(S)
    /\ s5 \in Seq(S) /\ s6 \in Seq(S) /\ s7 \in Seq(S) /\ s8 \in Seq(S)
    /\ p = s1 \o s2 \o s3 \o s4 \o s5 \o s6 \o (s7 \o s8)

LEMMA PlacedParts ==
    ASSUME NEW S, NEW p, NEW s1, NEW s2, NEW s3, NEW s4, NEW s5, NEW s6, NEW s7,
           NEW s8, InRow(S, p, s1, s2, s3, s4, s5, s6, s7, s8)
    PROVE  LET before3 == Len(s1) + Len(s2)
               before5 == before3 + Len(s3) + Len(s4)
               before7 == before5 + Len(s5) + Len(s6)
           IN  /\ Len(p) = before7 + Len(s7) + Len(s8)
               /\ StandsAt(p, 0, s1) /\ StandsAt(p, before3, s3)
               /\ StandsAt(p, before5, s5) /\ StandsAt(p, before7, s7)
               /\ StandsAt(p, before7 + Len(s7), s8)
  <1> DEFINE q2 == s1 \o s2
             q3 == q2 \o s3
             q4 == q3 \o s4
             q5 == q4 \o s5
             q6 == q5 \o s6
             q7 == s7 \o s8
             q8 == q6 \o q7
  <1>0. /\ s1 \in Seq(S) /\ s2 \in Seq(S) /\ s3 \in Seq(S) /\ s4 \in Seq(S)
        /\ s5 \in Seq(S) /\ s6 \in Seq(S) /\ s7 \in Seq(S) /\ s8 \in Seq(S)
    BY DEF InRow
  <1>1. \A s, t \in Seq(S) : s \o t \in Seq(S) /\ Len(s \o t) = Len(s) + Len(t)
    BY ConcatProperties
  <1>2. \A s, t \in Seq(S) : \A skip \in Nat :
            StandsAt(p, skip, s \o t) =>
                StandsAt(p, skip, s) /\ StandsAt(p, skip + Len(s), t)
    BY PlacedConcat
  <1>3. p = q8
    BY DEF InRow
  <1>4. /\ q2 \in Seq(S) /\ q3 \in Seq(S) /\ q4 \in Seq(S) /\ q5 \in Seq(S)
        /\ q6 \in Seq(S) /\ q7 \in Seq(S)
    BY <1>0, <1>1, Zenon
  <1>5. /\ Len(q2) = Len(s1) + Len(s2) /\ Len(q3) = Len(q2) + Len(s3)
        /\ Len(q4) = Len(q3) + Len(s4) /\ Len(q5) = Len(q4) + Len(s5)
        /\ Len(q6) = Len(q5) + Len(s6) /\ Len(q7) = Len(s7) + Len(s8)
        /\ Len(q8) = Len(q6) + Len(q7)
    BY <1>0, <1>1, <1>4, Zenon
  <1>6. \A skip \in Nat :
            /\ StandsAt(p, skip, q8) =>
                   StandsAt(p, skip, q6) /\ StandsAt(p, skip + Len(q6), q7)
            /\ StandsAt(p, skip, q7) =>
                   StandsAt(p, skip, s7) /\ StandsAt(p, skip + Len(s7), s8)
            /\ StandsAt(p, skip, q6) => StandsAt(p, skip, q5)
            /\ StandsAt(p, skip, q5) =>
                   StandsAt(p, skip, q4) /\ StandsAt(p, skip + Len(q4), s5)
            /\ StandsAt(p, skip, q4) => StandsAt(p, skip, q3)
            /\ StandsAt(p, skip, q3) =>
                   StandsAt(p, skip, q2) /\ StandsAt(p, skip + Len(q2), s3)
            /\ StandsAt(p, skip, q2) => StandsAt(p, skip, s1)
    BY <1>0, <1>2, <1>4, Zenon
  <1> HIDE DEF q2, q3, q4, q5, q6, q7, q8
  <1>7. StandsAt(p, 0, q8)
    <2>1. \A i \in 1..Len(q8) : 0 + i = i
      BY <1>4, LenProperties
    <2> QED BY <1>3, <2>1 DEF StandsAt
  <1>8. /\ Len(s1) \in Nat /\ Len(s2) \in Nat /\ Len(s3) \in Nat
        /\ Len(s4) \in Nat /\ Len(s5) \in Nat /\ Len(s6) \in Nat
        /\ Len(s7) \in Nat /\ Len(s8) \in Nat
    BY <1>0, LenProperties
  <1>9. /\ Len(q2) \in Nat /\ Len(q4) \in Nat /\ Len(q6) \in Nat /\ 0 \in Nat
        /\ 0 + Len(q2) = Len(q2) /\ 0 + Len(q4) = Len(q4)
        /\ 0 + Len(q6) = Len(q6)
        /\ Len(q2) = Len(s1) + Len(s2)
        /\ Len(q4) = Len(s1) + Len(s2) + Len(s3) + Len(s4)
        /\ Len(q6) = Len(s1) + Len(s2) + Len(s3) + Len(s4) + Len(s5) + Len(s6)
        /\ Len(q8) = Len(q6) + Len(s7) + Len(s8)
    BY <1>5, <1>8
  <1>10. /\ StandsAt(p, 0, s1) /\ StandsAt(p, Len(q2), s3)
         /\ StandsAt(p, Len(q4), s5) /\ StandsAt(p, Len(q6), s7)
         /\ StandsAt(p, Len(q6) + Len(s7), s8)
    BY <1>6, <1>7, <1>9
  <1> QED BY <1>3, <1>9, <1>10

\* What is found in a ServerHello with extensions is what was sent: its
\* version, the one an extension selects, and the types that are not GREASE.
LEMMA HelloRead ==
    ASSUME NEW hello \in ServerHello, hello.extensions # <<>>
    PROVE  LET sent == hello.extensions
               selects == {k \in DOMAIN sent : sent[k][1] = 43}
               shown == Kept(sent, {k \in DOMAIN sent : ~is_grease(sent[k][1])})
               in == parse_server_hello(Encoded(hello))
               types == [k \in DOMAIN shown |-> shown[k][1]]
           IN  /\ in = Ja4SInput(771, IF selects = {} THEN 0 ELSE 772,
                                 hello.cipher, types)
               /\ Len(types) = Len(shown)
  <1> DEFINE sent == hello.extensions
             sid == hello.sid
             list == EncodedExtensions(sent)
             total == Len(list)
             legacy == U16Octets(hello.legacy)
             random == [i \in 1..32 |-> 7]
             id == <<sid>>
             session == [i \in 1..sid |-> 9]
             cipher == U16Octets(hello.cipher)
             compression == <<0>>
             size == U16Octets(total)
             p == Encoded(hello)
  <1>1. /\ sent \in Seq(Short \X Seq(Octet)) /\ total \in Nat /\ sid \in Nat
        /\ hello.legacy = 771 /\ hello.cipher \in Nat
    <2>1. total \in Short /\ hello.cipher \in Short /\ sid \in 0..32
      BY DEF ServerHello
    <2>2. sent \in Seq(Short \X Seq(Octet)) /\ hello.legacy = 771
      BY DEF ServerHello
    <2>3. (\A n \in Short : n \in Nat) /\ \A n \in 0..32 : n \in Nat
      BY DEF Short
    <2> HIDE DEF sent, sid, list, total, legacy, random, id, session, cipher,
                 compression, size, p
    <2>4. total \in Nat /\ hello.cipher \in Nat /\ sid \in Nat
      BY <2>1, <2>3
    <2> QED BY <2>2, <2>4
  <1>2. p = legacy \o random \o id \o session \o cipher \o compression
            \o (size \o list)
    <2> DEFINE tail == IF hello.extensions = <<>> THEN <<>> ELSE size \o list
    <2>1. p = legacy \o random \o id \o session \o cipher \o compression \o tail
      BY DEF Encoded
    <2>2. tail = size \o list
      <3> HIDE DEF size, list
      <3> QED OBVIOUS
    <2> HIDE DEF legacy, random, id, session, cipher, compression, tail, size, list
    <2> QED BY <2>1, <2>2
  <1>3. /\ legacy \in Seq(Nat) /\ Len(legacy) = 2
        /\ cipher \in Seq(Nat) /\ Len(cipher) = 2
        /\ size \in Seq(Nat) /\ Len(size) = 2
        /\ \A q : \A skip \in Nat :
               /\ StandsAt(q, skip, legacy) => U16(q, skip + 1) = 771
               /\ StandsAt(q, skip, cipher) => U16(q, skip + 1) = hello.cipher
               /\ StandsAt(q, skip, size) => U16(q, skip + 1) = total
    <2> HIDE DEF total
    <2>1. 771 \in Nat
      OBVIOUS
    <2> QED BY <1>1, <2>1, U16Read
  <1>4. /\ random \in Seq(Nat) /\ Len(random) = 32
        /\ session \in Seq(Nat) /\ Len(session) = sid
    <2> HIDE DEF sid
    <2> DEFINE n == 32
    <2>1. n \in Nat /\ random \in [1..n -> Nat] /\ session \in [1..sid -> Nat]
      OBVIOUS
    <2> HIDE DEF random, session, n
    <2>2. random \in Seq(Nat) /\ Len(random) = n
      BY <2>1, FunctionIsSeq
    <2>3. session \in Seq(Nat) /\ Len(session) = sid
      BY <1>1, <2>1, FunctionIsSeq
    <2> QED BY <2>2, <2>3 DEF n
  <1>5. /\ id \in Seq(Nat) /\ Len(id) = 1 /\ id[1] = sid
        /\ compression \in Seq(Nat) /\ Len(compression) = 1
    <2> HIDE DEF sid
    <2>1. 0 \in Nat
      OBVIOUS
    <2> QED BY <1>1, <2>1
  <1>6. list \in Seq(Nat)
    <2> HIDE DEF sent
    <2> QED BY <1>1, ExtensionsEncoded
  <1> HIDE DEF sent, legacy, random, id, session, cipher, compression, size, list,
              total, p, sid
  <1>7. /\ Len(p) = 40 + sid + total
        /\ StandsAt(p, 0, legacy) /\ StandsAt(p, 34, id)
        /\ StandsAt(p, 35 + sid, cipher)
        /\ StandsAt(p, 38 + sid, size) /\ StandsAt(p, 40 + sid, list)
    <2> DEFINE before3 == Len(legacy) + Len(random)
               before5 == before3 + Len(id) + Len(session)
               before7 == before5 + Len(cipher) + Len(compression)
    <2>1. InRow(Nat, p, legacy, random, id, session, cipher, compression, size, list)
      BY <1>2, <1>3, <1>4, <1>5, <1>6 DEF InRow
    <2>2. /\ Len(p) = before7 + Len(size) + Len(list)
          /\ StandsAt(p, 0, legacy) /\ StandsAt(p, before3, id)
          /\ StandsAt(p, before5, cipher)
          /\ StandsAt(p, before7, size) /\ StandsAt(p, before7 + Len(size), list)
      BY <2>1, PlacedParts
    <2>3. before3 = 34 /\ before5 = 35 + sid
      BY <1>1, <1>3, <1>4, <1>5
    <2>4. before7 = 38 + sid
      BY <1>1, <1>3, <1>4, <1>5
    <2>5. Len(size) = 2 /\ Len(list) = total /\ (38 + sid) + 2 = 40 + sid
      BY <1>1, <1>3 DEF total
    <2> HIDE DEF before3, before5, before7
    <2> QED BY <2>2, <2>3, <2>4, <2>5
  <1>8. /\ U16(p, 1) = 771 /\ p[35] = sid /\ U16(p, 39 + sid) = total
        /\ U16(p, 36 + sid) = hello.cipher
    <2>1. /\ 0 \in Nat /\ 0 + 1 = 1 /\ 38 + sid \in Nat
          /\ (38 + sid) + 1 = 39 + sid /\ 35 + sid \in Nat
          /\ (35 + sid) + 1 = 36 + sid
      BY <1>1
    <2>2. /\ U16(p, 0 + 1) = 771 /\ U16(p, (38 + sid) + 1) = total
          /\ U16(p, (35 + sid) + 1) = hello.cipher
      BY <1>3, <1>7, <2>1
    <2>3. p[34 + 1] = id[1]
      <3>1. 1 \in 1..Len(id)
        BY <1>5
      <3> QED BY <1>7, <3>1 DEF StandsAt
    <2>4. p[35] = sid
      BY <1>5, <2>3
    <2> QED BY <2>1, <2>2, <2>4
  <1> DEFINE fixed == 35 + p[35] + 5
             length == U16(p, fixed - 1)
  <1>9. /\ fixed = 40 + sid /\ fixed - 1 = 39 + sid /\ fixed - 4 = 36 + sid
        /\ length = total
    <2>1. fixed = 40 + sid /\ fixed - 1 = 39 + sid /\ fixed - 4 = 36 + sid
      BY <1>1, <1>8
    <2> QED BY <1>8, <2>1
  <1> DEFINE N == Len(sent)
             all == Extensions(p, fixed, length)
             types == [i \in DOMAIN all |-> all[i].type]
             selecting == {i \in DOMAIN all : all[i].type = SupportedVersions
                                              /\ all[i].length = 2}
             last == CHOOSE i \in selecting : \A k \in selecting : k <= i
             selects == {k \in DOMAIN sent : sent[k][1] = 43}
             marks == {k \in DOMAIN sent : ~is_grease(sent[k][1])}
             shown == Kept(sent, marks)
  <1>10. /\ N \in Nat /\ DOMAIN sent = 1..N /\ DOMAIN all = 1..N
        /\ \A n \in 1..N : Read(p, all[n], sent[n])
    <2>1. fixed \in Nat /\ sent \in Seq(Short \X Seq(Octet))
          /\ StandsAt(p, fixed, EncodedExtensions(sent))
          /\ length = Len(EncodedExtensions(sent))
      <3> HIDE DEF fixed, length
      <3>1. fixed = 40 + sid /\ length = total /\ fixed \in Nat
        BY <1>1, <1>9
      <3>2. StandsAt(p, fixed, list)
        BY <1>7, <3>1
      <3> QED BY <1>1, <3>1, <3>2 DEF list, total
    <2> HIDE DEF fixed, length
    <2> QED BY <2>1, ExtensionsRead
  <1> HIDE DEF N, all
  <1>11. \A n \in 1..N : all[n].type = sent[n][1]
                          /\ all[n].length = Len(sent[n][2])
    BY <1>10 DEF Read
  <1>12. \A n \in selects : sent[n][2] = <<3, 4>>
    BY DEF ServerHello, SupportedVersions, sent
  <1>13. selecting = selects
    <2>1. \A n \in selects : Len(sent[n][2]) = 2
      <3>1. Len(<<3, 4>>) = 2
        OBVIOUS
      <3> HIDE DEF selects
      <3> QED BY <1>12, <3>1
    <2> QED BY <1>10, <1>11, <2>1 DEF SupportedVersions
  <1>14. ASSUME selects # {} PROVE U16(p, all[last].at) = 772
    <2>1. IsFiniteSet(selects) /\ \A n \in selects : n \in Int
      <3>1. IsFiniteSet(1..N) /\ selects \in SUBSET (1..N)
        BY <1>10, FS_Interval
      <3>2. \A n \in selects : n \in Int
        BY <1>10
      <3> HIDE DEF selects
      <3> QED BY <3>1, <3>2, FS_Subset
    <2> HIDE DEF selecting, selects
    <2>2. \E i \in selects : \A k \in selects : k <= i
      BY <1>14, <2>1, HasGreatest
    <2>3. last \in selects
      BY <1>13, <2>2
    <2> HIDE DEF last
    <2>4. Read(p, all[last], sent[last]) /\ sent[last][2] = <<3, 4>>
      BY <1>10, <1>12, <2>3 DEF selects
    <2>5. PICK from \in Nat : /\ all[last].at = from + 1
                              /\ StandsAt(p, from, <<3, 4>>)
      BY <2>4 DEF Read
    <2>6. p[from + 1] = 3 /\ p[from + 2] = 4 /\ (from + 1) + 1 = from + 2
      <3> DEFINE v == <<3, 4>>
      <3>1. Len(v) = 2 /\ v[1] = 3 /\ v[2] = 4 /\ StandsAt(p, from, v)
        BY <2>5
      <3> HIDE DEF v
      <3> QED BY <3>1 DEF StandsAt
    <2> QED BY <2>5, <2>6 DEF U16
  <1>15. types = [n \in 1..N |-> sent[n][1]]
    BY <1>10, <1>11
  <1>16. marks = {i \in DOMAIN types : ~is_grease(types[i])}
    BY <1>10, <1>15
  <1> DEFINE in == parse_server_hello(p)
             version == IF selecting = {} THEN 0 ELSE U16(p, all[last].at)
             kept == Kept(types, marks)
             id4 == U16(p, fixed - 4)
  <1>17. in = Ja4SInput(771, version, id4, kept)
    <2> DEFINE kept1 == Kept(types, {i \in DOMAIN types : ~is_grease(types[i])})
    <2>1. ~(Len(p) < 40 \/ Len(p) < fixed \/ Len(p) - fixed < length)
      BY <1>1, <1>7, <1>9
    <2>2. in = Ja4SInput(U16(p, 1),
                 IF selecting = {} THEN 0 ELSE U16(p, all[last].at), id4, kept1)
      BY <2>1, Zenon DEF parse_server_hello, all
    <2>3. kept1 = kept
      BY <1>16
    <2> HIDE DEF kept, kept1, selecting, last, id4
    <2> QED BY <1>8, <2>2, <2>3
  <1>18. id4 = hello.cipher
    <2> HIDE DEF fixed
    <2> QED BY <1>8, <1>9
  <1> HIDE DEF in, id4
  <1>19. version = IF selects = {} THEN 0 ELSE 772
    <2> HIDE DEF selecting, selects, last
    <2> QED BY <1>13, <1>14
  <1>20. kept = [k \in DOMAIN shown |-> shown[k][1]] /\ Len(kept) = Len(shown)
    <2> DEFINE at == Ascending(marks)
               M == Cardinality(marks)
    <2>1. sent \in Seq(Short \X Seq(Octet)) /\ types \in Seq(Short)
      <3>1. \A n \in 1..N : sent[n] \in Short \X Seq(Octet)
        BY <1>1, <1>10, ElementOfSeq
      <3>2. types \in [1..N -> Short]
        BY <1>15, <3>1
      <3> HIDE DEF types
      <3> QED BY <1>1, <1>10, <3>2, FunctionIsSeq
    <2>2. \A i \in marks : i \in DOMAIN sent /\ i \in DOMAIN types
      BY <1>10, <1>15
    <2> HIDE DEF types, marks
    <2>3. /\ at \in [1..M -> marks] /\ DOMAIN shown = 1..M /\ Len(shown) = M
          /\ \A k \in 1..M : shown[k] = sent[at[k]]
      BY <2>1, <2>2, KeptElements
    <2>4. /\ DOMAIN kept = 1..M /\ Len(kept) = M
          /\ \A k \in 1..M : kept[k] = types[at[k]]
      BY <2>1, <2>2, KeptElements
    <2>5. \A i \in marks : types[i] = sent[i][1]
      BY <1>10, <1>15, <2>2
    <2> HIDE DEF at, M, shown
    <2>6. \A k \in 1..M : kept[k] = shown[k][1]
      BY <2>3, <2>4, <2>5
    <2>7. DOMAIN at = 1..M
      BY <2>3
    <2>8. kept = [k \in DOMAIN at |-> types[at[k]]]
      BY DEF Kept, at
    <2> HIDE DEF kept
    <2> QED BY <2>3, <2>4, <2>6, <2>7, <2>8
  <1> HIDE DEF version, kept, selects, shown
  <1>21. in = Ja4SInput(771, IF selects = {} THEN 0 ELSE 772, hello.cipher,
                        [k \in DOMAIN shown |-> shown[k][1]])
    BY <1>17, <1>18, <1>19, <1>20
  <1> QED BY <1>20, <1>21 DEF sent, p, in, selects, shown, marks

LEMMA VersionTags == version_tag(772) = "13" /\ version_tag(771) = "12"
  <1> DEFINE a == 772
             b == 771
             c == 770
             d == 769
             e == 768
  <1>1. /\ a # b /\ a # c /\ a # d /\ a # e
        /\ b # c /\ b # d /\ b # e
    OBVIOUS
  <1>2. \A v : version_tag(v) = CASE v = a -> "13"
                                  [] v = b -> "12"
                                  [] v = c -> "11"
                                  [] v = d -> "10"
                                  [] v = e -> "s3"
                                  [] OTHER -> "00"
    BY Zenon DEF version_tag
  <1> HIDE DEF a, b, c, d, e
  <1>3. version_tag(a) = "13"
    BY <1>1, <1>2, Zenon
  <1>4. version_tag(b) = "12"
    BY <1>1, <1>2, Zenon
  <1> QED BY <1>3, <1>4 DEF a, b

\* The fingerprints are those of the ServerHello that was settled on, and of
\* the certificate.
LEMMA PrintsRead ==
    ASSUME NEW hellos \in Seq(ServerHello), hellos # <<>>, NEW session,
           session.certificate \in Certificate
    PROVE  LET sent == hellos[Len(hellos)].extensions
               selects == {k \in DOMAIN sent : sent[k][1] = 43}
               shown == Kept(sent, {k \in DOMAIN sent : ~is_grease(sent[k][1])})
               encoded == [n \in DOMAIN hellos |-> Encoded(hellos[n])]
               prints == fill_fingerprints(encoded, session)
               Fitting(oids) ==
                   Cardinality({k \in DOMAIN oids : oids[k].length \in 1..127})
           IN  /\ sent # <<>> =>
                      /\ prints.ja4s.extensions = [k \in DOMAIN shown |-> shown[k][1]]
                      /\ prints.ja4s.count
                            = IF Len(shown) > 99 THEN 99 ELSE Len(shown)
                      /\ prints.ja4s.version = IF selects = {} THEN "12" ELSE "13"
                      /\ prints.ja4s.cipher = session.cipher
               /\ [n \in 1..3 |-> Len(prints.ja4x[n])]
                     = <<Fitting(session.certificate.issuer),
                         Fitting(session.certificate.subject),
                         Fitting(session.certificate.extensions)>>
  <1> DEFINE N == Len(hellos)
             hello == hellos[N]
             sent == hello.extensions
             selects == {k \in DOMAIN sent : sent[k][1] = 43}
             shown == Kept(sent, {k \in DOMAIN sent : ~is_grease(sent[k][1])})
             types == [k \in DOMAIN shown |-> shown[k][1]]
             encoded == [n \in DOMAIN hellos |-> Encoded(hellos[n])]
             prints == fill_fingerprints(encoded, session)
             Fitting(oids) ==
                 Cardinality({k \in DOMAIN oids : oids[k].length \in 1..127})
  <1>1. hello \in ServerHello /\ encoded[Len(encoded)] = Encoded(hello)
    <2>1. N \in Nat /\ N # 0 /\ DOMAIN hellos = 1..N
      BY LenProperties, EmptySeq
    <2>2. hello \in ServerHello
      BY <2>1, ElementOfSeq
    <2> HIDE DEF N
    <2> DEFINE T == {Encoded(hellos[n]) : n \in 1..N}
    <2>3. encoded \in [1..N -> T] /\ encoded[N] = Encoded(hello)
      BY <2>1
    <2> HIDE DEF encoded, T
    <2>4. Len(encoded) = N
      BY <2>1, <2>3, FunctionIsSeq
    <2> QED BY <2>2, <2>3, <2>4
  <1> HIDE DEF N, hello, encoded
  <1> DEFINE in == [parse_server_hello(Encoded(hello)) EXCEPT !.cipher_id = session.cipher]
             ja4s == compute_ja4s(in, session.alpn)
             ja4x == compute_ja4x(session.certificate)
  <1>2. prints.ja4s = ja4s /\ prints.ja4x = ja4x
    <2> HIDE DEF ja4s, ja4x
    <2>1. prints = [ja4s |-> ja4s, ja4x |-> ja4x]
      BY <1>1, Zenon DEF fill_fingerprints, msg_capture_cb, ja4s, ja4x
    <2> HIDE DEF prints
    <2> QED BY <2>1
  <1>3. ASSUME sent # <<>>
        PROVE  /\ ja4s.extensions = types
               /\ ja4s.count = IF Len(shown) > 99 THEN 99 ELSE Len(shown)
               /\ ja4s.version = IF selects = {} THEN "12" ELSE "13"
               /\ ja4s.cipher = session.cipher
    <2> DEFINE v == IF selects = {} THEN 0 ELSE 772
    <2>1. /\ parse_server_hello(Encoded(hello)) = Ja4SInput(771, v, hello.cipher, types)
          /\ Len(types) = Len(shown)
      BY <1>1, <1>3, HelloRead, ZenonT(60)
    <2> HIDE DEF types, shown, selects, v
    <2>2. /\ in.legacy_version = 771 /\ in.negotiated_version = v
          /\ in.cipher_id = session.cipher /\ in.extension_types = types
      BY <2>1 DEF Ja4SInput
    <2> HIDE DEF in
    <2>3. /\ ja4s.version = version_tag(IF in.negotiated_version # 0
                 THEN in.negotiated_version ELSE in.legacy_version)
          /\ ja4s.count = two_digits(Len(in.extension_types))
          /\ ja4s.cipher = in.cipher_id /\ ja4s.extensions = in.extension_types
      BY Zenon DEF compute_ja4s
    <2> HIDE DEF ja4s
    <2>4. ja4s.count = IF Len(shown) > 99 THEN 99 ELSE Len(shown)
      BY <2>1, <2>2, <2>3 DEF two_digits
    <2>5. version_tag(772) = "13" /\ version_tag(771) = "12"
      BY VersionTags
    <2>6. ja4s.version = IF selects = {} THEN "12" ELSE "13"
      <3>1. CASE selects = {}
        <4>1. v = 0
          BY <3>1 DEF v
        <4> QED BY <2>2, <2>3, <2>5, <3>1, <4>1
      <3>2. CASE selects # {}
        <4>1. v = 772 /\ 772 # 0
          BY <3>2 DEF v
        <4> QED BY <2>2, <2>3, <2>5, <3>2, <4>1
      <3> QED BY <3>1, <3>2
    <2> QED BY <2>2, <2>3, <2>4, <2>6
  <1>4. ASSUME NEW oids \in Seq(Oid)
        PROVE  Len(extract_name_oids(oids)) = Fitting(oids)
    <2> DEFINE S == {i \in DOMAIN oids : oids[i].length > 0 /\ oids[i].length < 128}
               kept == Kept(oids, S)
               M == Cardinality(S)
               named == [i \in DOMAIN kept |-> kept[i].oid]
    <2>1. S = {k \in DOMAIN oids : oids[k].length \in 1..127}
      <3>1. \A k \in DOMAIN oids : oids[k].length \in Int
        <4>1. \A k \in DOMAIN oids : oids[k] \in Oid
          BY LenProperties, ElementOfSeq
        <4> QED BY <4>1 DEF Oid
      <3>2. \A n \in Int : n > 0 /\ n < 128 <=> n \in 1..127
        OBVIOUS
      <3> QED BY <3>1, <3>2, Zenon
    <2>2. \A i \in S : i \in DOMAIN oids
      OBVIOUS
    <2>3. extract_name_oids(oids) = named
      BY DEF extract_name_oids
    <2>4. Fitting(oids) = M
      BY <2>1
    <2> HIDE DEF S
    <2>5. M \in Nat /\ DOMAIN kept = 1..M
      BY <2>2, KeptElements
    <2> HIDE DEF kept, M, Fitting
    <2> DEFINE T == {kept[i].oid : i \in 1..M}
    <2>6. named \in [1..M -> T]
      BY <2>5
    <2> HIDE DEF named, T
    <2>7. Len(named) = M
      BY <2>5, <2>6, FunctionIsSeq
    <2> QED BY <2>3, <2>4, <2>7
  <1>5. [n \in 1..3 |-> Len(ja4x[n])]
            = <<Fitting(session.certificate.issuer),
                Fitting(session.certificate.subject),
                Fitting(session.certificate.extensions)>>
    <2> DEFINE a == extract_name_oids(session.certificate.issuer)
               b == extract_name_oids(session.certificate.subject)
               c == extract_name_oids(session.certificate.extensions)
    <2>1. /\ Len(a) = Fitting(session.certificate.issuer)
          /\ Len(b) = Fitting(session.certificate.subject)
          /\ Len(c) = Fitting(session.certificate.extensions)
      <3> HIDE DEF Fitting
      <3> QED BY <1>4 DEF Certificate
    <2>2. ja4x = <<a, b, c>>
      BY Zenon DEF compute_ja4x
    <2> HIDE DEF Fitting, a, b, c, ja4x
    <2>3. [n \in 1..3 |-> Len(ja4x[n])] = <<Len(a), Len(b), Len(c)>>
      BY <2>2
    <2> QED BY <2>1, <2>3
  <1> HIDE DEF ja4s, ja4x, prints, Fitting, types, shown, selects
  <1>6. /\ sent # <<>> =>
               /\ prints.ja4s.extensions = types
               /\ prints.ja4s.count
                     = IF Len(shown) > 99 THEN 99 ELSE Len(shown)
               /\ prints.ja4s.version = IF selects = {} THEN "12" ELSE "13"
               /\ prints.ja4s.cipher = session.cipher
        /\ [n \in 1..3 |-> Len(prints.ja4x[n])]
              = <<Fitting(session.certificate.issuer),
                  Fitting(session.certificate.subject),
                  Fitting(session.certificate.extensions)>>
    BY <1>2, <1>3, <1>5
  <1> QED BY <1>6 DEF N, hello, encoded, prints, Fitting, types, shown, selects
===============================================================================
