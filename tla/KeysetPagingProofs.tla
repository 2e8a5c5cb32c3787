---------------------------- MODULE KeysetPagingProofs ----------------------------
(***************************************************************************)
(* That an export resumed from cursor to cursor is the export: for every   *)
(* set of columns, sort, page size and data whose keys tell rows apart.    *)
(***************************************************************************)
EXTENDS KeysetPaging, FiniteSetTheorems, FunctionTheorems, SequenceTheorems,
        WellFoundedInduction, TLAPS

-----------------------------------------------------------------------------
(* Ranks                                                                    *)

(* R, a set of pairs, is a strict total order on S.                         *)
TotalOn(R, S) ==
  /\ \A x \in S : <<x, x>> \notin R
  /\ \A x, y, z \in S : <<x, y>> \in R /\ <<y, z>> \in R => <<x, z>> \in R
  /\ \A x, y \in S : x = y \/ <<x, y>> \in R \/ <<y, x>> \in R

Preceding(S, R, x) == {y \in S : <<y, x>> \in R}

(* What comes earlier has fewer elements before it.                         *)
LEMMA RankGrows ==
  ASSUME NEW S, NEW R, NEW x \in S, NEW y \in S,
         IsFiniteSet(S), TotalOn(R, S), <<x, y>> \in R
  PROVE  /\ Cardinality(Preceding(S, R, x)) \in Nat
         /\ Cardinality(Preceding(S, R, y)) \in Nat
         /\ Cardinality(Preceding(S, R, x)) < Cardinality(Preceding(S, R, y))
  <1> DEFINE A == Preceding(S, R, x)
             B == Preceding(S, R, y)
  <1>1. A \subseteq S /\ B \subseteq S
    BY DEF Preceding
  <1>2. A \subseteq B /\ x \in B /\ x \notin A
    BY DEF Preceding, TotalOn
  <1>3. IsFiniteSet(A) /\ IsFiniteSet(B)
    BY <1>1, FS_Subset
  <1>4. Cardinality(A) \in Nat /\ Cardinality(B) \in Nat
    BY <1>3, FS_CardinalityType
  <1>5. Cardinality(A) <= Cardinality(B) /\ Cardinality(A) # Cardinality(B)
    BY <1>2, <1>3, FS_Subset
  <1> QED
    BY <1>4, <1>5

(* Elements of one rank are one element.                                    *)
LEMMA RankTells ==
  ASSUME NEW S, NEW R, NEW x \in S, NEW y \in S, IsFiniteSet(S), TotalOn(R, S),
         Cardinality(Preceding(S, R, x)) = Cardinality(Preceding(S, R, y))
  PROVE  x = y
  <1>1. CASE <<x, y>> \in R
    BY <1>1, RankGrows
  <1>2. CASE <<y, x>> \in R
    BY <1>2, RankGrows
  <1> QED
    BY <1>1, <1>2 DEF TotalOn

(* A finite set in a total order has one element of each rank, so that      *)
(* Ranked lists every element once, ascending.                              *)
LEMMA RankedIsSorted ==
  ASSUME NEW S, NEW R, IsFiniteSet(S), TotalOn(R, S)
  PROVE  /\ Cardinality(S) \in Nat
         /\ Ranked(S, R) \in [1..Cardinality(S) -> S]
         /\ \A x \in S : \E k \in 1..Cardinality(S) : Ranked(S, R)[k] = x
         /\ \A i, j \in 1..Cardinality(S) : i < j => <<Ranked(S, R)[i], Ranked(S, R)[j]>> \in R
  <1> DEFINE n == Cardinality(S)
             rank == [x \in S |-> Cardinality(Preceding(S, R, x)) + 1]
             s == Ranked(S, R)
  <1>1. n \in Nat
    BY FS_CardinalityType
  <1>2. ASSUME NEW x \in S
        PROVE  Cardinality(Preceding(S, R, x)) \in Nat /\ Cardinality(Preceding(S, R, x)) < n
    <2>1. Preceding(S, R, x) \subseteq S /\ x \notin Preceding(S, R, x)
      BY DEF Preceding, TotalOn
    <2>2. IsFiniteSet(Preceding(S, R, x)) /\ Cardinality(Preceding(S, R, x)) <= n
          /\ Cardinality(Preceding(S, R, x)) # n
      BY <2>1, FS_Subset
    <2>3. Cardinality(Preceding(S, R, x)) \in Nat
      BY <2>2, FS_CardinalityType
    <2> QED
      BY <1>1, <2>2, <2>3
  <1>3. rank \in [S -> 1..n]
    BY <1>1, <1>2
  <1>4. \A x, y \in S : rank[x] = rank[y] => x = y
    BY <1>2, RankTells
  <1>5. rank \in Surjection(S, 1..n)
    <2>1. rank \in Injection(S, 1..n)
      <3> HIDE DEF rank, n
      <3> QED
        BY <1>3, <1>4, Fun_IsInj
    <2>2. IsFiniteSet(1..n) /\ Cardinality(1..n) = n
      BY <1>1, FS_Interval
    <2> HIDE DEF rank
    <2> QED
      BY <2>1, <2>2, FS_Injection
  <1>6. \A k \in 1..n : \E x \in S : rank[x] = k
    <2> HIDE DEF rank, n
    <2> QED
      BY <1>5, Fun_SurjectionProperties
  <1>7. ASSUME NEW k \in 1..n
        PROVE  s[k] \in S /\ Cardinality(Preceding(S, R, s[k])) = k - 1
    <2>1. PICK x \in S : rank[x] = k
      BY <1>6
    <2>2. Cardinality(Preceding(S, R, x)) = k - 1
      BY <1>1, <1>2, <2>1
    <2>3. Cardinality({y \in S : <<y, x>> \in R}) = k - 1
      BY <2>2 DEF Preceding
    <2>4. s[k] = CHOOSE z \in S : Cardinality({y \in S : <<y, z>> \in R}) = k - 1
      BY DEF Ranked
    <2>5. s[k] \in S /\ Cardinality({y \in S : <<y, s[k]>> \in R}) = k - 1
      BY <2>3, <2>4
    <2> QED
      BY <2>5 DEF Preceding
  <1>8. s \in [1..n -> S]
    BY <1>7 DEF Ranked
  <1>9. ASSUME NEW x \in S PROVE \E k \in 1..n : s[k] = x
    <2>1. rank[x] \in 1..n
      BY <1>3
    <2>2. s[rank[x]] \in S /\ Cardinality(Preceding(S, R, s[rank[x]])) = rank[x] - 1
      BY <1>7, <2>1
    <2>3. Cardinality(Preceding(S, R, s[rank[x]])) = Cardinality(Preceding(S, R, x))
      BY <1>2, <2>2
    <2> QED
      BY <2>1, <2>2, <2>3, RankTells
  <1>10. ASSUME NEW i \in 1..n, NEW j \in 1..n, i < j PROVE <<s[i], s[j]>> \in R
    <2>1. /\ s[i] \in S /\ Cardinality(Preceding(S, R, s[i])) = i - 1
          /\ s[j] \in S /\ Cardinality(Preceding(S, R, s[j])) = j - 1
      BY <1>7
    <2>2. s[i] # s[j]
      BY <1>1, <1>10, <2>1
    <2>3. CASE <<s[j], s[i]>> \in R
      <3>1. Cardinality(Preceding(S, R, s[j])) < Cardinality(Preceding(S, R, s[i]))
        BY <2>1, <2>3, RankGrows
      <3> QED
        BY <1>1, <1>10, <2>1, <3>1
    <2> QED
      BY <2>1, <2>2, <2>3 DEF TotalOn
  <1> QED
    BY <1>1, <1>8, <1>9, <1>10

(* An ascending list of all of S is that one.                               *)
LEMMA RankedIsUnique ==
  ASSUME NEW S, NEW R, NEW m \in Nat, NEW f \in [1..m -> S],
         IsFiniteSet(S), TotalOn(R, S),
         \A x \in S : \E k \in 1..m : f[k] = x,
         \A i, j \in 1..m : i < j => <<f[i], f[j]>> \in R
  PROVE  m = Cardinality(S) /\ f = Ranked(S, R)
  <1>1. ASSUME NEW i \in 1..m, NEW j \in 1..m, f[i] = f[j] PROVE i = j
    <2>1. f[i] \in S /\ <<f[i], f[j]>> \notin R /\ <<f[j], f[i]>> \notin R
      BY <1>1 DEF TotalOn
    <2> QED
      BY <2>1
  <1>2. m = Cardinality(S)
    <2>1. f \in Bijection(1..m, S)
      BY <1>1, Fun_IsBij, Fun_IsSurj
    <2>2. IsFiniteSet(1..m) /\ Cardinality(1..m) = m
      BY FS_Interval
    <2> QED
      BY <2>1, <2>2, FS_Bijection, Fun_ExistsBij
  <1>3. ASSUME NEW k \in 1..m
        PROVE  Cardinality(Preceding(S, R, f[k])) = k - 1
    <2> DEFINE g == [j \in 1..k - 1 |-> f[j]]
               P == Preceding(S, R, f[k])
    <2>1. ASSUME NEW j \in 1..k - 1 PROVE j \in 1..m /\ f[j] \in P
      BY DEF Preceding
    <2>2. ASSUME NEW y \in P PROVE \E j \in 1..k - 1 : f[j] = y
      <3>1. y \in S /\ <<y, f[k]>> \in R
        BY DEF Preceding
      <3>2. PICK j \in 1..m : f[j] = y
        BY <3>1
      <3>3. j # k
        BY <3>1, <3>2 DEF TotalOn
      <3>4. ~(k < j)
        <4>1. SUFFICES ASSUME k < j PROVE FALSE
          OBVIOUS
        <4>2. <<f[k], y>> \in R
          BY <3>2, <4>1
        <4>3. f[k] \in S
          OBVIOUS
        <4> QED
          BY <3>1, <4>2, <4>3 DEF TotalOn
      <3> QED
        BY <3>2, <3>3, <3>4
    <2>3. g \in [1..k - 1 -> P]
      BY <2>1
    <2>4. \A i, j \in 1..k - 1 : g[i] = g[j] => i = j
      BY <1>1, <2>1
    <2>5. \A y \in P : \E j \in 1..k - 1 : g[j] = y
      BY <2>2
    <2>6. g \in Bijection(1..k - 1, P)
      <3> HIDE DEF g, P
      <3> QED
        BY <2>3, <2>4, <2>5, Fun_IsBij, Fun_IsSurj
    <2>7. IsFiniteSet(1..k - 1) /\ Cardinality(1..k - 1) = k - 1
      BY FS_Interval
    <2> HIDE DEF g
    <2> QED
      BY <2>6, <2>7, FS_Bijection, Fun_ExistsBij
  <1>4. ASSUME NEW k \in 1..m PROVE f[k] = Ranked(S, R)[k]
    <2> DEFINE z == CHOOSE x \in S : Cardinality({y \in S : <<y, x>> \in R}) = k - 1
    <2>1. f[k] \in S /\ Cardinality({y \in S : <<y, f[k]>> \in R}) = k - 1
      BY <1>3 DEF Preceding
    <2>2. z \in S /\ Cardinality(Preceding(S, R, z)) = k - 1
      BY <2>1 DEF Preceding
    <2>3. f[k] = z
      <3> HIDE DEF z
      <3> QED
        BY <1>3, <2>1, <2>2, RankTells
    <2> QED
      BY <1>2, <2>3 DEF Ranked
  <1>5. Ranked(S, R) \in [1..m -> S]
    BY <1>2, RankedIsSorted
  <1> QED
    BY <1>2, <1>4, <1>5

(* What follows the n-th element, in the same order, is the rest.            *)
Following(S, R, n) == {y \in S : <<Ranked(S, R)[n], y>> \in R}
Within(R, A) == R \cap (A \X A)

(* What follows the n-th element, put in order, is the rest of the order.   *)
LEMMA RankedAfter ==
  ASSUME NEW S, NEW R, NEW n \in 1..Cardinality(S), IsFiniteSet(S), TotalOn(R, S)
  PROVE  LET A == Following(S, R, n)
         IN  /\ Cardinality(A) = Cardinality(S) - n
             /\ Ranked(A, Within(R, A)) = SubSeq(Ranked(S, R), n + 1, Cardinality(S))
  <1> DEFINE s == Ranked(S, R)
             L == Cardinality(S)
             t == SubSeq(s, n + 1, L)
             A == Following(S, R, n)
             Q == Within(R, A)
  <1>1. /\ L \in Nat /\ s \in [1..L -> S]
        /\ \A x \in S : \E k \in 1..L : s[k] = x
        /\ \A i, j \in 1..L : i < j => <<s[i], s[j]>> \in R
    BY RankedIsSorted
  <1> HIDE DEF s, L
  <1>2. n \in 1..L /\ A \subseteq S /\ \A y \in S : y \in A <=> <<s[n], y>> \in R
    BY DEF s, L, Following
  <1>same. \A x, y \in A : <<x, y>> \in Q <=> <<x, y>> \in R
    BY DEF Within
  <1> HIDE DEF A, Q
  <1>3. A \subseteq S /\ IsFiniteSet(A)
    BY <1>2, FS_Subset
  <1>4. TotalOn(Q, A)
    <2>1. \A x \in A : <<x, x>> \notin Q
      BY <1>3, <1>same DEF TotalOn
    <2>2. \A x, y, z \in A : <<x, y>> \in Q /\ <<y, z>> \in Q => <<x, z>> \in Q
      BY <1>3, <1>same DEF TotalOn
    <2>3. \A x, y \in A : x = y \/ <<x, y>> \in Q \/ <<y, x>> \in Q
      BY <1>3, <1>same DEF TotalOn
    <2> QED
      BY <2>1, <2>2, <2>3 DEF TotalOn
  <1>5. ASSUME NEW i \in n + 1..L PROVE s[i] \in A
    <2>1. i \in 1..L /\ n < i
      BY <1>1, <1>2
    <2> QED
      BY <1>1, <1>2, <2>1
  <1>6. t \in Seq(A) /\ Len(t) = L - n /\ \A i \in 1..L - n : t[i] = s[n + i]
    <2>1. n + 1 \in Int /\ L \in Int
      BY <1>1, <1>2
    <2>2. /\ t \in Seq(A)
          /\ Len(t) = IF n + 1 <= L THEN L - (n + 1) + 1 ELSE 0
          /\ \A i \in 1..L - (n + 1) + 1 : t[i] = s[n + 1 + i - 1]
      BY <1>5, <2>1, SubSeqProperties
    <2> HIDE DEF t
    <2> QED
      BY <1>1, <1>2, <2>2
  <1> HIDE DEF t
  <1>7. t \in [1..L - n -> A] /\ L - n \in Nat
    BY <1>1, <1>2, <1>6
  <1>8. ASSUME NEW y \in A PROVE \E k \in 1..L - n : t[k] = y
    <2>1. PICK k \in 1..L : s[k] = y
      BY <1>1, <1>3
    <2>2. <<s[n], s[k]>> \in R
      BY <1>2, <2>1
    <2>3. k # n
      BY <1>1, <1>2, <2>2 DEF TotalOn
    <2>4. ~(k < n)
      <3>1. SUFFICES ASSUME k < n PROVE FALSE
        OBVIOUS
      <3>2. <<s[k], s[n]>> \in R /\ s[k] \in S /\ s[n] \in S
        BY <1>1, <1>2, <3>1
      <3> QED
        BY <2>2, <3>2 DEF TotalOn
    <2>5. k - n \in 1..L - n /\ n + (k - n) = k
      BY <1>1, <1>2, <2>3, <2>4
    <2> QED
      BY <1>6, <2>1, <2>5
  <1>9. ASSUME NEW i \in 1..L - n, NEW j \in 1..L - n, i < j PROVE <<t[i], t[j]>> \in Q
    <2>1. n + i \in 1..L /\ n + j \in 1..L /\ n + i < n + j
      BY <1>1, <1>2, <1>9
    <2>2. <<t[i], t[j]>> \in R
      BY <1>1, <1>6, <2>1
    <2> QED
      BY <1>7, <1>same, <2>2
  <1>10. L - n = Cardinality(A) /\ t = Ranked(A, Q)
    <2>1. PICK m \in Nat : m = L - n
      BY <1>7
    <2>2. /\ t \in [1..m -> A]
          /\ \A x \in A : \E k \in 1..m : t[k] = x
          /\ \A i, j \in 1..m : i < j => <<t[i], t[j]>> \in Q
      BY <1>7, <1>8, <1>9, <2>1
    <2>3. m = Cardinality(A) /\ t = Ranked(A, Q)
      BY <1>3, <1>4, <2>2, RankedIsUnique, ZenonT(30)
    <2> QED
      BY <2>1, <2>3
  <1> QED
    BY <1>10 DEF t, s, L, A, Q

-----------------------------------------------------------------------------
(* Numbers                                                                  *)

(* A set of naturals has a least one: no finite set descends for ever.      *)
LEMMA LeastNatural ==
  ASSUME NEW K, K \subseteq Nat, NEW k0 \in K
  PROVE  \E k \in K : \A j \in K : k <= j
  <1> DEFINE L == {1..k : k \in {i \in K : i <= k0}}
  <1>1. IsFiniteSet(1..k0)
    BY FS_Interval
  <1>2. IsWellFoundedOn(StrictSubsetOrdering(1..k0), SUBSET (1..k0))
    BY <1>1, FS_StrictSubsetOrderingWellFounded, FS_FiniteSubsetsOfFinite
  <1>3. L \subseteq SUBSET (1..k0)
    OBVIOUS
  <1>4. 1..k0 \in L
    OBVIOUS
  <1>5. PICK x \in L : \A y \in L : ~(<<y, x>> \in StrictSubsetOrdering(1..k0))
    <2> HIDE DEF L
    <2> QED
      BY <1>2, <1>3, <1>4, WFMin
  <1>6. PICK k \in K : k <= k0 /\ x = 1..k
    OBVIOUS
  <1>7. ASSUME NEW j \in K, j < k PROVE FALSE
    <2>1. 1..j \in L
      BY <1>6, <1>7
    <2>2. ~(<<1..j, 1..k>> \in StrictSubsetOrdering(1..k0))
      BY <2>1, <1>5, <1>6
    <2>3. 1..j \subseteq 1..k0 /\ 1..k \subseteq 1..k0 /\ 1..j \subseteq 1..k
      BY <1>6, <1>7
    <2>4. k \in 1..k /\ k \notin 1..j
      BY <1>6, <1>7
    <2> QED
      BY <2>2, <2>3, <2>4 DEF StrictSubsetOrdering
  <1> QED
    BY <1>7

-----------------------------------------------------------------------------
(* Array.filter()                                                           *)

(* Pick(s, A) goes through the elements of s at the places in A.            *)
Goes(t, s, A, places) ==
  /\ places \in [1..Len(t) -> A]
  /\ \A i \in A : \E k \in 1..Len(t) : places[k] = i
  /\ \A j, k \in 1..Len(t) : j < k => places[j] < places[k]
  /\ \A k \in 1..Len(t) : t[k] = s[places[k]]

LEMMA PickProperties ==
  ASSUME NEW s, NEW A, Len(s) \in Nat, A \subseteq 1..Len(s)
  PROVE  /\ Len(Pick(s, A)) = Cardinality(A) /\ Cardinality(A) \in Nat
         /\ Pick(s, A) \in Seq(ToSet(Pick(s, A)))
         /\ \E places : Goes(Pick(s, A), s, A, places)
  <1> DEFINE R == {p \in A \X A : p[1] < p[2]}
             places == Ranked(A, R)
             n == Cardinality(A)
             t == Pick(s, A)
  <1>1. IsFiniteSet(A)
    <2>1. IsFiniteSet(1..Len(s))
      BY FS_Interval
    <2> QED
      BY <2>1, FS_Subset
  <1>same. \A i, j \in A : <<i, j>> \in R <=> i < j
    OBVIOUS
  <1>2. TotalOn(R, A)
    <2>1. A \subseteq Nat
      OBVIOUS
    <2> HIDE DEF R
    <2> QED
      BY <1>same, <2>1 DEF TotalOn
  <1> HIDE DEF R
  <1>3. /\ n \in Nat /\ places \in [1..n -> A]
        /\ \A i \in A : \E k \in 1..n : places[k] = i
        /\ \A i, j \in 1..n : i < j => <<places[i], places[j]>> \in R
    BY <1>1, <1>2, RankedIsSorted
  <1>4. t = [k \in 1..Len(places) |-> s[places[k]]]
    BY DEF Pick, R
  <1> HIDE DEF n, places, t
  <1>5. Len(places) = n
    BY <1>3
  <1>6. t \in Seq(ToSet(t)) /\ Len(t) = n
    BY <1>3, <1>4, <1>5 DEF ToSet
  <1>7. \A i, j \in 1..n : i < j => places[i] < places[j]
    BY <1>3, <1>same
  <1>8. Goes(t, s, A, places)
    BY <1>3, <1>4, <1>5, <1>6, <1>7 DEF Goes
  <1>9. \E q : Goes(t, s, A, q)
    BY <1>8
  <1> QED
    BY <1>3, <1>6, <1>9 DEF t, n

(* Keep(s, S) holds the elements of s that are in S, and no others.         *)
LEMMA KeepProperties ==
  ASSUME NEW T, NEW s \in Seq(T), NEW S
  PROVE  /\ Keep(s, S) \in Seq(T \cap S)
         /\ \A i \in 1..Len(s) : s[i] \in S =>
              \E k \in 1..Len(Keep(s, S)) : Keep(s, S)[k] = s[i]
  <1> DEFINE A == {i \in 1..Len(s) : s[i] \in S}
             t == Pick(s, A)
  <1>1. A \subseteq 1..Len(s) /\ \A i \in 1..Len(s) : i \in A <=> s[i] \in S
    OBVIOUS
  <1>2. Keep(s, S) = t
    BY DEF Keep
  <1> HIDE DEF A
  <1>len. Len(s) \in Nat
    OBVIOUS
  <1>3. t \in Seq(ToSet(t))
    BY <1>1, <1>len, PickProperties
  <1>4. PICK places : Goes(t, s, A, places)
    BY <1>1, <1>len, PickProperties
  <1>5. ASSUME NEW k \in 1..Len(t) PROVE t[k] \in T \cap S
    <2>1. places[k] \in A /\ t[k] = s[places[k]]
      BY <1>4 DEF Goes
    <2> QED
      BY <1>1, <2>1
  <1>6. t \in Seq(T \cap S)
    <2>1. t \in [1..Len(t) -> T \cap S] /\ Len(t) \in Nat
      <3>1. Len(t) \in Nat /\ t = [k \in 1..Len(t) |-> t[k]]
        BY <1>3
      <3> QED
        BY <1>5, <3>1
    <2> QED
      BY <2>1
  <1>7. \A i \in 1..Len(s) : s[i] \in S => \E k \in 1..Len(t) : t[k] = s[i]
    BY <1>1, <1>4 DEF Goes
  <1> QED
    BY <1>2, <1>6, <1>7

-----------------------------------------------------------------------------
(* ORDER BY                                                                 *)

(* What the items read of a row.                                            *)
Reads(items, r) ==
  \A i \in 1..Len(items) : items[i].dir \in {"ASC", "DESC"} /\ r[items[i].field] \in Values

(* NULLS LAST makes the values of a column a total order, either way.       *)
LEMMA LowerIsTotal ==
  ASSUME NEW u \in Values, NEW v \in Values, NEW w \in Values, NEW dir \in {"ASC", "DESC"}
  PROVE  /\ ~Lower(v, v, dir)
         /\ Lower(u, v, dir) /\ Lower(v, w, dir) => Lower(u, w, dir)
         /\ v = w \/ Lower(v, w, dir) \/ Lower(w, v, dir)
  BY NullAssumption DEF Lower, Values

(* No row comes before itself.                                              *)
LEMMA BeforeIsIrreflexive ==
  ASSUME NEW items, NEW r, Reads(items, r)
  PROVE  ~Before(r, r, items)
  BY LowerIsTotal DEF Before, Reads

(* The order by several items is transitive: the first item on which the    *)
(* outer rows differ is the first of the two.                               *)
LEMMA BeforeIsTransitive ==
  ASSUME NEW items, NEW r, NEW q, NEW t, Len(items) \in Nat,
         Reads(items, r), Reads(items, q), Reads(items, t),
         Before(r, q, items), Before(q, t, items)
  PROVE  Before(r, t, items)
  <1> DEFINE F(x, k) == x[items[k].field]
  <1>1. PICK i \in 1..Len(items) :
          /\ \A k \in 1..i - 1 : F(r, k) = F(q, k)
          /\ Lower(F(r, i), F(q, i), items[i].dir)
    BY DEF Before
  <1>2. PICK j \in 1..Len(items) :
          /\ \A k \in 1..j - 1 : F(q, k) = F(t, k)
          /\ Lower(F(q, j), F(t, j), items[j].dir)
    BY DEF Before
  <1>3. \A k \in 1..Len(items) :
          F(r, k) \in Values /\ F(q, k) \in Values /\ F(t, k) \in Values
          /\ items[k].dir \in {"ASC", "DESC"}
    BY DEF Reads
  <1> DEFINE m == IF i <= j THEN i ELSE j
  <1>4. m \in 1..Len(items) /\ m <= i /\ m <= j
    OBVIOUS
  <1>5. \A k \in 1..m - 1 : F(r, k) = F(t, k)
    BY <1>1, <1>2
  <1>6. Lower(F(r, m), F(t, m), items[m].dir)
    <2>1. CASE i < j
      <3>1. m = i /\ F(q, i) = F(t, i)
        BY <1>2, <2>1
      <3> QED
        BY <1>1, <3>1
    <2>2. CASE i = j
      <3>1. m = i
        BY <2>2
      <3> HIDE DEF F, m
      <3> QED
        BY <1>1, <1>2, <1>3, <2>2, <3>1, LowerIsTotal
    <2>3. CASE j < i
      <3>1. m = j /\ F(r, j) = F(q, j)
        BY <1>1, <2>3
      <3> QED
        BY <1>2, <3>1
    <2> QED
      BY <2>1, <2>2, <2>3
  <1> QED
    BY <1>4, <1>5, <1>6 DEF Before

(* Rows that differ in a column of the order are told apart by it.          *)
LEMMA BeforeTells ==
  ASSUME NEW items, NEW r, NEW q, NEW c \in Fields(items), Len(items) \in Nat,
         Reads(items, r), Reads(items, q), r[c] # q[c]
  PROVE  Before(r, q, items) \/ Before(q, r, items)
  <1> DEFINE K == {i \in 1..Len(items) : r[items[i].field] # q[items[i].field]}
  <1>1. PICK k0 \in K : TRUE
    BY DEF Fields
  <1>2. PICK k \in K : \A j \in K : k <= j
    <2>1. K \subseteq Nat
      OBVIOUS
    <2> HIDE DEF K
    <2> QED
      BY <1>1, <2>1, LeastNatural
  <1>3. ASSUME NEW j \in 1..k - 1 PROVE r[items[j].field] = q[items[j].field]
    <2>1. j \in 1..Len(items) /\ ~(k <= j)
      OBVIOUS
    <2> QED
      BY <1>2, <2>1
  <1>4. k \in 1..Len(items) /\ r[items[k].field] # q[items[k].field]
    OBVIOUS
  <1>5. \/ Lower(r[items[k].field], q[items[k].field], items[k].dir)
        \/ Lower(q[items[k].field], r[items[k].field], items[k].dir)
    BY <1>4, LowerIsTotal DEF Reads
  <1> QED
    BY <1>3, <1>4, <1>5 DEF Before

(* The items tell any two of the rows apart.                                *)
Tells(items, rows) ==
  /\ Len(items) \in Nat /\ \A r \in rows : Reads(items, r)
  /\ IsFiniteSet(rows)
  /\ \A r, q \in rows : (\A c \in Fields(items) : r[c] = q[c]) => r = q

Pairs(rows, items) == {p \in rows \X rows : Before(p[1], p[2], items)}

(* Items that tell any two rows apart order the rows totally.               *)
LEMMA TellsIsTotal ==
  ASSUME NEW items, NEW rows, Tells(items, rows)
  PROVE  TotalOn(Pairs(rows, items), rows)
  <1>1. \A r, q \in rows : <<r, q>> \in Pairs(rows, items) <=> Before(r, q, items)
    BY DEF Pairs
  <1>2. Len(items) \in Nat /\ \A r \in rows : Reads(items, r)
    BY DEF Tells
  <1>3. \A r \in rows : ~Before(r, r, items)
    BY <1>2, BeforeIsIrreflexive
  <1>4. \A r, q, t \in rows :
          Before(r, q, items) /\ Before(q, t, items) => Before(r, t, items)
    BY <1>2, BeforeIsTransitive
  <1>5. ASSUME NEW r \in rows, NEW q \in rows, r # q
        PROVE  Before(r, q, items) \/ Before(q, r, items)
    <2>1. PICK c \in Fields(items) : r[c] # q[c]
      BY <1>5 DEF Tells
    <2> QED
      BY <1>2, <2>1, BeforeTells
  <1> QED
    BY <1>1, <1>3, <1>4, <1>5 DEF TotalOn

(* ORDER BY returns every row once, ascending.                              *)
LEMMA SortedProperties ==
  ASSUME NEW items, NEW rows, Tells(items, rows)
  PROVE  /\ Cardinality(rows) \in Nat
         /\ Sorted(rows, items) \in Seq(rows)
         /\ Len(Sorted(rows, items)) = Cardinality(rows)
         /\ \A i, j \in 1..Cardinality(rows) :
              i < j => Before(Sorted(rows, items)[i], Sorted(rows, items)[j], items)
  <1> DEFINE s == Ranked(rows, Pairs(rows, items))
             n == Cardinality(rows)
  <1>1. Sorted(rows, items) = s
    BY DEF Sorted, Pairs
  <1>2. /\ n \in Nat /\ s \in [1..n -> rows]
        /\ \A i, j \in 1..n : i < j => <<s[i], s[j]>> \in Pairs(rows, items)
    BY TellsIsTotal, RankedIsSorted DEF Tells
  <1> HIDE DEF s, n
  <1>3. \A i, j \in 1..n : i < j => Before(s[i], s[j], items)
    BY <1>2 DEF Pairs
  <1>4. s \in Seq(rows) /\ Len(s) = n
    BY <1>2
  <1> QED
    BY <1>1, <1>2, <1>3, <1>4 DEF n

(* The rows after the n-th are the rest of the result.                      *)
LEMMA SortedAfter ==
  ASSUME NEW items, NEW rows, NEW A, NEW n \in 1..Cardinality(rows),
         Tells(items, rows), A = {r \in rows : Before(Sorted(rows, items)[n], r, items)}
  PROVE  /\ Cardinality(A) = Cardinality(rows) - n
         /\ Sorted(A, items) = SubSeq(Sorted(rows, items), n + 1, Cardinality(rows))
  <1> DEFINE R == Pairs(rows, items)
             Q == Pairs(A, items)
  <1>1. Sorted(rows, items) = Ranked(rows, R) /\ Sorted(A, items) = Ranked(A, Q)
    BY DEF Sorted, Pairs
  <1>2. TotalOn(R, rows) /\ IsFiniteSet(rows)
    BY TellsIsTotal DEF Tells
  <1>3. Ranked(rows, R)[n] \in rows
    BY <1>2, RankedIsSorted
  <1>4. A = Following(rows, R, n)
    BY <1>1, <1>3 DEF Pairs, Following
  <1>5. Q = Within(R, A)
    BY <1>4 DEF Pairs, Within, Following
  <1> HIDE DEF R, Q
  <1> QED
    BY <1>1, <1>2, <1>4, <1>5, RankedAfter

-----------------------------------------------------------------------------
(* The cursor                                                               *)

Rows == [ColumnSet -> Values]
Items == [field : ColumnSet, dir : {"ASC", "DESC"}]

(* Items of columns read rows of columns.                                   *)
LEMMA ItemProperties ==
  ASSUME NEW items \in Seq(Items), NEW r \in Rows
  PROVE  Len(items) \in Nat /\ Reads(items, r)
  <1>1. ASSUME NEW i \in 1..Len(items)
        PROVE  items[i].dir \in {"ASC", "DESC"} /\ r[items[i].field] \in Values
    <2>1. items[i] \in Items
      BY ElementOfSeq
    <2>2. items[i].field \in ColumnSet /\ items[i].dir \in {"ASC", "DESC"}
      BY <2>1 DEF Items
    <2> QED
      BY <2>2 DEF Rows
  <1> QED
    BY <1>1, LenProperties DEF Reads

KeyOf(items, q) ==
  [order |-> items, values |-> [i \in 1..Len(items) |-> q[items[i].field]]]

(* The predicate of a cursor holds for the rows that come after the row it  *)
(* was taken from: NULLs and ties included, in both directions.             *)
LEMMA AfterTheCursor ==
  ASSUME NEW items \in Seq(Items), NEW r \in Rows, NEW q \in Rows
  PROVE  IsAfter(r, KeyOf(items, q)) <=> Before(q, r, items)
  <1> DEFINE F(x, i) == x[items[i].field]
             k == KeyOf(items, q)
             dir(i) == items[i].dir
  <1>1. k.order = items /\ \A i \in 1..Len(items) : k.values[i] = F(q, i)
    BY DEF KeyOf
  <1>2. \A i \in 1..Len(items) :
          F(r, i) \in Values /\ F(q, i) \in Values /\ dir(i) \in {"ASC", "DESC"}
    BY ItemProperties DEF Reads
  <1>3. ASSUME NEW i \in 1..Len(items)
        PROVE  Lower(F(q, i), F(r, i), dir(i)) <=>
                 /\ F(q, i) # Null
                 /\ \/ F(r, i) = Null
                    \/ IF dir(i) = "DESC" THEN F(r, i) < F(q, i) ELSE F(r, i) > F(q, i)
    <2> DEFINE v == F(q, i)
               w == F(r, i)
               d == dir(i)
    <2>1. v \in Values /\ w \in Values /\ d \in {"ASC", "DESC"}
      BY <1>2
    <2> HIDE DEF v, w, d
    <2>2. Lower(v, w, d) <=>
            /\ v # Null
            /\ (w = Null \/ IF d = "DESC" THEN w < v ELSE w > v)
      BY <2>1, NullAssumption DEF Lower, Values
    <2> QED
      BY <2>2 DEF v, w, d
  <1>4. \A i \in 1..Len(items) :
          (\A j \in 1..i - 1 : F(r, j) = F(q, j)) <=> (\A j \in 1..i - 1 : F(r, j) = k.values[j])
    BY <1>1
  <1> DEFINE Asked(i) ==
               /\ k.values[i] # Null
               /\ \A j \in 1..i - 1 : F(r, j) = k.values[j]
               /\ \/ F(r, i) = Null
                  \/ IF dir(i) = "DESC" THEN F(r, i) < k.values[i] ELSE F(r, i) > k.values[i]
             Later(i) ==
               /\ \A j \in 1..i - 1 : F(r, j) = F(q, j)
               /\ Lower(F(q, i), F(r, i), dir(i))
  <1>5. IsAfter(r, k) <=> \E i \in 1..Len(items) : Asked(i)
    BY <1>1 DEF IsAfter
  <1>6. ASSUME NEW i \in 1..Len(items)
        PROVE  Asked(i) <=> Later(i)
    <2> DEFINE w == F(r, i)
               d == dir(i)
    <2>1. k.values[i] = F(q, i)
      BY <1>1
    <2>2. (\A j \in 1..i - 1 : F(r, j) = F(q, j)) <=> (\A j \in 1..i - 1 : F(r, j) = k.values[j])
      BY <1>4
    <2>3. Lower(F(q, i), w, d) <=>
            k.values[i] # Null /\ (w = Null \/ IF d = "DESC" THEN w < k.values[i] ELSE w > k.values[i])
      BY <1>3, <2>1
    <2> HIDE DEF F, k, dir
    <2> QED
      BY <2>2, <2>3
  <1>7. Before(q, r, items) <=> \E i \in 1..Len(items) : Later(i)
    <2>1. Before(q, r, items) <=>
            \E i \in 1..Len(items) :
              /\ \A j \in 1..i - 1 : F(q, j) = F(r, j)
              /\ Lower(F(q, i), F(r, i), dir(i))
      BY DEF Before
    <2> HIDE DEF F, k, dir
    <2> QED
      BY <2>1
  <1> HIDE DEF Asked, Later
  <1> QED
    BY <1>5, <1>6, <1>7

-----------------------------------------------------------------------------
(* The total order                                                          *)

(* The tiebreakers are items over the fields they are made from.            *)
LEMMA AscProperties ==
  ASSUME NEW fields \in Seq(ColumnSet)
  PROVE  /\ Asc(fields) \in Seq(Items)
         /\ \A i \in 1..Len(fields) : fields[i] \in Fields(Asc(fields))
  <1>1. \A i \in 1..Len(fields) : [field |-> fields[i], dir |-> "ASC"] \in Items
    BY DEF Items
  <1>2. Asc(fields) \in [1..Len(fields) -> Items]
    BY <1>1 DEF Asc
  <1>3. Len(fields) \in Nat
    OBVIOUS
  <1>4. Asc(fields) \in Seq(Items) /\ Len(Asc(fields)) = Len(fields)
    BY <1>2, <1>3
  <1>5. \A i \in 1..Len(fields) : Asc(fields)[i].field = fields[i]
    BY DEF Asc
  <1> QED
    BY <1>4, <1>5 DEF Fields

(* The tiebreakers are the key columns not named yet.                       *)
LEMMA TiebreakersProperties ==
  ASSUME NEW d, IsFactTable(d), NEW items
  PROVE  /\ Tiebreakers(items, d) \in Seq(Items)
         /\ KeyColumns(d) \ Fields(items) \subseteq Fields(Tiebreakers(items, d))
  <1> DEFINE S == KeyColumns(d) \ Fields(items)
             kept == Keep(Columns, S)
  <1>1. Columns \in Seq(ColumnSet)
    BY ColumnsAssumption
  <1>2. S \subseteq ColumnSet
    BY DEF KeyColumns, IsFactTable
  <1> HIDE DEF S
  <1>3. /\ kept \in Seq(ColumnSet \cap S)
        /\ \A i \in 1..Len(Columns) : Columns[i] \in S =>
             \E k \in 1..Len(kept) : kept[k] = Columns[i]
    <2>1. \A s \in Seq(ColumnSet) :
            /\ Keep(s, S) \in Seq(ColumnSet \cap S)
            /\ \A i \in 1..Len(s) : s[i] \in S =>
                 \E k \in 1..Len(Keep(s, S)) : Keep(s, S)[k] = s[i]
      BY KeepProperties
    <2> QED
      BY <1>1, <2>1
  <1>4. Tiebreakers(items, d) = Asc(kept)
    BY DEF Tiebreakers, S
  <1>5. kept \in Seq(ColumnSet)
    BY <1>3, SeqMonotonic
  <1> HIDE DEF kept
  <1>6. ASSUME NEW c \in S PROVE c \in Fields(Asc(kept))
    <2>1. PICK i \in 1..Len(Columns) : Columns[i] = c
      BY <1>2 DEF ColumnSet
    <2>2. PICK k \in 1..Len(kept) : kept[k] = c
      BY <1>3, <2>1
    <2> QED
      BY <1>5, <2>2, AscProperties
  <1> QED
    BY <1>4, <1>5, <1>6, AscProperties DEF S

(* The fields of a sequence's parts are among its own.                      *)
LEMMA FieldsOfConcat ==
  ASSUME NEW s \in Seq(Items), NEW t \in Seq(Items)
  PROVE  s \o t \in Seq(Items) /\ Fields(s) \cup Fields(t) \subseteq Fields(s \o t)
  <1>1. /\ s \o t \in Seq(Items) /\ Len(s \o t) = Len(s) + Len(t)
        /\ \A i \in 1..Len(s) + Len(t) :
             (s \o t)[i] = IF i <= Len(s) THEN s[i] ELSE t[i - Len(s)]
    BY ConcatProperties
  <1>2. Len(s) \in Nat /\ Len(t) \in Nat
    BY LenProperties
  <1>3. ASSUME NEW i \in 1..Len(s) PROVE i \in 1..Len(s \o t) /\ (s \o t)[i] = s[i]
    BY <1>1, <1>2
  <1>4. ASSUME NEW i \in 1..Len(t)
        PROVE  Len(s) + i \in 1..Len(s \o t) /\ (s \o t)[Len(s) + i] = t[i]
    BY <1>1, <1>2
  <1>5. Fields(s) \subseteq Fields(s \o t)
    BY <1>3 DEF Fields
  <1>6. Fields(t) \subseteq Fields(s \o t)
    BY <1>4 DEF Fields
  <1> QED
    BY <1>1, <1>5, <1>6

(* The sort a request takes effect with: items of columns, or ORDER BY ALL. *)
LEMMA EffectiveSortType ==
  ASSUME NEW d, IsFactTable(d), NEW explicit \in Seq(Items)
  PROVE  EffectiveSort(explicit, d) \in Seq(Items \cup {AllColumns})
  <1> DEFINE clustered == Keep(d.clusterBy, ColumnSet)
  <1>1. explicit \o Tiebreakers(explicit, d) \in Seq(Items)
    BY TiebreakersProperties, ConcatProperties
  <1>2. Asc(clustered) \in Seq(Items)
    <2>1. d.clusterBy \in Seq(ToSet(d.clusterBy))
      BY DEF IsFactTable
    <2>2. clustered \in Seq(ToSet(d.clusterBy) \cap ColumnSet)
      BY <2>1, KeepProperties
    <2>3. clustered \in Seq(ColumnSet)
      BY <2>2, SeqMonotonic
    <2> QED
      BY <2>3, AscProperties
  <1>3. Asc(PrimaryKeys(d)) \in Seq(Items)
    <2>1. Columns \in Seq(ColumnSet)
      BY ColumnsAssumption
    <2>2. PrimaryKeys(d) \in Seq(ColumnSet \cap d.primaryKeys)
      BY <2>1, KeepProperties DEF PrimaryKeys
    <2>3. PrimaryKeys(d) \in Seq(ColumnSet)
      BY <2>2, SeqMonotonic
    <2> QED
      BY <2>3, AscProperties
  <1>4. <<AllColumns>> \in Seq(Items \cup {AllColumns})
    OBVIOUS
  <1>5. \A s \in Seq(Items) : s \in Seq(Items \cup {AllColumns})
    BY SeqMonotonic
  <1>6. EffectiveSort(explicit, d) \in
          {explicit \o Tiebreakers(explicit, d), Asc(clustered), Asc(PrimaryKeys(d)), <<AllColumns>>}
    BY DEF EffectiveSort
  <1> HIDE DEF clustered
  <1> QED
    BY <1>1, <1>2, <1>3, <1>4, <1>5, <1>6

(* completeTotalOrder() names every key column, and columns only.           *)
LEMMA OrderIsComplete ==
  ASSUME NEW d, IsFactTable(d), NEW explicit \in Seq(Items)
  PROVE  LET o == TotalOrder(EffectiveSort(explicit, d), d)
         IN  o \in Seq(Items) /\ KeyColumns(d) \subseteq Fields(o)
  <1> DEFINE items == EffectiveSort(explicit, d)
             S == Range(items) \ {AllColumns}
             kept == Keep(items, S)
  <1>1. items \in Seq(Items \cup {AllColumns})
    BY EffectiveSortType
  <1> HIDE DEF items
  <1>2. kept \in Seq((Items \cup {AllColumns}) \cap S)
    BY <1>1, KeepProperties
  <1>3. kept \in Seq(Items)
    BY <1>2, SeqMonotonic
  <1>4. TotalOrder(items, d) = kept \o Tiebreakers(kept, d)
    BY DEF TotalOrder
  <1> HIDE DEF kept
  <1>5. /\ Tiebreakers(kept, d) \in Seq(Items)
        /\ KeyColumns(d) \ Fields(kept) \subseteq Fields(Tiebreakers(kept, d))
    BY TiebreakersProperties
  <1>6. /\ TotalOrder(items, d) \in Seq(Items)
        /\ Fields(kept) \cup Fields(Tiebreakers(kept, d)) \subseteq Fields(TotalOrder(items, d))
    BY <1>3, <1>4, <1>5, FieldsOfConcat
  <1> QED
    BY <1>5, <1>6 DEF items

-----------------------------------------------------------------------------
(* A page                                                                   *)

(* What a client whose cursor is `s`'s last row is still owed.              *)
Owed(rows, s, o) == {r \in rows : s = <<>> \/ Before(s[Len(s)], r, o)}

Ascends(s, o) == \A i \in 1..Len(s) - 1 : Before(s[i], s[i + 1], o)

(* A page of rows that come after the last one sent: still ascending, and   *)
(* its last row is the last one sent.                                       *)
LEMMA PageAscends ==
  ASSUME NEW o, NEW rows, NEW s \in Seq(Rows), NEW m \in 0..Cardinality(Owed(rows, s, o)),
         Tells(o, rows), rows \subseteq Rows, Ascends(s, o)
  PROVE  LET page == SubSeq(Sorted(Owed(rows, s, o), o), 1, m)
         IN  /\ s \o page \in Seq(Rows) /\ Len(s \o page) = Len(s) + m
             /\ Ascends(s \o page, o)
             /\ m > 0 => (s \o page)[Len(s) + m] = Sorted(Owed(rows, s, o), o)[m]
  <1> DEFINE w == Owed(rows, s, o)
             t == Sorted(w, o)
             page == SubSeq(t, 1, m)
             all == s \o page
  <1>1. Tells(o, w) /\ w \subseteq rows /\ rows \subseteq Rows
    <2>1. w \subseteq rows /\ rows \subseteq Rows /\ IsFiniteSet(rows)
      BY DEF Owed, Tells
    <2>2. IsFiniteSet(w)
      BY <2>1, FS_Subset
    <2> QED
      BY <2>1, <2>2 DEF Tells
  <1>2. /\ Cardinality(w) \in Nat /\ t \in Seq(w) /\ Len(t) = Cardinality(w)
        /\ \A i, j \in 1..Cardinality(w) : i < j => Before(t[i], t[j], o)
    BY <1>1, SortedProperties
  <1>3. \A r \in w : s = <<>> \/ Before(s[Len(s)], r, o)
    BY DEF Owed
  <1>4. m \in Nat /\ m <= Cardinality(w)
    BY <1>2
  <1> HIDE DEF w, t
  <1>5. /\ page \in Seq(Rows) /\ Len(page) = m
        /\ \A i \in 1..m : page[i] = t[i] /\ t[i] \in w
    <2>1. \A i \in 1..m : t[i] \in w
      BY <1>2, <1>4
    <2>2. \A i \in 1..m : t[i] \in Rows
      BY <1>1, <2>1
    <2>3. /\ page \in Seq(Rows)
          /\ Len(page) = IF 1 <= m THEN m - 1 + 1 ELSE 0
          /\ \A i \in 1..m - 1 + 1 : page[i] = t[1 + i - 1]
      BY <1>4, <2>2, SubSeqProperties
    <2> HIDE DEF page
    <2>4. ASSUME NEW i \in 1..m PROVE page[i] = t[i]
      <3>1. i \in 1..m - 1 + 1 /\ 1 + i - 1 = i
        BY <1>4
      <3> QED
        BY <2>3, <3>1
    <2>5. Len(page) = m
      BY <1>4, <2>3
    <2> QED
      BY <2>1, <2>3, <2>4, <2>5
  <1> HIDE DEF page
  <1>6. /\ all \in Seq(Rows) /\ Len(all) = Len(s) + m
        /\ \A i \in 1..Len(s) + m : all[i] = IF i <= Len(s) THEN s[i] ELSE page[i - Len(s)]
    BY <1>5, ConcatProperties
  <1>7. Len(s) \in Nat
    BY LenProperties
  <1> HIDE DEF all
  <1>8. ASSUME NEW i \in 1..Len(s) + m - 1 PROVE Before(all[i], all[i + 1], o)
    <2>1. CASE i < Len(s)
      <3>1. all[i] = s[i] /\ all[i + 1] = s[i + 1] /\ i \in 1..Len(s) - 1
        BY <1>4, <1>6, <1>7, <2>1
      <3> QED
        BY <3>1 DEF Ascends
    <2>2. CASE i = Len(s)
      <3>1. s # <<>>
        BY <1>7, <2>2
      <3>2. all[i] = s[Len(s)] /\ all[i + 1] = page[1] /\ 1 \in 1..m
        BY <1>4, <1>6, <1>7, <2>2
      <3> QED
        BY <1>3, <1>5, <3>1, <3>2
    <2>3. CASE i > Len(s)
      <3>1. /\ i - Len(s) \in 1..m /\ i + 1 - Len(s) \in 1..m /\ i - Len(s) < i + 1 - Len(s)
            /\ all[i] = page[i - Len(s)] /\ all[i + 1] = page[i + 1 - Len(s)]
        BY <1>4, <1>6, <1>7, <2>3
      <3>2. i - Len(s) \in 1..Cardinality(w) /\ i + 1 - Len(s) \in 1..Cardinality(w)
        BY <1>2, <1>4, <1>7, <3>1
      <3> QED
        BY <1>2, <1>5, <3>1, <3>2
    <2> QED
      BY <1>4, <1>7, <2>1, <2>2, <2>3
  <1>9. m > 0 => all[Len(s) + m] = t[m]
    BY <1>4, <1>5, <1>6, <1>7
  <1> QED
    BY <1>6, <1>8, <1>9 DEF all, page, t, w, Ascends

(* After the first n rows of the whole result, the rest of it is owed.      *)
LEMMA OwedIsTheRest ==
  ASSUME NEW o, NEW rows, NEW n \in 0..Cardinality(rows), Tells(o, rows)
  PROVE  LET all == Sorted(rows, o)
             w == Owed(rows, SubSeq(all, 1, n), o)
         IN  /\ Cardinality(w) = Cardinality(rows) - n
             /\ Sorted(w, o) = SubSeq(all, n + 1, Cardinality(rows))
  <1> DEFINE all == Sorted(rows, o)
             L == Cardinality(rows)
             s == SubSeq(all, 1, n)
             w == Owed(rows, s, o)
  <1>1. L \in Nat /\ all \in Seq(rows) /\ Len(all) = L
    BY SortedProperties
  <1>2. CASE n = 0
    <2>1. s = <<>>
      BY <1>2, SubSeqEmpty
    <2>2. w = rows
      BY <2>1 DEF Owed
    <2>3. SubSeq(all, 1, L) = all
      <3> HIDE DEF all, L
      <3> QED
        BY <1>1, SubSeqFull
    <2> QED
      BY <1>1, <1>2, <2>2, <2>3
  <1>3. CASE n # 0
    <2>1. n \in 1..L /\ n \in Nat
      BY <1>1, <1>3
    <2>2. Len(s) = n /\ s[n] = all[n] /\ s # <<>>
      <3> HIDE DEF all, L
      <3>1. \A i \in 1..n : all[i] \in rows
        BY <1>1, <2>1
      <3>2. /\ s \in Seq(rows) /\ Len(s) = IF 1 <= n THEN n - 1 + 1 ELSE 0
            /\ \A i \in 1..n - 1 + 1 : s[i] = all[1 + i - 1]
        BY <2>1, <3>1, SubSeqProperties
      <3> HIDE DEF s
      <3>3. n \in 1..n - 1 + 1 /\ 1 + n - 1 = n
        BY <2>1
      <3> QED
        BY <2>1, <3>2, <3>3
    <2>3. w = {r \in rows : Before(all[n], r, o)}
      BY <2>2 DEF Owed
    <2> HIDE DEF w
    <2>4. /\ Cardinality(w) = Cardinality(rows) - n
          /\ Sorted(w, o) = SubSeq(Sorted(rows, o), n + 1, Cardinality(rows))
      BY <2>1, <2>3, SortedAfter
    <2> QED
      BY <2>4 DEF w
  <1> QED
    BY <1>2, <1>3

(* Its first rows continue what was sent.                                   *)
LEMMA PageContinues ==
  ASSUME NEW o, NEW rows, NEW n \in 0..Cardinality(rows),
         NEW m \in 0..Cardinality(rows) - n, Tells(o, rows)
  PROVE  LET all == Sorted(rows, o)
             w == Owed(rows, SubSeq(all, 1, n), o)
         IN  SubSeq(all, 1, n) \o SubSeq(Sorted(w, o), 1, m) = SubSeq(all, 1, n + m)
  <1> DEFINE all == Sorted(rows, o)
             L == Cardinality(rows)
             rest == SubSeq(all, n + 1, L)
  <1>1. L \in Nat /\ all \in Seq(rows) /\ Len(all) = L
    BY SortedProperties
  <1>2. Sorted(Owed(rows, SubSeq(all, 1, n), o), o) = rest
    BY OwedIsTheRest
  <1>3. n \in Nat /\ m \in Nat /\ n <= L /\ m <= L - n
    BY <1>1
  <1> HIDE DEF all, L
  <1>4. SubSeq(rest, 1, m) = SubSeq(all, n + 1, n + m)
    <2>1. CASE m = 0
      BY <1>1, <1>3, <2>1, SubSeqEmpty
    <2>2. CASE m # 0
      <3>1. /\ n + 1 \in 1..Len(all) /\ L \in 1..Len(all)
            /\ 1 \in 1..L - (n + 1) + 1 /\ m \in 1..L - (n + 1) + 1
        BY <1>1, <1>3, <2>2
      <3>2. SubSeq(rest, 1, m) = SubSeq(all, n + 1 + 1 - 1, n + 1 + m - 1)
        BY <1>1, <3>1, SubSeqOfSubSeq
      <3>3. n + 1 + 1 - 1 = n + 1 /\ n + 1 + m - 1 = n + m
        BY <1>3
      <3> QED
        BY <3>2, <3>3
    <2> QED
      BY <2>1, <2>2
  <1>5. SubSeq(all, 1, n) \o SubSeq(all, n + 1, n + m) = SubSeq(all, 1, n + m)
    <2>1. 1 \in 1..Len(all) + 1 /\ n \in 1 - 1..Len(all) /\ n + m \in n..Len(all)
      BY <1>1, <1>3
    <2> QED
      BY <1>1, <2>1, ConcatAdjacentSubSeq
  <1> QED
    BY <1>2, <1>4, <1>5 DEF all

-----------------------------------------------------------------------------
(* The invariant                                                            *)

(* One request sees one state of the data; where the backend shows later    *)
(* commits, only if there were none.                                        *)
Stable == (~live \/ updates = 0) /\ step # "refused"
Started == step # "ready" \/ sent # <<>>
EffectiveOrder == TotalOrder(EffectiveSort(sort, dataset), dataset)

PagingTypes ==
  /\ dataset \in Datasets
  /\ updates \in Nat
  /\ sort \in Sorts
  /\ limit \in Nat \ {0}

(* The order is total, and the rows sent ascend in it.                      *)
OrderInv ==
  /\ order \in Seq(Items)
  /\ Started => KeyColumns(dataset) \subseteq Fields(order)
  /\ sent \in Seq(Rows)
  /\ Ascends(sent, order)

(* The cursor of the request is the key of the last row sent.               *)
CursorInv ==
  step \in {"ready", "built", "counted", "probed"} =>
    after = IF sent = <<>> THEN NoToken ELSE KeyOf(order, sent[Len(sent)])

(* What the request has read: the rows of one state, whether they are more  *)
(* than a page, and the key of the page's last row.                         *)
ReadInv ==
  /\ step \in {"ready", "built", "counted"} => next = NoToken
  /\ step \in {"counted", "probed"} =>
       \E d \in Datasets : /\ d.primaryKeys = dataset.primaryKeys
                           /\ seen = d.rows
                           /\ updates = 0 => d = dataset
  /\ step = "counted" => limit < Cardinality(Owed(seen, sent, order))
  /\ step = "probed" =>
       next = IF Cardinality(Owed(seen, sent, order)) <= limit THEN NoToken
              ELSE KeyOf(order, Sorted(Owed(seen, sent, order), order)[limit])

(* Without an update, what was sent is the beginning of the export.         *)
PrefixInv ==
  updates = 0 /\ Started =>
    /\ order = EffectiveOrder
    /\ Len(sent) <= Cardinality(dataset.rows)
    /\ sent = SubSeq(Sorted(dataset.rows, order), 1, Len(sent))
    /\ step = "done" => Len(sent) = Cardinality(dataset.rows)

PagingInv == PagingTypes /\ (Stable => OrderInv /\ CursorInv /\ ReadInv /\ PrefixInv)

(* What is assumed of the data, by name.                                    *)
LEMMA DatasetProperties ==
  ASSUME NEW d \in Datasets
  PROVE  /\ IsFactTable(d) /\ d.rows \subseteq Rows /\ IsFiniteSet(d.rows)
         /\ Cardinality(d.rows) < MaxSent
  BY PagingAssumption DEF IsFactTable, Rows

(* What is remembered of ascending rows ascends, and ends with the last.    *)
LEMMA RememberedAscends ==
  ASSUME NEW o, NEW s \in Seq(Rows), Ascends(s, o), s # <<>>
  PROVE  LET t == Remembered(s)
         IN  /\ t \in Seq(Rows) /\ Ascends(t, o)
             /\ t # <<>> /\ t[Len(t)] = s[Len(s)]
  <1>1. MaxSent \in Nat /\ MaxSent > 0 /\ Len(s) \in Nat
    BY PagingAssumption, LenProperties
  <1>2. CASE Len(s) <= MaxSent
    BY <1>2 DEF Remembered
  <1>3. CASE ~(Len(s) <= MaxSent)
    <2>1. PICK k \in Nat : k = Len(s) - MaxSent
      BY <1>1, <1>3
    <2>2. PICK t : t = SubSeq(s, k + 1, Len(s))
      OBVIOUS
    <2>3. Len(s) - (k + 1) + 1 = MaxSent /\ k + 1 \in Nat /\ k + 1 <= Len(s)
      BY <1>1, <2>1
    <2>4. \A i \in k + 1..Len(s) : s[i] \in Rows
      BY <1>1, <2>1, ElementOfSeq
    <2>5. /\ t \in Seq(Rows) /\ Len(t) = MaxSent
          /\ \A i \in 1..MaxSent : t[i] = s[k + 1 + i - 1]
      BY <1>1, <2>2, <2>3, <2>4, SubSeqProperties
    <2>6. ASSUME NEW i \in 1..MaxSent PROVE t[i] = s[k + i]
      <3>1. k + 1 + i - 1 = k + i
        BY <2>1
      <3> QED
        BY <2>5, <3>1
    <2>7. ASSUME NEW i \in 1..MaxSent - 1 PROVE Before(t[i], t[i + 1], o)
      <3>1. /\ i \in 1..MaxSent /\ i + 1 \in 1..MaxSent
            /\ k + i \in 1..Len(s) - 1 /\ k + (i + 1) = (k + i) + 1
        BY <1>1, <2>1
      <3> QED
        BY <2>6, <3>1 DEF Ascends
    <2>8. t # <<>> /\ t[Len(t)] = s[Len(s)]
      <3>1. MaxSent \in 1..MaxSent /\ k + MaxSent = Len(s)
        BY <1>1, <2>1
      <3> QED
        BY <1>1, <2>5, <2>6, <3>1
    <2>9. Remembered(s) = t
      BY <1>3, <2>1, <2>2 DEF Remembered
    <2> QED
      BY <2>5, <2>7, <2>8, <2>9 DEF Ascends
  <1> QED
    BY <1>2, <1>3

(* A total order tells the rows of a schema apart by its key columns.       *)
LEMMA OrderTells ==
  ASSUME NEW d, IsFactTable(d), NEW o \in Seq(Items), KeyColumns(d) \subseteq Fields(o)
  PROVE  Tells(o, d.rows) /\ o # <<>>
  <1>1. d.rows \subseteq Rows /\ IsFiniteSet(d.rows)
    BY DEF IsFactTable, Rows
  <1>2. \A r, q \in d.rows : (\A c \in KeyColumns(d) : r[c] = q[c]) => r = q
    BY DEF IsFactTable
  <1>3. \E c : c \in KeyColumns(d)
    <2>1. Columns # <<>> /\ Columns \in Seq(ColumnSet)
      BY ColumnsAssumption
    <2>2. 1 \in 1..Len(Columns)
      BY <2>1
    <2>3. Columns[1] \in ColumnSet
      BY <2>2 DEF ColumnSet
    <2> QED
      BY <2>3 DEF KeyColumns
  <1>4. o # <<>>
    BY <1>3 DEF Fields
  <1>5. Len(o) \in Nat /\ \A r \in d.rows : Reads(o, r)
    BY <1>1, ItemProperties, LenProperties
  <1> QED
    BY <1>1, <1>2, <1>4, <1>5 DEF Tells

(* A cursor is not the absence of one.                                      *)
LEMMA KeyIsToken ==
  ASSUME NEW o \in Seq(Items), NEW q, o # <<>>
  PROVE  KeyOf(o, q) # NoToken /\ KeyOf(o, q).order = o
  BY DEF KeyOf, NoToken

(* The order of an export that was started is complete.                     *)
LEMMA StartedOrder ==
  ASSUME PagingTypes, OrderInv, Started
  PROVE  Tells(order, dataset.rows) /\ order # <<>> /\ order \in Seq(Items)
  <1>1. PICK d \in Datasets : d = dataset
    BY DEF PagingTypes
  <1>2. PICK o \in Seq(Items) : o = order
    BY DEF OrderInv
  <1>3. KeyColumns(d) \subseteq Fields(o)
    BY <1>1, <1>2 DEF OrderInv
  <1> QED
    BY <1>1, <1>2, <1>3, DatasetProperties, OrderTells

(* What the resume predicate leaves is what is owed.                        *)
LEMMA RemainingIsOwed ==
  ASSUME PagingTypes, OrderInv, CursorInv, step \in {"built", "counted", "probed"}
  PROVE  \A rows \in SUBSET Rows : Remaining(rows) = Owed(rows, sent, order)
  <1>1. order \in Seq(Items) /\ order # <<>>
    BY StartedOrder DEF Started
  <1>2. CASE sent = <<>>
    BY <1>2 DEF CursorInv, Remaining, Owed
  <1>3. CASE sent # <<>>
    <2>1. PICK o \in Seq(Items) : o = order
      BY <1>1
    <2>2. PICK q \in Rows : q = sent[Len(sent)]
      <3>1. sent \in Seq(Rows)
        BY DEF OrderInv
      <3>2. Len(sent) \in 1..Len(sent)
        BY <1>3, <3>1
      <3> QED
        BY <3>1, <3>2
    <2>3. after = KeyOf(o, q)
      BY <1>3, <2>1, <2>2 DEF CursorInv
    <2>4. KeyOf(o, q) # NoToken
      BY <1>1, <2>1, KeyIsToken
    <2>5. \A r \in Rows : IsAfter(r, KeyOf(o, q)) <=> Before(q, r, o)
      BY AfterTheCursor
    <2> QED
      BY <1>3, <2>1, <2>2, <2>3, <2>4, <2>5 DEF Remaining, Owed
  <1> QED
    BY <1>2, <1>3

(* Both statements of a request see the rows that were counted.             *)
LEMMA VisibleIsSeen ==
  ASSUME PagingTypes, Stable, OrderInv, ReadInv, step \in {"counted", "probed"}
  PROVE  /\ Visible = seen /\ seen \subseteq Rows /\ Tells(order, seen)
         /\ updates = 0 => seen = dataset.rows
  <1>1. PICK d \in Datasets : /\ d.primaryKeys = dataset.primaryKeys /\ seen = d.rows
                              /\ updates = 0 => d = dataset
    BY DEF ReadInv
  <1>2. Visible = seen
    BY <1>1 DEF Visible, Stable
  <1>3. PICK o \in Seq(Items) : o = order
    BY DEF OrderInv
  <1>4. KeyColumns(d) \subseteq Fields(o)
    BY <1>1, <1>3 DEF OrderInv, Started, KeyColumns
  <1>5. Tells(o, d.rows) /\ d.rows \subseteq Rows
    BY <1>4, DatasetProperties, OrderTells
  <1> QED
    BY <1>1, <1>2, <1>3, <1>5

(* What is owed of the rows seen is a result of its own.                    *)
LEMMA OwedIsCounted ==
  ASSUME PagingTypes, Stable, OrderInv, ReadInv, step \in {"counted", "probed"}
  PROVE  LET w == Owed(seen, sent, order)
         IN  /\ Cardinality(w) \in Nat
             /\ Sorted(w, order) \in Seq(w) /\ Len(Sorted(w, order)) = Cardinality(w)
  <1>1. PICK rows, o : rows = Owed(seen, sent, order) /\ o = order
    OBVIOUS
  <1>2. seen \subseteq Rows /\ Tells(order, seen)
    BY VisibleIsSeen
  <1>3. rows \subseteq seen
    BY <1>1 DEF Owed
  <1>4. IsFiniteSet(rows)
    BY <1>2, <1>3, FS_Subset DEF Tells
  <1>5. Tells(o, rows)
    BY <1>1, <1>2, <1>3, <1>4 DEF Tells
  <1>6. /\ Cardinality(rows) \in Nat
        /\ Sorted(rows, o) \in Seq(rows) /\ Len(Sorted(rows, o)) = Cardinality(rows)
    BY <1>5, SortedProperties
  <1> QED
    BY <1>1, <1>6

-----------------------------------------------------------------------------
(* The steps                                                                *)

(* Nothing was sent, and there is no cursor.                                *)
LEMMA PagingStarts ==
  ASSUME PagingInit PROVE PagingInv
  BY PagingAssumption DEF PagingInit, PagingInv, PagingTypes, OrderInv, CursorInv, ReadInv,
     PrefixInv, Started, Ascends

(* An update changes neither the order nor what a request sees.             *)
LEMMA UpdateKeeps ==
  ASSUME PagingInv, NEW d \in Datasets, Update(d)
  PROVE  PagingInv'
  <1>1. PagingTypes'
    BY DEF PagingInv, PagingTypes, Update
  <1>2. ASSUME Stable' PROVE (OrderInv /\ CursorInv /\ ReadInv /\ PrefixInv)'
    <2>1. updates \in Nat /\ updates' = updates + 1 /\ updates' # 0
      BY DEF PagingInv, PagingTypes, Update
    <2>2. Stable
      BY <1>2, <2>1 DEF Stable, Update
    <2>3. OrderInv /\ CursorInv /\ ReadInv
      BY <2>2 DEF PagingInv
    <2>4. KeyColumns(dataset') = KeyColumns(dataset)
      BY DEF KeyColumns, Update
    <2>5. OrderInv'
      BY <2>3, <2>4 DEF OrderInv, Started, Update
    <2>6. CursorInv'
      BY <2>3 DEF CursorInv, Update
    <2>7. ReadInv'
      BY <2>1, <2>3 DEF ReadInv, Update
    <2>8. PrefixInv'
      BY <2>1 DEF PrefixInv
    <2> QED
      BY <2>5, <2>6, <2>7, <2>8
  <1> QED
    BY <1>1, <1>2 DEF PagingInv

(* The order of a request is complete, and the order of its cursor.         *)
LEMMA BuildKeeps ==
  ASSUME PagingInv, Build
  PROVE  PagingInv'
  <1>1. PagingTypes'
    BY DEF PagingInv, PagingTypes, Build
  <1>2. ASSUME Stable' PROVE (OrderInv /\ CursorInv /\ ReadInv /\ PrefixInv)'
    <2>1. /\ PagingTypes /\ OrderInv /\ CursorInv /\ ReadInv /\ PrefixInv
          /\ step = "ready" /\ step' = "built" /\ order' = EffectiveOrder
          /\ (after # NoToken => after.order = order')
          /\ UNCHANGED <<dataset, updates, live, sort, limit, after, seen, next, sent>>
      BY <1>2 DEF PagingInv, Stable, Build, EffectiveOrder
    <2>2. order' \in Seq(Items) /\ KeyColumns(dataset) \subseteq Fields(order')
      <3>1. PICK d \in Datasets : d = dataset
        BY <2>1 DEF PagingTypes
      <3>2. PICK explicit \in Seq(Items) : explicit = sort
        BY <2>1, PagingAssumption DEF PagingTypes, Items
      <3> QED
        BY <2>1, <3>1, <3>2, DatasetProperties, OrderIsComplete DEF EffectiveOrder
    <2>3. sent # <<>> => order' = order
      <3>1. SUFFICES ASSUME sent # <<>> PROVE order' = order
        OBVIOUS
      <3>2. PICK o \in Seq(Items) : o = order /\ o # <<>>
        BY <2>1, <3>1, StartedOrder DEF Started
      <3>3. PICK q : q = sent[Len(sent)]
        OBVIOUS
      <3>4. after = KeyOf(o, q)
        BY <2>1, <3>1, <3>2, <3>3 DEF CursorInv
      <3> QED
        BY <2>1, <3>2, <3>4, KeyIsToken
    <2>4. OrderInv'
      BY <2>1, <2>2, <2>3 DEF OrderInv, Ascends
    <2>5. CursorInv'
      BY <2>1, <2>3 DEF CursorInv
    <2>6. ReadInv'
      BY <2>1 DEF ReadInv
    <2>7. PrefixInv'
      <3>1. SUFFICES ASSUME updates = 0 PROVE PrefixInv'
        BY <2>1 DEF PrefixInv
      <3>2. order' = EffectiveOrder'
        BY <2>1 DEF EffectiveOrder
      <3>3. CASE sent = <<>>
        <4>1. PICK rows, o : rows = dataset.rows /\ o = order'
          OBVIOUS
        <4>2. PICK d \in Datasets : d = dataset
          BY <2>1 DEF PagingTypes
        <4>3. Cardinality(rows) \in Nat
          BY <4>1, <4>2, DatasetProperties, FS_CardinalityType
        <4>4. SubSeq(Sorted(rows, o), 1, 0) = <<>>
          BY SubSeqEmpty
        <4>5. Len(sent) = 0
          BY <3>3
        <4> QED
          BY <2>1, <3>2, <3>3, <4>1, <4>3, <4>4, <4>5 DEF PrefixInv
      <3>4. CASE sent # <<>>
        BY <2>1, <2>3, <3>1, <3>2, <3>4 DEF PrefixInv, Started
      <3> QED
        BY <3>3, <3>4
    <2> QED
      BY <2>4, <2>5, <2>6, <2>7
  <1> QED
    BY <1>1, <1>2 DEF PagingInv

(* The count: a cursor is needed where more is owed than a page holds.      *)
LEMMA CountKeeps ==
  ASSUME PagingInv, Count
  PROVE  PagingInv'
  <1>1. PagingTypes'
    BY DEF PagingInv, PagingTypes, Count
  <1>2. ASSUME Stable' PROVE (OrderInv /\ CursorInv /\ ReadInv /\ PrefixInv)'
    <2>1. /\ PagingTypes /\ OrderInv /\ CursorInv /\ ReadInv /\ PrefixInv
          /\ step = "built" /\ step' \in {"counted", "probed"} /\ seen' = dataset.rows
          /\ step' = IF Cardinality(Remaining(dataset.rows)) <= limit THEN "probed" ELSE "counted"
          /\ UNCHANGED <<dataset, updates, live, sort, limit, order, after, next, sent>>
      BY <1>2 DEF PagingInv, Stable, Count
    <2>2. OrderInv' /\ CursorInv' /\ PrefixInv'
      BY <2>1 DEF OrderInv, CursorInv, PrefixInv, Started, EffectiveOrder
    <2>3. ReadInv'
      <3>1. PICK w : w = Owed(dataset.rows, sent, order)
        OBVIOUS
      <3>2. Remaining(dataset.rows) = w
        <4>1. dataset.rows \in SUBSET Rows
          BY <2>1, DatasetProperties DEF PagingTypes
        <4> QED
          BY <2>1, <3>1, <4>1, RemainingIsOwed
      <3>3. w' = w /\ w = Owed(seen', sent', order')
        BY <2>1, <3>1
      <3>4. Cardinality(w) \in Nat
        <4>1. PICK rows : rows = dataset.rows /\ IsFiniteSet(rows)
          BY <2>1, DatasetProperties DEF PagingTypes
        <4>2. w \subseteq rows
          BY <3>1, <4>1 DEF Owed
        <4> QED
          BY <4>1, <4>2, FS_Subset, FS_CardinalityType
      <3>5. next' = NoToken /\ limit' = limit /\ limit \in Nat
        BY <2>1 DEF ReadInv, PagingTypes
      <3>6. \E d \in Datasets : /\ d.primaryKeys = dataset'.primaryKeys /\ seen' = d.rows
                                /\ updates' = 0 => d = dataset'
        BY <2>1 DEF PagingTypes
      <3>7. step' = "counted" => limit' < Cardinality(w)
        BY <2>1, <3>2, <3>4, <3>5
      <3>8. step' = "probed" => Cardinality(w) <= limit'
        BY <2>1, <3>2, <3>5
      <3> QED
        BY <2>1, <3>3, <3>5, <3>6, <3>7, <3>8 DEF ReadInv
    <2> QED
      BY <2>2, <2>3
  <1> QED
    BY <1>1, <1>2 DEF PagingInv

(* The cursor: the row is still there for the second statement.             *)
LEMMA BoundaryKeeps ==
  ASSUME PagingInv, Boundary
  PROVE  PagingInv'
  <1>1. PagingTypes'
    BY DEF PagingInv, PagingTypes, Boundary
  <1>2. ASSUME Stable' PROVE (OrderInv /\ CursorInv /\ ReadInv /\ PrefixInv)'
    <2>1. /\ PagingTypes /\ Stable /\ OrderInv /\ CursorInv /\ ReadInv /\ PrefixInv
          /\ step = "counted" /\ step' \in {"probed", "failed"}
          /\ UNCHANGED <<dataset, updates, live, sort, limit, order, after, seen, sent>>
      BY <1>2 DEF PagingInv, Stable, Boundary
    <2>2. OrderInv' /\ CursorInv' /\ PrefixInv'
      BY <2>1 DEF OrderInv, CursorInv, PrefixInv, Started, EffectiveOrder
    <2>3. ReadInv'
      <3>1. PICK w, s : w = Owed(seen, sent, order) /\ s = Sorted(w, order)
        OBVIOUS
      <3>2. Sorted(Remaining(Visible), order) = s
        BY <2>1, <3>1, VisibleIsSeen, RemainingIsOwed
      <3>3. Cardinality(w) \in Nat /\ Len(s) = Cardinality(w)
        BY <2>1, <3>1, OwedIsCounted
      <3>4. limit < Cardinality(w) /\ limit \in Nat \ {0}
        BY <2>1, <3>1 DEF ReadInv, PagingTypes
      <3>5. BoundaryOffset + 1 = limit /\ limit \in 1..Len(s)
        BY <3>3, <3>4 DEF BoundaryOffset
      <3>6. step' = "probed" /\ next' = KeyOf(order, s[limit])
        BY <3>2, <3>5 DEF Boundary, Token, KeyOf
      <3>7. w = Owed(seen', sent', order') /\ ~(Cardinality(w) <= limit')
        BY <2>1, <3>1, <3>3, <3>4
      <3>8. next' = KeyOf(order', Sorted(Owed(seen', sent', order'), order')[limit'])
        BY <2>1, <3>1, <3>6, <3>7
      <3>9. \E d \in Datasets : /\ d.primaryKeys = dataset'.primaryKeys /\ seen' = d.rows
                                /\ updates' = 0 => d = dataset'
        BY <2>1 DEF ReadInv
      <3> QED
        BY <3>6, <3>7, <3>8, <3>9 DEF ReadInv
    <2> QED
      BY <2>2, <2>3
  <1> QED
    BY <1>1, <1>2 DEF PagingInv

(* The rows of a request and the cursor it returns, by what was owed: all   *)
(* of it and none, or a page and the key of its last row.                   *)
LEMMA SentIsAPage ==
  ASSUME PagingTypes, Stable, OrderInv, CursorInv, ReadInv, Send
  PROVE  \E m \in Nat :
           LET w == Owed(seen, sent, order)
           IN  /\ m <= Cardinality(w) /\ Cardinality(w) \in Nat
               /\ sent' = Remembered(sent \o SubSeq(Sorted(w, order), 1, m))
               /\ \/ m = Cardinality(w) /\ step' = "done"
                  \/ /\ m > 0 /\ step' = "ready"
                     /\ after' = KeyOf(order, Sorted(w, order)[m])
  <1>1. PICK w, s : w = Owed(seen, sent, order) /\ s = Sorted(w, order)
    OBVIOUS
  <1>2. step = "probed" /\ sent' = Remembered(sent \o PageRows(Visible)) /\ after' = next
        /\ step' = IF next = NoToken THEN "done" ELSE "ready"
    BY DEF Send
  <1>3. Sorted(Remaining(Visible), order) = s
    BY <1>1, <1>2, VisibleIsSeen, RemainingIsOwed
  <1>4. Cardinality(w) \in Nat /\ Len(s) = Cardinality(w)
    BY <1>1, <1>2, OwedIsCounted
  <1>5. limit \in Nat \ {0}
    BY DEF PagingTypes
  <1>6. CASE Cardinality(w) <= limit
    <2>1. next = NoToken
      BY <1>1, <1>2, <1>6 DEF ReadInv
    <2>2. PageRows(Visible) = SubSeq(s, 1, Cardinality(w))
      <3>1. (IF Len(s) < limit THEN Len(s) ELSE limit) = Cardinality(w)
        BY <1>4, <1>5, <1>6
      <3> QED
        BY <1>3, <3>1 DEF PageRows
    <2> QED
      BY <1>1, <1>2, <1>4, <2>1, <2>2
  <1>7. CASE ~(Cardinality(w) <= limit)
    <2>1. next = KeyOf(order, s[limit])
      BY <1>1, <1>2, <1>7 DEF ReadInv
    <2>2. next # NoToken
      <3>1. PICK o \in Seq(Items) : o = order /\ o # <<>>
        BY <1>2, StartedOrder DEF Started
      <3>2. PICK q : q = s[limit]
        OBVIOUS
      <3> QED
        BY <2>1, <3>1, <3>2, KeyIsToken
    <2>3. PageRows(Visible) = SubSeq(s, 1, limit)
      <3>1. (IF Len(s) < limit THEN Len(s) ELSE limit) = limit
        BY <1>4, <1>5, <1>7
      <3> QED
        BY <1>3, <3>1 DEF PageRows
    <2>4. limit <= Cardinality(w) /\ limit > 0 /\ limit \in Nat
      BY <1>4, <1>5, <1>7
    <2> QED
      BY <1>1, <1>2, <1>4, <2>1, <2>2, <2>3, <2>4
  <1> QED
    BY <1>6, <1>7

(* The rows: the page continues what was sent, and the client asks for what *)
(* follows its last row.                                                    *)
LEMMA SendKeeps ==
  ASSUME PagingInv, Send
  PROVE  PagingInv'
  <1>1. PagingTypes'
    BY DEF PagingInv, PagingTypes, Send
  <1>2. ASSUME Stable' PROVE (OrderInv /\ CursorInv /\ ReadInv /\ PrefixInv)'
    <2>1. /\ PagingTypes /\ Stable /\ OrderInv /\ CursorInv /\ ReadInv /\ PrefixInv
          /\ step = "probed" /\ step' \in {"ready", "done"} /\ next' = NoToken
          /\ UNCHANGED <<dataset, updates, live, sort, limit, order>>
      BY <1>2 DEF PagingInv, Stable, Send
    <2>2. PICK o, rows, s, w :
            o = order /\ rows = seen /\ s = sent /\ s \in Seq(Rows) /\ w = Owed(rows, s, o)
      BY <2>1 DEF OrderInv
    <2>3. PICK m \in Nat :
            /\ m <= Cardinality(w) /\ Cardinality(w) \in Nat
            /\ sent' = Remembered(s \o SubSeq(Sorted(w, o), 1, m))
            /\ \/ m = Cardinality(w) /\ step' = "done"
               \/ m > 0 /\ step' = "ready" /\ after' = KeyOf(o, Sorted(w, o)[m])
      BY <2>1, <2>2, SentIsAPage
    <2>4. Tells(o, rows) /\ rows \subseteq Rows /\ (updates = 0 => rows = dataset.rows)
      BY <2>1, <2>2, VisibleIsSeen
    <2>5. PICK all : all = s \o SubSeq(Sorted(w, o), 1, m)
      OBVIOUS
    <2>6. /\ all \in Seq(Rows) /\ Len(all) = Len(s) + m
          /\ Ascends(all, o)
          /\ m > 0 => all[Len(s) + m] = Sorted(w, o)[m]
      <3>1. Ascends(s, o)
        BY <2>1, <2>2 DEF OrderInv
      <3>2. m \in 0..Cardinality(Owed(rows, s, o))
        BY <2>2, <2>3
      <3>3. LET page == SubSeq(Sorted(Owed(rows, s, o), o), 1, m)
            IN  /\ s \o page \in Seq(Rows) /\ Len(s \o page) = Len(s) + m
                /\ Ascends(s \o page, o)
                /\ m > 0 => (s \o page)[Len(s) + m] = Sorted(Owed(rows, s, o), o)[m]
        BY <2>2, <2>4, <3>1, <3>2, PageAscends
      <3> QED
        BY <2>2, <2>5, <3>3
    <2>7. /\ order' = o /\ sent' = Remembered(all)
          /\ sent' \in Seq(Rows) /\ Ascends(sent', o)
          /\ all # <<>> => sent' # <<>> /\ sent'[Len(sent')] = all[Len(all)]
      <3>1. order' = o /\ sent' = Remembered(all)
        BY <2>1, <2>2, <2>3, <2>5
      <3>2. CASE all = <<>>
        <4>1. Len(all) = 0 /\ MaxSent \in Nat
          BY <3>2, PagingAssumption
        <4>2. sent' = all
          BY <3>1, <4>1 DEF Remembered
        <4> QED
          BY <2>6, <3>1, <3>2, <4>2
      <3>3. CASE all # <<>>
        BY <2>6, <3>1, <3>3, RememberedAscends
      <3> QED
        BY <3>1, <3>2, <3>3
    <2>8. OrderInv'
      BY <2>1, <2>2, <2>7 DEF OrderInv, Started
    <2>9. CursorInv'
      <3>1. SUFFICES ASSUME step' = "ready"
                     PROVE  all # <<>> /\ after' = KeyOf(o, all[Len(all)])
        BY <2>1, <2>7 DEF CursorInv
      <3>2. m > 0 /\ after' = KeyOf(o, Sorted(w, o)[m])
        BY <2>3, <3>1
      <3>3. Len(all) = Len(s) + m /\ all[Len(s) + m] = Sorted(w, o)[m] /\ Len(s) \in Nat
        BY <2>6, <3>2
      <3>4. all # <<>>
        BY <2>3, <3>2, <3>3
      <3> QED
        BY <3>2, <3>3, <3>4
    <2>10. ReadInv'
      BY <2>1 DEF ReadInv
    <2>11. PrefixInv'
      <3>1. SUFFICES ASSUME updates = 0 PROVE PrefixInv'
        BY <2>1 DEF PrefixInv
      <3>2. PICK n \in Nat : n = Len(s)
        BY <2>2
      <3>3. PICK whole : whole = Sorted(rows, o)
        OBVIOUS
      <3>4. /\ rows = dataset.rows /\ o = EffectiveOrder
            /\ n <= Cardinality(rows) /\ s = SubSeq(whole, 1, n)
        BY <2>1, <2>2, <2>4, <3>1, <3>2, <3>3 DEF PrefixInv, Started
      <3>5. Cardinality(rows) \in Nat /\ n \in 0..Cardinality(rows)
        BY <2>4, <3>2, <3>4, FS_CardinalityType DEF Tells
      <3>6. Cardinality(w) = Cardinality(rows) - n
        <4>1. Cardinality(Owed(rows, SubSeq(Sorted(rows, o), 1, n), o)) = Cardinality(rows) - n
          BY <2>4, <3>5, OwedIsTheRest
        <4> QED
          BY <2>2, <3>3, <3>4, <4>1
      <3>7. m \in 0..Cardinality(rows) - n
        BY <2>3, <3>5, <3>6
      <3>8. all = SubSeq(whole, 1, n + m)
        <4>1. SubSeq(Sorted(rows, o), 1, n)
                \o SubSeq(Sorted(Owed(rows, SubSeq(Sorted(rows, o), 1, n), o), o), 1, m)
              = SubSeq(Sorted(rows, o), 1, n + m)
          BY <2>4, <3>5, <3>7, PageContinues
        <4> QED
          BY <2>2, <2>5, <3>3, <3>4, <4>1
      <3>9. Len(all) = n + m /\ n + m <= Cardinality(rows)
        BY <2>6, <3>2, <3>5, <3>7
      <3>10. step' = "done" => n + m = Cardinality(rows)
        BY <2>3, <3>2, <3>5, <3>6
      <3>11. EffectiveOrder' = EffectiveOrder
        BY <2>1 DEF EffectiveOrder
      <3>12. sent' = all
        <4>1. Cardinality(rows) < MaxSent /\ MaxSent \in Nat
          BY <2>1, <3>4, DatasetProperties, PagingAssumption DEF PagingTypes
        <4>2. Len(all) <= MaxSent
          BY <3>2, <3>5, <3>7, <3>9, <4>1
        <4> QED
          BY <2>7, <4>2 DEF Remembered
      <3> QED
        BY <2>1, <2>7, <3>3, <3>4, <3>8, <3>9, <3>10, <3>11, <3>12 DEF PrefixInv
    <2> QED
      BY <2>8, <2>9, <2>10, <2>11
  <1> QED
    BY <1>1, <1>2 DEF PagingInv

(* Every step keeps the invariant.                                          *)
LEMMA PagingIsInductive ==
  ASSUME PagingInv, [PagingNext]_pagingVars
  PROVE  PagingInv'
  <1>1. CASE \E d \in Datasets : Update(d)
    BY <1>1, UpdateKeeps
  <1>2. CASE Build
    BY <1>2, BuildKeeps
  <1>3. CASE Count
    BY <1>3, CountKeeps
  <1>4. CASE Boundary
    BY <1>4, BoundaryKeeps
  <1>5. CASE Send
    BY <1>5, SendKeeps
  <1>6. CASE UNCHANGED pagingVars
    BY <1>6 DEF pagingVars, PagingInv, PagingTypes, Stable, Started, OrderInv, CursorInv,
       ReadInv, PrefixInv, EffectiveOrder
  <1> QED
    BY <1>1, <1>2, <1>3, <1>4, <1>5, <1>6 DEF PagingNext

(* It says of a finished export that it is whole.                           *)
LEMMA PagingInvIsEnough ==
  ASSUME PagingInv
  PROVE  ExportIsWhole
  <1>1. PagesAscend
    BY DEF PagesAscend, PagingInv, Stable, OrderInv, Ascends
  <1>2. PagesAreTheExport
    <2>1. SUFFICES ASSUME step = "done", updates = 0
                   PROVE  sent = Sorted(dataset.rows, order)
      BY DEF PagesAreTheExport
    <2>2. PagingTypes /\ OrderInv /\ PrefixInv /\ Started
      BY <2>1 DEF PagingInv, Stable, Started
    <2>3. PICK rows, o : rows = dataset.rows /\ o = order /\ Tells(o, rows)
      BY <2>2, StartedOrder
    <2>4. Sorted(rows, o) \in Seq(rows) /\ Len(Sorted(rows, o)) = Cardinality(rows)
      BY <2>3, SortedProperties
    <2>5. sent = SubSeq(Sorted(rows, o), 1, Len(Sorted(rows, o)))
      BY <2>1, <2>2, <2>3, <2>4 DEF PrefixInv
    <2>6. SubSeq(Sorted(rows, o), 1, Len(Sorted(rows, o))) = Sorted(rows, o)
      BY <2>4, SubSeqFull
    <2> QED
      BY <2>3, <2>5, <2>6
  <1> QED
    BY <1>1, <1>2 DEF ExportIsWhole

(* completeTotalOrder(), buildAfterPredicate(), probeExport(): the pages of *)
(* an export that nothing updates concatenate to the export, and a row is   *)
(* never sent twice as long as a request sees one state of the data,        *)
(* whatever the columns, the NULLs and ties of the data, the sort and the   *)
(* page size.                                                               *)
THEOREM ResumedExportIsWhole == PagingSpec => []ExportIsWhole
  <1>1. PagingSpec => []PagingInv
    <2>1. PagingInit => PagingInv
      BY PagingStarts
    <2>2. PagingInv /\ [PagingNext]_pagingVars => PagingInv'
      BY PagingIsInductive
    <2> QED
      BY <2>1, <2>2, PTL DEF PagingSpec
  <1>2. PagingInv => ExportIsWhole
    BY PagingInvIsEnough
  <1> QED
    BY <1>1, <1>2, PTL

=============================================================================
