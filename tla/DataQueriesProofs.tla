---------------------------- MODULE DataQueriesProofs ----------------------------
(***************************************************************************)
(* That the pages of a query are its result: for every data, every sort    *)
(* and every size of page, of facts, aggregates and comparisons, in both   *)
(* formats.  That a comparison sets the same aggregate of both datasets    *)
(* side by side, for each group that both have.                            *)
(***************************************************************************)
EXTENDS DataQueries, KeysetPagingProofs

-----------------------------------------------------------------------------
(* Division                                                                 *)

(* The quotient and the remainder of k by w are the only ones.              *)
LEMMA DivisionIsUnique ==
  ASSUME NEW w \in Nat \ {0}, NEW k \in Nat, NEW n \in Nat, NEW m \in 0..w - 1, k = n * w + m
  PROVE  k \div w = n /\ k % w = m
  OBVIOUS

LEMMA DivisionExists ==
  ASSUME NEW w \in Nat \ {0}, NEW k \in Nat
  PROVE  /\ k \div w \in Nat /\ k % w \in 0..w - 1
         /\ k = (k \div w) * w + (k % w)
  OBVIOUS

LEMMA DivisionBounded ==
  ASSUME NEW w \in Nat \ {0}, NEW n \in Nat, NEW k \in 0..n * w - 1
  PROVE  k \div w < n
  OBVIOUS

LEMMA DivisionBelow ==
  ASSUME NEW w \in Nat \ {0}, NEW n \in Nat, NEW i \in 0..n - 1, NEW m \in 0..w - 1
  PROVE  i * w + m \in 0..n * w - 1
  OBVIOUS

-----------------------------------------------------------------------------
(* A page                                                                   *)

(* Rows that the order tells apart come in one order.                       *)
LEMMA OrderingIsSorted ==
  ASSUME NEW items, NEW rows, NEW s \in Orderings(rows, items), Tells(items, rows)
  PROVE  s = Sorted(rows, items)
  <1> DEFINE n == Cardinality(rows)
  <1>1. /\ n \in Nat /\ s \in [1..n -> rows]
        /\ \A i, j \in 1..n : i # j => s[i] # s[j]
        /\ \A i, j \in 1..Len(s) : i < j => ~Before(s[j], s[i], items)
    BY SortedProperties DEF Orderings, SetToSeqs
  <1>2. Len(s) = n
    BY <1>1
  <1>3. \A x \in rows : \E k \in 1..n : s[k] = x
    <2>1. s \in Injection(1..n, rows)
      BY <1>1 DEF Injection, IsInjective
    <2>2. Cardinality(1..n) = Cardinality(rows)
      BY <1>1, FS_Interval
    <2>3. s \in Surjection(1..n, rows)
      BY <2>1, <2>2, FS_Injection DEF Tells
    <2> QED
      BY <2>3 DEF Surjection
  <1>4. IsFiniteSet(rows) /\ TotalOn(Pairs(rows, items), rows)
    BY TellsIsTotal DEF Tells
  <1>5. ASSUME NEW i \in 1..n, NEW j \in 1..n, i < j
        PROVE  <<s[i], s[j]>> \in Pairs(rows, items)
    <2>1. s[i] \in rows /\ s[j] \in rows /\ s[i] # s[j] /\ ~Before(s[j], s[i], items)
      BY <1>1, <1>2, <1>5
    <2>2. <<s[j], s[i]>> \notin Pairs(rows, items)
      BY <2>1 DEF Pairs
    <2> QED
      BY <1>4, <2>1, <2>2 DEF TotalOn
  <1>6. s = Ranked(rows, Pairs(rows, items))
    BY <1>1, <1>3, <1>4, <1>5, RankedIsUnique
  <1> QED
    BY <1>6 DEF Sorted, Pairs

(* A page continues the pages before it.                                    *)
LEMMA NextPageContinues ==
  ASSUME NEW T, NEW s \in Seq(T), NEW limit_ \in Nat, NEW offset_ \in 0..Len(s)
  PROVE  LET end == IF offset_ + limit_ < Len(s) THEN offset_ + limit_ ELSE Len(s)
         IN  /\ SubSeq(s, 1, offset_) \o PageOf(s, limit_, offset_) = SubSeq(s, 1, end)
             /\ SubSeq(s, 1, offset_) \in Seq(T) /\ PageOf(s, limit_, offset_) \in Seq(T)
  <1> DEFINE end == IF offset_ + limit_ < Len(s) THEN offset_ + limit_ ELSE Len(s)
  <1>1. Len(s) \in Nat /\ offset_ \in Nat /\ end \in offset_..Len(s)
    OBVIOUS
  <1>2. PageOf(s, limit_, offset_) = SubSeq(s, offset_ + 1, end)
    BY DEF PageOf
  <1> HIDE DEF end
  <1>3. 1 \in 1..Len(s) + 1 /\ offset_ \in 1 - 1..Len(s) /\ end \in offset_..Len(s)
    BY <1>1
  <1>4. SubSeq(s, 1, offset_) \o SubSeq(s, offset_ + 1, end) = SubSeq(s, 1, end)
    BY <1>3, ConcatAdjacentSubSeq
  <1>5. SubSeq(s, 1, offset_) \in Seq(T) /\ SubSeq(s, offset_ + 1, end) \in Seq(T)
    BY <1>1
  <1> QED
    BY <1>2, <1>4, <1>5 DEF end

(* meltRows() row by row.                                                   *)
LEMMA MeltContinues ==
  ASSUME NEW T, NEW s \in Seq(T), NEW t \in Seq(T), NEW aliases, Len(aliases) \in Nat
  PROVE  MeltRows(s \o t, aliases) = MeltRows(s, aliases) \o MeltRows(t, aliases)
  <1> DEFINE w == Len(aliases)
             n == Len(s)
             m == Len(t)
             At(u, k) == MeltRow(u[(k - 1) \div w + 1], aliases, aliases[((k - 1) % w) + 1])
             F(u) == [k \in 1..Len(u) * w |-> At(u, k)]
  <1>1. n \in Nat /\ m \in Nat /\ Len(s \o t) = n + m /\ w \in Nat
    OBVIOUS
  <1>2. MeltRows(s, aliases) = F(s) /\ MeltRows(t, aliases) = F(t) /\ MeltRows(s \o t, aliases) = F(s \o t)
    BY DEF MeltRows
  <1>3. n * w \in Nat /\ m * w \in Nat /\ (n + m) * w = n * w + m * w
    BY <1>1
  <1> HIDE DEF w, n, m
  <1>4. Len(F(s)) = n * w /\ Len(F(t)) = m * w
    BY <1>3 DEF n, m
  <1>5. \A k \in 1..n * w : At(s \o t, k) = At(s, k)
    <2> TAKE k \in 1..n * w
    <2>1. w # 0 /\ k - 1 \in 0..n * w - 1 /\ k - 1 \in Nat
      BY <1>1, <1>3
    <2>2. (k - 1) \div w \in Nat /\ (k - 1) \div w < n
      BY <1>1, <2>1, DivisionExists, DivisionBounded
    <2>3. (s \o t)[(k - 1) \div w + 1] = s[(k - 1) \div w + 1]
      BY <1>1, <2>2 DEF n
    <2> QED
      BY <2>3
  <1>6. \A k \in 1..m * w : At(s \o t, n * w + k) = At(t, k)
    <2> TAKE k \in 1..m * w
    <2>1. w # 0 /\ w \in Nat \ {0} /\ k - 1 \in 0..m * w - 1 /\ k - 1 \in Nat
      BY <1>1, <1>3
    <2> DEFINE i == (k - 1) \div w
               j == (k - 1) % w
    <2>2. i \in Nat /\ i < m /\ j \in 0..w - 1 /\ k - 1 = i * w + j
      BY <1>1, <2>1, DivisionExists, DivisionBounded
    <2> HIDE DEF i, j
    <2>3. (n * w + k) - 1 = (n + i) * w + j /\ (n * w + k) - 1 \in Nat /\ n + i \in Nat
      BY <1>1, <1>3, <2>1, <2>2
    <2>4. ((n * w + k) - 1) \div w = n + i /\ ((n * w + k) - 1) % w = j
      BY <2>1, <2>2, <2>3, DivisionIsUnique
    <2>5. (s \o t)[n + i + 1] = t[i + 1]
      BY <1>1, <2>2 DEF n, m
    <2> QED
      BY <2>4, <2>5 DEF i, j
  <1> DEFINE V == {At(s, k) : k \in 1..n * w} \cup {At(t, k) : k \in 1..m * w}
  <1>7. F(s) \in Seq(V) /\ F(t) \in Seq(V)
    <2> HIDE DEF At
    <2>1. F(s) = [k \in 1..n * w |-> At(s, k)] /\ F(t) = [k \in 1..m * w |-> At(t, k)]
      BY DEF n, m
    <2> DEFINE a == n * w
               b == m * w
    <2>2. a \in Nat /\ b \in Nat
      BY <1>3
    <2>3. V = {At(s, k) : k \in 1..a} \cup {At(t, k) : k \in 1..b}
      OBVIOUS
    <2>4. F(s) = [k \in 1..a |-> At(s, k)] /\ F(t) = [k \in 1..b |-> At(t, k)]
      BY <2>1
    <2> HIDE DEF F, V, a, b
    <2>5. [k \in 1..a |-> At(s, k)] \in Seq(V) /\ [k \in 1..b |-> At(t, k)] \in Seq(V)
      BY <2>2, <2>3
    <2> QED
      BY <2>4, <2>5
  <1>8. /\ Len(F(s \o t)) = n * w + m * w
        /\ \A k \in 1..n * w + m * w :
             F(s \o t)[k] = IF k <= n * w THEN F(s)[k] ELSE F(t)[k - n * w]
    <2>1. F(s \o t) = [k \in 1..n * w + m * w |-> At(s \o t, k)]
      BY <1>1, <1>3
    <2> HIDE DEF At
    <2>2. ASSUME NEW k \in 1..n * w + m * w
          PROVE  At(s \o t, k) = IF k <= n * w THEN F(s)[k] ELSE F(t)[k - n * w]
      <3>1. CASE k <= n * w
        BY <1>3, <1>5, <3>1 DEF n
      <3>2. CASE ~(k <= n * w)
        <4>1. k - n * w \in 1..m * w /\ n * w + (k - n * w) = k
          BY <1>3, <3>2
        <4> QED
          BY <1>6, <3>2, <4>1 DEF m
      <3> QED
        BY <3>1, <3>2
    <2> HIDE DEF F
    <2> QED
      BY <1>3, <2>1, <2>2
  <1> HIDE DEF F, At, V
  <1>9. /\ F(s) \o F(t) \in Seq(V) /\ Len(F(s) \o F(t)) = n * w + m * w
        /\ \A k \in 1..n * w + m * w :
             (F(s) \o F(t))[k] = IF k <= n * w THEN F(s)[k] ELSE F(t)[k - n * w]
    <2> DEFINE a == n * w
               b == m * w
    <2>1. a \in Nat /\ b \in Nat /\ Len(F(s)) = a /\ Len(F(t)) = b
      BY <1>3, <1>4
    <2> HIDE DEF a, b
    <2>2. /\ F(s) \o F(t) \in Seq(V) /\ Len(F(s) \o F(t)) = a + b
          /\ \A k \in 1..a + b : (F(s) \o F(t))[k] = IF k <= a THEN F(s)[k] ELSE F(t)[k - a]
      BY <1>7, <2>1, ConcatProperties
    <2> QED
      BY <2>2 DEF a, b
  <1>10. F(s \o t) = F(s) \o F(t)
    <2>1. /\ F(s \o t) = [k \in 1..n * w + m * w |-> F(s \o t)[k]]
      BY <1>1, <1>3 DEF F
    <2>2. F(s) \o F(t) = [k \in 1..n * w + m * w |-> (F(s) \o F(t))[k]]
      BY <1>9, LenProperties
    <2> QED
      BY <1>8, <1>9, <2>1, <2>2
  <1> QED
    BY <1>2, <1>10

(* A page is shaped row by row.                                             *)
LEMMA ShapedContinues ==
  ASSUME NEW q \in Requests, NEW metadata, NEW T, NEW s \in Seq(T), NEW t \in Seq(T), q.kind \in Paged
  PROVE  Shaped(q, metadata, s) \o Shaped(q, metadata, t) = Shaped(q, metadata, s \o t)
  <1>1. CASE ~Long(q)
    BY <1>1 DEF Shaped
  <1>2. CASE Long(q)
    <2> DEFINE aliases == Aliases(ResolvedAggregates(q, metadata[1]))
    <2>1. Len(q.aggregates) \in Nat
      BY <1>2, QueryAssumption DEF Long
    <2>2. Len(aliases) = Len(q.aggregates)
      BY <2>1 DEF Aliases, ResolvedAggregates, Map
    <2> HIDE DEF aliases
    <2>3. MeltRows(s \o t, aliases) = MeltRows(s, aliases) \o MeltRows(t, aliases)
      BY <2>1, <2>2, MeltContinues
    <2> QED
      BY <1>2, <2>3 DEF Shaped, aliases
  <1> QED
    BY <1>1, <1>2

LEMMA ShapedEmpty ==
  ASSUME NEW q, NEW metadata
  PROVE  Shaped(q, metadata, <<>>) = <<>>
  <1> DEFINE aliases == Aliases(ResolvedAggregates(q, metadata[1]))
  <1>1. Len(aliases) = Len(q.aggregates)
    BY DEF Aliases, ResolvedAggregates, Map
  <1>2. MeltRows(<<>>, aliases) = <<>>
    BY DEF MeltRows
  <1> QED
    BY <1>2 DEF Shaped

-----------------------------------------------------------------------------
(* What an aggregate returns                                                *)

LEMMA ImageIsFinite ==
  ASSUME NEW S, NEW f, IsFiniteSet(S)
  PROVE  IsFiniteSet({f[x] : x \in S})
  <1> DEFINE T == {f[x] : x \in S}
             g == [x \in S |-> f[x]]
  <1>1. g \in Surjection(S, T)
    BY DEF Surjection
  <1> QED
    BY <1>1, FS_Surjection

(* A finite set of integers has a least and a greatest one.                 *)
LEMMA IntegersHaveEnds ==
  ASSUME NEW S, S \subseteq Int, IsFiniteSet(S), S # {}
  PROVE  /\ \E v \in S : \A w \in S : v <= w
         /\ \E v \in S : \A w \in S : w <= v
  <1> DEFINE R == {p \in S \X S : p[1] < p[2]}
             n == Cardinality(S)
             s == Ranked(S, R)
  <1>1. TotalOn(R, S)
    BY DEF TotalOn
  <1>2. /\ n \in Nat /\ s \in [1..n -> S]
        /\ \A x \in S : \E k \in 1..n : s[k] = x
        /\ \A i, j \in 1..n : i < j => <<s[i], s[j]>> \in R
    <2> HIDE DEF R
    <2> QED
      BY <1>1, RankedIsSorted
  <1> HIDE DEF s, n
  <1>3. n > 0 /\ 1 \in 1..n /\ n \in 1..n
    <2>1. PICK x \in S : TRUE
      OBVIOUS
    <2>2. PICK k \in 1..n : s[k] = x
      BY <1>2
    <2> QED
      BY <1>2, <2>2
  <1>4. \A i, j \in 1..n : i < j => s[i] < s[j]
    BY <1>2
  <1>5. \A w \in S : s[1] <= w /\ w <= s[n]
    <2> TAKE w \in S
    <2>1. PICK k \in 1..n : s[k] = w
      BY <1>2
    <2>2. /\ k = 1 \/ (1 < k /\ s[1] < s[k])
          /\ k = n \/ (k < n /\ s[k] < s[n])
      BY <1>2, <1>3, <1>4
    <2>3. s[1] \in Int /\ s[n] \in Int /\ s[k] \in Int
      BY <1>2, <1>3
    <2> QED
      BY <2>1, <2>2, <2>3
  <1> QED
    BY <1>2, <1>3, <1>5

(* A sum is an integer.                                                     *)
LEMMA UnitsAreFinite ==
  ASSUME NEW K, NEW h \in [K -> Int], IsFiniteSet(K)
  PROVE  IsFiniteSet(UNION {{<<r, k>> : k \in 1..h[r]} : r \in K})
  <1> DEFINE T(r) == {<<r, k>> : k \in 1..h[r]}
             g == [r \in K |-> T(r)]
  <1>1. \A r \in K : IsFiniteSet(T(r))
    <2> TAKE r \in K
    <2> DEFINE u == [k \in 1..h[r] |-> <<r, k>>]
    <2>1. IsFiniteSet(1..h[r])
      BY FS_Interval
    <2>2. IsFiniteSet({u[k] : k \in 1..h[r]})
      <3> HIDE DEF u
      <3> QED
        BY <2>1, ImageIsFinite
    <2>3. {u[k] : k \in 1..h[r]} = T(r)
      OBVIOUS
    <2> QED
      BY <2>2, <2>3
  <1>2. {g[r] : r \in K} = {T(r) : r \in K}
    OBVIOUS
  <1>3. IsFiniteSet({T(r) : r \in K})
    <2> HIDE DEF g, T
    <2> QED
      BY <1>2, ImageIsFinite
  <1>4. \A U \in {T(r) : r \in K} : IsFiniteSet(U)
    BY <1>1
  <1> HIDE DEF T
  <1>5. IsFiniteSet(UNION {T(r) : r \in K})
    BY <1>3, <1>4, FS_UNION
  <1> QED
    BY <1>5 DEF T

LEMMA AggregateValueType ==
  ASSUME NEW aggregation \in Aggregations, NEW measure, NEW rows, IsFiniteSet(rows),
         \A r \in rows : r[measure] \in Values
  PROVE  AggregateValue(aggregation, measure, rows) \in Values
  <1> DEFINE known == {r \in rows : r[measure] # Null}
             values == {r[measure] : r \in known}
             n == Cardinality(known)
  <1>1. IsFiniteSet(known) /\ n \in Nat /\ \A r \in known : r[measure] \in Int
    BY FS_Subset, FS_CardinalityType DEF Values
  <1>2. IsFiniteSet(values) /\ values \subseteq Int /\ (known # {} => values # {})
    <2> DEFINE f == [r \in known |-> r[measure]]
    <2>1. {f[r] : r \in known} = values
      OBVIOUS
    <2>2. IsFiniteSet({f[r] : r \in known})
      <3> HIDE DEF f, known
      <3> QED
        BY <1>1, ImageIsFinite
    <2> QED
      BY <1>1, <2>1, <2>2
  <1> HIDE DEF known, values, n
  <1>3. known # {} => n > 0
    BY <1>1, FS_EmptySet DEF n
  <1>4. CASE aggregation = "COUNT"
    BY <1>1, <1>4 DEF AggregateValue, Values, n, known
  <1>5. CASE aggregation # "COUNT" /\ known = {}
    BY <1>5 DEF AggregateValue, Values, known
  <1>6. SumOf(known, LAMBDA r : r[measure]) \in Int
    <2> DEFINE h == [r \in known |-> r[measure]]
               g == [r \in known |-> -r[measure]]
               A == UNION {{<<r, k>> : k \in 1..h[r]} : r \in known}
               B == UNION {{<<r, k>> : k \in 1..g[r]} : r \in known}
    <2>1. h \in [known -> Int] /\ g \in [known -> Int]
      BY <1>1
    <2>2. IsFiniteSet(A) /\ IsFiniteSet(B)
      <3> HIDE DEF h, g
      <3> QED
        BY <1>1, <2>1, UnitsAreFinite
    <2>3. /\ A = UNION {{<<r, k>> : k \in 1..1 * r[measure]} : r \in known}
          /\ B = UNION {{<<r, k>> : k \in 1..(-1) * r[measure]} : r \in known}
      <3>1. \A r \in known : h[r] = 1 * r[measure] /\ g[r] = (-1) * r[measure]
        BY <1>1
      <3> HIDE DEF h, g
      <3> QED
        BY <3>1
    <2>4. SumOf(known, LAMBDA r : r[measure]) = Cardinality(A) - Cardinality(B)
      <3> HIDE DEF A, B
      <3> QED
        BY <2>3 DEF SumOf
    <2> QED
      BY <2>2, <2>4, FS_CardinalityType
  <1>7. CASE aggregation \in {"SUM", "AVG"} /\ known # {}
    <2>1. SumOf(known, LAMBDA r : r[measure]) \div n \in Int
      BY <1>1, <1>3, <1>6, <1>7
    <2> QED
      BY <1>6, <1>7, <2>1 DEF AggregateValue, Values, n, known
  <1>8. CASE aggregation \in {"MIN", "MAX"} /\ known # {}
    <2>1. /\ \E v \in values : \A w \in values : v <= w
          /\ \E v \in values : \A w \in values : w <= v
      BY <1>2, <1>8, IntegersHaveEnds
    <2> QED
      BY <1>2, <1>8, <2>1 DEF AggregateValue, Values, known, values
  <1>9. CASE aggregation = "MEDIAN" /\ known # {}
    <2> DEFINE Rank(r) == Cardinality({q \in known : q[measure] < r[measure]})
               below == {r \in known : 2 * Rank(r) <= n}
               M == {r[measure] : r \in below}
    <2>1. PICK v \in values : \A w \in values : v <= w
      BY <1>2, <1>9, IntegersHaveEnds
    <2>2. PICK r \in known : r[measure] = v
      BY DEF values
    <2>3. {q \in known : q[measure] < r[measure]} = {}
      BY <1>1, <2>1, <2>2 DEF values
    <2>4. Rank(r) = 0
      BY <2>3, FS_EmptySet
    <2>5. r \in below
      BY <1>1, <2>4
    <2> HIDE DEF below
    <2>6. M \subseteq values /\ M # {}
      BY <2>5 DEF values, below
    <2>7. IsFiniteSet(M) /\ M \subseteq Int
      BY <1>2, <2>6, FS_Subset
    <2>8. \E u \in M : \A w \in M : w <= u
      BY <2>6, <2>7, IntegersHaveEnds
    <2>9. \E u \in M : \A q \in below : q[measure] <= u
      BY <2>8
    <2>10. (CHOOSE u \in M : \A q \in below : q[measure] <= u) \in Int
      BY <2>7, <2>9
    <2>11. AggregateValue(aggregation, measure, rows) = CHOOSE u \in M : \A q \in below : q[measure] <= u
      BY <1>9 DEF AggregateValue, below, known, n
    <2> QED
      BY <2>10, <2>11 DEF Values
  <1>10. CASE aggregation = "MODE" /\ known # {}
    <2> DEFINE Times(v) == Cardinality({r \in known : r[measure] = v})
               t == [v \in values |-> Times(v)]
               T == {t[v] : v \in values}
               M == {v \in values : \A w \in values : Times(w) <= Times(v)}
    <2>1. \A v \in values : Times(v) \in Nat
      BY <1>1, FS_Subset, FS_CardinalityType
    <2>2. IsFiniteSet(T)
      <3> HIDE DEF t
      <3> QED
        BY <1>2, ImageIsFinite
    <2>3. T \subseteq Int /\ T # {}
      <3> HIDE DEF Times
      <3>1. \A v \in values : t[v] \in Nat
        BY <2>1
      <3>2. PICK v \in values : TRUE
        BY <1>2, <1>10
      <3> HIDE DEF t
      <3> QED
        BY <3>1, <3>2
    <2>4. PICK c \in T : \A d \in T : d <= c
      BY <2>2, <2>3, IntegersHaveEnds
    <2>5. PICK v \in values : \A w \in values : Times(w) <= Times(v)
      BY <2>4
    <2> HIDE DEF Times
    <2>6. M \subseteq Int /\ M # {} /\ IsFiniteSet(M)
      BY <1>2, <2>5, FS_Subset
    <2>7. \E u \in M : \A w \in M : u <= w
      BY <2>6, IntegersHaveEnds
    <2>8. AggregateValue(aggregation, measure, rows) = CHOOSE u \in M : \A w \in M : u <= w
      BY <1>10 DEF AggregateValue, Times, known, values
    <2> HIDE DEF M
    <2> QED
      BY <2>6, <2>7, <2>8 DEF Values
  <1> QED
    BY <1>4, <1>5, <1>7, <1>8, <1>9, <1>10 DEF Aggregations

-----------------------------------------------------------------------------
(* The sort of aggregates                                                   *)

SortItems(S) == [field : S, dir : {"ASC", "DESC"}]

LEMMA AscOfFields ==
  ASSUME NEW S, NEW fields \in Seq(S)
  PROVE  /\ Asc(fields) \in Seq(SortItems(S)) /\ Len(Asc(fields)) = Len(fields)
         /\ \A i \in 1..Len(fields) : Asc(fields)[i] = [field |-> fields[i], dir |-> "ASC"]
  BY DEF Asc, SortItems

(* The first item of each column: every column is still there, once, and    *)
(* what the client's items order is ordered the same.                       *)
LEMMA ResolvedSortProperties ==
  ASSUME NEW S, NEW s \in Seq(SortItems(S)), NEW fields \in Seq(S)
  PROVE  /\ Len(ResolvedSort(s, fields)) \in Nat
         /\ \A i \in 1..Len(ResolvedSort(s, fields)) : ResolvedSort(s, fields)[i] \in SortItems(S)
         /\ Fields(s) \subseteq Fields(ResolvedSort(s, fields))
         /\ ToSet(fields) \subseteq Fields(ResolvedSort(s, fields))
         /\ \A r, q : /\ Reads(ResolvedSort(s, fields), r) /\ Reads(ResolvedSort(s, fields), q)
                      /\ Before(r, q, s)
                      => Before(r, q, ResolvedSort(s, fields))
  <1> DEFINE all == s \o Asc(fields)
             A == {i \in 1..Len(all) : \A j \in 1..i - 1 : all[j].field # all[i].field}
             t == Pick(all, A)
  <1>1. /\ all \in Seq(SortItems(S)) /\ Len(all) \in Nat /\ Len(s) \in Nat /\ Len(s) <= Len(all)
        /\ \A i \in 1..Len(s) : all[i] = s[i]
        /\ \A i \in 1..Len(fields) : \E k \in 1..Len(all) : all[k].field = fields[i]
    <2>1. /\ Asc(fields) \in Seq(SortItems(S)) /\ Len(Asc(fields)) = Len(fields)
          /\ \A i \in 1..Len(fields) : Asc(fields)[i].field = fields[i]
      <3>1. \A i \in 1..Len(fields) : Asc(fields)[i] = [field |-> fields[i], dir |-> "ASC"]
        BY AscOfFields
      <3>2. Asc(fields) \in Seq(SortItems(S)) /\ Len(Asc(fields)) = Len(fields)
        BY AscOfFields
      <3>3. ASSUME NEW i \in 1..Len(fields) PROVE Asc(fields)[i].field = fields[i]
        <4>1. Asc(fields)[i] = [field |-> fields[i], dir |-> "ASC"]
          BY <3>1
        <4> QED
          BY <4>1
      <3> QED
        BY <3>2, <3>3
    <2>2. ASSUME NEW i \in 1..Len(fields) PROVE \E k \in 1..Len(all) : all[k].field = fields[i]
      <3>1. Len(s) + i \in 1..Len(all) /\ all[Len(s) + i] = Asc(fields)[i]
        BY <2>1
      <3> QED
        BY <2>1, <3>1
    <2>3. /\ all \in Seq(SortItems(S)) /\ Len(all) = Len(s) + Len(Asc(fields))
          /\ \A i \in 1..Len(s) : all[i] = s[i]
      <3>1. Asc(fields) \in Seq(SortItems(S))
        BY <2>1
      <3> QED
        BY <3>1, ConcatProperties
    <2>4. Len(s) \in Nat /\ Len(fields) \in Nat
      OBVIOUS
    <2> HIDE DEF all
    <2> QED
      BY <2>1, <2>2, <2>3, <2>4
  <1>2. ResolvedSort(s, fields) = t
    BY DEF ResolvedSort
  <1> HIDE DEF all
  <1>3. A \subseteq 1..Len(all)
    OBVIOUS
  <1>4. Len(t) \in Nat
    <2> HIDE DEF A
    <2> QED
      BY <1>1, <1>3, PickProperties
  <1>5. PICK places : Goes(t, all, A, places)
    <2> HIDE DEF A
    <2> QED
      BY <1>1, <1>3, PickProperties
  <1> HIDE DEF t
  <1>6. ASSUME NEW k \in 1..Len(t)
        PROVE  places[k] \in A /\ places[k] \in 1..Len(all) /\ t[k] = all[places[k]]
    BY <1>5 DEF Goes
  <1>7. \A i \in 1..Len(t) : t[i] \in SortItems(S)
    BY <1>1, <1>6
  <1>8. ASSUME NEW i \in 1..Len(all) PROVE all[i].field \in Fields(t)
    <2> DEFINE K == {j \in 1..Len(all) : all[j].field = all[i].field}
    <2>1. PICK j \in K : \A l \in K : j <= l
      <3>1. K \subseteq Nat /\ i \in K
        OBVIOUS
      <3> HIDE DEF K
      <3> QED
        BY <3>1, LeastNatural
    <2>2. j \in A
      BY <1>1, <2>1
    <2>3. PICK k \in 1..Len(t) : places[k] = j
      BY <1>5, <2>2 DEF Goes
    <2> QED
      BY <1>6, <2>1, <2>3 DEF Fields
  <1>9. Fields(s) \subseteq Fields(t)
    <2> SUFFICES ASSUME NEW i \in 1..Len(s) PROVE s[i].field \in Fields(t)
      BY DEF Fields
    <2>1. i \in 1..Len(all) /\ all[i] = s[i]
      BY <1>1
    <2> QED
      BY <1>8, <2>1
  <1>10. ToSet(fields) \subseteq Fields(t)
    BY <1>1, <1>8 DEF ToSet
  <1>11. ASSUME NEW r, NEW q, Reads(t, r), Reads(t, q), Before(r, q, s)
         PROVE  Before(r, q, t)
    <2>1. PICK i \in 1..Len(s) : /\ \A j \in 1..i - 1 : r[s[j].field] = q[s[j].field]
                                 /\ Lower(r[s[i].field], q[s[i].field], s[i].dir)
      BY <1>11 DEF Before
    <2>2. i \in 1..Len(all) /\ all[i] = s[i] /\ \A j \in 1..i - 1 : all[j] = s[j]
      <3>1. Len(s) \in Nat /\ i \in 1..Len(s) /\ \A j \in 1..i - 1 : j \in 1..Len(s)
        OBVIOUS
      <3>2. Len(all) \in Nat /\ Len(s) <= Len(all) /\ \A j \in 1..Len(s) : all[j] = s[j]
        BY <1>1
      <3> QED
        BY <3>1, <3>2
    <2>3. r[s[i].field] # q[s[i].field]
      <3>1. s[i].field \in Fields(t)
        BY <1>8, <2>2
      <3>2. r[s[i].field] \in Values
        BY <1>11, <3>1 DEF Reads, Fields
      <3>3. s[i].dir \in {"ASC", "DESC"}
        <4>1. s[i] \in SortItems(S)
          OBVIOUS
        <4> QED
          BY <4>1 DEF SortItems
      <3> QED
        BY <2>1, <3>2, <3>3, LowerIsTotal
    <2>4. i \in A
      BY <2>1, <2>2, <2>3
    <2>5. PICK k \in 1..Len(t) : places[k] = i
      BY <1>5, <2>4 DEF Goes
    <2>6. t[k] = s[i]
      BY <1>6, <2>2, <2>5
    <2>7. ASSUME NEW l \in 1..k - 1 PROVE r[t[l].field] = q[t[l].field]
      <3>1. l \in 1..Len(t) /\ l < k
        BY <1>4
      <3>2. places[l] \in 1..i - 1
        BY <1>1, <1>5, <1>6, <2>5, <3>1 DEF Goes
      <3>3. t[l] = s[places[l]]
        BY <1>6, <2>2, <3>1, <3>2
      <3> QED
        BY <2>1, <3>2, <3>3
    <2> QED
      BY <2>1, <2>6, <2>7 DEF Before
  <1> QED
    BY <1>2, <1>4, <1>7, <1>9, <1>10, <1>11

-----------------------------------------------------------------------------
(* GROUP BY                                                                 *)

(* What the statement of an aggregate reads of its facts; groups of one     *)
(* column are the same group.                                               *)
Groupable(params, rows) ==
  /\ IsFiniteSet(rows)
  /\ params.groups \in Seq(ToSet(params.groups))
  /\ params.aggregates \in Seq(ToSet(params.aggregates))
  /\ \A g, h \in ToSet(params.groups) : g.field = h.field => g.grain = h.grain
  /\ \A r \in rows : \A g \in ToSet(params.groups) :
       r[g.field] \in Values /\ (g.label # Null => r[g.label] \in Values)
  /\ \A a \in ToSet(params.aggregates) :
       a.aggregation \in Aggregations /\ \A r \in rows : r[a.measure] \in Values

ColumnsOf(params) == ToSet(OutputColumns(params.groups, params.aggregates, params.rowCount))

LEMMA GroupValueType ==
  ASSUME NEW g, NEW r, r[g.field] \in Values
  PROVE  GroupValue(g, r) \in Values
  <1>1. \A v \in Int : 2 * (v \div 2) \in Int
    OBVIOUS
  <1> QED
    BY <1>1 DEF GroupValue, Values

(* The elements of a sequence's parts are its own.                          *)
LEMMA ToSetOfConcat ==
  ASSUME NEW V, NEW s \in Seq(V), NEW t \in Seq(V)
  PROVE  s \o t \in Seq(V) /\ ToSet(s \o t) = ToSet(s) \cup ToSet(t)
  <1>1. /\ s \o t \in Seq(V) /\ Len(s \o t) = Len(s) + Len(t)
        /\ \A i \in 1..Len(s) : (s \o t)[i] = s[i]
        /\ \A i \in 1..Len(t) : (s \o t)[Len(s) + i] = t[i]
    OBVIOUS
  <1>2. Len(s) \in Nat /\ Len(t) \in Nat
    OBVIOUS
  <1>3. /\ DOMAIN s = 1..Len(s) /\ DOMAIN t = 1..Len(t) /\ DOMAIN (s \o t) = 1..Len(s) + Len(t)
    BY <1>1
  <1>4. ASSUME NEW i \in 1..Len(s) + Len(t) PROVE (s \o t)[i] \in ToSet(s) \cup ToSet(t)
    <2>1. CASE i \in 1..Len(s)
      BY <1>1, <1>3, <2>1 DEF ToSet
    <2>2. CASE i \notin 1..Len(s)
      <3>1. i - Len(s) \in 1..Len(t) /\ Len(s) + (i - Len(s)) = i
        BY <1>2, <2>2
      <3> QED
        BY <1>1, <1>3, <3>1 DEF ToSet
    <2> QED
      BY <2>1, <2>2
  <1>5. ASSUME NEW i \in 1..Len(t) PROVE t[i] \in ToSet(s \o t)
    <2>1. Len(s) + i \in 1..Len(s) + Len(t)
      BY <1>2
    <2> QED
      BY <1>1, <1>3, <2>1 DEF ToSet
  <1>6. ASSUME NEW i \in 1..Len(s) PROVE s[i] \in ToSet(s \o t)
    <2>1. i \in 1..Len(s) + Len(t)
      BY <1>2
    <2> QED
      BY <1>1, <1>3, <2>1 DEF ToSet
  <1> QED
    BY <1>1, <1>3, <1>4, <1>5, <1>6 DEF ToSet

LEMMA OutputColumnsAre ==
  ASSUME NEW params, NEW rows, Groupable(params, rows)
  PROVE  /\ \A g \in ToSet(params.groups) : g.field \in ColumnsOf(params)
         /\ \A a \in ToSet(params.aggregates) : a.alias \in ColumnsOf(params)
         /\ \A g \in ToSet(params.groups) : g.field \in ToSet(Map(params.groups, LAMBDA h : h.field))
         /\ \A c \in ToSet(Map(params.groups, LAMBDA g : g.field)) :
              \E g \in ToSet(params.groups) : g.field = c
         /\ \A c \in ToSet(LabelColumns(params.groups)) :
              \E g \in ToSet(params.groups) : g.label # Null /\ LabelColumnOf(g.field) = c
         /\ \A c \in ToSet(Aliases(params.aggregates)) :
              \E a \in ToSet(params.aggregates) : a.alias = c
  <1> DEFINE groups == params.groups
             aggregates == params.aggregates
             labelled == {g \in ToSet(groups) : g.label # Null}
             kept == Keep(groups, labelled)
             F == [i \in 1..Len(groups) |-> groups[i].field]
             L == [i \in 1..Len(kept) |-> LabelColumnOf(kept[i].field)]
             A == [i \in 1..Len(aggregates) |-> aggregates[i].alias]
             C == IF params.rowCount THEN <<"row_count">> ELSE <<>>
  <1>1. groups \in Seq(ToSet(groups)) /\ aggregates \in Seq(ToSet(aggregates))
    BY DEF Groupable
  <1>2. kept \in Seq(ToSet(groups) \cap labelled)
    <2> HIDE DEF labelled, groups
    <2> QED
      BY <1>1, KeepProperties
  <1>3. /\ Map(groups, LAMBDA g : g.field) = F /\ LabelColumns(groups) = L
        /\ Aliases(aggregates) = A
    BY DEF Map, LabelColumns, Aliases
  <1>4. OutputColumns(groups, aggregates, params.rowCount) = F \o L \o A \o C
    BY <1>3 DEF OutputColumns
  <1> DEFINE V == {F[i] : i \in 1..Len(groups)} \cup {L[i] : i \in 1..Len(kept)}
                  \cup {A[i] : i \in 1..Len(aggregates)} \cup {"row_count"}
  <1> HIDE DEF groups, aggregates, labelled, kept
  <1>5. /\ F \in Seq(V) /\ L \in Seq(V) /\ A \in Seq(V) /\ C \in Seq(V)
    <2>1. Len(groups) \in Nat /\ Len(kept) \in Nat /\ Len(aggregates) \in Nat
      BY <1>1, <1>2
    <2>2. /\ \A i \in 1..Len(groups) : F[i] \in V
          /\ \A i \in 1..Len(kept) : L[i] \in V
          /\ \A i \in 1..Len(aggregates) : A[i] \in V
      OBVIOUS
    <2>3. "row_count" \in V
      OBVIOUS
    <2> HIDE DEF V
    <2>4. F \in Seq(V)
      BY <2>1, <2>2
    <2>5. L \in Seq(V)
      BY <2>1, <2>2
    <2>6. A \in Seq(V)
      BY <2>1, <2>2
    <2>7. C \in Seq(V)
      BY <2>3
    <2> QED
      BY <2>4, <2>5, <2>6, <2>7
  <1>6. ToSet(F \o L \o A \o C) = ToSet(F) \cup ToSet(L) \cup ToSet(A) \cup ToSet(C)
    <2> HIDE DEF F, L, A, C, V
    <2>1. F \o L \in Seq(V) /\ ToSet(F \o L) = ToSet(F) \cup ToSet(L)
      BY <1>5, ToSetOfConcat
    <2>2. PICK FL \in Seq(V) : FL = F \o L
      BY <2>1
    <2>3. FL \o A \in Seq(V) /\ ToSet(FL \o A) = ToSet(FL) \cup ToSet(A)
      BY <1>5, ToSetOfConcat
    <2>4. PICK FLA \in Seq(V) : FLA = FL \o A
      BY <2>3
    <2>5. ToSet(FLA \o C) = ToSet(FLA) \cup ToSet(C)
      BY <1>5, ToSetOfConcat
    <2> QED
      BY <2>1, <2>2, <2>3, <2>4, <2>5
  <1>7. ASSUME NEW g \in ToSet(groups) PROVE g.field \in ToSet(F)
    <2>1. PICK i \in 1..Len(groups) : groups[i] = g
      BY <1>1 DEF ToSet
    <2>2. i \in DOMAIN F /\ F[i] = g.field
      BY <2>1
    <2> HIDE DEF F
    <2> QED
      BY <2>2 DEF ToSet
  <1>8. ASSUME NEW a \in ToSet(aggregates) PROVE a.alias \in ToSet(A)
    <2>1. PICK i \in 1..Len(aggregates) : aggregates[i] = a
      BY <1>1 DEF ToSet
    <2>2. i \in DOMAIN A /\ A[i] = a.alias
      BY <2>1
    <2> HIDE DEF A
    <2> QED
      BY <2>2 DEF ToSet
  <1>9. ASSUME NEW c \in ToSet(F) PROVE \E g \in ToSet(groups) : g.field = c
    BY <1>1 DEF ToSet
  <1>10. ASSUME NEW c \in ToSet(L)
         PROVE  \E g \in ToSet(groups) : g.label # Null /\ LabelColumnOf(g.field) = c
    BY <1>2 DEF ToSet, labelled
  <1>11. ASSUME NEW c \in ToSet(A) PROVE \E a \in ToSet(aggregates) : a.alias = c
    BY <1>1 DEF ToSet
  <1> HIDE DEF F, L, A, C
  <1>12. ColumnsOf(params) = ToSet(F) \cup ToSet(L) \cup ToSet(A) \cup ToSet(C)
    BY <1>4, <1>6 DEF ColumnsOf, groups, aggregates
  <1> QED
    BY <1>3, <1>7, <1>8, <1>9, <1>10, <1>11, <1>12 DEF groups, aggregates

(* The row of a group: its values, those of its label columns, and its      *)
(* aggregates.                                                              *)
LEMMA AggregateRowType ==
  ASSUME NEW params, NEW rows, NEW group, Groupable(params, rows), group \subseteq rows,
         params.groups # <<>> => group # {}
  PROVE  /\ AggregateRow(params, group) \in [ColumnsOf(params) -> Values]
         /\ params.groups # <<>> =>
              \E some \in group : \A g \in ToSet(params.groups) :
                AggregateRow(params, group)[g.field] = GroupValue(g, some)
  <1> DEFINE some == CHOOSE r \in group : TRUE
             fields == ToSet(Map(params.groups, LAMBDA g : g.field))
             labels == ToSet(LabelColumns(params.groups))
             aliases == ToSet(Aliases(params.aggregates))
             Group(c) == CHOOSE g \in ToSet(params.groups) : g.field = c
             Labelled(c) == CHOOSE g \in ToSet(params.groups) : g.label # Null /\ LabelColumnOf(g.field) = c
             Aggregate(c) == CHOOSE a \in ToSet(params.aggregates) : a.alias = c
             At(c) == IF c \in fields THEN GroupValue(Group(c), some)
                      ELSE IF c \in labels THEN some[Labelled(c).label]
                      ELSE IF c \in aliases
                        THEN AggregateValue(Aggregate(c).aggregation, Aggregate(c).measure, group)
                      ELSE Cardinality(group)
  <1>1. AggregateRow(params, group) = [c \in ColumnsOf(params) |-> At(c)]
    BY DEF AggregateRow, ColumnsOf
  <1>2. /\ \A g \in ToSet(params.groups) : g.field \in ColumnsOf(params)
        /\ \A c \in fields : \E g \in ToSet(params.groups) : g.field = c
        /\ \A c \in labels : \E g \in ToSet(params.groups) : g.label # Null /\ LabelColumnOf(g.field) = c
        /\ \A c \in aliases : \E a \in ToSet(params.aggregates) : a.alias = c
    BY OutputColumnsAre
  <1>3. \A g \in ToSet(params.groups) : g.field \in fields
    BY OutputColumnsAre
  <1>4. ToSet(params.groups) # {} => params.groups # <<>>
    BY DEF ToSet
  <1>5. params.groups # <<>> => some \in group /\ some \in rows
    OBVIOUS
  <1> HIDE DEF some, fields, labels, aliases
  <1>6. ASSUME NEW c \in fields
        PROVE  /\ Group(c) \in ToSet(params.groups) /\ Group(c).field = c
               /\ GroupValue(Group(c), some) \in Values
    <2>1. Group(c) \in ToSet(params.groups) /\ Group(c).field = c
      BY <1>2
    <2> HIDE DEF Group
    <2>2. some[Group(c).field] \in Values
      BY <1>4, <1>5, <2>1 DEF Groupable
    <2> QED
      BY <2>1, <2>2, GroupValueType
  <1>7. ASSUME NEW c \in labels PROVE some[Labelled(c).label] \in Values
    <2>1. Labelled(c) \in ToSet(params.groups) /\ Labelled(c).label # Null
      BY <1>2
    <2> HIDE DEF Labelled
    <2> QED
      BY <1>4, <1>5, <2>1 DEF Groupable
  <1>8. ASSUME NEW c \in aliases
        PROVE  AggregateValue(Aggregate(c).aggregation, Aggregate(c).measure, group) \in Values
    <2>1. Aggregate(c) \in ToSet(params.aggregates)
      BY <1>2
    <2> HIDE DEF Aggregate
    <2>2. /\ Aggregate(c).aggregation \in Aggregations /\ IsFiniteSet(group)
          /\ \A r \in group : r[Aggregate(c).measure] \in Values
      BY <2>1, FS_Subset DEF Groupable
    <2> QED
      BY <2>2, AggregateValueType
  <1>9. Cardinality(group) \in Values
    BY FS_Subset, FS_CardinalityType DEF Groupable, Values
  <1>10. \A c \in ColumnsOf(params) : At(c) \in Values
    BY <1>6, <1>7, <1>8, <1>9
  <1>11. ASSUME NEW g \in ToSet(params.groups), params.groups # <<>>
         PROVE  At(g.field) = GroupValue(g, some)
    <2>1. g.field \in fields
      BY <1>3
    <2>2. Group(g.field) \in ToSet(params.groups) /\ Group(g.field).field = g.field
      BY <1>6, <2>1
    <2> HIDE DEF Group
    <2>3. Group(g.field).grain = g.grain
      BY <2>2 DEF Groupable
    <2> QED
      BY <2>1, <2>2, <2>3 DEF GroupValue
  <1> HIDE DEF At
  <1>12. AggregateRow(params, group) \in [ColumnsOf(params) -> Values]
    BY <1>1, <1>10
  <1>13. ASSUME params.groups # <<>>
         PROVE  \A g \in ToSet(params.groups) : AggregateRow(params, group)[g.field] = GroupValue(g, some)
    BY <1>1, <1>2, <1>11, <1>13
  <1> QED
    BY <1>5, <1>12, <1>13

(* The groups partition the facts, and each has a row of its own, which its *)
(* group columns tell from the others: as many as buildGroupCountQuery()    *)
(* counts.                                                                  *)
LEMMA GroupedRows ==
  ASSUME NEW params, NEW rows, Groupable(params, rows)
  PROVE  /\ IsFiniteSet(AggregateSelect(params, rows))
         /\ AggregateSelect(params, rows) \subseteq [ColumnsOf(params) -> Values]
         /\ Cardinality(AggregateSelect(params, rows)) = GroupCount(params, rows)
         /\ \A x, y \in AggregateSelect(params, rows) :
              (\A g \in ToSet(params.groups) : x[g.field] = y[g.field]) => x = y
         /\ params.groups # <<>> =>
              \A x \in AggregateSelect(params, rows) : \E r \in rows : \A g \in ToSet(params.groups) :
                x[g.field] = GroupValue(g, r)
         /\ params.groups = <<>> => \E x : AggregateSelect(params, rows) = {x}
  <1>1. CASE params.groups = <<>>
    <2>1. AggregateSelect(params, rows) = {AggregateRow(params, rows)} /\ GroupCount(params, rows) = 1
      BY <1>1 DEF AggregateSelect, GroupCount
    <2>2. AggregateRow(params, rows) \in [ColumnsOf(params) -> Values]
      BY <1>1, AggregateRowType
    <2> QED
      BY <1>1, <2>1, <2>2, FS_Singleton
  <1>2. CASE params.groups # <<>>
    <2> DEFINE Part(q) == {r \in rows : GroupKey(params.groups, r) = GroupKey(params.groups, q)}
               G == Groups(params.groups, rows)
               R == AggregateSelect(params, rows)
               h == [q \in rows |-> Part(q)]
               f == [P \in G |-> AggregateRow(params, P)]
    <2>1. G = {Part(q) : q \in rows} /\ R = {AggregateRow(params, P) : P \in G}
          /\ GroupCount(params, rows) = Cardinality(G)
      BY <1>2 DEF AggregateSelect, Groups, GroupCount
    <2>2. IsFiniteSet(G)
      <3>1. {h[q] : q \in rows} = {Part(q) : q \in rows}
        OBVIOUS
      <3>2. IsFiniteSet(rows)
        BY DEF Groupable
      <3> HIDE DEF h, Part, G
      <3>3. IsFiniteSet({h[q] : q \in rows})
        BY <3>2, ImageIsFinite
      <3> QED
        BY <2>1, <3>1, <3>3
    <2>3. ASSUME NEW P \in G
          PROVE  /\ P \subseteq rows /\ P # {}
                 /\ \A r \in P : P = Part(r)
      BY <2>1
    <2> HIDE DEF G, R
    <2>4. ASSUME NEW P \in G
          PROVE  /\ AggregateRow(params, P) \in [ColumnsOf(params) -> Values]
                 /\ \E some \in P : \A g \in ToSet(params.groups) :
                      AggregateRow(params, P)[g.field] = GroupValue(g, some)
      BY <1>2, <2>3, AggregateRowType
    <2>5. ASSUME NEW P \in G, NEW Q \in G,
                 \A g \in ToSet(params.groups) : AggregateRow(params, P)[g.field] = AggregateRow(params, Q)[g.field]
          PROVE  P = Q
      <3>1. PICK r \in P : \A g \in ToSet(params.groups) : AggregateRow(params, P)[g.field] = GroupValue(g, r)
        BY <2>4
      <3>2. PICK s \in Q : \A g \in ToSet(params.groups) : AggregateRow(params, Q)[g.field] = GroupValue(g, s)
        BY <2>4
      <3>3. \A g \in ToSet(params.groups) : GroupValue(g, r) = GroupValue(g, s)
        BY <2>5, <3>1, <3>2
      <3>4. params.groups \in Seq(ToSet(params.groups))
        BY DEF Groupable
      <3>5. GroupKey(params.groups, r) = GroupKey(params.groups, s)
        <4>1. \A i \in 1..Len(params.groups) : GroupValue(params.groups[i], r) = GroupValue(params.groups[i], s)
          BY <3>3, <3>4
        <4> QED
          BY <4>1 DEF GroupKey, Map
      <3>6. Part(r) = Part(s)
        BY <3>5
      <3> QED
        BY <2>3, <3>6
    <2>6. f \in Bijection(G, R)
      <3> HIDE DEF Part
      <3>1. f \in [G -> R]
        BY <2>1
      <3>2. \A P, Q \in G : f[P] = f[Q] => P = Q
        BY <2>5
      <3>3. \A x \in R : \E P \in G : f[P] = x
        BY <2>1
      <3> HIDE DEF f
      <3>4. f \in Injection(G, R)
        BY <3>1, <3>2 DEF Injection, IsInjective
      <3>5. f \in Surjection(G, R)
        BY <3>1, <3>3 DEF Surjection
      <3> QED
        BY <3>4, <3>5 DEF Bijection
    <2>7. IsFiniteSet(R) /\ Cardinality(R) = GroupCount(params, rows)
      <3>1. ExistsBijection(G, R)
        BY <2>6 DEF ExistsBijection
      <3> QED
        BY <2>1, <2>2, <3>1, FS_Bijection
    <2> HIDE DEF f, h, Part
    <2>8. R \subseteq [ColumnsOf(params) -> Values]
      BY <2>1, <2>4
    <2>9. ASSUME NEW x \in R, NEW y \in R, \A g \in ToSet(params.groups) : x[g.field] = y[g.field]
          PROVE  x = y
      BY <2>1, <2>5, <2>9
    <2>10. ASSUME NEW x \in R
           PROVE  \E r \in rows : \A g \in ToSet(params.groups) : x[g.field] = GroupValue(g, r)
      <3>1. PICK P \in G : x = AggregateRow(params, P)
        BY <2>1
      <3>2. PICK some \in P : \A g \in ToSet(params.groups) : x[g.field] = GroupValue(g, some)
        BY <2>4, <3>1
      <3> QED
        BY <2>3, <3>2
    <2> QED
      BY <1>2, <2>7, <2>8, <2>9, <2>10 DEF R
  <1> QED
    BY <1>1, <1>2

(* What a request reads of a dataset, resolved against its metadata.        *)
Resolvable(a, d) ==
  /\ IsAggregated(d)
  /\ a.groupBy \in Seq(ToSet(a.groupBy)) /\ a.aggregates \in Seq(ToSet(a.aggregates))
  /\ ~UnknownColumns(a, d.metadata)
  /\ \A x \in ToSet(a.aggregates) : ~AggregationRefused(x.aggregation, d.metadata[x.measure])
  /\ \A g, h \in ToSet(a.groupBy) : g.field = h.field => g.grain = h.grain

LEMMA ResolvedGroupsAre ==
  ASSUME NEW a, NEW d, Resolvable(a, d)
  PROVE  /\ ResolvedGroups(a, d.metadata) \in Seq(ToSet(ResolvedGroups(a, d.metadata)))
         /\ Len(ResolvedGroups(a, d.metadata)) = Len(a.groupBy)
         /\ Len(a.groupBy) \in Nat
         /\ \A i \in 1..Len(a.groupBy) :
              /\ a.groupBy[i] \in ToSet(a.groupBy)
              /\ ResolvedGroups(a, d.metadata)[i].field = a.groupBy[i].field
              /\ ResolvedGroups(a, d.metadata)[i].grain = a.groupBy[i].grain
         /\ \A i \in 1..Len(a.groupBy) :
              /\ a.groupBy[i].field \in DOMAIN d.metadata
              /\ ResolvedGroups(a, d.metadata)[i].label # Null =>
                   ResolvedGroups(a, d.metadata)[i].label \in ToSet(d.metadata[a.groupBy[i].field].labels)
  <1> DEFINE m == d.metadata
             Of(g) == [field |-> g.field, grain |-> g.grain, truncation |-> Truncation(g.grain, m[g.field].type),
                       label |-> IF g.grain # Null THEN Null ELSE LabelField(m[g.field])]
             groups == [i \in 1..Len(a.groupBy) |-> Of(a.groupBy[i])]
             n == Len(a.groupBy)
  <1>1. ResolvedGroups(a, m) = groups
    BY DEF ResolvedGroups, Map
  <1>2. n \in Nat /\ \A i \in 1..n : a.groupBy[i] \in ToSet(a.groupBy)
    BY DEF Resolvable
  <1>3. \A i \in 1..n : groups[i] = Of(a.groupBy[i])
    OBVIOUS
  <1>4. Len(groups) = n /\ DOMAIN groups = 1..n
    BY <1>2
  <1>5. groups \in Seq(ToSet(groups))
    <2>1. groups = [i \in 1..n |-> groups[i]]
      OBVIOUS
    <2>2. \A i \in 1..n : groups[i] \in ToSet(groups)
      BY <1>4 DEF ToSet
    <2> HIDE DEF groups
    <2> QED
      BY <1>2, <2>1, <2>2
  <1> HIDE DEF groups
  <1>6. ASSUME NEW i \in 1..n
        PROVE  /\ groups[i].field = a.groupBy[i].field /\ groups[i].grain = a.groupBy[i].grain
               /\ a.groupBy[i].field \in DOMAIN m
               /\ groups[i].label # Null => groups[i].label \in ToSet(m[a.groupBy[i].field].labels)
    <2>1. groups[i] = Of(a.groupBy[i])
      BY <1>3
    <2>2. a.groupBy[i].field \in DOMAIN m
      <3>1. GroupFields(a) = [j \in 1..n |-> a.groupBy[j].field]
        BY DEF GroupFields, Map
      <3>2. a.groupBy[i].field \in ToSet(GroupFields(a))
        BY <3>1 DEF ToSet
      <3> QED
        BY <3>2 DEF Resolvable, UnknownColumns
    <2>3. groups[i].field = a.groupBy[i].field /\ groups[i].grain = a.groupBy[i].grain
      BY <2>1
    <2>4. ASSUME groups[i].label # Null
          PROVE  groups[i].label \in ToSet(m[a.groupBy[i].field].labels)
      <3> DEFINE labels == m[a.groupBy[i].field].labels
      <3>1. groups[i].label = IF a.groupBy[i].grain # Null THEN Null ELSE LabelField(m[a.groupBy[i].field])
        BY <2>1
      <3>2. labels # <<>> /\ groups[i].label = labels[1]
        BY <2>4, <3>1 DEF LabelField
      <3>3. labels \in Seq(ToSet(labels))
        BY <2>2 DEF Resolvable, IsAggregated
      <3> HIDE DEF labels
      <3> QED
        BY <3>2, <3>3 DEF labels
    <2> QED
      BY <2>2, <2>3, <2>4
  <1> QED
    BY <1>1, <1>2, <1>4, <1>5, <1>6

LEMMA ResolvedAggregatesAre ==
  ASSUME NEW a, NEW d, Resolvable(a, d)
  PROVE  /\ ResolvedAggregates(a, d.metadata) \in Seq(ToSet(ResolvedAggregates(a, d.metadata)))
         /\ Len(ResolvedAggregates(a, d.metadata)) = Len(a.aggregates)
         /\ \A i \in 1..Len(a.aggregates) :
              /\ ResolvedAggregates(a, d.metadata)[i].aggregation \in Aggregations
              /\ ResolvedAggregates(a, d.metadata)[i].measure = a.aggregates[i].measure
              /\ a.aggregates[i].measure \in DOMAIN d.metadata
  <1> DEFINE m == d.metadata
             n == Len(a.aggregates)
             Of(x) == LET effective == EffectiveAggregation(x.aggregation, m[x.measure])
                      IN [measure |-> x.measure, aggregation |-> effective,
                          alias |-> IF x.alias = Null THEN DefaultAlias(x.measure, effective) ELSE x.alias]
             s == [i \in 1..n |-> Of(a.aggregates[i])]
  <1>1. ResolvedAggregates(a, m) = s
    BY DEF ResolvedAggregates, Map
  <1>2. n \in Nat /\ \A i \in 1..n : a.aggregates[i] \in ToSet(a.aggregates)
    BY DEF Resolvable
  <1>3. Len(s) = n /\ DOMAIN s = 1..n
    BY <1>2
  <1>4. s \in Seq(ToSet(s))
    <2>1. s = [i \in 1..n |-> s[i]]
      OBVIOUS
    <2>2. \A i \in 1..n : s[i] \in ToSet(s)
      BY <1>3 DEF ToSet
    <2> HIDE DEF s
    <2> QED
      BY <1>2, <2>1, <2>2
  <1>5. \A i \in 1..n : s[i] = Of(a.aggregates[i])
    OBVIOUS
  <1> HIDE DEF s
  <1>6. ASSUME NEW i \in 1..n
        PROVE  /\ s[i].aggregation \in Aggregations
               /\ s[i].measure = a.aggregates[i].measure
               /\ a.aggregates[i].measure \in DOMAIN m
    <2> DEFINE x == a.aggregates[i]
    <2>1. s[i] = Of(x) /\ x \in ToSet(a.aggregates)
      BY <1>2, <1>5
    <2>2. s[i].aggregation = EffectiveAggregation(x.aggregation, m[x.measure]) /\ s[i].measure = x.measure
      BY <2>1
    <2>3. EffectiveAggregation(x.aggregation, m[x.measure]) \in AllowedAggregations(m[x.measure].type)
      BY <2>1 DEF Resolvable, AggregationRefused
    <2>4. AllowedAggregations(m[x.measure].type) \subseteq Aggregations
      BY DEF AllowedAggregations, Aggregations
    <2>5. x.measure \in DOMAIN m
      <3>1. Measures(a) = [j \in 1..n |-> a.aggregates[j].measure]
        BY DEF Measures, Map
      <3>2. x.measure \in ToSet(Measures(a))
        BY <3>1 DEF ToSet
      <3> QED
        BY <3>2 DEF Resolvable, UnknownColumns
    <2> QED
      BY <2>2, <2>3, <2>4, <2>5
  <1> QED
    BY <1>1, <1>3, <1>4, <1>6

(* What resolves can be grouped.                                            *)
LEMMA ResolvableIsGroupable ==
  ASSUME NEW a, NEW d, NEW rows, Resolvable(a, d), rows \subseteq d.rows
  PROVE  /\ Groupable(AggregateParams(a, d.metadata), rows)
         /\ AggregateParams(a, d.metadata).groups = ResolvedGroups(a, d.metadata)
         /\ AggregateParams(a, d.metadata).aggregates = ResolvedAggregates(a, d.metadata)
         /\ AggregateParams(a, d.metadata).sort = ResolvedSort(a.sort, GroupFields(a))
         /\ AggregateParams(a, d.metadata).rowCount = a.rowCount
  <1> DEFINE params == AggregateParams(a, d.metadata)
             groups == ResolvedGroups(a, d.metadata)
             aggregates == ResolvedAggregates(a, d.metadata)
  <1>1. /\ params.groups = groups /\ params.aggregates = aggregates
        /\ params.sort = ResolvedSort(a.sort, GroupFields(a)) /\ params.rowCount = a.rowCount
    BY DEF AggregateParams
  <1>2. IsFiniteSet(rows) /\ IsAggregated(d)
    BY FS_Subset DEF Resolvable, IsAggregated
  <1> HIDE DEF params
  <1>3. ASSUME NEW g \in ToSet(groups)
        PROVE  \E i \in 1..Len(a.groupBy) :
                 /\ g.field = a.groupBy[i].field /\ g.grain = a.groupBy[i].grain
                 /\ a.groupBy[i] \in ToSet(a.groupBy) /\ g.field \in DOMAIN d.metadata
                 /\ g.label # Null => g.label \in ToSet(d.metadata[g.field].labels)
    <2>1. /\ groups \in Seq(ToSet(groups)) /\ Len(groups) = Len(a.groupBy)
          /\ \A i \in 1..Len(a.groupBy) :
               /\ a.groupBy[i] \in ToSet(a.groupBy)
               /\ groups[i].field = a.groupBy[i].field
               /\ groups[i].grain = a.groupBy[i].grain
          /\ \A i \in 1..Len(a.groupBy) :
               /\ a.groupBy[i].field \in DOMAIN d.metadata
               /\ groups[i].label # Null => groups[i].label \in ToSet(d.metadata[a.groupBy[i].field].labels)
      BY ResolvedGroupsAre
    <2> HIDE DEF groups
    <2>2. PICK i \in 1..Len(a.groupBy) : groups[i] = g
      BY <2>1 DEF ToSet
    <2> QED
      BY <2>1, <2>2
  <1>4. ASSUME NEW x \in ToSet(aggregates)
        PROVE  x.aggregation \in Aggregations /\ x.measure \in DOMAIN d.metadata
    <2>1. /\ aggregates \in Seq(ToSet(aggregates)) /\ Len(aggregates) = Len(a.aggregates)
          /\ \A i \in 1..Len(a.aggregates) :
               /\ aggregates[i].aggregation \in Aggregations
               /\ aggregates[i].measure = a.aggregates[i].measure
               /\ a.aggregates[i].measure \in DOMAIN d.metadata
      BY ResolvedAggregatesAre
    <2> HIDE DEF aggregates
    <2>2. PICK i \in 1..Len(a.aggregates) : aggregates[i] = x
      BY <2>1 DEF ToSet
    <2> QED
      BY <2>1, <2>2
  <1>5. groups \in Seq(ToSet(groups)) /\ aggregates \in Seq(ToSet(aggregates))
    BY ResolvedGroupsAre, ResolvedAggregatesAre
  <1> HIDE DEF groups, aggregates
  <1>6. ASSUME NEW c \in DOMAIN d.metadata, NEW r \in rows
        PROVE  r[c] \in Values /\ \A l \in ToSet(d.metadata[c].labels) : r[l] \in Values
    BY <1>2 DEF IsAggregated
  <1>7. ASSUME NEW g \in ToSet(groups), NEW h \in ToSet(groups), g.field = h.field
        PROVE  g.grain = h.grain
    <2>1. PICK i \in 1..Len(a.groupBy) : /\ g.field = a.groupBy[i].field /\ g.grain = a.groupBy[i].grain
                                         /\ a.groupBy[i] \in ToSet(a.groupBy)
      BY <1>3
    <2>2. PICK j \in 1..Len(a.groupBy) : /\ h.field = a.groupBy[j].field /\ h.grain = a.groupBy[j].grain
                                         /\ a.groupBy[j] \in ToSet(a.groupBy)
      BY <1>3
    <2> QED
      BY <1>7, <2>1, <2>2 DEF Resolvable
  <1>8. ASSUME NEW r \in rows, NEW g \in ToSet(groups)
        PROVE  r[g.field] \in Values /\ (g.label # Null => r[g.label] \in Values)
    BY <1>3, <1>6
  <1>9. Groupable(params, rows)
    BY <1>1, <1>2, <1>4, <1>5, <1>6, <1>7, <1>8 DEF Groupable
  <1> QED
    BY <1>1, <1>9 DEF params, groups, aggregates

-----------------------------------------------------------------------------
(* Names                                                                    *)

LEMMA SeqOfMore ==
  ASSUME NEW S, NEW T, NEW s \in Seq(S), S \subseteq T
  PROVE  s \in Seq(T)
  OBVIOUS

LEMMA ListOf ==
  ASSUME NEW V, NEW n \in Nat, NEW s, s = [i \in 1..n |-> s[i]], \A i \in 1..n : s[i] \in V
  PROVE  s \in Seq(V)
  OBVIOUS

LEMMA MapIsList ==
  ASSUME NEW n \in Nat, NEW s, s = [i \in 1..n |-> s[i]]
  PROVE  Len(s) = n /\ s \in Seq(ToSet(s)) /\ \A i \in 1..n : s[i] \in ToSet(s)
  <1>1. DOMAIN s = 1..n
    OBVIOUS
  <1>2. \A i \in 1..n : s[i] \in ToSet(s)
    BY <1>1 DEF ToSet
  <1> QED
    BY <1>2, ListOf

LEMMA ColumnPartsAre ==
  ASSUME NEW groups, NEW aggregates,
         groups \in Seq(ToSet(groups)), aggregates \in Seq(ToSet(aggregates))
  PROVE  /\ Map(groups, LAMBDA g : g.field) \in Seq(ToSet(Map(groups, LAMBDA g : g.field)))
         /\ LabelColumns(groups) \in Seq(ToSet(LabelColumns(groups)))
         /\ Aliases(aggregates) \in Seq(ToSet(Aliases(aggregates)))
         /\ Len(Aliases(aggregates)) = Len(aggregates)
         /\ \A i \in 1..Len(aggregates) : Aliases(aggregates)[i] = aggregates[i].alias
  <1> DEFINE kept == Keep(groups, {g \in ToSet(groups) : g.label # Null})
             F == [i \in 1..Len(groups) |-> groups[i].field]
             L == [i \in 1..Len(kept) |-> LabelColumnOf(kept[i].field)]
             A == [i \in 1..Len(aggregates) |-> aggregates[i].alias]
  <1>1. /\ Map(groups, LAMBDA g : g.field) = F /\ LabelColumns(groups) = L /\ Aliases(aggregates) = A
    BY DEF Map, LabelColumns, Aliases
  <1>2. Len(groups) \in Nat /\ Len(aggregates) \in Nat
    OBVIOUS
  <1>3. Len(kept) \in Nat
    <2>1. kept \in Seq(ToSet(groups) \cap {g \in ToSet(groups) : g.label # Null})
      BY KeepProperties
    <2> QED
      BY <2>1
  <1> HIDE DEF kept
  <1>4. /\ F = [i \in 1..Len(groups) |-> F[i]] /\ L = [i \in 1..Len(kept) |-> L[i]]
        /\ A = [i \in 1..Len(aggregates) |-> A[i]]
        /\ \A i \in 1..Len(aggregates) : A[i] = aggregates[i].alias
    OBVIOUS
  <1> HIDE DEF F, L, A
  <1>5. F \in Seq(ToSet(F)) /\ L \in Seq(ToSet(L)) /\ A \in Seq(ToSet(A)) /\ Len(A) = Len(aggregates)
    BY <1>2, <1>3, <1>4, MapIsList
  <1> QED
    BY <1>1, <1>4, <1>5

(* No name twice in a list made of two: nor in either, nor in both.         *)
LEMMA NoDuplicatesOfConcat ==
  ASSUME NEW V, NEW s \in Seq(V), NEW t \in Seq(V), ~Duplicates(s \o t)
  PROVE  /\ ~Duplicates(s) /\ ~Duplicates(t) /\ ToSet(s) \cap ToSet(t) = {}
  <1>1. /\ Len(s \o t) = Len(s) + Len(t) /\ Len(s) \in Nat /\ Len(t) \in Nat
        /\ \A i \in 1..Len(s) : (s \o t)[i] = s[i]
        /\ \A i \in 1..Len(t) : (s \o t)[Len(s) + i] = t[i]
    OBVIOUS
  <1>2. \A i, j \in 1..Len(s) + Len(t) : i < j => (s \o t)[i] # (s \o t)[j]
    BY <1>1 DEF Duplicates
  <1>3. ASSUME NEW i \in 1..Len(s), NEW j \in 1..Len(s), i < j PROVE s[i] # s[j]
    BY <1>1, <1>2, <1>3
  <1>4. ASSUME NEW i \in 1..Len(t), NEW j \in 1..Len(t), i < j PROVE t[i] # t[j]
    <2>1. Len(s) + i \in 1..Len(s) + Len(t) /\ Len(s) + j \in 1..Len(s) + Len(t) /\ Len(s) + i < Len(s) + j
      BY <1>1, <1>4
    <2> QED
      BY <1>1, <1>2, <2>1
  <1>5. ASSUME NEW i \in 1..Len(s), NEW j \in 1..Len(t) PROVE s[i] # t[j]
    <2>1. i \in 1..Len(s) + Len(t) /\ Len(s) + j \in 1..Len(s) + Len(t) /\ i < Len(s) + j
      BY <1>1
    <2> QED
      BY <1>1, <1>2, <2>1
  <1>6. DOMAIN s = 1..Len(s) /\ DOMAIN t = 1..Len(t)
    OBVIOUS
  <1> QED
    BY <1>3, <1>4, <1>5, <1>6 DEF Duplicates, ToSet

(* The columns of an answer do not share names.                             *)
LEMMA NamesAreApart ==
  ASSUME NEW F, NEW L, NEW A, F \in Seq(ToSet(F)), L \in Seq(ToSet(L)), A \in Seq(ToSet(A)),
         ~Duplicates(F \o L \o A)
  PROVE  /\ ~Duplicates(F) /\ ~Duplicates(A)
         /\ ToSet(F) \cap ToSet(L) = {} /\ ToSet(F) \cap ToSet(A) = {} /\ ToSet(L) \cap ToSet(A) = {}
         /\ F \o L \o A \in Seq(ToSet(F \o L \o A))
         /\ ToSet(F \o L \o A) = ToSet(F) \cup ToSet(L) \cup ToSet(A)
  <1> DEFINE V == ToSet(F) \cup ToSet(L) \cup ToSet(A)
  <1>1. F \in Seq(V) /\ L \in Seq(V) /\ A \in Seq(V)
    <2>1. ToSet(F) \subseteq V /\ ToSet(L) \subseteq V /\ ToSet(A) \subseteq V
      OBVIOUS
    <2> HIDE DEF V
    <2> QED
      BY <2>1, SeqOfMore
  <1> HIDE DEF V
  <1>2. F \o L \in Seq(V) /\ ToSet(F \o L) = ToSet(F) \cup ToSet(L)
    BY <1>1, ToSetOfConcat
  <1>3. PICK FL \in Seq(V) : FL = F \o L
    BY <1>2
  <1>4. FL \o A \in Seq(V) /\ ToSet(FL \o A) = ToSet(FL) \cup ToSet(A)
    BY <1>1, ToSetOfConcat
  <1>5. ~Duplicates(FL) /\ ~Duplicates(A) /\ ToSet(FL) \cap ToSet(A) = {}
    BY <1>1, <1>3, NoDuplicatesOfConcat
  <1>6. ~Duplicates(F) /\ ToSet(F) \cap ToSet(L) = {}
    BY <1>1, <1>3, <1>5, NoDuplicatesOfConcat
  <1>7. FL \o A \in Seq(ToSet(FL \o A))
    <2>1. PICK s \in Seq(V) : s = FL \o A
      BY <1>4
    <2>2. s = [i \in 1..Len(s) |-> s[i]] /\ Len(s) \in Nat
      OBVIOUS
    <2>3. s \in Seq(ToSet(s))
      BY <2>2, MapIsList
    <2> QED
      BY <2>1, <2>3
  <1> QED
    BY <1>2, <1>3, <1>4, <1>5, <1>6, <1>7

(* The columns of aggregates do not hide each other.                        *)
LEMMA OutputNamesAreApart ==
  ASSUME NEW params, params.groups \in Seq(ToSet(params.groups)),
         params.aggregates \in Seq(ToSet(params.aggregates)),
         ~Duplicates(OutputColumns(params.groups, params.aggregates, params.rowCount))
  PROVE  /\ ~Duplicates(Aliases(params.aggregates))
         /\ Aliases(params.aggregates) \in Seq(ToSet(Aliases(params.aggregates)))
         /\ ToSet(Map(params.groups, LAMBDA g : g.field)) \cap ToSet(Aliases(params.aggregates)) = {}
         /\ ToSet(LabelColumns(params.groups)) \cap ToSet(Aliases(params.aggregates)) = {}
  <1> DEFINE F == Map(params.groups, LAMBDA g : g.field)
             L == LabelColumns(params.groups)
             N == Aliases(params.aggregates)
             C == IF params.rowCount THEN <<"row_count">> ELSE <<>>
             V == ToSet(F) \cup ToSet(L) \cup ToSet(N) \cup {"row_count"}
  <1>1. F \in Seq(ToSet(F)) /\ L \in Seq(ToSet(L)) /\ N \in Seq(ToSet(N))
    BY ColumnPartsAre
  <1>2. C \in Seq({"row_count"})
    <2>1. <<"row_count">> \in Seq({"row_count"}) /\ <<>> \in Seq({"row_count"})
      OBVIOUS
    <2> QED
      BY <2>1
  <1>3. ~Duplicates(F \o L \o N \o C)
    BY DEF OutputColumns
  <1> HIDE DEF F, L, N, C
  <1>4. F \in Seq(V) /\ L \in Seq(V) /\ N \in Seq(V) /\ C \in Seq(V)
    <2>1. ToSet(F) \subseteq V /\ ToSet(L) \subseteq V /\ ToSet(N) \subseteq V /\ {"row_count"} \subseteq V
      OBVIOUS
    <2> HIDE DEF V
    <2> QED
      BY <1>1, <1>2, <2>1, SeqOfMore
  <1> HIDE DEF V
  <1>5. PICK s \in Seq(V) : s = F \o L \o N
    BY <1>4, ConcatProperties
  <1>6. ~Duplicates(F \o L \o N)
    BY <1>3, <1>4, <1>5, NoDuplicatesOfConcat
  <1> QED
    BY <1>1, <1>6, NamesAreApart DEF F, L, N

-----------------------------------------------------------------------------
(* What a client is owed                                                    *)

Concerned(q) == q.kind \in Paged /\ ~Clustered(q)
Admitted(q) == q.limit \in 1..MaxLimit /\ (q.kind = "compareFacts" => ~ComparisonMalformed(q))
Accepted(q) == Admitted(q) /\ ~ArgumentsRefused(q, AllMetadata(q))

Whole(q) == Result(q, AllMetadata(q), FilterOf(q, AllMetadata(q)))
AllRows(q) == Sorted(Whole(q).rows, Whole(q).sort)
FirstRows(q, n) == Shaped(q, AllMetadata(q), SubSeq(AllRows(q), 1, n))

(* The order of an answer tells its rows apart and refines the client's,    *)
(* and the total is their number.                                           *)
Ordered(result, asked) ==
  /\ Tells(result.sort, result.rows)
  /\ result.total = Cardinality(result.rows)
  /\ \A r, s \in result.rows : Before(r, s, asked) => Before(r, s, result.sort)

(* A sort that goes on after the client's refines it.                       *)
LEMMA BeforeInPrefix ==
  ASSUME NEW T, NEW s \in Seq(T), NEW t \in Seq(T), NEW r, NEW q, Before(r, q, s)
  PROVE  Before(r, q, s \o t)
  <1>1. PICK i \in 1..Len(s) : /\ \A j \in 1..i - 1 : r[s[j].field] = q[s[j].field]
                               /\ Lower(r[s[i].field], q[s[i].field], s[i].dir)
    BY DEF Before
  <1>2. i \in 1..Len(s \o t) /\ \A j \in 1..i : (s \o t)[j] = s[j]
    OBVIOUS
  <1> HIDE DEF Lower
  <1>3. /\ \A j \in 1..i - 1 : r[(s \o t)[j].field] = q[(s \o t)[j].field]
        /\ Lower(r[(s \o t)[i].field], q[(s \o t)[i].field], (s \o t)[i].dir)
    BY <1>1, <1>2
  <1> QED
    BY <1>2, <1>3 DEF Before

LEMMA TellsFewer ==
  ASSUME NEW items, NEW rows, NEW K, Tells(items, rows), K \subseteq rows
  PROVE  Tells(items, K)
  BY FS_Subset DEF Tells

(* The metadata an accepted request was resolved against.                   *)
LEMMA MetadataIs ==
  ASSUME NEW q
  PROVE  /\ AllMetadata(q)[1] = q.data.metadata
         /\ q.kind \in Comparisons => AllMetadata(q)[2] = q.other.metadata
  BY DEF AllMetadata, Targets, Map

LEMMA FactsAreOrdered ==
  ASSUME NEW q \in Requests, q.kind = "facts", Concerned(q), Accepted(q)
  PROVE  Ordered(Whole(q), q.sort)
  <1> DEFINE d == q.data
             K == Kept(q, FilterOf(q, AllMetadata(q)))
             e == EffectiveSort(q.sort, d)
             keyed == IF d.primaryKeys # {} THEN Asc(PrimaryKeys(d)) ELSE Asc(Columns)
  <1>1. /\ IsFactTable(d) /\ DOMAIN d.metadata \subseteq ColumnSet /\ IsSort(q.sort)
        /\ Fields(q.sort) \subseteq DOMAIN d.metadata
    BY QueryAssumption, MetadataIs DEF Concerned, Accepted, ArgumentsRefused
  <1>2. q.sort \in Seq(Items)
    <2>1. /\ Len(q.sort) \in Nat /\ q.sort \in Seq([field : Fields(q.sort), dir : {"ASC", "DESC"}])
      BY <1>1 DEF IsSort
    <2>2. [field : Fields(q.sort), dir : {"ASC", "DESC"}] \subseteq Items
      BY <1>1 DEF Items
    <2> QED
      BY <2>1, <2>2, SeqOfMore
  <1>3. /\ Whole(q).rows = K /\ Whole(q).total = Cardinality(K) /\ K \subseteq d.rows
        /\ Whole(q).sort = OrderBy(e)
    BY DEF Whole, Result, Kept
  <1>4. AllColumns \notin Items
    BY ColumnsAssumption DEF Items, AllColumns
  <1>5. /\ OrderBy(e) \in Seq(Items) /\ KeyColumns(d) \subseteq Fields(OrderBy(e))
        /\ \A r, s : Before(r, s, q.sort) => Before(r, s, OrderBy(e))
    <2>1. CASE q.sort # <<>>
      <3> DEFINE t == Tiebreakers(q.sort, d)
      <3>1. t \in Seq(Items) /\ KeyColumns(d) \ Fields(q.sort) \subseteq Fields(t)
        BY <1>1, TiebreakersProperties
      <3>2. e = q.sort \o t
        BY <2>1 DEF EffectiveSort
      <3> HIDE DEF t, e
      <3>3. q.sort \o t \in Seq(Items) /\ Fields(q.sort) \cup Fields(t) \subseteq Fields(q.sort \o t)
        BY <1>2, <3>1, FieldsOfConcat
      <3>4. e # <<AllColumns>>
        <4>1. <<AllColumns>>[1] \notin Items /\ Len(<<AllColumns>>) = 1
          BY <1>4
        <4>2. e \in Seq(Items)
          BY <3>2, <3>3
        <4>3. e = <<AllColumns>> => e[1] \in Items
          BY <4>1, <4>2
        <4> QED
          BY <4>1, <4>3
      <3>5. OrderBy(e) = e
        BY <3>4 DEF OrderBy
      <3>6. \A r, s : Before(r, s, q.sort) => Before(r, s, e)
        BY <1>2, <3>1, <3>2, BeforeInPrefix
      <3> QED
        BY <3>1, <3>2, <3>3, <3>5, <3>6
    <2>2. CASE q.sort = <<>>
      <3>1. d.clusterBy = <<>>
        BY <2>2 DEF Concerned, Clustered
      <3>2. Keep(d.clusterBy, ColumnSet) = <<>>
        <4>1. Len(<<>>) = 0 /\ 1..0 = {}
          OBVIOUS
        <4>2. {i \in 1..Len(<<>>) : <<>>[i] \in ColumnSet} = {}
          BY <4>1
        <4>3. Len(Pick(<<>>, {})) = 0 /\ Pick(<<>>, {}) \in Seq(ToSet(Pick(<<>>, {})))
          BY <4>1, PickProperties, FS_EmptySet
        <4> QED
          BY <3>1, <4>2, <4>3 DEF Keep
      <3>3. e = IF d.primaryKeys # {} THEN Asc(PrimaryKeys(d)) ELSE <<AllColumns>>
        BY <2>2, <3>2 DEF EffectiveSort
      <3>4. ASSUME d.primaryKeys # {}
            PROVE  /\ Asc(PrimaryKeys(d)) \in Seq(Items)
                   /\ KeyColumns(d) \subseteq Fields(Asc(PrimaryKeys(d)))
        <4>1. Columns \in Seq(ColumnSet) /\ d.primaryKeys \subseteq ColumnSet
          BY <1>1, ColumnsAssumption DEF IsFactTable
        <4>2. /\ PrimaryKeys(d) \in Seq(ColumnSet \cap d.primaryKeys)
              /\ \A i \in 1..Len(Columns) : Columns[i] \in d.primaryKeys =>
                   \E k \in 1..Len(PrimaryKeys(d)) : PrimaryKeys(d)[k] = Columns[i]
          BY <4>1, KeepProperties DEF PrimaryKeys
        <4>3. PrimaryKeys(d) \in Seq(ColumnSet)
          BY <4>2
        <4>4. /\ Asc(PrimaryKeys(d)) \in Seq(Items)
              /\ \A i \in 1..Len(PrimaryKeys(d)) : PrimaryKeys(d)[i] \in Fields(Asc(PrimaryKeys(d)))
          BY <4>3, AscProperties
        <4>5. \A c \in ColumnSet : \E i \in 1..Len(Columns) : Columns[i] = c
          BY DEF ColumnSet
        <4>6. \A c \in d.primaryKeys : \E k \in 1..Len(PrimaryKeys(d)) : PrimaryKeys(d)[k] = c
          BY <4>1, <4>2, <4>5
        <4>7. d.primaryKeys \subseteq Fields(Asc(PrimaryKeys(d)))
          BY <4>4, <4>6
        <4> QED
          BY <3>4, <4>4, <4>7 DEF KeyColumns
      <3>5. Asc(Columns) \in Seq(Items) /\ ColumnSet \subseteq Fields(Asc(Columns))
        <4>1. Columns \in Seq(ColumnSet)
          BY ColumnsAssumption
        <4>2. /\ Asc(Columns) \in Seq(Items)
              /\ \A i \in 1..Len(Columns) : Columns[i] \in Fields(Asc(Columns))
          BY <4>1, AscProperties
        <4> QED
          BY <4>2 DEF ColumnSet
      <3>6. keyed \in Seq(Items) /\ KeyColumns(d) \subseteq Fields(keyed)
        BY <3>4, <3>5 DEF KeyColumns
      <3>7. OrderBy(e) = keyed
        <4>1. CASE d.primaryKeys = {}
          BY <3>3, <4>1 DEF OrderBy
        <4>2. CASE d.primaryKeys # {}
          <5>1. e = keyed /\ e \in Seq(Items)
            BY <3>3, <3>6, <4>2
          <5> HIDE DEF e, keyed
          <5>2. e # <<AllColumns>>
            <6>1. <<AllColumns>>[1] \notin Items /\ Len(<<AllColumns>>) = 1
              BY <1>4
            <6>2. e = <<AllColumns>> => e[1] \in Items
              BY <5>1, <6>1
            <6> QED
              BY <6>1, <6>2
          <5> QED
            BY <5>1, <5>2 DEF OrderBy
        <4> QED
          BY <4>1, <4>2
      <3>8. \A r, s : ~Before(r, s, <<>>)
        BY DEF Before
      <3> HIDE DEF keyed, e
      <3> QED
        BY <2>2, <3>6, <3>7, <3>8
    <2> QED
      BY <2>1, <2>2
  <1>6. Tells(OrderBy(e), d.rows)
    BY <1>1, <1>5, OrderTells
  <1>7. Tells(OrderBy(e), K)
    BY <1>3, <1>6, TellsFewer
  <1> QED
    BY <1>3, <1>5, <1>7 DEF Ordered

(* Rows that the fields tell apart are ordered by the client's sort and     *)
(* then the fields.                                                         *)
Readable(rows, asked, fields) ==
  /\ IsFiniteSet(rows)
  /\ IsSort(asked) /\ fields \in Seq(ToSet(fields))
  /\ \A r \in rows : \A c \in Fields(asked) \cup ToSet(fields) : r[c] \in Values
  /\ \A x, y \in rows : (\A f \in ToSet(fields) : x[f] = y[f]) => x = y

LEMMA ResolvedSortTells ==
  ASSUME NEW rows, NEW s, NEW fields, Readable(rows, s, fields)
  PROVE  /\ Tells(ResolvedSort(s, fields), rows)
         /\ \A r, q \in rows : Before(r, q, s) => Before(r, q, ResolvedSort(s, fields))
  <1> DEFINE S == Fields(s) \cup ToSet(fields)
             t == ResolvedSort(s, fields)
  <1>1. s \in Seq(SortItems(S)) /\ fields \in Seq(S)
    <2>1. [field : Fields(s), dir : {"ASC", "DESC"}] \subseteq SortItems(S) /\ ToSet(fields) \subseteq S
      BY DEF SortItems
    <2>2. s \in Seq([field : Fields(s), dir : {"ASC", "DESC"}]) /\ fields \in Seq(ToSet(fields))
      BY DEF Readable, IsSort
    <2> HIDE DEF S
    <2> QED
      BY <2>1, <2>2, SeqOfMore
  <1> HIDE DEF S, t
  <1>2. /\ Len(t) \in Nat
        /\ \A i \in 1..Len(t) : t[i] \in SortItems(S)
        /\ ToSet(fields) \subseteq Fields(t)
        /\ \A r, q : Reads(t, r) /\ Reads(t, q) /\ Before(r, q, s) => Before(r, q, t)
    BY <1>1, ResolvedSortProperties DEF t
  <1>3. ASSUME NEW r \in rows PROVE Reads(t, r)
    <2>1. ASSUME NEW i \in 1..Len(t) PROVE t[i].dir \in {"ASC", "DESC"} /\ r[t[i].field] \in Values
      <3>1. t[i] \in SortItems(S)
        BY <1>2
      <3>2. t[i].field \in S /\ t[i].dir \in {"ASC", "DESC"}
        BY <3>1 DEF SortItems
      <3> QED
        BY <3>2 DEF S, Readable
    <2> QED
      BY <2>1 DEF Reads
  <1>4. Tells(t, rows)
    BY <1>2, <1>3 DEF Tells, Readable
  <1> QED
    BY <1>2, <1>3, <1>4 DEF t

(* The fields a request groups by are those of its groups.                  *)
LEMMA GroupFieldsAre ==
  ASSUME NEW a, NEW d, Resolvable(a, d)
  PROVE  /\ GroupFields(a) \in Seq(ToSet(GroupFields(a)))
         /\ Len(GroupFields(a)) = Len(a.groupBy)
         /\ \A g \in ToSet(ResolvedGroups(a, d.metadata)) : g.field \in ToSet(GroupFields(a))
         /\ \A f \in ToSet(GroupFields(a)) :
              f \in DOMAIN d.metadata /\ \E g \in ToSet(ResolvedGroups(a, d.metadata)) : g.field = f
         /\ ResolvedGroups(a, d.metadata) = <<>> <=> GroupFields(a) = <<>>
  <1> DEFINE n == Len(a.groupBy)
             F == [i \in 1..n |-> a.groupBy[i].field]
             G == ResolvedGroups(a, d.metadata)
  <1>1. GroupFields(a) = F
    BY DEF GroupFields, Map
  <1>2. /\ G \in Seq(ToSet(G)) /\ Len(G) = n /\ n \in Nat
        /\ \A i \in 1..n : G[i].field = a.groupBy[i].field /\ a.groupBy[i].field \in DOMAIN d.metadata
    BY ResolvedGroupsAre
  <1>3. /\ Len(F) = n /\ DOMAIN F = 1..n
        /\ \A i \in 1..n : F[i] = G[i].field /\ F[i] \in DOMAIN d.metadata
    BY <1>2
  <1>4. F \in Seq(ToSet(F))
    <2>1. F = [i \in 1..n |-> F[i]]
      OBVIOUS
    <2>2. \A i \in 1..n : F[i] \in ToSet(F)
      BY <1>3 DEF ToSet
    <2> HIDE DEF F
    <2> QED
      BY <1>2, <2>1, <2>2, ListOf
  <1> HIDE DEF F, G, n
  <1>5. ASSUME NEW g \in ToSet(G) PROVE g.field \in ToSet(F)
    <2>1. PICK i \in 1..n : G[i] = g
      BY <1>2 DEF ToSet
    <2> QED
      BY <1>3, <2>1 DEF ToSet
  <1>6. ASSUME NEW f \in ToSet(F) PROVE f \in DOMAIN d.metadata /\ \E g \in ToSet(G) : g.field = f
    <2>1. PICK i \in 1..n : F[i] = f
      BY <1>3 DEF ToSet
    <2>2. G[i] \in ToSet(G)
      BY <1>2
    <2> QED
      BY <1>3, <2>1, <2>2
  <1>7. G = <<>> <=> F = <<>>
    BY <1>2, <1>3, <1>4
  <1> QED
    BY <1>1, <1>3, <1>4, <1>5, <1>6, <1>7 DEF G, n

(* What is not refused resolves.                                            *)
LEMMA AcceptedResolves ==
  ASSUME NEW a, NEW d, IsAggregated(d), a.groupBy \in Seq(ToSet(a.groupBy)),
         a.aggregates \in Seq(ToSet(a.aggregates)), ~AggregateRefused(a, d.metadata)
  PROVE  Resolvable(a, d)
  <1>1. /\ ~UnknownColumns(a, d.metadata) /\ ~Duplicates(GroupFields(a))
        /\ \A x \in ToSet(a.aggregates) : ~AggregationRefused(x.aggregation, d.metadata[x.measure])
    BY DEF AggregateRefused
  <1>2. ASSUME NEW g \in ToSet(a.groupBy), NEW h \in ToSet(a.groupBy), g.field = h.field
        PROVE  g.grain = h.grain
    <2> DEFINE n == Len(a.groupBy)
               F == [i \in 1..n |-> a.groupBy[i].field]
    <2>1. PICK i \in 1..n, j \in 1..n : a.groupBy[i] = g /\ a.groupBy[j] = h
      BY DEF ToSet
    <2>2. n \in Nat /\ GroupFields(a) = F /\ Len(F) = n
      BY DEF GroupFields, Map
    <2>3. F[i] = F[j]
      BY <1>2, <2>1
    <2>4. i = j
      BY <1>1, <2>2, <2>3 DEF Duplicates
    <2> QED
      BY <2>1, <2>4
  <1> QED
    BY <1>1, <1>2 DEF Resolvable

(* The sort of aggregates names columns of the answer.                      *)
LEMMA SortFieldsAreRead ==
  ASSUME NEW s, NEW C, IsSort(s), \A x \in ToSet(s) : x.field \in C
  PROVE  Fields(s) \subseteq C
  <1>1. \A i \in 1..Len(s) : s[i] \in ToSet(s)
    BY DEF IsSort, ToSet
  <1> QED
    BY <1>1 DEF Fields

LEMMA AggregateOf ==
  ASSUME NEW q \in Requests, q.kind = "aggregates", Accepted(q)
  PROVE  /\ Resolvable(q, q.data) /\ IsSort(q.sort) /\ ~AggregateRefused(q, q.data.metadata)
         /\ Groupable(AggregateParams(q, q.data.metadata), Kept(q, FilterOf(q, AllMetadata(q))))
  <1>1. /\ IsSort(q.sort) /\ q.groupBy \in Seq(ToSet(q.groupBy))
        /\ q.aggregates \in Seq(ToSet(q.aggregates))
        /\ \A d \in ToSet(Targets(q)) : IsAggregated(d)
    BY QueryAssumption DEF Paged
  <1>2. IsAggregated(q.data)
    BY <1>1 DEF Targets, Comparisons, ToSet
  <1>3. ~AggregateRefused(q, q.data.metadata)
    BY MetadataIs DEF Accepted, ArgumentsRefused
  <1>4. Resolvable(q, q.data)
    BY <1>1, <1>2, <1>3, AcceptedResolves
  <1>5. Kept(q, FilterOf(q, AllMetadata(q))) \subseteq q.data.rows
    BY DEF Kept
  <1> QED
    BY <1>1, <1>3, <1>4, <1>5, ResolvableIsGroupable

LEMMA AggregatesAreOrdered ==
  ASSUME NEW q \in Requests, q.kind = "aggregates", Accepted(q)
  PROVE  Ordered(Whole(q), q.sort)
  <1> DEFINE d == q.data
             m == d.metadata
             K == Kept(q, FilterOf(q, AllMetadata(q)))
             params == AggregateParams(q, m)
             R == AggregateSelect(params, K)
             fields == GroupFields(q)
  <1>1. Resolvable(q, d) /\ IsSort(q.sort) /\ ~AggregateRefused(q, m) /\ Groupable(params, K)
    BY AggregateOf
  <1>2. /\ params.groups = ResolvedGroups(q, m) /\ params.aggregates = ResolvedAggregates(q, m)
        /\ params.sort = ResolvedSort(q.sort, fields) /\ params.rowCount = q.rowCount
    BY DEF AggregateParams
  <1>3. Whole(q).rows = R /\ Whole(q).sort = ResolvedSort(q.sort, fields) /\ Whole(q).total = GroupCount(params, K)
    <2>1. Whole(q) = [rows |-> AggregateSelect(params, K), sort |-> params.sort, total |-> GroupCount(params, K)]
      BY MetadataIs DEF Whole, Result
    <2> QED
      BY <1>2, <2>1
  <1>4. Fields(q.sort) \subseteq ColumnsOf(params)
    <2>1. \A s \in ToSet(q.sort) : s.field \in ColumnsOf(params)
      BY <1>1, <1>2 DEF AggregateRefused, ColumnsOf
    <2> HIDE DEF params
    <2> QED
      BY <1>1, <2>1, SortFieldsAreRead
  <1> HIDE DEF params, K, R, fields, m, d
  <1>5. /\ fields \in Seq(ToSet(fields))
        /\ \A g \in ToSet(params.groups) : g.field \in ToSet(fields)
        /\ \A f \in ToSet(fields) : \E g \in ToSet(params.groups) : g.field = f
    BY <1>1, <1>2, GroupFieldsAre DEF fields, m
  <1>6. ToSet(fields) \subseteq ColumnsOf(params)
    BY <1>1, <1>5, OutputColumnsAre
  <1>7. /\ IsFiniteSet(R) /\ R \subseteq [ColumnsOf(params) -> Values]
        /\ Cardinality(R) = GroupCount(params, K)
        /\ \A x, y \in R : (\A g \in ToSet(params.groups) : x[g.field] = y[g.field]) => x = y
    BY <1>1, GroupedRows DEF R
  <1>8. ASSUME NEW x \in R, NEW y \in R, \A f \in ToSet(fields) : x[f] = y[f] PROVE x = y
    BY <1>5, <1>7, <1>8
  <1>9. Readable(R, q.sort, fields)
    BY <1>1, <1>4, <1>5, <1>6, <1>7, <1>8 DEF Readable
  <1> QED
    BY <1>3, <1>7, <1>9, ResolvedSortTells DEF Ordered

-----------------------------------------------------------------------------
(* The join of two datasets                                                 *)

(* A side of a comparison: its rows are told apart by their fields, and so  *)
(* by the texts of their fields.                                            *)
SideTells(side, fields) ==
  /\ IsFiniteSet(SideRows(side))
  /\ SideRows(side) \subseteq [ColumnsOf(side.params) -> Values]
  /\ ToSet(fields) \subseteq ColumnsOf(side.params)
  /\ \A r, s \in SideRows(side) : (\A f \in ToSet(fields) : r[f] = s[f]) => r = s
  /\ \A r, s \in SideRows(side) : \A f \in ToSet(fields) :
       TextOf(side, r, f) = TextOf(side, s, f) => r[f] = s[f]
  /\ \A r \in SideRows(side) : \A f \in ToSet(fields) : TextOf(side, r, f) \in Values
  /\ fields = <<>> => \E r : SideRows(side) = {r}

LEMMA SideIsTold ==
  ASSUME NEW x, NEW d, Resolvable(SideRequest(x), d), TextsTell(x.groupBy, d)
  PROVE  SideTells(Side(x, d), GroupFields(x))
  <1> DEFINE a == SideRequest(x)
             params == AggregateParams(a, d.metadata)
             R == AggregateSelect(params, d.rows)
             fields == GroupFields(x)
             G == ResolvedGroups(a, d.metadata)
             Read(f, v) == AsText(v, d.metadata[f].type)
  <1>1. Groupable(params, d.rows) /\ params.groups = G
    BY ResolvableIsGroupable
  <1>2. a.groupBy = x.groupBy /\ GroupFields(a) = fields
    BY DEF SideRequest, GroupFields
  <1>3. /\ Side(x, d).params = params /\ Side(x, d).data = d /\ SideRows(Side(x, d)) = R
        /\ \A r, f : TextOf(Side(x, d), r, f) = Read(f, r[f])
    BY DEF Side, SideRows, TextOf
  <1>4. /\ fields \in Seq(ToSet(fields)) /\ Len(fields) = Len(x.groupBy)
        /\ \A g \in ToSet(G) : g.field \in ToSet(fields)
        /\ \A f \in ToSet(fields) : f \in DOMAIN d.metadata /\ \E g \in ToSet(G) : g.field = f
        /\ G = <<>> <=> fields = <<>>
    BY <1>2, GroupFieldsAre
  <1>5. /\ Len(G) = Len(x.groupBy) /\ G \in Seq(ToSet(G))
        /\ \A i \in 1..Len(x.groupBy) : /\ x.groupBy[i] \in ToSet(x.groupBy)
                                        /\ G[i].field = x.groupBy[i].field
                                        /\ G[i].grain = x.groupBy[i].grain
    BY <1>2, ResolvedGroupsAre
  <1> HIDE DEF params, R, fields, a, G
  <1>6. /\ IsFiniteSet(R) /\ R \subseteq [ColumnsOf(params) -> Values]
        /\ \A r, s \in R : (\A g \in ToSet(G) : r[g.field] = s[g.field]) => r = s
        /\ G # <<>> => \A r \in R : \E t \in d.rows : \A g \in ToSet(G) : r[g.field] = GroupValue(g, t)
        /\ G = <<>> => \E r : R = {r}
    <2> DEFINE H == params.groups
    <2>1. /\ IsFiniteSet(R) /\ R \subseteq [ColumnsOf(params) -> Values]
          /\ \A r, s \in R : (\A g \in ToSet(H) : r[g.field] = s[g.field]) => r = s
          /\ H # <<>> => \A r \in R : \E t \in d.rows : \A g \in ToSet(H) : r[g.field] = GroupValue(g, t)
          /\ H = <<>> => \E r : R = {r}
      BY <1>1, GroupedRows DEF R
    <2>2. H = G
      BY <1>1
    <2> HIDE DEF H
    <2> QED
      BY <2>1, <2>2
  <1>7. \A f \in ToSet(fields) : f \in ColumnsOf(params)
    BY <1>1, <1>4, OutputColumnsAre
  <1>8. \A r, s \in R : (\A f \in ToSet(fields) : r[f] = s[f]) => r = s
    BY <1>4, <1>6
  <1>9. ASSUME NEW f \in ToSet(fields)
        PROVE  \E g \in ToSet(x.groupBy) :
                 /\ g.field = f /\ f \in DOMAIN d.metadata
                 /\ \A r \in R : \E t \in d.rows : r[f] = GroupValue(g, t)
    <2>1. PICK h \in ToSet(G) : h.field = f
      BY <1>4
    <2>2. PICK i \in 1..Len(x.groupBy) : G[i] = h
      BY <1>5, <2>1 DEF ToSet
    <2>3. G # <<>>
      BY <2>2, <1>5
    <2> DEFINE g == x.groupBy[i]
    <2>4. g \in ToSet(x.groupBy) /\ g.field = f /\ g.grain = h.grain
      BY <1>5, <2>1, <2>2
    <2> HIDE DEF g
    <2>5. \A t : GroupValue(g, t) = GroupValue(h, t)
      BY <2>1, <2>4 DEF GroupValue
    <2>6. \A r \in R : \E t \in d.rows : r[f] = GroupValue(h, t)
      BY <1>6, <2>1, <2>3
    <2> QED
      BY <1>4, <2>4, <2>5, <2>6
  <1>10. ASSUME NEW f \in ToSet(fields), NEW r \in R
         PROVE  r[f] = Null \/ Read(f, r[f]) \in Int
    <2>1. PICK g \in ToSet(x.groupBy) : /\ g.field = f /\ f \in DOMAIN d.metadata
                                        /\ \A s \in R : \E t \in d.rows : s[f] = GroupValue(g, t)
      BY <1>9
    <2> DEFINE known == {GroupValue(g, t) : t \in d.rows} \ {Null}
    <2>2. \A v \in known : CastText(v, d.metadata[g.field].type) \in Int
      BY <2>1 DEF TextsTell
    <2>3. r[f] = Null \/ r[f] \in known
      BY <2>1
    <2> HIDE DEF known
    <2> QED
      BY <2>1, <2>2, <2>3 DEF AsText
  <1>11. ASSUME NEW f \in ToSet(fields), NEW r \in R, NEW s \in R, Read(f, r[f]) = Read(f, s[f])
         PROVE  r[f] = s[f]
    <2>1. PICK g \in ToSet(x.groupBy) : /\ g.field = f /\ f \in DOMAIN d.metadata
                                        /\ \A y \in R : \E t \in d.rows : y[f] = GroupValue(g, t)
      BY <1>9
    <2> DEFINE known == {GroupValue(g, t) : t \in d.rows} \ {Null}
               type == d.metadata[g.field].type
    <2>2. \A v, w \in known : CastText(v, type) = CastText(w, type) => v = w
      BY <2>1 DEF TextsTell
    <2>3. (r[f] = Null \/ r[f] \in known) /\ (s[f] = Null \/ s[f] \in known)
      BY <2>1
    <2>4. Null \notin Int
      BY NullAssumption
    <2>5. (r[f] = Null => Read(f, r[f]) = Null) /\ (s[f] = Null => Read(f, s[f]) = Null)
      BY DEF AsText
    <2>6. (r[f] = Null \/ Read(f, r[f]) \in Int) /\ (s[f] = Null \/ Read(f, s[f]) \in Int)
      BY <1>10
    <2>7. r[f] = Null <=> s[f] = Null
      BY <1>11, <2>4, <2>5, <2>6
    <2>8. ASSUME r[f] # Null, s[f] # Null PROVE CastText(r[f], type) = CastText(s[f], type)
      BY <1>11, <2>1, <2>8 DEF AsText
    <2> HIDE DEF known, type, Read
    <2> QED
      BY <2>2, <2>3, <2>7, <2>8
  <1>12. \A r \in R : \A f \in ToSet(fields) : Read(f, r[f]) \in Values
    <2>1. \A v, f : v = Null => Read(f, v) = Null
      BY DEF AsText
    <2> HIDE DEF Read
    <2> QED
      BY <1>10, <2>1 DEF Values
  <1> HIDE DEF Read
  <1>13. SideTells(Side(x, d), fields)
    BY <1>3, <1>4, <1>6, <1>7, <1>8, <1>11, <1>12 DEF SideTells
  <1> QED
    BY <1>13 DEF fields

(* Each row of one side goes with one row of the other at most.             *)
PairsTell(J, sideA, sideB, fields) ==
  /\ IsFiniteSet(J) /\ J \subseteq SideRows(sideA) \X SideRows(sideB)
  /\ \A p, q \in J : (\A f \in ToSet(fields) : p[1][f] = q[1][f]) => p = q
  /\ fields = <<>> => Cardinality(J) = 1

LEMMA JoinedPairs ==
  ASSUME NEW sideA, NEW sideB, NEW fields, NEW nullSafe,
         SideTells(sideA, fields), SideTells(sideB, fields)
  PROVE  PairsTell(Joined(sideA, sideB, fields, nullSafe), sideA, sideB, fields)
  <1> DEFINE X == SideRows(sideA)
             Y == SideRows(sideB)
             J == Joined(sideA, sideB, fields, nullSafe)
  <1>1. J \subseteq X \X Y
    BY DEF Joined
  <1>2. \A p \in J : \A f \in ToSet(fields) : TextOf(sideA, p[1], f) = TextOf(sideB, p[2], f)
    BY DEF Joined
  <1>3. fields = <<>> => J = X \X Y
    <2>1. fields = <<>> => ToSet(fields) = {}
      BY DEF ToSet
    <2> QED
      BY <2>1 DEF Joined
  <1> HIDE DEF X, Y, J
  <1>4. IsFiniteSet(J)
    <2>1. IsFiniteSet(X \X Y)
      BY FS_Product DEF SideTells, X, Y
    <2> QED
      BY <1>1, <2>1, FS_Subset
  <1>5. ASSUME NEW p \in J, NEW q \in J, \A f \in ToSet(fields) : p[1][f] = q[1][f]
        PROVE  p = q
    <2>1. /\ p = <<p[1], p[2]>> /\ q = <<q[1], q[2]>>
          /\ p[1] \in X /\ q[1] \in X /\ p[2] \in Y /\ q[2] \in Y
      BY <1>1
    <2>2. p[1] = q[1]
      BY <1>5, <2>1 DEF SideTells, X
    <2>3. \A f \in ToSet(fields) : TextOf(sideB, p[2], f) = TextOf(sideB, q[2], f)
      BY <1>2, <2>2
    <2>4. \A f \in ToSet(fields) : p[2][f] = q[2][f]
      BY <2>1, <2>3 DEF SideTells, Y
    <2>5. p[2] = q[2]
      BY <2>1, <2>4 DEF SideTells, Y
    <2> QED
      BY <2>1, <2>2, <2>5
  <1>6. ASSUME fields = <<>> PROVE Cardinality(J) = 1
    <2>1. PICK r : X = {r}
      BY <1>6 DEF SideTells, X
    <2>2. PICK s : Y = {s}
      BY <1>6 DEF SideTells, Y
    <2>3. J = {<<r, s>>}
      BY <1>3, <1>6, <2>1, <2>2
    <2> QED
      BY <2>3, FS_Singleton
  <1> QED
    BY <1>1, <1>4, <1>5, <1>6 DEF X, Y, J, PairsTell

(* As many rows as pairs, where each pair has a row of its own.             *)
LEMMA RowsOfPairs ==
  ASSUME NEW J, NEW h, IsFiniteSet(J), \A p, q \in J : h[p] = h[q] => p = q
  PROVE  IsFiniteSet({h[p] : p \in J}) /\ Cardinality({h[p] : p \in J}) = Cardinality(J)
  <1> DEFINE T == {h[p] : p \in J}
             g == [p \in J |-> h[p]]
  <1>1. g \in Injection(J, T) /\ g \in Surjection(J, T)
    BY DEF Injection, IsInjective, Surjection
  <1>2. ExistsBijection(J, T)
    BY <1>1 DEF ExistsBijection, Bijection
  <1> QED
    BY <1>2, FS_Bijection

LEMMA ComparedValues ==
  ASSUME NEW v \in Values, NEW w \in Values
  PROVE  Delta(v, w) \in Values /\ DeltaPercent(v, w) \in Values
  <1>1. \A x, y \in Int : y > 0 => x \div y \in Int
    OBVIOUS
  <1>2. \A x, y \in Int : (y - x) * 100 \in Int /\ (x - y) * 100 \in Int /\ y - x \in Int
    OBVIOUS
  <1>3. CASE v = Null \/ w = Null
    BY <1>3 DEF Delta, DeltaPercent, Values
  <1>4. CASE v \in Int /\ w \in Int
    <2>1. v = 0 \/ v > 0 \/ (-v > 0 /\ -v \in Int)
      BY <1>4
    <2>2. v > 0 => ((w - v) * 100) \div v \in Int
      BY <1>1, <1>2, <1>4
    <2>3. -v > 0 => ((v - w) * 100) \div (-v) \in Int
      BY <1>1, <1>2, <1>4
    <2>4. w - v \in Int
      BY <1>4
    <2>5. DeltaPercent(v, w) \in Int \cup {Null}
      <3>1. CASE v = 0
        BY <3>1 DEF DeltaPercent
      <3>2. CASE v > 0
        BY <2>2, <3>2, <1>4 DEF DeltaPercent
      <3>3. CASE ~(v > 0) /\ v # 0
        BY <2>1, <2>3, <3>3 DEF DeltaPercent
      <3> QED
        BY <3>1, <3>2, <3>3
    <2> QED
      BY <2>4, <2>5 DEF Delta, Values
  <1> QED
    BY <1>3, <1>4 DEF Values

LEMMA CoalescedLabel ==
  ASSUME NEW S, NEW T, NEW a \in [S -> Values], NEW b \in [T -> Values], NEW label
  PROVE  CoalesceLabel(a, b, label) \in Values
  BY DEF CoalesceLabel, Values

-----------------------------------------------------------------------------
(* Comparisons                                                              *)

(* The names of ComparedColumns are made of an alias and a suffix.          *)
LEMMA ComparedColumnsAre ==
  ASSUME NEW aliases, aliases \in Seq(ToSet(aliases))
  PROVE  /\ ComparedColumns(aliases) \in Seq(ToSet(ComparedColumns(aliases)))
         /\ \A c \in ToSet(ComparedColumns(aliases)) :
              \E p \in ToSet(aliases) \X ToSet(ComparisonSuffixes) : c = p[1] \o p[2]
  <1> DEFINE n == Len(aliases)
             s == [k \in 1..4 * n |-> aliases[(k - 1) \div 4 + 1] \o ComparisonSuffixes[((k - 1) % 4) + 1]]
  <1>1. ComparedColumns(aliases) = s
    BY DEF ComparedColumns
  <1>2. n \in Nat /\ 4 * n \in Nat
    OBVIOUS
  <1>3. s \in Seq(ToSet(s)) /\ DOMAIN s = 1..4 * n
    <2>1. s = [k \in 1..4 * n |-> s[k]] /\ DOMAIN s = 1..4 * n
      OBVIOUS
    <2> HIDE DEF s
    <2> QED
      BY <1>2, <2>1, MapIsList
  <1>4. ASSUME NEW c \in ToSet(s)
        PROVE  \E p \in ToSet(aliases) \X ToSet(ComparisonSuffixes) : c = p[1] \o p[2]
    <2>1. PICK k \in 1..4 * n : c = s[k]
      BY <1>3 DEF ToSet
    <2> DEFINE i == (k - 1) \div 4
               j == (k - 1) % 4
    <2>2. c = aliases[i + 1] \o ComparisonSuffixes[j + 1]
      BY <2>1
    <2>3. i + 1 \in 1..n /\ j + 1 \in 1..4
      BY <1>2
    <2> HIDE DEF i, j
    <2>4. aliases[i + 1] \in ToSet(aliases)
      BY <2>3 DEF ToSet
    <2>5. ComparisonSuffixes[j + 1] \in ToSet(ComparisonSuffixes)
      BY <2>3 DEF ToSet, ComparisonSuffixes
    <2>6. <<aliases[i + 1], ComparisonSuffixes[j + 1]>> \in ToSet(aliases) \X ToSet(ComparisonSuffixes)
      BY <2>4, <2>5
    <2> QED
      BY <2>2, <2>6
  <1> QED
    BY <1>1, <1>3, <1>4

LEMMA SuffixesAre ==
  ToSet(ComparisonSuffixes) = {"_a", "_b", "_delta", "_delta_pct"}
  <1>1. DOMAIN ComparisonSuffixes = 1..4
    BY DEF ComparisonSuffixes
  <1>2. 1..4 = {1, 2, 3, 4}
    OBVIOUS
  <1> QED
    BY <1>1, <1>2 DEF ToSet, ComparisonSuffixes

(* A row of compareAggregatedFacts(), of sides with the columns S and T.    *)
Comparable(S, T, header, fields, labels, aliases) ==
  /\ ToSet(fields) \subseteq S /\ ToSet(aliases) \subseteq S /\ ToSet(aliases) \subseteq T
  /\ aliases \in Seq(ToSet(aliases))
  /\ ToSet(header) = ToSet(fields) \cup ToSet(labels) \cup ToSet(ComparedColumns(aliases))

LEMMA ComparedRowType ==
  ASSUME NEW S, NEW T, NEW a \in [S -> Values], NEW b \in [T -> Values],
         NEW header, NEW fields, NEW labels, NEW aliases,
         Comparable(S, T, header, fields, labels, aliases)
  PROVE  /\ ComparedRow(a, b, header, fields, labels, aliases) \in [ToSet(header) -> Values]
         /\ \A f \in ToSet(fields) : ComparedRow(a, b, header, fields, labels, aliases)[f] = a[f]
  <1> DEFINE P == ToSet(aliases) \X ToSet(ComparisonSuffixes)
             Part(c) == CHOOSE p \in P : c = p[1] \o p[2]
             At(c) == IF c \in ToSet(fields) THEN a[c]
                      ELSE IF c \in ToSet(labels) THEN CoalesceLabel(a, b, c)
                      ELSE ComparedValue(a[Part(c)[1]], b[Part(c)[1]], Part(c)[2])
  <1>1. ComparedRow(a, b, header, fields, labels, aliases) = [c \in ToSet(header) |-> At(c)]
    BY DEF ComparedRow
  <1>2. ASSUME NEW c \in ToSet(ComparedColumns(aliases))
        PROVE  ComparedValue(a[Part(c)[1]], b[Part(c)[1]], Part(c)[2]) \in Values
    <2>1. \E p \in P : c = p[1] \o p[2]
      BY ComparedColumnsAre DEF Comparable
    <2>2. PICK p \in P : p = Part(c)
      BY <2>1
    <2>3. p[1] \in ToSet(aliases) /\ p[2] \in {"_a", "_b", "_delta", "_delta_pct"}
      BY SuffixesAre
    <2>4. a[p[1]] \in Values /\ b[p[1]] \in Values
      BY <2>3 DEF Comparable
    <2>5. /\ Delta(a[p[1]], b[p[1]]) \in Values
          /\ DeltaPercent(a[p[1]], b[p[1]]) \in Values
      BY <2>4, ComparedValues
    <2> HIDE DEF Part
    <2>6. ComparedValue(a[p[1]], b[p[1]], p[2]) \in Values
      BY <2>3, <2>4, <2>5 DEF ComparedValue
    <2> QED
      BY <2>2, <2>6
  <1>3. \A c : CoalesceLabel(a, b, c) \in Values
    BY CoalescedLabel
  <1>4. \A c \in ToSet(header) : At(c) \in Values
    <2>1. \A c \in ToSet(fields) : a[c] \in Values
      BY DEF Comparable
    <2> QED
      BY <1>2, <1>3, <2>1 DEF Comparable
  <1>5. \A f \in ToSet(fields) : At(f) = a[f]
    OBVIOUS
  <1> HIDE DEF At
  <1> QED
    BY <1>1, <1>4, <1>5 DEF Comparable

(* Of what getAggregates would accept of both datasets, the aggregates are  *)
(* the same, and so are their aliases.                                      *)
LEMMA SameAliases ==
  ASSUME NEW a, NEW A, NEW B, Resolvable(a, A), Resolvable(a, B),
         \A i \in 1..Len(ResolvedAggregates(a, A.metadata)) :
           ResolvedAggregates(a, A.metadata)[i].aggregation = ResolvedAggregates(a, B.metadata)[i].aggregation
  PROVE  Aliases(ResolvedAggregates(a, A.metadata)) = Aliases(ResolvedAggregates(a, B.metadata))
  <1> DEFINE n == Len(a.aggregates)
             Effective(x, m) == EffectiveAggregation(x.aggregation, m[x.measure])
             Alias(x, e) == IF x.alias = Null THEN DefaultAlias(x.measure, e) ELSE x.alias
             Of(x, m) == [measure |-> x.measure, aggregation |-> Effective(x, m), alias |-> Alias(x, Effective(x, m))]
             Agg(m) == [i \in 1..n |-> Of(a.aggregates[i], m)]
             mA == A.metadata
             mB == B.metadata
  <1>1. \A m : ResolvedAggregates(a, m) = Agg(m)
    BY DEF ResolvedAggregates, Map
  <1>2. n \in Nat
    BY DEF Resolvable
  <1>3. \A m : Len(Agg(m)) = n
    BY <1>2
  <1>4. \A m : \A i \in 1..n : /\ Agg(m)[i].aggregation = Effective(a.aggregates[i], m)
                               /\ Agg(m)[i].alias = Alias(a.aggregates[i], Effective(a.aggregates[i], m))
    BY Zenon
  <1> HIDE DEF Agg, Alias, Effective
  <1>5. \A i \in 1..n : Agg(mA)[i].aggregation = Agg(mB)[i].aggregation
    BY <1>1, <1>3
  <1>6. \A i \in 1..n : Agg(mA)[i].alias = Agg(mB)[i].alias
    BY <1>4, <1>5
  <1>7. \A m : Aliases(Agg(m)) = [i \in 1..n |-> Agg(m)[i].alias]
    BY <1>3 DEF Aliases, Map
  <1> QED
    BY <1>1, <1>6, <1>7

(* What an accepted request compares.                                       *)
LEMMA ComparisonResolves ==
  ASSUME NEW q \in Requests, q.kind = "compareAggregatedFacts", Accepted(q)
  PROVE  /\ Resolvable(SideRequest(q), q.data) /\ Resolvable(SideRequest(q), q.other)
         /\ TextsTell(q.groupBy, q.data) /\ TextsTell(q.groupBy, q.other) /\ IsSort(q.sort)
         /\ ~ComparisonRefused(q, q.data.metadata, q.other.metadata)
  <1> DEFINE a == SideRequest(q)
  <1>1. /\ q.groupBy \in Seq(ToSet(q.groupBy)) /\ q.aggregates \in Seq(ToSet(q.aggregates))
        /\ \A d \in ToSet(Targets(q)) : IsAggregated(d)
        /\ \A d \in {q.data, q.other} : TextsTell(q.groupBy, d)
        /\ IsSort(q.sort)
    BY QueryAssumption DEF Paged, Comparisons
  <1>2. IsAggregated(q.data) /\ IsAggregated(q.other)
    <2>1. Targets(q) = <<q.data, q.other>>
      BY DEF Targets, Comparisons
    <2>2. q.data \in ToSet(Targets(q)) /\ q.other \in ToSet(Targets(q))
      BY <2>1 DEF ToSet
    <2> QED
      BY <1>1, <2>2
  <1>3. ~ComparisonRefused(q, q.data.metadata, q.other.metadata)
    BY MetadataIs DEF Accepted, ArgumentsRefused, Comparisons
  <1>4. ~AggregateRefused(a, q.data.metadata) /\ ~AggregateRefused(a, q.other.metadata)
    BY <1>3 DEF ComparisonRefused, SideRefused
  <1>5. a.groupBy = q.groupBy /\ a.aggregates = q.aggregates
    BY DEF SideRequest
  <1> HIDE DEF a
  <1>6. Resolvable(a, q.data) /\ Resolvable(a, q.other)
    BY <1>1, <1>2, <1>4, <1>5, AcceptedResolves
  <1> QED
    BY <1>1, <1>3, <1>6 DEF a

LEMMA BothLabelledIs ==
  ASSUME NEW G, NEW H, G \in Seq(ToSet(G))
  PROVE  /\ BothLabelled(G, H) \in Seq(ToSet(BothLabelled(G, H)))
  <1> DEFINE s == [i \in 1..Len(G) |-> [G[i] EXCEPT !.label = IF @ # Null THEN @ ELSE H[i].label]]
  <1>1. BothLabelled(G, H) = s /\ Len(G) \in Nat /\ s = [i \in 1..Len(G) |-> s[i]]
    BY DEF BothLabelled
  <1> HIDE DEF s
  <1> QED
    BY <1>1, MapIsList

(* A row of compareAggregatedFacts(), and the pairs it has rows for.        *)
ComparedRowOf(q, p) ==
  LET a == SideRequest(q)
      G == ResolvedGroups(a, q.data.metadata)
      H == ResolvedGroups(a, q.other.metadata)
      N == ResolvedAggregates(a, q.data.metadata)
  IN ComparedRow(p[1], p[2], ComparisonColumns(G, H, N), GroupFields(q),
                 LabelColumns(BothLabelled(G, H)), Aliases(N))
ComparedPairs(q) == Joined(Side(q, q.data), Side(q, q.other), GroupFields(q), TRUE)

LEMMA ComparedRowsAre ==
  ASSUME NEW q, q.kind = "compareAggregatedFacts"
  PROVE  /\ Whole(q).rows = {ComparedRowOf(q, p) : p \in ComparedPairs(q)}
         /\ Whole(q).sort = ResolvedSort(q.sort, GroupFields(q))
         /\ Whole(q).total = IF GroupFields(q) = <<>> THEN 1 ELSE Cardinality(ComparedPairs(q))
  <1> DEFINE a == SideRequest(q)
             sideA == Side(q, q.data)
             sideB == Side(q, q.other)
             fields == GroupFields(q)
             G == ResolvedGroups(a, q.data.metadata)
             H == ResolvedGroups(a, q.other.metadata)
             N == ResolvedAggregates(a, q.data.metadata)
             g == sideA.params.groups
             k == sideB.params.groups
             n == sideA.params.aggregates
             pairs == ComparedPairs(q)
  <1>1. Whole(q) = CompareAggregatedFacts(q, q.data, q.other)
    BY DEF Whole, Result
  <1>2. CompareAggregatedFacts(q, q.data, q.other)
        = [rows |-> {ComparedRow(p[1], p[2], ComparisonColumns(g, k, n), fields,
                                 LabelColumns(BothLabelled(g, k)), Aliases(n)) : p \in pairs},
           sort |-> ResolvedSort(q.sort, fields),
           total |-> IF fields = <<>> THEN 1 ELSE Cardinality(pairs)]
    BY DEF CompareAggregatedFacts, ComparedPairs
  <1>3. g = G /\ k = H /\ n = N
    BY DEF Side, AggregateParams
  <1>4. \A p : ComparedRowOf(q, p) = ComparedRow(p[1], p[2], ComparisonColumns(G, H, N), fields,
                                                 LabelColumns(BothLabelled(G, H)), Aliases(N))
    BY DEF ComparedRowOf
  <1> HIDE DEF g, k, n, G, H, N, pairs, sideA, sideB, fields, a
  <1> QED
    BY <1>1, <1>2, <1>3, <1>4 DEF pairs, fields

LEMMA AggregatedComparisonIsOrdered ==
  ASSUME NEW q \in Requests, q.kind = "compareAggregatedFacts", Accepted(q)
  PROVE  Ordered(Whole(q), q.sort)
  <1> DEFINE A == q.data
             B == q.other
             mA == A.metadata
             mB == B.metadata
             a == SideRequest(q)
             sideA == Side(q, A)
             sideB == Side(q, B)
             fields == GroupFields(q)
             G == ResolvedGroups(a, mA)
             H == ResolvedGroups(a, mB)
             N == ResolvedAggregates(a, mA)
             M == ResolvedAggregates(a, mB)
             aliases == Aliases(N)
             labels == LabelColumns(BothLabelled(G, H))
             header == ComparisonColumns(G, H, N)
             pairs == Joined(sideA, sideB, fields, TRUE)
             h == [p \in pairs |-> ComparedRow(p[1], p[2], header, fields, labels, aliases)]
             R == {h[p] : p \in pairs}
  <1>1. /\ Resolvable(a, A) /\ Resolvable(a, B) /\ IsSort(q.sort)
        /\ TextsTell(q.groupBy, A) /\ TextsTell(q.groupBy, B)
        /\ ~ComparisonRefused(q, mA, mB)
    BY ComparisonResolves
  <1>2. /\ sideA.params.groups = G /\ sideB.params.groups = H
        /\ sideA.params.aggregates = N /\ sideB.params.aggregates = M
        /\ SideRows(sideA) = AggregateSelect(sideA.params, A.rows)
        /\ SideRows(sideB) = AggregateSelect(sideB.params, B.rows)
        /\ sideA.params = AggregateParams(a, mA) /\ sideB.params = AggregateParams(a, mB)
    BY DEF Side, AggregateParams, SideRows
  <1>3. /\ Whole(q).rows = {ComparedRow(p[1], p[2], header, fields, labels, aliases) : p \in pairs}
        /\ Whole(q).sort = ResolvedSort(q.sort, fields)
        /\ Whole(q).total = IF fields = <<>> THEN 1 ELSE Cardinality(pairs)
    <2>1. /\ Whole(q).rows = {ComparedRowOf(q, p) : p \in pairs}
          /\ Whole(q).sort = ResolvedSort(q.sort, fields)
          /\ Whole(q).total = IF fields = <<>> THEN 1 ELSE Cardinality(pairs)
      BY ComparedRowsAre DEF ComparedPairs
    <2>2. \A p : ComparedRowOf(q, p) = ComparedRow(p[1], p[2], header, fields, labels, aliases)
      BY DEF ComparedRowOf
    <2> HIDE DEF header, fields, labels, aliases, pairs
    <2> QED
      BY <2>1, <2>2
  <1>4. /\ ~Duplicates(header) /\ \A s \in ToSet(q.sort) : s.field \in ToSet(header)
        /\ \A i \in 1..Len(N) : N[i].aggregation = M[i].aggregation
    <2>1. /\ ResolvedGroups(q, mA) = G /\ ResolvedGroups(q, mB) = H
          /\ ResolvedAggregates(q, mA) = N /\ ResolvedAggregates(q, mB) = M
      BY DEF ResolvedGroups, ResolvedAggregates, SideRequest
    <2> HIDE DEF G, H, N, M
    <2> QED
      BY <1>1, <2>1 DEF ComparisonRefused, SidesDiffer
  <1>5. SideTells(sideA, fields) /\ SideTells(sideB, fields)
    BY <1>1, SideIsTold
  <1>6. /\ G \in Seq(ToSet(G)) /\ N \in Seq(ToSet(N)) /\ M \in Seq(ToSet(M))
        /\ Len(G) = Len(q.groupBy) /\ \A i \in 1..Len(q.groupBy) : G[i].field = q.groupBy[i].field
    <2>1. a.groupBy = q.groupBy
      BY DEF SideRequest
    <2> HIDE DEF a
    <2> QED
      BY <1>1, <2>1, ResolvedGroupsAre, ResolvedAggregatesAre
  <1>7. Map(G, LAMBDA g : g.field) = fields
    <2> HIDE DEF G
    <2> QED
      BY <1>6 DEF GroupFields, Map
  <1>8. aliases = Aliases(M)
    BY <1>1, <1>4, SameAliases
  <1>9. Groupable(sideA.params, A.rows) /\ Groupable(sideB.params, B.rows)
    BY <1>1, <1>2, ResolvableIsGroupable
  <1> HIDE DEF A, B, mA, mB, a, sideA, sideB, fields, G, H, N, M
  <1>10. /\ fields \in Seq(ToSet(fields)) /\ labels \in Seq(ToSet(labels))
         /\ aliases \in Seq(ToSet(aliases))
    <2> DEFINE L == BothLabelled(G, H)
    <2>1. L \in Seq(ToSet(L))
      BY <1>6, BothLabelledIs
    <2> HIDE DEF L
    <2>2. /\ Map(G, LAMBDA g : g.field) \in Seq(ToSet(Map(G, LAMBDA g : g.field)))
          /\ Aliases(N) \in Seq(ToSet(Aliases(N)))
      BY <1>6, ColumnPartsAre
    <2>3. LabelColumns(L) \in Seq(ToSet(LabelColumns(L)))
      BY <1>6, <2>1, ColumnPartsAre
    <2> QED
      BY <1>7, <2>2, <2>3 DEF L
  <1>11. header = fields \o labels \o ComparedColumns(aliases)
    BY <1>7 DEF ComparisonColumns
  <1> HIDE DEF labels, header, aliases
  <1>12. ToSet(header) = ToSet(fields) \cup ToSet(labels) \cup ToSet(ComparedColumns(aliases))
    <2>1. ComparedColumns(aliases) \in Seq(ToSet(ComparedColumns(aliases)))
      BY <1>10, ComparedColumnsAre
    <2> QED
      BY <1>4, <1>10, <1>11, <2>1, NamesAreApart
  <1>13. ToSet(aliases) \subseteq ColumnsOf(sideA.params) /\ ToSet(aliases) \subseteq ColumnsOf(sideB.params)
    <2>1. /\ \A x \in ToSet(N) : x.alias \in ColumnsOf(sideA.params)
          /\ \A x \in ToSet(M) : x.alias \in ColumnsOf(sideB.params)
      BY <1>2, <1>9, OutputColumnsAre
    <2>2. /\ \A c \in ToSet(Aliases(N)) : \E x \in ToSet(N) : x.alias = c
          /\ \A c \in ToSet(Aliases(M)) : \E x \in ToSet(M) : x.alias = c
      BY <1>2, <1>9, OutputColumnsAre
    <2> QED
      BY <1>8, <2>1, <2>2 DEF aliases
  <1>14. ASSUME NEW p \in pairs
         PROVE  /\ h[p] \in [ToSet(header) -> Values]
                /\ \A f \in ToSet(fields) : h[p][f] = p[1][f]
    <2>1. p[1] \in [ColumnsOf(sideA.params) -> Values] /\ p[2] \in [ColumnsOf(sideB.params) -> Values]
      <3>1. p[1] \in SideRows(sideA) /\ p[2] \in SideRows(sideB)
        BY DEF Joined
      <3> QED
        BY <1>5, <3>1 DEF SideTells
    <2>2. ToSet(fields) \subseteq ColumnsOf(sideA.params)
      BY <1>5 DEF SideTells
    <2>3. h[p] = ComparedRow(p[1], p[2], header, fields, labels, aliases)
      OBVIOUS
    <2> DEFINE S == ColumnsOf(sideA.params)
               T == ColumnsOf(sideB.params)
    <2> HIDE DEF h, pairs
    <2>4. Comparable(S, T, header, fields, labels, aliases)
      BY <1>10, <1>12, <1>13, <2>2 DEF Comparable
    <2>5. PICK x \in [S -> Values], y \in [T -> Values] : x = p[1] /\ y = p[2]
      BY <2>1
    <2> HIDE DEF S, T
    <2>6. /\ ComparedRow(x, y, header, fields, labels, aliases) \in [ToSet(header) -> Values]
          /\ \A f \in ToSet(fields) : ComparedRow(x, y, header, fields, labels, aliases)[f] = x[f]
      BY <2>4, ComparedRowType
    <2> QED
      BY <2>3, <2>5, <2>6
  <1>15. /\ IsFiniteSet(pairs)
         /\ \A p, r \in pairs : (\A f \in ToSet(fields) : p[1][f] = r[1][f]) => p = r
         /\ fields = <<>> => Cardinality(pairs) = 1
    <2>1. PairsTell(pairs, sideA, sideB, fields)
      BY <1>5, JoinedPairs, Zenon
    <2> HIDE DEF pairs
    <2> QED
      BY <2>1 DEF PairsTell
  <1>16. Whole(q).rows = R
    BY <1>3
  <1> HIDE DEF h, pairs
  <1>17. \A p, r \in pairs : (\A f \in ToSet(fields) : h[p][f] = h[r][f]) => p = r
    BY <1>14, <1>15
  <1>18. IsFiniteSet(R) /\ Cardinality(R) = Cardinality(pairs)
    BY <1>15, <1>17, RowsOfPairs
  <1>19. \A x \in R : \A c \in ToSet(header) : x[c] \in Values
    BY <1>14
  <1>20. \A x, y \in R : (\A f \in ToSet(fields) : x[f] = y[f]) => x = y
    BY <1>17
  <1>21. Fields(q.sort) \subseteq ToSet(header)
    BY <1>1, <1>4, SortFieldsAreRead
  <1> HIDE DEF R
  <1>22. Readable(R, q.sort, fields)
    BY <1>1, <1>10, <1>12, <1>18, <1>19, <1>20, <1>21 DEF Readable
  <1>23. Whole(q).total = Cardinality(R)
    BY <1>3, <1>15, <1>18
  <1>24. /\ Tells(ResolvedSort(q.sort, fields), R)
         /\ \A x, y \in R : Before(x, y, q.sort) => Before(x, y, ResolvedSort(q.sort, fields))
    BY <1>22, ResolvedSortTells
  <1> QED
    BY <1>3, <1>16, <1>23, <1>24 DEF Ordered

(* A sort, and then the keys.                                               *)
LEMMA KeyedSortTells ==
  ASSUME NEW rows, NEW s, NEW keys, Readable(rows, s, keys)
  PROVE  /\ Tells(s \o Asc(keys), rows)
         /\ \A r, q : Before(r, q, s) => Before(r, q, s \o Asc(keys))
  <1> DEFINE S == Fields(s) \cup ToSet(keys)
             k == Asc(keys)
             t == s \o k
  <1>1. s \in Seq(SortItems(S)) /\ keys \in Seq(S)
    <2>1. [field : Fields(s), dir : {"ASC", "DESC"}] \subseteq SortItems(S) /\ ToSet(keys) \subseteq S
      BY DEF SortItems
    <2>2. s \in Seq([field : Fields(s), dir : {"ASC", "DESC"}]) /\ keys \in Seq(ToSet(keys))
      BY DEF Readable, IsSort
    <2> HIDE DEF S
    <2> QED
      BY <2>1, <2>2, SeqOfMore
  <1> HIDE DEF S
  <1>2. /\ k \in Seq(SortItems(S)) /\ Len(k) = Len(keys) /\ Len(keys) \in Nat
        /\ \A i \in 1..Len(keys) : k[i] = [field |-> keys[i], dir |-> "ASC"]
    BY <1>1, AscOfFields
  <1> HIDE DEF k
  <1>3. /\ t \in Seq(SortItems(S)) /\ Len(t) = Len(s) + Len(k) /\ Len(s) \in Nat
        /\ \A i \in 1..Len(k) : t[Len(s) + i] = k[i]
    <2>1. PICK V : V = SortItems(S)
      OBVIOUS
    <2>2. s \in Seq(V) /\ k \in Seq(V)
      BY <1>1, <1>2, <2>1
    <2>3. t \in Seq(V) /\ Len(t) = Len(s) + Len(k) /\ Len(s) \in Nat
          /\ \A i \in 1..Len(k) : t[Len(s) + i] = k[i]
      BY <2>2
    <2> QED
      BY <2>1, <2>3
  <1>4. \A r, q : Before(r, q, s) => Before(r, q, t)
    BY <1>1, <1>2, BeforeInPrefix
  <1> HIDE DEF t
  <1>5. ToSet(keys) \subseteq Fields(t)
    <2> SUFFICES ASSUME NEW c \in ToSet(keys) PROVE c \in Fields(t)
      OBVIOUS
    <2>1. PICK i \in 1..Len(keys) : keys[i] = c
      BY <1>1 DEF ToSet
    <2>2. k[i] = [field |-> c, dir |-> "ASC"]
      BY <1>2, <2>1
    <2>3. Len(s) + i \in 1..Len(t) /\ t[Len(s) + i] = k[i]
      BY <1>2, <1>3
    <2>4. t[Len(s) + i].field = c
      BY <2>2, <2>3
    <2> QED
      BY <2>3, <2>4 DEF Fields
  <1>6. ASSUME NEW r \in rows PROVE Reads(t, r)
    <2>1. ASSUME NEW i \in 1..Len(t) PROVE t[i].dir \in {"ASC", "DESC"} /\ r[t[i].field] \in Values
      <3>1. t[i] \in SortItems(S)
        BY <1>3
      <3>2. t[i].field \in S /\ t[i].dir \in {"ASC", "DESC"}
        BY <3>1 DEF SortItems
      <3> QED
        BY <3>2 DEF S, Readable
    <2> QED
      BY <2>1 DEF Reads
  <1>7. Tells(t, rows)
    <2>1. Len(t) \in Nat
      BY <1>3
    <2> QED
      BY <1>5, <1>6, <2>1 DEF Tells, Readable
  <1> QED
    BY <1>4, <1>7 DEF t, k

(* What an accepted request compares: one measure, by keys.                 *)
LEMMA KeyedComparisonResolves ==
  ASSUME NEW q \in Requests, q.kind = "compareFacts", Accepted(q)
  PROVE  /\ \A d \in {q.data, q.other} :
              /\ Resolvable(SideRequest(MeasureRequest(q)), d) /\ TextsTell(q.groupBy, d)
              /\ \E x \in ToSet(ResolvedAggregates(SideRequest(MeasureRequest(q)), d.metadata)) :
                   x.alias = MeasureAlias
         /\ ~UnknownColumns(q, q.data.metadata)
         /\ SideRequest(MeasureRequest(q)).groupBy = q.groupBy
         /\ MeasureRequest(q).groupBy = q.groupBy
         /\ IsSort(q.sort) /\ q.groupBy # <<>> /\ IsKeyed(q)
         /\ \A s \in ToSet(q.sort) : s.field \in ComparisonFields
  <1> DEFINE a == SideRequest(MeasureRequest(q))
             c == q.aggregates[1]
             one == [measure |-> c.measure, aggregation |-> c.aggregation, alias |-> MeasureAlias]
  <1>1. /\ q.groupBy \in Seq(ToSet(q.groupBy)) /\ q.aggregates \in Seq(ToSet(q.aggregates))
        /\ \A d \in ToSet(Targets(q)) : IsAggregated(d)
        /\ \A d \in {q.data, q.other} : TextsTell(q.groupBy, d)
        /\ IsSort(q.sort) /\ IsKeyed(q)
    BY QueryAssumption DEF Paged, Comparisons
  <1>2. IsAggregated(q.data) /\ IsAggregated(q.other)
    <2>1. Targets(q) = <<q.data, q.other>>
      BY DEF Targets, Comparisons
    <2>2. q.data \in ToSet(Targets(q)) /\ q.other \in ToSet(Targets(q))
      BY <2>1 DEF ToSet
    <2> QED
      BY <1>1, <2>2
  <1>3. /\ ~CompareFactsRefused(q, q.data.metadata, q.other.metadata)
        /\ ~ComparisonMalformed(q)
    BY MetadataIs DEF Accepted, Admitted, ArgumentsRefused, Comparisons
  <1>4. a.groupBy = q.groupBy /\ a.aggregates = <<one>> /\ MeasureRequest(q).groupBy = q.groupBy
    BY DEF SideRequest, MeasureRequest
  <1>5. /\ one.measure = c.measure /\ one.aggregation = c.aggregation /\ one.alias = MeasureAlias
    OBVIOUS
  <1> HIDE DEF a, one
  <1>6. Len(q.aggregates) = 1 /\ \A g \in ToSet(q.groupBy) : g.grain = Null
    BY <1>1 DEF IsKeyed
  <1>7. /\ a.aggregates \in Seq(ToSet(a.aggregates)) /\ ToSet(a.aggregates) = {one}
        /\ Len(a.aggregates) = 1 /\ a.aggregates[1] = one
    <2>1. DOMAIN <<one>> = {1} /\ <<one>>[1] = one /\ <<one>> \in Seq({one})
      OBVIOUS
    <2>2. ToSet(<<one>>) = {one}
      BY <2>1 DEF ToSet
    <2> QED
      BY <1>4, <2>1, <2>2
  <1>8. GroupFields(a) = GroupFields(q) /\ Measures(a) = Measures(q)
    <2>1. Measures(a) = [i \in 1..1 |-> a.aggregates[i].measure]
          /\ Measures(q) = [i \in 1..1 |-> q.aggregates[i].measure]
      BY <1>6, <1>7 DEF Measures, Map
    <2>2. \A i \in 1..1 : a.aggregates[i].measure = q.aggregates[i].measure
      BY <1>5, <1>7
    <2> QED
      BY <1>4, <2>1, <2>2 DEF GroupFields
  <1>9. ASSUME NEW d \in {q.data, q.other}
        PROVE  /\ Resolvable(a, d) /\ ~UnknownColumns(q, d.metadata)
               /\ \E x \in ToSet(ResolvedAggregates(a, d.metadata)) : x.alias = MeasureAlias
    <2>1. /\ ~UnknownColumns(q, d.metadata)
          /\ ~AggregationRefused(c.aggregation, d.metadata[c.measure])
      BY <1>3 DEF CompareFactsRefused
    <2>2. ~UnknownColumns(a, d.metadata)
      BY <1>8, <2>1 DEF UnknownColumns
    <2>3. \A x \in ToSet(a.aggregates) : ~AggregationRefused(x.aggregation, d.metadata[x.measure])
      BY <1>5, <1>7, <2>1
    <2>4. Resolvable(a, d)
      BY <1>1, <1>2, <1>4, <1>6, <1>7, <2>2, <2>3 DEF Resolvable
    <2> DEFINE N == ResolvedAggregates(a, d.metadata)
    <2>5. N[1].alias = MeasureAlias
      <3>1. N[1].alias = IF one.alias = Null
                         THEN DefaultAlias(one.measure, EffectiveAggregation(one.aggregation, d.metadata[one.measure]))
                         ELSE one.alias
        BY <1>7 DEF ResolvedAggregates, Map
      <3>2. MeasureAlias # Null
        BY NameAssumption
      <3> QED
        BY <1>5, <3>1, <3>2
    <2>6. N \in Seq(ToSet(N)) /\ Len(N) = 1
      BY <1>7, <2>4, ResolvedAggregatesAre
    <2>7. N[1] \in ToSet(N)
      BY <2>6 DEF ToSet
    <2> QED
      BY <2>1, <2>4, <2>5, <2>7
  <1> QED
    BY <1>1, <1>3, <1>4, <1>9 DEF ComparisonMalformed, a

(* A row of compareFacts(), of sides with the columns S and T.              *)
Matchable(S, T, sideA, a, fields) ==
  /\ MeasureAlias \in S /\ MeasureAlias \in T
  /\ fields \in Seq(ToSet(fields))
  /\ KeyText(sideA, a, fields) \in Values
  /\ \A f \in ToSet(fields) : TextOf(sideA, a, f) \in Values
  /\ \A i, j \in 1..Len(fields) : KeyColumn(i) = KeyColumn(j) => i = j
  /\ \A i \in 1..Len(fields) : KeyColumn(i) \notin ComparisonFields

RowColumns(fields) == ComparisonFields \cup {KeyColumn(i) : i \in 1..Len(fields)}
ShowsKeys(row, sideA, a, fields) ==
  /\ \A c \in RowColumns(fields) : row[c] \in Values
  /\ \A i \in 1..Len(fields) : row[KeyColumn(i)] = TextOf(sideA, a, fields[i])

LEMMA ComparisonRowType ==
  ASSUME NEW S, NEW T, NEW a \in [S -> Values], NEW b \in [T -> Values], NEW sideA, NEW fields,
         Matchable(S, T, sideA, a, fields)
  PROVE  ShowsKeys(ComparisonRow(sideA, a, b, fields), sideA, a, fields)
  <1> DEFINE label == IF Len(fields) = 1 THEN CoalesceLabel(a, b, LabelColumnOf(fields[1])) ELSE Null
             v == a[MeasureAlias]
             w == b[MeasureAlias]
             shown == [key |-> KeyText(sideA, a, fields), keyLabel |-> label, valueA |-> v, valueB |-> w,
                       delta |-> Delta(v, w), deltaPercent |-> DeltaPercent(v, w)]
             Place(c) == CHOOSE i \in 1..Len(fields) : KeyColumn(i) = c
             C == ComparisonFields \cup {KeyColumn(i) : i \in 1..Len(fields)}
             At(c) == IF c \in ComparisonFields THEN shown[c] ELSE TextOf(sideA, a, fields[Place(c)])
  <1>1. ComparisonRow(sideA, a, b, fields) = [c \in C |-> At(c)]
    BY DEF ComparisonRow
  <1>2. v \in Values /\ w \in Values
    BY DEF Matchable
  <1>3. label \in Values
    <2>1. CoalesceLabel(a, b, LabelColumnOf(fields[1])) \in Values
      BY CoalescedLabel
    <2>2. Null \in Values
      BY DEF Values
    <2> QED
      BY <2>1, <2>2
  <1>4. Delta(v, w) \in Values /\ DeltaPercent(v, w) \in Values
    BY <1>2, ComparedValues
  <1>5. KeyText(sideA, a, fields) \in Values
    BY DEF Matchable
  <1> HIDE DEF v, w, label
  <1>6. \A c \in ComparisonFields : shown[c] \in Values
    BY <1>2, <1>3, <1>4, <1>5 DEF ComparisonFields
  <1> HIDE DEF shown
  <1>7. ASSUME NEW i \in 1..Len(fields) PROVE At(KeyColumn(i)) = TextOf(sideA, a, fields[i])
    <2>1. /\ KeyColumn(i) \notin ComparisonFields
          /\ \A j \in 1..Len(fields) : KeyColumn(j) = KeyColumn(i) => j = i
      BY DEF Matchable
    <2>2. Place(KeyColumn(i)) = i
      BY <2>1
    <2> HIDE DEF Place
    <2> QED
      BY <2>1, <2>2
  <1>8. \A i \in 1..Len(fields) : TextOf(sideA, a, fields[i]) \in Values
    <2>1. \A i \in 1..Len(fields) : fields[i] \in ToSet(fields)
      BY DEF Matchable
    <2> QED
      BY <2>1 DEF Matchable
  <1>9. \A c \in ComparisonFields : At(c) = shown[c]
    OBVIOUS
  <1> HIDE DEF At
  <1> QED
    BY <1>1, <1>6, <1>7, <1>8, <1>9 DEF RowColumns, ShowsKeys

(* The key of a row is the text of a fact's key.                            *)
LEMMA KeyTextsAre ==
  ASSUME NEW q \in Requests, q.kind = "compareFacts", Accepted(q),
         NEW r \in SideRows(Side(MeasureRequest(q), q.data))
  PROVE  KeyText(Side(MeasureRequest(q), q.data), r, GroupFields(q)) \in Values
  <1> DEFINE x == MeasureRequest(q)
             a == SideRequest(x)
             A == q.data
             m == A.metadata
             params == AggregateParams(a, m)
             sideA == Side(x, A)
             G == ResolvedGroups(a, m)
             fields == GroupFields(q)
             n == Len(q.groupBy)
  <1>1. /\ Resolvable(a, A) /\ ~UnknownColumns(q, m) /\ a.groupBy = q.groupBy
        /\ q.groupBy # <<>> /\ IsKeyed(q)
    BY KeyedComparisonResolves
  <1>2. /\ Groupable(params, A.rows) /\ params.groups = G
    BY <1>1, ResolvableIsGroupable
  <1>3. /\ SideRows(sideA) = AggregateSelect(params, A.rows)
        /\ \A f : TextOf(sideA, r, f) = AsText(r[f], m[f].type)
    BY DEF Side, SideRows, TextOf
  <1> HIDE DEF params, sideA, G, m, x, a
  <1>4. /\ G \in Seq(ToSet(G)) /\ Len(G) = n /\ n \in Nat
        /\ \A i \in 1..n : /\ q.groupBy[i] \in ToSet(q.groupBy)
                           /\ G[i].field = q.groupBy[i].field /\ G[i].grain = q.groupBy[i].grain
    BY <1>1, ResolvedGroupsAre DEF G, m
  <1>5. G # <<>>
    <2>1. n # 0
      <3>1. q.groupBy \in Seq(ToSet(q.groupBy))
        BY <1>1 DEF Resolvable
      <3> QED
        BY <1>1, <3>1
    <2> QED
      BY <1>4, <2>1
  <1>6. PICK t \in A.rows : \A g \in ToSet(G) : r[g.field] = GroupValue(g, t)
    <2> DEFINE H == params.groups
    <2>1. H # <<>> => \A y \in AggregateSelect(params, A.rows) : \E t \in A.rows :
                        \A g \in ToSet(H) : y[g.field] = GroupValue(g, t)
      BY <1>2, GroupedRows
    <2>2. H = G
      BY <1>2
    <2>3. r \in AggregateSelect(params, A.rows)
      BY <1>3 DEF sideA, x
    <2> HIDE DEF H
    <2> QED
      BY <1>5, <2>1, <2>2, <2>3
  <1>7. \A i \in 1..n : r[q.groupBy[i].field] = t[q.groupBy[i].field]
    <2> TAKE i \in 1..n
    <2>1. G[i] \in ToSet(G) /\ G[i].grain = Null
      BY <1>1, <1>4 DEF IsKeyed
    <2>2. GroupValue(G[i], t) = t[G[i].field]
      BY <2>1, NameAssumption DEF GroupValue
    <2> QED
      BY <1>4, <1>6, <2>1, <2>2
  <1>8. JoinedText(Map(q.groupBy, LAMBDA g : AsText(t[g.field], m[g.field].type))) \in Int
    BY <1>1 DEF IsKeyed, m
  <1>9. Map(fields, LAMBDA f : TextOf(sideA, r, f))
        = Map(q.groupBy, LAMBDA g : AsText(t[g.field], m[g.field].type))
    <2>1. fields = [i \in 1..n |-> q.groupBy[i].field]
      BY DEF GroupFields, Map
    <2>2. Len(fields) = n /\ \A i \in 1..n : fields[i] = q.groupBy[i].field
      BY <1>4, <2>1
    <2>3. Map(fields, LAMBDA f : TextOf(sideA, r, f)) = [i \in 1..Len(fields) |-> TextOf(sideA, r, fields[i])]
      BY DEF Map
    <2>4. Map(q.groupBy, LAMBDA g : AsText(t[g.field], m[g.field].type))
          = [i \in 1..n |-> AsText(t[q.groupBy[i].field], m[q.groupBy[i].field].type)]
      BY DEF Map
    <2>5. \A i \in 1..n : TextOf(sideA, r, fields[i]) = AsText(t[q.groupBy[i].field], m[q.groupBy[i].field].type)
      BY <1>3, <1>7, <2>2
    <2> HIDE DEF fields, n
    <2> QED
      BY <2>2, <2>3, <2>4, <2>5
  <1> QED
    BY <1>8, <1>9 DEF KeyText, Values, sideA, x

LEMMA KeyedComparisonIsOrdered ==
  ASSUME NEW q \in Requests, q.kind = "compareFacts", Accepted(q)
  PROVE  Ordered(Whole(q), q.sort)
  <1> DEFINE A == q.data
             B == q.other
             x == MeasureRequest(q)
             a == SideRequest(x)
             sideA == Side(x, A)
             sideB == Side(x, B)
             fields == GroupFields(q)
             n == Len(fields)
             keys == [i \in 1..n |-> KeyColumn(i)]
             pairs == Joined(sideA, sideB, fields, FALSE)
             h == [p \in pairs |-> ComparisonRow(sideA, p[1], p[2], fields)]
             R == {h[p] : p \in pairs}
             C == ComparisonFields \cup {KeyColumn(i) : i \in 1..n}
  <1>1. /\ \A d \in {A, B} : /\ Resolvable(a, d) /\ TextsTell(q.groupBy, d)
                             /\ \E y \in ToSet(ResolvedAggregates(a, d.metadata)) : y.alias = MeasureAlias
        /\ a.groupBy = q.groupBy /\ x.groupBy = q.groupBy
        /\ IsSort(q.sort) /\ IsKeyed(q)
        /\ \A s \in ToSet(q.sort) : s.field \in ComparisonFields
    BY KeyedComparisonResolves
  <1>2. /\ Whole(q).rows = R /\ Whole(q).sort = q.sort \o Asc(keys)
        /\ Whole(q).total = Cardinality(pairs)
    <2>1. Whole(q) = CompareFacts(q, A, B)
      BY DEF Whole, Result
    <2>2. CompareFacts(q, A, B) = [rows |-> {ComparisonRow(sideA, p[1], p[2], fields) : p \in pairs},
                                   sort |-> q.sort \o Asc(keys), total |-> Cardinality(pairs)]
      BY DEF CompareFacts
    <2>3. R = {ComparisonRow(sideA, p[1], p[2], fields) : p \in pairs}
      OBVIOUS
    <2> HIDE DEF R, pairs, keys
    <2> QED
      BY <2>1, <2>2, <2>3
  <1>3. GroupFields(x) = fields /\ GroupFields(a) = fields
    BY <1>1 DEF GroupFields
  <1>4. sideA.params = AggregateParams(a, A.metadata) /\ sideB.params = AggregateParams(a, B.metadata)
    BY DEF Side
  <1>5. SideTells(sideA, fields) /\ SideTells(sideB, fields)
    <2>1. ASSUME NEW d \in {A, B} PROVE SideTells(Side(x, d), GroupFields(x))
      BY <1>1, SideIsTold
    <2> QED
      BY <1>3, <2>1
  <1>6. MeasureAlias \in ColumnsOf(sideA.params) /\ MeasureAlias \in ColumnsOf(sideB.params)
    <2>1. ASSUME NEW d \in {A, B} PROVE MeasureAlias \in ColumnsOf(AggregateParams(a, d.metadata))
      <3> DEFINE params == AggregateParams(a, d.metadata)
      <3>1. Groupable(params, d.rows) /\ params.aggregates = ResolvedAggregates(a, d.metadata)
        BY <1>1, ResolvableIsGroupable
      <3>2. PICK y \in ToSet(ResolvedAggregates(a, d.metadata)) : y.alias = MeasureAlias
        BY <1>1
      <3> HIDE DEF params
      <3>3. \A z \in ToSet(params.aggregates) : z.alias \in ColumnsOf(params)
        BY <3>1, OutputColumnsAre
      <3> QED
        BY <3>1, <3>2, <3>3 DEF params
    <2> QED
      BY <1>4, <2>1
  <1>7. /\ fields \in Seq(ToSet(fields)) /\ n = Len(q.groupBy) /\ n \in Nat
    BY <1>1, <1>3, GroupFieldsAre
  <1>8. \A r \in SideRows(sideA) : KeyText(sideA, r, fields) \in Values
    BY KeyTextsAre
  <1> HIDE DEF A, B, x, a, sideA, sideB, fields
  <1>9. /\ \A i, j \in 1..n : KeyColumn(i) = KeyColumn(j) => i = j
        /\ \A i \in 1..n : KeyColumn(i) \notin ComparisonFields
    BY <1>1, <1>7 DEF IsKeyed
  <1>10. PairsTell(pairs, sideA, sideB, fields)
    BY <1>5, JoinedPairs, Zenon
  <1> HIDE DEF n
  <1>11. ASSUME NEW p \in pairs
         PROVE  /\ \A c \in C : h[p][c] \in Values
                /\ \A i \in 1..n : h[p][KeyColumn(i)] = TextOf(sideA, p[1], fields[i])
    <2> DEFINE S == ColumnsOf(sideA.params)
               T == ColumnsOf(sideB.params)
    <2>1. p[1] \in SideRows(sideA) /\ p[2] \in SideRows(sideB)
      BY DEF Joined
    <2>2. PICK u \in [S -> Values], v \in [T -> Values] : u = p[1] /\ v = p[2]
      BY <1>5, <2>1 DEF SideTells
    <2>3. h[p] = ComparisonRow(sideA, u, v, fields)
      BY <2>2
    <2> HIDE DEF h, pairs
    <2>4. Matchable(S, T, sideA, u, fields)
      <3>1. KeyText(sideA, u, fields) \in Values
        BY <1>8, <2>1, <2>2
      <3>2. \A f \in ToSet(fields) : TextOf(sideA, u, f) \in Values
        BY <1>5, <2>1, <2>2 DEF SideTells
      <3> QED
        BY <1>6, <1>7, <1>9, <3>1, <3>2 DEF Matchable, n
    <2> HIDE DEF S, T
    <2>5. ShowsKeys(ComparisonRow(sideA, u, v, fields), sideA, u, fields)
      BY <2>4, ComparisonRowType
    <2> QED
      BY <2>2, <2>3, <2>5 DEF n, RowColumns, ShowsKeys
  <1>12. /\ IsFiniteSet(pairs) /\ pairs \subseteq SideRows(sideA) \X SideRows(sideB)
         /\ \A p, r \in pairs : (\A f \in ToSet(fields) : p[1][f] = r[1][f]) => p = r
    <2> HIDE DEF pairs
    <2> QED
      BY <1>10 DEF PairsTell
  <1> HIDE DEF h, pairs
  <1>13. ASSUME NEW p \in pairs, NEW r \in pairs, \A i \in 1..n : h[p][KeyColumn(i)] = h[r][KeyColumn(i)]
         PROVE  p = r
    <2>1. p[1] \in SideRows(sideA) /\ r[1] \in SideRows(sideA)
      BY <1>12
    <2>2. \A i \in 1..n : TextOf(sideA, p[1], fields[i]) = TextOf(sideA, r[1], fields[i])
      BY <1>11, <1>13
    <2>3. ASSUME NEW f \in ToSet(fields) PROVE p[1][f] = r[1][f]
      <3>1. PICK i \in 1..n : fields[i] = f
        BY <1>7 DEF ToSet, n
      <3>2. TextOf(sideA, p[1], f) = TextOf(sideA, r[1], f)
        BY <2>2, <3>1
      <3> QED
        BY <1>5, <2>1, <3>2 DEF SideTells
    <2> QED
      BY <1>12, <2>3
  <1>14. /\ keys \in Seq(ToSet(keys)) /\ Len(keys) = n
         /\ \A i \in 1..n : keys[i] = KeyColumn(i) /\ keys[i] \in ToSet(keys)
         /\ \A c \in ToSet(keys) : \E i \in 1..n : c = KeyColumn(i)
    <2>1. keys = [i \in 1..n |-> keys[i]] /\ DOMAIN keys = 1..n /\ \A i \in 1..n : keys[i] = KeyColumn(i)
      OBVIOUS
    <2> HIDE DEF keys
    <2>2. n \in Nat
      BY <1>7
    <2>3. Len(keys) = n /\ keys \in Seq(ToSet(keys)) /\ \A i \in 1..n : keys[i] \in ToSet(keys)
      BY <2>1, <2>2, MapIsList
    <2> QED
      BY <2>1, <2>3 DEF ToSet
  <1> HIDE DEF keys
  <1>15. IsFiniteSet(R) /\ Cardinality(R) = Cardinality(pairs)
    <2>1. \A p, r \in pairs : h[p] = h[r] => p = r
      BY <1>13
    <2> QED
      BY <1>12, <2>1, RowsOfPairs
  <1>16. \A y \in R : \A c \in C : y[c] \in Values
    BY <1>11
  <1>17. ASSUME NEW y \in R, NEW z \in R, \A c \in ToSet(keys) : y[c] = z[c] PROVE y = z
    <2>1. PICK p \in pairs : y = h[p]
      OBVIOUS
    <2>2. PICK r \in pairs : z = h[r]
      OBVIOUS
    <2>3. \A i \in 1..n : h[p][KeyColumn(i)] = h[r][KeyColumn(i)]
      BY <1>14, <1>17, <2>1, <2>2
    <2> QED
      BY <1>13, <2>1, <2>2, <2>3
  <1>18. Fields(q.sort) \subseteq ComparisonFields
    BY <1>1, SortFieldsAreRead
  <1>19. Fields(q.sort) \cup ToSet(keys) \subseteq C
    BY <1>14, <1>18
  <1> HIDE DEF R, C
  <1>20. Readable(R, q.sort, keys)
    BY <1>1, <1>14, <1>15, <1>16, <1>17, <1>19 DEF Readable
  <1>21. /\ Tells(q.sort \o Asc(keys), R)
         /\ \A r, s : Before(r, s, q.sort) => Before(r, s, q.sort \o Asc(keys))
    BY <1>20, KeyedSortTells
  <1> QED
    BY <1>2, <1>15, <1>21 DEF Ordered

LEMMA AnswerIsOrdered ==
  ASSUME NEW q \in Requests, Concerned(q), Accepted(q)
  PROVE  Ordered(Whole(q), q.sort)
  BY FactsAreOrdered, AggregatesAreOrdered, AggregatedComparisonIsOrdered, KeyedComparisonIsOrdered
     DEF Concerned, Paged

-----------------------------------------------------------------------------
(* The invariant                                                            *)

Resolved ==
  /\ request \in Requests
  /\ offset \in Nat
  /\ pc \in {"loaded", "resolved", "paged", "done"} => columns = AllMetadata(request)
  /\ pc \in {"resolved", "paged", "done"} => where = FilterOf(request, columns)

(* An answer, and so a page that is not the first one, was given to what is *)
(* accepted.                                                                *)
Examined ==
  /\ request.kind \in Paged /\ pc \in {"checked", "loaded", "resolved", "paged", "done"} => Admitted(request)
  /\ pc \in {"resolved", "paged", "done"} => ~ArgumentsRefused(request, AllMetadata(request))
  /\ pc = "paged" \/ offset > 0 => request.kind \in Paged /\ Accepted(request)

(* What was received are the first rows of the whole.                       *)
Progress ==
  /\ pc \in {"received", "checked", "loaded", "resolved"} =>
       /\ offset = 0 => received = <<>>
       /\ offset > 0 => offset < Len(AllRows(request)) /\ received = FirstRows(request, offset)
  /\ pc = "paged" =>
       /\ offset + request.limit < Len(AllRows(request))
       /\ received = FirstRows(request, offset + request.limit)
  /\ pc = "done" => received = FirstRows(request, Len(AllRows(request)))

QueryInv == Resolved /\ Examined /\ (Concerned(request) => Progress)

LEMMA QueryStarts ==
  ASSUME Init PROVE QueryInv
  BY DEF Init, QueryInv, Resolved, Examined, Progress

(* What the first n rows are made of.                                       *)
LEMMA AllRowsProperties ==
  ASSUME NEW q \in Requests, Concerned(q), Accepted(q)
  PROVE  /\ AllRows(q) \in Seq(Whole(q).rows) /\ Len(AllRows(q)) = Whole(q).total
         /\ Whole(q).total \in Nat /\ q.limit \in Nat \ {0}
         /\ \A s \in Orderings(Whole(q).rows, Whole(q).sort) : s = AllRows(q)
  <1>1. Ordered(Whole(q), q.sort)
    BY AnswerIsOrdered
  <1>2. q.limit \in Nat \ {0}
    BY QueryAssumption DEF Accepted, Admitted
  <1> QED
    BY <1>1, <1>2, SortedProperties, OrderingIsSorted DEF Ordered, AllRows

LEMMA CheckKeeps ==
  ASSUME QueryInv, Check
  PROVE  QueryInv'
  <1>1. ~RefusedAtOnce /\ request.kind \in Paged => Admitted(request)
    BY DEF RefusedAtOnce, PageRefused, Admitted, Bounded
  <1> QED
    BY <1>1 DEF Check, QueryInv, Resolved, Examined, Progress, Concerned

LEMMA LoadKeeps ==
  ASSUME QueryInv, LoadColumns \/ LoadFails
  PROVE  QueryInv'
  BY DEF LoadColumns, LoadFails, QueryInv, Resolved, Examined, Progress

LEMMA ResolveKeeps ==
  ASSUME QueryInv, Resolve
  PROVE  QueryInv'
  <1>1. columns = AllMetadata(request)
    BY DEF Resolve, QueryInv, Resolved
  <1> QED
    BY <1>1 DEF Resolve, QueryInv, Resolved, Examined, Progress

(* The page continues what was received, and there is a next one exactly    *)
(* while rows are left.                                                     *)
LEMMA PageKeeps ==
  ASSUME QueryInv, Page
  PROVE  QueryInv'
  <1>1. Resolved' /\ request' = request /\ offset' = offset /\ request \in Requests /\ offset \in Nat
    BY DEF Page, QueryInv, Resolved
  <1>2. Accepted(request)
    BY DEF Page, QueryInv, Examined, Accepted
  <1>3. Examined'
    BY <1>2 DEF Page, QueryInv, Examined
  <1>4. ASSUME Concerned(request) PROVE Progress'
    <2> DEFINE all == AllRows(request)
               end == IF offset + request.limit < Len(all) THEN offset + request.limit ELSE Len(all)
               T == Whole(request).rows
    <2>1. /\ pc = "resolved" /\ columns = AllMetadata(request) /\ where = FilterOf(request, columns)
      BY DEF Page, QueryInv, Resolved
    <2>2. Result(request, columns, where) = Whole(request)
      BY <2>1 DEF Whole
    <2>3. /\ all \in Seq(T) /\ Len(all) = Whole(request).total
          /\ Len(all) \in Nat /\ request.limit \in Nat \ {0}
          /\ \A s \in Orderings(T, Whole(request).sort) : s = all
      BY <1>1, <1>2, <1>4, AllRowsProperties
    <2>4. /\ received' = received \o Shaped(request, columns, PageOf(all, request.limit, offset))
          /\ pc' = IF offset + request.limit < Len(all) THEN "paged" ELSE "done"
      BY <2>2, <2>3 DEF Page
    <2>5. offset \in 0..Len(all)
      BY <1>1, <1>4, <2>1, <2>3 DEF QueryInv, Progress
    <2>6. received = FirstRows(request, offset)
      <3>1. CASE offset > 0
        BY <1>4, <2>1, <3>1 DEF QueryInv, Progress
      <3>2. CASE offset = 0
        <4>1. SubSeq(all, 1, 0) = <<>>
          BY SubSeqEmpty
        <4>2. received = <<>>
          BY <1>4, <2>1, <3>2 DEF QueryInv, Progress
        <4> QED
          BY <3>2, <4>1, <4>2, ShapedEmpty DEF FirstRows
      <3> QED
        BY <1>1, <3>1, <3>2
    <2>7. /\ SubSeq(all, 1, offset) \o PageOf(all, request.limit, offset) = SubSeq(all, 1, end)
          /\ SubSeq(all, 1, offset) \in Seq(T) /\ PageOf(all, request.limit, offset) \in Seq(T)
      <3> HIDE DEF all, T
      <3> QED
        BY <2>3, <2>5, NextPageContinues
    <2>8. received' = FirstRows(request, end)
      <3> HIDE DEF all, T, end
      <3>1. request.kind \in Paged
        BY <1>4 DEF Concerned
      <3>2. PICK first, page : /\ first = SubSeq(all, 1, offset) /\ page = PageOf(all, request.limit, offset)
                               /\ first \in Seq(T) /\ page \in Seq(T)
        BY <2>7
      <3>3. Shaped(request, columns, first) \o Shaped(request, columns, page)
            = Shaped(request, columns, first \o page)
        <4>1. request \in Requests /\ request.kind \in Paged /\ first \in Seq(T) /\ page \in Seq(T)
          BY <1>1, <3>1, <3>2
        <4> QED
          BY <4>1, ShapedContinues
      <3>4. received = Shaped(request, columns, first)
        BY <2>1, <2>6, <3>2 DEF FirstRows, all
      <3>5. received' = Shaped(request, columns, SubSeq(all, 1, end))
        BY <2>4, <2>7, <3>2, <3>3, <3>4
      <3> QED
        BY <2>1, <3>5 DEF FirstRows, all
    <2> QED
      BY <1>1, <2>3, <2>4, <2>8 DEF Progress
  <1> QED
    BY <1>1, <1>3, <1>4 DEF QueryInv

LEMMA NextPageKeeps ==
  ASSUME QueryInv, NextPage
  PROVE  QueryInv'
  <1>1. /\ request' = request /\ pc = "paged" /\ pc' = "received" /\ request \in Requests
        /\ request.kind \in Paged /\ Accepted(request)
        /\ offset' = offset + request.limit /\ offset \in Nat /\ received' = received
    BY DEF NextPage, QueryInv, Resolved, Examined
  <1>2. request.limit \in Nat \ {0}
    BY <1>1, QueryAssumption DEF Accepted, Admitted
  <1>3. Resolved' /\ Examined'
    BY <1>1, <1>2 DEF Resolved, Examined
  <1>4. Concerned(request) => Progress'
    BY <1>1, <1>2 DEF QueryInv, Progress
  <1> QED
    BY <1>1, <1>3, <1>4 DEF QueryInv

(* The answers that are not paged.                                          *)
LEMMA AnswerKeeps ==
  ASSUME QueryInv, Answer \/ AnswerCommon
  PROVE  QueryInv'
  BY DEF Answer, AnswerCommon, QueryInv, Resolved, Examined, Concerned, Paged

LEMMA QueryIsInductive ==
  ASSUME QueryInv, [Next]_vars
  PROVE  QueryInv'
  <1>1. CASE UNCHANGED vars
    BY <1>1 DEF vars, QueryInv, Resolved, Examined, Progress
  <1>2. CASE Next
    BY <1>2, CheckKeeps, LoadKeeps, ResolveKeeps, PageKeeps, NextPageKeeps, AnswerKeeps DEF Next
  <1> QED
    BY <1>1, <1>2

-----------------------------------------------------------------------------
(* The pages are the result                                                 *)

(* The groups of the LONG format are told apart by their fields, which no   *)
(* column of the format hides, and no two aggregates share a name.          *)
LongAnswer(rows, fields, aliases) ==
  /\ Len(aliases) \in Nat
  /\ \A r \in rows : fields \subseteq DOMAIN r
  /\ fields \cap ({"measure", "value"} \cup ToSet(aliases)) = {}
  /\ \A r, s \in rows : (\A f \in fields : r[f] = s[f]) => r = s
  /\ \A i, j \in 1..Len(aliases) : aliases[i] = aliases[j] => i = j

LEMMA AnswerIsLong ==
  ASSUME NEW q \in Requests, Accepted(q), Long(q)
  PROVE  LongAnswer(Whole(q).rows, ToSet(GroupFields(q)), Aliases(ResolvedAggregates(q, AllMetadata(q)[1])))
  <1> DEFINE d == q.data
             m == d.metadata
             K == Kept(q, FilterOf(q, AllMetadata(q)))
             params == AggregateParams(q, m)
             R == AggregateSelect(params, K)
             fields == GroupFields(q)
             G == ResolvedGroups(q, m)
             A == ResolvedAggregates(q, m)
             F == Map(G, LAMBDA g : g.field)
             N == Aliases(A)
  <1>1. /\ Resolvable(q, d) /\ ~AggregateRefused(q, m) /\ Groupable(params, K) /\ q.kind = "aggregates"
    BY AggregateOf DEF Long
  <1>2. params.groups = G /\ params.aggregates = A /\ params.rowCount = q.rowCount
    BY DEF AggregateParams
  <1>3. Whole(q).rows = R /\ AllMetadata(q)[1] = m
    BY <1>1, MetadataIs DEF Whole, Result
  <1>4. /\ ~Duplicates(OutputColumns(G, A, q.rowCount))
        /\ ~ReservedTaken(G, A, q.rowCount)
    BY <1>1 DEF AggregateRefused, Long
  <1>5. /\ G \in Seq(ToSet(G)) /\ A \in Seq(ToSet(A))
    BY <1>1, ResolvedGroupsAre, ResolvedAggregatesAre
  <1> HIDE DEF params, K, R, fields, m, d, G, A
  <1>6. Len(N) \in Nat
    BY <1>5, ColumnPartsAre
  <1>7. ~Duplicates(N) /\ ToSet(F) \cap ToSet(N) = {}
    <2> DEFINE H == params.groups
               B == params.aggregates
    <2>1. ~Duplicates(Aliases(B)) /\ ToSet(Map(H, LAMBDA g : g.field)) \cap ToSet(Aliases(B)) = {}
      BY <1>2, <1>4, <1>5, OutputNamesAreApart
    <2>2. H = G /\ B = A
      BY <1>2
    <2> HIDE DEF H, B
    <2> QED
      BY <2>1, <2>2
  <1> HIDE DEF F, N
  <1>8. /\ \A g \in ToSet(G) : g.field \in ToSet(fields)
        /\ \A f \in ToSet(fields) : \E g \in ToSet(G) : g.field = f
    BY <1>1, GroupFieldsAre DEF fields, G, m
  <1>9. /\ \A g \in ToSet(G) : g.field \in ColumnsOf(params) /\ g.field \in ToSet(F)
    BY <1>1, <1>2, OutputColumnsAre DEF F
  <1>10. ToSet(fields) \cap ToSet(N) = {} /\ ToSet(fields) \subseteq ColumnsOf(params)
    BY <1>7, <1>8, <1>9
  <1>11. /\ R \subseteq [ColumnsOf(params) -> Values]
         /\ \A x, y \in R : (\A g \in ToSet(G) : x[g.field] = y[g.field]) => x = y
    BY <1>1, <1>2, GroupedRows DEF R
  <1>12. ColumnsOf(params) = ToSet(OutputColumns(G, A, q.rowCount))
    BY <1>2 DEF ColumnsOf
  <1>13. {"measure", "value"} \cap ToSet(fields) = {}
    BY <1>4, <1>10, <1>12 DEF ReservedTaken, N
  <1>14. \A i, j \in 1..Len(N) : N[i] = N[j] => i = j
    BY <1>6, <1>7 DEF Duplicates
  <1>15. \A x, y \in R : (\A f \in ToSet(fields) : x[f] = y[f]) => x = y
    BY <1>8, <1>11
  <1>16. LongAnswer(R, ToSet(fields), N)
    BY <1>6, <1>10, <1>11, <1>13, <1>14, <1>15 DEF LongAnswer
  <1> QED
    BY <1>3, <1>16 DEF fields, N, A

(* One aggregate of one group, and where it stands among the rows.          *)
Cell(row, fields, alias) ==
  [group |-> [f \in fields |-> row[f]], measure |-> alias, value |-> row[alias]]
Cells(rows, fields, aliases) == {Cell(r, fields, a) : r \in rows, a \in ToSet(aliases)}
RowAt(s, w, k) == s[(k - 1) \div w + 1]
AliasAt(aliases, w, k) == aliases[((k - 1) % w) + 1]

(* A sequence that lists every row, and no row twice.                       *)
Lists(s, rows) ==
  /\ s \in Seq(rows)
  /\ \A r \in rows : \E i \in 1..Len(s) : s[i] = r
  /\ \A i, j \in 1..Len(s) : i # j => s[i] # s[j]

CellsOf(s, fields, aliases) ==
  [k \in 1..Len(s) * Len(aliases) |->
    Cell(RowAt(s, Len(aliases), k), fields, AliasAt(aliases, Len(aliases), k))]

(* meltRows() makes every cell of every row, once.                          *)
LEMMA CellsAreMelted ==
  ASSUME NEW rows, NEW fields, NEW aliases, NEW s, LongAnswer(rows, fields, aliases), Lists(s, rows)
  PROVE  /\ Len(s) * Len(aliases) \in Nat
         /\ CellsOf(s, fields, aliases) \in Bijection(1..Len(s) * Len(aliases), Cells(rows, fields, aliases))
         /\ Len(MeltRows(s, aliases)) = Len(s) * Len(aliases)
         /\ \A k \in 1..Len(s) * Len(aliases) :
              CellsOf(s, fields, aliases)[k] =
                [group |-> [c \in fields |-> MeltRows(s, aliases)[k][c]],
                 measure |-> MeltRows(s, aliases)[k]["measure"], value |-> MeltRows(s, aliases)[k]["value"]]
  <1> DEFINE w == Len(aliases)
             n == Len(s)
             At(k) == Cell(RowAt(s, w, k), fields, AliasAt(aliases, w, k))
             f == [k \in 1..n * w |-> At(k)]
  <1>1. n \in Nat /\ w \in Nat /\ n * w \in Nat
    BY DEF LongAnswer, Lists
  <1>2. Len(MeltRows(s, aliases)) = n * w
    BY <1>1 DEF MeltRows
  <1>3. \A k \in 1..n * w : MeltRows(s, aliases)[k] = MeltRow(RowAt(s, w, k), aliases, AliasAt(aliases, w, k))
    BY DEF MeltRows, RowAt, AliasAt
  <1> HIDE DEF w, n
  <1>4. ASSUME NEW k \in 1..n * w
        PROVE  /\ w \in Nat \ {0} /\ (k - 1) \div w \in 0..n - 1 /\ (k - 1) % w \in 0..w - 1
               /\ k - 1 = ((k - 1) \div w) * w + ((k - 1) % w)
               /\ RowAt(s, w, k) \in rows /\ AliasAt(aliases, w, k) \in ToSet(aliases)
    <2>1. w \in Nat \ {0} /\ k - 1 \in 0..n * w - 1 /\ k - 1 \in Nat
      BY <1>1
    <2>2. /\ (k - 1) \div w \in 0..n - 1 /\ (k - 1) % w \in 0..w - 1
          /\ k - 1 = ((k - 1) \div w) * w + ((k - 1) % w)
      <3>1. /\ (k - 1) \div w \in Nat /\ (k - 1) % w \in 0..w - 1
            /\ k - 1 = ((k - 1) \div w) * w + ((k - 1) % w)
        BY <2>1, DivisionExists
      <3>2. (k - 1) \div w < n
        BY <1>1, <2>1, DivisionBounded
      <3> QED
        BY <1>1, <3>1, <3>2
    <2>3. RowAt(s, w, k) \in rows
      BY <1>1, <2>2 DEF RowAt, n, Lists
    <2>4. ((k - 1) % w) + 1 \in 1..w
      BY <1>1, <2>2
    <2>5. AliasAt(aliases, w, k) \in ToSet(aliases)
      BY <2>4 DEF AliasAt, ToSet, w, LongAnswer
    <2> QED
      BY <2>1, <2>2, <2>3, <2>5
  <1>5. \A k \in 1..n * w : At(k) \in Cells(rows, fields, aliases)
    BY <1>4 DEF Cells
  <1>6. ASSUME NEW k \in 1..n * w, NEW l \in 1..n * w, At(k) = At(l) PROVE k = l
    <2>1. /\ AliasAt(aliases, w, k) = AliasAt(aliases, w, l)
          /\ \A c \in fields : RowAt(s, w, k)[c] = RowAt(s, w, l)[c]
      BY <1>6 DEF Cell
    <2>2. RowAt(s, w, k) = RowAt(s, w, l)
      BY <1>4, <2>1 DEF LongAnswer
    <2> DEFINE i == (k - 1) \div w
               j == (l - 1) \div w
               a == (k - 1) % w
               b == (l - 1) % w
    <2>3. /\ i \in 0..n - 1 /\ a \in 0..w - 1 /\ k - 1 = i * w + a
          /\ j \in 0..n - 1 /\ b \in 0..w - 1 /\ l - 1 = j * w + b
      BY <1>4
    <2>4. s[i + 1] = s[j + 1] /\ aliases[a + 1] = aliases[b + 1]
      BY <2>1, <2>2 DEF RowAt, AliasAt
    <2> HIDE DEF i, j, a, b
    <2>5. i = j
      BY <1>1, <2>3, <2>4 DEF n, Lists
    <2>6. a = b
      BY <1>1, <2>3, <2>4 DEF LongAnswer, w
    <2> QED
      BY <1>1, <2>3, <2>5, <2>6
  <1>7. ASSUME NEW c \in Cells(rows, fields, aliases)
        PROVE  \E k \in 1..n * w : At(k) = c
    <2>1. PICK r \in rows, a \in ToSet(aliases) : c = Cell(r, fields, a)
      BY <1>7 DEF Cells
    <2>2. PICK i \in 1..n : s[i] = r
      BY DEF n, Lists
    <2>3. PICK j \in 1..w : aliases[j] = a
      BY <2>1 DEF ToSet, w, LongAnswer
    <2> DEFINE k == (i - 1) * w + (j - 1)
    <2>4. w \in Nat \ {0} /\ i - 1 \in 0..n - 1 /\ j - 1 \in 0..w - 1
      BY <1>1
    <2>5. k \in 0..n * w - 1 /\ k \in Nat
      BY <1>1, <2>4, DivisionBelow
    <2>6. k \div w = i - 1 /\ k % w = j - 1
      BY <2>4, <2>5, DivisionIsUnique
    <2> HIDE DEF k
    <2>7. k + 1 \in 1..n * w /\ (k + 1) - 1 = k
      BY <1>1, <2>5
    <2>8. RowAt(s, w, k + 1) = r /\ AliasAt(aliases, w, k + 1) = a
      BY <2>2, <2>3, <2>6, <2>7 DEF RowAt, AliasAt
    <2> QED
      BY <2>1, <2>7, <2>8
  <1>8. f \in Bijection(1..n * w, Cells(rows, fields, aliases))
    <2> HIDE DEF At
    <2>1. f \in [1..n * w -> Cells(rows, fields, aliases)]
      BY <1>5
    <2>2. f \in Injection(1..n * w, Cells(rows, fields, aliases))
      BY <1>6, <2>1 DEF Injection, IsInjective
    <2>3. f \in Surjection(1..n * w, Cells(rows, fields, aliases))
      BY <1>7, <2>1 DEF Surjection
    <2> QED
      BY <2>2, <2>3 DEF Bijection
  <1>9. ASSUME NEW k \in 1..n * w
        PROVE  LET row == MeltRows(s, aliases)[k]
               IN  At(k) = [group |-> [c \in fields |-> row[c]],
                            measure |-> row["measure"], value |-> row["value"]]
    <2> DEFINE row == MeltRow(RowAt(s, w, k), aliases, AliasAt(aliases, w, k))
               r == RowAt(s, w, k)
    <2>1. r \in rows
      BY <1>4
    <2>2. row["measure"] = AliasAt(aliases, w, k) /\ row["value"] = r[AliasAt(aliases, w, k)]
      BY DEF MeltRow
    <2>3. \A c \in fields : row[c] = r[c]
      BY <2>1 DEF MeltRow, LongAnswer
    <2> HIDE DEF row, r
    <2>4. At(k) = [group |-> [c \in fields |-> r[c]], measure |-> AliasAt(aliases, w, k),
                   value |-> r[AliasAt(aliases, w, k)]]
      BY DEF Cell, r
    <2>5. [c \in fields |-> r[c]] = [c \in fields |-> row[c]]
      BY <2>3
    <2> QED
      BY <1>3, <2>2, <2>4, <2>5 DEF row
  <1>10. CellsOf(s, fields, aliases) = f
    BY DEF CellsOf, n, w
  <1> QED
    BY <1>1, <1>2, <1>8, <1>9, <1>10 DEF n, w

(* Sorted lists every row, and no row twice.                                *)
LEMMA SortedHasAll ==
  ASSUME NEW items, NEW rows, Tells(items, rows)
  PROVE  /\ \A r \in rows : \E i \in 1..Len(Sorted(rows, items)) : Sorted(rows, items)[i] = r
         /\ \A i, j \in 1..Len(Sorted(rows, items)) : i # j => Sorted(rows, items)[i] # Sorted(rows, items)[j]
  <1> DEFINE s == Sorted(rows, items)
             n == Cardinality(rows)
  <1>1. /\ n \in Nat /\ Len(s) = n /\ s \in Seq(rows)
        /\ \A i, j \in 1..n : i < j => Before(s[i], s[j], items)
    BY SortedProperties
  <1>2. IsFiniteSet(rows) /\ TotalOn(Pairs(rows, items), rows)
    BY TellsIsTotal DEF Tells
  <1>3. \A r \in rows : \E i \in 1..n : s[i] = r
    <2>1. s = Ranked(rows, Pairs(rows, items))
      BY DEF Sorted, Pairs
    <2> HIDE DEF s
    <2> QED
      BY <1>2, <2>1, RankedIsSorted
  <1> HIDE DEF s, n
  <1>4. \A i, j \in 1..n : i < j => s[i] # s[j]
    <2> TAKE i, j \in 1..n
    <2> HAVE i < j
    <2>1. Before(s[i], s[j], items) /\ s[i] \in rows /\ Reads(items, s[i])
      BY <1>1 DEF Tells
    <2> QED
      BY <2>1, BeforeIsIrreflexive
  <1>5. \A i, j \in 1..n : i # j => s[i] # s[j]
    BY <1>1, <1>4
  <1> QED
    BY <1>1, <1>3, <1>5 DEF s

LEMMA ReceivedIsWhole ==
  ASSUME QueryInv, pc = "done", Concerned(request)
  PROVE  EveryRowOnce
  <1> DEFINE q == request
             s == AllRows(q)
             rows == Whole(q).rows
             items == Whole(q).sort
  <1>1. /\ q \in Requests /\ columns = AllMetadata(q) /\ where = FilterOf(q, columns)
        /\ Accepted(q) /\ received = FirstRows(q, Len(s))
    BY DEF QueryInv, Resolved, Examined, Progress, Accepted, Concerned
  <1>2. Result(q, columns, where) = Whole(q)
    BY <1>1 DEF Whole
  <1>3. Ordered(Whole(q), q.sort)
    BY <1>1, AnswerIsOrdered
  <1>4. /\ s \in Seq(rows) /\ Len(s) = Cardinality(rows) /\ Len(s) \in Nat
        /\ \A i, j \in 1..Len(s) : i < j => Before(s[i], s[j], items)
        /\ \A r \in rows : \E i \in 1..Len(s) : s[i] = r
        /\ \A i, j \in 1..Len(s) : i # j => s[i] # s[j]
        /\ Tells(items, rows)
    BY <1>3, SortedProperties, SortedHasAll DEF Ordered, AllRows
  <1>5. received = Shaped(q, columns, s)
    <2>1. SubSeq(s, 1, Len(s)) = s
      <3> HIDE DEF s, rows
      <3> QED
        BY <1>4, SubSeqFull
    <2> QED
      BY <1>1, <2>1 DEF FirstRows
  <1> HIDE DEF s, rows, items
  <1>6. CASE ~Long(q)
    <2>1. received = s /\ ResultRows(q, columns, where) = rows
      BY <1>2, <1>5, <1>6 DEF Shaped, ResultRows, rows
    <2>2. {Identified(q, received[i]) : i \in 1..Len(received)} = rows
      BY <1>4, <1>6, <2>1 DEF Identified
    <2>3. ASSUME NEW i \in 1..Len(received) - 1
          PROVE  ~Before(received[i + 1], received[i], q.sort)
      <3>1. /\ s[i] \in rows /\ s[i + 1] \in rows /\ Before(s[i], s[i + 1], items)
        BY <1>4, <2>1
      <3>2. Before(s[i + 1], s[i], q.sort) => Before(s[i + 1], s[i], items)
        BY <1>3, <3>1 DEF Ordered, rows, items
      <3>3. /\ Reads(items, s[i]) /\ Reads(items, s[i + 1]) /\ Len(items) \in Nat
        BY <1>4, <3>1 DEF Tells
      <3>4. ~(Before(s[i], s[i + 1], items) /\ Before(s[i + 1], s[i], items))
        BY <3>3, BeforeIsTransitive, BeforeIsIrreflexive
      <3> QED
        BY <2>1, <3>1, <3>2, <3>4
    <2> QED
      BY <1>4, <2>1, <2>2, <2>3 DEF EveryRowOnce
  <1>7. CASE Long(q)
    <2> DEFINE fields == ToSet(GroupFields(q))
               aliases == Aliases(ResolvedAggregates(q, columns[1]))
               w == Len(aliases)
               m == MeltRows(s, aliases)
               f == CellsOf(s, fields, aliases)
               cells == Cells(rows, fields, aliases)
    <2>1. LongAnswer(rows, fields, aliases)
      BY <1>1, <1>7, AnswerIsLong DEF rows
    <2>2. received = m
      BY <1>5, <1>7 DEF Shaped
    <2>3. ResultRows(q, columns, where) = cells
      BY <1>2, <1>7 DEF ResultRows, Cells, Cell, rows
    <2> HIDE DEF fields, aliases
    <2>4. /\ Len(s) * w \in Nat /\ Len(m) = Len(s) * w
          /\ f \in Bijection(1..Len(s) * w, cells)
          /\ \A k \in 1..Len(s) * w :
               f[k] = [group |-> [c \in fields |-> m[k][c]], measure |-> m[k]["measure"], value |-> m[k]["value"]]
      <3>1. Lists(s, rows)
        BY <1>4 DEF Lists
      <3> QED
        BY <2>1, <3>1, CellsAreMelted
    <2> DEFINE N == Len(s) * w
    <2> HIDE DEF f, cells, m, w, N
    <2>5. Cardinality(cells) = N
      <3>1. IsFiniteSet(1..N) /\ Cardinality(1..N) = N
        BY <2>4, FS_Interval DEF N
      <3>2. ExistsBijection(1..N, cells)
        BY <2>4 DEF ExistsBijection, N
      <3> QED
        BY <3>1, <3>2, FS_Bijection
    <2>6. \A k \in 1..N : Identified(q, m[k]) = f[k]
      BY <1>7, <2>4 DEF Identified, N, fields
    <2>7. {f[k] : k \in 1..N} = cells
      BY <2>4 DEF Bijection, Surjection, N
    <2>8. {Identified(q, m[k]) : k \in 1..N} = cells
      BY <2>6, <2>7
    <2> QED
      BY <1>7, <2>2, <2>3, <2>4, <2>5, <2>8 DEF EveryRowOnce, N
  <1> QED
    BY <1>6, <1>7

(* fact.ts, aggregates.ts, cross-database.ts: whatever the data, the sort,  *)
(* the groups and the size of a page, the pages of a query hold every row   *)
(* of its result once and in its order, in LONG every value of every group. *)
THEOREM PagesHoldTheResult == Spec => []PagesAreTheResult
  <1>1. QueryInv => PagesAreTheResult
    BY ReceivedIsWhole DEF PagesAreTheResult, Concerned
  <1> QED
    BY <1>1, QueryStarts, QueryIsInductive, PTL DEF Spec

-----------------------------------------------------------------------------
(* What a comparison sets side by side                                      *)

(* No aggregate is hidden by a group column or another aggregate.           *)
Apart(params) ==
  \A x \in ToSet(params.aggregates) :
    /\ x.alias \notin ToSet(Map(params.groups, LAMBDA g : g.field))
    /\ x.alias \notin ToSet(LabelColumns(params.groups))
    /\ \A y \in ToSet(params.aggregates) : y.alias = x.alias => y = x

LEMMA AliasesAre ==
  ASSUME NEW aggregates, aggregates \in Seq(ToSet(aggregates))
  PROVE  /\ Aliases(aggregates) \in Seq(ToSet(Aliases(aggregates)))
         /\ Len(Aliases(aggregates)) = Len(aggregates)
         /\ \A i \in 1..Len(aggregates) : /\ Aliases(aggregates)[i] = aggregates[i].alias
                                         /\ Aliases(aggregates)[i] \in ToSet(Aliases(aggregates))
  <1> DEFINE A == [i \in 1..Len(aggregates) |-> aggregates[i].alias]
  <1>1. Aliases(aggregates) = A /\ Len(aggregates) \in Nat
    BY DEF Aliases, Map
  <1>2. A = [i \in 1..Len(aggregates) |-> A[i]] /\ \A i \in 1..Len(aggregates) : A[i] = aggregates[i].alias
    OBVIOUS
  <1> HIDE DEF A
  <1>3. A \in Seq(ToSet(A)) /\ Len(A) = Len(aggregates) /\ \A i \in 1..Len(aggregates) : A[i] \in ToSet(A)
    BY <1>1, <1>2, MapIsList
  <1> QED
    BY <1>1, <1>2, <1>3

LEMMA AggregateShown ==
  ASSUME NEW params, NEW rows, Groupable(params, rows), Apart(params),
         NEW group, NEW x \in ToSet(params.aggregates)
  PROVE  AggregateRow(params, group)[x.alias] = AggregateValue(x.aggregation, x.measure, group)
  <1> DEFINE some == CHOOSE r \in group : TRUE
             fields == ToSet(Map(params.groups, LAMBDA g : g.field))
             labels == ToSet(LabelColumns(params.groups))
             aliases == ToSet(Aliases(params.aggregates))
             Group(c) == CHOOSE g \in ToSet(params.groups) : g.field = c
             Labelled(c) == CHOOSE g \in ToSet(params.groups) : g.label # Null /\ LabelColumnOf(g.field) = c
             Aggregate(c) == CHOOSE a \in ToSet(params.aggregates) : a.alias = c
             At(c) == IF c \in fields THEN GroupValue(Group(c), some)
                      ELSE IF c \in labels THEN some[Labelled(c).label]
                      ELSE IF c \in aliases
                        THEN AggregateValue(Aggregate(c).aggregation, Aggregate(c).measure, group)
                      ELSE Cardinality(group)
  <1>1. AggregateRow(params, group) = [c \in ColumnsOf(params) |-> At(c)]
    BY DEF AggregateRow, ColumnsOf
  <1>2. x.alias \in ColumnsOf(params)
    BY OutputColumnsAre
  <1>3. x.alias \in aliases
    <2> DEFINE N == params.aggregates
    <2>1. N \in Seq(ToSet(N)) /\ params.groups \in Seq(ToSet(params.groups))
      BY DEF Groupable
    <2>2. PICK i \in 1..Len(N) : N[i] = x
      BY <2>1 DEF ToSet
    <2> HIDE DEF N
    <2>3. Aliases(N)[i] = N[i].alias /\ Aliases(N)[i] \in ToSet(Aliases(N))
      BY <2>1, AliasesAre
    <2> QED
      BY <2>2, <2>3 DEF N
  <1>4. Aggregate(x.alias) = x
    BY DEF Apart
  <1>5. x.alias \notin fields /\ x.alias \notin labels
    BY DEF Apart
  <1> HIDE DEF Aggregate, fields, labels, aliases, Group, Labelled, some
  <1>6. At(x.alias) = AggregateValue(x.aggregation, x.measure, group)
    BY <1>3, <1>4, <1>5
  <1> HIDE DEF At
  <1> QED
    BY <1>1, <1>2, <1>6

(* The text of a group column tells its values.                             *)
LEMMA TextTells ==
  ASSUME NEW groups, NEW d, TextsTell(groups, d), NEW g \in ToSet(groups), g.field \in DOMAIN d.metadata,
         NEW r \in d.rows, NEW s \in d.rows,
         AsText(GroupValue(g, r), d.metadata[g.field].type) = AsText(GroupValue(g, s), d.metadata[g.field].type)
  PROVE  GroupValue(g, r) = GroupValue(g, s)
  <1> DEFINE known == {GroupValue(g, t) : t \in d.rows} \ {Null}
             type == d.metadata[g.field].type
             v == GroupValue(g, r)
             w == GroupValue(g, s)
  <1>1. \A y, z \in known : CastText(y, type) \in Int /\ (CastText(y, type) = CastText(z, type) => y = z)
    BY DEF TextsTell
  <1>2. (v = Null \/ v \in known) /\ (w = Null \/ w \in known)
    OBVIOUS
  <1>3. AsText(v, type) = AsText(w, type)
    OBVIOUS
  <1> HIDE DEF known, type, v, w
  <1>4. v = w
    BY <1>1, <1>2, <1>3, NullAssumption DEF AsText
  <1> QED
    BY <1>4 DEF v, w

LEMMA TextIsNull ==
  ASSUME NEW groups, NEW d, TextsTell(groups, d), NEW g \in ToSet(groups), g.field \in DOMAIN d.metadata,
         NEW r \in d.rows
  PROVE  GroupValue(g, r) = Null <=> AsText(GroupValue(g, r), d.metadata[g.field].type) = Null
  <1> DEFINE known == {GroupValue(g, t) : t \in d.rows} \ {Null}
             type == d.metadata[g.field].type
             v == GroupValue(g, r)
  <1>1. \A y \in known : CastText(y, type) \in Int
    BY DEF TextsTell
  <1>2. v = Null \/ v \in known
    OBVIOUS
  <1> HIDE DEF known, type, v
  <1>3. v = Null <=> AsText(v, type) = Null
    BY <1>1, <1>2, NullAssumption DEF AsText
  <1> QED
    BY <1>3 DEF v, type

(* A row of a side stands for the facts whose group columns read `text`.    *)
Stands(side, q, d, N, r, text) ==
  /\ \A i \in 1..Len(q.groupBy) : /\ TextOf(side, r, q.groupBy[i].field) = text[i]
                                  /\ r[q.groupBy[i].field] = Null <=> text[i] = Null
  /\ \A i \in 1..Len(N) : r[N[i].alias] = AggregateValue(N[i].aggregation, N[i].measure, PartOf(q, d, text))

SideShows(side, q, d, N) ==
  /\ \A r \in SideRows(side) : \E t \in d.rows : Stands(side, q, d, N, r, GroupText(q, d, t))
  /\ \A t \in d.rows : \E r \in SideRows(side) : Stands(side, q, d, N, r, GroupText(q, d, t))

LEMMA SideIsShown ==
  ASSUME NEW x, NEW d, Resolvable(SideRequest(x), d), TextsTell(x.groupBy, d),
         Apart(AggregateParams(SideRequest(x), d.metadata)), x.groupBy # <<>>,
         NEW q, q.groupBy = x.groupBy
  PROVE  SideShows(Side(x, d), q, d, ResolvedAggregates(SideRequest(x), d.metadata))
  <1> DEFINE a == SideRequest(x)
             m == d.metadata
             params == AggregateParams(a, m)
             R == AggregateSelect(params, d.rows)
             G == ResolvedGroups(a, m)
             N == ResolvedAggregates(a, m)
             n == Len(q.groupBy)
             side == Side(x, d)
             Read(f, v) == AsText(v, m[f].type)
             Part(t) == {r \in d.rows : GroupKey(G, r) = GroupKey(G, t)}
             Text(t) == GroupText(q, d, t)
             Row(t) == AggregateRow(params, Part(t))
  <1>1. Groupable(params, d.rows) /\ params.groups = G /\ params.aggregates = N /\ a.groupBy = q.groupBy
    BY ResolvableIsGroupable DEF SideRequest
  <1>2. SideRows(side) = R /\ \A r, f : TextOf(side, r, f) = Read(f, r[f])
    BY DEF Side, SideRows, TextOf
  <1>3. /\ G \in Seq(ToSet(G)) /\ Len(G) = n /\ n \in Nat
        /\ \A i \in 1..n : /\ q.groupBy[i] \in ToSet(q.groupBy) /\ q.groupBy[i].field \in DOMAIN m
                           /\ G[i].field = q.groupBy[i].field /\ G[i].grain = q.groupBy[i].grain
    <2> HIDE DEF a, G, n
    <2>1. /\ G \in Seq(ToSet(G)) /\ Len(G) = Len(a.groupBy) /\ Len(a.groupBy) \in Nat
          /\ \A i \in 1..Len(a.groupBy) : /\ a.groupBy[i] \in ToSet(a.groupBy)
                                          /\ a.groupBy[i].field \in DOMAIN m
                                          /\ G[i].field = a.groupBy[i].field
                                          /\ G[i].grain = a.groupBy[i].grain
      BY ResolvedGroupsAre DEF a, G
    <2> QED
      BY <1>1, <2>1 DEF n
  <1>4. n # 0 /\ G # <<>>
    <2>1. q.groupBy \in Seq(ToSet(q.groupBy))
      BY <1>1 DEF Resolvable
    <2>2. n # 0
      BY <2>1
    <2> QED
      BY <1>3, <2>2
  <1>5. /\ R = {AggregateRow(params, P) : P \in Groups(G, d.rows)}
        /\ Groups(G, d.rows) = {Part(t) : t \in d.rows}
    BY <1>1, <1>4 DEF AggregateSelect, Groups
  <1>6. /\ \A t : DOMAIN Text(t) = 1..n
        /\ \A t : \A i \in 1..n : Text(t)[i] = Read(q.groupBy[i].field, GroupValue(q.groupBy[i], t))
        /\ \A t : Text(t) = [i \in 1..n |-> Text(t)[i]]
    BY DEF GroupText, Map
  <1>7. N \in Seq(ToSet(N))
    BY ResolvedAggregatesAre
  <1>8. TextsTell(q.groupBy, d) /\ Apart(params)
    OBVIOUS
  <1>9. \A t : PartOf(q, d, Text(t)) = {s \in d.rows : Text(s) = Text(t)}
    BY DEF PartOf
  <1> HIDE DEF a, m, params, R, G, N, n, side, Text
  <1>10. \A t : \A i \in 1..n : GroupValue(G[i], t) = GroupValue(q.groupBy[i], t)
    BY <1>3 DEF GroupValue
  <1>11. ASSUME NEW s \in d.rows, NEW t \in d.rows
         PROVE  GroupKey(G, s) = GroupKey(G, t) <=> Text(s) = Text(t)
    <2>1. \A r : GroupKey(G, r) = [i \in 1..n |-> GroupValue(G[i], r)]
      BY <1>3 DEF GroupKey, Map
    <2>2. ASSUME GroupKey(G, s) = GroupKey(G, t) PROVE Text(s) = Text(t)
      <3>1. \A i \in 1..n : GroupValue(q.groupBy[i], s) = GroupValue(q.groupBy[i], t)
        <4> TAKE i \in 1..n
        <4>1. GroupKey(G, s)[i] = GroupValue(G[i], s) /\ GroupKey(G, t)[i] = GroupValue(G[i], t)
          BY <2>1
        <4> QED
          BY <1>10, <2>2, <4>1
      <3> HIDE DEF Read
      <3>2. \A i \in 1..n : Text(s)[i] = Text(t)[i]
        BY <1>6, <3>1
      <3> QED
        BY <1>6, <3>2
    <2>3. ASSUME Text(s) = Text(t) PROVE GroupKey(G, s) = GroupKey(G, t)
      <3>1. ASSUME NEW i \in 1..n PROVE GroupValue(G[i], s) = GroupValue(G[i], t)
        <4>1. Read(q.groupBy[i].field, GroupValue(q.groupBy[i], s))
              = Read(q.groupBy[i].field, GroupValue(q.groupBy[i], t))
          <5> HIDE DEF Read
          <5> QED
            BY <1>6, <2>3
        <4>2. GroupValue(q.groupBy[i], s) = GroupValue(q.groupBy[i], t)
          BY <1>3, <1>8, <4>1, TextTells DEF m
        <4> QED
          BY <1>10, <4>2
      <3> QED
        BY <2>1, <3>1
    <2> QED
      BY <2>2, <2>3
  <1>12. ASSUME NEW t \in d.rows
         PROVE  Part(t) = PartOf(q, d, Text(t)) /\ t \in Part(t) /\ Part(t) \subseteq d.rows
    BY <1>9, <1>11
  <1>13. ASSUME NEW t \in d.rows PROVE Stands(side, q, d, N, Row(t), Text(t))
    <2>1. PICK s \in Part(t) : \A g \in ToSet(G) : Row(t)[g.field] = GroupValue(g, s)
      <3> DEFINE H == params.groups
                 P == Part(t)
      <3>1. P \subseteq d.rows /\ P # {} /\ Groupable(params, d.rows) /\ H # <<>>
        BY <1>1, <1>4, <1>12
      <3> HIDE DEF P
      <3>2. \E s \in P : \A g \in ToSet(H) : AggregateRow(params, P)[g.field] = GroupValue(g, s)
        BY <3>1, AggregateRowType
      <3>3. H = G
        BY <1>1
      <3> HIDE DEF H
      <3> QED
        BY <3>2, <3>3 DEF P
    <2>2. Text(s) = Text(t) /\ s \in d.rows
      BY <1>11, <2>1
    <2>3. ASSUME NEW i \in 1..n
          PROVE  /\ TextOf(side, Row(t), q.groupBy[i].field) = Text(t)[i]
                 /\ Row(t)[q.groupBy[i].field] = Null <=> Text(t)[i] = Null
      <3>1. Row(t)[q.groupBy[i].field] = GroupValue(q.groupBy[i], s)
        <4>1. G[i] \in ToSet(G)
          BY <1>3
        <4>2. Row(t)[G[i].field] = GroupValue(G[i], s)
          BY <2>1, <4>1
        <4> HIDE DEF Row
        <4> QED
          BY <1>3, <1>10, <4>2
      <3>2. GroupValue(q.groupBy[i], s) = Null <=> Read(q.groupBy[i].field, GroupValue(q.groupBy[i], s)) = Null
        BY <1>3, <1>8, <2>2, TextIsNull DEF m
      <3> HIDE DEF Row, Read
      <3> QED
        BY <1>2, <1>6, <2>2, <3>1, <3>2
    <2>4. ASSUME NEW i \in 1..Len(N)
          PROVE  Row(t)[N[i].alias] = AggregateValue(N[i].aggregation, N[i].measure, PartOf(q, d, Text(t)))
      <3>1. N[i] \in ToSet(params.aggregates)
        BY <1>1, <1>7
      <3>2. Row(t)[N[i].alias] = AggregateValue(N[i].aggregation, N[i].measure, Part(t))
        <4> HIDE DEF Part
        <4> QED
          BY <1>1, <1>8, <3>1, AggregateShown
      <3> HIDE DEF Row, Part
      <3> QED
        BY <1>12, <3>2
    <2> HIDE DEF Row
    <2> QED
      BY <2>3, <2>4 DEF Stands, n
  <1>14. \A r \in R : \E t \in d.rows : r = Row(t)
    BY <1>5
  <1>15. \A t \in d.rows : Row(t) \in R
    BY <1>5
  <1> HIDE DEF Row
  <1>16. SideShows(side, q, d, N)
    BY <1>2, <1>13, <1>14, <1>15 DEF SideShows, Text
  <1> QED
    BY <1>16 DEF side, N, a, m

(* Both rows of a pair stand for the facts of a text, each on its side.     *)
PairShows(p, text, q, sideA, N, sideB, M) ==
  Stands(sideA, q, q.data, N, p[1], text) /\ Stands(sideB, q, q.other, M, p[2], text)

JoinShows(J, q, sideA, N, sideB, M) ==
  /\ \A p \in J : \E text \in CommonGroups(q) : PairShows(p, text, q, sideA, N, sideB, M)
  /\ \A text \in CommonGroups(q) : \E p \in J : PairShows(p, text, q, sideA, N, sideB, M)

(* The pairs of the join are the groups that both datasets have.            *)
LEMMA JoinIsShown ==
  ASSUME NEW q, NEW sideA, NEW sideB, NEW N, NEW M, NEW nullSafe,
         q.groupBy \in Seq(ToSet(q.groupBy)), nullSafe <=> q.kind # "compareFacts",
         SideShows(sideA, q, q.data, N), SideShows(sideB, q, q.other, M)
  PROVE  JoinShows(Joined(sideA, sideB, GroupFields(q), nullSafe), q, sideA, N, sideB, M)
  <1> DEFINE A == q.data
             B == q.other
             n == Len(q.groupBy)
             fields == GroupFields(q)
             X == SideRows(sideA)
             Y == SideRows(sideB)
             J == Joined(sideA, sideB, fields, nullSafe)
             Text(d, t) == GroupText(q, d, t)
             Known(text) == q.kind = "compareFacts" => Null \notin ToSet(text)
             common == CommonGroups(q)
  <1>1. \A c \in ToSet(fields) : \E i \in 1..n : c = q.groupBy[i].field
    <2>1. fields = [i \in 1..n |-> q.groupBy[i].field]
      BY DEF GroupFields, Map
    <2> QED
      BY <2>1 DEF ToSet
  <1>2. \A i \in 1..n : q.groupBy[i].field \in ToSet(fields)
    <2>1. fields = [i \in 1..n |-> q.groupBy[i].field]
      BY DEF GroupFields, Map
    <2> QED
      BY <2>1 DEF ToSet
  <1>3. \A d, t : DOMAIN Text(d, t) = 1..n /\ Text(d, t) = [i \in 1..n |-> Text(d, t)[i]]
    BY DEF GroupText, Map
  <1>4. \A p : p \in J <=> /\ p \in X \X Y
                           /\ \A f \in ToSet(fields) : /\ TextOf(sideA, p[1], f) = TextOf(sideB, p[2], f)
                                                       /\ nullSafe \/ p[1][f] # Null
    BY DEF Joined
  <1>5. \A text : text \in common <=> /\ \E t \in A.rows : text = Text(A, t)
                                      /\ \E t \in B.rows : text = Text(B, t)
                                      /\ Known(text)
    BY DEF CommonGroups
  <1>6. \A d, t : Null \in ToSet(Text(d, t)) <=> \E i \in 1..n : Text(d, t)[i] = Null
    <2> HIDE DEF Text
    <2> QED
      BY <1>3 DEF ToSet
  <1> HIDE DEF A, B, n, fields, X, Y, J, Text, common
  <1>7. ASSUME NEW p \in J
        PROVE  \E text \in common : PairShows(p, text, q, sideA, N, sideB, M)
    <2>1. p[1] \in X /\ p[2] \in Y
      BY <1>4
    <2>2. PICK t \in A.rows : Stands(sideA, q, A, N, p[1], Text(A, t))
      BY <2>1 DEF SideShows, X, A, Text
    <2>3. PICK u \in B.rows : Stands(sideB, q, B, M, p[2], Text(B, u))
      BY <2>1 DEF SideShows, Y, B, Text
    <2>4. \A i \in 1..n : Text(A, t)[i] = Text(B, u)[i]
      <3> TAKE i \in 1..n
      <3>1. TextOf(sideA, p[1], q.groupBy[i].field) = TextOf(sideB, p[2], q.groupBy[i].field)
        BY <1>2, <1>4
      <3> QED
        BY <2>2, <2>3, <3>1 DEF Stands, n
    <2>5. Text(A, t) = Text(B, u)
      BY <1>3, <2>4
    <2>6. Known(Text(A, t))
      <3> SUFFICES ASSUME q.kind = "compareFacts", NEW i \in 1..n, Text(A, t)[i] = Null
                   PROVE  FALSE
        BY <1>6
      <3>1. p[1][q.groupBy[i].field] # Null
        BY <1>2, <1>4
      <3> QED
        BY <2>2, <3>1 DEF Stands, n
    <2> HIDE DEF Known
    <2>7. Text(A, t) \in common
      BY <1>5, <2>5, <2>6
    <2> QED
      BY <2>2, <2>3, <2>5, <2>7 DEF PairShows, A, B
  <1>8. ASSUME NEW text \in common
        PROVE  \E p \in J : PairShows(p, text, q, sideA, N, sideB, M)
    <2>1. PICK t \in A.rows : text = Text(A, t)
      BY <1>5
    <2>2. PICK u \in B.rows : text = Text(B, u)
      BY <1>5
    <2>3. PICK r \in X : Stands(sideA, q, A, N, r, text)
      BY <2>1 DEF SideShows, X, A, Text
    <2>4. PICK s \in Y : Stands(sideB, q, B, M, s, text)
      BY <2>2 DEF SideShows, Y, B, Text
    <2>5. ASSUME NEW f \in ToSet(fields)
          PROVE  /\ TextOf(sideA, r, f) = TextOf(sideB, s, f)
                 /\ nullSafe \/ r[f] # Null
      <3>1. PICK i \in 1..n : f = q.groupBy[i].field
        BY <1>1
      <3>2. TextOf(sideA, r, f) = text[i] /\ TextOf(sideB, s, f) = text[i] /\ (r[f] = Null <=> text[i] = Null)
        BY <2>3, <2>4, <3>1 DEF Stands, n
      <3>3. nullSafe \/ text[i] # Null
        BY <1>5, <1>6, <2>1
      <3> QED
        BY <3>2, <3>3
    <2>6. PICK p \in X \X Y : p[1] = r /\ p[2] = s
      <3>1. <<r, s>> \in X \X Y /\ <<r, s>>[1] = r /\ <<r, s>>[2] = s
        OBVIOUS
      <3> QED
        BY <3>1
    <2>7. p \in J
      BY <1>4, <2>5, <2>6
    <2> QED
      BY <2>3, <2>4, <2>6, <2>7 DEF PairShows, A, B
  <1> QED
    BY <1>7, <1>8 DEF JoinShows, J, fields, common

(* What is set side by side for a text.                                     *)
Beside(q, m, text) ==
  <<text, Map(ResolvedAggregates(q, m),
              LAMBDA a : <<AggregateValue(a.aggregation, a.measure, PartOf(q, q.data, text)),
                           AggregateValue(a.aggregation, a.measure, PartOf(q, q.other, text))>>)>>

(* An answer shows a row for each pair, and each pair shows its text.       *)
LEMMA ShownAreBeside ==
  ASSUME NEW q, NEW m, NEW J, NEW h, NEW sideA, NEW N, NEW sideB, NEW M,
         JoinShows(J, q, sideA, N, sideB, M),
         \A p \in J : \A text \in CommonGroups(q) :
           PairShows(p, text, q, sideA, N, sideB, M) => Shown(q, m, h[p]) = Beside(q, m, text)
  PROVE  {Shown(q, m, row) : row \in {h[p] : p \in J}} = SideBySide(q, m)
  <1>1. SideBySide(q, m) = {Beside(q, m, text) : text \in CommonGroups(q)}
    BY DEF SideBySide, Beside
  <1> QED
    BY <1>1 DEF JoinShows

(* An alias and a suffix name a column of their own.                        *)
LEMMA ComparedNames ==
  ASSUME NEW aliases, aliases \in Seq(ToSet(aliases)), ~Duplicates(ComparedColumns(aliases)),
         NEW p \in ToSet(aliases) \X ToSet(ComparisonSuffixes)
  PROVE  /\ p[1] \o p[2] \in ToSet(ComparedColumns(aliases))
         /\ \A r \in ToSet(aliases) \X ToSet(ComparisonSuffixes) : p[1] \o p[2] = r[1] \o r[2] => p = r
  <1> DEFINE n == Len(aliases)
             At(k) == aliases[(k - 1) \div 4 + 1] \o ComparisonSuffixes[((k - 1) % 4) + 1]
             s == [k \in 1..4 * n |-> At(k)]
             P == ToSet(aliases) \X ToSet(ComparisonSuffixes)
             Place(i, j) == 4 * (i - 1) + j
  <1>1. ComparedColumns(aliases) = s
    BY DEF ComparedColumns
  <1>2. n \in Nat /\ 4 * n \in Nat
    OBVIOUS
  <1>3. DOMAIN s = 1..4 * n /\ Len(s) = 4 * n /\ \A k \in 1..4 * n : s[k] = At(k)
    <2>1. DOMAIN s = 1..4 * n /\ \A k \in 1..4 * n : s[k] = At(k)
      OBVIOUS
    <2>2. s = [k \in 1..4 * n |-> s[k]]
      OBVIOUS
    <2> HIDE DEF s, At
    <2>3. Len(s) = 4 * n
      BY <1>2, <2>2, MapIsList
    <2> QED
      BY <2>1, <2>3
  <1>4. ASSUME NEW r \in P
        PROVE  \E i \in 1..n, j \in 1..4 : aliases[i] = r[1] /\ ComparisonSuffixes[j] = r[2]
    <2>1. r[1] \in ToSet(aliases) /\ r[2] \in ToSet(ComparisonSuffixes)
      OBVIOUS
    <2>2. DOMAIN ComparisonSuffixes = 1..4
      BY DEF ComparisonSuffixes
    <2> QED
      BY <2>1, <2>2 DEF ToSet
  <1>5. ASSUME NEW i \in 1..n, NEW j \in 1..4
        PROVE  /\ Place(i, j) \in 1..4 * n
               /\ (Place(i, j) - 1) \div 4 = i - 1 /\ (Place(i, j) - 1) % 4 = j - 1
    BY <1>2
  <1>6. ASSUME NEW i \in 1..n, NEW j \in 1..4
        PROVE  s[Place(i, j)] = aliases[i] \o ComparisonSuffixes[j]
    <2>1. s[Place(i, j)] = At(Place(i, j))
      BY <1>3, <1>5
    <2>2. (Place(i, j) - 1) \div 4 = i - 1 /\ (Place(i, j) - 1) % 4 = j - 1
      BY <1>5
    <2>3. i \in Int /\ j \in Int /\ (i - 1) + 1 = i /\ (j - 1) + 1 = j
      BY <1>2
    <2> HIDE DEF s, Place
    <2>4. At(Place(i, j)) = aliases[(i - 1) + 1] \o ComparisonSuffixes[(j - 1) + 1]
      BY <2>2
    <2> HIDE DEF At
    <2> QED
      BY <2>1, <2>3, <2>4
  <1> HIDE DEF s, At, Place
  <1>7. \A k, l \in 1..4 * n : s[k] = s[l] => k = l
    <2>1. \A k, l \in 1..4 * n : k < l => s[k] # s[l]
      BY <1>1, <1>3 DEF Duplicates
    <2> QED
      BY <1>2, <2>1
  <1>8. PICK i \in 1..n, j \in 1..4 : aliases[i] = p[1] /\ ComparisonSuffixes[j] = p[2]
    BY <1>4
  <1>9. s[Place(i, j)] = p[1] \o p[2]
    BY <1>6, <1>8
  <1>10. p[1] \o p[2] \in ToSet(ComparedColumns(aliases))
    BY <1>1, <1>3, <1>5, <1>9 DEF ToSet
  <1>11. ASSUME NEW r \in P, p[1] \o p[2] = r[1] \o r[2]
         PROVE  p = r
    <2>1. PICK k \in 1..n, l \in 1..4 : aliases[k] = r[1] /\ ComparisonSuffixes[l] = r[2]
      BY <1>4
    <2>2. s[Place(k, l)] = r[1] \o r[2]
      BY <1>6, <2>1
    <2>3. Place(i, j) = Place(k, l)
      BY <1>5, <1>7, <1>9, <1>11, <2>2
    <2>4. i = k /\ j = l
      BY <1>2, <2>3 DEF Place
    <2>5. p[1] = r[1] /\ p[2] = r[2]
      BY <1>8, <2>1, <2>4
    <2> QED
      BY <2>5
  <1> QED
    BY <1>10, <1>11

LEMMA ComparedRowShows ==
  ASSUME NEW a, NEW b, NEW header, NEW fields, NEW labels, NEW aliases,
         aliases \in Seq(ToSet(aliases)), ~Duplicates(ComparedColumns(aliases)),
         ToSet(ComparedColumns(aliases)) \subseteq ToSet(header),
         ToSet(fields) \cap ToSet(ComparedColumns(aliases)) = {},
         ToSet(labels) \cap ToSet(ComparedColumns(aliases)) = {},
         NEW alias \in ToSet(aliases)
  PROVE  /\ ComparedRow(a, b, header, fields, labels, aliases)[alias \o "_a"] = a[alias]
         /\ ComparedRow(a, b, header, fields, labels, aliases)[alias \o "_b"] = b[alias]
  <1> DEFINE P == ToSet(aliases) \X ToSet(ComparisonSuffixes)
             Part(c) == CHOOSE p \in P : c = p[1] \o p[2]
             At(c) == IF c \in ToSet(fields) THEN a[c]
                      ELSE IF c \in ToSet(labels) THEN CoalesceLabel(a, b, c)
                      ELSE ComparedValue(a[Part(c)[1]], b[Part(c)[1]], Part(c)[2])
  <1>1. ComparedRow(a, b, header, fields, labels, aliases) = [c \in ToSet(header) |-> At(c)]
    BY DEF ComparedRow
  <1>2. ASSUME NEW suffix \in ToSet(ComparisonSuffixes)
        PROVE  ComparedRow(a, b, header, fields, labels, aliases)[alias \o suffix]
               = ComparedValue(a[alias], b[alias], suffix)
    <2>1. PICK p \in P : p[1] = alias /\ p[2] = suffix
      <3>1. <<alias, suffix>> \in P /\ <<alias, suffix>>[1] = alias /\ <<alias, suffix>>[2] = suffix
        OBVIOUS
      <3> QED
        BY <3>1
    <2>2. /\ alias \o suffix \in ToSet(ComparedColumns(aliases))
          /\ \A r \in P : alias \o suffix = r[1] \o r[2] => p = r
      BY <2>1, ComparedNames
    <2>3. Part(alias \o suffix) = p
      BY <2>1, <2>2
    <2>4. alias \o suffix \notin ToSet(fields) /\ alias \o suffix \notin ToSet(labels)
          /\ alias \o suffix \in ToSet(header)
      BY <2>2
    <2> HIDE DEF Part
    <2>5. At(alias \o suffix) = ComparedValue(a[alias], b[alias], suffix)
      BY <2>1, <2>3, <2>4
    <2> HIDE DEF At
    <2> QED
      BY <1>1, <2>4, <2>5
  <1>3. /\ ComparedValue(a[alias], b[alias], "_a") = a[alias]
        /\ ComparedValue(a[alias], b[alias], "_b") = b[alias]
    BY DEF ComparedValue
  <1> QED
    BY <1>2, <1>3, SuffixesAre

(* What getAggregates accepts hides no aggregate.                           *)
LEMMA AcceptedIsApart ==
  ASSUME NEW a, NEW d, Resolvable(a, d), ~AggregateRefused(a, d.metadata)
  PROVE  Apart(AggregateParams(a, d.metadata))
  <1> DEFINE params == AggregateParams(a, d.metadata)
             F == ToSet(Map(params.groups, LAMBDA g : g.field))
             L == ToSet(LabelColumns(params.groups))
             A == params.aggregates
             N == Aliases(A)
  <1>1. ~Duplicates(OutputColumns(params.groups, params.aggregates, params.rowCount))
    BY DEF AggregateRefused, AggregateParams
  <1>2. params.groups \in Seq(ToSet(params.groups)) /\ A \in Seq(ToSet(A))
    BY ResolvedGroupsAre, ResolvedAggregatesAre DEF AggregateParams
  <1> HIDE DEF params
  <1>3. ~Duplicates(N) /\ F \cap ToSet(N) = {} /\ L \cap ToSet(N) = {}
    BY <1>1, <1>2, OutputNamesAreApart
  <1> HIDE DEF F, L, A
  <1>4. ASSUME NEW x \in ToSet(A)
        PROVE  \E i \in 1..Len(A) : A[i] = x /\ N[i] = x.alias /\ x.alias \in ToSet(N)
    <2>1. PICK i \in 1..Len(A) : A[i] = x
      BY <1>2 DEF ToSet
    <2> QED
      BY <1>2, <2>1, AliasesAre
  <1>5. Len(N) = Len(A) /\ Len(A) \in Nat
    BY <1>2, AliasesAre
  <1> HIDE DEF N
  <1>6. ASSUME NEW x \in ToSet(A), NEW y \in ToSet(A), y.alias = x.alias
        PROVE  y = x
    <2>1. PICK i \in 1..Len(A) : A[i] = x /\ N[i] = x.alias
      BY <1>4
    <2>2. PICK j \in 1..Len(A) : A[j] = y /\ N[j] = y.alias
      BY <1>4
    <2>3. N[i] = N[j]
      BY <1>6, <2>1, <2>2
    <2>4. i = j
      BY <1>3, <1>5, <2>3 DEF Duplicates
    <2> QED
      BY <2>1, <2>2, <2>4
  <1>7. \A x \in ToSet(A) : x.alias \notin F /\ x.alias \notin L
    BY <1>3, <1>4
  <1> QED
    BY <1>6, <1>7 DEF Apart, params, F, L, A

(* compareAggregatedFacts() shows the groups of both datasets.              *)
LEMMA AggregatedIsBeside ==
  ASSUME NEW q \in Requests, q.kind = "compareAggregatedFacts", Accepted(q), q.groupBy # <<>>
  PROVE  {Shown(q, q.data.metadata, row) : row \in Whole(q).rows} = SideBySide(q, q.data.metadata)
  <1> DEFINE A == q.data
             B == q.other
             mA == A.metadata
             mB == B.metadata
             a == SideRequest(q)
             sideA == Side(q, A)
             sideB == Side(q, B)
             fields == GroupFields(q)
             G == ResolvedGroups(a, mA)
             H == ResolvedGroups(a, mB)
             N == ResolvedAggregates(a, mA)
             M == ResolvedAggregates(a, mB)
             n == Len(q.groupBy)
             aliases == Aliases(N)
             compared == ComparedColumns(aliases)
             labels == LabelColumns(BothLabelled(G, H))
             header == ComparisonColumns(G, H, N)
             pairs == Joined(sideA, sideB, fields, TRUE)
             h == [p \in pairs |-> ComparedRow(p[1], p[2], header, fields, labels, aliases)]
             Value(x, d, text) == AggregateValue(x.aggregation, x.measure, PartOf(q, d, text))
  <1>1. /\ Resolvable(a, A) /\ Resolvable(a, B)
        /\ TextsTell(q.groupBy, A) /\ TextsTell(q.groupBy, B)
        /\ ~ComparisonRefused(q, mA, mB)
    BY ComparisonResolves
  <1>2. Whole(q).rows = {h[p] : p \in pairs}
    <2>1. Whole(q).rows = {ComparedRowOf(q, p) : p \in pairs}
      BY ComparedRowsAre DEF ComparedPairs
    <2>2. \A p : ComparedRowOf(q, p) = ComparedRow(p[1], p[2], header, fields, labels, aliases)
      BY DEF ComparedRowOf
    <2> HIDE DEF header, fields, labels, aliases, pairs
    <2> QED
      BY <2>1, <2>2
  <1>3. /\ ~Duplicates(header)
        /\ \A i \in 1..Len(N) : N[i].aggregation = M[i].aggregation
        /\ ~AggregateRefused(a, mA) /\ ~AggregateRefused(a, mB)
    <2>1. /\ ResolvedGroups(q, mA) = G /\ ResolvedGroups(q, mB) = H
          /\ ResolvedAggregates(q, mA) = N /\ ResolvedAggregates(q, mB) = M
      BY DEF ResolvedGroups, ResolvedAggregates, SideRequest
    <2> HIDE DEF G, H, N, M
    <2> QED
      BY <1>1, <2>1 DEF ComparisonRefused, SidesDiffer, SideRefused
  <1>4. SideShows(sideA, q, A, N) /\ SideShows(sideB, q, B, M)
    <2>1. Apart(AggregateParams(a, mA)) /\ Apart(AggregateParams(a, mB))
      BY <1>1, <1>3, AcceptedIsApart
    <2> QED
      BY <1>1, <2>1, SideIsShown
  <1>5. JoinShows(pairs, q, sideA, N, sideB, M)
    <2>1. q.groupBy \in Seq(ToSet(q.groupBy)) /\ (TRUE <=> q.kind # "compareFacts")
      <3>1. a.groupBy = q.groupBy
        BY DEF SideRequest
      <3> QED
        BY <1>1, <3>1 DEF Resolvable
    <2> QED
      BY <1>4, <2>1, JoinIsShown, Zenon
  <1>6. /\ G \in Seq(ToSet(G)) /\ N \in Seq(ToSet(N)) /\ M \in Seq(ToSet(M))
        /\ Len(N) = Len(M) /\ aliases = Aliases(M)
        /\ \A i \in 1..Len(N) : N[i].measure = M[i].measure
        /\ Len(G) = n /\ n \in Nat /\ \A i \in 1..n : G[i].field = q.groupBy[i].field
    <2>1. a.groupBy = q.groupBy
      BY DEF SideRequest
    <2>2. aliases = Aliases(M)
      BY <1>1, <1>3, SameAliases
    <2> HIDE DEF a, aliases
    <2> QED
      BY <1>1, <2>1, <2>2, ResolvedGroupsAre, ResolvedAggregatesAre
  <1>7. ResolvedAggregates(q, mA) = N
    BY DEF ResolvedAggregates, SideRequest
  <1>8. Map(G, LAMBDA g : g.field) = fields
    <2> HIDE DEF G
    <2> QED
      BY <1>6 DEF GroupFields, Map
  <1> HIDE DEF A, B, mA, mB, a, sideA, sideB, G, H, N, M, pairs
  <1>9. /\ fields \in Seq(ToSet(fields)) /\ labels \in Seq(ToSet(labels))
        /\ aliases \in Seq(ToSet(aliases)) /\ compared \in Seq(ToSet(compared))
    <2> DEFINE L == BothLabelled(G, H)
    <2>1. L \in Seq(ToSet(L))
      BY <1>6, BothLabelledIs
    <2> HIDE DEF L
    <2>2. Map(G, LAMBDA g : g.field) \in Seq(ToSet(Map(G, LAMBDA g : g.field)))
      BY <1>6, ColumnPartsAre
    <2>3. LabelColumns(L) \in Seq(ToSet(LabelColumns(L)))
      BY <1>6, <2>1, ColumnPartsAre
    <2>4. aliases \in Seq(ToSet(aliases))
      BY <1>6, AliasesAre
    <2> HIDE DEF aliases, fields
    <2>5. compared \in Seq(ToSet(compared))
      BY <2>4, ComparedColumnsAre
    <2> QED
      BY <1>8, <2>2, <2>3, <2>4, <2>5 DEF L
  <1>10. header = fields \o labels \o compared
    BY <1>8 DEF ComparisonColumns
  <1> HIDE DEF labels, header, compared, fields
  <1>11. /\ ToSet(compared) \subseteq ToSet(header) /\ ~Duplicates(compared)
         /\ ToSet(fields) \subseteq ToSet(header)
         /\ ToSet(fields) \cap ToSet(compared) = {} /\ ToSet(labels) \cap ToSet(compared) = {}
    BY <1>3, <1>9, <1>10, NamesAreApart
  <1>12. ASSUME NEW p \in pairs, NEW text \in CommonGroups(q),
                PairShows(p, text, q, sideA, N, sideB, M)
         PROVE  Shown(q, mA, h[p]) = Beside(q, mA, text)
    <2> DEFINE row == h[p]
    <2>1. Shown(q, mA, row) = <<[i \in 1..n |-> AsText(row[q.groupBy[i].field], mA[q.groupBy[i].field].type)],
                                [i \in 1..Len(N) |-> <<row[N[i].alias \o "_a"], row[N[i].alias \o "_b"]>>]>>
      <3> HIDE DEF h
      <3> QED
        BY <1>7 DEF Shown, Map, mA, A
    <2>2. Beside(q, mA, text) = <<text, [i \in 1..Len(N) |-> <<Value(N[i], A, text), Value(N[i], B, text)>>]>>
      BY <1>7 DEF Beside, Map, A, B
    <2>3. ASSUME NEW i \in 1..Len(N)
          PROVE  row[N[i].alias \o "_a"] = Value(N[i], A, text) /\ row[N[i].alias \o "_b"] = Value(N[i], B, text)
      <3>1. N[i].alias \in ToSet(aliases) /\ N[i].alias = M[i].alias
        <4>1. aliases[i] = N[i].alias /\ aliases[i] \in ToSet(aliases)
          BY <1>6, AliasesAre
        <4>2. Aliases(M)[i] = M[i].alias
          BY <1>6, AliasesAre
        <4> QED
          BY <1>6, <4>1, <4>2
      <3>2. row[N[i].alias \o "_a"] = p[1][N[i].alias] /\ row[N[i].alias \o "_b"] = p[2][N[i].alias]
        <4>1. row = ComparedRow(p[1], p[2], header, fields, labels, aliases)
          OBVIOUS
        <4> HIDE DEF aliases, row
        <4>2. PICK alias \in ToSet(aliases) : alias = N[i].alias
          BY <3>1
        <4>3. /\ aliases \in Seq(ToSet(aliases)) /\ ~Duplicates(ComparedColumns(aliases))
              /\ ToSet(ComparedColumns(aliases)) \subseteq ToSet(header)
              /\ ToSet(fields) \cap ToSet(ComparedColumns(aliases)) = {}
              /\ ToSet(labels) \cap ToSet(ComparedColumns(aliases)) = {}
          BY <1>9, <1>11 DEF compared
        <4>4. /\ ComparedRow(p[1], p[2], header, fields, labels, aliases)[alias \o "_a"] = p[1][alias]
              /\ ComparedRow(p[1], p[2], header, fields, labels, aliases)[alias \o "_b"] = p[2][alias]
          BY <4>3, ComparedRowShows
        <4> QED
          BY <4>1, <4>2, <4>4
      <3>3. p[1][N[i].alias] = Value(N[i], A, text) /\ p[2][M[i].alias] = Value(M[i], B, text)
        BY <1>6, <1>12 DEF PairShows, Stands, A, B
      <3>4. Value(M[i], B, text) = Value(N[i], B, text)
        BY <1>3, <1>6
      <3> QED
        BY <3>1, <3>2, <3>3, <3>4
    <2>4. ASSUME NEW i \in 1..n
          PROVE  AsText(row[q.groupBy[i].field], mA[q.groupBy[i].field].type) = text[i]
      <3>1. row[q.groupBy[i].field] = p[1][q.groupBy[i].field]
        <4>1. q.groupBy[i].field \in ToSet(fields)
          BY DEF fields, GroupFields, Map, ToSet
        <4> QED
          BY <1>11, <4>1 DEF ComparedRow
      <3>2. TextOf(sideA, p[1], q.groupBy[i].field) = text[i]
        BY <1>12 DEF PairShows, Stands
      <3>3. TextOf(sideA, p[1], q.groupBy[i].field) = AsText(p[1][q.groupBy[i].field], mA[q.groupBy[i].field].type)
        BY DEF TextOf, sideA, Side, mA
      <3> QED
        BY <3>1, <3>2, <3>3
    <2>5. text = [i \in 1..n |-> text[i]]
      BY DEF CommonGroups, GroupText, Map
    <2> HIDE DEF row, Value, n
    <2> DEFINE texts == [i \in 1..n |-> AsText(row[q.groupBy[i].field], mA[q.groupBy[i].field].type)]
               shown == [i \in 1..Len(N) |-> <<row[N[i].alias \o "_a"], row[N[i].alias \o "_b"]>>]
               values == [i \in 1..Len(N) |-> <<Value(N[i], A, text), Value(N[i], B, text)>>]
    <2>6. texts = text
      BY <2>4, <2>5
    <2>7. shown = values
      BY <2>3
    <2>8. Shown(q, mA, row) = <<texts, shown>> /\ Beside(q, mA, text) = <<text, values>>
      BY <2>1, <2>2 DEF n
    <2> HIDE DEF texts, shown, values
    <2>9. Shown(q, mA, row) = Beside(q, mA, text)
      BY <2>6, <2>7, <2>8
    <2> QED
      BY <2>9 DEF row
  <1> HIDE DEF h
  <1>13. {Shown(q, mA, row) : row \in {h[p] : p \in pairs}} = SideBySide(q, mA)
    BY <1>5, <1>12, ShownAreBeside
  <1> QED
    BY <1>2, <1>13 DEF mA, A

(* The one measure of compareFacts(), as asked and as it is aggregated.     *)
SameMeasure(R, N) ==
  /\ Len(R) = 1 /\ Len(N) = 1
  /\ N[1].measure = R[1].measure /\ N[1].aggregation = R[1].aggregation /\ N[1].alias = MeasureAlias
  /\ R = <<R[1]>> /\ N = <<N[1]>>

LEMMA MeasureIsSame ==
  ASSUME NEW q, NEW m, Len(q.aggregates) = 1
  PROVE  SameMeasure(ResolvedAggregates(q, m), ResolvedAggregates(SideRequest(MeasureRequest(q)), m))
  <1> DEFINE a == SideRequest(MeasureRequest(q))
             c == q.aggregates[1]
             one == [measure |-> c.measure, aggregation |-> c.aggregation, alias |-> MeasureAlias]
             Effective(x) == EffectiveAggregation(x.aggregation, m[x.measure])
             Of(x) == [measure |-> x.measure, aggregation |-> Effective(x),
                       alias |-> IF x.alias = Null THEN DefaultAlias(x.measure, Effective(x)) ELSE x.alias]
             R == ResolvedAggregates(q, m)
             N == ResolvedAggregates(a, m)
  <1>1. a.aggregates = <<one>>
    BY DEF SideRequest, MeasureRequest
  <1>2. R = [i \in 1..1 |-> Of(q.aggregates[i])]
    BY DEF ResolvedAggregates, Map
  <1>3. N = [i \in 1..1 |-> Of(a.aggregates[i])]
    <2>1. Len(a.aggregates) = 1
      BY <1>1
    <2> HIDE DEF a
    <2> QED
      BY <2>1 DEF ResolvedAggregates, Map
  <1>4. one.measure = c.measure /\ one.aggregation = c.aggregation /\ one.alias = MeasureAlias
    OBVIOUS
  <1>5. a.aggregates[1] = one
    BY <1>1
  <1> HIDE DEF one, a, c
  <1>6. \A x : /\ Of(x).measure = x.measure /\ Of(x).aggregation = Effective(x)
               /\ x.alias # Null => Of(x).alias = x.alias
    OBVIOUS
  <1>7. Effective(one) = Effective(c)
    BY <1>4
  <1> HIDE DEF Of, Effective
  <1>8. R[1] = Of(c) /\ N[1] = Of(one)
    BY <1>2, <1>3, <1>5 DEF c
  <1>9. /\ N[1].measure = R[1].measure /\ N[1].aggregation = R[1].aggregation /\ N[1].alias = MeasureAlias
    BY <1>4, <1>6, <1>7, <1>8, NameAssumption
  <1>10. /\ R = [i \in 1..1 |-> R[i]] /\ N = [i \in 1..1 |-> N[i]]
    BY <1>2, <1>3
  <1> HIDE DEF R, N
  <1>11. Len(R) = 1 /\ Len(N) = 1 /\ R = <<R[1]>> /\ N = <<N[1]>>
    BY <1>10
  <1> QED
    BY <1>9, <1>11 DEF SameMeasure, R, N, a

(* The measure of compareFacts() is not hidden by a key.                    *)
LEMMA MeasureIsApart ==
  ASSUME NEW q, NEW d, NEW a, Resolvable(a, d), IsKeyed(q), a.groupBy = q.groupBy,
         SameMeasure(ResolvedAggregates(q, d.metadata), ResolvedAggregates(a, d.metadata))
  PROVE  Apart(AggregateParams(a, d.metadata))
  <1> DEFINE params == AggregateParams(a, d.metadata)
             G == ResolvedGroups(a, d.metadata)
             N == ResolvedAggregates(a, d.metadata)
             F == ToSet(Map(params.groups, LAMBDA g : g.field))
             L == ToSet(LabelColumns(params.groups))
  <1>1. Groupable(params, d.rows) /\ params.groups = G /\ params.aggregates = N
    BY ResolvableIsGroupable
  <1>2. ASSUME NEW x \in ToSet(N) PROVE x = N[1] /\ x.alias = MeasureAlias
    <2> HIDE DEF N
    <2>1. DOMAIN N = {1}
      BY DEF SameMeasure, N
    <2> QED
      BY <2>1 DEF ToSet, SameMeasure, N
  <1>3. ASSUME NEW g \in ToSet(G) PROVE MeasureAlias \notin {g.field, LabelColumnOf(g.field)}
    <2>1. /\ G \in Seq(ToSet(G)) /\ Len(G) = Len(a.groupBy) /\ Len(a.groupBy) \in Nat
          /\ \A i \in 1..Len(a.groupBy) : a.groupBy[i] \in ToSet(a.groupBy) /\ G[i].field = a.groupBy[i].field
      BY ResolvedGroupsAre
    <2> HIDE DEF G
    <2>2. PICK i \in 1..Len(a.groupBy) : G[i] = g
      BY <2>1 DEF ToSet
    <2> QED
      BY <2>1, <2>2 DEF IsKeyed
  <1>4. MeasureAlias \notin F /\ MeasureAlias \notin L
    <2>1. /\ \A c \in F : \E g \in ToSet(params.groups) : g.field = c
          /\ \A c \in L : \E g \in ToSet(params.groups) : g.label # Null /\ LabelColumnOf(g.field) = c
      BY <1>1, OutputColumnsAre
    <2> QED
      BY <1>1, <1>3, <2>1
  <1> HIDE DEF params, N, F, L
  <1>5. ToSet(params.aggregates) = ToSet(N)
    BY <1>1
  <1> QED
    BY <1>2, <1>4, <1>5 DEF Apart, params, F, L

(* compareFacts() shows the keys of both datasets.                          *)
LEMMA KeyedIsBeside ==
  ASSUME NEW q \in Requests, q.kind = "compareFacts", Accepted(q)
  PROVE  {Shown(q, q.data.metadata, row) : row \in Whole(q).rows} = SideBySide(q, q.data.metadata)
  <1> DEFINE A == q.data
             B == q.other
             mA == A.metadata
             mB == B.metadata
             x == MeasureRequest(q)
             a == SideRequest(x)
             sideA == Side(x, A)
             sideB == Side(x, B)
             fields == GroupFields(q)
             n == Len(q.groupBy)
             R == ResolvedAggregates(q, mA)
             N == ResolvedAggregates(a, mA)
             M == ResolvedAggregates(a, mB)
             pairs == Joined(sideA, sideB, fields, FALSE)
             h == [p \in pairs |-> ComparisonRow(sideA, p[1], p[2], fields)]
             Value(y, d, text) == AggregateValue(y.aggregation, y.measure, PartOf(q, d, text))
  <1>1. /\ \A d \in {A, B} : Resolvable(a, d) /\ TextsTell(q.groupBy, d)
        /\ a.groupBy = q.groupBy /\ x.groupBy = q.groupBy /\ q.groupBy # <<>>
        /\ IsKeyed(q)
    BY KeyedComparisonResolves
  <1>2. Whole(q).rows = {h[p] : p \in pairs}
    <2> DEFINE keys == [i \in 1..Len(fields) |-> KeyColumn(i)]
               rows == {h[p] : p \in pairs}
    <2>1. Whole(q) = CompareFacts(q, A, B)
      BY DEF Whole, Result
    <2>2. CompareFacts(q, A, B) = [rows |-> {ComparisonRow(sideA, p[1], p[2], fields) : p \in pairs},
                                   sort |-> q.sort \o Asc(keys), total |-> Cardinality(pairs)]
      BY DEF CompareFacts
    <2>3. rows = {ComparisonRow(sideA, p[1], p[2], fields) : p \in pairs}
      OBVIOUS
    <2> HIDE DEF rows, pairs, keys
    <2>4. Whole(q).rows = rows
      BY <2>1, <2>2, <2>3
    <2> QED
      BY <2>4 DEF rows
  <1>3. /\ SameMeasure(R, N) /\ SameMeasure(ResolvedAggregates(q, mB), M)
    BY <1>1, MeasureIsSame DEF IsKeyed
  <1>4. N[1].aggregation = M[1].aggregation /\ N[1].measure = M[1].measure
    <2>1. ~CompareFactsRefused(q, mA, mB)
      BY MetadataIs DEF Accepted, ArgumentsRefused, Comparisons
    <2>2. R[1].aggregation = ResolvedAggregates(q, mB)[1].aggregation
      <3> HIDE DEF R
      <3>1. 1 \in 1..Len(R)
        BY <1>3 DEF SameMeasure
      <3> QED
        BY <2>1, <3>1 DEF CompareFactsRefused, SidesDiffer, R
    <2>3. R[1].measure = q.aggregates[1].measure /\ ResolvedAggregates(q, mB)[1].measure = q.aggregates[1].measure
      BY <1>1 DEF ResolvedAggregates, Map, IsKeyed
    <2> HIDE DEF R, N, M
    <2> QED
      BY <1>3, <2>2, <2>3 DEF SameMeasure
  <1>5. SideShows(sideA, q, A, N) /\ SideShows(sideB, q, B, M)
    <2>1. Apart(AggregateParams(a, mA)) /\ Apart(AggregateParams(a, mB))
      BY <1>1, <1>3, MeasureIsApart
    <2> QED
      BY <1>1, <2>1, SideIsShown
  <1>6. JoinShows(pairs, q, sideA, N, sideB, M)
    <2>1. q.groupBy \in Seq(ToSet(q.groupBy)) /\ (FALSE <=> q.kind # "compareFacts")
      BY <1>1 DEF Resolvable
    <2> QED
      BY <1>5, <2>1, JoinIsShown, Zenon
  <1>7. /\ fields \in Seq(ToSet(fields)) /\ Len(fields) = n /\ n \in Nat
        /\ \A i \in 1..n : fields[i] = q.groupBy[i].field
    <2>1. GroupFields(a) = fields
      BY <1>1 DEF GroupFields
    <2>2. fields \in Seq(ToSet(fields)) /\ Len(fields) = n /\ n \in Nat
      BY <1>1, <2>1, GroupFieldsAre
    <2> QED
      BY <2>2 DEF GroupFields, Map
  <1> HIDE DEF A, B, mA, mB, x, a, sideA, sideB, R, N, M, pairs, fields
  <1>8. ASSUME NEW p \in pairs, NEW text \in CommonGroups(q),
               PairShows(p, text, q, sideA, N, sideB, M)
        PROVE  Shown(q, mA, h[p]) = Beside(q, mA, text)
    <2> DEFINE row == ComparisonRow(sideA, p[1], p[2], fields)
               texts == [i \in 1..n |-> row[KeyColumn(i)]]
    <2>1. Shown(q, mA, row) = <<texts, <<<<row["valueA"], row["valueB"]>>>>>>
      <3> HIDE DEF row
      <3> QED
        BY DEF Shown
    <2>2. row["valueA"] = p[1][MeasureAlias] /\ row["valueB"] = p[2][MeasureAlias]
      BY DEF ComparisonRow, ComparisonFields
    <2>3. p[1][MeasureAlias] = Value(N[1], A, text) /\ p[2][MeasureAlias] = Value(M[1], B, text)
      <3>1. 1 \in 1..Len(N) /\ 1 \in 1..Len(M) /\ N[1].alias = MeasureAlias /\ M[1].alias = MeasureAlias
        BY <1>3 DEF SameMeasure, R
      <3> QED
        BY <1>8, <3>1 DEF PairShows, Stands, A, B
    <2>4. Value(N[1], A, text) = Value(R[1], A, text) /\ Value(M[1], B, text) = Value(R[1], B, text)
      BY <1>3, <1>4 DEF SameMeasure
    <2>5. Beside(q, mA, text) = <<text, <<<<Value(R[1], A, text), Value(R[1], B, text)>>>>>>
      <3>1. Beside(q, mA, text) = <<text, [i \in 1..Len(R) |-> <<Value(R[i], A, text), Value(R[i], B, text)>>]>>
        BY DEF Beside, Map, R, A, B
      <3> HIDE DEF Value
      <3>2. Len(R) = 1
        BY <1>3 DEF SameMeasure
      <3>3. [i \in 1..1 |-> <<Value(R[i], A, text), Value(R[i], B, text)>>]
            = <<<<Value(R[1], A, text), Value(R[1], B, text)>>>>
        OBVIOUS
      <3> QED
        BY <3>1, <3>2, <3>3
    <2>6. ASSUME NEW i \in 1..n PROVE row[KeyColumn(i)] = text[i]
      <3>1. row[KeyColumn(i)] = TextOf(sideA, p[1], fields[i])
        <4> DEFINE Place(c) == CHOOSE j \in 1..Len(fields) : KeyColumn(j) = c
        <4>1. KeyColumn(i) \notin ComparisonFields /\ \A j \in 1..n : KeyColumn(j) = KeyColumn(i) => j = i
          BY <1>1 DEF IsKeyed
        <4>2. Place(KeyColumn(i)) = i
          BY <1>7, <4>1
        <4>3. KeyColumn(i) \in {KeyColumn(j) : j \in 1..Len(fields)}
          BY <1>7
        <4>4. row[KeyColumn(i)] = TextOf(sideA, p[1], fields[Place(KeyColumn(i))])
          BY <4>1, <4>3 DEF ComparisonRow
        <4> QED
          BY <4>2, <4>4
      <3>2. TextOf(sideA, p[1], q.groupBy[i].field) = text[i]
        BY <1>8 DEF PairShows, Stands
      <3> HIDE DEF row
      <3> QED
        BY <1>7, <3>1, <3>2
    <2>7. text = [i \in 1..n |-> text[i]]
      BY DEF CommonGroups, GroupText, Map
    <2>8. h[p] = row
      OBVIOUS
    <2> HIDE DEF row, Value, n, h
    <2>9. texts = text
      BY <2>6, <2>7
    <2> HIDE DEF texts
    <2> QED
      BY <2>1, <2>2, <2>3, <2>4, <2>5, <2>8, <2>9
  <1> HIDE DEF h
  <1>9. {Shown(q, mA, row) : row \in {h[p] : p \in pairs}} = SideBySide(q, mA)
    BY <1>6, <1>8, ShownAreBeside
  <1> QED
    BY <1>2, <1>9 DEF mA, A

(* Both sides of a comparison aggregate in the same way.                    *)
LEMMA SidesAgree ==
  ASSUME NEW q \in Requests, q.kind \in Comparisons, Accepted(q)
  PROVE  \A i \in 1..Len(q.aggregates) :
           ResolvedAggregates(q, q.data.metadata)[i].aggregation
           = ResolvedAggregates(q, q.other.metadata)[i].aggregation
  <1> DEFINE mA == q.data.metadata
             mB == q.other.metadata
             R == ResolvedAggregates(q, mA)
  <1>1. Len(R) = Len(q.aggregates)
    <2>1. q.aggregates \in Seq(ToSet(q.aggregates))
      BY QueryAssumption DEF Paged, Comparisons
    <2> QED
      BY <2>1 DEF ResolvedAggregates, Map
  <1>2. \/ q.kind = "compareAggregatedFacts" /\ ~ComparisonRefused(q, mA, mB)
        \/ q.kind = "compareFacts" /\ ~CompareFactsRefused(q, mA, mB)
    BY MetadataIs DEF Accepted, ArgumentsRefused, Comparisons
  <1> HIDE DEF R
  <1>3. \A i \in 1..Len(R) : R[i].aggregation = ResolvedAggregates(q, mB)[i].aggregation
    BY <1>2 DEF ComparisonRefused, CompareFactsRefused, SidesDiffer, R
  <1> QED
    BY <1>1, <1>3 DEF R

LEMMA AnswerIsCompared ==
  ASSUME QueryInv, pc = "done", request.kind \in Comparisons
  PROVE  ComparedLikeWithLike
  <1> DEFINE q == request
             m == q.data.metadata
             rows == Whole(q).rows
             k == Len(received)
  <1>1. /\ q \in Requests /\ columns = AllMetadata(q) /\ where = FilterOf(q, columns)
        /\ Accepted(q) /\ Concerned(q)
    BY DEF QueryInv, Resolved, Examined, Accepted, Concerned, Clustered, Paged, Comparisons
  <1>2. columns[1] = m /\ columns[2] = q.other.metadata
    BY <1>1, MetadataIs DEF Comparisons
  <1>3. {received[i] : i \in 1..k} = rows
    <2>1. EveryRowOnce
      BY <1>1, ReceivedIsWhole
    <2>2. ~Long(q)
      BY DEF Long, Comparisons
    <2>3. ResultRows(q, columns, where) = rows
      BY <1>1, <2>2 DEF ResultRows, Whole
    <2>4. \A i \in 1..k : Identified(q, received[i]) = received[i]
      BY <2>2 DEF Identified
    <2>5. {Identified(q, received[i]) : i \in 1..k} = rows
      BY <2>1, <2>3 DEF EveryRowOnce
    <2> HIDE DEF rows, k
    <2> QED
      BY <2>4, <2>5
  <1>4. ASSUME q.groupBy # <<>>
        PROVE  {Shown(q, m, received[i]) : i \in 1..k} = SideBySide(q, m)
    <2>1. {Shown(q, m, row) : row \in rows} = SideBySide(q, m)
      BY <1>1, <1>4, AggregatedIsBeside, KeyedIsBeside DEF Comparisons
    <2> HIDE DEF rows, k
    <2>2. {Shown(q, m, received[i]) : i \in 1..k} = {Shown(q, m, row) : row \in rows}
      BY <1>3
    <2> QED
      BY <2>1, <2>2
  <1>5. \A i \in 1..Len(q.aggregates) :
          ResolvedAggregates(q, columns[1])[i].aggregation = ResolvedAggregates(q, columns[2])[i].aggregation
    BY <1>1, <1>2, SidesAgree
  <1> QED
    BY <1>2, <1>4, <1>5 DEF ComparedLikeWithLike

(* cross-database.ts: whatever the two datasets, their NULLs and labels, a  *)
(* comparison has a row for each group that both have, NULL matching NULL   *)
(* where groups are compared and nothing where keys are, and sets the same  *)
(* aggregate of the same facts side by side.                                *)
THEOREM ComparisonsCompare == Spec => []ComparedLikeWithLike
  <1>1. QueryInv => ComparedLikeWithLike
    BY AnswerIsCompared DEF ComparedLikeWithLike
  <1> QED
    BY <1>1, QueryStarts, QueryIsInductive, PTL DEF Spec

=============================================================================
