-------------------------- MODULE RequestBudgetsProofs --------------------------
(***************************************************************************)
(* What RequestBudgets promises, for every limit, window and budget.       *)
(***************************************************************************)
EXTENDS RequestBudgets, FiniteSetTheorems, SequenceTheorems, WellFoundedInduction, TLAPS

(* A set of naturals has a least one: no finite set descends for ever.      *)
LEMMA LeastNatural ==
  ASSUME NEW K, K \subseteq Nat, NEW k0 \in K
  PROVE  \E k \in K : \A j \in K : k <= j
  <1> DEFINE L == {1..k : k \in {i \in K : i <= k0}}
  <1>1. IsFiniteSet(1..k0)
    BY FS_Interval
  <1>2. IsWellFoundedOn(StrictSubsetOrdering(1..k0), SUBSET (1..k0))
    BY <1>1, FS_StrictSubsetOrderingWellFounded, FS_FiniteSubsetsOfFinite
  <1>3. L \subseteq SUBSET (1..k0)
    OBVIOUS
  <1>4. 1..k0 \in L
    OBVIOUS
  <1>5. PICK x \in L : \A y \in L : ~(<<y, x>> \in StrictSubsetOrdering(1..k0))
    <2> HIDE DEF L
    <2> QED
      BY <1>2, <1>3, <1>4, WFMin
  <1>6. PICK k \in K : k <= k0 /\ x = 1..k
    OBVIOUS
  <1>7. ASSUME NEW j \in K, j < k PROVE FALSE
    <2>1. 1..j \in L
      BY <1>6, <1>7
    <2>2. ~(<<1..j, 1..k>> \in StrictSubsetOrdering(1..k0))
      BY <2>1, <1>5, <1>6
    <2>3. 1..j \subseteq 1..k0 /\ 1..k \subseteq 1..k0 /\ 1..j \subseteq 1..k
      BY <1>6, <1>7
    <2>4. k \in 1..k /\ k \notin 1..j
      BY <1>6, <1>7
    <2> QED
      BY <2>2, <2>3, <2>4 DEF StrictSubsetOrdering
  <1> QED
    BY <1>7

-----------------------------------------------------------------------------
(* The limiter: a client's grants g beside its entry e, at the instant t.   *)

(* The grants are in the order of time, never more than MaxBurst at once.   *)
Grants(t, g) ==
  /\ \A i \in 1..Len(g) : g[i] <= t
  /\ \A i, j \in 1..Len(g) : i <= j => g[i] <= g[j]
  /\ \A i \in 1..Len(g) - MaxBurst : g[i] < g[i + MaxBurst]

(* The requests rs of its entry are the last grants; the others have        *)
(* expired.                                                                 *)
KeptWith(t, g, rs) ==
  /\ Len(rs) <= Len(g)
  /\ \A i \in 1..Len(rs) : rs[i] = g[Len(g) - Len(rs) + i]
  /\ \A i \in 1..Len(g) - Len(rs) : t - g[i] >= Window

(* Its burst b counts the grants since the reset r; those before are before *)
(* the reset, and but for MaxBurst of them, by more than a window.          *)
BurstWith(g, b, r) ==
  /\ b <= Len(g)
  /\ \A i \in 1..Len(g) - b : g[i] < r
  /\ \A i \in Len(g) - b + 1..Len(g) : g[i] >= r /\ g[i] - r <= BurstWindow
  /\ \A i \in 1..Len(g) - b - MaxBurst : r - g[i] > BurstWindow

(* Without an entry, no grant counts any more.                              *)
Forgotten(t, g) ==
  /\ \A i \in 1..Len(g) : t - g[i] >= Window
  /\ \A i \in 1..Len(g) - MaxBurst : t - g[i] > BurstWindow

(* Who was told to wait until n has waited for both limits of its entry.    *)
ToldEnough(n, rs, b, r) ==
  /\ Len(rs) >= MaxRequests => n >= rs[1] + Window
  /\ b >= MaxBurst => n >= r + BurstWindow

(* The two limits, of the grants of one client.                             *)
Sustained(g) == \A i \in 1..Len(g) - MaxRequests : g[i + MaxRequests] - g[i] >= Window
Bursts(g) == \A i \in 1..Len(g) - 2 * MaxBurst : g[i + 2 * MaxBurst] - g[i] > BurstWindow

LimitsInv ==
  /\ Limits!TypeOK
  /\ \A c \in Callers : Grants(now, granted[c]) /\ Sustained(granted[c]) /\ Bursts(granted[c])
  /\ \A c \in DOMAIN store :
       /\ KeptWith(now, granted[c], store[c].requests)
       /\ BurstWith(granted[c], store[c].burst, store[c].reset)
       /\ told[c] # -1 => ToldEnough(told[c], store[c].requests, store[c].burst, store[c].reset)
  /\ \A c \in Callers \ DOMAIN store : Forgotten(now, granted[c])

-----------------------------------------------------------------------------
(* The numbers of the configuration.                                        *)
LEMMA Numbers ==
  /\ MaxRequests \in Nat \ {0} /\ MaxBurst \in Nat \ {0} /\ MaxTime \in Nat
  /\ Window \in Nat \ {0} /\ BurstWindow \in Nat \ {0} /\ Window >= BurstWindow
  BY WindowAssumption DEF Limits!LimiterAssumption

(* RateLimiter counts with the FiniteSets of its instance.                  *)
LEMMA SameCardinality == \A S : Limits!Cardinality(S) = Cardinality(S)
  BY DEF Limits!Cardinality, Cardinality

(* The filter drops the first requests, those that have expired.            *)
LEMMA RecentIsTheEnd ==
  ASSUME NEW s \in Seq(Nat), now \in Nat,
         \A i, j \in 1..Len(s) : i <= j => s[i] <= s[j]
  PROVE  \E k \in 0..Len(s) :
           /\ Limits!Recent(s) = SubSeq(s, k + 1, Len(s))
           /\ \A i \in 1..k : now - s[i] >= Window
           /\ \A i \in k + 1..Len(s) : now - s[i] < Window
  <1> DEFINE expired == {i \in 1..Len(s) : now - s[i] >= Window}
             kept == {i \in 1..Len(s) : now - s[i] < Window}
  <1>1. Len(s) \in Nat /\ \A i \in 1..Len(s) : s[i] \in Nat
    BY LenProperties
  <1>2. PICK k \in 0..Len(s) : expired = 1..k
    <2>1. CASE kept = {}
      <3>1. expired = 1..Len(s)
        BY <1>1, <2>1, Numbers
      <3> QED
        BY <1>1, <3>1
    <2>2. CASE kept # {}
      <3>1. kept \subseteq Nat
        BY <1>1
      <3>2. PICK k0 \in kept : TRUE
        BY <2>2
      <3>3. PICK k \in kept : \A j \in kept : k <= j
        <4> HIDE DEF kept
        <4> QED
          BY <3>1, <3>2, LeastNatural
      <3>4. k \in 1..Len(s) /\ now - s[k] < Window
        OBVIOUS
      <3>5. ASSUME NEW i \in 1..k - 1 PROVE i \in 1..Len(s) /\ now - s[i] >= Window
        <4>1. i \in 1..Len(s) /\ i \notin kept
          BY <1>1, <3>3, <3>4
        <4> QED
          BY <1>1, <4>1, Numbers
      <3>6. ASSUME NEW i \in 1..Len(s), now - s[i] >= Window PROVE i \in 1..k - 1
        <4>1. CASE k <= i
          <5>1. s[k] <= s[i]
            BY <3>4, <4>1
          <5> QED
            BY <1>1, <3>4, <3>6, <5>1, Numbers
        <4> QED
          BY <1>1, <3>4, <4>1
      <3>7. expired = 1..k - 1
        BY <3>5, <3>6
      <3>8. k - 1 \in 0..Len(s)
        BY <1>1, <3>4
      <3> QED
        <4> HIDE DEF expired, kept
        <4> QED
          BY <3>7, <3>8
    <2> QED
      BY <2>1, <2>2
  <1>3. Cardinality(1..k) = k
    BY <1>1, <1>2, FS_Interval
  <1>4. Limits!Recent(s) = SubSeq(s, k + 1, Len(s))
    <2>1. Limits!Recent(s) = SubSeq(s, Cardinality(expired) + 1, Len(s))
      BY SameCardinality DEF Limits!Recent
    <2>2. Cardinality(expired) = k
      BY <1>2, <1>3, Zenon
    <2> QED
      BY <2>1, <2>2
  <1>5. \A i \in 1..k : now - s[i] >= Window
    BY <1>2
  <1>6. \A i \in k + 1..Len(s) : now - s[i] < Window
    <2> SUFFICES ASSUME NEW i \in k + 1..Len(s) PROVE now - s[i] < Window
      OBVIOUS
    <2>0. i \in 1..Len(s) /\ i \notin 1..k
      BY <1>1
    <2>1. i \in 1..Len(s) /\ i \notin expired
      BY <1>2, <2>0, Zenon
    <2>2. s[i] \in Nat /\ ~(now - s[i] >= Window)
      BY <1>1, <2>1
    <2> QED
      BY <2>2, Numbers
  <1> QED
    BY <1>4, <1>5, <1>6

(* Dropping expired requests keeps the entry beside its grants.             *)
LEMMA FilterKeeps ==
  ASSUME NEW t \in Nat, NEW g \in Seq(Nat), NEW rs \in Seq(Nat), KeptWith(t, g, rs),
         NEW k \in 0..Len(rs), \A i \in 1..k : t - rs[i] >= Window
  PROVE  KeptWith(t, g, SubSeq(rs, k + 1, Len(rs)))
  <1> DEFINE m == Len(rs)
             n == Len(g)
             end == SubSeq(rs, k + 1, m)
  <1>1. /\ m \in Nat /\ n \in Nat /\ k \in Nat /\ k <= m /\ m <= n
        /\ \A i \in 1..m : rs[i] \in Nat
        /\ \A i \in 1..n : g[i] \in Nat
    BY LenProperties DEF KeptWith
  <1>2. Len(end) = m - k /\ \A i \in 1..m - k : end[i] = rs[k + i]
    BY <1>1, SubSeqProperties
  <1>3. \A i \in 1..m - k : end[i] = g[n - (m - k) + i]
    <2> SUFFICES ASSUME NEW i \in 1..m - k PROVE end[i] = g[n - (m - k) + i]
      OBVIOUS
    <2>1. k + i \in 1..m /\ n - m + (k + i) = n - (m - k) + i
      BY <1>1
    <2> QED
      BY <1>2, <2>1 DEF KeptWith
  <1>4. \A i \in 1..n - (m - k) : t - g[i] >= Window
    <2> SUFFICES ASSUME NEW i \in 1..n - (m - k) PROVE t - g[i] >= Window
      OBVIOUS
    <2>1. CASE i <= n - m
      BY <1>1, <2>1 DEF KeptWith
    <2>2. CASE i > n - m
      <3>1. i - (n - m) \in 1..k /\ i - (n - m) \in 1..m /\ n - m + (i - (n - m)) = i
        BY <1>1, <2>2
      <3>2. rs[i - (n - m)] = g[i]
        BY <3>1 DEF KeptWith
      <3> QED
        BY <3>1, <3>2
    <2> QED
      BY <1>1, <2>1, <2>2
  <1>5. m - k <= n
    BY <1>1
  <1> HIDE DEF m, n, end
  <1>6. KeptWith(t, g, end) <=>
          /\ Len(end) <= n
          /\ \A i \in 1..Len(end) : end[i] = g[n - Len(end) + i]
          /\ \A i \in 1..n - Len(end) : t - g[i] >= Window
    BY DEF KeptWith, n
  <1> QED
    BY <1>2, <1>3, <1>4, <1>5, <1>6 DEF end, m

(* A burst window that is over restarts at t.                               *)
LEMMA ResetKeeps ==
  ASSUME NEW t \in Nat, NEW g \in Seq(Nat), NEW b \in 0..MaxBurst, NEW r \in Nat,
         BurstWith(g, b, r), t - r > BurstWindow
  PROVE  BurstWith(g, 0, t)
  <1> DEFINE n == Len(g)
  <1>1. n \in Nat /\ \A i \in 1..n : g[i] \in Nat
    BY LenProperties
  <1>2. ASSUME NEW i \in 1..n PROVE g[i] < t
    <2>1. b \in Nat /\ b <= n
      BY Numbers DEF BurstWith
    <2>2. i \in 1..n - b \/ i \in n - b + 1..n
      BY <1>1, <2>1
    <2>3. g[i] < r \/ g[i] - r <= BurstWindow
      BY <2>2 DEF BurstWith
    <2> QED
      BY <1>1, <2>3, Numbers
  <1>3. \A i \in 1..n - MaxBurst : t - g[i] > BurstWindow
    <2> SUFFICES ASSUME NEW i \in 1..n - MaxBurst PROVE t - g[i] > BurstWindow
      OBVIOUS
    <2>1. i \in 1..n - b /\ i \in 1..n
      BY <1>1, Numbers
    <2>2. g[i] < r
      BY <2>1 DEF BurstWith
    <2> QED
      BY <1>1, <2>1, <2>2, Numbers
  <1>4. /\ n - 0 = n /\ n - 0 - MaxBurst = n - MaxBurst /\ 0 <= n
        /\ \A i \in n - 0 + 1..n : FALSE
    BY <1>1, Numbers
  <1> QED
    BY <1>2, <1>3, <1>4 DEF BurstWith

(* The entry of a client that had none.                                     *)
LEMMA NewEntry ==
  ASSUME NEW t \in Nat, NEW g \in Seq(Nat), Forgotten(t, g)
  PROVE  KeptWith(t, g, <<>>) /\ BurstWith(g, 0, t)
  <1>1. Len(g) \in Nat /\ \A i \in 1..Len(g) : g[i] \in Nat
    BY LenProperties
  <1>2. Len(<<>>) = 0
    OBVIOUS
  <1>3. KeptWith(t, g, <<>>)
    BY <1>1, <1>2 DEF KeptWith, Forgotten
  <1>4. BurstWith(g, 0, t)
    BY <1>1, Numbers DEF BurstWith, Forgotten
  <1> QED
    BY <1>3, <1>4

(* An entry whose requests have all expired may be forgotten.               *)
LEMMA Forgetting ==
  ASSUME NEW t \in Nat, NEW g \in Seq(Nat), NEW rs \in Seq(Nat),
         NEW b \in 0..MaxBurst, NEW r \in 0..t,
         Grants(t, g), KeptWith(t, g, rs), BurstWith(g, b, r),
         \A i \in 1..Len(rs) : t - rs[i] > Window
  PROVE  Forgotten(t, g)
  <1> DEFINE n == Len(g)
  <1>1. /\ n \in Nat /\ Len(rs) \in Nat /\ Len(rs) <= n /\ b <= n
        /\ \A i \in 1..n : g[i] \in Nat
    BY LenProperties DEF KeptWith, BurstWith
  <1>2. ASSUME NEW i \in 1..n PROVE t - g[i] >= Window
    <2>1. CASE i <= n - Len(rs)
      BY <1>1, <2>1 DEF KeptWith
    <2>2. CASE i > n - Len(rs)
      <3>1. i - (n - Len(rs)) \in 1..Len(rs) /\ n - Len(rs) + (i - (n - Len(rs))) = i
        BY <1>1, <2>2
      <3>2. rs[i - (n - Len(rs))] = g[i]
        BY <3>1 DEF KeptWith
      <3>3. t - g[i] > Window
        BY <3>1, <3>2
      <3> QED
        BY <1>1, <1>2, <3>3, Numbers
    <2> QED
      BY <1>1, <2>1, <2>2
  <1>3. ASSUME NEW i \in 1..n - MaxBurst PROVE t - g[i] > BurstWindow
    <2>1. CASE b = 0
      <3>1. i \in 1..n - b - MaxBurst /\ i \in 1..n
        BY <1>1, <2>1, Numbers
      <3>2. r - g[i] > BurstWindow
        BY <3>1 DEF BurstWith
      <3> QED
        BY <1>1, <3>1, <3>2, Numbers
    <2>2. CASE b # 0
      <3>1. i \in 1..n /\ i + MaxBurst \in 1..n
        BY <1>1, Numbers
      <3>2. g[i] < g[i + MaxBurst]
        BY DEF Grants
      <3>3. t - g[i + MaxBurst] >= Window
        BY <1>2, <3>1
      <3>4. /\ g[i] \in Nat /\ g[i + MaxBurst] \in Nat /\ Window >= BurstWindow
            /\ Window \in Nat /\ BurstWindow \in Nat
        BY <1>1, <3>1, Numbers
      <3> QED
        BY <3>2, <3>3, <3>4
    <2> QED
      BY <2>1, <2>2
  <1> QED
    BY <1>2, <1>3 DEF Forgotten

(* A check that lets a request through, on an entry that is over no limit.  *)
LEMMA Granting ==
  ASSUME NEW t \in Nat, NEW g \in Seq(Nat), NEW rs \in Seq(Nat),
         NEW b \in Nat, NEW r \in 0..t,
         Grants(t, g), Sustained(g), Bursts(g), KeptWith(t, g, rs), BurstWith(g, b, r),
         Len(rs) < MaxRequests, b < MaxBurst, t - r <= BurstWindow
  PROVE  /\ Grants(t, Append(g, t)) /\ Sustained(Append(g, t)) /\ Bursts(Append(g, t))
         /\ KeptWith(t, Append(g, t), Append(rs, t))
         /\ BurstWith(Append(g, t), b + 1, r)
  <1> DEFINE n == Len(g)
             m == Len(rs)
             h == Append(g, t)
             qs == Append(rs, t)
  <1>1. /\ n \in Nat /\ m \in Nat /\ m <= n /\ b <= n
        /\ \A i \in 1..n : g[i] \in Nat
    BY LenProperties DEF KeptWith, BurstWith
  <1>2. /\ Len(h) = n + 1 /\ h[n + 1] = t
        /\ \A i \in 1..n : h[i] = g[i]
    BY AppendProperties
  <1>3. /\ Len(qs) = m + 1 /\ qs[m + 1] = t
        /\ \A i \in 1..m : qs[i] = rs[i]
    BY AppendProperties
  <1>4. /\ \A i \in 1..n : g[i] <= t
        /\ \A i, j \in 1..n : i <= j => g[i] <= g[j]
        /\ \A i \in 1..n - MaxBurst : g[i] < g[i + MaxBurst]
    BY DEF Grants
  <1>5. /\ \A i \in 1..m : rs[i] = g[n - m + i]
        /\ \A i \in 1..n - m : t - g[i] >= Window
    BY DEF KeptWith
  <1>6. /\ \A i \in 1..n - b : g[i] < r
        /\ \A i \in n - b + 1..n : g[i] >= r /\ g[i] - r <= BurstWindow
        /\ \A i \in 1..n - b - MaxBurst : r - g[i] > BurstWindow
    BY DEF BurstWith
  <1> HIDE DEF n, m, h, qs
  <1>7. Grants(t, h)
    <2>1. ASSUME NEW i \in 1..Len(h) PROVE h[i] <= t
      <3>1. i = n + 1 \/ i \in 1..n
        BY <1>1, <1>2
      <3> QED
        BY <1>2, <1>4, <3>1
    <2>2. ASSUME NEW i \in 1..Len(h), NEW j \in 1..Len(h), i <= j PROVE h[i] <= h[j]
      <3>1. CASE j = n + 1
        BY <2>1, <3>1, <1>2
      <3>2. CASE j # n + 1
        <4>1. i \in 1..n /\ j \in 1..n
          BY <1>1, <1>2, <2>2, <3>2
        <4> QED
          BY <4>1, <1>2, <1>4, <2>2
      <3> QED
        BY <3>1, <3>2
    <2>3. ASSUME NEW i \in 1..Len(h) - MaxBurst PROVE h[i] < h[i + MaxBurst]
      <3>1. CASE i = n + 1 - MaxBurst
        <4>1. i \in 1..n - b /\ i \in 1..n /\ i + MaxBurst = n + 1
          BY <1>1, <1>2, <3>1, Numbers
        <4>2. g[i] < r
          BY <4>1, <1>6
        <4> QED
          BY <1>1, <1>2, <4>1, <4>2
      <3>2. CASE i # n + 1 - MaxBurst
        <4>1. i \in 1..n - MaxBurst /\ i \in 1..n /\ i + MaxBurst \in 1..n
          BY <1>1, <1>2, <3>2, Numbers
        <4> QED
          BY <1>2, <1>4, <4>1
      <3> QED
        BY <3>1, <3>2
    <2> QED
      BY <2>1, <2>2, <2>3 DEF Grants
  <1>8. Sustained(h)
    <2> SUFFICES ASSUME NEW i \in 1..Len(h) - MaxRequests
                 PROVE  h[i + MaxRequests] - h[i] >= Window
      BY DEF Sustained
    <2>1. CASE i = n + 1 - MaxRequests
      <3>1. i \in 1..n - m /\ i \in 1..n /\ i + MaxRequests = n + 1
        BY <1>1, <1>2, <2>1, Numbers DEF m
      <3>2. t - g[i] >= Window
        BY <3>1, <1>5
      <3> QED
        BY <1>2, <3>1, <3>2
    <2>2. CASE i # n + 1 - MaxRequests
      <3>1. i \in 1..n - MaxRequests /\ i \in 1..n /\ i + MaxRequests \in 1..n
        BY <1>1, <1>2, <2>2, Numbers
      <3>2. g[i + MaxRequests] - g[i] >= Window
        BY <3>1 DEF Sustained, n
      <3> QED
        BY <1>2, <3>1, <3>2
    <2> QED
      BY <2>1, <2>2
  <1>9. Bursts(h)
    <2> SUFFICES ASSUME NEW i \in 1..Len(h) - 2 * MaxBurst
                 PROVE  h[i + 2 * MaxBurst] - h[i] > BurstWindow
      BY DEF Bursts
    <2>1. CASE i = n + 1 - 2 * MaxBurst
      <3>1. i \in 1..n - b - MaxBurst /\ i \in 1..n /\ i + 2 * MaxBurst = n + 1
        BY <1>1, <1>2, <2>1, Numbers
      <3>2. r - g[i] > BurstWindow
        BY <3>1, <1>6
      <3>3. t - g[i] > BurstWindow
        BY <1>1, <3>1, <3>2, Numbers
      <3> QED
        BY <1>2, <3>1, <3>3
    <2>2. CASE i # n + 1 - 2 * MaxBurst
      <3>1. i \in 1..n - 2 * MaxBurst /\ i \in 1..n /\ i + 2 * MaxBurst \in 1..n
        BY <1>1, <1>2, <2>2, Numbers
      <3>2. g[i + 2 * MaxBurst] - g[i] > BurstWindow
        BY <3>1 DEF Bursts, n
      <3> QED
        BY <1>2, <3>1, <3>2
    <2> QED
      BY <2>1, <2>2
  <1>10. KeptWith(t, h, qs)
    <2>1. Len(h) - Len(qs) = n - m /\ Len(qs) <= Len(h)
      BY <1>1, <1>2, <1>3
    <2>2. ASSUME NEW i \in 1..m + 1 PROVE qs[i] = h[n - m + i]
      <3>1. CASE i = m + 1
        BY <1>1, <1>2, <1>3, <3>1
      <3>2. CASE i # m + 1
        <4>1. i \in 1..m /\ n - m + i \in 1..n
          BY <1>1, <3>2
        <4> QED
          BY <1>2, <1>3, <1>5, <4>1
      <3> QED
        BY <3>1, <3>2
    <2>3. ASSUME NEW i \in 1..n - m PROVE t - h[i] >= Window
      <3>1. i \in 1..n
        BY <1>1
      <3> QED
        BY <1>2, <1>5, <3>1
    <2> QED
      BY <1>3, <2>1, <2>2, <2>3 DEF KeptWith
  <1>11. BurstWith(h, b + 1, r)
    <2>1. n + 1 - (b + 1) = n - b /\ b + 1 <= n + 1
      BY <1>1
    <2>2. ASSUME NEW i \in 1..n - b PROVE h[i] < r
      <3>1. i \in 1..n
        BY <1>1
      <3> QED
        BY <1>2, <1>6, <3>1
    <2>3. ASSUME NEW i \in n - b + 1..n + 1 PROVE h[i] >= r /\ h[i] - r <= BurstWindow
      <3>1. CASE i = n + 1
        BY <1>2, <3>1
      <3>2. CASE i # n + 1
        <4>1. i \in n - b + 1..n /\ i \in 1..n
          BY <1>1, <3>2
        <4> QED
          BY <1>2, <1>6, <4>1
      <3> QED
        BY <3>1, <3>2
    <2>4. ASSUME NEW i \in 1..n - b - MaxBurst PROVE r - h[i] > BurstWindow
      <3>1. i \in 1..n
        BY <1>1, Numbers
      <3> QED
        BY <1>2, <1>6, <3>1
    <2>5. Len(h) - (b + 1) = n - b /\ Len(h) = n + 1
      BY <1>1, <1>2, <2>1
    <2> QED
      BY <2>1, <2>2, <2>3, <2>4, <2>5 DEF BurstWith
  <1> QED
    BY <1>7, <1>8, <1>9, <1>10, <1>11 DEF h, qs

(* Time goes on.                                                            *)
LEMMA Later ==
  ASSUME NEW t \in Nat, NEW g \in Seq(Nat), NEW rs
  PROVE  /\ Grants(t, g) => Grants(t + 1, g)
         /\ KeptWith(t, g, rs) /\ Len(rs) \in Nat => KeptWith(t + 1, g, rs)
         /\ Forgotten(t, g) => Forgotten(t + 1, g)
  <1>1. Len(g) \in Nat /\ \A i \in 1..Len(g) : g[i] \in Nat
    BY LenProperties
  <1>2. ASSUME NEW i \in 1..Len(g)
        PROVE  /\ g[i] <= t => g[i] <= t + 1
               /\ t - g[i] >= Window => t + 1 - g[i] >= Window
               /\ t - g[i] > BurstWindow => t + 1 - g[i] > BurstWindow
    BY <1>1, Numbers
  <1>3. Grants(t, g) => Grants(t + 1, g)
    BY <1>2 DEF Grants
  <1>4. ASSUME KeptWith(t, g, rs), Len(rs) \in Nat PROVE KeptWith(t + 1, g, rs)
    <2>1. 1..Len(g) - Len(rs) \subseteq 1..Len(g)
      BY <1>1, <1>4
    <2> QED
      BY <1>2, <1>4, <2>1 DEF KeptWith
  <1>5. ASSUME Forgotten(t, g) PROVE Forgotten(t + 1, g)
    <2>1. 1..Len(g) - MaxBurst \subseteq 1..Len(g)
      BY <1>1, Numbers
    <2> QED
      BY <1>2, <1>5, <2>1 DEF Forgotten
  <1> QED
    BY <1>3, <1>4, <1>5

-----------------------------------------------------------------------------
(* The steps of the limiter.                                                *)

(* What holds of an entry as a check at this instant sees it.               *)
Fresh(c, e) ==
  /\ e \in [requests : Seq(Limits!Times), burst : 0..MaxBurst, reset : 0..now]
  /\ Len(e.requests) <= MaxRequests
  /\ KeptWith(now, granted[c], e.requests)
  /\ BurstWith(granted[c], e.burst, e.reset)
  /\ now - e.reset <= BurstWindow

(* The numbers that LimitsInv is about.                                     *)
LEMMA Typed ==
  ASSUME LimitsInv, NEW c \in Callers
  PROVE  /\ now \in Nat /\ now \in Limits!Times /\ Limits!Times \subseteq Nat
         /\ granted[c] \in Seq(Nat) /\ granted[c] \in Seq(Limits!Times)
         /\ told[c] \in Int
         /\ c \in DOMAIN store =>
              /\ store[c] \in [requests : Seq(Limits!Times), burst : 0..MaxBurst, reset : 0..now]
              /\ store[c].requests \in Seq(Nat)
  <1>1. Limits!Times \subseteq Nat
    BY Numbers DEF Limits!Times
  <1>2. \A s \in Seq(Limits!Times) : s \in Seq(Nat)
    BY <1>1, SeqMonotonic
  <1>3. now \in Limits!Times /\ granted[c] \in Seq(Limits!Times) /\ told[c] \in Int
    BY DEF LimitsInv, Limits!TypeOK
  <1>4. c \in DOMAIN store =>
          store[c] \in [requests : Seq(Limits!Times), burst : 0..MaxBurst, reset : 0..now]
    BY DEF LimitsInv, Limits!TypeOK
  <1> QED
    BY <1>1, <1>2, <1>3, <1>4

(* What checkLimit works with: the entry filtered, its burst counter reset  *)
(* if its window is over.                                                   *)
LEMMA CurrentIsFresh ==
  ASSUME LimitsInv, NEW c \in Callers
  PROVE  /\ Fresh(c, Limits!Current(c))
         /\ c \in DOMAIN store =>
              \/ Limits!Current(c).burst = store[c].burst /\ Limits!Current(c).reset = store[c].reset
              \/ Limits!Current(c).burst = 0 /\ now - store[c].reset > BurstWindow
         /\ c \notin DOMAIN store =>
              Limits!Current(c).burst = 0 /\ Len(Limits!Current(c).requests) = 0
         /\ \A i \in 1..Len(Limits!Current(c).requests) :
              now - Limits!Current(c).requests[i] < Window
         /\ c \in DOMAIN store /\ Len(Limits!Current(c).requests) >= Len(store[c].requests) =>
              Limits!Current(c).requests = store[c].requests
  <1> DEFINE e == Limits!Entry(c)
             f == [e EXCEPT !.requests = Limits!Recent(@)]
  <1>1. /\ e \in [requests : Seq(Limits!Times), burst : 0..MaxBurst, reset : 0..now]
        /\ Len(e.requests) <= MaxRequests
        /\ KeptWith(now, granted[c], e.requests)
        /\ BurstWith(granted[c], e.burst, e.reset)
        /\ e.requests \in Seq(Nat)
        /\ c \in DOMAIN store => e = store[c]
        /\ c \notin DOMAIN store => e.burst = 0 /\ Len(e.requests) = 0
    <2>1. CASE c \in DOMAIN store
      <3>1. e = store[c]
        BY <2>1 DEF Limits!Entry
      <3>2. /\ KeptWith(now, granted[c], store[c].requests)
            /\ BurstWith(granted[c], store[c].burst, store[c].reset)
        BY <2>1 DEF LimitsInv
      <3>3. Len(store[c].requests) <= MaxRequests
        BY <2>1 DEF LimitsInv, Limits!TypeOK
      <3> QED
        BY <2>1, <3>1, <3>2, <3>3, Typed
    <2>2. CASE c \notin DOMAIN store
      <3>1. e = [requests |-> <<>>, burst |-> 0, reset |-> now]
        BY <2>2 DEF Limits!Entry, Limits!NoEntry
      <3>2. Forgotten(now, granted[c])
        BY <2>2 DEF LimitsInv
      <3>3. KeptWith(now, granted[c], <<>>) /\ BurstWith(granted[c], 0, now)
        BY <3>2, Typed, NewEntry
      <3>4. Len(<<>>) <= MaxRequests /\ 0 \in 0..MaxBurst /\ now \in 0..now
        BY Numbers, Typed
      <3> QED
        BY <2>2, <3>1, <3>3, <3>4
    <2> QED
      BY <2>1, <2>2
  <1> HIDE DEF e
  <1>2. \A i, j \in 1..Len(e.requests) : i <= j => e.requests[i] <= e.requests[j]
    <2>1. Grants(now, granted[c])
      BY DEF LimitsInv
    <2>2. /\ Len(granted[c]) \in Nat /\ Len(e.requests) \in Nat
          /\ Len(e.requests) <= Len(granted[c])
      BY <1>1, Typed, LenProperties DEF KeptWith
    <2> SUFFICES ASSUME NEW i \in 1..Len(e.requests), NEW j \in 1..Len(e.requests), i <= j
                 PROVE  e.requests[i] <= e.requests[j]
      OBVIOUS
    <2> DEFINE n == Len(granted[c])
               m == Len(e.requests)
               k == n - m
    <2>3. k + i \in 1..n /\ k + j \in 1..n /\ k + i <= k + j
      <3>1. i \in 1..m /\ j \in 1..m /\ n \in Nat /\ m \in Nat /\ m <= n
        BY <2>2
      <3> HIDE DEF n, m
      <3> QED
        BY <3>1
    <2>4. granted[c][k + i] <= granted[c][k + j]
      BY <2>1, <2>3 DEF Grants
    <2>5. e.requests[i] = granted[c][k + i] /\ e.requests[j] = granted[c][k + j]
      BY <1>1 DEF KeptWith
    <2> QED
      BY <2>4, <2>5
  <1>3. PICK k \in 0..Len(e.requests) :
          /\ Limits!Recent(e.requests) = SubSeq(e.requests, k + 1, Len(e.requests))
          /\ \A i \in 1..k : now - e.requests[i] >= Window
          /\ \A i \in k + 1..Len(e.requests) : now - e.requests[i] < Window
    BY <1>1, <1>2, Typed, RecentIsTheEnd
  <1> DEFINE rs == SubSeq(e.requests, k + 1, Len(e.requests))
  <1>4. KeptWith(now, granted[c], rs)
    BY <1>1, <1>3, Typed, FilterKeeps
  <1>5. /\ rs \in Seq(Limits!Times) /\ Len(rs) <= MaxRequests
        /\ c \notin DOMAIN store => Len(rs) = 0
        /\ \A i \in 1..Len(rs) : now - rs[i] < Window
        /\ Len(rs) >= Len(e.requests) => rs = e.requests
    <2>1. Len(e.requests) \in Nat /\ \A i \in 1..Len(e.requests) : e.requests[i] \in Limits!Times
      BY <1>1, LenProperties
    <2>2. rs \in Seq(Limits!Times) /\ Len(rs) = Len(e.requests) - k
      BY <2>1, <1>1, <1>3, SubSeqProperties
    <2>3. ASSUME NEW i \in 1..Len(rs) PROVE now - rs[i] < Window
      <3>1. /\ i \in 1..Len(e.requests) - k /\ k + 1 + i - 1 = k + i
            /\ k + i \in k + 1..Len(e.requests)
        BY <2>1, <2>2, <2>3
      <3>2. rs[i] = e.requests[k + i]
        <4>1. \A j \in 1..Len(e.requests) - (k + 1) + 1 : rs[j] = e.requests[k + 1 + j - 1]
          BY <1>1, <2>1, SubSeqProperties
        <4>2. Len(e.requests) - (k + 1) + 1 = Len(e.requests) - k
          BY <2>1
        <4> QED
          BY <3>1, <4>1, <4>2
      <3> QED
        BY <1>3, <3>1, <3>2
    <2>4. ASSUME Len(rs) >= Len(e.requests) PROVE rs = e.requests
      <3>1. k = 0
        BY <1>3, <2>1, <2>2, <2>4
      <3> QED
        BY <1>1, <3>1, SubSeqFull
    <2>5. Len(rs) <= MaxRequests /\ (c \notin DOMAIN store => Len(rs) = 0)
      BY <2>1, <2>2, <1>1, <1>3, Numbers
    <2> QED
      BY <2>2, <2>3, <2>4, <2>5
  <1>6. f = [requests |-> rs, burst |-> e.burst, reset |-> e.reset]
    <2>1. f = [e EXCEPT !.requests = rs]
      BY <1>3
    <2> HIDE DEF rs, f
    <2> QED
      BY <1>1, <2>1
  <1>7. Limits!Current(c) = IF now - e.reset > BurstWindow
                            THEN [requests |-> rs, burst |-> 0, reset |-> now]
                            ELSE [requests |-> rs, burst |-> e.burst, reset |-> e.reset]
    <2>1. Limits!Current(c) = IF now - f.reset > BurstWindow
                              THEN [f EXCEPT !.burst = 0, !.reset = now] ELSE f
      BY DEF Limits!Current, e
    <2> HIDE DEF f, rs
    <2> QED
      BY <1>6, <2>1
  <1>8. /\ now \in Nat /\ e.reset \in Nat /\ e.reset \in 0..now /\ e.burst \in 0..MaxBurst
        /\ granted[c] \in Seq(Nat)
    BY <1>1, Typed
  <1> HIDE DEF rs
  <1>9. CASE now - e.reset > BurstWindow
    <2>1. BurstWith(granted[c], 0, now)
      BY <1>1, <1>8, <1>9, ResetKeeps
    <2>2. Limits!Current(c) = [requests |-> rs, burst |-> 0, reset |-> now]
      BY <1>7, <1>9
    <2>3. now - now <= BurstWindow /\ 0 \in 0..MaxBurst /\ now \in 0..now
      BY <1>8, Numbers
    <2> QED
      BY <1>1, <1>4, <1>5, <1>9, <2>1, <2>2, <2>3 DEF Fresh
  <1>10. CASE ~(now - e.reset > BurstWindow)
    <2>1. Limits!Current(c) = [requests |-> rs, burst |-> e.burst, reset |-> e.reset]
      BY <1>7, <1>10
    <2>2. now - e.reset <= BurstWindow
      BY <1>8, <1>10, Numbers
    <2> QED
      BY <1>1, <1>4, <1>5, <1>8, <2>1, <2>2 DEF Fresh
  <1> QED
    BY <1>9, <1>10

(* A step that leaves the clock alone and gives one client a good entry.    *)
LEMMA OneEntry ==
  ASSUME LimitsInv, NEW c \in Callers, NEW e,
         now' = now, store' = Limits!Put(c, e),
         granted' \in [Callers -> Seq(Limits!Times)],
         \A d \in Callers : d # c => granted'[d] = granted[d],
         told' \in [Callers -> Int],
         \A d \in Callers : d # c => told'[d] = told[d],
         e \in [requests : Seq(Limits!Times), burst : 0..MaxBurst, reset : 0..now],
         Len(e.requests) <= MaxRequests,
         Grants(now, granted'[c]), Sustained(granted'[c]), Bursts(granted'[c]),
         KeptWith(now, granted'[c], e.requests),
         BurstWith(granted'[c], e.burst, e.reset),
         told'[c] # -1 => ToldEnough(told'[c], e.requests, e.burst, e.reset)
  PROVE  LimitsInv'
  <1>1. /\ DOMAIN store' = DOMAIN store \cup {c}
        /\ store'[c] = e
        /\ \A d \in DOMAIN store : d # c => store'[d] = store[d]
    BY DEF Limits!Put
  <1>2. Limits!TypeOK'
    <2>1. now' \in Limits!Times /\ DOMAIN store' \subseteq Callers
      BY <1>1 DEF LimitsInv, Limits!TypeOK
    <2>2. ASSUME NEW d \in DOMAIN store'
          PROVE  /\ store'[d] \in [requests : Seq(Limits!Times), burst : 0..MaxBurst,
                                   reset : 0..now']
                 /\ Len(store'[d].requests) <= MaxRequests
      <3>1. CASE d = c
        BY <1>1, <3>1
      <3>2. CASE d # c
        <4>1. d \in DOMAIN store /\ store'[d] = store[d]
          BY <1>1, <3>2
        <4> QED
          BY <4>1 DEF LimitsInv, Limits!TypeOK
      <3> QED
        BY <3>1, <3>2
    <2> QED
      BY <2>1, <2>2 DEF Limits!TypeOK, Limits!Times
  <1>3. ASSUME NEW d \in Callers
        PROVE  Grants(now, granted'[d]) /\ Sustained(granted'[d]) /\ Bursts(granted'[d])
    BY DEF LimitsInv
  <1>4. ASSUME NEW d \in DOMAIN store'
        PROVE  /\ KeptWith(now, granted'[d], store'[d].requests)
               /\ BurstWith(granted'[d], store'[d].burst, store'[d].reset)
               /\ told'[d] # -1 =>
                    ToldEnough(told'[d], store'[d].requests, store'[d].burst, store'[d].reset)
    <2>1. CASE d = c
      BY <1>1, <2>1
    <2>2. CASE d # c
      <3>1. d \in DOMAIN store /\ store'[d] = store[d] /\ d \in Callers
        BY <1>1, <2>2 DEF LimitsInv, Limits!TypeOK
      <3>2. granted'[d] = granted[d] /\ told'[d] = told[d]
        BY <2>2, <3>1
      <3>3. /\ KeptWith(now, granted[d], store[d].requests)
            /\ BurstWith(granted[d], store[d].burst, store[d].reset)
            /\ told[d] # -1 =>
                 ToldEnough(told[d], store[d].requests, store[d].burst, store[d].reset)
        BY <3>1 DEF LimitsInv
      <3> QED
        BY <3>1, <3>2, <3>3
    <2> QED
      BY <2>1, <2>2
  <1>5. ASSUME NEW d \in Callers \ DOMAIN store' PROVE Forgotten(now, granted'[d])
    <2>1. d # c /\ d \in Callers \ DOMAIN store
      BY <1>1
    <2> QED
      BY <2>1 DEF LimitsInv
  <1> QED
    BY <1>2, <1>3, <1>4, <1>5 DEF LimitsInv

LEMMA AllowKeepsLimits ==
  ASSUME LimitsInv, NEW c \in Callers, Limits!Allow(c)
  PROVE  LimitsInv'
  <1> DEFINE e == Limits!Current(c)
             f == [e EXCEPT !.requests = Append(@, now), !.burst = @ + 1]
  <1>1. /\ Len(e.requests) < MaxRequests /\ e.burst < MaxBurst
        /\ store' = Limits!Put(c, f)
        /\ granted' = [granted EXCEPT ![c] = Append(@, now)]
        /\ told' = [told EXCEPT ![c] = -1]
        /\ now' = now
    <2>1. Fresh(c, e)
      BY CurrentIsFresh
    <2>2. ~Limits!SustainedOver(e) /\ ~Limits!BurstOver(e)
      BY DEF Limits!Allow, Limits!Over
    <2>3. Len(e.requests) \in Nat /\ e.burst \in Nat
      BY <2>1, LenProperties DEF Fresh
    <2> QED
      BY <2>2, <2>3, Numbers DEF Limits!Allow, Limits!SustainedOver, Limits!BurstOver, Limits!NotTold
  <1>2. Fresh(c, e)
    BY CurrentIsFresh
  <1> HIDE DEF e
  <1>3. /\ granted \in [Callers -> Seq(Limits!Times)] /\ told \in [Callers -> Int]
        /\ Grants(now, granted[c]) /\ Sustained(granted[c]) /\ Bursts(granted[c])
    BY DEF LimitsInv, Limits!TypeOK
  <1>4. /\ e.requests \in Seq(Limits!Times) /\ e.requests \in Seq(Nat)
        /\ e.burst \in 0..MaxBurst /\ e.burst \in Nat /\ e.reset \in 0..now
        /\ now - e.reset <= BurstWindow
        /\ KeptWith(now, granted[c], e.requests) /\ BurstWith(granted[c], e.burst, e.reset)
    BY <1>2, Typed, SeqMonotonic DEF Fresh
  <1>5. f = [requests |-> Append(e.requests, now), burst |-> e.burst + 1, reset |-> e.reset]
    <2>1. e \in [requests : Seq(Limits!Times), burst : 0..MaxBurst, reset : 0..now]
      BY <1>2 DEF Fresh
    <2>2. PICK rs, b, r : e = [requests |-> rs, burst |-> b, reset |-> r]
      BY <2>1
    <2>3. e.requests = rs /\ e.burst = b /\ e.reset = r
      BY <2>2
    <2>4. f = [[requests |-> rs, burst |-> b, reset |-> r]
                 EXCEPT !.requests = Append(rs, now), !.burst = b + 1]
      BY <2>2, <2>3
    <2> HIDE DEF f
    <2> QED
      BY <2>3, <2>4
  <1>6. f \in [requests : Seq(Limits!Times), burst : 0..MaxBurst, reset : 0..now]
    <2>1. Append(e.requests, now) \in Seq(Limits!Times)
      BY <1>4, Typed, AppendProperties
    <2>2. e.burst + 1 \in 0..MaxBurst
      BY <1>1, <1>4, Numbers
    <2> QED
      BY <1>4, <1>5, <2>1, <2>2
  <1>7. Len(f.requests) <= MaxRequests
    <2>1. Len(e.requests) \in Nat /\ Len(Append(e.requests, now)) = Len(e.requests) + 1
      BY <1>4, Typed, LenProperties, AppendProperties
    <2> QED
      BY <1>1, <1>5, <2>1, Numbers
  <1>8. granted' \in [Callers -> Seq(Limits!Times)] /\ granted'[c] = Append(granted[c], now)
    <2>1. Append(granted[c], now) \in Seq(Limits!Times)
      BY Typed, AppendProperties
    <2> QED
      BY <1>1, <1>3, <2>1
  <1>9. told' \in [Callers -> Int] /\ told'[c] = -1
    BY <1>1, <1>3
  <1>10. /\ Grants(now, granted'[c]) /\ Sustained(granted'[c]) /\ Bursts(granted'[c])
         /\ KeptWith(now, granted'[c], f.requests) /\ BurstWith(granted'[c], f.burst, f.reset)
    <2>1. /\ Grants(now, Append(granted[c], now)) /\ Sustained(Append(granted[c], now))
          /\ Bursts(Append(granted[c], now))
          /\ KeptWith(now, Append(granted[c], now), Append(e.requests, now))
          /\ BurstWith(Append(granted[c], now), e.burst + 1, e.reset)
      BY <1>1, <1>3, <1>4, Typed, Granting
    <2> QED
      BY <1>5, <1>8, <2>1
  <1> HIDE DEF f
  <1>11. \A d \in Callers : d # c => granted'[d] = granted[d] /\ told'[d] = told[d]
    BY <1>1, <1>3
  <1> QED
    BY <1>1, <1>6, <1>7, <1>8, <1>9, <1>10, <1>11, OneEntry

(* The delay announced is at least that of each limit exceeded.             *)
LEMMA RetryIsEnough ==
  ASSUME NEW e \in [requests : Seq(Nat), burst : Nat, reset : Nat], now \in Nat
  PROVE  /\ Limits!RetryAfter(e) \in Int
         /\ Limits!SustainedOver(e) => now + Limits!RetryAfter(e) >= e.requests[1] + Window
         /\ Limits!BurstOver(e) => now + Limits!RetryAfter(e) >= e.reset + BurstWindow
         /\ now + Limits!RetryAfter(e) # -1
  <1> DEFINE a == Window - (now - e.requests[1])
             b == BurstWindow - (now - e.reset)
             delays == {0} \cup Limits!Delays(e)
  <1>1. /\ e.requests \in Seq(Nat) /\ Len(e.requests) \in Nat /\ e.reset \in Nat
        /\ Limits!SustainedOver(e) => e.requests[1] \in Nat
    <2>1. e.requests \in Seq(Nat) /\ Len(e.requests) \in Nat /\ e.reset \in Nat
      BY LenProperties
    <2>2. ASSUME Limits!SustainedOver(e) PROVE e.requests[1] \in Nat
      <3>1. 1 \in 1..Len(e.requests)
        BY <2>1, <2>2, Numbers DEF Limits!SustainedOver
      <3> QED
        BY <2>1, <3>1, ElementOfSeq
    <2> QED
      BY <2>1, <2>2
  <1>2. (Limits!SustainedOver(e) => a \in Int) /\ b \in Int
    BY <1>1, Numbers
  <1>3. delays = {0} \cup (IF Limits!SustainedOver(e) THEN {a} ELSE {})
                     \cup (IF Limits!BurstOver(e) THEN {b} ELSE {})
    BY DEF Limits!Delays
  <1> HIDE DEF a, b, delays
  <1>4. \E x \in delays : \A y \in delays : x >= y
    <2>1. CASE Limits!SustainedOver(e)
      <3>1. a \in Int /\ b \in Int
        BY <1>2, <2>1
      <3>2. PICK x \in {0, a, b} : x >= 0 /\ x >= a /\ (Limits!BurstOver(e) => x >= b)
                                   /\ (x = b => Limits!BurstOver(e) \/ b = a \/ b = 0)
        BY <3>1
      <3> QED
        BY <1>3, <2>1, <3>1, <3>2
    <2>2. CASE ~Limits!SustainedOver(e)
      <3>1. CASE Limits!BurstOver(e) /\ b >= 0
        <4>1. delays = {0, b} /\ b \in Int
          BY <1>2, <1>3, <2>2, <3>1
        <4> QED
          BY <3>1, <4>1
      <3>2. CASE ~(Limits!BurstOver(e) /\ b >= 0)
        BY <1>2, <1>3, <2>2, <3>2
      <3> QED
        BY <3>1, <3>2
    <2> QED
      BY <2>1, <2>2
  <1>5. /\ Limits!RetryAfter(e) \in delays
        /\ \A y \in delays : Limits!RetryAfter(e) >= y
    BY <1>4 DEF Limits!RetryAfter, Limits!Max, delays
  <1>6. Limits!RetryAfter(e) \in Int /\ Limits!RetryAfter(e) >= 0
    BY <1>2, <1>3, <1>5
  <1>7. ASSUME Limits!SustainedOver(e)
        PROVE  now + Limits!RetryAfter(e) >= e.requests[1] + Window
    <2>1. Limits!RetryAfter(e) >= a
      BY <1>3, <1>5, <1>7
    <2> QED
      BY <1>1, <1>6, <1>7, <2>1, Numbers DEF a
  <1>8. ASSUME Limits!BurstOver(e)
        PROVE  now + Limits!RetryAfter(e) >= e.reset + BurstWindow
    <2>1. Limits!RetryAfter(e) >= b
      BY <1>3, <1>5, <1>8
    <2> QED
      BY <1>1, <1>6, <2>1, Numbers DEF b
  <1> QED
    BY <1>6, <1>7, <1>8

LEMMA RefuseKeepsLimits ==
  ASSUME LimitsInv, NEW c \in Callers, Limits!Refuse(c)
  PROVE  LimitsInv'
  <1> DEFINE e == Limits!Current(c)
             n == now + Limits!RetryAfter(e)
  <1>1. /\ store' = Limits!Put(c, e)
        /\ told' = [told EXCEPT ![c] = n]
        /\ granted' = granted /\ now' = now
    BY DEF Limits!Refuse
  <1>2. Fresh(c, e)
    BY CurrentIsFresh
  <1> HIDE DEF e
  <1>3. /\ granted \in [Callers -> Seq(Limits!Times)] /\ told \in [Callers -> Int]
        /\ Grants(now, granted[c]) /\ Sustained(granted[c]) /\ Bursts(granted[c])
    BY DEF LimitsInv, Limits!TypeOK
  <1>4. e \in [requests : Seq(Nat), burst : Nat, reset : Nat] /\ now \in Nat
    <2>1. /\ e \in [requests : Seq(Limits!Times), burst : 0..MaxBurst, reset : 0..now]
          /\ now \in Nat /\ Limits!Times \subseteq Nat
      BY <1>2, Typed DEF Fresh
    <2>2. e.requests \in Seq(Nat)
      BY <2>1, SeqMonotonic
    <2>3. e.burst \in Nat /\ e.reset \in Nat
      BY <2>1, Numbers
    <2> QED
      BY <2>1, <2>2, <2>3
  <1>5. ToldEnough(n, e.requests, e.burst, e.reset) /\ n \in Int
    BY <1>4, RetryIsEnough DEF ToldEnough, Limits!SustainedOver, Limits!BurstOver
  <1> HIDE DEF n
  <1>6. /\ told' \in [Callers -> Int] /\ told'[c] = n
        /\ \A d \in Callers : d # c => told'[d] = told[d]
    BY <1>1, <1>3, <1>5
  <1> QED
    BY <1>1, <1>2, <1>3, <1>5, <1>6, OneEntry DEF Fresh

LEMMA CleanupKeepsLimits ==
  ASSUME LimitsInv, Limits!Cleanup
  PROVE  LimitsInv'
  <1>1. PICK dead \in SUBSET DOMAIN store :
          /\ \A c \in dead : \A i \in 1..Len(store[c].requests) :
               now - store[c].requests[i] > Window
          /\ store' = [c \in DOMAIN store \ dead |-> store[c]]
          /\ now' = now /\ granted' = granted /\ told' = told
    <2> DEFINE dead == {c \in DOMAIN store : \A i \in 1..Len(store[c].requests) :
                                               now - store[c].requests[i] > Window}
    <2>1. /\ store' = [c \in DOMAIN store \ dead |-> store[c]]
          /\ now' = now /\ granted' = granted /\ told' = told
      BY DEF Limits!Cleanup
    <2>2. dead \in SUBSET DOMAIN store
      OBVIOUS
    <2> QED
      BY <2>1, <2>2
  <1>2. /\ DOMAIN store' = DOMAIN store \ dead
        /\ \A c \in DOMAIN store' : store'[c] = store[c]
    BY <1>1
  <1>3. Limits!TypeOK'
    BY <1>1, <1>2 DEF LimitsInv, Limits!TypeOK, Limits!Times
  <1>4. ASSUME NEW c \in Callers \ DOMAIN store' PROVE Forgotten(now, granted[c])
    <2>1. CASE c \notin DOMAIN store
      BY <2>1 DEF LimitsInv
    <2>2. CASE c \in DOMAIN store
      <3>1. /\ \A i \in 1..Len(store[c].requests) : now - store[c].requests[i] > Window
        BY <1>1, <1>2, <2>2
      <3>2. /\ Grants(now, granted[c]) /\ KeptWith(now, granted[c], store[c].requests)
            /\ BurstWith(granted[c], store[c].burst, store[c].reset)
        BY <2>2 DEF LimitsInv
      <3>3. /\ now \in Nat /\ granted[c] \in Seq(Nat) /\ store[c].requests \in Seq(Nat)
            /\ store[c].burst \in 0..MaxBurst /\ store[c].reset \in 0..now
        BY <2>2, Typed
      <3> QED
        BY <3>1, <3>2, <3>3, Forgetting
    <2> QED
      BY <2>1, <2>2
  <1>5. ASSUME NEW c \in Callers
        PROVE  Grants(now, granted[c]) /\ Sustained(granted[c]) /\ Bursts(granted[c])
    BY DEF LimitsInv
  <1>6. ASSUME NEW c \in DOMAIN store'
        PROVE  /\ KeptWith(now, granted[c], store'[c].requests)
               /\ BurstWith(granted[c], store'[c].burst, store'[c].reset)
               /\ told[c] # -1 =>
                    ToldEnough(told[c], store'[c].requests, store'[c].burst, store'[c].reset)
    BY <1>2 DEF LimitsInv
  <1> QED
    BY <1>1, <1>3, <1>4, <1>5, <1>6 DEF LimitsInv

LEMMA TickKeepsLimits ==
  ASSUME LimitsInv, Limits!Tick
  PROVE  LimitsInv'
  <1>1. now' = now + 1 /\ now < MaxTime /\ store' = store /\ granted' = granted /\ told' = told
    BY DEF Limits!Tick
  <1>2. now \in Nat /\ now \in Limits!Times
    BY Numbers DEF LimitsInv, Limits!TypeOK, Limits!Times
  <1>3. Limits!TypeOK'
    <2>1. now' \in Limits!Times /\ 0..now \subseteq 0..now'
      BY <1>1, <1>2, Numbers DEF Limits!Times
    <2>2. ASSUME NEW c \in DOMAIN store
          PROVE  store[c] \in [requests : Seq(Limits!Times), burst : 0..MaxBurst, reset : 0..now']
      <3>1. store[c] \in [requests : Seq(Limits!Times), burst : 0..MaxBurst, reset : 0..now]
        BY DEF LimitsInv, Limits!TypeOK
      <3> QED
        BY <2>1, <3>1
    <2> QED
      BY <1>1, <2>1, <2>2 DEF LimitsInv, Limits!TypeOK, Limits!Times
  <1>4. ASSUME NEW c \in Callers
        PROVE  /\ Grants(now + 1, granted[c]) /\ Sustained(granted[c]) /\ Bursts(granted[c])
               /\ c \notin DOMAIN store => Forgotten(now + 1, granted[c])
    <2>1. granted[c] \in Seq(Nat)
      BY Typed
    <2> QED
      BY <1>2, <2>1, Later DEF LimitsInv
  <1>5. ASSUME NEW c \in DOMAIN store
        PROVE  KeptWith(now + 1, granted[c], store[c].requests)
    <2>1. c \in Callers
      BY DEF LimitsInv, Limits!TypeOK
    <2>2. granted[c] \in Seq(Nat) /\ store[c].requests \in Seq(Nat)
      BY <2>1, Typed
    <2>3. Len(store[c].requests) \in Nat
      BY <2>2, LenProperties
    <2> QED
      BY <1>2, <2>2, <2>3, Later DEF LimitsInv
  <1> QED
    BY <1>1, <1>3, <1>4, <1>5 DEF LimitsInv

LEMMA LimitsInvInductive ==
  /\ Limits!Init => LimitsInv
  /\ LimitsInv /\ [Limits!Next]_Limits!vars => LimitsInv'
  <1>1. ASSUME Limits!Init PROVE LimitsInv
    <2>1. /\ now = 0 /\ DOMAIN store = {}
          /\ granted = [c \in Callers |-> <<>>] /\ told = [c \in Callers |-> -1]
      BY <1>1 DEF Limits!Init, Limits!NotTold
    <2>2. Limits!TypeOK
      BY <2>1, Numbers, EmptySeq DEF Limits!TypeOK, Limits!Times
    <2>3. Len(<<>>) = 0 /\ MaxRequests \in Nat /\ MaxBurst \in Nat
      BY Numbers
    <2>4. Grants(0, <<>>) /\ Sustained(<<>>) /\ Bursts(<<>>) /\ Forgotten(0, <<>>)
      BY <2>3 DEF Grants, Sustained, Bursts, Forgotten
    <2> QED
      BY <2>1, <2>2, <2>4 DEF LimitsInv
  <1>2. ASSUME LimitsInv, Limits!Next PROVE LimitsInv'
    BY <1>2, AllowKeepsLimits, RefuseKeepsLimits, CleanupKeepsLimits, TickKeepsLimits
       DEF Limits!Next
  <1>3. ASSUME LimitsInv, UNCHANGED Limits!vars PROVE LimitsInv'
    BY <1>3 DEF Limits!vars, LimitsInv, Limits!TypeOK, Limits!Times
  <1> QED
    BY <1>1, <1>2, <1>3

(* The invariant has what the properties say.                               *)
LEMMA LimitsInvIsEnough ==
  ASSUME LimitsInv
  PROVE  Limits!SustainedLimit /\ Limits!BurstLimit /\ Limits!WaitingLongerIsEnough
  <1>1. Limits!SustainedLimit /\ Limits!BurstLimit
    BY DEF LimitsInv, Sustained, Bursts, Limits!SustainedLimit, Limits!BurstLimit
  <1>2. ASSUME NEW c \in Callers, told[c] # -1, now > told[c] PROVE ~Limits!Over(Limits!Current(c))
    <2> DEFINE e == Limits!Current(c)
    <2>1. /\ Fresh(c, e)
          /\ c \in DOMAIN store =>
              \/ e.burst = store[c].burst /\ e.reset = store[c].reset
              \/ e.burst = 0 /\ now - store[c].reset > BurstWindow
          /\ c \notin DOMAIN store => e.burst = 0 /\ Len(e.requests) = 0
          /\ \A i \in 1..Len(e.requests) : now - e.requests[i] < Window
          /\ c \in DOMAIN store /\ Len(e.requests) >= Len(store[c].requests) =>
               e.requests = store[c].requests
      BY CurrentIsFresh
    <2> SUFFICES ~Limits!Over(e)
      OBVIOUS
    <2> HIDE DEF e
    <2>2. CASE c \notin DOMAIN store
      BY <2>1, <2>2, Numbers DEF Limits!Over, Limits!SustainedOver, Limits!BurstOver
    <2>3. CASE c \in DOMAIN store
      <3>1. /\ ToldEnough(told[c], store[c].requests, store[c].burst, store[c].reset)
            /\ Len(store[c].requests) <= MaxRequests
            /\ store[c].requests \in Seq(Nat) /\ store[c].burst \in 0..MaxBurst
            /\ store[c].reset \in 0..now /\ now \in Nat /\ told[c] \in Int
        BY <1>2, <2>3, Typed DEF LimitsInv, Limits!TypeOK
      <3>2. Len(store[c].requests) \in Nat /\ Len(e.requests) \in Nat
        BY <2>1, <3>1, LenProperties DEF Fresh
      <3>3. ASSUME Limits!SustainedOver(e) PROVE FALSE
        <4>1. Len(e.requests) >= MaxRequests
          BY <3>3 DEF Limits!SustainedOver
        <4>2. Len(e.requests) >= Len(store[c].requests)
          BY <3>1, <3>2, <4>1, Numbers
        <4>3. e.requests = store[c].requests
          BY <2>1, <2>3, <4>2
        <4>4. 1 \in 1..Len(store[c].requests) /\ Len(store[c].requests) >= MaxRequests
          BY <3>2, <4>1, <4>3, Numbers
        <4>5. store[c].requests[1] \in Nat /\ now - store[c].requests[1] < Window
          BY <2>1, <3>1, <4>3, <4>4, ElementOfSeq
        <4>6. told[c] >= store[c].requests[1] + Window
          BY <3>1, <4>4 DEF ToldEnough
        <4>7. now \in Nat /\ told[c] \in Int /\ now > told[c]
          BY <1>2, <3>1
        <4> HIDE DEF e
        <4> QED
          BY <4>5, <4>6, <4>7, Numbers
      <3>4. ASSUME Limits!BurstOver(e) PROVE FALSE
        <4>1. e.burst >= MaxBurst
          BY <3>4 DEF Limits!BurstOver
        <4>2. /\ e.burst = store[c].burst /\ e.reset = store[c].reset
              /\ now - e.reset <= BurstWindow
          BY <2>1, <2>3, <4>1, Numbers DEF Fresh
        <4>3. told[c] >= store[c].reset + BurstWindow
          BY <3>1, <4>1, <4>2 DEF ToldEnough
        <4> QED
          BY <1>2, <3>1, <4>2, <4>3, Numbers
      <3> QED
        BY <3>3, <3>4 DEF Limits!Over
    <2> QED
      BY <2>2, <2>3
  <1> QED
    BY <1>1, <1>2 DEF Limits!WaitingLongerIsEnough, Limits!NotTold

-----------------------------------------------------------------------------
(* The chain: where a request is says what it is, and what it has passed.   *)

AdminRoutes == Chain!Guarded \cup {"/metrics"}
PublicRoutes == {"/graphql", "/api/export"}
LimiterNames == {"public", "admin"}

Placed(q) ==
  /\ kindOf[q] = Unasked <=> place[q] = "outside"
  /\ place[q] = "metrics" => kindOf[q].route = "/metrics"
  /\ place[q] \in {"admin limiter", "key"} => kindOf[q].route \in AdminRoutes
  /\ place[q] = "public limiter" => kindOf[q].route \in PublicRoutes
  /\ place[q] \in {"document", "price"} => kindOf[q].route = "/graphql"
  /\ place[q] \in {"handler", "handled"} /\ kindOf[q].route \in AdminRoutes =>
       \/ keySet /\ kindOf[q].key = "right"
       \/ kindOf[q].route = "/metrics" /\ kindOf[q].sender \in Listed
  /\ q \in compared => place[q] = "answered"

(* The requests that a limiter let through, or whose check failed: those    *)
(* that its budget must account for.                                        *)
PastAdmin(q) == place[q] = "key" \/ q \in compared
PastPublic(q) ==
  \/ place[q] \in {"document", "price"}
  \/ place[q] \in {"handler", "handled"} /\ kindOf[q].route \in PublicRoutes
Past(l, c) ==
  {q \in Requests : /\ kindOf[q] # Unasked
                    /\ kindOf[q].sender = c
                    /\ IF l = "admin" THEN PastAdmin(q) ELSE PastPublic(q)}

ChainTyped ==
  /\ keySet \in BOOLEAN /\ enabled \in [LimiterNames -> BOOLEAN]
  /\ kindOf \in [Requests -> Kinds \cup {Unasked}]
  /\ place \in [Requests -> Chain!Places]
  /\ used \in [LimiterNames -> [Addresses -> Nat]]
  /\ failures \in [LimiterNames -> [Addresses -> Nat]]
  /\ compared \subseteq Requests

Accounted ==
  \A l \in LimiterNames, c \in Addresses :
    /\ used[l][c] <= Budgets[l]
    /\ enabled[l] => Cardinality(Past(l, c)) <= used[l][c] + failures[l][c]

ChainInv == ChainTyped /\ (\A q \in Requests : Placed(q)) /\ Accounted

(* The client that a limiter counts is the sender, whatever came before.    *)
LEMMA ClientIsTheSender ==
  ASSUME NEW k \in Kinds
  PROVE  Chain!ClientIp(k.hops) = k.sender /\ k.sender \in Addresses
  <1> DEFINE hops == k.hops
             strangers == {i \in DOMAIN hops : hops[i] \notin Proxies}
  <1>1. /\ DOMAIN hops \subseteq Nat \ {0} /\ k.sender \in Addresses \ Proxies
        /\ \E i \in DOMAIN hops : /\ hops[i] = k.sender
                                  /\ \A j \in DOMAIN hops : j > i => hops[j] \in Proxies
    BY HopsAssumption
  <1>2. PICK i \in DOMAIN hops : /\ hops[i] = k.sender
                                 /\ \A j \in DOMAIN hops : j > i => hops[j] \in Proxies
    BY <1>1
  <1>3. Chain!ClientIp(hops) = hops[IF strangers = {} THEN 1 ELSE Chain!Max(strangers)]
    BY DEF Chain!ClientIp
  <1>4. i \in strangers
    BY <1>1, <1>2
  <1>5. strangers \subseteq Nat /\ \A j \in strangers : j <= i
    BY <1>1, <1>2
  <1> HIDE DEF strangers, hops
  <1>6. Chain!Max(strangers) = i
    BY <1>4, <1>5 DEF Chain!Max
  <1> QED
    BY <1>1, <1>2, <1>3, <1>4, <1>6 DEF hops

(* Admission counts with the FiniteSets of its instance.                    *)
LEMMA SameCount == \A S : Chain!Cardinality(S) = Cardinality(S)
  BY DEF Chain!Cardinality, Cardinality

(* One more request is at most one more to account for.                     *)
LEMMA OneMore ==
  ASSUME NEW S, IsFiniteSet(S), NEW T, NEW x, T \subseteq S \cup {x}
  PROVE  /\ Cardinality(S) \in Nat /\ Cardinality(T) \in Nat
         /\ Cardinality(T) <= Cardinality(S) + 1
         /\ (x \in T => x \in S) => Cardinality(T) <= Cardinality(S)
  <1>1. /\ IsFiniteSet(S \cup {x}) /\ Cardinality(S) \in Nat /\ Cardinality(S \cup {x}) \in Nat
        /\ Cardinality(S \cup {x}) <= Cardinality(S) + 1
    <2>1. CASE x \in S
      <3>1. S \cup {x} = S
        BY <2>1
      <3>2. Cardinality(S) \in Nat
        BY FS_CardinalityType
      <3>3. IsFiniteSet(S \cup {x}) /\ Cardinality(S \cup {x}) = Cardinality(S)
        BY <3>1, Zenon
      <3> QED
        BY <3>2, <3>3
    <2>2. CASE x \notin S
      <3>1. Cardinality(S) \in Nat
        BY FS_CardinalityType
      <3>2. IsFiniteSet(S \cup {x}) /\ Cardinality(S \cup {x}) = Cardinality(S) + 1
        BY <2>2, FS_AddElement
      <3> QED
        BY <3>1, <3>2
    <2> QED
      BY <2>1, <2>2
  <1>2. IsFiniteSet(T) /\ Cardinality(T) <= Cardinality(S \cup {x})
    BY <1>1, FS_Subset
  <1>3. Cardinality(T) \in Nat
    BY <1>2, FS_CardinalityType
  <1>4. ASSUME x \in T => x \in S PROVE Cardinality(T) <= Cardinality(S)
    <2>1. T \subseteq S
      BY <1>4
    <2> QED
      BY <2>1, FS_Subset
  <1> QED
    BY <1>1, <1>2, <1>3, <1>4

(* A step of one request: no limiter that is on has it to account for       *)
(* unless it had before, or counts one more.                                *)
LEMMA OneSteps ==
  ASSUME ChainInv, NEW q \in Requests,
         ChainTyped', Placed(q)', enabled' = enabled, keySet' = keySet,
         \A p \in Requests : p # q =>
           /\ kindOf'[p] = kindOf[p] /\ place'[p] = place[p]
           /\ p \in compared' <=> p \in compared,
         \A l \in LimiterNames, c \in Addresses :
           /\ used'[l][c] <= Budgets[l]
           /\ \/ /\ used'[l][c] + failures'[l][c] = used[l][c] + failures[l][c]
                 /\ q \in Past(l, c)' => q \in Past(l, c) \/ ~enabled[l]
              \/ used'[l][c] + failures'[l][c] = used[l][c] + failures[l][c] + 1
  PROVE  ChainInv'
  <1>1. ASSUME NEW p \in Requests PROVE Placed(p)'
    <2>1. CASE p = q
      BY <2>1
    <2>2. CASE p # q
      BY <2>2 DEF ChainInv, Placed
    <2> QED
      BY <2>1, <2>2
  <1>2. ASSUME NEW l \in LimiterNames, NEW c \in Addresses
        PROVE  /\ used'[l][c] <= Budgets[l]
               /\ enabled'[l] => Cardinality(Past(l, c)') <= used'[l][c] + failures'[l][c]
    <2>1. Past(l, c)' \subseteq Past(l, c) \cup {q}
      <3> SUFFICES ASSUME NEW p \in Past(l, c)', p # q PROVE p \in Past(l, c)
        OBVIOUS
      <3>1. p \in Requests
        BY DEF Past
      <3> QED
        BY <3>1 DEF Past, PastAdmin, PastPublic
    <2>2. IsFiniteSet(Past(l, c))
      <3>1. Past(l, c) \subseteq Requests
        BY DEF Past
      <3> QED
        BY <3>1, BudgetsAssumption, FS_Subset
    <2>3. /\ Cardinality(Past(l, c)) \in Nat /\ Cardinality(Past(l, c)') \in Nat
          /\ Cardinality(Past(l, c)') <= Cardinality(Past(l, c)) + 1
          /\ (q \in Past(l, c)' => q \in Past(l, c)) =>
               Cardinality(Past(l, c)') <= Cardinality(Past(l, c))
      BY <2>1, <2>2, OneMore
    <2>4. /\ used[l][c] \in Nat /\ failures[l][c] \in Nat
          /\ used'[l][c] \in Nat /\ failures'[l][c] \in Nat
      BY DEF ChainInv, ChainTyped
    <2>5. enabled[l] => Cardinality(Past(l, c)) <= used[l][c] + failures[l][c]
      BY DEF ChainInv, Accounted
    <2>6. \/ /\ used'[l][c] + failures'[l][c] = used[l][c] + failures[l][c]
             /\ q \in Past(l, c)' => q \in Past(l, c) \/ ~enabled[l]
          \/ used'[l][c] + failures'[l][c] = used[l][c] + failures[l][c] + 1
      OBVIOUS
    <2>7. used'[l][c] <= Budgets[l]
      OBVIOUS
    <2> DEFINE n == Cardinality(Past(l, c))
               m == Cardinality(Past(l, c)')
               u == used[l][c] + failures[l][c]
               v == used'[l][c] + failures'[l][c]
    <2>8. ASSUME enabled[l], n <= u PROVE m <= v
      <3>1. n \in Nat /\ m \in Nat /\ u \in Nat /\ v \in Nat /\ m <= n + 1
        BY <2>3, <2>4
      <3>2. (v = u /\ m <= n) \/ v = u + 1
        BY <2>3, <2>6, <2>8
      <3> HIDE DEF n, m, u, v
      <3> QED
        BY <2>8, <3>1, <3>2
    <2> QED
      BY <2>5, <2>7, <2>8
  <1> QED
    BY <1>1, <1>2 DEF ChainInv, Accounted

(* Where a request is, once it has gone or was answered.                    *)
LEMMA Places ==
  ASSUME ChainInv, NEW q \in Requests
  PROVE  /\ \A to : Chain!Goes(q, to) =>
              place'[q] = to /\ \A p \in Requests : p # q => place'[p] = place[p]
         /\ \A to \in Chain!Places : Chain!Goes(q, to) => place' \in [Requests -> Chain!Places]
         /\ \A n : Chain!Answers(q, n) =>
              /\ place' \in [Requests -> Chain!Places]
              /\ place'[q] = "answered" /\ \A p \in Requests : p # q => place'[p] = place[p]
  <1>1. place \in [Requests -> Chain!Places] /\ "answered" \in Chain!Places
    BY DEF ChainInv, ChainTyped, Chain!Places
  <1> QED
    BY <1>1 DEF Chain!Goes, Chain!Answers

(* What a request is, before a step of it.                                  *)
LEMMA Arrived ==
  ASSUME ChainInv, NEW q \in Requests, place[q] # "outside"
  PROVE  /\ kindOf[q] \in Kinds /\ kindOf[q] # Unasked
         /\ Chain!Ip(q) = kindOf[q].sender /\ Chain!Ip(q) \in Addresses
  <1>1. kindOf[q] \in Kinds
    BY DEF ChainInv, ChainTyped, Placed
  <1> QED
    BY <1>1, BudgetsAssumption, ClientIsTheSender DEF Chain!Ip

LEMMA ArriveKeeps ==
  ASSUME ChainInv, NEW q \in Requests, Chain!Arrive(q)
  PROVE  ChainInv'
  <1>1. PICK k \in Kinds :
          /\ kindOf' = [kindOf EXCEPT ![q] = k]
          /\ \/ Chain!Answers(q, 503) \/ Chain!Answers(q, 204) \/ Chain!Goes(q, "body")
    BY DEF Chain!Arrive
  <1>2. /\ place[q] = "outside"
        /\ keySet' = keySet /\ enabled' = enabled
        /\ used' = used /\ failures' = failures /\ compared' = compared
    BY DEF Chain!Arrive, Chain!settings
  <1>3. /\ place' \in [Requests -> Chain!Places] /\ place'[q] \in {"answered", "body"}
        /\ \A p \in Requests : p # q => place'[p] = place[p]
    <2>1. "body" \in Chain!Places
      BY DEF Chain!Places
    <2>2. CASE Chain!Goes(q, "body")
      BY <2>1, <2>2, Places
    <2>3. CASE Chain!Answers(q, 503) \/ Chain!Answers(q, 204)
      BY <2>3, Places
    <2> QED
      BY <1>1, <2>2, <2>3
  <1>4. ChainTyped'
    BY <1>1, <1>2, <1>3 DEF ChainInv, ChainTyped
  <1>5. /\ kindOf'[q] = k /\ k # Unasked
        /\ \A p \in Requests : p # q => kindOf'[p] = kindOf[p]
    BY <1>1, BudgetsAssumption DEF ChainInv, ChainTyped
  <1>6. Placed(q)'
    BY <1>2, <1>3, <1>5 DEF ChainInv, Placed
  <1>7. q \notin compared
    BY <1>2 DEF ChainInv, Placed
  <1>8. ASSUME NEW l \in LimiterNames, NEW c \in Addresses
        PROVE  used'[l][c] <= Budgets[l] /\ q \notin Past(l, c)'
    BY <1>2, <1>3, <1>7 DEF ChainInv, Accounted, Past, PastAdmin, PastPublic
  <1> QED
    BY <1>2, <1>3, <1>4, <1>5, <1>6, <1>8, OneSteps

(* A step that only moves a request, past no limiter that is on.            *)
LEMMA OneMoves ==
  ASSUME ChainInv, NEW q \in Requests,
         UNCHANGED <<keySet, enabled, kindOf, used, failures, compared>>,
         place' \in [Requests -> Chain!Places],
         \A p \in Requests : p # q => place'[p] = place[p],
         Placed(q)',
         \A l \in LimiterNames, c \in Addresses :
           q \in Past(l, c)' => q \in Past(l, c) \/ ~enabled[l]
  PROVE  ChainInv'
  <1>1. ChainTyped'
    BY DEF ChainInv, ChainTyped
  <1>2. ASSUME NEW l \in LimiterNames, NEW c \in Addresses
        PROVE  /\ used'[l][c] <= Budgets[l]
               /\ used'[l][c] + failures'[l][c] = used[l][c] + failures[l][c]
    BY DEF ChainInv, Accounted
  <1> QED
    BY <1>1, <1>2, OneSteps

LEMMA ReadBodyKeeps ==
  ASSUME ChainInv, NEW q \in Requests, Chain!ReadBody(q)
  PROVE  ChainInv'
  <1>1. /\ place[q] = "body"
        /\ UNCHANGED <<keySet, enabled, kindOf, used, failures, compared>>
    BY DEF Chain!ReadBody, Chain!settings
  <1> DEFINE to == CASE kindOf[q].route \in Chain!Guarded -> "admin limiter"
                     [] kindOf[q].route = "/metrics" -> "metrics"
                     [] kindOf[q].route \in {"/graphql", "/api/export"} -> "public limiter"
                     [] OTHER -> "handler"
  <1>2. Chain!Answers(q, 400) \/ Chain!Goes(q, to)
    BY DEF Chain!ReadBody
  <1>3. /\ to \in {"admin limiter", "metrics", "public limiter", "handler"}
        /\ to = "admin limiter" => kindOf[q].route \in AdminRoutes
        /\ to = "metrics" => kindOf[q].route = "/metrics"
        /\ to = "public limiter" => kindOf[q].route \in PublicRoutes
        /\ to = "handler" => kindOf[q].route \notin AdminRoutes \cup PublicRoutes
    BY DEF AdminRoutes, PublicRoutes, Chain!Guarded
  <1> HIDE DEF to
  <1>4. /\ place' \in [Requests -> Chain!Places]
        /\ place'[q] = "answered" \/ place'[q] = to
        /\ \A p \in Requests : p # q => place'[p] = place[p]
    <2>1. to \in Chain!Places
      BY <1>3 DEF Chain!Places
    <2> QED
      BY <1>2, <2>1, Places
  <1>5. Placed(q)'
    BY <1>1, <1>3, <1>4 DEF ChainInv, Placed
  <1>6. ASSUME NEW l \in LimiterNames, NEW c \in Addresses PROVE q \notin Past(l, c)'
    BY <1>1, <1>3, <1>4 DEF ChainInv, Placed, Past, PastAdmin, PastPublic
  <1> QED
    BY <1>1, <1>4, <1>5, <1>6, OneMoves

LEMMA MetricsAccessKeeps ==
  ASSUME ChainInv, NEW q \in Requests, Chain!MetricsAccess(q)
  PROVE  ChainInv'
  <1>1. /\ place[q] = "metrics"
        /\ Chain!Goes(q, IF Chain!Ip(q) \in Listed THEN "handler" ELSE "admin limiter")
        /\ UNCHANGED <<keySet, enabled, kindOf, used, failures, compared>>
    BY DEF Chain!MetricsAccess, Chain!settings
  <1>2. /\ place' \in [Requests -> Chain!Places]
        /\ place'[q] = IF Chain!Ip(q) \in Listed THEN "handler" ELSE "admin limiter"
        /\ \A p \in Requests : p # q => place'[p] = place[p]
    <2>1. "handler" \in Chain!Places /\ "admin limiter" \in Chain!Places
      BY DEF Chain!Places
    <2> QED
      BY <1>1, <2>1, Places
  <1>3. Chain!Ip(q) = kindOf[q].sender /\ kindOf[q].route = "/metrics"
    BY <1>1, Arrived DEF ChainInv, Placed
  <1>4. Placed(q)'
    BY <1>1, <1>2, <1>3 DEF ChainInv, Placed, AdminRoutes
  <1>5. ASSUME NEW l \in LimiterNames, NEW c \in Addresses PROVE q \notin Past(l, c)'
    BY <1>1, <1>2, <1>3 DEF ChainInv, Placed, Past, PastAdmin, PastPublic, PublicRoutes
  <1> QED
    BY <1>1, <1>2, <1>4, <1>5, OneMoves

(* A limiter sends a request on, its count gone up by one, or, switched     *)
(* off, unchanged.                                                          *)
LEMMA PassingKeeps ==
  ASSUME ChainInv, NEW q \in Requests, place[q] \in {"admin limiter", "public limiter"},
         Chain!Goes(q, Chain!AfterLimiter(q)),
         UNCHANGED <<keySet, enabled, kindOf, compared>>,
         used' \in [LimiterNames -> [Addresses -> Nat]],
         failures' \in [LimiterNames -> [Addresses -> Nat]],
         \A l \in LimiterNames, c \in Addresses :
           /\ used'[l][c] <= Budgets[l]
           /\ used'[l][c] + failures'[l][c] =
                IF l = Chain!Limiter(q) /\ c = Chain!Ip(q) /\ enabled[l]
                THEN used[l][c] + failures[l][c] + 1 ELSE used[l][c] + failures[l][c]
  PROVE  ChainInv'
  <1> DEFINE to == Chain!AfterLimiter(q)
  <1>1. /\ place[q] = "admin limiter" => to = "key" /\ kindOf[q].route \in AdminRoutes
        /\ place[q] = "public limiter" =>
             /\ kindOf[q].route \in PublicRoutes
             /\ to = IF kindOf[q].route = "/graphql" THEN "document" ELSE "handler"
    BY DEF Chain!AfterLimiter, Chain!Limiter, ChainInv, Placed
  <1> HIDE DEF to
  <1>2. /\ place' \in [Requests -> Chain!Places] /\ place'[q] = to
        /\ \A p \in Requests : p # q => place'[p] = place[p]
    <2>1. to \in Chain!Places
      BY <1>1 DEF Chain!Places
    <2> QED
      BY <2>1, Places DEF to
  <1>3. ChainTyped'
    BY <1>2 DEF ChainInv, ChainTyped
  <1>4. PublicRoutes \cap AdminRoutes = {}
    BY DEF PublicRoutes, AdminRoutes, Chain!Guarded
  <1>5. Placed(q)'
    BY <1>1, <1>2, <1>4 DEF ChainInv, Placed
  <1>6. Chain!Ip(q) = kindOf[q].sender
    BY Arrived
  <1>7. ASSUME NEW l \in LimiterNames, NEW c \in Addresses, q \in Past(l, c)'
        PROVE  l = Chain!Limiter(q) /\ c = Chain!Ip(q)
    BY <1>1, <1>2, <1>4, <1>6, <1>7
       DEF Past, PastAdmin, PastPublic, Chain!Limiter, LimiterNames, ChainInv, Placed
  <1>8. ASSUME NEW l \in LimiterNames, NEW c \in Addresses
        PROVE  /\ used'[l][c] <= Budgets[l]
               /\ \/ /\ used'[l][c] + failures'[l][c] = used[l][c] + failures[l][c]
                     /\ q \in Past(l, c)' => q \in Past(l, c) \/ ~enabled[l]
                  \/ used'[l][c] + failures'[l][c] = used[l][c] + failures[l][c] + 1
    BY <1>7
  <1>9. /\ enabled' = enabled /\ keySet' = keySet
        /\ \A p \in Requests : p # q =>
             /\ kindOf'[p] = kindOf[p] /\ place'[p] = place[p]
             /\ p \in compared' <=> p \in compared
    BY <1>2
  <1> QED
    BY <1>3, <1>5, <1>8, <1>9, OneSteps

LEMMA LimitKeeps ==
  ASSUME ChainInv, NEW q \in Requests, Chain!Limit(q) \/ Chain!LimiterFails(q)
  PROVE  ChainInv'
  <1> DEFINE l0 == Chain!Limiter(q)
             c0 == Chain!Ip(q)
  <1>1. /\ place[q] \in {"admin limiter", "public limiter"}
        /\ UNCHANGED <<keySet, enabled, kindOf, compared>>
    BY DEF Chain!Limit, Chain!LimiterFails, Chain!settings
  <1>2. l0 \in LimiterNames /\ c0 \in Addresses /\ Budgets[l0] \in Nat
    BY <1>1, Arrived, BudgetsAssumption DEF LimiterNames, Chain!Limiter, Chain!Limiters
  <1>3. \/ ~enabled[l0] /\ Chain!Goes(q, Chain!AfterLimiter(q)) /\ UNCHANGED <<used, failures>>
        \/ /\ enabled[l0] /\ used[l0][c0] < Budgets[l0]
           /\ Chain!Goes(q, Chain!AfterLimiter(q))
           /\ used' = [used EXCEPT ![l0][c0] = @ + 1]
           /\ UNCHANGED failures
        \/ Chain!Answers(q, 429) /\ UNCHANGED <<used, failures>>
        \/ /\ enabled[l0] /\ Chain!Goes(q, Chain!AfterLimiter(q))
           /\ failures' = [failures EXCEPT ![l0][c0] = @ + 1]
           /\ UNCHANGED used
    BY DEF Chain!Limit, Chain!LimiterFails
  <1> HIDE DEF l0, c0
  <1>4. /\ used \in [LimiterNames -> [Addresses -> Nat]]
        /\ failures \in [LimiterNames -> [Addresses -> Nat]]
        /\ \A l \in LimiterNames, c \in Addresses :
             used[l][c] <= Budgets[l] /\ used[l][c] \in Nat /\ failures[l][c] \in Nat
    BY DEF ChainInv, ChainTyped, Accounted
  <1>5. CASE Chain!Answers(q, 429) /\ UNCHANGED <<used, failures>>
    <2>1. /\ place' \in [Requests -> Chain!Places] /\ place'[q] = "answered"
          /\ \A p \in Requests : p # q => place'[p] = place[p]
      BY <1>5, Places
    <2>2. Placed(q)'
      BY <1>1, <2>1 DEF ChainInv, Placed
    <2>3. ASSUME NEW l \in LimiterNames, NEW c \in Addresses PROVE q \notin Past(l, c)'
      BY <1>1, <2>1 DEF ChainInv, Placed, Past, PastAdmin, PastPublic
    <2> QED
      BY <1>1, <1>5, <2>1, <2>2, <2>3, OneMoves
  <1>6. CASE ~enabled[l0] /\ Chain!Goes(q, Chain!AfterLimiter(q)) /\ UNCHANGED <<used, failures>>
    <2>1. \A l \in LimiterNames, c \in Addresses :
            /\ used'[l][c] <= Budgets[l]
            /\ used'[l][c] + failures'[l][c] =
                 IF l = l0 /\ c = c0 /\ enabled[l]
                 THEN used[l][c] + failures[l][c] + 1 ELSE used[l][c] + failures[l][c]
      BY <1>4, <1>6
    <2> QED
      BY <1>1, <1>4, <1>6, <2>1, PassingKeeps DEF l0, c0
  <1>7. CASE /\ enabled[l0] /\ used[l0][c0] < Budgets[l0]
             /\ Chain!Goes(q, Chain!AfterLimiter(q))
             /\ used' = [used EXCEPT ![l0][c0] = @ + 1]
             /\ UNCHANGED failures
    <2>1. /\ used' \in [LimiterNames -> [Addresses -> Nat]]
          /\ \A l \in LimiterNames, c \in Addresses :
               used'[l][c] = IF l = l0 /\ c = c0 THEN used[l][c] + 1 ELSE used[l][c]
      BY <1>2, <1>4, <1>7
    <2>2. ASSUME NEW l \in LimiterNames, NEW c \in Addresses
          PROVE  /\ used'[l][c] <= Budgets[l]
                 /\ used'[l][c] + failures'[l][c] =
                      IF l = l0 /\ c = c0 /\ enabled[l]
                      THEN used[l][c] + failures[l][c] + 1 ELSE used[l][c] + failures[l][c]
      <3>1. CASE l = l0 /\ c = c0
        <4>1. /\ used'[l][c] = used[l][c] + 1 /\ used[l][c] < Budgets[l] /\ enabled[l]
              /\ failures'[l][c] = failures[l][c] /\ Budgets[l] \in Nat
          BY <1>2, <1>7, <2>1, <3>1
        <4>2. used[l][c] \in Nat /\ failures[l][c] \in Nat
          BY <1>4
        <4> QED
          BY <3>1, <4>1, <4>2
      <3>2. CASE ~(l = l0 /\ c = c0)
        BY <1>4, <1>7, <2>1, <3>2
      <3> QED
        BY <3>1, <3>2
    <2>3. failures' \in [LimiterNames -> [Addresses -> Nat]]
      BY <1>4, <1>7
    <2> QED
      BY <1>1, <1>7, <2>1, <2>2, <2>3, PassingKeeps DEF l0, c0
  <1>8. CASE /\ enabled[l0] /\ Chain!Goes(q, Chain!AfterLimiter(q))
             /\ failures' = [failures EXCEPT ![l0][c0] = @ + 1]
             /\ UNCHANGED used
    <2>1. /\ failures' \in [LimiterNames -> [Addresses -> Nat]]
          /\ \A l \in LimiterNames, c \in Addresses :
               failures'[l][c] = IF l = l0 /\ c = c0 THEN failures[l][c] + 1 ELSE failures[l][c]
      BY <1>2, <1>4, <1>8
    <2>2. ASSUME NEW l \in LimiterNames, NEW c \in Addresses
          PROVE  /\ used'[l][c] <= Budgets[l]
                 /\ used'[l][c] + failures'[l][c] =
                      IF l = l0 /\ c = c0 /\ enabled[l]
                      THEN used[l][c] + failures[l][c] + 1 ELSE used[l][c] + failures[l][c]
      <3>1. CASE l = l0 /\ c = c0
        BY <1>2, <1>4, <1>8, <2>1, <3>1
      <3>2. CASE ~(l = l0 /\ c = c0)
        BY <1>4, <1>8, <2>1, <3>2
      <3> QED
        BY <3>1, <3>2
    <2>3. used' \in [LimiterNames -> [Addresses -> Nat]]
      BY <1>4, <1>8
    <2> QED
      BY <1>1, <1>8, <2>1, <2>2, <2>3, PassingKeeps DEF l0, c0
  <1> QED
    BY <1>3, <1>5, <1>6, <1>7, <1>8

LEMMA CheckKeyKeeps ==
  ASSUME ChainInv, NEW q \in Requests, Chain!CheckKey(q)
  PROVE  ChainInv'
  <1>1. /\ place[q] = "key"
        /\ UNCHANGED <<keySet, enabled, kindOf, used, failures>>
        /\ \/ \E n : Chain!Answers(q, n) /\ compared' \in {compared, compared \cup {q}}
           \/ /\ keySet /\ kindOf[q].key = "right"
              /\ Chain!Goes(q, "handler") /\ compared' = compared
    BY DEF Chain!CheckKey, Chain!settings
  <1>2. /\ place' \in [Requests -> Chain!Places]
        /\ \A p \in Requests : p # q => place'[p] = place[p]
        /\ \/ place'[q] = "answered"
           \/ /\ place'[q] = "handler" /\ compared' = compared
              /\ keySet /\ kindOf[q].key = "right"
    <2>1. "handler" \in Chain!Places
      BY DEF Chain!Places
    <2>2. CASE \E n : Chain!Answers(q, n)
      BY <2>2, Places
    <2>3. CASE Chain!Goes(q, "handler") /\ compared' = compared /\ keySet /\ kindOf[q].key = "right"
      BY <2>1, <2>3, Places
    <2> QED
      BY <1>1, <2>2, <2>3
  <1>3. compared' \subseteq compared \cup {q} /\ compared \subseteq compared'
    BY <1>1
  <1>4. q \notin compared /\ kindOf[q].route \in AdminRoutes
    BY <1>1 DEF ChainInv, Placed
  <1>5. ChainTyped'
    BY <1>1, <1>2, <1>3 DEF ChainInv, ChainTyped
  <1>6. Placed(q)'
    BY <1>1, <1>2, <1>3, <1>4 DEF ChainInv, Placed
  <1>7. ASSUME NEW l \in LimiterNames, NEW c \in Addresses, q \in Past(l, c)'
        PROVE  q \in Past(l, c)
    <2>1. PublicRoutes \cap AdminRoutes = {}
      BY DEF PublicRoutes, AdminRoutes, Chain!Guarded
    <2> QED
      BY <1>1, <1>2, <1>4, <1>7, <2>1 DEF Past, PastAdmin, PastPublic
  <1>8. ASSUME NEW l \in LimiterNames, NEW c \in Addresses
        PROVE  /\ used'[l][c] <= Budgets[l]
               /\ used'[l][c] + failures'[l][c] = used[l][c] + failures[l][c]
               /\ q \in Past(l, c)' => q \in Past(l, c) \/ ~enabled[l]
    BY <1>1, <1>7 DEF ChainInv, Accounted
  <1>9. /\ enabled' = enabled /\ keySet' = keySet
        /\ \A p \in Requests : p # q =>
             /\ kindOf'[p] = kindOf[p] /\ place'[p] = place[p]
             /\ p \in compared' <=> p \in compared
    BY <1>1, <1>2, <1>3
  <1> QED
    BY <1>5, <1>6, <1>8, <1>9, OneSteps

(* The document, its price, and the handler.                                *)
LEMMA DocumentKeeps ==
  ASSUME ChainInv, NEW q \in Requests, Chain!Validate(q) \/ Chain!PriceIt(q)
  PROVE  ChainInv'
  <1>1. /\ place[q] \in {"document", "price"}
        /\ UNCHANGED <<keySet, enabled, kindOf, used, failures, compared>>
        /\ Chain!Answers(q, 400) \/ Chain!Goes(q, "price") \/ Chain!Goes(q, "handler")
    BY DEF Chain!Validate, Chain!PriceIt, Chain!settings
  <1>2. /\ place' \in [Requests -> Chain!Places]
        /\ \A p \in Requests : p # q => place'[p] = place[p]
        /\ place'[q] \in {"answered", "price", "handler"}
    <2>1. "handler" \in Chain!Places /\ "price" \in Chain!Places
      BY DEF Chain!Places
    <2>2. CASE Chain!Answers(q, 400)
      BY <2>2, Places
    <2>3. CASE Chain!Goes(q, "price")
      BY <2>1, <2>3, Places
    <2>4. CASE Chain!Goes(q, "handler")
      BY <2>1, <2>4, Places
    <2> QED
      BY <1>1, <2>2, <2>3, <2>4
  <1>3. kindOf[q].route = "/graphql" /\ kindOf[q] # Unasked /\ q \notin compared
    BY <1>1 DEF ChainInv, Placed
  <1>4. "/graphql" \in PublicRoutes /\ "/graphql" \notin AdminRoutes
    BY DEF PublicRoutes, AdminRoutes, Chain!Guarded
  <1>5. Placed(q)'
    BY <1>1, <1>2, <1>3, <1>4 DEF ChainInv, Placed
  <1>6. ASSUME NEW l \in LimiterNames, NEW c \in Addresses, q \in Past(l, c)'
        PROVE  q \in Past(l, c)
    BY <1>1, <1>2, <1>3, <1>6 DEF Past, PastAdmin, PastPublic
  <1> QED
    BY <1>1, <1>2, <1>5, <1>6, OneMoves

LEMMA HandleKeeps ==
  ASSUME ChainInv, NEW q \in Requests, Chain!Handle(q)
  PROVE  ChainInv'
  <1>1. /\ place[q] = "handler"
        /\ place' = [place EXCEPT ![q] = "handled"]
        /\ UNCHANGED <<keySet, enabled, kindOf, used, failures, compared>>
    BY DEF Chain!Handle, Chain!settings
  <1>2. /\ place' \in [Requests -> Chain!Places] /\ place'[q] = "handled"
        /\ \A p \in Requests : p # q => place'[p] = place[p]
    BY <1>1 DEF ChainInv, ChainTyped, Chain!Places
  <1>3. Placed(q)'
    BY <1>1, <1>2 DEF ChainInv, Placed
  <1>4. ASSUME NEW l \in LimiterNames, NEW c \in Addresses, q \in Past(l, c)'
        PROVE  q \in Past(l, c)
    BY <1>1, <1>2, <1>4 DEF Past, PastAdmin, PastPublic
  <1> QED
    BY <1>1, <1>2, <1>3, <1>4, OneMoves

LEMMA ChainInvInductive ==
  /\ Chain!Init => ChainInv
  /\ ChainInv /\ [Chain!Next]_Chain!vars => ChainInv'
  <1>1. ASSUME Chain!Init PROVE ChainInv
    <2>1. ChainTyped
      BY <1>1 DEF Chain!Init, ChainTyped, LimiterNames, Chain!Limiters, Chain!Places
    <2>2. \A q \in Requests : Placed(q) /\ ~PastAdmin(q) /\ ~PastPublic(q)
      BY <1>1 DEF Chain!Init, Placed, PastAdmin, PastPublic
    <2>3. ASSUME NEW l \in LimiterNames, NEW c \in Addresses
          PROVE  /\ used[l][c] <= Budgets[l]
                 /\ Cardinality(Past(l, c)) <= used[l][c] + failures[l][c]
      <3>1. Past(l, c) = {}
        BY <2>2 DEF Past
      <3>2. Cardinality(Past(l, c)) = 0
        BY <3>1, FS_EmptySet
      <3>3. used[l][c] = 0 /\ failures[l][c] = 0 /\ Budgets[l] \in Nat
        BY <1>1, BudgetsAssumption DEF Chain!Init, LimiterNames, Chain!Limiters
      <3> QED
        BY <3>2, <3>3
    <2> QED
      BY <2>1, <2>2, <2>3 DEF ChainInv, Accounted
  <1>2. ASSUME ChainInv, NEW q \in Requests, Chain!Step(q) PROVE ChainInv'
    BY <1>2, ArriveKeeps, ReadBodyKeeps, MetricsAccessKeeps, LimitKeeps, CheckKeyKeeps,
       DocumentKeeps, HandleKeeps DEF Chain!Step
  <1>3. ASSUME ChainInv,
               UNCHANGED <<keySet, enabled, kindOf, place, used, failures, compared>>
        PROVE  ChainInv'
    BY <1>3 DEF ChainInv, ChainTyped, Placed, Accounted, Past, PastAdmin, PastPublic
  <1> QED
    BY <1>1, <1>2, <1>3 DEF Chain!Next, Chain!Stop, Chain!settings, Chain!vars

LEMMA ChainInvIsEnough ==
  ASSUME ChainInv
  PROVE  Chain!KeysAreRationed /\ Chain!OneBudget
  <1>1. ASSUME NEW some \in SUBSET Requests, NEW l \in LimiterNames, NEW c \in Addresses,
               enabled[l],
               \A q \in some : kindOf[q] # Unasked =>
                 IF l = "admin" THEN PastAdmin(q) ELSE PastPublic(q)
        PROVE  Chain!Of(c, some) <= Budgets[l] + failures[l][c]
    <2> DEFINE T == {q \in some : kindOf[q] # Unasked /\ kindOf[q].sender = c}
    <2>1. Chain!Of(c, some) = Cardinality(T)
      BY SameCount DEF Chain!Of
    <2>2. T \subseteq Past(l, c)
      BY <1>1 DEF Past
    <2>3. IsFiniteSet(Past(l, c))
      <3>1. Past(l, c) \subseteq Requests
        BY DEF Past
      <3> QED
        BY <3>1, BudgetsAssumption, FS_Subset
    <2> HIDE DEF T
    <2>4. /\ Cardinality(T) <= Cardinality(Past(l, c))
          /\ Cardinality(T) \in Nat /\ Cardinality(Past(l, c)) \in Nat
      BY <2>2, <2>3, FS_Subset, FS_CardinalityType
    <2>5. /\ Cardinality(Past(l, c)) <= used[l][c] + failures[l][c] /\ used[l][c] <= Budgets[l]
          /\ used[l][c] \in Nat /\ failures[l][c] \in Nat /\ Budgets[l] \in Nat
      BY <1>1, BudgetsAssumption
         DEF ChainInv, ChainTyped, Accounted, LimiterNames, Chain!Limiters
    <2> QED
      BY <2>1, <2>4, <2>5
  <1>2. Chain!KeysAreRationed
    <2>1. ASSUME enabled["admin"], NEW c \in Addresses
          PROVE  Chain!Of(c, compared) <= Budgets["admin"] + failures["admin"][c]
      <3>1. compared \in SUBSET Requests /\ "admin" \in LimiterNames
        BY DEF ChainInv, ChainTyped, LimiterNames
      <3> QED
        BY <1>1, <2>1, <3>1 DEF PastAdmin
    <2>2. ASSUME NEW q \in Chain!Ran(Chain!Guarded \cup {"/metrics"})
          PROVE  \/ keySet /\ kindOf[q].key = "right"
                 \/ kindOf[q].route = "/metrics" /\ kindOf[q].sender \in Listed
      BY DEF Chain!Ran, ChainInv, Placed, AdminRoutes
    <2> QED
      BY <2>1, <2>2 DEF Chain!KeysAreRationed
  <1>3. Chain!OneBudget
    <2>1. ASSUME enabled["public"], NEW c \in Addresses
          PROVE  Chain!Of(c, {q \in Requests :
                    \/ place[q] \in {"document", "price"}
                    \/ kindOf[q] # Unasked /\ kindOf[q].route \in {"/graphql", "/api/export"}
                       /\ place[q] \in {"handler", "handled"}})
                 <= Budgets["public"] + failures["public"][c]
      <3> DEFINE some == {q \in Requests :
                    \/ place[q] \in {"document", "price"}
                    \/ kindOf[q] # Unasked /\ kindOf[q].route \in {"/graphql", "/api/export"}
                       /\ place[q] \in {"handler", "handled"}}
      <3>1. some \in SUBSET Requests /\ "public" \in LimiterNames
        BY DEF LimiterNames
      <3>2. \A q \in some : PastPublic(q)
        BY DEF PastPublic, PublicRoutes
      <3> HIDE DEF some
      <3>3. Chain!Of(c, some) <= Budgets["public"] + failures["public"][c]
        BY <1>1, <2>1, <3>1, <3>2
      <3> QED
        BY <3>3 DEF some
    <2> QED
      BY <2>1 DEF Chain!OneBudget
  <1> QED
    BY <1>2, <1>3

-----------------------------------------------------------------------------
(* A limiter whose entries are filtered, reset and cleaned up as they are   *)
(* lets no more through than its two limits, and serves who waits for what  *)
(* it announced; the chain compares no more keys, and prices no more        *)
(* operations, than the budgets of a client: RateLimiter.checkLimit and the *)
(* order of startServer's middlewares.                                      *)
THEOREM ClientsAreRationed == Limits!Spec /\ Chain!Spec => []BudgetsAreKept
  <1>1. LimitsInv /\ ChainInv => BudgetsAreKept
    BY LimitsInvIsEnough, ChainInvIsEnough DEF BudgetsAreKept
  <1>2. Limits!Spec => []LimitsInv
    BY LimitsInvInductive, PTL DEF Limits!Spec
  <1>3. Chain!Spec => []ChainInv
    BY ChainInvInductive, PTL DEF Chain!Spec
  <1> QED
    BY <1>1, <1>2, <1>3, PTL

===============================================================================
