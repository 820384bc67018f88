-------------------------- MODULE ReplyCacheProofs --------------------------
(***************************************************************************)
(* Lemmas about the cache of replies: what a hit and a new answer leave in *)
(* it, and where, for every size.                                          *)
(***************************************************************************)
EXTENDS ReplyCache, SequenceTheorems, TLAPS

\* move_to_end: the entry goes last, those behind it move up by one.
LEMMA TouchedProperties ==
    ASSUME NEW Entries, cache \in Seq(Entries), NEW i \in DOMAIN cache
    PROVE  /\ Touched(i) \in Seq(Entries)
           /\ Len(Touched(i)) = Len(cache)
           /\ \A k \in 1 .. i - 1 : Touched(i)[k] = cache[k]
           /\ \A k \in i .. Len(cache) - 1 : Touched(i)[k] = cache[k + 1]
           /\ Touched(i)[Len(cache)] = cache[i]
<1> DEFINE n == Len(cache)
           a == SubSeq(cache, 1, i - 1)
           b == SubSeq(cache, i + 1, n)
<1>1. n \in Nat /\ i \in 1 .. n /\ cache[i] \in Entries
  OBVIOUS
<1>2. /\ a \in Seq(Entries) /\ Len(a) = i - 1
      /\ \A k \in 1 .. i - 1 : a[k] = cache[k]
  BY <1>1
<1>3. /\ b \in Seq(Entries) /\ Len(b) = n - i
      /\ \A k \in 1 .. n - i : b[k] = cache[i + k]
  BY <1>1
<1> HIDE DEF a, b
<1>4. /\ a \o b \in Seq(Entries) /\ Len(a \o b) = n - 1
      /\ \A k \in 1 .. i - 1 : (a \o b)[k] = cache[k]
      /\ \A k \in i .. n - 1 : (a \o b)[k] = b[k - (i - 1)]
  BY <1>1, <1>2, <1>3
<1>5. \A k \in i .. n - 1 : (a \o b)[k] = cache[k + 1]
  <2> TAKE k \in i .. n - 1
  <2>1. k - (i - 1) \in 1 .. n - i /\ i + (k - (i - 1)) = k + 1
    BY <1>1
  <2> QED BY <1>3, <1>4, <2>1
<1>6. Touched(i) = Append(a \o b, cache[i])
  BY DEF Touched, RemoveAt, a, b
<1> HIDE DEF n
<1> DEFINE ab == a \o b
<1>7. /\ ab \in Seq(Entries) /\ Len(ab) = n - 1 /\ Touched(i) = Append(ab, cache[i])
      /\ \A k \in 1 .. n - 1 : Append(ab, cache[i])[k] = ab[k]
      /\ Append(ab, cache[i])[n] = cache[i]
      /\ Append(ab, cache[i]) \in Seq(Entries) /\ Len(Append(ab, cache[i])) = n
  <2>1. ab \in Seq(Entries) /\ Len(ab) = n - 1 /\ Touched(i) = Append(ab, cache[i])
    BY <1>4, <1>6
  <2> HIDE DEF ab
  <2> QED BY <1>1, <2>1, AppendProperties
<1> QED
  <2>1. \A k \in 1 .. i - 1 : k \in 1 .. n - 1
    BY <1>1
  <2>2. \A k \in i .. n - 1 : k \in 1 .. n - 1
    BY <1>1
  <2> QED BY <1>4, <1>5, <1>7, <2>1, <2>2 DEF n

\* The position from which the entry at position k came when the i-th of n was
\* moved to the end.
Before(i, n, k) == IF k < i THEN k ELSE IF k < n THEN k + 1 ELSE i

\* It is a permutation that keeps the order of all but the last.
LEMMA BeforeProperties ==
    ASSUME NEW n \in Nat, NEW i \in 1 .. n
    PROVE  /\ \A k \in 1 .. n : Before(i, n, k) \in 1 .. n
           /\ \A j, k \in 1 .. n : Before(i, n, j) = Before(i, n, k) => j = k
           /\ \A j, k \in 1 .. n : j < k /\ k # n => Before(i, n, j) < Before(i, n, k)
           /\ Before(i, n, n) = i
           /\ \A k \in 1 .. n - 1 : Before(i, n, k) # i
           /\ \A x \in 1 .. n : \E k \in 1 .. n : Before(i, n, k) = x
<1>1. \A k \in 1 .. n : Before(i, n, k) \in 1 .. n
  BY DEF Before
<1>2. \A j, k \in 1 .. n : Before(i, n, j) = Before(i, n, k) => j = k
  BY DEF Before
<1>3. \A j, k \in 1 .. n : j < k /\ k # n => Before(i, n, j) < Before(i, n, k)
  BY DEF Before
<1>4. Before(i, n, n) = i /\ \A k \in 1 .. n - 1 : Before(i, n, k) # i
  BY DEF Before
<1>5. \A x \in 1 .. n : \E k \in 1 .. n : Before(i, n, k) = x
  <2> TAKE x \in 1 .. n
  <2>1. CASE x < i
    BY <2>1 DEF Before
  <2>2. CASE x = i
    BY <1>4, <2>2
  <2>3. CASE x > i
    <3>1. x - 1 \in 1 .. n /\ Before(i, n, x - 1) = x
      BY <2>3 DEF Before
    <3> QED BY <3>1
  <2> QED BY <2>1, <2>2, <2>3
<1> QED BY <1>1, <1>2, <1>3, <1>4, <1>5

\* A new entry goes last; the oldest makes room for it when the cache is full.
LEMMA StoreProperties ==
    ASSUME NEW Entries, cache \in Seq(Entries), NEW id, NEW op, NEW reply,
           [id |-> id, op |-> op, reply |-> reply] \in Entries,
           Store(id, op, reply)
    PROVE  /\ cache' \in Seq(Entries)
           /\ cache'[Len(cache')] = [id |-> id, op |-> op, reply |-> reply]
           /\ \E s \in {0, 1} :
                 /\ s = 1 <=> Len(cache) >= CacheSize
                 /\ Len(cache') = Len(cache) + 1 - s
                 /\ \A k \in 1 .. Len(cache) - s : cache'[k] = cache[k + s]
<1> DEFINE e == [id |-> id, op |-> op, reply |-> reply]
           n == Len(cache)
           c == Append(cache, e)
<1>1. e \in Entries /\ n \in Nat /\ CacheSize \in Nat \ {0}
  BY CacheAssumption
<1> HIDE DEF e
<1>2. /\ c \in Seq(Entries) /\ Len(c) = n + 1 /\ c[n + 1] = e
      /\ \A k \in 1 .. n : c[k] = cache[k]
  BY <1>1
<1>3. cache' = IF n + 1 > CacheSize THEN Tail(c) ELSE c
  BY <1>2 DEF Store, Evicted, e
<1> HIDE DEF c
<1>4. CASE n + 1 > CacheSize
  <2>1. /\ Tail(c) \in Seq(Entries) /\ Len(Tail(c)) = n
        /\ \A k \in 1 .. n : Tail(c)[k] = c[k + 1]
    BY <1>1, <1>2
  <2>2. \A k \in 1 .. n - 1 : k + 1 \in 1 .. n /\ k \in 1 .. n
    BY <1>1
  <2>3. n \in 1 .. n /\ n >= CacheSize
    BY <1>1, <1>4
  <2> QED BY <1>1, <1>2, <1>3, <1>4, <2>1, <2>2, <2>3 DEF e
<1>5. CASE ~(n + 1 > CacheSize)
  BY <1>1, <1>2, <1>3, <1>5 DEF e
<1> QED BY <1>4, <1>5

\* After a hit the cache holds the entries it held, the one asked for last.
LEMMA HitEntries ==
    ASSUME NEW Entries, cache \in Seq(Entries), NEW id, NEW op, Hit(id, op)
    PROVE  /\ cache' \in Seq(Entries) /\ Len(cache') \in Nat \ {0}
           /\ \A j \in DOMAIN cache' : \E i \in DOMAIN cache : cache'[j] = cache[i]
           /\ \E i \in DOMAIN cache : Matches(cache[i], id, op) /\ cache'[Len(cache')] = cache[i]
<1>1. PICK i \in DOMAIN cache : Matches(cache[i], id, op) /\ cache' = Touched(i)
  BY DEF Hit
<1> DEFINE n == Len(cache)
<1>2. /\ cache' \in Seq(Entries) /\ Len(cache') = n
      /\ \A k \in 1 .. i - 1 : cache'[k] = cache[k]
      /\ \A k \in i .. n - 1 : cache'[k] = cache[k + 1]
      /\ cache'[n] = cache[i]
  BY <1>1, TouchedProperties
<1>3. n \in Nat /\ DOMAIN cache = 1 .. n /\ DOMAIN cache' = 1 .. n /\ i \in 1 .. n
  BY <1>2
<1> HIDE DEF n
<1>4. ASSUME NEW j \in 1 .. n PROVE \E k \in 1 .. n : cache'[j] = cache[k]
  <2>1. CASE j < i
    BY <1>2, <1>3, <2>1
  <2>2. CASE ~(j < i) /\ j < n
    <3>1. j \in i .. n - 1 /\ j + 1 \in 1 .. n
      BY <1>3, <2>2
    <3>2. cache'[j] = cache[j + 1]
      BY <1>2, <3>1
    <3> QED BY <3>1, <3>2
  <2>3. CASE j = n
    BY <1>2, <1>3, <2>3
  <2> QED BY <1>3, <2>1, <2>2, <2>3
<1>5. Len(cache') = n /\ Len(cache') \in Nat \ {0}
  BY <1>2, <1>3
<1> QED BY <1>1, <1>2, <1>3, <1>4, <1>5

\* After a new answer the cache holds that answer last, and entries it held.
LEMMA StoreEntries ==
    ASSUME NEW Entries, cache \in Seq(Entries), NEW id, NEW op, NEW reply,
           [id |-> id, op |-> op, reply |-> reply] \in Entries,
           Store(id, op, reply)
    PROVE  LET e == [id |-> id, op |-> op, reply |-> reply]
           IN  /\ cache' \in Seq(Entries) /\ Len(cache') \in Nat \ {0}
               /\ cache'[Len(cache')] = e
               /\ \A j \in DOMAIN cache' : cache'[j] = e
                      \/ \E i \in DOMAIN cache : cache'[j] = cache[i]
<1> DEFINE e == [id |-> id, op |-> op, reply |-> reply]
           n == Len(cache)
           m == Len(cache')
<1>0. e \in Entries
  OBVIOUS
<1>1. cache' \in Seq(Entries) /\ cache'[m] = e
  BY <1>0, StoreProperties
<1>a. \E s \in {0, 1} : /\ s = 1 <=> n >= CacheSize
                       /\ m = n + 1 - s
                       /\ \A k \in 1 .. n - s : cache'[k] = cache[k + s]
  BY <1>0, StoreProperties
<1>2. n \in Nat /\ m \in Nat /\ DOMAIN cache = 1 .. n /\ DOMAIN cache' = 1 .. m
      /\ CacheSize \in Nat \ {0}
  BY <1>1, CacheAssumption
<1> HIDE DEF e, n, m
<1>3. PICK s \in {0, 1} : /\ s = 1 <=> n >= CacheSize
                          /\ m = n + 1 - s
                          /\ \A k \in 1 .. n - s : cache'[k] = cache[k + s]
  BY <1>a
<1>4. m # 0
  BY <1>2, <1>3
<1>5. ASSUME NEW j \in 1 .. m, j # m PROVE \E i \in 1 .. n : cache'[j] = cache[i]
  <2>1. j \in 1 .. n - s /\ j + s \in 1 .. n
    BY <1>2, <1>3, <1>5
  <2> QED BY <1>3, <2>1
<1> QED BY <1>1, <1>2, <1>4, <1>5 DEF e, m
=============================================================================
