------------------------- MODULE ReplyWindowProofs -------------------------
(***************************************************************************)
(* Proofs about the duplicate suppression of rpc.py for every set of       *)
(* identifiers, operations and replies and every cache size.               *)
(***************************************************************************)
EXTENDS ReplyWindow, ReplyCacheProofs, FiniteSetTheorems

Entry == [id : RequestId, op : Content, reply : Reply]

\* One entry for an identifier.
OneEntryEach == \A i, j \in DOMAIN cache : cache[i].id = cache[j].id => i = j

\* What is kept is what was computed last.
KeptAsGiven == \A i \in DOMAIN cache : cache[i] \in given

\* The fresher entries were answered after the older ones' last answers.
FreshLast == \A i, j \in DOMAIN cache : i < j => cache[j].id \in since[cache[i].id]

\* Whoever was answered and is not kept has been pushed out by CacheSize others.
PushedOut == \A g \in given : ~Cached(g.id) => Cardinality(since[g.id]) >= CacheSize

SinceFinite == \A id \in RequestId : IsFiniteSet(since[id])

WindowInv == /\ WindowTypeOK
             /\ OneEntryEach
             /\ KeptAsGiven
             /\ RepeatsTheAnswer
             /\ FreshLast
             /\ PushedOut
             /\ SinceFinite

-----------------------------------------------------------------------------
\* The invariant holds of an empty cache.
LEMMA WindowInitInv == WindowInit => WindowInv
<1> SUFFICES ASSUME WindowInit PROVE WindowInv
  OBVIOUS
<1>1. cache = <<>> /\ DOMAIN cache = {} /\ given = {} /\ returned = {}
  BY DEF WindowInit
<1>2. WindowTypeOK
  BY <1>1, CacheAssumption DEF WindowInit, WindowTypeOK
<1>3. SinceFinite
  BY FS_EmptySet DEF WindowInit, SinceFinite
<1> QED
  BY <1>1, <1>2, <1>3
  DEF WindowInv, OneEntryEach, KeptAsGiven, RepeatsTheAnswer, FreshLast, PushedOut

\* What answering does to `since'.
LEMMA AnsweredProperties ==
    ASSUME WindowTypeOK, SinceFinite, NEW id \in RequestId, Answered(id)
    PROVE  /\ since' \in [RequestId -> SUBSET RequestId]
           /\ SinceFinite'
           /\ \A x \in RequestId \ {id} :
                 /\ id \in since'[x] /\ since[x] \subseteq since'[x]
                 /\ Cardinality(since[x]) \in Nat /\ Cardinality(since'[x]) \in Nat
                 /\ Cardinality(since[x]) <= Cardinality(since'[x])
<1>1. since' = [x \in RequestId |-> IF x = id THEN {} ELSE since[x] \cup {id}]
  BY DEF Answered
<1>2. since \in [RequestId -> SUBSET RequestId]
  BY DEF WindowTypeOK
<1>3. \A x \in RequestId : since'[x] \in SUBSET RequestId
  BY <1>1, <1>2
<1>4. \A x \in RequestId : IsFiniteSet(since'[x])
  <2> TAKE x \in RequestId
  <2>1. IsFiniteSet(since[x]) /\ IsFiniteSet(since[x] \cup {id}) /\ IsFiniteSet({})
    BY FS_AddElement, FS_EmptySet DEF SinceFinite
  <2> QED BY <1>1, <2>1
<1>5. ASSUME NEW x \in RequestId \ {id}
      PROVE  /\ id \in since'[x] /\ since[x] \subseteq since'[x]
             /\ Cardinality(since[x]) \in Nat /\ Cardinality(since'[x]) \in Nat
             /\ Cardinality(since[x]) <= Cardinality(since'[x])
  <2>1. since'[x] = since[x] \cup {id}
    BY <1>1
  <2>2. IsFiniteSet(since[x]) /\ IsFiniteSet(since'[x])
    BY <1>4 DEF SinceFinite
  <2>3. since[x] \subseteq since'[x]
    BY <2>1
  <2>4. Cardinality(since[x]) <= Cardinality(since'[x])
    BY <2>2, <2>3, FS_Subset
  <2>5. Cardinality(since[x]) \in Nat /\ Cardinality(since'[x]) \in Nat
    BY <2>2, FS_CardinalityType
  <2> QED BY <2>1, <2>3, <2>4, <2>5
<1> QED
  BY <1>1, <1>2, <1>3, <1>4, <1>5 DEF SinceFinite

\* Every call keeps the invariant.
LEMMA WindowInduction == WindowInv /\ [WindowNext]_windowVars => WindowInv'
<1> SUFFICES ASSUME WindowInv, [WindowNext]_windowVars PROVE WindowInv'
  OBVIOUS
<1>t. /\ WindowTypeOK /\ SinceFinite /\ cache \in Seq(Entry) /\ Len(cache) \in Nat
      /\ DOMAIN cache = 1 .. Len(cache) /\ Len(cache) <= CacheSize
      /\ \A i \in DOMAIN cache : cache[i] \in Entry /\ cache[i].id \in RequestId
      /\ given \subseteq Entry /\ returned \subseteq Entry
      /\ \A e \in Entry : e = [id |-> e.id, op |-> e.op, reply |-> e.reply]
  <2>1. /\ WindowTypeOK /\ SinceFinite /\ cache \in Seq(Entry) /\ Len(cache) <= CacheSize
        /\ given \subseteq Entry /\ returned \subseteq Entry
    BY DEF WindowInv, WindowTypeOK, Entry
  <2>2. \A e \in Entry : e.id \in RequestId /\ e = [id |-> e.id, op |-> e.op, reply |-> e.reply]
    BY DEF Entry
  <2>3. Len(cache) \in Nat /\ DOMAIN cache = 1 .. Len(cache)
        /\ \A i \in DOMAIN cache : cache[i] \in Entry
    BY <2>1
  <2> QED BY <2>1, <2>2, <2>3
<1>1. CASE UNCHANGED windowVars
  BY <1>1 DEF windowVars, WindowInv, WindowTypeOK, OneEntryEach, KeptAsGiven,
              RepeatsTheAnswer, FreshLast, PushedOut, Cached, SinceFinite
<1>2. ASSUME NEW id \in RequestId, NEW op \in Content, ReturnConflict(id, op)
      PROVE  WindowInv'
  <2>1. UNCHANGED <<cache, given, since>> /\ returned' = {}
    BY <1>2 DEF ReturnConflict, Conflict
  <2> QED
    BY <2>1 DEF WindowInv, WindowTypeOK, OneEntryEach, KeptAsGiven,
                RepeatsTheAnswer, FreshLast, PushedOut, Cached, SinceFinite
<1>3. ASSUME NEW id \in RequestId, NEW op \in Content, ReturnStored(id, op)
      PROVE  WindowInv'
  <2>1. PICK i \in DOMAIN cache : Matches(cache[i], id, op) /\ cache' = Touched(i)
    BY <1>3 DEF ReturnStored, Hit
  <2> DEFINE n == Len(cache)
  <2>2. /\ cache[i].id = id /\ cache[i].op = op /\ given' = given /\ Answered(id)
        /\ returned' = {[id |-> id, op |-> op, reply |-> cache'[Len(cache')].reply]}
    BY <1>3, <2>1 DEF ReturnStored, Matches, LatestReply
  <2>3. /\ cache' \in Seq(Entry) /\ Len(cache') = n /\ DOMAIN cache' = 1 .. n
        /\ \A k \in 1 .. i - 1 : cache'[k] = cache[k]
        /\ \A k \in i .. n - 1 : cache'[k] = cache[k + 1]
        /\ cache'[n] = cache[i] /\ i \in 1 .. n /\ n \in Nat
    BY <1>t, <2>1, TouchedProperties
  <2> HIDE DEF n
  <2>m. /\ \A k \in 1 .. n : Before(i, n, k) \in 1 .. n
        /\ \A j, k \in 1 .. n : Before(i, n, j) = Before(i, n, k) => j = k
        /\ \A j, k \in 1 .. n : j < k /\ k # n => Before(i, n, j) < Before(i, n, k)
        /\ Before(i, n, n) = i
        /\ \A k \in 1 .. n - 1 : Before(i, n, k) # i
        /\ \A x \in 1 .. n : \E k \in 1 .. n : Before(i, n, k) = x
    <3>1. n \in Nat /\ i \in 1 .. n
      BY <2>3
    <3> QED BY <3>1, BeforeProperties
  <2> DEFINE old(k) == Before(i, n, k)
  <2>4. /\ \A k \in 1 .. n : old(k) \in 1 .. n
        /\ \A j, k \in 1 .. n : old(j) = old(k) => j = k
        /\ \A j, k \in 1 .. n : j < k /\ k # n => old(j) < old(k)
        /\ old(n) = i
        /\ \A k \in 1 .. n - 1 : old(k) # i
        /\ \A x \in 1 .. n : \E k \in 1 .. n : old(k) = x
    BY <2>m
  <2>5. \A k \in 1 .. n : cache'[k] = cache[old(k)]
    <3> TAKE k \in 1 .. n
    <3>1. CASE k < i
      BY <2>3, <3>1 DEF Before
    <3>2. CASE ~(k < i) /\ k < n
      BY <2>3, <3>2 DEF Before
    <3>3. CASE k = n
      BY <2>3, <2>4, <3>3
    <3> QED BY <2>3, <3>1, <3>2, <3>3
  <2>6. DOMAIN cache = 1 .. n
    BY <1>t DEF n
  <2> HIDE DEF old
  <2>8. cache'[n] \in given /\ returned' = {cache[i]}
    BY <1>t, <2>2, <2>3 DEF WindowInv, KeptAsGiven
  <2>9. OneEntryEach'
    <3> SUFFICES ASSUME NEW j \in 1 .. n, NEW k \in 1 .. n, cache'[j].id = cache'[k].id
                 PROVE  j = k
      BY <2>3 DEF OneEntryEach
    <3>1. cache[old(j)].id = cache[old(k)].id /\ old(j) \in 1 .. n /\ old(k) \in 1 .. n
      BY <2>4, <2>5
    <3>2. old(j) = old(k)
      BY <2>6, <3>1 DEF WindowInv, OneEntryEach
    <3> QED BY <2>4, <3>2
  <2>10. KeptAsGiven' /\ RepeatsTheAnswer'
    <3>1. ASSUME NEW k \in 1 .. n PROVE cache'[k] \in given'
      <4>1. old(k) \in DOMAIN cache
        BY <2>4, <2>6
      <4>2. cache[old(k)] \in given
        BY <4>1 DEF WindowInv, KeptAsGiven
      <4> QED BY <2>2, <2>5, <4>2
    <3>2. DOMAIN cache' = 1 .. n
      BY <2>3
    <3>3. cache[i] \in given
      BY <1>t, <2>6 DEF WindowInv, KeptAsGiven
    <3> QED BY <2>2, <2>8, <3>1, <3>2, <3>3 DEF KeptAsGiven, RepeatsTheAnswer
  <2>11. /\ since' \in [RequestId -> SUBSET RequestId] /\ SinceFinite'
         /\ \A x \in RequestId \ {id} :
                 /\ id \in since'[x] /\ since[x] \subseteq since'[x]
                 /\ Cardinality(since[x]) \in Nat /\ Cardinality(since'[x]) \in Nat
                 /\ Cardinality(since[x]) <= Cardinality(since'[x])
    BY <1>t, <2>2, AnsweredProperties
  <2>12. FreshLast'
    <3> SUFFICES ASSUME NEW j \in 1 .. n, NEW k \in 1 .. n, j < k
                 PROVE  cache'[k].id \in since'[cache'[j].id]
      BY <2>3 DEF FreshLast
    <3>0. j \in 1 .. n - 1
      BY <2>3
    <3>1. old(j) # i /\ old(j) \in 1 .. n
      BY <2>4, <3>0
    <3>2. cache[old(j)].id \in RequestId \ {id}
      BY <1>t, <2>2, <2>3, <2>6, <3>1 DEF WindowInv, OneEntryEach
    <3>3. CASE k = n
      BY <2>2, <2>3, <2>5, <2>11, <3>2, <3>3
    <3>4. CASE k # n
      <4>1. cache[old(k)].id \in since[cache[old(j)].id]
        <5>1. old(j) < old(k) /\ old(j) \in 1 .. n /\ old(k) \in 1 .. n
          BY <2>4, <3>4
        <5> QED BY <2>6, <5>1 DEF WindowInv, FreshLast
      <4> QED BY <2>5, <2>11, <3>2, <4>1
    <3> QED BY <3>3, <3>4
  <2>13. \A x : Cached(x)' <=> Cached(x)
    <3> TAKE x
    <3>1. ASSUME NEW k \in 1 .. n, cache'[k].id = x PROVE Cached(x)
      BY <2>4, <2>5, <2>6, <3>1 DEF Cached
    <3>2. ASSUME NEW j \in 1 .. n, cache[j].id = x PROVE Cached(x)'
      <4>1. PICK k \in 1 .. n : old(k) = j
        BY <2>4
      <4> QED BY <2>3, <2>5, <3>2, <4>1 DEF Cached
    <3> QED BY <2>3, <2>6, <3>1, <3>2 DEF Cached
  <2>14. PushedOut'
    <3> SUFFICES ASSUME NEW g \in given, ~Cached(g.id)
                 PROVE  Cardinality(since'[g.id]) >= CacheSize
      BY <2>2, <2>13 DEF PushedOut
    <3>1. g.id \in RequestId \ {id}
      BY <1>t, <2>1, <2>2 DEF Cached, Entry
    <3>2. Cardinality(since[g.id]) >= CacheSize
      BY DEF WindowInv, PushedOut
    <3> QED BY <2>11, <3>1, <3>2, CacheAssumption
  <2>15. WindowTypeOK'
    BY <1>t, <2>1, <2>2, <2>3, <2>6, <2>8, <2>9, <2>11 DEF WindowTypeOK, OneEntryEach, Entry, n
  <2> QED
    BY <2>9, <2>10, <2>11, <2>12, <2>14, <2>15 DEF WindowInv
<1>4. ASSUME NEW id \in RequestId, NEW op \in Content, Compute(id, op)
      PROVE  WindowInv'
  <2>1. PICK reply \in Reply :
          /\ Store(id, op, reply)
          /\ returned' = {[id |-> id, op |-> op, reply |-> reply]}
          /\ given' = {g \in given : g.id # id} \cup {[id |-> id, op |-> op, reply |-> reply]}
    BY <1>4 DEF Compute
  <2> DEFINE e == [id |-> id, op |-> op, reply |-> reply]
             n == Len(cache)
             m == Len(cache')
  <2>2. Answered(id) /\ ~Cached(id)
    BY <1>4 DEF Compute
  <2>e. e \in Entry /\ e.id = id
    BY DEF Entry
  <2>3. /\ cache' \in Seq(Entry) /\ e \in Entry /\ e.id = id
        /\ cache'[m] = e
    BY <1>t, <2>1, <2>e, StoreProperties
  <2>a. \E s \in {0, 1} : /\ s = 1 => n = CacheSize
                         /\ m = n + 1 - s /\ m <= CacheSize
                         /\ \A k \in 1 .. n - s : cache'[k] = cache[k + s]
    <3>1. n \in Nat /\ n <= CacheSize /\ CacheSize \in Nat
      BY <1>t, CacheAssumption
    <3>2. \E s \in {0, 1} : /\ s = 1 <=> n >= CacheSize
                            /\ m = n + 1 - s
                            /\ \A k \in 1 .. n - s : cache'[k] = cache[k + s]
      BY <1>t, <2>1, <2>e, StoreProperties
    <3> HIDE DEF n, m
    <3> QED BY <3>1, <3>2
  <2>4. /\ m \in Nat /\ n \in Nat /\ DOMAIN cache' = 1 .. m /\ DOMAIN cache = 1 .. n
        /\ CacheSize \in Nat \ {0}
    BY <1>t, <2>3, CacheAssumption
  <2> HIDE DEF e, n, m
  <2>b. PICK s \in {0, 1} : /\ s = 1 => n = CacheSize
                            /\ m = n + 1 - s /\ m <= CacheSize
                            /\ \A k \in 1 .. n - s : cache'[k] = cache[k + s]
    BY <2>a
  <2> DEFINE old(k) == k + s
  <2>5. /\ \A k \in 1 .. m - 1 : cache'[k] = cache[old(k)] /\ old(k) \in 1 .. n
        /\ \A j, k \in 1 .. m : j < k => old(j) < old(k)
        /\ m \in 1 .. m
    BY <2>b, <2>4
  <2>6. returned' = {e} /\ given' = {g \in given : g.id # id} \cup {e}
    BY <2>1 DEF e
  <2>7. \A k \in 1 .. m - 1 : /\ cache'[k].id \in RequestId \ {id}
                              /\ cache'[k] \in given
    <3> TAKE k \in 1 .. m - 1
    <3>1. cache'[k] = cache[old(k)] /\ old(k) \in DOMAIN cache
      BY <2>4, <2>5
    <3> HIDE DEF old
    <3> QED BY <1>t, <2>2, <3>1 DEF Cached, WindowInv, KeptAsGiven
  <2>8. OneEntryEach'
    <3> SUFFICES ASSUME NEW j \in 1 .. m, NEW k \in 1 .. m, j < k
                 PROVE  cache'[j].id # cache'[k].id
      <4>1. ASSUME NEW j \in 1 .. m, NEW k \in 1 .. m, cache'[j].id = cache'[k].id
            PROVE  j = k
        <5>1. ~(j < k) /\ ~(k < j)
          BY <4>1
        <5> QED BY <2>4, <5>1
      <4> QED BY <2>4, <4>1 DEF OneEntryEach
    <3>1. j \in 1 .. m - 1
      BY <2>4, <2>b
    <3>2. CASE k = m
      BY <2>3, <2>7, <3>1, <3>2
    <3>3. CASE k # m
      <4>1. k \in 1 .. m - 1 /\ old(j) # old(k)
        BY <2>4, <2>b, <3>3
      <4>2. /\ cache'[j] = cache[old(j)] /\ old(j) \in DOMAIN cache
            /\ cache'[k] = cache[old(k)] /\ old(k) \in DOMAIN cache
        BY <2>4, <2>5, <3>1, <4>1
      <4> HIDE DEF old
      <4> QED BY <4>1, <4>2 DEF WindowInv, OneEntryEach
    <3> QED BY <3>2, <3>3
  <2>9. KeptAsGiven' /\ RepeatsTheAnswer'
    <3>1. \A k \in 1 .. m : cache'[k] \in given'
      <4> TAKE k \in 1 .. m
      <4>1. CASE k = m
        BY <2>3, <2>6, <4>1
      <4>2. CASE k # m
        <5>1. k \in 1 .. m - 1
          BY <2>4, <4>2
        <5> QED BY <2>6, <2>7, <5>1
      <4> QED BY <4>1, <4>2
    <3> QED BY <2>4, <2>6, <3>1 DEF KeptAsGiven, RepeatsTheAnswer
  <2>10. /\ since' \in [RequestId -> SUBSET RequestId] /\ SinceFinite'
         /\ \A x \in RequestId \ {id} :
                 /\ id \in since'[x] /\ since[x] \subseteq since'[x]
                 /\ Cardinality(since[x]) \in Nat /\ Cardinality(since'[x]) \in Nat
                 /\ Cardinality(since[x]) <= Cardinality(since'[x])
    BY <1>t, <2>2, AnsweredProperties
  <2>11. FreshLast'
    <3> SUFFICES ASSUME NEW j \in 1 .. m, NEW k \in 1 .. m, j < k
                 PROVE  cache'[k].id \in since'[cache'[j].id]
      BY <2>4 DEF FreshLast
    <3>1. j \in 1 .. m - 1
      BY <2>4, <2>b
    <3>2. CASE k = m
      BY <2>3, <2>7, <2>10, <3>1, <3>2
    <3>3. CASE k # m
      <4>1. k \in 1 .. m - 1 /\ old(j) < old(k)
        BY <2>4, <2>b, <3>3
      <4>2. /\ cache'[j] = cache[old(j)] /\ old(j) \in DOMAIN cache
            /\ cache'[k] = cache[old(k)] /\ old(k) \in DOMAIN cache
        BY <2>4, <2>5, <3>1, <4>1
      <4> HIDE DEF old
      <4>3. cache[old(k)].id \in since[cache[old(j)].id]
        BY <4>1, <4>2 DEF WindowInv, FreshLast
      <4> QED BY <2>7, <2>10, <3>1, <4>2, <4>3
    <3> QED BY <3>2, <3>3
  <2>12. PushedOut'
    <3> SUFFICES ASSUME NEW g \in given', ~Cached(g.id)'
                 PROVE  Cardinality(since'[g.id]) >= CacheSize
      BY DEF PushedOut
    <3>1. g # e
      BY <2>3, <2>4, <2>5 DEF Cached
    <3>2. g \in given /\ g.id \in RequestId \ {id}
      BY <1>t, <2>6, <3>1 DEF Entry
    <3>3. CASE ~Cached(g.id)
      <4>1. Cardinality(since[g.id]) >= CacheSize
        BY <3>2, <3>3 DEF WindowInv, PushedOut
      <4> QED BY <2>4, <2>10, <3>2, <4>1
    <3>4. CASE Cached(g.id)
      <4>1. PICK i \in 1 .. n : cache[i].id = g.id
        BY <2>4, <3>4 DEF Cached
      <4>2. i = 1 /\ m = n /\ n = CacheSize
        <5>1. \A k \in 1 .. m : cache'[k].id # g.id
          BY <2>4 DEF Cached
        <5>2. i - s \notin 1 .. n - s
          <6> SUFFICES ASSUME i - s \in 1 .. n - s PROVE FALSE
            OBVIOUS
          <6>1. (i - s) + s = i /\ i - s \in 1 .. m
            BY <2>b, <2>4
          <6> QED BY <2>b, <4>1, <5>1, <6>1
        <5> QED BY <2>b, <2>4, <5>2
      <4> DEFINE f == [k \in 1 .. CacheSize |-> cache'[k].id]
      <4>3. \A k \in 1 .. CacheSize : cache'[k].id \in since'[g.id]
        <5> TAKE k \in 1 .. CacheSize
        <5>1. CASE k = m
          BY <2>3, <2>10, <3>2, <5>1
        <5>2. CASE k # m
          <6>1. k \in 1 .. n - 1 /\ k + 1 \in 1 .. n /\ i < k + 1 /\ s = 1
            BY <2>4, <2>b, <4>2, <5>2
          <6>2. cache'[k] = cache[k + 1] /\ cache[k + 1].id \in since[g.id]
            BY <2>b, <2>4, <4>1, <6>1 DEF WindowInv, FreshLast
          <6> QED BY <2>10, <3>2, <6>2
        <5> QED BY <5>1, <5>2
      <4>4. f \in Injection(1 .. CacheSize, since'[g.id])
        <5>1. f \in [1 .. CacheSize -> since'[g.id]]
          BY <4>3
        <5>2. \A j, k \in 1 .. CacheSize : f[j] = f[k] => j = k
          BY <2>4, <2>8, <4>2 DEF OneEntryEach
        <5> QED BY <5>1, <5>2 DEF Injection, IsInjective
      <4>5. IsFiniteSet(since'[g.id])
        BY <2>10, <3>2 DEF SinceFinite
      <4>6. Cardinality(1 .. CacheSize) = CacheSize /\ IsFiniteSet(1 .. CacheSize)
        BY <2>4, FS_Interval
      <4> HIDE DEF f
      <4>8. Cardinality(1 .. CacheSize) <= Cardinality(since'[g.id])
        BY <4>4, <4>5, FS_Injection
      <4>9. Cardinality(since'[g.id]) \in Nat
        BY <4>5, FS_CardinalityType
      <4> QED BY <2>4, <4>6, <4>8, <4>9
    <3> QED BY <3>3, <3>4
  <2>13. WindowTypeOK'
    BY <1>t, <2>b, <2>3, <2>4, <2>6, <2>8, <2>10 DEF WindowTypeOK, OneEntryEach, Entry, m
  <2> QED
    BY <2>8, <2>9, <2>10, <2>11, <2>12, <2>13 DEF WindowInv
<1> QED
  BY <1>1, <1>2, <1>3, <1>4 DEF WindowNext

\* The inductive invariant holds throughout.
THEOREM WindowInvariance == WindowSpec => []WindowInv
BY WindowInitInv, WindowInduction, PTL DEF WindowSpec

\* The cache stays within its size and keeps one reply for an identifier.
THEOREM WindowTypeCorrect == WindowSpec => []WindowTypeOK
<1>1. WindowInv => WindowTypeOK
  BY DEF WindowInv
<1> QED BY <1>1, WindowInvariance, PTL

\* Whoever repeats a request is told what was computed for that very request.
THEOREM RepetitionsAgree == WindowSpec => []RepeatsTheAnswer
<1>1. WindowInv => RepeatsTheAnswer
  BY DEF WindowInv
<1> QED BY <1>1, WindowInvariance, PTL

\* A request is computed again only after CacheSize others were answered: the
\* retransmission window docs/PROTOCOL.md promises, for every cache size.
THEOREM WindowKept == WindowSpec => ComputedOncePerWindow
<1> DEFINE Computed(id) == \/ ~Cached(id) /\ Cached(id)'
                           \/ \E g \in given' : g.id = id /\ g \notin given
           Recomputed == \A id \in RequestId :
                            /\ Computed(id)
                            /\ \E g \in given : g.id = id
                            => Cardinality(since[id]) >= CacheSize
<1>1. ASSUME WindowNext, NEW id \in RequestId, Computed(id)
      PROVE  ~Cached(id)
  <2>1. SUFFICES ASSUME NEW g \in given', g.id = id, g \notin given
                 PROVE  ~Cached(id)
    BY <1>1
  <2>2. PICK x \in RequestId, op \in Content : Compute(x, op)
    BY <1>1, <2>1 DEF WindowNext, ReturnStored, ReturnConflict
  <2>3. g.id = x
    BY <2>1, <2>2 DEF Compute
  <2> QED BY <2>1, <2>2, <2>3 DEF Compute
<1>2. WindowInv /\ [WindowNext]_windowVars => [Recomputed]_windowVars
  <2>1. WindowInv /\ WindowNext => Recomputed
    BY <1>1 DEF WindowInv, PushedOut
  <2> QED BY <2>1
<1> QED BY <1>2, WindowInvariance, PTL DEF WindowSpec, ComputedOncePerWindow
=============================================================================
