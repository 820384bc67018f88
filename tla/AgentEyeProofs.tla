--------------------------- MODULE AgentEyeProofs ---------------------------
(***************************************************************************)
(* Proofs about AgentEye for every length of an episode, every limit of    *)
(* the memory and whatever the contacts are called: the frames of the      *)
(* arena are accepted, disclose nothing they should not, suffice to aim,   *)
(* and the memory keeps the latest evidence they gave.                     *)
(***************************************************************************)
EXTENDS AgentEye, FiniteSetTheorems, SequenceTheorems, TLAPS

-----------------------------------------------------------------------------
(* Sequences                                                               *)

\* Ascending lists each member once, in order.
LEMMA AscendingLists ==
    ASSUME NEW S \in SUBSET Int, IsFiniteSet(S)
    PROVE  /\ Cardinality(S) \in Nat
           /\ Ascending(S) \in [1 .. Cardinality(S) -> S]
           /\ \A x \in S : \E k \in 1 .. Cardinality(S) : Ascending(S)[k] = x
           /\ \A j, k \in 1 .. Cardinality(S) : j < k => Ascending(S)[j] < Ascending(S)[k]
<1> DEFINE below(x) == {y \in S : y < x}
           rank == [x \in S |-> Cardinality(below(x))]
<1> PICK n : n = Cardinality(S)
  OBVIOUS
<1>1. n \in Nat
  BY FS_CardinalityType
<1>2. ASSUME NEW x \in S PROVE rank[x] \in 0 .. n - 1 /\ IsFiniteSet(below(x))
  <2>1. below(x) \in SUBSET S /\ x \notin below(x)
    OBVIOUS
  <2> HIDE DEF below
  <2>2. IsFiniteSet(below(x)) /\ Cardinality(below(x)) <= n /\ Cardinality(below(x)) # n
    BY <2>1, FS_Subset
  <2>3. Cardinality(below(x)) \in Nat
    BY <2>2, FS_CardinalityType
  <2> QED BY <1>1, <2>2, <2>3
<1>3. ASSUME NEW x \in S, NEW y \in S, x < y PROVE rank[x] < rank[y]
  <2> x \in Int /\ y \in Int
    OBVIOUS
  <2>5. \A z \in S : z \in Int
    OBVIOUS
  <2>6. \A z \in S : z < x => z < y
    BY <1>3, <2>5
  <2>1. below(x) \in SUBSET below(y) /\ x \in below(y) /\ x \notin below(x)
    <3>1. ~(x < x)
      OBVIOUS
    <3> QED BY <1>3, <2>6, <3>1
  <2> HIDE DEF below
  <2>2. IsFiniteSet(below(y))
    BY <1>2
  <2>3. Cardinality(below(x)) <= Cardinality(below(y)) /\ Cardinality(below(x)) # Cardinality(below(y))
    BY <2>1, <2>2, FS_Subset
  <2>4. rank[x] = Cardinality(below(x)) /\ rank[y] = Cardinality(below(y))
    OBVIOUS
  <2>7. rank[x] \in Int /\ rank[y] \in Int
    BY <1>2
  <2> QED BY <2>3, <2>4, <2>7
<1>4. rank \in [S -> 0 .. n - 1]
  <2> HIDE DEF below
  <2> QED BY <1>2
<1>5. \A x \in S : rank[x] = Cardinality({y \in S : y < x})
  OBVIOUS
<1> HIDE DEF rank
<1>6. \A x, y \in S : rank[x] = rank[y] => x = y
  <2> SUFFICES ASSUME NEW x \in S, NEW y \in S, rank[x] = rank[y] PROVE x = y
    OBVIOUS
  <2>1. rank[x] \in Int
    BY <1>4
  <2>2. ~(x < y) /\ ~(y < x)
    BY <1>3, <2>1
  <2> QED BY <2>2
<1>7. \A k \in 1 .. n : \E x \in S : rank[x] = k - 1
  <2>1. rank \in Injection(S, 0 .. n - 1)
    BY <1>4, <1>6 DEF Injection, IsInjective
  <2>2. IsFiniteSet(0 .. n - 1) /\ Cardinality(0 .. n - 1) = n
    <3>1. 0 \in Int /\ n - 1 \in Int
      BY <1>1
    <3>2. IsFiniteSet(0 .. n - 1)
          /\ Cardinality(0 .. n - 1) = IF 0 > n - 1 THEN 0 ELSE n - 1 - 0 + 1
      BY <3>1, FS_Interval
    <3> QED BY <1>1, <3>2
  <2>3. rank \in Surjection(S, 0 .. n - 1)
    BY <2>1, <2>2, FS_Injection
  <2>4. \A i \in 0 .. n - 1 : \E x \in S : rank[x] = i
    BY <2>3 DEF Surjection
  <2> QED BY <1>1, <2>4
<1> PICK s : s = Ascending(S)
  OBVIOUS
<1>8. s = [k \in 1 .. n |-> CHOOSE x \in S : Cardinality({y \in S : y < x}) = k - 1]
  BY DEF Ascending
<1>9. \A k \in 1 .. n : s[k] \in S /\ rank[s[k]] = k - 1
  <2> TAKE k \in 1 .. n
  <2>1. s[k] = CHOOSE x \in S : Cardinality({y \in S : y < x}) = k - 1
    BY <1>8
  <2>2. \E x \in S : Cardinality({y \in S : y < x}) = k - 1
    BY <1>5, <1>7
  <2>3. s[k] \in S /\ Cardinality({y \in S : y < s[k]}) = k - 1
    BY <2>1, <2>2
  <2> QED BY <1>5, <2>3
<1>10. \A x \in S : \E k \in 1 .. n : s[k] = x
  <2> TAKE x \in S
  <2>1. rank[x] + 1 \in 1 .. n /\ (rank[x] + 1) - 1 = rank[x]
    BY <1>1, <1>4
  <2> QED BY <1>6, <1>9, <2>1
<1>11. \A j, k \in 1 .. n : j < k => s[j] < s[k]
  <2> SUFFICES ASSUME NEW j \in 1 .. n, NEW k \in 1 .. n, j < k, ~(s[j] < s[k]) PROVE FALSE
    OBVIOUS
  <2>1. s[j] \in S /\ s[k] \in S /\ rank[s[j]] = j - 1 /\ rank[s[k]] = k - 1
    BY <1>9
  <2>2. s[k] < s[j] \/ s[k] = s[j]
    <3>1. s[j] \in Int /\ s[k] \in Int
      BY <2>1
    <3> QED BY <3>1
  <2>3. rank[s[k]] < rank[s[j]] \/ rank[s[k]] = rank[s[j]]
    BY <1>3, <2>1, <2>2
  <2> QED BY <1>1, <2>1, <2>3
<1>12. s \in [1 .. n -> S]
  BY <1>8, <1>9
<1> QED BY <1>1, <1>10, <1>11, <1>12

\* Only keeps the members of s that are in keep, in their order.
LEMMA OnlyKeeps ==
    ASSUME NEW S, NEW s \in Seq(S), NEW keep
    PROVE  /\ Only(s, keep) \in Seq(S)
           /\ ToSet(Only(s, keep)) = ToSet(s) \cap keep
           /\ \E at \in [1 .. Len(Only(s, keep)) -> 1 .. Len(s)] :
                 /\ \A k \in 1 .. Len(Only(s, keep)) : Only(s, keep)[k] = s[at[k]]
                 /\ \A j, k \in 1 .. Len(Only(s, keep)) : j < k => at[j] < at[k]
<1> PICK K : K = {i \in DOMAIN s : s[i] \in keep}
  OBVIOUS
<1> PICK at : at = Ascending(K)
  OBVIOUS
<1> PICK n : n = Cardinality(K)
  OBVIOUS
<1> PICK r : r = Only(s, keep)
  OBVIOUS
<1>1. Len(s) \in Nat /\ DOMAIN s = 1 .. Len(s) /\ \A i \in 1 .. Len(s) : s[i] \in S
  BY ElementOfSeq
<1>2. K \in SUBSET Int /\ K \in SUBSET (1 .. Len(s))
  BY <1>1
<1>3. IsFiniteSet(K)
  <2>1. IsFiniteSet(1 .. Len(s))
    BY <1>1, FS_Interval
  <2> QED BY <1>2, <2>1, FS_Subset
<1>4. /\ n \in Nat /\ at \in [1 .. n -> K]
      /\ \A i \in K : \E k \in 1 .. n : at[k] = i
      /\ \A j, k \in 1 .. n : j < k => at[j] < at[k]
  <2>1. /\ Cardinality(K) \in Nat
        /\ Ascending(K) \in [1 .. Cardinality(K) -> K]
        /\ \A x \in K : \E k \in 1 .. Cardinality(K) : Ascending(K)[k] = x
        /\ \A j, k \in 1 .. Cardinality(K) : j < k => Ascending(K)[j] < Ascending(K)[k]
    BY <1>2, <1>3, AscendingLists, Zenon
  <2> QED BY <2>1, Zenon
<1>5. r = [k \in 1 .. n |-> s[at[k]]]
  BY <1>4 DEF Only
<1>6. \A k \in 1 .. n : at[k] \in 1 .. Len(s) /\ s[at[k]] \in S /\ s[at[k]] \in keep
  BY <1>1, <1>2, <1>4
<1>7. r \in Seq(S) /\ Len(r) = n /\ DOMAIN r = 1 .. n
  <2>1. r \in [1 .. n -> S]
    BY <1>5, <1>6
  <2> QED BY <1>4, <2>1, SeqDef
<1>8. \A x : x \in ToSet(r) <=> x \in ToSet(s) /\ x \in keep
  <2>1. \A x : x \in ToSet(r) <=> \E k \in 1 .. n : r[k] = x
    BY <1>7, Zenon DEF ToSet
  <2>2. \A x : x \in ToSet(s) <=> \E i \in 1 .. Len(s) : s[i] = x
    BY <1>1, Zenon DEF ToSet
  <2>3. \A i : i \in K <=> i \in 1 .. Len(s) /\ s[i] \in keep
    BY <1>1
  <2>4. \A k \in 1 .. n : r[k] = s[at[k]]
    BY <1>5
  <2>5. ASSUME NEW x, NEW k \in 1 .. n, r[k] = x PROVE x \in keep /\ \E i \in 1 .. Len(s) : s[i] = x
    BY <1>6, <2>4, <2>5, Zenon
  <2>6. ASSUME NEW x, x \in keep, NEW i \in 1 .. Len(s), s[i] = x PROVE \E k \in 1 .. n : r[k] = x
    <3>1. i \in K
      BY <2>3, <2>6, Zenon
    <3>2. PICK k \in 1 .. n : at[k] = i
      BY <1>4, <3>1
    <3>3. r[k] = s[i]
      BY <2>4, <3>2
    <3> QED BY <2>6, <3>3
  <2> QED BY <2>1, <2>2, <2>5, <2>6, Zenon
<1>9. at \in [1 .. n -> 1 .. Len(s)] /\ \A k \in 1 .. n : r[k] = s[at[k]]
  BY <1>4, <1>5, <1>6
<1> QED BY <1>4, <1>7, <1>8, <1>9

\* Newest keeps the last ones, up to the limit; Over counts those given up.
LEMMA NewestKeeps ==
    ASSUME NEW S, NEW s \in Seq(S), NEW limit \in Nat
    PROVE  /\ Over(s, limit) \in Nat /\ Newest(s, limit) \in Seq(S)
           /\ Len(Newest(s, limit)) = Len(s) - Over(s, limit)
           /\ Len(Newest(s, limit)) <= limit
           /\ \A k \in 1 .. Len(s) - Over(s, limit) : Newest(s, limit)[k] = s[Over(s, limit) + k]
<1>1. /\ Len(s) \in Nat /\ Over(s, limit) \in 0 .. Len(s)
      /\ Len(s) - Over(s, limit) = IF Len(s) > limit THEN limit ELSE Len(s)
  BY DEF Over
<1>2. Newest(s, limit) = SubSeq(s, Over(s, limit) + 1, Len(s))
  BY DEF Newest
<1> HIDE DEF Over
<1> QED BY <1>1, <1>2

-----------------------------------------------------------------------------
(* What Remember makes of the records                                      *)

Rec == [key : Int, value : Int, turn : Nat, decision : {<<n>> : n \in Nat}]

RecordOf(f, c) == [key |-> c.key, value |-> c.value, turn |-> c.turn, decision |-> f.decision]

\* What a frame discloses: finitely many claims of its turn, under one key each.
Evident(f) ==
    /\ f.turn \in Nat /\ f.decision \in {<<n>> : n \in Nat}
    /\ IsFiniteSet(Known(f))
    /\ \A c \in Known(f) : c.key \in Int /\ c.value \in Int /\ c.turn = f.turn
    /\ \A c, d \in Known(f) : c.key = d.key => c = d

\* Records under one key each.
Keyed(s) == /\ s \in Seq(Rec)
            /\ \A i, j \in 1 .. Len(s) : s[i].key = s[j].key => i = j

Keys(s) == {s[i].key : i \in 1 .. Len(s)}

LEMMA FreshLists ==
    ASSUME NEW f, Evident(f)
    PROVE  /\ Keyed(Fresh(f, Known(f)))
           /\ \A k \in 1 .. Len(Fresh(f, Known(f))) :
                 \E c \in Known(f) : Fresh(f, Known(f))[k] = RecordOf(f, c)
           /\ Keys(Fresh(f, Known(f))) = KeysOf(f)
<1> PICK C : C = Known(f)
  OBVIOUS
<1> PICK K : K = KeysOf(f)
  OBVIOUS
<1> PICK keys : keys = Ascending(K)
  OBVIOUS
<1> PICK n : n = Cardinality(K)
  OBVIOUS
<1> PICK r : r = Fresh(f, C)
  OBVIOUS
<1>1. \A x : x \in K <=> \E c \in C : c.key = x
  BY DEF KeysOf
<1>2. K \in SUBSET Int
  BY <1>1 DEF Evident
<1>3. IsFiniteSet(K)
  <2> PICK h : h = [c \in C |-> c.key]
    OBVIOUS
  <2>1. h \in Surjection(C, K)
    <3>1. h \in [C -> K] /\ \A c \in C : h[c] = c.key
      BY <1>1
    <3>2. \A x \in K : \E c \in C : h[c] = x
      BY <1>1, <3>1
    <3> QED BY <3>1, <3>2, Zenon DEF Surjection
  <2>2. IsFiniteSet(C)
    BY DEF Evident
  <2> QED BY <2>1, <2>2, FS_Surjection
<1>4. /\ n \in Nat /\ keys \in [1 .. n -> K]
      /\ \A x \in K : \E k \in 1 .. n : keys[k] = x
      /\ \A j, k \in 1 .. n : j < k => keys[j] < keys[k]
  BY <1>2, <1>3, AscendingLists
<1> DEFINE claim(k) == CHOOSE x \in C : x.key = keys[k]
<1>5. r = [k \in 1 .. n |-> RecordOf(f, claim(k))]
  <2>1. DOMAIN keys = 1 .. n
    BY <1>4
  <2>2. K = {c.key : c \in C}
    BY <1>1
  <2> QED BY <2>1, <2>2 DEF Fresh, RecordOf
<1>6. \A k \in 1 .. n : claim(k) \in C /\ claim(k).key = keys[k]
  <2> TAKE k \in 1 .. n
  <2>1. \E x \in C : x.key = keys[k]
    BY <1>1, <1>4
  <2> QED BY <2>1
<1> HIDE DEF claim
<1>7. \A k \in 1 .. n : r[k] = RecordOf(f, claim(k)) /\ r[k].key = keys[k] /\ r[k] \in Rec
  <2> TAKE k \in 1 .. n
  <2>1. r[k] = RecordOf(f, claim(k)) /\ claim(k) \in C /\ claim(k).key = keys[k]
    BY <1>5, <1>6
  <2>2. /\ claim(k).key \in Int /\ claim(k).value \in Int /\ claim(k).turn \in Nat
        /\ f.decision \in {<<m>> : m \in Nat}
    BY <2>1 DEF Evident
  <2> QED BY <2>1, <2>2 DEF RecordOf, Rec
<1>8. r \in Seq(Rec) /\ Len(r) = n
  <2>1. r \in [1 .. n -> Rec]
    BY <1>5, <1>7
  <2> QED BY <1>4, <2>1, SeqDef
<1>9. \A i, j \in 1 .. n : keys[i] = keys[j] => i = j
  <2> SUFFICES ASSUME NEW i \in 1 .. n, NEW j \in 1 .. n, keys[i] = keys[j], i # j PROVE FALSE
    OBVIOUS
  <2>1. keys[i] \in Int /\ keys[j] \in Int
    BY <1>2, <1>4
  <2>2. i < j \/ j < i
    OBVIOUS
  <2> QED BY <1>4, <2>1, <2>2
<1>10. Keyed(r)
  BY <1>7, <1>8, <1>9 DEF Keyed
<1>11. Keys(r) = K
  <2>1. \A x : x \in Keys(r) <=> \E k \in 1 .. n : keys[k] = x
    BY <1>7, <1>8 DEF Keys
  <2>2. \A x : x \in K => \E k \in 1 .. n : keys[k] = x
    BY <1>4, Zenon
  <2>3. ASSUME NEW k \in 1 .. n PROVE keys[k] \in K
    BY <1>4
  <2> QED BY <2>1, <2>2, <2>3, Zenon
<1> QED BY <1>6, <1>7, <1>8, <1>10, <1>11

\* Records of claims not seen again keep their order, and the new ones follow.
LEMMA RefreshedIs ==
    ASSUME NEW mem, NEW f, Keyed(mem.records), Evident(f)
    PROVE  /\ Keyed(Refreshed(mem, f))
           /\ Keys(Refreshed(mem, f)) = Keys(mem.records) \cup KeysOf(f)
           /\ \A k \in 1 .. Len(Refreshed(mem, f)) :
                 \/ \E c \in Known(f) : Refreshed(mem, f)[k] = RecordOf(f, c)
                 \/ /\ Refreshed(mem, f)[k].key \notin KeysOf(f)
                    /\ \E i \in 1 .. Len(mem.records) : Refreshed(mem, f)[k] = mem.records[i]
<1>s. PICK s : s = mem.records
  OBVIOUS
<1>keep. PICK keep : keep = {r \in ToSet(s) : r.key \notin KeysOf(f)}
  OBVIOUS
<1>old. PICK old : old = Only(s, keep)
  OBVIOUS
<1>new. PICK new : new = Fresh(f, Known(f))
  OBVIOUS
<1>q. PICK q : q = Refreshed(mem, f)
  OBVIOUS
<1>K. PICK K : K = KeysOf(f)
  OBVIOUS
<1>1. q = old \o new
  BY <1>s, <1>keep, <1>old, <1>new, <1>q DEF Refreshed
<1>2. s \in Seq(Rec) /\ \A i, j \in 1 .. Len(s) : s[i].key = s[j].key => i = j
  BY <1>s DEF Keyed
<1>3. /\ old \in Seq(Rec) /\ ToSet(old) = ToSet(s) \cap keep
      /\ \E at \in [1 .. Len(old) -> 1 .. Len(s)] :
            /\ \A k \in 1 .. Len(old) : old[k] = s[at[k]]
            /\ \A j, k \in 1 .. Len(old) : j < k => at[j] < at[k]
  <2> PICK T : T = Rec
    OBVIOUS
  <2>1. s \in Seq(T) /\ old = Only(s, keep)
    BY <1>2, <1>old
  <2>2. /\ old \in Seq(T) /\ ToSet(old) = ToSet(s) \cap keep
        /\ \E at \in [1 .. Len(old) -> 1 .. Len(s)] :
              /\ \A k \in 1 .. Len(old) : old[k] = s[at[k]]
              /\ \A j, k \in 1 .. Len(old) : j < k => at[j] < at[k]
    BY ONLY <2>1, OnlyKeeps
  <2> QED BY <2>2, Zenon
<1>4. PICK at \in [1 .. Len(old) -> 1 .. Len(s)] :
            /\ \A k \in 1 .. Len(old) : old[k] = s[at[k]]
            /\ \A j, k \in 1 .. Len(old) : j < k => at[j] < at[k]
  BY <1>3
<1>5. /\ new \in Seq(Rec) /\ \A i, j \in 1 .. Len(new) : new[i].key = new[j].key => i = j
      /\ \A k \in 1 .. Len(new) : \E c \in Known(f) : new[k] = RecordOf(f, c)
      /\ Keys(new) = K
  BY <1>new, <1>K, FreshLists DEF Keyed
<1>6. /\ Len(old) \in Nat /\ Len(new) \in Nat /\ Len(s) \in Nat
      /\ DOMAIN old = 1 .. Len(old) /\ DOMAIN s = 1 .. Len(s)
  BY <1>2, <1>3, <1>5
<1>7. \A x : x \in ToSet(old) <=> \E k \in 1 .. Len(old) : old[k] = x
  BY <1>6, Zenon DEF ToSet
<1>8. \A x : x \in ToSet(s) <=> \E k \in 1 .. Len(s) : s[k] = x
  BY <1>6, Zenon DEF ToSet
<1>9. \A x : x \in keep <=> x \in ToSet(s) /\ x.key \notin K
  BY <1>keep, <1>K
<1>10. \A k \in 1 .. Len(old) : old[k] \in ToSet(s) /\ old[k].key \notin K
  BY <1>3, <1>7, <1>9
<1>11. \A k \in 1 .. Len(new) : new[k].key \in K
  BY <1>5 DEF Keys
<1>12. \A i, j \in 1 .. Len(old) : old[i].key = old[j].key => i = j
  <2> SUFFICES ASSUME NEW i \in 1 .. Len(old), NEW j \in 1 .. Len(old),
                      old[i].key = old[j].key, i # j
               PROVE  FALSE
    OBVIOUS
  <2>3. at[i] \in 1 .. Len(s) /\ at[j] \in 1 .. Len(s)
    BY <1>4
  <2>4. s[at[i]].key = s[at[j]].key
    BY <1>4
  <2>1. at[i] = at[j] /\ at[i] \in Nat
    <3>1. \A a, b \in 1 .. Len(s) : s[a].key = s[b].key => a = b /\ a \in Nat
      BY <1>2
    <3> QED BY <2>3, <2>4, <3>1, Zenon
  <2>2. i < j \/ j < i
    OBVIOUS
  <2> QED BY <1>4, <2>1, <2>2
<1>13. /\ q \in Seq(Rec) /\ Len(q) = Len(old) + Len(new)
       /\ \A k \in 1 .. Len(old) : q[k] = old[k]
       /\ \A k \in 1 .. Len(new) : q[Len(old) + k] = new[k]
  BY <1>1, <1>3, <1>5
<1>14. \A k \in 1 .. Len(q) : \/ k \in 1 .. Len(old) /\ q[k] = old[k]
                              \/ /\ k - Len(old) \in 1 .. Len(new)
                                 /\ q[k] = new[k - Len(old)]
  BY <1>6, <1>13
<1>15. \A i, j \in 1 .. Len(q) : q[i].key = q[j].key => i = j
  <2> SUFFICES ASSUME NEW i \in 1 .. Len(q), NEW j \in 1 .. Len(q), q[i].key = q[j].key PROVE i = j
    OBVIOUS
  <2>1. CASE i \in 1 .. Len(old) /\ q[i] = old[i] /\ j \in 1 .. Len(old) /\ q[j] = old[j]
    BY <1>12, <2>1
  <2>2. CASE /\ i - Len(old) \in 1 .. Len(new) /\ q[i] = new[i - Len(old)]
             /\ j - Len(old) \in 1 .. Len(new) /\ q[j] = new[j - Len(old)]
    <3>1. i - Len(old) = j - Len(old)
      BY <1>5, <2>2
    <3> QED BY <1>6, <3>1
  <2>3. \A k \in 1 .. Len(q) :
           \/ k \in 1 .. Len(old) /\ q[k] = old[k] /\ q[k].key \notin K
           \/ /\ k - Len(old) \in 1 .. Len(new) /\ q[k] = new[k - Len(old)]
              /\ q[k].key \in K
    BY <1>10, <1>11, <1>14
  <2> QED BY <2>1, <2>2, <2>3, Zenon
<1>16. Keyed(q)
  BY <1>13, <1>15 DEF Keyed
<1>17. Keys(q) = Keys(s) \cup K
  <2>1. \A x : x \in Keys(q) <=>
                  \/ \E k \in 1 .. Len(old) : old[k].key = x
                  \/ \E k \in 1 .. Len(new) : new[k].key = x
    <3>1. \A k \in 1 .. Len(old) : k \in 1 .. Len(q)
      BY <1>6, <1>13
    <3>2. \A k \in 1 .. Len(new) : Len(old) + k \in 1 .. Len(q)
      BY <1>6, <1>13
    <3>3. ASSUME NEW k \in 1 .. Len(old) PROVE old[k].key \in Keys(q)
      BY <1>13, <3>1 DEF Keys
    <3>4. ASSUME NEW k \in 1 .. Len(new) PROVE new[k].key \in Keys(q)
      BY <1>13, <3>2 DEF Keys
    <3>5. ASSUME NEW k \in 1 .. Len(q)
          PROVE  \/ \E j \in 1 .. Len(old) : old[j].key = q[k].key
                 \/ \E j \in 1 .. Len(new) : new[j].key = q[k].key
      BY <1>14
    <3>6. ASSUME NEW x, x \in Keys(q)
          PROVE  \/ \E k \in 1 .. Len(old) : old[k].key = x
                 \/ \E k \in 1 .. Len(new) : new[k].key = x
      <4>1. PICK k \in 1 .. Len(q) : q[k].key = x
        BY <3>6 DEF Keys
      <4> QED BY <3>5, <4>1
    <3> QED BY <3>3, <3>4, <3>6
  <2>2. \A x : x \in K <=> \E k \in 1 .. Len(new) : new[k].key = x
    BY <1>5 DEF Keys
  <2>3. \A x : (x \in Keys(s) /\ x \notin K) <=> (\E k \in 1 .. Len(old) : old[k].key = x)
    <3>1. ASSUME NEW k \in 1 .. Len(old) PROVE old[k].key \in Keys(s) /\ old[k].key \notin K
      BY <1>8, <1>10 DEF Keys
    <3>2. ASSUME NEW i \in 1 .. Len(s), s[i].key \notin K
          PROVE  \E k \in 1 .. Len(old) : old[k].key = s[i].key
      <4>1. s[i] \in ToSet(old)
        BY <1>3, <1>8, <1>9, <3>2
      <4> QED BY <1>7, <4>1
    <3>3. ASSUME NEW x, x \in Keys(s), x \notin K PROVE \E k \in 1 .. Len(old) : old[k].key = x
      <4>1. PICK i \in 1 .. Len(s) : s[i].key = x
        BY <3>3 DEF Keys
      <4> QED BY <3>2, <3>3, <4>1
    <3>4. ASSUME NEW x, NEW k \in 1 .. Len(old), old[k].key = x
          PROVE  x \in Keys(s) /\ x \notin K
      BY <3>1, <3>4
    <3> QED BY <3>3, <3>4, Zenon
  <2> QED BY <2>1, <2>2, <2>3
<1>18. \A k \in 1 .. Len(q) : \/ \E c \in Known(f) : q[k] = RecordOf(f, c)
                              \/ q[k].key \notin K /\ \E i \in 1 .. Len(s) : q[k] = s[i]
  <2> TAKE k \in 1 .. Len(q)
  <2>1. CASE k \in 1 .. Len(old) /\ q[k] = old[k]
    BY <1>8, <1>10, <2>1
  <2>2. CASE k - Len(old) \in 1 .. Len(new) /\ q[k] = new[k - Len(old)]
    BY <1>5, <2>2
  <2> QED BY <1>14, <2>1, <2>2
<1> QED BY <1>s, <1>q, <1>K, <1>16, <1>17, <1>18

\* What is pushed out of the memory is counted.
LEMMA PushedOutCounted ==
    ASSUME NEW q, Keyed(q), NEW limit \in Nat
    PROVE  /\ Keyed(Newest(q, limit))
           /\ Keys(Newest(q, limit)) \subseteq Keys(q)
           /\ IsFiniteSet(Keys(q) \ Keys(Newest(q, limit)))
           /\ Cardinality(Keys(q) \ Keys(Newest(q, limit))) <= Over(q, limit)
<1> PICK o : o = Over(q, limit)
  OBVIOUS
<1> PICK r : r = Newest(q, limit)
  OBVIOUS
<1>1. q \in Seq(Rec) /\ Len(q) \in Nat /\ \A i, j \in 1 .. Len(q) : q[i].key = q[j].key => i = j
  BY DEF Keyed
<1>2. /\ o \in Nat /\ r \in Seq(Rec) /\ Len(r) = Len(q) - o
      /\ \A k \in 1 .. Len(q) - o : r[k] = q[o + k]
  BY <1>1, NewestKeeps
<1>3. Len(r) \in Nat
  BY <1>2
<1>4. \A k \in 1 .. Len(r) : o + k \in 1 .. Len(q) /\ r[k] = q[o + k]
  BY <1>1, <1>2
<1>5. Keyed(r)
  <2> SUFFICES ASSUME NEW i \in 1 .. Len(r), NEW j \in 1 .. Len(r), r[i].key = r[j].key PROVE i = j
    BY <1>2 DEF Keyed
  <2>1. o + i = o + j
    BY <1>1, <1>4
  <2> QED BY <1>2, <2>1
<1>6. Keys(r) \subseteq Keys(q)
  BY <1>4 DEF Keys
<1> PICK h : h = [j \in 1 .. o |-> q[j].key]
  OBVIOUS
<1> PICK R : R = {q[j].key : j \in 1 .. o}
  OBVIOUS
<1>7. IsFiniteSet(R) /\ Cardinality(R) <= o
  <2>1. h \in Surjection(1 .. o, R)
    <3>1. h \in [1 .. o -> R] /\ \A x \in R : \E j \in 1 .. o : h[j] = x
      OBVIOUS
    <3> QED BY <3>1 DEF Surjection
  <2>2. IsFiniteSet(1 .. o) /\ Cardinality(1 .. o) = o
    BY <1>2, FS_Interval
  <2> QED BY <2>1, <2>2, FS_Surjection
<1>8. Keys(q) \ Keys(r) \in SUBSET R
  <2> SUFFICES ASSUME NEW i \in 1 .. Len(q), q[i].key \notin Keys(r) PROVE i \in 1 .. o
    BY DEF Keys
  <2>1. SUFFICES ASSUME i \notin 1 .. o PROVE FALSE
    OBVIOUS
  <2>2. i - o \in 1 .. Len(r) /\ o + (i - o) = i
    BY <1>1, <1>2, <2>1
  <2>3. r[i - o] = q[i]
    BY <1>4, <2>2
  <2> QED BY <2>2, <2>3 DEF Keys
<1>9. IsFiniteSet(Keys(q) \ Keys(r)) /\ Cardinality(Keys(q) \ Keys(r)) <= Cardinality(R)
  BY <1>7, <1>8, FS_Subset
<1>10. Cardinality(R) \in Nat /\ Cardinality(Keys(q) \ Keys(r)) \in Nat
  BY <1>7, <1>9, FS_CardinalityType
<1> QED BY <1>2, <1>5, <1>6, <1>7, <1>9, <1>10

-----------------------------------------------------------------------------
(* The arena                                                               *)

Messages == {"start", "opened", "reveals", "nothing", "struck", "no effect"}

ArenaType == [preset : Presets, sequence : 0 .. Limit, turn : Nat, cooldown : Nat, x : 1 .. 7,
              ammo : Nat, targetX : {5}, targetHp : 0 .. 2, artifactName : {1},
              contacts : Nat, contact : Nat, pending : BOOLEAN, identified : BOOLEAN,
              outcome : {"ongoing", "success", "decision_limit"}, message : Messages]

\* An arena that has room for another decision or is over.
OpenOrOver(a) == ~Terminal(a) => a.sequence < Limit /\ a.targetHp > 0

\* A handle for what is perceived, and one new handle a decision at most.
Contacted(a) == /\ a.contact = 0 <=> ChannelOf(a) = ""
                /\ a.contact <= a.contacts /\ a.contacts <= a.sequence + 1

\* What a message reveals is identified.
Told(a) == a.message = "reveals" => a.identified

Arenas == {a \in ArenaType : OpenOrOver(a) /\ Contacted(a) /\ Told(a)}

LEMMA Channels ==
    ASSUME NEW a
    PROVE  ChannelOf(a) \in {"", "vision", "hearing"}
BY DEF ChannelOf

LEMMA RefreshIs ==
    ASSUME NEW a, a \in ArenaType, a.contact <= a.contacts, a.contacts <= a.sequence,
           OpenOrOver(a), Told(a)
    PROVE  /\ RefreshContact(a) \in Arenas
           /\ RefreshContact(a).sequence = a.sequence /\ RefreshContact(a).turn = a.turn
           /\ RefreshContact(a).contacts >= a.contacts
           /\ RefreshContact(a).contact \in {0, a.contact, a.contacts + 1}
           /\ RefreshContact(a).contact = a.contacts + 1 => RefreshContact(a).contacts = a.contacts + 1
<1> PICK b : b = RefreshContact(a)
  OBVIOUS
<1>1. /\ a.contacts \in Nat /\ a.contact \in Nat /\ a.sequence \in 0 .. Limit
      /\ Limit \in Nat
  BY LimitIsPositive DEF ArenaType
<1>2. CASE ChannelOf(a) = ""
  <2>1. b = [a EXCEPT !.contact = 0]
    BY <1>2 DEF RefreshContact
  <2>2. b \in ArenaType /\ b.contact = 0 /\ b.contacts = a.contacts /\ b.sequence = a.sequence
        /\ b.turn = a.turn
    BY <2>1 DEF ArenaType
  <2>3. ChannelOf(b) = ChannelOf(a) /\ (OpenOrOver(a) <=> OpenOrOver(b)) /\ (Told(a) <=> Told(b))
    BY <2>1 DEF ArenaType, ChannelOf, OpenOrOver, Told, Terminal
  <2>4. Contacted(b)
    <3>1. b.contact = 0 <=> ChannelOf(b) = ""
      BY <1>2, <2>2, <2>3
    <3>2. b.contact <= b.contacts /\ b.contacts <= b.sequence + 1
      BY <1>1, <2>2
    <3> QED BY <3>1, <3>2, Zenon DEF Contacted
  <2>5. b \in Arenas
    BY <2>2, <2>3, <2>4 DEF Arenas
  <2> QED BY <1>1, <2>2, <2>5
<1>3. CASE ChannelOf(a) # "" /\ a.contact # 0
  <2>1. b = a
    BY <1>3 DEF RefreshContact
  <2>4. Contacted(b)
    <3>1. b.contact = 0 <=> ChannelOf(b) = ""
      BY <1>3, <2>1
    <3>2. b.contact <= b.contacts /\ b.contacts <= b.sequence + 1
      BY <1>1, <2>1
    <3> QED BY <3>1, <3>2, Zenon DEF Contacted
  <2>5. b \in Arenas
    BY <2>1, <2>4 DEF Arenas
  <2> QED BY <1>1, <2>1, <2>5
<1>4. CASE ChannelOf(a) # "" /\ a.contact = 0
  <2>1. b = [a EXCEPT !.contact = a.contacts + 1, !.contacts = @ + 1]
    BY <1>4 DEF RefreshContact
  <2>2. b \in ArenaType /\ b.contact = a.contacts + 1 /\ b.contacts = a.contacts + 1
        /\ b.sequence = a.sequence /\ b.turn = a.turn
    <3> PICK n \in Nat : n = a.contacts + 1
      BY <1>1
    <3>1. b = [a EXCEPT !.contact = n, !.contacts = n]
      BY <2>1 DEF ArenaType
    <3> QED BY <3>1 DEF ArenaType
  <2>3. ChannelOf(b) = ChannelOf(a) /\ (OpenOrOver(a) <=> OpenOrOver(b)) /\ (Told(a) <=> Told(b))
    BY <2>1 DEF ArenaType, ChannelOf, OpenOrOver, Told, Terminal
  <2>4. Contacted(b)
    <3>1. b.contact = 0 <=> ChannelOf(b) = ""
      <4>1. b.contact # 0
        BY <1>1, <2>2
      <4>2. ChannelOf(b) # ""
        BY <1>4, <2>3
      <4> QED BY <4>1, <4>2, Zenon
    <3>2. b.contact <= b.contacts /\ b.contacts <= b.sequence + 1
      BY <1>1, <2>2
    <3> QED BY <3>1, <3>2, Zenon DEF Contacted
  <2>5. b \in Arenas
    BY <2>2, <2>3, <2>4 DEF Arenas
  <2> QED BY <1>1, <2>2, <2>5
<1> QED BY <1>2, <1>3, <1>4

LEMMA NewArenaIs ==
    ASSUME NEW preset \in Presets
    PROVE  /\ NewArena(preset) \in Arenas
           /\ NewArena(preset).sequence = 0 /\ NewArena(preset).turn = 0
<1> PICK a : a = [preset |-> preset, sequence |-> 0, turn |-> 0, cooldown |-> 0, x |-> 3,
                  ammo |-> IF preset = "bow" THEN 3 ELSE 0,
                  targetX |-> 5, targetHp |-> 2, artifactName |-> 1,
                  contacts |-> 0, contact |-> 0,
                  pending |-> FALSE, identified |-> FALSE, outcome |-> "ongoing",
                  message |-> "start"]
  OBVIOUS
<1>1. a \in ArenaType /\ a.contact = 0 /\ a.contacts = 0 /\ a.sequence = 0 /\ a.turn = 0
  BY LimitIsPositive DEF ArenaType, Messages
<1>2. OpenOrOver(a)
  BY LimitIsPositive DEF OpenOrOver
<1>3. Told(a)
  BY DEF Told
<1>4. NewArena(preset) = RefreshContact(a)
  BY DEF NewArena
<1> QED BY <1>1, <1>2, <1>3, <1>4, RefreshIs

\* What may be chosen, and what it costs.
LEMMA ActionsAre ==
    ASSUME NEW a \in Arenas, NEW act \in Actions(a)
    PROVE  /\ ~Terminal(a) /\ act.cost \in {0, 1}
           /\ act.id \in {"yes", "no", "forward", "back", "rest", "look", "use"}
           /\ act.id = "forward" => a.x < 7
           /\ act.id = "back" => a.x > 1
           /\ act.id = "use" => a.contact # 0 /\ ChannelOf(a) # ""
<1>1. ~Terminal(a)
  BY DEF Actions
<1>2. CASE a.pending
  <2>1. PICK id \in {"yes", "no"} : act = Act(id, "answer", "", "", None, 0)
    BY <1>1, <1>2 DEF Actions
  <2>2. act.id = id /\ act.cost = 0
    BY <2>1 DEF Act
  <2> QED BY <1>1, <2>2
<1>3. CASE ~a.pending
  <2>1. \/ a.x < 7 /\ act = Act("forward", "move", "p", "", Here(a.x + 1), 1)
        \/ a.x > 1 /\ act = Act("back", "move", "p", "", Here(a.x - 1), 1)
        \/ act = Act("rest", "wait", "", "", None, 1)
        \/ act = Act("look", "inspect", "", "artifact", None, 0)
        \/ /\ a.contact # 0 /\ ChannelOf(a) # ""
           /\ act = Act("use", IF a.preset = "bow" THEN "fire" ELSE "attack", "ability",
                        Handles[a.contact], None, 1)
    BY <1>1, <1>3, Zenon DEF Actions
  <2>3. \/ a.x < 7 /\ act.id = "forward" /\ act.cost = 1
        \/ a.x > 1 /\ act.id = "back" /\ act.cost = 1
        \/ act.id = "rest" /\ act.cost = 1
        \/ act.id = "look" /\ act.cost = 0
        \/ a.contact # 0 /\ ChannelOf(a) # "" /\ act.id = "use" /\ act.cost = 1
    <3>1. CASE a.x < 7 /\ act = Act("forward", "move", "p", "", Here(a.x + 1), 1)
      <4>1. act.id = "forward" /\ act.cost = 1
        BY <3>1 DEF Act
      <4> QED BY <3>1, <4>1
    <3>2. CASE a.x > 1 /\ act = Act("back", "move", "p", "", Here(a.x - 1), 1)
      <4>1. act.id = "back" /\ act.cost = 1
        BY <3>2 DEF Act
      <4> QED BY <3>2, <4>1
    <3>3. CASE act = Act("rest", "wait", "", "", None, 1)
      <4>1. act.id = "rest" /\ act.cost = 1
        BY <3>3 DEF Act
      <4> QED BY <3>3, <4>1
    <3>4. CASE act = Act("look", "inspect", "", "artifact", None, 0)
      <4>1. act.id = "look" /\ act.cost = 0
        BY <3>4 DEF Act
      <4> QED BY <3>4, <4>1
    <3>5. CASE /\ a.contact # 0 /\ ChannelOf(a) # ""
               /\ act = Act("use", IF a.preset = "bow" THEN "fire" ELSE "attack", "ability",
                            Handles[a.contact], None, 1)
      <4>1. act.id = "use" /\ act.cost = 1
        BY <3>5 DEF Act
      <4> QED BY <3>5, <4>1
    <3> QED BY <2>1, <3>1, <3>2, <3>3, <3>4, <3>5
  <2> QED BY <1>1, <2>3
<1> QED BY <1>2, <1>3

\* What only the end of a step changes.
Alike(d, t) == /\ d.turn = t.turn /\ d.contact = t.contact /\ d.contacts = t.contacts
               /\ d.sequence = t.sequence /\ d.outcome = t.outcome

LEMMA StepIs ==
    ASSUME NEW a \in Arenas, NEW act \in Actions(a)
    PROVE  /\ StepArena(a, act) \in Arenas
           /\ StepArena(a, act).sequence = a.sequence + 1
           /\ StepArena(a, act).turn \in Nat /\ StepArena(a, act).turn >= a.turn
           /\ StepArena(a, act).contacts >= a.contacts
           /\ StepArena(a, act).contact \in {0, a.contact, a.contacts + 1}
           /\ StepArena(a, act).contact = a.contacts + 1
                => StepArena(a, act).contacts = a.contacts + 1
<1>1. /\ a \in ArenaType /\ OpenOrOver(a) /\ Contacted(a) /\ Told(a)
      /\ ~Terminal(a) /\ act.cost \in {0, 1}
      /\ act.id = "forward" => a.x < 7
      /\ act.id = "back" => a.x > 1
  BY ActionsAre DEF Arenas
<1>2. /\ a.sequence \in Nat /\ a.sequence < Limit /\ Limit \in Nat /\ a.targetHp \in {1, 2}
      /\ a.turn \in Nat /\ a.cooldown \in Nat
      /\ a.contact \in Nat /\ a.contacts \in Nat /\ a.contact <= a.contacts
      /\ a.contacts <= a.sequence + 1
  <2>1. /\ a.sequence \in 0 .. Limit /\ a.targetHp \in 0 .. 2 /\ a.turn \in Nat
        /\ a.cooldown \in Nat /\ a.contact \in Nat /\ a.contacts \in Nat
    BY <1>1 DEF ArenaType
  <2>2. a.sequence < Limit /\ a.targetHp > 0
    BY <1>1 DEF OpenOrOver
  <2>3. a.contact <= a.contacts /\ a.contacts <= a.sequence + 1
    BY <1>1, Zenon DEF Contacted
  <2> QED BY <2>1, <2>2, <2>3, LimitIsPositive
<1>21. PICK t : t = [a EXCEPT !.turn = @ + act.cost, !.message = "nothing",
                           !.cooldown = IF @ > act.cost THEN @ - act.cost ELSE 0]
  OBVIOUS
<1>3. t \in ArenaType /\ t.turn >= a.turn /\ t.contact = a.contact /\ t.contacts = a.contacts
      /\ t.sequence = a.sequence /\ t.x = a.x /\ t.targetHp = a.targetHp /\ t.message = "nothing"
      /\ t.outcome = a.outcome /\ t.ammo = a.ammo /\ t.preset = a.preset
  <2> PICK u \in Nat : u = a.turn + act.cost
    BY <1>1, <1>2
  <2> PICK c \in Nat : c = IF a.cooldown > act.cost THEN a.cooldown - act.cost ELSE 0
    BY <1>1, <1>2
  <2>1. t = [a EXCEPT !.turn = u, !.message = "nothing", !.cooldown = c]
    BY <1>1, <1>21 DEF ArenaType
  <2>2. u >= a.turn
    BY <1>1, <1>2
  <2>3. t \in ArenaType
    BY <1>1, <2>1 DEF ArenaType, Messages
  <2>4. /\ t.turn = u /\ t.contact = a.contact /\ t.contacts = a.contacts
        /\ t.sequence = a.sequence /\ t.x = a.x /\ t.targetHp = a.targetHp /\ t.message = "nothing"
        /\ t.outcome = a.outcome /\ t.ammo = a.ammo /\ t.preset = a.preset
    BY <1>1, <2>1 DEF ArenaType
  <2> QED BY <2>2, <2>3, <2>4
<1>22. PICK d : d = IF act.id # "use" THEN Done(t, act)
                 ELSE IF CanHit(a) THEN Struck(t)
                 ELSE [t EXCEPT !.message = "no effect"]
  OBVIOUS
<1>4. d \in ArenaType /\ Alike(d, t) /\ Told(d)
  <2>1. CASE act.id # "use"
    <3>1. d = Done(t, act)
      BY <1>22, <2>1
    <3>2. CASE act.id = "forward"
      <4>1. d = [t EXCEPT !.x = @ + 1]
        BY <1>1, <1>3, <3>1, <3>2 DEF Done
      <4>2. d \in ArenaType
        <5>1. t \in ArenaType /\ t.x \in 1 .. 7
          BY <1>3 DEF ArenaType
        <5>2. PICK y \in 1 .. 7 : y = t.x + 1
          BY <1>1, <1>3, <3>2, <5>1
        <5>3. d = [t EXCEPT !.x = y]
          BY <4>1, <5>1, <5>2
        <5> QED BY <5>1, <5>3 DEF ArenaType
      <4>3. Alike(d, t)
        BY <1>3, <4>1 DEF ArenaType, Alike
      <4>4. Told(d)
        BY <1>3, <4>1 DEF ArenaType, Told
      <4> QED BY <4>2, <4>3, <4>4
    <3>3. CASE act.id = "back"
      <4>1. d = [t EXCEPT !.x = @ - 1]
        BY <1>1, <1>3, <3>1, <3>3 DEF Done
      <4>2. d \in ArenaType
        <5>1. t \in ArenaType /\ t.x \in 1 .. 7
          BY <1>3 DEF ArenaType
        <5>2. PICK y \in 1 .. 7 : y = t.x - 1
          BY <1>1, <1>3, <3>3, <5>1
        <5>3. d = [t EXCEPT !.x = y]
          BY <4>1, <5>1, <5>2
        <5> QED BY <5>1, <5>3 DEF ArenaType
      <4>3. Alike(d, t)
        BY <1>3, <4>1 DEF ArenaType, Alike
      <4>4. Told(d)
        BY <1>3, <4>1 DEF ArenaType, Told
      <4> QED BY <4>2, <4>3, <4>4
    <3>4. CASE act.id = "look"
      <4>1. d = [t EXCEPT !.pending = TRUE, !.message = "opened"]
        BY <1>1, <1>3, <3>1, <3>4 DEF Done
      <4>2. d \in ArenaType
        BY <1>1, <1>3, <3>4, <4>1 DEF ArenaType, Messages
      <4>3. Alike(d, t)
        BY <1>3, <4>1 DEF ArenaType, Alike
      <4>4. Told(d)
        BY <1>3, <4>1 DEF ArenaType, Told
      <4> QED BY <4>2, <4>3, <4>4
    <3>5. CASE act.id = "yes"
      <4>1. d = [t EXCEPT !.pending = FALSE, !.identified = TRUE, !.message = "reveals"]
        BY <1>1, <1>3, <3>1, <3>5 DEF Done
      <4>2. d \in ArenaType
        BY <1>1, <1>3, <3>5, <4>1 DEF ArenaType, Messages
      <4>3. Alike(d, t)
        BY <1>3, <4>1 DEF ArenaType, Alike
      <4>4. Told(d)
        BY <1>3, <4>1 DEF ArenaType, Told
      <4> QED BY <4>2, <4>3, <4>4
    <3>6. CASE act.id = "no"
      <4>1. d = [t EXCEPT !.pending = FALSE]
        BY <1>1, <1>3, <3>1, <3>6 DEF Done
      <4>2. d \in ArenaType
        BY <1>1, <1>3, <3>6, <4>1 DEF ArenaType, Messages
      <4>3. Alike(d, t)
        BY <1>3, <4>1 DEF ArenaType, Alike
      <4>4. Told(d)
        BY <1>3, <4>1 DEF ArenaType, Told
      <4> QED BY <4>2, <4>3, <4>4
    <3>7. CASE act.id \notin {"forward", "back", "look", "yes", "no"}
      <4>1. d = t
        BY <3>1, <3>7 DEF Done
      <4> QED BY <1>3, <4>1 DEF Told, Alike
    <3> QED BY <3>2, <3>3, <3>4, <3>5, <3>6, <3>7
  <2>2. CASE act.id = "use" /\ CanHit(a)
    <3> PICK h \in 0 .. 2 : h = t.targetHp - 1
      BY <1>2, <1>3
    <3> PICK m \in Nat : m = IF t.preset = "bow" THEN t.ammo - 1 ELSE t.ammo
      <4>1. t.ammo \in Nat
        BY <1>3 DEF ArenaType
      <4>2. t.preset = "bow" => t.ammo > 0
        BY <1>3, <2>2 DEF CanHit, HasAmmo
      <4> QED BY <4>1, <4>2
    <3>1. d = [t EXCEPT !.targetHp = h, !.cooldown = 2, !.message = "struck", !.ammo = m]
      BY <1>3, <1>22, <2>2 DEF Struck, ArenaType
    <3>2. d \in ArenaType
      BY <1>3, <3>1 DEF ArenaType, Messages
    <3>3. Alike(d, t)
      BY <1>3, <3>1 DEF ArenaType, Alike
    <3>4. Told(d)
      BY <1>3, <3>1 DEF ArenaType, Told
    <3> QED BY <3>2, <3>3, <3>4
  <2>3. CASE act.id = "use" /\ ~CanHit(a)
    <3>1. d = [t EXCEPT !.message = "no effect"]
      BY <1>22, <2>3
    <3>2. d \in ArenaType
      BY <1>3, <3>1 DEF ArenaType, Messages
    <3>3. Alike(d, t)
      BY <1>3, <3>1 DEF ArenaType, Alike
    <3>4. Told(d)
      BY <1>3, <3>1 DEF ArenaType, Told
    <3> QED BY <3>2, <3>3, <3>4
  <2> QED BY <2>1, <2>2, <2>3
<1>23. PICK c : c = [d EXCEPT !.sequence = @ + 1]
  OBVIOUS
<1>5. /\ c \in ArenaType /\ Told(c)
      /\ c.sequence = a.sequence + 1 /\ c.turn = t.turn /\ c.contact = a.contact
      /\ c.contacts = a.contacts /\ c.outcome = a.outcome
  <2> PICK q \in 0 .. Limit : q = a.sequence + 1
    BY <1>2
  <2>1. c = [d EXCEPT !.sequence = q]
    BY <1>3, <1>4, <1>23 DEF Alike
  <2>2. c \in ArenaType
    BY <1>4, <2>1 DEF ArenaType
  <2>3. Told(c)
    BY <1>4, <2>1 DEF ArenaType, Told
  <2>4. c.sequence = q /\ c.turn = d.turn /\ c.contact = d.contact /\ c.contacts = d.contacts
        /\ c.outcome = d.outcome
    BY <1>4, <2>1 DEF ArenaType
  <2> QED BY <1>3, <1>4, <2>2, <2>3, <2>4 DEF Alike
<1>24. PICK e : e = [c EXCEPT !.outcome = IF c.targetHp <= 0 THEN "success"
                                       ELSE IF c.sequence >= Limit THEN "decision_limit"
                                       ELSE @]
  OBVIOUS
<1>25. PICK o : o = IF c.targetHp <= 0 THEN "success"
                 ELSE IF c.sequence >= Limit THEN "decision_limit" ELSE c.outcome
  OBVIOUS
<1>6. /\ e \in ArenaType /\ Told(e) /\ e.outcome = o
      /\ e.sequence = c.sequence /\ e.turn = c.turn /\ e.contact = c.contact
      /\ e.contacts = c.contacts /\ e.targetHp = c.targetHp
  <2>1. o \in {"ongoing", "success", "decision_limit"}
    BY <1>5, <1>25 DEF ArenaType
  <2>2. e = [c EXCEPT !.outcome = o]
    BY <1>5, <1>24, <1>25 DEF ArenaType
  <2>3. e \in ArenaType
    BY <1>5, <2>1, <2>2 DEF ArenaType
  <2>4. Told(e)
    BY <1>5, <2>2 DEF ArenaType, Told
  <2>5. /\ e.sequence = c.sequence /\ e.turn = c.turn /\ e.contact = c.contact
        /\ e.contacts = c.contacts /\ e.targetHp = c.targetHp /\ e.outcome = o
    BY <1>5, <2>2 DEF ArenaType
  <2> QED BY <2>3, <2>4, <2>5
<1>7. OpenOrOver(e)
  <2>1. c.targetHp \in 0 .. 2 /\ c.sequence \in Nat
    BY <1>2, <1>5 DEF ArenaType
  <2>2. c.targetHp <= 0 => o = "success"
    BY <1>25
  <2>3. ~(c.targetHp <= 0) /\ c.sequence >= Limit => o = "decision_limit"
    BY <1>25
  <2>4. SUFFICES ASSUME o = "ongoing" PROVE c.sequence < Limit /\ c.targetHp > 0
    BY <1>6 DEF OpenOrOver, Terminal
  <2>5. ~(c.targetHp <= 0) /\ ~(c.sequence >= Limit)
    BY <2>2, <2>3, <2>4
  <2> QED BY <1>2, <2>1, <2>5
<1>8. StepArena(a, act) = RefreshContact(e)
  BY <1>21, <1>22, <1>23, <1>24 DEF StepArena
<1>9. e.contact <= e.contacts /\ e.contacts <= e.sequence
  BY <1>2, <1>5, <1>6
<1>26. PICK b : b = RefreshContact(e)
  OBVIOUS
<1>10. /\ b \in Arenas /\ b.sequence = e.sequence /\ b.turn = e.turn /\ b.contacts >= e.contacts
       /\ b.contact \in {0, e.contact, e.contacts + 1}
       /\ b.contact = e.contacts + 1 => b.contacts = e.contacts + 1
  BY <1>6, <1>7, <1>9, <1>26, RefreshIs
<1>11. t.turn \in Nat
  BY <1>3 DEF ArenaType
<1> QED BY <1>3, <1>5, <1>6, <1>8, <1>10, <1>11, <1>26

-----------------------------------------------------------------------------
(* What a frame of the arena says                                          *)

SeenOf(a, sort, slot, key, channel, value) ==
    [sort |-> sort, slot |-> slot, key |-> key, status |-> "observed", channel |-> channel,
     value |-> value, turn |-> a.turn]
FactOf(a, key, channel, value) == SeenOf(a, "fact", key, key, channel, value)
UnknownOf(a, key) ==
    [sort |-> "fact", slot |-> key, key |-> key, status |-> "unknown", channel |-> "unknown",
     value |-> Null, turn |-> a.turn]
InSight(a) == {y \in 0 .. 8 : Distance(y, a.x) <= 3}

BodyClaims(a) == {FactOf(a, 1, "self", a.cooldown), FactOf(a, 2, "self", Reach(a)),
                  FactOf(a, 3, "self", IF Ready(a) THEN 1 ELSE 0), FactOf(a, 4, "self", a.ammo)}
ArtifactClaim(a) == IF a.identified THEN FactOf(a, 5, "inspection", a.artifactName)
                    ELSE UnknownOf(a, 5)
PlayerClaim(a) == SeenOf(a, "position", PlayerKey, PlayerKey, "self", a.x)
CellClaim(a, x) ==
    SeenOf(a, "layer", CellKey(x), CellKey(x), "vision", IF x \in {0, 8} THEN 1 ELSE 0)
ContactClaim(a, key, channel) ==
    SeenOf(a, "position", 10 * HandleRank[a.contact] + 2, key, channel, a.targetX)
ContactClaims(a) ==
    LET handle == 10 * HandleRank[a.contact] IN
    CASE ChannelOf(a) = "vision" -> {FactOf(a, handle + 1, "vision", 1),
                                     ContactClaim(a, handle + 3, "vision")}
      [] ChannelOf(a) = "hearing" -> {UnknownOf(a, handle + 1),
                                      ContactClaim(a, handle + 2, "hearing")}
      [] OTHER -> {}

LEMMA ClaimsAre ==
    ASSUME NEW a
    PROVE  /\ \A c : c \in Claims(a) <=>
                      \/ c \in BodyClaims(a) \/ c = ArtifactClaim(a)
                      \/ c = PlayerClaim(a)
                      \/ \E x \in InSight(a) : c = CellClaim(a, x)
                      \/ c \in ContactClaims(a)
           /\ ChannelOf(a) \notin {"vision", "hearing"} => ContactClaims(a) = {}
<1>1. Claims(a) = BodyClaims(a) \cup {ArtifactClaim(a), PlayerClaim(a)}
                  \cup {CellClaim(a, x) : x \in InSight(a)} \cup ContactClaims(a)
  <2>1. CASE ChannelOf(a) = "vision"
    BY <2>1 DEF Claims, BodyClaims, ArtifactClaim, PlayerClaim, CellClaim, ContactClaim, ContactClaims,
                   InSight, SeenOf, FactOf, UnknownOf
  <2>2. CASE ChannelOf(a) = "hearing"
    BY <2>2 DEF Claims, BodyClaims, ArtifactClaim, PlayerClaim, CellClaim, ContactClaim, ContactClaims,
                   InSight, SeenOf, FactOf, UnknownOf
  <2>3. CASE ChannelOf(a) \notin {"vision", "hearing"}
    BY <2>3 DEF Claims, BodyClaims, ArtifactClaim, PlayerClaim, CellClaim, ContactClaim, ContactClaims,
                   InSight, SeenOf, FactOf, UnknownOf
  <2> QED BY <2>1, <2>2, <2>3
<1>2. \A c : c \in {CellClaim(a, x) : x \in InSight(a)} <=> \E x \in InSight(a) : c = CellClaim(a, x)
  BY Zenon
<1>4. \A c : c \in {ArtifactClaim(a), PlayerClaim(a)}
              <=> c = ArtifactClaim(a) \/ c = PlayerClaim(a)
  BY Zenon
<1>3. ChannelOf(a) \notin {"vision", "hearing"} => ContactClaims(a) = {}
  BY DEF ContactClaims
<1>5. ASSUME NEW X, NEW Y, NEW c, Claims(a) = BodyClaims(a) \cup X \cup Y \cup ContactClaims(a)
      PROVE  c \in Claims(a) <=> c \in BodyClaims(a) \/ c \in X \/ c \in Y \/ c \in ContactClaims(a)
  BY <1>5
<1>6. \A c : c \in Claims(a) <=>
              \/ c \in BodyClaims(a)
              \/ c \in {ArtifactClaim(a), PlayerClaim(a)}
              \/ c \in {CellClaim(a, x) : x \in InSight(a)}
              \/ c \in ContactClaims(a)
  BY <1>1, <1>5, Zenon
<1>7. \A c : c \in Claims(a) <=>
              \/ c \in BodyClaims(a) \/ c = ArtifactClaim(a)
              \/ c = PlayerClaim(a)
              \/ \E x \in InSight(a) : c = CellClaim(a, x)
              \/ c \in ContactClaims(a)
  BY <1>2, <1>4, <1>6, Zenon
<1> QED BY <1>3, <1>7, Zenon

\* A contact has a handle of its own.
Perceived(a) == ChannelOf(a) # ""

LEMMA ContactNamed ==
    ASSUME NEW a \in Arenas
    PROVE  /\ Perceived(a) <=> ChannelOf(a) \in {"vision", "hearing"}
           /\ Perceived(a) <=> a.contact # 0
           /\ Perceived(a) =>
                 /\ a.contact \in 1 .. Limit + 1
                 /\ HandleRank[a.contact] \in 1 .. Limit + 1
                 /\ Handles[a.contact] \notin {"", "cell:", "p", "hand", "weapon", "ability",
                                              "ammo", "artifact", "sense"}
<1>1. Perceived(a) <=> a.contact # 0
  BY Zenon DEF Arenas, Contacted, Perceived
<1>2. a.contact \in Nat /\ a.contacts \in Nat /\ a.sequence \in 0 .. Limit
      /\ a.contact <= a.contacts /\ a.contacts <= a.sequence + 1
  <2>1. a.contact <= a.contacts /\ a.contacts <= a.sequence + 1
    BY Zenon DEF Arenas, Contacted
  <2> QED BY <2>1 DEF Arenas, ArenaType
<1>3. a.contact # 0 => a.contact \in 1 .. Limit + 1
  BY <1>2, LimitIsPositive
<1>4. Perceived(a) <=> ChannelOf(a) \in {"vision", "hearing"}
  BY Channels, Zenon DEF Perceived
<1> QED BY <1>1, <1>3, <1>4, HandlesDiffer, Zenon

\* Where the keys of a claim lie, and what it says.
Fair(a, c) == /\ c.turn = a.turn /\ c.key \in Int /\ c.value \in Int
              /\ \/ c.status = "observed" /\ c.channel # "unknown" /\ c.value # Null
                 \/ /\ c.status = "unknown" /\ c.channel = "unknown" /\ c.value = Null
                    /\ c.sort = "fact"

Between(c, low, high) == c.key \in low .. high /\ c.slot \in low .. high

\* Two claims under one key, or about one thing, are one.
OneOf(c, d) == c.key = d.key \/ c.slot = d.slot => c = d

LEMMA ReachIs ==
    ASSUME NEW a PROVE Reach(a) \in {1, 4}
BY DEF Reach

LEMMA ContactClaimsAre ==
    ASSUME NEW a \in Arenas, NEW c \in ContactClaims(a)
    PROVE  /\ Fair(a, c) /\ Between(c, 11, 10 * Limit + 13)
           /\ \A d \in ContactClaims(a) : OneOf(c, d)
<1> PICK h : h = 10 * HandleRank[a.contact]
  OBVIOUS
<1>1. ChannelOf(a) \in {"vision", "hearing"}
  BY ClaimsAre
<1>2. HandleRank[a.contact] \in 1 .. Limit + 1
  BY <1>1, ContactNamed
<1>3. h \in Int /\ 10 <= h /\ h <= 10 * Limit + 10 /\ Limit \in Nat
  BY <1>2, LimitIsPositive
<1>4. a.targetX \in Nat
  BY DEF Arenas, ArenaType
<1>5. CASE ChannelOf(a) = "vision"
  <2> PICK f, p : f = FactOf(a, h + 1, "vision", 1) /\ p = ContactClaim(a, h + 3, "vision")
    OBVIOUS
  <2>1. ContactClaims(a) = {f, p}
    BY <1>5 DEF ContactClaims
  <2>2. Fair(a, f) /\ f.key = h + 1 /\ f.slot = h + 1
    BY <1>3 DEF Fair, FactOf, SeenOf, Null
  <2>3. Fair(a, p) /\ p.key = h + 3 /\ p.slot = h + 2
    BY <1>3, <1>4 DEF Fair, ContactClaim, SeenOf, Null
  <2> QED BY <1>3, <2>1, <2>2, <2>3 DEF Between, OneOf
<1>6. CASE ChannelOf(a) = "hearing"
  <2> PICK f, p : f = UnknownOf(a, h + 1) /\ p = ContactClaim(a, h + 2, "hearing")
    OBVIOUS
  <2>1. ContactClaims(a) = {f, p}
    BY <1>6 DEF ContactClaims
  <2>2. Fair(a, f) /\ f.key = h + 1 /\ f.slot = h + 1
    BY <1>3 DEF Fair, UnknownOf, Null
  <2>3. Fair(a, p) /\ p.key = h + 2 /\ p.slot = h + 2
    BY <1>3, <1>4 DEF Fair, ContactClaim, SeenOf, Null
  <2> QED BY <1>3, <2>1, <2>2, <2>3 DEF Between, OneOf
<1> QED BY <1>1, <1>5, <1>6

Filed(c, key) == c.key = key /\ c.slot = key

LEMMA BodyClaimsAre ==
    ASSUME NEW a \in Arenas
    PROVE  /\ \A c \in BodyClaims(a) : Fair(a, c) /\ Between(c, 1, 4)
           /\ \A c, d \in BodyClaims(a) : OneOf(c, d)
           /\ Fair(a, ArtifactClaim(a)) /\ Filed(ArtifactClaim(a), 5)
           /\ Fair(a, PlayerClaim(a)) /\ Filed(PlayerClaim(a), 10 * Limit + 30)
           /\ \A x \in InSight(a) : /\ Fair(a, CellClaim(a, x))
                                    /\ Filed(CellClaim(a, x), 10 * Limit + 20 + x)
<1>1. a.cooldown \in Nat /\ Reach(a) \in Nat /\ a.ammo \in Nat /\ a.artifactName \in Nat
      /\ a.x \in Nat /\ (IF Ready(a) THEN 1 ELSE 0) \in Nat
  BY ReachIs DEF Arenas, ArenaType
<1>2. Limit \in Nat
  BY LimitIsPositive
<1>3. PICK c1, c2, c3, c4 : /\ c1 = FactOf(a, 1, "self", a.cooldown)
                            /\ c2 = FactOf(a, 2, "self", Reach(a))
                            /\ c3 = FactOf(a, 3, "self", IF Ready(a) THEN 1 ELSE 0)
                            /\ c4 = FactOf(a, 4, "self", a.ammo)
  OBVIOUS
<1>4. /\ Fair(a, c1) /\ Filed(c1, 1) /\ Fair(a, c2) /\ Filed(c2, 2)
      /\ Fair(a, c3) /\ Filed(c3, 3) /\ Fair(a, c4) /\ Filed(c4, 4)
  <2>1. PICK ready \in Nat : ready = IF Ready(a) THEN 1 ELSE 0
    OBVIOUS
  <2>2. Fair(a, c1) /\ Filed(c1, 1)
    BY <1>1, <1>3 DEF Fair, FactOf, SeenOf, Filed, Null
  <2>3. Fair(a, c2) /\ Filed(c2, 2)
    BY <1>1, <1>3 DEF Fair, FactOf, SeenOf, Filed, Null
  <2>4. Fair(a, c3) /\ Filed(c3, 3)
    BY <1>3, <2>1 DEF Fair, FactOf, SeenOf, Filed, Null
  <2>5. Fair(a, c4) /\ Filed(c4, 4)
    BY <1>1, <1>3 DEF Fair, FactOf, SeenOf, Filed, Null
  <2> QED BY <2>2, <2>3, <2>4, <2>5
<1>5. \A c : c \in BodyClaims(a) <=> c = c1 \/ c = c2 \/ c = c3 \/ c = c4
  BY <1>3 DEF BodyClaims
<1>6. /\ \A c \in BodyClaims(a) : Fair(a, c) /\ Between(c, 1, 4)
      /\ \A c, d \in BodyClaims(a) : OneOf(c, d)
  BY <1>4, <1>5 DEF Filed, Between, OneOf
<1>7. Fair(a, ArtifactClaim(a)) /\ Filed(ArtifactClaim(a), 5)
  <2>2. /\ Fair(a, FactOf(a, 5, "inspection", a.artifactName))
        /\ Filed(FactOf(a, 5, "inspection", a.artifactName), 5)
        /\ Fair(a, UnknownOf(a, 5)) /\ Filed(UnknownOf(a, 5), 5)
    BY <1>1 DEF Fair, FactOf, SeenOf, UnknownOf, Filed, Null
  <2>3. ArtifactClaim(a) \in {FactOf(a, 5, "inspection", a.artifactName), UnknownOf(a, 5)}
    BY DEF ArtifactClaim
  <2> QED BY <2>2, <2>3
<1>8. PlayerKey \in Int /\ PlayerKey = 10 * Limit + 30
  BY <1>2 DEF PlayerKey
<1>9. Fair(a, PlayerClaim(a)) /\ Filed(PlayerClaim(a), PlayerKey)
  BY <1>1, <1>8 DEF Fair, PlayerClaim, SeenOf, Filed, Null
<1>10. ASSUME NEW x \in InSight(a)
       PROVE  Fair(a, CellClaim(a, x)) /\ Filed(CellClaim(a, x), 10 * Limit + 20 + x)
  <2>1. x \in Nat
    BY DEF InSight
  <2>2. CellKey(x) \in Int /\ CellKey(x) = 10 * Limit + 20 + x
    BY <1>2, <2>1 DEF CellKey
  <2>3. (IF x \in {0, 8} THEN 1 ELSE 0) \in Nat
    OBVIOUS
  <2>4. Fair(a, CellClaim(a, x)) /\ Filed(CellClaim(a, x), CellKey(x))
    BY <2>2, <2>3 DEF CellClaim, Fair, SeenOf, Filed, Null
  <2> QED BY <2>2, <2>4
<1> QED BY <1>6, <1>7, <1>8, <1>9, <1>10

\* Every claim is fair, and has a key of its own and a subject of its own.
LEMMA ClaimsFair ==
    ASSUME NEW a \in Arenas
    PROVE  /\ \A c \in Claims(a) : Fair(a, c) /\ Between(c, 1, 10 * Limit + 30)
           /\ \A c, d \in Claims(a) : OneOf(c, d)
<1> PICK player : player = PlayerClaim(a)
  OBVIOUS
<1> PICK artifact : artifact = ArtifactClaim(a)
  OBVIOUS
<1>1. Limit \in Nat
  BY LimitIsPositive
<1>2. \A c \in Claims(a) :
        \/ c \in BodyClaims(a) \/ c = artifact \/ c = player
        \/ \E x \in InSight(a) : c = CellClaim(a, x)
        \/ c \in ContactClaims(a)
  BY ClaimsAre, Zenon
<1>3. \A c \in BodyClaims(a) : /\ Fair(a, c) /\ c.key \in 1 .. 4 /\ c.slot \in 1 .. 4
                               /\ \A d \in BodyClaims(a) : OneOf(c, d)
  BY BodyClaimsAre DEF Between
<1>4. /\ Fair(a, artifact) /\ artifact.key = 5 /\ artifact.slot = 5
      /\ Fair(a, player) /\ player.key = 10 * Limit + 30 /\ player.slot = 10 * Limit + 30
  BY BodyClaimsAre DEF Filed
<1>5. \A x \in InSight(a) : /\ Fair(a, CellClaim(a, x)) /\ x \in 0 .. 8
                            /\ CellClaim(a, x).key = 10 * Limit + 20 + x
                            /\ CellClaim(a, x).slot = 10 * Limit + 20 + x
  BY BodyClaimsAre DEF InSight, Filed
<1>6. \A c \in ContactClaims(a) :
         /\ Fair(a, c) /\ c.key \in 11 .. 10 * Limit + 13 /\ c.slot \in 11 .. 10 * Limit + 13
         /\ \A d \in ContactClaims(a) : OneOf(c, d)
  BY ContactClaimsAre DEF Between
<1>7. \A c \in Claims(a) : Fair(a, c) /\ Between(c, 1, 10 * Limit + 30)
  <2> TAKE c \in Claims(a)
  <2>1. CASE c \in BodyClaims(a)
    BY <1>1, <1>3, <2>1 DEF Between
  <2>2. CASE c = artifact \/ c = player
    BY <1>1, <1>4, <2>2 DEF Between
  <2>3. CASE \E x \in InSight(a) : c = CellClaim(a, x)
    BY <1>1, <1>5, <2>3 DEF Between
  <2>4. CASE c \in ContactClaims(a)
    BY <1>1, <1>6, <2>4 DEF Between
  <2> QED BY <1>2, <2>1, <2>2, <2>3, <2>4
<1>8. ASSUME NEW c \in Claims(a), NEW d \in Claims(a), c.key = d.key \/ c.slot = d.slot PROVE c = d
  <2>1. CASE c \in BodyClaims(a)
    <3>1. d \in BodyClaims(a)
      BY <1>1, <1>2, <1>3, <1>4, <1>5, <1>6, <1>8, <2>1
    <3> QED BY <1>3, <1>8, <2>1, <3>1 DEF OneOf
  <2>2. CASE c = artifact
    BY <1>1, <1>2, <1>3, <1>4, <1>5, <1>6, <1>8, <2>2
  <2>3. CASE c = player
    BY <1>1, <1>2, <1>3, <1>4, <1>5, <1>6, <1>8, <2>3
  <2>4. CASE \E x \in InSight(a) : c = CellClaim(a, x)
    BY <1>1, <1>2, <1>3, <1>4, <1>5, <1>6, <1>8, <2>4
  <2>5. CASE c \in ContactClaims(a)
    <3>1. d \in ContactClaims(a)
      BY <1>1, <1>2, <1>3, <1>4, <1>5, <1>6, <1>8, <2>5
    <3> QED BY <1>6, <1>8, <2>5, <3>1 DEF OneOf
  <2> QED BY <1>2, <2>1, <2>2, <2>3, <2>4, <2>5
<1>9. \A c, d \in Claims(a) : OneOf(c, d)
  BY <1>8 DEF OneOf
<1> QED BY <1>7, <1>9

LEMMA ObserveIs ==
    ASSUME NEW a, NEW f, f = Observe(a)
    PROVE  /\ f.episode = 1 /\ f.branch = 1 /\ f.decision = <<a.sequence>>
           /\ f.parent = IF a.sequence = 0 THEN None ELSE <<a.sequence - 1>>
           /\ f.turn = a.turn /\ f.actor = "p" /\ f.entities = Entities(a)
           /\ f.claims = Claims(a) /\ f.relations = Relations(a) /\ f.actions = Actions(a)
           /\ f.phase = IF Terminal(a) THEN "terminal" ELSE IF a.pending THEN "prompt" ELSE "command"
           /\ f.prompt = (a.pending /\ ~Terminal(a))
           /\ f.zones = {[id |-> "arena", width |-> 9, height |-> 5,
                          cells |-> {[at |-> <<x, Row>>, layers |-> {"ground"}] :
                                        x \in InSight(a)}]}
           /\ f.events = <<[id |-> a.sequence, status |-> "observed", turn |-> a.turn,
                            subjects |-> {},
                            text |-> <<a.message,
                                       IF a.message = "reveals" THEN a.artifactName ELSE 0>>]>>
BY DEF Observe, InSight

LEMMA FrameIsEvident ==
    ASSUME NEW a \in Arenas
    PROVE  Evident(Observe(a)) /\ Observe(a).turn = a.turn
           /\ Observe(a).decision = <<a.sequence>> /\ a.sequence \in Nat
<1> PICK f : f = Observe(a)
  OBVIOUS
<1>1. f.claims = Claims(a) /\ f.turn = a.turn /\ f.decision = <<a.sequence>>
  BY ObserveIs
<1>2. a.turn \in Nat /\ a.sequence \in Nat /\ Limit \in Nat
  BY LimitIsPositive DEF Arenas, ArenaType
<1> PICK C : C = Known(f)
  OBVIOUS
<1>3. \A c : c \in C => c \in Claims(a)
  BY <1>1 DEF Known
<1>4. \A c \in C : Fair(a, c) /\ c.key \in 1 .. 10 * Limit + 30
  BY <1>3, ClaimsFair DEF Between
<1>5. \A c, d \in C : c.key = d.key => c = d
  BY <1>3, ClaimsFair DEF OneOf
<1>6. IsFiniteSet(C)
  <2> PICK h : h = [c \in C |-> c.key]
    OBVIOUS
  <2>1. h \in Injection(C, 1 .. 10 * Limit + 30)
    <3>1. h \in [C -> 1 .. 10 * Limit + 30] /\ \A c, d \in C : h[c] = h[d] => c = d
      BY <1>4, <1>5
    <3> QED BY <3>1 DEF Injection, IsInjective
  <2>2. IsFiniteSet(1 .. 10 * Limit + 30)
    <3>1. 1 \in Int /\ 10 * Limit + 30 \in Int
      BY <1>2
    <3> QED BY <3>1, FS_Interval
  <2> QED BY <2>1, <2>2, FS_Injection
<1>7. \A c \in C : c.key \in Int /\ c.value \in Int /\ c.turn = f.turn
  BY <1>1, <1>4 DEF Fair
<1>8. f.decision \in {<<n>> : n \in Nat}
  BY <1>1, <1>2
<1>9. f.turn \in Nat
  BY <1>1, <1>2
<1>10. Evident(f)
  BY <1>5, <1>6, <1>7, <1>8, <1>9 DEF Evident
<1> QED BY <1>1, <1>2, <1>10

\* What is called what, when something has a name.
Named == {<<"p", "actor">>, <<"hand", "body_part">>, <<"weapon", "item">>, <<"ability", "ability">>,
          <<"ammo", "item">>, <<"artifact", "item">>, <<"sense", "ability">>}

LEMMA EntitiesAre ==
    ASSUME NEW a \in Arenas
    PROVE  /\ \A e \in Entities(a) :
                 \/ \E n \in Named : /\ e.id = n[1] /\ e.kind = n[2]
                                     /\ e.at = IF n[1] = "p" THEN Here(a.x) ELSE None
                 \/ /\ Perceived(a) /\ e.id = Handles[a.contact] /\ e.kind = "contact"
                    /\ e.at = Here(a.targetX)
           /\ \A e, d \in Entities(a) : e.id = d.id => e = d
           /\ [id |-> "p", kind |-> "actor", at |-> Here(a.x)] \in Entities(a)
           /\ \A id \in {"hand", "weapon", "ability", "ammo", "artifact"} :
                 \E e \in Entities(a) : e.id = id
           /\ a.preset = "listener" => \E e \in Entities(a) : e.id = "sense"
           /\ Perceived(a) =>
                 [id |-> Handles[a.contact], kind |-> "contact", at |-> Here(a.targetX)] \in Entities(a)
<1> DEFINE player == [id |-> "p", kind |-> "actor", at |-> Here(a.x)]
           thing(n) == [id |-> n[1], kind |-> n[2], at |-> None]
           contact == [id |-> Handles[a.contact], kind |-> "contact", at |-> Here(a.targetX)]
           names == {<<"hand", "body_part">>, <<"weapon", "item">>, <<"ability", "ability">>,
                     <<"ammo", "item">>, <<"artifact", "item">>}
                    \cup (IF a.preset = "listener" THEN {<<"sense", "ability">>} ELSE {})
<1>1. Perceived(a) <=> ChannelOf(a) # "" /\ a.contact # 0
  BY ContactNamed, Zenon DEF Perceived
<1>2. Entities(a) = Things(a) \cup (IF Perceived(a) THEN {contact} ELSE {})
  BY <1>1, Zenon DEF Entities
<1>3. Things(a) = {player} \cup {thing(n) : n \in names}
  BY DEF Things
<1>4. \A e : e \in {thing(n) : n \in names} <=> \E n \in names : e = thing(n)
  BY Zenon
<1>5. \A n \in names : n \in Named /\ n[1] # "p"
  BY DEF Named
<1> HIDE DEF thing, contact, player, names
<1>6. \A e : e \in Entities(a) <=> \/ e = player
                                   \/ \E n \in names : e = thing(n)
                                   \/ Perceived(a) /\ e = contact
  <2>1. \A e : e \in Things(a) <=> e = player \/ \E n \in names : e = thing(n)
    <3> PICK T : T = {thing(n) : n \in names}
      OBVIOUS
    <3> QED BY <1>3, <1>4
  <2> QED BY <1>2, <2>1
<1>7. /\ player.id = "p" /\ player.kind = "actor" /\ player.at = Here(a.x)
      /\ contact.id = Handles[a.contact] /\ contact.kind = "contact" /\ contact.at = Here(a.targetX)
      /\ \A n : thing(n).id = n[1] /\ thing(n).kind = n[2] /\ thing(n).at = None
  BY DEF player, contact, thing
<1>8. Perceived(a) => Handles[a.contact] \notin {"p", "hand", "weapon", "ability", "ammo", "artifact",
                                                 "sense"}
  BY ContactNamed, Zenon
<1>9. \A n \in Named : n[1] \in {"p", "hand", "weapon", "ability", "ammo", "artifact", "sense"}
  BY DEF Named
<1>10. \A m, n \in Named : m[1] = n[1] => m = n
  BY DEF Named
<1>11. ASSUME NEW e \in Entities(a)
       PROVE  \/ \E n \in Named : /\ e.id = n[1] /\ e.kind = n[2]
                                  /\ e.at = IF n[1] = "p" THEN Here(a.x) ELSE None
              \/ /\ Perceived(a) /\ e.id = Handles[a.contact] /\ e.kind = "contact"
                 /\ e.at = Here(a.targetX)
  <2>1. CASE e = player
    <3>1. <<"p", "actor">> \in Named
      BY DEF Named
    <3> QED BY <1>7, <2>1, <3>1
  <2>2. CASE \E n \in names : e = thing(n)
    BY <1>5, <1>7, <2>2
  <2>3. CASE Perceived(a) /\ e = contact
    BY <1>7, <2>3
  <2> QED BY <1>6, <2>1, <2>2, <2>3
<1>12. ASSUME NEW e \in Entities(a), NEW d \in Entities(a), e.id = d.id PROVE e = d
  <2>1. CASE e = player
    BY <1>5, <1>6, <1>7, <1>8, <1>12, <2>1
  <2>2. CASE \E n \in names : e = thing(n)
    BY <1>5, <1>6, <1>7, <1>8, <1>9, <1>10, <1>12, <2>2
  <2>3. CASE Perceived(a) /\ e = contact
    BY <1>5, <1>6, <1>7, <1>8, <1>9, <1>12, <2>3
  <2> QED BY <1>6, <2>1, <2>2, <2>3
<1>13. ASSUME NEW id \in {"hand", "weapon", "ability", "ammo", "artifact"}
       PROVE  \E e \in Entities(a) : e.id = id
  <2>1. \A n \in {<<"hand", "body_part">>, <<"weapon", "item">>, <<"ability", "ability">>,
                   <<"ammo", "item">>, <<"artifact", "item">>} : n \in names
    BY Zenon DEF names
  <2>2. \E n \in {<<"hand", "body_part">>, <<"weapon", "item">>, <<"ability", "ability">>,
                   <<"ammo", "item">>, <<"artifact", "item">>} : n[1] = id
    OBVIOUS
  <2> QED BY <1>6, <1>7, <2>1, <2>2
<1>14. a.preset = "listener" => \E e \in Entities(a) : e.id = "sense"
  <2>1. SUFFICES ASSUME a.preset = "listener" PROVE \E n \in names : n[1] = "sense"
    BY <1>6, <1>7
  <2> QED BY <2>1 DEF names
<1>15. player \in Entities(a) /\ (Perceived(a) => contact \in Entities(a))
  BY <1>6
<1>16. /\ [id |-> "p", kind |-> "actor", at |-> Here(a.x)] \in Entities(a)
       /\ Perceived(a) =>
            [id |-> Handles[a.contact], kind |-> "contact", at |-> Here(a.targetX)] \in Entities(a)
  BY <1>15 DEF player, contact
<1> QED BY <1>11, <1>12, <1>13, <1>14, <1>16

\* What may be chosen refers to what is there, under a name of its own.
Nobody(id) == id = ""

LEMMA ActionsFit ==
    ASSUME NEW a \in Arenas
    PROVE  /\ \A act \in Actions(a) :
                 /\ Nobody(act.source) \/ act.source \in {"p", "ability"}
                 /\ \/ Nobody(act.target) \/ act.target = "artifact"
                    \/ Perceived(a) /\ act.target = Handles[a.contact]
                 /\ act.destination = None \/ \E x \in 0 .. 8 : act.destination = Here(x)
                 /\ act.id = "use" => /\ Perceived(a) /\ act.target = Handles[a.contact]
                                      /\ act.operation \in {"attack", "fire"}
           /\ \A act, other \in Actions(a) : act.id = other.id => act = other
           /\ Actions(a) = {} <=> Terminal(a)
<1>0. PICK forward, back, rest, look, use :
        /\ forward = Act("forward", "move", "p", "", Here(a.x + 1), 1)
        /\ back = Act("back", "move", "p", "", Here(a.x - 1), 1)
        /\ rest = Act("rest", "wait", "", "", None, 1)
        /\ look = Act("look", "inspect", "", "artifact", None, 0)
        /\ use = Act("use", IF a.preset = "bow" THEN "fire" ELSE "attack", "ability",
                     Handles[a.contact], None, 1)
  OBVIOUS
<1>1. /\ forward.id = "forward" /\ forward.source = "p" /\ Nobody(forward.target)
      /\ forward.destination = Here(a.x + 1)
  BY <1>0 DEF Act, Nobody
<1>2. /\ back.id = "back" /\ back.source = "p" /\ Nobody(back.target)
      /\ back.destination = Here(a.x - 1)
  BY <1>0 DEF Act, Nobody
<1>3. rest.id = "rest" /\ Nobody(rest.source) /\ Nobody(rest.target) /\ rest.destination = None
  BY <1>0 DEF Act, Nobody
<1>4. look.id = "look" /\ Nobody(look.source) /\ look.target = "artifact" /\ look.destination = None
  BY <1>0 DEF Act, Nobody
<1>5. /\ use.id = "use" /\ use.source = "ability" /\ use.target = Handles[a.contact]
      /\ use.destination = None /\ use.operation \in {"attack", "fire"}
  BY <1>0 DEF Act
<1>6. \A id : /\ Act(id, "answer", "", "", None, 0).id = id
              /\ Nobody(Act(id, "answer", "", "", None, 0).source)
              /\ Nobody(Act(id, "answer", "", "", None, 0).target)
              /\ Act(id, "answer", "", "", None, 0).destination = None
  BY DEF Act, Nobody
<1>7. a.x \in 1 .. 7
  BY DEF Arenas, ArenaType
<1>8. Perceived(a) <=> a.contact # 0 /\ ChannelOf(a) # ""
  BY ContactNamed, Zenon DEF Perceived
<1>9. CASE Terminal(a)
  <2>1. Actions(a) = {}
    BY <1>9 DEF Actions
  <2> QED BY <1>9, <2>1
<1>10. CASE ~Terminal(a) /\ a.pending
  <2> DEFINE answer(id) == Act(id, "answer", "", "", None, 0)
  <2>1. Actions(a) = {answer(id) : id \in {"yes", "no"}}
    BY <1>10, Zenon DEF Actions
  <2>2. \A id : answer(id).id = id /\ Nobody(answer(id).source) /\ Nobody(answer(id).target)
                /\ answer(id).destination = None
    BY <1>6, Zenon
  <2> HIDE DEF answer
  <2>3. \A act : act \in Actions(a) <=> \E id \in {"yes", "no"} : act = answer(id)
    BY <2>1, Zenon
  <2>4. \A act \in Actions(a) : /\ Nobody(act.source) /\ Nobody(act.target) /\ act.destination = None
                                /\ act.id # "use"
    BY <2>2, <2>3
  <2>5. \A act, other \in Actions(a) : act.id = other.id => act = other
    BY <2>2, <2>3
  <2>6. Actions(a) # {}
    BY <2>3
  <2> QED BY <1>10, <2>4, <2>5, <2>6
<1>11. CASE ~Terminal(a) /\ ~a.pending
  <2>1. Actions(a) = (IF a.x < 7 THEN {forward} ELSE {}) \cup (IF a.x > 1 THEN {back} ELSE {})
                     \cup {rest, look} \cup (IF Perceived(a) THEN {use} ELSE {})
    BY <1>0, <1>8, <1>11, Zenon DEF Actions
  <2>2. \A act : act \in Actions(a) <=> \/ a.x < 7 /\ act = forward
                                        \/ a.x > 1 /\ act = back
                                        \/ act = rest \/ act = look
                                        \/ Perceived(a) /\ act = use
    BY <2>1
  <2>3. a.x < 7 => a.x + 1 \in 0 .. 8
    BY <1>7
  <2>4. a.x > 1 => a.x - 1 \in 0 .. 8
    BY <1>7
  <2>5. \A act, other \in Actions(a) : act.id = other.id => act = other
    BY <1>1, <1>2, <1>3, <1>4, <1>5, <2>2
  <2>6. ASSUME NEW act \in Actions(a)
        PROVE  /\ Nobody(act.source) \/ act.source \in {"p", "ability"}
               /\ \/ Nobody(act.target) \/ act.target = "artifact"
                  \/ Perceived(a) /\ act.target = Handles[a.contact]
               /\ act.destination = None \/ \E x \in 0 .. 8 : act.destination = Here(x)
               /\ act.id = "use" => /\ Perceived(a) /\ act.target = Handles[a.contact]
                                    /\ act.operation \in {"attack", "fire"}
    <3>1. CASE a.x < 7 /\ act = forward
      BY <1>1, <2>3, <3>1
    <3>2. CASE a.x > 1 /\ act = back
      BY <1>2, <2>4, <3>2
    <3>3. CASE act = rest \/ act = look
      BY <1>3, <1>4, <3>3
    <3>4. CASE Perceived(a) /\ act = use
      BY <1>5, <3>4
    <3> QED BY <2>2, <3>1, <3>2, <3>3, <3>4
  <2>7. Actions(a) # {}
    BY <2>2
  <2> QED BY <1>11, <2>5, <2>6, <2>7
<1> QED BY <1>9, <1>10, <1>11

LEMMA RelationsFit ==
    ASSUME NEW a, NEW r \in Relations(a)
    PROVE  /\ r.subject \in {"p", "hand", "weapon"}
           /\ \/ r.object \in {"weapon", "artifact", "ammo", "p", "hand", "ability"}
              \/ a.preset = "listener" /\ r.object = "sense"
           /\ r.status = "observed" /\ r.turn = a.turn
           /\ \A q \in Relations(a) :
                 r.subject = q.subject /\ r.predicate = q.predicate /\ r.object = q.object => r = q
<1> DEFINE triples == {<<"p", "carries", "weapon">>, <<"p", "carries", "artifact">>,
                       <<"p", "carries", "ammo">>, <<"hand", "part_of", "p">>,
                       <<"weapon", "equipped_in", "hand">>, <<"weapon", "provides", "ability">>}
                      \cup (IF a.preset = "listener" THEN {<<"p", "provides", "sense">>} ELSE {})
           relation(t) == [subject |-> t[1], predicate |-> t[2], object |-> t[3],
                           status |-> "observed", turn |-> a.turn]
<1>1. \A q \in Relations(a) : \E t \in triples : q = relation(t)
  BY DEF Relations
<1>2. \A t : /\ relation(t).subject = t[1] /\ relation(t).predicate = t[2]
             /\ relation(t).object = t[3]
             /\ relation(t).status = "observed" /\ relation(t).turn = a.turn
  OBVIOUS
<1>3. \A t, u \in triples : t[1] = u[1] /\ t[2] = u[2] /\ t[3] = u[3] => t = u
  OBVIOUS
<1>4. \A t \in triples : /\ t[1] \in {"p", "hand", "weapon"}
                         /\ \/ t[3] \in {"weapon", "artifact", "ammo", "p", "hand", "ability"}
                            \/ a.preset = "listener" /\ t[3] = "sense"
  OBVIOUS
<1> HIDE DEF triples, relation
<1>5. PICK t \in triples : r = relation(t)
  BY <1>1
<1>6. ASSUME NEW q \in Relations(a), r.subject = q.subject, r.predicate = q.predicate,
             r.object = q.object
      PROVE  r = q
  <2>1. PICK u \in triples : q = relation(u)
    BY <1>1
  <2>2. t = u
    BY <1>2, <1>3, <1>5, <1>6, <2>1
  <2> QED BY <1>5, <2>1, <2>2
<1> QED BY <1>2, <1>4, <1>5, <1>6

\* The contract accepts every frame of an arena.
LEMMA ArenaFramesConsistent ==
    ASSUME NEW a \in Arenas
    PROVE  Consistent(Observe(a))
<1> DEFINE event == [id |-> a.sequence, status |-> "observed", turn |-> a.turn, subjects |-> {},
                     text |-> <<a.message, IF a.message = "reveals" THEN a.artifactName ELSE 0>>]
           zone == [id |-> "arena", width |-> 9, height |-> 5,
                    cells |-> {[at |-> <<x, Row>>, layers |-> {"ground"}] : x \in InSight(a)}]
<1>1. PICK f : f = Observe(a)
  OBVIOUS
<1>2. /\ f.decision = <<a.sequence>> /\ f.parent = IF a.sequence = 0 THEN None ELSE <<a.sequence - 1>>
      /\ f.turn = a.turn /\ f.actor = "p" /\ f.entities = Entities(a) /\ f.claims = Claims(a)
      /\ f.relations = Relations(a) /\ f.actions = Actions(a)
      /\ f.phase = IF Terminal(a) THEN "terminal" ELSE IF a.pending THEN "prompt" ELSE "command"
      /\ f.prompt = (a.pending /\ ~Terminal(a))
      /\ f.zones = {zone} /\ f.events = <<event>>
  BY <1>1, ObserveIs
<1>3. a.sequence \in Nat /\ a.turn \in Nat /\ a.pending \in BOOLEAN /\ a.x \in 1 .. 7 /\ a.targetX = 5
  BY LimitIsPositive DEF Arenas, ArenaType
<1>4. /\ zone.id = "arena" /\ zone.width = 9 /\ zone.height = 5
      /\ \A c \in zone.cells : /\ c.at[1] \in 0 .. 8 /\ c.at[2] \in 0 .. 4
                               /\ c.layers # {}
                               /\ \A d \in zone.cells : c.at = d.at => c = d
  BY DEF InSight, Row
<1>5. event.id = a.sequence /\ event.status = "observed" /\ event.turn = a.turn /\ event.subjects = {}
  OBVIOUS
<1> HIDE DEF zone, event
<1> PICK refs : refs = {e.id : e \in f.entities}
  OBVIOUS
<1>6. f.parent # f.decision
  BY <1>2, <1>3 DEF None
<1>7. OneEach(f.entities) /\ OneEach(f.zones) /\ OneEach(f.actions)
  <2>1. OneEach(f.entities)
    <3>1. \A e, d \in Entities(a) : e.id = d.id => e = d
      BY EntitiesAre, Zenon
    <3> QED BY <1>2, <3>1 DEF OneEach
  <2>2. OneEach(f.zones)
    BY <1>2 DEF OneEach
  <2>3. OneEach(f.actions)
    BY <1>2, ActionsFit DEF OneEach
  <2> QED BY <2>1, <2>2, <2>3
<1>8. DOMAIN f.events = {1} /\ f.events[1] = event
  BY <1>2
<1>9. f.actor # "" /\ \E e \in f.entities : e.id = f.actor /\ e.kind = "actor"
  <2>1. "p" # ""
    BY Zenon
  <2>2. \E e \in Entities(a) : e.id = "p" /\ e.kind = "actor"
    <3> PICK e : e = [id |-> "p", kind |-> "actor", at |-> Here(a.x)]
      OBVIOUS
    <3>1. e \in Entities(a)
      BY EntitiesAre
    <3> QED BY <3>1
  <2> QED BY <1>2, <2>1, <2>2, Zenon
<1>10. (f.prompt <=> f.phase = "prompt") /\ (f.actions = {} <=> f.phase = "terminal")
  <2>1. f.prompt <=> f.phase = "prompt"
    BY <1>2, <1>3
  <2>2. f.actions = {} <=> f.phase = "terminal"
    BY <1>2, ActionsFit
  <2> QED BY <2>1, <2>2
<1>11. \A x \in 0 .. 8 : Here(x) # None /\ InsideZones(f, Here(x))
  <2> TAKE x \in 0 .. 8
  <2>1. Here(x)[1] = "arena" /\ Here(x)[2] = x /\ Here(x)[3] = 2 /\ Here(x) # None
    BY DEF Here, Row, None
  <2>2. zone \in f.zones /\ x \in 0 .. zone.width - 1 /\ 2 \in 0 .. zone.height - 1
    BY <1>2, <1>4
  <2> QED BY <1>4, <2>1, <2>2 DEF InsideZones
<1>12. \A e \in f.entities : e.id # "cell:" /\ (e.at # None => InsideZones(f, e.at))
  <2> TAKE e \in f.entities
  <2>1. CASE \E n \in Named : /\ e.id = n[1] /\ e.kind = n[2]
                              /\ e.at = IF n[1] = "p" THEN Here(a.x) ELSE None
    <3>1. e.id # "cell:"
      BY <2>1 DEF Named
    <3> QED BY <1>3, <1>11, <2>1, <3>1
  <2>2. CASE Perceived(a) /\ e.id = Handles[a.contact] /\ e.at = Here(a.targetX)
    <3>1. e.id # "cell:"
      BY <2>2, ContactNamed, Zenon
    <3>2. a.targetX \in 0 .. 8
      BY <1>3
    <3> QED BY <1>11, <2>2, <3>1, <3>2
  <2>3. \/ \E n \in Named : /\ e.id = n[1] /\ e.kind = n[2]
                           /\ e.at = IF n[1] = "p" THEN Here(a.x) ELSE None
        \/ Perceived(a) /\ e.id = Handles[a.contact] /\ e.at = Here(a.targetX)
    <3>1. \A d \in Entities(a) :
            \/ \E n \in Named : /\ d.id = n[1] /\ d.kind = n[2]
                                /\ d.at = IF n[1] = "p" THEN Here(a.x) ELSE None
            \/ /\ Perceived(a) /\ d.id = Handles[a.contact] /\ d.kind = "contact"
               /\ d.at = Here(a.targetX)
      BY EntitiesAre, Zenon
    <3>2. e \in Entities(a)
      BY <1>2
    <3> QED BY <3>1, <3>2, Zenon
  <2> QED BY <2>1, <2>2, <2>3, Zenon
<1>13. \A z \in f.zones : ZoneOK(z)
  BY <1>2, <1>4 DEF ZoneOK
<1>14. /\ {"p", "hand", "weapon", "ability", "ammo", "artifact"} \subseteq refs
       /\ a.preset = "listener" => "sense" \in refs
       /\ Perceived(a) => Handles[a.contact] \in refs
  <2>1. \A e \in Entities(a) : e.id \in refs
    BY <1>2
  <2>2. "p" \in refs
    <3> PICK e : e = [id |-> "p", kind |-> "actor", at |-> Here(a.x)]
      OBVIOUS
    <3>1. e \in Entities(a) /\ e.id = "p"
      BY EntitiesAre
    <3> QED BY <2>1, <3>1
  <2>3. Perceived(a) => Handles[a.contact] \in refs
    <3> PICK e : e = [id |-> Handles[a.contact], kind |-> "contact", at |-> Here(a.targetX)]
      OBVIOUS
    <3>1. Perceived(a) => e \in Entities(a) /\ e.id = Handles[a.contact]
      BY EntitiesAre
    <3> QED BY <2>1, <3>1
  <2>4. \A id \in {"hand", "weapon", "ability", "ammo", "artifact"} : id \in refs
    <3>1. \A id \in {"hand", "weapon", "ability", "ammo", "artifact"} :
            \E e \in Entities(a) : e.id = id
      BY EntitiesAre, Zenon
    <3> QED BY <2>1, <3>1
  <2>5. a.preset = "listener" => "sense" \in refs
    <3>1. a.preset = "listener" => \E e \in Entities(a) : e.id = "sense"
      BY EntitiesAre, Zenon
    <3> QED BY <2>1, <3>1
  <2> QED BY <2>2, <2>3, <2>4, <2>5
<1>15. \A r \in f.relations : {r.subject, r.object} \subseteq refs /\ KnownNow(f, r)
  <2> TAKE r \in f.relations
  <2>1. /\ r.subject \in {"p", "hand", "weapon"}
        /\ \/ r.object \in {"weapon", "artifact", "ammo", "p", "hand", "ability"}
           \/ a.preset = "listener" /\ r.object = "sense"
        /\ r.status = "observed" /\ r.turn = a.turn
    BY <1>2, RelationsFit
  <2>2. KnownNow(f, r)
    BY <1>2, <1>3, <2>1 DEF KnownNow, Dated
  <2> QED BY <1>14, <2>1, <2>2
<1>16. event.subjects \subseteq refs /\ KnownNow(f, event)
  BY <1>2, <1>3, <1>5 DEF KnownNow, Dated
<1>21. OneTripleEach(f.relations)
  BY <1>2, RelationsFit DEF OneTripleEach
<1>22. OneClaimEach(f.claims)
  BY <1>2, ClaimsFair DEF OneClaimEach, OneOf
<1>17. ASSUME NEW act \in f.actions
       PROVE  /\ {act.source, act.target} \subseteq refs \cup {""}
              /\ act.destination # None => InsideZones(f, act.destination)
  <2>1. /\ Nobody(act.source) \/ act.source \in {"p", "ability"}
        /\ \/ Nobody(act.target) \/ act.target = "artifact"
           \/ Perceived(a) /\ act.target = Handles[a.contact]
        /\ act.destination = None \/ \E x \in 0 .. 8 : act.destination = Here(x)
    BY <1>2, ActionsFit
  <2>2. (Nobody(act.source) \/ act.source \in refs) /\ (Nobody(act.target) \/ act.target \in refs)
    BY <1>14, <2>1
  <2>3. {act.source, act.target} \subseteq refs \cup {""}
    BY <2>2, Zenon DEF Nobody
  <2> QED BY <1>11, <2>1, <2>3
<1>18. \A c \in f.claims : EvidenceOK(c) /\ Dated(f, c)
  <2> TAKE c \in f.claims
  <2>1. Fair(a, c)
    BY <1>2, ClaimsFair
  <2> QED BY <1>2, <1>3, <2>1 DEF Fair, EvidenceOK, Dated
<1>19. /\ \A i, j \in DOMAIN f.events : f.events[i].id = f.events[j].id => i = j
       /\ \A i \in DOMAIN f.events : f.events[i].subjects \subseteq refs /\ KnownNow(f, f.events[i])
  BY <1>8, <1>16
<1>20. IF f.actor = "" THEN f.phase \in {"creation", "terminal"}
       ELSE \E e \in f.entities : e.id = f.actor /\ e.kind = "actor"
  BY <1>9, Zenon
<1> QED BY <1>1, <1>6, <1>7, <1>10, <1>12, <1>13, <1>15, <1>17, <1>18, <1>19, <1>20, <1>21, <1>22,
           Zenon DEF Consistent

-----------------------------------------------------------------------------
(* What a frame does not say                                               *)

\* The same arena with another place and strength of the target and another
\* name of the artifact.
Twin(a, x, hp, name) == [a EXCEPT !.targetX = x, !.targetHp = hp, !.artifactName = name]

LEMMA TwinShowsTheSame ==
    ASSUME NEW a \in Arenas, NEW x, NEW hp, NEW name,
           ChannelOf(Twin(a, x, hp, name)) = ChannelOf(a),
           Perceived(a) => x = a.targetX, a.identified => name = a.artifactName
    PROVE  Observe(Twin(a, x, hp, name)) = Observe(a)
<1>1. PICK t : t = Twin(a, x, hp, name)
  OBVIOUS
<1>2. a \in ArenaType /\ Told(a)
  BY DEF Arenas
<1>3. /\ t.preset = a.preset /\ t.sequence = a.sequence /\ t.turn = a.turn /\ t.cooldown = a.cooldown
      /\ t.x = a.x /\ t.ammo = a.ammo /\ t.contact = a.contact /\ t.pending = a.pending
      /\ t.identified = a.identified /\ t.outcome = a.outcome /\ t.message = a.message
      /\ t.targetX = x /\ t.artifactName = name
  BY <1>1, <1>2 DEF ArenaType, Twin
<1>4. ChannelOf(t) = ChannelOf(a)
  BY <1>1
<1>5. Perceived(a) => t.targetX = a.targetX
  BY <1>3
<1>6. a.identified => t.artifactName = a.artifactName
  BY <1>3
<1>7. Reach(t) = Reach(a) /\ Ready(t) = Ready(a) /\ InSight(t) = InSight(a)
  <2>1. HasAmmo(t) = HasAmmo(a)
    BY <1>3 DEF HasAmmo
  <2> QED BY <1>3, <2>1 DEF Reach, Ready, InSight
<1>8. Terminal(t) = Terminal(a)
  BY <1>3 DEF Terminal
<1>9. /\ \A sort, slot, key, channel, value :
             SeenOf(t, sort, slot, key, channel, value) = SeenOf(a, sort, slot, key, channel, value)
      /\ \A key, channel, value : FactOf(t, key, channel, value) = FactOf(a, key, channel, value)
  BY <1>3 DEF FactOf, SeenOf
<1>10. \A key : UnknownOf(t, key) = UnknownOf(a, key)
  BY <1>3 DEF UnknownOf
<1>11. Claims(t) = Claims(a)
  <2>1. BodyClaims(t) = BodyClaims(a)
    BY <1>3, <1>7 DEF BodyClaims, FactOf, SeenOf
  <2>2. ArtifactClaim(t) = ArtifactClaim(a)
    <3>1. CASE a.identified
      BY <1>3, <1>6, <1>9, <3>1 DEF ArtifactClaim
    <3>2. CASE ~a.identified
      BY <1>3, <1>10, <3>2 DEF ArtifactClaim
    <3> QED BY <3>1, <3>2
  <2>3. PlayerClaim(t) = PlayerClaim(a)
    BY <1>3, <1>9 DEF PlayerClaim
  <2>4. \A y : CellClaim(t, y) = CellClaim(a, y)
    BY <1>9 DEF CellClaim
  <2>5. ContactClaims(t) = ContactClaims(a)
    <3>1. CASE ChannelOf(a) = "vision"
      <4>1. Perceived(a)
        BY <3>1, ContactNamed, Zenon
      <4> QED BY <1>3, <1>4, <1>5, <1>9, <3>1, <4>1 DEF ContactClaims, ContactClaim
    <3>2. CASE ChannelOf(a) = "hearing"
      <4>1. Perceived(a)
        BY <3>2, ContactNamed, Zenon
      <4> QED BY <1>3, <1>4, <1>5, <1>9, <1>10, <3>2, <4>1 DEF ContactClaims, ContactClaim
    <3>3. CASE ChannelOf(a) \notin {"vision", "hearing"}
      BY <1>4, <3>3, ClaimsAre
    <3> QED BY <3>1, <3>2, <3>3
  <2>6. \A c : c \in Claims(t) <=>
                \/ c \in BodyClaims(t) \/ c = ArtifactClaim(t)
                \/ c = PlayerClaim(t)
                \/ \E y \in InSight(t) : c = CellClaim(t, y)
                \/ c \in ContactClaims(t)
    BY ClaimsAre, Zenon
  <2>7. \A c : c \in Claims(a) <=>
                \/ c \in BodyClaims(a) \/ c = ArtifactClaim(a)
                \/ c = PlayerClaim(a)
                \/ \E y \in InSight(a) : c = CellClaim(a, y)
                \/ c \in ContactClaims(a)
    BY ClaimsAre, Zenon
  <2>8. \A c : c \in Claims(t) <=> c \in Claims(a)
    BY <1>7, <2>1, <2>2, <2>3, <2>4, <2>5, <2>6, <2>7, Zenon
  <2> QED BY <2>8
<1>12. Perceived(t) <=> Perceived(a)
  BY <1>4, Zenon DEF Perceived
<1>13. Entities(t) = Entities(a)
  <2>1. Things(t) = Things(a)
    BY <1>3, Zenon DEF Things
  <2>2. CASE Perceived(a)
    <3>1. t.targetX = a.targetX
      BY <1>5, <2>2
    <3> QED BY <1>3, <1>4, <2>1, <3>1, Zenon DEF Entities
  <2>3. CASE ~Perceived(a)
    <3>1. ChannelOf(a) = "" /\ ChannelOf(t) = ""
      BY <1>4, <2>3, Zenon DEF Perceived
    <3>2. Entities(a) = Things(a) \cup {} /\ Entities(t) = Things(t) \cup {}
      BY <3>1, Zenon DEF Entities
    <3> QED BY <2>1, <3>2, Zenon
  <2> QED BY <2>2, <2>3
<1>14. Relations(t) = Relations(a)
  BY <1>3, Zenon DEF Relations
<1>15. Actions(t) = Actions(a)
  BY <1>3, <1>4, <1>8, Zenon DEF Actions
<1>16. a.message = "reveals" => t.artifactName = a.artifactName
  BY <1>2, <1>6 DEF Told
<1>17. (IF t.message = "reveals" THEN t.artifactName ELSE 0)
       = (IF a.message = "reveals" THEN a.artifactName ELSE 0)
  BY <1>3, <1>16
<1>18. InSight(t) = InSight(a) /\ {y \in 0 .. 8 : Distance(y, t.x) <= 3} = {y \in 0 .. 8 : Distance(y, a.x) <= 3}
  BY <1>3, <1>7
<1> QED BY <1>1, <1>3, <1>8, <1>11, <1>13, <1>14, <1>15, <1>17, <1>18, ZenonT(40) DEF Observe

-----------------------------------------------------------------------------
(* The scorer                                                              *)

LEMMA ScorerAims ==
    ASSUME NEW a \in Arenas, NEW act \in Actions(a), act.id = "use"
    PROVE  Score(Observe(a), act) = 100 <=> CanHit(a)
<1>1. PICK f : f = Observe(a)
  OBVIOUS
<1>2. f.claims = Claims(a) /\ f.entities = Entities(a) /\ f.actor = "p"
  BY <1>1, ObserveIs
<1>3. act.operation \in {"attack", "fire"} /\ Perceived(a) /\ act.target = Handles[a.contact]
  BY ActionsFit, Zenon
<1>4. PICK ready : ready = FactOf(a, 3, "self", IF Ready(a) THEN 1 ELSE 0)
  OBVIOUS
<1>5. PICK reach : reach = FactOf(a, 2, "self", Reach(a))
  OBVIOUS
<1>6. ready \in Claims(a) /\ reach \in Claims(a)
  <2>1. ready \in BodyClaims(a) /\ reach \in BodyClaims(a)
    BY <1>4, <1>5 DEF BodyClaims
  <2>2. \A c \in BodyClaims(a) : c \in Claims(a)
    BY ClaimsAre, Zenon
  <2> QED BY <2>1, <2>2
<1>7. \A c, d \in Claims(a) : c.key = d.key => c = d
  BY ClaimsFair DEF OneOf
<1>8. ValueOf(f, 3) = IF Ready(a) THEN 1 ELSE 0
  <2>1. ready.key = 3 /\ ready.value = IF Ready(a) THEN 1 ELSE 0
    BY <1>4 DEF FactOf, SeenOf
  <2>2. (CHOOSE c \in Claims(a) : c.key = 3) = ready
    BY <1>6, <1>7, <2>1
  <2> QED BY <1>2, <2>1, <2>2 DEF ValueOf
<1>9. ValueOf(f, 2) = Reach(a)
  <2>1. reach.key = 2 /\ reach.value = Reach(a)
    BY <1>5 DEF FactOf, SeenOf
  <2>2. (CHOOSE c \in Claims(a) : c.key = 2) = reach
    BY <1>6, <1>7, <2>1
  <2> QED BY <1>2, <2>1, <2>2 DEF ValueOf
<1>10. PICK player : player = [id |-> "p", kind |-> "actor", at |-> Here(a.x)]
  OBVIOUS
<1>11. PICK contact : contact = [id |-> Handles[a.contact], kind |-> "contact", at |-> Here(a.targetX)]
  OBVIOUS
<1>12. player \in Entities(a) /\ contact \in Entities(a)
  BY <1>3, <1>10, <1>11, EntitiesAre, Zenon
<1>13. \A e, d \in Entities(a) : e.id = d.id => e = d
  BY EntitiesAre, Zenon
<1>14. PlaceOf(f, f.actor) = a.x
  <2>1. player.id = "p" /\ player.at[2] = a.x
    BY <1>10 DEF Here
  <2>2. (CHOOSE e \in Entities(a) : e.id = "p") = player
    BY <1>12, <1>13, <2>1
  <2> QED BY <1>2, <2>1, <2>2 DEF PlaceOf
<1>15. PlaceOf(f, act.target) = a.targetX
  <2>1. contact.id = Handles[a.contact] /\ contact.at[2] = a.targetX
    BY <1>11 DEF Here
  <2>2. (CHOOSE e \in Entities(a) : e.id = Handles[a.contact]) = contact
    BY <1>12, <1>13, <2>1
  <2> QED BY <1>2, <1>3, <2>1, <2>2 DEF PlaceOf
<1>16. a.x \in Int /\ a.targetX \in Int
  BY DEF Arenas, ArenaType
<1>17. Distance(a.x, a.targetX) = Distance(a.targetX, a.x)
  BY <1>16 DEF Distance
<1>18. Score(f, act) = IF ValueOf(f, 3) = 1 /\ Distance(PlaceOf(f, f.actor), PlaceOf(f, act.target))
                                               <= ValueOf(f, 2)
                       THEN 100 ELSE -10
  BY <1>3 DEF Score
<1>19. Score(f, act) = IF Ready(a) /\ Distance(a.targetX, a.x) <= Reach(a) THEN 100 ELSE -10
  <2>1. ValueOf(f, 3) = 1 <=> Ready(a)
    BY <1>8
  <2> QED BY <1>9, <1>14, <1>15, <1>17, <1>18, <2>1
<1>20. CanHit(a) <=> Ready(a) /\ Distance(a.targetX, a.x) <= Reach(a)
  BY DEF CanHit, Ready
<1> QED BY <1>1, <1>19, <1>20

-----------------------------------------------------------------------------
(* The memory and the trace                                                *)

\* A record holds what the last frame to disclose its key said.
Evidence(r, tr) ==
    \E i \in 1 .. Len(tr) :
        /\ \E c \in Known(tr[i].frame) : r = RecordOf(tr[i].frame, c)
        /\ \A j \in 1 .. Len(tr) : i < j => r.key \notin KeysOf(tr[j].frame)

\* The keys ever disclosed.
Ever(tr) == UNION {KeysOf(tr[i].frame) : i \in 1 .. Len(tr)}

\* The records of a memory that was shown the frames of the trace.
Recorded(mem, tr) ==
    /\ Keyed(mem.records) /\ Len(mem.records) <= MaxRecords
    /\ \A k \in 1 .. Len(mem.records) : Evidence(mem.records[k], tr)
    /\ mem.forgotten \in Nat
    /\ IsFiniteSet(Ever(tr) \ Keys(mem.records))
    /\ Cardinality(Ever(tr) \ Keys(mem.records)) <= mem.forgotten

LEMMA RecordsFollow ==
    ASSUME NEW mem, NEW S, NEW tr \in Seq(S), NEW rec \in S, NEW f, rec.frame = f,
           Evident(f), Recorded(mem, tr)
    PROVE  Recorded(Remember(mem, f), Append(tr, rec))
<1>1. PICK t : t = Append(tr, rec)
  OBVIOUS
<1>2. PICK q : q = Refreshed(mem, f)
  OBVIOUS
<1>3. PICK r : r = Newest(q, MaxRecords)
  OBVIOUS
<1>4. MaxRecords \in Nat /\ Len(tr) \in Nat
  BY MemoryLimits
<1>5. /\ Keyed(mem.records) /\ \A k \in 1 .. Len(mem.records) : Evidence(mem.records[k], tr)
      /\ mem.forgotten \in Nat /\ IsFiniteSet(Ever(tr) \ Keys(mem.records))
      /\ Cardinality(Ever(tr) \ Keys(mem.records)) <= mem.forgotten
  BY DEF Recorded
<1>6. /\ Len(t) = Len(tr) + 1 /\ t[Len(tr) + 1] = rec
      /\ \A i \in 1 .. Len(tr) : t[i] = tr[i]
  BY <1>1
<1>7. /\ Keyed(q) /\ Keys(q) = Keys(mem.records) \cup KeysOf(f)
      /\ \A k \in 1 .. Len(q) :
            \/ \E c \in Known(f) : q[k] = RecordOf(f, c)
            \/ /\ q[k].key \notin KeysOf(f)
               /\ \E i \in 1 .. Len(mem.records) : q[k] = mem.records[i]
  BY <1>2, <1>5, RefreshedIs
<1>8. /\ Keyed(r) /\ Keys(r) \subseteq Keys(q) /\ IsFiniteSet(Keys(q) \ Keys(r))
      /\ Cardinality(Keys(q) \ Keys(r)) <= Over(q, MaxRecords)
  BY <1>3, <1>4, <1>7, PushedOutCounted
<1>9. q \in Seq(Rec) /\ Len(q) \in Nat
  BY <1>7 DEF Keyed
<1>10. /\ Over(q, MaxRecords) \in Nat /\ Len(r) = Len(q) - Over(q, MaxRecords)
       /\ Len(r) <= MaxRecords
       /\ \A k \in 1 .. Len(q) - Over(q, MaxRecords) : r[k] = q[Over(q, MaxRecords) + k]
  BY <1>3, <1>4, <1>9, NewestKeeps
<1>11. PICK o \in Nat : o = Over(q, MaxRecords)
  BY <1>10
<1>12. \A k \in 1 .. Len(r) : o + k \in 1 .. Len(q) /\ r[k] = q[o + k]
  BY <1>9, <1>10, <1>11
<1>13. ASSUME NEW k \in 1 .. Len(q) PROVE Evidence(q[k], t)
  <2>1. CASE \E c \in Known(f) : q[k] = RecordOf(f, c)
    <3>1. Len(tr) + 1 \in 1 .. Len(t) /\ t[Len(tr) + 1].frame = f
      BY <1>4, <1>6
    <3>2. \A j \in 1 .. Len(t) : ~(Len(tr) + 1 < j)
      BY <1>4, <1>6
    <3> QED BY <2>1, <3>1, <3>2 DEF Evidence
  <2>2. CASE q[k].key \notin KeysOf(f) /\ \E i \in 1 .. Len(mem.records) : q[k] = mem.records[i]
    <3>1. Evidence(q[k], tr)
      BY <1>5, <2>2
    <3>2. PICK i \in 1 .. Len(tr) :
            /\ \E c \in Known(tr[i].frame) : q[k] = RecordOf(tr[i].frame, c)
            /\ \A j \in 1 .. Len(tr) : i < j => q[k].key \notin KeysOf(tr[j].frame)
      BY <3>1 DEF Evidence
    <3>3. i \in 1 .. Len(t) /\ t[i].frame = tr[i].frame
      BY <1>4, <1>6
    <3>4. \A j \in 1 .. Len(t) : i < j => q[k].key \notin KeysOf(t[j].frame)
      <4>1. \A j \in 1 .. Len(t) : j \in 1 .. Len(tr) \/ j = Len(tr) + 1
        BY <1>4, <1>6
      <4>2. t[Len(tr) + 1].frame = f
        BY <1>6
      <4> QED BY <1>6, <2>2, <3>2, <4>1, <4>2
    <3> QED BY <3>2, <3>3, <3>4 DEF Evidence
  <2> QED BY <1>7, <2>1, <2>2
<1>14. \A k \in 1 .. Len(r) : Evidence(r[k], t)
  BY <1>12, <1>13
<1>15. Ever(t) = Ever(tr) \cup KeysOf(f)
  <2>1. \A x : x \in Ever(t) <=> \E i \in 1 .. Len(t) : x \in KeysOf(t[i].frame)
    BY Zenon DEF Ever
  <2>2. \A x : x \in Ever(tr) <=> \E i \in 1 .. Len(tr) : x \in KeysOf(tr[i].frame)
    BY Zenon DEF Ever
  <2>3. \A i : i \in 1 .. Len(t) <=> i \in 1 .. Len(tr) \/ i = Len(tr) + 1
    BY <1>4, <1>6
  <2>4. t[Len(tr) + 1].frame = f
    BY <1>6
  <2> QED BY <1>6, <2>1, <2>2, <2>3, <2>4
<1>16. PICK A : A = Ever(tr) \ Keys(mem.records)
  OBVIOUS
<1>17. PICK B : B = Keys(q) \ Keys(r)
  OBVIOUS
<1>18. PICK D : D = Ever(t) \ Keys(r)
  OBVIOUS
<1>19. D \in SUBSET (A \cup B)
  BY <1>7, <1>15, <1>16, <1>17, <1>18
<1>20. IsFiniteSet(A) /\ IsFiniteSet(B) /\ Cardinality(A) <= mem.forgotten /\ Cardinality(B) <= o
  BY <1>5, <1>8, <1>11, <1>16, <1>17
<1>21. /\ IsFiniteSet(A \cup B)
       /\ Cardinality(A \cup B) = Cardinality(A) + Cardinality(B) - Cardinality(A \cap B)
  BY <1>20, FS_Union
<1>22. IsFiniteSet(A \cap B)
  BY <1>20, FS_Intersection
<1>23. Cardinality(A) \in Nat /\ Cardinality(B) \in Nat /\ Cardinality(A \cap B) \in Nat
  BY <1>20, <1>22, FS_CardinalityType
<1>24. IsFiniteSet(D) /\ Cardinality(D) <= Cardinality(A \cup B)
  BY <1>19, <1>21, FS_Subset
<1>25. Cardinality(D) \in Nat
  BY <1>24, FS_CardinalityType
<1>26. Cardinality(D) <= mem.forgotten + o
  BY <1>5, <1>20, <1>21, <1>23, <1>24, <1>25
<1>27. PICK m : m = Remember(mem, f)
  OBVIOUS
<1>28. m.records = r /\ m.forgotten = mem.forgotten + o
  BY <1>2, <1>3, <1>11, <1>27 DEF Remember
<1>29. m.forgotten \in Nat
  BY <1>5, <1>28
<1>30. Recorded(m, t)
  BY <1>8, <1>10, <1>14, <1>18, <1>24, <1>26, <1>28, <1>29 DEF Recorded
<1> QED BY <1>1, <1>27, <1>30

\* The trace tells the decisions of one game in order.
Selectable == {"", "yes", "no", "forward", "back", "rest", "look", "use"}
Entries == [frame : {Observe(a) : a \in Arenas}, selected : Selectable]

Chosen(rec) == rec.selected \in {act.id : act \in rec.frame.actions} \cup {""}

Account(tr) ==
    /\ tr \in Seq(Entries)
    /\ \A i \in 1 .. Len(tr) : \E a \in Arenas : tr[i].frame = Observe(a) /\ a.sequence = i - 1
    /\ \A i \in 1 .. Len(tr) : Chosen(tr[i])
    /\ \A i, j \in 1 .. Len(tr) : i <= j => tr[i].frame.turn <= tr[j].frame.turn

LEMMA AccountOf ==
    ASSUME NEW tr, Account(tr), NEW i \in 1 .. Len(tr)
    PROVE  /\ tr[i].frame.episode = 1 /\ tr[i].frame.branch = 1
           /\ tr[i].frame.decision = <<i - 1>>
           /\ tr[i].frame.parent = IF i = 1 THEN None ELSE <<i - 2>>
           /\ tr[i].frame.turn \in Nat /\ Evident(tr[i].frame)
<1>1. PICK a \in Arenas : tr[i].frame = Observe(a) /\ a.sequence = i - 1
  BY DEF Account
<1>2. PICK f : f = tr[i].frame
  OBVIOUS
<1>3. Evident(f) /\ f.turn = a.turn /\ f.decision = <<a.sequence>>
  BY <1>1, <1>2, FrameIsEvident
<1>4. f.episode = 1 /\ f.branch = 1 /\ f.parent = IF a.sequence = 0 THEN None ELSE <<a.sequence - 1>>
  <2>1. f = Observe(a)
    BY <1>1, <1>2
  <2> QED BY <2>1 DEF Observe
<1>5. i \in Int
  OBVIOUS
<1>6. f.parent = IF i = 1 THEN None ELSE <<i - 2>>
  BY <1>1, <1>4, <1>5
<1>7. f.turn \in Nat
  BY <1>3 DEF Evident
<1> QED BY <1>1, <1>2, <1>3, <1>4, <1>6, <1>7

\* A trace like that can be read back.
LEMMA AccountIsReadable ==
    ASSUME NEW tr, Account(tr)
    PROVE  Readable(tr)
<1>1. Len(tr) \in Nat /\ DOMAIN tr = 1 .. Len(tr)
  BY DEF Account
<1>2. ASSUME NEW i \in 1 .. Len(tr)
      PROVE  tr[i].frame.decision \notin {tr[j].frame.decision : j \in 1 .. i - 1}
  <2> SUFFICES ASSUME NEW j \in 1 .. i - 1 PROVE tr[i].frame.decision # tr[j].frame.decision
    OBVIOUS
  <2>1. j \in 1 .. Len(tr) /\ i - 1 # j - 1
    BY <1>1
  <2>2. tr[i].frame.decision = <<i - 1>> /\ tr[j].frame.decision = <<j - 1>>
    BY <2>1, AccountOf
  <2> QED BY <2>1, <2>2
<1>3. ASSUME NEW i \in 1 .. Len(tr)
      PROVE  IF i = 1 THEN tr[i].frame.parent = None
             ELSE /\ tr[i].frame.episode = tr[i - 1].frame.episode
                  /\ tr[i].frame.branch = tr[i - 1].frame.branch
                  /\ tr[i].frame.parent = tr[i - 1].frame.decision
                  /\ tr[i].frame.turn >= tr[i - 1].frame.turn
  <2>1. CASE i = 1
    <3>1. tr[i].frame.parent = IF i = 1 THEN None ELSE <<i - 2>>
      BY AccountOf
    <3> QED BY <2>1, <3>1
  <2>2. CASE i # 1
    <3>1. i - 1 \in 1 .. Len(tr) /\ i - 1 <= i /\ (i - 1) - 1 = i - 2
      BY <1>1, <2>2
    <3>2. /\ tr[i].frame.episode = 1 /\ tr[i].frame.branch = 1
          /\ tr[i].frame.parent = IF i = 1 THEN None ELSE <<i - 2>>
      BY AccountOf
    <3>3. /\ tr[i - 1].frame.episode = 1 /\ tr[i - 1].frame.branch = 1
          /\ tr[i - 1].frame.decision = <<(i - 1) - 1>>
      BY <3>1, AccountOf
    <3>4. tr[i - 1].frame.turn <= tr[i].frame.turn
      BY <3>1 DEF Account
    <3>5. tr[i].frame.turn \in Nat /\ tr[i - 1].frame.turn \in Nat
      BY <3>1, AccountOf
    <3>6. tr[i].frame.turn >= tr[i - 1].frame.turn
      BY <3>4, <3>5
    <3> QED BY <2>2, <3>1, <3>2, <3>3, <3>6
  <2> QED BY <2>1, <2>2
<1>4. \A i \in 1 .. Len(tr) : tr[i].selected \in {act.id : act \in tr[i].frame.actions} \cup {""}
  BY Zenon DEF Account, Chosen
<1> QED BY <1>1, <1>2, <1>3, <1>4, Zenon DEF Readable

\* What else the memory keeps: the last frame, decisions of the past, and an
\* event for every frame it did not have to forget.
Notes == [event : {Observe(a).events[1] : a \in Arenas}, decision : {<<n>> : n \in Nat}]

Kept(mem, tr, turn) ==
    /\ mem.frame = IF Len(tr) = 0 THEN {} ELSE {tr[Len(tr)].frame}
    /\ mem.decisions \in Seq({<<n>> : n \in Nat})
    /\ \A k \in 1 .. Len(mem.decisions) : \E n \in 0 .. Len(tr) - 1 : mem.decisions[k] = <<n>>
    /\ mem.events \in Seq(Notes) /\ mem.forgottenEvents \in Nat
    /\ Len(mem.events) + mem.forgottenEvents = Len(tr)
    /\ \A k \in 1 .. Len(mem.events) : mem.events[k].event.turn <= turn

LEMMA KeptFollow ==
    ASSUME NEW a \in Arenas, NEW mem, NEW tr, Account(tr), Len(tr) = a.sequence,
           Kept(mem, tr, a.turn), NEW rec \in Entries, rec.frame = Observe(a)
    PROVE  Kept(Remember(mem, Observe(a)), Append(tr, rec), a.turn)
<1>1. PICK f : f = Observe(a)
  OBVIOUS
<1>2. PICK t : t = Append(tr, rec)
  OBVIOUS
<1>3. PICK m : m = Remember(mem, f)
  OBVIOUS
<1>4. PICK T : T = {<<n>> : n \in Nat}
  OBVIOUS
<1>5. /\ mem.decisions \in Seq(T)
      /\ \A k \in 1 .. Len(mem.decisions) : \E n \in 0 .. Len(tr) - 1 : mem.decisions[k] = <<n>>
      /\ mem.events \in Seq(Notes) /\ mem.forgottenEvents \in Nat
      /\ Len(mem.events) + mem.forgottenEvents = Len(tr)
      /\ \A k \in 1 .. Len(mem.events) : mem.events[k].event.turn <= a.turn
  BY <1>4 DEF Kept
<1>6. /\ Len(t) = Len(tr) + 1 /\ t[Len(tr) + 1] = rec /\ Len(tr) \in Nat
  BY <1>2 DEF Account
<1>7. MaxDecisions \in Nat /\ MaxEvents \in Nat
  BY MemoryLimits
<1>8. a.sequence \in Nat /\ a.turn \in Nat /\ f.decision = <<a.sequence>> /\ f.turn = a.turn
  <2>1. a.turn \in Nat
    BY DEF Arenas, ArenaType
  <2> QED BY <1>1, <2>1, FrameIsEvident
<1>9. m.frame = IF Len(t) = 0 THEN {} ELSE {t[Len(t)].frame}
  BY <1>1, <1>3, <1>6 DEF Remember
<1>10. PICK d : d = Append(mem.decisions, f.decision)
  OBVIOUS
<1>11. /\ d \in Seq(T)
       /\ \A k \in 1 .. Len(d) : \E n \in 0 .. Len(t) - 1 : d[k] = <<n>>
  <2>1. f.decision \in T
    BY <1>4, <1>8
  <2>2. /\ d \in Seq(T) /\ Len(d) = Len(mem.decisions) + 1 /\ d[Len(mem.decisions) + 1] = f.decision
        /\ \A k \in 1 .. Len(mem.decisions) : d[k] = mem.decisions[k]
    BY <1>5, <1>10, <2>1
  <2>3. Len(mem.decisions) \in Nat
    BY <1>5
  <2>4. \A k \in 1 .. Len(d) : k \in 1 .. Len(mem.decisions) \/ k = Len(mem.decisions) + 1
    BY <2>2, <2>3
  <2>5. \A n \in 0 .. Len(tr) - 1 : n \in 0 .. Len(t) - 1
    BY <1>6
  <2>6. a.sequence \in 0 .. Len(t) - 1
    BY <1>6, <1>8
  <2> QED BY <1>5, <1>8, <2>2, <2>4, <2>5, <2>6
<1>12. PICK e : e = Newest(d, MaxDecisions)
  OBVIOUS
<1>13. e \in Seq(T) /\ \A k \in 1 .. Len(e) : \E n \in 0 .. Len(t) - 1 : e[k] = <<n>>
  <2>1. /\ Over(d, MaxDecisions) \in Nat /\ e \in Seq(T) /\ Len(e) = Len(d) - Over(d, MaxDecisions)
        /\ \A k \in 1 .. Len(d) - Over(d, MaxDecisions) : e[k] = d[Over(d, MaxDecisions) + k]
    BY <1>7, <1>11, <1>12, NewestKeeps
  <2>2. Len(d) \in Nat
    BY <1>11
  <2>3. \A k \in 1 .. Len(e) : Over(d, MaxDecisions) + k \in 1 .. Len(d)
    BY <2>1, <2>2
  <2> QED BY <1>11, <2>1, <2>3
<1>14. PICK note : note = [event |-> f.events[1], decision |-> f.decision]
  OBVIOUS
<1>15. PICK s : s = EventsWith(mem, f)
  OBVIOUS
<1>16. s \in Seq(Notes) /\ Len(s) = Len(mem.events) + 1 /\ \A k \in 1 .. Len(s) : s[k].event.turn <= a.turn
  <2> PICK event : event = f.events[1]
    OBVIOUS
  <2>1. f.events = <<event>> /\ event.turn = a.turn
    <3>1. f.events = <<[id |-> a.sequence, status |-> "observed", turn |-> a.turn, subjects |-> {},
                        text |-> <<a.message,
                                   IF a.message = "reveals" THEN a.artifactName ELSE 0>>]>>
      BY <1>1, ObserveIs
    <3> QED BY <3>1
  <2>2. note \in Notes
    BY <1>1, <1>8, <1>14 DEF Notes
  <2>3. [i \in DOMAIN f.events |-> [event |-> f.events[i], decision |-> f.decision]] = <<note>>
    BY <1>14, <2>1
  <2>4. s = mem.events \o <<note>>
    BY <1>15, <2>3 DEF EventsWith
  <2>5. /\ s \in Seq(Notes) /\ Len(s) = Len(mem.events) + 1 /\ s[Len(mem.events) + 1] = note
        /\ \A k \in 1 .. Len(mem.events) : s[k] = mem.events[k]
    BY <1>5, <2>2, <2>4
  <2>6. Len(mem.events) \in Nat
    BY <1>5
  <2>7. \A k \in 1 .. Len(s) : k \in 1 .. Len(mem.events) \/ k = Len(mem.events) + 1
    BY <2>5, <2>6
  <2>8. note.event.turn <= a.turn
    BY <1>8, <1>14, <2>1
  <2> QED BY <1>5, <2>5, <2>7, <2>8
<1>17. PICK v : v = Newest(s, MaxEvents)
  OBVIOUS
<1>18. /\ Over(s, MaxEvents) \in Nat /\ v \in Seq(Notes) /\ Len(v) = Len(s) - Over(s, MaxEvents)
       /\ \A k \in 1 .. Len(s) - Over(s, MaxEvents) : v[k] = s[Over(s, MaxEvents) + k]
  BY <1>7, <1>16, <1>17, NewestKeeps
<1>19. \A k \in 1 .. Len(v) : v[k].event.turn <= a.turn
  <2>1. Len(s) \in Nat
    BY <1>16
  <2>2. \A k \in 1 .. Len(v) : Over(s, MaxEvents) + k \in 1 .. Len(s)
    BY <1>18, <2>1
  <2> QED BY <1>16, <1>18, <2>2
<1>20. /\ m.decisions = e /\ m.events = v
       /\ m.forgottenEvents = mem.forgottenEvents + Over(s, MaxEvents)
  BY <1>3, <1>10, <1>12, <1>15, <1>17 DEF Remember
<1>21. m.forgottenEvents \in Nat /\ Len(m.events) + m.forgottenEvents = Len(t)
  <2>1. PICK k \in Nat : k = Len(mem.events)
    BY <1>5
  <2>2. PICK o \in Nat : o = Over(s, MaxEvents)
    BY <1>18
  <2>3. PICK n \in Nat : n = mem.forgottenEvents
    BY <1>5
  <2>4. k + n = Len(tr) /\ Len(s) = k + 1 /\ Len(t) = Len(tr) + 1
    BY <1>5, <1>6, <1>16, <2>1, <2>3
  <2>5. Len(m.events) = k + 1 - o /\ m.forgottenEvents = n + o
    BY <1>18, <1>20, <2>2, <2>3, <2>4
  <2> QED BY <1>6, <2>4, <2>5
<1>22. Kept(m, t, a.turn)
  BY <1>4, <1>9, <1>13, <1>18, <1>19, <1>20, <1>21 DEF Kept
<1> QED BY <1>1, <1>2, <1>3, <1>22

\* The next frame is taken unless a hypothesis refers to what is not retained.
LEMMA UpdateTakes ==
    ASSUME NEW a \in Arenas, NEW mem, NEW tr, Account(tr), Len(tr) = a.sequence,
           \A i \in 1 .. Len(tr) : tr[i].frame.turn <= a.turn,
           Recorded(mem, tr), Kept(mem, tr, a.turn), NEW based
    PROVE  Update(mem, Observe(a), based)
             = IF based \subseteq Retained(mem, Observe(a))
               THEN [ok |-> TRUE, mem |-> Remember(mem, Observe(a))]
               ELSE [ok |-> FALSE, mem |-> mem]
<1>1. PICK f : f = Observe(a)
  OBVIOUS
<1>2. /\ f.episode = 1 /\ f.branch = 1 /\ f.decision = <<a.sequence>> /\ f.turn = a.turn
      /\ f.parent = IF a.sequence = 0 THEN None ELSE <<a.sequence - 1>>
  BY <1>1 DEF Observe
<1>3. a.sequence \in Nat /\ a.turn \in Nat /\ Evident(f)
  <2>1. a.turn \in Nat
    BY DEF Arenas, ArenaType
  <2> QED BY <1>1, <2>1, FrameIsEvident
<1>4. ~Repeats(mem, f)
  <2>1. DOMAIN mem.decisions = 1 .. Len(mem.decisions)
    BY DEF Kept
  <2>2. ASSUME NEW k \in 1 .. Len(mem.decisions) PROVE mem.decisions[k] # f.decision
    <3>1. PICK n \in 0 .. Len(tr) - 1 : mem.decisions[k] = <<n>>
      BY DEF Kept
    <3>2. n # a.sequence
      BY <1>3
    <3> QED BY <1>2, <3>1, <3>2
  <2>3. f.decision \in ToSet(mem.decisions) <=> \E k \in 1 .. Len(mem.decisions) : mem.decisions[k] = f.decision
    BY <2>1, Zenon DEF ToSet
  <2> QED BY <2>2, <2>3, Zenon DEF Repeats
<1>5. Follows(mem, f)
  <2>1. CASE Len(tr) = 0
    <3>1. mem.frame = {}
      BY <2>1 DEF Kept
    <3> QED BY <1>2, <2>1, <3>1 DEF Follows
  <2>2. CASE Len(tr) # 0
    <3>1. PICK g : g = tr[Len(tr)].frame
      OBVIOUS
    <3>2. mem.frame = {g}
      BY <2>2, <3>1 DEF Kept
    <3>3. Len(tr) \in 1 .. Len(tr)
      BY <1>3, <2>2
    <3>4. g.episode = 1 /\ g.branch = 1 /\ g.decision = <<Len(tr) - 1>> /\ g.turn \in Nat
      BY <3>1, <3>3, AccountOf
    <3>5. f.turn >= g.turn
      BY <1>2, <1>3, <3>1, <3>3, <3>4
    <3>6. f.parent = g.decision
      BY <1>2, <2>2, <3>4
    <3> QED BY <1>2, <1>4, <3>2, <3>4, <3>5, <3>6 DEF Follows
  <2> QED BY <2>1, <2>2
<1>6. PICK m : m = Remember(mem, f)
  OBVIOUS
<1>7. Retained(mem, f) = ToSet(m.decisions)
  BY <1>4, <1>6 DEF Retained, Remember
<1>8. NoFutureMemory(View(m, f))
  <2>1. PICK rec : rec = [frame |-> f, selected |-> "rest"]
    OBVIOUS
  <2>2. rec \in Entries /\ rec.frame = f
    <3>1. f \in {Observe(b) : b \in Arenas}
      BY <1>1
    <3>2. "rest" \in Selectable
      BY Zenon DEF Selectable
    <3> QED BY <2>1, <3>1, <3>2 DEF Entries
  <2>3. PICK t : t = Append(tr, rec)
    OBVIOUS
  <2>4. tr \in Seq(Entries)
    BY DEF Account
  <2>5. Recorded(m, t)
    <3>1. PICK E : E = Entries
      OBVIOUS
    <3>2. tr \in Seq(E) /\ rec \in E
      BY <2>2, <2>4, <3>1
    <3> QED BY <1>3, <1>6, <2>2, <2>3, <3>2, RecordsFollow
  <2>6. Kept(m, t, a.turn)
    BY <1>1, <1>6, <2>2, <2>3, KeptFollow
  <2>7. \A i \in 1 .. Len(t) : t[i].frame.turn <= a.turn /\ Evident(t[i].frame)
    <3>1. Len(t) = Len(tr) + 1 /\ t[Len(tr) + 1] = rec /\ \A i \in 1 .. Len(tr) : t[i] = tr[i]
      BY <2>2, <2>3, <2>4
    <3>2. \A i \in 1 .. Len(t) : i \in 1 .. Len(tr) \/ i = Len(tr) + 1
      BY <1>3, <3>1
    <3>3. \A i \in 1 .. Len(tr) : Evident(tr[i].frame)
      BY AccountOf
    <3> QED BY <1>2, <1>3, <2>2, <3>1, <3>2, <3>3
  <2>8. ASSUME NEW k \in 1 .. Len(m.records) PROVE m.records[k].turn <= f.turn
    <3>1. Evidence(m.records[k], t)
      BY <2>5 DEF Recorded
    <3>2. PICK i \in 1 .. Len(t) : \E c \in Known(t[i].frame) : m.records[k] = RecordOf(t[i].frame, c)
      BY <3>1 DEF Evidence
    <3>3. PICK c \in Known(t[i].frame) : m.records[k] = RecordOf(t[i].frame, c)
      BY <3>2
    <3>4. c.turn = t[i].frame.turn
      BY <2>7 DEF Evident
    <3>5. m.records[k].turn = c.turn
      BY <3>3 DEF RecordOf
    <3> QED BY <1>2, <2>7, <3>4, <3>5
  <2>9. \A r \in ToSet(m.records) : r.turn <= f.turn
    <3>1. DOMAIN m.records = 1 .. Len(m.records)
      BY <2>5 DEF Recorded, Keyed
    <3> QED BY <2>8, <3>1, Zenon DEF ToSet
  <2>10. \A e \in ToSet(m.events) : e.event.turn <= f.turn
    <3>1. /\ DOMAIN m.events = 1 .. Len(m.events)
          /\ \A k \in 1 .. Len(m.events) : m.events[k].event.turn <= f.turn
      BY <1>2, <2>6 DEF Kept
    <3> QED BY <3>1, Zenon DEF ToSet
  <2>11. PICK keep : keep = {e \in ToSet(m.events) : e.decision # f.decision}
    OBVIOUS
  <2>12. ToSet(Only(m.events, keep)) = ToSet(m.events) \cap keep
    <3>1. PICK E : E = Notes
      OBVIOUS
    <3>2. m.events \in Seq(E)
      BY <2>6, <3>1 DEF Kept
    <3> QED BY <3>2, OnlyKeeps
  <2>13. PICK w : w = View(m, f)
    OBVIOUS
  <2>14. /\ w.current = f /\ w.remembered = {r \in ToSet(m.records) : r.key \notin KeysOf(f)}
         /\ w.rememberedEvents = Only(m.events, keep)
    BY <2>11, <2>13 DEF View
  <2>15. /\ \A r \in w.remembered : r.turn <= w.current.turn
         /\ \A e \in ToSet(w.rememberedEvents) : e.event.turn <= w.current.turn
    BY <2>9, <2>10, <2>12, <2>14
  <2> QED BY <2>13, <2>15 DEF NoFutureMemory
<1>9. CASE based \subseteq Retained(mem, f)
  BY <1>1, <1>4, <1>5, <1>6, <1>7, <1>8, <1>9 DEF Update
<1>10. CASE ~(based \subseteq Retained(mem, f))
  BY <1>1, <1>10 DEF Update
<1> QED BY <1>1, <1>9, <1>10

LEMMA AccountFollows ==
    ASSUME NEW a \in Arenas, NEW tr, Account(tr), Len(tr) = a.sequence,
           \A i \in 1 .. Len(tr) : tr[i].frame.turn <= a.turn,
           NEW rec \in Entries, rec.frame = Observe(a), Chosen(rec)
    PROVE  /\ Account(Append(tr, rec)) /\ Len(Append(tr, rec)) = a.sequence + 1
           /\ \A i \in 1 .. Len(Append(tr, rec)) : Append(tr, rec)[i].frame.turn <= a.turn
           /\ Last(Append(tr, rec)) = rec /\ Append(tr, rec) # <<>>
<1>1. PICK t : t = Append(tr, rec)
  OBVIOUS
<1>2. PICK E : E = Entries
  OBVIOUS
<1>3. tr \in Seq(E) /\ rec \in E /\ Len(tr) \in Nat
  BY <1>2 DEF Account
<1>4. /\ t \in Seq(E) /\ Len(t) = Len(tr) + 1 /\ t[Len(tr) + 1] = rec
      /\ \A i \in 1 .. Len(tr) : t[i] = tr[i]
  BY <1>1, <1>3
<1>5. \A i \in 1 .. Len(t) : i \in 1 .. Len(tr) \/ i = Len(tr) + 1
  BY <1>3, <1>4
<1>6. a.turn \in Nat /\ rec.frame.turn = a.turn
  <2>1. a.turn \in Nat
    BY DEF Arenas, ArenaType
  <2> QED BY <2>1, FrameIsEvident
<1>7. ASSUME NEW i \in 1 .. Len(t) PROVE t[i].frame.turn <= a.turn
  <2>1. CASE i \in 1 .. Len(tr)
    BY <1>4, <2>1
  <2>2. CASE i = Len(tr) + 1
    <3>1. t[i].frame.turn = a.turn
      BY <1>4, <1>6, <2>2
    <3> QED BY <1>6, <3>1
  <2> QED BY <1>5, <2>1, <2>2
<1>8. ASSUME NEW i \in 1 .. Len(t)
      PROVE  (\E b \in Arenas : t[i].frame = Observe(b) /\ b.sequence = i - 1) /\ Chosen(t[i])
  <2>1. CASE i \in 1 .. Len(tr)
    BY <1>4, <2>1 DEF Account
  <2>2. CASE i = Len(tr) + 1
    <3>1. t[i].frame = Observe(a) /\ a.sequence = i - 1
      BY <1>3, <1>4, <2>2
    <3>2. Chosen(t[i])
      BY <1>4, <2>2
    <3> QED BY <3>1, <3>2
  <2> QED BY <1>5, <2>1, <2>2
<1>9. ASSUME NEW i \in 1 .. Len(t), NEW j \in 1 .. Len(t), i <= j
      PROVE  t[i].frame.turn <= t[j].frame.turn
  <2>1. CASE j \in 1 .. Len(tr)
    <3>1. i \in 1 .. Len(tr)
      BY <1>3, <1>9, <2>1
    <3> QED BY <1>4, <1>9, <2>1, <3>1 DEF Account
  <2>2. CASE j = Len(tr) + 1
    BY <1>4, <1>6, <1>7, <2>2
  <2> QED BY <1>5, <2>1, <2>2
<1>10. Account(t)
  BY <1>2, <1>4, <1>8, <1>9 DEF Account
<1>11. Last(t) = rec /\ t # <<>>
  BY <1>3, <1>4 DEF Last
<1> QED BY <1>1, <1>3, <1>4, <1>7, <1>10, <1>11

-----------------------------------------------------------------------------
(* The inductive invariant                                                 *)

\* The trace tells the game so far, and after its end nothing is added.
GameInv ==
    /\ arena \in Arenas /\ Account(trace)
    /\ \A i \in 1 .. Len(trace) : trace[i].frame.turn <= arena.turn
    /\ Len(trace) = IF Finished THEN arena.sequence + 1 ELSE arena.sequence
    /\ Finished => Terminal(arena)

MemoryInv == Recorded(memory, trace) /\ Kept(memory, trace, arena.turn)

\* A lost handle is one of those given, and not the one in use.
HandleInv == lost \in SUBSET (1 .. arena.contacts) /\ arena.contact \notin lost

EyeInv == GameInv /\ MemoryInv /\ HandleInv

LEMMA ShownIs ==
    ASSUME EyeInv, ~Finished, NEW based
    PROVE  /\ Shown(based).ok = (based \subseteq Retained(memory, Observe(arena)))
           /\ Shown(based).mem = IF Shown(based).ok THEN Remember(memory, Observe(arena)) ELSE memory
<1>1. PICK u : u = Update(memory, Observe(arena), based)
  OBVIOUS
<1>2. /\ arena \in Arenas /\ Account(trace) /\ Len(trace) = arena.sequence
      /\ \A i \in 1 .. Len(trace) : trace[i].frame.turn <= arena.turn
      /\ Recorded(memory, trace) /\ Kept(memory, trace, arena.turn)
  BY DEF EyeInv, GameInv, MemoryInv
<1>3. u = IF based \subseteq Retained(memory, Observe(arena))
          THEN [ok |-> TRUE, mem |-> Remember(memory, Observe(arena))]
          ELSE [ok |-> FALSE, mem |-> memory]
  BY <1>1, <1>2, UpdateTakes
<1>4. CASE based \subseteq Retained(memory, Observe(arena))
  <2>1. u.ok = TRUE /\ u.mem = Remember(memory, Observe(arena))
    BY <1>3, <1>4
  <2> QED BY <1>1, <1>4, <2>1 DEF Shown
<1>5. CASE ~(based \subseteq Retained(memory, Observe(arena)))
  <2>1. u.ok = FALSE /\ u.mem = memory
    BY <1>3, <1>5
  <2> QED BY <1>1, <1>5, <2>1 DEF Shown
<1> QED BY <1>4, <1>5

LEMMA KeptLater ==
    ASSUME NEW mem, NEW tr, NEW turn \in Nat, NEW later \in Nat, turn <= later,
           Kept(mem, tr, turn), \A k \in 1 .. Len(mem.events) : mem.events[k].event.turn \in Nat
    PROVE  Kept(mem, tr, later)
<1>1. \A k \in 1 .. Len(mem.events) : mem.events[k].event.turn <= turn
  BY DEF Kept
<1>2. \A k \in 1 .. Len(mem.events) : mem.events[k].event.turn <= later
  BY <1>1
<1> QED BY <1>2, Zenon DEF Kept

LEMMA NotesDated ==
    ASSUME NEW s \in Seq(Notes)
    PROVE  \A k \in 1 .. Len(s) : s[k].event.turn \in Nat
<1> TAKE k \in 1 .. Len(s)
<1>1. s[k] \in Notes
  <2> PICK N : N = Notes
    OBVIOUS
  <2> QED BY ElementOfSeq
<1>2. PICK a \in Arenas : s[k].event = Observe(a).events[1]
  BY <1>1 DEF Notes
<1>3. Observe(a).events[1].turn = a.turn
  BY DEF Observe
<1> QED BY <1>2, <1>3 DEF Arenas, ArenaType

\* A round that is shown extends the trace and the memory together.
LEMMA RoundKeeps ==
    ASSUME EyeInv, ~Finished, NEW based, Shown(based).ok, NEW selected \in Selectable,
           Chosen([frame |-> Observe(arena), selected |-> selected]),
           memory' = Shown(based).mem,
           trace' = Append(trace, [frame |-> Observe(arena), selected |-> selected])
    PROVE  /\ Account(trace') /\ Len(trace') = arena.sequence + 1
           /\ \A i \in 1 .. Len(trace') : trace'[i].frame.turn <= arena.turn
           /\ Recorded(memory', trace') /\ Kept(memory', trace', arena.turn)
           /\ Finished' <=> Terminal(arena)
<1>1. PICK f : f = Observe(arena)
  OBVIOUS
<1>2. PICK rec : rec = [frame |-> f, selected |-> selected]
  OBVIOUS
<1>3. PICK E : E = Entries
  OBVIOUS
<1>4. /\ arena \in Arenas /\ Account(trace) /\ Len(trace) = arena.sequence
      /\ \A i \in 1 .. Len(trace) : trace[i].frame.turn <= arena.turn
      /\ Recorded(memory, trace) /\ Kept(memory, trace, arena.turn)
  BY DEF EyeInv, GameInv, MemoryInv
<1>5. rec \in E /\ rec.frame = f /\ trace \in Seq(E)
  <2>1. f \in {Observe(a) : a \in Arenas}
    BY <1>1, <1>4
  <2>2. rec \in Entries /\ rec.frame = f
    BY <1>2, <2>1 DEF Entries
  <2> QED BY <1>3, <1>4, <2>2 DEF Account
<1>6. memory' = Remember(memory, f)
  BY <1>1, ShownIs
<1>7. trace' = Append(trace, rec)
  BY <1>1, <1>2
<1>8. Chosen(rec)
  BY <1>1, <1>2
<1>9. Evident(f)
  BY <1>1, <1>4, FrameIsEvident
<1>10. Recorded(memory', trace')
  BY <1>4, <1>5, <1>6, <1>7, <1>9, RecordsFollow
<1>11. Kept(memory', trace', arena.turn)
  BY <1>1, <1>3, <1>4, <1>5, <1>6, <1>7, KeptFollow
<1>12. /\ Account(trace') /\ Len(trace') = arena.sequence + 1
       /\ \A i \in 1 .. Len(trace') : trace'[i].frame.turn <= arena.turn
       /\ Last(trace') = rec /\ trace' # <<>>
  BY <1>1, <1>3, <1>4, <1>5, <1>7, <1>8, AccountFollows
<1>13. Finished' <=> Terminal(arena)
  <2>1. Finished' <=> f.phase = "terminal"
    BY <1>5, <1>12 DEF Finished
  <2>2. f.phase = IF Terminal(arena) THEN "terminal" ELSE IF arena.pending THEN "prompt" ELSE "command"
    BY <1>1 DEF Observe
  <2> QED BY <2>1, <2>2
<1> QED BY <1>10, <1>11, <1>12, <1>13

\* EyeInv holds at the start and no round breaks it.
LEMMA EyeInvInit == EyeInit => EyeInv
<1> SUFFICES ASSUME EyeInit PROVE EyeInv
  OBVIOUS
<1>1. PICK preset \in Presets : arena = NewArena(preset)
  BY DEF EyeInit
<1>2. arena \in Arenas /\ arena.sequence = 0
  BY <1>1, NewArenaIs
<1>3. memory = EmptyMemory /\ trace = <<>> /\ lost = {}
  BY DEF EyeInit
<1>4. Len(trace) = 0 /\ \A S : trace \in Seq(S)
  BY <1>3
<1>5. ~Finished
  BY <1>3 DEF Finished
<1>6. Account(trace)
  BY <1>4 DEF Account
<1>7. GameInv
  BY <1>2, <1>4, <1>5, <1>6 DEF GameInv
<1>8. Recorded(memory, trace)
  <2>1. memory.records = <<>> /\ memory.forgotten = 0
    BY <1>3 DEF EmptyMemory
  <2>2. Keyed(memory.records) /\ Len(memory.records) = 0
    BY <2>1 DEF Keyed
  <2>3. Ever(trace) = {}
    <3>1. \A x : x \in Ever(trace) <=> \E i \in 1 .. Len(trace) : x \in KeysOf(trace[i].frame)
      BY Zenon DEF Ever
    <3> QED BY <1>4, <3>1
  <2>4. IsFiniteSet(Ever(trace) \ Keys(memory.records))
        /\ Cardinality(Ever(trace) \ Keys(memory.records)) = 0
    <3>1. Ever(trace) \ Keys(memory.records) = {}
      BY <2>3
    <3> QED BY <3>1, FS_EmptySet
  <2> QED BY <2>1, <2>2, <2>4, MemoryLimits DEF Recorded
<1>9. Kept(memory, trace, arena.turn)
  <2>1. /\ memory.frame = {} /\ memory.decisions = <<>> /\ memory.events = <<>>
        /\ memory.forgottenEvents = 0
    BY <1>3 DEF EmptyMemory
  <2>2. memory.decisions \in Seq({<<n>> : n \in Nat}) /\ memory.events \in Seq(Notes)
    BY <2>1
  <2> QED BY <1>4, <2>1, <2>2 DEF Kept
<1>10. HandleInv
  <2>1. lost = {}
    BY <1>3
  <2> QED BY <2>1 DEF HandleInv
<1> QED BY <1>7, <1>8, <1>9, <1>10 DEF EyeInv, MemoryInv

LEMMA EyeInvStep == EyeInv /\ [EyeNext]_eyeVars => EyeInv'
<1> SUFFICES ASSUME EyeInv, [EyeNext]_eyeVars PROVE EyeInv'
  OBVIOUS
<1>1. /\ arena \in Arenas /\ Account(trace) /\ Recorded(memory, trace)
      /\ Kept(memory, trace, arena.turn)
      /\ Len(trace) = IF Finished THEN arena.sequence + 1 ELSE arena.sequence
      /\ Finished => Terminal(arena)
      /\ \A i \in 1 .. Len(trace) : trace[i].frame.turn <= arena.turn
      /\ lost \in SUBSET (1 .. arena.contacts) /\ arena.contact \notin lost
  BY DEF EyeInv, GameInv, MemoryInv, HandleInv
<1>2. CASE Finish
  <2>1. ~Finished /\ Terminal(arena) /\ Shown({}).ok
    BY <1>2 DEF Finish
  <2>2. "" \in Selectable /\ Chosen([frame |-> Observe(arena), selected |-> ""])
    <3>1. [frame |-> Observe(arena), selected |-> ""].selected = ""
      OBVIOUS
    <3> QED BY <3>1, Zenon DEF Selectable, Chosen
  <2>3. /\ memory' = Shown({}).mem
        /\ trace' = Append(trace, [frame |-> Observe(arena), selected |-> ""])
        /\ arena' = arena /\ lost' = lost
    BY <1>2, Zenon DEF Finish
  <2>4. /\ Account(trace') /\ Len(trace') = arena.sequence + 1
        /\ \A i \in 1 .. Len(trace') : trace'[i].frame.turn <= arena.turn
        /\ Recorded(memory', trace') /\ Kept(memory', trace', arena.turn)
        /\ Finished' <=> Terminal(arena)
    BY <2>1, <2>2, <2>3, RoundKeeps, Zenon
  <2>5. GameInv'
    <3>1. Finished' /\ Terminal(arena') /\ arena' \in Arenas /\ Account(trace')
          /\ Len(trace') = arena'.sequence + 1
          /\ \A i \in 1 .. Len(trace') : trace'[i].frame.turn <= arena'.turn
      BY <1>1, <2>1, <2>3, <2>4, Zenon
    <3> QED BY <3>1 DEF GameInv
  <2>6. MemoryInv'
    BY <2>3, <2>4, Zenon DEF MemoryInv
  <2>7. HandleInv'
    BY <1>1, <2>3, Zenon DEF HandleInv
  <2> QED BY <2>5, <2>6, <2>7 DEF EyeInv
<1>3. ASSUME NEW based, NEW act \in Actions(arena), Play(act, based)
      PROVE  EyeInv'
  <2>1. PICK b : b = StepArena(arena, act)
    OBVIOUS
  <2>2. ~Terminal(arena) /\ act.id \in Selectable
    <3>1. act.id \in {"yes", "no", "forward", "back", "rest", "look", "use"}
      BY <1>1, ActionsAre, Zenon
    <3>2. ~Terminal(arena)
      BY <1>1, ActionsAre, Zenon
    <3> QED BY <3>1, <3>2, Zenon DEF Selectable
  <2>3. ~Finished
    BY <1>1, <2>2
  <2>4. Chosen([frame |-> Observe(arena), selected |-> act.id])
    <3>1. Observe(arena).actions = Actions(arena)
      BY DEF Observe
    <3>2. act.id \in {c.id : c \in Observe(arena).actions}
      BY <3>1
    <3>3. /\ [frame |-> Observe(arena), selected |-> act.id].selected = act.id
          /\ [frame |-> Observe(arena), selected |-> act.id].frame = Observe(arena)
      OBVIOUS
    <3> QED BY <3>2, <3>3, Zenon DEF Chosen
  <2>5. /\ Shown(based).ok /\ memory' = Shown(based).mem
        /\ trace' = Append(trace, [frame |-> Observe(arena), selected |-> act.id])
        /\ arena' = b
        /\ lost' = IF b.contact = arena.contact THEN lost ELSE (lost \cup {arena.contact}) \ {0}
    BY <1>3, <2>1, Zenon DEF Play
  <2>6. /\ Account(trace') /\ Len(trace') = arena.sequence + 1
        /\ \A i \in 1 .. Len(trace') : trace'[i].frame.turn <= arena.turn
        /\ Recorded(memory', trace') /\ Kept(memory', trace', arena.turn)
        /\ Finished' <=> Terminal(arena)
    BY <2>2, <2>3, <2>4, <2>5, RoundKeeps, Zenon
  <2>7. /\ b \in Arenas /\ b.sequence = arena.sequence + 1
        /\ b.turn \in Nat /\ b.turn >= arena.turn
        /\ b.contacts >= arena.contacts
        /\ b.contact \in {0, arena.contact, arena.contacts + 1}
        /\ b.contact = arena.contacts + 1 => b.contacts = arena.contacts + 1
    BY <1>1, <2>1, StepIs
  <2>8. arena.turn \in Nat /\ arena.contact \in Nat /\ arena.contacts \in Nat /\ b.contacts \in Nat
    BY <1>1, <2>7 DEF Arenas, ArenaType
  <2>9. arena.contact <= arena.contacts
    BY <1>1, Zenon DEF Arenas, Contacted
  <2>10. \A i \in 1 .. Len(trace') : trace'[i].frame.turn <= b.turn
    <3> TAKE i \in 1 .. Len(trace')
    <3>1. trace'[i].frame.turn \in Nat
      BY <2>6, AccountOf
    <3> QED BY <2>6, <2>7, <2>8, <3>1
  <2>11. GameInv'
    <3>1. ~Finished' /\ Len(trace') = b.sequence
      BY <2>2, <2>6, <2>7
    <3> QED BY <2>5, <2>6, <2>7, <2>10, <3>1 DEF GameInv
  <2>12. Kept(memory', trace', b.turn)
    <3>1. memory'.events \in Seq(Notes)
      BY <2>6 DEF Kept
    <3>2. \A k \in 1 .. Len(memory'.events) : memory'.events[k].event.turn \in Nat
      BY <3>1, NotesDated
    <3>3. arena.turn <= b.turn
      BY <2>7, <2>8
    <3> QED BY <2>6, <2>7, <2>8, <3>2, <3>3, KeptLater
  <2>13. MemoryInv'
    BY <2>5, <2>6, <2>12, Zenon DEF MemoryInv
  <2>14. HandleInv'
    <3>1. CASE b.contact = arena.contact
      <4>1. lost' = lost
        BY <2>5, <3>1
      <4>2. \A n \in 1 .. arena.contacts : n \in 1 .. b.contacts
        BY <2>7, <2>8
      <4> QED BY <1>1, <2>5, <3>1, <4>1, <4>2 DEF HandleInv
    <3>2. CASE b.contact # arena.contact
      <4>1. lost' = (lost \cup {arena.contact}) \ {0}
        BY <2>5, <3>2
      <4>2. \A n \in lost' : n \in 1 .. arena.contacts
        <5>1. arena.contact = 0 \/ arena.contact \in 1 .. arena.contacts
          BY <2>8, <2>9
        <5>2. \A n \in lost : n \in 1 .. arena.contacts
          BY <1>1, Zenon
        <5>3. \A n \in lost' : n # 0 /\ (n \in lost \/ n = arena.contact)
          BY <4>1, Zenon
        <5> QED BY <5>1, <5>2, <5>3, Zenon
      <4>3. b.contact = 0 \/ b.contact = arena.contacts + 1
        BY <2>7, <3>2
      <4>4. b.contact \notin lost'
        BY <2>8, <4>2, <4>3
      <4>5. \A n \in lost' : n \in 1 .. b.contacts
        BY <2>7, <2>8, <4>2
      <4> QED BY <2>5, <4>4, <4>5 DEF HandleInv
    <3> QED BY <3>1, <3>2
  <2> QED BY <2>11, <2>13, <2>14 DEF EyeInv
<1>4. ASSUME NEW based, Refuse(based)
      PROVE  EyeInv'
  <2>1. ~Finished /\ ~Shown(based).ok /\ memory' = Shown(based).mem
    BY <1>4 DEF Refuse
  <2>2. memory' = memory
    BY <2>1, ShownIs
  <2>3. arena' = arena /\ trace' = trace /\ lost' = lost
    BY <1>4 DEF Refuse
  <2> QED BY <2>2, <2>3 DEF EyeInv, GameInv, MemoryInv, HandleInv, Finished
<1>5. CASE UNCHANGED eyeVars
  <2>1. memory' = memory /\ arena' = arena /\ trace' = trace /\ lost' = lost
    BY <1>5 DEF eyeVars
  <2> QED BY <2>1 DEF EyeInv, GameInv, MemoryInv, HandleInv, Finished
<1> QED BY <1>2, <1>3, <1>4, <1>5, Zenon DEF EyeNext

THEOREM EyeInvariant == EyeSpec => []EyeInv
<1>1. EyeInit => EyeInv
  BY EyeInvInit
<1>2. EyeInv /\ [EyeNext]_eyeVars => EyeInv'
  BY EyeInvStep
<1> QED BY <1>1, <1>2, PTL DEF EyeSpec

-----------------------------------------------------------------------------
(* The properties                                                          *)

\* Whatever the game, the contract and the memory take the next frame and the
\* trace can be read back: fixtures, memory, contracts and replay agree on what
\* a chain of frames is.
THEOREM FramesAreAccepted == EyeSpec => []FramesAccepted
<1>1. EyeInv => FramesAccepted
  <2> SUFFICES ASSUME EyeInv PROVE FramesAccepted
    OBVIOUS
  <2>1. arena \in Arenas /\ Account(trace)
    BY DEF EyeInv, GameInv
  <2>2. Consistent(Observe(arena))
    BY <2>1, ArenaFramesConsistent
  <2>3. Readable(trace)
    BY <2>1, AccountIsReadable
  <2>4. ASSUME ~Finished PROVE Shown({}).ok
    <3>1. Shown({}).ok = ({} \subseteq Retained(memory, Observe(arena)))
      BY <2>4, ShownIs
    <3> QED BY <3>1
  <2> QED BY <2>2, <2>3, <2>4 DEF FramesAccepted
<1> QED BY <1>1, EyeInvariant, PTL

\* A frame is the same for every target and artifact the channels do not tell
\* apart, and a handle once lost is never given again.
THEOREM HiddenIsNotDisclosed == EyeSpec => []HiddenStaysHidden
<1>1. EyeInv => HiddenStaysHidden
  <2> SUFFICES ASSUME EyeInv PROVE HiddenStaysHidden
    OBVIOUS
  <2>1. arena \in Arenas /\ arena.contact \notin lost
    BY DEF EyeInv, GameInv, HandleInv
  <2>2. ASSUME NEW x \in 1 .. 7, NEW hp \in 1 .. 2, NEW name \in 1 .. 2,
               ChannelOf([arena EXCEPT !.targetX = x, !.targetHp = hp, !.artifactName = name])
                 = ChannelOf(arena),
               ChannelOf(arena) # "" => x = arena.targetX,
               arena.identified => name = arena.artifactName
        PROVE  Observe([arena EXCEPT !.targetX = x, !.targetHp = hp, !.artifactName = name])
                 = Observe(arena)
    <3>1. [arena EXCEPT !.targetX = x, !.targetHp = hp, !.artifactName = name] = Twin(arena, x, hp, name)
      BY DEF Twin
    <3>2. Perceived(arena) => x = arena.targetX
      BY <2>2, Zenon DEF Perceived
    <3>3. ChannelOf(Twin(arena, x, hp, name)) = ChannelOf(arena)
      BY <2>2, <3>1, Zenon
    <3>4. Observe(Twin(arena, x, hp, name)) = Observe(arena)
      BY <2>1, <2>2, <3>2, <3>3, TwinShowsTheSame, Zenon
    <3> QED BY <3>1, <3>4, Zenon
  <2> QED BY <2>1, <2>2, Zenon DEF HiddenStaysHidden
<1> QED BY <1>1, EyeInvariant, PTL

\* The scorer, from the frame alone, wants to attack when a hit is possible and
\* only then.
THEOREM ScorerIsRight == EyeSpec => []ScorerAimsTrue
<1>1. EyeInv => ScorerAimsTrue
  <2> SUFFICES ASSUME EyeInv, NEW act \in Actions(arena), act.id = "use"
               PROVE  Score(Observe(arena), act) = 100 <=> CanHit(arena)
    BY DEF ScorerAimsTrue
  <2>1. arena \in Arenas
    BY DEF EyeInv, GameInv
  <2> QED BY <2>1, ScorerAims
<1> QED BY <1>1, EyeInvariant, PTL

\* What the memory holds of a key is what the last frame to disclose it said,
\* from that decision; it holds each key once, never more than its limit, and
\* its counters cover every key and every event it no longer holds.
THEOREM MemoryIsEvidence == EyeSpec => []MemoryIsTheEvidence
<1>1. EyeInv => MemoryIsTheEvidence
  <2> SUFFICES ASSUME EyeInv PROVE MemoryIsTheEvidence
    OBVIOUS
  <2>1. /\ Account(trace) /\ Recorded(memory, trace) /\ Kept(memory, trace, arena.turn)
    BY DEF EyeInv, GameInv, MemoryInv
  <2> DEFINE frames == [i \in DOMAIN trace |-> trace[i].frame]
             LatestOf(key) == CHOOSE i \in DOMAIN frames :
                                 /\ key \in KeysOf(frames[i])
                                 /\ \A j \in DOMAIN frames : j > i => key \notin KeysOf(frames[j])
             ever == UNION {KeysOf(frames[i]) : i \in DOMAIN frames}
             held == {r.key : r \in ToSet(memory.records)}
  <2> HIDE DEF LatestOf, ever, held
  <2>2. frames = [i \in DOMAIN trace |-> trace[i].frame]
    OBVIOUS
  <2> HIDE DEF frames
  <2>3. PICK n \in Nat : n = Len(trace)
    BY <2>1 DEF Account
  <2>4. /\ DOMAIN trace = 1 .. n /\ DOMAIN frames = 1 .. n /\ Len(frames) = n
        /\ \A i \in 1 .. n : frames[i] = trace[i].frame
        /\ (trace = <<>> <=> n = 0)
    <3>1. DOMAIN trace = 1 .. n /\ (trace = <<>> <=> n = 0)
      BY <2>1, <2>3 DEF Account
    <3>2. DOMAIN frames = 1 .. n /\ \A i \in 1 .. n : frames[i] = trace[i].frame
      BY <2>2, <3>1
    <3>3. Len(frames) = n
      BY <2>3, <3>2
    <3> QED BY <3>1, <3>2, <3>3
  <2>5. PICK records : records = memory.records
    OBVIOUS
  <2>6. /\ Keyed(records) /\ Len(records) <= MaxRecords
        /\ \A k \in 1 .. Len(records) : Evidence(records[k], trace)
        /\ Cardinality(Ever(trace) \ Keys(records)) <= memory.forgotten
    BY <2>1, <2>5 DEF Recorded
  <2>7. Len(records) \in Nat /\ DOMAIN records = 1 .. Len(records)
        /\ \A i, j \in 1 .. Len(records) : records[i].key = records[j].key => i = j
    BY <2>6 DEF Keyed
  <2>8. \A r : r \in ToSet(records) <=> \E k \in 1 .. Len(records) : records[k] = r
    BY <2>7, Zenon DEF ToSet
  <2>9. held = {r.key : r \in ToSet(records)}
    BY <2>5 DEF held
  <2>10. held = Keys(records)
    <3>1. \A x : x \in held <=> \E r \in ToSet(records) : r.key = x
      BY <2>9, Zenon
    <3>2. \A x : x \in Keys(records) <=> \E k \in 1 .. Len(records) : records[k].key = x
      BY Zenon DEF Keys
    <3>3. \A x : x \in held <=> x \in Keys(records)
      BY <2>8, <3>1, <3>2, Zenon
    <3> QED BY <3>3
  <2>11. ever = UNION {KeysOf(frames[i]) : i \in DOMAIN frames}
    BY DEF ever
  <2>12. ever = Ever(trace)
    <3>1. \A x : x \in ever <=> \E i \in 1 .. n : x \in KeysOf(frames[i])
      BY <2>4, <2>11, Zenon
    <3>2. \A x : x \in Ever(trace) <=> \E i \in 1 .. n : x \in KeysOf(trace[i].frame)
      BY <2>3, Zenon DEF Ever
    <3>3. \A x : x \in ever <=> x \in Ever(trace)
      BY <2>4, <3>1, <3>2, Zenon
    <3> QED BY <3>3
  <2>13. ASSUME NEW r \in ToSet(records)
         PROVE  /\ r.decision = frames[LatestOf(r.key)].decision
                /\ \E c \in Known(frames[LatestOf(r.key)]) :
                      c.key = r.key /\ c.value = r.value /\ c.turn = r.turn
    <3>1. Evidence(r, trace)
      BY <2>6, <2>8
    <3>2. PICK i \in 1 .. n : /\ \E c \in Known(trace[i].frame) : r = RecordOf(trace[i].frame, c)
                              /\ \A j \in 1 .. n : i < j => r.key \notin KeysOf(trace[j].frame)
      BY <2>3, <3>1 DEF Evidence
    <3>3. PICK c \in Known(frames[i]) : r = RecordOf(frames[i], c)
      BY <2>4, <3>2
    <3>4. r.key = c.key /\ r.value = c.value /\ r.turn = c.turn /\ r.decision = frames[i].decision
      BY <3>3 DEF RecordOf
    <3>5. r.key \in KeysOf(frames[i]) /\ \A j \in 1 .. n : j > i => r.key \notin KeysOf(frames[j])
      <4>1. r.key \in KeysOf(frames[i])
        BY <3>3, <3>4 DEF KeysOf
      <4>2. ASSUME NEW j \in 1 .. n, j > i PROVE r.key \notin KeysOf(frames[j])
        <5>1. i < j
          BY <4>2
        <5> QED BY <2>4, <3>2, <5>1
      <4> QED BY <4>1, <4>2
    <3>6. ASSUME NEW k \in 1 .. n, r.key \in KeysOf(frames[k]),
                 \A j \in 1 .. n : j > k => r.key \notin KeysOf(frames[j])
          PROVE  k = i
      <4>1. ~(k > i) /\ ~(i > k)
        BY <3>5, <3>6
      <4> QED BY <4>1
    <3>7. LatestOf(r.key) = i
      <4> PICK key : key = r.key
        OBVIOUS
      <4>1. \E k \in DOMAIN frames : /\ key \in KeysOf(frames[k])
                                     /\ \A j \in DOMAIN frames : j > k => key \notin KeysOf(frames[j])
        BY <2>4, <3>5
      <4>2. PICK k : k = LatestOf(key)
        OBVIOUS
      <4>3. k \in DOMAIN frames /\ key \in KeysOf(frames[k])
            /\ \A j \in DOMAIN frames : j > k => key \notin KeysOf(frames[j])
        BY <4>1, <4>2 DEF LatestOf
      <4> QED BY <2>4, <3>6, <4>2, <4>3
    <3> QED BY <3>3, <3>4, <3>7
  <2>14. memory.frame = IF trace = <<>> THEN {} ELSE {Last(frames)}
    <3>1. memory.frame = IF n = 0 THEN {} ELSE {trace[n].frame}
      BY <2>1, <2>3 DEF Kept
    <3>2. CASE n = 0
      BY <2>4, <3>1, <3>2
    <3>3. CASE n # 0
      <4>1. n \in 1 .. n
        BY <3>3
      <4>2. Last(frames) = trace[n].frame
        BY <2>4, <4>1 DEF Last
      <4> QED BY <2>4, <3>1, <3>3, <4>2
    <3> QED BY <3>2, <3>3
  <2>15. Cardinality(held) = Len(records)
    <3> PICK h : h = [k \in 1 .. Len(records) |-> records[k].key]
      OBVIOUS
    <3>1. h \in Surjection(1 .. Len(records), Keys(records))
      <4>1. \A k \in 1 .. Len(records) : h[k] = records[k].key
        OBVIOUS
      <4>2. h \in [1 .. Len(records) -> Keys(records)]
        BY DEF Keys
      <4>3. \A x \in Keys(records) : \E k \in 1 .. Len(records) : h[k] = x
        BY <4>1 DEF Keys
      <4> QED BY <4>2, <4>3, Zenon DEF Surjection
    <3>2. h \in Injection(1 .. Len(records), Keys(records))
      <4>1. h \in [1 .. Len(records) -> Keys(records)]
        BY DEF Keys
      <4>2. \A i, j \in 1 .. Len(records) : h[i] = h[j] => i = j
        BY <2>7
      <4> QED BY <4>1, <4>2 DEF Injection, IsInjective
    <3>3. IsFiniteSet(1 .. Len(records)) /\ Cardinality(1 .. Len(records)) = Len(records)
      <4>1. 1 \in Int /\ Len(records) \in Int
        BY <2>7
      <4>2. /\ IsFiniteSet(1 .. Len(records))
            /\ Cardinality(1 .. Len(records)) = IF 1 > Len(records) THEN 0 ELSE Len(records) - 1 + 1
        BY <4>1, FS_Interval
      <4> QED BY <2>7, <4>2
    <3>4. Cardinality(Keys(records)) = Cardinality(1 .. Len(records))
      BY <3>1, <3>2, <3>3, FS_Surjection
    <3> QED BY <2>10, <3>3, <3>4
  <2>16. Len(memory.events) + memory.forgottenEvents = Len(trace)
    BY <2>1 DEF Kept
  <2>17. Cardinality(ever \ held) <= memory.forgotten
    BY <2>6, <2>10, <2>12
  <2>18. /\ memory.frame = IF trace = <<>> THEN {} ELSE {Last(frames)}
         /\ \A r \in ToSet(memory.records) :
               /\ r.decision = frames[LatestOf(r.key)].decision
               /\ \E c \in Known(frames[LatestOf(r.key)]) :
                     c.key = r.key /\ c.value = r.value /\ c.turn = r.turn
         /\ Cardinality(held) = Len(memory.records) /\ Len(memory.records) <= MaxRecords
         /\ Cardinality(ever \ held) <= memory.forgotten
         /\ Len(memory.events) + memory.forgottenEvents = Len(trace)
    BY <2>5, <2>6, <2>13, <2>14, <2>15, <2>16, <2>17, Zenon
  <2> QED BY <2>18, Zenon DEF MemoryIsTheEvidence, frames, LatestOf, ever, held
<1> QED BY <1>1, EyeInvariant, PTL

\* A refused hypothesis leaves the memory as it was: the update either takes the
\* frame and answers, or does neither, though the code could fail halfway.
THEOREM RefusalChangesNothing ==
    EyeSpec => [][\A based : Refuse(based) => memory' = memory]_eyeVars
<1>1. EyeInv /\ [EyeNext]_eyeVars => [\A based : Refuse(based) => memory' = memory]_eyeVars
  <2> SUFFICES ASSUME EyeInv, NEW based, Refuse(based) PROVE memory' = memory
    OBVIOUS
  <2>1. ~Finished /\ ~Shown(based).ok /\ memory' = Shown(based).mem
    BY DEF Refuse
  <2> QED BY <2>1, ShownIs
<1> QED BY <1>1, EyeInvariant, PTL DEF EyeSpec
=============================================================================
