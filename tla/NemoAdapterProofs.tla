-------------------------- MODULE NemoAdapterProofs --------------------------
(***************************************************************************)
(* Proofs about NemoAdapter for every number of cookies, tasks, requests   *)
(* and rollouts and every size of its caches: sessions are owned, replies  *)
(* belong to their action, retries cost nothing, resets hand over what     *)
(* they show.                                                              *)
(*                                                                         *)
(* Every handler works on the tables that pruning leaves, and a reply that *)
(* ended the rollout goes through close_session on what the handler made   *)
(* of them.  So the parts of the invariant NInv take the tables as         *)
(* parameters: pruning keeps them, closing keeps them, and each handler    *)
(* is one change in between.                                               *)
(***************************************************************************)
EXTENDS NemoAdapter, FiniteSetTheorems, SequenceTheorems, TLAPS

Spots == {None} \cup (Nat \X Nat)

\* A kept reply that tells of a transition tells of the one its action names.
Answers == {r \in [id : RequestId \ {0}, act : Spots, internal : Nat, at : Spots,
                   ended : BOOLEAN] :
              r.at # None => r.act # None /\ r.at = <<r.act[1], r.act[2] + 1>>}

SessionsOK(sessions, started, time) ==
    /\ DOMAIN sessions \subseteq 1 .. started
    /\ \A i \in DOMAIN sessions : /\ sessions[i].used \in 0 .. time
                                  /\ sessions[i].number \in 0 .. Limit
    /\ Cardinality(DOMAIN sessions) <= MaxSessions

\* Every open session has one cookie, and a rollout takes no more decisions than
\* attempts.
RolloutsOK(live, sessions) ==
    /\ DOMAIN live \subseteq Cookie
    /\ \A c \in DOMAIN live :
        /\ live[c].attempts \in 0 .. Limit /\ live[c].faulted \in BOOLEAN
        /\ live[c].internal \in DOMAIN sessions =>
              sessions[live[c].internal].number <= live[c].attempts
    /\ \A i \in DOMAIN sessions : \E c \in DOMAIN live : live[c].internal = i
    /\ \A c, d \in DOMAIN live : live[c].internal = live[d].internal => c = d

\* Every cookie's session is open, or gone behind its back.
HeldOK(live, sessions, gone) ==
    \A c \in DOMAIN live : live[c].internal \in DOMAIN sessions \cup gone

\* Its rollout may be stepped.
Playable(live, sessions, c) == ~live[c].faulted /\ live[c].internal \in DOMAIN sessions

\* A rollout without attempts left is not stepped.
AttemptsLeft(live, sessions) ==
    \A c \in DOMAIN live : Playable(live, sessions, c) => live[c].attempts < Limit

MarkType == [cookie : Cookie, at : Nat]
MarksTyped(marks) == marks \in Seq(MarkType)

RepliesOK(replies, live, marks) ==
    /\ DOMAIN replies \subseteq DOMAIN live \cup Cookies(marks)
    /\ \A c \in DOMAIN replies : /\ replies[c] \in Seq(Answers)
                                 /\ Len(replies[c]) \in 1 .. MaxReplies

\* Only a faulted rollout has the fault of one of its requests.
FaultsOK(failed, live) == DOMAIN failed \subseteq {c \in DOMAIN live : live[c].faulted}

\* The replies of a rollout that was never moved onto a mark are its own, and
\* no mark dates them.
OwnReplies(live, replies, marks, moved) ==
    \A c \in DOMAIN live : live[c].internal \notin moved =>
        /\ c \notin Cookies(marks)
        /\ c \in DOMAIN replies => \A r \in ToSet(replies[c]) : r.internal = live[c].internal

\* What such a rollout has counted and not given up, it still has the reply of,
\* as long as it may be stepped.
CountsOK(live, sessions, replies, tally, moved, started) ==
    /\ \A t \in DOMAIN tally : /\ t[1] \in 1 .. started /\ t[2] # 0
                               /\ tally[t] = 1 \/ t[1] \in moved
    /\ \A c \in DOMAIN live, t \in DOMAIN tally :
        (t[1] = live[c].internal /\ Playable(live, sessions, c) /\ t[1] \notin moved) =>
            c \in DOMAIN replies /\ \E r \in ToSet(replies[c]) : r.id = t[2]

EntryType == [key : Identity \ {0}, cookie : Cookie, internal : Nat]

\* A task has one entry; while no cookie served two tasks, the cookie of an
\* entry holds no other rollout than the one the entry shows.
ResetsOK(entries, live, tasks) ==
    /\ entries \in Seq(EntryType)
    /\ Len(entries) <= MaxResets
    /\ \A r \in ToSet(entries) : <<r.cookie, r.key>> \in tasks
    /\ \A r, q \in ToSet(entries) : r.key = q.key => r = q
    /\ (\A s, t \in tasks : s[1] = t[1] => s = t) =>
          \A r \in ToSet(entries) :
             r.cookie \in DOMAIN live => live[r.cookie].internal = r.internal

\* ResetHandsOver, but for the representation.
HandsOver ==
    reply.kind = "reset" =>
        /\ reply.cookie \in DOMAIN state
        /\ OneTaskPerCookie => state[reply.cookie].internal = reply.internal

NInv ==
    /\ now \in 0 .. MaxTime /\ begun \in 0 .. MaxInternal
    /\ SessionsOK(manager, begun, now)
    /\ onto \cup lapsed \subseteq 1 .. begun /\ served \subseteq Cookie \X Identity
    /\ RolloutsOK(state, manager) /\ HeldOK(state, manager, lapsed)
    /\ AttemptsLeft(state, manager)
    /\ MarksTyped(closed) /\ Len(closed) <= MaxClosed
    /\ RepliesOK(stepCache, state, closed)
    /\ FaultsOK(faults, state)
    /\ OwnReplies(state, stepCache, closed, onto)
    /\ CountsOK(state, manager, stepCache, counted, onto, begun)
    /\ ResetsOK(resets, state, served)
    /\ reply.kind \in {"none", "reset", "moved"}
    /\ AnswersItsAction /\ HandsOver

-----------------------------------------------------------------------------
(* Sequences                                                               *)

\* Ascending lists each member once, in order.
LEMMA AscendingLists ==
    ASSUME NEW S \in SUBSET Int, IsFiniteSet(S)
    PROVE  /\ Cardinality(S) \in Nat
           /\ Ascending(S) \in [1 .. Cardinality(S) -> S]
           /\ \A x \in S : \E k \in 1 .. Cardinality(S) : Ascending(S)[k] = x
           /\ \A j, k \in 1 .. Cardinality(S) : j < k => Ascending(S)[j] < Ascending(S)[k]
<1> DEFINE below(x) == {y \in S : y < x}
           rank == [x \in S |-> Cardinality(below(x))]
<1> PICK n : n = Cardinality(S)
  OBVIOUS
<1>1. n \in Nat
  BY FS_CardinalityType
<1>2. ASSUME NEW x \in S PROVE rank[x] \in 0 .. n - 1 /\ IsFiniteSet(below(x))
  <2>1. below(x) \in SUBSET S /\ x \notin below(x)
    OBVIOUS
  <2> HIDE DEF below
  <2>2. IsFiniteSet(below(x)) /\ Cardinality(below(x)) <= n /\ Cardinality(below(x)) # n
    BY <2>1, FS_Subset
  <2>3. Cardinality(below(x)) \in Nat
    BY <2>2, FS_CardinalityType
  <2> QED BY <1>1, <2>2, <2>3
<1>3. ASSUME NEW x \in S, NEW y \in S, x < y PROVE rank[x] < rank[y]
  <2> x \in Int /\ y \in Int
    OBVIOUS
  <2>5. \A z \in S : z \in Int
    OBVIOUS
  <2>6. \A z \in S : z < x => z < y
    BY <1>3, <2>5
  <2>1. below(x) \in SUBSET below(y) /\ x \in below(y) /\ x \notin below(x)
    <3>1. ~(x < x)
      OBVIOUS
    <3> QED BY <1>3, <2>6, <3>1
  <2> HIDE DEF below
  <2>2. IsFiniteSet(below(y))
    BY <1>2
  <2>3. /\ Cardinality(below(x)) <= Cardinality(below(y))
        /\ Cardinality(below(x)) # Cardinality(below(y))
    BY <2>1, <2>2, FS_Subset
  <2>4. rank[x] = Cardinality(below(x)) /\ rank[y] = Cardinality(below(y))
    OBVIOUS
  <2>7. rank[x] \in Int /\ rank[y] \in Int
    BY <1>2
  <2> QED BY <2>3, <2>4, <2>7
<1>4. rank \in [S -> 0 .. n - 1]
  <2> HIDE DEF below
  <2> QED BY <1>2
<1>5. \A x \in S : rank[x] = Cardinality({y \in S : y < x})
  OBVIOUS
<1> HIDE DEF rank
<1>6. \A x, y \in S : rank[x] = rank[y] => x = y
  <2> SUFFICES ASSUME NEW x \in S, NEW y \in S, rank[x] = rank[y] PROVE x = y
    OBVIOUS
  <2>1. rank[x] \in Int
    BY <1>4
  <2>2. ~(x < y) /\ ~(y < x)
    BY <1>3, <2>1
  <2> QED BY <2>2
<1>7. \A k \in 1 .. n : \E x \in S : rank[x] = k - 1
  <2>1. rank \in Injection(S, 0 .. n - 1)
    BY <1>4, <1>6 DEF Injection, IsInjective
  <2>2. IsFiniteSet(0 .. n - 1) /\ Cardinality(0 .. n - 1) = n
    <3>1. 0 \in Int /\ n - 1 \in Int
      BY <1>1
    <3>2. IsFiniteSet(0 .. n - 1)
          /\ Cardinality(0 .. n - 1) = IF 0 > n - 1 THEN 0 ELSE n - 1 - 0 + 1
      BY <3>1, FS_Interval
    <3> QED BY <1>1, <3>2
  <2>3. rank \in Surjection(S, 0 .. n - 1)
    BY <2>1, <2>2, FS_Injection
  <2>4. \A i \in 0 .. n - 1 : \E x \in S : rank[x] = i
    BY <2>3 DEF Surjection
  <2> QED BY <1>1, <2>4
<1> PICK s : s = Ascending(S)
  OBVIOUS
<1>8. s = [k \in 1 .. n |-> CHOOSE x \in S : Cardinality({y \in S : y < x}) = k - 1]
  BY DEF Ascending
<1>9. \A k \in 1 .. n : s[k] \in S /\ rank[s[k]] = k - 1
  <2> TAKE k \in 1 .. n
  <2>1. s[k] = CHOOSE x \in S : Cardinality({y \in S : y < x}) = k - 1
    BY <1>8
  <2>2. \E x \in S : Cardinality({y \in S : y < x}) = k - 1
    BY <1>5, <1>7
  <2>3. s[k] \in S /\ Cardinality({y \in S : y < s[k]}) = k - 1
    BY <2>1, <2>2
  <2> QED BY <1>5, <2>3
<1>10. \A x \in S : \E k \in 1 .. n : s[k] = x
  <2> TAKE x \in S
  <2>1. rank[x] + 1 \in 1 .. n /\ (rank[x] + 1) - 1 = rank[x]
    BY <1>1, <1>4
  <2> QED BY <1>6, <1>9, <2>1
<1>11. \A j, k \in 1 .. n : j < k => s[j] < s[k]
  <2> SUFFICES ASSUME NEW j \in 1 .. n, NEW k \in 1 .. n, j < k, ~(s[j] < s[k]) PROVE FALSE
    OBVIOUS
  <2>1. s[j] \in S /\ s[k] \in S /\ rank[s[j]] = j - 1 /\ rank[s[k]] = k - 1
    BY <1>9
  <2>2. s[k] < s[j] \/ s[k] = s[j]
    <3>1. s[j] \in Int /\ s[k] \in Int
      BY <2>1
    <3> QED BY <3>1
  <2>3. rank[s[k]] < rank[s[j]] \/ rank[s[k]] = rank[s[j]]
    BY <1>3, <2>1, <2>2
  <2> QED BY <1>1, <2>1, <2>3
<1>12. s \in [1 .. n -> S]
  BY <1>8, <1>9
<1> QED BY <1>1, <1>10, <1>11, <1>12

\* Only keeps the members of s that are in keep.
LEMMA OnlyKeeps ==
    ASSUME NEW S, NEW s \in Seq(S), NEW keep
    PROVE  /\ Only(s, keep) \in Seq(S)
           /\ ToSet(Only(s, keep)) = ToSet(s) \cap keep
           /\ Len(Only(s, keep)) <= Len(s)
           /\ ~(ToSet(s) \subseteq keep) => Len(Only(s, keep)) < Len(s)
<1> PICK K : K = {i \in DOMAIN s : s[i] \in keep}
  OBVIOUS
<1> PICK at : at = Ascending(K)
  OBVIOUS
<1> PICK n : n = Cardinality(K)
  OBVIOUS
<1> PICK r : r = Only(s, keep)
  OBVIOUS
<1>1. Len(s) \in Nat /\ DOMAIN s = 1 .. Len(s) /\ \A i \in 1 .. Len(s) : s[i] \in S
  BY ElementOfSeq
<1>2. K \in SUBSET Int /\ K \in SUBSET (1 .. Len(s))
  BY <1>1
<1>3. IsFiniteSet(K)
  <2>1. IsFiniteSet(1 .. Len(s))
    BY <1>1, FS_Interval
  <2> QED BY <1>2, <2>1, FS_Subset
<1>4. /\ n \in Nat /\ at \in [1 .. n -> K]
      /\ \A i \in K : \E k \in 1 .. n : at[k] = i
      /\ \A j, k \in 1 .. n : j < k => at[j] < at[k]
  <2>1. /\ Cardinality(K) \in Nat
        /\ Ascending(K) \in [1 .. Cardinality(K) -> K]
        /\ \A i \in K : \E k \in 1 .. Cardinality(K) : Ascending(K)[k] = i
        /\ \A j, k \in 1 .. Cardinality(K) : j < k => Ascending(K)[j] < Ascending(K)[k]
    BY <1>2, <1>3, AscendingLists, Zenon
  <2> QED BY <2>1, Zenon
<1>5. r = [k \in 1 .. n |-> s[at[k]]]
  BY <1>4 DEF Only
<1>6. \A k \in 1 .. n : at[k] \in 1 .. Len(s) /\ s[at[k]] \in S /\ s[at[k]] \in keep
  BY <1>1, <1>2, <1>4
<1>7. r \in Seq(S) /\ Len(r) = n /\ DOMAIN r = 1 .. n
  <2>1. r \in [1 .. n -> S]
    BY <1>5, <1>6
  <2> QED BY <1>4, <2>1, SeqDef
<1>8. \A x : x \in ToSet(r) <=> x \in ToSet(s) /\ x \in keep
  <2>1. \A x : x \in ToSet(r) <=> \E k \in 1 .. n : r[k] = x
    BY <1>7, Zenon DEF ToSet
  <2>2. \A x : x \in ToSet(s) <=> \E i \in 1 .. Len(s) : s[i] = x
    BY <1>1, Zenon DEF ToSet
  <2>3. \A i : i \in K <=> i \in 1 .. Len(s) /\ s[i] \in keep
    BY <1>1
  <2>4. \A k \in 1 .. n : r[k] = s[at[k]]
    BY <1>5
  <2>5. ASSUME NEW x, NEW k \in 1 .. n, r[k] = x PROVE x \in keep /\ \E i \in 1 .. Len(s) : s[i] = x
    BY <1>6, <2>4, <2>5, Zenon
  <2>6. ASSUME NEW x, x \in keep, NEW i \in 1 .. Len(s), s[i] = x PROVE \E k \in 1 .. n : r[k] = x
    <3>1. i \in K
      BY <2>3, <2>6, Zenon
    <3>2. PICK k \in 1 .. n : at[k] = i
      BY <1>4, <3>1
    <3>3. r[k] = s[i]
      BY <2>4, <3>2
    <3> QED BY <2>6, <3>3
  <2> QED BY <2>1, <2>2, <2>5, <2>6, Zenon
<1>9. n <= Len(s) /\ (K # 1 .. Len(s) => n # Len(s))
  <2>1. IsFiniteSet(1 .. Len(s)) /\ Cardinality(1 .. Len(s)) = Len(s)
    <3>1. IsFiniteSet(1 .. Len(s))
          /\ Cardinality(1 .. Len(s)) = IF 1 > Len(s) THEN 0 ELSE Len(s) - 1 + 1
      BY <1>1, FS_Interval
    <3> QED BY <1>1, <3>1
  <2> QED BY <1>2, <2>1, FS_Subset, Zenon
<1>10. K = 1 .. Len(s) => ToSet(s) \subseteq keep
  BY <1>1 DEF ToSet
<1> QED BY <1>1, <1>4, <1>7, <1>8, <1>9, <1>10

\* Newest keeps the last ones, up to the limit; Over counts those given up.
LEMMA NewestKeeps ==
    ASSUME NEW S, NEW s \in Seq(S), NEW limit \in Nat
    PROVE  /\ Newest(s, limit) \in Seq(S)
           /\ Len(Newest(s, limit)) = IF Len(s) > limit THEN limit ELSE Len(s)
           /\ ToSet(s) = ToSet(Newest(s, limit)) \cup {s[j] : j \in 1 .. Over(s, limit)}
           /\ limit > 0 /\ Len(s) > 0 => s[Len(s)] \in ToSet(Newest(s, limit))
<1> PICK o : o = Over(s, limit)
  OBVIOUS
<1> PICK r : r = Newest(s, limit)
  OBVIOUS
<1>1. Len(s) \in Nat /\ o \in 0 .. Len(s) /\ Len(s) - o = IF Len(s) > limit THEN limit ELSE Len(s)
  BY DEF Over
<1>2. r = SubSeq(s, o + 1, Len(s))
  BY DEF Newest
<1>3. /\ r \in Seq(S) /\ Len(r) = Len(s) - o
      /\ \A i \in 1 .. Len(s) - o : r[i] = s[o + i]
  BY <1>1, <1>2
<1>4. \A x : x \in ToSet(s) <=> x \in ToSet(r) \/ \E j \in 1 .. o : x = s[j]
  <2>1. DOMAIN s = 1 .. Len(s) /\ DOMAIN r = 1 .. Len(s) - o
    BY <1>1, <1>3
  <2>2. \A j \in 1 .. Len(s) : j \in 1 .. o \/ (j - o \in 1 .. Len(s) - o /\ r[j - o] = s[j])
    BY <1>1, <1>3
  <2>3. \A i \in 1 .. Len(s) - o : o + i \in 1 .. Len(s)
    BY <1>1
  <2>4. \A j \in 1 .. o : j \in 1 .. Len(s)
    BY <1>1
  <2> QED BY <1>3, <2>1, <2>2, <2>3, <2>4 DEF ToSet
<1>5. limit > 0 /\ Len(s) > 0 => s[Len(s)] \in ToSet(r)
  <2> SUFFICES ASSUME limit > 0, Len(s) > 0 PROVE s[Len(s)] \in ToSet(r)
    OBVIOUS
  <2>1. Len(s) - o \in 1 .. Len(s) - o /\ DOMAIN r = 1 .. Len(s) - o
    BY <1>1, <1>3
  <2>2. r[Len(s) - o] = s[Len(s)]
    BY <1>1, <1>3, <2>1
  <2> QED BY <2>1, <2>2 DEF ToSet
<1> QED BY <1>1, <1>3, <1>4, <1>5

LEMMA AppendAdds ==
    ASSUME NEW S, NEW s \in Seq(S), NEW x \in S
    PROVE  /\ Append(s, x) \in Seq(S) /\ Len(Append(s, x)) = Len(s) + 1
           /\ ToSet(Append(s, x)) = ToSet(s) \cup {x}
<1> PICK r : r = Append(s, x)
  OBVIOUS
<1>1. /\ r \in Seq(S) /\ Len(s) \in Nat /\ Len(r) = Len(s) + 1
      /\ DOMAIN r = 1 .. Len(s) + 1 /\ DOMAIN s = 1 .. Len(s)
      /\ r[Len(s) + 1] = x /\ \A i \in 1 .. Len(s) : r[i] = s[i]
  OBVIOUS
<1>2. \A i : i \in 1 .. Len(s) + 1 <=> i \in 1 .. Len(s) \/ i = Len(s) + 1
  BY <1>1
<1>3. \A y : y \in ToSet(r) <=> y \in ToSet(s) \/ y = x
  BY <1>1, <1>2, Zenon DEF ToSet
<1> QED BY <1>1, <1>3

\* A member of a sequence of S is in S.
LEMMA MembersOf ==
    ASSUME NEW S, NEW s \in Seq(S)
    PROVE  ToSet(s) \subseteq S /\ (s # <<>> => ToSet(s) # {}) /\ Len(s) \in Nat
BY ElementOfSeq DEF ToSet

-----------------------------------------------------------------------------
(* Marks                                                                   *)

LEMMA CookiesAre ==
    ASSUME NEW marks, MarksTyped(marks)
    PROVE  /\ \A c : c \in Cookies(marks) <=> \E m \in ToSet(marks) : m.cookie = c
           /\ Cookies(marks) \subseteq Cookie
<1>1. \A c : c \in Cookies(marks) <=> \E m \in ToSet(marks) : m.cookie = c
  BY Zenon DEF Cookies, ToSet
<1>2. ToSet(marks) \subseteq MarkType
  BY MembersOf DEF MarksTyped
<1> QED BY <1>1, <1>2 DEF MarkType

LEMMA UnmarkedKeeps ==
    ASSUME NEW marks, MarksTyped(marks), NEW cs
    PROVE  /\ MarksTyped(Unmarked(marks, cs))
           /\ Cookies(Unmarked(marks, cs)) = Cookies(marks) \ cs
           /\ Len(Unmarked(marks, cs)) <= Len(marks)
           /\ Cookies(marks) \cap cs # {} => Len(Unmarked(marks, cs)) < Len(marks)
<1> DEFINE keep == {m \in ToSet(marks) : m.cookie \notin cs}
<1> PICK r : r = Unmarked(marks, cs)
  OBVIOUS
<1>1. /\ MarksTyped(r) /\ ToSet(r) = ToSet(marks) \cap keep
      /\ Len(r) <= Len(marks)
      /\ ~(ToSet(marks) \subseteq keep) => Len(r) < Len(marks)
  <2> HIDE DEF keep
  <2>1. r = Only(marks, keep)
    BY DEF Unmarked, keep
  <2> QED BY <2>1, OnlyKeeps DEF MarksTyped
<1>2. Cookies(r) = Cookies(marks) \ cs
  BY <1>1, CookiesAre
<1>3. Cookies(marks) \cap cs # {} => ~(ToSet(marks) \subseteq keep)
  BY CookiesAre
<1> HIDE DEF keep
<1>4. Cookies(marks) \cap cs # {} => Len(r) < Len(marks)
  BY <1>1, <1>3
<1> QED BY <1>1, <1>2, <1>4

LEMMA PrunedKeeps ==
    ASSUME NEW marks, MarksTyped(marks), NEW time
    PROVE  /\ MarksTyped(PrunedAt(marks, time)) /\ Len(PrunedAt(marks, time)) <= MaxClosed
           /\ Cookies(PrunedAt(marks, time)) \subseteq Cookies(marks)
           /\ Cookies(marks) = Cookies(PrunedAt(marks, time)) \cup ForgottenAt(marks, time)
<1> DEFINE keep == {m \in ToSet(marks) : time - m.at <= ClosedTTL}
<1> PICK young : young = Only(marks, keep)
  OBVIOUS
<1> HIDE DEF keep
<1>1. MarksTyped(young) /\ ToSet(young) \subseteq ToSet(marks)
  BY OnlyKeeps DEF MarksTyped
<1> PICK r : r = Newest(young, MaxClosed)
  OBVIOUS
<1>2. r = PrunedAt(marks, time)
  BY Zenon DEF PrunedAt, keep
<1>3. MarksTyped(r) /\ Len(r) <= MaxClosed /\ ToSet(r) \subseteq ToSet(young)
  BY <1>1, NewestKeeps, NemoLimits DEF MarksTyped
<1>4. Cookies(r) \subseteq Cookies(marks)
  BY <1>1, <1>3, CookiesAre
<1> QED BY <1>2, <1>3, <1>4 DEF ForgottenAt

\* A mark, in place of the one the cookie may have.
LEMMA MarkedAnew ==
    ASSUME NEW marks, MarksTyped(marks), NEW c \in Cookie, NEW time \in Nat
    PROVE  LET new == Append(Unmarked(marks, {c}), [cookie |-> c, at |-> time]) IN
           /\ MarksTyped(new) /\ Cookies(new) = Cookies(marks) \cup {c}
           /\ c \in Cookies(marks) => Len(new) <= Len(marks)
<1> PICK r : r = Unmarked(marks, {c})
  OBVIOUS
<1> PICK m : m = [cookie |-> c, at |-> time]
  OBVIOUS
<1> PICK new : new = Append(r, m)
  OBVIOUS
<1>1. /\ MarksTyped(r) /\ Cookies(r) = Cookies(marks) \ {c}
      /\ Cookies(marks) \cap {c} # {} => Len(r) < Len(marks)
  BY UnmarkedKeeps
<1>5. Len(r) \in Nat /\ Len(marks) \in Nat /\ r \in Seq(MarkType)
  BY <1>1 DEF MarksTyped
<1>6. m \in MarkType /\ m.cookie = c
  BY DEF MarkType
<1>2. new \in Seq(MarkType) /\ Len(new) = Len(r) + 1 /\ ToSet(new) = ToSet(r) \cup {m}
  <2> PICK T : T = MarkType
    OBVIOUS
  <2>1. r \in Seq(T) /\ m \in T
    BY <1>5, <1>6
  <2>2. ToSet(Append(r, m)) = ToSet(r) \cup {m}
    BY ONLY <2>1, AppendAdds
  <2>3. Append(r, m) \in Seq(T) /\ Len(Append(r, m)) = Len(r) + 1
    BY <2>1
  <2> QED BY <2>2, <2>3
<1>7. MarksTyped(new)
  BY <1>2 DEF MarksTyped
<1>3. Cookies(new) = Cookies(marks) \cup {c}
  <2>1. \A x : x \in Cookies(new) <=> x \in Cookies(r) \/ x = c
    <3>1. \A x : x \in Cookies(new) <=> \E y \in ToSet(new) : y.cookie = x
      BY <1>7, CookiesAre
    <3>2. \A x : x \in Cookies(r) <=> \E y \in ToSet(r) : y.cookie = x
      BY <1>1, CookiesAre
    <3> QED BY <1>2, <1>6, <3>1, <3>2, Zenon
  <2>2. \A x : x \in Cookies(new) <=> x \in Cookies(marks) \/ x = c
    BY <2>1, <1>1
  <2> QED BY <2>2
<1>4. c \in Cookies(marks) => Len(new) <= Len(marks)
  BY <1>1, <1>2, <1>5
<1> QED BY <1>3, <1>4, <1>7

-----------------------------------------------------------------------------
(* Pruning keeps the invariant                                             *)

LEMMA WithoutIs ==
    ASSUME NEW f, NEW xs
    PROVE  /\ DOMAIN Without(f, xs) = DOMAIN f \ xs
           /\ \A x \in DOMAIN f \ xs : Without(f, xs)[x] = f[x]
BY DEF Without, Restrict

LEMMA PutIs ==
    ASSUME NEW f, NEW x, NEW v
    PROVE  /\ DOMAIN Put(f, x, v) = DOMAIN f \cup {x}
           /\ Put(f, x, v)[x] = v
           /\ \A y \in DOMAIN f : y # x => Put(f, x, v)[y] = f[y]
BY DEF Put

\* A part of the sessions is as good as all of them.
LEMMA SessionsShrink ==
    ASSUME NEW M, NEW N, NEW started \in Nat, NEW time, SessionsOK(M, started, time),
           DOMAIN N \subseteq DOMAIN M, \A i \in DOMAIN N : N[i] = M[i]
    PROVE  SessionsOK(N, started, time)
<1>1. IsFiniteSet(DOMAIN M)
  <2>1. IsFiniteSet(1 .. started) /\ DOMAIN M \subseteq 1 .. started
    BY FS_Interval DEF SessionsOK
  <2> QED BY <2>1, FS_Subset
<1>2. IsFiniteSet(DOMAIN N) /\ Cardinality(DOMAIN N) <= Cardinality(DOMAIN M)
  BY <1>1, FS_Subset
<1>3. Cardinality(DOMAIN N) \in Nat /\ Cardinality(DOMAIN M) \in Nat /\ MaxSessions \in Nat
  BY <1>1, <1>2, FS_CardinalityType, NemoLimits
<1> QED BY <1>2, <1>3 DEF SessionsOK

\* What pruning leaves of the tables.
LEMMA PrunedTables ==
    /\ DOMAIN Reaped \subseteq DOMAIN manager /\ \A i \in DOMAIN Reaped : Reaped[i] = manager[i]
    /\ \A c : c \in DOMAIN Live <=> c \in DOMAIN state /\ state[c].internal \in DOMAIN Reaped
    /\ \A c \in DOMAIN Live : Live[c] = state[c] /\ c \notin Expired
    /\ \A c : c \in DOMAIN Replies <=> c \in DOMAIN stepCache /\ c \notin Forgotten
                                         /\ c \notin Expired
    /\ \A c \in DOMAIN Replies : Replies[c] = stepCache[c]
    /\ \A c \in DOMAIN Faults : c \in DOMAIN faults /\ Faults[c] = faults[c] /\ c \notin Expired
<1>1. DOMAIN Reaped \subseteq DOMAIN manager /\ \A i \in DOMAIN Reaped : Reaped[i] = manager[i]
  BY DEF Reaped, ReapedAt, Restrict
<1>2. \A c : c \in Expired <=> c \in DOMAIN state /\ state[c].internal \notin DOMAIN Reaped
  BY DEF Expired
<1>3. /\ \A c : c \in DOMAIN Live <=> c \in DOMAIN state /\ state[c].internal \in DOMAIN Reaped
      /\ \A c \in DOMAIN Live : Live[c] = state[c] /\ c \notin Expired
  <2>1. /\ DOMAIN Live = DOMAIN state \ Expired
        /\ \A c \in DOMAIN state \ Expired : Live[c] = state[c]
    BY WithoutIs, Zenon DEF Live
  <2> QED BY <1>2, <2>1
<1>4. \A c : c \in Gone <=> c \in Forgotten \/ c \in Expired
  BY DEF Gone
<1>5. /\ \A c : c \in DOMAIN Replies <=> c \in DOMAIN stepCache /\ c \notin Forgotten
                                           /\ c \notin Expired
      /\ \A c \in DOMAIN Replies : Replies[c] = stepCache[c]
  <2>1. /\ DOMAIN Replies = DOMAIN stepCache \ Gone
        /\ \A c \in DOMAIN stepCache \ Gone : Replies[c] = stepCache[c]
    BY WithoutIs, Zenon DEF Replies
  <2> QED BY <1>4, <2>1
<1>6. \A c \in DOMAIN Faults : c \in DOMAIN faults /\ Faults[c] = faults[c] /\ c \notin Expired
  <2>1. /\ DOMAIN Faults = DOMAIN faults \ Gone
        /\ \A c \in DOMAIN faults \ Gone : Faults[c] = faults[c]
    BY WithoutIs, Zenon DEF Faults
  <2> QED BY <1>4, <2>1
<1> QED BY <1>1, <1>3, <1>5, <1>6

LEMMA PruneKeeps ==
    ASSUME NInv
    PROVE  /\ SessionsOK(Reaped, begun, now) /\ RolloutsOK(Live, Reaped)
           /\ HeldOK(Live, Reaped, lapsed) /\ AttemptsLeft(Live, Reaped)
           /\ MarksTyped(Marks) /\ Len(Marks) <= MaxClosed
           /\ RepliesOK(Replies, Live, Marks) /\ FaultsOK(Faults, Live)
           /\ OwnReplies(Live, Replies, Marks, onto)
           /\ CountsOK(Live, Reaped, Replies, counted, onto, begun)
           /\ ResetsOK(resets, Live, served)
<1> USE NemoLimits
<1>1. begun \in Nat /\ now \in Nat /\ MarksTyped(closed) /\ SessionsOK(manager, begun, now)
  BY DEF NInv
<1>2. /\ RolloutsOK(state, manager) /\ AttemptsLeft(state, manager)
      /\ RepliesOK(stepCache, state, closed) /\ FaultsOK(faults, state)
      /\ OwnReplies(state, stepCache, closed, onto)
      /\ CountsOK(state, manager, stepCache, counted, onto, begun)
      /\ ResetsOK(resets, state, served)
  BY DEF NInv
<1>3. SessionsOK(Reaped, begun, now)
  BY <1>1, PrunedTables, SessionsShrink
<1>4. RolloutsOK(Live, Reaped)
  BY <1>2, PrunedTables DEF RolloutsOK
<1>11. AttemptsLeft(Live, Reaped)
  BY <1>2, PrunedTables DEF AttemptsLeft, Playable
<1>12. HeldOK(Live, Reaped, lapsed)
  BY PrunedTables DEF HeldOK
<1>5. /\ MarksTyped(Marks) /\ Len(Marks) <= MaxClosed
      /\ \A c : c \in Cookies(Marks) <=> c \in Cookies(Pruned) /\ c \notin Expired
      /\ Cookies(Pruned) \subseteq Cookies(closed)
      /\ Cookies(closed) = Cookies(Pruned) \cup Forgotten
  <2>1. /\ MarksTyped(Pruned) /\ Len(Pruned) <= MaxClosed
        /\ Cookies(Pruned) \subseteq Cookies(closed)
        /\ Cookies(closed) = Cookies(Pruned) \cup Forgotten
    BY <1>1, PrunedKeeps DEF Pruned, Forgotten
  <2>2. /\ MarksTyped(Marks) /\ Cookies(Marks) = Cookies(Pruned) \ Expired
        /\ Len(Marks) <= Len(Pruned)
    BY <2>1, UnmarkedKeeps DEF Marks
  <2>3. Len(Marks) \in Nat /\ Len(Pruned) \in Nat
    BY <2>1, <2>2 DEF MarksTyped
  <2> QED BY <2>1, <2>2, <2>3
<1>6. RepliesOK(Replies, Live, Marks)
  <2>1. ASSUME NEW c \in DOMAIN Replies PROVE c \in DOMAIN Live \cup Cookies(Marks)
    <3>1. c \in DOMAIN stepCache /\ c \notin Forgotten /\ c \notin Expired
      BY <2>1, PrunedTables
    <3>2. c \in DOMAIN state \/ c \in Cookies(closed)
      BY <1>2, <3>1 DEF RepliesOK
    <3> QED BY <1>5, <3>1, <3>2, PrunedTables DEF Expired
  <2>2. \A c \in DOMAIN Replies : /\ Replies[c] \in Seq(Answers)
                                  /\ Len(Replies[c]) \in 1 .. MaxReplies
    BY <1>2, PrunedTables DEF RepliesOK
  <2> QED BY <2>1, <2>2 DEF RepliesOK
<1>7. FaultsOK(Faults, Live)
  BY <1>2, PrunedTables DEF FaultsOK, Expired
<1>8. OwnReplies(Live, Replies, Marks, onto)
  BY <1>2, <1>5, PrunedTables DEF OwnReplies
<1>9. CountsOK(Live, Reaped, Replies, counted, onto, begun)
  <2>1. ASSUME NEW c \in DOMAIN Live, NEW t \in DOMAIN counted,
               t[1] = Live[c].internal, Playable(Live, Reaped, c), t[1] \notin onto
        PROVE  c \in DOMAIN Replies /\ \E r \in ToSet(Replies[c]) : r.id = t[2]
    <3>1. /\ c \in DOMAIN state /\ Live[c] = state[c] /\ c \notin Expired
          /\ Playable(state, manager, c)
      BY <2>1, PrunedTables DEF Playable
    <3>2. c \in DOMAIN stepCache /\ \E r \in ToSet(stepCache[c]) : r.id = t[2]
      BY <1>2, <2>1, <3>1 DEF CountsOK
    <3>3. c \notin Cookies(closed)
      BY <1>2, <2>1, <3>1 DEF OwnReplies
    <3>4. c \in DOMAIN Replies /\ Replies[c] = stepCache[c]
      BY <1>5, <3>1, <3>2, <3>3, PrunedTables
    <3> QED BY <3>2, <3>4
  <2> QED BY <1>2, <2>1 DEF CountsOK
<1>10. ResetsOK(resets, Live, served)
  BY <1>2, PrunedTables DEF ResetsOK
<1> QED BY <1>3, <1>4, <1>5, <1>6, <1>7, <1>8, <1>9, <1>10, <1>11, <1>12

-----------------------------------------------------------------------------
(* close_session                                                           *)

\* A mark of close_session joins the marks of the closed rollouts.
LEMMA MarkIs ==
    ASSUME NEW marks, MarksTyped(marks), NEW replies, NEW c \in Cookie, NEW time \in Nat
    PROVE  /\ MarksTyped(Mark(marks, replies, c, time))
           /\ \A d : d \in Cookies(Mark(marks, replies, c, time)) <=>
                        d \in Cookies(marks) \/ (d = c /\ c \in DOMAIN replies)
<1>1. CASE c \in DOMAIN replies
  <2>1. Mark(marks, replies, c, time) = Append(Unmarked(marks, {c}), [cookie |-> c, at |-> time])
    BY <1>1 DEF Mark
  <2>2. /\ MarksTyped(Mark(marks, replies, c, time))
        /\ Cookies(Mark(marks, replies, c, time)) = Cookies(marks) \cup {c}
    BY <2>1, MarkedAnew
  <2> QED BY <1>1, <2>2
<1>2. CASE c \notin DOMAIN replies
  BY <1>2 DEF Mark
<1> QED BY <1>1, <1>2

\* Closing the rollout of a cookie, on whatever tables the handler has made.
LEMMA CloseKeeps ==
    ASSUME NEW c \in Cookie, NEW M, NEW R, NEW F, NEW S, NEW L, NEW time \in Nat, time = now',
           NEW started \in Nat, NEW gone, NEW tally, NEW moved, NEW entries, NEW tasks,
           SessionsOK(S, started, time), RolloutsOK(L, S), HeldOK(L, S, gone),
           AttemptsLeft(Without(L, {c}), S),
           MarksTyped(M), RepliesOK(R, L, M), FaultsOK(F, L), OwnReplies(L, R, M, moved),
           CountsOK(L, S, R, tally, moved, started), ResetsOK(entries, L, tasks),
           Close(c, M, R, F, S, L)
    PROVE  /\ SessionsOK(manager', started, time) /\ RolloutsOK(state', manager')
           /\ HeldOK(state', manager', gone) /\ AttemptsLeft(state', manager')
           /\ MarksTyped(closed') /\ Len(closed') <= MaxClosed
           /\ RepliesOK(stepCache', state', closed') /\ FaultsOK(faults', state')
           /\ OwnReplies(state', stepCache', closed', moved)
           /\ CountsOK(state', manager', stepCache', tally, moved, started)
           /\ ResetsOK(entries, state', tasks)
<1> PICK marked : marked = Mark(M, R, c, time)
  OBVIOUS
<1>1. /\ closed' = PrunedAt(marked, time) /\ stepCache' = Without(R, ForgottenAt(marked, time))
      /\ faults' = Without(F, ForgottenAt(marked, time) \cup {c}) /\ state' = Without(L, {c})
      /\ manager' = IF c \in DOMAIN L THEN Without(S, {L[c].internal}) ELSE S
  BY DEF Close
<1>2. /\ MarksTyped(marked)
      /\ \A d : d \in Cookies(marked) <=> d \in Cookies(M) \/ (d = c /\ c \in DOMAIN R)
  BY MarkIs
<1>3. /\ MarksTyped(closed') /\ Len(closed') <= MaxClosed
      /\ \A d : d \in Cookies(closed') => d \in Cookies(marked)
      /\ \A d : d \in Cookies(marked) => d \in Cookies(closed') \/ d \in ForgottenAt(marked, time)
      /\ \A d : d \in ForgottenAt(marked, time) => d \in Cookies(marked)
  <2>1. /\ MarksTyped(PrunedAt(marked, time)) /\ Len(PrunedAt(marked, time)) <= MaxClosed
        /\ Cookies(PrunedAt(marked, time)) \subseteq Cookies(marked)
        /\ Cookies(marked) = Cookies(PrunedAt(marked, time)) \cup ForgottenAt(marked, time)
    BY <1>2, PrunedKeeps
  <2> QED BY <1>1, <2>1
<1>4. /\ \A d : d \in DOMAIN state' <=> d \in DOMAIN L /\ d # c
      /\ \A d \in DOMAIN state' : state'[d] = L[d]
  <2>1. /\ DOMAIN state' = DOMAIN L \ {c} /\ \A d \in DOMAIN L \ {c} : state'[d] = L[d]
    BY <1>1, WithoutIs, Zenon
  <2> QED BY <2>1
<1>5. /\ \A d : d \in DOMAIN stepCache' <=> d \in DOMAIN R /\ d \notin ForgottenAt(marked, time)
      /\ \A d \in DOMAIN stepCache' : stepCache'[d] = R[d]
  <2>1. /\ DOMAIN stepCache' = DOMAIN R \ ForgottenAt(marked, time)
        /\ \A d \in DOMAIN R \ ForgottenAt(marked, time) : stepCache'[d] = R[d]
    <3> PICK out : out = ForgottenAt(marked, time)
      OBVIOUS
    <3>1. DOMAIN Without(R, out) = DOMAIN R \ out
      BY WithoutIs
    <3>2. \A d \in DOMAIN R \ out : Without(R, out)[d] = R[d]
      BY ONLY WithoutIs
    <3>3. stepCache' = Without(R, out)
      BY <1>1
    <3> QED BY <3>1, <3>2, <3>3
  <2> QED BY <2>1
<1>6. /\ \A i : i \in DOMAIN manager' <=> i \in DOMAIN S /\ (c \in DOMAIN L => i # L[c].internal)
      /\ \A i \in DOMAIN manager' : manager'[i] = S[i]
  <2>1. CASE c \in DOMAIN L
    <3>1. /\ DOMAIN manager' = DOMAIN S \ {L[c].internal}
          /\ \A i \in DOMAIN S \ {L[c].internal} : manager'[i] = S[i]
      BY <1>1, <2>1, WithoutIs, Zenon
    <3> QED BY <2>1, <3>1
  <2>2. CASE c \notin DOMAIN L
    BY <1>1, <2>2
  <2> QED BY <2>1, <2>2
<1>7. SessionsOK(manager', started, time)
  BY <1>6, SessionsShrink
<1>8. RolloutsOK(state', manager')
  BY <1>4, <1>6 DEF RolloutsOK
<1>9. AttemptsLeft(state', manager') /\ HeldOK(state', manager', gone)
  <2>1. AttemptsLeft(state', S)
    BY <1>1
  <2> QED BY <1>4, <1>6, <2>1 DEF AttemptsLeft, Playable, HeldOK, RolloutsOK
<1>10. RepliesOK(stepCache', state', closed')
  <2>1. ASSUME NEW d \in DOMAIN stepCache' PROVE d \in DOMAIN state' \/ d \in Cookies(closed')
    <3>1. d \in DOMAIN R /\ d \notin ForgottenAt(marked, time)
      BY <1>5
    <3>2. d \in DOMAIN L \/ d \in Cookies(M)
      BY <3>1 DEF RepliesOK
    <3> QED BY <1>2, <1>3, <1>4, <3>1, <3>2
  <2> QED BY <1>5, <2>1 DEF RepliesOK
<1>11. FaultsOK(faults', state')
  <2>1. \A d \in DOMAIN faults' : d \in DOMAIN F /\ d # c
    <3>1. DOMAIN faults' = DOMAIN F \ (ForgottenAt(marked, time) \cup {c})
      BY <1>1, WithoutIs, Zenon
    <3> QED BY <3>1
  <2> QED BY <1>4, <2>1 DEF FaultsOK
<1>12. OwnReplies(state', stepCache', closed', moved)
  BY <1>2, <1>3, <1>4, <1>5 DEF OwnReplies
<1>13. CountsOK(state', manager', stepCache', tally, moved, started)
  <2>1. ASSUME NEW d \in DOMAIN state', NEW t \in DOMAIN tally,
               t[1] = state'[d].internal, Playable(state', manager', d), t[1] \notin moved
        PROVE  d \in DOMAIN stepCache' /\ \E r \in ToSet(stepCache'[d]) : r.id = t[2]
    <3>1. d \in DOMAIN L /\ state'[d] = L[d] /\ d # c /\ Playable(L, S, d)
      BY <1>4, <1>6, <2>1 DEF Playable
    <3>2. d \in DOMAIN R /\ \E r \in ToSet(R[d]) : r.id = t[2]
      BY <2>1, <3>1 DEF CountsOK
    <3>3. d \notin Cookies(M)
      BY <2>1, <3>1 DEF OwnReplies
    <3>4. d \in DOMAIN stepCache' /\ stepCache'[d] = R[d]
      BY <1>2, <1>3, <1>5, <3>1, <3>2, <3>3
    <3> QED BY <3>2, <3>4
  <2> QED BY <2>1 DEF CountsOK
<1>14. ResetsOK(entries, state', tasks)
  BY <1>4 DEF ResetsOK
<1> QED BY <1>3, <1>7, <1>8, <1>9, <1>10, <1>11, <1>12, <1>13, <1>14

-----------------------------------------------------------------------------
(* The handlers that say nothing                                           *)

LEMMA SilentReply ==
    ASSUME reply' = NoReply
    PROVE  /\ reply'.kind \in {"none", "reset", "moved"}
           /\ AnswersItsAction' /\ HandsOver'
BY DEF NoReply, AnswersItsAction, HandsOver

LEMMA AttemptsWithout ==
    ASSUME NEW L, NEW S, NEW cs, AttemptsLeft(L, S)
    PROVE  AttemptsLeft(Without(L, cs), S)
<1>1. /\ DOMAIN Without(L, cs) = DOMAIN L \ cs
      /\ \A x \in DOMAIN L \ cs : Without(L, cs)[x] = L[x]
  BY WithoutIs
<1> QED BY <1>1 DEF AttemptsLeft, Playable

\* The next state has the invariant if its tables have their parts of it.
LEMMA Assembled ==
    ASSUME now' \in 0 .. MaxTime, begun' \in 0 .. MaxInternal,
           SessionsOK(manager', begun', now'), RolloutsOK(state', manager'),
           onto' \cup lapsed' \subseteq 1 .. begun', served' \subseteq Cookie \X Identity,
           HeldOK(state', manager', lapsed'), AttemptsLeft(state', manager'),
           MarksTyped(closed'), Len(closed') <= MaxClosed, RepliesOK(stepCache', state', closed'),
           FaultsOK(faults', state'), OwnReplies(state', stepCache', closed', onto'),
           CountsOK(state', manager', stepCache', counted', onto', begun'),
           ResetsOK(resets', state', served'), reply'.kind \in {"none", "reset", "moved"},
           AnswersItsAction', HandsOver'
    PROVE  NInv'
BY DEF NInv

\* The endpoint that closes looks for marks to prune, and not for rollouts.
LEMMA MarksAlone ==
    ASSUME NInv
    PROVE  LET M == Pruned
               R == Without(stepCache, Forgotten)
               F == Without(faults, Forgotten)
           IN  /\ MarksTyped(M) /\ RepliesOK(R, state, M) /\ FaultsOK(F, state)
               /\ OwnReplies(state, R, M, onto) /\ CountsOK(state, manager, R, counted, onto, begun)
<1> PICK M : M = Pruned
  OBVIOUS
<1> PICK out : out = Forgotten
  OBVIOUS
<1> PICK R : R = Without(stepCache, out)
  OBVIOUS
<1> PICK F : F = Without(faults, out)
  OBVIOUS
<1>1. /\ MarksTyped(M)
      /\ \A d : d \in Cookies(M) => d \in Cookies(closed)
      /\ \A d : d \in Cookies(closed) => d \in Cookies(M) \/ d \in out
      /\ \A d : d \in out => d \in Cookies(closed)
  <2>1. MarksTyped(closed)
    BY DEF NInv
  <2>2. /\ MarksTyped(M) /\ Cookies(M) \subseteq Cookies(closed)
        /\ Cookies(closed) = Cookies(M) \cup out
    BY <2>1, PrunedKeeps DEF Pruned, Forgotten
  <2> QED BY <2>2
<1>2. /\ \A d : d \in DOMAIN R <=> d \in DOMAIN stepCache /\ d \notin out
      /\ \A d \in DOMAIN R : R[d] = stepCache[d]
  <2>1. DOMAIN Without(stepCache, out) = DOMAIN stepCache \ out
    BY WithoutIs
  <2>2. \A d \in DOMAIN stepCache \ out : Without(stepCache, out)[d] = stepCache[d]
    BY ONLY WithoutIs
  <2> QED BY <2>1, <2>2
<1>3. \A d : d \in DOMAIN F => d \in DOMAIN faults
  <2>1. DOMAIN F = DOMAIN faults \ out
    BY WithoutIs, Zenon
  <2> QED BY <2>1
<1>4. /\ RepliesOK(stepCache, state, closed) /\ FaultsOK(faults, state)
      /\ OwnReplies(state, stepCache, closed, onto)
      /\ CountsOK(state, manager, stepCache, counted, onto, begun)
  BY DEF NInv
<1>5. RepliesOK(R, state, M)
  BY <1>1, <1>2, <1>4 DEF RepliesOK
<1>6. FaultsOK(F, state)
  BY <1>3, <1>4 DEF FaultsOK
<1>7. OwnReplies(state, R, M, onto)
  BY <1>1, <1>2, <1>4 DEF OwnReplies
<1>8. CountsOK(state, manager, R, counted, onto, begun)
  <2>1. ASSUME NEW d \in DOMAIN state, NEW t \in DOMAIN counted,
               t[1] = state[d].internal, Playable(state, manager, d), t[1] \notin onto
        PROVE  d \in DOMAIN R /\ \E r \in ToSet(R[d]) : r.id = t[2]
    <3>1. d \in DOMAIN stepCache /\ \E r \in ToSet(stepCache[d]) : r.id = t[2]
      BY <1>4, <2>1 DEF CountsOK
    <3>2. d \notin Cookies(closed)
      BY <1>4, <2>1 DEF OwnReplies
    <3>3. d \in DOMAIN R /\ R[d] = stepCache[d]
      BY <1>1, <1>2, <3>1, <3>2
    <3> QED BY <3>1, <3>3
  <2> QED BY <1>4, <2>1 DEF CountsOK
<1> QED BY <1>1, <1>5, <1>6, <1>7, <1>8

LEMMA CloseEndpointKeeps ==
    ASSUME NInv, NEW c \in Cookie, CloseEndpoint(c)
    PROVE  NInv'
<1> PICK M : M = Pruned
  OBVIOUS
<1> PICK R : R = Without(stepCache, Forgotten)
  OBVIOUS
<1> PICK F : F = Without(faults, Forgotten)
  OBVIOUS
<1>1. /\ Close(c, M, R, F, manager, state) /\ reply' = NoReply
      /\ now' = now /\ begun' = begun /\ resets' = resets /\ counted' = counted
      /\ onto' = onto /\ served' = served /\ lapsed' = lapsed
  BY DEF CloseEndpoint
<1>2. /\ MarksTyped(M) /\ RepliesOK(R, state, M) /\ FaultsOK(F, state)
      /\ OwnReplies(state, R, M, onto) /\ CountsOK(state, manager, R, counted, onto, begun)
  BY MarksAlone
<1>3. /\ now \in 0 .. MaxTime /\ now \in Nat /\ onto \cup lapsed \subseteq 1 .. begun
      /\ served \subseteq Cookie \X Identity /\ begun \in 0 .. MaxInternal /\ begun \in Nat
      /\ SessionsOK(manager, begun, now) /\ RolloutsOK(state, manager)
      /\ HeldOK(state, manager, lapsed) /\ AttemptsLeft(Without(state, {c}), manager)
      /\ ResetsOK(resets, state, served)
  BY AttemptsWithout, NemoLimits DEF NInv
<1>4. /\ SessionsOK(manager', begun, now) /\ RolloutsOK(state', manager')
      /\ HeldOK(state', manager', lapsed) /\ AttemptsLeft(state', manager')
      /\ MarksTyped(closed') /\ Len(closed') <= MaxClosed
      /\ RepliesOK(stepCache', state', closed') /\ FaultsOK(faults', state')
      /\ OwnReplies(state', stepCache', closed', onto)
      /\ CountsOK(state', manager', stepCache', counted, onto, begun)
      /\ ResetsOK(resets, state', served)
  BY <1>1, <1>2, <1>3, CloseKeeps
<1> QED BY <1>1, <1>3, <1>4, SilentReply, Assembled

\* A handler that refuses the request keeps what pruning left.
LEMMA OnlyPruned ==
    ASSUME NInv, manager' = Reaped, state' = Live, stepCache' = Replies, closed' = Marks,
           faults' = Faults, reply' = NoReply,
           UNCHANGED <<now, resets, begun, counted, onto, served, lapsed>>
    PROVE  NInv'
<1>1. /\ now \in 0 .. MaxTime /\ begun \in 0 .. MaxInternal
      /\ onto \cup lapsed \subseteq 1 .. begun /\ served \subseteq Cookie \X Identity
  BY DEF NInv
<1> QED BY <1>1, PruneKeeps, SilentReply, Assembled

LEMMA TickKeeps ==
    ASSUME NInv, Tick
    PROVE  NInv'
<1> USE NemoLimits
<1>1. now' = now + 1 /\ now' \in 0 .. MaxTime /\ reply' = NoReply
  BY DEF Tick, NInv
<1>2. UNCHANGED <<srvVars, counted, onto, served, lapsed>>
  BY DEF Tick
<1>3. /\ manager' = manager /\ state' = state /\ stepCache' = stepCache /\ closed' = closed
      /\ faults' = faults /\ resets' = resets /\ begun' = begun /\ counted' = counted
      /\ onto' = onto /\ served' = served /\ lapsed' = lapsed
  BY <1>2 DEF srvVars
<1>4. SessionsOK(manager', begun', now')
  <2>1. SessionsOK(manager, begun, now) /\ now \in Nat
    BY DEF NInv
  <2> QED BY <1>1, <1>3, <2>1 DEF SessionsOK
<1> QED BY <1>1, <1>3, <1>4, SilentReply DEF NInv

-----------------------------------------------------------------------------
(* reset                                                                   *)

OneTask(tasks) == \A s, t \in tasks : s[1] = t[1] => s = t

LEMMA ResetsSay ==
    ASSUME NEW entries, NEW L, NEW tasks
    PROVE  ResetsOK(entries, L, tasks) <=>
             /\ entries \in Seq(EntryType) /\ Len(entries) <= MaxResets
             /\ \A r \in ToSet(entries) : <<r.cookie, r.key>> \in tasks
             /\ \A r, q \in ToSet(entries) : r.key = q.key => r = q
             /\ OneTask(tasks) =>
                  \A r \in ToSet(entries) : r.cookie \in DOMAIN L => L[r.cookie].internal = r.internal
BY Zenon DEF ResetsOK, OneTask

\* An answer that hands over the open rollout of its cookie.
LEMMA ResetAnswer ==
    ASSUME NEW c, NEW k, NEW i, reply' = ResetReply(c, k, i), c \in DOMAIN state',
           OneTask(served') => state'[c].internal = i
    PROVE  /\ reply'.kind \in {"none", "reset", "moved"}
           /\ AnswersItsAction' /\ HandsOver'
BY DEF ResetReply, AnswersItsAction, HandsOver, OneTaskPerCookie, OneTask

Readdressed(r, c) == [r EXCEPT !.cookie = c]
EntriesMoved(entries, r, c) ==
    [j \in DOMAIN entries |-> IF entries[j] = r THEN Readdressed(r, c) ELSE entries[j]]

\* The cookie of one entry is replaced, and nothing else of the cache.
LEMMA EntryMoved ==
    ASSUME NEW entries \in Seq(EntryType), NEW r \in ToSet(entries), NEW c \in Cookie
    PROVE  /\ EntriesMoved(entries, r, c) \in Seq(EntryType)
           /\ Len(EntriesMoved(entries, r, c)) = Len(entries)
           /\ \A e \in ToSet(EntriesMoved(entries, r, c)) :
                 e = Readdressed(r, c) \/ (e \in ToSet(entries) /\ e # r)
<1> PICK q : q = Readdressed(r, c)
  OBVIOUS
<1> PICK moved : moved = [j \in DOMAIN entries |-> IF entries[j] = r THEN q ELSE entries[j]]
  OBVIOUS
<1>1. r \in EntryType
  BY MembersOf
<1>2. q \in EntryType
  BY <1>1 DEF EntryType, Readdressed
<1> HIDE DEF EntryType
<1>3. /\ DOMAIN entries = 1 .. Len(entries) /\ Len(entries) \in Nat
      /\ \A j \in 1 .. Len(entries) : entries[j] \in EntryType
  BY ElementOfSeq
<1>4. moved \in Seq(EntryType) /\ Len(moved) = Len(entries) /\ DOMAIN moved = DOMAIN entries
  BY <1>2, <1>3
<1>5. \A e \in ToSet(moved) : e = q \/ (e \in ToSet(entries) /\ e # r)
  BY <1>4 DEF ToSet
<1>6. moved = EntriesMoved(entries, r, c)
  BY Zenon DEF EntriesMoved
<1> QED BY <1>4, <1>5, <1>6

\* The tables of a rollout that moves from one cookie to another.
Moves(from, c, L, R, M, F, moved, L2, R2, M2, F2, moved2) ==
    /\ L2 = Put(Without(L, {from}), c, L[from])
    /\ R2 = IF from \in DOMAIN R THEN Put(Without(R, {from}), c, R[from]) ELSE R
    /\ M2 = Unmarked(M, {from})
    /\ F2 = IF from \in DOMAIN F THEN Put(Without(F, {from}), c, F[from]) ELSE F
    /\ moved2 = IF c \in Cookies(M) THEN moved \cup {L[from].internal} ELSE moved

TablesOK(L, S, R, M, F, gone, tally, moved, started) ==
    /\ RolloutsOK(L, S) /\ HeldOK(L, S, gone) /\ AttemptsLeft(L, S) /\ MarksTyped(M)
    /\ RepliesOK(R, L, M) /\ FaultsOK(F, L) /\ OwnReplies(L, R, M, moved)
    /\ CountsOK(L, S, R, tally, moved, started)

\* The rollout and its replies move to a cookie without a rollout.
LEMMA MoveKeeps ==
    ASSUME NEW L, NEW R, NEW M, NEW F, NEW S, NEW from \in DOMAIN L, NEW c \in Cookie,
           c # from, c \notin DOMAIN L, NEW gone, NEW tally, NEW moved, NEW started,
           NEW L2, NEW R2, NEW M2, NEW F2, NEW moved2,
           TablesOK(L, S, R, M, F, gone, tally, moved, started),
           Moves(from, c, L, R, M, F, moved, L2, R2, M2, F2, moved2)
    PROVE  TablesOK(L2, S, R2, M2, F2, gone, tally, moved2, started) /\ Len(M2) <= Len(M)
<1> USE DEF TablesOK
<1>1. /\ \A d : d \in DOMAIN L2 <=> d = c \/ (d \in DOMAIN L /\ d # from)
      /\ L2[c] = L[from]
      /\ \A d \in DOMAIN L2 : d # c => L2[d] = L[d]
  BY DEF Moves, Put, Without, Restrict
<1>2. /\ from \in DOMAIN R => /\ \A d : d \in DOMAIN R2 <=> d = c \/ (d \in DOMAIN R /\ d # from)
                              /\ R2[c] = R[from]
                              /\ \A d \in DOMAIN R2 : d # c => R2[d] = R[d]
      /\ from \notin DOMAIN R => R2 = R
  BY DEF Moves, Put, Without, Restrict
<1>3. /\ from \in DOMAIN F => \A d \in DOMAIN F2 : d = c \/ (d \in DOMAIN F /\ d # from)
      /\ from \notin DOMAIN F => F2 = F
  BY DEF Moves, Put, Without, Restrict
<1>4. /\ MarksTyped(M2) /\ Len(M2) <= Len(M)
      /\ \A d : d \in Cookies(M2) <=> d \in Cookies(M) /\ d # from
  <2>1. /\ MarksTyped(M2) /\ Len(M2) <= Len(M) /\ Cookies(M2) = Cookies(M) \ {from}
    BY UnmarkedKeeps DEF Moves
  <2> QED BY <2>1
<1>5. (\A x : x \in moved => x \in moved2) /\ (c \in Cookies(M) => L[from].internal \in moved2)
  BY DEF Moves
<1>12. \A d \in DOMAIN L : d # from => d # c /\ d \in DOMAIN L2 /\ L2[d] = L[d]
  BY <1>1
<1>13. c \in DOMAIN L2
  BY <1>1
<1>6. RolloutsOK(L2, S)
  <2>1. DOMAIN L2 \subseteq Cookie
    BY <1>1 DEF RolloutsOK
  <2>2. \A d \in DOMAIN L2 : \E e \in DOMAIN L : L2[d] = L[e] /\ e = (IF d = c THEN from ELSE d)
    BY <1>1
  <2>3. \A d \in DOMAIN L2 :
           /\ L2[d].attempts \in 0 .. Limit /\ L2[d].faulted \in BOOLEAN
           /\ L2[d].internal \in DOMAIN S => S[L2[d].internal].number <= L2[d].attempts
    <3> TAKE d \in DOMAIN L2
    <3>1. PICK e \in DOMAIN L : L2[d] = L[e]
      BY <2>2
    <3>2. /\ L[e].attempts \in 0 .. Limit /\ L[e].faulted \in BOOLEAN
          /\ L[e].internal \in DOMAIN S => S[L[e].internal].number <= L[e].attempts
      BY DEF RolloutsOK
    <3> QED BY <3>1, <3>2, Zenon
  <2>4. ASSUME NEW i \in DOMAIN S PROVE \E d \in DOMAIN L2 : L2[d].internal = i
    <3>1. PICK e \in DOMAIN L : L[e].internal = i
      BY DEF RolloutsOK
    <3>2. CASE e = from
      BY <1>1, <1>13, <3>1, <3>2
    <3>3. CASE e # from
      BY <1>12, <3>1, <3>3
    <3> QED BY <3>2, <3>3
  <2>5. ASSUME NEW d \in DOMAIN L2, NEW e \in DOMAIN L2, L2[d].internal = L2[e].internal
        PROVE  d = e
    <3>1. PICK x \in DOMAIN L : L2[d] = L[x] /\ x = (IF d = c THEN from ELSE d)
      BY <2>2
    <3>2. PICK y \in DOMAIN L : L2[e] = L[y] /\ y = (IF e = c THEN from ELSE e)
      BY <2>2
    <3>3. x = y
      BY <2>5, <3>1, <3>2 DEF RolloutsOK
    <3>4. (d # c => d # from) /\ (e # c => e # from)
      BY <1>1
    <3> QED BY <3>1, <3>2, <3>3, <3>4
  <2> QED BY <2>1, <2>3, <2>4, <2>5 DEF RolloutsOK
<1>7. AttemptsLeft(L2, S) /\ HeldOK(L2, S, gone)
  BY <1>1 DEF AttemptsLeft, Playable, HeldOK
<1>8. RepliesOK(R2, L2, M2)
  <2>1. ASSUME NEW d \in DOMAIN R2 PROVE d \in DOMAIN L2 \/ d \in Cookies(M2)
    BY <2>1, <1>1, <1>2, <1>4 DEF RepliesOK
  <2>2. \A d \in DOMAIN R2 : R2[d] \in Seq(Answers) /\ Len(R2[d]) \in 1 .. MaxReplies
    BY <1>2 DEF RepliesOK
  <2> QED BY <2>1, <2>2 DEF RepliesOK
<1>9. FaultsOK(F2, L2)
  BY <1>1, <1>3 DEF FaultsOK
<1>10. OwnReplies(L2, R2, M2, moved2)
  <2> SUFFICES ASSUME NEW d \in DOMAIN L2, L2[d].internal \notin moved2
               PROVE  /\ d \notin Cookies(M2)
                      /\ d \in DOMAIN R2 => \A r \in ToSet(R2[d]) : r.internal = L2[d].internal
    BY DEF OwnReplies
  <2>1. CASE d = c
    <3>1. c \notin Cookies(M) /\ L[from].internal \notin moved
      BY <1>1, <1>5, <2>1
    <3>2. c \notin DOMAIN R
      BY <3>1 DEF RepliesOK
    <3>3. from \in DOMAIN R => \A r \in ToSet(R[from]) : r.internal = L[from].internal
      BY <3>1 DEF OwnReplies
    <3> QED BY <1>1, <1>2, <1>4, <2>1, <3>1, <3>2, <3>3
  <2>2. CASE d # c
    <3>1. d \in DOMAIN L /\ L2[d] = L[d] /\ d # from /\ L[d].internal \notin moved
      BY <1>1, <1>5, <2>2
    <3>2. /\ d \notin Cookies(M)
          /\ d \in DOMAIN R => \A r \in ToSet(R[d]) : r.internal = L[d].internal
      BY <3>1 DEF OwnReplies
    <3>3. d \in DOMAIN R2 => d \in DOMAIN R /\ R2[d] = R[d]
      BY <1>2, <2>2
    <3> QED BY <1>4, <3>1, <3>2, <3>3
  <2> QED BY <2>1, <2>2
<1>11. CountsOK(L2, S, R2, tally, moved2, started)
  <2>1. ASSUME NEW d \in DOMAIN L2, NEW t \in DOMAIN tally,
               t[1] = L2[d].internal, Playable(L2, S, d), t[1] \notin moved2
        PROVE  d \in DOMAIN R2 /\ \E r \in ToSet(R2[d]) : r.id = t[2]
    <3>1. CASE d = c
      <4>1. from \in DOMAIN R /\ \E r \in ToSet(R[from]) : r.id = t[2]
        BY <1>1, <1>5, <2>1, <3>1 DEF CountsOK, Playable
      <4> QED BY <1>2, <3>1, <4>1
    <3>2. CASE d # c
      <4>2. d \in DOMAIN L /\ d # from /\ L2[d] = L[d] /\ t[1] \notin moved /\ Playable(L, S, d)
        BY <1>1, <1>5, <2>1, <3>2 DEF Playable
      <4>1. d \in DOMAIN R /\ d # from /\ \E r \in ToSet(R[d]) : r.id = t[2]
        BY <2>1, <4>2 DEF CountsOK
      <4> QED BY <1>2, <3>2, <4>1
    <3> QED BY <3>1, <3>2
  <2> QED BY <1>5, <2>1 DEF CountsOK
<1> QED BY <1>4, <1>6, <1>7, <1>8, <1>9, <1>10, <1>11

\* A retried reset: the entry's rollout is the one its cookie holds, and it
\* either stays there or moves to the cookie of the retry.
LEMMA ResetAgainKeeps ==
    ASSUME NInv, NEW c \in Cookie, NEW k \in Identity, ResetAgain(c, k)
    PROVE  NInv'
<1>1. PICK r \in Cached(k) :
        /\ r.cookie = c \/ c \notin DOMAIN Live
        /\ IF r.cookie = c
           THEN /\ state' = Live /\ stepCache' = Replies /\ closed' = Marks
                /\ faults' = Faults /\ resets' = resets
           ELSE /\ state' = MoveState(r.cookie, c)
                /\ stepCache' = MoveReplies(r.cookie, c)
                /\ closed' = Unmarked(Marks, {r.cookie})
                /\ faults' = IF r.cookie \in DOMAIN Faults
                             THEN Put(Without(Faults, {r.cookie}), c, Faults[r.cookie])
                             ELSE Faults
                /\ resets' = [j \in DOMAIN resets |->
                                IF resets[j] = r THEN [r EXCEPT !.cookie = c] ELSE resets[j]]
        /\ manager' = Reaped
        /\ reply' = ResetReply(c, k, r.internal)
        /\ onto' = IF r.cookie # c /\ c \in Cookies(Marks)
                   THEN onto \cup {Live[r.cookie].internal} ELSE onto
        /\ served' = served \cup {<<c, k>>}
        /\ UNCHANGED <<now, begun, counted, lapsed>>
  BY Zenon DEF ResetAgain
<1>2. /\ r \in ToSet(resets) /\ k # 0 /\ r.key = k /\ r.cookie \in DOMAIN Live
      /\ now' = now /\ begun' = begun /\ counted' = counted /\ lapsed' = lapsed
  BY <1>1 DEF Cached
<1>3. /\ now \in 0 .. MaxTime /\ begun \in 0 .. MaxInternal
      /\ onto \cup lapsed \subseteq 1 .. begun /\ served \subseteq Cookie \X Identity
      /\ HeldOK(Live, Reaped, lapsed)
      /\ SessionsOK(Reaped, begun, now) /\ RolloutsOK(Live, Reaped) /\ AttemptsLeft(Live, Reaped)
      /\ MarksTyped(Marks) /\ Len(Marks) <= MaxClosed /\ RepliesOK(Replies, Live, Marks)
      /\ FaultsOK(Faults, Live) /\ OwnReplies(Live, Replies, Marks, onto)
      /\ CountsOK(Live, Reaped, Replies, counted, onto, begun) /\ ResetsOK(resets, Live, served)
  BY PruneKeeps DEF NInv
<1>4. /\ resets \in Seq(EntryType) /\ Len(resets) <= MaxResets
      /\ \A e \in ToSet(resets) : <<e.cookie, e.key>> \in served
      /\ \A e, q \in ToSet(resets) : e.key = q.key => e = q
      /\ OneTask(served) =>
           \A e \in ToSet(resets) : e.cookie \in DOMAIN Live => Live[e.cookie].internal = e.internal
  BY <1>3, ResetsSay
<1>5. OneTask(served') => OneTask(served)
  BY <1>1 DEF OneTask
<1>6. CASE r.cookie = c
  <2>1. /\ state' = Live /\ stepCache' = Replies /\ closed' = Marks /\ faults' = Faults
        /\ resets' = resets /\ manager' = Reaped /\ onto' = onto
        /\ reply' = ResetReply(c, k, r.internal)
    BY <1>1, <1>6
  <2>2. served' = served
    BY <1>1, <1>2, <1>4, <1>6
  <2>3. c \in DOMAIN state' /\ (OneTask(served') => state'[c].internal = r.internal)
    BY <1>2, <1>4, <1>6, <2>1, <2>2
  <2>4. reply'.kind \in {"none", "reset", "moved"} /\ AnswersItsAction' /\ HandsOver'
    BY <2>1, <2>3, ResetAnswer
  <2> QED BY <1>2, <1>3, <2>1, <2>2, <2>4, Assembled
<1>7. CASE r.cookie # c
  <2> PICK from : from = r.cookie
    OBVIOUS
  <2> PICK L2 : L2 = state'
    OBVIOUS
  <2>1. Moves(from, c, Live, Replies, Marks, Faults, onto, L2, stepCache', closed', faults', onto')
    BY <1>1, <1>7 DEF MoveState, MoveReplies, Moves
  <2>2. /\ manager' = Reaped /\ reply' = ResetReply(c, k, r.internal)
        /\ resets' = EntriesMoved(resets, r, c)
        /\ from \in DOMAIN Live /\ c # from /\ c \notin DOMAIN Live
        /\ served' = served \cup {<<c, k>>}
    BY <1>1, <1>2, <1>7 DEF EntriesMoved, Readdressed
  <2>3. /\ RolloutsOK(state', Reaped) /\ HeldOK(state', Reaped, lapsed) /\ AttemptsLeft(state', Reaped)
        /\ MarksTyped(closed') /\ Len(closed') <= Len(Marks) /\ RepliesOK(stepCache', state', closed')
        /\ FaultsOK(faults', state') /\ OwnReplies(state', stepCache', closed', onto')
        /\ CountsOK(state', Reaped, stepCache', counted, onto', begun)
    <3>1. /\ TablesOK(Live, Reaped, Replies, Marks, Faults, lapsed, counted, onto, begun)
          /\ from \in DOMAIN Live /\ c # from /\ c \notin DOMAIN Live
      BY <1>3, <2>2 DEF TablesOK
    <3> PICK R2 : R2 = stepCache'
      OBVIOUS
    <3> PICK M2 : M2 = closed'
      OBVIOUS
    <3> PICK F2 : F2 = faults'
      OBVIOUS
    <3> PICK moved2 : moved2 = onto'
      OBVIOUS
    <3>2. c \in Cookie /\ Moves(from, c, Live, Replies, Marks, Faults, onto, L2, R2, M2, F2, moved2)
      BY <2>1
    <3>3. TablesOK(L2, Reaped, R2, M2, F2, lapsed, counted, moved2, begun) /\ Len(M2) <= Len(Marks)
      BY ONLY <3>1, <3>2, MoveKeeps
    <3> QED BY <3>3 DEF TablesOK
  <2>4. Len(closed') <= MaxClosed
    BY <1>3, <2>3, NemoLimits DEF MarksTyped
  <2>5. /\ \A d : d \in DOMAIN L2 <=> d = c \/ (d \in DOMAIN Live /\ d # from)
        /\ L2[c] = Live[from]
        /\ \A d \in DOMAIN L2 : d # c => L2[d] = Live[d]
    BY <2>1 DEF Moves, Put, Without, Restrict
  <2>6. OneTask(served') => Live[from].internal = r.internal
    BY <1>2, <1>4, <1>5
  <2>7. ResetsOK(resets', L2, served')
    <3> PICK q : q = Readdressed(r, c)
      OBVIOUS
    <3>1. r \in EntryType
      BY <1>2, <1>4, MembersOf
    <3>2. q.cookie = c /\ q.key = k /\ q.internal = r.internal
      BY <1>2, <3>1 DEF EntryType, Readdressed
    <3>3. /\ resets' \in Seq(EntryType) /\ Len(resets') = Len(resets)
          /\ \A e \in ToSet(resets') : e = q \/ (e \in ToSet(resets) /\ e # r)
      BY <1>2, <1>4, <2>2, EntryMoved
    <3>4. \A e \in ToSet(resets') : <<e.cookie, e.key>> \in served'
      BY <1>4, <2>2, <3>2, <3>3
    <3>5. \A e, f \in ToSet(resets') : e.key = f.key => e = f
      BY <1>2, <1>4, <3>2, <3>3
    <3>6. ASSUME OneTask(served'), NEW e \in ToSet(resets'), e.cookie \in DOMAIN L2
          PROVE  L2[e.cookie].internal = e.internal
      <4>1. CASE e = q
        BY <2>5, <2>6, <3>2, <3>6, <4>1
      <4>2. CASE e \in ToSet(resets) /\ e # r
        <5>1. e.cookie # c
          <6>1. SUFFICES ASSUME e.cookie = c PROVE FALSE
            OBVIOUS
          <6>2. <<c, e.key>> \in served' /\ <<c, k>> \in served'
            BY <1>4, <2>2, <4>2, <6>1
          <6>3. <<c, e.key>> = <<c, k>>
            BY <3>6, <6>2 DEF OneTask
          <6> QED BY <1>2, <1>4, <4>2, <6>3
        <5>2. e.cookie \in DOMAIN Live /\ L2[e.cookie] = Live[e.cookie]
          BY <2>5, <3>6, <5>1
        <5> QED BY <1>4, <1>5, <3>6, <4>2, <5>2
      <4> QED BY <3>3, <3>6, <4>1, <4>2
    <3>7. Len(resets') <= MaxResets
      BY <1>4, <3>3
    <3> QED BY <3>3, <3>4, <3>5, <3>6, <3>7, ResetsSay
  <2>8. reply'.kind \in {"none", "reset", "moved"} /\ AnswersItsAction' /\ HandsOver'
    <3>1. c \in DOMAIN state' /\ (OneTask(served') => state'[c].internal = r.internal)
      BY <2>5, <2>6
    <3> QED BY <2>2, <3>1, ResetAnswer
  <2>9. onto' \cup lapsed \subseteq 1 .. begun /\ served' \subseteq Cookie \X Identity
    <3>1. \A d \in DOMAIN Live : Live[d].internal \in 1 .. begun
      BY <1>3, PrunedTables DEF SessionsOK
    <3> QED BY <1>1, <1>3, <2>2, <3>1
  <2> QED BY <1>2, <1>3, <2>2, <2>3, <2>4, <2>7, <2>8, <2>9, Assembled
<1> QED BY <1>6, <1>7

\* A reset without a cached reply first drops what its cookie had.
LEMMA DropKeeps ==
    ASSUME NEW L, NEW R, NEW M, NEW F, NEW S, NEW c \in Cookie, NEW tally, NEW moved,
           NEW started \in Nat, NEW time, NEW gone,
           SessionsOK(S, started, time), RolloutsOK(L, S), HeldOK(L, S, gone),
           AttemptsLeft(L, S), MarksTyped(M),
           RepliesOK(R, L, M), FaultsOK(F, L), OwnReplies(L, R, M, moved),
           CountsOK(L, S, R, tally, moved, started),
           NEW O, O = IF c \in DOMAIN L THEN Without(S, {L[c].internal}) ELSE S
    PROVE  /\ SessionsOK(O, started, time) /\ RolloutsOK(Without(L, {c}), O)
           /\ HeldOK(Without(L, {c}), O, gone) /\ AttemptsLeft(Without(L, {c}), O)
           /\ MarksTyped(Unmarked(M, {c})) /\ Len(Unmarked(M, {c})) <= Len(M)
           /\ RepliesOK(Without(R, {c}), Without(L, {c}), Unmarked(M, {c}))
           /\ FaultsOK(Without(F, {c}), Without(L, {c}))
           /\ OwnReplies(Without(L, {c}), Without(R, {c}), Unmarked(M, {c}), moved)
           /\ CountsOK(Without(L, {c}), O, Without(R, {c}), tally, moved, started)
           /\ c \notin Cookies(Unmarked(M, {c}))
<1> PICK L2 : L2 = Without(L, {c})
  OBVIOUS
<1> PICK R2 : R2 = Without(R, {c})
  OBVIOUS
<1> PICK F2 : F2 = Without(F, {c})
  OBVIOUS
<1> PICK M2 : M2 = Unmarked(M, {c})
  OBVIOUS
<1>1. (\A d : d \in DOMAIN L2 <=> d \in DOMAIN L /\ d # c) /\ \A d \in DOMAIN L2 : L2[d] = L[d]
  BY DEF Without, Restrict
<1>2. (\A d : d \in DOMAIN R2 <=> d \in DOMAIN R /\ d # c) /\ \A d \in DOMAIN R2 : R2[d] = R[d]
  BY DEF Without, Restrict
<1>3. \A d : d \in DOMAIN F2 => d \in DOMAIN F /\ d # c
  BY DEF Without, Restrict
<1>4. /\ MarksTyped(M2) /\ Len(M2) <= Len(M)
      /\ \A d : d \in Cookies(M2) <=> d \in Cookies(M) /\ d # c
  <2>1. MarksTyped(M2) /\ Len(M2) <= Len(M) /\ Cookies(M2) = Cookies(M) \ {c}
    BY UnmarkedKeeps
  <2> QED BY <2>1
<1>5. /\ \A i : i \in DOMAIN O <=> i \in DOMAIN S /\ (c \in DOMAIN L => i # L[c].internal)
      /\ \A i \in DOMAIN O : O[i] = S[i]
  <2>1. CASE c \in DOMAIN L
    BY <2>1 DEF Without, Restrict
  <2>2. CASE c \notin DOMAIN L
    BY <2>2
  <2> QED BY <2>1, <2>2
<1>6. SessionsOK(O, started, time)
  BY <1>5, SessionsShrink
<1>7. RolloutsOK(L2, O)
  <2>1. RolloutsOK(L, S)
    OBVIOUS
  <2> QED BY ONLY <1>1, <1>5, <2>1 DEF RolloutsOK
<1>12. HeldOK(L2, O, gone)
  <2>1. ASSUME NEW d \in DOMAIN L2 PROVE L2[d].internal \in DOMAIN O \cup gone
    <3>1. d \in DOMAIN L /\ d # c /\ L2[d] = L[d] /\ L[d].internal \in DOMAIN S \cup gone
      BY <1>1 DEF HeldOK
    <3>2. c \in DOMAIN L => L[d].internal # L[c].internal
      BY <3>1 DEF RolloutsOK
    <3> QED BY <1>5, <3>1, <3>2
  <2> QED BY <2>1 DEF HeldOK
<1>13. AttemptsLeft(L2, O)
  <2>1. ASSUME NEW d \in DOMAIN L2, Playable(L2, O, d) PROVE L2[d].attempts < Limit
    <3>1. d \in DOMAIN L /\ L2[d] = L[d] /\ Playable(L, S, d)
      BY <1>1, <1>5, <2>1 DEF Playable
    <3> QED BY <3>1 DEF AttemptsLeft
  <2> QED BY <2>1 DEF AttemptsLeft
<1>8. RepliesOK(R2, L2, M2)
  BY <1>1, <1>2, <1>4 DEF RepliesOK
<1>9. FaultsOK(F2, L2)
  BY <1>1, <1>3 DEF FaultsOK
<1>10. OwnReplies(L2, R2, M2, moved)
  <2>1. ASSUME NEW d \in DOMAIN L2, L2[d].internal \notin moved
        PROVE  /\ d \notin Cookies(M2)
               /\ d \in DOMAIN R2 => \A r \in ToSet(R2[d]) : r.internal = L2[d].internal
    <3>1. d \in DOMAIN L /\ L2[d] = L[d] /\ L[d].internal \notin moved
      BY <1>1, <2>1
    <3>2. /\ d \notin Cookies(M)
          /\ d \in DOMAIN R => \A r \in ToSet(R[d]) : r.internal = L[d].internal
      BY <3>1 DEF OwnReplies
    <3> QED BY <1>2, <1>4, <3>1, <3>2
  <2> QED BY <2>1 DEF OwnReplies
<1>11. CountsOK(L2, O, R2, tally, moved, started)
  <2>1. ASSUME NEW d \in DOMAIN L2, NEW t \in DOMAIN tally,
               t[1] = L2[d].internal, Playable(L2, O, d), t[1] \notin moved
        PROVE  d \in DOMAIN R2 /\ \E r \in ToSet(R2[d]) : r.id = t[2]
    <3>1. d \in DOMAIN L /\ L2[d] = L[d] /\ d # c /\ Playable(L, S, d)
      BY <1>1, <1>5, <2>1 DEF Playable
    <3>2. d \in DOMAIN R /\ \E r \in ToSet(R[d]) : r.id = t[2]
      BY <2>1, <3>1 DEF CountsOK
    <3> QED BY <1>2, <3>1, <3>2
  <2> QED BY <2>1 DEF CountsOK
<1> QED BY <1>4, <1>6, <1>7, <1>8, <1>9, <1>10, <1>11, <1>12, <1>13

\* Fewer entries, fewer rollouts, more tasks served.
LEMMA FewerEntries ==
    ASSUME NEW entries, NEW L, NEW tasks, ResetsOK(entries, L, tasks),
           NEW fewer \in Seq(EntryType), ToSet(fewer) \subseteq ToSet(entries),
           Len(fewer) <= MaxResets,
           NEW L2, \A d \in DOMAIN L2 : d \in DOMAIN L /\ L2[d] = L[d],
           NEW more, tasks \subseteq more
    PROVE  ResetsOK(fewer, L2, more)
<1>1. OneTask(more) => OneTask(tasks)
  BY DEF OneTask
<1>2. /\ \A r \in ToSet(fewer) : <<r.cookie, r.key>> \in more
      /\ \A r, q \in ToSet(fewer) : r.key = q.key => r = q
  BY ResetsSay
<1>3. OneTask(more) =>
        \A r \in ToSet(fewer) : r.cookie \in DOMAIN L2 => L2[r.cookie].internal = r.internal
  BY <1>1, ResetsSay
<1> QED BY <1>2, <1>3, ResetsSay

LEMMA OthersAre ==
    ASSUME resets \in Seq(EntryType), Len(resets) <= MaxResets, NEW k
    PROVE  /\ OtherResets(k) \in Seq(EntryType)
           /\ \A r : r \in ToSet(OtherResets(k)) <=> r \in ToSet(resets) /\ r.key # k
           /\ Len(OtherResets(k)) <= MaxResets
<1> PICK T : T = EntryType
  OBVIOUS
<1> PICK keep : keep = {r \in ToSet(resets) : r.key # k}
  OBVIOUS
<1>1. resets \in Seq(T)
  OBVIOUS
<1>2. /\ Only(resets, keep) \in Seq(T) /\ ToSet(Only(resets, keep)) = ToSet(resets) \cap keep
      /\ Len(Only(resets, keep)) <= Len(resets)
  BY <1>1, OnlyKeeps
<1>3. OtherResets(k) = Only(resets, keep)
  BY DEF OtherResets
<1>4. Len(OtherResets(k)) <= MaxResets
  BY <1>1, <1>2, <1>3, NemoLimits
<1> QED BY <1>2, <1>3, <1>4

\* Rollouts that begin leave the counts alone.
LEMMA CountsGrow ==
    ASSUME NEW L, NEW S, NEW R, NEW tally, NEW moved, NEW started \in Nat, NEW later \in Nat,
           started <= later, CountsOK(L, S, R, tally, moved, started)
    PROVE  CountsOK(L, S, R, tally, moved, later)
<1>1. \A t \in DOMAIN tally : t[1] \in 1 .. later /\ t[2] # 0 /\ (tally[t] = 1 \/ t[1] \in moved)
  BY DEF CountsOK
<1>2. \A c \in DOMAIN L, t \in DOMAIN tally :
        (t[1] = L[c].internal /\ Playable(L, S, c) /\ t[1] \notin moved) =>
            c \in DOMAIN R /\ \E r \in ToSet(R[c]) : r.id = t[2]
  BY Zenon DEF CountsOK
<1> QED BY <1>1, <1>2, Zenon DEF CountsOK

\* The clock goes on after the pruning: what the manager then reaps as well has
\* lapsed, and its cookies keep what pruning left them.
LEMMA GoOnKeeps ==
    ASSUME NInv, GoOn, NEW T, T = ReapedAt(now')
    PROVE  /\ now' \in 0 .. MaxTime /\ now' \in Nat
           /\ DOMAIN T \subseteq DOMAIN Reaped /\ \A i \in DOMAIN T : T[i] = Reaped[i]
           /\ SessionsOK(T, begun, now') /\ RolloutsOK(Live, T) /\ HeldOK(Live, T, lapsed')
           /\ AttemptsLeft(Live, T) /\ CountsOK(Live, T, Replies, counted, onto, begun)
           /\ onto \cup lapsed' \subseteq 1 .. begun
           /\ \A d \in DOMAIN Live : Live[d].internal \in 1 .. begun
<1> USE NemoLimits
<1>1. /\ now \in 0 .. MaxTime /\ now \in Nat /\ begun \in Nat
      /\ onto \cup lapsed \subseteq 1 .. begun /\ SessionsOK(manager, begun, now)
      /\ SessionsOK(Reaped, begun, now) /\ RolloutsOK(Live, Reaped)
      /\ AttemptsLeft(Live, Reaped) /\ CountsOK(Live, Reaped, Replies, counted, onto, begun)
  BY PruneKeeps DEF NInv
<1> PICK later : later = now'
  OBVIOUS
<1>2. /\ later \in 0 .. MaxTime /\ later \in Nat /\ now <= later
      /\ lapsed' = lapsed \cup (DOMAIN Reaped \ DOMAIN T)
  BY <1>1 DEF GoOn
<1>3. /\ \A i : i \in DOMAIN T <=> i \in DOMAIN manager /\ later - manager[i].used <= SessionTTL
      /\ \A i : i \in DOMAIN Reaped <=> i \in DOMAIN manager /\ now - manager[i].used <= SessionTTL
      /\ \A i \in DOMAIN T : T[i] = manager[i]
      /\ \A i \in DOMAIN Reaped : Reaped[i] = manager[i]
  BY DEF ReapedAt, Reaped, Restrict
<1>4. \A i \in DOMAIN manager : manager[i].used \in 0 .. now
  BY <1>1 DEF SessionsOK
<1>5. DOMAIN T \subseteq DOMAIN Reaped /\ \A i \in DOMAIN T : T[i] = Reaped[i]
  <2>1. ASSUME NEW i \in DOMAIN T PROVE i \in DOMAIN Reaped /\ T[i] = Reaped[i]
    <3>1. /\ i \in DOMAIN manager /\ later - manager[i].used <= SessionTTL
          /\ manager[i].used \in 0 .. now
      BY <1>3, <1>4
    <3>2. now - manager[i].used <= SessionTTL
      BY <1>1, <1>2, <3>1
    <3> QED BY <1>3, <3>1, <3>2
  <2> QED BY <2>1
<1>6. SessionsOK(T, begun, later)
  <2>1. SessionsOK(T, begun, now)
    BY <1>1, <1>5, SessionsShrink
  <2> QED BY <1>1, <1>2, <2>1 DEF SessionsOK
<1>7. RolloutsOK(Live, T) /\ AttemptsLeft(Live, T)
  BY <1>1, <1>5 DEF RolloutsOK, AttemptsLeft, Playable
<1>8. HeldOK(Live, T, lapsed')
  BY <1>2, PrunedTables DEF HeldOK
<1>9. CountsOK(Live, T, Replies, counted, onto, begun)
  <2>1. ASSUME NEW c \in DOMAIN Live, NEW t \in DOMAIN counted,
               t[1] = Live[c].internal, Playable(Live, T, c), t[1] \notin onto
        PROVE  c \in DOMAIN Replies /\ \E r \in ToSet(Replies[c]) : r.id = t[2]
    <3>1. Playable(Live, Reaped, c)
      BY <1>5, <2>1 DEF Playable
    <3> QED BY <1>1, <2>1, <3>1 DEF CountsOK
  <2> QED BY <1>1, <2>1 DEF CountsOK
<1>10. DOMAIN Reaped \subseteq 1 .. begun
  BY <1>1 DEF SessionsOK
<1>11. \A d \in DOMAIN Live : Live[d].internal \in 1 .. begun
  BY <1>10, PrunedTables
<1>12. onto \cup lapsed' \subseteq 1 .. begun
  BY <1>1, <1>2, <1>10
<1> QED BY <1>2, <1>5, <1>6, <1>7, <1>8, <1>9, <1>11, <1>12

\* A new rollout on the tables without the old one.
LEMMA ResetFreshKeeps ==
    ASSUME NInv, NEW c \in Cookie, NEW k \in Identity, NEW rep, NEW fits, ResetFresh(c, k, rep, fits)
    PROVE  NInv'
<1> USE NemoLimits
<1> PICK O : O = OthersSessions(c)
  OBVIOUS
<1> PICK first : first = Render(NewPresenter(rep), Observation(begun + 1, 0), fits)
  OBVIOUS
<1>1. /\ Cardinality(DOMAIN O) < MaxSessions => begun < MaxInternal
      /\ closed' = Unmarked(Marks, {c}) /\ stepCache' = Without(Replies, {c})
      /\ faults' = Without(Faults, {c}) /\ served' = served \cup {<<c, k>>}
      /\ GoOn /\ counted' = counted /\ onto' = onto
  BY DEF ResetFresh
<1>2. \/ /\ Cardinality(DOMAIN O) < MaxSessions
         /\ begun' = begun + 1
         /\ manager' = Put(O, begun + 1, [used |-> now', number |-> 0])
         /\ state' = Put(Live, c, [internal |-> begun + 1, attempts |-> 0, faulted |-> FALSE,
                                   presenter |-> first.presenter])
         /\ resets' = IF k = 0 THEN resets
                      ELSE Newest(Append(OtherResets(k),
                                         [key |-> k, cookie |-> c, internal |-> begun + 1]),
                                  MaxResets)
         /\ reply' = ResetReply(c, k, begun + 1)
      \/ /\ begun' = IF Cardinality(DOMAIN O) < MaxSessions THEN begun + 1 ELSE begun
         /\ manager' = O /\ state' = Without(Live, {c}) /\ resets' = OtherResets(k)
         /\ reply' = NoReply
  BY DEF ResetFresh
<1> PICK T : T = ReapedAt(now')
  OBVIOUS
<1> PICK time : time = now'
  OBVIOUS
<1> PICK gone : gone = lapsed'
  OBVIOUS
<1>3. /\ begun \in 0 .. MaxInternal /\ begun \in Nat /\ served \subseteq Cookie \X Identity
      /\ MarksTyped(Marks) /\ Len(Marks) <= MaxClosed /\ RepliesOK(Replies, Live, Marks)
      /\ FaultsOK(Faults, Live) /\ OwnReplies(Live, Replies, Marks, onto)
      /\ ResetsOK(resets, Live, served)
  BY PruneKeeps DEF NInv
<1>12. /\ time \in 0 .. MaxTime /\ time \in Nat
       /\ SessionsOK(T, begun, time) /\ RolloutsOK(Live, T) /\ HeldOK(Live, T, gone)
       /\ AttemptsLeft(Live, T) /\ CountsOK(Live, T, Replies, counted, onto, begun)
       /\ onto \cup gone \subseteq 1 .. begun
       /\ \A d \in DOMAIN Live : Live[d].internal \in 1 .. begun
  BY <1>1, GoOnKeeps
<1> PICK L1 : L1 = Without(Live, {c})
  OBVIOUS
<1>4. O = IF c \in DOMAIN Live THEN Without(T, {Live[c].internal}) ELSE T
  BY DEF OthersSessions
<1>5. /\ SessionsOK(O, begun, time) /\ RolloutsOK(L1, O)
      /\ HeldOK(L1, O, gone) /\ AttemptsLeft(L1, O)
      /\ MarksTyped(closed') /\ Len(closed') <= Len(Marks)
      /\ RepliesOK(stepCache', L1, closed') /\ FaultsOK(faults', L1)
      /\ OwnReplies(L1, stepCache', closed', onto)
      /\ CountsOK(L1, O, stepCache', counted, onto, begun)
      /\ c \notin Cookies(closed')
  BY <1>1, <1>3, <1>4, <1>12, DropKeeps
<1>6. Len(closed') <= MaxClosed
  BY <1>3, <1>5 DEF MarksTyped
<1>7. /\ \A d : d \in DOMAIN L1 <=> d \in DOMAIN Live /\ d # c
      /\ \A d \in DOMAIN L1 : L1[d] = Live[d] /\ L1[d].internal \in 1 .. begun
      /\ c \notin DOMAIN stepCache'
  BY <1>1, <1>12 DEF Without, Restrict
<1>8. /\ resets \in Seq(EntryType) /\ Len(resets) <= MaxResets
      /\ \A e \in ToSet(resets) : <<e.cookie, e.key>> \in served
      /\ \A e, q \in ToSet(resets) : e.key = q.key => e = q
      /\ OneTask(served) =>
           \A e \in ToSet(resets) : e.cookie \in DOMAIN Live => Live[e.cookie].internal = e.internal
  BY <1>3, ResetsSay
<1>9. /\ OtherResets(k) \in Seq(EntryType) /\ Len(OtherResets(k)) <= MaxResets
      /\ \A r : r \in ToSet(OtherResets(k)) <=> r \in ToSet(resets) /\ r.key # k
  BY <1>8, OthersAre
<1>10. CASE /\ begun' = IF Cardinality(DOMAIN O) < MaxSessions THEN begun + 1 ELSE begun
            /\ manager' = O /\ state' = Without(Live, {c}) /\ resets' = OtherResets(k)
            /\ reply' = NoReply
  <2>1. begun' \in 0 .. MaxInternal /\ begun <= begun' /\ begun' \in Nat
    BY <1>1, <1>3, <1>10
  <2>2. SessionsOK(manager', begun', time)
    BY <1>3, <1>5, <1>10, <2>1 DEF SessionsOK
  <2>3. CountsOK(state', manager', stepCache', counted', onto', begun')
    <3>1. CountsOK(L1, O, stepCache', counted, onto, begun')
      BY <1>3, <1>5, <2>1, CountsGrow
    <3> QED BY <1>1, <1>10, <3>1
  <2>4. ResetsOK(resets', L1, served')
    <3>1. ToSet(OtherResets(k)) \subseteq ToSet(resets) /\ served \subseteq served'
      BY <1>1, <1>9
    <3>2. \A d \in DOMAIN L1 : d \in DOMAIN Live /\ L1[d] = Live[d]
      BY <1>7
    <3>3. ResetsOK(OtherResets(k), L1, served')
      BY <1>3, <1>9, <3>1, <3>2, FewerEntries
    <3> QED BY <1>10, <3>3
  <2>5. /\ RolloutsOK(state', manager') /\ HeldOK(state', manager', gone)
        /\ AttemptsLeft(state', manager') /\ RepliesOK(stepCache', state', closed')
        /\ FaultsOK(faults', state') /\ OwnReplies(state', stepCache', closed', onto')
    BY <1>1, <1>5, <1>10
  <2>6. onto' \cup gone \subseteq 1 .. begun' /\ served' \subseteq Cookie \X Identity
    <3>1. \A x \in 1 .. begun : x \in 1 .. begun'
      BY <1>3, <2>1
    <3> QED BY <1>1, <1>3, <1>12, <3>1
  <2>7. MarksTyped(closed') /\ ResetsOK(resets', state', served')
    BY <1>5, <1>10, <2>4
  <2>8. reply' = NoReply
    BY <1>10
  <2> QED BY <1>6, <1>12, <2>1, <2>2, <2>3, <2>5, <2>6, <2>7, <2>8, SilentReply, Assembled
<1>11. CASE /\ Cardinality(DOMAIN O) < MaxSessions
            /\ begun' = begun + 1
            /\ manager' = Put(O, begun + 1, [used |-> now', number |-> 0])
            /\ state' = Put(Live, c, [internal |-> begun + 1, attempts |-> 0, faulted |-> FALSE,
                                      presenter |-> first.presenter])
            /\ resets' = IF k = 0 THEN resets
                         ELSE Newest(Append(OtherResets(k),
                                            [key |-> k, cookie |-> c, internal |-> begun + 1]),
                                     MaxResets)
            /\ reply' = ResetReply(c, k, begun + 1)
  <2> PICK i : i = begun + 1
    OBVIOUS
  <2> PICK L2 : L2 = state'
    OBVIOUS
  <2> PICK N : N = manager'
    OBVIOUS
  <2>1. i \in 1 .. MaxInternal /\ i \in Nat /\ begun < i /\ begun' = i
    BY <1>1, <1>3, <1>11
  <2>2. /\ \A d : d \in DOMAIN L2 <=> d \in DOMAIN L1 \/ d = c
        /\ \A d \in DOMAIN L1 : L2[d] = L1[d]
        /\ L2[c].internal = i /\ L2[c].attempts = 0
        /\ L2[c].faulted \in BOOLEAN /\ ~L2[c].faulted
    BY <1>7, <1>11 DEF Put
  <2>3. /\ DOMAIN N = DOMAIN O \cup {i}
        /\ \A j \in DOMAIN O : j # i /\ N[j] = O[j]
        /\ N[i].used = time /\ N[i].number = 0
    <3>1. \A j \in DOMAIN O : j # i
      BY <1>3, <1>5, <2>1 DEF SessionsOK
    <3> QED BY <1>11, <3>1 DEF Put
  <2>4. SessionsOK(N, i, time)
    <3>1. IsFiniteSet(DOMAIN O)
      <4>1. IsFiniteSet(1 .. begun)
        BY <1>3, FS_Interval
      <4>2. DOMAIN O \subseteq 1 .. begun
        BY <1>5 DEF SessionsOK
      <4> QED BY <4>1, <4>2, FS_Subset
    <3>2. Cardinality(DOMAIN N) <= MaxSessions
      <4>1. Cardinality(DOMAIN N) = Cardinality(DOMAIN O) + 1 /\ Cardinality(DOMAIN O) \in Nat
        <5>1. DOMAIN N = DOMAIN O \cup {i} /\ i \notin DOMAIN O
          BY <2>3
        <5>2. Cardinality(DOMAIN O \cup {i}) = Cardinality(DOMAIN O) + 1
          BY <3>1, <5>1, FS_AddElement, Zenon
        <5>3. Cardinality(DOMAIN O) \in Nat
          BY <3>1, FS_CardinalityType, Zenon
        <5> QED BY <5>1, <5>2, <5>3, Zenon
      <4> QED BY <1>11, <4>1
    <3>3. DOMAIN N \subseteq 1 .. i
      BY <1>3, <1>5, <2>1, <2>3, SMTT(20) DEF SessionsOK
    <3>4. \A j \in DOMAIN N : N[j].used \in 0 .. time /\ N[j].number \in 0 .. Limit
      BY <1>5, <1>12, <2>3, SMTT(20) DEF SessionsOK
    <3> QED BY <3>2, <3>3, <3>4 DEF SessionsOK
  <2>14. \A x \in DOMAIN L1 : L1[x].internal # i
    <3>1. ASSUME NEW j \in 1 .. begun PROVE j # i
      BY <1>3, <2>1
    <3> QED BY <1>7, <3>1, Zenon
  <2>15. HeldOK(L2, N, gone)
    <3>1. ASSUME NEW d \in DOMAIN L2 PROVE L2[d].internal \in DOMAIN N \cup gone
      <4>1. CASE d = c
        BY <2>2, <2>3, <4>1
      <4>2. CASE d # c
        <5>1. d \in DOMAIN L1 /\ L2[d] = L1[d]
          BY <2>2, <4>2
        <5> QED BY <1>5, <2>3, <5>1 DEF HeldOK
      <4> QED BY <4>1, <4>2
    <3> QED BY <3>1 DEF HeldOK
  <2>5. RolloutsOK(L2, N)
    <3>1. DOMAIN L2 \subseteq Cookie
      BY <1>5, <2>2 DEF RolloutsOK
    <3>2. ASSUME NEW d \in DOMAIN L2
          PROVE  /\ L2[d].attempts \in 0 .. Limit /\ L2[d].faulted \in BOOLEAN
                 /\ L2[d].internal \in DOMAIN N =>
                       N[L2[d].internal].number <= L2[d].attempts
      <4>1. CASE d = c
        BY <1>3, <2>2, <2>3, <4>1
      <4>2. CASE d # c
        <5>1. d \in DOMAIN L1 /\ L2[d] = L1[d]
          BY <2>2, <4>2
        <5>2. /\ L1[d].attempts \in 0 .. Limit /\ L1[d].faulted \in BOOLEAN
              /\ L1[d].internal \in DOMAIN O => O[L1[d].internal].number <= L1[d].attempts
          BY <1>5, <5>1 DEF RolloutsOK
        <5>3. L1[d].internal \in DOMAIN N =>
                 L1[d].internal \in DOMAIN O /\ N[L1[d].internal] = O[L1[d].internal]
          BY <2>3, <2>14, <5>1
        <5> QED BY <5>1, <5>2, <5>3, Zenon
      <4> QED BY <4>1, <4>2
    <3>3. ASSUME NEW j \in DOMAIN N PROVE \E d \in DOMAIN L2 : L2[d].internal = j
      <4>1. CASE j = i
        BY <2>2, <4>1
      <4>2. CASE j # i
        <5>1. j \in DOMAIN O
          BY <2>3, <4>2
        <5>2. PICK d \in DOMAIN L1 : L1[d].internal = j
          BY <1>5, <5>1 DEF RolloutsOK
        <5> QED BY <2>2, <5>2
      <4> QED BY <4>1, <4>2
    <3>4. ASSUME NEW d \in DOMAIN L2, NEW e \in DOMAIN L2, L2[d].internal = L2[e].internal
          PROVE  d = e
      <4>1. \A x \in DOMAIN L1 : L1[x].internal # i
        BY <2>14
      <4>2. \A x, y \in DOMAIN L1 : L1[x].internal = L1[y].internal => x = y
        BY <1>5 DEF RolloutsOK
      <4>3. (d = c \/ (d \in DOMAIN L1 /\ L2[d] = L1[d])) /\ (e = c \/ (e \in DOMAIN L1 /\ L2[e] = L1[e]))
        BY <2>2
      <4>4. d = c => e = c
        BY <2>2, <3>4, <4>1, <4>3
      <4>5. e = c => d = c
        BY <2>2, <3>4, <4>1, <4>3
      <4> QED BY <3>4, <4>2, <4>3, <4>4, <4>5
    <3> QED BY <3>1, <3>2, <3>3, <3>4 DEF RolloutsOK
  <2>6. AttemptsLeft(L2, N)
    <3>1. ASSUME NEW d \in DOMAIN L2, Playable(L2, N, d) PROVE L2[d].attempts < Limit
      <4>1. CASE d = c
        BY <2>2, <4>1
      <4>2. CASE d # c
        <5>1. d \in DOMAIN L1 /\ L2[d] = L1[d]
          BY <2>2, <4>2
        <5>2. Playable(L1, O, d)
          BY <2>3, <2>14, <3>1, <5>1 DEF Playable
        <5> QED BY <1>5, <5>1, <5>2 DEF AttemptsLeft
      <4> QED BY <4>1, <4>2
    <3> QED BY <3>1 DEF AttemptsLeft
  <2>7. RepliesOK(stepCache', L2, closed')
    BY <1>5, <2>2 DEF RepliesOK
  <2>8. FaultsOK(faults', L2)
    BY <1>5, <1>7, <2>2 DEF FaultsOK
  <2>9. OwnReplies(L2, stepCache', closed', onto')
    <3>1. ASSUME NEW d \in DOMAIN L2, L2[d].internal \notin onto
          PROVE  /\ d \notin Cookies(closed')
                 /\ d \in DOMAIN stepCache' =>
                      \A r \in ToSet(stepCache'[d]) : r.internal = L2[d].internal
      <4>1. CASE d = c
        BY <1>5, <1>7, <4>1
      <4>2. CASE d # c
        <5>1. d \in DOMAIN L1 /\ L2[d] = L1[d]
          BY <2>2, <4>2
        <5> QED BY <1>5, <3>1, <5>1 DEF OwnReplies
      <4> QED BY <4>1, <4>2
    <3> QED BY <1>1, <3>1 DEF OwnReplies
  <2>10. CountsOK(L2, N, stepCache', counted', onto', i)
    <3>1. ASSUME NEW d \in DOMAIN L2, NEW t \in DOMAIN counted,
                 t[1] = L2[d].internal, Playable(L2, N, d), t[1] \notin onto
          PROVE  d \in DOMAIN stepCache' /\ \E r \in ToSet(stepCache'[d]) : r.id = t[2]
      <4>1. t[1] \in 1 .. begun
        BY <1>5 DEF CountsOK
      <4>2. d # c
        BY <1>3, <2>1, <2>2, <3>1, <4>1
      <4>3. d \in DOMAIN L1 /\ L2[d] = L1[d]
        BY <2>2, <4>2
      <4>4. Playable(L1, O, d)
        BY <2>3, <2>14, <3>1, <4>3 DEF Playable
      <4> QED BY <1>5, <3>1, <4>3, <4>4 DEF CountsOK
    <3>2. \A t \in DOMAIN counted : t[1] \in 1 .. i /\ t[2] # 0 /\ (counted[t] = 1 \/ t[1] \in onto)
      BY <1>3, <1>5, <2>1, SMTT(20) DEF CountsOK
    <3> QED BY <1>1, <3>1, <3>2 DEF CountsOK
  <2>11. ResetsOK(resets', L2, served')
    <3> PICK new : new = [key |-> k, cookie |-> c, internal |-> i]
      OBVIOUS
    <3>1. /\ resets' \in Seq(EntryType) /\ Len(resets') <= MaxResets
          /\ \A e \in ToSet(resets') : \/ e = new /\ k # 0
                                       \/ e \in ToSet(resets) /\ e.key # k
      <4>1. CASE k = 0
        <5>1. \A e \in ToSet(resets) : e.key # 0
          <6>1. ToSet(resets) \subseteq EntryType
            BY <1>8, MembersOf
          <6> QED BY <6>1 DEF EntryType
        <5> QED BY <1>8, <1>11, <4>1, <5>1
      <4>2. CASE k # 0
        <5> PICK Entries : Entries = EntryType
          OBVIOUS
        <5> PICK q : q = OtherResets(k)
          OBVIOUS
        <5>1. new \in Entries
          BY <2>1, <4>2 DEF EntryType
        <5>2. q \in Seq(Entries)
          BY <1>9
        <5>3. Append(q, new) \in Seq(Entries)
          BY <5>1, <5>2
        <5>4. ToSet(Append(q, new)) = ToSet(q) \cup {new}
          BY ONLY <5>1, <5>2, AppendAdds
        <5>5. resets' = Newest(Append(q, new), MaxResets)
          BY <1>11, <4>2
        <5> PICK s : s = Append(q, new)
          OBVIOUS
        <5>6. /\ Newest(s, MaxResets) \in Seq(Entries)
              /\ ToSet(Newest(s, MaxResets)) \subseteq ToSet(s)
              /\ Len(Newest(s, MaxResets)) <= MaxResets
          <6>1. s \in Seq(Entries) /\ MaxResets \in Nat
            BY <5>3
          <6> QED BY ONLY <6>1, NewestKeeps
        <5>7. /\ resets' \in Seq(EntryType) /\ Len(resets') <= MaxResets
              /\ ToSet(resets') \subseteq ToSet(q) \cup {new}
          BY <5>4, <5>5, <5>6
        <5> QED BY <1>9, <4>2, <5>7
      <4> QED BY <4>1, <4>2
    <3>2. \A e \in ToSet(resets') : <<e.cookie, e.key>> \in served'
      <4>1. \A e \in ToSet(resets) : <<e.cookie, e.key>> \in served'
        BY <1>1, <1>8
      <4>2. <<new.cookie, new.key>> \in served'
        BY <1>1
      <4> QED BY <3>1, <4>1, <4>2
    <3>3. \A e, q \in ToSet(resets') : e.key = q.key => e = q
      BY <1>8, <3>1
    <3>4. ASSUME OneTask(served'), NEW e \in ToSet(resets'), e.cookie \in DOMAIN L2
          PROVE  L2[e.cookie].internal = e.internal
      <4>1. CASE e = new
        BY <2>2, <4>1
      <4>2. CASE e \in ToSet(resets) /\ e.key # k
        <5>1. e.cookie # c
          <6>1. SUFFICES ASSUME e.cookie = c PROVE FALSE
            OBVIOUS
          <6>2. <<c, e.key>> \in served' /\ <<c, k>> \in served'
            BY <1>1, <1>8, <4>2, <6>1
          <6>3. <<c, e.key>> = <<c, k>>
            BY <3>4, <6>2 DEF OneTask
          <6> QED BY <4>2, <6>3
        <5>2. e.cookie \in DOMAIN Live /\ L2[e.cookie] = Live[e.cookie]
          BY <1>7, <2>2, <3>4, <5>1
        <5>3. OneTask(served)
          BY <1>1, <3>4 DEF OneTask
        <5> QED BY <1>8, <4>2, <5>2, <5>3
      <4> QED BY <3>1, <3>4, <4>1, <4>2
    <3> QED BY <3>1, <3>2, <3>3, <3>4, ResetsSay
  <2>12. reply'.kind \in {"none", "reset", "moved"} /\ AnswersItsAction' /\ HandsOver'
    <3>1. c \in DOMAIN state' /\ (OneTask(served') => state'[c].internal = i)
      BY <2>2
    <3>2. reply' = ResetReply(c, k, i)
      BY <1>11
    <3> QED BY <3>1, <3>2, ResetAnswer
  <2>13. begun' \in 0 .. MaxInternal
    BY <2>1
  <2>16. onto' \cup gone \subseteq 1 .. i /\ served' \subseteq Cookie \X Identity
    <3>1. \A x \in 1 .. begun : x \in 1 .. i
      BY <1>3, <2>1
    <3> QED BY <1>1, <1>3, <1>12, <3>1
  <2> QED BY <1>5, <1>6, <1>12, <2>1, <2>4, <2>5, <2>6, <2>7, <2>8, <2>9, <2>10, <2>11,
             <2>12, <2>13, <2>15, <2>16, Assembled
<1> QED BY <1>2, <1>10, <1>11

-----------------------------------------------------------------------------
(* step                                                                    *)

LEMMA NoneIsNoPair == \A x, y : <<x, y>> # None
BY DEF None

\* A repeated request puts the mark of its cookie at the young end.
LEMMA TouchedKeeps ==
    ASSUME MarksTyped(Marks), NEW c, now \in Nat
    PROVE  /\ MarksTyped(Touched(c)) /\ Len(Touched(c)) <= Len(Marks)
           /\ Cookies(Touched(c)) = Cookies(Marks)
<1>1. CASE c \in Cookies(Marks)
  <2>1. c \in Cookie
    BY <1>1, CookiesAre
  <2>2. Touched(c) = Append(Unmarked(Marks, {c}), [cookie |-> c, at |-> now])
    BY <1>1 DEF Touched
  <2>3. /\ MarksTyped(Touched(c)) /\ Cookies(Touched(c)) = Cookies(Marks) \cup {c}
        /\ Len(Touched(c)) <= Len(Marks)
    BY <1>1, <2>1, <2>2, MarkedAnew
  <2> QED BY <1>1, <2>3
<1>2. CASE c \notin Cookies(Marks)
  BY <1>2 DEF Touched, MarksTyped
<1> QED BY <1>1, <1>2

\* A reply, and the closing of the session if it ended the rollout.
LEMMA AnswerKeeps ==
    ASSUME NInv, NEW c \in Cookie, NEW r, NEW act, NEW M, NEW R, NEW S, NEW L,
           NEW time \in Nat, time \in 0 .. MaxTime, time = now', NEW gone, gone = lapsed',
           onto \cup gone \subseteq 1 .. begun,
           r.at # None => act # None /\ r.at = <<act[1], act[2] + 1>>,
           SessionsOK(S, begun, time), RolloutsOK(L, S), HeldOK(L, S, gone),
           AttemptsLeft(Without(L, {c}), S), ~r.ended => AttemptsLeft(L, S),
           MarksTyped(M), Len(M) <= MaxClosed,
           RepliesOK(R, L, M), FaultsOK(Faults, L), OwnReplies(L, R, M, onto),
           CountsOK(L, S, R, counted', onto, begun), ResetsOK(resets, L, served),
           Answer(r, act, c, M, R, S, L), UNCHANGED <<resets, begun, onto, served>>
    PROVE  NInv'
<1> USE NemoLimits
<1>1. /\ begun \in 0 .. MaxInternal /\ begun \in Nat /\ served \subseteq Cookie \X Identity
      /\ resets' = resets /\ begun' = begun /\ onto' = onto /\ served' = served
  BY DEF NInv
<1>2. reply'.kind \in {"none", "reset", "moved"} /\ AnswersItsAction' /\ HandsOver'
  <2>1. CASE r.at = None
    BY <2>1, SilentReply DEF Answer
  <2>2. CASE r.at # None
    <3>1. reply' = [kind |-> "moved", act |-> act, at |-> r.at]
      BY <2>2 DEF Answer
    <3> QED BY <2>2, <3>1 DEF AnswersItsAction, HandsOver
  <2> QED BY <2>1, <2>2
<1>3. CASE r.ended
  <2>1. Close(c, M, R, Faults, S, L)
    BY <1>3 DEF Answer
  <2>2. /\ SessionsOK(manager', begun, time) /\ RolloutsOK(state', manager')
        /\ HeldOK(state', manager', gone) /\ AttemptsLeft(state', manager')
        /\ MarksTyped(closed') /\ Len(closed') <= MaxClosed
        /\ RepliesOK(stepCache', state', closed') /\ FaultsOK(faults', state')
        /\ OwnReplies(state', stepCache', closed', onto)
        /\ CountsOK(state', manager', stepCache', counted', onto, begun)
        /\ ResetsOK(resets, state', served)
    BY <1>1, <2>1, CloseKeeps
  <2> QED BY <1>1, <1>2, <2>2, Assembled
<1>4. CASE ~r.ended
  <2>1. closed' = M /\ stepCache' = R /\ faults' = Faults /\ manager' = S /\ state' = L
    BY <1>4 DEF Answer
  <2> QED BY <1>1, <1>2, <1>4, <2>1, Assembled
<1> QED BY <1>3, <1>4

LEMMA StepAgainKeeps ==
    ASSUME NInv, NEW c \in Cookie, NEW id, NEW act, StepAgain(c, id, act)
    PROVE  NInv'
<1>1. PICK r \in ReplyTo(c, id) :
        /\ UNCHANGED <<now, resets, begun, counted, onto, served, lapsed>>
        /\ SameRequest(r, act)
        /\ Answer(r, act, c, Touched(c), Replies, Reaped, Live)
  BY Zenon DEF StepAgain
<1>2. /\ now \in Nat /\ now \in 0 .. MaxTime /\ onto \cup lapsed \subseteq 1 .. begun
      /\ SessionsOK(Reaped, begun, now) /\ RolloutsOK(Live, Reaped)
      /\ HeldOK(Live, Reaped, lapsed) /\ AttemptsLeft(Live, Reaped)
      /\ MarksTyped(Marks) /\ Len(Marks) <= MaxClosed /\ RepliesOK(Replies, Live, Marks)
      /\ FaultsOK(Faults, Live) /\ OwnReplies(Live, Replies, Marks, onto)
      /\ CountsOK(Live, Reaped, Replies, counted, onto, begun)
      /\ ResetsOK(resets, Live, served)
  BY PruneKeeps, NemoLimits DEF NInv
<1>3. c \in DOMAIN Replies /\ r \in Answers
  <2>1. c \in DOMAIN Replies /\ r \in ToSet(Replies[c])
    <3>1. r \in ToSet(IF c \in DOMAIN Replies THEN Replies[c] ELSE <<>>)
      BY DEF ReplyTo
    <3>2. ToSet(<<>>) = {}
      BY DEF ToSet
    <3> QED BY <3>1, <3>2
  <2>2. Replies[c] \in Seq(Answers)
    BY <1>2, <2>1 DEF RepliesOK
  <2> HIDE DEF Answers
  <2> QED BY <2>1, <2>2, MembersOf
<1>4. r.at # None => act # None /\ r.at = <<act[1], act[2] + 1>>
  BY <1>1, <1>3 DEF Answers, SameRequest
<1> PICK M : M = Touched(c)
  OBVIOUS
<1>5. MarksTyped(M) /\ Len(M) <= Len(Marks) /\ Cookies(M) = Cookies(Marks)
  BY <1>2, TouchedKeeps
<1>6. Len(M) <= MaxClosed
  BY <1>2, <1>5, NemoLimits DEF MarksTyped
<1>7. RepliesOK(Replies, Live, M) /\ OwnReplies(Live, Replies, M, onto)
  BY <1>2, <1>5, Zenon DEF RepliesOK, OwnReplies
<1>8. /\ AttemptsLeft(Without(Live, {c}), Reaped)
      /\ CountsOK(Live, Reaped, Replies, counted', onto, begun)
  BY <1>1, <1>2, AttemptsWithout
<1>9. UNCHANGED <<now, lapsed, resets, begun, onto, served>> /\ Answer(r, act, c, M, Replies, Reaped, Live)
  BY <1>1
<1> QED BY <1>2, <1>4, <1>5, <1>6, <1>7, <1>8, <1>9, AnswerKeeps

\* The attempt of an open rollout, played or refused: m is its decision after it,
\* T are the sessions the manager has left.
AttemptOf(c, i, m, view, T, time, S, L) ==
    /\ c \in DOMAIN Live /\ ~Live[c].faulted /\ i = Live[c].internal /\ i \in DOMAIN T
    /\ m = Reaped[i].number \/ m = Reaped[i].number + 1
    /\ S = [T EXCEPT ![i] = [used |-> time, number |-> m]]
    /\ L = [Live EXCEPT ![c] = [internal |-> i, attempts |-> Live[c].attempts + 1,
                                faulted |-> ~view.ok, presenter |-> view.presenter]]

\* What it leaves of the sessions and the rollouts.
AttemptDone(c, i, m, S, L, time, gone) ==
    /\ SessionsOK(S, begun, time) /\ RolloutsOK(L, S) /\ HeldOK(L, S, gone)
    /\ AttemptsLeft(Without(L, {c}), S) /\ DOMAIN S \subseteq DOMAIN Reaped
    /\ L[c].faulted \/ Live[c].attempts + 1 < Limit => AttemptsLeft(L, S)
    /\ FaultsOK(Faults, L) /\ ResetsOK(resets, L, served) /\ c \notin DOMAIN Faults
    /\ DOMAIN L = DOMAIN Live /\ L[c].internal = i
    /\ \A d \in DOMAIN L : d # c => L[d] = Live[d]
    /\ \A d \in DOMAIN L : L[d].internal = Live[d].internal
    /\ i \in 1 .. begun /\ Reaped[i].number \in 0 .. Limit - 1 /\ m \in Nat

LEMMA AttemptMade ==
    ASSUME NInv, GoOn, NEW c, NEW i, NEW m, NEW view, NEW S, NEW L,
           NEW time, time = now', NEW gone, gone = lapsed',
           NEW T, T = ReapedAt(now'), AttemptOf(c, i, m, view, T, time, S, L)
    PROVE  AttemptDone(c, i, m, S, L, time, gone)
<1> USE NemoLimits
<1>1. begun \in Nat /\ FaultsOK(Faults, Live) /\ ResetsOK(resets, Live, served)
  BY PruneKeeps DEF NInv
<1>15. /\ time \in Nat
       /\ DOMAIN T \subseteq DOMAIN Reaped /\ \A j \in DOMAIN T : T[j] = Reaped[j]
       /\ SessionsOK(T, begun, time) /\ RolloutsOK(Live, T) /\ HeldOK(Live, T, gone)
       /\ AttemptsLeft(Live, T)
  BY GoOnKeeps
<1> PICK a : a = Live[c].attempts
  OBVIOUS
<1> USE DEF AttemptOf
<1>2. /\ i \in DOMAIN T /\ a \in 0 .. Limit /\ Reaped[i].number <= a /\ a < Limit
      /\ i \in 1 .. begun /\ Reaped[i].number \in 0 .. Limit
  BY <1>15 DEF RolloutsOK, AttemptsLeft, Playable, SessionsOK
<1>3. /\ Reaped[i].number \in 0 .. Limit - 1 /\ m \in 0 .. Limit /\ m <= a + 1
      /\ a + 1 \in 0 .. Limit
  BY <1>2
<1>4. /\ DOMAIN S = DOMAIN T /\ S[i].used = time /\ S[i].number = m
      /\ \A j \in DOMAIN S : j # i => S[j] = T[j]
  BY <1>2
<1>5. /\ DOMAIN L = DOMAIN Live /\ L[c].internal = i /\ L[c].attempts = a + 1 /\ L[c].faulted = ~view.ok
      /\ \A d \in DOMAIN L : d # c => L[d] = Live[d]
  OBVIOUS
<1>6. \A d \in DOMAIN L : L[d].internal = Live[d].internal
  BY <1>5
<1>7. L[c].faulted \in BOOLEAN
  BY <1>5
<1>8. SessionsOK(S, begun, time)
  <2>1. /\ DOMAIN S \subseteq 1 .. begun /\ Cardinality(DOMAIN S) <= MaxSessions
        /\ \A j \in DOMAIN T : T[j].used \in 0 .. time /\ T[j].number \in 0 .. Limit
    BY <1>4, <1>15 DEF SessionsOK
  <2>2. \A j \in DOMAIN S : S[j].used \in 0 .. time /\ S[j].number \in 0 .. Limit
    BY <1>3, <1>4, <1>15, <2>1
  <2> QED BY <2>1, <2>2 DEF SessionsOK
<1>9. RolloutsOK(L, S)
  <2>1. /\ DOMAIN Live \subseteq Cookie
        /\ \A j \in DOMAIN T : \E d \in DOMAIN Live : Live[d].internal = j
        /\ \A d, e \in DOMAIN Live : Live[d].internal = Live[e].internal => d = e
    BY <1>15 DEF RolloutsOK
  <2>2. ASSUME NEW d \in DOMAIN L
        PROVE  /\ L[d].attempts \in 0 .. Limit /\ L[d].faulted \in BOOLEAN
               /\ L[d].internal \in DOMAIN S => S[L[d].internal].number <= L[d].attempts
    <3>1. CASE d = c
      BY <1>2, <1>3, <1>4, <1>5, <1>7, <3>1
    <3>2. CASE d # c
      <4>1. L[d] = Live[d] /\ Live[d].internal # i
        BY <1>5, <2>1, <3>2
      <4>2. /\ Live[d].attempts \in 0 .. Limit /\ Live[d].faulted \in BOOLEAN
            /\ Live[d].internal \in DOMAIN T => T[Live[d].internal].number <= Live[d].attempts
        BY <1>5, <1>15 DEF RolloutsOK
      <4>3. Live[d].internal \in DOMAIN S =>
               Live[d].internal \in DOMAIN T /\ S[Live[d].internal] = T[Live[d].internal]
        BY <1>4, <4>1
      <4> QED BY <4>1, <4>2, <4>3, Zenon
    <3> QED BY <3>1, <3>2
  <2>3. \A j \in DOMAIN S : \E d \in DOMAIN L : L[d].internal = j
    BY <1>4, <1>5, <1>6, <2>1
  <2>4. \A d, e \in DOMAIN L : L[d].internal = L[e].internal => d = e
    BY <1>5, <1>6, <2>1
  <2> QED BY <1>5, <2>1, <2>2, <2>3, <2>4 DEF RolloutsOK
<1>16. HeldOK(L, S, gone)
  BY <1>4, <1>5, <1>6, <1>15 DEF HeldOK
<1>10. AttemptsLeft(Without(L, {c}), S)
  <2>1. Without(L, {c}) = Without(Live, {c})
    BY <1>5 DEF Without, Restrict
  <2>2. AttemptsLeft(Without(Live, {c}), T)
    BY <1>15, AttemptsWithout
  <2> QED BY <1>4, <2>1, <2>2 DEF AttemptsLeft, Playable
<1>11. L[c].faulted \/ a + 1 < Limit => AttemptsLeft(L, S)
  <2> SUFFICES ASSUME L[c].faulted \/ a + 1 < Limit, NEW d \in DOMAIN L, Playable(L, S, d)
               PROVE  L[d].attempts < Limit
    BY DEF AttemptsLeft
  <2>1. CASE d = c
    BY <1>5, <1>7, <2>1 DEF Playable
  <2>2. CASE d # c
    BY <1>4, <1>5, <1>15, <2>2 DEF AttemptsLeft, Playable
  <2> QED BY <2>1, <2>2
<1>12. c \notin DOMAIN Faults
  BY <1>1 DEF FaultsOK
<1>13. FaultsOK(Faults, L)
  BY <1>1, <1>5, <1>12 DEF FaultsOK
<1>14. ResetsOK(resets, L, served)
  BY <1>1, <1>5, <1>6 DEF ResetsOK
<1>17. DOMAIN S \subseteq DOMAIN Reaped
  BY <1>4, <1>15
<1> QED BY <1>2, <1>3, <1>5, <1>6, <1>8, <1>9, <1>10, <1>11, <1>12, <1>13, <1>14, <1>16, <1>17
       DEF AttemptDone

\* The replies of a cookie with one more, and those given up for it.
LEMMA RepliedAre ==
    ASSUME NEW c, NEW r \in Answers, c \in DOMAIN Replies => Replies[c] \in Seq(Answers)
    PROVE  LET new == Newest(Replied(c, r), MaxReplies) IN
           /\ new \in Seq(Answers) /\ Len(new) \in 1 .. MaxReplies /\ r \in ToSet(new)
           /\ \A x \in ToSet(new) : x = r \/ (c \in DOMAIN Replies /\ x \in ToSet(Replies[c]))
           /\ \A x : (x = r \/ (c \in DOMAIN Replies /\ x \in ToSet(Replies[c]) /\ x.id # r.id)) =>
                  \/ x \in ToSet(new)
                  \/ \E j \in 1 .. Over(Replied(c, r), MaxReplies) : x = Replied(c, r)[j]
<1> USE NemoLimits
<1> PICK old : old = IF c \in DOMAIN Replies THEN Replies[c] ELSE <<>>
  OBVIOUS
<1> PICK keep : keep = {x \in ToSet(old) : x.id # r.id}
  OBVIOUS
<1> PICK q : q = Only(old, keep)
  OBVIOUS
<1> PICK s : s = Replied(c, r)
  OBVIOUS
<1> PICK new : new = Newest(s, MaxReplies)
  OBVIOUS
<1>1. s = Append(q, r)
  <2>1. r.id # 0
    BY DEF Answers
  <2> QED BY <2>1 DEF Replied
<1> PICK T : T = Answers
  OBVIOUS
<1>2. /\ old \in Seq(T) /\ r \in T
      /\ \A x : x \in ToSet(old) <=> c \in DOMAIN Replies /\ x \in ToSet(Replies[c])
  <2> HIDE DEF Answers
  <2>1. CASE c \in DOMAIN Replies
    BY <2>1
  <2>2. CASE c \notin DOMAIN Replies
    <3>1. ToSet(<<>>) = {}
      BY DEF ToSet
    <3> QED BY <2>2, <3>1
  <2> QED BY <2>1, <2>2
<1>3. q \in Seq(T) /\ ToSet(q) = ToSet(old) \cap keep
  BY <1>2, OnlyKeeps
<1>4. s \in Seq(T) /\ Len(s) \in Nat /\ Len(s) >= 1
  BY <1>1, <1>2, <1>3
<1>5. ToSet(s) = ToSet(q) \cup {r}
  <2>1. r \in T
    BY <1>2
  <2>2. ToSet(Append(q, r)) = ToSet(q) \cup {r}
    BY ONLY <1>3, <2>1, AppendAdds
  <2> QED BY <1>1, <2>2
<1>6. /\ new \in Seq(T) /\ Len(new) = IF Len(s) > MaxReplies THEN MaxReplies ELSE Len(s)
      /\ ToSet(s) = ToSet(new) \cup {s[j] : j \in 1 .. Over(s, MaxReplies)}
  <2>1. MaxReplies \in Nat /\ new = Newest(s, MaxReplies)
    OBVIOUS
  <2> QED BY ONLY <1>4, <2>1, NewestKeeps
<1>10. r \in ToSet(new)
  <2>1. MaxReplies \in Nat /\ MaxReplies > 0 /\ new = Newest(s, MaxReplies) /\ Len(s) > 0
    BY <1>4
  <2>2. s[Len(s)] \in ToSet(new)
    BY ONLY <1>4, <2>1, NewestKeeps
  <2>3. s[Len(s)] = r
    BY <1>1, <1>2, <1>3
  <2> QED BY <2>2, <2>3
<1>7. Len(new) \in 1 .. MaxReplies
  BY <1>4, <1>6
<1>8. \A x : x \in ToSet(s) <=> x = r \/ (c \in DOMAIN Replies /\ x \in ToSet(Replies[c]) /\ x.id # r.id)
  BY <1>2, <1>3, <1>5
<1>9. \A x : x \in ToSet(s) <=> x \in ToSet(new) \/ \E j \in 1 .. Over(s, MaxReplies) : x = s[j]
  BY <1>6
<1> HIDE DEF Answers
<1> QED BY <1>6, <1>7, <1>8, <1>9, <1>10

\* No reply is found for the request, so if it was counted before, its rollout
\* was moved onto a mark.
LEMMA TallyKeeps ==
    ASSUME NInv, NEW c \in DOMAIN Live, ~Live[c].faulted, NEW i, i = Live[c].internal,
           c \notin DOMAIN Faults, i \in 1 .. begun,
           NEW id, NEW act, ReplyTo(c, id) = {}, NEW once, once = <<i, id, act>>,
           NEW tally, tally = Tally(i, id, act)
    PROVE  /\ \A t \in DOMAIN tally : /\ t[1] \in 1 .. begun /\ t[2] # 0
                                      /\ tally[t] = 1 \/ t[1] \in onto
           /\ \A t \in DOMAIN tally : t \in DOMAIN counted \/ (t[1] = i /\ t[2] = id)
<1>1. CountsOK(Live, Reaped, Replies, counted, onto, begun) /\ Playable(Live, Reaped, c)
  BY PruneKeeps, PrunedTables DEF Playable
<1>2. \A t \in DOMAIN counted : /\ t[1] \in 1 .. begun /\ t[2] # 0
                                /\ counted[t] = 1 \/ t[1] \in onto
  BY <1>1 DEF CountsOK
<1>3. once[1] = i /\ once[2] = id
  OBVIOUS
<1>7. tally = IF once \in DOMAIN counted THEN [counted EXCEPT ![once] = 2]
              ELSE IF id = 0 THEN counted ELSE Put(counted, once, 1)
  BY DEF Tally
<1>4. CASE once \in DOMAIN counted
  <2>1. i \in onto
    <3>1. SUFFICES ASSUME i \notin onto PROVE FALSE
      OBVIOUS
    <3>2. c \in DOMAIN Replies /\ \E r \in ToSet(Replies[c]) : r.id = id
      BY <1>1, <1>3, <1>4, <3>1 DEF CountsOK
    <3>3. id # 0
      BY <1>2, <1>3, <1>4
    <3> QED BY <3>2, <3>3 DEF ReplyTo
  <2>2. tally = [counted EXCEPT ![once] = 2]
    BY <1>4, <1>7
  <2>3. DOMAIN tally = DOMAIN counted /\ \A t \in DOMAIN tally : t # once => tally[t] = counted[t]
    BY <2>2
  <2> QED BY <1>2, <1>3, <2>1, <2>3
<1>5. CASE once \notin DOMAIN counted /\ id = 0
  BY <1>2, <1>5, <1>7
<1>6. CASE once \notin DOMAIN counted /\ id # 0
  <2>1. tally = Put(counted, once, 1)
    BY <1>6, <1>7
  <2>2. /\ DOMAIN tally = DOMAIN counted \cup {once} /\ tally[once] = 1
        /\ \A t \in DOMAIN counted : t # once => tally[t] = counted[t]
    BY <2>1 DEF Put
  <2> QED BY <1>2, <1>3, <1>6, <2>2
<1> QED BY <1>4, <1>5, <1>6

\* The other rollouts and what was counted of them are as they were.
Attempted(c, i, L, S, tally, id) ==
    /\ c \in DOMAIN Live /\ i = Live[c].internal /\ ~Live[c].faulted
    /\ DOMAIN L = DOMAIN Live /\ L[c].internal = i /\ DOMAIN S \subseteq DOMAIN Reaped
    /\ \A d \in DOMAIN L : d # c => L[d] = Live[d]
    /\ \A t \in DOMAIN tally : t[1] \in 1 .. begun /\ t[2] # 0 /\ (tally[t] = 1 \/ t[1] \in onto)
    /\ \A t \in DOMAIN tally : t \in DOMAIN counted \/ (t[1] = i /\ t[2] = id)

LEMMA OthersCounted ==
    ASSUME NInv, NEW c, NEW i, NEW L, NEW S, NEW tally, NEW id, Attempted(c, i, L, S, tally, id),
           NEW d \in DOMAIN L, d # c, NEW t \in DOMAIN tally,
           t[1] = L[d].internal, Playable(L, S, d), t[1] \notin onto
    PROVE  d \in DOMAIN Replies /\ \E x \in ToSet(Replies[d]) : x.id = t[2]
<1>1. CountsOK(Live, Reaped, Replies, counted, onto, begun) /\ RolloutsOK(Live, Reaped)
  BY PruneKeeps
<1>2. L[d] = Live[d] /\ c \in DOMAIN Live /\ d \in DOMAIN Live /\ i = Live[c].internal
  BY DEF Attempted
<1>3. Live[d].internal # i
  BY <1>1, <1>2 DEF RolloutsOK
<1>4. t \in DOMAIN counted
  BY <1>2, <1>3 DEF Attempted
<1>5. Playable(Live, Reaped, d)
  BY <1>2 DEF Playable, Attempted
<1> QED BY <1>1, <1>2, <1>4, <1>5 DEF CountsOK

\* An attempt whose observation cannot be shown faults its rollout; one whose
\* session has lapsed leaves its cookie a rollout that is not stepped either.
LEMMA PlayedLost ==
    ASSUME NInv, NEW c, NEW i, NEW L, NEW S, NEW tally, NEW id, Attempted(c, i, L, S, tally, id),
           ~Playable(L, S, c)
    PROVE  /\ RepliesOK(Replies, L, Marks) /\ OwnReplies(L, Replies, Marks, onto)
           /\ CountsOK(L, S, Replies, tally, onto, begun)
<1>1. RepliesOK(Replies, Live, Marks) /\ OwnReplies(Live, Replies, Marks, onto)
  BY PruneKeeps
<1>2. DOMAIN L = DOMAIN Live /\ \A d \in DOMAIN L : L[d].internal = Live[d].internal
  BY DEF Attempted
<1>3. RepliesOK(Replies, L, Marks) /\ OwnReplies(L, Replies, Marks, onto)
  BY <1>1, <1>2 DEF RepliesOK, OwnReplies
<1>4. ASSUME NEW d \in DOMAIN L, NEW t \in DOMAIN tally,
             t[1] = L[d].internal, Playable(L, S, d), t[1] \notin onto
      PROVE  d \in DOMAIN Replies /\ \E x \in ToSet(Replies[d]) : x.id = t[2]
  BY <1>4, OthersCounted
<1>5. \A t \in DOMAIN tally : t[1] \in 1 .. begun /\ t[2] # 0 /\ (tally[t] = 1 \/ t[1] \in onto)
  BY DEF Attempted
<1> QED BY <1>3, <1>4, <1>5 DEF CountsOK

\* What the attempt's cookie keeps of its replies, the latest being r.
OwnKept(c, r, K) ==
    /\ c \in DOMAIN K /\ K[c] \in Seq(Answers) /\ Len(K[c]) \in 1 .. MaxReplies
    /\ r \in ToSet(K[c])
    /\ \A x \in ToSet(K[c]) : x = r \/ (c \in DOMAIN Replies /\ x \in ToSet(Replies[c]))
    /\ \A x : (x = r \/ (c \in DOMAIN Replies /\ x \in ToSet(Replies[c]) /\ x.id # r.id)) =>
           \/ x \in ToSet(K[c])
           \/ \E j \in 1 .. Over(Replied(c, r), MaxReplies) : x = Replied(c, r)[j]

\* Of the replies, only those of the attempt's cookie change.
LEMMA KeptAre ==
    ASSUME NInv, NEW c, NEW r, r.id # 0 => r \in Answers, NEW K, K = Kept(c, r)
    PROVE  /\ \A d \in DOMAIN Replies : d # c => d \in DOMAIN K /\ K[d] = Replies[d]
           /\ \A d \in DOMAIN K : d # c => d \in DOMAIN Replies /\ K[d] = Replies[d]
           /\ r.id = 0 => K = Replies
           /\ r.id # 0 => OwnKept(c, r, K)
<1> HIDE DEF Answers
<1>1. CASE r.id = 0
  BY <1>1 DEF Kept
<1>2. CASE r.id # 0
  <2>1. PICK new : new = Newest(Replied(c, r), MaxReplies)
    OBVIOUS
  <2>2. K = Put(Replies, c, new)
    BY <1>2, <2>1 DEF Kept
  <2>3. /\ DOMAIN K = DOMAIN Replies \cup {c} /\ K[c] = new
        /\ \A d \in DOMAIN Replies : d # c => K[d] = Replies[d]
    BY <2>2 DEF Put
  <2>4. r \in Answers
    BY <1>2
  <2>5. c \in DOMAIN Replies => Replies[c] \in Seq(Answers)
    BY PruneKeeps DEF RepliesOK
  <2>6. /\ new \in Seq(Answers) /\ Len(new) \in 1 .. MaxReplies /\ r \in ToSet(new)
        /\ \A x \in ToSet(new) : x = r \/ (c \in DOMAIN Replies /\ x \in ToSet(Replies[c]))
        /\ \A x : (x = r \/ (c \in DOMAIN Replies /\ x \in ToSet(Replies[c]) /\ x.id # r.id)) =>
               \/ x \in ToSet(new)
               \/ \E j \in 1 .. Over(Replied(c, r), MaxReplies) : x = Replied(c, r)[j]
    BY ONLY <2>1, <2>4, <2>5, RepliedAre
  <2>7. OwnKept(c, r, K)
    BY <2>3, <2>6 DEF OwnKept
  <2> QED BY <1>2, <2>3, <2>7
<1> QED BY <1>1, <1>2

\* An attempt whose reply is kept.
LEMMA PlayedShown ==
    ASSUME NInv, NEW c, NEW i, NEW L, NEW S, NEW tally, NEW r, Attempted(c, i, L, S, tally, r.id),
           r.id # 0 => r \in Answers, r.internal = i, NEW K, K = Kept(c, r)
    PROVE  /\ RepliesOK(K, L, Marks) /\ OwnReplies(L, K, Marks, onto)
           /\ CountsOK(L, S, K, Without(tally, GivenUp(c, r)), onto, begun)
<1> HIDE DEF Answers
<1>1. /\ RepliesOK(Replies, Live, Marks) /\ OwnReplies(Live, Replies, Marks, onto)
      /\ CountsOK(Live, Reaped, Replies, counted, onto, begun)
  BY PruneKeeps
<1>2. /\ c \in DOMAIN Live /\ i = Live[c].internal /\ ~Live[c].faulted
      /\ DOMAIN L = DOMAIN Live /\ L[c].internal = i
      /\ \A d \in DOMAIN L : d # c => L[d] = Live[d]
  BY DEF Attempted
<1>3. \A t \in DOMAIN tally : t[1] \in 1 .. begun /\ t[2] # 0 /\ (tally[t] = 1 \/ t[1] \in onto)
  BY DEF Attempted
<1>4. \A t \in DOMAIN tally : t \in DOMAIN counted \/ (t[1] = i /\ t[2] = r.id)
  BY DEF Attempted
<1>5. /\ \A d \in DOMAIN Replies : d # c => d \in DOMAIN K /\ K[d] = Replies[d]
      /\ \A d \in DOMAIN K : d # c => d \in DOMAIN Replies /\ K[d] = Replies[d]
      /\ r.id = 0 => K = Replies
  BY KeptAre
<1>6. ASSUME r.id # 0
      PROVE  /\ c \in DOMAIN K /\ K[c] \in Seq(Answers) /\ Len(K[c]) \in 1 .. MaxReplies
             /\ r \in ToSet(K[c])
             /\ \A x \in ToSet(K[c]) : x = r \/ (c \in DOMAIN Replies /\ x \in ToSet(Replies[c]))
             /\ \A x : (x = r \/ (c \in DOMAIN Replies /\ x \in ToSet(Replies[c]) /\ x.id # r.id)) =>
                    \/ x \in ToSet(K[c])
                    \/ \E j \in 1 .. Over(Replied(c, r), MaxReplies) : x = Replied(c, r)[j]
  <2>1. OwnKept(c, r, K)
    BY <1>6, KeptAre
  <2> QED BY <2>1 DEF OwnKept
<1>7. ASSUME NEW d \in DOMAIN K
      PROVE  /\ d \in DOMAIN L \cup Cookies(Marks)
             /\ K[d] \in Seq(Answers) /\ Len(K[d]) \in 1 .. MaxReplies
  <2>1. CASE d = c /\ r.id # 0
    BY <1>2, <1>6, <2>1
  <2>2. CASE d # c \/ r.id = 0
    <3>1. d \in DOMAIN Replies /\ K[d] = Replies[d]
      BY <1>5, <2>2
    <3> QED BY <1>1, <1>2, <3>1 DEF RepliesOK
  <2> QED BY <2>1, <2>2
<1>8. RepliesOK(K, L, Marks)
  BY <1>7 DEF RepliesOK
<1>9. ASSUME NEW d \in DOMAIN L, L[d].internal \notin onto
      PROVE  /\ d \notin Cookies(Marks)
             /\ d \in DOMAIN K => \A x \in ToSet(K[d]) : x.internal = L[d].internal
  <2>1. L[d].internal = Live[d].internal /\ d \in DOMAIN Live
    BY <1>2
  <2>2. /\ d \notin Cookies(Marks)
        /\ d \in DOMAIN Replies => \A x \in ToSet(Replies[d]) : x.internal = L[d].internal
    BY <1>1, <1>9, <2>1 DEF OwnReplies
  <2>3. CASE d = c /\ r.id # 0
    <3>1. \A x \in ToSet(K[c]) : x = r \/ (c \in DOMAIN Replies /\ x \in ToSet(Replies[c]))
      BY <1>6, <2>3
    <3>2. L[d].internal = i
      BY <1>2, <2>3
    <3> QED BY <2>2, <2>3, <3>1, <3>2
  <2>4. CASE d # c \/ r.id = 0
    <3>1. d \in DOMAIN K => d \in DOMAIN Replies /\ K[d] = Replies[d]
      BY <1>5, <2>4
    <3> QED BY <2>2, <3>1
  <2> QED BY <2>3, <2>4
<1>10. OwnReplies(L, K, Marks, onto)
  BY <1>9 DEF OwnReplies
<1>11. PICK out : out = GivenUp(c, r)
  OBVIOUS
<1>12. PICK tally2 : tally2 = Without(tally, out)
  OBVIOUS
<1>13. \A t \in DOMAIN tally2 : t \in DOMAIN tally /\ tally2[t] = tally[t] /\ t \notin out
  <2>1. DOMAIN Without(tally, out) = DOMAIN tally \ out
    BY ONLY WithoutIs
  <2>2. \A t \in DOMAIN tally \ out : Without(tally, out)[t] = tally[t]
    BY ONLY WithoutIs
  <2> QED BY <1>12, <2>1, <2>2
<1>14. ASSUME NEW d \in DOMAIN L, NEW t \in DOMAIN tally2,
              t[1] = L[d].internal, Playable(L, S, d), t[1] \notin onto
       PROVE  d \in DOMAIN K /\ \E x \in ToSet(K[d]) : x.id = t[2]
  <2>1. t \in DOMAIN tally /\ t \notin out
    BY <1>13
  <2>2. CASE d # c
    <3>1. d \in DOMAIN Replies /\ \E x \in ToSet(Replies[d]) : x.id = t[2]
      BY <1>14, <2>1, <2>2, OthersCounted
    <3> QED BY <1>5, <2>2, <3>1
  <2>3. ASSUME d = c, t \in DOMAIN counted
        PROVE  c \in DOMAIN Replies /\ \E x \in ToSet(Replies[c]) : x.id = t[2] /\ x.internal = i
    <3>1. t[1] = Live[c].internal /\ Live[c].internal \notin onto
      BY <1>2, <1>14, <2>3
    <3>4. Playable(Live, Reaped, c)
      BY <1>2, PrunedTables DEF Playable
    <3>2. c \in DOMAIN Replies /\ \E x \in ToSet(Replies[c]) : x.id = t[2]
      BY <1>1, <1>2, <2>3, <3>1, <3>4 DEF CountsOK
    <3>3. \A x \in ToSet(Replies[c]) : x.internal = i
      BY <1>1, <1>2, <3>1, <3>2 DEF OwnReplies
    <3> QED BY <3>2, <3>3
  <2>4. CASE d = c /\ r.id = 0
    <3>1. t[2] # 0
      BY <1>3, <2>1
    <3>2. t \in DOMAIN counted
      BY <1>4, <2>1, <2>4, <3>1
    <3> QED BY <1>5, <2>3, <2>4, <3>2
  <2>5. CASE d = c /\ r.id # 0
    <3>1. c \in DOMAIN K /\ r \in ToSet(K[c])
      BY <1>6, <2>5
    <3>2. CASE t[2] = r.id
      BY <2>5, <3>1, <3>2
    <3>3. CASE t[2] # r.id
      <4>1. t \in DOMAIN counted
        BY <1>4, <2>1, <3>3
      <4>2. PICK x \in ToSet(Replies[c]) : c \in DOMAIN Replies /\ x.id = t[2] /\ x.internal = i
        BY <2>3, <2>5, <4>1
      <4>3. \/ x \in ToSet(K[c])
            \/ \E j \in 1 .. Over(Replied(c, r), MaxReplies) : x = Replied(c, r)[j]
        BY <1>6, <2>5, <3>3, <4>2
      <4>4. CASE x \in ToSet(K[c])
        BY <2>5, <3>1, <4>2, <4>4
      <4>5. CASE \E j \in 1 .. Over(Replied(c, r), MaxReplies) : x = Replied(c, r)[j]
        <5>1. t[1] = x.internal /\ t[2] = x.id
          BY <1>2, <1>14, <2>5, <4>2
        <5>2. t \in GivenUp(c, r)
          BY <4>1, <4>5, <5>1 DEF GivenUp
        <5> QED BY <1>11, <2>1, <5>2
      <4> QED BY <4>3, <4>4, <4>5
    <3> QED BY <3>2, <3>3
  <2> QED BY <2>2, <2>4, <2>5
<1>15. \A t \in DOMAIN tally2 :
         t[1] \in 1 .. begun /\ t[2] # 0 /\ (tally2[t] = 1 \/ t[1] \in onto)
  BY <1>3, <1>13
<1>16. CountsOK(L, S, K, tally2, onto, begun)
  BY <1>14, <1>15 DEF CountsOK
<1> QED BY <1>8, <1>10, <1>11, <1>12, <1>16

LEMMA StepPlayedKeeps ==
    ASSUME NInv, NEW c \in Cookie, NEW id \in RequestId, NEW act \in Actions,
           NEW over \in BOOLEAN, NEW fits, StepPlayed(c, id, act, over, fits)
    PROVE  NInv'
<1>1. PICK i : i = Live[c].internal
  OBVIOUS
<1>2. PICK n : n = Reaped[i].number
  OBVIOUS
<1>3. PICK m : m = IF act = <<i, n>> THEN n + 1 ELSE n
  OBVIOUS
<1>4. PICK attempts : attempts = Live[c].attempts + 1
  OBVIOUS
<1>5. PICK view : view = Render(Live[c].presenter, Observation(i, m), fits)
  OBVIOUS
<1>6. PICK ended \in BOOLEAN : ended <=> (act = <<i, n>> /\ (over \/ m >= Limit)) \/ Capped(attempts)
  OBVIOUS
<1>7. PICK at : at = IF act = <<i, n>> THEN <<i, m>> ELSE None
  OBVIOUS
<1>8. PICK r : r = [id |-> id, act |-> act, internal |-> i, at |-> at,
                    ended |-> (act = <<i, n>> /\ (over \/ m >= Limit)) \/ Capped(attempts)]
  OBVIOUS
<1>10. PICK T : T = ReapedAt(now')
  OBVIOUS
<1>16. PICK time : time = now'
  OBVIOUS
<1>26. PICK gone : gone = lapsed'
  OBVIOUS
<1>9. PICK S : S = [T EXCEPT ![i] = [used |-> time, number |-> m]]
  OBVIOUS
<1>11. PICK L : L = [Live EXCEPT ![c] = [internal |-> i, attempts |-> attempts,
                                         faulted |-> ~view.ok, presenter |-> view.presenter]]
  OBVIOUS
<1>12. PICK once : once = <<i, id, act>>
  OBVIOUS
<1>13. PICK tally : tally = Tally(i, id, act)
  OBVIOUS
<1>14. /\ c \in DOMAIN Live /\ ~Live[c].faulted /\ ReplyTo(c, id) = {}
       /\ GoOn /\ i \in DOMAIN T
       /\ IF view.ok
          THEN /\ Answer(r, act, c, Marks, Kept(c, r), S, L)
               /\ counted' = Without(tally, GivenUp(c, r))
          ELSE /\ manager' = S /\ state' = L
               /\ stepCache' = Replies /\ closed' = Marks
               /\ faults' = IF act = <<i, n>> /\ id # 0 THEN Put(Faults, c, [id |-> id, act |-> act])
                            ELSE Faults
               /\ reply' = NoReply
               /\ counted' = tally
       /\ UNCHANGED <<resets, begun, onto, served>>
  BY <1>1, <1>2, <1>3, <1>4, <1>5, <1>7, <1>8, <1>9, <1>10, <1>11, <1>13, <1>16
     DEF StepPlayed, Attempts
<1>15. /\ resets' = resets /\ begun' = begun /\ onto' = onto /\ served' = served
       /\ begun \in 0 .. MaxInternal /\ begun \in Nat /\ served \subseteq Cookie \X Identity
       /\ MarksTyped(Marks) /\ Len(Marks) <= MaxClosed /\ RolloutsOK(Live, Reaped)
  BY <1>14, PruneKeeps, NemoLimits DEF NInv
<1>27. time \in 0 .. MaxTime /\ time \in Nat /\ onto \cup gone \subseteq 1 .. begun
  BY <1>14, <1>16, <1>26, GoOnKeeps
<1>17. m = Reaped[i].number \/ m = Reaped[i].number + 1
  BY <1>2, <1>3
<1>18. /\ SessionsOK(S, begun, time) /\ RolloutsOK(L, S) /\ HeldOK(L, S, gone)
       /\ AttemptsLeft(Without(L, {c}), S) /\ DOMAIN S \subseteq DOMAIN Reaped
       /\ L[c].faulted \/ Live[c].attempts + 1 < Limit => AttemptsLeft(L, S)
       /\ FaultsOK(Faults, L) /\ ResetsOK(resets, L, served) /\ c \notin DOMAIN Faults
       /\ DOMAIN L = DOMAIN Live /\ L[c].internal = i
       /\ \A d \in DOMAIN L : d # c => L[d] = Live[d]
       /\ i \in 1 .. begun /\ Reaped[i].number \in 0 .. Limit - 1 /\ m \in Nat
  <2>1. AttemptOf(c, i, m, view, T, time, S, L)
    BY <1>1, <1>4, <1>9, <1>11, <1>14, <1>17 DEF AttemptOf
  <2>2. AttemptDone(c, i, m, S, L, time, gone)
    BY <1>10, <1>14, <1>16, <1>26, <2>1, AttemptMade
  <2> QED BY <2>2 DEF AttemptDone
<1>19. Attempted(c, i, L, S, tally, id)
  <2>1. /\ \A t \in DOMAIN tally : /\ t[1] \in 1 .. begun /\ t[2] # 0
                                   /\ tally[t] = 1 \/ t[1] \in onto
        /\ \A t \in DOMAIN tally : t \in DOMAIN counted \/ (t[1] = i /\ t[2] = id)
    BY <1>1, <1>12, <1>13, <1>14, <1>18, TallyKeeps
  <2> QED BY <1>1, <1>14, <1>18, <2>1 DEF Attempted
<1>20. r.id = id /\ r.internal = i /\ r.act = act /\ r.at = at
  BY <1>8
<1>21. ~r.ended => attempts < Limit
  <2>1. Capped(attempts) => r.ended
    BY <1>8, Zenon
  <2>2. Live[c].attempts \in Nat
    BY <1>14, <1>15 DEF RolloutsOK
  <2>3. ~Capped(attempts) => attempts < Limit
    BY <1>4, <2>2, NemoLimits DEF Capped
  <2> QED BY <2>1, <2>3
<1>22. at # None => act # None /\ at = <<act[1], act[2] + 1>>
  <2>1. CASE act = <<i, n>>
    BY <1>3, <1>7, <2>1, NoneIsNoPair
  <2>2. CASE act # <<i, n>>
    BY <1>7, <2>2
  <2> QED BY <2>1, <2>2
<1>23. r.id # 0 => r \in Answers
  <2> SUFFICES ASSUME id # 0 PROVE r \in Answers
    BY <1>20
  <2>1. act \in Spots
    BY <1>15, NemoLimits, SMTT(20) DEF Actions, Spots
  <2>2. at \in Spots
    BY <1>7, <1>18 DEF Spots
  <2>3. r = [id |-> id, act |-> act, internal |-> i, at |-> at, ended |-> ended]
    BY <1>6, <1>8, Zenon
  <2>4. i \in Nat /\ id \in RequestId \ {0}
    BY <1>15, <1>18
  <2>5. r \in [id : RequestId \ {0}, act : Spots, internal : Nat, at : Spots, ended : BOOLEAN]
    BY <2>1, <2>2, <2>3, <2>4
  <2> QED BY <1>20, <1>22, <2>5 DEF Answers
<1>24. CASE ~view.ok
  <2>1. L[c].faulted
    BY <1>11, <1>14, <1>24, Zenon
  <2>2. /\ manager' = S /\ state' = L /\ stepCache' = Replies /\ closed' = Marks
        /\ reply' = NoReply /\ counted' = tally
        /\ faults' = Faults \/ faults' = Put(Faults, c, [id |-> id, act |-> act])
    BY <1>14, <1>24
  <2>3. FaultsOK(faults', L)
    <3>1. \A d \in DOMAIN faults' : d \in DOMAIN Faults \/ d = c
      BY <2>2 DEF Put
    <3> QED BY <1>14, <1>18, <2>1, <3>1 DEF FaultsOK
  <2>4. /\ RepliesOK(Replies, L, Marks) /\ OwnReplies(L, Replies, Marks, onto)
        /\ CountsOK(L, S, Replies, tally, onto, begun)
    BY <1>19, <2>1, PlayedLost DEF Playable
  <2>5. AttemptsLeft(L, S)
    BY <1>18, <2>1
  <2> QED BY <1>15, <1>16, <1>18, <1>26, <1>27, <2>2, <2>3, <2>4, <2>5, SilentReply, Assembled
<1>25. CASE view.ok
  <2>1. /\ Answer(r, act, c, Marks, Kept(c, r), S, L)
        /\ counted' = Without(tally, GivenUp(c, r))
        /\ UNCHANGED <<resets, begun, onto, served>>
    BY <1>14, <1>25
  <2>2. PICK K : K = Kept(c, r)
    OBVIOUS
  <2>3. /\ RepliesOK(K, L, Marks) /\ OwnReplies(L, K, Marks, onto)
        /\ CountsOK(L, S, K, Without(tally, GivenUp(c, r)), onto, begun)
    BY <1>19, <1>20, <1>23, <2>2, PlayedShown
  <2>4. ~r.ended => AttemptsLeft(L, S)
    BY <1>4, <1>18, <1>21
  <2>5. r.at # None => act # None /\ r.at = <<act[1], act[2] + 1>>
    BY <1>20, <1>22
  <2> QED BY <1>15, <1>16, <1>18, <1>26, <1>27, <2>1, <2>2, <2>3, <2>4, <2>5, AnswerKeeps
<1> QED BY <1>24, <1>25

\* An attempt whose session expired since the handler's pruning.
LEMMA StepLapsedKeeps ==
    ASSUME NInv, NEW c \in Cookie, NEW id \in RequestId, NEW act \in Actions,
           StepLapsed(c, id, act)
    PROVE  NInv'
<1> USE NemoLimits
<1> PICK i : i = Live[c].internal
  OBVIOUS
<1> PICK T : T = ReapedAt(now')
  OBVIOUS
<1> PICK L : L = [Live EXCEPT ![c] = [internal |-> i, attempts |-> Live[c].attempts + 1,
                                      faulted |-> FALSE, presenter |-> Live[c].presenter]]
  OBVIOUS
<1> PICK tally : tally = Tally(i, id, act)
  OBVIOUS
<1>1. /\ c \in DOMAIN Live /\ ~Live[c].faulted /\ ReplyTo(c, id) = {}
      /\ GoOn /\ i \notin DOMAIN T
      /\ manager' = T /\ state' = L /\ stepCache' = Replies /\ closed' = Marks
      /\ faults' = Faults /\ reply' = NoReply /\ counted' = tally
      /\ resets' = resets /\ begun' = begun /\ onto' = onto /\ served' = served
  BY DEF StepLapsed, Attempts
<1>2. /\ begun \in 0 .. MaxInternal /\ served \subseteq Cookie \X Identity
      /\ MarksTyped(Marks) /\ Len(Marks) <= MaxClosed /\ AttemptsLeft(Live, Reaped)
      /\ FaultsOK(Faults, Live) /\ ResetsOK(resets, Live, served)
  BY PruneKeeps DEF NInv
<1>3. /\ now' \in 0 .. MaxTime
      /\ DOMAIN T \subseteq DOMAIN Reaped
      /\ SessionsOK(T, begun, now') /\ RolloutsOK(Live, T) /\ HeldOK(Live, T, lapsed')
      /\ AttemptsLeft(Live, T) /\ onto \cup lapsed' \subseteq 1 .. begun
      /\ \A d \in DOMAIN Live : Live[d].internal \in 1 .. begun
  BY <1>1, GoOnKeeps
<1>4. /\ DOMAIN L = DOMAIN Live /\ L[c].attempts = Live[c].attempts + 1
      /\ \A d \in DOMAIN L : d # c => L[d] = Live[d]
      /\ L[c].internal = i /\ L[c].faulted = FALSE
      /\ \A d \in DOMAIN L : L[d].internal = Live[d].internal
  BY <1>1
<1>5. Live[c].attempts \in 0 .. Limit /\ Live[c].attempts < Limit
  BY <1>1, <1>2, <1>3, PrunedTables DEF AttemptsLeft, Playable, RolloutsOK
<1>6. RolloutsOK(L, T)
  <2>1. ASSUME NEW d \in DOMAIN L
        PROVE  /\ L[d].attempts \in 0 .. Limit /\ L[d].faulted \in BOOLEAN
               /\ L[d].internal \in DOMAIN T => T[L[d].internal].number <= L[d].attempts
    <3>1. /\ Live[d].attempts \in 0 .. Limit /\ Live[d].faulted \in BOOLEAN
          /\ Live[d].internal \in DOMAIN T => T[Live[d].internal].number <= Live[d].attempts
      BY <1>3, <1>4 DEF RolloutsOK
    <3>2. CASE d = c
      <4>1. L[d].attempts = Live[d].attempts + 1 /\ L[d].internal = i /\ L[d].faulted = FALSE
        BY <1>4, <3>2
      <4>2. L[d].attempts \in 0 .. Limit
        BY <1>5, <3>2, <4>1
      <4> QED BY <1>1, <4>1, <4>2
    <3>3. CASE d # c
      BY <1>4, <3>1, <3>3
    <3> QED BY <3>2, <3>3
  <2>2. DOMAIN L \subseteq Cookie /\ \A j \in DOMAIN T : \E d \in DOMAIN L : L[d].internal = j
    BY <1>3, <1>4 DEF RolloutsOK
  <2>3. \A d, e \in DOMAIN L : L[d].internal = L[e].internal => d = e
    BY <1>3, <1>4 DEF RolloutsOK
  <2> QED BY <2>1, <2>2, <2>3 DEF RolloutsOK
<1>7. HeldOK(L, T, lapsed')
  BY <1>3, <1>4 DEF HeldOK
<1>8. ~Playable(L, T, c)
  BY <1>1, <1>4 DEF Playable
<1>9. AttemptsLeft(L, T)
  BY <1>3, <1>4, <1>8 DEF AttemptsLeft, Playable
<1>10. FaultsOK(Faults, L) /\ ResetsOK(resets, L, served) /\ c \notin DOMAIN Faults
  <2>1. c \notin DOMAIN Faults
    BY <1>1, <1>2 DEF FaultsOK
  <2>2. FaultsOK(Faults, L)
    BY <1>2, <1>4, <2>1 DEF FaultsOK
  <2> QED BY <1>2, <1>4, <2>1, <2>2 DEF ResetsOK
<1>11. Attempted(c, i, L, T, tally, id)
  <2>1. i \in 1 .. begun
    BY <1>1, <1>3
  <2> PICK once : once = <<i, id, act>>
    OBVIOUS
  <2>2. /\ \A t \in DOMAIN tally : /\ t[1] \in 1 .. begun /\ t[2] # 0
                                   /\ tally[t] = 1 \/ t[1] \in onto
        /\ \A t \in DOMAIN tally : t \in DOMAIN counted \/ (t[1] = i /\ t[2] = id)
    <3>1. /\ c \in DOMAIN Live /\ ~Live[c].faulted /\ i = Live[c].internal
          /\ c \notin DOMAIN Faults /\ ReplyTo(c, id) = {}
          /\ once = <<i, id, act>> /\ tally = Tally(i, id, act)
      BY <1>1, <1>10
    <3> QED BY ONLY NInv, <2>1, <3>1, TallyKeeps
  <2> QED BY <1>1, <1>3, <1>4, <2>2 DEF Attempted
<1>12. /\ RepliesOK(Replies, L, Marks) /\ OwnReplies(L, Replies, Marks, onto)
       /\ CountsOK(L, T, Replies, tally, onto, begun)
  BY <1>8, <1>11, PlayedLost
<1> QED BY <1>1, <1>2, <1>3, <1>6, <1>7, <1>9, <1>10, <1>12, SilentReply, Assembled

-----------------------------------------------------------------------------
(* The inductive invariant                                                 *)

LEMMA NemoStarts == NemoInit => NInv
<1> SUFFICES ASSUME NemoInit PROVE NInv
  OBVIOUS
<1> USE NemoLimits
<1>1. /\ now = 0 /\ manager = Empty /\ state = Empty /\ stepCache = Empty
      /\ closed = <<>> /\ faults = Empty /\ resets = <<>> /\ begun = 0
      /\ reply = NoReply /\ counted = Empty /\ onto = {} /\ served = {} /\ lapsed = {}
  BY DEF NemoInit
<1>2. DOMAIN Empty = {}
  BY DEF Empty
<1>3. ToSet(<<>>) = {}
  BY DEF ToSet
<1>4. SessionsOK(manager, begun, now)
  BY <1>1, <1>2, FS_EmptySet DEF SessionsOK
<1>5. RolloutsOK(state, manager) /\ HeldOK(state, manager, lapsed) /\ AttemptsLeft(state, manager)
  BY <1>1, <1>2 DEF RolloutsOK, HeldOK, AttemptsLeft
<1>6. MarksTyped(closed) /\ Len(closed) <= MaxClosed
  BY <1>1 DEF MarksTyped
<1>7. RepliesOK(stepCache, state, closed) /\ FaultsOK(faults, state)
  BY <1>1, <1>2 DEF RepliesOK, FaultsOK
<1>8. /\ OwnReplies(state, stepCache, closed, onto)
      /\ CountsOK(state, manager, stepCache, counted, onto, begun)
  BY <1>1, <1>2 DEF OwnReplies, CountsOK
<1>9. ResetsOK(resets, state, served)
  BY <1>1, <1>2, <1>3 DEF ResetsOK
<1>10. reply.kind \in {"none", "reset", "moved"} /\ AnswersItsAction /\ HandsOver
  BY <1>1 DEF NoReply, AnswersItsAction, HandsOver
<1> QED BY <1>1, <1>4, <1>5, <1>6, <1>7, <1>8, <1>9, <1>10 DEF NInv

LEMMA NemoStep == NInv /\ [NemoNext]_nemoVars => NInv'
<1> SUFFICES ASSUME NInv, [NemoNext]_nemoVars PROVE NInv'
  OBVIOUS
<1>1. CASE Tick
  BY <1>1, TickKeeps
<1>2. ASSUME NEW c \in Cookie, CloseEndpoint(c) PROVE NInv'
  BY <1>2, CloseEndpointKeeps
<1>3. ASSUME NEW c \in Cookie, NEW k \in Identity, ResetAgain(c, k) PROVE NInv'
  BY <1>3, ResetAgainKeeps
<1>4. ASSUME NEW c \in Cookie, NEW k \in Identity, ResetConflict(c, k) PROVE NInv'
  BY <1>4, OnlyPruned DEF ResetConflict
<1>5. ASSUME NEW c \in Cookie, NEW k \in Identity, NEW fits \in BOOLEAN,
             ResetFresh(c, k, RepresentationOf[k], fits)
      PROVE  NInv'
  BY <1>5, ResetFreshKeeps
<1>6. ASSUME NEW c \in Cookie, StepRefused(c) PROVE NInv'
  BY <1>6, OnlyPruned DEF StepRefused
<1>7. ASSUME NEW c \in Cookie, NEW id \in RequestId, NEW act \in Actions, StepAgain(c, id, act)
      PROVE  NInv'
  BY <1>7, StepAgainKeeps
<1>8. ASSUME NEW c \in Cookie, NEW id \in RequestId, NEW act \in Actions,
             NEW over \in BOOLEAN, NEW fits \in BOOLEAN, StepPlayed(c, id, act, over, fits)
      PROVE  NInv'
  BY <1>8, StepPlayedKeeps
<1>10. ASSUME NEW c \in Cookie, NEW id \in RequestId, NEW act \in Actions, StepLapsed(c, id, act)
       PROVE  NInv'
  BY <1>10, StepLapsedKeeps
<1>9. CASE UNCHANGED nemoVars
  <2>1. /\ now' = now /\ manager' = manager /\ state' = state /\ stepCache' = stepCache
        /\ closed' = closed /\ faults' = faults /\ resets' = resets /\ begun' = begun
        /\ reply' = reply /\ counted' = counted /\ onto' = onto /\ served' = served
        /\ lapsed' = lapsed
    BY <1>9 DEF nemoVars, srvVars
  <2> QED BY <2>1 DEF NInv, AnswersItsAction, HandsOver, OneTaskPerCookie
<1> QED BY <1>1, <1>2, <1>3, <1>4, <1>5, <1>6, <1>7, <1>8, <1>9, <1>10 DEF NemoNext

LEMMA NemoInvariant == NemoSpec => []NInv
<1> QED BY NemoStarts, NemoStep, PTL DEF NemoSpec

-----------------------------------------------------------------------------
(* The representation a rollout is shown in                                *)

IsPresenter(p) == "representation" \in DOMAIN p

\* Rendering, failed or not, leaves a presenter its representation.
LEMMA RenderKeeps ==
    ASSUME NEW p, IsPresenter(p), NEW o, NEW fits
    PROVE  LET q == Render(p, o, fits).presenter
           IN  IsPresenter(q) /\ q.representation = p.representation
<1> DEFINE a == AtEpisode(p, o)
           up == Update(a.memory, FrameOf(a, o), {})
           shown == [a EXCEPT !.memory = up.mem, !.lastParent = a.last, !.last = o.decision]
           failed == [a EXCEPT !.memory = EmptyMemory, !.last = None, !.lastParent = None]
<1>1. IsPresenter(a) /\ a.representation = p.representation
  BY DEF IsPresenter, AtEpisode, NewPresenter
<1>2. Render(p, o, fits).presenter \in {p, a, shown, failed}
  BY DEF Render
<1> HIDE DEF a, up
<1>3. IsPresenter(shown) /\ shown.representation = a.representation
  BY <1>1 DEF IsPresenter
<1>4. IsPresenter(failed) /\ failed.representation = a.representation
  BY <1>1 DEF IsPresenter
<1> QED BY <1>1, <1>2, <1>3, <1>4

\* The rollouts live show what they showed before.
StillShown(live, before) ==
    \A c \in DOMAIN live :
        /\ c \in DOMAIN before /\ IsPresenter(live[c].presenter)
        /\ live[c].presenter.representation = before[c].presenter.representation

AsAsked(live, tasks) ==
    \A s \in tasks :
        s[1] \in DOMAIN live => live[s[1]].presenter.representation = RepresentationOf[s[2]]

\* While no cookie served two tasks, each rollout is shown as its task asks.
ShownInv ==
    /\ \A c \in DOMAIN state : IsPresenter(state[c].presenter)
    /\ OneTask(served) => AsAsked(state, served)
    /\ reply.kind = "reset" => <<reply.cookie, reply.key>> \in served

LEMMA LiveStillShown == ASSUME ShownInv PROVE StillShown(Live, state)
BY DEF Live, Without, Restrict, ShownInv, StillShown

LEMMA WithoutStillShown ==
    ASSUME NEW live, NEW before, StillShown(live, before), NEW xs
    PROVE  StillShown(Without(live, xs), before)
BY DEF Without, Restrict, StillShown

\* A handler that resets nothing.
LEMMA StillShownKeeps ==
    ASSUME ShownInv, StillShown(state', state), served' = served, reply'.kind # "reset"
    PROVE  ShownInv'
BY DEF ShownInv, StillShown, AsAsked, OneTask

LEMMA AnswerStillShown ==
    ASSUME NEW r, NEW act, NEW c, NEW marks, NEW replies, NEW sessions, NEW live,
           StillShown(live, state), Answer(r, act, c, marks, replies, sessions, live)
    PROVE  StillShown(state', state) /\ reply'.kind # "reset"
<1>1. reply'.kind # "reset"
  BY DEF Answer, NoReply
<1>2. state' = live \/ state' = Without(live, {c})
  BY DEF Answer, Close
<1> QED BY <1>1, <1>2, WithoutStillShown

\* An answered reset for k under c, of a rollout that shows what k asks for.
LEMMA ResetShown ==
    ASSUME ShownInv, NEW c, NEW k,
           served' = served \cup {<<c, k>>},
           reply'.kind = "reset" => reply'.cookie = c /\ reply'.key = k,
           \A d \in DOMAIN state' : IsPresenter(state'[d].presenter),
           OneTask(served') /\ c \in DOMAIN state' =>
               state'[c].presenter.representation = RepresentationOf[k],
           \A d \in DOMAIN state' : d # c =>
               d \in DOMAIN state
               /\ state'[d].presenter.representation = state[d].presenter.representation
    PROVE  ShownInv'
<1>1. OneTask(served') => OneTask(served)
  BY DEF OneTask
<1>2. ASSUME OneTask(served'), NEW s \in served', s[1] \in DOMAIN state'
      PROVE  state'[s[1]].presenter.representation = RepresentationOf[s[2]]
  <2>1. CASE s[1] = c
    <3>1. s = <<c, k>>
      BY <1>2, <2>1 DEF OneTask
    <3> QED BY <1>2, <3>1
  <2>2. CASE s[1] # c
    <3>1. s \in served
      BY <2>2
    <3>2. s[1] \in DOMAIN state
          /\ state'[s[1]].presenter.representation = state[s[1]].presenter.representation
      BY <1>2, <2>2
    <3>3. AsAsked(state, served)
      BY <1>1, <1>2 DEF ShownInv
    <3> QED BY <3>1, <3>2, <3>3 DEF AsAsked
  <2> QED BY <2>1, <2>2
<1> QED BY <1>2 DEF ShownInv, AsAsked

LEMMA ResetAgainShown ==
    ASSUME NInv, ShownInv, NEW c \in Cookie, NEW k \in Identity, ResetAgain(c, k)
    PROVE  ShownInv'
<1>1. PICK r \in Cached(k) :
        /\ r.cookie = c \/ c \notin DOMAIN Live
        /\ state' = IF r.cookie = c THEN Live ELSE MoveState(r.cookie, c)
        /\ reply' = ResetReply(c, k, r.internal)
        /\ served' = served \cup {<<c, k>>}
  BY DEF ResetAgain
<1>2. <<r.cookie, k>> \in served /\ r.cookie \in DOMAIN Live
  BY <1>1 DEF Cached, NInv, ResetsOK
<1>3. /\ DOMAIN Live \subseteq DOMAIN state
      /\ \A d \in DOMAIN Live : /\ Live[d] = state[d] /\ IsPresenter(Live[d].presenter)
  BY DEF Live, Without, Restrict, ShownInv
<1>4. OneTask(served') => Live[r.cookie].presenter.representation = RepresentationOf[k]
  <2>1. OneTask(served') => OneTask(served)
    BY <1>1 DEF OneTask
  <2> QED BY <1>2, <1>3, <2>1 DEF ShownInv, AsAsked
<1>5. reply'.kind = "reset" => reply'.cookie = c /\ reply'.key = k
  BY <1>1 DEF ResetReply
<1>6. /\ \A d \in DOMAIN state' : IsPresenter(state'[d].presenter)
      /\ c \in DOMAIN state' /\ state'[c] = Live[r.cookie]
      /\ \A d \in DOMAIN state' : d # c => d \in DOMAIN state /\ state'[d] = state[d]
  BY <1>1, <1>2, <1>3 DEF MoveState, Put, Without, Restrict
<1>7. OneTask(served') /\ c \in DOMAIN state' =>
          state'[c].presenter.representation = RepresentationOf[k]
  BY <1>4, <1>6
<1>8. \A d \in DOMAIN state' : d # c =>
          d \in DOMAIN state
          /\ state'[d].presenter.representation = state[d].presenter.representation
  BY <1>6
<1>9. /\ served' = served \cup {<<c, k>>}
      /\ \A d \in DOMAIN state' : IsPresenter(state'[d].presenter)
  BY <1>1, <1>6
<1> QED BY ONLY ShownInv, <1>5, <1>7, <1>8, <1>9, ResetShown

LEMMA ResetFreshShown ==
    ASSUME ShownInv, NEW c \in Cookie, NEW k \in Identity, NEW fits \in BOOLEAN,
           ResetFresh(c, k, RepresentationOf[k], fits)
    PROVE  ShownInv'
<1> DEFINE rep == RepresentationOf[k]
           i == begun + 1
           first == Render(NewPresenter(rep), Observation(i, 0), fits)
           new == [internal |-> i, attempts |-> 0, faulted |-> FALSE,
                   presenter |-> first.presenter]
<1>1. /\ \/ state' = Put(Live, c, new) /\ reply' = ResetReply(c, k, i)
         \/ state' = Without(Live, {c}) /\ reply' = NoReply
      /\ served' = served \cup {<<c, k>>}
  BY DEF ResetFresh
<1>2. IsPresenter(first.presenter) /\ first.presenter.representation = rep
  <2>1. IsPresenter(NewPresenter(rep)) /\ NewPresenter(rep).representation = rep
    BY DEF IsPresenter, NewPresenter
  <2> QED BY <2>1, RenderKeeps
<1> HIDE DEF first
<1>3. /\ DOMAIN Live \subseteq DOMAIN state
      /\ \A d \in DOMAIN Live : Live[d] = state[d] /\ IsPresenter(Live[d].presenter)
  BY DEF Live, Without, Restrict, ShownInv
<1>4. new.presenter = first.presenter
  OBVIOUS
<1> HIDE DEF new
<1>5. reply'.kind = "reset" => reply'.cookie = c /\ reply'.key = k
  BY <1>1 DEF ResetReply, NoReply
<1>6. /\ \A d \in DOMAIN state' : d = c \/ (d \in DOMAIN Live /\ state'[d] = Live[d])
      /\ c \in DOMAIN state' => state'[c] = new
  BY <1>1 DEF Put, Without, Restrict
<1>7. \A d \in DOMAIN state' : IsPresenter(state'[d].presenter)
  BY <1>2, <1>3, <1>4, <1>6
<1>8. c \in DOMAIN state' => state'[c].presenter.representation = RepresentationOf[k]
  BY <1>2, <1>4, <1>6
<1>9. \A d \in DOMAIN state' : d # c => d \in DOMAIN state
        /\ state'[d].presenter.representation = state[d].presenter.representation
  BY <1>3, <1>6
<1> QED BY <1>1, <1>5, <1>7, <1>8, <1>9, ResetShown

LEMMA StepPlayedShown ==
    ASSUME ShownInv, NEW c \in Cookie, NEW id \in RequestId, NEW act \in Actions,
           NEW over \in BOOLEAN, NEW fits \in BOOLEAN, StepPlayed(c, id, act, over, fits)
    PROVE  ShownInv'
<1> DEFINE i == Live[c].internal
           n == Reaped[i].number
           moves == act = <<i, n>>
           m == IF moves THEN n + 1 ELSE n
           attempts == Live[c].attempts + 1
           view == Render(Live[c].presenter, Observation(i, m), fits)
           r == [id |-> id, act |-> act, internal |-> i,
                 at |-> IF moves THEN <<i, m>> ELSE None,
                 ended |-> (moves /\ (over \/ m >= Limit)) \/ Capped(attempts)]
           S == [ReapedAt(now') EXCEPT ![i] = [used |-> now', number |-> m]]
           new == [internal |-> i, attempts |-> attempts,
                   faulted |-> ~view.ok, presenter |-> view.presenter]
           L == [Live EXCEPT ![c] = new]
<1>1. /\ c \in DOMAIN Live /\ served' = served
      /\ \/ Answer(r, act, c, Marks, Kept(c, r), S, L)
         \/ state' = L /\ reply' = NoReply
  BY DEF StepPlayed, Attempts
<1>2. StillShown(Live, state)
  BY LiveStillShown
<1>3. IsPresenter(new.presenter)
      /\ new.presenter.representation = Live[c].presenter.representation
  <2>1. IsPresenter(Live[c].presenter)
    BY <1>1, <1>2 DEF StillShown
  <2> HIDE DEF m
  <2> QED BY <2>1, RenderKeeps
<1> HIDE DEF new, r, S
<1>4. StillShown(L, state)
  BY <1>1, <1>2, <1>3 DEF StillShown
<1> HIDE DEF L
<1>5. StillShown(state', state) /\ reply'.kind # "reset"
  BY <1>1, <1>4, AnswerStillShown DEF NoReply
<1> QED BY <1>1, <1>5, StillShownKeeps

LEMMA ShownStep == NInv /\ ShownInv /\ [NemoNext]_nemoVars => ShownInv'
<1> SUFFICES ASSUME NInv, ShownInv, [NemoNext]_nemoVars PROVE ShownInv'
  OBVIOUS
<1>1. StillShown(Live, state) /\ StillShown(state, state)
  BY LiveStillShown DEF ShownInv, StillShown
<1>2. NoReply.kind # "reset"
  BY DEF NoReply
<1>3. CASE Tick
  <2>1. state' = state /\ served' = served /\ reply' = NoReply
    BY <1>3 DEF Tick, srvVars
  <2> QED BY <1>1, <1>2, <2>1, StillShownKeeps
<1>4. ASSUME NEW c \in Cookie, CloseEndpoint(c) PROVE ShownInv'
  <2>1. state' = Without(state, {c}) /\ served' = served /\ reply' = NoReply
    BY <1>4 DEF CloseEndpoint, Close
  <2> QED BY <1>1, <1>2, <2>1, WithoutStillShown, StillShownKeeps
<1>5. ASSUME NEW c \in Cookie, NEW k \in Identity, ResetAgain(c, k) PROVE ShownInv'
  BY <1>5, ResetAgainShown
<1>6. ASSUME NEW c \in Cookie, NEW k \in Identity, ResetConflict(c, k) PROVE ShownInv'
  BY <1>1, <1>2, <1>6, StillShownKeeps DEF ResetConflict
<1>7. ASSUME NEW c \in Cookie, NEW k \in Identity, NEW fits \in BOOLEAN,
             ResetFresh(c, k, RepresentationOf[k], fits)
      PROVE  ShownInv'
  BY <1>7, ResetFreshShown
<1>8. ASSUME NEW c \in Cookie, StepRefused(c) PROVE ShownInv'
  BY <1>1, <1>2, <1>8, StillShownKeeps DEF StepRefused
<1>9. ASSUME NEW c \in Cookie, NEW id \in RequestId, NEW act \in Actions, StepAgain(c, id, act)
      PROVE  ShownInv'
  <2>1. PICK r : Answer(r, act, c, Touched(c), Replies, Reaped, Live) /\ served' = served
    BY <1>9 DEF StepAgain
  <2>2. StillShown(state', state) /\ reply'.kind # "reset"
    BY <1>1, <2>1, AnswerStillShown
  <2> QED BY <2>1, <2>2, StillShownKeeps
<1>10. ASSUME NEW c \in Cookie, NEW id \in RequestId, NEW act \in Actions,
              NEW over \in BOOLEAN, NEW fits \in BOOLEAN, StepPlayed(c, id, act, over, fits)
       PROVE  ShownInv'
  BY <1>10, StepPlayedShown
<1>12. ASSUME NEW c \in Cookie, NEW id \in RequestId, NEW act \in Actions, StepLapsed(c, id, act)
       PROVE  ShownInv'
  <2> PICK L : L = [Live EXCEPT ![c] = [internal |-> Live[c].internal,
                                        attempts |-> Live[c].attempts + 1,
                                        faulted |-> FALSE, presenter |-> Live[c].presenter]]
    OBVIOUS
  <2>1. c \in DOMAIN Live /\ state' = L /\ served' = served /\ reply' = NoReply
    BY <1>12 DEF StepLapsed, Attempts
  <2>2. DOMAIN L = DOMAIN Live /\ \A d \in DOMAIN L : L[d].presenter = Live[d].presenter
    BY <2>1
  <2>3. StillShown(L, state)
    BY <1>1, <2>2 DEF StillShown
  <2> QED BY <1>2, <2>1, <2>3, StillShownKeeps
<1>11. CASE UNCHANGED nemoVars
  BY <1>11 DEF nemoVars, srvVars, ShownInv, AsAsked, OneTask
<1> QED BY <1>3, <1>4, <1>5, <1>6, <1>7, <1>8, <1>9, <1>10, <1>11, <1>12 DEF NemoNext

LEMMA ShownInvariant == NemoSpec => []ShownInv
<1>1. NemoInit => ShownInv
  BY DEF NemoInit, Empty, NoReply, ShownInv, AsAsked
<1> QED BY <1>1, ShownStep, NemoInvariant, PTL DEF NemoSpec

-----------------------------------------------------------------------------
(* The theorems                                                            *)

\* Every variable keeps its type, and the caches of replies, resets and marks
\* of the adapter (app.py) keep within their sizes.
THEOREM NemoTypes == NemoSpec => []NemoTypeOK
<1>1. NInv => NemoTypeOK
  <2> SUFFICES ASSUME NInv PROVE NemoTypeOK
    OBVIOUS
  <2>1. now \in 0 .. MaxTime /\ begun \in 0 .. MaxInternal /\ reply.kind \in {"none", "reset", "moved"}
    BY DEF NInv
  <2>2. /\ DOMAIN manager \subseteq 1 .. begun
        /\ \A i \in DOMAIN manager : manager[i].used \in 0 .. now /\ manager[i].number \in 0 .. Limit
    BY DEF NInv, SessionsOK
  <2>3. MarksTyped(closed) /\ RolloutsOK(state, manager)
    BY DEF NInv
  <2>4. Cookies(closed) \subseteq Cookie
    BY <2>3, CookiesAre
  <2>5. DOMAIN state \cup DOMAIN stepCache \cup DOMAIN faults \subseteq Cookie
    BY <2>3, <2>4 DEF NInv, RolloutsOK, RepliesOK, FaultsOK
  <2>6. \A c \in DOMAIN state : state[c].attempts \in Nat /\ state[c].faulted \in BOOLEAN
    <3>1. \A c \in DOMAIN state : state[c].attempts \in 0 .. Limit /\ state[c].faulted \in BOOLEAN
      BY <2>3 DEF RolloutsOK
    <3>2. \A x \in 0 .. Limit : x \in Nat
      BY NemoLimits
    <3> QED BY <3>1, <3>2, Zenon
  <2>7. \A c \in DOMAIN stepCache : Len(stepCache[c]) \in 1 .. MaxReplies
    BY DEF NInv, RepliesOK
  <2>8. Len(resets) \in 0 .. MaxResets /\ Len(closed) \in 0 .. MaxClosed
    BY NemoLimits DEF NInv, ResetsOK, MarksTyped
  <2>9. ToSet(closed) \subseteq MarkType /\ ToSet(resets) \subseteq EntryType
    BY MembersOf DEF NInv, MarksTyped, ResetsOK
  <2>10. /\ onto \cup lapsed \subseteq 1 .. begun /\ served \subseteq Cookie \X Identity
         /\ \A t \in DOMAIN counted : t[1] \in 1 .. begun
    BY DEF NInv, CountsOK
  <2>11. /\ ToSet(closed) \subseteq [cookie : Cookie, at : Nat]
         /\ ToSet(resets) \subseteq [key : Identity \ {0}, cookie : Cookie, internal : Nat]
    BY <2>9, Zenon DEF MarkType, EntryType
  <2> QED BY <2>1, <2>2, <2>5, <2>6, <2>7, <2>8, <2>10, <2>11, Zenon DEF NemoTypeOK
<1> QED BY <1>1, NemoInvariant, PTL

\* Sessions are neither leaked nor shared: each open session of the manager
\* (sessions.py) is held by one cookie, and each cookie holds an open session or
\* one that expired under a handler, through failed and retried resets, expiry
\* and closing; and no reply is kept where pruning cannot find it.
THEOREM EverySessionOwned == NemoSpec => []SessionsOwned
<1>1. NInv => SessionsOwned
  BY DEF NInv, SessionsOwned, HeldOK, RolloutsOK, SessionsOK, RepliesOK
<1> QED BY <1>1, NemoInvariant, PTL

\* The transition a client is told of is the one out of the decision its action
\* names, cached or not, before and after the rollout is closed (_cached_step).
THEOREM EveryAnswerItsAction == NemoSpec => []AnswersItsAction
<1>1. NInv => AnswersItsAction
  BY DEF NInv
<1> QED BY <1>1, NemoInvariant, PTL

\* A repeated step request is not counted twice while its reply is within the
\* cache (_step_cache) and its rollout was not moved onto a mark.
THEOREM NothingCountedTwice == NemoSpec => []CountedOnce
<1>1. NInv => CountedOnce
  <2> SUFFICES ASSUME NInv PROVE CountedOnce
    OBVIOUS
  <2>1. \A t \in DOMAIN counted : counted[t] = 1 \/ t[1] \in onto
    BY DEF NInv, CountsOK
  <2>2. \A c \in DOMAIN state : /\ state[c].attempts <= Limit
                                /\ state[c].attempts = Limit =>
                                     state[c].faulted \/ state[c].internal \notin DOMAIN manager
    <3> TAKE c \in DOMAIN state
    <3>1. /\ state[c].attempts \in 0 .. Limit
          /\ ~state[c].faulted /\ state[c].internal \in DOMAIN manager =>
                state[c].attempts < Limit
      BY DEF NInv, RolloutsOK, AttemptsLeft, Playable
    <3> QED BY <3>1, NemoLimits
  <2> QED BY <2>1, <2>2 DEF CountedOnce
<1> QED BY <1>1, NemoInvariant, PTL

\* The cookie of an answered reset holds an open rollout, the one it was shown
\* and in its task's representation, unless the cookie was reset for another
\* task too (reset in app.py).
THEOREM EveryResetHandsOver == NemoSpec => []ResetHandsOver
<1>1. NInv /\ ShownInv => ResetHandsOver
  <2> SUFFICES ASSUME NInv, ShownInv, reply.kind = "reset"
               PROVE  /\ reply.cookie \in DOMAIN state
                      /\ OneTaskPerCookie =>
                            /\ state[reply.cookie].internal = reply.internal
                            /\ state[reply.cookie].presenter.representation
                                 = RepresentationOf[reply.key]
    BY DEF ResetHandsOver
  <2>1. /\ reply.cookie \in DOMAIN state
        /\ OneTaskPerCookie => state[reply.cookie].internal = reply.internal
    BY DEF NInv, HandsOver
  <2>2. <<reply.cookie, reply.key>> \in served
    BY DEF ShownInv
  <2>3. OneTaskPerCookie => AsAsked(state, served)
    BY DEF ShownInv, OneTaskPerCookie, OneTask
  <2> QED BY <2>1, <2>2, <2>3 DEF AsAsked
<1> QED BY <1>1, NemoInvariant, ShownInvariant, PTL
=============================================================================
