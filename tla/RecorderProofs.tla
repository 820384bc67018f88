--------------------------- MODULE RecorderProofs ---------------------------
(***************************************************************************)
(* Proofs about Recorder for every budget and every number of scopes: the  *)
(* stamps, the tree of scopes, the truth of the record and of the spans it *)
(* is projected to, whatever writes fail and whenever.                     *)
(*                                                                         *)
(* RInv is inductive.  It speaks of every line of the file: what a start   *)
(* or an end may say (StoryInv), and, until a line that was not flushed    *)
(* reaches the file, under which scopes it may stand (NestInv).            *)
(***************************************************************************)
EXTENDS Recorder, WellFoundedInduction, FiniteSetTheorems, SequenceTheorems, TLAPS

-----------------------------------------------------------------------------
(* The inductive invariant                                                 *)

Lines == 1 .. Len(file)
Ev(k) == file[k].event

Categories == {"agent", "function", "tool", "llm"}
Tales == {"nothing", "result", "outcome", "error", "failed", "type", "final"}
Events == [kind : {"start", "end", "mark"}, id : Nat, parent : Nat,
           category : Categories \cup {"mark"}, tells : Tales]

\* Stamps increase from line to line, though the clock stands still or goes back.
Stamped ==
    /\ file \in Seq([time : Nat, event : Events]) /\ last \in 0 .. MaxStamp
    /\ \A k \in Lines : file[k].time \in 1 .. last
    /\ \A j, k \in Lines : j < k => file[j].time < file[k].time

\* How an operation may be cut short.
Cuts == {"refused", "kept", "interrupted"}

\* Types, and how the counters and the root bound the rest of the state.
Counted ==
    /\ events \in 0 .. MaxEvents /\ events <= Len(file)
    /\ ids \in 0 .. MaxScopes /\ root \in 0 .. ids
    /\ rootClosed \in BOOLEAN /\ closed \in BOOLEAN
    /\ env \in [holds : BOOLEAN, uncertain : BOOLEAN]
    /\ calls \subseteq 1 .. ids /\ root \notin calls
    /\ ran \subseteq [tool : 1 .. ids, outcome : Results]
    /\ failed \subseteq Outcomes \cup {"interrupted"}
    /\ root = NoRoot => file = <<>> /\ calls = {} /\ ran = {} /\ rootClosed = FALSE
    /\ calls # {} /\ ~closed => ~rootClosed

Tools == {r.tool : r \in ran}

\* The scope x has its start among the first k lines.
Began(x, k) == \E j \in 1 .. k : Ev(j).kind = "start" /\ Ev(j).id = x

\* A start names a new scope of its kind; that of a tool follows the start of
\* the decision it belongs to, which is the parent it names.
StartOK(k) ==
    LET e == Ev(k) IN
    e.kind = "start" =>
        /\ e.id \in 1 .. ids
        /\ \A j \in 1 .. k - 1 : Ev(j).kind = "start" => Ev(j).id # e.id
        /\ e.category \in Categories
        /\ e.category = "agent" => e.parent = 0 /\ e.id = root
        /\ e.category # "agent" => e.id # root
        /\ e.category \in {"function", "llm"} => e.parent = root
        /\ e.category = "tool" => k > 1 /\ Ev(k - 1) = Start(e.parent, root, "function")

\* The end of a tool follows its start, and tells what the environment did for it.
EndOK(k) ==
    LET e == Ev(k) IN
    e.kind = "end" =>
        /\ e.id \in 1 .. ids
        /\ e.category = "tool" =>
              /\ e.tells \in {"result", "error"} /\ Began(e.id, k - 1)
              /\ \E r \in ran : r.tool = e.id /\ (e.tells = "result" <=> r.outcome = "ok")
        /\ e.category # "tool" => e.id \notin Tools

\* What env.step did is noted once for each tool, and announced in the file.
ToolsApart ==
    /\ \A r, q \in ran : r.tool = q.tool => r = q
    /\ calls \cap Tools = {} /\ root \notin Tools
    /\ \A r \in ran : \E j \in Lines : Ev(j).kind = "start" /\ Ev(j).id = r.tool

StoryInv == /\ \A k \in Lines : StartOK(k) /\ EndOK(k)
            /\ ToolsApart

\* Of the first k lines, like Began.
Ceased(x, k) == \E j \in 1 .. k : Ev(j).kind = "end" /\ Ev(j).id = x
OpenAt(x, k) == Began(x, k) /\ ~Ceased(x, k)

\* The start of the root was refused.
Rootless == root # NoRoot /\ ~Began(root, Len(file))

Nested(k) ==
    LET e == Ev(k) IN
    /\ e.kind = "end" => OpenAt(e.id, k - 1) \/ (e.id = root /\ Rootless)
    /\ e.parent = 0 \/ OpenAt(e.parent, k - 1) \/ (e.parent = root /\ Rootless)

RootOpen == root # NoRoot /\ ~rootClosed

\* While no unflushed line has reached the file, scopes nest.  Open are the
\* calls and the root only while no write has failed at all.
NestInv ==
    /\ "kept" \notin failed =>
        /\ \A k \in Lines : Nested(k)
        /\ \A c \in calls : OpenAt(c, Len(file))
        /\ RootOpen => ~Ceased(root, Len(file))
        /\ \A x \in 1 .. ids : OpenAt(x, Len(file)) /\ failed = {}
                              => x \in calls \/ (RootOpen /\ x = root)
    /\ failed = {} /\ RootOpen => Began(root, Len(file))

RInv == Stamped /\ Counted /\ StoryInv /\ NestInv
-----------------------------------------------------------------------------
(* What a write adds.                                                      *)

\* Induction over the naturals, for a set.
LEMMA SetInduction ==
    ASSUME NEW S, 0 \in S, \A n \in Nat : n \in S => n + 1 \in S
    PROVE  \A n \in Nat : n \in S
<1> DEFINE T == Nat \ S
           R == OpToRel(<, Nat)
<1>1. SUFFICES ASSUME T # {} PROVE FALSE
  OBVIOUS
<1>2. IsWellFoundedOn(R, Nat)
  BY NatLessThanWellFounded
<1>3. PICK x \in T : \A y \in T : ~(<<y, x>> \in R)
  <2> HIDE DEF R, T
  <2>1. T \subseteq Nat
    BY DEF T
  <2> QED BY <1>1, <1>2, <2>1, WFMin
<1>4. x # 0 /\ x - 1 \in Nat
  OBVIOUS
<1>5. x - 1 \in T
  BY <1>4
<1>6. <<x - 1, x>> \in R
  BY <1>4 DEF OpToRel
<1> QED BY <1>3, <1>5, <1>6

\* The recursion of the stamps has a solution, hence does what it says.
LEMMA StampsStepwise ==
    ASSUME NEW previous, NEW walls
    PROVE  /\ Stamps(previous, walls)[0] = previous
           /\ \A n \in Nat : Stamps(previous, walls)[n + 1] = Stamp(Stamps(previous, walls)[n], walls[n + 1])
<1> DEFINE Upto(h, n) == /\ h[0] = previous
                         /\ \A k \in 0 .. n - 1 : h[k + 1] = Stamp(h[k], walls[k + 1])
<1>1. \A n \in Nat : \E h : Upto(h, n)
  <2> DEFINE S == {n \in Nat : \E h : Upto(h, n)}
  <2>1. 0 \in S
    <3> DEFINE h == [k \in 0 .. 0 |-> previous]
    <3>1. Upto(h, 0)
      OBVIOUS
    <3> QED BY <3>1
  <2>2. ASSUME NEW n \in Nat, n \in S PROVE n + 1 \in S
    <3>1. PICK h : Upto(h, n)
      BY <2>2
    <3>5. PICK g : g = [k \in 0 .. n + 1 |-> IF k = n + 1 THEN Stamp(h[n], walls[n + 1]) ELSE h[k]]
      OBVIOUS
    <3>2. g[0] = previous
      BY <3>1, <3>5
    <3>3. ASSUME NEW k \in 0 .. n + 1 - 1 PROVE g[k + 1] = Stamp(g[k], walls[k + 1])
      <4>1. CASE k = n
        BY <3>5, <4>1
      <4>2. CASE k # n
        <5>1. k \in 0 .. n - 1 /\ k + 1 \in 0 .. n + 1 /\ k + 1 # n + 1 /\ k # n + 1
          BY <4>2
        <5>2. g[k + 1] = h[k + 1] /\ g[k] = h[k]
          BY <3>5, <5>1
        <5> QED BY <3>1, <5>1, <5>2
      <4> QED BY <4>1, <4>2
    <3>4. Upto(g, n + 1)
      BY <3>2, <3>3
    <3> QED BY <3>4
  <2> HIDE DEF S
  <2>3. \A n \in Nat : n \in S
    BY <2>1, <2>2, SetInduction
  <2> QED BY <2>3 DEF S
<1>2. ASSUME NEW n \in Nat, NEW m \in Nat, NEW h, NEW g, Upto(h, n), Upto(g, m)
      PROVE  \A k \in Nat : k <= n /\ k <= m => h[k] = g[k]
  <2> DEFINE S == {k \in Nat : k <= n /\ k <= m => h[k] = g[k]}
  <2>1. 0 \in S
    BY <1>2
  <2>2. ASSUME NEW k \in Nat, k \in S PROVE k + 1 \in S
    <3>1. SUFFICES ASSUME k + 1 <= n, k + 1 <= m PROVE h[k + 1] = g[k + 1]
      OBVIOUS
    <3>2. h[k] = g[k] /\ k \in 0 .. n - 1 /\ k \in 0 .. m - 1
      BY <2>2, <3>1
    <3> QED BY <1>2, <3>2
  <2> HIDE DEF S
  <2>3. \A k \in Nat : k \in S
    BY <2>1, <2>2, SetInduction
  <2> QED BY <2>3 DEF S
<1> DEFINE part(n) == CHOOSE h : Upto(h, n)
           g == [n \in Nat |-> part(n)[n]]
<1>3. \A n \in Nat : Upto(part(n), n)
  BY <1>1, Zenon
<1>4. g = [n \in Nat |-> IF n = 0 THEN previous ELSE Stamp(g[n - 1], walls[n])]
  <2> HIDE DEF part
  <2>1. ASSUME NEW n \in Nat
        PROVE  g[n] = IF n = 0 THEN previous ELSE Stamp(g[n - 1], walls[n])
    <3>1. CASE n = 0
      BY <1>3, <3>1
    <3>2. CASE n # 0
      <4>1. n - 1 \in Nat /\ n - 1 \in 0 .. n - 1
        BY <3>2
      <4>2. part(n)[n] = Stamp(part(n)[n - 1], walls[n])
        BY <1>3, <4>1
      <4>3. part(n)[n - 1] = part(n - 1)[n - 1]
        <5> HIDE DEF Upto
        <5> QED BY <1>2, <1>3, <4>1
      <4> QED BY <3>2, <4>1, <4>2, <4>3
    <3> QED BY <3>1, <3>2
  <2> HIDE DEF g
  <2>2. g = [n \in Nat |-> g[n]]
    BY DEF g
  <2> QED BY <2>1, <2>2, Zenon
<1> HIDE DEF g
<1>5. Stamps(previous, walls) = [n \in Nat |-> IF n = 0 THEN previous ELSE Stamp(Stamps(previous, walls)[n - 1], walls[n])]
  BY <1>4, Zenon DEF Stamps
<1> HIDE DEF Upto
<1>6. \A n \in Nat : n + 1 \in Nat /\ n + 1 # 0 /\ (n + 1) - 1 = n
  OBVIOUS
<1> DEFINE q == Stamps(previous, walls)
<1> HIDE DEF q
<1>7. q = [n \in Nat |-> IF n = 0 THEN previous ELSE Stamp(q[n - 1], walls[n])]
  BY <1>5 DEF q
<1>8. \A n \in Nat : q[n] = IF n = 0 THEN previous ELSE Stamp(q[n - 1], walls[n])
  BY <1>7, Zenon
<1>9. q[0] = previous /\ \A n \in Nat : q[n + 1] = Stamp(q[n], walls[n + 1])
  BY <1>6, <1>8
<1> QED BY <1>9 DEF q

\* The numbers times[0], ..., times[n] increase.
Rising(times, n) ==
    /\ \A j \in 0 .. n : times[j] \in Nat
    /\ \A i, j \in 0 .. n : i < j => times[i] < times[j]

\* The stamps increase, whatever the clock reads.
LEMMA StampsRise ==
    ASSUME NEW previous \in Nat, NEW n \in Nat, NEW walls, \A j \in 1 .. n : walls[j] \in Nat
    PROVE  Stamps(previous, walls)[0] = previous /\ Rising(Stamps(previous, walls), n)
<1>s. PICK times : times = Stamps(previous, walls)
  OBVIOUS
<1>t. times[0] = previous /\ \A j \in Nat : times[j + 1] = Stamp(times[j], walls[j + 1])
  <2>1. /\ Stamps(previous, walls)[0] = previous
        /\ \A j \in Nat : Stamps(previous, walls)[j + 1] = Stamp(Stamps(previous, walls)[j], walls[j + 1])
    BY StampsStepwise
  <2> QED BY <1>s, <2>1, Zenon
<1> DEFINE S == {j \in Nat : j <= n => /\ \A i \in 0 .. j : times[i] \in Nat
                                      /\ \A i \in 0 .. j - 1 : times[i] < times[j]}
<1>1. 0 \in S
  <2>1. \A i \in 0 .. 0 : i = 0
    OBVIOUS
  <2>2. \A i : i \notin 0 .. 0 - 1
    OBVIOUS
  <2> QED BY <1>t, <2>1, <2>2
<1>2. ASSUME NEW j \in Nat, j \in S PROVE j + 1 \in S
  <2>1. SUFFICES ASSUME j + 1 <= n
                 PROVE  /\ \A i \in 0 .. j + 1 : times[i] \in Nat
                        /\ \A i \in 0 .. j + 1 - 1 : times[i] < times[j + 1]
    OBVIOUS
  <2>2. /\ \A i \in 0 .. j : times[i] \in Nat /\ (i # j => times[i] < times[j])
        /\ walls[j + 1] \in Nat
    BY <1>2, <2>1
  <2>3. times[j] \in Nat /\ times[j + 1] \in Nat /\ times[j] < times[j + 1]
    <3>1. times[j] \in Nat
      BY <2>2
    <3>2. times[j + 1] = Stamp(times[j], walls[j + 1])
      BY <1>t
    <3> QED BY <2>2, <3>1, <3>2 DEF Stamp
  <2>4. ASSUME NEW i \in 0 .. j PROVE times[i] \in Nat /\ times[i] < times[j + 1]
    BY <2>2, <2>3
  <2> QED BY <2>3, <2>4
<1> HIDE DEF S
<1>3. \A j \in Nat : j \in S
  BY <1>1, <1>2, SetInduction
<1>4. ASSUME NEW i \in 0 .. n, NEW j \in 0 .. n, i < j PROVE times[i] < times[j]
  <2>1. j \in S /\ i \in 0 .. j - 1
    BY <1>3, <1>4
  <2> QED BY <2>1 DEF S
<1>5. \A j \in 0 .. n : times[j] \in Nat
  BY <1>3 DEF S
<1> QED BY <1>s, <1>t, <1>4, <1>5 DEF Rising

\* The readings of a clock are numbers.
LEMMA ReadingsAreNat == \A wall \in Readings : wall \in Nat
  BY RecorderTimes DEF Readings

\* A function on 1 .. n is a sequence of length n.
LEMMA FunctionIsSeq ==
    ASSUME NEW S, NEW n \in Nat, NEW f \in [1 .. n -> S]
    PROVE  f \in Seq(S) /\ Len(f) = n
<1>1. f \in Seq(S)
  BY SeqDef
<1>2. DOMAIN f = 1 .. n /\ DOMAIN f = 1 .. Len(f) /\ Len(f) \in Nat
  BY <1>1
<1> QED BY <1>1, <1>2

\* The first m of es are now at the end of the file.
Grown(es, m) ==
    /\ file' \in Seq([time : Nat, event : Events])
    /\ Len(file') = Len(file) + m
    /\ \A k \in Lines : file'[k] = file[k]
    /\ \A j \in 1 .. m : file'[Len(file) + j].event = es[j]

\* A stamp lies between the one before the first and the last.
LEMMA StampBetween ==
    ASSUME NEW t \in Nat, NEW times, Rising(times, t), NEW j \in 1 .. t
    PROVE  times[j] \in times[0] + 1 .. times[t]
<1> USE DEF Rising
<1>1. times[0] \in Nat /\ times[j] \in Nat /\ times[t] \in Nat /\ times[0] < times[j]
  OBVIOUS
<1>2. j < t => times[j] < times[t]
  OBVIOUS
<1> QED BY <1>1, <1>2

\* The first n stamps of a file increase, and none is later than top.
InOrder(stamps, n, top) ==
    /\ \A k \in 1 .. n : stamps[k] \in 1 .. top
    /\ \A j, k \in 1 .. n : j < k => stamps[j] < stamps[k]

\* The stamps new are the first n of old, and the first m of times.
GoOn(new, old, n, times, m) ==
    /\ \A k \in 1 .. n : new[k] = old[k]
    /\ \A j \in 1 .. m : new[n + j] = times[j]

\* The stamps of a file to which lines have been added.
LEMMA TimesGoOn ==
    ASSUME NEW L \in Nat, NEW m \in Nat, NEW t \in Nat, m <= t,
           NEW times, Rising(times, t), NEW old, InOrder(old, L, times[0]),
           NEW new, GoOn(new, old, L, times, m)
    PROVE  InOrder(new, L + m, times[t])
<1>0. /\ \A j \in 0 .. t : times[j] \in Nat
      /\ \A i, j \in 0 .. t : i < j => times[i] < times[j]
      /\ \A k \in 1 .. L : old[k] \in 1 .. times[0]
      /\ \A j, k \in 1 .. L : j < k => old[j] < old[k]
      /\ \A k \in 1 .. L : new[k] = old[k]
      /\ \A j \in 1 .. m : new[L + j] = times[j]
  BY DEF Rising, InOrder, GoOn
<1> USE <1>0
<1>1. times[0] \in Nat /\ times[t] \in Nat /\ times[0] <= times[t]
  <2>1. times[0] \in Nat /\ times[t] \in Nat
    OBVIOUS
  <2>2. 0 < t => times[0] < times[t]
    OBVIOUS
  <2> QED BY <2>1, <2>2
<1>2. ASSUME NEW k \in 1 .. L + m, k > L
      PROVE  /\ k - L \in 1 .. m /\ k - L \in 0 .. t
             /\ new[k] = times[k - L] /\ new[k] \in times[0] + 1 .. times[t]
  <2>1. k - L \in 1 .. m /\ k - L \in 1 .. t /\ L + (k - L) = k
    BY <1>2
  <2>2. new[k] = times[k - L]
    BY <2>1
  <2> QED BY <2>1, <2>2, StampBetween
<1>3. ASSUME NEW k \in 1 .. L + m PROVE new[k] \in 1 .. times[t]
  <2>1. CASE k > L
    BY <1>1, <1>2, <2>1
  <2>2. CASE ~(k > L)
    BY <1>1, <2>2
  <2> QED BY <2>1, <2>2
<1>4. ASSUME NEW i \in 1 .. L + m, NEW k \in 1 .. L + m, i < k PROVE new[i] < new[k]
  <2>1. CASE ~(k > L)
    BY <1>4, <2>1
  <2>2. CASE k > L /\ ~(i > L)
    <3>1. new[i] \in 1 .. times[0] /\ new[k] \in times[0] + 1 .. times[t]
      BY <1>2, <2>2
    <3> QED BY <1>1, <3>1
  <2>3. CASE k > L /\ i > L
    <3>1. /\ new[i] = times[i - L] /\ new[k] = times[k - L]
          /\ i - L \in 0 .. t /\ k - L \in 0 .. t /\ i - L < k - L
      BY <1>2, <1>4, <2>3
    <3> QED BY <3>1
  <2> QED BY <2>1, <2>2, <2>3
<1> QED BY <1>3, <1>4 DEF InOrder

\* So the file stays in order.
LEMMA StampedOn ==
    ASSUME Stamped, NEW L \in Nat, L = Len(file), NEW m \in Nat, NEW t \in Nat, m <= t,
           NEW times, Rising(times, t), times[0] = last,
           last' = times[t], last' <= MaxStamp,
           file' \in Seq([time : Nat, event : Events]), Len(file') = L + m,
           \A k \in 1 .. L : file'[k] = file[k],
           \A j \in 1 .. m : file'[L + j].time = times[j]
    PROVE  Stamped'
<1> PICK old, new : /\ old = [k \in 1 .. L |-> file[k].time]
                    /\ new = [k \in 1 .. L + m |-> file'[k].time]
  OBVIOUS
<1>1. InOrder(old, L, times[0])
  BY DEF Stamped, Lines, InOrder
<1>2. GoOn(new, old, L, times, m)
  <2>1. \A k \in 1 .. L : k \in 1 .. L + m
    OBVIOUS
  <2>2. \A j \in 1 .. m : L + j \in 1 .. L + m
    OBVIOUS
  <2> QED BY <2>1, <2>2 DEF GoOn
<1>3. InOrder(new, L + m, times[t])
  BY <1>1, <1>2, TimesGoOn
<1>4. /\ \A k \in 1 .. L + m : file'[k].time \in 1 .. last'
      /\ \A j, k \in 1 .. L + m : j < k => file'[j].time < file'[k].time
  BY <1>3 DEF InOrder
<1>5. last' \in 0 .. MaxStamp
  <2>1. times[t] \in Nat
    BY DEF Rising
  <2> QED BY <2>1, RecorderLimits
<1> QED BY <1>4, <1>5 DEF Stamped, Lines

\* Of the events of an operation the file gets those that were written, and at
\* most one more that was not flushed; a failure is noted; and stamps increase.
LEMMA WritesGrow ==
    ASSUME Stamped, Counted, NEW es \in Seq(Events), NEW n \in Nat, NEW why,
           Writes(es, n, why)
    PROVE  /\ n <= Len(es) /\ events' \in 0 .. MaxEvents /\ events' = events + n
           /\ \/ n = Len(es) /\ why = "none" /\ failed' = failed
              \/ why \in Cuts /\ failed' = failed \cup {why}
           /\ Stamped'
           /\ \E m \in n .. Len(es) : /\ Grown(es, m) /\ m <= n + 1
                                      /\ "kept" \notin failed' => m = n
<1> DEFINE tried == IF n = Len(es) THEN es ELSE SubSeq(es, 1, n + 1)
           m == IF why = "kept" THEN n + 1 ELSE n
           L == Len(file)
           add(times) == [j \in 1 .. m |-> [time |-> times[j], event |-> tried[j]]]
<1>1. /\ n <= Len(es)
      /\ why \in (IF n = Len(es) THEN {"none", "interrupted"}
                  ELSE {"refused", "kept"} \ (failed \cap {"kept"}))
      /\ events + m <= MaxEvents
      /\ events' = events + n
      /\ \E walls \in [1 .. Len(tried) -> Readings] :
            /\ last' = Stamps(last, walls)[Len(tried)] /\ last' <= MaxStamp
            /\ file' = file \o add(Stamps(last, walls))
      /\ failed' = IF why = "none" THEN failed ELSE failed \cup {why}
  BY DEF Writes
<1>2. L \in Nat /\ Len(es) \in Nat /\ file \in Seq([time : Nat, event : Events]) /\ last \in Nat
  BY RecorderLimits DEF Stamped
<1>3. \/ n = Len(es) /\ why = "none" /\ failed' = failed
      \/ why \in Cuts /\ failed' = failed \cup {why} /\ (why = "kept" => n < Len(es))
  BY <1>1, <1>2 DEF Cuts
<1>4. m \in n .. Len(es) /\ m <= n + 1 /\ ("kept" \notin failed' => m = n)
  BY <1>1, <1>2, <1>3
<1>5. events' \in 0 .. MaxEvents /\ events' = events + n
  BY <1>1, <1>4, RecorderLimits DEF Counted
<1>6. PICK walls \in [1 .. Len(tried) -> Readings] :
          /\ last' = Stamps(last, walls)[Len(tried)] /\ last' <= MaxStamp
          /\ file' = file \o add(Stamps(last, walls))
  BY <1>1
<1>7. /\ Len(tried) \in Nat /\ m <= Len(tried)
      /\ \A j \in 1 .. m : tried[j] = es[j] /\ es[j] \in Events
  <2>1. CASE n = Len(es)
    BY <1>2, <1>3, <1>4, <2>1
  <2>2. CASE n # Len(es)
    <3>1. n + 1 <= Len(es) /\ tried = SubSeq(es, 1, n + 1) /\ \A j \in 1 .. n + 1 : j \in 1 .. Len(es)
      BY <1>1, <1>2, <2>2
    <3>2. Len(tried) = n + 1 /\ \A j \in 1 .. n + 1 : tried[j] = es[j]
      BY <1>2, <3>1
    <3> QED BY <1>4, <3>1, <3>2
  <2> QED BY <2>1, <2>2
<1>t. PICK times : times = Stamps(last, walls)
  OBVIOUS
<1> HIDE DEF tried, m, L
<1>8. Rising(times, Len(tried)) /\ times[0] = last
  <2>1. \A j \in 1 .. Len(tried) : walls[j] \in Nat
    <3>1. \A j \in 1 .. Len(tried) : walls[j] \in Readings
      BY <1>6
    <3> QED BY <3>1, ReadingsAreNat, Zenon
  <2> QED BY <1>2, <1>7, <1>t, <2>1, StampsRise
<1>a. PICK more : more = add(times)
  OBVIOUS
<1>9. /\ more \in Seq([time : Nat, event : Events]) /\ Len(more) = m
      /\ \A j \in 1 .. m : more[j].time = times[j] /\ more[j].event = es[j]
  <2>1. m \in Nat /\ \A j \in 1 .. m : times[j] \in Nat
    BY <1>2, <1>4, <1>7, <1>8 DEF Rising
  <2>2. \A j \in 1 .. m : more[j] = [time |-> times[j], event |-> es[j]]
    BY <1>7, <1>a
  <2>3. more \in [1 .. m -> [time : Nat, event : Events]]
    BY <1>7, <1>a, <2>1, <2>2
  <2>4. more \in Seq([time : Nat, event : Events]) /\ Len(more) = m
    <3>s. PICK S : S = [time : Nat, event : Events]
      OBVIOUS
    <3>1. m \in Nat /\ more \in [1 .. m -> S]
      BY <2>1, <2>3, <3>s
    <3>2. more \in Seq(S) /\ Len(more) = m
      BY <3>1, FunctionIsSeq, Zenon
    <3> QED BY <3>s, <3>2
  <2> QED BY <2>2, <2>4
<1> HIDE DEF add
<1>10. /\ m \in Nat /\ file' \in Seq([time : Nat, event : Events]) /\ Len(file') = L + m
       /\ \A k \in 1 .. L : file'[k] = file[k]
       /\ \A j \in 1 .. m : file'[L + j].time = times[j] /\ file'[L + j].event = es[j]
  <2>1. m \in Nat
    BY <1>2, <1>4
  <2>2. file' = file \o more /\ more \in Seq([time : Nat, event : Events]) /\ Len(more) = m
    BY <1>6, <1>9, <1>a, <1>t
  <2>3. /\ file' \in Seq([time : Nat, event : Events]) /\ Len(file') = L + m
        /\ \A k \in 1 .. L : file'[k] = file[k]
        /\ \A k \in L + 1 .. L + m : file'[k] = more[k - L]
    <3>1. /\ file' \in Seq([time : Nat, event : Events]) /\ Len(file') = Len(file) + Len(more)
          /\ \A i \in 1 .. Len(file) + Len(more) :
                 file'[i] = IF i <= Len(file) THEN file[i] ELSE more[i - Len(file)]
      BY <1>2, <2>2, ConcatProperties, Zenon
    <3>2. Len(file) = L /\ Len(more) = m
      BY <2>2 DEF L
    <3>3. /\ Len(file') = L + m
          /\ \A i \in 1 .. L + m : file'[i] = IF i <= L THEN file[i] ELSE more[i - L]
      BY <3>1, <3>2, Zenon
    <3>4. L \in Nat /\ \A k \in 1 .. L : k \in 1 .. L + m /\ k <= L
      BY <1>2, <2>1
    <3>5. \A k \in L + 1 .. L + m : k \in 1 .. L + m /\ ~(k <= L)
      BY <2>1, <3>4
    <3> QED BY <3>1, <3>3, <3>4, <3>5, Zenon
  <2>4. \A j \in 1 .. m : L + j \in L + 1 .. L + m /\ (L + j) - L = j
    BY <1>2, <2>1
  <2>5. \A j \in 1 .. m : file'[L + j] = more[j]
    BY <2>3, <2>4
  <2> QED BY <1>9, <2>1, <2>3, <2>5
<1>11. Grown(es, m)
  BY <1>10 DEF Grown, Lines, L
<1>12. Stamped'
  <2>1. last' = times[Len(tried)] /\ last' <= MaxStamp
    BY <1>6, <1>t
  <2> QED BY <1>2, <1>7, <1>8, <1>10, <2>1, StampedOn DEF L
<1> QED BY <1>1, <1>3, <1>4, <1>5, <1>11, <1>12
-----------------------------------------------------------------------------
(* What the lines of the file say                                          *)

\* What the j-th event of an operation has to say for itself.
NewOK(es, j) ==
    LET e == es[j] IN
    /\ e.kind = "start" =>
        /\ e.id \in ids + 1 .. ids'
        /\ \A i \in 1 .. j - 1 : es[i].kind = "start" => es[i].id # e.id
        /\ e.category \in Categories
        /\ e.category = "agent" => e.parent = 0 /\ e.id = root'
        /\ e.category # "agent" => e.id # root'
        /\ e.category \in {"function", "llm"} => e.parent = root'
        /\ e.category = "tool" => j > 1 /\ es[j - 1] = Start(e.parent, root', "function")
    /\ e.kind = "end" =>
        /\ e.id \in 1 .. ids'
        /\ e.category = "tool" =>
              /\ e.tells \in {"result", "error"}
              /\ \E i \in 1 .. j - 1 : es[i].kind = "start" /\ es[i].id = e.id
              /\ \E r \in ran' : r.tool = e.id /\ (e.tells = "result" <=> r.outcome = "ok")
        /\ e.category # "tool" => e.id \notin Tools'

\* What an operation may do to the rest of the state.
Onward ==
    /\ ids' \in Nat /\ ids' >= ids
    /\ root' = root \/ file = <<>>
    /\ ran \subseteq ran' /\ \A r \in ran' \ ran : r.tool > ids

\* Lines that were right stay right, and new ones are.
LEMMA LinesStayRight ==
    ASSUME Stamped, Counted, StoryInv, Onward,
           NEW es, NEW m \in Nat, Grown(es, m), \A j \in 1 .. m : NewOK(es, j)
    PROVE  \A k \in Lines' : (StartOK(k) /\ EndOK(k))'
<1>0. PICK L \in Nat : L = Len(file)
  BY DEF Stamped
<1>1. /\ Len(file') = L + m /\ ids \in Nat /\ ids' \in Nat /\ ids <= ids'
      /\ \A k \in 1 .. L : Ev(k)' = Ev(k)
      /\ \A j \in 1 .. m : Ev(L + j)' = es[j]
      /\ Lines = 1 .. L /\ Lines' = 1 .. L + m
  <2>1. ids \in Nat /\ ids' \in Nat /\ ids <= ids'
    BY RecorderLimits DEF Counted, Onward
  <2>2. Len(file') = L + m /\ Lines = 1 .. L /\ Lines' = 1 .. L + m
    BY <1>0 DEF Grown, Lines
  <2>3. /\ \A k \in 1 .. L : file'[k] = file[k]
        /\ \A j \in 1 .. m : file'[L + j].event = es[j]
    BY <1>0, <2>2 DEF Grown
  <2> QED BY <2>1, <2>2, <2>3 DEF Ev
<1>2. \A k \in 1 .. L : StartOK(k) /\ EndOK(k) /\ root' = root
  <2>1. file = <<>> => L = 0
    BY <1>0
  <2> QED BY <1>1, <2>1 DEF StoryInv, Onward
<1>3. ASSUME NEW k \in 1 .. L PROVE StartOK(k)'
  <2>1. \A j \in 1 .. k : Ev(j)' = Ev(j)
    BY <1>1
  <2> QED BY <1>1, <1>2, <2>1 DEF StartOK
<1>4. ASSUME NEW k \in 1 .. L PROVE EndOK(k)'
  <2>1. \A x \in 1 .. ids : x \in Tools' => x \in Tools
    BY <1>1 DEF Tools, Onward
  <2>2. EndOK(k) /\ Ev(k)' = Ev(k)
    BY <1>1, <1>2
  <2>3. \A x : Began(x, k - 1)' <=> Began(x, k - 1)
    <3>1. \A j \in 1 .. k - 1 : Ev(j)' = Ev(j)
      BY <1>1
    <3> QED BY <3>1 DEF Began
  <2> QED BY <1>1, <2>1, <2>2, <2>3 DEF EndOK, Onward
<1>5. ASSUME NEW j \in 1 .. m PROVE StartOK(L + j)' /\ EndOK(L + j)'
  <2> DEFINE e == es[j]
  <2>1. NewOK(es, j) /\ Ev(L + j)' = e
    BY <1>1
  <2>2. EndOK(L + j)'
    <3>1. ASSUME NEW i \in 1 .. j - 1, es[i].kind = "start", es[i].id = e.id
          PROVE  Began(e.id, L + j - 1)'
      <4>1. i \in 1 .. m /\ L + i \in 1 .. L + j - 1 /\ Ev(L + i)' = es[i]
        BY <1>1
      <4> HIDE DEF e
      <4> QED BY <3>1, <4>1 DEF Began
    <3>2. e.kind = "end" /\ e.category = "tool" => Began(e.id, L + j - 1)'
      BY <2>1, <3>1 DEF NewOK
    <3> QED BY <2>1, <3>2 DEF EndOK, NewOK
  <2>3. ASSUME e.kind = "start", NEW i \in 1 .. L + j - 1, Ev(i)'.kind = "start"
        PROVE  Ev(i)'.id # e.id
    <3>1. CASE i \in 1 .. L
      <4>1. Ev(i)' = Ev(i) /\ StartOK(i)
        BY <1>1, <1>2, <3>1
      <4>2. Ev(i).id \in 1 .. ids
        BY <2>3, <4>1 DEF StartOK
      <4> QED BY <1>1, <2>1, <2>3, <4>1, <4>2 DEF NewOK
    <3>2. CASE i \notin 1 .. L
      <4>1. i - L \in 1 .. j - 1 /\ i - L \in 1 .. m /\ L + (i - L) = i
        BY <1>1, <3>2
      <4>2. Ev(i)' = es[i - L]
        BY <1>1, <4>1
      <4> QED BY <2>1, <2>3, <4>1, <4>2 DEF NewOK
    <3> QED BY <3>1, <3>2
  <2>4. ASSUME e.kind = "start", e.category = "tool"
        PROVE  L + j > 1 /\ Ev(L + j - 1)' = Start(e.parent, root', "function")
    <3>1. j > 1 /\ es[j - 1] = Start(e.parent, root', "function")
      BY <2>1, <2>4 DEF NewOK
    <3>2. j - 1 \in 1 .. m /\ L + (j - 1) = L + j - 1
      BY <1>1, <3>1
    <3> QED BY <1>1, <3>1, <3>2
  <2>5. e.kind = "start" =>
            /\ e.id \in 1 .. ids' /\ e.category \in Categories
            /\ e.category = "agent" => e.parent = 0 /\ e.id = root'
            /\ e.category # "agent" => e.id # root'
            /\ e.category \in {"function", "llm"} => e.parent = root'
    BY <1>1, <2>1 DEF NewOK
  <2>6. StartOK(L + j)'
    <3> HIDE DEF e
    <3>1. SUFFICES ASSUME e.kind = "start"
                   PROVE  /\ \A i \in 1 .. L + j - 1 : Ev(i)'.kind = "start" => Ev(i)'.id # e.id
                          /\ e.category = "tool" =>
                                L + j > 1 /\ Ev(L + j - 1)' = Start(e.parent, root', "function")
      BY <2>1, <2>5 DEF StartOK, Start, Event
    <3> QED BY <3>1, <2>3, <2>4
  <2> QED BY <2>2, <2>6
<1> QED
  <2> TAKE k \in Lines'
  <2>1. CASE k \in 1 .. L
    BY <1>3, <1>4, <2>1
  <2>2. CASE k \notin 1 .. L
    <3>1. k - L \in 1 .. m /\ L + (k - L) = k
      BY <1>1, <2>2
    <3> QED BY <1>5, <3>1
  <2> QED BY <2>1, <2>2
-----------------------------------------------------------------------------
(* Scopes                                                                  *)

\* What was begun and ended by a line of the file is not affected by new ones.
LEMMA History ==
    ASSUME Stamped, NEW L \in Nat, L = Len(file), NEW m \in Nat, NEW es, Grown(es, m)
    PROVE  /\ \A x : \A k \in 0 .. L : /\ Began(x, k)' <=> Began(x, k)
                                       /\ Ceased(x, k)' <=> Ceased(x, k)
           /\ \A x : \A j \in 1 .. m :
                /\ Began(x, L + j)' <=> \/ Began(x, L + j - 1)'
                                        \/ es[j].kind = "start" /\ es[j].id = x
                /\ Ceased(x, L + j)' <=> \/ Ceased(x, L + j - 1)'
                                         \/ es[j].kind = "end" /\ es[j].id = x
<1>1. /\ \A k \in 1 .. L : Ev(k)' = Ev(k)
      /\ \A j \in 1 .. m : Ev(L + j)' = es[j]
  BY DEF Grown, Ev, Lines
<1>2. ASSUME NEW x, NEW k \in 0 .. L
      PROVE  (Began(x, k)' <=> Began(x, k)) /\ (Ceased(x, k)' <=> Ceased(x, k))
  <2>1. \A i \in 1 .. k : Ev(i)' = Ev(i)
    BY <1>1
  <2> QED BY <2>1 DEF Began, Ceased
<1>3. ASSUME NEW x, NEW j \in 1 .. m
      PROVE  /\ Began(x, L + j)' <=> \/ Began(x, L + j - 1)'
                                     \/ es[j].kind = "start" /\ es[j].id = x
             /\ Ceased(x, L + j)' <=> \/ Ceased(x, L + j - 1)'
                                      \/ es[j].kind = "end" /\ es[j].id = x
  <2>1. Ev(L + j)' = es[j]
    BY <1>1
  <2>2. \A i : i \in 1 .. L + j <=> i \in 1 .. L + j - 1 \/ i = L + j
    OBVIOUS
  <2> QED BY <2>1, <2>2 DEF Began, Ceased
<1> QED BY <1>2, <1>3

\* Identifiers that are not given out yet begin and end nothing, 0 is none.
LEMMA OnlyKnownIds ==
    ASSUME Stamped, Counted, StoryInv, NEW x, NEW k \in 0 .. Len(file),
           Began(x, k) \/ Ceased(x, k)
    PROVE  x \in 1 .. ids
<1>1. \A j \in 1 .. k : StartOK(j) /\ EndOK(j)
  BY DEF StoryInv, Lines, Stamped
<1> QED BY <1>1 DEF StartOK, EndOK, Began, Ceased

\* A root that is not closed is open, or its start was refused.
LEMMA RootParent ==
    ASSUME NestInv, RootOpen, "kept" \notin failed
    PROVE  OpenAt(root, Len(file)) \/ Rootless
BY DEF NestInv, RootOpen, OpenAt, Rootless

\* The scope x is open when the j-th event of an operation is written.
OpenNow(es, x, j) ==
    /\ \/ OpenAt(x, Len(file))
       \/ x > ids /\ \E i \in 1 .. j - 1 : es[i].kind = "start" /\ es[i].id = x
    /\ \A i \in 1 .. j - 1 : ~(es[i].kind = "end" /\ es[i].id = x)

NestedNew(es, j) ==
    LET e == es[j] IN
    /\ e.kind = "end" => OpenNow(es, e.id, j) \/ (e.id = root /\ Rootless /\ root' = root)
    /\ e.parent = 0 \/ OpenNow(es, e.parent, j)
                    \/ (e.parent = root /\ Rootless /\ root' = root)

\* New lines leave the nesting of old ones alone, and are nested themselves.
LEMMA NestingStays ==
    ASSUME Stamped, Counted, StoryInv, NestInv, Onward,
           NEW m \in Nat, NEW es, Grown(es, m), "kept" \notin failed,
           \A j \in 1 .. m : NewOK(es, j) /\ NestedNew(es, j)
    PROVE  \A k \in Lines' : Nested(k)'
<1> PICK L \in Nat : L = Len(file)
  BY DEF Stamped
<1>1. \A x : \A k \in 0 .. L : /\ Began(x, k)' <=> Began(x, k)
                               /\ Ceased(x, k)' <=> Ceased(x, k)
  BY History
<1>2. /\ Len(file') = L + m /\ Lines' = 1 .. L + m /\ Lines = 1 .. L
      /\ \A k \in 1 .. L : Ev(k)' = Ev(k)
      /\ \A j \in 1 .. m : Ev(L + j)' = es[j]
  BY DEF Grown, Ev, Lines
<1>3. ASSUME Rootless, root' = root PROVE Rootless'
  <2> PICK r : r = root
    OBVIOUS
  <2>1. \A j \in 1 .. m : es[j].kind = "start" => es[j].id # r
    BY RecorderLimits DEF NewOK, Counted
  <2>2. ASSUME NEW i \in 1 .. L + m, Ev(i)'.kind = "start", Ev(i)'.id = r PROVE i \in 1 .. L
    <3>1. SUFFICES ASSUME i > L PROVE FALSE
      OBVIOUS
    <3>2. i - L \in 1 .. m /\ L + (i - L) = i
      BY <3>1
    <3> QED BY <1>2, <2>1, <2>2, <3>2
  <2>3. Began(r, L + m)' => Began(r, L)
    BY <1>2, <2>2 DEF Began
  <2> QED BY <1>2, <1>3, <2>3 DEF Rootless
<1>4. ASSUME NEW k \in 1 .. L PROVE Nested(k)'
  <2>1. Nested(k) /\ Ev(k)' = Ev(k) /\ k - 1 \in 0 .. L
    BY <1>2 DEF NestInv
  <2>2. \A x : OpenAt(x, k - 1)' <=> OpenAt(x, k - 1)
    BY <1>1, <2>1 DEF OpenAt
  <2>3. root' = root
    BY DEF Onward
  <2> QED BY <1>3, <2>1, <2>2, <2>3 DEF Nested
<1>5. ASSUME NEW j \in 1 .. m, NEW x, OpenNow(es, x, j) PROVE OpenAt(x, L + j - 1)'
  <2>1. Began(x, L + j - 1)'
    <3>1. CASE OpenAt(x, L)
      BY <1>2, <3>1 DEF OpenAt, Began
    <3>2. CASE \E i \in 1 .. j - 1 : es[i].kind = "start" /\ es[i].id = x
      <4>1. PICK i \in 1 .. j - 1 : es[i].kind = "start" /\ es[i].id = x
        BY <3>2
      <4>2. L + i \in 1 .. L + j - 1 /\ Ev(L + i)' = es[i]
        BY <1>2
      <4> QED BY <4>1, <4>2 DEF Began
    <3> QED BY <1>5, <3>1, <3>2 DEF OpenNow
  <2>2. ~Ceased(x, L)
    <3>1. L \in 0 .. Len(file)
      OBVIOUS
    <3>2. Ceased(x, L) => x \in 1 .. ids
      BY <3>1, OnlyKnownIds
    <3>3. x > ids => x \notin 1 .. ids
      BY RecorderLimits DEF Counted
    <3> QED BY <1>5, <3>2, <3>3 DEF OpenNow, OpenAt
  <2>3. ASSUME NEW i \in 1 .. L + j - 1, Ev(i)'.kind = "end", Ev(i)'.id = x PROVE FALSE
    <3>1. CASE i \in 1 .. L
      BY <1>2, <2>2, <2>3, <3>1 DEF Ceased
    <3>2. CASE i \notin 1 .. L
      <4>1. i - L \in 1 .. j - 1 /\ i - L \in 1 .. m /\ L + (i - L) = i
        BY <3>2
      <4>2. Ev(i)' = es[i - L]
        BY <1>2, <4>1
      <4> QED BY <1>5, <2>3, <4>1, <4>2 DEF OpenNow
    <3> QED BY <3>1, <3>2
  <2>4. ~Ceased(x, L + j - 1)'
    BY <2>3 DEF Ceased
  <2> QED BY <2>1, <2>4 DEF OpenAt
<1>6. ASSUME NEW j \in 1 .. m PROVE Nested(L + j)'
  <2>1. NestedNew(es, j) /\ Ev(L + j)' = es[j]
    BY <1>2
  <2> QED BY <1>3, <1>5, <2>1 DEF Nested, NestedNew
<1> QED
  <2> TAKE k \in Lines'
  <2>1. CASE k \in 1 .. L
    BY <1>4, <2>1
  <2>2. CASE k \notin 1 .. L
    <3>1. k - L \in 1 .. m /\ L + (k - L) = k
      BY <1>2, <2>2
    <3> QED BY <1>6, <3>1
  <2> QED BY <2>1, <2>2

\* The scopes begun and ended once m of the events es are in the file.
Recorded(es, m) ==
    \A x : /\ Began(x, Len(file))' <=> \/ Began(x, Len(file))
                                       \/ \E j \in 1 .. m : es[j].kind = "start" /\ es[j].id = x
           /\ Ceased(x, Len(file))' <=> \/ Ceased(x, Len(file))
                                        \/ \E j \in 1 .. m : es[j].kind = "end" /\ es[j].id = x

\* What Grown says of the lines, said of the scopes.
LEMMA GrownRecorded ==
    ASSUME Stamped, NEW m \in Nat, NEW es, Grown(es, m)
    PROVE  Recorded(es, m)
<1> PICK L \in Nat : L = Len(file)
  BY DEF Stamped
<1>1. /\ Len(file') = L + m
      /\ \A k \in 1 .. L : Ev(k)' = Ev(k)
      /\ \A j \in 1 .. m : Ev(L + j)' = es[j]
  BY DEF Grown, Ev, Lines
<1>2. \A i \in 1 .. L + m : i \in 1 .. L \/ (i - L \in 1 .. m /\ L + (i - L) = i)
  OBVIOUS
<1>3. \A j \in 1 .. m : L + j \in 1 .. L + m
  OBVIOUS
<1>4. \A i \in 1 .. L : i \in 1 .. L + m
  OBVIOUS
<1> SUFFICES ASSUME NEW x
             PROVE  /\ Began(x, L + m)' <=> \/ Began(x, L)
                                            \/ \E j \in 1 .. m : es[j].kind = "start" /\ es[j].id = x
                    /\ Ceased(x, L + m)' <=> \/ Ceased(x, L)
                                             \/ \E j \in 1 .. m : es[j].kind = "end" /\ es[j].id = x
  <2>1. \A x : (Began(x, Len(file))' <=> Began(x, L + m)') /\ (Began(x, Len(file)) <=> Began(x, L))
    BY <1>1 DEF Began
  <2>2. \A x : (Ceased(x, Len(file))' <=> Ceased(x, L + m)') /\ (Ceased(x, Len(file)) <=> Ceased(x, L))
    BY <1>1 DEF Ceased
  <2> QED BY <2>1, <2>2 DEF Recorded
<1>5. Began(x, L + m)' <=> \/ Began(x, L)
                          \/ \E j \in 1 .. m : es[j].kind = "start" /\ es[j].id = x
  <2>1. ASSUME NEW i \in 1 .. L + m, Ev(i)'.kind = "start", Ev(i)'.id = x
        PROVE  Began(x, L) \/ \E j \in 1 .. m : es[j].kind = "start" /\ es[j].id = x
    <3>1. CASE i \in 1 .. L
      BY <1>1, <2>1, <3>1 DEF Began
    <3>2. CASE i - L \in 1 .. m /\ L + (i - L) = i
      <4>1. Ev(i)' = es[i - L]
        BY <1>1, <3>2
      <4> QED BY <2>1, <3>2, <4>1
    <3> QED BY <1>2, <3>1, <3>2
  <2>2. Began(x, L) => Began(x, L + m)'
    BY <1>1, <1>4 DEF Began
  <2>3. ASSUME NEW j \in 1 .. m, es[j].kind = "start", es[j].id = x PROVE Began(x, L + m)'
    BY <1>1, <1>3, <2>3 DEF Began
  <2> QED BY <2>1, <2>2, <2>3 DEF Began
<1>6. Ceased(x, L + m)' <=> \/ Ceased(x, L)
                          \/ \E j \in 1 .. m : es[j].kind = "end" /\ es[j].id = x
  <2>1. ASSUME NEW i \in 1 .. L + m, Ev(i)'.kind = "end", Ev(i)'.id = x
        PROVE  Ceased(x, L) \/ \E j \in 1 .. m : es[j].kind = "end" /\ es[j].id = x
    <3>1. CASE i \in 1 .. L
      BY <1>1, <2>1, <3>1 DEF Ceased
    <3>2. CASE i - L \in 1 .. m /\ L + (i - L) = i
      <4>1. Ev(i)' = es[i - L]
        BY <1>1, <3>2
      <4> QED BY <2>1, <3>2, <4>1
    <3> QED BY <1>2, <3>1, <3>2
  <2>2. Ceased(x, L) => Ceased(x, L + m)'
    BY <1>1, <1>4 DEF Ceased
  <2>3. ASSUME NEW j \in 1 .. m, es[j].kind = "end", es[j].id = x PROVE Ceased(x, L + m)'
    BY <1>1, <1>3, <2>3 DEF Ceased
  <2> QED BY <2>1, <2>2, <2>3 DEF Ceased
<1> QED BY <1>5, <1>6

\* What every operation that writes es keeps, and what it leaves to show.
LEMMA OperationWrites ==
    ASSUME RInv, NEW es \in Seq(Events), NEW n \in Nat, NEW why, Writes(es, n, why), Onward,
           \A j \in 1 .. Len(es) : NewOK(es, j) /\ ("kept" \notin failed => NestedNew(es, j))
    PROVE  /\ Stamped'
           /\ \A k \in Lines' : (StartOK(k) /\ EndOK(k))'
           /\ "kept" \notin failed' => \A k \in Lines' : Nested(k)'
           /\ n <= Len(es) /\ events' \in 0 .. MaxEvents /\ events' <= Len(file')
           /\ \/ n = Len(es) /\ why = "none" /\ failed' = failed
              \/ why \in Cuts /\ failed' = failed \cup {why}
           /\ \E m \in n .. Len(es) : /\ Recorded(es, m) /\ m <= n + 1
                                      /\ "kept" \notin failed' => m = n
<1>1. /\ n <= Len(es) /\ events' \in 0 .. MaxEvents /\ events' = events + n
      /\ \/ n = Len(es) /\ why = "none" /\ failed' = failed
         \/ why \in Cuts /\ failed' = failed \cup {why}
  BY WritesGrow DEF RInv
<1>2. PICK m \in n .. Len(es) : /\ Grown(es, m) /\ m <= n + 1
                                /\ "kept" \notin failed' => m = n
  BY WritesGrow DEF RInv
<1>3. Len(es) \in Nat /\ m \in Nat /\ \A j \in 1 .. m : j \in 1 .. Len(es)
  OBVIOUS
<1>4. Stamped'
  BY WritesGrow DEF RInv
<1>5. \A k \in Lines' : (StartOK(k) /\ EndOK(k))'
  BY <1>2, <1>3, LinesStayRight DEF RInv
<1>6. "kept" \notin failed' => \A k \in Lines' : Nested(k)'
  BY <1>1, <1>2, <1>3, NestingStays DEF RInv
<1>7. events' <= Len(file')
  <2>1. events \in Nat /\ events <= Len(file) /\ Len(file) \in Nat /\ Len(file') = Len(file) + m
    BY <1>2, RecorderLimits DEF RInv, Counted, Stamped, Grown
  <2> QED BY <1>1, <1>2, <2>1
<1>8. Recorded(es, m)
  BY <1>2, <1>3, GrownRecorded DEF RInv
<1> QED BY <1>1, <1>2, <1>4, <1>5, <1>6, <1>7, <1>8
-----------------------------------------------------------------------------
(* The operations                                                          *)

\* Something new can be put under a root that is not closed.
LEMMA UnderRoot ==
    ASSUME RInv, RootOpen, "kept" \notin failed, NEW es, NEW j \in Nat,
           \A i \in 1 .. j - 1 : ~(es[i].kind = "end" /\ es[i].id = root)
    PROVE  OpenNow(es, root, j) \/ Rootless
BY RootParent DEF RInv, OpenNow

\* The events that operations write are events.
LEMMA EventTypes ==
    /\ \A i, p \in Nat, c \in Categories : Start(i, p, c) \in Events
    /\ \A i, p \in Nat, c \in Categories, t \in Tales : End(i, p, c, t) \in Events
    /\ \A p \in Nat : MarkUnder(p) \in Events
BY DEF Start, End, MarkUnder, Event, Events, Categories, Tales

\* Every tool that ran has its start in the file.
LEMMA ToolsBegan ==
    ASSUME Stamped, StoryInv
    PROVE  \A r \in ran : Began(r.tool, Len(file))
BY DEF StoryInv, ToolsApart, Began, Lines

\* An operation that writes a mark and leaves root, calls and tools alone.
LEMMA MarkingStays ==
    ASSUME RInv, RootOpen, NEW n \in Nat, NEW why, Writes(<<MarkUnder(root)>>, n, why),
           UNCHANGED <<root, rootClosed, closed, calls, ids, ran>>,
           env' \in [holds : BOOLEAN, uncertain : BOOLEAN]
    PROVE  RInv'
<1> DEFINE es == <<MarkUnder(root)>>
<1>1. es \in Seq(Events) /\ Len(es) = 1 /\ es[1] = MarkUnder(root)
  BY EventTypes, RecorderLimits DEF RInv, Counted
<1>2. es[1].kind = "mark" /\ es[1].parent = root
  BY <1>1 DEF MarkUnder, Event
<1> HIDE DEF es
<1>3. Onward
  BY RecorderLimits DEF Onward, RInv, Counted
<1>4. \A j \in 1 .. Len(es) : NewOK(es, j) /\ ("kept" \notin failed => NestedNew(es, j))
  <2>1. NewOK(es, 1)
    BY <1>2 DEF NewOK
  <2>2. "kept" \notin failed => NestedNew(es, 1)
    BY <1>2, UnderRoot DEF NestedNew
  <2> QED BY <1>1, <2>1, <2>2
<1>5. Writes(es, n, why)
  BY DEF es
<1>6. /\ Stamped' /\ \A k \in Lines' : (StartOK(k) /\ EndOK(k))'
      /\ "kept" \notin failed' => \A k \in Lines' : Nested(k)'
      /\ events' \in 0 .. MaxEvents /\ events' <= Len(file')
      /\ \/ failed' = failed
         \/ why \in Cuts /\ failed' = failed \cup {why}
      /\ \E m \in n .. Len(es) : Recorded(es, m)
  BY <1>1, <1>3, <1>4, <1>5, OperationWrites
<1>7. \A x : /\ Began(x, Len(file))' <=> Began(x, Len(file))
             /\ Ceased(x, Len(file))' <=> Ceased(x, Len(file))
  <2>1. PICK m \in n .. Len(es) : Recorded(es, m)
    BY <1>6
  <2>2. \A j \in 1 .. m : j = 1
    BY <1>1, <2>1
  <2> QED BY <1>2, <2>1, <2>2 DEF Recorded
<1>8. Counted'
  BY <1>6 DEF RInv, Counted, Outcomes, Cuts, RootOpen
<1>9. ToolsApart'
  <2>1. \A r \in ran' : Began(r.tool, Len(file))'
    BY <1>7, ToolsBegan DEF RInv
  <2> QED BY <2>1 DEF RInv, StoryInv, ToolsApart, Tools, Began, Lines
<1>10. NestInv'
  BY <1>6, <1>7 DEF RInv, NestInv, RootOpen, OpenAt
<1> QED BY <1>6, <1>8, <1>9, <1>10 DEF RInv, StoryInv

\* record_mark, paused and reconcile.
LEMMA MarkStays ==
    ASSUME RInv, NEW n \in Nat, NEW why, Mark(n, why) \/ Reconcile(n, why)
    PROVE  RInv'
<1>1. RootOpen /\ UNCHANGED <<root, rootClosed, closed, calls, ids, ran>>
  BY DEF Mark, Reconcile, Recording, RootOpen
<1>2. Writes(<<MarkUnder(root)>>, n, why)
  BY DEF Mark, Reconcile
<1>3. env' \in [holds : BOOLEAN, uncertain : BOOLEAN]
  <2>1. CASE Mark(n, why)
    BY <2>1 DEF Mark, RInv, Counted
  <2>2. CASE Reconcile(n, why)
    BY <2>2 DEF Reconcile
  <2> QED BY <2>1, <2>2
<1> QED BY <1>1, <1>2, <1>3, MarkingStays

\* The start of a model call.
LEMMA LLMStartStays ==
    ASSUME RInv, NEW n \in Nat, NEW why, LLMStart(n, why)
    PROVE  RInv'
<1> DEFINE es == <<Start(ids', root, "llm")>>
<1>0. /\ RootOpen /\ ids' = ids + 1 /\ ids \in Nat /\ ids' \in 1 .. MaxScopes /\ root \in 0 .. ids
      /\ UNCHANGED <<root, rootClosed, closed, env, ran>>
      /\ calls' = IF n = 1 THEN calls \cup {ids'} ELSE calls
      /\ ids < MaxScopes
  BY RecorderLimits DEF LLMStart, Recording, RootOpen, RInv, Counted
<1>1. es \in Seq(Events) /\ Len(es) = 1 /\ es[1] = Start(ids', root, "llm")
  BY <1>0, EventTypes DEF Categories
<1>2. /\ es[1].kind = "start" /\ es[1].parent = root /\ es[1].id = ids' /\ es[1].category = "llm"
  BY <1>1 DEF Start, Event
<1>3. Writes(es, n, why)
  BY DEF LLMStart
<1> HIDE DEF es
<1>4. Onward
  BY <1>0 DEF Onward
<1>5. \A j \in 1 .. Len(es) : NewOK(es, j) /\ ("kept" \notin failed => NestedNew(es, j))
  <2>1. NewOK(es, 1)
    BY <1>0, <1>2 DEF NewOK, Categories
  <2>2. "kept" \notin failed => NestedNew(es, 1)
    BY <1>0, <1>2, UnderRoot DEF NestedNew
  <2> QED BY <1>1, <2>1, <2>2
<1>6. /\ Stamped' /\ \A k \in Lines' : (StartOK(k) /\ EndOK(k))'
      /\ "kept" \notin failed' => \A k \in Lines' : Nested(k)'
      /\ n <= Len(es) /\ events' \in 0 .. MaxEvents /\ events' <= Len(file')
      /\ \/ n = Len(es) /\ why = "none" /\ failed' = failed
         \/ why \in Cuts /\ failed' = failed \cup {why}
  BY <1>1, <1>3, <1>4, <1>5, OperationWrites
<1>7. PICK m \in n .. Len(es) : Recorded(es, m) /\ ("kept" \notin failed' => m = n)
  <2>1. \E m \in n .. Len(es) : Recorded(es, m) /\ m <= n + 1 /\ ("kept" \notin failed' => m = n)
    BY <1>1, <1>3, <1>4, <1>5, OperationWrites
  <2> QED BY <2>1
<1>8. n \in 0 .. 1 /\ m \in n .. 1
  BY <1>1, <1>6
<1>9. \A x : /\ Began(x, Len(file))' <=> Began(x, Len(file)) \/ (m = 1 /\ x = ids')
             /\ Ceased(x, Len(file))' <=> Ceased(x, Len(file))
  <2>1. \A j \in 1 .. m : j = 1 /\ m = 1
    BY <1>8
  <2>2. m = 1 => 1 \in 1 .. m
    BY <1>8
  <2> QED BY <1>2, <1>7, <2>1, <2>2 DEF Recorded
<1>10. Counted'
  <2>1. calls' \subseteq 1 .. ids' /\ root' \notin calls' /\ ran' \subseteq [tool : 1 .. ids', outcome : Results]
    BY <1>0 DEF RInv, Counted
  <2>2. failed' \subseteq Outcomes \cup {"interrupted"}
    BY <1>6 DEF RInv, Counted, Outcomes, Cuts
  <2> QED BY <1>0, <1>6, <2>1, <2>2 DEF RInv, Counted, RootOpen
<1>11. ToolsApart'
  <2>1. \A r \in ran' : Began(r.tool, Len(file))'
    BY <1>0, <1>9, ToolsBegan DEF RInv
  <2>2. ids' \notin Tools
    BY <1>0 DEF RInv, Counted, Tools
  <2>3. Tools' = Tools
    BY <1>0 DEF Tools
  <2> QED BY <1>0, <2>1, <2>2, <2>3 DEF RInv, StoryInv, ToolsApart, Began, Lines
<1>12. NestInv'
  <2>1. Len(file) \in 0 .. Len(file)
    BY DEF RInv, Stamped
  <2>2. ~Ceased(ids', Len(file))
    BY <1>0, <2>1, OnlyKnownIds DEF RInv
  <2>3. RootOpen'
    BY <1>0 DEF RootOpen
  <2>4. \A x \in 1 .. ids' : x \in 1 .. ids \/ x = ids'
    BY <1>0
  <2>5. ASSUME "kept" \notin failed'
        PROVE  /\ \A c \in calls' : OpenAt(c, Len(file))'
               /\ ~Ceased(root, Len(file))'
               /\ \A x \in 1 .. ids' : OpenAt(x, Len(file))' /\ failed' = {}
                                          => x \in calls' \/ x = root
    <3>1. m = n /\ "kept" \notin failed
      BY <1>6, <1>7, <2>5
    <3>2. failed' = {} => failed = {} /\ n = 1
      BY <1>1, <1>6
    <3>3. ~Ceased(root, Len(file)) /\ \A c \in calls : OpenAt(c, Len(file))
      BY <1>0, <3>1 DEF RInv, NestInv
    <3>4. \A c \in calls' : OpenAt(c, Len(file))'
      BY <1>0, <1>9, <2>2, <3>1, <3>3 DEF OpenAt
    <3>5. ~Ceased(root, Len(file))'
      <4> PICK r : r = root
        OBVIOUS
      <4>1. ~Ceased(r, Len(file))'
        BY <1>9, <3>3
      <4> QED BY <1>0, <4>1
    <3>6. ASSUME NEW x \in 1 .. ids', OpenAt(x, Len(file))', failed' = {}
          PROVE  x \in calls' \/ x = root
      <4>1. CASE x = ids'
        BY <1>0, <3>2, <3>6, <4>1
      <4>2. CASE x \in 1 .. ids /\ x # ids'
        <5>1. OpenAt(x, Len(file))
          BY <1>9, <3>6, <4>2 DEF OpenAt
        <5> QED BY <1>0, <3>1, <3>2, <3>6, <4>2, <5>1 DEF RInv, NestInv
      <4> QED BY <2>4, <4>1, <4>2
    <3> QED BY <3>4, <3>5, <3>6
  <2>6. failed' = {} => Began(root, Len(file))'
    <3> PICK r : r = root
      OBVIOUS
    <3>1. failed' = {} => Began(r, Len(file))'
      BY <1>0, <1>6, <1>9 DEF RInv, NestInv
    <3> QED BY <1>0, <3>1
  <2> QED BY <1>0, <1>6, <2>3, <2>5, <2>6 DEF NestInv
<1> QED BY <1>6, <1>10, <1>11, <1>12 DEF RInv, StoryInv

\* Nothing is written: the caller's own use of the environment, the refused end
\* of a call that outlived the recording, and a close without an open root.
LEMMA UnwrittenStays ==
    ASSUME RInv, UNCHANGED <<file, events, root, ids, ran, rootClosed>>,
           calls' \subseteq calls, closed' \in BOOLEAN, closed => closed',
           env' \in [holds : BOOLEAN, uncertain : BOOLEAN],
           \/ calls' = calls /\ failed' = failed
           \/ \E why \in Cuts : failed' = failed \cup {why},
           last' \in last .. MaxStamp
    PROVE  RInv'
<1>1. Stamped'
  <2>1. last \in Nat /\ MaxStamp \in Nat /\ Lines' = Lines
    BY RecorderLimits DEF RInv, Stamped, Lines
  <2>2. \A k \in Lines : file[k].time \in 1 .. last'
    BY <2>1 DEF RInv, Stamped
  <2> QED BY <2>1, <2>2 DEF RInv, Stamped
<1>2. Counted'
  <2>1. failed' \subseteq Outcomes \cup {"interrupted"}
    BY DEF RInv, Counted, Outcomes, Cuts
  <2> QED BY <2>1 DEF RInv, Counted
<1>3. /\ \A k \in Lines' : Ev(k)' = Ev(k)
      /\ \A k \in Lines' : k \in Lines /\ \A j \in 1 .. k : j \in Lines
      /\ Tools' = Tools
  BY DEF Ev, Lines, Tools, RInv, Stamped
<1>4. \A k \in Lines' : StartOK(k)' /\ EndOK(k)'
  <2> TAKE k \in Lines'
  <2>1. StartOK(k) /\ EndOK(k) /\ Ev(k)' = Ev(k) /\ \A j \in 1 .. k - 1 : Ev(j)' = Ev(j)
    BY <1>3 DEF RInv, StoryInv, Ev
  <2>2. Ev(k - 1)' = Ev(k - 1)
    BY DEF Ev
  <2>3. StartOK(k)'
    BY <2>1, <2>2 DEF StartOK
  <2>4. EndOK(k)'
    <3>1. \A x : Began(x, k - 1)' <=> Began(x, k - 1)
      BY <2>1 DEF Began
    <3> QED BY <1>3, <2>1, <3>1 DEF EndOK
  <2> QED BY <2>3, <2>4
<1>5. ToolsApart'
  BY <1>3 DEF RInv, StoryInv, ToolsApart, Ev, Lines
<1>6. /\ \A x : \A k : Began(x, k)' <=> Began(x, k)
      /\ \A x : \A k : Ceased(x, k)' <=> Ceased(x, k)
  BY DEF Began, Ceased, Ev
<1>7. Began(root, Len(file))' <=> Began(root, Len(file))
  BY DEF Began, Ev
<1>8. Ceased(root, Len(file))' <=> Ceased(root, Len(file))
  BY DEF Ceased, Ev
<1>9. \A x : OpenAt(x, Len(file))' <=> OpenAt(x, Len(file))
  BY DEF OpenAt, Began, Ceased, Ev
<1>10. \A k \in Lines' : Nested(k) => Nested(k)'
  <2> TAKE k \in Lines'
  <2>1. \A x : OpenAt(x, k - 1)' <=> OpenAt(x, k - 1)
    BY <1>6 DEF OpenAt
  <2>2. Ev(k)' = Ev(k) /\ (Rootless' <=> Rootless)
    BY <1>3, <1>7 DEF Rootless
  <2> QED BY <2>1, <2>2 DEF Nested
<1>11. NestInv'
  <2>1. "kept" \notin failed' => "kept" \notin failed
    OBVIOUS
  <2>2. failed' = {} => failed = {} /\ calls' = calls
    OBVIOUS
  <2>3. Lines' = Lines /\ ids' = ids /\ (RootOpen' <=> RootOpen)
    BY DEF Lines, RootOpen
  <2> QED BY <1>7, <1>8, <1>9, <1>10, <2>1, <2>2, <2>3 DEF RInv, NestInv
<1> QED BY <1>1, <1>2, <1>4, <1>5, <1>11 DEF RInv, StoryInv

\* Use of the environment past the recorder.
LEMMA EnvAcceptsStays ==
    ASSUME RInv, EnvAccepts
    PROVE  RInv'
<1>1. env' \in [holds : BOOLEAN, uncertain : BOOLEAN]
  BY DEF EnvAccepts
<1>2. /\ UNCHANGED <<file, events, root, ids, ran, rootClosed>>
      /\ closed' = closed /\ calls' = calls /\ failed' = failed
  BY DEF EnvAccepts
<1>3. closed' \in BOOLEAN /\ last' \in last .. MaxStamp
  BY <1>2, RecorderLimits DEF RInv, Counted, Stamped, EnvAccepts
<1> QED BY <1>1, <1>2, <1>3, UnwrittenStays

\* The end of a scope c that is a call or the root.
LEMMA EndingStays ==
    ASSUME RInv, RootOpen, NEW n \in Nat, NEW why, NEW c, NEW parent, NEW category, NEW tells,
           \/ c \in calls /\ parent = root /\ category = "llm"
              /\ rootClosed' = rootClosed /\ closed' = closed
           \/ c = root /\ parent = 0 /\ category = "agent"
              /\ rootClosed' = (n = 1) /\ closed' = TRUE,
           tells \in Tales, Writes(<<End(c, parent, category, tells)>>, n, why),
           calls' = calls \ {c}, ~closed,
           UNCHANGED <<root, env, ids, ran>>
    PROVE  RInv'
<1> DEFINE es == <<End(c, parent, category, tells)>>
<1>0. /\ ids \in Nat /\ root \in 1 .. ids /\ c \in 1 .. ids /\ parent \in Nat
      /\ category \in {"llm", "agent"}
  <2>1. ids \in Nat /\ root \in 1 .. ids /\ calls \subseteq 1 .. ids
    BY RecorderLimits DEF RInv, Counted, RootOpen, NoRoot
  <2>2. CASE c \in calls /\ parent = root /\ category = "llm"
    BY <2>1, <2>2
  <2>3. CASE c = root /\ parent = 0 /\ category = "agent"
    BY <2>1, <2>3
  <2> QED BY <2>2, <2>3
<1>1. es \in Seq(Events) /\ Len(es) = 1 /\ es[1] = End(c, parent, category, tells)
  BY <1>0, EventTypes DEF Categories
<1>2. /\ es[1].kind = "end" /\ es[1].parent = parent /\ es[1].id = c
      /\ es[1].category = category
  BY <1>1 DEF End, Event
<1> HIDE DEF es
<1>3. Writes(es, n, why)
  BY DEF es
<1>4. Onward
  BY <1>0 DEF Onward
<1>5. \A j \in 1 .. Len(es) : NewOK(es, j) /\ ("kept" \notin failed => NestedNew(es, j))
  <2>1. NewOK(es, 1)
    <3>1. c \notin Tools /\ Tools' = Tools
      BY DEF RInv, StoryInv, ToolsApart, Tools
    <3> QED BY <1>0, <1>2, <3>1 DEF NewOK
  <2>2. ASSUME "kept" \notin failed PROVE NestedNew(es, 1)
    <3>1. OpenNow(es, root, 1) \/ Rootless
      BY <2>2, UnderRoot
    <3>2. c \in calls => OpenNow(es, c, 1)
      BY <2>2 DEF OpenNow, RInv, NestInv
    <3> QED BY <1>2, <3>1, <3>2 DEF NestedNew
  <2> QED BY <1>1, <2>1, <2>2
<1>6. /\ Stamped' /\ \A k \in Lines' : (StartOK(k) /\ EndOK(k))'
      /\ "kept" \notin failed' => \A k \in Lines' : Nested(k)'
      /\ n <= Len(es) /\ events' \in 0 .. MaxEvents /\ events' <= Len(file')
      /\ \/ n = Len(es) /\ why = "none" /\ failed' = failed
         \/ why \in Cuts /\ failed' = failed \cup {why}
  BY <1>1, <1>3, <1>4, <1>5, OperationWrites
<1>7. PICK m \in n .. Len(es) : Recorded(es, m) /\ ("kept" \notin failed' => m = n)
  BY <1>1, <1>3, <1>4, <1>5, OperationWrites
<1>8. n \in 0 .. 1 /\ m \in n .. 1
  BY <1>1, <1>6
<1>9. \A x : /\ Began(x, Len(file))' <=> Began(x, Len(file))
             /\ Ceased(x, Len(file))' <=> Ceased(x, Len(file)) \/ (m = 1 /\ x = c)
  <2>1. \A j \in 1 .. m : j = 1 /\ m = 1
    BY <1>8
  <2>2. m = 1 => 1 \in 1 .. m
    BY <1>8
  <2> QED BY <1>2, <1>7, <2>1, <2>2 DEF Recorded
<1>10. Counted'
  <2>1. failed' \subseteq Outcomes \cup {"interrupted"}
    BY <1>6 DEF RInv, Counted, Outcomes, Cuts
  <2>2. /\ rootClosed' \in BOOLEAN /\ closed' \in BOOLEAN
        /\ closed' \/ rootClosed' = rootClosed
    BY DEF RInv, Counted
  <2>3. root' # NoRoot /\ calls' \subseteq calls
    BY DEF RootOpen
  <2> QED BY <1>6, <2>1, <2>2, <2>3 DEF RInv, Counted, RootOpen
<1>11. ToolsApart'
  <2>1. \A r \in ran' : Began(r.tool, Len(file))'
    BY <1>9, ToolsBegan DEF RInv
  <2> QED BY <2>1 DEF RInv, StoryInv, ToolsApart, Began, Lines, Tools
<1>12. NestInv'
  <2> PICK r : r = root
    OBVIOUS
  <2>1. ASSUME "kept" \notin failed' PROVE m = n /\ "kept" \notin failed
    BY <1>6, <1>7, <2>1
  <2>2. ASSUME "kept" \notin failed', NEW d \in calls' PROVE OpenAt(d, Len(file))'
    BY <1>9, <2>1, <2>2 DEF RInv, NestInv, OpenAt
  <2>3. ASSUME "kept" \notin failed', RootOpen' PROVE ~Ceased(r, Len(file))'
    <3>1. ~Ceased(r, Len(file))
      BY <2>1, <2>3 DEF RInv, NestInv
    <3>2. CASE c \in calls
      BY <1>9, <3>1, <3>2 DEF RInv, Counted
    <3>3. CASE c = root /\ rootClosed' = (n = 1)
      BY <1>8, <1>9, <2>1, <2>3, <3>1, <3>3 DEF RootOpen
    <3> QED BY <3>2, <3>3
  <2>4. ASSUME "kept" \notin failed', NEW x \in 1 .. ids', OpenAt(x, Len(file))', failed' = {}
        PROVE  x \in calls' \/ (RootOpen' /\ x = root')
    <3>1. n = 1 /\ m = 1 /\ failed = {}
      BY <1>1, <1>6, <1>7, <2>4
    <3>2. OpenAt(x, Len(file)) /\ x # c
      BY <1>9, <2>4, <3>1 DEF OpenAt
    <3>3. x \in calls \/ (RootOpen /\ x = root)
      BY <2>1, <2>4, <3>1, <3>2 DEF RInv, NestInv
    <3> QED BY <3>2, <3>3 DEF RootOpen
  <2>5. ASSUME failed' = {}, RootOpen' PROVE Began(r, Len(file))'
    <3>1. failed = {}
      BY <1>6, <2>5
    <3> QED BY <1>9, <3>1 DEF RInv, NestInv
  <2> QED BY <1>6, <2>2, <2>3, <2>4, <2>5 DEF NestInv
<1> QED BY <1>6, <1>10, <1>11, <1>12 DEF RInv, StoryInv

\* The end of a model call, also after close.
LEMMA LLMEndStays ==
    ASSUME RInv, NEW c \in calls, NEW tells \in {"nothing", "type"}, NEW n \in Nat, NEW why,
           LLMEnd(c, tells, n, why)
    PROVE  RInv'
<1>1. CASE closed
  <2>1. /\ UNCHANGED <<file, events, root, ids, ran, rootClosed, env, closed>>
        /\ calls' \subseteq calls /\ \E reason \in Cuts : failed' = failed \cup {reason}
    BY <1>1 DEF LLMEnd, Cuts
  <2>2. last' \in last .. MaxStamp
    <3>1. last \in Nat /\ MaxStamp \in Nat
      BY RecorderLimits DEF RInv, Stamped
    <3>2. PICK wall \in Readings : last' = Stamp(last, wall) /\ last' <= MaxStamp
      BY <1>1 DEF LLMEnd
    <3>3. wall \in Nat
      BY RecorderTimes DEF Readings
    <3> QED BY <3>1, <3>2, <3>3 DEF Stamp
  <2>3. closed' \in BOOLEAN /\ env' \in [holds : BOOLEAN, uncertain : BOOLEAN]
    BY <2>1 DEF RInv, Counted
  <2> QED BY <2>1, <2>2, <2>3, UnwrittenStays
<1>2. CASE ~closed
  <2>1. RootOpen
    BY <1>2 DEF RootOpen, RInv, Counted
  <2> QED BY <1>2, <2>1, EndingStays DEF LLMEnd, Tales
<1> QED BY <1>1, <1>2

\* A model call whose body is interrupted.
LEMMA LLMInterruptedStays ==
    ASSUME RInv, NEW c \in calls, LLMInterrupted(c)
    PROVE  RInv'
<1>1. /\ UNCHANGED <<file, events, last, root, ids, ran, rootClosed, env, closed>>
      /\ calls' \subseteq calls /\ \E why \in Cuts : failed' = failed \cup {why}
  BY DEF LLMInterrupted, Cuts
<1>2. /\ closed' \in BOOLEAN /\ env' \in [holds : BOOLEAN, uncertain : BOOLEAN]
      /\ last' \in last .. MaxStamp
  BY <1>1, RecorderLimits DEF RInv, Counted, Stamped
<1> QED BY <1>1, <1>2, UnwrittenStays

\* close, with a root to end or without.
LEMMA CloseStays ==
    ASSUME RInv, NEW n \in Nat, NEW why, Close(n, why)
    PROVE  RInv'
<1>1. CASE RootOpen
  <2>1. calls \ {root} = calls
    BY DEF RInv, Counted
  <2> QED BY <1>1, <2>1, EndingStays DEF Close, RootOpen, Tales
<1>2. CASE ~RootOpen
  <2>1. /\ UNCHANGED <<file, events, last, failed, rootClosed, root, env, calls, ids, ran>>
        /\ closed' = TRUE
    BY <1>2 DEF Close, RootOpen
  <2>2. env' \in [holds : BOOLEAN, uncertain : BOOLEAN] /\ last' \in last .. MaxStamp
    BY <2>1, RecorderLimits DEF RInv, Counted, Stamped
  <2> QED BY <2>1, <2>2, UnwrittenStays
<1> QED BY <1>1, <1>2

\* The events of a step: two lines before the environment is called and, unless it
\* is interrupted there, two after.
Told(es, f, t, outcome, tale, end) ==
    /\ outcome \in Results
    /\ tale \in {"result", "error"} /\ (tale = "result" <=> outcome = "ok")
    /\ Len(es) \in {2, 4}
    /\ es[1] = Start(f, root, "function") /\ es[2] = Start(t, f, "tool")
    /\ Len(es) = 4 => es[3] = End(t, f, "tool", tale) /\ es[4] = End(f, root, "function", end)

\* A step that tells its events.
LEMMA SteppingStays ==
    ASSUME RInv, RootOpen, NEW n \in Nat, NEW why, NEW es \in Seq(Events), Writes(es, n, why),
           NEW f, NEW t, NEW tale, NEW end, NEW outcome, Told(es, f, t, outcome, tale, end),
           f = ids + 1, t = ids + 2, ids' = t, t <= MaxScopes,
           why = "none" => Len(es) = 4, Len(es) = 4 => n >= 2,
           ran' = IF n >= 2 THEN ran \cup {[tool |-> t, outcome |-> outcome]} ELSE ran,
           env' \in [holds : BOOLEAN, uncertain : BOOLEAN],
           UNCHANGED <<root, rootClosed, closed, calls>>
    PROVE  RInv'
<1>t. /\ outcome \in Results
      /\ tale \in {"result", "error"} /\ (tale = "result" <=> outcome = "ok")
      /\ Len(es) \in {2, 4}
      /\ es[1] = Start(f, root, "function") /\ es[2] = Start(t, f, "tool")
      /\ Len(es) = 4 => /\ es[3] = End(t, f, "tool", tale) /\ es[4] = End(f, root, "function", end)
                        /\ n >= 2
  BY DEF Told
<1> USE <1>t
<1>0. /\ ids \in Nat /\ root \in 1 .. ids /\ f \in Nat /\ t \in Nat /\ f \in 1 .. ids' /\ t \in 1 .. ids'
      /\ f \in ids + 1 .. ids' /\ t \in ids + 1 .. ids' /\ f # root /\ t # root /\ f # t
      /\ f > ids /\ t > ids
  <2>1. ids \in Nat /\ root \in 1 .. ids
    BY RecorderLimits DEF RInv, Counted, RootOpen, NoRoot
  <2> QED BY <2>1
<1>1. /\ es[1].kind = "start" /\ es[1].id = f /\ es[1].parent = root /\ es[1].category = "function"
      /\ es[2].kind = "start" /\ es[2].id = t /\ es[2].parent = f /\ es[2].category = "tool"
  BY DEF Start, Event
<1>2. Len(es) = 4 =>
        /\ es[3].kind = "end" /\ es[3].id = t /\ es[3].parent = f /\ es[3].category = "tool"
        /\ es[3].tells = tale
        /\ es[4].kind = "end" /\ es[4].id = f /\ es[4].parent = root /\ es[4].category = "function"
  BY DEF End, Event
<1>3. /\ \A j \in 1 .. Len(es) : j \in {1, 2} \/ (Len(es) = 4 /\ j \in {3, 4})
      /\ {1, 2} \subseteq 1 .. Len(es)
  <2> PICK k : k = Len(es)
    OBVIOUS
  <2>1. CASE k = 2
    BY <2>1
  <2>2. CASE k = 4
    BY <2>2
  <2> QED BY <2>1, <2>2, Zenon
<1>4. Onward
  <2>1. \A r \in ran' \ ran : r.tool = t
    OBVIOUS
  <2> QED BY <1>0, <2>1 DEF Onward
<1>5. \A x : x \in Tools' <=> x \in Tools \/ (n >= 2 /\ x = t)
  <2>1. n >= 2 => [tool |-> t, outcome |-> outcome] \in ran'
    OBVIOUS
  <2> QED BY <2>1, SMTT(20) DEF Tools
<1>6. f \notin Tools /\ t \notin Tools /\ \A c \in calls : c # f /\ c # t
  BY <1>0, SMTT(20) DEF RInv, Counted, Tools
<1>7. \A j \in 1 .. Len(es) : NewOK(es, j)
  <2>1. NewOK(es, 1)
    BY <1>0, <1>1 DEF NewOK, Categories
  <2>2. NewOK(es, 2)
    <3>1. \A i \in 1 .. 2 - 1 : i = 1
      OBVIOUS
    <3>2. es[2 - 1] = Start(f, root', "function")
      OBVIOUS
    <3> QED BY <1>0, <1>1, <3>1, <3>2 DEF NewOK, Categories
  <2>3. Len(es) = 4 => NewOK(es, 3)
    <3> DEFINE q == [tool |-> t, outcome |-> outcome]
    <3>0. n >= 2 => q \in ran' /\ q.tool = t /\ q.outcome = outcome
      OBVIOUS
    <3> HIDE DEF q
    <3>1. Len(es) = 4 => \E r \in ran' : r.tool = t /\ (tale = "result" <=> r.outcome = "ok")
      BY <3>0
    <3>2. 2 \in 1 .. 3 - 1
      OBVIOUS
    <3> QED BY <1>0, <1>1, <1>2, <3>1, <3>2 DEF NewOK
  <2>4. Len(es) = 4 => NewOK(es, 4)
    BY <1>0, <1>2, <1>5, <1>6 DEF NewOK
  <2> QED BY <1>3, <2>1, <2>2, <2>3, <2>4
<1>8. ASSUME "kept" \notin failed PROVE \A j \in 1 .. Len(es) : NestedNew(es, j)
  <2>1. OpenNow(es, root, 1) \/ Rootless
    BY <1>8, UnderRoot
  <2>2. NestedNew(es, 1)
    BY <1>1, <2>1 DEF NestedNew
  <2>3. OpenNow(es, f, 2)
    <3>1. \A i \in 1 .. 2 - 1 : i = 1
      OBVIOUS
    <3>2. 1 \in 1 .. 2 - 1
      OBVIOUS
    <3> QED BY <1>0, <1>1, <3>1, <3>2 DEF OpenNow
  <2>4. NestedNew(es, 2)
    BY <1>1, <2>3 DEF NestedNew
  <2>5. OpenNow(es, t, 3) /\ OpenNow(es, f, 3)
    <3>1. \A i \in 1 .. 3 - 1 : i = 1 \/ i = 2
      OBVIOUS
    <3>2. 1 \in 1 .. 3 - 1 /\ 2 \in 1 .. 3 - 1
      OBVIOUS
    <3> QED BY <1>0, <1>1, <3>1, <3>2 DEF OpenNow
  <2>6. Len(es) = 4 => NestedNew(es, 3)
    BY <1>2, <2>5 DEF NestedNew
  <2>7. Len(es) = 4 => OpenNow(es, f, 4) /\ (OpenNow(es, root, 4) \/ Rootless)
    <3>1. \A i \in 1 .. 4 - 1 : i = 1 \/ i = 2 \/ i = 3
      OBVIOUS
    <3>2. 1 \in 1 .. 4 - 1
      OBVIOUS
    <3>3. Len(es) = 4 => OpenNow(es, f, 4)
      BY <1>0, <1>1, <1>2, <3>1, <3>2 DEF OpenNow
    <3>4. Len(es) = 4 => \A i \in 1 .. 4 - 1 : ~(es[i].kind = "end" /\ es[i].id = root)
      BY <1>0, <1>1, <1>2, <3>1
    <3> QED BY <1>8, <3>3, <3>4, UnderRoot
  <2>8. Len(es) = 4 => NestedNew(es, 4)
    BY <1>2, <2>7 DEF NestedNew
  <2> QED BY <1>3, <2>2, <2>4, <2>6, <2>8
<1>9. /\ Stamped' /\ \A k \in Lines' : (StartOK(k) /\ EndOK(k))'
      /\ "kept" \notin failed' => \A k \in Lines' : Nested(k)'
      /\ n <= Len(es) /\ events' \in 0 .. MaxEvents /\ events' <= Len(file')
      /\ \/ n = Len(es) /\ why = "none" /\ failed' = failed
         \/ why \in Cuts /\ failed' = failed \cup {why}
  BY <1>4, <1>7, <1>8, OperationWrites
<1>10. PICK m \in n .. Len(es) : Recorded(es, m) /\ ("kept" \notin failed' => m = n)
  BY <1>4, <1>7, <1>8, OperationWrites
<1>11. \A x : /\ Began(x, Len(file)) => Began(x, Len(file))'
              /\ Began(x, Len(file))' => Began(x, Len(file)) \/ x \in {f, t}
              /\ Ceased(x, Len(file)) => Ceased(x, Len(file))'
              /\ Ceased(x, Len(file))' => Ceased(x, Len(file)) \/ x \in {f, t}
  <2>1. \A j \in 1 .. m : j \in 1 .. Len(es)
    BY <1>10
  <2>2. \A j \in 1 .. m : es[j].id \in {f, t}
    BY <1>1, <1>2, <1>3, <2>1
  <2> QED BY <1>10, <2>2, SMTT(20) DEF Recorded
<1>12. n >= 2 => Began(t, Len(file))'
  <2>1. n >= 2 => 2 \in 1 .. m
    BY <1>10
  <2> QED BY <1>1, <1>10, <2>1 DEF Recorded
<1>13. n = 4 => Ceased(t, Len(file))' /\ Ceased(f, Len(file))'
  <2>1. n = 4 => 3 \in 1 .. m /\ 4 \in 1 .. m
    BY <1>10
  <2> QED BY <1>2, <1>10, <2>1 DEF Recorded
<1>14. Counted'
  <2>1. failed' \subseteq Outcomes \cup {"interrupted"}
    BY <1>9 DEF RInv, Counted, Outcomes, Cuts
  <2>2. ran' \subseteq [tool : 1 .. ids', outcome : Results] /\ calls' \subseteq 1 .. ids'
    BY <1>0, SMTT(20) DEF RInv, Counted
  <2>3. ids' \in 0 .. MaxScopes /\ root' \in 0 .. ids' /\ root' # NoRoot
    BY <1>0, RecorderLimits DEF RootOpen
  <2> QED BY <1>9, <2>1, <2>2, <2>3 DEF RInv, Counted
<1>15. ToolsApart'
  <2>1. \A r \in ran' : Began(r.tool, Len(file))'
    BY <1>11, <1>12, ToolsBegan DEF RInv
  <2>2. \A r, q \in ran' : r.tool = q.tool => r = q
    <3>1. \A r \in ran : r.tool # t
      BY <1>6 DEF Tools
    <3> QED BY <3>1 DEF RInv, StoryInv, ToolsApart
  <2>3. calls' \cap Tools' = {} /\ root' \notin Tools'
    BY <1>0, <1>5, <1>6 DEF RInv, StoryInv, ToolsApart
  <2> QED BY <2>1, <2>2, <2>3 DEF ToolsApart, Began, Lines
<1>16. NestInv'
  <2> PICK r : r = root
    OBVIOUS
  <2>1. RootOpen' /\ r \notin {f, t} /\ calls \subseteq 1 .. ids
    BY <1>0 DEF RootOpen, RInv, Counted
  <2>2. "kept" \notin failed' => m = n /\ "kept" \notin failed
    BY <1>9, <1>10
  <2>3. ASSUME "kept" \notin failed', NEW d \in calls' PROVE OpenAt(d, Len(file))'
    <3>1. OpenAt(d, Len(file))
      BY <2>2, <2>3 DEF RInv, NestInv
    <3> QED BY <1>6, <1>11, <2>3, <3>1 DEF OpenAt
  <2>4. ASSUME "kept" \notin failed' PROVE ~Ceased(r, Len(file))'
    <3>1. ~Ceased(r, Len(file))
      BY <2>2, <2>4 DEF RInv, NestInv
    <3> QED BY <1>11, <2>1, <3>1
  <2>5. ASSUME "kept" \notin failed', NEW x \in 1 .. ids', OpenAt(x, Len(file))', failed' = {}
        PROVE  x \in calls' \/ (RootOpen' /\ x = root')
    <3>1. n = 4 /\ failed = {}
      BY <1>9, <2>5 DEF Cuts
    <3>2. x \notin {f, t}
      BY <1>13, <2>5, <3>1 DEF OpenAt
    <3>3. OpenAt(x, Len(file)) /\ x \in 1 .. ids
      BY <1>0, <1>11, <2>5, <3>2 DEF OpenAt
    <3> QED BY <2>1, <2>2, <2>5, <3>1, <3>3 DEF RInv, NestInv
  <2>6. ASSUME failed' = {} PROVE Began(r, Len(file))'
    <3>1. failed = {}
      BY <1>9, <2>6
    <3> QED BY <1>11, <3>1 DEF RInv, NestInv
  <2> QED BY <1>9, <2>1, <2>3, <2>4, <2>5, <2>6 DEF NestInv
<1> QED BY <1>9, <1>14, <1>15, <1>16 DEF RInv, StoryInv

\* The environment keeps its type, however it answers.
LEMMA EnvTyped ==
    ASSUME RInv, NEW outcome, EnvDoes(outcome)
    PROVE  env' \in [holds : BOOLEAN, uncertain : BOOLEAN]
<1>1. env \in [holds : BOOLEAN, uncertain : BOOLEAN]
  BY DEF RInv, Counted
<1>2. \/ env' = env
      \/ env' = [holds |-> TRUE, uncertain |-> FALSE]
      \/ env' = [env EXCEPT !.uncertain = TRUE]
  BY DEF EnvDoes
<1>3. env \in [holds : BOOLEAN, uncertain : BOOLEAN]
         => [env EXCEPT !.uncertain = TRUE] \in [holds : BOOLEAN, uncertain : BOOLEAN]
  OBVIOUS
<1>4. [holds |-> TRUE, uncertain |-> FALSE] \in [holds : BOOLEAN, uncertain : BOOLEAN]
  OBVIOUS
<1> QED BY <1>1, <1>2, <1>3, <1>4, Zenon

\* step, at each of the points where a write may stop it.
LEMMA StepStays ==
    ASSUME RInv, NEW n \in Nat, NEW why, Step(n, why)
    PROVE  RInv'
<1> PICK f, t : f = ids + 1 /\ t = ids + 2
  OBVIOUS
<1>1. /\ RootOpen /\ t <= MaxScopes /\ ids' = t
      /\ UNCHANGED <<root, rootClosed, closed, calls>>
  BY DEF Step, Recording, RootOpen
<1>2. f \in Nat /\ t \in Nat /\ root \in Nat
  BY RecorderLimits DEF RInv, Counted
<1> DEFINE e1 == Start(f, root, "function")
           e2 == Start(t, f, "tool")
<1>3. e1 \in Events /\ e2 \in Events /\ Before(f, t) = <<e1, e2>>
  BY <1>2, EventTypes DEF Before, Categories
<1>4. CASE n >= 2
  <2>1. PICK outcome \in Results :
            /\ EnvDoes(outcome) /\ CutShort(outcome, why)
            /\ Writes(Before(f, t) \o After(f, t, outcome), n, why)
            /\ ran' = ran \cup {[tool |-> t, outcome |-> outcome]}
    BY <1>4 DEF Step, Runs
  <2>7. env' \in [holds : BOOLEAN, uncertain : BOOLEAN]
    BY <2>1, EnvTyped
  <2>8. CASE outcome = "interrupted"
    <3>1. Before(f, t) \o After(f, t, outcome) = <<e1, e2>>
      BY <1>3, <2>8 DEF After
    <3> HIDE DEF e1, e2
    <3> DEFINE es == <<e1, e2>>
    <3>2. es \in Seq(Events) /\ Len(es) = 2 /\ es[1] = e1 /\ es[2] = e2
      BY <1>3
    <3>3. Writes(es, n, why)
      BY <2>1, <3>1
    <3> HIDE DEF es
    <3>4. why # "none" /\ Len(es) # 4 /\ Len(es) \in {2, 4}
      <4>1. why = "interrupted"
        BY <2>1, <2>8, Zenon DEF CutShort
      <4> QED BY <3>2, <4>1
    <3>5. Told(es, f, t, outcome, "error", "error")
      <4>1. Len(es) # 4 /\ Len(es) \in {2, 4}
        BY <3>4
      <4> QED BY <2>1, <2>8, <3>2, <4>1 DEF Told, e1, e2
    <3>6. ran' = IF n >= 2 THEN ran \cup {[tool |-> t, outcome |-> outcome]} ELSE ran
      BY <1>4, <2>1
    <3> QED BY <1>1, <2>7, <3>2, <3>3, <3>4, <3>5, <3>6, SteppingStays
  <2>9. CASE outcome # "interrupted"
    <3>2. PICK tale \in {"result", "error"}, end \in {"outcome", "error"} :
              /\ tale = "result" <=> outcome = "ok"
              /\ After(f, t, outcome) = <<End(t, f, "tool", tale), End(f, root, "function", end)>>
      BY <2>9 DEF After
    <3> DEFINE e3 == End(t, f, "tool", tale)
               e4 == End(f, root, "function", end)
    <3>3. e3 \in Events /\ e4 \in Events
      BY <1>2, EventTypes DEF Categories, Tales
    <3> HIDE DEF e1, e2, e3, e4
    <3> DEFINE before == <<e1, e2>>
               after == <<e3, e4>>
               es == before \o after
    <3>4. /\ before \in Seq(Events) /\ Len(before) = 2 /\ before[1] = e1 /\ before[2] = e2
          /\ after \in Seq(Events) /\ Len(after) = 2 /\ after[1] = e3 /\ after[2] = e4
      BY <1>3, <3>3
    <3>5. Writes(es, n, why)
      BY <1>3, <2>1, <3>2 DEF e3, e4
    <3> HIDE DEF before, after
    <3>6. es \in Seq(Events) /\ Len(es) = 4 /\ es[1] = e1 /\ es[2] = e2 /\ es[3] = e3 /\ es[4] = e4
      <4>1. /\ es \in Seq(Events) /\ Len(es) = 4
            /\ \A i \in 1 .. 4 : es[i] = IF i <= 2 THEN before[i] ELSE after[i - 2]
        <5>1. /\ es \in Seq(Events) /\ Len(es) = Len(before) + Len(after)
              /\ \A i \in 1 .. Len(before) + Len(after) :
                     es[i] = IF i <= Len(before) THEN before[i] ELSE after[i - Len(before)]
          BY <3>4, ConcatProperties, Zenon
        <5>2. Len(before) + Len(after) = 4
          BY <3>4
        <5> QED BY <3>4, <5>1, <5>2
      <4> QED BY <3>4, <4>1
    <3> HIDE DEF es
    <3>7. Told(es, f, t, outcome, tale, end)
      BY <2>1, <3>2, <3>6 DEF Told, e1, e2, e3, e4
    <3>8. ran' = IF n >= 2 THEN ran \cup {[tool |-> t, outcome |-> outcome]} ELSE ran
      BY <1>4, <2>1
    <3> QED BY <1>1, <1>4, <2>7, <3>5, <3>6, <3>7, <3>8, SteppingStays
  <2> QED BY <2>8, <2>9
<1>5. CASE ~(n >= 2)
  <2>1. Writes(Before(f, t), n, why) /\ UNCHANGED <<env, ran>>
    BY <1>5 DEF Step, Runs
  <2>2. <<e1, e2>> \in Seq(Events) /\ Len(<<e1, e2>>) = 2
    BY <1>3
  <2>3. env' \in [holds : BOOLEAN, uncertain : BOOLEAN]
    BY <2>1 DEF RInv, Counted
  <2>4. "ok" \in Results
    BY DEF Results
  <2> HIDE DEF e1, e2
  <2> DEFINE es == <<e1, e2>>
  <2>5. es[1] = e1 /\ es[2] = e2
    OBVIOUS
  <2> HIDE DEF es
  <2>6. es \in Seq(Events) /\ Len(es) = 2 /\ Writes(es, n, why)
    BY <1>3, <2>1, <2>2 DEF es
  <2>7. why # "none" /\ Len(es) # 4 /\ Len(es) \in {2, 4}
    <3>1. (n = Len(es) /\ why = "none") \/ why \in Cuts
      BY <2>6, WritesGrow DEF RInv
    <3> QED BY <1>5, <2>6, <3>1 DEF Cuts
  <2>8. Told(es, f, t, "ok", "result", "outcome")
    <3>1. Len(es) # 4 /\ Len(es) \in {2, 4}
      BY <2>7
    <3> QED BY <2>4, <2>5, <3>1 DEF Told, e1, e2
  <2>9. ran' = IF n >= 2 THEN ran \cup {[tool |-> t, outcome |-> "ok"]} ELSE ran
    BY <1>5, <2>1
  <2> QED BY <1>1, <2>3, <2>6, <2>7, <2>8, <2>9, SteppingStays
<1> QED BY <1>4, <1>5

\* The root's start, and a mark or, when the environment refused, the root's end;
\* or no more, when it was interrupted.
LEMMA ResettingStays ==
    ASSUME RInv, root = NoRoot, ~closed, ids < MaxScopes, NEW id, id = ids + 1,
           root' = id, ids' = id, NEW n \in 0 .. 2, NEW why,
           NEW es \in Seq(Events), Writes(es, n, why), NEW ends \in BOOLEAN,
           Len(es) \in {1, 2}, why = "none" => Len(es) = 2, es[1] = Start(id, 0, "agent"),
           Len(es) = 2 => es[2] = IF ends THEN End(id, 0, "agent", "failed") ELSE MarkUnder(id),
           rootClosed' = (ends /\ n = 2),
           env' \in [holds : BOOLEAN, uncertain : BOOLEAN],
           UNCHANGED <<closed, calls, ran>>
    PROVE  RInv'
<1>0. /\ ids \in Nat /\ id \in Nat /\ id \in ids + 1 .. ids' /\ id \in 1 .. ids' /\ id # 0
      /\ file = <<>> /\ Len(file) = 0 /\ calls = {} /\ ran = {} /\ rootClosed = FALSE
  BY RecorderLimits DEF RInv, Counted
<1>1. /\ es[1].kind = "start" /\ es[1].id = id /\ es[1].parent = 0 /\ es[1].category = "agent"
      /\ Len(es) = 2 =>
                  /\ es[2].kind = IF ends THEN "end" ELSE "mark"
                  /\ es[2].id = IF ends THEN id ELSE 0
                  /\ es[2].parent = IF ends THEN 0 ELSE id
                  /\ es[2].category = IF ends THEN "agent" ELSE "mark"
  BY DEF Start, End, MarkUnder, Event
<1>2. \A j \in 1 .. Len(es) : j = 1 \/ (Len(es) = 2 /\ j = 2)
  <2> PICK k : k = Len(es)
    OBVIOUS
  <2>1. CASE k = 1
    BY <2>1
  <2>2. CASE k = 2
    BY <2>2
  <2> QED BY <2>1, <2>2, Zenon
<1>3. Onward
  BY <1>0 DEF Onward
<1>4. Tools' = {}
  BY <1>0 DEF Tools
<1>5. \A j \in 1 .. Len(es) : NewOK(es, j)
  <2>1. NewOK(es, 1)
    BY <1>0, <1>1 DEF NewOK, Categories
  <2>2. Len(es) = 2 => NewOK(es, 2)
    BY <1>0, <1>1, <1>4 DEF NewOK
  <2> QED BY <1>2, <2>1, <2>2
<1>6. \A j \in 1 .. Len(es) : NestedNew(es, j)
  <2>1. NestedNew(es, 1)
    BY <1>1 DEF NestedNew
  <2>2. OpenNow(es, id, 2)
    <3>1. \A i \in 1 .. 2 - 1 : i = 1
      OBVIOUS
    <3>2. 1 \in 1 .. 2 - 1 /\ id > ids
      BY <1>0
    <3> QED BY <1>1, <3>1, <3>2 DEF OpenNow
  <2>3. Len(es) = 2 => NestedNew(es, 2)
    BY <1>1, <2>2 DEF NestedNew
  <2> QED BY <1>2, <2>1, <2>3
<1>14. n \in Nat /\ \A j \in 1 .. Len(es) : NewOK(es, j) /\ ("kept" \notin failed => NestedNew(es, j))
  BY <1>5, <1>6
<1>7. /\ Stamped' /\ \A k \in Lines' : (StartOK(k) /\ EndOK(k))'
      /\ "kept" \notin failed' => \A k \in Lines' : Nested(k)'
      /\ n <= Len(es) /\ events' \in 0 .. MaxEvents /\ events' <= Len(file')
      /\ \/ n = Len(es) /\ why = "none" /\ failed' = failed
         \/ why \in Cuts /\ failed' = failed \cup {why}
  BY <1>3, <1>14, OperationWrites
<1>8. PICK m \in n .. Len(es) : Recorded(es, m) /\ ("kept" \notin failed' => m = n)
  BY <1>3, <1>14, OperationWrites
<1>9. \A x : ~Began(x, Len(file)) /\ ~Ceased(x, Len(file))
  BY <1>0 DEF Began, Ceased
<1>10. \A x : /\ Began(x, Len(file))' <=> m > 0 /\ x = id
              /\ Ceased(x, Len(file))' <=> m = 2 /\ ends /\ x = id
  <2>1. \A j \in 1 .. m : j = 1 \/ (j = 2 /\ m = 2 /\ Len(es) = 2)
    BY <1>2, <1>8
  <2>2. (m > 0 <=> 1 \in 1 .. m) /\ (m = 2 => 2 \in 1 .. m /\ Len(es) = 2) /\ m \in 0 .. 2
    <3> PICK k : k = Len(es)
      OBVIOUS
    <3>1. k \in 1 .. 2 /\ m \in 0 .. k
      BY <1>8
    <3>2. CASE k = 1
      BY <3>1, <3>2
    <3>3. CASE k = 2
      BY <3>1, <3>3
    <3> QED BY <3>1, <3>2, <3>3
  <2> QED BY <1>1, <1>8, <1>9, <2>1, <2>2 DEF Recorded
<1>11. Counted'
  <2>1. failed' \subseteq Outcomes \cup {"interrupted"}
    BY <1>7 DEF RInv, Counted, Outcomes, Cuts
  <2>2. ids' \in 0 .. MaxScopes /\ root' \in 0 .. ids' /\ root' # NoRoot
    BY <1>0, RecorderLimits DEF NoRoot
  <2> QED BY <1>0, <1>7, <2>1, <2>2 DEF RInv, Counted
<1>12. ToolsApart'
  BY <1>0, <1>4 DEF ToolsApart
<1>13. NestInv'
  <2>1. Began(root, Len(file))' <=> Began(id, Len(file))'
    OBVIOUS
  <2>2. Ceased(root, Len(file))' <=> Ceased(id, Len(file))'
    OBVIOUS
  <2>3. calls' = {} /\ (RootOpen' <=> ~rootClosed')
    BY <1>0 DEF RootOpen, NoRoot
  <2>4. ASSUME "kept" \notin failed', RootOpen' PROVE ~Ceased(id, Len(file))'
    BY <1>8, <1>10, <2>3, <2>4
  <2>5. ASSUME NEW x \in 1 .. ids', OpenAt(x, Len(file))', failed' = {}
        PROVE  RootOpen' /\ x = root'
    <3>1. n = 2 /\ m = 2
      BY <1>7, <1>8, <2>5 DEF Cuts
    <3> QED BY <1>10, <2>3, <2>5, <3>1 DEF OpenAt
  <2>6. ASSUME failed' = {} PROVE Began(id, Len(file))'
    BY <1>7, <1>8, <1>10, <2>6 DEF Cuts
  <2> QED BY <1>7, <2>1, <2>2, <2>3, <2>4, <2>5, <2>6 DEF NestInv
<1> QED BY <1>7, <1>11, <1>12, <1>13 DEF RInv, StoryInv

\* reset, at each of the points where a write may stop it.
LEMMA ResetStays ==
    ASSUME RInv, NEW n \in Nat, NEW why, Reset(n, why)
    PROVE  RInv'
<1> PICK id : id = ids + 1
  OBVIOUS
<1> DEFINE e1 == Start(id, 0, "agent")
<1>1. /\ root = NoRoot /\ ~closed /\ ids < MaxScopes /\ root' = id /\ ids' = id
      /\ UNCHANGED <<closed, calls, ran>>
  BY DEF Reset
<1>2. id \in Nat /\ rootClosed = FALSE /\ env \in [holds : BOOLEAN, uncertain : BOOLEAN]
  BY <1>1, RecorderLimits DEF RInv, Counted
<1>3. e1 \in Events
  BY <1>2, EventTypes DEF Categories
<1>4. CASE n = 0 /\ Writes(<<e1>>, n, why) /\ UNCHANGED <<rootClosed, env>>
  <2> HIDE DEF e1
  <2> DEFINE es == <<e1>>
  <2>1. es \in Seq(Events) /\ Len(es) = 1 /\ es[1] = e1
    BY <1>3
  <2> HIDE DEF es
  <2>2. Writes(es, n, why) /\ n \in 0 .. 2
    BY <1>4 DEF es
  <2>3. rootClosed' = (FALSE /\ n = 2) /\ FALSE \in BOOLEAN
    BY <1>2, <1>4
  <2>4. why # "none" /\ Len(es) # 2
    <3>1. (n = Len(es) /\ why = "none") \/ why \in Cuts
      BY <2>1, <2>2, WritesGrow DEF RInv
    <3> QED BY <1>4, <2>1, <3>1 DEF Cuts
  <2> QED BY <1>1, <1>2, <1>4, <2>1, <2>2, <2>3, <2>4, ResettingStays DEF e1
<1>5. ASSUME NEW outcome \in Results, n \in 1 .. 2, EnvDoes(outcome), CutShort(outcome, why),
             Writes(<<e1>> \o AfterReset(id, outcome), n, why),
             rootClosed' = RootEnded(n, outcome)
      PROVE  RInv'
  <2>1. env' \in [holds : BOOLEAN, uncertain : BOOLEAN]
    BY <1>5, EnvTyped
  <2>2. CASE outcome = "interrupted"
    <3>1. <<e1>> \o AfterReset(id, outcome) = <<e1>>
      BY <1>3, <2>2 DEF AfterReset
    <3> HIDE DEF e1
    <3> DEFINE es == <<e1>>
    <3>2. es \in Seq(Events) /\ Len(es) = 1 /\ es[1] = e1
      BY <1>3
    <3>3. Writes(es, n, why)
      BY <1>5, <3>1
    <3> HIDE DEF es
    <3>4. n = 1 /\ why # "none" /\ Len(es) # 2 /\ n \in 0 .. 2
      <4>1. why = "interrupted"
        BY <1>5, <2>2, Zenon DEF CutShort
      <4>2. n <= Len(es)
        BY <3>2, <3>3, WritesGrow DEF RInv
      <4> QED BY <1>5, <3>2, <4>1, <4>2
    <3>5. rootClosed' = (FALSE /\ n = 2) /\ FALSE \in BOOLEAN
      BY <1>5, <3>4 DEF RootEnded
    <3> QED BY <1>1, <2>1, <3>2, <3>3, <3>4, <3>5, ResettingStays DEF e1
  <2>3. CASE outcome # "interrupted"
    <3> DEFINE ends == outcome # "ok"
               e2 == IF ends THEN End(id, 0, "agent", "failed") ELSE MarkUnder(id)
    <3>1. e2 \in Events /\ AfterReset(id, outcome) = <<e2>>
      BY <1>2, <2>3, EventTypes DEF Categories, Tales, AfterReset
    <3>2. ends \in BOOLEAN /\ rootClosed' = (ends /\ n = 2) /\ n \in 0 .. 2
      BY <1>5 DEF RootEnded
    <3> PICK x : x = e2
      OBVIOUS
    <3>3. x = IF ends THEN End(id, 0, "agent", "failed") ELSE MarkUnder(id)
      OBVIOUS
    <3>4. x \in Events /\ Writes(<<e1>> \o <<x>>, n, why)
      BY <1>5, <3>1
    <3> HIDE DEF e1, e2, ends
    <3> DEFINE es == <<e1>> \o <<x>>
    <3>5. es \in Seq(Events) /\ Len(es) = 2 /\ es[1] = e1 /\ es[2] = x
      BY <1>3, <3>4
    <3> HIDE DEF es
    <3>6. Writes(es, n, why)
      BY <3>4 DEF es
    <3> QED BY <1>1, <2>1, <3>2, <3>3, <3>5, <3>6, ResettingStays DEF e1
  <2> QED BY <2>2, <2>3
<1> QED BY <1>4, <1>5 DEF Reset

\* Every step keeps the invariant.
LEMMA RecInvariant == RecSpec => []RInv
<1>1. RecInit => RInv
  <2> SUFFICES ASSUME RecInit PROVE RInv
    OBVIOUS
  <2>1. Stamped
    BY RecorderLimits DEF RecInit, Stamped, Lines
  <2>2. Counted
    <3>1. /\ events = 0 /\ ids = 0 /\ root = 0 /\ Len(file) = 0 /\ MaxEvents \in Nat /\ MaxScopes \in Nat
          /\ calls = {} /\ ran = {} /\ failed = {} /\ file = <<>>
          /\ rootClosed = FALSE /\ closed = FALSE /\ env = [holds |-> FALSE, uncertain |-> FALSE]
      BY RecorderLimits DEF RecInit, NoRoot
    <3>2. env \in [holds : BOOLEAN, uncertain : BOOLEAN]
      BY <3>1
    <3>3. /\ events \in 0 .. MaxEvents /\ events <= Len(file)
          /\ ids \in 0 .. MaxScopes /\ root \in 0 .. ids
      BY <3>1
    <3>4. rootClosed \in BOOLEAN /\ closed \in BOOLEAN
      BY <3>1
    <3>5. calls \subseteq 1 .. ids /\ root \notin calls
      BY <3>1
    <3>6. failed \subseteq Outcomes \cup {"interrupted"} /\ ran \subseteq [tool : 1 .. ids, outcome : Results]
      <4>1. \A S : {} \subseteq S
        OBVIOUS
      <4> QED BY <3>1, <4>1, Zenon
    <3> QED BY <3>1, <3>2, <3>3, <3>4, <3>5, <3>6 DEF Counted
  <2>3. StoryInv
    BY DEF RecInit, StoryInv, ToolsApart, Tools, Lines, NoRoot
  <2>4. NestInv
    BY DEF RecInit, NestInv, Lines, NoRoot, RootOpen, OpenAt, Began
  <2> QED BY <2>1, <2>2, <2>3, <2>4 DEF RInv
<1>2. RInv /\ [RecNext]_recVars => RInv'
  <2> SUFFICES ASSUME RInv, [RecNext]_recVars PROVE RInv'
    OBVIOUS
  <2>1. CASE UNCHANGED recVars
    <3>1. /\ UNCHANGED <<file, events, root, ids, ran, rootClosed>>
          /\ closed' = closed /\ env' = env /\ calls' = calls /\ failed' = failed
          /\ last' = last
      BY <2>1 DEF recVars
    <3>2. /\ closed' \in BOOLEAN /\ env' \in [holds : BOOLEAN, uncertain : BOOLEAN]
          /\ last' \in last .. MaxStamp
      BY <3>1, RecorderLimits DEF RInv, Counted, Stamped
    <3> QED BY <3>1, <3>2, UnwrittenStays
  <2>2. CASE EnvAccepts
    BY <2>2, EnvAcceptsStays
  <2>3. CASE \E c \in calls : LLMInterrupted(c)
    BY <2>3, LLMInterruptedStays
  <2>4. ASSUME NEW n \in Nat, NEW why, Reset(n, why) \/ Step(n, why)
        PROVE  RInv'
    BY <2>4, ResetStays, StepStays
  <2>5. ASSUME NEW n \in Nat, NEW why,
               \/ Reconcile(n, why) \/ Mark(n, why) \/ LLMStart(n, why) \/ Close(n, why)
               \/ \E c \in calls, tells \in {"nothing", "type"} : LLMEnd(c, tells, n, why)
        PROVE  RInv'
    <3>1. CASE Mark(n, why) \/ Reconcile(n, why)
      BY <3>1, MarkStays
    <3>2. CASE LLMStart(n, why)
      BY <3>2, LLMStartStays
    <3>3. CASE Close(n, why)
      BY <3>3, CloseStays
    <3>4. CASE \E c \in calls, tells \in {"nothing", "type"} : LLMEnd(c, tells, n, why)
      BY <3>4, LLMEndStays
    <3> QED BY <2>5, <3>1, <3>2, <3>3, <3>4
  <2>6. 0 .. 4 \subseteq Nat /\ 0 .. 1 \subseteq Nat
    OBVIOUS
  <2> QED BY <2>1, <2>2, <2>3, <2>4, <2>5, <2>6 DEF RecNext
<1> QED BY <1>1, <1>2, PTL DEF RecSpec

\* The identifiers of a part of the file, in the words of the invariant.
LEMMA IdsAreRecorded ==
    ASSUME Stamped
    PROVE  /\ \A x : /\ x \in Ids(file, "start") <=> Began(x, Len(file))
                     /\ x \in Ids(file, "end") <=> Ceased(x, Len(file))
           /\ \A k \in Lines : \A x :
                 LET above == SubSeq(file, 1, k - 1) IN
                 /\ x \in Ids(above, "start") <=> Began(x, k - 1)
                 /\ x \in Ids(above, "end") <=> Ceased(x, k - 1)
<1>1. DOMAIN file = 1 .. Len(file) /\ Len(file) \in Nat
  BY DEF Stamped
<1>2. ASSUME NEW k \in Lines, NEW above, above = SubSeq(file, 1, k - 1)
      PROVE  DOMAIN above = 1 .. k - 1 /\ \A j \in 1 .. k - 1 : above[j] = file[j]
  BY <1>2 DEF Stamped, Lines
<1>3. ASSUME NEW x PROVE /\ x \in Ids(file, "start") <=> Began(x, Len(file))
                         /\ x \in Ids(file, "end") <=> Ceased(x, Len(file))
  BY <1>1, Zenon DEF Ids, Began, Ceased, Ev
<1>4. ASSUME NEW k \in Lines, NEW x, NEW above, above = SubSeq(file, 1, k - 1)
      PROVE  /\ x \in Ids(above, "start") <=> Began(x, k - 1)
             /\ x \in Ids(above, "end") <=> Ceased(x, k - 1)
  <2>1. DOMAIN above = 1 .. k - 1 /\ \A j \in 1 .. k - 1 : above[j] = file[j]
    BY <1>2, <1>4
  <2>2. \A kind : x \in Ids(above, kind) <=>
                    \E j \in 1 .. k - 1 : above[j].event.kind = kind /\ above[j].event.id = x
    BY <2>1, Zenon DEF Ids
  <2> QED BY <2>1, <2>2 DEF Began, Ceased, Ev
<1> QED BY <1>3, <1>4, Zenon

\* Every variable keeps its type, and the times in the file strictly increase.
THEOREM RecorderTypes == RecSpec => []RecTypeOK
<1>1. RInv => RecTypeOK
  <2> SUFFICES ASSUME RInv PROVE RecTypeOK
    OBVIOUS
  <2>1. DOMAIN file = Lines /\ Len(file) \in Nat
    BY DEF RInv, Stamped, Lines
  <2>2. /\ \A j, k \in DOMAIN file : j < k => file[j].time < file[k].time
        /\ last \in 0 .. MaxStamp /\ \A j \in DOMAIN file : file[j].time \in 1 .. last
    BY <2>1 DEF RInv, Stamped, Lines
  <2>3. {root, ids} \subseteq 0 .. MaxScopes
    BY RecorderLimits DEF RInv, Counted
  <2>4. {rootClosed, closed, env.holds, env.uncertain} \subseteq BOOLEAN
    BY DEF RInv, Counted
  <2> QED BY <2>2, <2>3, <2>4 DEF RInv, Counted, RecTypeOK
<1> QED BY <1>1, RecInvariant, PTL

\* The stream is a tree of scopes, and while no operation has been cut short the
\* open scopes are those at work.
THEOREM StreamNests == RecSpec => []ScopesNest
<1>1. RInv => ScopesNest
  <2> SUFFICES ASSUME RInv PROVE ScopesNest
    OBVIOUS
  <2>1. DOMAIN file = Lines /\ Len(file) \in Nat
    BY DEF RInv, Stamped, Lines
  <2>2. ASSUME "kept" \notin failed, NEW k \in Lines,
               NEW above, above = SubSeq(file, 1, k - 1), NEW e, e = file[k].event
        PROVE  /\ e.kind = "start" => e.id \notin Ids(above, "start")
               /\ e.kind = "end" => \/ e.id \in Open(above)
                                    \/ e.id = root /\ root \notin Ids(file, "start")
               /\ \/ e.parent \in Open(above) \cup {0}
                  \/ e.parent = root /\ root \notin Ids(file, "start")
    <3>1. \A x : /\ x \in Ids(above, "start") <=> Began(x, k - 1)
                 /\ x \in Open(above) <=> OpenAt(x, k - 1)
                 /\ x \in Ids(file, "start") <=> Began(x, Len(file))
      BY <2>2, IdsAreRecorded DEF RInv, Open, OpenAt
    <3>2. Nested(k) /\ StartOK(k)
      BY <2>2 DEF RInv, NestInv, StoryInv
    <3>3. e.kind = "start" => ~Began(e.id, k - 1)
      BY <2>2, <3>2 DEF StartOK, Began, Ev
    <3> QED BY <2>2, <3>1, <3>2, <3>3 DEF Nested, Rootless, Ev
  <2>3. ASSUME failed = {}
        PROVE  Open(file) = calls \cup (IF root = NoRoot \/ rootClosed THEN {} ELSE {root})
    <3>1. \A x : x \in Open(file) <=> OpenAt(x, Len(file))
      BY IdsAreRecorded DEF RInv, Open, OpenAt
    <3>2. \A x \in calls : OpenAt(x, Len(file))
      BY <2>3 DEF RInv, NestInv
    <3>3. RootOpen => OpenAt(root, Len(file))
      BY <2>3 DEF RInv, NestInv, OpenAt
    <3>4. \A x : OpenAt(x, Len(file)) => x \in 1 .. ids
      BY <2>1 DEF RInv, StoryInv, StartOK, OpenAt, Began, Lines
    <3>5. \A x : OpenAt(x, Len(file)) => x \in calls \/ (RootOpen /\ x = root)
      BY <2>3, <3>4 DEF RInv, NestInv
    <3> QED BY <3>1, <3>2, <3>3, <3>5 DEF RootOpen
  <2> QED BY <2>1, <2>2, <2>3, Zenon DEF ScopesNest
<1> QED BY <1>1, RecInvariant, PTL

\* Whatever writes fail: every step the environment took was announced, and the
\* end of a step tells what the environment did.
THEOREM RecordTellsTheTruth == RecSpec => []RecordIsTruthful
<1>1. RInv => RecordIsTruthful
  <2> SUFFICES ASSUME RInv PROVE RecordIsTruthful
    OBVIOUS
  <2>1. DOMAIN file = Lines
    BY DEF RInv, Stamped, Lines
  <2>2. \A r \in ran : r.tool \in Ids(file, "start")
    BY IdsAreRecorded DEF RInv, StoryInv, ToolsApart, Began, Lines
  <2>3. ASSUME NEW j \in Lines, Ev(j).kind = "end", Ev(j).category = "tool"
        PROVE  \E r \in ran : r.tool = Ev(j).id /\ (Ev(j).tells = "result" <=> r.outcome = "ok")
    BY <2>3 DEF RInv, StoryInv, EndOK
  <2> QED BY <2>1, <2>2, <2>3 DEF RecordIsTruthful, Ev
<1> QED BY <1>1, RecInvariant, PTL

-----------------------------------------------------------------------------
(* The projection                                                          *)

\* read_atof hands back the file: stamps one apart keep their order even when a
\* time comes out one short.
LEMMA ReadIsTheFile ==
    ASSUME Stamped
    PROVE  Len(file) \in Nat /\ \A k \in Lines : Read(file)[k] = Ev(k)
<1> DEFINE earlier(i, j) == \/ Micros(file[i].time) < Micros(file[j].time)
                            \/ Micros(file[i].time) = Micros(file[j].time) /\ i < j
           rank(i) == Cardinality({j \in DOMAIN file : earlier(j, i)})
<1>1. DOMAIN file = Lines /\ Len(file) \in Nat
  BY DEF Stamped, Lines
<1>2. \A i, j \in Lines : earlier(i, j) <=> i < j
  <2> SUFFICES ASSUME NEW i \in Lines, NEW j \in Lines PROVE earlier(i, j) <=> i < j
    OBVIOUS
  <2>1. i \in Int /\ j \in Int /\ file[i].time \in Int /\ file[j].time \in Int
    BY RecorderLimits DEF Stamped, Lines
  <2>2. \A a, b \in Int : a < b => Micros(a) <= Micros(b)
    BY DEF Micros
  <2>3. \A a \in Int : Micros(a) \in Int
    BY DEF Micros
  <2>4. (i < j => file[i].time < file[j].time) /\ (j < i => file[j].time < file[i].time)
    BY DEF Stamped
  <2>5. (i < j => Micros(file[i].time) <= Micros(file[j].time))
        /\ (j < i => Micros(file[j].time) <= Micros(file[i].time))
    BY <2>1, <2>2, <2>4
  <2> PICK a, b : a = Micros(file[i].time) /\ b = Micros(file[j].time)
    OBVIOUS
  <2>6. a \in Int /\ b \in Int /\ (i < j => a <= b) /\ (j < i => b <= a)
    BY <2>1, <2>3, <2>5
  <2>7. a < b \/ (a = b /\ i < j) <=> i < j
    BY <2>1, <2>6
  <2> QED BY <2>7
<1>3. \A i \in Lines : rank(i) = i - 1
  <2> TAKE i \in Lines
  <2>1. {j \in DOMAIN file : earlier(j, i)} = 1 .. i - 1
    <3> HIDE DEF earlier
    <3> QED BY <1>1, <1>2 DEF Lines
  <2>2. Cardinality(1 .. i - 1) = i - 1
    BY <1>1, FS_Interval DEF Lines
  <2> QED BY <2>1, <2>2
<1>4. ASSUME NEW k \in Lines
      PROVE  file[CHOOSE i \in DOMAIN file : rank(i) = k - 1].event = Ev(k)
  <2> HIDE DEF rank
  <2>1. \A i \in Lines : rank(i) = k - 1 <=> i = k
    BY <1>1, <1>3 DEF Lines
  <2>2. (CHOOSE i \in DOMAIN file : rank(i) = k - 1) = k
    BY <1>1, <2>1
  <2> QED BY <2>2 DEF Ev
<1> QED BY <1>1, <1>4, Zenon DEF Read

\* The recursion of the projection has a solution, hence does what it says.
LEMMA ProjectedStepwise ==
    ASSUME NEW es
    PROVE  /\ Projected(es)[0] = <<>>
           /\ \A n \in Nat : Projected(es)[n + 1] = Project(Projected(es)[n], es[n + 1])
<1> DEFINE Upto(h, n) == /\ h[0] = <<>>
                         /\ \A k \in 0 .. n - 1 : h[k + 1] = Project(h[k], es[k + 1])
<1>1. \A n \in Nat : \E h : Upto(h, n)
  <2> DEFINE S == {n \in Nat : \E h : Upto(h, n)}
  <2>1. 0 \in S
    <3> DEFINE h == [k \in 0 .. 0 |-> <<>>]
    <3>1. Upto(h, 0)
      OBVIOUS
    <3> QED BY <3>1
  <2>2. ASSUME NEW n \in Nat, n \in S PROVE n + 1 \in S
    <3>1. PICK h : Upto(h, n)
      BY <2>2
    <3>5. PICK g : g = [k \in 0 .. n + 1 |-> IF k = n + 1 THEN Project(h[n], es[n + 1]) ELSE h[k]]
      OBVIOUS
    <3>2. g[0] = <<>>
      BY <3>1, <3>5
    <3>3. ASSUME NEW k \in 0 .. n + 1 - 1 PROVE g[k + 1] = Project(g[k], es[k + 1])
      <4>1. CASE k = n
        BY <3>5, <4>1
      <4>2. CASE k # n
        <5>1. k \in 0 .. n - 1 /\ k + 1 \in 0 .. n + 1 /\ k + 1 # n + 1 /\ k # n + 1
          BY <4>2
        <5>2. g[k + 1] = h[k + 1] /\ g[k] = h[k]
          BY <3>5, <5>1
        <5> QED BY <3>1, <5>1, <5>2
      <4> QED BY <4>1, <4>2
    <3>4. Upto(g, n + 1)
      BY <3>2, <3>3
    <3> QED BY <3>4
  <2> HIDE DEF S
  <2>3. \A n \in Nat : n \in S
    BY <2>1, <2>2, SetInduction
  <2> QED BY <2>3 DEF S
<1>2. ASSUME NEW n \in Nat, NEW m \in Nat, NEW h, NEW g, Upto(h, n), Upto(g, m)
      PROVE  \A k \in Nat : k <= n /\ k <= m => h[k] = g[k]
  <2> DEFINE S == {k \in Nat : k <= n /\ k <= m => h[k] = g[k]}
  <2>1. 0 \in S
    BY <1>2
  <2>2. ASSUME NEW k \in Nat, k \in S PROVE k + 1 \in S
    <3>1. SUFFICES ASSUME k + 1 <= n, k + 1 <= m PROVE h[k + 1] = g[k + 1]
      OBVIOUS
    <3>2. h[k] = g[k] /\ k \in 0 .. n - 1 /\ k \in 0 .. m - 1
      BY <2>2, <3>1
    <3> QED BY <1>2, <3>2
  <2> HIDE DEF S
  <2>3. \A k \in Nat : k \in S
    BY <2>1, <2>2, SetInduction
  <2> QED BY <2>3 DEF S
<1> DEFINE part(n) == CHOOSE h : Upto(h, n)
           g == [n \in Nat |-> part(n)[n]]
<1>3. \A n \in Nat : Upto(part(n), n)
  BY <1>1, Zenon
<1>4. g = [n \in Nat |-> IF n = 0 THEN <<>> ELSE Project(g[n - 1], es[n])]
  <2> HIDE DEF part
  <2>1. ASSUME NEW n \in Nat
        PROVE  g[n] = IF n = 0 THEN <<>> ELSE Project(g[n - 1], es[n])
    <3>1. CASE n = 0
      BY <1>3, <3>1
    <3>2. CASE n # 0
      <4>1. n - 1 \in Nat /\ n - 1 \in 0 .. n - 1
        BY <3>2
      <4>2. part(n)[n] = Project(part(n)[n - 1], es[n])
        BY <1>3, <4>1
      <4>3. part(n)[n - 1] = part(n - 1)[n - 1]
        <5> HIDE DEF Upto
        <5> QED BY <1>2, <1>3, <4>1
      <4> QED BY <3>2, <4>1, <4>2, <4>3
    <3> QED BY <3>1, <3>2
  <2> HIDE DEF g
  <2>2. g = [n \in Nat |-> g[n]]
    BY DEF g
  <2> QED BY <2>1, <2>2, Zenon
<1> HIDE DEF g
<1>5. Projected(es) = [n \in Nat |-> IF n = 0 THEN <<>> ELSE Project(Projected(es)[n - 1], es[n])]
  BY <1>4, Zenon DEF Projected
<1> HIDE DEF Upto
<1>6. \A n \in Nat : n + 1 \in Nat /\ n + 1 # 0 /\ (n + 1) - 1 = n
  OBVIOUS
<1> DEFINE q == Projected(es)
<1> HIDE DEF q
<1>7. q = [n \in Nat |-> IF n = 0 THEN <<>> ELSE Project(q[n - 1], es[n])]
  BY <1>5 DEF q
<1>8. \A n \in Nat : q[n] = IF n = 0 THEN <<>> ELSE Project(q[n - 1], es[n])
  BY <1>7, Zenon
<1>9. q[0] = <<>> /\ \A n \in Nat : q[n + 1] = Project(q[n], es[n + 1])
  BY <1>6, <1>8
<1> QED BY <1>9 DEF q

\* The spans after n lines of the file.
Spans(n) == Projected(Read(file))[n]

Span == [operation : {"invoke_agent", "execute_tool", "chat", "invoke_workflow"}, parent : Nat,
         error : BOOLEAN, shows : {"outcome", "error type", "nothing"}, ended : BOOLEAN]

\* A span stems from the start of its scope at line j; only the span of a tool
\* call is sure to keep its parent, whose start is the line above.
StartedBy(s, j, x) ==
    LET e == Ev(j) IN
    /\ e.kind = "start" /\ e.id = x /\ s.operation = Operation(e.category)
    /\ s.parent \in {0, e.parent} /\ (e.category = "tool" => s.parent = e.parent)
    /\ s.parent # 0 => Began(s.parent, j - 1)

\* An ended span shows what one of its end events tells.
EndedBy(s, j, x) ==
    LET e == Ev(j) IN
    e.kind = "end" /\ e.id = x /\ s.error = (e.tells = "error") /\ s.shows = Shows(e.tells)

SpanOK(s, n, x) ==
    /\ s \in Span
    /\ \E j \in 1 .. n : StartedBy(s, j, x)
    /\ IF s.ended THEN \E j \in 1 .. n : EndedBy(s, j, x)
       ELSE /\ s.error = FALSE /\ s.shows = "nothing"
            /\ \A j \in 1 .. n : Ev(j).category = "tool" => ~(Ev(j).kind = "end" /\ Ev(j).id = x)

SpansOK(spans, n) ==
    /\ DOMAIN spans = {x \in 1 .. ids : Began(x, n)}
    /\ \A x \in DOMAIN spans : SpanOK(spans[x], n, x)
    /\ n > 0 /\ Ev(n).kind = "start" => IsOpen(spans, Ev(n).id)

\* One line of the file takes the spans to the spans.
LEMMA ProjectKeepsSpans ==
    ASSUME RInv, NEW n \in Nat, n + 1 <= Len(file), NEW spans, SpansOK(spans, n)
    PROVE  SpansOK(Project(spans, Ev(n + 1)), n + 1)
<1> PICK e : e = Ev(n + 1)
  OBVIOUS
<1> DEFINE new == Project(spans, e)
<1>1. /\ Len(file) \in Nat /\ n + 1 \in Lines /\ e \in Events /\ ids \in Nat
      /\ StartOK(n + 1)
  <2>1. Len(file) \in Nat /\ n + 1 \in Lines /\ ids \in Nat
    BY RecorderLimits DEF RInv, Stamped, Counted, Lines
  <2>2. e \in Events
    <3>1. file[n + 1] \in [time : Nat, event : Events]
      <4>1. file \in Seq([time : Nat, event : Events]) /\ n + 1 \in 1 .. Len(file)
        BY <2>1 DEF RInv, Stamped, Lines
      <4> QED BY <4>1, ElementOfSeq
    <3> QED BY <3>1 DEF Ev
  <2>3. StartOK(n + 1)
    BY <2>1 DEF RInv, StoryInv
  <2> QED BY <2>1, <2>2, <2>3
<1>2. \A s, x : SpanOK(s, n, x) /\ (s.ended \/ e.kind # "end" \/ e.id # x) => SpanOK(s, n + 1, x)
  BY DEF SpanOK
<1>3. 1 .. n + 1 = (1 .. n) \cup {n + 1} /\ n + 1 > 0 /\ (n + 1) - 1 = n
  OBVIOUS
<1>4. \A x : Began(x, n + 1) <=> Began(x, n) \/ (e.kind = "start" /\ e.id = x)
  BY <1>3 DEF Began
<1>5. CASE e.kind = "start"
  <2> DEFINE s == [operation |-> Operation(e.category),
                   parent |-> IF IsOpen(spans, e.parent) THEN e.parent ELSE 0,
                   error |-> FALSE, shows |-> "nothing", ended |-> FALSE]
  <2>1. new = [x \in DOMAIN spans \cup {e.id} |-> IF x # e.id THEN spans[x] ELSE s]
    BY <1>5, Zenon DEF Project
  <2>2. e.id \in 1 .. ids /\ e.category \in Categories /\ e.parent \in Nat
    BY <1>1, <1>5 DEF StartOK, Events
  <2>3. DOMAIN new = {x \in 1 .. ids : Began(x, n + 1)}
    BY <1>4, <1>5, <2>1, <2>2 DEF SpansOK
  <2>4. s \in Span
    <3>1. Operation(e.category) \in {"invoke_agent", "execute_tool", "chat", "invoke_workflow"}
      BY DEF Operation
    <3>2. (IF IsOpen(spans, e.parent) THEN e.parent ELSE 0) \in Nat
      BY <2>2
    <3> QED BY <3>1, <3>2 DEF Span
  <2>5. StartedBy(s, n + 1, e.id)
    <3>1. e.category = "tool" => IsOpen(spans, e.parent)
      <4> SUFFICES ASSUME e.category = "tool" PROVE IsOpen(spans, e.parent)
        OBVIOUS
      <4>1. n > 0 /\ Ev(n) = Start(e.parent, root, "function")
        BY <1>1, <1>3, <1>5 DEF StartOK
      <4>2. Ev(n).kind = "start" /\ Ev(n).id = e.parent
        BY <4>1 DEF Start, Event
      <4> QED BY <4>1, <4>2 DEF SpansOK
    <3>2. IsOpen(spans, e.parent) => Began(e.parent, n)
      BY DEF IsOpen, SpansOK
    <3> HIDE DEF s
    <3>3. s.operation = Operation(e.category) /\ s.parent = IF IsOpen(spans, e.parent) THEN e.parent ELSE 0
      BY DEF s
    <3> QED BY <1>3, <1>5, <3>1, <3>2, <3>3 DEF StartedBy
  <2>6. SpanOK(s, n + 1, e.id)
    <3>1. ~s.ended /\ s.error = FALSE /\ s.shows = "nothing" /\ n + 1 \in 1 .. n + 1
      OBVIOUS
    <3>2. ASSUME NEW j \in 1 .. n + 1, Ev(j).category = "tool", Ev(j).kind = "end", Ev(j).id = e.id
          PROVE  FALSE
      <4>1. j \in 1 .. n /\ j \in Lines
        BY <1>1, <1>5, <3>2 DEF Lines
      <4>2. Began(e.id, j - 1)
        BY <3>2, <4>1 DEF RInv, StoryInv, EndOK
      <4>3. PICK i \in 1 .. j - 1 : Ev(i).kind = "start" /\ Ev(i).id = e.id
        BY <4>2 DEF Began
      <4>4. i \in 1 .. (n + 1) - 1
        BY <4>1
      <4> QED BY <1>1, <1>5, <4>3, <4>4 DEF StartOK
    <3> HIDE DEF s
    <3> QED BY <2>4, <2>5, <3>1, <3>2 DEF SpanOK
  <2>7. \A x \in DOMAIN new : SpanOK(new[x], n + 1, x)
    <3> HIDE DEF s
    <3> QED BY <1>2, <1>5, <2>1, <2>6 DEF SpansOK
  <2>8. IsOpen(new, e.id)
    BY <2>1 DEF IsOpen
  <2> HIDE DEF new
  <2> QED BY <1>5, <2>3, <2>7, <2>8 DEF SpansOK, new
<1>6. CASE e.kind = "end" /\ IsOpen(spans, e.id)
  <2> PICK old : old = spans[e.id]
    OBVIOUS
  <2> DEFINE s == [old EXCEPT !.shows = Shows(e.tells), !.ended = TRUE, !.error = e.tells = "error"]
  <2>1. new = [spans EXCEPT ![e.id] = s]
    BY <1>6, Zenon DEF Project
  <2>2. e.id \in DOMAIN spans /\ e.id \in 1 .. ids /\ SpanOK(old, n, e.id)
    BY <1>6 DEF IsOpen, SpansOK
  <2>3. /\ s \in Span /\ s.operation = old.operation /\ s.parent = old.parent
        /\ s.ended = TRUE /\ s.error = (e.tells = "error") /\ s.shows = Shows(e.tells)
    <3>1. old \in Span /\ Shows(e.tells) \in {"outcome", "error type", "nothing"}
      BY <2>2 DEF SpanOK, Shows
    <3> QED BY <3>1 DEF Span
  <2>4. \E j \in 1 .. n + 1 : StartedBy(s, j, e.id)
    <3> HIDE DEF s
    <3>1. PICK j \in 1 .. n : StartedBy(old, j, e.id)
      BY <2>2 DEF SpanOK
    <3>2. StartedBy(s, j, e.id)
      BY <2>3, <3>1 DEF StartedBy
    <3> QED BY <3>2
  <2>5. EndedBy(s, n + 1, e.id) /\ n + 1 \in 1 .. n + 1
    <3> HIDE DEF s
    <3> QED BY <1>6, <2>3 DEF EndedBy
  <2>6. SpanOK(s, n + 1, e.id)
    <3> HIDE DEF s
    <3> QED BY <2>3, <2>4, <2>5 DEF SpanOK
  <2>7. DOMAIN new = DOMAIN spans /\ \A x \in DOMAIN new : new[x] = IF x = e.id THEN s ELSE spans[x]
    <3> HIDE DEF s
    <3> QED BY <2>1, Zenon
  <2> HIDE DEF new, s
  <2>8. \A x \in DOMAIN new : SpanOK(new[x], n + 1, x)
    BY <1>2, <2>6, <2>7 DEF SpansOK
  <2>9. DOMAIN new = {x \in 1 .. ids : Began(x, n + 1)}
    BY <1>4, <1>6, <2>7 DEF SpansOK
  <2> QED BY <1>6, <2>8, <2>9 DEF SpansOK, new
<1>7. CASE e.kind # "start" /\ ~(e.kind = "end" /\ IsOpen(spans, e.id))
  <2>1. new = spans
    BY <1>7, Zenon DEF Project
  <2> HIDE DEF new
  <2>2. \A x \in DOMAIN new : SpanOK(new[x], n + 1, x)
    BY <1>2, <1>7, <2>1 DEF SpansOK, IsOpen
  <2>3. DOMAIN new = {x \in 1 .. ids : Began(x, n + 1)}
    BY <1>4, <1>7, <2>1 DEF SpansOK
  <2> QED BY <1>7, <2>2, <2>3 DEF SpansOK, new
<1> QED BY <1>5, <1>6, <1>7

\* So do all of them.
LEMMA FileProjects ==
    ASSUME RInv
    PROVE  SpansOK(Spans(Len(file)), Len(file))
<1>1. Len(file) \in Nat /\ \A k \in Lines : Read(file)[k] = Ev(k)
  BY ReadIsTheFile DEF RInv
<1> DEFINE S == {n \in Nat : n <= Len(file) => SpansOK(Spans(n), n)}
<1>2. 0 \in S
  <2>1. Spans(0) = <<>> /\ DOMAIN <<>> = {}
    BY ProjectedStepwise DEF Spans
  <2>2. \A x : ~Began(x, 0)
    BY DEF Began
  <2>3. SpansOK(Spans(0), 0)
    <3> PICK spans : spans = Spans(0)
      OBVIOUS
    <3>1. DOMAIN spans = {}
      BY <2>1
    <3>2. {x \in 1 .. ids : Began(x, 0)} = {}
      BY <2>2
    <3>3. SpansOK(spans, 0)
      BY <3>1, <3>2, ~(0 > 0) DEF SpansOK
    <3> QED BY <3>3
  <2> QED BY <2>3
<1>3. ASSUME NEW n \in Nat, n \in S PROVE n + 1 \in S
  <2> SUFFICES ASSUME n + 1 <= Len(file) PROVE SpansOK(Spans(n + 1), n + 1)
    OBVIOUS
  <2>1. n + 1 \in Lines /\ SpansOK(Spans(n), n)
    BY <1>1, <1>3 DEF Lines
  <2>2. Spans(n + 1) = Project(Spans(n), Ev(n + 1))
    BY <1>1, <2>1, ProjectedStepwise DEF Spans
  <2> QED BY <2>1, <2>2, ProjectKeepsSpans
<1> HIDE DEF S
<1>4. \A n \in Nat : n \in S
  BY <1>2, <1>3, SetInduction
<1> QED BY <1>1, <1>4 DEF S

\* Of every step taken there is a span: it shows an outcome if the step succeeded
\* and its end was written, and is in error otherwise; and tool calls are kept
\* under decisions and these under the session.
THEOREM ProjectionTellsTheTruth == RecSpec => []ProjectionIsTruthful
<1>1. RInv => ProjectionIsTruthful
  <2> SUFFICES ASSUME RInv PROVE ProjectionIsTruthful
    OBVIOUS
  <2> PICK L : L = Len(file)
    OBVIOUS
  <2> PICK spans : spans = Spans(L)
    OBVIOUS
  <2>10. PICK out : out = [s \in DOMAIN spans |-> [spans[s] EXCEPT !.error = @ \/ ~spans[s].ended]]
    OBVIOUS
  <2>1. Export(file) = out
    BY <2>10, Zenon DEF Export, Spans
  <2>2. SpansOK(spans, L) /\ L \in Nat /\ Lines = 1 .. L
    BY FileProjects DEF RInv, Stamped, Lines
  <2>3. ASSUME NEW s \in DOMAIN spans
        PROVE  /\ out[s].operation = spans[s].operation /\ out[s].parent = spans[s].parent
               /\ out[s].shows = spans[s].shows
               /\ out[s].error <=> spans[s].error \/ ~spans[s].ended
    <3>1. spans[s] \in Span
      BY <2>2 DEF SpansOK, SpanOK
    <3>2. out[s] = [spans[s] EXCEPT !.error = @ \/ ~spans[s].ended]
      BY <2>10, Zenon
    <3> QED BY <3>1, <3>2 DEF Span
  <2>4. DOMAIN out = DOMAIN spans
    BY <2>10
  <2>5. ASSUME NEW r \in ran
        PROVE  /\ r.tool \in DOMAIN out
               /\ out[r.tool].shows = "outcome" <=> r.outcome = "ok" /\ r.tool \in Ids(file, "end")
               /\ out[r.tool].error <=> out[r.tool].shows # "outcome"
    <3> PICK x : x = r.tool
      OBVIOUS
    <3>1. Began(x, L) /\ x \in 1 .. ids /\ x \in Tools
      BY <2>2 DEF RInv, StoryInv, ToolsApart, Began, Counted, Tools
    <3>2. x \in DOMAIN spans /\ SpanOK(spans[x], L, x)
      BY <2>2, <3>1 DEF SpansOK
    <3>3. x \in Ids(file, "end") <=> \E j \in 1 .. L : Ev(j).kind = "end" /\ Ev(j).id = x
      BY IdsAreRecorded DEF RInv, Ceased
    <3>4. ASSUME NEW j \in 1 .. L, Ev(j).kind = "end", Ev(j).id = x
          PROVE  /\ Ev(j).category = "tool" /\ Ev(j).tells \in {"result", "error"}
                 /\ Ev(j).tells = "result" <=> r.outcome = "ok"
      <4>1. EndOK(j)
        BY <2>2 DEF RInv, StoryInv
      <4> QED BY <3>1, <3>4, <4>1 DEF EndOK, RInv, StoryInv, ToolsApart
    <3>5. CASE spans[x].ended
      <4>1. PICK j \in 1 .. L : EndedBy(spans[x], j, x)
        BY <3>2, <3>5 DEF SpanOK
      <4>2. /\ Ev(j).kind = "end" /\ Ev(j).id = x /\ spans[x].shows = Shows(Ev(j).tells)
            /\ spans[x].error = (Ev(j).tells = "error")
        BY <4>1 DEF EndedBy
      <4>3. Ev(j).tells \in {"result", "error"} /\ (Ev(j).tells = "result" <=> r.outcome = "ok")
        BY <3>4, <4>2
      <4>4. /\ spans[x].shows = IF Ev(j).tells = "result" THEN "outcome" ELSE "error type"
            /\ spans[x].error <=> Ev(j).tells # "result"
        BY <4>2, <4>3 DEF Shows
      <4>5. x \in Ids(file, "end")
        BY <3>3, <4>2
      <4>6. spans[x].shows = "outcome" <=> r.outcome = "ok"
        BY <4>3, <4>4
      <4>7. spans[x].error <=> spans[x].shows # "outcome"
        BY <4>4
      <4> QED BY <2>3, <2>4, <3>2, <3>5, <4>5, <4>6, <4>7
    <3>6. CASE ~spans[x].ended
      <4>1. spans[x].shows = "nothing" /\ spans[x].error = FALSE
        BY <3>2, <3>6 DEF SpanOK
      <4>2. x \notin Ids(file, "end")
        <5>1. \A j \in 1 .. L : Ev(j).category = "tool" => ~(Ev(j).kind = "end" /\ Ev(j).id = x)
          BY <3>2, <3>6 DEF SpanOK
        <5> QED BY <3>3, <3>4, <5>1
      <4>3. out[x].error /\ out[x].shows = "nothing"
        BY <2>3, <3>2, <3>6, <4>1
      <4> QED BY <2>4, <3>2, <4>2, <4>3
    <3> QED BY <3>5, <3>6
  <2>6. \A s \in DOMAIN spans : \E j \in Lines : StartedBy(spans[s], j, s) /\ StartOK(j) /\ s \in 1 .. ids
    BY <2>2 DEF SpansOK, SpanOK, RInv, StoryInv
  <2>7. ASSUME NEW s \in DOMAIN spans, spans[s].parent # 0
        PROVE  spans[s].parent \in DOMAIN spans
    <3>1. PICK j \in Lines : StartedBy(spans[s], j, s)
      BY <2>6
    <3>2. Began(spans[s].parent, j - 1)
      BY <2>7, <3>1 DEF StartedBy
    <3>3. PICK i \in 1 .. j - 1 : Ev(i).kind = "start" /\ Ev(i).id = spans[s].parent
      BY <3>2 DEF Began
    <3>4. i \in Lines
      BY <2>2
    <3>5. spans[s].parent \in 1 .. ids /\ Began(spans[s].parent, L)
      BY <2>2, <3>3, <3>4 DEF RInv, StoryInv, StartOK, Began
    <3> QED BY <2>2, <3>5 DEF SpansOK
  <2>8. ASSUME NEW s \in DOMAIN out, NEW p, p = out[s].parent
        PROVE  CASE out[s].operation = "execute_tool" -> out[p].operation = "invoke_workflow"
                 [] out[s].operation = "invoke_agent" -> p = 0
                 [] OTHER -> p # 0 => out[p].operation = "invoke_agent"
    <3>1. PICK j \in Lines : StartedBy(spans[s], j, s) /\ StartOK(j)
      BY <2>4, <2>6
    <3>2. p = spans[s].parent /\ out[s].operation = spans[s].operation
      BY <2>3, <2>4, <2>8
    <3>3. CASE Ev(j).category = "tool"
      <4>1. j > 1 /\ Ev(j - 1) = Start(p, root, "function")
        BY <3>1, <3>2, <3>3 DEF StartedBy, StartOK
      <4>2. Ev(j - 1).kind = "start" /\ Ev(j - 1).id = p /\ Ev(j - 1).category = "function"
        BY <4>1 DEF Start, Event
      <4>3. p \in DOMAIN spans
        <5>1. j - 1 \in 1 .. L
          BY <2>2, <4>1
        <5>2. p \in 1 .. ids /\ Began(p, L)
          BY <2>2, <4>2, <5>1 DEF RInv, StoryInv, StartOK, Began
        <5> QED BY <2>2, <5>2 DEF SpansOK
      <4>4. PICK i \in Lines : StartedBy(spans[p], i, p) /\ StartOK(i)
        BY <2>6, <4>3
      <4>5. i = j - 1
        <5>1. j - 1 \in Lines /\ StartOK(j - 1)
          BY <2>2, <4>1 DEF RInv, StoryInv
        <5>2. Ev(i).kind = "start" /\ Ev(i).id = p
          BY <4>4 DEF StartedBy
        <5> QED BY <2>2, <4>2, <4>4, <5>1, <5>2 DEF StartOK
      <4>6. out[p].operation = "invoke_workflow" /\ out[s].operation = "execute_tool"
        BY <2>3, <3>1, <3>2, <3>3, <4>2, <4>3, <4>4, <4>5 DEF StartedBy, Operation
      <4> QED BY <4>6
    <3>4. CASE Ev(j).category = "agent"
      <4>1. out[s].operation = "invoke_agent" /\ p = 0
        BY <3>1, <3>2, <3>4 DEF StartedBy, StartOK, Operation
      <4> QED BY <4>1
    <3>5. CASE Ev(j).category \in {"function", "llm"}
      <4>1. out[s].operation \in {"chat", "invoke_workflow"} /\ (p # 0 => p = root)
        BY <3>1, <3>2, <3>5 DEF StartedBy, StartOK, Operation
      <4>2. ASSUME p # 0 PROVE out[p].operation = "invoke_agent"
        <5>1. p \in DOMAIN spans /\ p = root
          BY <2>4, <2>7, <3>2, <4>1, <4>2
        <5>2. PICK i \in Lines : StartedBy(spans[p], i, p) /\ StartOK(i)
          BY <2>6, <5>1
        <5>3. Ev(i).category = "agent"
          BY <5>1, <5>2 DEF StartedBy, StartOK
        <5> QED BY <2>3, <5>1, <5>2, <5>3 DEF StartedBy, Operation
      <4> QED BY <4>1, <4>2
    <3>6. Ev(j).category \in Categories
      BY <3>1 DEF StartedBy, StartOK
    <3> QED BY <3>3, <3>4, <3>5, <3>6 DEF Categories
  <2>9. \A s \in DOMAIN out :
          LET p == out[s].parent IN
          CASE out[s].operation = "execute_tool" -> out[p].operation = "invoke_workflow"
            [] out[s].operation = "invoke_agent" -> p = 0
            [] OTHER -> p # 0 => out[p].operation = "invoke_agent"
    BY <2>8
  <2> QED BY <2>1, <2>5, <2>9 DEF ProjectionIsTruthful
<1> QED BY <1>1, RecInvariant, PTL
=============================================================================
