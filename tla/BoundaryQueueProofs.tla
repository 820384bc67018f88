------------------------ MODULE BoundaryQueueProofs ------------------------
(***************************************************************************)
(* Proofs about BoundaryQueue for every set of requests, decisions and     *)
(* threads and every capacity, and about TurnLoop, its composition with an *)
(* engine, for every number of decisions as well.                          *)
(***************************************************************************)
EXTENDS TurnLoop, SequenceTheorems, TLAPS

\* Tickets grow along the queue and exceed that of every dispatched request.
QueueInOrder ==
    /\ \A i, j \in DOMAIN queue : i < j => ticket[queue[i]] < ticket[queue[j]]
    /\ \A i \in DOMAIN queue : lastBegun < ticket[queue[i]]
                               /\ ticket[queue[i]] <= issued
    /\ lastBegun <= issued

\* Only requests whose token is signalled count as withdrawn.
WithdrawnCancelled == withdrawn \subseteq cancelled

IInv == /\ TypeOK
        /\ NoLostWaiter
        /\ OnePlace
        /\ WithinCapacity
        /\ NothingOutlivesFault
        /\ CancelBeforeDispatchHolds
        /\ QueueInOrder
        /\ WithdrawnCancelled

-----------------------------------------------------------------------------
(* Lemmas about the queue's helpers.                                       *)

\* Appending a request: the domain grows by one, the rest stays in place.
LEMMA EnqueuedProperties ==
    ASSUME NEW r \in Request, queue \in Seq(Request)
    PROVE  /\ Enqueued(r) \in Seq(Request)
           /\ Len(Enqueued(r)) = Len(queue) + 1
           /\ DOMAIN Enqueued(r) = 1 .. Len(queue) + 1
           /\ \A i \in DOMAIN queue : Enqueued(r)[i] = queue[i]
           /\ Enqueued(r)[Len(queue) + 1] = r
           /\ DOMAIN queue = 1 .. Len(queue)
           /\ Len(queue) \in Nat
BY DEF Enqueued

\* Dropping the first n requests shifts the rest down by n.
LEMMA BehindProperties ==
    ASSUME queue \in Seq(Request), NEW n \in DOMAIN queue
    PROVE  /\ Behind(n) \in Seq(Request)
           /\ Len(Behind(n)) = Len(queue) - n
           /\ DOMAIN Behind(n) = 1 .. Len(queue) - n
           /\ \A i \in DOMAIN Behind(n) : /\ i + n \in DOMAIN queue
                                          /\ Behind(n)[i] = queue[i + n]
           /\ DOMAIN queue = 1 .. Len(queue)
           /\ Len(queue) \in Nat
           /\ n \in 1 .. Len(queue)
BY DEF Behind

\* TrySet answers exactly the members of S that still wait.
LEMMA TrySetProperties ==
    ASSUME TypeOK, NEW S, NEW answer, \A r \in Request : answer[r] \in Answer
    PROVE  /\ TrySet(S, answer) \in [Request -> Answer \cup {"unsubmitted", "pending"}]
           /\ \A r \in Request : TrySet(S, answer)[r] =
                IF r \in S /\ completion[r] = "pending" THEN answer[r] ELSE completion[r]
BY DEF TrySet, TypeOK

\* The answers the operations hand out are answers.
LEMMA AnswersAreAnswers ==
    /\ \A r \in Request : TurnedAway[r] \in Refusal
    /\ \A x, r \in Request : FaultAnswers(x)[r] \in Answer
    /\ \A x, r \in Request : FaultAnswers(x)[r] =
                               IF r = x THEN "error" ELSE "worker_faulted"
    /\ \A a : \A r \in Request : Everyone(a)[r] = a
    /\ Refusal \subseteq Answer
    /\ "pending" \notin Answer /\ "unsubmitted" \notin Answer
    /\ {"result", "error", "disposed"} \subseteq Answer
    /\ "result" \notin Refusal /\ "error" \notin Refusal /\ "disposed" \notin Refusal
BY DEF TurnedAway, FaultAnswers, Everyone, Answer, Refusal

-----------------------------------------------------------------------------
(* Type correctness.                                                       *)

\* The inductive invariant holds initially.
LEMMA InitInv == Init => IInv
<1> SUFFICES ASSUME Init PROVE IInv
  OBVIOUS
<1> USE DEF Init
<1>1. TypeOK
  <2>1. queue \in Seq(Request)
    OBVIOUS
  <2>2. completion \in [Request -> Answer \cup {"unsubmitted", "pending"}]
    OBVIOUS
  <2> QED
    BY <2>1, <2>2 DEF TypeOK
<1>2. DOMAIN queue = {} /\ Queued = {} /\ Outstanding = {}
  BY DEF Queued, Outstanding
<1>3. NoLostWaiter /\ OnePlace
  BY <1>2, NullsAssumption DEF NoLostWaiter, OnePlace
<1>4. WithinCapacity /\ NothingOutlivesFault
  BY CapacityAssumption DEF WithinCapacity, NothingOutlivesFault
<1>5. CancelBeforeDispatchHolds /\ WithdrawnCancelled
  BY DEF CancelBeforeDispatchHolds, WithdrawnCancelled
<1>6. QueueInOrder
  BY <1>2 DEF QueueInOrder
<1> QED
  BY <1>1, <1>3, <1>4, <1>5, <1>6 DEF IInv

\* Every step keeps the types; only the queue and the answers need an argument.
LEMMA Typing == TypeOK /\ [Next]_vars => TypeOK'
<1> SUFFICES ASSUME TypeOK, [Next]_vars PROVE TypeOK'
  OBVIOUS
<1>a. Refusal \subseteq Answer /\ {"result", "error", "disposed"} \subseteq Answer
  BY AnswersAreAnswers
<1>1. ASSUME NEW r \in Request, NEW d \in Decision, Submit(r, d)
      PROVE  TypeOK'
  <2>1. queue' \in Seq(Request)
    BY <1>1, EnqueuedProperties DEF Submit, TypeOK
  <2>2. expected' \in [Request -> Decision \cup {NoDecision}]
    BY <1>1 DEF Submit, TypeOK
  <2>3. completion' \in [Request -> Answer \cup {"unsubmitted", "pending"}]
    BY <1>1 DEF Submit, TypeOK
  <2>4. issued' \in Nat /\ ticket' \in [Request -> Nat]
    BY <1>1 DEF Submit, TypeOK
  <2> QED
    BY <1>1, <2>1, <2>2, <2>3, <2>4 DEF Submit, TypeOK
<1>2. ASSUME NEW r \in Request, Cancel(r) PROVE TypeOK'
  BY <1>2 DEF Cancel, TypeOK
<1>3. ASSUME NEW t \in Thread, InitializeTurnThread(t) PROVE TypeOK'
  BY <1>3 DEF InitializeTurnThread, TypeOK, history
<1>4. ASSUME NEW t \in Thread, NEW d \in Decision, NEW n \in 1 .. Capacity,
             TryBeginDispatch(t, d, n)
      PROVE  TypeOK'
  <2>1. n \in DOMAIN queue /\ queue[n] \in Request
    BY <1>4 DEF TryBeginDispatch, TypeOK
  <2>2. queue' \in Seq(Request)
    BY <1>4, <2>1, BehindProperties DEF TryBeginDispatch, TypeOK
  <2>3. completion' \in [Request -> Answer \cup {"unsubmitted", "pending"}]
    <3> DEFINE S == Dequeued(n - 1)
    <3>1. completion' = TrySet(S, TurnedAway)
      BY <1>4 DEF TryBeginDispatch
    <3> HIDE DEF S
    <3> QED BY <3>1, <1>a, TrySetProperties, AnswersAreAnswers
  <2> QED
    BY <1>4, <2>1, <2>2, <2>3 DEF TryBeginDispatch, TypeOK
<1>5. ASSUME NEW t \in Thread, NEW d \in Decision, TryBeginDrain(t, d)
      PROVE  TypeOK'
  <2>1. completion' \in [Request -> Answer \cup {"unsubmitted", "pending"}]
    BY <1>5, <1>a, TrySetProperties, AnswersAreAnswers DEF TryBeginDrain
  <2> QED
    BY <1>5, <2>1 DEF TryBeginDrain, TypeOK, history
<1>6. ASSUME NEW t \in Thread, NEW r \in Request, NEW d \in Decision,
             Complete(t, r, d)
      PROVE  TypeOK'
  <2>1. completion' \in [Request -> Answer \cup {"unsubmitted", "pending"}]
    BY <1>6, <1>a, TrySetProperties, AnswersAreAnswers DEF Complete
  <2> QED
    BY <1>6, <2>1 DEF Complete, TypeOK, history
<1>7. ASSUME NEW t \in Thread, NEW r \in Request, FailAfterDispatch(t, r)
      PROVE  TypeOK'
  <2>1. completion' \in [Request -> Answer \cup {"unsubmitted", "pending"}]
    BY <1>7, TrySetProperties, AnswersAreAnswers DEF FailAfterDispatch
  <2> QED
    BY <1>7, <2>1 DEF FailAfterDispatch, QueueOnFault, TypeOK, history
<1>8. ASSUME NEW t \in Thread, Reconcile(t) PROVE TypeOK'
  BY <1>8 DEF Reconcile, TypeOK, history
<1>9. ASSUME Dispose PROVE TypeOK'
  <2>1. completion' \in [Request -> Answer \cup {"unsubmitted", "pending"}]
    BY <1>9, <1>a, TrySetProperties, AnswersAreAnswers DEF Dispose
  <2> QED
    BY <1>9, <2>1 DEF Dispose, TypeOK, history
<1>10. CASE UNCHANGED vars
  BY <1>10 DEF vars, state, history, TypeOK
<1> QED
  BY <1>1, <1>2, <1>3, <1>4, <1>5, <1>6, <1>7, <1>8, <1>9, <1>10
  DEF Next, TryBegin

\* Spec => []TypeOK: the types hold for every instance of the constants.
THEOREM TypeCorrect == Spec => []TypeOK
<1>1. Init => TypeOK
  BY InitInv DEF IInv
<1> QED
  BY <1>1, Typing, PTL DEF Spec

-----------------------------------------------------------------------------
(* The inductive invariant.                                                *)

\* After Submit the new request, and it alone, joins those outstanding.
LEMMA QueuedAfterSubmit ==
    ASSUME TypeOK, NEW r \in Request, NEW d \in Decision, Submit(r, d)
    PROVE  Queued' = Queued \cup {r}
<1> DEFINE q == Enqueued(r)
<1>1. queue' = q /\ queue \in Seq(Request)
  BY DEF Submit, TypeOK
<1>2. /\ DOMAIN q = 1 .. Len(queue) + 1
      /\ \A i \in DOMAIN queue : q[i] = queue[i]
      /\ q[Len(queue) + 1] = r
      /\ DOMAIN queue = 1 .. Len(queue)
      /\ Len(queue) \in Nat
  BY <1>1, EnqueuedProperties
<1> HIDE DEF q
<1> QED
  BY <1>1, <1>2 DEF Queued

\* A dispatch at position n leaves those behind n queued.
LEMMA QueuedAfterDispatch ==
    ASSUME TypeOK, NEW n \in DOMAIN queue, queue' = Behind(n)
    PROVE  /\ Queued' = {queue[i] : i \in n + 1 .. Len(queue)}
           /\ Queued = Dequeued(n - 1) \cup {queue[n]} \cup Queued'
<1>1. /\ DOMAIN Behind(n) = 1 .. Len(queue) - n
      /\ \A i \in DOMAIN Behind(n) : Behind(n)[i] = queue[i + n]
      /\ DOMAIN queue = 1 .. Len(queue)
      /\ Len(queue) \in Nat /\ n \in 1 .. Len(queue)
  BY BehindProperties DEF TypeOK
<1>2. Queued' = {queue[i] : i \in n + 1 .. Len(queue)}
  <2>1. ASSUME NEW x \in Queued' PROVE x \in {queue[i] : i \in n + 1 .. Len(queue)}
    <3>1. PICK k \in 1 .. Len(queue) - n : x = queue[k + n]
      BY <1>1, <2>1 DEF Queued
    <3>2. k + n \in n + 1 .. Len(queue)
      BY <1>1
    <3> QED BY <3>1, <3>2
  <2>2. ASSUME NEW i \in n + 1 .. Len(queue) PROVE queue[i] \in Queued'
    <3>1. i - n \in 1 .. Len(queue) - n /\ (i - n) + n = i
      BY <1>1
    <3>2. Behind(n)[i - n] = queue[i]
      BY <1>1, <3>1
    <3> QED BY <1>1, <3>1, <3>2 DEF Queued
  <2> QED BY <2>1, <2>2
<1>3. Queued = Dequeued(n - 1) \cup {queue[n]} \cup {queue[i] : i \in n + 1 .. Len(queue)}
  BY <1>1 DEF Queued, Dequeued
<1> QED
  BY <1>2, <1>3

\* Whatever empties the queue and clears the active request settles the parts
\* of the invariant that speak of places.
LEMMA EmptiedQueue ==
    ASSUME queue' = <<>>, active' = NoRequest, TypeOK
    PROVE  /\ Queued' = {} /\ Outstanding' = {}
           /\ OnePlace' /\ WithinCapacity' /\ NothingOutlivesFault'
           /\ DOMAIN queue' = {}
<1>1. DOMAIN queue' = {} /\ Len(queue') = 0
  OBVIOUS
<1>2. Queued' = {} /\ Outstanding' = {}
  BY <1>1 DEF Queued, Outstanding
<1> QED
  BY <1>1, <1>2, CapacityAssumption
  DEF OnePlace, WithinCapacity, NothingOutlivesFault

\* Every operation of the queue keeps the inductive invariant.
LEMMA Induction == IInv /\ [Next]_vars => IInv'
<1> SUFFICES ASSUME IInv, [Next]_vars PROVE IInv'
  OBVIOUS
<1>t. TypeOK /\ TypeOK'
  BY Typing DEF IInv
<1>n. NoRequest \notin Request
  BY NullsAssumption
<1>q. /\ DOMAIN queue = 1 .. Len(queue) /\ Len(queue) \in Nat
      /\ \A i \in DOMAIN queue : queue[i] \in Request
      /\ Queued \subseteq Request
  BY <1>t DEF TypeOK, Queued
<1>1. ASSUME NEW r \in Request, NEW d \in Decision, Submit(r, d)
      PROVE  IInv'
  <2>1. Queued' = Queued \cup {r}
    BY <1>1, <1>t, QueuedAfterSubmit
  <2>2. r \notin Outstanding /\ r # active /\ r \notin Queued
    <3>1. completion[r] # "pending"
      BY <1>1 DEF Submit
    <3>2. r \notin Outstanding
      BY <3>1 DEF IInv, NoLostWaiter
    <3> QED BY <3>2, <1>n DEF Outstanding
  <2>3. \A x \in Request : completion'[x] = IF x = r THEN "pending" ELSE completion[x]
    BY <1>1, <1>t DEF Submit, TypeOK
  <2>4. active' = active /\ withdrawn' = withdrawn /\ cancelled' = cancelled
        /\ lastBegun' = lastBegun /\ issued' = issued + 1 /\ Usable
        /\ faulted' = faulted /\ disposed' = disposed
    BY <1>1 DEF Submit
  <2>5. /\ DOMAIN queue' = 1 .. Len(queue) + 1 /\ Len(queue') = Len(queue) + 1
        /\ \A i \in DOMAIN queue : queue'[i] = queue[i]
        /\ queue'[Len(queue) + 1] = r
    <3>1. queue' = Enqueued(r)
      BY <1>1 DEF Submit
    <3>2. /\ DOMAIN Enqueued(r) = 1 .. Len(queue) + 1
          /\ Len(Enqueued(r)) = Len(queue) + 1
          /\ \A i \in DOMAIN queue : Enqueued(r)[i] = queue[i]
          /\ Enqueued(r)[Len(queue) + 1] = r
      BY <1>t, EnqueuedProperties DEF TypeOK
    <3> QED BY <3>1, <3>2
  <2>6. NoLostWaiter'
    BY <2>1, <2>2, <2>3, <2>4, <1>n DEF IInv, NoLostWaiter, Outstanding
  <2>7. OnePlace'
    <3>1. \A i \in DOMAIN queue : queue[i] # r
      BY <2>2 DEF Queued
    <3> QED BY <1>q, <2>1, <2>2, <2>4, <2>5, <3>1 DEF IInv, OnePlace
  <2>8. WithinCapacity'
    BY <1>1, <1>q, <2>4, <2>5, CapacityAssumption DEF Submit, HasRoom, WithinCapacity
  <2>9. NothingOutlivesFault'
    BY <2>4 DEF Usable, NothingOutlivesFault
  <2>10. CancelBeforeDispatchHolds'
    BY <1>t, <2>3, <2>4 DEF IInv, CancelBeforeDispatchHolds, TypeOK
  <2>11. QueueInOrder'
    <3>1. ticket' = [ticket EXCEPT ![r] = issued + 1]
      BY <1>1 DEF Submit
    <3>2. \A i \in DOMAIN queue : queue[i] # r
      BY <2>2 DEF Queued
    <3>3. \A i \in DOMAIN queue : ticket'[queue'[i]] = ticket[queue[i]]
      BY <3>1, <3>2, <2>5, <1>q, <1>t DEF TypeOK
    <3>4. ticket'[queue'[Len(queue) + 1]] = issued + 1
      BY <3>1, <2>5, <1>t DEF TypeOK
    <3>5. \A i \in DOMAIN queue : ticket[queue[i]] \in Nat
      BY <1>q, <1>t DEF TypeOK
    <3>6. issued \in Nat /\ lastBegun \in Nat
      BY <1>t DEF TypeOK
    <3> QED
      BY <1>q, <2>4, <2>5, <3>3, <3>4, <3>5, <3>6 DEF IInv, QueueInOrder
  <2>12. WithdrawnCancelled'
    BY <2>4 DEF IInv, WithdrawnCancelled
  <2> QED
    BY <1>t, <2>6, <2>7, <2>8, <2>9, <2>10, <2>11, <2>12 DEF IInv
<1>2. ASSUME NEW r \in Request, Cancel(r) PROVE IInv'
  <2>1. CancelBeforeDispatchHolds'
    <3>1. \A x \in withdrawn' : x \in withdrawn \/ (x = r /\ (r \in Queued \/ completion[r] = "unsubmitted"))
      BY <1>2 DEF Cancel
    <3>2. r \in Queued => r # active /\ completion[r] = "pending"
      BY DEF IInv, OnePlace, NoLostWaiter, Outstanding
    <3>3. completion[r] = "unsubmitted" => r # active
      BY <1>n DEF IInv, NoLostWaiter, Outstanding
    <3> QED BY <1>2, <3>1, <3>2, <3>3 DEF Cancel, IInv, CancelBeforeDispatchHolds
  <2>2. WithdrawnCancelled'
    <3>1. withdrawn' \subseteq withdrawn \cup {r} /\ cancelled' = cancelled \cup {r}
      BY <1>2 DEF Cancel
    <3> QED BY <3>1 DEF IInv, WithdrawnCancelled
  <2>3. NoLostWaiter' /\ OnePlace' /\ WithinCapacity' /\ NothingOutlivesFault' /\ QueueInOrder'
    BY <1>2 DEF Cancel, IInv, NoLostWaiter, OnePlace, WithinCapacity,
                NothingOutlivesFault, QueueInOrder, Outstanding, Queued
  <2> QED
    BY <1>t, <2>1, <2>2, <2>3 DEF IInv
<1>3. ASSUME NEW t \in Thread, InitializeTurnThread(t) PROVE IInv'
  BY <1>3, <1>t DEF InitializeTurnThread, history, IInv, NoLostWaiter, OnePlace,
       WithinCapacity, NothingOutlivesFault, CancelBeforeDispatchHolds,
       QueueInOrder, WithdrawnCancelled, Outstanding, Queued
<1>4. ASSUME NEW t \in Thread, NEW d \in Decision, NEW n \in 1 .. Capacity,
             TryBeginDispatch(t, d, n)
      PROVE  IInv'
  <2> DEFINE S == Dequeued(n - 1)
             b == queue[n]
  <2>1. /\ n \in DOMAIN queue /\ b \in Request /\ b # NoRequest
        /\ active = NoRequest /\ active' = b
        /\ queue' = Behind(n)
        /\ b \notin cancelled
        /\ Usable
        /\ withdrawn' = withdrawn /\ cancelled' = cancelled
        /\ issued' = issued /\ ticket' = ticket /\ lastBegun' = ticket[b]
        /\ faulted' = faulted /\ disposed' = disposed
        /\ completion' = TrySet(S, TurnedAway)
    BY <1>4, <1>q, <1>n DEF TryBeginDispatch, Dispatchable
  <2>2. /\ Queued' = {queue[i] : i \in n + 1 .. Len(queue)}
        /\ Queued = S \cup {b} \cup Queued'
    BY <2>1, <1>t, QueuedAfterDispatch
  <2>3. /\ Len(queue') = Len(queue) - n
        /\ DOMAIN queue' = 1 .. Len(queue) - n
        /\ \A i \in DOMAIN queue' : /\ i + n \in DOMAIN queue
                                    /\ queue'[i] = queue[i + n]
        /\ n \in 1 .. Len(queue)
    <3>1. /\ Len(Behind(n)) = Len(queue) - n
          /\ DOMAIN Behind(n) = 1 .. Len(queue) - n
          /\ \A i \in DOMAIN Behind(n) : /\ i + n \in DOMAIN queue
                                         /\ Behind(n)[i] = queue[i + n]
          /\ n \in 1 .. Len(queue)
      BY <2>1, <1>t, BehindProperties DEF TypeOK
    <3> QED BY <3>1, <2>1
  <2>4. \A i, j \in DOMAIN queue : queue[i] = queue[j] => i = j
    BY DEF IInv, OnePlace
  <2>5. b \notin S /\ b \notin Queued' /\ S \cap Queued' = {}
    BY <1>q, <2>1, <2>2, <2>3, <2>4 DEF Dequeued
  <2>6. \A r \in Request : completion'[r] =
          IF r \in S /\ completion[r] = "pending" THEN TurnedAway[r] ELSE completion[r]
    BY <2>1, <1>t, TrySetProperties, AnswersAreAnswers
  <2>7. \A r \in Request : TurnedAway[r] \in Refusal /\ TurnedAway[r] # "pending"
           /\ TurnedAway[r] # "result" /\ TurnedAway[r] # "error"
    BY AnswersAreAnswers
  <2> HIDE DEF S, b
  <2>8. NoLostWaiter'
    <3>1. Outstanding = Queued
      BY <2>1 DEF Outstanding
    <3>2. Outstanding' = Queued' \cup {b}
      BY <2>1 DEF Outstanding
    <3>3. \A r \in Request : completion[r] = "pending" <=> r \in S \cup {b} \cup Queued'
      BY <2>2, <3>1 DEF IInv, NoLostWaiter
    <3>4. \A r \in Request : completion'[r] = "pending" <=> r \in {b} \cup Queued'
      BY <2>5, <2>6, <2>7, <3>3
    <3> QED BY <3>2, <3>4 DEF NoLostWaiter
  <2>9. OnePlace'
    <3>1. ASSUME NEW i \in DOMAIN queue', NEW j \in DOMAIN queue', queue'[i] = queue'[j]
          PROVE  i = j
      <4>1. i + n = j + n
        BY <2>3, <2>4, <3>1
      <4> QED BY <4>1, <2>3
    <3> QED BY <2>1, <2>5, <3>1 DEF OnePlace
  <2>10. WithinCapacity'
    BY <1>q, <2>1, <2>3, CapacityAssumption DEF IInv, WithinCapacity
  <2>11. NothingOutlivesFault'
    BY <2>1 DEF Usable, NothingOutlivesFault
  <2>12. CancelBeforeDispatchHolds'
    <3>1. b \notin withdrawn
      BY <2>1 DEF IInv, WithdrawnCancelled
    <3> QED
      BY <1>t, <2>1, <2>6, <2>7, <3>1 DEF IInv, CancelBeforeDispatchHolds, TypeOK
  <2>13. QueueInOrder'
    <3>1. \A i \in DOMAIN queue : ticket[queue[i]] \in Nat
      BY <1>q, <1>t DEF TypeOK
    <3>2. \A i, j \in DOMAIN queue : i < j => ticket[queue[i]] < ticket[queue[j]]
      BY DEF IInv, QueueInOrder
    <3>3. \A i \in DOMAIN queue : ticket[queue[i]] <= issued
      BY DEF IInv, QueueInOrder
    <3>4. \A i \in DOMAIN queue' : /\ i + n \in DOMAIN queue /\ n < i + n
                                   /\ ticket'[queue'[i]] = ticket[queue[i + n]]
      BY <2>1, <2>3
    <3>5. \A i, j \in DOMAIN queue' : i < j => ticket'[queue'[i]] < ticket'[queue'[j]]
      <4>1. \A i, j \in DOMAIN queue' : i < j => i + n < j + n
        BY <2>3
      <4> QED BY <3>2, <3>4, <4>1
    <3>6. \A i \in DOMAIN queue' : lastBegun' < ticket'[queue'[i]]
      BY <2>1, <3>2, <3>4 DEF b
    <3>7. lastBegun' <= issued'
      BY <2>1, <3>3 DEF b
    <3> QED BY <2>1, <3>3, <3>4, <3>5, <3>6, <3>7 DEF QueueInOrder
  <2>14. WithdrawnCancelled'
    BY <2>1 DEF IInv, WithdrawnCancelled
  <2> QED
    BY <1>t, <2>8, <2>9, <2>10, <2>11, <2>12, <2>13, <2>14 DEF IInv
<1>5. ASSUME NEW t \in Thread, NEW d \in Decision, TryBeginDrain(t, d)
      PROVE  IInv'
  <2>1. /\ active = NoRequest /\ active' = NoRequest /\ queue' = <<>> /\ Usable
        /\ completion' = TrySet(Queued, TurnedAway)
        /\ faulted' = faulted /\ disposed' = disposed
        /\ cancelled' = cancelled /\ withdrawn' = withdrawn
        /\ issued' = issued /\ lastBegun' = lastBegun /\ ticket' = ticket
    BY <1>5 DEF TryBeginDrain, history
  <2>2. \A r \in Request : completion'[r] =
          IF r \in Queued /\ completion[r] = "pending" THEN TurnedAway[r] ELSE completion[r]
    BY <2>1, <1>t, TrySetProperties, AnswersAreAnswers
  <2>3. \A r \in Request : TurnedAway[r] # "pending"
           /\ TurnedAway[r] # "result" /\ TurnedAway[r] # "error"
    BY AnswersAreAnswers
  <2>4. NoLostWaiter' /\ OnePlace'
    <3>1. Outstanding = Queued
      BY <2>1 DEF Outstanding
    <3> QED BY <1>t, <1>n, <2>1, <2>2, <2>3, <3>1, EmptiedQueue
            DEF IInv, NoLostWaiter
  <2>5. WithinCapacity' /\ NothingOutlivesFault' /\ QueueInOrder'
    BY <1>t, <2>1, EmptiedQueue DEF IInv, QueueInOrder, TypeOK
  <2>6. CancelBeforeDispatchHolds' /\ WithdrawnCancelled'
    BY <1>t, <2>1, <2>2, <2>3 DEF IInv, CancelBeforeDispatchHolds, WithdrawnCancelled, TypeOK
  <2> QED
    BY <1>t, <2>4, <2>5, <2>6 DEF IInv
<1>6. ASSUME NEW t \in Thread, NEW r \in Request, NEW d \in Decision,
             Complete(t, r, d)
      PROVE  IInv'
  <2>1. /\ active = r /\ active' = NoRequest /\ queue' = queue /\ Usable
        /\ completion' = TrySet({r}, Everyone("result"))
        /\ faulted' = faulted /\ disposed' = disposed
        /\ cancelled' = cancelled /\ withdrawn' = withdrawn
        /\ issued' = issued /\ lastBegun' = lastBegun /\ ticket' = ticket
    BY <1>6 DEF Complete, IsActive, history
  <2>2. \A x \in Request : completion'[x] =
          IF x = r /\ completion[x] = "pending" THEN "result" ELSE completion[x]
    BY <2>1, <1>t, TrySetProperties, AnswersAreAnswers
  <2>3. r \notin Queued /\ r # NoRequest /\ Queued' = Queued
    BY <2>1, <1>n DEF IInv, OnePlace, Queued
  <2>4. NoLostWaiter' /\ OnePlace'
    <3>1. Outstanding = Queued \cup {r} /\ Outstanding' = Queued
      BY <2>1, <2>3 DEF Outstanding
    <3> QED BY <1>q, <1>n, <2>1, <2>2, <2>3, <3>1 DEF IInv, NoLostWaiter, OnePlace
  <2>5. WithinCapacity' /\ NothingOutlivesFault' /\ QueueInOrder'
    BY <1>q, <2>1, <2>3, CapacityAssumption
       DEF IInv, QueueInOrder, WithinCapacity, NothingOutlivesFault, Usable
  <2>6. CancelBeforeDispatchHolds' /\ WithdrawnCancelled'
    <3>1. r \notin withdrawn
      BY <2>1 DEF IInv, CancelBeforeDispatchHolds
    <3> QED
      BY <1>t, <1>n, <2>1, <2>2, <3>1
      DEF IInv, CancelBeforeDispatchHolds, WithdrawnCancelled, TypeOK
  <2> QED
    BY <1>t, <2>4, <2>5, <2>6 DEF IInv
<1>7. ASSUME NEW t \in Thread, NEW r \in Request, FailAfterDispatch(t, r)
      PROVE  IInv'
  <2>1. /\ active = r /\ active' = NoRequest /\ queue' = <<>>
        /\ completion' = TrySet(Outstanding, FaultAnswers(r))
        /\ cancelled' = cancelled /\ withdrawn' = withdrawn
        /\ issued' = issued /\ lastBegun' = lastBegun /\ ticket' = ticket
    BY <1>7 DEF FailAfterDispatch, QueueOnFault, IsActive, history
  <2>2. \A x \in Request : completion'[x] =
          IF x \in Outstanding /\ completion[x] = "pending"
          THEN (IF x = r THEN "error" ELSE "worker_faulted") ELSE completion[x]
    <3>1. \A x \in Request : FaultAnswers(r)[x] = (IF x = r THEN "error" ELSE "worker_faulted")
      BY AnswersAreAnswers
    <3>2. \A x \in Request : completion'[x] =
            IF x \in Outstanding /\ completion[x] = "pending"
            THEN FaultAnswers(r)[x] ELSE completion[x]
      BY <2>1, <1>t, TrySetProperties, AnswersAreAnswers
    <3> QED BY <3>1, <3>2
  <2>3. NoLostWaiter' /\ OnePlace'
    BY <1>t, <1>n, <2>1, <2>2, EmptiedQueue DEF IInv, NoLostWaiter
  <2>4. WithinCapacity' /\ NothingOutlivesFault' /\ QueueInOrder'
    BY <1>t, <2>1, EmptiedQueue DEF IInv, QueueInOrder, TypeOK
  <2>5. CancelBeforeDispatchHolds' /\ WithdrawnCancelled'
    <3>1. r \notin withdrawn
      BY <2>1 DEF IInv, CancelBeforeDispatchHolds
    <3> QED
      BY <1>t, <1>n, <2>1, <2>2, <3>1
      DEF IInv, CancelBeforeDispatchHolds, WithdrawnCancelled, TypeOK
  <2> QED
    BY <1>t, <2>3, <2>4, <2>5 DEF IInv
<1>8. ASSUME NEW t \in Thread, Reconcile(t) PROVE IInv'
  BY <1>8, <1>t DEF Reconcile, history, IInv, NoLostWaiter, OnePlace,
       WithinCapacity, NothingOutlivesFault, CancelBeforeDispatchHolds,
       QueueInOrder, WithdrawnCancelled, Outstanding, Queued
<1>9. ASSUME Dispose PROVE IInv'
  <2>1. /\ active' = NoRequest /\ queue' = <<>>
        /\ completion' = TrySet(Outstanding, Everyone("disposed"))
        /\ cancelled' = cancelled /\ withdrawn' = withdrawn
        /\ issued' = issued /\ lastBegun' = lastBegun /\ ticket' = ticket
    BY <1>9 DEF Dispose, AnsweredOnDispose, history
  <2>2. \A x \in Request : completion'[x] =
          IF x \in Outstanding /\ completion[x] = "pending" THEN "disposed" ELSE completion[x]
    BY <2>1, <1>t, TrySetProperties, AnswersAreAnswers
  <2>3. NoLostWaiter' /\ OnePlace'
    BY <1>t, <1>n, <2>1, <2>2, EmptiedQueue DEF IInv, NoLostWaiter
  <2>4. WithinCapacity' /\ NothingOutlivesFault' /\ QueueInOrder'
    BY <1>t, <2>1, EmptiedQueue DEF IInv, QueueInOrder, TypeOK
  <2>5. CancelBeforeDispatchHolds' /\ WithdrawnCancelled'
    BY <1>t, <1>n, <2>1, <2>2
    DEF IInv, CancelBeforeDispatchHolds, WithdrawnCancelled, TypeOK
  <2> QED
    BY <1>t, <2>3, <2>4, <2>5 DEF IInv
<1>10. CASE UNCHANGED vars
  BY <1>10 DEF vars, state, history, IInv, TypeOK, NoLostWaiter, OnePlace,
       WithinCapacity, NothingOutlivesFault, CancelBeforeDispatchHolds,
       QueueInOrder, WithdrawnCancelled, Outstanding, Queued
<1> QED
  BY <1>1, <1>2, <1>3, <1>4, <1>5, <1>6, <1>7, <1>8, <1>9, <1>10
  DEF Next, TryBegin

\* The inductive invariant holds throughout.
THEOREM Invariance == Spec => []IInv
BY InitInv, Induction, PTL DEF Spec

\* No caller is left waiting on a request the queue no longer holds, and no
\* answer is lost (every TrySet* of BoundaryQueue.cs succeeds).
THEOREM NoWaiterLost == Spec => []NoLostWaiter
<1>1. IInv => NoLostWaiter
  BY DEF IInv
<1> QED
  BY <1>1, Invariance, PTL

\* A request never is in two places, so it cannot be dispatched twice.
THEOREM DispatchedOnce == Spec => []OnePlace
<1>1. IInv => OnePlace
  BY DEF IInv
<1> QED
  BY <1>1, Invariance, PTL

\* Submit's check keeps queue and engine within the capacity.
THEOREM CapacityKept == Spec => []WithinCapacity
<1>1. IInv => WithinCapacity
  BY DEF IInv
<1> QED
  BY <1>1, Invariance, PTL

\* A fault or a disposal leaves nothing to dispatch later.
THEOREM FaultEmpties == Spec => []NothingOutlivesFault
<1>1. IInv => NothingOutlivesFault
  BY DEF IInv
<1> QED
  BY <1>1, Invariance, PTL

\* A request cancelled before its dispatch never reaches the engine.
THEOREM CancellationHolds == Spec => []CancelBeforeDispatchHolds
<1>1. IInv => CancelBeforeDispatchHolds
  BY DEF IInv
<1> QED
  BY <1>1, Invariance, PTL

\* Requests are dispatched in submission order: every step that dispatches
\* takes a request submitted after all those dispatched before.
THEOREM DispatchOrdered == Spec => DispatchInOrder
<1>1. IInv /\ [Next]_vars => [lastBegun' # lastBegun => lastBegun' > lastBegun]_vars
  <2> SUFFICES ASSUME IInv, Next, lastBegun' # lastBegun
               PROVE  lastBegun' > lastBegun
    OBVIOUS
  <2>1. PICK t \in Thread, d \in Decision, n \in 1 .. Capacity : TryBeginDispatch(t, d, n)
    BY DEF Next, TryBegin, Submit, Cancel, InitializeTurnThread, TryBeginDrain,
           Complete, FailAfterDispatch, Reconcile, Dispose, history
  <2>2. lastBegun' = ticket[queue[n]] /\ n \in DOMAIN queue
    BY <2>1 DEF TryBeginDispatch
  <2>3. lastBegun < ticket[queue[n]]
    BY <2>2 DEF IInv, QueueInOrder
  <2>4. queue[n] \in Request /\ ticket[queue[n]] \in Nat /\ lastBegun \in Nat
    BY <2>2 DEF IInv, TypeOK
  <2> QED
    BY <2>2, <2>3, <2>4
<1> QED
  BY <1>1, Invariance, PTL DEF Spec, DispatchInOrder

-----------------------------------------------------------------------------
(* The queue implements DecisionHandoff.                                   *)

\* The phases by the state of the task.
LEMMA PhaseTable ==
    /\ \A a, r : PhaseOf("unsubmitted", a, r) = "new"
    /\ \A a, r : PhaseOf("pending", a, r) = IF a = r THEN "engine" ELSE "waiting"
    /\ \A a, r : \A c \in Refusal : PhaseOf(c, a, r) = "refused"
    /\ \A a, r : PhaseOf("disposed", a, r) = "abandoned"
    /\ \A a, r : PhaseOf("result", a, r) = "answered" /\ PhaseOf("error", a, r) = "answered"
BY DEF PhaseOf, Refusal

\* For a request the engine does not hold it makes no difference which it holds.
LEMMA UnheldPhase ==
    ASSUME NEW c, NEW a, NEW b, NEW r, a # r, b # r
    PROVE  PhaseOf(c, a, r) = PhaseOf(c, b, r)
BY DEF PhaseOf

\* What the invariant says of phases: nobody but the active request is with the
\* engine, and those waiting are the ones in the queue.
LEMMA PhasesNow ==
    ASSUME IInv
    PROVE  /\ \A r \in Request : Phase[r] = PhaseOf(completion[r], active, r)
           /\ \A r \in Request : Phase[r] = "waiting" <=> r \in Queued
           /\ \A r \in Request : Phase[r] = "engine" <=> r = active
           /\ \A r \in Request : completion[r] \in Answer \cup {"unsubmitted", "pending"}
<1>1. \A r \in Request : Phase[r] = PhaseOf(completion[r], active, r)
  BY DEF Phase
<1>2. \A r \in Request : completion[r] \in Answer \cup {"unsubmitted", "pending"}
  BY DEF IInv, TypeOK
<1>3. \A r \in Request : completion[r] # "pending" => Phase[r] \notin {"waiting", "engine"}
  BY <1>1, <1>2, PhaseTable DEF Answer
<1>4. \A r \in Request : completion[r] = "pending" =>
          Phase[r] = IF r = active THEN "engine" ELSE "waiting"
  BY <1>1, PhaseTable
<1>5. NoRequest \notin Request /\ active \notin Queued
  BY NullsAssumption DEF IInv, OnePlace
<1>6. \A r \in Request : completion[r] = "pending" <=> r \in Queued \/ r = active
  BY <1>5 DEF IInv, NoLostWaiter, Outstanding
<1> QED
  BY <1>1, <1>2, <1>3, <1>4, <1>5, <1>6

\* Every step of the queue is a step of the promise, or leaves it unchanged.
LEMMA StepKeepsPromise ==
    IInv /\ [Next]_vars => [Promise!Next]_(Promise!vars)
<1> SUFFICES ASSUME IInv, [Next]_vars
             PROVE  [Promise!Next]_(Promise!vars)
  OBVIOUS
<1> USE PhaseTable
<1>t. TypeOK /\ NoRequest \notin Request /\ Queued \subseteq Request
      /\ active \notin Queued
  BY NullsAssumption DEF IInv, TypeOK, Queued, OnePlace
<1>p. /\ \A r \in Request : Phase[r] = PhaseOf(completion[r], active, r)
      /\ \A r \in Request : Phase[r] = "waiting" <=> r \in Queued
      /\ \A r \in Request : Phase[r] = "engine" <=> r = active
      /\ \A r \in Request : Phase'[r] = PhaseOf(completion'[r], active', r)
  BY PhasesNow DEF Phase
<1>d. Phase = [r \in Request |-> Phase[r]] /\ Phase' = [r \in Request |-> Phase'[r]]
  BY DEF Phase
<1>w. Promise!InPhase("waiting") = Queued
      /\ Promise!InPhase("engine") = {active} \ {NoRequest}
  <2>1. active \in Request \cup {NoRequest}
    BY <1>t DEF TypeOK
  <2> QED BY <1>t, <1>p, <2>1 DEF Promise!InPhase
<1>1. ASSUME NEW r \in Request, NEW d \in Decision, Submit(r, d)
      PROVE  Promise!Accept(r)
  <2>1. /\ completion[r] = "unsubmitted" /\ active' = active /\ ~disposed
        /\ disposed' = disposed
        /\ completion' = [completion EXCEPT ![r] = "pending"]
    BY <1>1 DEF Submit, Usable
  <2>2. Phase[r] = "new" /\ r # active
    BY <1>p, <2>1
  <2>3. \A x \in Request : completion'[x] = IF x = r THEN "pending" ELSE completion[x]
    BY <1>t, <2>1 DEF TypeOK
  <2>4. Phase'[r] = "waiting"
    BY <1>p, <2>1, <2>2, <2>3
  <2>5. \A x \in Request \ {r} : Phase'[x] = Phase[x]
    BY <1>p, <2>1, <2>3
  <2>6. Phase' = Promise!Move({r}, "waiting")
    BY <1>d, <2>4, <2>5 DEF Promise!Move
  <2> QED BY <2>1, <2>2, <2>6 DEF Promise!Accept
<1>4. ASSUME NEW t \in Thread, NEW d \in Decision, NEW n \in 1 .. Capacity,
             TryBeginDispatch(t, d, n)
      PROVE  \E r \in Request, S \in SUBSET Request : Promise!HandOver(r, S)
  <2> DEFINE S == Dequeued(n - 1)
             b == queue[n]
  <2>1. /\ n \in DOMAIN queue /\ b \in Request /\ b \in Queued
        /\ active = NoRequest /\ active' = b
        /\ queue' = Behind(n) /\ ~disposed /\ disposed' = disposed
        /\ completion' = TrySet(S, TurnedAway)
    BY <1>4, <1>t DEF TryBeginDispatch, Usable, Queued
  <2>2. S \subseteq Queued /\ b \notin S
    <3>1. \A i, j \in DOMAIN queue : queue[i] = queue[j] => i = j
      BY DEF IInv, OnePlace
    <3>2. DOMAIN queue = 1 .. Len(queue) /\ Len(queue) \in Nat /\ n \in 1 .. Len(queue)
      BY <2>1, <1>t DEF TypeOK
    <3> QED BY <3>1, <3>2 DEF Dequeued, Queued
  <2>3. \A x \in Request : completion'[x] =
          IF x \in S /\ completion[x] = "pending" THEN TurnedAway[x] ELSE completion[x]
    BY <2>1, <1>t, TrySetProperties, AnswersAreAnswers
  <2> HIDE DEF S, b
  <2>4. \A x \in Queued : completion[x] = "pending"
    BY <1>t DEF IInv, NoLostWaiter, Outstanding
  <2>5. \A x \in S : TurnedAway[x] \in Refusal /\ completion'[x] = TurnedAway[x]
    BY <1>t, <2>2, <2>3, <2>4, AnswersAreAnswers
  <2>6. \A x \in S : Phase'[x] = "refused"
    BY <1>p, <1>t, <2>2, <2>5
  <2>7. Phase'[b] = "engine" /\ Phase[b] = "waiting"
    <3>1. completion'[b] = "pending" /\ active' = b
      BY <2>1, <2>2, <2>3, <2>4
    <3> QED BY <1>p, <2>1, <3>1
  <2>8. \A x \in Request \ (S \cup {b}) : Phase'[x] = Phase[x]
    <3>1. \A x \in Request \ (S \cup {b}) :
             completion'[x] = completion[x] /\ active # x /\ active' # x
      BY <1>t, <2>1, <2>3
    <3> QED BY <1>p, <3>1, UnheldPhase
  <2>9. Phase' = [Promise!Move(S, "refused") EXCEPT ![b] = "engine"]
    BY <1>d, <2>1, <2>2, <2>6, <2>7, <2>8 DEF Promise!Move
  <2>10. Promise!HandOver(b, S)
    BY <1>w, <2>1, <2>2, <2>7, <2>9 DEF Promise!HandOver
  <2> QED BY <1>t, <2>1, <2>2, <2>10
<1>5. ASSUME NEW t \in Thread, NEW d \in Decision, TryBeginDrain(t, d)
      PROVE  Promise!TurnAway(Queued)
  <2>1. /\ active' = active /\ ~disposed /\ disposed' = disposed
        /\ completion' = TrySet(Queued, TurnedAway)
    BY <1>5 DEF TryBeginDrain, Usable
  <2>2. \A x \in Request : completion'[x] =
          IF x \in Queued /\ completion[x] = "pending" THEN TurnedAway[x] ELSE completion[x]
    BY <2>1, <1>t, TrySetProperties, AnswersAreAnswers
  <2>3. \A x \in Queued : completion[x] = "pending"
    BY <1>t DEF IInv, NoLostWaiter, Outstanding
  <2>4. \A x \in Queued : Phase'[x] = "refused"
    <3>1. \A x \in Queued : TurnedAway[x] \in Refusal /\ completion'[x] = TurnedAway[x]
      BY <1>t, <2>2, <2>3, AnswersAreAnswers
    <3> QED BY <1>p, <1>t, <3>1
  <2>5. \A x \in Request \ Queued : Phase'[x] = Phase[x]
    BY <1>p, <2>1, <2>2
  <2>6. Phase' = Promise!Move(Queued, "refused")
    BY <1>d, <2>4, <2>5 DEF Promise!Move
  <2> QED BY <1>w, <2>1, <2>6 DEF Promise!TurnAway
<1>6. ASSUME NEW t \in Thread, NEW r \in Request, NEW d \in Decision,
             Complete(t, r, d)
      PROVE  Promise!Answer(r, {})
  <2>1. /\ active = r /\ active' = NoRequest /\ ~disposed /\ disposed' = disposed
        /\ completion' = TrySet({r}, Everyone("result"))
    BY <1>6 DEF Complete, IsActive, Usable
  <2>2. \A x \in Request : completion'[x] =
          IF x = r /\ completion[x] = "pending" THEN "result" ELSE completion[x]
    BY <2>1, <1>t, TrySetProperties, AnswersAreAnswers
  <2>3. completion[r] = "pending" /\ Phase[r] = "engine"
    BY <1>p, <1>t, <2>1 DEF IInv, NoLostWaiter, Outstanding
  <2>4. Phase'[r] = "answered"
    BY <1>p, <2>2, <2>3
  <2>5. \A x \in Request \ {r} : Phase'[x] = Phase[x]
    <3>1. \A x \in Request \ {r} : completion'[x] = completion[x]
                                   /\ active # x /\ active' # x
      BY <1>t, <2>1, <2>2
    <3> QED BY <1>p, <3>1, UnheldPhase
  <2>6. Phase' = [Promise!Move({}, "refused") EXCEPT ![r] = "answered"]
    BY <1>d, <2>4, <2>5 DEF Promise!Move
  <2> QED BY <2>1, <2>3, <2>6 DEF Promise!Answer
<1>7. ASSUME NEW t \in Thread, NEW r \in Request, FailAfterDispatch(t, r)
      PROVE  Promise!Answer(r, Queued)
  <2>1. /\ active = r /\ active' = NoRequest /\ ~disposed /\ disposed' = disposed
        /\ completion' = TrySet(Outstanding, FaultAnswers(r))
        /\ Outstanding = Queued \cup {r} /\ r \notin Queued
    BY <1>7, <1>t DEF FailAfterDispatch, IsActive, Usable, Outstanding
  <2>2. \A x \in Request : completion'[x] =
          IF x \in Outstanding /\ completion[x] = "pending"
          THEN FaultAnswers(r)[x] ELSE completion[x]
    BY <2>1, <1>t, TrySetProperties, AnswersAreAnswers
  <2>3. \A x \in Outstanding : x \in Request /\ completion[x] = "pending"
    BY <1>t, <2>1 DEF IInv, NoLostWaiter
  <2>4. completion'[r] = "error" /\ \A x \in Queued : completion'[x] = "worker_faulted"
    <3>1. /\ FaultAnswers(r)[r] = "error"
          /\ \A x \in Queued : FaultAnswers(r)[x] = "worker_faulted"
      BY <1>t, <2>1, AnswersAreAnswers
    <3> QED BY <1>t, <2>1, <2>2, <2>3, <3>1
  <2>5. Phase'[r] = "answered" /\ \A x \in Queued : Phase'[x] = "refused"
    BY <1>p, <1>t, <2>4 DEF Refusal
  <2>6. \A x \in Request \ (Queued \cup {r}) : Phase'[x] = Phase[x]
    <3>1. \A x \in Request \ (Queued \cup {r}) :
             completion'[x] = completion[x] /\ active # x /\ active' # x
      BY <1>t, <2>1, <2>2
    <3> QED BY <1>p, <3>1, UnheldPhase
  <2>7. Phase' = [Promise!Move(Queued, "refused") EXCEPT ![r] = "answered"]
    BY <1>d, <2>1, <2>5, <2>6 DEF Promise!Move
  <2>8. Phase[r] = "engine"
    BY <1>p, <2>1
  <2> QED BY <1>w, <2>1, <2>7, <2>8 DEF Promise!Answer
<1>9. ASSUME Dispose PROVE Promise!Close
  <2>1. /\ active' = NoRequest /\ ~disposed /\ disposed'
        /\ completion' = TrySet(Outstanding, Everyone("disposed"))
    BY <1>9 DEF Dispose, AnsweredOnDispose
  <2>2. \A x \in Request : completion'[x] =
          IF x \in Outstanding /\ completion[x] = "pending" THEN "disposed" ELSE completion[x]
    BY <2>1, <1>t, TrySetProperties, AnswersAreAnswers
  <2>3. \A x \in Outstanding : x \in Request /\ completion[x] = "pending"
    <3>1. Outstanding \subseteq Request
      BY <1>t DEF Outstanding, TypeOK
    <3> QED BY <3>1 DEF IInv, NoLostWaiter
  <2>4. \A x \in Outstanding : Phase'[x] = "abandoned"
    BY <1>p, <2>2, <2>3
  <2>5. \A x \in Request \ Outstanding : Phase'[x] = Phase[x]
    <3>1. \A x \in Request \ Outstanding :
             completion'[x] = completion[x] /\ active # x /\ active' # x
      BY <1>t, <2>1, <2>2 DEF Outstanding
    <3> QED BY <1>p, <3>1, UnheldPhase
  <2>6. Phase' = Promise!Move(Outstanding, "abandoned")
    BY <1>d, <2>4, <2>5 DEF Promise!Move
  <2> QED BY <1>w, <2>1, <2>6 DEF Promise!Close, Outstanding
<1>10. ASSUME \/ \E r \in Request : Cancel(r)
              \/ \E t \in Thread : InitializeTurnThread(t) \/ Reconcile(t)
              \/ UNCHANGED vars
       PROVE  UNCHANGED Promise!vars
  BY <1>10 DEF Cancel, InitializeTurnThread, Reconcile, vars, state, history,
               Promise!vars, Phase
<1> QED
  BY <1>t, <1>1, <1>4, <1>5, <1>6, <1>7, <1>9, <1>10 DEF Next, TryBegin, Promise!Next

\* The C# queue implements the promise: every accepted request is refused, or
\* handed to the engine alone, and answered at most once.
THEOREM QueueKeepsPromise == Spec => KeepsPromise
<1>1. Init => Promise!Init
  <2> SUFFICES ASSUME Init PROVE Promise!Init
    OBVIOUS
  <2>1. \A r \in Request : PhaseOf(completion[r], active, r) = "new"
    BY PhaseTable DEF Init
  <2>2. Phase = [r \in Request |-> "new"]
    BY <2>1 DEF Phase
  <2> QED BY <2>2 DEF Init, Promise!Init
<1> QED
  BY <1>1, Invariance, StepKeepsPromise, PTL DEF Spec, KeepsPromise, Promise!Spec
-----------------------------------------------------------------------------
\* TurnLoop: the queue between callers and an engine whose adapter may call
\* back too early.

\* The engine's input is the active request's until it is executed; an input
\* nobody waits for any more is left only by a fault or by the disposal.
InputHeld ==
    /\ active # NoRequest =>
         input = active \/ (input = NoRequest /\ appliedAt[active] # 0)
    /\ input # NoRequest /\ active = NoRequest => faulted \/ disposed

\* An input not executed yet was chosen for the decision the engine waits at.
InputCurrent ==
    input # NoRequest => expected[input] = boundary /\ appliedAt[input] = 0

\* Nothing outside the engine's reach has been applied or is about to be.
OutOfReach(r) == completion[r] \in Refusal \cup {"unsubmitted"} \/ r \in Queued

UnreachedUntouched ==
    \A r \in Request : OutOfReach(r) => appliedAt[r] = 0 /\ input # r

LoopInv == /\ IInv
           /\ LoopTypeOK
           /\ InputHeld
           /\ InputCurrent
           /\ UnreachedUntouched
           /\ ResultMeansApplied

-----------------------------------------------------------------------------
\* Decision 0 does not exist: appliedAt[r] = 0 says "not executed".
LEMMA DecisionsPositive == /\ 0 \notin Decision /\ Decision \subseteq Nat
                           /\ LastDecision \in Nat /\ 1 \in Decision
BY DecisionsAreNumbered

\* Every step of the composition is a step of the queue, or leaves it alone.
LEMMA LoopSteps == ASSUME LoopTypeOK, [LoopNext]_<<vars, loopVars>>
                   PROVE  [Next]_vars
<1>1. ASSUME NEW r \in Request, ClientSubmits(r) PROVE Next
  <2>1. PICK d \in 1 .. boundary : Submit(r, d)
    BY <1>1 DEF ClientSubmits
  <2>2. d \in Decision
    BY <2>1, DecisionsAreNumbered DEF LoopTypeOK
  <2> QED BY <2>1, <2>2 DEF Next
<1>2. ASSUME NEW t \in Thread, AdapterOffers(t) \/ AdapterReports(t) PROVE Next
  BY <1>2 DEF AdapterOffers, AdapterReports, Next, LoopTypeOK
<1>3. EngineExecutes \/ UNCHANGED <<vars, loopVars>> => UNCHANGED vars
  BY DEF EngineExecutes
<1>4. ASSUME \/ \E r \in Request : ClientCancels(r)
             \/ \E t \in Thread : AdapterBinds(t) \/ AdapterFails(t) \/ AdapterReconciles(t)
             \/ HostDisposes
      PROVE  Next
  BY <1>4 DEF ClientCancels, AdapterBinds, AdapterFails, AdapterReconciles,
              HostDisposes, Next
<1> QED
  BY <1>1, <1>2, <1>3, <1>4 DEF LoopNext

\* The invariant holds when the engine reaches its first decision.
LEMMA LoopInitInv == LoopInit => LoopInv
<1> SUFFICES ASSUME LoopInit PROVE LoopInv
  OBVIOUS
<1>1. IInv
  BY InitInv DEF LoopInit
<1>2. LoopTypeOK
  BY <1>1, DecisionsPositive DEF LoopInit, LoopTypeOK, IInv
<1>3. \A r \in Request : completion[r] = "unsubmitted"
  BY DEF LoopInit, Init
<1>4. active = NoRequest /\ input = NoRequest /\ appliedAt = [r \in Request |-> 0]
  BY DEF LoopInit, Init
<1> QED
  BY <1>1, <1>2, <1>3, <1>4, NullsAssumption
  DEF LoopInv, InputHeld, InputCurrent, UnreachedUntouched, ResultMeansApplied

\* Every step of callers, adapter and engine keeps the invariant.
LEMMA LoopInduction == LoopInv /\ [LoopNext]_<<vars, loopVars>> => LoopInv'
<1> SUFFICES ASSUME LoopInv, [LoopNext]_<<vars, loopVars>> PROVE LoopInv'
  OBVIOUS
<1>i. IInv /\ IInv'
  BY LoopSteps, Induction DEF LoopInv
<1>t. TypeOK /\ TypeOK' /\ LoopTypeOK
  BY <1>i DEF IInv, LoopInv
<1>n. NoRequest \notin Request /\ 0 \notin Decision /\ LastDecision \in Nat
      /\ Decision = 1 .. LastDecision
  BY NullsAssumption, DecisionsPositive, DecisionsAreNumbered
<1>u. /\ Refusal \subseteq Answer /\ "pending" \notin Refusal
      /\ "unsubmitted" \notin Refusal /\ "result" \notin Refusal
      /\ "error" \notin Refusal /\ "disposed" \notin Refusal
  BY DEF Refusal, Answer
<1>1. ASSUME NEW r \in Request, ClientSubmits(r) PROVE LoopInv'
  <2>1. PICK d \in Decision : Submit(r, d)
    BY <1>1, <1>n DEF ClientSubmits, LoopTypeOK, LoopInv
  <2>2. Queued' = Queued \cup {r} /\ UNCHANGED <<boundary, input, appliedAt>>
    BY <1>1, <1>t, <2>1, QueuedAfterSubmit DEF ClientSubmits, loopVars
  <2>3. /\ completion[r] = "unsubmitted"
        /\ completion' = [completion EXCEPT ![r] = "pending"]
        /\ expected' = [expected EXCEPT ![r] = d]
        /\ UNCHANGED <<active, faulted, disposed>>
    BY <2>1 DEF Submit
  <2>4. appliedAt[r] = 0 /\ input # r
    BY <2>3 DEF LoopInv, UnreachedUntouched, OutOfReach
  <2>5. LoopTypeOK'
    BY <1>t, <2>2 DEF LoopTypeOK
  <2>6. InputHeld' /\ InputCurrent'
    BY <1>t, <2>2, <2>3, <2>4 DEF LoopInv, InputHeld, InputCurrent, TypeOK, LoopTypeOK
  <2>7. UnreachedUntouched'
    BY <1>t, <2>2, <2>3, <2>4 DEF LoopInv, UnreachedUntouched, OutOfReach, TypeOK
  <2>8. ResultMeansApplied'
    BY <1>t, <2>2, <2>3, <2>4 DEF LoopInv, ResultMeansApplied, TypeOK
  <2> QED BY <1>i, <2>5, <2>6, <2>7, <2>8 DEF LoopInv
<1>2. ASSUME \/ \E r \in Request : ClientCancels(r)
             \/ \E t \in Thread : AdapterBinds(t)
             \/ UNCHANGED <<vars, loopVars>>
      PROVE  LoopInv'
  <2>1. UNCHANGED <<queue, active, faulted, disposed, expected, completion, loopVars>>
    BY <1>2 DEF ClientCancels, Cancel, AdapterBinds, InitializeTurnThread, vars, state
  <2> QED
    BY <1>i, <1>t, <2>1
    DEF LoopInv, LoopTypeOK, InputHeld, InputCurrent, UnreachedUntouched, OutOfReach,
        Queued, ResultMeansApplied, loopVars
<1>3. ASSUME NEW t \in Thread, AdapterOffers(t) PROVE LoopInv'
  <2>1. CASE TryBeginDrain(t, boundary)
    <3>1. /\ active = NoRequest /\ active' = NoRequest /\ queue' = <<>>
          /\ completion' = TrySet(Queued, TurnedAway)
          /\ UNCHANGED <<faulted, disposed, expected, loopVars>>
      BY <1>3, <2>1 DEF TryBeginDrain, AdapterOffers, loopVars
    <3>2. Queued' = {} /\ \A r \in Request : TurnedAway[r] \in Refusal
      BY <1>t, <3>1, EmptiedQueue, AnswersAreAnswers
    <3>3. \A x \in Request : completion'[x] =
            IF x \in Queued /\ completion[x] = "pending" THEN TurnedAway[x] ELSE completion[x]
      BY <1>t, <1>u, <3>1, <3>2, TrySetProperties
    <3>4. UnreachedUntouched'
      BY <3>1, <3>2, <3>3 DEF LoopInv, UnreachedUntouched, OutOfReach, loopVars
    <3>5. ResultMeansApplied'
      BY <1>u, <3>1, <3>2, <3>3 DEF LoopInv, ResultMeansApplied, loopVars
    <3> QED
      BY <1>i, <1>t, <3>1, <3>4, <3>5
      DEF LoopInv, LoopTypeOK, InputHeld, InputCurrent, loopVars
  <2>2. CASE \E n \in 1 .. Capacity : TryBeginDispatch(t, boundary, n)
    <3>1. PICK n \in 1 .. Capacity : TryBeginDispatch(t, boundary, n)
      BY <2>2
    <3> DEFINE S == Dequeued(n - 1)
               b == queue[n]
    <3>2. /\ n \in DOMAIN queue /\ b \in Request /\ b \in Queued
          /\ active = NoRequest /\ active' = b /\ queue' = Behind(n)
          /\ completion' = TrySet(S, TurnedAway)
          /\ expected[b] = boundary /\ ~faulted /\ ~disposed
          /\ UNCHANGED <<faulted, disposed, expected>>
      BY <1>t, <3>1 DEF TryBeginDispatch, Usable, Dispatchable, Queued, TypeOK
    <3>3. input' = b /\ UNCHANGED <<boundary, appliedAt>>
      BY <1>3, <1>n, <3>2 DEF AdapterOffers
    <3>4. Queued = S \cup {b} \cup Queued'
      BY <1>t, <3>2, QueuedAfterDispatch
    <3>5. b \notin Queued' /\ b \notin S /\ completion[b] = "pending"
      <4>1. b \notin Queued'
        BY <1>i, <3>2 DEF IInv, OnePlace
      <4>2. \A i, j \in DOMAIN queue : queue[i] = queue[j] => i = j
        BY <1>i DEF IInv, OnePlace
      <4>3. DOMAIN queue = 1 .. Len(queue) /\ Len(queue) \in Nat /\ n \in 1 .. Len(queue)
        BY <1>t, <3>2 DEF TypeOK
      <4>4. b \notin S
        BY <4>2, <4>3 DEF Dequeued
      <4>5. completion[b] = "pending"
        BY <1>i, <3>2 DEF IInv, NoLostWaiter, Outstanding
      <4> QED BY <4>1, <4>4, <4>5
    <3>6. \A x \in Request : completion'[x] =
            IF x \in S /\ completion[x] = "pending" THEN TurnedAway[x] ELSE completion[x]
      BY <1>t, <1>u, <3>2, TrySetProperties, AnswersAreAnswers
    <3>7. \A r \in Request : TurnedAway[r] \in Refusal
      BY AnswersAreAnswers
    <3>8. appliedAt[b] = 0 /\ input = NoRequest
      BY <3>2 DEF LoopInv, UnreachedUntouched, OutOfReach, InputHeld
    <3> HIDE DEF S, b
    <3>9. UnreachedUntouched'
      <4> SUFFICES ASSUME NEW r \in Request, OutOfReach(r)'
                   PROVE  appliedAt[r] = 0 /\ b # r
        BY <3>3 DEF UnreachedUntouched
      <4>1. completion'[b] = "pending"
        BY <3>2, <3>5, <3>6
      <4>2. b # r
        BY <1>u, <3>5, <4>1 DEF OutOfReach
      <4>3. OutOfReach(r)
        BY <3>4, <3>6 DEF OutOfReach
      <4> QED BY <4>2, <4>3 DEF LoopInv, UnreachedUntouched
    <3>10. ResultMeansApplied'
      BY <1>u, <3>2, <3>3, <3>6, <3>7 DEF LoopInv, ResultMeansApplied
    <3>11. InputHeld' /\ InputCurrent'
      BY <1>n, <3>2, <3>3, <3>8 DEF InputHeld, InputCurrent
    <3>12. LoopTypeOK'
      BY <1>t, <3>2, <3>3 DEF LoopTypeOK
    <3> QED BY <1>i, <3>9, <3>10, <3>11, <3>12 DEF LoopInv
  <2> QED BY <1>3, <2>1, <2>2 DEF AdapterOffers, TryBegin
<1>4. ASSUME EngineExecutes PROVE LoopInv'
  <2>1. /\ input \in Request /\ input' = NoRequest
        /\ boundary < LastDecision /\ boundary' = boundary + 1
        /\ appliedAt' = [appliedAt EXCEPT ![input] = boundary]
        /\ UNCHANGED <<queue, active, faulted, disposed, expected, completion>>
    BY <1>4, <1>t DEF EngineExecutes, LoopTypeOK, vars, state
  <2>2. expected[input] = boundary /\ ~OutOfReach(input) /\ boundary # 0
    BY <1>n, <1>t, <2>1 DEF LoopInv, InputCurrent, UnreachedUntouched, LoopTypeOK
  <2>3. boundary' \in Decision /\ boundary \in 0 .. LastDecision
    BY <1>n, <1>t, <2>1 DEF LoopTypeOK
  <2>4. LoopTypeOK'
    BY <1>t, <2>1, <2>3 DEF LoopTypeOK
  <2>5. \A x \in Request : appliedAt'[x] = IF x = input THEN boundary ELSE appliedAt[x]
    BY <1>t, <2>1 DEF LoopTypeOK
  <2>6. InputHeld' /\ InputCurrent'
    BY <1>t, <2>1, <2>2, <2>5 DEF LoopInv, InputHeld, InputCurrent, TypeOK
  <2>7. UnreachedUntouched'
    <3>1. \A r \in Request : OutOfReach(r)' => OutOfReach(r)
      BY <2>1 DEF OutOfReach, Queued
    <3> QED BY <1>n, <2>1, <2>2, <2>5, <3>1 DEF LoopInv, UnreachedUntouched
  <2>8. ResultMeansApplied'
    BY <2>1, <2>2, <2>5 DEF LoopInv, ResultMeansApplied
  <2> QED BY <1>i, <2>4, <2>6, <2>7, <2>8 DEF LoopInv
<1>5. ASSUME NEW t \in Thread, AdapterReports(t) PROVE LoopInv'
  <2>1. PICK r \in Request : Complete(t, r, boundary)
    BY <1>5 DEF AdapterReports
  <2>2. /\ active = r /\ active' = NoRequest /\ boundary # expected[r]
        /\ completion' = TrySet({r}, Everyone("result"))
        /\ UNCHANGED <<queue, faulted, disposed, expected, boundary, input, appliedAt>>
    BY <1>5, <2>1 DEF Complete, IsActive, NewBoundary, AdapterReports, loopVars
  <2>3. \A x \in Request : completion'[x] =
          IF x = r /\ completion[x] = "pending" THEN "result" ELSE completion[x]
    BY <1>t, <2>2, TrySetProperties, AnswersAreAnswers
  <2>4. input = NoRequest /\ appliedAt[r] # 0
    BY <1>n, <2>2 DEF LoopInv, InputHeld, InputCurrent
  <2>5. UnreachedUntouched'
    <3>1. \A x \in Request : OutOfReach(x)' => OutOfReach(x)
      BY <1>u, <2>2, <2>3 DEF OutOfReach, Queued
    <3> QED BY <2>2, <3>1 DEF LoopInv, UnreachedUntouched
  <2>6. ResultMeansApplied'
    BY <2>2, <2>3, <2>4 DEF LoopInv, ResultMeansApplied
  <2> QED
    BY <1>i, <1>t, <2>2, <2>4, <2>5, <2>6
    DEF LoopInv, LoopTypeOK, InputHeld, InputCurrent
<1>6. ASSUME NEW t \in Thread, AdapterFails(t) PROVE LoopInv'
  <2>1. PICK r \in Request : FailAfterDispatch(t, r)
    BY <1>6 DEF AdapterFails
  <2>2. /\ active = r /\ active' = NoRequest /\ faulted' /\ queue' = <<>>
        /\ completion' = TrySet(Outstanding, FaultAnswers(r))
        /\ UNCHANGED <<disposed, expected, boundary, input, appliedAt>>
    BY <1>6, <2>1 DEF FailAfterDispatch, IsActive, QueueOnFault, AdapterFails, loopVars
  <2>3. Queued' = {} /\ r \notin Queued
    BY <1>i, <1>t, <2>2, EmptiedQueue DEF IInv, OnePlace
  <2>4. \A x \in Request : completion'[x] =
          IF x \in Outstanding /\ completion[x] = "pending"
          THEN (IF x = r THEN "error" ELSE "worker_faulted") ELSE completion[x]
    BY <1>t, <2>2, TrySetProperties, AnswersAreAnswers
  <2>5. UnreachedUntouched'
    <3>1. \A x \in Request : OutOfReach(x)' => OutOfReach(x)
      BY <1>u, <2>2, <2>3, <2>4 DEF OutOfReach, Outstanding
    <3> QED BY <2>2, <3>1 DEF LoopInv, UnreachedUntouched
  <2>6. ResultMeansApplied'
    BY <2>2, <2>4 DEF LoopInv, ResultMeansApplied
  <2> QED
    BY <1>i, <1>t, <2>2, <2>5, <2>6
    DEF LoopInv, LoopTypeOK, InputHeld, InputCurrent
<1>7. ASSUME NEW t \in Thread, AdapterReconciles(t) PROVE LoopInv'
  <2>1. /\ active = NoRequest /\ active' = NoRequest /\ input' = NoRequest
        /\ UNCHANGED <<queue, disposed, expected, completion, boundary, appliedAt>>
    BY <1>7 DEF AdapterReconciles, Reconcile
  <2>2. UnreachedUntouched'
    BY <1>n, <2>1 DEF LoopInv, UnreachedUntouched, OutOfReach, Queued
  <2>3. ResultMeansApplied'
    BY <2>1 DEF LoopInv, ResultMeansApplied
  <2> QED
    BY <1>i, <1>t, <2>1, <2>2, <2>3 DEF LoopInv, LoopTypeOK, InputHeld, InputCurrent
<1>8. ASSUME HostDisposes PROVE LoopInv'
  <2>1. /\ active' = NoRequest /\ disposed' /\ queue' = <<>>
        /\ completion' = TrySet(Outstanding, Everyone("disposed"))
        /\ UNCHANGED <<faulted, expected, boundary, input, appliedAt>>
    BY <1>8 DEF HostDisposes, Dispose, AnsweredOnDispose, loopVars
  <2>2. Queued' = {}
    BY <1>t, <2>1, EmptiedQueue
  <2>3. \A x \in Request : completion'[x] =
          IF x \in Outstanding /\ completion[x] = "pending" THEN "disposed" ELSE completion[x]
    BY <1>t, <2>1, TrySetProperties, AnswersAreAnswers
  <2>4. UnreachedUntouched'
    <3>1. \A x \in Request : OutOfReach(x)' => OutOfReach(x)
      BY <1>u, <2>2, <2>3 DEF OutOfReach
    <3> QED BY <2>1, <3>1 DEF LoopInv, UnreachedUntouched
  <2>5. ResultMeansApplied'
    BY <2>1, <2>3 DEF LoopInv, ResultMeansApplied
  <2> QED
    BY <1>i, <1>t, <2>1, <2>4, <2>5
    DEF LoopInv, LoopTypeOK, InputHeld, InputCurrent
<1> QED
  BY <1>1, <1>2, <1>3, <1>4, <1>5, <1>6, <1>7, <1>8 DEF LoopNext

\* The inductive invariant of the composition holds throughout.
THEOREM LoopInvariance == LoopSpec => []LoopInv
BY LoopInitInv, LoopInduction, PTL DEF LoopSpec

\* Every variable of queue and engine keeps its type.
THEOREM LoopTypeCorrect == LoopSpec => []LoopTypeOK
<1>1. LoopInv => LoopTypeOK
  BY DEF LoopInv
<1> QED BY <1>1, LoopInvariance, PTL

\* A caller told that its request was refused can submit it again: its input
\* neither has reached the game nor ever will, whatever the adapter does.
THEOREM RefusalIsSafe == LoopSpec => []RefusedNeverApplied
<1>1. LoopInv => RefusedNeverApplied
  BY DEF LoopInv, UnreachedUntouched, OutOfReach, RefusedNeverApplied
<1> QED BY <1>1, LoopInvariance, PTL

\* CompleteOnTurnThread's comparison of decisions is enough to refuse a frame
\* reported before the input was executed, and TryBeginOnTurnThread's to keep
\* an input from any decision but the one it was chosen for.
THEOREM FramesAreEarned == LoopSpec => []ResultMeansApplied
<1>1. LoopInv => ResultMeansApplied
  BY DEF LoopInv
<1> QED BY <1>1, LoopInvariance, PTL

\* The queue inside the composition is the queue proved about on its own, so
\* it keeps its promise of DecisionHandoff there too.
THEOREM LoopImplementsQueue == LoopSpec => Spec
<1>1. LoopInit => Init
  BY DEF LoopInit
<1>2. LoopInv /\ [LoopNext]_<<vars, loopVars>> => [Next]_vars
  BY LoopSteps DEF LoopInv
<1> QED BY <1>1, <1>2, LoopInvariance, PTL DEF LoopSpec, Spec
=============================================================================
