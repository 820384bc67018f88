------------------------- MODULE MockBackendProofs -------------------------
(***************************************************************************)
(* Proofs about MockBackend for every set of seeds and streams and every   *)
(* limit on decisions and snapshots.                                       *)
(***************************************************************************)
EXTENDS MockBackend, FiniteSetTheorems, TLAPS

WorldType == [x : Int, y : Int, hp : Int, turns : Int, decisions : Int,
              gateOpen : BOOLEAN, pendingGate : BOOLEAN,
              outcome : {"ongoing", "death", "success", "time_limit"},
              messages : {<<>>, <<"damage">>}]

BesideGate == {<<2, 2>>, <<4, 2>>, <<3, 1>>, <<3, 3>>}

\* The player is on the floor, and the question is open beside the gate only.
OnFloor(s) == /\ s.x \in 1 .. Width - 2 /\ s.y \in 1 .. Height - 2
              /\ s.pendingGate => <<s.x, s.y>> \in BesideGate
              /\ <<s.x, s.y>> = Gate => s.gateOpen

Counted(s) == /\ s.hp \in 0 .. 6
              /\ 0 <= s.turns /\ s.turns <= s.decisions /\ s.decisions <= MaxDecisions

\* The outcome stored is the one the state deserves.
Truthful(s) ==
    /\ s.outcome = "death" <=> s.hp <= 0
    /\ s.outcome = "success" <=> s.hp > 0 /\ <<s.x, s.y>> = Exit
    /\ s.outcome = "time_limit" <=>
          s.hp > 0 /\ <<s.x, s.y>> # Exit /\ s.decisions >= MaxDecisions

\* What the last call gave is what a step to this world earns, and nothing
\* otherwise.
Earned(l, s) ==
    /\ l.reward = 1 <=> l.call = "step" /\ s.hp > 0 /\ <<s.x, s.y>> = Exit
    /\ l.reward = -1 <=> l.call = "step" /\ s.hp <= 0

LastType == [call : {"none", "reset", "step", "restore"}, reward : {-1, 0, 1}]

GoodWorld(s) == s \in WorldType /\ OnFloor(s) /\ Counted(s) /\ Truthful(s)

RngType == [seed : Seed, drawn : Nat]

MockInv ==
    /\ Cardinality(state) <= 1
    /\ \A s \in state : GoodWorld(s) /\ rng.drawn = s.turns
    /\ \A k \in snapshots : /\ GoodWorld(k.state) /\ k.rng \in RngType
                            /\ k.rng.drawn = k.state.turns /\ k.rng.seed = rng.seed
    /\ rng \in RngType
    /\ episode \in Nat /\ generation \in Nat /\ episode <= generation
    /\ closed \in BOOLEAN
    /\ last \in LastType /\ \A s \in state : Earned(last, s)

-----------------------------------------------------------------------------
(* One step of the world.                                                  *)

\* What an action is, in a world that is asked to take it.
LEMMA CandidateCases ==
    ASSUME NEW s, NEW a \in Candidates(s)
    PROVE  /\ s.outcome = "ongoing"
           /\ \/ s.pendingGate /\ (a = [kind |-> "open"] \/ a = [kind |-> "cancel"])
              \/ ~s.pendingGate /\ a = [kind |-> "wait"]
              \/ ~s.pendingGate /\ \E d \in Direction :
                    a = [kind |-> "move", by |-> d] /\ ~Wall(s.x + d[1], s.y + d[2])
<1>1. CASE s.outcome # "ongoing"
  BY <1>1 DEF Candidates, Phase
<1>2. CASE s.outcome = "ongoing" /\ s.pendingGate
  BY <1>2 DEF Candidates, Phase
<1>3. CASE s.outcome = "ongoing" /\ ~s.pendingGate
  BY <1>3 DEF Candidates, Phase
<1> QED BY <1>1, <1>2, <1>3

\* Setting the place of a world sets nothing else.
LEMMA Placing ==
    ASSUME NEW s \in WorldType, NEW x \in Int, NEW y \in Int
    PROVE  /\ At(s, x, y) \in WorldType
           /\ At(s, x, y).x = x /\ At(s, x, y).y = y
           /\ At(s, x, y).pendingGate = s.pendingGate
           /\ At(s, x, y).gateOpen = s.gateOpen
           /\ At(s, x, y).hp = s.hp /\ At(s, x, y).turns = s.turns
           /\ At(s, x, y).decisions = s.decisions
<1> DEFINE r == [s EXCEPT !.x = x]
           w == [r EXCEPT !.y = y]
<1>1. /\ r \in WorldType /\ r.x = x
      /\ r.pendingGate = s.pendingGate /\ r.gateOpen = s.gateOpen
      /\ r.hp = s.hp /\ r.turns = s.turns /\ r.decisions = s.decisions
  BY DEF WorldType
<1>2. At(s, x, y) = w
  BY DEF At, WorldType
<1> HIDE DEF r
<1>3. /\ w \in WorldType /\ w.x = r.x /\ w.y = y
      /\ w.pendingGate = r.pendingGate /\ w.gateOpen = r.gateOpen
      /\ w.hp = r.hp /\ w.turns = r.turns /\ w.decisions = r.decisions
  BY <1>1 DEF WorldType
<1> QED BY <1>1, <1>2, <1>3

\* The fields a movement changes, and those it does not.
Moves(s, m) ==
    /\ m \in WorldType /\ OnFloor(m)
    /\ m.hp = s.hp /\ m.turns = s.turns /\ m.decisions = s.decisions

\* Moving keeps the player on the floor and asks beside the gate only.
LEMMA MovementKeepsFloor ==
    ASSUME NEW s, GoodWorld(s), NEW a \in Candidates(s)
    PROVE  Moves(s, MovedTo(s, a)) /\ Elapsed(s, a) \in {0, 1}
<1> USE DEF GoodWorld, WorldType
<1>e. Elapsed(s, a) \in {0, 1}
  BY DEF Elapsed
<1>1. CASE a = [kind |-> "cancel"]
  <2>1. MovedTo(s, a) = [s EXCEPT !.pendingGate = FALSE]
    BY <1>1 DEF MovedTo
  <2> QED BY <1>e, <2>1 DEF Moves, OnFloor
<1>2. CASE a = [kind |-> "open"]
  <2>1. MovedTo(s, a) = At([s EXCEPT !.pendingGate = FALSE, !.gateOpen = TRUE], 3, 2)
    BY <1>2 DEF MovedTo, Gate
  <2> DEFINE o == [[s EXCEPT !.pendingGate = FALSE] EXCEPT !.gateOpen = TRUE]
  <2>2. [s EXCEPT !.pendingGate = FALSE, !.gateOpen = TRUE] = o
    OBVIOUS
  <2>3. /\ o \in WorldType /\ ~o.pendingGate /\ o.gateOpen /\ o.hp = s.hp
        /\ o.turns = s.turns /\ o.decisions = s.decisions
    OBVIOUS
  <2> HIDE DEF o
  <2>4. MovedTo(s, a) = At(o, 3, 2)
    BY <2>1, <2>2
  <2> QED BY <1>e, <2>3, <2>4, Placing DEF Moves, OnFloor, Width, Height
<1>3. CASE a = [kind |-> "wait"]
  <2>1. MovedTo(s, a) = s
    BY <1>3 DEF MovedTo
  <2> QED BY <1>e, <2>1 DEF Moves
<1>4. ASSUME NEW d \in Direction, a = [kind |-> "move", by |-> d],
             ~Wall(s.x + d[1], s.y + d[2]), ~s.pendingGate
      PROVE  Moves(s, MovedTo(s, a))
  <2>1. a.kind = "move" /\ a.by = d
    BY <1>4
  <2> DEFINE x == s.x + d[1]
             y == s.y + d[2]
  <2>2. MovedTo(s, a) = IF <<x, y>> = Gate /\ ~s.gateOpen
                        THEN [s EXCEPT !.pendingGate = TRUE] ELSE At(s, x, y)
    BY <2>1 DEF MovedTo
  <2>3. \/ d[1] = 0 /\ d[2] = -1
        \/ d[1] = 1 /\ d[2] = 0
        \/ d[1] = 0 /\ d[2] = 1
        \/ d[1] = -1 /\ d[2] = 0
    BY DEF Direction
  <2>4. x \in 1 .. Width - 2 /\ y \in 1 .. Height - 2 /\ s.x \in Int /\ s.y \in Int
    BY <1>4, <2>3, SMTT(20) DEF OnFloor, Wall, Width, Height
  <2>5. CASE <<x, y>> = Gate /\ ~s.gateOpen
    <3>1. x = 3 /\ y = 2
      BY <2>5 DEF Gate
    <3>2. <<s.x, s.y>> \in BesideGate
      <4>1. \/ s.x = 3 /\ s.y = 3
            \/ s.x = 2 /\ s.y = 2
            \/ s.x = 3 /\ s.y = 1
            \/ s.x = 4 /\ s.y = 2
        BY <2>3, <2>4, <3>1
      <4> QED BY <4>1 DEF BesideGate
    <3>3. MovedTo(s, a) = [s EXCEPT !.pendingGate = TRUE]
      BY <2>2, <2>5
    <3> QED BY <3>2, <3>3 DEF Moves, OnFloor
  <2>6. CASE ~(<<x, y>> = Gate /\ ~s.gateOpen)
    <3>1. MovedTo(s, a) = At(s, x, y)
      BY <2>2, <2>6
    <3> HIDE DEF x, y
    <3>2. /\ At(s, x, y) \in WorldType
          /\ At(s, x, y).x = x /\ At(s, x, y).y = y
          /\ At(s, x, y).pendingGate = s.pendingGate /\ At(s, x, y).gateOpen = s.gateOpen
          /\ At(s, x, y).hp = s.hp /\ At(s, x, y).turns = s.turns
          /\ At(s, x, y).decisions = s.decisions
      <4>1. x \in Int /\ y \in Int /\ s \in WorldType
        BY <2>4 DEF Width, Height
      <4> QED BY <4>1, Placing
    <3> QED BY <1>4, <2>4, <2>6, <3>1, <3>2 DEF Moves, OnFloor
  <2> QED BY <2>5, <2>6
<1> QED BY <1>e, <1>1, <1>2, <1>3, <1>4, CandidateCases

\* A step takes a good world to a good one and counts its turn.
LEMMA StepKeepsWorld ==
    ASSUME NEW s, GoodWorld(s), NEW a \in Candidates(s), NEW noise \in 0 .. 2
    PROVE  /\ GoodWorld(After(s, a, noise))
           /\ After(s, a, noise).turns = s.turns + Elapsed(s, a)
<1> DEFINE e == Elapsed(s, a)
           m == MovedTo(s, a)
           h == Hurt(m, e, noise)
           t == Told(h, e)
           c == [t EXCEPT !.turns = @ + e, !.decisions = @ + 1]
<1>0. MaxDecisions \in Nat \ {0}
  BY LimitsArePositive
<1>1. /\ m \in WorldType /\ OnFloor(m) /\ e \in {0, 1}
      /\ m.hp = s.hp /\ m.turns = s.turns /\ m.decisions = s.decisions
  BY MovementKeepsFloor DEF Moves
<1>2. /\ s \in WorldType /\ Counted(s) /\ s.decisions < MaxDecisions
  <2>1. s.outcome = "ongoing" /\ s \in WorldType /\ Counted(s) /\ Truthful(s)
    BY CandidateCases DEF GoodWorld
  <2>2. s.hp \in 0 .. 6 /\ s.decisions \in Int /\ MaxDecisions \in Int
    BY <1>0, <2>1 DEF Counted, WorldType
  <2>3. ~(s.hp <= 0) /\ ~(s.hp > 0 /\ <<s.x, s.y>> = Exit)
    BY <2>1 DEF Truthful
  <2>4. ~(s.decisions >= MaxDecisions)
    BY <2>1, <2>2, <2>3 DEF Truthful
  <2> QED BY <2>1, <2>2, <2>4
<1>a. After(s, a, noise) = Judged(c)
  BY DEF After
<1> HIDE DEF e, m
<1>3. /\ h \in WorldType /\ h.hp \in 0 .. 6
      /\ h.x = m.x /\ h.y = m.y /\ h.turns = m.turns /\ h.decisions = m.decisions
      /\ h.pendingGate = m.pendingGate /\ h.gateOpen = m.gateOpen
  BY <1>1, <1>2, SMTT(20) DEF Hurt, WorldType, Counted
<1> HIDE DEF h
<1>4. /\ t \in WorldType /\ t.hp \in 0 .. 6
      /\ t.x = m.x /\ t.y = m.y /\ t.turns = m.turns /\ t.decisions = m.decisions
      /\ t.pendingGate = m.pendingGate /\ t.gateOpen = m.gateOpen
  BY <1>3 DEF Told, WorldType
<1> HIDE DEF t
<1> DEFINE u == [t EXCEPT !.turns = @ + e]
           v == [u EXCEPT !.decisions = @ + 1]
<1>b. /\ u \in WorldType /\ u.hp = t.hp /\ u.x = t.x /\ u.y = t.y
      /\ u.turns = t.turns + e /\ u.decisions = t.decisions
      /\ u.pendingGate = t.pendingGate /\ u.gateOpen = t.gateOpen
  BY <1>1, <1>4 DEF WorldType
<1>d. c = v
  BY <1>4 DEF WorldType
<1> HIDE DEF c, u
<1>e. /\ v \in WorldType /\ v.hp = u.hp /\ v.x = u.x /\ v.y = u.y
      /\ v.turns = u.turns /\ v.decisions = u.decisions + 1
      /\ v.pendingGate = u.pendingGate /\ v.gateOpen = u.gateOpen
  BY <1>b DEF WorldType
<1> HIDE DEF v
<1>5. /\ c \in WorldType /\ c.hp \in 0 .. 6
      /\ c.x = m.x /\ c.y = m.y
      /\ c.turns = m.turns + e /\ c.decisions = m.decisions + 1
      /\ c.pendingGate = m.pendingGate /\ c.gateOpen = m.gateOpen
  BY <1>4, <1>b, <1>d, <1>e
<1>6. /\ Judged(c) \in WorldType
      /\ Judged(c).outcome = Outcome(c)
      /\ Judged(c).x = c.x /\ Judged(c).y = c.y /\ Judged(c).hp = c.hp
      /\ Judged(c).turns = c.turns /\ Judged(c).decisions = c.decisions
      /\ Judged(c).pendingGate = c.pendingGate /\ Judged(c).gateOpen = c.gateOpen
  <2>1. Outcome(c) \in {"ongoing", "death", "success", "time_limit"}
    BY DEF Outcome
  <2> QED BY <1>5, <2>1 DEF Judged, WorldType
<1> DEFINE j == Judged(c)
<1> HIDE DEF j
<1>7. OnFloor(j)
  BY <1>1, <1>5, <1>6 DEF OnFloor, j
<1>8. Counted(j)
  <2>1. s.turns \in Int /\ s.decisions \in Int
    BY <1>2 DEF WorldType
  <2> QED BY <1>0, <1>1, <1>2, <1>5, <1>6, <2>1 DEF Counted, j
<1>9. Truthful(j)
  <2>1. j.outcome = Outcome(c) /\ j.hp = c.hp /\ j.x = c.x /\ j.y = c.y
        /\ j.decisions = c.decisions /\ c.hp \in 0 .. 6 /\ c.decisions \in Int
    BY <1>5, <1>6 DEF j, WorldType
  <2>2. CASE c.hp = 0
    <3>1. j.outcome = "death" /\ j.hp = 0
      BY <2>1, <2>2 DEF Outcome
    <3> QED BY <3>1 DEF Truthful
  <2>3. CASE c.hp # 0 /\ <<c.x, c.y>> = Exit
    <3>1. j.outcome = "success" /\ j.hp > 0 /\ <<j.x, j.y>> = Exit
      BY <2>1, <2>3 DEF Outcome
    <3> QED BY <2>1, <3>1 DEF Truthful
  <2>4. CASE c.hp # 0 /\ <<c.x, c.y>> # Exit
    <3>1. j.outcome = IF j.decisions >= MaxDecisions THEN "time_limit" ELSE "ongoing"
      BY <2>1, <2>4 DEF Outcome
    <3>2. j.hp > 0 /\ ~(j.hp <= 0) /\ <<j.x, j.y>> # Exit
      BY <2>1, <2>4
    <3> QED BY <3>1, <3>2 DEF Truthful
  <2> QED BY <2>2, <2>3, <2>4
<1>10. j.turns = s.turns + e /\ j \in WorldType
  BY <1>1, <1>5, <1>6 DEF j
<1> QED BY <1>a, <1>7, <1>8, <1>9, <1>10 DEF GoodWorld, j, e

\* A step earns what the world it leads to is worth, a restore nothing.
LEMMA StepEarns ==
    ASSUME NEW s, GoodWorld(s)
    PROVE  /\ Earned([call |-> "step", reward |-> Reward(s)], s)
           /\ [call |-> "step", reward |-> Reward(s)] \in LastType
<1>1. Reward(s) \in {-1, 0, 1} /\ (Reward(s) = 1 <=> s.outcome = "success")
      /\ (Reward(s) = -1 <=> s.outcome = "death")
  BY DEF Reward
<1>2. /\ s.outcome = "death" <=> s.hp <= 0
      /\ s.outcome = "success" <=> s.hp > 0 /\ <<s.x, s.y>> = Exit
  BY DEF GoodWorld, Truthful
<1> PICK l : l = [call |-> "step", reward |-> Reward(s)]
  OBVIOUS
<1>3. l.call = "step" /\ l.reward = Reward(s) /\ l \in LastType
  BY <1>1 DEF LastType
<1> QED BY <1>1, <1>2, <1>3 DEF Earned

LEMMA OthersEarnNothing ==
    ASSUME NEW s, NEW call \in {"none", "reset", "restore"}
    PROVE  /\ Earned([call |-> call, reward |-> 0], s)
           /\ [call |-> call, reward |-> 0] \in LastType
BY DEF Earned, LastType

\* Every world begins well.
LEMMA StartIsGood == GoodWorld(StartState) /\ StartState.turns = 0
BY LimitsArePositive
DEF StartState, GoodWorld, WorldType, OnFloor, Counted, Truthful, Width, Height,
    Gate, Exit

-----------------------------------------------------------------------------
\* No world before the first reset.
LEMMA MockInitInv == MockInit => MockInv
<1> SUFFICES ASSUME MockInit PROVE MockInv
  OBVIOUS
<1>1. rng \in RngType
  <2>1. (CHOOSE s \in Seed : TRUE) \in Seed
    BY SeedsExist
  <2> QED BY <2>1 DEF MockInit, RngType
<1>2. Cardinality({}) = 0
  BY FS_EmptySet
<1>3. /\ state = {} /\ snapshots = {} /\ generation = 0 /\ episode = 0 /\ closed = FALSE
      /\ last = [call |-> "none", reward |-> 0]
  BY DEF MockInit
<1>6. last \in LastType
  BY <1>3, OthersEarnNothing
<1>4. Cardinality(state) <= 1
  BY <1>2, <1>3
<1>5. episode \in Nat /\ generation \in Nat /\ episode <= generation
  BY <1>3
<1> QED BY <1>1, <1>3, <1>4, <1>5, <1>6, Zenon DEF MockInv

\* Every operation of the backend keeps the invariant.
LEMMA MockInduction == MockInv /\ [MockNext]_mockVars => MockInv'
<1> SUFFICES ASSUME MockInv, [MockNext]_mockVars PROVE MockInv'
  OBVIOUS
<1>c. \A w : Cardinality({w}) <= 1
  <2>1. \A w : Cardinality({w}) = 1
    BY FS_Singleton
  <2> QED BY <2>1
<1>0. Cardinality({}) <= 1
  <2>1. Cardinality({}) = 0
    BY FS_EmptySet
  <2> QED BY <2>1
<1>1. ASSUME NEW seed \in Seed, Reset(seed) PROVE MockInv'
  <2>1. /\ rng' = [seed |-> seed, drawn |-> 0] /\ state' = {StartState}
        /\ generation' = generation + 1 /\ episode' = generation'
        /\ snapshots' = {} /\ closed' = closed
        /\ last' = [call |-> "reset", reward |-> 0]
    BY <1>1 DEF Reset, Returned
  <2>6. last' \in LastType /\ \A s \in state' : Earned(last', s)
    BY <2>1, OthersEarnNothing
  <2>2. rng' \in RngType /\ rng'.drawn = 0
    BY <2>1 DEF RngType
  <2>3. \A s \in state' : GoodWorld(s) /\ rng'.drawn = s.turns
    BY <2>1, <2>2, StartIsGood
  <2>4. Cardinality(state') <= 1
    BY <1>c, <2>1
  <2>5. episode' \in Nat /\ generation' \in Nat /\ episode' <= generation'
    BY <2>1 DEF MockInv
  <2> QED BY <2>1, <2>2, <2>3, <2>4, <2>5, <2>6 DEF MockInv
<1>2. ASSUME NEW a \in Actions, Step(a) PROVE MockInv'
  <2>1. PICK s \in state :
          /\ a \in Candidates(s)
          /\ rng' = [rng EXCEPT !.drawn = @ + Elapsed(s, a)]
          /\ state' = {After(s, a, Noise[rng.seed][rng.drawn])}
          /\ last' = [call |-> "step",
                      reward |-> Reward(After(s, a, Noise[rng.seed][rng.drawn]))]
    BY <1>2 DEF Step, Returned
  <2>2. generation' = generation + 1 /\ UNCHANGED <<episode, snapshots, closed>>
    BY <1>2 DEF Step
  <2>3. GoodWorld(s) /\ rng.drawn = s.turns /\ rng \in RngType
    BY DEF MockInv
  <2>4. Noise[rng.seed][rng.drawn] \in 0 .. 2
    <3>1. rng.seed \in Seed /\ rng.drawn \in 0 .. MaxDecisions
      <4>1. s.turns \in Int /\ s.decisions \in Int /\ MaxDecisions \in Int
        BY <2>3, LimitsArePositive DEF GoodWorld, WorldType
      <4> QED BY <2>3, <4>1 DEF GoodWorld, Counted, RngType
    <3> QED BY <3>1, NoiseIsRandrange3
  <2> DEFINE w == After(s, a, Noise[rng.seed][rng.drawn])
  <2>5. GoodWorld(w) /\ w.turns = s.turns + Elapsed(s, a)
    BY <2>1, <2>3, <2>4, StepKeepsWorld
  <2>6. Elapsed(s, a) \in {0, 1}
    BY <2>1, <2>3, MovementKeepsFloor
  <2>7. rng' \in RngType /\ rng'.drawn = w.turns /\ rng'.seed = rng.seed
    BY <2>1, <2>3, <2>5, <2>6 DEF RngType
  <2>8. state' = {w} /\ last' = [call |-> "step", reward |-> Reward(w)]
    BY <2>1
  <2> HIDE DEF w
  <2>9. Cardinality(state') <= 1
    BY <1>c, <2>8
  <2>10. \A x \in state' : GoodWorld(x) /\ rng'.drawn = x.turns
    BY <2>5, <2>7, <2>8
  <2>11. episode' \in Nat /\ generation' \in Nat /\ episode' <= generation'
    BY <2>2 DEF MockInv
  <2>12. last' \in LastType /\ \A x \in state' : Earned(last', x)
    <3>1. Earned(last', w) /\ last' \in LastType
      BY <2>5, <2>8, StepEarns
    <3> QED BY <2>8, <3>1
  <2> QED BY <2>2, <2>7, <2>9, <2>10, <2>11, <2>12 DEF MockInv
<1>3. CASE Snapshot
  <2>1. PICK s \in state, h \in 1 .. MaxSnapshots : snapshots' = snapshots \cup {Saved(s, h)}
    BY <1>3 DEF Snapshot
  <2>2. UNCHANGED <<state, rng, generation, episode, closed, last>>
    BY <1>3 DEF Snapshot
  <2>3. /\ Saved(s, h).state = s /\ Saved(s, h).rng = rng
    BY DEF Saved
  <2>4. GoodWorld(s) /\ rng \in RngType /\ rng.drawn = s.turns
    BY DEF MockInv
  <2> QED BY <2>1, <2>2, <2>3, <2>4 DEF MockInv
<1>4. ASSUME NEW k \in snapshots, Restore(k) PROVE MockInv'
  <2>1. /\ state' = {k.state} /\ rng' = k.rng /\ generation' = generation + 1
        /\ UNCHANGED <<episode, snapshots, closed>>
        /\ last' = [call |-> "restore", reward |-> 0]
    BY <1>4 DEF Restore, Returned
  <2>2. /\ GoodWorld(k.state) /\ k.rng \in RngType
        /\ k.rng.drawn = k.state.turns /\ k.rng.seed = rng.seed
    BY DEF MockInv
  <2>3. Cardinality(state') <= 1
    BY <1>c, <2>1
  <2>4. \A x \in state' : GoodWorld(x) /\ rng'.drawn = x.turns
    BY <2>1, <2>2
  <2>5. episode' \in Nat /\ generation' \in Nat /\ episode' <= generation'
    BY <2>1 DEF MockInv
  <2>6. last' \in LastType /\ \A x \in state' : Earned(last', x)
    BY <2>1, OthersEarnNothing
  <2> QED BY <2>1, <2>2, <2>3, <2>4, <2>5, <2>6 DEF MockInv
<1>5. ASSUME NEW k \in snapshots, Release(k) PROVE MockInv'
  BY <1>5 DEF Release, MockInv
<1>6. CASE Close
  BY <1>0, <1>6 DEF Close, MockInv
<1>7. CASE UNCHANGED mockVars
  BY <1>7 DEF mockVars, MockInv
<1> QED BY <1>1, <1>2, <1>3, <1>4, <1>5, <1>6, <1>7 DEF MockNext

\* The inductive invariant holds throughout.
THEOREM MockInvariance == MockSpec => []MockInv
BY MockInitInv, MockInduction, PTL DEF MockSpec

\* Types, and the player's place: on the floor, on the gate only once it is
\* open, and asked beside it only; however short the limit, turns never exceed
\* the decisions and these never the limit.
THEOREM MockTypeCorrect == MockSpec => []MockTypeOK
<1>1. MockInv => MockTypeOK
  <2> SUFFICES ASSUME MockInv PROVE MockTypeOK
    OBVIOUS
  <2>1. \A s \in Worlds : GoodWorld(s)
    BY DEF MockInv, Worlds
  <2>2. rng.seed \in Seed /\ rng.drawn \in Nat
    BY DEF MockInv, RngType
  <2>3. \A s \in Worlds : s.gateOpen \in BOOLEAN /\ s.pendingGate \in BOOLEAN
    BY <2>1 DEF GoodWorld, WorldType
  <2> QED BY <2>1, <2>2, <2>3 DEF MockInv, MockTypeOK, LastType, GoodWorld, OnFloor, Counted, BesideGate
<1> QED BY <1>1, MockInvariance, PTL

\* A snapshot carries the hidden stream: whatever is restored, the draws to come
\* are those the same world had before.
THEOREM ReplaysAgree == MockSpec => []ReplayIsDeterministic
<1>1. MockInv => ReplayIsDeterministic
  BY DEF MockInv, ReplayIsDeterministic
<1> QED BY <1>1, MockInvariance, PTL

\* The outcome of every world, snapshots included, is the one its state deserves,
\* the time limit included, and the reward is that of the step that led there.
THEOREM OutcomesAreTrue == MockSpec => []OutcomeIsTrue
<1>1. MockInv => OutcomeIsTrue
  BY DEF MockInv, OutcomeIsTrue, Worlds, GoodWorld, Truthful, Earned
<1> QED BY <1>1, MockInvariance, PTL
-----------------------------------------------------------------------------
(* What is shown becomes a frame.                                          *)

\* An observation as a worker may report it: tiles are glyph numbers; who is
\* reported in it, and where, is anything.
Reported(o) ==
    /\ o.decision # None /\ o.turn \in Int /\ o.hp \in Int /\ o.maxHp \in Int
    /\ o.tiles \in Seq(Seq(Nat))
    /\ DOMAIN o.entities \subseteq Nat \ {0}
    /\ \A i \in DOMAIN o.entities : /\ o.entities[i].name \in Nat
                                    /\ o.entities[i].status \in Nat \cup {Null}

\* The zone is as wide as the tiles, up to its cap.
LEMMA ZoneSides ==
    ASSUME NEW o, Reported(o), ObservationOK(o)
    PROVE  /\ ZoneWidth(o) \in Nat /\ ZoneHeight(o) \in Nat
           /\ ZoneHeight(o) <= Len(o.tiles)
<1>1. Longest(o.tiles) \in Nat
  <2>1. CASE o.tiles = <<>>
    BY <2>1 DEF Longest
  <2>2. CASE o.tiles # <<>>
    <3> DEFINE lengths == {Len(o.tiles[i]) : i \in DOMAIN o.tiles}
    <3>1. 1 \in DOMAIN o.tiles /\ \A i \in DOMAIN o.tiles : Len(o.tiles[i]) \in Nat
      BY <2>2 DEF Reported
    <3>2. \A i \in DOMAIN o.tiles : Len(o.tiles[i]) = Len(o.tiles[1])
      BY <3>1 DEF ObservationOK
    <3>3. \E n \in lengths : \A i \in DOMAIN o.tiles : Len(o.tiles[i]) <= n
      BY <3>1, <3>2
    <3>4. Longest(o.tiles) \in lengths
      BY <2>2, <3>3 DEF Longest
    <3> QED BY <3>1, <3>4
  <2> QED BY <2>1, <2>2
<1>2. Len(o.tiles) \in Nat
  BY DEF Reported
<1> QED BY <1>1, <1>2, ZoneCapIsPositive DEF ZoneWidth, ZoneHeight, Least

\* A place is given only inside the zone, and then there is one.
LEMMA PlacedInside ==
    ASSUME NEW o, Reported(o), ObservationOK(o), NEW x, NEW y, Placed(o, x, y) # None
    PROVE  InsideZones(FromObservation(o), Placed(o, x, y))
<1> DEFINE p == <<"legacy-mock-zone", x, y>>
           z == [id |-> "legacy-mock-zone", width |-> ZoneWidth(o),
                 height |-> ZoneHeight(o),
                 cells |-> {[at |-> c, layers |-> {"glyph"}] : c \in CellsOf(o)}]
<1>1. x \in 0 .. ZoneWidth(o) - 1 /\ y \in 0 .. ZoneHeight(o) - 1 /\ Placed(o, x, y) = p
  BY DEF Placed
<1>2. ZoneHeight(o) # 0
  BY <1>1, ZoneSides
<1>3. FromObservation(o).zones = {z}
  BY <1>2 DEF FromObservation
<1>4. p[1] = "legacy-mock-zone" /\ p[2] = x /\ p[3] = y
  OBVIOUS
<1>5. z.id = "legacy-mock-zone" /\ z.width = ZoneWidth(o) /\ z.height = ZoneHeight(o)
  OBVIOUS
<1> HIDE DEF p, z
<1> QED BY <1>1, <1>3, <1>4, <1>5 DEF InsideZones

\* A name is taken over once.
LEMMA ContactsDiffer ==
    ASSUME NEW o, Reported(o), NEW i \in ContactsOf(o), NEW j \in ContactsOf(o),
           o.entities[i].id = o.entities[j].id
    PROVE  i = j
<1>1. /\ i \in Nat \ {0} /\ \A n \in 1 .. i - 1 : o.entities[n].id # o.entities[i].id
      /\ j \in Nat \ {0} /\ \A n \in 1 .. j - 1 : o.entities[n].id # o.entities[j].id
  BY DEF ContactsOf, Reported
<1>2. CASE i < j
  BY <1>1, <1>2
<1>3. CASE j < i
  BY <1>1, <1>3
<1> QED BY <1>1, <1>2, <1>3

\* Contacts are the first under their name, and none is named as the player or
\* in the reserved namespace.
LEMMA OneEntityEach ==
    ASSUME NEW o, Reported(o)
    PROVE  /\ OneEach(EntitiesOf(o))
           /\ \A e \in EntitiesOf(o) : e.id # "cell:"
           /\ \E e \in EntitiesOf(o) : e.id = "legacy-player" /\ e.kind = "actor"
<1> DEFINE player == [id |-> "legacy-player", kind |-> "actor", at |-> Placed(o, o.x, o.y)]
           Contact(i) == [id |-> o.entities[i].id, kind |-> "contact",
                          at |-> Placed(o, o.entities[i].x, o.entities[i].y)]
<1>1. \A e : e \in EntitiesOf(o) <=> e = player \/ \E i \in ContactsOf(o) : e = Contact(i)
  BY DEF EntitiesOf
<1>2. player.id = "legacy-player" /\ player.kind = "actor"
  OBVIOUS
<1>3. \A i : Contact(i).id = o.entities[i].id
  OBVIOUS
<1>4. \A i \in ContactsOf(o) : /\ o.entities[i].id # "legacy-player"
                               /\ o.entities[i].id # "cell:"
  BY DEF ContactsOf
<1>5. \A i, j \in ContactsOf(o) : o.entities[i].id = o.entities[j].id => i = j
  BY ContactsDiffer
<1> HIDE DEF player, Contact
<1>6. OneEach(EntitiesOf(o))
  <2> SUFFICES ASSUME NEW a \in EntitiesOf(o), NEW b \in EntitiesOf(o), a.id = b.id
               PROVE  a = b
    BY DEF OneEach
  <2> QED BY <1>1, <1>2, <1>3, <1>4, <1>5
<1>7. \A e \in EntitiesOf(o) : e.id # "cell:"
  BY <1>1, <1>2, <1>3, <1>4
<1> QED BY <1>1, <1>2, <1>6, <1>7

\* What a frame says, and under which slot.
Said(o, sort, slot, channel, value) ==
    [sort |-> sort, slot |-> slot, status |-> "observed", channel |-> channel,
     value |-> value, turn |-> o.turn]

GlyphAt(o, x, y) == o.tiles[y + 1][x + 1]

OfPlayer(o, c) ==
    \/ c = Said(o, "fact", <<"legacy-player", "hp">>, "self", o.hp)
    \/ c = Said(o, "fact", <<"legacy-player", "max_hp">>, "self", o.maxHp)
    \/ /\ Placed(o, o.x, o.y) # None
       /\ c = Said(o, "position", <<"legacy-player">>, "self", o.x)

OfContact(o, e, c) ==
    \/ c = Said(o, "fact", <<e.id, "name">>, "vision", e.name)
    \/ /\ e.status # Null
       /\ c = Said(o, "fact", <<e.id, "effect">>, "vision", e.status)
    \/ /\ Placed(o, e.x, e.y) # None
       /\ c = Said(o, "position", <<e.id>>, "vision", e.x)

OfCell(o, d, c) == c = Said(o, "layer", <<d[1], d[2], "glyph">>, "vision", GlyphAt(o, d[1], d[2]))

LEMMA ClaimsSay ==
    ASSUME NEW o, NEW c \in ClaimsOf(o)
    PROVE  \/ OfPlayer(o, c)
           \/ \E i \in ContactsOf(o) : OfContact(o, o.entities[i], c)
           \/ \E d \in CellsOf(o) : OfCell(o, d, c)
<1> DEFINE Located(id, channel, x, y) ==
               IF Placed(o, x, y) = None THEN {} ELSE {Said(o, "position", <<id>>, channel, x)}
           Contact(e) ==
               {Said(o, "fact", <<e.id, "name">>, "vision", e.name)}
               \cup (IF e.status = Null THEN {}
                     ELSE {Said(o, "fact", <<e.id, "effect">>, "vision", e.status)})
               \cup Located(e.id, "vision", e.x, e.y)
           body == {Said(o, "fact", <<"legacy-player", "hp">>, "self", o.hp),
                    Said(o, "fact", <<"legacy-player", "max_hp">>, "self", o.maxHp)}
           contacts == {Contact(o.entities[i]) : i \in ContactsOf(o)}
           layers == {Said(o, "layer", <<d[1], d[2], "glyph">>, "vision", GlyphAt(o, d[1], d[2])) :
                        d \in CellsOf(o)}
<1>1. ClaimsOf(o) = body \cup Located("legacy-player", "self", o.x, o.y)
                    \cup (UNION contacts) \cup layers
  BY DEF ClaimsOf, Said, GlyphAt
<1>8. \/ c \in body \/ c \in Located("legacy-player", "self", o.x, o.y)
      \/ c \in UNION contacts \/ c \in layers
  <2>1. ASSUME NEW A, NEW B, NEW C, NEW D, ClaimsOf(o) = A \cup B \cup C \cup D
        PROVE  c \in A \/ c \in B \/ c \in C \/ c \in D
    BY <2>1
  <2> HIDE DEF Located, body, contacts, layers
  <2> QED BY <1>1, <2>1, Zenon
<1>2. \A id, channel, x, y : c \in Located(id, channel, x, y) =>
         Placed(o, x, y) # None /\ c = Said(o, "position", <<id>>, channel, x)
  BY Zenon
<1>3. c \in body => OfPlayer(o, c)
  BY Zenon DEF OfPlayer
<1>4. c \in layers => \E d \in CellsOf(o) : OfCell(o, d, c)
  BY Zenon DEF OfCell
<1> HIDE DEF Located, body, layers
<1>5. \A e : c \in Contact(e) => OfContact(o, e, c)
  <2> SUFFICES ASSUME NEW e, c \in Contact(e) PROVE OfContact(o, e, c)
    OBVIOUS
  <2>1. \/ c \in {Said(o, "fact", <<e.id, "name">>, "vision", e.name)}
        \/ c \in (IF e.status = Null THEN {}
                  ELSE {Said(o, "fact", <<e.id, "effect">>, "vision", e.status)})
        \/ c \in Located(e.id, "vision", e.x, e.y)
    BY Zenon
  <2>2. CASE c \in {Said(o, "fact", <<e.id, "name">>, "vision", e.name)}
    BY <2>2, Zenon DEF OfContact
  <2>3. CASE c \in (IF e.status = Null THEN {}
                    ELSE {Said(o, "fact", <<e.id, "effect">>, "vision", e.status)})
    BY <2>3, Zenon DEF OfContact
  <2>4. CASE c \in Located(e.id, "vision", e.x, e.y)
    BY <1>2, <2>4, Zenon DEF OfContact
  <2> QED BY <2>1, <2>2, <2>3, <2>4, Zenon
<1> HIDE DEF Contact
<1>6. c \in UNION contacts => \E i \in ContactsOf(o) : OfContact(o, o.entities[i], c)
  BY <1>5, Zenon
<1> HIDE DEF contacts
<1>7. c \in Located("legacy-player", "self", o.x, o.y) => OfPlayer(o, c)
  BY <1>2, Zenon DEF OfPlayer
<1> QED BY <1>3, <1>4, <1>6, <1>7, <1>8, Zenon

\* Nothing the frame claims is unknown or of another turn.
LEMMA ClaimsEvident ==
    ASSUME NEW o, Reported(o), ObservationOK(o), NEW c \in ClaimsOf(o)
    PROVE  EvidenceOK(c) /\ c.status = "observed" /\ c.turn = o.turn
<1>1. o.hp \in Nat /\ o.maxHp \in Nat
  BY DEF Reported, ObservationOK
<1>2. \A d \in CellsOf(o) : GlyphAt(o, d[1], d[2]) \in Nat
  <2> TAKE d \in CellsOf(o)
  <2>1. /\ d[1] \in 0 .. ZoneWidth(o) - 1 /\ d[2] \in 0 .. ZoneHeight(o) - 1
        /\ d[1] < Len(o.tiles[d[2] + 1])
    BY DEF CellsOf
  <2>2. d[1] \in Nat /\ d[2] + 1 \in 1 .. Len(o.tiles)
    <3>1. ZoneWidth(o) \in Nat /\ ZoneHeight(o) \in Nat /\ ZoneHeight(o) <= Len(o.tiles)
      BY ZoneSides
    <3>2. Len(o.tiles) \in Nat
      BY DEF Reported
    <3> QED BY ONLY <2>1, <3>1, <3>2
  <2>3. o.tiles[d[2] + 1] \in Seq(Nat)
    BY <2>2 DEF Reported
  <2>4. d[1] + 1 \in 1 .. Len(o.tiles[d[2] + 1])
    BY <2>1, <2>2, <2>3, SMTT(20)
  <2> QED BY <2>3, <2>4 DEF GlyphAt
<1>3. \A x, y : Placed(o, x, y) # None => x \in Nat
  <2> TAKE x, y
  <2>1. Placed(o, x, y) # None => x \in 0 .. ZoneWidth(o) - 1
    BY DEF Placed
  <2>2. ZoneWidth(o) \in Nat
    BY ZoneSides
  <2> QED BY <2>1, <2>2
<1>4. \A sort, slot, value : \A channel \in {"self", "vision"} : value \in Nat =>
         LET d == Said(o, sort, slot, channel, value)
         IN  EvidenceOK(d) /\ d.status = "observed" /\ d.turn = o.turn
  BY DEF Said, EvidenceOK, Null
<1>5. \E sort, slot : \E channel \in {"self", "vision"}, value \in Nat :
         c = Said(o, sort, slot, channel, value)
  <2>1. CASE OfPlayer(o, c)
    <3>1. CASE c = Said(o, "fact", <<"legacy-player", "hp">>, "self", o.hp)
      BY <1>1, <3>1
    <3>2. CASE c = Said(o, "fact", <<"legacy-player", "max_hp">>, "self", o.maxHp)
      BY <1>1, <3>2
    <3>3. CASE /\ Placed(o, o.x, o.y) # None
               /\ c = Said(o, "position", <<"legacy-player">>, "self", o.x)
      BY <1>3, <3>3
    <3> QED BY <2>1, <3>1, <3>2, <3>3 DEF OfPlayer
  <2>2. CASE \E i \in ContactsOf(o) : OfContact(o, o.entities[i], c)
    <3>0. PICK i \in ContactsOf(o) : OfContact(o, o.entities[i], c)
      BY <2>2
    <3> PICK e : e = o.entities[i]
      OBVIOUS
    <3>1. e.name \in Nat /\ e.status \in Nat \cup {Null}
      BY DEF Reported, ContactsOf
    <3>2. CASE c = Said(o, "fact", <<e.id, "name">>, "vision", e.name)
      BY <3>1, <3>2
    <3>3. CASE e.status # Null /\ c = Said(o, "fact", <<e.id, "effect">>, "vision", e.status)
      BY <3>1, <3>3
    <3>4. CASE Placed(o, e.x, e.y) # None /\ c = Said(o, "position", <<e.id>>, "vision", e.x)
      BY <1>3, <3>4
    <3> QED BY <3>0, <3>2, <3>3, <3>4 DEF OfContact
  <2>3. CASE \E d \in CellsOf(o) : OfCell(o, d, c)
    BY <1>2, <2>3 DEF OfCell
  <2> QED BY <2>1, <2>2, <2>3, ClaimsSay
<1> QED BY <1>4, <1>5, Zenon

\* Nothing is said twice of anything.
LEMMA ClaimsOnce ==
    ASSUME NEW o, Reported(o)
    PROVE  OneClaimEach(ClaimsOf(o))
<1> DEFINE Of(h, c) == \/ h = 0 /\ OfPlayer(o, c)
                       \/ h \in ContactsOf(o) /\ OfContact(o, o.entities[h], c)
           name(h) == IF h = 0 THEN "legacy-player" ELSE o.entities[h].id
<1>1. /\ \A i \in ContactsOf(o) : i \in Nat \ {0} /\ o.entities[i].id # "legacy-player"
      /\ \A i, j \in ContactsOf(o) : o.entities[i].id = o.entities[j].id => i = j
  <2>1. \A i \in ContactsOf(o) : i \in Nat \ {0} /\ o.entities[i].id # "legacy-player"
    BY DEF ContactsOf, Reported
  <2>2. \A i, j \in ContactsOf(o) : o.entities[i].id = o.entities[j].id => i = j
    BY ContactsDiffer
  <2> QED BY <2>1, <2>2
<1>2. \A h, k \in ContactsOf(o) \cup {0} : name(h) = name(k) => h = k
  BY <1>1
<1>3. ASSUME NEW h, NEW c, Of(h, c)
      PROVE  /\ h \in ContactsOf(o) \cup {0}
             /\ \/ c.sort = "position" /\ c.slot = <<name(h)>>
                \/ \E w \in {"hp", "max_hp", "name", "effect"} :
                      c.sort = "fact" /\ c.slot = <<name(h), w>>
  <2>1. CASE h = 0 /\ OfPlayer(o, c)
    BY <2>1 DEF OfPlayer, Said
  <2>2. CASE h \in ContactsOf(o) /\ OfContact(o, o.entities[h], c)
    BY <1>1, <2>2 DEF OfContact, Said
  <2> QED BY <1>3, <2>1, <2>2
<1>4. ASSUME NEW h, NEW c, NEW d, Of(h, c), Of(h, d), c.sort = d.sort, c.slot = d.slot
      PROVE  c = d
  <2>1. CASE h = 0 /\ OfPlayer(o, c) /\ OfPlayer(o, d)
    BY <1>4, <2>1 DEF OfPlayer, Said
  <2>2. CASE h \in ContactsOf(o) /\ OfContact(o, o.entities[h], c) /\ OfContact(o, o.entities[h], d)
    BY <1>4, <2>2 DEF OfContact, Said
  <2>3. 0 \notin ContactsOf(o)
    BY <1>1
  <2> QED BY <1>4, <2>1, <2>2, <2>3
<1>5. \A c \in ClaimsOf(o) : (\E h : Of(h, c)) \/ \E d \in CellsOf(o) : OfCell(o, d, c)
  BY ClaimsSay
<1>6. \A c, d : OfCell(o, d, c) => /\ c.sort = "layer" /\ c.slot = <<d[1], d[2], "glyph">>
                                   /\ c = Said(o, "layer", c.slot, "vision",
                                               GlyphAt(o, c.slot[1], c.slot[2]))
  BY DEF OfCell, Said
<1> HIDE DEF Of, name
<1>7. SUFFICES ASSUME NEW c \in ClaimsOf(o), NEW d \in ClaimsOf(o), c.sort = d.sort, c.slot = d.slot
               PROVE  c = d
  BY DEF OneClaimEach
<1>8. CASE \E h : Of(h, c)
  <2>1. PICK h : Of(h, c)
    BY <1>8
  <2>2. c.sort # "layer"
    BY <1>3, <2>1
  <2>3. PICK k : Of(k, d)
    BY <1>5, <1>6, <1>7, <2>2
  <2>4. name(h) = name(k)
    <3>1. /\ \/ c.sort = "position" /\ c.slot = <<name(h)>>
             \/ \E w \in {"hp", "max_hp", "name", "effect"} :
                   c.sort = "fact" /\ c.slot = <<name(h), w>>
          /\ \/ d.sort = "position" /\ d.slot = <<name(k)>>
             \/ \E w \in {"hp", "max_hp", "name", "effect"} :
                   d.sort = "fact" /\ d.slot = <<name(k), w>>
      BY <1>3, <2>1, <2>3
    <3> QED BY <1>7, <3>1
  <2>5. h = k
    BY <1>2, <1>3, <2>1, <2>3, <2>4
  <2> QED BY <1>4, <1>7, <2>1, <2>3, <2>5
<1>9. CASE \E e \in CellsOf(o) : OfCell(o, e, c)
  <2>1. c.sort = "layer" /\ c = Said(o, "layer", c.slot, "vision", GlyphAt(o, c.slot[1], c.slot[2]))
    BY <1>6, <1>9
  <2>2. \E e \in CellsOf(o) : OfCell(o, e, d)
    <3>1. ~\E h : Of(h, d)
      <4>1. \A h : Of(h, d) => d.sort # "layer"
        BY <1>3
      <4> QED BY <1>7, <2>1, <4>1
    <3> QED BY <1>5, <3>1
  <2>3. d = Said(o, "layer", d.slot, "vision", GlyphAt(o, d.slot[1], d.slot[2]))
    BY <1>6, <2>2
  <2> QED BY <1>7, <2>1, <2>3
<1> QED BY <1>5, <1>8, <1>9

\* Whatever a worker reports, as long as it is an observation of the protocol,
\* from_observation makes a frame of it that the contract accepts.
LEMMA LegacyFrames ==
    ASSUME NEW o, Reported(o), ObservationOK(o)
    PROVE  Consistent(FromObservation(o))
<1> DEFINE f == FromObservation(o)
           Event(i) == [id |-> i, status |-> "observed", turn |-> o.turn, subjects |-> {}]
           Offer(a) == [id |-> a.id, operation |-> IF a.kind = "ability" THEN "use" ELSE a.kind,
                        source |-> "legacy-player", target |-> "",
                        destination |-> DestinationOf(o, a)]
           zone == [id |-> "legacy-mock-zone", width |-> ZoneWidth(o),
                    height |-> ZoneHeight(o),
                    cells |-> {[at |-> c, layers |-> {"glyph"}] : c \in CellsOf(o)}]
<1>1. /\ f.decision = o.decision /\ f.parent = None /\ f.turn = o.turn
      /\ f.phase = o.phase /\ f.actor = "legacy-player" /\ f.prompt = o.prompt
  BY DEF FromObservation
<1>2. /\ f.entities = EntitiesOf(o) /\ f.claims = ClaimsOf(o) /\ f.relations = {}
      /\ f.zones = IF ZoneHeight(o) = 0 THEN {} ELSE {zone}
      /\ \A x : x \in f.actions <=> \E a \in o.actions : x = Offer(a)
      /\ f.events = [i \in DOMAIN o.messages |-> Event(i)]
  BY DEF FromObservation
<1>3. \A x, y : Placed(o, x, y) # None => InsideZones(f, Placed(o, x, y))
  BY PlacedInside
<1> HIDE DEF f
<1>4. \A a : /\ Offer(a).id = a.id /\ Offer(a).source = "legacy-player"
             /\ Offer(a).target = "" /\ Offer(a).destination = DestinationOf(o, a)
  OBVIOUS
<1>5. \A i : /\ Event(i).id = i /\ Event(i).status = "observed" /\ Event(i).turn = o.turn
             /\ Event(i).subjects = {}
  OBVIOUS
<1>6. /\ zone.width = ZoneWidth(o) /\ zone.height = ZoneHeight(o)
      /\ zone.cells = {[at |-> c, layers |-> {"glyph"}] : c \in CellsOf(o)}
  OBVIOUS
<1> HIDE DEF Offer, Event, zone
<1>7. f.parent # f.decision
  BY <1>1 DEF Reported
<1>8. OneEach(f.entities) /\ OneEach(f.zones) /\ OneEach(f.actions)
  <2>1. OneEach(f.zones)
    BY <1>2 DEF OneEach
  <2>2. OneEach(f.actions)
    <3>1. OneEach(o.actions)
      BY DEF ObservationOK
    <3> SUFFICES ASSUME NEW a \in o.actions, NEW b \in o.actions, Offer(a).id = Offer(b).id
                 PROVE  Offer(a) = Offer(b)
      BY <1>2 DEF OneEach
    <3> QED BY <1>4, <3>1 DEF OneEach
  <2> QED BY <1>2, <2>1, <2>2, OneEntityEach
<1>9. \A i, j \in DOMAIN f.events : f.events[i].id = f.events[j].id => i = j
  BY <1>2, <1>5
<1>10. IF f.actor = "" THEN f.phase \in {"creation", "terminal"}
       ELSE \E e \in f.entities : e.id = f.actor /\ e.kind = "actor"
  BY <1>1, <1>2, OneEntityEach
<1>11. /\ f.prompt <=> f.phase = "prompt"
       /\ f.actions = {} <=> f.phase = "terminal"
  BY <1>1, <1>2 DEF ObservationOK
<1>12. \A e \in f.entities : /\ e.id # "cell:"
                             /\ e.at # None => InsideZones(f, e.at)
  <2>1. \A e \in f.entities : \E x, y : e.at = Placed(o, x, y)
    BY <1>2 DEF EntitiesOf
  <2> QED BY <1>2, <1>3, <2>1, OneEntityEach
<1>13. \A z \in f.zones : ZoneOK(z)
  <2>1. \A c \in CellsOf(o) : c[1] \in 0 .. ZoneWidth(o) - 1 /\ c[2] \in 0 .. ZoneHeight(o) - 1
    BY DEF CellsOf
  <2>2. \A c \in zone.cells : /\ c.at[1] \in 0 .. zone.width - 1 /\ c.at[2] \in 0 .. zone.height - 1
                             /\ c.layers # {}
    BY <1>6, <2>1
  <2>3. \A c, d \in zone.cells : c.at = d.at => c = d
    BY <1>6
  <2>4. ZoneHeight(o) # 0 => zone.width > 0 /\ zone.height > 0
    <3>1. ZoneWidth(o) \in Nat /\ ZoneHeight(o) \in Nat
      BY ZoneSides
    <3>2. ZoneWidth(o) = 0 => ZoneHeight(o) = 0
      BY DEF ZoneHeight
    <3> QED BY <1>6, <3>1, <3>2
  <2> QED BY <1>2, <2>2, <2>3, <2>4 DEF ZoneOK
<1>14. \A i \in DOMAIN f.events : /\ f.events[i].subjects \subseteq {e.id : e \in f.entities}
                                  /\ KnownNow(f, f.events[i])
  BY <1>1, <1>2, <1>5 DEF KnownNow, Dated, Reported
<1>15. \A a \in f.actions :
          /\ {a.source, a.target} \subseteq {e.id : e \in f.entities} \cup {""}
          /\ a.destination # None => InsideZones(f, a.destination)
  <2> TAKE a \in f.actions
  <2>1. PICK b \in o.actions : a = Offer(b)
    BY <1>2
  <2>2. /\ a.source = "legacy-player" /\ a.target = ""
        /\ a.destination = DestinationOf(o, b)
    BY <1>4, <2>1
  <2>3. "legacy-player" \in {e.id : e \in f.entities}
    BY <1>2, OneEntityEach
  <2>4. a.destination # None => \E x, y : a.destination = Placed(o, x, y)
    BY <2>2 DEF DestinationOf
  <2> QED BY <1>3, <2>2, <2>3, <2>4
<1>16. \A c \in f.claims : EvidenceOK(c) /\ Dated(f, c)
  BY <1>1, <1>2, ClaimsEvident DEF Dated, Reported
<1>17. /\ OneTripleEach(f.relations)
       /\ \A r \in f.relations : /\ {r.subject, r.object} \subseteq {e.id : e \in f.entities}
                                 /\ KnownNow(f, r)
  BY <1>2 DEF OneTripleEach
<1>18. OneClaimEach(f.claims)
  BY <1>2, ClaimsOnce
<1> QED BY <1>7, <1>8, <1>9, <1>10, <1>11, <1>12, <1>13, <1>14, <1>15, <1>16, <1>17, <1>18,
           Zenon DEF Consistent, f

\* A good world shows an observation of the protocol, whoever is reported in it.
LEMMA WorldsPresent ==
    ASSUME NEW s, GoodWorld(s), episode \in Nat, generation \in Nat,
           NEW crowd \in Crowds
    PROVE  LET o == [Observation(s) EXCEPT !.entities = crowd]
           IN  Reported(o) /\ ObservationOK(o) /\ Lossless(o)
<1> DEFINE o == [Observation(s) EXCEPT !.entities = crowd]
           Shown(x, y) == IF Far(x - 1, s.x) + Far(y - 1, s.y) <= 2
                          THEN Glyph(s, x - 1, y - 1) ELSE 0
           Offered(c) == [id |-> c,
                          kind |-> IF c.kind \in {"open", "cancel"} THEN "answer" ELSE c.kind,
                          arguments |-> IF c.kind = "move" THEN <<c.by>> ELSE <<>>]
<1>1. /\ o.decision = <<episode, generation>> /\ o.turn = s.turns /\ o.phase = Phase(s)
      /\ o.hp = s.hp /\ o.maxHp = 6 /\ o.prompt = PromptShown(s) /\ o.entities = crowd
      /\ \A x : x \in o.actions <=> \E c \in Candidates(s) : x = Offered(c)
      /\ o.tiles = [j \in 1 .. 5 |-> [i \in 1 .. 7 |-> Shown(i, j)]]
  BY DEF Observation, Width, Height
<1> HIDE DEF o
<1>2. \A x, y : Shown(x, y) \in Nat
  BY DEF Glyph
<1>3. \A c : /\ Offered(c).id = c
             /\ Offered(c).kind = IF c.kind \in {"open", "cancel"} THEN "answer" ELSE c.kind
             /\ Offered(c).arguments = IF c.kind = "move" THEN <<c.by>> ELSE <<>>
  OBVIOUS
<1> HIDE DEF Shown, Offered
<1>4. /\ o.tiles \in Seq(Seq(Nat))
      /\ \A j \in DOMAIN o.tiles : Len(o.tiles[j]) = 7
  <2>1. \A j \in 1 .. 5 : /\ [i \in 1 .. 7 |-> Shown(i, j)] \in Seq(Nat)
                          /\ Len([i \in 1 .. 7 |-> Shown(i, j)]) = 7
    BY <1>2
  <2> QED BY <1>1, <2>1
<1>5. s.hp \in 0 .. 6 /\ s.turns \in Int
  BY DEF GoodWorld, Counted, WorldType
<1>6. <<episode, generation>> # None
  BY DEF None
<1>7. Reported(o)
  <2> DEFINE Contact == [id : STRING \ {""}, x : Int, y : Int, name : Nat, status : Nat \cup {Null}]
  <2>1. crowd \in Seq(Contact)
    BY CrowdsAreReports
  <2>2. \A c \in Contact : c.name \in Nat /\ c.status \in Nat \cup {Null}
    BY Zenon
  <2> HIDE DEF Contact
  <2>3. DOMAIN crowd \subseteq Nat \ {0} /\ \A i \in DOMAIN crowd : crowd[i] \in Contact
    BY <2>1
  <2>4. \A i \in DOMAIN crowd : crowd[i].name \in Nat /\ crowd[i].status \in Nat \cup {Null}
    BY <2>2, <2>3
  <2> QED BY <1>1, <1>4, <1>5, <1>6, <2>3, <2>4 DEF Reported
<1>8. /\ Phase(s) = "prompt" <=> PromptShown(s)
      /\ Phase(s) = "terminal" <=> Candidates(s) = {}
  BY DEF Phase, PromptShown, Candidates, GoodWorld, WorldType
<1>9. ObservationOK(o)
  <2>1. OneEach(o.actions)
    BY <1>1, <1>3 DEF OneEach
  <2>2. \A i, j \in DOMAIN o.tiles : Len(o.tiles[i]) = Len(o.tiles[j])
    BY <1>4
  <2>3. o.actions = {} <=> Candidates(s) = {}
    BY <1>1
  <2>4. /\ o.phase = "prompt" <=> o.prompt
        /\ o.phase = "terminal" <=> o.actions = {}
    BY <1>1, <1>8, <2>3, Zenon
  <2>5. 0 <= o.hp /\ o.hp <= o.maxHp /\ o.maxHp > 0
    BY <1>1, <1>5
  <2> QED BY <2>1, <2>2, <2>4, <2>5, Zenon DEF ObservationOK
<1>10. Lossless(o)
  <2> SUFFICES ASSUME NEW c \in Candidates(s)
               PROVE  Offered(c).arguments = <<>> \/ Offered(c).kind = "move"
    BY <1>1 DEF Lossless
  <2> QED BY ONLY <1>3
<1> QED BY <1>7, <1>9, <1>10 DEF o

\* Whatever the reference world has come to, and whoever is reported in it, its
\* transition is one of the protocol and its observation becomes a frame the
\* contract accepts (legacy.py, contracts.py).
THEOREM FramesAreAccepted == MockSpec => []LegacyFrameAccepted
<1>1. MockInv => LegacyFrameAccepted
  <2> SUFFICES ASSUME MockInv, NEW s \in state
               PROVE  /\ TransitionOK(Transition(s))
                      /\ \A crowd \in Crowds :
                            LET o == [Observation(s) EXCEPT !.entities = crowd]
                            IN  ObservationOK(o) /\ Lossless(o) /\ Consistent(FromObservation(o))
    BY DEF LegacyFrameAccepted
  <2>1. GoodWorld(s) /\ episode \in Nat /\ generation \in Nat
    BY DEF MockInv
  <2>2. TransitionOK(Transition(s))
    <3>1. Transition(s).observation.phase = Phase(s)
      BY DEF Transition, Observation
    <3>2. s.outcome \in {"ongoing", "death", "success", "time_limit"}
      BY <2>1 DEF GoodWorld, WorldType
    <3>3. Phase(s) = "terminal" <=> s.outcome # "ongoing"
      BY DEF Phase
    <3> QED BY <3>1, <3>2, <3>3 DEF TransitionOK, Transition
  <2>3. ASSUME NEW crowd \in Crowds
        PROVE  LET o == [Observation(s) EXCEPT !.entities = crowd]
               IN  ObservationOK(o) /\ Lossless(o) /\ Consistent(FromObservation(o))
    BY <2>1, WorldsPresent, LegacyFrames
  <2> QED BY <2>2, <2>3
<1> QED BY <1>1, MockInvariance, PTL
=============================================================================
