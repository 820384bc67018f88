---------------------------- MODULE MockBackend ----------------------------
(***************************************************************************)
(* The test world of src/qudgym/mock.py: a corridor with a gate that asks  *)
(* before it opens, a hazard tile that draws damage from a hidden random   *)
(* stream, an exit, and a limit on decisions; what it shows of itself, and *)
(* what src/qudgym/eye/legacy.py makes of that.                            *)
(*                                                                         *)
(* random.Random is the stream its seed stands for and a position in it.   *)
(* A call answered with a QudGymError changes nothing and is the action's  *)
(* guard; observe and state_hash only read.                                *)
(***************************************************************************)
EXTENDS LegacyFrame

CONSTANTS Seed,            \* seeds of the random stream
          Noise,           \* Noise[seed][n]: the n-th draw of randrange(3)
          MaxDecisions,    \* max_decisions
          MaxSnapshots,    \* max_snapshots
          Crowds,          \* the contacts a worker may report with an observation
          MaxGeneration    \* bound on the resets, steps and restores of a run

ASSUME LimitsArePositive == /\ MaxDecisions \in Nat \ {0}
                            /\ MaxSnapshots \in Nat \ {0}
                            /\ MaxGeneration \in Nat
\* Identifiers are not empty; names and status texts are numbers.
ASSUME CrowdsAreReports ==
    \A crowd \in Crowds :
        crowd \in Seq([id : STRING \ {""}, x : Int, y : Int, name : Nat, status : Nat \cup {Null}])
ASSUME SeedsExist == Seed # {}
ASSUME NoiseIsRandrange3 == \A s \in Seed, n \in 0 .. MaxDecisions :
                                Noise[s][n] \in 0 .. 2

VARIABLES
    state,        \* _state: one record, or none before the first reset
    rng,          \* _rng: the seed and the number of draws made
    generation,   \* _generation
    episode,      \* _episode: the generation of its reset
    snapshots,    \* _snapshots
    closed,       \* _closed
    last          \* history: the last call that returned a transition, and its reward

mockVars == <<state, rng, generation, episode, snapshots, closed, last>>

Width == 7
Height == 5
Wall(x, y) == x \in {0, Width - 1} \/ y \in {0, Height - 1}
Gate == <<3, 2>>
Hazard == <<4, 2>>
Exit == <<5, 2>>

Direction == {<<0, -1>>, <<1, 0>>, <<0, 1>>, <<-1, 0>>}          \* _DIRECTIONS

StartState == [x |-> 1, y |-> 2, hp |-> 6, turns |-> 0, decisions |-> 0,
               gateOpen |-> FALSE, pendingGate |-> FALSE, outcome |-> "ongoing",
               messages |-> <<>>]

MockInit ==
    /\ state = {}
    /\ rng = [seed |-> CHOOSE s \in Seed : TRUE, drawn |-> 0]
    /\ generation = 0 /\ episode = 0
    /\ snapshots = {}
    /\ closed = FALSE
    /\ last = [call |-> "none", reward |-> 0]

Phase(s) == IF s.outcome # "ongoing" THEN "terminal"
            ELSE IF s.pendingGate THEN "prompt" ELSE "command"

\* The candidates observe() offers: answers to a prompt, or moves that do not
\* run into a wall, and waiting.
Candidates(s) ==
    CASE Phase(s) = "terminal" -> {}
      [] Phase(s) = "prompt" -> {[kind |-> "open"], [kind |-> "cancel"]}
      [] Phase(s) = "command" ->
            {[kind |-> "move", by |-> d] :
                d \in {e \in Direction : ~Wall(s.x + e[1], s.y + e[2])}}
            \cup {[kind |-> "wait"]}

-----------------------------------------------------------------------------
(* One step of the world, as far as it does not depend on the random draw.  *)
(* A definition whose comment begins with "Mutant" is a plausible bug the   *)
(* checks must catch; nothing uses it.                                      *)

At(s, x, y) == [s EXCEPT !.x = x, !.y = y]

\* Where an action takes the player, and whether it takes a turn.
MovedTo(s, a) ==
    CASE a.kind = "cancel" -> [s EXCEPT !.pendingGate = FALSE]
      [] a.kind = "open" -> At([s EXCEPT !.pendingGate = FALSE, !.gateOpen = TRUE],
                               Gate[1], Gate[2])
      [] a.kind = "wait" -> s
      [] a.kind = "move" ->
            LET x == s.x + a.by[1]
                y == s.y + a.by[2]
            IN  IF <<x, y>> = Gate /\ ~s.gateOpen
                THEN [s EXCEPT !.pendingGate = TRUE] ELSE At(s, x, y)

Elapsed(s, a) ==
    IF a.kind = "cancel" \/ (a.kind = "move" /\ MovedTo(s, a).pendingGate) THEN 0 ELSE 1

\* Mutant: the hazard may take more than there is left.
HurtUnclamped(s, elapsed, noise) ==
    IF elapsed = 1 /\ <<s.x, s.y>> = Hazard THEN [s EXCEPT !.hp = @ - noise] ELSE s

Hurt(s, elapsed, noise) ==
    IF elapsed = 1 /\ <<s.x, s.y>> = Hazard
    THEN [s EXCEPT !.hp = IF @ > noise THEN @ - noise ELSE 0] ELSE s

\* Mutant: the time limit is looked at before the goal.
OutcomeLimitFirst(s) ==
    IF s.hp = 0 THEN "death"
    ELSE IF s.decisions >= MaxDecisions THEN "time_limit"
    ELSE IF <<s.x, s.y>> = Exit THEN "success" ELSE "ongoing"

Outcome(s) ==
    IF s.hp = 0 THEN "death"
    ELSE IF <<s.x, s.y>> = Exit THEN "success"
    ELSE IF s.decisions >= MaxDecisions THEN "time_limit" ELSE "ongoing"

\* The hazard tells of every draw, a draw of nothing too.
Told(s, elapsed) ==
    [s EXCEPT !.messages = IF elapsed = 1 /\ <<s.x, s.y>> = Hazard THEN <<"damage">> ELSE <<>>]

Judged(s) == [s EXCEPT !.outcome = Outcome(s)]

After(s, a, noise) ==
    LET e == Elapsed(s, a)
        moved == Told(Hurt(MovedTo(s, a), e, noise), e)
    IN  Judged([moved EXCEPT !.turns = @ + e, !.decisions = @ + 1])

-----------------------------------------------------------------------------
(* What a world shows of itself: observe() and _transition().               *)

Glyph(s, x, y) ==
    CASE Wall(x, y) -> 1                                              \* "#"
      [] <<x, y>> = Gate /\ ~s.gateOpen -> 3                          \* "+"
      [] <<x, y>> = Exit -> 4                                         \* "G"
      [] OTHER -> 2                                                   \* "."

Far(a, b) == IF a > b THEN a - b ELSE b - a

\* Mutant: the question is shown as long as it has not been answered.
PromptShownLong(s) == s.pendingGate

PromptShown(s) == s.pendingGate /\ s.outcome = "ongoing"

Observation(s) ==
    [episode |-> episode, decision |-> <<episode, generation>>, turn |-> s.turns,
     phase |-> Phase(s), x |-> s.x, y |-> s.y, hp |-> s.hp, maxHp |-> 6,
     tiles |-> [j \in 1 .. Height |-> [i \in 1 .. Width |->
                   IF Far(i - 1, s.x) + Far(j - 1, s.y) <= 2
                   THEN Glyph(s, i - 1, j - 1) ELSE 0]],
     entities |-> <<>>, messages |-> s.messages, prompt |-> PromptShown(s),
     actions |-> {[id |-> c, kind |-> IF c.kind \in {"open", "cancel"} THEN "answer" ELSE c.kind,
                   arguments |-> IF c.kind = "move" THEN <<c.by>> ELSE <<>>] :
                     c \in Candidates(s)}]

Reward(s) == IF s.outcome = "success" THEN 1 ELSE IF s.outcome = "death" THEN -1 ELSE 0

\* The transition of the last call.
Transition(s) ==
    [observation |-> Observation(s), reward |-> last.reward, outcome |-> s.outcome,
     terminated |-> s.outcome \in {"success", "death"},
     truncated |-> s.outcome = "time_limit"]

-----------------------------------------------------------------------------
(* Operations.                                                             *)

Open == ~closed /\ state # {}                                  \* _require

Returned(call, reward) == last' = [call |-> call, reward |-> reward]

Reset(seed) ==
    /\ ~closed /\ generation < MaxGeneration
    /\ rng' = [seed |-> seed, drawn |-> 0]
    /\ state' = {StartState}
    /\ generation' = generation + 1
    /\ episode' = generation'
    /\ snapshots' = {}
    /\ Returned("reset", 0)
    /\ UNCHANGED closed

\* step() with the current decision; the draw is made in every turn, and used
\* on the hazard only.
Step(a) ==
    /\ Open /\ generation < MaxGeneration
    /\ \E s \in state :
        /\ a \in Candidates(s)
        /\ rng' = [rng EXCEPT !.drawn = @ + Elapsed(s, a)]
        /\ state' = {After(s, a, Noise[rng.seed][rng.drawn])}
        /\ Returned("step", Reward(After(s, a, Noise[rng.seed][rng.drawn])))
    /\ generation' = generation + 1
    /\ UNCHANGED <<episode, snapshots, closed>>

\* Mutant: a snapshot records the map and forgets the random stream.
SavedWithoutRng(s, h) == [handle |-> h, state |-> s, rng |-> [rng EXCEPT !.drawn = 0]]

Saved(s, h) == [handle |-> h, state |-> s, rng |-> rng]

\* The random handle is one not in use.
Snapshot ==
    /\ Open
    /\ Cardinality(snapshots) < MaxSnapshots
    /\ \E s \in state, h \in 1 .. MaxSnapshots :
          /\ \A k \in snapshots : k.handle # h
          /\ snapshots' = snapshots \cup {Saved(s, h)}
    /\ UNCHANGED <<state, rng, generation, episode, closed, last>>

Restore(k) ==
    /\ Open /\ k \in snapshots /\ generation < MaxGeneration
    /\ state' = {k.state}
    /\ rng' = k.rng
    /\ generation' = generation + 1
    /\ Returned("restore", 0)
    /\ UNCHANGED <<episode, snapshots, closed>>

Release(k) ==
    /\ Open /\ k \in snapshots
    /\ snapshots' = snapshots \ {k}
    /\ UNCHANGED <<state, rng, generation, episode, closed, last>>

Close ==
    /\ closed' = TRUE
    /\ state' = {} /\ snapshots' = {}
    /\ UNCHANGED <<rng, generation, episode, last>>

Actions == {[kind |-> k] : k \in {"open", "cancel", "wait"}}
           \cup {[kind |-> "move", by |-> d] : d \in Direction}

MockNext == \/ \E seed \in Seed : Reset(seed)
            \/ \E a \in Actions : Step(a)
            \/ Snapshot
            \/ \E k \in snapshots : Restore(k) \/ Release(k)
            \/ Close

MockSpec == MockInit /\ [][MockNext]_mockVars

-----------------------------------------------------------------------------
(* Properties.                                                             *)

Worlds == state \cup {k.state : k \in snapshots}

\* Every variable keeps its type, and the player stays on the map's floor: the
\* question is only ever open beside the gate, and nobody stands on the gate
\* before it has been opened.
MockTypeOK ==
    /\ Cardinality(state) <= 1
    /\ \A s \in Worlds :
        /\ s.x \in 1 .. Width - 2 /\ s.y \in 1 .. Height - 2
        /\ s.hp \in 0 .. 6
        /\ 0 <= s.turns /\ s.turns <= s.decisions /\ s.decisions <= MaxDecisions
        /\ s.gateOpen \in BOOLEAN /\ s.pendingGate \in BOOLEAN
        /\ s.pendingGate => <<s.x, s.y>> \in {<<2, 2>>, <<4, 2>>, <<3, 1>>, <<3, 3>>}
        /\ <<s.x, s.y>> = Gate => s.gateOpen
    /\ rng.seed \in Seed /\ rng.drawn \in Nat
    /\ episode \in Nat /\ generation \in Nat /\ episode <= generation
    /\ closed \in BOOLEAN
    /\ last \in [call : {"none", "reset", "step", "restore"}, reward : {-1, 0, 1}]

\* In every world of an episode, restored ones included, the hidden stream is
\* that of the episode's seed and stands where the turns played have left it:
\* the same actions after a restore have the same outcome.
ReplayIsDeterministic ==
    /\ \A s \in state : rng.drawn = s.turns
    /\ \A k \in snapshots : /\ k.rng.drawn = k.state.turns
                            /\ k.rng.seed = rng.seed

\* Whatever the world has come to, and whoever is reported in it, its transition
\* is one the protocol accepts and its observation becomes a frame the contract
\* accepts: no phase without its prompt or its actions, no place out of the zone,
\* no thing named twice and nothing said twice of it.
LegacyFrameAccepted ==
    \A s \in state :
        /\ TransitionOK(Transition(s))
        /\ \A crowd \in Crowds :
              LET o == [Observation(s) EXCEPT !.entities = crowd]
              IN  ObservationOK(o) /\ Lossless(o) /\ Consistent(FromObservation(o))

\* The outcome is death exactly for the dead, success exactly for the living at
\* the exit, and the time limit exactly for the living elsewhere whose decisions
\* are used up.  The call that brought the world there is rewarded accordingly,
\* and only a step is: going back to a finished world earns nothing.
OutcomeIsTrue ==
    LET AtExit(s) == s.hp > 0 /\ <<s.x, s.y>> = Exit IN
    /\ \A s \in Worlds :
        /\ s.outcome = "death" <=> s.hp <= 0
        /\ s.outcome = "success" <=> AtExit(s)
        /\ s.outcome = "time_limit" <=>
              s.hp > 0 /\ ~AtExit(s) /\ s.decisions >= MaxDecisions
    /\ \A s \in state :
        /\ last.reward = 1 <=> last.call = "step" /\ AtExit(s)
        /\ last.reward = -1 <=> last.call = "step" /\ s.hp <= 0
=============================================================================
