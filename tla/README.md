# Gyms of Qud in TLA+

A verification development of this repository: TLA+ modules for the parts of
Gyms of Qud that carry its own logic, TLC runs on small instances of them, and
theorems about them for every value of their constants, checked by TLAPS.
Paths are relative to the repository's root.

## 1. The system and its parts

Gyms of Qud lets an agent play through *decisions*: the game waits at a decision
boundary, the agent sees an observation with candidate actions and names one of
them together with the decision it chose it at.

    agent -> QudEnv -> HttpBackend ~~HTTP~~> create_app -> RpcService -> MockBackend
             (env.py)  (client.py)          (server.py)   (rpc.py)      (mock.py)

    network threads -> BoundaryQueue <- game-turn adapter <- engine
                       (bridge, C#)     (not in the repository)

    NeMo Gym -> QudGymServer -> SessionManager -> QudEnv -> MockBackend
                (integrations)  (sessions.py)
                      `-> ObservationPresenter -> EvidenceMemory   (eye/)

    SessionRecorder (recording.py) and TrajectoryRecorder wrap a QudEnv

| component | state it keeps | operations | what is hard | what makes it correct |
|---|---|---|---|---|
| BoundaryQueue | FIFO, active request, turn thread, faulted, disposed; a task per request | Submit, cancellation, InitializeTurnThread, TryBegin, Complete, FailAfterDispatch, Reconcile, Dispose | threads, cancellation races, faults, disposal | every caller is answered once and truthfully; order; capacity; nothing survives a fault |
| RpcService | LRU cache of replies, faulted | handle (8 operations) | duplicates, eviction, reused identifiers, half-done failures | duplicates are not executed again; steps act on the world they name |
| MockBackend | world, random stream, cursor, snapshots, closed | reset, observe, step, snapshot, restore, release, state_hash, close | hidden randomness, restore against cursor, limits | determinism, true outcomes, a cursor that never goes back |
| HttpBackend | in-flight mutation, closed | one call per operation, replay, abandon | timeouts, late execution | a lost reply is remembered until it is resolved |
| QudEnv | current transition, cursor, uncertain, reward_unknown | reset, step, restore, replay, reconcile, close | two copies of the uncertainty | no reward is lost silently; the cursor is the worker's; there is a way on |
| create_app | none | POST /rpc | rejections against lost replies | what it rejects has no effect |
| SessionManager | sessions with a time of last use | seed, observe, step, verify, close, reaping | expiry between two steps | a session is never shared or leaked |
| QudGymServer (NeMo) | sessions per cookie, step replies, closed markers, faults, reset cache | reset, step, close | retries under a new cookie, pruning, failed rendering | a retried step is not played twice |
| EvidenceMemory, ObservationPresenter | bounded records, events, decisions; chain of decisions | update, reset, render | repeated decisions, limits, failed views | one chain of decisions; forgetting is counted |
| SessionRecorder | open scopes, budget, closed | reset, step, reconcile, llm_call, marks, close | budget, interleaved scopes | scopes nest and end; stream and spans tell what the environment did |
| Agent-eye contracts, legacy frames | none | Frame.consistent, observation_to_frame | prompts, positions outside the zone, reserved names | whatever the game shows becomes a frame the contract accepts |
| ArenaFixture, scorer, demo | arena with a hidden target | reset, observe, step; score; demo_records | what each channel discloses | nothing hidden is shown; what is shown is enough to aim |
| Agent-eye traces | the records written | write_trace, read_trace | the chain of decisions | a trace that was played can be read back |
| others (encoding, builds, TrajectoryRecorder, policy, cli, compat, native exports, scripts) | none that lives on | parsing, rendering, one-shot inspection | - | not modelled, see section 5 |

PROJECT.json lists every component with its status and every hazard with its
line and the properties aimed at it.

## 2. Modules

| module | models | state and actions |
|---|---|---|
| `BoundaryQueue` | bridge/QudGym.BridgeCore/BoundaryQueue.cs | the fields by their names; `completion[r]` is the TaskCompletionSource; one action per public method, because each runs under `gate`. `TryBegin` is two actions: the loop finds a request to dispatch (the n-th), or drains the queue. `Cancel` happens without the lock. A method that throws before it assigns is the negation of a guard |
| `DecisionHandoff` | the promise of that queue | the life of a request, with neither queue nor threads: accepted, refused without effect, or handed to the engine alone and answered |
| `TurnLoop` | the queue between callers and an engine | composes `BoundaryQueue` with an external engine and adapter: `EngineExecutes` consumes an input and reaches the next decision, the adapter's callbacks may come too early, fail, reconcile |
| `ReplyCache` | the LRU cache of RpcService | `Hit`, `Conflict`, `Store` are the three outcomes of looking a request up |
| `ReplyWindow` | what the cache promises | `ReplyCache` driven by arbitrary requests whose answers are arbitrary |
| `RpcService` | rpc.py in front of mock.py | one action per operation of `_dispatch`; an action includes the answer, its storing and the eviction. The game is abstracted to a token of its state and random stream; decisions are pairs (episode, generation), as in `_decision`. `BackendRaises` is the `except Exception` of `handle`: a reset, the first one too, or a step or restore that stopped anywhere half way (`HalfReset`, `HalfMove`) |
| `Controller` | env.py, client.py, server.py around `RpcService` | sending and returning of a call are two actions with the worker in between; `CallLost` is every outcome that raises a replayable TransportUncertain, `CallRejected` every rejection before `handle`. `WorkerRestarts` at any time |
| `MockBackend` | mock.py in detail, its observations and transitions | map, gate, hazard, exit, limits, tiles, rewards; the random stream is a seed and the number of draws made. An observation carries tiles, prompt and candidates, and the contacts a worker may report in it (`Crowds`) |
| `FrameContract` | the validators of eye/contracts.py | `Consistent`, an operator on frames: what a frame's parts must say of each other, with unique handles, fact keys, layers, cells and relation triples and the evidence of each of them |
| `LegacyFrame` | the observation of models.py and eye/legacy.py | `FromObservation`, an operator; `MockBackend` applies it to every observation |
| `EvidenceMemory` | eye/memory.py, eye/presenter.py | operators on a memory and a presenter that return success and what is left behind, because a failure may leave something behind as well |
| `NemoAdapter` | integrations/nemo_gym/qudgym/app.py on sessions.py | one action per handler, since no handler awaits anything; the dictionaries by their names; every handler prunes first. The clock may go on by a tick between this and the look at the session (`GoOn`), which `StepLapsed` then finds gone. A closed cookie may be closed again. It runs the presenter of `EvidenceMemory` |
| `Arena` | eye/fixtures.py and the scorer | operators on an arena, on the one row everything happens in |
| `AgentEye` | the loop of eye/cli.py, traces of eye/replay.py | composes `Arena` and `EvidenceMemory` with any player in place of the demo's script |
| `Recorder` | recording.py | one action per operation under the lock; a model call is two, because its body runs outside of the lock. `Writes` is the path of every event: how many were written, how the next one failed, and the stamps, which a refused line uses up as well. An interrupt out of the environment or a model call ends an operation without an end event |

`MC*` modules and their configurations instantiate these for TLC (`BoundaryQueue`
and `Recorder` have a configuration only). The modules `*Proofs` hold the proofs.

`presented`, `ledger`, `used`, `accepted`, `told`, `given`, `since`, `ticket`,
`issued`, `lastBegun`, `withdrawn`, `last` of `MockBackend` (what the latest call
answered), `reply`, `counted`, `onto`, `served`, `lapsed`, `lost`, `ran` and
`failed` are history variables: no guard reads them, except that new identifiers
are drawn as numbers never used, where the code draws 96 to 192 random bits, and
that `failed` (how operations were cut short so far: a write refused, a line kept,
an interrupt) bounds the lines kept by the file's buffer to one. A definition
whose comment begins with "Mutant" is a plausible bug, named beside the definition
it would replace; nothing uses it. Every property is checked to fail under one of
them.

## 3. Runs

| run | instance | shows |
|---|---|---|
| `queue` | 3 requests, capacity 2, 2 decisions, 2 threads, with fairness | types, `NoLostWaiter`, `WithinCapacity`, `NothingOutlivesFault`, `CancelBeforeDispatchHolds`, `DispatchInOrder`; `KeepsPromise`: the queue implements `DecisionHandoff`; `EveryRequestAnswered` |
| `turn_loop` | 3 requests, capacity 2, an engine of 4 decisions | what a caller is told agrees with what the engine did: `RefusedNeverApplied`, `ResultMeansApplied` |
| `reply_window` | 5 identifiers, cache of 3 | the deduplication window of docs/PROTOCOL.md (`ComputedOncePerWindow`), and that replies are never mixed up (`RepeatsTheAnswer`) |
| `rpc_service` | 2 identifiers, cache of 1, 1 snapshot, 2 episodes | every decision names one world, and is stepped from at most once, in that world, whatever is evicted, restored, half done or restarted; the snapshots a sound worker keeps are of its episode |
| `controller` | 5 calls, cache of 1, 2 episodes, 1 snapshot handle | lost and late requests: a request is applied once, a reward is never lost silently, an untroubled environment is in step with its worker |
| `way_out` | the same | a violation, see section 6 |
| `mock_world` | every play of up to 7 decisions, 9 moves of the cursor, 1 snapshot, 2 random streams, 3 crowds, a zone of at most 5 cells a side | determinism over restores, the gate's question, outcome and reward (`OutcomeIsTrue`), and a frame the contract accepts for every observation (`LegacyFrameAccepted`) |
| `nemo_rollouts` | 3 cookies, 1 rollout identity and requests without one, 2 step identifiers, 2 sessions | sessions are neither leaked nor shared (`SessionsOwned`), answers belong to their action (`AnswersItsAction`), retries cost no attempt (`CountedOnce`, except of rollouts in `onto` and of replies given up) |
| `nemo_resets` | 3 cookies, 2 tasks of different representations, 1 step identifier, 2 entries in the reset cache, 2 sessions | a reset hands over the rollout it shows, in the representation of its task (`ResetHandsOver`) |
| `third_render` | 1 cookie, 1 rollout | a violation, see section 6 |
| `agent_eye` | every play of up to 5 decisions with 3 presets, a memory of 11 records, 2 decisions, 2 events | frames and traces are accepted, hidden facts stay hidden, the memory holds the latest evidence, the scorer aims true |
| `recording` | 7 events, 4 scopes, 2 marks, stamps up to 7, a clock that jumps to 3 or falls back to 0, 3 stamps that are read back one short | scopes nest, and stream and spans tell the truth about the steps taken, whichever write fails or operation is interrupted |

Bounds. More requests than the capacity, more identifiers than the cache holds and
more cookies than sessions, so that the limits bite; two decisions are enough for
a stale one, two threads for a wrong one, two episodes for a handle or a decision
of an episode that is over. In `nemo_rollouts` every cache has one place and every
time to live is zero ticks of a clock of one tick (`MaxTime`): an entry is young,
or too old, and one more entry evicts it; two rollouts (`MaxInternal`) are enough
to retry, to move and to expire. A rollout has two attempts there, so that a
request can be counted twice; one is enough for `nemo_resets`, which has two tasks
and two places for them, so that an entry outlives its cookie's next reset. Which
tasks a cookie was reset for (`served`) tells nothing to the properties of
`nemo_rollouts`, nor does a lapsed session that no cookie holds; its states are
told apart without them (`MCView`). Within a handler the clock goes on by one tick
at most, which is enough for a session to expire there. In `mock_world` the zone
is smaller than the map, so that positions outside of it occur; the two random
streams hurt always and now and then, and the crowds hold two contacts of one
name, one outside of the zone, and names that are reserved. In `agent_eye` the
memory holds fewer records, decisions and events than a play discloses. In
`recording` the seven events are a reset, one whole step and the close, or less of
it with a model call and marks in between; one line may be kept by the file's
buffer. Of its stamps 2, 3 and 6 are read back one short (`Short`): 1 and 2 become
equal, so do 5 and 6, and two neighbours move together.

The counters of `RpcService` (`MaxEpisodes`, `MaxGeneration`, `MaxWorlds`,
`MaxHandles`), of `Controller` (`MaxCalls`), of `TurnLoop` (`LastDecision`), of
`MockBackend` (`MaxGeneration`), of `NemoAdapter` (`MaxTime`, `MaxInternal`) and
of `Recorder` (`MaxScopes`, `MaxMarks`, `MaxStamp`) are bounded by guards. The
theorems hold for every value of the bounds. Three systems stop, so that their
runs do not check for deadlock: the controller when it is closed or out of calls,
a finished play of the arena, a closed recorder. The others are checked for it: a
service, a queue or an adapter answers whatever its caches and limits have come
to.

Requests the client of a rollout makes are those it can know of: in `NemoAdapter`
an action names a decision, reached or not, of a rollout that was begun, or cannot
be parsed, and a step identifier may be used again for another action and under
another cookie.

Fairness is assumed in `queue` only: the engine's thread binds the queue
(the remark on InitializeTurnThread requires it of the adapter), comes back to
offer a boundary, and ends what it was given in a frame or an error, which is
what the class comment of BoundaryQueue.cs asks of it. Callers, cancellation,
reconciliation and disposal are not fair: nobody has to do them. The controller
assumes no fairness, since the network owes nothing.

## 4. Proofs

`BoundaryQueueProofs`, for every set of requests, decisions and threads and every
capacity: all safety properties of the run `queue` and the refinement.
The inductive invariant `IInv` joins the properties with `QueueInOrder`
(tickets grow along the queue and exceed that of every dispatched request),
which the order of dispatch needs, and `WithdrawnCancelled`. `NoLostWaiter` and
`OnePlace` need each other: an answer given to a queued request is harmless only
because it is nowhere else. The refinement maps a request to its phase
(`PhaseOf`) and shows of each action which abstract step it is
(`StepKeepsPromise`).

The second half, on `TurnLoop`, goes on from the queue's invariant: an input
offered to the engine belongs to the active request and to the present decision
(`InputHeld`, `InputCurrent`), and a request that was refused or still waits has
not been touched by the engine (`UnreachedUntouched`). The loop is shown to be a
user of the queue that `BoundaryQueue` allows (`LoopImplementsQueue`), so that its
theorems hold of the composition too.

`ControllerProofs`, first of `RpcService` alone, for every set of identifiers and
actions, every size of the cache and every bound: the type invariant, with the
cache; that a decision names one world, is stepped from once, and that steps act
on the world presented; the limit on snapshots, and that those of a sound worker
are of its episode. `SafeInv` says why: everything presented
belongs to an episode given out and is not ahead of the cursor
(`PresentedIsPast`), a sound worker's present world has been presented
(`CursorPresented`), and the cursor has left every decision that was stepped from
(`LedgerIsPast`). Each call is shown to leave all this alone, to move the cursor
on, or to cut the service off from its past until the next reset (`Quiet`,
`MovesOn`, `CutOff`: a reset that fails half way may have begun the next episode
and does so as well).

Then of the `Controller` around it, for every bound on calls: with late requests,
replays and restarts the worker still does only what `RpcService` does
(`WorkerIsRpcService`), so every theorem about the service holds of the
composition; a step is applied once (`AppliedOnce`); no reward is lost silently
(`RewardsAccountedFor`). The invariant `CtlInv` follows the requests through the
network, the call, the in-flight slot and the ledger: an identifier stands for one
operation wherever it appears (`OneOpPerId`), and operations name decisions and
handles told before (`RequestsSent`, `RepliesKnown`), which is what `RpcService`
asks of its callers. From this and the proof that a decision is stepped from once,
`AppliedOnce` follows. `RewardInv` says who still owes the caller what: an
unsettled step is waited for by the call that sent it first, there is no other
copy of it, and once it is committed its result, not an error, is on the way
(`SentOnce`). An environment that never had to report an uncertain request is in
step with its worker (`InStepUntilTold`): as long as no call of the environment
was lost, only harmless requests (observe, snapshot, release) outlive their calls
(`Untroubled`), and a call of the environment is the first to use its identifier
(`FirstUse`), so that its answer is computed, not repeated, and names the worker's
cursor (`StepInv`).

`ReplyWindowProofs`, with the lemmas of `ReplyCacheProofs` on what a hit and a new
answer leave in the cache: an identifier has one entry, kept as it was given; the
entries behind it in the cache are among those used since its last use
(`FreshLast`), and one that is not kept was pushed out by `CacheSize` others
(`PushedOut`). The window, an action property, follows: an identifier is computed
again, for whatever operation, only when it is gone, hence pushed out.

`MockBackendProofs`: every world, kept in a snapshot or played, has its player on
the floor, has counted its turns and shows its outcome truthfully, the time limit
included (`GoodWorld`), and its random stream stands where its turns have left it;
a reward is earned by the step that reaches an end (`StepEarns`,
`OthersEarnNothing`). What `FromObservation` (`LegacyFrame`) makes of any
observation of the protocol is a frame the contract accepts, whatever contacts are
reported in it and whatever the cap of the zone (`LegacyFrames`): claims are
evident (`ClaimsEvident`) and none is made twice (`ClaimsOnce`); the world's
observations are of the protocol (`WorldsPresent`).

`RecorderProofs`, for every budget, every number of scopes and whichever writes
fail or operation is interrupted, whatever the clock reads and whatever stamps are
read back one short: all properties of the run `recording`. The invariant `RInv`
describes the file line by line. The times of its lines increase and none is after
the last stamp (`Stamped`): `Stamps`, a recursive function, is shown to exist step
by step and to rise (`StampsStepwise`, `StampsRise`); a scope
begins once and ends once, after it began (`StartOK`, `EndOK`), which the counters
and the root bound (`Counted`); the lines a buffer still keeps are as good as
written, or will never be. As long as the buffer has kept no line whose write was
reported as failed, the parent of a line was open when it was written (`NestInv`:
`Nested`, `OpenAt`, from `Began` and `Ceased`), so that the stream is a tree
(`StreamNests`). A step is announced before it is taken, and the end of its scope
is written, if at all, with what the environment answered (`StoryInv`,
`RecordTellsTheTruth`). That nothing written is ever changed (`WritesGrow`)
carries all this over a step. The projection to spans is a fold over the file
(`Projected`): what it knows after k lines is stated as a function of these lines,
and proved by induction over k. Reading keeps the order of the file, because the
times increase and become equal at worst (`ReadIsTheFile`). A step's span shows an
outcome exactly when the step succeeded and its end was written.

`NemoAdapterProofs`, for every number of cookies, tasks, requests and rollouts,
every size of the caches and every time to live: all properties of the runs
`nemo_rollouts` and `nemo_resets`. The invariant `NInv` takes the tables of the
adapter as parameters, because every handler works on what pruning leaves and
may close the session at its end: pruning keeps the invariant (`PrunedTables`),
closing keeps it (`CloseKeeps`), the clock's going on keeps it (`GoOnKeeps`), and a
handler is one change in between. Its parts: each open session is held by one
cookie (`RolloutsOK`), and each cookie holds an open session or one that expired
while a handler ran (`HeldOK`); a rollout that can be stepped, being neither
faulted nor expired, has attempts left (`AttemptsLeft`); replies are kept
for open rollouts and for marked closed ones (`RepliesOK`); only a faulted rollout
has a fault (`FaultsOK`). `CountedOnce` needs to know whose replies a cookie has:
those of its own rollout, undated by any mark, unless the rollout was moved onto a
mark (`OwnReplies`); then what was counted and not given up is still in the cache,
and its repetition is answered from there (`CountsOK`). `ResetHandsOver` needs the
entries of the reset cache: a task has one, its cookie was reset for it, and while
no cookie served two tasks the cookie holds no other rollout than the entry's
(`ResetsOK`). That it is shown in the task's representation is an invariant of
its own (`ShownInv`), since rendering never changes a presenter's representation.

`AgentEyeProofs`, for every length of a play, every limit of the memory and
whatever the contacts are called: all properties of the run `agent_eye`. What
holds of one arena is proved of every arena in `Arenas` (the target is alive or
the play is over; a handle is held exactly while a channel discloses the contact;
what a message reveals is identified): its frame is accepted
(`ArenaFramesConsistent`), an arena that differs in what is hidden shows the same
frame (`TwinShowsTheSame`), the scorer reads the right claims, because every claim
has a key of its own (`ClaimsFair`, `ScorerAims`). The inductive invariant
`EyeInv` ties the trace to the game (`GameInv`: the i-th record is the frame of an
arena after i - 1 steps) and the memory to the trace (`MemoryInv`): a record is
what the last frame to disclose its key said (`Evidence`), keys are held once, and
the keys ever disclosed and not held any more are at most as many as were
forgotten. One update is taken apart by `RefreshedIs` (old records keep their
order, the new follow) and `PushedOutCounted` (what falls off the old end is
counted), on lemmas about the helpers of the memory (`AscendingLists`,
`OnlyKeeps`, `NewestKeeps`). That a handle is never given again rests on a counter
that only grows (`HandleInv`). From `EyeInv` it also follows that `update` never
fails halfway: it takes the frame and answers, or it refuses a hypothesis and
changes nothing (`UpdateTakes`, `RefusalChangesNothing`).

The proofs rest on the assumptions on the constants that the modules state
(positive limits, null values outside their sets, identifiers and decisions that
are numbers, `SeedsExist`: there is a seed, `HandlesDiffer`: contacts have
different names, which sort in some order and are none of the fixture's own),
which TLC evaluates as well, and on no others.

Only model-checked: liveness (`EveryRequestAnswered`), since fairness and ENABLED
are beyond the prover. Induction over data is out of reach in general, because the
theorems of the library on recursive definitions take operators as parameters. The
two definitions that have to recurse and are proved about, the stamps and the
projection of the recorder, are recursive functions (`Stamps`, `Projected`), whose
solutions are shown to exist step by step (`SetInduction`, from the
well-foundedness of the numbers); the
sequences of the memory are written without recursion (`Only` and `Fresh`, by the
order of their indices and keys).

## 5. Not modelled, and what the models leave out

- Contents of observations, messages and rewards outside of `MockBackend`, which has
  tiles, prompt, candidates, rewards and whether there is a message. Labels and texts.
- The token and URL checks, message sizes and header checks (one rejection each).
- `MockBackend.close` behind the service: no operation of the protocol reaches it.
- Requests duplicated by the network itself: TCP delivers a request of one
  connection once. Duplicates come from the controller's own replays.
- Several controllers on one worker: `RpcService` takes arbitrary requests in any
  order and covers them; `Controller` has one.
- Snapshot handles reused by chance. In `MockBackend` a released handle may come
  back, which is harmless there.
- The engine's side of the bridge is external, as far as its contract goes.
- Texts: their clipping and wording; a contact's name is a number, its status a
  number or missing. The vocabularies, lengths, numbers of elements and bytes that
  eye/contracts.py and models.py limit, and the channels of relations and events.
- The arena's cells outside of its one row and the facts that never change.
- The recorder's file that cannot be closed, and the marks of the projection to
  spans; export_atif, which calls an external converter.
- eye/encoding.py (its size limit is a choice in `EvidenceMemory`), eye/builds.py,
  native_exports.py, compat.py with its C# diagnostic and probe, policy.py, cli.py
  and the scripts are validation or inspection in one go: functions from a file or
  a view to a report, without a state that lives on. TrajectoryRecorder has none
  but its file and promises nothing when a write fails.

## 6. Findings

### An environment without a way on (`way_out`)

An environment that lost the reply to a mutation is told "Replay the uncertain
request or reconcile before a new mutation" (src/qudgym/env.py:20). In the run
`way_out` the mutation was a reset which the worker answered with internal_error.
The replay is given that stored error; HttpBackend takes the request as resolved
and forgets it, but QudEnv stays uncertain. A second replay has nothing to replay,
reconciliation calls observe(), which a faulted worker refuses ("Reset this worker
after an internal failure", src/qudgym/rpc.py:34), and a reset is refused by the
guard. No call of this environment gets on; what is left is to close it and to
make a new one. A restart of the worker between the loss and the replay of a step
ends in the same state, with reset_required in place of worker_faulted.

### A decision shown three times (`third_render`)

docs/AGENT_EYE.md:98 says "Repeated identical decisions are idempotent."
`ObservationPresenter.render` repeats a decision once only: the second rendering
shifts the decision into `_last_parent_decision_id` (presenter.py:49-50), so that
the third builds a frame which is its own parent, and `Frame.consistent` refuses
it. The adapter renders the present decision again after every rejected action,
outside of the `try` that records faults (app.py:376-384): with agent-eye-v1 two
rejected actions in a row end in HTTP 500 and a faulted rollout.

### Behaviour no document promises otherwise

Met while modelling; the models contain it and the properties are stated around it.

- app.py:258-279. An entry of the reset cache is not invalidated when its cookie
  is later reset to another rollout. Repeating the first reset returns the first
  observation of the rollout that is gone, while the cookie holds the other one,
  whose representation may be another one too: "Reset identities include the
  selected representation" (docs/AGENT_EYE.md:171) holds of the identities, not of
  what the answered cookie holds. Under another cookie the repeated reset even
  moves the other rollout. `ResetHandsOver` is stated, checked and proved for as
  long as every cookie is used for one task (`OneTaskPerCookie`); without that
  condition it says only that the cookie holds an open rollout. A rollout moved to
  another cookie leaves that cookie's old step replies and closed marker where they
  were: reused step identifiers find the old replies, and the marker's age later
  prunes live ones (`CountedOnce` excepts these rollouts by `onto`).
- recording.py. The root is set before its start is written, and a root whose end
  fails to be written stays open. A line that was written but not flushed may reach
  the file after the operation reported a failure. A budget that runs out after the
  step was committed hides its transition from the caller. After a reconciliation
  the environment has no current transition, and steps and resets are refused. A
  failed reset and a failed model call end in events whose spans carry no ERROR
  status. Time stamps pass through a float and may read a microsecond short; the
  order of equal ones is that of the file.
- replay.py. `write_trace` does not check the chain that `read_trace` demands: a
  trace with a repeated decision can be written and not read.

## 7. Plan

Done: the boundary queue, its abstract promise and its composition with an
engine; the reply cache; the service; the controller; the reference world and its
frames; the evidence memory and its presenter; the adapter on its sessions; the
arena; the recorder; the proofs of section 4, which state every invariant the runs
check.

Left, in this order:

1. `MockBackend` shown to implement the abstract backend of `RpcService`: the token
   of a world mapped to a world with its stream.
2. The presenter around the memory on its own: that a view which cannot be emitted
   leaves it where the next frame of the same branch is taken.
3. Two controllers on one worker, and a NeMo client with several rollouts at once.
