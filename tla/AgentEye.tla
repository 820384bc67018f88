------------------------------ MODULE AgentEye ------------------------------
(***************************************************************************)
(* An agent in the arena: the loop of demo_records in                      *)
(* src/qudgym/eye/cli.py, with any player in place of its script, and the  *)
(* trace src/qudgym/eye/replay.py accepts.  The arena shows a frame, the   *)
(* memory turns it into a view, the agent chooses one of its actions.      *)
(***************************************************************************)
EXTENDS Arena, EvidenceMemory

VARIABLES
    arena,       \* ArenaFixture
    memory,      \* EvidenceMemory
    trace,       \* the records: frames and the actions selected
    lost         \* history: handles of contacts that were lost

eyeVars == <<arena, memory, trace, lost>>

EyeInit == /\ \E preset \in Presets : arena = NewArena(preset)
           /\ memory = EmptyMemory /\ trace = <<>> /\ lost = {}

Finished == trace # <<>> /\ Last(trace).frame.phase = "terminal"

\* One round: update the memory, record the view, and play.  based: decisions
\* the agent's hypotheses are based on.
Shown(based) == Update(memory, Observe(arena), based)

Play(act, based) ==
    /\ Shown(based).ok /\ act \in Actions(arena)
    /\ memory' = Shown(based).mem
    /\ trace' = Append(trace, [frame |-> Observe(arena), selected |-> act.id])
    /\ arena' = StepArena(arena, act)
    /\ lost' = IF arena'.contact = arena.contact THEN lost ELSE (lost \cup {arena.contact}) \ {0}

\* The last record has no action.
Finish ==
    /\ Terminal(arena) /\ ~Finished /\ Shown({}).ok
    /\ memory' = Shown({}).mem
    /\ trace' = Append(trace, [frame |-> Observe(arena), selected |-> ""])
    /\ UNCHANGED <<arena, lost>>

\* A hypothesis about a decision the memory no longer has, or never had.
Refuse(based) ==
    /\ ~Finished /\ ~Shown(based).ok
    /\ memory' = Shown(based).mem
    /\ UNCHANGED <<arena, trace, lost>>

Decisions == {<<n>> : n \in 0..arena.sequence}

EyeNext ==
    \/ Finish
    \/ \E based \in {{}} \cup {{d} : d \in Decisions} :
        \/ Refuse(based)
        \/ \E act \in Actions(arena) : Play(act, based)

EyeSpec == EyeInit /\ [][EyeNext]_eyeVars

-----------------------------------------------------------------------------
(* read_trace and Record.selected_from_candidates                          *)

Readable(records) ==
    \A i \in DOMAIN records :
        LET f == records[i].frame
            before == {records[j].frame.decision : j \in 1..i - 1}
        IN  /\ f.decision \notin before
            /\ records[i].selected \in {a.id : a \in f.actions} \cup {""}
            /\ IF i = 1 THEN f.parent = None
               ELSE LET g == records[i - 1].frame IN
                    /\ f.episode = g.episode /\ f.branch = g.branch
                    /\ f.parent = g.decision /\ f.turn >= g.turn

-----------------------------------------------------------------------------
(* Properties                                                              *)

\* Every frame of the arena is one the contract accepts and the memory takes,
\* and the records make a trace that can be read back.
FramesAccepted ==
    /\ Consistent(Observe(arena))
    /\ Finished \/ Shown({}).ok
    /\ Readable(trace)

\* What the agent is shown depends on what its channels disclose and on nothing
\* else: an arena that differs in the place of an unperceived target, in the
\* hits it can take or in the name of an unidentified artifact shows the same
\* frame.  Nor does a handle tell that a contact found again is the old one.
HiddenStaysHidden ==
    /\ \A x \in 1..7, hp \in 1..2, name \in 1..2 :
        LET twin == [arena EXCEPT !.targetX = x, !.targetHp = hp, !.artifactName = name] IN
        (/\ arena.targetHp > 0
         /\ ChannelOf(twin) = ChannelOf(arena)
         /\ ChannelOf(arena) # "" => x = arena.targetX
         /\ arena.identified => name = arena.artifactName)
            => Observe(twin) = Observe(arena)
    /\ arena.contact \notin lost

\* The memory holds the latest evidence for what it holds, from the decision
\* that disclosed it, and counts what it had to forget; a refused hypothesis
\* leaves it as it was.
MemoryIsTheEvidence ==
    LET frames == [i \in DOMAIN trace |-> trace[i].frame]
        Latest(key) == CHOOSE i \in DOMAIN frames :
                          /\ key \in KeysOf(frames[i])
                          /\ \A j \in DOMAIN frames : j > i => key \notin KeysOf(frames[j])
        ever == UNION {KeysOf(frames[i]) : i \in DOMAIN frames}
        held == {r.key : r \in ToSet(memory.records)}
    IN
    /\ memory.frame = IF trace = <<>> THEN {} ELSE {Last(frames)}
    /\ \A r \in ToSet(memory.records) :
        LET f == frames[Latest(r.key)] IN
        /\ r.decision = f.decision
        /\ \E c \in Known(f) : c.key = r.key /\ c.value = r.value /\ c.turn = r.turn
    /\ Cardinality(held) = Len(memory.records) /\ Len(memory.records) <= MaxRecords
    /\ Cardinality(ever \ held) <= memory.forgotten
    /\ Len(memory.events) + memory.forgottenEvents = Len(trace)

\* What the frame discloses is enough to aim: the scorer prefers an attack
\* exactly when the arena would let it hit.
ScorerAimsTrue ==
    \A act \in Actions(arena) :
        act.id = "use" => (Score(Observe(arena), act) = 100 <=> CanHit(arena))
=============================================================================
