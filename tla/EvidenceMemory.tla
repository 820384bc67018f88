--------------------------- MODULE EvidenceMemory ---------------------------
(***************************************************************************)
(* The evidence memory of the agent eye (src/qudgym/eye/memory.py) and the *)
(* presenter that feeds it (src/qudgym/eye/presenter.py), as operators on  *)
(* values: an operation returns whether it succeeded and what it left      *)
(* behind, because a failure may leave something behind too.               *)
(*                                                                         *)
(* Of a frame the memory uses [episode, branch, decision, parent, turn,    *)
(* claims, events].  A claim has a key beside what the contract asks for:  *)
(* it stands for the quadruple (subject, attribute, status, channel), and  *)
(* its order for the order the code sorts by.                              *)
(***************************************************************************)
EXTENDS FrameContract, SequencesExt

CONSTANTS MaxRecords, MaxDecisions, MaxEvents      \* the limits of __init__

ASSUME MemoryLimits == {MaxRecords, MaxDecisions, MaxEvents} \subseteq Nat \ {0}

EmptyMemory == [frame |-> {}, records |-> <<>>, decisions |-> <<>>, events |-> <<>>,
                forgotten |-> 0, forgottenEvents |-> 0]                 \* reset

-----------------------------------------------------------------------------
(* EvidenceMemory.update                                                   *)

\* A finite set of integers in increasing order.
Ascending(S) ==
    [k \in 1..Cardinality(S) |-> CHOOSE x \in S : Cardinality({y \in S : y < x}) = k - 1]

\* The members of the sequence s that are in the set keep, in their order:
\* SelectSeq, without recursion so that it can be proved about.
Only(s, keep) ==
    LET at == Ascending({i \in DOMAIN s : s[i] \in keep})
    IN  [k \in DOMAIN at |-> s[at[k]]]

Repeats(mem, f) == f.decision \in ToSet(mem.decisions)

\* The conditions on the chain of frames.
Follows(mem, f) ==
    IF mem.frame = {} THEN f.parent = None
    ELSE \A g \in mem.frame :
            /\ f.episode = g.episode /\ f.turn >= g.turn /\ f.branch = g.branch
            /\ IF Repeats(mem, f) THEN f = g ELSE f.parent = g.decision

Over(s, limit) == IF Len(s) > limit THEN Len(s) - limit ELSE 0
Newest(s, limit) == SubSeq(s, Over(s, limit) + 1, Len(s))

\* The decisions a hypothesis may refer to, looked at before anything changes.
Retained(mem, f) ==
    IF Repeats(mem, f) THEN ToSet(mem.decisions)
    ELSE ToSet(Newest(Append(mem.decisions, f.decision), MaxDecisions))

Known(f) == {c \in f.claims : c.status # "unknown"}
KeysOf(f) == {c.key : c \in Known(f)}

\* The records of a frame, in the order of their keys.
Fresh(f, claims) ==
    LET keys == Ascending({c.key : c \in claims})
    IN  [k \in DOMAIN keys |->
            LET c == CHOOSE x \in claims : x.key = keys[k]
            IN  [key |-> c.key, value |-> c.value, turn |-> c.turn, decision |-> f.decision]]

\* Mutant: a claim seen again keeps its old evidence.
KeepFirst(mem, f) ==
    mem.records \o Fresh(f, {c \in Known(f) : \A r \in ToSet(mem.records) : r.key # c.key})

\* Claims seen again move to the young end; an unknown one erases nothing.
Refreshed(mem, f) ==
    Only(mem.records, {r \in ToSet(mem.records) : r.key \notin KeysOf(f)}) \o Fresh(f, Known(f))

EventsWith(mem, f) ==
    mem.events \o [i \in DOMAIN f.events |-> [event |-> f.events[i], decision |-> f.decision]]

Remember(mem, f) ==
    [frame |-> {f},
     records |-> Newest(Refreshed(mem, f), MaxRecords),
     forgotten |-> mem.forgotten + Over(Refreshed(mem, f), MaxRecords),
     events |-> Newest(EventsWith(mem, f), MaxEvents),
     forgottenEvents |-> mem.forgottenEvents + Over(EventsWith(mem, f), MaxEvents),
     decisions |-> Newest(Append(mem.decisions, f.decision), MaxDecisions)]

\* _view: what the agent is shown beside the current frame.
View(mem, f) ==
    [current |-> f,
     remembered |-> {r \in ToSet(mem.records) : r.key \notin KeysOf(f)},
     rememberedEvents |-> Only(mem.events, {e \in ToSet(mem.events) : e.decision # f.decision}),
     forgotten |-> mem.forgotten, forgottenEvents |-> mem.forgottenEvents]

\* AgentView.no_future_memory
NoFutureMemory(view) ==
    /\ \A r \in view.remembered : r.turn <= view.current.turn
    /\ \A e \in ToSet(view.rememberedEvents) : e.event.turn <= view.current.turn

\* based: the decisions the caller's hypotheses are based on.
Update(mem, f, based) ==
    IF ~Follows(mem, f) \/ ~(based \subseteq Retained(mem, f))
    THEN [ok |-> FALSE, mem |-> mem]
    ELSE LET m == IF Repeats(mem, f) THEN mem ELSE Remember(mem, f)
         IN  [ok |-> /\ based \subseteq ToSet(m.decisions)
                     /\ NoFutureMemory(View(m, f)),
              mem |-> m]

-----------------------------------------------------------------------------
(* ObservationPresenter; an observation is [episode, decision, turn,       *)
(* claims, events].                                                        *)

NewPresenter(representation) ==
    [representation |-> representation, memory |-> EmptyMemory, branch |-> 0,
     last |-> None, lastParent |-> None]

\* A new episode is a boundary of the memory.
AtEpisode(p, o) ==
    IF p.branch = o.episode THEN p
    ELSE [NewPresenter(p.representation) EXCEPT !.branch = o.episode]

ParentOf(p, o) == IF p.last # o.decision THEN p.last ELSE p.lastParent

\* The frame of legacy.from_observation; see LegacyFrame for its other fields.
FrameOf(p, o) == [episode |-> o.episode, branch |-> p.branch, decision |-> o.decision,
                  parent |-> ParentOf(p, o), turn |-> o.turn,
                  claims |-> o.claims, events |-> o.events]

\* fits: the encoded view is within its byte budget (encoding.text).  A frame
\* that names itself its parent is refused while it is built, outside the try
\* block that would reset the memory.
Render(presenter, o, fits) ==
    LET p == AtEpisode(presenter, o)
        up == Update(p.memory, FrameOf(p, o), {})
    IN  IF p.representation = "native" THEN [ok |-> TRUE, presenter |-> presenter]
        ELSE IF ParentOf(p, o) = o.decision THEN [ok |-> FALSE, presenter |-> p]
        ELSE IF up.ok /\ fits
        THEN [ok |-> TRUE,
              presenter |-> [p EXCEPT !.memory = up.mem, !.lastParent = p.last,
                                      !.last = o.decision]]
        ELSE [ok |-> FALSE,
              presenter |-> [p EXCEPT !.memory = EmptyMemory, !.last = None,
                                      !.lastParent = None]]
=============================================================================
