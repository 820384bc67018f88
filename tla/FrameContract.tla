--------------------------- MODULE FrameContract ---------------------------
(***************************************************************************)
(* What the validators of src/qudgym/eye/contracts.py accept as a frame.   *)
(*                                                                         *)
(* A frame is [episode, branch, decision, parent, turn, phase, actor,      *)
(* zones, entities, claims, relations, events, prompt, actions].  A claim  *)
(* is a fact, a position or a layer of a cell with its evidence: [sort,    *)
(* slot, status, channel, value, turn].  Its slot is what it is about: the *)
(* entity and the attribute, the entity, or the cell and the layer; its    *)
(* value is a number.  A zone's cells are [at, layers].                    *)
(*                                                                         *)
(* Entities, zones, cells, claims, relations and actions are sets, so a    *)
(* duplicate is a second value under an identifier in use.  No reference   *)
(* is "", no place and no decision <<>>; "cell:" stands for every name in  *)
(* the namespace the memory reserves.  Left out are the limits on lengths, *)
(* on numbers of elements and on the bytes of a frame, and the channels of *)
(* relations and events.                                                   *)
(***************************************************************************)
EXTENDS Integers, FiniteSets, Sequences

None == <<>>
Null == -1

\* unknown_channel, unknown_is_not_zero, known_location
EvidenceOK(c) ==
    /\ (c.status = "unknown") <=> (c.channel = "unknown")
    /\ (c.value = Null) <=> (c.status = "unknown")
    /\ c.sort = "position" => c.status # "unknown"

OneEach(s) == \A a, b \in s : a.id = b.id => a = b

\* unique_properties, one location, duplicate layer IDs
OneClaimEach(s) == \A c, d \in s : c.sort = d.sort /\ c.slot = d.slot => c = d

\* A place is <<zone, x, y>>.
InsideZones(f, place) ==
    \E z \in f.zones : z.id = place[1] /\ place[2] \in 0..z.width - 1
                                       /\ place[3] \in 0..z.height - 1

\* valid_cells, nonempty
ZoneOK(z) ==
    /\ z.width > 0 /\ z.height > 0
    /\ \A c \in z.cells : /\ c.at[1] \in 0..z.width - 1 /\ c.at[2] \in 0..z.height - 1
                          /\ c.layers # {}
    /\ \A c, d \in z.cells : c.at = d.at => c = d

\* "observed" is a current observation; reports may be older, never younger.
Dated(f, e) == /\ e.turn <= f.turn
               /\ e.status = "observed" => e.turn = f.turn

\* Relations and events that are not known are omitted: known_or_omitted.
KnownNow(f, e) == e.status # "unknown" /\ Dated(f, e)

\* At most one relation of a kind from one thing to another.
OneTripleEach(s) ==
    \A r, q \in s : r.subject = q.subject /\ r.predicate = q.predicate /\ r.object = q.object
                    => r = q

\* Frame.consistent and the validators of its parts
Consistent(f) ==
    LET refs == {e.id : e \in f.entities}
        EventAt(i) == f.events[i]
    IN
    /\ f.parent # f.decision
    /\ OneEach(f.entities) /\ OneEach(f.zones) /\ OneEach(f.actions)
    /\ \A i, j \in DOMAIN f.events : EventAt(i).id = EventAt(j).id => i = j
    /\ IF f.actor = "" THEN f.phase \in {"creation", "terminal"}
       ELSE \E e \in f.entities : e.id = f.actor /\ e.kind = "actor"
    /\ f.prompt <=> f.phase = "prompt"
    /\ f.actions = {} <=> f.phase = "terminal"
    /\ \A e \in f.entities : /\ e.id # "cell:"
                             /\ e.at # None => InsideZones(f, e.at)
    /\ \A z \in f.zones : ZoneOK(z)
    /\ OneClaimEach(f.claims)
    /\ \A c \in f.claims : EvidenceOK(c) /\ Dated(f, c)
    /\ OneTripleEach(f.relations)
    /\ \A r \in f.relations : {r.subject, r.object} \subseteq refs /\ KnownNow(f, r)
    /\ \A i \in DOMAIN f.events : EventAt(i).subjects \subseteq refs /\ KnownNow(f, EventAt(i))
    /\ \A a \in f.actions : /\ {a.source, a.target} \subseteq refs \cup {""}
                            /\ a.destination # None => InsideZones(f, a.destination)
=============================================================================
