---------------------------- MODULE LegacyFrame ----------------------------
(***************************************************************************)
(* The observation of src/qudgym/models.py, and the frame that             *)
(* src/qudgym/eye/legacy.py makes of it.                                   *)
(*                                                                         *)
(* A row of tiles is a sequence of glyph numbers, 0 for "?", an action's   *)
(* arguments are a sequence of at most one offset <<dx, dy>>, a message is *)
(* a model value, the name and the status of a contact are numbers, Null   *)
(* for no status.  The clipping of texts is left out; the cap on a zone's  *)
(* sides is ZoneCap.                                                       *)
(***************************************************************************)
EXTENDS FrameContract

CONSTANT ZoneCap             \* _ZONE

ASSUME ZoneCapIsPositive == ZoneCap \in Nat \ {0}

\* Observation.consistent_boundary, Player.valid_hp
ObservationOK(o) ==
    /\ OneEach(o.actions)
    /\ o.phase = "prompt" <=> o.prompt
    /\ o.phase = "terminal" <=> o.actions = {}
    /\ \A i, j \in DOMAIN o.tiles : Len(o.tiles[i]) = Len(o.tiles[j])
    /\ 0 <= o.hp /\ o.hp <= o.maxHp /\ o.maxHp > 0

\* Transition.consistent_end
TransitionOK(t) ==
    /\ ~(t.terminated /\ t.truncated)
    /\ t.terminated \/ t.truncated <=> t.observation.phase = "terminal"
    /\ t.terminated <=> t.outcome \in {"success", "death"}
    /\ t.truncated <=> t.outcome = "time_limit"

Longest(rows) ==
    IF rows = <<>> THEN 0
    ELSE CHOOSE n \in {Len(rows[i]) : i \in DOMAIN rows} :
            \A i \in DOMAIN rows : Len(rows[i]) <= n

Least(a, b) == IF a < b THEN a ELSE b

\* The sides of the one zone, 0 when the tiles show nothing.
ZoneWidth(o) == Least(ZoneCap, Longest(o.tiles))
ZoneHeight(o) == IF ZoneWidth(o) = 0 THEN 0 ELSE Least(ZoneCap, Len(o.tiles))

\* place: positions outside the zone are omitted, not rejected.
Placed(o, x, y) ==
    IF x \in 0 .. ZoneWidth(o) - 1 /\ y \in 0 .. ZoneHeight(o) - 1
    THEN <<"legacy-mock-zone", x, y>> ELSE None

CellsOf(o) == {c \in (0 .. ZoneWidth(o) - 1) \X (0 .. ZoneHeight(o) - 1) :
                  c[1] < Len(o.tiles[c[2] + 1]) /\ o.tiles[c[2] + 1][c[1] + 1] # 0}

\* The contacts taken over: the first under each name, and none that uses the
\* player's name or the reserved namespace.
ContactsOf(o) == {i \in DOMAIN o.entities :
                     /\ o.entities[i].id \notin {"legacy-player", "cell:"}
                     /\ \A j \in 1 .. i - 1 : o.entities[j].id # o.entities[i].id}

EntitiesOf(o) ==
    {[id |-> "legacy-player", kind |-> "actor", at |-> Placed(o, o.x, o.y)]}
    \cup {[id |-> o.entities[i].id, kind |-> "contact",
           at |-> Placed(o, o.entities[i].x, o.entities[i].y)] : i \in ContactsOf(o)}

\* What is disclosed of the player, of the contact i and of the cells.
ClaimsOf(o) ==
    LET Seen(sort, slot, channel, value) ==
            [sort |-> sort, slot |-> slot, status |-> "observed", channel |-> channel,
             value |-> value, turn |-> o.turn]
        Located(id, channel, x, y) ==
            IF Placed(o, x, y) = None THEN {} ELSE {Seen("position", <<id>>, channel, x)}
        Contact(e) ==
            {Seen("fact", <<e.id, "name">>, "vision", e.name)}
            \cup (IF e.status = Null THEN {}
                  ELSE {Seen("fact", <<e.id, "effect">>, "vision", e.status)})
            \cup Located(e.id, "vision", e.x, e.y)
    IN  {Seen("fact", <<"legacy-player", "hp">>, "self", o.hp),
         Seen("fact", <<"legacy-player", "max_hp">>, "self", o.maxHp)}
        \cup Located("legacy-player", "self", o.x, o.y)
        \cup (UNION {Contact(o.entities[i]) : i \in ContactsOf(o)})
        \cup {Seen("layer", <<c[1], c[2], "glyph">>, "vision", o.tiles[c[2] + 1][c[1] + 1]) :
                 c \in CellsOf(o)}

DestinationOf(o, a) ==
    IF a.arguments = <<>> THEN None
    ELSE Placed(o, o.x + a.arguments[1][1], o.y + a.arguments[1][2])

\* Only a move may have arguments; another action's raise ValueError.
Lossless(o) == \A a \in o.actions : a.arguments = <<>> \/ a.kind = "move"

\* from_observation of a lossless observation
FromObservation(o) ==
    [episode |-> o.episode, branch |-> o.episode, decision |-> o.decision, parent |-> None,
     turn |-> o.turn, phase |-> o.phase, actor |-> "legacy-player",
     zones |-> IF ZoneHeight(o) = 0 THEN {}
               ELSE {[id |-> "legacy-mock-zone", width |-> ZoneWidth(o),
                      height |-> ZoneHeight(o),
                      cells |-> {[at |-> c, layers |-> {"glyph"}] : c \in CellsOf(o)}]},
     entities |-> EntitiesOf(o), claims |-> ClaimsOf(o), relations |-> {},
     events |-> [i \in DOMAIN o.messages |->
                    [id |-> i, status |-> "observed", turn |-> o.turn, subjects |-> {}]],
     prompt |-> o.prompt,
     actions |-> {[id |-> a.id, operation |-> IF a.kind = "ability" THEN "use" ELSE a.kind,
                   source |-> "legacy-player", target |-> "",
                   destination |-> DestinationOf(o, a)] : a \in o.actions}]
=============================================================================
