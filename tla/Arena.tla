------------------------------- MODULE Arena -------------------------------
(***************************************************************************)
(* The practice arena of src/qudgym/eye/fixtures.py and the rule that      *)
(* scores its actions, as operators on an arena.  Everything happens on    *)
(* the row y = 2; the cells of the other rows, and the facts that never    *)
(* change (names, hit points, anatomy), are left out.  The memory turns    *)
(* relations into records too; as they never change either, these are left *)
(* out of the claims.                                                      *)
(***************************************************************************)
EXTENDS FrameContract

CONSTANTS Limit,             \* max_decisions
          Handles,           \* the names of the contacts: c1, c2, ...
          HandleRank         \* the place of each in the order of these names

ASSUME LimitIsPositive == Limit \in Nat \ {0}
ASSUME HandlesDiffer ==
    LET numbers == 1..Limit + 1 IN
    /\ Handles \in [numbers -> STRING \ {"", "cell:", "p", "hand", "weapon", "ability", "ammo",
                                         "artifact", "sense"}]
    /\ HandleRank \in [numbers -> numbers]
    /\ \A m, n \in numbers : (Handles[m] = Handles[n] \/ HandleRank[m] = HandleRank[n]) => m = n

Presets == {"blade", "bow", "listener"}
Row == 2
Distance(x, y) == IF x > y THEN x - y ELSE y - x

\* What is perceived of the target, if anything.
ChannelOf(a) ==
    CASE a.targetHp <= 0 -> ""
      [] a.targetHp > 0 /\ Distance(a.targetX, a.x) <= 3 -> "vision"
      [] a.targetHp > 0 /\ Distance(a.targetX, a.x) \in 4..6 ->
            IF a.preset = "listener" THEN "hearing" ELSE ""
      [] OTHER -> ""

\* _refresh_contact: handles follow continuous contact only.
RefreshContact(a) ==
    CASE ChannelOf(a) = "" -> [a EXCEPT !.contact = 0]
      [] ChannelOf(a) # "" /\ a.contact # 0 -> a
      [] OTHER -> [a EXCEPT !.contact = a.contacts + 1, !.contacts = @ + 1]

\* reset
NewArena(preset) ==
    RefreshContact(
        [preset |-> preset, sequence |-> 0, turn |-> 0, cooldown |-> 0, x |-> 3,
         ammo |-> IF preset = "bow" THEN 3 ELSE 0,
         targetX |-> 5, targetHp |-> 2, artifactName |-> 1,
         contacts |-> 0, contact |-> 0,
         pending |-> FALSE, identified |-> FALSE, outcome |-> "ongoing", message |-> "start"])

Terminal(a) == a.outcome # "ongoing"

-----------------------------------------------------------------------------
(* observe                                                                 *)

Reach(a) == IF a.preset = "bow" THEN 4 ELSE 1
HasAmmo(a) == a.preset # "bow" \/ a.ammo > 0

\* Mutant: a weapon that cools down is called ready.
ReadyHot(a) == HasAmmo(a)

Ready(a) == a.cooldown = 0 /\ HasAmmo(a)

Here(x) == <<"arena", x, Row>>

\* Keys follow the order of (subject, attribute, status, channel): ability,
\* ammo, artifact, contacts, cells, player.  The slot is the key whatever the
\* status and the channel; a contact is located once, seen or heard.
CellKey(x) == 10 * (Limit + 2) + x
PlayerKey == 10 * (Limit + 3)

Claims(a) ==
    LET Seen(sort, slot, key, channel, value) ==
            [sort |-> sort, slot |-> slot, key |-> key, status |-> "observed",
             channel |-> channel, value |-> value, turn |-> a.turn]
        Fact(key, channel, value) == Seen("fact", key, key, channel, value)
        Unknown(key) == [sort |-> "fact", slot |-> key, key |-> key, status |-> "unknown",
                         channel |-> "unknown", value |-> Null, turn |-> a.turn]
        channel == ChannelOf(a)
        handle == 10 * HandleRank[a.contact]
    IN  {Fact(1, "self", a.cooldown), Fact(2, "self", Reach(a)),
         Fact(3, "self", IF Ready(a) THEN 1 ELSE 0), Fact(4, "self", a.ammo),
         IF a.identified THEN Fact(5, "inspection", a.artifactName) ELSE Unknown(5),
         Seen("position", PlayerKey, PlayerKey, "self", a.x)}
        \cup {Seen("layer", CellKey(x), CellKey(x), "vision", IF x \in {0, 8} THEN 1 ELSE 0) :
                 x \in {y \in 0..8 : Distance(y, a.x) <= 3}}
        \cup CASE channel = "vision" ->
                    {Fact(handle + 1, channel, 1),
                     Seen("position", handle + 2, handle + 3, channel, a.targetX)}
               [] channel = "hearing" ->
                    {Unknown(handle + 1),
                     Seen("position", handle + 2, handle + 2, channel, a.targetX)}
               [] OTHER -> {}

Things(a) ==
    {[id |-> "p", kind |-> "actor", at |-> Here(a.x)]}
    \cup {[id |-> t[1], kind |-> t[2], at |-> None] :
             t \in {<<"hand", "body_part">>, <<"weapon", "item">>, <<"ability", "ability">>,
                    <<"ammo", "item">>, <<"artifact", "item">>}
                   \cup (IF a.preset = "listener" THEN {<<"sense", "ability">>} ELSE {})}

\* Mutant: a contact once made keeps being tracked.
EntitiesTracked(a) ==
    Things(a) \cup (IF a.targetHp > 0
                    THEN {[id |-> Handles[a.contacts], kind |-> "contact",
                           at |-> Here(a.targetX)]}
                    ELSE {})

Entities(a) ==
    Things(a) \cup (IF ChannelOf(a) # "" /\ a.contact # 0
                    THEN {[id |-> Handles[a.contact], kind |-> "contact",
                           at |-> Here(a.targetX)]}
                    ELSE {})

Relations(a) ==
    {[subject |-> r[1], predicate |-> r[2], object |-> r[3], status |-> "observed",
      turn |-> a.turn] :
        r \in {<<"p", "carries", "weapon">>, <<"p", "carries", "artifact">>,
               <<"p", "carries", "ammo">>, <<"hand", "part_of", "p">>,
               <<"weapon", "equipped_in", "hand">>, <<"weapon", "provides", "ability">>}
              \cup (IF a.preset = "listener" THEN {<<"p", "provides", "sense">>} ELSE {})}

Act(id, operation, source, target, destination, cost) ==
    [id |-> id, operation |-> operation, source |-> source, target |-> target,
     destination |-> destination, cost |-> cost]

\* Mutant: a finished arena still offers to rest.
ActionsAfterEnd(a) == {Act("rest", "wait", "", "", None, 1)}

Actions(a) ==
    IF Terminal(a) THEN {}
    ELSE IF a.pending THEN {Act(id, "answer", "", "", None, 0) : id \in {"yes", "no"}}
    ELSE (IF a.x < 7 THEN {Act("forward", "move", "p", "", Here(a.x + 1), 1)} ELSE {})
         \cup (IF a.x > 1 THEN {Act("back", "move", "p", "", Here(a.x - 1), 1)} ELSE {})
         \cup {Act("rest", "wait", "", "", None, 1),
               Act("look", "inspect", "", "artifact", None, 0)}
         \cup (IF a.contact # 0 /\ ChannelOf(a) # ""
               THEN {Act("use", IF a.preset = "bow" THEN "fire" ELSE "attack", "ability",
                         Handles[a.contact], None, 1)}
               ELSE {})

Observe(a) ==
    [episode |-> 1, branch |-> 1,
     decision |-> <<a.sequence>>,
     parent |-> IF a.sequence = 0 THEN None ELSE <<a.sequence - 1>>,
     turn |-> a.turn,
     phase |-> IF Terminal(a) THEN "terminal" ELSE IF a.pending THEN "prompt" ELSE "command",
     actor |-> "p",
     zones |-> {[id |-> "arena", width |-> 9, height |-> 5,
                 cells |-> {[at |-> <<x, Row>>, layers |-> {"ground"}] :
                               x \in {y \in 0..8 : Distance(y, a.x) <= 3}}]},
     entities |-> Entities(a), claims |-> Claims(a), relations |-> Relations(a),
     events |-> <<[id |-> a.sequence, status |-> "observed", turn |-> a.turn, subjects |-> {},
                   text |-> <<a.message, IF a.message = "reveals" THEN a.artifactName ELSE 0>>]>>,
     prompt |-> a.pending /\ ~Terminal(a),
     actions |-> Actions(a)]

-----------------------------------------------------------------------------
(* step, with the current decision and one of its actions                  *)

CanHit(a) == a.cooldown = 0 /\ HasAmmo(a) /\ Distance(a.targetX, a.x) <= Reach(a)

Done(a, act) ==
    CASE act.id = "forward" -> [a EXCEPT !.x = @ + 1]
      [] act.id = "back" -> [a EXCEPT !.x = @ - 1]
      [] act.id = "look" -> [a EXCEPT !.pending = TRUE, !.message = "opened"]
      [] act.id = "yes" -> [a EXCEPT !.pending = FALSE, !.identified = TRUE,
                                     !.message = "reveals"]
      [] act.id = "no" -> [a EXCEPT !.pending = FALSE]
      [] OTHER -> a

Struck(a) == [a EXCEPT !.targetHp = @ - 1, !.cooldown = 2, !.message = "struck",
                       !.ammo = IF a.preset = "bow" THEN @ - 1 ELSE @]

\* Whether a shot can hit is looked at before the clock moves on.
StepArena(a, act) ==
    LET ticked == [a EXCEPT !.turn = @ + act.cost, !.message = "nothing",
                            !.cooldown = IF @ > act.cost THEN @ - act.cost ELSE 0]
        done == IF act.id # "use" THEN Done(ticked, act)
                ELSE IF CanHit(a) THEN Struck(ticked)
                ELSE [ticked EXCEPT !.message = "no effect"]
        counted == [done EXCEPT !.sequence = @ + 1]
    IN  RefreshContact(
            [counted EXCEPT !.outcome = IF counted.targetHp <= 0 THEN "success"
                                        ELSE IF counted.sequence >= Limit THEN "decision_limit"
                                        ELSE @])

-----------------------------------------------------------------------------
(* CapabilityScorer.score, from the frame alone                            *)

ValueOf(f, key) == (CHOOSE c \in f.claims : c.key = key).value
PlaceOf(f, id) == (CHOOSE e \in f.entities : e.id = id).at[2]
Contacts(f) == {e \in f.entities : e.kind = "contact" /\ e.at # None}

Nearest(f, x) == CHOOSE d \in 0..8 : /\ \E e \in Contacts(f) : Distance(e.at[2], x) = d
                                     /\ \A e \in Contacts(f) : Distance(e.at[2], x) >= d

Score(f, act) ==
    LET x == PlaceOf(f, f.actor) IN
    CASE act.operation \in {"attack", "fire"} ->
            IF ValueOf(f, 3) = 1 /\ Distance(x, PlaceOf(f, act.target)) <= ValueOf(f, 2)
            THEN 100 ELSE -10
      [] act.operation = "move" ->
            IF Contacts(f) = {} THEN -10
            ELSE Nearest(f, x) - Nearest(f, act.destination[2])
      [] act.operation = "wait" -> 0
      [] act.operation = "answer" -> 1
      [] OTHER -> -10
=============================================================================
