--------------------------- MODULE MCMockBackend ---------------------------
(* TLC instance of MockBackend: one seed that hurts with every draw, the   *)
(* last time by more than is left, and one that alternates; enough decisions *)
(* to die, to leave and to run out.                                          *)
EXTENDS MockBackend

MCNoise == [harsh |-> [n \in 0 .. MaxDecisions |-> IF n = 2 THEN 1 ELSE 2],
            mixed |-> [n \in 0 .. MaxDecisions |-> n % 3]]

\* Contacts under one name twice, the second time as something else, under the
\* player's name or one the memory reserves, in the zone and outside it.
MCCrowds ==
    LET Contact(id, x, name, status) ==
            [id |-> id, x |-> x, y |-> 2, name |-> name, status |-> status]
    IN  {<<>>,
         <<Contact("rat", 2, 1, 1), Contact("rat", 3, 2, Null)>>,
         <<Contact("rat", -1, 1, Null), Contact("legacy-player", 2, 1, 1),
           Contact("cell:", 2, 1, Null), Contact("bat", 2, 1, 2)>>}
=============================================================================
