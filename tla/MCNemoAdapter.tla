--------------------------- MODULE MCNemoAdapter ---------------------------
\* NemoAdapter for TLC: the tasks alternate between the two representations,
\* and cookies are interchangeable.
EXTENDS NemoAdapter

MCRepresentation == [k \in Identity |-> IF k % 2 = 0 THEN "native" ELSE "agent-eye-v1"]
\* What the cookies were reset for decides nothing that nemo_rollouts asks, nor
\* does a lapsed session that no cookie holds: its key is never handed out again.
MCView == <<now, srvVars, reply, counted, onto,
            lapsed \cap {state[c].internal : c \in DOMAIN state}>>
MCSymmetry == Permutations(Cookie) \cup Permutations(RequestId \ {0})
=============================================================================
