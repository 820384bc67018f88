----------------------------- MODULE MCAgentEye -----------------------------
\* AgentEye for TLC: fewer than ten contacts, whose names sort as they count.
EXTENDS AgentEye

MCHandles == <<"c1", "c2", "c3", "c4", "c5", "c6">>
MCHandleRank == [n \in 1..Limit + 1 |-> n]
=============================================================================
