---------------------------- MODULE ReplyWindow ----------------------------
(***************************************************************************)
(* What duplicate suppression promises.  The caller of the cache is        *)
(* RpcService.handle with the backend left out: an answer that has to be   *)
(* computed may be any reply.                                              *)
(***************************************************************************)
EXTENDS ReplyCache, FiniteSets

CONSTANTS Content,    \* operations, as their JSON tells them apart
          Reply       \* replies the backend may compute

VARIABLES
    given,       \* history: the operation and the reply last computed for each id
    returned,    \* what the latest call returned
    since        \* history: the requests answered after each one's last answer

windowVars == <<cache, given, returned, since>>

Answered(id) == since' = [x \in RequestId |-> IF x = id THEN {} ELSE since[x] \cup {id}]

WindowInit ==
    /\ cache = <<>>
    /\ given = {}
    /\ returned = {}
    /\ since = [id \in RequestId |-> {}]

ReturnStored(id, op) ==
    /\ Hit(id, op)
    /\ returned' = {[id |-> id, op |-> op, reply |-> LatestReply']}
    /\ Answered(id)
    /\ UNCHANGED given

ReturnConflict(id, op) ==
    /\ Conflict(id, op)
    /\ returned' = {}
    /\ UNCHANGED <<given, since>>

Compute(id, op) ==
    /\ ~Cached(id)
    /\ \E reply \in Reply :
          /\ Store(id, op, reply)
          /\ returned' = {[id |-> id, op |-> op, reply |-> reply]}
          /\ given' = {g \in given : g.id # id}
                        \cup {[id |-> id, op |-> op, reply |-> reply]}
    /\ Answered(id)

WindowNext == \E id \in RequestId, op \in Content :
                 ReturnStored(id, op) \/ ReturnConflict(id, op) \/ Compute(id, op)

WindowSpec == WindowInit /\ [][WindowNext]_windowVars

-----------------------------------------------------------------------------
\* Every variable keeps its type; at most CacheSize replies are kept, one for
\* each identifier.
WindowTypeOK ==
    LET Entry == [id : RequestId, op : Content, reply : Reply]
    IN  /\ cache \in Seq(Entry) /\ Len(cache) <= CacheSize
        /\ \A i, j \in DOMAIN cache : cache[i].id = cache[j].id => i = j
        /\ given \subseteq Entry
        /\ returned \subseteq Entry
        /\ since \in [RequestId -> SUBSET RequestId]

\* Whoever repeats a request is told what was computed for that very request:
\* never the reply to another operation, never a superseded one.
RepeatsTheAnswer == returned \subseteq given

\* An identifier among the CacheSize answered last is not computed again, be it
\* for the same operation or for another one (docs/PROTOCOL.md, "within that
\* window returns the stored reply").
ComputedOncePerWindow ==
    [][\A id \in RequestId :
          /\ \/ ~Cached(id) /\ Cached(id)'
             \/ \E g \in given' : g.id = id /\ g \notin given
          /\ \E g \in given : g.id = id
          => Cardinality(since[id]) >= CacheSize]_windowVars
=============================================================================
