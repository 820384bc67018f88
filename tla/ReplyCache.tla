----------------------------- MODULE ReplyCache -----------------------------
(***************************************************************************)
(* The duplicate suppression of RpcService (src/qudgym/rpc.py): completed  *)
(* replies by request identifier, the one used longest ago first, as the   *)
(* OrderedDict `_cache' keeps them.  An entry remembers the operation it   *)
(* answered; the code compares the operations' JSON.                       *)
(***************************************************************************)
EXTENDS Naturals, SequencesExt

CONSTANTS RequestId,     \* request identifiers the callers use
          CacheSize      \* cache_size

ASSUME CacheAssumption == CacheSize \in Nat \ {0}

VARIABLE cache

Cached(id) == \E i \in DOMAIN cache : cache[i].id = id

\* Mutant: a hit does not count as use, so insertion order decides evictions.
TouchedNot(i) == cache

Touched(i) == Append(RemoveAt(cache, i), cache[i])           \* move_to_end

\* One entry more than fits, at most: the `while' removes one.
Evicted(c) == IF Len(c) > CacheSize THEN Tail(c) ELSE c      \* popitem

\* Mutant: the operation is not compared, only the identifier.
MatchesId(e, id, op) == e.id = id

Matches(e, id, op) == e.id = id /\ e.op = op

\* Same identifier, same operation: the stored reply counts as used again.
Hit(id, op) == \E i \in DOMAIN cache : /\ Matches(cache[i], id, op)
                                       /\ cache' = Touched(i)

\* Same identifier, other operation: an error that is not stored.
Conflict(id, op) == /\ Cached(id)
                    /\ \A i \in DOMAIN cache : ~Matches(cache[i], id, op)
                    /\ UNCHANGED cache

\* Mutant: the operation is filed where the reply belongs.
StoreOp(id, op, reply) ==
    cache' = Evicted(Append(cache, [id |-> id, op |-> op, reply |-> op]))

\* A new answer, errors included, is stored at the fresh end.
Store(id, op, reply) ==
    cache' = Evicted(Append(cache, [id |-> id, op |-> op, reply |-> reply]))

\* After Hit and after Store the answer given is the last entry's.
LatestReply == cache[Len(cache)].reply
=============================================================================
