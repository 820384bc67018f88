---------------------------- MODULE NemoAdapter ----------------------------
(***************************************************************************)
(* The NeMo Gym resources server (integrations/nemo_gym/qudgym/app.py) on  *)
(* the session manager (src/qudgym/sessions.py) and the presenter.         *)
(*                                                                         *)
(* One event loop serves the requests and no handler waits for anything,   *)
(* so a handler is one step.  The clock goes on in it all the same: now is *)
(* when it prunes, now' when it comes to its session.  A client keeps its  *)
(* rollout by a cookie; it may repeat any request it has made, with or     *)
(* without the cookie of the first reply, at any time.  A decision is      *)
(* <<internal session, number>>; an action names the decision it was       *)
(* chosen at, None is text that does not parse, and request identifier 0   *)
(* is a request without one.                                               *)
(***************************************************************************)
EXTENDS EvidenceMemory, Functions

CONSTANTS
    Cookie, Identity,        \* session cookies; rollout identities, 0 is none
    RequestId,               \* step request identifiers, 0 is none
    RepresentationOf,        \* the representation a task asks for
    MaxSessions, SessionTTL, \* SessionManager.max_sessions, ttl_seconds
    MaxReplies, MaxResets,   \* 256 replies per session, 256 resets
    MaxClosed, ClosedTTL,    \* closed_step_cache_max_sessions, _ttl_seconds
    Limit,                   \* max_decisions of the task
    MaxTime, MaxInternal     \* bounds on the clock and on the rollouts begun

ASSUME NemoLimits ==
    /\ {SessionTTL, ClosedTTL, MaxTime, MaxInternal} \subseteq Nat
    /\ {MaxSessions, MaxReplies, MaxResets, MaxClosed, Limit} \subseteq Nat \ {0}

VARIABLES
    now,         \* time.monotonic()
    manager,     \* SessionManager._sessions: internal key -> last use, decision
    state,       \* session_state: cookie -> rollout
    stepCache,   \* _step_cache: cookie -> replies, oldest first
    closed,      \* _closed_step_cache: cookies and times, oldest first
    faults,      \* _step_faults: cookie -> request
    resets,      \* _reset_cache, oldest first
    begun,       \* internal keys handed out so far
    reply,       \* history: the latest reply
    counted,     \* history: how often a request was counted as an attempt,
                 \* until its reply is given up for younger ones
    onto,        \* history: rollouts moved to a cookie with a mark of its own
    served,      \* history: cookies and the tasks they were reset for
    lapsed       \* history: sessions reaped after their cookie was looked at

srvVars == <<manager, state, stepCache, closed, faults, resets, begun>>
nemoVars == <<now, srvVars, reply, counted, onto, served, lapsed>>

Without(f, xs) == Restrict(f, DOMAIN f \ xs)
Put(f, x, v) == [y \in DOMAIN f \cup {x} |-> IF y = x THEN v ELSE f[y]]
Empty == [x \in {} |-> 0]
NoReply == [kind |-> "none"]            \* or an error, which says nothing

NemoInit ==
    /\ now = 0 /\ manager = Empty /\ state = Empty /\ stepCache = Empty
    /\ closed = <<>> /\ faults = Empty /\ resets = <<>> /\ begun = 0
    /\ reply = NoReply /\ counted = Empty /\ onto = {} /\ served = {} /\ lapsed = {}

-----------------------------------------------------------------------------
(* Pruning comes first in every handler.                                   *)

Cookies(s) == {s[i].cookie : i \in DOMAIN s}

\* The marks of other cookies than cs.
Unmarked(marks, cs) == Only(marks, {m \in ToSet(marks) : m.cookie \notin cs})

\* _reap of the manager
ReapedAt(time) == Restrict(manager, {i \in DOMAIN manager : time - manager[i].used <= SessionTTL})

\* by way of active_keys
Reaped == ReapedAt(now)

\* _prune_closed_step_caches: from the oldest on, first by age, then by number.
PrunedAt(marks, time) ==
    Newest(Only(marks, {m \in ToSet(marks) : time - m.at <= ClosedTTL}), MaxClosed)

ForgottenAt(marks, time) == Cookies(marks) \ Cookies(PrunedAt(marks, time))

Pruned == PrunedAt(closed, now)
Forgotten == ForgottenAt(closed, now)

\* Rollouts the manager has reaped lose their cookie.
Expired == {c \in DOMAIN state : state[c].internal \notin DOMAIN Reaped}

Gone == Forgotten \cup Expired
Marks == Unmarked(Pruned, Expired)
Live == Without(state, Expired)
Replies == Without(stepCache, Gone)
Faults == Without(faults, Gone)

\* _mark_closed_step_cache
Mark(marks, replies, c, time) ==
    IF c \in DOMAIN replies
    THEN Append(Unmarked(marks, {c}), [cookie |-> c, at |-> time])
    ELSE marks

\* close_session, on what the caller has left of the adapter's tables
Close(c, marks, replies, failed, sessions, live) ==
    LET marked == Mark(marks, replies, c, now')
        forgotten == ForgottenAt(marked, now')
    IN
    /\ closed' = PrunedAt(marked, now')
    /\ stepCache' = Without(replies, forgotten)
    /\ faults' = Without(failed, forgotten \cup {c})
    /\ state' = Without(live, {c})
    /\ manager' = IF c \in DOMAIN live THEN Without(sessions, {live[c].internal}) ELSE sessions

\* The client closes, as often as it likes; this path does not look for rollouts
\* that expired.
CloseEndpoint(c) ==
    /\ UNCHANGED <<now, resets, begun, counted, onto, served, lapsed>>
    /\ Close(c, Pruned, Without(stepCache, Forgotten), Without(faults, Forgotten), manager, state)
    /\ reply' = NoReply

\* A handler that goes on to its session reaps once more, later; a cookie it has
\* looked at already keeps its rollout.
GoOn == /\ now' \in now..MaxTime /\ now' <= now + 1
        /\ lapsed' = lapsed \cup (DOMAIN Reaped \ DOMAIN ReapedAt(now'))

-----------------------------------------------------------------------------
(* reset                                                                   *)

Observation(i, n) == [episode |-> i, decision |-> <<i, n>>, turn |-> n,
                      claims |-> {}, events |-> <<>>]

Cached(k) == {r \in ToSet(resets) : k # 0 /\ r.key = k /\ r.cookie \in DOMAIN Live}

ResetReply(c, k, i) == [kind |-> "reset", cookie |-> c, key |-> k, internal |-> i]

\* Mutant: the retry's cookie gets the observation and not the rollout.
StateStays(from, to) == Live

MoveState(from, to) == Put(Without(Live, {from}), to, Live[from])

\* Mutant: the replies stay behind under the old cookie.
LeaveReplies(from, to) == Replies

MoveReplies(from, to) ==
    IF from \in DOMAIN Replies THEN Put(Without(Replies, {from}), to, Replies[from])
    ELSE Replies

\* The retry of a reset whose rollout is open: under another cookie the rollout
\* and its replies move there; the replies and the mark the target may have
\* from an earlier rollout stay.
ResetAgain(c, k) ==
    \E r \in Cached(k) :
        /\ r.cookie = c \/ c \notin DOMAIN Live
        /\ IF r.cookie = c
           THEN /\ state' = Live /\ stepCache' = Replies /\ closed' = Marks
                /\ faults' = Faults /\ resets' = resets
           ELSE /\ state' = MoveState(r.cookie, c)
                /\ stepCache' = MoveReplies(r.cookie, c)
                /\ closed' = Unmarked(Marks, {r.cookie})
                /\ faults' = IF r.cookie \in DOMAIN Faults
                             THEN Put(Without(Faults, {r.cookie}), c, Faults[r.cookie])
                             ELSE Faults
                /\ resets' = [j \in DOMAIN resets |->
                                IF resets[j] = r THEN [r EXCEPT !.cookie = c] ELSE resets[j]]
        /\ manager' = Reaped
        /\ reply' = ResetReply(c, k, r.internal)
        /\ onto' = IF r.cookie # c /\ c \in Cookies(Marks)
                   THEN onto \cup {Live[r.cookie].internal} ELSE onto
        /\ served' = served \cup {<<c, k>>}
        /\ UNCHANGED <<now, begun, counted, lapsed>>

\* 409: the retry comes under a cookie with a rollout of its own.
ResetConflict(c, k) ==
    /\ \E r \in Cached(k) : r.cookie # c /\ c \in DOMAIN Live
    /\ manager' = Reaped /\ state' = Live /\ stepCache' = Replies
    /\ closed' = Marks /\ faults' = Faults
    /\ reply' = NoReply
    /\ UNCHANGED <<now, resets, begun, counted, onto, served, lapsed>>

\* Mutant: the cookie's previous rollout is left open in the manager.
KeepOldRollout(c) == ReapedAt(now')

\* _forget_step_cache, close_session, then SessionManager.seed.
OthersSessions(c) ==
    IF c \in DOMAIN Live THEN Without(ReapedAt(now'), {Live[c].internal}) ELSE ReapedAt(now')

OtherResets(k) == Only(resets, {r \in ToSet(resets) : r.key # k})

ResetFresh(c, k, rep, fits) ==
    LET i == begun + 1
        first == Render(NewPresenter(rep), Observation(i, 0), fits)
        room == Cardinality(DOMAIN OthersSessions(c)) < MaxSessions
    IN
    /\ Cached(k) = {} /\ (fits \/ rep # "native")
    /\ GoOn
    /\ room => begun < MaxInternal
    /\ closed' = Unmarked(Marks, {c})
    /\ stepCache' = Without(Replies, {c})
    /\ faults' = Without(Faults, {c})
    /\ IF room /\ first.ok
       THEN /\ begun' = i
            /\ manager' = Put(OthersSessions(c), i, [used |-> now', number |-> 0])
            /\ state' = Put(Live, c, [internal |-> i, attempts |-> 0, faulted |-> FALSE,
                                      presenter |-> first.presenter])
            /\ resets' = IF k = 0 THEN resets
                         ELSE Newest(Append(OtherResets(k),
                                            [key |-> k, cookie |-> c, internal |-> i]),
                                     MaxResets)
            /\ reply' = ResetReply(c, k, i)
       ELSE \* 503 capacity, or 500 and the new session is closed again
            /\ begun' = IF room THEN i ELSE begun
            /\ manager' = OthersSessions(c)
            /\ state' = Without(Live, {c})
            /\ resets' = OtherResets(k)
            /\ reply' = NoReply
    /\ served' = served \cup {<<c, k>>}
    /\ UNCHANGED <<counted, onto>>

-----------------------------------------------------------------------------
(* step                                                                    *)

\* Actions a client can have: any decision it was shown, or no action at all.
Actions == {None} \cup {<<i, n>> : i \in 1..begun, n \in 0..Limit-1}

\* What _cached_step finds for the request: nothing, the reply, or a refusal.
ReplyTo(c, id) == {r \in ToSet(IF c \in DOMAIN Replies THEN Replies[c] ELSE <<>>) :
                     id # 0 /\ c \notin DOMAIN Faults /\ r.id = id}

\* Mutant: the identifier alone is compared.
SameIdOnly(r, act) == TRUE

SameRequest(r, act) == r.act = act                        \* the fingerprint

Touched(c) == IF c \in Cookies(Marks)
              THEN Append(Unmarked(Marks, {c}), [cookie |-> c, at |-> now])
              ELSE Marks

\* The base class closes the session after a reply that ended the rollout.
Answer(r, act, c, marks, replies, sessions, live) ==
    /\ reply' = IF r.at = None THEN NoReply ELSE [kind |-> "moved", act |-> act, at |-> r.at]
    /\ IF r.ended THEN Close(c, marks, replies, Faults, sessions, live)
       ELSE /\ closed' = marks /\ stepCache' = replies /\ faults' = Faults
            /\ manager' = sessions /\ state' = live

StepAgain(c, id, act) ==
    \E r \in ReplyTo(c, id) :
        /\ UNCHANGED <<now, resets, begun, counted, onto, served, lapsed>>
        /\ SameRequest(r, act)
        /\ Answer(r, act, c, Touched(c), Replies, Reaped, Live)

\* 409 for an identifier used for another action, 410 for a missing rollout,
\* 500 for a faulted one: nothing but the pruning happens.
StepRefused(c) ==
    /\ \E id \in RequestId :
        \/ \E r \in ReplyTo(c, id), act \in Actions : ~SameRequest(r, act)
        \/ ReplyTo(c, id) = {} /\ c \notin DOMAIN Live
        \/ ReplyTo(c, id) = {} /\ c \in DOMAIN Live /\ Live[c].faulted
    /\ manager' = Reaped /\ state' = Live /\ stepCache' = Replies
    /\ closed' = Marks /\ faults' = Faults
    /\ reply' = NoReply
    /\ UNCHANGED <<now, resets, begun, counted, onto, served, lapsed>>

\* _cache_step
Replied(c, r) ==
    LET old == IF c \in DOMAIN Replies THEN Replies[c] ELSE <<>>
    IN  IF r.id = 0 THEN <<>> ELSE Append(Only(old, {x \in ToSet(old) : x.id # r.id}), r)

\* Mutant: every reply of an open rollout is kept.
KeptAll(c, r) == IF r.id = 0 THEN Replies ELSE Put(Replies, c, Replied(c, r))

Kept(c, r) == IF r.id = 0 THEN Replies ELSE Put(Replies, c, Newest(Replied(c, r), MaxReplies))

\* The attempts whose reply is given up for younger ones.
GivenUp(c, r) ==
    LET out == {Replied(c, r)[j] : j \in 1..Over(Replied(c, r), MaxReplies)}
    IN  {t \in DOMAIN counted : \E x \in out : t[1] = x.internal /\ t[2] = x.id}

Capped(attempts) == attempts >= Limit

\* The request is counted as an attempt.
Tally(i, id, act) ==
    LET once == <<i, id, act>> IN
    IF once \in DOMAIN counted THEN [counted EXCEPT ![once] = 2]
    ELSE IF id = 0 THEN counted ELSE Put(counted, once, 1)

\* What a step attempt finds: an open rollout, and no reply to the request.
Attempts(c, id) == c \in DOMAIN Live /\ ~Live[c].faulted /\ ReplyTo(c, id) = {}

\* The attempt is counted, and then the session turns out to have expired since
\* the cookie was looked at: 410, or 500 for an action that does not parse.
StepLapsed(c, id, act) ==
    LET i == Live[c].internal IN
    /\ Attempts(c, id)
    /\ GoOn /\ i \notin DOMAIN ReapedAt(now')
    /\ manager' = ReapedAt(now')
    /\ state' = [Live EXCEPT ![c] = [internal |-> i, attempts |-> Live[c].attempts + 1,
                                     faulted |-> FALSE, presenter |-> Live[c].presenter]]
    /\ stepCache' = Replies /\ closed' = Marks /\ faults' = Faults
    /\ reply' = NoReply
    /\ counted' = Tally(i, id, act)
    /\ UNCHANGED <<resets, begun, onto, served>>

\* A step attempt that reaches the rollout: counted, then played or refused
\* by the policy checks, then rendered.  over: the step ends the episode.
StepPlayed(c, id, act, over, fits) ==
    LET i == Live[c].internal
        n == Reaped[i].number
        moves == act = <<i, n>>
        m == IF moves THEN n + 1 ELSE n
        attempts == Live[c].attempts + 1
        view == Render(Live[c].presenter, Observation(i, m), fits)
        r == [id |-> id, act |-> act, internal |-> i,
              at |-> IF moves THEN <<i, m>> ELSE None,
              ended |-> (moves /\ (over \/ m >= Limit)) \/ Capped(attempts)]
        sessions == [ReapedAt(now') EXCEPT ![i] = [used |-> now', number |-> m]]
        live == [Live EXCEPT ![c] = [internal |-> i, attempts |-> attempts,
                                     faulted |-> ~view.ok, presenter |-> view.presenter]]
        tally == Tally(i, id, act)
    IN
    /\ Attempts(c, id)
    /\ (over => moves) /\ (fits \/ Live[c].presenter.representation # "native")
    /\ GoOn /\ i \in DOMAIN ReapedAt(now')
    /\ IF view.ok
       THEN /\ Answer(r, act, c, Marks, Kept(c, r), sessions, live)
            /\ counted' = Without(tally, GivenUp(c, r))
       ELSE \* a transition that cannot be shown is remembered as such
            /\ manager' = sessions /\ state' = live
            /\ stepCache' = Replies /\ closed' = Marks
            /\ faults' = IF moves /\ id # 0 THEN Put(Faults, c, [id |-> id, act |-> act])
                         ELSE Faults
            /\ reply' = NoReply
            /\ counted' = tally
    /\ UNCHANGED <<resets, begun, onto, served>>

-----------------------------------------------------------------------------
Tick == /\ now < MaxTime /\ now' = now + 1
        /\ reply' = NoReply
        /\ UNCHANGED <<srvVars, counted, onto, served, lapsed>>

NemoNext ==
    \/ Tick
    \/ \E c \in Cookie :
        \/ CloseEndpoint(c)
        \/ \E k \in Identity : \/ ResetAgain(c, k)
                               \/ ResetConflict(c, k)
                               \/ \E fits \in BOOLEAN : ResetFresh(c, k, RepresentationOf[k], fits)
        \/ StepRefused(c)
        \/ \E id \in RequestId, act \in Actions :
            \/ StepAgain(c, id, act)
            \/ StepLapsed(c, id, act)
            \/ \E over, fits \in BOOLEAN : StepPlayed(c, id, act, over, fits)

NemoSpec == NemoInit /\ [][NemoNext]_nemoVars

-----------------------------------------------------------------------------
(* Properties                                                              *)

\* Every variable keeps its type; the caches of replies, resets and marks keep
\* within their sizes, and a rollout's replies are never an empty cache.
NemoTypeOK ==
    /\ now \in 0..MaxTime /\ begun \in 0..MaxInternal
    /\ DOMAIN manager \subseteq 1..begun
    /\ \A i \in DOMAIN manager : /\ manager[i].used \in 0..now
                                 /\ manager[i].number \in 0..Limit
    /\ DOMAIN state \cup DOMAIN stepCache \cup DOMAIN faults \subseteq Cookie
    /\ \A c \in DOMAIN state : state[c].attempts \in Nat /\ state[c].faulted \in BOOLEAN
    /\ \A c \in DOMAIN stepCache : Len(stepCache[c]) \in 1..MaxReplies
    /\ Len(resets) \in 0..MaxResets /\ Len(closed) \in 0..MaxClosed
    /\ ToSet(closed) \subseteq [cookie : Cookie, at : Nat]
    /\ ToSet(resets) \subseteq [key : Identity \ {0}, cookie : Cookie, internal : Nat]
    /\ reply.kind \in {"none", "reset", "moved"}
    /\ onto \cup lapsed \subseteq 1..begun /\ served \subseteq Cookie \X Identity
    /\ \A t \in DOMAIN counted : t[1] \in 1..begun

\* Each open session of the manager is held by one cookie, and no cookie holds
\* a session that another one holds or that is gone, unless it expired under a
\* handler: failed resets, retried resets and expiry neither leak a session nor
\* share it.  Nor do replies leak: they are kept for open rollouts and for marked
\* closed ones, which pruning finds.
SessionsOwned ==
    /\ \A c \in DOMAIN state : state[c].internal \in DOMAIN manager \cup lapsed
    /\ \A i \in DOMAIN manager : \E c \in DOMAIN state : state[c].internal = i
    /\ \A c, d \in DOMAIN state : state[c].internal = state[d].internal => c = d
    /\ Cardinality(DOMAIN manager) <= MaxSessions
    /\ DOMAIN stepCache \subseteq DOMAIN state \cup Cookies(closed)

\* What a client is told happened to its action happened to that action: the
\* transition out of the very decision it names, whoever repeats the request,
\* whatever became of the rollout, and whatever the cookie was used for before.
AnswersItsAction ==
    reply.kind = "moved" =>
        reply.act # None /\ reply.at = <<reply.act[1], reply.act[2] + 1>>

\* A retried request costs the rollout no second attempt, unless its reply was
\* given up for younger ones, or the rollout was moved to a cookie that still
\* had a mark of an earlier rollout; that mark dates the replies of both.  The
\* last attempt ends the rollout: one with no attempt left is open only if it
\* is faulted or its session has expired, and takes no step anyway.
CountedOnce ==
    /\ \A t \in DOMAIN counted : counted[t] = 1 \/ t[1] \in onto
    /\ \A c \in DOMAIN state : /\ state[c].attempts <= Limit
                               /\ state[c].attempts = Limit =>
                                    state[c].faulted \/ state[c].internal \notin DOMAIN manager

\* As long as no cookie was reset for two tasks (no identity counts as one), the
\* cookie of an answered reset holds the rollout whose first observation it was
\* given, in the representation of the task: "Reset identities include the
\* selected representation" (docs/AGENT_EYE.md:171).  In any case it holds an
\* open one; but the reset cache outlives its cookie's next reset, and the
\* rollout may then be another task's.
OneTaskPerCookie == \A s, t \in served : s[1] = t[1] => s = t

ResetHandsOver ==
    reply.kind = "reset" =>
        /\ reply.cookie \in DOMAIN state
        /\ OneTaskPerCookie =>
              /\ state[reply.cookie].internal = reply.internal
              /\ state[reply.cookie].presenter.representation = RepresentationOf[reply.key]

\* "Repeated identical decisions are idempotent" (docs/AGENT_EYE.md:98): an
\* open rollout can be shown its current decision again, as every rejected
\* action makes the adapter do.
RepeatedDecisionRenders ==
    \A c \in DOMAIN state :
        LET i == state[c].internal IN
        (~state[c].faulted /\ i \in DOMAIN manager)
            => Render(state[c].presenter, Observation(i, manager[i].number), TRUE).ok
=============================================================================
