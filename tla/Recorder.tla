------------------------------ MODULE Recorder ------------------------------
(***************************************************************************)
(* SessionRecorder of src/qudgym/recording.py: one stream of start, end    *)
(* and mark events for a session of an environment, and the projection of  *)
(* that stream to OpenTelemetry spans.                                     *)
(*                                                                         *)
(* A lock makes every operation one step, except that a model call runs    *)
(* outside of it between its start and its end.  A write may be refused    *)
(* by the event budget, by the byte budget (any line, at any time) or by   *)
(* the file; then the operation ends where it is.  A line the file failed  *)
(* to flush may stay in its buffer and reach it all the same.  What the    *)
(* environment or a model call raises may be no Exception (an interrupt, a *)
(* cancellation): then nothing more is written either.                     *)
(***************************************************************************)
EXTENDS Integers, SequencesExt

CONSTANTS MaxEvents,         \* RecordingConfig.max_events
          MaxScopes,         \* bound on the scopes begun
          MaxMarks,          \* bound on the marks in the file
          Clock,             \* what the clock may read, in microseconds
          MaxStamp,          \* bound on the stamps given out
          Short              \* the stamps that are read back one short

ASSUME RecorderLimits == {MaxEvents, MaxScopes, MaxMarks, MaxStamp} \subseteq Nat
ASSUME RecorderTimes == Clock \subseteq Nat /\ Short \subseteq Nat

VARIABLES
    file,      \* the events in the file, or in the buffer in front of it
    events,    \* _events, the writes that succeeded
    last,      \* _last_microseconds, the last stamp given out
    root,      \* _root_uuid, 0 is none
    rootClosed, closed,
    env,       \* QudEnv: holds (current is not None), uncertain
    calls,     \* model calls between their start and their end
    ids,       \* identifiers handed out
    ran,       \* history: what env.step did for each tool scope
    failed     \* history: how operations have been cut short so far

recVars == <<file, events, last, root, rootClosed, closed, env, calls, ids, ran, failed>>

NoRoot == 0

RecInit ==
    /\ file = <<>> /\ events = 0 /\ last = 0
    /\ root = NoRoot /\ rootClosed = FALSE /\ closed = FALSE
    /\ env = [holds |-> FALSE, uncertain |-> FALSE]
    /\ calls = {} /\ ids = 0 /\ ran = {} /\ failed = {}

-----------------------------------------------------------------------------
(* Events                                                                  *)

\* Mutant: the clock is believed.
Believed(previous, wall) == wall

\* _now_rfc3339: the clock may stand still, jump ahead or fall back, the stamps
\* increase.
Stamp(previous, wall) == IF wall > previous + 1 THEN wall ELSE previous + 1

\* The readings that matter now: a clock that is ahead, and 0 for any other.
Readings == {0} \cup {wall \in Clock : wall > last + 1}

\* _next_timestamp again and again: the j-th stamp after previous.
Stamps(previous, walls) ==
    LET times[j \in Nat] == IF j = 0 THEN previous ELSE Stamp(times[j - 1], walls[j])
    IN  times

\* What an event tells: "error" stands for {"error": ...}; the end of a failed
\* reset ("failed") and of a failed model call ("type") name the error elsewhere.
Event(kind, id, parent, category, tells) ==
    [kind |-> kind, id |-> id, parent |-> parent, category |-> category, tells |-> tells]

Start(id, parent, category) == Event("start", id, parent, category, "nothing")
End(id, parent, category, tells) == Event("end", id, parent, category, tells)
MarkUnder(parent) == Event("mark", 0, parent, "mark", "nothing")

\* _write of each of es in turn: n of them succeed, and why says how the next
\* one failed, or that an interrupt followed the last; the operation goes on only
\* if none did.  A line has its stamp before it is refused.  Bound: one line is
\* kept by the buffer.
Writes(es, n, why) == n <= Len(es) /\
    LET tried == IF n = Len(es) THEN es ELSE SubSeq(es, 1, n + 1)
        reach == IF why = "kept" THEN n + 1 ELSE n
    IN
    /\ why \in IF n = Len(es) THEN {"none", "interrupted"}
               ELSE {"refused", "kept"} \ (failed \cap {"kept"})
    /\ events + reach <= MaxEvents
    /\ events' = events + n
    /\ \E walls \in [1..Len(tried) -> Readings] :
        LET times == Stamps(last, walls) IN
        /\ last' = times[Len(tried)] /\ last' <= MaxStamp
        /\ file' = file \o [j \in 1..reach |-> [time |-> times[j], event |-> tried[j]]]
    /\ failed' = IF why = "none" THEN failed ELSE failed \cup {why}

Outcomes == {"none", "refused", "kept"}

-----------------------------------------------------------------------------
(* Operations                                                              *)

Recording == ~closed /\ root # NoRoot /\ ~rootClosed

\* What the environment does with a mutation, and the state that leaves it in.
EnvDoes(outcome) ==
    \/ outcome \in {"failed", "interrupted"} /\ UNCHANGED env
    \/ outcome = "ok" /\ ~env.uncertain /\ env' = [holds |-> TRUE, uncertain |-> FALSE]
    \/ outcome = "uncertain" /\ ~env.uncertain /\ env' = [env EXCEPT !.uncertain = TRUE]

Results == {"ok", "failed", "uncertain", "interrupted"}

\* An interrupt out of the environment is what ends an operation, and no other.
CutShort(outcome, why) == outcome = "interrupted" <=> why = "interrupted"

AfterReset(id, outcome) ==
    CASE outcome = "ok" -> <<MarkUnder(id)>>
      [] outcome = "interrupted" -> <<>>
      [] OTHER -> <<End(id, 0, "agent", "failed")>>

RootEnded(n, outcome) == outcome # "ok" /\ n = 2

Reset(n, why) ==
    LET id == ids + 1
        started == Start(id, 0, "agent")
    IN
    /\ ~closed /\ root = NoRoot /\ ids < MaxScopes
    /\ root' = id /\ ids' = id
    /\ \/ /\ n = 0 /\ Writes(<<started>>, n, why)
          /\ UNCHANGED <<rootClosed, env>>
       \/ \E outcome \in Results :
            /\ n \in 1..2
            /\ EnvDoes(outcome) /\ CutShort(outcome, why)
            /\ Writes(<<started>> \o AfterReset(id, outcome), n, why)
            /\ rootClosed' = RootEnded(n, outcome)
    /\ UNCHANGED <<closed, calls, ran>>

Before(f, t) == <<Start(f, root, "function"), Start(t, f, "tool")>>

\* Mutant: an error ends the tool scope only.
AfterTool(f, t, outcome) ==
    IF outcome = "ok"
    THEN <<End(t, f, "tool", "result"), End(f, root, "function", "outcome")>>
    ELSE IF outcome = "interrupted" THEN <<>>
    ELSE <<End(t, f, "tool", "error")>>

After(f, t, outcome) ==
    IF outcome = "ok"
    THEN <<End(t, f, "tool", "result"), End(f, root, "function", "outcome")>>
    ELSE IF outcome = "interrupted" THEN <<>>
    ELSE <<End(t, f, "tool", "error"), End(f, root, "function", "error")>>

\* Mutant: the environment steps before anything is written.
RunsAlways(n) == TRUE

\* env.step is reached when both start events are written.
Runs(n) == n >= 2

Step(n, why) ==
    LET f == ids + 1   t == ids + 2 IN
    /\ Recording /\ env.holds /\ t <= MaxScopes
    /\ ids' = t
    /\ IF Runs(n)
       THEN \E outcome \in Results :
              /\ EnvDoes(outcome) /\ CutShort(outcome, why)
              /\ Writes(Before(f, t) \o After(f, t, outcome), n, why)
              /\ ran' = ran \cup {[tool |-> t, outcome |-> outcome]}
       ELSE Writes(Before(f, t), n, why) /\ UNCHANGED <<env, ran>>
    /\ UNCHANGED <<root, rootClosed, closed, calls>>

FewMarks == Cardinality({j \in DOMAIN file : file[j].event.kind = "mark"}) < MaxMarks

\* The environment is reconciled before the mark is written.
Reconcile(n, why) ==
    /\ Recording /\ FewMarks
    /\ env' = [holds |-> FALSE, uncertain |-> FALSE]
    /\ Writes(<<MarkUnder(root)>>, n, why)
    /\ UNCHANGED <<root, rootClosed, closed, calls, ids, ran>>

LLMStart(n, why) ==
    /\ Recording /\ ids < MaxScopes
    /\ ids' = ids + 1
    /\ Writes(<<Start(ids', root, "llm")>>, n, why)
    /\ calls' = IF n = 1 THEN calls \cup {ids'} ELSE calls
    /\ UNCHANGED <<root, rootClosed, closed, env, ran>>

\* The end of a call that outlived the recording is refused.
LLMEnd(c, tells, n, why) ==
    /\ calls' = calls \ {c}
    /\ IF closed THEN /\ n = 0 /\ tells = "nothing" /\ why = "refused"
                      /\ failed' = failed \cup {why}
                      /\ \E wall \in Readings : last' = Stamp(last, wall) /\ last' <= MaxStamp
                      /\ UNCHANGED <<file, events>>
       ELSE Writes(<<End(c, root, "llm", tells)>>, n, why)
    /\ UNCHANGED <<root, rootClosed, closed, env, ids, ran>>

\* What the call's body raises is no Exception: the call gets no end.
LLMInterrupted(c) ==
    /\ calls' = calls \ {c} /\ failed' = failed \cup {"interrupted"}
    /\ UNCHANGED <<file, events, last, root, rootClosed, closed, env, ids, ran>>

\* record_mark, and each of the two marks of paused
Mark(n, why) ==
    /\ Recording /\ FewMarks
    /\ Writes(<<MarkUnder(root)>>, n, why)
    /\ UNCHANGED <<root, rootClosed, closed, env, calls, ids, ran>>

Close(n, why) ==
    /\ ~closed /\ closed' = TRUE
    /\ IF root # NoRoot /\ ~rootClosed
       THEN /\ Writes(<<End(root, 0, "agent", "final")>>, n, why)
            /\ rootClosed' = (n = 1)
       ELSE /\ n = 0 /\ why = "none"
            /\ UNCHANGED <<file, events, last, failed, rootClosed>>
    /\ UNCHANGED <<root, env, calls, ids, ran>>

\* The caller uses the environment itself: a replay, a reset or a restore.
EnvAccepts ==
    /\ Recording /\ env' = [holds |-> TRUE, uncertain |-> FALSE] /\ env' # env
    /\ UNCHANGED <<file, events, last, root, rootClosed, closed, calls, ids, ran, failed>>

RecNext ==
    \/ EnvAccepts
    \/ \E c \in calls : LLMInterrupted(c)
    \/ \E n \in 0..4, why \in Outcomes \cup {"interrupted"} : Reset(n, why) \/ Step(n, why)
    \/ \E n \in 0..1, why \in Outcomes :
        \/ Reconcile(n, why) \/ Mark(n, why) \/ LLMStart(n, why) \/ Close(n, why)
        \/ \E c \in calls, tells \in {"nothing", "type"} : LLMEnd(c, tells, n, why)

RecSpec == RecInit /\ [][RecNext]_recVars

-----------------------------------------------------------------------------
(* The projection to spans                                                 *)

\* _timestamp_to_microseconds goes through a float and may come out one short.
Micros(time) == IF time \in Short THEN time - 1 ELSE time

\* read_atof: a stable sort by time
Read(f) ==
    LET earlier(i, j) == \/ Micros(f[i].time) < Micros(f[j].time)
                         \/ Micros(f[i].time) = Micros(f[j].time) /\ i < j
        rank(i) == Cardinality({j \in DOMAIN f : earlier(j, i)})
    IN  [k \in DOMAIN f |-> f[CHOOSE i \in DOMAIN f : rank(i) = k - 1].event]

\* genai_span_attributes
Operation(category) ==
    CASE category = "agent" -> "invoke_agent" [] category = "tool" -> "execute_tool"
      [] category = "llm" -> "chat" [] OTHER -> "invoke_workflow"

\* _end_attributes: the outcome or the error type a span shows.
Shows(tells) == CASE tells \in {"result", "outcome"} -> "outcome"
                  [] tells \in {"error", "type"} -> "error type"
                  [] OTHER -> "nothing"

IsOpen(spans, id) == id \in DOMAIN spans /\ ~spans[id].ended

\* One event of the loop of export_genai_otel; a mark adds to a span what no
\* property asks about.
Project(spans, e) ==
    CASE e.kind = "start" ->
            [s \in DOMAIN spans \cup {e.id} |->
               IF s # e.id THEN spans[s]
               ELSE [operation |-> Operation(e.category),
                     parent |-> IF IsOpen(spans, e.parent) THEN e.parent ELSE 0,
                     error |-> FALSE, shows |-> "nothing", ended |-> FALSE]]
      [] e.kind = "end" /\ IsOpen(spans, e.id) ->
            [spans EXCEPT ![e.id] = [@ EXCEPT !.shows = Shows(e.tells), !.ended = TRUE,
                                              !.error = e.tells = "error"]]
      [] OTHER -> spans

\* The spans after the first n of the events es.
Projected(es) ==
    LET spans[n \in Nat] == IF n = 0 THEN <<>> ELSE Project(spans[n - 1], es[n])
    IN  spans

\* Mutant: spans that were never ended are ended as if nothing had happened.
ExportLenient(f) == Projected(Read(f))[Len(f)]

Export(f) ==
    LET spans == Projected(Read(f))[Len(f)]
    IN  [s \in DOMAIN spans |-> [spans[s] EXCEPT !.error = @ \/ ~spans[s].ended]]

-----------------------------------------------------------------------------
(* Properties                                                              *)

Ids(f, kind) == {f[j].event.id : j \in {k \in DOMAIN f : f[k].event.kind = kind}}
Open(f) == Ids(f, "start") \ Ids(f, "end")

\* Every variable keeps its type; the events in the file are strictly ordered
\* in time, whatever the clock does, and none has a stamp still to be given out.
RecTypeOK ==
    /\ events \in 0..MaxEvents /\ events <= Len(file)
    /\ \A j, k \in DOMAIN file : j < k => file[j].time < file[k].time
    /\ last \in 0..MaxStamp /\ \A j \in DOMAIN file : file[j].time \in 1..last
    /\ {root, ids} \subseteq 0..MaxScopes
    /\ {rootClosed, closed, env.holds, env.uncertain} \subseteq BOOLEAN
    /\ calls \subseteq 1..ids
    /\ ran \subseteq [tool : 1..ids, outcome : Results]
    /\ failed \subseteq Outcomes \cup {"interrupted"}

\* The stream is a tree of scopes: an event sits under a scope that is open, or
\* under a root whose start was refused; an end ends an open scope.  A flush
\* that failed and reached the file after all may break this.  As long as no
\* operation was cut short, the open scopes are the ones at work: the root until
\* it is closed, and the model calls.
ScopesNest ==
    /\ "kept" \notin failed =>
        \A k \in DOMAIN file :
            LET open == Open(SubSeq(file, 1, k - 1))
                e == file[k].event
            IN  /\ e.kind = "start" => e.id \notin Ids(SubSeq(file, 1, k - 1), "start")
                /\ e.kind = "end" => \/ e.id \in open
                                     \/ e.id = root /\ root \notin Ids(file, "start")
                /\ \/ e.parent \in open \cup {0}
                   \/ e.parent = root /\ root \notin Ids(file, "start")
    /\ failed = {} =>
        Open(file) = calls \cup (IF root = NoRoot \/ rootClosed THEN {} ELSE {root})

\* The record tells the truth about the environment, whatever writes fail: no
\* step is taken that the file does not announce, and no end of a step tells
\* another story than the environment did.
RecordIsTruthful ==
    /\ \A r \in ran : r.tool \in Ids(file, "start")
    /\ \A j \in DOMAIN file :
        LET e == file[j].event IN
        (e.kind = "end" /\ e.category = "tool") =>
            \E r \in ran : r.tool = e.id /\ (e.tells = "result" <=> r.outcome = "ok")

\* So does the projection: a step taken is a span that shows an outcome exactly
\* when the step succeeded and its end was written, and is in error otherwise;
\* and tool calls sit under decisions, these under the session.
ProjectionIsTruthful ==
    LET spans == Export(file) IN
    /\ \A r \in ran :
        /\ r.tool \in DOMAIN spans
        /\ spans[r.tool].shows = "outcome" <=> r.outcome = "ok" /\ r.tool \in Ids(file, "end")
        /\ spans[r.tool].error <=> spans[r.tool].shows # "outcome"
    /\ \A s \in DOMAIN spans :
        LET p == spans[s].parent IN
        CASE spans[s].operation = "execute_tool" -> spans[p].operation = "invoke_workflow"
          [] spans[s].operation = "invoke_agent" -> p = 0
          [] OTHER -> p # 0 => spans[p].operation = "invoke_agent"
=============================================================================
